-------------------------- MODULE SessionContract --------------------------
(***************************************************************************)
(* The life of a session as the proxy sees it (the values of state in      *)
(* Proxy): it refuses activity once it has left "open", and Done and Close *)
(* report "done".  Session implements it, its fairness included, which is  *)
(* what Proxy assumes when it makes SessionEnds fair.                      *)
(***************************************************************************)
VARIABLE life

Init == life = "open"
Leave == life = "open" /\ life' = "closing"
Finish == life = "closing" /\ life' = "done"
Next == Leave \/ Finish
Spec == Init /\ [][Next]_life /\ WF_life(Finish)
=============================================================================
