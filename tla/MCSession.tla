----------------------------- MODULE MCSession -----------------------------
(* Model checking one session with a few callers.                          *)
EXTENDS Session, TLC

CONSTANTS a, b, c

Symmetry == Permutations(Callers)
=============================================================================
