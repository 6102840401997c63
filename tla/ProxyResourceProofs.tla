------------------------ MODULE ProxyResourceProofs ------------------------
(***************************************************************************)
(* What the orchestration core keeps count of and gives back, for every    *)
(* value of the constants: the byte counters of the queues, what is left   *)
(* when Serve returns, and the timer of a backend nobody uses.  The        *)
(* theorems at the end rest on the invariants of all the proof modules.    *)
(***************************************************************************)
EXTENDS ProxyQueueProofs, WellFoundedInduction

USE DEF gateVars, startupVars, queueVars, timerVars, lockVars, closeVars, sweepVars, monitorVars,
        serveVars, ctlVars

-----------------------------------------------------------------------------
(* Sums.  The library's fold is a recursive function on the subsets of its *)
(* index set.  Its table of partial sums exists and is unique because a    *)
(* collection of subsets of a finite set has a smallest member; the same   *)
(* fact stands for induction in the laws of sums below.                    *)

\* The element the fold takes next.
Chosen(s) == CHOOSE x \in s : TRUE
\* One entry of a table of partial sums g of f, and the whole table over the
\* subsets of U.
SumBody(f, g, s) == IF s = {} THEN 0 ELSE f[Chosen(s)] + g[s \ {Chosen(s)}]
Sums(f, g, U) == g = [s \in SUBSET U |-> SumBody(f, g, s)]

\* The library's sum is the entry of such a table for the whole set.
LEMMA FoldIsChosen ==
  ASSUME NEW f, NEW S
  PROVE  SumFunctionOnSet(f, S) = (CHOOSE g : Sums(f, g, S))[S]
  BY DEF SumFunctionOnSet, FoldFunctionOnSet, MapThenFoldSet, Sums, SumBody, Chosen

\* A non-empty collection of subsets of a finite set has a smallest one.
LEMMA SmallestSubset ==
  ASSUME NEW S, IsFiniteSet(S), NEW T, T \subseteq SUBSET S, T # {}
  PROVE  \E x \in T : \A y \in T : y \subseteq x => y = x
<1>1. IsWellFoundedOn(StrictSubsetOrdering(S), SUBSET S)
  BY FS_StrictSubsetOrderingWellFounded, FS_FiniteSubsetsOfFinite
<1>2. PICK x \in T : \A y \in T : ~(<<y, x>> \in StrictSubsetOrdering(S))
  BY <1>1, WFMin
<1> QED
  BY <1>2 DEF StrictSubsetOrdering

\* The chosen element is one.
LEMMA ChosenIn == ASSUME NEW s, s # {} PROVE Chosen(s) \in s
  BY DEF Chosen

\* Two tables of sums agree wherever both are defined.
LEMMA SumsAgree ==
  ASSUME NEW f, NEW S, IsFiniteSet(S), NEW g, NEW h, NEW U \in SUBSET S, NEW V \in SUBSET S,
         Sums(f, g, U), Sums(f, h, V), NEW t, t \subseteq U, t \subseteq V
  PROVE  g[t] = h[t]
<1> DEFINE D == {s \in SUBSET t : g[s] # h[s]}
<1> SUFFICES ASSUME D # {} PROVE FALSE
  OBVIOUS
<1>1. PICK s \in D : \A y \in D : y \subseteq s => y = s
  <2>1. D \subseteq SUBSET S
    OBVIOUS
  <2> HIDE DEF D
  <2> QED
    BY <2>1, SmallestSubset
<1>2. s \in SUBSET U /\ s \in SUBSET V
  BY <1>1
<1>3. g[s] = SumBody(f, g, s) /\ h[s] = SumBody(f, h, s)
  BY <1>2 DEF Sums
<1>4. CASE s = {}
  BY <1>1, <1>3, <1>4 DEF SumBody
<1>5. CASE s # {}
  <2>1. Chosen(s) \in s
    BY <1>5, ChosenIn
  <2>2. g[s \ {Chosen(s)}] = h[s \ {Chosen(s)}]
    BY <1>1, <2>1
  <2> QED
    BY <1>1, <1>3, <1>5, <2>2 DEF SumBody
<1> QED
  BY <1>4, <1>5

\* A table of sums exists for every finite set.
LEMMA SumsExist == ASSUME NEW f, NEW S, IsFiniteSet(S) PROVE \A U \in SUBSET S : \E g : Sums(f, g, U)
<1> DEFINE B == {U \in SUBSET S : ~\E g : Sums(f, g, U)}
<1> SUFFICES ASSUME B # {} PROVE FALSE
  OBVIOUS
<1>1. PICK U \in B : \A y \in B : y \subseteq U => y = U
  <2>1. B \subseteq SUBSET S
    OBVIOUS
  <2> HIDE DEF B
  <2> QED
    BY <2>1, SmallestSubset
<1>2. U \in SUBSET S /\ \A s \in SUBSET U : s # U => \E g : Sums(f, g, s)
  BY <1>1
<1> DEFINE Table(s) == CHOOSE g : Sums(f, g, s)
           G == [s \in SUBSET U |-> IF s = {} THEN 0
                                    ELSE f[Chosen(s)] + Table(s \ {Chosen(s)})[s \ {Chosen(s)}]]
<1>3. \A s \in SUBSET U : s # U => Sums(f, Table(s), s)
  BY <1>2
<1> HIDE DEF Table
<1>4. \A s \in SUBSET U : s # U => Table(s)[s] = G[s]
  <2> SUFFICES ASSUME NEW s \in SUBSET U, s # U PROVE Table(s)[s] = G[s]
    OBVIOUS
  <2>1. Table(s)[s] = SumBody(f, Table(s), s)
    BY <1>3 DEF Sums
  <2>2. CASE s = {}
    BY <2>1, <2>2 DEF SumBody
  <2>3. CASE s # {}
    <3> DEFINE r == s \ {Chosen(s)}
    <3>1. Chosen(s) \in s
      BY <2>3, ChosenIn
    <3>2. r \in SUBSET U /\ r # U /\ r \subseteq s /\ r \in SUBSET S /\ s \in SUBSET S
      BY <1>2, <3>1
    <3>3. Table(s)[r] = Table(r)[r]
      <4>1. Sums(f, Table(s), s) /\ Sums(f, Table(r), r)
        BY <1>3, <3>2
      <4> HIDE DEF r
      <4> QED
        BY <3>2, <4>1, SumsAgree
    <3> QED
      BY <2>1, <2>3, <3>3 DEF SumBody
  <2> QED
    BY <2>2, <2>3
<1>5. \A s \in SUBSET U : G[s] = SumBody(f, G, s)
  <2> SUFFICES ASSUME NEW s \in SUBSET U PROVE G[s] = SumBody(f, G, s)
    OBVIOUS
  <2>1. CASE s = {}
    BY <2>1 DEF SumBody
  <2>2. CASE s # {}
    <3>1. Chosen(s) \in s
      BY <2>2, ChosenIn
    <3>2. s \ {Chosen(s)} \in SUBSET U /\ s \ {Chosen(s)} # U
      BY <3>1
    <3> QED
      BY <1>4, <2>2, <3>2 DEF SumBody
  <2> QED
    BY <2>1, <2>2
<1>6. G = [s \in SUBSET U |-> G[s]]
  OBVIOUS
<1>7. Sums(f, G, U)
  <2> HIDE DEF G
  <2> QED
    BY <1>5, <1>6 DEF Sums
<1> QED
  BY <1>1, <1>7

\* The fold of the library sums a finite set element by element.
LEMMA SumUnfolds ==
  ASSUME NEW f, NEW S, IsFiniteSet(S)
  PROVE  SumFunctionOnSet(f, S) =
           IF S = {} THEN 0 ELSE f[Chosen(S)] + SumFunctionOnSet(f, S \ {Chosen(S)})
<1> DEFINE Table(s) == CHOOSE g : Sums(f, g, s)
           r == S \ {Chosen(S)}
<1>1. Sums(f, Table(S), S) /\ Sums(f, Table(r), r)
  BY SumsExist
<1>2. SumFunctionOnSet(f, S) = Table(S)[S] /\ SumFunctionOnSet(f, r) = Table(r)[r]
  BY FoldIsChosen
<1> HIDE DEF Table
<1>3. Table(S)[S] = SumBody(f, Table(S), S)
  BY <1>1 DEF Sums
<1>4. Table(S)[r] = Table(r)[r]
  <2>1. r \in SUBSET S /\ S \in SUBSET S
    OBVIOUS
  <2> HIDE DEF r
  <2> QED
    BY <1>1, <2>1, SumsAgree
<1> QED
  BY <1>2, <1>3, <1>4 DEF SumBody

\* The sum of nothing.
LEMMA SumOfNone == ASSUME NEW f PROVE SumFunctionOnSet(f, {}) = 0
  BY FS_EmptySet, SumUnfolds

\* A sum of natural numbers is one.
LEMMA SumIsNat ==
  ASSUME NEW f, NEW S, IsFiniteSet(S), \A x \in S : f[x] \in Nat
  PROVE  \A U \in SUBSET S : SumFunctionOnSet(f, U) \in Nat
<1> DEFINE B == {U \in SUBSET S : SumFunctionOnSet(f, U) \notin Nat}
<1> SUFFICES ASSUME B # {} PROVE FALSE
  OBVIOUS
<1>1. PICK U \in B : \A y \in B : y \subseteq U => y = U
  <2>1. B \subseteq SUBSET S
    OBVIOUS
  <2> HIDE DEF B
  <2> QED
    BY <2>1, SmallestSubset
<1>2. U \in SUBSET S /\ IsFiniteSet(U) /\ U # {}
  <2>1. SumFunctionOnSet(f, {}) \in Nat
    BY SumOfNone
  <2> QED
    BY <1>1, <2>1, FS_Subset
<1> DEFINE r == U \ {Chosen(U)}
<1>3. Chosen(U) \in U /\ r \in SUBSET S /\ r # U /\ r \subseteq U
  BY <1>2, ChosenIn
<1>4. SumFunctionOnSet(f, r) \in Nat /\ f[Chosen(U)] \in Nat
  BY <1>1, <1>2, <1>3
<1>5. SumFunctionOnSet(f, U) = f[Chosen(U)] + SumFunctionOnSet(f, r)
  BY <1>2, SumUnfolds
<1>6. SumFunctionOnSet(f, U) \in Nat
  <2> HIDE DEF r
  <2> QED
    BY <1>4, <1>5
<1> QED
  BY <1>1, <1>6

\* Any element may be taken out of a sum first.
LEMMA SumTakesOut ==
  ASSUME NEW f, NEW S, IsFiniteSet(S), \A x \in S : f[x] \in Nat
  PROVE  \A U \in SUBSET S : \A x \in U : SumFunctionOnSet(f, U) = f[x] + SumFunctionOnSet(f, U \ {x})
<1> DEFINE Good(U) == \A x \in U : SumFunctionOnSet(f, U) = f[x] + SumFunctionOnSet(f, U \ {x})
           B == {U \in SUBSET S : ~Good(U)}
<1> SUFFICES ASSUME B # {} PROVE FALSE
  OBVIOUS
<1>1. PICK U \in B : \A y \in B : y \subseteq U => y = U
  <2>1. B \subseteq SUBSET S
    OBVIOUS
  <2> HIDE DEF B
  <2> QED
    BY <2>1, SmallestSubset
<1>2. PICK x \in U : SumFunctionOnSet(f, U) # f[x] + SumFunctionOnSet(f, U \ {x})
  BY <1>1
<1>3. U \in SUBSET S /\ IsFiniteSet(U) /\ IsFiniteSet(U \ {x})
  BY <1>1, FS_Subset
<1> DEFINE c == Chosen(U)
<1>4. c \in U /\ SumFunctionOnSet(f, U) = f[c] + SumFunctionOnSet(f, U \ {c})
  BY <1>2, <1>3, ChosenIn, SumUnfolds
<1>5. x # c
  BY <1>2, <1>4
<1> DEFINE rest == SumFunctionOnSet(f, (U \ {c}) \ {x})
<1>6. SumFunctionOnSet(f, U \ {c}) = f[x] + rest
  <2>1. U \ {c} \in SUBSET S /\ U \ {c} # U /\ U \ {c} \subseteq U /\ x \in U \ {c}
    BY <1>3, <1>4, <1>5
  <2> QED
    BY <1>1, <2>1
<1>7. SumFunctionOnSet(f, U \ {x}) = f[c] + rest
  <2>1. U \ {x} \in SUBSET S /\ U \ {x} # U /\ U \ {x} \subseteq U /\ c \in U \ {x}
    BY <1>3, <1>4, <1>5
  <2>2. (U \ {x}) \ {c} = (U \ {c}) \ {x}
    OBVIOUS
  <2>3. SumFunctionOnSet(f, U \ {x}) = f[c] + SumFunctionOnSet(f, (U \ {x}) \ {c})
    BY <1>1, <2>1
  <2> QED
    BY <2>2, <2>3
<1>8. f[x] \in Nat /\ f[c] \in Nat /\ rest \in Nat
  <2>1. (U \ {c}) \ {x} \in SUBSET S
    BY <1>3
  <2> QED
    BY <1>3, <1>4, <2>1, SumIsNat
<1> HIDE DEF rest, c
<1>9. SumFunctionOnSet(f, U) = f[x] + (f[c] + rest)
  BY <1>4, <1>6, <1>8
<1> QED
  BY <1>2, <1>7, <1>9

\* What is left of a sum when some of its elements are taken out.
LEMMA SumSplits ==
  ASSUME NEW f, NEW S, IsFiniteSet(S), \A x \in S : f[x] \in Nat
  PROVE  \A T \in SUBSET S : SumFunctionOnSet(f, S) = SumFunctionOnSet(f, T) + SumFunctionOnSet(f, S \ T)
<1> DEFINE B == {T \in SUBSET S : SumFunctionOnSet(f, S) # SumFunctionOnSet(f, T) + SumFunctionOnSet(f, S \ T)}
<1> SUFFICES ASSUME B # {} PROVE FALSE
  OBVIOUS
<1>0. \A T \in SUBSET S : SumFunctionOnSet(f, T) \in Nat
  BY SumIsNat
<1>1. PICK T \in B : \A y \in B : y \subseteq T => y = T
  <2>1. B \subseteq SUBSET S
    OBVIOUS
  <2> HIDE DEF B
  <2> QED
    BY <2>1, SmallestSubset
<1>2. T # {}
  <2> SUFFICES ASSUME T = {} PROVE FALSE
    OBVIOUS
  <2>1. S \ T = S
    OBVIOUS
  <2> QED
    BY <1>0, <1>1, <2>1, SumOfNone
<1>3. PICK x : x \in T
  BY <1>2
<1>4. T \in SUBSET S /\ T \ {x} \in SUBSET S /\ T \ {x} # T /\ x \in S \ (T \ {x}) /\ S \ (T \ {x}) \in SUBSET S
  BY <1>1, <1>3
<1>5. SumFunctionOnSet(f, S) = SumFunctionOnSet(f, T \ {x}) + SumFunctionOnSet(f, S \ (T \ {x}))
  BY <1>1, <1>4
<1>6. SumFunctionOnSet(f, T) = f[x] + SumFunctionOnSet(f, T \ {x})
  BY <1>3, <1>4, SumTakesOut
<1>7. SumFunctionOnSet(f, S \ (T \ {x})) = f[x] + SumFunctionOnSet(f, S \ T)
  <2>1. (S \ (T \ {x})) \ {x} = S \ T
    BY <1>3
  <2>2. SumFunctionOnSet(f, S \ (T \ {x})) = f[x] + SumFunctionOnSet(f, (S \ (T \ {x})) \ {x})
    BY <1>4, SumTakesOut
  <2> QED
    BY <2>1, <2>2
<1>8. SumFunctionOnSet(f, T \ {x}) \in Nat /\ SumFunctionOnSet(f, S \ T) \in Nat /\ f[x] \in Nat
  BY <1>0, <1>4
<1>9. SumFunctionOnSet(f, S) = SumFunctionOnSet(f, T) + SumFunctionOnSet(f, S \ T)
  BY <1>5, <1>6, <1>7, <1>8
<1> QED
  BY <1>1, <1>9

\* A sum depends only on the values it sums.
LEMMA SumOfSame ==
  ASSUME NEW f, NEW h, NEW S, IsFiniteSet(S), \A x \in S : f[x] = h[x]
  PROVE  SumFunctionOnSet(f, S) = SumFunctionOnSet(h, S)
<1> DEFINE B == {U \in SUBSET S : SumFunctionOnSet(f, U) # SumFunctionOnSet(h, U)}
<1> SUFFICES ASSUME B # {} PROVE FALSE
  OBVIOUS
<1>1. PICK U \in B : \A y \in B : y \subseteq U => y = U
  <2>1. B \subseteq SUBSET S
    OBVIOUS
  <2> HIDE DEF B
  <2> QED
    BY <2>1, SmallestSubset
<1>2. U \in SUBSET S /\ IsFiniteSet(U) /\ U # {}
  BY <1>1, FS_Subset, SumOfNone
<1> DEFINE r == U \ {Chosen(U)}
<1>3. Chosen(U) \in U /\ r \in SUBSET S /\ r # U /\ r \subseteq U
  BY <1>2, ChosenIn
<1>4. SumFunctionOnSet(f, r) = SumFunctionOnSet(h, r) /\ f[Chosen(U)] = h[Chosen(U)]
  BY <1>1, <1>2, <1>3
<1>5. /\ SumFunctionOnSet(f, U) = f[Chosen(U)] + SumFunctionOnSet(f, r)
      /\ SumFunctionOnSet(h, U) = h[Chosen(U)] + SumFunctionOnSet(h, r)
  BY <1>2, SumUnfolds
<1> QED
  BY <1>1, <1>4, <1>5

-----------------------------------------------------------------------------
(* The byte counters.                                                      *)

Bytes == [s \in DOMAIN queues |-> queues[s].bytes]
QueueSound(q) ==
  /\ Len(q.packets) <= StartupBufferPackets /\ q.bytes <= StartupBufferBytesPerSession
  /\ q.bytes = SumFunction([i \in DOMAIN q.packets |-> q.packets[i].size])

Accounted ==
  /\ queuedBytes = SumFunctionOnSet(Bytes, DOMAIN queues) /\ queuedBytes <= StartupBufferBytesGlobal
  /\ \A s \in DOMAIN queues : QueueSound(queues[s])

\* The counters as the sums they stand for.
LEMMA AccountingForm == (QueueAccounting <=> Accounted) /\ (QueueAccounting' <=> Accounted')
  BY DEF QueueAccounting, Accounted, QueueSound, SumFunction, Bytes

\* The queues are finitely many and their byte counts natural numbers.
LEMMA BytesType ==
  ASSUME QueueType
  PROVE  /\ IsFiniteSet(DOMAIN queues) /\ (\A s \in DOMAIN queues : Bytes[s] \in Nat)
         /\ \A T \in SUBSET DOMAIN queues : SumFunctionOnSet(Bytes, T) \in Nat
<1>1. IsFiniteSet(DOMAIN queues)
  <2>1. IsFiniteSet(Session)
    BY FS_Interval, OptionsAssumption DEF Session
  <2> QED
    BY <2>1, FS_Subset DEF QueueType
<1>2. \A s \in DOMAIN queues : Bytes[s] \in Nat
  BY DEF QueueType, Queue, Bytes
<1> QED
  BY <1>1, <1>2, SumIsNat

\* removeQueue gives back what the queue held.
LEMMA RemoveAccounts ==
  ASSUME QueueType, QueueAccounting, NEW S, RemoveQueues(S)
  PROVE  QueueAccounting'
<1> DEFINE D == DOMAIN queues
           gone == SumFunctionOnSet(Bytes, S \cap D)
           rest == SumFunctionOnSet(Bytes, D \ S)
<1>1. /\ DOMAIN queues' = D \ S /\ (\A s \in D \ S : queues'[s] = queues[s])
      /\ queuedBytes' = queuedBytes - gone
  BY DEF RemoveQueues, Without, Restrict, Bytes
<1>2. queuedBytes = gone + rest
  <2>1. D \ (S \cap D) = D \ S /\ S \cap D \in SUBSET D
    OBVIOUS
  <2>2. SumFunctionOnSet(Bytes, D) = gone + SumFunctionOnSet(Bytes, D \ (S \cap D))
    BY <2>1, BytesType, SumSplits
  <2> QED
    BY <2>1, <2>2, AccountingForm DEF Accounted
<1>3. gone \in Nat /\ rest \in Nat
  BY BytesType
<1>4. SumFunctionOnSet(Bytes', D \ S) = rest
  <2>1. IsFiniteSet(D \ S)
    BY BytesType, FS_Subset
  <2>2. \A s \in D \ S : Bytes'[s] = Bytes[s]
    BY <1>1 DEF Bytes
  <2> QED
    BY <2>1, <2>2, SumOfSame
<1> HIDE DEF gone, rest, D
<1>5. queuedBytes' = rest /\ queuedBytes' <= StartupBufferBytesGlobal
  BY <1>1, <1>2, <1>3, AccountingForm, OptionsAssumption DEF Accounted
<1>6. \A s \in DOMAIN queues' : QueueSound(queues[s])'
  BY <1>1, AccountingForm DEF Accounted, QueueSound, D
<1>7. queuedBytes' = SumFunctionOnSet(Bytes', DOMAIN queues')
  BY <1>1, <1>4, <1>5
<1> QED
  BY <1>5, <1>6, <1>7, AccountingForm DEF Accounted

\* A new map has nothing to count.
LEMMA ClearAccounts == ASSUME ClearQueues PROVE QueueAccounting'
<1>1. DOMAIN queues' = {} /\ queuedBytes' = 0
  BY ClearQueuesShrink DEF ClearQueues
<1>2. SumFunctionOnSet(Bytes', DOMAIN queues') = 0
  BY <1>1, SumOfNone
<1>3. queuedBytes' <= StartupBufferBytesGlobal
  BY <1>1, OptionsAssumption
<1> QED
  BY <1>1, <1>2, <1>3, AccountingForm DEF Accounted

\* A datagram at the end of a queue adds its size to the sum.
LEMMA AppendSum ==
  ASSUME NEW q \in Seq(Packet), NEW p \in Packet
  PROVE  LET a == Append(q, p)
         IN  SumFunction([i \in DOMAIN a |-> a[i].size]) = SumFunction([i \in DOMAIN q |-> q[i].size]) + p.size
<1> DEFINE a == Append(q, p)
           f == [i \in DOMAIN a |-> a[i].size]
           h == [i \in DOMAIN q |-> q[i].size]
           n == Len(q)
<1>1. /\ n \in Nat /\ a \in Seq(Packet) /\ DOMAIN q = 1..n /\ DOMAIN a = 1..(n + 1) /\ a[n + 1] = p
      /\ \A i \in 1..n : a[i] = q[i]
  OBVIOUS
<1> HIDE DEF a
<1>2. IsFiniteSet(1..n) /\ IsFiniteSet(1..(n + 1))
  BY <1>1, FS_Interval
<1>3. \A x \in 1..(n + 1) : f[x] \in Nat
  <2> SUFFICES ASSUME NEW x \in 1..(n + 1) PROVE a[x].size \in Nat
    BY <1>1
  <2>1. a[x] \in Packet
    BY <1>1
  <2> QED
    BY <2>1, OptionsAssumption DEF Packet
<1>4. \A x \in 1..n : f[x] = h[x]
  BY <1>1
<1>5. f[n + 1] = p.size /\ DOMAIN f = 1..(n + 1) /\ DOMAIN h = 1..n
  BY <1>1
<1> HIDE DEF f, h, n
<1>6. (1..(n + 1)) \ {n + 1} = 1..n /\ n + 1 \in 1..(n + 1)
  BY <1>1
<1>7. SumFunctionOnSet(f, 1..(n + 1)) = f[n + 1] + SumFunctionOnSet(f, (1..(n + 1)) \ {n + 1})
  BY <1>2, <1>3, <1>6, SumTakesOut
<1>8. SumFunctionOnSet(f, 1..n) = SumFunctionOnSet(h, 1..n)
  BY <1>2, <1>4, SumOfSame
<1>9. SumFunctionOnSet(f, 1..n) \in Nat /\ p.size \in Nat
  <2>1. 1..n \in SUBSET (1..(n + 1))
    BY <1>1
  <2> QED
    BY <1>2, <1>3, <1>5, <1>6, <2>1, SumIsNat
<1>10. SumFunction(f) = SumFunction(h) + p.size
  <2>1. SumFunction(f) = SumFunctionOnSet(f, 1..(n + 1)) /\ SumFunction(h) = SumFunctionOnSet(h, 1..n)
    BY <1>5 DEF SumFunction
  <2>2. SumFunctionOnSet(f, 1..(n + 1)) = p.size + SumFunctionOnSet(h, 1..n)
    BY <1>5, <1>6, <1>7, <1>8
  <2>3. SumFunctionOnSet(h, 1..n) \in Nat
    BY <1>8, <1>9
  <2> QED
    BY <1>9, <2>1, <2>2, <2>3
<1> QED
  BY <1>10 DEF f, h, a

\* enqueueLocked counts what it accepts, within the three limits.
LEMMA EnqueueAccounts ==
  ASSUME QueueType, QueueAccounting, NEW s \in Session, NEW p \in Packet, Enqueue(s, p)
  PROVE  QueueAccounting'
<1> DEFINE D == DOMAIN queues
           q == IF s \in D THEN queues[s] ELSE [packets |-> <<>>, bytes |-> 0]
           accepted == ~QueueFull(q, p.size)
           after == IF accepted THEN [packets |-> Append(q.packets, p), bytes |-> q.bytes + p.size] ELSE q
           rest == SumFunctionOnSet(Bytes, D \ {s})
<1>1. /\ queues' = [x \in D \cup {s} |-> IF x = s THEN after ELSE queues[x]]
      /\ queuedBytes' = IF accepted THEN queuedBytes + p.size ELSE queuedBytes
  BY DEF Enqueue
<1>2. q \in Queue /\ p.size \in Nat /\ rest \in Nat
  <2>1. q \in Queue
    BY DEF QueueType, Queue
  <2>2. p.size \in Nat
    BY OptionsAssumption DEF Packet
  <2>3. rest \in Nat
    BY BytesType
  <2> QED
    BY <2>1, <2>2, <2>3
<1>3. QueueSound(q)
  <2>1. CASE s \in D
    BY <2>1, AccountingForm DEF Accounted
  <2>2. CASE s \notin D
    <3>1. q.packets = <<>> /\ q.bytes = 0
      BY <2>2
    <3>2. DOMAIN q.packets = {} /\ Len(q.packets) = 0
      BY <3>1
    <3> HIDE DEF q
    <3>3. SumFunction([i \in DOMAIN q.packets |-> q.packets[i].size]) = 0
      BY <3>2, SumOfNone DEF SumFunction
    <3> QED
      BY <3>1, <3>2, <3>3, OptionsAssumption DEF QueueSound
  <2> QED
    BY <2>1, <2>2
<1>4. queuedBytes = q.bytes + rest
  <2>1. CASE s \in D
    <3>1. SumFunctionOnSet(Bytes, D) = Bytes[s] + rest
      BY <2>1, BytesType, SumTakesOut
    <3> QED
      BY <2>1, <3>1, AccountingForm DEF Accounted, Bytes
  <2>2. CASE s \notin D
    <3>1. D \ {s} = D /\ q.bytes = 0
      BY <2>2
    <3> QED
      BY <1>2, <3>1, AccountingForm DEF Accounted
  <2> QED
    BY <2>1, <2>2
<1>5. DOMAIN queues' = D \cup {s} /\ queues'[s] = after /\ \A x \in D \ {s} : queues'[x] = queues[x]
  BY <1>1
<1>6. /\ accepted => after.packets = Append(q.packets, p) /\ after.bytes = q.bytes + p.size
      /\ ~accepted => after = q
      /\ after.bytes \in Nat
  BY <1>2 DEF Queue
<1>7. accepted => /\ Len(q.packets) < StartupBufferPackets /\ q.bytes + p.size <= StartupBufferBytesPerSession
                  /\ queuedBytes + p.size <= StartupBufferBytesGlobal
  <2>1. Len(q.packets) \in Nat /\ q.bytes \in Nat /\ queuedBytes \in Nat
    BY <1>2, <1>4 DEF Queue
  <2> QED
    BY <1>2, <2>1, OptionsAssumption DEF QueueFull
<1> HIDE DEF accepted, after, q
<1>8. QueueSound(after)
  <2>1. CASE accepted
    <3>1. q.packets \in Seq(Packet) /\ Len(q.packets) \in Nat /\ q.bytes \in Nat
      BY <1>2 DEF Queue
    <3>2. Len(after.packets) = Len(q.packets) + 1
      BY <1>6, <2>1, <3>1
    <3>3. SumFunction([i \in DOMAIN after.packets |-> after.packets[i].size]) = q.bytes + p.size
      BY <1>3, <1>6, <2>1, <3>1, AppendSum DEF QueueSound
    <3> QED
      BY <1>6, <1>7, <2>1, <3>1, <3>2, <3>3, OptionsAssumption DEF QueueSound
  <2>2. CASE ~accepted
    BY <1>3, <1>6, <2>2
  <2> QED
    BY <2>1, <2>2
<1>9. queuedBytes' = after.bytes + rest /\ queuedBytes' <= StartupBufferBytesGlobal
  <2>1. q.bytes \in Nat
    BY <1>2 DEF Queue
  <2>2. CASE accepted
    <3>1. queuedBytes' = queuedBytes + p.size
      BY <1>1, <2>2
    <3>2. after.bytes = q.bytes + p.size
      BY <1>6, <2>2
    <3> QED
      BY <1>2, <1>4, <1>7, <2>1, <2>2, <3>1, <3>2
  <2>3. CASE ~accepted
    BY <1>1, <1>4, <1>6, <2>3, AccountingForm DEF Accounted
  <2> QED
    BY <2>2, <2>3
<1>10. queuedBytes' = SumFunctionOnSet(Bytes', DOMAIN queues')
  <2>1. QueueType'
    BY EnqueueType
  <2>2. IsFiniteSet(D \cup {s}) /\ (\A x \in D \cup {s} : Bytes'[x] \in Nat)
    <3>1. IsFiniteSet(D \cup {s})
      BY BytesType, FS_AddElement
    <3>2. \A x \in D \cup {s} : Bytes'[x] \in Nat
      BY <1>5, <2>1 DEF QueueType, Queue, Bytes
    <3> QED
      BY <3>1, <3>2
  <2>3. Bytes'[s] = after.bytes /\ \A x \in D \ {s} : Bytes'[x] = Bytes[x]
    BY <1>5 DEF Bytes
  <2>4. (D \cup {s}) \ {s} = D \ {s} /\ IsFiniteSet(D \ {s})
    BY BytesType, FS_Subset
  <2>5. SumFunctionOnSet(Bytes', D \ {s}) = rest
    BY <2>3, <2>4, SumOfSame
  <2>6. SumFunctionOnSet(Bytes', D \cup {s}) = Bytes'[s] + SumFunctionOnSet(Bytes', (D \cup {s}) \ {s})
    BY <2>2, SumTakesOut
  <2> QED
    BY <1>5, <1>9, <2>3, <2>4, <2>5, <2>6
<1>11. \A x \in DOMAIN queues' : QueueSound(queues[x])'
  <2> SUFFICES ASSUME NEW x \in D \cup {s} PROVE QueueSound(queues'[x])
    BY <1>5 DEF QueueSound
  <2> QED
    BY <1>5, <1>8, AccountingForm DEF Accounted
<1> QED
  BY <1>9, <1>10, <1>11, AccountingForm DEF Accounted

\* The counters agree with the queues after every step.
LEMMA NextAccounts == ASSUME SafeInv, QueueAccounting, [Next]_vars PROVE QueueAccounting'
<1> USE DEF SafeInv, TypeInv, TypeOK
<1>1. ASSUME UNCHANGED queueVars PROVE QueueAccounting'
  BY <1>1 DEF QueueAccounting
<1>2. CASE Ingress /\ Enqueues
  <2>1. req.cur \in Session /\ [id |-> received, size |-> req.size] \in Packet
    BY <1>2, EnqueuesOne
  <2> QED
    BY <1>2, <2>1, EnqueueAccounts DEF Enqueues, QueuePacket
<1>3. CASE Ingress /\ ~Enqueues
  <2>1. UNCHANGED queueVars \/ \E S : RemoveQueues(S)
    BY <1>3 DEF Ingress, ReceivePacket, QueuePacket, Enqueues, KickStartup, SeeGateOpen, ForwardClient,
           TakeAdmission, RemoveDeadSession, DropDeadQueue, SampleGate, CreateFails, CreateSession, WatchSession,
           FinishAdmission
  <2> QED
    BY <1>1, <2>1, RemoveAccounts
<1>4. CASE Sweeper \/ \E s \in Session : Watcher(s)
  <2>1. UNCHANGED queueVars \/ \E S : RemoveQueues(S)
    BY <1>4 DEF Sweeper, SweeperTicks, SweeperRefreshes, SweeperExpires, SweeperDropsQueues, SweeperSchedules,
                SweeperExits, Watcher, WatcherRemoves, WatcherDropsQueue, WatcherSchedules
  <2> QED
    BY <1>1, <2>1, RemoveAccounts
<1>5. CASE Monitor \/ \E r \in startups : Startup(r)
  <2>1. UNCHANGED queueVars \/ ClearQueues
    BY <1>5 DEF Monitor, MonitorTicks, MonitorProbed, MonitorTakesAdmission, MonitorClosesGate, MonitorClosed,
                MonitorExits, Startup, StartupPolls, StartupTakesAdmission, StartupOpensGate, StartupGateOpened,
                StartupFails, StartupFailed, StartupCompletes, StartupRestarts, Flush
  <2> QED
    BY <1>1, <2>1, ClearAccounts
<1>6. CASE ServeBoots \/ Shutdown \/ IgnorePacket \/ Returned \/ CloseAllDetaches \/ CooldownElapses
           \/ (\E s \in Session : SessionStep(s)) \/ (\E t \in timers : TimerFires(t))
           \/ (\E c \in callbacks : Callback(c)) \/ UNCHANGED vars
  BY <1>1, <1>6 DEF ServeBoots, Shutdown, IgnorePacket, Returned, CloseAllDetaches, CooldownElapses, SessionStep,
                    TimerFires, Callback, vars
<1> QED
  BY <1>2, <1>3, <1>4, <1>5, <1>6 DEF Next

\* A new proxy counts nothing.
LEMMA InitAccounts == Init => QueueAccounting
<1> SUFFICES ASSUME Init PROVE QueueAccounting
  OBVIOUS
<1>1. DOMAIN queues = {} /\ queuedBytes = 0
  BY DEF Init, NoQueues
<1>2. SumFunctionOnSet(Bytes, DOMAIN queues) = 0
  BY <1>1, SumOfNone
<1>3. queuedBytes <= StartupBufferBytesGlobal
  BY <1>1, OptionsAssumption
<1> QED
  BY <1>1, <1>2, <1>3, AccountingForm DEF Accounted

-----------------------------------------------------------------------------
(* The end of Serve.                                                       *)

\* A new proxy is not shutting down.
LEMMA InitEnd == Init => EndInv
  BY DEF Init, EndInv

\* shuttingDown is set once, by the shutdown, and never reset.
LEMMA ShuttingDownStays ==
  ASSUME SafeInv, [Next]_vars
  PROVE  /\ shuttingDown => shuttingDown'
         /\ shuttingDown' => shuttingDown \/ (Shutdown /\ ShutdownClosesGate)
<1>1. CASE Shutdown
  BY <1>1 DEF Shutdown, Cancel, ListenerCloses, ReadFails, ShutdownTakesAdmission, ShutdownClosesGate,
              ShutdownClosed, ServeWaits
<1>2. CASE ~Shutdown
  BY <1>2 DEF Next, ServeBoots, Ingress, Sweeper, Monitor, IgnorePacket, Returned, CloseAllDetaches,
              CooldownElapses, SessionStep, Watcher, TimerFires, Callback, Startup, vars
<1> QED
  BY <1>1, <1>2

\* Only the shutdown leads to the waits at the end of Serve.
LEMMA EndSteps ==
  ASSUME SafeInv, [Next]_vars, pc' \in {"shutdownClosing", "timerWait", "wgWait", "returned"}
  PROVE  pc' = pc \/ Shutdown
<1>1. CASE Ingress
  <2>1. pc' \in HandlingPC \cup {"idle"}
    <3>1. \A ok \in BOOLEAN : pc \in {"forward", "kick", "send"} /\ AfterForward(ok) => pc' \in HandlingPC \cup {"idle"}
      BY AfterForwardCases DEF SafeInv, TypeInv, TypeOK, PowerInv, HandlingPC
    <3> QED
      BY <1>1, <3>1
         DEF Ingress, ReceivePacket, QueuePacket, KickStartup, SeeGateOpen, ForwardClient, TakeAdmission,
             RemoveDeadSession, DropDeadQueue, SampleGate, CreateFails, CreateSession, WatchSession, FinishAdmission,
             DropPacket, HandlingPC
  <2> QED
    BY <2>1 DEF HandlingPC
<1>2. CASE ~Ingress
  BY <1>2 DEF Next, ServeBoots, Sweeper, Monitor, IgnorePacket, Returned, CloseAllDetaches,
              CooldownElapses, SessionStep, Watcher, TimerFires, Callback, Startup, vars
<1> QED
  BY <1>1, <1>2

\* Once the proxy is shutting down no timer is armed.
LEMMA NextTimersEnd == ASSUME SafeInv, TimerInv, EndInv, [Next]_vars, shuttingDown' PROVE timers' = {}
<1>1. CASE Shutdown /\ ShutdownClosesGate
  BY <1>1 DEF ShutdownClosesGate, CancelAutoStop, TimerInv, TimersCurrent
<1>2. CASE shuttingDown
  <2>1. timers = {} /\ ~backendReady
    BY <1>2 DEF EndInv, SafeInv, PowerInv, StartupAlone
  <2>2. ScheduleAutoStop \/ CancelAutoStop => timers' = {}
    BY <1>2, <2>1 DEF ScheduleAutoStop, CancelAutoStop
  <2>3. CASE Ingress \/ Sweeper \/ \E s \in Session : Watcher(s)
    BY <2>1, <2>2, <2>3
       DEF Ingress, ReceivePacket, QueuePacket, KickStartup, SeeGateOpen, ForwardClient, TakeAdmission,
           RemoveDeadSession, DropDeadQueue, SampleGate, CreateFails, CreateSession, WatchSession, FinishAdmission,
           Sweeper, SweeperTicks, SweeperRefreshes, SweeperExpires, SweeperDropsQueues, SweeperSchedules,
           SweeperExits, Watcher, WatcherRemoves, WatcherDropsQueue, WatcherSchedules
  <2>4. CASE Monitor \/ Shutdown \/ \E r \in startups : Startup(r)
    BY <2>1, <2>2, <2>4
       DEF Monitor, MonitorTicks, MonitorProbed, MonitorTakesAdmission, MonitorClosesGate, MonitorClosed,
           MonitorExits, Shutdown, Cancel, ListenerCloses, ReadFails, ShutdownTakesAdmission,
           ShutdownClosesGate, ShutdownClosed, ServeWaits, Startup, StartupPolls, StartupTakesAdmission,
           StartupOpensGate, StartupGateOpened, StartupFails, StartupFailed, StartupCompletes, StartupRestarts
  <2>5. CASE \E c \in callbacks : Callback(c)
    BY <2>1, <2>5 DEF Callback, CallbackDecides, CallbackStopAccepted, CallbackGivesUp, CallbackRetries
  <2>6. CASE ServeBoots \/ IgnorePacket \/ Returned \/ CloseAllDetaches \/ CooldownElapses
             \/ (\E s \in Session : SessionStep(s)) \/ (\E t \in timers : TimerFires(t)) \/ UNCHANGED vars
    BY <2>1, <2>6 DEF ServeBoots, IgnorePacket, Returned, CloseAllDetaches, CooldownElapses, SessionStep,
                      TimerFires, vars
  <2> QED
    BY <2>3, <2>4, <2>5, <2>6 DEF Next
<1> QED
  BY <1>1, <1>2, ShuttingDownStays

\* Each wait at the end of Serve has seen what stays true: the store is empty
\* after CloseAll, no callback runs after timerWG.Wait and no goroutine after
\* wg.Wait.
LEMMA NextEnd == ASSUME SafeInv, TimerInv, SessionInv, EndInv, [Next]_vars PROVE EndInv'
<1> USE DEF SafeInv, TypeInv, TypeOK
<1>1. shuttingDown' => timers' = {}
  BY NextTimersEnd
<1>2. pc' \in {"shutdownClosing", "timerWait", "wgWait", "returned"} => shuttingDown'
  BY EndSteps, ShuttingDownStays
     DEF EndInv, Shutdown, Cancel, ListenerCloses, ReadFails, ShutdownTakesAdmission, ShutdownClosesGate,
         ShutdownClosed, ServeWaits
<1>3. pc' \in {"timerWait", "wgWait", "returned"} => StoreEmpty'
  <2> SUFFICES ASSUME pc' \in {"timerWait", "wgWait", "returned"} PROVE StoreEmpty'
    OBVIOUS
  <2>1. CASE pc \in {"timerWait", "wgWait", "returned"}
    <3>1. ~Ingress
      BY <2>1 DEF Ingress, ReceivePacket, QueuePacket, KickStartup, SeeGateOpen, ForwardClient, TakeAdmission,
           RemoveDeadSession, DropDeadQueue, SampleGate, CreateFails, CreateSession, WatchSession, FinishAdmission
    <3> QED
      BY <2>1, <3>1, OtherSteps DEF StoreShrinks, EndInv, StoreEmpty
  <2>2. CASE pc \notin {"timerWait", "wgWait", "returned"}
    <3>1. Shutdown
      BY <2>2, EndSteps
    <3>2. closeAll = "closing" /\ UNCHANGED sessions
      BY <2>2, <3>1 DEF Shutdown, Cancel, ListenerCloses, ReadFails, ShutdownTakesAdmission, ShutdownClosesGate,
                        ShutdownClosed, ServeWaits, CloseAllReturns
    <3> QED
      BY <3>2 DEF SessionInv, StoreBounded, StoreEmpty
  <2> QED
    BY <2>1, <2>2
<1>4. pc' \in {"wgWait", "returned"} => callbacks' = {}
  <2> SUFFICES ASSUME pc' \in {"wgWait", "returned"} PROVE callbacks' = {}
    OBVIOUS
  <2>1. CASE pc \in {"wgWait", "returned"}
    <3>1. callbacks = {} /\ timers = {}
      BY <2>1 DEF EndInv
    <3> QED
      BY <3>1 DEF Next, ServeBoots, Ingress, Sweeper, Monitor, Shutdown, IgnorePacket, Returned, CloseAllDetaches,
                  CooldownElapses, SessionStep, Watcher, Startup, vars
  <2>2. CASE pc \notin {"wgWait", "returned"}
    <3>1. Shutdown /\ ServeWaits /\ pc = "timerWait" /\ timerWG = 0 /\ UNCHANGED callbacks
      BY <2>2, EndSteps DEF Shutdown, Cancel, ListenerCloses, ReadFails, ShutdownTakesAdmission,
                            ShutdownClosesGate, ShutdownClosed, ServeWaits
    <3>2. timers = {} /\ IsFiniteSet(callbacks)
      BY <3>1 DEF EndInv, TimerInv, TimersCounted
    <3>3. Cardinality(timers) = 0 /\ Cardinality(callbacks) \in Nat
      BY <3>2, FS_EmptySet, FS_CardinalityType
    <3>4. Cardinality(callbacks) = 0
      BY <3>1, <3>3 DEF TimerInv, TimersCounted
    <3> QED
      BY <3>1, <3>2, <3>4, FS_EmptySet
  <2> QED
    BY <2>1, <2>2
<1>5. pc' = "returned" => GoroutinesEnded'
  <2> SUFFICES ASSUME pc' = "returned" PROVE GoroutinesEnded'
    OBVIOUS
  <2>1. CASE pc = "returned"
    <3>1. GoroutinesEnded /\ callbacks = {} /\ timers = {}
      BY <2>1 DEF EndInv
    <3>2. ~Ingress
      BY <2>1 DEF Ingress, ReceivePacket, QueuePacket, KickStartup, SeeGateOpen, ForwardClient, TakeAdmission,
           RemoveDeadSession, DropDeadQueue, SampleGate, CreateFails, CreateSession, WatchSession, FinishAdmission
    <3>3. ~Sweeper /\ ~Monitor
      BY <3>1 DEF GoroutinesEnded, Sweeper, SweeperTicks, SweeperRefreshes, SweeperExpires, SweeperDropsQueues,
                  SweeperSchedules, SweeperExits, Monitor, MonitorTicks, MonitorProbed, MonitorTakesAdmission,
                  MonitorClosesGate, MonitorClosed, MonitorExits
    <3>4. \A s \in Session : ~Watcher(s)
      BY <3>1 DEF GoroutinesEnded, Watcher, WatcherRemoves, WatcherDropsQueue, WatcherSchedules
    <3>5. UNCHANGED <<startups, sweeper, monitor, watcher>>
      BY <2>1, <3>1, <3>2, <3>3, <3>4
         DEF GoroutinesEnded, Next, ServeBoots, Shutdown, IgnorePacket, Returned, CloseAllDetaches, CooldownElapses,
             SessionStep, vars
    <3>6. ~listenerOpen'
      BY <2>1, <3>1, <3>2, <3>3, <3>4
         DEF GoroutinesEnded, Next, ServeBoots, Shutdown, Cancel, ListenerCloses, ReadFails, ShutdownTakesAdmission,
             ShutdownClosesGate, ShutdownClosed, ServeWaits, IgnorePacket, Returned, CloseAllDetaches,
             CooldownElapses, SessionStep, vars
    <3> QED
      BY <3>1, <3>5, <3>6 DEF GoroutinesEnded
  <2>2. CASE pc # "returned"
    <3>1. GoroutinesEnded /\ UNCHANGED <<startups, sweeper, monitor, listenerOpen, watcher>>
      BY <2>2, EndSteps DEF Shutdown, Cancel, ListenerCloses, ReadFails, ShutdownTakesAdmission,
                            ShutdownClosesGate, ShutdownClosed, ServeWaits
    <3> QED
      BY <3>1 DEF GoroutinesEnded
  <2> QED
    BY <2>1, <2>2
<1> QED
  BY <1>1, <1>2, <1>3, <1>4, <1>5 DEF EndInv

\* When Serve has returned nothing is left.
LEMMA EndClean == OrderInv /\ SessionInv /\ QueueInv /\ EndInv /\ QueueAccounting => ShutdownClean
<1> SUFFICES ASSUME OrderInv, SessionInv, QueueInv, EndInv, QueueAccounting, pc = "returned"
             PROVE  /\ StoreEmpty /\ \A s \in Session : state[s] \in {"none", "done"}
                    /\ DOMAIN queues = {} /\ queuedBytes = 0
                    /\ timers = {} /\ callbacks = {} /\ startups = {}
                    /\ admission = "free" /\ forwarding = "free"
  BY DEF ShutdownClean
<1> USE DEF OrderInv, SafeInv, TypeInv, TypeOK
<1>1. StoreEmpty /\ timers = {} /\ callbacks = {} /\ GoroutinesEnded
  BY DEF EndInv
<1>2. startups = {} /\ \A s \in Session : watcher[s] \in {"none", "ended"}
  BY <1>1 DEF GoroutinesEnded
<1>3. \A s \in Session : state[s] \in {"none", "done"}
  BY <1>2 DEF SessionInv, SessionsWatched, SessionType
<1>4. DOMAIN queues = {}
  BY <1>2 DEF QueueInv, NoOrphanQueue, QueueType
<1>5. queuedBytes = 0
  BY <1>4, SumOfNone, AccountingForm DEF Accounted
<1>6. monitor.pc = "ended"
  BY <1>1 DEF GoroutinesEnded
<1>7. admission = "free"
  BY <1>1, <1>2, <1>6 DEF LockInv, AdmissionReturned, LockType, IngressHolds, AdmittedPC, ShutdownHolds, MonitorHolds
<1>8. forwarding = "free"
  BY <1>2, <1>6 DEF LockInv, ForwardingOwned, LockType
<1> QED
  BY <1>1, <1>2, <1>3, <1>4, <1>5, <1>7, <1>8

-----------------------------------------------------------------------------
(* Auto-stop.                                                              *)

\* A new proxy has nothing to schedule.
LEMMA InitSchedule == Init => ScheduleInv
  BY DEF Init, ScheduleInv

\* The session of an admission stays in the store until it is watched.
LEMMA NextWatched ==
  ASSUME SafeInv, SessionInv, ScheduleInv, [Next]_vars, pc' = "watch"
  PROVE  sessions'[req'.key] = req'.cur /\ watcher'[req'.cur] = "none"
<1> USE DEF SafeInv, TypeInv, TypeOK, PowerInv, SessionInv
<1>1. CASE Ingress
  <2>1. CreateSession
    <3>2. ~(\E k \in Keys : ReceivePacket(k))
      BY DEF ReceivePacket
    <3>3. ~WatchSession
      BY DEF WatchSession
    <3> QED
      BY <1>1, <3>2, <3>3, IngressSteps
  <2>2. PICK s \in Session : /\ s = received /\ sessions' = [sessions EXCEPT ![req.key] = s]
                             /\ req' = [req EXCEPT !.cur = s, !.site = "created"]
    BY <2>1 DEF CreateSession
  <2>3. pc = "create" /\ UNCHANGED watcher
    BY <2>1 DEF CreateSession
  <2>4. req.key \in Keys /\ watcher[s] = "none"
    BY <2>2, <2>3 DEF RequestOK, SessionsNew, HandlingPC
  <2>5. req'.key = req.key /\ req'.cur = s
    BY <2>2 DEF ServeType, Request
  <2>6. sessions'[req.key] = s
    BY <2>2, <2>4 DEF SessionType
  <2> QED
    BY <2>3, <2>4, <2>5, <2>6
<1>2. CASE ~Ingress
  <2>1. pc = "watch" /\ UNCHANGED req /\ WatchersAge
    BY <1>2, OtherSteps DEF HandlingPC
  <2>2. /\ sessions[req.key] = req.cur /\ watcher[req.cur] = "none" /\ req.site = "created"
        /\ req.key \in Keys /\ req.cur \in Session /\ closeAll = "none"
    BY <2>1, AdmissionExcludesCloseAll DEF ScheduleInv, KeyHeld, RequestOK, HandlingPC, IngressHolds, AdmittedPC
  <2>3. watcher'[req.cur] = "none"
    BY <2>1, <2>2 DEF WatchersAge
  <2>4. sessions'[req.key] = req.cur
    <3>1. CASE Sweeper
      <4>1. CASE SweeperExpires
        <5>1. PICK idle \in SUBSET ((Stored \cap Open) \ (recent \cup Admitting)) :
                sessions' = [k \in Keys |-> IF sessions[k] \in idle THEN NoSession ELSE sessions[k]]
          BY <4>1 DEF SweeperExpires
        <5>2. req.cur \notin idle
          BY <2>2 DEF Admitting
        <5> QED
          BY <2>2, <5>1, <5>2
      <4>2. CASE ~SweeperExpires
        BY <2>2, <3>1, <4>2 DEF Sweeper, SweeperTicks, SweeperRefreshes, SweeperDropsQueues, SweeperSchedules,
                                SweeperExits
      <4> QED
        BY <4>1, <4>2
    <3>2. CASE \E s \in Session : Watcher(s)
      <4>1. PICK s \in Session : Watcher(s)
        BY <3>2
      <4>2. \/ UNCHANGED sessions
            \/ watcher[s] = "wait" /\ sessions[owner[s]] = s /\ sessions' = [sessions EXCEPT ![owner[s]] = NoSession]
        BY <4>1 DEF Watcher, WatcherRemoves, WatcherDropsQueue, WatcherSchedules, StoreRemove
      <4> QED
        BY <2>2, <4>2 DEF SessionType
    <3>3. CASE ~Sweeper /\ ~(\E s \in Session : Watcher(s))
      BY <1>2, <2>2, <3>3
         DEF Next, ServeBoots, Monitor, Shutdown, IgnorePacket, Returned, CloseAllDetaches, CooldownElapses,
             SessionStep, TimerFires, Callback, Startup, vars
    <3> QED
      BY <3>1, <3>2, <3>3
  <2> QED
    BY <2>1, <2>3, <2>4
<1> QED
  BY <1>1, <1>2

\* CloseAll begins with the gate closed, by a goroutine that holds both locks
\* until CloseAll has returned.
LEMMA NextCloseAll ==
  ASSUME SafeInv, ScheduleInv, [Next]_vars, closeAll' # "none"
  PROVE  ~backendReady' /\ pc' # "boot"
<1> USE DEF SafeInv, TypeInv, TypeOK, PowerInv
<1>1. CASE closeAll = "none"
  <2>1. BeginCloseAll
    BY <1>1, CloseAllSteps DEF CloseAllDetaches
  <2>2. CASE Monitor
    <3>1. MonitorClosesGate /\ backendReady /\ ~backendReady' /\ UNCHANGED pc
      BY <1>1, <2>1, <2>2
         DEF BeginCloseAll, Monitor, MonitorTicks, MonitorProbed, MonitorTakesAdmission, MonitorClosesGate,
             MonitorClosed, MonitorExits, GenerationCurrent, CloseGate, CloseAllReturns
    <3> QED
      BY <3>1 DEF StartupAlone
  <2>3. CASE Shutdown
    BY <1>1, <2>1, <2>3
       DEF BeginCloseAll, Shutdown, Cancel, ListenerCloses, ReadFails, ShutdownTakesAdmission, ShutdownClosesGate,
           ShutdownClosed, ServeWaits, CloseGate, CloseAllReturns
  <2>4. CASE \E r \in startups : Startup(r)
    <3>1. PICK r \in startups : Startup(r)
      BY <2>4
    <3>2. StartupFails(r)
      BY <1>1, <2>1, <3>1
         DEF BeginCloseAll, Startup, StartupPolls, StartupTakesAdmission, StartupOpensGate, StartupGateOpened,
             StartupFailed, StartupCompletes, StartupRestarts, CloseAllReturns
    <3>3. r.pc = "failGate" /\ UNCHANGED <<backendReady, pc>>
      BY <3>1, <3>2 DEF StartupFails, Startup
    <3> QED
      BY <3>3 DEF StartupAlone, UnderWay
  <2>5. CASE ~Monitor /\ ~Shutdown /\ ~(\E r \in startups : Startup(r))
    BY <1>1, <2>1, <2>5
       DEF BeginCloseAll, Next, ServeBoots, Ingress, Sweeper, IgnorePacket, Returned, CloseAllDetaches,
           CooldownElapses, SessionStep, Watcher, TimerFires, Callback, vars
  <2> QED
    BY <2>2, <2>3, <2>4, <2>5
<1>2. CASE closeAll # "none"
  <2>1. ~backendReady /\ pc # "boot"
    BY <1>2 DEF ScheduleInv
  <2>2. ~(\E r \in startups : r.pc = "openGate")
    BY <1>2 DEF CloseAllOwned, AdmissionOwned, Holds, MonitorHolds, ShutdownHolds
  <2>3. ~backendReady'
    BY <2>1, <2>2, GateOpens DEF ServeBoots
  <2> QED
    BY <2>1, <2>3, BootOnce
<1> QED
  BY <1>1, <1>2

\* What scheduleAutoStop rests on is kept by every step.
LEMMA NextSchedule == ASSUME SafeInv, SessionInv, ScheduleInv, [Next]_vars PROVE ScheduleInv'
<1>1. lastExpired' => sweeper' = "closing"
  <2>1. CASE Sweeper
    BY <2>1 DEF ScheduleInv, Sweeper, SweeperTicks, SweeperRefreshes, SweeperExpires, SweeperDropsQueues,
                SweeperSchedules, SweeperExits
  <2>2. CASE ~Sweeper
    BY <2>2 DEF ScheduleInv, Next, ServeBoots, Ingress, Monitor, Shutdown, IgnorePacket, Returned, CloseAllDetaches,
                CooldownElapses, SessionStep, Watcher, TimerFires, Callback, Startup, vars
  <2> QED
    BY <2>1, <2>2
<1> QED
  BY <1>1, NextWatched, NextCloseAll DEF ScheduleInv

\* AutoStopArmed, with names for its parts.
IdleBackend == backendReady /\ StoreEmpty /\ ~ctxDone /\ ~gaveUp
Armed == (\E t \in timers : t.gen = stopGeneration) \/ (\E c \in callbacks : c.timer.gen = stopGeneration)
Replacing == pc \in {"removing", "dropQueue", "sample", "create"}

\* A step that arms nothing, disarms nothing and does not empty the store.
LEMMA StaysArmed ==
  ASSUME AutoStopArmed, UNCHANGED <<timers, callbacks, stopGeneration>>, IdleBackend' => IdleBackend,
         IdleBackend' /\ WillSchedule => WillSchedule', IdleBackend' /\ Replacing => Replacing'
  PROVE  AutoStopArmed'
  BY DEF AutoStopArmed, IdleBackend, Replacing

\* Whoever is about to call scheduleAutoStop still is.
LEMMA WillScheduleKept ==
  ASSUME UNCHANGED <<watcher, lastExpired, sweeper>>, \A r \in startups : r.pc = "opened" => r \in startups', WillSchedule
  PROVE  WillSchedule'
  BY DEF WillSchedule

\* scheduleAutoStop arms a timer of the current generation if the gate is open.
LEMMA ScheduleArms == ASSUME SafeInv, ScheduleAutoStop, backendReady PROVE \E t \in timers' : t.gen = stopGeneration'
<1> DEFINE t == [gen |-> stopGeneration + 1, attempt |-> 1]
<1>1. ~shuttingDown
  BY DEF SafeInv, PowerInv, StartupAlone
<1>2. t \in timers' /\ stopGeneration' = t.gen
  BY <1>1 DEF ScheduleAutoStop
<1> QED
  BY <1>2

\* handleClientPacket empties the store only to create a session in it, and
\* cancels the timer only with a session in the store.
LEMMA IngressArmed ==
  ASSUME ~DialMayFail, SafeInv, SessionInv, QueueInv, ScheduleInv, AutoStopArmed, Ingress
  PROVE  AutoStopArmed'
<1> USE DEF SafeInv, TypeInv, TypeOK, PowerInv, SessionInv, QueueInv
<1>0. /\ UNCHANGED <<watcher, lastExpired, sweeper>> \/ WatchSession
      /\ UNCHANGED <<backendReady, ctxDone, callbacks>>
      /\ \A r \in startups : r \in startups'
  <2>1. UNCHANGED startups \/ StartServer(startups)
    BY DEF Ingress, ReceivePacket, QueuePacket, KickStartup, SeeGateOpen, ForwardClient, TakeAdmission,
           RemoveDeadSession, DropDeadQueue, SampleGate, CreateFails, CreateSession, WatchSession, FinishAdmission
  <2>2. UNCHANGED watcher \/ WatchSession
    BY DEF Ingress, ReceivePacket, QueuePacket, KickStartup, SeeGateOpen, ForwardClient, TakeAdmission,
           RemoveDeadSession, DropDeadQueue, SampleGate, CreateFails, CreateSession, FinishAdmission
  <2> QED
    BY <2>1, <2>2, StartServerLocks DEF Ingress
<1>1. CASE WatchSession
  <2>1. pc = "watch" /\ UNCHANGED sessions
    BY <1>1 DEF WatchSession
  <2>2. req.key \in Keys /\ sessions'[req.key] \in Session
    BY <2>1 DEF ScheduleInv, RequestOK, HandlingPC
  <2>3. sessions'[req.key] # NoSession
    BY <2>2, OptionsAssumption DEF Session, NoSession
  <2> QED
    BY <2>2, <2>3 DEF AutoStopArmed, StoreEmpty
<1>2. CASE CreateSession
  <2>1. req.key \in Keys
    BY <1>2 DEF CreateSession, RequestOK, HandlingPC
  <2>2. PICK s \in Session : sessions' = [sessions EXCEPT ![req.key] = s]
    BY <1>2 DEF CreateSession
  <2>3. s # NoSession /\ sessions'[req.key] = s
    BY <2>1, <2>2, OptionsAssumption DEF Session, NoSession, SessionType
  <2> QED
    BY <2>1, <2>3 DEF AutoStopArmed, StoreEmpty
<1>3. CASE ~WatchSession /\ ~CreateSession
  <2>1. UNCHANGED <<timers, stopGeneration, gaveUp>>
    BY <1>3 DEF Ingress, ReceivePacket, QueuePacket, KickStartup, SeeGateOpen, ForwardClient, TakeAdmission,
                RemoveDeadSession, DropDeadQueue, SampleGate, CreateFails, FinishAdmission
  <2>2. WillSchedule => WillSchedule'
    BY <1>0, <1>3, WillScheduleKept
  <2>3. CASE RemoveDeadSession
    <3>1. pc = "remove" /\ pc' \in {"removing", "dropQueue"}
      BY <2>3 DEF RemoveDeadSession
    <3> QED
      BY <3>1 DEF AutoStopArmed
  <2>4. CASE DropDeadQueue
    <3>1. pc' = "sample"
      BY <2>4 DEF DropDeadQueue
    <3> QED
      BY <3>1 DEF AutoStopArmed
  <2>5. CASE ~RemoveDeadSession /\ ~DropDeadQueue
    <3>1. UNCHANGED sessions
      BY <1>3, <2>5 DEF Ingress, ReceivePacket, QueuePacket, KickStartup, SeeGateOpen, ForwardClient, TakeAdmission,
                        SampleGate, CreateFails, FinishAdmission
    <3>2. ASSUME IdleBackend', Replacing PROVE Replacing'
      <4>1. backendReady /\ StoreEmpty /\ ~blocked
        BY <1>0, <3>1, <3>2 DEF IdleBackend, StoreEmpty, CooldownHolds
      <4>2. ~AtCapacity
        <5>1. {k \in Keys : sessions[k] # NoSession} = {}
          BY <4>1 DEF StoreEmpty
        <5> QED
          BY <5>1, FS_EmptySet, OptionsAssumption DEF AtCapacity, StoreLen
      <4>3. SampleGate
        BY <1>3, <2>5, <3>2, <4>2
           DEF Replacing, Ingress, ReceivePacket, QueuePacket, KickStartup, SeeGateOpen, ForwardClient, TakeAdmission,
               CreateFails, FinishAdmission
      <4> QED
        BY <4>1, <4>3 DEF SampleGate, PacketRefused, Replacing
    <3>3. IdleBackend' => IdleBackend
      BY <1>0, <2>1, <3>1 DEF IdleBackend, StoreEmpty
    <3> QED
      BY <1>0, <2>1, <2>2, <3>2, <3>3, StaysArmed
  <2> QED
    BY <2>3, <2>4, <2>5
<1> QED
  BY <1>1, <1>2, <1>3

\* The watcher that removes the last session is going to schedule the stop.
LEMMA WatcherArmed ==
  ASSUME SafeInv, AutoStopArmed, NEW s \in Session, Watcher(s)
  PROVE  AutoStopArmed'
<1> USE DEF SafeInv, TypeInv, TypeOK
<1>0. UNCHANGED <<backendReady, ctxDone, callbacks, startups, sweeper, lastExpired, pc>>
  BY DEF Watcher
<1>1. CASE WatcherSchedules(s)
  <2>1. CASE backendReady
    <3>1. \E t \in timers' : t.gen = stopGeneration'
      BY <1>1, <2>1, ScheduleArms DEF WatcherSchedules
    <3> QED
      BY <3>1 DEF AutoStopArmed
  <2>2. CASE ~backendReady
    BY <1>0, <2>2 DEF AutoStopArmed
  <2> QED
    BY <2>1, <2>2
<1>2. CASE WatcherDropsQueue(s)
  <2>1. /\ UNCHANGED <<timers, stopGeneration, gaveUp, sessions>>
        /\ watcher' = [watcher EXCEPT ![s] = IF watcher[s] = "dropLast" /\ ~ctxDone THEN "schedule" ELSE "ended"]
        /\ watcher[s] \in {"drop", "dropLast"}
    BY <1>2 DEF WatcherDropsQueue
  <2>2. ASSUME ~ctxDone, WillSchedule PROVE WillSchedule'
    <3>1. \A q \in Session : watcher'[q] = IF q = s THEN IF watcher[s] = "dropLast" THEN "schedule" ELSE "ended"
                                           ELSE watcher[q]
      BY <2>1, <2>2 DEF SessionType
    <3> QED
      BY <1>0, <2>1, <2>2, <3>1 DEF WillSchedule
  <2>3. IdleBackend' => IdleBackend
    BY <1>0, <2>1 DEF IdleBackend, StoreEmpty
  <2> QED
    BY <1>0, <2>1, <2>2, <2>3, StaysArmed DEF IdleBackend, Replacing
<1>3. CASE WatcherRemoves(s)
  <2>1. UNCHANGED <<timers, stopGeneration, gaveUp>> /\ watcher[s] = "wait"
    BY <1>3 DEF WatcherRemoves
  <2>2. \A q \in Session : q # s => watcher'[q] = watcher[q]
    BY <1>3 DEF WatcherRemoves, SessionType
  <2>3. WillSchedule => WillSchedule'
    BY <1>0, <2>1, <2>2 DEF WillSchedule
  <2>4. CASE UNCHANGED sessions \/ ~StoreEmpty'
    <3>1. IdleBackend' => IdleBackend
      BY <1>0, <2>1, <2>4 DEF IdleBackend, StoreEmpty
    <3> QED
      BY <1>0, <2>1, <2>3, <3>1, StaysArmed DEF Replacing
  <2>5. CASE ~UNCHANGED sessions /\ StoreEmpty'
    <3>1. /\ sessions[owner[s]] = s /\ sessions' = [sessions EXCEPT ![owner[s]] = NoSession]
          /\ watcher' = [watcher EXCEPT ![s] = IF EmptiesStore(s) THEN "dropLast" ELSE "drop"]
      BY <1>3, <2>5 DEF WatcherRemoves, StoreRemove
    <3>2. owner[s] \in Keys
      <4> SUFFICES ASSUME owner[s] \notin Keys PROVE FALSE
        OBVIOUS
      <4> QED
        BY <2>5, <3>1 DEF SessionType
    <3>3. \A k \in Keys : sessions[k] \in {s, NoSession}
      BY <2>5, <3>1 DEF StoreEmpty, SessionType
    <3>4. s # NoSession
      BY OptionsAssumption DEF Session, NoSession
    <3>5. EmptiesStore(s)
      BY <3>1, <3>2, <3>3, <3>4 DEF EmptiesStore, Stored
    <3>6. watcher'[s] = "dropLast"
      BY <3>1, <3>5 DEF SessionType
    <3> QED
      BY <3>6 DEF AutoStopArmed, WillSchedule
  <2> QED
    BY <2>4, <2>5
<1> QED
  BY <1>1, <1>2, <1>3 DEF Watcher

\* So is the sweeper that expires the last ones.
LEMMA SweeperArmed == ASSUME SafeInv, ScheduleInv, AutoStopArmed, Sweeper PROVE AutoStopArmed'
<1> USE DEF SafeInv, TypeInv, TypeOK
<1>0. UNCHANGED <<backendReady, ctxDone, callbacks, startups, watcher, pc>>
  BY DEF Sweeper
<1>1. CASE SweeperSchedules
  <2>1. CASE backendReady
    <3>1. \E t \in timers' : t.gen = stopGeneration'
      BY <1>1, <2>1, ScheduleArms DEF SweeperSchedules
    <3> QED
      BY <3>1 DEF AutoStopArmed
  <2>2. CASE ~backendReady
    BY <1>0, <2>2 DEF AutoStopArmed
  <2> QED
    BY <2>1, <2>2
<1>2. CASE SweeperExpires
  <2>1. UNCHANGED <<timers, stopGeneration, gaveUp>> /\ ~lastExpired /\ sweeper # "schedule"
    BY <1>2 DEF SweeperExpires, ScheduleInv
  <2>2. PICK idle \in SUBSET ((Stored \cap Open) \ (recent \cup Admitting)) :
          /\ sessions' = [k \in Keys |-> IF sessions[k] \in idle THEN NoSession ELSE sessions[k]]
          /\ lastExpired' = (idle # {} /\ Stored = idle)
    BY <1>2 DEF SweeperExpires
  <2>3. WillSchedule => WillSchedule'
    BY <1>0, <2>1 DEF WillSchedule
  <2>4. CASE StoreEmpty' /\ ~StoreEmpty
    <3>1. Stored \subseteq idle
      BY <2>2, <2>4 DEF StoreEmpty, Stored
    <3>2. Stored # {}
      BY <2>4 DEF StoreEmpty, Stored
    <3>3. lastExpired'
      BY <2>2, <3>1, <3>2
    <3> QED
      BY <3>3 DEF AutoStopArmed, WillSchedule
  <2>5. CASE ~(StoreEmpty' /\ ~StoreEmpty)
    BY <1>0, <2>1, <2>3, <2>5, StaysArmed DEF IdleBackend, Replacing
  <2> QED
    BY <2>4, <2>5
<1>3. CASE SweeperDropsQueues
  <2>1. /\ UNCHANGED <<timers, stopGeneration, gaveUp, sessions>> /\ sweeper = "closing"
        /\ lastExpired => sweeper' = "schedule"
    BY <1>3 DEF SweeperDropsQueues
  <2>2. WillSchedule => WillSchedule'
    BY <1>0, <2>1 DEF WillSchedule
  <2> QED
    BY <1>0, <2>1, <2>2, StaysArmed DEF IdleBackend, StoreEmpty, Replacing
<1>4. CASE SweeperTicks \/ SweeperRefreshes \/ SweeperExits
  <2>1. UNCHANGED <<timers, stopGeneration, gaveUp, sessions, lastExpired>> /\ sweeper # "schedule"
    BY <1>4 DEF SweeperTicks, SweeperRefreshes, SweeperExits
  <2>2. WillSchedule => WillSchedule'
    BY <1>0, <2>1 DEF WillSchedule
  <2> QED
    BY <1>0, <2>1, <2>2, StaysArmed DEF IdleBackend, StoreEmpty, Replacing
<1> QED
  BY <1>1, <1>2, <1>3, <1>4 DEF Sweeper

\* The startup that opens the gate is going to schedule the stop if nobody is
\* there; the others arm nothing.
LEMMA StartupArmed ==
  ASSUME SafeInv, AutoStopArmed, NEW r \in startups, Startup(r)
  PROVE  AutoStopArmed'
<1> USE DEF SafeInv, TypeInv, TypeOK
<1>0. UNCHANGED <<callbacks, watcher, sweeper, lastExpired, pc, ctxDone, sessions>>
  BY DEF Startup
<1>1. CASE StartupOpensGate(r) /\ ~shuttingDown
  <2>1. PICK n : startups' = Replace(startups, r, n) /\ n.pc = "opened"
    BY <1>1, GotoMove DEF StartupOpensGate
  <2>2. n \in startups'
    BY <2>1 DEF Replace
  <2> QED
    BY <2>1, <2>2 DEF AutoStopArmed, WillSchedule
<1>2. CASE StartupGateOpened(r) /\ StoreEmpty /\ backendReady
  <2>1. \E t \in timers' : t.gen = stopGeneration'
    BY <1>2, ScheduleArms DEF StartupGateOpened
  <2> QED
    BY <2>1 DEF AutoStopArmed
<1>3. CASE StartupGateOpened(r) /\ ~(StoreEmpty /\ backendReady)
  <2>1. UNCHANGED <<backendReady, sessions>>
    BY <1>0, <1>3 DEF StartupGateOpened
  <2> QED
    BY <1>3, <2>1 DEF AutoStopArmed, StoreEmpty
<1>4. CASE ~(StartupOpensGate(r) /\ ~shuttingDown) /\ ~StartupGateOpened(r)
  <2>1. UNCHANGED <<timers, stopGeneration, gaveUp>>
    BY <1>4 DEF Startup, StartupPolls, StartupTakesAdmission, StartupOpensGate, StartupFails, StartupFailed,
                StartupCompletes, StartupRestarts
  <2>2. UNCHANGED backendReady \/ ~backendReady'
    BY <1>4, PollsMove DEF Startup, StartupTakesAdmission, StartupOpensGate, StartupFails, StartupFailed,
                           StartupCompletes, StartupRestarts
  <2>3. r.pc # "opened"
    BY <1>4, PollsMove DEF Startup, StartupTakesAdmission, StartupOpensGate, StartupFails, StartupFailed,
                           StartupCompletes, StartupRestarts, Polling
  <2>4. \A q \in startups : q # r => q \in startups'
    <3>1. CASE StartupPolls(r)
      BY <3>1, PollsMove DEF Replace
    <3>2. CASE StartupRestarts(r)
      BY <3>2, StartServerLocks DEF StartupRestarts
    <3>3. CASE ~StartupPolls(r) /\ ~StartupRestarts(r)
      BY <1>4, <3>3 DEF Startup, StartupTakesAdmission, StartupOpensGate, StartupFails, StartupFailed,
                        StartupCompletes, Goto, Replace
    <3> QED
      BY <3>1, <3>2, <3>3
  <2>5. WillSchedule => WillSchedule'
    BY <1>0, <2>3, <2>4, WillScheduleKept
  <2>6. IdleBackend' => IdleBackend
    BY <1>0, <2>1, <2>2 DEF IdleBackend, StoreEmpty
  <2> QED
    BY <1>0, <2>1, <2>5, <2>6, StaysArmed DEF Replacing
<1> QED
  BY <1>1, <1>2, <1>3, <1>4

\* A timer that fires becomes a callback of its generation.
LEMMA FiresArmed == ASSUME AutoStopArmed, NEW t \in timers, TimerFires(t) PROVE AutoStopArmed'
<1> DEFINE d == [timer |-> t, pc |-> "lock"]
<1>1. /\ UNCHANGED <<backendReady, sessions, ctxDone, gaveUp, stopGeneration, watcher, sweeper, lastExpired, startups, pc>>
      /\ timers' = timers \ {t} /\ callbacks' = callbacks \cup {d}
  BY DEF TimerFires
<1>2. d \in callbacks' /\ d.timer = t
  BY <1>1
<1>3. Armed => Armed'
  BY <1>1, <1>2 DEF Armed
<1> QED
  BY <1>1, <1>3 DEF AutoStopArmed, Armed, WillSchedule, StoreEmpty

\* A callback of the current generation ends because somebody came, because the
\* stop was accepted, because the attempts are used up, or with a retry armed.
LEMMA CallbackArmed == ASSUME SafeInv, AutoStopArmed, NEW c \in callbacks, Callback(c) PROVE AutoStopArmed'
<1> USE DEF SafeInv, TypeInv, TypeOK
<1>0. UNCHANGED <<stopGeneration, startups, watcher, sweeper, lastExpired, pc, ctxDone, sessions>>
  BY DEF Callback
<1>a. ASSUME \A t \in timers : t \in timers', \A d \in callbacks : d # c => d \in callbacks',
             IdleBackend' => IdleBackend, IdleBackend' /\ c.timer.gen = stopGeneration => Armed'
      PROVE  AutoStopArmed'
  <2>1. IdleBackend' /\ Armed => Armed'
    BY <1>0, <1>a DEF Armed
  <2> QED
    BY <1>0, <1>a, <2>1 DEF AutoStopArmed, IdleBackend, Armed, WillSchedule, StoreEmpty
<1>1. CASE CallbackDecides(c)
  <2>1. UNCHANGED <<backendReady, timers, gaveUp>>
    BY <1>1 DEF CallbackDecides
  <2>2. IdleBackend' => IdleBackend
    BY <1>0, <2>1 DEF IdleBackend, StoreEmpty
  <2>3. \A d \in callbacks : d # c => d \in callbacks'
    BY <1>1 DEF CallbackDecides, Replace
  <2>4. ASSUME IdleBackend', c.timer.gen = stopGeneration PROVE Armed'
    <3> DEFINE d == [c EXCEPT !.pc = "stopping"]
    <3>1. StopAllowed(c.timer)
      BY <2>2, <2>4 DEF StopAllowed, IdleBackend
    <3>2. d \in callbacks'
      BY <1>1, <3>1 DEF CallbackDecides, Replace
    <3>3. d.timer = c.timer
      BY DEF TimerType, CallbackRecord
    <3> QED
      BY <1>0, <2>4, <3>2, <3>3 DEF Armed
  <2> QED
    BY <1>a, <2>1, <2>2, <2>3, <2>4
<1>2. CASE CallbackStopAccepted(c)
  BY <1>2 DEF CallbackStopAccepted, MarkBackendNotRunning, CloseGate, AutoStopArmed
<1>3. CASE CallbackGivesUp(c)
  <2>1. UNCHANGED <<backendReady, timers>> /\ callbacks' = callbacks \ {c} /\ gaveUp' = (gaveUp \/ c.timer.gen = stopGeneration)
    BY <1>3 DEF CallbackGivesUp, CallbackReturns
  <2>2. (IdleBackend' => IdleBackend) /\ (c.timer.gen = stopGeneration => ~IdleBackend')
    BY <1>0, <2>1 DEF IdleBackend, StoreEmpty
  <2> QED
    BY <1>a, <2>1, <2>2
<1>4. CASE CallbackRetries(c)
  <2> DEFINE t == [c.timer EXCEPT !.attempt = @ + 1]
  <2>1. /\ UNCHANGED <<backendReady, gaveUp>> /\ callbacks' = callbacks \ {c}
        /\ IF c.timer.gen = stopGeneration /\ backendReady THEN timers' = timers \cup {t} ELSE UNCHANGED timers
    BY <1>4 DEF CallbackRetries, CallbackReturns
  <2>2. t.gen = c.timer.gen
    BY DEF TimerType, CallbackRecord, Timer
  <2>3. IdleBackend' => IdleBackend
    BY <1>0, <2>1 DEF IdleBackend, StoreEmpty
  <2> HIDE DEF t
  <2>4. ASSUME IdleBackend', c.timer.gen = stopGeneration PROVE Armed'
    BY <1>0, <2>1, <2>2, <2>3, <2>4 DEF Armed, IdleBackend
  <2> QED
    BY <1>a, <2>1, <2>3, <2>4
<1> QED
  BY <1>1, <1>2, <1>3, <1>4 DEF Callback

\* The health monitor and shutdown cancel the timer with the gate they close.
LEMMA ClosersArmed == ASSUME AutoStopArmed, Monitor \/ Shutdown PROVE AutoStopArmed'
<1>1. UNCHANGED <<callbacks, startups, watcher, sweeper, lastExpired, sessions>> /\ (Replacing => UNCHANGED pc)
  BY DEF Monitor, Shutdown, Cancel, ListenerCloses, ReadFails, ShutdownTakesAdmission, ShutdownClosesGate,
         ShutdownClosed, ServeWaits, Replacing
<1>2. ~backendReady' \/ UNCHANGED <<backendReady, timers, stopGeneration, gaveUp>>
  BY DEF Monitor, MonitorTicks, MonitorProbed, MonitorTakesAdmission, MonitorClosesGate, MonitorClosed,
         MonitorExits, Shutdown, Cancel, ListenerCloses, ReadFails, ShutdownTakesAdmission,
         ShutdownClosesGate, ShutdownClosed, ServeWaits, CloseGate
<1>3. ctxDone => ctxDone'
  BY DEF Monitor, Shutdown, Cancel, ListenerCloses, ReadFails, ShutdownTakesAdmission, ShutdownClosesGate,
         ShutdownClosed, ServeWaits
<1>4. CASE ~backendReady'
  BY <1>4 DEF AutoStopArmed
<1>5. CASE UNCHANGED <<backendReady, timers, stopGeneration, gaveUp>>
  <2>1. IdleBackend' => IdleBackend
    BY <1>1, <1>3, <1>5 DEF IdleBackend, StoreEmpty
  <2>2. WillSchedule => WillSchedule'
    BY <1>1 DEF WillSchedule
  <2>3. Replacing => Replacing'
    BY <1>1 DEF Replacing
  <2> QED
    BY <1>1, <1>5, <2>1, <2>2, <2>3, StaysArmed
<1> QED
  BY <1>2, <1>4, <1>5

\* Every step keeps an idle backend on its way to a stop, when no dial fails
\* and the first status query leaves the gate to a startup.
LEMMA NextArmed ==
  ASSUME HasReadiness, ~DialMayFail, SafeInv, SessionInv, QueueInv, ScheduleInv, AutoStopArmed, [Next]_vars
  PROVE  AutoStopArmed'
<1>1. CASE IgnorePacket \/ Returned \/ CooldownElapses \/ UNCHANGED vars \/ \E s \in Session : SessionStep(s)
  <2>1. UNCHANGED <<timers, callbacks, stopGeneration, backendReady, sessions, ctxDone, gaveUp, watcher, sweeper,
                    lastExpired, startups, pc>>
    BY <1>1 DEF IgnorePacket, Returned, CooldownElapses, SessionStep, vars
  <2> QED
    BY <2>1 DEF AutoStopArmed, WillSchedule, StoreEmpty
<1>2. CASE ServeBoots
  <2>1. pc = "boot" /\ ~backendReady'
    BY <1>2 DEF ServeBoots, SafeInv, PowerInv, StartupAlone
  <2> QED
    BY <2>1 DEF AutoStopArmed
<1>3. CASE CloseAllDetaches
  <2>1. ~backendReady'
    BY <1>3 DEF CloseAllDetaches, ScheduleInv
  <2> QED
    BY <2>1 DEF AutoStopArmed
<1>4. CASE Ingress
  BY <1>4, IngressArmed
<1>5. CASE \E s \in Session : Watcher(s)
  BY <1>5, WatcherArmed
<1>6. CASE Sweeper
  BY <1>6, SweeperArmed
<1>7. CASE Monitor \/ Shutdown
  BY <1>7, ClosersArmed
<1>8. CASE \E r \in startups : Startup(r)
  BY <1>8, StartupArmed
<1>9. CASE \E t \in timers : TimerFires(t)
  BY <1>9, FiresArmed
<1>10. CASE \E c \in callbacks : Callback(c)
  BY <1>10, CallbackArmed
<1> QED
  BY <1>1, <1>2, <1>3, <1>4, <1>5, <1>6, <1>7, <1>8, <1>9, <1>10 DEF Next

-----------------------------------------------------------------------------
(* The theorems.                                                           *)

AccountInv == OrderInv /\ SessionInv /\ QueueInv /\ EndInv /\ ScheduleInv /\ QueueAccounting

\* Everything the proof modules establish of a step, taken together.
LEMMA AccountAlways == Spec => []AccountInv
<1>1. Init => AccountInv
  BY InitType, InitSafe, InitLock, InitTimer, InitHealth, InitSessions, InitQueues, InitEnd, InitSchedule, InitAccounts
     DEF AccountInv, OrderInv, SafeInv
<1>2. AccountInv /\ [Next]_vars => AccountInv'
  <2> SUFFICES ASSUME AccountInv, [Next]_vars PROVE AccountInv'
    OBVIOUS
  <2>1. SafeInv /\ LockInv /\ TimerInv /\ HealthInv /\ SessionInv /\ QueueInv /\ EndInv /\ ScheduleInv /\ QueueAccounting
    BY DEF AccountInv, OrderInv
  <2>2. OrderInv'
    BY <2>1, NextSafe, NextLock, NextTimer, NextHealth DEF OrderInv
  <2>3. SessionInv'
    BY <2>1, NextSessions, NextStore DEF SessionInv
  <2>4. QueueInv' /\ EndInv' /\ ScheduleInv' /\ QueueAccounting'
    BY <2>1, NextQueues, NextEnd, NextSchedule, NextAccounts
  <2> QED
    BY <2>2, <2>3, <2>4 DEF AccountInv
<1> QED
  BY <1>1, <1>2, PTL DEF Spec

\* The inductive invariant of the orchestration core, for every value of the
\* constants: lock ownership, timers and generations, health failures, sessions
\* and watchers, queues, the end of Serve and the calls of scheduleAutoStop.
THEOREM InductiveAlways == Spec => []Inductive
<1>1. AccountInv => Inductive
  BY DEF AccountInv, OrderInv, SafeInv, Inductive
<1> QED
  BY <1>1, AccountAlways, PTL

\* Every queue has a watcher that is still going to remove it, however the
\* admission, the flush, the watcher and the sweeper interleave.
THEOREM QueuesWatched == Spec => []NoOrphanQueue
<1>1. AccountInv => NoOrphanQueue
  BY DEF AccountInv, QueueInv
<1> QED
  BY <1>1, AccountAlways, PTL

\* No lost wake-up: startServer, completeStartup and the ingress leave no
\* queued datagram behind a closed gate without somebody who resolves it.
THEOREM QueuesServed == Spec => []NoStrandedQueue
<1>1. AccountInv => NoStrandedQueue
  BY DEF AccountInv, QueueInv
<1> QED
  BY <1>1, AccountAlways, PTL

\* The datagrams of a session reach its socket in the order of arrival and at
\* most once: the flush of openStartupGate never overtakes a direct write.
THEOREM DeliveredInOrder == Spec => []DeliveryInOrder
<1>1. AccountInv => DeliveryInOrder
  BY DEF AccountInv, QueueInv
<1> QED
  BY <1>1, AccountAlways, PTL

\* Until the cooldown of a permanent failure is over nothing is queued and no
\* startup talks to the panel, although failStartup closes the sessions after
\* it has released mu.
THEOREM CooldownIsQuiet == Spec => []CooldownQuiet
<1>1. AccountInv => CooldownQuiet
  BY DEF AccountInv, QueueInv, CooldownHolds, CooldownQuiet, UnderWay, Polling, Opening
<1> QED
  BY <1>1, AccountAlways, PTL

\* At most MaxSessions upstream sockets are open, the ones CloseAll has taken
\* out of the store and not closed yet included.
THEOREM SocketsBounded == Spec => []SessionBound
<1>1. AccountInv => SessionBound
  BY OpenBounded DEF AccountInv, OrderInv
<1> QED
  BY <1>1, AccountAlways, PTL

\* queuedBytes and the byte counter of every queue are the sums they stand for,
\* and the three limits of enqueueLocked hold.
THEOREM BytesAccounted == Spec => []QueueAccounting
<1>1. AccountInv => QueueAccounting
  BY DEF AccountInv
<1> QED
  BY <1>1, AccountAlways, PTL

\* When Serve has returned no session, queue, timer, callback or startup is
\* left and both locks are free.
THEOREM ServeReturnsClean == Spec => []ShutdownClean
<1>1. AccountInv => ShutdownClean
  BY EndClean DEF AccountInv
<1> QED
  BY <1>1, AccountAlways, PTL

\* ExpireIdle never expires an open session with a queue, even one whose queue
\* was created after expireIdleSessions listed the pending sessions.
THEOREM PendingKept == Spec => PendingNotExpired
<1>1. ASSUME AccountInv, Next, NEW s \in DOMAIN queues, state[s] = "open" PROVE s \notin expired' \ expired
  <2>1. CASE Sweeper /\ SweeperExpires
    <3>1. sweeper = "expire" /\ expired' \cap recent = {}
      BY <2>1 DEF SweeperExpires
    <3>2. s \in PendingSessions
      BY <1>1 DEF AccountInv, OrderInv, SafeInv, TypeInv, TypeOK, QueueType, PendingSessions, Open
    <3> QED
      BY <1>1, <3>1, <3>2 DEF AccountInv, QueueInv, PendingTouched
  <2>2. CASE ~(Sweeper /\ SweeperExpires)
    <3>1. expired' \subseteq expired
      BY <1>1, <2>2
         DEF Next, ServeBoots, Ingress, Monitor, Shutdown, IgnorePacket, Returned, CloseAllDetaches, CooldownElapses,
             SessionStep, Watcher, TimerFires, Callback, Startup, vars, Sweeper, SweeperTicks, SweeperRefreshes,
             SweeperDropsQueues, SweeperSchedules, SweeperExits
    <3> QED
      BY <3>1
  <2> QED
    BY <2>1, <2>2
<1>2. AccountInv /\ [Next]_vars => [\A s \in DOMAIN queues : state[s] = "open" => s \notin expired' \ expired]_vars
  BY <1>1
<1> QED
  BY <1>2, AccountAlways, PTL DEF Spec, PendingNotExpired

\* The life of session s as SessionContract has it.
LifeOf(s) == INSTANCE SessionContract WITH life <- state[s]

\* The sessions the proxy has created live as SessionContract says and as
\* Session implements: none is opened twice, revived, or done without closing,
\* whichever of ingress, flush, sweeper, CloseAll and reader closes it.
THEOREM SessionsLive == Spec => [][\A s \in Session : state[s] # "none" => [LifeOf(s)!Next]_(state[s])]_vars
<1>1. ASSUME AccountInv, Next, NEW s \in Session, state[s] # "none" PROVE [LifeOf(s)!Next]_(state[s])
  <2>0. SafeInv /\ SessionsNew
    BY <1>1 DEF AccountInv, OrderInv, SessionInv
  <2>1. ASSUME SessionsAge PROVE [LifeOf(s)!Next]_(state[s])
    BY <1>1, <2>1 DEF SessionsAge, LifeOf!Next, LifeOf!Leave, LifeOf!Finish
  <2>2. CASE ~Ingress
    BY <1>1, <2>0, <2>1, <2>2, OtherSteps
  <2>3. CASE Ingress /\ (WatchSession \/ \E k \in Keys : ReceivePacket(k))
    BY <2>3 DEF WatchSession, ReceivePacket
  <2>4. CASE CreateSession
    <3>1. state[received] = "none" /\ state' = [state EXCEPT ![received] = "open"]
      BY <2>0, <2>4 DEF CreateSession, SessionsNew, HandlingPC
    <3>2. s # received
      BY <1>1, <3>1
    <3> QED
      BY <2>0, <3>1, <3>2 DEF SafeInv, TypeInv, TypeOK, SessionType
  <2>5. CASE Ingress /\ ~WatchSession /\ ~CreateSession /\ ~(\E k \in Keys : ReceivePacket(k))
    BY <2>0, <2>1, <2>5, IngressSteps
  <2> QED
    BY <2>2, <2>3, <2>4, <2>5
<1>2. AccountInv /\ [Next]_vars => [\A s \in Session : state[s] # "none" => [LifeOf(s)!Next]_(state[s])]_vars
  BY <1>1
<1> QED
  BY <1>2, AccountAlways, PTL DEF Spec

\* With a readiness probe, and while every socket can be opened, a backend that
\* is up without a session is always on its way to a stop.  Both hypotheses are
\* needed: the first status query of delay mode opens the gate and schedules
\* nothing, and when the ingress has taken a dead session out of the store and
\* cannot dial its replacement, the session's watcher schedules nothing either.
THEOREM IdleBackendArmed ==
  ASSUME HasReadiness, ~DialMayFail
  PROVE  Spec => []AutoStopArmed
<1>1. Init => AutoStopArmed
  BY DEF Init, AutoStopArmed
<1>2. AccountInv /\ AutoStopArmed /\ [Next]_vars => AutoStopArmed'
  BY NextArmed DEF AccountInv, OrderInv
<1> QED
  BY <1>1, <1>2, AccountAlways, PTL DEF Spec
=============================================================================
