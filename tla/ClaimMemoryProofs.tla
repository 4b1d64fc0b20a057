
-------------------------- MODULE ClaimMemoryProofs --------------------------
(***************************************************************************)
(* Proofs about ClaimMemory for any claims, sources, batches and commands. *)
(*                                                                         *)
(* ReachableFrom is computed in rounds.  It is shown to be the least set   *)
(* that holds the targets of k and is closed under the edges               *)
(* (ReachableIsLeast: a round that adds nothing comes within |Claims|      *)
(* rounds), and from then on only that is used.  Edges that the cycle      *)
(* check leaves keep an acyclic graph acyclic (NoCycleIsClosed).           *)
(*                                                                         *)
(* TypeInv: rows only gain attributions and never go, so a decision that   *)
(* was planned still finds its row when it is written (PlanInv), and the   *)
(* rows that an open final transaction has written fit the rows that the   *)
(* commands leave (DraftInv).                                              *)
(*                                                                         *)
(* VerdictsInv: a verdict is a function of the counted rows, their graph,  *)
(* the manifests and the resolutions (VerdictOn).  Each step either takes  *)
(* the claim out of "current" and marks an open assessment of it as        *)
(* overtaken, or leaves all of these alone (KeepsOn), which for a page     *)
(* that is only a parent in the claim's graph rests on Reach.              *)
(***************************************************************************)
EXTENDS ClaimMemory, FiniteSetTheorems, WellFoundedInduction, TLAPS

\* A nonempty set of naturals has a least element: what the inductions below rest on.
LEMMA LeastNatural == ASSUME NEW T \in SUBSET Nat, T # {} PROVE \E x \in T : \A y \in T : x <= y
<1>1. PICK x \in T : \A y \in T : ~(<<y, x>> \in OpToRel(<, Nat))
  BY NatLessThanWellFounded, WFMin
<1>2. \A y \in T : <<y, x>> \in OpToRel(<, Nat) <=> y < x
  BY DEF OpToRel
<1>3. \A y \in T : ~(y < x)
  BY <1>1, <1>2
<1>4. \A y \in T : x \in Int /\ y \in Int
  OBVIOUS
<1> QED
  BY <1>3, <1>4

\* f holds the first n values of the iteration of F from x0.
Iteration(D, x0, F, n, f) ==
    f \in [0 .. n -> D] /\ f[0] = x0 /\ \A i \in 1 .. n : f[i] = F[<<i, f[i - 1]>>]

\* A step that stays within D can be iterated.
LEMMA Iterates ==
  ASSUME NEW D, NEW x0 \in D, NEW F \in [Nat \X D -> D], NEW N \in Nat
  PROVE  \E f : Iteration(D, x0, F, N, f)
<1> DEFINE Bad == {n \in Nat : ~ \E f : Iteration(D, x0, F, n, f)}
<1>1. SUFFICES ASSUME Bad # {} PROVE FALSE
  OBVIOUS
<1>2. PICK n \in Bad : \A m \in Bad : n <= m
  <2>1. Bad \in SUBSET Nat
    OBVIOUS
  <2> HIDE DEF Bad
  <2> QED
    BY <1>1, <2>1, LeastNatural
<1>3. CASE n = 0
  <2>1. Iteration(D, x0, F, 0, [i \in 0 .. 0 |-> x0])
    BY DEF Iteration
  <2> QED
    BY <1>2, <1>3, <2>1
<1>4. CASE n # 0
  <2>1. n - 1 \in Nat /\ n - 1 \notin Bad
    BY <1>2, <1>4
  <2>2. PICK f : Iteration(D, x0, F, n - 1, f)
    BY <2>1
  <2> DEFINE g == [i \in 0 .. n |-> IF i = n THEN F[<<n, f[n - 1]>>] ELSE f[i]]
  <2>3. f[n - 1] \in D /\ F[<<n, f[n - 1]>>] \in D
    BY <2>1, <2>2, <1>2 DEF Iteration
  <2>4. g \in [0 .. n -> D] /\ \A i \in 0 .. n - 1 : g[i] = f[i]
    BY <1>2, <2>2, <2>3 DEF Iteration
  <2>5. g[0] = x0 /\ g[n] = F[<<n, g[n - 1]>>]
    <3>1. 0 \in 0 .. n - 1 /\ n - 1 \in 0 .. n - 1 /\ n \in 0 .. n
      BY <1>2, <2>1
    <3>2. g[0] = f[0] /\ g[n - 1] = f[n - 1]
      BY <2>4, <3>1
    <3>3. g[n] = F[<<n, f[n - 1]>>]
      BY <3>1
    <3>4. f[0] = x0
      BY <2>2 DEF Iteration
    <3> HIDE DEF g
    <3> QED
      BY <3>2, <3>3, <3>4
  <2>6. \A i \in 1 .. n : g[i] = F[<<i, g[i - 1]>>]
    <3>1. TAKE i \in 1 .. n
    <3>2. CASE i = n
      BY <2>5, <3>2
    <3>3. CASE i # n
      <4>1. i \in 1 .. n - 1 /\ i \in 0 .. n - 1 /\ i - 1 \in 0 .. n - 1
        BY <1>2, <3>3
      <4> QED
        BY <2>2, <2>4, <4>1 DEF Iteration
    <3> QED
      BY <3>2, <3>3
  <2>7. Iteration(D, x0, F, n, g)
    <3> HIDE DEF g
    <3> QED
      BY <2>4, <2>5, <2>6 DEF Iteration
  <2> QED
    BY <1>2, <2>7
<1> QED
  BY <1>3, <1>4

-----------------------------------------------------------------------------
(* Dependencies.                                                           *)

\* the targets of the edges that leave A
Targets(A, edges) == {p[2] : p \in {p \in edges : p[1] \in A}}

\* reach holds the rounds of the search from k
Rounds(k, edges, reach) ==
    reach = [n \in 0 .. Cardinality(Claims) |->
               IF n = 0 THEN {p[2] : p \in {p \in edges : p[1] = k}}
               ELSE LET r == reach[n - 1] IN r \cup {p[2] : p \in {p \in edges : p[1] \in r}}]

LEMMA RoundsExist ==
  ASSUME NEW edges \in SUBSET (Claims \X Claims), NEW k
  PROVE  \E f : Rounds(k, edges, f) /\ ReachableFrom(k, edges) = f[Cardinality(Claims)]
<1> DEFINE N == Cardinality(Claims)
           D == SUBSET Claims
           F == [x \in Nat \X D |-> x[2] \cup Targets(x[2], edges)]
           x0 == Targets({k}, edges)
<1>1. N \in Nat
  BY AssessingAssumption, FS_CardinalityType
<1>2. \A A : Targets(A, edges) \in D
  BY DEF Targets
<1>3. x0 \in D /\ F \in [Nat \X D -> D]
  <2>1. \A x \in Nat \X D : x[2] \cup Targets(x[2], edges) \in D
    BY <1>2
  <2> QED
    BY <1>2, <2>1
<1>4. \E f : Rounds(k, edges, f)
  <2>1. PICK f : Iteration(D, x0, F, N, f)
    <3> HIDE DEF F, x0, D, N
    <3> QED
      BY <1>1, <1>3, Iterates
  <2>2. \A n \in 1 .. N : f[n] = f[n - 1] \cup Targets(f[n - 1], edges)
    <3>1. TAKE n \in 1 .. N
    <3>2. n - 1 \in 0 .. N
      BY <1>1
    <3>3. <<n, f[n - 1]>> \in Nat \X D
      BY <1>1, <2>1, <3>2 DEF Iteration
    <3> QED
      BY <2>1, <3>3 DEF Iteration
  <2> DEFINE h == [n \in 0 .. N |-> IF n = 0 THEN x0 ELSE f[n - 1] \cup Targets(f[n - 1], edges)]
  <2>3. f = h
    <3>1. f[0] = x0 /\ DOMAIN f = 0 .. N /\ f = [n \in 0 .. N |-> f[n]]
      BY <2>1 DEF Iteration
    <3>2. \A n \in 0 .. N : f[n] = h[n]
      <4> HIDE DEF x0, N
      <4>1. TAKE n \in 0 .. N
      <4>2. CASE n = 0
        BY <3>1, <4>2
      <4>3. CASE n # 0
        BY <1>1, <2>2, <4>3
      <4> QED
        BY <4>2, <4>3
    <3>3. DOMAIN h = 0 .. N /\ h = [n \in 0 .. N |-> h[n]]
      OBVIOUS
    <3> HIDE DEF h
    <3> QED
      BY <3>1, <3>2, <3>3
  <2>4. Rounds(k, edges, f)
    <3>1. x0 = {p[2] : p \in {p \in edges : p[1] = k}}
      BY DEF Targets
    <3>2. h = [n \in 0 .. Cardinality(Claims) |->
               IF n = 0 THEN {p[2] : p \in {p \in edges : p[1] = k}}
               ELSE LET r == f[n - 1] IN r \cup {p[2] : p \in {p \in edges : p[1] \in r}}]
      <4> HIDE DEF x0
      <4> QED
        BY <3>1 DEF Targets
    <3> HIDE DEF h
    <3> QED
      BY <2>3, <3>2 DEF Rounds
  <2> QED
    BY <2>4
<1> DEFINE f == CHOOSE f : Rounds(k, edges, f)
<1>5. Rounds(k, edges, f)
  BY <1>4
<1>6. ReachableFrom(k, edges) = f[N]
  BY DEF ReachableFrom, Rounds
<1> QED
  BY <1>5, <1>6

\* ReachableFrom is the least set with the successors of k that no edge leaves.
LEMMA ReachableIsLeast ==
  ASSUME NEW edges \in SUBSET (Claims \X Claims), NEW k
  PROVE  /\ ReachableFrom(k, edges) \subseteq Claims
         /\ \A p \in edges : p[1] = k \/ p[1] \in ReachableFrom(k, edges) =>
               p[2] \in ReachableFrom(k, edges)
         /\ \A S : (\A p \in edges : p[1] = k \/ p[1] \in S => p[2] \in S) =>
               ReachableFrom(k, edges) \subseteq S
<1> DEFINE N == Cardinality(Claims)
<1>1. PICK f : Rounds(k, edges, f) /\ ReachableFrom(k, edges) = f[N]
  BY RoundsExist
<1>2. N \in Nat /\ IsFiniteSet(Claims)
  BY AssessingAssumption, FS_CardinalityType
<1>3. /\ f[0] = Targets({k}, edges)
      /\ \A n \in 1 .. N : f[n] = f[n - 1] \cup Targets(f[n - 1], edges)
  <2> DEFINE h == [n \in 0 .. N |-> IF n = 0 THEN Targets({k}, edges)
                                    ELSE f[n - 1] \cup Targets(f[n - 1], edges)]
  <2>1. Targets({k}, edges) = {p[2] : p \in {p \in edges : p[1] = k}}
    BY DEF Targets
  <2>2. \A n \in 1 .. N : LET r == f[n - 1] IN r \cup {p[2] : p \in {p \in edges : p[1] \in r}}
                            = f[n - 1] \cup Targets(f[n - 1], edges)
    BY DEF Targets
  <2>3. f[0] = {p[2] : p \in {p \in edges : p[1] = k}}
    BY <1>1, <1>2 DEF Rounds
  <2>4. \A n \in 1 .. N : f[n] = LET r == f[n - 1] IN r \cup {p[2] : p \in {p \in edges : p[1] \in r}}
    <3>1. TAKE n \in 1 .. N
    <3>2. n \in 0 .. N /\ n # 0
      BY <1>2
    <3> QED
      BY <1>1, <3>2 DEF Rounds
  <2>5. \A n \in 1 .. N : f[n] = f[n - 1] \cup Targets(f[n - 1], edges)
    BY <2>4 DEF Targets
  <2> QED
    BY <2>1, <2>3, <2>5
<1>4. \A A : Targets(A, edges) \subseteq Claims
  BY DEF Targets
<1>5. \A n \in 0 .. N : f[n] \subseteq Claims
  <2>1. TAKE n \in 0 .. N
  <2>2. CASE n = 0
    BY <1>3, <1>4, <2>2
  <2>3. CASE n # 0
    <3> DEFINE Bad == {m \in Nat : m <= N /\ ~(f[m] \subseteq Claims)}
    <3>1. SUFFICES ASSUME Bad # {} PROVE FALSE
      BY <1>2
    <3>2. PICK m \in Bad : \A j \in Bad : m <= j
      <4>1. Bad \in SUBSET Nat
        OBVIOUS
      <4> HIDE DEF Bad
      <4> QED
        BY <3>1, <4>1, LeastNatural
    <3>3. m # 0
      BY <1>3, <1>4, <3>2
    <3>4. m \in 1 .. N /\ m - 1 \in Nat /\ m - 1 <= N /\ ~(m <= m - 1)
      BY <1>2, <3>2, <3>3
    <3>5. f[m - 1] \subseteq Claims
      BY <3>2, <3>4
    <3> QED
      BY <1>3, <1>4, <3>2, <3>4, <3>5
  <2> QED
    BY <2>2, <2>3
<1> DEFINE Shut(n) == Targets(f[n], edges) \subseteq f[n]
           Full(n) == Cardinality(f[n]) >= n
<1>6. \A n \in 0 .. N : IsFiniteSet(f[n]) /\ Cardinality(f[n]) \in Nat
  BY <1>2, <1>5, FS_Subset, FS_CardinalityType
<1>7. \A n \in 1 .. N : Shut(n - 1) \/ Full(n - 1) => Shut(n) \/ Full(n)
  <2>1. TAKE n \in 1 .. N
  <2>2. n - 1 \in 0 .. N /\ n \in 0 .. N /\ n \in Nat
    BY <1>2
  <2>3. f[n] = f[n - 1] \cup Targets(f[n - 1], edges)
    BY <1>3
  <2>4. CASE Shut(n - 1)
    <3>1. f[n] = f[n - 1]
      BY <2>3, <2>4
    <3> QED
      BY <2>4, <3>1
  <2>5. CASE ~Shut(n - 1) /\ Full(n - 1)
    <3>1. f[n - 1] \in SUBSET f[n] /\ f[n] # f[n - 1]
      BY <2>3, <2>5
    <3>2. Cardinality(f[n - 1]) <= Cardinality(f[n]) /\ Cardinality(f[n]) # Cardinality(f[n - 1])
      BY <1>6, <2>2, <3>1, FS_Subset
    <3> QED
      BY <1>6, <2>2, <2>5, <3>2
  <2> QED
    BY <2>4, <2>5
<1>8. Shut(0) \/ Full(0)
  BY <1>2, <1>6
<1>9. Shut(N) \/ Full(N)
  <2> DEFINE Bad == {m \in Nat : m <= N /\ ~(Shut(m) \/ Full(m))}
  <2>1. SUFFICES ASSUME Bad # {} PROVE FALSE
    BY <1>2
  <2>2. PICK m \in Bad : \A j \in Bad : m <= j
    <3>1. Bad \in SUBSET Nat
      OBVIOUS
    <3> HIDE DEF Bad
    <3> QED
      BY <2>1, <3>1, LeastNatural
  <2> HIDE DEF Shut, Full
  <2>3. m # 0
    BY <1>8, <2>2
  <2>4. m \in 1 .. N /\ m - 1 \in Nat /\ m - 1 <= N /\ ~(m <= m - 1)
    BY <1>2, <2>2, <2>3
  <2>5. Shut(m - 1) \/ Full(m - 1)
    BY <2>2, <2>4
  <2> QED
    BY <1>7, <2>2, <2>4, <2>5
<1>10. Shut(N)
  <2>1. N \in 0 .. N
    BY <1>2
  <2>2. CASE Full(N)
    <3>1. f[N] \in SUBSET Claims
      BY <1>5, <2>1
    <3>2. Cardinality(f[N]) = Cardinality(Claims)
      BY <1>2, <1>6, <2>1, <2>2, <3>1, FS_Subset
    <3>3. f[N] = Claims
      BY <1>2, <3>1, <3>2, FS_Subset
    <3> QED
      BY <1>4, <3>3
  <2> QED
    BY <1>9, <2>2
<1>11. \A n \in 0 .. N : f[0] \subseteq f[n]
  <2> DEFINE Bad == {m \in Nat : m <= N /\ ~(f[0] \subseteq f[m])}
  <2>1. SUFFICES ASSUME Bad # {} PROVE FALSE
    BY <1>2
  <2>2. PICK m \in Bad : \A j \in Bad : m <= j
    <3>1. Bad \in SUBSET Nat
      OBVIOUS
    <3> HIDE DEF Bad
    <3> QED
      BY <2>1, <3>1, LeastNatural
  <2>3. m # 0
    BY <2>2
  <2>4. m \in 1 .. N /\ m - 1 \in Nat /\ m - 1 <= N /\ ~(m <= m - 1)
    BY <1>2, <2>2, <2>3
  <2>5. f[0] \subseteq f[m - 1]
    BY <2>2, <2>4
  <2> QED
    BY <1>3, <2>2, <2>4, <2>5
<1>12. ASSUME NEW S, \A p \in edges : p[1] = k \/ p[1] \in S => p[2] \in S
       PROVE  f[N] \subseteq S
  <2> DEFINE Bad == {m \in Nat : m <= N /\ ~(f[m] \subseteq S)}
  <2>1. SUFFICES ASSUME Bad # {} PROVE FALSE
    BY <1>2
  <2>2. PICK m \in Bad : \A j \in Bad : m <= j
    <3>1. Bad \in SUBSET Nat
      OBVIOUS
    <3> HIDE DEF Bad
    <3> QED
      BY <2>1, <3>1, LeastNatural
  <2>3. m # 0
    BY <1>3, <1>12, <2>2 DEF Targets
  <2>4. m \in 1 .. N /\ m - 1 \in Nat /\ m - 1 <= N /\ ~(m <= m - 1)
    BY <1>2, <2>2, <2>3
  <2>5. f[m - 1] \subseteq S
    BY <2>2, <2>4
  <2>6. Targets(f[m - 1], edges) \subseteq S
    BY <1>12, <2>5 DEF Targets
  <2> QED
    BY <1>3, <2>2, <2>4, <2>5, <2>6
<1>13. N \in 0 .. N
  BY <1>2
<1>14. \A p \in edges : p[1] = k \/ p[1] \in f[N] => p[2] \in f[N]
  <2>1. \A p \in edges : p[1] = k => p[2] \in f[0]
    BY <1>3 DEF Targets
  <2>2. \A p \in edges : p[1] \in f[N] => p[2] \in Targets(f[N], edges)
    BY DEF Targets
  <2> QED
    BY <1>10, <1>11, <1>13, <2>1, <2>2
<1> QED
  BY <1>1, <1>5, <1>12, <1>13, <1>14

Acyclic(edges) == \A k \in Claims : k \notin ReachableFrom(k, edges)

LEMMA ReachableIsMonotone ==
  ASSUME NEW less \in SUBSET (Claims \X Claims), NEW more \in SUBSET (Claims \X Claims),
         less \subseteq more, NEW k
  PROVE  ReachableFrom(k, less) \subseteq ReachableFrom(k, more)
<1>1. \A p \in less : p[1] = k \/ p[1] \in ReachableFrom(k, more) => p[2] \in ReachableFrom(k, more)
  BY ReachableIsLeast
<1> QED
  BY <1>1, ReachableIsLeast

\* What is reachable from a reachable claim is reachable.
LEMMA ReachableIsTransitive ==
  ASSUME NEW edges \in SUBSET (Claims \X Claims), NEW k, NEW j \in ReachableFrom(k, edges)
  PROVE  ReachableFrom(j, edges) \subseteq ReachableFrom(k, edges)
<1>1. \A p \in edges : p[1] = j \/ p[1] \in ReachableFrom(k, edges) => p[2] \in ReachableFrom(k, edges)
  BY ReachableIsLeast
<1> QED
  BY <1>1, ReachableIsLeast

(* New edges of which none has its source reachable from its target, over  *)
(* old and new edges, close no cycle: the claims on a cycle through k are  *)
(* reachable from one another, so a new edge among them would lie on it.   *)
LEMMA NoCycleIsClosed ==
  ASSUME NEW old \in SUBSET (Claims \X Claims), NEW new \in SUBSET (Claims \X Claims),
         Acyclic(old),
         \A p \in new : p[1] # p[2] /\ p[1] \notin ReachableFrom(p[2], old \cup new)
  PROVE  Acyclic(old \cup new)
<1> DEFINE all == old \cup new
           R(k) == ReachableFrom(k, all)
<1>1. all \in SUBSET (Claims \X Claims)
  OBVIOUS
<1> SUFFICES ASSUME NEW k \in Claims, k \in R(k), k \notin ReachableFrom(k, old)
             PROVE  FALSE
  BY DEF Acyclic
<1> DEFINE Loop == {x \in R(k) : x = k \/ k \in R(x)}
           Rest == (R(k) \ Loop) \cup (R(k) \cap ReachableFrom(k, old))
<1>2. \A p \in all : p[1] = k \/ p[1] \in R(k) => p[2] \in R(k)
  BY <1>1, ReachableIsLeast
<1>3. \A p \in all : p[2] \in R(p[1])
  BY <1>1, ReachableIsLeast
<1>4. ASSUME NEW p \in new PROVE ~(p[1] \in Loop /\ p[2] \in Loop)
  <2> SUFFICES ASSUME p[1] \in Loop, p[2] \in Loop PROVE FALSE
    OBVIOUS
  <2>1. p[1] \in R(k)
    OBVIOUS
  <2>2. CASE p[2] = k
    BY <2>1, <2>2
  <2>3. CASE k \in R(p[2])
    <3>1. R(k) \subseteq R(p[2])
      BY <1>1, <2>3, ReachableIsTransitive
    <3> QED
      BY <2>1, <3>1
  <2> QED
    BY <2>2, <2>3
<1>5. \A p \in all : p[1] \in R(k) /\ p[2] \in Loop => p[1] \in Loop
  <2>1. SUFFICES ASSUME NEW p \in all, p[1] \in R(k), p[2] \in Loop PROVE k \in R(p[1])
    OBVIOUS
  <2>2. p[2] \in R(p[1])
    BY <1>3
  <2>3. CASE p[2] = k
    BY <2>2, <2>3
  <2>4. CASE k \in R(p[2])
    BY <1>1, <2>2, <2>4, ReachableIsTransitive
  <2> QED
    BY <2>1, <2>3, <2>4
<1>6. k \in Loop
  OBVIOUS
<1>7. \A p \in all : p[1] \in Loop /\ p[2] \in Loop => p \in old
  BY <1>4
<1>8. \A p \in old : p[1] = k \/ p[1] \in ReachableFrom(k, old) => p[2] \in ReachableFrom(k, old)
  BY ReachableIsLeast
<1>9. \A p \in all : p[1] = k \/ p[1] \in Rest => p[2] \in Rest
  <2>1. SUFFICES ASSUME NEW p \in all, p[1] = k \/ p[1] \in Rest PROVE p[2] \in Rest
    OBVIOUS
  <2>2. p[1] \in R(k) /\ p[2] \in R(k)
    BY <1>2, <1>6, <2>1
  <2>3. CASE p[2] \notin Loop
    BY <2>2, <2>3
  <2>4. CASE p[2] \in Loop
    <3>1. p[1] \in Loop /\ p \in old
      BY <1>5, <1>7, <2>2, <2>4
    <3>2. p[1] = k \/ p[1] \in ReachableFrom(k, old)
      BY <2>1, <3>1
    <3> QED
      BY <1>8, <2>2, <3>1, <3>2
  <2> QED
    BY <2>3, <2>4
<1>10. R(k) \subseteq Rest
  <2> HIDE DEF Rest
  <2> QED
    BY <1>1, <1>9, ReachableIsLeast
<1> QED
  BY <1>6, <1>10
\* The operations that an accepted claim rests on are ones of the batch, and one is the last.
LEMMA AcceptedOperations ==
  ASSUME NEW b \in Batches
  PROVE  /\ \A i \in Accepted(b) : /\ b.ops[i].claim \in Claims /\ b.ops[i].asof \in Nat
                                   /\ \A x \in b.ops[i].deps : x.to \in Claims /\ x.kind \in DepKinds
         /\ \A k \in AcceptedClaims(b) : LastOf(b, k) \in OpsOn(b, k)
         /\ AcceptedClaims(b) \subseteq Claims
<1>1. Accepted(b) \subseteq DOMAIN b.ops /\ DOMAIN b.ops = 1 .. Len(b.ops) /\ Len(b.ops) \in Nat
  BY MemoryAssumption DEF Accepted, BatchShape
<1>2. \A i \in Accepted(b) : /\ b.ops[i].claim \in Claims /\ b.ops[i].asof \in Nat
                             /\ \A x \in b.ops[i].deps : x.to \in Claims /\ x.kind \in DepKinds
  BY <1>1, MemoryAssumption DEF BatchShape
<1>3. ASSUME NEW k \in AcceptedClaims(b) PROVE LastOf(b, k) \in OpsOn(b, k)
  <2> DEFINE is == OpsOn(b, k)
             n == Len(b.ops)
             T == {n - i : i \in is}
  <2>1. is # {} /\ is \subseteq 1 .. n /\ n \in Nat
    BY <1>1 DEF AcceptedClaims, OpsOn
  <2> HIDE DEF is, n
  <2>2. \A i \in is : n - i \in Nat
    BY <2>1
  <2>3. PICK t \in T : \A u \in T : t <= u
    <3>1. T \in SUBSET Nat
      BY <2>2
    <3>2. T # {}
      BY <2>1
    <3> HIDE DEF T
    <3> QED
      BY <3>1, <3>2, LeastNatural
  <2>4. PICK i \in is : t = n - i
    OBVIOUS
  <2>5. \A j \in is : n - i <= n - j
    BY <2>3, <2>4
  <2>6. \A j \in is : j <= i
    BY <2>1, <2>5
  <2> QED
    BY <2>6 DEF LastOf, is
<1> QED
  BY <1>2, <1>3 DEF AcceptedClaims

\* What a batch adds to the dependencies keeps them acyclic.
LEMMA StagingKeepsAcyclic ==
  ASSUME NEW b \in Batches, deps \subseteq Claims \X Claims \X DepKinds, Acyclic(Pairs(deps))
  PROVE  /\ AcceptedEdges(b) \subseteq Claims \X Claims \X DepKinds
         /\ Acyclic(Pairs(deps \cup AcceptedEdges(b)))
<1> DEFINE proposed == ProposedEdges(b)
           old == Pairs(deps)
           new == Pairs(AcceptedEdges(b))
<1>1. proposed \subseteq Claims \X Claims \X DepKinds /\ \A d \in proposed : d[1] # d[2]
  <2>1. \A i \in Accepted(b) : \A x \in b.ops[i].deps :
            <<b.ops[i].claim, x.to, x.kind>> \in Claims \X Claims \X DepKinds
    BY AcceptedOperations
  <2> QED
    BY <2>1 DEF ProposedEdges
<1>2. AcceptedEdges(b) \subseteq proposed
  BY DEF AcceptedEdges
<1>3. \A ds : ds \subseteq Claims \X Claims \X DepKinds => Pairs(ds) \in SUBSET (Claims \X Claims)
  BY DEF Pairs
<1>4. /\ old \in SUBSET (Claims \X Claims) /\ Pairs(proposed) \in SUBSET (Claims \X Claims)
      /\ new \in SUBSET (Claims \X Claims)
  BY <1>1, <1>2, <1>3
<1>5. new \subseteq Pairs(proposed)
  BY <1>2 DEF Pairs
<1>6. \A p \in new : p[1] # p[2] /\ p[1] \notin ReachableFrom(p[2], old \cup Pairs(proposed))
  <2>1. SUFFICES ASSUME NEW d \in AcceptedEdges(b), d[3] = "evidential"
                 PROVE  /\ d[1] # d[2]
                        /\ d[1] \notin ReachableFrom(d[2], old \cup Pairs(proposed))
    BY DEF Pairs
  <2>2. <<d[1], d[2]>> \in Pairs(proposed) /\ <<d[1], d[2]>> \notin FindCycles(old, Pairs(proposed))
    BY <1>2, <2>1 DEF AcceptedEdges, Pairs
  <2> QED
    BY <1>1, <1>2, <2>2 DEF FindCycles
<1>7. \A p \in new : p[1] \notin ReachableFrom(p[2], old \cup new)
  <2>1. old \cup new \subseteq old \cup Pairs(proposed)
    BY <1>5
  <2>2. old \cup new \in SUBSET (Claims \X Claims) /\ old \cup Pairs(proposed) \in SUBSET (Claims \X Claims)
    BY <1>4
  <2> HIDE DEF old, new, proposed
  <2>3. \A k : ReachableFrom(k, old \cup new) \subseteq ReachableFrom(k, old \cup Pairs(proposed))
    BY <2>1, <2>2, ReachableIsMonotone
  <2> QED
    BY <1>6, <2>3
<1>8. Pairs(deps \cup AcceptedEdges(b)) = old \cup new
  BY DEF Pairs
<1>9. Acyclic(old \cup new)
  <2> HIDE DEF old, new, proposed
  <2>1. Acyclic(old)
    BY DEF old
  <2> QED
    BY <1>4, <1>6, <1>7, <2>1, NoCycleIsClosed
<1> QED
  BY <1>1, <1>2, <1>8, <1>9

-----------------------------------------------------------------------------
(* The rows of a claim.                                                    *)

StagedAttrs(b) == {b.links[i].attr : i \in 1 .. Len(b.links)}

Attrs ==
    {NoAttr} \cup (UNION {StagedAttrs(b) : b \in Batches}) \cup [parent : Sources, method : {"current"}]

Row == [id : Ids, relation : Relations, kind : {o.kind : o \in Obs}, source : Sources \cup {None},
        env : {o.env : o \in Obs}, attr : Attrs, at : Nat]

\* One row per identity; a page is attributed to itself only through a mirror.
Proper(rs) ==
    /\ \A e \in rs : e.attr.parent = e.source /\ e.source # None =>
                       \E o \in Obs : o.id = e.id /\ o.source # e.source
    /\ \A e, f \in rs : e.id = f.id => f = e

\* Every row of rs still stands in ss, with another attribution perhaps.
StillIn(rs, ss) == \A e \in rs : \E f \in ss : f.id = e.id /\ f.source = e.source

LEMMA AttrsHaveParents == \A a \in Attrs : a # NoAttr => a.parent \in Sources
<1>1. \A b \in Batches : \A a \in StagedAttrs(b) : a = NoAttr \/ a.parent \in Sources
  BY MemoryAssumption DEF StagedAttrs, BatchShape
<1>2. \A a \in Attrs : a = NoAttr \/ (\E b \in Batches : a \in StagedAttrs(b))
                      \/ a.parent \in Sources
  <2>1. SUFFICES ASSUME NEW a \in Attrs
                 PROVE  a = NoAttr \/ (\E b \in Batches : a \in StagedAttrs(b)) \/ a.parent \in Sources
    OBVIOUS
  <2>2. CASE a \in UNION {StagedAttrs(b) : b \in Batches}
    <3>1. PICK as \in {StagedAttrs(b) : b \in Batches} : a \in as
      BY <2>2
    <3> QED
      BY <3>1
  <2>3. CASE a \in [parent : Sources, method : {"current"}]
    BY <2>3
  <2>4. CASE a = NoAttr
    BY <2>4
  <2>5. \/ a \in UNION {StagedAttrs(b) : b \in Batches} \/ a \in [parent : Sources, method : {"current"}]
        \/ a = NoAttr
    BY <2>1, Zenon DEF Attrs
  <2> QED
    BY <2>2, <2>3, <2>4, <2>5, Zenon
<1> QED
  BY <1>1, <1>2

\* A staged link adds a proper row, or completes the one that is there.
LEMMA AddLinkKeepsRows ==
  ASSUME NEW b \in Batches, NEW i \in 1 .. Len(b.links), NEW rs \in SUBSET Row
  PROVE  LET ss == AddLink(rs, b.links[i], b.day) IN
         /\ ss \in SUBSET Row
         /\ Proper(rs) => Proper(ss)
         /\ StillIn(rs, ss)
<1> DEFINE l == b.links[i]
           o == l.obs
           sourced == o.kind \in {"source_assertion", "quote_integrity"}
           attr == IF sourced THEN OwnAttr(l) ELSE NoAttr
           same == {e \in rs : e.id = o.id}
           ss == AddLink(rs, l, b.day)
           filled(e) == IF e \in same /\ e.attr = NoAttr THEN [e EXCEPT !.attr = attr] ELSE e
<1>1. /\ o \in Obs /\ o.id \in Ids /\ o.source \in Sources \cup {None} /\ l.relation \in Relations
      /\ b.day \in Nat /\ l.attr \in Attrs
  <2>1. o \in Obs /\ l.relation \in Relations /\ b.day \in Nat
    BY MemoryAssumption DEF BatchShape
  <2>2. o.id \in Ids /\ o.source \in Sources \cup {None}
    BY <2>1, MemoryAssumption DEF Ids
  <2>3. l.attr \in StagedAttrs(b)
    BY DEF StagedAttrs
  <2>4. l.attr \in Attrs
    BY <2>3 DEF Attrs
  <2> QED
    BY <2>1, <2>2, <2>4
<1>2. attr \in Attrs /\ (attr = NoAttr \/ attr.parent # o.source)
  BY <1>1 DEF OwnAttr, Attrs
<1> HIDE DEF attr
<1>3. CASE same # {}
  <2>1. ss = {filled(e) : e \in rs}
    BY <1>3 DEF AddLink, attr
  <2>2. ASSUME NEW e \in rs
        PROVE  /\ filled(e) \in Row /\ filled(e).id = e.id /\ filled(e).source = e.source
               /\ filled(e) = e \/ (e.id = o.id /\ filled(e).attr = attr)
    <3>1. CASE e \in same /\ e.attr = NoAttr
      BY <1>2, <3>1 DEF Row
    <3>2. CASE ~(e \in same /\ e.attr = NoAttr)
      BY <3>2
    <3> QED
      BY <3>1, <3>2
  <2> HIDE DEF filled
  <2>3. ss \in SUBSET Row /\ StillIn(rs, ss)
    BY <2>1, <2>2 DEF StillIn
  <2>4. ASSUME Proper(rs) PROVE Proper(ss)
    <3>1. ASSUME NEW e \in rs, filled(e).attr.parent = filled(e).source, filled(e).source # None
          PROVE  \E x \in Obs : x.id = filled(e).id /\ x.source # filled(e).source
      <4>1. CASE filled(e) = e
        BY <2>4, <3>1, <4>1 DEF Proper
      <4>2. CASE e.id = o.id /\ filled(e).attr = attr
        <5>1. attr # NoAttr
          BY <3>1, <4>2 DEF NoAttr
        <5> QED
          BY <1>1, <1>2, <2>2, <3>1, <4>2, <5>1
      <4> QED
        BY <2>2, <4>1, <4>2
    <3>2. \A e, f \in rs : filled(e).id = filled(f).id => filled(f) = filled(e)
      BY <2>2, <2>4 DEF Proper
    <3> QED
      BY <2>1, <3>1, <3>2 DEF Proper
  <2> QED
    BY <2>3, <2>4
<1>4. CASE same = {} /\ sourced /\ o.source = None
  <2>1. ss = rs
    BY <1>4 DEF AddLink
  <2> QED
    BY <2>1 DEF StillIn
<1>5. CASE same = {} /\ ~(sourced /\ o.source = None)
  <2> DEFINE r == [id |-> o.id, relation |-> l.relation, kind |-> o.kind, source |-> o.source,
                   env |-> o.env, attr |-> attr,
                   at |-> IF o.source # None THEN Source[o.source].at ELSE b.day]
  <2>1. ss = rs \cup {r}
    BY <1>5 DEF AddLink, attr
  <2>2. r.at \in Nat
    BY <1>1, AssessingAssumption
  <2>3. r \in Row
    BY <1>1, <1>2, <2>2 DEF Row
  <2>4. r.attr.parent = r.source => r.source = None
    BY <1>2 DEF NoAttr
  <2>5. \A e \in rs : e.id # r.id
    BY <1>5
  <2> HIDE DEF r
  <2> QED
    BY <2>1, <2>3, <2>4, <2>5 DEF Proper, StillIn
<1> QED
  BY <1>3, <1>4, <1>5

\* added holds the rows of claim k while the links of b are added one by one
Adding(b, k, added) ==
    added = [n \in 0 .. Len(b.links) |->
               IF n = 0 THEN rows[k]
               ELSE IF b.links[n].claim = k THEN AddLink(added[n - 1], b.links[n], b.day)
               ELSE added[n - 1]]

LEMMA AddingExists ==
  ASSUME NEW b \in Batches, NEW k, rows[k] \in SUBSET Row
  PROVE  \E f : Adding(b, k, f) /\ StagedRows(b, k) = f[Len(b.links)] /\ f \in [0 .. Len(b.links) -> SUBSET Row]
<1> DEFINE N == Len(b.links)
           D == SUBSET Row
           G(n, rs) == IF b.links[n].claim = k THEN AddLink(rs, b.links[n], b.day) ELSE rs
           F == [x \in Nat \X D |-> IF x[1] \in 1 .. N THEN G(x[1], x[2]) ELSE {}]
<1>1. N \in Nat
  BY MemoryAssumption DEF BatchShape
<1>2. \A n \in 1 .. N, rs \in D : G(n, rs) \in D
  BY AddLinkKeepsRows
<1>3. F \in [Nat \X D -> D] /\ \A n \in 1 .. N, rs \in D : F[<<n, rs>>] = G(n, rs)
  <2> HIDE DEF G, D, N
  <2>1. {} \in D
    BY DEF D
  <2>2. \A x \in Nat \X D : (IF x[1] \in 1 .. N THEN G(x[1], x[2]) ELSE {}) \in D
    BY <1>2, <2>1
  <2>3. \A n \in 1 .. N, rs \in D : <<n, rs>> \in Nat \X D
    BY <1>1
  <2> QED
    BY <2>2, <2>3
<1>4. PICK f : Iteration(D, rows[k], F, N, f)
  <2> HIDE DEF F, N
  <2> QED
    BY <1>1, <1>3, Iterates
<1>5. f \in [0 .. N -> D] /\ f[0] = rows[k]
  BY <1>4 DEF Iteration
<1>6. \A n \in 1 .. N : f[n] = G(n, f[n - 1])
  <2>1. TAKE n \in 1 .. N
  <2>2. n - 1 \in 0 .. N
    BY <1>1
  <2>3. f[n - 1] \in D
    BY <1>5, <2>2
  <2> HIDE DEF F, G
  <2> QED
    BY <1>3, <1>4, <2>3 DEF Iteration
<1>7. Adding(b, k, f)
  <2> DEFINE h == [n \in 0 .. N |-> IF n = 0 THEN rows[k] ELSE G(n, f[n - 1])]
  <2>1. \A n \in 0 .. N : f[n] = h[n]
    <3> HIDE DEF G
    <3>1. TAKE n \in 0 .. N
    <3>2. CASE n = 0
      BY <1>5, <3>2
    <3>3. CASE n # 0
      <4>1. n \in 1 .. N
        BY <1>1, <3>3
      <4> QED
        BY <1>6, <3>3, <4>1
    <3> QED
      BY <3>2, <3>3
  <2>2. f = [n \in 0 .. N |-> f[n]] /\ h = [n \in 0 .. N |-> h[n]]
    BY <1>5
  <2>3. f = h
    <3> HIDE DEF h
    <3> QED
      BY <2>1, <2>2
  <2> QED
    BY <2>3, Zenon DEF Adding
<1>8. \A g : Adding(b, k, g) => g[0] = rows[k] /\ \A n \in 1 .. N : g[n] = G(n, g[n - 1])
  <2>1. SUFFICES ASSUME NEW g, Adding(b, k, g)
                 PROVE  g[0] = rows[k] /\ \A n \in 1 .. N : g[n] = G(n, g[n - 1])
    OBVIOUS
  <2> DEFINE E(n) == IF n = 0 THEN rows[k] ELSE G(n, g[n - 1])
  <2>2. g = [n \in 0 .. N |-> E(n)]
    BY <2>1, Zenon DEF Adding
  <2>3. \A n \in 0 .. N : g[n] = E(n)
    <3> HIDE DEF E
    <3> QED
      BY <2>2
  <2>4. 0 \in 0 .. N /\ \A n \in 1 .. N : n \in 0 .. N /\ n # 0
    BY <1>1
  <2> HIDE DEF G
  <2> QED
    BY <2>3, <2>4
<1> DEFINE g == CHOOSE g : Adding(b, k, g)
<1>9. Adding(b, k, g)
  BY <1>7
<1>10. StagedRows(b, k) = g[N]
  BY Zenon DEF StagedRows, Adding
<1> HIDE DEF g
<1>11. \A n \in 0 .. N : g[n] \in D
  <2> DEFINE Bad == {n \in 0 .. N : g[n] \notin D}
  <2>1. SUFFICES ASSUME Bad # {} PROVE FALSE
    OBVIOUS
  <2>2. PICK n \in Bad : \A m \in Bad : n <= m
    <3>1. Bad \in SUBSET Nat
      BY <1>1
    <3> HIDE DEF Bad
    <3> QED
      BY <2>1, <3>1, LeastNatural
  <2>3. n # 0
    BY <1>8, <1>9, <2>2
  <2>4. n \in 1 .. N /\ n - 1 \in 0 .. N /\ ~(n <= n - 1)
    BY <1>1, <2>2, <2>3
  <2>5. g[n - 1] \in D
    BY <2>2, <2>4
  <2> HIDE DEF G
  <2> QED
    BY <1>2, <1>8, <1>9, <2>2, <2>4, <2>5
<1>12. g \in [0 .. N -> D]
  <2>1. g = [n \in 0 .. N |-> g[n]]
    <3> DEFINE E(n) == IF n = 0 THEN rows[k] ELSE G(n, g[n - 1])
    <3>1. g = [n \in 0 .. N |-> E(n)]
      BY <1>9, Zenon DEF Adding
    <3> HIDE DEF E
    <3> QED
      BY <3>1
  <2> QED
    BY <1>11, <2>1
<1> QED
  BY <1>9, <1>10, <1>12

\* The links of a batch leave proper rows, and all rows that were there.
LEMMA StagingKeepsRows ==
  ASSUME NEW b \in Batches, NEW k, rows[k] \in SUBSET Row, Proper(rows[k])
  PROVE  StagedRows(b, k) \in SUBSET Row /\ Proper(StagedRows(b, k)) /\ StillIn(rows[k], StagedRows(b, k))
<1> DEFINE N == Len(b.links)
<1>1. PICK f : Adding(b, k, f) /\ StagedRows(b, k) = f[N] /\ f \in [0 .. N -> SUBSET Row]
  BY AddingExists
<1>2. N \in Nat
  BY MemoryAssumption DEF BatchShape
<1> DEFINE Fine(rs) == Proper(rs) /\ StillIn(rows[k], rs)
           Bad == {n \in 0 .. N : ~Fine(f[n])}
<1>3. SUFFICES ASSUME Bad # {} PROVE FALSE
  <2>1. N \in 0 .. N
    BY <1>2
  <2> QED
    BY <1>1, <1>3, <2>1
<1>4. PICK n \in Bad : \A m \in Bad : n <= m
  <2>1. Bad \in SUBSET Nat
    BY <1>2
  <2> HIDE DEF Bad
  <2> QED
    BY <1>3, <2>1, LeastNatural
<1> DEFINE E(i) == IF i = 0 THEN rows[k]
                   ELSE IF b.links[i].claim = k THEN AddLink(f[i - 1], b.links[i], b.day) ELSE f[i - 1]
<1>5. f = [i \in 0 .. N |-> E(i)]
  BY <1>1, Zenon DEF Adding
<1>6. f[n] = E(n)
  <2> HIDE DEF E
  <2> QED
    BY <1>4, <1>5
<1>7. n # 0
  <2>1. StillIn(rows[k], rows[k])
    BY DEF StillIn
  <2> QED
    BY <1>4, <1>6, <2>1
<1>8. n \in 1 .. N /\ n - 1 \in 0 .. N /\ ~(n <= n - 1)
  BY <1>2, <1>4, <1>7
<1>9. f[n - 1] \in SUBSET Row /\ Fine(f[n - 1])
  BY <1>1, <1>4, <1>8
<1>10. CASE b.links[n].claim = k
  <2> DEFINE ss == AddLink(f[n - 1], b.links[n], b.day)
  <2>1. f[n] = ss
    BY <1>6, <1>8, <1>10
  <2>2. Proper(ss) /\ StillIn(f[n - 1], ss)
    BY <1>8, <1>9, AddLinkKeepsRows
  <2>3. StillIn(rows[k], ss)
    <3> HIDE DEF ss
    <3> QED
      BY <1>9, <2>2 DEF StillIn
  <2> QED
    BY <1>4, <2>1, <2>2, <2>3
<1>11. CASE b.links[n].claim # k
  BY <1>4, <1>6, <1>8, <1>9, <1>11
<1> QED
  BY <1>10, <1>11

-----------------------------------------------------------------------------
(* Types.                                                                  *)

RowsInv == rows \in [Claims -> SUBSET Row] /\ \A k \in Claims : Proper(rows[k])

\* x is a row of source_graph_corrections.
Correction(x) ==
    /\ x = [actor |-> x.actor, from |-> x.from, to |-> x.to, valid |-> x.valid, claim |-> x.claim, at |-> x.at]
    /\ x.actor \in Actors /\ x.from \in Sources /\ x.to \in Sources /\ x.from # x.to

CorrInv == \A x \in corr : Correction(x)

\* A plan was checked when it was made, and what it was checked against cannot go.
PlanInv ==
    /\ plan.what \in {"nothing", "set", "clear", "attribute", "remove"}
    /\ plan.what \in {"set", "clear"} => <<plan.source, plan.parent>> \in Pointers
    /\ plan.what \in {"attribute", "remove"} =>
          /\ plan.claim \in Claims
          /\ \E e \in rows[plan.claim] : e.id = plan.id /\ e.source # plan.parent
    /\ plan.what = "attribute" => plan.parent \in Sources

HeadsInv ==
    /\ head \in [Claims -> {"absent", "current", "pending", "invalid"}]
    /\ jobs \subseteq Claims /\ overtaken \subseteq Claims
    /\ asOf \in [Claims -> Nat]
    /\ assessed = [k \in Claims |-> assessed[k]]
    /\ \A k \in Claims : assessed[k].scope.anchor \in Anchors \cup {None}

OthersInv ==
    /\ revoked \subseteq Claims \X Ids
    /\ \A r \in resolved : r.claim \in Claims /\ r.id \in Ids
    /\ pointer \in [Sources -> Sources \cup {None}]
    /\ deps \subseteq Claims \X Claims \X DepKinds
    /\ today \in Nat /\ steps \in 0 .. MaxSteps

\* Every row of rs with the identity of a row of qs has its source.
SameSources(rs, qs) == \A e \in rs, f \in qs : f.id = e.id => f.source = e.source

\* What the open final transaction has written for claim k.
StagedFor(k) ==
    /\ draft.rows[k] \in SUBSET Row /\ Proper(draft.rows[k])
    /\ SameSources(rows[k], draft.rows[k])
    /\ draft.scope[k].day \in Nat /\ draft.scope[k].anchor \in Anchors
    /\ draft.saw[k] # None => draft.found[k].scope = draft.scope[k]

DraftShape ==
    draft = [ks |-> draft.ks, rows |-> draft.rows, scope |-> draft.scope, edges |-> draft.edges,
             saw |-> draft.saw, found |-> draft.found, missed |-> draft.missed]

DraftInv ==
    /\ DraftShape
    /\ draft.ks \subseteq Claims /\ draft.missed \subseteq draft.ks
    /\ draft.edges \subseteq Claims \X Claims \X DepKinds
    /\ draft.ks # {} => /\ draft.saw = [k \in draft.ks |-> draft.saw[k]]
                        /\ draft.found = [k \in draft.ks |-> draft.found[k]]
    /\ \A k \in draft.ks : StagedFor(k)

WorkInv ==
    /\ work = [ks |-> work.ks, ok |-> work.ok, found |-> work.found, missed |-> work.missed]
    /\ work.ks \subseteq Claims
    /\ work.ks # {} => work.found.scope.anchor \in Anchors \cup {None}

TypeInv == RowsInv /\ CorrInv /\ PlanInv /\ HeadsInv /\ OthersInv /\ DraftInv /\ WorkInv

LEMMA TypesFollow == TypeInv => MemoryTypeOK
<1> SUFFICES ASSUME TypeInv PROVE MemoryTypeOK
  OBVIOUS
<1>1. ASSUME NEW k \in Claims, NEW e \in rows[k]
      PROVE  /\ e.id \in Ids /\ e.relation \in Relations
             /\ e.source \in Sources \cup {None}
             /\ e.attr # NoAttr => e.attr.parent \in Sources
             /\ e.attr.parent = e.source /\ e.source # None =>
                   \E o \in Obs : o.id = e.id /\ o.source # e.source
             /\ \A f \in rows[k] : f.id = e.id => f = e
  <2>1. e \in Row /\ Proper(rows[k])
    BY DEF TypeInv, RowsInv
  <2>2. e.id \in Ids /\ e.relation \in Relations /\ e.source \in Sources \cup {None} /\ e.attr \in Attrs
    BY <2>1 DEF Row
  <2> QED
    BY <2>1, <2>2, AttrsHaveParents DEF Proper
<1>2. /\ overtaken \subseteq Claims /\ draft.ks \subseteq Claims /\ draft.missed \subseteq draft.ks
      /\ work.ks \subseteq Claims
  BY DEF TypeInv, HeadsInv, DraftInv, WorkInv
<1> QED
  BY <1>1, <1>2 DEF MemoryTypeOK, TypeInv, CorrInv, Correction, PlanInv, HeadsInv, OthersInv

LEMMA NothingStaged == ASSUME draft' = NoDraft PROVE DraftInv'
BY DEF DraftInv, DraftShape, NoDraft

LEMMA NothingRead == ASSUME work' = NoWork PROVE WorkInv'
BY DEF WorkInv, NoWork

LEMMA InitTypes == Init => TypeInv
<1> SUFFICES ASSUME Init PROVE TypeInv
  OBVIOUS
<1>1. RowsInv /\ CorrInv
  BY DEF Init, RowsInv, CorrInv, Proper
<1>2. PlanInv
  BY DEF Init, PlanInv, NoPlan
<1>3. HeadsInv
  BY DEF Init, HeadsInv, NotAssessed, NoScope
<1>4. OthersInv
  BY MemoryAssumption DEF Init, OthersInv
<1>5. DraftInv /\ WorkInv
  BY DEF Init, DraftInv, DraftShape, NoDraft, WorkInv, NoWork
<1> QED
  BY <1>1, <1>2, <1>3, <1>4, <1>5 DEF TypeInv

\* A cascade only takes heads out of "current".
LEMMA RequeueTakesHeads ==
  ASSUME HeadsInv, NEW ks, ks \subseteq Claims, Requeue(ks), UNCHANGED <<asOf, assessed, overtaken>>
  PROVE  /\ HeadsInv'
         /\ \A k \in Claims : head'[k] = "current" => head[k] = "current" /\ k \notin ks
<1>1. head' \in [Claims -> {"absent", "current", "pending", "invalid"}] /\ jobs' \subseteq Claims
  BY DEF Requeue, HeadsInv
<1>2. \A k \in Claims : head'[k] = "current" => head[k] = "current" /\ k \notin ks
  BY DEF Requeue
<1> QED
  BY <1>1, <1>2 DEF HeadsInv

\* A batch dates and scopes its claims.
LEMMA StagedDates ==
  ASSUME NEW b \in Batches, NEW k \in AcceptedClaims(b), asOf[k] \in Nat
  PROVE  StagedScope(b, k).day \in Nat /\ StagedScope(b, k).anchor \in Anchors
<1>1. /\ b.day \in Nat /\ b.question.day \in Nat /\ LastOf(b, k) \in OpsOn(b, k)
      /\ OpsOn(b, k) \in SUBSET Nat /\ \A i \in OpsOn(b, k) : b.ops[i].asof \in Nat
  BY AcceptedOperations, MemoryAssumption DEF BatchShape, OpsOn, Accepted
<1>2. \A p \in Nat : LET r == DeriveAsOf(b.question, p, b.day) IN r.day \in Nat /\ r.anchor \in Anchors
  <2>1. SUFFICES ASSUME NEW p \in Nat
                 PROVE  LET r == DeriveAsOf(b.question, p, b.day) IN r.day \in Nat /\ r.anchor \in Anchors
    OBVIOUS
  <2>2. CASE b.question.day # 0
    BY <1>1, <2>2 DEF DeriveAsOf, Anchors
  <2>3. CASE b.question.day = 0 /\ b.question.relative
    BY <1>1, <2>3 DEF DeriveAsOf, Anchors
  <2>4. CASE b.question.day = 0 /\ ~b.question.relative
    BY <1>1, <2>1, <2>4 DEF DeriveAsOf, Anchors
  <2> QED
    BY <2>2, <2>3, <2>4
<1>3. \A s : AnchorOf(s) \in Anchors
  BY DEF AnchorOf, Anchors
<1>4. \A p, t \in Nat : \A s : LET r == ResolveReference(b.question, p, b.day, t, s)
                              IN  r.day \in Nat /\ r.anchor \in Anchors
  BY <1>2, <1>3 DEF ResolveReference
<1>5. FoundDate(b, k) \in Nat
  <2> DEFINE date(i) == DeriveAsOf(b.question, b.ops[i].asof, b.day).day
             dated == {i \in OpsOn(b, k) \ {LastOf(b, k)} : date(i) # 0}
             first == CHOOSE i \in dated : \A j \in dated : i <= j
  <2>1. \A i \in dated : date(i) \in Nat
    BY <1>1, <1>2
  <2>2. FoundDate(b, k) = IF asOf[k] # 0 \/ dated = {} THEN asOf[k] ELSE date(first)
    BY Zenon DEF FoundDate
  <2>3. ASSUME dated # {} PROVE first \in dated
    <3>1. dated \in SUBSET Nat
      BY <1>1
    <3> HIDE DEF dated
    <3>2. \E i \in dated : \A j \in dated : i <= j
      BY <2>3, <3>1, LeastNatural
    <3> QED
      BY <3>2
  <2> HIDE DEF date, dated, first
  <2> QED
    BY <2>1, <2>2, <2>3
<1>6. CASE head[k] = "absent"
  BY <1>1, <1>2, <1>6 DEF StagedScope, DeriveScope
<1>7. CASE head[k] # "absent"
  <2>1. StagedReference(b, k).day \in Nat /\ StagedReference(b, k).anchor \in Anchors
    BY <1>1, <1>4, <1>5, <1>7 DEF StagedReference
  <2>2. StagedScope(b, k).anchor = StagedReference(b, k).anchor /\ StagedScope(b, k).day = StagedReference(b, k).day
    BY <1>7 DEF StagedScope, MergeScope
  <2> QED
    BY <2>1, <2>2
<1> QED
  BY <1>6, <1>7

\* PlanInv rests on rows that no step takes away.
LEMMA PlanStays ==
  ASSUME PlanInv, UNCHANGED plan, \A k \in Claims : StillIn(rows[k], rows'[k])
  PROVE  PlanInv'
<1>1. plan.what \in {"attribute", "remove"} =>
         /\ plan.claim \in Claims
         /\ \E e \in rows'[plan.claim] : e.id = plan.id /\ e.source # plan.parent
  BY DEF PlanInv, StillIn
<1> QED
  BY <1>1 DEF PlanInv

LEMMA NothingPlanned == ASSUME plan' = NoPlan PROVE PlanInv'
BY DEF PlanInv, NoPlan

-----------------------------------------------------------------------------
(* The open final transaction.                                             *)

\* A step of another leaves what it has written, and may mark claims as missed.
DraftFrame ==
    /\ draft'.ks = draft.ks /\ draft'.rows = draft.rows /\ draft'.scope = draft.scope
    /\ draft'.edges = draft.edges /\ draft'.saw = draft.saw /\ draft'.found = draft.found
    /\ draft.missed \subseteq draft'.missed /\ draft'.missed \subseteq draft.ks
    /\ DraftShape'

LEMMA UnseenFrame ==
  ASSUME DraftInv, NEW ks, Unseen(ks)
  PROVE  /\ DraftFrame
         /\ \A k \in ks \cap draft.ks : draft.saw[k] # None => k \in draft'.missed
<1> DEFINE missed == draft.missed \cup {k \in ks \cap draft.ks : draft.saw[k] # None}
<1>1. draft' = [draft EXCEPT !.missed = missed]
  BY DEF Unseen
<1>2. missed \subseteq draft.ks /\ draft.missed \subseteq missed
  BY DEF DraftInv
<1>3. \A k \in ks \cap draft.ks : draft.saw[k] # None => k \in missed
  OBVIOUS
<1> HIDE DEF missed
<1>4. draft' = [ks |-> draft.ks, rows |-> draft.rows, scope |-> draft.scope, edges |-> draft.edges,
                saw |-> draft.saw, found |-> draft.found, missed |-> missed]
  BY <1>1 DEF DraftInv, DraftShape
<1> QED
  BY <1>2, <1>3, <1>4 DEF DraftFrame, DraftShape

LEMMA UnchangedFrame == ASSUME DraftInv, UNCHANGED draft PROVE DraftFrame
BY DEF DraftFrame, DraftInv, DraftShape

LEMMA DraftStays ==
  ASSUME DraftInv, DraftFrame,
         \A k \in Claims : \A e \in rows'[k] : \E f \in rows[k] : f.id = e.id /\ f.source = e.source
  PROVE  DraftInv'
<1>1. ASSUME NEW k \in draft.ks PROVE StagedFor(k)'
  <2>1. StagedFor(k) /\ k \in Claims
    BY DEF DraftInv
  <2>2. SameSources(rows'[k], draft.rows[k])
    BY <2>1 DEF StagedFor, SameSources
  <2> QED
    BY <2>1, <2>2 DEF StagedFor, DraftFrame, Row
<1> QED
  BY <1>1 DEF DraftInv, DraftFrame

\* The rows that the open final transaction sees are proper, and none is gone.
LEMMA DraftRowsProper ==
  ASSUME TypeInv, NEW k \in draft.ks
  PROVE  /\ DraftRows(k) \in SUBSET Row /\ Proper(DraftRows(k)) /\ StillIn(rows[k], DraftRows(k))
         /\ \A e \in DraftRows(k) : e \in rows[k] \/ e \in draft.rows[k]
<1>1. /\ k \in Claims /\ StagedFor(k)
  BY DEF TypeInv, DraftInv
<1>2. rows[k] \in SUBSET Row /\ Proper(rows[k])
  BY <1>1 DEF TypeInv, RowsInv
<1>3. draft.rows[k] \in SUBSET Row /\ Proper(draft.rows[k]) /\ SameSources(rows[k], draft.rows[k])
  BY <1>1 DEF StagedFor
<1>4. \A e \in DraftRows(k) : e \in rows[k] \/ e \in draft.rows[k]
  BY DEF DraftRows
<1>5. Proper(DraftRows(k))
  <2>1. \A e, f \in DraftRows(k) : e.id = f.id => f = e
    <3> SUFFICES ASSUME NEW e \in DraftRows(k), NEW f \in DraftRows(k), e.id = f.id PROVE f = e
      OBVIOUS
    <3>1. CASE e \in draft.rows[k] /\ f \in draft.rows[k]
      BY <1>3, <3>1 DEF Proper
    <3>2. CASE e \notin draft.rows[k] \/ f \notin draft.rows[k]
      <4>1. e \notin draft.rows[k] /\ f \notin draft.rows[k]
        BY <3>2 DEF DraftRows
      <4> QED
        BY <1>2, <1>4, <4>1 DEF Proper
    <3> QED
      BY <3>1, <3>2
  <2> QED
    BY <1>2, <1>3, <1>4, <2>1 DEF Proper
<1>6. StillIn(rows[k], DraftRows(k))
  <2> SUFFICES ASSUME NEW e \in rows[k] PROVE \E f \in DraftRows(k) : f.id = e.id /\ f.source = e.source
    BY DEF StillIn
  <2>1. CASE \E f \in draft.rows[k] : f.id = e.id
    BY <1>3, <2>1 DEF DraftRows, SameSources
  <2>2. CASE ~\E f \in draft.rows[k] : f.id = e.id
    BY <2>2 DEF DraftRows
  <2> QED
    BY <2>1, <2>2
<1> QED
  BY <1>2, <1>3, <1>4, <1>5, <1>6

-----------------------------------------------------------------------------
(* The steps keep the types.                                               *)

\* A batch is staged, and nobody else sees it.
LEMMA StageTypes ==
  ASSUME TypeInv, NEW b \in Batches, StageBatch(b), Acyclic(Pairs(deps))
  PROVE  TypeInv'
<1> DEFINE ks == AcceptedClaims(b)
           rs == [k \in ks |-> StagedRows(b, k) \ rows[k]]
           sc == [k \in ks |-> StagedScope(b, k)]
           es == AcceptedEdges(b)
           sw == [k \in ks |-> None]
           fd == [k \in ks |-> NotAssessed]
<1>1. /\ draft' = [ks |-> ks, rows |-> rs, scope |-> sc, edges |-> es, saw |-> sw, found |-> fd, missed |-> {}]
      /\ today' = b.day /\ Step /\ UNCHANGED <<dataVars, verdictVars, plan, work>>
  BY DEF StageBatch
<1>2. /\ \A k \in ks : k \in Claims /\ rs[k] = StagedRows(b, k) \ rows[k] /\ sc[k] = StagedScope(b, k)
      /\ \A k \in ks : sw[k] = None
      /\ sw = [k \in ks |-> sw[k]] /\ fd = [k \in ks |-> fd[k]] /\ ks \subseteq Claims
  BY AcceptedOperations
<1>3. es \subseteq Claims \X Claims \X DepKinds
  BY StagingKeepsAcyclic DEF TypeInv, OthersInv
<1>4. ASSUME NEW k \in ks
      PROVE  /\ rs[k] \in SUBSET Row /\ Proper(rs[k]) /\ SameSources(rows[k], rs[k])
             /\ sc[k].day \in Nat /\ sc[k].anchor \in Anchors
  <2>1. rows[k] \in SUBSET Row /\ Proper(rows[k]) /\ asOf[k] \in Nat
    BY <1>2 DEF TypeInv, RowsInv, HeadsInv
  <2>2. /\ StagedRows(b, k) \in SUBSET Row /\ Proper(StagedRows(b, k)) /\ StillIn(rows[k], StagedRows(b, k))
    BY <2>1, StagingKeepsRows
  <2> DEFINE ss == StagedRows(b, k)
  <2> HIDE DEF ss
  <2>3. /\ ss \in SUBSET Row /\ Proper(ss) /\ StillIn(rows[k], ss) /\ rs[k] = ss \ rows[k]
    BY <1>2, <2>2 DEF ss
  <2>4. sc[k].day \in Nat /\ sc[k].anchor \in Anchors
    BY <1>2, <2>1, StagedDates
  <2> HIDE DEF rs, sc
  <2>5. SameSources(rows[k], rs[k])
    <3> SUFFICES ASSUME NEW e \in rows[k], NEW f \in rs[k], f.id = e.id PROVE f.source = e.source
      BY DEF SameSources
    <3>1. PICK g \in ss : g.id = e.id /\ g.source = e.source
      BY <2>3 DEF StillIn
    <3> QED
      BY <2>3, <3>1 DEF Proper
  <2>6. Proper(rs[k]) /\ rs[k] \in SUBSET Row
    BY <2>3 DEF Proper
  <2> QED
    BY <2>4, <2>5, <2>6
<1> HIDE DEF ks, rs, sc, es, sw, fd
<1>5. /\ draft'.ks = ks /\ draft'.rows = rs /\ draft'.scope = sc /\ draft'.edges = es
      /\ draft'.saw = sw /\ draft'.found = fd /\ draft'.missed = {} /\ DraftShape'
  BY <1>1 DEF DraftShape
<1>6. \A k \in ks : StagedFor(k)'
  BY <1>1, <1>2, <1>4, <1>5 DEF StagedFor, dataVars
<1>7. DraftInv'
  BY <1>2, <1>3, <1>5, <1>6 DEF DraftInv
<1>8. today' \in Nat /\ MaxSteps \in Nat
  BY <1>1, MemoryAssumption DEF BatchShape
<1>9. OthersInv'
  BY <1>1, <1>8 DEF TypeInv, OthersInv, Step, dataVars
<1>10. RowsInv' /\ CorrInv' /\ PlanInv'
  BY <1>1 DEF TypeInv, RowsInv, CorrInv, PlanInv, dataVars
<1>11. HeadsInv' /\ WorkInv'
  BY <1>1 DEF TypeInv, HeadsInv, WorkInv, dataVars, verdictVars
<1> QED
  BY <1>7, <1>9, <1>10, <1>11 DEF TypeInv

\* An assessment keeps the scope it is made over.
LEMMA ScopeOfVerdict == ASSUME NEW k, NEW rs, NEW scope, NEW dated PROVE Assess(k, rs, scope, dated).scope = scope
BY DEF Assess, AssessWithout

\* What the assessment of claim k does to the open final transaction.
LEMMA AssessedDraft ==
  ASSUME TypeInv, NEW k, AssessStaged(k)
  PROVE  /\ k \in draft.ks /\ draft.saw[k] = None
         /\ draft'.ks = draft.ks /\ draft'.rows = draft.rows /\ draft'.scope = draft.scope
         /\ draft'.edges = draft.edges /\ draft'.missed = draft.missed /\ DraftShape'
         /\ draft'.saw = [draft.saw EXCEPT ![k] = head[k]]
         /\ draft'.found = [draft.found EXCEPT ![k] = Assess(k, DraftRows(k), draft.scope[k], draft.scope[k].day # 0)]
         /\ \A j \in draft.ks \ {k} : draft'.saw[j] = draft.saw[j] /\ draft'.found[j] = draft.found[j]
         /\ draft'.saw[k] = head[k]
         /\ draft'.found[k] = Assess(k, DraftRows(k), draft.scope[k], draft.scope[k].day # 0)
<1> DEFINE a == Assess(k, DraftRows(k), draft.scope[k], draft.scope[k].day # 0)
           sw == [draft.saw EXCEPT ![k] = head[k]]
           fd == [draft.found EXCEPT ![k] = a]
<1>1. k \in draft.ks /\ draft.saw[k] = None /\ draft' = [draft EXCEPT !.saw = sw, !.found = fd]
  BY Zenon DEF AssessStaged
<1> HIDE DEF a
<1>2. draft.saw = [j \in draft.ks |-> draft.saw[j]] /\ draft.found = [j \in draft.ks |-> draft.found[j]]
  BY <1>1 DEF TypeInv, DraftInv
<1>3. sw[k] = head[k] /\ fd[k] = a /\ \A j \in draft.ks \ {k} : sw[j] = draft.saw[j] /\ fd[j] = draft.found[j]
  BY <1>1, <1>2
<1> HIDE DEF sw, fd
<1>4. draft' = [ks |-> draft.ks, rows |-> draft.rows, scope |-> draft.scope, edges |-> draft.edges,
                saw |-> sw, found |-> fd, missed |-> draft.missed]
  BY <1>1 DEF TypeInv, DraftInv, DraftShape
<1>5. /\ draft'.ks = draft.ks /\ draft'.rows = draft.rows /\ draft'.scope = draft.scope
      /\ draft'.edges = draft.edges /\ draft'.missed = draft.missed /\ DraftShape'
      /\ draft'.saw = sw /\ draft'.found = fd
  BY <1>4 DEF DraftShape
<1> QED
  BY <1>1, <1>3, <1>5 DEF sw, fd, a

LEMMA AssessTypes == ASSUME TypeInv, NEW k \in Claims, AssessStaged(k) PROVE TypeInv'
<1>1. UNCHANGED <<dataVars, verdictVars, today, plan, work, steps>>
  BY DEF AssessStaged
<1>2. /\ k \in draft.ks /\ draft'.ks = draft.ks /\ draft'.rows = draft.rows /\ draft'.scope = draft.scope
      /\ draft'.edges = draft.edges /\ draft'.missed = draft.missed /\ DraftShape'
      /\ draft'.saw = [draft.saw EXCEPT ![k] = head[k]]
      /\ \A j \in draft.ks \ {k} : draft'.saw[j] = draft.saw[j] /\ draft'.found[j] = draft.found[j]
      /\ draft'.found[k] = Assess(k, DraftRows(k), draft.scope[k], draft.scope[k].day # 0)
  BY AssessedDraft
<1>3. \A j \in draft.ks : StagedFor(j)'
  <2> SUFFICES ASSUME NEW j \in draft.ks PROVE StagedFor(j)'
    OBVIOUS
  <2>1. StagedFor(j) /\ rows' = rows
    BY <1>1 DEF TypeInv, DraftInv, dataVars
  <2>2. draft'.found[k].scope = draft.scope[k]
    BY <1>2, ScopeOfVerdict
  <2>3. CASE j = k
    BY <1>2, <2>1, <2>2, <2>3 DEF StagedFor
  <2>4. CASE j # k
    BY <1>2, <2>1, <2>4 DEF StagedFor
  <2> QED
    BY <2>3, <2>4
<1>4. /\ draft'.saw = [j \in draft.ks |-> draft'.saw[j]] /\ draft'.found = [j \in draft.ks |-> draft'.found[j]]
  <2> DEFINE a == Assess(k, DraftRows(k), draft.scope[k], draft.scope[k].day # 0)
  <2>1. draft'.found = [draft.found EXCEPT ![k] = a]
    BY AssessedDraft
  <2> HIDE DEF a
  <2>2. draft.saw = [j \in draft.ks |-> draft.saw[j]] /\ draft.found = [j \in draft.ks |-> draft.found[j]]
    BY <1>2 DEF TypeInv, DraftInv
  <2> QED
    BY <1>2, <2>1, <2>2
<1>5. DraftInv'
  BY <1>2, <1>3, <1>4 DEF TypeInv, DraftInv
<1>6. RowsInv' /\ CorrInv' /\ PlanInv' /\ OthersInv'
  BY <1>1 DEF TypeInv, RowsInv, CorrInv, PlanInv, OthersInv, dataVars
<1>7. HeadsInv' /\ WorkInv'
  BY <1>1 DEF TypeInv, HeadsInv, WorkInv, dataVars, verdictVars
<1> QED
  BY <1>5, <1>6, <1>7 DEF TypeInv

\* What a commit writes for a claim of its own, and leaves for any other.
LEMMA Committed ==
  ASSUME TypeInv, CommitStaging
  PROVE  /\ \A k \in draft.ks : /\ k \in Claims /\ draft.saw[k] # None
                                /\ rows'[k] = DraftRows(k) /\ asOf'[k] = draft.scope[k].day
                                /\ assessed'[k] = draft.found[k] /\ head'[k] = "current"
         /\ \A k \in Claims \ draft.ks : /\ rows'[k] = rows[k] /\ asOf'[k] = asOf[k]
                                         /\ assessed'[k] = assessed[k] /\ head'[k] = head[k]
         /\ rows' = [k \in Claims |-> rows'[k]] /\ asOf' = [k \in Claims |-> asOf'[k]]
         /\ assessed' = [k \in Claims |-> assessed'[k]] /\ head' = [k \in Claims |-> head'[k]]
         /\ overtaken' = (overtaken \ draft.ks) \cup draft.missed /\ deps' = deps \cup draft.edges
         /\ work' = [ks |-> work.ks, ok |-> work.ok, found |-> work.found,
                     missed |-> work.missed \/ work.ks \cap draft.ks # {}]
         /\ draft' = NoDraft
         /\ UNCHANGED <<revoked, corr, resolved, pointer, jobs, today, plan, steps>>
<1>1. draft.ks \subseteq Claims
  BY DEF TypeInv, DraftInv
<1>2. /\ \A k \in draft.ks : draft.saw[k] # None
      /\ rows' = [k \in Claims |-> IF k \in draft.ks THEN DraftRows(k) ELSE rows[k]]
      /\ asOf' = [k \in Claims |-> IF k \in draft.ks THEN draft.scope[k].day ELSE asOf[k]]
      /\ assessed' = [k \in Claims |-> IF k \in draft.ks THEN draft.found[k] ELSE assessed[k]]
      /\ head' = [k \in Claims |-> IF k \in draft.ks THEN "current" ELSE head[k]]
  BY Zenon DEF CommitStaging
<1>3. /\ overtaken' = (overtaken \ draft.ks) \cup draft.missed /\ deps' = deps \cup draft.edges
      /\ draft' = NoDraft
      /\ UNCHANGED <<revoked, corr, resolved, pointer, jobs, today, plan, steps>>
  BY DEF CommitStaging
<1> DEFINE m == work.missed \/ work.ks \cap draft.ks # {}
<1>4. work' = [work EXCEPT !.missed = m]
  BY Zenon DEF CommitStaging
<1> HIDE DEF m
<1>5. work' = [ks |-> work.ks, ok |-> work.ok, found |-> work.found, missed |-> m]
  BY <1>4 DEF TypeInv, WorkInv
<1>6. \A k \in Claims \ draft.ks : /\ rows'[k] = rows[k] /\ asOf'[k] = asOf[k]
                                   /\ assessed'[k] = assessed[k] /\ head'[k] = head[k]
  BY <1>2
<1>7. \A k \in draft.ks : /\ k \in Claims /\ draft.saw[k] # None
                          /\ rows'[k] = DraftRows(k) /\ asOf'[k] = draft.scope[k].day
                          /\ assessed'[k] = draft.found[k] /\ head'[k] = "current"
  BY <1>1, <1>2
<1>8. /\ rows' = [k \in Claims |-> rows'[k]] /\ asOf' = [k \in Claims |-> asOf'[k]]
      /\ assessed' = [k \in Claims |-> assessed'[k]] /\ head' = [k \in Claims |-> head'[k]]
  BY <1>2
<1> QED
  BY <1>3, <1>5, <1>6, <1>7, <1>8 DEF m

LEMMA CommitTypes == ASSUME TypeInv, CommitStaging PROVE TypeInv'
<1>1. \A k \in Claims : rows'[k] \in SUBSET Row /\ Proper(rows'[k]) /\ StillIn(rows[k], rows'[k])
  <2> SUFFICES ASSUME NEW k \in Claims PROVE rows'[k] \in SUBSET Row /\ Proper(rows'[k]) /\ StillIn(rows[k], rows'[k])
    OBVIOUS
  <2>1. CASE k \in draft.ks
    <3>1. rows'[k] = DraftRows(k)
      BY <2>1, Committed
    <3> QED
      BY <2>1, <3>1, DraftRowsProper
  <2>2. CASE k \notin draft.ks
    <3>1. rows'[k] = rows[k]
      BY <2>2, Committed
    <3> QED
      BY <3>1 DEF TypeInv, RowsInv, StillIn
  <2> QED
    BY <2>1, <2>2
<1>2. RowsInv'
  <2>1. rows' = [k \in Claims |-> rows'[k]]
    BY Committed
  <2> QED
    BY <1>1, <2>1 DEF RowsInv
<1>3. PlanInv'
  BY <1>1, Committed, PlanStays DEF TypeInv
<1>4. HeadsInv'
  <2>1. \A k \in draft.ks : draft.scope[k].day \in Nat /\ draft.found[k].scope.anchor \in Anchors
    BY Committed DEF TypeInv, DraftInv, StagedFor
  <2>2. \A k \in Claims : /\ head'[k] \in {"absent", "current", "pending", "invalid"}
                          /\ asOf'[k] \in Nat /\ assessed'[k].scope.anchor \in Anchors \cup {None}
    <3> SUFFICES ASSUME NEW k \in Claims
                 PROVE  /\ head'[k] \in {"absent", "current", "pending", "invalid"}
                        /\ asOf'[k] \in Nat /\ assessed'[k].scope.anchor \in Anchors \cup {None}
      OBVIOUS
    <3>1. CASE k \in draft.ks
      BY <2>1, <3>1, Committed
    <3>2. CASE k \notin draft.ks
      <4>1. asOf'[k] = asOf[k] /\ assessed'[k] = assessed[k] /\ head'[k] = head[k]
        BY <3>2, Committed
      <4> QED
        BY <4>1 DEF TypeInv, HeadsInv
    <3> QED
      BY <3>1, <3>2
  <2>3. overtaken' \subseteq Claims /\ jobs' \subseteq Claims
    BY Committed DEF TypeInv, HeadsInv, DraftInv
  <2>4. /\ head' = [k \in Claims |-> head'[k]] /\ asOf' = [k \in Claims |-> asOf'[k]]
        /\ assessed' = [k \in Claims |-> assessed'[k]]
    BY Committed
  <2> QED
    BY <2>2, <2>3, <2>4 DEF HeadsInv
<1>5. CorrInv' /\ OthersInv'
  <2>1. /\ deps' = deps \cup draft.edges /\ draft.edges \subseteq Claims \X Claims \X DepKinds
        /\ UNCHANGED <<revoked, corr, resolved, pointer, today, steps>>
    BY Committed DEF TypeInv, DraftInv
  <2> QED
    BY <2>1 DEF TypeInv, CorrInv, OthersInv
<1>6. DraftInv'
  BY Committed, NothingStaged
<1>7. WorkInv'
  <2> DEFINE m == work.missed \/ work.ks \cap draft.ks # {}
  <2>1. work' = [ks |-> work.ks, ok |-> work.ok, found |-> work.found, missed |-> m]
    BY Committed
  <2> HIDE DEF m
  <2>2. work'.ks = work.ks /\ work'.ok = work.ok /\ work'.found = work.found /\ work'.missed = m
    BY <2>1
  <2> QED
    BY <2>1, <2>2 DEF TypeInv, WorkInv
<1> QED
  BY <1>2, <1>3, <1>4, <1>5, <1>6, <1>7 DEF TypeInv

\* The worker reads a job.
LEMMA ReadTypes == ASSUME TypeInv, NEW k \in Claims, ReadJob(k) PROVE TypeInv'
<1>1. /\ jobs' \subseteq jobs /\ UNCHANGED <<dataVars, head, assessed, former, overtaken, today, plan, draft, steps>>
  BY DEF ReadJob
<1>2. WorkInv'
  <2>1. CASE head[k] = "current"
    BY <2>1 DEF ReadJob, TypeInv, WorkInv
  <2>2. CASE head[k] # "current"
    <3> DEFINE ok == Counted(k, rows[k], revoked) # {} /\ Ratable(k, Counted(k, rows[k], revoked))
               a == Assess(k, rows[k], assessed[k].scope, asOf[k] # 0)
    <3>1. work' = [ks |-> {k}, ok |-> ok, missed |-> FALSE, found |-> a]
      BY <2>2, Zenon DEF ReadJob
    <3>2. a.scope = assessed[k].scope
      BY ScopeOfVerdict
    <3> HIDE DEF ok, a
    <3> QED
      BY <3>1, <3>2 DEF WorkInv, TypeInv, HeadsInv
  <2> QED
    BY <2>1, <2>2
<1>3. RowsInv' /\ CorrInv' /\ PlanInv' /\ OthersInv'
  BY <1>1 DEF TypeInv, RowsInv, CorrInv, PlanInv, OthersInv, dataVars
<1>4. HeadsInv'
  BY <1>1 DEF TypeInv, HeadsInv, dataVars
<1>5. DraftInv'
  BY <1>1 DEF TypeInv, DraftInv, DraftShape, StagedFor, dataVars
<1> QED
  BY <1>2, <1>3, <1>4, <1>5 DEF TypeInv

\* What the worker writes for the claim of its job, and leaves for any other.
LEMMA Written ==
  ASSUME TypeInv, NEW k \in Claims, WriteJob(k)
  PROVE  /\ work.ks = {k} /\ draft = NoDraft
         /\ \A j \in Claims \ {k} : head'[j] = head[j] /\ assessed'[j] = assessed[j]
         /\ \/ /\ head'[k] = "current" /\ assessed'[k] = work.found
               /\ overtaken' = (overtaken \ {k}) \cup (IF work.missed THEN {k} ELSE {})
            \/ head'[k] = "invalid" /\ assessed'[k] = assessed[k] /\ overtaken' = overtaken
            \/ head'[k] = head[k] /\ assessed'[k] = assessed[k] /\ overtaken' = overtaken
         /\ head' = [j \in Claims |-> head'[j]] /\ assessed' = [j \in Claims |-> assessed'[j]]
         /\ jobs' = jobs \ {k} /\ work' = NoWork
         /\ UNCHANGED <<dataVars, former, today, plan, draft, steps>>
<1>1. /\ work.ks = {k} /\ draft = NoDraft /\ jobs' = jobs \ {k} /\ work' = NoWork
      /\ UNCHANGED <<dataVars, former, today, plan, draft, steps>>
  BY DEF WriteJob
<1>2. head = [j \in Claims |-> head[j]] /\ assessed = [j \in Claims |-> assessed[j]]
  BY DEF TypeInv, HeadsInv
<1>3. \/ /\ head' = [head EXCEPT ![k] = "current"] /\ assessed' = [assessed EXCEPT ![k] = work.found]
         /\ overtaken' = (overtaken \ {k}) \cup (IF work.missed THEN {k} ELSE {})
      \/ head' = [head EXCEPT ![k] = "invalid"] /\ assessed' = assessed /\ overtaken' = overtaken
      \/ head' = head /\ assessed' = assessed /\ overtaken' = overtaken
  BY DEF WriteJob
<1> QED
  BY <1>1, <1>2, <1>3

LEMMA WriteTypes == ASSUME TypeInv, NEW k \in Claims, WriteJob(k) PROVE TypeInv'
<1>1. UNCHANGED <<dataVars, former, today, plan, draft, steps>> /\ work' = NoWork /\ jobs' \subseteq jobs
  BY DEF WriteJob
<1>2. HeadsInv'
  <2>1. \A j \in Claims : /\ head'[j] \in {"absent", "current", "pending", "invalid"}
                          /\ assessed'[j].scope.anchor \in Anchors \cup {None}
    <3>1. work.found.scope.anchor \in Anchors \cup {None}
      BY Written DEF TypeInv, WorkInv
    <3> SUFFICES ASSUME NEW j \in Claims
                 PROVE  /\ head'[j] \in {"absent", "current", "pending", "invalid"}
                        /\ assessed'[j].scope.anchor \in Anchors \cup {None}
      OBVIOUS
    <3>2. head[j] \in {"absent", "current", "pending", "invalid"} /\ assessed[j].scope.anchor \in Anchors \cup {None}
      BY DEF TypeInv, HeadsInv
    <3>3. CASE j = k
      BY <3>1, <3>2, <3>3, Written
    <3>4. CASE j # k
      BY <3>2, <3>4, Written
    <3> QED
      BY <3>3, <3>4
  <2>2. head' = [j \in Claims |-> head'[j]] /\ assessed' = [j \in Claims |-> assessed'[j]]
    BY Written
  <2>3. overtaken' \subseteq overtaken \cup {k}
    BY Written
  <2>4. overtaken' \subseteq Claims /\ jobs' \subseteq Claims
    BY <1>1, <2>3 DEF TypeInv, HeadsInv
  <2>5. asOf' = asOf
    BY <1>1 DEF dataVars
  <2> QED
    BY <2>1, <2>2, <2>4, <2>5 DEF TypeInv, HeadsInv
<1>3. RowsInv' /\ CorrInv' /\ PlanInv' /\ OthersInv'
  BY <1>1 DEF TypeInv, RowsInv, CorrInv, PlanInv, OthersInv, dataVars
<1>4. DraftInv' /\ WorkInv'
  BY <1>1, NothingRead DEF TypeInv, DraftInv, DraftShape, StagedFor, dataVars
<1> QED
  BY <1>2, <1>3, <1>4 DEF TypeInv

\* A transaction is rolled back.
LEMMA DropTypes == ASSUME TypeInv, DropStaging \/ DropJob PROVE TypeInv'
<1>1. UNCHANGED <<dataVars, verdictVars, today, plan, steps>>
  BY DEF DropStaging, DropJob
<1>2. (draft' = NoDraft /\ work' = work) \/ (draft' = draft /\ work' = NoWork)
  BY DEF DropStaging, DropJob
<1>3. DraftInv'
  <2>1. CASE draft' = NoDraft
    BY <2>1, NothingStaged
  <2>2. CASE draft' = draft
    BY <1>1, <2>2 DEF TypeInv, DraftInv, DraftShape, StagedFor, dataVars
  <2> QED
    BY <1>2, <2>1, <2>2
<1>4. WorkInv'
  BY <1>2, NothingRead DEF TypeInv, WorkInv
<1>5. RowsInv' /\ CorrInv' /\ PlanInv' /\ HeadsInv' /\ OthersInv'
  BY <1>1 DEF TypeInv, RowsInv, CorrInv, PlanInv, HeadsInv, OthersInv, dataVars, verdictVars
<1> QED
  BY <1>3, <1>4, <1>5 DEF TypeInv

LEMMA ActivateTypes == ASSUME TypeInv, NEW late \in SUBSET Claims, ActivateConfig(late) PROVE TypeInv'
<1>1. /\ head' \in [Claims -> {"absent", "current", "pending", "invalid"}] /\ jobs' \subseteq Claims
      /\ overtaken' = overtaken \cup late /\ Step
      /\ UNCHANGED <<dataVars, assessed, today, plan, draft, work>>
  BY DEF ActivateConfig, Command
<1>2. HeadsInv'
  BY <1>1 DEF TypeInv, HeadsInv, dataVars
<1>3. RowsInv' /\ CorrInv' /\ PlanInv' /\ OthersInv'
  BY <1>1, MemoryAssumption DEF TypeInv, RowsInv, CorrInv, PlanInv, OthersInv, Step, dataVars
<1>4. DraftInv' /\ WorkInv'
  BY <1>1 DEF TypeInv, DraftInv, DraftShape, StagedFor, WorkInv, dataVars
<1> QED
  BY <1>2, <1>3, <1>4 DEF TypeInv
\* The sources of a claim and the origins of their values are sources.
LEMMA GraphOfSources ==
  ASSUME TypeInv, NEW k \in Claims
  PROVE  SourcesOf(k) \subseteq Sources /\ Producers(k) \subseteq Sources
<1>1. \A e \in rows[k] : e.source \in Sources \cup {None} /\ (e.attr = NoAttr \/ e.attr.parent \in Sources)
  BY AttrsHaveParents DEF TypeInv, RowsInv, Row
<1>2. SourcesOf(k) \subseteq Sources
  BY <1>1 DEF SourcesOf, MembersOf
<1>3. \A s \in SourcesOf(k) : pointer[s] \in Sources \cup {None}
  BY <1>2 DEF TypeInv, OthersInv
<1>4. \A e \in rows[k] : e.attr.parent \in Sources \cup {None}
  BY <1>1 DEF NoAttr
<1> QED
  BY <1>2, <1>3, <1>4 DEF Producers

\* What a dispute does to the corrections: others stay, the pairs become valid.
LEMMA DisputedCorrections ==
  ASSUME NEW actor \in Actors, NEW k, NEW pairs \in SUBSET (Sources \X Sources),
         \A p \in pairs : p[1] # p[2], CorrInv, corr' = Disputed(actor, k, pairs)
  PROVE  /\ CorrInv'
         /\ \A x \in corr : \E y \in corr' : y.from = x.from /\ y.to = x.to
         /\ \A x \in corr : x.valid => \E y \in corr' : y.from = x.from /\ y.to = x.to /\ y.valid
         /\ \A y \in corr' : y \in corr \/ <<y.from, y.to>> \in pairs
<1> DEFINE known(x) == x.actor = actor /\ <<x.from, x.to>> \in pairs
           kept(x) == IF known(x) THEN [x EXCEPT !.valid = TRUE, !.claim = k] ELSE x
           fresh(p) == [actor |-> actor, from |-> p[1], to |-> p[2], valid |-> TRUE, claim |-> k, at |-> Stamp]
<1>1. corr' = {kept(x) : x \in corr} \cup
              {fresh(p) : p \in {p \in pairs : ~\E x \in corr : x.actor = actor /\ x.from = p[1] /\ x.to = p[2]}}
  BY Zenon DEF Disputed
<1>2. \A x \in corr : /\ Correction(kept(x)) /\ kept(x).from = x.from /\ kept(x).to = x.to
                      /\ kept(x) = x \/ (kept(x).valid = TRUE /\ <<x.from, x.to>> \in pairs)
  <2>1. SUFFICES ASSUME NEW x \in corr
                 PROVE  /\ Correction(kept(x)) /\ kept(x).from = x.from /\ kept(x).to = x.to
                        /\ kept(x) = x \/ (kept(x).valid = TRUE /\ <<x.from, x.to>> \in pairs)
    OBVIOUS
  <2>2. Correction(x)
    BY DEF CorrInv
  <2>3. CASE known(x)
    <3>1. kept(x) = [actor |-> x.actor, from |-> x.from, to |-> x.to, valid |-> TRUE, claim |-> k, at |-> x.at]
      BY <2>2, <2>3 DEF Correction
    <3> QED
      BY <2>2, <2>3, <3>1 DEF Correction
  <2>4. CASE ~known(x)
    BY <2>2, <2>4
  <2> QED
    BY <2>3, <2>4
<1>3. \A p \in pairs : Correction(fresh(p)) /\ fresh(p).from = p[1] /\ fresh(p).to = p[2] /\ p = <<p[1], p[2]>>
  BY DEF Correction
<1> HIDE DEF kept, fresh
<1>4. ASSUME NEW y \in corr' PROVE Correction(y) /\ (y \in corr \/ <<y.from, y.to>> \in pairs)
  <2>1. CASE y \in {kept(x) : x \in corr}
    <3>1. PICK x \in corr : y = kept(x)
      BY <2>1
    <3> QED
      BY <1>2, <3>1
  <2>2. CASE y \notin {kept(x) : x \in corr}
    <3>1. PICK p \in pairs : y = fresh(p)
      BY <1>1, <2>2
    <3> QED
      BY <1>3, <3>1
  <2> QED
    BY <2>1, <2>2
<1>5. \A x \in corr : kept(x) \in corr'
  BY <1>1
<1>6. \A x \in corr : x.valid => kept(x).valid
  BY <1>2
<1>7. CorrInv'
  BY <1>4 DEF CorrInv
<1> QED
  BY <1>2, <1>4, <1>5, <1>6, <1>7

LEMMA TouchingAreClaims == \A ss : Touching(ss) \subseteq Claims
BY DEF Touching

\* The types after a command that requeues claims and leaves their rows.
LEMMA CommandTypes ==
  ASSUME TypeInv, Command, NEW ks \in SUBSET Claims, Requeue(ks), NEW qs, Unseen(qs),
         UNCHANGED <<rows, asOf, assessed, deps, overtaken, today>>, CorrInv', PlanInv',
         revoked' \subseteq Claims \X Ids, \A r \in resolved' : r.claim \in Claims /\ r.id \in Ids,
         pointer' \in [Sources -> Sources \cup {None}]
  PROVE  TypeInv'
<1>1. HeadsInv'
  BY RequeueTakesHeads DEF TypeInv
<1>2. DraftInv'
  BY UnseenFrame, DraftStays DEF TypeInv
<1>3. WorkInv'
  BY DEF Command, TypeInv, WorkInv
<1>4. RowsInv' /\ OthersInv'
  BY MemoryAssumption DEF TypeInv, RowsInv, OthersInv, Command, Step
<1> QED
  BY <1>1, <1>2, <1>3, <1>4 DEF TypeInv

\* What a change of sources does to heads and to the open final transaction.
LEMMA SourceChange ==
  ASSUME NEW ss, SourceGraphChange(ss)
  PROVE  /\ Touching(ss) \in SUBSET Claims /\ Requeue(Touching(ss))
         /\ Unseen({k \in draft.ks : \E e \in DraftRows(k) : e.source \in ss})
BY TouchingAreClaims DEF SourceGraphChange

LEMMA DisputeTypes ==
  ASSUME TypeInv, NEW actor \in Actors, NEW k \in Claims, NEW p, NEW r, DisputeClaim(actor, k, p, r)
  PROVE  TypeInv'
<1> DEFINE primary == RowsAt(SourcesOf(k) \cup Producers(k), p)
           retelling == RowsAt(SourcesOf(k), r)
           pairs == retelling \X primary
           ss == primary \cup retelling
<1>1. /\ primary \cap retelling = {} /\ corr' = Disputed(actor, k, pairs)
      /\ SourceGraphChange(ss) /\ Command
      /\ UNCHANGED <<rows, revoked, resolved, pointer, asOf, assessed, deps, overtaken, today, plan>>
  BY DEF DisputeClaim
<1>2. pairs \in SUBSET (Sources \X Sources) /\ \A q \in pairs : q[1] # q[2]
  BY <1>1, GraphOfSources DEF RowsAt
<1>3. CorrInv'
  <2> HIDE DEF pairs
  <2> QED
    BY <1>1, <1>2, DisputedCorrections DEF TypeInv
<1> HIDE DEF ss, primary, retelling
<1>4. PlanInv'
  BY <1>1 DEF TypeInv, PlanInv
<1> QED
  BY <1>1, <1>3, <1>4, SourceChange, CommandTypes DEF TypeInv, OthersInv

\* What a cancellation does to the corrections: some are no longer valid.
LEMMA CancelledCorrections ==
  ASSUME CorrInv, NEW gone \in SUBSET corr,
         corr' = {IF y \in gone THEN [y EXCEPT !.valid = FALSE] ELSE y : y \in corr}
  PROVE  /\ CorrInv'
         /\ \A x \in corr : \E y \in corr' : y.from = x.from /\ y.to = x.to
         /\ \A x \in corr \ gone : x \in corr'
         /\ \A y \in corr' : y.valid => y \in corr
<1> DEFINE kept(y) == IF y \in gone THEN [y EXCEPT !.valid = FALSE] ELSE y
<1>1. \A x \in corr : /\ Correction(kept(x)) /\ kept(x).from = x.from /\ kept(x).to = x.to
                      /\ kept(x) = x \/ (x \in gone /\ kept(x).valid = FALSE)
                      /\ x \notin gone => kept(x) = x
  <2>1. SUFFICES ASSUME NEW x \in corr
                 PROVE  /\ Correction(kept(x)) /\ kept(x).from = x.from /\ kept(x).to = x.to
                        /\ kept(x) = x \/ (x \in gone /\ kept(x).valid = FALSE)
                        /\ x \notin gone => kept(x) = x
    OBVIOUS
  <2>2. Correction(x)
    BY DEF CorrInv
  <2>3. CASE x \in gone
    <3>1. kept(x) = [actor |-> x.actor, from |-> x.from, to |-> x.to, valid |-> FALSE, claim |-> x.claim, at |-> x.at]
      BY <2>2, <2>3 DEF Correction
    <3> QED
      BY <2>2, <2>3, <3>1 DEF Correction
  <2>4. CASE x \notin gone
    BY <2>2, <2>4
  <2> QED
    BY <2>3, <2>4
<1>2. corr' = {kept(y) : y \in corr}
  OBVIOUS
<1> HIDE DEF kept
<1> QED
  BY <1>1, <1>2 DEF CorrInv

LEMMA CancelDisputeTypes == ASSUME TypeInv, NEW k \in Claims, CancelDispute(k) PROVE TypeInv'
<1>1. PICK x \in CorrectionsOf(k) :
        LET gone == SamePage(k, x) IN
        /\ corr' = {IF y \in gone THEN [y EXCEPT !.valid = FALSE] ELSE y : y \in corr}
        /\ SourceGraphChange({y.from : y \in gone} \cup {y.to : y \in gone})
        /\ UNCHANGED <<rows, revoked, resolved, pointer, asOf, assessed, deps, overtaken, today, plan>>
  BY DEF CancelDispute
<1> DEFINE ss == {y.from : y \in SamePage(k, x)} \cup {y.to : y \in SamePage(k, x)}
<1>2. SamePage(k, x) \in SUBSET corr
  BY DEF SamePage, CorrectionsOf
<1>3. CorrInv'
  BY <1>1, <1>2, CancelledCorrections DEF TypeInv
<1>4. SourceGraphChange(ss) /\ Command
  BY <1>1 DEF CancelDispute
<1> HIDE DEF ss
<1>5. PlanInv'
  BY <1>1 DEF TypeInv, PlanInv
<1> QED
  BY <1>1, <1>3, <1>4, <1>5, SourceChange, CommandTypes DEF TypeInv, OthersInv

\* Links revoked or put back: a set of claims leaves "current", and the links of others stay.
LEMMA RevocationsChanged ==
  ASSUME TypeInv, NEW pairs \in SUBSET ValueAbsent, NEW allow, RevokeLinks(pairs, allow) \/ CancelRevocations(pairs)
  PROVE  /\ \E ks \in SUBSET Claims :
               /\ Requeue(ks) /\ Unseen(ks)
               /\ \A k \in Claims \ ks : \A id : <<k, id>> \in revoked' <=> <<k, id>> \in revoked
         /\ Command /\ revoked' \subseteq Claims \X Ids
         /\ UNCHANGED <<rows, corr, resolved, pointer, asOf, assessed, deps, overtaken, today, plan>>
<1>1. CASE RevokeLinks(pairs, allow)
  <2> DEFINE ks == {p[1] : p \in FreshLinks(pairs)}
  <2>1. /\ Requeue(ks) /\ Unseen(ks) /\ revoked' = revoked \cup FreshLinks(pairs) /\ Command
        /\ UNCHANGED <<rows, corr, resolved, pointer, asOf, assessed, deps, overtaken, today, plan>>
    BY <1>1 DEF RevokeLinks, RevocationCascade
  <2>2. ks \in SUBSET Claims /\ FreshLinks(pairs) \subseteq Claims \X Ids
    BY MemoryAssumption DEF FreshLinks
  <2>3. \A k \in Claims \ ks : \A id : <<k, id>> \notin FreshLinks(pairs)
    OBVIOUS
  <2> HIDE DEF ks
  <2>4. \A k \in Claims \ ks : \A id : <<k, id>> \in revoked' <=> <<k, id>> \in revoked
    BY <2>1, <2>3
  <2> QED
    BY <2>1, <2>2, <2>4 DEF TypeInv, OthersInv
<1>2. CASE CancelRevocations(pairs)
  <2> DEFINE ks == {p[1] : p \in pairs \cap revoked}
  <2>1. /\ Requeue(ks) /\ Unseen(ks) /\ revoked' = revoked \ (pairs \cap revoked) /\ Command
        /\ UNCHANGED <<rows, corr, resolved, pointer, asOf, assessed, deps, overtaken, today, plan>>
    BY <1>2 DEF CancelRevocations, RevocationCascade
  <2>2. ks \in SUBSET Claims
    BY MemoryAssumption
  <2>3. \A k \in Claims \ ks : \A id : <<k, id>> \notin pairs \cap revoked
    OBVIOUS
  <2> HIDE DEF ks
  <2>4. \A k \in Claims \ ks : \A id : <<k, id>> \in revoked' <=> <<k, id>> \in revoked
    BY <2>1, <2>3
  <2> QED
    BY <2>1, <2>2, <2>4 DEF TypeInv, OthersInv
<1> QED
  BY <1>1, <1>2

LEMMA RevokeTypes ==
  ASSUME TypeInv, NEW pairs \in SUBSET ValueAbsent, NEW allow, RevokeLinks(pairs, allow) \/ CancelRevocations(pairs)
  PROVE  TypeInv'
<1>1. PICK ks \in SUBSET Claims : Requeue(ks) /\ Unseen(ks)
  BY RevocationsChanged
<1>2. /\ Command /\ revoked' \subseteq Claims \X Ids
      /\ UNCHANGED <<rows, corr, resolved, pointer, asOf, assessed, deps, overtaken, today, plan>>
  BY RevocationsChanged
<1>3. CorrInv' /\ PlanInv'
  BY <1>2 DEF TypeInv, CorrInv, PlanInv
<1> QED
  BY <1>1, <1>2, <1>3, CommandTypes DEF TypeInv, OthersInv

LEMMA PreviewTypes == ASSUME TypeInv, NEW ks, ApplyPreview(ks) PROVE TypeInv'
<1> DEFINE ss == UNION {SourcesOf(k) : k \in ks}
<1>1. /\ SourceGraphChange(ss) /\ Command
      /\ UNCHANGED <<rows, revoked, corr, resolved, pointer, asOf, assessed, deps, overtaken, today, plan>>
  BY DEF ApplyPreview
<1> HIDE DEF ss
<1>2. CorrInv' /\ PlanInv'
  BY <1>1 DEF TypeInv, CorrInv, PlanInv
<1> QED
  BY <1>1, <1>2, SourceChange, CommandTypes DEF TypeInv, OthersInv

\* A resolution added or taken back: its claim leaves "current", and those of others stay.
LEMMA ResolutionsChanged ==
  ASSUME TypeInv, \/ \E k \in Claims, id \in Ids : ResolveCounter(k, id)
                  \/ \E r \in resolved : InvalidateResolution(r)
  PROVE  /\ \E j \in Claims :
               /\ Requeue({j}) /\ Unseen({j})
               /\ \A k \in Claims \ {j} : {r \in resolved' : r.claim = k} = {r \in resolved : r.claim = k}
         /\ \A r \in resolved' : r.claim \in Claims /\ r.id \in Ids
         /\ Command /\ UNCHANGED <<rows, revoked, corr, pointer, asOf, assessed, deps, overtaken, today, plan>>
<1>1. CASE \E k \in Claims, id \in Ids : ResolveCounter(k, id)
  <2>1. PICK j \in Claims, id \in Ids : ResolveCounter(j, id)
    BY <1>1
  <2> DEFINE added == [claim |-> j, id |-> id]
  <2>2. added.claim = j /\ added.id = id
    OBVIOUS
  <2>3. /\ Requeue({j}) /\ Unseen({j}) /\ resolved' = resolved \cup {added} /\ Command
        /\ UNCHANGED <<rows, revoked, corr, pointer, asOf, assessed, deps, overtaken, today, plan>>
    BY <2>1 DEF ResolveCounter, CascadeClaim
  <2> HIDE DEF added
  <2>4. \A k \in Claims \ {j} : {r \in resolved' : r.claim = k} = {r \in resolved : r.claim = k}
    BY <2>2, <2>3
  <2>5. \A r \in resolved' : r \in resolved \/ (r.claim = j /\ r.id = id)
    BY <2>2, <2>3
  <2>6. \A r \in resolved' : r.claim \in Claims /\ r.id \in Ids
    BY <2>5 DEF TypeInv, OthersInv
  <2> QED
    BY <2>3, <2>4, <2>6
<1>2. CASE \E r \in resolved : InvalidateResolution(r)
  <2>1. PICK r \in resolved : InvalidateResolution(r)
    BY <1>2
  <2>2. r.claim \in Claims
    BY DEF TypeInv, OthersInv
  <2>3. /\ Requeue({r.claim}) /\ Unseen({r.claim}) /\ resolved' = resolved \ {r} /\ Command
        /\ UNCHANGED <<rows, revoked, corr, pointer, asOf, assessed, deps, overtaken, today, plan>>
    BY <2>1 DEF InvalidateResolution, CascadeClaim
  <2>4. \A k \in Claims \ {r.claim} : {q \in resolved' : q.claim = k} = {q \in resolved : q.claim = k}
    BY <2>3
  <2> QED
    BY <2>2, <2>3, <2>4 DEF TypeInv, OthersInv
<1> QED
  BY <1>1, <1>2

LEMMA ResolutionTypes ==
  ASSUME TypeInv, \/ \E k \in Claims, id \in Ids : ResolveCounter(k, id)
                  \/ \E r \in resolved : InvalidateResolution(r)
  PROVE  TypeInv'
<1>1. PICK j \in Claims : Requeue({j}) /\ Unseen({j})
  BY ResolutionsChanged
<1>2. /\ \A r \in resolved' : r.claim \in Claims /\ r.id \in Ids
      /\ Command /\ UNCHANGED <<rows, revoked, corr, pointer, asOf, assessed, deps, overtaken, today, plan>>
  BY ResolutionsChanged
<1>3. CorrInv' /\ PlanInv' /\ {j} \in SUBSET Claims
  BY <1>2 DEF TypeInv, CorrInv, PlanInv
<1> QED
  BY <1>1, <1>2, <1>3, CommandTypes DEF TypeInv, OthersInv

LEMMA PlanTypes ==
  ASSUME TypeInv, \/ \E p \in Pointers : PlanPointer(p[1], p[2])
                  \/ \E t \in Attributions : PlanLink(t[1], t[2], t[3])
                  \/ DropPlan
  PROVE  TypeInv'
<1>1. PlanInv'
  <2>1. CASE \E p \in Pointers : PlanPointer(p[1], p[2])
    <3>1. PICK p \in Pointers : PlanPointer(p[1], p[2])
      BY <2>1
    <3>2. p = <<p[1], p[2]>>
      BY MemoryAssumption
    <3>3. plan' = [what |-> IF pointer[p[1]] = None THEN "set" ELSE "clear", source |-> p[1], parent |-> p[2]]
      BY <3>1 DEF PlanPointer
    <3>4. plan'.what \in {"set", "clear"} /\ plan'.source = p[1] /\ plan'.parent = p[2]
      BY <3>3
    <3> QED
      BY <3>2, <3>4 DEF PlanInv
  <2>2. CASE \E t \in Attributions : PlanLink(t[1], t[2], t[3])
    <3>1. PICK t \in Attributions : PlanLink(t[1], t[2], t[3])
      BY <2>2
    <3>2. PICK e \in ToReevaluate(t[1]) :
            /\ e.id = t[2] /\ e.source # t[3]
            /\ plan' = [what |-> IF t[3] = None THEN "remove" ELSE "attribute",
                        claim |-> t[1], id |-> t[2], parent |-> t[3]]
            /\ rows' = rows
      BY <3>1 DEF PlanLink, dataVars
    <3>3. e \in rows[t[1]] /\ t[1] \in Claims /\ t[3] \in Sources \cup {None}
      BY <3>2, MemoryAssumption DEF ToReevaluate
    <3>4. /\ plan'.what \in {"remove", "attribute"} /\ plan'.claim = t[1] /\ plan'.id = t[2]
          /\ plan'.parent = t[3] /\ (plan'.what = "attribute" => t[3] # None)
      BY <3>2
    <3> QED
      BY <3>2, <3>3, <3>4 DEF PlanInv
  <2>3. CASE DropPlan
    BY <2>3, NothingPlanned DEF DropPlan
  <2> QED
    BY <2>1, <2>2, <2>3
<1>2. UNCHANGED <<dataVars, verdictVars, today, draft, work, steps>>
  BY DEF PlanPointer, PlanLink, DropPlan
<1>3. RowsInv' /\ CorrInv' /\ HeadsInv' /\ OthersInv'
  BY <1>2 DEF TypeInv, RowsInv, CorrInv, HeadsInv, OthersInv, dataVars, verdictVars
<1>4. DraftInv' /\ WorkInv'
  BY <1>2 DEF TypeInv, DraftInv, DraftShape, StagedFor, WorkInv, dataVars
<1> QED
  BY <1>1, <1>3, <1>4 DEF TypeInv

\* The write of a planned pointer: the source of the plan, or nothing.
LEMMA PointerWritten ==
  ASSUME TypeInv, ReattributeSource
  PROVE  /\ \E ss : /\ ss \subseteq {plan.source} /\ SourceGraphChange(ss)
                    /\ \A s \in Sources \ ss : pointer'[s] = pointer[s]
         /\ pointer' \in [Sources -> Sources \cup {None}]
         /\ <<plan.source, plan.parent>> \in Pointers
         /\ Command /\ plan' = NoPlan
         /\ UNCHANGED <<rows, revoked, corr, resolved, asOf, assessed, deps, overtaken, today>>
<1> DEFINE s == plan.source
           holds == (plan.what = "set") = (pointer[s] = None)
<1>1. /\ pointer' = IF holds THEN [pointer EXCEPT ![s] = IF plan.what = "set" THEN plan.parent ELSE None]
                    ELSE pointer
      /\ SourceGraphChange(IF holds THEN {s} ELSE {})
      /\ Command /\ plan' = NoPlan
      /\ UNCHANGED <<rows, revoked, corr, resolved, asOf, assessed, deps, overtaken, today>>
  BY DEF ReattributeSource
<1>2. <<s, plan.parent>> \in Pointers /\ s \in Sources /\ plan.parent \in Sources
  BY MemoryAssumption DEF ReattributeSource, TypeInv, PlanInv
<1>3. pointer \in [Sources -> Sources \cup {None}]
  BY DEF TypeInv, OthersInv
<1> DEFINE ss == IF holds THEN {s} ELSE {}
<1>4. ss \subseteq {s} /\ SourceGraphChange(ss)
  BY <1>1
<1>5. pointer' \in [Sources -> Sources \cup {None}] /\ \A x \in Sources \ ss : pointer'[x] = pointer[x]
  <2> DEFINE v == IF plan.what = "set" THEN plan.parent ELSE None
  <2>1. v \in Sources \cup {None}
    BY <1>2
  <2> HIDE DEF v
  <2>2. CASE holds
    BY <1>1, <1>2, <1>3, <2>1, <2>2 DEF v
  <2>3. CASE ~holds
    BY <1>1, <1>3, <2>3
  <2> QED
    BY <2>2, <2>3
<1> HIDE DEF ss
<1> QED
  BY <1>1, <1>2, <1>4, <1>5

LEMMA ReattributeSourceTypes == ASSUME TypeInv, ReattributeSource PROVE TypeInv'
<1>1. PICK ss : SourceGraphChange(ss)
  BY PointerWritten
<1>2. /\ pointer' \in [Sources -> Sources \cup {None}] /\ Command /\ plan' = NoPlan
      /\ UNCHANGED <<rows, revoked, corr, resolved, asOf, assessed, deps, overtaken, today>>
  BY PointerWritten
<1>3. CorrInv' /\ PlanInv'
  BY <1>2, NothingPlanned DEF TypeInv, CorrInv
<1> QED
  BY <1>1, <1>2, <1>3, SourceChange, CommandTypes DEF TypeInv, OthersInv

\* None of the rows is on one of the sources.
Off(rs, ss) == \A e \in rs : e.source \notin ss

(* The write of a planned attribution: rows of one claim on some sources,  *)
(* or nothing, and no row that the open final transaction has written.     *)
LEMMA LinkWritten ==
  ASSUME TypeInv, ReattributeEvidence
  PROVE  /\ RowsInv'
         /\ \A k \in Claims : \A e \in rows'[k] : \E f \in rows[k] : f.id = e.id /\ f.source = e.source
         /\ \E ss : /\ SourceGraphChange(ss)
                    /\ \A k \in Claims : Off(rows[k], ss) => rows'[k] = rows[k]
                    /\ \A k \in draft.ks : Off(DraftRows(k), ss) => rows'[k] = rows[k]
         /\ Command /\ plan' = NoPlan
         /\ UNCHANGED <<revoked, corr, resolved, pointer, asOf, assessed, deps, overtaken, today>>
<1> DEFINE k == plan.claim
           hit == {e \in ToReevaluate(k) : /\ e.id = plan.id /\ ~Locked(k, e.source)
                                           /\ plan.what = "remove" => e.attr # NoAttr}
           attr == IF plan.what = "remove" THEN NoAttr ELSE [parent |-> plan.parent, method |-> "current"]
           set(e) == [e EXCEPT !.attr = attr]
           ss == {e.source : e \in hit}
<1>1. /\ rows' = [rows EXCEPT ![k] = (@ \ hit) \cup {set(e) : e \in hit}]
      /\ SourceGraphChange(ss) /\ Command /\ plan' = NoPlan
      /\ UNCHANGED <<revoked, corr, resolved, pointer, asOf, assessed, deps, overtaken, today>>
  BY DEF ReattributeEvidence
<1>2. /\ plan.what \in {"attribute", "remove"} /\ k \in Claims
      /\ plan.what = "attribute" => plan.parent \in Sources
      /\ \E e \in rows[k] : e.id = plan.id /\ e.source # plan.parent
      /\ k \in draft.ks => ~\E f \in draft.rows[k] : f.id = plan.id
  BY DEF ReattributeEvidence, TypeInv, PlanInv
<1>3. rows \in [Claims -> SUBSET Row] /\ rows[k] \subseteq Row /\ Proper(rows[k])
  BY <1>2 DEF TypeInv, RowsInv
<1>4. hit \subseteq rows[k] /\ \A e \in hit : e.id = plan.id
  BY DEF ToReevaluate
<1>5. \A e \in hit : e.source # plan.parent
  BY <1>2, <1>3, <1>4 DEF Proper
<1>6. attr \in Attrs /\ \A e \in hit : attr.parent = e.source => e.source = None
  <2>1. CASE plan.what = "remove"
    BY <2>1 DEF Attrs, NoAttr
  <2>2. CASE plan.what = "attribute"
    <3>1. attr = [parent |-> plan.parent, method |-> "current"] /\ plan.parent \in Sources
      BY <1>2, <2>2
    <3> QED
      BY <1>5, <3>1 DEF Attrs
  <2> QED
    BY <1>2, <2>1, <2>2
<1> HIDE DEF attr
<1>7. \A e \in hit : set(e) \in Row /\ set(e).id = e.id /\ set(e).source = e.source /\ set(e).attr = attr
  BY <1>3, <1>4, <1>6 DEF Row
<1> HIDE DEF set, hit
<1> DEFINE rs == (rows[k] \ hit) \cup {set(e) : e \in hit}
<1>8. rs \in SUBSET Row
  BY <1>3, <1>7
<1>9. \A e \in rs : \E f \in rows[k] : /\ f.id = e.id /\ f.source = e.source
                                       /\ f \in hit => e = set(f)
                                       /\ f \notin hit => e = f
  BY <1>4, <1>7
<1>10. hit = {} => rs = rows[k]
  OBVIOUS
<1> HIDE DEF rs
<1>11. Proper(rs)
  <2>1. \A e, f \in rs : e.id = f.id => f = e
    BY <1>3, <1>9 DEF Proper
  <2>2. \A e \in rs : e.attr.parent = e.source /\ e.source # None =>
                         \E o \in Obs : o.id = e.id /\ o.source # e.source
    BY <1>3, <1>6, <1>7, <1>9 DEF Proper
  <2> QED
    BY <2>1, <2>2 DEF Proper
<1>12. rows' = [rows EXCEPT ![k] = rs]
  BY <1>1 DEF rs
<1>13. rows'[k] = rs /\ \A j \in Claims \ {k} : rows'[j] = rows[j]
  BY <1>2, <1>3, <1>12
<1>14. RowsInv'
  <2>1. rows' \in [Claims -> SUBSET Row]
    BY <1>3, <1>8, <1>12
  <2>2. \A j \in Claims : Proper(rows'[j])
    BY <1>11, <1>13 DEF TypeInv, RowsInv
  <2> QED
    BY <2>1, <2>2 DEF RowsInv
<1>15. \A j \in Claims : \A e \in rows'[j] : \E f \in rows[j] : f.id = e.id /\ f.source = e.source
  BY <1>9, <1>13
<1>16. \A j \in Claims : Off(rows[j], ss) => rows'[j] = rows[j]
  <2>1. Off(rows[k], ss) => hit = {}
    BY <1>4 DEF Off
  <2> QED
    BY <1>10, <1>13, <2>1
<1>17. \A j \in draft.ks : Off(DraftRows(j), ss) => rows'[j] = rows[j]
  <2>1. k \in draft.ks => hit \subseteq DraftRows(k)
    BY <1>2, <1>4 DEF DraftRows
  <2>2. k \in draft.ks /\ Off(DraftRows(k), ss) => hit = {}
    BY <2>1 DEF Off
  <2>3. draft.ks \subseteq Claims
    BY DEF TypeInv, DraftInv
  <2> QED
    BY <1>10, <1>13, <2>2, <2>3
<1> HIDE DEF ss
<1> QED
  BY <1>1, <1>14, <1>15, <1>16, <1>17

LEMMA ReattributeEvidenceTypes == ASSUME TypeInv, ReattributeEvidence PROVE TypeInv'
<1>1. PICK ss : SourceGraphChange(ss)
  BY LinkWritten
<1>2. /\ Command /\ plan' = NoPlan /\ RowsInv'
      /\ \A k \in Claims : \A e \in rows'[k] : \E f \in rows[k] : f.id = e.id /\ f.source = e.source
      /\ UNCHANGED <<revoked, corr, resolved, pointer, asOf, assessed, deps, overtaken, today>>
  BY LinkWritten
<1>3. HeadsInv'
  BY <1>1, <1>2, SourceChange, RequeueTakesHeads DEF TypeInv
<1>4. DraftFrame
  BY <1>1, SourceChange, UnseenFrame DEF TypeInv
<1>5. DraftInv'
  BY <1>2, <1>4, DraftStays DEF TypeInv
<1>6. CorrInv' /\ OthersInv' /\ WorkInv'
  BY <1>2, MemoryAssumption DEF TypeInv, CorrInv, OthersInv, WorkInv, Command, Step
<1> QED
  BY <1>2, <1>3, <1>5, <1>6, NothingPlanned DEF TypeInv

-----------------------------------------------------------------------------
(* Types and dependencies of every state.                                  *)

MemInv == TypeInv /\ Acyclic(Pairs(deps)) /\ Acyclic(Pairs(deps \cup draft.edges))

LEMMA CommandsKeepEdges ==
  ASSUME MemInv, TypeInv',
         \/ draft'.edges = draft.edges /\ deps' = deps
         \/ draft' = NoDraft /\ deps' = deps
         \/ draft' = NoDraft /\ deps' = deps \cup draft.edges
  PROVE  MemInv'
<1>1. \A ds : ds \cup {} = ds
  OBVIOUS
<1>2. Acyclic(Pairs(deps')) /\ Acyclic(Pairs(deps' \cup draft'.edges))
  <2>1. CASE draft'.edges = draft.edges /\ deps' = deps
    BY <2>1, Zenon DEF MemInv
  <2>2. CASE draft' = NoDraft /\ (deps' = deps \/ deps' = deps \cup draft.edges)
    <3>1. draft'.edges = {}
      BY <2>2 DEF NoDraft
    <3> QED
      BY <1>1, <2>2, <3>1, Zenon DEF MemInv
  <2> QED
    BY <2>1, <2>2
<1> QED
  BY <1>2 DEF MemInv

LEMMA NextMemInv == MemInv /\ [Next]_memVars => MemInv'
<1> SUFFICES ASSUME MemInv, [Next]_memVars PROVE MemInv'
  OBVIOUS
<1>0. TypeInv /\ DraftInv
  BY DEF MemInv, TypeInv
<1>1. CASE \E b \in Batches : StageBatch(b)
  <2>1. PICK b \in Batches : StageBatch(b)
    BY <1>1
  <2>2. TypeInv'
    BY <2>1, StageTypes DEF MemInv
  <2>3. deps' = deps /\ draft'.edges = AcceptedEdges(b)
    BY <2>1 DEF StageBatch, dataVars
  <2>4. Acyclic(Pairs(deps \cup AcceptedEdges(b))) /\ Acyclic(Pairs(deps))
    BY StagingKeepsAcyclic DEF MemInv, TypeInv, OthersInv
  <2> QED
    BY <2>2, <2>3, <2>4 DEF MemInv
<1>2. CASE \E k \in Claims : AssessStaged(k)
  <2>1. PICK k \in Claims : AssessStaged(k)
    BY <1>2
  <2>2. draft'.edges = draft.edges
    BY <1>0, <2>1, AssessedDraft
  <2>3. deps' = deps
    BY <2>1 DEF AssessStaged, dataVars
  <2> QED
    BY <1>0, <2>1, <2>2, <2>3, AssessTypes, CommandsKeepEdges
<1>3. CASE CommitStaging
  <2>1. draft' = NoDraft /\ deps' = deps \cup draft.edges
    BY <1>0, <1>3, Committed
  <2> QED
    BY <1>0, <1>3, <2>1, CommitTypes, CommandsKeepEdges
<1>4. CASE DropStaging \/ DropJob
  <2>1. deps' = deps /\ (draft' = NoDraft \/ draft' = draft)
    BY <1>4 DEF DropStaging, DropJob, dataVars
  <2> QED
    BY <1>0, <1>4, <2>1, DropTypes, CommandsKeepEdges
<1>5. CASE \E k \in Claims : ReadJob(k) \/ WriteJob(k)
  <2>1. deps' = deps /\ draft' = draft
    BY <1>5 DEF ReadJob, WriteJob, dataVars
  <2> QED
    BY <1>0, <1>5, <2>1, ReadTypes, WriteTypes, CommandsKeepEdges
<1>6. CASE \E late \in SUBSET Claims : ActivateConfig(late)
  <2>1. deps' = deps /\ draft' = draft
    BY <1>6 DEF ActivateConfig, dataVars
  <2> QED
    BY <1>0, <1>6, <2>1, ActivateTypes, CommandsKeepEdges
<1>7. CASE WebDispute \/ HostDispute
  <2>1. PICK actor \in Actors, k \in Claims, p \in Uris, r \in Uris : DisputeClaim(actor, k, p, r)
    BY <1>7 DEF WebDispute, HostDispute, Actors
  <2>2. deps' = deps /\ \E qs : Unseen(qs)
    BY <2>1 DEF DisputeClaim, SourceGraphChange
  <2> QED
    BY <1>0, <2>1, <2>2, DisputeTypes, UnseenFrame, CommandsKeepEdges DEF DraftFrame
<1>8. CASE WebDisputeCancel \/ HostDisputeCancel
  <2>1. PICK k \in Claims : CancelDispute(k)
    BY <1>8 DEF WebDisputeCancel, HostDisputeCancel
  <2>2. deps' = deps /\ \E qs : Unseen(qs)
    BY <2>1 DEF CancelDispute, SourceGraphChange
  <2> QED
    BY <1>0, <2>1, <2>2, CancelDisputeTypes, UnseenFrame, CommandsKeepEdges DEF DraftFrame
<1>9. CASE LinkAuditCommand \/ LinkAuditCancelCommand
  <2>1. PICK pairs \in SUBSET ValueAbsent, allow \in BOOLEAN :
            RevokeLinks(pairs, allow) \/ CancelRevocations(pairs)
    BY <1>9 DEF LinkAuditCommand, LinkAuditCancelCommand
  <2>2. deps' = deps /\ \E qs : Unseen(qs)
    BY <1>0, <2>1, RevocationsChanged
  <2> QED
    BY <1>0, <2>1, <2>2, RevokeTypes, UnseenFrame, CommandsKeepEdges DEF DraftFrame
<1>10. CASE PreviewCommand
  <2>1. deps' = deps /\ \E qs : Unseen(qs)
    BY <1>10 DEF PreviewCommand, ApplyPreview, SourceGraphChange
  <2> QED
    BY <1>0, <1>10, <2>1, PreviewTypes, UnseenFrame, CommandsKeepEdges DEF DraftFrame, PreviewCommand
<1>11. CASE ReattributeSource \/ ReattributeEvidence
  <2>1. deps' = deps /\ \E qs : Unseen(qs)
    BY <1>11 DEF ReattributeSource, ReattributeEvidence, SourceGraphChange
  <2>2. TypeInv'
    BY <1>0, <1>11, ReattributeSourceTypes, ReattributeEvidenceTypes
  <2> QED
    BY <1>0, <2>1, <2>2, UnseenFrame, CommandsKeepEdges DEF DraftFrame
<1>12. CASE \/ \E p \in Pointers : PlanPointer(p[1], p[2])
            \/ \E t \in Attributions : PlanLink(t[1], t[2], t[3])
            \/ DropPlan
  <2>1. deps' = deps /\ draft' = draft
    BY <1>12 DEF PlanPointer, PlanLink, DropPlan, dataVars
  <2> QED
    BY <1>0, <1>12, <2>1, PlanTypes, CommandsKeepEdges
<1>13. CASE \/ \E k \in Claims, id \in Ids : ResolveCounter(k, id)
            \/ \E r \in resolved : InvalidateResolution(r)
  <2>1. deps' = deps /\ \E qs : Unseen(qs)
    BY <1>0, <1>13, ResolutionsChanged
  <2> QED
    BY <1>0, <1>13, <2>1, ResolutionTypes, UnseenFrame, CommandsKeepEdges DEF DraftFrame
<1>14. CASE UNCHANGED memVars
  BY <1>14 DEF memVars, dataVars, verdictVars, MemInv, TypeInv, RowsInv, CorrInv, PlanInv, HeadsInv, OthersInv,
               DraftInv, DraftShape, StagedFor, WorkInv
<1> QED
  BY <1>1, <1>2, <1>3, <1>4, <1>5, <1>6, <1>7, <1>8, <1>9, <1>10, <1>11, <1>12, <1>13, <1>14
     DEF Next, ReattributeCommand

LEMMA InitMemInv == Init => MemInv
<1> SUFFICES ASSUME Init PROVE MemInv
  OBVIOUS
<1>1. Pairs(deps) = {} /\ Pairs(deps \cup draft.edges) = {}
  BY DEF Init, Pairs, NoDraft
<1>2. \A k \in Claims : k \notin ReachableFrom(k, {})
  <2>1. \A k \in Claims : ReachableFrom(k, {}) \subseteq {}
    BY ReachableIsLeast
  <2> QED
    BY <2>1
<1> QED
  BY <1>1, <1>2, InitTypes DEF MemInv, Acyclic

LEMMA MemInvariant == Spec => []MemInv
BY InitMemInv, NextMemInv, PTL DEF Spec

\* The tables keep their types and their unique key, and no page is taken for
\* its own origin unless a mirror's reading made it so (apply_claim_staging).
THEOREM MemoryTypes == Spec => []MemoryTypeOK
<1>1. MemInv => MemoryTypeOK
  BY TypesFollow DEF MemInv
<1> QED
  BY <1>1, MemInvariant, PTL

\* However many sessions propose dependencies, together or one after the
\* other, no claims come to support one another (find_evidential_cycles).
THEOREM NoMutualSupport == Spec => []DependenciesAcyclic
<1>1. MemInv => DependenciesAcyclic
  BY DEF MemInv, Acyclic, DependenciesAcyclic
<1> QED
  BY <1>1, MemInvariant, PTL

-----------------------------------------------------------------------------
(* Verdicts.                                                               *)

\* The graph that an assessment loads: its nodes, and the merges among them.
GraphOf(rs, pt, mg) == SourceGroups(rs, pt, {m \in mg : m \subseteq Nodes(rs, pt)})

\* The verdict as a function of what it is read from.
VerdictOn(k, counted, groups, envs, rz, scope, dated) ==
    [scope |-> scope, verdict |-> Evaluate(k, counted, groups, envs, rz, scope, dated),
     blocks |-> {groups[s] \cap MembersOf(counted) : s \in MembersOf(counted)},
     links |-> {e.id : e \in counted},
     envs |-> envs]

MergesOf(cr) == {{x.from, x.to} : x \in {x \in cr : x.valid}}
ResolvedOf(k, rz) == {r.id : r \in {r \in rz : r.claim = k}}
EnvsOf(rs) == {e.env : e \in rs} \ {None}

\* InReach for given rows: no page that is only a parent can be pointed elsewhere or merged.
Outside(k, rs, rv, pt) == Nodes(Counted(k, rs, rv), pt) \ MembersOf(rs)
Reach(k, rs, rv, pt, cr) ==
    /\ \A p \in Pointers : p[1] \notin Outside(k, rs, rv, pt)
    /\ \A x \in cr : ~({x.from, x.to} \subseteq Outside(k, rs, rv, pt))

\* Assessment a is the one that the rows rs of claim k give.
Sound(k, rs, rv, pt, cr, rz, a, dated) ==
    /\ a.envs = EnvsOf(rs)
    /\ Reach(k, rs, rv, pt, cr) =>
          a = VerdictOn(k, Counted(k, rs, rv), GraphOf(Counted(k, rs, rv), pt, MergesOf(cr)), EnvsOf(rs),
                        ResolvedOf(k, rz), a.scope, dated)

SoundOn(k, rs, a, dated) == Sound(k, rs, revoked, pointer, corr, resolved, a, dated)

\* A step leaves what an assessment of the rows rs of claim k is read from.
KeepsOn(k, rs) ==
    \A a, dated : Sound(k, rs, revoked, pointer, corr, resolved, a, dated) =>
                     Sound(k, rs, revoked', pointer', corr', resolved', a, dated)

(* The newest assessment of a current claim is sound, and so is the one    *)
(* that an open transaction will write, but for what was missed.           *)
HeadsSound ==
    \A k \in Claims : head[k] = "current" /\ k \notin overtaken => SoundOn(k, rows[k], assessed[k], asOf[k] # 0)

DraftSound ==
    \A k \in draft.ks : draft.saw[k] # None /\ k \notin draft.missed =>
        SoundOn(k, DraftRows(k), draft.found[k], draft.scope[k].day # 0)

WorkSound == \A k \in work.ks : ~work.missed => SoundOn(k, rows[k], work.found, asOf[k] # 0)

VerdictsInv == HeadsSound /\ DraftSound /\ WorkSound

LEMMA VerdictOfRows ==
  ASSUME NEW k, NEW rs, NEW scope, NEW dated
  PROVE  Assess(k, rs, scope, dated) =
            VerdictOn(k, Counted(k, rs, revoked), GraphOf(Counted(k, rs, revoked), pointer, MergesOf(corr)),
                      EnvsOf(rs), ResolvedOf(k, resolved), scope, dated)
BY Zenon DEF Assess, AssessWithout, VerdictOn, GraphOf, MergesAmong, Merges, MergesOf, ResolvedOf, EnvsOf

\* A new assessment is sound.
LEMMA AssessmentIsSound ==
  ASSUME NEW k, NEW rs, NEW scope, NEW dated
  PROVE  SoundOn(k, rs, Assess(k, rs, scope, dated), dated)
<1> DEFINE a == Assess(k, rs, scope, dated)
<1>1. a.scope = scope /\ a.envs = EnvsOf(rs)
  BY DEF Assess, AssessWithout, EnvsOf
<1>2. a = VerdictOn(k, Counted(k, rs, revoked), GraphOf(Counted(k, rs, revoked), pointer, MergesOf(corr)),
                    EnvsOf(rs), ResolvedOf(k, resolved), scope, dated)
  BY VerdictOfRows
<1> HIDE DEF a
<1>3. SoundOn(k, rs, a, dated)
  BY <1>1, <1>2, Zenon DEF SoundOn, Sound
<1> QED
  BY <1>3 DEF a

LEMMA VerdictsFollow == VerdictsInv => CurrentVerdictsHold
<1> SUFFICES ASSUME VerdictsInv, NEW k \in Claims, head[k] = "current", InReach(k), k \notin overtaken
             PROVE  assessed[k] = Assess(k, rows[k], assessed[k].scope, asOf[k] # 0)
  BY DEF CurrentVerdictsHold
<1>1. SoundOn(k, rows[k], assessed[k], asOf[k] # 0)
  BY DEF VerdictsInv, HeadsSound
<1>2. Reach(k, rows[k], revoked, pointer, corr)
  BY Zenon DEF InReach, Reach, Outside, SourcesOf
<1> QED
  BY <1>1, <1>2, VerdictOfRows, Zenon DEF SoundOn, Sound

\* An assessment stays sound while nothing that it was read from changes.
LEMMA Keeping ==
  ASSUME NEW k, NEW rs, Counted(k, rs, revoked') = Counted(k, rs, revoked),
         Reach(k, rs, revoked', pointer', corr') =>
            /\ Reach(k, rs, revoked, pointer, corr)
            /\ GraphOf(Counted(k, rs, revoked), pointer', MergesOf(corr')) =
                  GraphOf(Counted(k, rs, revoked), pointer, MergesOf(corr)),
         ResolvedOf(k, resolved') = ResolvedOf(k, resolved)
  PROVE  KeepsOn(k, rs)
<1> SUFFICES ASSUME NEW a, NEW dated, Sound(k, rs, revoked, pointer, corr, resolved, a, dated)
             PROVE  Sound(k, rs, revoked', pointer', corr', resolved', a, dated)
  BY Zenon DEF KeepsOn
<1>1. a.envs = EnvsOf(rs)
  BY DEF Sound
<1>2. ASSUME Reach(k, rs, revoked', pointer', corr')
      PROVE  a = VerdictOn(k, Counted(k, rs, revoked'), GraphOf(Counted(k, rs, revoked'), pointer', MergesOf(corr')),
                           EnvsOf(rs), ResolvedOf(k, resolved'), a.scope, dated)
  <2>1. a = VerdictOn(k, Counted(k, rs, revoked), GraphOf(Counted(k, rs, revoked), pointer, MergesOf(corr)),
                      EnvsOf(rs), ResolvedOf(k, resolved), a.scope, dated)
    BY <1>2, Zenon DEF Sound
  <2>2. GraphOf(Counted(k, rs, revoked'), pointer', MergesOf(corr')) =
           GraphOf(Counted(k, rs, revoked), pointer, MergesOf(corr))
    BY <1>2, Zenon
  <2> QED
    BY <2>1, <2>2, Zenon
<1> QED
  BY <1>1, <1>2, Zenon DEF Sound

LEMMA KeepingAll == ASSUME NEW k, NEW rs, UNCHANGED <<revoked, pointer, corr, resolved>> PROVE KeepsOn(k, rs)
BY Zenon DEF KeepsOn

(* Merges that appear or go among the sources ss: a claim without a link   *)
(* on these sources could only have both ends of such a merge as parents   *)
(* of its pages, which Reach excludes.                                     *)
LEMMA MergeKeeping ==
  ASSUME UNCHANGED <<revoked, resolved, pointer>>, NEW ss,
         \A x \in corr : \E y \in corr' : y.from = x.from /\ y.to = x.to,
         \A m \in MergesOf(corr) \cup MergesOf(corr') :
            \/ m \in MergesOf(corr) /\ m \in MergesOf(corr')
            \/ m \subseteq ss /\ \E x \in corr' : m = {x.from, x.to},
         NEW k, NEW rs, Off(rs, ss)
  PROVE  KeepsOn(k, rs)
<1> DEFINE nodes == Nodes(Counted(k, rs, revoked), pointer)
<1>1. MembersOf(rs) \cap ss = {}
  BY DEF Off, MembersOf
<1>2. ASSUME Reach(k, rs, revoked', pointer', corr')
      PROVE  /\ Reach(k, rs, revoked, pointer, corr)
             /\ GraphOf(Counted(k, rs, revoked), pointer', MergesOf(corr')) =
                   GraphOf(Counted(k, rs, revoked), pointer, MergesOf(corr))
  <2>1. /\ \A p \in Pointers : p[1] \notin nodes \ MembersOf(rs)
        /\ \A x \in corr' : ~({x.from, x.to} \subseteq nodes \ MembersOf(rs))
    BY <1>2 DEF Reach, Outside
  <2>2. Reach(k, rs, revoked, pointer, corr)
    BY <2>1 DEF Reach, Outside
  <2> HIDE DEF nodes
  <2>3. \A m \in MergesOf(corr) \cup MergesOf(corr') : m \subseteq nodes => m \in MergesOf(corr) /\ m \in MergesOf(corr')
    <3>1. SUFFICES ASSUME NEW m \in MergesOf(corr) \cup MergesOf(corr'), m \subseteq nodes, m \subseteq ss,
                          NEW x \in corr', m = {x.from, x.to}
                   PROVE  FALSE
      OBVIOUS
    <3>2. m \subseteq nodes \ MembersOf(rs)
      BY <1>1, <3>1
    <3> QED
      BY <2>1, <3>1, <3>2
  <2>4. {m \in MergesOf(corr') : m \subseteq nodes} = {m \in MergesOf(corr) : m \subseteq nodes}
    BY <2>3
  <2> QED
    BY <2>2, <2>4, Zenon DEF GraphOf, nodes
<1>3. Counted(k, rs, revoked') = Counted(k, rs, revoked) /\ ResolvedOf(k, resolved') = ResolvedOf(k, resolved)
  OBVIOUS
<1> QED
  BY <1>2, <1>3, Keeping

\* The links revoked of other claims do not count.
LEMMA RevocationKeeping ==
  ASSUME UNCHANGED <<pointer, corr, resolved>>, NEW k, NEW rs, \A id : <<k, id>> \in revoked' <=> <<k, id>> \in revoked
  PROVE  KeepsOn(k, rs)
<1>1. Counted(k, rs, revoked') = Counted(k, rs, revoked)
  BY DEF Counted
<1>2. Reach(k, rs, revoked', pointer', corr') => Reach(k, rs, revoked, pointer, corr)
  BY <1>1, Zenon DEF Reach, Outside
<1> QED
  BY <1>1, <1>2, Keeping

LEMMA ResolutionKeeping ==
  ASSUME UNCHANGED <<revoked, pointer, corr>>, NEW k, NEW rs,
         {r \in resolved' : r.claim = k} = {r \in resolved : r.claim = k}
  PROVE  KeepsOn(k, rs)
<1>1. ResolvedOf(k, resolved') = ResolvedOf(k, resolved)
  BY Zenon DEF ResolvedOf
<1> QED
  BY <1>1, Keeping

\* The sources of the counted rows and the parents they name are sources.
LEMMA NodesAreSources ==
  ASSUME NEW rs, NEW pt \in [Sources -> Sources \cup {None}],
         \A e \in rs : e.source \in Sources \cup {None} /\ e.attr.parent \in Sources \cup {None}
  PROVE  /\ MembersOf(rs) \subseteq Sources /\ Nodes(rs, pt) \subseteq Sources
         /\ MembersOf(rs) \subseteq Nodes(rs, pt)
<1>1. MembersOf(rs) \subseteq Sources
  BY DEF MembersOf
<1>2. \A s : Attributed(rs, s) \subseteq Sources
  BY DEF Attributed
<1>3. \A s \in Sources : EffectiveParent(rs, pt, s) \in Sources \cup {None}
  <2> TAKE s \in Sources
  <2>1. CASE Cardinality(Attributed(rs, s)) = 1
    <3>1. Attributed(rs, s) # {}
      BY <2>1, FS_EmptySet
    <3> QED
      BY <1>2, <2>1, <3>1 DEF EffectiveParent
  <2> QED
    BY <2>1 DEF EffectiveParent
<1>4. None \notin MembersOf(rs)
  BY DEF MembersOf
<1> QED
  BY <1>1, <1>3, <1>4 DEF Nodes

(* The pointer of a page is read in a claim's graph only where the page is *)
(* a node of it.                                                           *)
LEMMA PointerOffGraph ==
  ASSUME NEW rs, NEW mg, NEW pt, NEW qt,
         \A n \in MembersOf(rs) \cup Nodes(rs, qt) : pt[n] = qt[n]
  PROVE  Nodes(rs, pt) = Nodes(rs, qt) /\ GraphOf(rs, pt, mg) = GraphOf(rs, qt, mg)
<1>1. \A n \in MembersOf(rs) \cup Nodes(rs, qt) : EffectiveParent(rs, pt, n) = EffectiveParent(rs, qt, n)
  BY DEF EffectiveParent
<1>2. Nodes(rs, pt) = Nodes(rs, qt)
  <2>1. \A n \in MembersOf(rs) : pt[n] = qt[n] /\ EffectiveParent(rs, pt, n) = EffectiveParent(rs, qt, n)
    BY <1>1
  <2> QED
    BY <2>1 DEF Nodes
<1>3. [s \in Nodes(rs, pt) |-> EffectiveParent(rs, pt, s)] = [s \in Nodes(rs, qt) |-> EffectiveParent(rs, qt, s)]
  BY <1>1, <1>2
<1> QED
  BY <1>2, <1>3, Zenon DEF GraphOf, SourceGroups


\* A pointer written for the sources ss, of which the rows have none.
LEMMA PointerKeeping ==
  ASSUME TypeInv, UNCHANGED <<revoked, corr, resolved>>, pointer' \in [Sources -> Sources \cup {None}],
         NEW s, NEW parent, <<s, parent>> \in Pointers, NEW ss, ss \subseteq {s},
         \A x \in Sources \ ss : pointer'[x] = pointer[x],
         NEW k, NEW rs \in SUBSET Row, Off(rs, ss)
  PROVE  KeepsOn(k, rs)
<1> DEFINE counted == Counted(k, rs, revoked)
<1>1. ASSUME Reach(k, rs, revoked', pointer', corr')
      PROVE  /\ Reach(k, rs, revoked, pointer, corr)
             /\ GraphOf(counted, pointer', MergesOf(corr')) = GraphOf(counted, pointer, MergesOf(corr))
  <2>1. s \notin Nodes(counted, pointer') \ MembersOf(rs)
    <3>1. \A p \in Pointers : p[1] \notin Nodes(counted, pointer') \ MembersOf(rs)
      BY <1>1 DEF Reach, Outside
    <3> DEFINE q == <<s, parent>>
    <3>2. q \in Pointers /\ q[1] = s
      OBVIOUS
    <3> HIDE DEF q, counted
    <3> QED
      BY <3>1, <3>2
  <2>2. MembersOf(counted) \subseteq MembersOf(rs) /\ MembersOf(rs) \cap ss = {}
    BY DEF Counted, MembersOf, Off
  <2>3. (MembersOf(counted) \cup Nodes(counted, pointer')) \cap ss = {}
    BY <2>1, <2>2
  <2>4. MembersOf(counted) \cup Nodes(counted, pointer') \subseteq Sources
    <3>1. \A e \in rs : e.source \in Sources \cup {None} /\ (e.attr = NoAttr \/ e.attr.parent \in Sources)
      BY AttrsHaveParents DEF Row
    <3>2. \A e \in counted : e.source \in Sources \cup {None} /\ e.attr.parent \in Sources \cup {None}
      BY <3>1 DEF Counted, NoAttr
    <3> QED
      BY <3>2, NodesAreSources
  <2>5. \A n \in MembersOf(counted) \cup Nodes(counted, pointer') : pointer[n] = pointer'[n]
    BY <2>3, <2>4
  <2> HIDE DEF counted
  <2>6. /\ Nodes(counted, pointer) = Nodes(counted, pointer')
        /\ GraphOf(counted, pointer, MergesOf(corr)) = GraphOf(counted, pointer', MergesOf(corr))
    BY <2>5, PointerOffGraph
  <2>7. Reach(k, rs, revoked, pointer, corr)
    BY <1>1, <2>6, Zenon DEF Reach, Outside, counted
  <2> QED
    BY <2>6, <2>7
<1>2. Counted(k, rs, revoked') = Counted(k, rs, revoked) /\ ResolvedOf(k, resolved') = ResolvedOf(k, resolved)
  OBVIOUS
<1> QED
  BY <1>1, <1>2, Keeping

-----------------------------------------------------------------------------
(* The steps keep the verdicts.                                            *)

\* A step that changes nothing an assessment is read from, nor any head or transaction.
LEMMA VerdictsKept ==
  ASSUME VerdictsInv,
         UNCHANGED <<rows, revoked, pointer, corr, resolved, asOf, assessed, head, overtaken, draft, work>>
  PROVE  VerdictsInv'
BY Zenon DEF VerdictsInv, HeadsSound, DraftSound, WorkSound, SoundOn, DraftRows

(* An operator's command: what it can move has left "current" or is marked *)
(* as missed, and what it cannot move stays sound.                         *)
LEMMA CommandVerdicts ==
  ASSUME VerdictsInv, Command, DraftFrame, UNCHANGED <<asOf, assessed, overtaken>>, work.ks = {},
         \A k \in Claims : head'[k] = "current" =>
            head[k] = "current" /\ rows'[k] = rows[k] /\ KeepsOn(k, rows[k]),
         \A k \in draft.ks : draft.saw[k] # None /\ k \notin draft'.missed =>
            rows'[k] = rows[k] /\ KeepsOn(k, DraftRows(k))
  PROVE  VerdictsInv'
<1>1. HeadsSound'
  <2> SUFFICES ASSUME NEW k \in Claims, head'[k] = "current", k \notin overtaken'
               PROVE  SoundOn(k, rows[k], assessed[k], asOf[k] # 0)'
    BY DEF HeadsSound
  <2>1. head[k] = "current" /\ rows'[k] = rows[k] /\ KeepsOn(k, rows[k])
    OBVIOUS
  <2>2. SoundOn(k, rows[k], assessed[k], asOf[k] # 0)
    BY <2>1 DEF VerdictsInv, HeadsSound
  <2>3. assessed'[k] = assessed[k] /\ asOf'[k] = asOf[k]
    OBVIOUS
  <2>4. Sound(k, rows[k], revoked', pointer', corr', resolved', assessed[k], asOf[k] # 0)
    BY <2>1, <2>2, Zenon DEF KeepsOn, SoundOn
  <2> QED
    BY <2>1, <2>3, <2>4, Zenon DEF SoundOn
<1>2. DraftSound'
  <2> SUFFICES ASSUME NEW k \in draft'.ks, draft'.saw[k] # None, k \notin draft'.missed
               PROVE  SoundOn(k, DraftRows(k), draft.found[k], draft.scope[k].day # 0)'
    BY DEF DraftSound
  <2>1. /\ k \in draft.ks /\ draft.saw[k] # None /\ k \notin draft.missed
        /\ draft'.found = draft.found /\ draft'.scope = draft.scope /\ draft'.rows = draft.rows
    BY DEF DraftFrame
  <2>2. rows'[k] = rows[k] /\ KeepsOn(k, DraftRows(k))
    BY <2>1
  <2>3. SoundOn(k, DraftRows(k), draft.found[k], draft.scope[k].day # 0)
    BY <2>1 DEF VerdictsInv, DraftSound
  <2>4. DraftRows(k)' = DraftRows(k)
    BY <2>1, <2>2, Zenon DEF DraftRows
  <2>5. Sound(k, DraftRows(k), revoked', pointer', corr', resolved', draft.found[k], draft.scope[k].day # 0)
    BY <2>2, <2>3, Zenon DEF KeepsOn, SoundOn
  <2> QED
    BY <2>1, <2>4, <2>5, Zenon DEF SoundOn
<1>3. WorkSound'
  <2>1. work'.ks = {}
    BY DEF Command
  <2> QED
    BY <2>1 DEF WorkSound
<1> QED
  BY <1>1, <1>2, <1>3 DEF VerdictsInv

\* A command waits for the worker.
LEMMA NoJobOpen == ASSUME Command PROVE work.ks = {}
BY DEF Command, NoWork

\* What is left after a change of the sources ss is off these sources.
LEMMA SourceChangeLeaves ==
  ASSUME TypeInv, NEW ss, SourceGraphChange(ss), UNCHANGED <<asOf, assessed, overtaken>>
  PROVE  /\ DraftFrame
         /\ \A k \in Claims : head'[k] = "current" => head[k] = "current" /\ Off(rows[k], ss)
         /\ \A k \in draft.ks : draft.saw[k] # None /\ k \notin draft'.missed => Off(DraftRows(k), ss)
<1> DEFINE qs == {k \in draft.ks : \E e \in DraftRows(k) : e.source \in ss}
<1>1. Unseen(qs) /\ Requeue(Touching(ss)) /\ Touching(ss) \in SUBSET Claims
  BY SourceChange
<1>2. \A k \in Claims : head'[k] = "current" => head[k] = "current" /\ k \notin Touching(ss)
  BY <1>1, RequeueTakesHeads DEF TypeInv
<1>3. \A k \in Claims : k \notin Touching(ss) => Off(rows[k], ss)
  BY DEF Touching, Off
<1>4. \A k \in draft.ks : k \notin qs => Off(DraftRows(k), ss)
  BY DEF Off
<1> HIDE DEF qs
<1>5. DraftFrame /\ \A k \in qs \cap draft.ks : draft.saw[k] # None => k \in draft'.missed
  BY <1>1, UnseenFrame DEF TypeInv
<1> QED
  BY <1>2, <1>3, <1>4, <1>5

\* A change of the sources ss that leaves the rows.
LEMMA SourceVerdicts ==
  ASSUME VerdictsInv, TypeInv, Command, NEW ss, SourceGraphChange(ss),
         UNCHANGED <<rows, asOf, assessed, overtaken>>,
         \A k \in Claims : \A rs \in SUBSET Row : Off(rs, ss) => KeepsOn(k, rs)
  PROVE  VerdictsInv'
<1>1. /\ DraftFrame
      /\ \A k \in Claims : head'[k] = "current" => head[k] = "current" /\ Off(rows[k], ss)
      /\ \A k \in draft.ks : draft.saw[k] # None /\ k \notin draft'.missed => Off(DraftRows(k), ss)
  BY SourceChangeLeaves
<1>2. \A k \in Claims : rows[k] \in SUBSET Row
  BY DEF TypeInv, RowsInv
<1>3. \A k \in draft.ks : k \in Claims /\ DraftRows(k) \in SUBSET Row
  BY DraftRowsProper DEF TypeInv, DraftInv
<1>4. \A k \in Claims : head'[k] = "current" => head[k] = "current" /\ rows'[k] = rows[k] /\ KeepsOn(k, rows[k])
  BY <1>1, <1>2
<1>5. \A k \in draft.ks : draft.saw[k] # None /\ k \notin draft'.missed =>
         rows'[k] = rows[k] /\ KeepsOn(k, DraftRows(k))
  BY <1>1, <1>3
<1> QED
  BY <1>1, <1>4, <1>5, NoJobOpen, CommandVerdicts

\* A cascade over named claims.
LEMMA CascadeVerdicts ==
  ASSUME VerdictsInv, TypeInv, Command, NEW ks \in SUBSET Claims, Requeue(ks), Unseen(ks),
         UNCHANGED <<rows, asOf, assessed, overtaken>>,
         \A k \in Claims \ ks : \A rs : KeepsOn(k, rs)
  PROVE  VerdictsInv'
<1>1. DraftFrame /\ \A k \in ks \cap draft.ks : draft.saw[k] # None => k \in draft'.missed
  BY UnseenFrame DEF TypeInv
<1>2. \A k \in Claims : head'[k] = "current" => head[k] = "current" /\ k \notin ks
  BY RequeueTakesHeads DEF TypeInv
<1>3. draft.ks \subseteq Claims
  BY DEF TypeInv, DraftInv
<1>4. \A k \in Claims : head'[k] = "current" => head[k] = "current" /\ rows'[k] = rows[k] /\ KeepsOn(k, rows[k])
  BY <1>2
<1>5. \A k \in draft.ks : draft.saw[k] # None /\ k \notin draft'.missed =>
         rows'[k] = rows[k] /\ KeepsOn(k, DraftRows(k))
  BY <1>1, <1>3
<1> QED
  BY <1>1, <1>4, <1>5, NoJobOpen, CommandVerdicts

LEMMA DisputeVerdicts ==
  ASSUME VerdictsInv, TypeInv, NEW actor \in Actors, NEW j \in Claims, NEW p, NEW r,
         DisputeClaim(actor, j, p, r)
  PROVE  VerdictsInv'
<1> DEFINE primary == RowsAt(SourcesOf(j) \cup Producers(j), p)
           retelling == RowsAt(SourcesOf(j), r)
           pairs == retelling \X primary
           ss == primary \cup retelling
<1>1. /\ primary \cap retelling = {} /\ corr' = Disputed(actor, j, pairs)
      /\ SourceGraphChange(ss) /\ Command
      /\ UNCHANGED <<rows, revoked, resolved, pointer, asOf, assessed, overtaken>>
  BY DEF DisputeClaim
<1>2. pairs \in SUBSET (Sources \X Sources) /\ \A q \in pairs : q[1] # q[2]
  BY <1>1, GraphOfSources DEF RowsAt
<1>3. \A a, c : <<a, c>> \in pairs => {a, c} \subseteq ss
  OBVIOUS
<1> HIDE DEF pairs, ss
<1>4. /\ \A x \in corr : \E y \in corr' : y.from = x.from /\ y.to = x.to
      /\ \A x \in corr : x.valid => \E y \in corr' : y.from = x.from /\ y.to = x.to /\ y.valid
      /\ \A y \in corr' : y \in corr \/ <<y.from, y.to>> \in pairs
  BY <1>1, <1>2, DisputedCorrections DEF TypeInv
<1>5. \A m \in MergesOf(corr) : m \in MergesOf(corr')
  BY <1>4 DEF MergesOf
<1>6. \A m \in MergesOf(corr') : m \in MergesOf(corr) \/ (m \subseteq ss /\ \E x \in corr' : m = {x.from, x.to})
  <2>1. SUFFICES ASSUME NEW y \in corr', y.valid
                 PROVE  \/ {y.from, y.to} \in MergesOf(corr)
                        \/ {y.from, y.to} \subseteq ss /\ \E x \in corr' : {y.from, y.to} = {x.from, x.to}
    BY DEF MergesOf
  <2>2. CASE y \in corr
    BY <2>1, <2>2 DEF MergesOf
  <2>3. CASE <<y.from, y.to>> \in pairs
    BY <1>3, <2>3
  <2> QED
    BY <1>4, <2>2, <2>3
<1>7. \A m \in MergesOf(corr) \cup MergesOf(corr') :
         \/ m \in MergesOf(corr) /\ m \in MergesOf(corr')
         \/ m \subseteq ss /\ \E x \in corr' : m = {x.from, x.to}
  BY <1>5, <1>6
<1>8. \A k \in Claims : \A rs \in SUBSET Row : Off(rs, ss) => KeepsOn(k, rs)
  BY <1>1, <1>4, <1>7, MergeKeeping
<1>9. SourceGraphChange(ss) /\ Command /\ UNCHANGED <<rows, asOf, assessed, overtaken>>
  BY <1>1
<1> QED
  BY <1>8, <1>9, SourceVerdicts

LEMMA CancelDisputeVerdicts ==
  ASSUME VerdictsInv, TypeInv, NEW j \in Claims, CancelDispute(j)
  PROVE  VerdictsInv'
<1>1. PICK x \in CorrectionsOf(j) :
        LET gone == SamePage(j, x) IN
        /\ corr' = {IF y \in gone THEN [y EXCEPT !.valid = FALSE] ELSE y : y \in corr}
        /\ SourceGraphChange({y.from : y \in gone} \cup {y.to : y \in gone})
        /\ UNCHANGED <<rows, revoked, resolved, pointer, asOf, assessed, overtaken>>
  BY DEF CancelDispute
<1> DEFINE gone == SamePage(j, x)
           ss == {y.from : y \in gone} \cup {y.to : y \in gone}
<1>2. gone \in SUBSET corr
  BY DEF SamePage, CorrectionsOf
<1>3. /\ \A y \in corr : \E z \in corr' : z.from = y.from /\ z.to = y.to
      /\ \A y \in corr \ gone : y \in corr'
      /\ \A y \in corr' : y.valid => y \in corr
  BY <1>1, <1>2, CancelledCorrections DEF TypeInv
<1>4. SourceGraphChange(ss) /\ Command /\ UNCHANGED <<rows, revoked, resolved, pointer, asOf, assessed, overtaken>>
  BY <1>1 DEF CancelDispute
<1>5. \A y \in gone : {y.from, y.to} \subseteq ss
  OBVIOUS
<1> HIDE DEF gone, ss
<1>6. \A m \in MergesOf(corr') : m \in MergesOf(corr)
  BY <1>3 DEF MergesOf
<1>7. \A m \in MergesOf(corr) : m \in MergesOf(corr') \/ (m \subseteq ss /\ \E z \in corr' : m = {z.from, z.to})
  <2> TAKE m \in MergesOf(corr)
  <2>1. PICK y \in corr : y.valid /\ m = {y.from, y.to}
    BY DEF MergesOf
  <2>2. CASE y \notin gone
    BY <1>3, <2>1, <2>2 DEF MergesOf
  <2>3. CASE y \in gone
    <3>1. PICK z \in corr' : z.from = y.from /\ z.to = y.to
      BY <1>3
    <3> QED
      BY <1>5, <2>1, <2>3, <3>1
  <2> QED
    BY <2>2, <2>3
<1>8. \A m \in MergesOf(corr) \cup MergesOf(corr') :
         \/ m \in MergesOf(corr) /\ m \in MergesOf(corr')
         \/ m \subseteq ss /\ \E z \in corr' : m = {z.from, z.to}
  BY <1>6, <1>7
<1>9. \A k \in Claims : \A rs \in SUBSET Row : Off(rs, ss) => KeepsOn(k, rs)
  BY <1>3, <1>4, <1>8, MergeKeeping
<1>10. UNCHANGED <<rows, asOf, assessed, overtaken>>
  BY <1>4
<1> QED
  BY <1>4, <1>9, <1>10, SourceVerdicts

LEMMA RevokeVerdicts ==
  ASSUME VerdictsInv, TypeInv, NEW pairs \in SUBSET ValueAbsent, NEW allow,
         RevokeLinks(pairs, allow) \/ CancelRevocations(pairs)
  PROVE  VerdictsInv'
<1>1. PICK ks \in SUBSET Claims :
         /\ Requeue(ks) /\ Unseen(ks)
         /\ \A k \in Claims \ ks : \A id : <<k, id>> \in revoked' <=> <<k, id>> \in revoked
  BY RevocationsChanged
<1>2. Command /\ UNCHANGED <<rows, corr, resolved, pointer, asOf, assessed, overtaken>>
  BY RevocationsChanged
<1>3. \A k \in Claims \ ks : \A rs : KeepsOn(k, rs)
  BY <1>1, <1>2, RevocationKeeping
<1> QED
  BY <1>1, <1>2, <1>3, CascadeVerdicts

LEMMA ResolutionVerdicts ==
  ASSUME VerdictsInv, TypeInv,
         \/ \E k \in Claims, id \in Ids : ResolveCounter(k, id)
         \/ \E r \in resolved : InvalidateResolution(r)
  PROVE  VerdictsInv'
<1>1. PICK j \in Claims :
         /\ Requeue({j}) /\ Unseen({j})
         /\ \A k \in Claims \ {j} : {r \in resolved' : r.claim = k} = {r \in resolved : r.claim = k}
  BY ResolutionsChanged
<1>2. Command /\ UNCHANGED <<rows, revoked, corr, pointer, asOf, assessed, overtaken>>
  BY ResolutionsChanged
<1>3. \A k \in Claims \ {j} : \A rs : KeepsOn(k, rs)
  BY <1>1, <1>2, ResolutionKeeping
<1>4. {j} \in SUBSET Claims
  OBVIOUS
<1> QED
  BY <1>1, <1>2, <1>3, <1>4, CascadeVerdicts

LEMMA PreviewVerdicts == ASSUME VerdictsInv, TypeInv, NEW ks, ApplyPreview(ks) PROVE VerdictsInv'
<1> DEFINE ss == UNION {SourcesOf(k) : k \in ks}
<1>1. SourceGraphChange(ss) /\ Command /\ UNCHANGED <<rows, revoked, corr, resolved, pointer, asOf, assessed, overtaken>>
  BY DEF ApplyPreview
<1> HIDE DEF ss
<1>2. \A k \in Claims : \A rs \in SUBSET Row : Off(rs, ss) => KeepsOn(k, rs)
  BY <1>1, KeepingAll
<1> QED
  BY <1>1, <1>2, SourceVerdicts

LEMMA ReattributeSourceVerdicts == ASSUME VerdictsInv, TypeInv, ReattributeSource PROVE VerdictsInv'
<1>1. PICK ss : /\ ss \subseteq {plan.source} /\ SourceGraphChange(ss)
                /\ \A s \in Sources \ ss : pointer'[s] = pointer[s]
  BY PointerWritten
<1>2. /\ UNCHANGED <<rows, revoked, corr, resolved, asOf, assessed, overtaken>> /\ Command
      /\ pointer' \in [Sources -> Sources \cup {None}] /\ <<plan.source, plan.parent>> \in Pointers
  BY PointerWritten
<1>3. \A k \in Claims : \A rs \in SUBSET Row : Off(rs, ss) => KeepsOn(k, rs)
  BY <1>1, <1>2, PointerKeeping
<1> QED
  BY <1>1, <1>2, <1>3, SourceVerdicts

LEMMA ReattributeEvidenceVerdicts == ASSUME VerdictsInv, TypeInv, ReattributeEvidence PROVE VerdictsInv'
<1>1. PICK ss : /\ SourceGraphChange(ss)
                /\ \A k \in Claims : Off(rows[k], ss) => rows'[k] = rows[k]
                /\ \A k \in draft.ks : Off(DraftRows(k), ss) => rows'[k] = rows[k]
  BY LinkWritten
<1>2. Command /\ UNCHANGED <<revoked, corr, resolved, pointer, asOf, assessed, overtaken>>
  BY LinkWritten
<1>3. /\ DraftFrame
      /\ \A k \in Claims : head'[k] = "current" => head[k] = "current" /\ Off(rows[k], ss)
      /\ \A k \in draft.ks : draft.saw[k] # None /\ k \notin draft'.missed => Off(DraftRows(k), ss)
  BY <1>1, <1>2, SourceChangeLeaves
<1>4. \A k, rs : KeepsOn(k, rs)
  BY <1>2, KeepingAll
<1>5. \A k \in Claims : head'[k] = "current" => head[k] = "current" /\ rows'[k] = rows[k] /\ KeepsOn(k, rows[k])
  BY <1>1, <1>3, <1>4
<1>6. \A k \in draft.ks : draft.saw[k] # None /\ k \notin draft'.missed =>
         rows'[k] = rows[k] /\ KeepsOn(k, DraftRows(k))
  BY <1>1, <1>3, <1>4
<1> QED
  BY <1>2, <1>3, <1>5, <1>6, NoJobOpen, CommandVerdicts

-----------------------------------------------------------------------------
(* Sessions, the worker and activations.                                   *)

LEMMA StageVerdicts == ASSUME VerdictsInv, NEW b \in Batches, StageBatch(b) PROVE VerdictsInv'
<1>1. UNCHANGED <<dataVars, verdictVars, work>>
  BY DEF StageBatch
<1>2. \A k \in draft'.ks : draft'.saw[k] = None
  <2> DEFINE ks == AcceptedClaims(b)
             sw == [k \in ks |-> None]
  <2>1. draft'.ks = ks /\ draft'.saw = sw
    BY DEF StageBatch
  <2> QED
    BY <2>1
<1>3. HeadsSound' /\ WorkSound'
  BY <1>1, Zenon DEF VerdictsInv, HeadsSound, WorkSound, SoundOn, dataVars, verdictVars
<1>4. DraftSound'
  BY <1>2 DEF DraftSound
<1> QED
  BY <1>3, <1>4 DEF VerdictsInv

LEMMA AssessVerdicts == ASSUME VerdictsInv, TypeInv, NEW k, AssessStaged(k) PROVE VerdictsInv'
<1>1. UNCHANGED <<dataVars, verdictVars, work>>
  BY DEF AssessStaged
<1>2. HeadsSound' /\ WorkSound'
  BY <1>1, Zenon DEF VerdictsInv, HeadsSound, WorkSound, SoundOn, dataVars, verdictVars
<1>3. /\ k \in draft.ks /\ draft.saw[k] = None
      /\ draft'.ks = draft.ks /\ draft'.rows = draft.rows /\ draft'.scope = draft.scope /\ draft'.missed = draft.missed
      /\ \A j \in draft.ks \ {k} : draft'.saw[j] = draft.saw[j] /\ draft'.found[j] = draft.found[j]
      /\ draft'.found[k] = Assess(k, DraftRows(k), draft.scope[k], draft.scope[k].day # 0)
  BY AssessedDraft
<1>4. ASSUME NEW j \in draft'.ks, draft'.saw[j] # None, j \notin draft'.missed
      PROVE  SoundOn(j, DraftRows(j), draft.found[j], draft.scope[j].day # 0)'
  <2>1. DraftRows(j)' = DraftRows(j)
    BY <1>1, <1>3, Zenon DEF DraftRows, dataVars
  <2>2. SoundOn(j, DraftRows(j), draft'.found[j], draft.scope[j].day # 0)
    <3>1. CASE j = k
      <4>1. SoundOn(k, DraftRows(k), Assess(k, DraftRows(k), draft.scope[k], draft.scope[k].day # 0),
                    draft.scope[k].day # 0)
        BY AssessmentIsSound
      <4> QED
        BY <1>3, <3>1, <4>1
    <3>2. CASE j # k
      BY <1>3, <1>4, <3>2 DEF VerdictsInv, DraftSound
    <3> QED
      BY <3>1, <3>2
  <2>3. draft'.scope[j] = draft.scope[j]
    BY <1>3
  <2> QED
    BY <1>1, <2>1, <2>2, <2>3, Zenon DEF SoundOn, dataVars
<1>5. DraftSound'
  BY <1>4 DEF DraftSound
<1> QED
  BY <1>2, <1>5 DEF VerdictsInv

LEMMA CommitVerdicts == ASSUME VerdictsInv, TypeInv, CommitStaging PROVE VerdictsInv'
<1>1. UNCHANGED <<revoked, corr, resolved, pointer>>
  BY Committed
<1>2. /\ \A k \in draft.ks : /\ k \in Claims /\ draft.saw[k] # None
                             /\ rows'[k] = DraftRows(k) /\ asOf'[k] = draft.scope[k].day
                             /\ assessed'[k] = draft.found[k] /\ head'[k] = "current"
      /\ \A k \in Claims \ draft.ks : /\ rows'[k] = rows[k] /\ asOf'[k] = asOf[k]
                                      /\ assessed'[k] = assessed[k] /\ head'[k] = head[k]
      /\ overtaken' = (overtaken \ draft.ks) \cup draft.missed
  BY Committed
<1>3. ASSUME NEW k \in Claims, head'[k] = "current", k \notin overtaken'
      PROVE  SoundOn(k, rows[k], assessed[k], asOf[k] # 0)'
  <2>1. CASE k \in draft.ks
    <3>1. SoundOn(k, DraftRows(k), draft.found[k], draft.scope[k].day # 0)
      BY <1>2, <1>3, <2>1 DEF VerdictsInv, DraftSound
    <3>2. rows'[k] = DraftRows(k) /\ asOf'[k] = draft.scope[k].day /\ assessed'[k] = draft.found[k]
      BY <1>2, <2>1
    <3> QED
      BY <1>1, <3>1, <3>2, Zenon DEF SoundOn
  <2>2. CASE k \notin draft.ks
    <3>1. SoundOn(k, rows[k], assessed[k], asOf[k] # 0)
      BY <1>2, <1>3, <2>2 DEF VerdictsInv, HeadsSound
    <3>2. rows'[k] = rows[k] /\ asOf'[k] = asOf[k] /\ assessed'[k] = assessed[k]
      BY <1>2, <2>2
    <3> QED
      BY <1>1, <3>1, <3>2, Zenon DEF SoundOn
  <2> QED
    BY <2>1, <2>2
<1>4. HeadsSound'
  BY <1>3 DEF HeadsSound
<1>5. DraftSound'
  <2>1. draft'.ks = {}
    BY Committed DEF NoDraft
  <2> QED
    BY <2>1 DEF DraftSound
<1>6. WorkSound'
  <2> DEFINE m == work.missed \/ work.ks \cap draft.ks # {}
  <2>1. work' = [ks |-> work.ks, ok |-> work.ok, found |-> work.found, missed |-> m]
    BY Committed
  <2>2. ~m => ~work.missed /\ work.ks \cap draft.ks = {}
    OBVIOUS
  <2> HIDE DEF m
  <2>3. work'.ks = work.ks /\ work'.found = work.found /\ work'.missed = m
    BY <2>1
  <2> SUFFICES ASSUME NEW k \in work.ks, ~m PROVE SoundOn(k, rows[k], work.found, asOf[k] # 0)'
    BY <2>3 DEF WorkSound
  <2>4. k \in Claims \ draft.ks
    BY <2>2 DEF TypeInv, WorkInv
  <2>5. SoundOn(k, rows[k], work.found, asOf[k] # 0)
    BY <2>2 DEF VerdictsInv, WorkSound
  <2>6. rows'[k] = rows[k] /\ asOf'[k] = asOf[k]
    BY <1>2, <2>4
  <2> QED
    BY <1>1, <2>3, <2>5, <2>6, Zenon DEF SoundOn
<1> QED
  BY <1>4, <1>5, <1>6 DEF VerdictsInv

LEMMA DropVerdicts == ASSUME VerdictsInv, DropStaging \/ DropJob PROVE VerdictsInv'
<1>1. UNCHANGED <<dataVars, verdictVars>>
  BY DEF DropStaging, DropJob
<1>2. (draft' = draft \/ draft'.ks = {}) /\ (work' = work \/ work'.ks = {})
  BY DEF DropStaging, DropJob, NoDraft, NoWork
<1>3. HeadsSound'
  BY <1>1, Zenon DEF VerdictsInv, HeadsSound, SoundOn, dataVars, verdictVars
<1>4. DraftSound'
  <2>1. CASE draft' = draft
    BY <1>1, <2>1, Zenon DEF VerdictsInv, DraftSound, SoundOn, DraftRows, dataVars
  <2>2. CASE draft'.ks = {}
    BY <2>2 DEF DraftSound
  <2> QED
    BY <1>2, <2>1, <2>2
<1>5. WorkSound'
  <2>1. CASE work' = work
    BY <1>1, <2>1, Zenon DEF VerdictsInv, WorkSound, SoundOn, dataVars
  <2>2. CASE work'.ks = {}
    BY <2>2 DEF WorkSound
  <2> QED
    BY <1>2, <2>1, <2>2
<1> QED
  BY <1>3, <1>4, <1>5 DEF VerdictsInv

LEMMA ReadVerdicts == ASSUME VerdictsInv, NEW k, ReadJob(k) PROVE VerdictsInv'
<1>1. UNCHANGED <<dataVars, head, assessed, overtaken, draft>>
  BY DEF ReadJob
<1>2. HeadsSound' /\ DraftSound'
  BY <1>1, Zenon DEF VerdictsInv, HeadsSound, DraftSound, SoundOn, DraftRows, dataVars
<1>3. WorkSound'
  <2>1. CASE work' = work
    BY <1>1, <2>1, Zenon DEF VerdictsInv, WorkSound, SoundOn, dataVars
  <2>2. CASE head[k] # "current"
    <3> DEFINE ok == Counted(k, rows[k], revoked) # {} /\ Ratable(k, Counted(k, rows[k], revoked))
               a == Assess(k, rows[k], assessed[k].scope, asOf[k] # 0)
    <3>1. work' = [ks |-> {k}, ok |-> ok, missed |-> FALSE, found |-> a]
      BY <2>2, Zenon DEF ReadJob
    <3>2. SoundOn(k, rows[k], a, asOf[k] # 0)
      BY AssessmentIsSound
    <3> HIDE DEF ok, a
    <3>3. work'.ks = {k} /\ work'.found = a
      BY <3>1
    <3>4. SoundOn(k, rows[k], work.found, asOf[k] # 0)'
      BY <1>1, <3>2, <3>3, Zenon DEF SoundOn, dataVars
    <3> QED
      BY <3>3, <3>4 DEF WorkSound
  <2> QED
    BY <2>1, <2>2 DEF ReadJob
<1> QED
  BY <1>2, <1>3 DEF VerdictsInv

LEMMA WriteVerdicts == ASSUME VerdictsInv, TypeInv, NEW k \in Claims, WriteJob(k) PROVE VerdictsInv'
<1>1. UNCHANGED <<dataVars, draft>> /\ work' = NoWork
  BY Written
<1>2. ASSUME NEW j \in Claims, head'[j] = "current", j \notin overtaken'
      PROVE  SoundOn(j, rows[j], assessed[j], asOf[j] # 0)'
  <2>1. SoundOn(j, rows[j], assessed'[j], asOf[j] # 0)
    <3>1. CASE j = k /\ assessed'[k] = work.found
               /\ overtaken' = (overtaken \ {k}) \cup (IF work.missed THEN {k} ELSE {})
      <4>1. ~work.missed /\ k \in work.ks
        BY <1>2, <3>1, Written
      <4> QED
        BY <3>1, <4>1 DEF VerdictsInv, WorkSound
    <3>2. CASE head'[j] = head[j] /\ assessed'[j] = assessed[j] /\ j \notin overtaken
      BY <1>2, <3>2 DEF VerdictsInv, HeadsSound
    <3>3. j # k => (j \in overtaken <=> j \in overtaken')
      BY Written
    <3>4. CASE j # k
      <4>1. head'[j] = head[j] /\ assessed'[j] = assessed[j]
        BY <3>4, Written
      <4> QED
        BY <1>2, <3>2, <3>3, <3>4, <4>1
    <3>5. CASE j = k
      BY <1>2, <3>1, <3>2, <3>5, Written
    <3> QED
      BY <3>4, <3>5
  <2> QED
    BY <1>1, <2>1, Zenon DEF SoundOn, dataVars
<1>3. HeadsSound'
  BY <1>2 DEF HeadsSound
<1>4. DraftSound'
  BY <1>1, Zenon DEF VerdictsInv, DraftSound, SoundOn, DraftRows, dataVars
<1>5. WorkSound'
  BY <1>1 DEF WorkSound, NoWork
<1> QED
  BY <1>3, <1>4, <1>5 DEF VerdictsInv

LEMMA ActivateVerdicts ==
  ASSUME VerdictsInv, NEW late \in SUBSET Claims, ActivateConfig(late)
  PROVE  VerdictsInv'
<1>1. UNCHANGED <<dataVars, assessed, draft, work>> /\ overtaken' = overtaken \cup late
  BY DEF ActivateConfig, Command
<1>2. \A k \in Claims : head'[k] = "current" => head[k] = "current" \/ k \in late
  BY DEF ActivateConfig
<1>3. ASSUME NEW k \in Claims, head'[k] = "current", k \notin overtaken'
      PROVE  SoundOn(k, rows[k], assessed[k], asOf[k] # 0)'
  <2>1. SoundOn(k, rows[k], assessed[k], asOf[k] # 0)
    BY <1>1, <1>2, <1>3 DEF VerdictsInv, HeadsSound
  <2> QED
    BY <1>1, <2>1, Zenon DEF SoundOn, dataVars
<1>4. HeadsSound'
  BY <1>3 DEF HeadsSound
<1>5. DraftSound' /\ WorkSound'
  BY <1>1, Zenon DEF VerdictsInv, DraftSound, WorkSound, SoundOn, DraftRows, dataVars
<1> QED
  BY <1>4, <1>5 DEF VerdictsInv

LEMMA NextVerdicts == MemInv /\ VerdictsInv /\ [Next]_memVars => VerdictsInv'
<1> SUFFICES ASSUME TypeInv, VerdictsInv, [Next]_memVars PROVE VerdictsInv'
  BY DEF MemInv
<1>1. CASE \/ \E b \in Batches : StageBatch(b)
           \/ \E k \in Claims : AssessStaged(k)
           \/ CommitStaging \/ DropStaging \/ DropJob
           \/ \E k \in Claims : ReadJob(k) \/ WriteJob(k)
           \/ \E late \in SUBSET Claims : ActivateConfig(late)
  BY <1>1, StageVerdicts, AssessVerdicts, CommitVerdicts, DropVerdicts, ReadVerdicts, WriteVerdicts, ActivateVerdicts
<1>2. CASE WebDispute \/ HostDispute
  <2>1. PICK actor \in Actors, k \in Claims, p \in Uris, r \in Uris : DisputeClaim(actor, k, p, r)
    BY <1>2 DEF WebDispute, HostDispute, Actors
  <2> QED
    BY <2>1, DisputeVerdicts
<1>3. CASE WebDisputeCancel \/ HostDisputeCancel
  BY <1>3, CancelDisputeVerdicts DEF WebDisputeCancel, HostDisputeCancel
<1>4. CASE LinkAuditCommand \/ LinkAuditCancelCommand
  <2>1. PICK pairs \in SUBSET ValueAbsent, allow \in BOOLEAN :
            RevokeLinks(pairs, allow) \/ CancelRevocations(pairs)
    BY <1>4 DEF LinkAuditCommand, LinkAuditCancelCommand
  <2> QED
    BY <2>1, RevokeVerdicts
<1>5. CASE PreviewCommand
  BY <1>5, PreviewVerdicts DEF PreviewCommand
<1>6. CASE ReattributeSource \/ ReattributeEvidence
  BY <1>6, ReattributeSourceVerdicts, ReattributeEvidenceVerdicts
<1>7. CASE \/ \E p \in Pointers : PlanPointer(p[1], p[2])
           \/ \E t \in Attributions : PlanLink(t[1], t[2], t[3])
           \/ DropPlan
  <2>1. UNCHANGED <<rows, revoked, pointer, corr, resolved, asOf, assessed, head, overtaken, draft, work>>
    BY <1>7 DEF PlanPointer, PlanLink, DropPlan, dataVars, verdictVars
  <2> QED
    BY <2>1, VerdictsKept
<1>8. CASE \/ \E k \in Claims, id \in Ids : ResolveCounter(k, id)
           \/ \E r \in resolved : InvalidateResolution(r)
  BY <1>8, ResolutionVerdicts
<1>9. CASE UNCHANGED memVars
  <2>1. UNCHANGED <<rows, revoked, pointer, corr, resolved, asOf, assessed, head, overtaken, draft, work>>
    BY <1>9 DEF memVars, dataVars, verdictVars
  <2> QED
    BY <2>1, VerdictsKept
<1> QED
  BY <1>1, <1>2, <1>3, <1>4, <1>5, <1>6, <1>7, <1>8, <1>9 DEF Next, ReattributeCommand

LEMMA SoundInvariant == Spec => [](MemInv /\ VerdictsInv)
<1>1. Init => MemInv /\ VerdictsInv
  <2>1. Init => VerdictsInv
    BY DEF Init, VerdictsInv, HeadsSound, DraftSound, WorkSound, NoDraft, NoWork
  <2> QED
    BY <2>1, InitMemInv
<1>2. MemInv /\ VerdictsInv /\ [Next]_memVars => (MemInv /\ VerdictsInv)'
  BY NextMemInv, NextVerdicts
<1> QED
  BY <1>1, <1>2, PTL DEF Spec

\* Whatever is revoked, disputed, reattributed or resolved within reach of the
\* cascade, and in whatever order, a verdict that is shown as current is the
\* one its evidence gives at this moment (apply_source_graph_change), unless
\* the change came between its assessment and the commit of that assessment.
THEOREM CurrentVerdictsAreTrue == Spec => []CurrentVerdictsHold
BY SoundInvariant, VerdictsFollow, PTL
-----------------------------------------------------------------------------
(* The link audit.                                                         *)

\* The rows counted now are those that stay and those that go; revoking the
\* second leaves the first, because a row is known by its identity.
LEMMA KeptRows ==
  ASSUME TypeInv, NEW k \in Claims
  PROVE  /\ Counted(k, rows[k], revoked) = Kept(k) \cup Excluded(k)
         /\ Counted(k, rows[k], revoked \cup {<<k, e.id>> : e \in Excluded(k)}) = Kept(k)
<1>1. Excluded(k) \subseteq rows[k] /\ \A e \in Excluded(k) : <<k, e.id>> \notin revoked
  BY DEF Excluded, AuditLinks
<1>2. \A e, f \in rows[k] : e.id = f.id => f = e
  BY DEF TypeInv, RowsInv, Proper
<1>3. \A e \in rows[k] : <<k, e.id>> \in {<<k, x.id>> : x \in Excluded(k)} <=> e \in Excluded(k)
  BY <1>1, <1>2
<1>4. Counted(k, rows[k], revoked) = Kept(k) \cup Excluded(k)
  BY <1>1 DEF Counted, Kept
<1>5. Counted(k, rows[k], revoked \cup {<<k, e.id>> : e \in Excluded(k)}) = Kept(k)
  BY <1>3 DEF Counted, Kept
<1> QED
  BY <1>4, <1>5

\* A page has one effective parent for the same origins.
LEMMA SameParent ==
  ASSUME NEW rs, NEW qs, NEW pt, NEW s, Attributed(rs, s) = Attributed(qs, s)
  PROVE  EffectiveParent(rs, pt, s) = EffectiveParent(qs, pt, s)
<1> DEFINE Parent(A) == IF Cardinality(A) = 1 THEN CHOOSE p \in A : TRUE ELSE pt[s]
<1>1. EffectiveParent(rs, pt, s) = Parent(Attributed(rs, s)) /\ EffectiveParent(qs, pt, s) = Parent(Attributed(qs, s))
  BY Zenon DEF EffectiveParent
<1> HIDE DEF Parent
<1> QED
  BY <1>1

\* What is left of a graph without the pages of the rows that go is the graph
\* of the rows that stay, while these rows name the origins that all rows name.
LEMMA FilteredGraph ==
  ASSUME TypeInv, NEW k \in Claims,
         \A s \in MembersOf(Kept(k)) : Attributed(Counted(k, rows[k], revoked), s) = Attributed(Kept(k), s)
  PROVE  GroupsWithout(k) = SourceGroups(Kept(k), pointer, MergesAmong(Nodes(Kept(k), pointer)))
<1> DEFINE counted == Counted(k, rows[k], revoked)
           members == MembersOf(counted) \ (MembersOf(Excluded(k)) \ MembersOf(Kept(k)))
           effective == [s \in members |-> EffectiveParent(counted, pointer, s)]
           nodes == (members \cup {pointer[s] : s \in members} \cup {effective[s] : s \in members}) \ {None}
           parent == [s \in nodes |-> IF s \in members THEN effective[s] ELSE pointer[s]]
<1>1. members = MembersOf(Kept(k))
  BY KeptRows DEF MembersOf
<1>2. \A s \in members : effective[s] = EffectiveParent(Kept(k), pointer, s)
  <2>1. \A s \in members : Attributed(counted, s) = Attributed(Kept(k), s)
    BY <1>1
  <2>2. \A s \in members : effective[s] = EffectiveParent(counted, pointer, s)
    OBVIOUS
  <2> HIDE DEF counted, members, effective
  <2>3. \A s \in members : EffectiveParent(counted, pointer, s) = EffectiveParent(Kept(k), pointer, s)
    <3> SUFFICES ASSUME NEW s \in members
                 PROVE  EffectiveParent(counted, pointer, s) = EffectiveParent(Kept(k), pointer, s)
      OBVIOUS
    <3>1. Attributed(counted, s) = Attributed(Kept(k), s)
      BY <2>1
    <3> QED
      BY <3>1, SameParent
  <2> QED
    BY <2>2, <2>3
<1>3. nodes = Nodes(Kept(k), pointer)
  <2> HIDE DEF members, effective
  <2> QED
    BY <1>1, <1>2 DEF Nodes
<1>4. \A s : s \notin MembersOf(Kept(k)) /\ s # None => EffectiveParent(Kept(k), pointer, s) = pointer[s]
  <2> SUFFICES ASSUME NEW s, s \notin MembersOf(Kept(k)), s # None
               PROVE  EffectiveParent(Kept(k), pointer, s) = pointer[s]
    OBVIOUS
  <2>1. Attributed(Kept(k), s) = {}
    BY DEF Attributed, MembersOf
  <2> QED
    BY <2>1, FS_EmptySet DEF EffectiveParent
<1>5. None \notin nodes
  OBVIOUS
<1>6. parent = [s \in Nodes(Kept(k), pointer) |-> EffectiveParent(Kept(k), pointer, s)]
  <2> HIDE DEF members, effective, nodes
  <2>1. \A s \in nodes : (IF s \in members THEN effective[s] ELSE pointer[s]) = EffectiveParent(Kept(k), pointer, s)
    BY <1>1, <1>2, <1>4, <1>5
  <2> QED
    BY <1>3, <2>1
<1>7. GroupsWithout(k) = [s \in members |-> ComponentOf(parent, MergesAmong(nodes), s)]
  BY Zenon DEF GroupsWithout
<1> HIDE DEF members, nodes, parent
<1>8. GroupsWithout(k) = [s \in MembersOf(Kept(k)) |-> ComponentOf(parent, MergesAmong(Nodes(Kept(k), pointer)), s)]
  BY <1>1, <1>3, <1>7
<1> QED
  BY <1>6, <1>8, Zenon DEF SourceGroups
\* The environments behind a current verdict that is not overtaken are those of its rows.
LEMMA ForecastFollows == TypeInv /\ VerdictsInv => ForecastHolds
<1> SUFFICES ASSUME TypeInv, VerdictsInv, NEW k \in Audited \ overtaken, NEW envs \in Recorded(k),
                    \A s \in MembersOf(Kept(k)) :
                       Attributed(Counted(k, rows[k], revoked), s) = Attributed(Kept(k), s),
                    Recorded(k) = {envs}
             PROVE  LET real == AssessWithout(k, rows[k], revoked \cup {<<k, e.id>> : e \in Excluded(k)},
                                              assessed[k].scope, asOf[k] # 0)
                    IN  Forecast(k, envs).blocks = real.blocks /\ Forecast(k, envs).verdict = real.verdict
  BY DEF ForecastHolds
<1> DEFINE rv == revoked \cup {<<k, e.id>> : e \in Excluded(k)}
           real == AssessWithout(k, rows[k], rv, assessed[k].scope, asOf[k] # 0)
           groups == SourceGroups(Kept(k), pointer, MergesAmong(Nodes(Kept(k), pointer)))
           rz == {r.id : r \in {r \in resolved : r.claim = k}}
<1>1. k \in Claims /\ head[k] = "current" /\ k \notin overtaken
  BY DEF Audited
<1>2. envs = EnvsOf(rows[k])
  <2>1. assessed[k].envs = EnvsOf(rows[k])
    BY <1>1 DEF VerdictsInv, HeadsSound, SoundOn, Sound
  <2>2. assessed[k].envs \in Recorded(k)
    BY DEF Recorded
  <2> QED
    BY <2>1, <2>2
<1>3. Counted(k, rows[k], rv) = Kept(k) /\ GroupsWithout(k) = groups
  BY <1>1, KeptRows, FilteredGraph
<1>4. DOMAIN groups = MembersOf(Kept(k))
  BY DEF SourceGroups
<1> HIDE DEF rv, groups
<1>5. real = [scope |-> assessed[k].scope,
              verdict |-> Evaluate(k, Kept(k), groups, envs, rz, assessed[k].scope, asOf[k] # 0),
              blocks |-> {groups[s] \cap MembersOf(Kept(k)) : s \in MembersOf(Kept(k))},
              links |-> {e.id : e \in Kept(k)},
              envs |-> envs]
  BY <1>2, <1>3, Zenon DEF AssessWithout, EnvsOf, groups
<1>6. Forecast(k, envs) =
        [blocks |-> {groups[s] \cap DOMAIN groups : s \in DOMAIN groups},
         verdict |-> Evaluate(k, Kept(k), groups, envs, rz, assessed[k].scope, asOf[k] # 0)]
  BY <1>3, Zenon DEF Forecast
<1> HIDE DEF real, rz
<1>7. Forecast(k, envs).blocks = real.blocks /\ Forecast(k, envs).verdict = real.verdict
  BY <1>4, <1>5, <1>6
<1> QED
  BY <1>7 DEF real, rv

\* The verdict and the groups that the link audit announces are those the
\* worker reaches once the links are revoked, whatever was revoked, disputed or
\* attributed before (_assembly_without and _recompute against _assess), where
\* the claim's heads have recorded the same environments.
THEOREM ForecastIsKept == Spec => []ForecastHolds
<1>1. MemInv /\ VerdictsInv => ForecastHolds
  BY ForecastFollows DEF MemInv
<1> QED
  BY <1>1, SoundInvariant, PTL
=============================================================================
