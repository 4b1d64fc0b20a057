-------------------------- MODULE SessionRunProofs --------------------------
(***************************************************************************)
(* Proofs about SessionRun for any questions, calls, proposals and limits. *)
(*                                                                         *)
(* RunInv ties the running session to the rows.  The question it works on, *)
(* and those its guard deferred, are still candidates, so what Report      *)
(* writes over them is a row without a session (ChosenQuestion); that the  *)
(* guard offers nothing else is GuardedChoosesCandidates, for which the    *)
(* list of candidates has to have a first one.  The reason "goal_reached"  *)
(* stands only while the named sources are covered (HonestReason), and     *)
(* nothing is staged by the curator before it is accepted (NothingStaged). *)
(*                                                                         *)
(* SessionsEnd compares two steps by phase first, then by what the         *)
(* explorer and the curator have spent.                                    *)
(***************************************************************************)
EXTENDS SessionRun, FiniteSetTheorems, WellFoundedInduction, TLAPS

\* A nonempty set of naturals has a least element: what the inductions below rest on.
LEMMA LeastNatural == ASSUME NEW T \in SUBSET Nat, T # {} PROVE \E x \in T : \A y \in T : x <= y
<1>1. PICK x \in T : \A y \in T : ~(<<y, x>> \in OpToRel(<, Nat))
  BY NatLessThanWellFounded, WFMin
<1>2. \A y \in T : <<y, x>> \in OpToRel(<, Nat) <=> y < x
  BY DEF OpToRel
<1>3. \A y \in T : ~(y < x)
  BY <1>1, <1>2
<1>4. \A y \in T : x \in Int /\ y \in Int
  OBVIOUS
<1> QED
  BY <1>3, <1>4

-----------------------------------------------------------------------------
(* Lists of questions.                                                     *)

\* arrived lists each question that has a row once.
Listed(s) == s \in Seq(Questions) /\ IsInjective(s)

LEMMA SetAsSequence ==
  ASSUME NEW S, S \subseteq Questions
  PROVE  SetToSeq(S) \in [1 .. Cardinality(S) -> S] /\ IsInjective(SetToSeq(S)) /\ Range(SetToSeq(S)) = S
         /\ Cardinality(S) \in Nat
<1>1. IsFiniteSet(S)
  BY FS_Subset, RunAssumption
<1>2. PICK f : f \in Bijection(1 .. Cardinality(S), S)
  BY <1>1, FS_CardinalityType DEF ExistsBijection
<1>3. f \in [1 .. Cardinality(S) -> S] /\ IsInjective(f)
  BY <1>2 DEF Bijection, Injection, IsInjective
<1>4. SetToSeq(S) \in [1 .. Cardinality(S) -> S] /\ IsInjective(SetToSeq(S))
  BY <1>3 DEF SetToSeq
<1>5. Cardinality(S) \in Nat
  BY <1>1, FS_CardinalityType
<1> DEFINE g == SetToSeq(S)
           n == Cardinality(S)
<1> HIDE DEF g, n
<1>6. g \in [1 .. n -> S] /\ IsInjective(g) /\ n \in Nat
  BY <1>4, <1>5 DEF g, n
<1>7. IsFiniteSet(1 .. n) /\ Cardinality(1 .. n) = n /\ Cardinality(S) = n
  BY <1>6, FS_Interval DEF n
<1>8. g \in Injection(1 .. n, S)
  BY <1>6 DEF Injection
<1>9. g \in Surjection(1 .. n, S)
  BY <1>1, <1>7, <1>8, FS_Injection
<1>10. Range(g) = S
  BY <1>6, <1>9 DEF Surjection, Range
<1> QED
  BY <1>6, <1>10 DEF g, n

LEMMA ListExtended ==
  ASSUME NEW s, Listed(s), NEW S, S \subseteq Questions, S \cap Range(s) = {}
  PROVE  Listed(s \o SetToSeq(S)) /\ Range(s \o SetToSeq(S)) = Range(s) \cup S
<1> DEFINE t == SetToSeq(S)
           n == Cardinality(S)
<1>1. t \in [1 .. n -> S] /\ IsInjective(t) /\ Range(t) = S /\ n \in Nat
  BY SetAsSequence
<1> HIDE DEF t, n
<1>2. s \in Seq(Questions) /\ IsInjective(s) /\ t \in Seq(Questions) /\ Len(t) = n
  BY <1>1 DEF Listed
<1>3. \A i \in DOMAIN s : s[i] \notin S
  BY DEF Range
<1>4. \A i \in 1 .. n : t[i] \in S
  BY <1>1
<1>5. s \o t \in Seq(Questions) /\ DOMAIN (s \o t) = 1 .. Len(s) + n
  BY <1>1, <1>2
<1>6. \A i \in 1 .. Len(s) : (s \o t)[i] = s[i] /\ i \in 1 .. Len(s) + n
  BY <1>1, <1>2
<1>7. \A i \in 1 .. n : (s \o t)[Len(s) + i] = t[i] /\ Len(s) + i \in 1 .. Len(s) + n
  BY <1>1, <1>2
<1>8. \A i \in 1 .. Len(s) + n : i \in 1 .. Len(s) \/ (i - Len(s) \in 1 .. n /\ i = Len(s) + (i - Len(s)))
  BY <1>1, <1>2
<1>9. DOMAIN s = 1 .. Len(s) /\ DOMAIN t = 1 .. n
  BY <1>1, <1>2
<1>10. IsInjective(s \o t)
  <2>1. SUFFICES ASSUME NEW i \in 1 .. Len(s) + n, NEW j \in 1 .. Len(s) + n, (s \o t)[i] = (s \o t)[j] PROVE i = j
    BY <1>5 DEF IsInjective
  <2>2. CASE i \in 1 .. Len(s) /\ j \in 1 .. Len(s)
    BY <1>2, <1>6, <1>9, <2>1, <2>2 DEF IsInjective
  <2>3. CASE i \notin 1 .. Len(s) /\ j \notin 1 .. Len(s)
    <3>1. t[i - Len(s)] = t[j - Len(s)] /\ i - Len(s) \in 1 .. n /\ j - Len(s) \in 1 .. n
      BY <1>7, <1>8, <2>1, <2>3
    <3>2. i - Len(s) = j - Len(s)
      BY <1>1, <1>9, <3>1 DEF IsInjective
    <3> QED
      BY <1>1, <1>2, <3>2
  <2>4. CASE i \in 1 .. Len(s) /\ j \notin 1 .. Len(s)
    <3>1. (s \o t)[i] \notin S
      BY <1>3, <1>6, <1>9, <2>4
    <3>2. (s \o t)[j] \in S
      BY <1>4, <1>7, <1>8, <2>4
    <3> QED
      BY <2>1, <3>1, <3>2
  <2>5. CASE i \notin 1 .. Len(s) /\ j \in 1 .. Len(s)
    <3>1. (s \o t)[j] \notin S
      BY <1>3, <1>6, <1>9, <2>5
    <3>2. (s \o t)[i] \in S
      BY <1>4, <1>7, <1>8, <2>5
    <3> QED
      BY <2>1, <3>1, <3>2
  <2> QED
    BY <2>2, <2>3, <2>4, <2>5
<1>11. Range(s \o t) = Range(s) \cup S
  <2>1. \A x \in Range(s \o t) : x \in Range(s) \cup S
    BY <1>1, <1>5, <1>6, <1>7, <1>8, <1>9 DEF Range
  <2>2. \A x \in Range(s) : x \in Range(s \o t)
    BY <1>5, <1>6, <1>9 DEF Range
  <2>3. \A x \in Range(t) : x \in Range(s \o t)
    BY <1>5, <1>7, <1>9 DEF Range
  <2> QED
    BY <1>1, <2>1, <2>2, <2>3
<1> QED
  BY <1>5, <1>10, <1>11 DEF t, Listed

LEMMA ListAppended ==
  ASSUME NEW s, Listed(s), NEW q \in Questions, q \notin Range(s)
  PROVE  Listed(Append(s, q)) /\ Range(Append(s, q)) = Range(s) \cup {q}
<1>1. s \in Seq(Questions) /\ IsInjective(s) /\ \A i \in 1 .. Len(s) : s[i] # q
  BY DEF Listed, Range
<1>2. /\ Append(s, q) \in Seq(Questions)
      /\ DOMAIN Append(s, q) = 1 .. Len(s) + 1
      /\ \A i \in 1 .. Len(s) : Append(s, q)[i] = s[i]
      /\ Append(s, q)[Len(s) + 1] = q
      /\ DOMAIN s = 1 .. Len(s) /\ Len(s) \in Nat
  BY <1>1
<1>3. \A i \in 1 .. Len(s) + 1 : i \in 1 .. Len(s) \/ i = Len(s) + 1
  BY <1>2
<1>4. IsInjective(Append(s, q))
  BY <1>1, <1>2, <1>3 DEF IsInjective
<1>5. Range(Append(s, q)) = Range(s) \cup {q}
  <2>1. \A x \in Range(Append(s, q)) : x \in Range(s) \cup {q}
    BY <1>2, <1>3 DEF Range
  <2>2. \A x \in Range(s) \cup {q} : x \in Range(Append(s, q))
    <3>1. \A i \in 1 .. Len(s) : i \in 1 .. Len(s) + 1
      BY <1>2
    <3>2. Len(s) + 1 \in 1 .. Len(s) + 1
      BY <1>2
    <3> QED
      BY <1>2, <3>1, <3>2 DEF Range
  <2> QED
    BY <2>1, <2>2
<1> QED
  BY <1>2, <1>4, <1>5 DEF Listed

-----------------------------------------------------------------------------
(* The choice of a question.                                               *)

\* list_candidates is a total order, so the first candidate exists.
LEMMA FirstCandidate ==
  ASSUME NEW s, Listed(s), NEW cs \in SUBSET Range(s), cs # {}, arrived = s
  PROVE  \E q \in cs : \A o \in cs : Before(q, o)
<1> DEFINE Early(n) == {q \in cs : \E i \in 1 .. n : s[i] = q}
           Best(n) == Early(n) = {} \/ \E q \in Early(n) : \A o \in Early(n) : Before(q, o)
           Bad == {n \in 0 .. Len(s) : ~Best(n)}
<1>1. s \in Seq(Questions) /\ Len(s) \in Nat /\ DOMAIN s = 1 .. Len(s)
  BY DEF Listed
<1>2. \A q \in Questions : Priority[q] \in Nat
  BY RunAssumption
<1>3. Early(Len(s)) = cs
  BY <1>1 DEF Range
<1>4. SUFFICES Bad = {}
  <2> HIDE DEF Early
  <2>1. Len(s) \in 0 .. Len(s)
    BY <1>1
  <2> QED
    BY <1>3, <2>1
<1>5. SUFFICES ASSUME Bad # {} PROVE FALSE
  OBVIOUS
<1>6. PICK n \in Bad : \A m \in Bad : n <= m
  <2>1. Bad \in SUBSET Nat
    BY <1>1
  <2> HIDE DEF Bad
  <2> QED
    BY <1>5, <2>1, LeastNatural
<1>7. n # 0
  <2>1. Early(0) = {}
    BY <1>1
  <2> QED
    BY <1>6, <2>1
<1>8. n \in 1 .. Len(s) /\ n - 1 \in 0 .. Len(s) /\ Best(n - 1) /\ ~Best(n)
  <2> HIDE DEF Best
  <2>1. n \in 0 .. Len(s) /\ ~Best(n)
    BY <1>6
  <2>2. n - 1 \in 0 .. Len(s) /\ ~(n <= n - 1)
    BY <1>1, <1>7, <2>1
  <2> QED
    BY <1>1, <1>6, <1>7, <2>1, <2>2
<1>9. Early(n) \subseteq Early(n - 1) \cup {s[n]}
  <2>1. \A i \in 1 .. n : i = n \/ i \in 1 .. n - 1
    BY <1>1, <1>8
  <2> QED
    BY <2>1
<1>10. Early(n - 1) \subseteq Early(n) /\ (s[n] \in cs => s[n] \in Early(n))
  <2>1. \A i \in 1 .. n - 1 : i \in 1 .. n
    BY <1>1, <1>8
  <2>2. n \in 1 .. n
    BY <1>1, <1>8
  <2> QED
    BY <2>1, <2>2
<1>11. \A q \in Early(n - 1) : q \in Questions /\ \E i \in 1 .. n - 1 : s[i] = q
  <2>1. \A i \in 1 .. n - 1 : s[i] \in Questions
    BY <1>1, <1>8
  <2> QED
    BY <2>1
<1>12. s[n] \in Questions /\ Before(s[n], s[n])
  BY <1>1, <1>8 DEF Before
<1>13. \A q \in Early(n - 1) : Priority[q] >= Priority[s[n]] => Before(q, s[n])
  <2>1. TAKE q \in Early(n - 1)
  <2>2. HAVE Priority[q] >= Priority[s[n]]
  <2>3. PICK i \in 1 .. n - 1 : s[i] = q
    BY <1>11
  <2>4. i \in DOMAIN arrived /\ n \in DOMAIN arrived /\ i <= n
    BY <1>1, <1>8, <2>3
  <2> QED
    BY <1>2, <1>11, <1>12, <2>2, <2>3, <2>4 DEF Before
<1>14. \A p, q \in Early(n - 1) : Priority[p] < Priority[s[n]] /\ Before(p, q) => Before(s[n], q)
  <2>1. \A p, q \in Early(n - 1) : Before(p, q) => Priority[p] >= Priority[q]
    BY <1>2, <1>11 DEF Before
  <2> HIDE DEF Early
  <2>2. \A p, q \in Early(n - 1) : Priority[p] < Priority[s[n]] /\ Before(p, q) => Priority[s[n]] > Priority[q]
    BY <1>2, <1>11, <1>12, <2>1
  <2> QED
    BY <2>2 DEF Before
<1> HIDE DEF Early
<1>15. CASE s[n] \notin cs
  <2>1. Early(n) \subseteq cs
    BY DEF Early
  <2>2. Early(n) = Early(n - 1)
    BY <1>9, <1>10, <1>15, <2>1
  <2> QED
    BY <1>8, <2>2
<1>16. CASE s[n] \in cs /\ Early(n - 1) = {}
  <2>1. Early(n) = {s[n]}
    BY <1>9, <1>10, <1>16
  <2> QED
    BY <1>8, <1>12, <2>1
<1>17. CASE s[n] \in cs /\ Early(n - 1) # {}
  <2>1. PICK p \in Early(n - 1) : \A o \in Early(n - 1) : Before(p, o)
    BY <1>8, <1>17
  <2>2. CASE Priority[p] >= Priority[s[n]]
    <3>1. \A o \in Early(n) : Before(p, o)
      BY <1>9, <1>13, <2>1, <2>2
    <3> QED
      BY <1>8, <1>10, <3>1
  <2>3. CASE ~(Priority[p] >= Priority[s[n]])
    <3>1. Priority[p] < Priority[s[n]]
      BY <1>2, <1>11, <1>12, <2>3
    <3>2. \A o \in Early(n) : Before(s[n], o)
      BY <1>9, <1>12, <1>14, <2>1, <3>1
    <3> QED
      BY <1>8, <1>10, <1>17, <3>2
  <2> QED
    BY <2>2, <2>3
<1> QED
  BY <1>15, <1>16, <1>17

\* What the guard keeps between two attempts: it looked at candidates only.
GuardShape(a) ==
    /\ a = [q |-> a.q, deferred |-> a.deferred, skipped |-> a.skipped, over |-> a.over]
    /\ a.q \in {"none"} \cup Candidates({})
    /\ a.deferred \subseteq Candidates({})

LEMMA SelectedIsCandidate ==
  ASSUME Listed(arrived), NEW favourite, NEW a
  PROVE  Selected(favourite, a) \in {"none"} \cup Candidates({})
<1> DEFINE cs == Candidates(a.deferred \cup IF Selector = "fifo" THEN a.skipped ELSE {})
<1>1. cs \subseteq Candidates({}) /\ cs \in SUBSET Range(arrived)
  BY DEF Candidates
<1>2. cs # {} => \E q \in cs : \A o \in cs : Before(q, o)
  BY <1>1, FirstCandidate
<1> HIDE DEF cs
<1>3. Selected(favourite, a) = IF cs = {} THEN "none"
        ELSE IF Selector = "curiosity" /\ favourite \in cs THEN favourite
        ELSE CHOOSE q \in cs : \A o \in cs : Before(q, o)
  BY DEF Selected, cs
<1> QED
  BY <1>1, <1>2, <1>3

LEMMA NextAttemptShape ==
  ASSUME Listed(arrived), NEW favourite, NEW a, GuardShape(a)
  PROVE  GuardShape(NextAttempt(favourite, a))
<1> DEFINE q == Selected(favourite, a)
           strategy == IF q = "none" THEN "none" ELSE Cycle(q, a.deferred)
<1>1. q \in {"none"} \cup Candidates({})
  BY SelectedIsCandidate
<1>2. strategy = "defer_question" => q # "none"
  OBVIOUS
<1>3. NextAttempt(favourite, a) =
        IF a.over THEN a
        ELSE IF strategy = "defer_question" THEN [a EXCEPT !.deferred = @ \cup {q}]
        ELSE IF strategy = "choose_different_area" THEN [a EXCEPT !.skipped = @ \cup {q}]
        ELSE [a EXCEPT !.over = TRUE, !.q = q]
  BY DEF NextAttempt
<1> HIDE DEF q, strategy
<1>4. PICK a1, a2, a3, a4 : a = [q |-> a1, deferred |-> a2, skipped |-> a3, over |-> a4]
  BY DEF GuardShape
<1>5. a1 \in {"none"} \cup Candidates({}) /\ a2 \subseteq Candidates({})
  BY <1>4 DEF GuardShape
<1>6. CASE a.over
  BY <1>3, <1>6
<1>7. CASE ~a.over /\ strategy = "defer_question"
  <2>1. NextAttempt(favourite, a) = [q |-> a1, deferred |-> a2 \cup {q}, skipped |-> a3, over |-> a4]
    BY <1>3, <1>4, <1>7
  <2> QED
    BY <1>1, <1>2, <1>5, <1>7, <2>1 DEF GuardShape
<1>8. CASE ~a.over /\ strategy = "choose_different_area"
  <2>1. NextAttempt(favourite, a) = [q |-> a1, deferred |-> a2, skipped |-> a3 \cup {q}, over |-> a4]
    BY <1>3, <1>4, <1>8
  <2> QED
    BY <1>5, <2>1 DEF GuardShape
<1>9. CASE ~a.over /\ strategy \notin {"defer_question", "choose_different_area"}
  <2>1. NextAttempt(favourite, a) = [q |-> q, deferred |-> a2, skipped |-> a3, over |-> TRUE]
    BY <1>3, <1>4, <1>9
  <2> QED
    BY <1>1, <1>5, <2>1 DEF GuardShape
<1> QED
  BY <1>6, <1>7, <1>8, <1>9

\* the loop of _select_question_with_guard
Attempts(favourite, n, f) ==
    f = [i \in 0 .. n |-> IF i = 0 THEN FirstAttempt ELSE NextAttempt(favourite, f[i - 1])]

LEMMA AttemptsExist == ASSUME NEW favourite PROVE \A n \in Nat : \E f : Attempts(favourite, n, f)
<1> DEFINE Bad == {n \in Nat : ~ \E f : Attempts(favourite, n, f)}
<1>1. SUFFICES ASSUME Bad # {} PROVE FALSE
  OBVIOUS
<1>2. PICK n \in Bad : \A m \in Bad : n <= m
  BY <1>1, LeastNatural
<1>3. CASE n = 0
  <2>1. Attempts(favourite, 0, [i \in 0 .. 0 |-> FirstAttempt])
    BY DEF Attempts
  <2> QED
    BY <1>2, <1>3, <2>1
<1>4. CASE n # 0
  <2>1. n - 1 \in Nat /\ n - 1 \notin Bad
    BY <1>2, <1>4
  <2>2. PICK f : Attempts(favourite, n - 1, f)
    BY <2>1
  <2> DEFINE g == [i \in 0 .. n |-> IF i = n THEN NextAttempt(favourite, f[n - 1]) ELSE f[i]]
             h == [i \in 0 .. n |-> IF i = 0 THEN FirstAttempt ELSE NextAttempt(favourite, g[i - 1])]
  <2>3. \A i \in 0 .. n - 1 : f[i] = IF i = 0 THEN FirstAttempt ELSE NextAttempt(favourite, f[i - 1])
    BY <2>2 DEF Attempts
  <2>4. \A i \in 0 .. n - 1 : g[i] = f[i]
    BY <1>2
  <2>5. \A i \in 0 .. n : g[i] = h[i]
    <3>1. TAKE i \in 0 .. n
    <3>2. CASE i = n
      <4>1. g[i] = NextAttempt(favourite, f[n - 1]) /\ g[n - 1] = f[n - 1]
        BY <1>2, <1>4, <2>4, <3>2
      <4> QED
        BY <1>4, <3>2, <4>1
    <3>3. CASE i # n
      <4>1. i \in 0 .. n - 1 /\ (i # 0 => i - 1 \in 0 .. n - 1)
        BY <1>2, <3>3
      <4> QED
        BY <2>3, <2>4, <4>1
    <3> QED
      BY <3>2, <3>3
  <2>6. g = h
    <3> HIDE DEF h
    <3>1. DOMAIN h = 0 .. n /\ h = [i \in 0 .. n |-> h[i]]
      BY DEF h
    <3> QED
      BY <2>5, <3>1
  <2>7. Attempts(favourite, n, g)
    BY <2>6 DEF Attempts
  <2> QED
    BY <1>2, <2>7
<1> QED
  BY <1>3, <1>4

\* The guard gives up or chooses a candidate, and defers candidates only.
LEMMA GuardedChoosesCandidates ==
  ASSUME Listed(arrived), NEW favourite
  PROVE  /\ Guarded(favourite).q \in {"none"} \cup Candidates({})
         /\ Guarded(favourite).deferred \subseteq Candidates({})
<1> DEFINE f == CHOOSE f : Attempts(favourite, SelectionAttempts, f)
           Bad == {n \in 0 .. SelectionAttempts : ~GuardShape(f[n])}
<1>1. SelectionAttempts \in Nat
  BY DEF SelectionAttempts
<1>2. Attempts(favourite, SelectionAttempts, f)
  BY <1>1, AttemptsExist
<1>3. Guarded(favourite) = f[SelectionAttempts]
  BY DEF Guarded, Attempts
<1> HIDE DEF f
<1>4. f[0] = FirstAttempt /\ \A n \in 1 .. SelectionAttempts : f[n] = NextAttempt(favourite, f[n - 1])
  BY <1>1, <1>2 DEF Attempts
<1>5. SUFFICES Bad = {}
  <2>1. SelectionAttempts \in 0 .. SelectionAttempts
    BY <1>1
  <2>2. Bad = {} => GuardShape(f[SelectionAttempts])
    BY <2>1
  <2> HIDE DEF Bad
  <2> QED
    BY <1>3, <2>2 DEF GuardShape
<1>6. SUFFICES ASSUME Bad # {} PROVE FALSE
  OBVIOUS
<1>7. PICK n \in Bad : \A m \in Bad : n <= m
  <2>1. Bad \in SUBSET Nat
    BY <1>1
  <2> HIDE DEF Bad
  <2> QED
    BY <1>6, <2>1, LeastNatural
<1>8. n # 0
  <2>1. GuardShape(FirstAttempt)
    BY DEF GuardShape, FirstAttempt
  <2> QED
    BY <1>4, <1>7, <2>1
<1>9. n \in 1 .. SelectionAttempts /\ n - 1 \in 0 .. SelectionAttempts /\ n - 1 \notin Bad
  BY <1>1, <1>7, <1>8
<1>10. GuardShape(f[n])
  BY <1>4, <1>9, NextAttemptShape
<1> QED
  BY <1>7, <1>10
-----------------------------------------------------------------------------
(* The session's view (ctx).                                               *)

CtxFields ==
    {"q", "deferred", "delivered", "answered", "step", "counts", "cover", "blocked", "searched",
     "aggregate", "unknown", "evidence", "reason", "round", "first", "claims", "staged", "relied", "open"}
StagedFields == {"claim", "new", "evidence", "question"}

\* r is a record with these fields.
Rec(fields, r) == r = [x \in fields |-> r[x]]

\* How many claims and links each list holds, and what the limits allow.
StagedType(s) ==
    /\ Rec(StagedFields, s)
    /\ s.claim \in 0 .. MaxNewClaims /\ s.new \in 0 .. s.claim
    /\ s.evidence \in 0 .. MaxEvidence /\ s.question \in 0 .. MaxNewQuestions

CtxType(c) ==
    /\ Rec(CtxFields, c)
    /\ c.step \in 0 .. MaxSteps /\ c.round \in {1, 2} /\ c.open \in BOOLEAN
    /\ c.counts \in [Calls -> 0 .. RepeatLimit]
    /\ StagedType(c.staged)
    /\ Cardinality(c.relied) <= ReliedLimit

\* What only the curator writes; before it there is nothing of it.
Unstaged(c) == c.staged.claim = 0 /\ c.staged.new = 0 /\ c.staged.evidence = 0

LEMMA LimitsAreNatural ==
  /\ MaxSteps \in Nat /\ MaxNewClaims \in Nat /\ MaxEvidence \in Nat
  /\ ReliedLimit \in Nat /\ MaxNewQuestions \in Nat
BY RunAssumption, CuratorAssumption

LEMMA FreshType == CtxType(Fresh) /\ Unstaged(Fresh)
<1>1. Cardinality(Fresh.relied) = 0
  BY FS_EmptySet DEF Fresh
<1>2. Rec(CtxFields, Fresh)
  BY DEF Rec, Fresh, CtxFields
<1>3. Rec(StagedFields, Fresh.staged)
  BY DEF Rec, Fresh, StagedFields
<1>4. Fresh.step = 0 /\ Fresh.round = 1 /\ Fresh.open = FALSE /\ Fresh.counts = [c \in Calls |-> 0]
  BY DEF Fresh
<1>5. Fresh.staged.claim = 0 /\ Fresh.staged.new = 0 /\ Fresh.staged.evidence = 0 /\ Fresh.staged.question = 0
  BY DEF Fresh
<1>6. StagedType(Fresh.staged)
  BY ONLY <1>3, <1>5, LimitsAreNatural DEF StagedType
<1>7. Fresh.counts \in [Calls -> 0 .. RepeatLimit]
  BY <1>4 DEF RepeatLimit
<1>8. Fresh.step \in 0 .. MaxSteps /\ Fresh.round \in {1, 2} /\ Cardinality(Fresh.relied) <= ReliedLimit
  BY ONLY <1>1, <1>4, LimitsAreNatural
<1>9. CtxType(Fresh)
  BY ONLY <1>2, <1>4, <1>6, <1>7, <1>8, Zenon DEF CtxType
<1> QED
  BY ONLY <1>5, <1>9 DEF Unstaged

-----------------------------------------------------------------------------
(* The curator's boundary.                                                 *)

LEMMA SubsetOfSize ==
  ASSUME NEW S, IsFiniteSet(S), NEW k \in Nat, k <= Cardinality(S)
  PROVE  \E r \in kSubset(k, S) : TRUE
<1> DEFINE n == Cardinality(S)
<1>1. n \in Nat /\ ExistsBijection(1 .. n, S)
  BY FS_CardinalityType
<1>2. PICK f : f \in Bijection(1 .. n, S)
  BY <1>1 DEF ExistsBijection
<1>3. \A i \in 1 .. k : i \in 1 .. n
  BY <1>1
<1> DEFINE T == {f[i] : i \in 1 .. k}
           g == [i \in 1 .. k |-> f[i]]
<1>4. T \in SUBSET S
  BY <1>2, <1>3 DEF Bijection, Injection
<1>5. g \in Bijection(1 .. k, T)
  <2>1. g \in [1 .. k -> T] /\ \A t \in T : \E i \in 1 .. k : g[i] = t
    OBVIOUS
  <2>2. \A i, j \in 1 .. k : g[i] = g[j] => i = j
    BY <1>2, <1>3 DEF Bijection, Injection, IsInjective
  <2> QED
    BY <2>1, <2>2 DEF Bijection, Injection, Surjection, IsInjective
<1>6. IsFiniteSet(1 .. k) /\ Cardinality(1 .. k) = k
  BY FS_Interval
<1>7. Cardinality(T) = k
  BY <1>5, <1>6, FS_Bijection DEF ExistsBijection
<1> QED
  BY <1>4, <1>7 DEF kSubset

LEMMA UpToLimitKeepsLimit ==
  ASSUME NEW base, IsFiniteSet(base), Cardinality(base) <= ReliedLimit, NEW more, IsFiniteSet(more)
  PROVE  IsFiniteSet(UpToLimit(base, more)) /\ Cardinality(UpToLimit(base, more)) <= ReliedLimit
<1> DEFINE room == ReliedLimit - Cardinality(base)
           rest == more \ base
<1>1. IsFiniteSet(rest) /\ Cardinality(rest) \in Nat /\ Cardinality(base) \in Nat /\ room \in Nat
  <2>1. IsFiniteSet(rest) /\ Cardinality(base) \in Nat
    BY FS_Difference, FS_CardinalityType
  <2>2. room \in Nat
    BY <2>1, LimitsAreNatural
  <2> QED
    BY <2>1, <2>2, FS_CardinalityType
<1>2. \A r \in SUBSET rest : Cardinality(r) <= room =>
          IsFiniteSet(base \cup r) /\ Cardinality(base \cup r) <= ReliedLimit
  <2>1. TAKE r \in SUBSET rest
  <2>2. HAVE Cardinality(r) <= room
  <2>3. IsFiniteSet(r) /\ Cardinality(r) \in Nat
    BY <1>1, FS_Subset, FS_CardinalityType
  <2>4. base \cap r = {}
    OBVIOUS
  <2>5. IsFiniteSet(base \cup r) /\ Cardinality(base \cup r) = Cardinality(base) + Cardinality(r) - 0
    BY <2>3, <2>4, FS_Union, FS_EmptySet
  <2> QED
    BY <1>1, <2>2, <2>3, <2>5, LimitsAreNatural
<1>3. CASE Cardinality(rest) <= room
  <2>1. UpToLimit(base, more) = base \cup rest
    BY <1>3 DEF UpToLimit
  <2> QED
    BY <1>2, <1>3, <2>1
<1>4. CASE ~(Cardinality(rest) <= room)
  <2> DEFINE r == CHOOSE r \in kSubset(room, rest) : TRUE
  <2>1. UpToLimit(base, more) = base \cup r
    BY <1>4 DEF UpToLimit
  <2>2. r \in kSubset(room, rest)
    BY <1>1, <1>4, SubsetOfSize
  <2>3. r \in SUBSET rest /\ Cardinality(r) <= room
    BY <1>1, <2>2 DEF kSubset
  <2> QED
    BY <1>2, <2>1, <2>3
<1> QED
  BY <1>3, <1>4

LEMMA ReliedKeepsLimit ==
  ASSUME NEW p
  PROVE  IsFiniteSet(Relied(p)) /\ Cardinality(Relied(p)) <= ReliedLimit
<1>1. IsFiniteSet(p.relied \cap Pack)
  BY FS_Intersection, CuratorAssumption
<1>2. IsFiniteSet({}) /\ Cardinality({}) <= ReliedLimit
  BY FS_EmptySet, LimitsAreNatural
<1> QED
  BY <1>1, <1>2, UpToLimitKeepsLimit DEF Relied

LEMMA AllReliedKeepsLimit ==
  ASSUME NEW p, NEW b, b.relied = Relied(p), NEW first, NEW answer, NEW fresher
  PROVE  Cardinality(AllRelied(first, p, b, answer, fresher)) <= ReliedLimit
<1> DEFINE ops == {c.target : c \in {d \in b.active : Reverifies(d)}}
                    \cup {c.twin : c \in b.active \cap b.converted}
           carried == IF p.claims = {} /\ b.relied = {}
                      THEN UpToLimit({}, first \cap Pack) ELSE b.relied
           dropped == {c.target : c \in {d \in b.dropped : Reverifies(d)}} \cap Pack
           named == UpToLimit(UpToLimit(carried, dropped \ ops), (answer \cap Pack) \ ops)
<1>1. AllRelied(first, p, b, answer, fresher) = UpToLimit(named, (fresher \cap Pack) \ ops)
  BY DEF AllRelied
<1>2. \A S : IsFiniteSet(S \cap Pack) /\ IsFiniteSet((S \cap Pack) \ ops)
  BY FS_Intersection, FS_Difference, CuratorAssumption
<1>3. IsFiniteSet(dropped \ ops)
  BY <1>2
<1>4. IsFiniteSet({}) /\ Cardinality({}) <= ReliedLimit
  BY FS_EmptySet, LimitsAreNatural
<1>5. IsFiniteSet(carried) /\ Cardinality(carried) <= ReliedLimit
  BY <1>2, <1>4, ReliedKeepsLimit, UpToLimitKeepsLimit
<1> HIDE DEF ops, carried, dropped
<1>6. IsFiniteSet(UpToLimit(carried, dropped \ ops)) /\ Cardinality(UpToLimit(carried, dropped \ ops)) <= ReliedLimit
  BY <1>3, <1>5, UpToLimitKeepsLimit
<1>7. IsFiniteSet(named) /\ Cardinality(named) <= ReliedLimit
  BY <1>2, <1>6, UpToLimitKeepsLimit
<1> HIDE DEF named
<1> QED
  BY <1>1, <1>2, <1>7, UpToLimitKeepsLimit

\* What the boundary lets through are the proposal's own operations.
LEMMA BoundaryParts ==
  ASSUME NEW p, NEW second
  PROVE  Boundary(p, second).active \subseteq p.claims /\ Boundary(p, second).relied = Relied(p)
BY Zenon DEF Boundary

\* The staged rows are counted, and a new claim is a claim.
LEMMA StagedByType ==
  ASSUME CtxType(ctx), Unstaged(ctx), NEW p, ProposalShape(p), NEW second
  PROVE  LET s == StagedBy(p, Boundary(p, second))
         IN  /\ Rec(StagedFields, s) /\ s.claim \in Nat /\ s.new \in 0 .. s.claim
             /\ s.evidence \in Nat /\ s.question \in Nat
<1> DEFINE b == Boundary(p, second)
           fresh == {c \in b.active \ b.converted : ~Reverifies(c)}
           kept == {{<<c, l>> : l \in KeptLinks(c)} : c \in b.active}
<1>1. IsFiniteSet(b.active) /\ b.active \subseteq p.claims
  BY BoundaryParts, FS_Subset DEF ProposalShape
<1> HIDE DEF b
<1>2. Cardinality(b.active) \in Nat
  BY <1>1, FS_CardinalityType
<1>3. Cardinality(fresh) \in Nat /\ Cardinality(fresh) <= Cardinality(b.active)
  <2>1. fresh \in SUBSET b.active
    OBVIOUS
  <2> HIDE DEF fresh
  <2> QED
    BY <1>1, <2>1, FS_Subset, FS_CardinalityType
<1>4. Cardinality(UNION kept) \in Nat
  <2>1. \A c \in b.active : IsFiniteSet(c.links)
    BY <1>1 DEF ProposalShape
  <2>2. \A c \in b.active : IsFiniteSet(KeptLinks(c))
    <3>1. TAKE c \in b.active
    <3>2. KeptLinks(c) \in SUBSET c.links
      BY DEF KeptLinks, Valued
    <3> QED
      BY <2>1, <3>2, FS_Subset
  <2>3. \A c \in b.active : IsFiniteSet({<<c, l>> : l \in KeptLinks(c)})
    <3>1. TAKE c \in b.active
    <3> DEFINE L == KeptLinks(c)
               T == {<<c, l>> : l \in L}
               f == [l \in L |-> <<c, l>>]
    <3>2. IsFiniteSet(L)
      BY <2>2
    <3> HIDE DEF L
    <3>3. f \in Surjection(L, T)
      BY DEF Surjection
    <3> QED
      BY <3>2, <3>3, FS_Surjection DEF L
  <2>4. IsFiniteSet(kept)
    <3> DEFINE A == b.active
               f == [c \in A |-> {<<c, l>> : l \in KeptLinks(c)}]
    <3>1. f \in Surjection(A, kept)
      BY DEF Surjection
    <3> QED
      BY <1>1, <3>1, FS_Surjection
  <2>5. \A T \in kept : IsFiniteSet(T)
    BY <2>3
  <2> HIDE DEF kept
  <2> QED
    BY <2>4, <2>5, FS_UNION, FS_CardinalityType
<1>5. /\ ctx.staged.claim = 0 /\ ctx.staged.evidence = 0
      /\ ctx.staged.question \in Nat /\ p.questions \in Nat
  BY LimitsAreNatural DEF CtxType, StagedType, Unstaged, ProposalShape
<1>6. StagedBy(p, b) = [claim |-> ctx.staged.claim + Cardinality(b.active), new |-> Cardinality(fresh),
                        evidence |-> ctx.staged.evidence + Cardinality(UNION kept),
                        question |-> ctx.staged.question + p.questions]
  BY DEF StagedBy, StagedClaims, StagedEvidence
<1> HIDE DEF fresh, kept
<1>7. Rec(StagedFields, StagedBy(p, b))
  BY ONLY <1>6 DEF Rec, StagedFields
<1>8. /\ StagedBy(p, b).claim = Cardinality(b.active) /\ StagedBy(p, b).new = Cardinality(fresh)
      /\ StagedBy(p, b).evidence = Cardinality(UNION kept)
      /\ StagedBy(p, b).question = ctx.staged.question + p.questions
  BY <1>2, <1>4, <1>5, <1>6
<1>9. /\ StagedBy(p, b).claim \in Nat /\ StagedBy(p, b).new \in 0 .. StagedBy(p, b).claim
      /\ StagedBy(p, b).evidence \in Nat /\ StagedBy(p, b).question \in Nat
  BY <1>2, <1>3, <1>4, <1>5, <1>8
<1> QED
  BY <1>7, <1>9 DEF b

-----------------------------------------------------------------------------
(* What each step does to the session's view.                              *)

\* A tool call spends its step; it stages at most a question.
LEMMA ToolStepCtx ==
  ASSUME CtxType(ctx), NEW c \in Calls, NEW out, ToolStep(c, out)
  PROVE  /\ CtxType(ctx') /\ (Unstaged(ctx) => Unstaged(ctx'))
         /\ ctx'.step = ctx.step + 1 /\ ctx'.q = ctx.q /\ ctx'.deferred = ctx.deferred
         /\ ctx'.reason = ctx.reason /\ ctx'.round = ctx.round
<1>1. /\ ctx' = Executed(c, out) /\ ctx.step < MaxSteps /\ ctx.counts[c] < RepeatLimit
      /\ Call[c].tool = "question.create" /\ out # "unknown" => ctx.staged.question + 1 <= MaxNewQuestions
  <2>1. ~(ctx.counts[c] >= RepeatLimit)
    BY DEF ToolStep, Refused
  <2>2. ctx.counts[c] \in Int
    BY DEF CtxType, RepeatLimit
  <2> QED
    BY <2>1, <2>2 DEF ToolStep, Thinking, QuestionFits, RepeatLimit
<1>2. Rec(CtxFields, ctx) /\ Rec(StagedFields, ctx.staged)
  BY DEF CtxType, StagedType
<1>3. /\ Rec(CtxFields, ctx') /\ Rec(StagedFields, ctx'.staged)
      /\ ctx'.step = ctx.step + 1 /\ ctx'.q = ctx.q /\ ctx'.deferred = ctx.deferred
      /\ ctx'.reason = ctx.reason /\ ctx'.round = ctx.round /\ ctx'.open = ctx.open
      /\ ctx'.relied = ctx.relied
      /\ ctx'.counts = [ctx.counts EXCEPT ![c] = @ + 1]
      /\ ctx'.staged = [ctx.staged EXCEPT !.question =
                            IF out # "unknown" /\ Call[c].tool = "question.create" THEN @ + 1 ELSE @]
  <2> DEFINE done == out # "unknown"
             ok == out = "ok"
             cover == Mark(ctx.cover, c, ok)
             unknown == ctx.unknown \/ ~done
             evidence == ctx.evidence \/ (ok /\ Call[c].tool \in Observing)
             question == IF done /\ Call[c].tool = "question.create"
                         THEN ctx.staged.question + 1 ELSE ctx.staged.question
             answered == IF done /\ Call[c].tool = "message.reply"
                         THEN ctx.answered \cup {Call[c].message} ELSE ctx.answered
             searched == IF ok /\ Call[c].tool = "web.search"
                         THEN ctx.searched \cup {Call[c].stems} ELSE ctx.searched
             aggregate == ctx.aggregate
                          \/ (ok /\ Call[c].tool = "web.search" /\ Call[c].actors >= MultiActorMin)
             blocked == IF out = "unreachable" THEN ctx.blocked \cup {Call[c].host} ELSE ctx.blocked
  <2>1. ctx' = [ctx EXCEPT !.step = ctx.step + 1, !.counts[c] = ctx.counts[c] + 1, !.cover = cover,
                           !.unknown = unknown, !.evidence = evidence, !.staged.question = question,
                           !.answered = answered, !.searched = searched, !.aggregate = aggregate,
                           !.blocked = blocked]
    BY <1>1, Zenon DEF Executed
  <2>2. question = IF out # "unknown" /\ Call[c].tool = "question.create"
                   THEN ctx.staged.question + 1 ELSE ctx.staged.question
    OBVIOUS
  <2> HIDE DEF done, ok, cover, unknown, evidence, question, answered, searched, aggregate, blocked
  <2>3. /\ Rec(CtxFields, ctx') /\ Rec(StagedFields, ctx'.staged)
        /\ ctx'.step = ctx.step + 1 /\ ctx'.q = ctx.q /\ ctx'.deferred = ctx.deferred
        /\ ctx'.reason = ctx.reason /\ ctx'.round = ctx.round /\ ctx'.open = ctx.open
        /\ ctx'.relied = ctx.relied
        /\ ctx'.counts = [ctx.counts EXCEPT ![c] = ctx.counts[c] + 1]
        /\ ctx'.staged = [ctx.staged EXCEPT !.question = question]
    BY ONLY <1>2, <2>1 DEF Rec, CtxFields, StagedFields
  <2> QED
    BY <2>2, <2>3
<1>4. ctx'.counts \in [Calls -> 0 .. RepeatLimit]
  <2>1. ctx.counts \in [Calls -> 0 .. RepeatLimit] /\ ctx.counts[c] + 1 \in 0 .. RepeatLimit
    BY <1>1 DEF CtxType, RepeatLimit
  <2> QED
    BY <1>3, <2>1
<1>5. /\ StagedType(ctx'.staged)
      /\ ctx'.staged.claim = ctx.staged.claim /\ ctx'.staged.new = ctx.staged.new
      /\ ctx'.staged.evidence = ctx.staged.evidence
  <2>1. StagedType(ctx.staged) /\ ctx.staged.question \in Nat
    BY LimitsAreNatural DEF CtxType, StagedType
  <2> DEFINE asks == out # "unknown" /\ Call[c].tool = "question.create"
  <2>2. CASE asks
    <3>1. ctx'.staged = [ctx.staged EXCEPT !.question = ctx.staged.question + 1]
      BY <1>3, <2>2
    <3>2. ctx'.staged.question = ctx.staged.question + 1 /\ ctx.staged.question + 1 <= MaxNewQuestions
      BY <1>1, <1>2, <2>2, <3>1 DEF Rec, StagedFields
    <3>3. /\ ctx'.staged.claim = ctx.staged.claim /\ ctx'.staged.new = ctx.staged.new
          /\ ctx'.staged.evidence = ctx.staged.evidence
      BY <1>2, <3>1 DEF Rec, StagedFields
    <3> QED
      BY <1>3, <2>1, <3>2, <3>3, LimitsAreNatural DEF StagedType
  <2>3. CASE ~asks
    <3>1. ctx'.staged = ctx.staged
      BY <1>2, <1>3, <2>3 DEF Rec, StagedFields
    <3> QED
      BY <2>1, <3>1
  <2> QED
    BY <2>2, <2>3
<1>6. ctx'.step \in 0 .. MaxSteps
  BY <1>1, <1>3, LimitsAreNatural DEF CtxType
<1>7. CtxType(ctx')
  BY <1>3, <1>4, <1>5, <1>6, Zenon DEF CtxType
<1> QED
  BY <1>3, <1>5, <1>7 DEF Unstaged

\* The next step's view, when only these locals of the loop changed
LEMMA StepCtx ==
  ASSUME CtxType(ctx), ctx.step < MaxSteps, NEW reason,
         ctx' = [ctx EXCEPT !.step = ctx.step + 1, !.reason = reason]
  PROVE  /\ CtxType(ctx') /\ (Unstaged(ctx) => Unstaged(ctx'))
         /\ ctx'.step = ctx.step + 1 /\ ctx'.q = ctx.q /\ ctx'.deferred = ctx.deferred
         /\ ctx'.reason = reason /\ ctx'.round = ctx.round /\ ctx'.cover = ctx.cover
<1>1. Rec(CtxFields, ctx)
  BY DEF CtxType
<1>2. /\ Rec(CtxFields, ctx')
      /\ ctx'.step = ctx.step + 1 /\ ctx'.q = ctx.q /\ ctx'.deferred = ctx.deferred
      /\ ctx'.reason = reason /\ ctx'.round = ctx.round /\ ctx'.open = ctx.open
      /\ ctx'.relied = ctx.relied /\ ctx'.counts = ctx.counts /\ ctx'.staged = ctx.staged
      /\ ctx'.cover = ctx.cover
  BY <1>1 DEF Rec, CtxFields
<1>3. ctx'.step \in 0 .. MaxSteps
  BY <1>2, LimitsAreNatural DEF CtxType
<1>4. CtxType(ctx')
  BY <1>2, <1>3, Zenon DEF CtxType
<1> QED
  BY <1>2, <1>4 DEF Unstaged

LEMMA SelectCtx ==
  ASSUME CtxType(ctx), NEW q, NEW deferred, NEW cover,
         ctx' = [ctx EXCEPT !.q = q, !.deferred = deferred, !.cover = cover]
  PROVE  /\ CtxType(ctx') /\ (Unstaged(ctx) => Unstaged(ctx'))
         /\ ctx'.q = q /\ ctx'.deferred = deferred /\ ctx'.step = ctx.step
         /\ ctx'.reason = ctx.reason /\ ctx'.round = ctx.round
<1>1. Rec(CtxFields, ctx)
  BY DEF CtxType
<1>2. /\ Rec(CtxFields, ctx')
      /\ ctx'.step = ctx.step /\ ctx'.q = q /\ ctx'.deferred = deferred
      /\ ctx'.reason = ctx.reason /\ ctx'.round = ctx.round /\ ctx'.open = ctx.open
      /\ ctx'.relied = ctx.relied /\ ctx'.counts = ctx.counts /\ ctx'.staged = ctx.staged
  BY <1>1 DEF Rec, CtxFields
<1>3. CtxType(ctx')
  BY <1>2, Zenon DEF CtxType
<1> QED
  BY <1>2, <1>3 DEF Unstaged

LEMMA OpenCtx ==
  ASSUME NEW delivered, ctx' = [Fresh EXCEPT !.delivered = delivered]
  PROVE  CtxType(ctx') /\ Unstaged(ctx') /\ ctx'.q = "none" /\ ctx'.reason = "none"
<1>1. CtxType(Fresh) /\ Unstaged(Fresh) /\ Fresh.q = "none" /\ Fresh.reason = "none"
  BY FreshType DEF Fresh
<1>2. Rec(CtxFields, Fresh)
  BY <1>1 DEF CtxType
<1> DEFINE f == Fresh
<1> HIDE DEF f
<1>3. ctx' = [f EXCEPT !.delivered = delivered] /\ Rec(CtxFields, f)
  BY <1>2 DEF f
<1>4. /\ Rec(CtxFields, ctx')
      /\ ctx'.step = f.step /\ ctx'.q = f.q /\ ctx'.reason = f.reason /\ ctx'.round = f.round
      /\ ctx'.open = f.open /\ ctx'.relied = f.relied /\ ctx'.counts = f.counts /\ ctx'.staged = f.staged
  BY ONLY <1>3 DEF Rec, CtxFields
<1>5. CtxType(f) /\ Unstaged(f) /\ f.q = "none" /\ f.reason = "none"
  BY <1>1 DEF f
<1>6. CtxType(ctx')
  BY ONLY <1>4, <1>5, Zenon DEF CtxType
<1> QED
  BY ONLY <1>4, <1>5, <1>6 DEF Unstaged

\* The loop's locals go out of scope.
LEMMA EndExploringCtx ==
  ASSUME CtxType(ctx), EndExploring
  PROVE  /\ CtxType(ctx') /\ (Unstaged(ctx) => Unstaged(ctx'))
         /\ ctx'.q = ctx.q /\ ctx'.deferred = ctx.deferred /\ ctx'.round = ctx.round
         /\ ctx'.reason = (IF ctx.reason = "none" THEN "budget_exhausted" ELSE ctx.reason)
         /\ (Covered => ~ctx'.open)
<1> DEFINE open == ~Covered
           reason == IF ctx.reason = "none" THEN "budget_exhausted" ELSE ctx.reason
           counts == Fresh.counts
<1>1. ctx' = [ctx EXCEPT !.reason = reason, !.step = 0, !.counts = counts, !.blocked = {},
                         !.searched = {}, !.aggregate = FALSE, !.open = open, !.cover = <<>>]
  BY Zenon DEF EndExploring
<1>2. Rec(CtxFields, ctx)
  BY DEF CtxType
<1>3. open \in BOOLEAN /\ counts \in [Calls -> 0 .. RepeatLimit]
  BY FreshType DEF Covered, CtxType
<1>4. reason = IF ctx.reason = "none" THEN "budget_exhausted" ELSE ctx.reason
  OBVIOUS
<1>5. Covered => ~open
  OBVIOUS
<1> HIDE DEF open, reason, counts
<1>6. /\ Rec(CtxFields, ctx')
      /\ ctx'.step = 0 /\ ctx'.q = ctx.q /\ ctx'.deferred = ctx.deferred
      /\ ctx'.reason = reason /\ ctx'.round = ctx.round /\ ctx'.open = open
      /\ ctx'.relied = ctx.relied /\ ctx'.counts = counts /\ ctx'.staged = ctx.staged
  BY ONLY <1>1, <1>2 DEF Rec, CtxFields
<1>7. ctx'.step \in 0 .. MaxSteps
  BY <1>6, LimitsAreNatural
<1>8. CtxType(ctx')
  BY <1>3, <1>6, <1>7, Zenon DEF CtxType
<1> QED
  BY <1>4, <1>5, <1>6, <1>8 DEF Unstaged

\* An accepted proposal is within every limit.
LEMMA AcceptCtx ==
  ASSUME CtxType(ctx), Unstaged(ctx), NEW p, ProposalShape(p), Accept(p)
  PROVE  /\ CtxType(ctx') /\ ctx'.q = ctx.q /\ ctx'.deferred = ctx.deferred
         /\ ctx'.reason = ctx.reason /\ ctx'.round = ctx.round /\ ctx'.open = ctx.open
         /\ ctx'.step = ctx.step
<1> DEFINE b == Boundary(p, ctx.round = 2)
           s == StagedBy(p, b)
           n == Cardinality(p.claims)
<1>1. PICK answer, fresher \in SUBSET Pack :
        ctx' = [ctx EXCEPT !.claims = n, !.staged = s, !.relied = AllRelied(ctx.first, p, b, answer, fresher)]
  BY Zenon DEF Accept
<1>2. Fits(s)
  BY Zenon DEF Accept
<1> DEFINE r == AllRelied(ctx.first, p, b, answer, fresher)
<1>3. Cardinality(r) <= ReliedLimit
  BY BoundaryParts, AllReliedKeepsLimit
<1>4. /\ Rec(StagedFields, s) /\ s.claim \in Nat /\ s.new \in 0 .. s.claim
      /\ s.evidence \in Nat /\ s.question \in Nat
  BY StagedByType
<1>5. Rec(CtxFields, ctx)
  BY DEF CtxType
<1> HIDE DEF s, n, r, b
<1>6. StagedType(s)
  BY <1>2, <1>4, LimitsAreNatural DEF StagedType, Fits
<1>7. ctx' = [ctx EXCEPT !.claims = n, !.staged = s, !.relied = r]
  BY <1>1 DEF r
<1>8. /\ Rec(CtxFields, ctx')
      /\ ctx'.step = ctx.step /\ ctx'.q = ctx.q /\ ctx'.deferred = ctx.deferred
      /\ ctx'.reason = ctx.reason /\ ctx'.round = ctx.round /\ ctx'.open = ctx.open
      /\ ctx'.relied = r /\ ctx'.counts = ctx.counts /\ ctx'.staged = s
  BY ONLY <1>5, <1>7 DEF Rec, CtxFields
<1>9. CtxType(ctx')
  BY <1>3, <1>6, <1>8, Zenon DEF CtxType
<1> QED
  BY <1>8, <1>9

LEMMA SecondRoundCtx ==
  ASSUME CtxType(ctx), NEW first, ctx' = [ctx EXCEPT !.round = 2, !.first = first]
  PROVE  /\ CtxType(ctx') /\ (Unstaged(ctx) => Unstaged(ctx'))
         /\ ctx'.q = ctx.q /\ ctx'.deferred = ctx.deferred /\ ctx'.reason = ctx.reason
         /\ ctx'.round = 2 /\ ctx'.open = ctx.open /\ ctx'.step = ctx.step
<1>1. Rec(CtxFields, ctx)
  BY DEF CtxType
<1>2. /\ Rec(CtxFields, ctx')
      /\ ctx'.step = ctx.step /\ ctx'.q = ctx.q /\ ctx'.deferred = ctx.deferred
      /\ ctx'.reason = ctx.reason /\ ctx'.round = 2 /\ ctx'.open = ctx.open
      /\ ctx'.relied = ctx.relied /\ ctx'.counts = ctx.counts /\ ctx'.staged = ctx.staged
  BY <1>1 DEF Rec, CtxFields
<1>3. ctx'.round \in {1, 2}
  BY <1>2
<1>4. CtxType(ctx')
  BY <1>2, <1>3, Zenon DEF CtxType
<1> QED
  BY <1>2, <1>4 DEF Unstaged

LEMMA ReportCtx ==
  ASSUME CtxType(ctx), ctx' = [ctx EXCEPT !.relied = {}, !.first = {}, !.round = 1]
  PROVE  /\ CtxType(ctx')
         /\ ctx'.q = ctx.q /\ ctx'.deferred = ctx.deferred /\ ctx'.reason = ctx.reason
         /\ ctx'.round = 1 /\ ctx'.open = ctx.open /\ ctx'.step = ctx.step
<1>1. Rec(CtxFields, ctx)
  BY DEF CtxType
<1>2. /\ Rec(CtxFields, ctx')
      /\ ctx'.step = ctx.step /\ ctx'.q = ctx.q /\ ctx'.deferred = ctx.deferred
      /\ ctx'.reason = ctx.reason /\ ctx'.round = 1 /\ ctx'.open = ctx.open
      /\ ctx'.relied = {} /\ ctx'.counts = ctx.counts /\ ctx'.staged = ctx.staged
  BY <1>1 DEF Rec, CtxFields
<1>3. ctx'.round \in {1, 2} /\ Cardinality(ctx'.relied) <= ReliedLimit
  BY <1>2, FS_EmptySet, LimitsAreNatural
<1>4. CtxType(ctx')
  BY <1>2, <1>3, Zenon DEF CtxType
<1> QED
  BY <1>2, <1>4

-----------------------------------------------------------------------------
(* The invariant.                                                          *)

States == {"none", "selecting_question", "planning", "exploring", "verifying", "consolidating",
           "reporting", "committing"}

\* A question is chosen and its session is not visible yet.
Working == {"planning", "exploring", "verifying", "consolidating", "reporting"}

SessionRec == [state : {"committing", "succeeded", "succeeded_partial", "failed"},
               new : BOOLEAN, applied : BOOLEAN, open : BOOLEAN]

RowsType ==
    /\ qstate \in [Questions -> Investigated \cup {"absent", "candidate"}]
    /\ Listed(arrived)
    /\ \A q \in Questions : qstate[q] = "absent" <=> q \notin Range(arrived)
    /\ hist \in [Questions -> Seq(SessionRec)]

\* A question in the queue, or deferred from it, has no session yet.
FirstSession ==
    \A q \in Questions : /\ hist[q] = <<>> \/ \E r \in SessionRec : hist[q] = <<r>>
                         /\ qstate[q] \in {"absent", "candidate", "deferred"} => hist[q] = <<>>

\* What the running session works on
ChosenQuestion ==
    /\ st \in {"none", "selecting_question"} => ctx.q = "none"
    /\ st \in Working => /\ ctx.q \in Questions /\ qstate[ctx.q] = "candidate"
                         /\ \A d \in ctx.deferred : d \in Questions /\ qstate[d] = "candidate"
    /\ st = "committing" => /\ ctx.q \in Questions /\ qstate[ctx.q] = "researching"
                            /\ hist[ctx.q] # <<>>

\* What it may say of itself
HonestReason ==
    /\ st \in {"none", "selecting_question", "planning"} => ctx.reason = "none"
    /\ st = "exploring" /\ ctx.reason = "goal_reached" => Covered
    /\ st \in {"verifying", "consolidating", "reporting", "committing"} /\ ctx.reason = "goal_reached" => ~ctx.open

NothingStaged ==
    st \in {"selecting_question", "planning", "exploring", "verifying", "consolidating"} => Unstaged(ctx)

CtxInv == CtxType(ctx) /\ st \in States /\ ChosenQuestion /\ HonestReason /\ NothingStaged

RunInv == RowsType /\ FirstSession /\ VerifiedHasClaim /\ SuccessIsCovered /\ CtxInv

LEMMA StatesAreTransitions == DOMAIN Transitions = States
BY DEF Transitions, States

LEMMA CandidateIsQuestion ==
  ASSUME RowsType PROVE \A q \in Candidates({}) : q \in Questions /\ qstate[q] = "candidate"
<1>1. \A q \in Range(arrived) : q \in Questions
  BY DEF RowsType, Listed, Range
<1> QED
  BY <1>1 DEF Candidates, Selectable

LEMMA InitRunInv == Init => RunInv
<1> SUFFICES ASSUME Init PROVE RunInv
  OBVIOUS
<1>1. /\ qstate = [q \in Questions |-> IF q \in Seeded THEN "candidate" ELSE "absent"]
      /\ hist = [q \in Questions |-> <<>>] /\ st = "none" /\ ctx = Fresh
  BY DEF Init
<1>2. Listed(arrived) /\ Range(arrived) = Seeded
  <2> DEFINE n == Cardinality(Seeded)
  <2>1. arrived \in [1 .. n -> Seeded] /\ \A i, j \in 1 .. n : i # j => arrived[i] # arrived[j]
    BY DEF Init, SetToSeqs
  <2>2. IsFiniteSet(Seeded) /\ n \in Nat /\ Seeded \subseteq Questions
    BY RunAssumption, FS_Subset, FS_CardinalityType
  <2>3. IsInjective(arrived) /\ arrived \in Injection(1 .. n, Seeded)
    BY <2>1 DEF IsInjective, Injection
  <2>4. IsFiniteSet(1 .. n) /\ Cardinality(1 .. n) = n
    BY <2>2, FS_Interval
  <2>5. arrived \in Surjection(1 .. n, Seeded)
    BY <2>2, <2>3, <2>4, FS_Injection
  <2>6. Range(arrived) = Seeded
    BY <2>1, <2>5 DEF Surjection, Range
  <2>7. arrived \in Seq(Questions)
    BY <2>1, <2>2
  <2> QED
    BY <2>3, <2>6, <2>7 DEF Listed
<1>3. CtxInv
  <2>1. ctx.q = "none" /\ ctx.reason = "none"
    BY <1>1 DEF Fresh
  <2>2. CtxType(ctx) /\ Unstaged(ctx)
    BY <1>1, FreshType
  <2> QED
    BY <1>1, <2>1, <2>2 DEF CtxInv, ChosenQuestion, HonestReason, NothingStaged, States, Working
<1>4. RowsType
  BY <1>1, <1>2 DEF RowsType, Investigated
<1>5. FirstSession /\ VerifiedHasClaim /\ SuccessIsCovered
  BY <1>1 DEF FirstSession, VerifiedHasClaim, SuccessIsCovered
<1> QED
  BY <1>3, <1>4, <1>5 DEF RunInv

\* A step of the session that writes no row outside of it
LEMMA RowsUntouched ==
  ASSUME RunInv, UNCHANGED <<qstate, arrived, hist>>, CtxInv' PROVE RunInv'
<1>1. RowsType' /\ FirstSession' /\ VerifiedHasClaim' /\ SuccessIsCovered'
  BY DEF RunInv, RowsType, FirstSession, VerifiedHasClaim, SuccessIsCovered
<1> QED
  BY <1>1 DEF RunInv

\* Most steps keep the question and only move the session on.
LEMMA MovedOn ==
  ASSUME CtxInv, UNCHANGED <<qstate, hist>>, CtxType(ctx'), st \in Working, st' \in Working,
         ctx'.q = ctx.q, ctx'.deferred = ctx.deferred, HonestReason', NothingStaged'
  PROVE  CtxInv'
BY DEF CtxInv, ChosenQuestion, Working, States

LEMMA EndedSession == ASSUME st' = "none", ctx' = Fresh PROVE CtxInv'
<1>1. CtxType(ctx') /\ ctx'.q = "none" /\ ctx'.reason = "none"
  BY FreshType DEF Fresh
<1> QED
  BY <1>1 DEF CtxInv, ChosenQuestion, HonestReason, NothingStaged, States, Working

LEMMA OpenSessionInv == ASSUME RunInv, OpenSession PROVE RunInv'
<1>1. CtxType(ctx') /\ Unstaged(ctx') /\ ctx'.q = "none" /\ ctx'.reason = "none"
  BY OpenCtx DEF OpenSession
<1>2. st' = "selecting_question" /\ UNCHANGED <<qstate, arrived, hist>>
  BY DEF OpenSession
<1>3. CtxInv'
  BY <1>1, <1>2 DEF CtxInv, ChosenQuestion, HonestReason, NothingStaged, States, Working
<1> QED
  BY <1>2, <1>3, RowsUntouched

LEMMA SelectQuestionInv == ASSUME RunInv, SelectQuestion PROVE RunInv'
<1>1. PICK favourite \in Questions :
        /\ Guarded(favourite).q # "none"
        /\ ctx' = [ctx EXCEPT !.q = Guarded(favourite).q, !.deferred = Guarded(favourite).deferred,
                              !.cover = [s \in Named[Guarded(favourite).q] |-> "pending"]]
  BY DEF SelectQuestion
<1>2. st = "selecting_question" /\ st' = "planning" /\ UNCHANGED <<qstate, arrived, hist>>
  BY DEF SelectQuestion, To
<1> DEFINE q == Guarded(favourite).q
           deferred == Guarded(favourite).deferred
<1>3. q \in Candidates({}) /\ deferred \subseteq Candidates({})
  BY <1>1, GuardedChoosesCandidates DEF RunInv, RowsType
<1>4. /\ q \in Questions /\ qstate[q] = "candidate"
      /\ \A d \in deferred : d \in Questions /\ qstate[d] = "candidate"
  BY <1>3, CandidateIsQuestion DEF RunInv
<1> HIDE DEF q, deferred
<1>5. /\ CtxType(ctx') /\ Unstaged(ctx') /\ ctx'.q = q /\ ctx'.deferred = deferred /\ ctx'.reason = "none"
  <2>1. CtxType(ctx) /\ Unstaged(ctx) /\ ctx.reason = "none"
    BY <1>2 DEF RunInv, CtxInv, NothingStaged, HonestReason
  <2> QED
    BY <1>1, <2>1, SelectCtx DEF q, deferred
<1>6. CtxInv'
  BY <1>2, <1>4, <1>5 DEF CtxInv, ChosenQuestion, HonestReason, NothingStaged, States, Working
<1> QED
  BY <1>2, <1>6, RowsUntouched

\* Template, tool call, refusal, completion, end of the loop, report of the verifier
LEMMA WorkInv ==
  ASSUME RunInv,
         \/ Plan
         \/ \E c \in Calls, out \in {"ok", "failed", "unreachable", "unknown"} : ToolStep(c, out)
         \/ \E c \in Calls : DeniedStep(c)
         \/ \E reason \in {"goal_reached", "other"} : CompleteStep(reason)
         \/ EndExploring \/ Verify
  PROVE  RunInv'
<1>1. UNCHANGED <<qstate, arrived, hist>>
  BY Zenon DEF Plan, ToolStep, DeniedStep, CompleteStep, EndExploring, Verify
<1>2. CtxInv /\ CtxType(ctx)
  BY DEF RunInv, CtxInv
<1>3. CASE Plan
  <2>1. st = "planning" /\ st' = "exploring" /\ ctx' = ctx
    BY <1>3 DEF Plan, To
  <2>2. HonestReason' /\ NothingStaged'
    BY <1>2, <2>1 DEF CtxInv, HonestReason, NothingStaged
  <2>3. CtxInv'
    BY <1>1, <1>2, <2>1, <2>2, MovedOn DEF Working
  <2> QED
    BY <1>1, <2>3, RowsUntouched
<1>4. ASSUME NEW c \in Calls, NEW out, ToolStep(c, out) PROVE RunInv'
  <2>1. st = "exploring" /\ st' = "exploring" /\ ctx.reason = "none"
    BY <1>4 DEF ToolStep, Thinking
  <2>2. /\ CtxType(ctx') /\ (Unstaged(ctx) => Unstaged(ctx'))
        /\ ctx'.q = ctx.q /\ ctx'.deferred = ctx.deferred /\ ctx'.reason = ctx.reason
    BY <1>2, <1>4, ToolStepCtx
  <2>3. HonestReason' /\ NothingStaged'
    BY <1>2, <2>1, <2>2 DEF CtxInv, HonestReason, NothingStaged
  <2>4. CtxInv'
    BY <1>1, <1>2, <2>1, <2>2, <2>3, MovedOn DEF Working
  <2> QED
    BY <1>1, <2>4, RowsUntouched
<1>5. ASSUME NEW reason, Thinking, UNCHANGED st,
             ctx' = [ctx EXCEPT !.step = ctx.step + 1, !.reason = reason],
             reason = "goal_reached" => Covered
      PROVE  RunInv'
  <2>1. st = "exploring" /\ st' = "exploring" /\ ctx.step < MaxSteps
    BY <1>5 DEF Thinking
  <2>2. /\ CtxType(ctx') /\ (Unstaged(ctx) => Unstaged(ctx'))
        /\ ctx'.q = ctx.q /\ ctx'.deferred = ctx.deferred /\ ctx'.reason = reason /\ ctx'.cover = ctx.cover
    BY <1>2, <1>5, <2>1, StepCtx
  <2>3. HonestReason'
    BY <1>5, <2>1, <2>2 DEF HonestReason, Covered
  <2>4. NothingStaged'
    BY <1>2, <2>1, <2>2 DEF CtxInv, NothingStaged
  <2>5. CtxInv'
    BY <1>1, <1>2, <2>1, <2>2, <2>3, <2>4, MovedOn DEF Working
  <2> QED
    BY <1>1, <2>5, RowsUntouched
<1>6. ASSUME NEW c \in Calls, DeniedStep(c) PROVE RunInv'
  <2>1. Thinking /\ UNCHANGED st /\ ctx.reason = "none" /\ ctx' = [ctx EXCEPT !.step = ctx.step + 1]
    BY <1>6 DEF DeniedStep, Thinking
  <2>2. ctx' = [ctx EXCEPT !.step = ctx.step + 1, !.reason = ctx.reason]
    BY <1>2, <2>1 DEF CtxType, Rec, CtxFields
  <2> QED
    BY <1>5, <2>1, <2>2
<1>7. ASSUME NEW reason \in {"goal_reached", "other"}, CompleteStep(reason) PROVE RunInv'
  <2> DEFINE r == IF Covered THEN reason ELSE ctx.reason
  <2>1. Thinking /\ UNCHANGED st /\ ctx.reason = "none"
        /\ ctx' = [ctx EXCEPT !.step = ctx.step + 1, !.reason = r]
    BY <1>7, Zenon DEF CompleteStep, Thinking
  <2>2. r = "goal_reached" => Covered
    BY <2>1
  <2> HIDE DEF r
  <2> QED
    BY <1>5, <2>1, <2>2
<1>8. CASE EndExploring
  <2>1. st = "exploring" /\ st' = "verifying"
    BY <1>8 DEF EndExploring, To
  <2>2. /\ CtxType(ctx') /\ (Unstaged(ctx) => Unstaged(ctx'))
        /\ ctx'.q = ctx.q /\ ctx'.deferred = ctx.deferred
        /\ ctx'.reason = (IF ctx.reason = "none" THEN "budget_exhausted" ELSE ctx.reason)
        /\ (Covered => ~ctx'.open)
    BY <1>2, <1>8, EndExploringCtx
  <2>3. HonestReason' /\ NothingStaged'
    BY <1>2, <2>1, <2>2 DEF CtxInv, HonestReason, NothingStaged
  <2>4. CtxInv'
    BY <1>1, <1>2, <2>1, <2>2, <2>3, MovedOn DEF Working
  <2> QED
    BY <1>1, <2>4, RowsUntouched
<1>9. CASE Verify
  <2>1. st = "verifying" /\ st' = "consolidating" /\ ctx' = ctx
    BY <1>9 DEF Verify, To
  <2>2. HonestReason' /\ NothingStaged'
    BY <1>2, <2>1 DEF CtxInv, HonestReason, NothingStaged
  <2>3. CtxInv'
    BY <1>1, <1>2, <2>1, <2>2, MovedOn DEF Working
  <2> QED
    BY <1>1, <2>3, RowsUntouched
<1> QED
  BY <1>3, <1>4, <1>6, <1>7, <1>8, <1>9

\* Each end of the curation
LEMMA CuratorInv ==
  ASSUME RunInv, CuratorUnavailable \/ \E i \in Proposals : Accept(Proposal[i]) \/ Reject(Proposal[i])
  PROVE  RunInv'
<1>1. UNCHANGED <<qstate, arrived, hist>> /\ st = "consolidating"
  BY Zenon DEF CuratorUnavailable, Accept, Reject
<1>2. CtxInv /\ CtxType(ctx) /\ Unstaged(ctx) /\ (ctx.reason = "goal_reached" => ~ctx.open)
  BY <1>1 DEF RunInv, CtxInv, NothingStaged, HonestReason
<1>3. SUFFICES ASSUME st' \in {"consolidating", "reporting"}, CtxType(ctx'),
                      ctx'.q = ctx.q, ctx'.deferred = ctx.deferred, ctx'.reason = ctx.reason,
                      ctx'.open = ctx.open, st' = "consolidating" => Unstaged(ctx')
               PROVE  RunInv'
  <2>1. CASE CuratorUnavailable
    BY <1>2, <2>1 DEF CuratorUnavailable
  <2>2. ASSUME NEW i \in Proposals, Accept(Proposal[i]) PROVE RunInv'
    <3>1. ProposalShape(Proposal[i])
      BY RunAssumption
    <3>2. /\ CtxType(ctx') /\ ctx'.q = ctx.q /\ ctx'.deferred = ctx.deferred
          /\ ctx'.reason = ctx.reason /\ ctx'.open = ctx.open
      BY <1>2, <2>2, <3>1, AcceptCtx
    <3>3. st' = "reporting"
      BY <2>2, Zenon DEF Accept
    <3> QED
      BY <3>2, <3>3
  <2>3. ASSUME NEW i \in Proposals, Reject(Proposal[i]) PROVE RunInv'
    <3>1. \/ ctx' = [ctx EXCEPT !.round = 2, !.first = Proposal[i].relied] /\ UNCHANGED st
          \/ st' = "reporting" /\ UNCHANGED ctx
      BY <2>3, Zenon DEF Reject
    <3>2. CASE ctx' = [ctx EXCEPT !.round = 2, !.first = Proposal[i].relied] /\ UNCHANGED st
      BY <1>1, <1>2, <3>2, SecondRoundCtx
    <3>3. CASE st' = "reporting" /\ UNCHANGED ctx
      BY <1>2, <3>3
    <3> QED
      BY <3>1, <3>2, <3>3
  <2> QED
    BY <2>1, <2>2, <2>3
<1>4. HonestReason' /\ NothingStaged'
  BY <1>2, <1>3 DEF HonestReason, NothingStaged
<1>5. CtxInv'
  BY <1>1, <1>2, <1>3, <1>4, MovedOn DEF Working
<1> QED
  BY <1>1, <1>5, RowsUntouched

LEMMA PhaseLostInv == ASSUME RunInv, PhaseLost PROVE RunInv'
BY EndedSession, RowsUntouched DEF PhaseLost

-----------------------------------------------------------------------------
(* The steps that write question and session rows.                         *)

LEMMA AskInv == ASSUME RunInv, NEW q \in Questions, Ask(q) PROVE RunInv'
<1>1. /\ qstate[q] = "absent" /\ qstate' = [qstate EXCEPT ![q] = "candidate"]
      /\ arrived' = Append(arrived, q) /\ UNCHANGED <<hist, st, ctx>>
  BY DEF Ask
<1>2. RowsType /\ FirstSession /\ CtxInv
  BY DEF RunInv
<1>3. qstate'[q] = "candidate" /\ \A r \in Questions : r # q => qstate'[r] = qstate[r]
  BY <1>1, <1>2 DEF RowsType
<1>4. Listed(arrived') /\ Range(arrived') = Range(arrived) \cup {q}
  BY <1>1, <1>2, ListAppended DEF RowsType
<1>5. RowsType'
  <2>1. qstate' \in [Questions -> Investigated \cup {"absent", "candidate"}]
    BY <1>1, <1>2 DEF RowsType
  <2>2. \A r \in Questions : qstate'[r] = "absent" <=> r \notin Range(arrived')
    BY <1>2, <1>3, <1>4 DEF RowsType
  <2> QED
    BY <1>1, <1>2, <1>4, <2>1, <2>2 DEF RowsType
<1>6. FirstSession'
  BY <1>1, <1>2, <1>3 DEF FirstSession
<1>7. VerifiedHasClaim' /\ SuccessIsCovered'
  BY <1>1, <1>3 DEF RunInv, VerifiedHasClaim, SuccessIsCovered
<1>8. ChosenQuestion'
  BY <1>1, <1>2, <1>3 DEF CtxInv, ChosenQuestion
<1>9. CtxInv'
  BY <1>1, <1>2, <1>8 DEF CtxInv, HonestReason, NothingStaged, Covered
<1> QED
  BY <1>5, <1>6, <1>7, <1>9 DEF RunInv

\* What Published leaves of the question rows when only candidates are deferred
LEMMA PublishedRows ==
  ASSUME RowsType, NEW deferred, \A d \in deferred : d \in Questions /\ qstate[d] = "candidate",
         Published(deferred), ctx.q \in Questions => qstate[ctx.q] = "candidate"
  PROVE  /\ qstate' \in [Questions -> Investigated \cup {"absent", "candidate"}]
         /\ \A q \in Questions :
                \/ qstate'[q] = qstate[q] /\ q # ctx.q
                \/ q # ctx.q /\ qstate[q] = "candidate" /\ qstate'[q] = "deferred"
                \/ q = ctx.q /\ qstate[q] = "candidate" /\ qstate'[q] = "researching"
<1>1. qstate' = [q \in Questions |-> IF q = ctx.q THEN "researching"
                                     ELSE IF q \in deferred THEN "deferred" ELSE qstate[q]]
  BY DEF Published
<1> QED
  BY <1>1 DEF RowsType, Investigated

LEMMA NoQuestionInv == ASSUME RunInv, NoQuestion PROVE RunInv'
<1>1. PICK favourite \in Questions : Published(Guarded(favourite).deferred)
  BY DEF NoQuestion
<1>2. st = "selecting_question" /\ st' = "none" /\ ctx' = Fresh /\ UNCHANGED <<arrived, hist>>
  BY DEF NoQuestion
<1> DEFINE deferred == Guarded(favourite).deferred
<1>3. RowsType /\ FirstSession /\ ctx.q = "none" /\ "none" \notin Questions
  BY <1>2, RunAssumption DEF RunInv, CtxInv, ChosenQuestion
<1>4. \A d \in deferred : d \in Questions /\ qstate[d] = "candidate"
  BY <1>3, GuardedChoosesCandidates, CandidateIsQuestion DEF RowsType
<1> HIDE DEF deferred
<1>5. /\ qstate' \in [Questions -> Investigated \cup {"absent", "candidate"}]
      /\ \A q \in Questions : \/ qstate'[q] = qstate[q]
                              \/ qstate[q] = "candidate" /\ qstate'[q] = "deferred"
  BY <1>1, <1>3, <1>4, PublishedRows DEF deferred
<1>6. RowsType' /\ FirstSession'
  BY <1>2, <1>3, <1>5 DEF RowsType, FirstSession
<1>7. VerifiedHasClaim' /\ SuccessIsCovered'
  BY <1>2, <1>5 DEF RunInv, VerifiedHasClaim, SuccessIsCovered
<1> QED
  BY <1>2, <1>6, <1>7, EndedSession DEF RunInv

LEMMA ReportInv == ASSUME RunInv, Report PROVE RunInv'
<1> DEFINE q == ctx.q
           row == [state |-> "committing", new |-> FALSE, applied |-> FALSE, open |-> FALSE]
<1>1. /\ st = "reporting" /\ st' = "committing" /\ arrived' = arrived
      /\ Published(ctx.deferred)
      /\ hist' = [hist EXCEPT ![q] = Append(hist[q], row)]
      /\ ctx' = [ctx EXCEPT !.relied = {}, !.first = {}, !.round = 1]
  BY DEF Report, To
<1>2. RowsType /\ FirstSession /\ CtxInv /\ CtxType(ctx)
  BY DEF RunInv, CtxInv
<1>3. /\ q \in Questions /\ qstate[q] = "candidate"
      /\ \A d \in ctx.deferred : d \in Questions /\ qstate[d] = "candidate"
  BY <1>1, <1>2 DEF CtxInv, ChosenQuestion, Working
<1>4. hist[q] = <<>> /\ row \in SessionRec
  BY <1>2, <1>3 DEF FirstSession, SessionRec
<1>5. /\ qstate' \in [Questions -> Investigated \cup {"absent", "candidate"}]
      /\ \A r \in Questions :
             \/ qstate'[r] = qstate[r] /\ r # q
             \/ r # q /\ qstate[r] = "candidate" /\ qstate'[r] = "deferred"
             \/ r = q /\ qstate[r] = "candidate" /\ qstate'[r] = "researching"
  BY <1>1, <1>2, <1>3, PublishedRows
<1>6. /\ CtxType(ctx') /\ ctx'.q = q /\ ctx'.reason = ctx.reason /\ ctx'.open = ctx.open
  BY <1>1, <1>2, ReportCtx
<1> HIDE DEF q, row
<1>7. hist' = [hist EXCEPT ![q] = <<row>>]
  <2>1. Append(hist[q], row) = <<row>>
    BY <1>4
  <2> QED
    BY <1>1, <2>1
<1>8. /\ hist'[q] = <<row>> /\ \A r \in Questions : r # q => hist'[r] = hist[r]
      /\ hist' \in [Questions -> Seq(SessionRec)]
  <2>1. <<row>> \in Seq(SessionRec)
    BY <1>4
  <2> QED
    BY <1>2, <1>3, <1>7, <2>1 DEF RowsType
<1>9. RowsType'
  BY <1>1, <1>2, <1>5, <1>8 DEF RowsType
<1>10. FirstSession'
  BY <1>2, <1>3, <1>4, <1>5, <1>8 DEF FirstSession
<1>11. VerifiedHasClaim'
  BY <1>5, <1>8 DEF RunInv, VerifiedHasClaim
<1>12. SuccessIsCovered'
  <2>1. \A i \in DOMAIN <<row>> : <<row>>[i].state # "succeeded"
    BY DEF row
  <2> QED
    BY <1>8, <2>1 DEF RunInv, SuccessIsCovered
<1>13. CtxInv'
  <2>1. ChosenQuestion'
    BY <1>1, <1>3, <1>5, <1>6, <1>8 DEF ChosenQuestion, Working
  <2>2. HonestReason' /\ NothingStaged'
    BY <1>1, <1>2, <1>6 DEF CtxInv, HonestReason, NothingStaged
  <2> QED
    BY <1>1, <1>6, <2>1, <2>2 DEF CtxInv, States
<1> QED
  BY <1>9, <1>10, <1>11, <1>12, <1>13 DEF RunInv

\* The one row of a question whose session is committing is replaced.
LEMMA RowReplaced ==
  ASSUME RowsType, FirstSession, NEW q \in Questions, hist[q] # <<>>, NEW row \in SessionRec,
         hist' = [hist EXCEPT ![q][Len(hist[q])] = row]
  PROVE  /\ hist'[q] = <<row>> /\ \A r \in Questions : r # q => hist'[r] = hist[r]
         /\ hist' \in [Questions -> Seq(SessionRec)]
<1>1. PICK old \in SessionRec : hist[q] = <<old>>
  BY DEF FirstSession
<1>2. [hist[q] EXCEPT ![Len(hist[q])] = row] = <<row>>
  BY <1>1
<1>3. hist' = [hist EXCEPT ![q] = <<row>>]
  BY <1>2
<1>4. <<row>> \in Seq(SessionRec)
  OBVIOUS
<1> QED
  BY <1>3, <1>4 DEF RowsType

LEMMA FinalizeInv == ASSUME RunInv, Finalize PROVE RunInv'
<1> DEFINE q == ctx.q
           row == [state |-> Terminal, new |-> ctx.staged.new > 0,
                   applied |-> ctx.staged.claim > 0, open |-> ctx.open]
<1>1. PICK fresh \in SUBSET {r \in Questions : qstate[r] = "absent"} :
        /\ qstate' = [r \in Questions |-> IF r = q THEN WrittenQuestionState
                                          ELSE IF r \in fresh THEN "candidate" ELSE qstate[r]]
        /\ arrived' = arrived \o SetToSeq(fresh)
  BY Zenon DEF Finalize
<1>2. /\ st = "committing" /\ st' = "none" /\ ctx' = Fresh
      /\ hist' = [hist EXCEPT ![q][Len(hist[q])] = row]
  BY Zenon DEF Finalize
<1>3. RowsType /\ FirstSession /\ CtxInv /\ CtxType(ctx)
  BY DEF RunInv, CtxInv
<1>4. q \in Questions /\ qstate[q] = "researching" /\ hist[q] # <<>>
  BY <1>2, <1>3 DEF CtxInv, ChosenQuestion
<1>5. Terminal \in {"succeeded", "succeeded_partial", "failed"} /\ (Terminal = "succeeded" => ctx.reason = "goal_reached")
  BY DEF Terminal
<1>6. ctx.staged.new \in Int /\ ctx.staged.claim \in Int /\ ctx.open \in BOOLEAN
  BY <1>3, LimitsAreNatural DEF CtxType, StagedType
<1>7. row \in SessionRec
  <2>1. (ctx.staged.new > 0) \in BOOLEAN /\ (ctx.staged.claim > 0) \in BOOLEAN
    BY <1>6
  <2> QED
    BY <1>5, <1>6, <2>1, Zenon DEF SessionRec
<1>8. /\ row.state = Terminal /\ row.open = ctx.open
      /\ (ctx.staged.claim > 0 => row.applied)
  BY Zenon
<1>9. WrittenQuestionState \in {"verified", "partially_answered"}
      /\ (WrittenQuestionState = "verified" => Terminal = "succeeded" /\ ctx.staged.claim > 0)
  BY <1>6 DEF WrittenQuestionState, PlannedQuestionState
<1> HIDE DEF q, row
<1>10. /\ hist'[q] = <<row>> /\ \A r \in Questions : r # q => hist'[r] = hist[r]
       /\ hist' \in [Questions -> Seq(SessionRec)]
  BY <1>2, <1>3, <1>4, <1>7, RowReplaced
<1>11. Listed(arrived') /\ Range(arrived') = Range(arrived) \cup fresh
  <2>1. fresh \subseteq Questions /\ fresh \cap Range(arrived) = {} /\ Listed(arrived)
    BY <1>3 DEF RowsType
  <2> QED
    BY <1>1, <2>1, ListExtended
<1>12. /\ qstate'[q] = WrittenQuestionState
       /\ \A r \in Questions : r # q =>
            IF r \in fresh THEN qstate[r] = "absent" /\ qstate'[r] = "candidate" ELSE qstate'[r] = qstate[r]
  BY <1>1, <1>4
<1>13. q \notin fresh /\ q \in Range(arrived)
  BY <1>1, <1>3, <1>4 DEF RowsType
<1>14. RowsType'
  <2>1. qstate' \in [Questions -> Investigated \cup {"absent", "candidate"}]
    <3>1. \A r \in Questions : qstate[r] \in Investigated \cup {"absent", "candidate"}
      BY <1>3 DEF RowsType
    <3> QED
      BY <1>1, <1>9, <3>1 DEF Investigated
  <2>2. \A r \in Questions : qstate'[r] = "absent" <=> r \notin Range(arrived')
    <3>1. \A r \in Questions : qstate[r] = "absent" <=> r \notin Range(arrived)
      BY <1>3 DEF RowsType
    <3> QED
      BY <1>9, <1>11, <1>12, <1>13, <3>1
  <2> QED
    BY <1>10, <1>11, <2>1, <2>2 DEF RowsType
<1>15. FirstSession'
  <2>1. SUFFICES ASSUME NEW r \in Questions
                 PROVE  /\ hist'[r] = <<>> \/ \E old \in SessionRec : hist'[r] = <<old>>
                        /\ qstate'[r] \in {"absent", "candidate", "deferred"} => hist'[r] = <<>>
    BY DEF FirstSession
  <2>2. CASE r = q
    BY <1>7, <1>9, <1>10, <1>12, <2>2
  <2>3. CASE r # q
    BY <1>3, <1>10, <1>12, <2>3 DEF FirstSession
  <2> QED
    BY <2>2, <2>3
<1>16. VerifiedHasClaim'
  <2>1. \A r \in Questions : r # q /\ qstate'[r] = "verified" => qstate[r] = "verified" /\ hist'[r] = hist[r]
    BY <1>10, <1>12
  <2>2. qstate'[q] = "verified" => 1 \in DOMAIN hist'[q] /\ hist'[q][1].applied /\ hist'[q][1].state = "succeeded"
    BY <1>8, <1>9, <1>10, <1>12
  <2> QED
    BY <2>1, <2>2 DEF RunInv, VerifiedHasClaim
<1>17. SuccessIsCovered'
  <2>1. \A i \in DOMAIN hist'[q] : hist'[q][i].state = "succeeded" => ~hist'[q][i].open
    <3>1. \A i \in DOMAIN <<row>> : <<row>>[i] = row
      OBVIOUS
    <3>2. row.state = "succeeded" => ~row.open
      BY <1>2, <1>3, <1>5, <1>8 DEF CtxInv, HonestReason
    <3> QED
      BY <1>10, <3>1, <3>2
  <2> QED
    BY <1>10, <2>1 DEF RunInv, SuccessIsCovered
<1> QED
  BY <1>2, <1>14, <1>15, <1>16, <1>17, EndedSession DEF RunInv

LEMMA AbortCommitInv == ASSUME RunInv, AbortCommit PROVE RunInv'
<1> DEFINE q == ctx.q
<1>1. /\ st = "committing" /\ st' = "none" /\ ctx' = Fresh /\ UNCHANGED <<qstate, arrived>>
      /\ hist' = [hist EXCEPT ![q][Len(hist[q])].state = "failed"]
  BY DEF AbortCommit
<1>2. RowsType /\ FirstSession /\ CtxInv
  BY DEF RunInv
<1>3. q \in Questions /\ qstate[q] = "researching" /\ hist[q] # <<>>
  BY <1>1, <1>2 DEF CtxInv, ChosenQuestion
<1> HIDE DEF q
<1>4. PICK old \in SessionRec : hist[q] = <<old>>
  BY <1>2, <1>3 DEF FirstSession
<1> DEFINE row == [old EXCEPT !.state = "failed"]
<1>5. row \in SessionRec /\ row.state = "failed"
  BY DEF SessionRec
<1>6. hist' = [hist EXCEPT ![q][Len(hist[q])] = row]
  <2>1. hist[q][Len(hist[q])] = old
    BY <1>4
  <2> QED
    BY <1>1, <2>1
<1> HIDE DEF row
<1>7. /\ hist'[q] = <<row>> /\ \A r \in Questions : r # q => hist'[r] = hist[r]
      /\ hist' \in [Questions -> Seq(SessionRec)]
  BY <1>2, <1>3, <1>5, <1>6, RowReplaced
<1>8. RowsType'
  BY <1>1, <1>2, <1>7 DEF RowsType
<1>9. FirstSession'
  BY <1>1, <1>2, <1>3, <1>5, <1>7 DEF FirstSession
<1>10. VerifiedHasClaim'
  BY <1>1, <1>3, <1>7 DEF RunInv, VerifiedHasClaim
<1>11. SuccessIsCovered'
  <2>1. \A i \in DOMAIN <<row>> : <<row>>[i].state # "succeeded"
    BY <1>5
  <2> QED
    BY <1>7, <2>1 DEF RunInv, SuccessIsCovered
<1> QED
  BY <1>1, <1>8, <1>9, <1>10, <1>11, EndedSession DEF RunInv

LEMMA NextRunInv == RunInv /\ [Next]_vars => RunInv'
<1> SUFFICES ASSUME RunInv, [Next]_vars PROVE RunInv'
  OBVIOUS
<1>1. CASE SessionStep
  BY <1>1, SelectQuestionInv, NoQuestionInv, WorkInv, CuratorInv, ReportInv, FinalizeInv, AbortCommitInv
     DEF SessionStep
<1>2. CASE OpenSession
  BY <1>2, OpenSessionInv
<1>3. CASE PhaseLost \/ ModelFails \/ StagingOverflow
  BY <1>3, PhaseLostInv DEF ModelFails, StagingOverflow
<1>4. CASE \E q \in Questions : Ask(q)
  BY <1>4, AskInv
<1>5. CASE UNCHANGED vars
  <2>1. UNCHANGED <<qstate, arrived, hist, st, ctx>>
    BY <1>5 DEF vars
  <2>2. CtxInv'
    BY <2>1 DEF RunInv, CtxInv, ChosenQuestion, HonestReason, NothingStaged, Covered
  <2> QED
    BY <2>1, <2>2, RowsUntouched
<1> QED
  BY <1>1, <1>2, <1>3, <1>4, <1>5 DEF Next

LEMMA RunInvariant == Spec => []RunInv
BY InitRunInv, NextRunInv, PTL DEF Spec

-----------------------------------------------------------------------------
(* The properties.                                                         *)

\* Nothing that the explorer or the curator proposes takes a session beyond
\* its limits (_explorer_loop, HostReserveService.check, the reliance limit).
THEOREM LimitsAreKept == Spec => []RunTypeOK
<1>1. RunInv => RunTypeOK
  <2> SUFFICES ASSUME RunInv PROVE RunTypeOK
    OBVIOUS
  <2>1. RowsType /\ CtxType(ctx) /\ StagedType(ctx.staged) /\ st \in States
    BY DEF RunInv, CtxInv, CtxType
  <2>2. \A q \in Questions : /\ qstate[q] \in Investigated \cup {"absent", "candidate"}
                             /\ (qstate[q] = "absent") = (q \notin Range(arrived))
    BY <2>1 DEF RowsType
  <2>3. \A c \in Calls : ctx.counts[c] \in 0 .. RepeatLimit
    BY <2>1 DEF CtxType
  <2>4. IsInjective(arrived) /\ ctx.step \in 0 .. MaxSteps /\ Cardinality(ctx.relied) <= ReliedLimit
    BY <2>1 DEF RowsType, Listed, CtxType
  <2> QED
    BY <2>1, <2>2, <2>3, <2>4, StatesAreTransitions, Zenon DEF RunTypeOK, StagedType
<1> QED
  BY <1>1, RunInvariant, PTL

\* A question becomes verified only with a succeeded session behind it that
\* applied a claim (finalize_commit, step 5).
THEOREM VerifiedIsBacked == Spec => []VerifiedHasClaim
<1>1. RunInv => VerifiedHasClaim
  BY DEF RunInv
<1> QED
  BY <1>1, RunInvariant, PTL

\* The coverage tracker's refusal is never got round: a session that reports
\* its goal reached has tried each source that its question names.
THEOREM SuccessTriedItsSources == Spec => []SuccessIsCovered
<1>1. RunInv => SuccessIsCovered
  BY DEF RunInv
<1> QED
  BY <1>1, RunInvariant, PTL

\* Selection offers no question whose session is durable, whatever that
\* session came to.
THEOREM EachQuestionOnce == Spec => []OneResearchPerQuestion
<1>1. RunInv => OneResearchPerQuestion
  <2> SUFFICES ASSUME RunInv, NEW q \in Questions PROVE Len(hist[q]) <= 1
    BY DEF OneResearchPerQuestion
  <2>1. hist[q] = <<>> \/ \E r \in SessionRec : hist[q] = <<r>>
    BY DEF RunInv, FirstSession
  <2>2. CASE hist[q] = <<>>
    BY <2>2
  <2>3. ASSUME NEW r \in SessionRec, hist[q] = <<r>> PROVE Len(hist[q]) <= 1
    BY <2>3
  <2> QED
    BY <2>1, <2>2, <2>3
<1> QED
  BY <1>1, RunInvariant, PTL

-----------------------------------------------------------------------------
(* Every step of a session brings its end nearer.                          *)

\* Distance, of a state and a view
Spent(c) == IF c.reason # "none" THEN MaxSteps + 1 ELSE c.step
DistanceOf(s, c) ==
    LET phase == CHOOSE i \in DOMAIN Phases : Phases[i] = s
    IN  phase * (MaxSteps + 3) - Spent(c) - c.round

LEMMA DistanceIsOf == Distance = DistanceOf(st, ctx) /\ Distance' = DistanceOf(st', ctx')
BY DEF Distance, DistanceOf, Spent

LEMMA DistanceAt ==
  ASSUME NEW i \in 1 .. 8, NEW c
  PROVE  DistanceOf(Phases[i], c) = i * (MaxSteps + 3) - Spent(c) - c.round
<1>1. DOMAIN Phases = 1 .. 8
  BY DEF Phases
<1>2. \A j \in 1 .. 8 : Phases[j] = Phases[i] => j = i
  BY DEF Phases
<1>3. (CHOOSE j \in DOMAIN Phases : Phases[j] = Phases[i]) = i
  BY <1>1, <1>2
<1> QED
  BY <1>3 DEF DistanceOf

LEMMA SpentType == ASSUME NEW c, CtxType(c) PROVE Spent(c) \in 0 .. MaxSteps + 1 /\ c.round \in {1, 2}
<1>1. c.step \in 0 .. MaxSteps /\ c.round \in {1, 2}
  BY DEF CtxType
<1> QED
  BY <1>1, LimitsAreNatural DEF Spent

\* A later phase is nearer whatever was spent in the earlier one.
LEMMA LaterPhase ==
  ASSUME NEW i \in 1 .. 8, NEW j \in 1 .. 8, j < i, NEW c, CtxType(c), NEW d, CtxType(d)
  PROVE  DistanceOf(Phases[j], d) < DistanceOf(Phases[i], c)
<1> DEFINE K == MaxSteps + 3
<1>1. K \in Nat /\ K = MaxSteps + 3
  BY LimitsAreNatural
<1> HIDE DEF K
<1>2. i * K >= j * K + K
  <2>1. i - j - 1 \in Nat
    OBVIOUS
  <2>2. (i - j - 1) * K >= 0
    BY <1>1, <2>1
  <2> QED
    BY <1>1, <2>2
<1>3. i * K \in Int /\ j * K \in Int
  BY <1>1
<1>4. /\ DistanceOf(Phases[i], c) = i * K - Spent(c) - c.round
      /\ DistanceOf(Phases[j], d) = j * K - Spent(d) - d.round
  BY DistanceAt DEF K
<1>5. /\ Spent(c) \in 0 .. MaxSteps + 1 /\ c.round \in {1, 2}
      /\ Spent(d) \in 0 .. MaxSteps + 1 /\ d.round \in {1, 2}
  BY SpentType
<1> QED
  BY <1>1, <1>2, <1>3, <1>4, <1>5, LimitsAreNatural

LEMMA SamePhase ==
  ASSUME NEW s \in States, NEW c, CtxType(c), NEW d, CtxType(d), Spent(c) + c.round < Spent(d) + d.round
  PROVE  DistanceOf(s, d) < DistanceOf(s, c)
<1>1. PICK i \in 1 .. 8 : Phases[i] = s
  BY DEF States, Phases
<1> DEFINE K == i * (MaxSteps + 3)
<1>2. K \in Int
  BY LimitsAreNatural
<1> HIDE DEF K
<1>3. DistanceOf(s, c) = K - Spent(c) - c.round /\ DistanceOf(s, d) = K - Spent(d) - d.round
  BY <1>1, DistanceAt DEF K
<1>4. Spent(c) \in Int /\ c.round \in Int /\ Spent(d) \in Int /\ d.round \in Int
  BY SpentType, LimitsAreNatural
<1> QED
  BY <1>2, <1>3, <1>4

Nearer == Distance' < Distance

LEMMA PhaseNearer ==
  ASSUME NEW i \in 1 .. 8, NEW j \in 1 .. 8, j < i, st = Phases[i], st' = Phases[j], RunInv, RunInv'
  PROVE  Nearer
<1>1. CtxType(ctx) /\ CtxType(ctx')
  BY DEF RunInv, CtxInv
<1> QED
  BY <1>1, LaterPhase, DistanceIsOf DEF Nearer

LEMMA SpentNearer ==
  ASSUME UNCHANGED st, RunInv, RunInv', Spent(ctx) + ctx.round < Spent(ctx') + ctx'.round
  PROVE  Nearer
<1>1. CtxType(ctx) /\ CtxType(ctx') /\ st \in States /\ st' = st
  BY DEF RunInv, CtxInv
<1> QED
  BY <1>1, SamePhase, DistanceIsOf DEF Nearer

LEMMA EndNearer == ASSUME st # "none", st' = "none", RunInv, RunInv' PROVE Nearer
<1>1. PICK i \in 1 .. 8 : Phases[i] = st /\ 1 < i
  BY DEF RunInv, CtxInv, States, Phases
<1>2. Phases[1] = "none"
  BY DEF Phases
<1> QED
  BY <1>1, <1>2, PhaseNearer

\* A step of the explorer costs a step; when it ends the loop it costs all of them.
LEMMA StepNearer ==
  ASSUME RunInv, RunInv', Thinking, UNCHANGED st, ctx'.step = ctx.step + 1, ctx'.round = ctx.round
  PROVE  Nearer
<1>1. ctx.reason = "none" /\ ctx.step < MaxSteps /\ ctx.step \in Nat /\ ctx.round \in Nat
  BY LimitsAreNatural DEF Thinking, RunInv, CtxInv, CtxType
<1>2. Spent(ctx) = ctx.step
  BY <1>1 DEF Spent
<1>3. Spent(ctx') \in {ctx.step + 1, MaxSteps + 1}
  BY DEF Spent
<1>4. Spent(ctx) + ctx.round < Spent(ctx') + ctx'.round
  BY <1>1, <1>2, <1>3, LimitsAreNatural
<1> QED
  BY <1>4, SpentNearer

LEMMA SessionStepNearer == ASSUME RunInv, RunInv', SessionStep, <<st, ctx>>' # <<st, ctx>> PROVE Nearer
<1>1. /\ Phases[1] = "none" /\ Phases[2] = "committing" /\ Phases[3] = "reporting"
      /\ Phases[4] = "consolidating" /\ Phases[5] = "verifying" /\ Phases[6] = "exploring"
      /\ Phases[7] = "planning" /\ Phases[8] = "selecting_question"
  BY DEF Phases
<1>2. CtxType(ctx)
  BY DEF RunInv, CtxInv
<1>3. CASE SelectQuestion
  <2>1. st = Phases[8] /\ st' = Phases[7]
    BY <1>1, <1>3 DEF SelectQuestion, To
  <2> QED
    BY <2>1, PhaseNearer
<1>4. CASE NoQuestion \/ Finalize \/ AbortCommit
  <2>1. st # "none" /\ st' = "none"
    BY <1>4, Zenon DEF NoQuestion, Finalize, AbortCommit
  <2> QED
    BY <2>1, EndNearer
<1>5. CASE Plan
  <2>1. st = Phases[7] /\ st' = Phases[6]
    BY <1>1, <1>5 DEF Plan, To
  <2> QED
    BY <2>1, PhaseNearer
<1>6. ASSUME NEW c \in Calls, NEW out, ToolStep(c, out) PROVE Nearer
  <2>1. Thinking /\ UNCHANGED st
    BY <1>6 DEF ToolStep
  <2>2. ctx'.step = ctx.step + 1 /\ ctx'.round = ctx.round
    BY <1>2, <1>6, ToolStepCtx
  <2> QED
    BY <2>1, <2>2, StepNearer
<1>7. ASSUME NEW reason, Thinking, UNCHANGED st,
             ctx' = [ctx EXCEPT !.step = ctx.step + 1, !.reason = reason]
      PROVE  Nearer
  <2>1. ctx.step < MaxSteps
    BY <1>7 DEF Thinking
  <2>2. ctx'.step = ctx.step + 1 /\ ctx'.round = ctx.round
    BY <1>2, <1>7, <2>1, StepCtx
  <2> QED
    BY <1>7, <2>2, StepNearer
<1>8. ASSUME NEW c \in Calls, DeniedStep(c) PROVE Nearer
  <2>1. Thinking /\ UNCHANGED st /\ ctx' = [ctx EXCEPT !.step = ctx.step + 1]
    BY <1>8 DEF DeniedStep
  <2>2. ctx' = [ctx EXCEPT !.step = ctx.step + 1, !.reason = ctx.reason]
    BY <1>2, <2>1 DEF CtxType, Rec, CtxFields
  <2> QED
    BY <1>7, <2>1, <2>2
<1>9. ASSUME NEW reason \in {"goal_reached", "other"}, CompleteStep(reason) PROVE Nearer
  <2> DEFINE r == IF Covered THEN reason ELSE ctx.reason
  <2>1. Thinking /\ UNCHANGED st /\ ctx' = [ctx EXCEPT !.step = ctx.step + 1, !.reason = r]
    BY <1>9, Zenon DEF CompleteStep
  <2> HIDE DEF r
  <2> QED
    BY <1>7, <2>1
<1>10. CASE EndExploring
  <2>1. st = Phases[6] /\ st' = Phases[5]
    BY <1>1, <1>10, Zenon DEF EndExploring, To
  <2> QED
    BY <2>1, PhaseNearer
<1>11. CASE Verify
  <2>1. st = Phases[5] /\ st' = Phases[4]
    BY <1>1, <1>11 DEF Verify, To
  <2> QED
    BY <2>1, PhaseNearer
<1>12. ASSUME st = "consolidating", st' = "reporting" PROVE Nearer
  BY <1>1, <1>12, PhaseNearer
<1>13. ASSUME NEW i \in Proposals, Accept(Proposal[i]) PROVE Nearer
  <2>1. st = "consolidating" /\ st' = "reporting"
    BY <1>13, Zenon DEF Accept
  <2> QED
    BY <1>12, <2>1
<1>14. ASSUME NEW i \in Proposals, Reject(Proposal[i]) PROVE Nearer
  <2>1. st = "consolidating"
        /\ \/ ctx.round = 1 /\ ctx' = [ctx EXCEPT !.round = 2, !.first = Proposal[i].relied] /\ UNCHANGED st
           \/ st' = "reporting"
    BY <1>14, Zenon DEF Reject
  <2>2. CASE ctx.round = 1 /\ ctx' = [ctx EXCEPT !.round = 2, !.first = Proposal[i].relied] /\ UNCHANGED st
    <3>1. ctx'.round = 2 /\ ctx'.step = ctx.step /\ ctx'.reason = ctx.reason
      BY <1>2, <2>2, SecondRoundCtx
    <3>2. Spent(ctx') = Spent(ctx) /\ Spent(ctx) \in Int
      BY <1>2, <3>1, SpentType, LimitsAreNatural DEF Spent
    <3> QED
      BY <2>2, <3>1, <3>2, SpentNearer
  <2> QED
    BY <1>12, <2>1, <2>2
<1>15. CASE CuratorUnavailable
  BY <1>12, <1>15 DEF CuratorUnavailable
<1>16. CASE Report
  <2>1. st = Phases[3] /\ st' = Phases[2]
    BY <1>1, <1>16 DEF Report, To
  <2> QED
    BY <2>1, PhaseNearer
<1> QED
  BY <1>3, <1>4, <1>5, <1>6, <1>8, <1>9, <1>10, <1>11, <1>13, <1>14, <1>15, <1>16 DEF SessionStep

\* Whatever the model answers and whatever is refused, a running session has
\* less before it after each of its steps: it ends.
THEOREM SessionsEnd == Spec => SessionProgress
<1>1. RunInv /\ RunInv' /\ [Next]_vars => [st # "none" /\ <<st, ctx>>' # <<st, ctx>> => Distance' < Distance]_vars
  <2> SUFFICES ASSUME RunInv, RunInv', Next, st # "none", <<st, ctx>>' # <<st, ctx>>
               PROVE  Nearer
    BY DEF Nearer
  <2>1. CASE SessionStep
    BY <2>1, SessionStepNearer
  <2>2. CASE OpenSession
    BY <2>2 DEF OpenSession
  <2>3. CASE PhaseLost \/ ModelFails \/ StagingOverflow
    <3>1. st' = "none"
      BY <2>3 DEF PhaseLost, ModelFails, StagingOverflow
    <3> QED
      BY <3>1, EndNearer
  <2>4. CASE \E q \in Questions : Ask(q)
    BY <2>4 DEF Ask
  <2> QED
    BY <2>1, <2>2, <2>3, <2>4 DEF Next
<1> QED
  BY <1>1, RunInvariant, PTL DEF Spec, SessionProgress
=============================================================================
