-------------------------- MODULE ActivationProofs --------------------------
(***************************************************************************)
(* The online and the offline change of the configuration, for every       *)
(* number of runners, rows, claims, runs and events.                       *)
(*                                                                         *)
(* A runner reads the head in a copy that may be out of date.  What makes  *)
(* its checks worth something (Sure): its own fence is in a copy that is   *)
(* older than the row only if another runner wrote the slot while that     *)
(* fence was on it (Behind).  Unless a run joined another under its fence  *)
(* or wrote the slot from a copy that was out of date (Good), the writer   *)
(* then owned that fence, and owners are alone (Alone).  So a runner whose *)
(* copy passes the tuple check does own the slot.                          *)
(*                                                                         *)
(* A runner that is fenced out: fences only grow while that is so, and     *)
(* every write is behind the tuple check, which it does not pass.          *)
(*                                                                         *)
(* What was carried over is fresh (CarryInv): the cohort of a candidate is *)
(* the knowledge revision of its freeze.  While it still equals the        *)
(* revision and the base is effective, no cascade has happened since, so   *)
(* the heads that were copied from the base are as clean as the base.  The *)
(* flip compares both.  The runner's copy of the candidate agrees with the *)
(* row as long as it owns the slot (CohortKnown), and for the same reason  *)
(* nobody prepares the effective configuration (EffectiveInv).  This needs *)
(* that the pointer is known at each flip, and that no offline change      *)
(* overtook the revision (Fresh).                                          *)
(*                                                                         *)
(* The switch (ChainInv): every row is based on an older one and no base   *)
(* ever changes, so the depth of a row is defined and stays; a change      *)
(* whose pointer was known moves it to a row that is based on the          *)
(* effective one.                                                          *)
(***************************************************************************)
EXTENDS Activation, WellFoundedInduction, TLAPS

SnapRec == [st : States, base : Bases, payload : Int, cohort : Int, sealed : BOOLEAN,
            cursor : Int, tries : Int, next : {"due", "later", "parked"}]
HeadRec == [cand : Bases, fence : Nat, ptr : Rows]
RunnerRec == [pc : RunnerPCs, cand : Rows, fence : Nat, early : States, seen : SnapRec, n : Int, head : HeadRec]
SlotRec == [cand : Bases, fence : Nat, live : BOOLEAN]
HeadStates == {"none", "pending", "current", "invalid"}
Changes == {"cascade", "source"}
OfflineRec == [pc : {"none", "prepared", "checked"}, base : Bases, cohort : Nat, missed : [Claims -> SUBSET Changes]]

ActTypes ==
    /\ snap \in [Rows -> SnapRec] /\ runner \in [Runners -> RunnerRec] /\ view \in [Runners -> Views]
    /\ heads \in [Rows -> [Claims -> HeadStates]] /\ unseen \in [Rows -> [Claims -> SUBSET Changes]]
    /\ ptr \in Rows /\ slot \in SlotRec
    /\ rev \in Nat

Present(x) == snap[x].st # "absent"

\* Rows are filled in order, and each one but the bootstrap is based on an older one.
ChainInv ==
    /\ Present(ptr)
    /\ \A x \in Rows : /\ snap[x].base < x
                       /\ snap[x].base # 0 => Present(snap[x].base)
                       /\ Present(x) /\ snap[x].base = 0 => snap[x].payload = 0
                       /\ ~Present(x) => /\ snap[x] = Absent
                                         /\ \A y \in Rows : y > x => ~Present(y)

\* where a runner has no fence yet, or never takes one
Unfenced == {"idle", "inspect", "publish", "repair_open", "repair"}
Repairing == {"idle", "repair_open", "repair"}
\* where it works with its copy of the candidate's row
Copying == {"freeze", "prepare", "seal", "announce", "flip"}
Working == Copying \cup {"wait", "gate", "confirm"}
\* where it has a copy of the head
Seeing == Working \cup {"inspect", "publish", "resume", "refresh"}

RunnerInv ==
    \A r \in Runners : /\ Present(runner[r].cand)
                       /\ runner[r].pc \in Unfenced <=> runner[r].fence = 0
                       /\ runner[r].pc \in {"announce", "flip"} => runner[r].seen.base = snap[runner[r].cand].base
                       /\ runner[r].pc \notin Repairing => snap[runner[r].cand].base # 0
                       /\ runner[r].pc \in Seeing => view[r] # "none"
                       /\ runner[r].pc = "idle" => view[r] = "none"
                       /\ view[r] = "same" => /\ runner[r].head.cand = slot.cand
                                              /\ runner[r].head.fence = slot.fence
                       /\ runner[r].head.cand # 0 => runner[r].head.fence # 0

SlotInv == (slot.live => slot.cand # 0) /\ (slot.cand # 0 => slot.fence # 0)

\* no run has joined another, or written the slot from a copy that was out of date
Good == lapses \cap {"joined", "blind"} = {}

\* neither a joined run, nor a pointer or a revision that was not known
Fresh == lapses \subseteq {"uncounted"}

\* two runs under one fence are on different candidates
Alone ==
    \A r, q \in Runners : /\ r # q /\ runner[r].fence # 0 /\ runner[r].fence = runner[q].fence
                          => runner[r].cand # runner[q].cand

\* a copy that is older than the row does not show the runner's own fence
Behind ==
    \A r \in Runners : /\ runner[r].fence <= slot.fence
                       /\ view[r] = "older" /\ runner[r].fence # 0
                          => ~(runner[r].head.cand = runner[r].cand /\ runner[r].head.fence = runner[r].fence)

\* the copy has the cohort of the row
CohortKnown ==
    \A r \in Runners : TupleOk(r) /\ runner[r].pc \in Copying
                       => /\ runner[r].seen.cohort = snap[runner[r].cand].cohort
                          /\ runner[r].pc = "prepare" => runner[r].seen.cohort # -1

RunnersInv == RunnerInv /\ SlotInv /\ (Good => Alone /\ Behind /\ CohortKnown)

Clean(x) == \A k \in Claims : heads[x][k] = "current" => "cascade" \notin unseen[x][k]

\* A row has heads only after its freeze, and they are clean while the revision of the freeze lasts.
CohortInv ==
    \A x \in Rows : /\ snap[x].cohort <= rev
                    /\ x # 1 /\ snap[x].cohort = -1 => \A k \in Claims : heads[x][k] = "none"
                    /\ snap[x].cohort = rev /\ snap[x].base = ptr => Clean(x)

CarryInv == Fresh => CohortInv /\ Clean(ptr)

\* What the offline change has evaluated misses a cascade only when the revision has moved.
OfflineInv ==
    /\ offline \in OfflineRec /\ offline.cohort <= rev
    /\ offline.pc # "none" /\ offline.cohort = rev => \A k \in Claims : "cascade" \notin offline.missed[k]

Unsettled == {"draft", "preparing_heads", "ready", "publishing"}
Works(r) == TupleOk(r) /\ runner[r].pc \in Working

\* Nobody prepares the effective configuration again.
EffectiveInv == Good => (\A r \in Runners : Works(r) => runner[r].cand # ptr) /\ snap[ptr].st \notin Unsettled

ActInv == ActTypes /\ ChainInv /\ RunnersInv /\ CarryInv /\ OfflineInv /\ EffectiveInv

-----------------------------------------------------------------------------
(* Updates of one field                                                    *)

LEMMA SetPc ==
  ASSUME NEW r \in RunnerRec, NEW x \in RunnerPCs, NEW s, s = [r EXCEPT !.pc = x]
  PROVE  s \in RunnerRec /\ s.pc = x /\ s.cand = r.cand /\ s.fence = r.fence /\ s.seen = r.seen /\ s.head = r.head
BY DEF RunnerRec

LEMMA SetCand ==
  ASSUME NEW r \in RunnerRec, NEW x \in Rows, NEW s, s = [r EXCEPT !.cand = x]
  PROVE  s \in RunnerRec /\ s.pc = r.pc /\ s.cand = x /\ s.fence = r.fence /\ s.seen = r.seen /\ s.head = r.head
BY DEF RunnerRec

LEMMA SetFence ==
  ASSUME NEW r \in RunnerRec, NEW x \in Nat, NEW s, s = [r EXCEPT !.fence = x]
  PROVE  s \in RunnerRec /\ s.pc = r.pc /\ s.cand = r.cand /\ s.fence = x /\ s.seen = r.seen /\ s.head = r.head
BY DEF RunnerRec

LEMMA SetEarly ==
  ASSUME NEW r \in RunnerRec, NEW x \in States, NEW s, s = [r EXCEPT !.early = x]
  PROVE  s \in RunnerRec /\ s.pc = r.pc /\ s.cand = r.cand /\ s.fence = r.fence /\ s.seen = r.seen /\ s.head = r.head
BY DEF RunnerRec

LEMMA SetSeen ==
  ASSUME NEW r \in RunnerRec, NEW x \in SnapRec, NEW s, s = [r EXCEPT !.seen = x]
  PROVE  s \in RunnerRec /\ s.pc = r.pc /\ s.cand = r.cand /\ s.fence = r.fence /\ s.seen = x /\ s.head = r.head
BY DEF RunnerRec

LEMMA SetN ==
  ASSUME NEW r \in RunnerRec, NEW x \in Int, NEW s, s = [r EXCEPT !.n = x]
  PROVE  s \in RunnerRec /\ s.pc = r.pc /\ s.cand = r.cand /\ s.fence = r.fence /\ s.seen = r.seen /\ s.head = r.head
BY DEF RunnerRec

LEMMA SetHead ==
  ASSUME NEW r \in RunnerRec, NEW x \in HeadRec, NEW s, s = [r EXCEPT !.head = x]
  PROVE  s \in RunnerRec /\ s.pc = r.pc /\ s.cand = r.cand /\ s.fence = r.fence /\ s.seen = r.seen /\ s.head = x
BY DEF RunnerRec

LEMMA RowSt ==
  ASSUME NEW b \in SnapRec, NEW x \in States, NEW s, s = [b EXCEPT !.st = x]
  PROVE  s \in SnapRec /\ s.st = x /\ s.base = b.base /\ s.cohort = b.cohort /\ s.payload = b.payload
BY DEF SnapRec

LEMMA RowCohort ==
  ASSUME NEW b \in SnapRec, NEW x \in Int, NEW s, s = [b EXCEPT !.cohort = x]
  PROVE  s \in SnapRec /\ s.st = b.st /\ s.base = b.base /\ s.cohort = x /\ s.payload = b.payload
BY DEF SnapRec

LEMMA RowSealed ==
  ASSUME NEW b \in SnapRec, NEW x \in BOOLEAN, NEW s, s = [b EXCEPT !.sealed = x]
  PROVE  s \in SnapRec /\ s.st = b.st /\ s.base = b.base /\ s.cohort = b.cohort /\ s.payload = b.payload
BY DEF SnapRec

LEMMA RowCursor ==
  ASSUME NEW b \in SnapRec, NEW x \in Int, NEW s, s = [b EXCEPT !.cursor = x]
  PROVE  s \in SnapRec /\ s.st = b.st /\ s.base = b.base /\ s.cohort = b.cohort /\ s.payload = b.payload
BY DEF SnapRec

LEMMA RowTries ==
  ASSUME NEW b \in SnapRec, NEW x \in Int, NEW s, s = [b EXCEPT !.tries = x]
  PROVE  s \in SnapRec /\ s.st = b.st /\ s.base = b.base /\ s.cohort = b.cohort /\ s.payload = b.payload
BY DEF SnapRec

LEMMA RowNext ==
  ASSUME NEW b \in SnapRec, NEW x \in {"due", "later", "parked"}, NEW s, s = [b EXCEPT !.next = x]
  PROVE  s \in SnapRec /\ s.st = b.st /\ s.base = b.base /\ s.cohort = b.cohort /\ s.payload = b.payload
BY DEF SnapRec

LEMMA RowIsOne == 1 \in Rows /\ 0 \in Bases /\ Rows \subseteq Bases /\ Rows \subseteq Nat /\ 0 \notin Rows
BY ActivationAssumption DEF Rows, Bases

LEMMA AbsentRow == Absent \in SnapRec /\ Absent.st = "absent" /\ Absent.base = 0 /\ Absent.cohort = -1
BY ActivationAssumption DEF Absent, SnapRec, States, Bases

LEMMA NoHeadRecord == NoHead \in HeadRec /\ NoHead.cand = 0
BY RowIsOne DEF NoHead, HeadRec

LEMMA IdleRecord ==
  /\ IdleRunner \in RunnerRec /\ IdleRunner.pc = "idle" /\ IdleRunner.cand = 1 /\ IdleRunner.fence = 0
  /\ IdleRunner.head = NoHead
<1>1. Absent \in SnapRec /\ 1 \in Rows /\ "absent" \in States /\ "idle" \in RunnerPCs /\ NoHead \in HeadRec
  BY AbsentRow, RowIsOne, NoHeadRecord DEF States, RunnerPCs
<1> QED
  BY <1>1 DEF IdleRunner, RunnerRec

\* the parts of a runner's record
LEMMA RunnerParts ==
  ASSUME ActTypes, NEW r \in Runners
  PROVE  /\ runner[r] \in RunnerRec /\ runner[r].pc \in RunnerPCs /\ runner[r].cand \in Rows /\ runner[r].fence \in Nat
         /\ runner[r].seen \in SnapRec /\ runner[r].head \in HeadRec
         /\ runner[r].head.cand \in Bases /\ runner[r].head.fence \in Nat /\ view[r] \in Views
         /\ slot.cand \in Bases /\ slot.fence \in Nat /\ slot.live \in BOOLEAN
BY DEF ActTypes, RunnerRec, HeadRec, SlotRec

LEMMA RowHeadRecord == ASSUME ActTypes PROVE RowHead \in HeadRec /\ RowHead.cand = slot.cand /\ RowHead.fence = slot.fence
BY DEF ActTypes, RowHead, HeadRec, SlotRec

-----------------------------------------------------------------------------
(* How a runner moves                                                      *)

Only(r) == runner' \in [Runners -> RunnerRec] /\ \A q \in Runners \ {r} : runner'[q] = runner[q]

\* the runner keeps its candidate and its fence
Keeps(r) == Only(r) /\ runner'[r].cand = runner[r].cand /\ runner'[r].fence = runner[r].fence

LEMMA GotoRunner ==
  ASSUME ActTypes, NEW r \in Runners, NEW pc \in RunnerPCs, Goto(r, pc)
  PROVE  /\ Keeps(r) /\ runner'[r].pc = pc /\ runner'[r].seen = runner[r].seen /\ runner'[r].head = runner[r].head
         /\ view' = view
<1> DEFINE a == [runner[r] EXCEPT !.pc = pc]
<1>1. runner' = [runner EXCEPT ![r] = a] /\ view' = view
  BY DEF Goto
<1>2. /\ a \in RunnerRec /\ a.pc = pc /\ a.cand = runner[r].cand /\ a.fence = runner[r].fence
      /\ a.seen = runner[r].seen /\ a.head = runner[r].head
  BY SetPc DEF ActTypes
<1> HIDE DEF a
<1> QED
  BY <1>1, <1>2 DEF ActTypes, Keeps, Only

LEMMA MovedRunner ==
  ASSUME ActTypes, NEW r \in Runners, NEW pc \in RunnerPCs, NEW head \in HeadRec,
         runner' = [runner EXCEPT ![r] = Moved(r, pc, head)]
  PROVE  Keeps(r) /\ runner'[r].pc = pc /\ runner'[r].head = head
<1> DEFINE a == [IdleRunner EXCEPT !.pc = pc]
           b == [a EXCEPT !.cand = runner[r].cand]
           c == [b EXCEPT !.fence = runner[r].fence]
           d == [c EXCEPT !.head = head]
<1>1. runner' = [runner EXCEPT ![r] = d]
  BY DEF Moved
<1>2. runner[r].cand \in Rows /\ runner[r].fence \in Nat
  BY RunnerParts
<1>3. a \in RunnerRec /\ a.pc = pc
  BY IdleRecord, SetPc
<1> HIDE DEF a
<1>4. b \in RunnerRec /\ b.pc = pc /\ b.cand = runner[r].cand
  BY <1>2, <1>3, SetCand
<1> HIDE DEF b
<1>5. c \in RunnerRec /\ c.pc = pc /\ c.cand = runner[r].cand /\ c.fence = runner[r].fence
  BY <1>2, <1>4, SetFence
<1> HIDE DEF c
<1>6. d \in RunnerRec /\ d.pc = pc /\ d.cand = runner[r].cand /\ d.fence = runner[r].fence /\ d.head = head
  BY <1>5, SetHead
<1> HIDE DEF d
<1> QED
  BY <1>1, <1>6 DEF ActTypes, Keeps, Only

LEMMA IdleMoves == ASSUME ActTypes, NEW r \in Runners, Idle(r) PROVE Only(r) /\ runner'[r] = IdleRunner
BY IdleRecord DEF ActTypes, Idle, Only

\* A runner that reads the candidate's row
LEMMA LoadRunner ==
  ASSUME ActTypes, NEW r \in Runners, NEW x \in Rows, NEW pc \in RunnerPCs,
         runner' = [runner EXCEPT ![r].seen = snap[x], ![r].pc = pc]
  PROVE  Keeps(r) /\ runner'[r].pc = pc /\ runner'[r].seen = snap[x] /\ runner'[r].head = runner[r].head
<1> DEFINE a == [runner[r] EXCEPT !.seen = snap[x]]
           b == [a EXCEPT !.pc = pc]
<1>1. runner' = [runner EXCEPT ![r] = b]
  OBVIOUS
<1>2. a \in RunnerRec /\ a.cand = runner[r].cand /\ a.fence = runner[r].fence /\ a.seen = snap[x] /\ a.head = runner[r].head
  BY SetSeen DEF ActTypes
<1> HIDE DEF a
<1>3. /\ b \in RunnerRec /\ b.pc = pc /\ b.cand = runner[r].cand /\ b.fence = runner[r].fence /\ b.seen = snap[x]
      /\ b.head = runner[r].head
  BY <1>2, SetPc
<1> HIDE DEF b
<1> QED
  BY <1>1, <1>3 DEF ActTypes, Keeps, Only

-----------------------------------------------------------------------------
(* What a step does to the rows, to the slot and to the runners' copies    *)

WorkedOn(x) == \E q \in Runners : Works(q) /\ runner[q].cand = x

\* the rows that are there stay, with their base and payload, and only a runner that works on one opens it again
RowsStay ==
    /\ snap' \in [Rows -> SnapRec]
    /\ \A x \in Rows : Present(x) => /\ Present(x)' /\ snap'[x].base = snap[x].base
                                     /\ snap'[x].payload = snap[x].payload
                                     /\ snap'[x].st \in Unsettled => snap[x].st \in Unsettled \/ WorkedOn(x)

\* no cohort changes
RowsKept == RowsStay /\ \A x \in Rows : Present(x) => snap'[x].cohort = snap[x].cohort

\* and no row appears
NoneAppears == \A x \in Rows : ~Present(x) => snap'[x] = snap[x]
SnapKept == RowsKept /\ NoneAppears

LapsesGrow == lapses \subseteq lapses'

SlotGoes ==
    /\ slot' \in SlotRec /\ (slot'.live => slot'.cand # 0) /\ (slot'.cand # 0 => slot'.fence # 0)
    /\ Good' => slot.fence <= slot'.fence

\* the slot is the runner's
Mine(q) == runner[q].fence # 0 /\ slot.cand = runner[q].cand /\ slot.fence = runner[q].fence

\* what happens to a copy of the head that is not written
Sees(q) ==
    \/ /\ view'[q] = view[q]
       /\ view[q] = "same" => slot'.cand = slot.cand /\ slot'.fence = slot.fence /\ (slot'.live => slot.live)
    \/ view[q] # "none" /\ view'[q] = "over"
    \/ view[q] = "same" /\ view'[q] = "older" /\ slot.live /\ (Good' => ~Mine(q))

Stays(q) == runner'[q] = runner[q] /\ Sees(q)

\* where a runner may go that keeps its candidate and its fence
Goes(r) ==
    /\ Keeps(r)
    /\ runner'[r].pc \in Unfenced <=> runner[r].pc \in Unfenced
    /\ runner[r].pc \in Repairing => runner'[r].pc \in Repairing
    /\ runner'[r].pc # "idle"
    /\ runner'[r].pc \in Working => runner[r].pc \in Working \/ snap[runner[r].cand].st \in Unsettled
    /\ runner'[r].pc \in {"announce", "flip"} => runner'[r].seen.base = snap[runner[r].cand].base
    /\ runner'[r].pc \in Copying
       => /\ \/ runner'[r].seen.cohort = snap'[runner[r].cand].cohort
             \/ runner[r].pc \in Copying /\ runner'[r].seen.cohort = runner[r].seen.cohort
          /\ runner'[r].pc = "prepare" => \/ runner'[r].seen.cohort # -1
                                          \/ runner[r].pc = "prepare" /\ runner'[r].seen.cohort = runner[r].seen.cohort
    /\ runner'[r].pc \in Seeing => runner[r].pc \in Seeing
    /\ \/ /\ runner'[r].head.cand = runner[r].head.cand /\ runner'[r].head.fence = runner[r].head.fence
          /\ Sees(r)
       \/ /\ runner'[r].pc \notin Seeing
          /\ \/ view'[r] = "none" /\ runner'[r].head.cand = 0
             \/ /\ view'[r] = "same" /\ runner'[r].head.cand = slot'.cand /\ runner'[r].head.fence = slot'.fence

Idles(r) == Only(r) /\ runner'[r] = IdleRunner /\ view'[r] = "none"

\* a runner begins without a fence
Enters(r) ==
    /\ Only(r) /\ runner'[r].fence = 0
    /\ \/ /\ runner'[r].pc = "inspect" /\ view'[r] = "same" /\ snap'[runner'[r].cand].base # 0
          /\ runner'[r].head.cand = slot'.cand /\ runner'[r].head.fence = slot'.fence
       \/ runner'[r].pc = "repair_open" /\ view'[r] = "none" /\ runner'[r].head.cand = 0
    /\ snap'[runner'[r].cand].st # "absent"

\* a runner takes the slot, or joins the one that has it
Joined(r) ==
    /\ Only(r) /\ runner'[r].cand = runner[r].cand /\ runner'[r].fence # 0
    /\ runner[r].pc \in {"inspect", "publish"} /\ runner'[r].pc \in {"resume", "wait"}
    /\ runner'[r].pc = "wait" => snap[runner[r].cand].st = "draft"
    /\ view'[r] # "none"
    /\ view'[r] = "same" => runner'[r].head.cand = slot'.cand /\ runner'[r].head.fence = slot'.fence
    /\ runner'[r].head.cand # 0 => runner'[r].head.fence # 0
    /\ Good' => /\ view'[r] = "same" /\ runner'[r].fence = slot'.fence
                /\ ~Joins(r, runner[r].cand, runner'[r].fence)

Moves(r) ==
    /\ runner' \in [Runners -> RunnerRec] /\ view' \in [Runners -> Views]
    /\ \A q \in Runners : Stays(q) \/ (q = r /\ (Goes(q) \/ Idles(q) \/ Enters(q) \/ Joined(q)))

LEMMA GoodBefore == ASSUME LapsesGrow PROVE (Good' => Good) /\ (Fresh' => Fresh) /\ (Fresh => Good)
BY DEF LapsesGrow, Good, Fresh

LEMMA SnapSame == ASSUME ActTypes, snap' = snap PROVE SnapKept
BY DEF ActTypes, SnapKept, RowsKept, RowsStay, NoneAppears, Present

\* one row that is there is rewritten
LEMMA SnapUpdate ==
  ASSUME ActTypes, NEW x \in Rows, Present(x), NEW a \in SnapRec, a.st # "absent",
         a.st \in Unsettled => snap[x].st \in Unsettled \/ WorkedOn(x), a.base = snap[x].base,
         a.payload = snap[x].payload, a.cohort = snap[x].cohort, snap' = [snap EXCEPT ![x] = a]
  PROVE  SnapKept
BY DEF ActTypes, SnapKept, RowsKept, RowsStay, NoneAppears, Present

\* a new state for a row that is there
LEMMA SnapState ==
  ASSUME ActTypes, NEW x \in Rows, Present(x), NEW st \in States \ {"absent"}, st \in Unsettled => WorkedOn(x),
         snap' = [snap EXCEPT ![x].st = st]
  PROVE  SnapKept
<1> DEFINE a == [snap[x] EXCEPT !.st = st]
<1>1. snap' = [snap EXCEPT ![x] = a]
  OBVIOUS
<1>2. a \in SnapRec /\ a.st = st /\ a.base = snap[x].base /\ a.payload = snap[x].payload /\ a.cohort = snap[x].cohort
  BY RowSt DEF ActTypes
<1> HIDE DEF a
<1> QED
  BY <1>1, <1>2, SnapUpdate

LEMMA SlotSame == ASSUME ActTypes, RunnersInv, slot' = slot PROVE SlotGoes
<1>1. slot \in SlotRec /\ slot.fence \in Nat
  BY DEF ActTypes, SlotRec
<1> QED
  BY <1>1 DEF SlotGoes, RunnersInv, SlotInv

LEMMA FreeSlotRecord == ASSUME ActTypes PROVE FreeSlot \in SlotRec /\ FreeSlot.cand = 0 /\ FreeSlot.live = FALSE /\ FreeSlot.fence = slot.fence
<1> DEFINE a == [slot EXCEPT !.cand = 0]
           b == [a EXCEPT !.live = FALSE]
<1>1. FreeSlot = b
  BY DEF FreeSlot
<1>2. a \in SlotRec /\ a.cand = 0 /\ a.fence = slot.fence
  BY RowIsOne DEF ActTypes, SlotRec
<1> HIDE DEF a
<1>3. b \in SlotRec /\ b.fence = slot.fence /\ b.live = FALSE /\ b.cand = 0
  BY <1>2 DEF SlotRec
<1> HIDE DEF b
<1> QED
  BY <1>1, <1>3

\* a step that leaves the slot and the other runners' copies alone
LEMMA QuietMoves ==
  ASSUME ActTypes, RunnersInv, NEW r \in Runners, slot' = slot, view' \in [Runners -> Views],
         \A q \in Runners \ {r} : view'[q] = view[q],
         Goes(r) \/ Idles(r) \/ Enters(r) \/ Joined(r)
  PROVE  Moves(r) /\ SlotGoes
<1>1. Only(r)
  BY DEF Goes, Keeps, Idles, Enters, Joined
<1>2. ASSUME NEW q \in Runners, q # r PROVE Stays(q)
  BY <1>1, <1>2 DEF Only, Stays, Sees
<1> QED
  BY <1>1, <1>2, SlotSame DEF Only, Moves

\* a step of the others
LEMMA OthersMove ==
  ASSUME ActTypes, RunnersInv, NEW r, UNCHANGED <<slot, runner, view>> PROVE Moves(r) /\ SlotGoes
BY SlotSame DEF ActTypes, Moves, Stays, Sees

\* A runner whose copy passes the tuple check owns the slot.
LEMMA Sure ==
  ASSUME ActTypes, RunnersInv, Good, NEW r \in Runners, runner[r].fence # 0, TupleOk(r)
  PROVE  Owns(r) /\ Mine(r)
<1>1. view[r] \in {"none", "same", "older", "over"}
  BY RunnerParts DEF Views
<1>2. view[r] # "over"
  BY DEF TupleOk, LeaseSeen
<1>3. view[r] # "older"
  BY DEF TupleOk, Known, RunnersInv, Behind
<1>4. CASE view[r] = "none"
  BY <1>4, RowHeadRecord DEF TupleOk, Known, LeaseSeen, Owns, Mine
<1>5. CASE view[r] = "same"
  BY <1>5 DEF TupleOk, Known, LeaseSeen, Owns, Mine, RunnersInv, RunnerInv
<1> QED
  BY <1>1, <1>2, <1>3, <1>4, <1>5

LEMMA OnlyMine ==
  ASSUME ActTypes, RunnersInv, Good, NEW r \in Runners, Mine(r), NEW q \in Runners, q # r PROVE ~Mine(q)
BY DEF RunnersInv, Alone, Mine

\* Two runners that pass the tuple check work on the same candidate only when a run has joined another.
LEMMA OneOwner ==
  ASSUME ActTypes, RunnersInv, Good, NEW r \in Runners, NEW q \in Runners, runner[r].fence # 0, runner[q].fence # 0,
         TupleOk(r), TupleOk(q)
  PROVE  r = q
BY Sure, OnlyMine

\* the slot is written by a runner that leaves
LEMMA WriteMoves ==
  ASSUME ActTypes, RunnersInv, NEW r \in Runners, NEW new \in {slot, FreeSlot}, Idle(r), WriteSlot(r, new, "none"),
         Good' => Mine(r) \/ ~slot.live
  PROVE  Moves(r) /\ SlotGoes /\ LapsesGrow
<1>1. Only(r) /\ runner'[r] = IdleRunner /\ slot' = new /\ LapsesGrow
  BY IdleMoves DEF WriteSlot, LapsesGrow
<1>2. view' = [q \in Runners |-> IF q = r THEN "none" ELSE OvertakenView(view[q])]
  BY DEF WriteSlot
<1>3. \A q \in Runners : OvertakenView(view[q]) \in Views
  BY DEF OvertakenView, Views, ActTypes
<1>4. view' \in [Runners -> Views] /\ view'[r] = "none"
  BY <1>2, <1>3 DEF Views
<1>5. ASSUME NEW q \in Runners, q # r PROVE Stays(q)
  <2>1. view'[q] = OvertakenView(view[q]) /\ runner'[q] = runner[q]
    BY <1>1, <1>2, <1>5 DEF Only
  <2>2. CASE view[q] # "same"
    BY <2>1, <2>2 DEF OvertakenView, Stays, Sees
  <2>3. CASE view[q] = "same" /\ ~slot.live
    BY <2>1, <2>3 DEF OvertakenView, Stays, Sees
  <2>4. CASE view[q] = "same" /\ slot.live
    <3>1. Good' => ~Mine(q)
      BY <1>1, <1>5, <2>4, GoodBefore, OnlyMine
    <3> QED
      BY <2>1, <2>4, <3>1 DEF OvertakenView, Stays, Sees
  <2> QED
    BY <2>2, <2>3, <2>4
<1>6. SlotGoes
  <2>1. CASE slot' = slot
    BY <2>1, SlotSame
  <2>2. CASE slot' = FreeSlot
    <3>1. slot.fence <= slot.fence
      BY RunnerParts
    <3>2. slot' \in SlotRec /\ slot'.cand = 0 /\ slot'.live = FALSE /\ slot'.fence = slot.fence
      BY <2>2, FreeSlotRecord
    <3> QED
      BY <3>1, <3>2 DEF SlotGoes
  <2> QED
    BY <1>1, <2>1, <2>2
<1> QED
  BY <1>1, <1>4, <1>5, <1>6 DEF Moves, Idles, Only

-----------------------------------------------------------------------------
(* The runners' part of the invariant                                      *)

LEMMA RowOnePresent == ASSUME ActTypes, ChainInv PROVE Present(1)
<1>1. ptr \in Nat /\ (ptr = 1 \/ ptr > 1) /\ ptr \in Rows
  BY ActivationAssumption DEF ActTypes, Rows
<1> QED
  BY <1>1, RowIsOne DEF ChainInv

\* A copy that is not written passes no check that it did not pass before.
LEMMA TupleStays ==
  ASSUME ActTypes, RunnersInv, NEW q \in Runners, Sees(q), view[q] # "none",
         runner'[q].cand = runner[q].cand, runner'[q].fence = runner[q].fence,
         runner'[q].head.cand = runner[q].head.cand, runner'[q].head.fence = runner[q].head.fence, TupleOk(q)'
  PROVE  TupleOk(q)
<1>1. view[q] \in {"same", "older", "over"}
  BY RunnerParts DEF Views
<1>2. view'[q] # "over"
  BY DEF TupleOk, LeaseSeen
<1>3. CASE view'[q] = view[q] /\ view[q] = "same"
  BY <1>3 DEF Sees, TupleOk, Known, LeaseSeen
<1>4. CASE view'[q] = view[q] /\ view[q] # "same"
  BY <1>1, <1>4 DEF TupleOk, Known, LeaseSeen
<1>5. CASE view[q] = "same" /\ view'[q] = "older" /\ slot.live
  BY <1>5 DEF TupleOk, Known, LeaseSeen
<1> QED
  BY <1>2, <1>3, <1>4, <1>5 DEF Sees

LEMMA MovesKept ==
  ASSUME ActTypes, ChainInv, RunnersInv, RowsStay, SlotGoes, LapsesGrow, NEW r, Moves(r)
  PROVE  RunnerInv' /\ SlotInv' /\ (Good' => Alone' /\ Behind')
<1>1. ASSUME NEW q \in Runners
      PROVE  /\ runner[q].cand \in Rows /\ snap'[runner[q].cand].st # "absent"
             /\ snap'[runner[q].cand].base = snap[runner[q].cand].base
             /\ runner[q].fence \in Nat /\ slot.fence \in Nat /\ slot'.fence \in Nat
             /\ runner'[q] \in RunnerRec /\ runner'[q].cand \in Rows
  BY RunnerParts DEF RunnersInv, RunnerInv, RowsStay, Present, SlotGoes, SlotRec, Moves, RunnerRec
<1>2. ASSUME NEW q \in Runners, q = r, Joined(q) PROVE runner[q].pc \notin Repairing /\ runner'[q].pc \notin Unfenced
  BY <1>2 DEF Joined, Repairing, Unfenced
<1>3. ASSUME NEW q \in Runners PROVE Present(runner[q].cand)'
  <2>1. CASE Stays(q) \/ Goes(q) \/ Joined(q)
    BY <1>1, <2>1 DEF Stays, Goes, Keeps, Joined, Present
  <2>2. CASE Idles(q)
    BY <2>2, RowOnePresent, RowIsOne, IdleRecord DEF Idles, RowsStay, Present
  <2>3. CASE Enters(q)
    BY <2>3 DEF Enters, Present
  <2> QED
    BY <2>1, <2>2, <2>3 DEF Moves
<1>4. ASSUME NEW q \in Runners
      PROVE  /\ runner'[q].pc \in Unfenced <=> runner'[q].fence = 0
             /\ runner'[q].pc \notin Repairing => snap'[runner'[q].cand].base # 0
             /\ runner'[q].pc \in {"announce", "flip"} => runner'[q].seen.base = snap'[runner'[q].cand].base
  <2>1. CASE Stays(q)
    BY <1>1, <2>1 DEF Stays, RunnersInv, RunnerInv
  <2>2. CASE Goes(q)
    BY <1>1, <2>2 DEF Goes, Keeps, RunnersInv, RunnerInv
  <2>3. CASE Joined(q)
    BY <1>1, <2>3 DEF Joined, RunnersInv, RunnerInv, Repairing, Unfenced
  <2>4. CASE Idles(q)
    BY <2>4, IdleRecord DEF Idles, Unfenced, Repairing
  <2>5. CASE Enters(q)
    BY <2>5 DEF Enters, Unfenced, Repairing
  <2> QED
    BY <2>1, <2>2, <2>3, <2>4, <2>5 DEF Moves
<1>5. ASSUME NEW q \in Runners
      PROVE  /\ runner'[q].pc \in Seeing => view'[q] # "none"
             /\ runner'[q].pc = "idle" => view'[q] = "none"
  <2>1. CASE Stays(q)
    <3>1. runner[q].pc \in Seeing => view[q] # "none" /\ view'[q] # "none"
      BY <2>1 DEF Stays, Sees, RunnersInv, RunnerInv
    <3>2. runner[q].pc = "idle" => view[q] = "none"
      BY DEF RunnersInv, RunnerInv
    <3> QED
      BY <2>1, <3>1, <3>2 DEF Stays, Sees
  <2>2. CASE Goes(q)
    <3>1. runner[q].pc \in Seeing => view[q] # "none"
      BY DEF RunnersInv, RunnerInv
    <3> QED
      BY <2>2, <3>1 DEF Goes, Sees
  <2>3. CASE Joined(q)
    BY <2>3 DEF Joined
  <2>4. CASE Idles(q)
    BY <2>4, IdleRecord DEF Idles, Seeing, Working, Copying
  <2>5. CASE Enters(q)
    BY <2>5 DEF Enters, Seeing, Working, Copying
  <2> QED
    BY <2>1, <2>2, <2>3, <2>4, <2>5 DEF Moves
<1>6. ASSUME NEW q \in Runners
      PROVE  /\ view'[q] = "same" => runner'[q].head.cand = slot'.cand /\ runner'[q].head.fence = slot'.fence
             /\ runner'[q].head.cand # 0 => runner'[q].head.fence # 0
  <2>1. ASSUME Sees(q), runner'[q].head.cand = runner[q].head.cand, runner'[q].head.fence = runner[q].head.fence
        PROVE  /\ view'[q] = "same" => runner'[q].head.cand = slot'.cand /\ runner'[q].head.fence = slot'.fence
               /\ runner'[q].head.cand # 0 => runner'[q].head.fence # 0
    BY <2>1 DEF Sees, RunnersInv, RunnerInv
  <2>2. CASE Stays(q)
    BY <2>1, <2>2 DEF Stays
  <2>3. CASE Goes(q)
    BY <2>1, <2>3 DEF Goes, SlotGoes
  <2>4. CASE Joined(q)
    BY <2>4 DEF Joined
  <2>5. CASE Idles(q)
    BY <2>5, IdleRecord, NoHeadRecord DEF Idles
  <2>6. CASE Enters(q)
    BY <2>6 DEF Enters, SlotGoes
  <2> QED
    BY <2>2, <2>3, <2>4, <2>5, <2>6 DEF Moves
<1>7. RunnerInv'
  BY <1>3, <1>4, <1>5, <1>6 DEF RunnerInv
<1>8. SlotInv'
  BY DEF SlotInv, SlotGoes
<1>9. ASSUME Good' PROVE Alone'
  <2>1. Good
    BY <1>9, GoodBefore
  <2>2. \A q \in Runners : \/ runner'[q].fence = 0
                           \/ runner'[q].fence = runner[q].fence /\ runner'[q].cand = runner[q].cand
                           \/ q = r /\ Joined(q)
    BY IdleRecord DEF Moves, Stays, Goes, Keeps, Idles, Enters
  <2>3. ASSUME NEW q \in Runners, q = r, Joined(q), NEW p \in Runners, p # q, runner'[p].fence = runner'[q].fence
        PROVE  runner'[p].cand # runner'[q].cand
    <3>1. runner'[p] = runner[p] /\ runner'[q].fence # 0 /\ runner'[q].cand = runner[q].cand
      BY <2>3 DEF Joined, Only
    <3>2. runner[p].pc # "idle"
      BY <2>3, <3>1 DEF RunnersInv, RunnerInv, Unfenced
    <3>3. ~Joins(q, runner[q].cand, runner'[q].fence)
      BY <1>9, <2>3 DEF Joined
    <3> QED
      BY <2>3, <3>1, <3>2, <3>3 DEF Joins
  <2> QED
    BY <2>1, <2>2, <2>3 DEF RunnersInv, Alone
<1>10. ASSUME Good', NEW q \in Runners
       PROVE  /\ runner'[q].fence <= slot'.fence
              /\ view'[q] = "older" /\ runner'[q].fence # 0
                 => ~(runner'[q].head.cand = runner'[q].cand /\ runner'[q].head.fence = runner'[q].fence)
  <2>1. Good /\ runner[q].fence <= slot.fence /\ slot.fence <= slot'.fence
    BY <1>10, GoodBefore DEF RunnersInv, Behind, SlotGoes
  <2>2. runner[q].fence <= slot'.fence /\ 0 <= slot'.fence /\ slot'.fence <= slot'.fence
    BY <1>1, <2>1
  <2>3. ASSUME Sees(q), runner'[q].head.cand = runner[q].head.cand, runner'[q].head.fence = runner[q].head.fence,
               runner'[q].cand = runner[q].cand, runner'[q].fence = runner[q].fence
        PROVE  view'[q] = "older" /\ runner'[q].fence # 0
               => ~(runner'[q].head.cand = runner'[q].cand /\ runner'[q].head.fence = runner'[q].fence)
    <3>1. CASE view[q] = "older"
      BY <2>1, <2>3, <3>1 DEF RunnersInv, Behind
    <3>2. CASE view[q] = "same" /\ view'[q] = "older" /\ ~Mine(q)
      BY <2>3, <3>2 DEF RunnersInv, RunnerInv, Mine
    <3> QED
      BY <1>10, <2>3, <3>1, <3>2 DEF Sees
  <2>4. CASE Stays(q)
    BY <2>2, <2>3, <2>4 DEF Stays
  <2>5. CASE Goes(q)
    BY <2>2, <2>3, <2>5 DEF Goes, Keeps
  <2>6. CASE Joined(q)
    BY <1>10, <2>2, <2>6 DEF Joined
  <2>7. CASE Idles(q)
    BY <2>2, <2>7, IdleRecord DEF Idles
  <2>8. CASE Enters(q)
    BY <2>2, <2>8 DEF Enters
  <2> QED
    BY <2>4, <2>5, <2>6, <2>7, <2>8 DEF Moves
<1>11. Good' => Behind'
  BY <1>10 DEF Behind
<1> QED
  BY <1>7, <1>8, <1>9, <1>11

LEMMA RunnersKept ==
  ASSUME ActTypes, ChainInv, RunnersInv, RowsKept, SlotGoes, LapsesGrow, NEW r, Moves(r)
  PROVE  RunnersInv'
<1>1. RunnerInv' /\ SlotInv' /\ (Good' => Alone' /\ Behind')
  BY MovesKept DEF RowsKept
<1>2. ASSUME Good', NEW q \in Runners, TupleOk(q)', runner'[q].pc \in Copying
      PROVE  /\ runner'[q].seen.cohort = snap'[runner'[q].cand].cohort
             /\ runner'[q].pc = "prepare" => runner'[q].seen.cohort # -1
  <2>1. /\ runner[q].cand \in Rows /\ Present(runner[q].cand) /\ Good
        /\ snap'[runner[q].cand].cohort = snap[runner[q].cand].cohort
    BY <1>2, GoodBefore, RunnerParts DEF RunnersInv, RunnerInv, RowsKept
  <2>2. Stays(q) \/ Goes(q)
    BY <1>2, IdleRecord DEF Moves, Idles, Enters, Joined, Copying
  <2>3. runner'[q].pc \in Seeing
    BY <1>2 DEF Seeing, Working
  <2>4. runner'[q].cand = runner[q].cand /\ runner'[q].fence = runner[q].fence
    BY <2>2 DEF Stays, Goes, Keeps
  <2>5. TupleOk(q)
    <3>1. runner[q].pc \in Seeing
      BY <2>2, <2>3 DEF Stays, Goes
    <3>2. view[q] # "none"
      BY <3>1 DEF RunnersInv, RunnerInv
    <3>3. Sees(q) /\ runner'[q].head.cand = runner[q].head.cand /\ runner'[q].head.fence = runner[q].head.fence
      BY <2>2, <2>3 DEF Stays, Goes
    <3> QED
      BY <1>2, <2>4, <3>2, <3>3, TupleStays
  <2>6. CASE Stays(q)
    BY <1>2, <2>1, <2>5, <2>6 DEF RunnersInv, CohortKnown, Stays
  <2>7. CASE Goes(q)
    <3>1. runner[q].pc \in Copying => runner[q].seen.cohort = snap[runner[q].cand].cohort
      BY <2>1, <2>5 DEF RunnersInv, CohortKnown
    <3>2. runner[q].pc = "prepare" => runner[q].seen.cohort # -1
      BY <2>1, <2>5 DEF RunnersInv, CohortKnown, Copying
    <3> QED
      BY <1>2, <2>1, <2>4, <2>7, <3>1, <3>2 DEF Goes
  <2> QED
    BY <2>2, <2>6, <2>7
<1>3. Good' => CohortKnown'
  BY <1>2 DEF CohortKnown, Copying
<1> QED
  BY <1>1, <1>3 DEF RunnersInv

-----------------------------------------------------------------------------
(* The chain of the configurations, and steps that only move a runner      *)

LEMMA ChainKept ==
  ASSUME ActTypes, ChainInv, RowsStay, NoneAppears, ptr' \in Rows, Present(ptr')
  PROVE  ChainInv'
<1>1. ASSUME NEW x \in Rows
      PROVE  /\ snap'[x].base = snap[x].base /\ snap'[x].payload = snap[x].payload
             /\ snap[x].base \in Bases /\ (Present(x) <=> Present(x)')
  BY DEF NoneAppears, RowsStay, ActTypes, SnapRec, Present
<1>2. ASSUME NEW x \in Rows
      PROVE  snap[x].base # 0 => snap[x].base \in Rows
  BY <1>1, ActivationAssumption DEF Rows, Bases
<1>3. snap'[ptr'].st # "absent"
  BY DEF RowsStay, Present
<1>4. ASSUME NEW x \in Rows
      PROVE  snap'[x].base # 0 => snap'[snap'[x].base].st # "absent"
  BY <1>1, <1>2 DEF ChainInv, Present
<1>5. ASSUME NEW x \in Rows
      PROVE  /\ snap'[x].base < x
             /\ snap'[x].st # "absent" /\ snap'[x].base = 0 => snap'[x].payload = 0
  BY <1>1 DEF ChainInv, Present
<1>6. ASSUME NEW x \in Rows, snap'[x].st = "absent"
      PROVE  snap'[x] = Absent /\ \A y \in Rows : y > x => snap'[y].st = "absent"
  <2>1. ~Present(x)
    BY <1>1, <1>6 DEF Present
  <2> QED
    BY <1>1, <2>1 DEF ChainInv, Present, NoneAppears
<1> QED
  BY <1>1, <1>3, <1>4, <1>5, <1>6 DEF ChainInv, Present

\* a revision that grows leaves no cohort behind that equals it
LEMMA CarryKept ==
  ASSUME ActTypes, ChainInv, CarryInv, SnapKept, UNCHANGED <<heads, unseen, ptr>>, LapsesGrow,
         rev' \in Nat, rev <= rev'
  PROVE  CarryInv'
<1>1. ASSUME NEW x \in Rows
      PROVE  /\ snap'[x].base = snap[x].base /\ snap'[x].cohort = snap[x].cohort
             /\ snap[x].cohort \in Int /\ rev \in Int /\ rev' \in Int
  BY DEF SnapKept, RowsKept, RowsStay, NoneAppears, ActTypes, SnapRec, Present
<1>2. \A x \in Rows : Clean(x)' <=> Clean(x)
  BY DEF Clean
<1>3. Clean(ptr)' <=> Clean(ptr)
  BY DEF Clean
<1>4. ASSUME Fresh', NEW x \in Rows
      PROVE  /\ snap'[x].cohort <= rev'
             /\ x # 1 /\ snap'[x].cohort = -1 => \A k \in Claims : heads'[x][k] = "none"
             /\ snap'[x].cohort = rev' /\ snap'[x].base = ptr' => Clean(x)'
  <2>1. snap[x].cohort <= rev /\ Fresh
    BY <1>4, GoodBefore DEF CarryInv, CohortInv
  <2>2. snap'[x].cohort <= rev' /\ (snap'[x].cohort = rev' => snap[x].cohort = rev)
    BY <1>1, <2>1
  <2> QED
    BY <1>1, <1>2, <2>1, <2>2 DEF CarryInv, CohortInv
<1>5. Fresh' => Fresh
  BY GoodBefore
<1> QED
  BY <1>3, <1>4, <1>5 DEF CarryInv, CohortInv

LEMMA OfflineKept == ASSUME OfflineInv, offline' = offline, rev \in Nat, rev' \in Nat, rev <= rev' PROVE OfflineInv'
<1>1. offline.cohort \in Nat /\ offline.cohort <= rev
  BY DEF OfflineInv, OfflineRec
<1>2. offline.cohort <= rev' /\ (offline.cohort = rev' => offline.cohort = rev)
  BY <1>1
<1> QED
  BY <1>2 DEF OfflineInv

\* No runner that passes the tuple check works on the effective configuration.
LEMMA EffectiveKept ==
  ASSUME ActTypes, ChainInv, RunnersInv, EffectiveInv, RowsStay, ptr' = ptr, LapsesGrow, NEW r, Moves(r)
  PROVE  EffectiveInv'
<1>1. SUFFICES ASSUME Good' PROVE (\A q \in Runners : Works(q)' => runner'[q].cand # ptr) /\ snap'[ptr].st \notin Unsettled
  BY DEF EffectiveInv
<1>2. Good
  BY <1>1, GoodBefore
<1>3. ASSUME NEW q \in Runners, Works(q)'
      PROVE  \/ Works(q) /\ runner'[q].cand = runner[q].cand
             \/ snap[runner'[q].cand].st \in Unsettled
  <2>1. runner'[q].pc \in Working /\ TupleOk(q)' /\ runner'[q].pc \in Seeing
    BY <1>3 DEF Works, Seeing
  <2>2. CASE q = r /\ Joined(q)
    BY <2>1, <2>2 DEF Joined, Working, Copying, Unsettled
  <2>3. CASE (Stays(q) \/ Goes(q)) /\ snap[runner[q].cand].st \notin Unsettled
    <3>1. runner[q].pc \in Working /\ runner'[q].cand = runner[q].cand /\ runner'[q].fence = runner[q].fence
      BY <2>1, <2>3 DEF Stays, Goes, Keeps
    <3>2. view[q] # "none"
      BY <3>1 DEF RunnersInv, RunnerInv, Seeing
    <3>3. Sees(q) /\ runner'[q].head.cand = runner[q].head.cand /\ runner'[q].head.fence = runner[q].head.fence
      BY <2>1, <2>3 DEF Stays, Goes
    <3>4. TupleOk(q)
      BY <2>1, <3>1, <3>2, <3>3, TupleStays
    <3> QED
      BY <3>1, <3>4 DEF Works
  <2>4. CASE (Stays(q) \/ Goes(q)) /\ snap[runner[q].cand].st \in Unsettled
    BY <2>4 DEF Stays, Goes, Keeps
  <2>5. ~Idles(q) /\ ~Enters(q)
    BY <2>1, IdleRecord DEF Idles, Enters, Working, Copying
  <2> QED
    BY <2>2, <2>3, <2>4, <2>5 DEF Moves
<1>4. \A q \in Runners : Works(q)' => runner'[q].cand # ptr
  BY <1>2, <1>3 DEF EffectiveInv
<1>5. ptr \in Rows /\ Present(ptr) /\ ~WorkedOn(ptr) /\ snap[ptr].st \notin Unsettled
  BY <1>2 DEF ActTypes, ChainInv, EffectiveInv, WorkedOn
<1>6. snap'[ptr].st \notin Unsettled
  BY <1>5 DEF RowsStay
<1> QED
  BY <1>4, <1>6

\* A step that moves a runner or changes states of rows
LEMMA QuietStep ==
  ASSUME ActInv, SnapKept, SlotGoes, LapsesGrow, UNCHANGED <<heads, unseen, ptr>>, rev' \in Nat, rev <= rev',
         offline' = offline, NEW r, Moves(r)
  PROVE  ActInv' /\ RowsStay
<1>1. RunnersInv'
  BY RunnersKept DEF ActInv, SnapKept
<1>2. ptr \in Rows /\ Present(ptr)
  BY DEF ActInv, ActTypes, ChainInv
<1>3. ChainInv'
  BY <1>2, ChainKept DEF ActInv, SnapKept, RowsKept
<1>4. CarryInv'
  BY CarryKept DEF ActInv
<1>5. ActTypes'
  BY DEF ActInv, ActTypes, SnapKept, RowsKept, RowsStay, SlotGoes, Moves
<1>6. EffectiveInv'
  BY EffectiveKept DEF ActInv, SnapKept, RowsKept
<1>7. OfflineInv'
  BY OfflineKept DEF ActInv, ActTypes
<1> QED
  BY <1>1, <1>3, <1>4, <1>5, <1>6, <1>7 DEF ActInv, SnapKept, RowsKept

\* A step that writes heads, or the transaction of the offline change
LEMMA HeadsStep ==
  ASSUME ActInv, snap' = snap, ptr' = ptr, SlotGoes, LapsesGrow, heads' \in [Rows -> [Claims -> HeadStates]],
         unseen' \in [Rows -> [Claims -> SUBSET Changes]], rev' \in Nat, CarryInv', OfflineInv', NEW r, Moves(r)
  PROVE  ActInv' /\ RowsStay
<1>1. SnapKept /\ RowsKept /\ RowsStay /\ NoneAppears
  BY SnapSame DEF ActInv, SnapKept, RowsKept
<1>2. ptr \in Rows /\ Present(ptr)
  BY DEF ActInv, ActTypes, ChainInv
<1>3. ChainInv'
  BY <1>1, <1>2, ChainKept DEF ActInv
<1>4. RunnersInv'
  BY <1>1, RunnersKept DEF ActInv
<1>5. ActTypes'
  BY DEF ActInv, ActTypes, SlotGoes, Moves
<1>6. EffectiveInv'
  BY <1>1, EffectiveKept DEF ActInv
<1> QED
  BY <1>1, <1>3, <1>4, <1>5, <1>6 DEF ActInv

-----------------------------------------------------------------------------
(* The moves of the actions                                                *)

LEMMA GotoGoes ==
  ASSUME ActTypes, RunnersInv, NEW r \in Runners, NEW pc \in RunnerPCs \ (Unfenced \cup Copying), Goto(r, pc),
         slot' = slot, runner[r].pc \notin Unfenced, pc \in Working => runner[r].pc \in Working,
         pc \in Seeing => runner[r].pc \in Seeing
  PROVE  Moves(r) /\ SlotGoes
<1>1. Keeps(r) /\ runner'[r].pc = pc /\ runner'[r].head = runner[r].head /\ view' = view
  BY GotoRunner
<1>2. Goes(r)
  BY <1>1 DEF Goes, Copying, Sees, Unfenced, Repairing
<1> QED
  BY <1>1, <1>2, QuietMoves DEF ActTypes

LEMMA DropGoes ==
  ASSUME ActTypes, RunnersInv, NEW r \in Runners, NEW pc \in RunnerPCs \ (Unfenced \cup Working), Drop(r, pc),
         slot' = slot, runner[r].pc \notin Unfenced, pc \in Seeing => runner[r].pc \in Seeing
  PROVE  Moves(r) /\ SlotGoes
<1>1. Keeps(r) /\ runner'[r].pc = pc /\ runner'[r].head = runner[r].head /\ view' = view
  BY MovedRunner, RunnerParts DEF Drop
<1>2. Goes(r)
  BY <1>1 DEF Goes, Copying, Working, Sees, Unfenced, Repairing
<1> QED
  BY <1>1, <1>2, QuietMoves DEF ActTypes

LEMMA FailGoes ==
  ASSUME ActTypes, RunnersInv, NEW r \in Runners, Fail(r), slot' = slot, runner[r].pc \notin Unfenced
  PROVE  Moves(r) /\ SlotGoes
<1>1. Keeps(r) /\ runner'[r].pc = "failed" /\ runner'[r].head = NoHead
  BY MovedRunner, NoHeadRecord DEF Fail, RunnerPCs
<1>2. view' \in [Runners -> Views] /\ view'[r] = "none" /\ \A q \in Runners \ {r} : view'[q] = view[q]
  BY DEF Fail, ActTypes, Views
<1>3. Goes(r)
  BY <1>1, <1>2, NoHeadRecord DEF Goes, Copying, Working, Seeing, Unfenced, Repairing
<1> QED
  BY <1>2, <1>3, QuietMoves

LEMMA StopIdles ==
  ASSUME ActTypes, RunnersInv, NEW r \in Runners, Stop(r), slot' = slot PROVE Moves(r) /\ SlotGoes
<1>1. Only(r) /\ runner'[r] = IdleRunner
  BY IdleMoves DEF Stop
<1>2. view' \in [Runners -> Views] /\ view'[r] = "none" /\ \A q \in Runners \ {r} : view'[q] = view[q]
  BY DEF Stop, ActTypes, Views
<1> QED
  BY <1>1, <1>2, QuietMoves DEF Idles

\* loading the candidate's row brings the copy up to date
LEMMA LoadGoes ==
  ASSUME ActTypes, RunnersInv, NEW r \in Runners, NEW pc \in {"freeze", "announce"}, view' = view, slot' = slot, snap' = snap,
         runner' = [runner EXCEPT ![r].seen = snap[runner[r].cand], ![r].pc = pc], runner[r].pc \notin Unfenced,
         runner[r].pc \in Seeing, snap[runner[r].cand].st \in Unsettled
  PROVE  Moves(r) /\ SlotGoes
<1>1. runner[r].cand \in Rows /\ pc \in RunnerPCs
  BY RunnerParts DEF RunnerPCs
<1>2. /\ Keeps(r) /\ runner'[r].pc = pc /\ runner'[r].seen = snap[runner[r].cand]
      /\ runner'[r].head = runner[r].head
  BY <1>1, LoadRunner
<1>3. Goes(r)
  BY <1>2 DEF Goes, Unfenced, Sees, Repairing
<1> QED
  BY <1>3, QuietMoves DEF ActTypes

LEMMA CandRow == ASSUME ActInv, NEW r \in Runners PROVE runner[r].cand \in Rows /\ Present(runner[r].cand)
BY DEF ActInv, ActTypes, RunnerRec, RunnersInv, RunnerInv

LEMMA RevType == ASSUME ActInv PROVE rev \in Nat /\ rev <= rev /\ rev + 1 \in Nat /\ rev <= rev + 1
BY DEF ActInv, ActTypes

\* a runner that does not stop to work has a fence
LEMMA HasFence ==
  ASSUME ActInv, NEW r \in Runners, runner[r].pc \notin Unfenced PROVE runner[r].fence # 0
BY DEF ActInv, RunnersInv, RunnerInv

-----------------------------------------------------------------------------
(* The actions that a runner takes                                         *)

LEMMA WaitDrainKeeps == ASSUME ActInv, NEW r \in Runners, WaitDrain(r) PROVE ActInv' /\ RowsStay
<1>1. /\ runner[r].pc = "wait" /\ UNCHANGED <<rowVars, lapses, slot, rev, offline>>
      /\ Goto(r, "gate") \/ Stop(r)
  BY DEF WaitDrain, otherVars
<1>2. Moves(r) /\ SlotGoes
  BY <1>1, GotoGoes, StopIdles DEF ActInv, RunnerPCs, Unfenced, Copying, Working, Seeing
<1> QED
  BY <1>1, <1>2, RevType, QuietStep, SnapSame DEF ActInv, rowVars, LapsesGrow

LEMMA CancelDrainKeeps == ASSUME ActInv, NEW r \in Runners, CancelDrain(r) PROVE ActInv' /\ RowsStay
<1>1. UNCHANGED <<rowVars, rev, offline>> /\ runner[r].pc \notin Unfenced
  BY DEF CancelDrain, otherVars, Unfenced
<1>2. CASE TupleOk(r) /\ Idle(r) /\ WriteSlot(r, FreeSlot, "none")
  <2>1. Good' => Mine(r)
    <3>1. lapses \subseteq lapses'
      BY <1>2 DEF WriteSlot
    <3> QED
      BY <1>1, <1>2, <3>1, GoodBefore, HasFence, Sure DEF LapsesGrow, ActInv
  <2>2. Moves(r) /\ SlotGoes /\ LapsesGrow
    BY <1>2, <2>1, WriteMoves DEF ActInv
  <2> QED
    BY <1>1, <2>2, RevType, QuietStep, SnapSame DEF ActInv, rowVars
<1>3. CASE Stop(r) /\ SameSlot
  BY <1>1, <1>3, StopIdles, RevType, QuietStep, SnapSame DEF ActInv, rowVars, SameSlot, LapsesGrow
<1> QED
  BY <1>2, <1>3 DEF CancelDrain

LEMMA TakeGateKeeps == ASSUME ActInv, NEW r \in Runners, TakeGate(r) PROVE ActInv' /\ RowsStay
<1>1. runner[r].pc = "gate" /\ UNCHANGED <<rowVars, lapses, slot, rev, offline>> /\ Goto(r, "confirm")
  BY DEF TakeGate
<1>2. Moves(r) /\ SlotGoes
  BY <1>1, GotoGoes DEF ActInv, RunnerPCs, Unfenced, Copying, Working, Seeing
<1> QED
  BY <1>1, <1>2, RevType, QuietStep, SnapSame DEF ActInv, rowVars, LapsesGrow

LEMMA ConfirmDrainKeeps == ASSUME ActInv, NEW r \in Runners, ConfirmDrain(r) PROVE ActInv' /\ RowsStay
<1>1. /\ runner[r].pc = "confirm" /\ UNCHANGED <<heads, unseen, lapses, ptr, slot, rev, offline>>
      /\ (Goto(r, "resume") \/ Stop(r))
      /\ snap' = snap \/ (TupleOk(r) /\ snap' = [snap EXCEPT ![runner[r].cand].st = "preparing_heads"])
  BY DEF ConfirmDrain
<1>2. Moves(r) /\ SlotGoes
  BY <1>1, GotoGoes, StopIdles DEF ActInv, RunnerPCs, Unfenced, Copying, Working, Seeing
<1>3. SnapKept
  <2>1. TupleOk(r) => WorkedOn(runner[r].cand)
    BY <1>1 DEF WorkedOn, Works, Working
  <2> QED
    BY <1>1, <2>1, CandRow, SnapSame, SnapState DEF ActInv, States, Terminal, Unsettled
<1> QED
  BY <1>1, <1>2, <1>3, RevType, QuietStep DEF ActInv, LapsesGrow

LEMMA ResumeKeeps == ASSUME ActInv, NEW r \in Runners, Resume(r) PROVE ActInv' /\ RowsStay
<1>1. /\ runner[r].pc = "resume" /\ UNCHANGED <<rowVars, lapses, slot, rev, offline>>
      /\ \/ runner' = [runner EXCEPT ![r].seen = snap[runner[r].cand], ![r].pc = "freeze"] /\ view' = view
         \/ Drop(r, "refresh") \/ Drop(r, "failed")
      /\ Drop(r, "refresh") \/ Drop(r, "failed") \/ snap[runner[r].cand].st \in Unsettled
  BY DEF Resume, Unsettled, otherVars
<1>2. Moves(r) /\ SlotGoes
  BY <1>1, LoadGoes, DropGoes DEF ActInv, RunnerPCs, Unfenced, Copying, Working, Seeing, rowVars
<1> QED
  BY <1>1, <1>2, RevType, QuietStep, SnapSame DEF ActInv, rowVars, LapsesGrow

LEMMA SealKeeps == ASSUME ActInv, NEW r \in Runners, Seal(r) PROVE ActInv' /\ RowsStay
<1> DEFINE x == runner[r].cand
           a == [snap[x] EXCEPT !.st = "ready"]
           b == [a EXCEPT !.sealed = TRUE]
<1>1. /\ runner[r].pc = "seal" /\ UNCHANGED <<heads, unseen, lapses, ptr, slot, rev, offline>>
      /\ Goto(r, "refresh") \/ Fail(r)
      /\ snap' = snap \/ (TupleOk(r) /\ snap' = [snap EXCEPT ![x] = b])
  BY DEF Seal, otherVars
<1>2. Moves(r) /\ SlotGoes
  BY <1>1, GotoGoes, FailGoes DEF ActInv, RunnerPCs, Unfenced, Copying, Working, Seeing
<1>3. x \in Rows /\ Present(x) /\ snap[x] \in SnapRec
  BY CandRow DEF ActInv, ActTypes
<1>4. a \in SnapRec /\ a.st = "ready" /\ a.base = snap[x].base /\ a.payload = snap[x].payload /\ a.cohort = snap[x].cohort
  BY <1>3, RowSt DEF States
<1> HIDE DEF a
<1>5. b \in SnapRec /\ b.st = "ready" /\ b.base = snap[x].base /\ b.payload = snap[x].payload /\ b.cohort = snap[x].cohort
  BY <1>4, RowSealed
<1> HIDE DEF b
<1>6. SnapKept
  <2>1. TupleOk(r) => WorkedOn(x)
    BY <1>1 DEF WorkedOn, Works, Working, Copying
  <2> QED
    BY <1>1, <1>3, <1>5, <2>1, SnapSame, SnapUpdate DEF ActInv
<1> QED
  BY <1>1, <1>2, <1>6, RevType, QuietStep DEF ActInv, LapsesGrow

LEMMA RefreshKeeps == ASSUME ActInv, NEW r \in Runners, Refresh(r) PROVE ActInv' /\ RowsStay
<1>1. /\ runner[r].pc = "refresh" /\ UNCHANGED <<rowVars, lapses, slot, rev, offline>>
      /\ \/ runner' = [runner EXCEPT ![r].seen = snap[runner[r].cand], ![r].pc = "announce"] /\ view' = view
         \/ Drop(r, "open") \/ Drop(r, "failed")
      /\ Drop(r, "open") \/ Drop(r, "failed") \/ snap[runner[r].cand].st \in Unsettled
  BY DEF Refresh, Unsettled, otherVars
<1>2. Moves(r) /\ SlotGoes
  BY <1>1, LoadGoes, DropGoes DEF ActInv, RunnerPCs, Unfenced, Copying, Working, Seeing, rowVars
<1> QED
  BY <1>1, <1>2, RevType, QuietStep, SnapSame DEF ActInv, rowVars, LapsesGrow

LEMMA AnnounceKeeps == ASSUME ActInv, NEW r \in Runners, Announce(r) PROVE ActInv' /\ RowsStay
<1> DEFINE a == [runner[r] EXCEPT !.pc = "flip"]
           c == [a.seen EXCEPT !.st = "publishing"]
           b == [a EXCEPT !.seen = c]
<1>1. /\ runner[r].pc = "announce" /\ UNCHANGED <<heads, unseen, lapses, ptr, slot, rev, offline>>
      /\ (runner' = [runner EXCEPT ![r] = b] /\ view' = view) \/ Fail(r)
      /\ snap' = snap \/ (TupleOk(r) /\ snap' = [snap EXCEPT ![runner[r].cand].st = "publishing"])
  BY DEF Announce, otherVars
<1>2. SnapKept
  <2>1. TupleOk(r) => WorkedOn(runner[r].cand)
    BY <1>1 DEF WorkedOn, Works, Working, Copying
  <2> QED
    BY <1>1, <2>1, CandRow, SnapSame, SnapState DEF ActInv, States, Terminal, Unsettled
<1>3. runner[r] \in RunnerRec /\ runner[r].seen \in SnapRec /\ "flip" \in RunnerPCs
  BY DEF ActInv, ActTypes, RunnerRec, RunnerPCs
<1>4. a \in RunnerRec /\ a.pc = "flip" /\ a.cand = runner[r].cand /\ a.fence = runner[r].fence
      /\ a.seen = runner[r].seen /\ a.head = runner[r].head
  BY <1>3, SetPc
<1> HIDE DEF a
<1>5. c \in SnapRec /\ c.base = runner[r].seen.base /\ c.cohort = runner[r].seen.cohort
  <2>1. a.seen \in SnapRec /\ a.seen = runner[r].seen /\ "publishing" \in States
    BY <1>3, <1>4 DEF States
  <2>2. c \in SnapRec /\ c.base = a.seen.base /\ c.cohort = a.seen.cohort
    BY <2>1, RowSt
  <2> QED
    BY <2>1, <2>2
<1> HIDE DEF c
<1>6. /\ b \in RunnerRec /\ b.pc = "flip" /\ b.cand = runner[r].cand /\ b.fence = runner[r].fence /\ b.seen = c
      /\ b.head = runner[r].head
  BY <1>4, <1>5, SetSeen
<1> HIDE DEF b
<1>7. Moves(r) /\ SlotGoes
  <2>1. CASE runner' = [runner EXCEPT ![r] = b] /\ view' = view
    <3>1. Keeps(r) /\ runner'[r] = b
      BY <1>6, <2>1 DEF Keeps, Only, ActInv, ActTypes
    <3>2. Goes(r)
      BY <1>1, <1>5, <1>6, <2>1, <3>1
         DEF ActInv, Goes, Unfenced, Copying, Working, Seeing, Repairing, RunnersInv, RunnerInv, Sees
    <3> QED
      BY <1>1, <2>1, <3>2, QuietMoves DEF ActInv, ActTypes
  <2>2. CASE Fail(r)
    BY <1>1, <2>2, FailGoes DEF ActInv, Unfenced
  <2> QED
    BY <1>1, <2>1, <2>2
<1> QED
  BY <1>1, <1>2, <1>7, RevType, QuietStep DEF ActInv, LapsesGrow

LEMMA OpenManifestKeeps == ASSUME ActInv, NEW r \in Runners, OpenManifest(r) PROVE ActInv' /\ RowsStay
<1>1. /\ UNCHANGED <<rowVars, lapses, slot, rev, offline>>
      /\ \/ Stop(r)
         \/ runner[r].pc = "open" /\ Goto(r, "post")
         \/ runner[r].pc = "repair_open" /\ Goto(r, "repair")
  <2>1. CASE runner[r].pc = "open"
    BY <2>1 DEF OpenManifest
  <2>2. CASE runner[r].pc = "repair_open"
    BY <2>2 DEF OpenManifest
  <2> QED
    BY <2>1, <2>2 DEF OpenManifest
<1>2. CASE Stop(r)
  BY <1>1, <1>2, StopIdles, RevType, QuietStep, SnapSame DEF ActInv, rowVars, LapsesGrow
<1>3. CASE runner[r].pc = "open" /\ Goto(r, "post")
  <2>1. Moves(r) /\ SlotGoes
    BY <1>1, <1>3, GotoGoes DEF ActInv, RunnerPCs, Unfenced, Copying, Working, Seeing
  <2> QED
    BY <1>1, <2>1, RevType, QuietStep, SnapSame DEF ActInv, rowVars, LapsesGrow
<1>4. CASE runner[r].pc = "repair_open" /\ Goto(r, "repair")
  <2>1. Keeps(r) /\ runner'[r].pc = "repair" /\ runner'[r].head = runner[r].head /\ view' = view
    BY <1>4, GotoRunner DEF ActInv, RunnerPCs
  <2>2. Goes(r)
    BY <1>1, <1>4, <2>1 DEF Goes, Unfenced, Copying, Working, Seeing, Repairing, Sees
  <2>3. Moves(r) /\ SlotGoes
    BY <1>1, <2>1, <2>2, QuietMoves DEF ActInv, ActTypes
  <2> QED
    BY <1>1, <2>3, RevType, QuietStep, SnapSame DEF ActInv, rowVars, LapsesGrow
<1> QED
  BY <1>1, <1>2, <1>3, <1>4

\* the cursor of a manifest moves
LEMMA CursorKept ==
  ASSUME ActTypes, NEW x \in Rows, Present(x), snap' = [snap EXCEPT ![x].cursor = @ + 1]
  PROVE  SnapKept
<1> DEFINE a == [snap[x] EXCEPT !.cursor = snap[x].cursor + 1]
<1>1. snap' = [snap EXCEPT ![x] = a]
  OBVIOUS
<1>2. snap[x] \in SnapRec /\ snap[x].cursor + 1 \in Int
  BY DEF ActTypes, SnapRec
<1>3. a \in SnapRec /\ a.st = snap[x].st /\ a.base = snap[x].base /\ a.payload = snap[x].payload
      /\ a.cohort = snap[x].cohort
  BY <1>2, RowCursor
<1> HIDE DEF a
<1> QED
  BY <1>1, <1>3, SnapUpdate DEF Present

LEMMA PostPublishKeeps == ASSUME ActInv, NEW r \in Runners, PostPublish(r) PROVE ActInv' /\ RowsStay
<1> DEFINE x == runner[r].cand
<1>1. /\ runner[r].pc = "post" /\ UNCHANGED <<heads, unseen, ptr, offline>>
      /\ \/ AskNext(x) /\ SameSlot /\ UNCHANGED <<runner, view>>
         \/ /\ TupleOk(r) /\ snap' = [snap EXCEPT ![x].st = "active"] /\ WriteSlot(r, FreeSlot, "none") /\ Idle(r)
            /\ rev' = rev
         \/ UNCHANGED <<snap, rev>> /\ SameSlot /\ (Stop(r) \/ Drop(r, "failed"))
  BY DEF PostPublish
<1>2. x \in Rows /\ Present(x)
  BY CandRow
<1>3. CASE AskNext(x) /\ SameSlot /\ UNCHANGED <<runner, view>>
  <2>1. snap' = [snap EXCEPT ![x].cursor = @ + 1] /\ rev' = rev + 1
    BY <1>3 DEF AskNext
  <2>2. SnapKept
    BY <1>2, <2>1, CursorKept DEF ActInv
  <2>3. Moves(r) /\ SlotGoes /\ LapsesGrow
    BY <1>3, OthersMove DEF ActInv, SameSlot, LapsesGrow
  <2> QED
    BY <1>1, <2>1, <2>2, <2>3, RevType, QuietStep
<1>4. CASE /\ TupleOk(r) /\ snap' = [snap EXCEPT ![x].st = "active"] /\ WriteSlot(r, FreeSlot, "none") /\ Idle(r)
           /\ rev' = rev
  <2>1. SnapKept
    <3>1. "active" \in States \ {"absent"} /\ "active" \notin Unsettled
      BY DEF States, Terminal, Unsettled
    <3> QED
      BY <1>2, <1>4, <3>1, SnapState DEF ActInv
  <2>2. Good' => Mine(r)
    <3>1. lapses \subseteq lapses'
      BY <1>4 DEF WriteSlot
    <3>2. runner[r].fence # 0
      BY <1>1, HasFence DEF Unfenced
    <3> QED
      BY <1>4, <3>1, <3>2, GoodBefore, Sure DEF LapsesGrow, ActInv
  <2>3. Moves(r) /\ SlotGoes /\ LapsesGrow
    BY <1>4, <2>2, WriteMoves DEF ActInv
  <2> QED
    BY <1>1, <1>4, <2>1, <2>3, RevType, QuietStep
<1>5. CASE UNCHANGED <<snap, rev>> /\ SameSlot /\ (Stop(r) \/ Drop(r, "failed"))
  <2>1. Moves(r) /\ SlotGoes
    BY <1>1, <1>5, DropGoes, StopIdles DEF ActInv, RunnerPCs, Unfenced, Copying, Working, Seeing, SameSlot
  <2> QED
    BY <1>1, <1>5, <2>1, RevType, QuietStep, SnapSame DEF ActInv, SameSlot, LapsesGrow
<1> QED
  BY <1>1, <1>3, <1>4, <1>5

LEMMA PostPublishErrorKeeps == ASSUME ActInv, NEW r \in Runners, PostPublishError(r) PROVE ActInv' /\ RowsStay
<1> DEFINE x == runner[r].cand
           last == snap[x].tries + 1 >= MaxTries
           next == IF last THEN "due" ELSE "later"
           a == [snap[x] EXCEPT !.tries = snap[x].tries + 1]
           b == [a EXCEPT !.next = next]
           st == IF last THEN "post_publish_blocked" ELSE b.st
           c == [b EXCEPT !.st = st]
           odd == snap[x].st \notin {"post_publish", "active", "superseded"}
           blocks == Owns(r) /\ last
           leave == ~odd \/ blocks
<1>1. /\ runner[r].pc = "post" /\ UNCHANGED <<heads, unseen, lapses, ptr, rev, offline>>
      /\ snap' = snap \/ snap' = [snap EXCEPT ![x] = c]
      /\ slot' = IF blocks THEN FreeSlot ELSE slot
      /\ view' = [q \in Runners |-> IF q = r THEN (IF leave THEN "none" ELSE "same")
                                    ELSE IF blocks THEN OvertakenView(view[q]) ELSE view[q]]
      /\ runner' = [runner EXCEPT ![r] = IF leave THEN IdleRunner ELSE Moved(r, "failed", RowHead)]
  BY DEF PostPublishError
<1>2. x \in Rows /\ Present(x) /\ runner[r].fence # 0 /\ LapsesGrow
  BY <1>1, CandRow, HasFence DEF LapsesGrow, Unfenced
<1>3. next \in {"due", "later", "parked"}
  OBVIOUS
<1> HIDE DEF next
<1>4. /\ b \in SnapRec /\ b.st = snap[x].st /\ b.base = snap[x].base /\ b.payload = snap[x].payload
      /\ b.cohort = snap[x].cohort
  <2>1. snap[x] \in SnapRec /\ snap[x].tries + 1 \in Int
    BY <1>2 DEF ActInv, ActTypes, SnapRec
  <2>2. /\ a \in SnapRec /\ a.st = snap[x].st /\ a.base = snap[x].base /\ a.payload = snap[x].payload
        /\ a.cohort = snap[x].cohort
    BY <2>1, RowTries
  <2> HIDE DEF a
  <2> QED
    BY <1>3, <2>2, RowNext
<1> HIDE DEF b
<1>5. st \in States /\ st # "absent" /\ (st \in Unsettled => snap[x].st \in Unsettled)
  <2>1. b.st \in States
    BY <1>4 DEF SnapRec
  <2> HIDE DEF last
  <2> QED
    BY <1>2, <1>4, <2>1 DEF Present, States, Terminal, Unsettled
<1> HIDE DEF st
<1>6. c \in SnapRec /\ c.st = st /\ c.base = b.base /\ c.payload = b.payload /\ c.cohort = b.cohort
  BY <1>4, <1>5, RowSt
<1> HIDE DEF c
<1>7. SnapKept
  BY <1>1, <1>2, <1>4, <1>5, <1>6, SnapSame, SnapUpdate DEF ActInv
<1> HIDE DEF last, odd
<1>8. Moves(r) /\ SlotGoes
  <2>1. ASSUME NEW q \in Runners, q # r PROVE Stays(q)
    <3>1. runner'[q] = runner[q]
      BY <1>1, <2>1 DEF ActInv, ActTypes
    <3>2. CASE ~blocks
      BY <1>1, <2>1, <3>1, <3>2 DEF Stays, Sees
    <3>3. CASE blocks
      <4>1. view'[q] = OvertakenView(view[q])
        BY <1>1, <2>1, <3>3
      <4>2. Good' => ~Mine(q)
        <5>1. Mine(r)
          BY <1>2, <3>3 DEF Owns, Mine
        <5> QED
          BY <1>2, <2>1, <5>1, GoodBefore, OnlyMine DEF ActInv
      <4> QED
        BY <3>1, <4>1, <4>2 DEF OvertakenView, Stays, Sees
    <3> QED
      BY <3>2, <3>3
  <2>2. view' \in [Runners -> Views]
    <3>1. \A q \in Runners : view[q] \in Views /\ OvertakenView(view[q]) \in Views
      BY DEF OvertakenView, Views, ActInv, ActTypes
    <3> HIDE DEF leave, blocks
    <3> QED
      BY <1>1, <3>1 DEF Views
  <2>3. SlotGoes
    <3>1. CASE blocks
      <4>1. slot.fence <= slot.fence
        BY RunnerParts DEF ActInv
      <4>2. slot' \in SlotRec /\ slot'.cand = 0 /\ slot'.live = FALSE /\ slot'.fence = slot.fence
        BY <1>1, <3>1, FreeSlotRecord DEF ActInv
      <4> QED
        BY <4>1, <4>2 DEF SlotGoes
    <3>2. CASE ~blocks
      BY <1>1, <3>2, SlotSame DEF ActInv
    <3> QED
      BY <3>1, <3>2
  <2>4. CASE leave
    <3>1. Idle(r) /\ view'[r] = "none"
      <4> HIDE DEF leave, blocks
      <4> QED
        BY <1>1, <2>4 DEF Idle
    <3>2. Idles(r)
      BY <3>1, IdleMoves DEF ActInv, Idles
    <3> QED
      BY <2>1, <2>2, <2>3, <3>2 DEF Moves, Idles, Only
  <2>5. CASE ~leave
    <3>1. runner' = [runner EXCEPT ![r] = Moved(r, "failed", RowHead)] /\ view'[r] = "same" /\ ~blocks
      <4>1. ~blocks
        BY <2>5
      <4> HIDE DEF leave, blocks
      <4> QED
        BY <1>1, <2>5, <4>1
    <3>2. /\ Keeps(r) /\ runner'[r].pc = "failed" /\ runner'[r].head.cand = slot.cand
          /\ runner'[r].head.fence = slot.fence
      BY <3>1, MovedRunner, RowHeadRecord DEF RunnerPCs, ActInv
    <3>3. slot' = slot
      BY <1>1, <3>1
    <3>4. Goes(r)
      BY <1>1, <3>1, <3>2, <3>3 DEF Goes, Copying, Working, Seeing, Unfenced, Repairing
    <3> QED
      BY <2>1, <2>2, <2>3, <3>2, <3>4 DEF Moves, Keeps, Only
  <2> QED
    BY <2>4, <2>5
<1> QED
  BY <1>1, <1>2, <1>7, <1>8, RevType, QuietStep DEF ActInv

LEMMA ExamineFailureKeeps == ASSUME ActInv, NEW r \in Runners, ExamineFailure(r) PROVE ActInv' /\ RowsStay
<1>1. /\ runner[r].pc = "failed" /\ UNCHANGED <<rowVars, lapses, slot, rev, offline>>
      /\ Drop(r, "cleanup") \/ Stop(r)
  BY DEF ExamineFailure, otherVars
<1>2. Moves(r) /\ SlotGoes
  BY <1>1, DropGoes, StopIdles DEF ActInv, RunnerPCs, Unfenced, Copying, Working, Seeing
<1> QED
  BY <1>1, <1>2, RevType, QuietStep, SnapSame DEF ActInv, rowVars, LapsesGrow

LEMMA CleanUpKeeps == ASSUME ActInv, NEW r \in Runners, CleanUp(r) PROVE ActInv' /\ RowsStay
<1> DEFINE free == Known(r).cand = 0
<1>1. runner[r].pc = "cleanup" /\ UNCHANGED <<heads, unseen, ptr, rev, offline>>
  BY DEF CleanUp, otherVars
<1>2. CASE ~free /\ ~TupleOk(r)
  <2>1. Stop(r) /\ UNCHANGED <<slot, lapses, snap>>
    BY <1>2 DEF CleanUp, SameSlot
  <2> QED
    BY <1>1, <2>1, StopIdles, RevType, QuietStep, SnapSame DEF ActInv, LapsesGrow
<1>3. CASE free \/ TupleOk(r)
  <2>1. /\ snap' = [snap EXCEPT ![runner[r].cand].st = "failed"] /\ Idle(r)
        /\ WriteSlot(r, IF free THEN slot ELSE FreeSlot, "none")
    BY <1>3 DEF CleanUp
  <2>2. SnapKept
    <3>1. "failed" \in States \ {"absent"} /\ "failed" \notin Unsettled
      BY DEF States, Terminal, Unsettled
    <3>2. runner[r].cand \in Rows /\ Present(runner[r].cand)
      BY CandRow
    <3> QED
      BY <2>1, <3>1, <3>2, SnapState DEF ActInv
  <2>3. Good' => Mine(r) \/ ~slot.live
    <3>1. LapsesGrow
      BY <2>1 DEF WriteSlot, LapsesGrow
    <3>2. CASE TupleOk(r)
      BY <1>1, <3>1, <3>2, GoodBefore, HasFence, Sure DEF Unfenced, ActInv
    <3>3. CASE free
      <4>1. Good' => ~Outdated(r)
        BY <2>1 DEF WriteSlot, Good
      <4>2. ~Outdated(r) => slot.cand = 0
        BY <3>3, RowHeadRecord DEF Outdated, Known, ActInv, RunnersInv, RunnerInv
      <4> QED
        BY <4>1, <4>2 DEF ActInv, RunnersInv, SlotInv
    <3> QED
      BY <1>3, <3>2, <3>3
  <2>4. Moves(r) /\ SlotGoes /\ LapsesGrow
    BY <2>1, <2>3, WriteMoves DEF ActInv
  <2> QED
    BY <1>1, <2>2, <2>4, RevType, QuietStep
<1> QED
  BY <1>2, <1>3

LEMMA RepairKeeps == ASSUME ActInv, NEW r \in Runners, Repair(r) PROVE ActInv' /\ RowsStay
<1> DEFINE x == runner[r].cand
           h == Known(r)
<1>1. /\ runner[r].pc = "repair" /\ UNCHANGED <<heads, unseen, lapses, ptr, slot, offline>>
      /\ \/ /\ AskNext(x) /\ runner' = [runner EXCEPT ![r].head = h]
            /\ view' = [view EXCEPT ![r] = IF @ = "none" THEN "same" ELSE @]
         \/ snap' = [snap EXCEPT ![x].st = "active"] /\ Stop(r) /\ rev' = rev
         \/ snap' = [snap EXCEPT ![x].st = "superseded"] /\ Stop(r) /\ rev' = rev
         \/ UNCHANGED <<snap, rev>> /\ Stop(r)
  BY DEF Repair
<1>2. x \in Rows /\ Present(x) /\ LapsesGrow
  BY <1>1, CandRow DEF LapsesGrow
<1>3. CASE /\ AskNext(x) /\ runner' = [runner EXCEPT ![r].head = h]
           /\ view' = [view EXCEPT ![r] = IF @ = "none" THEN "same" ELSE @]
  <2> DEFINE a == [runner[r] EXCEPT !.head = h]
  <2>1. snap' = [snap EXCEPT ![x].cursor = @ + 1] /\ rev' = rev + 1
    BY <1>3 DEF AskNext
  <2>2. SnapKept
    BY <1>2, <2>1, CursorKept DEF ActInv
  <2>3. h \in HeadRec
    BY RowHeadRecord, RunnerParts DEF ActInv, Known
  <2>4. view[r] = "none" => h.cand = slot.cand /\ h.fence = slot.fence
    BY RowHeadRecord DEF ActInv, Known
  <2>5. view[r] # "none" => h = runner[r].head
    BY DEF Known
  <2> HIDE DEF h
  <2>6. runner' = [runner EXCEPT ![r] = a]
    BY <1>3
  <2>7. a \in RunnerRec /\ a.pc = runner[r].pc /\ a.cand = runner[r].cand /\ a.fence = runner[r].fence /\ a.head = h
    BY <2>3, SetHead, RunnerParts DEF ActInv
  <2> HIDE DEF a
  <2>8. Keeps(r) /\ runner'[r] = a
    BY <2>6, <2>7 DEF Keeps, Only, ActInv, ActTypes
  <2>9. /\ view' \in [Runners -> Views] /\ \A q \in Runners \ {r} : view'[q] = view[q]
        /\ view'[r] = IF view[r] = "none" THEN "same" ELSE view[r]
    BY <1>3 DEF ActInv, ActTypes, Views
  <2>10. Goes(r)
    BY <1>1, <2>4, <2>5, <2>7, <2>8, <2>9 DEF Goes, Unfenced, Copying, Working, Seeing, Repairing, Sees
  <2>11. Moves(r) /\ SlotGoes
    BY <1>1, <2>9, <2>10, QuietMoves DEF ActInv
  <2> QED
    BY <1>1, <1>2, <2>1, <2>2, <2>11, RevType, QuietStep
<1>4. CASE Stop(r) /\ rev' = rev
  <2>1. SnapKept
    BY <1>1, <1>2, <1>4, SnapState, SnapSame, CursorKept DEF ActInv, States, Terminal, Unsettled, AskNext
  <2> QED
    BY <1>1, <1>2, <1>4, <2>1, RevType, StopIdles, QuietStep DEF ActInv
<1> QED
  BY <1>1, <1>3, <1>4

LEMMA RepairErrorKeeps ==
  ASSUME ActInv, NEW r \in Runners, NEW permanent \in BOOLEAN, RepairError(r, permanent) PROVE ActInv' /\ RowsStay
<1> DEFINE x == runner[r].cand
           next == IF permanent THEN "parked" ELSE "later"
           a == [snap[x] EXCEPT !.tries = snap[x].tries + 1]
           b == [a EXCEPT !.next = next]
<1>1. /\ UNCHANGED <<heads, unseen, lapses, ptr, slot, rev, offline>> /\ Stop(r)
      /\ snap' = snap \/ snap' = [snap EXCEPT ![x] = b]
  BY DEF RepairError
<1>2. x \in Rows /\ Present(x)
  BY CandRow
<1>3. next \in {"due", "later", "parked"}
  OBVIOUS
<1> HIDE DEF next
<1>4. /\ b \in SnapRec /\ b.st = snap[x].st /\ b.base = snap[x].base /\ b.payload = snap[x].payload
      /\ b.cohort = snap[x].cohort
  <2>1. snap[x] \in SnapRec /\ snap[x].tries + 1 \in Int
    BY <1>2 DEF ActInv, ActTypes, SnapRec
  <2>2. /\ a \in SnapRec /\ a.st = snap[x].st /\ a.base = snap[x].base /\ a.payload = snap[x].payload
        /\ a.cohort = snap[x].cohort
    BY <2>1, RowTries
  <2> HIDE DEF a
  <2> QED
    BY <1>3, <2>2, RowNext
<1> HIDE DEF b
<1>5. SnapKept
  BY <1>1, <1>2, <1>4, SnapSame, SnapUpdate DEF ActInv, Present
<1> QED
  BY <1>1, <1>5, RevType, StopIdles, QuietStep DEF ActInv, LapsesGrow

LEMMA CrashRunnerKeeps == ASSUME ActInv, NEW r \in Runners, CrashRunner(r) PROVE ActInv' /\ RowsStay
<1>1. UNCHANGED <<rowVars, lapses, slot, rev, offline>> /\ Stop(r)
  BY DEF CrashRunner, otherVars
<1> QED
  BY <1>1, RevType, StopIdles, QuietStep, SnapSame DEF ActInv, rowVars, LapsesGrow

-----------------------------------------------------------------------------
(* Time and the other writers, as far as they write no head                *)

LEMMA LeaseKeeps == ASSUME ActInv, ExpireActivationLease PROVE ActInv' /\ RowsStay
<1>1. /\ slot' = [slot EXCEPT !.live = FALSE] /\ UNCHANGED <<rowVars, lapses, rev, offline, runner>>
      /\ view' = [r \in Runners |-> IF view[r] = "older" THEN "over" ELSE view[r]]
  BY DEF ExpireActivationLease, otherVars
<1>2. slot' \in SlotRec /\ slot'.cand = slot.cand /\ slot'.fence = slot.fence /\ slot'.live = FALSE
  BY <1>1 DEF ActInv, ActTypes, SlotRec
<1>3. SlotGoes
  <2>1. slot.fence <= slot.fence
    BY RunnerParts DEF ActInv, ActTypes, SlotRec
  <2> QED
    BY <1>2, <2>1 DEF SlotGoes, ActInv, RunnersInv, SlotInv
<1>4. Moves(0)
  <2>1. view' \in [Runners -> Views]
    BY <1>1 DEF ActInv, ActTypes, Views
  <2>2. ASSUME NEW q \in Runners PROVE Stays(q)
    BY <1>1, <1>2, <2>2 DEF Stays, Sees
  <2> QED
    BY <1>1, <2>1, <2>2 DEF Moves, ActInv, ActTypes
<1> QED
  BY <1>1, <1>3, <1>4, RevType, QuietStep, SnapSame DEF ActInv, rowVars, LapsesGrow

LEMMA SeenLeaseKeeps == ASSUME ActInv, NEW r \in Runners, ExpireSeenLease(r) PROVE ActInv' /\ RowsStay
<1>1. /\ UNCHANGED <<rowVars, lapses, slot, rev, offline, runner>>
      /\ view[r] = "older" /\ view' = [view EXCEPT ![r] = "over"]
  BY DEF ExpireSeenLease, otherVars
<1>2. Moves(0)
  <2>1. view' \in [Runners -> Views]
    BY <1>1 DEF ActInv, ActTypes, Views
  <2>2. ASSUME NEW q \in Runners PROVE Stays(q)
    BY <1>1 DEF Stays, Sees, ActInv, ActTypes
  <2> QED
    BY <1>1, <2>1, <2>2 DEF Moves, ActInv, ActTypes
<1> QED
  BY <1>1, <1>2, RevType, QuietStep, SnapSame, SlotSame DEF ActInv, rowVars, LapsesGrow

LEMMA BackoffKeeps == ASSUME ActInv, NEW x \in Rows, BackoffOver(x) PROVE ActInv' /\ RowsStay
<1> DEFINE a == [snap[x] EXCEPT !.next = "due"]
<1>1. /\ snap[x].next = "later" /\ snap' = [snap EXCEPT ![x] = a]
      /\ UNCHANGED <<heads, unseen, lapses, ptr, slot, rev, offline, runner, view>>
  BY DEF BackoffOver, otherVars
<1>2. /\ a \in SnapRec /\ a.st = snap[x].st /\ a.base = snap[x].base /\ a.payload = snap[x].payload
      /\ a.cohort = snap[x].cohort
  BY RowNext DEF ActInv, ActTypes
<1>3. Present(x)
  <2>1. SUFFICES ASSUME ~Present(x) PROVE FALSE
    OBVIOUS
  <2>2. snap[x] = Absent
    BY <2>1 DEF ActInv, ChainInv
  <2> QED
    BY <1>1, <2>2 DEF Absent
<1> HIDE DEF a
<1>4. SnapKept
  BY <1>1, <1>2, <1>3, SnapUpdate DEF ActInv, Present
<1>5. Moves(0) /\ SlotGoes
  BY <1>1, OthersMove DEF ActInv
<1> QED
  BY <1>1, <1>4, <1>5, RevType, QuietStep DEF LapsesGrow

LEMMA OthersKeep ==
  ASSUME ActInv, ExpireGate \/ BeginSession \/ StartSession \/ EndSession \/ BeginBatch PROVE ActInv' /\ RowsStay
<1>1. UNCHANGED <<rowVars, lapses, slot, offline, runner, view>> /\ (rev' = rev \/ rev' = rev + 1)
  BY DEF ExpireGate, BeginSession, StartSession, EndSession, BeginBatch
<1>2. Moves(0) /\ SlotGoes
  BY <1>1, OthersMove DEF ActInv
<1> QED
  BY <1>1, <1>2, RevType, QuietStep, SnapSame DEF ActInv, rowVars, LapsesGrow

-----------------------------------------------------------------------------
(* A new row, and a runner that takes one up                               *)

LEMMA NewRow ==
  ASSUME ActTypes, ChainInv, NEW x \in NextRow, NEW a \in SnapRec, a.st # "absent", a.base = ptr,
         snap' = [snap EXCEPT ![x] = a], ptr' \in {ptr, x}
  PROVE  RowsKept /\ ChainInv' /\ x \in Rows /\ ptr < x /\ ~Present(x)
<1>1. /\ x \in Rows /\ ptr \in Rows /\ ~Present(x) /\ Present(ptr) /\ Rows \subseteq Nat
      /\ \A y \in Rows : y < x => Present(y)
  BY RowIsOne DEF NextRow, ActTypes, ChainInv, Present
<1>2. ptr < x
  <2>1. ptr \in Int /\ x \in Int /\ ~(ptr > x) /\ ptr # x
    BY <1>1 DEF ChainInv
  <2> QED
    BY <2>1
<1>3. \A y \in Rows : snap'[y] = IF y = x THEN a ELSE snap[y]
  BY <1>1 DEF ActTypes
<1>4. RowsKept
  BY <1>1, <1>3 DEF ActTypes, RowsKept, RowsStay, Present
<1>5. ptr' \in Rows /\ snap'[ptr'].st # "absent"
  BY <1>1, <1>2, <1>3 DEF Present
<1>6. ASSUME NEW y \in Rows
      PROVE  /\ snap'[y].base < y
             /\ snap'[y].base # 0 => snap'[snap'[y].base].st # "absent"
             /\ snap'[y].st # "absent" /\ snap'[y].base = 0 => snap'[y].payload = 0
  <2>1. CASE y = x
    <3>1. snap'[y].base = ptr /\ snap'[ptr].st # "absent"
      BY <1>1, <1>2, <1>3, <2>1 DEF Present
    <3> QED
      BY <1>1, <1>2, <2>1, <3>1, RowIsOne
  <2>2. CASE y # x
    <3>1. snap'[y] = snap[y] /\ snap[y].base \in Bases
      BY <1>3, <2>2 DEF ActTypes, SnapRec
    <3>2. snap[y].base < y /\ (Present(y) /\ snap[y].base = 0 => snap[y].payload = 0)
      BY DEF ChainInv
    <3>3. ASSUME snap[y].base # 0 PROVE snap'[snap[y].base].st # "absent"
      <4>1. snap[y].base \in Rows /\ Present(snap[y].base)
        BY <3>1, <3>3, ActivationAssumption DEF ChainInv, Rows, Bases
      <4> QED
        BY <1>1, <1>3, <4>1 DEF Present
    <3> QED
      BY <3>1, <3>2, <3>3 DEF Present
  <2> QED
    BY <2>1, <2>2
<1>7. ASSUME NEW y \in Rows, snap'[y].st = "absent"
      PROVE  snap'[y] = Absent /\ \A z \in Rows : z > y => snap'[z].st = "absent"
  <2>1. y # x /\ ~Present(y) /\ snap'[y] = snap[y]
    BY <1>3, <1>7 DEF Present
  <2>2. y > x
    <3>1. y \in Int /\ x \in Int /\ ~(y < x) /\ y # x
      BY <1>1, <2>1
    <3> QED
      BY <3>1
  <2>3. ASSUME NEW z \in Rows, z > y PROVE snap'[z].st = "absent"
    <3>1. z # x
      BY <1>1, <2>2, <2>3
    <3> QED
      BY <1>3, <2>1, <2>3, <3>1 DEF ChainInv, Present
  <2> QED
    BY <2>1, <2>3 DEF ChainInv
<1>8. ChainInv'
  BY <1>5, <1>6, <1>7 DEF ChainInv, Present
<1> QED
  BY <1>1, <1>2, <1>4, <1>8

LEMMA UpsertKeeps == ASSUME ActInv, NEW r \in Runners, NEW p \in 1 .. Releases, Upsert(r, p) PROVE ActInv' /\ RowsStay
<1> DEFINE n1 == [Absent EXCEPT !.st = "draft"]
           n2 == [n1 EXCEPT !.base = ptr]
           n3 == [n2 EXCEPT !.payload = p]
<1>1. PICK x \in IF snap[ptr].payload = p THEN {ptr} ELSE IF OpenRow(p) # {} THEN OpenRow(p) ELSE NextRow :
          /\ snap' = IF snap[x].st = "absent" THEN [snap EXCEPT ![x] = n3] ELSE snap
          /\ runner' = [runner EXCEPT ![r] = [IdleRunner EXCEPT !.pc = "inspect", !.cand = x,
                                                                !.early = snap'[x].st, !.head = RowHead]]
  BY DEF Upsert
<1>2. UNCHANGED <<heads, unseen, lapses, ptr, slot, rev, offline>> /\ view' = [view EXCEPT ![r] = "same"]
  BY DEF Upsert, otherVars
<1>3. ptr \in Rows /\ Present(ptr) /\ p \in Int /\ p # 0 /\ ptr \in Bases /\ ptr # 0
  BY RowIsOne DEF ActInv, ActTypes, ChainInv
<1>4. x \in Rows /\ (snap[x].st = "absent" => x \in NextRow) /\ (Present(x) => snap[x].base # 0)
  <2>1. CASE x = ptr /\ snap[ptr].payload = p
    BY <1>3, <2>1 DEF ActInv, ChainInv, Present
  <2>2. CASE x \in OpenRow(p)
    BY <1>3, <2>2 DEF OpenRow
  <2>3. CASE x \in NextRow
    BY <2>3 DEF NextRow, Present
  <2> QED
    BY <1>1, <2>1, <2>2, <2>3
<1>5. n3 \in SnapRec /\ n3.st = "draft" /\ n3.base = ptr /\ n3.cohort = -1
  <2>1. n1 \in SnapRec /\ n1.st = "draft" /\ n1.cohort = -1
    BY AbsentRow, RowSt DEF States
  <2> HIDE DEF n1
  <2>2. n2 \in SnapRec /\ n2.st = "draft" /\ n2.base = ptr /\ n2.cohort = -1
    BY <1>3, <2>1 DEF SnapRec
  <2> HIDE DEF n2
  <2> QED
    BY <1>3, <2>2 DEF SnapRec
<1> HIDE DEF n3
<1>6. RowsKept /\ ChainInv' /\ (snap' = snap \/ (~Present(x) /\ x # 1 /\ snap' = [snap EXCEPT ![x] = n3]))
  <2>1. CASE snap[x].st = "absent"
    <3>1. RowsKept /\ ChainInv' /\ ~Present(x) /\ ptr < x /\ x \in Rows
      BY <1>1, <1>2, <1>4, <1>5, <2>1, NewRow DEF ActInv
    <3>2. x # 1
      BY <1>3, <3>1, ActivationAssumption DEF Rows
    <3> QED
      BY <1>1, <2>1, <3>1, <3>2
  <2>2. CASE snap[x].st # "absent"
    <3>1. snap' = snap /\ ptr' = ptr
      BY <1>1, <1>2, <1>3, <2>2
    <3>2. SnapKept
      BY <3>1, SnapSame DEF ActInv
    <3>3. RowsKept /\ RowsStay /\ NoneAppears
      BY <3>2 DEF SnapKept, RowsKept
    <3>4. ChainInv'
      BY <1>3, <3>1, <3>3, ChainKept DEF ActInv
    <3> QED
      BY <3>1, <3>3, <3>4
  <2> QED
    BY <2>1, <2>2
<1>7. snap'[x] \in SnapRec /\ snap'[x].st \in States /\ snap'[x].st # "absent" /\ snap'[x].base # 0
  <2>1. snap'[x] \in SnapRec
    BY <1>4, <1>6 DEF RowsKept, RowsStay
  <2>2. CASE Present(x)
    BY <1>4, <1>6, <2>1, <2>2 DEF RowsKept, RowsStay, Present, SnapRec
  <2>3. CASE ~Present(x)
    <3>1. snap'[x] = n3
      BY <1>1, <1>4, <2>3 DEF Present, ActInv, ActTypes
    <3> QED
      BY <1>3, <1>5, <2>1, <3>1 DEF SnapRec
  <2> QED
    BY <2>2, <2>3
<1> DEFINE st == snap'[x].st
           a == [IdleRunner EXCEPT !.pc = "inspect"]
           b == [a EXCEPT !.cand = x]
           c == [b EXCEPT !.early = st]
           d == [c EXCEPT !.head = RowHead]
<1>8. runner' = [runner EXCEPT ![r] = d]
  BY <1>1
<1>9. /\ Only(r) /\ runner'[r].pc = "inspect" /\ runner'[r].cand = x /\ runner'[r].fence = 0
      /\ runner'[r].head.cand = slot.cand /\ runner'[r].head.fence = slot.fence
  <2>1. a \in RunnerRec /\ a.pc = "inspect" /\ a.fence = 0
    BY IdleRecord, SetPc DEF RunnerPCs
  <2> HIDE DEF a
  <2>2. b \in RunnerRec /\ b.pc = "inspect" /\ b.fence = 0 /\ b.cand = x
    BY <1>4, <2>1, SetCand
  <2> HIDE DEF b
  <2>3. st \in States
    BY <1>7
  <2> HIDE DEF st
  <2>4. c \in RunnerRec /\ c.pc = "inspect" /\ c.fence = 0 /\ c.cand = x
    BY <2>2, <2>3, SetEarly
  <2> HIDE DEF c
  <2>5. RowHead \in HeadRec /\ RowHead.cand = slot.cand /\ RowHead.fence = slot.fence
    BY RowHeadRecord DEF ActInv
  <2>6. d \in RunnerRec /\ d.pc = "inspect" /\ d.fence = 0 /\ d.cand = x /\ d.head = RowHead
    BY <2>4, <2>5, SetHead
  <2> HIDE DEF d
  <2> QED
    BY <1>8, <2>5, <2>6 DEF Only, ActInv, ActTypes
<1>10. Moves(r) /\ SlotGoes
  <2>1. view' \in [Runners -> Views] /\ view'[r] = "same" /\ \A q \in Runners \ {r} : view'[q] = view[q]
    BY <1>2 DEF ActInv, ActTypes, Views
  <2>2. Enters(r)
    BY <1>2, <1>7, <1>9, <2>1 DEF Enters
  <2> QED
    BY <1>2, <2>1, <2>2, QuietMoves DEF ActInv
<1>11. LapsesGrow /\ RowsStay
  BY <1>2, <1>6 DEF LapsesGrow, RowsKept
<1>12. RunnersInv'
  BY <1>6, <1>10, <1>11, RunnersKept DEF ActInv
<1>13. EffectiveInv'
  BY <1>2, <1>10, <1>11, EffectiveKept DEF ActInv
<1>14. ActTypes'
  BY <1>2, <1>10, <1>11 DEF ActInv, ActTypes, RowsStay, Moves
<1>15. OfflineInv'
  BY <1>2, RevType, OfflineKept DEF ActInv
<1>16. CarryInv'
  <2>1. CASE snap' = snap
    <3>1. SnapKept
      BY <2>1, SnapSame DEF ActInv
    <3> QED
      BY <1>2, <1>11, <3>1, RevType, CarryKept DEF ActInv
  <2>2. CASE ~Present(x) /\ x # 1 /\ snap' = [snap EXCEPT ![x] = n3]
    <3>1. \A y \in Rows : snap'[y] = IF y = x THEN n3 ELSE snap[y]
      BY <1>4, <2>2 DEF ActInv, ActTypes
    <3>2. snap[x].cohort = -1
      BY <1>4, <2>2, AbsentRow DEF ActInv, ChainInv
    <3>3. -1 <= rev /\ -1 # rev
      BY RevType
    <3>4. \A y \in Rows : Clean(y)' <=> Clean(y)
      BY <1>2 DEF Clean
    <3>5. ASSUME Fresh, NEW y \in Rows
          PROVE  /\ snap'[y].cohort <= rev
                 /\ y # 1 /\ snap'[y].cohort = -1 => \A k \in Claims : heads[y][k] = "none"
                 /\ snap'[y].cohort = rev /\ snap'[y].base = ptr => Clean(y)'
      <4>1. CASE y = x
        BY <1>5, <2>2, <3>1, <3>2, <3>3, <3>5, <4>1 DEF ActInv, CarryInv, CohortInv
      <4>2. CASE y # x
        BY <3>1, <3>4, <3>5, <4>2 DEF ActInv, CarryInv, CohortInv
      <4> QED
        BY <4>1, <4>2
    <3>6. Fresh' <=> Fresh
      BY <1>2 DEF Fresh
    <3> QED
      BY <1>2, <1>3, <3>4, <3>5, <3>6 DEF ActInv, CarryInv, CohortInv
  <2> QED
    BY <1>6, <2>1, <2>2
<1> QED
  BY <1>6, <1>11, <1>12, <1>13, <1>14, <1>15, <1>16 DEF ActInv

LEMMA BeginRepairKeeps == ASSUME ActInv, NEW r \in Runners, BeginRepair(r) PROVE ActInv' /\ RowsStay
<1> DEFINE a == [IdleRunner EXCEPT !.pc = "repair_open"]
           b == [a EXCEPT !.cand = ptr]
<1>1. /\ UNCHANGED <<rowVars, lapses, slot, rev, offline, view>> /\ runner' = [runner EXCEPT ![r] = b]
      /\ runner[r].pc = "idle"
  BY DEF BeginRepair, otherVars
<1>2. ptr \in Rows /\ Present(ptr)
  BY DEF ActInv, ActTypes, ChainInv
<1>3. a \in RunnerRec /\ a.pc = "repair_open" /\ a.fence = 0 /\ a.head = NoHead
  BY IdleRecord, SetPc DEF RunnerPCs
<1> HIDE DEF a
<1>4. b \in RunnerRec /\ b.pc = "repair_open" /\ b.fence = 0 /\ b.cand = ptr /\ b.head = NoHead
  BY <1>2, <1>3, SetCand
<1> HIDE DEF b
<1>5. Only(r) /\ runner'[r] = b
  BY <1>1, <1>4 DEF Only, ActInv, ActTypes
<1>6. view[r] = "none"
  BY <1>1 DEF ActInv, RunnersInv, RunnerInv
<1>7. snap'[runner'[r].cand].st # "absent"
  BY <1>1, <1>2, <1>4, <1>5 DEF rowVars, Present
<1>8. Enters(r)
  BY <1>1, <1>4, <1>5, <1>6, <1>7, NoHeadRecord DEF Enters
<1>9. Moves(r) /\ SlotGoes
  BY <1>1, <1>8, QuietMoves DEF ActInv, ActTypes
<1> QED
  BY <1>1, <1>9, RevType, QuietStep, SnapSame DEF ActInv, rowVars, LapsesGrow

-----------------------------------------------------------------------------
(* A runner that takes the slot, or joins the one that has it              *)

LEMMA InspectKeeps == ASSUME ActInv, NEW r \in Runners, Inspect(r) PROVE ActInv' /\ RowsStay
<1> DEFINE h == runner[r].head
<1>1. runner[r].pc = "inspect" /\ UNCHANGED <<rowVars, slot, rev, offline>>
  BY DEF Inspect, otherVars
<1>2. /\ view[r] # "none" /\ runner[r] \in RunnerRec /\ h.fence \in Nat /\ h.cand \in Bases
      /\ h.cand # 0 => h.fence # 0
      /\ view[r] = "same" => h.cand = slot.cand /\ h.fence = slot.fence
  BY <1>1, RunnerParts DEF ActInv, RunnersInv, RunnerInv, Seeing
<1>3. CASE h.cand = runner[r].cand /\ LeaseSeen(r) /\ runner[r].early # "draft"
  <2> DEFINE a == [runner[r] EXCEPT !.pc = "resume"]
             b == [a EXCEPT !.fence = h.fence]
             c == [b EXCEPT !.early = "absent"]
  <2>1. /\ runner' = [runner EXCEPT ![r] = c] /\ view' = view
        /\ lapses' = lapses \cup (IF Joins(r, h.cand, h.fence) THEN {"joined"} ELSE {})
                            \cup (IF Outdated(r) THEN {"blind"} ELSE {})
    BY <1>3 DEF Inspect
  <2>2. h.fence # 0
    BY <1>2, <1>3, CandRow, RowIsOne
  <2>3. a \in RunnerRec /\ a.pc = "resume" /\ a.cand = runner[r].cand /\ a.head = h
    BY <1>2, SetPc DEF RunnerPCs
  <2> HIDE DEF a
  <2>4. b \in RunnerRec /\ b.pc = "resume" /\ b.cand = runner[r].cand /\ b.fence = h.fence /\ b.head = h
    BY <1>2, <2>3, SetFence
  <2> HIDE DEF b
  <2>5. c \in RunnerRec /\ c.pc = "resume" /\ c.cand = runner[r].cand /\ c.fence = h.fence /\ c.head = h
    BY <2>4, SetEarly DEF States
  <2> HIDE DEF c
  <2>6. Only(r) /\ runner'[r] = c
    BY <2>1, <2>5 DEF Only, ActInv, ActTypes
  <2>7. ASSUME Good' PROVE view[r] = "same" /\ ~Joins(r, runner[r].cand, h.fence)
    <3>1. ~Outdated(r) /\ ~Joins(r, h.cand, h.fence)
      BY <2>1, <2>7 DEF Good
    <3> QED
      BY <1>2, <1>3, <3>1 DEF Outdated
  <2>8. Joined(r)
    BY <1>1, <1>2, <2>1, <2>2, <2>5, <2>6, <2>7 DEF Joined
  <2>9. Moves(r) /\ SlotGoes
    BY <1>1, <2>1, <2>8, QuietMoves DEF ActInv, ActTypes
  <2>10. LapsesGrow
    BY <2>1 DEF LapsesGrow
  <2> QED
    BY <1>1, <2>9, <2>10, RevType, QuietStep, SnapSame DEF ActInv, rowVars
<1>4. CASE ~(h.cand = runner[r].cand /\ LeaseSeen(r) /\ runner[r].early # "draft")
  <2>1. lapses' = lapses /\ (Goto(r, "publish") \/ Stop(r))
    BY <1>4 DEF Inspect
  <2>2. CASE Stop(r)
    BY <1>1, <2>1, <2>2, StopIdles, RevType, QuietStep, SnapSame DEF ActInv, rowVars, LapsesGrow
  <2>3. CASE Goto(r, "publish")
    <3>1. Keeps(r) /\ runner'[r].pc = "publish" /\ runner'[r].head = h /\ view' = view
      BY <2>3, GotoRunner DEF ActInv, RunnerPCs
    <3>2. Goes(r)
      BY <1>1, <3>1 DEF Goes, Unfenced, Copying, Working, Repairing, Seeing, Sees
    <3>3. Moves(r) /\ SlotGoes
      BY <1>1, <3>1, <3>2, QuietMoves DEF ActInv, ActTypes
    <3> QED
      BY <1>1, <2>1, <3>3, RevType, QuietStep, SnapSame DEF ActInv, rowVars, LapsesGrow
  <2> QED
    BY <2>1, <2>2, <2>3
<1> QED
  BY <1>3, <1>4

LEMMA PublishDrainKeeps == ASSUME ActInv, NEW r \in Runners, PublishDrain(r) PROVE ActInv' /\ RowsStay
<1> DEFINE x == runner[r].cand
           h == runner[r].head
           renews == h.cand = x /\ LeaseSeen(r)
           fence == IF renews THEN h.fence ELSE h.fence + 1
           nc == IF h.cand = 0 THEN x ELSE slot.cand
           nf == IF renews THEN slot.fence ELSE fence
           new == [cand |-> nc, fence |-> nf, live |-> TRUE]
           same == nc = x /\ nf = fence
           pc == IF snap[x].st = "draft" THEN "wait" ELSE "resume"
           h1 == [h EXCEPT !.cand = x]
           h2 == [h1 EXCEPT !.fence = fence]
           a == [runner[r] EXCEPT !.pc = pc]
           b == [a EXCEPT !.fence = fence]
           c == [b EXCEPT !.early = "absent"]
           d == [c EXCEPT !.seen = snap[x]]
           e == [d EXCEPT !.head = h2]
<1>1. runner[r].pc = "publish" /\ UNCHANGED <<rowVars, rev, offline>>
  BY DEF PublishDrain, otherVars
<1>2. CASE ~(h.cand \in {0, x} /\ nc # 0)
  <2>1. SameSlot /\ Stop(r)
    BY <1>2 DEF PublishDrain
  <2> QED
    BY <1>1, <2>1, StopIdles, RevType, QuietStep, SnapSame DEF ActInv, SameSlot, rowVars, LapsesGrow
<1>3. CASE h.cand \in {0, x} /\ nc # 0
  <2>1. /\ slot' = new
        /\ view' = [q \in Runners |-> IF q # r THEN OvertakenView(view[q]) ELSE IF same THEN "same" ELSE "older"]
        /\ lapses' = lapses \cup (IF Joins(r, x, fence) THEN {"joined"} ELSE {})
                            \cup (IF Outdated(r) THEN {"blind"} ELSE {})
    BY <1>3 DEF PublishDrain
  <2>2. runner' = [runner EXCEPT ![r] = e]
    <3>1. runner' = [runner EXCEPT ![r].pc = pc, ![r].fence = fence, ![r].early = "absent", ![r].seen = snap[x],
                                   ![r].head.cand = x, ![r].head.fence = fence]
      BY <1>3 DEF PublishDrain
    <3>2. runner \in [Runners -> RunnerRec] /\ runner[r] \in RunnerRec
      BY DEF ActInv, ActTypes
    <3> HIDE DEF fence, pc
    <3> QED
      BY <3>1, <3>2 DEF RunnerRec
  <2>3. /\ x \in Rows /\ x \in Bases /\ x # 0 /\ snap[x] \in SnapRec /\ runner[r] \in RunnerRec
        /\ slot.fence \in Nat /\ slot.cand \in Bases /\ h.fence \in Nat /\ h \in HeadRec
    BY CandRow, RowIsOne, RunnerParts DEF ActInv, ActTypes
  <2>4. /\ view[r] # "none"
        /\ h.cand # 0 => h.fence # 0
        /\ view[r] = "same" => h.cand = slot.cand /\ h.fence = slot.fence
    BY <1>1 DEF ActInv, RunnersInv, RunnerInv, Seeing
  <2>5. fence \in Nat /\ fence # 0 /\ (~renews => fence = h.fence + 1) /\ (renews => fence = h.fence)
    <3>1. CASE renews
      BY <2>3, <2>4, <3>1
    <3>2. CASE ~renews
      BY <2>3, <3>2
    <3> QED
      BY <3>1, <3>2
  <2>6. nc \in Bases /\ nf \in Nat /\ nf # 0
    <3>1. CASE renews
      <4>1. slot.cand # 0
        BY <1>3, <2>3, <3>1
      <4> QED
        BY <2>3, <3>1, <4>1 DEF ActInv, RunnersInv, SlotInv
    <3>2. CASE ~renews
      BY <2>3, <2>5, <3>2
    <3> QED
      BY <3>1, <3>2
  <2>7. Good' => view[r] = "same" /\ ~Joins(r, x, fence)
    <3> HIDE DEF fence
    <3> QED
      BY <2>1, <2>4 DEF Good, Outdated
  <2>8. ASSUME Good' PROVE same /\ slot.fence <= nf /\ (slot.live => slot.cand = x /\ fence = slot.fence)
    <3>1. h.cand = slot.cand /\ h.fence = slot.fence /\ (LeaseSeen(r) <=> slot.live)
      BY <2>4, <2>7, <2>8 DEF LeaseSeen
    <3>2. slot.live => slot.cand = x /\ renews
      BY <1>3, <3>1 DEF ActInv, RunnersInv, SlotInv
    <3>3. nc = x
      BY <1>3, <3>1
    <3>4. nf = fence
      BY <2>5, <3>1
    <3>5. slot.fence <= slot.fence /\ slot.fence <= slot.fence + 1
      BY <2>3
    <3>6. slot.fence <= nf
      BY <2>5, <3>1, <3>4, <3>5
    <3>7. slot.live => fence = slot.fence
      BY <2>5, <3>1, <3>2
    <3> QED
      BY <3>2, <3>3, <3>4, <3>6, <3>7
  <2>9. same => nc = x /\ nf = fence
    OBVIOUS
  <2>10. slot'.cand = nc /\ slot'.fence = nf /\ slot'.live = TRUE /\ slot' \in SlotRec
    BY <2>1, <2>6 DEF SlotRec
  <2> HIDE DEF renews, fence, nc, nf, new, same
  <2>11. pc \in RunnerPCs /\ pc \in {"resume", "wait"} /\ (pc = "wait" => snap[x].st = "draft")
    BY DEF RunnerPCs
  <2> HIDE DEF pc
  <2>12. h2 \in HeadRec /\ h2.cand = x /\ h2.fence = fence
    BY <2>3, <2>5 DEF HeadRec
  <2> HIDE DEF h2
  <2>13. a \in RunnerRec /\ a.pc = pc /\ a.cand = x
    BY <2>3, <2>11, SetPc
  <2> HIDE DEF a
  <2>14. b \in RunnerRec /\ b.pc = pc /\ b.cand = x /\ b.fence = fence
    BY <2>5, <2>13, SetFence
  <2> HIDE DEF b
  <2>15. c \in RunnerRec /\ c.pc = pc /\ c.cand = x /\ c.fence = fence
    BY <2>14, SetEarly DEF States
  <2> HIDE DEF c
  <2>16. d \in RunnerRec /\ d.pc = pc /\ d.cand = x /\ d.fence = fence
    BY <2>3, <2>15, SetSeen
  <2> HIDE DEF d
  <2>17. e \in RunnerRec /\ e.pc = pc /\ e.cand = x /\ e.fence = fence /\ e.head = h2
    BY <2>12, <2>16, SetHead
  <2> HIDE DEF e
  <2>18. Only(r) /\ runner'[r] = e
    BY <2>2, <2>17 DEF Only, ActInv, ActTypes
  <2>19. LapsesGrow
    BY <2>1 DEF LapsesGrow
  <2>20. view' \in [Runners -> Views] /\ view'[r] = IF same THEN "same" ELSE "older"
    <3>1. \A q \in Runners : OvertakenView(view[q]) \in Views
      BY DEF OvertakenView, Views, ActInv, ActTypes
    <3> QED
      BY <2>1, <3>1 DEF Views
  <2>21. Joined(r)
    BY <1>1, <2>5, <2>7, <2>8, <2>9, <2>10, <2>11, <2>12, <2>17, <2>18, <2>20 DEF Joined
  <2>22. ASSUME NEW q \in Runners, q # r PROVE Stays(q)
    <3>1. runner'[q] = runner[q] /\ view'[q] = OvertakenView(view[q])
      BY <2>1, <2>18, <2>22 DEF Only
    <3>2. ASSUME Good', slot.live PROVE ~Mine(q)
      <4>1. ~Joins(r, x, fence) /\ slot.cand = x /\ slot.fence = fence
        BY <2>7, <2>8, <3>2
      <4>2. SUFFICES ASSUME Mine(q) PROVE FALSE
        OBVIOUS
      <4>3. runner[q].pc # "idle"
        BY <4>2 DEF Mine, ActInv, RunnersInv, RunnerInv, Unfenced
      <4> QED
        BY <2>22, <4>1, <4>2, <4>3 DEF Mine, Joins
    <3>3. CASE view[q] # "same"
      BY <3>1, <3>3 DEF OvertakenView, Stays, Sees
    <3>4. CASE view[q] = "same" /\ ~slot.live
      BY <3>1, <3>4 DEF OvertakenView, Stays, Sees
    <3>5. CASE view[q] = "same" /\ slot.live
      BY <3>1, <3>2, <3>5 DEF OvertakenView, Stays, Sees
    <3> QED
      BY <3>3, <3>4, <3>5
  <2>23. Moves(r)
    BY <2>18, <2>20, <2>21, <2>22 DEF Moves, Only
  <2>24. SlotGoes
    <3>1. nc # 0
      BY <1>3 DEF nc
    <3>2. Good' => slot.fence <= nf
      BY <2>8
    <3> QED
      BY <2>6, <2>10, <3>1, <3>2 DEF SlotGoes
  <2> QED
    BY <1>1, <2>19, <2>23, <2>24, RevType, QuietStep, SnapSame DEF ActInv, rowVars
<1> QED
  BY <1>2, <1>3

-----------------------------------------------------------------------------
(* The freeze, the preparation and the flip                                *)

LEMMA FreezeKeeps == ASSUME ActInv, NEW r \in Runners, Freeze(r) PROVE ActInv' /\ RowsStay
<1> DEFINE x == runner[r].cand
<1>1. runner[r].pc = "freeze" /\ UNCHANGED <<heads, unseen, lapses, ptr, slot, rev, offline>>
  BY DEF Freeze, otherVars
<1>2. CASE ~TupleOk(r)
  <2>1. Fail(r) /\ snap' = snap
    BY <1>2 DEF Freeze
  <2>2. Moves(r) /\ SlotGoes
    BY <1>1, <2>1, FailGoes DEF ActInv, Unfenced
  <2> QED
    BY <1>1, <2>1, <2>2, RevType, QuietStep, SnapSame DEF ActInv, LapsesGrow
<1>3. CASE TupleOk(r) /\ runner[r].seen.cohort # -1
  <2>1. Goto(r, "prepare") /\ snap' = snap
    BY <1>3 DEF Freeze
  <2>2. /\ Keeps(r) /\ runner'[r].pc = "prepare" /\ runner'[r].seen = runner[r].seen
        /\ runner'[r].head = runner[r].head /\ view' = view
    BY <2>1, GotoRunner DEF ActInv, RunnerPCs
  <2>3. Goes(r)
    BY <1>1, <1>3, <2>2 DEF Goes, Unfenced, Copying, Working, Repairing, Seeing, Sees
  <2>4. Moves(r) /\ SlotGoes
    BY <1>1, <2>2, <2>3, QuietMoves DEF ActInv, ActTypes
  <2> QED
    BY <1>1, <2>1, <2>4, RevType, QuietStep, SnapSame DEF ActInv, LapsesGrow
<1>4. CASE TupleOk(r) /\ runner[r].seen.cohort = -1
  <2> DEFINE a == [snap[x] EXCEPT !.cohort = rev]
             st == IF runner[r].seen.st = "preparing_heads" THEN a.st ELSE "preparing_heads"
             b == [a EXCEPT !.st = st]
             f == [runner[r].seen EXCEPT !.cohort = rev]
             g == [f EXCEPT !.st = "preparing_heads"]
             u == [runner[r] EXCEPT !.pc = "prepare"]
             v == [u EXCEPT !.seen = g]
  <2>1. snap' = [snap EXCEPT ![x] = b] /\ runner' = [runner EXCEPT ![r] = v] /\ view' = view
    <3>1. snap' = [snap EXCEPT ![x].cohort = rev,
                      ![x].st = IF runner[r].seen.st = "preparing_heads" THEN @ ELSE "preparing_heads"]
      BY <1>4 DEF Freeze
    <3>2. /\ runner' = [runner EXCEPT ![r].pc = "prepare",
                           ![r].seen = [runner[r].seen EXCEPT !.cohort = rev, !.st = "preparing_heads"]]
          /\ view' = view
      BY <1>4 DEF Freeze
    <3>3. snap' = [snap EXCEPT ![x] = b]
      BY <3>1
    <3>4. runner' = [runner EXCEPT ![r] = v]
      BY <3>2
    <3> QED
      BY <3>2, <3>3, <3>4
  <2>2. /\ x \in Rows /\ Present(x) /\ snap[x] \in SnapRec /\ runner[r] \in RunnerRec /\ runner[r].seen \in SnapRec
        /\ rev \in Int /\ rev \in Nat /\ snap[x].base # 0
    <3>1. snap[x].base # 0
      BY <1>1 DEF ActInv, RunnersInv, RunnerInv, Repairing
    <3>2. runner[r].seen \in SnapRec
      BY RunnerParts DEF ActInv
    <3>3. x \in Rows /\ Present(x) /\ rev \in Nat
      BY CandRow, RevType
    <3> QED
      BY <3>1, <3>2, <3>3 DEF ActInv, ActTypes
  <2>3. a \in SnapRec /\ a.st = snap[x].st /\ a.base = snap[x].base /\ a.payload = snap[x].payload /\ a.cohort = rev
    BY <2>2, RowCohort
  <2> HIDE DEF a
  <2>4. st \in States /\ st # "absent"
    <3>1. a.st \in States
      BY <2>3 DEF SnapRec
    <3> QED
      BY <2>2, <2>3, <3>1 DEF Present, States
  <2> HIDE DEF st
  <2>5. b \in SnapRec /\ b.st = st /\ b.base = snap[x].base /\ b.payload = snap[x].payload /\ b.cohort = rev
    BY <2>3, <2>4, RowSt
  <2> HIDE DEF b
  <2>6. f \in SnapRec /\ f.cohort = rev
    BY <2>2, RowCohort
  <2> HIDE DEF f
  <2>7. g \in SnapRec /\ g.cohort = rev
    BY <2>6, RowSt DEF States
  <2> HIDE DEF g
  <2>8. u \in RunnerRec /\ u.pc = "prepare" /\ u.cand = x /\ u.fence = runner[r].fence /\ u.head = runner[r].head
    BY <2>2, SetPc DEF RunnerPCs
  <2> HIDE DEF u
  <2>9. /\ v \in RunnerRec /\ v.pc = "prepare" /\ v.cand = x /\ v.fence = runner[r].fence /\ v.seen = g
        /\ v.head = runner[r].head
    BY <2>7, <2>8, SetSeen
  <2> HIDE DEF v
  <2>10. Keeps(r) /\ runner'[r] = v
    BY <2>1, <2>9 DEF Keeps, Only, ActInv, ActTypes
  <2>11. \A y \in Rows : snap'[y] = IF y = x THEN b ELSE snap[y]
    BY <2>1, <2>2 DEF ActInv, ActTypes
  <2>12. Works(r) /\ WorkedOn(x)
    BY <1>1, <1>4 DEF Works, WorkedOn, Working, Copying
  <2>13. RowsStay /\ NoneAppears
    <3>1. snap' \in [Rows -> SnapRec]
      BY <2>1, <2>2, <2>5 DEF ActInv, ActTypes
    <3>2. ASSUME NEW y \in Rows, Present(y)
          PROVE  /\ snap'[y].st # "absent" /\ snap'[y].base = snap[y].base /\ snap'[y].payload = snap[y].payload
                 /\ snap'[y].st \in Unsettled => snap[y].st \in Unsettled \/ WorkedOn(y)
      <4>1. CASE y = x
        BY <2>4, <2>5, <2>11, <2>12, <4>1
      <4>2. CASE y # x
        BY <2>11, <3>2, <4>2 DEF Present
      <4> QED
        BY <4>1, <4>2
    <3>3. ASSUME NEW y \in Rows, ~Present(y) PROVE snap'[y] = snap[y]
      BY <2>2, <2>11, <3>3
    <3> QED
      BY <3>1, <3>2, <3>3 DEF RowsStay, NoneAppears, Present
  <2>14. ptr \in Rows /\ Present(ptr)
    BY DEF ActInv, ActTypes, ChainInv
  <2>15. ChainInv'
    BY <1>1, <2>13, <2>14, ChainKept DEF ActInv
  <2>16. Moves(r) /\ SlotGoes /\ LapsesGrow
    <3>1. rev # -1
      BY <2>2
    <3>2. Goes(r)
      BY <1>1, <2>1, <2>2, <2>5, <2>7, <2>9, <2>10, <2>11, <3>1
         DEF Goes, Unfenced, Copying, Working, Repairing, Seeing, Sees
    <3> QED
      BY <1>1, <2>1, <3>2, QuietMoves DEF ActInv, ActTypes, LapsesGrow
  <2>17. ActTypes'
    BY <1>1, <2>13, <2>16 DEF ActInv, ActTypes, RowsStay, Moves
  <2>18. EffectiveInv'
    BY <1>1, <2>13, <2>16, EffectiveKept DEF ActInv
  <2>19. RunnerInv' /\ SlotInv' /\ (Good' => Alone' /\ Behind')
    BY <2>13, <2>16, MovesKept DEF ActInv
  <2>20. ASSUME Good', NEW q \in Runners, TupleOk(q)', runner'[q].pc \in Copying
         PROVE  /\ runner'[q].seen.cohort = snap'[runner'[q].cand].cohort
                /\ runner'[q].pc = "prepare" => runner'[q].seen.cohort # -1
    <3>1. /\ runner'[q].cand = runner[q].cand /\ runner'[q].fence = runner[q].fence
          /\ runner'[q].head = runner[q].head
      BY <2>9, <2>10 DEF Keeps, Only
    <3>2. RowHead' = RowHead
      BY <1>1 DEF RowHead
    <3>3. TupleOk(q)
      BY <1>1, <2>1, <2>20, <3>1, <3>2 DEF TupleOk, Known, LeaseSeen
    <3>4. Good
      BY <2>16, <2>20, GoodBefore
    <3>5. runner'[q].fence # 0
      BY <2>19, <2>20 DEF RunnerInv, Copying, Unfenced
    <3>6. runner[r].fence # 0
      BY <1>1, HasFence DEF Unfenced
    <3>7. q = r
      BY <1>4, <3>1, <3>3, <3>4, <3>5, <3>6, OneOwner DEF ActInv
    <3>8. runner'[q].seen.cohort = rev /\ snap'[runner'[q].cand].cohort = rev
      BY <2>2, <2>5, <2>7, <2>9, <2>10, <2>11, <3>7
    <3> QED
      BY <2>2, <3>8
  <2>21. RunnersInv'
    BY <2>19, <2>20 DEF RunnersInv, CohortKnown, Copying
  <2>22. CarryInv'
    <3>1. x # 1
      BY <2>2, ActivationAssumption DEF ActInv, ActTypes, ChainInv, SnapRec, Bases
    <3>2. ASSUME Fresh PROVE \A k \in Claims : heads[x][k] = "none"
      <4>1. snap[x].cohort = -1
        BY <1>1, <1>4, <2>16, <3>2, GoodBefore DEF ActInv, RunnersInv, CohortKnown, Copying
      <4> QED
        BY <2>2, <3>1, <3>2, <4>1 DEF ActInv, CarryInv, CohortInv
    <3>3. ASSUME Fresh, NEW y \in Rows, y = x PROVE Clean(y)'
      BY <1>1, <3>2, <3>3 DEF Clean
    <3>4. \A y \in Rows : Clean(y)' <=> Clean(y)
      BY <1>1 DEF Clean
    <3>5. ASSUME Fresh, NEW y \in Rows
          PROVE  /\ snap'[y].cohort <= rev'
                 /\ y # 1 /\ snap'[y].cohort = -1 => \A k \in Claims : heads'[y][k] = "none"
                 /\ snap'[y].cohort = rev' /\ snap'[y].base = ptr' => Clean(y)'
      <4>1. CASE y = x
        <5>1. snap'[y].cohort = rev /\ rev <= rev /\ rev # -1
          BY <2>2, <2>5, <2>11, <4>1
        <5> QED
          BY <1>1, <3>3, <3>5, <4>1, <5>1
      <4>2. CASE y # x
        BY <1>1, <2>11, <3>4, <3>5, <4>2 DEF ActInv, CarryInv, CohortInv
      <4> QED
        BY <4>1, <4>2
    <3>6. Fresh' <=> Fresh
      BY <1>1 DEF Fresh
    <3> QED
      BY <1>1, <2>14, <3>4, <3>5, <3>6 DEF ActInv, CarryInv, CohortInv
  <2>23. OfflineInv'
    BY <1>1, RevType, OfflineKept DEF ActInv
  <2> QED
    BY <2>13, <2>15, <2>17, <2>18, <2>21, <2>22, <2>23 DEF ActInv
<1> QED
  BY <1>2, <1>3, <1>4

LEMMA PrepareHeadKeeps == ASSUME ActInv, NEW r \in Runners, PrepareHead(r) PROVE ActInv' /\ RowsStay
<1> DEFINE x == runner[r].cand
           ks == SetToSortSeq(Claims, <)
           n == runner[r].n + 1
           k == ks[n]
           sh == ShadowHead(x, k)
           base == snap[x].base
           un == IF sh = "current" THEN unseen[base][k] ELSE {}
<1>1. runner[r].pc = "prepare" /\ UNCHANGED <<snap, lapses, ptr, slot, rev, offline>>
  BY DEF PrepareHead, otherVars
<1>2. CASE Fail(r) /\ UNCHANGED <<heads, unseen>>
  <2>1. Moves(r) /\ SlotGoes
    BY <1>1, <1>2, FailGoes DEF ActInv, Unfenced
  <2> QED
    BY <1>1, <1>2, <2>1, RevType, QuietStep, SnapSame DEF ActInv, LapsesGrow
<1>3. CASE Stop(r) /\ UNCHANGED <<heads, unseen>>
  BY <1>1, <1>3, StopIdles, RevType, QuietStep, SnapSame DEF ActInv, LapsesGrow
<1>4. CASE /\ TupleOk(r) /\ heads' = [heads EXCEPT ![x][k] = sh] /\ unseen' = [unseen EXCEPT ![x][k] = un]
           /\ runner' = IF n = Len(ks) THEN [runner EXCEPT ![r].pc = "seal", ![r].n = 0]
                        ELSE [runner EXCEPT ![r].n = n]
           /\ view' = view
  <2>1. /\ x \in Rows /\ runner[r] \in RunnerRec /\ n \in Int /\ base # 0 /\ base \in Bases /\ rev \in Nat
    <3>1. base # 0
      BY <1>1 DEF ActInv, RunnersInv, RunnerInv, Repairing
    <3>2. x \in Rows /\ rev \in Nat /\ runner[r] \in RunnerRec /\ snap[x] \in SnapRec
      BY CandRow, RevType DEF ActInv, ActTypes
    <3> QED
      BY <3>1, <3>2 DEF RunnerRec, SnapRec
  <2>2. base \in Rows /\ base < x /\ x \in Nat /\ base \in Nat
    BY <2>1, RowIsOne, ActivationAssumption DEF Rows, Bases, ActInv, ChainInv
  <2>3. Goes(r)
    <3> DEFINE a == [runner[r] EXCEPT !.pc = "seal"]
               b == [a EXCEPT !.n = 0]
               c == [runner[r] EXCEPT !.n = n]
    <3>1. CASE n = Len(ks)
      <4>1. runner' = [runner EXCEPT ![r] = b]
        BY <1>4, <3>1
      <4>2. /\ a \in RunnerRec /\ a.pc = "seal" /\ a.cand = x /\ a.fence = runner[r].fence /\ a.seen = runner[r].seen
            /\ a.head = runner[r].head
        BY <2>1, SetPc DEF RunnerPCs
      <4> HIDE DEF a
      <4>3. /\ b \in RunnerRec /\ b.pc = "seal" /\ b.cand = x /\ b.fence = runner[r].fence /\ b.seen = runner[r].seen
            /\ b.head = runner[r].head
        BY <4>2, SetN
      <4> HIDE DEF b
      <4>4. Keeps(r) /\ runner'[r] = b
        BY <4>1, <4>3 DEF Keeps, Only, ActInv, ActTypes
      <4> QED
        BY <1>1, <1>4, <4>3, <4>4 DEF Goes, Unfenced, Copying, Working, Repairing, Seeing, Sees
    <3>2. CASE n # Len(ks)
      <4>1. runner' = [runner EXCEPT ![r] = c]
        BY <1>4, <3>2
      <4> HIDE DEF n, ks
      <4>2. /\ c \in RunnerRec /\ c.pc = runner[r].pc /\ c.cand = x /\ c.fence = runner[r].fence
            /\ c.seen = runner[r].seen /\ c.head = runner[r].head
        BY <2>1, SetN
      <4> HIDE DEF c
      <4>3. Keeps(r) /\ runner'[r] = c
        BY <4>1, <4>2 DEF Keeps, Only, ActInv, ActTypes
      <4> QED
        BY <1>1, <1>4, <4>2, <4>3 DEF Goes, Unfenced, Copying, Working, Repairing, Seeing, Sees
    <3> QED
      BY <3>1, <3>2
  <2> HIDE DEF n, ks
  <2>4. sh \in {"current", "pending"} /\ (sh = "current" => heads[base][k] = "current")
    BY DEF ShadowHead
  <2> HIDE DEF k
  <2>5. heads' \in [Rows -> [Claims -> HeadStates]]
    <3> HIDE DEF sh
    <3> QED
      BY <1>4, <2>1, <2>4 DEF ActInv, ActTypes, HeadStates
  <2>6. unseen' \in [Rows -> [Claims -> SUBSET Changes]]
    <3>1. CASE k \in Claims
      <4>1. un \in SUBSET Changes
        <5>1. unseen[base][k] \in SUBSET Changes
          BY <2>2, <3>1 DEF ActInv, ActTypes
        <5> QED
          BY <5>1
      <4> HIDE DEF un
      <4> QED
        BY <1>4, <2>1, <4>1 DEF ActInv, ActTypes
    <3>2. CASE k \notin Claims
      <4> HIDE DEF un
      <4>1. [unseen[x] EXCEPT ![k] = un] = unseen[x]
        BY <2>1, <3>2 DEF ActInv, ActTypes
      <4> QED
        BY <1>4, <2>1, <4>1 DEF ActInv, ActTypes
    <3> QED
      BY <3>1, <3>2
  <2>7. ASSUME NEW y \in Rows, NEW j \in Claims
        PROVE  /\ heads'[y][j] = IF y = x /\ j = k THEN sh ELSE heads[y][j]
               /\ unseen'[y][j] = IF y = x /\ j = k THEN un ELSE unseen[y][j]
    <3> HIDE DEF sh, un
    <3> QED
      BY <1>4, <2>1 DEF ActInv, ActTypes
  <2>8. CarryInv'
    <3>1. SUFFICES ASSUME Fresh PROVE CohortInv' /\ Clean(ptr)'
      BY <1>1 DEF CarryInv, Fresh
    <3>2. snap[x].cohort # -1 /\ x # ptr /\ Clean(ptr) /\ CohortInv /\ ptr \in Rows
      <4>1. Good
        BY <3>1 DEF Fresh, Good
      <4>2. snap[x].cohort # -1
        BY <1>1, <1>4, <4>1 DEF ActInv, RunnersInv, CohortKnown, Copying
      <4>3. x # ptr
        BY <1>1, <1>4, <4>1 DEF ActInv, EffectiveInv, Works, Working, Copying
      <4> QED
        BY <3>1, <4>2, <4>3 DEF ActInv, CarryInv, ActTypes
    <3>3. ASSUME NEW y \in Rows, y # x PROVE Clean(y)' <=> Clean(y)
      BY <2>7, <3>3 DEF Clean
    <3>4. ASSUME NEW y \in Rows, y = x, snap[x].cohort = rev, base = ptr PROVE Clean(y)'
      <4>1. Clean(x)
        BY <2>1, <3>2, <3>4 DEF CohortInv
      <4>2. ASSUME NEW j \in Claims, heads'[x][j] = "current" PROVE "cascade" \notin unseen'[x][j]
        <5>1. CASE j = k
          <6>1. sh = "current" /\ heads[ptr][j] = "current" /\ unseen'[x][j] = unseen[ptr][j]
            BY <2>1, <2>4, <2>7, <3>4, <4>2, <5>1
          <6> QED
            BY <3>2, <6>1 DEF Clean
        <5>2. CASE j # k
          BY <2>1, <2>7, <4>1, <4>2, <5>2 DEF Clean
        <5> QED
          BY <5>1, <5>2
      <4> QED
        BY <3>4, <4>2 DEF Clean
    <3>5. ASSUME NEW y \in Rows
          PROVE  /\ snap'[y].cohort <= rev'
                 /\ y # 1 /\ snap'[y].cohort = -1 => \A j \in Claims : heads'[y][j] = "none"
                 /\ snap'[y].cohort = rev' /\ snap'[y].base = ptr' => Clean(y)'
      <4>1. CASE y = x
        BY <1>1, <3>2, <3>4, <4>1 DEF CohortInv
      <4>2. CASE y # x
        BY <1>1, <2>7, <3>2, <3>3, <4>2 DEF CohortInv
      <4> QED
        BY <4>1, <4>2
    <3>6. Clean(ptr)'
      <4>1. \A y \in Rows : y # x => (Clean(y)' <=> Clean(y))
        BY <3>3
      <4> QED
        BY <1>1, <2>7, <3>2 DEF Clean
    <3> QED
      BY <3>5, <3>6 DEF CohortInv
  <2>9. Moves(r) /\ SlotGoes
    BY <1>1, <1>4, <2>3, QuietMoves DEF ActInv, ActTypes
  <2>10. OfflineInv'
    BY <1>1, RevType, OfflineKept DEF ActInv
  <2> QED
    BY <1>1, <2>1, <2>5, <2>6, <2>8, <2>9, <2>10, HeadsStep DEF LapsesGrow
<1> QED
  BY <1>2, <1>3, <1>4 DEF PrepareHead

LEMMA FlipKeeps == ASSUME ActInv, NEW r \in Runners, Flip(r) PROVE ActInv' /\ RowsStay
<1> DEFINE x == runner[r].cand
           base == runner[r].seen.base
<1>1. runner[r].pc = "flip" /\ UNCHANGED <<heads, unseen, slot, offline>>
  BY DEF Flip
<1>2. CASE ~FlipAllowed(r)
  <2>1. Fail(r) /\ UNCHANGED <<snap, ptr, rev, lapses>>
    BY <1>2 DEF Flip
  <2>2. Moves(r) /\ SlotGoes
    BY <1>1, <2>1, FailGoes DEF ActInv, Unfenced
  <2> QED
    BY <1>1, <2>1, <2>2, RevType, QuietStep, SnapSame DEF ActInv, LapsesGrow
<1>3. CASE FlipAllowed(r)
  <2>1. TupleOk(r) /\ Known(r).ptr = base /\ rev = runner[r].seen.cohort /\ base = snap[x].base
    BY <1>1, <1>3 DEF FlipAllowed, ActInv, RunnersInv, RunnerInv
  <2>2. /\ ptr' = x /\ rev' = rev + 1 /\ view' = view
        /\ runner' = [runner EXCEPT ![r] = Moved(r, "open", [runner[r].head EXCEPT !.ptr = x])]
        /\ lapses' = lapses \cup (IF Known(r).ptr # ptr THEN {"reverted"} ELSE {})
    BY <1>3 DEF Flip
  <2>3. /\ x \in Rows /\ Present(x) /\ snap[x] \in SnapRec /\ rev \in Nat /\ base # 0 /\ base \in Bases
        /\ runner[r].head \in HeadRec
    <3>1. snap[x].base # 0
      BY <1>1 DEF ActInv, RunnersInv, RunnerInv, Repairing
    <3>2. x \in Rows /\ Present(x) /\ snap[x] \in SnapRec /\ rev \in Nat /\ runner[r].head \in HeadRec
      BY CandRow, RevType, RunnerParts DEF ActInv, ActTypes
    <3> QED
      BY <2>1, <3>1, <3>2 DEF SnapRec
  <2>4. base \in Rows /\ base # x /\ Present(base)
    <3>1. base \in Rows /\ base < x /\ x \in Nat
      BY <2>1, <2>3, RowIsOne, ActivationAssumption DEF Rows, Bases, ActInv, ChainInv
    <3> QED
      BY <2>1, <2>3, <3>1, RowIsOne DEF ActInv, ChainInv
  <2>5. LapsesGrow
    BY <2>2 DEF LapsesGrow
  <2> DEFINE a == [snap[x] EXCEPT !.st = "post_publish"]
             b == [a EXCEPT !.cursor = 0]
             c == [b EXCEPT !.tries = 0]
             d == [c EXCEPT !.next = "due"]
             mid == [snap EXCEPT ![x] = d]
             st == IF base = 1 THEN snap[base].st ELSE "superseded"
             e == [mid[base] EXCEPT !.st = st]
  <2>6. snap' = [mid EXCEPT ![base] = e]
    <3>1. snap' = [snap EXCEPT ![x].st = "post_publish", ![x].cursor = 0, ![x].tries = 0, ![x].next = "due",
                               ![base].st = IF base = 1 THEN @ ELSE "superseded"]
      BY <1>3 DEF Flip
    <3>2. snap \in [Rows -> SnapRec]
      BY DEF ActInv, ActTypes
    <3> HIDE DEF x, base
    <3> QED
      BY <2>3, <2>4, <3>1, <3>2
  <2>7. /\ a \in SnapRec /\ a.st = "post_publish" /\ a.base = snap[x].base /\ a.payload = snap[x].payload
        /\ a.cohort = snap[x].cohort
    BY <2>3, RowSt DEF States
  <2> HIDE DEF a
  <2>8. /\ b \in SnapRec /\ b.st = "post_publish" /\ b.base = snap[x].base /\ b.payload = snap[x].payload
        /\ b.cohort = snap[x].cohort
    BY <2>7, RowCursor
  <2> HIDE DEF b
  <2>9. /\ c \in SnapRec /\ c.st = "post_publish" /\ c.base = snap[x].base /\ c.payload = snap[x].payload
        /\ c.cohort = snap[x].cohort
    BY <2>8, RowTries
  <2> HIDE DEF c
  <2>10. /\ d \in SnapRec /\ d.st = "post_publish" /\ d.base = snap[x].base /\ d.payload = snap[x].payload
         /\ d.cohort = snap[x].cohort
    BY <2>9, RowNext
  <2> HIDE DEF d
  <2>11. mid \in [Rows -> SnapRec] /\ mid[base] = snap[base] /\ mid[x] = d /\ \A y \in Rows : y # x => mid[y] = snap[y]
    BY <2>3, <2>4, <2>10 DEF ActInv, ActTypes
  <2> HIDE DEF mid
  <2>12. st \in States /\ st # "absent" /\ (st \in Unsettled => snap[base].st \in Unsettled)
    <3>1. mid[base].st \in States /\ snap[base].st # "absent"
      BY <2>4, <2>11 DEF SnapRec, Present
    <3> QED
      BY <2>11, <3>1 DEF States, Terminal, Unsettled
  <2> HIDE DEF st
  <2>13. /\ e \in SnapRec /\ e.st = st /\ e.base = snap[base].base /\ e.payload = snap[base].payload
         /\ e.cohort = snap[base].cohort
    <3>1. mid[base] \in SnapRec
      BY <2>4, <2>11
    <3>2. e \in SnapRec /\ e.st = st /\ e.base = mid[base].base /\ e.payload = mid[base].payload /\ e.cohort = mid[base].cohort
      BY <2>12, <3>1, RowSt
    <3> QED
      BY <2>11, <3>2
  <2> HIDE DEF e
  <2>14. /\ snap' \in [Rows -> SnapRec] /\ snap'[x] = d /\ snap'[base] = e
         /\ \A y \in Rows : y # x /\ y # base => snap'[y] = snap[y]
    BY <2>3, <2>4, <2>6, <2>11, <2>13
  <2>15. SnapKept /\ RowsKept /\ RowsStay /\ NoneAppears
    <3>1. ASSUME NEW y \in Rows, Present(y)
          PROVE  /\ snap'[y].st # "absent" /\ snap'[y].base = snap[y].base /\ snap'[y].payload = snap[y].payload
                 /\ snap'[y].cohort = snap[y].cohort
                 /\ snap'[y].st \in Unsettled => snap[y].st \in Unsettled \/ WorkedOn(y)
      <4>1. CASE y = x
        BY <2>10, <2>14, <4>1 DEF Unsettled
      <4>2. CASE y = base
        BY <2>12, <2>13, <2>14, <4>2
      <4>3. CASE y # x /\ y # base
        BY <2>14, <3>1, <4>3 DEF Present
      <4> QED
        BY <4>1, <4>2, <4>3
    <3>2. ASSUME NEW y \in Rows, ~Present(y) PROVE snap'[y] = snap[y]
      BY <2>3, <2>4, <2>14, <3>2
    <3> QED
      BY <2>14, <3>1, <3>2 DEF SnapKept, RowsKept, RowsStay, NoneAppears, Present
  <2>16. ChainInv'
    BY <2>2, <2>3, <2>15, ChainKept DEF ActInv
  <2>17. Keeps(r) /\ runner'[r].pc = "open" /\ Moves(r) /\ SlotGoes
    <3> DEFINE h == [runner[r].head EXCEPT !.ptr = x]
    <3>1. h \in HeadRec /\ h.cand = runner[r].head.cand /\ h.fence = runner[r].head.fence
      BY <2>3 DEF HeadRec
    <3>2. runner' = [runner EXCEPT ![r] = Moved(r, "open", h)]
      BY <2>2
    <3> HIDE DEF h
    <3>3. Keeps(r) /\ runner'[r].pc = "open" /\ runner'[r].head = h
      BY <3>1, <3>2, MovedRunner DEF ActInv, RunnerPCs
    <3>4. Goes(r)
      BY <1>1, <2>2, <3>1, <3>3 DEF Goes, Unfenced, Copying, Working, Repairing, Seeing, Sees
    <3> QED
      BY <1>1, <2>2, <3>3, <3>4, QuietMoves DEF ActInv, ActTypes
  <2>18. RunnersInv'
    BY <2>5, <2>15, <2>17, RunnersKept DEF ActInv
  <2>19. ActTypes'
    BY <1>1, <2>2, <2>3, <2>14, <2>17 DEF ActInv, ActTypes, Moves
  <2>20. EffectiveInv'
    <3>1. ASSUME Good', NEW q \in Runners, Works(q)' PROVE runner'[q].cand # x
      <4>1. q # r
        BY <2>17, <3>1 DEF Works, Working, Copying
      <4>2. runner'[q] = runner[q] /\ runner[q].pc \in Working
        BY <2>17, <3>1, <4>1 DEF Keeps, Only, Works
      <4>3. view[q] # "none" /\ runner[q].fence # 0 /\ runner[r].fence # 0
        BY <1>1, <4>2 DEF ActInv, RunnersInv, RunnerInv, Seeing, Working, Copying, Unfenced
      <4>4. TupleOk(q)
        BY <1>1, <2>2, <3>1, <4>2, <4>3 DEF Works, TupleOk, Known, LeaseSeen
      <4>5. Good
        BY <2>5, <3>1, GoodBefore
      <4> QED
        BY <2>1, <4>1, <4>3, <4>4, <4>5, OneOwner DEF ActInv
    <3>2. snap'[x].st \notin Unsettled
      BY <2>10, <2>14 DEF Unsettled
    <3> QED
      BY <2>2, <3>1, <3>2 DEF EffectiveInv
  <2>21. CarryInv'
    <3>1. SUFFICES ASSUME Fresh' PROVE CohortInv' /\ Clean(ptr)'
      BY DEF CarryInv
    <3>2. Fresh /\ Good /\ ptr = base
      <4>1. Fresh /\ Good
        BY <2>5, <3>1, GoodBefore
      <4>2. "reverted" \notin lapses'
        BY <3>1 DEF Fresh
      <4> QED
        BY <2>1, <2>2, <4>1, <4>2
    <3>3. snap[x].cohort = rev /\ CohortInv
      BY <1>1, <2>1, <3>2 DEF ActInv, RunnersInv, CohortKnown, Copying, CarryInv
    <3>4. Clean(x)
      BY <2>1, <2>3, <3>2, <3>3 DEF CohortInv
    <3>5. \A k \in Claims : heads'[ptr'][k] = "current" => "cascade" \notin unseen'[ptr'][k]
      BY <1>1, <2>2, <3>4 DEF Clean
    <3>6. ASSUME NEW y \in Rows
          PROVE  /\ snap'[y].cohort <= rev' /\ snap'[y].cohort # rev'
                 /\ y # 1 /\ snap'[y].cohort = -1 => \A j \in Claims : heads'[y][j] = "none"
      <4>1. snap'[y].cohort = snap[y].cohort /\ snap[y].cohort \in Int
        BY <2>15 DEF SnapKept, RowsKept, NoneAppears, ActInv, ActTypes, SnapRec
      <4>2. snap[y].cohort <= rev /\ (y # 1 /\ snap[y].cohort = -1 => \A j \in Claims : heads[y][j] = "none")
        BY <3>3 DEF CohortInv
      <4>3. snap'[y].cohort <= rev' /\ snap'[y].cohort # rev'
        BY <2>2, <2>3, <4>1, <4>2
      <4> QED
        BY <1>1, <4>1, <4>2, <4>3
    <3> QED
      BY <3>5, <3>6 DEF CohortInv, Clean
  <2>22. OfflineInv'
    BY <1>1, <2>2, RevType, OfflineKept DEF ActInv
  <2> QED
    BY <2>15, <2>16, <2>18, <2>19, <2>20, <2>21, <2>22 DEF ActInv
<1> QED
  BY <1>2, <1>3

-----------------------------------------------------------------------------
(* The worker, the invalidations and the offline change                    *)

LEMMA EndBatchKeeps == ASSUME ActInv, EndBatch PROVE ActInv' /\ RowsStay
<1>1. UNCHANGED <<snap, lapses, ptr, slot, offline, runner, view>>
  BY DEF EndBatch
<1>2. Moves(0) /\ SlotGoes /\ LapsesGrow
  BY <1>1, OthersMove DEF ActInv, LapsesGrow
<1>3. CASE UNCHANGED <<heads, unseen, rev>>
  BY <1>1, <1>2, <1>3, RevType, QuietStep, SnapSame DEF ActInv
<1>4. CASE \E k \in Pending(ptr) : /\ heads' = [heads EXCEPT ![ptr][k] = "current"]
                                   /\ unseen' = [unseen EXCEPT ![ptr][k] = {}] /\ rev' = rev + 1
  <2>1. PICK k \in Pending(ptr) : /\ heads' = [heads EXCEPT ![ptr][k] = "current"]
                                  /\ unseen' = [unseen EXCEPT ![ptr][k] = {}] /\ rev' = rev + 1
    BY <1>4
  <2>2. k \in Claims /\ heads[ptr][k] = "pending" /\ ptr \in Rows /\ rev \in Nat
    BY DEF Pending, ActInv, ActTypes
  <2>3. heads' \in [Rows -> [Claims -> HeadStates]] /\ unseen' \in [Rows -> [Claims -> SUBSET Changes]]
    BY <2>1, <2>2 DEF ActInv, ActTypes, HeadStates
  <2>4. ASSUME NEW y \in Rows, NEW j \in Claims
        PROVE  /\ heads'[y][j] = IF y = ptr /\ j = k THEN "current" ELSE heads[y][j]
               /\ unseen'[y][j] = IF y = ptr /\ j = k THEN {} ELSE unseen[y][j]
    BY <2>1, <2>2 DEF ActInv, ActTypes
  <2>5. CarryInv'
    <3>1. SUFFICES ASSUME Fresh PROVE CohortInv' /\ Clean(ptr)'
      BY <1>1 DEF CarryInv, Fresh
    <3>2. CohortInv /\ Clean(ptr)
      BY <3>1 DEF ActInv, CarryInv
    <3>3. \A j \in Claims : heads'[ptr'][j] = "current" => "cascade" \notin unseen'[ptr'][j]
      BY <1>1, <2>2, <2>4, <3>2 DEF Clean
    <3>4. ASSUME NEW y \in Rows
          PROVE  /\ snap'[y].cohort <= rev' /\ snap'[y].cohort # rev'
                 /\ y # 1 /\ snap'[y].cohort = -1 => \A j \in Claims : heads'[y][j] = "none"
      <4>1. snap[y].cohort \in Int
        BY DEF ActInv, ActTypes, SnapRec
      <4>2. snap[y].cohort <= rev /\ (y # 1 /\ snap[y].cohort = -1 => \A j \in Claims : heads[y][j] = "none")
        BY <3>2 DEF CohortInv
      <4>3. snap'[y].cohort <= rev' /\ snap'[y].cohort # rev'
        BY <1>1, <2>1, <2>2, <4>1, <4>2
      <4>4. y # 1 /\ snap[y].cohort = -1 => y # ptr
        BY <2>2, <4>2
      <4> QED
        BY <1>1, <2>4, <4>2, <4>3, <4>4
    <3> QED
      BY <3>3, <3>4 DEF CohortInv, Clean
  <2>6. OfflineInv'
    BY <1>1, <2>1, RevType, OfflineKept DEF ActInv
  <2> QED
    BY <1>1, <1>2, <2>1, <2>3, <2>5, <2>6, RevType, HeadsStep
<1> QED
  BY <1>3, <1>4 DEF EndBatch

\* What an invalidation of claim k does to the heads
LEMMA Invalidated ==
  ASSUME ActInv, NEW change \in Changes, NEW k \in Claims, heads[ptr][k] = "current", Invalidate(change, k)
  PROVE  /\ heads' \in [Rows -> [Claims -> HeadStates]] /\ unseen' \in [Rows -> [Claims -> SUBSET Changes]]
         /\ \A y \in Rows, j \in Claims :
               /\ heads'[y][j] = "current" => heads[y][j] = "current"
               /\ y # ptr \/ j # k => heads'[y][j] = heads[y][j]
               /\ unseen'[y][j] \subseteq unseen[y][j] \cup {change}
               /\ y = ptr /\ heads'[y][j] = "current" => unseen'[y][j] = unseen[y][j]
<1>1. ptr \in Rows /\ heads' = [heads EXCEPT ![ptr][k] = "pending"]
  BY DEF Invalidate, ActInv, ActTypes
<1>2. heads' \in [Rows -> [Claims -> HeadStates]]
  BY <1>1 DEF ActInv, ActTypes, HeadStates
<1>3. ASSUME NEW y \in Rows, NEW j \in Claims
      PROVE  heads'[y][j] = IF y = ptr /\ j = k THEN "pending" ELSE heads[y][j]
  BY <1>1 DEF ActInv, ActTypes
<1>4. unseen' = [y \in Rows |-> [j \in Claims |-> IF j = k /\ heads'[y][j] = "current" THEN unseen[y][j] \cup {change}
                                                  ELSE unseen[y][j]]]
  BY DEF Invalidate
<1>5. ASSUME NEW y \in Rows, NEW j \in Claims
      PROVE  /\ unseen[y][j] \in SUBSET Changes
             /\ unseen'[y][j] = IF j = k /\ heads'[y][j] = "current" THEN unseen[y][j] \cup {change} ELSE unseen[y][j]
  BY <1>4 DEF ActInv, ActTypes
<1>6. unseen' \in [Rows -> [Claims -> SUBSET Changes]]
  <2>1. \A y \in Rows, j \in Claims : (IF j = k /\ heads'[y][j] = "current" THEN unseen[y][j] \cup {change}
                                       ELSE unseen[y][j]) \in SUBSET Changes
    BY <1>5
  <2> QED
    BY <1>4, <2>1
<1>7. ASSUME NEW y \in Rows, NEW j \in Claims
      PROVE  /\ heads'[y][j] = "current" => heads[y][j] = "current"
             /\ y # ptr \/ j # k => heads'[y][j] = heads[y][j]
             /\ unseen'[y][j] \subseteq unseen[y][j] \cup {change}
             /\ y = ptr /\ heads'[y][j] = "current" => unseen'[y][j] = unseen[y][j]
  BY <1>3, <1>5
<1> QED
  BY <1>2, <1>6, <1>7

LEMMA InvalidateKeeps ==
  ASSUME ActInv, NEW change \in Changes, NEW k \in Claims, heads[ptr][k] = "current", Invalidate(change, k),
         UNCHANGED <<snap, lapses, ptr, slot, runner, view>>, rev' = rev + 1 \/ (change = "source" /\ rev' = rev)
  PROVE  ActInv' /\ RowsStay
<1>1. /\ heads' \in [Rows -> [Claims -> HeadStates]] /\ unseen' \in [Rows -> [Claims -> SUBSET Changes]]
  BY Invalidated
<1>2. ASSUME NEW y \in Rows, NEW j \in Claims
      PROVE  /\ heads'[y][j] = "current" => heads[y][j] = "current"
             /\ y # ptr \/ j # k => heads'[y][j] = heads[y][j]
             /\ unseen'[y][j] \subseteq unseen[y][j] \cup {change}
             /\ y = ptr /\ heads'[y][j] = "current" => unseen'[y][j] = unseen[y][j]
  BY Invalidated
<1>3. ptr \in Rows /\ rev \in Nat /\ rev' \in Nat
  BY RevType DEF ActInv, ActTypes
<1>4. CarryInv'
  <2>1. SUFFICES ASSUME Fresh PROVE CohortInv' /\ Clean(ptr)'
    BY DEF CarryInv, Fresh
  <2>2. CohortInv /\ Clean(ptr)
    BY <2>1 DEF ActInv, CarryInv
  <2>3. \A j \in Claims : heads'[ptr'][j] = "current" => "cascade" \notin unseen'[ptr'][j]
    BY <1>2, <1>3, <2>2 DEF Clean
  <2>4. ASSUME NEW y \in Rows
        PROVE  /\ snap'[y].cohort <= rev'
               /\ y # 1 /\ snap'[y].cohort = -1 => \A j \in Claims : heads'[y][j] = "none"
               /\ snap'[y].cohort = rev' /\ snap'[y].base = ptr' => Clean(y)'
    <3>1. snap[y].cohort \in Int
      BY DEF ActInv, ActTypes, SnapRec
    <3>2. /\ snap[y].cohort <= rev /\ (y # 1 /\ snap[y].cohort = -1 => \A j \in Claims : heads[y][j] = "none")
          /\ snap[y].cohort = rev /\ snap[y].base = ptr => Clean(y)
      BY <2>2 DEF CohortInv
    <3>3. snap'[y].cohort <= rev' /\ (snap'[y].cohort = rev' => rev' = rev /\ change = "source")
      BY <1>3, <3>1, <3>2
    <3>4. y # 1 /\ snap[y].cohort = -1 => y # ptr
      BY <3>2
    <3>5. change = "source" /\ Clean(y) => Clean(y)'
      BY <1>2 DEF Clean
    <3> QED
      BY <1>2, <3>2, <3>3, <3>4, <3>5
  <2> QED
    BY <2>3, <2>4 DEF CohortInv, Clean
<1>5. OfflineInv'
  <2>1. CASE offline.pc = "none"
    <3>1. offline' = offline /\ rev <= rev'
      BY <1>3, <2>1, RevType DEF Invalidate
    <3> QED
      BY <1>3, <3>1, OfflineKept DEF ActInv
  <2>2. CASE offline.pc # "none"
    <3> DEFINE m == [offline.missed EXCEPT ![k] = offline.missed[k] \cup {change}]
    <3>1. offline' = [offline EXCEPT !.missed = m]
      BY <2>2 DEF Invalidate
    <3>2. offline.missed \in [Claims -> SUBSET Changes]
      BY DEF ActInv, OfflineInv, OfflineRec
    <3>3. m \in [Claims -> SUBSET Changes] /\ \A j \in Claims : m[j] = IF j = k THEN offline.missed[j] \cup {change}
                                                                      ELSE offline.missed[j]
      BY <3>2
    <3> HIDE DEF m
    <3>4. /\ offline' \in OfflineRec /\ offline'.cohort = offline.cohort /\ offline'.missed = m
      BY <3>1, <3>3 DEF ActInv, OfflineInv, OfflineRec
    <3>5. /\ offline.cohort \in Nat /\ offline.cohort <= rev
          /\ offline.cohort = rev => \A j \in Claims : "cascade" \notin offline.missed[j]
      BY <2>2 DEF ActInv, OfflineInv, OfflineRec
    <3>6. offline.cohort <= rev' /\ (offline.cohort = rev' => offline.cohort = rev /\ change = "source")
      BY <1>3, <3>5
    <3>7. offline.cohort = rev' => \A j \in Claims : "cascade" \notin m[j]
      BY <3>3, <3>5, <3>6
    <3> QED
      BY <3>4, <3>5, <3>6, <3>7 DEF OfflineInv
  <2> QED
    BY <2>1, <2>2
<1>6. Moves(0) /\ SlotGoes /\ LapsesGrow
  BY OthersMove DEF ActInv, LapsesGrow
<1> QED
  BY <1>1, <1>3, <1>4, <1>5, <1>6, HeadsStep

LEMMA CascadeKeeps == ASSUME ActInv, CascadeInvalidates PROVE ActInv' /\ RowsStay
<1>1. PICK k \in Claims : heads[ptr][k] = "current" /\ Invalidate("cascade", k)
  BY DEF CascadeInvalidates
<1>2. UNCHANGED <<snap, lapses, ptr, slot, runner, view>> /\ rev' = rev + 1
  BY DEF CascadeInvalidates
<1> QED
  BY <1>1, <1>2, InvalidateKeeps DEF Changes

LEMMA SourceKeeps == ASSUME ActInv, SourceInvalidates PROVE ActInv' /\ RowsStay
<1>1. PICK k \in Claims : heads[ptr][k] = "current" /\ Invalidate("source", k)
  BY DEF SourceInvalidates
<1>2. UNCHANGED <<snap, lapses, ptr, slot, runner, view, rev>>
  BY DEF SourceInvalidates
<1> QED
  BY <1>1, <1>2, InvalidateKeeps DEF Changes

LEMMA NoOfflineRecord == NoOffline \in OfflineRec /\ NoOffline.pc = "none" /\ NoOffline.cohort = 0
<1>1. [k \in Claims |-> {}] \in [Claims -> SUBSET Changes]
  OBVIOUS
<1> QED
  BY <1>1, RowIsOne DEF NoOffline, OfflineRec

\* The offline change evaluates, or gives up.
LEMMA OfflineWaits == ASSUME ActInv, PrepareOffline \/ CheckOffline \/ AbandonOffline PROVE ActInv' /\ RowsStay
<1>1. UNCHANGED <<rowVars, lapses, slot, rev, runner, view>>
  BY DEF PrepareOffline, CheckOffline, AbandonOffline, offVars
<1>2. rev \in Nat /\ 0 <= rev /\ rev <= rev /\ ptr \in Bases
  BY RowIsOne DEF ActInv, ActTypes
<1>3. OfflineInv'
  <2>1. CASE PrepareOffline
    <3> DEFINE a == [NoOffline EXCEPT !.pc = "prepared"]
               b == [a EXCEPT !.base = ptr]
               c == [b EXCEPT !.cohort = rev]
    <3>1. offline' = c
      BY <2>1 DEF PrepareOffline
    <3>2. a \in OfflineRec /\ a.missed = [k \in Claims |-> {}]
      BY NoOfflineRecord DEF OfflineRec, NoOffline
    <3> HIDE DEF a
    <3>3. b \in OfflineRec /\ b.missed = [k \in Claims |-> {}]
      BY <1>2, <3>2 DEF OfflineRec
    <3> HIDE DEF b
    <3>4. c \in OfflineRec /\ c.missed = [k \in Claims |-> {}] /\ c.cohort = rev
      BY <1>2, <3>3 DEF OfflineRec
    <3> HIDE DEF c
    <3> QED
      BY <1>1, <1>2, <3>1, <3>4 DEF OfflineInv
  <2>2. CASE CheckOffline
    <3>1. offline.pc = "prepared" /\ offline' = [offline EXCEPT !.pc = "checked"] /\ offline \in OfflineRec
      BY <2>2 DEF CheckOffline, ActInv, OfflineInv
    <3>2. offline' \in OfflineRec /\ offline'.cohort = offline.cohort /\ offline'.missed = offline.missed
      BY <3>1 DEF OfflineRec
    <3>3. offline.cohort <= rev /\ (offline.cohort = rev => \A k \in Claims : "cascade" \notin offline.missed[k])
      BY <3>1 DEF ActInv, OfflineInv
    <3> QED
      BY <1>1, <3>2, <3>3 DEF OfflineInv
  <2>3. CASE AbandonOffline
    BY <1>1, <1>2, <2>3, NoOfflineRecord DEF AbandonOffline, OfflineInv
  <2> QED
    BY <2>1, <2>2, <2>3
<1>4. Moves(0) /\ SlotGoes /\ LapsesGrow
  BY <1>1, OthersMove DEF ActInv, LapsesGrow
<1>5. SnapKept
  BY <1>1, SnapSame DEF ActInv, rowVars
<1>6. CarryInv'
  BY <1>1, <1>2, <1>4, <1>5, CarryKept DEF ActInv, rowVars
<1> QED
  BY <1>1, <1>2, <1>3, <1>4, <1>6, HeadsStep DEF ActInv, ActTypes, rowVars

LEMMA PublishOfflineKeeps ==
  ASSUME ActInv, NEW p \in 1 .. Releases, PublishOffline(p) PROVE ActInv' /\ RowsStay
<1> DEFINE a == [Absent EXCEPT !.st = "active"]
           b == [a EXCEPT !.base = offline.base]
           c == [b EXCEPT !.payload = p]
           d == [c EXCEPT !.cohort = offline.cohort]
           e == [d EXCEPT !.sealed = TRUE]
           un(hs) == [k \in Claims |-> IF hs[k] = "current" THEN offline.missed[k] ELSE {}]
<1>1. PICK x \in NextRow, hs \in [Claims -> {"current", "pending", "invalid"}] :
          /\ snap' = [snap EXCEPT ![x] = e] /\ heads' = [heads EXCEPT ![x] = hs]
          /\ unseen' = [unseen EXCEPT ![x] = un(hs)] /\ ptr' = x
  BY DEF PublishOffline, SealedOffline
<1>2. /\ UNCHANGED <<slot, rev, runner, view>> /\ offline' = NoOffline /\ ptr = offline.base /\ offline.pc = "checked"
      /\ lapses' = lapses \cup (IF rev # offline.cohort THEN {"passed"} ELSE {})
                          \cup (IF live # None THEN {"uncounted"} ELSE {})
  BY DEF PublishOffline, offVars
<1>3. /\ ptr \in Rows /\ ptr \in Bases /\ rev \in Nat /\ p \in Int /\ offline.cohort \in Int
      /\ offline.missed \in [Claims -> SUBSET Changes]
      /\ offline.cohort <= rev
      /\ offline.cohort = rev => \A k \in Claims : "cascade" \notin offline.missed[k]
  BY <1>2, RowIsOne DEF ActInv, ActTypes, OfflineInv, OfflineRec
<1>4. a \in SnapRec /\ a.st = "active"
  BY AbsentRow, RowSt DEF States, Terminal
<1> HIDE DEF a
<1>5. b \in SnapRec /\ b.st = "active" /\ b.base = ptr
  BY <1>2, <1>3, <1>4 DEF SnapRec
<1> HIDE DEF b
<1>6. c \in SnapRec /\ c.st = "active" /\ c.base = ptr
  BY <1>3, <1>5 DEF SnapRec
<1> HIDE DEF c
<1>7. d \in SnapRec /\ d.st = "active" /\ d.base = ptr /\ d.cohort = offline.cohort
  BY <1>3, <1>6, RowCohort
<1> HIDE DEF d
<1>8. e \in SnapRec /\ e.st = "active" /\ e.base = ptr /\ e.cohort = offline.cohort
  BY <1>7, RowSealed
<1> HIDE DEF e
<1>9. RowsKept /\ ChainInv' /\ x \in Rows /\ ptr < x /\ ~Present(x)
  BY <1>1, <1>3, <1>8, NewRow DEF ActInv
<1>10. Moves(0) /\ SlotGoes /\ LapsesGrow
  BY <1>2, OthersMove DEF ActInv, LapsesGrow
<1>11. RunnersInv'
  BY <1>9, <1>10, RunnersKept DEF ActInv
<1>12. un(hs) \in [Claims -> SUBSET Changes] /\ \A k \in Claims : un(hs)[k] \subseteq offline.missed[k]
  BY <1>3
<1> HIDE DEF un
<1>13. heads' \in [Rows -> [Claims -> HeadStates]] /\ unseen' \in [Rows -> [Claims -> SUBSET Changes]]
  BY <1>1, <1>9, <1>12 DEF ActInv, ActTypes, HeadStates
<1>14. ActTypes'
  BY <1>1, <1>2, <1>9, <1>10, <1>13 DEF ActInv, ActTypes, RowsKept, RowsStay, Moves, SlotGoes
<1>15. \A y \in Rows : snap'[y] = IF y = x THEN e ELSE snap[y]
  BY <1>1, <1>9 DEF ActInv, ActTypes
<1>16. EffectiveInv'
  <2>1. \A q \in Runners : runner'[q].cand # x
    BY <1>2, <1>9, CandRow
  <2>2. snap'[x].st \notin Unsettled
    BY <1>8, <1>9, <1>15 DEF Unsettled
  <2> QED
    BY <1>1, <2>1, <2>2 DEF EffectiveInv
<1>17. CarryInv'
  <2>1. SUFFICES ASSUME Fresh' PROVE CohortInv' /\ Clean(ptr)'
    BY DEF CarryInv
  <2>2. CohortInv /\ rev = offline.cohort
    <3>1. Fresh
      BY <1>10, <2>1, GoodBefore
    <3>2. "passed" \notin lapses'
      BY <2>1 DEF Fresh
    <3> QED
      BY <1>2, <3>1, <3>2 DEF ActInv, CarryInv
  <2>3. \A j \in Claims : "cascade" \notin unseen'[ptr'][j]
    BY <1>1, <1>3, <1>9, <1>12, <2>2 DEF ActInv, ActTypes
  <2>4. ASSUME NEW y \in Rows
        PROVE  /\ snap'[y].cohort <= rev' /\ snap'[y].base # ptr'
               /\ y # 1 /\ snap'[y].cohort = -1 => \A j \in Claims : heads'[y][j] = "none"
    <3>1. CASE y = x
      <4>1. snap'[y].cohort = rev /\ snap'[y].base = ptr
        BY <1>8, <1>15, <2>2, <3>1
      <4>2. rev <= rev /\ rev # -1 /\ ptr # x
        BY <1>3, <1>9, RowIsOne
      <4> QED
        BY <1>1, <1>2, <4>1, <4>2
    <3>2. CASE y # x
      <4>1. snap'[y] = snap[y] /\ heads'[y] = heads[y]
        BY <1>1, <1>9, <1>15, <3>2 DEF ActInv, ActTypes
      <4>2. snap[y].base # x
        BY <1>9, RowIsOne DEF ActInv, ChainInv
      <4> QED
        BY <1>1, <1>2, <2>2, <4>1, <4>2 DEF CohortInv
    <3> QED
      BY <3>1, <3>2
  <2> QED
    BY <2>3, <2>4 DEF CohortInv, Clean
<1>18. OfflineInv'
  <2>1. 0 <= rev
    BY <1>3
  <2> QED
    BY <1>2, <2>1, NoOfflineRecord DEF OfflineInv
<1> QED
  BY <1>9, <1>11, <1>14, <1>16, <1>17, <1>18 DEF ActInv, RowsKept
-----------------------------------------------------------------------------
(* The invariant of the activation                                         *)

LEMMA InitHolds == ActInit => ActInv
<1> SUFFICES ASSUME ActInit PROVE ActInv
  OBVIOUS
<1> DEFINE a == [Absent EXCEPT !.st = "active"]
           b == [a EXCEPT !.payload = 0]
<1>1. Bootstrap = b
  BY DEF Bootstrap
<1>2. a \in SnapRec /\ a.st = "active" /\ a.base = 0 /\ a.cohort = -1
  BY AbsentRow, RowSt DEF States, Terminal
<1> HIDE DEF a
<1>3. b \in SnapRec /\ b.st = "active" /\ b.base = 0 /\ b.cohort = -1 /\ b.payload = 0
  BY <1>2 DEF SnapRec
<1> HIDE DEF b
<1>4. \A x \in Rows : snap[x] = IF x = 1 THEN b ELSE Absent
  BY <1>1 DEF ActInit
<1>5. snap \in [Rows -> SnapRec] /\ snap[1].st = "active" /\ \A x \in Rows : x # 1 => snap[x] = Absent
  BY <1>1, <1>3, AbsentRow, RowIsOne DEF ActInit
<1>6. \A r \in Runners : runner[r] = IdleRunner /\ view[r] = "none"
  BY DEF ActInit
<1>7. /\ slot = [cand |-> 0, fence |-> 0, live |-> FALSE] /\ ptr = 1 /\ rev = 0 /\ lapses = {}
      /\ offline = NoOffline
  BY DEF ActInit
<1>8. ActTypes
  <2>1. runner \in [Runners -> RunnerRec] /\ view \in [Runners -> Views]
    BY IdleRecord DEF ActInit, Views
  <2>2. heads \in [Rows -> [Claims -> HeadStates]] /\ unseen \in [Rows -> [Claims -> SUBSET Changes]]
    BY DEF ActInit, HeadStates
  <2>3. slot \in SlotRec /\ ptr \in Rows /\ rev \in Nat
    BY <1>7, RowIsOne DEF SlotRec
  <2> QED
    BY <1>5, <2>1, <2>2, <2>3 DEF ActTypes
<1>9. \A x \in Rows : snap[x].base = 0 /\ snap[x].cohort = -1 /\ x \in Nat /\ x # 0
  BY <1>3, <1>4, AbsentRow, RowIsOne
<1>10. ChainInv
  <2>1. ASSUME NEW x \in Rows PROVE snap[x].base < x /\ snap[x].base = 0
    BY <1>7, <1>9
  <2>2. ASSUME NEW x \in Rows PROVE Present(x) => snap[x].payload = 0
    BY <1>3, <1>4, AbsentRow DEF Present
  <2>3. ASSUME NEW x \in Rows, ~Present(x) PROVE snap[x] = Absent /\ \A y \in Rows : y > x => ~Present(y)
    <3>1. x # 1 /\ x \in Nat /\ x # 0
      BY <1>5, <1>9, <2>3 DEF Present
    <3>2. ASSUME NEW y \in Rows, y > x PROVE y # 1
      BY <1>9, <3>1, <3>2
    <3> QED
      BY <1>5, <3>1, <3>2, AbsentRow DEF Present
  <2> QED
    BY <1>5, <1>7, <2>1, <2>2, <2>3 DEF ChainInv, Present
<1>11. RunnersInv
  <2>1. RunnerInv
    BY <1>5, <1>6, <1>7, IdleRecord, NoHeadRecord DEF RunnerInv, Present, Repairing, Seeing, Working, Copying, Unfenced
  <2>2. Alone
    BY <1>6, IdleRecord DEF Alone
  <2>3. Behind
    BY <1>6, <1>7, IdleRecord DEF Behind
  <2>4. CohortKnown
    BY <1>6, IdleRecord DEF CohortKnown, Copying
  <2>5. SlotInv
    BY <1>7 DEF SlotInv
  <2> QED
    BY <2>1, <2>2, <2>3, <2>4, <2>5 DEF RunnersInv
<1>12. CarryInv
  <2>1. \A x \in Rows, k \in Claims : (x # 1 => heads[x][k] = "none") /\ unseen[x][k] = {}
    BY DEF ActInit
  <2>2. \A x \in Rows : Clean(x)
    BY <2>1 DEF Clean
  <2> QED
    BY <1>7, <1>9, <2>1, <2>2, RowIsOne DEF CarryInv, CohortInv
<1>13. EffectiveInv
  <2>1. \A r \in Runners : ~Works(r)
    BY <1>6, IdleRecord DEF Works, Working, Copying
  <2> QED
    BY <1>5, <1>7, <2>1 DEF EffectiveInv, Unsettled
<1>14. OfflineInv
  BY <1>7, NoOfflineRecord DEF OfflineInv
<1> QED
  BY <1>8, <1>10, <1>11, <1>12, <1>13, <1>14 DEF ActInv

LEMMA StepHolds == ActInv /\ [ActNext]_actVars => ActInv' /\ RowsStay
<1> SUFFICES ASSUME ActInv, [ActNext]_actVars PROVE ActInv' /\ RowsStay
  OBVIOUS
<1>1. CASE UNCHANGED actVars
  <2>1. UNCHANGED <<snap, heads, unseen, ptr, lapses, slot, rev, offline, runner, view>>
    BY <1>1 DEF actVars, rowVars, otherVars
  <2>2. Moves(0) /\ SlotGoes
    BY <2>1, OthersMove DEF ActInv
  <2> QED
    BY <2>1, <2>2, RevType, QuietStep, SnapSame DEF ActInv, LapsesGrow
<1>2. CASE Others
  <2>1. ASSUME NEW x \in Rows, BackoffOver(x) PROVE ActInv' /\ RowsStay
    BY <2>1, BackoffKeeps
  <2>2. CASE OfflineRulesCommand
    BY <2>2, OfflineWaits, PublishOfflineKeeps DEF OfflineRulesCommand
  <2> QED
    BY <1>2, <2>1, <2>2, LeaseKeeps, OthersKeep, EndBatchKeeps, CascadeKeeps, SourceKeeps DEF Others
<1>3. ASSUME NEW r \in Runners, Run(r) PROVE ActInv' /\ RowsStay
  <2>1. ASSUME NEW p \in 1 .. Releases, Upsert(r, p) PROVE ActInv' /\ RowsStay
    BY <2>1, UpsertKeeps
  <2>2. ASSUME NEW permanent \in BOOLEAN, RepairError(r, permanent) PROVE ActInv' /\ RowsStay
    BY <2>2, RepairErrorKeeps
  <2>3. CASE Inspect(r) \/ PublishDrain(r) \/ WaitDrain(r) \/ CancelDrain(r) \/ TakeGate(r) \/ ConfirmDrain(r) \/ Resume(r)
    BY <2>3, InspectKeeps, PublishDrainKeeps, WaitDrainKeeps, CancelDrainKeeps, TakeGateKeeps, ConfirmDrainKeeps, ResumeKeeps
  <2>4. CASE Freeze(r) \/ PrepareHead(r) \/ Seal(r) \/ Refresh(r) \/ Announce(r) \/ Flip(r) \/ OpenManifest(r)
    BY <2>4, FreezeKeeps, PrepareHeadKeeps, SealKeeps, RefreshKeeps, AnnounceKeeps, FlipKeeps, OpenManifestKeeps
  <2>5. CASE PostPublish(r) \/ PostPublishError(r) \/ ExamineFailure(r) \/ CleanUp(r) \/ BeginRepair(r) \/ Repair(r)
             \/ CrashRunner(r) \/ ExpireSeenLease(r)
    BY <2>5, PostPublishKeeps, PostPublishErrorKeeps, ExamineFailureKeeps, CleanUpKeeps, BeginRepairKeeps, RepairKeeps,
       CrashRunnerKeeps, SeenLeaseKeeps
  <2> QED
    BY <1>3, <2>1, <2>2, <2>3, <2>4, <2>5 DEF Run
<1> QED
  BY <1>1, <1>2, <1>3 DEF ActNext

(* The parts of the argument hold together: every step of a runner, of the *)
(* other writers and of the offline change (activation.py,                 *)
(* offline_rules.py) keeps all of them.                                    *)
THEOREM ActivationInvariant == ActSpec => []ActInv
BY InitHolds, StepHolds, PTL DEF ActSpec

(* What the preparation carried over is still valid when the pointer moves *)
(* (freeze_cohort_online, verify_and_seal_online, publish_online), unless  *)
(* one of the lapses made the comparison of the revisions void.            *)
THEOREM CarriedHeadsAreFresh == ActSpec => []NoStaleCarry
<1>1. ActInv => NoStaleCarry
  BY DEF ActInv, CarryInv, Fresh, NoStaleCarry, Clean
<1> QED
  BY <1>1, ActivationInvariant, PTL

-----------------------------------------------------------------------------
(* A runner that is fenced out                                             *)

\* what has gone wrong is not forgotten
LEMMA LapsesStay == ASSUME [ActNext]_actVars PROVE LapsesGrow
<1>1. CASE UNCHANGED actVars
  BY <1>1 DEF actVars, LapsesGrow
<1>2. CASE Others
  BY <1>2 DEF Others, ExpireActivationLease, ExpireGate, BackoffOver, BeginSession, StartSession, EndSession, BeginBatch,
     EndBatch, CascadeInvalidates, SourceInvalidates, OfflineRulesCommand, PrepareOffline, CheckOffline, PublishOffline,
     AbandonOffline, LapsesGrow
<1>3. ASSUME NEW r \in Runners, Run(r) PROVE LapsesGrow
  <2>1. CASE Inspect(r) \/ PublishDrain(r) \/ WaitDrain(r) \/ CancelDrain(r) \/ TakeGate(r) \/ ConfirmDrain(r) \/ Resume(r)
    BY <2>1 DEF Inspect, PublishDrain, WaitDrain, CancelDrain, TakeGate, ConfirmDrain, Resume, SameSlot, WriteSlot, LapsesGrow
  <2>2. CASE Freeze(r) \/ PrepareHead(r) \/ Seal(r) \/ Refresh(r) \/ Announce(r) \/ Flip(r) \/ OpenManifest(r)
    BY <2>2 DEF Freeze, PrepareHead, Seal, Refresh, Announce, Flip, OpenManifest, LapsesGrow
  <2>3. CASE PostPublish(r) \/ PostPublishError(r) \/ ExamineFailure(r) \/ CleanUp(r) \/ BeginRepair(r) \/ Repair(r)
             \/ CrashRunner(r) \/ ExpireSeenLease(r)
    BY <2>3 DEF PostPublish, PostPublishError, ExamineFailure, CleanUp, BeginRepair, Repair, CrashRunner, ExpireSeenLease,
                SameSlot, WriteSlot, LapsesGrow
  <2>4. ASSUME NEW p, Upsert(r, p) PROVE LapsesGrow
    BY <2>4 DEF Upsert, LapsesGrow
  <2>5. ASSUME NEW permanent, RepairError(r, permanent) PROVE LapsesGrow
    BY <2>5 DEF RepairError, LapsesGrow
  <2> QED
    BY <1>3, <2>1, <2>2, <2>3, <2>4, <2>5 DEF Run
<1> QED
  BY <1>1, <1>2, <1>3 DEF ActNext

\* a step of one runner moves no other
LEMMA RunMovesOne ==
  ASSUME ActTypes, NEW r \in Runners, Run(r), NEW q \in Runners, q # r PROVE runner'[q] = runner[q]
<1>1. runner \in [Runners -> RunnerRec]
  BY DEF ActTypes
<1>2. ASSUME NEW p, Upsert(r, p) PROVE runner'[q] = runner[q]
  BY <1>1, <1>2 DEF Upsert
<1>3. ASSUME NEW permanent, RepairError(r, permanent) PROVE runner'[q] = runner[q]
  BY <1>1, <1>3 DEF RepairError, Stop, Idle
<1>4. CASE Inspect(r) \/ PublishDrain(r) \/ WaitDrain(r) \/ CancelDrain(r) \/ TakeGate(r) \/ ConfirmDrain(r) \/ Resume(r)
  BY <1>1, <1>4 DEF Inspect, PublishDrain, WaitDrain, CancelDrain, TakeGate, ConfirmDrain, Resume, Stop, Idle, Goto, Drop
<1>5. CASE Freeze(r) \/ PrepareHead(r) \/ Seal(r) \/ Refresh(r) \/ Announce(r) \/ Flip(r) \/ OpenManifest(r)
  BY <1>1, <1>5 DEF Freeze, PrepareHead, Seal, Refresh, Announce, Flip, OpenManifest, Stop, Idle, Goto, Drop, Fail
<1>6. CASE PostPublish(r) \/ PostPublishError(r) \/ ExamineFailure(r) \/ CleanUp(r) \/ BeginRepair(r) \/ Repair(r)
           \/ CrashRunner(r) \/ ExpireSeenLease(r)
  BY <1>1, <1>6 DEF PostPublish, PostPublishError, ExamineFailure, CleanUp, BeginRepair, Repair, CrashRunner, ExpireSeenLease,
                    Stop, Idle, Goto, Drop, Fail
<1> QED
  BY <1>2, <1>3, <1>4, <1>5, <1>6 DEF Run, ActTypes

FencedOut(r) == runner[r].fence # 0 /\ slot.cand = runner[r].cand /\ runner[r].fence < slot.fence

LEMMA FencedOutStep ==
  ASSUME ActInv, LapsesGrow, Good', NEW r \in Runners, FencedOut(r), Run(r)
  PROVE  UNCHANGED <<snap, heads, asked, ptr>>
<1>1. runner[r].fence \in Nat /\ slot.fence \in Nat /\ runner[r].fence # slot.fence /\ runner[r].fence # 0
  BY DEF ActInv, ActTypes, RunnerRec, SlotRec, FencedOut
<1>2. ~TupleOk(r) /\ ~Owns(r)
  <2>1. ~Owns(r)
    BY <1>1 DEF Owns
  <2> QED
    BY <1>1, <2>1, GoodBefore, Sure DEF ActInv
<1>3. runner[r].pc \notin Unfenced
  BY <1>1 DEF ActInv, RunnersInv, RunnerInv
<1>4. slot.cand # 0
  BY CandRow, RowIsOne DEF FencedOut
<1>5. CASE WaitDrain(r) \/ CancelDrain(r) \/ TakeGate(r) \/ ConfirmDrain(r) \/ Resume(r) \/ Refresh(r) \/ OpenManifest(r)
           \/ ExamineFailure(r) \/ CrashRunner(r) \/ ExpireSeenLease(r)
  BY <1>2, <1>5 DEF WaitDrain, CancelDrain, TakeGate, ConfirmDrain, Resume, Refresh, OpenManifest, ExamineFailure,
                    CrashRunner, ExpireSeenLease, rowVars
<1>6. CASE Freeze(r) \/ PrepareHead(r) \/ Seal(r) \/ Announce(r) \/ Flip(r)
  BY <1>2, <1>6 DEF Freeze, PrepareHead, Seal, Announce, Flip, FlipAllowed
<1>7. CASE PostPublish(r) \/ PostPublishError(r)
  BY <1>2, <1>7 DEF PostPublish, PostPublishError
<1>8. CASE CleanUp(r)
  <2>1. CASE Known(r).cand = 0
    <3>1. WriteSlot(r, slot, "none")
      BY <1>8, <2>1 DEF CleanUp
    <3>2. ~Outdated(r)
      BY <3>1 DEF WriteSlot, Good
    <3>3. slot.cand = 0
      BY <2>1, <3>2, RowHeadRecord DEF Outdated, Known, ActInv, RunnersInv, RunnerInv
    <3> QED
      BY <1>4, <3>3
  <2>2. CASE Known(r).cand # 0
    BY <1>2, <1>8, <2>2 DEF CleanUp
  <2> QED
    BY <2>1, <2>2
<1>9. CASE Inspect(r) \/ PublishDrain(r) \/ BeginRepair(r) \/ Repair(r)
  BY <1>3, <1>9 DEF Inspect, PublishDrain, BeginRepair, Repair, Unfenced
<1>10. ASSUME NEW p, Upsert(r, p) PROVE FALSE
  BY <1>3, <1>10 DEF Upsert, Unfenced
<1>11. ASSUME NEW permanent, RepairError(r, permanent) PROVE FALSE
  BY <1>3, <1>11 DEF RepairError, Unfenced
<1> QED
  BY <1>5, <1>6, <1>7, <1>8, <1>9, <1>10, <1>11 DEF Run

(* A runner that a takeover has fenced out writes nothing while the new    *)
(* owner holds the slot, although it compares its own copy of the head     *)
(* (_check_tuple and every later tuple check), as long as no run shares a  *)
(* fence or writes the slot from a copy that is out of date.               *)
THEOREM TakeoverStopsTheOldRunner == ActSpec => FencedOutWritesNothing
<1> DEFINE Silent == lapses' \cap {"joined", "blind"} = {}
              => \A r \in Runners :
                    /\ runner'[r] # runner[r] /\ runner[r].fence # 0
                    /\ slot.cand = runner[r].cand /\ runner[r].fence < slot.fence
                    => UNCHANGED <<heads, asked, ptr>> /\ snap'[slot.cand] = snap[slot.cand]
<1>1. ASSUME ActInv, [ActNext]_actVars PROVE Silent
  <2>1. SUFFICES ASSUME Good', NEW r \in Runners, runner'[r] # runner[r], FencedOut(r)
                 PROVE  UNCHANGED <<heads, asked, ptr>> /\ snap'[slot.cand] = snap[slot.cand]
    BY DEF FencedOut, Good
  <2>2. ~(UNCHANGED actVars) /\ ~Others
    <3>1. UNCHANGED actVars => runner' = runner
      BY DEF actVars
    <3>2. Others => runner' = runner
      BY DEF Others, ExpireActivationLease, ExpireGate, BackoffOver, BeginSession, StartSession, EndSession, BeginBatch,
             EndBatch, CascadeInvalidates, SourceInvalidates, OfflineRulesCommand, PrepareOffline, CheckOffline,
             PublishOffline, AbandonOffline, offVars
    <3> QED
      BY <2>1, <3>1, <3>2
  <2>3. PICK q \in Runners : Run(q)
    BY <1>1, <2>2 DEF ActNext
  <2>4. q = r
    BY <1>1, <2>1, <2>3, RunMovesOne DEF ActInv
  <2> QED
    BY <1>1, <2>1, <2>3, <2>4, FencedOutStep, LapsesStay
<1>2. ActInv /\ [ActNext]_actVars => [Silent]_actVars
  BY <1>1
<1> QED
  BY <1>2, ActivationInvariant, PTL DEF ActSpec, FencedOutWritesNothing

-----------------------------------------------------------------------------
(* How many configurations have been effective before a row                *)

LEMMA LeastNatural == ASSUME NEW T \in SUBSET Nat, T # {} PROVE \E x \in T : \A y \in T : x <= y
<1>1. PICK x \in T : \A y \in T : ~(<<y, x>> \in OpToRel(<, Nat))
  BY NatLessThanWellFounded, WFMin
<1>2. \A y \in T : <<y, x>> \in OpToRel(<, Nat) <=> y < x
  BY DEF OpToRel
<1>3. \A y \in T : ~(y < x)
  BY <1>1, <1>2
<1>4. \A y \in T : x \in Int /\ y \in Int
  OBVIOUS
<1> QED
  BY <1>3, <1>4

\* what one entry of the recursive definition is, given the others
DepthAt(s, f, x) == IF x = 0 \/ s[x].base = 0 THEN 0 ELSE 1 + f[s[x].base]

DepthUpTo(s, n, f) == f = [x \in 0 .. n |-> DepthAt(s, f, x)]

DepthOf(s) == CHOOSE f : f = [x \in Bases |-> DepthAt(s, f, x)]

\* every base is an older row
Founded(s) == \A x \in Rows : s[x].base \in Nat /\ s[x].base < x

LEMMA DepthExists == ASSUME NEW s, Founded(s) PROVE \A n \in Nat : n <= MaxRows => \E f : DepthUpTo(s, n, f)
<1> DEFINE Bad == {n \in Nat : n <= MaxRows /\ ~ \E f : DepthUpTo(s, n, f)}
<1>1. SUFFICES ASSUME Bad # {} PROVE FALSE
  OBVIOUS
<1>2. PICK n \in Bad : \A m \in Bad : n <= m
  <2>1. Bad \in SUBSET Nat
    OBVIOUS
  <2> HIDE DEF Bad
  <2> QED
    BY <1>1, <2>1, LeastNatural
<1>3. n \in Nat /\ n <= MaxRows /\ MaxRows \in Nat
  BY ActivationAssumption
<1>4. CASE n = 0
  <2>1. DepthUpTo(s, 0, [x \in 0 .. 0 |-> 0])
    BY DEF DepthUpTo, DepthAt
  <2> QED
    BY <1>2, <1>4, <2>1
<1>5. CASE n # 0
  <2>1. n - 1 \in Nat /\ n - 1 <= MaxRows /\ n - 1 \notin Bad
    BY <1>2, <1>3, <1>5
  <2>2. PICK f : DepthUpTo(s, n - 1, f)
    BY <2>1
  <2> DEFINE g == [x \in 0 .. n |-> IF x = n THEN DepthAt(s, f, n) ELSE f[x]]
  <2>3. \A x \in 0 .. n - 1 : f[x] = DepthAt(s, f, x)
    BY <2>2 DEF DepthUpTo
  <2>4. \A x \in 0 .. n - 1 : g[x] = f[x]
    BY <1>3
  <2>5. ASSUME NEW x \in 0 .. n PROVE DepthAt(s, f, x) = DepthAt(s, g, x)
    <3>1. CASE x = 0
      BY <3>1 DEF DepthAt
    <3>2. CASE x # 0
      <4>1. x \in Rows
        BY <1>3, <3>2 DEF Rows
      <4>2. s[x].base \in 0 .. n - 1
        BY <1>3, <4>1 DEF Founded
      <4>3. f[s[x].base] = g[s[x].base]
        BY <2>4, <4>2
      <4> HIDE DEF g
      <4> QED
        BY <4>3 DEF DepthAt
    <3> QED
      BY <3>1, <3>2
  <2>6. ASSUME NEW x \in 0 .. n PROVE g[x] = DepthAt(s, f, x)
    <3>1. CASE x = n
      BY <3>1
    <3>2. CASE x # n
      <4>1. x \in 0 .. n - 1
        BY <1>3, <3>2
      <4> QED
        BY <2>3, <2>4, <4>1
    <3> QED
      BY <3>1, <3>2
  <2>7. g = [x \in 0 .. n |-> DepthAt(s, g, x)]
    <3>1. \A x \in 0 .. n : g[x] = DepthAt(s, g, x)
      BY <2>5, <2>6
    <3>2. g = [x \in 0 .. n |-> g[x]]
      OBVIOUS
    <3> HIDE DEF g
    <3> QED
      BY <3>1, <3>2
  <2>8. DepthUpTo(s, n, g)
    BY <2>7 DEF DepthUpTo
  <2> QED
    BY <1>2, <2>8
<1> QED
  BY <1>4, <1>5

LEMMA DepthSolves == ASSUME NEW s, Founded(s) PROVE \A x \in Bases : DepthOf(s)[x] = DepthAt(s, DepthOf(s), x)
<1> DEFINE P(f) == f = [x \in Bases |-> DepthAt(s, f, x)]
<1>1. \E f : P(f)
  <2>1. MaxRows \in Nat /\ MaxRows <= MaxRows
    BY ActivationAssumption
  <2>2. PICK f : DepthUpTo(s, MaxRows, f)
    BY <2>1, DepthExists
  <2> QED
    BY <2>2 DEF DepthUpTo, Bases
<1>2. DepthOf(s) = CHOOSE f : P(f)
  BY DEF DepthOf
<1> HIDE DEF P
<1>3. P(DepthOf(s))
  BY <1>1, <1>2
<1> USE DEF P
<1> QED
  BY <1>3

\* A step that keeps the rows keeps their depths.
LEMMA DepthKept ==
  ASSUME NEW s, NEW t, Founded(s), Founded(t), NEW Old \in SUBSET Rows,
         \A x \in Old : t[x].base = s[x].base /\ (s[x].base # 0 => s[x].base \in Old)
  PROVE  \A x \in Old : DepthOf(t)[x] = DepthOf(s)[x]
<1> DEFINE Bad == {x \in Old : DepthOf(t)[x] # DepthOf(s)[x]}
<1>1. SUFFICES ASSUME Bad # {} PROVE FALSE
  OBVIOUS
<1>2. PICK x \in Bad : \A y \in Bad : x <= y
  <2>1. Bad \in SUBSET Nat
    BY RowIsOne
  <2> HIDE DEF Bad
  <2> QED
    BY <1>1, <2>1, LeastNatural
<1>3. x \in Old /\ x \in Rows /\ x \in Bases /\ x \in Nat /\ x # 0 /\ DepthOf(t)[x] # DepthOf(s)[x]
  BY <1>2, RowIsOne
<1>4. t[x].base = s[x].base /\ s[x].base \in Nat /\ s[x].base < x
  BY <1>3 DEF Founded
<1>5. s[x].base # 0 => DepthOf(t)[s[x].base] = DepthOf(s)[s[x].base]
  <2>1. ~(x <= s[x].base)
    BY <1>3, <1>4
  <2> QED
    BY <1>2, <1>3, <2>1
<1>6. DepthAt(t, DepthOf(t), x) = DepthAt(s, DepthOf(s), x)
  BY <1>4, <1>5 DEF DepthAt
<1> QED
  BY <1>3, <1>6, DepthSolves

LEMMA DepthNatural == ASSUME NEW s, Founded(s) PROVE \A x \in Bases : DepthOf(s)[x] \in Nat
<1> DEFINE Bad == {x \in Bases : DepthOf(s)[x] \notin Nat}
<1>1. SUFFICES ASSUME Bad # {} PROVE FALSE
  OBVIOUS
<1>2. PICK x \in Bad : \A y \in Bad : x <= y
  <2>1. Bad \in SUBSET Nat
    BY ActivationAssumption DEF Bases
  <2> HIDE DEF Bad
  <2> QED
    BY <1>1, <2>1, LeastNatural
<1>3. x \in Bases /\ x \in Nat /\ DepthOf(s)[x] = DepthAt(s, DepthOf(s), x)
  BY <1>2, ActivationAssumption, DepthSolves DEF Bases
<1>4. x # 0 /\ s[x].base # 0 /\ DepthOf(s)[x] = 1 + DepthOf(s)[s[x].base]
  BY <1>2, <1>3 DEF DepthAt
<1>5. s[x].base \in Nat /\ s[x].base < x /\ s[x].base \in Bases
  BY <1>3, <1>4, ActivationAssumption DEF Founded, Rows, Bases
<1>6. s[x].base \notin Bad
  BY <1>2, <1>3, <1>5
<1> QED
  BY <1>2, <1>4, <1>5, <1>6

LEMMA DepthIs == Depth = DepthOf(snap) /\ Depth' = DepthOf(snap')
BY DEF Depth, DepthOf, DepthAt

LEMMA ChainFounded == ASSUME ActTypes, ChainInv, ActTypes', ChainInv' PROVE Founded(snap) /\ Founded(snap')
<1>1. \A x \in Rows : snap[x].base \in Bases /\ snap[x].base < x
  BY DEF ActTypes, SnapRec, ChainInv
<1>2. \A x \in Rows : snap'[x].base \in Bases /\ snap'[x].base < x
  BY DEF ActTypes, SnapRec, ChainInv
<1> QED
  BY <1>1, <1>2, ActivationAssumption DEF Founded, Bases

\* the effective configuration is replaced by one that is based on it
SwitchTo(x) == ptr' = x /\ x \in Rows /\ snap'[x].base = ptr

LEMMA DepthSteps ==
  ASSUME ActInv, ActInv', RowsStay
  PROVE  /\ ptr' = ptr => Depth'[ptr'] = Depth[ptr]
         /\ \A x \in Rows : SwitchTo(x) => Depth'[ptr'] = Depth[ptr] + 1
         /\ Depth'[ptr'] \in Nat
<1> DEFINE Old == {x \in Rows : Present(x)}
<1>1. Founded(snap) /\ Founded(snap')
  BY ChainFounded DEF ActInv
<1>2. \A x \in Old : snap'[x].base = snap[x].base /\ (snap[x].base # 0 => snap[x].base \in Old)
  <2>1. ASSUME NEW x \in Rows PROVE snap[x].base # 0 => snap[x].base \in Rows
    <3>1. snap[x].base \in Bases
      BY DEF ActInv, ActTypes, SnapRec
    <3> QED
      BY <3>1, ActivationAssumption DEF Bases, Rows
  <2> QED
    BY <2>1 DEF RowsStay, ActInv, ChainInv
<1>3. ptr \in Old /\ ptr \in Bases /\ ptr # 0 /\ ptr' \in Bases
  <2>1. ptr \in Rows /\ Present(ptr) /\ ptr' \in Rows
    BY DEF ActInv, ActTypes, ChainInv
  <2> QED
    BY <2>1, RowIsOne
<1>4. DepthOf(snap')[ptr] = DepthOf(snap)[ptr]
  <2>1. Old \in SUBSET Rows
    OBVIOUS
  <2> HIDE DEF Old
  <2> QED
    BY <1>1, <1>2, <1>3, <2>1, DepthKept
<1>5. Depth = DepthOf(snap) /\ Depth' = DepthOf(snap')
  BY DepthIs
<1>6. ASSUME NEW x \in Rows, SwitchTo(x) PROVE Depth'[ptr'] = Depth[ptr] + 1
  <2>1. x \in Bases /\ x # 0 /\ snap'[x].base = ptr
    BY <1>6, RowIsOne DEF SwitchTo
  <2>2. DepthOf(snap')[x] = 1 + DepthOf(snap')[ptr]
    BY <1>1, <1>3, <2>1, DepthSolves DEF DepthAt
  <2>3. DepthOf(snap')[ptr] \in Nat
    BY <1>1, <1>3, DepthNatural
  <2>4. DepthOf(snap')[x] = DepthOf(snap')[ptr] + 1
    BY <2>2, <2>3
  <2> QED
    BY <1>4, <1>5, <1>6, <2>4 DEF SwitchTo
<1>7. Depth'[ptr'] \in Nat
  BY <1>1, <1>3, <1>5, DepthNatural
<1> QED
  BY <1>4, <1>5, <1>6, <1>7

Admitted == live # None
Orderly == lapses \cap {"reverted", "uncounted"} = {}

\* What a step does to the effective configuration, to the session and to the order of the changes
SameSwitch == ptr' = ptr /\ Orderly' = Orderly
Switches == ~Admitted /\ live' = live /\ Orderly' = Orderly /\ \E x \in Rows : SwitchTo(x)
Disorders == ~Orderly' /\ live' = live

LEMMA FlipSwitches ==
  ASSUME ActInv, NEW r \in Runners, Flip(r) PROVE live' = live /\ (SameSwitch \/ Switches \/ Disorders)
<1>1. CASE ~FlipAllowed(r)
  BY <1>1 DEF Flip, SameSwitch, Orderly
<1>2. CASE FlipAllowed(r)
  <2> DEFINE x == runner[r].cand
  <2>1. /\ runner[r].pc = "flip" /\ ptr' = x /\ live' = live /\ ~Admitted
        /\ Known(r).ptr = runner[r].seen.base
        /\ lapses' = lapses \cup (IF Known(r).ptr # ptr THEN {"reverted"} ELSE {})
    BY <1>2 DEF Flip, FlipAllowed, Quiesced, Admitted
  <2>2. x \in Rows /\ Present(x) /\ snap[x].base = Known(r).ptr
    BY <2>1, CandRow DEF ActInv, RunnersInv, RunnerInv
  <2>3. snap'[x].base = snap[x].base
    BY <2>2, FlipKeeps DEF RowsStay
  <2>4. CASE Known(r).ptr = ptr
    BY <2>1, <2>2, <2>3, <2>4 DEF Switches, SwitchTo, Orderly
  <2>5. CASE Known(r).ptr # ptr
    BY <2>1, <2>5 DEF Disorders, Orderly
  <2> QED
    BY <2>1, <2>4, <2>5
<1> QED
  BY <1>1, <1>2

LEMMA OfflineSwitches ==
  ASSUME ActInv, NEW p, PublishOffline(p) PROVE live' = live /\ (Switches \/ Disorders)
<1> DEFINE row == SealedOffline(p)
<1>1. PICK x \in NextRow : snap' = [snap EXCEPT ![x] = row] /\ ptr' = x
  BY DEF PublishOffline
<1>2. /\ live' = live /\ ptr = offline.base
      /\ lapses' = lapses \cup (IF rev # offline.cohort THEN {"passed"} ELSE {})
                          \cup (IF live # None THEN {"uncounted"} ELSE {})
  BY DEF PublishOffline, offVars
<1>3. x \in Rows /\ snap'[x] = row
  BY <1>1 DEF NextRow, ActInv, ActTypes
<1>4. row.base = ptr
  BY <1>2 DEF SealedOffline, Absent
<1>5. SwitchTo(x)
  BY <1>1, <1>3, <1>4 DEF SwitchTo
<1>6. CASE live # None
  BY <1>2, <1>6 DEF Disorders, Orderly
<1>7. CASE live = None
  <2>1. Orderly' = Orderly
    BY <1>2, <1>7 DEF Orderly
  <2> QED
    BY <1>2, <1>3, <1>5, <1>7, <2>1 DEF Switches, Admitted
<1> QED
  BY <1>2, <1>6, <1>7

LEMMA SwitchStep ==
  ASSUME ActInv, [ActNext]_actVars
  PROVE  \/ SameSwitch /\ Admitted' \in BOOLEAN
         \/ Switches
         \/ Disorders
<1>1. Admitted' \in BOOLEAN
  BY DEF Admitted
<1>2. CASE UNCHANGED actVars
  BY <1>1, <1>2 DEF actVars, rowVars, SameSwitch, Orderly
<1>3. CASE Others
  <2>1. ASSUME NEW p, PublishOffline(p) PROVE Switches \/ Disorders
    BY <2>1, OfflineSwitches
  <2>2. CASE OfflineRulesCommand
    BY <1>1, <2>1, <2>2 DEF OfflineRulesCommand, PrepareOffline, CheckOffline, AbandonOffline, rowVars, SameSwitch, Orderly
  <2>3. CASE ExpireActivationLease \/ ExpireGate \/ (\E x \in Rows : BackoffOver(x)) \/ BeginBatch \/ EndBatch
             \/ CascadeInvalidates \/ SourceInvalidates \/ BeginSession \/ StartSession \/ EndSession
    BY <1>1, <2>3 DEF ExpireActivationLease, ExpireGate, BackoffOver, BeginBatch, EndBatch, CascadeInvalidates,
                SourceInvalidates, BeginSession, StartSession, EndSession, rowVars, SameSwitch, Orderly
  <2> QED
    BY <1>3, <2>2, <2>3 DEF Others
<1>4. ASSUME NEW r \in Runners, Run(r) PROVE SameSwitch \/ Switches \/ Disorders
  <2>1. CASE Flip(r)
    BY <2>1, FlipSwitches
  <2>2. CASE Inspect(r) \/ PublishDrain(r) \/ WaitDrain(r) \/ CancelDrain(r) \/ TakeGate(r) \/ ConfirmDrain(r) \/ Resume(r)
    BY <2>2 DEF Inspect, PublishDrain, WaitDrain, CancelDrain, TakeGate, ConfirmDrain, Resume, SameSlot, WriteSlot, rowVars,
                SameSwitch, Orderly
  <2>3. CASE Freeze(r) \/ PrepareHead(r) \/ Seal(r) \/ Refresh(r) \/ Announce(r) \/ OpenManifest(r)
    BY <2>3 DEF Freeze, PrepareHead, Seal, Refresh, Announce, OpenManifest, rowVars, SameSwitch, Orderly
  <2>4. CASE PostPublish(r) \/ PostPublishError(r) \/ ExamineFailure(r) \/ CleanUp(r) \/ BeginRepair(r) \/ Repair(r)
             \/ CrashRunner(r) \/ ExpireSeenLease(r)
    BY <2>4 DEF PostPublish, PostPublishError, ExamineFailure, CleanUp, BeginRepair, Repair, CrashRunner, ExpireSeenLease,
                SameSlot, WriteSlot, rowVars, SameSwitch, Orderly
  <2>5. ASSUME NEW p, Upsert(r, p) PROVE SameSwitch
    BY <2>5 DEF Upsert, SameSwitch, Orderly
  <2>6. ASSUME NEW permanent, RepairError(r, permanent) PROVE SameSwitch
    BY <2>6 DEF RepairError, SameSwitch, Orderly
  <2> QED
    BY <1>4, <2>1, <2>2, <2>3, <2>4, <2>5, <2>6 DEF Run
<1> QED
  BY <1>1, <1>2, <1>3, <1>4 DEF ActNext

LEMMA SwitchInit == ActInit => Switching!Init
<1> SUFFICES ASSUME ActInit PROVE Depth[ptr] = 0 /\ (live # None) = FALSE /\ Orderly = TRUE
  BY DEF Switching!Init, Orderly
<1>1. ActInv /\ ptr = 1 /\ live = None /\ lapses = {} /\ snap[1].base = 0 /\ 1 \in Bases
  <2>1. snap[1] = Bootstrap
    BY RowIsOne DEF ActInit
  <2> QED
    BY <2>1, InitHolds, RowIsOne DEF ActInit, Bootstrap, Absent
<1>2. Founded(snap)
  <2>1. \A x \in Rows : snap[x].base \in Bases /\ snap[x].base < x
    BY <1>1 DEF ActInv, ActTypes, SnapRec, ChainInv
  <2> QED
    BY <2>1, ActivationAssumption DEF Founded, Bases
<1>3. DepthOf(snap)[1] = 0
  BY <1>1, <1>2, DepthSolves DEF DepthAt
<1> QED
  BY <1>1, <1>3, DepthIs DEF Orderly

LEMMA SwitchNext ==
  ActInv /\ ActInv' /\ [ActNext]_actVars => [Switching!Next]_<<Depth[ptr], Admitted, Orderly>>
<1> SUFFICES ASSUME ActInv, ActInv', [ActNext]_actVars PROVE [Switching!Next]_<<Depth[ptr], Admitted, Orderly>>
  OBVIOUS
<1>1. RowsStay
  BY StepHolds
<1>2. Admitted \in BOOLEAN /\ Admitted' \in BOOLEAN /\ Orderly' \in BOOLEAN /\ (live' = live => Admitted' = Admitted)
  BY DEF Admitted, Orderly
<1>3. CASE SameSwitch
  <2>1. Depth'[ptr'] = Depth[ptr] /\ Orderly' = Orderly
    BY <1>1, <1>3, DepthSteps DEF SameSwitch
  <2>2. Admitted' = Admitted \/ (~Admitted /\ Admitted' = TRUE) \/ (Admitted /\ Admitted' = FALSE)
    BY <1>2
  <2> QED
    BY <2>1, <2>2 DEF Switching!Next, Switching!BeginSession, Switching!EndSession, Admitted, Orderly
<1>4. CASE Switches
  <2>1. Depth'[ptr'] = Depth[ptr] + 1
    BY <1>1, <1>4, DepthSteps DEF Switches
  <2>2. ~Admitted /\ Admitted' = Admitted /\ Orderly' = Orderly
    BY <1>2, <1>4 DEF Switches
  <2> QED
    BY <2>1, <2>2 DEF Switching!Next, Switching!Switch, Admitted, Orderly
<1>5. CASE Disorders
  <2>1. Orderly' = FALSE /\ Admitted' = Admitted /\ Depth'[ptr'] \in Nat
    BY <1>1, <1>2, <1>5, DepthSteps DEF Disorders
  <2> QED
    BY <2>1 DEF Switching!Next, Switching!Disorder, Admitted, Orderly
<1> QED
  BY <1>3, <1>4, <1>5, SwitchStep

(* The flip happens between sessions and the configurations form a chain,  *)
(* whatever crashes, takeovers, repeated runs and offline changes happen:  *)
(* publish_online and atomic_publish implement ConfigSwitch, which allows  *)
(* the two changes that break this (Disorder): the flip from a pointer     *)
(* that the runner does not know, and the offline change beside a session  *)
(* that its preconditions do not count.                                    *)
THEOREM ActivationImplementsSwitch == ActSpec => RefinesSwitch
<1>1. ActSpec => Switching!Init /\ [][Switching!Next]_<<Depth[ptr], Admitted, Orderly>>
  BY SwitchInit, SwitchNext, ActivationInvariant, PTL DEF ActSpec
<1> QED
  BY <1>1 DEF RefinesSwitch, Switching!Spec, Admitted, Orderly
=============================================================================
