----------------------------- MODULE Activation -----------------------------
(***************************************************************************)
(* The online change of the configuration (packages/memory/activation.py): *)
(* drain, quiesce, confirm, freeze, prepare, seal, publish, flip,          *)
(* post-publish, cleanup; resumption after a crash, takeover of an expired *)
(* lease, and the repair runner.                                           *)
(*                                                                         *)
(* Every process runs under the same owner (ACTOR), so only the fence and  *)
(* the lease tell runners apart: a second run of the command for the same  *)
(* candidate joins the first one.  A runner works on its own loaded copies *)
(* of the candidate row (seen), which is refreshed where the code does it, *)
(* and of the runtime head (head), which is not: the objects outlive the   *)
(* commits, locking the row again does not reload them, and only an error  *)
(* inside a transaction expires them.  So every check of the tuple and of  *)
(* the pointer reads what the run knew at its start and what it wrote      *)
(* itself; what it assigns is written where it differs from that copy.     *)
(*                                                                         *)
(* Every run asks for leases of the same length, so one that was written   *)
(* earlier ends no later.                                                  *)
(*                                                                         *)
(* Sessions, the reassessment worker, cascades and source changes appear   *)
(* as far as they meet the activation.                                     *)
(***************************************************************************)
EXTENDS Integers, FiniteSets, Sequences, SequencesExt

CONSTANTS
    Runners,     \* processes of activate-online and of the repair tick
    Releases,    \* bound: payloads 1 .. Releases are requested, in this order
    Claims,      \* claim ids, in the order of the ids
    Affected,    \* claims whose rule differs between any two configurations
    MaxRows,     \* bound: config_snapshots rows
    MaxPending,  \* online_activation_max_pending_questions
    MaxTries,    \* online_activation_max_attempts
    MaxRuns,     \* bound: runs that are started
    MaxEvents    \* bound: crashes, failures, expired leases and steps of the other writers

ASSUME ActivationAssumption ==
    /\ Claims \subseteq Nat /\ IsFiniteSet(Claims) /\ Affected \subseteq Claims
    /\ Releases \in Nat /\ MaxRows \in Nat \ {0} /\ MaxPending \in Nat /\ MaxTries \in Nat \ {0}
    /\ MaxRuns \in Nat /\ MaxEvents \in Nat

VARIABLES
    snap,     \* config_snapshots; row 1 is the bootstrap
    heads,    \* heads[x][k]: state of the claim's assessment head under row x
    unseen,   \* unseen[x][k]: invalidations that the current head does not reflect
    lapses,   \* history: what has gone wrong that no check notices (Lapses)
    asked,    \* asked[x]: claims with a follow-up question for row x
    ptr,      \* runtime_config_heads.active_config_snapshot_id
    slot,     \* the activating slot: candidate, fence and whether the lease is live
    gate,     \* the activation's owner kind holds the writer gate
    batch,    \* the configuration whose jobs the worker processes under the gate, or 0
    rev,      \* the knowledge revision
    live,     \* the session: none, admitted, or in a state that the offline change counts
    offline,  \* the transaction of the offline change
    runner,   \* runner[r]: where a process is
    view,     \* view[r]: the lease in the runner's copy of the head (Views)
    runs,     \* runs started so far
    events    \* events so far

rowVars == <<snap, heads, unseen, asked, ptr>>
otherVars == <<gate, batch, rev, live, offline>>
actVars == <<rowVars, lapses, slot, otherVars, runner, view, runs, events>>

Rows == 1 .. MaxRows
None == "none"
Terminal == {"active", "superseded", "failed", "post_publish_blocked"}
States == Terminal \cup {"absent", "draft", "preparing_heads", "ready", "publishing", "post_publish"}
Bases == 0 .. MaxRows

(* cohort: the knowledge revision of the freeze, -1 before it; sealed: the *)
(* verification seal is there; next: post_publish_next_attempt_at is past, *)
(* in the future, or NULL.                                                 *)
Absent == [st |-> "absent", base |-> 0, payload |-> -1, cohort |-> -1, sealed |-> FALSE,
           cursor |-> 0, tries |-> 0, next |-> "due"]
Bootstrap == [Absent EXCEPT !.st = "active", !.payload = 0]

(* joined: two runs work on a candidate under one fence.  blind: the slot  *)
(* was written, freed or taken over from a copy that was not the row any   *)
(* more; reverted: so was the pointer.  passed: an offline change was      *)
(* published for an older knowledge revision; uncounted: over a session    *)
(* that its preconditions do not count.                                    *)
Lapses == {"joined", "blind", "reverted", "passed", "uncounted"}

(* none: no copy of the head is loaded.  same: its slot is the row's.      *)
(* older, over: the slot has been written since, and the lease in the copy *)
(* still runs, or does not.                                                *)
Views == {"none", "same", "older", "over"}

RunnerPCs == {"idle", "inspect", "publish", "wait", "gate", "confirm", "resume", "freeze", "prepare",
              "seal", "refresh", "announce", "flip", "open", "post", "failed", "cleanup",
              "repair_open", "repair"}
NoHead == [cand |-> 0, fence |-> 0, ptr |-> 1]
IdleRunner == [pc |-> "idle", cand |-> 1, fence |-> 0, early |-> "absent", seen |-> Absent, n |-> 0,
               head |-> NoHead]

\* the candidate of the offline change: its base and cohort, and what its heads have missed
NoOffline == [pc |-> "none", base |-> 0, cohort |-> 0, missed |-> [k \in Claims |-> {}]]

MaxRev == MaxEvents + MaxRuns * (Cardinality(Claims) + 2)

ActTypeOK ==
    /\ \A x \in Rows : /\ snap[x].st \in States /\ snap[x].base \in Bases
                       /\ snap[x].cohort \in -1 .. MaxRev /\ snap[x].sealed \in BOOLEAN
                       /\ snap[x].cursor \in 0 .. Cardinality(Claims)
                       /\ snap[x].tries \in 0 .. MaxTries + MaxEvents
                       /\ snap[x].next \in {"due", "later", "parked"}
    /\ heads \in [Rows -> [Claims -> {"none", "pending", "current", "invalid"}]]
    /\ unseen \in [Rows -> [Claims -> SUBSET {"cascade", "source"}]]
    /\ asked \in [Rows -> SUBSET Claims] /\ lapses \subseteq Lapses
    /\ ptr \in Rows
    /\ slot \in [cand : Bases, fence : 0 .. MaxRuns, live : BOOLEAN]
    /\ slot.live => slot.cand # 0
    /\ gate \in BOOLEAN /\ batch \in Bases /\ ~(gate /\ batch # 0)
    /\ rev \in 0 .. MaxRev /\ live \in {None, "admitted", "running"}
    /\ offline.pc \in {"none", "prepared", "checked"}
    /\ \A r \in Runners : /\ runner[r].pc \in RunnerPCs /\ runner[r].cand \in Rows
                          /\ runner[r].fence \in 0 .. MaxRuns /\ runner[r].n \in Nat
                          /\ view[r] \in Views
                          /\ view[r] = "same" => /\ runner[r].head.cand = slot.cand
                                                /\ runner[r].head.fence = slot.fence
    /\ runs \in 0 .. MaxRuns /\ events \in 0 .. MaxEvents

ActInit ==
    /\ snap = [x \in Rows |-> IF x = 1 THEN Bootstrap ELSE Absent]
    /\ heads = [x \in Rows |-> [k \in Claims |-> IF x = 1 THEN "current" ELSE "none"]]
    /\ unseen = [x \in Rows |-> [k \in Claims |-> {}]]
    /\ asked = [x \in Rows |-> {}] /\ lapses = {}
    /\ ptr = 1
    /\ slot = [cand |-> 0, fence |-> 0, live |-> FALSE]
    /\ gate = FALSE /\ batch = 0 /\ rev = 0 /\ live = None /\ offline = NoOffline
    /\ runner = [r \in Runners |-> IdleRunner] /\ view = [r \in Runners |-> "none"]
    /\ runs = 0 /\ events = 0

-----------------------------------------------------------------------------
Event == events < MaxEvents /\ events' = events + 1

\* the head as the row is, and as the runner knows it
RowHead == [cand |-> slot.cand, fence |-> slot.fence, ptr |-> ptr]
Known(r) == IF view[r] = "none" THEN RowHead ELSE runner[r].head
LeaseSeen(r) == IF view[r] \in {"none", "same"} THEN slot.live ELSE view[r] = "older"
Outdated(r) == view[r] \notin {"none", "same"}

\* the slot is written; the copies of the other runners are not
OvertakenView(v) == IF v # "same" THEN v ELSE IF slot.live THEN "older" ELSE "over"
WriteSlot(r, new, v) ==
    /\ slot' = new
    /\ view' = [q \in Runners |-> IF q = r THEN v ELSE OvertakenView(view[q])]
    /\ lapses' = lapses \cup (IF Outdated(r) THEN {"blind"} ELSE {})
FreeSlot == [slot EXCEPT !.cand = 0, !.live = FALSE]
SameSlot == UNCHANGED <<slot, lapses>>

Goto(r, pc) == runner' = [runner EXCEPT ![r].pc = pc] /\ UNCHANGED view

\* the loaded candidate is not used any more
Moved(r, pc, head) ==
    [IdleRunner EXCEPT !.pc = pc, !.cand = runner[r].cand, !.fence = runner[r].fence, !.head = head]
Drop(r, pc) == runner' = [runner EXCEPT ![r] = Moved(r, pc, runner[r].head)] /\ UNCHANGED view

\* an ActivationError inside a transaction: the rollback expires the copies
Fail(r) ==
    /\ runner' = [runner EXCEPT ![r] = Moved(r, "failed", NoHead)]
    /\ view' = [view EXCEPT ![r] = "none"]

Idle(r) == runner' = [runner EXCEPT ![r] = IdleRunner]
Stop(r) == Idle(r) /\ view' = [view EXCEPT ![r] = "none"]

\* Fault: the lease is not looked at
TupleOkNoLease(r) == Known(r).cand = runner[r].cand /\ Known(r).fence = runner[r].fence

\* _tuple_ok, on the runner's copy of the head: the owner is always the same
TupleOk(r) == Known(r).cand = runner[r].cand /\ Known(r).fence = runner[r].fence /\ LeaseSeen(r)

\* _tuple_ok, on the row: after a rollback
Owns(r) == slot.cand = runner[r].cand /\ slot.fence = runner[r].fence /\ slot.live

\* activation_slot_busy: a draft whose lease ran out is a crashed drain
SlotBusy == slot.cand # 0 /\ ~(snap[slot.cand].st = "draft" /\ ~slot.live)

\* Fault: nobody is counted
QuiescedAlways == TRUE

\* _quiesce_counts
Quiesced == live = None

\* another process works on the candidate with the same fence
Joins(r, x, fence) ==
    \E q \in Runners \ {r} : runner[q].pc # "idle" /\ runner[q].cand = x /\ runner[q].fence = fence

Pending(x) == {k \in Claims : heads[x][k] = "pending"}
PendingList(x) == SetToSortSeq(Pending(x), <)

\* a candidate of the current base for the payload that is still under way
OpenRow(p) == {x \in Rows : /\ snap[x].base = ptr /\ snap[x].payload = p
                            /\ snap[x].st \notin {"absent", "failed", "active", "superseded"}}
NextRow == {x \in Rows : snap[x].st = "absent" /\ \A y \in Rows : y < x => snap[y].st # "absent"}

-----------------------------------------------------------------------------
(* run_online_change up to the slot                                        *)

\* the first two transactions: the head, upsert_online_candidate, and the early look at its state
Upsert(r, p) ==
    /\ runner[r].pc = "idle" /\ runs < MaxRuns
    /\ ~(snap[ptr].payload = p /\ snap[ptr].st \in {"active", "post_publish_blocked"})
    /\ \E x \in IF snap[ptr].payload = p THEN {ptr}
                ELSE IF OpenRow(p) # {} THEN OpenRow(p) ELSE NextRow :
          /\ snap' = IF snap[x].st = "absent"
                     THEN [snap EXCEPT ![x] = [Absent EXCEPT !.st = "draft", !.base = ptr, !.payload = p]]
                     ELSE snap
          /\ runner' = [runner EXCEPT ![r] = [IdleRunner EXCEPT !.pc = "inspect", !.cand = x,
                                                                !.early = snap'[x].st, !.head = RowHead]]
    /\ view' = [view EXCEPT ![r] = "same"]
    /\ runs' = runs + 1
    /\ UNCHANGED <<heads, unseen, lapses, asked, ptr, slot, otherVars, events>>

\* the slot decides: reuse it, publish the drain, or give up
Inspect(r) ==
    LET h == runner[r].head
        same == h.cand = runner[r].cand
    IN  /\ runner[r].pc = "inspect"
        /\ IF same /\ LeaseSeen(r) /\ runner[r].early # "draft"
           THEN /\ runner' = [runner EXCEPT ![r].pc = "resume", ![r].fence = h.fence, ![r].early = "absent"]
                /\ lapses' = lapses \cup (IF Joins(r, h.cand, h.fence) THEN {"joined"} ELSE {})
                                    \cup (IF Outdated(r) THEN {"blind"} ELSE {})
                /\ UNCHANGED view
           ELSE /\ IF h.cand = 0 \/ same THEN Goto(r, "publish") ELSE Stop(r)
                /\ UNCHANGED lapses
        /\ UNCHANGED <<rowVars, slot, otherVars, runs, events>>

(* publish_activation_drain: a live lease is renewed, one that ran out is  *)
(* taken over.  Only what differs from the copy is written, and a lease on *)
(* a slot that was freed meanwhile violates a CHECK.  A candidate that is  *)
(* past the drain skips the wait.                                          *)
PublishDrain(r) ==
    LET x == runner[r].cand
        h == runner[r].head
        renews == h.cand = x /\ LeaseSeen(r)
        fence == IF renews THEN h.fence ELSE h.fence + 1
        new == [cand |-> IF h.cand = 0 THEN x ELSE slot.cand,
                fence |-> IF renews THEN slot.fence ELSE fence, live |-> TRUE]
        same == new.cand = x /\ new.fence = fence
    IN  /\ runner[r].pc = "publish"
        /\ IF h.cand \in {0, x} /\ new.cand # 0
           THEN /\ slot' = new
                /\ view' = [q \in Runners |-> IF q # r THEN OvertakenView(view[q])
                                              ELSE IF same THEN "same" ELSE "older"]
                /\ lapses' = lapses \cup (IF Joins(r, x, fence) THEN {"joined"} ELSE {})
                                    \cup (IF Outdated(r) THEN {"blind"} ELSE {})
                /\ runner' = [runner EXCEPT
                                 ![r].pc = IF snap[x].st = "draft" THEN "wait" ELSE "resume",
                                 ![r].fence = fence, ![r].early = "absent", ![r].seen = snap[x],
                                 ![r].head.cand = x, ![r].head.fence = fence]
           ELSE Stop(r) /\ SameSlot
        /\ UNCHANGED <<rowVars, otherVars, runs, events>>

\* wait_activation_drain: a poll that finds the system quiet
WaitDrain(r) ==
    /\ runner[r].pc = "wait"
    /\ IF TupleOk(r) THEN Quiesced /\ Goto(r, "gate") ELSE Stop(r)
    /\ UNCHANGED <<rowVars, lapses, slot, otherVars, runs, events>>

\* _cancel_activation_drain: the wait for the window or for the gate was too long
CancelDrain(r) ==
    /\ \/ runner[r].pc = "wait" /\ ~Quiesced
       \/ runner[r].pc = "gate" /\ batch # 0
    /\ IF TupleOk(r) THEN Idle(r) /\ WriteSlot(r, FreeSlot, "none") ELSE Stop(r) /\ SameSlot
    /\ UNCHANGED <<rowVars, otherVars, runs, events>>

TakeGate(r) ==
    /\ runner[r].pc = "gate" /\ batch = 0
    /\ gate' = TRUE
    /\ Goto(r, "confirm")
    /\ UNCHANGED <<rowVars, lapses, slot, batch, rev, live, offline, runs, events>>

\* _confirm_drain; an error here is raised before the driver's try
ConfirmDrain(r) ==
    LET x == runner[r].cand
        ok == TupleOk(r) /\ Quiesced
    IN  /\ runner[r].pc = "confirm"
        /\ gate' = FALSE
        /\ snap' = IF ok /\ runner[r].seen.st = "draft"
                   THEN [snap EXCEPT ![x].st = "preparing_heads"] ELSE snap
        /\ IF ok THEN Goto(r, "resume") ELSE Stop(r)
        /\ UNCHANGED <<heads, unseen, lapses, asked, ptr, slot, batch, rev, live, offline, runs, events>>

-----------------------------------------------------------------------------
(* The pipeline; an ActivationError leads to "failed"                      *)

\* the state is read again and decides where to go on
Resume(r) ==
    LET x == runner[r].cand IN
    /\ runner[r].pc = "resume"
    /\ IF snap[x].st \in {"preparing_heads", "ready", "publishing"}
       THEN runner' = [runner EXCEPT ![r].seen = snap[x], ![r].pc = "freeze"] /\ UNCHANGED view
       ELSE Drop(r, IF snap[x].st = "post_publish" THEN "refresh" ELSE "failed")
    /\ UNCHANGED <<rowVars, lapses, slot, otherVars, runs, events>>

\* freeze_cohort_online
Freeze(r) ==
    LET x == runner[r].cand
        frozen == [runner[r].seen EXCEPT !.cohort = rev, !.st = "preparing_heads"]
    IN  /\ runner[r].pc = "freeze"
        /\ IF ~TupleOk(r) THEN Fail(r) /\ UNCHANGED snap
           ELSE IF runner[r].seen.cohort # -1 THEN Goto(r, "prepare") /\ UNCHANGED snap
           ELSE /\ snap' = [snap EXCEPT ![x].cohort = rev,
                               ![x].st = IF runner[r].seen.st = "preparing_heads" THEN @ ELSE "preparing_heads"]
                /\ runner' = [runner EXCEPT ![r].pc = "prepare", ![r].seen = frozen] /\ UNCHANGED view
        /\ UNCHANGED <<heads, unseen, lapses, asked, ptr, slot, otherVars, runs, events>>

\* the carried or the pending head of a claim
ShadowHead(x, k) ==
    IF heads[snap[x].base][k] = "current" /\ k \notin Affected THEN "current" ELSE "pending"

\* the trigger on claim_assessment_heads: sealed heads are immutable
SealedHeads(x) == snap[x].st \in {"ready", "publishing"}

\* prepare_heads_online: one batch of one claim; what the trigger raises is no ActivationError
PrepareHead(r) ==
    LET x == runner[r].cand
        ks == SetToSortSeq(Claims, <)
        n == runner[r].n + 1
        k == ks[n]
    IN  /\ runner[r].pc = "prepare"
        /\ IF ~TupleOk(r) THEN Fail(r) /\ UNCHANGED <<heads, unseen>>
           ELSE IF SealedHeads(x) /\ heads[x][k] # ShadowHead(x, k)
           THEN Stop(r) /\ UNCHANGED <<heads, unseen>>
           ELSE /\ heads' = [heads EXCEPT ![x][k] = ShadowHead(x, k)]
                /\ unseen' = [unseen EXCEPT ![x][k] = IF ShadowHead(x, k) = "current"
                                                      THEN unseen[snap[x].base][k] ELSE {}]
                /\ runner' = IF n = Len(ks) THEN [runner EXCEPT ![r].pc = "seal", ![r].n = 0]
                             ELSE [runner EXCEPT ![r].n = n]
                /\ UNCHANGED view
        /\ UNCHANGED <<snap, lapses, asked, ptr, slot, otherVars, runs, events>>

\* verify_and_seal_online
Seal(r) ==
    LET x == runner[r].cand
        seen == runner[r].seen
        complete == \A k \in Claims : heads[x][k] # "none"
    IN  /\ runner[r].pc = "seal"
        /\ IF TupleOk(r) /\ seen.st = "ready" THEN Goto(r, "refresh") /\ UNCHANGED snap
           ELSE IF TupleOk(r) /\ rev = seen.cohort /\ complete
           THEN /\ snap' = [snap EXCEPT ![x].st = "ready", ![x].sealed = TRUE]
                /\ Goto(r, "refresh")
           ELSE Fail(r) /\ UNCHANGED snap
        /\ UNCHANGED <<heads, unseen, lapses, asked, ptr, slot, otherVars, runs, events>>

Refresh(r) ==
    LET x == runner[r].cand IN
    /\ runner[r].pc = "refresh"
    /\ IF snap[x].st = "ready"
       THEN runner' = [runner EXCEPT ![r].seen = snap[x], ![r].pc = "announce"] /\ UNCHANGED view
       ELSE Drop(r, IF snap[x].st = "post_publish" THEN "open" ELSE "failed")
    /\ UNCHANGED <<rowVars, lapses, slot, otherVars, runs, events>>

\* publish_online, first transaction: ready becomes publishing
Announce(r) ==
    LET x == runner[r].cand
        ok == TupleOk(r) /\ Cardinality(Pending(x)) <= MaxPending
    IN  /\ runner[r].pc = "announce"
        /\ snap' = IF ok THEN [snap EXCEPT ![x].st = "publishing"] ELSE snap
        /\ IF ok THEN runner' = [runner EXCEPT ![r].pc = "flip", ![r].seen.st = "publishing"] /\ UNCHANGED view
           ELSE Fail(r)
        /\ UNCHANGED <<heads, unseen, lapses, asked, ptr, slot, otherVars, runs, events>>

\* Fault: the knowledge revision is not compared again
FlipAllowedAnyRevision(r) ==
    /\ TupleOk(r) /\ Known(r).ptr = runner[r].seen.base /\ Quiesced /\ runner[r].seen.sealed

\* the checks of the flip: the tuple and the pointer as the runner knows them, the rest as it is
FlipAllowed(r) ==
    /\ TupleOk(r) /\ Known(r).ptr = runner[r].seen.base /\ Quiesced
    /\ runner[r].seen.sealed /\ rev = runner[r].seen.cohort

\* publish_online, second transaction
Flip(r) ==
    LET x == runner[r].cand
        base == runner[r].seen.base
    IN  /\ runner[r].pc = "flip"
        /\ IF FlipAllowed(r)
           THEN /\ snap' = [snap EXCEPT ![x].st = "post_publish", ![x].cursor = 0, ![x].tries = 0,
                                        ![x].next = "due",
                                        ![base].st = IF base = 1 THEN @ ELSE "superseded"]
                /\ ptr' = x
                /\ rev' = rev + 1
                /\ lapses' = lapses \cup (IF Known(r).ptr # ptr THEN {"reverted"} ELSE {})
                /\ runner' = [runner EXCEPT ![r] = Moved(r, "open", [runner[r].head EXCEPT !.ptr = x])]
                /\ UNCHANGED view
           ELSE Fail(r) /\ UNCHANGED <<snap, ptr, rev, lapses>>
        /\ UNCHANGED <<heads, unseen, asked, slot, gate, batch, live, offline, runs, events>>

-----------------------------------------------------------------------------
(* run_post_publish, the failure path of the driver, the repair runner     *)

\* the gate; without it the run is deferred
OpenManifest(r) ==
    /\ runner[r].pc \in {"open", "repair_open"}
    /\ IF batch # 0 THEN Stop(r) /\ UNCHANGED gate
       ELSE gate' = TRUE /\ Goto(r, IF runner[r].pc = "open" THEN "post" ELSE "repair")
    /\ UNCHANGED <<rowVars, lapses, slot, batch, rev, live, offline, runs, events>>

\* one batch of one question, and the revision with the cursor
AskNext(x) ==
    /\ asked' = [asked EXCEPT ![x] = @ \cup {PendingList(x)[snap[x].cursor + 1]}]
    /\ snap' = [snap EXCEPT ![x].cursor = @ + 1]
    /\ rev' = rev + 1

ManifestDone(x) == snap[x].cursor >= Cardinality(Pending(x))

PostPublish(r) ==
    LET x == runner[r].cand
        st == snap[x].st
        due == TupleOk(r) /\ snap[x].next = "due"
    IN  /\ runner[r].pc = "post"
        /\ \/ /\ st = "post_publish" /\ due /\ ~ManifestDone(x)
              /\ AskNext(x)
              /\ SameSlot
              /\ UNCHANGED <<gate, runner, view>>
           \/ /\ st = "post_publish" /\ due /\ ManifestDone(x)
              /\ snap' = [snap EXCEPT ![x].st = "active"]
              /\ WriteSlot(r, FreeSlot, "none")
              /\ gate' = FALSE
              /\ Idle(r)
              /\ UNCHANGED <<asked, rev>>
           \/ /\ st = "post_publish" /\ ~due   \* fenced or deferred
              /\ gate' = FALSE
              /\ Stop(r)
              /\ SameSlot
              /\ UNCHANGED <<snap, asked, rev>>
           \/ /\ st \in {"active", "superseded"}
              /\ gate' = FALSE
              /\ IF st = "active" THEN Stop(r) ELSE Drop(r, "failed")
              /\ SameSlot
              /\ UNCHANGED <<snap, asked, rev>>
        /\ UNCHANGED <<heads, unseen, ptr, batch, live, offline, runs, events>>

(* An error in a batch, or a candidate in a state that was not expected:   *)
(* the rollback has expired the head, which is read again; the attempt is  *)
(* recorded if the tuple still holds, and the last one blocks the          *)
(* manifest.  What is not an ActivationError leaves the driver without     *)
(* cleanup.                                                                *)
PostPublishError(r) ==
    LET x == runner[r].cand
        odd == snap[x].st \notin {"post_publish", "active", "superseded"}
        last == snap[x].tries + 1 >= MaxTries
        blocks == Owns(r) /\ last
        leave == ~odd \/ blocks
    IN  /\ runner[r].pc = "post"
        /\ IF odd THEN UNCHANGED events ELSE snap[x].st = "post_publish" /\ Event
        /\ snap' = IF ~Owns(r) THEN snap
                   ELSE [snap EXCEPT ![x].tries = @ + 1, ![x].next = IF last THEN "due" ELSE "later",
                                     ![x].st = IF last THEN "post_publish_blocked" ELSE @]
        /\ slot' = IF blocks THEN FreeSlot ELSE slot
        /\ view' = [q \in Runners |-> IF q = r THEN (IF leave THEN "none" ELSE "same")
                                      ELSE IF blocks THEN OvertakenView(view[q]) ELSE view[q]]
        /\ runner' = [runner EXCEPT ![r] = IF leave THEN IdleRunner ELSE Moved(r, "failed", RowHead)]
        /\ gate' = FALSE
        /\ UNCHANGED <<heads, unseen, lapses, asked, ptr, batch, rev, live, offline, runs>>

\* the driver's except clause: the state is looked at in one transaction ...
ExamineFailure(r) ==
    /\ runner[r].pc = "failed"
    /\ IF snap[runner[r].cand].st \in Terminal THEN Stop(r) ELSE Drop(r, "cleanup")
    /\ UNCHANGED <<rowVars, lapses, slot, otherVars, runs, events>>

\* ... and _terminal_cleanup_tx runs in another; a slot that is free in the copy is not written
CleanUp(r) ==
    LET x == runner[r].cand
        free == Known(r).cand = 0
    IN  /\ runner[r].pc = "cleanup"
        /\ IF ~free /\ ~TupleOk(r) THEN Stop(r) /\ SameSlot /\ UNCHANGED snap
           ELSE /\ snap' = [snap EXCEPT ![x].st = "failed"]
                /\ Idle(r)
                /\ WriteSlot(r, IF free THEN slot ELSE FreeSlot, "none")
        /\ UNCHANGED <<heads, unseen, asked, ptr, otherVars, runs, events>>

\* activation-repair-tick: find_repair_backlog
BeginRepair(r) ==
    /\ runner[r].pc = "idle" /\ runs < MaxRuns
    /\ snap[ptr].st = "post_publish_blocked"
    /\ runner' = [runner EXCEPT ![r] = [IdleRunner EXCEPT !.pc = "repair_open", !.cand = ptr]]
    /\ runs' = runs + 1
    /\ UNCHANGED <<rowVars, lapses, slot, otherVars, view, events>>

\* run_activation_repair: a batch under the repair CAS; the head of the first one is kept
Repair(r) ==
    LET x == runner[r].cand
        mine == Known(r).ptr = x
        cas == Known(r).cand = 0 /\ snap[x].st = "post_publish_blocked" /\ snap[x].next = "due"
    IN  /\ runner[r].pc = "repair"
        /\ \/ /\ ~mine
              /\ snap' = IF snap[x].st = "post_publish_blocked"
                         THEN [snap EXCEPT ![x].st = "superseded"] ELSE snap
              /\ gate' = FALSE /\ Stop(r)
              /\ UNCHANGED <<asked, rev>>
           \/ /\ mine /\ ~cas
              /\ gate' = FALSE /\ Stop(r)
              /\ UNCHANGED <<snap, asked, rev>>
           \/ /\ mine /\ cas /\ ManifestDone(x)
              /\ snap' = [snap EXCEPT ![x].st = "active"]
              /\ gate' = FALSE /\ Stop(r)
              /\ UNCHANGED <<asked, rev>>
           \/ /\ mine /\ cas /\ ~ManifestDone(x)
              /\ AskNext(x)
              /\ runner' = [runner EXCEPT ![r].head = Known(r)]
              /\ view' = [view EXCEPT ![r] = IF @ = "none" THEN "same" ELSE @]
              /\ UNCHANGED gate
        /\ UNCHANGED <<heads, unseen, lapses, ptr, slot, batch, live, offline, runs, events>>

\* the except clause of the repair, after the rollback: a permanent error parks the backlog
RepairError(r, permanent) ==
    LET x == runner[r].cand IN
    /\ runner[r].pc = "repair" /\ Event
    /\ snap' = IF slot.cand = 0 /\ ptr = x /\ snap[x].st = "post_publish_blocked"
               THEN [snap EXCEPT ![x].tries = @ + 1, ![x].next = IF permanent THEN "parked" ELSE "later"]
               ELSE snap
    /\ gate' = FALSE
    /\ Stop(r)
    /\ UNCHANGED <<heads, unseen, lapses, asked, ptr, slot, batch, rev, live, offline, runs>>

-----------------------------------------------------------------------------
(* Crashes, time, and the other writers                                    *)

InGate(r) == runner[r].pc \in {"confirm", "post", "repair"}

\* the process dies; slot and gate stay until their leases run out
CrashRunner(r) ==
    /\ runner[r].pc # "idle" /\ Event
    /\ Stop(r)
    /\ UNCHANGED <<rowVars, lapses, slot, otherVars, runs>>

\* the lease of the slot, and with it every lease written before; that it runs out under a runner is bounded
ExpireActivationLease ==
    /\ slot.live
    /\ slot' = [slot EXCEPT !.live = FALSE]
    /\ view' = [r \in Runners |-> IF view[r] = "older" THEN "over" ELSE view[r]]
    /\ IF \E r \in Runners : view[r] \in {"same", "older"} THEN Event ELSE UNCHANGED events
    /\ UNCHANGED <<rowVars, lapses, otherVars, runner, runs>>

\* a lease that is only in a copy
ExpireSeenLease(r) ==
    /\ view[r] = "older" /\ Event
    /\ view' = [view EXCEPT ![r] = "over"]
    /\ UNCHANGED <<rowVars, lapses, slot, otherVars, runner, runs>>

ExpireGate ==
    /\ gate /\ \A r \in Runners : ~InGate(r)
    /\ gate' = FALSE
    /\ UNCHANGED <<rowVars, lapses, slot, batch, rev, live, offline, runner, view, runs, events>>

BackoffOver(x) ==
    /\ snap[x].next = "later"
    /\ snap' = [snap EXCEPT ![x].next = "due"]
    /\ UNCHANGED <<heads, unseen, lapses, asked, ptr, slot, otherVars, runner, view, runs, events>>

\* a session is admitted under the head lock ...
BeginSession ==
    /\ live = None /\ ~SlotBusy /\ Event
    /\ live' = "admitted"
    /\ UNCHANGED <<rowVars, lapses, slot, gate, batch, rev, offline, runner, view, runs>>

\* ... leaves the first states of its row ...
StartSession ==
    /\ live = "admitted"
    /\ live' = "running"
    /\ UNCHANGED <<rowVars, lapses, slot, gate, batch, rev, offline, runner, view, runs, events>>

\* ... and commits or fails
EndSession ==
    /\ live # None
    /\ live' = None
    /\ (live = "running" /\ rev' = rev + 1) \/ UNCHANGED rev
    /\ UNCHANGED <<rowVars, lapses, slot, gate, batch, offline, runner, view, runs, events>>

\* a batch of the reassessment worker
BeginBatch ==
    /\ ~gate /\ batch = 0 /\ slot.cand = 0 /\ Pending(ptr) # {} /\ Event
    /\ batch' = ptr
    /\ UNCHANGED <<rowVars, lapses, slot, gate, rev, live, offline, runner, view, runs>>

\* a job of another configuration, or beside an activation, goes back to the queue
EndBatch ==
    /\ batch # 0
    /\ batch' = 0
    /\ \/ /\ slot.cand = 0 /\ batch = ptr
          /\ \E k \in Pending(ptr) : /\ heads' = [heads EXCEPT ![ptr][k] = "current"]
                                     /\ unseen' = [unseen EXCEPT ![ptr][k] = {}]
          /\ rev' = rev + 1
       \/ UNCHANGED <<heads, unseen, rev>>
    /\ UNCHANGED <<snap, lapses, asked, ptr, slot, gate, live, offline, runner, view, runs, events>>

(* Every other configuration that carries a current head of the claim does *)
(* not know of the change, and neither does one that is being prepared.    *)
Invalidate(change, k) ==
    /\ heads' = [heads EXCEPT ![ptr][k] = IF @ = "current" THEN "pending" ELSE @]
    /\ unseen' = [x \in Rows |-> [j \in Claims |->
                     IF j = k /\ heads'[x][j] = "current" THEN unseen[x][j] \cup {change} ELSE unseen[x][j]]]
    /\ offline' = IF offline.pc = "none" THEN offline ELSE [offline EXCEPT !.missed[k] = @ \cup {change}]

\* a cascade invalidates under the effective configuration and advances the revision
CascadeInvalidates ==
    /\ Event
    /\ \E k \in Claims : heads[ptr][k] = "current" /\ Invalidate("cascade", k)
    /\ rev' = rev + 1
    /\ UNCHANGED <<snap, lapses, asked, ptr, slot, gate, batch, live, runner, view, runs>>

\* a source-graph change does not advance it
SourceInvalidates ==
    /\ Event
    /\ \E k \in Claims : heads[ptr][k] = "current" /\ Invalidate("source", k)
    /\ UNCHANGED <<snap, lapses, asked, ptr, slot, gate, batch, rev, live, runner, view, runs>>

-----------------------------------------------------------------------------
(* The offline change (hostctl/offline_rules.py): one transaction of one    *)
(* process under an advisory lock.  It is meant for a stopped runtime, but *)
(* what it looks at are the sessions that are past their first states and  *)
(* the commit attempts: not an admission, not the activating slot, not the *)
(* fence, not the gate; the knowledge revision is stored, not compared.    *)

offVars == <<slot, gate, batch, rev, live, runner, view, runs>>

\* _preconditions_ok, at the start and again before the publication
OfflinePossible == live # "running"

\* run_offline_change up to the seal: every claim is evaluated
PrepareOffline ==
    /\ offline.pc = "none" /\ OfflinePossible /\ Event
    /\ offline' = [NoOffline EXCEPT !.pc = "prepared", !.base = ptr, !.cohort = rev]
    /\ UNCHANGED <<rowVars, lapses, offVars>>

\* atomic_publish, up to the lock of the head
CheckOffline ==
    /\ offline.pc = "prepared" /\ OfflinePossible
    /\ offline' = [offline EXCEPT !.pc = "checked"]
    /\ UNCHANGED <<rowVars, lapses, offVars, events>>

\* what prepare_shadow_heads found: a changed type may have no rule any more
OfflineHead(k) == {"current", "pending"} \cup (IF k \in Affected THEN {"invalid"} ELSE {})

\* freeze_cohort and verification_seal; nobody sees the row and its heads before the commit
SealedOffline(p) ==
    [Absent EXCEPT !.st = "active", !.base = offline.base, !.payload = p,
                   !.cohort = offline.cohort, !.sealed = TRUE]

\* atomic_publish: the pointer, read under the lock, moves with the questions of the invalid heads
PublishOffline(p) ==
    /\ offline.pc = "checked" /\ ptr = offline.base /\ snap[ptr].payload # p
    /\ \E x \in NextRow, hs \in [Claims -> {"current", "pending", "invalid"}] :
          /\ \A k \in Claims : hs[k] \in OfflineHead(k)
          /\ snap' = [snap EXCEPT ![x] = SealedOffline(p)]
          /\ heads' = [heads EXCEPT ![x] = hs]
          /\ unseen' = [unseen EXCEPT ![x] = [k \in Claims |-> IF hs[k] = "current" THEN offline.missed[k]
                                                               ELSE {}]]
          /\ asked' = [asked EXCEPT ![x] = {k \in Claims : hs[k] = "invalid"}]
          /\ ptr' = x
    /\ lapses' = lapses \cup (IF rev # offline.cohort THEN {"passed"} ELSE {})
                        \cup (IF live # None THEN {"uncounted"} ELSE {})
    /\ offline' = NoOffline
    /\ UNCHANGED <<offVars, events>>

\* an error or a crash: nothing of it was written
AbandonOffline ==
    /\ offline.pc # "none"
    /\ offline' = NoOffline
    /\ UNCHANGED <<rowVars, lapses, offVars, events>>

\* hostctl offline-rules, with any payload that is not the effective one
OfflineRulesCommand ==
    \/ PrepareOffline \/ CheckOffline \/ (\E p \in 1 .. Releases : PublishOffline(p)) \/ AbandonOffline

-----------------------------------------------------------------------------
Run(r) ==
    \/ \E p \in {snap[ptr].payload, snap[ptr].payload + 1} \cap 1 .. Releases : Upsert(r, p)
    \/ Inspect(r) \/ PublishDrain(r) \/ WaitDrain(r) \/ CancelDrain(r) \/ TakeGate(r) \/ ConfirmDrain(r)
    \/ Resume(r) \/ Freeze(r) \/ PrepareHead(r) \/ Seal(r) \/ Refresh(r) \/ Announce(r) \/ Flip(r)
    \/ OpenManifest(r) \/ PostPublish(r) \/ PostPublishError(r) \/ ExamineFailure(r) \/ CleanUp(r)
    \/ BeginRepair(r) \/ Repair(r) \/ (\E permanent \in BOOLEAN : RepairError(r, permanent))
    \/ CrashRunner(r) \/ ExpireSeenLease(r)

Others ==
    \/ ExpireActivationLease \/ ExpireGate \/ \E x \in Rows : BackoffOver(x)
    \/ BeginSession \/ StartSession \/ EndSession \/ BeginBatch \/ EndBatch
    \/ CascadeInvalidates \/ SourceInvalidates
    \/ OfflineRulesCommand

ActNext == Others \/ \E r \in Runners : Run(r)

ActSpec == ActInit /\ [][ActNext]_actVars

-----------------------------------------------------------------------------
(* Properties                                                              *)

(* The effective configuration never rests on an assessment that a cascade *)
(* had invalidated before the flip: what the preparation carried over is   *)
(* still valid when the pointer moves, because the revision of the freeze  *)
(* is compared again (freeze_cohort_online, verify_and_seal_online,        *)
(* publish_online).  Left out are histories in which that comparison is    *)
(* void: the cohort was frozen twice by runs that overlap (joined, blind,  *)
(* see FrozenOnce), the base was not effective any more (reverted), or an  *)
(* offline change was published, which compares nothing (passed).          *)
NoStaleCarry ==
    lapses \subseteq {"uncounted"}
    => \A k \in Claims : heads[ptr][k] = "current" => "cascade" \notin unseen[ptr][k]

(* A runner that a takeover has fenced out writes nothing while the new    *)
(* owner holds the slot (_check_tuple and every later tuple check).  The   *)
(* fence in its copy of the head is still its own: what stops it is the    *)
(* lease in that copy, which is over before the takeover is possible.      *)
(* That fails only when a run took the slot over from a copy that was out  *)
(* of date (blind), or shares the fence (joined).                          *)
FencedOutWritesNothing ==
    [][lapses' \cap {"joined", "blind"} = {}
       => \A r \in Runners :
             /\ runner'[r] # runner[r] /\ runner[r].fence # 0
             /\ slot.cand = runner[r].cand /\ runner[r].fence < slot.fence
             => UNCHANGED <<heads, asked, ptr>> /\ snap'[slot.cand] = snap[slot.cand]]_actVars

(* The flip happens between sessions and the configurations form a chain   *)
(* (ConfigSwitch), whatever crashes, takeovers and repeated runs happen.   *)
(* Each of the exceptions it allows is a step of its own (Disorder), which *)
(* the program takes only when a flip overwrites a pointer that it does    *)
(* not know, or an offline change meets a session.                         *)
Depth[x \in Bases] == IF x = 0 \/ snap[x].base = 0 THEN 0 ELSE 1 + Depth[snap[x].base]
Switching == INSTANCE ConfigSwitch
                 WITH number <- Depth[ptr], session <- live # None,
                      orderly <- lapses \cap {"reverted", "uncounted"} = {}
RefinesSwitch == Switching!Spec

-----------------------------------------------------------------------------
\* What the documentation says and the code does not keep: README, section 6.

(* "active pointer is not the candidate base revision" is an error that    *)
(* refuses the flip (activation.py, publish_online).                       *)
FlipFollowsBase == [][ptr' # ptr => snap'[ptr'].base = ptr]_actVars

(* "A terminal state with a non-empty activating slot is an invariant      *)
(* violation" (activation.py, _terminal_cleanup_tx).                       *)
TerminalFreesSlot == slot.cand # 0 => snap[slot.cand].st \notin Terminal

(* "invalidates every claim whose evidence touches the affected sources    *)
(* and enqueues the recomputation" (source_graph.py).                      *)
SourceChangeSurvives == \A k \in Claims : heads[ptr][k] = "current" => "source" \notin unseen[ptr][k]

(* "idempotent: a resumed run keeps the frozen cohort" (activation.py,      *)
(* freeze_cohort_online).                                                  *)
FrozenOnce ==
    [][\A x \in Rows : snap[x].cohort # -1 /\ snap'[x].cohort # snap[x].cohort => FALSE]_actVars
=============================================================================
