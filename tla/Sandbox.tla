------------------------------ MODULE Sandbox -------------------------------
(***************************************************************************)
(* The container of one session (packages/sandbox/runtime.py), the         *)
(* commands run in it (packages/broker/broker.py) and the executor that    *)
(* opens and closes it (apps/orchestrator/tool_executors.py).              *)
(*                                                                         *)
(* Every verb is a client process; killing the client cancels nothing in   *)
(* the engine, which may create or remove the container afterwards, and    *)
(* which reports a killed container as running for a while.  Time is       *)
(* counted in polls of the two loops that wait for the engine.             *)
(***************************************************************************)
EXTENDS Integers

CONSTANTS
    LateTicks,    \* a create whose client was killed is applied within these
    Window,       \* _CONFIRM_ABSENT_WINDOW_SECONDS
    Ceiling,      \* _CLEANUP_CEILING_SECONDS
    FlipTicks,    \* State.Running is false within these after a death
    Recheck,      \* CONTAINER_DEATH_RECHECK_SECONDS
    MaxExecs      \* bound: commands of the session

(* What runtime.py:178-190 and broker.py:58-70 measured: the engine is     *)
(* late by less than the windows wait.                                     *)
ASSUME SandboxAssumption ==
    /\ LateTicks \in Nat /\ Window \in Nat /\ LateTicks <= Window
    /\ FlipTicks \in Nat \ {0} /\ Recheck \in Nat /\ FlipTicks <= Recheck
    /\ Ceiling \in Nat /\ MaxExecs \in Nat

VARIABLES
    box,     \* the engine: the container, a late create, a late removal, the lag of a death
    phase,   \* where the session's process is
    clean,   \* the locals of _remove_and_confirm and _confirm_absent
    call,    \* the command being run and what was reported of it
    leaked,  \* a LEAKED warning was logged
    escaped  \* start or the cleanup was left because no client process could be started

sandboxVars == <<box, phase, clean, call, leaked, escaped>>

Gone == "absent"
NoClean == [n |-> 0, left |-> 0, absent |-> -1, last |-> "unknown", stop |-> FALSE]
NoCall == [code |-> "none", killed |-> FALSE, blind |-> FALSE, polls |-> 0, report |-> "none", execs |-> 0]

SandboxTypeOK ==
    /\ box \in [ctr : {Gone, "created", "running", "dying", "exited"}, create : 0 .. LateTicks,
                rm : BOOLEAN, lag : 0 .. FlipTicks]
    /\ phase \in {"none", "creating", "starting", "open", "exec", "check", "recheck", "failed", "second",
                  "destroying", "rm", "confirm", "over"}
    /\ clean \in [n : 0 .. 2, left : 0 .. Ceiling, absent : -1 .. Window, last : {"unknown", "present"},
                  stop : BOOLEAN]
    /\ call \in [code : {"none", "ok", "timeout", "plain", "signal", "refused", "engine", "noclient"},
                 killed : BOOLEAN, blind : BOOLEAN, polls : 0 .. Recheck,
                 report : {"none", "ok", "failed", "unknown"}, execs : 0 .. MaxExecs]
    /\ leaked \in BOOLEAN /\ escaped \in BOOLEAN

SandboxInit ==
    /\ box = [ctr |-> Gone, create |-> 0, rm |-> FALSE, lag |-> 0]
    /\ phase = "none" /\ clean = NoClean /\ call = NoCall
    /\ leaked = FALSE /\ escaped = FALSE

-----------------------------------------------------------------------------
(* External: the engine during one poll.  A late create appears or waits   *)
(* on, until it can no longer come; a late removal may be applied.         *)
Grown(b) ==
    IF b.create = 0 THEN {b}
    ELSE {[b EXCEPT !.ctr = "created", !.create = 0], [b EXCEPT !.create = @ - 1]}
Shrunk(b) ==
    IF b.rm THEN {b, [b EXCEPT !.ctr = Gone, !.rm = FALSE]} ELSE {b}
Later(b) == UNION {Shrunk(x) : x \in Grown(b)}

\* External: what a killed create, start or rm -f may have done and may still do
CutCreate(b) == {b, [b EXCEPT !.ctr = "created"], [b EXCEPT !.create = LateTicks]}
CutStart(b) == {b, [b EXCEPT !.ctr = "running"]}
CutRemove(b) == {b, [b EXCEPT !.ctr = Gone], [b EXCEPT !.rm = TRUE]}

\* External: State.Running of a killed container
Flipped(b) ==
    IF b.ctr # "dying" THEN {b}
    ELSE {[b EXCEPT !.ctr = "exited", !.lag = 0]}
         \cup (IF b.lag > 1 THEN {[b EXCEPT !.lag = @ - 1]} ELSE {})
Running(b) == b.ctr \in {"running", "dying"}

-----------------------------------------------------------------------------
\* open_session and start: the directories, then docker create
OpenSession ==
    /\ phase = "none" /\ phase' = "creating"
    /\ UNCHANGED <<box, clean, call, leaked, escaped>>

\* remove_container_best_effort: the whole sequence runs, shielded from its caller
BeginCleanup == clean' = [NoClean EXCEPT !.n = 1, !.left = Ceiling] /\ phase' = "rm"

\* The container, a refusal, or no client process: nothing has reached the engine then
CreateAnswered ==
    /\ phase = "creating"
    /\ \/ box' = [box EXCEPT !.ctr = "created"] /\ phase' = "starting"
       \/ UNCHANGED box /\ phase' = "over"
    /\ UNCHANGED <<clean, call, leaked, escaped>>

\* The ceiling of the verb, or a cancellation: the client is killed
CreateCut ==
    /\ phase = "creating"
    /\ \E b \in CutCreate(box) : box' = b
    /\ BeginCleanup /\ UNCHANGED <<call, leaked, escaped>>

StartAnswered ==
    /\ phase = "starting"
    /\ box' = [box EXCEPT !.ctr = "running"] /\ phase' = "open"
    /\ UNCHANGED <<clean, call, leaked, escaped>>
StartRefused ==
    /\ phase = "starting"
    /\ BeginCleanup /\ UNCHANGED <<box, call, leaked, escaped>>
StartCut ==
    /\ phase = "starting"
    /\ \E b \in CutStart(box) : box' = b
    /\ BeginCleanup /\ UNCHANGED <<call, leaked, escaped>>

(* No client process for docker start: the engine's binary is gone (a      *)
(* health error, raised again) or the host refuses (an OSError, caught     *)
(* nowhere in start).  The created container is neither removed nor named. *)
StartUnspawned ==
    /\ phase = "starting"
    /\ escaped' = TRUE /\ phase' = "over"
    /\ UNCHANGED <<box, clean, call, leaked>>

-----------------------------------------------------------------------------
(* rm -f of the cleanup.  Only an answered removal may be repeated, once,  *)
(* on a container that is there afterwards.                                *)
RemoveAnswered ==
    /\ phase = "rm" /\ clean.left > 0
    /\ \E b \in Later(box), underway \in BOOLEAN :
          /\ underway => b.ctr # Gone
          /\ box' \in IF underway THEN {[b EXCEPT !.rm = TRUE]} ELSE {[b EXCEPT !.ctr = Gone], b}
          /\ clean' = [clean EXCEPT !.left = @ - 1, !.absent = -1, !.last = "unknown",
                                    !.stop = ~underway /\ clean.n < 2]
    /\ phase' = "confirm" /\ UNCHANGED <<call, leaked, escaped>>

\* No answer: at once, or after using up all but the window
RemoveCut ==
    /\ phase = "rm" /\ clean.left > 0
    /\ \E b \in Later(box) : box' \in CutRemove(b)
    /\ \E left \in {clean.left - 1, IF clean.left > Window THEN Window ELSE clean.left - 1} :
          clean' = [clean EXCEPT !.left = left, !.absent = -1, !.last = "unknown", !.stop = FALSE]
    /\ phase' = "confirm" /\ UNCHANGED <<call, leaked, escaped>>

\* Fault: the first answer "no such container" settles it
FirstAbsence(absent) == absent >= 0

\* _confirm_absent: absent for the whole window
Confirmed(absent) == absent >= Window

PollAbsent ==
    /\ phase = "confirm" /\ clean.left > 0
    /\ \E b \in Later(box) : b.ctr = Gone /\ box' = b
    /\ LET absent == clean.absent + 1
       IN  IF Confirmed(absent)
           THEN phase' = "over" /\ clean' = NoClean
           ELSE phase' = "confirm" /\ clean' = [clean EXCEPT !.left = @ - 1, !.absent = absent]
    /\ UNCHANGED <<call, leaked, escaped>>

PollPresent ==
    /\ phase = "confirm" /\ clean.left > 0
    /\ \E b \in Later(box) : b.ctr # Gone /\ box' = b
    /\ clean' = [clean EXCEPT !.left = @ - 1, !.absent = -1, !.last = "present",
                              !.n = IF clean.stop THEN 2 ELSE @]
    /\ phase' = IF clean.stop THEN "rm" ELSE "confirm"
    /\ UNCHANGED <<call, leaked, escaped>>

PollFails ==
    /\ phase = "confirm" /\ clean.left > 0
    /\ \E b \in Later(box) : box' = b
    /\ clean' = [clean EXCEPT !.left = @ - 1, !.absent = -1]
    /\ UNCHANGED <<phase, call, leaked, escaped>>

\* The ceiling: whatever is known, the warning is logged
GiveUp ==
    /\ phase \in {"rm", "confirm"} /\ clean.left = 0
    /\ leaked' = TRUE /\ phase' = "over" /\ clean' = NoClean
    /\ UNCHANGED <<box, call, escaped>>

\* An OSError of a verb: the sequence handles only sandbox errors and ends unlogged
CleanupUnspawned ==
    /\ phase \in {"rm", "confirm"} /\ clean.left > 0
    /\ escaped' = TRUE /\ phase' = "over" /\ clean' = NoClean
    /\ UNCHANGED <<box, call, leaked>>

-----------------------------------------------------------------------------
\* close_session: destroy trusts the answer of rm -f
CloseSession ==
    /\ phase = "open" /\ phase' = "destroying"
    /\ UNCHANGED <<box, clean, call, leaked, escaped>>
Destroyed ==
    /\ phase = "destroying"
    /\ box' = [box EXCEPT !.ctr = Gone] /\ phase' = "over"
    /\ UNCHANGED <<clean, call, leaked, escaped>>
\* An error of destroy, an OSError included, is logged
DestroyFails ==
    /\ phase = "destroying"
    /\ box' \in CutRemove(box)
    /\ leaked' = TRUE /\ phase' = "over"
    /\ UNCHANGED <<clean, call, escaped>>
DestroyCancelled ==
    /\ phase = "destroying"
    /\ box' \in CutRemove(box)
    /\ BeginCleanup /\ UNCHANGED <<call, leaked, escaped>>

-----------------------------------------------------------------------------
\* shell.execute or python.execute; neither is retried
Exec ==
    /\ phase = "open" /\ call.execs < MaxExecs
    /\ phase' = "exec"
    /\ call' = [NoCall EXCEPT !.execs = call.execs + 1]
    /\ UNCHANGED <<box, clean, leaked, escaped>>

\* External: the container is killed (by its memory limit, an operator, the host)
ContainerDies ==
    /\ phase \in {"open", "exec"} /\ box.ctr = "running"
    /\ box' = [box EXCEPT !.ctr = "dying", !.lag = FlipTicks]
    /\ call' = [call EXCEPT !.killed = (phase = "exec")]
    /\ UNCHANGED <<phase, clean, leaked, escaped>>

Report(r) == phase' = "open" /\ call' = [call EXCEPT !.report = r]

(* The client returns.  A command whose container is gone ends with a      *)
(* signal, the client's refusal, or an error of the engine.  "noclient":   *)
(* the engine's binary is gone (a health error), no command has run.       *)
Codes == {"engine", "noclient"}
         \cup IF box.ctr = "running" THEN {"ok", "timeout", "plain", "signal"} ELSE {"signal", "refused"}

ExecReturns(c) ==
    /\ phase = "exec" /\ c \in Codes
    /\ CASE c = "ok"       -> phase' = "open" /\ call' = [call EXCEPT !.code = c, !.report = "ok"]
         [] c = "timeout"  -> phase' = "open" /\ call' = [call EXCEPT !.code = c, !.report = "failed"]
         [] c = "engine"   -> phase' = "failed" /\ call' = [call EXCEPT !.code = c]
         [] c = "noclient" -> phase' = "failed" /\ call' = [call EXCEPT !.code = c, !.killed = FALSE]
         [] OTHER          -> phase' = "check" /\ call' = [call EXCEPT !.code = c]
    /\ UNCHANGED <<box, clean, leaked, escaped>>

\* An OSError instead of a client: no command has run, the broker reports a plain failure
ExecUnspawned ==
    /\ phase = "exec"
    /\ phase' = "open" /\ call' = [call EXCEPT !.killed = FALSE, !.report = "failed"]
    /\ UNCHANGED <<box, clean, leaked, escaped>>

\* Fault: only a signal is taken for a possible death
SignalOnly(code) == code = "signal"

\* exit_is_consistent_with_container_death
ConsistentWithDeath(code) == code \in {"signal", "refused"}

\* is_running answers "no" for a container that does not run and when the engine refuses to say
CheckNo ==
    /\ phase \in {"check", "recheck", "failed", "second"}
    /\ \E b \in Flipped(box) : box' = b
    /\ Report("unknown") /\ UNCHANGED <<clean, leaked, escaped>>

\* "yes": a plain failure, or a second look while the state may be stale
CheckYes ==
    /\ phase = "check" /\ Running(box)
    /\ IF ConsistentWithDeath(call.code) /\ Recheck > 0
       THEN phase' = "recheck" /\ call' = [call EXCEPT !.polls = 0]
       ELSE Report("failed")
    /\ UNCHANGED <<box, clean, leaked, escaped>>

\* _await_container_death, after an exit code or after an error of the engine
RecheckYes ==
    /\ phase \in {"recheck", "second"}
    /\ \E b \in Flipped(box) : Running(b) /\ box' = b
    /\ IF call.polls + 1 >= Recheck THEN Report("failed")
       ELSE call' = [call EXCEPT !.polls = @ + 1] /\ UNCHANGED phase
    /\ UNCHANGED <<clean, leaked, escaped>>

\* A probe of the broker fails: it falls to the handler of engine errors
CheckFails ==
    /\ phase \in {"check", "recheck"}
    /\ \E b \in Flipped(box) : box' = b
    /\ phase' = "failed" /\ call' = [call EXCEPT !.blind = TRUE]
    /\ UNCHANGED <<clean, leaked, escaped>>

\* No client for a probe of the broker (an OSError): reported as a plain failure
CheckUnspawned ==
    /\ phase \in {"check", "recheck"}
    /\ \E b \in Flipped(box) : box' = b
    /\ phase' = "open" /\ call' = [call EXCEPT !.blind = TRUE, !.report = "failed"]
    /\ UNCHANGED <<clean, leaked, escaped>>

\* A health error of the command is exempt from the second look
FailedYes ==
    /\ phase = "failed" /\ Running(box)
    /\ IF Recheck > 0 /\ call.code # "noclient" THEN phase' = "second" /\ call' = [call EXCEPT !.polls = 0] ELSE Report("failed")
    /\ UNCHANGED <<box, clean, leaked, escaped>>

\* In the handler a failing probe proves nothing
FailedFails ==
    /\ phase \in {"failed", "second"}
    /\ \E b \in Flipped(box) : box' = b
    /\ phase' = "open" /\ call' = [call EXCEPT !.blind = TRUE, !.report = "failed"]
    /\ UNCHANGED <<clean, leaked, escaped>>

\* The session is cancelled during a command: its finally closes the container
ExecCancelled ==
    /\ phase \in {"exec", "check", "recheck", "failed", "second"}
    /\ phase' = "destroying"
    /\ UNCHANGED <<box, clean, call, leaked, escaped>>

SandboxNext ==
    \/ OpenSession \/ CreateAnswered \/ CreateCut \/ StartAnswered \/ StartRefused \/ StartCut
    \/ StartUnspawned \/ CleanupUnspawned \/ ExecUnspawned \/ CheckUnspawned
    \/ RemoveAnswered \/ RemoveCut \/ PollAbsent \/ PollPresent \/ PollFails \/ GiveUp
    \/ CloseSession \/ Destroyed \/ DestroyFails \/ DestroyCancelled
    \/ Exec \/ ContainerDies \/ \E c \in Codes : ExecReturns(c)
    \/ CheckNo \/ CheckYes \/ RecheckYes \/ CheckFails \/ FailedYes \/ FailedFails \/ ExecCancelled

SandboxSpec == SandboxInit /\ [][SandboxNext]_sandboxVars

-----------------------------------------------------------------------------
(* A session that is over without a LEAKED warning left no container and   *)
(* none will appear, wherever its verbs were cut and whatever the engine   *)
(* did afterwards, unless the host could not start a client process.       *)
NoSilentLeak == phase = "over" /\ ~leaked /\ ~escaped => box.ctr = Gone /\ box.create = 0

(* A command whose container was killed under it is reported as a result   *)
(* nobody knows, not as its failure, unless a probe of the engine failed.  *)
UnknownWhenDead == call.killed /\ call.report = "failed" => call.blind

-----------------------------------------------------------------------------
\* What the documentation says and the code does not keep: README, section 6.

(* Every exit from start after the name went to the engine ends with a     *)
(* bounded cleanup or its warning (packages/sandbox/runtime.py:556-560).   *)
EveryLeakNamed == phase = "over" /\ ~leaked => box.ctr = Gone /\ box.create = 0
=============================================================================
