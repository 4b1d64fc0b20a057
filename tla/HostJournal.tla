---------------------------- MODULE HostJournal -----------------------------
(***************************************************************************)
(* The host's file journal (hostctl/): the probe of resume-runtime, with   *)
(* the transition records, their events and the head that names the        *)
(* unresolved one (journal.py, resume.py, admission.py), and the change of *)
(* the recovery policy, with its own head (policy_change.py).              *)
(*                                                                         *)
(* Every write of a file is one step (fsync_write_atomic replaces the file *)
(* or leaves it), and a process may die between any two of them.           *)
(***************************************************************************)
EXTENDS Integers, Sequences, FiniteSets

CONSTANTS
    Attempts,      \* attempt ids; each is used for one transition
    Policies,      \* hashes of the policies an operator may install
    NodeFaults,    \* what fails on the node: the database, the configuration head
    MaxHostEvents, \* bound: event files of an attempt
    MaxFaults      \* bound: deaths of a process and changes of the node

ASSUME HostAssumption ==
    /\ IsFiniteSet(Attempts) /\ "none" \notin Attempts
    /\ IsFiniteSet(Policies) /\ "baseline" \notin Policies
    /\ NodeFaults \subseteq {"db", "config"}
    /\ MaxHostEvents \in Nat \ {0} /\ MaxFaults \in Nat

VARIABLES
    records,  \* host-transitions/<attempt>.json
    trail,    \* trail[a]: the outcomes of host-transition-events/<attempt>/
    head,     \* host-transition-head.json: an attempt or none
    alerts,   \* the event files that have their ALERT_RAISED row
    probe,    \* the process of resume-runtime
    node,     \* the database answers; its configuration head is sound
    policy,   \* the policy head, the override file, and what the last closing event declares
    change,   \* the process of install- or resolve-host-policy
    faults    \* faults so far

journalFiles == <<records, trail, head>>
hostVars == <<records, trail, head, alerts, probe, node, policy, change, faults>>

NoFile == "none"
Unwritten == [st |-> NoFile, last |-> 0, replayed |-> 0]
IdleProbe == [pc |-> "idle", id |-> NoFile, out |-> NoFile, copy |-> Unwritten]
IdleChange == [pc |-> "idle", hash |-> "baseline"]

HostInit ==
    /\ records = [a \in Attempts |-> Unwritten] /\ trail = [a \in Attempts |-> <<>>]
    /\ head = NoFile /\ alerts = {}
    /\ probe = IdleProbe /\ change = IdleChange
    /\ node = [db |-> TRUE, config |-> TRUE]
    /\ policy = [head |-> FALSE, override |-> "baseline", declared |-> "baseline"]
    /\ faults = 0

-----------------------------------------------------------------------------
Unresolved == {a \in Attempts : records[a].st \in {"retry_wait", "resume_blocked"}}

\* _replay_complete: the events are numbered without a gap by construction
ReplayComplete(a) == trail[a] # <<>> /\ records[a].replayed >= records[a].last

(* reconcile's verdict.  The identity header is stored with the head and   *)
(* compared with the record's constant fields, so it cannot differ.        *)
Problem ==
    CASE head # NoFile /\ records[head].st = NoFile -> "head_points_to_missing_record"
      [] Cardinality(Unresolved) > 1 -> "multiple_unresolved_transitions"
      [] head # NoFile /\ records[head].st = "resolved" /\ ~ReplayComplete(head)
           -> "head_on_resolved_record_incomplete_replay"
      [] OTHER -> NoFile

(* The head that reconcile leaves: rebuilt for the only unresolved record, *)
(* removed when its record is resolved.                                    *)
ReconciledHead ==
    CASE Problem # NoFile -> head
      [] head # NoFile -> IF records[head].st = "resolved" THEN NoFile ELSE head
      [] Unresolved = {} -> NoFile
      [] OTHER -> CHOOSE a \in Unresolved : TRUE

-----------------------------------------------------------------------------
\* run_resume_probe: reconcile, then the head's attempt or a new one
ProbeBegin ==
    /\ probe.pc = "idle"
    /\ LET h == ReconciledHead
           unused == {a \in Attempts : records[a].st = NoFile}
       IN  \E a \in IF h # NoFile THEN {h} ELSE unused :
              /\ head' = h
              /\ probe' = [pc |-> "admission", id |-> a, out |-> NoFile, copy |-> records[a]]
    /\ UNCHANGED <<records, trail, alerts, node, policy, change, faults>>

(* admission_check's problems.  The marker of the offline procedure is     *)
(* written by nothing and a policy file is always one that was validated.  *)
Problems(h) ==
    (IF node.config THEN {} ELSE {"config_head"})
      \cup (IF Problem # NoFile THEN {Problem} ELSE IF h # NoFile THEN {"unresolved_host_transition"} ELSE {})
      \cup (IF policy.head THEN {"host_policy_change_in_progress"} ELSE {})

PermanentClasses ==
    {"config_head", "multiple_unresolved_transitions", "head_points_to_missing_record",
     "host_policy_change_in_progress"}

\* classify: an error class is always there, so resume_degraded is not reached
Classify(problems) ==
    CASE problems = {} -> "resolved"
      [] problems \cap PermanentClasses # {} -> "resume_blocked"
      [] OTHER -> "retry_wait"

\* The database is asked first: when it is down nothing else is looked at
ProbeAdmission ==
    /\ probe.pc = "admission"
    /\ head' = IF node.db THEN ReconciledHead ELSE head
    /\ probe' = [probe EXCEPT !.pc = "record",
                              !.out = IF node.db THEN Classify(Problems(ReconciledHead)) ELSE "retry_wait"]
    /\ UNCHANGED <<records, trail, alerts, node, policy, change, faults>>

\* Fault: the head is published with the record still to be written
RecordAfterHead ==
    /\ probe.pc = "record"
    /\ head' = probe.id
    /\ probe' = [probe EXCEPT !.pc = "event", !.copy.st = probe.out]
    /\ UNCHANGED <<records, trail, alerts, node, policy, change, faults>>

ProbeRecord ==
    /\ probe.pc = "record"
    /\ LET r == [probe.copy EXCEPT !.st = probe.out]
       IN  /\ records' = [records EXCEPT ![probe.id] = r]
           /\ probe' = [probe EXCEPT !.pc = "event", !.copy = r]
    /\ UNCHANGED <<trail, head, alerts, node, policy, change, faults>>

Capped(n) == IF n > MaxHostEvents THEN MaxHostEvents ELSE n

(* write_event: the number follows the record's last_event_seq, so after a *)
(* death before the second write of the record the file is replaced.       *)
ProbeEvent ==
    /\ probe.pc = "event"
    /\ LET seq == Capped(probe.copy.last + 1)
       IN  /\ trail' = [trail EXCEPT ![probe.id] = SubSeq(@, 1, seq - 1) \o <<probe.out>>]
           /\ probe' = [probe EXCEPT !.pc = "replayed", !.copy.last = seq, !.copy.replayed = seq]
    /\ UNCHANGED <<records, head, alerts, node, policy, change, faults>>

ProbeReplayed ==
    /\ probe.pc = "replayed"
    /\ records' = [records EXCEPT ![probe.id] = probe.copy]
    /\ probe' = [probe EXCEPT !.pc = "head"]
    /\ UNCHANGED <<trail, head, alerts, node, policy, change, faults>>

\* The head is written if there is none, for a resolved record too
ProbeHead ==
    /\ probe.pc = "head"
    /\ head' = IF head = NoFile THEN probe.id ELSE head
    /\ probe' = IF probe.out = "resume_blocked" THEN [probe EXCEPT !.pc = "alert"] ELSE IdleProbe
    /\ UNCHANGED <<records, trail, alerts, node, policy, change, faults>>

\* replay_audit_events, after a blocked probe only
ProbeAlert ==
    /\ probe.pc = "alert"
    /\ alerts' = IF node.db
                 THEN alerts \cup {<<probe.id, n>> : n \in {i \in DOMAIN trail[probe.id] :
                                                              trail[probe.id][i] = "resume_blocked"}}
                 ELSE alerts
    /\ probe' = IdleProbe
    /\ UNCHANGED <<journalFiles, node, policy, change, faults>>

Probe ==
    \/ ProbeBegin \/ ProbeAdmission \/ ProbeRecord \/ ProbeEvent \/ ProbeReplayed \/ ProbeHead \/ ProbeAlert

-----------------------------------------------------------------------------
\* What the steps of a policy change leave alone
OutsideChange == UNCHANGED <<journalFiles, alerts, probe, node, faults>>

\* install_policy up to the prepared event, which nothing reads without the head
InstallPrepare(h) ==
    /\ change.pc = "idle" /\ ~policy.head /\ policy.override # h
    /\ change' = [pc |-> "install_head", hash |-> h]
    /\ UNCHANGED policy /\ OutsideChange

\* Fault: the override is replaced before the head is there
InstallHeadLate ==
    /\ change.pc = "install_head"
    /\ policy' = [policy EXCEPT !.override = change.hash]
    /\ change' = [change EXCEPT !.pc = "override"]
    /\ OutsideChange

InstallHead ==
    /\ change.pc = "install_head"
    /\ policy' = [policy EXCEPT !.head = TRUE]
    /\ change' = [change EXCEPT !.pc = "override"]
    /\ OutsideChange

\* resolve_policy --accept-current needs an override file; its event closes the change
AcceptCurrent ==
    /\ change.pc = "idle" /\ policy.head /\ policy.override # "baseline"
    /\ policy' = [policy EXCEPT !.declared = policy.override]
    /\ change' = [pc |-> "unhead", hash |-> policy.override]
    /\ OutsideChange

\* resolve_policy --file: the resolution_prepared event changes nothing here
ReplacePrepare(h) ==
    /\ change.pc = "idle" /\ policy.head
    /\ change' = [pc |-> "override", hash |-> h]
    /\ UNCHANGED policy /\ OutsideChange

WriteOverride ==
    /\ change.pc = "override"
    /\ policy' = [policy EXCEPT !.override = change.hash]
    /\ change' = [change EXCEPT !.pc = "close"]
    /\ OutsideChange

\* The committed or the resolved event
CloseChange ==
    /\ change.pc = "close"
    /\ policy' = [policy EXCEPT !.declared = change.hash]
    /\ change' = [change EXCEPT !.pc = "unhead"]
    /\ OutsideChange

RemovePolicyHead ==
    /\ change.pc = "unhead"
    /\ policy' = [policy EXCEPT !.head = FALSE]
    /\ change' = IdleChange
    /\ OutsideChange

ChangePolicy ==
    \/ \E h \in Policies : InstallPrepare(h) \/ ReplacePrepare(h)
    \/ InstallHead \/ AcceptCurrent \/ WriteOverride \/ CloseChange \/ RemovePolicyHead

-----------------------------------------------------------------------------
Fault == faults < MaxFaults /\ faults' = faults + 1

ProbeDies ==
    /\ Fault /\ probe.pc # "idle" /\ probe' = IdleProbe
    /\ UNCHANGED <<journalFiles, alerts, node, policy, change>>
ChangeDies ==
    /\ Fault /\ change.pc # "idle" /\ change' = IdleChange
    /\ UNCHANGED <<journalFiles, alerts, probe, node, policy>>
NodeChanges(f) ==
    /\ Fault /\ node' = [node EXCEPT ![f] = ~@]
    /\ UNCHANGED <<journalFiles, alerts, probe, policy, change>>

HostNext ==
    \/ Probe \/ ChangePolicy \/ ProbeDies \/ ChangeDies
    \/ \E f \in NodeFaults : NodeChanges(f)

HostSpec == HostInit /\ [][HostNext]_hostVars

(* The retry timer starts a probe every 30 s and a probe that is not       *)
(* killed goes on; a started change of the policy is finished as well.     *)
HostFairSpec == HostSpec /\ WF_hostVars(Probe) /\ WF_hostVars(ChangePolicy /\ change.pc # "idle")

-----------------------------------------------------------------------------
(* Whatever write of a probe or of a policy change was the last one before *)
(* a death, the next reconcile finds a journal it can go on from: no head  *)
(* without its record, never two unresolved transitions, no resolved head  *)
(* whose events are not replayed.                                          *)
JournalConsistent == Problem = NoFile

(* No policy file is in force that no closing event declared, unless the   *)
(* policy head is there and every admission refuses: a change that died    *)
(* halfway is never taken for a finished one.                              *)
PolicyChangeVisible == policy.head \/ policy.override = policy.declared

Healthy == node.db /\ node.config /\ ~policy.head

(* A transition that waits for a retry is resolved by a later probe once   *)
(* the node is healthy for good (hostctl/resume.py:10-12: a database       *)
(* outage resolves on its own).                                            *)
OutageResolves ==
    <>[]Healthy => \A a \in Attempts : (records[a].st = "retry_wait") ~> (records[a].st = "resolved")
=============================================================================
