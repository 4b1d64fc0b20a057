------------------------- MODULE HostServicesProofs -------------------------
(***************************************************************************)
(* Proofs about the four services beside the sessions, which share no      *)
(* state: the host's journal, the artifact storage, a session's sandbox    *)
(* and its calls of the model.  Each part has the invariant of one         *)
(* service, with the reason why its properties alone are not inductive.    *)
(***************************************************************************)
EXTENDS HostJournal, Storage, Sandbox, Gateway, FiniteSetTheorems, TLAPS

-----------------------------------------------------------------------------
(* The host policy.  A policy change that died halfway is visible, for any *)
(* set of policies and any number of deaths.  The property is not          *)
(* inductive: it has to be known which of the four files each step of a    *)
(* change may rely on.                                                     *)

\* The files behind each step of install_policy and resolve_policy
ChangeShape ==
    /\ change.pc \in {"override", "close"} => policy.head
    /\ change.pc = "close" => policy.override = change.hash
    /\ change.pc = "unhead" => policy.override = policy.declared

PolicyTypeOK ==
    /\ policy \in [head : BOOLEAN, override : Policies \cup {"baseline"}, declared : Policies \cup {"baseline"}]
    /\ change \in [pc : {"idle", "install_head", "override", "close", "unhead"}, hash : Policies \cup {"baseline"}]

PolicyInv == PolicyTypeOK /\ ChangeShape /\ PolicyChangeVisible

\* One step per write of a change; the probe and the node leave its files alone
LEMMA NextPolicyInv == PolicyInv /\ [HostNext]_hostVars => PolicyInv'
<1> SUFFICES ASSUME PolicyInv, [HostNext]_hostVars PROVE PolicyInv'
  OBVIOUS
<1> USE DEF PolicyInv, PolicyTypeOK, ChangeShape, PolicyChangeVisible
<1>1. CASE UNCHANGED <<policy, change>>
  BY <1>1
<1>2. ASSUME NEW h \in Policies, InstallPrepare(h) \/ ReplacePrepare(h) PROVE PolicyInv'
  BY <1>2 DEF InstallPrepare, ReplacePrepare
<1>3. CASE InstallHead
  BY <1>3 DEF InstallHead
<1>4. CASE AcceptCurrent
  BY <1>4 DEF AcceptCurrent
<1>5. CASE WriteOverride
  BY <1>5 DEF WriteOverride
<1>6. CASE CloseChange
  BY <1>6 DEF CloseChange
<1>7. CASE RemovePolicyHead
  BY <1>7 DEF RemovePolicyHead, IdleChange
<1>8. CASE ChangeDies
  BY <1>8 DEF ChangeDies, IdleChange
<1>9. CASE Probe \/ ProbeDies \/ (\E f \in NodeFaults : NodeChanges(f)) \/ UNCHANGED hostVars
  BY <1>1, <1>9 DEF Probe, ProbeBegin, ProbeAdmission, ProbeRecord, ProbeEvent, ProbeReplayed, ProbeHead,
                    ProbeAlert, ProbeDies, NodeChanges, hostVars
<1> QED
  BY <1>2, <1>3, <1>4, <1>5, <1>6, <1>7, <1>8, <1>9 DEF HostNext, ChangePolicy

(* No death between the writes of install_policy and resolve_policy leaves *)
(* a policy in force that neither a closing event declares nor the policy  *)
(* head announces.                                                         *)
THEOREM HalfChangeIsVisible == HostSpec => []PolicyChangeVisible
<1>1. HostInit => PolicyInv
  BY DEF HostInit, PolicyInv, PolicyTypeOK, ChangeShape, PolicyChangeVisible, IdleChange
<1>2. PolicyInv => PolicyChangeVisible
  BY DEF PolicyInv
<1> QED
  BY <1>1, <1>2, NextPolicyInv, PTL DEF HostSpec
-----------------------------------------------------------------------------
(* The journal.  A reconcile is asked only at the beginning of a probe and *)
(* at its admission check, but the probe may die after any write: what it  *)
(* leaves must be sound in between, and the next probe must not open a     *)
(* second transition beside an unresolved one.                             *)

Outcomes == {"resolved", "retry_wait", "resume_blocked"}
RecordFiles == [st : Outcomes \cup {NoFile}, last : 0 .. MaxHostEvents, replayed : 0 .. MaxHostEvents]
Probes == [pc : {"idle", "admission", "record", "event", "replayed", "head", "alert"},
           id : Attempts \cup {NoFile}, out : Outcomes \cup {NoFile}, copy : RecordFiles]

JournalTypeOK ==
    /\ records \in [Attempts -> RecordFiles] /\ trail \in [Attempts -> Seq(Outcomes)]
    /\ head \in Attempts \cup {NoFile} /\ probe \in Probes

\* Every record counts no more events than there are and has replayed all it counts
Numbered ==
    \A a \in Attempts : records[a].last <= Len(trail[a]) /\ records[a].replayed = records[a].last

\* The head and the unresolved transition are the same, as far as there are both
HeadSound ==
    /\ \A a, b \in Unresolved : a = b
    /\ head # NoFile =>
          /\ Unresolved \subseteq {head} /\ records[head].st # NoFile
          /\ records[head].st = "resolved" => trail[head] # <<>>

Working == {"admission", "record", "event", "replayed", "head"}

(* What a probe at work relies on: no transition but its own is            *)
(* unresolved, the head names its own or nothing, its copy is the record   *)
(* it will write, and it resolves only a transition without a head.        *)
ProbeSound ==
    /\ probe.pc \in Working =>
          /\ probe.id \in Attempts /\ Unresolved \subseteq {probe.id}
          /\ head \in {probe.id, NoFile}
          /\ probe.copy.replayed = probe.copy.last
          /\ probe.copy.last <= Len(trail[probe.id])
    /\ probe.pc \in {"admission", "record"} =>
          /\ probe.copy = records[probe.id]
          /\ IF head = NoFile THEN Unresolved = {} ELSE head \in Unresolved
    /\ probe.pc \in Working \ {"admission"} =>
          /\ probe.out \in Outcomes
          /\ probe.out = "resolved" => head = NoFile
    /\ probe.pc \in {"event", "replayed"} => probe.copy.st = probe.out
    /\ probe.pc \in {"event", "replayed", "head"} => records[probe.id].st = probe.out
    /\ probe.pc = "event" => records[probe.id].last = probe.copy.last
    /\ probe.pc \in {"replayed", "head"} => trail[probe.id] # <<>>

JournalInv == JournalTypeOK /\ Numbered /\ HeadSound /\ ProbeSound

\* A set with at most one element is counted at most once
LEMMA AtMostOne ==
  ASSUME NEW S, \A a, b \in S : a = b
  PROVE  ~(Cardinality(S) > 1)
<1>1. CASE S = {}
  BY <1>1, FS_EmptySet
<1>2. CASE S # {}
  <2>1. PICK a \in S : S = {a}
    BY <1>2
  <2>2. Cardinality({a}) = 1
    BY FS_Singleton
  <2> QED
    BY <2>1, <2>2
<1> QED
  BY <1>1, <1>2

\* reconcile finds nothing to object to
LEMMA SoundJournal == JournalInv => JournalConsistent
<1> SUFFICES ASSUME JournalInv PROVE Problem = NoFile
  BY DEF JournalConsistent
<1>1. ~(Cardinality(Unresolved) > 1)
  BY AtMostOne DEF JournalInv, HeadSound
<1>2. ~(head # NoFile /\ records[head].st = NoFile)
  BY DEF JournalInv, HeadSound
<1>3. ASSUME head # NoFile, records[head].st = "resolved" PROVE ReplayComplete(head)
  <2>1. head \in Attempts
    BY <1>3 DEF JournalInv, JournalTypeOK
  <2>2. records[head] \in RecordFiles
    BY <2>1 DEF JournalInv, JournalTypeOK
  <2>3. records[head].replayed >= records[head].last
    BY <2>1, <2>2, HostAssumption DEF JournalInv, Numbered, RecordFiles
  <2> QED
    BY <1>3, <2>3 DEF JournalInv, HeadSound, ReplayComplete
<1> QED
  BY <1>1, <1>2, <1>3 DEF Problem

\* The head after a reconcile is the unresolved transition if there is one
LEMMA Reconciled ==
  ASSUME JournalInv
  PROVE  IF ReconciledHead = NoFile THEN Unresolved = {}
         ELSE ReconciledHead \in Unresolved /\ Unresolved = {ReconciledHead}
<1>1. Problem = NoFile
  BY SoundJournal DEF JournalConsistent
<1>2. NoFile \notin Attempts
  BY HostAssumption DEF NoFile
<1>3. CASE head # NoFile
  <2>0. head \in Attempts
    BY <1>3 DEF JournalInv, JournalTypeOK
  <2>1. records[head].st \in Outcomes
    BY <1>3, <2>0 DEF JournalInv, JournalTypeOK, HeadSound, RecordFiles
  <2>3. CASE records[head].st = "resolved"
    <3>1. ReconciledHead = NoFile
      BY <1>1, <1>3, <2>3 DEF ReconciledHead
    <3> QED
      BY <1>3, <2>3, <3>1 DEF JournalInv, HeadSound, Unresolved
  <2>4. CASE records[head].st # "resolved"
    <3>0. head \in Unresolved
      BY <2>0, <2>1, <2>4 DEF Unresolved, Outcomes
    <3>1. ReconciledHead = head
      BY <1>1, <1>3, <2>4, <3>0 DEF ReconciledHead
    <3> QED
      BY <1>3, <3>0, <3>1 DEF JournalInv, HeadSound
  <2> QED
    BY <2>3, <2>4
<1>4. CASE head = NoFile
  <2>1. CASE Unresolved = {}
    BY <1>1, <1>4, <2>1 DEF ReconciledHead
  <2>2. CASE Unresolved # {}
    <3>1. ReconciledHead = CHOOSE a \in Unresolved : TRUE
      BY <1>1, <1>4, <2>2 DEF ReconciledHead
    <3>2. ReconciledHead \in Unresolved
      BY <2>2, <3>1
    <3>3. ReconciledHead # NoFile
      BY <1>2, <3>2 DEF Unresolved
    <3> QED
      BY <3>2, <3>3 DEF JournalInv, HeadSound
  <2> QED
    BY <2>1, <2>2
<1> QED
  BY <1>3, <1>4

\* A probe that has begun leaves the head alone in its admission check
LEMMA AdmissionKeepsHead ==
  ASSUME JournalInv, probe.pc = "admission"
  PROVE  ReconciledHead = head
<1>1. IF head = NoFile THEN Unresolved = {} ELSE head \in Unresolved
  BY DEF JournalInv, ProbeSound
<1> QED
  BY <1>1, Reconciled

\* A transition with a head is not resolved by its own admission check
LEMMA HeadNotResolved ==
  ASSUME NEW h
  PROVE  /\ Classify(Problems(h)) \in Outcomes
         /\ Problem = NoFile /\ Classify(Problems(h)) = "resolved" => h = NoFile
<1>1. Classify(Problems(h)) \in Outcomes
  BY DEF Classify, Outcomes
<1>2. ASSUME Problem = NoFile, h # NoFile PROVE Problems(h) # {}
  <2>1. "unresolved_host_transition" \in Problems(h)
    BY <1>2 DEF Problems
  <2> QED
    BY <2>1
<1>3. ASSUME Classify(Problems(h)) = "resolved" PROVE Problems(h) = {}
  BY <1>3 DEF Classify
<1> QED
  BY <1>1, <1>2, <1>3

\* One step per file a probe writes
LEMMA NextJournalInv == JournalInv /\ [HostNext]_hostVars => JournalInv'
<1> SUFFICES ASSUME JournalInv, [HostNext]_hostVars PROVE JournalInv'
  OBVIOUS
<1> USE DEF JournalInv
<1>n. NoFile \notin Attempts /\ NoFile \notin Outcomes
  BY HostAssumption DEF NoFile, Outcomes
<1>m. MaxHostEvents \in Nat
  BY HostAssumption
<1>t. IdleProbe \in Probes /\ IdleProbe.pc = "idle"
  BY <1>m DEF IdleProbe, Probes, RecordFiles, Unwritten
<1>1. CASE UNCHANGED <<journalFiles, probe>>
  BY <1>1 DEF journalFiles, JournalTypeOK, Numbered, HeadSound, ProbeSound, Unresolved
<1>2. CASE UNCHANGED journalFiles /\ probe' = IdleProbe
  <2>1. ProbeSound'
    BY <1>2, <1>t DEF ProbeSound, Working
  <2> QED
    BY <1>2, <1>t, <2>1 DEF journalFiles, JournalTypeOK, Numbered, HeadSound, Unresolved
<1>3. CASE ProbeBegin
  <2> DEFINE h == ReconciledHead
  <2>1. PICK a \in IF h # NoFile THEN {h} ELSE {x \in Attempts : records[x].st = NoFile} :
              probe' = [pc |-> "admission", id |-> a, out |-> NoFile, copy |-> records[a]]
    BY <1>3 DEF ProbeBegin
  <2>2. head' = h /\ UNCHANGED <<records, trail>> /\ Unresolved' = Unresolved
    BY <1>3 DEF ProbeBegin, Unresolved
  <2>3. IF h = NoFile THEN Unresolved = {} ELSE h \in Unresolved /\ Unresolved = {h}
    BY Reconciled
  <2> HIDE DEF h
  <2>4. a \in Attempts /\ Unresolved \subseteq {a} /\ h \in {a, NoFile}
    BY <2>1, <2>3 DEF Unresolved
  <2>5. records[a] \in RecordFiles
    BY <2>4 DEF JournalTypeOK
  <2>6. JournalTypeOK'
    BY <2>1, <2>2, <2>4, <2>5 DEF JournalTypeOK, Probes
  <2>7. Numbered'
    BY <2>2 DEF Numbered
  <2>8. HeadSound'
    BY <2>2, <2>3 DEF HeadSound, Unresolved, NoFile
  <2>9. ProbeSound'
    BY <2>1, <2>2, <2>3, <2>4 DEF ProbeSound, Working, Numbered
  <2> QED
    BY <2>6, <2>7, <2>8, <2>9
<1>4. CASE ProbeAdmission
  <2>1. probe.pc = "admission" /\ UNCHANGED <<records, trail>> /\ Unresolved' = Unresolved
    BY <1>4 DEF ProbeAdmission, Unresolved
  <2>2. ReconciledHead = head
    BY <2>1, AdmissionKeepsHead
  <2>3. head' = head
    BY <1>4, <2>2 DEF ProbeAdmission
  <2>4. PICK o \in Outcomes : /\ probe' = [[probe EXCEPT !.pc = "record"] EXCEPT !.out = o]
                              /\ o = "resolved" => head = NoFile
    <3>1. Problem = NoFile
      BY SoundJournal DEF JournalConsistent
    <3>2. CASE node.db
      BY <1>4, <2>2, <3>1, <3>2, HeadNotResolved DEF ProbeAdmission
    <3>3. CASE ~node.db
      BY <1>4, <3>3 DEF ProbeAdmission, Outcomes
    <3> QED
      BY <3>2, <3>3
  <2>5. /\ probe' \in Probes /\ probe'.pc = "record" /\ probe'.out = o
        /\ probe'.id = probe.id /\ probe'.copy = probe.copy
    BY <2>4 DEF JournalTypeOK, Probes
  <2>6. JournalTypeOK' /\ Numbered' /\ HeadSound'
    BY <2>1, <2>3, <2>5 DEF JournalTypeOK, Numbered, HeadSound
  <2>7. ProbeSound'
    BY <2>1, <2>3, <2>4, <2>5 DEF ProbeSound, Working
  <2> QED
    BY <2>6, <2>7
<1>5. CASE ProbeRecord
  <2>1. /\ probe.pc = "record" /\ probe.id \in Attempts /\ Unresolved \subseteq {probe.id}
        /\ head \in {probe.id, NoFile} /\ probe.copy = records[probe.id]
        /\ probe.out \in Outcomes /\ (probe.out = "resolved" => head = NoFile)
    BY <1>5 DEF ProbeRecord, ProbeSound, Working
  <2> DEFINE r == [probe.copy EXCEPT !.st = probe.out]
  <2>2. records' = [records EXCEPT ![probe.id] = r] /\ UNCHANGED <<trail, head>>
    BY <1>5 DEF ProbeRecord
  <2>3. probe' = [[probe EXCEPT !.pc = "event"] EXCEPT !.copy = r]
    BY <1>5 DEF ProbeRecord
  <2>4. r \in RecordFiles /\ r.st = probe.out /\ r.last = probe.copy.last /\ r.replayed = probe.copy.replayed
    BY <2>1 DEF JournalTypeOK, Probes, RecordFiles
  <2> HIDE DEF r
  <2>5. /\ probe' \in Probes /\ probe'.pc = "event" /\ probe'.out = probe.out
        /\ probe'.id = probe.id /\ probe'.copy = r
    BY <2>3, <2>4 DEF JournalTypeOK, Probes
  <2>6. JournalTypeOK'
    BY <2>2, <2>4, <2>5 DEF JournalTypeOK
  <2>7. records'[probe.id] = r /\ \A a \in Attempts \ {probe.id} : records'[a] = records[a]
    BY <2>1, <2>2 DEF JournalTypeOK
  <2>8. Unresolved' \subseteq {probe.id}
    BY <2>1, <2>7 DEF Unresolved
  <2>9. Numbered'
    BY <2>1, <2>2, <2>4, <2>7 DEF Numbered
  <2>10. HeadSound'
    BY <2>1, <2>2, <2>4, <2>7, <2>8, <1>n DEF HeadSound
  <2>11. ProbeSound'
    BY <2>1, <2>2, <2>4, <2>5, <2>7, <2>8 DEF ProbeSound, Working
  <2> QED
    BY <2>6, <2>9, <2>10, <2>11
<1>6. CASE ProbeEvent
  <2>1. probe.pc = "event" /\ UNCHANGED <<records, head>> /\ Unresolved' = Unresolved
    BY <1>6 DEF ProbeEvent, Unresolved
  <2>2. probe.id \in Attempts /\ probe.copy \in RecordFiles /\ probe.out \in Outcomes
    BY <2>1 DEF ProbeSound, Working, JournalTypeOK, Probes
  <2> DEFINE seq == Capped(probe.copy.last + 1)
             t == trail[probe.id]
             u == SubSeq(t, 1, seq - 1) \o <<probe.out>>
  <2>3. probe.copy.last \in 0 .. MaxHostEvents /\ probe.copy.last <= Len(t) /\ t \in Seq(Outcomes)
    BY <2>1, <2>2 DEF ProbeSound, Working, JournalTypeOK, RecordFiles
  <2>4. seq \in 1 .. MaxHostEvents /\ probe.copy.last <= seq /\ seq - 1 <= probe.copy.last
    BY <2>3, HostAssumption DEF Capped
  <2>5. trail' = [trail EXCEPT ![probe.id] = u]
    BY <1>6 DEF ProbeEvent
  <2>6. PICK c \in RecordFiles : /\ probe' = [[probe EXCEPT !.pc = "replayed"] EXCEPT !.copy = c]
                                 /\ c.st = probe.copy.st /\ c.last = seq /\ c.replayed = seq
    <3> DEFINE d == [[probe.copy EXCEPT !.last = seq] EXCEPT !.replayed = seq]
    <3>0. seq \in 0 .. MaxHostEvents
      BY <2>4, <1>m
    <3>1. d \in RecordFiles /\ d.st = probe.copy.st /\ d.last = seq /\ d.replayed = seq
      <4> HIDE DEF seq
      <4> QED
        BY <2>2, <3>0 DEF RecordFiles
    <3>2. probe' = [[probe EXCEPT !.pc = "replayed"] EXCEPT !.copy = d]
      BY <1>6, <2>2 DEF ProbeEvent, JournalTypeOK, Probes, RecordFiles
    <3> QED
      BY <3>1, <3>2
  <2> HIDE DEF seq
  <2>7. u \in Seq(Outcomes) /\ Len(u) = seq /\ u # <<>>
    <3>1. SubSeq(t, 1, seq - 1) \in Seq(Outcomes) /\ Len(SubSeq(t, 1, seq - 1)) = seq - 1
      BY <2>3, <2>4, <1>m
    <3>2. u \in Seq(Outcomes) /\ Len(u) = seq
      BY <2>2, <2>4, <3>1
    <3> QED
      BY <2>4, <3>2
  <2> HIDE DEF u
  <2>8. /\ probe' \in Probes /\ probe'.pc = "replayed" /\ probe'.out = probe.out
        /\ probe'.id = probe.id /\ probe'.copy = c
    BY <2>6 DEF JournalTypeOK, Probes
  <2>9. trail'[probe.id] = u /\ \A a \in Attempts \ {probe.id} : trail'[a] = trail[a]
    BY <2>2, <2>5 DEF JournalTypeOK
  <2>10. JournalTypeOK'
    BY <2>1, <2>5, <2>7, <2>8 DEF JournalTypeOK
  <2>11. Numbered'
    <3>1. records[probe.id].last <= seq
      BY <2>1, <2>4 DEF ProbeSound
    <3> QED
      BY <2>1, <2>7, <2>9, <3>1 DEF Numbered
  <2>12. HeadSound'
    BY <2>1, <2>2, <2>7, <2>9 DEF HeadSound, JournalTypeOK
  <2>13. ProbeSound'
    <3>1. c.last <= Len(trail'[probe.id]) /\ c.replayed = c.last
      BY <2>4, <2>6, <2>7, <2>9
    <3> QED
      BY <2>1, <2>2, <2>6, <2>7, <2>8, <2>9, <3>1 DEF ProbeSound, Working
  <2> QED
    BY <2>10, <2>11, <2>12, <2>13
<1>7. CASE ProbeReplayed
  <2>1. /\ probe.pc = "replayed" /\ probe.id \in Attempts /\ Unresolved \subseteq {probe.id}
        /\ head \in {probe.id, NoFile} /\ probe.copy \in RecordFiles
        /\ probe.out \in Outcomes /\ (probe.out = "resolved" => head = NoFile) /\ probe.copy.st = probe.out
        /\ probe.copy.last <= Len(trail[probe.id]) /\ probe.copy.replayed = probe.copy.last
        /\ trail[probe.id] # <<>>
    BY <1>7 DEF ProbeReplayed, ProbeSound, Working, JournalTypeOK, Probes
  <2>2. records' = [records EXCEPT ![probe.id] = probe.copy] /\ UNCHANGED <<trail, head>>
    BY <1>7 DEF ProbeReplayed
  <2>3. /\ probe' \in Probes /\ probe'.pc = "head" /\ probe'.out = probe.out
        /\ probe'.id = probe.id /\ probe'.copy = probe.copy
    BY <1>7 DEF ProbeReplayed, JournalTypeOK, Probes
  <2>4. records'[probe.id] = probe.copy /\ \A a \in Attempts \ {probe.id} : records'[a] = records[a]
    BY <2>1, <2>2 DEF JournalTypeOK
  <2>5. JournalTypeOK'
    BY <2>1, <2>2, <2>3 DEF JournalTypeOK
  <2>6. Unresolved' \subseteq {probe.id}
    BY <2>1, <2>4 DEF Unresolved
  <2>7. Numbered'
    BY <2>1, <2>2, <2>4 DEF Numbered
  <2>8. HeadSound'
    BY <2>1, <2>2, <2>4, <2>6, <1>n DEF HeadSound
  <2>9. ProbeSound'
    BY <2>1, <2>2, <2>3, <2>4, <2>6 DEF ProbeSound, Working
  <2> QED
    BY <2>5, <2>7, <2>8, <2>9
<1>8. CASE ProbeHead
  <2>1. /\ probe.pc = "head" /\ probe.id \in Attempts /\ Unresolved \subseteq {probe.id}
        /\ head \in {probe.id, NoFile} /\ records[probe.id].st \in Outcomes /\ trail[probe.id] # <<>>
    BY <1>8 DEF ProbeHead, ProbeSound, Working
  <2>2. head' = probe.id /\ UNCHANGED <<records, trail>> /\ Unresolved' = Unresolved
    BY <1>8, <2>1 DEF ProbeHead, Unresolved
  <2>3. probe' \in Probes /\ probe'.pc \in {"alert", "idle"}
    <3>1. CASE probe.out = "resume_blocked"
      BY <1>8, <3>1 DEF ProbeHead, JournalTypeOK, Probes
    <3>2. CASE probe.out # "resume_blocked"
      BY <1>8, <1>t, <3>2 DEF ProbeHead
    <3> QED
      BY <3>1, <3>2
  <2>4. JournalTypeOK' /\ Numbered'
    BY <2>1, <2>2, <2>3 DEF JournalTypeOK, Numbered
  <2>5. HeadSound'
    BY <2>1, <2>2, <1>n DEF HeadSound
  <2>6. ProbeSound'
    BY <2>3 DEF ProbeSound, Working
  <2> QED
    BY <2>4, <2>5, <2>6
<1>9. CASE ProbeAlert \/ ProbeDies
  BY <1>2, <1>9 DEF ProbeAlert, ProbeDies
<1>10. CASE ChangePolicy \/ ChangeDies \/ (\E f \in NodeFaults : NodeChanges(f)) \/ UNCHANGED hostVars
  BY <1>1, <1>10 DEF ChangePolicy, InstallPrepare, ReplacePrepare, InstallHead, AcceptCurrent, WriteOverride,
       CloseChange, RemovePolicyHead, OutsideChange, ChangeDies, NodeChanges, hostVars, journalFiles
<1> QED
  BY <1>3, <1>4, <1>5, <1>6, <1>7, <1>8, <1>9, <1>10 DEF HostNext, Probe

(* Whichever of its writes was the last before resume-runtime died, and    *)
(* however often it dies, the next reconcile finds one transition to go on *)
(* with and never stops for an operator.                                   *)
THEOREM JournalAlwaysConsistent == HostSpec => []JournalConsistent
<1>1. HostInit => JournalInv
  <2> SUFFICES ASSUME HostInit PROVE JournalInv
    OBVIOUS
  <2>1. Unwritten \in RecordFiles /\ Unwritten.st = NoFile /\ Unwritten.last = 0 /\ Unwritten.replayed = 0
    BY HostAssumption DEF Unwritten, RecordFiles
  <2>2. IdleProbe \in Probes /\ IdleProbe.pc = "idle"
    BY <2>1 DEF IdleProbe, Probes
  <2>3. JournalTypeOK
    BY <2>1, <2>2 DEF HostInit, JournalTypeOK
  <2>4. Unresolved = {}
    BY <2>1 DEF HostInit, Unresolved, NoFile
  <2>5. Numbered
    BY <2>1 DEF HostInit, Numbered
  <2>6. HeadSound /\ ProbeSound
    BY <2>2, <2>4 DEF HostInit, HeadSound, ProbeSound, Working
  <2> QED
    BY <2>3, <2>5, <2>6 DEF JournalInv
<1> QED
  BY <1>1, SoundJournal, NextJournalInv, PTL DEF HostSpec

-----------------------------------------------------------------------------
(* The storage.  That a sweep spares every root is not enough: files are   *)
(* deleted by content, and a backup may register an inventory between the  *)
(* plan of a sweep and its deletions.  What saves it is that an inventory  *)
(* is never swept, because its row and its manifest are one transaction    *)
(* and manifests stay.  Evidence that refers to a planned row was          *)
(* committed after the plan.                                               *)

IsInventory(c) == c[1] = "inventory"

Manifest(m) == m = [inv |-> m.inv, host |-> m.host, kept |-> m.kept, verified |-> m.verified]

\* Every registered inventory has its manifest
InventoriesOwned ==
    \A r \in rows : IsInventory(r[1]) => \E m \in manifests : m.inv = r

ManifestsSound ==
    \A m \in manifests : Manifest(m) /\ IsInventory(m.inv[1])

EvidenceSound ==
    \A e \in evidence : /\ e = [kind |-> e.kind, page |-> e.page, obs |-> e.obs, late |-> e.late]
                        /\ e.kind \in Kinds

\* Only evidence that came after the plan refers to a row the sweep will delete
LateOnes ==
    sweep.pc \in {"files", "rows"} => \A e \in evidence : e.obs \in sweep.plan => e.late

\* A running backup has its inventory's file, and no sweep is after an inventory
CommandsSound ==
    /\ backup.pc = "put" => IsInventory(backup.inv) /\ backup.inv \in blobs
    /\ sweep.pc = "files" => sweep = [pc |-> "files", plan |-> sweep.plan, left |-> sweep.left]
    /\ sweep.pc = "files" => sweep.left \subseteq sweep.plan
    /\ sweep.pc \in {"files", "rows"} => \A r \in sweep.plan : ~IsInventory(r[1])

StorageInv ==
    /\ expired \subseteq rows
    /\ InventoriesOwned /\ ManifestsSound /\ CommandsSound
    /\ EvidenceSound /\ LateOnes /\ RootsKept

\* EnsureRow registers the row that RowFor names, and no other
LEMMA Ensured ==
  ASSUME NEW c, EnsureRow(c)
  PROVE  /\ RowFor(c) \in rows' /\ RowFor(c)[1] = c
         /\ rows \subseteq rows'
         /\ \A r \in rows' : r \in rows \/ (r = RowFor(c) /\ r[1] = c)
<1>1. CASE RowsOf(c) = {}
  BY <1>1 DEF EnsureRow, RowFor, NewRow
<1>2. CASE RowsOf(c) # {}
  <2>1. RowFor(c) \in RowsOf(c)
    BY <1>2 DEF RowFor
  <2> QED
    BY <1>2, <2>1 DEF EnsureRow, RowsOf
<1> QED
  BY <1>1, <1>2

LEMMA Shapes == (\A p : ~IsInventory(Page(p)) /\ ~IsInventory(Obs(p))) /\ (\A s : IsInventory(Inventory(s)))
BY DEF IsInventory, Page, Obs, Inventory

\* An update of a manifest leaves its inventory
LEMMA UpdatedManifest ==
  ASSUME NEW m, Manifest(m), NEW z
  PROVE  /\ Manifest([m EXCEPT !.kept = z]) /\ [m EXCEPT !.kept = z].inv = m.inv
         /\ Manifest([m EXCEPT !.verified = z]) /\ [m EXCEPT !.verified = z].inv = m.inv
<1>1. PICK a, b, c, d : m = [inv |-> a, host |-> b, kept |-> c, verified |-> d]
  BY DEF Manifest
<1> DEFINE k == [m EXCEPT !.kept = z]
           v == [m EXCEPT !.verified = z]
<1>2. /\ k = [inv |-> a, host |-> b, kept |-> z, verified |-> d]
      /\ v = [inv |-> a, host |-> b, kept |-> c, verified |-> z]
  BY <1>1
<1> HIDE DEF k, v
<1>3. m.inv = a /\ Manifest(k) /\ k.inv = a /\ Manifest(v) /\ v.inv = a
  BY <1>1, <1>2 DEF Manifest
<1> QED
  BY <1>3 DEF k, v

\* A sweep goes on with less
LEMMA UpdatedSweep ==
  ASSUME NEW x, NEW z, x = [pc |-> "files", plan |-> x.plan, left |-> x.left]
  PROVE  [x EXCEPT !.left = z] = [pc |-> "files", plan |-> x.plan, left |-> z]
<1>1. PICK b, c : x = [pc |-> "files", plan |-> b, left |-> c]
  OBVIOUS
<1>2. [x EXCEPT !.left = z] = [pc |-> "files", plan |-> b, left |-> z] /\ x.plan = b
  BY <1>1
<1> QED
  BY <1>2

LEMMA NextStorageInv == StorageInv /\ [StorageNext]_storageVars => StorageInv'
<1> SUFFICES ASSUME StorageInv, [StorageNext]_storageVars PROVE StorageInv'
  OBVIOUS
<1> USE DEF StorageInv
<1>1. ASSUME UNCHANGED <<rows, expired, manifests, evidence>>, blobs \subseteq blobs', CommandsSound',
             LateOnes'
      PROVE  StorageInv'
  BY <1>1 DEF InventoriesOwned, ManifestsSound, EvidenceSound, RootsKept
<1>2. ASSUME UNCHANGED <<backup, sweep>>, blobs \subseteq blobs' PROVE CommandsSound'
  BY <1>2 DEF CommandsSound
<1>a. ASSUME UNCHANGED <<evidence, sweep>> PROVE EvidenceSound' /\ LateOnes'
  BY <1>a DEF EvidenceSound, LateOnes
<1>3. ASSUME NEW p \in PageNames, FetchStore(p) PROVE StorageInv'
  BY <1>1, <1>2, <1>a, <1>3 DEF FetchStore, dbVars
<1>4. ASSUME NEW p \in PageNames, NEW o \in ObsNames, NEW k \in Kinds, CommitEvidence(k, p, o)
      PROVE  StorageInv'
  <2> DEFINE r == RowFor(Obs(o))
             lt == r \in Planned
             q == IF k = "read" THEN p ELSE "none"
             n == [kind |-> k, page |-> q, obs |-> r, late |-> lt]
  <2>1. EnsureRow(Obs(o)) /\ evidence' \in {evidence, evidence \cup {n}}
    BY <1>4 DEF CommitEvidence
  <2>2. UNCHANGED <<expired, blobs, manifests, backup, sweep>>
    BY <1>4 DEF CommitEvidence
  <2>3. /\ r \in rows' /\ rows \subseteq rows'
        /\ \A x \in rows' : x \in rows \/ ~IsInventory(x[1])
    BY <2>1, Ensured, Shapes
  <2>4. InventoriesOwned' /\ ManifestsSound' /\ CommandsSound'
    BY <1>2, <2>2, <2>3 DEF InventoriesOwned, ManifestsSound
  <2>5. /\ n = [kind |-> n.kind, page |-> n.page, obs |-> n.obs, late |-> n.late]
        /\ n.kind = k /\ n.obs = r
    OBVIOUS
  <2>6. sweep.pc \in {"files", "rows"} /\ n.obs \in sweep.plan => n.late
    BY DEF Planned
  <2>7. \A e \in evidence' : e \in evidence \/ e = n
    BY <2>1
  <2> HIDE DEF n, r, lt, q
  <2>8. EvidenceSound'
    <3> SUFFICES ASSUME NEW e \in evidence'
                 PROVE  e = [kind |-> e.kind, page |-> e.page, obs |-> e.obs, late |-> e.late]
                        /\ e.kind \in Kinds
      BY DEF EvidenceSound
    <3>1. CASE e \in evidence
      BY <3>1 DEF EvidenceSound
    <3>2. CASE e = n
      BY <2>5, <3>2
    <3> QED
      BY <2>7, <3>1, <3>2
  <2>9. LateOnes'
    BY <2>2, <2>6, <2>7 DEF LateOnes
  <2>10. RootsKept'
    BY <2>2, <2>3, <2>5, <2>7 DEF RootsKept
  <2> QED
    BY <2>2, <2>3, <2>4, <2>8, <2>9, <2>10
<1>5. CASE FetchLook \/ FetchTimeout
  BY <1>1, <1>2, <1>a, <1>5 DEF FetchLook, FetchTimeout, dbVars
<1>6. CASE FetchJournal
  <2> DEFINE c == Page(fetch.page)
  <2>1. UNCHANGED <<expired, blobs, evidence, manifests, backup, sweep>>
    BY <1>6 DEF FetchJournal
  <2>2. rows' = rows \/ EnsureRow(c)
    BY <1>6 DEF FetchJournal
  <2>3. rows \subseteq rows' /\ \A r \in rows' : r \in rows \/ ~IsInventory(r[1])
    BY <2>2, Ensured, Shapes
  <2> QED
    BY <1>2, <1>a, <2>1, <2>3 DEF InventoriesOwned, ManifestsSound, RootsKept
<1>7. ASSUME NEW r \in rows, Expire(r) \/ Pin(r) PROVE StorageInv'
  <2>1. expired' \subseteq rows /\ UNCHANGED <<rows, blobs, evidence, manifests, backup, sweep>>
    BY <1>7 DEF Expire, Pin
  <2> QED
    BY <1>2, <1>a, <2>1 DEF InventoriesOwned, ManifestsSound, RootsKept
<1>8. ASSUME NEW h, HostChanges(h) PROVE StorageInv'
  BY <1>1, <1>2, <1>a, <1>8 DEF HostChanges, dbVars
<1>9. CASE BackupPut
  <2>1. /\ UNCHANGED <<rows, expired, manifests, evidence, sweep>> /\ blobs' = blobs \cup {Inventory(rows)}
        /\ backup' = [pc |-> "put", inv |-> Inventory(rows)]
    BY <1>9 DEF BackupPut, dbVars
  <2>2. CommandsSound'
    BY <2>1, Shapes DEF CommandsSound
  <2> QED
    BY <1>1, <1>a, <2>1, <2>2
<1>10. CASE BackupCommit
  <2> DEFINE c == backup.inv
             n == [inv |-> RowFor(c), host |-> hostOps, kept |-> TRUE, verified |-> FALSE]
  <2>1. /\ EnsureRow(c) /\ manifests' = manifests \cup {n} /\ backup' = Idle
        /\ UNCHANGED <<expired, blobs, evidence, sweep>>
    BY <1>10 DEF BackupCommit
  <2>2. IsInventory(c) /\ c \in blobs
    BY <1>10 DEF BackupCommit, CommandsSound
  <2>3. /\ RowFor(c) \in rows' /\ RowFor(c)[1] = c /\ rows \subseteq rows'
        /\ \A r \in rows' : r \in rows \/ r = RowFor(c)
    BY <2>1, Ensured
  <2>4. n.inv = RowFor(c) /\ Manifest(n)
    BY DEF Manifest
  <2> HIDE DEF n
  <2>5. InventoriesOwned' /\ ManifestsSound'
    BY <2>1, <2>2, <2>3, <2>4 DEF InventoriesOwned, ManifestsSound
  <2>6. CommandsSound'
    BY <2>1 DEF CommandsSound, Idle
  <2>7. RootsKept'
    BY <2>1, <2>2, <2>3, <2>4 DEF RootsKept
  <2> QED
    BY <1>a, <2>1, <2>3, <2>5, <2>6, <2>7
<1>11. ASSUME NEW m \in manifests, BackupExpires(m) \/ Drill(m) PROVE StorageInv'
  <2>1. UNCHANGED <<rows, expired, blobs, evidence, backup, sweep>>
    BY <1>11 DEF BackupExpires, Drill
  <2>2. PICK n : manifests' = (manifests \ {m}) \cup {n} /\ Manifest(n) /\ n.inv = m.inv
    <3>1. Manifest(m)
      BY DEF ManifestsSound
    <3> DEFINE k == [m EXCEPT !.kept = FALSE]
               v == [m EXCEPT !.verified = TRUE]
    <3>4. Manifest(k) /\ k.inv = m.inv /\ Manifest(v) /\ v.inv = m.inv
      BY <3>1, UpdatedManifest
    <3>6. manifests' = (manifests \ {m}) \cup {k} \/ manifests' = (manifests \ {m}) \cup {v}
      BY <1>11 DEF BackupExpires, Drill
    <3> HIDE DEF k, v
    <3> QED
      BY <3>4, <3>6
  <2>3. InventoriesOwned' /\ ManifestsSound' /\ RootsKept'
    BY <2>1, <2>2 DEF InventoriesOwned, ManifestsSound, RootsKept
  <2> QED
    BY <1>2, <1>a, <2>1, <2>3
<1>12. CASE SweepPlan
  <2> DEFINE plan == expired \ (Roots \cup {pinned})
  <2>1. UNCHANGED <<rows, expired, manifests, evidence, blobs, backup>>
    BY <1>12 DEF SweepPlan, dbVars
  <2>2. sweep' = [pc |-> "files", plan |-> plan, left |-> plan]
    BY <1>12 DEF SweepPlan
  <2>3. \A r \in plan : ~IsInventory(r[1])
    BY DEF InventoriesOwned, Roots
  <2>a. \A e \in evidence : e.obs \notin plan
    BY DEF Roots
  <2> HIDE DEF plan
  <2>4. CommandsSound' /\ LateOnes'
    BY <2>1, <2>2, <2>3, <2>a DEF CommandsSound, LateOnes
  <2> QED
    BY <1>1, <2>1, <2>4
<1>13. CASE SweepFile
  <2>1. UNCHANGED <<rows, expired, manifests, evidence, backup>> /\ sweep.pc = "files"
    BY <1>13 DEF SweepFile, dbVars
  <2>2. PICK r \in sweep.left :
          /\ blobs' = blobs \ {r[1]}
          /\ sweep' = IF sweep.left = {r} THEN [pc |-> "rows", plan |-> sweep.plan]
                                          ELSE [sweep EXCEPT !.left = @ \ {r}]
    BY <1>13 DEF SweepFile
  <2>3. /\ sweep = [pc |-> "files", plan |-> sweep.plan, left |-> sweep.left]
        /\ sweep.left \subseteq sweep.plan /\ \A x \in sweep.plan : ~IsInventory(x[1])
    BY <2>1 DEF CommandsSound
  <2>4. ASSUME NEW x \in blobs, IsInventory(x) PROVE x \in blobs'
    BY <2>2, <2>3, <2>4
  <2>5. \/ sweep' = [pc |-> "rows", plan |-> sweep.plan]
        \/ sweep' = [pc |-> "files", plan |-> sweep.plan, left |-> sweep.left \ {r}]
    <3>1. CASE sweep.left = {r}
      BY <2>2, <3>1
    <3>2. CASE sweep.left # {r}
      <4>1. sweep' = [sweep EXCEPT !.left = sweep.left \ {r}]
        BY <2>2, <3>2
      <4> QED
        BY <2>3, <4>1, UpdatedSweep
    <3> QED
      BY <3>1, <3>2
  <2>6. CommandsSound'
    BY <2>1, <2>3, <2>4, <2>5 DEF CommandsSound
  <2>7. InventoriesOwned' /\ ManifestsSound' /\ EvidenceSound' /\ RootsKept'
    BY <2>1, <2>4 DEF InventoriesOwned, ManifestsSound, EvidenceSound, RootsKept
  <2>8. LateOnes'
    BY <2>1, <2>5 DEF LateOnes
  <2> QED
    BY <2>1, <2>6, <2>7, <2>8
<1>14. CASE SweepRows
  <2>1. /\ UNCHANGED <<manifests, blobs, backup>> /\ sweep.pc = "rows"
        /\ expired' = expired \cap rows' /\ sweep' = Idle
    BY <1>14 DEF SweepRows
  <2>2. \A r \in sweep.plan : ~IsInventory(r[1])
    BY <2>1 DEF CommandsSound
  <2>3. CASE UNCHANGED <<rows, evidence>>
    BY <2>1, <2>3 DEF InventoriesOwned, ManifestsSound, CommandsSound, EvidenceSound, LateOnes, RootsKept, Idle
  <2>4. CASE /\ \A e \in evidence : ~(e.kind = "run" /\ e.obs \in sweep.plan)
             /\ rows' = rows \ sweep.plan /\ evidence' = {Unobserved(e) : e \in evidence}
    <3>1. ASSUME NEW e \in evidence'
          PROVE  /\ e = [kind |-> e.kind, page |-> e.page, obs |-> e.obs, late |-> e.late]
                 /\ e.kind \in Kinds
                 /\ e.obs \in rows' \/ (e.obs = NoRow /\ e.kind = "read" /\ e.late)
      <4>1. PICK d \in evidence : e = Unobserved(d)
        BY <2>4, <3>1
      <4>2. /\ d = [kind |-> d.kind, page |-> d.page, obs |-> d.obs, late |-> d.late]
            /\ d.kind \in Kinds
            /\ d.obs \in rows \/ (d.obs = NoRow /\ d.kind = "read" /\ d.late)
        BY DEF EvidenceSound, RootsKept
      <4>3. CASE d.obs \notin sweep.plan
        BY <2>4, <4>1, <4>2, <4>3 DEF Unobserved
      <4>4. CASE d.obs \in sweep.plan
        <5>1. d.late /\ d.kind = "read"
          BY <2>1, <2>4, <4>2, <4>4 DEF LateOnes, Kinds
        <5>2. PICK a, b, c, l : d = [kind |-> a, page |-> b, obs |-> c, late |-> l]
          BY <4>2
        <5>3. e = [kind |-> a, page |-> b, obs |-> NoRow, late |-> l]
          BY <4>1, <4>4, <5>2 DEF Unobserved
        <5>4. a = d.kind /\ l = d.late
          BY <5>2
        <5>5. e.kind = a /\ e.late = l /\ e.obs = NoRow /\ e.page = b
          BY <5>3
        <5> QED
          BY <4>2, <5>1, <5>3, <5>4, <5>5
      <4> QED
        BY <4>3, <4>4
    <3>2. \A r \in rows : IsInventory(r[1]) => r \in rows'
      BY <2>2, <2>4
    <3>3. \A m \in manifests : m.inv \in rows' /\ m.inv[1] \in blobs'
      BY <2>1, <3>2 DEF ManifestsSound, RootsKept
    <3>4. InventoriesOwned' /\ ManifestsSound' /\ CommandsSound' /\ LateOnes'
      BY <2>1, <2>4, <3>2 DEF InventoriesOwned, ManifestsSound, CommandsSound, LateOnes, Idle
    <3>5. EvidenceSound' /\ RootsKept'
      BY <2>1, <3>1, <3>3 DEF EvidenceSound, RootsKept
    <3> QED
      BY <2>1, <3>4, <3>5
  <2> QED
    BY <1>14, <2>3, <2>4 DEF SweepRows
<1>15. CASE BackupDies \/ SweepDies
  <2>1. /\ UNCHANGED <<rows, expired, manifests, evidence, blobs>>
        /\ \/ backup' = Idle /\ sweep' = sweep
           \/ backup' = backup /\ sweep' = Idle
    BY <1>15 DEF BackupDies, SweepDies, dbVars
  <2>2. CommandsSound' /\ LateOnes'
    BY <2>1 DEF CommandsSound, LateOnes, Idle
  <2> QED
    BY <1>1, <2>1, <2>2
<1>16. CASE UNCHANGED storageVars
  BY <1>1, <1>2, <1>a, <1>16 DEF storageVars, dbVars
<1> QED
  BY <1>3, <1>4, <1>5, <1>6, <1>7, <1>8, <1>9, <1>10, <1>11, <1>12, <1>13, <1>14, <1>15, <1>16
     DEF StorageNext, BackupCommand, RestoreDrillCommand

(* Whatever a sweep, a commit and a backup do to one another, and wherever *)
(* they die, no evidence that was run and none that the sweep could see    *)
(* when it planned loses its observation, and no backup the row or the     *)
(* file of its inventory.                                                  *)
THEOREM RootsAreKept == StorageSpec => []RootsKept
<1>1. StorageInit => StorageInv
  BY DEF StorageInit, StorageInv, InventoriesOwned, ManifestsSound, CommandsSound, EvidenceSound, LateOnes,
         RootsKept, Idle
<1>2. StorageInv => RootsKept
  BY DEF StorageInv
<1> QED
  BY <1>1, <1>2, NextStorageInv, PTL DEF StorageSpec

-----------------------------------------------------------------------------
(* The sandbox.  Neither property is inductive: that nothing appears after *)
(* the window needs the budget that a late create has left in it, and that *)
(* a death is seen needs the lag that the engine has left in the second    *)
(* look.                                                                   *)

Boxes == [ctr : {Gone, "created", "running", "dying", "exited"}, create : 0 .. LateTicks,
          rm : BOOLEAN, lag : 0 .. FlipTicks]
Cleaning == {"rm", "confirm", "over"}
Commanding == {"exec", "check", "recheck", "failed", "second"}

(* What the cleanup knows: before it the engine owes nothing, and every    *)
(* absence it saw used up one tick of a late create.                       *)
CleanupInv ==
    /\ phase \in {"none", "creating"} => box.ctr = Gone
    /\ phase \notin Cleaning => box.create = 0
    /\ phase = "confirm" /\ clean.absent >= 0 =>
          box.ctr = Gone /\ (box.create = 0 \/ box.create + clean.absent + 1 <= LateTicks)
    /\ NoSilentLeak

(* What a command knows: its report is open, its killed container does not *)
(* run, and the polls and the lag of the death share FlipTicks.            *)
DeathInv ==
    /\ box.ctr = "dying" => box.lag >= 1
    /\ phase \in Commanding => call.report = "none"
    /\ phase \in Commanding /\ call.killed => box.ctr \in {"dying", "exited"}
    /\ phase = "check" /\ call.killed => ConsistentWithDeath(call.code)
    /\ phase \in Commanding \ {"exec"} /\ call.code = "noclient" => ~call.killed
    /\ phase \in {"recheck", "second"} /\ box.ctr = "dying" => box.lag + call.polls <= FlipTicks
    /\ UnknownWhenDead

-----------------------------------------------------------------------------
\* A late create comes, or is one tick nearer its end
LEMMA GrownBox ==
  ASSUME NEW b0 \in Boxes, NEW x \in Grown(b0)
  PROVE  x \in Boxes /\ x.lag = b0.lag /\ (x.create = 0 \/ (b0.create > 0 /\ x.create = b0.create - 1))
<1>1. CASE b0.create = 0
  BY <1>1 DEF Grown
<1>2. CASE b0.create # 0 /\ x = [b0 EXCEPT !.ctr = "created", !.create = 0]
  <2>1. x = [ctr |-> "created", create |-> 0, rm |-> b0.rm, lag |-> b0.lag]
    BY <1>2 DEF Boxes
  <2> QED
    BY <1>2, <2>1, SandboxAssumption DEF Boxes, Gone
<1>3. CASE b0.create # 0 /\ x = [b0 EXCEPT !.create = @ - 1]
  BY <1>3, SandboxAssumption DEF Boxes
<1> QED
  BY <1>1, <1>2, <1>3 DEF Grown

\* The engine's poll keeps the box's type; a late create comes, or is one tick nearer its end
LEMMA LaterBox ==
  ASSUME NEW b0 \in Boxes, NEW b \in Later(b0)
  PROVE  b \in Boxes /\ b.lag = b0.lag /\ (b.create = 0 \/ (b0.create > 0 /\ b.create = b0.create - 1))
<1>1. PICK x \in Grown(b0) : b \in Shrunk(x)
  BY DEF Later
<1>2. x \in Boxes /\ x.lag = b0.lag /\ (x.create = 0 \/ (b0.create > 0 /\ x.create = b0.create - 1))
  BY <1>1, GrownBox
<1>3. b \in Boxes /\ b.lag = x.lag /\ b.create = x.create
  <2>1. CASE b = x
    BY <1>2, <2>1
  <2>2. CASE b = [x EXCEPT !.ctr = Gone, !.rm = FALSE]
    <3>1. b = [ctr |-> Gone, create |-> x.create, rm |-> FALSE, lag |-> x.lag]
      BY <1>2, <2>2 DEF Boxes
    <3> QED
      BY <1>2, <3>1 DEF Boxes
  <2> QED
    BY <1>1, <2>1, <2>2 DEF Shrunk
<1> QED
  BY <1>2, <1>3

\* The state of a killed container becomes true, or its lag is one tick shorter
LEMMA FlippedBox ==
  ASSUME NEW b0 \in Boxes, NEW b \in Flipped(b0)
  PROVE  /\ b \in Boxes /\ b.create = b0.create
         /\ b0.ctr # "dying" => b = b0
         /\ b0.ctr = "dying" => \/ b.ctr = "exited"
                                \/ b.ctr = "dying" /\ b.lag >= 1 /\ b.lag = b0.lag - 1
<1>1. CASE b0.ctr # "dying"
  BY <1>1 DEF Flipped
<1>2. CASE b0.ctr = "dying" /\ b = [b0 EXCEPT !.ctr = "exited", !.lag = 0]
  <2>1. b = [ctr |-> "exited", create |-> b0.create, rm |-> b0.rm, lag |-> 0]
    BY <1>2 DEF Boxes
  <2> QED
    BY <1>2, <2>1, SandboxAssumption DEF Boxes, Gone
<1>3. CASE b0.ctr = "dying" /\ b0.lag > 1 /\ b = [b0 EXCEPT !.lag = @ - 1]
  BY <1>3, SandboxAssumption DEF Boxes
<1> QED
  BY <1>1, <1>2, <1>3 DEF Flipped

\* The box after a verb whose client was killed
LEMMA CutBox ==
  ASSUME NEW b0 \in Boxes
  PROVE  /\ \A b \in CutCreate(b0) : b \in Boxes /\ b.lag = b0.lag
         /\ \A b \in CutStart(b0) : b \in Boxes /\ b.lag = b0.lag /\ b.create = b0.create
         /\ \A b \in CutRemove(b0) : b \in Boxes /\ b.lag = b0.lag /\ b.create = b0.create
                                     /\ b.ctr \in {b0.ctr, Gone}
<1>1. ASSUME NEW b \in CutCreate(b0) PROVE b \in Boxes /\ b.lag = b0.lag
  BY <1>1, SandboxAssumption DEF CutCreate, Boxes, Gone
<1>2. ASSUME NEW b \in CutStart(b0) PROVE b \in Boxes /\ b.lag = b0.lag /\ b.create = b0.create
  BY <1>2 DEF CutStart, Boxes
<1>3. ASSUME NEW b \in CutRemove(b0)
      PROVE  b \in Boxes /\ b.lag = b0.lag /\ b.create = b0.create /\ b.ctr \in {b0.ctr, Gone}
  BY <1>3 DEF CutRemove, Boxes
<1> QED
  BY <1>1, <1>2, <1>3

-----------------------------------------------------------------------------
Cleans == [n : 0 .. 2, left : 0 .. Ceiling, absent : -1 .. Window, last : {"unknown", "present"},
           stop : BOOLEAN]
Calls == [code : {"none", "ok", "timeout", "plain", "signal", "refused", "engine", "noclient"},
          killed : BOOLEAN, blind : BOOLEAN, polls : 0 .. Recheck,
          report : {"none", "ok", "failed", "unknown"}, execs : 0 .. MaxExecs]

\* Every action keeps the type of the box
LEMMA NextBox == SandboxTypeOK /\ [SandboxNext]_sandboxVars => box' \in Boxes
<1> SUFFICES ASSUME SandboxTypeOK, [SandboxNext]_sandboxVars PROVE box' \in Boxes
  OBVIOUS
<1>0. box \in Boxes
  BY DEF SandboxTypeOK, Boxes
<1>1. CASE UNCHANGED box
  BY <1>0, <1>1
<1>2. CASE CreateAnswered \/ StartAnswered \/ Destroyed
  BY <1>0, <1>2 DEF CreateAnswered, StartAnswered, Destroyed, Boxes, Gone
<1>3. CASE CreateCut \/ StartCut \/ DestroyFails \/ DestroyCancelled
  BY <1>0, <1>3, CutBox DEF CreateCut, StartCut, DestroyFails, DestroyCancelled
<1>4. CASE RemoveAnswered
  <2>1. PICK b \in Later(box), underway \in BOOLEAN :
           box' \in IF underway THEN {[b EXCEPT !.rm = TRUE]} ELSE {[b EXCEPT !.ctr = Gone], b}
    BY <1>4 DEF RemoveAnswered
  <2>2. b \in Boxes
    BY <1>0, LaterBox
  <2> QED
    BY <2>1, <2>2 DEF Boxes, Gone
<1>5. CASE RemoveCut
  BY <1>0, <1>5, LaterBox, CutBox DEF RemoveCut
<1>6. CASE PollAbsent \/ PollPresent \/ PollFails
  BY <1>0, <1>6, LaterBox DEF PollAbsent, PollPresent, PollFails
<1>7. CASE ContainerDies
  <2>1. box' = [ctr |-> "dying", create |-> box.create, rm |-> box.rm, lag |-> FlipTicks]
    BY <1>0, <1>7 DEF ContainerDies, Boxes
  <2> QED
    BY <1>0, <2>1, SandboxAssumption DEF Boxes
<1>8. CASE CheckNo \/ RecheckYes \/ CheckFails \/ FailedFails \/ CheckUnspawned
  BY <1>0, <1>8, FlippedBox DEF CheckNo, RecheckYes, CheckFails, FailedFails, CheckUnspawned
<1> QED
  BY <1>1, <1>2, <1>3, <1>4, <1>5, <1>6, <1>7, <1>8
     DEF SandboxNext, sandboxVars, OpenSession, StartRefused, GiveUp, CloseSession, Exec, ExecReturns,
         CheckYes, FailedYes, ExecCancelled, StartUnspawned, CleanupUnspawned, ExecUnspawned

\* Every action keeps the type of the cleanup's locals
LEMMA NextClean == SandboxTypeOK /\ [SandboxNext]_sandboxVars => clean' \in Cleans
<1> SUFFICES ASSUME SandboxTypeOK, [SandboxNext]_sandboxVars PROVE clean' \in Cleans
  OBVIOUS
<1> USE SandboxAssumption
<1>0. clean \in Cleans
  BY DEF SandboxTypeOK, Cleans
<1>1. CASE UNCHANGED clean
  BY <1>0, <1>1
<1>2. CASE BeginCleanup
  <2>1. clean' = [n |-> 1, left |-> Ceiling, absent |-> -1, last |-> "unknown", stop |-> FALSE]
    BY <1>2 DEF BeginCleanup, NoClean
  <2> QED
    BY <2>1 DEF Cleans
<1>3. CASE clean' = NoClean
  BY <1>3 DEF NoClean, Cleans
<1>4. CASE RemoveAnswered
  <2>1. PICK underway \in BOOLEAN :
           clean' = [clean EXCEPT !.left = @ - 1, !.absent = -1, !.last = "unknown",
                                  !.stop = ~underway /\ clean.n < 2]
    BY <1>4 DEF RemoveAnswered
  <2> DEFINE again == ~underway /\ clean.n < 2
  <2>2. clean' = [n |-> clean.n, left |-> clean.left - 1, absent |-> -1, last |-> "unknown", stop |-> again]
    BY <1>0, <2>1 DEF Cleans
  <2>3. again \in BOOLEAN /\ clean.left > 0
    BY <1>4 DEF RemoveAnswered
  <2> HIDE DEF again
  <2> QED
    BY <1>0, <2>2, <2>3 DEF Cleans
<1>5. CASE RemoveCut
  <2>1. PICK rest \in {clean.left - 1, IF clean.left > Window THEN Window ELSE clean.left - 1} :
           clean' = [clean EXCEPT !.left = rest, !.absent = -1, !.last = "unknown", !.stop = FALSE]
    BY <1>5 DEF RemoveCut
  <2>2. clean' = [n |-> clean.n, left |-> rest, absent |-> -1, last |-> "unknown", stop |-> FALSE]
    BY <1>0, <2>1 DEF Cleans
  <2>3. rest \in 0 .. Ceiling
    BY <1>0, <1>5 DEF RemoveCut, Cleans
  <2> QED
    BY <1>0, <2>2, <2>3 DEF Cleans
<1>6. CASE PollAbsent /\ clean' # NoClean
  <2>1. clean.absent + 1 < Window /\ clean.left > 0
    BY <1>0, <1>6 DEF PollAbsent, Confirmed, Cleans
  <2>2. clean' = [n |-> clean.n, left |-> clean.left - 1, absent |-> clean.absent + 1, last |-> clean.last,
                  stop |-> clean.stop]
    BY <1>0, <1>6 DEF PollAbsent, Cleans
  <2> QED
    BY <1>0, <2>1, <2>2 DEF Cleans
<1>7. CASE PollPresent
  <2> DEFINE n == IF clean.stop THEN 2 ELSE clean.n
  <2>1. clean' = [n |-> n, left |-> clean.left - 1, absent |-> -1, last |-> "present", stop |-> clean.stop]
    BY <1>0, <1>7 DEF PollPresent, Cleans
  <2>2. n \in 0 .. 2 /\ clean.left > 0
    BY <1>0, <1>7 DEF PollPresent, Cleans
  <2> HIDE DEF n
  <2> QED
    BY <1>0, <2>1, <2>2 DEF Cleans
<1>8. CASE PollFails
  <2>1. clean' = [n |-> clean.n, left |-> clean.left - 1, absent |-> -1, last |-> clean.last,
                  stop |-> clean.stop]
    BY <1>0, <1>8 DEF PollFails, Cleans
  <2> QED
    BY <1>0, <1>8, <2>1 DEF PollFails, Cleans
<1> QED
  BY <1>1, <1>2, <1>3, <1>4, <1>5, <1>6, <1>7, <1>8
     DEF SandboxNext, sandboxVars, OpenSession, CreateAnswered, CreateCut, StartAnswered, StartRefused,
         StartCut, GiveUp, CloseSession, Destroyed, DestroyFails, DestroyCancelled, Exec, ContainerDies,
         ExecReturns, CheckNo, CheckYes, RecheckYes, CheckFails, FailedYes, FailedFails, ExecCancelled,
         StartUnspawned, CleanupUnspawned, ExecUnspawned, CheckUnspawned

\* Every action keeps the type of the command's record
LEMMA NextCommand == SandboxTypeOK /\ [SandboxNext]_sandboxVars => call' \in Calls
<1> SUFFICES ASSUME SandboxTypeOK, [SandboxNext]_sandboxVars PROVE call' \in Calls
  OBVIOUS
<1> USE SandboxAssumption
<1>0. call \in Calls
  BY DEF SandboxTypeOK, Calls
<1>1. CASE UNCHANGED call
  BY <1>0, <1>1
<1>2. CASE Exec
  <2>1. call' = [code |-> "none", killed |-> FALSE, blind |-> FALSE, polls |-> 0, report |-> "none",
                 execs |-> call.execs + 1]
    BY <1>2 DEF Exec, NoCall
  <2>2. call.execs < MaxExecs
    BY <1>2 DEF Exec
  <2> QED
    BY <1>0, <2>1, <2>2 DEF Calls
<1>3. CASE ContainerDies
  <2> DEFINE k == phase = "exec"
  <2>1. call' = [call EXCEPT !.killed = k] /\ k \in BOOLEAN
    BY <1>3 DEF ContainerDies
  <2> HIDE DEF k
  <2> QED
    BY <1>0, <2>1 DEF Calls
<1>4. ASSUME NEW c \in Codes, ExecReturns(c) PROVE call' \in Calls
  <2>0. c \in {"ok", "timeout", "plain", "signal", "refused", "engine", "noclient"}
    BY <1>4 DEF Codes
  <2>1. CASE c \in {"ok", "timeout"}
    <3>1. PICK r \in {"ok", "failed"} : call' = [call EXCEPT !.code = c, !.report = r]
      BY <1>4, <2>1 DEF ExecReturns
    <3>2. call' = [code |-> c, killed |-> call.killed, blind |-> call.blind, polls |-> call.polls,
                   report |-> r, execs |-> call.execs]
      BY <1>0, <3>1 DEF Calls
    <3> QED
      BY <1>0, <2>0, <3>2 DEF Calls
  <2>3. CASE c = "noclient"
    <3>1. call' = [call EXCEPT !.code = c, !.killed = FALSE]
      BY <1>4, <2>3 DEF ExecReturns
    <3> QED
      BY <1>0, <2>0, <3>1 DEF Calls
  <2>2. CASE c \notin {"ok", "timeout", "noclient"}
    <3>1. call' = [call EXCEPT !.code = c]
      BY <1>4, <2>0, <2>2 DEF ExecReturns
    <3> QED
      BY <1>0, <2>0, <3>1 DEF Calls
  <2> QED
    BY <2>1, <2>2, <2>3
<1>5. CASE CheckNo \/ CheckYes \/ RecheckYes \/ CheckFails \/ FailedYes
  <2>1. CASE \E r \in {"failed", "unknown"} : Report(r)
    BY <1>0, <2>1 DEF Report, Calls
  <2>2. CASE \E p \in 0 .. Recheck : call' = [call EXCEPT !.polls = p]
    BY <1>0, <2>2 DEF Calls
  <2>3. CASE call' = [call EXCEPT !.blind = TRUE]
    BY <1>0, <2>3 DEF Calls
  <2>4. CASE CheckYes \/ FailedYes
    <3>1. (\E r \in {"failed", "unknown"} : Report(r)) \/ call' = [call EXCEPT !.polls = 0]
      BY <2>4 DEF CheckYes, FailedYes
    <3> QED
      BY <2>1, <2>2, <3>1
  <2>5. CASE RecheckYes
    <3>1. CASE call.polls + 1 >= Recheck
      BY <2>1, <2>5, <3>1 DEF RecheckYes
    <3>2. CASE ~(call.polls + 1 >= Recheck)
      <4>1. call.polls + 1 \in 0 .. Recheck
        BY <1>0, <3>2 DEF Calls
      <4>2. call' = [call EXCEPT !.polls = call.polls + 1]
        BY <2>5, <3>2 DEF RecheckYes
      <4> QED
        BY <2>2, <4>1, <4>2
    <3> QED
      BY <3>1, <3>2
  <2> QED
    BY <1>5, <2>1, <2>3, <2>4, <2>5 DEF CheckNo, CheckFails
<1>6. CASE FailedFails \/ CheckUnspawned
  <2>1. call' = [code |-> call.code, killed |-> call.killed, blind |-> TRUE, polls |-> call.polls,
                 report |-> "failed", execs |-> call.execs]
    <3>1. call' = [call EXCEPT !.blind = TRUE, !.report = "failed"]
      BY <1>6 DEF FailedFails, CheckUnspawned
    <3> QED
      BY <1>0, <3>1 DEF Calls
  <2> QED
    BY <1>0, <2>1 DEF Calls
<1>7. CASE ExecUnspawned
  <2>1. call' = [call EXCEPT !.killed = FALSE, !.report = "failed"]
    BY <1>7 DEF ExecUnspawned
  <2> QED
    BY <1>0, <2>1 DEF Calls
<1> QED
  BY <1>1, <1>2, <1>3, <1>4, <1>5, <1>6, <1>7
     DEF SandboxNext, sandboxVars, OpenSession, CreateAnswered, CreateCut, StartAnswered, StartRefused,
         StartCut, RemoveAnswered, RemoveCut, PollAbsent, PollPresent, PollFails, GiveUp, CloseSession,
         Destroyed, DestroyFails, DestroyCancelled, ExecCancelled, StartUnspawned, CleanupUnspawned

\* Every action keeps the types
LEMMA NextType == SandboxTypeOK /\ [SandboxNext]_sandboxVars => SandboxTypeOK'
<1> SUFFICES ASSUME SandboxTypeOK, [SandboxNext]_sandboxVars PROVE SandboxTypeOK'
  OBVIOUS
<1>1. box' \in Boxes /\ clean' \in Cleans /\ call' \in Calls
  BY NextBox, NextClean, NextCommand
<1>2. (UNCHANGED leaked \/ leaked' = TRUE) /\ (UNCHANGED escaped \/ escaped' = TRUE)
  BY DEF SandboxNext, sandboxVars, OpenSession, CreateAnswered, CreateCut, StartAnswered,
         StartRefused, StartCut, RemoveAnswered, RemoveCut, PollAbsent, PollPresent, PollFails, GiveUp,
         CloseSession, Destroyed, DestroyFails, DestroyCancelled, Exec, ContainerDies, ExecReturns, CheckNo,
         CheckYes, RecheckYes, CheckFails, FailedYes, FailedFails, ExecCancelled, StartUnspawned,
         CleanupUnspawned, ExecUnspawned, CheckUnspawned
<1>3. phase' \in {"none", "creating", "starting", "open", "exec", "check", "recheck", "failed", "second",
                  "destroying", "rm", "confirm", "over"}
  <2>1. CASE OpenSession \/ CreateAnswered \/ CreateCut \/ StartAnswered \/ StartRefused \/ StartCut
             \/ RemoveAnswered \/ RemoveCut \/ GiveUp \/ CloseSession \/ Destroyed \/ DestroyFails
             \/ DestroyCancelled \/ Exec \/ ExecCancelled \/ StartUnspawned \/ CleanupUnspawned
             \/ ExecUnspawned \/ CheckUnspawned
    BY <2>1 DEF OpenSession, CreateAnswered, CreateCut, StartAnswered, StartRefused, StartCut,
                RemoveAnswered, RemoveCut, GiveUp, CloseSession, Destroyed, DestroyFails, DestroyCancelled,
                Exec, ExecCancelled, BeginCleanup, StartUnspawned, CleanupUnspawned, ExecUnspawned,
                CheckUnspawned
  <2>2. CASE PollAbsent \/ PollPresent \/ PollFails
    BY <2>2 DEF PollAbsent, PollPresent, PollFails
  <2>3. CASE \E c \in Codes : ExecReturns(c)
    BY <2>3 DEF ExecReturns, Codes
  <2>4. CASE CheckNo \/ CheckYes \/ RecheckYes \/ CheckFails \/ FailedYes \/ FailedFails
    BY <2>4 DEF CheckNo, CheckYes, RecheckYes, CheckFails, FailedYes, FailedFails, Report
  <2>5. CASE ContainerDies \/ UNCHANGED sandboxVars
    BY <2>5 DEF ContainerDies, sandboxVars, SandboxTypeOK
  <2> QED
    BY <2>1, <2>2, <2>3, <2>4, <2>5 DEF SandboxNext
<1>4. leaked' \in BOOLEAN /\ escaped' \in BOOLEAN
  BY <1>2 DEF SandboxTypeOK
<1> QED
  BY <1>1, <1>3, <1>4 DEF SandboxTypeOK, Boxes, Cleans, Calls

-----------------------------------------------------------------------------
\* The cleanup's knowledge is inductive; LateTicks <= Window is used where it confirms
LEMMA NextCleanup == SandboxTypeOK /\ CleanupInv /\ [SandboxNext]_sandboxVars => CleanupInv'
<1> SUFFICES ASSUME SandboxTypeOK, CleanupInv, [SandboxNext]_sandboxVars PROVE CleanupInv'
  OBVIOUS
<1> USE DEF CleanupInv, NoSilentLeak, Cleaning
<1>0. box \in Boxes /\ clean \in Cleans
  BY DEF SandboxTypeOK, Boxes, Cleans
<1>1. CASE OpenSession \/ CloseSession \/ GiveUp \/ Exec \/ ExecCancelled \/ CheckYes \/ FailedYes
           \/ StartRefused \/ StartUnspawned \/ CleanupUnspawned \/ ExecUnspawned
  BY <1>1 DEF OpenSession, CloseSession, GiveUp, Exec, ExecCancelled, CheckYes, FailedYes, StartRefused,
              BeginCleanup, Report, StartUnspawned, CleanupUnspawned, ExecUnspawned
<1>2. CASE CreateAnswered \/ StartAnswered \/ Destroyed
  BY <1>0, <1>2 DEF CreateAnswered, StartAnswered, Destroyed, Boxes
<1>3. CASE CreateCut \/ StartCut \/ DestroyCancelled
  BY <1>3 DEF CreateCut, StartCut, DestroyCancelled, BeginCleanup
<1>4. CASE DestroyFails
  BY <1>4 DEF DestroyFails
<1>5. CASE RemoveAnswered \/ RemoveCut
  <2>1. phase' = "confirm" /\ clean'.absent = -1
    BY <1>0, <1>5 DEF RemoveAnswered, RemoveCut, Cleans
  <2> QED
    BY <2>1
<1>6. CASE PollAbsent
  <2>1. box' \in Later(box) /\ box'.ctr = Gone /\ phase = "confirm"
    BY <1>6 DEF PollAbsent
  <2>2. box'.create = 0 \/ (box.create > 0 /\ box'.create = box.create - 1)
    BY <1>0, <2>1, LaterBox
  <2>3. box'.create = 0 \/ box'.create + (clean.absent + 1) + 1 <= LateTicks
    BY <1>0, <2>1, <2>2, SandboxAssumption DEF Boxes, Cleans
  <2>4. CASE Confirmed(clean.absent + 1)
    <3>1. box'.create = 0
      BY <1>0, <2>3, <2>4, NextBox, SandboxAssumption DEF Confirmed, Boxes, Cleans
    <3> QED
      BY <1>6, <2>1, <2>4, <3>1 DEF PollAbsent
  <2>5. CASE ~Confirmed(clean.absent + 1)
    <3>1. clean'.absent = clean.absent + 1 /\ phase' = "confirm"
      BY <1>0, <1>6, <2>5 DEF PollAbsent, Cleans
    <3> QED
      BY <2>1, <2>3, <3>1
  <2> QED
    BY <2>4, <2>5
<1>7. CASE PollPresent \/ PollFails
  <2>1. phase' \in {"rm", "confirm"} /\ clean'.absent = -1
    BY <1>0, <1>7 DEF PollPresent, PollFails, Cleans
  <2> QED
    BY <2>1
<1>8. CASE ContainerDies
  <2>1. box'.create = box.create /\ phase \in {"open", "exec"} /\ phase' = phase
    BY <1>0, <1>8 DEF ContainerDies, Boxes
  <2> QED
    BY <2>1
<1>9. CASE \E c \in Codes : ExecReturns(c)
  BY <1>9 DEF ExecReturns, Codes
<1>10. CASE CheckNo \/ RecheckYes \/ CheckFails \/ FailedFails \/ CheckUnspawned
  <2>1. box'.create = box.create
    BY <1>0, <1>10, FlippedBox DEF CheckNo, RecheckYes, CheckFails, FailedFails, CheckUnspawned
  <2>2. phase \in Commanding /\ phase' \in Commanding \cup {"open"}
    BY <1>10 DEF CheckNo, RecheckYes, CheckFails, FailedFails, CheckUnspawned, Report, Commanding
  <2> QED
    BY <2>1, <2>2 DEF Commanding
<1>11. CASE UNCHANGED sandboxVars
  BY <1>11 DEF sandboxVars
<1> QED
  BY <1>1, <1>2, <1>3, <1>4, <1>5, <1>6, <1>7, <1>8, <1>9, <1>10, <1>11 DEF SandboxNext

\* What a command knows is inductive; FlipTicks <= Recheck is used where the second look ends
LEMMA NextDeath == SandboxTypeOK /\ DeathInv /\ [SandboxNext]_sandboxVars => DeathInv'
<1> SUFFICES ASSUME SandboxTypeOK, DeathInv, [SandboxNext]_sandboxVars PROVE DeathInv'
  OBVIOUS
<1> USE DEF DeathInv, UnknownWhenDead, Commanding
<1>0. box \in Boxes /\ call \in Calls
  BY DEF SandboxTypeOK, Boxes, Calls
<1>1. CASE /\ UNCHANGED call /\ phase' \notin Commanding
           /\ box'.ctr = "dying" => box.ctr = "dying" /\ box'.lag = box.lag
  BY <1>1
<1>2. CASE OpenSession \/ CloseSession \/ GiveUp \/ ExecCancelled \/ StartRefused \/ StartUnspawned
           \/ CleanupUnspawned
  BY <1>1, <1>2 DEF OpenSession, CloseSession, GiveUp, ExecCancelled, StartRefused, BeginCleanup,
                    StartUnspawned, CleanupUnspawned
<1>3. CASE CreateAnswered \/ StartAnswered \/ Destroyed
  BY <1>0, <1>1, <1>3 DEF CreateAnswered, StartAnswered, Destroyed, Boxes, Gone
<1>4. CASE CreateCut \/ StartCut
  <2>1. box' \in CutCreate(box) \cup CutStart(box) /\ UNCHANGED call /\ phase' = "rm"
    BY <1>4 DEF CreateCut, StartCut, BeginCleanup
  <2>2. box'.ctr = "dying" => box.ctr = "dying" /\ box'.lag = box.lag
    BY <1>0, <2>1 DEF CutCreate, CutStart, Boxes
  <2> QED
    BY <1>1, <2>1, <2>2
<1>5. CASE DestroyFails \/ DestroyCancelled
  <2>1. box' \in CutRemove(box) /\ UNCHANGED call /\ phase' \in {"rm", "over"}
    BY <1>5 DEF DestroyFails, DestroyCancelled, BeginCleanup
  <2>2. box'.ctr = "dying" => box.ctr = "dying" /\ box'.lag = box.lag
    BY <1>0, <2>1, CutBox DEF Gone
  <2> QED
    BY <1>1, <2>1, <2>2
<1>6. CASE RemoveAnswered \/ RemoveCut \/ PollAbsent \/ PollPresent \/ PollFails
  <2>1. PICK b \in Later(box) : \/ box' \in {[b EXCEPT !.rm = TRUE], [b EXCEPT !.ctr = Gone], b}
                                \/ box' \in CutRemove(b)
    BY <1>6 DEF RemoveAnswered, RemoveCut, PollAbsent, PollPresent, PollFails
  <2>2. b \in Boxes /\ (b.ctr = "dying" => box.ctr = "dying" /\ b.lag = box.lag)
    <3>1. PICK x \in Grown(box) : b \in Shrunk(x)
      BY DEF Later
    <3>2. x.ctr = "dying" => box.ctr = "dying"
      BY <1>0, <3>1 DEF Grown, Boxes
    <3>3. b.ctr = "dying" => x.ctr = "dying"
      <4>1. CASE b = x
        BY <4>1
      <4>2. CASE b = [x EXCEPT !.ctr = Gone, !.rm = FALSE]
        <5>1. x \in Boxes
          BY <1>0, <3>1, GrownBox
        <5> QED
          BY <4>2, <5>1 DEF Boxes, Gone
      <4> QED
        BY <3>1, <4>1, <4>2 DEF Shrunk
    <3> QED
      BY <1>0, <3>2, <3>3, LaterBox
  <2>3. box'.ctr = "dying" => box.ctr = "dying" /\ box'.lag = box.lag
    <3>1. CASE box' \in {[b EXCEPT !.rm = TRUE], [b EXCEPT !.ctr = Gone], b}
      BY <2>2, <3>1 DEF Boxes, Gone
    <3>2. CASE box' \in CutRemove(b)
      BY <2>2, <3>2, CutBox DEF Gone
    <3> QED
      BY <2>1, <3>1, <3>2
  <2>4. UNCHANGED call /\ phase' \in {"rm", "confirm", "over"}
    BY <1>6 DEF RemoveAnswered, RemoveCut, PollAbsent, PollPresent, PollFails
  <2> QED
    BY <1>1, <2>3, <2>4
<1>7. CASE Exec
  <2>1. UNCHANGED box /\ phase' = "exec" /\ call'.report = "none" /\ call'.killed = FALSE
    BY <1>7 DEF Exec, NoCall
  <2> QED
    BY <2>1
<1>8. CASE ContainerDies
  <2>1. box'.ctr = "dying" /\ box'.lag = FlipTicks /\ phase \in {"open", "exec"} /\ phase' = phase
    BY <1>0, <1>8 DEF ContainerDies, Boxes
  <2>2. call'.report = call.report
    BY <1>0, <1>8 DEF ContainerDies, Calls
  <2>3. FlipTicks >= 1
    BY SandboxAssumption
  <2>4. CASE phase = "exec"
    BY <2>1, <2>2, <2>3, <2>4
  <2>5. CASE phase = "open"
    <3>1. ~call'.killed
      BY <1>0, <1>8, <2>5 DEF ContainerDies, Calls
    <3> QED
      BY <2>1, <2>3, <2>5, <3>1
  <2> QED
    BY <2>1, <2>4, <2>5
<1>9. ASSUME NEW c \in Codes, ExecReturns(c) PROVE DeathInv'
  <2>1. UNCHANGED box /\ phase = "exec" /\ c \in Codes
    BY <1>9 DEF ExecReturns
  <2>2. CASE c = "noclient"
    <3>1. call'.killed = FALSE /\ call'.report = call.report /\ phase' = "failed"
      BY <1>0, <1>9, <2>2 DEF ExecReturns, Calls
    <3> QED
      BY <2>1, <3>1
  <2>5. ASSUME c # "noclient" PROVE call'.killed = call.killed /\ call'.blind = call.blind /\ call'.code = c
    BY <1>0, <1>9, <2>5 DEF ExecReturns, Codes, Calls
  <2>3. CASE call.killed /\ c # "noclient"
    <3>1. c \in {"signal", "refused", "engine"}
      BY <2>1, <2>3 DEF Codes
    <3>2. call'.report = "none" /\ phase' \in {"failed", "check"} /\ (phase' = "check" => c # "engine")
      BY <1>0, <1>9, <2>1, <3>1 DEF ExecReturns, Calls
    <3> QED
      BY <2>1, <2>5, <2>3, <3>1, <3>2 DEF ConsistentWithDeath
  <2>4. CASE ~call.killed /\ c # "noclient"
    <3>1. phase' \in {"failed", "check"} => call'.report = "none"
      BY <1>0, <1>9, <2>1 DEF ExecReturns, Codes, Calls
    <3>2. phase' \in {"open", "failed", "check"}
      BY <1>9 DEF ExecReturns, Codes
    <3> QED
      BY <2>1, <2>5, <2>4, <3>1, <3>2
  <2> QED
    BY <2>2, <2>3, <2>4
<1>10. CASE CheckNo
  <2>1. box' \in Flipped(box) /\ phase' = "open" /\ call'.report = "unknown"
    BY <1>0, <1>10 DEF CheckNo, Report, Calls
  <2> QED
    BY <1>0, <2>1, FlippedBox
<1>11. CASE CheckYes \/ FailedYes
  <2>1. /\ UNCHANGED box /\ phase \in Commanding \ {"exec"}
        /\ call'.killed = call.killed /\ call'.code = call.code
    BY <1>0, <1>11 DEF CheckYes, FailedYes, Report, Calls
  <2>2. CASE phase' \in {"recheck", "second"} /\ call'.polls = 0 /\ call'.report = call.report
    <3>1. box.lag + 0 <= FlipTicks
      BY <1>0, SandboxAssumption DEF Boxes
    <3> QED
      BY <2>1, <2>2, <3>1
  <2>3. CASE phase' = "open" /\ ~call.killed
    BY <2>1, <2>3
  <2>4. phase' \in {"recheck", "second"} => call'.polls = 0 /\ call'.report = call.report
    BY <1>0, <1>11 DEF CheckYes, FailedYes, Report, Calls
  <2>5. phase' \in {"recheck", "second"} \/ (phase' = "open" /\ ~call.killed)
    BY <1>11, SandboxAssumption DEF CheckYes, FailedYes, Report
  <2> QED
    BY <2>2, <2>3, <2>4, <2>5
<1>12. CASE RecheckYes
  <2>1. box' \in Flipped(box) /\ Running(box') /\ phase \in {"recheck", "second"}
    BY <1>12 DEF RecheckYes
  <2>2. /\ box.ctr # "dying" => box' = box
        /\ box.ctr = "dying" => box'.ctr = "dying" /\ box'.lag >= 1 /\ box'.lag = box.lag - 1
    BY <1>0, <2>1, FlippedBox DEF Running
  <2>3. call'.killed = call.killed /\ call'.code = call.code
    BY <1>0, <1>12 DEF RecheckYes, Report, Calls
  <2>4. CASE call.polls + 1 >= Recheck
    <3>1. box.ctr # "dying"
      BY <1>0, <2>1, <2>2, <2>4, SandboxAssumption DEF Boxes, Calls
    <3>2. ~call.killed
      BY <2>1, <2>2, <3>1 DEF Running
    <3>3. phase' = "open"
      BY <1>12, <2>4 DEF RecheckYes, Report
    <3> QED
      BY <2>2, <2>3, <3>1, <3>2, <3>3
  <2>5. CASE ~(call.polls + 1 >= Recheck)
    <3>1. call'.polls = call.polls + 1 /\ call'.report = call.report /\ phase' = phase
      BY <1>0, <1>12, <2>5 DEF RecheckYes, Calls
    <3>2. box'.ctr = "dying" => box'.lag + call'.polls <= FlipTicks
      BY <1>0, <2>1, <2>2, <3>1, SandboxAssumption DEF Boxes, Calls
    <3>3. call.killed => box'.ctr \in {"dying", "exited"}
      BY <2>1, <2>2
    <3> QED
      BY <2>1, <2>2, <2>3, <3>1, <3>2, <3>3
  <2> QED
    BY <2>4, <2>5
<1>13. CASE CheckFails
  <2>1. box' \in Flipped(box) /\ phase \in {"check", "recheck"} /\ phase' = "failed"
    BY <1>13 DEF CheckFails
  <2>2. call'.report = call.report /\ call'.killed = call.killed /\ call'.code = call.code
    BY <1>0, <1>13 DEF CheckFails, Calls
  <2>3. /\ box'.ctr = "dying" => box'.lag >= 1
        /\ box.ctr \in {"dying", "exited"} => box'.ctr \in {"dying", "exited"}
    BY <1>0, <2>1, FlippedBox
  <2> QED
    BY <2>1, <2>2, <2>3
<1>14. CASE FailedFails \/ CheckUnspawned
  <2>1. box' \in Flipped(box) /\ phase' = "open"
    BY <1>14 DEF FailedFails, CheckUnspawned
  <2>2. call'.blind = TRUE
    BY <1>0, <1>14 DEF FailedFails, CheckUnspawned, Calls
  <2>3. box'.ctr = "dying" => box'.lag >= 1
    BY <1>0, <2>1, FlippedBox
  <2> QED
    BY <2>1, <2>2, <2>3
<1>15. CASE UNCHANGED sandboxVars
  BY <1>15 DEF sandboxVars
<1>16. CASE ExecUnspawned
  <2>1. call'.killed = FALSE /\ phase' = "open" /\ UNCHANGED box
    BY <1>0, <1>16 DEF ExecUnspawned, Calls
  <2> QED
    BY <2>1
<1> QED
  BY <1>2, <1>3, <1>4, <1>5, <1>6, <1>7, <1>8, <1>9, <1>10, <1>11, <1>12, <1>13, <1>14, <1>15, <1>16
     DEF SandboxNext

-----------------------------------------------------------------------------
SandboxInv == SandboxTypeOK /\ CleanupInv /\ DeathInv

LEMMA InitSandboxInv == SandboxInit => SandboxInv
<1> SUFFICES ASSUME SandboxInit PROVE SandboxInv
  OBVIOUS
<1>1. SandboxTypeOK
  <2>1. box \in Boxes
    BY SandboxAssumption DEF SandboxInit, Boxes, Gone
  <2>2. clean \in Cleans
    BY SandboxAssumption DEF SandboxInit, NoClean, Cleans
  <2>3. call \in Calls
    BY SandboxAssumption DEF SandboxInit, NoCall, Calls
  <2> QED
    BY <2>1, <2>2, <2>3 DEF SandboxInit, SandboxTypeOK, Boxes, Cleans, Calls
<1>2. CleanupInv /\ DeathInv
  BY DEF SandboxInit, CleanupInv, DeathInv, NoSilentLeak, UnknownWhenDead, NoCall, Cleaning, Commanding, Gone
<1> QED
  BY <1>1, <1>2 DEF SandboxInv

\* The inductive invariant holds of every behaviour of the sandbox
LEMMA SandboxAlwaysInv == SandboxSpec => []SandboxInv
<1>1. SandboxInv /\ [SandboxNext]_sandboxVars => SandboxInv'
  BY NextType, NextCleanup, NextDeath DEF SandboxInv
<1> QED
  BY InitSandboxInv, <1>1, PTL DEF SandboxSpec

(* A session that ends without the LEAKED warning left no container and    *)
(* none appears later (remove_container_best_effort and destroy), unless   *)
(* the host could not start a client process, for all windows at least as  *)
(* long as the engine is late.                                             *)
THEOREM LeakIsNeverSilent == SandboxSpec => []NoSilentLeak
<1>1. SandboxInv => NoSilentLeak
  BY DEF SandboxInv, CleanupInv
<1> QED
  BY SandboxAlwaysInv, <1>1, PTL

(* The broker never calls a command failed whose container died under it,  *)
(* unless a probe of the engine failed, for every recheck that is at least *)
(* as long as the engine takes to report the death.                        *)
THEOREM DeathIsReportedUnknown == SandboxSpec => []UnknownWhenDead
<1>1. SandboxInv => UnknownWhenDead
  BY DEF SandboxInv, DeathInv
<1> QED
  BY SandboxAlwaysInv, <1>1, PTL

-----------------------------------------------------------------------------
(* The calls of the model.  The host uses what the last attempt answered,  *)
(* so what is said of the whole list of attempts has to be kept while the  *)
(* list grows: before the one request with reasoning off nothing in it is  *)
(* cut, at that request only its last attempt is.                          *)

\* A call has all its fields
Ask(c) ==
    c = [pc |-> c.pc, role |-> c.role, profile |-> c.profile, mode |-> c.mode, attempts |-> c.attempts,
         detail |-> c.detail, result |-> c.result, found |-> c.found]

Budget == IF MaxRetries = 0 THEN 1 ELSE MaxRetries
Uncut(d) == \A i \in DOMAIN d : ~Truncated(d[i])

\* The attempts of a call that has not ended
OpenCall ==
    /\ ask.pc # "ended" => ask.result = "none" /\ ask.found = "none"
    /\ ask.pc = "idle" => ask.attempts = 0
    /\ ask.pc \in {"idle", "request", "sleep"} => Uncut(ask.detail) /\ ask.attempts < Budget
    /\ ask.pc = "retry" =>
          /\ ask.attempts <= Budget /\ ask.mode = "off"
          /\ Len(ask.detail) > 0 /\ ask.detail[Len(ask.detail)].mode # "off"
          /\ \A i \in DOMAIN ask.detail : Truncated(ask.detail[i]) => i = Len(ask.detail)

Results == {"none", "ok", "transient", "rejected", "error", "schema", "truncated"}

\* The fields of a call; GatewayTypeOK as a fact about each of them
Typed(c) ==
    /\ Ask(c) /\ c.role \in Roles /\ c.profile \in Profiles \cup {"none"} /\ c.mode \in Modes
    /\ c.attempts \in Nat /\ c.detail \in Seq(Answered) /\ c.result \in Results
    /\ c.found \in {"none", "used", "fallback", "failed"}
    /\ c.pc \in {"idle", "request", "sleep", "retry", "ended"}

\* At most one request follows a cut one, and it is a different one
CutOnce(d) ==
    \A i \in DOMAIN d : Truncated(d[i]) => Len(d) <= i + 1 /\ (i < Len(d) => d[i].mode # d[i + 1].mode)

GatewayInv ==
    /\ Typed(ask) /\ runRows \in Seq(BOOLEAN)
    /\ OpenCall /\ RetriesHonest /\ FallbackVisible

\* What an update of one or two fields leaves
LEMMA Moved ==
  ASSUME NEW c, Ask(c), NEW z, NEW n, n = [c EXCEPT !.pc = z]
  PROVE  /\ Ask(n) /\ n.pc = z /\ n.role = c.role /\ n.profile = c.profile /\ n.mode = c.mode
         /\ n.attempts = c.attempts /\ n.detail = c.detail /\ n.result = c.result /\ n.found = c.found
<1>1. PICK f1, f2, f3, f4, f5, f6, f7, f8 :
        c = [pc |-> f1, role |-> f2, profile |-> f3, mode |-> f4, attempts |-> f5,
             detail |-> f6, result |-> f7, found |-> f8]
  BY DEF Ask
<1>2. n = [pc |-> z, role |-> f2, profile |-> f3, mode |-> f4, attempts |-> f5,
             detail |-> f6, result |-> f7, found |-> f8]
  BY <1>1
<1> QED
  BY <1>1, <1>2 DEF Ask

\* One more answer of the engine
LEMMA CountedOne ==
  ASSUME NEW c, Ask(c),  NEW n, n = [c EXCEPT !.attempts = @ + 1]
  PROVE  /\ Ask(n) /\ n.pc = c.pc /\ n.role = c.role /\ n.profile = c.profile /\ n.mode = c.mode
         /\ n.attempts = c.attempts + 1 /\ n.detail = c.detail /\ n.result = c.result /\ n.found = c.found
<1>1. PICK f1, f2, f3, f4, f5, f6, f7, f8 :
        c = [pc |-> f1, role |-> f2, profile |-> f3, mode |-> f4, attempts |-> f5,
             detail |-> f6, result |-> f7, found |-> f8]
  BY DEF Ask
<1>2. n = [pc |-> f1, role |-> f2, profile |-> f3, mode |-> f4, attempts |-> f5 + 1,
             detail |-> f6, result |-> f7, found |-> f8]
  BY <1>1
<1> QED
  BY <1>1, <1>2 DEF Ask

\* One more attempt to report
LEMMA Noted ==
  ASSUME NEW c, Ask(c), NEW z, NEW n, n = [c EXCEPT !.detail = z]
  PROVE  /\ Ask(n) /\ n.pc = c.pc /\ n.role = c.role /\ n.profile = c.profile /\ n.mode = c.mode
         /\ n.attempts = c.attempts /\ n.detail = z /\ n.result = c.result /\ n.found = c.found
<1>1. PICK f1, f2, f3, f4, f5, f6, f7, f8 :
        c = [pc |-> f1, role |-> f2, profile |-> f3, mode |-> f4, attempts |-> f5,
             detail |-> f6, result |-> f7, found |-> f8]
  BY DEF Ask
<1>2. n = [pc |-> f1, role |-> f2, profile |-> f3, mode |-> f4, attempts |-> f5,
             detail |-> z, result |-> f7, found |-> f8]
  BY <1>1
<1> QED
  BY <1>1, <1>2 DEF Ask

\* The result of a call
LEMMA Rated ==
  ASSUME NEW c, Ask(c), NEW z, NEW n, n = [c EXCEPT !.result = z]
  PROVE  /\ Ask(n) /\ n.pc = c.pc /\ n.role = c.role /\ n.profile = c.profile /\ n.mode = c.mode
         /\ n.attempts = c.attempts /\ n.detail = c.detail /\ n.result = z /\ n.found = c.found
<1>1. PICK f1, f2, f3, f4, f5, f6, f7, f8 :
        c = [pc |-> f1, role |-> f2, profile |-> f3, mode |-> f4, attempts |-> f5,
             detail |-> f6, result |-> f7, found |-> f8]
  BY DEF Ask
<1>2. n = [pc |-> f1, role |-> f2, profile |-> f3, mode |-> f4, attempts |-> f5,
             detail |-> f6, result |-> z, found |-> f8]
  BY <1>1
<1> QED
  BY <1>1, <1>2 DEF Ask

\* The mode of the next request
LEMMA Switched ==
  ASSUME NEW c, Ask(c), NEW z,  NEW n, n = [c EXCEPT !.mode = z]
  PROVE  /\ Ask(n) /\ n.pc = c.pc /\ n.role = c.role /\ n.profile = c.profile /\ n.mode = z
         /\ n.attempts = c.attempts /\ n.detail = c.detail /\ n.result = c.result /\ n.found = c.found
<1>1. PICK f1, f2, f3, f4, f5, f6, f7, f8 :
        c = [pc |-> f1, role |-> f2, profile |-> f3, mode |-> f4, attempts |-> f5,
             detail |-> f6, result |-> f7, found |-> f8]
  BY DEF Ask
<1>2. n = [pc |-> f1, role |-> f2, profile |-> f3, mode |-> z, attempts |-> f5,
             detail |-> f6, result |-> f7, found |-> f8]
  BY <1>1
<1> QED
  BY <1>1, <1>2 DEF Ask

\* What the session makes of a call
LEMMA Judged ==
  ASSUME NEW c, Ask(c), NEW z, NEW n, n = [c EXCEPT !.found = z]
  PROVE  /\ Ask(n) /\ n.pc = c.pc /\ n.role = c.role /\ n.profile = c.profile /\ n.mode = c.mode
         /\ n.attempts = c.attempts /\ n.detail = c.detail /\ n.result = c.result /\ n.found = z
<1>1. PICK f1, f2, f3, f4, f5, f6, f7, f8 :
        c = [pc |-> f1, role |-> f2, profile |-> f3, mode |-> f4, attempts |-> f5,
             detail |-> f6, result |-> f7, found |-> f8]
  BY DEF Ask
<1>2. n = [pc |-> f1, role |-> f2, profile |-> f3, mode |-> f4, attempts |-> f5,
             detail |-> f6, result |-> f7, found |-> z]
  BY <1>1
<1> QED
  BY <1>1, <1>2 DEF Ask

LEMMA BudgetNat == MaxRetries \in Nat /\ Budget \in Nat /\ MaxRetries <= Budget /\ 1 <= Budget
BY GatewayAssumption DEF Budget

\* What RetriesHonest says, as a fact about the call
Whole(a) == a.valid /\ a.finish = "stop" /\ ~a.full
Honest(c) ==
    /\ c.attempts <= Budget + 1
    /\ c.result = "ok" => Whole(c.detail[Len(c.detail)])
    /\ CutOnce(c.detail)

LEMMA HonestParts == (RetriesHonest <=> Honest(ask)) /\ (RetriesHonest' <=> Honest(ask'))
<1>1. RetriesHonest <=> Honest(ask)
  BY DEF RetriesHonest, Honest, Whole, Budget, CutOnce
<1>2. RetriesHonest' <=> Honest(ask')
  BY DEF RetriesHonest, Honest, Whole, Budget, CutOnce
<1> QED
  BY <1>1, <1>2

\* Nothing is cut in the attempts before the last one
LEMMA Appended ==
  ASSUME NEW d \in Seq(Answered), NEW a \in Answered
  PROVE  LET e == Append(d, a)
         IN  /\ e \in Seq(Answered) /\ Len(e) = Len(d) + 1 /\ e[Len(e)] = a
             /\ DOMAIN e = 1 .. Len(d) + 1 /\ DOMAIN d = 1 .. Len(d)
             /\ \A i \in 1 .. Len(d) : e[i] = d[i]
OBVIOUS

LEMMA UncutCutOnce == ASSUME NEW d, Uncut(d) PROVE CutOnce(d)
BY DEF Uncut, CutOnce

\* A call ends
LEMMA EndsKeeps ==
  ASSUME runRows \in Seq(BOOLEAN), UNCHANGED runRows,
         NEW c, Typed(c), c.found = "none", c.attempts <= Budget + 1, CutOnce(c.detail),
         NEW r \in Results, Ends(c, r),
         r = "ok" => Whole(c.detail[Len(c.detail)])
  PROVE  GatewayInv'
<1>1. ask' = [c EXCEPT !.pc = "ended", !.result = r]
  BY DEF Ends
<1>2. /\ Ask(ask') /\ ask'.pc = "ended" /\ ask'.role = c.role /\ ask'.profile = c.profile /\ ask'.mode = c.mode
      /\ ask'.attempts = c.attempts /\ ask'.detail = c.detail /\ ask'.result = r /\ ask'.found = c.found
  <2> DEFINE a == [c EXCEPT !.pc = "ended"]
  <2>1. Ask(c)
    BY DEF Typed
  <2>2. /\ Ask(a) /\ a.pc = "ended" /\ a.role = c.role /\ a.profile = c.profile /\ a.mode = c.mode
        /\ a.attempts = c.attempts /\ a.detail = c.detail /\ a.result = c.result /\ a.found = c.found
    BY <2>1, Moved
  <2>3. ask' = [a EXCEPT !.result = r]
    BY <1>1
  <2> HIDE DEF a
  <2> QED
    BY ONLY <2>2, <2>3, Rated
<1>3. Typed(ask') /\ OpenCall' /\ FallbackVisible'
  BY <1>2 DEF Typed, OpenCall, FallbackVisible
<1>4. RetriesHonest'
  BY <1>2, HonestParts DEF Honest
<1> QED
  BY <1>3, <1>4 DEF GatewayInv

\* A call waits and asks again, or ends
LEMMA AgainKeeps ==
  ASSUME runRows \in Seq(BOOLEAN), UNCHANGED runRows,
         NEW c, Typed(c), c.found = "none", c.result = "none", c.attempts <= Budget, Uncut(c.detail),
         NEW index \in Nat, c.attempts <= index, NEW r \in Results \ {"ok"}, Again(c, index, r)
  PROVE  GatewayInv'
<1>1. CASE index < MaxRetries
  <2>1. ask' = [c EXCEPT !.pc = "sleep"]
    BY <1>1 DEF Again
  <2>2. /\ Ask(ask') /\ ask'.pc = "sleep" /\ ask'.role = c.role /\ ask'.profile = c.profile /\ ask'.mode = c.mode
        /\ ask'.attempts = c.attempts /\ ask'.detail = c.detail /\ ask'.result = c.result /\ ask'.found = c.found
    BY <2>1, Moved DEF Typed
  <2>3. c.attempts < Budget /\ c.attempts <= Budget + 1
    BY <1>1, BudgetNat DEF Typed
  <2>4. Typed(ask') /\ OpenCall' /\ FallbackVisible'
    BY <2>2, <2>3 DEF Typed, OpenCall, FallbackVisible
  <2>5. RetriesHonest'
    BY <2>2, <2>3, HonestParts, UncutCutOnce DEF Honest
  <2> QED
    BY <2>4, <2>5 DEF GatewayInv
<1>2. CASE ~(index < MaxRetries)
  <2>1. c.attempts <= Budget + 1
    BY BudgetNat DEF Typed
  <2> QED
    BY <1>2, <2>1, EndsKeeps, UncutCutOnce DEF Again
<1> QED
  BY <1>1, <1>2

LEMMA CountedCall ==
  ASSUME Typed(ask)
  PROVE  /\ Typed(Counted) /\ Counted.mode = ask.mode /\ Counted.attempts = ask.attempts + 1
         /\ Counted.detail = ask.detail /\ Counted.result = ask.result /\ Counted.found = ask.found
         /\ Counted.profile = ask.profile
<1>1. Ask(ask) /\ Counted = [ask EXCEPT !.attempts = @ + 1]
  BY DEF Typed, Counted
<1>2. /\ Ask(Counted) /\ Counted.pc = ask.pc /\ Counted.role = ask.role
      /\ Counted.profile = ask.profile /\ Counted.mode = ask.mode /\ Counted.attempts = ask.attempts + 1
      /\ Counted.detail = ask.detail /\ Counted.result = ask.result /\ Counted.found = ask.found
  BY ONLY <1>1, CountedOne
<1> QED
  BY <1>2 DEF Typed

LEMMA NotedCall ==
  ASSUME Typed(ask), NEW a \in Answered, NEW c, c = [Counted EXCEPT !.detail = Append(@, a)]
  PROVE  /\ Typed(c) /\ c.mode = ask.mode /\ c.attempts = ask.attempts + 1
         /\ c.detail = Append(ask.detail, a) /\ c.result = ask.result /\ c.found = ask.found
         /\ c.profile = ask.profile
<1>1. Typed(Counted)
  BY CountedCall
<1>2. Ask(Counted)
  BY <1>1 DEF Typed
<1>3. /\ Ask(c) /\ c.pc = Counted.pc /\ c.role = Counted.role
      /\ c.profile = Counted.profile /\ c.mode = Counted.mode /\ c.attempts = Counted.attempts
      /\ c.detail = Append(Counted.detail, a) /\ c.result = Counted.result /\ c.found = Counted.found
  <2>1. PICK d : d = Append(Counted.detail, a)
    OBVIOUS
  <2>2. c = [Counted EXCEPT !.detail = d]
    BY <2>1
  <2>3. /\ Ask(c) /\ c.pc = Counted.pc /\ c.role = Counted.role
        /\ c.profile = Counted.profile /\ c.mode = Counted.mode /\ c.attempts = Counted.attempts
        /\ c.detail = d /\ c.result = Counted.result /\ c.found = Counted.found
    BY ONLY <1>2, <2>2, Noted
  <2> QED
    BY <2>1, <2>3
<1>4. Append(ask.detail, a) \in Seq(Answered)
  BY DEF Typed
<1> QED
  BY <1>1, <1>3, <1>4, CountedCall DEF Typed

\* The answer to the first request that is cut, if any is
LEMMA FirstCut ==
  ASSUME NEW d \in Seq(Answered), Uncut(d), NEW a \in Answered, NEW e, e = Append(d, a)
  PROVE  /\ CutOnce(e) /\ (~Truncated(a) => Uncut(e))
         /\ \A i \in DOMAIN e : Truncated(e[i]) => i = Len(e)
         /\ Len(e) > 0 /\ e[Len(e)] = a
<1>1. /\ e \in Seq(Answered) /\ Len(e) = Len(d) + 1 /\ e[Len(e)] = a
      /\ DOMAIN e = 1 .. Len(d) + 1 /\ DOMAIN d = 1 .. Len(d)
      /\ \A i \in 1 .. Len(d) : e[i] = d[i]
  BY Appended
<1>2. \A i \in DOMAIN e : Truncated(e[i]) => i = Len(e)
  BY <1>1 DEF Uncut
<1>3. Len(d) \in Nat
  OBVIOUS
<1>4. ~Truncated(a) => Uncut(e)
  BY <1>1, <1>2 DEF Uncut
<1>5. CutOnce(e)
  BY <1>1, <1>2, <1>3 DEF CutOnce
<1> QED
  BY <1>1, <1>2, <1>3, <1>4, <1>5

\* The request after a cut answer
LEMMA AfterCut ==
  ASSUME NEW d \in Seq(Answered), Len(d) > 0, d[Len(d)].mode # "off",
         \A i \in DOMAIN d : Truncated(d[i]) => i = Len(d),
         NEW a \in Answered, a.mode = "off", NEW e, e = Append(d, a)
  PROVE  CutOnce(e) /\ e[Len(e)] = a
<1>1. /\ e \in Seq(Answered) /\ Len(e) = Len(d) + 1 /\ e[Len(e)] = a
      /\ DOMAIN e = 1 .. Len(d) + 1 /\ DOMAIN d = 1 .. Len(d)
      /\ \A i \in 1 .. Len(d) : e[i] = d[i]
  BY Appended
<1>2. Len(d) \in Nat
  OBVIOUS
<1>3. ASSUME NEW i \in DOMAIN e, Truncated(e[i])
      PROVE  Len(e) <= i + 1 /\ (i < Len(e) => e[i].mode # e[i + 1].mode)
  <2>1. i \in 1 .. Len(d) + 1
    BY <1>1
  <2>2. CASE i = Len(d) + 1
    BY <1>1, <1>2, <2>2
  <2>3. CASE i \in 1 .. Len(d)
    <3>1. i = Len(d)
      BY <1>1, <1>3, <2>3
    <3>2. e[i] = d[Len(d)] /\ e[i + 1] = a
      BY <1>1, <1>2, <2>3, <3>1
    <3> QED
      BY <1>1, <1>2, <3>1, <3>2
  <2> QED
    BY <1>2, <2>1, <2>2, <2>3
<1> QED
  BY <1>1, <1>3 DEF CutOnce

\* The rows of unusable attempts are as many as those
LEMMA InvalidRowsType ==
  ASSUME NEW d \in Seq(Answered)
  PROVE  /\ InvalidRows(d) \in Seq(BOOLEAN)
         /\ Unusable(d) # {} => Len(InvalidRows(d)) > 0 /\ InvalidRows(d)[1] = FALSE
<1> DEFINE n == Cardinality(Unusable(d))
<1>1. IsFiniteSet(Unusable(d))
  <2>1. IsFiniteSet(1 .. Len(d))
    BY FS_Interval
  <2>2. Unusable(d) \subseteq 1 .. Len(d)
    BY DEF Unusable
  <2> QED
    BY <2>1, <2>2, FS_Subset
<1>2. n \in Nat /\ (Unusable(d) # {} => n # 0)
  BY <1>1, FS_CardinalityType, FS_EmptySet
<1>3. InvalidRows(d) = [i \in 1 .. n |-> FALSE]
  BY DEF InvalidRows
<1> HIDE DEF n
<1> QED
  BY <1>2, <1>3

\* A row of an attempt that cannot be used stays visible
LEMMA FallbackIsVisible ==
  ASSUME NEW d \in Seq(Answered), NEW s \in Seq(BOOLEAN)
  PROVE  \E i \in DOMAIN (s \o FallbackRows(d)) : ~(s \o FallbackRows(d))[i]
<1> DEFINE f == FallbackRows(d)
<1>1. f \in Seq(BOOLEAN) /\ Len(f) > 0 /\ f[1] = FALSE
  <2>1. CASE Unusable(d) = {}
    BY <2>1 DEF FallbackRows
  <2>2. CASE Unusable(d) # {}
    BY <2>2, InvalidRowsType DEF FallbackRows
  <2> QED
    BY <2>1, <2>2
<1> HIDE DEF f
<1>2. /\ Len(s) + 1 \in DOMAIN (s \o f)
      /\ (s \o f)[Len(s) + 1] = f[1]
  BY <1>1
<1>3. \E i \in DOMAIN (s \o f) : ~(s \o f)[i]
  BY <1>1, <1>2
<1> QED
  BY <1>3 DEF f

\* One step per outcome of a request and per way the session takes it
LEMMA NextGatewayInv == GatewayInv /\ [GatewayNext]_gatewayVars => GatewayInv'
<1> SUFFICES ASSUME GatewayInv, [GatewayNext]_gatewayVars PROVE GatewayInv'
  OBVIOUS
<1>0. /\ Typed(ask) /\ runRows \in Seq(BOOLEAN) /\ OpenCall /\ RetriesHonest /\ FallbackVisible
      /\ ask.attempts \in Nat /\ ask.detail \in Seq(Answered) /\ Ask(ask)
  BY DEF GatewayInv, Typed
<1>a. Ask(ask)
  BY <1>0
<1>h. Honest(ask)
  BY <1>0, HonestParts
<1>1. CASE NoAnswer
  <2>1. /\ ask.pc = "request" /\ UNCHANGED runRows /\ Again(ask, ask.attempts + 1, "transient")
    BY <1>1 DEF NoAnswer
  <2>2. /\ ask.found = "none" /\ ask.result = "none" /\ ask.attempts <= Budget /\ Uncut(ask.detail)
        /\ ask.attempts <= ask.attempts + 1 /\ ask.attempts + 1 \in Nat
    BY <1>0, <2>1, BudgetNat DEF OpenCall
  <2>3. "transient" \in Results \ {"ok"}
    BY DEF Results
  <2> QED
    BY <1>0, <2>1, <2>2, <2>3, AgainKeeps
<1>2. CASE TransientStatus
  <2>1. /\ ask.pc = "request" /\ UNCHANGED runRows /\ Again(Counted, ask.attempts + 1, "transient")
    BY <1>2 DEF TransientStatus
  <2>2. /\ Typed(Counted) /\ Counted.found = "none" /\ Counted.result = "none" /\ Uncut(Counted.detail)
        /\ Counted.attempts = ask.attempts + 1
    BY <1>0, <2>1, CountedCall DEF OpenCall
  <2>3. Counted.attempts <= Budget /\ Counted.attempts <= ask.attempts + 1 /\ ask.attempts + 1 \in Nat
    BY <1>0, <2>1, <2>2, BudgetNat DEF OpenCall
  <2>4. "transient" \in Results \ {"ok"}
    BY DEF Results
  <2> QED
    BY <1>0, <2>1, <2>2, <2>3, <2>4, AgainKeeps
<1>3. ASSUME NEW r \in {"rejected", "error"}, FinalStatus(r) PROVE GatewayInv'
  <2>1. /\ ask.pc = "request" /\ UNCHANGED runRows /\ Ends(Counted, r)
    BY <1>3 DEF FinalStatus
  <2>2. /\ Typed(Counted) /\ Counted.found = "none" /\ Uncut(Counted.detail)
        /\ Counted.attempts = ask.attempts + 1
    BY <1>0, <2>1, CountedCall DEF OpenCall
  <2>3. Counted.attempts <= Budget + 1
    BY <1>0, <2>1, <2>2, BudgetNat DEF OpenCall
  <2>4. r \in Results /\ r # "ok" /\ CutOnce(Counted.detail)
    BY <2>2, UncutCutOnce DEF Results
  <2> QED
    BY <1>0, <2>1, <2>2, <2>3, <2>4, EndsKeeps
<1>4. ASSUME NEW a \in Answered, Answer(a) PROVE GatewayInv'
  <2>1. PICK c : c = [Counted EXCEPT !.detail = Append(@, a)]
    OBVIOUS
  <2>2. /\ ask.pc = "request" /\ a.mode = ask.mode /\ UNCHANGED runRows
        /\ IF Truncated(a)
           THEN IF CanRetryDifferently(c) THEN ask' = [c EXCEPT !.pc = "retry", !.mode = "off"]
                                          ELSE Ends(c, "truncated")
           ELSE IF a.valid THEN Ends(c, "ok") ELSE Again(c, ask.attempts + 1, "schema")
    BY <1>4, <2>1 DEF Answer
  <2>3. /\ Typed(c) /\ c.mode = ask.mode /\ c.attempts = ask.attempts + 1
        /\ c.detail = Append(ask.detail, a) /\ c.result = ask.result /\ c.found = ask.found
    BY <1>0, <2>1, NotedCall
  <2>4. /\ ask.result = "none" /\ ask.found = "none" /\ Uncut(ask.detail) /\ ask.attempts < Budget
    BY <1>0, <2>2 DEF OpenCall
  <2>5. /\ CutOnce(c.detail) /\ (~Truncated(a) => Uncut(c.detail))
        /\ \A i \in DOMAIN c.detail : Truncated(c.detail[i]) => i = Len(c.detail)
        /\ Len(c.detail) > 0 /\ c.detail[Len(c.detail)] = a
    BY <1>0, <2>3, <2>4, FirstCut
  <2>6. c.attempts <= Budget /\ c.attempts <= Budget + 1
    BY <1>0, <2>3, <2>4, BudgetNat
  <2>7. CASE Truncated(a) /\ CanRetryDifferently(c)
    <3>0. PICK b : b = [c EXCEPT !.pc = "retry"]
      OBVIOUS
    <3>1. Ask(c)
      BY <2>3 DEF Typed
    <3>2. /\ Ask(b) /\ b.pc = "retry" /\ b.role = c.role /\ b.profile = c.profile /\ b.mode = c.mode
          /\ b.attempts = c.attempts /\ b.detail = c.detail /\ b.result = c.result /\ b.found = c.found
      BY ONLY <3>0, <3>1, Moved
    <3>3. ask' = [b EXCEPT !.mode = "off"]
      BY <2>2, <2>7, <3>0
    <3>4. /\ Ask(ask') /\ ask'.pc = b.pc /\ ask'.role = b.role /\ ask'.profile = b.profile /\ ask'.mode = "off"
          /\ ask'.attempts = b.attempts /\ ask'.detail = b.detail /\ ask'.result = b.result /\ ask'.found = b.found
      BY ONLY <3>2, <3>3, Switched
    <3>5. Typed(ask')
      BY <2>3, <3>2, <3>4 DEF Typed, Modes
    <3>6. ask'.mode = "off" /\ c.detail[Len(c.detail)].mode # "off"
      BY <2>2, <2>3, <2>5, <2>7, <3>4 DEF CanRetryDifferently
    <3>7. OpenCall'
      BY <2>3, <2>4, <2>5, <2>6, <3>2, <3>4, <3>6 DEF OpenCall
    <3>8. Honest(ask')
      BY <2>3, <2>4, <2>5, <2>6, <3>2, <3>4 DEF Honest
    <3>9. FallbackVisible'
      BY <2>3, <2>4, <3>2, <3>4 DEF FallbackVisible
    <3> QED
      BY <1>0, <2>2, <3>5, <3>7, <3>8, <3>9, HonestParts DEF GatewayInv
  <2>8. CASE Truncated(a) /\ ~CanRetryDifferently(c)
    <3>1. Ends(c, "truncated") /\ "truncated" \in Results
      BY <2>2, <2>8 DEF Results
    <3> QED
      BY <1>0, <2>2, <2>3, <2>4, <2>5, <2>6, <3>1, EndsKeeps
  <2>9. CASE ~Truncated(a) /\ a.valid
    <3>1. Ends(c, "ok") /\ "ok" \in Results
      BY <2>2, <2>9 DEF Results
    <3>2. Whole(c.detail[Len(c.detail)])
      BY <2>5, <2>9 DEF Whole, Truncated, Answered
    <3> QED
      BY <1>0, <2>2, <2>3, <2>4, <2>5, <2>6, <3>1, <3>2, EndsKeeps
  <2>10. CASE ~Truncated(a) /\ ~a.valid
    <3>1. Again(c, ask.attempts + 1, "schema") /\ "schema" \in Results \ {"ok"}
      BY <2>2, <2>10 DEF Results
    <3>2. ask.attempts + 1 \in Nat /\ c.attempts <= ask.attempts + 1
      BY <1>0, <2>3
    <3> QED
      BY <1>0, <2>2, <2>3, <2>4, <2>5, <2>6, <2>10, <3>1, <3>2, AgainKeeps
  <2> QED
    BY <2>7, <2>8, <2>9, <2>10
<1>5. CASE Wake
  <2>0. ask' = [ask EXCEPT !.pc = "request"]
    BY <1>5 DEF Wake
  <2>1. ask.pc = "sleep" /\ UNCHANGED runRows
    BY <1>5 DEF Wake
  <2>2. /\ Ask(ask') /\ ask'.pc = "request" /\ ask'.role = ask.role
        /\ ask'.profile = ask.profile /\ ask'.mode = ask.mode /\ ask'.attempts = ask.attempts
        /\ ask'.detail = ask.detail /\ ask'.result = ask.result /\ ask'.found = ask.found
    BY ONLY <1>a, <2>0, Moved
  <2>3. Typed(ask') /\ OpenCall' /\ FallbackVisible'
    BY <1>0, <2>1, <2>2 DEF Typed, OpenCall, FallbackVisible
  <2>4. Honest(ask')
    BY <1>h, <2>2 DEF Honest
  <2> QED
    BY <1>0, <2>1, <2>3, <2>4, HonestParts DEF GatewayInv
<1>6. CASE RetryNoAnswer
  <2>1. ask.pc = "retry" /\ Ends(ask, "transient") /\ UNCHANGED runRows /\ "transient" \in Results
    BY <1>6 DEF RetryNoAnswer, Results
  <2>2. ask.found = "none" /\ ask.attempts <= Budget + 1 /\ CutOnce(ask.detail)
    BY <1>0, <1>h, <2>1 DEF OpenCall, Honest
  <2> QED
    BY <1>0, <2>1, <2>2, EndsKeeps
<1>7. ASSUME NEW r \in {"transient", "rejected", "truncated"}, RetryStatus(r) PROVE GatewayInv'
  <2>1. ask.pc = "retry" /\ Ends(Counted, r) /\ UNCHANGED runRows /\ r \in Results /\ r # "ok"
    BY <1>7 DEF RetryStatus, Results
  <2>2. /\ Typed(Counted) /\ Counted.found = "none" /\ CutOnce(Counted.detail)
        /\ Counted.attempts = ask.attempts + 1
    BY <1>0, <1>h, <2>1, CountedCall DEF OpenCall, Honest
  <2>3. Counted.attempts <= Budget + 1
    BY <1>0, <2>1, <2>2, BudgetNat DEF OpenCall
  <2> QED
    BY <1>0, <2>1, <2>2, <2>3, EndsKeeps
<1>8. ASSUME NEW a \in Answered, RetryAnswer(a) PROVE GatewayInv'
  <2> DEFINE r == IF a.valid /\ ~Truncated(a) THEN "ok" ELSE "truncated"
  <2>1. PICK c : c = [Counted EXCEPT !.detail = Append(@, a)]
    OBVIOUS
  <2>2. ask.pc = "retry" /\ a.mode = ask.mode /\ Ends(c, r) /\ UNCHANGED runRows
    BY <1>8, <2>1 DEF RetryAnswer
  <2>3. /\ Typed(c) /\ c.mode = ask.mode /\ c.attempts = ask.attempts + 1
        /\ c.detail = Append(ask.detail, a) /\ c.result = ask.result /\ c.found = ask.found
    BY <1>0, <2>1, NotedCall
  <2>4. /\ ask.found = "none" /\ ask.attempts <= Budget /\ ask.mode = "off"
        /\ Len(ask.detail) > 0 /\ ask.detail[Len(ask.detail)].mode # "off"
        /\ \A i \in DOMAIN ask.detail : Truncated(ask.detail[i]) => i = Len(ask.detail)
    BY <1>0, <2>2 DEF OpenCall
  <2>5. CutOnce(c.detail) /\ c.detail[Len(c.detail)] = a
    BY <1>0, <2>2, <2>3, <2>4, AfterCut
  <2>6. c.attempts <= Budget + 1
    BY <1>0, <2>3, <2>4, BudgetNat
  <2>7. r \in Results
    BY DEF Results
  <2>8. r = "ok" => Whole(c.detail[Len(c.detail)])
    BY <2>5 DEF Whole, Truncated, Answered
  <2> HIDE DEF r
  <2> QED
    BY <1>0, <2>2, <2>3, <2>4, <2>5, <2>6, <2>7, <2>8, EndsKeeps
<1>9. ASSUME NEW f, f \in {"used", "fallback", "failed"}, NEW s, s \in Seq(BOOLEAN),
             ask.pc = "ended", ask' = [ask EXCEPT !.found = f], runRows' = s,
             f = "fallback" /\ ask.result # "ok" => \E i \in DOMAIN s : ~s[i]
      PROVE  GatewayInv'
  <2>0. ask' = [ask EXCEPT !.found = f]
    BY <1>9
  <2>1. /\ Ask(ask') /\ ask'.pc = ask.pc /\ ask'.role = ask.role
        /\ ask'.profile = ask.profile /\ ask'.mode = ask.mode /\ ask'.attempts = ask.attempts
        /\ ask'.detail = ask.detail /\ ask'.result = ask.result /\ ask'.found = f
    BY ONLY <1>a, <2>0, Judged
  <2>2. Typed(ask') /\ OpenCall'
    BY <1>0, <1>9, <2>1 DEF Typed, OpenCall
  <2>3. FallbackVisible'
    BY <1>9, <2>1 DEF FallbackVisible
  <2>4. Honest(ask')
    BY <1>h, <2>1 DEF Honest
  <2> QED
    BY <1>9, <2>2, <2>3, <2>4, HonestParts DEF GatewayInv
<1>10. InvalidRows(ask.detail) \in Seq(BOOLEAN)
  BY <1>0, InvalidRowsType
<1>11. ASSUME NEW ok \in BOOLEAN, RecordSuccess(ok) PROVE GatewayInv'
  <2> DEFINE s == runRows \o <<TRUE>> \o InvalidRows(ask.detail)
  <2>1. ask.pc = "ended" /\ ask.result = "ok" /\ runRows' = s
    BY <1>11 DEF RecordSuccess
  <2>2. s \in Seq(BOOLEAN)
    BY <1>0, <1>10
  <2>3. PICK f \in {"used", "fallback", "failed"} : ask' = [ask EXCEPT !.found = f]
    BY <1>11 DEF RecordSuccess
  <2> HIDE DEF s
  <2> QED
    BY <1>9, <2>1, <2>2, <2>3
<1>12. CASE RecordFallback
  <2> DEFINE s == runRows \o FallbackRows(ask.detail)
  <2>1. ask.pc = "ended" /\ ask' = [ask EXCEPT !.found = "fallback"] /\ runRows' = s
    BY <1>12 DEF RecordFallback
  <2>2. s \in Seq(BOOLEAN)
    <3>1. FallbackRows(ask.detail) \in Seq(BOOLEAN)
      <4>1. CASE Unusable(ask.detail) = {}
        BY <4>1 DEF FallbackRows
      <4>2. CASE Unusable(ask.detail) # {}
        BY <1>10, <4>2 DEF FallbackRows
      <4> QED
        BY <4>1, <4>2
    <3> QED
      BY <1>0, <3>1
  <2>3. \E i \in DOMAIN s : ~s[i]
    BY <1>0, FallbackIsVisible
  <2> HIDE DEF s
  <2> QED
    BY <1>9, <2>1, <2>2, <2>3
<1>13. CASE RecordUnusable \/ RecordError
  <2>1. /\ ask.pc = "ended" /\ ask' = [ask EXCEPT !.found = "failed"]
        /\ (runRows' = runRows \/ runRows' = runRows \o InvalidRows(ask.detail))
    BY <1>13 DEF RecordUnusable, RecordError
  <2>2. runRows' \in Seq(BOOLEAN)
    <3>1. CASE runRows' = runRows
      BY <1>0, <3>1
    <3>2. CASE runRows' = runRows \o InvalidRows(ask.detail)
      <4>1. runRows \o InvalidRows(ask.detail) \in Seq(BOOLEAN)
        BY <1>0, <1>10
      <4> QED
        BY <3>2, <4>1
    <3> QED
      BY <2>1, <3>1, <3>2
  <2> QED
    BY <1>9, <2>1, <2>2
<1>14. ASSUME ask' \in [pc : {"idle", "request"}, role : Roles, profile : Profiles \cup {"none"}, mode : Modes,
                        attempts : {0}, detail : {<<>>}, result : {"none"}, found : {"none"}],
              runRows' \in Seq(BOOLEAN)
       PROVE  GatewayInv'
  <2>1. Typed(ask')
    <3>1. Ask(ask')
      BY <1>14 DEF Ask
    <3>2. ask'.detail = <<>> /\ ask'.attempts = 0
      BY <1>14
    <3>3. ask'.detail \in Seq(Answered) /\ ask'.attempts \in Nat
      BY <3>2
    <3>4. /\ ask'.role \in Roles /\ ask'.profile \in Profiles \cup {"none"} /\ ask'.mode \in Modes
          /\ ask'.pc \in {"idle", "request"} /\ ask'.result = "none" /\ ask'.found = "none"
      BY <1>14
    <3> QED
      BY <3>1, <3>3, <3>4 DEF Typed, Results
  <2>2. /\ ask'.pc \in {"idle", "request"} /\ ask'.attempts = 0 /\ ask'.detail = <<>>
        /\ ask'.result = "none" /\ ask'.found = "none"
    BY <1>14
  <2>3. OpenCall' /\ FallbackVisible'
    BY <2>2, BudgetNat DEF OpenCall, FallbackVisible, Uncut
  <2>4. Honest(ask')
    BY <2>2, BudgetNat DEF Honest, CutOnce
  <2> QED
    BY <1>14, <2>1, <2>3, <2>4, HonestParts DEF GatewayInv
<1>15. ASSUME NEW role \in Roles, NEW profile \in Profiles, NEW mode \in Modes, BeginCall(role, profile, mode)
       PROVE  GatewayInv'
  <2>1. ask' = [pc |-> "request", role |-> role, profile |-> profile, mode |-> mode, attempts |-> 0,
                detail |-> <<>>, result |-> "none", found |-> "none"]
    BY <1>15 DEF BeginCall, NoAsk
  <2>2. runRows' \in Seq(BOOLEAN)
    BY <1>0, <1>15 DEF BeginCall
  <2> QED
    BY <1>14, <2>1, <2>2
<1>16. CASE NextCall
  <2>1. ask' = NoAsk /\ runRows' = <<>>
    BY <1>16 DEF NextCall
  <2> QED
    BY <1>14, <2>1 DEF NoAsk, Roles, Modes
<1>17. CASE UNCHANGED gatewayVars
  <2>1. ask' = ask /\ runRows' = runRows
    BY <1>17 DEF gatewayVars
  <2>2. OpenCall' /\ FallbackVisible' /\ RetriesHonest'
    BY <1>0, <2>1 DEF OpenCall, FallbackVisible, RetriesHonest
  <2> QED
    BY <1>0, <2>1, <2>2 DEF GatewayInv
<1> QED
  BY <1>1, <1>2, <1>3, <1>4, <1>5, <1>6, <1>7, <1>8, <1>11, <1>12, <1>13, <1>15, <1>16, <1>17
     DEF GatewayNext, GatewayStep

\* The call before the first request
LEMMA InitGatewayInv == GatewayInit => GatewayInv
<1> SUFFICES ASSUME GatewayInit PROVE GatewayInv
  OBVIOUS
<1>1. ask = NoAsk /\ runRows = <<>>
  BY DEF GatewayInit
<1>2. Typed(ask)
  BY <1>1 DEF NoAsk, Typed, Ask, Roles, Modes, Results
<1>3. /\ ask.pc = "idle" /\ ask.attempts = 0 /\ ask.detail = <<>> /\ ask.result = "none" /\ ask.found = "none"
  BY <1>1 DEF NoAsk
<1>4. OpenCall /\ FallbackVisible
  BY <1>3, BudgetNat DEF OpenCall, FallbackVisible, Uncut
<1>5. Honest(ask)
  BY <1>3, BudgetNat DEF Honest, CutOnce
<1> QED
  BY <1>1, <1>2, <1>4, <1>5, HonestParts DEF GatewayInv

(* For any budget of retries the bad schemas, the statuses, the silent     *)
(* network and the one request with reasoning off never add up to more     *)
(* than one request beyond it, and nothing cut is used.                    *)
THEOREM RetriesAreHonest == GatewaySpec => []RetriesHonest
<1>1. GatewayInv => RetriesHonest
  BY DEF GatewayInv
<1> QED
  BY <1>1, InitGatewayInv, NextGatewayInv, PTL DEF GatewaySpec

\* A helper's fallback leaves a row that says so, whatever attempts its error carries
THEOREM FallbackIsRecorded == GatewaySpec => []FallbackVisible
<1>1. GatewayInv => FallbackVisible
  BY DEF GatewayInv
<1> QED
  BY <1>1, InitGatewayInv, NextGatewayInv, PTL DEF GatewaySpec
=============================================================================
