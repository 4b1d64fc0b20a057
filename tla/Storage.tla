------------------------------ MODULE Storage -------------------------------
(***************************************************************************)
(* The artifact registry and the artifact store: what the research proxy   *)
(* (apps/research_proxy/service.py), a session's commit                    *)
(* (packages/memory/service.py), a backup (packages/backup/) and the       *)
(* garbage collector (packages/gc/service.py) do to the rows of the        *)
(* database and to the content-addressed files beside it, which no         *)
(* transaction covers.                                                     *)
(*                                                                         *)
(* A page stands for its original and its normalised text.  An observation *)
(* has a registry row and no file.  Evidence is of two kinds: what was     *)
(* read off a page (source_assertion, quote_integrity) and what was run    *)
(* (the four other kinds); only the second needs its observation's row in  *)
(* the schema.  An inventory is the list of the rows at a backup.          *)
(* The sweeps of workspace manifests, barriers, attempts and closure       *)
(* manifests are left out.                                                 *)
(***************************************************************************)
EXTENDS Integers, FiniteSets

CONSTANTS
    PageNames,   \* web pages
    ObsNames,    \* observations a session may record
    MaxRowIds,   \* bound: row ids ever issued
    MaxEvidence, \* bound: evidence
    MaxBackups,  \* bound: backups
    MaxStops     \* bound: timeouts and deaths

ASSUME StorageAssumption ==
    /\ IsFiniteSet(PageNames) /\ IsFiniteSet(ObsNames)
    /\ MaxRowIds \in Nat \ {0} /\ MaxEvidence \in Nat /\ MaxBackups \in Nat /\ MaxStops \in Nat

VARIABLES
    rows,      \* artifacts: row ids <<content, number>>
    issued,    \* row ids ever issued
    expired,   \* rows past the retention of artifacts
    blobs,     \* the contents whose file is in the store
    sources,   \* sources: pages, by content hash
    evidence,  \* evidence: its kind, its page, the row of its observation, and (history)
               \* whether a sweep had planned to delete that row when it was committed
    manifests, \* backup_manifests
    pinned,    \* gc_pinned's row of kind artifact: the kind is the primary key
    hostOps,   \* what build_host_state finds in the host's journal
    fetch,     \* a fetch of the research proxy
    backup,    \* a run of the backup command
    sweep,     \* a run of gc --apply
    stops      \* timeouts and deaths so far

dbVars == <<rows, issued, expired, sources, evidence, manifests, pinned>>
storageVars == <<dbVars, blobs, hostOps, fetch, backup, sweep, stops>>

Page(p) == <<"page", p>>
Obs(o) == <<"obs", o>>
Inventory(ids) == <<"inventory", ids>>
NoRow == <<>>

Idle == [pc |-> "idle"]

StorageInit ==
    /\ rows = {} /\ issued = {} /\ expired = {} /\ blobs = {} /\ sources = {} /\ evidence = {}
    /\ manifests = {} /\ pinned = NoRow /\ hostOps = "absent"
    /\ fetch = Idle /\ backup = Idle /\ sweep = Idle /\ stops = 0

-----------------------------------------------------------------------------
RowsOf(c) == {r \in rows : r[1] = c}
Number(c) == Cardinality({r \in issued : r[1] = c}) + 1
NewRow(c) == <<c, Number(c)>>

\* SELECT id by sha256, INSERT when there is none
EnsureRow(c) ==
    /\ RowsOf(c) = {} => Cardinality(issued) < MaxRowIds
    /\ rows' = IF RowsOf(c) = {} THEN rows \cup {NewRow(c)} ELSE rows
    /\ issued' = issued \cup rows'
RowFor(c) == IF RowsOf(c) = {} THEN NewRow(c) ELSE CHOOSE r \in RowsOf(c) : TRUE

-----------------------------------------------------------------------------
(* _persist_and_normalize: put keeps a file that is there already.  A      *)
(* fetch that is refused or fails before this changes nothing.             *)
FetchStore(p) ==
    /\ fetch.pc = "idle"
    /\ blobs' = blobs \cup {Page(p)}
    /\ fetch' = [pc |-> "stored", page |-> p]
    /\ UNCHANGED <<dbVars, hostOps, backup, sweep, stops>>

\* The transaction looks for the row first
FetchLook ==
    /\ fetch.pc = "stored"
    /\ fetch' = [pc |-> "looked", page |-> fetch.page, found |-> RowsOf(Page(fetch.page)) # {}]
    /\ UNCHANGED <<dbVars, blobs, hostOps, backup, sweep, stops>>

(* The rest of it: the row, the source (one per content) and the chunk,    *)
(* whose artifact is looked up again: if the row that was found is gone    *)
(* the insert of the chunk fails and the transaction with it.              *)
FetchJournal ==
    /\ fetch.pc = "looked"
    /\ LET c == Page(fetch.page)
       IN  IF fetch.found /\ RowsOf(c) = {}
           THEN UNCHANGED <<rows, issued, sources>>
           ELSE EnsureRow(c) /\ sources' = sources \cup {fetch.page}
    /\ fetch' = Idle
    /\ UNCHANGED <<expired, blobs, evidence, manifests, pinned, hostOps, backup, sweep, stops>>

\* The read budget runs out, in the transaction or before it
FetchTimeout ==
    /\ fetch.pc # "idle" /\ stops < MaxStops
    /\ stops' = stops + 1
    /\ fetch' = Idle
    /\ UNCHANGED <<dbVars, blobs, hostOps, backup, sweep>>

Kinds == {"read", "run"}
Planned == IF sweep.pc = "idle" THEN {} ELSE sweep.plan

(* One record of a session's final transaction: the artifact row comes     *)
(* first (_ensure_artifact), then the evidence, unless the record is a     *)
(* known fact (deduplicated) or has no provenance: then nothing refers to  *)
(* the row.                                                                *)
CommitEvidence(kind, p, o) ==
    /\ kind = "read" => p \in sources
    /\ EnsureRow(Obs(o))
    /\ LET r == RowFor(Obs(o))
           e == [kind |-> kind, page |-> IF kind = "read" THEN p ELSE "none", obs |-> r,
                 late |-> r \in Planned]
       IN  \/ UNCHANGED evidence
           \/ Cardinality(evidence) < MaxEvidence /\ evidence' = evidence \cup {e}
    /\ UNCHANGED <<expired, blobs, sources, manifests, pinned, hostOps, fetch, backup, sweep, stops>>

\* Thirty days pass
Expire(r) ==
    /\ r \in rows \ expired
    /\ expired' = expired \cup {r}
    /\ UNCHANGED <<rows, issued, blobs, sources, evidence, manifests, pinned, hostOps, fetch, backup, sweep,
                   stops>>

\* An operator's INSERT into gc_pinned; a second artifact is refused
Pin(r) ==
    /\ r \in rows /\ pinned = NoRow
    /\ pinned' = r
    /\ UNCHANGED <<rows, issued, expired, blobs, sources, evidence, manifests, hostOps, fetch, backup, sweep,
                   stops>>

\* A transition or a policy change of the host begins or ends
HostChanges(h) ==
    /\ h # hostOps
    /\ hostOps' = h
    /\ UNCHANGED <<dbVars, blobs, fetch, backup, sweep, stops>>

-----------------------------------------------------------------------------
\* create_backup: the inventory lists the rows and is put into the store
BackupPut ==
    /\ backup.pc = "idle" /\ Cardinality(manifests) < MaxBackups
    /\ blobs' = blobs \cup {Inventory(rows)}
    /\ backup' = [pc |-> "put", inv |-> Inventory(rows)]
    /\ UNCHANGED <<dbVars, hostOps, fetch, sweep, stops>>

\* Its row and the manifest, with the state of the host at this moment
BackupCommit ==
    /\ backup.pc = "put"
    /\ EnsureRow(backup.inv)
    /\ manifests' = manifests \cup {[inv |-> RowFor(backup.inv), host |-> hostOps, kept |-> TRUE,
                                     verified |-> FALSE]}
    /\ backup' = Idle
    /\ UNCHANGED <<expired, blobs, sources, evidence, pinned, hostOps, fetch, sweep, stops>>

\* retention_until passes; the manifest stays
BackupExpires(m) ==
    /\ m \in manifests /\ m.kept
    /\ manifests' = (manifests \ {m}) \cup {[m EXCEPT !.kept = FALSE]}
    /\ UNCHANGED <<rows, issued, expired, blobs, sources, evidence, pinned, hostOps, fetch, backup, sweep,
                   stops>>

(* run_restore_drill on a retained backup: the inventory must be readable, *)
(* its rows registered under the same ids, the host as recorded.  A listed *)
(* file that is gone is not a problem.                                     *)
Restorable(m) ==
    /\ m.inv[1] \in blobs
    /\ m.inv[1][2] \subseteq rows
    /\ m.host = hostOps

Drill(m) ==
    /\ m \in manifests /\ m.kept /\ Restorable(m)
    /\ manifests' = (manifests \ {m}) \cup {[m EXCEPT !.verified = TRUE]}
    /\ UNCHANGED <<rows, issued, expired, blobs, sources, evidence, pinned, hostOps, fetch, backup, sweep,
                   stops>>

-----------------------------------------------------------------------------
\* Fault: the inventories of backups are no roots
RootsWithoutBackups == {e.obs : e \in evidence}

(* _root_set_sql, as far as it names artifacts: the rows that evidence and *)
(* backups refer to.  A page is referred to by its content hash only.      *)
Roots == {e.obs : e \in evidence} \cup {m.inv : m \in manifests}

\* list_gc_roots
SweepPlan ==
    /\ sweep.pc = "idle"
    /\ LET plan == expired \ (Roots \cup {pinned})
       IN  plan # {} /\ sweep' = [pc |-> "files", plan |-> plan, left |-> plan]
    /\ UNCHANGED <<dbVars, blobs, hostOps, fetch, backup, stops>>

\* The files go first, one by one
SweepFile ==
    /\ sweep.pc = "files"
    /\ \E r \in sweep.left :
          /\ blobs' = blobs \ {r[1]}
          /\ sweep' = IF sweep.left = {r} THEN [pc |-> "rows", plan |-> sweep.plan]
                                          ELSE [sweep EXCEPT !.left = @ \ {r}]
    /\ UNCHANGED <<dbVars, hostOps, fetch, backup, stops>>

(* Then the rows, in the transaction of the plan.  The evidence committed  *)
(* since that refers to one of them loses its observation (ON DELETE SET   *)
(* NULL).  For what was run a CHECK forbids this: the whole transaction    *)
(* fails and the files stay deleted.  For what was read it is allowed.     *)
Unobserved(e) == IF e.obs \in sweep.plan THEN [e EXCEPT !.obs = NoRow] ELSE e

SweepRows ==
    /\ sweep.pc = "rows"
    /\ IF \E e \in evidence : e.kind = "run" /\ e.obs \in sweep.plan
       THEN UNCHANGED <<rows, evidence>>
       ELSE rows' = rows \ sweep.plan /\ evidence' = {Unobserved(e) : e \in evidence}
    /\ expired' = expired \cap rows'
    /\ sweep' = Idle
    /\ UNCHANGED <<issued, blobs, sources, manifests, pinned, hostOps, fetch, backup, stops>>

\* A command dies; its transaction is rolled back
BackupDies ==
    /\ backup.pc # "idle" /\ stops < MaxStops /\ stops' = stops + 1 /\ backup' = Idle
    /\ UNCHANGED <<dbVars, blobs, hostOps, fetch, sweep>>
SweepDies ==
    /\ sweep.pc # "idle" /\ stops < MaxStops /\ stops' = stops + 1 /\ sweep' = Idle
    /\ UNCHANGED <<dbVars, blobs, hostOps, fetch, backup>>

\* hostctl backup: the backup runs in the command's own transaction
BackupCommand == BackupPut \/ BackupCommit \/ BackupDies

\* hostctl restore-drill: a random retained backup
RestoreDrillCommand == \E m \in manifests : Drill(m)

StorageNext ==
    \/ \E p \in PageNames : FetchStore(p) \/ \E o \in ObsNames, k \in Kinds : CommitEvidence(k, p, o)
    \/ FetchLook \/ FetchJournal \/ FetchTimeout
    \/ \E r \in rows : Expire(r) \/ Pin(r)
    \/ \E h \in {"absent", "present"} : HostChanges(h)
    \/ BackupCommand \/ RestoreDrillCommand
    \/ \E m \in manifests : BackupExpires(m)
    \/ SweepPlan \/ SweepFile \/ SweepRows \/ SweepDies

StorageSpec == StorageInit /\ [][StorageNext]_storageVars

-----------------------------------------------------------------------------
(* A sweep, dead halfway or overtaken by a commit or a backup, never costs *)
(* the observation of evidence that was run, or of any evidence it could   *)
(* see when it planned, nor the inventory of any backup, row or file.      *)
RootsKept ==
    /\ \A e \in evidence : e.obs \in rows \/ (e.obs = NoRow /\ e.kind = "read" /\ e.late)
    /\ \A m \in manifests : m.inv \in rows /\ m.inv[1] \in blobs

-----------------------------------------------------------------------------
\* What the documentation says and the code does not keep: README, section 6.

(* Nothing that evidence refers to is deleted, committed late or not       *)
(* (packages/gc/service.py:3-16).                                          *)
ObservationsKept == \A e \in evidence : e.obs \in rows

(* The page that evidence quotes stays registered and readable             *)
(* (packages/gc/service.py:3-16: a sweep deletes nothing that evidence     *)
(* reaches).                                                               *)
EvidencePagesKept ==
    \A e \in {x \in evidence : x.kind = "read"} : RowsOf(Page(e.page)) # {} /\ Page(e.page) \in blobs
=============================================================================
