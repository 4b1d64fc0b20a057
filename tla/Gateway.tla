------------------------------ MODULE Gateway -------------------------------
(***************************************************************************)
(* One structured call of the model (packages/llm_gateway/client.py) by a  *)
(* role of a session, and the rows of model_runs that                      *)
(* apps/orchestrator/orchestrator.py writes of it.                         *)
(* A row is the validity it claims; tokens, latency and text are left out. *)
(***************************************************************************)
EXTENDS Integers, Sequences, FiniteSets

CONSTANTS
    MaxRetries,   \* config.max_retries
    Profiles      \* reasoning profiles of the engine

ASSUME GatewayAssumption == MaxRetries \in Nat /\ Profiles \subseteq {"none", "halogen", "chat-template"}

VARIABLES
    ask,    \* the caller and its progress: the locals of chat and its CallRecord
    runRows    \* the model_runs rows of this call, oldest first

gatewayVars == <<ask, runRows>>

Roles == {"planner", "extractor", "verifier", "explorer", "curator"}

\* Roles the session can do without: a template plan, the raw document, no verification
Helpers == {"planner", "extractor", "verifier"}
Modes == {"unset", "on", "off"}
Answered == [finish : {"stop", "length"}, full : BOOLEAN, valid : BOOLEAN, mode : Modes]
NoAsk == [pc |-> "idle", role |-> "explorer", profile |-> "none", mode |-> "unset", attempts |-> 0,
          detail |-> <<>>, result |-> "none", found |-> "none"]

GatewayTypeOK ==
    /\ ask \in [pc : {"idle", "request", "sleep", "retry", "ended"}, role : Roles,
                profile : Profiles \cup {"none"}, mode : Modes, attempts : 0 .. MaxRetries + 2,
                detail : Seq(Answered),
                result : {"none", "ok", "transient", "rejected", "error", "schema", "truncated"},
                found : {"none", "used", "fallback", "failed"}]
    /\ runRows \in Seq(BOOLEAN)

GatewayInit == ask = NoAsk /\ runRows = <<>>

-----------------------------------------------------------------------------
\* ReasoningProfile.can_disable_reasoning
CanDisable(profile) == profile # "none"

\* completion_was_truncated: by the reason the engine gives or by the length of the answer
Truncated(a) == a.finish = "length" \/ a.full

\* Fault: the attempt with reasoning off may be repeated
RepeatSame(c) == CanDisable(c.profile)

\* Another request makes sense only if it differs
CanRetryDifferently(c) == CanDisable(c.profile) /\ c.mode # "off"

\* Only attempts the host could not parse are carried by an error or written as unusable
Unusable(detail) == {i \in DOMAIN detail : ~detail[i].valid}

\* The phase's policy is resolved by the orchestrator; None and unknown modes are unset
BeginCall(role, profile, mode) ==
    /\ ask.pc = "idle"
    /\ ask' = [NoAsk EXCEPT !.pc = "request", !.role = role, !.profile = profile, !.mode = mode]
    /\ UNCHANGED runRows

Ends(c, result) == ask' = [c EXCEPT !.pc = "ended", !.result = result]

\* attempt_index < max_retries: wait and send the same body again
Again(c, index, result) ==
    IF index < MaxRetries THEN ask' = [c EXCEPT !.pc = "sleep"] ELSE Ends(c, result)

\* The exception leaves record.attempts alone
NoAnswer ==
    /\ ask.pc = "request"
    /\ Again(ask, ask.attempts + 1, "transient")
    /\ UNCHANGED runRows

Counted == [ask EXCEPT !.attempts = @ + 1]

TransientStatus ==
    /\ ask.pc = "request"
    /\ Again(Counted, ask.attempts + 1, "transient")
    /\ UNCHANGED runRows

\* 4xx, and every other status, is not retried
FinalStatus(result) ==
    /\ ask.pc = "request" /\ result \in {"rejected", "error"}
    /\ Ends(Counted, result)
    /\ UNCHANGED runRows

Answer(a) ==
    /\ ask.pc = "request" /\ a.mode = ask.mode
    /\ LET c == [Counted EXCEPT !.detail = Append(@, a)]
       IN  IF Truncated(a)
           THEN IF CanRetryDifferently(c) THEN ask' = [c EXCEPT !.pc = "retry", !.mode = "off"]
                                          ELSE Ends(c, "truncated")
           ELSE IF a.valid THEN Ends(c, "ok") ELSE Again(c, ask.attempts + 1, "schema")
    /\ UNCHANGED runRows

Wake ==
    /\ ask.pc = "sleep" /\ ask' = [ask EXCEPT !.pc = "request"]
    /\ UNCHANGED runRows

-----------------------------------------------------------------------------
(* The one request with reasoning off.  Whatever it answers, the loop is   *)
(* not entered again.                                                      *)
RetryNoAnswer ==
    /\ ask.pc = "retry" /\ Ends(ask, "transient") /\ UNCHANGED runRows
RetryStatus(result) ==
    /\ ask.pc = "retry" /\ result \in {"transient", "rejected", "truncated"}
    /\ Ends(Counted, result) /\ UNCHANGED runRows
RetryAnswer(a) ==
    /\ ask.pc = "retry" /\ a.mode = ask.mode
    /\ Ends([Counted EXCEPT !.detail = Append(@, a)],
            IF a.valid /\ ~Truncated(a) THEN "ok" ELSE "truncated")
    /\ UNCHANGED runRows

-----------------------------------------------------------------------------
\* _record_unusable_attempts
InvalidRows(detail) == [i \in 1 .. Cardinality(Unusable(detail)) |-> FALSE]

\* A call that returned: its own row, then one per unusable attempt
RecordSuccess(accepted) ==
    /\ ask.pc = "ended" /\ ask.result = "ok" /\ ask.found = "none"
    /\ ~accepted => ask.role \in Helpers   \* the host refuses a valid plan or report
    /\ runRows' = runRows \o <<TRUE>> \o InvalidRows(ask.detail)
    /\ ask' = [ask EXCEPT !.found = IF accepted THEN "used" ELSE "fallback"]

\* Fault: an unusable answer leaves only the attempts it carries
CarriedOnly(detail) == InvalidRows(detail)

\* A helper writes a row even when the error carries no attempt
FallbackRows(detail) == IF Unusable(detail) = {} THEN <<FALSE>> ELSE InvalidRows(detail)

\* _propose_plan, _apply_extraction_profile and _verify fall back
RecordFallback ==
    /\ ask.pc = "ended" /\ ask.role \in Helpers /\ ask.result \in {"schema", "truncated"}
    /\ ask.found = "none"
    /\ runRows' = runRows \o FallbackRows(ask.detail)
    /\ ask' = [ask EXCEPT !.found = "fallback"]

\* The explorer's session fails; the curator proposes no claims
RecordUnusable ==
    /\ ask.pc = "ended" /\ ask.role \notin Helpers /\ ask.result \in {"schema", "truncated"}
    /\ ask.found = "none"
    /\ runRows' = runRows \o InvalidRows(ask.detail)
    /\ ask' = [ask EXCEPT !.found = "failed"]

\* The other errors carry no attempt, whatever was answered before
RecordError ==
    /\ ask.pc = "ended" /\ ask.result \in {"transient", "rejected", "error"} /\ ask.found = "none"
    /\ ask' = [ask EXCEPT !.found = "failed"] /\ UNCHANGED runRows

NextCall == ask.pc = "ended" /\ ask.found # "none" /\ ask' = NoAsk /\ runRows' = <<>>

GatewayStep ==
    \/ NoAnswer \/ TransientStatus \/ \E r \in {"rejected", "error"} : FinalStatus(r)
    \/ \E a \in Answered : Answer(a) \/ RetryAnswer(a)
    \/ Wake \/ RetryNoAnswer \/ \E r \in {"transient", "rejected", "truncated"} : RetryStatus(r)
    \/ \E ok \in BOOLEAN : RecordSuccess(ok)
    \/ RecordFallback \/ RecordUnusable \/ RecordError

GatewayNext ==
    \/ \E role \in Roles, profile \in Profiles, mode \in Modes : BeginCall(role, profile, mode)
    \/ GatewayStep \/ NextCall

GatewaySpec == GatewayInit /\ [][GatewayNext]_gatewayVars

(* The client's own timeout ends every request and asyncio.sleep returns:  *)
(* a call that can take a step takes one.                                  *)
GatewayFairSpec == GatewaySpec /\ WF_gatewayVars(GatewayStep)

-----------------------------------------------------------------------------
(* What the host uses was not cut by the output limit, the engine answers  *)
(* at most one request beyond the budget of retries, and after a cut it is *)
(* asked at most once more and not for the same again: the retries of bad  *)
(* schemas and statuses and the one with reasoning off cannot add up.      *)
RetriesHonest ==
    LET d == ask.detail
        cut == {i \in DOMAIN d : Truncated(d[i])}
    IN  /\ ask.attempts <= (IF MaxRetries = 0 THEN 1 ELSE MaxRetries) + 1
        /\ ask.result = "ok" => d[Len(d)].valid /\ d[Len(d)].finish = "stop" /\ ~d[Len(d)].full
        /\ \A i \in cut : Len(d) <= i + 1 /\ (i < Len(d) => d[i].mode # d[i + 1].mode)

(* Before a session goes on without a plan, an extraction or a             *)
(* verification, a row of model_runs says why unless the host itself       *)
(* refused a valid answer: a cut answer that parses carries no attempt and *)
(* must not vanish.                                                        *)
FallbackVisible ==
    ask.found = "fallback" /\ ask.result # "ok" => \E i \in DOMAIN runRows : ~runRows[i]

(* A started call ends with an answer or an error, as chat documents of a  *)
(* network failure: LLMTransientError after its retries.                   *)
CallEnds == ask.pc = "request" ~> ask.pc \in {"ended", "idle"}
=============================================================================
