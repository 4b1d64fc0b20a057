---------------------------- MODULE ConfigSwitch ----------------------------
(***************************************************************************)
(* What a change of the effective configuration promises to sessions: it   *)
(* happens at once and only between sessions, and the sequence of          *)
(* effective configurations only grows.                                    *)
(***************************************************************************)
EXTENDS Naturals

VARIABLES
    number,   \* how many configurations have been effective before this one
    session,  \* a session is admitted or running
    orderly   \* no change has broken the rules so far

Init == number = 0 /\ session = FALSE /\ orderly = TRUE

Switch == ~session /\ number' = number + 1 /\ UNCHANGED <<session, orderly>>

BeginSession == ~session /\ session' = TRUE /\ UNCHANGED <<number, orderly>>

EndSession == session /\ session' = FALSE /\ UNCHANGED <<number, orderly>>

\* a change from another configuration than the effective one, or beside a session
Disorder == orderly' = FALSE /\ number' \in Nat /\ UNCHANGED session

Next == Switch \/ BeginSession \/ EndSession \/ Disorder

Spec == Init /\ [][Next]_<<number, session, orderly>>
=============================================================================
