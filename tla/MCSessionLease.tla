---------------------------- MODULE MCSessionLease ----------------------------
(* Model checking of SessionLease. A phase deadline shorter than one TTL and  *)
(* one that lets the guard renew several times.                               *)
EXTENDS SessionLease

MCDeadlines == {5, 11}
=============================================================================
