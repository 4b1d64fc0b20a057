---------------------------- MODULE MCActivation ----------------------------
EXTENDS Activation, TLC

CONSTANTS r1, r2

MCRunners == {r1, r2}
Processes == Permutations(MCRunners)
=============================================================================
