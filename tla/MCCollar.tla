------------------------------ MODULE MCCollar -------------------------------
(* Instances of the Collar for TLC.  The keys, and the servers, stand for one  *)
(* another where no liveness is checked.                                       *)
EXTENDS Collar, TLC

CONSTANTS k1, k2, a1, a2, s1, s2

KeysAndServersAlike == Permutations({k1, k2}) \cup Permutations({s1, s2})
=============================================================================
