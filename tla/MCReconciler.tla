---------------------------- MODULE MCReconciler ----------------------------
(* Instances of the Reconciler for TLC.  The sets that stand for one another   *)
(* differ per run: two operators over one case, or two intents over one        *)
(* operator.                                                                   *)
EXTENDS Reconciler, TLC

CONSTANTS a, b, c, t1, t2, t3, alice, bob

OperatorsAlike == Permutations({t1, t2}) \cup Permutations({alice, bob})
IntentsAlike == Permutations({t1, t2, t3}) \cup Permutations({a, b})
=============================================================================
