---------------------------- MODULE MCStatements -----------------------------
(* Instances of the award engine and its statements for TLC: Invocations stand *)
(* for one another.                                                            *)
EXTENDS Statements, TLC

CONSTANTS i1, i2, i3

(* The budget's month, whose second tick is past its authorization, two months *)
(* more, and the start of the one in which the last of them is stated.         *)
Calendar == [t \in 0..4 |-> IF t < 2 THEN 0 ELSE t - 1]

InvocationsAlike == Permutations({i1, i2, i3})
=============================================================================
