----------------------------- MODULE Statements ------------------------------
(***************************************************************************)
(* The monthly statements an employer signs for a Creator (statements.mjs) *)
(* over the receipts of the award engine: each takes over the cursor, the  *)
(* closing balance and the activity of every award from the one before it, *)
(* and adds its month's receipts, advances, reversals and payments.        *)
(*                                                                         *)
(* buildStatement takes its period and rows from the caller.  Its caller   *)
(* here builds one chain in arrears, month by month: each month's          *)
(* statement after the month is over, with every receipt of that month.    *)
(* The rows of one kind for one award are summed.                          *)
(***************************************************************************)
EXTENDS Awards

CONSTANT MaxRow         \* model bound: rows of one kind for one award, and payments, of a statement

ASSUME RowAssumption == MaxRow \in Nat

VARIABLE statements     \* the signed statements, oldest first

vars == <<engineVars, statements>>

Init == AwardsInit /\ statements = <<>>

Genesis == [period |-> -1, cursor |-> 0, activity |-> <<>>, paid |-> 0, closing |-> 0]
Prior == IF statements = <<>> THEN Genesis ELSE statements[Len(statements)]

-----------------------------------------------------------------------------
NoActivity(n) ==
    [earned |-> receipts[n].award, advanced |-> 0, earnedReversed |-> 0, payableReversed |-> 0]

(* The awards known to the prior statement, and those of the current rows.     *)
Recognized(prior, last) ==
    [n \in 1..last |-> IF n <= prior.cursor THEN prior.activity[n] ELSE NoActivity(n)]

(* statementReceiptRows: the rows follow the cursor without a gap.             *)
RowsOf(period) == {n \in DOMAIN receipts : receipts[n].period = period}
Continuous(prior, rows) ==
    rows = (prior.cursor + 1)..(prior.cursor + Cardinality(rows))

(* A row of the statement for receipt n.                                       *)
Row == [advance : 0..MaxRow, earnedOnly : 0..MaxRow, payable : 0..MaxRow]
NoRow == [advance |-> 0, earnedOnly |-> 0, payable |-> 0]

Added(a, row) ==
    [earned |-> a.earned,
     advanced |-> a.advanced + row.advance,
     earnedReversed |-> a.earnedReversed + row.earnedOnly,
     payableReversed |-> a.payableReversed + row.payable]

(* Slip: what an earlier statement reversed may still be advanced.             *)
AdmitsLater(prior, n, a) ==
    /\ a.advanced <= a.earned
    /\ a.payableReversed <= a.advanced
    /\ n > prior.cursor => a.advanced = 0

(* Only a receipt of an earlier statement is advanced; advances with the       *)
(* earned-only reversals stay within the award, payable reversals within the   *)
(* advances.                                                                   *)
Admits(prior, n, a) ==
    /\ a.advanced + a.earnedReversed <= a.earned
    /\ a.payableReversed <= a.advanced
    /\ n > prior.cursor => a.advanced = 0

(* Slip: a statement opens with its own advances only.                         *)
ForgottenOpening(prior) == 0

(* The opening balance is the authenticated closing balance of the one before. *)
Opening(prior) == prior.closing

SumOfRows(rows, field) ==
    SumFunctionOnSet([n \in DOMAIN rows |-> rows[n][field]], DOMAIN rows)

(* buildStatement, signStatement.                                              *)
Build(period, rows, paid) ==
    LET prior == Prior
        current == RowsOf(period)
        last == prior.cursor + Cardinality(current)
        before == Recognized(prior, last)
        after == [n \in 1..last |-> Added(before[n], rows[n])]
        payable == Opening(prior) + SumOfRows(rows, "advance") - SumOfRows(rows, "payable")
    IN
    /\ prior.period < period
    /\ Continuous(prior, current)
    /\ \A n \in 1..last : Admits(prior, n, after[n])
    /\ paid <= payable
    /\ statements' = Append(statements,
          [period |-> period, cursor |-> last, activity |-> after, paid |-> paid,
           closing |-> payable - paid])
    /\ UNCHANGED engineVars

(* The caller: the next month, when it is over.                                *)
BuildNext ==
    LET period == Prior.period + 1 IN
    /\ period < Month
    /\ \E rows \in [1..(Prior.cursor + Cardinality(RowsOf(period))) -> Row],
          paid \in 0..MaxRow :
          Build(period, rows, paid)

Next ==
    \/ AwardsNext /\ UNCHANGED statements
    \/ BuildNext

Spec == Init /\ [][Next]_vars

-----------------------------------------------------------------------------
(* The engine's and the chain's own types.                                     *)
Receipt ==
    [invocation : Invocations, period : Nat, consumed : 0..Gross, released : 0..Gross,
     held : 0..Gross, award : 0..Award]

Activity == [earned : Nat, advanced : Nat, earnedReversed : Nat, payableReversed : Nat]

Statement ==
    [period : Nat, cursor : Nat, activity : Seq(Activity), paid : Nat, closing : Nat]

TypeOK ==
    /\ clock \in 0..LastTick
    /\ budget \in [reserved : Nat, consumed : Nat, released : Nat]
    /\ invocation \in [Invocations -> INVOCATION_STATES]
    /\ running \subseteq Invocations
    /\ reversed \in [Invocations -> 0..Award]
    /\ receipts \in Seq(Receipt)
    /\ statements \in Seq(Statement)

(* An award is for work that ended in the month of its budget, and it becomes  *)
(* payable only in a later month: no execution that crosses the month's end    *)
(* earns, and no statement advances what its own month earned.                 *)
AwardsInArrears ==
    /\ \A n \in DOMAIN receipts :
          receipts[n].award > 0 => receipts[n].period = BudgetMonth
    /\ \A s \in DOMAIN statements, n \in DOMAIN receipts :
          n \in DOMAIN statements[s].activity /\ statements[s].activity[n].advanced > 0
             => receipts[n].period < statements[s].period

(* The chain never strands a receipt: one beyond its cursor belongs to a month *)
(* no statement of the chain has closed, so a later statement can take it.     *)
ReceiptsStayStatable ==
    \A n \in DOMAIN receipts : n > Prior.cursor => receipts[n].period > Prior.period

(* Across all statements an award is advanced for no more than was earned and  *)
(* not reversed, whichever statement recorded the reversal first.              *)
AdvancedWithinAward ==
    \A s \in DOMAIN statements : \A n \in DOMAIN statements[s].activity :
        LET a == statements[s].activity[n] IN
        /\ n \in DOMAIN receipts /\ a.earned = receipts[n].award
        /\ a.advanced + a.earnedReversed <= a.earned
        /\ a.payableReversed <= a.advanced

(* All payments of the chain, with the balance it closes with, are what its    *)
(* activity says became payable and was not reversed: nothing is paid twice.   *)
ChainConserves ==
    LET paid == SumFunctionOnSet([s \in DOMAIN statements |-> statements[s].paid],
                                 DOMAIN statements)
        activity == Prior.activity
        payable == SumFunctionOnSet([n \in DOMAIN activity |->
                        activity[n].advanced - activity[n].payableReversed], DOMAIN activity)
    IN  paid + Prior.closing = payable
=============================================================================
