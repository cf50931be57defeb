------------------------- MODULE Statements_proofs --------------------------
(***************************************************************************)
(* What the award engine and its chain of statements keep for every set of *)
(* Invocations, every quote, budget, cap and calendar: no award outside    *)
(* the budget's month, no advance in the month of the award or beyond what *)
(* was earned and not reversed, no receipt the chain has passed by, no     *)
(* award promised above the cap, receipts that add up to the budget's      *)
(* counters, and payments that add up to what became payable.              *)
(*                                                                         *)
(* A receipt is booked in the month of the clock and the chain is behind   *)
(* the clock, so the chain's cursor divides the receipts by month: that    *)
(* is the part of Inv the order of the months rests on.  Books is the      *)
(* inductive invariant of the sums over the engine, and Chain that of the  *)
(* sums over the statements.                                               *)
(***************************************************************************)
EXTENDS Statements, SumTheorems, TLAPS, FiniteSetTheorems, SequenceTheorems

AnyReceipt ==
    [invocation : Invocations, period : Nat, consumed : Int, released : Int,
     held : Int, award : Nat]

\* The receipts of the engine: none is of a month to come, and only those of the
\* budget's month carry an award.
Receipted ==
    /\ receipts \in Seq(AnyReceipt)
    /\ \A n \in 1..Len(receipts) :
          /\ receipts[n].period <= Month
          /\ receipts[n].award > 0 => receipts[n].period = BudgetMonth

\* What statement st says of the awards it knows.
SoundActivity(st, n) ==
    LET a == st.activity[n] IN
    /\ a.earned = receipts[n].award
    /\ a.advanced + a.earnedReversed <= a.earned
    /\ a.payableReversed <= a.advanced
    /\ a.advanced > 0 => receipts[n].period < st.period

SoundStatement(st) ==
    /\ st.period \in Nat
    /\ st.cursor \in 0..Len(receipts)
    /\ st.activity \in [1..st.cursor -> Activity]
    /\ \A n \in 1..st.cursor : SoundActivity(st, n)

\* The chain's cursor divides the receipts by month.
Divided(st) ==
    /\ st.period < Month
    /\ \A n \in 1..Len(receipts) :
          IF n <= st.cursor THEN receipts[n].period <= st.period
                            ELSE receipts[n].period > st.period

Inv ==
    /\ clock \in 0..LastTick
    /\ Receipted
    /\ \E S : statements \in Seq(S)
    /\ \A s \in 1..Len(statements) : SoundStatement(statements[s])
    /\ Divided(Prior)

-----------------------------------------------------------------------------
\* Append, whatever the type of the element.
LEMMA AppendAnything ==
    ASSUME NEW S, NEW seq \in Seq(S), NEW x
    PROVE  /\ \E T : Append(seq, x) \in Seq(T)
           /\ Len(seq) \in Nat
           /\ Len(Append(seq, x)) = Len(seq) + 1
           /\ \A n \in 1..Len(seq) : Append(seq, x)[n] = seq[n]
           /\ Append(seq, x)[Len(seq) + 1] = x
           /\ Append(seq, x) # <<>>
<1> DEFINE T == S \cup {x}
<1>1. Len(seq) \in Nat /\ seq \in [1..Len(seq) -> S]
  BY LenProperties
<1>2. seq \in [1..Len(seq) -> T]
  BY <1>1
<1>3. seq \in Seq(T)
  BY <1>1, <1>2, SeqDef
<1>4. Append(seq, x) \in Seq(T)
  BY <1>3, AppendProperties
<1> QED
  BY <1>1, <1>3, <1>4, AppendProperties

\* A receipt of the sequence has the fields of one.
LEMMA ReceiptTypes ==
    ASSUME Receipted, NEW n \in 1..Len(receipts)
    PROVE  /\ receipts[n] \in AnyReceipt
           /\ receipts[n].period \in Nat
           /\ receipts[n].award \in Nat
<1>1. receipts[n] \in AnyReceipt
  BY ElementOfSeq DEF Receipted
<1> QED
  BY <1>1 DEF AnyReceipt

\* The newest statement is the genesis or one of the chain.
LEMMA PriorIsSound ==
    ASSUME Inv
    PROVE  /\ Prior.period \in Int /\ Prior.period + 1 \in Nat
           /\ Prior.cursor \in 0..Len(receipts)
           /\ Len(receipts) \in Nat
           /\ \A n \in 1..Prior.cursor :
                 /\ Prior.activity[n] \in Activity
                 /\ SoundActivity(Prior, n)
<1>1. Len(receipts) \in Nat
  BY LenProperties DEF Inv, Receipted
<1>2. CASE statements = <<>>
  BY <1>1, <1>2 DEF Prior, Genesis
<1>3. CASE statements # <<>>
  <2>1. PICK S : statements \in Seq(S)
    BY DEF Inv
  <2>2. Len(statements) \in 1..Len(statements)
    BY <2>1, <1>3, EmptySeq, LenProperties
  <2>3. SoundStatement(Prior)
    BY <2>2, <1>3 DEF Inv, Prior
  <2> QED
    BY <1>1, <2>3 DEF SoundStatement
<1> QED
  BY <1>2, <1>3

-----------------------------------------------------------------------------
LEMMA InitInv == Init => Inv
<1> SUFFICES ASSUME Init PROVE Inv
  OBVIOUS
<1> USE DEF Init, AwardsInit
<1>1. clock \in 0..LastTick
  BY CalendarAssumption
<1>2. Len(receipts) = 0 /\ Len(statements) = 0 /\ receipts \in Seq(AnyReceipt)
      /\ statements \in Seq({})
  BY EmptySeq
<1>3. Divided(Prior)
  BY <1>1, <1>2, CalendarAssumption DEF Divided, Prior, Genesis, Month
<1> QED
  BY <1>1, <1>2, <1>3 DEF Inv, Receipted

\* A step that adds no receipt and leaves the clock keeps the invariant.
LEMMA StillInv ==
    ASSUME Inv, UNCHANGED <<clock, receipts, statements>>
    PROVE  Inv'
  BY DEF Inv, Receipted, SoundStatement, SoundActivity, Divided, Prior, Genesis, Month

LEMMA TickInv ==
    ASSUME Inv, Tick, UNCHANGED statements
    PROVE  Inv'
<1>1. clock' \in 0..LastTick /\ Month <= Month' /\ Month \in Nat /\ Month' \in Nat
  BY CalendarAssumption DEF Inv, Tick, Month
<1>2. receipts' = receipts /\ statements' = statements /\ Prior' = Prior
  BY DEF Tick, Prior, Genesis
<1>3. Receipted'
  <2>1. \A n \in 1..Len(receipts) : receipts[n].period \in Nat
    BY ReceiptTypes DEF Inv
  <2> QED
    BY <1>1, <1>2, <2>1 DEF Inv, Receipted
<1>4. Divided(Prior)'
  BY <1>1, <1>2, PriorIsSound DEF Inv, Divided
<1> QED
  BY <1>1, <1>2, <1>3, <1>4 DEF Inv, SoundStatement, SoundActivity

\* A receipt is booked now, and the chain is behind.
LEMMA CommitInv ==
    ASSUME Inv, UNCHANGED <<clock, statements>>,
           NEW i \in Invocations, NEW consumed \in Int, NEW released \in Int, NEW award \in Nat,
           Gross \in Int,
           award > 0 => Month = BudgetMonth,
           Commit(i, consumed, released, award)
    PROVE  Inv'
<1> DEFINE x == [invocation |-> i, period |-> Month, consumed |-> consumed,
                 released |-> released, held |-> Gross - consumed - released, award |-> award]
           last == Len(receipts)
<1>1. Month \in Nat /\ Month' = Month /\ clock' \in 0..LastTick
  BY CalendarAssumption DEF Inv, Month
<1>2. x \in AnyReceipt /\ receipts' = Append(receipts, x)
  BY <1>1 DEF AnyReceipt, Commit
<1>3. /\ receipts' \in Seq(AnyReceipt)
      /\ last \in Nat /\ Len(receipts') = last + 1
      /\ \A n \in 1..last : receipts'[n] = receipts[n]
      /\ receipts'[last + 1] = x
  <2> HIDE DEF x
  <2> QED BY <1>2, AppendProperties, LenProperties DEF Inv, Receipted
<1>4. \A n \in 1..Len(receipts') : n \in 1..last \/ n = last + 1
  BY <1>3
<1>5. Receipted'
  <2>1. x.period = Month /\ x.award = award
    OBVIOUS
  <2>2. ASSUME NEW n \in 1..Len(receipts')
        PROVE  /\ receipts'[n].period <= Month'
               /\ receipts'[n].award > 0 => receipts'[n].period = BudgetMonth
    <3> HIDE DEF x
    <3>1. CASE n \in 1..last
      BY <1>1, <1>3, <3>1 DEF Inv, Receipted
    <3>2. CASE n = last + 1
      BY <1>1, <1>3, <2>1, <3>2
    <3> QED BY <1>4, <3>1, <3>2
  <2> HIDE DEF x
  <2> QED BY <1>3, <2>2 DEF Receipted
<1>6. Prior' = Prior /\ statements' = statements
  BY DEF Prior, Genesis
<1>7. ASSUME NEW s \in 1..Len(statements)
      PROVE  SoundStatement(statements[s])'
  <2>1. SoundStatement(statements[s])
    BY DEF Inv
  <2>2. statements[s].cursor \in 0..Len(receipts')
        /\ 1..statements[s].cursor \subseteq 1..last
    BY <2>1, <1>3 DEF SoundStatement
  <2> QED
    BY <2>1, <2>2, <1>3, <1>6 DEF SoundStatement, SoundActivity
<1>8. Divided(Prior)'
  BY <1>1, <1>3, <1>4, <1>6, PriorIsSound DEF Inv, Divided
<1> QED
  BY <1>1, <1>5, <1>6, <1>7, <1>8 DEF Inv

-----------------------------------------------------------------------------
\* The rows of the next statement: exactly the receipts between the two cursors,
\* which are those of its month.
LEMMA RowsAreTheMonth ==
    ASSUME Inv, Continuous(Prior, RowsOf(Prior.period + 1)),
           NEW last, last = Prior.cursor + Cardinality(RowsOf(Prior.period + 1))
    PROVE  /\ last \in Prior.cursor..Len(receipts)
           /\ \A n \in 1..Len(receipts) :
                 IF n <= last THEN receipts[n].period <= Prior.period + 1
                              ELSE receipts[n].period > Prior.period + 1
<1> DEFINE rows == RowsOf(Prior.period + 1)
           size == Cardinality(rows)
<1>1. /\ Prior.cursor \in 0..Len(receipts) /\ Len(receipts) \in Nat /\ Prior.period \in Int
      /\ DOMAIN receipts = 1..Len(receipts)
  BY PriorIsSound, LenProperties DEF Inv, Receipted
<1>2. rows \subseteq 1..Len(receipts)
      /\ \A n \in 1..Len(receipts) : n \in rows <=> receipts[n].period = Prior.period + 1
  BY <1>1 DEF RowsOf
<1>3. size \in Nat
  <2>1. IsFiniteSet(1..Len(receipts))
    BY <1>1, FS_Interval
  <2>2. IsFiniteSet(rows)
    BY <1>2, <2>1, FS_Subset
  <2> QED BY <2>2, FS_CardinalityType
<1>4. rows = (Prior.cursor + 1)..last
  BY DEF Continuous
<1>5. last \in Prior.cursor..Len(receipts)
  <2>1. last \in Int /\ Prior.cursor <= last
    BY <1>1, <1>3
  <2>2. CASE last = Prior.cursor
    BY <1>1, <2>2
  <2>3. CASE last > Prior.cursor
    <3>1. last \in rows
      BY <1>1, <1>4, <2>1, <2>3
    <3> QED BY <1>1, <1>2, <2>1, <3>1
  <2> QED BY <1>1, <2>1, <2>2, <2>3
<1>6. ASSUME NEW n \in 1..Len(receipts)
      PROVE  IF n <= last THEN receipts[n].period <= Prior.period + 1
                          ELSE receipts[n].period > Prior.period + 1
  <2>1. receipts[n].period \in Nat
    BY ReceiptTypes DEF Inv
  <2>2. IF n <= Prior.cursor THEN receipts[n].period <= Prior.period
                             ELSE receipts[n].period > Prior.period
    BY DEF Inv, Divided
  <2>3. n \in rows <=> Prior.cursor < n /\ n <= last
    BY <1>1, <1>4, <1>5
  <2> QED
    BY <1>1, <1>2, <1>5, <2>1, <2>2, <2>3
<1> QED
  BY <1>5, <1>6

\* A row adds to what is known of an award.
LEMMA AddedTypes ==
    ASSUME NEW a \in Activity, NEW row \in Row
    PROVE  Added(a, row) \in Activity /\ Added(a, row).earned = a.earned
<1>1. row.advance \in Nat /\ row.earnedOnly \in Nat /\ row.payable \in Nat
  BY RowAssumption DEF Row
<1> QED
  BY <1>1 DEF Added, Activity

\* A month's statement takes its month's receipts and keeps each award's bounds.
LEMMA BuildInv ==
    ASSUME Inv, BuildNext
    PROVE  Inv'
<1> DEFINE period == Prior.period + 1
           last == Prior.cursor + Cardinality(RowsOf(period))
<1>1. PICK rows \in [1..last -> Row], paid \in Int : Build(period, rows, paid)
  BY RowAssumption DEF BuildNext
<1> DEFINE before == Recognized(Prior, last)
           after == [n \in 1..last |-> Added(before[n], rows[n])]
           closing == (Opening(Prior) + SumOfRows(rows, "advance")
                         - SumOfRows(rows, "payable")) - paid
           st == [period |-> period, cursor |-> last, activity |-> after,
                  paid |-> paid, closing |-> closing]
<1>2. /\ Continuous(Prior, RowsOf(period))
      /\ \A n \in 1..last : Admits(Prior, n, after[n])
      /\ statements' = Append(statements, st)
      /\ UNCHANGED <<clock, receipts>>
  <2>1. Continuous(Prior, RowsOf(period)) /\ UNCHANGED <<clock, receipts>>
    BY <1>1 DEF Build, engineVars
  <2>2. \A n \in 1..last : Admits(Prior, n, after[n])
    BY <1>1 DEF Build
  <2>3. statements' = Append(statements, st)
    BY <1>1 DEF Build
  <2> QED BY <2>1, <2>2, <2>3
<1>3. period < Month
  BY DEF BuildNext
<1>4. /\ Prior.period \in Int /\ period \in Nat
      /\ Prior.cursor \in 0..Len(receipts) /\ Len(receipts) \in Nat
      /\ \A n \in 1..Prior.cursor :
            Prior.activity[n] \in Activity /\ SoundActivity(Prior, n)
  BY PriorIsSound
<1>5. /\ last \in Prior.cursor..Len(receipts)
      /\ \A n \in 1..Len(receipts) :
            IF n <= last THEN receipts[n].period <= period ELSE receipts[n].period > period
  BY <1>2, RowsAreTheMonth
<1>6. ASSUME NEW n \in 1..last
      PROVE  /\ after[n] \in Activity
             /\ SoundActivity(st, n)
  <2>1. receipts[n] \in AnyReceipt
    BY <1>4, <1>5, ElementOfSeq DEF Inv, Receipted
  <2>2. /\ before[n] \in Activity
        /\ before[n].earned = receipts[n].award
    BY <1>4, <1>5, <2>1 DEF Recognized, NoActivity, Activity, AnyReceipt, SoundActivity
  <2>3. rows[n] \in Row
    OBVIOUS
  <2>4. /\ after[n] \in Activity
        /\ after[n].earned = receipts[n].award
    BY <2>2, <2>3, AddedTypes
  <2>5. Admits(Prior, n, after[n])
    BY <1>2
  <2>6. after[n].advanced > 0 => receipts[n].period < period
    <3> SUFFICES ASSUME after[n].advanced > 0 PROVE receipts[n].period < period
      OBVIOUS
    <3>1. n <= Prior.cursor
      BY <1>4, <1>5, <2>5 DEF Admits
    <3>2. receipts[n].period <= Prior.period
      BY <3>1, <1>4, <1>5 DEF Inv, Divided
    <3> QED BY <3>2, <1>4, <2>1 DEF AnyReceipt
  <2> HIDE DEF after
  <2> QED
    BY <2>4, <2>5, <2>6 DEF Admits, SoundActivity
<1>7. SoundStatement(st)
  <2>1. after \in [1..last -> Activity]
    BY <1>6
  <2> HIDE DEF after
  <2> QED BY <2>1, <1>4, <1>5, <1>6 DEF SoundStatement
<1> HIDE DEF st
<1>8. /\ \E S : statements' \in Seq(S)
      /\ Len(statements) \in Nat /\ Len(statements') = Len(statements) + 1
      /\ \A s \in 1..Len(statements) : statements'[s] = statements[s]
      /\ statements'[Len(statements')] = st
      /\ statements' # <<>>
  <2>1. PICK S : statements \in Seq(S)
    BY DEF Inv
  <2>2. statements' = Append(statements, st)
    BY <1>2
  <2>3. /\ \E T : Append(statements, st) \in Seq(T)
        /\ Len(statements) \in Nat
        /\ Len(Append(statements, st)) = Len(statements) + 1
        /\ \A n \in 1..Len(statements) : Append(statements, st)[n] = statements[n]
        /\ Append(statements, st)[Len(statements) + 1] = st
        /\ Append(statements, st) # <<>>
    BY ONLY <2>1, AppendAnything
  <2> HIDE DEF st
  <2> QED BY <2>2, <2>3
<1>9. \A s \in 1..Len(statements') : SoundStatement(statements'[s])
  BY <1>7, <1>8 DEF Inv
<1>10. (\A s \in 1..Len(statements) : SoundStatement(statements[s]))'
  BY <1>2, <1>9 DEF SoundStatement, SoundActivity
<1>11. Prior' = st
  BY <1>8 DEF Prior
<1>12. Divided(Prior)'
  <2>1. st.period = period /\ st.cursor = last
    BY DEF st
  <2> QED
    BY <1>2, <1>3, <1>5, <1>11, <2>1 DEF Divided, Month
<1>13. clock' \in 0..LastTick /\ Receipted'
  BY <1>2 DEF Inv, Receipted, Month
<1> QED
  BY <1>8, <1>10, <1>12, <1>13 DEF Inv

-----------------------------------------------------------------------------
\* Every step of the engine and of the employer.
LEMMA NextInv == Inv /\ [Next]_vars => Inv'
<1> SUFFICES ASSUME Inv, [Next]_vars PROVE Inv'
  OBVIOUS
<1>1. Gross \in Int /\ MaxCost \in Nat /\ Fee \in Nat /\ Award \in Nat
  BY QuoteAssumption DEF Gross
<1>2. ASSUME UNCHANGED statements, NEW i \in Invocations, Authorize(i) PROVE Inv'
  BY <1>2, StillInv DEF Authorize
<1>3. ASSUME UNCHANGED statements, NEW i \in Invocations, Cancel(i) PROVE Inv'
  BY <1>1, <1>3, CommitInv DEF Cancel
<1>4. ASSUME UNCHANGED statements, NEW i \in Invocations, StartExecution(i) PROVE Inv'
  BY <1>4, StillInv DEF StartExecution
<1>5. ASSUME UNCHANGED statements, NEW i \in Invocations, Succeed(i) PROVE Inv'
  <2>1. PICK cost \in 0..MaxCost : Earn(i, cost)
    BY <1>5 DEF Succeed
  <2>2. Commit(i, cost + Fee + Award, MaxCost - cost, Award)
        /\ UNCHANGED clock /\ Month = BudgetMonth
    BY <1>5, <2>1 DEF Earn, Succeed, Returned, Counts
  <2> QED BY <1>1, <1>5, <2>2, CommitInv
<1>6. ASSUME UNCHANGED statements, NEW i \in Invocations, Fail(i) PROVE Inv'
  <2>1. PICK cost \in 0..MaxCost : ChargeFailure(i, cost)
    BY <1>6 DEF Fail
  <2>2. Commit(i, cost, Gross - cost, 0) /\ UNCHANGED clock
    BY <1>6, <2>1 DEF ChargeFailure, Fail, Returned
  <2> QED BY <1>1, <1>6, <2>2, CommitInv
<1>7. ASSUME UNCHANGED statements, NEW i \in Invocations, LeaveUnresolved(i) PROVE Inv'
  <2>1. Commit(i, 0, 0, 0) /\ UNCHANGED clock
    BY <1>7 DEF LeaveUnresolved, Hold, Returned
  <2> QED BY <1>1, <1>7, <2>1, CommitInv
<1>8. ASSUME UNCHANGED statements, NEW i \in Invocations, SignerFails(i) PROVE Inv'
  BY <1>8, StillInv DEF SignerFails, Returned
<1>9. ASSUME UNCHANGED statements, NEW i \in Invocations, NEW amount \in 1..Award,
             RecordReversal(i, amount) PROVE Inv'
  BY <1>9, StillInv DEF RecordReversal
<1>10. ASSUME UNCHANGED statements, Tick PROVE Inv'
  BY <1>10, TickInv
<1>11. CASE AwardsNext /\ UNCHANGED statements
  BY <1>2, <1>3, <1>4, <1>5, <1>6, <1>7, <1>8, <1>9, <1>10, <1>11 DEF AwardsNext
<1>12. CASE BuildNext
  BY <1>12, BuildInv
<1>13. CASE UNCHANGED vars
  BY <1>13, StillInv DEF vars, engineVars
<1> QED
  BY <1>11, <1>12, <1>13 DEF Next

\* The invariant of the engine and the chain, for every instance.
THEOREM StatementsInvariant == Spec => []Inv
  BY InitInv, NextInv, PTL DEF Spec

\* ReceiptsStayStatable: however late an execution ends, and whatever is cancelled
\* after the budget's month, the chain can still take its receipt.
THEOREM NoReceiptIsStranded == Spec => []ReceiptsStayStatable
<1>1. Inv => ReceiptsStayStatable
  BY PriorIsSound, LenProperties DEF Inv, Receipted, Divided, ReceiptsStayStatable
<1> QED BY StatementsInvariant, <1>1, PTL

\* AwardsInArrears: no execution that crosses the month's end earns, and nothing is
\* advanced in the month that earned it.
THEOREM AwardsAreInArrears == Spec => []AwardsInArrears
<1>1. Inv => AwardsInArrears
  <2> SUFFICES ASSUME Inv PROVE AwardsInArrears
    OBVIOUS
  <2>1. PICK S : statements \in Seq(S)
    BY DEF Inv
  <2>2. DOMAIN receipts = 1..Len(receipts) /\ DOMAIN statements = 1..Len(statements)
    BY <2>1, LenProperties DEF Inv, Receipted
  <2>3. ASSUME NEW s \in DOMAIN statements, NEW n \in DOMAIN statements[s].activity,
               statements[s].activity[n].advanced > 0
        PROVE  receipts[n].period < statements[s].period
    BY <2>2, <2>3 DEF Inv, SoundStatement, SoundActivity
  <2> QED
    BY <2>2, <2>3 DEF Inv, Receipted, AwardsInArrears
<1> QED BY StatementsInvariant, <1>1, PTL

\* AdvancedWithinAward: over the whole chain an award is advanced for no more than
\* was earned and not reversed.
THEOREM AdvancesStayWithinAwards == Spec => []AdvancedWithinAward
<1>1. Inv => AdvancedWithinAward
  <2> SUFFICES ASSUME Inv, NEW s \in DOMAIN statements, NEW n \in DOMAIN statements[s].activity
               PROVE  /\ n \in DOMAIN receipts
                      /\ statements[s].activity[n].earned = receipts[n].award
                      /\ statements[s].activity[n].advanced
                           + statements[s].activity[n].earnedReversed
                           <= statements[s].activity[n].earned
                      /\ statements[s].activity[n].payableReversed
                           <= statements[s].activity[n].advanced
    BY DEF AdvancedWithinAward
  <2>1. PICK S : statements \in Seq(S)
    BY DEF Inv
  <2>2. DOMAIN receipts = 1..Len(receipts) /\ DOMAIN statements = 1..Len(statements)
        /\ Len(receipts) \in Nat
    BY <2>1, LenProperties DEF Inv, Receipted
  <2>3. SoundStatement(statements[s])
    BY <2>2 DEF Inv
  <2> QED
    BY <2>2, <2>3 DEF SoundStatement, SoundActivity
<1> QED BY StatementsInvariant, <1>1, PTL

-----------------------------------------------------------------------------
(***************************************************************************)
(* The budget and the award cap.  A counter is what the receipts and the   *)
(* open reservations add up to, so each step is followed through the sums. *)
(* Two facts are needed that the properties do not say: an executor call   *)
(* that still runs belongs to an execution whose reservation is open, or   *)
(* its end would release it twice; and only an earned award is reversed,   *)
(* or the exposure a reservation adds would be less than its award.        *)
(***************************************************************************)
Reserving == {i \in Invocations : invocation[i] \in {"authorized", "executing"}}

Open == {i \in Invocations : invocation[i] \notin {"none", "failed", "cancelled"}}

StillOwed == [i \in Invocations |-> Award - reversed[i]]

\* The engine without its clock.
Engine ==
    /\ budget \in [reserved : Nat, consumed : Nat, released : Nat]
    /\ invocation \in [Invocations -> INVOCATION_STATES]
    /\ running \subseteq {i \in Invocations : invocation[i] = "executing"}
    /\ reversed \in [Invocations -> 0..Award]
    /\ \A i \in Invocations : reversed[i] > 0 => invocation[i] = "succeeded"
    /\ receipts \in Seq(Receipt)

Books == Engine /\ AwardCapHolds /\ BudgetIsReceipted

LEMMA QuoteTypes ==
    /\ MaxCost \in Nat /\ Fee \in Nat /\ Award \in Nat /\ Gross \in Nat
    /\ Gross = MaxCost + Fee + Award
    /\ Allocated \in Nat /\ AwardCap \in Nat
  BY QuoteAssumption, BudgetAssumption DEF Gross

LEMMA FiniteParts ==
    /\ IsFiniteSet(Reserving) /\ IsFiniteSet(Open)
    /\ \A S \in SUBSET Invocations : IsFiniteSet(S)
<1>1. \A S \in SUBSET Invocations : IsFiniteSet(S)
  BY InvocationsAssumption, FS_Subset
<1>2. Reserving \in SUBSET Invocations /\ Open \in SUBSET Invocations
  BY DEF Reserving, Open
<1> QED
  BY <1>1, <1>2

\* One element more in a sequence adds its field to the sum of the field.
LEMMA SumOfAppended ==
    ASSUME NEW S, NEW seq \in Seq(S), NEW x, NEW field,
           \A n \in 1..Len(seq) : seq[n][field] \in Int,
           x[field] \in Int
    PROVE  SumFunctionOnSet([n \in DOMAIN Append(seq, x) |-> Append(seq, x)[n][field]],
                            DOMAIN Append(seq, x))
             = SumFunctionOnSet([n \in DOMAIN seq |-> seq[n][field]], DOMAIN seq) + x[field]
<1> DEFINE longer == Append(seq, x)
           last == Len(seq)
           f == [n \in DOMAIN seq |-> seq[n][field]]
           g == [n \in DOMAIN longer |-> longer[n][field]]
<1>1. /\ last \in Nat /\ Len(longer) = last + 1
      /\ \A n \in 1..last : longer[n] = seq[n]
      /\ longer[last + 1] = x
      /\ \E T : longer \in Seq(T)
  <2>1. seq \in Seq(S)
    OBVIOUS
  <2> QED BY ONLY <2>1, AppendAnything
<1>2. DOMAIN seq = 1..last /\ DOMAIN longer = 1..(last + 1)
  BY <1>1, LenProperties
<1> HIDE DEF longer
<1>3. 1..(last + 1) = 1..last \cup {last + 1} /\ last + 1 \notin 1..last
  BY <1>1
<1>4. IsFiniteSet(1..last)
  BY <1>1, FS_Interval
<1>5. \A n \in 1..last : g[n] = f[n] /\ f[n] \in Int
  BY <1>1, <1>2, <1>3
<1>6. g[last + 1] = x[field]
  BY <1>1, <1>2, <1>3
<1> HIDE DEF f, g, last
<1>7. SumFunctionOnSet(g, 1..last \cup {last + 1}) = g[last + 1] + SumFunctionOnSet(g, 1..last)
  BY <1>3, <1>4, <1>5, <1>6, SumAdd
<1>8. SumFunctionOnSet(g, 1..last) = SumFunctionOnSet(f, 1..last)
  BY <1>4, <1>5, SumSame
<1>9. SumFunctionOnSet(f, 1..last) \in Int
  BY <1>4, <1>5, SumInt
<1>10. SumFunctionOnSet(g, 1..(last + 1)) = SumFunctionOnSet(f, 1..last) + x[field]
  <2> DEFINE sum == SumFunctionOnSet(f, 1..last)
  <2>1. SumFunctionOnSet(g, 1..(last + 1)) = x[field] + sum
    BY <1>3, <1>6, <1>7, <1>8
  <2>2. sum \in Int /\ x[field] \in Int
    BY <1>9
  <2> HIDE DEF sum
  <2>3. x[field] + sum = sum + x[field]
    BY <2>2
  <2> QED
    BY <2>1, <2>3 DEF sum
<1> QED
  BY <1>2, <1>10 DEF f, g, longer

\* What the receipts add up to before a receipt is committed, and after.
LEMMA ReceiptSums ==
    ASSUME Engine, NEW i \in Invocations, NEW consumed \in 0..Gross, NEW released \in 0..Gross,
           consumed + released <= Gross, NEW award \in 0..Award, clock \in 0..LastTick,
           Commit(i, consumed, released, award)
    PROVE  /\ receipts' \in Seq(Receipt)
           /\ SumOfReceipts("consumed")' = SumOfReceipts("consumed") + consumed
           /\ SumOfReceipts("released")' = SumOfReceipts("released") + released
           /\ SumOfReceipts("held")' = SumOfReceipts("held") + (Gross - consumed - released)
<1> DEFINE x == [invocation |-> i, period |-> Month, consumed |-> consumed,
                 released |-> released, held |-> Gross - consumed - released, award |-> award]
<1>1. Month \in Nat
  BY CalendarAssumption DEF Month
<1>2. Gross - consumed - released \in 0..Gross
  BY QuoteTypes
<1>3. x \in Receipt
  BY <1>1, <1>2 DEF Receipt
<1>4. receipts \in Seq(Receipt) /\ receipts' = Append(receipts, x)
  BY DEF Engine, Commit
<1>5. receipts' \in Seq(Receipt)
  <2> HIDE DEF x
  <2> QED BY <1>3, <1>4, AppendProperties
<1>6. ASSUME NEW n \in 1..Len(receipts)
      PROVE  /\ receipts[n].consumed \in Int /\ receipts[n].released \in Int
             /\ receipts[n].held \in Int
  <2>1. receipts[n] \in Receipt
    BY <1>4, ElementOfSeq
  <2> QED BY <2>1, QuoteTypes DEF Receipt
<1>7. /\ x["consumed"] = consumed /\ x["released"] = released
      /\ x["held"] = Gross - consumed - released
      /\ x["consumed"] \in Int /\ x["released"] \in Int /\ x["held"] \in Int
  BY QuoteTypes
<1> HIDE DEF x
<1>8. SumOfReceipts("consumed")' = SumOfReceipts("consumed") + x["consumed"]
  <2>1. SumFunctionOnSet([n \in DOMAIN Append(receipts, x) |-> Append(receipts, x)[n]["consumed"]],
                         DOMAIN Append(receipts, x))
          = SumFunctionOnSet([n \in DOMAIN receipts |-> receipts[n]["consumed"]], DOMAIN receipts)
              + x["consumed"]
    BY <1>4, <1>6, <1>7, SumOfAppended
  <2> QED BY <1>4, <2>1 DEF SumOfReceipts
<1>9. SumOfReceipts("released")' = SumOfReceipts("released") + x["released"]
  <2>1. SumFunctionOnSet([n \in DOMAIN Append(receipts, x) |-> Append(receipts, x)[n]["released"]],
                         DOMAIN Append(receipts, x))
          = SumFunctionOnSet([n \in DOMAIN receipts |-> receipts[n]["released"]], DOMAIN receipts)
              + x["released"]
    BY <1>4, <1>6, <1>7, SumOfAppended
  <2> QED BY <1>4, <2>1 DEF SumOfReceipts
<1>10. SumOfReceipts("held")' = SumOfReceipts("held") + x["held"]
  <2>1. SumFunctionOnSet([n \in DOMAIN Append(receipts, x) |-> Append(receipts, x)[n]["held"]],
                         DOMAIN Append(receipts, x))
          = SumFunctionOnSet([n \in DOMAIN receipts |-> receipts[n]["held"]], DOMAIN receipts)
              + x["held"]
    BY <1>4, <1>6, <1>7, SumOfAppended
  <2> QED BY <1>4, <2>1 DEF SumOfReceipts
<1> QED
  BY <1>5, <1>7, <1>8, <1>9, <1>10

\* What the receipts say is held back is a natural number.
LEMMA HeldIsNat ==
    ASSUME Engine
    PROVE  /\ SumOfReceipts("held") \in Nat
           /\ SumOfReceipts("consumed") \in Nat
           /\ SumOfReceipts("released") \in Nat
<1>1. DOMAIN receipts = 1..Len(receipts) /\ Len(receipts) \in Nat
  BY LenProperties DEF Engine
<1>2. IsFiniteSet(DOMAIN receipts)
  BY <1>1, FS_Interval
<1>3. ASSUME NEW n \in DOMAIN receipts
      PROVE  /\ receipts[n]["held"] \in Nat /\ receipts[n]["consumed"] \in Nat
             /\ receipts[n]["released"] \in Nat
  <2>1. receipts[n] \in Receipt
    BY <1>1, ElementOfSeq DEF Engine
  <2> QED BY <2>1, QuoteTypes DEF Receipt
<1>4. ASSUME NEW field, \A n \in DOMAIN receipts : receipts[n][field] \in Nat
      PROVE  SumOfReceipts(field) \in Nat
  <2> DEFINE f == [n \in DOMAIN receipts |-> receipts[n][field]]
  <2>1. \A n \in DOMAIN receipts : f[n] \in Nat
    BY <1>4
  <2> HIDE DEF f
  <2>2. SumFunctionOnSet(f, DOMAIN receipts) \in Nat
    BY <1>2, <2>1, SumNat
  <2> QED BY <2>2 DEF f, SumOfReceipts
<1> QED
  BY <1>3, <1>4

\* The open reservations of one Invocation fewer.
LEMMA OneReservationFewer ==
    ASSUME NEW i \in Reserving, Reserving' = Reserving \ {i}
    PROVE  /\ Cardinality(Reserving') \in Nat
           /\ Gross * Cardinality(Reserving') \in Nat
           /\ Gross * Cardinality(Reserving) = Gross * Cardinality(Reserving') + Gross
<1> DEFINE fewer == Cardinality(Reserving')
<1>1. IsFiniteSet(Reserving) /\ IsFiniteSet(Reserving \ {i})
  BY FiniteParts, FS_Subset
<1>2. Cardinality(Reserving) = fewer + 1 /\ fewer \in Nat
  BY <1>1, FS_RemoveElement, FS_CardinalityType
<1> HIDE DEF fewer
<1>3. Gross \in Nat
  BY QuoteTypes
<1>4. Gross * (fewer + 1) = Gross * fewer + Gross /\ Gross * fewer \in Nat
  BY <1>2, <1>3
<1> QED
  BY <1>2, <1>4 DEF fewer

\* No step but an authorization adds to what may still be earned.
LEMMA CapKept ==
    ASSUME AwardCapHolds,
           reversed \in [Invocations -> 0..Award], reversed' \in [Invocations -> 0..Award],
           Open' \subseteq Open,
           \A j \in Open' : reversed[j] <= reversed'[j]
    PROVE  AwardCapHolds'
<1> DEFINE f == StillOwed
           g == StillOwed'
           S == Open
           T == Open'
<1>1. T \in SUBSET S /\ S \in SUBSET Invocations /\ IsFiniteSet(S) /\ IsFiniteSet(T)
  BY FiniteParts, FS_Subset DEF Open
<1>2. \A j \in S : f[j] \in Nat
  BY <1>1, QuoteTypes DEF StillOwed
<1>3. \A j \in T : g[j] \in Nat /\ g[j] <= f[j]
  BY <1>1, QuoteTypes DEF StillOwed
<1>4. SumFunctionOnSet(f, S) <= AwardCap
  BY DEF AwardCapHolds, StillOwed, Open
<1> HIDE DEF f, g, S, T
<1>5. SumFunctionOnSet(g, T) <= SumFunctionOnSet(f, T)
  BY <1>1, <1>2, <1>3, SumOrder
<1>6. SumFunctionOnSet(f, T) <= SumFunctionOnSet(f, S)
  BY <1>1, <1>2, SumMonotone
<1>7. /\ SumFunctionOnSet(g, T) \in Nat /\ SumFunctionOnSet(f, T) \in Nat
      /\ SumFunctionOnSet(f, S) \in Nat
  BY <1>1, <1>2, <1>3, SumNat
<1>8. SumFunctionOnSet(g, T) <= AwardCap
  BY <1>4, <1>5, <1>6, <1>7, QuoteTypes
<1> QED
  BY <1>8 DEF g, T, AwardCapHolds, StillOwed, Open

\* The exposure an authorization reads is what is still owed.
LEMMA ExposureIsOwed ==
    ASSUME Engine
    PROVE  /\ awardExposureAtomic = SumFunctionOnSet(StillOwed, Open)
           /\ SumFunctionOnSet(StillOwed, Open) \in Nat
<1> DEFINE f == StillOwed
           c == [j \in Invocations |-> Award]
<1>1. {j \in Invocations : Exposes(j)} = Open
  BY DEF Engine, INVOCATION_STATES, Exposes, Open
<1>2. Open \in SUBSET Invocations /\ IsFiniteSet(Open)
  BY FiniteParts DEF Open
<1>3. \A j \in Open : /\ f[j] \in Nat /\ reversed[j] \in Nat
                      /\ c[j] = Award /\ c[j] = f[j] + reversed[j]
  BY <1>2, QuoteTypes DEF Engine, StillOwed
<1> HIDE DEF f, c
<1>4. SumFunctionOnSet(c, Open) = SumFunctionOnSet(f, Open) + SumFunctionOnSet(reversed, Open)
  BY <1>2, <1>3, SumPlus
<1>5. SumFunctionOnSet(c, Open) = Cardinality(Open) * Award
  BY <1>2, <1>3, QuoteTypes, SumConstant
<1>6. SumFunctionOnSet(f, Open) \in Nat /\ SumFunctionOnSet(reversed, Open) \in Nat
  BY <1>2, <1>3, SumNat
<1>7. awardExposureAtomic = Cardinality(Open) * Award - SumFunctionOnSet(reversed, Open)
  BY <1>1 DEF awardExposureAtomic
<1>8. \A u, v, w \in Int : u = v + w => u - w = v
  OBVIOUS
<1>9. SumFunctionOnSet(f, Open) + SumFunctionOnSet(reversed, Open) = Cardinality(Open) * Award
      /\ SumFunctionOnSet(f, Open) + SumFunctionOnSet(reversed, Open) \in Int
  BY <1>4, <1>5, <1>6
<1>10. Cardinality(Open) * Award - SumFunctionOnSet(reversed, Open) = SumFunctionOnSet(f, Open)
  BY <1>6, <1>8, <1>9
<1> QED
  BY <1>6, <1>7, <1>10 DEF f

LEMMA AuthorizeBooks ==
    ASSUME Books, NEW i \in Invocations, Authorize(i)
    PROVE  Books'
<1>1. Engine /\ AwardCapHolds /\ BudgetIsReceipted
  BY DEF Books
<1>2. Open' = Open \cup {i} /\ i \notin Open /\ Reserving' = Reserving \cup {i} /\ i \notin Reserving
  BY <1>1 DEF Authorize, Engine, Open, Reserving
<1>3. Engine'
  <2>1. budget' = [budget EXCEPT !.reserved = @ + Gross]
        /\ invocation' = [invocation EXCEPT ![i] = "authorized"]
        /\ invocation[i] = "none" /\ UNCHANGED <<running, reversed, receipts>>
    BY DEF Authorize
  <2>2. budget' \in [reserved : Nat, consumed : Nat, released : Nat]
    BY <1>1, <2>1, QuoteTypes DEF Engine
  <2>3. invocation' \in [Invocations -> INVOCATION_STATES]
    BY <1>1, <2>1 DEF Engine, INVOCATION_STATES
  <2>4. running' \subseteq {j \in Invocations : invocation'[j] = "executing"}
    BY <1>1, <2>1 DEF Engine
  <2>5. \A j \in Invocations : reversed'[j] > 0 => invocation'[j] = "succeeded"
    BY <1>1, <2>1 DEF Engine
  <2> QED
    BY <1>1, <2>1, <2>2, <2>3, <2>4, <2>5 DEF Engine
<1>4. AwardCapHolds'
  <2> DEFINE f == StillOwed
  <2>1. StillOwed' = f
    BY DEF Authorize, StillOwed
  <2>2. IsFiniteSet(Open) /\ Open \in SUBSET Invocations
    BY FiniteParts DEF Open
  <2>3. \A j \in Open \cup {i} : f[j] \in Int
    BY <1>1, <2>2, QuoteTypes DEF Engine, StillOwed
  <2>4. f[i] = Award
    <3>1. reversed[i] \in 0..Award /\ ~(reversed[i] > 0)
      BY <1>1 DEF Engine, Authorize
    <3>2. reversed[i] = 0
      BY <3>1, QuoteTypes
    <3> QED BY <3>2, QuoteTypes DEF StillOwed
  <2> HIDE DEF f
  <2>5. SumFunctionOnSet(f, Open \cup {i}) = f[i] + SumFunctionOnSet(f, Open)
    BY <1>2, <2>2, <2>3, SumAdd
  <2>6. SumFunctionOnSet(f, Open) + Award <= AwardCap /\ SumFunctionOnSet(f, Open) \in Nat
    BY <1>1, ExposureIsOwed DEF Authorize, f
  <2>7. SumFunctionOnSet(f, Open \cup {i}) <= AwardCap
    BY <2>4, <2>5, <2>6, QuoteTypes
  <2>8. SumFunctionOnSet(StillOwed', Open') <= AwardCap
    BY <1>2, <2>1, <2>7
  <2> QED
    BY <2>8 DEF AwardCapHolds, StillOwed, Open
<1>5. BudgetIsReceipted'
  <2> DEFINE held == SumOfReceipts("held")
             open == Cardinality(Reserving)
  <2>1. held \in Nat /\ open \in Nat /\ Cardinality(Reserving') = open + 1
    BY <1>1, <1>2, HeldIsNat, FiniteParts, FS_AddElement, FS_CardinalityType
  <2>2. /\ budget'.consumed = budget.consumed /\ budget'.released = budget.released
        /\ budget'.reserved = budget.reserved + Gross
        /\ budget.reserved \in Nat /\ budget.consumed \in Nat
    BY <1>1 DEF Authorize, Engine
  <2>3. /\ SumOfReceipts("held")' = held
        /\ SumOfReceipts("consumed")' = SumOfReceipts("consumed")
        /\ SumOfReceipts("released")' = SumOfReceipts("released")
    BY DEF Authorize, SumOfReceipts
  <2>4. /\ budget.consumed = SumOfReceipts("consumed")
        /\ budget.released = SumOfReceipts("released")
        /\ budget.reserved = held + Gross * open
        /\ Gross <= Allocated - budget.reserved - budget.consumed
    BY <1>1 DEF BudgetIsReceipted, Reserving, Authorize, remainingAtomic
  <2> HIDE DEF held, open
  <2>5. Gross * (open + 1) = Gross * open + Gross /\ Gross * open \in Nat
    BY <2>1, QuoteTypes
  <2>6. budget'.reserved = held + Gross * (open + 1)
    BY <2>1, <2>2, <2>4, <2>5, QuoteTypes
  <2>7. budget'.reserved + budget'.consumed <= Allocated
    BY <2>2, <2>4, QuoteTypes
  <2>8. /\ budget'.consumed = SumOfReceipts("consumed")'
        /\ budget'.released = SumOfReceipts("released")'
        /\ budget'.reserved = SumOfReceipts("held")' + Gross * Cardinality(Reserving')
    BY <2>1, <2>2, <2>3, <2>4, <2>6
  <2> QED
    BY <2>7, <2>8 DEF BudgetIsReceipted, Reserving
<1> QED
  BY <1>3, <1>4, <1>5 DEF Books

\* A reservation ends once, and its receipt accounts for all of it.
LEMMA ReservationEnds ==
    ASSUME Books, NEW i \in Reserving, clock \in 0..LastTick,
           NEW st \in {"succeeded", "failed", "cancelled"},
           invocation' = [invocation EXCEPT ![i] = st],
           running' = running \ {i}, reversed' = reversed,
           NEW consumed \in 0..Gross, NEW released \in 0..Gross, consumed + released = Gross,
           Ends(consumed),
           NEW award \in 0..Award, Commit(i, consumed, released, award)
    PROVE  Books'
<1>1. Engine /\ AwardCapHolds /\ BudgetIsReceipted /\ i \in Invocations
  BY DEF Books, Reserving
<1>2. Open' \subseteq Open /\ Reserving' = Reserving \ {i}
  BY <1>1 DEF Engine, Open, Reserving
<1>3. /\ receipts' \in Seq(Receipt)
      /\ SumOfReceipts("consumed")' = SumOfReceipts("consumed") + consumed
      /\ SumOfReceipts("released")' = SumOfReceipts("released") + released
      /\ SumOfReceipts("held")' = SumOfReceipts("held")
  <2>1. consumed + released <= Gross /\ Gross - consumed - released = 0
    BY QuoteTypes
  <2>2. SumOfReceipts("held") \in Nat
    BY <1>1, HeldIsNat
  <2> QED BY <1>1, <2>1, <2>2, ReceiptSums
<1>4. /\ budget'.reserved = budget.reserved - Gross
      /\ budget'.consumed = budget.consumed + consumed
      /\ budget'.released = budget.released + released
      /\ budget' = [reserved |-> budget'.reserved, consumed |-> budget'.consumed,
                    released |-> budget'.released]
      /\ budget.reserved \in Nat /\ budget.consumed \in Nat /\ budget.released \in Nat
  <2>1. budget.reserved \in Nat /\ budget.consumed \in Nat /\ budget.released \in Nat
    BY <1>1 DEF Engine
  <2>2. budget' = [reserved |-> budget.reserved - Gross,
                   consumed |-> budget.consumed + consumed,
                   released |-> budget.released + (Gross - consumed)]
    BY DEF Ends
  <2>3. Gross - consumed = released
    BY QuoteTypes
  <2> QED BY <2>1, <2>2, <2>3
<1>5. /\ budget.consumed = SumOfReceipts("consumed")
      /\ budget.released = SumOfReceipts("released")
      /\ budget.reserved = SumOfReceipts("held") + Gross * Cardinality(Reserving)
      /\ budget.reserved + budget.consumed <= Allocated
  BY <1>1 DEF BudgetIsReceipted, Reserving
<1> DEFINE held == SumOfReceipts("held")
           rest == Gross * Cardinality(Reserving')
<1>6. Gross * Cardinality(Reserving) = rest + Gross /\ rest \in Nat /\ held \in Nat
  BY <1>1, <1>2, OneReservationFewer, HeldIsNat
<1>7. held' = held
  BY <1>3
<1> HIDE DEF held, rest
<1>8. budget'.reserved = held + rest /\ budget'.reserved \in Nat
  BY <1>4, <1>5, <1>6, QuoteTypes DEF held
<1>9. budget'.reserved + budget'.consumed <= Allocated
  BY <1>4, <1>5, QuoteTypes
<1>10. BudgetIsReceipted'
  <2>1. /\ budget'.consumed = SumOfReceipts("consumed")'
        /\ budget'.released = SumOfReceipts("released")'
    BY <1>3, <1>4, <1>5
  <2>2. budget'.reserved = SumOfReceipts("held")' + Gross * Cardinality(Reserving')
    BY <1>3, <1>8 DEF held, rest
  <2> QED BY <1>9, <2>1, <2>2 DEF BudgetIsReceipted, Reserving
<1>11. Engine'
  <2>1. budget' \in [reserved : Nat, consumed : Nat, released : Nat]
    BY <1>4, <1>8, QuoteTypes
  <2>2. invocation' \in [Invocations -> INVOCATION_STATES]
    BY <1>1 DEF Engine, INVOCATION_STATES
  <2>3. running' \subseteq {j \in Invocations : invocation'[j] = "executing"}
    BY <1>1 DEF Engine
  <2>4. \A j \in Invocations : reversed'[j] > 0 => invocation'[j] = "succeeded"
    BY <1>1 DEF Engine, Reserving
  <2> QED
    BY <1>1, <1>3, <2>1, <2>2, <2>3, <2>4 DEF Engine
<1>12. AwardCapHolds'
  <2>1. reversed \in [Invocations -> 0..Award] /\ Open' \in SUBSET Invocations
    BY <1>1 DEF Engine, Open
  <2>2. \A j \in Open' : reversed[j] <= reversed'[j]
    BY <2>1, QuoteTypes
  <2> QED
    BY <1>1, <1>2, <2>1, <2>2, CapKept
<1> QED
  BY <1>10, <1>11, <1>12 DEF Books

\* Nothing is released of a reservation that is held: its receipt keeps it back.
LEMMA HoldBooks ==
    ASSUME Books, clock \in 0..LastTick, NEW i \in Invocations, Returned(i), Hold(i)
    PROVE  Books'
<1>1. Engine /\ AwardCapHolds /\ BudgetIsReceipted /\ i \in Reserving
  BY DEF Books, Reserving, Engine, Returned
<1>2. Open' = Open /\ Reserving' = Reserving \ {i}
  BY <1>1 DEF Engine, Open, Reserving, Hold, Returned
<1>3. /\ receipts' \in Seq(Receipt)
      /\ SumOfReceipts("consumed")' = SumOfReceipts("consumed")
      /\ SumOfReceipts("released")' = SumOfReceipts("released")
      /\ SumOfReceipts("held")' = SumOfReceipts("held") + Gross
  <2>1. 0 \in 0..Gross /\ 0 \in 0..Award /\ 0 + 0 <= Gross /\ Gross - 0 - 0 = Gross
    BY QuoteTypes
  <2>2. SumOfReceipts("consumed") \in Nat /\ SumOfReceipts("released") \in Nat
    BY <1>1, HeldIsNat
  <2> QED BY <1>1, <2>1, <2>2, ReceiptSums DEF Hold
<1>4. budget' = budget /\ reversed' = reversed /\ running' = running \ {i}
      /\ invocation' = [invocation EXCEPT ![i] = "unresolved"]
  BY DEF Hold, Returned
<1>5. BudgetIsReceipted'
  <2> DEFINE held == SumOfReceipts("held")
             rest == Gross * Cardinality(Reserving')
  <2>1. Gross * Cardinality(Reserving) = rest + Gross /\ rest \in Nat /\ held \in Nat
    BY <1>1, <1>2, OneReservationFewer, HeldIsNat
  <2>2. /\ budget.consumed = SumOfReceipts("consumed")
        /\ budget.released = SumOfReceipts("released")
        /\ budget.reserved = held + Gross * Cardinality(Reserving)
        /\ budget.reserved + budget.consumed <= Allocated
    BY <1>1 DEF BudgetIsReceipted, Reserving
  <2> HIDE DEF held, rest
  <2>3. budget.reserved = (held + Gross) + rest
    BY <2>1, <2>2, QuoteTypes
  <2>4. /\ budget'.consumed = SumOfReceipts("consumed")'
        /\ budget'.released = SumOfReceipts("released")'
        /\ budget'.reserved = SumOfReceipts("held")' + Gross * Cardinality(Reserving')
        /\ budget'.reserved + budget'.consumed <= Allocated
    BY <1>3, <1>4, <2>2, <2>3 DEF held, rest
  <2> QED BY <2>4 DEF BudgetIsReceipted, Reserving
<1>6. Engine'
  <2>1. invocation' \in [Invocations -> INVOCATION_STATES]
    BY <1>1, <1>4 DEF Engine, INVOCATION_STATES
  <2>2. running' \subseteq {j \in Invocations : invocation'[j] = "executing"}
    BY <1>1, <1>4 DEF Engine
  <2>3. \A j \in Invocations : reversed'[j] > 0 => invocation'[j] = "succeeded"
    BY <1>1, <1>4 DEF Engine, Reserving
  <2> QED
    BY <1>1, <1>3, <1>4, <2>1, <2>2, <2>3 DEF Engine
<1>7. AwardCapHolds'
  <2>1. reversed \in [Invocations -> 0..Award] /\ Open' \in SUBSET Invocations
    BY <1>1 DEF Engine, Open
  <2>2. \A j \in Open' : reversed[j] <= reversed'[j]
    BY <1>4, <2>1, QuoteTypes
  <2> QED
    BY <1>1, <1>2, <1>4, <2>1, <2>2, CapKept
<1> QED
  BY <1>5, <1>6, <1>7 DEF Books

\* The executor is called, or its answer is lost with the receipt signer: the
\* reservation stays open.
LEMMA ReservationStays ==
    ASSUME Books, UNCHANGED <<budget, reversed, receipts>>,
           invocation' \in [Invocations -> INVOCATION_STATES],
           Open' = Open, Reserving' = Reserving,
           running' \subseteq {j \in Invocations : invocation'[j] = "executing"},
           \A j \in Invocations : invocation[j] = "succeeded" => invocation'[j] = "succeeded"
    PROVE  Books'
<1>1. Engine /\ AwardCapHolds /\ BudgetIsReceipted
  BY DEF Books
<1>2. Engine'
  BY <1>1 DEF Engine
<1>3. AwardCapHolds'
  <2>1. reversed \in [Invocations -> 0..Award] /\ Open' \in SUBSET Invocations
    BY <1>1 DEF Engine, Open
  <2>2. \A j \in Open' : reversed[j] <= reversed'[j]
    BY <2>1, QuoteTypes
  <2> QED
    BY <1>1, <2>1, <2>2, CapKept
<1>4. BudgetIsReceipted'
  <2>1. /\ SumOfReceipts("held")' = SumOfReceipts("held")
        /\ SumOfReceipts("consumed")' = SumOfReceipts("consumed")
        /\ SumOfReceipts("released")' = SumOfReceipts("released")
    BY DEF SumOfReceipts
  <2> QED
    BY <1>1, <2>1 DEF BudgetIsReceipted, Reserving
<1> QED
  BY <1>2, <1>3, <1>4 DEF Books

LEMMA ReversalBooks ==
    ASSUME Books, NEW i \in Invocations, NEW amount \in 1..Award, RecordReversal(i, amount)
    PROVE  Books'
<1>1. Engine /\ AwardCapHolds /\ BudgetIsReceipted
  BY DEF Books
<1>2. reversed \in [Invocations -> 0..Award] /\ amount \in Nat /\ Award \in Nat
  BY <1>1, QuoteTypes DEF Engine
<1>3. /\ reversed' = [reversed EXCEPT ![i] = @ + amount]
      /\ reversed[i] + amount <= Award /\ invocation[i] = "succeeded"
      /\ UNCHANGED <<budget, invocation, running, receipts>>
  BY DEF RecordReversal
<1>4. reversed' \in [Invocations -> 0..Award]
      /\ \A j \in Invocations : reversed[j] <= reversed'[j]
  BY <1>2, <1>3
<1>5. Engine'
  BY <1>1, <1>3, <1>4 DEF Engine
<1>6. AwardCapHolds'
  <2>1. Open' = Open /\ Open \in SUBSET Invocations
    BY <1>3 DEF Open
  <2> QED
    BY <1>1, <1>2, <1>4, <2>1, CapKept
<1>7. BudgetIsReceipted'
  <2>1. /\ SumOfReceipts("held")' = SumOfReceipts("held")
        /\ SumOfReceipts("consumed")' = SumOfReceipts("consumed")
        /\ SumOfReceipts("released")' = SumOfReceipts("released")
    BY <1>3 DEF SumOfReceipts
  <2> QED
    BY <1>1, <1>3, <2>1 DEF BudgetIsReceipted
<1> QED
  BY <1>5, <1>6, <1>7 DEF Books

LEMMA InitBooks == Init => Books
<1> SUFFICES ASSUME Init PROVE Books
  OBVIOUS
<1>1. /\ budget = [reserved |-> 0, consumed |-> 0, released |-> 0]
      /\ invocation = [i \in Invocations |-> "none"]
      /\ running = {} /\ reversed = [i \in Invocations |-> 0] /\ receipts = <<>>
  BY DEF Init, AwardsInit
<1>2. Engine
  BY <1>1, QuoteTypes, EmptySeq DEF Engine, INVOCATION_STATES
<1>3. Open = {} /\ Reserving = {} /\ Cardinality({}) = 0
  BY <1>1, FS_EmptySet DEF Open, Reserving
<1>4. AwardCapHolds
  <2>1. SumFunctionOnSet(StillOwed, Open) = 0
    BY <1>3, SumEmpty
  <2> QED BY <2>1, QuoteTypes DEF AwardCapHolds, StillOwed, Open
<1>5. BudgetIsReceipted
  <2>1. DOMAIN receipts = {}
    BY <1>1
  <2>2. SumOfReceipts("held") = 0 /\ SumOfReceipts("consumed") = 0
        /\ SumOfReceipts("released") = 0
    BY <2>1, SumEmpty DEF SumOfReceipts
  <2>3. Cardinality({i \in Invocations : invocation[i] \in {"authorized", "executing"}}) = 0
    BY <1>3 DEF Reserving
  <2> QED BY <1>1, <2>2, <2>3, QuoteTypes DEF BudgetIsReceipted
<1> QED
  BY <1>2, <1>4, <1>5 DEF Books

LEMMA NextBooks == Inv /\ Books /\ [Next]_vars => Books'
<1> SUFFICES ASSUME Inv, Books, [Next]_vars PROVE Books'
  OBVIOUS
<1>1. Engine /\ clock \in 0..LastTick
  BY DEF Inv, Books
<1>2. ASSUME NEW i \in Invocations, Authorize(i) PROVE Books'
  BY <1>2, AuthorizeBooks
<1>3. ASSUME NEW i \in Invocations, Cancel(i) PROVE Books'
  <2>1. i \in Reserving /\ running' = running \ {i} /\ reversed' = reversed
    BY <1>1, <1>3 DEF Cancel, Reserving, Engine
  <2>2. 0 \in 0..Gross /\ Gross \in 0..Gross /\ 0 + Gross = Gross /\ 0 \in 0..Award
    BY QuoteTypes
  <2>3. invocation' = [invocation EXCEPT ![i] = "cancelled"]
        /\ Ends(0) /\ Commit(i, 0, Gross, 0)
    BY <1>3 DEF Cancel
  <2> QED BY <1>1, <2>1, <2>2, <2>3, ReservationEnds
<1>4. ASSUME NEW i \in Invocations, StartExecution(i) PROVE Books'
  <2>1. /\ invocation' = [invocation EXCEPT ![i] = "executing"] /\ invocation[i] = "authorized"
        /\ running' = running \cup {i} /\ UNCHANGED <<budget, reversed, receipts>>
    BY <1>4 DEF StartExecution
  <2>2. invocation' \in [Invocations -> INVOCATION_STATES]
    BY <1>1, <2>1 DEF Engine, INVOCATION_STATES
  <2>3. Open' = Open /\ Reserving' = Reserving
    BY <1>1, <2>1 DEF Engine, Open, Reserving
  <2>4. running' \subseteq {j \in Invocations : invocation'[j] = "executing"}
    BY <1>1, <2>1 DEF Engine
  <2>5. \A j \in Invocations : invocation[j] = "succeeded" => invocation'[j] = "succeeded"
    BY <1>1, <2>1 DEF Engine
  <2> QED BY <2>1, <2>2, <2>3, <2>4, <2>5, ReservationStays
<1>5. ASSUME NEW i \in Invocations, Returned(i)
      PROVE  i \in Reserving /\ running' = running \ {i} /\ reversed' = reversed
  BY <1>1, <1>5 DEF Returned, Reserving, Engine
<1>6. ASSUME NEW i \in Invocations, Succeed(i) PROVE Books'
  <2>1. PICK cost \in 0..MaxCost : Earn(i, cost)
    BY <1>6 DEF Succeed
  <2>2. i \in Reserving /\ running' = running \ {i} /\ reversed' = reversed
    BY <1>5, <1>6 DEF Succeed
  <2>3. /\ cost + Fee + Award \in 0..Gross /\ MaxCost - cost \in 0..Gross
        /\ (cost + Fee + Award) + (MaxCost - cost) = Gross /\ Award \in 0..Award
    BY QuoteTypes
  <2>4. invocation' = [invocation EXCEPT ![i] = "succeeded"]
        /\ Ends(cost + Fee + Award) /\ Commit(i, cost + Fee + Award, MaxCost - cost, Award)
    BY <2>1 DEF Earn
  <2> QED BY <1>1, <2>2, <2>3, <2>4, ReservationEnds
<1>7. ASSUME NEW i \in Invocations, Fail(i) PROVE Books'
  <2>1. PICK cost \in 0..MaxCost : ChargeFailure(i, cost)
    BY <1>7 DEF Fail
  <2>2. i \in Reserving /\ running' = running \ {i} /\ reversed' = reversed
    BY <1>5, <1>7 DEF Fail
  <2>3. /\ cost \in 0..Gross /\ Gross - cost \in 0..Gross /\ cost + (Gross - cost) = Gross
        /\ 0 \in 0..Award
    BY QuoteTypes
  <2>4. invocation' = [invocation EXCEPT ![i] = "failed"]
        /\ Ends(cost) /\ Commit(i, cost, Gross - cost, 0)
    BY <2>1 DEF ChargeFailure
  <2> QED BY <1>1, <2>2, <2>3, <2>4, ReservationEnds
<1>8. ASSUME NEW i \in Invocations, LeaveUnresolved(i) PROVE Books'
  BY <1>1, <1>8, HoldBooks DEF LeaveUnresolved
<1>9. ASSUME UNCHANGED <<budget, invocation, reversed, receipts>>, running' \subseteq running
      PROVE  Books'
  <2>1. /\ invocation' \in [Invocations -> INVOCATION_STATES]
        /\ running' \subseteq {j \in Invocations : invocation'[j] = "executing"}
    BY <1>1, <1>9 DEF Engine
  <2>2. Open' = Open /\ Reserving' = Reserving
    BY <1>9 DEF Open, Reserving
  <2> QED BY <1>9, <2>1, <2>2, ReservationStays
<1>10. ASSUME NEW i \in Invocations, SignerFails(i) PROVE Books'
  BY <1>9, <1>10 DEF SignerFails, Returned
<1>11. ASSUME NEW i \in Invocations, NEW amount \in 1..Award, RecordReversal(i, amount)
       PROVE  Books'
  BY <1>11, ReversalBooks
<1>12. ASSUME Tick PROVE Books'
  BY <1>9, <1>12 DEF Tick
<1>13. CASE AwardsNext
  BY <1>2, <1>3, <1>4, <1>6, <1>7, <1>8, <1>10, <1>11, <1>12, <1>13 DEF AwardsNext
<1>14. CASE BuildNext
  BY <1>9, <1>14 DEF BuildNext, Build, engineVars
<1>15. CASE UNCHANGED vars
  BY <1>9, <1>15 DEF vars, engineVars
<1> QED
  BY <1>13, <1>14, <1>15 DEF Next

\* The engine, its cap and its counters, after every transaction of the engine and
\* every execution that returns.
THEOREM BooksInvariant == Spec => []Books
<1>1. Inv /\ Books /\ [Next]_vars => (Inv /\ Books)'
  BY NextInv, NextBooks
<1>2. Init => Inv /\ Books
  BY InitInv, InitBooks
<1> QED
  BY <1>1, <1>2, PTL DEF Spec

\* AwardCapHolds: what was promised and may still be earned stays within the
\* period's cap, for any number of Invocations at once.
THEOREM AwardsStayWithinTheCap == Spec => []AwardCapHolds
  BY BooksInvariant, PTL DEF Books

\* BudgetIsReceipted: the receipts and the open reservations add up to the budget's
\* counters, and nothing is committed beyond the allocation.
THEOREM BudgetReconciles == Spec => []BudgetIsReceipted
  BY BooksInvariant, PTL DEF Books

-----------------------------------------------------------------------------
(***************************************************************************)
(* The chain of statements.  A statement sees only the one before it, so   *)
(* what all payments add up to is carried through its closing balance: it  *)
(* is what the activity up to now made payable, less everything paid.      *)
(***************************************************************************)
Owed(a) == a.advanced - a.payableReversed

PayableOf(st) == SumFunctionOnSet([n \in DOMAIN st.activity |-> Owed(st.activity[n])],
                                  DOMAIN st.activity)

PaidByChain == SumFunctionOnSet([s \in DOMAIN statements |-> statements[s].paid],
                                DOMAIN statements)

Chain == statements \in Seq(Statement) /\ ChainConserves

\* The newest statement, or the genesis that opens the chain with nothing.
LEMMA PriorOfTheChain ==
    ASSUME Inv, Chain
    PROVE  /\ Prior.closing \in Nat
           /\ DOMAIN Prior.activity = 1..Prior.cursor
           /\ PaidByChain \in Nat
           /\ PaidByChain + Prior.closing = PayableOf(Prior)
<1>1. Prior.closing \in Nat /\ DOMAIN Prior.activity = 1..Prior.cursor
  <2>1. CASE statements = <<>>
    BY <2>1 DEF Prior, Genesis
  <2>2. CASE statements # <<>>
    <3>1. statements \in Seq(Statement) /\ Prior = statements[Len(statements)]
      BY <2>2 DEF Chain, Prior
    <3>2. Len(statements) \in 1..Len(statements)
      BY <3>1, <2>2, EmptySeq, LenProperties
    <3>3. Prior \in Statement /\ SoundStatement(Prior)
      BY <3>1, <3>2, ElementOfSeq DEF Inv
    <3> QED
      BY <3>3 DEF Statement, SoundStatement
  <2> QED
    BY <2>1, <2>2
<1>2. PaidByChain \in Nat
  <2> DEFINE f == [s \in DOMAIN statements |-> statements[s].paid]
  <2>1. DOMAIN statements = 1..Len(statements) /\ Len(statements) \in Nat
    BY LenProperties DEF Chain
  <2>2. IsFiniteSet(DOMAIN statements)
    BY <2>1, FS_Interval
  <2>3. ASSUME NEW s \in DOMAIN statements
        PROVE  f[s] \in Nat
    <3>1. statements[s] \in Statement
      BY <2>1, ElementOfSeq DEF Chain
    <3> QED BY <3>1 DEF Statement
  <2> HIDE DEF f
  <2>4. SumFunctionOnSet(f, DOMAIN statements) \in Nat
    BY <2>2, <2>3, SumNat
  <2> QED
    BY <2>4 DEF f, PaidByChain
<1>3. PaidByChain + Prior.closing = PayableOf(Prior)
  BY DEF Chain, ChainConserves, PaidByChain, PayableOf, Owed
<1> QED
  BY <1>1, <1>2, <1>3

\* What the rows of a statement add to what is payable.
LEMMA RowsAddUp ==
    ASSUME Inv, Chain, NEW last \in Prior.cursor..Len(receipts), NEW rows \in [1..last -> Row],
           NEW st, st.activity = [n \in 1..last |-> Added(Recognized(Prior, last)[n], rows[n])]
    PROVE  /\ SumOfRows(rows, "advance") \in Nat /\ SumOfRows(rows, "payable") \in Nat
           /\ PayableOf(Prior) \in Int
           /\ PayableOf(st) = (PayableOf(Prior) + SumOfRows(rows, "advance"))
                                - SumOfRows(rows, "payable")
<1> DEFINE before == Recognized(Prior, last)
           old == [n \in DOMAIN Prior.activity |-> Owed(Prior.activity[n])]
           b == [n \in 1..last |-> Owed(before[n])]
           c == [n \in 1..last |-> rows[n]["advance"]]
           d == [n \in 1..last |-> rows[n]["payable"]]
           m == [n \in 1..last |-> b[n] + c[n]]
           new == [n \in DOMAIN st.activity |-> Owed(st.activity[n])]
<1>1. /\ Prior.cursor \in 0..Len(receipts) /\ Len(receipts) \in Nat
      /\ \A n \in 1..Prior.cursor :
            Prior.activity[n] \in Activity /\ SoundActivity(Prior, n)
      /\ DOMAIN Prior.activity = 1..Prior.cursor
  BY PriorIsSound, PriorOfTheChain
<1>2. /\ last \in Nat /\ 1..Prior.cursor \in SUBSET (1..last)
      /\ IsFiniteSet(1..last) /\ IsFiniteSet(1..Prior.cursor)
      /\ DOMAIN st.activity = 1..last /\ DOMAIN rows = 1..last
  <2>1. last \in Nat /\ Prior.cursor \in Nat /\ 1..Prior.cursor \in SUBSET (1..last)
    BY <1>1
  <2>2. IsFiniteSet(1..last) /\ IsFiniteSet(1..Prior.cursor)
    BY <2>1, FS_Interval
  <2>3. DOMAIN rows = 1..last
    OBVIOUS
  <2>4. DOMAIN st.activity = 1..last
    BY Zenon
  <2> QED BY <2>1, <2>2, <2>3, <2>4
<1>3. ASSUME NEW n \in 1..Prior.cursor
      PROVE  b[n] = old[n] /\ old[n] \in Int /\ n \in 1..last
  <2>1. n \in 1..last /\ n <= Prior.cursor
    BY <1>1, <1>2
  <2>2. before[n] = Prior.activity[n]
    BY <2>1 DEF Recognized
  <2>3. Owed(Prior.activity[n]) \in Int
    BY <1>1 DEF Activity, Owed
  <2> QED BY <1>1, <2>1, <2>2, <2>3
<1>4. ASSUME NEW n \in (1..last) \ (1..Prior.cursor)
      PROVE  b[n] = 0
  <2>1. before[n] = NoActivity(n)
    BY <1>1, <1>2 DEF Recognized
  <2> QED BY <2>1 DEF NoActivity, Owed
<1>5. ASSUME NEW n \in 1..last
      PROVE  /\ b[n] \in Int /\ c[n] \in Nat /\ d[n] \in Nat
             /\ m[n] = b[n] + c[n] /\ m[n] = new[n] + d[n] /\ new[n] \in Int /\ m[n] \in Int
  <2>1. b[n] \in Int
    <3> HIDE DEF b, old, before
    <3>1. CASE n \in 1..Prior.cursor
      BY <1>3, <3>1
    <3>2. CASE n \notin 1..Prior.cursor
      BY <1>4, <3>2
    <3> QED BY <3>1, <3>2
  <2>2. before[n].advanced \in Nat /\ before[n].payableReversed \in Nat
    <3>1. CASE n <= Prior.cursor
      BY <1>1, <3>1 DEF Recognized, Activity
    <3>2. CASE ~(n <= Prior.cursor)
      BY <3>2 DEF Recognized, NoActivity
    <3> QED BY <3>1, <3>2
  <2>3. rows[n].advance \in Nat /\ rows[n].payable \in Nat
    BY RowAssumption DEF Row
  <2>4. st.activity[n].advanced = before[n].advanced + rows[n].advance
        /\ st.activity[n].payableReversed = before[n].payableReversed + rows[n].payable
    BY DEF Added
  <2>5. Owed(st.activity[n])
          = (before[n].advanced + rows[n].advance) - (before[n].payableReversed + rows[n].payable)
        /\ Owed(before[n]) = before[n].advanced - before[n].payableReversed
    BY <2>4 DEF Owed
  <2>6. /\ c[n] = rows[n].advance /\ d[n] = rows[n].payable
        /\ b[n] = Owed(before[n]) /\ new[n] = Owed(st.activity[n]) /\ m[n] = b[n] + c[n]
    BY <1>2
  <2>7. \A u, v, x, y \in Nat : /\ (u + x) - (v + y) \in Int
                               /\ (u - v) + x = ((u + x) - (v + y)) + y
                               /\ (u - v) + x \in Int
    OBVIOUS
  <2> HIDE DEF before, b, c, d, m, new
  <2>8. m[n] = new[n] + d[n] /\ new[n] \in Int /\ m[n] \in Int
    BY <2>2, <2>3, <2>5, <2>6, <2>7
  <2> QED BY <2>1, <2>3, <2>6, <2>8
<1>6. /\ SumOfRows(rows, "advance") = SumFunctionOnSet(c, 1..last)
      /\ SumOfRows(rows, "payable") = SumFunctionOnSet(d, 1..last)
      /\ PayableOf(Prior) = SumFunctionOnSet(old, 1..Prior.cursor)
      /\ PayableOf(st) = SumFunctionOnSet(new, 1..last)
  <2>1. SumOfRows(rows, "advance") = SumFunctionOnSet(c, 1..last)
    BY <1>2 DEF SumOfRows
  <2>2. SumOfRows(rows, "payable") = SumFunctionOnSet(d, 1..last)
    BY <1>2 DEF SumOfRows
  <2>3. PayableOf(Prior) = SumFunctionOnSet(old, 1..Prior.cursor)
    BY <1>1 DEF PayableOf
  <2>4. PayableOf(st) = SumFunctionOnSet(new, 1..last)
    BY <1>2 DEF PayableOf
  <2> QED BY <2>1, <2>2, <2>3, <2>4
<1> HIDE DEF before, old, b, c, d, m, new
<1>7. SumFunctionOnSet(b, 1..last) = SumFunctionOnSet(b, 1..Prior.cursor)
  <2> DEFINE S == 1..last
             T == 1..Prior.cursor
  <2>1. T \in SUBSET S /\ IsFiniteSet(S)
    BY <1>2
  <2>2. \A n \in S : b[n] \in Int
    BY <1>5
  <2>3. \A n \in S \ T : b[n] = 0
    BY <1>4
  <2> HIDE DEF S, T
  <2>4. SumFunctionOnSet(b, S) = SumFunctionOnSet(b, T)
    BY <2>1, <2>2, <2>3, SumZeros
  <2> QED BY <2>4 DEF S, T
<1>8. SumFunctionOnSet(b, 1..Prior.cursor) = SumFunctionOnSet(old, 1..Prior.cursor)
  <2> DEFINE T == 1..Prior.cursor
  <2>1. IsFiniteSet(T) /\ \A n \in T : b[n] = old[n]
    BY <1>2, <1>3
  <2> HIDE DEF T
  <2>2. SumFunctionOnSet(b, T) = SumFunctionOnSet(old, T)
    BY <2>1, SumSame
  <2> QED BY <2>2 DEF T
<1>9. SumFunctionOnSet(m, 1..last) = SumFunctionOnSet(b, 1..last) + SumFunctionOnSet(c, 1..last)
  BY <1>2, <1>5, SumPlus
<1>10. SumFunctionOnSet(m, 1..last) = SumFunctionOnSet(new, 1..last) + SumFunctionOnSet(d, 1..last)
  BY <1>2, <1>5, SumPlus
<1>11. /\ SumFunctionOnSet(c, 1..last) \in Nat /\ SumFunctionOnSet(d, 1..last) \in Nat
       /\ SumFunctionOnSet(b, 1..last) \in Int /\ SumFunctionOnSet(new, 1..last) \in Int
  <2> DEFINE S == 1..last
  <2>1. IsFiniteSet(S)
    BY <1>2
  <2>2. \A n \in S : c[n] \in Nat /\ d[n] \in Nat /\ b[n] \in Int /\ new[n] \in Int
    BY <1>5
  <2> HIDE DEF S
  <2>3. SumFunctionOnSet(c, S) \in Nat /\ SumFunctionOnSet(d, S) \in Nat
    BY <2>1, <2>2, SumNat
  <2>4. SumFunctionOnSet(b, S) \in Int /\ SumFunctionOnSet(new, S) \in Int
    BY <2>1, <2>2, SumInt
  <2> QED BY <2>3, <2>4 DEF S
<1>12. SumFunctionOnSet(new, 1..last)
         = (SumFunctionOnSet(b, 1..last) + SumFunctionOnSet(c, 1..last))
             - SumFunctionOnSet(d, 1..last)
  BY <1>9, <1>10, <1>11
<1> QED
  BY <1>6, <1>7, <1>8, <1>11, <1>12

\* A statement closes with what it does not pay, and the chain still adds up.
LEMMA BuildChain ==
    ASSUME Inv, Chain, BuildNext
    PROVE  Chain'
<1> DEFINE period == Prior.period + 1
           last == Prior.cursor + Cardinality(RowsOf(period))
<1>1. PICK rows \in [1..last -> Row], paid \in 0..MaxRow : Build(period, rows, paid)
  BY DEF BuildNext
<1> DEFINE after == [n \in 1..last |-> Added(Recognized(Prior, last)[n], rows[n])]
           adds == SumOfRows(rows, "advance")
           takes == SumOfRows(rows, "payable")
           payable == Prior.closing + adds - takes
           st == [period |-> period, cursor |-> last, activity |-> after,
                  paid |-> paid, closing |-> payable - paid]
<1>2. Continuous(Prior, RowsOf(period)) /\ paid <= payable /\ UNCHANGED engineVars
  BY <1>1 DEF Build, Opening
<1>3. statements' = Append(statements, st)
  BY <1>1 DEF Build, Opening
<1>4. last \in Prior.cursor..Len(receipts)
  BY <1>2, RowsAreTheMonth
<1>5. st.activity = after /\ st.paid = paid /\ st.closing = payable - paid
  OBVIOUS
<1> HIDE DEF last
<1>6. /\ adds \in Nat /\ takes \in Nat /\ PayableOf(Prior) \in Int
      /\ PayableOf(st) = (PayableOf(Prior) + adds) - takes
  <2> HIDE DEF st, adds, takes
  <2> QED BY <1>4, <1>5, RowsAddUp DEF adds, takes
<1>7. /\ Prior.closing \in Nat /\ PaidByChain \in Nat
      /\ PaidByChain + Prior.closing = PayableOf(Prior)
  BY PriorOfTheChain
<1>8. paid \in Nat
  BY RowAssumption
<1> HIDE DEF adds, takes, after
<1>9. payable - paid \in Nat
  BY <1>2, <1>6, <1>7, <1>8
<1>10. statements \in Seq(Statement)
  BY DEF Chain
<1> HIDE DEF st
<1>11. /\ Len(statements) \in Nat /\ Len(statements') = Len(statements) + 1
       /\ statements'[Len(statements) + 1] = st /\ statements' # <<>>
  <2>1. /\ Len(statements) \in Nat
        /\ Len(Append(statements, st)) = Len(statements) + 1
        /\ Append(statements, st)[Len(statements) + 1] = st
        /\ Append(statements, st) # <<>>
    BY ONLY <1>10, AppendAnything
  <2> QED BY <1>3, <2>1
<1>12. Prior' = st
  BY <1>11 DEF Prior
<1>13. st \in Statement
  <2>1. Inv'
    BY BuildInv
  <2>2. Len(statements) + 1 \in 1..Len(statements')
    BY <1>11
  <2>3. ASSUME NEW s \in 1..Len(statements')
        PROVE  /\ statements'[s].period \in Nat
               /\ statements'[s].cursor \in 0..Len(receipts')
               /\ statements'[s].activity \in [1..statements'[s].cursor -> Activity]
    BY <2>1 DEF Inv, SoundStatement
  <2>4. /\ st.period \in Nat /\ st.cursor \in 0..Len(receipts')
        /\ st.activity \in [1..st.cursor -> Activity]
    BY <1>11, <2>2, <2>3
  <2>5. st.cursor \in Nat
    BY <2>1, <2>4, LenProperties DEF Inv, Receipted
  <2>6. st.activity \in Seq(Activity)
    BY <2>4, <2>5, SeqDef
  <2>7. st = [period |-> st.period, cursor |-> st.cursor, activity |-> st.activity,
              paid |-> st.paid, closing |-> st.closing]
    BY DEF st
  <2> QED
    BY <1>5, <1>8, <1>9, <2>4, <2>5, <2>6, <2>7 DEF Statement
<1>14. statements' \in Seq(Statement)
  BY <1>3, <1>10, <1>13, AppendProperties
<1>15. PaidByChain' = PaidByChain + paid
  <2>1. ASSUME NEW s \in 1..Len(statements)
        PROVE  statements[s]["paid"] \in Int
    <3>1. statements[s] \in Statement
      BY <1>10, ElementOfSeq
    <3> QED BY <3>1 DEF Statement
  <2>2. st["paid"] = paid /\ st["paid"] \in Int
    BY <1>5, <1>8
  <2>3. SumFunctionOnSet([n \in DOMAIN Append(statements, st) |->
                            Append(statements, st)[n]["paid"]],
                         DOMAIN Append(statements, st))
          = SumFunctionOnSet([n \in DOMAIN statements |-> statements[n]["paid"]],
                             DOMAIN statements) + st["paid"]
    BY <1>10, <2>1, <2>2, SumOfAppended
  <2>4. SumFunctionOnSet([n \in DOMAIN statements' |-> statements'[n]["paid"]],
                         DOMAIN statements')
          = SumFunctionOnSet([n \in DOMAIN statements |-> statements[n]["paid"]],
                             DOMAIN statements) + st["paid"]
    BY <1>3, <2>3
  <2> QED BY <2>2, <2>4 DEF PaidByChain
<1>16. ChainConserves'
  <2>1. PaidByChain' + st.closing = PayableOf(st)
    BY <1>5, <1>6, <1>7, <1>8, <1>15
  <2>2. PaidByChain' + (Prior').closing = PayableOf(Prior')
    BY <1>12, <2>1
  <2> QED
    BY <2>2 DEF ChainConserves, PaidByChain, PayableOf, Owed
<1> QED
  BY <1>14, <1>16 DEF Chain

LEMMA InitChain == Init => Chain
<1> SUFFICES ASSUME Init PROVE Chain
  OBVIOUS
<1>1. statements = <<>> /\ DOMAIN statements = {} /\ statements \in Seq(Statement)
  BY EmptySeq DEF Init
<1>2. Prior.closing = 0 /\ DOMAIN Prior.activity = {}
  BY <1>1 DEF Prior, Genesis
<1>3. PaidByChain = 0 /\ PayableOf(Prior) = 0
  BY <1>1, <1>2, SumEmpty DEF PaidByChain, PayableOf
<1>4. PaidByChain + Prior.closing = PayableOf(Prior)
  BY <1>2, <1>3
<1> QED
  BY <1>1, <1>4 DEF Chain, ChainConserves, PaidByChain, PayableOf, Owed

LEMMA NextChain == Inv /\ Chain /\ [Next]_vars => Chain'
<1> SUFFICES ASSUME Inv, Chain, [Next]_vars PROVE Chain'
  OBVIOUS
<1>1. CASE UNCHANGED statements
  BY <1>1 DEF Chain, ChainConserves, Prior, Genesis
<1>2. CASE BuildNext
  BY <1>2, BuildChain
<1> QED
  BY <1>1, <1>2 DEF Next, vars

\* Every statement of the chain has its type, and the chain adds up, after every
\* statement that buildStatement closes.
THEOREM ChainInvariant == Spec => []Chain
<1>1. Inv /\ Chain /\ [Next]_vars => (Inv /\ Chain)'
  BY NextInv, NextChain
<1>2. Init => Inv /\ Chain
  BY InitInv, InitChain
<1> QED
  BY <1>1, <1>2, PTL DEF Spec

\* ChainConserves: over a chain of any length, what was paid and what the last
\* statement leaves open is what the activity made payable.
THEOREM ChainPaysOnce == Spec => []ChainConserves
  BY ChainInvariant, PTL DEF Chain

\* TypeOK: no counter, balance or total of an award falls below zero.
THEOREM StatementsTypes == Spec => []TypeOK
<1>1. Inv /\ Books /\ Chain => TypeOK
  BY DEF Inv, Books, Engine, Chain, TypeOK
<1> QED
  BY StatementsInvariant, BooksInvariant, ChainInvariant, <1>1, PTL

=============================================================================
