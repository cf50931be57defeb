------------------------------- MODULE Awards --------------------------------
(***************************************************************************)
(* The internal Invocation award engine (internal-invocation-awards):      *)
(* one employer budget of one month, the reservations, executions and      *)
(* awards under it, and the signed receipt every Invocation ends with.     *)
(*                                                                         *)
(* InMemoryEngineStore runs transactions one by one on its newest state; a *)
(* caller whose expected revision is stale is refused and changes nothing, *)
(* so a transaction is one step.  Only the executor runs between two of    *)
(* them: other Invocations, the end of the budget's authorization and the  *)
(* end of its month fall in between.                                       *)
(*                                                                         *)
(* All Invocations have one quote and one receipt sequence scope, the      *)
(* policy vests awards at once, and every amount is atomic.                *)
(***************************************************************************)
EXTENDS Integers, Sequences, FiniteSets, Functions

CONSTANTS
    Invocations,
    MaxCost,        \* quote.maxExecutionCostAtomic
    Fee,            \* protocolFeeAtomic and refundReserveAtomic of the quote
    Award,          \* quote.maxInvocationAwardAtomic
    Allocated,      \* budget.allocatedAtomic
    AwardCap,       \* policy.maxAwardPerPeriodAtomic
    MonthOf,        \* the calendar: the month of each tick, the budget's first
    Expiry,         \* the tick the budget authorization expires at
    LastTick        \* model bound

\* An engine holds the Invocations of one process's store.
ASSUME InvocationsAssumption == IsFiniteSet(Invocations)
ASSUME QuoteAssumption ==
    /\ MaxCost \in Nat
    /\ Fee \in Nat
    /\ Award \in Nat
ASSUME BudgetAssumption ==
    /\ Allocated \in Nat
    /\ AwardCap \in Nat
ASSUME CalendarAssumption ==
    /\ LastTick \in Nat
    /\ MonthOf \in [0..LastTick -> Nat]
    /\ \A t \in 1..LastTick : MonthOf[t - 1] <= MonthOf[t]
    /\ Expiry \in 0..LastTick
    /\ \A t \in 0..LastTick : t < Expiry => MonthOf[t] = 0

VARIABLES
    clock,
    budget,         \* reservedAtomic, consumedAtomic and releasedAtomic
    invocation,     \* the state of each Invocation
    running,        \* executor calls that have not returned
    reversed,       \* the sum of each award's reversals
    receipts        \* the receipts in their sequence

engineVars == <<clock, budget, invocation, running, reversed, receipts>>

INVOCATION_STATES ==
    {"none", "authorized", "executing", "succeeded", "failed", "unresolved", "cancelled"}

Gross == MaxCost + Fee + Award
BudgetMonth == 0
Month == MonthOf[clock]

AwardsInit ==
    /\ clock = 0
    /\ budget = [reserved |-> 0, consumed |-> 0, released |-> 0]
    /\ invocation = [i \in Invocations |-> "none"]
    /\ running = {}
    /\ reversed = [i \in Invocations |-> 0]
    /\ receipts = <<>>

-----------------------------------------------------------------------------
(* assertTrustedState and requireActiveBudgetPeriod.                           *)
Trusted == clock < Expiry

remainingAtomic == Allocated - budget.reserved - budget.consumed

(* Slip: an execution that may still earn its award does not count.            *)
ExposesSettled(i) == invocation[i] \in {"authorized", "succeeded"}

(* An Invocation whose award is earned, or may still be.                       *)
Exposes(i) == invocation[i] \in {"authorized", "executing", "unresolved", "succeeded"}

awardExposureAtomic ==
    LET exposing == {i \in Invocations : Exposes(i)}
    IN  Cardinality(exposing) * Award - SumFunctionOnSet(reversed, exposing)

(* authorizeInternalInvocation, reserveBudget.                                 *)
Authorize(i) ==
    /\ invocation[i] = "none"
    /\ Trusted
    /\ awardExposureAtomic + Award <= AwardCap
    /\ Gross <= remainingAtomic
    /\ budget' = [budget EXCEPT !.reserved = @ + Gross]
    /\ invocation' = [invocation EXCEPT ![i] = "authorized"]
    /\ UNCHANGED <<clock, running, reversed, receipts>>

(* A reservation ends: what of it is consumed, and the rest released.          *)
Ends(consumed) ==
    budget' = [reserved |-> budget.reserved - Gross,
               consumed |-> budget.consumed + consumed,
               released |-> budget.released + (Gross - consumed)]

(* Slip: the receipt is booked in the month the budget is of.                  *)
CommitBudgetReceipt(i, consumed, released, award) ==
    receipts' = Append(receipts,
        [invocation |-> i, period |-> BudgetMonth, consumed |-> consumed,
         released |-> released, held |-> Gross - consumed - released, award |-> award])

(* commitReceipt: the receipt is recognised in the month it is signed in.      *)
Commit(i, consumed, released, award) ==
    receipts' = Append(receipts,
        [invocation |-> i, period |-> Month, consumed |-> consumed,
         released |-> released, held |-> Gross - consumed - released, award |-> award])

(* cancelInternalAuthorization, which the end of the budget does not prevent.  *)
Cancel(i) ==
    /\ invocation[i] = "authorized"
    /\ invocation' = [invocation EXCEPT ![i] = "cancelled"]
    /\ Ends(0)
    /\ Commit(i, 0, Gross, 0)
    /\ UNCHANGED <<clock, running, reversed>>

(* executeAuthorizedInvocation up to its call of the executor.                 *)
StartExecution(i) ==
    /\ invocation[i] = "authorized"
    /\ Trusted
    /\ invocation' = [invocation EXCEPT ![i] = "executing"]
    /\ running' = running \cup {i}
    /\ UNCHANGED <<clock, budget, reversed, receipts>>

-----------------------------------------------------------------------------
(* The executor returned, and the terminal transaction commits.                *)

Returned(i) ==
    /\ i \in running
    /\ running' = running \ {i}
    /\ UNCHANGED <<clock, reversed>>

(* Slip: what is paid of the reservation is not kept back.                     *)
EarnWhatRemains(i, cost) ==
    /\ invocation' = [invocation EXCEPT ![i] = "succeeded"]
    /\ Ends(cost + Fee)
    /\ Commit(i, cost + Fee + Award, MaxCost - cost, Award)

(* finalizeReservation.                                                        *)
Earn(i, cost) ==
    /\ invocation' = [invocation EXCEPT ![i] = "succeeded"]
    /\ Ends(cost + Fee + Award)
    /\ Commit(i, cost + Fee + Award, MaxCost - cost, Award)

(* releaseReservation after a failure of known cost.                           *)
ChargeFailure(i, cost) ==
    /\ invocation' = [invocation EXCEPT ![i] = "failed"]
    /\ Ends(cost)
    /\ Commit(i, cost, Gross - cost, 0)

(* holdUnresolvedReservation.                                                  *)
Hold(i) ==
    /\ invocation' = [invocation EXCEPT ![i] = "unresolved"]
    /\ Commit(i, 0, 0, 0)
    /\ UNCHANGED budget

(* Slip: a result that comes after the month closed still counts.              *)
CountsAtAnyTime == TRUE

(* crossedBudgetPeriod.                                                        *)
Counts == Month = BudgetMonth

Succeed(i) == Returned(i) /\ Counts /\ \E cost \in 0..MaxCost : Earn(i, cost)
Fail(i) == Returned(i) /\ Counts /\ \E cost \in 0..MaxCost : ChargeFailure(i, cost)
(* The cost is not known, or the month closed meanwhile.                       *)
LeaveUnresolved(i) == Returned(i) /\ Hold(i)

(* The receipt signer fails: nothing is committed, and nothing is run again.   *)
SignerFails(i) ==
    /\ Returned(i)
    /\ UNCHANGED <<budget, invocation, receipts>>

(* Slip: the award's earlier reversals are not added up.                       *)
RecordReversalAlone(i, amount) ==
    /\ Trusted
    /\ invocation[i] = "succeeded"
    /\ amount <= Award
    /\ reversed' = [reversed EXCEPT ![i] = @ + amount]
    /\ UNCHANGED <<clock, budget, invocation, running, receipts>>

(* recordAwardReversal, under the budget that is still authorized.             *)
RecordReversal(i, amount) ==
    /\ Trusted
    /\ invocation[i] = "succeeded"
    /\ reversed[i] + amount <= Award
    /\ reversed' = [reversed EXCEPT ![i] = @ + amount]
    /\ UNCHANGED <<clock, budget, invocation, running, receipts>>

Tick ==
    /\ clock < LastTick
    /\ clock' = clock + 1
    /\ UNCHANGED <<budget, invocation, running, reversed, receipts>>

AwardsNext ==
    \/ \E i \in Invocations :
          \/ Authorize(i) \/ Cancel(i) \/ StartExecution(i)
          \/ Succeed(i) \/ Fail(i) \/ LeaveUnresolved(i) \/ SignerFails(i)
          \/ \E amount \in 1..Award : RecordReversal(i, amount)
    \/ Tick

-----------------------------------------------------------------------------
(* What was promised and may still be earned, net of reversals, stays within   *)
(* the period's cap, whatever executes, fails or is held when it is checked.   *)
AwardCapHolds ==
    LET open == {i \in Invocations : invocation[i] \notin {"none", "failed", "cancelled"}}
    IN  SumFunctionOnSet([i \in Invocations |-> Award - reversed[i]], open) <= AwardCap

(* The receipts both parties hold reconcile with the budget: what they say was *)
(* consumed, released and held, with the reservations still open, is what its  *)
(* counters say, and the employer never commits more than was allocated.       *)
SumOfReceipts(field) ==
    SumFunctionOnSet([n \in DOMAIN receipts |-> receipts[n][field]], DOMAIN receipts)

BudgetIsReceipted ==
    /\ budget.consumed = SumOfReceipts("consumed")
    /\ budget.released = SumOfReceipts("released")
    /\ budget.reserved = SumOfReceipts("held")
          + Gross * Cardinality({i \in Invocations : invocation[i] \in {"authorized", "executing"}})
    /\ budget.reserved + budget.consumed <= Allocated

=============================================================================
