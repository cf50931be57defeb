---------------------------- MODULE BudgetLedger ----------------------------
(***************************************************************************)
(* The budget ledger of the Wallet Kernel (budget-ledger.mjs): one         *)
(* BudgetReservation per Spend Intent and the exposure sums its ceilings   *)
(* are compared with.  A reservation always carries its whole amount in    *)
(* one of its four columns, so its state names the column.                 *)
(*                                                                         *)
(* All intents are of the one wallet the Kernel is configured for.         *)
(***************************************************************************)
EXTENDS SpendIntents, Functions

CONSTANTS
    Amount,             \* the amount ceiling of each intent's challenge
    Seller,             \* the seller each intent pays
    SessionMax,         \* policy.sessionMaxAtomic
    SellerSessionMax,   \* seller.sellerSessionMaxAtomic
    RollingMax,         \* policy.rolling24hMaxAtomic
    Window              \* the 24 hours of the rolling ceiling, in ticks

ASSUME AmountAssumption == Amount \in [Intents -> Nat \ {0}]
ASSUME CeilingAssumption ==
    /\ SessionMax \in Nat
    /\ SellerSessionMax \in Nat
    /\ RollingMax \in Nat
    /\ Window \in Nat \ {0}

VARIABLES
    budget,         \* budget_reservations.state
    committedAt     \* budget_reservations.committed_at

ledgerVars == <<budget, committedAt>>

BudgetState == {"none", "reserved", "committed", "released", "unresolved"}

\* reserved_atomic + unresolved_atomic > 0.
Held(i) == budget[i] \in {"reserved", "unresolved"}

\* reserved_atomic + committed_atomic + unresolved_atomic > 0.
Exposed(i) == Held(i) \/ budget[i] = "committed"

SumOf(S) == SumFunctionOnSet(Amount, S)

(***************************************************************************)
(* snapshotImpl.  A committed payment leaves the rolling window when it is *)
(* no longer strictly younger than Window; a held amount never leaves it.  *)
(***************************************************************************)
\* Slip: what is committed no longer counts for the session.
SessionExposureHeld(s) == SumOf({i \in Intents : Held(i) /\ sessionOf[i] = s})

SessionExposure(s) == SumOf({i \in Intents : Exposed(i) /\ sessionOf[i] = s})

SellerExposure(s, seller) ==
    SumOf({i \in Intents : Exposed(i) /\ sessionOf[i] = s /\ Seller[i] = seller})

\* Slip: a payment leaves the rolling window one tick early.
RollingExposureShort(at) ==
    SumOf({i \in Intents : \/ Held(i)
                           \/ budget[i] = "committed" /\ committedAt[i] > at - Window + 1})

RollingExposure(at) ==
    SumOf({i \in Intents : \/ Held(i)
                           \/ budget[i] = "committed" /\ committedAt[i] > at - Window})

WithinCeilings(i, s, at) ==
    /\ SellerExposure(s, Seller[i]) + Amount[i] <= SellerSessionMax
    /\ SessionExposure(s) + Amount[i] <= SessionMax
    /\ RollingExposure(at) + Amount[i] <= RollingMax

UnresolvedBudget == \E i \in Intents : budget[i] = "unresolved"

BudgetLedgerInit ==
    /\ budget = [i \in Intents |-> "none"]
    /\ committedAt = [i \in Intents |-> NoTime]

(***************************************************************************)
(* reserveImpl: the blockers and the ceilings are read in the transaction  *)
(* that inserts the reservation.  The caller adds the execution and refund *)
(* blockers of the wallet and the authority of the intent.                 *)
(***************************************************************************)
Reserve(i, at) ==
    /\ budget[i] = "none"
    /\ ~UnresolvedBudget
    /\ WithinCeilings(i, sessionOf[i], at)
    /\ budget' = [budget EXCEPT ![i] = "reserved"]
    /\ UNCHANGED committedAt

\* commitImpl.
Commit(i, at) ==
    /\ budget[i] = "reserved"
    /\ budget' = [budget EXCEPT ![i] = "committed"]
    /\ committedAt' = [committedAt EXCEPT ![i] = at]

\* releaseImpl: only a reservation can be released.
Release(i) ==
    /\ budget[i] = "reserved"
    /\ budget' = [budget EXCEPT ![i] = "released"]
    /\ UNCHANGED committedAt

\* releaseImpl for every reservation of a session that is ended.
ReleaseAll(S) ==
    /\ budget' = [i \in Intents |->
                    IF i \in S /\ budget[i] = "reserved" THEN "released" ELSE budget[i]]
    /\ UNCHANGED committedAt

\* Slip: an ambiguous payment is taken for one that failed.
HoldNothing(i) ==
    /\ budget[i] = "reserved"
    /\ budget' = [budget EXCEPT ![i] = "released"]
    /\ UNCHANGED committedAt

\* holdUnresolvedImpl.
HoldUnresolved(i) ==
    /\ budget[i] = "reserved"
    /\ budget' = [budget EXCEPT ![i] = "unresolved"]
    /\ UNCHANGED committedAt

BudgetLedgerTypeOK ==
    /\ budget \in [Intents -> BudgetState]
    /\ committedAt \in [Intents -> Int]
=============================================================================
