---------------------------- MODULE SpendEscrow -----------------------------
(***************************************************************************)
(* What the Wallet Kernel promises the owner of the wallet about one       *)
(* spending account (a Spend Session), with none of the machinery: money   *)
(* can only move under a hold that was taken while the account had room    *)
(* for it, a hold is given back only when no signature can exist, and a    *)
(* hold is turned into a spend only after the money moved.  WalletKernel   *)
(* implements this specification (PROPERTY ImplementsEscrow).              *)
(***************************************************************************)
EXTENDS Integers

CONSTANTS
    Payments,       \* the payments that may be asked for
    Accounts,       \* the accounts they are charged to
    Price,          \* what each of them moves
    Total(_),       \* what a set of payments moves together
    Limit           \* what one account may spend

VARIABLES
    hold,           \* none, held, spent or returned
    account,        \* the account each payment is charged to
    signed,         \* payments for which a signature may exist
    moved           \* payments whose money moved

escrowVars == <<hold, account, signed, moved>>

Charged(a) ==
    Total({p \in Payments : hold[p] \in {"held", "spent"} /\ account[p] = a})

EscrowInit ==
    /\ hold = [p \in Payments |-> "none"]
    /\ account \in [Payments -> Accounts]
    /\ signed = {}
    /\ moved = {}

\* A payment nothing is held for may still change its account.
Charge(p) ==
    /\ hold[p] = "none"
    /\ \E a \in Accounts : account' = [account EXCEPT ![p] = a]
    /\ UNCHANGED <<hold, signed, moved>>

Hold(p) ==
    /\ hold[p] = "none"
    /\ Charged(account[p]) + Price[p] <= Limit
    /\ hold' = [hold EXCEPT ![p] = "held"]
    /\ UNCHANGED <<account, signed, moved>>

Sign(p) ==
    /\ hold[p] = "held"
    /\ signed' = signed \cup {p}
    /\ UNCHANGED <<hold, account, moved>>

Move(p) ==
    /\ hold[p] = "held"
    /\ p \in signed \ moved
    /\ moved' = moved \cup {p}
    /\ UNCHANGED <<hold, account, signed>>

Spend(p) ==
    /\ hold[p] = "held"
    /\ p \in moved
    /\ hold' = [hold EXCEPT ![p] = "spent"]
    /\ UNCHANGED <<account, signed, moved>>

\* The holds of P are given back: nothing was signed for any of them.
Return(P) ==
    /\ \A p \in P : hold[p] = "held" /\ p \notin signed
    /\ hold' = [p \in Payments |-> IF p \in P THEN "returned" ELSE hold[p]]
    /\ UNCHANGED <<account, signed, moved>>

EscrowNext ==
    \/ \E p \in Payments : Charge(p) \/ Hold(p) \/ Sign(p) \/ Move(p) \/ Spend(p)
    \/ \E P \in SUBSET Payments : Return(P)

Escrow == EscrowInit /\ [][EscrowNext]_escrowVars
=============================================================================
