----------------------------- MODULE HeldPayment -----------------------------
(***************************************************************************)
(* What reconciliation promises about a payment the Wallet Kernel could    *)
(* not classify.  Its hold leaves "held" in one of two ways only: it is    *)
(* spent when the chain shows the payment, or it is released when the      *)
(* chain shows that the authorization can never be used.  A spent hold is  *)
(* closed by the seller's word that it delivered, or becomes owed by the   *)
(* seller's word that it failed; what is owed comes back only by a         *)
(* transfer that gives nothing else back.  The Reconciler implements this  *)
(* specification (PROPERTY ImplementsHeldPayment).                         *)
(***************************************************************************)
CONSTANTS
    Payments,
    Transfers       \* the transfers a refund may consist of

VARIABLES
    status,         \* open, held, spent, served, owed, returned or released
    paid,           \* payments the chain shows
    dead,           \* payments the chain can never show any more
    refunded        \* <<payment, transfer>>: what each return was made with

heldVars == <<status, paid, dead, refunded>>

Becomes(p, from, to) ==
    /\ status[p] = from
    /\ status' = [status EXCEPT ![p] = to]

HeldInit ==
    /\ status \in [Payments -> {"open", "held"}]
    /\ paid = {}
    /\ dead = {}
    /\ refunded = {}

Pay(p) ==
    /\ p \notin paid \cup dead
    /\ paid' = paid \cup {p}
    /\ UNCHANGED <<status, dead, refunded>>

Die(p) ==
    /\ p \notin paid \cup dead
    /\ dead' = dead \cup {p}
    /\ UNCHANGED <<status, paid, refunded>>

\* The Kernel loses track of payments in flight, or sees one through itself.
Lose(P) ==
    /\ \A p \in P : status[p] = "open"
    /\ status' = [p \in Payments |-> IF p \in P THEN "held" ELSE status[p]]
    /\ UNCHANGED <<paid, dead, refunded>>

Complete(p) ==
    /\ p \in paid
    /\ Becomes(p, "open", "served")
    /\ UNCHANGED <<paid, dead, refunded>>

Confirm(p) ==
    /\ p \in paid
    /\ Becomes(p, "held", "spent")
    /\ UNCHANGED <<paid, dead, refunded>>

GiveUp(p) ==
    /\ p \in dead
    /\ Becomes(p, "held", "released")
    /\ UNCHANGED <<paid, dead, refunded>>

Attest(p) ==
    /\ Becomes(p, "spent", "served") \/ Becomes(p, "spent", "owed")
    /\ UNCHANGED <<paid, dead, refunded>>

GiveBack(p, t) ==
    /\ \A q \in Payments : <<q, t>> \notin refunded
    /\ Becomes(p, "owed", "returned")
    /\ refunded' = refunded \cup {<<p, t>>}
    /\ UNCHANGED <<paid, dead>>

HeldNext ==
    \/ \E p \in Payments :
          \/ Pay(p) \/ Die(p) \/ Complete(p) \/ Confirm(p) \/ GiveUp(p) \/ Attest(p)
          \/ \E t \in Transfers : GiveBack(p, t)
    \/ \E P \in SUBSET Payments : Lose(P)

HeldSpec == HeldInit /\ [][HeldNext]_heldVars
=============================================================================
