-------------------------- MODULE InvocationJournal --------------------------
(***************************************************************************)
(* The seller's invocation journal (invocation-journal.mjs): one signed,   *)
(* hash-chained file that several Collar processes of one host append to   *)
(* under a file lease.  An Invocation is what its events leave: a record   *)
(* per idempotency key.                                                    *)
(*                                                                         *)
(* Every operation refreshes its view under one lease and appends under a  *)
(* second, where a compare-and-swap on the record's last sequence refuses  *)
(* the append when another process was faster.  An operation that loses    *)
(* either throws or answers from the winner's record, which is what the    *)
(* same operation does when it starts after the winner: an operation is    *)
(* therefore one step, which may also throw without an append (the lease   *)
(* is held, the swap was lost, the disk refused) or throw although its     *)
(* event is durable (the lease could not be released).                     *)
(***************************************************************************)
EXTENDS Integers, Sequences

CONSTANTS
    Keys,           \* idempotency keys
    Auths,          \* payment authorizations: a payer, a nonce, its X-PAYMENT
    NoAuth,
    MaxMishaps      \* model bound: operations that throw for no reason of the record,
                    \* and processes that die

ASSUME JournalAssumption ==
    /\ NoAuth \notin Auths
    /\ MaxMishaps \in Nat

VARIABLES
    journal,        \* the record of each key
    mishaps         \* those so far

journalVars == <<journal, mishaps>>

PaymentStates ==
    {"none", "offered", "signed", "unresolved", "settled", "refunded", "rejected"}
ExecutionStates ==
    {"none", "requested", "quoted", "authorized", "executing",
     "succeeded", "failed", "cancelled"}
RefundStates == {"none", "executing", "unresolved", "confirmed"}

TERMINAL_EXECUTION == {"succeeded", "failed", "cancelled"}

(* `offer' is the frozen offer (0 before payment.offered), `verified' the      *)
(* authorization whose header the facilitator verified, `ref' the settlement   *)
(* reference with its payer, `receipts' the payment state each signed revision *)
(* states, oldest first, and `receipt' whether the last one is current.        *)
Record ==
    [payment : PaymentStates, offer : Nat, verified : Auths \cup {NoAuth},
     ref : Auths \cup {NoAuth}, execution : ExecutionStates,
     refund : RefundStates, receipts : Seq({"settled", "refunded"}),
     receipt : BOOLEAN]

NoRecord ==
    [payment |-> "none", offer |-> 0, verified |-> NoAuth, ref |-> NoAuth,
     execution |-> "none", refund |-> "none", receipts |-> <<>>, receipt |-> FALSE]

JournalInit ==
    /\ journal = [k \in Keys |-> NoRecord]
    /\ mishaps = 0

-----------------------------------------------------------------------------
(* The events, as what each leaves of the record it is appended to.            *)

Requested(rec) == [rec EXCEPT !.execution = "requested"]
Offered(rec, o) ==
    [rec EXCEPT !.offer = o, !.payment = "offered", !.execution = "quoted"]
AuthorizationVerified(rec, a) == [rec EXCEPT !.verified = a]
Signed(rec, a) == [rec EXCEPT !.payment = "signed", !.ref = a]
Settled(rec) == [rec EXCEPT !.payment = "settled", !.execution = "authorized"]
Unresolved(rec) == [rec EXCEPT !.payment = "unresolved"]
(* Slip: the execution takes the payment's state.                              *)
RejectedTwice(rec) == [rec EXCEPT !.payment = "rejected", !.execution = "rejected"]
Rejected(rec) == [rec EXCEPT !.payment = "rejected", !.execution = "cancelled"]
ExecutionStarted(rec) == [rec EXCEPT !.execution = "executing"]
ExecutionFinished(rec, outcome) == [rec EXCEPT !.execution = outcome]
RefundStarted(rec) == [rec EXCEPT !.refund = "executing"]
RefundUnresolved(rec) == [rec EXCEPT !.refund = "unresolved"]
(* Slip: the settlement's receipt stays the current one.                       *)
RefundedKeepingReceipt(rec) ==
    [rec EXCEPT !.payment = "refunded", !.refund = "confirmed"]
Refunded(rec) ==
    [rec EXCEPT !.payment = "refunded", !.refund = "confirmed", !.receipt = FALSE]
ReceiptIssued(rec) ==
    [rec EXCEPT !.receipts = Append(@, rec.payment), !.receipt = TRUE]

-----------------------------------------------------------------------------
(* The operations, as the ways each can end: the record it leaves, whether it  *)
(* threw, and whether that was a fault.                                        *)

Ends(rec, threw, faulty) == [rec |-> rec, threw |-> threw, faulty |-> faulty]

Throws(k) == {Ends(journal[k], TRUE, FALSE)}
Faulty(recs) ==
    IF mishaps < MaxMishaps THEN {Ends(rec, TRUE, TRUE) : rec \in recs} ELSE {}
Answers(k) == {Ends(journal[k], FALSE, FALSE)} \cup Faulty({journal[k]})
Appends(k, rec) == {Ends(rec, FALSE, FALSE)} \cup Faulty({journal[k], rec})

(* The journal after an operation ended so.                                    *)
Leaves(k, end) ==
    /\ journal' = [journal EXCEPT ![k] = end.rec]
    /\ mishaps' = IF end.faulty THEN mishaps + 1 ELSE mishaps

(* requestInvocation, offerExternalPayment and recordExternalPaymentVerification, *)
(* which the Collar always calls together, each with an append of its own.     *)
PersistVerifiedOffer(k, o, a) ==
    LET rec == journal[k]
        requested == IF rec.execution = "none" THEN Requested(rec) ELSE rec
        offered == IF requested.offer = 0 THEN Offered(requested, o) ELSE requested
        verified == IF offered.verified = NoAuth /\ offered.payment = "offered"
                    THEN AuthorizationVerified(offered, a) ELSE offered
    IN  IF offered.offer # o
        THEN Throws(k)
        ELSE {Ends(verified, verified.verified # a, FALSE)}
             \cup Faulty({rec, requested, offered, verified})

RefTaken(k, a) == \E other \in Keys \ {k} : journal[other].ref = a

(* Slip: an authorization another key was signed with is not looked up.        *)
claimAnyPaymentSigned(k, a) ==
    LET rec == journal[k] IN
    CASE rec.ref = a -> Answers(k)
      [] rec.ref = NoAuth /\ rec.payment = "offered" -> Appends(k, Signed(rec, a))
      [] OTHER -> Throws(k)

claimExternalPaymentSigned(k, a) ==
    LET rec == journal[k] IN
    CASE rec.ref = a -> Answers(k)
      [] rec.ref = NoAuth /\ rec.payment = "offered" /\ ~RefTaken(k, a) ->
            Appends(k, Signed(rec, a))
      [] OTHER -> Throws(k)

(* Slip: a payment once held as unresolved cannot be settled any more.         *)
markSignedPaymentSettled(k, a) ==
    LET rec == journal[k] IN
    CASE rec.ref = a /\ rec.payment \in {"settled", "refunded"} -> Answers(k)
      [] rec.ref = a /\ rec.payment = "signed" -> Appends(k, Settled(rec))
      [] OTHER -> Throws(k)

(* One transfer settles one authorization, so the hash adds nothing to `ref'.  *)
markExternalPaymentSettled(k, a) ==
    LET rec == journal[k] IN
    CASE rec.ref = a /\ rec.payment \in {"settled", "refunded"} -> Answers(k)
      [] rec.ref = a /\ rec.payment \in {"signed", "unresolved"} ->
            Appends(k, Settled(rec))
      [] OTHER -> Throws(k)

markExternalPaymentUnresolved(k) ==
    IF journal[k].payment = "signed" THEN Appends(k, Unresolved(journal[k])) ELSE Throws(k)

rejectExternalPayment(k) ==
    IF journal[k].payment \in {"offered", "signed", "unresolved"}
    THEN Appends(k, Rejected(journal[k])) ELSE Throws(k)

startExecution(k) ==
    LET rec == journal[k] IN
    CASE rec.execution = "executing" -> Answers(k)
      [] rec.execution = "authorized" /\ rec.payment = "settled" ->
            Appends(k, ExecutionStarted(rec))
      [] OTHER -> Throws(k)

finishExecution(k, outcome) ==
    LET rec == journal[k] IN
    CASE rec.execution = outcome -> Answers(k)
      [] rec.execution = "executing" -> Appends(k, ExecutionFinished(rec, outcome))
      [] OTHER -> Throws(k)

(* Slip: whatever the execution came to.                                       *)
RefundableAnyhow(rec) == rec.payment = "settled"

(* deriveFullGrossRefundReversal: only a failed Invocation whose full gross is *)
(* still held can be refunded; a failure always holds it.                      *)
Refundable(rec) == rec.payment = "settled" /\ rec.execution = "failed"

startRefund(k) ==
    LET rec == journal[k] IN
    CASE rec.payment = "refunded" \/ rec.refund # "none" -> Answers(k)
      [] Refundable(rec) /\ rec.refund = "none" -> Appends(k, RefundStarted(rec))
      [] OTHER -> Throws(k)

markRefundUnresolved(k) ==
    LET rec == journal[k] IN
    CASE rec.refund = "unresolved" -> Answers(k)
      [] rec.refund = "executing" -> Appends(k, RefundUnresolved(rec))
      [] OTHER -> Throws(k)

refundExternalPayment(k) ==
    LET rec == journal[k] IN
    CASE rec.payment = "refunded" -> Answers(k)
      [] rec.payment # "refunded" /\ rec.refund \in {"executing", "unresolved"} ->
            Appends(k, Refunded(rec))
      [] OTHER -> Throws(k)

issueReceipt(k) ==
    LET rec == journal[k] IN
    CASE rec.receipt -> Answers(k)
      [] ~rec.receipt /\ rec.execution \in TERMINAL_EXECUTION ->
            Appends(k, ReceiptIssued(rec))
      [] OTHER -> Throws(k)

=============================================================================
