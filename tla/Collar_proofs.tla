--------------------------- MODULE Collar_proofs ----------------------------
(***************************************************************************)
(* Work for money, for every set of keys, authorizations and servers and   *)
(* any number of offers, throws and crashes.                               *)
(*                                                                         *)
(* An operation of the journal may throw before or after its append and a  *)
(* server may die between any two, so what holds must hold of the records  *)
(* alone: `Sound' says which of a record's payment, execution, refund and  *)
(* receipts go together, and `Follows' what no operation takes back.  The  *)
(* rest of Inv ties the effects outside the journal to the records: calls  *)
(* of the executors to the event that only one process can append, and     *)
(* paid records to the chain.  `Unseen' is a step that the promise made to *)
(* the buyer does not show.                                                *)
(***************************************************************************)
EXTENDS Collar, TLAPS, SequenceTheorems, FiniteSetTheorems

ReceiptRevisions == {<<>>, <<"settled">>, <<"refunded">>, <<"settled", "refunded">>}

AnyRecord ==
    [payment : PaymentStates, offer : Nat, verified : Auths \cup {NoAuth},
     ref : Auths \cup {NoAuth}, execution : ExecutionStates,
     refund : RefundStates, receipts : ReceiptRevisions, receipt : BOOLEAN]

Paid(rec) == rec.payment \in {"settled", "refunded"}
Finished(rec) == rec.execution \in {"succeeded", "failed"}
Started(rec) == rec.execution = "executing" \/ Finished(rec)

\* The states of a record that go together.
States(rec) ==
    /\ rec.offer = 0 => rec.payment = "none"
    /\ rec.payment = "none" => rec.execution \in {"none", "requested"}
    /\ rec.payment \in {"offered", "signed", "unresolved"} => rec.execution = "quoted"
    /\ rec.payment = "rejected" => rec.execution = "cancelled"
    /\ rec.payment = "settled" => rec.execution = "authorized" \/ Started(rec)
    /\ rec.payment = "refunded" => rec.execution = "failed"
    /\ rec.refund # "none" => Paid(rec) /\ rec.execution = "failed"
    /\ rec.payment \in {"signed", "unresolved", "settled", "refunded"} => rec.ref \in Auths
    /\ rec.payment \in {"none", "offered"} => rec.ref = NoAuth

\* The revisions a record's receipt stands for.
Receipts(rec) ==
    IF rec.receipt
    THEN \/ rec.payment = "settled" /\ rec.receipts = <<"settled">>
         \/ rec.payment = "refunded" /\ rec.receipts = <<"refunded">>
         \/ rec.payment = "refunded" /\ rec.receipts = <<"settled", "refunded">>
    ELSE \/ rec.receipts = <<>>
         \/ rec.payment = "refunded" /\ rec.receipts = <<"settled">>

Sound(rec) == rec \in AnyRecord /\ States(rec) /\ Receipts(rec)

\* What no operation takes back.
Follows(old, new) ==
    /\ Sound(new)
    /\ old.ref # NoAuth => new.ref = old.ref
    /\ Paid(old) => Paid(new)
    /\ old.payment = "refunded" => new.payment = "refunded"
    /\ Started(old) => Started(new)
    /\ Finished(old) => new.execution = old.execution
    /\ old.refund # "none" => new.refund # "none"

-----------------------------------------------------------------------------
\* A record an operation leaves as it was: Follows is reflexive on sound records.
LEMMA SelfFollows == ASSUME NEW rec, Sound(rec) PROVE Follows(rec, rec)
  BY DEF Follows

\* invocation.requested is appended to a record of which nothing is known.
LEMMA RequestedFollows ==
    ASSUME NEW rec, Sound(rec), rec.execution = "none"
    PROVE  Follows(rec, Requested(rec)) /\ Requested(rec).ref = rec.ref
  BY DEF Follows, Sound, AnyRecord, States, Receipts, Paid, Started, Finished, Requested,
         ExecutionStates, PaymentStates, RefundStates

\* payment.offered is appended to a requested Invocation without an offer.
LEMMA OfferedFollows ==
    ASSUME NEW rec, Sound(rec), rec.offer = 0, NEW o \in Nat \ {0}
    PROVE  Follows(rec, Offered(rec, o)) /\ Offered(rec, o).ref = rec.ref
  BY DEF Follows, Sound, AnyRecord, States, Receipts, Paid, Started, Finished, Offered,
         ExecutionStates, PaymentStates, RefundStates

\* payment.signed gives an offered record its authorization.
LEMMA SignedFollows ==
    ASSUME NEW rec, Sound(rec), rec.payment = "offered", NEW a \in Auths
    PROVE  Follows(rec, Signed(rec, a)) /\ Signed(rec, a).ref = a
  BY DEF Follows, Sound, AnyRecord, States, Receipts, Paid, Started, Finished, Signed,
         ExecutionStates, PaymentStates, RefundStates

\* The second revision of a receipt, appended to the first.
LEMMA AppendToOne ==
    ASSUME NEW S, NEW x \in S, NEW y \in S
    PROVE  Append(<<x>>, y) = <<x, y>>
<1>1. <<x>> \in Seq(S) /\ <<x, y>> \in Seq(S)
  OBVIOUS
<1>2. Len(<<x>>) = 1 /\ Len(<<x, y>>) = 2 /\ <<x, y>>[1] = x /\ <<x, y>>[2] = y
  OBVIOUS
<1> DEFINE s == Append(<<x>>, y)
           t == <<x, y>>
<1>3. s \in Seq(S) /\ Len(s) = 2 /\ s[1] = t[1] /\ s[2] = t[2]
  BY <1>1, <1>2, AppendProperties
<1>4. t \in Seq(S) /\ Len(t) = 2
  BY <1>1, <1>2
<1> HIDE DEF s, t
<1>5. Len(s) = Len(t) /\ \A n \in 1..Len(s) : s[n] = t[n]
  BY <1>3, <1>4
<1>6. s = t
  BY <1>3, <1>4, <1>5, SeqEqual
<1> QED BY <1>6 DEF s, t

\* receipt.issued adds the revision of the payment, which is not there yet.
LEMMA ReceiptIssuedFollows ==
    ASSUME NEW rec, Sound(rec), Paid(rec), ~rec.receipt
    PROVE  Follows(rec, ReceiptIssued(rec)) /\ ReceiptIssued(rec).ref = rec.ref
<1>1. /\ Append(<<>>, "settled") = <<"settled">>
      /\ Append(<<>>, "refunded") = <<"refunded">>
      /\ Append(<<"settled">>, "refunded") = <<"settled", "refunded">>
  <2> DEFINE S == {"settled", "refunded"}
  <2>1. "settled" \in S /\ "refunded" \in S
    OBVIOUS
  <2> HIDE DEF S
  <2>2. Append(<<"settled">>, "refunded") = <<"settled", "refunded">>
    BY <2>1, AppendToOne
  <2> QED BY <2>2
<1>2. /\ rec.payment = "settled" => rec.receipts = <<>>
      /\ rec.payment = "refunded" => rec.receipts = <<>> \/ rec.receipts = <<"settled">>
  BY DEF Sound, Receipts
<1> DEFINE revisions == Append(rec.receipts, rec.payment)
<1>3. \/ rec.payment = "settled" /\ revisions = <<"settled">>
      \/ rec.payment = "refunded" /\ revisions = <<"refunded">>
      \/ rec.payment = "refunded" /\ revisions = <<"settled", "refunded">>
  BY <1>1, <1>2 DEF Paid
<1>4. ReceiptIssued(rec) = [rec EXCEPT !.receipts = revisions, !.receipt = TRUE]
  BY DEF ReceiptIssued
<1> HIDE DEF revisions
<1>5. revisions \in ReceiptRevisions
  BY <1>3 DEF ReceiptRevisions
<1>6. Sound(ReceiptIssued(rec))
  BY <1>3, <1>4, <1>5 DEF Sound, AnyRecord, States, Receipts, Paid, Started, Finished
<1> QED
  BY <1>4, <1>6 DEF Follows, Sound, AnyRecord, Paid, Started, Finished

\* The events of the settlement, the execution and the refund, each under the
\* condition validateEventForApply demands.
LEMMA OthersFollow ==
    ASSUME NEW rec, Sound(rec)
    PROVE  /\ rec.payment \in {"signed", "unresolved"} => Follows(rec, Settled(rec))
           /\ rec.payment = "signed" => Follows(rec, Unresolved(rec))
           /\ rec.payment \in {"offered", "signed", "unresolved"} => Follows(rec, Rejected(rec))
           /\ rec.payment = "settled" /\ rec.execution = "authorized"
                 => Follows(rec, ExecutionStarted(rec))
           /\ \A outcome \in {"succeeded", "failed"} :
                 rec.payment = "settled" /\ rec.execution = "executing"
                    => Follows(rec, ExecutionFinished(rec, outcome))
           /\ Refundable(rec) => Follows(rec, RefundStarted(rec))
           /\ rec.refund = "executing" => Follows(rec, RefundUnresolved(rec))
           /\ rec.refund # "none" /\ rec.payment # "refunded" => Follows(rec, Refunded(rec))
<1> USE DEF Follows, Sound, AnyRecord, States, Receipts, Paid, Started, Finished,
         ExecutionStates, PaymentStates, RefundStates
<1>1. rec.payment \in {"signed", "unresolved"} => Follows(rec, Settled(rec))
  BY DEF Settled
<1>2. rec.payment = "signed" => Follows(rec, Unresolved(rec))
  BY DEF Unresolved
<1>3. rec.payment \in {"offered", "signed", "unresolved"} => Follows(rec, Rejected(rec))
  BY DEF Rejected
<1>4. rec.payment = "settled" /\ rec.execution = "authorized"
         => Follows(rec, ExecutionStarted(rec))
  BY DEF ExecutionStarted
<1>5. ASSUME NEW outcome \in {"succeeded", "failed"}
      PROVE  rec.payment = "settled" /\ rec.execution = "executing"
                => Follows(rec, ExecutionFinished(rec, outcome))
  BY DEF ExecutionFinished
<1>6. Refundable(rec) => Follows(rec, RefundStarted(rec))
  BY DEF Refundable, RefundStarted
<1>7. rec.refund = "executing" => Follows(rec, RefundUnresolved(rec))
  BY DEF RefundUnresolved
<1>8. rec.refund # "none" /\ rec.payment # "refunded" => Follows(rec, Refunded(rec))
  BY DEF Refunded
<1> QED
  BY <1>1, <1>2, <1>3, <1>4, <1>5, <1>6, <1>7, <1>8

-----------------------------------------------------------------------------
\* An end that leaves a record the old one may become, with its authorization.
KeepsRef(k, end) == Follows(journal[k], end.rec) /\ end.rec.ref = journal[k].ref

\* An operation that threw left one of the records it may leave.
LEMMA FaultyEnds ==
    ASSUME NEW recs, NEW end \in Faulty(recs)
    PROVE  end.threw /\ end.rec \in recs
<1>1. \E r \in recs : end = Ends(r, TRUE, TRUE)
  BY Zenon DEF Faulty
<1>2. PICK r \in recs : end = [rec |-> r, threw |-> TRUE, faulty |-> TRUE]
  BY <1>1 DEF Ends
<1> QED BY <1>2

\* What an operation leaves when it throws, answers or appends `new'.
LEMMA EndsKeep ==
    ASSUME NEW k, NEW new, Follows(journal[k], journal[k]), Follows(journal[k], new),
           new.ref = journal[k].ref
    PROVE  /\ \A end \in Throws(k) : KeepsRef(k, end) /\ end.threw /\ end.rec = journal[k]
           /\ \A end \in Answers(k) : KeepsRef(k, end) /\ end.rec = journal[k]
           /\ \A end \in Appends(k, new) :
                 /\ KeepsRef(k, end)
                 /\ end.rec = new \/ (end.rec = journal[k] /\ end.threw)
<1>1. ASSUME NEW end \in Throws(k)
      PROVE  end.threw /\ end.rec = journal[k]
  BY DEF Throws, Ends
<1>2. ASSUME NEW end \in Answers(k)
      PROVE  end.rec = journal[k]
  <2>1. CASE end = Ends(journal[k], FALSE, FALSE)
    BY <2>1 DEF Ends
  <2>2. CASE end \in Faulty({journal[k]})
    BY <2>2, FaultyEnds
  <2> QED BY <2>1, <2>2 DEF Answers
<1>3. ASSUME NEW end \in Appends(k, new)
      PROVE  end.rec = new \/ (end.rec = journal[k] /\ end.threw)
  <2>1. CASE end = Ends(new, FALSE, FALSE)
    <3>1. end.rec = new
      BY <2>1 DEF Ends
    <3> QED BY <3>1
  <2>2. CASE end \in Faulty({journal[k], new})
    BY <2>2, FaultyEnds
  <2> QED BY <2>1, <2>2 DEF Appends
<1> QED
  BY <1>1, <1>2, <1>3 DEF KeepsRef

\* markExternalPaymentSettled makes a record paid only for its own authorization.
LEMMA SettledEnds ==
    ASSUME NEW k, Sound(journal[k]), NEW a, NEW end \in markExternalPaymentSettled(k, a)
    PROVE  /\ KeepsRef(k, end)
           /\ Paid(end.rec) => Paid(journal[k]) \/ (journal[k].ref = a /\ a \in Auths)
           /\ Finished(end.rec) => Finished(journal[k])
           /\ ~end.threw => Paid(end.rec)
<1> DEFINE rec == journal[k]
<1>1. Follows(rec, rec)
  BY SelfFollows
<1>2. CASE rec.ref = a /\ Paid(rec)
  BY <1>1, <1>2, EndsKeep DEF markExternalPaymentSettled, Paid
<1>3. CASE rec.ref = a /\ rec.payment \in {"signed", "unresolved"}
  <2>1. /\ Follows(rec, Settled(rec)) /\ Settled(rec).ref = rec.ref
        /\ Paid(Settled(rec)) /\ ~Finished(Settled(rec))
    BY <1>3, OthersFollow DEF Settled, Sound, AnyRecord, Paid, Finished
  <2>2. end \in Appends(k, Settled(rec))
    BY <1>3 DEF markExternalPaymentSettled
  <2>3. a \in Auths
    BY <1>3 DEF Sound, States
  <2> QED BY <1>1, <1>3, <2>1, <2>2, <2>3, EndsKeep
<1>4. CASE rec.ref # a \/ rec.payment \notin {"settled", "refunded", "signed", "unresolved"}
  BY <1>1, <1>4, EndsKeep DEF markExternalPaymentSettled
<1> QED BY <1>2, <1>3, <1>4 DEF Paid

\* onUnresolved and onRejected write nothing over a settlement.
LEMMA NotedEnds ==
    ASSUME NEW k, Sound(journal[k]), NEW end \in NotedUnresolved(k) \cup NotedRejected(k)
    PROVE  /\ KeepsRef(k, end)
           /\ Paid(end.rec) => Paid(journal[k])
           /\ Finished(end.rec) => Finished(journal[k])
<1> DEFINE rec == journal[k]
<1>1. Follows(rec, rec)
  BY SelfFollows
<1>2. CASE rec.payment = "signed" /\ end \in Appends(k, Unresolved(rec))
  <2>1. /\ Follows(rec, Unresolved(rec)) /\ Unresolved(rec).ref = rec.ref
        /\ ~Paid(Unresolved(rec)) /\ ~Finished(Unresolved(rec))
    BY <1>2, OthersFollow DEF Unresolved, Sound, AnyRecord, States, Paid, Finished
  <2> QED BY <1>1, <1>2, <2>1, EndsKeep
<1>3. CASE /\ rec.payment \in {"offered", "signed", "unresolved"}
           /\ end \in Appends(k, Rejected(rec))
  <2>1. /\ Follows(rec, Rejected(rec)) /\ Rejected(rec).ref = rec.ref
        /\ ~Paid(Rejected(rec)) /\ ~Finished(Rejected(rec))
    BY <1>3, OthersFollow DEF Rejected, Sound, AnyRecord, Paid, Finished
  <2> QED BY <1>1, <1>3, <2>1, EndsKeep
<1>4. CASE end \in Answers(k) \cup Throws(k)
  BY <1>1, <1>4, EndsKeep
<1> QED
  BY <1>2, <1>3, <1>4 DEF NotedUnresolved, NotedRejected,
     markExternalPaymentUnresolved, rejectExternalPayment

\* startExecution succeeds for one process alone: a record never starts twice.
LEMMA StartedEnds ==
    ASSUME NEW k, Sound(journal[k]), NEW end \in startExecution(k)
    PROVE  /\ KeepsRef(k, end)
           /\ Paid(end.rec) => Paid(journal[k])
           /\ Finished(end.rec) => Finished(journal[k])
           /\ ~end.threw => end.rec.execution = "executing" /\ Paid(end.rec)
           /\ ~end.threw => journal[k].execution \in {"executing", "authorized"}
<1> DEFINE rec == journal[k]
<1>1. Follows(rec, rec)
  BY SelfFollows
<1>2. CASE rec.execution = "executing"
  <2>1. Paid(rec)
    BY <1>2 DEF Sound, States, AnyRecord, PaymentStates, Paid
  <2> QED BY <1>1, <1>2, <2>1, EndsKeep DEF startExecution
<1>3. CASE rec.execution = "authorized" /\ rec.payment = "settled"
  <2>1. /\ Follows(rec, ExecutionStarted(rec)) /\ ExecutionStarted(rec).ref = rec.ref
        /\ Paid(ExecutionStarted(rec)) /\ ~Finished(ExecutionStarted(rec))
        /\ ExecutionStarted(rec).execution = "executing"
    BY <1>3, OthersFollow DEF ExecutionStarted, Sound, AnyRecord, Paid, Finished
  <2>2. end \in Appends(k, ExecutionStarted(rec))
    BY <1>3 DEF startExecution
  <2> QED BY <1>1, <1>3, <2>1, <2>2, EndsKeep DEF Paid
<1>4. CASE /\ rec.execution # "executing"
           /\ ~(rec.execution = "authorized" /\ rec.payment = "settled")
  BY <1>1, <1>4, EndsKeep DEF startExecution
<1> QED BY <1>2, <1>3, <1>4

\* finishExecution writes one outcome, and only over an execution that began.
LEMMA FinishedEnds ==
    ASSUME NEW k, Sound(journal[k]), NEW outcome \in {"succeeded", "failed"},
           NEW end \in finishExecution(k, outcome)
    PROVE  /\ KeepsRef(k, end)
           /\ Paid(end.rec) => Paid(journal[k])
           /\ ~end.threw => end.rec.execution = outcome
<1> DEFINE rec == journal[k]
<1>1. Follows(rec, rec)
  BY SelfFollows
<1>2. CASE rec.execution = "executing"
  <2>1. rec.payment = "settled"
    BY <1>2 DEF Sound, States, AnyRecord, PaymentStates, Started, Finished
  <2>2. /\ Follows(rec, ExecutionFinished(rec, outcome))
        /\ ExecutionFinished(rec, outcome).ref = rec.ref
        /\ ExecutionFinished(rec, outcome).execution = outcome
    BY <1>2, <2>1, OthersFollow DEF ExecutionFinished, Sound, AnyRecord
  <2>3. end \in Appends(k, ExecutionFinished(rec, outcome))
    BY <1>2 DEF finishExecution
  <2> QED BY <1>1, <2>1, <2>2, <2>3, EndsKeep DEF Paid
<1>3. CASE rec.execution # "executing"
  BY <1>1, <1>3, EndsKeep DEF finishExecution
<1> QED BY <1>2, <1>3

\* startRefund appends refund.started to a failed, paid record once.
LEMMA StartedRefundEnds ==
    ASSUME NEW k, Sound(journal[k]), Refundable(journal[k]), NEW end \in startRefund(k)
    PROVE  /\ KeepsRef(k, end)
           /\ Paid(end.rec) => Paid(journal[k])
           /\ Finished(end.rec) => Finished(journal[k])
           /\ ~end.threw => end.rec.refund # "none"
<1> DEFINE rec == journal[k]
<1>1. Follows(rec, rec)
  BY SelfFollows
<1>2. CASE rec.refund # "none"
  BY <1>1, <1>2, EndsKeep DEF startRefund
<1>3. CASE rec.refund = "none"
  <2>1. /\ Follows(rec, RefundStarted(rec)) /\ RefundStarted(rec).ref = rec.ref
        /\ RefundStarted(rec).refund # "none"
        /\ RefundStarted(rec).execution = rec.execution
    BY <1>3, OthersFollow DEF RefundStarted, Sound, AnyRecord
  <2>2. end \in Appends(k, RefundStarted(rec))
    BY <1>3 DEF startRefund, Refundable
  <2> QED BY <1>1, <2>1, <2>2, EndsKeep DEF Refundable, Paid, Finished
<1> QED BY <1>2, <1>3

\* markRefundUnresolved reopens nothing.
LEMMA RefundUnresolvedEnds ==
    ASSUME NEW k, Sound(journal[k]), NEW end \in markRefundUnresolved(k)
    PROVE  /\ KeepsRef(k, end)
           /\ Paid(end.rec) => Paid(journal[k])
           /\ Finished(end.rec) => Finished(journal[k])
<1> DEFINE rec == journal[k]
<1>1. Follows(rec, rec)
  BY SelfFollows
<1>2. CASE rec.refund = "executing"
  <2>1. /\ Follows(rec, RefundUnresolved(rec)) /\ RefundUnresolved(rec).ref = rec.ref
        /\ RefundUnresolved(rec).payment = rec.payment
        /\ RefundUnresolved(rec).execution = rec.execution
    BY <1>2, OthersFollow DEF RefundUnresolved, Sound, AnyRecord
  <2>2. end \in Appends(k, RefundUnresolved(rec))
    BY <1>2 DEF markRefundUnresolved
  <2> QED BY <1>1, <2>1, <2>2, EndsKeep DEF Paid, Finished
<1>3. CASE rec.refund # "executing"
  BY <1>1, <1>3, EndsKeep DEF markRefundUnresolved
<1> QED BY <1>2, <1>3

\* refundExternalPayment is the last event of a payment, after refund.started.
LEMMA RefundedEnds ==
    ASSUME NEW k, Sound(journal[k]), NEW end \in refundExternalPayment(k)
    PROVE  /\ KeepsRef(k, end)
           /\ Paid(end.rec) => Paid(journal[k])
           /\ Finished(end.rec) => Finished(journal[k])
           /\ ~end.threw => end.rec.payment = "refunded"
<1> DEFINE rec == journal[k]
<1>1. Follows(rec, rec)
  BY SelfFollows
<1>2. CASE rec.payment # "refunded" /\ rec.refund \in {"executing", "unresolved"}
  <2>1. /\ Follows(rec, Refunded(rec)) /\ Refunded(rec).ref = rec.ref
        /\ Refunded(rec).payment = "refunded"
        /\ Refunded(rec).execution = rec.execution
    BY <1>2, OthersFollow DEF Refunded, Sound, AnyRecord
  <2>2. Paid(rec)
    BY <1>2 DEF Sound, States
  <2>3. end \in Appends(k, Refunded(rec))
    BY <1>2 DEF refundExternalPayment
  <2> QED BY <1>1, <2>1, <2>2, <2>3, EndsKeep DEF Finished
<1>3. CASE rec.payment = "refunded"
  BY <1>1, <1>3, EndsKeep DEF refundExternalPayment
<1>4. CASE rec.payment # "refunded" /\ rec.refund \notin {"executing", "unresolved"}
  BY <1>1, <1>4, EndsKeep DEF refundExternalPayment
<1> QED BY <1>2, <1>3, <1>4

\* issueReceipt adds a revision to a paid record and changes nothing else.
LEMMA IssuedEnds ==
    ASSUME NEW k, Sound(journal[k]), Paid(journal[k]), NEW end \in issueReceipt(k)
    PROVE  /\ KeepsRef(k, end)
           /\ Finished(end.rec) => Finished(journal[k])
           /\ end.rec.execution = journal[k].execution
<1> DEFINE rec == journal[k]
<1>1. Follows(rec, rec)
  BY SelfFollows
<1>2. CASE ~rec.receipt
  <2>1. /\ Follows(rec, ReceiptIssued(rec)) /\ ReceiptIssued(rec).ref = rec.ref
        /\ ReceiptIssued(rec).execution = rec.execution
    BY <1>2, ReceiptIssuedFollows DEF ReceiptIssued, Sound, AnyRecord
  <2>2. end \in Appends(k, ReceiptIssued(rec)) \cup Throws(k)
    BY <1>2 DEF issueReceipt
  <2> QED BY <1>1, <2>1, <2>2, EndsKeep DEF Finished
<1>3. CASE rec.receipt
  BY <1>1, <1>3, EndsKeep DEF issueReceipt
<1> QED BY <1>2, <1>3

\* The first authorization of a record is one no other record names.
LEMMA ClaimedEnds ==
    ASSUME NEW k, Sound(journal[k]), NEW a \in Auths, NEW end \in claimExternalPaymentSigned(k, a)
    PROVE  /\ Follows(journal[k], end.rec)
           /\ end.rec.ref = journal[k].ref \/ (end.rec.ref = a /\ ~RefTaken(k, a))
           /\ Paid(end.rec) => Paid(journal[k])
           /\ Finished(end.rec) => Finished(journal[k])
           /\ ~end.threw => \/ end.rec = journal[k] /\ journal[k].ref = a
                            \/ end.rec.payment = "signed" /\ journal[k].ref = NoAuth
                                  /\ ~RefTaken(k, a)
<1> DEFINE rec == journal[k]
<1>1. Follows(rec, rec)
  BY SelfFollows
<1>2. CASE rec.ref = a
  <2>1. end \in Answers(k)
    BY <1>2, JournalAssumption DEF claimExternalPaymentSigned
  <2>2. KeepsRef(k, end) /\ end.rec = rec
    BY <1>1, <2>1, EndsKeep
  <2> QED BY <1>2, <2>2 DEF KeepsRef
<1>3. CASE rec.ref = NoAuth /\ rec.payment = "offered" /\ ~RefTaken(k, a)
  <2>1. /\ Follows(rec, Signed(rec, a)) /\ Signed(rec, a).ref = a
        /\ Signed(rec, a).payment = "signed"
        /\ ~Paid(Signed(rec, a)) /\ ~Finished(Signed(rec, a))
    BY <1>3, SignedFollows DEF Signed, Sound, AnyRecord, States, Paid, Finished
  <2>2. end \in Appends(k, Signed(rec, a))
    BY <1>3, JournalAssumption DEF claimExternalPaymentSigned
  <2>3. (end.rec = rec /\ end.threw) \/ end.rec = Signed(rec, a)
    <3>1. CASE end = Ends(Signed(rec, a), FALSE, FALSE)
      BY <3>1 DEF Ends
    <3>2. CASE end \in Faulty({rec, Signed(rec, a)})
      BY <3>2, FaultyEnds
    <3> QED BY <2>2, <3>1, <3>2 DEF Appends
  <2> QED BY <1>1, <1>3, <2>1, <2>3
<1>4. CASE /\ rec.ref # a
           /\ ~(rec.ref = NoAuth /\ rec.payment = "offered" /\ ~RefTaken(k, a))
  <2>1. end \in Throws(k)
    BY <1>4 DEF claimExternalPaymentSigned
  <2>2. KeepsRef(k, end) /\ end.rec = rec /\ end.threw
    BY <1>1, <2>1, EndsKeep
  <2> QED BY <2>2 DEF KeepsRef
<1> QED BY <1>2, <1>3, <1>4

\* The request, the offer and the verification are written together or in part.
LEMMA PersistedEnds ==
    ASSUME NEW k, Sound(journal[k]), NEW o \in Nat \ {0}, NEW a \in Auths,
           NEW end \in PersistVerifiedOffer(k, o, a)
    PROVE  /\ KeepsRef(k, end)
           /\ Paid(end.rec) => Paid(journal[k])
           /\ Finished(end.rec) => Finished(journal[k])
<1> DEFINE rec == journal[k]
           requested == IF rec.execution = "none" THEN Requested(rec) ELSE rec
           offered == IF requested.offer = 0 THEN Offered(requested, o) ELSE requested
           verified == IF offered.verified = NoAuth /\ offered.payment = "offered"
                       THEN AuthorizationVerified(offered, a) ELSE offered
           Keeps(new) == /\ Follows(rec, new)
                         /\ new.ref = rec.ref
                         /\ Paid(new) => Paid(rec)
                         /\ Finished(new) => Finished(rec)
<1>1. Keeps(rec)
  BY SelfFollows
<1>2. Keeps(requested)
  <2>1. CASE rec.execution = "none"
    <3>1. Follows(rec, Requested(rec)) /\ Requested(rec).ref = rec.ref
          /\ Requested(rec).payment = rec.payment /\ ~Finished(Requested(rec))
      BY <2>1, RequestedFollows DEF Requested, Sound, AnyRecord, Finished
    <3> QED BY <2>1, <3>1 DEF Paid
  <2>2. CASE rec.execution # "none"
    BY <1>1, <2>2
  <2> QED BY <2>1, <2>2
<1>3. Keeps(offered)
  <2> HIDE DEF requested
  <2>1. CASE requested.offer = 0
    <3>1. Follows(requested, Offered(requested, o))
          /\ Offered(requested, o).ref = requested.ref
          /\ Offered(requested, o).payment = "offered"
          /\ Offered(requested, o).execution = "quoted"
      BY <1>2, <2>1, OfferedFollows DEF Follows, Offered, Sound, AnyRecord
    <3>2. requested.payment = "none"
      BY <1>2, <2>1 DEF Follows, Sound, States
    <3> QED BY <1>2, <2>1, <3>1, <3>2 DEF Follows, Sound, States, AnyRecord, Paid, Finished, Started
  <2>2. CASE requested.offer # 0
    BY <1>2, <2>2
  <2> QED BY <2>1, <2>2
<1>4. Keeps(verified)
  <2> HIDE DEF offered
  <2>1. AuthorizationVerified(offered, a) = [offered EXCEPT !.verified = a]
    BY DEF AuthorizationVerified
  <2> QED BY <1>3, <2>1 DEF Follows, Sound, AnyRecord, States, Receipts, Paid, Finished, Started
<1>5. end.rec \in {rec, requested, offered, verified}
  <2> HIDE DEF requested, offered, verified
  <2> QED BY DEF PersistVerifiedOffer, Throws, Faulty, Ends, requested, offered, verified
<1> HIDE DEF requested, offered, verified
<1> QED BY <1>1, <1>2, <1>3, <1>4, <1>5 DEF KeepsRef

-----------------------------------------------------------------------------
\* What the executors did, and what the answers showed, of an Invocation.
Effects(k) ==
    /\ calls[k] \in {0, 1}
    /\ calls[k] = 1 => Started(journal[k])
    /\ Finished(journal[k]) => calls[k] = 1
    /\ delivered[k] => journal[k].execution = "succeeded"
    /\ refundCalls[k] \in {0, 1}
    /\ refundCalls[k] = 1 => journal[k].refund # "none"
    /\ refundOpen[k] \in {0, 1} /\ refundPaid[k] \in {0, 1}
    /\ refundOpen[k] = 1 => refundCalls[k] = 1 /\ refundPaid[k] = 0
    /\ refundPaid[k] = 1 => refundCalls[k] = 1

\* What a request in flight knows of its record.
Known(s, k) ==
    /\ paid[s][k].pc \in {"executing", "succeeded", "failed"} => calls[k] = 1
    /\ paid[s][k].pc = "succeeded" => journal[k].execution = "succeeded"
    /\ paid[s][k].pc # "idle" => paid[s][k].offer # 0
    /\ operator[s][k].pc = "refunded" => journal[k].payment = "refunded"

Records ==
    /\ journal \in [Keys -> AnyRecord]
    /\ \A k \in Keys : Sound(journal[k])
    /\ \A k \in Keys : Paid(journal[k]) => chain[journal[k].ref] = TRUE
    /\ \A k, other \in Keys :
          journal[k].ref # NoAuth /\ journal[other].ref = journal[k].ref => other = k

EffectsInv ==
    /\ calls \in [Keys -> Nat] /\ delivered \in [Keys -> BOOLEAN]
    /\ refundCalls \in [Keys -> Nat]
    /\ refundOpen \in [Keys -> Nat]
    /\ refundPaid \in [Keys -> Nat]
    /\ \A k \in Keys : Effects(k)

Requests ==
    /\ paid \in [Servers -> [Keys -> {Idle} \cup PaidRequest]]
    /\ operator \in [Servers -> [Keys -> OperatorRequest]]
    /\ \A s \in Servers, k \in Keys : Known(s, k)

OffersTyped ==
    offers \in [Servers -> [Keys -> [id : Nat, verified : Auths \cup {NoAuth}]]]

\* What a buyer can see of the Invocations stays as it is.
Unseen == \A k \in Keys : Money(k)' = Money(k) /\ Work(k)' = Work(k)

Inv ==
    /\ chain \in [Auths -> BOOLEAN]
    /\ OffersTyped
    /\ issued \in Seq(Nat) /\ clock \in Nat
    /\ Records
    /\ EffectsInv
    /\ Requests

-----------------------------------------------------------------------------
\* A record becomes one it may become, paid with an authorization of its own.
LEMMA RecordsStep ==
    ASSUME Inv, NEW k \in Keys, NEW rec, Follows(journal[k], rec),
           journal' = [journal EXCEPT ![k] = rec],
           \/ rec.ref = journal[k].ref
           \/ rec.ref \in Auths /\ ~RefTaken(k, rec.ref),
           Paid(rec) => chain[rec.ref] = TRUE,
           \A a \in Auths : chain[a] = TRUE => chain'[a] = TRUE
    PROVE  Records'
<1>1. /\ journal' \in [Keys -> AnyRecord]
      /\ journal'[k] = rec
      /\ \A other \in Keys \ {k} : journal'[other] = journal[other]
  BY DEF Inv, Records, Follows, Sound
<1>2. \A other \in Keys : Sound(journal'[other])
  BY <1>1 DEF Inv, Records, Follows
<1>3. \A other \in Keys : Paid(journal'[other]) => chain'[journal'[other].ref] = TRUE
  <2>1. \A other \in Keys : Paid(journal'[other]) => chain[journal'[other].ref] = TRUE
    BY <1>1 DEF Inv, Records
  <2>2. \A other \in Keys : Paid(journal'[other]) => journal'[other].ref \in Auths
    BY <1>2 DEF Sound, States, Paid
  <2> QED BY <2>1, <2>2
<1>4. ASSUME NEW one \in Keys, NEW other \in Keys,
             journal'[one].ref # NoAuth, journal'[other].ref = journal'[one].ref
      PROVE  other = one
  BY <1>1, <1>4 DEF Inv, Records, RefTaken
<1> QED
  BY <1>1, <1>2, <1>3, <1>4, Zenon DEF Records, Sound

\* An operation whose effects stay in the journal.
LEMMA EffectsStep ==
    ASSUME Inv, NEW k \in Keys, NEW rec, Follows(journal[k], rec),
           journal' = [journal EXCEPT ![k] = rec],
           Finished(rec) => Finished(journal[k]) \/ calls[k] = 1,
           UNCHANGED <<calls, delivered, refundCalls, refundOpen, refundPaid>>
    PROVE  EffectsInv'
<1>1. /\ journal'[k] = rec
      /\ \A other \in Keys \ {k} : journal'[other] = journal[other]
  BY DEF Inv, Records
<1>2. ASSUME NEW other \in Keys PROVE Effects(other)'
  <2>1. CASE other = k
    <3>1. Effects(k)
      BY DEF Inv, EffectsInv
    <3> QED BY <1>1, <2>1, <3>1 DEF Effects, Follows, Finished, Started
  <2>2. CASE other # k
    BY <1>1, <2>2 DEF Inv, EffectsInv, Effects
  <2> QED BY <2>1, <2>2
<1> QED BY <1>2 DEF Inv, EffectsInv

\* Both, for an operation that leaves the authorization.
LEMMA KeptStep ==
    ASSUME Inv, NEW k \in Keys, NEW end, KeepsRef(k, end), Leaves(k, end),
           Paid(end.rec) => Paid(journal[k]) \/ chain[journal[k].ref] = TRUE,
           Finished(end.rec) => Finished(journal[k]) \/ calls[k] = 1,
           \A a \in Auths : chain[a] = TRUE => chain'[a] = TRUE,
           UNCHANGED <<calls, delivered, refundCalls, refundOpen, refundPaid>>
    PROVE  Records' /\ EffectsInv'
<1> DEFINE rec == end.rec
<1>1. Follows(journal[k], rec) /\ rec.ref = journal[k].ref
      /\ journal' = [journal EXCEPT ![k] = rec]
  BY DEF KeepsRef, Leaves
<1>2. Paid(rec) => chain[rec.ref] = TRUE
  BY <1>1 DEF Inv, Records
<1> HIDE DEF rec
<1>3. Records'
  BY <1>1, <1>2, RecordsStep
<1>4. EffectsInv'
  <2>1. Finished(rec) => Finished(journal[k]) \/ calls[k] = 1
    BY DEF rec
  <2> QED BY <1>1, <2>1, EffectsStep
<1> QED BY <1>3, <1>4

\* Such an operation shows nothing, when it ends no execution.
LEMMA QuietStep ==
    ASSUME Inv, NEW k \in Keys, NEW end, KeepsRef(k, end), Leaves(k, end),
           Paid(end.rec) => Paid(journal[k]) \/ chain[journal[k].ref] = TRUE,
           Finished(end.rec) => Finished(journal[k]),
           UNCHANGED <<chain, calls, delivered, refundCalls, refundOpen, refundPaid>>
    PROVE  Records' /\ EffectsInv' /\ Unseen
<1>1. Records' /\ EffectsInv'
  BY KeptStep
<1>2. ASSUME NEW other \in Keys
      PROVE  /\ journal'[other].ref = journal[other].ref
             /\ journal'[other].execution = "failed" <=> journal[other].execution = "failed"
  <2>1. journal'[k] = end.rec /\ \A x \in Keys \ {k} : journal'[x] = journal[x]
    BY DEF Inv, Records, Leaves
  <2>2. end.rec.execution = "failed" <=> journal[k].execution = "failed"
    BY DEF KeepsRef, Follows, Finished
  <2> QED BY <2>1, <2>2 DEF KeepsRef
<1>3. Unseen
  BY <1>2 DEF Unseen, Money, Work
<1> QED BY <1>1, <1>3

\* Nothing happens to the records and the effects.
LEMMA UntouchedStep ==
    ASSUME Inv, UNCHANGED <<journal, chain, calls, delivered, refundCalls, refundOpen,
                            refundPaid>>
    PROVE  Records' /\ EffectsInv' /\ Unseen
  BY DEF Inv, Records, EffectsInv, Effects, Unseen, Money, Work

\* What is known of the records and the effects stays known.
LEMMA StaysKnown ==
    ASSUME Inv, NEW k \in Keys, NEW rec, Follows(journal[k], rec),
           journal' = [journal EXCEPT ![k] = rec],
           \A other \in Keys : calls[other] = 1 => calls'[other] = 1,
           NEW s \in Servers, NEW other \in Keys,
           paid'[s][other] = paid[s][other],
           operator'[s][other] = operator[s][other]
    PROVE  Known(s, other)'
<1>1. /\ journal'[k] = rec
      /\ \A x \in Keys \ {k} : journal'[x] = journal[x]
  BY DEF Inv, Records
<1>2. Known(s, other)
  BY DEF Inv, Requests
<1> QED
  BY <1>1, <1>2 DEF Known, Follows, Finished

\* A paid request moves on.
LEMMA PaidStep ==
    ASSUME Inv, NEW k \in Keys, NEW rec, Follows(journal[k], rec),
           journal' = [journal EXCEPT ![k] = rec],
           \A other \in Keys : calls[other] = 1 => calls'[other] = 1,
           NEW s \in Servers, NEW p \in {Idle} \cup PaidRequest,
           SetPaid(s, k, p), operator' = operator,
           p.pc # "idle" => p.offer # 0,
           p.pc \in {"executing", "succeeded", "failed"} => calls'[k] = 1,
           p.pc = "succeeded" => rec.execution = "succeeded"
    PROVE  Requests'
<1>1. /\ paid' \in [Servers -> [Keys -> {Idle} \cup PaidRequest]]
      /\ paid'[s][k] = p
      /\ \A t \in Servers, other \in Keys :
            t # s \/ other # k => paid'[t][other] = paid[t][other]
  BY DEF Inv, Requests, SetPaid
<1>2. ASSUME NEW t \in Servers, NEW other \in Keys PROVE Known(t, other)'
  <2>1. CASE t # s \/ other # k
    BY <1>1, <2>1, StaysKnown
  <2>2. CASE t = s /\ other = k
    <3>1. journal'[k] = rec /\ (operator[s][k].pc = "refunded" => rec.payment = "refunded")
      BY DEF Inv, Records, Requests, Known, Follows
    <3> QED BY <1>1, <2>2, <3>1 DEF Known
  <2> QED BY <2>1, <2>2
<1> QED BY <1>1, <1>2 DEF Inv, Requests

\* An operator's request moves on.
LEMMA OperatorStep ==
    ASSUME Inv, NEW k \in Keys, NEW rec, Follows(journal[k], rec),
           journal' = [journal EXCEPT ![k] = rec],
           \A other \in Keys : calls[other] = 1 => calls'[other] = 1,
           NEW s \in Servers,
           NEW pc \in {"idle", "resolving", "refunding", "resolving_refund", "refunded"},
           SetOperator(s, k, pc), paid' = paid,
           pc = "refunded" => rec.payment = "refunded"
    PROVE  Requests'
<1>1. /\ operator' \in [Servers -> [Keys -> OperatorRequest]]
      /\ operator'[s][k].pc = pc
      /\ \A t \in Servers, other \in Keys :
            t # s \/ other # k => operator'[t][other] = operator[t][other]
  BY DEF Inv, Requests, SetOperator, OperatorRequest
<1>2. ASSUME NEW t \in Servers, NEW other \in Keys PROVE Known(t, other)'
  <2>1. CASE t # s \/ other # k
    BY <1>1, <2>1, StaysKnown
  <2>2. CASE t = s /\ other = k
    <3>1. journal'[k] = rec /\ Known(s, k)
      BY DEF Inv, Records, Requests
    <3> QED BY <1>1, <2>2, <3>1 DEF Known, Follows, Finished
  <2> QED BY <2>1, <2>2
<1> QED BY <1>1, <1>2 DEF Inv, Requests

\* A record that stays as it is.
LEMMA SameRecord ==
    ASSUME Inv, NEW k \in Keys, journal' = journal
    PROVE  /\ Follows(journal[k], journal[k])
           /\ journal' = [journal EXCEPT ![k] = journal[k]]
  BY SelfFollows DEF Inv, Records

\* A request in flight.
LEMMA InFlight ==
    ASSUME Inv, NEW s \in Servers, NEW k \in Keys, paid[s][k].pc # "idle"
    PROVE  /\ paid[s][k] \in PaidRequest
           /\ paid[s][k].auth \in Auths
           /\ paid[s][k].offer \in Nat \ {0}
           /\ \A pc \in {"verifying", "verified", "signing", "settling", "unwritten",
                         "authorized", "executing", "succeeded", "failed"} :
                 /\ [paid[s][k] EXCEPT !.pc = pc] \in PaidRequest
                 /\ [paid[s][k] EXCEPT !.pc = pc].pc = pc
                 /\ [paid[s][k] EXCEPT !.pc = pc].offer = paid[s][k].offer
<1>1. paid[s][k] \in PaidRequest
  BY DEF Inv, Requests, Idle
<1>2. paid[s][k].offer # 0
  BY DEF Inv, Requests, Known
<1> QED BY <1>1, <1>2 DEF PaidRequest

\* A request that ended is idle.
LEMMA IdleRequest == Idle \in {Idle} \cup PaidRequest /\ Idle.pc = "idle"
  BY DEF Idle

\* A paid request ends.
LEMMA EndPaidStep ==
    ASSUME Inv, NEW k \in Keys, NEW rec, Follows(journal[k], rec),
           journal' = [journal EXCEPT ![k] = rec],
           \A other \in Keys : calls[other] = 1 => calls'[other] = 1,
           NEW s \in Servers, EndPaid(s, k), operator' = operator
    PROVE  Requests'
<1> DEFINE p == Idle
<1>1. p \in {Idle} \cup PaidRequest /\ p.pc = "idle" /\ SetPaid(s, k, p)
  BY IdleRequest DEF EndPaid
<1> HIDE DEF p
<1> QED BY <1>1, PaidStep

\* A paid request goes to its next step.
LEMMA NextPaidStep ==
    ASSUME Inv, NEW k \in Keys, NEW rec, Follows(journal[k], rec),
           journal' = [journal EXCEPT ![k] = rec],
           \A other \in Keys : calls[other] = 1 => calls'[other] = 1,
           NEW s \in Servers, paid[s][k].pc # "idle",
           NEW pc \in {"verifying", "verified", "signing", "settling", "unwritten",
                       "authorized", "executing", "succeeded", "failed"},
           SetPaid(s, k, [paid[s][k] EXCEPT !.pc = pc]), operator' = operator,
           pc \in {"executing", "succeeded", "failed"} => calls'[k] = 1,
           pc = "succeeded" => rec.execution = "succeeded"
    PROVE  Requests'
<1> DEFINE p == [paid[s][k] EXCEPT !.pc = pc]
<1>1. p \in PaidRequest /\ p.pc = pc /\ p.offer # 0
  <2>1. paid[s][k] \in PaidRequest /\ paid[s][k].offer # 0
    BY InFlight
  <2> QED BY <2>1 DEF PaidRequest
<1>2. SetPaid(s, k, p)
  OBVIOUS
<1> HIDE DEF p
<1> QED BY <1>1, <1>2, PaidStep

\* Nothing happens to the requests.
LEMMA StillRequests ==
    ASSUME Inv, UNCHANGED <<journal, calls, paid, operator>>
    PROVE  Requests'
  BY DEF Inv, Requests, Known

\* The frozen offer of a server and the offer of a record are of their types.
LEMMA OfferTypes ==
    ASSUME Inv, NEW s \in Servers, NEW k \in Keys
    PROVE  /\ Frozen(s, k).id \in Nat
           /\ offers[s][k] \in [id : Nat, verified : Auths \cup {NoAuth}]
  BY DEF Inv, OffersTyped, Records, AnyRecord, Frozen

\* A server that drops an offer keeps well-typed offers.
LEMMA DroppedOffer ==
    ASSUME Inv, NEW s \in Servers, NEW k \in Keys, DropOffer(s, k)
    PROVE  OffersTyped'
<1>1. NoOffer \in [id : Nat, verified : Auths \cup {NoAuth}]
  BY DEF NoOffer
<1> HIDE DEF NoOffer
<1> QED BY <1>1 DEF Inv, OffersTyped, DropOffer

-----------------------------------------------------------------------------
\* The paywall's own steps.
LEMMA PaywallInv ==
    ASSUME Inv, NEW s \in Servers, NEW k \in Keys,
           \/ IssueOffer(s, k)
           \/ \E a \in Auths : ClaimAuthorization(s, k, a)
           \/ VerifyAnswered(s, k)
    PROVE  Inv' /\ Unseen
<1>1. UNCHANGED <<journal, chain, calls, delivered, refundCalls, refundOpen, refundPaid, operator>>
  BY DEF IssueOffer, ClaimAuthorization, VerifyAnswered, journalVars, requestVars, worldVars,
         settleVars, workVars, refundVars
<1>2. Records' /\ EffectsInv' /\ Unseen
  BY <1>1, UntouchedStep
<1>3. CASE IssueOffer(s, k)
  <2>1. issued' \in Seq(Nat) /\ Len(issued) + 1 \in Nat
    <3>1. clock \in Nat
      BY DEF Inv
    <3> QED BY <1>3, <3>1, AppendProperties, LenProperties DEF IssueOffer, Inv, OffersTyped
  <2>2. OffersTyped'
    BY <1>3, <2>1 DEF IssueOffer, Inv, OffersTyped
  <2>3. Requests' /\ chain' = chain /\ clock' = clock
    BY <1>1, <1>3, StillRequests DEF IssueOffer, requestVars
  <2> QED BY <1>2, <2>1, <2>2, <2>3 DEF Inv
<1>4. ASSUME NEW a \in Auths, ClaimAuthorization(s, k, a) PROVE Inv' /\ Unseen
  <2> DEFINE p == [pc |-> IF Frozen(s, k).verified = a THEN "verified" ELSE "verifying",
                   auth |-> a, offer |-> Frozen(s, k).id,
                   consumed |-> claims[s][a].state = "consumed"]
  <2>1. p \in PaidRequest /\ p.offer # 0 /\ p.pc \in {"verified", "verifying"}
    BY <1>4, OfferTypes DEF PaidRequest, ClaimAuthorization
  <2>2. SetPaid(s, k, p)
    BY <1>4 DEF ClaimAuthorization
  <2> HIDE DEF p
  <2>3. Requests'
    BY <1>1, <2>1, <2>2, SameRecord, PaidStep
  <2> QED BY <1>1, <1>2, <1>4, <2>3 DEF Inv, OffersTyped, ClaimAuthorization, timeVars
<1>5. CASE VerifyAnswered(s, k)
  <2> DEFINE p == paid[s][k]
  <2>1. p.pc # "idle"
    BY <1>5 DEF VerifyAnswered
  <2>2. p.auth \in Auths /\ offers[s][k] \in [id : Nat, verified : Auths \cup {NoAuth}]
    BY <2>1, InFlight, OfferTypes
  <2>5. OffersTyped'
    <3> DEFINE offer == [offers[s][k] EXCEPT !.verified = p.auth]
    <3>1. offers' \in {offers, [offers EXCEPT ![s][k] = offer]}
      BY <1>5 DEF VerifyAnswered
    <3>2. offer \in [id : Nat, verified : Auths \cup {NoAuth}]
      BY <2>2
    <3> HIDE DEF offer
    <3>3. /\ OffersTyped
          /\ [offers EXCEPT ![s][k] = offer]
                \in [Servers -> [Keys -> [id : Nat, verified : Auths \cup {NoAuth}]]]
      BY <3>2 DEF Inv, OffersTyped
    <3> QED BY <3>1, <3>3 DEF OffersTyped
  <2>3. CASE EndPaid(s, k)
    <3>1. Requests'
      BY <1>1, <2>3, SameRecord, EndPaidStep
    <3> QED BY <1>1, <1>2, <1>5, <2>5, <3>1 DEF Inv, VerifyAnswered, timeVars
  <2>4. CASE SetPaid(s, k, [p EXCEPT !.pc = "verified"])
    <3>1. Requests'
      BY <1>1, <2>1, <2>4, SameRecord, NextPaidStep
    <3> QED BY <1>1, <1>2, <1>5, <2>5, <3>1 DEF Inv, VerifyAnswered, timeVars
  <2> QED BY <1>5, <2>3, <2>4 DEF VerifyAnswered
<1> QED BY <1>3, <1>4, <1>5

\* onSigned up to what it decides: the record is written to, replayed or resumed.
LEMMA ConsultInv ==
    ASSUME Inv, NEW s \in Servers, NEW k \in Keys, Consult(s, k)
    PROVE  Inv' /\ Unseen
<1> DEFINE p == paid[s][k]
<1>1. /\ p.auth \in Auths /\ p.offer \in Nat \ {0} /\ p.pc = "verified"
      /\ Sound(journal[k])
  BY InFlight DEF Consult, Inv, Records
<1>2. UNCHANGED <<chain, calls, delivered, refundCalls, refundOpen, refundPaid, operator,
                  clock, issued>>
  BY DEF Consult, timeVars, worldVars, settleVars, workVars, refundVars
<1>3. PICK end \in PersistVerifiedOffer(k, p.offer, p.auth) :
          \/ Leaves(k, end) /\ EndPaid(s, k) /\ UNCHANGED offers
          \/ ReplayTerminal(s, k, p, end.rec) /\ ~end.threw
          \/ HoldExecuting(s, k, p, end.rec)
          \/ ResumeSettled(s, k, p, end.rec)
          \/ /\ Leaves(k, end)
             /\ SetPaid(s, k, [p EXCEPT !.pc = "signing"])
             /\ UNCHANGED offers
  BY DEF Consult, memoryVars
<1>4. /\ KeepsRef(k, end)
      /\ Paid(end.rec) => Paid(journal[k])
      /\ Finished(end.rec) => Finished(journal[k])
  BY <1>1, PersistedEnds
<1>5. ASSUME NEW at, KeepsRef(k, at), Leaves(k, at),
             Paid(at.rec) => Paid(journal[k]), Finished(at.rec) => Finished(journal[k])
      PROVE  /\ Records' /\ EffectsInv' /\ Unseen
             /\ EndPaid(s, k) => Requests'
             /\ SetPaid(s, k, [p EXCEPT !.pc = "signing"]) => Requests'
  <2>1. Records' /\ EffectsInv' /\ Unseen
    BY <1>2, <1>5, QuietStep
  <2> DEFINE rec == at.rec
  <2>2. Follows(journal[k], rec) /\ journal' = [journal EXCEPT ![k] = rec]
    BY <1>5 DEF KeepsRef, Leaves
  <2> HIDE DEF rec
  <2>3. ASSUME EndPaid(s, k) PROVE Requests'
    BY <1>2, <2>2, <2>3, EndPaidStep
  <2>4. ASSUME SetPaid(s, k, [p EXCEPT !.pc = "signing"]) PROVE Requests'
    BY <1>1, <1>2, <2>2, <2>4, NextPaidStep
  <2> QED BY <2>1, <2>3, <2>4
<1>6. offers' = offers \/ DropOffer(s, k) => OffersTyped'
  BY DroppedOffer DEF Inv, OffersTyped
<1>7. CASE \/ Leaves(k, end) /\ EndPaid(s, k) /\ UNCHANGED offers
           \/ /\ Leaves(k, end)
              /\ SetPaid(s, k, [p EXCEPT !.pc = "signing"])
              /\ UNCHANGED offers
  BY <1>2, <1>4, <1>5, <1>6, <1>7 DEF Inv
<1>8. CASE ReplayTerminal(s, k, p, end.rec) /\ ~end.threw
  <2>1. PICK at : /\ at \in IF Paid(end.rec) THEN issueReceipt(k) ELSE Throws(k)
                  /\ Leaves(k, at)
    BY <1>8 DEF ReplayTerminal, Paid
  <2>2. /\ KeepsRef(k, at)
        /\ Paid(at.rec) => Paid(journal[k])
        /\ Finished(at.rec) => Finished(journal[k])
    <3>1. CASE Paid(end.rec)
      BY <1>1, <1>4, <2>1, <3>1, IssuedEnds
    <3>2. CASE ~Paid(end.rec)
      BY <1>1, <2>1, <3>2, SelfFollows, EndsKeep
    <3> QED BY <3>1, <3>2
  <2>3. EndPaid(s, k) /\ (offers' = offers \/ DropOffer(s, k))
    BY <1>8 DEF ReplayTerminal, Released
  <2> QED BY <1>2, <1>5, <1>6, <2>1, <2>2, <2>3 DEF Inv
<1>9. CASE HoldExecuting(s, k, p, end.rec)
  <2>1. journal' = journal /\ EndPaid(s, k) /\ offers' = offers
    BY <1>9 DEF HoldExecuting, journalVars
  <2>2. Records' /\ EffectsInv' /\ Unseen
    BY <1>2, <2>1, UntouchedStep
  <2>3. Requests'
    BY <1>2, <2>1, SameRecord, EndPaidStep
  <2> QED BY <1>2, <2>1, <2>2, <2>3 DEF Inv, OffersTyped
<1>10. CASE ResumeSettled(s, k, p, end.rec)
  <2>1. /\ journal' = journal /\ SetPaid(s, k, [p EXCEPT !.pc = "authorized"])
        /\ DropOffer(s, k)
    BY <1>10 DEF ResumeSettled, journalVars, Released
  <2>2. Records' /\ EffectsInv' /\ Unseen
    BY <1>2, <2>1, UntouchedStep
  <2>3. Requests'
    BY <1>1, <1>2, <2>1, SameRecord, NextPaidStep
  <2> QED BY <1>2, <1>6, <2>1, <2>2, <2>3 DEF Inv
<1> QED BY <1>3, <1>7, <1>8, <1>9, <1>10

\* onSigned's claim of the payment: only an authorization no record names is new.
LEMMA ClaimSignedInv ==
    ASSUME Inv, NEW s \in Servers, NEW k \in Keys, ClaimSigned(s, k)
    PROVE  Inv'
<1> DEFINE p == paid[s][k]
<1>1. p.auth \in Auths /\ p.pc = "signing" /\ Sound(journal[k])
  BY InFlight DEF ClaimSigned, Inv, Records
<1>2. UNCHANGED <<chain, calls, delivered, refundCalls, refundOpen, refundPaid, operator,
                  clock, issued>>
  BY DEF ClaimSigned, timeVars, workVars, refundVars
<1>3. PICK end \in claimExternalPaymentSigned(k, p.auth) :
          /\ Leaves(k, end)
          /\ \/ EndPaid(s, k)
             \/ SetPaid(s, k, [p EXCEPT !.pc = "authorized"])
             \/ SetPaid(s, k, [p EXCEPT !.pc = "settling"])
          /\ offers' = offers \/ DropOffer(s, k)
  BY DEF ClaimSigned, Released
<1> DEFINE rec == end.rec
<1>4. /\ Follows(journal[k], rec)
      /\ rec.ref = journal[k].ref \/ (rec.ref = p.auth /\ ~RefTaken(k, p.auth))
      /\ Paid(rec) => Paid(journal[k])
      /\ Finished(rec) => Finished(journal[k])
  BY <1>1, <1>3, ClaimedEnds
<1>5. journal' = [journal EXCEPT ![k] = rec]
  BY <1>3 DEF Leaves
<1> HIDE DEF rec
<1>6. Records'
  <2>1. Paid(rec) => chain[rec.ref] = TRUE
    BY <1>1, <1>4, JournalAssumption DEF Inv, Records, Sound, States, Paid, Follows
  <2> QED BY <1>1, <1>2, <1>4, <1>5, <2>1, RecordsStep
<1>7. EffectsInv'
  BY <1>2, <1>4, <1>5, EffectsStep
<1>8. Requests'
  <2>1. CASE EndPaid(s, k)
    BY <1>2, <1>4, <1>5, <2>1, EndPaidStep
  <2>2. CASE SetPaid(s, k, [p EXCEPT !.pc = "authorized"])
    BY <1>1, <1>2, <1>4, <1>5, <2>2, NextPaidStep
  <2>3. CASE SetPaid(s, k, [p EXCEPT !.pc = "settling"])
    BY <1>1, <1>2, <1>4, <1>5, <2>3, NextPaidStep
  <2> QED BY <1>3, <2>1, <2>2, <2>3
<1>9. OffersTyped'
  BY <1>3, DroppedOffer DEF Inv, OffersTyped
<1> QED BY <1>2, <1>6, <1>7, <1>8, <1>9 DEF Inv

-----------------------------------------------------------------------------
\* The chain moves money for an authorization that a record may name.
LEMMA TransferInv ==
    ASSUME Inv, NEW a \in Auths, Transfer(a)
    PROVE  Inv'
<1>1. /\ chain' = [chain EXCEPT ![a] = TRUE]
      /\ UNCHANGED <<journal, calls, delivered, refundCalls, refundOpen, refundPaid, paid,
                     operator, offers, clock, issued>>
  BY DEF Transfer, journalVars, memoryVars, requestVars, timeVars, workVars, refundVars
<1>2. chain' \in [Auths -> BOOLEAN] /\ \A b \in Auths : chain[b] = TRUE => chain'[b] = TRUE
  BY <1>1 DEF Inv
<1>3. Records'
  <2>1. \A k \in Keys : Paid(journal[k]) => journal[k].ref \in Auths
    BY DEF Inv, Records, Sound, States, Paid
  <2> QED BY <1>1, <1>2, <2>1 DEF Inv, Records
<1>4. EffectsInv' /\ Requests' /\ OffersTyped'
  BY <1>1, StillRequests DEF Inv, EffectsInv, Effects, OffersTyped
<1> QED BY <1>1, <1>2, <1>3, <1>4 DEF Inv

\* The three answers of a settlement, and the second attempt to write one down.
LEMMA SettlementInv ==
    ASSUME Inv, NEW s \in Servers, NEW k \in Keys,
           SettleUnknown(s, k) \/ SettleFailed(s, k) \/ SettleConfirmed(s, k)
              \/ SettleUnwritten(s, k)
    PROVE  Inv' /\ Unseen
<1> DEFINE p == paid[s][k]
<1>1. p.auth \in Auths /\ p.pc \in {"settling", "unwritten"} /\ Sound(journal[k])
  BY InFlight DEF SettleUnknown, SettleFailed, SettleConfirmed, SettleUnwritten, Inv, Records
<1>2. UNCHANGED <<chain, calls, delivered, refundCalls, refundOpen, refundPaid, operator,
                  clock, issued>>
  BY DEF SettleUnknown, SettleFailed, SettleConfirmed, SettleUnwritten, timeVars, worldVars,
         settleVars, workVars, refundVars
<1>3. PICK end : /\ \/ end \in NotedUnresolved(k) \cup NotedRejected(k)
                    \/ end \in markExternalPaymentSettled(k, p.auth) /\ chain[p.auth]
                 /\ Leaves(k, end)
                 /\ \/ EndPaid(s, k)
                    \/ SetPaid(s, k, [p EXCEPT !.pc = "authorized"])
                    \/ SetPaid(s, k, [p EXCEPT !.pc = "unwritten"])
                 /\ offers' = offers \/ DropOffer(s, k)
  <2>1. CASE SettleUnknown(s, k) \/ SettleUnwritten(s, k)
    BY <2>1 DEF SettleUnknown, SettleUnwritten
  <2>2. CASE SettleFailed(s, k)
    BY <2>2 DEF SettleFailed, Released
  <2>3. CASE SettleConfirmed(s, k)
    BY <2>3 DEF SettleConfirmed, memoryVars
  <2> QED BY <2>1, <2>2, <2>3
<1>4. /\ KeepsRef(k, end)
      /\ Paid(end.rec) => Paid(journal[k]) \/ chain[journal[k].ref] = TRUE
      /\ Finished(end.rec) => Finished(journal[k])
  <2>1. CASE end \in NotedUnresolved(k) \cup NotedRejected(k)
    BY <1>1, <2>1, NotedEnds
  <2>2. CASE end \in markExternalPaymentSettled(k, p.auth) /\ chain[p.auth]
    <3>1. chain[p.auth] = TRUE
      BY <1>1, <2>2 DEF Inv
    <3> QED BY <1>1, <2>2, <3>1, SettledEnds
  <2> QED BY <1>3, <2>1, <2>2
<1>5. Records' /\ EffectsInv' /\ Unseen
  BY <1>2, <1>3, <1>4, QuietStep
<1>6. Requests'
  <2> DEFINE rec == end.rec
  <2>1. Follows(journal[k], rec) /\ journal' = [journal EXCEPT ![k] = rec]
    BY <1>3, <1>4 DEF KeepsRef, Leaves
  <2> HIDE DEF rec
  <2>2. CASE EndPaid(s, k)
    BY <1>2, <2>1, <2>2, EndPaidStep
  <2>3. CASE SetPaid(s, k, [p EXCEPT !.pc = "authorized"])
    BY <1>1, <1>2, <2>1, <2>3, NextPaidStep
  <2>4. CASE SetPaid(s, k, [p EXCEPT !.pc = "unwritten"])
    BY <1>1, <1>2, <2>1, <2>4, NextPaidStep
  <2> QED BY <1>3, <2>2, <2>3, <2>4
<1>7. OffersTyped'
  BY <1>3, DroppedOffer DEF Inv, OffersTyped
<1> QED BY <1>2, <1>5, <1>6, <1>7 DEF Inv

\* The executor is called by the process that appended execution.started.
LEMMA StartExecutionInv ==
    ASSUME Inv, NEW s \in Servers, NEW k \in Keys, StartExecution(s, k)
    PROVE  Inv'
<1> DEFINE p == paid[s][k]
<1>1. p.pc = "authorized" /\ Sound(journal[k]) /\ Effects(k)
  BY DEF StartExecution, Inv, Records, EffectsInv
<1>2. UNCHANGED <<chain, delivered, refundCalls, refundOpen, refundPaid, operator, clock,
                  issued, offers>>
  BY DEF StartExecution, timeVars, settleVars, refundVars
<1>3. PICK end \in startExecution(k) :
          /\ Leaves(k, end)
          /\ IF end.threw \/ journal[k].execution = "executing"
             THEN EndPaid(s, k) /\ UNCHANGED calls
             ELSE /\ SetPaid(s, k, [p EXCEPT !.pc = "executing"])
                  /\ calls' = [calls EXCEPT ![k] = @ + 1]
  BY DEF StartExecution, ConsumeAndEnd
<1>4. /\ KeepsRef(k, end)
      /\ Paid(end.rec) => Paid(journal[k])
      /\ Finished(end.rec) => Finished(journal[k])
  BY <1>1, StartedEnds
<1> DEFINE rec == end.rec
<1>5. Follows(journal[k], rec) /\ journal' = [journal EXCEPT ![k] = rec]
  BY <1>3, <1>4 DEF KeepsRef, Leaves
<1>6. CASE EndPaid(s, k) /\ UNCHANGED calls
  <2>1. Records' /\ EffectsInv'
    BY <1>2, <1>3, <1>4, <1>6, KeptStep
  <2> HIDE DEF rec
  <2>2. Requests'
    BY <1>2, <1>5, <1>6, EndPaidStep
  <2> QED BY <1>2, <2>1, <2>2 DEF Inv, OffersTyped
<1>7. CASE /\ ~end.threw /\ journal[k].execution # "executing"
           /\ SetPaid(s, k, [p EXCEPT !.pc = "executing"])
           /\ calls' = [calls EXCEPT ![k] = @ + 1]
  <2>1. /\ journal[k].execution = "authorized"
        /\ rec.execution = "executing" /\ rec.ref = journal[k].ref
        /\ Paid(rec) => Paid(journal[k])
    BY <1>1, <1>4, <1>7, StartedEnds DEF KeepsRef
  <2> HIDE DEF rec
  <2>2. calls[k] = 0
    BY <1>1, <2>1 DEF Effects, Started, Finished
  <2>3. calls' \in [Keys -> Nat] /\ calls'[k] = 1
        /\ \A other \in Keys \ {k} : calls'[other] = calls[other]
    BY <1>7, <2>2 DEF Inv, EffectsInv
  <2>4. Records'
    <3>1. Paid(rec) => chain[rec.ref] = TRUE
      BY <2>1 DEF Inv, Records
    <3> QED BY <1>2, <1>5, <2>1, <3>1, RecordsStep
  <2>5. EffectsInv'
    <3>1. journal'[k] = rec /\ \A other \in Keys \ {k} : journal'[other] = journal[other]
      BY <1>5 DEF Inv, Records
    <3>2. ASSUME NEW other \in Keys PROVE Effects(other)'
      <4>1. CASE other = k
        BY <1>1, <1>2, <1>5, <2>1, <2>3, <3>1, <4>1 DEF Effects, Follows, Started, Finished
      <4>2. CASE other # k
        BY <1>2, <2>3, <3>1, <4>2 DEF Inv, EffectsInv, Effects
      <4> QED BY <4>1, <4>2
    <3> QED BY <1>2, <2>3, <3>2 DEF Inv, EffectsInv
  <2>6. Requests'
    <3>1. \A other \in Keys : calls[other] = 1 => calls'[other] = 1
      BY <2>2, <2>3
    <3> QED BY <1>1, <1>2, <1>5, <1>7, <2>3, <3>1, NextPaidStep
  <2> QED BY <1>2, <2>4, <2>5, <2>6 DEF Inv, OffersTyped
<1> QED BY <1>3, <1>6, <1>7

\* The executor returned: its outcome is written down.
LEMMA FinishExecutionInv ==
    ASSUME Inv, NEW s \in Servers, NEW k \in Keys, FinishExecution(s, k)
    PROVE  Inv'
<1> DEFINE p == paid[s][k]
<1>1. p.pc = "executing" /\ Sound(journal[k]) /\ calls[k] = 1
  BY DEF FinishExecution, Inv, Records, Requests, Known
<1>2. UNCHANGED <<chain, calls, delivered, refundCalls, refundOpen, refundPaid, operator,
                  clock, issued, offers>>
  BY DEF FinishExecution, timeVars, worldVars, settleVars, workVars, refundVars
<1>3. PICK outcome \in {"succeeded", "failed"} : \E end \in finishExecution(k, outcome) :
          /\ Leaves(k, end)
          /\ IF end.threw THEN EndPaid(s, k)
             ELSE SetPaid(s, k, [p EXCEPT !.pc = outcome])
  BY DEF FinishExecution, ConsumeAndEnd
<1>4. PICK end \in finishExecution(k, outcome) :
          /\ Leaves(k, end)
          /\ IF end.threw THEN EndPaid(s, k)
             ELSE SetPaid(s, k, [p EXCEPT !.pc = outcome])
  BY <1>3
<1>5. /\ KeepsRef(k, end)
      /\ Paid(end.rec) => Paid(journal[k])
      /\ ~end.threw => end.rec.execution = outcome
  BY <1>1, FinishedEnds
<1>6. Records' /\ EffectsInv'
  BY <1>1, <1>2, <1>4, <1>5, KeptStep
<1> DEFINE rec == end.rec
<1>7. Follows(journal[k], rec) /\ journal' = [journal EXCEPT ![k] = rec]
      /\ (~end.threw => rec.execution = outcome)
  BY <1>4, <1>5 DEF KeepsRef, Leaves
<1> HIDE DEF rec
<1>8. Requests'
  <2>1. CASE EndPaid(s, k)
    BY <1>2, <1>7, <2>1, EndPaidStep
  <2>2. CASE ~end.threw /\ SetPaid(s, k, [p EXCEPT !.pc = outcome])
    BY <1>1, <1>2, <1>7, <2>2, NextPaidStep
  <2> QED BY <1>4, <2>1, <2>2
<1> QED BY <1>2, <1>6, <1>8 DEF Inv, OffersTyped

\* The receipt and the answer.
LEMMA AnswerInvocationInv ==
    ASSUME Inv, NEW s \in Servers, NEW k \in Keys, AnswerInvocation(s, k)
    PROVE  Inv'
<1> DEFINE p == paid[s][k]
<1>1. /\ p.pc \in {"succeeded", "failed"} /\ Sound(journal[k]) /\ calls[k] = 1
      /\ p.pc = "succeeded" => journal[k].execution = "succeeded"
      /\ Effects(k)
  BY DEF AnswerInvocation, Inv, Records, Requests, Known, EffectsInv
<1>2. Paid(journal[k])
  BY <1>1 DEF Effects, Sound, States, AnyRecord, PaymentStates, Paid, Started, Finished
<1>3. UNCHANGED <<chain, calls, refundCalls, refundOpen, refundPaid, operator,
                  clock, issued, offers>>
  BY DEF AnswerInvocation, timeVars, settleVars, refundVars
<1>4. PICK end \in issueReceipt(k) :
          /\ Leaves(k, end)
          /\ EndPaid(s, k)
          /\ \/ delivered' = delivered
             \/ p.pc = "succeeded" /\ delivered' = [delivered EXCEPT ![k] = TRUE]
  BY DEF AnswerInvocation, ConsumeAndEnd
<1>5. /\ KeepsRef(k, end)
      /\ end.rec.execution = journal[k].execution
  BY <1>1, <1>2, IssuedEnds
<1> DEFINE rec == end.rec
<1>6. /\ Follows(journal[k], rec) /\ journal' = [journal EXCEPT ![k] = rec]
      /\ rec.ref = journal[k].ref /\ rec.execution = journal[k].execution
  BY <1>4, <1>5 DEF KeepsRef, Leaves
<1> HIDE DEF rec
<1>7. Records'
  <2>1. Paid(rec) => chain[rec.ref] = TRUE
    BY <1>2, <1>6 DEF Inv, Records
  <2> QED BY <1>3, <1>6, <2>1, RecordsStep
<1>8. Requests'
  BY <1>3, <1>4, <1>6, EndPaidStep
<1>9. EffectsInv'
  <2>1. /\ journal'[k] = rec /\ \A other \in Keys \ {k} : journal'[other] = journal[other]
        /\ delivered' \in [Keys -> BOOLEAN]
        /\ \A other \in Keys \ {k} : delivered'[other] = delivered[other]
        /\ delivered'[k] = delivered[k] \/ journal[k].execution = "succeeded"
    BY <1>1, <1>4, <1>6 DEF Inv, Records, EffectsInv
  <2>2. ASSUME NEW other \in Keys PROVE Effects(other)'
    <3>1. CASE other = k
      BY <1>1, <1>3, <1>6, <2>1, <3>1 DEF Effects, Follows, Started, Finished
    <3>2. CASE other # k
      BY <1>3, <2>1, <3>2 DEF Inv, EffectsInv, Effects
    <3> QED BY <3>1, <3>2
  <2> QED BY <1>3, <2>1, <2>2 DEF Inv, EffectsInv
<1> QED BY <1>3, <1>7, <1>8, <1>9 DEF Inv, OffersTyped

-----------------------------------------------------------------------------
\* An operator's request writes down what it was answered.
LEMMA OperatorWrites ==
    ASSUME Inv, NEW s \in Servers, NEW k \in Keys, NEW end,
           KeepsRef(k, end), Leaves(k, end),
           Paid(end.rec) => Paid(journal[k]) \/ chain[journal[k].ref] = TRUE,
           Finished(end.rec) => Finished(journal[k]),
           NEW pc \in {"idle", "refunded"}, SetOperator(s, k, pc),
           pc = "refunded" => end.rec.payment = "refunded",
           UNCHANGED <<chain, calls, delivered, refundCalls, refundOpen, refundPaid, paid,
                       clock, issued, offers>>
    PROVE  Inv' /\ Unseen
<1>1. Records' /\ EffectsInv' /\ Unseen
  BY QuietStep
<1> DEFINE rec == end.rec
<1>2. /\ Follows(journal[k], rec) /\ journal' = [journal EXCEPT ![k] = rec]
      /\ pc = "refunded" => rec.payment = "refunded"
  BY DEF KeepsRef, Leaves
<1> HIDE DEF rec
<1>3. Requests'
  BY <1>2, OperatorStep
<1> QED BY <1>1, <1>3 DEF Inv, OffersTyped

\* The operator's requests about a settlement and about a refund once started.
LEMMA OperatorInv ==
    ASSUME Inv, NEW s \in Servers, NEW k \in Keys,
           \/ AskSettlement(s, k) \/ ResolveSettled(s, k) \/ ResolveUnknown(s, k)
           \/ AskRefund(s, k) \/ ConfirmRefund(s, k)
           \/ RefundUnknown(s, k) \/ AnswerRefund(s, k)
    PROVE  Inv' /\ Unseen
<1>1. UNCHANGED <<chain, calls, delivered, refundCalls, refundOpen, refundPaid, paid,
                  clock, issued, offers>>
  BY DEF AskSettlement, ResolveSettled, ResolveUnknown, AskRefund, ConfirmRefund,
         RefundUnknown, AnswerRefund, memoryVars, timeVars, worldVars, settleVars, workVars,
         refundVars
<1>2. Sound(journal[k]) /\ Follows(journal[k], journal[k])
  BY SelfFollows DEF Inv, Records
<1>3. CASE AskSettlement(s, k) \/ ResolveUnknown(s, k) \/ AskRefund(s, k)
  <2>1. journal' = journal
    BY <1>3 DEF AskSettlement, ResolveUnknown, AskRefund, journalVars
  <2>2. PICK pc \in {"idle", "resolving", "resolving_refund"} : SetOperator(s, k, pc)
    BY <1>3 DEF AskSettlement, ResolveUnknown, AskRefund
  <2>3. Requests'
    BY <1>1, <2>1, <2>2, SameRecord, OperatorStep
  <2> QED BY <1>1, <2>1, <2>3, UntouchedStep DEF Inv, OffersTyped
<1>4. CASE ResolveSettled(s, k)
  <2>1. PICK end \in markExternalPaymentSettled(k, journal[k].ref) :
           Leaves(k, end) /\ chain[journal[k].ref] /\ SetOperator(s, k, "idle")
    BY <1>4 DEF ResolveSettled
  <2>2. /\ KeepsRef(k, end)
        /\ Paid(end.rec) => Paid(journal[k]) \/ journal[k].ref \in Auths
        /\ Finished(end.rec) => Finished(journal[k])
    BY <1>2, <2>1, SettledEnds
  <2>3. journal[k].ref \in Auths => chain[journal[k].ref] = TRUE
    BY <2>1 DEF Inv
  <2> QED BY <1>1, <2>1, <2>2, <2>3, OperatorWrites
<1>5. CASE ConfirmRefund(s, k)
  <2>1. PICK end \in refundExternalPayment(k) :
           /\ Leaves(k, end)
           /\ SetOperator(s, k, IF end.threw THEN "idle" ELSE "refunded")
    BY <1>5 DEF ConfirmRefund
  <2>2. /\ KeepsRef(k, end)
        /\ Paid(end.rec) => Paid(journal[k])
        /\ Finished(end.rec) => Finished(journal[k])
        /\ ~end.threw => end.rec.payment = "refunded"
    BY <1>2, RefundedEnds
  <2>3. CASE end.threw
    <3>1. SetOperator(s, k, "idle")
      BY <2>1, <2>3
    <3> QED BY <1>1, <2>1, <2>2, <3>1, OperatorWrites
  <2>4. CASE ~end.threw
    <3>1. SetOperator(s, k, "refunded")
      BY <2>1, <2>4
    <3> QED BY <1>1, <2>1, <2>2, <2>4, <3>1, OperatorWrites
  <2> QED BY <2>3, <2>4
<1>6. CASE RefundUnknown(s, k)
  <2>1. PICK end \in Answers(k) \cup markRefundUnresolved(k) :
           /\ Leaves(k, end)
           /\ SetOperator(s, k, IF ~end.threw /\ end.rec.payment = "refunded"
                                THEN "refunded" ELSE "idle")
    BY <1>6 DEF RefundUnknown
  <2>2. /\ KeepsRef(k, end)
        /\ Paid(end.rec) => Paid(journal[k])
        /\ Finished(end.rec) => Finished(journal[k])
    <3>1. CASE end \in Answers(k)
      BY <1>2, <3>1, EndsKeep
    <3>2. CASE end \in markRefundUnresolved(k)
      BY <1>2, <3>2, RefundUnresolvedEnds
    <3> QED BY <3>1, <3>2
  <2>3. CASE ~end.threw /\ end.rec.payment = "refunded"
    <3>1. SetOperator(s, k, "refunded")
      BY <2>1, <2>3
    <3> QED BY <1>1, <2>1, <2>2, <2>3, <3>1, OperatorWrites
  <2>4. CASE ~(~end.threw /\ end.rec.payment = "refunded")
    <3>1. SetOperator(s, k, "idle")
      BY <2>1, <2>4
    <3> QED BY <1>1, <2>1, <2>2, <3>1, OperatorWrites
  <2> QED BY <2>3, <2>4
<1>7. CASE AnswerRefund(s, k)
  <2>1. PICK end \in issueReceipt(k) : Leaves(k, end) /\ SetOperator(s, k, "idle")
    BY <1>7 DEF AnswerRefund
  <2>2. Paid(journal[k])
    BY <1>7 DEF AnswerRefund, Inv, Requests, Known, Paid
  <2>3. /\ KeepsRef(k, end)
        /\ Finished(end.rec) => Finished(journal[k])
    BY <1>2, <2>1, <2>2, IssuedEnds
  <2> QED BY <1>1, <2>1, <2>2, <2>3, OperatorWrites
<1> QED BY <1>3, <1>4, <1>5, <1>6, <1>7

\* The refund executor is called by the process that appended refund.started.
LEMMA StartRefundInv ==
    ASSUME Inv, NEW s \in Servers, NEW k \in Keys, StartRefund(s, k)
    PROVE  Inv' /\ Unseen
<1>1. Sound(journal[k]) /\ Refundable(journal[k]) /\ Effects(k)
  BY DEF StartRefund, Inv, Records, EffectsInv
<1>2. UNCHANGED <<chain, calls, delivered, refundPaid, paid, clock, issued, offers>>
  BY DEF StartRefund, memoryVars, timeVars, settleVars, workVars
<1>3. PICK end \in startRefund(k) :
          /\ Leaves(k, end)
          /\ IF end.threw \/ journal[k].refund # "none"
             THEN UNCHANGED <<operator, refundCalls, refundOpen>>
             ELSE /\ SetOperator(s, k, "refunding")
                  /\ refundCalls' = [refundCalls EXCEPT ![k] = @ + 1]
                  /\ refundOpen' = [refundOpen EXCEPT ![k] = @ + 1]
  BY DEF StartRefund
<1>4. /\ KeepsRef(k, end)
      /\ Paid(end.rec) => Paid(journal[k])
      /\ Finished(end.rec) => Finished(journal[k])
      /\ ~end.threw => end.rec.refund # "none"
  BY <1>1, StartedRefundEnds
<1> DEFINE rec == end.rec
<1>5. /\ Follows(journal[k], rec) /\ journal' = [journal EXCEPT ![k] = rec]
      /\ rec.ref = journal[k].ref /\ (Paid(rec) => Paid(journal[k]))
      /\ Finished(rec) => Finished(journal[k])
      /\ ~end.threw => rec.refund # "none"
  BY <1>3, <1>4 DEF KeepsRef, Leaves
<1> HIDE DEF rec
<1>6. CASE UNCHANGED <<operator, refundCalls, refundOpen>>
  <2>1. Records' /\ EffectsInv' /\ Unseen
    BY <1>2, <1>3, <1>4, <1>6, QuietStep
  <2>2. Requests'
    <3>1. /\ journal'[k] = rec /\ \A x \in Keys \ {k} : journal'[x] = journal[x]
      BY <1>5 DEF Inv, Records
    <3>2. \A t \in Servers, other \in Keys : Known(t, other)'
      BY <1>2, <1>5, <1>6, StaysKnown
    <3> QED BY <1>2, <1>6, <3>2 DEF Inv, Requests
  <2> QED BY <1>2, <2>1, <2>2 DEF Inv, OffersTyped
<1>7. CASE /\ ~end.threw /\ journal[k].refund = "none"
           /\ SetOperator(s, k, "refunding")
           /\ refundCalls' = [refundCalls EXCEPT ![k] = @ + 1]
           /\ refundOpen' = [refundOpen EXCEPT ![k] = @ + 1]
  <2>1. refundCalls[k] = 0 /\ refundOpen[k] = 0 /\ refundPaid[k] = 0
    BY <1>1, <1>7 DEF Effects
  <2>2. /\ refundCalls' \in [Keys -> Nat] /\ refundCalls'[k] = 1
        /\ refundOpen' \in [Keys -> Nat] /\ refundOpen'[k] = 1
        /\ \A other \in Keys \ {k} : /\ refundCalls'[other] = refundCalls[other]
                                     /\ refundOpen'[other] = refundOpen[other]
    BY <1>7, <2>1 DEF Inv, EffectsInv
  <2>3. Records'
    <3>1. Paid(rec) => chain[rec.ref] = TRUE
      BY <1>5 DEF Inv, Records
    <3> QED BY <1>2, <1>5, <3>1, RecordsStep
  <2>4. EffectsInv'
    <3>1. journal'[k] = rec /\ \A other \in Keys \ {k} : journal'[other] = journal[other]
      BY <1>5 DEF Inv, Records
    <3>2. ASSUME NEW other \in Keys PROVE Effects(other)'
      <4>1. CASE other = k
        BY <1>1, <1>2, <1>5, <1>7, <2>1, <2>2, <3>1, <4>1
           DEF Effects, Follows, Started, Finished
      <4>2. CASE other # k
        BY <1>2, <2>2, <3>1, <4>2 DEF Inv, EffectsInv, Effects
      <4> QED BY <4>1, <4>2
    <3> QED BY <1>2, <2>2, <3>2 DEF Inv, EffectsInv
  <2>5. Requests'
    BY <1>2, <1>5, <1>7, OperatorStep
  <2>6. Unseen
    <3>1. ASSUME NEW other \in Keys
          PROVE  /\ journal'[other].ref = journal[other].ref
                 /\ journal'[other].execution = "failed" <=> journal[other].execution = "failed"
      <4>1. journal'[k] = rec /\ \A x \in Keys \ {k} : journal'[x] = journal[x]
        BY <1>5 DEF Inv, Records
      <4>2. rec.execution = "failed" <=> journal[k].execution = "failed"
        BY <1>1, <1>5 DEF Follows, Finished
      <4> QED BY <1>5, <4>1, <4>2
    <3> QED BY <1>2, <3>1 DEF Unseen, Money, Work
  <2> QED BY <1>2, <2>3, <2>4, <2>5, <2>6 DEF Inv, OffersTyped
<1> QED BY <1>3, <1>6, <1>7

\* The refund is paid.
LEMMA RefundTransferInv ==
    ASSUME Inv, NEW k \in Keys, RefundTransfer(k)
    PROVE  Inv'
<1>1. UNCHANGED <<journal, chain, calls, delivered, refundCalls, paid, operator, clock, issued,
                  offers>>
  BY DEF RefundTransfer, journalVars, memoryVars, requestVars, timeVars, settleVars, workVars
<1>2. Effects(k) /\ refundOpen[k] = 1
  BY DEF Inv, EffectsInv, Effects, RefundTransfer
<1>3. /\ refundOpen' \in [Keys -> Nat] /\ refundOpen'[k] = 0
      /\ refundPaid' \in [Keys -> Nat] /\ refundPaid'[k] = 1
      /\ \A other \in Keys \ {k} : /\ refundPaid'[other] = refundPaid[other]
                                   /\ refundOpen'[other] = refundOpen[other]
  BY <1>2 DEF RefundTransfer, Inv, EffectsInv, Effects
<1>4. ASSUME NEW other \in Keys PROVE Effects(other)'
  <2>1. CASE other = k
    BY <1>1, <1>2, <1>3, <2>1 DEF Effects
  <2>2. CASE other # k
    BY <1>1, <1>3, <2>2 DEF Inv, EffectsInv, Effects
  <2> QED BY <2>1, <2>2
<1>5. EffectsInv'
  BY <1>1, <1>3, <1>4 DEF Inv, EffectsInv
<1> QED BY <1>1, <1>5, StillRequests DEF Inv, Records, OffersTyped

-----------------------------------------------------------------------------
\* A process dies: its requests are forgotten, the records and effects are not.
LEMMA CrashInv ==
    ASSUME Inv, NEW s \in Servers, Crash(s)
    PROVE  Inv' /\ Unseen
<1>1. /\ UNCHANGED <<journal, chain, calls, delivered, refundCalls, refundOpen, refundPaid,
                     clock, issued>>
      /\ offers' = [offers EXCEPT ![s] = [k \in Keys |-> NoOffer]]
      /\ paid' = [paid EXCEPT ![s] = [k \in Keys |-> Idle]]
      /\ operator' = [operator EXCEPT ![s] = [k \in Keys |-> Idle]]
  BY DEF Crash, worldVars, settleVars, workVars, refundVars
<1>2. Records' /\ EffectsInv' /\ Unseen
  BY <1>1, UntouchedStep
<1>3. OffersTyped'
  <2>1. NoOffer \in [id : Nat, verified : Auths \cup {NoAuth}]
    BY DEF NoOffer
  <2> HIDE DEF NoOffer
  <2> QED BY <1>1, <2>1 DEF Inv, OffersTyped
<1>4. Requests'
  <2>1. Idle \in OperatorRequest /\ Idle.pc = "idle"
    BY DEF Idle, OperatorRequest
  <2> HIDE DEF Idle
  <2>2. /\ paid' \in [Servers -> [Keys -> {Idle} \cup PaidRequest]]
        /\ operator' \in [Servers -> [Keys -> OperatorRequest]]
    BY <1>1, <2>1 DEF Inv, Requests
  <2>3. ASSUME NEW t \in Servers, NEW k \in Keys PROVE Known(t, k)'
    <3>1. CASE t = s
      BY <1>1, <2>1, <3>1 DEF Inv, Requests, Known
    <3>2. CASE t # s
      BY <1>1, <3>2 DEF Inv, Requests, Known
    <3> QED BY <3>1, <3>2
  <2> QED BY <2>2, <2>3 DEF Requests
<1> QED BY <1>1, <1>2, <1>3, <1>4 DEF Inv

\* Offers expire and the buyer signs: no record and no effect changes.
LEMMA TimeInv ==
    ASSUME Inv, Tick \/ (\E a \in Auths : BuyerSigns(a)) \/ UNCHANGED vars
    PROVE  Inv' /\ Unseen
<1>1. UNCHANGED <<journal, chain, calls, delivered, refundCalls, refundOpen, refundPaid, paid,
                  operator, issued>>
  BY DEF Tick, BuyerSigns, vars, journalVars, requestVars, timeVars, worldVars, settleVars,
         workVars, refundVars
<1>2. clock' \in Nat
  BY DEF Inv, Tick, BuyerSigns, vars, timeVars
<1>3. OffersTyped'
  <2>1. NoOffer \in [id : Nat, verified : Auths \cup {NoAuth}]
    BY DEF NoOffer
  <2>2. CASE Tick
    <3> HIDE DEF NoOffer
    <3> QED BY <2>1, <2>2 DEF Inv, OffersTyped, Tick
  <2>3. CASE offers' = offers
    BY <2>3 DEF Inv, OffersTyped
  <2> QED BY <2>2, <2>3 DEF BuyerSigns, vars, memoryVars
<1> QED BY <1>1, <1>2, <1>3, UntouchedStep, StillRequests DEF Inv

\* An empty journal, an idle seller and an unused chain satisfy the invariant.
LEMMA InitInv == Init => Inv
<1> SUFFICES ASSUME Init PROVE Inv
  OBVIOUS
<1> USE DEF Init, JournalInit
<1>1. Sound(NoRecord) /\ ~Paid(NoRecord) /\ ~Started(NoRecord) /\ ~Finished(NoRecord)
      /\ NoRecord.ref = NoAuth /\ NoRecord.refund = "none"
  BY DEF NoRecord, Sound, AnyRecord, States, Receipts, Paid, Started, Finished,
         PaymentStates, ExecutionStates, RefundStates, ReceiptRevisions
<1>2. Records
  BY <1>1 DEF Records, Sound
<1>3. EffectsInv
  BY <1>1 DEF EffectsInv, Effects
<1>4. Requests
  <2>1. Idle \in OperatorRequest /\ Idle.pc = "idle"
    BY DEF Idle, OperatorRequest
  <2> QED BY <2>1 DEF Requests, Known
<1>5. OffersTyped /\ chain \in [Auths -> BOOLEAN] /\ issued \in Seq(Nat) /\ clock \in Nat
  BY EmptySeq DEF OffersTyped, NoOffer
<1> QED BY <1>2, <1>3, <1>4, <1>5 DEF Inv

\* Every step of servers, operators, chain, buyer and clock keeps the invariant.
LEMMA NextInv == Inv /\ [Next]_vars => Inv'
<1> SUFFICES ASSUME Inv, [Next]_vars PROVE Inv'
  OBVIOUS
<1>1. ASSUME NEW s \in Servers, NEW k \in Keys,
             \/ IssueOffer(s, k)
             \/ \E a \in Auths : ClaimAuthorization(s, k, a)
             \/ VerifyAnswered(s, k) \/ Consult(s, k) \/ ClaimSigned(s, k)
             \/ SettleUnknown(s, k) \/ SettleFailed(s, k) \/ SettleConfirmed(s, k)
             \/ SettleUnwritten(s, k)
             \/ StartExecution(s, k) \/ FinishExecution(s, k) \/ AnswerInvocation(s, k)
      PROVE  Inv'
  BY <1>1, PaywallInv, ConsultInv, ClaimSignedInv, SettlementInv, StartExecutionInv,
     FinishExecutionInv, AnswerInvocationInv
<1>2. ASSUME NEW s \in Servers, NEW k \in Keys,
             \/ AskSettlement(s, k) \/ ResolveSettled(s, k) \/ ResolveUnknown(s, k)
             \/ StartRefund(s, k) \/ AskRefund(s, k) \/ ConfirmRefund(s, k)
             \/ RefundUnknown(s, k) \/ AnswerRefund(s, k)
      PROVE  Inv'
  BY <1>2, OperatorInv, StartRefundInv
<1>3. ASSUME NEW a \in Auths, BuyerSigns(a) \/ Transfer(a) PROVE Inv'
  BY <1>3, TimeInv, TransferInv
<1>4. ASSUME NEW k \in Keys, RefundTransfer(k) PROVE Inv'
  BY <1>4, RefundTransferInv
<1>5. ASSUME NEW s \in Servers, Crash(s) PROVE Inv'
  BY <1>5, CrashInv
<1>6. CASE Tick \/ UNCHANGED vars
  BY <1>6, TimeInv
<1> QED BY <1>1, <1>2, <1>3, <1>4, <1>5, <1>6 DEF Next

-----------------------------------------------------------------------------
\* The invariant of the servers, the journal and the world, for every instance.
THEOREM CollarInvariant == Spec => []Inv
  BY InitInv, NextInv, PTL DEF Spec

\* EffectsClaimedOnce: whatever servers race, throw and crash, the executor and the
\* refund executor are called at most once for an Invocation, and pay at most once.
THEOREM EffectsAreClaimedOnce == Spec => []EffectsClaimedOnce
<1>1. Inv => EffectsClaimedOnce
  <2> SUFFICES ASSUME Inv, NEW k \in Keys
               PROVE  calls[k] <= 1 /\ refundCalls[k] <= 1 /\ refundPaid[k] <= 1
    BY DEF EffectsClaimedOnce
  <2>1. calls[k] \in {0, 1} /\ refundCalls[k] \in {0, 1} /\ refundPaid[k] \in {0, 1}
    BY DEF Inv, EffectsInv, Effects
  <2> QED BY <2>1
<1> QED BY CollarInvariant, <1>1, PTL

\* ExecutedIsPaid: the executor ran for an authorization that was used on chain and
\* that no other record names.
THEOREM ExecutionIsPaid == Spec => []ExecutedIsPaid
<1>1. Inv => ExecutedIsPaid
  <2> SUFFICES ASSUME Inv, NEW k \in Keys, calls[k] > 0
               PROVE  /\ journal[k].ref # NoAuth
                      /\ chain[journal[k].ref]
                      /\ \A other \in Keys \ {k} : journal[other].ref # journal[k].ref
    BY DEF ExecutedIsPaid
  <2>1. Started(journal[k]) /\ Sound(journal[k])
    BY DEF Inv, EffectsInv, Effects, Records
  <2>2. Paid(journal[k])
    BY <2>1 DEF Sound, States, AnyRecord, PaymentStates, Paid, Started, Finished
  <2>3. journal[k].ref \in Auths /\ journal[k].ref # NoAuth
    BY <2>1, <2>2, JournalAssumption DEF Sound, States, Paid
  <2> QED BY <2>2, <2>3 DEF Inv, Records
<1> QED BY CollarInvariant, <1>1, PTL

\* ReceiptsFollowRecord: the receipts issued are those of the payment's life.
THEOREM ReceiptsAreTheRecords == Spec => []ReceiptsFollowRecord
<1>1. Inv => ReceiptsFollowRecord
  <2> SUFFICES ASSUME Inv, NEW k \in Keys
               PROVE  LET rec == journal[k] IN
                      /\ rec.receipts \in
                            {<<>>, <<"settled">>, <<"refunded">>, <<"settled", "refunded">>}
                      /\ rec.receipt => /\ rec.receipts # <<>>
                                        /\ rec.receipts[Len(rec.receipts)] = rec.payment
                      /\ ~rec.receipt /\ rec.receipts # <<>> => rec.payment = "refunded"
    BY DEF ReceiptsFollowRecord
  <2> DEFINE rec == journal[k]
  <2>1. Sound(rec)
    BY DEF Inv, Records
  <2>2. /\ Len(<<"settled">>) = 1 /\ Len(<<"refunded">>) = 1
        /\ Len(<<"settled", "refunded">>) = 2
        /\ <<"settled">> # <<>> /\ <<"refunded">> # <<>> /\ <<"settled", "refunded">> # <<>>
    OBVIOUS
  <2>3. rec.receipts \in {<<>>, <<"settled">>, <<"refunded">>, <<"settled", "refunded">>}
    BY <2>1 DEF Sound, AnyRecord, ReceiptRevisions
  <2>4. ASSUME rec.receipt
        PROVE  rec.receipts # <<>> /\ rec.receipts[Len(rec.receipts)] = rec.payment
    <3>1. CASE rec.payment = "settled" /\ rec.receipts = <<"settled">>
      BY <2>2, <3>1
    <3>2. CASE rec.payment = "refunded" /\ rec.receipts = <<"refunded">>
      BY <2>2, <3>2
    <3>3. CASE rec.payment = "refunded" /\ rec.receipts = <<"settled", "refunded">>
      BY <2>2, <3>3
    <3> QED BY <2>1, <2>4, <3>1, <3>2, <3>3 DEF Sound, Receipts
  <2>5. ~rec.receipt /\ rec.receipts # <<>> => rec.payment = "refunded"
    BY <2>1 DEF Sound, Receipts
  <2> QED BY <2>3, <2>4, <2>5
<1> QED BY CollarInvariant, <1>1, PTL

-----------------------------------------------------------------------------
\* A settle request is sent by ClaimSigned alone, for an authorization the record
\* names from then on.
LEMMA SendsOnlyWhenDecided ==
    ASSUME Inv, [Next]_vars, NEW a \in Auths, NEW k \in Keys,
           sends[a] > 0, sends'[a] # sends[a], journal[k].ref = a
    PROVE  journal[k].payment \notin {"signed", "unresolved"}
<1>1. PICK s \in Servers, own \in Keys : ClaimSigned(s, own)
  <2>1. ASSUME NEW s \in Servers, NEW own \in Keys,
               \/ IssueOffer(s, own)
               \/ \E b \in Auths : ClaimAuthorization(s, own, b)
               \/ VerifyAnswered(s, own) \/ Consult(s, own)
               \/ SettleUnknown(s, own) \/ SettleFailed(s, own) \/ SettleConfirmed(s, own)
               \/ SettleUnwritten(s, own)
               \/ StartExecution(s, own) \/ FinishExecution(s, own)
               \/ AnswerInvocation(s, own)
        PROVE  sends' = sends
    BY <2>1 DEF IssueOffer, ClaimAuthorization, VerifyAnswered, Consult, SettleUnknown,
       SettleFailed, SettleConfirmed, SettleUnwritten, StartExecution, FinishExecution,
       AnswerInvocation, worldVars, settleVars
  <2>2. ASSUME NEW s \in Servers, NEW own \in Keys,
               \/ AskSettlement(s, own) \/ ResolveSettled(s, own) \/ ResolveUnknown(s, own)
               \/ StartRefund(s, own) \/ AskRefund(s, own) \/ ConfirmRefund(s, own)
               \/ RefundUnknown(s, own) \/ AnswerRefund(s, own)
        PROVE  sends' = sends
    BY <2>2 DEF AskSettlement, ResolveSettled, ResolveUnknown, StartRefund, AskRefund,
       ConfirmRefund, RefundUnknown, AnswerRefund, worldVars, settleVars
  <2>3. ASSUME \/ \E b \in Auths : BuyerSigns(b) \/ Transfer(b)
               \/ \E own \in Keys : RefundTransfer(own)
               \/ Tick
               \/ \E s \in Servers : Crash(s)
               \/ UNCHANGED vars
        PROVE  sends' = sends
    BY <2>3 DEF BuyerSigns, Transfer, RefundTransfer, Tick, Crash, vars, worldVars, settleVars
  <2> QED BY <2>1, <2>2, <2>3 DEF Next
<1> DEFINE p == paid[s][own]
<1>2. PICK end \in claimExternalPaymentSigned(own, p.auth) :
         /\ sends' = [sends EXCEPT ![p.auth] = @ + 1]
         /\ ~end.threw
         /\ Decision(end.rec, journal[own].ref = NoAuth) = "signed"
  BY <1>1 DEF ClaimSigned
<1>3. p.auth \in Auths /\ Sound(journal[own])
  BY <1>1, InFlight DEF ClaimSigned, Inv, Records
<1>4. a = p.auth
  BY <1>2
<1>5. \/ end.rec = journal[own] /\ journal[own].ref = a
      \/ ~RefTaken(own, a) /\ journal[own].ref = NoAuth
  BY <1>2, <1>3, <1>4, ClaimedEnds
<1>6. k = own /\ end.rec = journal[k] /\ journal[k].ref # NoAuth
  BY <1>3, <1>4, <1>5, JournalAssumption DEF Inv, Records, RefTaken
<1> QED
  BY <1>2, <1>6 DEF Decision

\* AmbiguityNeverResettles: no settle request follows one whose outcome is open.
THEOREM AmbiguityIsNotResettled == Spec => AmbiguityNeverResettles
<1>1. Inv /\ [Next]_vars =>
         [\A a \in Auths, k \in Keys :
             sends[a] > 0 /\ sends'[a] # sends[a] /\ journal[k].ref = a
                => journal[k].payment \notin {"signed", "unresolved"}]_vars
  BY SendsOnlyWhenDecided
<1> QED BY CollarInvariant, <1>1, PTL DEF Spec, AmbiguityNeverResettles

-----------------------------------------------------------------------------
(***************************************************************************)
(* The paywall's maps.  A key that is not active becomes so only by the    *)
(* admission of IssueOffer or ClaimAuthorization, which counts the active  *)
(* keys first; every later step of a request is one of a key that its      *)
(* admission, held to the end, already counts.  The keys need not be       *)
(* finite: a server's active ones are, from the empty set on.              *)
(***************************************************************************)
ClaimStates == {"none", "processing", "unresolved", "executing", "consumed"}

AnyClaim == [key : Keys \cup {NoKey}, authoritative : BOOLEAN, state : ClaimStates]

\* The variables the records do not speak of.
Memory ==
    /\ claims \in [Servers -> [Auths -> AnyClaim]]
    /\ stuck \in [Servers -> SUBSET Keys]
    /\ signedFor \in [Auths -> Nat]
    /\ sends \in [Auths -> Nat] /\ submitted \in [Auths -> Nat]
    /\ mishaps \in Nat

Bounded(s) ==
    IsFiniteSet(ActiveKeys(s)) /\ Cardinality(ActiveKeys(s)) <= MaxPendingOffers

\* No claim goes to another key.
ClaimsKept ==
    /\ claims' \in [Servers -> [Auths -> AnyClaim]]
    /\ \A t \in Servers, a \in Auths : claims'[t][a].key \in {claims[t][a].key, NoKey}

\* The maps of other servers and of other keys stay as they are.
StuckKept(s, k) ==
    /\ stuck' \in [Servers -> SUBSET Keys]
    /\ \A t \in Servers, x \in Keys :
          x \in stuck'[t] => x \in stuck[t] \/ (t = s /\ x = k)

OffersKept(s, k) ==
    \A t \in Servers, x \in Keys : t # s \/ x # k => offers'[t][x] = offers[t][x]

PaidKept(s, k) ==
    \A t \in Servers, x \in Keys : t # s \/ x # k => paid'[t][x] = paid[t][x]

\* One claim is replaced.
LEMMA ClaimReplaced ==
    ASSUME NEW f \in [Servers -> [Auths -> AnyClaim]], NEW s \in Servers, NEW a \in Auths,
           NEW c \in AnyClaim, NEW g, g = [f EXCEPT ![s][a] = c]
    PROVE  /\ g \in [Servers -> [Auths -> AnyClaim]]
           /\ g[s][a] = c
           /\ \A t \in Servers, b \in Auths : t # s \/ b # a => g[t][b] = f[t][b]
  OBVIOUS

\* The ways the handlers write the claim of their authorization.
LEMMA ClaimWrites ==
    ASSUME Memory, NEW s \in Servers, NEW a \in Auths
    PROVE  /\ claims' = claims => ClaimsKept
           /\ SetClaim(s, a, NoClaim) => ClaimsKept
           /\ \A state \in ClaimStates :
                 ClaimBecomes(s, a, state) \/ DecidedClaimBecomes(s, a, state) => ClaimsKept
           /\ claims' = [claims EXCEPT ![s][a].authoritative = TRUE] => ClaimsKept
<1>1. claims' = claims => ClaimsKept
  BY DEF Memory, ClaimsKept
<1>2. SetClaim(s, a, NoClaim) => ClaimsKept
  BY DEF Memory, ClaimsKept, SetClaim, NoClaim, AnyClaim, ClaimStates
<1> DEFINE Typed(f) == f \in [Servers -> [Auths -> AnyClaim]]
           Kept(f, g) == \A t \in Servers, b \in Auths : g[t][b].key = f[t][b].key
<1>6. ASSUME NEW f, Typed(f), NEW state \in ClaimStates
      PROVE  Typed([f EXCEPT ![s][a].state = state])
             /\ Kept(f, [f EXCEPT ![s][a].state = state])
  <2> DEFINE c == [f[s][a] EXCEPT !.state = state]
             g == [f EXCEPT ![s][a].state = state]
  <2>1. f[s][a] \in AnyClaim
    BY <1>6
  <2>2. c \in AnyClaim /\ c.key = f[s][a].key
    BY <2>1 DEF AnyClaim
  <2>3. g = [f EXCEPT ![s][a] = c]
    OBVIOUS
  <2> HIDE DEF c, g
  <2>4. /\ Typed(g) /\ g[s][a] = c
        /\ \A t \in Servers, b \in Auths : t # s \/ b # a => g[t][b] = f[t][b]
    BY <1>6, <2>2, <2>3, ClaimReplaced
  <2>5. Typed(g) /\ Kept(f, g)
    BY <2>2, <2>4
  <2> QED BY <2>5 DEF g
<1>7. ASSUME NEW f, Typed(f)
      PROVE  Typed([f EXCEPT ![s][a].authoritative = TRUE])
             /\ Kept(f, [f EXCEPT ![s][a].authoritative = TRUE])
  <2> DEFINE c == [f[s][a] EXCEPT !.authoritative = TRUE]
             g == [f EXCEPT ![s][a].authoritative = TRUE]
  <2>1. f[s][a] \in AnyClaim
    BY <1>7
  <2>2. c \in AnyClaim /\ c.key = f[s][a].key
    BY <2>1 DEF AnyClaim
  <2>3. g = [f EXCEPT ![s][a] = c]
    OBVIOUS
  <2> HIDE DEF c, g
  <2>4. /\ Typed(g) /\ g[s][a] = c
        /\ \A t \in Servers, b \in Auths : t # s \/ b # a => g[t][b] = f[t][b]
    BY <1>7, <2>2, <2>3, ClaimReplaced
  <2>5. Typed(g) /\ Kept(f, g)
    BY <2>2, <2>4
  <2> QED BY <2>5 DEF g
<1>8. Typed(claims) /\ (Typed(claims') /\ Kept(claims, claims') => ClaimsKept)
  BY DEF Memory, ClaimsKept
<1> HIDE DEF Typed, Kept
<1>3. ASSUME NEW state \in ClaimStates, ClaimBecomes(s, a, state)
      PROVE  ClaimsKept
  BY <1>3, <1>6, <1>8 DEF ClaimBecomes
<1>4. ASSUME NEW state \in ClaimStates, DecidedClaimBecomes(s, a, state)
      PROVE  ClaimsKept
  <2> DEFINE f == [claims EXCEPT ![s][a].state = state]
             g == [f EXCEPT ![s][a].authoritative = TRUE]
  <2>1. Typed(f) /\ Kept(claims, f)
    BY <1>6, <1>8
  <2>2. claims' = g
    BY <1>4 DEF DecidedClaimBecomes
  <2> HIDE DEF f
  <2>3. Typed(g) /\ Kept(f, g)
    BY <1>7, <2>1
  <2> HIDE DEF g
  <2>4. Kept(claims, g)
    BY <2>1, <2>3 DEF Kept
  <2> QED BY <1>8, <2>2, <2>3, <2>4
<1>5. claims' = [claims EXCEPT ![s][a].authoritative = TRUE] => ClaimsKept
  BY <1>7, <1>8
<1> QED
  BY <1>1, <1>2, <1>3, <1>4, <1>5

\* The ways they write the other maps.
LEMMA MapWrites ==
    ASSUME Inv, Memory, NEW s \in Servers, NEW k \in Keys
    PROVE  /\ stuck' = stuck \/ Unstick(s, k) => StuckKept(s, k)
           /\ stuck' = [stuck EXCEPT ![s] = @ \cup {k}] => StuckKept(s, k)
           /\ offers' = offers \/ DropOffer(s, k) => OffersKept(s, k)
           /\ offers' = [offers EXCEPT ![s][k].verified = paid[s][k].auth] => OffersKept(s, k)
           /\ paid' = paid => PaidKept(s, k)
           /\ \A p : SetPaid(s, k, p) => PaidKept(s, k)
<1>1. stuck' = stuck \/ Unstick(s, k) => StuckKept(s, k)
  BY DEF Memory, StuckKept, Unstick
<1>2. stuck' = [stuck EXCEPT ![s] = @ \cup {k}] => StuckKept(s, k)
  BY DEF Memory, StuckKept
<1>3. offers' = offers \/ DropOffer(s, k) => OffersKept(s, k)
  BY DEF Inv, OffersTyped, OffersKept, DropOffer
<1>4. offers' = [offers EXCEPT ![s][k].verified = paid[s][k].auth] => OffersKept(s, k)
  BY DEF Inv, OffersTyped, OffersKept
<1>5. paid' = paid => PaidKept(s, k)
  BY DEF PaidKept
<1>6. ASSUME NEW p, SetPaid(s, k, p)
      PROVE  PaidKept(s, k)
  BY <1>6 DEF Inv, Requests, PaidKept, SetPaid
<1> QED
  BY <1>1, <1>2, <1>3, <1>4, <1>5, <1>6

\* A set of active keys that grows by none is as bounded as it was.
LEMMA FewerActive ==
    ASSUME NEW s \in Servers, Bounded(s), ActiveKeys(s)' \subseteq ActiveKeys(s)
    PROVE  Bounded(s)'
<1> DEFINE old == ActiveKeys(s)
           new == ActiveKeys(s)'
<1>1. IsFiniteSet(old) /\ Cardinality(old) <= MaxPendingOffers /\ new \subseteq old
  BY DEF Bounded
<1> HIDE DEF old, new
<1>2. IsFiniteSet(new) /\ Cardinality(new) <= Cardinality(old)
  BY <1>1, FS_Subset
<1>3. Cardinality(new) \in Nat /\ Cardinality(old) \in Nat
  BY <1>1, <1>2, FS_CardinalityType
<1>4. Cardinality(new) <= MaxPendingOffers
  BY <1>1, <1>2, <1>3, CollarAssumption
<1> QED
  BY <1>2, <1>4 DEF Bounded, new

\* A step of one key of one server that leaves the others alone adds no active key
\* but that one.
LEMMA OthersActive ==
    ASSUME NEW s \in Servers, NEW k \in Keys,
           ClaimsKept, StuckKept(s, k), OffersKept(s, k), PaidKept(s, k)
    PROVE  \A t \in Servers :
              /\ ActiveKeys(t)' \subseteq ActiveKeys(t) \cup {k}
              /\ t # s => ActiveKeys(t)' \subseteq ActiveKeys(t)
<1> SUFFICES ASSUME NEW t \in Servers, NEW x \in ActiveKeys(t)', t # s \/ x # k
             PROVE  x \in ActiveKeys(t)
  OBVIOUS
<1>1. x \in Keys /\ (Tracked(t, x)' \/ Admitted(t, x)')
  BY DEF ActiveKeys
<1>2. Admitted(t, x)' => Admitted(t, x)
  BY <1>1 DEF Admitted, PaidKept
<1>3. Pending(t, x)' => Pending(t, x)
  BY <1>1 DEF Pending, OffersKept
<1>4. ClaimOf(t, x)' # {} => ClaimOf(t, x) # {}
  <2> SUFFICES ASSUME NEW a \in Auths, claims'[t][a].key = x
               PROVE  claims[t][a].key = x
    BY DEF ClaimOf
  <2> QED BY <1>1, CollarAssumption DEF ClaimsKept
<1>5. x \in stuck'[t] => x \in stuck[t]
  BY <1>1 DEF StuckKept
<1> QED
  BY <1>1, <1>2, <1>3, <1>4, <1>5 DEF Tracked, ActiveKeys

\* A step of a request that is admitted keeps every server within its cap.
LEMMA AdmittedStep ==
    ASSUME NEW s \in Servers, NEW k \in Keys, Admitted(s, k), \A t \in Servers : Bounded(t),
           ClaimsKept, StuckKept(s, k), OffersKept(s, k), PaidKept(s, k)
    PROVE  \A t \in Servers : Bounded(t)'
<1>1. k \in ActiveKeys(s)
  BY DEF ActiveKeys
<1>2. \A t \in Servers : ActiveKeys(t)' \subseteq ActiveKeys(t)
  BY <1>1, OthersActive
<1> QED
  BY <1>2, FewerActive

\* An admission, which found room or a key that is tracked already.
LEMMA AdmissionStep ==
    ASSUME NEW s \in Servers, NEW k \in Keys, CanAdmit(s, k), \A t \in Servers : Bounded(t),
           \A t \in Servers : /\ ActiveKeys(t)' \subseteq ActiveKeys(t) \cup {k}
                              /\ t # s => ActiveKeys(t)' \subseteq ActiveKeys(t)
    PROVE  \A t \in Servers : Bounded(t)'
<1>1. ASSUME NEW t \in Servers, ActiveKeys(t)' \subseteq ActiveKeys(t)
      PROVE  Bounded(t)'
  BY <1>1, FewerActive
<1>2. CASE Tracked(s, k)
  <2>1. k \in ActiveKeys(s)
    BY <1>2 DEF ActiveKeys
  <2> QED BY <1>1, <2>1
<1>3. CASE Cardinality(ActiveKeys(s)) < MaxPendingOffers
  <2>1. CASE k \in ActiveKeys(s)
    BY <1>1, <2>1
  <2>2. CASE k \notin ActiveKeys(s)
    <3> DEFINE old == ActiveKeys(s)
               new == ActiveKeys(s)'
    <3>1. /\ IsFiniteSet(old) /\ Cardinality(old) < MaxPendingOffers
          /\ k \notin old /\ new \subseteq old \cup {k}
      BY <1>3, <2>2 DEF Bounded
    <3> HIDE DEF old, new
    <3>2. IsFiniteSet(old \cup {k}) /\ Cardinality(old \cup {k}) = Cardinality(old) + 1
      BY <3>1, FS_AddElement
    <3>3. IsFiniteSet(new) /\ Cardinality(new) <= Cardinality(old \cup {k})
      BY <3>1, <3>2, FS_Subset
    <3>4. Cardinality(new) \in Nat /\ Cardinality(old) \in Nat
      BY <3>1, <3>3, FS_CardinalityType
    <3>5. Cardinality(new) <= MaxPendingOffers
      BY <3>1, <3>2, <3>3, <3>4, CollarAssumption
    <3>6. Bounded(s)'
      BY <3>3, <3>5 DEF Bounded, new
    <3> QED BY <1>1, <3>6
  <2> QED BY <2>1, <2>2
<1> QED
  BY <1>2, <1>3 DEF CanAdmit

\* A handler of an admitted request keeps the maps within their types and the claims
\* with their keys.
Handled(s, k) ==
    /\ Admitted(s, k)
    /\ ClaimsKept /\ StuckKept(s, k) /\ OffersKept(s, k) /\ PaidKept(s, k)
    /\ mishaps' \in Nat
    /\ signedFor' = signedFor

LEMMA MishapsCount ==
    ASSUME Memory
    PROVE  /\ \A k, end : Leaves(k, end) => mishaps' \in Nat
           /\ mishaps' = mishaps => mishaps' \in Nat
  BY DEF Memory, Leaves

LEMMA VerifyHandled ==
    ASSUME Inv, Memory, NEW s \in Servers, NEW k \in Keys, VerifyAnswered(s, k)
    PROVE  Handled(s, k) /\ UNCHANGED <<sends, submitted>>
<1> DEFINE a == paid[s][k].auth
<1>1. Admitted(s, k) /\ a \in Auths
  BY InFlight DEF VerifyAnswered, Admitted
<1>2. /\ UNCHANGED <<mishaps, stuck, signedFor, sends, submitted>>
      /\ claims' = claims \/ SetClaim(s, a, NoClaim) \/ ClaimBecomes(s, a, "unresolved")
      /\ offers' = offers \/ offers' = [offers EXCEPT ![s][k].verified = a]
      /\ \E p : SetPaid(s, k, p)
  BY DEF VerifyAnswered, journalVars, timeVars, worldVars, settleVars, EndPaid
<1> HIDE DEF a
<1>3. ClaimsKept
  BY <1>1, <1>2, ClaimWrites DEF ClaimStates
<1>4. StuckKept(s, k) /\ OffersKept(s, k) /\ PaidKept(s, k)
  BY <1>2, MapWrites DEF a
<1> QED
  BY <1>1, <1>2, <1>3, <1>4, MishapsCount DEF Handled

LEMMA ConsultHandled ==
    ASSUME Inv, Memory, NEW s \in Servers, NEW k \in Keys, Consult(s, k)
    PROVE  Handled(s, k) /\ UNCHANGED <<sends, submitted>>
<1> DEFINE p == paid[s][k]
           a == p.auth
<1>1. Admitted(s, k) /\ a \in Auths
  BY InFlight DEF Consult, Admitted
<1>2. UNCHANGED <<signedFor, sends, submitted>>
  BY DEF Consult, timeVars, worldVars, settleVars
<1>3. PICK end \in PersistVerifiedOffer(k, p.offer, a) :
          \/ /\ Leaves(k, end) /\ EndPaid(s, k)
             /\ ClaimBecomes(s, a, "unresolved") /\ UNCHANGED <<offers, stuck>>
          \/ ReplayTerminal(s, k, p, end.rec)
          \/ HoldExecuting(s, k, p, end.rec)
          \/ ResumeSettled(s, k, p, end.rec)
          \/ /\ Leaves(k, end)
             /\ SetPaid(s, k, [p EXCEPT !.pc = "signing"])
             /\ UNCHANGED memoryVars
  BY DEF Consult
<1>4. /\ \/ claims' = claims
         \/ \E state \in ClaimStates :
               ClaimBecomes(s, a, state) \/ DecidedClaimBecomes(s, a, state)
      /\ stuck' = stuck \/ Unstick(s, k)
      /\ offers' = offers \/ DropOffer(s, k)
      /\ \E q : SetPaid(s, k, q)
      /\ mishaps' = mishaps \/ \E at : Leaves(k, at)
  <2>1. CASE /\ Leaves(k, end) /\ EndPaid(s, k)
             /\ ClaimBecomes(s, a, "unresolved") /\ UNCHANGED <<offers, stuck>>
    BY <2>1 DEF EndPaid, ClaimStates
  <2>2. CASE ReplayTerminal(s, k, p, end.rec)
    <3>1. /\ \/ ClaimBecomes(s, a, "unresolved") /\ UNCHANGED <<offers, stuck>>
             \/ DecidedClaimBecomes(s, a, "consumed") /\ Released(s, k)
          /\ \E at : Leaves(k, at)
          /\ EndPaid(s, k)
      BY <2>2 DEF ReplayTerminal
    <3> QED BY <3>1 DEF EndPaid, ClaimStates, Released
  <2>3. CASE HoldExecuting(s, k, p, end.rec)
    BY <2>3 DEF HoldExecuting, EndPaid, ClaimStates, journalVars
  <2>4. CASE ResumeSettled(s, k, p, end.rec)
    BY <2>4 DEF ResumeSettled, Released, ClaimStates, journalVars
  <2>5. CASE /\ Leaves(k, end)
             /\ SetPaid(s, k, [p EXCEPT !.pc = "signing"])
             /\ UNCHANGED memoryVars
    BY <2>5 DEF memoryVars
  <2> QED BY <1>3, <2>1, <2>2, <2>3, <2>4, <2>5
<1> HIDE DEF a, p
<1>5. ClaimsKept
  BY <1>1, <1>4, ClaimWrites
<1>6. StuckKept(s, k) /\ OffersKept(s, k) /\ PaidKept(s, k)
  BY <1>4, MapWrites
<1> QED
  BY <1>1, <1>2, <1>4, <1>5, <1>6, MishapsCount DEF Handled

LEMMA ClaimSignedHandled ==
    ASSUME Inv, Memory, NEW s \in Servers, NEW k \in Keys, ClaimSigned(s, k)
    PROVE  Handled(s, k) /\ sends' \in [Auths -> Nat] /\ submitted' \in [Auths -> Nat]
<1> DEFINE p == paid[s][k]
           a == p.auth
<1>1. Admitted(s, k) /\ a \in Auths
  BY InFlight DEF ClaimSigned, Admitted
<1>2. /\ signedFor' = signedFor
      /\ \/ UNCHANGED <<sends, submitted>>
         \/ /\ sends' = [sends EXCEPT ![a] = @ + 1]
            /\ submitted' = [submitted EXCEPT ![a] = @ + 1]
      /\ \/ \E state \in ClaimStates :
               ClaimBecomes(s, a, state) \/ DecidedClaimBecomes(s, a, state)
         \/ claims' = [claims EXCEPT ![s][a].authoritative = TRUE]
      /\ stuck' = stuck \/ Unstick(s, k)
      /\ offers' = offers \/ DropOffer(s, k)
      /\ \E q : SetPaid(s, k, q)
      /\ \E at : Leaves(k, at)
  BY DEF ClaimSigned, Released, EndPaid, ClaimStates, timeVars
<1> HIDE DEF a, p
<1>3. ClaimsKept
  BY <1>1, <1>2, ClaimWrites
<1>4. StuckKept(s, k) /\ OffersKept(s, k) /\ PaidKept(s, k)
  BY <1>2, MapWrites
<1>5. sends' \in [Auths -> Nat] /\ submitted' \in [Auths -> Nat]
  BY <1>2 DEF Memory
<1> QED
  BY <1>1, <1>2, <1>3, <1>4, <1>5, MishapsCount DEF Handled

LEMMA SettlementHandled ==
    ASSUME Inv, Memory, NEW s \in Servers, NEW k \in Keys,
           SettleUnknown(s, k) \/ SettleFailed(s, k) \/ SettleConfirmed(s, k)
              \/ SettleUnwritten(s, k)
    PROVE  Handled(s, k) /\ sends' = sends /\ submitted' \in [Auths -> Nat]
<1> DEFINE p == paid[s][k]
           a == p.auth
<1>1. Admitted(s, k) /\ a \in Auths
  BY InFlight DEF SettleUnknown, SettleFailed, SettleConfirmed, SettleUnwritten, Admitted
<1>2. /\ signedFor' = signedFor /\ sends' = sends
      /\ \/ submitted' = submitted
         \/ submitted' = [submitted EXCEPT ![a] = IF @ > 0 THEN @ - 1 ELSE 0]
      /\ \/ claims' = claims
         \/ SetClaim(s, a, NoClaim)
         \/ \E state \in ClaimStates :
               ClaimBecomes(s, a, state) \/ DecidedClaimBecomes(s, a, state)
      /\ stuck' = stuck \/ Unstick(s, k) \/ stuck' = [stuck EXCEPT ![s] = @ \cup {k}]
      /\ offers' = offers \/ DropOffer(s, k)
      /\ \E q : SetPaid(s, k, q)
      /\ \E at : Leaves(k, at)
  <2>1. CASE SettleUnknown(s, k)
    BY <2>1 DEF SettleUnknown, EndPaid, ClaimStates, timeVars, worldVars, settleVars
  <2>2. CASE SettleFailed(s, k)
    BY <2>2 DEF SettleFailed, Released, EndPaid, ClaimStates, timeVars
  <2>3. CASE SettleConfirmed(s, k)
    BY <2>3 DEF SettleConfirmed, ClaimStates, timeVars, worldVars, settleVars, memoryVars
  <2>4. CASE SettleUnwritten(s, k)
    BY <2>4 DEF SettleUnwritten, EndPaid, ClaimStates, timeVars, worldVars, settleVars
  <2> QED BY <2>1, <2>2, <2>3, <2>4
<1> HIDE DEF a, p
<1>3. ClaimsKept
  BY <1>1, <1>2, ClaimWrites
<1>4. StuckKept(s, k) /\ OffersKept(s, k) /\ PaidKept(s, k)
  BY <1>2, MapWrites
<1>5. submitted' \in [Auths -> Nat]
  BY <1>2 DEF Memory
<1> QED
  BY <1>1, <1>2, <1>3, <1>4, <1>5, MishapsCount DEF Handled

LEMMA InvocationHandled ==
    ASSUME Inv, Memory, NEW s \in Servers, NEW k \in Keys,
           StartExecution(s, k) \/ FinishExecution(s, k) \/ AnswerInvocation(s, k)
    PROVE  Handled(s, k) /\ UNCHANGED <<sends, submitted>>
<1> DEFINE p == paid[s][k]
           a == p.auth
<1>1. Admitted(s, k) /\ a \in Auths
  BY InFlight DEF StartExecution, FinishExecution, AnswerInvocation, Admitted
<1>2. /\ UNCHANGED <<signedFor, sends, submitted, stuck, offers>>
      /\ claims' = claims \/ ClaimBecomes(s, a, "consumed")
      /\ \E q : SetPaid(s, k, q)
      /\ \E at : Leaves(k, at)
  <2>1. CASE StartExecution(s, k)
    BY <2>1 DEF StartExecution, ConsumeAndEnd, EndPaid, timeVars, settleVars
  <2>2. CASE FinishExecution(s, k)
    BY <2>2 DEF FinishExecution, ConsumeAndEnd, EndPaid, timeVars, worldVars, settleVars
  <2>3. CASE AnswerInvocation(s, k)
    BY <2>3 DEF AnswerInvocation, ConsumeAndEnd, EndPaid, timeVars, settleVars
  <2> QED BY <2>1, <2>2, <2>3
<1> HIDE DEF a, p
<1>3. ClaimsKept
  BY <1>1, <1>2, ClaimWrites DEF ClaimStates
<1>4. StuckKept(s, k) /\ OffersKept(s, k) /\ PaidKept(s, k)
  BY <1>2, MapWrites
<1> QED
  BY <1>1, <1>2, <1>3, <1>4, MishapsCount DEF Handled

\* The types and the bounds together.
Maps == Memory /\ \A s \in Servers : Bounded(s)

\* What every step of a request in flight comes to.
LEMMA HandlersKeep ==
    ASSUME Inv, Maps, NEW s \in Servers, NEW k \in Keys, Handled(s, k),
           sends' \in [Auths -> Nat], submitted' \in [Auths -> Nat]
    PROVE  Maps'
<1>1. \A t \in Servers : Bounded(t)'
  BY AdmittedStep DEF Maps, Handled
<1>2. Memory'
  BY DEF Maps, Memory, Handled, ClaimsKept, StuckKept
<1> QED
  BY <1>1, <1>2 DEF Maps

LEMMA RequestMaps ==
    ASSUME Inv, Maps, NEW s \in Servers, NEW k \in Keys,
           \/ VerifyAnswered(s, k) \/ Consult(s, k) \/ ClaimSigned(s, k)
           \/ SettleUnknown(s, k) \/ SettleFailed(s, k) \/ SettleConfirmed(s, k)
           \/ SettleUnwritten(s, k)
           \/ StartExecution(s, k) \/ FinishExecution(s, k) \/ AnswerInvocation(s, k)
    PROVE  Maps'
<1>1. Memory /\ sends \in [Auths -> Nat] /\ submitted \in [Auths -> Nat]
  BY DEF Maps, Memory
<1>2. Handled(s, k) /\ sends' \in [Auths -> Nat] /\ submitted' \in [Auths -> Nat]
  BY <1>1, VerifyHandled, ConsultHandled, ClaimSignedHandled, SettlementHandled,
     InvocationHandled
<1> QED
  BY <1>2, HandlersKeep

\* The admission of an unpaid request.
LEMMA IssueOfferMaps ==
    ASSUME Inv, Maps, NEW s \in Servers, NEW k \in Keys, IssueOffer(s, k)
    PROVE  Maps'
<1>1. /\ UNCHANGED <<claims, stuck, paid, mishaps, signedFor, sends, submitted>>
      /\ CanAdmit(s, k)
      /\ offers' = [offers EXCEPT ![s][k] = [id |-> Len(issued) + 1, verified |-> NoAuth]]
  BY DEF IssueOffer, journalVars, requestVars, worldVars, settleVars
<1>2. ClaimsKept /\ StuckKept(s, k) /\ PaidKept(s, k)
  BY <1>1 DEF Maps, Memory, ClaimsKept, StuckKept, PaidKept
<1>3. OffersKept(s, k)
  BY <1>1 DEF Inv, OffersTyped, OffersKept
<1>4. \A t \in Servers : Bounded(t)'
  BY <1>1, <1>2, <1>3, OthersActive, AdmissionStep DEF Maps
<1> QED
  BY <1>1, <1>4 DEF Maps, Memory

\* The admission of a paid request: its claim is the one that may be new.
LEMMA ClaimAuthorizationMaps ==
    ASSUME Inv, Maps, NEW s \in Servers, NEW k \in Keys, NEW a \in Auths,
           ClaimAuthorization(s, k, a)
    PROVE  Maps'
<1>1. /\ UNCHANGED <<offers, stuck, mishaps, signedFor, sends, submitted>>
      /\ CanAdmit(s, k)
      /\ claims[s][a] = NoClaim \/ claims[s][a].key = k
      /\ IF claims[s][a] = NoClaim
         THEN SetClaim(s, a, [key |-> k, state |-> "processing", authoritative |-> FALSE])
         ELSE ClaimBecomes(s, a, "processing")
      /\ \E p : SetPaid(s, k, p)
  BY DEF ClaimAuthorization, journalVars, timeVars, worldVars, settleVars
<1>2. claims \in [Servers -> [Auths -> AnyClaim]]
  BY DEF Maps, Memory
<1>3. PICK c \in AnyClaim : c.key = k /\ claims' = [claims EXCEPT ![s][a] = c]
  <2>1. CASE claims[s][a] = NoClaim
    <3> DEFINE c == [key |-> k, state |-> "processing", authoritative |-> FALSE]
    <3>1. c \in AnyClaim /\ c.key = k
      BY DEF AnyClaim, ClaimStates
    <3> QED BY <1>1, <2>1, <3>1 DEF SetClaim
  <2>2. CASE claims[s][a] # NoClaim
    <3> DEFINE c == [claims[s][a] EXCEPT !.state = "processing"]
    <3>1. claims[s][a] \in AnyClaim /\ claims[s][a].key = k
      BY <1>1, <1>2, <2>2
    <3>2. c \in AnyClaim /\ c.key = k
      BY <3>1 DEF AnyClaim, ClaimStates
    <3>3. claims' = [claims EXCEPT ![s][a] = c]
      BY <1>1, <2>2 DEF ClaimBecomes
    <3> QED BY <3>2, <3>3
  <2> QED BY <2>1, <2>2
<1>4. /\ claims' \in [Servers -> [Auths -> AnyClaim]]
      /\ claims'[s][a] = c
      /\ \A t \in Servers, b \in Auths : t # s \/ b # a => claims'[t][b] = claims[t][b]
  BY <1>2, <1>3, ClaimReplaced
<1>5. PaidKept(s, k)
  BY <1>1, MapWrites DEF Maps
<1>6. ASSUME NEW t \in Servers, NEW x \in ActiveKeys(t)', t # s \/ x # k
      PROVE  x \in ActiveKeys(t)
  <2>1. x \in Keys /\ (Tracked(t, x)' \/ Admitted(t, x)')
    BY <1>6 DEF ActiveKeys
  <2>2. Admitted(t, x)' => Admitted(t, x)
    BY <1>5, <1>6, <2>1 DEF Admitted, PaidKept
  <2>3. /\ Pending(t, x)' => Pending(t, x)
        /\ x \in stuck'[t] => x \in stuck[t]
    BY <1>1 DEF Pending
  <2>4. ClaimOf(t, x)' # {} => ClaimOf(t, x) # {}
    <3> SUFFICES ASSUME NEW b \in Auths, claims'[t][b].key = x
                 PROVE  claims[t][b].key = x
      BY DEF ClaimOf
    <3>1. t # s \/ b # a
      BY <1>3, <1>4, <1>6
    <3> QED BY <1>4, <3>1
  <2> QED
    BY <2>1, <2>2, <2>3, <2>4 DEF Tracked, ActiveKeys
<1>7. \A t \in Servers : Bounded(t)'
  BY <1>1, <1>6, AdmissionStep DEF Maps
<1> QED
  BY <1>1, <1>4, <1>7 DEF Maps, Memory

\* A step that adds to no server's maps.
LEMMA IdleStep ==
    ASSUME Inv, Maps, UNCHANGED <<claims, stuck, offers, paid>>,
           signedFor' \in [Auths -> Nat], sends' \in [Auths -> Nat],
           submitted' \in [Auths -> Nat], mishaps' \in Nat
    PROVE  Maps'
<1>1. Memory'
  BY DEF Maps, Memory
<1>2. ASSUME NEW t \in Servers PROVE Bounded(t)'
  <2>1. ActiveKeys(t)' = ActiveKeys(t)
    BY DEF ActiveKeys, Tracked, Admitted, Pending, ClaimOf
  <2> QED BY <2>1, FewerActive DEF Maps
<1> QED
  BY <1>1, <1>2 DEF Maps

\* The operator, the buyer and the chain do not touch the maps.
LEMMA OutsideMaps ==
    ASSUME Inv, Maps,
           \/ \E s \in Servers, k \in Keys :
                 \/ AskSettlement(s, k) \/ ResolveSettled(s, k) \/ ResolveUnknown(s, k)
                 \/ StartRefund(s, k) \/ AskRefund(s, k) \/ ConfirmRefund(s, k)
                 \/ RefundUnknown(s, k) \/ AnswerRefund(s, k)
           \/ \E a \in Auths : BuyerSigns(a) \/ Transfer(a)
           \/ \E k \in Keys : RefundTransfer(k)
           \/ UNCHANGED vars
    PROVE  Maps'
<1> USE DEF journalVars, memoryVars, requestVars, timeVars, worldVars, settleVars
<1>1. /\ signedFor \in [Auths -> Nat] /\ sends \in [Auths -> Nat]
      /\ submitted \in [Auths -> Nat] /\ mishaps \in Nat /\ Memory
  BY DEF Maps, Memory
<1>2. ASSUME NEW s \in Servers, NEW k \in Keys,
             \/ AskSettlement(s, k) \/ ResolveSettled(s, k) \/ ResolveUnknown(s, k)
             \/ AskRefund(s, k) \/ ConfirmRefund(s, k)
             \/ RefundUnknown(s, k) \/ AnswerRefund(s, k)
      PROVE  Maps'
  <2>1. /\ UNCHANGED <<claims, stuck, offers, paid, signedFor, sends, submitted>>
        /\ mishaps' = mishaps \/ \E end : Leaves(k, end)
    BY <1>2 DEF AskSettlement, ResolveSettled, ResolveUnknown, AskRefund,
                ConfirmRefund, RefundUnknown, AnswerRefund
  <2> QED BY <1>1, <2>1, MishapsCount, IdleStep
<1>3. ASSUME NEW s \in Servers, NEW k \in Keys, StartRefund(s, k)
      PROVE  Maps'
  <2>1. /\ UNCHANGED <<claims, stuck, offers, paid, signedFor, sends, submitted>>
        /\ \E end : Leaves(k, end)
    BY <1>3 DEF StartRefund
  <2> QED BY <1>1, <2>1, MishapsCount, IdleStep
<1>4. ASSUME NEW a \in Auths, BuyerSigns(a)
      PROVE  Maps'
  <2>1. /\ UNCHANGED <<claims, stuck, offers, paid, sends, submitted, mishaps>>
        /\ signedFor' = [signedFor EXCEPT ![a] = clock]
    BY <1>4 DEF BuyerSigns
  <2>2. signedFor' \in [Auths -> Nat]
    BY <1>1, <2>1 DEF Inv
  <2> QED BY <1>1, <2>1, <2>2, IdleStep
<1>5. ASSUME NEW a \in Auths, Transfer(a)
      PROVE  Maps'
  <2>1. /\ UNCHANGED <<claims, stuck, offers, paid, signedFor, sends, mishaps>>
        /\ submitted' \in [Auths -> Nat]
    BY <1>1, <1>5 DEF Transfer
  <2> QED BY <1>1, <2>1, IdleStep
<1>6. ASSUME NEW k \in Keys, RefundTransfer(k)
      PROVE  Maps'
  <2>1. UNCHANGED <<claims, stuck, offers, paid, signedFor, sends, submitted, mishaps>>
    BY <1>6 DEF RefundTransfer
  <2> QED BY <1>1, <2>1, IdleStep
<1>7. CASE UNCHANGED vars
  <2>1. UNCHANGED <<claims, stuck, offers, paid, signedFor, sends, submitted, mishaps>>
    BY <1>7 DEF vars
  <2> QED BY <1>1, <2>1, IdleStep
<1> QED
  BY <1>2, <1>3, <1>4, <1>5, <1>6, <1>7

\* Nothing is added to any server's maps.
MapsShrink ==
    /\ claims' \in [Servers -> [Auths -> AnyClaim]]
    /\ stuck' \in [Servers -> SUBSET Keys]
    /\ \A t \in Servers, b \in Auths : claims'[t][b] \in {claims[t][b], NoClaim}
    /\ \A t \in Servers : stuck'[t] \subseteq stuck[t]
    /\ \A t \in Servers, x \in Keys : /\ offers'[t][x] \in {offers[t][x], NoOffer}
                                      /\ paid'[t][x] \in {paid[t][x], Idle}

\* What expires is dropped, and a server that dies forgets everything.
LEMMA ForgettingMaps ==
    ASSUME Inv, Maps, Tick \/ \E s \in Servers : Crash(s)
    PROVE  Maps'
<1>1. NoClaim \in AnyClaim /\ NoClaim.key = NoKey /\ NoOffer.id = 0 /\ Idle.pc = "idle"
  BY DEF NoClaim, AnyClaim, ClaimStates, NoOffer, Idle
<1>2. /\ UNCHANGED <<signedFor, sends, submitted>>
      /\ mishaps' \in Nat
  BY DEF Maps, Memory, Tick, Crash, journalVars, worldVars, settleVars
<1>3. MapsShrink
  <2> HIDE DEF NoClaim, NoOffer, Idle
  <2> USE <1>1 DEF Maps, Memory, MapsShrink
  <2>1. CASE Tick
    <3>1. /\ stuck' = stuck /\ paid' = paid
          /\ claims' = [t \in Servers |-> [b \in Auths |->
                IF claims[t][b].state = "consumed" THEN NoClaim ELSE claims[t][b]]]
          /\ \A t \in Servers, x \in Keys : offers'[t][x] \in {offers[t][x], NoOffer}
      BY <2>1 DEF Tick, requestVars
    <3>2. claims' \in [Servers -> [Auths -> AnyClaim]]
      BY <3>1
    <3>3. \A t \in Servers, b \in Auths : claims'[t][b] \in {claims[t][b], NoClaim}
      BY <3>1
    <3> QED BY <3>1, <3>2, <3>3
  <2>2. ASSUME NEW s \in Servers, Crash(s)
        PROVE  MapsShrink
    <3>1. /\ claims' = [claims EXCEPT ![s] = [b \in Auths |-> NoClaim]]
          /\ stuck' = [stuck EXCEPT ![s] = {}]
          /\ offers' = [offers EXCEPT ![s] = [x \in Keys |-> NoOffer]]
          /\ paid' = [paid EXCEPT ![s] = [x \in Keys |-> Idle]]
      BY <2>2 DEF Crash
    <3>2. /\ claims' \in [Servers -> [Auths -> AnyClaim]]
          /\ \A t \in Servers, b \in Auths : claims'[t][b] \in {claims[t][b], NoClaim}
      BY <3>1
    <3>3. stuck' \in [Servers -> SUBSET Keys] /\ \A t \in Servers : stuck'[t] \subseteq stuck[t]
      BY <3>1
    <3>4. \A t \in Servers, x \in Keys : /\ offers'[t][x] \in {offers[t][x], NoOffer}
                                         /\ paid'[t][x] \in {paid[t][x], Idle}
      BY <3>1 DEF Inv, OffersTyped, Requests
    <3> QED BY <3>2, <3>3, <3>4
  <2> QED BY <2>1, <2>2
<1>4. ASSUME NEW t \in Servers PROVE Bounded(t)'
  <2>1. ASSUME NEW x \in Keys, Tracked(t, x)' \/ Admitted(t, x)'
        PROVE  Tracked(t, x) \/ Admitted(t, x)
    <3>1. Admitted(t, x)' => Admitted(t, x)
      BY <1>1, <1>3 DEF MapsShrink, Admitted
    <3>2. Pending(t, x)' => Pending(t, x)
      BY <1>1, <1>3 DEF MapsShrink, Pending
    <3>3. ClaimOf(t, x)' # {} => ClaimOf(t, x) # {}
      BY <1>1, <1>3, CollarAssumption DEF MapsShrink, ClaimOf
    <3>4. x \in stuck'[t] => x \in stuck[t]
      BY <1>3 DEF MapsShrink
    <3> QED BY <2>1, <3>1, <3>2, <3>3, <3>4 DEF Tracked
  <2>2. ActiveKeys(t)' \subseteq ActiveKeys(t)
    BY <2>1 DEF ActiveKeys
  <2> QED BY <2>2, FewerActive DEF Maps
<1> QED
  BY <1>2, <1>3, <1>4 DEF MapsShrink, Maps, Memory

LEMMA InitMaps == Init => Maps
<1> SUFFICES ASSUME Init PROVE Maps
  OBVIOUS
<1>1. Memory
  <2>1. NoClaim \in AnyClaim
    BY DEF NoClaim, AnyClaim, ClaimStates
  <2> HIDE DEF NoClaim
  <2> QED BY <2>1 DEF Init, JournalInit, Memory
<1>2. ASSUME NEW s \in Servers PROVE Bounded(s)
  <2>1. ASSUME NEW k \in Keys PROVE ~Tracked(s, k) /\ ~Admitted(s, k)
    BY CollarAssumption
       DEF Init, Tracked, Admitted, Pending, ClaimOf, NoOffer, NoClaim, Idle
  <2>2. ActiveKeys(s) = {}
    BY <2>1 DEF ActiveKeys
  <2> QED BY <2>2, FS_EmptySet, CollarAssumption DEF Bounded
<1> QED
  BY <1>1, <1>2 DEF Maps

LEMMA NextMaps == Inv /\ Maps /\ [Next]_vars => Maps'
<1> SUFFICES ASSUME Inv, Maps, [Next]_vars PROVE Maps'
  OBVIOUS
<1>1. CASE \E s \in Servers, k \in Keys :
              \/ VerifyAnswered(s, k) \/ Consult(s, k) \/ ClaimSigned(s, k)
              \/ SettleUnknown(s, k) \/ SettleFailed(s, k) \/ SettleConfirmed(s, k)
              \/ SettleUnwritten(s, k)
              \/ StartExecution(s, k) \/ FinishExecution(s, k) \/ AnswerInvocation(s, k)
  BY <1>1, RequestMaps
<1>2. CASE \E s \in Servers, k \in Keys :
              IssueOffer(s, k) \/ \E a \in Auths : ClaimAuthorization(s, k, a)
  BY <1>2, IssueOfferMaps, ClaimAuthorizationMaps
<1>3. CASE \/ \E s \in Servers, k \in Keys :
                 \/ AskSettlement(s, k) \/ ResolveSettled(s, k) \/ ResolveUnknown(s, k)
                 \/ StartRefund(s, k) \/ AskRefund(s, k) \/ ConfirmRefund(s, k)
                 \/ RefundUnknown(s, k) \/ AnswerRefund(s, k)
           \/ \E a \in Auths : BuyerSigns(a) \/ Transfer(a)
           \/ \E k \in Keys : RefundTransfer(k)
           \/ UNCHANGED vars
  BY <1>3, OutsideMaps
<1>4. CASE Tick \/ \E s \in Servers : Crash(s)
  BY <1>4, ForgettingMaps
<1> QED
  BY <1>1, <1>2, <1>3, <1>4 DEF Next

-----------------------------------------------------------------------------
\* The paywall's maps and their bounds, with the invariant of the records.
THEOREM MapsInvariant == Spec => [](Inv /\ Maps)
<1>1. Inv /\ Maps /\ [Next]_vars => (Inv /\ Maps)'
  BY NextInv, NextMaps
<1>2. Init => Inv /\ Maps
  BY InitInv, InitMaps
<1> QED
  BY <1>1, <1>2, PTL DEF Spec

\* AdmissionBounded: however many requests overlap, are held, expire or die, no server
\* tracks more keys than maxPendingOffers, which only an admission checks.
THEOREM AdmissionIsBounded == Spec => []AdmissionBounded
<1>1. Inv /\ Maps => AdmissionBounded
  BY DEF Maps, Bounded, AdmissionBounded
<1> QED
  BY MapsInvariant, <1>1, PTL

\* TypeOK: every variable of the seller, its journal and the world stays in its type.
THEOREM CollarTypes == Spec => []TypeOK
<1>1. Inv /\ Maps => TypeOK
  <2> SUFFICES ASSUME Inv, Maps PROVE TypeOK
    OBVIOUS
  <2>1. AnyRecord \subseteq Record
    <3>1. ReceiptRevisions \subseteq Seq({"settled", "refunded"})
      BY DEF ReceiptRevisions
    <3> QED BY <3>1 DEF AnyRecord, Record
  <2>2. journal \in [Keys -> Record]
    BY <2>1 DEF Inv, Records
  <2>3. /\ OffersTyped /\ chain \in [Auths -> BOOLEAN] /\ issued \in Seq(Nat)
        /\ clock \in Nat /\ EffectsInv /\ Requests /\ Memory
    BY DEF Inv, Maps
  <2> QED
    BY <2>2, <2>3
       DEF OffersTyped, EffectsInv, Requests, Memory, AnyClaim, ClaimStates, TypeOK
<1> QED
  BY MapsInvariant, <1>1, PTL

=============================================================================
