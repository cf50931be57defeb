------------------------ MODULE CollarPromise_proofs ------------------------
(***************************************************************************)
(* The Collar keeps the promise of PaidInvocation for every instance: each *)
(* step shows the buyer nothing, or is one step of one Invocation's life.  *)
(* Most steps only write the journal or a server's memory; six reach the   *)
(* money or the work, and for those Inv says where in its life the         *)
(* Invocation is.                                                          *)
(***************************************************************************)
EXTENDS Collar_proofs


PromiseStep == [Promise!Next]_(Promise!invocationVars)

\* Refused, replayed and merely booked requests, and deaths of servers: a step that
\* moves neither money nor work is none of the promise.
LEMMA UnseenIsStutter == ASSUME Unseen PROVE PromiseStep
<1>1. [k \in Keys |-> Money(k)]' = [k \in Keys |-> Money(k)]
      /\ [k \in Keys |-> Work(k)]' = [k \in Keys |-> Work(k)]
  BY DEF Unseen
<1> QED BY <1>1 DEF PromiseStep, Promise!invocationVars

\* One Invocation's money changes hands, and nothing else is seen.
LEMMA MoneyMoves ==
    ASSUME NEW k \in Keys,
           \A x \in Keys : Work(x)' = Work(x),
           \A x \in Keys \ {k} : Money(x)' = Money(x),
           \/ Money(k) = "none" /\ Work(k) = "none" /\ Money(k)' = "taken"
           \/ Money(k) = "taken" /\ Work(k) = "failed" /\ Money(k)' = "returned"
    PROVE  PromiseStep
<1>1. [x \in Keys |-> Work(x)]' = [x \in Keys |-> Work(x)]
  OBVIOUS
<1>2. CASE Money(k)' = "taken" /\ Money(k) = "none" /\ Work(k) = "none"
  <2>1. [x \in Keys |-> Money(x)]' = [[x \in Keys |-> Money(x)] EXCEPT ![k] = "taken"]
    BY <1>2
  <2>2. Promise!Take(k)
    BY <1>1, <1>2, <2>1 DEF Promise!Take
  <2> QED BY <2>2 DEF PromiseStep, Promise!Next
<1>3. CASE Money(k)' = "returned" /\ Money(k) = "taken" /\ Work(k) = "failed"
  <2>1. [x \in Keys |-> Money(x)]' = [[x \in Keys |-> Money(x)] EXCEPT ![k] = "returned"]
    BY <1>3
  <2>2. Promise!Return(k)
    BY <1>1, <1>3, <2>1 DEF Promise!Return
  <2> QED BY <2>2 DEF PromiseStep, Promise!Next
<1> QED BY <1>2, <1>3

\* One Invocation's work goes on, and nothing else is seen.
LEMMA WorkMoves ==
    ASSUME NEW k \in Keys,
           \A x \in Keys : Money(x)' = Money(x),
           \A x \in Keys \ {k} : Work(x)' = Work(x),
           \/ Money(k) = "taken" /\ Work(k) = "none" /\ Work(k)' = "running"
           \/ Work(k) = "running" /\ Work(k)' \in {"delivered", "failed"}
    PROVE  PromiseStep
<1>1. [x \in Keys |-> Money(x)]' = [x \in Keys |-> Money(x)]
  OBVIOUS
<1>2. [x \in Keys |-> Work(x)]' = [[x \in Keys |-> Work(x)] EXCEPT ![k] = Work(k)']
  OBVIOUS
<1>3. CASE Money(k) = "taken" /\ Work(k) = "none" /\ Work(k)' = "running"
  BY <1>1, <1>2, <1>3 DEF PromiseStep, Promise!Next, Promise!Start
<1>4. CASE Work(k) = "running" /\ Work(k)' = "delivered"
  BY <1>1, <1>2, <1>4 DEF PromiseStep, Promise!Next, Promise!Deliver
<1>5. CASE Work(k) = "running" /\ Work(k)' = "failed"
  BY <1>1, <1>2, <1>5 DEF PromiseStep, Promise!Next, Promise!Fail
<1> QED BY <1>3, <1>4, <1>5

-----------------------------------------------------------------------------
\* Where an Invocation is in its life.
LEMMA Life ==
    ASSUME Inv, NEW k \in Keys
    PROVE  /\ calls[k] = 0 <=> Work(k) = "none"
           /\ calls[k] = 1 /\ ~delivered[k] /\ journal[k].execution = "failed"
                 => Work(k) = "failed"
           /\ calls[k] = 1 /\ ~delivered[k] /\ journal[k].execution # "failed"
                 => Work(k) = "running"
           /\ calls[k] = 1 /\ delivered[k] => Work(k) = "delivered"
           /\ refundPaid[k] = 1 \/ calls[k] = 1 \/ journal[k].refund # "none"
                 => Paid(journal[k])
           /\ Paid(journal[k]) => chain[journal[k].ref] = TRUE /\ journal[k].ref # NoAuth
           /\ Paid(journal[k]) /\ refundPaid[k] = 0 => Money(k) = "taken"
           /\ calls[k] \in {0, 1} /\ refundPaid[k] \in {0, 1}
           /\ Sound(journal[k]) /\ Effects(k)
<1>1. Sound(journal[k]) /\ Effects(k)
  BY DEF Inv, Records, EffectsInv
<1>2. calls[k] \in {0, 1} /\ refundPaid[k] \in {0, 1}
  BY <1>1 DEF Effects
<1>3. refundPaid[k] = 1 \/ calls[k] = 1 \/ journal[k].refund # "none" => Paid(journal[k])
  BY <1>1 DEF Effects, Sound, States, AnyRecord, PaymentStates, Paid, Started, Finished
<1>4. Paid(journal[k]) => chain[journal[k].ref] = TRUE /\ journal[k].ref # NoAuth
  BY <1>1, JournalAssumption DEF Inv, Records, Sound, States, Paid
<1>5. Paid(journal[k]) /\ refundPaid[k] = 0 => Money(k) = "taken"
  BY <1>4 DEF Money
<1> QED
  BY <1>1, <1>2, <1>3, <1>4, <1>5 DEF Work

\* The record takes the authorization's name, which may be on chain already.
LEMMA ClaimStep ==
    ASSUME Inv, NEW s \in Servers, NEW own \in Keys, ClaimSigned(s, own)
    PROVE  PromiseStep
<1> DEFINE p == paid[s][own]
<1>1. UNCHANGED <<chain, calls, delivered, refundPaid>>
  BY DEF ClaimSigned, workVars, refundVars
<1>2. p.auth \in Auths /\ Sound(journal[own])
  BY InFlight DEF ClaimSigned, Inv, Records
<1>3. PICK end \in claimExternalPaymentSigned(own, p.auth) : Leaves(own, end)
  BY DEF ClaimSigned
<1> DEFINE rec == end.rec
<1>4. /\ Follows(journal[own], rec)
      /\ rec.ref = journal[own].ref \/ (rec.ref = p.auth /\ ~RefTaken(own, p.auth))
      /\ Finished(rec) => Finished(journal[own])
  BY <1>2, <1>3, ClaimedEnds
<1>5. journal'[own] = rec /\ \A x \in Keys \ {own} : journal'[x] = journal[x]
  BY <1>3 DEF Leaves, Inv, Records
<1> HIDE DEF rec
<1>6. rec.execution = "failed" <=> journal[own].execution = "failed"
  BY <1>4 DEF Follows, Finished
<1>7. \A x \in Keys : Work(x)' = Work(x)
  BY <1>1, <1>5, <1>6 DEF Work
<1>8. \A x \in Keys \ {own} : Money(x)' = Money(x)
  BY <1>1, <1>5 DEF Money
<1>9. CASE rec.ref = journal[own].ref
  <2>1. Money(own)' = Money(own)
    BY <1>1, <1>5, <1>9 DEF Money
  <2> QED BY <1>7, <1>8, <2>1, UnseenIsStutter DEF Unseen
<1>10. CASE rec.ref # journal[own].ref
  <2>1. journal[own].ref = NoAuth /\ ~Paid(journal[own])
    BY <1>4, <1>10, Life DEF Follows
  <2>2. calls[own] = 0 /\ refundPaid[own] = 0 /\ Work(own) = "none"
    BY <2>1, Life
  <2>3. Money(own) = "none" /\ Money(own)' \in {"none", "taken"}
    BY <1>1, <2>1, <2>2 DEF Money
  <2>4. CASE Money(own)' = "none"
    BY <1>7, <1>8, <2>3, <2>4, UnseenIsStutter DEF Unseen
  <2>5. CASE Money(own)' = "taken"
    BY <1>7, <1>8, <2>2, <2>3, <2>5, MoneyMoves
  <2> QED BY <2>3, <2>4, <2>5
<1> QED BY <1>9, <1>10

\* The transfer takes the money of the one Invocation that names it, if any.
LEMMA TransferStep ==
    ASSUME Inv, NEW a \in Auths, Transfer(a)
    PROVE  PromiseStep
<1>1. /\ chain' = [chain EXCEPT ![a] = TRUE] /\ ~chain[a]
      /\ UNCHANGED <<journal, calls, delivered, refundPaid>>
  BY DEF Transfer, journalVars, workVars, refundVars
<1>2. \A x \in Keys : Work(x)' = Work(x)
  BY <1>1 DEF Work
<1>3. \A x \in Keys : journal[x].ref # a => Money(x)' = Money(x)
  <2>1. \A x \in Keys : journal[x].ref \in Auths \cup {NoAuth}
    BY DEF Inv, Records, AnyRecord
  <2> QED BY <1>1, <2>1 DEF Inv, Money
<1>4. CASE \A x \in Keys : journal[x].ref # a
  BY <1>2, <1>3, <1>4, UnseenIsStutter DEF Unseen
<1>5. ASSUME NEW k \in Keys, journal[k].ref = a PROVE PromiseStep
  <2>1. \A x \in Keys \ {k} : journal[x].ref # a
    BY <1>5, JournalAssumption DEF Inv, Records
  <2>2. ~Paid(journal[k])
    BY <1>1, <1>5, Life
  <2>3. calls[k] = 0 /\ refundPaid[k] = 0 /\ Work(k) = "none"
    BY <2>2, Life
  <2>4. Money(k) = "none" /\ Money(k)' = "taken"
    BY <1>1, <1>5, <2>3, JournalAssumption DEF Money, Inv
  <2> QED BY <1>2, <1>3, <2>1, <2>3, <2>4, MoneyMoves
<1> QED BY <1>4, <1>5

\* The executor is called for an Invocation that was paid for.
LEMMA StartStep ==
    ASSUME Inv, NEW s \in Servers, NEW k \in Keys, StartExecution(s, k)
    PROVE  PromiseStep
<1>1. UNCHANGED <<chain, delivered, refundPaid>> /\ Sound(journal[k])
  BY Life DEF StartExecution, settleVars, refundVars
<1>2. PICK end \in startExecution(k) :
          /\ Leaves(k, end)
          /\ \/ UNCHANGED calls
             \/ /\ ~end.threw /\ journal[k].execution # "executing"
                /\ calls' = [calls EXCEPT ![k] = @ + 1]
  BY DEF StartExecution, ConsumeAndEnd
<1>3. /\ KeepsRef(k, end)
      /\ Finished(end.rec) => Finished(journal[k])
      /\ ~end.threw => end.rec.execution = "executing" /\ Paid(end.rec)
      /\ ~end.threw => journal[k].execution \in {"executing", "authorized"}
      /\ Paid(end.rec) => Paid(journal[k])
  BY <1>1, StartedEnds
<1>4. journal'[k] = end.rec /\ \A x \in Keys \ {k} : journal'[x] = journal[x]
  BY <1>2 DEF Leaves, Inv, Records
<1>5. \A x \in Keys : Money(x)' = Money(x)
  BY <1>1, <1>3, <1>4 DEF Money, KeepsRef
<1>6. CASE UNCHANGED calls
  <2>1. end.rec.execution = "failed" <=> journal[k].execution = "failed"
    BY <1>3 DEF KeepsRef, Follows, Finished
  <2>2. \A x \in Keys : Work(x)' = Work(x)
    BY <1>1, <1>4, <1>6, <2>1 DEF Work
  <2> QED BY <1>5, <2>2, UnseenIsStutter DEF Unseen
<1>7. CASE /\ ~end.threw /\ journal[k].execution # "executing"
           /\ calls' = [calls EXCEPT ![k] = @ + 1]
  <2>1. journal[k].execution = "authorized" /\ Paid(journal[k])
        /\ end.rec.execution = "executing"
    BY <1>3, <1>7
  <2>2. calls[k] = 0 /\ Work(k) = "none" /\ ~delivered[k] /\ refundPaid[k] = 0
    BY <2>1, Life DEF Effects, Started, Finished, Sound, States
  <2>3. calls'[k] = 1 /\ \A x \in Keys \ {k} : calls'[x] = calls[x]
    BY <1>7, <2>2 DEF Inv, EffectsInv
  <2>4. Money(k) = "taken"
    BY <2>1, <2>2, Life
  <2>5. Work(k)' = "running"
    BY <1>1, <1>4, <2>1, <2>2, <2>3 DEF Work
  <2>6. \A x \in Keys \ {k} : Work(x)' = Work(x)
    BY <1>1, <1>4, <2>3 DEF Work
  <2> QED BY <1>5, <2>2, <2>4, <2>5, <2>6, WorkMoves
<1> QED BY <1>2, <1>6, <1>7

\* Only the first failure written down is one.
LEMMA FinishStep ==
    ASSUME Inv, NEW s \in Servers, NEW k \in Keys, FinishExecution(s, k)
    PROVE  PromiseStep
<1>1. UNCHANGED <<chain, calls, delivered, refundPaid>> /\ Sound(journal[k]) /\ calls[k] = 1
  BY Life DEF FinishExecution, worldVars, settleVars, workVars, refundVars, Inv, Requests, Known
<1>2. PICK outcome \in {"succeeded", "failed"} :
         \E end \in finishExecution(k, outcome) : Leaves(k, end)
  BY DEF FinishExecution
<1>3. PICK end \in finishExecution(k, outcome) : Leaves(k, end)
  BY <1>2
<1>4. KeepsRef(k, end)
  BY <1>1, FinishedEnds
<1>5. journal'[k] = end.rec /\ \A x \in Keys \ {k} : journal'[x] = journal[x]
  BY <1>3 DEF Leaves, Inv, Records
<1>6. \A x \in Keys : Money(x)' = Money(x)
  BY <1>1, <1>4, <1>5 DEF Money, KeepsRef
<1>7. \A x \in Keys \ {k} : Work(x)' = Work(x)
  BY <1>1, <1>5 DEF Work
<1>8. CASE end.rec.execution = "failed" <=> journal[k].execution = "failed"
  <2>1. Work(k)' = Work(k)
    BY <1>1, <1>5, <1>8 DEF Work
  <2> QED BY <1>6, <1>7, <2>1, UnseenIsStutter DEF Unseen
<1>9. CASE end.rec.execution = "failed" /\ journal[k].execution # "failed"
  <2>1. ~Finished(journal[k])
    BY <1>4, <1>9 DEF KeepsRef, Follows, Finished
  <2>2. ~delivered[k]
    BY <2>1, Life DEF Effects, Finished
  <2>3. Work(k) = "running" /\ Work(k)' = "failed"
    BY <1>1, <1>5, <1>9, <2>2 DEF Work
  <2> QED BY <1>6, <1>7, <2>3, WorkMoves
<1>10. ~(end.rec.execution # "failed" /\ journal[k].execution = "failed")
  BY <1>4 DEF KeepsRef, Follows, Finished
<1> QED BY <1>8, <1>9, <1>10

\* The output is answered for an execution that succeeded.
LEMMA AnswerStep ==
    ASSUME Inv, NEW s \in Servers, NEW k \in Keys, AnswerInvocation(s, k)
    PROVE  PromiseStep
<1>1. /\ UNCHANGED <<chain, calls, refundPaid>> /\ Sound(journal[k]) /\ calls[k] = 1
      /\ paid[s][k].pc = "succeeded" => journal[k].execution = "succeeded"
  BY Life DEF AnswerInvocation, settleVars, refundVars, Inv, Requests, Known
<1>2. PICK end \in issueReceipt(k) :
          /\ Leaves(k, end)
          /\ \/ delivered' = delivered
             \/ paid[s][k].pc = "succeeded" /\ delivered' = [delivered EXCEPT ![k] = TRUE]
  BY DEF AnswerInvocation
<1>3. KeepsRef(k, end) /\ end.rec.execution = journal[k].execution
  BY <1>1, Life, IssuedEnds
<1>4. journal'[k] = end.rec /\ \A x \in Keys \ {k} : journal'[x] = journal[x]
  BY <1>2 DEF Leaves, Inv, Records
<1>5. \A x \in Keys : Money(x)' = Money(x)
  BY <1>1, <1>3, <1>4 DEF Money, KeepsRef
<1>6. CASE delivered' = delivered
  <2>1. \A x \in Keys : Work(x)' = Work(x)
    BY <1>1, <1>3, <1>4, <1>6 DEF Work
  <2> QED BY <1>5, <2>1, UnseenIsStutter DEF Unseen
<1>7. CASE paid[s][k].pc = "succeeded" /\ delivered' = [delivered EXCEPT ![k] = TRUE]
  <2>1. delivered'[k] = TRUE /\ \A x \in Keys \ {k} : delivered'[x] = delivered[x]
    BY <1>7 DEF Inv, EffectsInv
  <2>2. \A x \in Keys \ {k} : Work(x)' = Work(x)
    BY <1>1, <1>4, <2>1 DEF Work
  <2>3. Work(k)' = "delivered" /\ Work(k) \in {"running", "delivered"}
    BY <1>1, <1>7, <2>1 DEF Work
  <2>4. CASE Work(k) = "delivered"
    <3>1. Unseen
      BY <1>5, <2>2, <2>3, <2>4 DEF Unseen
    <3> QED BY <3>1, UnseenIsStutter
  <2>5. CASE Work(k) = "running"
    BY <1>5, <2>2, <2>3, <2>5, WorkMoves
  <2> QED BY <2>3, <2>4, <2>5
<1> QED BY <1>2, <1>6, <1>7

\* The refund is paid for work that failed.
LEMMA RefundStep ==
    ASSUME Inv, NEW k \in Keys, RefundTransfer(k)
    PROVE  PromiseStep
<1>1. UNCHANGED <<journal, chain, calls, delivered>>
  BY DEF RefundTransfer, journalVars, settleVars, workVars
<1>2. Effects(k) /\ refundOpen[k] = 1
  BY DEF Inv, EffectsInv, Effects, RefundTransfer
<1>3. /\ refundPaid[k] = 0 /\ refundPaid'[k] = 1
      /\ \A x \in Keys \ {k} : refundPaid'[x] = refundPaid[x]
  BY <1>2 DEF RefundTransfer, Inv, EffectsInv, Effects
<1>4. journal[k].execution = "failed" /\ Paid(journal[k]) /\ calls[k] = 1 /\ ~delivered[k]
  BY <1>2, Life DEF Effects, Sound, States, Finished
<1>5. Money(k) = "taken" /\ Work(k) = "failed"
  BY <1>3, <1>4, Life
<1>6. Money(k)' = "returned"
  BY <1>3 DEF Money
<1>7. /\ \A x \in Keys : Work(x)' = Work(x)
      /\ \A x \in Keys \ {k} : Money(x)' = Money(x)
  BY <1>1, <1>3 DEF Work, Money
<1> QED BY <1>5, <1>6, <1>7, MoneyMoves

-----------------------------------------------------------------------------
\* Nothing is taken and nothing runs before the first request.
LEMMA PromiseStart == Init => Promise!Init
<1> SUFFICES ASSUME Init PROVE Promise!Init
  OBVIOUS
<1>1. ASSUME NEW k \in Keys
      PROVE  Money(k) = "none" /\ Work(k) = "none"
  <2>1. journal[k] = NoRecord
    BY DEF Init, JournalInit
  <2>2. NoRecord.ref = NoAuth
    BY DEF NoRecord
  <2>3. refundPaid[k] = 0 /\ calls[k] = 0 /\ ~delivered[k]
    BY DEF Init
  <2> QED BY <2>1, <2>2, <2>3 DEF Money, Work
<1> QED BY <1>1 DEF Promise!Init

\* Every step of servers, operators, chain, buyer and clock is a step of the promise
\* or shows nothing of it.
LEMMA PromiseNextStep == Inv /\ [Next]_vars => PromiseStep
<1> SUFFICES ASSUME Inv, [Next]_vars PROVE PromiseStep
  OBVIOUS
<1>1. ASSUME NEW s \in Servers, NEW k \in Keys,
             \/ IssueOffer(s, k)
             \/ \E a \in Auths : ClaimAuthorization(s, k, a)
             \/ VerifyAnswered(s, k) \/ Consult(s, k)
             \/ SettleUnknown(s, k) \/ SettleFailed(s, k) \/ SettleConfirmed(s, k)
             \/ SettleUnwritten(s, k)
             \/ AskSettlement(s, k) \/ ResolveSettled(s, k) \/ ResolveUnknown(s, k)
             \/ StartRefund(s, k) \/ AskRefund(s, k) \/ ConfirmRefund(s, k)
             \/ RefundUnknown(s, k) \/ AnswerRefund(s, k)
      PROVE  PromiseStep
  BY <1>1, PaywallInv, ConsultInv, SettlementInv, OperatorInv, StartRefundInv, UnseenIsStutter
<1>2. ASSUME NEW s \in Servers, NEW k \in Keys,
             \/ ClaimSigned(s, k) \/ StartExecution(s, k)
             \/ FinishExecution(s, k) \/ AnswerInvocation(s, k)
      PROVE  PromiseStep
  BY <1>2, ClaimStep, StartStep, FinishStep, AnswerStep
<1>3. ASSUME NEW a \in Auths, Transfer(a) PROVE PromiseStep
  BY <1>3, TransferStep
<1>4. ASSUME NEW k \in Keys, RefundTransfer(k) PROVE PromiseStep
  BY <1>4, RefundStep
<1>5. ASSUME NEW s \in Servers, Crash(s) PROVE PromiseStep
  BY <1>5, CrashInv, UnseenIsStutter
<1>6. CASE Tick \/ (\E a \in Auths : BuyerSigns(a)) \/ UNCHANGED vars
  BY <1>6, TimeInv, UnseenIsStutter
<1> QED BY <1>1, <1>2, <1>3, <1>4, <1>5, <1>6 DEF Next

\* ImplementsPaidInvocation: work starts only for money taken and once, and money
\* is returned, once, only for work that failed.
THEOREM CollarKeepsThePromise == Spec => ImplementsPaidInvocation
<1>1. Inv /\ [Next]_vars => [Promise!Next]_(Promise!invocationVars)
  BY PromiseNextStep DEF PromiseStep
<1> QED
  BY CollarInvariant, PromiseStart, <1>1, PTL DEF Spec, ImplementsPaidInvocation, Promise!Spec
=============================================================================
