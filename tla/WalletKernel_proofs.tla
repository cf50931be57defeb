------------------------ MODULE WalletKernel_proofs -------------------------
(***************************************************************************)
(* What holds of the Wallet Kernel for every finite set of intents, every  *)
(* amount, ceiling and deadline, and every bound of the model.  The first  *)
(* theorems are drawn from the inductive invariant of                      *)
(* WalletKernelInvariant as it stands, the ceilings and deadlines from a   *)
(* strengthening of it (CeilingInv), and the last shows that the Kernel    *)
(* implements SpendEscrow.  The runs check the same properties on small    *)
(* instances.                                                              *)
(***************************************************************************)
EXTENDS WalletKernelInvariant, SumTheorems

USE DEF intentVars, sessionVars, ledgerVars, queueVars, processVars, operationVars,
        decisionVars, attemptVars, effectVars, worldVars

\* The inductive invariant holds in every state of the Kernel, whatever the
\* number of intents, the amounts, the ceilings and the bounds.
THEOREM Invariance == Spec => []Inv
  BY InitInv, NextInv, PTL DEF Spec

\* Every variable of the Kernel keeps its type, through every interleaving of
\* operations, crashes and recoveries.
THEOREM TypeCorrect == Spec => []TypeOK
<1>1. Inv => TypeOK
  BY DEF Inv
<1>2. QED BY Invariance, <1>1, PTL

\* SignedOnce: execute(), its retries and the startup recovery together ask the
\* wallet at most once for one Spend Intent.
THEOREM SignsAtMostOnce == Spec => []SignedOnce
<1>1. Inv => SignedOnce
  <2> SUFFICES ASSUME Inv, NEW i \in Intents PROVE asks[i] <= 1
    BY DEF SignedOnce
  <2>1. intent[i] \in IntentState /\ asks[i] \in Nat
    BY DEF Inv, TypeOK, SpendIntentsTypeOK
  <2>2. QED
    BY <2>1 DEF Inv, Sound, Row, EarlyRow, UnderwayRow, UnresolvedRow, TerminalRow, Unpaid,
                InFlightStates, IntentState
<1>2. QED BY Invariance, <1>1, PTL

\* MoneyAccounted: no release, no crash and no recovery leaves a signature that
\* may exist without the amount in the ledger.
THEOREM LiveMoneyIsInTheLedger == Spec => []MoneyAccounted
<1>1. Inv => MoneyAccounted
  <2> SUFFICES ASSUME Inv, NEW i \in Intents, Live(i) PROVE Exposed(i)
    BY DEF MoneyAccounted
  <2>1. intent[i] \in IntentState
    BY DEF Inv, TypeOK, SpendIntentsTypeOK
  <2>2. QED
    BY <2>1 DEF Inv, Sound, Row, EarlyRow, UnderwayRow, UnresolvedRow, TerminalRow, Unpaid,
                Underway, InFlightStates, IntentState, Live, Exposed, Held
<1>2. QED BY Invariance, <1>1, PTL

\* ApprovalGatesMoney: budget above the automatic limit is taken only with the
\* consumption of an approval, and an approval in any other state has taken none.
THEOREM ApprovalsGateMoney == Spec => []ApprovalGatesMoney
<1>1. Inv => ApprovalGatesMoney
  <2> SUFFICES ASSUME Inv, NEW i \in Intents
               PROVE  /\ budget[i] # "none" /\ Amount[i] > AutoLimit => approval[i] = "consumed"
                      /\ approval[i] \in {"pending", "approved", "denied", "expired", "cancelled"}
                           => budget[i] = "none" /\ world[i] = "untouched"
    BY DEF ApprovalGatesMoney
  <2>1. intent[i] \in IntentState
    BY DEF Inv, TypeOK, SpendIntentsTypeOK
  <2>2. QED
    BY <2>1 DEF Inv, Sound, Row, EarlyRow, UnderwayRow, UnresolvedRow, TerminalRow, Unpaid,
                Underway, Authorised, InFlightStates, OpenDecisions, IntentState
<1>2. QED BY Invariance, <1>1, PTL

\* ReceiptParity: a Kernel that serves has one receipt for every outcome, although
\* the two are written by different transactions.
THEOREM ServingKernelHasReceipts == Spec => []ReceiptParity
<1>1. Inv => ReceiptParity
  BY DEF Inv, TypeOK, Sound, Signed, ReceiptParity
<1>2. QED BY Invariance, <1>1, PTL

\* InFlightHasOperation: no error path of execute() leaves an intent in flight
\* behind in a Kernel that goes on.
THEOREM NoOperationIsForgotten == Spec => []InFlightHasOperation
<1>1. Inv => InFlightHasOperation
  BY DEF Inv, Sound, Point, InFlightHasOperation
<1>2. QED BY Invariance, <1>1, PTL

\* MoneyRecoverable: the startup audit finds a row of its matrix for every state
\* of the money that any sequence of steps and crashes can reach.
THEOREM EveryCrashIsClassified == Spec => []MoneyRecoverable
<1>1. Inv => MoneyRecoverable
  <2> SUFFICES ASSUME Inv, NEW i \in Intents
               PROVE  Classified(i) /\ (ExecutionBound(i) \/ FreeFailure(i))
    BY DEF MoneyRecoverable
  <2> USE DEF Inv, Sound, Row, EarlyRow, UnderwayRow, UnresolvedRow, TerminalRow, Unpaid,
              Underway, InFlightStates, IntentState
  <2>1. intent[i] \in IntentState
    BY DEF TypeOK, SpendIntentsTypeOK
  <2>2. Classified(i)
    BY <2>1 DEF Classified, NoMoney, Held
  <2>3. ExecutionBound(i) \/ FreeFailure(i)
    BY <2>1 DEF TypeOK, ExecutionBound, FreeFailure, ResolutionFor, Deliveries
  <2>4. QED BY <2>2, <2>3
<1>2. QED BY Invariance, <1>1, PTL

\* EndedSessionIsInert: the monetary-safety test and the termination of a session
\* leave nothing that could spend, whatever was running.
THEOREM EndedSessionsAreInert == Spec => []EndedSessionIsInert
<1>1. Inv => EndedSessionIsInert
  <2> SUFFICES ASSUME Inv, NEW i \in Intents, intent[i] # "none",
                      sessionOf[i] < session \/ sessionState = "closed"
               PROVE  /\ intent[i] = "terminal" /\ ~Held(i) /\ resolution[i] = "none"
                      /\ Live(i) => budget[i] = "committed"
    BY DEF EndedSessionIsInert
  <2>1. intent[i] = "terminal" /\ resolution[i] = "none"
    BY DEF Inv, Sound, Inert
  <2>2. QED
    BY <2>1 DEF Inv, Sound, Row, TerminalRow, Unpaid, Held, Live
<1>2. QED BY Invariance, <1>1, PTL

\* OutcomeFinal: of two terminations that race, the second changes nothing.
THEOREM OutcomesAreFinal == Spec => OutcomeFinal
<1>1. Inv /\ [Next]_vars =>
        [\A i \in Intents :
           /\ outcome[i] # "none" => outcome'[i] = outcome[i]
           /\ budget[i] \in {"committed", "released"} => budget'[i] = budget[i]
           /\ receipt[i] => receipt'[i]]_vars
  BY FinalStep DEF Final
<1>2. QED BY Invariance, <1>1, PTL DEF Spec, OutcomeFinal

\* FrozenAuthorityIsFrozen: the claim and the reservation look at the blockers,
\* the enrollment and the session in the transaction that changes them.
THEOREM FrozenMeansFrozen == Spec => FrozenAuthorityIsFrozen
<1>1. Inv /\ [Next]_vars =>
        [SomethingAmbiguous \/ ~enrolled \/ sessionState # "open" =>
           \A i \in Intents :
             /\ asks'[i] = asks[i]
             /\ budget'[i] = "reserved" => budget[i] = "reserved"]_vars
  BY FrozenStep DEF Frozen
<1>2. QED BY Invariance, <1>1, PTL DEF Spec, FrozenAuthorityIsFrozen

-----------------------------------------------------------------------------
(***************************************************************************)
(* The ceilings and deadlines of the Wallet Kernel, by what the wallet was *)
(* asked for and what the chain moved.                                     *)
(*                                                                         *)
(* A ceiling is compared with the ledger at one instant, when budget is    *)
(* reserved; the properties speak of the money of every later state.  What *)
(* carries them there is that a step which reserves nothing makes no sum   *)
(* larger (Quiet), and that what has moved is still counted, at an instant *)
(* not before it moved (Timed).                                            *)
(***************************************************************************)
\* The chain time of a transfer, and the commit that records it later.
Timed(i) ==
    /\ Paid(i) <=> world[i] = "transferred"
    /\ paidAt[i] <= now
    /\ budget[i] = "committed" => paidAt[i] <= committedAt[i]

\* The authorization a wallet was asked for ends before its authority does.
Permitted(i) ==
    /\ budget[i] # "none" => decision[i] \in {"allow", "approval_required"}
    /\ Live(i) => validBefore[i] * TicksPerSecond <= AuthorizationDeadline(i)
    /\ Paid(i) => paidAt[i] < AuthorizationDeadline(i)

(***************************************************************************)
(* What has moved, or may still move, in the period of length Window that  *)
(* begins at t.                                                            *)
(***************************************************************************)
MovingFrom(t) ==
    {k \in Intents : \/ Held(k) /\ ~Paid(k) /\ now < t + Window
                     \/ Paid(k) /\ t <= paidAt[k] /\ paidAt[k] < t + Window}

Ceilings ==
    /\ \A s \in Int : SessionExposure(s) <= SessionMax
    /\ \A s \in Int : \A i \in Intents : SellerExposure(s, Seller[i]) <= SellerSessionMax
    /\ \A t \in Int : SumOf(MovingFrom(t)) <= RollingMax

CeilingInv ==
    /\ Inv
    /\ \A i \in Intents : Timed(i) /\ Permitted(i)
    /\ Ceilings

\* A step that takes no budget for the intent.
Quiet(k) ==
    /\ Exposed(k)' => Exposed(k) /\ sessionOf'[k] = sessionOf[k]
    /\ Held(k)' => Held(k)
    /\ budget'[k] = "committed" =>
         \/ budget[k] = "committed" /\ committedAt'[k] = committedAt[k]
         \/ committedAt'[k] = now
    /\ \/ /\ paidAt'[k] = paidAt[k]
          /\ world'[k] = "transferred" <=> world[k] = "transferred"
       \/ world[k] = "sent" /\ world'[k] = "transferred" /\ paidAt'[k] = now
    /\ now' = now \/ now' = now + 1

\* A step that takes budget for the intent, and does nothing else to money.
Takes(i) == Reserve(i, now) /\ UNCHANGED <<sessionOf, now, world, paidAt>>

-----------------------------------------------------------------------------
\* A step that changes no row of money, no transfer and no clock is quiet.
LEMMA StillLedger ==
  ASSUME UNCHANGED <<budget, committedAt, sessionOf, world, paidAt, now>>, NEW k \in Intents
  PROVE  Quiet(k)
  BY DEF Quiet, Exposed, Held

\* So is one that gives one reservation back or leaves it unresolved.
LEMMA OneRow ==
  ASSUME TypeOK, NEW i \in Intents, budget[i] = "reserved", NEW state \in {"released", "unresolved"},
         budget' = [budget EXCEPT ![i] = state],
         UNCHANGED <<committedAt, sessionOf, world, paidAt, now>>, NEW k \in Intents
  PROVE  Quiet(k)
  BY DEF Quiet, Exposed, Held, TypeOK, BudgetLedgerTypeOK

\* So is the end of a session.
LEMMA EndOfSession ==
  ASSUME TypeOK, NEW command, EndSession(command), NEW k \in Intents
  PROVE  Quiet(k)
  BY DEF EndSession, ReleaseAll, TerminateAll, Quiet, Exposed, Held, TypeOK, BudgetLedgerTypeOK

\* Every step takes budget for one intent or is quiet for all of them.
LEMMA QuietStep ==
  Inv /\ [Next]_vars => (\E i \in Intents : Takes(i)) \/ (\A k \in Intents : Quiet(k))
<1> SUFFICES ASSUME Inv, [Next]_vars, ~(\E i \in Intents : Takes(i)), NEW k \in Intents
             PROVE  Quiet(k)
  OBVIOUS
<1>0. TypeOK
  BY DEF Inv
<1>1. ASSUME NEW i \in Intents, CaptureIntent(i) PROVE Quiet(k)
  <2>1. budget[i] = "none"
    BY <1>1 DEF CaptureIntent, Capture, Inv, Sound, Row, EarlyRow, Unpaid
  <2>2. QED
    BY <1>1, <1>0, <2>1 DEF CaptureIntent, Capture, Quiet, Exposed, Held, TypeOK, SpendIntentsTypeOK
<1>2. ASSUME NEW i \in Intents, ResumeIntent(i) PROVE Quiet(k)
  BY <1>2, StillLedger DEF ResumeIntent
<1>3. ASSUME NEW i \in Intents, RetryApproved(i) PROVE Quiet(k)
  BY <1>3, StillLedger DEF RetryApproved
<1>4. ASSUME NEW i \in Intents, NEW e \in Deliveries, OrdinaryResponse(i, e) PROVE Quiet(k)
  BY <1>4, StillLedger DEF OrdinaryResponse, Transition
<1>5. ASSUME NEW i \in Intents, ReprobeTransportFailure(i) PROVE Quiet(k)
  BY <1>5, StillLedger DEF ReprobeTransportFailure, Transition
<1>6. ASSUME NEW i \in Intents, MalformedChallenge(i) PROVE Quiet(k)
  BY <1>6, StillLedger DEF MalformedChallenge, Transition
<1>7. ASSUME NEW i \in Intents, ReceiveChallenge(i) PROVE Quiet(k)
  BY <1>7, StillLedger DEF ReceiveChallenge
<1>8. ASSUME NEW i \in Intents, AttachChallenge(i) PROVE Quiet(k)
  BY <1>8, StillLedger DEF AttachChallenge, Attach
<1>9. ASSUME NEW i \in Intents, DenyChallenge(i) PROVE Quiet(k)
  BY <1>9, StillLedger DEF DenyChallenge, Transition
<1>10. ASSUME NEW i \in Intents, RequestApproval(i) PROVE Quiet(k)
  BY <1>10, StillLedger DEF RequestApproval, Transition
<1>11. ASSUME NEW i \in Intents, ReserveAutomatic(i) PROVE Quiet(k)
  BY <1>11 DEF ReserveAutomatic, Transition, Takes
<1>12. ASSUME NEW i \in Intents, FreshChallenge(i) PROVE Quiet(k)
  BY <1>12, StillLedger DEF FreshChallenge
<1>13. ASSUME NEW i \in Intents, ReserveApproved(i) PROVE Quiet(k)
  BY <1>13 DEF ReserveApproved, Transition, Takes
<1>14. ASSUME NEW i \in Intents, CancelChanged(i) PROVE Quiet(k)
  BY <1>14, StillLedger DEF CancelChanged, Transition
<1>15. ASSUME NEW i \in Intents, NEW j \in Intents, ReplaceChanged(i, j) PROVE Quiet(k)
  <2>1. budget[j] = "none"
    BY <1>15 DEF ReplaceChanged, CaptureReplacement, Inv, Sound, Row, EarlyRow, Unpaid
  <2>2. QED
    BY <1>15, <1>0, <2>1
       DEF ReplaceChanged, CaptureReplacement, Quiet, Exposed, Held, TypeOK, SpendIntentsTypeOK
<1>16. ASSUME NEW i \in Intents, SigningClaim(i) PROVE Quiet(k)
  <2>1. world[i] # "transferred"
    BY <1>16 DEF SigningClaim, Transition, CanTransition, Inv, Sound, Row, UnderwayRow
  <2>2. QED
    BY <1>16, <1>0, <2>1 DEF SigningClaim, Transition, Quiet, Exposed, Held, TypeOK
<1>17. ASSUME NEW i \in Intents, ReleaseUnsigned(i) PROVE Quiet(k)
  BY <1>17, <1>0, OneRow DEF ReleaseUnsigned, Release, Transition
<1>18. ASSUME NEW i \in Intents, PersistSigned(i) PROVE Quiet(k)
  BY <1>18, StillLedger DEF PersistSigned, Transition
<1>19. ASSUME NEW i \in Intents, PreSignReject(i) PROVE Quiet(k)
  BY <1>19, <1>0, OneRow DEF PreSignReject, Release
<1>20. ASSUME NEW i \in Intents, HoldSigning(i) PROVE Quiet(k)
  BY <1>20, <1>0, OneRow DEF HoldSigning, HoldUnresolved, Transition
<1>21. ASSUME NEW i \in Intents, ClaimPaidRetry(i) PROVE Quiet(k)
  BY <1>21, StillLedger DEF ClaimPaidRetry, Transition
<1>22. ASSUME NEW i \in Intents, SendPayment(i) PROVE Quiet(k)
  <2>1. world[i] = "signed"
    BY <1>22 DEF SendPayment, Inv, Sound, Point
  <2>2. QED
    BY <1>22, <1>0, <2>1 DEF SendPayment, Quiet, Exposed, Held, TypeOK
<1>23. ASSUME NEW i \in Intents, NEW e \in Deliveries, SettleExecution(i, e) PROVE Quiet(k)
  BY <1>23, <1>0
     DEF SettleExecution, Commit, Transition, Quiet, Exposed, Held, TypeOK, BudgetLedgerTypeOK
<1>24. ASSUME NEW i \in Intents, HoldPaid(i) PROVE Quiet(k)
  BY <1>24, <1>0, OneRow DEF HoldPaid, HoldUnresolved, Transition
<1>25. ASSUME NEW i \in Intents, AbortOperation(i) PROVE Quiet(k)
  BY <1>25, StillLedger DEF AbortOperation
<1>26. ASSUME NEW i \in Intents, ApprovePending(i) PROVE Quiet(k)
  BY <1>26, StillLedger DEF ApprovePending
<1>27. ASSUME NEW i \in Intents, DenyPending(i) PROVE Quiet(k)
  BY <1>27, StillLedger DEF DenyPending, Transition
<1>28. ASSUME NEW i \in Intents, ExpireDue(i) PROVE Quiet(k)
  BY <1>28, StillLedger DEF ExpireDue, Transition
<1>29. CASE ApplyPolicy
  BY <1>29, StillLedger DEF ApplyPolicy
<1>30. CASE RevokeAgent
  BY <1>30, StillLedger DEF RevokeAgent
<1>31. CASE CloseSession
  BY <1>31, <1>0, EndOfSession DEF CloseSession
<1>32. CASE TransitionSession
  BY <1>32, <1>0, EndOfSession DEF TransitionSession
<1>33. ASSUME NEW i \in Intents, WalletAnswers(i) PROVE Quiet(k)
  BY <1>33, <1>0 DEF WalletAnswers, Quiet, Exposed, Held, TypeOK
<1>34. ASSUME NEW i \in Intents, ChainTransfers(i) PROVE Quiet(k)
  BY <1>34, <1>0 DEF ChainTransfers, Quiet, Exposed, Held, TypeOK
<1>35. CASE Tick
  BY <1>35 DEF Tick, Quiet, Exposed, Held
<1>36. CASE StopKernel
  BY <1>36, StillLedger DEF StopKernel
<1>37. CASE Restart
  BY <1>37, StillLedger DEF Restart
<1>38. ASSUME NEW i \in Intents, RepairAbandoned(i) PROVE Quiet(k)
  BY <1>38, StillLedger DEF RepairAbandoned, Transition
<1>39. ASSUME NEW i \in Intents, RepairExpired(i) PROVE Quiet(k)
  BY <1>39, StillLedger DEF RepairExpired, Transition
<1>40. ASSUME NEW i \in Intents, RepairReserved(i) PROVE Quiet(k)
  BY <1>40, <1>0, OneRow DEF RepairReserved, Release, Transition
<1>41. ASSUME NEW i \in Intents, RepairAmbiguous(i) PROVE Quiet(k)
  BY <1>41, <1>0, OneRow DEF RepairAmbiguous, HoldUnresolved, Transition
<1>42. CASE FinishRecovery
  BY <1>42, StillLedger DEF FinishRecovery
<1>43. CASE UNCHANGED vars
  BY <1>43, StillLedger DEF vars
<1>44. QED
  BY <1>1, <1>2, <1>3, <1>4, <1>5, <1>6, <1>7, <1>8, <1>9, <1>10, <1>11, <1>12, <1>13, <1>14,
     <1>15, <1>16, <1>17, <1>18, <1>19, <1>20, <1>21, <1>22, <1>23, <1>24, <1>25, <1>26, <1>27,
     <1>28, <1>29, <1>30, <1>31, <1>32, <1>33, <1>34, <1>35, <1>36, <1>37, <1>38, <1>39, <1>40,
     <1>41, <1>42, <1>43
     DEF Next, Operation, Repair

-----------------------------------------------------------------------------
\* Every step keeps the chain times and the commit times in their order.
LEMMA TimedStep ==
  Inv /\ (\A i \in Intents : Timed(i)) /\ [Next]_vars => \A k \in Intents : Timed(k)'
<1> SUFFICES ASSUME Inv, \A i \in Intents : Timed(i), [Next]_vars, NEW k \in Intents
             PROVE  Timed(k)'
  OBVIOUS
<1>1. /\ now \in Nat /\ now' \in Nat /\ paidAt[k] \in Int /\ paidAt'[k] \in Int
      /\ committedAt[k] \in Int /\ committedAt'[k] \in Int
  <2>1. TypeOK /\ TypeOK'
    BY TypeStep DEF Inv
  <2>2. QED
    BY <2>1, KernelAssumption DEF TypeOK, BudgetLedgerTypeOK
<1>2. CASE \E i \in Intents : Takes(i)
  <2>1. PICK i \in Intents : Takes(i)
    BY <1>2
  <2>2. budget'[k] = "committed" => budget[k] = "committed"
    BY <2>1 DEF Takes, Reserve, Inv, TypeOK, BudgetLedgerTypeOK
  <2>3. committedAt' = committedAt /\ paidAt' = paidAt /\ now' = now /\ world' = world
    BY <2>1 DEF Takes, Reserve
  <2>4. QED
    BY <2>2, <2>3 DEF Timed, Paid
<1>3. CASE Quiet(k)
  <2>1. world[k] = "sent" => budget[k] # "committed"
    BY DEF Inv, Sound, Row, EarlyRow, UnderwayRow, UnresolvedRow, TerminalRow,
                Unpaid, Underway, TypeOK, SpendIntentsTypeOK, IntentState, InFlightStates
  <2>2. QED
    BY <1>1, <1>3, <2>1 DEF Quiet, Timed, Paid, NoTime
<1>4. QED
  BY <1>2, <1>3, QuietStep

-----------------------------------------------------------------------------
\* Whole seconds never exceed the instant they are cut from.
LEMMA SecondsFloor ==
  ASSUME NEW t \in Int
  PROVE  Seconds(t) \in Int /\ Seconds(t) * TicksPerSecond <= t
  BY KernelAssumption DEF Seconds

LEMMA SecondsInOrder ==
  ASSUME NEW u \in Int, NEW v \in Int, u <= v
  PROVE  u * TicksPerSecond <= v * TicksPerSecond
  BY KernelAssumption

\* A step that takes no budget, and changes no term of a payment the wallet was
\* asked for.
SameTerms(k) ==
    /\ budget'[k] # "none" => budget[k] # "none" /\ decision'[k] = decision[k]
    /\ Live(k)' => Live(k)
    /\ Live(k) => /\ validBefore'[k] = validBefore[k] /\ challengeAt'[k] = challengeAt[k]
                  /\ expiresAt'[k] = expiresAt[k] /\ approval'[k] = approval[k]
    /\ paidAt'[k] = paidAt[k]

LEMMA TermsKeptPermitted ==
  ASSUME NEW k \in Intents, Timed(k), Permitted(k), SameTerms(k)
  PROVE  Permitted(k)'
<1>1. Paid(k)' => Live(k) /\ Paid(k)
  BY DEF SameTerms, Timed, Paid, Live
<1>2. Live(k) => AuthorizationDeadline(k)' = AuthorizationDeadline(k)
  BY DEF SameTerms, AuthorizationDeadline, ChallengeDeadline
<1>3. QED
  BY <1>1, <1>2 DEF SameTerms, Permitted, Paid

\* The terms stay as they are where nothing of them is written.
LEMMA TermsUnwritten ==
  ASSUME NEW k, budget'[k] # "none" => budget[k] # "none",
         UNCHANGED <<decision, world, validBefore, challengeAt, expiresAt, approval, paidAt>>
  PROVE  SameTerms(k)
  BY DEF SameTerms, Live

\* An approval that is still open has not let the wallet be asked.
LEMMA OpenIsNotLive ==
  ASSUME Inv, NEW k \in Intents,
         approval[k] \in OpenDecisions \/ intent[k] \in {"none", "captured", "challenged", "approval_pending"}
  PROVE  ~Live(k) /\ budget[k] = "none"
<1>1. intent[k] \in IntentState
  BY DEF Inv, TypeOK, SpendIntentsTypeOK
<1>2. QED
  BY <1>1 DEF Inv, Sound, Row, EarlyRow, UnderwayRow, UnresolvedRow, TerminalRow, Unpaid, Underway,
              Authorised, InFlightStates, OpenDecisions, IntentState, Live

\* Every step keeps each authorization inside its authority.
LEMMA PermittedStep ==
  Inv /\ (\A i \in Intents : Timed(i) /\ Permitted(i)) /\ [Next]_vars =>
    \A k \in Intents : Permitted(k)'
<1> SUFFICES ASSUME Inv, \A i \in Intents : Timed(i) /\ Permitted(i), [Next]_vars,
                    NEW k \in Intents
             PROVE  SameTerms(k) \/ Permitted(k)'
  BY TermsKeptPermitted
<1>0. TypeOK
  BY DEF Inv
<1>1. ASSUME NEW i \in Intents, CaptureIntent(i) PROVE SameTerms(k) \/ Permitted(k)'
  BY <1>1, TermsUnwritten DEF CaptureIntent, Capture
<1>2. ASSUME NEW i \in Intents, ResumeIntent(i) PROVE SameTerms(k) \/ Permitted(k)'
  BY <1>2, TermsUnwritten DEF ResumeIntent
<1>3. ASSUME NEW i \in Intents, RetryApproved(i) PROVE SameTerms(k) \/ Permitted(k)'
  BY <1>3, TermsUnwritten DEF RetryApproved
<1>4. ASSUME NEW i \in Intents, NEW e \in Deliveries, OrdinaryResponse(i, e) PROVE SameTerms(k) \/ Permitted(k)'
  BY <1>4, TermsUnwritten DEF OrdinaryResponse, Transition
<1>5. ASSUME NEW i \in Intents, ReprobeTransportFailure(i) PROVE SameTerms(k) \/ Permitted(k)'
  BY <1>5, TermsUnwritten DEF ReprobeTransportFailure, Transition
<1>6. ASSUME NEW i \in Intents, MalformedChallenge(i) PROVE SameTerms(k) \/ Permitted(k)'
  BY <1>6, TermsUnwritten DEF MalformedChallenge, Transition
<1>7. ASSUME NEW i \in Intents, ReceiveChallenge(i) PROVE SameTerms(k) \/ Permitted(k)'
  BY <1>7, TermsUnwritten DEF ReceiveChallenge
<1>8. ASSUME NEW i \in Intents, AttachChallenge(i) PROVE SameTerms(k) \/ Permitted(k)'
  <2>1. k # i => SameTerms(k)
    BY <1>8, <1>0 DEF AttachChallenge, Attach, SameTerms, Live, TypeOK, SpendIntentsTypeOK
  <2>2. challengeAt'[i] = challengeAt[i] \/ ~Live(i)
    BY <1>8, <1>0, OpenIsNotLive DEF AttachChallenge, Attach
  <2>3. decision'[i] = decision[i] \/ budget[i] = "none"
    BY <1>8, <1>0 DEF AttachChallenge, Permitted
  <2>4. QED
    BY <1>8, <2>1, <2>2, <2>3 DEF AttachChallenge, SameTerms, Live
<1>9. ASSUME NEW i \in Intents, DenyChallenge(i) PROVE SameTerms(k) \/ Permitted(k)'
  BY <1>9, TermsUnwritten DEF DenyChallenge, Transition
<1>10. ASSUME NEW i \in Intents, RequestApproval(i) PROVE SameTerms(k) \/ Permitted(k)'
  <2>1. ~Live(i)
    BY <1>10, OpenIsNotLive DEF RequestApproval, Transition, CanTransition
  <2>2. QED
    BY <1>10, <1>0, <2>1
       DEF RequestApproval, Transition, Request, SameTerms, Live, TypeOK, ApprovalQueueTypeOK
<1>11. ASSUME NEW i \in Intents, ReserveAutomatic(i) PROVE SameTerms(k) \/ Permitted(k)'
  <2>1. ~Live(i) /\ decision[i] = "allow"
    BY <1>11, OpenIsNotLive DEF ReserveAutomatic, Transition, CanTransition
  <2>2. CASE k = i
    BY <1>11, <2>1, <2>2 DEF ReserveAutomatic, Transition, Permitted, Timed, Paid, Live
  <2>3. CASE k # i
    BY <1>11, <1>0, <2>3
       DEF ReserveAutomatic, Transition, Reserve, SetAttempt, SameTerms, Live, TypeOK, BudgetLedgerTypeOK
  <2>4. QED BY <2>2, <2>3
<1>12. ASSUME NEW i \in Intents, FreshChallenge(i) PROVE SameTerms(k) \/ Permitted(k)'
  BY <1>12, TermsUnwritten DEF FreshChallenge
<1>13. ASSUME NEW i \in Intents, ReserveApproved(i) PROVE SameTerms(k) \/ Permitted(k)'
  <2>1. ~Live(i) /\ decision[i] = "approval_required"
    BY <1>13, OpenIsNotLive
       DEF ReserveApproved, Transition, CanTransition, Inv, Sound, Row, EarlyRow
  <2>2. CASE k = i
    BY <1>13, <2>1, <2>2 DEF ReserveApproved, Transition, Permitted, Timed, Paid, Live
  <2>3. CASE k # i
    BY <1>13, <1>0, <2>3
       DEF ReserveApproved, Transition, Consume, Reserve, SetAttempt, SameTerms, Live, TypeOK,
           BudgetLedgerTypeOK, ApprovalQueueTypeOK
  <2>4. QED BY <2>2, <2>3
<1>14. ASSUME NEW i \in Intents, CancelChanged(i) PROVE SameTerms(k) \/ Permitted(k)'
  <2>1. ~Live(i)
    BY <1>14, OpenIsNotLive DEF CancelChanged, Cancel
  <2>2. QED
    BY <1>14, <1>0, <2>1
       DEF CancelChanged, Cancel, Transition, SameTerms, Live, TypeOK, ApprovalQueueTypeOK
<1>15. ASSUME NEW i \in Intents, NEW j \in Intents, ReplaceChanged(i, j) PROVE SameTerms(k) \/ Permitted(k)'
  <2>1. ~Live(i) /\ ~Live(j) /\ budget[j] = "none"
    BY <1>15, OpenIsNotLive DEF ReplaceChanged, Renew, CaptureReplacement
  <2>2. QED
    BY <1>15, <1>0, <2>1
       DEF ReplaceChanged, Renew, CaptureReplacement, SameTerms, Live, TypeOK, SpendIntentsTypeOK,
           ApprovalQueueTypeOK
<1>16. ASSUME NEW i \in Intents, SigningClaim(i) PROVE SameTerms(k) \/ Permitted(k)'
  <2>1. CASE k # i
    BY <1>16, <1>0, <2>1 DEF SigningClaim, Transition, SameTerms, Live, TypeOK
  <2>2. CASE k = i
    <3> DEFINE deadline == AuthorizationDeadline(i)
    <3>1. deadline \in Int /\ deadline' = deadline /\ now \in Int
      BY <1>16, <1>0, ApprovalAssumption, KernelAssumption
         DEF SigningClaim, Transition, AuthorizationDeadline, ChallengeDeadline, Lesser, TypeOK,
             SpendIntentsTypeOK, ApprovalQueueTypeOK
    <3>2. validBefore'[i] = Lesser(Seconds(now) + MaxTimeout, Seconds(deadline))
      BY <1>16, <1>0 DEF SigningClaim, TypeOK
    <3>3. ~Paid(i)' /\ budget' = budget /\ decision' = decision
      BY <1>16, <1>0 DEF SigningClaim, Transition, CanTransition, Inv, Sound, Row, UnderwayRow, Timed,
                       Paid
    <3> HIDE DEF deadline
    <3>4. Seconds(now) \in Int /\ Seconds(deadline) \in Int
          /\ Seconds(deadline) * TicksPerSecond <= deadline
      BY <3>1, SecondsFloor
    <3>5. validBefore'[i] \in Int /\ validBefore'[i] <= Seconds(deadline)
      BY <3>2, <3>4, KernelAssumption DEF Lesser
    <3>6. validBefore'[i] * TicksPerSecond <= Seconds(deadline) * TicksPerSecond
      BY <3>4, <3>5, SecondsInOrder
    <3> DEFINE limit == validBefore'[i] * TicksPerSecond
               floor == Seconds(deadline) * TicksPerSecond
    <3>7. limit \in Int /\ floor \in Int
      BY <3>4, <3>5, KernelAssumption
    <3>8. limit <= floor /\ floor <= deadline
      BY <3>4, <3>6
    <3>9. limit <= deadline
      <4> HIDE DEF limit, floor
      <4> QED BY <3>1, <3>7, <3>8
    <3>10. QED
      BY <2>2, <3>1, <3>3, <3>9 DEF Permitted, deadline
  <2>3. QED BY <2>1, <2>2
<1>17. ASSUME NEW i \in Intents, ReleaseUnsigned(i) PROVE SameTerms(k) \/ Permitted(k)'
  BY <1>17, <1>0, TermsUnwritten
     DEF ReleaseUnsigned, Release, Transition, SetAttempt, TypeOK, BudgetLedgerTypeOK
<1>18. ASSUME NEW i \in Intents, PersistSigned(i) PROVE SameTerms(k) \/ Permitted(k)'
  BY <1>18, TermsUnwritten DEF PersistSigned, Transition, SetAttempt
<1>19. ASSUME NEW i \in Intents, PreSignReject(i) PROVE SameTerms(k) \/ Permitted(k)'
  BY <1>19, <1>0, TermsUnwritten
     DEF PreSignReject, Release, SetAttempt, TypeOK, BudgetLedgerTypeOK
<1>20. ASSUME NEW i \in Intents, HoldSigning(i) PROVE SameTerms(k) \/ Permitted(k)'
  BY <1>20, <1>0, TermsUnwritten
     DEF HoldSigning, HoldUnresolved, Transition, SetAttempt, TypeOK, BudgetLedgerTypeOK
<1>21. ASSUME NEW i \in Intents, ClaimPaidRetry(i) PROVE SameTerms(k) \/ Permitted(k)'
  BY <1>21, TermsUnwritten DEF ClaimPaidRetry, Transition, SetAttempt
<1>22. ASSUME NEW i \in Intents, SendPayment(i) PROVE SameTerms(k) \/ Permitted(k)'
  <2>1. world[i] = "signed"
    BY <1>22 DEF SendPayment, Inv, Sound, Point
  <2>2. QED
    BY <1>22, <1>0, <2>1 DEF SendPayment, SameTerms, Live, TypeOK
<1>23. ASSUME NEW i \in Intents, NEW e \in Deliveries, SettleExecution(i, e) PROVE SameTerms(k) \/ Permitted(k)'
  BY <1>23, <1>0, TermsUnwritten
     DEF SettleExecution, Commit, Transition, SetAttempt, TypeOK, BudgetLedgerTypeOK
<1>24. ASSUME NEW i \in Intents, HoldPaid(i) PROVE SameTerms(k) \/ Permitted(k)'
  BY <1>24, <1>0, TermsUnwritten
     DEF HoldPaid, HoldUnresolved, Transition, SetAttempt, TypeOK, BudgetLedgerTypeOK
<1>25. ASSUME NEW i \in Intents, AbortOperation(i) PROVE SameTerms(k) \/ Permitted(k)'
  BY <1>25, TermsUnwritten DEF AbortOperation
<1>26. ASSUME NEW i \in Intents, ApprovePending(i) PROVE SameTerms(k) \/ Permitted(k)'
  <2>1. ~Live(i)
    BY <1>26, OpenIsNotLive DEF ApprovePending, Approve, OpenDecisions
  <2>2. QED
    BY <1>26, <1>0, <2>1
       DEF ApprovePending, Approve, SameTerms, Live, TypeOK, ApprovalQueueTypeOK
<1>27. ASSUME NEW i \in Intents, DenyPending(i) PROVE SameTerms(k) \/ Permitted(k)'
  <2>1. ~Live(i)
    BY <1>27, OpenIsNotLive DEF DenyPending, Deny, OpenDecisions
  <2>2. QED
    BY <1>27, <1>0, <2>1
       DEF DenyPending, Deny, Transition, SameTerms, Live, TypeOK, ApprovalQueueTypeOK
<1>28. ASSUME NEW i \in Intents, ExpireDue(i) PROVE SameTerms(k) \/ Permitted(k)'
  <2>1. ~Live(i)
    BY <1>28, OpenIsNotLive DEF ExpireDue, Expire, OpenDecisions
  <2>2. QED
    BY <1>28, <1>0, <2>1
       DEF ExpireDue, Expire, Transition, SameTerms, Live, TypeOK, ApprovalQueueTypeOK
<1>29. CASE ApplyPolicy
  BY <1>29, TermsUnwritten DEF ApplyPolicy
<1>30. CASE RevokeAgent
  BY <1>30, TermsUnwritten DEF RevokeAgent
<1>31. CASE CloseSession
  <2>1. approval[k] \in OpenDecisions => ~Live(k)
    BY OpenIsNotLive
  <2>2. QED
    BY <1>31, <1>0, <2>1
       DEF CloseSession, EndSession, CancelAll, ReleaseAll, TerminateAll, SameTerms, Live, TypeOK,
           BudgetLedgerTypeOK, ApprovalQueueTypeOK
<1>32. CASE TransitionSession
  <2>1. approval[k] \in OpenDecisions => ~Live(k)
    BY OpenIsNotLive
  <2>2. QED
    BY <1>32, <1>0, <2>1
       DEF TransitionSession, EndSession, CancelAll, ReleaseAll, TerminateAll, SameTerms, Live, TypeOK,
           BudgetLedgerTypeOK, ApprovalQueueTypeOK
<1>33. ASSUME NEW i \in Intents, WalletAnswers(i) PROVE SameTerms(k) \/ Permitted(k)'
  BY <1>33, <1>0 DEF WalletAnswers, SameTerms, Live, TypeOK
<1>34. ASSUME NEW i \in Intents, ChainTransfers(i) PROVE SameTerms(k) \/ Permitted(k)'
  <2>1. CASE k # i
    BY <1>34, <1>0, <2>1 DEF ChainTransfers, SameTerms, Live, TypeOK
  <2>2. CASE k = i
    <3> DEFINE deadline == AuthorizationDeadline(i)
               limit == validBefore[i] * TicksPerSecond
    <3>1. deadline \in Int /\ deadline' = deadline /\ limit \in Int /\ limit' = limit /\ now \in Int
      BY <1>34, <1>0, ApprovalAssumption, KernelAssumption
         DEF ChainTransfers, AuthorizationDeadline, ChallengeDeadline, Lesser, TypeOK,
             SpendIntentsTypeOK, ApprovalQueueTypeOK
    <3>2. limit <= deadline /\ now < limit
      BY <1>34 DEF ChainTransfers, Permitted, Live
    <3>3. paidAt'[i] = now /\ budget' = budget /\ decision' = decision
      BY <1>34, <1>0 DEF ChainTransfers, TypeOK
    <3>4. now < deadline
      <4> HIDE DEF limit, deadline
      <4> QED BY <3>1, <3>2
    <3>5. QED
      BY <2>2, <3>1, <3>2, <3>3, <3>4 DEF Permitted
  <2>3. QED BY <2>1, <2>2
<1>35. CASE Tick
  BY <1>35, TermsUnwritten DEF Tick
<1>36. CASE StopKernel
  BY <1>36, TermsUnwritten DEF StopKernel
<1>37. CASE Restart
  BY <1>37, TermsUnwritten DEF Restart
<1>38. ASSUME NEW i \in Intents, RepairAbandoned(i) PROVE SameTerms(k) \/ Permitted(k)'
  BY <1>38, TermsUnwritten DEF RepairAbandoned, Transition
<1>39. ASSUME NEW i \in Intents, RepairExpired(i) PROVE SameTerms(k) \/ Permitted(k)'
  <2>1. ~Live(i)
    BY <1>39, OpenIsNotLive DEF RepairExpired, Expire, OpenDecisions
  <2>2. QED
    BY <1>39, <1>0, <2>1
       DEF RepairExpired, Expire, Transition, SameTerms, Live, TypeOK, ApprovalQueueTypeOK
<1>40. ASSUME NEW i \in Intents, RepairReserved(i) PROVE SameTerms(k) \/ Permitted(k)'
  BY <1>40, <1>0, TermsUnwritten
     DEF RepairReserved, Release, Transition, SetAttempt, TypeOK, BudgetLedgerTypeOK
<1>41. ASSUME NEW i \in Intents, RepairAmbiguous(i) PROVE SameTerms(k) \/ Permitted(k)'
  BY <1>41, <1>0, TermsUnwritten
     DEF RepairAmbiguous, HoldUnresolved, Transition, SetAttempt, TypeOK, BudgetLedgerTypeOK
<1>42. CASE FinishRecovery
  BY <1>42, TermsUnwritten DEF FinishRecovery
<1>43. CASE UNCHANGED vars
  BY <1>43, TermsUnwritten DEF vars
<1>44. QED
  BY <1>1, <1>2, <1>3, <1>4, <1>5, <1>6, <1>7, <1>8, <1>9, <1>10, <1>11, <1>12, <1>13, <1>14,
     <1>15, <1>16, <1>17, <1>18, <1>19, <1>20, <1>21, <1>22, <1>23, <1>24, <1>25, <1>26, <1>27,
     <1>28, <1>29, <1>30, <1>31, <1>32, <1>33, <1>34, <1>35, <1>36, <1>37, <1>38, <1>39, <1>40,
     <1>41, <1>42, <1>43
     DEF Next, Operation, Repair

-----------------------------------------------------------------------------
\* The sums of the ledger are natural numbers, and grow with their set.
LEMMA SumOfPart ==
  ASSUME NEW S \in SUBSET Intents, NEW T \in SUBSET S
  PROVE  SumOf(S) \in Nat /\ SumOf(T) \in Nat /\ SumOf(T) <= SumOf(S)
<1>1. IsFiniteSet(S) /\ IsFiniteSet(T)
  BY IntentsAssumption, FS_Subset
<1>2. \A x \in Intents : Amount[x] \in Nat
  BY AmountAssumption
<1>3. QED
  BY <1>1, <1>2, SumNat, SumMonotone DEF SumOf

\* One intent more adds at most its amount.
LEMMA SumOfOneMore ==
  ASSUME NEW S \in SUBSET Intents, NEW i \in Intents, NEW T \in SUBSET (S \cup {i})
  PROVE  SumOf(T) \in Nat /\ SumOf(S) \in Nat /\ Amount[i] \in Nat
         /\ SumOf(T) <= SumOf(S) + Amount[i]
<1>1. Amount[i] \in Nat /\ \A x \in Intents : Amount[x] \in Int
  BY AmountAssumption
<1>2. SumOf(S) \in Nat /\ SumOf(T) \in Nat /\ SumOf(S \cup {i}) \in Nat
      /\ SumOf(T) <= SumOf(S \cup {i})
  <2>1. S \cup {i} \in SUBSET Intents
    OBVIOUS
  <2>2. QED
    BY <2>1, SumOfPart
<1>3. CASE i \in S
  <2>1. T \in SUBSET S
    BY <1>3
  <2>2. SumOf(T) <= SumOf(S)
    BY <2>1, SumOfPart
  <2>3. QED
    BY <1>1, <1>2, <2>2
<1>4. CASE i \notin S
  <2>1. IsFiniteSet(S)
    BY IntentsAssumption, FS_Subset
  <2>2. SumOf(S \cup {i}) = Amount[i] + SumOf(S)
    BY <1>1, <1>4, <2>1, SumAdd DEF SumOf
  <2>3. QED
    BY <1>1, <1>2, <2>2
<1>5. QED
  BY <1>3, <1>4

\* What has moved, or may still move, in a period is counted at any instant that
\* the period has not left.
LEMMA MovingIsCounted ==
  ASSUME Inv, \A k \in Intents : Timed(k), NEW t \in Int, now < t + Window
  PROVE  MovingFrom(t) \in SUBSET {k \in Intents :
           Held(k) \/ (budget[k] = "committed" /\ committedAt[k] > now - Window)}
<1> SUFFICES ASSUME NEW k \in MovingFrom(t), ~Held(k)
             PROVE  budget[k] = "committed" /\ committedAt[k] > now - Window
  BY DEF MovingFrom
<1>1. k \in Intents /\ Paid(k) /\ t <= paidAt[k]
  BY DEF MovingFrom
<1>2. world[k] = "transferred" /\ intent[k] \in IntentState
  BY <1>1 DEF Timed, Inv, TypeOK, SpendIntentsTypeOK
<1>3. budget[k] = "committed"
  BY <1>1, <1>2 DEF Inv, Sound, Row, EarlyRow, UnderwayRow, UnresolvedRow, TerminalRow, Unpaid,
                    Underway, InFlightStates, IntentState, Held
<1>4. paidAt[k] <= committedAt[k]
  BY <1>1, <1>3 DEF Timed
<1>5. now \in Int /\ paidAt[k] \in Int /\ committedAt[k] \in Int /\ Window \in Int
  BY <1>1, CeilingAssumption, KernelAssumption DEF Inv, TypeOK, BudgetLedgerTypeOK
<1>6. QED
  BY <1>1, <1>3, <1>4, <1>5

\* A reservation keeps every sum within its ceiling: it was compared with them.
LEMMA TakesWithinCeilings ==
  ASSUME Inv, \A k \in Intents : Timed(k), Ceilings, NEW i \in Intents, Takes(i)
  PROVE  Ceilings'
<1> USE DEF Inv, TypeOK, SpendIntentsTypeOK, BudgetLedgerTypeOK
<1>1. /\ WithinCeilings(i, sessionOf[i], now)
      /\ budget[i] = "none" /\ budget' = [budget EXCEPT ![i] = "reserved"]
      /\ sessionOf' = sessionOf /\ now' = now /\ paidAt' = paidAt
  BY DEF Takes, Reserve
<1>2. SessionMax \in Nat /\ SellerSessionMax \in Nat /\ RollingMax \in Nat
  BY CeilingAssumption
<1>3. ~Paid(i)
  <2>1. intent[i] \in IntentState
    OBVIOUS
  <2>2. world[i] # "transferred"
    BY <1>1, <2>1 DEF Sound, Row, EarlyRow, UnderwayRow, UnresolvedRow, TerminalRow, Unpaid,
                      Underway, InFlightStates, IntentState
  <2>3. QED
    BY <2>2 DEF Timed
<1>4. ASSUME NEW s \in Int
      PROVE  SessionExposure(s)' <= SessionMax
  <2> DEFINE old == {k \in Intents : Exposed(k) /\ sessionOf[k] = s}
             new == {k \in Intents : Exposed(k)' /\ sessionOf'[k] = s}
  <2>1. SumOf(old) <= SessionMax
    BY DEF Ceilings, SessionExposure
  <2>2. CASE sessionOf[i] = s
    <3>1. SumOf(old) + Amount[i] <= SessionMax
      BY <1>1, <2>2 DEF WithinCeilings, SessionExposure
    <3>2. old \in SUBSET Intents /\ new \in SUBSET (old \cup {i})
      BY <1>1 DEF Exposed, Held
    <3> HIDE DEF old, new
    <3>3. SumOf(new) <= SessionMax
      BY <1>2, <3>1, <3>2, SumOfOneMore
    <3>4. QED
      BY <3>3 DEF SessionExposure, new, SumOf
  <2>3. CASE sessionOf[i] # s
    <3>1. new = old
      BY <1>1, <2>3 DEF Exposed, Held
    <3>2. QED
      BY <2>1, <3>1 DEF SessionExposure, SumOf
  <2>4. QED
    BY <2>2, <2>3
<1>5. ASSUME NEW s \in Int, NEW j \in Intents
      PROVE  SellerExposure(s, Seller[j])' <= SellerSessionMax
  <2> DEFINE old == {k \in Intents : Exposed(k) /\ sessionOf[k] = s /\ Seller[k] = Seller[j]}
             new == {k \in Intents : Exposed(k)' /\ sessionOf'[k] = s /\ Seller[k] = Seller[j]}
  <2>1. SumOf(old) <= SellerSessionMax
    BY DEF Ceilings, SellerExposure
  <2>2. CASE sessionOf[i] = s /\ Seller[i] = Seller[j]
    <3>1. SumOf(old) + Amount[i] <= SellerSessionMax
      BY <1>1, <2>2 DEF WithinCeilings, SellerExposure
    <3>2. old \in SUBSET Intents /\ new \in SUBSET (old \cup {i})
      BY <1>1 DEF Exposed, Held
    <3> HIDE DEF old, new
    <3>3. SumOf(new) <= SellerSessionMax
      BY <1>2, <3>1, <3>2, SumOfOneMore
    <3>4. QED
      BY <3>3 DEF SellerExposure, new, SumOf
  <2>3. CASE ~(sessionOf[i] = s /\ Seller[i] = Seller[j])
    <3>1. new = old
      BY <1>1, <2>3 DEF Exposed, Held
    <3>2. QED
      BY <2>1, <3>1 DEF SellerExposure, SumOf
  <2>4. QED
    BY <2>2, <2>3
<1>6. ASSUME NEW t \in Int
      PROVE  SumOf(MovingFrom(t))' <= RollingMax
  <2> DEFINE new == {k \in Intents :
                       \/ Held(k)' /\ ~Paid(k) /\ now < t + Window
                       \/ Paid(k) /\ t <= paidAt[k] /\ paidAt[k] < t + Window}
  <2>1. MovingFrom(t)' = new
    BY <1>1 DEF MovingFrom, Paid
  <2>2. MovingFrom(t) \in SUBSET Intents /\ SumOf(MovingFrom(t)) <= RollingMax
    BY DEF Ceilings, MovingFrom
  <2>3. CASE now < t + Window
    <3> DEFINE counted == {k \in Intents :
                 Held(k) \/ (budget[k] = "committed" /\ committedAt[k] > now - Window)}
    <3>1. MovingFrom(t) \in SUBSET counted /\ counted \in SUBSET Intents
      BY <2>3, MovingIsCounted
    <3>2. new \in SUBSET (counted \cup {i})
      <4>1. new \in SUBSET (MovingFrom(t) \cup {i})
        BY <1>1 DEF MovingFrom, Held
      <4>2. QED
        BY <3>1, <4>1
    <3>3. SumOf(counted) + Amount[i] <= RollingMax
      BY <1>1 DEF WithinCeilings, RollingExposure
    <3> HIDE DEF new, counted
    <3>4. SumOf(new) <= RollingMax
      BY <1>2, <3>1, <3>2, <3>3, SumOfOneMore
    <3>5. QED
      BY <2>1, <3>4 DEF SumOf
  <2>4. CASE ~(now < t + Window)
    <3>1. new = MovingFrom(t)
      BY <2>4 DEF MovingFrom
    <3>2. QED
      BY <2>1, <2>2, <3>1 DEF SumOf
  <2>5. QED
    BY <2>3, <2>4
<1>7. QED
  BY <1>4, <1>5, <1>6, CeilingAssumption DEF Ceilings

\* A quiet step makes no sum larger.
LEMMA QuietWithinCeilings ==
  ASSUME Inv, \A k \in Intents : Timed(k), Ceilings, \A k \in Intents : Quiet(k)
  PROVE  Ceilings'
<1> USE DEF Inv, TypeOK, SpendIntentsTypeOK, BudgetLedgerTypeOK
<1>1. SessionMax \in Nat /\ SellerSessionMax \in Nat /\ RollingMax \in Nat /\ Window \in Nat
  BY CeilingAssumption
<1>2. ASSUME NEW s \in Int
      PROVE  SessionExposure(s)' <= SessionMax
  <2> DEFINE old == {k \in Intents : Exposed(k) /\ sessionOf[k] = s}
             new == {k \in Intents : Exposed(k)' /\ sessionOf'[k] = s}
  <2>1. SumOf(old) <= SessionMax
    BY DEF Ceilings, SessionExposure
  <2>2. old \in SUBSET Intents /\ new \in SUBSET old
    BY DEF Quiet
  <2> HIDE DEF old, new
  <2>3. SumOf(new) <= SessionMax
    BY <1>1, <2>1, <2>2, SumOfPart
  <2>4. QED
    BY <2>3 DEF SessionExposure, new, SumOf
<1>3. ASSUME NEW s \in Int, NEW j \in Intents
      PROVE  SellerExposure(s, Seller[j])' <= SellerSessionMax
  <2> DEFINE old == {k \in Intents : Exposed(k) /\ sessionOf[k] = s /\ Seller[k] = Seller[j]}
             new == {k \in Intents : Exposed(k)' /\ sessionOf'[k] = s /\ Seller[k] = Seller[j]}
  <2>1. SumOf(old) <= SellerSessionMax
    BY DEF Ceilings, SellerExposure
  <2>2. old \in SUBSET Intents /\ new \in SUBSET old
    BY DEF Quiet
  <2> HIDE DEF old, new
  <2>3. SumOf(new) <= SellerSessionMax
    BY <1>1, <2>1, <2>2, SumOfPart
  <2>4. QED
    BY <2>3 DEF SellerExposure, new, SumOf
<1>4. ASSUME NEW t \in Int
      PROVE  SumOf(MovingFrom(t))' <= RollingMax
  <2> DEFINE old == MovingFrom(t)
             new == {k \in Intents :
                       \/ Held(k)' /\ ~Paid(k)' /\ now' < t + Window
                       \/ Paid(k)' /\ t <= paidAt'[k] /\ paidAt'[k] < t + Window}
  <2>1. SumOf(old) <= RollingMax
    BY DEF Ceilings
  <2>2. old \in SUBSET Intents /\ new \in SUBSET old
    <3> SUFFICES ASSUME NEW k \in new
                 PROVE  k \in old
      BY DEF MovingFrom
    <3>1. k \in Intents /\ Quiet(k) /\ now \in Nat /\ paidAt[k] \in Int
      BY KernelAssumption
    <3>2. CASE paidAt'[k] = paidAt[k]
      BY <1>1, <3>1, <3>2 DEF Quiet, MovingFrom, Paid
    <3>3. CASE world[k] = "sent" /\ paidAt'[k] = now
      <4>1. intent[k] \in IntentState
        BY <3>1
      <4>2. Held(k) /\ ~Paid(k)
        BY <3>1, <3>3, <4>1
           DEF Sound, Row, EarlyRow, UnderwayRow, UnresolvedRow, TerminalRow, Unpaid, Underway,
               InFlightStates, IntentState, Held, Timed
      <4>3. now < t + Window
        BY <1>1, <3>1, <3>3 DEF Quiet, Paid
      <4>4. QED
        BY <3>1, <4>2, <4>3 DEF MovingFrom
    <3>4. QED
      BY <3>1, <3>2, <3>3 DEF Quiet
  <2>3. MovingFrom(t)' = new
    BY DEF MovingFrom
  <2> HIDE DEF old, new
  <2>4. SumOf(new) <= RollingMax
    BY <1>1, <2>1, <2>2, SumOfPart DEF old, MovingFrom
  <2>5. QED
    BY <2>3, <2>4 DEF SumOf
<1>5. QED
  BY <1>2, <1>3, <1>4, CeilingAssumption DEF Ceilings

-----------------------------------------------------------------------------
\* The Kernel starts with nothing reserved and nothing moved.
LEMMA CeilingInit == Init => CeilingInv
<1> SUFFICES ASSUME Init
             PROVE  CeilingInv
  OBVIOUS
<1> USE DEF Init, SpendIntentsInit, BudgetLedgerInit, ApprovalQueueInit
<1>1. Inv
  BY InitInv
<1>2. ASSUME NEW i \in Intents
      PROVE  Timed(i) /\ Permitted(i)
  BY DEF Timed, Permitted, Paid, Live, NoTime
<1>3. SumOf({}) = 0
  BY SumEmpty DEF SumOf
<1>4. \A k \in Intents : ~Exposed(k) /\ ~Paid(k)
  BY DEF Exposed, Held, Paid
<1>5. ASSUME NEW s \in Int
      PROVE  SessionExposure(s) <= SessionMax
  <2>1. {k \in Intents : Exposed(k) /\ sessionOf[k] = s} = {}
    BY <1>4
  <2>2. SessionExposure(s) = 0
    BY <1>3, <2>1 DEF SessionExposure
  <2>3. QED
    BY <2>2, CeilingAssumption
<1>6. ASSUME NEW s \in Int, NEW i \in Intents
      PROVE  SellerExposure(s, Seller[i]) <= SellerSessionMax
  <2>1. {k \in Intents : Exposed(k) /\ sessionOf[k] = s /\ Seller[k] = Seller[i]} = {}
    BY <1>4
  <2>2. SellerExposure(s, Seller[i]) = 0
    BY <1>3, <2>1 DEF SellerExposure
  <2>3. QED
    BY <2>2, CeilingAssumption
<1>7. ASSUME NEW t \in Int
      PROVE  SumOf(MovingFrom(t)) <= RollingMax
  <2>1. MovingFrom(t) = {}
    BY <1>4 DEF MovingFrom, Exposed
  <2>2. SumOf(MovingFrom(t)) = 0
    BY <1>3, <2>1
  <2>3. QED
    BY <2>2, CeilingAssumption
<1>8. QED
  BY <1>1, <1>2, <1>5, <1>6, <1>7 DEF CeilingInv, Ceilings

\* The strengthened invariant is inductive.
LEMMA CeilingNext == CeilingInv /\ [Next]_vars => CeilingInv'
<1> SUFFICES ASSUME CeilingInv, [Next]_vars
             PROVE  CeilingInv'
  OBVIOUS
<1>1. Inv /\ (\A i \in Intents : Timed(i) /\ Permitted(i)) /\ Ceilings
  BY DEF CeilingInv
<1>2. Inv'
  BY <1>1, NextInv
<1>3. \A i \in Intents : Timed(i)' /\ Permitted(i)'
  BY <1>1, TimedStep, PermittedStep
<1>4. Ceilings'
  BY <1>1, QuietStep, TakesWithinCeilings, QuietWithinCeilings
<1>5. QED
  BY <1>2, <1>3, <1>4 DEF CeilingInv

\* The ceilings hold of the ledger, and the deadlines of every authorization, in
\* every state of the Kernel.
THEOREM CeilingInvariance == Spec => []CeilingInv
  BY CeilingInit, CeilingNext, PTL DEF Spec

\* RollingCeilingHolds: reserveImpl compares the ceiling with held amounts and
\* with what was committed during the last Window; the money that moves in any
\* period of that length, by chain time, stays within it, for every amount, every
\* ceiling and every delay between a transfer and its settlement.
THEOREM RollingCeiling == Spec => []RollingCeilingHolds
<1>1. CeilingInv => RollingCeilingHolds
  <2> SUFFICES ASSUME CeilingInv, NEW i \in Intents, Paid(i)
               PROVE  SumOf({k \in Intents : /\ Paid(k)
                                             /\ paidAt[i] <= paidAt[k]
                                             /\ paidAt[k] < paidAt[i] + Window}) <= RollingMax
    BY DEF RollingCeilingHolds
  <2> DEFINE moved == {k \in Intents : /\ Paid(k)
                                       /\ paidAt[i] <= paidAt[k]
                                       /\ paidAt[k] < paidAt[i] + Window}
             t == paidAt[i]
  <2>1. t \in Int /\ SumOf(MovingFrom(t)) <= RollingMax
    BY DEF CeilingInv, Ceilings, Inv, TypeOK
  <2>2. moved \in SUBSET MovingFrom(t) /\ MovingFrom(t) \in SUBSET Intents
    BY DEF MovingFrom
  <2> HIDE DEF moved, t
  <2>3. SumOf(moved) <= RollingMax
    BY <2>1, <2>2, SumOfPart, CeilingAssumption
  <2>4. QED
    BY <2>3 DEF moved
<1>2. QED
  BY CeilingInvariance, <1>1, PTL

\* SessionCeilingHolds: whatever operations race for the last of a budget, what the
\* wallet was asked for in a session is within the session's and the seller's
\* ceiling, because it is in the ledger and the ledger is.
THEOREM SessionCeiling == Spec => []SessionCeilingHolds
<1>1. CeilingInv => SessionCeilingHolds
  <2> SUFFICES ASSUME CeilingInv, NEW s \in 1..session, NEW j \in Intents
               PROVE  /\ SumOf({i \in Intents : Live(i) /\ sessionOf[i] = s}) <= SessionMax
                      /\ SumOf({i \in {k \in Intents : Live(k) /\ sessionOf[k] = s} :
                                   Seller[i] = Seller[j]}) <= SellerSessionMax
    BY DEF SessionCeilingHolds
  <2> DEFINE asked == {i \in Intents : Live(i) /\ sessionOf[i] = s}
             askedBy == {i \in asked : Seller[i] = Seller[j]}
             held == {i \in Intents : Exposed(i) /\ sessionOf[i] = s}
             heldBy == {i \in Intents : Exposed(i) /\ sessionOf[i] = s /\ Seller[i] = Seller[j]}
  <2>1. SumOf(held) <= SessionMax /\ SumOf(heldBy) <= SellerSessionMax
    BY DEF CeilingInv, Ceilings, SessionExposure, SellerExposure
  <2>2. ASSUME NEW i \in Intents, Live(i)
        PROVE  Exposed(i)
    <3>1. intent[i] \in IntentState
      BY DEF CeilingInv, Inv, TypeOK, SpendIntentsTypeOK
    <3>2. QED
      BY <2>2, <3>1
         DEF CeilingInv, Inv, Sound, Row, EarlyRow, UnderwayRow, UnresolvedRow, TerminalRow, Unpaid,
             Underway, InFlightStates, IntentState, Live, Exposed, Held
  <2>3. /\ held \in SUBSET Intents /\ asked \in SUBSET held
        /\ heldBy \in SUBSET Intents /\ askedBy \in SUBSET heldBy
    BY <2>2
  <2> HIDE DEF asked, askedBy, held, heldBy
  <2>4. SumOf(asked) <= SessionMax /\ SumOf(askedBy) <= SellerSessionMax
    BY <2>1, <2>3, SumOfPart, CeilingAssumption
  <2>5. QED
    BY <2>4 DEF asked, askedBy
<1>2. QED
  BY CeilingInvariance, <1>1, PTL

\* PaidUnderAuthority: the authorization window, cut to whole seconds, ends no later
\* than the challenge and the consumed approval, and the token contract moves
\* nothing after it; so no transfer comes late, however long the seller waits.
THEOREM PaysUnderAuthority == Spec => []PaidUnderAuthority
<1>1. CeilingInv => PaidUnderAuthority
  <2> SUFFICES ASSUME CeilingInv, NEW i \in Intents, Paid(i)
               PROVE  /\ paidAt[i] < challengeAt[i] + ChallengeMaxAge
                      /\ decision[i] # "deny"
                      /\ Amount[i] > AutoLimit =>
                           approval[i] = "consumed" /\ paidAt[i] < expiresAt[i]
    BY DEF PaidUnderAuthority
  <2>1. world[i] = "transferred" /\ paidAt[i] < AuthorizationDeadline(i)
    BY DEF CeilingInv, Timed, Permitted
  <2>2. /\ intent[i] \in IntentState /\ paidAt[i] \in Int /\ challengeAt[i] \in Int
        /\ expiresAt[i] \in Int /\ ChallengeMaxAge \in Int
    BY ApprovalAssumption DEF CeilingInv, Inv, TypeOK, SpendIntentsTypeOK, ApprovalQueueTypeOK
  <2>3. budget[i] # "none" /\ Authorised(i)
    BY <2>1, <2>2
       DEF CeilingInv, Inv, Sound, Row, EarlyRow, UnderwayRow, UnresolvedRow, TerminalRow, Unpaid,
           Underway, InFlightStates, IntentState
  <2>4. decision[i] # "deny"
    BY <2>3 DEF CeilingInv, Permitted
  <2>5. /\ AuthorizationDeadline(i) <= challengeAt[i] + ChallengeMaxAge
        /\ approval[i] = "consumed" => AuthorizationDeadline(i) <= expiresAt[i]
        /\ AuthorizationDeadline(i) \in Int
    BY <2>2 DEF AuthorizationDeadline, ChallengeDeadline, Lesser
  <2>6. QED
    BY <2>1, <2>2, <2>3, <2>4, <2>5 DEF Authorised
<1>2. QED
  BY CeilingInvariance, <1>1, PTL

-----------------------------------------------------------------------------
(***************************************************************************)
(* The Wallet Kernel implements SpendEscrow: its initial states are those  *)
(* of the escrow, and every step is a step of the escrow or changes        *)
(* nothing the escrow sees.  That a hold is given back only when nothing   *)
(* was signed, and is spent only after the money moved, needs the rows of  *)
(* the inductive invariant.                                                *)
(***************************************************************************)
MaySpend == {"signed", "sent", "transferred"}

\* A step the owner of the wallet does not see.
Unseen ==
    /\ \A i \in Intents : HoldOf(budget[i])' = HoldOf(budget[i])
    /\ sessionOf' = sessionOf
    /\ \A i \in Intents : /\ world'[i] \in MaySpend <=> world[i] \in MaySpend
                          /\ world'[i] = "transferred" <=> world[i] = "transferred"

EscrowStep == [EscrowOfKernel!EscrowNext]_(EscrowOfKernel!escrowVars)

\* What the owner does not see changes nothing of the escrow.
LEMMA UnseenStep == ASSUME Unseen PROVE EscrowStep
<1>1. [i \in Intents |-> HoldOf(budget[i])]' = [i \in Intents |-> HoldOf(budget[i])]
  BY DEF Unseen
<1>2. {i \in Intents : world[i] \in {"signed", "sent", "transferred"}}'
        = {i \in Intents : world[i] \in {"signed", "sent", "transferred"}}
  BY DEF Unseen, MaySpend
<1>3. {i \in Intents : world[i] = "transferred"}' = {i \in Intents : world[i] = "transferred"}
  BY DEF Unseen
<1>4. sessionOf' = sessionOf
  BY DEF Unseen
<1>5. QED
  BY <1>1, <1>2, <1>3, <1>4 DEF EscrowStep, EscrowOfKernel!escrowVars

\* What the ledger counts for a session is what the escrow charged to it.
LEMMA ChargedIsExposure ==
  ASSUME TypeOK, NEW s PROVE EscrowOfKernel!Charged(s) = SessionExposure(s)
<1>1. {p \in Intents : /\ [i \in Intents |-> HoldOf(budget[i])][p] \in {"held", "spent"}
                       /\ sessionOf[p] = s}
        = {i \in Intents : Exposed(i) /\ sessionOf[i] = s}
  BY DEF TypeOK, BudgetLedgerTypeOK, BudgetState, HoldOf, Exposed, Held
<1>2. QED BY <1>1 DEF EscrowOfKernel!Charged, SessionExposure

\* One transition of one reservation is the same transition of its hold.
LEMMA HoldOfOne ==
  ASSUME TypeOK, NEW i \in Intents, NEW state \in BudgetState,
         budget' = [budget EXCEPT ![i] = state]
  PROVE  [k \in Intents |-> HoldOf(budget[k])]'
           = [[k \in Intents |-> HoldOf(budget[k])] EXCEPT ![i] = HoldOf(state)]
  BY DEF TypeOK, BudgetLedgerTypeOK, HoldOf

\* reserveImpl takes a hold: its ceilings are read in the same transaction.
LEMMA ReserveHolds ==
  ASSUME TypeOK, NEW i \in Intents, Reserve(i, now), sessionOf' = sessionOf, world' = world
  PROVE  EscrowStep
<1>1. [k \in Intents |-> HoldOf(budget[k])]'
        = [[k \in Intents |-> HoldOf(budget[k])] EXCEPT ![i] = "held"]
  BY HoldOfOne DEF Reserve, BudgetState, HoldOf
<1>2. HoldOf(budget[i]) = "none"
  BY DEF Reserve, HoldOf
<1>3. EscrowOfKernel!Charged(sessionOf[i]) + Amount[i] <= SessionMax
  BY ChargedIsExposure DEF Reserve, WithinCeilings
<1>4. EscrowOfKernel!Hold(i)
  BY <1>1, <1>2, <1>3 DEF EscrowOfKernel!Hold
<1>5. QED BY <1>4 DEF EscrowStep, EscrowOfKernel!EscrowNext

\* releaseImpl gives a hold back, where nothing was signed.
LEMMA ReleaseReturns ==
  ASSUME TypeOK, NEW i \in Intents, Release(i), world[i] \notin MaySpend,
         sessionOf' = sessionOf, world' = world
  PROVE  EscrowStep
<1>1. [k \in Intents |-> HoldOf(budget[k])]'
        = [k \in Intents |-> IF k \in {i} THEN "returned"
                             ELSE [j \in Intents |-> HoldOf(budget[j])][k]]
  BY DEF Release, HoldOf, TypeOK, BudgetLedgerTypeOK
<1>2. HoldOf(budget[i]) = "held"
  BY DEF Release, HoldOf
<1>3. EscrowOfKernel!Return({i})
  BY <1>1, <1>2 DEF EscrowOfKernel!Return, MaySpend
<1>4. QED BY <1>3 DEF EscrowStep, EscrowOfKernel!EscrowNext

\* holdUnresolvedImpl keeps the hold.
LEMMA UnresolvedStaysHeld ==
  ASSUME TypeOK, NEW i \in Intents, HoldUnresolved(i), sessionOf' = sessionOf, world' = world
  PROVE  EscrowStep
<1>1. \A k \in Intents : HoldOf(budget[k])' = HoldOf(budget[k])
  BY DEF HoldUnresolved, HoldOf, TypeOK, BudgetLedgerTypeOK
<1>2. QED BY <1>1, UnseenStep DEF Unseen, HoldOf

\* A new intent is charged to its session before anything is held for it.
LEMMA CaptureCharges ==
  ASSUME Inv, NEW i \in Intents, intent[i] = "none", NEW s \in 0..MaxSessions,
         sessionOf' = [sessionOf EXCEPT ![i] = s], budget' = budget, world' = world
  PROVE  EscrowStep
<1>1. HoldOf(budget[i]) = "none"
  BY DEF Inv, Sound, Row, EarlyRow, Unpaid, HoldOf
<1>2. EscrowOfKernel!Charge(i)
  BY <1>1 DEF EscrowOfKernel!Charge
<1>3. QED BY <1>2 DEF EscrowStep, EscrowOfKernel!EscrowNext

\* The end of a session gives back what none of its intents had signed for.
LEMMA EndSessionReturns ==
  ASSUME Inv, NEW command, EndSession(command) PROVE EscrowStep
<1> DEFINE open == {i \in InSession(session) : intent[i] # "terminal"}
           back == {i \in open : budget[i] = "reserved"}
<1> USE DEF Inv, TypeOK, SpendIntentsTypeOK, BudgetLedgerTypeOK
<1>1. back \in SUBSET Intents /\ sessionOf' = sessionOf /\ world' = world
  BY DEF InSession, EndSession, TerminateAll
<1>2. budget' = [i \in Intents |-> IF i \in back THEN "released" ELSE budget[i]]
  BY DEF EndSession, ReleaseAll, InSession
<1>3. [k \in Intents |-> HoldOf(budget[k])]'
        = [k \in Intents |-> IF k \in back THEN "returned"
                             ELSE [j \in Intents |-> HoldOf(budget[j])][k]]
  BY <1>2 DEF HoldOf
<1>4. ASSUME NEW i \in back PROVE HoldOf(budget[i]) = "held" /\ world[i] \notin MaySpend
  <2>1. i \in Intents /\ ~Unsafe(i) /\ budget[i] = "reserved"
    BY DEF InSession, EndSession
  <2>2. intent[i] = "reserved"
    BY <2>1 DEF Unsafe, Sound, Row, EarlyRow, TerminalRow, Unpaid, IntentState, InFlightStates
  <2>3. QED
    BY <2>1, <2>2 DEF Sound, Row, UnderwayRow, HoldOf, MaySpend
<1>5. EscrowOfKernel!Return(back)
  BY <1>1, <1>3, <1>4 DEF EscrowOfKernel!Return, MaySpend
<1>6. QED BY <1>1, <1>5 DEF EscrowStep, EscrowOfKernel!EscrowNext

-----------------------------------------------------------------------------
\* The initial states of the Kernel are initial states of the escrow.
LEMMA EscrowStart == Init => EscrowOfKernel!EscrowInit
  BY SessionsAssumption
     DEF Init, SpendIntentsInit, BudgetLedgerInit, HoldOf, EscrowOfKernel!EscrowInit

\* Every step of the Kernel is a step of the escrow, or one the escrow does not see.
LEMMA EscrowNextStep == Inv /\ [Next]_vars => EscrowStep
<1> SUFFICES ASSUME Inv, [Next]_vars PROVE EscrowStep
  OBVIOUS
<1>0. TypeOK
  BY DEF Inv
<1>1. ASSUME NEW i \in Intents, CaptureIntent(i) PROVE EscrowStep
  <2>1. session \in 0..MaxSessions
    BY <1>0, SessionsAssumption DEF TypeOK, SpendIntentsTypeOK
  <2>2. QED BY <1>1, <2>1, CaptureCharges DEF CaptureIntent, Capture
<1>2. ASSUME NEW i \in Intents, ResumeIntent(i) PROVE EscrowStep
  BY <1>2, UnseenStep DEF ResumeIntent, Unseen, HoldOf
<1>3. ASSUME NEW i \in Intents, RetryApproved(i) PROVE EscrowStep
  BY <1>3, UnseenStep DEF RetryApproved, Unseen, HoldOf
<1>4. ASSUME NEW i \in Intents, NEW e \in Deliveries, OrdinaryResponse(i, e) PROVE EscrowStep
  BY <1>4, UnseenStep DEF OrdinaryResponse, Unseen, HoldOf, Transition
<1>5. ASSUME NEW i \in Intents, ReprobeTransportFailure(i) PROVE EscrowStep
  BY <1>5, UnseenStep DEF ReprobeTransportFailure, Unseen, HoldOf, Transition
<1>6. ASSUME NEW i \in Intents, MalformedChallenge(i) PROVE EscrowStep
  BY <1>6, UnseenStep DEF MalformedChallenge, Unseen, HoldOf, Transition
<1>7. ASSUME NEW i \in Intents, ReceiveChallenge(i) PROVE EscrowStep
  BY <1>7, UnseenStep DEF ReceiveChallenge, Unseen, HoldOf
<1>8. ASSUME NEW i \in Intents, AttachChallenge(i) PROVE EscrowStep
  BY <1>8, UnseenStep DEF AttachChallenge, Unseen, HoldOf, Attach
<1>9. ASSUME NEW i \in Intents, DenyChallenge(i) PROVE EscrowStep
  BY <1>9, UnseenStep DEF DenyChallenge, Unseen, HoldOf, Transition
<1>10. ASSUME NEW i \in Intents, RequestApproval(i) PROVE EscrowStep
  BY <1>10, UnseenStep DEF RequestApproval, Unseen, HoldOf, Transition
<1>11. ASSUME NEW i \in Intents, ReserveAutomatic(i) PROVE EscrowStep
  BY <1>11, <1>0, ReserveHolds DEF ReserveAutomatic, Transition
<1>12. ASSUME NEW i \in Intents, FreshChallenge(i) PROVE EscrowStep
  BY <1>12, UnseenStep DEF FreshChallenge, Unseen, HoldOf
<1>13. ASSUME NEW i \in Intents, ReserveApproved(i) PROVE EscrowStep
  BY <1>13, <1>0, ReserveHolds DEF ReserveApproved, Transition
<1>14. ASSUME NEW i \in Intents, CancelChanged(i) PROVE EscrowStep
  BY <1>14, UnseenStep DEF CancelChanged, Unseen, HoldOf, Transition
<1>15. ASSUME NEW i \in Intents, NEW j \in Intents, ReplaceChanged(i, j) PROVE EscrowStep
  <2>1. sessionOf[i] \in 0..MaxSessions
    BY <1>0 DEF TypeOK, SpendIntentsTypeOK
  <2>2. QED BY <1>15, <2>1, CaptureCharges DEF ReplaceChanged, CaptureReplacement
<1>16. ASSUME NEW i \in Intents, SigningClaim(i) PROVE EscrowStep
  <2>1. world[i] = "untouched" /\ world' = [world EXCEPT ![i] = "asked"]
    BY <1>16
       DEF SigningClaim, Transition, CanTransition,
           Inv, Sound, Row, EarlyRow, UnderwayRow, UnresolvedRow,
           TerminalRow, Unpaid, Underway
  <2>2. QED
    BY <1>16, <1>0, <2>1, UnseenStep DEF SigningClaim, Transition, Unseen, HoldOf, MaySpend, TypeOK
<1>17. ASSUME NEW i \in Intents, ReleaseUnsigned(i) PROVE EscrowStep
  <2>1. world[i] = "untouched"
    BY <1>17
       DEF ReleaseUnsigned, Transition, CanTransition,
           Inv, Sound, Row, EarlyRow, UnderwayRow, UnresolvedRow,
           TerminalRow, Unpaid, Underway
  <2>2. QED
    BY <1>17, <1>0, <2>1, ReleaseReturns DEF ReleaseUnsigned, Transition, MaySpend
<1>18. ASSUME NEW i \in Intents, PersistSigned(i) PROVE EscrowStep
  BY <1>18, UnseenStep DEF PersistSigned, Unseen, HoldOf, Transition
<1>19. ASSUME NEW i \in Intents, PreSignReject(i) PROVE EscrowStep
  BY <1>19, <1>0, ReleaseReturns DEF PreSignReject, PreSignProof, MaySpend
<1>20. ASSUME NEW i \in Intents, HoldSigning(i) PROVE EscrowStep
  BY <1>20, <1>0, UnresolvedStaysHeld DEF HoldSigning, Transition
<1>21. ASSUME NEW i \in Intents, ClaimPaidRetry(i) PROVE EscrowStep
  BY <1>21, UnseenStep DEF ClaimPaidRetry, Unseen, HoldOf, Transition
<1>22. ASSUME NEW i \in Intents, SendPayment(i) PROVE EscrowStep
  <2>1. world[i] = "signed" /\ world' = [world EXCEPT ![i] = "sent"]
    BY <1>22 DEF SendPayment, Inv, Sound, Point
  <2>2. QED BY <1>22, <1>0, <2>1, UnseenStep DEF SendPayment, Unseen, HoldOf, MaySpend, TypeOK
<1>23. ASSUME NEW i \in Intents, NEW e \in Deliveries, SettleExecution(i, e) PROVE EscrowStep
  <2>1. [k \in Intents |-> HoldOf(budget[k])]'
          = [[k \in Intents |-> HoldOf(budget[k])] EXCEPT ![i] = "spent"]
    BY <1>23, <1>0, HoldOfOne DEF SettleExecution, Commit, BudgetState, HoldOf
  <2>2. HoldOf(budget[i]) = "held"
    BY <1>23 DEF SettleExecution, Commit, HoldOf
  <2>3. EscrowOfKernel!Spend(i)
    BY <1>23, <2>1, <2>2 DEF SettleExecution, Transition, EscrowOfKernel!Spend
  <2>4. QED BY <2>3 DEF EscrowStep, EscrowOfKernel!EscrowNext
<1>24. ASSUME NEW i \in Intents, HoldPaid(i) PROVE EscrowStep
  BY <1>24, <1>0, UnresolvedStaysHeld DEF HoldPaid, Transition
<1>25. ASSUME NEW i \in Intents, AbortOperation(i) PROVE EscrowStep
  BY <1>25, UnseenStep DEF AbortOperation, Unseen, HoldOf
<1>26. ASSUME NEW i \in Intents, ApprovePending(i) PROVE EscrowStep
  BY <1>26, UnseenStep DEF ApprovePending, Unseen, HoldOf
<1>27. ASSUME NEW i \in Intents, DenyPending(i) PROVE EscrowStep
  BY <1>27, UnseenStep DEF DenyPending, Unseen, HoldOf, Transition
<1>28. ASSUME NEW i \in Intents, ExpireDue(i) PROVE EscrowStep
  BY <1>28, UnseenStep DEF ExpireDue, Unseen, HoldOf, Transition
<1>29. CASE ApplyPolicy
  BY <1>29, UnseenStep DEF ApplyPolicy, Unseen, HoldOf
<1>30. CASE RevokeAgent
  BY <1>30, UnseenStep DEF RevokeAgent, Unseen, HoldOf
<1>31. CASE CloseSession
  BY <1>31, EndSessionReturns DEF CloseSession
<1>32. CASE TransitionSession
  BY <1>32, EndSessionReturns DEF TransitionSession
<1>33. ASSUME NEW i \in Intents, WalletAnswers(i) PROVE EscrowStep
  <2>1. CASE world' = [world EXCEPT ![i] = "refused"]
    BY <1>33, <1>0, <2>1, UnseenStep DEF WalletAnswers, Unseen, HoldOf, MaySpend, TypeOK
  <2>2. CASE world' = [world EXCEPT ![i] = "signed"]
    <3>1. HoldOf(budget[i]) = "held"
      BY <1>33, <1>0 DEF WalletAnswers, TypeOK, SpendIntentsTypeOK, IntentState, InFlightStates, HoldOf,
                        Inv, Sound, Row, EarlyRow, UnderwayRow, UnresolvedRow,
           TerminalRow, Unpaid, Underway
    <3>2. {k \in Intents : world[k] \in MaySpend}'
            = {k \in Intents : world[k] \in MaySpend} \cup {i}
      BY <1>33, <1>0, <2>2 DEF MaySpend, TypeOK
    <3>3. {k \in Intents : world[k] = "transferred"}'
            = {k \in Intents : world[k] = "transferred"}
      BY <1>33, <1>0, <2>2 DEF WalletAnswers, TypeOK
    <3>4. EscrowOfKernel!Sign(i)
      BY <1>33, <3>1, <3>2, <3>3 DEF WalletAnswers, MaySpend, EscrowOfKernel!Sign
    <3>5. QED BY <3>4 DEF EscrowStep, EscrowOfKernel!EscrowNext
  <2>3. QED BY <1>33, <2>1, <2>2 DEF WalletAnswers
<1>34. ASSUME NEW i \in Intents, ChainTransfers(i) PROVE EscrowStep
  <2>1. HoldOf(budget[i]) = "held"
    BY <1>34, <1>0 DEF ChainTransfers, TypeOK, SpendIntentsTypeOK, IntentState, InFlightStates, HoldOf,
                      Inv, Sound, Row, EarlyRow, UnderwayRow, UnresolvedRow,
           TerminalRow, Unpaid, Underway
  <2>2. {k \in Intents : world[k] \in MaySpend}' = {k \in Intents : world[k] \in MaySpend}
    BY <1>34, <1>0 DEF ChainTransfers, MaySpend, TypeOK
  <2>3. {k \in Intents : world[k] = "transferred"}'
          = {k \in Intents : world[k] = "transferred"} \cup {i}
    BY <1>34, <1>0 DEF ChainTransfers, TypeOK
  <2>4. EscrowOfKernel!Move(i)
    BY <1>34, <2>1, <2>2, <2>3 DEF ChainTransfers, MaySpend, EscrowOfKernel!Move
  <2>5. QED BY <2>4 DEF EscrowStep, EscrowOfKernel!EscrowNext
<1>35. CASE Tick
  BY <1>35, UnseenStep DEF Tick, Unseen, HoldOf
<1>36. CASE StopKernel
  BY <1>36, UnseenStep DEF StopKernel, Unseen, HoldOf
<1>37. CASE Restart
  BY <1>37, UnseenStep DEF Restart, Unseen, HoldOf
<1>38. ASSUME NEW i \in Intents, RepairAbandoned(i) PROVE EscrowStep
  BY <1>38, UnseenStep DEF RepairAbandoned, Unseen, HoldOf, Transition
<1>39. ASSUME NEW i \in Intents, RepairExpired(i) PROVE EscrowStep
  BY <1>39, UnseenStep DEF RepairExpired, Unseen, HoldOf, Transition
<1>40. ASSUME NEW i \in Intents, RepairReserved(i) PROVE EscrowStep
  <2>1. world[i] = "untouched"
    BY <1>40
       DEF RepairReserved, Transition, CanTransition,
           Inv, Sound, Row, EarlyRow, UnderwayRow, UnresolvedRow,
           TerminalRow, Unpaid, Underway
  <2>2. QED
    BY <1>40, <1>0, <2>1, ReleaseReturns DEF RepairReserved, Transition, MaySpend
<1>41. ASSUME NEW i \in Intents, RepairAmbiguous(i) PROVE EscrowStep
  BY <1>41, <1>0, UnresolvedStaysHeld DEF RepairAmbiguous, Transition
<1>42. CASE FinishRecovery
  BY <1>42, UnseenStep DEF FinishRecovery, Unseen, HoldOf
<1>43. CASE UNCHANGED vars
  BY <1>43, UnseenStep DEF vars, Unseen, HoldOf
<1>44. QED
  BY <1>1, <1>2, <1>3, <1>4, <1>5, <1>6, <1>7, <1>8, <1>9, <1>10, <1>11, <1>12, <1>13, <1>14,
     <1>15, <1>16, <1>17, <1>18, <1>19, <1>20, <1>21, <1>22, <1>23, <1>24, <1>25, <1>26, <1>27,
     <1>28, <1>29, <1>30, <1>31, <1>32, <1>33, <1>34, <1>35, <1>36, <1>37, <1>38, <1>39, <1>40,
     <1>41, <1>42, <1>43
     DEF Next, Operation, Repair

\* ImplementsEscrow: for every set of intents, every amount and every ceiling, what
\* the Kernel does to the money, its crashes and its recovery included, is what the
\* escrow allows.
THEOREM KernelImplementsEscrow == Spec => ImplementsEscrow
<1>1. Inv /\ [Next]_vars => [EscrowOfKernel!EscrowNext]_(EscrowOfKernel!escrowVars)
  BY EscrowNextStep DEF EscrowStep
<1>2. QED
  BY Invariance, <1>1, EscrowStart, PTL DEF Spec, ImplementsEscrow, EscrowOfKernel!Escrow
=============================================================================
