----------------------- MODULE WalletKernelInvariant -----------------------
(***************************************************************************)
(* The inductive invariant of the Wallet Kernel and the proof, action by   *)
(* action, that every step preserves it.  WalletKernel_proofs draws the    *)
(* theorems about the Kernel from it.                                      *)
(***************************************************************************)
EXTENDS WalletKernel, TLAPS

USE DEF intentVars, sessionVars, ledgerVars, queueVars, processVars, operationVars,
        decisionVars, attemptVars, effectVars, worldVars

-----------------------------------------------------------------------------
(***************************************************************************)
(* The inductive invariant.  For every intent: the rows of the tables      *)
(* agree with its state, and the wallet and the chain with the rows (Row); *)
(* the operation is at a point the rows allow, and where money is on its   *)
(* way it is exactly there (Point); receipts follow outcomes (Signed); and *)
(* nothing of an ended session is alive (Inert).                           *)
(***************************************************************************)
\* Nothing was ever reserved for the intent.
Unpaid(i) ==
    /\ budget[i] = "none" /\ attempt[i] = "none" /\ resolution[i] = "none"
    /\ world[i] = "untouched" /\ asks[i] = 0

\* The whole amount is reserved and the payment is on its way.
Underway(i) ==
    /\ budget[i] = "reserved" /\ attempt[i] = intent[i]
    /\ execution[i] = "none" /\ resolution[i] = "none" /\ outcome[i] = "none"

\* The approval of an intent whose budget was reserved at some time.
Authorised(i) ==
    /\ approval[i] \in {"none", "consumed"}
    /\ Amount[i] > AutoLimit => approval[i] = "consumed"

EarlyRow(i) ==
    intent[i] \in {"none", "captured", "challenged", "approval_pending"} =>
        /\ Unpaid(i) /\ execution[i] = "none" /\ outcome[i] = "none"
        /\ intent[i] \in {"none", "captured"} => decision[i] = "none"
        /\ intent[i] \in {"none", "captured", "challenged"} => approval[i] = "none"
        /\ intent[i] = "challenged" => decision[i] # "none"
        /\ intent[i] = "approval_pending" =>
             decision[i] = "approval_required" /\ approval[i] \in OpenDecisions

UnderwayRow(i) ==
    intent[i] \in {"reserved"} \cup InFlightStates =>
        /\ Underway(i) /\ Authorised(i)
        /\ intent[i] = "reserved" => world[i] = "untouched" /\ asks[i] = 0
        /\ intent[i] # "reserved" => asks[i] = 1
        /\ intent[i] = "signing" => world[i] \in {"asked", "signed", "refused"}
        /\ intent[i] = "signed" => world[i] = "signed"
        /\ intent[i] = "retrying" => world[i] \in {"signed", "sent", "transferred"}

UnresolvedRow(i) ==
    intent[i] = "unresolved" =>
        /\ budget[i] = "unresolved" /\ attempt[i] = "unresolved"
        /\ execution[i] = "none" /\ resolution[i] = "none"
        /\ outcome[i] = "payment_unresolved"
        /\ Authorised(i) /\ asks[i] = 1

TerminalRow(i) ==
    intent[i] = "terminal" =>
        /\ outcome[i] # "none"
        /\ \/ Unpaid(i) /\ approval[i] # "consumed"
           \/ /\ budget[i] = "released" /\ attempt[i] = "rejected"
              /\ execution[i] = "none" /\ resolution[i] = "none"
              /\ world[i] \in {"untouched", "refused"} /\ asks[i] <= 1
              /\ Authorised(i)
           \/ /\ budget[i] = "committed" /\ attempt[i] = "settled"
              /\ execution[i] \in Deliveries /\ resolution[i] = ResolutionFor(execution[i])
              /\ world[i] = "transferred" /\ asks[i] = 1
              /\ Authorised(i)

Row(i) ==
    /\ EarlyRow(i)
    /\ UnderwayRow(i)
    /\ UnresolvedRow(i)
    /\ TerminalRow(i)
    /\ decision[i] = "allow" => Amount[i] <= AutoLimit

Point(i) ==
    /\ intent[i] = "none" => pc[i] = "idle"
    /\ pc[i] = "sign" => intent[i] = "signing"
    /\ pc[i] = "retry" => intent[i] = "signed"
    /\ pc[i] = "send" => intent[i] = "retrying" /\ world[i] = "signed"
    /\ pc[i] = "pay" => intent[i] = "retrying" /\ world[i] \in {"sent", "transferred"}
    /\ mode # "up" => pc[i] = "idle"
    /\ mode = "up" /\ intent[i] = "signing" => pc[i] = "sign"
    /\ mode = "up" /\ intent[i] = "signed" => pc[i] = "retry"
    /\ mode = "up" /\ intent[i] = "retrying" => pc[i] \in {"send", "pay"}

Signed(i) ==
    /\ receipt[i] => outcome[i] # "none"
    /\ mode \in {"up", "recovery_only"} /\ outcome[i] # "none" => receipt[i]

Inert(i) ==
    intent[i] # "none" =>
        /\ sessionOf[i] <= session
        /\ sessionOf[i] < session \/ sessionState = "closed" =>
             intent[i] = "terminal" /\ resolution[i] = "none"

Sound(i) == Row(i) /\ Point(i) /\ Signed(i) /\ Inert(i)

Inv == TypeOK /\ \A i \in Intents : Sound(i)

\* What the end of its session does to an intent that is not terminal.
Ended(k) ==
    /\ intent'[k] = "terminal" /\ outcome'[k] = "payment_denied"
    /\ budget'[k] = IF budget[k] = "reserved" THEN "released" ELSE budget[k]
    /\ attempt'[k] = IF attempt[k] = "reserved" THEN "rejected" ELSE attempt[k]
    /\ approval'[k] = IF approval[k] \in OpenDecisions THEN "cancelled" ELSE approval[k]
    /\ execution'[k] = execution[k] /\ resolution'[k] = resolution[k]
    /\ world'[k] = world[k] /\ asks'[k] = asks[k] /\ decision'[k] = decision[k]

\* What it does to any other intent.
Untouched(k) ==
    /\ intent'[k] = intent[k] /\ outcome'[k] = outcome[k]
    /\ budget'[k] = budget[k] /\ attempt'[k] = attempt[k] /\ approval'[k] = approval[k]
    /\ execution'[k] = execution[k] /\ resolution'[k] = resolution[k]
    /\ world'[k] = world[k] /\ asks'[k] = asks[k] /\ decision'[k] = decision[k]

\* What one step may not change: OutcomeFinal for one intent.
Final(k) ==
    /\ outcome[k] # "none" => outcome'[k] = outcome[k]
    /\ budget[k] \in {"committed", "released"} => budget'[k] = budget[k]
    /\ receipt[k] => receipt'[k]

\* What one step may not do under a frozen authority, for one intent.
Frozen(k) ==
    SomethingAmbiguous \/ ~enrolled \/ sessionState # "open" =>
        /\ asks'[k] = asks[k]
        /\ budget'[k] = "reserved" => budget[k] = "reserved"

\* Whole seconds are integers.
LEMMA SecondsType == ASSUME NEW t \in Int PROVE Seconds(t) \in Int
  BY KernelAssumption DEF Seconds

\* An approval expires at an instant, whatever its two deadlines are.
LEMMA ExpiryType ==
  ASSUME NEW at \in Int, NEW received \in Int PROVE ExpiryOf(at, received) \in Int
  BY ApprovalAssumption DEF ExpiryOf

\* evaluateSpendPolicy allows only what is within the automatic limit.
LEMMA DecideRange ==
  ASSUME NEW i \in Intents, NEW at
  PROVE  /\ Decide(i, at) \in {"deny", "allow", "approval_required"}
         /\ Decide(i, at) = "allow" => Amount[i] <= AutoLimit
  BY AmountAssumption, KernelAssumption DEF Decide

\* The end of a callback issues the receipts it must, or stops the Kernel.
LEMMA ConcludeEffect ==
  ASSUME NEW S, NEW ended, Conclude(S, ended), TypeOK
  PROVE  \/ /\ \A k \in Intents :
                  /\ receipt'[k] <=> receipt[k] \/ k \in S
                  /\ pc'[k] = IF k \in ended THEN "idle" ELSE pc[k]
            /\ mode' = mode
         \/ /\ \A k \in Intents : (receipt'[k] <=> receipt[k]) /\ pc'[k] = "idle"
            /\ mode' = "stopped"
  BY DEF Conclude, EndOperations, TypeOK

\* It keeps the types of what it changes.
LEMMA ConcludeType ==
  ASSUME TypeOK, NEW S, NEW ended, Conclude(S, ended)
  PROVE  /\ mode' \in Mode /\ faults' \in 0..MaxFaults /\ startedAt' \in Int
         /\ pc' \in [Intents -> ProgramPoint]
         /\ receivedAt' \in [Intents -> Int]
         /\ receipt' \in [Intents -> BOOLEAN]
<1> USE DEF TypeOK, Mode, ProgramPoint, NoTime
<1>1. /\ pc' \in [Intents -> ProgramPoint]
      /\ receivedAt' \in [Intents -> Int]
  BY DEF Conclude, EndOperations
<1>2. receipt' \in [Intents -> BOOLEAN]
  BY DEF Conclude
<1>3. mode' \in Mode /\ faults' \in 0..MaxFaults /\ startedAt' \in Int
  BY KernelAssumption DEF Conclude, FaultLeft
<1>4. QED BY <1>1, <1>2, <1>3

\* Every step, a crash or a repair included, keeps the types.
LEMMA TypeStep == Inv /\ [Next]_vars => TypeOK'
<1> SUFFICES ASSUME Inv, [Next]_vars PROVE TypeOK'
  OBVIOUS
<1> USE DEF Inv, TypeOK, SpendIntentsTypeOK, BudgetLedgerTypeOK, ApprovalQueueTypeOK, NoTime,
            IntentState, SessionState, BudgetState, ApprovalDecision, Mode, ProgramPoint,
            AttemptState, BuyerStatus, WorldState
<1>1. ASSUME NEW i \in Intents, CaptureIntent(i) PROVE TypeOK'
  BY <1>1 DEF CaptureIntent, Capture, Goto
<1>2. ASSUME NEW i \in Intents, ResumeIntent(i) PROVE TypeOK'
  BY <1>2 DEF ResumeIntent, Goto
<1>3. ASSUME NEW i \in Intents, RetryApproved(i) PROVE TypeOK'
  BY <1>3 DEF RetryApproved, Goto
<1>4. ASSUME NEW i \in Intents, NEW e \in Deliveries, OrdinaryResponse(i, e) PROVE TypeOK'
  BY <1>4, ConcludeType DEF OrdinaryResponse, Transition, Record, Deliveries
<1>5. ASSUME NEW i \in Intents, ReprobeTransportFailure(i) PROVE TypeOK'
  BY <1>5, ConcludeType DEF ReprobeTransportFailure, Transition, Record, Deliveries
<1>6. ASSUME NEW i \in Intents, MalformedChallenge(i) PROVE TypeOK'
  BY <1>6, ConcludeType DEF MalformedChallenge, Transition, Record
<1>7. ASSUME NEW i \in Intents, ReceiveChallenge(i) PROVE TypeOK'
  BY <1>7 DEF ReceiveChallenge
<1>8. ASSUME NEW i \in Intents, AttachChallenge(i) PROVE TypeOK'
  BY <1>8 DEF AttachChallenge, Attach, Goto, Decide
<1>9. ASSUME NEW i \in Intents, DenyChallenge(i) PROVE TypeOK'
  BY <1>9, ConcludeType DEF DenyChallenge, Transition, Record
<1>10. ASSUME NEW i \in Intents, RequestApproval(i) PROVE TypeOK'
  <2>1. ExpiryOf(decidedAt[i], challengeAt[i]) \in Int
    BY ExpiryType
  <2>2. QED BY <1>10, <2>1 DEF RequestApproval, Transition, Request, Goto
<1>11. ASSUME NEW i \in Intents, ReserveAutomatic(i) PROVE TypeOK'
  BY <1>11 DEF ReserveAutomatic, Transition, Reserve, SetAttempt, Goto
<1>12. ASSUME NEW i \in Intents, FreshChallenge(i) PROVE TypeOK'
  BY <1>12 DEF FreshChallenge, Goto
<1>13. ASSUME NEW i \in Intents, ReserveApproved(i) PROVE TypeOK'
  BY <1>13 DEF ReserveApproved, Transition, Consume, Reserve, SetAttempt, Goto
<1>14. ASSUME NEW i \in Intents, CancelChanged(i) PROVE TypeOK'
  BY <1>14, ConcludeType DEF CancelChanged, Cancel, Transition, Record
<1>15. ASSUME NEW i \in Intents, NEW j \in Intents, ReplaceChanged(i, j) PROVE TypeOK'
  <2>1. now \in Int /\ ExpiryOf(now, now) \in Int
    BY KernelAssumption, ExpiryType
  <2>2. QED
    BY <1>15, <2>1, ConcludeType DEF ReplaceChanged, Renew, CaptureReplacement, Record
<1>16. ASSUME NEW i \in Intents, SigningClaim(i) PROVE TypeOK'
  BY <1>16, KernelAssumption, ApprovalAssumption, SecondsType
     DEF SigningClaim, Transition, Goto, AuthorizationDeadline, ChallengeDeadline, Lesser
<1>17. ASSUME NEW i \in Intents, ReleaseUnsigned(i) PROVE TypeOK'
  BY <1>17, ConcludeType DEF ReleaseUnsigned, Transition, Release, SetAttempt, Record
<1>18. ASSUME NEW i \in Intents, PersistSigned(i) PROVE TypeOK'
  BY <1>18 DEF PersistSigned, Transition, SetAttempt, Goto
<1>19. ASSUME NEW i \in Intents, PreSignReject(i) PROVE TypeOK'
  BY <1>19, ConcludeType DEF PreSignReject, Release, SetAttempt, Record
<1>20. ASSUME NEW i \in Intents, HoldSigning(i) PROVE TypeOK'
  BY <1>20, ConcludeType DEF HoldSigning, Transition, HoldUnresolved, SetAttempt, Record
<1>21. ASSUME NEW i \in Intents, ClaimPaidRetry(i) PROVE TypeOK'
  BY <1>21 DEF ClaimPaidRetry, Transition, SetAttempt, Goto
<1>22. ASSUME NEW i \in Intents, SendPayment(i) PROVE TypeOK'
  BY <1>22 DEF SendPayment, Goto
<1>23. ASSUME NEW i \in Intents, NEW e \in Deliveries, SettleExecution(i, e) PROVE TypeOK'
  BY <1>23, ConcludeType
     DEF SettleExecution, Transition, Commit, SetAttempt, Record, ResolutionFor, SettledStatus,
         Deliveries
<1>24. ASSUME NEW i \in Intents, HoldPaid(i) PROVE TypeOK'
  BY <1>24, ConcludeType DEF HoldPaid, Transition, HoldUnresolved, SetAttempt, Record
<1>25. ASSUME NEW i \in Intents, AbortOperation(i) PROVE TypeOK'
  BY <1>25 DEF AbortOperation, Goto
<1>26. ASSUME NEW i \in Intents, ApprovePending(i) PROVE TypeOK'
  BY <1>26 DEF ApprovePending, Approve
<1>27. ASSUME NEW i \in Intents, DenyPending(i) PROVE TypeOK'
  BY <1>27, ConcludeType DEF DenyPending, Deny, Transition, Record
<1>28. ASSUME NEW i \in Intents, ExpireDue(i) PROVE TypeOK'
  BY <1>28, ConcludeType DEF ExpireDue, Expire, Transition, Record
<1>29. CASE ApplyPolicy
  BY <1>29 DEF ApplyPolicy, BlockSession
<1>30. CASE RevokeAgent
  BY <1>30 DEF RevokeAgent, Revoke
<1>31. CASE CloseSession
  BY <1>31, ConcludeType
     DEF CloseSession, EndSession, CloseLast, CancelAll, ReleaseAll, TerminateAll, InSession
<1>32. CASE TransitionSession
  BY <1>32, SessionsAssumption, ConcludeType
     DEF TransitionSession, EndSession, ReplaceLast, CancelAll, ReleaseAll, TerminateAll,
         InSession
<1>33. ASSUME NEW i \in Intents, WalletAnswers(i) PROVE TypeOK'
  BY <1>33 DEF WalletAnswers
<1>34. ASSUME NEW i \in Intents, ChainTransfers(i) PROVE TypeOK'
  BY <1>34 DEF ChainTransfers
<1>35. CASE Tick
  BY <1>35, KernelAssumption DEF Tick
<1>36. CASE StopKernel
  BY <1>36, KernelAssumption DEF StopKernel, EndOperations, FaultLeft
<1>37. CASE Restart
  BY <1>37 DEF Restart
<1>38. ASSUME NEW i \in Intents, RepairAbandoned(i) PROVE TypeOK'
  BY <1>38 DEF RepairAbandoned, Transition, Record
<1>39. ASSUME NEW i \in Intents, RepairExpired(i) PROVE TypeOK'
  BY <1>39 DEF RepairExpired, Transition, Expire, Record
<1>40. ASSUME NEW i \in Intents, RepairReserved(i) PROVE TypeOK'
  BY <1>40 DEF RepairReserved, Transition, Release, SetAttempt, Record
<1>41. ASSUME NEW i \in Intents, RepairAmbiguous(i) PROVE TypeOK'
  BY <1>41 DEF RepairAmbiguous, Transition, HoldUnresolved, SetAttempt, Record
<1>42. CASE FinishRecovery
  BY <1>42, SessionsAssumption DEF FinishRecovery, RecoveredReceipt, OpenOrResume
<1>43. CASE UNCHANGED vars
  BY <1>43 DEF vars
<1>44. QED
  BY <1>1, <1>2, <1>3, <1>4, <1>5, <1>6, <1>7, <1>8, <1>9, <1>10, <1>11, <1>12, <1>13, <1>14,
     <1>15, <1>16, <1>17, <1>18, <1>19, <1>20, <1>21, <1>22, <1>23, <1>24, <1>25, <1>26, <1>27,
     <1>28, <1>29, <1>30, <1>31, <1>32, <1>33, <1>34, <1>35, <1>36, <1>37, <1>38, <1>39, <1>40,
     <1>41, <1>42, <1>43
     DEF Next, Operation, Repair

\* Every step keeps the rows of an intent, the wallet and the chain in agreement.
LEMMA RowStep == Inv /\ [Next]_vars => \A k \in Intents : Row(k)'
<1> SUFFICES ASSUME Inv, [Next]_vars, NEW k \in Intents PROVE Row(k)'
  OBVIOUS
<1> USE DEF Inv, Sound, Row, EarlyRow, UnderwayRow, UnresolvedRow, TerminalRow, Unpaid,
            Underway, Authorised, InFlightStates, OpenDecisions, TypeOK, SpendIntentsTypeOK,
            BudgetLedgerTypeOK, ApprovalQueueTypeOK
<1>1. ASSUME NEW i \in Intents, CaptureIntent(i) PROVE Row(k)'
  BY <1>1 DEF CaptureIntent, Capture, Goto, SessionLive
<1>2. ASSUME NEW i \in Intents, ResumeIntent(i) PROVE Row(k)'
  BY <1>2 DEF ResumeIntent, Goto
<1>3. ASSUME NEW i \in Intents, RetryApproved(i) PROVE Row(k)'
  BY <1>3 DEF RetryApproved, Goto
<1>4. ASSUME NEW i \in Intents, NEW e \in Deliveries, OrdinaryResponse(i, e) PROVE Row(k)'
  BY <1>4, ConcludeEffect
     DEF OrdinaryResponse, Transition, Record, CanTransition, LegalNext, AdvancesAuthority,
         SessionLive
<1>5. ASSUME NEW i \in Intents, ReprobeTransportFailure(i) PROVE Row(k)'
  BY <1>5, ConcludeEffect
     DEF ReprobeTransportFailure, Transition, Record, CanTransition, LegalNext,
         AdvancesAuthority, SessionLive
<1>6. ASSUME NEW i \in Intents, MalformedChallenge(i) PROVE Row(k)'
  BY <1>6, ConcludeEffect
     DEF MalformedChallenge, Transition, Record, CanTransition, LegalNext, AdvancesAuthority,
         SessionLive
<1>7. ASSUME NEW i \in Intents, ReceiveChallenge(i) PROVE Row(k)'
  BY <1>7 DEF ReceiveChallenge
<1>8. ASSUME NEW i \in Intents, AttachChallenge(i) PROVE Row(k)'
  BY <1>8, DecideRange DEF AttachChallenge, Attach, Goto, Decide, SessionLive, Point
<1>9. ASSUME NEW i \in Intents, DenyChallenge(i) PROVE Row(k)'
  BY <1>9, ConcludeEffect
     DEF DenyChallenge, Transition, Record, CanTransition, LegalNext, AdvancesAuthority,
         SessionLive
<1>10. ASSUME NEW i \in Intents, RequestApproval(i) PROVE Row(k)'
  BY <1>10
     DEF RequestApproval, Transition, Request, Goto, CanTransition, LegalNext,
         AdvancesAuthority, SessionLive, CanRequest
<1>11. ASSUME NEW i \in Intents, ReserveAutomatic(i) PROVE Row(k)'
  <2>1. intent[i] = "challenged" /\ Amount[i] <= AutoLimit
    BY <1>11 DEF ReserveAutomatic, Transition, CanTransition
  <2>2. ~(Amount[i] > AutoLimit)
    BY <2>1, AmountAssumption, KernelAssumption
  <2>3. QED BY <1>11, <2>1, <2>2 DEF ReserveAutomatic, Transition, Reserve, SetAttempt
<1>12. ASSUME NEW i \in Intents, FreshChallenge(i) PROVE Row(k)'
  BY <1>12 DEF FreshChallenge, Goto
<1>13. ASSUME NEW i \in Intents, ReserveApproved(i) PROVE Row(k)'
  BY <1>13
     DEF ReserveApproved, Transition, Consume, Reserve, SetAttempt, Goto, CanTransition,
         LegalNext, AdvancesAuthority, SessionLive, CanConsume
<1>14. ASSUME NEW i \in Intents, CancelChanged(i) PROVE Row(k)'
  BY <1>14, ConcludeEffect
     DEF CancelChanged, Cancel, Transition, Record, CanTransition, LegalNext, AdvancesAuthority,
         SessionLive, OpenDecisions
<1>15. ASSUME NEW i \in Intents, NEW j \in Intents, ReplaceChanged(i, j) PROVE Row(k)'
  BY <1>15, ConcludeEffect
     DEF ReplaceChanged, Renew, CaptureReplacement, Record, SessionLive, OpenDecisions
<1>16. ASSUME NEW i \in Intents, SigningClaim(i) PROVE Row(k)'
  BY <1>16
     DEF SigningClaim, Transition, Goto, CanTransition, LegalNext, AdvancesAuthority,
         SessionLive
<1>17. ASSUME NEW i \in Intents, ReleaseUnsigned(i) PROVE Row(k)'
  BY <1>17, ConcludeEffect
     DEF ReleaseUnsigned, Transition, Release, SetAttempt, Record, CanTransition, LegalNext,
         AdvancesAuthority, SessionLive
<1>18. ASSUME NEW i \in Intents, PersistSigned(i) PROVE Row(k)'
  BY <1>18
     DEF PersistSigned, Transition, SetAttempt, Goto, CanTransition, LegalNext,
         AdvancesAuthority, SessionLive
<1>19. ASSUME NEW i \in Intents, PreSignReject(i) PROVE Row(k)'
  BY <1>19, ConcludeEffect DEF PreSignReject, Release, SetAttempt, Record, PreSignProof
<1>20. ASSUME NEW i \in Intents, HoldSigning(i) PROVE Row(k)'
  BY <1>20, ConcludeEffect
     DEF HoldSigning, Transition, HoldUnresolved, SetAttempt, Record, CanTransition, LegalNext,
         AdvancesAuthority, SessionLive
<1>21. ASSUME NEW i \in Intents, ClaimPaidRetry(i) PROVE Row(k)'
  BY <1>21
     DEF ClaimPaidRetry, Transition, SetAttempt, Goto, CanTransition, LegalNext,
         AdvancesAuthority, SessionLive
<1>22. ASSUME NEW i \in Intents, SendPayment(i) PROVE Row(k)'
  BY <1>22 DEF SendPayment, Goto, Point
<1>23. ASSUME NEW i \in Intents, NEW e \in Deliveries, SettleExecution(i, e) PROVE Row(k)'
  BY <1>23, ConcludeEffect
     DEF SettleExecution, Transition, Commit, SetAttempt, Record, SettledStatus, CanTransition,
         LegalNext, AdvancesAuthority, SessionLive, Deliveries
<1>24. ASSUME NEW i \in Intents, HoldPaid(i) PROVE Row(k)'
  BY <1>24, ConcludeEffect
     DEF HoldPaid, Transition, HoldUnresolved, SetAttempt, Record, CanTransition, LegalNext,
         AdvancesAuthority, SessionLive
<1>25. ASSUME NEW i \in Intents, AbortOperation(i) PROVE Row(k)'
  BY <1>25 DEF AbortOperation, Goto, Refused
<1>26. ASSUME NEW i \in Intents, ApprovePending(i) PROVE Row(k)'
  BY <1>26 DEF ApprovePending, Approve, OpenDecisions
<1>27. ASSUME NEW i \in Intents, DenyPending(i) PROVE Row(k)'
  BY <1>27, ConcludeEffect
     DEF DenyPending, Deny, Transition, Record, CanTransition, LegalNext, AdvancesAuthority,
         SessionLive, OpenDecisions
<1>28. ASSUME NEW i \in Intents, ExpireDue(i) PROVE Row(k)'
  BY <1>28, ConcludeEffect
     DEF ExpireDue, Expire, Transition, Record, CanTransition, LegalNext, AdvancesAuthority,
         SessionLive, OpenDecisions
<1>29. CASE ApplyPolicy
  BY <1>29 DEF ApplyPolicy, BlockSession
<1>30. CASE RevokeAgent
  BY <1>30 DEF RevokeAgent, Revoke
<1>31. CASE CloseSession
  <2>1. k \in InSession(session) /\ intent[k] # "terminal" => Ended(k)
    BY <1>31 DEF CloseSession, EndSession, CancelAll, ReleaseAll, TerminateAll, Ended
  <2>2. ~(k \in InSession(session) /\ intent[k] # "terminal") => Untouched(k)
    BY <1>31 DEF CloseSession, EndSession, CancelAll, ReleaseAll, TerminateAll, Untouched
  <2>3. k \in InSession(session) => ~Unsafe(k)
    BY <1>31 DEF CloseSession, EndSession
  <2>4. QED BY <2>1, <2>2, <2>3 DEF Ended, Untouched, Unsafe, InSession, IntentState
<1>32. CASE TransitionSession
  <2>1. k \in InSession(session) /\ intent[k] # "terminal" => Ended(k)
    BY <1>32 DEF TransitionSession, EndSession, CancelAll, ReleaseAll, TerminateAll, Ended
  <2>2. ~(k \in InSession(session) /\ intent[k] # "terminal") => Untouched(k)
    BY <1>32 DEF TransitionSession, EndSession, CancelAll, ReleaseAll, TerminateAll, Untouched
  <2>3. k \in InSession(session) => ~Unsafe(k)
    BY <1>32 DEF TransitionSession, EndSession
  <2>4. QED BY <2>1, <2>2, <2>3 DEF Ended, Untouched, Unsafe, InSession, IntentState
<1>33. ASSUME NEW i \in Intents, WalletAnswers(i) PROVE Row(k)'
  BY <1>33 DEF WalletAnswers
<1>34. ASSUME NEW i \in Intents, ChainTransfers(i) PROVE Row(k)'
  BY <1>34 DEF ChainTransfers
<1>35. CASE Tick
  BY <1>35 DEF Tick
<1>36. CASE StopKernel
  BY <1>36 DEF StopKernel, EndOperations, FaultLeft
<1>37. CASE Restart
  BY <1>37 DEF Restart
<1>38. ASSUME NEW i \in Intents, RepairAbandoned(i) PROVE Row(k)'
  BY <1>38
     DEF RepairAbandoned, Transition, Record, CanTransition, LegalNext, AdvancesAuthority,
         SessionLive
<1>39. ASSUME NEW i \in Intents, RepairExpired(i) PROVE Row(k)'
  BY <1>39
     DEF RepairExpired, Transition, Expire, Record, CanTransition, LegalNext, AdvancesAuthority,
         SessionLive, OpenDecisions
<1>40. ASSUME NEW i \in Intents, RepairReserved(i) PROVE Row(k)'
  BY <1>40
     DEF RepairReserved, Transition, Release, SetAttempt, Record, CanTransition, LegalNext,
         AdvancesAuthority, SessionLive
<1>41. ASSUME NEW i \in Intents, RepairAmbiguous(i) PROVE Row(k)'
  BY <1>41
     DEF RepairAmbiguous, Transition, HoldUnresolved, SetAttempt, Record, CanTransition,
         LegalNext, AdvancesAuthority, SessionLive
<1>42. CASE FinishRecovery
  BY <1>42 DEF FinishRecovery, RecoveredReceipt, OpenOrResume, NeedsRepair, InFlightStates
<1>43. CASE UNCHANGED vars
  BY <1>43 DEF vars
<1>44. QED
  BY <1>1, <1>2, <1>3, <1>4, <1>5, <1>6, <1>7, <1>8, <1>9, <1>10, <1>11, <1>12, <1>13, <1>14,
     <1>15, <1>16, <1>17, <1>18, <1>19, <1>20, <1>21, <1>22, <1>23, <1>24, <1>25, <1>26, <1>27,
     <1>28, <1>29, <1>30, <1>31, <1>32, <1>33, <1>34, <1>35, <1>36, <1>37, <1>38, <1>39, <1>40,
     <1>41, <1>42, <1>43
     DEF Next, Operation, Repair

\* Every step keeps the operations where the rows say they are.
LEMMA PointStep == Inv /\ [Next]_vars => \A k \in Intents : Point(k)'
<1> SUFFICES ASSUME Inv, [Next]_vars, NEW k \in Intents PROVE Point(k)'
  OBVIOUS
<1> USE DEF Inv, Sound, Row, EarlyRow, UnderwayRow, UnresolvedRow, TerminalRow, Unpaid,
            Underway, Authorised, InFlightStates, OpenDecisions, Point, TypeOK,
            SpendIntentsTypeOK, BudgetLedgerTypeOK, ApprovalQueueTypeOK
<1>1. ASSUME NEW i \in Intents, CaptureIntent(i) PROVE Point(k)'
  BY <1>1 DEF CaptureIntent, Capture, Goto, SessionLive
<1>2. ASSUME NEW i \in Intents, ResumeIntent(i) PROVE Point(k)'
  BY <1>2 DEF ResumeIntent, Goto
<1>3. ASSUME NEW i \in Intents, RetryApproved(i) PROVE Point(k)'
  BY <1>3 DEF RetryApproved, Goto
<1>4. ASSUME NEW i \in Intents, NEW e \in Deliveries, OrdinaryResponse(i, e) PROVE Point(k)'
  BY <1>4, ConcludeEffect
     DEF OrdinaryResponse, Transition, Record, CanTransition, LegalNext, AdvancesAuthority,
         SessionLive
<1>5. ASSUME NEW i \in Intents, ReprobeTransportFailure(i) PROVE Point(k)'
  BY <1>5, ConcludeEffect
     DEF ReprobeTransportFailure, Transition, Record, CanTransition, LegalNext,
         AdvancesAuthority, SessionLive
<1>6. ASSUME NEW i \in Intents, MalformedChallenge(i) PROVE Point(k)'
  BY <1>6, ConcludeEffect
     DEF MalformedChallenge, Transition, Record, CanTransition, LegalNext, AdvancesAuthority,
         SessionLive
<1>7. ASSUME NEW i \in Intents, ReceiveChallenge(i) PROVE Point(k)'
  BY <1>7 DEF ReceiveChallenge
<1>8. ASSUME NEW i \in Intents, AttachChallenge(i) PROVE Point(k)'
  BY <1>8 DEF AttachChallenge, Attach, Goto, Decide, SessionLive, Point
<1>9. ASSUME NEW i \in Intents, DenyChallenge(i) PROVE Point(k)'
  BY <1>9, ConcludeEffect
     DEF DenyChallenge, Transition, Record, CanTransition, LegalNext, AdvancesAuthority,
         SessionLive
<1>10. ASSUME NEW i \in Intents, RequestApproval(i) PROVE Point(k)'
  BY <1>10
     DEF RequestApproval, Transition, Request, Goto, CanTransition, LegalNext,
         AdvancesAuthority, SessionLive, CanRequest
<1>11. ASSUME NEW i \in Intents, ReserveAutomatic(i) PROVE Point(k)'
  BY <1>11
     DEF ReserveAutomatic, Transition, Reserve, SetAttempt, Goto, CanTransition, LegalNext,
         AdvancesAuthority, SessionLive
<1>12. ASSUME NEW i \in Intents, FreshChallenge(i) PROVE Point(k)'
  BY <1>12 DEF FreshChallenge, Goto
<1>13. ASSUME NEW i \in Intents, ReserveApproved(i) PROVE Point(k)'
  BY <1>13
     DEF ReserveApproved, Transition, Consume, Reserve, SetAttempt, Goto, CanTransition,
         LegalNext, AdvancesAuthority, SessionLive, CanConsume
<1>14. ASSUME NEW i \in Intents, CancelChanged(i) PROVE Point(k)'
  BY <1>14, ConcludeEffect
     DEF CancelChanged, Cancel, Transition, Record, CanTransition, LegalNext, AdvancesAuthority,
         SessionLive, OpenDecisions
<1>15. ASSUME NEW i \in Intents, NEW j \in Intents, ReplaceChanged(i, j) PROVE Point(k)'
  BY <1>15, ConcludeEffect
     DEF ReplaceChanged, Renew, CaptureReplacement, Record, SessionLive, OpenDecisions
<1>16. ASSUME NEW i \in Intents, SigningClaim(i) PROVE Point(k)'
  BY <1>16
     DEF SigningClaim, Transition, Goto, CanTransition, LegalNext, AdvancesAuthority,
         SessionLive
<1>17. ASSUME NEW i \in Intents, ReleaseUnsigned(i) PROVE Point(k)'
  BY <1>17, ConcludeEffect
     DEF ReleaseUnsigned, Transition, Release, SetAttempt, Record, CanTransition, LegalNext,
         AdvancesAuthority, SessionLive
<1>18. ASSUME NEW i \in Intents, PersistSigned(i) PROVE Point(k)'
  BY <1>18
     DEF PersistSigned, Transition, SetAttempt, Goto, CanTransition, LegalNext,
         AdvancesAuthority, SessionLive
<1>19. ASSUME NEW i \in Intents, PreSignReject(i) PROVE Point(k)'
  BY <1>19, ConcludeEffect DEF PreSignReject, Release, SetAttempt, Record, PreSignProof
<1>20. ASSUME NEW i \in Intents, HoldSigning(i) PROVE Point(k)'
  BY <1>20, ConcludeEffect
     DEF HoldSigning, Transition, HoldUnresolved, SetAttempt, Record, CanTransition, LegalNext,
         AdvancesAuthority, SessionLive
<1>21. ASSUME NEW i \in Intents, ClaimPaidRetry(i) PROVE Point(k)'
  BY <1>21
     DEF ClaimPaidRetry, Transition, SetAttempt, Goto, CanTransition, LegalNext,
         AdvancesAuthority, SessionLive
<1>22. ASSUME NEW i \in Intents, SendPayment(i) PROVE Point(k)'
  BY <1>22 DEF SendPayment, Goto, Point
<1>23. ASSUME NEW i \in Intents, NEW e \in Deliveries, SettleExecution(i, e) PROVE Point(k)'
  BY <1>23, ConcludeEffect
     DEF SettleExecution, Transition, Commit, SetAttempt, Record, SettledStatus, CanTransition,
         LegalNext, AdvancesAuthority, SessionLive, Deliveries
<1>24. ASSUME NEW i \in Intents, HoldPaid(i) PROVE Point(k)'
  BY <1>24, ConcludeEffect
     DEF HoldPaid, Transition, HoldUnresolved, SetAttempt, Record, CanTransition, LegalNext,
         AdvancesAuthority, SessionLive
<1>25. ASSUME NEW i \in Intents, AbortOperation(i) PROVE Point(k)'
  BY <1>25 DEF AbortOperation, Goto, Refused
<1>26. ASSUME NEW i \in Intents, ApprovePending(i) PROVE Point(k)'
  BY <1>26 DEF ApprovePending, Approve, OpenDecisions
<1>27. ASSUME NEW i \in Intents, DenyPending(i) PROVE Point(k)'
  BY <1>27, ConcludeEffect
     DEF DenyPending, Deny, Transition, Record, CanTransition, LegalNext, AdvancesAuthority,
         SessionLive, OpenDecisions
<1>28. ASSUME NEW i \in Intents, ExpireDue(i) PROVE Point(k)'
  BY <1>28, ConcludeEffect
     DEF ExpireDue, Expire, Transition, Record, CanTransition, LegalNext, AdvancesAuthority,
         SessionLive, OpenDecisions
<1>29. CASE ApplyPolicy
  BY <1>29 DEF ApplyPolicy, BlockSession
<1>30. CASE RevokeAgent
  BY <1>30 DEF RevokeAgent, Revoke
<1>31. CASE CloseSession
  BY <1>31, ConcludeEffect
     DEF CloseSession, EndSession, CloseLast, CancelAll, ReleaseAll, TerminateAll, InSession,
         OpenDecisions, Unsafe
<1>32. CASE TransitionSession
  BY <1>32, ConcludeEffect
     DEF TransitionSession, EndSession, ReplaceLast, CancelAll, ReleaseAll, TerminateAll,
         InSession, OpenDecisions, Unsafe
<1>33. ASSUME NEW i \in Intents, WalletAnswers(i) PROVE Point(k)'
  BY <1>33 DEF WalletAnswers
<1>34. ASSUME NEW i \in Intents, ChainTransfers(i) PROVE Point(k)'
  BY <1>34 DEF ChainTransfers
<1>35. CASE Tick
  BY <1>35 DEF Tick
<1>36. CASE StopKernel
  BY <1>36 DEF StopKernel, EndOperations, FaultLeft
<1>37. CASE Restart
  BY <1>37 DEF Restart
<1>38. ASSUME NEW i \in Intents, RepairAbandoned(i) PROVE Point(k)'
  BY <1>38
     DEF RepairAbandoned, Transition, Record, CanTransition, LegalNext, AdvancesAuthority,
         SessionLive
<1>39. ASSUME NEW i \in Intents, RepairExpired(i) PROVE Point(k)'
  BY <1>39
     DEF RepairExpired, Transition, Expire, Record, CanTransition, LegalNext, AdvancesAuthority,
         SessionLive, OpenDecisions
<1>40. ASSUME NEW i \in Intents, RepairReserved(i) PROVE Point(k)'
  BY <1>40
     DEF RepairReserved, Transition, Release, SetAttempt, Record, CanTransition, LegalNext,
         AdvancesAuthority, SessionLive
<1>41. ASSUME NEW i \in Intents, RepairAmbiguous(i) PROVE Point(k)'
  BY <1>41
     DEF RepairAmbiguous, Transition, HoldUnresolved, SetAttempt, Record, CanTransition,
         LegalNext, AdvancesAuthority, SessionLive
<1>42. CASE FinishRecovery
  BY <1>42 DEF FinishRecovery, RecoveredReceipt, OpenOrResume, NeedsRepair, InFlightStates
<1>43. CASE UNCHANGED vars
  BY <1>43 DEF vars
<1>44. QED
  BY <1>1, <1>2, <1>3, <1>4, <1>5, <1>6, <1>7, <1>8, <1>9, <1>10, <1>11, <1>12, <1>13, <1>14,
     <1>15, <1>16, <1>17, <1>18, <1>19, <1>20, <1>21, <1>22, <1>23, <1>24, <1>25, <1>26, <1>27,
     <1>28, <1>29, <1>30, <1>31, <1>32, <1>33, <1>34, <1>35, <1>36, <1>37, <1>38, <1>39, <1>40,
     <1>41, <1>42, <1>43
     DEF Next, Operation, Repair

\* Every step keeps receipts behind outcomes, and level with them while serving.
LEMMA SignedStep == Inv /\ [Next]_vars => \A k \in Intents : Signed(k)'
<1> SUFFICES ASSUME Inv, [Next]_vars, NEW k \in Intents PROVE Signed(k)'
  OBVIOUS
<1> USE DEF Inv, Sound, Row, EarlyRow, UnderwayRow, UnresolvedRow, TerminalRow, Unpaid,
            Underway, Authorised, InFlightStates, OpenDecisions, Signed, TypeOK,
            SpendIntentsTypeOK, BudgetLedgerTypeOK, ApprovalQueueTypeOK
<1>1. ASSUME NEW i \in Intents, CaptureIntent(i) PROVE Signed(k)'
  BY <1>1 DEF CaptureIntent, Capture, Goto, SessionLive
<1>2. ASSUME NEW i \in Intents, ResumeIntent(i) PROVE Signed(k)'
  BY <1>2 DEF ResumeIntent, Goto
<1>3. ASSUME NEW i \in Intents, RetryApproved(i) PROVE Signed(k)'
  BY <1>3 DEF RetryApproved, Goto
<1>4. ASSUME NEW i \in Intents, NEW e \in Deliveries, OrdinaryResponse(i, e) PROVE Signed(k)'
  BY <1>4, ConcludeEffect
     DEF OrdinaryResponse, Transition, Record, CanTransition, LegalNext, AdvancesAuthority,
         SessionLive
<1>5. ASSUME NEW i \in Intents, ReprobeTransportFailure(i) PROVE Signed(k)'
  BY <1>5, ConcludeEffect
     DEF ReprobeTransportFailure, Transition, Record, CanTransition, LegalNext,
         AdvancesAuthority, SessionLive
<1>6. ASSUME NEW i \in Intents, MalformedChallenge(i) PROVE Signed(k)'
  BY <1>6, ConcludeEffect
     DEF MalformedChallenge, Transition, Record, CanTransition, LegalNext, AdvancesAuthority,
         SessionLive
<1>7. ASSUME NEW i \in Intents, ReceiveChallenge(i) PROVE Signed(k)'
  BY <1>7 DEF ReceiveChallenge
<1>8. ASSUME NEW i \in Intents, AttachChallenge(i) PROVE Signed(k)'
  BY <1>8 DEF AttachChallenge, Attach, Goto, Decide, SessionLive, Point
<1>9. ASSUME NEW i \in Intents, DenyChallenge(i) PROVE Signed(k)'
  BY <1>9, ConcludeEffect
     DEF DenyChallenge, Transition, Record, CanTransition, LegalNext, AdvancesAuthority,
         SessionLive
<1>10. ASSUME NEW i \in Intents, RequestApproval(i) PROVE Signed(k)'
  BY <1>10
     DEF RequestApproval, Transition, Request, Goto, CanTransition, LegalNext,
         AdvancesAuthority, SessionLive, CanRequest
<1>11. ASSUME NEW i \in Intents, ReserveAutomatic(i) PROVE Signed(k)'
  BY <1>11
     DEF ReserveAutomatic, Transition, Reserve, SetAttempt, Goto, CanTransition, LegalNext,
         AdvancesAuthority, SessionLive
<1>12. ASSUME NEW i \in Intents, FreshChallenge(i) PROVE Signed(k)'
  BY <1>12 DEF FreshChallenge, Goto
<1>13. ASSUME NEW i \in Intents, ReserveApproved(i) PROVE Signed(k)'
  BY <1>13
     DEF ReserveApproved, Transition, Consume, Reserve, SetAttempt, Goto, CanTransition,
         LegalNext, AdvancesAuthority, SessionLive, CanConsume
<1>14. ASSUME NEW i \in Intents, CancelChanged(i) PROVE Signed(k)'
  BY <1>14, ConcludeEffect
     DEF CancelChanged, Cancel, Transition, Record, CanTransition, LegalNext, AdvancesAuthority,
         SessionLive, OpenDecisions
<1>15. ASSUME NEW i \in Intents, NEW j \in Intents, ReplaceChanged(i, j) PROVE Signed(k)'
  BY <1>15, ConcludeEffect
     DEF ReplaceChanged, Renew, CaptureReplacement, Record, SessionLive, OpenDecisions
<1>16. ASSUME NEW i \in Intents, SigningClaim(i) PROVE Signed(k)'
  BY <1>16
     DEF SigningClaim, Transition, Goto, CanTransition, LegalNext, AdvancesAuthority,
         SessionLive
<1>17. ASSUME NEW i \in Intents, ReleaseUnsigned(i) PROVE Signed(k)'
  BY <1>17, ConcludeEffect
     DEF ReleaseUnsigned, Transition, Release, SetAttempt, Record, CanTransition, LegalNext,
         AdvancesAuthority, SessionLive
<1>18. ASSUME NEW i \in Intents, PersistSigned(i) PROVE Signed(k)'
  BY <1>18
     DEF PersistSigned, Transition, SetAttempt, Goto, CanTransition, LegalNext,
         AdvancesAuthority, SessionLive
<1>19. ASSUME NEW i \in Intents, PreSignReject(i) PROVE Signed(k)'
  BY <1>19, ConcludeEffect DEF PreSignReject, Release, SetAttempt, Record, PreSignProof
<1>20. ASSUME NEW i \in Intents, HoldSigning(i) PROVE Signed(k)'
  BY <1>20, ConcludeEffect
     DEF HoldSigning, Transition, HoldUnresolved, SetAttempt, Record, CanTransition, LegalNext,
         AdvancesAuthority, SessionLive
<1>21. ASSUME NEW i \in Intents, ClaimPaidRetry(i) PROVE Signed(k)'
  BY <1>21
     DEF ClaimPaidRetry, Transition, SetAttempt, Goto, CanTransition, LegalNext,
         AdvancesAuthority, SessionLive
<1>22. ASSUME NEW i \in Intents, SendPayment(i) PROVE Signed(k)'
  BY <1>22 DEF SendPayment, Goto, Point
<1>23. ASSUME NEW i \in Intents, NEW e \in Deliveries, SettleExecution(i, e) PROVE Signed(k)'
  BY <1>23, ConcludeEffect
     DEF SettleExecution, Transition, Commit, SetAttempt, Record, SettledStatus, CanTransition,
         LegalNext, AdvancesAuthority, SessionLive, Deliveries
<1>24. ASSUME NEW i \in Intents, HoldPaid(i) PROVE Signed(k)'
  BY <1>24, ConcludeEffect
     DEF HoldPaid, Transition, HoldUnresolved, SetAttempt, Record, CanTransition, LegalNext,
         AdvancesAuthority, SessionLive
<1>25. ASSUME NEW i \in Intents, AbortOperation(i) PROVE Signed(k)'
  BY <1>25 DEF AbortOperation, Goto, Refused
<1>26. ASSUME NEW i \in Intents, ApprovePending(i) PROVE Signed(k)'
  BY <1>26 DEF ApprovePending, Approve, OpenDecisions
<1>27. ASSUME NEW i \in Intents, DenyPending(i) PROVE Signed(k)'
  BY <1>27, ConcludeEffect
     DEF DenyPending, Deny, Transition, Record, CanTransition, LegalNext, AdvancesAuthority,
         SessionLive, OpenDecisions
<1>28. ASSUME NEW i \in Intents, ExpireDue(i) PROVE Signed(k)'
  BY <1>28, ConcludeEffect
     DEF ExpireDue, Expire, Transition, Record, CanTransition, LegalNext, AdvancesAuthority,
         SessionLive, OpenDecisions
<1>29. CASE ApplyPolicy
  BY <1>29 DEF ApplyPolicy, BlockSession
<1>30. CASE RevokeAgent
  BY <1>30 DEF RevokeAgent, Revoke
<1>31. CASE CloseSession
  BY <1>31, ConcludeEffect
     DEF CloseSession, EndSession, CloseLast, CancelAll, ReleaseAll, TerminateAll, InSession,
         OpenDecisions, Unsafe
<1>32. CASE TransitionSession
  BY <1>32, ConcludeEffect
     DEF TransitionSession, EndSession, ReplaceLast, CancelAll, ReleaseAll, TerminateAll,
         InSession, OpenDecisions, Unsafe
<1>33. ASSUME NEW i \in Intents, WalletAnswers(i) PROVE Signed(k)'
  BY <1>33 DEF WalletAnswers
<1>34. ASSUME NEW i \in Intents, ChainTransfers(i) PROVE Signed(k)'
  BY <1>34 DEF ChainTransfers
<1>35. CASE Tick
  BY <1>35 DEF Tick
<1>36. CASE StopKernel
  BY <1>36 DEF StopKernel, EndOperations, FaultLeft
<1>37. CASE Restart
  BY <1>37 DEF Restart
<1>38. ASSUME NEW i \in Intents, RepairAbandoned(i) PROVE Signed(k)'
  BY <1>38
     DEF RepairAbandoned, Transition, Record, CanTransition, LegalNext, AdvancesAuthority,
         SessionLive
<1>39. ASSUME NEW i \in Intents, RepairExpired(i) PROVE Signed(k)'
  BY <1>39
     DEF RepairExpired, Transition, Expire, Record, CanTransition, LegalNext, AdvancesAuthority,
         SessionLive, OpenDecisions
<1>40. ASSUME NEW i \in Intents, RepairReserved(i) PROVE Signed(k)'
  BY <1>40
     DEF RepairReserved, Transition, Release, SetAttempt, Record, CanTransition, LegalNext,
         AdvancesAuthority, SessionLive
<1>41. ASSUME NEW i \in Intents, RepairAmbiguous(i) PROVE Signed(k)'
  BY <1>41
     DEF RepairAmbiguous, Transition, HoldUnresolved, SetAttempt, Record, CanTransition,
         LegalNext, AdvancesAuthority, SessionLive
<1>42. CASE FinishRecovery
  BY <1>42 DEF FinishRecovery, RecoveredReceipt, OpenOrResume, NeedsRepair, InFlightStates
<1>43. CASE UNCHANGED vars
  BY <1>43 DEF vars
<1>44. QED
  BY <1>1, <1>2, <1>3, <1>4, <1>5, <1>6, <1>7, <1>8, <1>9, <1>10, <1>11, <1>12, <1>13, <1>14,
     <1>15, <1>16, <1>17, <1>18, <1>19, <1>20, <1>21, <1>22, <1>23, <1>24, <1>25, <1>26, <1>27,
     <1>28, <1>29, <1>30, <1>31, <1>32, <1>33, <1>34, <1>35, <1>36, <1>37, <1>38, <1>39, <1>40,
     <1>41, <1>42, <1>43
     DEF Next, Operation, Repair

\* Every step keeps what belongs to an ended session terminal.
LEMMA InertStep == Inv /\ [Next]_vars => \A k \in Intents : Inert(k)'
<1> SUFFICES ASSUME Inv, [Next]_vars, NEW k \in Intents PROVE Inert(k)'
  OBVIOUS
<1> USE DEF Inv, Sound, Row, EarlyRow, UnderwayRow, UnresolvedRow, TerminalRow, Unpaid,
            Underway, Authorised, InFlightStates, OpenDecisions, Inert, TypeOK,
            SpendIntentsTypeOK, BudgetLedgerTypeOK, ApprovalQueueTypeOK
<1>1. ASSUME NEW i \in Intents, CaptureIntent(i) PROVE Inert(k)'
  BY <1>1 DEF CaptureIntent, Capture, Goto, SessionLive
<1>2. ASSUME NEW i \in Intents, ResumeIntent(i) PROVE Inert(k)'
  BY <1>2 DEF ResumeIntent, Goto
<1>3. ASSUME NEW i \in Intents, RetryApproved(i) PROVE Inert(k)'
  BY <1>3 DEF RetryApproved, Goto
<1>4. ASSUME NEW i \in Intents, NEW e \in Deliveries, OrdinaryResponse(i, e) PROVE Inert(k)'
  BY <1>4, ConcludeEffect
     DEF OrdinaryResponse, Transition, Record, CanTransition, LegalNext, AdvancesAuthority,
         SessionLive
<1>5. ASSUME NEW i \in Intents, ReprobeTransportFailure(i) PROVE Inert(k)'
  BY <1>5, ConcludeEffect
     DEF ReprobeTransportFailure, Transition, Record, CanTransition, LegalNext,
         AdvancesAuthority, SessionLive
<1>6. ASSUME NEW i \in Intents, MalformedChallenge(i) PROVE Inert(k)'
  BY <1>6, ConcludeEffect
     DEF MalformedChallenge, Transition, Record, CanTransition, LegalNext, AdvancesAuthority,
         SessionLive
<1>7. ASSUME NEW i \in Intents, ReceiveChallenge(i) PROVE Inert(k)'
  BY <1>7 DEF ReceiveChallenge
<1>8. ASSUME NEW i \in Intents, AttachChallenge(i) PROVE Inert(k)'
  BY <1>8 DEF AttachChallenge, Attach, Goto, Decide, SessionLive, Point
<1>9. ASSUME NEW i \in Intents, DenyChallenge(i) PROVE Inert(k)'
  BY <1>9, ConcludeEffect
     DEF DenyChallenge, Transition, Record, CanTransition, LegalNext, AdvancesAuthority,
         SessionLive
<1>10. ASSUME NEW i \in Intents, RequestApproval(i) PROVE Inert(k)'
  BY <1>10
     DEF RequestApproval, Transition, Request, Goto, CanTransition, LegalNext,
         AdvancesAuthority, SessionLive, CanRequest
<1>11. ASSUME NEW i \in Intents, ReserveAutomatic(i) PROVE Inert(k)'
  BY <1>11
     DEF ReserveAutomatic, Transition, Reserve, SetAttempt, Goto, CanTransition, LegalNext,
         AdvancesAuthority, SessionLive
<1>12. ASSUME NEW i \in Intents, FreshChallenge(i) PROVE Inert(k)'
  BY <1>12 DEF FreshChallenge, Goto
<1>13. ASSUME NEW i \in Intents, ReserveApproved(i) PROVE Inert(k)'
  BY <1>13
     DEF ReserveApproved, Transition, Consume, Reserve, SetAttempt, Goto, CanTransition,
         LegalNext, AdvancesAuthority, SessionLive, CanConsume
<1>14. ASSUME NEW i \in Intents, CancelChanged(i) PROVE Inert(k)'
  BY <1>14, ConcludeEffect
     DEF CancelChanged, Cancel, Transition, Record, CanTransition, LegalNext, AdvancesAuthority,
         SessionLive, OpenDecisions
<1>15. ASSUME NEW i \in Intents, NEW j \in Intents, ReplaceChanged(i, j) PROVE Inert(k)'
  BY <1>15, ConcludeEffect
     DEF ReplaceChanged, Renew, CaptureReplacement, Record, SessionLive, OpenDecisions
<1>16. ASSUME NEW i \in Intents, SigningClaim(i) PROVE Inert(k)'
  BY <1>16
     DEF SigningClaim, Transition, Goto, CanTransition, LegalNext, AdvancesAuthority,
         SessionLive
<1>17. ASSUME NEW i \in Intents, ReleaseUnsigned(i) PROVE Inert(k)'
  BY <1>17, ConcludeEffect
     DEF ReleaseUnsigned, Transition, Release, SetAttempt, Record, CanTransition, LegalNext,
         AdvancesAuthority, SessionLive
<1>18. ASSUME NEW i \in Intents, PersistSigned(i) PROVE Inert(k)'
  BY <1>18
     DEF PersistSigned, Transition, SetAttempt, Goto, CanTransition, LegalNext,
         AdvancesAuthority, SessionLive
<1>19. ASSUME NEW i \in Intents, PreSignReject(i) PROVE Inert(k)'
  BY <1>19, ConcludeEffect DEF PreSignReject, Release, SetAttempt, Record, PreSignProof
<1>20. ASSUME NEW i \in Intents, HoldSigning(i) PROVE Inert(k)'
  BY <1>20, ConcludeEffect
     DEF HoldSigning, Transition, HoldUnresolved, SetAttempt, Record, CanTransition, LegalNext,
         AdvancesAuthority, SessionLive
<1>21. ASSUME NEW i \in Intents, ClaimPaidRetry(i) PROVE Inert(k)'
  BY <1>21
     DEF ClaimPaidRetry, Transition, SetAttempt, Goto, CanTransition, LegalNext,
         AdvancesAuthority, SessionLive
<1>22. ASSUME NEW i \in Intents, SendPayment(i) PROVE Inert(k)'
  BY <1>22 DEF SendPayment, Goto, Point
<1>23. ASSUME NEW i \in Intents, NEW e \in Deliveries, SettleExecution(i, e) PROVE Inert(k)'
  BY <1>23, ConcludeEffect
     DEF SettleExecution, Transition, Commit, SetAttempt, Record, SettledStatus, CanTransition,
         LegalNext, AdvancesAuthority, SessionLive, Deliveries
<1>24. ASSUME NEW i \in Intents, HoldPaid(i) PROVE Inert(k)'
  BY <1>24, ConcludeEffect
     DEF HoldPaid, Transition, HoldUnresolved, SetAttempt, Record, CanTransition, LegalNext,
         AdvancesAuthority, SessionLive
<1>25. ASSUME NEW i \in Intents, AbortOperation(i) PROVE Inert(k)'
  BY <1>25 DEF AbortOperation, Goto, Refused
<1>26. ASSUME NEW i \in Intents, ApprovePending(i) PROVE Inert(k)'
  BY <1>26 DEF ApprovePending, Approve, OpenDecisions
<1>27. ASSUME NEW i \in Intents, DenyPending(i) PROVE Inert(k)'
  BY <1>27, ConcludeEffect
     DEF DenyPending, Deny, Transition, Record, CanTransition, LegalNext, AdvancesAuthority,
         SessionLive, OpenDecisions
<1>28. ASSUME NEW i \in Intents, ExpireDue(i) PROVE Inert(k)'
  BY <1>28, ConcludeEffect
     DEF ExpireDue, Expire, Transition, Record, CanTransition, LegalNext, AdvancesAuthority,
         SessionLive, OpenDecisions
<1>29. CASE ApplyPolicy
  BY <1>29 DEF ApplyPolicy, BlockSession
<1>30. CASE RevokeAgent
  BY <1>30 DEF RevokeAgent, Revoke
<1>31. CASE CloseSession
  <2>1. k \in InSession(session) => intent'[k] = "terminal" /\ resolution'[k] = "none"
    BY <1>31 DEF CloseSession, EndSession, TerminateAll, InSession, Unsafe
  <2>2. k \notin InSession(session) => intent'[k] = intent[k] /\ resolution'[k] = resolution[k]
    BY <1>31 DEF CloseSession, EndSession, TerminateAll
  <2>3. /\ sessionOf' = sessionOf
        /\ session' \in {session, session + 1}
        /\ session' = session => sessionState' = "closed"
    BY <1>31 DEF CloseSession, EndSession, TerminateAll, CloseLast, ReplaceLast
  <2>4. QED BY <2>1, <2>2, <2>3 DEF InSession
<1>32. CASE TransitionSession
  <2>1. k \in InSession(session) => intent'[k] = "terminal" /\ resolution'[k] = "none"
    BY <1>32 DEF TransitionSession, EndSession, TerminateAll, InSession, Unsafe
  <2>2. k \notin InSession(session) => intent'[k] = intent[k] /\ resolution'[k] = resolution[k]
    BY <1>32 DEF TransitionSession, EndSession, TerminateAll
  <2>3. /\ sessionOf' = sessionOf
        /\ session' \in {session, session + 1}
        /\ session' = session => sessionState' = "closed"
    BY <1>32 DEF TransitionSession, EndSession, TerminateAll, CloseLast, ReplaceLast
  <2>4. QED BY <2>1, <2>2, <2>3 DEF InSession
<1>33. ASSUME NEW i \in Intents, WalletAnswers(i) PROVE Inert(k)'
  BY <1>33 DEF WalletAnswers
<1>34. ASSUME NEW i \in Intents, ChainTransfers(i) PROVE Inert(k)'
  BY <1>34 DEF ChainTransfers
<1>35. CASE Tick
  BY <1>35 DEF Tick
<1>36. CASE StopKernel
  BY <1>36 DEF StopKernel, EndOperations, FaultLeft
<1>37. CASE Restart
  BY <1>37 DEF Restart
<1>38. ASSUME NEW i \in Intents, RepairAbandoned(i) PROVE Inert(k)'
  BY <1>38
     DEF RepairAbandoned, Transition, Record, CanTransition, LegalNext, AdvancesAuthority,
         SessionLive
<1>39. ASSUME NEW i \in Intents, RepairExpired(i) PROVE Inert(k)'
  BY <1>39
     DEF RepairExpired, Transition, Expire, Record, CanTransition, LegalNext, AdvancesAuthority,
         SessionLive, OpenDecisions
<1>40. ASSUME NEW i \in Intents, RepairReserved(i) PROVE Inert(k)'
  BY <1>40
     DEF RepairReserved, Transition, Release, SetAttempt, Record, CanTransition, LegalNext,
         AdvancesAuthority, SessionLive
<1>41. ASSUME NEW i \in Intents, RepairAmbiguous(i) PROVE Inert(k)'
  BY <1>41
     DEF RepairAmbiguous, Transition, HoldUnresolved, SetAttempt, Record, CanTransition,
         LegalNext, AdvancesAuthority, SessionLive
<1>42. CASE FinishRecovery
  BY <1>42 DEF FinishRecovery, RecoveredReceipt, OpenOrResume, NeedsRepair, InFlightStates
<1>43. CASE UNCHANGED vars
  BY <1>43 DEF vars
<1>44. QED
  BY <1>1, <1>2, <1>3, <1>4, <1>5, <1>6, <1>7, <1>8, <1>9, <1>10, <1>11, <1>12, <1>13, <1>14,
     <1>15, <1>16, <1>17, <1>18, <1>19, <1>20, <1>21, <1>22, <1>23, <1>24, <1>25, <1>26, <1>27,
     <1>28, <1>29, <1>30, <1>31, <1>32, <1>33, <1>34, <1>35, <1>36, <1>37, <1>38, <1>39, <1>40,
     <1>41, <1>42, <1>43
     DEF Next, Operation, Repair

\* No step changes an outcome, a settled or released reservation, or a receipt.
LEMMA FinalStep == Inv /\ [Next]_vars => \A k \in Intents : Final(k)
<1> SUFFICES ASSUME Inv, [Next]_vars, NEW k \in Intents PROVE Final(k)
  OBVIOUS
<1> USE DEF Inv, Sound, Row, EarlyRow, UnderwayRow, UnresolvedRow, TerminalRow, Unpaid,
            Underway, Authorised, InFlightStates, OpenDecisions, Final, TypeOK,
            SpendIntentsTypeOK, BudgetLedgerTypeOK, ApprovalQueueTypeOK
<1>1. ASSUME NEW i \in Intents, CaptureIntent(i) PROVE Final(k)
  BY <1>1 DEF CaptureIntent, Capture, Goto, SessionLive
<1>2. ASSUME NEW i \in Intents, ResumeIntent(i) PROVE Final(k)
  BY <1>2 DEF ResumeIntent, Goto
<1>3. ASSUME NEW i \in Intents, RetryApproved(i) PROVE Final(k)
  BY <1>3 DEF RetryApproved, Goto
<1>4. ASSUME NEW i \in Intents, NEW e \in Deliveries, OrdinaryResponse(i, e) PROVE Final(k)
  BY <1>4, ConcludeEffect
     DEF OrdinaryResponse, Transition, Record, CanTransition, LegalNext, AdvancesAuthority,
         SessionLive
<1>5. ASSUME NEW i \in Intents, ReprobeTransportFailure(i) PROVE Final(k)
  BY <1>5, ConcludeEffect
     DEF ReprobeTransportFailure, Transition, Record, CanTransition, LegalNext,
         AdvancesAuthority, SessionLive
<1>6. ASSUME NEW i \in Intents, MalformedChallenge(i) PROVE Final(k)
  BY <1>6, ConcludeEffect
     DEF MalformedChallenge, Transition, Record, CanTransition, LegalNext, AdvancesAuthority,
         SessionLive
<1>7. ASSUME NEW i \in Intents, ReceiveChallenge(i) PROVE Final(k)
  BY <1>7 DEF ReceiveChallenge
<1>8. ASSUME NEW i \in Intents, AttachChallenge(i) PROVE Final(k)
  BY <1>8 DEF AttachChallenge, Attach, Goto, Decide, SessionLive, Point
<1>9. ASSUME NEW i \in Intents, DenyChallenge(i) PROVE Final(k)
  BY <1>9, ConcludeEffect
     DEF DenyChallenge, Transition, Record, CanTransition, LegalNext, AdvancesAuthority,
         SessionLive
<1>10. ASSUME NEW i \in Intents, RequestApproval(i) PROVE Final(k)
  BY <1>10
     DEF RequestApproval, Transition, Request, Goto, CanTransition, LegalNext,
         AdvancesAuthority, SessionLive, CanRequest
<1>11. ASSUME NEW i \in Intents, ReserveAutomatic(i) PROVE Final(k)
  BY <1>11
     DEF ReserveAutomatic, Transition, Reserve, SetAttempt, Goto, CanTransition, LegalNext,
         AdvancesAuthority, SessionLive
<1>12. ASSUME NEW i \in Intents, FreshChallenge(i) PROVE Final(k)
  BY <1>12 DEF FreshChallenge, Goto
<1>13. ASSUME NEW i \in Intents, ReserveApproved(i) PROVE Final(k)
  BY <1>13
     DEF ReserveApproved, Transition, Consume, Reserve, SetAttempt, Goto, CanTransition,
         LegalNext, AdvancesAuthority, SessionLive, CanConsume
<1>14. ASSUME NEW i \in Intents, CancelChanged(i) PROVE Final(k)
  BY <1>14, ConcludeEffect
     DEF CancelChanged, Cancel, Transition, Record, CanTransition, LegalNext, AdvancesAuthority,
         SessionLive, OpenDecisions
<1>15. ASSUME NEW i \in Intents, NEW j \in Intents, ReplaceChanged(i, j) PROVE Final(k)
  BY <1>15, ConcludeEffect
     DEF ReplaceChanged, Renew, CaptureReplacement, Record, SessionLive, OpenDecisions
<1>16. ASSUME NEW i \in Intents, SigningClaim(i) PROVE Final(k)
  BY <1>16
     DEF SigningClaim, Transition, Goto, CanTransition, LegalNext, AdvancesAuthority,
         SessionLive
<1>17. ASSUME NEW i \in Intents, ReleaseUnsigned(i) PROVE Final(k)
  BY <1>17, ConcludeEffect
     DEF ReleaseUnsigned, Transition, Release, SetAttempt, Record, CanTransition, LegalNext,
         AdvancesAuthority, SessionLive
<1>18. ASSUME NEW i \in Intents, PersistSigned(i) PROVE Final(k)
  BY <1>18
     DEF PersistSigned, Transition, SetAttempt, Goto, CanTransition, LegalNext,
         AdvancesAuthority, SessionLive
<1>19. ASSUME NEW i \in Intents, PreSignReject(i) PROVE Final(k)
  BY <1>19, ConcludeEffect DEF PreSignReject, Release, SetAttempt, Record, PreSignProof
<1>20. ASSUME NEW i \in Intents, HoldSigning(i) PROVE Final(k)
  BY <1>20, ConcludeEffect
     DEF HoldSigning, Transition, HoldUnresolved, SetAttempt, Record, CanTransition, LegalNext,
         AdvancesAuthority, SessionLive
<1>21. ASSUME NEW i \in Intents, ClaimPaidRetry(i) PROVE Final(k)
  BY <1>21
     DEF ClaimPaidRetry, Transition, SetAttempt, Goto, CanTransition, LegalNext,
         AdvancesAuthority, SessionLive
<1>22. ASSUME NEW i \in Intents, SendPayment(i) PROVE Final(k)
  BY <1>22 DEF SendPayment, Goto, Point
<1>23. ASSUME NEW i \in Intents, NEW e \in Deliveries, SettleExecution(i, e) PROVE Final(k)
  BY <1>23, ConcludeEffect
     DEF SettleExecution, Transition, Commit, SetAttempt, Record, SettledStatus, CanTransition,
         LegalNext, AdvancesAuthority, SessionLive, Deliveries
<1>24. ASSUME NEW i \in Intents, HoldPaid(i) PROVE Final(k)
  BY <1>24, ConcludeEffect
     DEF HoldPaid, Transition, HoldUnresolved, SetAttempt, Record, CanTransition, LegalNext,
         AdvancesAuthority, SessionLive
<1>25. ASSUME NEW i \in Intents, AbortOperation(i) PROVE Final(k)
  BY <1>25 DEF AbortOperation, Goto, Refused
<1>26. ASSUME NEW i \in Intents, ApprovePending(i) PROVE Final(k)
  BY <1>26 DEF ApprovePending, Approve, OpenDecisions
<1>27. ASSUME NEW i \in Intents, DenyPending(i) PROVE Final(k)
  BY <1>27, ConcludeEffect
     DEF DenyPending, Deny, Transition, Record, CanTransition, LegalNext, AdvancesAuthority,
         SessionLive, OpenDecisions
<1>28. ASSUME NEW i \in Intents, ExpireDue(i) PROVE Final(k)
  BY <1>28, ConcludeEffect
     DEF ExpireDue, Expire, Transition, Record, CanTransition, LegalNext, AdvancesAuthority,
         SessionLive, OpenDecisions
<1>29. CASE ApplyPolicy
  BY <1>29 DEF ApplyPolicy, BlockSession
<1>30. CASE RevokeAgent
  BY <1>30 DEF RevokeAgent, Revoke
<1>31. CASE CloseSession
  <2>1. k \in InSession(session) /\ intent[k] # "terminal" => Ended(k)
    BY <1>31 DEF CloseSession, EndSession, CancelAll, ReleaseAll, TerminateAll, Ended
  <2>2. ~(k \in InSession(session) /\ intent[k] # "terminal") => Untouched(k)
    BY <1>31 DEF CloseSession, EndSession, CancelAll, ReleaseAll, TerminateAll, Untouched
  <2>3. k \in InSession(session) => ~Unsafe(k)
    BY <1>31 DEF CloseSession, EndSession
  <2>4. receipt[k] => receipt'[k]
    BY <1>31, ConcludeEffect DEF CloseSession, EndSession
  <2>5. QED BY <2>1, <2>2, <2>3, <2>4 DEF Ended, Untouched, Unsafe, InSession, IntentState
<1>32. CASE TransitionSession
  <2>1. k \in InSession(session) /\ intent[k] # "terminal" => Ended(k)
    BY <1>32 DEF TransitionSession, EndSession, CancelAll, ReleaseAll, TerminateAll, Ended
  <2>2. ~(k \in InSession(session) /\ intent[k] # "terminal") => Untouched(k)
    BY <1>32 DEF TransitionSession, EndSession, CancelAll, ReleaseAll, TerminateAll, Untouched
  <2>3. k \in InSession(session) => ~Unsafe(k)
    BY <1>32 DEF TransitionSession, EndSession
  <2>4. receipt[k] => receipt'[k]
    BY <1>32, ConcludeEffect DEF TransitionSession, EndSession
  <2>5. QED BY <2>1, <2>2, <2>3, <2>4 DEF Ended, Untouched, Unsafe, InSession, IntentState
<1>33. ASSUME NEW i \in Intents, WalletAnswers(i) PROVE Final(k)
  BY <1>33 DEF WalletAnswers
<1>34. ASSUME NEW i \in Intents, ChainTransfers(i) PROVE Final(k)
  BY <1>34 DEF ChainTransfers
<1>35. CASE Tick
  BY <1>35 DEF Tick
<1>36. CASE StopKernel
  BY <1>36 DEF StopKernel, EndOperations, FaultLeft
<1>37. CASE Restart
  BY <1>37 DEF Restart
<1>38. ASSUME NEW i \in Intents, RepairAbandoned(i) PROVE Final(k)
  BY <1>38
     DEF RepairAbandoned, Transition, Record, CanTransition, LegalNext, AdvancesAuthority,
         SessionLive
<1>39. ASSUME NEW i \in Intents, RepairExpired(i) PROVE Final(k)
  BY <1>39
     DEF RepairExpired, Transition, Expire, Record, CanTransition, LegalNext, AdvancesAuthority,
         SessionLive, OpenDecisions
<1>40. ASSUME NEW i \in Intents, RepairReserved(i) PROVE Final(k)
  BY <1>40
     DEF RepairReserved, Transition, Release, SetAttempt, Record, CanTransition, LegalNext,
         AdvancesAuthority, SessionLive
<1>41. ASSUME NEW i \in Intents, RepairAmbiguous(i) PROVE Final(k)
  BY <1>41
     DEF RepairAmbiguous, Transition, HoldUnresolved, SetAttempt, Record, CanTransition,
         LegalNext, AdvancesAuthority, SessionLive
<1>42. CASE FinishRecovery
  BY <1>42 DEF FinishRecovery, RecoveredReceipt, OpenOrResume, NeedsRepair, InFlightStates
<1>43. CASE UNCHANGED vars
  BY <1>43 DEF vars
<1>44. QED
  BY <1>1, <1>2, <1>3, <1>4, <1>5, <1>6, <1>7, <1>8, <1>9, <1>10, <1>11, <1>12, <1>13, <1>14,
     <1>15, <1>16, <1>17, <1>18, <1>19, <1>20, <1>21, <1>22, <1>23, <1>24, <1>25, <1>26, <1>27,
     <1>28, <1>29, <1>30, <1>31, <1>32, <1>33, <1>34, <1>35, <1>36, <1>37, <1>38, <1>39, <1>40,
     <1>41, <1>42, <1>43
     DEF Next, Operation, Repair

\* No step takes budget or asks the wallet under a frozen authority.
LEMMA FrozenStep == Inv /\ [Next]_vars => \A k \in Intents : Frozen(k)
<1> SUFFICES ASSUME Inv, [Next]_vars, NEW k \in Intents PROVE Frozen(k)
  OBVIOUS
<1> USE DEF Frozen, SomethingAmbiguous, Inv, TypeOK, BudgetLedgerTypeOK
<1>1. ASSUME NEW i \in Intents, CaptureIntent(i) PROVE Frozen(k)
  BY <1>1 DEF CaptureIntent
<1>2. ASSUME NEW i \in Intents, ResumeIntent(i) PROVE Frozen(k)
  BY <1>2 DEF ResumeIntent
<1>3. ASSUME NEW i \in Intents, RetryApproved(i) PROVE Frozen(k)
  BY <1>3 DEF RetryApproved
<1>4. ASSUME NEW i \in Intents, NEW e \in Deliveries, OrdinaryResponse(i, e) PROVE Frozen(k)
  BY <1>4, ConcludeEffect DEF OrdinaryResponse
<1>5. ASSUME NEW i \in Intents, ReprobeTransportFailure(i) PROVE Frozen(k)
  BY <1>5, ConcludeEffect DEF ReprobeTransportFailure
<1>6. ASSUME NEW i \in Intents, MalformedChallenge(i) PROVE Frozen(k)
  BY <1>6, ConcludeEffect DEF MalformedChallenge
<1>7. ASSUME NEW i \in Intents, ReceiveChallenge(i) PROVE Frozen(k)
  BY <1>7 DEF ReceiveChallenge
<1>8. ASSUME NEW i \in Intents, AttachChallenge(i) PROVE Frozen(k)
  BY <1>8 DEF AttachChallenge
<1>9. ASSUME NEW i \in Intents, DenyChallenge(i) PROVE Frozen(k)
  BY <1>9, ConcludeEffect DEF DenyChallenge
<1>10. ASSUME NEW i \in Intents, RequestApproval(i) PROVE Frozen(k)
  BY <1>10 DEF RequestApproval
<1>11. ASSUME NEW i \in Intents, ReserveAutomatic(i) PROVE Frozen(k)
  BY <1>11
     DEF ReserveAutomatic, Reserve, CanReserve, WalletBlocked, UnresolvedBudget, SessionLive
<1>12. ASSUME NEW i \in Intents, FreshChallenge(i) PROVE Frozen(k)
  BY <1>12 DEF FreshChallenge
<1>13. ASSUME NEW i \in Intents, ReserveApproved(i) PROVE Frozen(k)
  BY <1>13
     DEF ReserveApproved, Reserve, CanReserve, WalletBlocked, UnresolvedBudget, SessionLive
<1>14. ASSUME NEW i \in Intents, CancelChanged(i) PROVE Frozen(k)
  BY <1>14, ConcludeEffect DEF CancelChanged
<1>15. ASSUME NEW i \in Intents, NEW j \in Intents, ReplaceChanged(i, j) PROVE Frozen(k)
  BY <1>15, ConcludeEffect DEF ReplaceChanged
<1>16. ASSUME NEW i \in Intents, SigningClaim(i) PROVE Frozen(k)
  BY <1>16
     DEF SigningClaim, WalletBlocked, UnresolvedBudget, Transition, CanTransition, LegalNext,
         AdvancesAuthority, SessionLive
<1>17. ASSUME NEW i \in Intents, ReleaseUnsigned(i) PROVE Frozen(k)
  BY <1>17, ConcludeEffect DEF ReleaseUnsigned, Release
<1>18. ASSUME NEW i \in Intents, PersistSigned(i) PROVE Frozen(k)
  BY <1>18 DEF PersistSigned
<1>19. ASSUME NEW i \in Intents, PreSignReject(i) PROVE Frozen(k)
  BY <1>19, ConcludeEffect DEF PreSignReject, Release
<1>20. ASSUME NEW i \in Intents, HoldSigning(i) PROVE Frozen(k)
  BY <1>20, ConcludeEffect DEF HoldSigning, HoldUnresolved
<1>21. ASSUME NEW i \in Intents, ClaimPaidRetry(i) PROVE Frozen(k)
  BY <1>21 DEF ClaimPaidRetry
<1>22. ASSUME NEW i \in Intents, SendPayment(i) PROVE Frozen(k)
  BY <1>22 DEF SendPayment
<1>23. ASSUME NEW i \in Intents, NEW e \in Deliveries, SettleExecution(i, e) PROVE Frozen(k)
  BY <1>23, ConcludeEffect DEF SettleExecution, Commit
<1>24. ASSUME NEW i \in Intents, HoldPaid(i) PROVE Frozen(k)
  BY <1>24, ConcludeEffect DEF HoldPaid, HoldUnresolved
<1>25. ASSUME NEW i \in Intents, AbortOperation(i) PROVE Frozen(k)
  BY <1>25 DEF AbortOperation
<1>26. ASSUME NEW i \in Intents, ApprovePending(i) PROVE Frozen(k)
  BY <1>26 DEF ApprovePending
<1>27. ASSUME NEW i \in Intents, DenyPending(i) PROVE Frozen(k)
  BY <1>27, ConcludeEffect DEF DenyPending
<1>28. ASSUME NEW i \in Intents, ExpireDue(i) PROVE Frozen(k)
  BY <1>28, ConcludeEffect DEF ExpireDue
<1>29. CASE ApplyPolicy
  BY <1>29 DEF ApplyPolicy
<1>30. CASE RevokeAgent
  BY <1>30 DEF RevokeAgent
<1>31. CASE CloseSession
  BY <1>31, ConcludeEffect DEF CloseSession, EndSession, ReleaseAll
<1>32. CASE TransitionSession
  BY <1>32, ConcludeEffect DEF TransitionSession, EndSession, ReleaseAll
<1>33. ASSUME NEW i \in Intents, WalletAnswers(i) PROVE Frozen(k)
  BY <1>33 DEF WalletAnswers
<1>34. ASSUME NEW i \in Intents, ChainTransfers(i) PROVE Frozen(k)
  BY <1>34 DEF ChainTransfers
<1>35. CASE Tick
  BY <1>35 DEF Tick
<1>36. CASE StopKernel
  BY <1>36 DEF StopKernel
<1>37. CASE Restart
  BY <1>37 DEF Restart
<1>38. ASSUME NEW i \in Intents, RepairAbandoned(i) PROVE Frozen(k)
  BY <1>38 DEF RepairAbandoned
<1>39. ASSUME NEW i \in Intents, RepairExpired(i) PROVE Frozen(k)
  BY <1>39 DEF RepairExpired
<1>40. ASSUME NEW i \in Intents, RepairReserved(i) PROVE Frozen(k)
  BY <1>40 DEF RepairReserved, Release
<1>41. ASSUME NEW i \in Intents, RepairAmbiguous(i) PROVE Frozen(k)
  BY <1>41 DEF RepairAmbiguous, HoldUnresolved
<1>42. CASE FinishRecovery
  BY <1>42 DEF FinishRecovery
<1>43. CASE UNCHANGED vars
  BY <1>43 DEF vars
<1>44. QED
  BY <1>1, <1>2, <1>3, <1>4, <1>5, <1>6, <1>7, <1>8, <1>9, <1>10, <1>11, <1>12, <1>13, <1>14,
     <1>15, <1>16, <1>17, <1>18, <1>19, <1>20, <1>21, <1>22, <1>23, <1>24, <1>25, <1>26, <1>27,
     <1>28, <1>29, <1>30, <1>31, <1>32, <1>33, <1>34, <1>35, <1>36, <1>37, <1>38, <1>39, <1>40,
     <1>41, <1>42, <1>43
     DEF Next, Operation, Repair

-----------------------------------------------------------------------------
\* The Kernel starts in the invariant.
LEMMA InitInv == Init => Inv
<1> SUFFICES ASSUME Init PROVE Inv
  OBVIOUS
<1> USE DEF Init, SpendIntentsInit, BudgetLedgerInit, ApprovalQueueInit
<1>1. TypeOK
  BY SessionsAssumption, KernelAssumption
     DEF TypeOK, SpendIntentsTypeOK, BudgetLedgerTypeOK, ApprovalQueueTypeOK, NoTime,
         IntentState, SessionState, BudgetState, ApprovalDecision, Mode, ProgramPoint,
         AttemptState, BuyerStatus, WorldState
<1>2. ASSUME NEW i \in Intents PROVE Sound(i)
  BY DEF Sound, Row, EarlyRow, UnderwayRow, UnresolvedRow, TerminalRow, Unpaid, InFlightStates,
         Point, Signed, Inert
<1>3. QED BY <1>1, <1>2 DEF Inv

\* The invariant is inductive.
LEMMA NextInv == Inv /\ [Next]_vars => Inv'
  BY TypeStep, RowStep, PointStep, SignedStep, InertStep DEF Inv, Sound
=============================================================================
