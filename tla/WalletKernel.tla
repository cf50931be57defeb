---------------------------- MODULE WalletKernel ----------------------------
(***************************************************************************)
(* The Wallet Kernel (wallet-kernel.mjs) over its repositories, with the   *)
(* startup recovery (recovery.mjs), the fail-stop gate of the control      *)
(* plane (control-plane.mjs) and, as environment, the seller, the wallet   *)
(* service and the chain.                                                  *)
(*                                                                         *)
(* One step is one callback of the authority mutation coordinator (one or  *)
(* two SQLite transactions, run to completion), or one answer from outside *)
(* an operation was awaiting.  Everything between two awaits can therefore *)
(* interleave with the other operations, with the operator and with the    *)
(* clock.  A crash, or the fail-stop the code takes itself, may come       *)
(* between any two steps, and between the domain transaction and the       *)
(* receipt transaction of one callback.                                    *)
(*                                                                         *)
(* inFlightByIntent allows one live execute() per intent, so pc[i] is the  *)
(* program point of the operation on intent i:                             *)
(*   idle      no operation                                                *)
(*   probe     awaiting the unpaid response to a new or resumed request    *)
(*   evaluate  challenge received, awaiting the wallet's identity          *)
(*   reprobe, reevaluate                                                   *)
(*             the same two awaits for an approved retry                   *)
(*   decided   challenge and PolicyDecision committed                      *)
(*   consume   fresh challenge unchanged, approval to be consumed          *)
(*   cancel    approval to be cancelled: the answer was not the unchanged  *)
(*             challenge, or its fresh evaluation does not ask for one     *)
(*   replace   approval to be replaced by one for the changed challenge    *)
(*   claim     budget reserved, signing to be claimed                      *)
(*   sign      permit issued, awaiting the wallet                          *)
(*   retry     signed payment persisted                                    *)
(*   send      paid retry claimed, payment not yet on the wire             *)
(*   pay       awaiting the paid response                                  *)
(***************************************************************************)
EXTENDS BudgetLedger, ApprovalQueue

CONSTANTS
    AutoLimit,          \* seller.autoApproveAtomic
    HumanLimit,         \* min(perRequestMaxAtomic, humanApproveAtomic)
    TicksPerSecond,     \* clock ticks in one second of an authorization
    MaxTimeout,         \* maxTimeoutSeconds of the selected offer
    MaxTime,            \* model bound: last clock tick
    MaxFaults           \* model bound: crashes and injected faults

ASSUME KernelAssumption ==
    /\ AutoLimit \in Nat
    /\ HumanLimit \in Nat
    /\ TicksPerSecond \in Nat \ {0}
    /\ MaxTimeout \in Nat \ {0}
    /\ MaxTime \in Nat
    /\ MaxFaults \in Nat

VARIABLES
    mode,           \* up, stopped, recovering or recovery_only
    faults,         \* crashes and injected faults so far
    startedAt,      \* startupAt of the running recovery
    now,            \* the clock, one for the Kernel and the chain
    pc,             \* program point of the operation on each intent
    receivedAt,     \* its challengeReceivedAt (NoTime: no challenge in its hands)
    decision,       \* policy_decisions.decision
    decidedAt,      \* policy_decisions.decided_at
    attempt,        \* payment_attempts.state
    validBefore,    \* payment_attempts.valid_before, in seconds
    execution,      \* execution_outcomes.state
    resolution,     \* execution_resolutions.state, the opened refund with it
    outcome,        \* buyer_outcomes.status (none: no row)
    receipt,        \* the signed receipt of the outcome exists
    world,          \* what the wallet and the chain did with the permit
    asks,           \* permits handed to the wallet for each intent
    paidAt          \* chain time of the transfer (NoTime: none)

processVars == <<mode, faults, startedAt>>
operationVars == <<pc, receivedAt>>
decisionVars == <<decision, decidedAt>>
attemptVars == <<attempt, validBefore>>
effectVars  == <<execution, resolution>>
worldVars   == <<world, asks, paidAt>>

vars == <<intentVars, sessionVars, ledgerVars, queueVars, processVars, now, operationVars,
          decisionVars, attemptVars, effectVars, outcome, receipt, worldVars>>

Mode == {"up", "stopped", "recovering", "recovery_only"}

ProgramPoint == {"idle", "probe", "evaluate", "reprobe", "reevaluate", "decided",
                 "consume", "cancel", "replace", "claim", "sign", "retry", "send", "pay"}

AttemptState == {"none", "reserved", "signing", "signed", "retrying", "settled",
                 "rejected", "unresolved"}

BuyerStatus == {"completed", "upstream_failed", "payment_denied", "payment_failed",
                "payment_unresolved", "execution_failed", "execution_unknown"}

\* untouched: never asked.  refused: the wallet rejected before signing.
\* sent: the signed payment reached the seller.
WorldState == {"untouched", "asked", "refused", "signed", "sent", "transferred"}

InFlightStates == {"signing", "signed", "retrying"}

Init ==
    /\ SpendIntentsInit
    /\ BudgetLedgerInit
    /\ ApprovalQueueInit
    /\ mode = "up"
    /\ faults = 0
    /\ startedAt = NoTime
    /\ now = 0
    /\ pc = [i \in Intents |-> "idle"]
    /\ receivedAt = [i \in Intents |-> NoTime]
    /\ decision = [i \in Intents |-> "none"]
    /\ decidedAt = [i \in Intents |-> NoTime]
    /\ attempt = [i \in Intents |-> "none"]
    /\ validBefore = [i \in Intents |-> 0]
    /\ execution = [i \in Intents |-> "none"]
    /\ resolution = [i \in Intents |-> "none"]
    /\ outcome = [i \in Intents |-> "none"]
    /\ receipt = [i \in Intents |-> FALSE]
    /\ world = [i \in Intents |-> "untouched"]
    /\ asks = [i \in Intents |-> 0]
    /\ paidAt = [i \in Intents |-> NoTime]

-----------------------------------------------------------------------------
(***************************************************************************)
(* Shared pieces of the handlers.                                          *)
(***************************************************************************)
Goto(i, point) ==
    /\ pc' = [pc EXCEPT ![i] = point]
    /\ receivedAt' = [receivedAt EXCEPT ![i] = NoTime]

EndOperations(S) ==
    /\ pc' = [i \in Intents |-> IF i \in S THEN "idle" ELSE pc[i]]
    /\ receivedAt' = [i \in Intents |-> IF i \in S THEN NoTime ELSE receivedAt[i]]

Record(i, status) == outcome' = [outcome EXCEPT ![i] = status]

SetAttempt(i, state) == attempt' = [attempt EXCEPT ![i] = state] /\ UNCHANGED validBefore

FaultLeft == faults < MaxFaults

(***************************************************************************)
(* The end of a callback whose transaction recorded outcomes for the       *)
(* intents S: issueTerminalReceipt for each, then the operations in ended  *)
(* return.  Every issue checks the parity of all outcomes and receipts,    *)
(* so with two outcomes still without receipt the first issue fails, and   *)
(* the Kernel marks its authority unhealthy and stops.                     *)
(***************************************************************************)
Conclude(S, ended) ==
    \/ /\ Cardinality(S) <= 1
       /\ receipt' = [i \in Intents |-> receipt[i] \/ i \in S]
       /\ EndOperations(ended)
       /\ UNCHANGED processVars
    \/ /\ \/ Cardinality(S) > 1 /\ UNCHANGED faults
          \/ FaultLeft /\ faults' = faults + 1
       /\ mode' = "stopped"
       /\ EndOperations(Intents)
       /\ UNCHANGED <<receipt, startedAt>>

\* walletBlockers.
WalletBlocked == UnresolvedBudget \/ \E i \in Intents : resolution[i] # "none"

\* evaluateSpendPolicy on the amount and the exposures read at the instant at.
Decide(i, at) ==
    IF \/ Amount[i] > HumanLimit
       \/ ~WithinCeilings(i, sessionOf[i], at)
       \/ Amount[i] > AutoLimit /\ PendingCount >= MaxPending
    THEN "deny"
    ELSE IF Amount[i] <= AutoLimit THEN "allow" ELSE "approval_required"

\* loadReservationAuthority and reserveImpl, as read by the transaction.
CanReserve(i) ==
    /\ SessionLive(sessionOf[i])
    /\ now - challengeAt[i] <= ChallengeMaxAge
    /\ budget[i] = "none"
    /\ ~WalletBlocked
    /\ WithinCeilings(i, sessionOf[i], now)

\* expireDueApprovals has run at this instant.
Swept == \A i \in Intents : ~Due(i, now)

Seconds(t) == t \div TicksPerSecond

Lesser(a, b) == IF a <= b THEN a ELSE b

\* challengeReceivedAt + challengeMaxAgeMs, and the approval's expiry.
ChallengeDeadline(i) == challengeAt[i] + ChallengeMaxAge

AuthorizationDeadline(i) ==
    IF approval[i] = "consumed"
    THEN Lesser(ChallengeDeadline(i), expiresAt[i])
    ELSE ChallengeDeadline(i)

WindowExhausted(i) == Seconds(AuthorizationDeadline(i)) <= Seconds(now)

-----------------------------------------------------------------------------
(***************************************************************************)
(* execute(): capture, probe and challenge.                                *)
(***************************************************************************)
CaptureIntent(i) ==
    /\ mode = "up"
    /\ Capture(i)
    /\ Goto(i, "probe")
    /\ UNCHANGED <<sessionVars, ledgerVars, queueVars, processVars, now, decisionVars,
                   attemptVars, effectVars, outcome, receipt, worldVars>>

\* The same request again, its earlier operation having failed on the way.
ResumeIntent(i) ==
    /\ mode = "up"
    /\ pc[i] = "idle"
    /\ intent[i] \in {"captured", "challenged", "reserved"}
    /\ SessionLive(sessionOf[i])
    /\ Goto(i, "probe")
    /\ UNCHANGED <<intentVars, sessionVars, ledgerVars, queueVars, processVars, now,
                   decisionVars, attemptVars, effectVars, outcome, receipt, worldVars>>

\* The same request again after the operator approved it.
RetryApproved(i) ==
    /\ mode = "up"
    /\ pc[i] = "idle"
    /\ intent[i] = "approval_pending"
    /\ approval[i] = "approved"
    /\ now < expiresAt[i]
    /\ SessionLive(sessionOf[i])
    /\ Goto(i, "reprobe")
    /\ UNCHANGED <<intentVars, sessionVars, ledgerVars, queueVars, processVars, now,
                   decisionVars, attemptVars, effectVars, outcome, receipt, worldVars>>

(***************************************************************************)
(* terminalizeOrdinary: the seller answered without a challenge (e is      *)
(* succeeded or failed), or did not answer (unknown).  Nothing was paid    *)
(* and no execution resolution is opened.                                  *)
(***************************************************************************)
OrdinaryResponse(i, e) ==
    /\ mode = "up"
    /\ pc[i] = "probe"
    /\ Transition(i, "captured", "terminal")
    /\ execution' = [execution EXCEPT ![i] = e]
    /\ Record(i, IF e = "succeeded" THEN "completed" ELSE "upstream_failed")
    /\ Conclude({i}, {i})
    /\ UNCHANGED <<sessionVars, ledgerVars, queueVars, now, decisionVars, attemptVars,
                   resolution, worldVars>>

\* terminalizeOrdinary for an approved retry: the approval stays approved.
ReprobeTransportFailure(i) ==
    /\ mode = "up"
    /\ pc[i] = "reprobe"
    /\ Transition(i, "approval_pending", "terminal")
    /\ execution' = [execution EXCEPT ![i] = "unknown"]
    /\ Record(i, "upstream_failed")
    /\ Conclude({i}, {i})
    /\ UNCHANGED <<sessionVars, ledgerVars, queueVars, now, decisionVars, attemptVars,
                   resolution, worldVars>>

(***************************************************************************)
(* The answer is a challenge.  Its receipt time is taken before the await  *)
(* of the wallet's identity, which can take its own time.                  *)
(***************************************************************************)
ReceiveChallenge(i) ==
    /\ mode = "up"
    /\ \/ pc[i] = "probe" /\ pc' = [pc EXCEPT ![i] = "evaluate"]
       \/ pc[i] = "reprobe" /\ pc' = [pc EXCEPT ![i] = "reevaluate"]
    /\ receivedAt' = [receivedAt EXCEPT ![i] = now]
    /\ UNCHANGED <<intentVars, sessionVars, ledgerVars, queueVars, processVars, now,
                   decisionVars, attemptVars, effectVars, outcome, receipt, worldVars>>

\* terminalizeWithoutExecution for a challenge that is not well formed, as the
\* transport finds at once and the evaluation only later.
MalformedChallenge(i) ==
    /\ mode = "up"
    /\ pc[i] \in {"probe", "evaluate"}
    /\ Transition(i, "captured", "terminal")
    /\ Record(i, "payment_denied")
    /\ Conclude({i}, {i})
    /\ UNCHANGED <<sessionVars, ledgerVars, queueVars, now, decisionVars, attemptVars,
                   effectVars, worldVars>>

(***************************************************************************)
(* evaluateChallenge after that await: the exposures are read and the      *)
(* decision recorded in one turn of the event loop.  A challenge may also  *)
(* be denied for its seller, payee, network or asset, whatever its amount. *)
(* A challenge that was already attached needs the decision that was       *)
(* recorded with it.                                                       *)
(***************************************************************************)
AttachChallenge(i) ==
    /\ mode = "up"
    /\ pc[i] = "evaluate"
    /\ Attach(i, receivedAt[i])
    /\ \E d \in {Decide(i, receivedAt[i]), "deny"} :
         \/ /\ decision[i] = "none"
            /\ decision' = [decision EXCEPT ![i] = d]
            /\ decidedAt' = [decidedAt EXCEPT ![i] = now]
         \/ /\ decision[i] = d
            /\ UNCHANGED decisionVars
    /\ Goto(i, "decided")
    /\ UNCHANGED <<sessionVars, ledgerVars, queueVars, processVars, now, attemptVars,
                   effectVars, outcome, receipt, worldVars>>

DenyChallenge(i) ==
    /\ mode = "up"
    /\ pc[i] = "decided"
    /\ decision[i] = "deny"
    /\ Transition(i, "challenged", "terminal")
    /\ Record(i, "payment_denied")
    /\ Conclude({i}, {i})
    /\ UNCHANGED <<sessionVars, ledgerVars, queueVars, now, decisionVars, attemptVars,
                   effectVars, worldVars>>

\* requestApproval, after its own sweep of the due approvals.
RequestApproval(i) ==
    /\ mode = "up"
    /\ pc[i] = "decided"
    /\ decision[i] = "approval_required"
    /\ Swept
    /\ Transition(i, "challenged", "approval_pending")
    /\ Request(i, now, ExpiryOf(decidedAt[i], challengeAt[i]))
    /\ Goto(i, "idle")
    /\ UNCHANGED <<sessionVars, ledgerVars, processVars, now, decisionVars, attemptVars,
                   effectVars, outcome, receipt, worldVars>>

ReserveAutomatic(i) ==
    /\ mode = "up"
    /\ pc[i] = "decided"
    /\ decision[i] = "allow"
    /\ CanReserve(i)
    /\ Transition(i, "challenged", "reserved")
    /\ Reserve(i, now)
    /\ SetAttempt(i, "reserved")
    /\ Goto(i, "claim")
    /\ UNCHANGED <<sessionVars, queueVars, processVars, now, decisionVars, effectVars, outcome,
                   receipt, worldVars>>

-----------------------------------------------------------------------------
(***************************************************************************)
(* The approved retry: what the fresh unpaid response turns it into.       *)
(***************************************************************************)
FreshChallenge(i) ==
    /\ mode = "up"
    /\ \/ /\ pc[i] = "reevaluate"
          /\ Decide(i, receivedAt[i]) = "approval_required"
          /\ Goto(i, "consume")
       \/ /\ pc[i] = "reevaluate"
          /\ Goto(i, "replace")
       \/ /\ pc[i] \in {"reprobe", "reevaluate"}
          /\ Goto(i, "cancel")
    /\ UNCHANGED <<intentVars, sessionVars, ledgerVars, queueVars, processVars, now,
                   decisionVars, attemptVars, effectVars, outcome, receipt, worldVars>>

\* reserveApproved: the approval is consumed with the reservation, or neither.
ReserveApproved(i) ==
    /\ mode = "up"
    /\ pc[i] = "consume"
    /\ Consume(i, now)
    /\ CanReserve(i)
    /\ Transition(i, "approval_pending", "reserved")
    /\ Reserve(i, now)
    /\ SetAttempt(i, "reserved")
    /\ Goto(i, "claim")
    /\ UNCHANGED <<sessionVars, processVars, now, decisionVars, effectVars, outcome, receipt,
                   worldVars>>

\* replaceChangedApproval without a replacement.
CancelChanged(i) ==
    /\ mode = "up"
    /\ pc[i] = "cancel"
    /\ Cancel(i)
    /\ Transition(i, "approval_pending", "terminal")
    /\ Record(i, "payment_denied")
    /\ Conclude({i}, {i})
    /\ UNCHANGED <<sessionVars, ledgerVars, now, decisionVars, attemptVars, effectVars,
                   worldVars>>

NeedsHuman(i) == Amount[i] > AutoLimit /\ Amount[i] <= HumanLimit

\* replaceChangedApproval with the changed challenge's own intent and approval.
ReplaceChanged(i, j) ==
    /\ mode = "up"
    /\ pc[i] = "replace"
    /\ intent[i] = "approval_pending"
    /\ NeedsHuman(j)
    /\ Renew(i, j, now)
    /\ CaptureReplacement(i, j, now)
    /\ decision' = [decision EXCEPT ![j] = "approval_required"]
    /\ decidedAt' = [decidedAt EXCEPT ![j] = now]
    /\ Record(i, "payment_denied")
    /\ Conclude({i}, {i})
    /\ UNCHANGED <<sessionVars, ledgerVars, now, attemptVars, effectVars, worldVars>>

-----------------------------------------------------------------------------
(***************************************************************************)
(* executeReserved: claim, sign, persist, claim the paid retry, pay.       *)
(***************************************************************************)
\* signingClaim, and the permit handed to the wallet adapter.
SigningClaim(i) ==
    /\ mode = "up"
    /\ pc[i] = "claim"
    /\ ~WalletBlocked
    /\ ~WindowExhausted(i)
    /\ attempt[i] = "reserved"
    /\ Transition(i, "reserved", "signing")
    /\ attempt' = [attempt EXCEPT ![i] = "signing"]
    /\ validBefore' = [validBefore EXCEPT ![i] =
                         Lesser(Seconds(now) + MaxTimeout, Seconds(AuthorizationDeadline(i)))]
    /\ world' = [world EXCEPT ![i] = "asked"]
    /\ asks' = [asks EXCEPT ![i] = @ + 1]
    /\ Goto(i, "sign")
    /\ UNCHANGED <<sessionVars, ledgerVars, queueVars, processVars, now, decisionVars,
                   effectVars, outcome, receipt, paidAt>>

(***************************************************************************)
(* releaseUnsignedReservation after a claim that failed for one of the     *)
(* reasons the code turns into an outcome: a blocked wallet, an exhausted  *)
(* window, a revoked agent, or the nonce of another attempt drawn again.   *)
(* The claim and the release are two callbacks; what could come between    *)
(* them leaves the intent terminal, as it would before the claim.          *)
(***************************************************************************)
ClaimDenied(i) == WalletBlocked \/ WindowExhausted(i) \/ ~enrolled

NonceDrawnAgain(i) == \E k \in Intents \ {i} : asks[k] > 0

ReleaseUnsigned(i) ==
    /\ mode = "up"
    /\ pc[i] = "claim"
    /\ ClaimDenied(i) \/ NonceDrawnAgain(i)
    /\ attempt[i] = "reserved"
    /\ Transition(i, "reserved", "terminal")
    /\ Release(i)
    /\ SetAttempt(i, "rejected")
    /\ Record(i, IF ClaimDenied(i) THEN "payment_denied" ELSE "payment_failed")
    /\ Conclude({i}, {i})
    /\ UNCHANGED <<sessionVars, queueVars, now, decisionVars, effectVars, worldVars>>

\* The wallet adapter returned a signature and it is persisted.
PersistSigned(i) ==
    /\ mode = "up"
    /\ pc[i] = "sign"
    /\ world[i] = "signed"
    /\ attempt[i] = "signing"
    /\ Transition(i, "signing", "signed")
    /\ SetAttempt(i, "signed")
    /\ Goto(i, "retry")
    /\ UNCHANGED <<sessionVars, ledgerVars, queueVars, processVars, now, decisionVars,
                   effectVars, outcome, receipt, worldVars>>

\* Slip: a wallet that has not answered in time is taken for one that refused.
PreSignProofOrTimeout(i) == world[i] \in {"refused", "asked"}

PreSignProof(i) == world[i] = "refused"

\* releasePreSignerRejection: the exact typed proof that nothing was signed.
PreSignReject(i) ==
    /\ mode = "up"
    /\ pc[i] = "sign"
    /\ PreSignProof(i)
    /\ attempt[i] = "signing"
    /\ intent[i] = "signing"
    /\ intent' = [intent EXCEPT ![i] = "terminal"]
    /\ Release(i)
    /\ SetAttempt(i, "rejected")
    /\ Record(i, "payment_failed")
    /\ Conclude({i}, {i})
    /\ UNCHANGED <<sessionOf, challengeAt, sessionVars, queueVars, now, decisionVars,
                   effectVars, worldVars>>

\* Slip: a wallet that does not answer is asked again.
AskAgain(i) ==
    /\ mode = "up"
    /\ pc[i] = "sign"
    /\ world[i] = "asked"
    /\ asks' = [asks EXCEPT ![i] = @ + 1]
    /\ UNCHANGED <<intentVars, sessionVars, ledgerVars, queueVars, processVars, now,
                   operationVars, decisionVars, attemptVars, effectVars, outcome, receipt,
                   world, paidAt>>

\* holdSigningAmbiguity: any other answer of the wallet, a timeout included.
HoldSigning(i) ==
    /\ mode = "up"
    /\ pc[i] = "sign"
    /\ attempt[i] = "signing"
    /\ Transition(i, "signing", "unresolved")
    /\ HoldUnresolved(i)
    /\ SetAttempt(i, "unresolved")
    /\ Record(i, "payment_unresolved")
    /\ Conclude({i}, {i})
    /\ UNCHANGED <<sessionVars, queueVars, now, decisionVars, effectVars, worldVars>>

ClaimPaidRetry(i) ==
    /\ mode = "up"
    /\ pc[i] = "retry"
    /\ attempt[i] = "signed"
    /\ Transition(i, "signed", "retrying")
    /\ SetAttempt(i, "retrying")
    /\ Goto(i, "send")
    /\ UNCHANGED <<sessionVars, ledgerVars, queueVars, processVars, now, decisionVars,
                   effectVars, outcome, receipt, worldVars>>

\* transport.retryPaid puts the payment on the wire.
SendPayment(i) ==
    /\ mode = "up"
    /\ pc[i] = "send"
    /\ world' = [world EXCEPT ![i] = "sent"]
    /\ Goto(i, "pay")
    /\ UNCHANGED <<intentVars, sessionVars, ledgerVars, queueVars, processVars, now,
                   decisionVars, attemptVars, effectVars, outcome, receipt, asks, paidAt>>

(***************************************************************************)
(* settleExecution: valid settlement evidence with a delivery that         *)
(* succeeded, failed or is unknown.  Evidence names a settled transfer.    *)
(***************************************************************************)
\* Slip: a delivery that failed is final, as it is when nothing was paid.
ResolutionOfUnknown(e) == IF e = "unknown" THEN "reconciliation_required" ELSE "none"

ResolutionFor(e) ==
    CASE e = "succeeded" -> "none"
      [] e = "failed"    -> "refund_pending"
      [] e = "unknown"   -> "reconciliation_required"

\* Slip: the state of the execution is written for the status of the outcome.
SettledAsDelivered(e) == e

SettledStatus(e) ==
    CASE e = "succeeded" -> "completed"
      [] e = "failed"    -> "execution_failed"
      [] e = "unknown"   -> "execution_unknown"

SettleExecution(i, e) ==
    /\ mode = "up"
    /\ pc[i] = "pay"
    /\ world[i] = "transferred"
    /\ attempt[i] = "retrying"
    /\ Transition(i, "retrying", "terminal")
    /\ Commit(i, now)
    /\ SetAttempt(i, "settled")
    /\ execution' = [execution EXCEPT ![i] = e]
    /\ resolution' = [resolution EXCEPT ![i] = ResolutionFor(e)]
    /\ Record(i, SettledStatus(e))
    /\ Conclude({i}, {i})
    /\ UNCHANGED <<sessionVars, queueVars, now, decisionVars, worldVars>>

\* Slip: the error of the paid retry is only passed on to the agent.
PassErrorOn(i) ==
    /\ mode = "up"
    /\ pc[i] \in {"send", "pay"}
    /\ Goto(i, "idle")
    /\ UNCHANGED <<intentVars, sessionVars, ledgerVars, queueVars, processVars, now,
                   decisionVars, attemptVars, effectVars, outcome, receipt, worldVars>>

\* holdPaidAmbiguity: a second 402, a lost answer, evidence that is not valid.
HoldPaid(i) ==
    /\ mode = "up"
    /\ pc[i] \in {"send", "pay"}
    /\ attempt[i] = "retrying"
    /\ Transition(i, "retrying", "unresolved")
    /\ HoldUnresolved(i)
    /\ SetAttempt(i, "unresolved")
    /\ Record(i, "payment_unresolved")
    /\ Conclude({i}, {i})
    /\ UNCHANGED <<sessionVars, queueVars, now, decisionVars, effectVars, worldVars>>

-----------------------------------------------------------------------------
(***************************************************************************)
(* An operation that ends with an error before the wallet was asked writes *)
(* nothing: a transaction whose precondition no longer holds rolls back,   *)
(* the error reaches the agent, and the intent keeps its state.  A probe   *)
(* may always end so (a resource that is not the route's, a challenge that *)
(* differs from the attached one, a wallet that does not identify itself). *)
(***************************************************************************)
ReplacementFits(i) ==
    /\ intent[i] = "approval_pending"
    /\ approval[i] \in OpenDecisions
    /\ SessionLive(sessionOf[i])
    /\ Cardinality({k \in Intents \ {i} : approval[k] = "pending"}) < MaxPending
    \* Model bound: a member of Intents is left for the changed challenge.
    /\ \E j \in Intents : intent[j] = "none" /\ NeedsHuman(j)

\* Slip: the session may have ended the intent meanwhile.
DecidedRefusedUnlessEnded(i) == decision[i] = "allow" /\ ~CanReserve(i)

DecidedRefused(i) ==
    \/ intent[i] # "challenged"
    \/ /\ decision[i] = "allow"
       /\ ~CanReserve(i)
    \/ /\ decision[i] = "approval_required"
       /\ Swept
       /\ ~(/\ SessionLive(sessionOf[i])
            /\ CanRequest(i, now, ExpiryOf(decidedAt[i], challengeAt[i])))

ClaimRefused(i) ==
    \/ intent[i] # "reserved"
    \/ ~ClaimDenied(i) /\ ~SessionLive(sessionOf[i])

Refused(i) ==
    \/ pc[i] \in {"probe", "evaluate", "reevaluate"}
    \/ pc[i] = "decided" /\ DecidedRefused(i)
    \/ pc[i] = "reprobe" /\ intent[i] # "approval_pending"
    \/ /\ pc[i] = "consume"
       /\ ~(intent[i] = "approval_pending" /\ CanConsume(i, now) /\ CanReserve(i))
    \/ /\ pc[i] = "cancel"
       /\ ~(intent[i] = "approval_pending" /\ approval[i] \in OpenDecisions)
    \/ pc[i] = "replace" /\ ~ReplacementFits(i)
    \/ pc[i] = "claim" /\ ClaimRefused(i)

AbortOperation(i) ==
    /\ mode = "up"
    /\ Refused(i)
    /\ Goto(i, "idle")
    /\ UNCHANGED <<intentVars, sessionVars, ledgerVars, queueVars, processVars, now,
                   decisionVars, attemptVars, effectVars, outcome, receipt, worldVars>>

-----------------------------------------------------------------------------
(***************************************************************************)
(* The operator.  approvePending and denyPending sweep the due approvals   *)
(* first; any operator decision may sweep, so ExpireDue needs no cause.    *)
(***************************************************************************)
ApprovePending(i) ==
    /\ mode = "up"
    /\ Swept
    /\ Approve(i, now)
    /\ UNCHANGED <<intentVars, sessionVars, ledgerVars, processVars, now, operationVars,
                   decisionVars, attemptVars, effectVars, outcome, receipt, worldVars>>

DenyPending(i) ==
    /\ mode = "up"
    /\ Swept
    /\ Deny(i, now)
    /\ Transition(i, "approval_pending", "terminal")
    /\ Record(i, "payment_denied")
    /\ Conclude({i}, {})
    /\ UNCHANGED <<sessionVars, ledgerVars, now, decisionVars, attemptVars, effectVars,
                   worldVars>>

\* expireApprovalCandidate, from a sweep or from a retry that finds it due.
ExpireDue(i) ==
    /\ mode = "up"
    /\ Due(i, now)
    /\ Expire(i, now)
    /\ Transition(i, "approval_pending", "terminal")
    /\ Record(i, "payment_denied")
    /\ Conclude({i}, {})
    /\ UNCHANGED <<sessionVars, ledgerVars, now, decisionVars, attemptVars, effectVars,
                   worldVars>>

\* A new PolicyVersion becomes active.
ApplyPolicy ==
    /\ mode = "up"
    /\ BlockSession
    /\ UNCHANGED <<intentVars, ledgerVars, queueVars, processVars, now, operationVars,
                   decisionVars, attemptVars, effectVars, outcome, receipt, worldVars>>

RevokeAgent ==
    /\ mode = "up"
    /\ Revoke
    /\ UNCHANGED <<intentVars, ledgerVars, queueVars, processVars, now, operationVars,
                   decisionVars, attemptVars, effectVars, outcome, receipt, worldVars>>

(***************************************************************************)
(* runSessionAggregate: terminateSessionIntentsInTransaction with          *)
(* assertSessionMonetarySafety, then the session command, then a receipt   *)
(* for every intent it ended.                                              *)
(***************************************************************************)
\* Slip: only what is already known to be ambiguous holds the session open.
UnsafeWhenAmbiguous(i) == budget[i] = "unresolved" \/ resolution[i] # "none"

Unsafe(i) ==
    \/ intent[i] \in InFlightStates \cup {"unresolved"}
    \/ attempt[i] \in InFlightStates \cup {"unresolved"}
    \/ budget[i] = "unresolved"
    \/ resolution[i] # "none"

EndSession(command) ==
    LET open == {i \in InSession(session) : intent[i] # "terminal"}
    IN  /\ mode = "up"
        /\ \A i \in InSession(session) : ~Unsafe(i)
        /\ command
        /\ CancelAll(open)
        /\ ReleaseAll(open)
        /\ TerminateAll(open)
        /\ attempt' = [i \in Intents |->
                         IF i \in open /\ attempt[i] = "reserved" THEN "rejected" ELSE attempt[i]]
        /\ outcome' = [i \in Intents |-> IF i \in open THEN "payment_denied" ELSE outcome[i]]
        /\ Conclude(open, {})
        /\ UNCHANGED <<now, decisionVars, validBefore, effectVars, worldVars>>

CloseSession == EndSession(CloseLast)

TransitionSession == EndSession(ReplaceLast)

-----------------------------------------------------------------------------
(***************************************************************************)
(* The wallet service, the seller and the chain, and the clock.            *)
(***************************************************************************)
WalletAnswers(i) ==
    /\ world[i] = "asked"
    /\ \E answer \in {"signed", "refused"} : world' = [world EXCEPT ![i] = answer]
    /\ UNCHANGED <<intentVars, sessionVars, ledgerVars, queueVars, processVars, now,
                   operationVars, decisionVars, attemptVars, effectVars, outcome, receipt, asks,
                   paidAt>>

\* The token contract moves the money while the block time is before validBefore.
ChainTransfers(i) ==
    /\ world[i] = "sent"
    /\ now < validBefore[i] * TicksPerSecond
    /\ world' = [world EXCEPT ![i] = "transferred"]
    /\ paidAt' = [paidAt EXCEPT ![i] = now]
    /\ UNCHANGED <<intentVars, sessionVars, ledgerVars, queueVars, processVars, now,
                   operationVars, decisionVars, attemptVars, effectVars, outcome, receipt,
                   asks>>

Tick ==
    /\ now < MaxTime
    /\ now' = now + 1
    /\ UNCHANGED <<intentVars, sessionVars, ledgerVars, queueVars, processVars, operationVars,
                   decisionVars, attemptVars, effectVars, outcome, receipt, worldVars>>

-----------------------------------------------------------------------------
(***************************************************************************)
(* Crash, restart and startup recovery.                                    *)
(***************************************************************************)
StopKernel ==
    /\ mode # "stopped"
    /\ FaultLeft
    /\ faults' = faults + 1
    /\ mode' = "stopped"
    /\ startedAt' = NoTime
    /\ EndOperations(Intents)
    /\ UNCHANGED <<intentVars, sessionVars, ledgerVars, queueVars, now, decisionVars,
                   attemptVars, effectVars, outcome, receipt, worldVars>>

\* assertIntentBindings: what an execution row requires of its resolution.
ExecutionBound(i) ==
    /\ execution[i] = "unknown" => resolution[i] = "reconciliation_required"
    /\ execution[i] = "failed" => resolution[i] = "refund_pending"
    /\ resolution[i] # "none" => execution[i] # "none"

\* classifyIntents: the row of the recovery matrix for the intent's state.
NoMoney(i) == budget[i] = "none" /\ attempt[i] = "none" /\ execution[i] = "none"

Classified(i) ==
    CASE intent[i] = "none" -> TRUE
      [] intent[i] = "captured" ->
           NoMoney(i) /\ outcome[i] = "none" /\ decision[i] = "none" /\ approval[i] = "none"
      [] intent[i] = "challenged" ->
           NoMoney(i) /\ outcome[i] = "none" /\ decision[i] # "none" /\ approval[i] = "none"
      [] intent[i] = "approval_pending" ->
           /\ NoMoney(i) /\ outcome[i] = "none"
           /\ decision[i] = "approval_required"
           /\ approval[i] \in OpenDecisions
      [] intent[i] \in {"reserved"} \cup InFlightStates ->
           /\ budget[i] = "reserved" /\ attempt[i] = intent[i]
           /\ execution[i] = "none" /\ outcome[i] = "none"
      [] intent[i] = "unresolved" ->
           /\ budget[i] = "unresolved" /\ attempt[i] = "unresolved"
           /\ outcome[i] = "payment_unresolved"
           /\ execution[i] = "none" /\ resolution[i] = "none"
      [] intent[i] = "terminal" ->
           /\ outcome[i] # "none"
           /\ ~Held(i)
           /\ attempt[i] \notin {"reserved"} \cup InFlightStates

Admissible(i) == ExecutionBound(i) /\ Classified(i)

\* recoverKernelAuthority begins: the audit accepts every intent.
Restart ==
    /\ mode = "stopped"
    /\ \A i \in Intents : Admissible(i)
    /\ mode' = "recovering"
    /\ startedAt' = now
    /\ UNCHANGED <<intentVars, sessionVars, ledgerVars, queueVars, faults, now, operationVars,
                   decisionVars, attemptVars, effectVars, outcome, receipt, worldVars>>

\* Slip: what was not released is left to the operator.
NeedsRelease(i) ==
    \/ intent[i] \in {"captured", "challenged", "reserved"}
    \/ intent[i] = "approval_pending" /\ expiresAt[i] <= startedAt

NeedsRepair(i) ==
    \/ intent[i] \in {"captured", "challenged", "reserved"} \cup InFlightStates
    \/ intent[i] = "approval_pending" /\ expiresAt[i] <= startedAt

\* repair abandon_unsigned.
RepairAbandoned(i) ==
    /\ mode = "recovering"
    /\ \/ intent[i] = "captured" /\ Record(i, "upstream_failed")
       \/ /\ intent[i] = "challenged"
          /\ Record(i, IF decision[i] = "deny" THEN "payment_denied" ELSE "payment_failed")
    /\ Transition(i, intent[i], "terminal")
    /\ UNCHANGED <<sessionVars, ledgerVars, queueVars, processVars, now, operationVars,
                   decisionVars, attemptVars, effectVars, receipt, worldVars>>

\* repair expire_approval.
RepairExpired(i) ==
    /\ mode = "recovering"
    /\ expiresAt[i] <= startedAt
    /\ Transition(i, "approval_pending", "terminal")
    /\ Expire(i, now)
    /\ Record(i, "payment_denied")
    /\ UNCHANGED <<sessionVars, ledgerVars, processVars, now, operationVars, decisionVars,
                   attemptVars, effectVars, receipt, worldVars>>

\* repair release_reserved: definitely unsigned.
RepairReserved(i) ==
    /\ mode = "recovering"
    /\ Transition(i, "reserved", "terminal")
    /\ Release(i)
    /\ SetAttempt(i, "rejected")
    /\ Record(i, "payment_failed")
    /\ UNCHANGED <<sessionVars, queueVars, processVars, now, operationVars, decisionVars,
                   effectVars, receipt, worldVars>>

\* repair hold_ambiguous: perhaps signed, perhaps paid; never tried again.
RepairAmbiguous(i) ==
    /\ mode = "recovering"
    /\ intent[i] \in InFlightStates
    /\ Transition(i, intent[i], "unresolved")
    /\ HoldUnresolved(i)
    /\ SetAttempt(i, "unresolved")
    /\ Record(i, "payment_unresolved")
    /\ UNCHANGED <<sessionVars, queueVars, processVars, now, operationVars, decisionVars,
                   effectVars, receipt, worldVars>>

\* issueMissingTerminalReceipts.
\* Slip: an outcome that may still change waits for its receipt.
RecoveredFinalReceipt(i) == receipt[i] \/ outcome[i] \notin {"none", "payment_unresolved"}

RecoveredReceipt(i) == receipt[i] \/ outcome[i] # "none"

(***************************************************************************)
(* issueMissingTerminalReceipts and the final audit, then the composition  *)
(* the control plane chooses: without an active enrollment the Kernel is   *)
(* not built at all.                                                       *)
(***************************************************************************)
FinishRecovery ==
    /\ mode = "recovering"
    /\ \A i \in Intents : ~NeedsRepair(i)
    /\ receipt' = [i \in Intents |-> RecoveredReceipt(i)]
    /\ startedAt' = NoTime
    /\ IF enrolled
       THEN mode' = "up" /\ OpenOrResume
       ELSE mode' = "recovery_only" /\ UNCHANGED sessionVars
    /\ UNCHANGED <<intentVars, ledgerVars, queueVars, faults, now, operationVars, decisionVars,
                   attemptVars, effectVars, outcome, worldVars>>

-----------------------------------------------------------------------------
Deliveries == {"succeeded", "failed", "unknown"}

\* What the operation on one intent does next.
Operation(i) ==
    \/ \E e \in Deliveries : OrdinaryResponse(i, e)
    \/ ReprobeTransportFailure(i)
    \/ ReceiveChallenge(i)
    \/ MalformedChallenge(i)
    \/ AttachChallenge(i)
    \/ DenyChallenge(i)
    \/ RequestApproval(i)
    \/ ReserveAutomatic(i)
    \/ FreshChallenge(i)
    \/ ReserveApproved(i)
    \/ CancelChanged(i)
    \/ \E j \in Intents : ReplaceChanged(i, j)
    \/ SigningClaim(i)
    \/ ReleaseUnsigned(i)
    \/ PersistSigned(i)
    \/ PreSignReject(i)
    \/ HoldSigning(i)
    \/ ClaimPaidRetry(i)
    \/ SendPayment(i)
    \/ \E e \in Deliveries : SettleExecution(i, e)
    \/ HoldPaid(i)
    \/ AbortOperation(i)

Repair(i) ==
    \/ RepairAbandoned(i)
    \/ RepairExpired(i)
    \/ RepairReserved(i)
    \/ RepairAmbiguous(i)

Next ==
    \/ \E i \in Intents :
         \/ CaptureIntent(i)
         \/ ResumeIntent(i)
         \/ RetryApproved(i)
         \/ Operation(i)
         \/ ApprovePending(i)
         \/ DenyPending(i)
         \/ ExpireDue(i)
         \/ WalletAnswers(i)
         \/ ChainTransfers(i)
         \/ Repair(i)
    \/ ApplyPolicy
    \/ RevokeAgent
    \/ CloseSession
    \/ TransitionSession
    \/ Tick
    \/ StopKernel
    \/ Restart
    \/ FinishRecovery

Spec == Init /\ [][Next]_vars

(***************************************************************************)
(* Fairness.  A live operation continues: the probe, the paid retry and    *)
(* the wallet call all carry their own timeouts, and everything else is    *)
(* the event loop.  A sweep that an operation is waiting for runs to its   *)
(* end.  A stopped Kernel is started again by its supervisor, and recovery *)
(* is straight-line code.  Nothing makes the agent, the operator, the      *)
(* seller, the wallet or the chain do anything.                            *)
(***************************************************************************)
SweepFor(i) ==
    /\ pc[i] = "decided"
    /\ \E k \in Intents : ExpireDue(k)

Fairness ==
    /\ \A i \in Intents : WF_vars(Operation(i)) /\ WF_vars(SweepFor(i)) /\ WF_vars(Repair(i))
    /\ WF_vars(Restart)
    /\ WF_vars(FinishRecovery)

FairSpec == Spec /\ Fairness

-----------------------------------------------------------------------------
TypeOK ==
    /\ SpendIntentsTypeOK
    /\ BudgetLedgerTypeOK
    /\ ApprovalQueueTypeOK
    /\ mode \in Mode
    /\ faults \in 0..MaxFaults
    /\ startedAt \in Int
    /\ now \in 0..MaxTime
    /\ pc \in [Intents -> ProgramPoint]
    /\ receivedAt \in [Intents -> Int]
    /\ decidedAt \in [Intents -> Int]
    /\ decision \in [Intents -> {"none", "allow", "approval_required", "deny"}]
    /\ attempt \in [Intents -> AttemptState]
    /\ validBefore \in [Intents -> Int]
    /\ execution \in [Intents -> {"none"} \cup Deliveries]
    /\ resolution \in [Intents -> {"none", "refund_pending", "reconciliation_required"}]
    /\ outcome \in [Intents -> {"none"} \cup BuyerStatus]
    /\ receipt \in [Intents -> BOOLEAN]
    /\ world \in [Intents -> WorldState]
    /\ asks \in [Intents -> Nat]
    /\ paidAt \in [Intents -> Int]
-----------------------------------------------------------------------------
(***************************************************************************)
(* Safety.                                                                 *)
(***************************************************************************)
SomethingAmbiguous ==
    \E i \in Intents : budget[i] = "unresolved" \/ resolution[i] # "none"

Live(i) == world[i] \in {"asked", "signed", "sent", "transferred"}

Paid(i) == paidAt[i] # NoTime

\* Whatever a crash, a restart, a retry or a second request does between two
\* steps, the wallet is asked at most once to sign for one Spend Intent: the
\* claim of reserved by signing is never repeated and recovery never signs.
SignedOnce == \A i \in Intents : asks[i] <= 1

\* As long as the wallet may still sign, or the seller may still collect, the
\* ledger carries the amount: reserved, unresolved or committed.  A release
\* needs the definite proof that nothing was and nothing will be signed.
MoneyAccounted == \A i \in Intents : Live(i) => Exposed(i)

\* All the money that moves out in any period of length Window, by chain time,
\* stays within the rolling ceiling, although the ledger counts by commit time,
\* held amounts without time, and settlements may be recorded late.
RollingCeilingHolds ==
    \A i \in Intents :
        Paid(i) => SumOf({k \in Intents : /\ Paid(k)
                                         /\ paidAt[i] <= paidAt[k]
                                         /\ paidAt[k] < paidAt[i] + Window}) <= RollingMax

\* What a session may still cost, by what the wallet was asked for and not by
\* what the ledger says, stays within the ceilings of the session and of the
\* seller, whatever operations raced for the last of the budget.
SessionCeilingHolds ==
    \A s \in 1..session : \A seller \in {Seller[i] : i \in Intents} :
        LET asked == {i \in Intents : Live(i) /\ sessionOf[i] = s}
        IN  /\ SumOf(asked) <= SessionMax
            /\ SumOf({i \in asked : Seller[i] = seller}) <= SellerSessionMax

\* Money that moved, moved while its challenge was still fresh and, above the
\* automatic limit, under an approval that was consumed and had not expired
\* at the chain time of the transfer: the authorization window is cut, in
\* whole seconds, to the shortest of the three deadlines.
PaidUnderAuthority ==
    \A i \in Intents :
        Paid(i) => /\ paidAt[i] < challengeAt[i] + ChallengeMaxAge
                   /\ decision[i] # "deny"
                   /\ Amount[i] > AutoLimit =>
                        approval[i] = "consumed" /\ paidAt[i] < expiresAt[i]

\* No budget is taken for an amount above the automatic limit without a
\* consumed approval, and an approval that was denied, expired or cancelled,
\* by whichever of the racing operator, sweep, retry and session close came
\* first, never lets the wallet be asked.
ApprovalGatesMoney ==
    \A i \in Intents :
        /\ budget[i] # "none" /\ Amount[i] > AutoLimit => approval[i] = "consumed"
        /\ approval[i] \in {"pending", "approved", "denied", "expired", "cancelled"}
             => budget[i] = "none" /\ world[i] = "untouched"

\* While the Kernel serves requests, every recorded outcome has its signed
\* receipt and nothing else has one, across crashes between the two commits.
ReceiptParity ==
    mode \in {"up", "recovery_only"} =>
        \A i \in Intents : receipt[i] = (outcome[i] # "none")

\* An answer to an unpaid request that failed or never came: terminalizeOrdinary
\* records it as an execution without opening a resolution.
FreeFailure(i) ==
    execution[i] \in {"failed", "unknown"} /\ attempt[i] = "none" /\ budget[i] = "none"

\* Every state a crash can leave behind is a row of the recovery matrix for
\* the money of every intent (free failures, where no money is involved, are
\* the subject of RestartAlwaysAdmitted).
MoneyRecoverable ==
    \A i \in Intents : Classified(i) /\ (ExecutionBound(i) \/ FreeFailure(i))

\* While the Kernel is up, an intent that is signing, signed or retrying has its
\* live operation: no error path leaves one that every later request is told
\* is in flight and no restart was asked to look at.
InFlightHasOperation ==
    mode = "up" =>
        \A i \in Intents :
            /\ intent[i] = "signing" => pc[i] = "sign"
            /\ intent[i] = "signed" => pc[i] = "retry"
            /\ intent[i] = "retrying" => pc[i] \in {"send", "pay"}

\* A session that was ended has nothing left that could spend or be spent,
\* although operations on its intents may still be running.
EndedSessionIsInert ==
    \A i \in Intents :
        intent[i] # "none" /\ (sessionOf[i] < session \/ sessionState = "closed") =>
            /\ intent[i] = "terminal" /\ ~Held(i) /\ resolution[i] = "none"
            /\ Live(i) => budget[i] = "committed"

\* No step changes an outcome that was recorded, a payment that settled or a
\* reservation that was given back, whichever of two racing terminations
\* comes second.
OutcomeFinal ==
    [][\A i \in Intents :
         /\ outcome[i] # "none" => outcome'[i] = outcome[i]
         /\ budget[i] \in {"committed", "released"} => budget'[i] = budget[i]
         /\ receipt[i] => receipt'[i]]_vars

\* While a payment or a delivery of the wallet is ambiguous, or the agent is
\* revoked, or its session is not open, no further budget is taken and the
\* wallet is asked for no further signature, even for money reserved before.
FrozenAuthorityIsFrozen ==
    [][SomethingAmbiguous \/ ~enrolled \/ sessionState # "open" =>
         \A i \in Intents :
             /\ asks'[i] = asks[i]
             /\ budget'[i] = "reserved" => budget[i] = "reserved"]_vars

-----------------------------------------------------------------------------
(***************************************************************************)
(* The Kernel implements the escrow the wallet owner was promised.         *)
(***************************************************************************)
HoldOf(state) ==
    IF state \in {"reserved", "unresolved"} THEN "held"
    ELSE IF state = "committed" THEN "spent"
    ELSE IF state = "released" THEN "returned" ELSE "none"

EscrowOfKernel ==
    INSTANCE SpendEscrow WITH
        Payments <- Intents,
        Accounts <- 0..MaxSessions,
        Price    <- Amount,
        Total    <- SumOf,
        Limit    <- SessionMax,
        hold     <- [i \in Intents |-> HoldOf(budget[i])],
        account  <- sessionOf,
        signed   <- {i \in Intents : world[i] \in {"signed", "sent", "transferred"}},
        moved    <- {i \in Intents : world[i] = "transferred"}

\* Every step of the Kernel, its crashes and its recovery, seen through the
\* ledger and the wallet, is a step the escrow allows.
ImplementsEscrow == EscrowOfKernel!Escrow

-----------------------------------------------------------------------------
(***************************************************************************)
(* Liveness, under Fairness.                                               *)
(***************************************************************************)
\* execute() returns: no operation waits for ever for an answer, for a
\* transaction another operation holds off, or for a sweep.
OperationsReturn == \A i \in Intents : pc[i] # "idle" ~> pc[i] = "idle"

\* An intent that a crash, or a wallet or seller that never answers, caught
\* signing, signed or retrying reaches a recorded outcome, by its operation or by
\* the recovery of the next startup, unless a free failure blocks that startup.
AmbiguityIsReported ==
    \A i \in Intents :
        intent[i] \in InFlightStates ~>
            outcome[i] # "none" \/ \E k \in Intents : FreeFailure(k)

-----------------------------------------------------------------------------
(***************************************************************************)
(* Statements of the project's documents the code does not keep.           *)
(***************************************************************************)
\* "Restarting with the same active credential and unchanged PolicyVersion
\* reuses the existing ... approval state": whatever happened before, the
\* audit at the next startup accepts every intent.
RestartAlwaysAdmitted == \A i \in Intents : Admissible(i)

\* Ending a session issues all its receipts and returns success: without a
\* fault the Kernel does not stop.
StopsOnlyOnFault == faults = 0 => mode = "up"
=============================================================================
