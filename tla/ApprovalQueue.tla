---------------------------- MODULE ApprovalQueue ---------------------------
(***************************************************************************)
(* The approval queue of the Wallet Kernel (approval-queue.mjs): at most   *)
(* one Approval per Spend Intent, bound to the exact challenge of the      *)
(* intent, which expires at an instant fixed when it is requested.         *)
(***************************************************************************)
EXTENDS SpendIntents

CONSTANTS
    MaxPending,         \* policy.maxPendingApprovals
    ApprovalTtl,        \* policy.approvalTtlMs, in ticks
    ChallengeMaxAge     \* policy.challengeMaxAgeMs, in ticks

ASSUME ApprovalAssumption ==
    /\ MaxPending \in Nat
    /\ ApprovalTtl \in Nat \ {0}
    /\ ChallengeMaxAge \in Nat \ {0}

VARIABLES
    approval,       \* approvals.decision
    expiresAt       \* approvals.expires_at

queueVars == <<approval, expiresAt>>

ApprovalDecision ==
    {"none", "pending", "approved", "consumed", "denied", "expired", "cancelled"}

OpenDecisions == {"pending", "approved"}

PendingCount == Cardinality({i \in Intents : approval[i] = "pending"})

\* loadAuthority: an approval outlives neither its challenge nor its own TTL.
ExpiryOf(decidedAt, challengeReceivedAt) ==
    LET challengeDeadline == challengeReceivedAt + ChallengeMaxAge
        approvalDeadline  == decidedAt + ApprovalTtl
    IN  IF challengeDeadline <= approvalDeadline THEN challengeDeadline ELSE approvalDeadline

\* listDue.
Due(i, at) ==
    /\ approval[i] \in OpenDecisions
    /\ intent[i] = "approval_pending"
    /\ expiresAt[i] <= at

ApprovalQueueInit ==
    /\ approval = [i \in Intents |-> "none"]
    /\ expiresAt = [i \in Intents |-> NoTime]

\* requestInTransaction.
CanRequest(i, at, expiry) ==
    /\ approval[i] = "none"
    /\ at < expiry
    /\ PendingCount < MaxPending

Request(i, at, expiry) ==
    /\ CanRequest(i, at, expiry)
    /\ approval' = [approval EXCEPT ![i] = "pending"]
    /\ expiresAt' = [expiresAt EXCEPT ![i] = expiry]

\* approve.
Approve(i, at) ==
    /\ approval[i] = "pending"
    /\ at < expiresAt[i]
    /\ approval' = [approval EXCEPT ![i] = "approved"]
    /\ UNCHANGED expiresAt

\* denyForIntentInTransaction.
Deny(i, at) ==
    /\ approval[i] = "pending"
    /\ at < expiresAt[i]
    /\ approval' = [approval EXCEPT ![i] = "denied"]
    /\ UNCHANGED expiresAt

\* expireForIntentInTransaction.
Expire(i, at) ==
    /\ approval[i] \in OpenDecisions
    /\ expiresAt[i] <= at
    /\ approval' = [approval EXCEPT ![i] = "expired"]
    /\ UNCHANGED expiresAt

\* consumeForInTransaction.
CanConsume(i, at) == approval[i] = "approved" /\ at < expiresAt[i]

\* Slip: the approval is checked and stays approved.
ConsumeNothing(i, at) == CanConsume(i, at) /\ UNCHANGED queueVars

Consume(i, at) ==
    /\ CanConsume(i, at)
    /\ approval' = [approval EXCEPT ![i] = "consumed"]
    /\ UNCHANGED expiresAt

\* cancelForIntentInTransaction.
Cancel(i) ==
    /\ approval[i] \in OpenDecisions
    /\ approval' = [approval EXCEPT ![i] = "cancelled"]
    /\ UNCHANGED expiresAt

CancelAll(S) ==
    /\ approval' = [i \in Intents |->
                      IF i \in S /\ approval[i] \in OpenDecisions
                      THEN "cancelled" ELSE approval[i]]
    /\ UNCHANGED expiresAt

\* Cancel the approval of i and request one for its replacement j.
Renew(i, j, at) ==
    /\ approval[i] \in OpenDecisions
    /\ approval[j] = "none"
    /\ Cardinality({k \in Intents \ {i} : approval[k] = "pending"}) < MaxPending
    /\ approval' = [approval EXCEPT ![i] = "cancelled", ![j] = "pending"]
    /\ expiresAt' = [expiresAt EXCEPT ![j] = ExpiryOf(at, at)]

ApprovalQueueTypeOK ==
    /\ approval \in [Intents -> ApprovalDecision]
    /\ expiresAt \in [Intents -> Int]
=============================================================================
