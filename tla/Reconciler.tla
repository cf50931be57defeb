----------------------------- MODULE Reconciler ------------------------------
(***************************************************************************)
(* createReconciler (kernel/recovery.mjs): how an operator settles a       *)
(* payment the Wallet Kernel holds as unresolved, an execution nobody      *)
(* knows the outcome of, and the refund of a failed one, with the startup  *)
(* audit that must accept the history these operations leave behind.       *)
(*                                                                         *)
(* Each operation is two exclusive leases of the mutation coordinator with *)
(* an await of the read-only observer between them.  Lease 1 checks the    *)
(* case hash the operator was shown and names the candidate transaction;   *)
(* lease 2 checks that the case is still the one it left and writes the    *)
(* resolution, then the signed receipt in a second transaction.  A case    *)
(* hash is modelled by what it is the hash of.  What the chain has shown   *)
(* stays shown, so an observation stays possible until lease 2 uses it:    *)
(* Observations is evaluated there, and covers every earlier answer.       *)
(* Clocks never go back (see the README for what the code does when they   *)
(* do), so timestamps carry nothing the states of the rows do not.         *)
(***************************************************************************)
EXTENDS Integers, Sequences, FiniteSets, Functions

CONSTANTS
    Intents,            \* the intents that reached the wallet
    InFlight,           \* those whose paid retry is still in progress
    Unsigned,           \* those held from `signing', with no signed payload
    Transactions,       \* transaction ids an operator or the chain may name
    NoTransaction,
    Operators,
    MaxCandidates,      \* model bound: candidates ever named for one intent
    MaxFaults           \* model bound: crashes and receipt failures

ASSUME ReconcilerAssumption ==
    /\ InFlight \subseteq Intents
    /\ Unsigned \subseteq Intents \ InFlight
    /\ NoTransaction \notin Transactions
    /\ MaxCandidates \in Nat
    /\ MaxFaults \in Nat

VARIABLES
    intent,         \* spend_intents.state
    attempt,        \* payment_attempts.state
    settledBy,      \* payment_attempts.transaction_id
    budget,         \* budget_reservations.state
    execution,      \* execution_outcomes.state
    resolution,     \* execution_resolutions.state
    outcome,        \* buyer_outcomes.status
    revision,       \* buyer_outcomes.revision
    receipts,       \* revision of the latest signed receipt
    candidates,     \* payment_reconciliation_candidates, oldest first
    refunds,        \* refunds, oldest first
    history,        \* reconciliations and their events, oldest first
    authority,      \* ready, unhealthy, down or refused
    faults,
    request,        \* what each operator is doing
    mined,          \* what each transaction turned out to be
    payment,        \* the transaction that used the intent's authorization
    expired         \* a confirmed block is past the authorization's validBefore

holdVars == <<intent, attempt, settledBy, budget>>
effectVars == <<execution, resolution>>
outcomeVars == <<outcome, revision, receipts>>
rowVars == <<candidates, refunds, history>>
caseVars == <<holdVars, effectVars, outcomeVars, rowVars>>
processVars == <<authority, faults>>
chainVars == <<mined, payment, expired>>
vars == <<caseVars, processVars, request, chainVars>>

NoEvidence == [kind |-> "none", tx |-> NoTransaction]
NoCase == [kind |-> "none"]
Idle == [phase |-> "idle"]

Held == (Intents \ InFlight)

Init ==
    /\ intent = [i \in Intents |-> IF i \in Held THEN "unresolved" ELSE "executing"]
    /\ attempt = [i \in Intents |-> IF i \in Held THEN "unresolved" ELSE "retrying"]
    /\ settledBy = [i \in Intents |-> NoTransaction]
    /\ budget = [i \in Intents |-> IF i \in Held THEN "unresolved" ELSE "reserved"]
    /\ execution = [i \in Intents |-> "none"]
    /\ resolution = [i \in Intents |-> "none"]
    /\ outcome = [i \in Intents |-> IF i \in Held THEN "payment_unresolved" ELSE "none"]
    /\ revision = [i \in Intents |-> IF i \in Held THEN 1 ELSE 0]
    /\ receipts = revision
    /\ candidates = [i \in Intents |-> << >>]
    /\ refunds = [i \in Intents |-> << >>]
    /\ history = [i \in Intents |-> << >>]
    /\ authority = "ready"
    /\ faults = 0
    /\ request = [o \in Operators |-> Idle]
    /\ mined = [t \in Transactions |-> "absent"]
    /\ payment = [i \in Intents |-> NoTransaction]
    /\ expired = [i \in Intents |-> FALSE]

-----------------------------------------------------------------------------
(***************************************************************************)
(* Rows and case hashes.                                                   *)
(***************************************************************************)
Open == {"pending", "unresolved"}

OpenRow(t, previous) ==
    [tx |-> t, state |-> "pending", evidence |-> NoEvidence, previous |-> previous,
     closed |-> NoCase]

\* The part of a row a case hash covers.
Shown(rows) ==
    [k \in DOMAIN rows |-> [tx |-> rows[k].tx, state |-> rows[k].state,
                            evidence |-> rows[k].evidence]]

PaymentCaseOf(rev, rows) ==
    [kind |-> "payment", attempt |-> "unresolved", budget |-> "unresolved",
     revision |-> rev, rows |-> rows]

PaymentCase(i) ==
    [PaymentCaseOf(revision[i], Shown(candidates[i])) EXCEPT !.attempt = attempt[i],
                                                             !.budget = budget[i]]

ExecutionCase(i) ==
    [kind |-> "execution", tx |-> settledBy[i], execution |-> execution[i],
     resolution |-> resolution[i], revision |-> revision[i]]

RefundCaseOf(t, rev, rows) ==
    [kind |-> "refund", tx |-> t, execution |-> "failed", resolution |-> "refund_pending",
     revision |-> rev, rows |-> rows]

RefundCase(i) ==
    [RefundCaseOf(settledBy[i], revision[i], Shown(refunds[i]))
        EXCEPT !.execution = execution[i], !.resolution = resolution[i]]

CaseOf(kind, i) ==
    CASE kind = "payment" -> PaymentCase(i)
      [] kind = "execution" -> ExecutionCase(i)
      [] OTHER -> RefundCase(i)

\* selectedReconciliationAuthority demands the signed payload of the attempt.
PayloadPersisted(i) == i \notin Unsigned

PaymentCaseLoads(i) ==
    /\ intent[i] = "unresolved"
    /\ attempt[i] = "unresolved"
    /\ budget[i] = "unresolved"
    /\ outcome[i] = "payment_unresolved"

ExecutionCaseLoads(i) ==
    /\ intent[i] = "terminal"
    /\ attempt[i] = "settled"
    /\ budget[i] = "committed"
    /\ outcome[i] = "execution_unknown"
    /\ execution[i] = "unknown"
    /\ resolution[i] = "reconciliation_required"

RefundCaseLoads(i) ==
    /\ intent[i] = "terminal"
    /\ attempt[i] = "settled"
    /\ budget[i] = "committed"
    /\ outcome[i] = "execution_failed"
    /\ execution[i] = "failed"
    /\ resolution[i] = "refund_pending"

CaseLoads(kind, i) ==
    CASE kind = "payment" -> PaymentCaseLoads(i)
      [] kind = "execution" -> ExecutionCaseLoads(i)
      [] OTHER -> RefundCaseLoads(i)

OpenIndexes(rows) == {k \in DOMAIN rows : rows[k].state \in Open}
HasOpen(rows) == OpenIndexes(rows) # {}
OpenIndex(rows) == CHOOSE k \in OpenIndexes(rows) : TRUE

\* Slip: a row that is closed no longer owns its transaction.
OpenRowsNaming(t) ==
    {<<"payment", i, 0>> : i \in {j \in Intents : settledBy[j] = t}}
      \cup (UNION {{<<"candidate", i, k>> : k \in {n \in OpenIndexes(candidates[i]) :
                                                   candidates[i][n].tx = t}} : i \in Intents})
      \cup (UNION {{<<"refund", i, k>> : k \in {n \in OpenIndexes(refunds[i]) :
                                                refunds[i][n].tx = t}} : i \in Intents})

RowsNaming(t) ==
    {<<"payment", i, 0>> : i \in {j \in Intents : settledBy[j] = t}}
      \cup (UNION {{<<"candidate", i, k>> : k \in {n \in DOMAIN candidates[i] :
                                                   candidates[i][n].tx = t}} : i \in Intents})
      \cup (UNION {{<<"refund", i, k>> : k \in {n \in DOMAIN refunds[i] :
                                                refunds[i][n].tx = t}} : i \in Intents})

\* assertUnusedTransaction: no row of any state names it, whoever it belongs to.
TransactionUnused(t) == RowsNaming(t) = {}

\* Slip: only the settled attempts are looked at.
UnusedByAttempts(t) == \A i \in Intents : settledBy[i] # t

\* assertGloballyUniqueTransaction, of a payment in flight, which owns no row yet.
GloballyUnique(t) == RowsNaming(t) = {}

ParityHolds == \A i \in Intents : receipts[i] = revision[i]

-----------------------------------------------------------------------------
(***************************************************************************)
(* The chain and the other parts of the Kernel, as environment.            *)
(***************************************************************************)
\* The authorization of i can be used once, and only before it expires.
MinePayment(i, t) ==
    /\ i \notin Unsigned
    /\ mined[t] = "absent"
    /\ payment[i] = NoTransaction
    /\ ~expired[i]
    /\ mined' = [mined EXCEPT ![t] = "payment"]
    /\ payment' = [payment EXCEPT ![i] = t]
    /\ UNCHANGED <<caseVars, processVars, request, expired>>

\* A transfer from the seller's refund source, or a transaction that moves
\* nothing to the point: reverted, or somebody else's.
MineOther(t, what) ==
    /\ what \in {"refund", "other"}
    /\ mined[t] = "absent"
    /\ mined' = [mined EXCEPT ![t] = what]
    /\ UNCHANGED <<caseVars, processVars, request, payment, expired>>

Expire(i) ==
    /\ payment[i] = NoTransaction
    /\ ~expired[i]
    /\ expired' = [expired EXCEPT ![i] = TRUE]
    /\ UNCHANGED <<caseVars, processVars, request, mined, payment>>

\* commit() of the budget ledger, when the seller's settlement response names
\* the transaction.
CommitSettlement(i) ==
    /\ authority = "ready"
    /\ attempt[i] = "retrying"
    /\ payment[i] # NoTransaction
    /\ GloballyUnique(payment[i])
    /\ intent' = [intent EXCEPT ![i] = "terminal"]
    /\ attempt' = [attempt EXCEPT ![i] = "settled"]
    /\ settledBy' = [settledBy EXCEPT ![i] = payment[i]]
    /\ budget' = [budget EXCEPT ![i] = "committed"]
    /\ execution' = [execution EXCEPT ![i] = "succeeded"]
    /\ outcome' = [outcome EXCEPT ![i] = "completed"]
    /\ revision' = [revision EXCEPT ![i] = 1]
    /\ receipts' = [receipts EXCEPT ![i] = 1]
    /\ UNCHANGED <<resolution, rowVars, processVars, request, chainVars>>

\* TRANSACTION_REUSED: an operator named it first, for another payment or as a
\* refund.  The authorization is spent, so the Kernel stops (failStopAfterSignerReturn)
\* and the payment stays in flight until the restart holds it.
RefuseSettlement(i) ==
    /\ authority = "ready"
    /\ attempt[i] = "retrying"
    /\ payment[i] # NoTransaction
    /\ ~GloballyUnique(payment[i])
    /\ authority' = "unhealthy"
    /\ UNCHANGED <<caseVars, faults, request, chainVars>>

\* The paid response was lost or unusable: markUnresolved, for the intents S.
HoldUnresolved(S) ==
    /\ intent' = [i \in Intents |-> IF i \in S THEN "unresolved" ELSE intent[i]]
    /\ attempt' = [i \in Intents |-> IF i \in S THEN "unresolved" ELSE attempt[i]]
    /\ budget' = [i \in Intents |-> IF i \in S THEN "unresolved" ELSE budget[i]]
    /\ outcome' = [i \in Intents |-> IF i \in S THEN "payment_unresolved" ELSE outcome[i]]
    /\ revision' = [i \in Intents |-> IF i \in S THEN 1 ELSE revision[i]]
    /\ UNCHANGED <<settledBy, effectVars, rowVars, chainVars>>

LoseResponse(i) ==
    /\ authority = "ready"
    /\ attempt[i] = "retrying"
    /\ HoldUnresolved({i})
    /\ receipts' = [receipts EXCEPT ![i] = 1]
    /\ UNCHANGED <<processVars, request>>

-----------------------------------------------------------------------------
(***************************************************************************)
(* The operator's side of an operation, and its first lease.               *)
(***************************************************************************)
Display(o, i, kind) ==
    /\ authority = "ready"
    /\ request[o].phase \in {"idle", "replayed", "corrupt"}
    /\ CaseLoads(kind, i)
    /\ request' = [request EXCEPT ![o] = [phase |-> "shown", intent |-> i, kind |-> kind,
                                         case |-> CaseOf(kind, i)]]
    /\ UNCHANGED <<caseVars, processVars, chainVars>>

Submits(o, kind) ==
    /\ authority = "ready"
    /\ ParityHolds
    /\ request[o].phase = "shown"
    /\ request[o].kind = kind

\* Lease 1 ends and the observer is asked about row k (0: about no row).
Ask(o, k, bound) ==
    request' = [request EXCEPT ![o] = [phase |-> "asked", intent |-> request[o].intent,
                                       kind |-> request[o].kind, case |-> request[o].case,
                                       row |-> k, bound |-> bound]]

EndRequest(o) == request' = [request EXCEPT ![o] = Idle]

\* Slip: the hash the operator was shown is not compared.
CaseOnlyLoads(o) ==
    /\ CaseLoads(request[o].kind, request[o].intent)
    /\ PayloadPersisted(request[o].intent)

CaseIsCurrent(o) ==
    /\ CaseLoads(request[o].kind, request[o].intent)
    /\ PayloadPersisted(request[o].intent)
    /\ CaseOf(request[o].kind, request[o].intent) = request[o].case

\* reconcilePayment names no transaction, or the one already pending.
PreparePayment(o) ==
    LET i == request[o].intent IN
    /\ Submits(o, "payment")
    /\ CaseIsCurrent(o)
    /\ \/ Ask(o, 0, PaymentCase(i))
       \/ /\ HasOpen(candidates[i])
          /\ Ask(o, OpenIndex(candidates[i]), PaymentCase(i))
    /\ UNCHANGED <<caseVars, processVars, chainVars>>

NamePayment(o, t) ==
    LET i == request[o].intent IN
    /\ Submits(o, "payment")
    /\ CaseIsCurrent(o)
    /\ ~HasOpen(candidates[i])
    /\ TransactionUnused(t)
    /\ Len(candidates[i]) < MaxCandidates
    /\ candidates' = [candidates EXCEPT ![i] = Append(@, OpenRow(t, PaymentCase(i)))]
    /\ Ask(o, Len(candidates[i]) + 1, PaymentCaseOf(revision[i], Shown(candidates'[i])))
    /\ UNCHANGED <<holdVars, effectVars, outcomeVars, refunds, history, processVars, chainVars>>

PrepareExecution(o) ==
    /\ Submits(o, "execution")
    /\ CaseIsCurrent(o)
    /\ Ask(o, 0, request[o].case)
    /\ UNCHANGED <<caseVars, processVars, chainVars>>

\* observeRefund repeats the transaction already named.
PrepareRefund(o) ==
    LET i == request[o].intent IN
    /\ Submits(o, "refund")
    /\ CaseIsCurrent(o)
    /\ HasOpen(refunds[i])
    /\ refunds[i][OpenIndex(refunds[i])].tx # NoTransaction
    /\ Ask(o, OpenIndex(refunds[i]), RefundCase(i))
    /\ UNCHANGED <<caseVars, processVars, chainVars>>

\* It names one: in the row reconcileExecution opened, or in a new one.
NameRefund(o, t) ==
    LET i == request[o].intent
        opened == HasOpen(refunds[i])
        k == IF opened THEN OpenIndex(refunds[i]) ELSE Len(refunds[i]) + 1
    IN
    /\ Submits(o, "refund")
    /\ CaseIsCurrent(o)
    /\ opened => refunds[i][k].tx = NoTransaction
    /\ k <= MaxCandidates
    /\ TransactionUnused(t)
    /\ refunds' = [refunds EXCEPT ![i] =
                      IF opened THEN [@ EXCEPT ![k].tx = t, ![k].previous = RefundCase(i)]
                                ELSE Append(@, OpenRow(t, RefundCase(i)))]
    /\ Ask(o, k, RefundCaseOf(settledBy[i], revision[i], Shown(refunds'[i])))
    /\ UNCHANGED <<holdVars, effectVars, outcomeVars, candidates, history, processVars,
                    chainVars>>

\* The hash shown is stale, another candidate is pending or the transaction is
\* taken: a conflict, and nothing is written.  So does the operator who gives up.
Refuse(o) ==
    /\ authority = "ready"
    /\ request[o].phase = "shown"
    /\ PayloadPersisted(request[o].intent)
    /\ EndRequest(o)
    /\ UNCHANGED <<caseVars, processVars, chainVars>>

\* RECONCILIATION_INPUT or RECONCILIATION_CORRUPTION: the attempt has no payload.
RefuseUnsigned(o) ==
    /\ authority = "ready"
    /\ request[o].phase = "shown"
    /\ ~PayloadPersisted(request[o].intent)
    /\ request' = [request EXCEPT ![o] = [phase |-> "corrupt"]]
    /\ UNCHANGED <<caseVars, processVars, chainVars>>
-----------------------------------------------------------------------------
(***************************************************************************)
(* What the observer (base-sepolia-observer.mjs) and the seller            *)
(* (seller-evidence-resolver.mjs) may answer about the row asked about.    *)
(* "unknown" is every fault of the network and every proof that is not     *)
(* there yet.  A candidate that is missing, or too shallow, makes the      *)
(* observer look for the other proof: that the authorization expired       *)
(* unused.                                                                 *)
(***************************************************************************)
\* Slip: an authorization not used yet is taken for one that never will be.
NotUsedYet(i) == payment[i] = NoTransaction

\* authorizationState at a confirmed block not older than validBefore.
UnusedProof(i) == expired[i]

\* A confirmed receipt of t with the exact transfer and the exact nonce.
TransferProof(i, t) == t # NoTransaction /\ payment[i] = t

RejectionProof(i, t) == t # NoTransaction /\ payment[i] # t /\ mined[t] # "absent"

PaymentAnswers(i, t) ==
    {"unknown"}
      \cup {a \in {"settled"} : TransferProof(i, t)}
      \cup {a \in {"absent"} : RejectionProof(i, t)}
      \cup {a \in {"unused"} : UnusedProof(i)}

\* The seller's attestation binds one refund transaction to this intent; it is
\* the seller's word, and nothing keeps a seller from giving it twice.
RefundAnswers(t) ==
    {"unknown"}
      \cup {a \in {"refunded"} : mined[t] = "refund"}
      \cup {a \in {"absent"} : mined[t] \in {"payment", "other"}}

AskedRow(o) ==
    LET i == request[o].intent
        rows == IF request[o].kind = "payment" THEN candidates[i] ELSE refunds[i]
    IN  IF request[o].row = 0 THEN OpenRow(NoTransaction, NoCase) ELSE rows[request[o].row]

\* The seller signs either outcome; the Kernel has no other source for it.
ExecutionAnswers == {"unknown", "succeeded", "failed"}

Answers(o) ==
    CASE request[o].kind = "payment" -> PaymentAnswers(request[o].intent, AskedRow(o).tx)
      [] request[o].kind = "execution" -> ExecutionAnswers
      [] OTHER -> RefundAnswers(AskedRow(o).tx)

-----------------------------------------------------------------------------
(***************************************************************************)
(* The second lease.                                                       *)
(***************************************************************************)
Resumes(o, kind) ==
    /\ authority = "ready"
    /\ ParityHolds
    /\ request[o].phase = "asked"
    /\ request[o].kind = kind

\* Slip: the second lease only looks whether there still is a case.
CaseStillThere(o) == CaseLoads(request[o].kind, request[o].intent)

\* The case, reloaded, is the one lease 1 left, and the row asked about is open.
CaseUnmoved(o) ==
    LET i == request[o].intent IN
    /\ CaseLoads(request[o].kind, i)
    /\ CaseOf(request[o].kind, i) = request[o].bound
    /\ request[o].row # 0 => AskedRow(o).state \in Open

Entry(o, result, evidence) ==
    LET i == request[o].intent IN
    [kind |-> request[o].kind, outcome |-> result, evidence |-> evidence, operator |-> o,
     requested |-> request[o].case, observed |-> CaseOf(request[o].kind, i)]

Record(o, result, evidence) ==
    history' = [history EXCEPT ![request[o].intent] =
                  Append(@, Entry(o, result, evidence))]

Revise(i, status) ==
    /\ outcome' = [outcome EXCEPT ![i] = status]
    /\ revision' = [revision EXCEPT ![i] = @ + 1]

\* Slip: a receipt that cannot be issued is left for later.
IssueReceiptLater(o, i) ==
    /\ EndRequest(o)
    /\ \/ receipts' = [receipts EXCEPT ![i] = @ + 1] /\ UNCHANGED processVars
       \/ /\ faults < MaxFaults
          /\ faults' = faults + 1
          /\ UNCHANGED <<receipts, authority>>

\* issueReconciliationReceipt, a second transaction of the same lease.  When it
\* fails the authority is marked unhealthy and admits nothing until a restart.
IssueReceipt(o, i) ==
    /\ EndRequest(o)
    /\ \/ receipts' = [receipts EXCEPT ![i] = @ + 1] /\ UNCHANGED processVars
       \/ /\ faults < MaxFaults
          /\ faults' = faults + 1
          /\ authority' = "unhealthy"
          /\ UNCHANGED receipts

\* Slip: the row loses what it was closed as.
CloseRowAsDone(rows, k, state, evidence) ==
    [rows EXCEPT ![k].state = "done", ![k].evidence = evidence]

CloseRow(rows, k, state, evidence) ==
    [rows EXCEPT ![k].state = state, ![k].evidence = evidence]

\* The candidate moved something else: it is rejected, the hold stays.
RejectCandidate(o) ==
    LET i == request[o].intent
        k == request[o].row
        proof == [kind |-> "absent", tx |-> AskedRow(o).tx]
    IN
    /\ Resumes(o, "payment")
    /\ CaseUnmoved(o)
    /\ "absent" \in Answers(o)
    /\ candidates' = [candidates EXCEPT ![i] = CloseRow(@, k, "rejected", proof)]
    /\ Record(o, "unresolved", proof)
    /\ Revise(i, "payment_unresolved")
    /\ IssueReceipt(o, i)
    /\ UNCHANGED <<holdVars, effectVars, refunds, chainVars>>

\* Either way a held payment is resolved: the intent ends, with an entry, a
\* revision of the outcome and its receipt.
ResolvePayment(o, answer, result, proof, status) ==
    LET i == request[o].intent IN
    /\ Resumes(o, "payment")
    /\ CaseUnmoved(o)
    /\ answer \in Answers(o)
    /\ Record(o, result, proof)
    /\ intent' = [intent EXCEPT ![i] = "terminal"]
    /\ Revise(i, status)
    /\ IssueReceipt(o, i)

\* resolveSettledPayment checks the transaction against every other row again.
SettlePayment(o) ==
    LET i == request[o].intent
        k == request[o].row
        t == AskedRow(o).tx
        proof == [kind |-> "settled", tx |-> t]
    IN
    /\ ResolvePayment(o, "settled", "settled", proof, "execution_unknown")
    /\ RowsNaming(t) = {<<"candidate", i, k>>}
    /\ candidates' = [candidates EXCEPT ![i] = CloseRow(@, k, "confirmed", proof)]
    /\ attempt' = [attempt EXCEPT ![i] = "settled"]
    /\ settledBy' = [settledBy EXCEPT ![i] = t]
    /\ budget' = [budget EXCEPT ![i] = "committed"]
    /\ execution' = [execution EXCEPT ![i] = "unknown"]
    /\ resolution' = [resolution EXCEPT ![i] = "reconciliation_required"]
    /\ UNCHANGED <<refunds, chainVars>>

\* resolveRejectedPayment: the hold is released, and with it goes every
\* candidate still pending.
ReleasePayment(o) ==
    LET i == request[o].intent
        proof == [kind |-> "unused", tx |-> NoTransaction]
    IN
    /\ ResolvePayment(o, "unused", "rejected", proof, "payment_rejected")
    /\ candidates' = [candidates EXCEPT ![i] =
                        [k \in DOMAIN @ |-> IF @[k].state = "pending"
                                            THEN [@[k] EXCEPT !.state = "rejected",
                                                              !.evidence = proof]
                                            ELSE @[k]]]
    /\ attempt' = [attempt EXCEPT ![i] = "rejected"]
    /\ budget' = [budget EXCEPT ![i] = "released"]
    /\ UNCHANGED <<settledBy, effectVars, refunds, chainVars>>

\* Delivered: the case is closed.  Failed: a refund of the whole amount is
\* opened, with no transaction named yet.
ReconcileExecution(o, result) ==
    LET i == request[o].intent IN
    /\ Resumes(o, "execution")
    /\ CaseUnmoved(o)
    /\ result \in Answers(o) \ {"unknown"}
    /\ execution' = [execution EXCEPT ![i] = result]
    /\ \/ /\ result = "succeeded"
          /\ resolution' = [resolution EXCEPT ![i] = "resolved"]
          /\ Revise(i, "completed")
          /\ UNCHANGED refunds
       \/ /\ result = "failed"
          /\ refunds[i] = << >>
          /\ resolution' = [resolution EXCEPT ![i] = "refund_pending"]
          /\ Revise(i, "execution_failed")
          /\ refunds' = [refunds EXCEPT ![i] = <<OpenRow(NoTransaction, NoCase)>>]
    /\ Record(o, result, [kind |-> "attested", tx |-> settledBy[i]])
    /\ IssueReceipt(o, i)
    /\ UNCHANGED <<holdVars, candidates, chainVars>>

RejectRefund(o) ==
    LET i == request[o].intent
        proof == [kind |-> "absent", tx |-> AskedRow(o).tx]
    IN
    /\ Resumes(o, "refund")
    /\ CaseUnmoved(o)
    /\ "absent" \in Answers(o)
    /\ refunds' = [refunds EXCEPT ![i] = CloseRow(@, request[o].row, "rejected", proof)]
    /\ Record(o, "refund_rejected", proof)
    /\ Revise(i, "execution_failed")
    /\ IssueReceipt(o, i)
    /\ UNCHANGED <<holdVars, effectVars, candidates, chainVars>>

\* recordConfirmedRefundInTransaction: the committed amount comes back.
ConfirmRefund(o) ==
    LET i == request[o].intent
        k == request[o].row
        t == AskedRow(o).tx
        proof == [kind |-> "refunded", tx |-> t]
    IN
    /\ Resumes(o, "refund")
    /\ CaseUnmoved(o)
    /\ "refunded" \in Answers(o)
    /\ RowsNaming(t) = {<<"refund", i, k>>}
    /\ refunds' = [refunds EXCEPT ![i] = CloseRow(@, k, "confirmed", proof)]
    /\ budget' = [budget EXCEPT ![i] = "released"]
    /\ resolution' = [resolution EXCEPT ![i] = "resolved"]
    /\ Record(o, "refund_confirmed", proof)
    /\ Revise(i, "refunded")
    /\ IssueReceipt(o, i)
    /\ UNCHANGED <<intent, attempt, settledBy, execution, candidates, chainVars>>

\* Nothing is written: the evidence is not there, or it is, and the authority
\* moved while it was observed.
LearnNothing(o) ==
    /\ authority = "ready"
    /\ request[o].phase = "asked"
    /\ EndRequest(o)
    /\ UNCHANGED <<caseVars, processVars, chainVars>>
-----------------------------------------------------------------------------
(***************************************************************************)
(* abandonCandidate: one lease, no observation, no new revision.  A refund *)
(* row nobody named a transaction for cannot be abandoned.                 *)
(***************************************************************************)
AbandonPayment(o) ==
    LET i == request[o].intent
        k == OpenIndex(candidates[i])
    IN
    /\ Submits(o, "payment")
    /\ CaseIsCurrent(o)
    /\ HasOpen(candidates[i])
    /\ candidates' = [candidates EXCEPT ![i][k].state = "abandoned",
                                        ![i][k].closed = PaymentCase(i)]
    /\ EndRequest(o)
    /\ UNCHANGED <<holdVars, effectVars, outcomeVars, refunds, history, processVars, chainVars>>

AbandonRefund(o) ==
    LET i == request[o].intent
        k == OpenIndex(refunds[i])
    IN
    /\ Submits(o, "refund")
    /\ CaseIsCurrent(o)
    /\ HasOpen(refunds[i])
    /\ refunds[i][k].tx # NoTransaction
    /\ refunds' = [refunds EXCEPT ![i][k].state = "abandoned",
                                  ![i][k].closed = RefundCase(i)]
    /\ EndRequest(o)
    /\ UNCHANGED <<holdVars, effectVars, outcomeVars, candidates, history, processVars,
                    chainVars>>

-----------------------------------------------------------------------------
(***************************************************************************)
(* An operator whose answer was lost repeats a request that was committed. *)
(* Both leases read only, and the second one checks again that what the    *)
(* request committed is still how the case stands.                         *)
(***************************************************************************)
PaymentStands(i, entry) ==
    \/ /\ entry.outcome = "settled"
       /\ attempt[i] = "settled" /\ settledBy[i] = entry.evidence.tx
       /\ budget[i] = "committed" /\ outcome[i] = "execution_unknown"
       /\ execution[i] = "unknown" /\ resolution[i] = "reconciliation_required"
    \/ /\ entry.outcome = "unresolved"
       /\ attempt[i] = "unresolved" /\ budget[i] = "unresolved"
       /\ outcome[i] = "payment_unresolved"
    \/ /\ entry.outcome = "rejected"
       /\ attempt[i] = "rejected" /\ budget[i] = "released"
       /\ outcome[i] = "payment_rejected"

\* Only the last reconciliation of the intent can be repeated.
ExecutionStands(i, entry) ==
    /\ history[i][Len(history[i])] = entry
    /\ budget[i] = "committed"
    /\ \/ /\ entry.outcome = "succeeded" /\ outcome[i] = "completed"
          /\ resolution[i] = "resolved"
       \/ /\ entry.outcome = "failed" /\ outcome[i] = "execution_failed"
          /\ resolution[i] = "refund_pending"

RefundStands(i, entry) ==
    /\ history[i][Len(history[i])] = entry
    /\ execution[i] = "failed"
    /\ \/ /\ entry.outcome = "refund_confirmed" /\ outcome[i] = "refunded"
          /\ budget[i] = "released" /\ resolution[i] = "resolved"
       \/ /\ entry.outcome = "refund_rejected" /\ outcome[i] = "execution_failed"
          /\ budget[i] = "committed" /\ resolution[i] = "refund_pending"

Stands(i, entry) ==
    CASE entry.kind = "payment" -> PaymentStands(i, entry)
      [] entry.kind = "execution" -> ExecutionStands(i, entry)
      [] OTHER -> RefundStands(i, entry)

Repeat(o, i, k) ==
    /\ authority = "ready"
    /\ ParityHolds
    /\ request[o].phase = "idle"
    /\ history[i][k].operator = o
    /\ Stands(i, history[i][k])
    /\ request' = [request EXCEPT ![o] = [phase |-> "repeating", intent |-> i, entry |-> k]]
    /\ UNCHANGED <<caseVars, processVars, chainVars>>

\* The same evidence was observed again (\E), or other evidence and a conflict.
RepeatAnswered(o) ==
    /\ authority = "ready"
    /\ ParityHolds
    /\ request[o].phase = "repeating"
    /\ Stands(request[o].intent, history[request[o].intent][request[o].entry])
    /\ request' = [request EXCEPT ![o].phase = "replayed"]
    /\ UNCHANGED <<caseVars, processVars, chainVars>>

RepeatRefused(o) ==
    /\ authority = "ready"
    /\ request[o].phase = "repeating"
    /\ EndRequest(o)
    /\ UNCHANGED <<caseVars, processVars, chainVars>>

\* A candidate the unused authorization rejected has no entry of its own, so
\* repeating the request that named it is answered RECONCILIATION_CORRUPTION.
RepeatNamed(o, i) ==
    /\ authority = "ready"
    /\ ParityHolds
    /\ request[o].phase = "idle"
    /\ \E k \in DOMAIN candidates[i] :
          candidates[i][k].state = "rejected" /\ candidates[i][k].evidence.kind = "unused"
    /\ request' = [request EXCEPT ![o] = [phase |-> "corrupt"]]
    /\ UNCHANGED <<caseVars, processVars, chainVars>>

-----------------------------------------------------------------------------
(***************************************************************************)
(* The startup audit.  It recomputes from the rows, in their order, the    *)
(* case hash every event must have carried.                                *)
(***************************************************************************)
\* A row a reconciliation of its own closed; each raised the revision by one.
EntriesOf(i, row) ==
    {n \in DOMAIN history[i] : row.evidence # NoEvidence /\ history[i][n].evidence = row.evidence}

ResolvedBefore(i, rows, k) ==
    Cardinality({n \in 1..(k - 1) : EntriesOf(i, rows[n]) # {}})

Earlier(rows, k) == SubSeq(Shown(rows), 1, k - 1)

AsPending(row) == [tx |-> row.tx, state |-> "pending", evidence |-> NoEvidence]

ObservedPaymentCase(i, k) ==
    PaymentCaseOf(1 + ResolvedBefore(i, candidates[i], k),
                  Append(Earlier(candidates[i], k), AsPending(candidates[i][k])))

EvidenceFits(row) == (row.evidence # NoEvidence) <=> (row.state \in {"rejected", "confirmed"})

\* rememberTransaction: a confirmed candidate and the attempt it settled own the
\* transaction together, nothing else may share one.
TransactionsAudit ==
    \A t \in Transactions :
        LET owners == RowsNaming(t) IN
        \/ Cardinality(owners) <= 1
        \/ \E i \in Intents : \E k \in DOMAIN candidates[i] :
              /\ owners = {<<"payment", i, 0>>, <<"candidate", i, k>>}
              /\ candidates[i][k].state = "confirmed"

PaymentRowAudit(i, k) ==
    LET row == candidates[i][k]
        before == PaymentCaseOf(1 + ResolvedBefore(i, candidates[i], k),
                                Earlier(candidates[i], k))
    IN
    /\ EvidenceFits(row)
    /\ row.previous = before
    /\ row.state = "confirmed" => settledBy[i] = row.tx
    /\ row.state \in {"confirmed", "rejected"} => Cardinality(EntriesOf(i, row)) = 1
    /\ row.state = "abandoned" => row.closed = ObservedPaymentCase(i, k)
    /\ \A n \in EntriesOf(i, row) :
          /\ history[i][n].observed = ObservedPaymentCase(i, k)
          /\ history[i][n].requested \in {before, ObservedPaymentCase(i, k)}

RefundRowAudit(i, k) ==
    LET rows == refunds[i]
        row == rows[k]
        resolved == {n \in DOMAIN rows : rows[n].state \in {"confirmed", "rejected"}}
        rev == revision[i] - Cardinality(resolved) + ResolvedBefore(i, rows, k)
        unnamed == [AsPending(row) EXCEPT !.tx = NoTransaction]
        observed == RefundCaseOf(settledBy[i], rev, Append(Earlier(rows, k), AsPending(row)))
    IN
    /\ EvidenceFits(row)
    /\ row.state \in {"confirmed", "rejected"} =>
          row.tx # NoTransaction /\ Cardinality(EntriesOf(i, row)) = 1
    /\ row.tx # NoTransaction =>
          row.previous \in {RefundCaseOf(settledBy[i], rev, Earlier(rows, k)),
                            RefundCaseOf(settledBy[i], rev, Append(Earlier(rows, k), unnamed))}
    /\ row.state = "abandoned" => row.closed = observed
    /\ \A n \in EntriesOf(i, row) :
          /\ history[i][n].observed = observed
          /\ history[i][n].requested \in {row.previous, observed}

RowsAudit ==
    \A i \in Intents :
        /\ \A k \in DOMAIN candidates[i] : PaymentRowAudit(i, k)
        /\ \A k \in DOMAIN refunds[i] : RefundRowAudit(i, k)
        /\ Cardinality(OpenIndexes(candidates[i])) <= 1
        /\ Cardinality(OpenIndexes(refunds[i])) <= 1

\* A hold released on an unused authorization must have been released on the
\* very case the operator was shown.
UnusedAudit(i, n) ==
    history[i][n].outcome = "rejected" => history[i][n].requested = history[i][n].observed

EntryAudit(i, n) ==
    LET entry == history[i][n] IN
    CASE entry.outcome = "settled" ->
            settledBy[i] = entry.evidence.tx
              /\ \E k \in DOMAIN candidates[i] : candidates[i][k].tx = entry.evidence.tx
      [] entry.outcome = "unresolved" ->
            \E k \in DOMAIN candidates[i] : candidates[i][k].tx = entry.evidence.tx
      [] entry.kind = "execution" ->
            /\ execution[i] = entry.outcome
            /\ entry.requested = entry.observed
            /\ entry.observed = [kind |-> "execution", tx |-> settledBy[i],
                                 execution |-> "unknown",
                                 resolution |-> "reconciliation_required", revision |-> n]
      [] entry.kind = "refund" ->
            \E k \in DOMAIN refunds[i] : refunds[i][k].tx = entry.evidence.tx
      [] OTHER -> TRUE

EntriesAudit == \A i \in Intents : \A n \in DOMAIN history[i] : EntryAudit(i, n)

\* Only the receipt of the newest revision can be issued after the fact.
TailGapAudit == \A i \in Intents : revision[i] - receipts[i] \in {0, 1}

AuditAccepts ==
    /\ TailGapAudit
    /\ TransactionsAudit
    /\ RowsAudit
    /\ EntriesAudit
    /\ \A i \in Intents : \A n \in DOMAIN history[i] : UnusedAudit(i, n)

-----------------------------------------------------------------------------
(***************************************************************************)
(* Crash and restart.                                                      *)
(***************************************************************************)
Crash ==
    /\ \/ authority = "unhealthy" /\ UNCHANGED faults
       \/ authority = "ready" /\ faults < MaxFaults /\ faults' = faults + 1
    /\ authority' = "down"
    /\ request' = [o \in Operators |-> Idle]
    /\ UNCHANGED <<caseVars, chainVars>>

\* Payments in flight become unresolved holds, and the receipt that may be
\* missing is issued before anything is admitted.
Restart ==
    /\ authority = "down"
    /\ AuditAccepts
    /\ HoldUnresolved({i \in Intents : attempt[i] = "retrying"})
    /\ receipts' = revision'
    /\ authority' = "ready"
    /\ UNCHANGED <<faults, request>>

\* AUTHORITY_SEMANTIC_CORRUPTION: the Kernel does not start, now or later.
RefuseStart ==
    /\ authority = "down"
    /\ ~AuditAccepts
    /\ authority' = "refused"
    /\ UNCHANGED <<caseVars, faults, request, chainVars>>

ChainStep ==
    \/ \E i \in Intents : Expire(i) \/ \E t \in Transactions : MinePayment(i, t)
    \/ \E t \in Transactions, what \in {"refund", "other"} : MineOther(t, what)

KernelStep ==
    \E i \in Intents : CommitSettlement(i) \/ RefuseSettlement(i) \/ LoseResponse(i)

FirstLease(o) ==
    \/ \E i \in Intents, kind \in {"payment", "execution", "refund"} : Display(o, i, kind)
    \/ PreparePayment(o) \/ PrepareExecution(o) \/ PrepareRefund(o)
    \/ \E t \in Transactions : NamePayment(o, t) \/ NameRefund(o, t)
    \/ Refuse(o) \/ RefuseUnsigned(o)
    \/ AbandonPayment(o) \/ AbandonRefund(o)

SecondLease(o) ==
    \/ RejectCandidate(o) \/ SettlePayment(o) \/ ReleasePayment(o)
    \/ \E result \in {"succeeded", "failed"} : ReconcileExecution(o, result)
    \/ RejectRefund(o) \/ ConfirmRefund(o)
    \/ LearnNothing(o)

Repetition(o) ==
    \/ \E i \in Intents : RepeatNamed(o, i) \/ \E k \in DOMAIN history[i] : Repeat(o, i, k)
    \/ RepeatAnswered(o) \/ RepeatRefused(o)

Next ==
    \/ ChainStep
    \/ KernelStep
    \/ \E o \in Operators : FirstLease(o) \/ SecondLease(o) \/ Repetition(o)
    \/ Crash \/ Restart \/ RefuseStart

Spec == Init /\ [][Next]_vars
-----------------------------------------------------------------------------
(***************************************************************************)
(* Properties.                                                             *)
(***************************************************************************)
Row == [tx : Transactions \cup {NoTransaction},
        state : {"pending", "abandoned", "rejected", "confirmed"}]

ColumnsTyped ==
    /\ intent \in [Intents -> {"executing", "unresolved", "terminal"}]
    /\ attempt \in [Intents -> {"retrying", "unresolved", "settled", "rejected"}]
    /\ settledBy \in [Intents -> Transactions \cup {NoTransaction}]
    /\ budget \in [Intents -> {"reserved", "unresolved", "committed", "released"}]
    /\ execution \in [Intents -> {"none", "unknown", "succeeded", "failed"}]
    /\ resolution \in [Intents -> {"none", "reconciliation_required", "refund_pending",
                                   "resolved"}]
    /\ outcome \in [Intents -> {"none", "payment_unresolved", "execution_unknown", "completed",
                                "payment_rejected", "execution_failed", "refunded"}]
    /\ revision \in [Intents -> Nat]
    /\ receipts \in [Intents -> Nat]
    /\ authority \in {"ready", "unhealthy", "down", "refused"}
    /\ faults \in 0..MaxFaults

ChainTyped ==
    /\ mined \in [Transactions -> {"absent", "payment", "refund", "other"}]
    /\ payment \in [Intents -> Transactions \cup {NoTransaction}]
    /\ expired \in [Intents -> BOOLEAN]

\* Every table holds rows of the states the schema and the handlers know.
TypeOK ==
    /\ ColumnsTyped
    /\ ChainTyped
    /\ \A i \in Intents : \A row \in Range(candidates[i]) \cup Range(refunds[i]) :
          [tx |-> row.tx, state |-> row.state] \in Row

\* One transfer answers for one thing: it settles one payment, or returns the
\* money of one intent, however many operators, seller attestations and settlement
\* responses name it (assertUnusedTransaction, assertGloballyUniqueTransaction).
ConfirmedRefunds(i) == {k \in DOMAIN refunds[i] : refunds[i][k].state = "confirmed"}

Resolves(t) ==
    {<<i, 0>> : i \in {j \in Intents : settledBy[j] = t}}
      \cup (UNION {{<<i, k>> : k \in {n \in ConfirmedRefunds(i) : refunds[i][n].tx = t}}
                      : i \in Intents})

OneResolution == \A t \in Transactions : Cardinality(Resolves(t)) <= 1

\* A hold is turned into a spend only by the transfer that used its authorization,
\* and given back only when that authorization can never be used any more: what the
\* observer proved, not what the operator named (resolvePaymentInTransaction).
HoldsFollowChain ==
    \A i \in Intents :
        /\ attempt[i] = "settled" => payment[i] = settledBy[i] /\ payment[i] \in Transactions
        /\ attempt[i] = "rejected" => expired[i] /\ payment[i] = NoTransaction

\* Whatever operators do between two startups, the rows they leave are ones in which
\* the startup audit finds one owner of every transaction, and from which it recomputes
\* every case hash the events carry (verifyCandidateHistory).
HistoryRecomputes == TransactionsAudit /\ RowsAudit /\ EntriesAudit

\* Only the newest revision of one intent can be without its receipt, and then
\* nothing is admitted until the restart that issues it.
ReceiptGapStopsAdmission ==
    LET gap == {i \in Intents : receipts[i] # revision[i]} IN
    /\ \A i \in gap : receipts[i] = revision[i] - 1
    /\ Cardinality(gap) <= 1
    /\ gap # {} => authority # "ready"

\* What was resolved is never resolved again: rows that are closed keep their
\* transaction, state and evidence, entries are only added, one at a time, each
\* with one revision of the outcome.
Closed(rows, k) == rows[k].state \notin Open

ResolvedForGood ==
    [][\A i \in Intents :
          /\ \A k \in DOMAIN candidates[i] :
                Closed(candidates[i], k) => candidates'[i][k] = candidates[i][k]
          /\ \A k \in DOMAIN refunds[i] : Closed(refunds[i], k) => refunds'[i][k] = refunds[i][k]
          /\ IF history'[i] = history[i]
             THEN outcome'[i] # outcome[i] => attempt[i] = "retrying"
             ELSE /\ Len(history'[i]) = Len(history[i]) + 1
                  /\ SubSeq(history'[i], 1, Len(history[i])) = history[i]
                  /\ revision'[i] = revision[i] + 1]_vars

\* Every hold ends as the chain and the seller said, once.
HoldStatus == [retrying |-> "open", unresolved |-> "held", rejected |-> "released"]

SpentStatus == [execution_unknown |-> "spent", completed |-> "served",
                execution_failed |-> "owed", refunded |-> "returned"]

Status(i) ==
    IF attempt[i] = "settled" THEN SpentStatus[outcome[i]] ELSE HoldStatus[attempt[i]]

Promise == INSTANCE HeldPayment WITH
    Payments <- Intents,
    Transfers <- Transactions,
    status <- [i \in Intents |-> Status(i)],
    paid <- {i \in Intents : payment[i] # NoTransaction},
    dead <- {i \in Intents : expired[i]},
    refunded <- UNION {{<<i, refunds[i][k].tx>> : k \in ConfirmedRefunds(i)} : i \in Intents}

\* The reconciler keeps the promise HeldPayment states.
ImplementsHeldPayment == Promise!HeldSpec

\* The Kernel starts on every history its own operations wrote.
StartupAccepts == authority # "refused"
=============================================================================
