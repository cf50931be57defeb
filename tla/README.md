# A formal model of the Agent Spend Control Plane

The repository's main program is the *Agent Spend Control Plane*
(`src/spikes/pi-wielder`): an AI agent asks a local **Wallet Kernel** to perform an HTTP
request, the seller answers `402 Payment Required` (x402), and the Kernel decides under an
operator's policy whether to pay, holds budget, perhaps asks the operator, has a wallet
service sign one EIP-3009 authorization, pays, and records a signed receipt. Everything is
journalled in SQLite, and the Kernel must be safe to kill at any instant. What it could not
classify, an operator *reconciles* later. On the other side of the payment stands the
**Collar**, the seller's endpoint of a paid Skill, with a durable invocation journal of its own.
A separate package (`src/spikes/internal-invocation-awards`) lets an employer pay the Creators
of its Skills: an **award engine** and a chain of monthly statements.

This directory holds TLA+ models of the four, the TLC runs that check them on small instances, and
theorems that TLAPS proves for every instance. Below, `P/` abbreviates
`src/spikes/pi-wielder/src/`, `K/` its `kernel/`, and `A/`
`src/spikes/internal-invocation-awards/src/`.

## 1. Inventory

| Component | State | Operations | What makes it correct |
|---|---|---|---|
| Wallet Kernel, `K/wallet-kernel.mjs` | live operations per intent (`inFlightByIntent`), all tables | `execute`, `approvePending`, `denyPending`, `expireDueApprovals`, `applyPolicy`, `revokeAgent`, `closeSession`, `transitionSessionPolicy` | signs once; money is held while it may move; no error path forgets an operation |
| Mutation coordinator and fail-stop, `K/authority-mutation-coordinator.mjs`, `control-plane.mjs` | queue, gate | `runExclusive`, `markAuthorityUnhealthy`, startup | callbacks are serial; nothing runs after a stop |
| Spend Intents and Sessions, `K/intent-builder.mjs`; enrollment, `K/agent-enrollment.mjs` | `spend_intents`, `spend_sessions`, enrollment | capture, attach, transition, close, replace, revoke | an ended session is inert |
| Budget ledger, `K/budget-ledger.mjs` | `budget_reservations`, blockers | snapshot, reserve, commit, release, hold, resolve, refund | ceilings hold under races |
| Approval queue, `K/approval-queue.mjs` | `approvals` | request, approve, deny, expire, consume, cancel | approvals are single-use and expire |
| Policy engine and repository, `K/policy-engine.mjs`, `K/policy-repository.mjs` | policy versions, `policy_decisions` | evaluate, apply, record | an amount is decided once |
| Permit window, `K/authorized-permit.mjs` | none | derive window | payment only inside all deadlines |
| Signed receipts, `K/signed-receipts.mjs` | `signed_receipts` | issue, parity | one receipt per outcome revision |
| Startup recovery, `K/recovery.mjs` (first half) | none | audit, classify, repair | every crash is classified; never signs |
| Reconciliation, `K/recovery.mjs` (second half), observer and resolver adapters | cases, evidence, refunds | `reconcilePayment`, `reconcileExecution`, `observeRefund`, `abandonCandidate` | a hold is resolved once, by evidence |
| Transport and wallet adapters | none | probe, retryPaid, signX402Exact | bounded waits; a typed pre-sign proof |
| Store, lock, canonical data, release files | files | transaction, lock | atomic and durable |
| Operator and agent surfaces, proxy, CLI | credentials | HTTP | authentication in front of the Kernel |
| Exporter and evidence bundle | cursor | export | read-only |
| Invocation journal, `P/invocation-journal.mjs` | a record per idempotency key | offer, claim, settle, reject, execute, refund, receipt | one claim of a payment, an execution, a refund |
| Collar and paywall, `P/collar.mjs`, `P/x402-seller.mjs` | offers, claims, stuck keys in memory; requests in flight | paid requests, `/reconcile`, refund | paid and run once, over retries and crashes |
| Gateway, buyer's payment policy, proxy, economics | policy counters | routing, purchase decisions | in front of Collar and Kernel |
| Award engine, `A/engine.mjs`, `budget.mjs` | budget, invocations, receipts | authorize, cancel, execute, reverse | caps hold; every Invocation ends in one receipt |
| Statements, `A/statements.mjs` | the signed chain | `buildStatement` | arrears only; nothing advanced or paid twice |
| Clone economics, prototype, phase 0, demos | own stores | see PROJECT.json | separate experiments |

The Kernel is one Node process. `runExclusive` runs one callback after the other, so a
callback, with the one or two SQLite transactions in it, is atomic with respect to the others;
an operation awaits between its callbacks. The components share the database, call each other
inside a transaction (`...InTransaction(token, ...)`), and meet the outside through awaits:
`transport.probe`, `walletIdentity`, `signX402Exact`, `transport.retryPaid`. What is hard:
every await is a place where the operator, another request, the clock, a crash or the seller
can act; domain rows and receipts commit separately; what was evaluated is stale when it is
used; and an answer of the wallet or of the seller may come after it was given up.

Reconciliation runs in the same Kernel process; each of its operations is two callbacks with an
await of the observer (the chain) or of the seller between them, and several operators may have
one in flight. Collar processes are several on one host and share the journal file: every
journal operation takes the file lease, the paywall's maps are private and lost in a crash.
The award engine serializes its transactions; only the executor runs outside them.

`PROJECT.json` lists these hazards with the line where each bites.

## 2. The modules

| Module | Models |
|---|---|
| `SpendIntents` | sessions, enrollment and the intent's life cycle (`intent-builder`, `agent-enrollment`) |
| `BudgetLedger` | reservations and the three exposure sums (`budget-ledger`) |
| `ApprovalQueue` | approvals and their deadlines (`approval-queue`) |
| `WalletKernel` | all of `execute()` and the operator commands over the three repositories, the fail-stop, startup recovery, and as environment the wallet, the chain and the clock |
| `SpendEscrow` | the abstract promise to the wallet's owner: hold within the limit, sign only under a hold, move at most once, return only what was not signed |
| `MCWalletKernel` | instances for TLC |
| `WalletKernelInvariant` | the inductive invariant and its proof |
| `SumTheorems` | the laws of sums over finite sets that the ledgers need |
| `WalletKernel_proofs` | the theorems drawn from the invariant: the safety properties, the ceilings and deadlines, and that the Kernel implements the escrow |
| `Reconciler` | `createReconciler`: the operations on payments, executions and refunds with both leases, the observer and the seller, exact replay of a request, receipts, crashes, and the history part of the startup audit |
| `HeldPayment` | the abstract promise about a hold: spent when the chain shows the payment, released when it can never be paid, returned by a transfer of its own |
| `MCReconciler` | its instances |
| `Reconciler_proofs` | the Reconciler's inductive invariant and theorems; that it implements `HeldPayment` |
| `ReconcilerHistory_proofs` | the invariant of its rows and events, and that the startup audit recomputes their case hashes |
| `InvocationJournal` | the journal's events and operations |
| `Collar` | the paywall and the Skill endpoint over the journal: servers, their memory, retries, settlement, execution, refund, operator requests, the facilitator and the chain |
| `PaidInvocation` | the abstract promise to a buyer: work only for money taken, once; money back only for failed work, once |
| `MCCollar` | its instances |
| `Collar_proofs`, `CollarPromise_proofs` | the Collar's inductive invariant and theorems; that it implements `PaidInvocation` |
| `Awards` | the award engine and its budget |
| `Statements` | the statement chain over the engine's receipts |
| `MCStatements`, `Statements_proofs` | its instance, its theorems |

The repository modules offer operators that the Kernel's actions conjoin, as the code calls
`captureIntentInTransaction`, `reserveInTransaction` and so on with one token. An action of
`WalletKernel` is one callback or one answer that was awaited. `pc[i]` is the program point of
the one live operation on intent `i`; the module's head lists the points. For example
`executeReserved` is `SigningClaim`, then `WalletAnswers`, then one of `PersistSigned`,
`PreSignReject` and `HoldSigning`, then `ClaimPaidRetry`, `SendPayment`, `ChainTransfers`, and
`SettleExecution` or `HoldPaid`.

Notes on the correspondence, for the Kernel:

* *Receipts.* `Conclude(S, ended)` is the tail of every callback that records outcomes: the
  receipts of `S`, or a crash or fault between the domain commit and the receipt commit. The
  parity test runs over all outcomes (`K/signed-receipts.mjs:1402`), hence the condition on
  `Cardinality(S)`.
* *Challenge.* `challengeReceivedAt` is taken before the await of the wallet's identity
  (`ReceiveChallenge`), the exposures are read and the decision recorded after it
  (`AttachChallenge`), and the reservation or the request for approval comes in a later callback.
* *Approval expiry.* There is no timer. Any operator decision sweeps, and `requestApproval`
  sweeps before it requests: `Swept` is a guard of the actions whose callback follows a sweep,
  and `ExpireDue` is the sweep.
* *Claim and release.* A claim of signing that fails rolls back, and `releaseUnsignedReservation`
  follows in its own callback; `ReleaseUnsigned` merges the two. A drawn nonce can be drawn again
  only where another intent drew one.
* *Fail-stop.* An error after the signer returned stops the Kernel; leaving by a fault is
  `StopKernel` at that point.
* *Recovery.* `Restart` is the audit (`Admissible`), `Repair*` are the repair transactions,
  `FinishRecovery` adds missing receipts and composes the plane: without an active enrollment the
  mode is `recovery_only`, in which nothing of this model happens until the next restart.
* *Abstractions.* One agent, one wallet, one route per seller. An intent is its exact request;
  the replacement intent of a changed challenge is another member of `Intents`. Policy versions
  are reduced to the blocking of the session: the ceilings are constants. Hashes, signatures,
  canonical JSON and the event chain are left out. Settlement evidence is honest: it names a
  transfer that happened. The Kernel and the chain share one monotone clock.
* *Unreachable code.* The recovery row `repair_missing_execution` needs a committed budget
  without an execution row; `settleExecution` writes both in one transaction, so no reachable
  state has it and no action models it.
* *The bounds* `MaxSessions`, `MaxTime`, `MaxFaults` and the finite `Intents` are guards of the
  actions that would pass them. `AbortOperation` covers a replacement that finds no member of
  `Intents` left.

For the Reconciler:

* *Two leases.* `PreparePayment` and `NamePayment` are the first lease (the case hash must be the
  displayed one; the second names a candidate), `ResolvePayment`, `RejectCandidate` and
  `LearnNothing` the second, with `CaseUnmoved` in between; executions and refunds likewise.
  `Display` is the operator who read a case. A case hash is modelled by what it is the hash of.
* *Observation.* What the chain has shown stays shown, so the answer is evaluated in the second
  lease and covers every earlier one. `UnusedProof`, `TransferProof` and `RejectionProof` are
  what the observer demands of the chain for each answer; the RPC quorum is abstracted.
* *Receipts.* The rows commit first; a receipt that fails leaves the revision ahead
  (`ParityHolds` is then false) until a restart issues it.
* *Repeats.* A request repeated with the same arguments is answered from the history
  (`Repeat...`), not entered again.
* *Audit.* `AuditAccepts` recomputes the history as `verifyReconciliationHistory` and
  `verifyCandidateHistory` do; `RefuseStart` is a restart that it refuses.
* *The clock does not go back*, so timestamps carry nothing the order of the rows does not. In
  the code it may: the check of a new candidate (`K/recovery.mjs:4312`) leaves out the times of
  its predecessors, while the audit demands them in order.
* *Initial states.* Intents are held or in flight as the Kernel leaves them; `CommitSettlement`,
  `HoldUnresolved` and `LoseResponse` are the steps by which the Kernel ends those in flight. A
  commit looks for its transaction in the attempts, candidates and refunds of every intent
  (`GloballyUnique`); when an operator named it first, `settleExecution` throws, the Kernel stops
  (`RefuseSettlement`) and the restart holds the payment.

For the Collar:

* *A journal operation is one step* with a set of ends: it answers, throws, appends, or is hit by
  a fault: the lease is held, the swap was lost, the disk refused, or the append is durable and
  the release of the lease throws. The head of `InvocationJournal` argues why: an operation that
  loses the compare-and-swap does what it would have done starting after the winner.
* *Synchronous stretches.* `paid[s][k].pc` names the await a paid request is at. `onSigned` calls
  the journal twice without an await: between the two another process may act, another request
  of the same process may not (`pc = "signing"`, `Yielded`).
* *Memory.* `offers`, `claims` and `stuck` are `pendingOffers`, `authorizationClaims` and
  `locallyUnresolvedSettlements`. The code drops expired offers and consumed claims at the next
  request; here `Tick`, which ends an offer window, does.
* *The world.* The facilitator may settle, refuse, or give no answer and submit later
  (`Transfer`). The token contract uses an authorization once. The executor and the refund
  executor answer, fail, or are lost with the process.
* `Proceed` and the fairness conditions are in section 3.

For the awards:

* *A transaction is one step:* the store runs them serially on its newest state and refuses a
  stale revision. `StartExecution` is everything up to the call of the executor, `Succeed`,
  `Fail` and `LeaveUnresolved` are the terminal transaction, in whatever month it falls.
* *A signer that fails* commits nothing and leaves `executing`, which the package's README gives
  to operator reconciliation.
* *The caller of `buildStatement`* is assumed to build one chain, month by month, in arrears, with
  all receipts of the month; the code checks continuity with the cursor, and a caller who builds a
  month early is refused later.
* Reversals in the engine (`recordAwardReversal`) and reversal rows of a statement are separate in
  the code, which compares neither with the other, and so they are here.

## 3. The runs

`CHECK_DEADLOCK` is FALSE because each system may really stop: everything terminal, the clock or
the faults at their bound, the Kernel stopped and not admitted.

| Run | Instance | Shows |
|---|---|---|
| `payments` | two automatic payments of 2, rolling ceiling 3 over a window of 2 ticks, two ticks to a second, clock 0..3, one fault | `TypeOK`, `SignedOnce`, `MoneyAccounted`, `RollingCeilingHolds`, `InFlightHasOperation` |
| `approvals` | two payments above the automatic limit, room for one pending approval, approvals shorter-lived than challenges, two sessions, one fault | `PaidUnderAuthority`, `ApprovalGatesMoney`, `EndedSessionIsInert`, `ReceiptParity`, `MoneyRecoverable`, `OutcomeFinal`, `FrozenAuthorityIsFrozen` |
| `promises` | two approved payments of 2, session ceiling 2, fairness | `SessionCeilingHolds`, `ImplementsEscrow`, `OperationsReturn`, `AmbiguityIsReported` |
| `free_failure` | one intent | violates `RestartAlwaysAdmitted` |
| `closing` | two intents, no faults | violates `StopsOnlyOnFault` |
| `reconciliation` | one payment in flight and one held from signing, two transactions the chain may give any meaning, two operators, two candidates, one fault | `TypeOK`, `HoldsFollowChain`, `HistoryRecomputes`, `ReceiptGapStopsAdmission`, `ResolvedForGood`, `ImplementsHeldPayment` |
| `one_transfer` | two payments in flight, three transactions for them and their refunds, one operator, one fault | `OneResolution`, `HistoryRecomputes` |
| `unused_candidate` | one held payment, one transaction | violates `StartupAccepts` |
| `invocations` | two servers, two keys, one authorization, two offers, room for one key per paywall, one fault or crash | `TypeOK`, `EffectsClaimedOnce`, `ExecutedIsPaid`, `ReceiptsFollowRecord`, `AdmissionBounded`, `AmbiguityNeverResettles`, `ImplementsPaidInvocation` |
| `retries` | one server, one key, two authorizations, two offer windows, two faults or crashes, fairness | `UnresolvedIsReconciled`, `SettledIsExecuted` |
| `awards` | three Invocations, awards of 1 under a cap of 2, a budget of 8 for reservations of 3, the budget's month (its authorization ends half-way), two more and the start of a fourth, one unit per row and payment | `TypeOK`, `AwardCapHolds`, `BudgetIsReceipted`, `AwardsInArrears`, `ReceiptsStayStatable`, `AdvancedWithinAward`, `ChainConserves` |

Why the bounds are enough to be interesting: two intents are what every race in the code
needs (for the last of the budget, the last place in the queue, the wallet's blocker, a
replacement), each ceiling has room for exactly one of them, the clock passes the window and
every deadline, and one fault can fall between any two steps, inside recovery included. Two
sessions let an operation of the first outlive it. In `reconciliation` two operators are in the
two leases at once, one of them behind a case the other changed, and the second candidate lets an
abandoned or rejected one be followed by another; in `one_transfer` the payment of each intent,
the refund of either and a transfer of neither compete for the same transactions. In
`invocations` the two keys compete for one authorization and for one place in the paywall, the
servers for every journal append; `retries` gives up the second server for a second authorization
and a second fault, so that a retry can be expired, replaced and interrupted again. In `awards`
two Invocations may be open under the cap, a third after a failure or a reversal and only when the
budget has not been spent, an execution may return in any month, and the two statements after the
first leave room to reverse in one what another would advance. Symmetry is used
where the members are alike (intents of one amount and seller, operators, keys and servers,
Invocations), never in a run with liveness.

**Fairness of the Kernel** (`FairSpec`). An operation that can continue does: probe and paid retry have
timeouts (`x402-v2-transport.mjs`), the wallet call has a deadline
(`wallet-adapter-contract.mjs`), everything else is the event loop. The sweep that
`requestApproval` awaits ends. A stopped Kernel is restarted by its supervisor; recovery is
straight-line code. Nothing obliges agent, operator, seller, wallet or chain to act.
`OperationsReturn` says that `execute()` always returns; `AmbiguityIsReported` that an intent
caught in flight reaches a recorded outcome unless a free failure (below) keeps the Kernel from
starting.

**Fairness of the Collar** (`FairSpec` of `Collar`). A request in flight proceeds (`Proceed`): its
calls to facilitator and journal return or time out, and it does not throw for ever, since the
faults are bounded. An operator asks again for what is unresolved (`AskSettlement`) and is told
in the end what the chain shows (`ResolveSettled`): the resolver is an outside service, a refusal
now and then is allowed, one for ever is not. A buyer whose payment is settled retries it
(`ClaimAuthorization`), as the idempotency key is for. Time passes. Conditions are strong because
each of these may be interrupted by a crash or by another request of the key. Nothing obliges the
facilitator to settle, the chain to transfer, the executor to succeed, or anybody to refund.

### Disagreements found

* **A free failure blocks the restart** (`free_failure`). When the unpaid request fails or times
  out, `terminalizeOrdinary` records an execution `failed` or `unknown` and no resolution, and
  `assertIntentBindings` (`K/recovery.mjs:2314-2320`) rejects exactly that at the next startup.
  `RUNBOOK.md:518-520` promises that a restart reuses session, intents and approvals.
* **Ending a session with two open intents stops the Kernel** (`closing`). The first receipt's
  parity test finds the second outcome without a receipt. The plan document (4025-4026) has all
  receipts issued before success is returned. Tests end sessions with at most one open intent.

* **A candidate named after expiry, and never mined, blocks the restart** (`unused_candidate`).
  One request names the candidate and releases the hold on the unused authorization; its event
  has two different case hashes, and the audit (`K/recovery.mjs:1256`) demands equal ones. The
  test at `tests/kernel-recovery.test.mjs:1559` promises that this resolution is accepted; it
  reconciles twice.

Of the Collar, not runs:

* *A decided payment may be settled again.* `onSigned` (`P/collar.mjs:427-443`) reads the record,
  and another process may reject, settle or execute it before the claim; `claim.claimed` is then
  false and the last line answers `signed`, so the paywall calls settle again. The comment at
  `P/x402-seller.mjs:305-309` and `tests/x402-lifecycle.test.mjs:1030` say that a retry never
  settles twice. The model has the step; `AmbiguityNeverResettles` states what does hold, and the
  token contract takes the money once.
* *A payment left `signed` by a crash is nobody's.* `/reconcile/by-settlement`
  (`P/collar.mjs:522`) accepts only `unresolved`; a retry of the buyer marks nothing. An
  execution interrupted by a crash stays `executing`, which the plan document leaves to a later
  version. `UnresolvedIsReconciled` promises no more than the endpoint does.

Of the awards: each engine numbers its receipts from 1 while a statement chain continues at its
cursor, so a second engine for the same employer and Creator leaves receipts the chain refuses;
the package's README lists durable storage as future work.

Smaller observations of the Kernel, not runs: an approved retry whose challenge is unchanged but whose fresh
evaluation is no longer `approval_required` is ended with the reason
`APPROVAL_CHALLENGE_CHANGED`; `evaluateChallenge` counts due but unswept approvals against the
pending capacity; `consumeForInTransaction` expires a due approval in a transaction that
`reserveApproved` then rolls back; a hold that came from `signing` has no payload and can never
be resolved (`K/recovery.mjs:2932`, `RefuseUnsigned`); a transaction named by mistake for one
intent can never be named for the one it belongs to, and when the seller reports it for a payment in
flight the Kernel stops (`K/wallet-kernel.mjs:1533-1535`): after the restart that payment is held, and
its own transaction cannot resolve it.

## 4. What is proved

TLAPS proves, for every set of intents, every amount, ceiling and deadline, and every bound:

| Theorem | Property |
|---|---|
| `Invariance`, `TypeCorrect` | `Inv`, `TypeOK` |
| `SignsAtMostOnce` | `SignedOnce` |
| `LiveMoneyIsInTheLedger` | `MoneyAccounted` |
| `ApprovalsGateMoney` | `ApprovalGatesMoney` |
| `ServingKernelHasReceipts` | `ReceiptParity` |
| `NoOperationIsForgotten` | `InFlightHasOperation` |
| `EveryCrashIsClassified` | `MoneyRecoverable` |
| `EndedSessionsAreInert` | `EndedSessionIsInert` |
| `OutcomesAreFinal` | `OutcomeFinal` |
| `FrozenMeansFrozen` | `FrozenAuthorityIsFrozen` |
| `CeilingInvariance` | `CeilingInv` of `WalletKernel_proofs` |
| `RollingCeiling` | `RollingCeilingHolds` |
| `SessionCeiling` | `SessionCeilingHolds` |
| `PaysUnderAuthority` | `PaidUnderAuthority` |
| `KernelImplementsEscrow` | `ImplementsEscrow` |
| `ReconcilerTypeCorrect` | `TypeOK` of `Reconciler` |
| `HoldsFollowTheChain` | `HoldsFollowChain` |
| `GapStopsAdmission` | `ReceiptGapStopsAdmission` |
| `OneTransferOneResolution` | `OneResolution` |
| `ResolutionsAreFinal` | `ResolvedForGood` |
| `ReconcilerKeepsThePromise` | `ImplementsHeldPayment` |
| `HistoryAlwaysRecomputes` | `HistoryRecomputes` |
| `CollarInvariant` | `Inv` of `Collar_proofs` |
| `EffectsAreClaimedOnce` | `EffectsClaimedOnce` |
| `ExecutionIsPaid` | `ExecutedIsPaid` |
| `ReceiptsAreTheRecords` | `ReceiptsFollowRecord` |
| `AmbiguityIsNotResettled` | `AmbiguityNeverResettles` |
| `MapsInvariant` | `Inv` and `Maps` of `Collar_proofs` |
| `AdmissionIsBounded` | `AdmissionBounded` |
| `CollarTypes` | `TypeOK` of `Collar` |
| `CollarKeepsThePromise` | `ImplementsPaidInvocation` |
| `StatementsInvariant` | `Inv` of `Statements_proofs` |
| `NoReceiptIsStranded` | `ReceiptsStayStatable` |
| `AwardsAreInArrears` | `AwardsInArrears` |
| `AdvancesStayWithinAwards` | `AdvancedWithinAward` |
| `BooksInvariant` | `Books` of `Statements_proofs` |
| `AwardsStayWithinTheCap` | `AwardCapHolds` |
| `BudgetReconciles` | `BudgetIsReceipted` |
| `ChainInvariant` | `Chain` of `Statements_proofs` |
| `ChainPaysOnce` | `ChainConserves` |
| `StatementsTypes` | `TypeOK` of `Statements`, the engine included |

The assumptions are the `ASSUME`s of the modules: bounds and deadlines are natural numbers, the
ones that must be are positive; the special values are not members of the sets they mark; the
calendar never goes back and the budget's authorization ends with its month. The intents of a
Kernel (`IntentsAssumption`) and the Invocations of an award engine (`InvocationsAssumption`) are
finite sets: each is what one database or one store will ever hold, and the sum over an infinite
set would mean nothing. Keys, authorizations, servers, operators and transactions may be infinite.

*The Kernel's argument.* None of the properties is inductive. `SignedOnce`, for instance, needs to know
that an intent whose wallet was asked never returns to `reserved`; `MoneyAccounted` that a
reservation is released only from states in which the wallet was not asked or refused. The
invariant `Inv` is therefore a table: `Row(i)` states, for each state of an intent, what its
reservation, attempt, execution, resolution, outcome, approval, decision, the wallet and the
chain can be; `Point(i)` ties the program point of the operation to that state, both ways where
money is on its way; `Signed(i)` ties receipts to outcomes and to the mode; `Inert(i)` says what
is left of an ended session. `WalletKernelInvariant` proves that each part is preserved, one
step per action (`TypeStep`, `RowStep`, `PointStep`, `SignedStep`, `InertStep`), and two step
lemmas for the action properties (`FinalStep`, `FrozenStep`). `Inv` was model-checked on both
safety instances before it was proved. `KernelImplementsEscrow` maps every action to a step of
the escrow or to a stutter; the limit carries over because `reserveImpl` compares the same sum
that the escrow charges (`ChargedIsExposure`), which needs no property of sums.

*The ceilings' argument.* The ledger is compared with a ceiling at one instant, in `reserveImpl`; the
properties speak of money that may move, or has moved, much later. `CeilingInv` adds three things
to `Inv`. `Ceilings` says that the exposure of every session and seller is within its ceiling in
every state, and so is, for every instant `t`, what has moved or may still move in the window that
begins at `t` (`MovingFrom`). Only a reservation can break that, and it is what the code compares;
every other step is `Quiet`: it adds to no sum. `Timed` says that a commit is never dated before the
transfer it records, so an amount that the ledger stops counting, because its commit has left the
window, has left the window of the chain as well. `Permitted` bounds the authorization the wallet
was asked for by the earliest of its deadlines; cutting the window to whole seconds only makes it
shorter.

*Sums.* The library defines a sum over a set by a recursive function that picks one element after
the other. `SumTheorems` proves that such a function exists and that its value does not depend on
the picks, and from that how a sum changes when an element or a value does. Induction over sets
takes an operator as a parameter, which the provers cannot instantiate; each proof takes instead a
smallest subset for which the claim would fail (`SmallestSubset`, from the well-foundedness of strict
inclusion) and removes one element from it.

*The Reconciler's argument.* Between the two leases of a request anything may happen to the case:
other operators resolve it, abandon its candidate, name another one, or the process dies. The
invariant needs to say nothing of that. `Asks` says of a waiting request only that the row it asks
about is one of the case it is bound to, which is a fact of the request alone; lease 2 compares
that case with the current one, so the row is still there, names the same transaction and is open
(`AskedCandidate`, `AskedRefund`). `Stage` lists the eight combinations of the columns of an intent,
`OnChain`, `Settled` and `Returned` tie what was resolved to what the chain shows, and `Receipted`
says that at most one receipt is behind. That one transfer resolves one thing has two reasons: a
settlement is proved by the transfer of the intent's own nonce, and a refund, where the proof is a
seller's word, by `assertUnusedTransaction` over rows of every state (`RefundNamed`). The refinement
maps the chain's steps to `Pay` and `Die`, resolutions to `Confirm`, `GiveUp`, `Attest` and
`GiveBack`, and the naming, abandoning and rejecting of rows to stutters.

*The history's argument.* The audit has only the rows as they are now, and an event only the hash of
a case that is gone. It counts the resolved rows before a row to find the revision the case had,
and takes the earlier rows as they stand for those the operator saw. `HistoryInv` says why it may.
Only the last row of a table is ever pending, so the rows before it were closed when it was named,
and closed rows do not change (`RowSound`). Every event raised the revision by one and, but for
those that end the case, closed one row, so the revision counts the rows (`Numbered`). The row
carries the hash of the case before it was named (`CandidateSound`, `RefundSound`), and the event
that closed it that hash or the one with the row pending: a request that waits for an answer was
shown the case it is bound to or is the one that named the row (`ShownIn`). Each event is evidence
of the row or the column it closed (`EntrySound`), and no two events carry the same evidence, since
a transaction is named once in the rows of an intent (`Distinct`); so the audit finds exactly one
event for a resolved row and none for another. `HistoryInv` was model-checked on the instances
of `reconciliation` and `one_transfer` before it was proved. `OneOwner` says the
same of the rows of two intents: whatever writes a transaction, an operator's naming or a commit,
finds it in no row (`OwnersKept`, `OwnersPaid`), and a resolved settlement owns it together with the
candidate it confirms (`OwnersSettle`). The one further condition of the audit, that an unused
authorization was resolved on the case the operator displayed, is the one that fails
(`unused_candidate`), and no part of the theorem.

*The Collar's argument.* Memory is worthless after a crash, so the invariant speaks of the journal
and of the effects. `Sound` says which parts of a record go together (an execution is started only
in a settled record, receipts are one of four sequences, ...); the relation `Follows` says what no
operation takes back (a claimed reference, a started execution, a decision), and is proved of each
journal operation by itself, whatever end it has, so that each of the many actions only names the
operation it calls. `Effects` ties the calls of executor and refund executor, and what the chain
shows, to the one appended event that allows each; `Known` ties what a request in flight
remembers (that it claimed, that it started) to the record. `EffectsClaimedOnce` and
`ExecutedIsPaid` follow; the refinement maps an action to `Take`, `Start`, `Deliver`, `Fail` or
`Return` by what it changes of chain, calls, answers and refunds, and to a stutter otherwise.

The paywall's cap is a matter of its maps. A key is active when an offer, a claim, a stuck
settlement or a request in flight names it, and the cap is looked at in two places only
(`IssueOffer`, `ClaimAuthorization`). `Handled` is what all ten steps of a request have in common:
the key is already active, by its own admission, and no map gains an entry for another key, so a
claim that is kept, a settlement that gets stuck or an offer that is renewed costs nothing
(`AdmittedStep`). An admission adds its one key, to a set that has room or that holds it
(`AdmissionStep`). `Bounded` says also that the active keys are finitely many, without which
their number would mean nothing; they are so from the empty set on, however many keys there are.

*The statements' argument.* The cursor divides the receipts by month: those up to it belong to
months up to that of the last statement, those beyond it to later months or to the current one. It
needs that receipts are committed in the order of their months and that statements close months
that are over. With it, activity `n` is about receipt `n` for ever, and what is true of an award in
one statement carries over to the next.

*The budget's argument.* `BudgetIsReceipted` follows each counter through the sums: a reservation adds
one `Gross` to the open ones, an end takes it away and adds a receipt whose three parts make it up.
Two facts that the property does not state are needed: an executor call that still runs belongs to
an Invocation whose reservation is open, so its end cannot release twice, and only an earned award
is reversed, so an open one counts in full against the cap. `ChainConserves` is inductive with
the types of the statements: a statement opens with the balance of the one before, and adds to the
activity row by row what it adds to the balance (`BuildChain`).

*Only model-checked.* Every safety invariant and action property that a passing run checks, and
the three refinements, are proved. Liveness under fairness (`OperationsReturn`,
`AmbiguityIsReported`, `UnresolvedIsReconciled`, `SettledIsExecuted`), and `ENABLED`, are outside
what the prover does.

## 5. Not modelled, and what could follow

* The buyer-side gateway, payment policy and proxy of the Collar; the version 1 records of its
  journal, which are read and never written any more.
* `IntentCapture`: the fingerprints and correlation of requests, which the Kernel's model abstracts
  to the identity of an intent.
* The exporter's batching cursor, phase 0 attestations, the registry and clone experiments
  (read-only exports and offline experiments over data), and `atomic-money` (pure arithmetic).
* A second engine or a durable store for the awards: the code has neither.
* HTTP and CLI surfaces, cryptography, file-system checks, process runners, static demos. They
  keep no state whose interleavings matter, or are pure input and output.
