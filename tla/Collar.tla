------------------------------- MODULE Collar --------------------------------
(***************************************************************************)
(* The paid Skill endpoint (collar.mjs) behind its x402 paywall            *)
(* (x402-seller.mjs), over the shared invocation journal.  Each server is  *)
(* a process with the paywall's maps in memory, which a crash empties; the *)
(* journal, the chain and the outside services survive.  A request runs    *)
(* from one await to the next: what it reads before an await may be stale  *)
(* after it, and another process may act between two journal operations of *)
(* one synchronous handler, while other requests of its own process may    *)
(* not.  The paywall holds a key's admission through the whole request, so *)
(* a server serves at most one paid request per key.                       *)
(***************************************************************************)
EXTENDS InvocationJournal, FiniteSets

CONSTANTS
    Servers,
    NoKey,
    MaxPendingOffers,   \* keys one paywall may track
    MaxOffers,          \* model bound: offers ever issued
    MaxClock            \* model bound: offer windows

ASSUME CollarAssumption ==
    /\ NoKey \notin Keys
    /\ MaxPendingOffers \in Nat \ {0}
    /\ MaxOffers \in Nat
    /\ MaxClock \in Nat \ {0}

VARIABLES
    offers,         \* pendingOffers of each server
    claims,         \* authorizationClaims of each server
    stuck,          \* locallyUnresolvedSettlements of each server
    paid,           \* the paid request each server has in flight for a key
    operator,       \* the operator request each server has in flight for a key
    clock, issued,  \* the offer window it is; the window each offer is valid in
    signedFor,      \* the window a buyer signed each authorization for, or 0
    sends,          \* settle requests sent to the facilitator, ever
    submitted,      \* those that may still reach the chain
    chain,          \* whether the authorization was used on chain
    calls,          \* executor calls, ever
    delivered,      \* whether an output was answered to the buyer
    refundCalls,    \* refund executor calls, ever
    refundOpen,     \* those that may still pay
    refundPaid      \* refunds paid, ever

memoryVars == <<offers, claims, stuck>>
requestVars == <<paid, operator>>
timeVars == <<clock, issued, signedFor>>
settleVars == <<sends, submitted, chain>>
workVars == <<calls, delivered>>
refundVars == <<refundCalls, refundOpen, refundPaid>>
worldVars == <<settleVars, workVars, refundVars>>
vars == <<journalVars, memoryVars, requestVars, timeVars, worldVars>>

NoOffer == [id |-> 0, verified |-> NoAuth]
NoClaim == [key |-> NoKey, state |-> "none", authoritative |-> FALSE]
Idle == [pc |-> "idle"]

Init ==
    /\ JournalInit
    /\ offers = [s \in Servers |-> [k \in Keys |-> NoOffer]]
    /\ claims = [s \in Servers |-> [a \in Auths |-> NoClaim]]
    /\ stuck = [s \in Servers |-> {}]
    /\ paid = [s \in Servers |-> [k \in Keys |-> Idle]]
    /\ operator = [s \in Servers |-> [k \in Keys |-> Idle]]
    /\ clock = 1
    /\ issued = <<>>
    /\ signedFor = [a \in Auths |-> 0]
    /\ sends = [a \in Auths |-> 0]
    /\ submitted = [a \in Auths |-> 0]
    /\ chain = [a \in Auths |-> FALSE]
    /\ calls = [k \in Keys |-> 0]
    /\ delivered = [k \in Keys |-> FALSE]
    /\ refundCalls = [k \in Keys |-> 0]
    /\ refundOpen = [k \in Keys |-> 0]
    /\ refundPaid = [k \in Keys |-> 0]

-----------------------------------------------------------------------------
(* The paywall's bookkeeping.                                                  *)

(* Another request of server s runs only when none is inside a handler.        *)
Yielded(s) == \A k \in Keys : paid[s][k].pc # "signing"

(* loadFrozenOffer: the paywall's own offer, or the journal's quote.           *)
Pending(s, k) == offers[s][k].id # 0
Frozen(s, k) ==
    IF Pending(s, k) THEN offers[s][k]
    ELSE [id |-> journal[k].offer, verified |-> journal[k].verified]

ClaimOf(s, k) == {a \in Auths : claims[s][a].key = k}
Admitted(s, k) == paid[s][k].pc # "idle"
Tracked(s, k) == Pending(s, k) \/ ClaimOf(s, k) # {} \/ k \in stuck[s]
ActiveKeys(s) == {k \in Keys : Tracked(s, k) \/ Admitted(s, k)}

(* Slip: only the pending offers are counted.                                  *)
CanAdmitByOffers(s, k) ==
    /\ ~Admitted(s, k)
    /\ Tracked(s, k) \/ Cardinality({other \in Keys : Pending(s, other)}) < MaxPendingOffers

(* reserveTransientAdmission.                                                  *)
CanAdmit(s, k) ==
    /\ ~Admitted(s, k)
    /\ Tracked(s, k) \/ Cardinality(ActiveKeys(s)) < MaxPendingOffers

Expired(w) == w < clock

(* Slip: an expired authorization is refused, even of a recorded payment.      *)
EnvelopeFresh(s, k, a) ==
    /\ signedFor[a] = issued[Frozen(s, k).id]
    /\ ~Expired(signedFor[a])

(* validateAuthorizationEnvelope: the authorization was signed for the offer's *)
(* window, which has not passed unless a trusted record already knows it.      *)
EnvelopeAccepted(s, k, a) ==
    /\ signedFor[a] = issued[Frozen(s, k).id]
    /\ \/ ~Expired(signedFor[a])
       \/ ~Pending(s, k) /\ (Frozen(s, k).verified = a \/ claims[s][a].key = k)

SetClaim(s, a, c) == claims' = [claims EXCEPT ![s][a] = c]
SetPaid(s, k, p) == paid' = [paid EXCEPT ![s][k] = p]

(* retainAuthorizationClaim, consumeAuthorizationClaim and                     *)
(* beginAuthorizationExecution set the state; the phase is only reported.      *)
ClaimBecomes(s, a, state) == claims' = [claims EXCEPT ![s][a].state = state]
DecidedClaimBecomes(s, a, state) ==
    claims' = [claims EXCEPT ![s][a].state = state, ![s][a].authoritative = TRUE]

EndPaid(s, k) == SetPaid(s, k, Idle)
DropOffer(s, k) == offers' = [offers EXCEPT ![s][k] = NoOffer]
Unstick(s, k) == stuck' = [stuck EXCEPT ![s] = @ \ {k}]

-----------------------------------------------------------------------------
(* An unpaid request with no frozen offer gets a new one; any other is         *)
(* answered from what is there.                                                *)
IssueOffer(s, k) ==
    /\ Yielded(s)
    /\ Len(issued) < MaxOffers
    /\ Frozen(s, k).id = 0
    /\ k \notin stuck[s]
    /\ ClaimOf(s, k) = {}
    /\ CanAdmit(s, k)
    /\ issued' = Append(issued, clock)
    /\ offers' = [offers EXCEPT ![s][k] = [id |-> Len(issued) + 1, verified |-> NoAuth]]
    /\ UNCHANGED <<journalVars, claims, stuck, requestVars, clock,
                   signedFor, worldVars>>

(* The buyer signs an authorization whose window is that of an offer it got.   *)
BuyerSigns(a) ==
    /\ signedFor[a] = 0
    /\ \E o \in DOMAIN issued : issued[o] = clock
    /\ signedFor' = [signedFor EXCEPT ![a] = clock]
    /\ UNCHANGED <<journalVars, memoryVars, requestVars, clock, issued,
                   worldVars>>

(* A paid request that gets past the paywall's checks claims its authorization *)
(* before the first await of the facilitator.                                  *)
ClaimAuthorization(s, k, a) ==
    /\ Yielded(s)
    /\ signedFor[a] # 0
    /\ Frozen(s, k).id # 0
    /\ CanAdmit(s, k)
    /\ EnvelopeAccepted(s, k, a)
    /\ Frozen(s, k).verified \in {NoAuth, a}
    /\ ClaimOf(s, k) \subseteq {a}
    /\ claims[s][a] = NoClaim \/ claims[s][a].key = k
    /\ claims[s][a].state = "consumed" => claims[s][a].authoritative
    /\ IF claims[s][a] = NoClaim
       THEN SetClaim(s, a, [key |-> k, state |-> "processing", authoritative |-> FALSE])
       ELSE ClaimBecomes(s, a, "processing")
    /\ SetPaid(s, k, [pc |-> IF Frozen(s, k).verified = a THEN "verified" ELSE "verifying",
                      auth |-> a, offer |-> Frozen(s, k).id,
                      consumed |-> claims[s][a].state = "consumed"])
    /\ UNCHANGED <<journalVars, offers, stuck, operator, timeVars, worldVars>>

(* The facilitator's answer to verify.  A rejection frees the claim, because   *)
(* nothing was settled; no answer leaves it unresolved.                        *)
VerifyAnswered(s, k) ==
    LET p == paid[s][k] IN
    /\ Yielded(s)
    /\ p.pc = "verifying"
    /\ \/ /\ SetPaid(s, k, [p EXCEPT !.pc = "verified"])
          /\ offers' = IF Pending(s, k) THEN [offers EXCEPT ![s][k].verified = p.auth]
                                        ELSE offers
          /\ UNCHANGED claims
       \/ /\ EndPaid(s, k)
          /\ SetClaim(s, p.auth, NoClaim)
          /\ UNCHANGED offers
       \/ /\ EndPaid(s, k)
          /\ ClaimBecomes(s, p.auth, "unresolved")
          /\ UNCHANGED offers
    /\ UNCHANGED <<journalVars, stuck, operator, timeVars, worldVars>>

-----------------------------------------------------------------------------
(* lifecycle.onSigned, from its first journal operation to the record it reads *)
(* and decides on.                                                             *)

(* retainLocalUnresolved and the settled and terminal replays leave the maps so. *)
Released(s, k) == DropOffer(s, k) /\ Unstick(s, k)

ReplayTerminal(s, k, p, rec) ==
    /\ rec.execution \in TERMINAL_EXECUTION
    /\ \E end \in IF rec.payment \in {"settled", "refunded"}
                  THEN issueReceipt(k) ELSE Throws(k) :
          /\ Leaves(k, end)
          /\ IF end.threw
             THEN ClaimBecomes(s, p.auth, "unresolved") /\ UNCHANGED <<offers, stuck>>
             ELSE DecidedClaimBecomes(s, p.auth, "consumed") /\ Released(s, k)
    /\ EndPaid(s, k)

HoldExecuting(s, k, p, rec) ==
    /\ rec.execution = "executing"
    /\ DecidedClaimBecomes(s, p.auth, "unresolved")
    /\ EndPaid(s, k)
    /\ UNCHANGED <<journalVars, offers, stuck>>

(* A settlement the journal knows of goes straight to the execution.           *)
ResumeSettled(s, k, p, rec) ==
    /\ rec.payment = "settled"
    /\ rec.execution = "authorized"
    /\ DecidedClaimBecomes(s, p.auth, "executing")
    /\ SetPaid(s, k, [p EXCEPT !.pc = "authorized"])
    /\ Released(s, k)
    /\ UNCHANGED journalVars

Undecided(rec) ==
    /\ rec.execution \notin TERMINAL_EXECUTION \cup {"executing"}
    /\ ~(rec.payment = "settled" /\ rec.execution = "authorized")

(* What the offer and its verification are persisted as, or why they are not.  *)
Consult(s, k) ==
    LET p == paid[s][k]
        foreign(rec) == rec.ref \notin {NoAuth, p.auth}
    IN
    /\ Yielded(s)
    /\ p.pc = "verified"
    /\ \E end \in PersistVerifiedOffer(k, p.offer, p.auth) :
          \/ /\ end.threw \/ foreign(end.rec)
             /\ Leaves(k, end)
             /\ ClaimBecomes(s, p.auth, "unresolved")
             /\ EndPaid(s, k)
             /\ UNCHANGED <<offers, stuck>>
          \/ /\ ~end.threw /\ ~foreign(end.rec)
             /\ \/ ReplayTerminal(s, k, p, end.rec)
                \/ HoldExecuting(s, k, p, end.rec)
                \/ ResumeSettled(s, k, p, end.rec)
                \/ /\ Undecided(end.rec)
                   /\ Leaves(k, end)
                   /\ SetPaid(s, k, [p EXCEPT !.pc = "signing"])
                   /\ UNCHANGED memoryVars
    /\ UNCHANGED <<operator, timeVars, worldVars>>

(* Slip: a claim another process made counts as this one's.                    *)
DecisionUnclaimed(rec, claimed) ==
    CASE rec.payment = "unresolved" -> "payment_unresolved"
      [] rec.payment = "settled" /\ rec.execution = "authorized" -> "settled"
      [] OTHER -> "signed"

(* What onSigned answers from the record its claim of the payment returns.     *)
Decision(rec, claimed) ==
    CASE rec.payment = "unresolved" \/ (~claimed /\ rec.payment = "signed") ->
            "payment_unresolved"
      [] rec.payment = "settled" /\ rec.execution = "authorized" -> "settled"
      [] OTHER -> "signed"

(* The claim of the payment, which only the process that appends payment.signed *)
(* wins, and the paywall's choice: `signed' sends the settle request.          *)
ClaimSigned(s, k) ==
    LET p == paid[s][k] IN
    /\ p.pc = "signing"
    /\ \E end \in claimExternalPaymentSigned(k, p.auth) :
          /\ Leaves(k, end)
          /\ LET kind == IF end.threw THEN "threw"
                         ELSE Decision(end.rec, journal[k].ref = NoAuth)
             IN
             \/ /\ kind = "threw"
                /\ ClaimBecomes(s, p.auth, "unresolved")
                /\ EndPaid(s, k)
                /\ UNCHANGED <<offers, stuck, sends, submitted>>
             \/ /\ \/ kind = "payment_unresolved"
                   \/ kind = "signed" /\ (p.consumed \/ k \in stuck[s])
                /\ DecidedClaimBecomes(s, p.auth, "unresolved")
                /\ EndPaid(s, k)
                /\ UNCHANGED <<offers, stuck, sends, submitted>>
             \/ /\ kind = "settled"
                /\ DecidedClaimBecomes(s, p.auth, "executing")
                /\ SetPaid(s, k, [p EXCEPT !.pc = "authorized"])
                /\ Released(s, k)
                /\ UNCHANGED <<sends, submitted>>
             \/ /\ kind = "signed" /\ ~p.consumed /\ k \notin stuck[s]
                /\ claims' = [claims EXCEPT ![s][p.auth].authoritative = TRUE]
                /\ SetPaid(s, k, [p EXCEPT !.pc = "settling"])
                /\ sends' = [sends EXCEPT ![p.auth] = @ + 1]
                /\ submitted' = [submitted EXCEPT ![p.auth] = @ + 1]
                /\ UNCHANGED <<offers, stuck>>
    /\ UNCHANGED <<operator, timeVars, chain, workVars, refundVars>>

-----------------------------------------------------------------------------
(* The settlement.                                                             *)

(* A submitted transfer is mined: an authorization moves money once.           *)
Transfer(a) ==
    /\ submitted[a] > 0
    /\ ~chain[a]
    /\ chain' = [chain EXCEPT ![a] = TRUE]
    /\ submitted' = [submitted EXCEPT ![a] = 0]
    /\ UNCHANGED <<journalVars, memoryVars, requestVars, timeVars, sends, workVars,
                   refundVars>>

(* onUnresolved, whose failure the paywall swallows.                           *)
NotedUnresolved(k) ==
    IF journal[k].payment \in {"settled", "refunded", "unresolved"}
    THEN Answers(k) ELSE markExternalPaymentUnresolved(k)

(* retainLocalUnresolved, then notifyUnresolved.                               *)
SettleUnknown(s, k) ==
    LET p == paid[s][k] IN
    /\ Yielded(s)
    /\ p.pc = "settling"
    /\ \E end \in NotedUnresolved(k) : Leaves(k, end)
    /\ stuck' = [stuck EXCEPT ![s] = @ \cup {k}]
    /\ ClaimBecomes(s, p.auth, "unresolved")
    /\ DropOffer(s, k)
    /\ EndPaid(s, k)
    /\ UNCHANGED <<operator, timeVars, worldVars>>

(* onRejected, after the facilitator said that this request settles nothing.   *)
NotedRejected(k) ==
    IF journal[k].payment \in {"settled", "refunded", "rejected"}
    THEN Answers(k) ELSE rejectExternalPayment(k)

SettleFailed(s, k) ==
    LET p == paid[s][k] IN
    /\ Yielded(s)
    /\ p.pc = "settling"
    /\ ~chain[p.auth] \/ sends[p.auth] > 1
    /\ \E end \in NotedRejected(k) :
          /\ Leaves(k, end)
          /\ IF end.threw
             THEN ClaimBecomes(s, p.auth, "unresolved") /\ UNCHANGED <<offers, stuck>>
             ELSE SetClaim(s, p.auth, NoClaim) /\ Released(s, k)
    /\ submitted' = [submitted EXCEPT ![p.auth] = IF @ > 0 THEN @ - 1 ELSE 0]
    /\ EndPaid(s, k)
    /\ UNCHANGED <<operator, timeVars, sends, chain, workVars, refundVars>>

(* onSettled.  When the journal cannot be written the handler gives up as for  *)
(* an unknown answer, which writes a second time.                              *)
SettleConfirmed(s, k) ==
    LET p == paid[s][k] IN
    /\ Yielded(s)
    /\ p.pc = "settling"
    /\ chain[p.auth]
    /\ \E end \in markExternalPaymentSettled(k, p.auth) :
          \/ /\ ~end.threw
             /\ Leaves(k, end)
             /\ DropOffer(s, k)
             /\ DecidedClaimBecomes(s, p.auth, "executing")
             /\ SetPaid(s, k, [p EXCEPT !.pc = "authorized"])
             /\ UNCHANGED stuck
          \/ /\ end.threw
             /\ Leaves(k, end)
             /\ SetPaid(s, k, [p EXCEPT !.pc = "unwritten"])
             /\ UNCHANGED memoryVars
    /\ UNCHANGED <<operator, timeVars, worldVars>>

SettleUnwritten(s, k) ==
    LET p == paid[s][k] IN
    /\ Yielded(s)
    /\ p.pc = "unwritten"
    /\ \E end \in NotedUnresolved(k) : Leaves(k, end)
    /\ stuck' = [stuck EXCEPT ![s] = @ \cup {k}]
    /\ ClaimBecomes(s, p.auth, "unresolved")
    /\ DropOffer(s, k)
    /\ EndPaid(s, k)
    /\ UNCHANGED <<operator, timeVars, worldVars>>

-----------------------------------------------------------------------------
(* The invocation handler.  However it ends, the claim is consumed.            *)

ConsumeAndEnd(s, k) ==
    /\ ClaimBecomes(s, paid[s][k].auth, "consumed")
    /\ EndPaid(s, k)

(* Slip: the executor is called whether or not this process started it.        *)
StartExecutionAnyway(s, k) ==
    LET p == paid[s][k] IN
    /\ Yielded(s)
    /\ p.pc = "authorized"
    /\ \E end \in startExecution(k) :
          /\ Leaves(k, end)
          /\ IF end.threw
             THEN ConsumeAndEnd(s, k) /\ UNCHANGED calls
             ELSE /\ SetPaid(s, k, [p EXCEPT !.pc = "executing"])
                  /\ calls' = [calls EXCEPT ![k] = @ + 1]
                  /\ UNCHANGED claims
    /\ UNCHANGED <<offers, stuck, operator, timeVars, settleVars, delivered, refundVars>>

(* Only the process whose event starts the execution calls the executor.       *)
StartExecution(s, k) ==
    LET p == paid[s][k] IN
    /\ Yielded(s)
    /\ p.pc = "authorized"
    /\ \E end \in startExecution(k) :
          /\ Leaves(k, end)
          /\ IF end.threw \/ journal[k].execution = "executing"
             THEN ConsumeAndEnd(s, k) /\ UNCHANGED calls
             ELSE /\ SetPaid(s, k, [p EXCEPT !.pc = "executing"])
                  /\ calls' = [calls EXCEPT ![k] = @ + 1]
                  /\ UNCHANGED claims
    /\ UNCHANGED <<offers, stuck, operator, timeVars, settleVars, delivered, refundVars>>

(* The executor's output or error, accounted for and finished.                 *)
FinishExecution(s, k) ==
    LET p == paid[s][k] IN
    /\ Yielded(s)
    /\ p.pc = "executing"
    /\ \E outcome \in {"succeeded", "failed"} :
          \E end \in finishExecution(k, outcome) :
             /\ Leaves(k, end)
             /\ IF end.threw
                THEN ConsumeAndEnd(s, k)
                ELSE SetPaid(s, k, [p EXCEPT !.pc = outcome]) /\ UNCHANGED claims
    /\ UNCHANGED <<offers, stuck, operator, timeVars, worldVars>>

(* The receipt, and with it the answer: the output is only sent when there is one. *)
AnswerInvocation(s, k) ==
    LET p == paid[s][k] IN
    /\ Yielded(s)
    /\ p.pc \in {"succeeded", "failed"}
    /\ \E end \in issueReceipt(k) :
          /\ Leaves(k, end)
          /\ delivered' = IF p.pc = "succeeded" /\ ~end.threw
                          THEN [delivered EXCEPT ![k] = TRUE] ELSE delivered
    /\ ConsumeAndEnd(s, k)
    /\ UNCHANGED <<offers, stuck, operator, timeVars, settleVars, calls, refundVars>>

-----------------------------------------------------------------------------
(* The operator endpoints.                                                     *)

SetOperator(s, k, pc) == operator' = [operator EXCEPT ![s][k] = [pc |-> pc]]

(* POST /reconcile/by-settlement: only an unresolved payment is asked about.   *)
AskSettlement(s, k) ==
    /\ Yielded(s)
    /\ operator[s][k].pc = "idle"
    /\ journal[k].payment = "unresolved"
    /\ SetOperator(s, k, "resolving")
    /\ UNCHANGED <<journalVars, memoryVars, paid, timeVars, worldVars>>

ResolveSettled(s, k) ==
    /\ Yielded(s)
    /\ operator[s][k].pc = "resolving"
    /\ chain[journal[k].ref]
    /\ \E end \in markExternalPaymentSettled(k, journal[k].ref) : Leaves(k, end)
    /\ SetOperator(s, k, "idle")
    /\ UNCHANGED <<memoryVars, paid, timeVars, worldVars>>

(* The resolver fails, or has not seen the settlement.                         *)
ResolveUnknown(s, k) ==
    /\ Yielded(s)
    /\ operator[s][k].pc = "resolving"
    /\ SetOperator(s, k, "idle")
    /\ UNCHANGED <<journalVars, memoryVars, paid, timeVars, worldVars>>

(* POST /refund/by-settlement: the process whose event starts the refund is    *)
(* the one that calls the refund executor.                                     *)
StartRefund(s, k) ==
    /\ Yielded(s)
    /\ operator[s][k].pc = "idle"
    /\ Refundable(journal[k])
    /\ \E end \in startRefund(k) :
          /\ Leaves(k, end)
          /\ IF end.threw \/ journal[k].refund # "none"
             THEN UNCHANGED <<operator, refundCalls, refundOpen>>
             ELSE /\ SetOperator(s, k, "refunding")
                  /\ refundCalls' = [refundCalls EXCEPT ![k] = @ + 1]
                  /\ refundOpen' = [refundOpen EXCEPT ![k] = @ + 1]
    /\ UNCHANGED <<memoryVars, paid, timeVars, settleVars, workVars, refundPaid>>

RefundTransfer(k) ==
    /\ refundOpen[k] > 0
    /\ refundOpen' = [refundOpen EXCEPT ![k] = @ - 1]
    /\ refundPaid' = [refundPaid EXCEPT ![k] = @ + 1]
    /\ UNCHANGED <<journalVars, memoryVars, requestVars, timeVars, settleVars, workVars,
                   refundCalls>>

(* POST /reconcile/refund/by-settlement.                                       *)
AskRefund(s, k) ==
    /\ Yielded(s)
    /\ operator[s][k].pc = "idle"
    /\ journal[k].payment # "refunded"
    /\ journal[k].refund \in {"executing", "unresolved"}
    /\ SetOperator(s, k, "resolving_refund")
    /\ UNCHANGED <<journalVars, memoryVars, paid, timeVars, worldVars>>

(* finalizeRefund's first half, for the executor's and the resolver's answer.  *)
ConfirmRefund(s, k) ==
    /\ Yielded(s)
    /\ operator[s][k].pc \in {"refunding", "resolving_refund"}
    /\ refundPaid[k] > 0
    /\ \E end \in refundExternalPayment(k) :
          /\ Leaves(k, end)
          /\ SetOperator(s, k, IF end.threw THEN "idle" ELSE "refunded")
    /\ UNCHANGED <<memoryVars, paid, timeVars, worldVars>>

(* markRefundOutcomeUnresolved: an error, no answer or evidence that differs.  *)
RefundUnknown(s, k) ==
    /\ Yielded(s)
    /\ operator[s][k].pc \in {"refunding", "resolving_refund"}
    /\ \E end \in IF journal[k].payment = "refunded" \/ journal[k].refund = "unresolved"
                  THEN Answers(k) ELSE markRefundUnresolved(k) :
          /\ Leaves(k, end)
          /\ SetOperator(s, k, IF ~end.threw /\ end.rec.payment = "refunded"
                               THEN "refunded" ELSE "idle")
    /\ UNCHANGED <<memoryVars, paid, timeVars, worldVars>>

(* The refund's receipt revision; asking again for a refunded payment is       *)
(* refundTerminalResponse, which issues it when it is missing.                 *)
AnswerRefund(s, k) ==
    /\ Yielded(s)
    /\ \/ operator[s][k].pc = "refunded"
       \/ operator[s][k].pc = "idle" /\ journal[k].payment = "refunded" /\ ~journal[k].receipt
    /\ \E end \in issueReceipt(k) : Leaves(k, end)
    /\ SetOperator(s, k, "idle")
    /\ UNCHANGED <<memoryVars, paid, timeVars, worldVars>>

-----------------------------------------------------------------------------
(* Windows pass: offers expire, and consumed claims with them.  The code purges *)
(* them when the next request arrives, before anything reads them.             *)
Tick ==
    /\ clock < MaxClock
    /\ clock' = clock + 1
    /\ offers' = [s \in Servers |-> [k \in Keys |->
            IF Pending(s, k) /\ issued[offers[s][k].id] < clock + 1
            THEN NoOffer ELSE offers[s][k]]]
    /\ claims' = [s \in Servers |-> [a \in Auths |->
            IF claims[s][a].state = "consumed" THEN NoClaim ELSE claims[s][a]]]
    /\ UNCHANGED <<journalVars, stuck, requestVars, issued, signedFor, worldVars>>

(* A process dies between two steps, and starts again with empty maps.         *)
Crash(s) ==
    /\ mishaps < MaxMishaps
    /\ mishaps' = mishaps + 1
    /\ offers' = [offers EXCEPT ![s] = [k \in Keys |-> NoOffer]]
    /\ claims' = [claims EXCEPT ![s] = [a \in Auths |-> NoClaim]]
    /\ stuck' = [stuck EXCEPT ![s] = {}]
    /\ paid' = [paid EXCEPT ![s] = [k \in Keys |-> Idle]]
    /\ operator' = [operator EXCEPT ![s] = [k \in Keys |-> Idle]]
    /\ UNCHANGED <<journal, clock, issued, signedFor, worldVars>>

Next ==
    \/ \E s \in Servers, k \in Keys :
          \/ IssueOffer(s, k)
          \/ \E a \in Auths : ClaimAuthorization(s, k, a)
          \/ VerifyAnswered(s, k) \/ Consult(s, k) \/ ClaimSigned(s, k)
          \/ SettleUnknown(s, k) \/ SettleFailed(s, k) \/ SettleConfirmed(s, k)
          \/ SettleUnwritten(s, k)
          \/ StartExecution(s, k) \/ FinishExecution(s, k) \/ AnswerInvocation(s, k)
          \/ AskSettlement(s, k) \/ ResolveSettled(s, k) \/ ResolveUnknown(s, k)
          \/ StartRefund(s, k) \/ AskRefund(s, k) \/ ConfirmRefund(s, k)
          \/ RefundUnknown(s, k) \/ AnswerRefund(s, k)
    \/ \E a \in Auths : BuyerSigns(a) \/ Transfer(a)
    \/ \E k \in Keys : RefundTransfer(k)
    \/ Tick
    \/ \E s \in Servers : Crash(s)

-----------------------------------------------------------------------------
(* The code's own types: every variable, over the bounds of the model.         *)
PaidRequest ==
    [pc : {"verifying", "verified", "signing", "settling", "unwritten", "authorized",
           "executing", "succeeded", "failed"},
     auth : Auths, offer : Nat, consumed : BOOLEAN]
OperatorRequest ==
    [pc : {"idle", "resolving", "refunding", "resolving_refund", "refunded"}]

TypeOK ==
    /\ journal \in [Keys -> Record]
    /\ mishaps \in Nat
    /\ offers \in [Servers -> [Keys -> [id : Nat, verified : Auths \cup {NoAuth}]]]
    /\ claims \in [Servers -> [Auths ->
            [key : Keys \cup {NoKey}, authoritative : BOOLEAN,
             state : {"none", "processing", "unresolved", "executing", "consumed"}]]]
    /\ stuck \in [Servers -> SUBSET Keys]
    /\ paid \in [Servers -> [Keys -> {Idle} \cup PaidRequest]]
    /\ operator \in [Servers -> [Keys -> OperatorRequest]]
    /\ clock \in Nat
    /\ issued \in Seq(Nat)
    /\ signedFor \in [Auths -> Nat]
    /\ sends \in [Auths -> Nat]
    /\ submitted \in [Auths -> Nat]
    /\ chain \in [Auths -> BOOLEAN]
    /\ calls \in [Keys -> Nat]
    /\ delivered \in [Keys -> BOOLEAN]
    /\ refundCalls \in [Keys -> Nat]
    /\ refundOpen \in [Keys -> Nat]
    /\ refundPaid \in [Keys -> Nat]

(* The executor runs, and the refund executor pays, at most once for an        *)
(* Invocation, whatever servers, retries and crashes: startExecution and       *)
(* startRefund let one process through, and nothing lets a second one.         *)
EffectsClaimedOnce ==
    \A k \in Keys : calls[k] <= 1 /\ refundCalls[k] <= 1 /\ refundPaid[k] <= 1

(* Work is done for money only: an Invocation that reached its executor was    *)
(* paid on chain with the authorization its record names, which no other       *)
(* Invocation names.                                                           *)
ExecutedIsPaid ==
    \A k \in Keys : calls[k] > 0 =>
        /\ journal[k].ref # NoAuth
        /\ chain[journal[k].ref]
        /\ \A other \in Keys \ {k} : journal[other].ref # journal[k].ref

(* The signed revisions say what happened: the last one, when the record calls *)
(* it current, states its payment, and a refund supersedes at most one receipt *)
(* for a settlement.                                                           *)
ReceiptsFollowRecord ==
    \A k \in Keys :
        LET rec == journal[k] IN
        /\ rec.receipts \in {<<>>, <<"settled">>, <<"refunded">>, <<"settled", "refunded">>}
        /\ rec.receipt => rec.receipts # <<>> /\ rec.receipts[Len(rec.receipts)] = rec.payment
        /\ ~rec.receipt /\ rec.receipts # <<>> => rec.payment = "refunded"

(* The paywall's maps stay bounded: however requests overlap, a server tracks  *)
(* no more keys than its cap (activeKeyCount and maxPendingOffers).            *)
AdmissionBounded ==
    \A s \in Servers : Cardinality(ActiveKeys(s)) <= MaxPendingOffers

(* A settle request whose outcome is open is never repeated: the facilitator   *)
(* is asked again for an authorization only if its payment has been decided.   *)
(* "Never turn this ambiguity into a second settlement attempt."               *)
AmbiguityNeverResettles ==
    [][\A a \in Auths, k \in Keys :
          sends[a] > 0 /\ sends'[a] # sends[a] /\ journal[k].ref = a
             => journal[k].payment \notin {"signed", "unresolved"}]_vars

(* What the chain, the executor and the answers show of each Invocation is the *)
(* life PaidInvocation allows it: an Invocation whose finish was recorded but  *)
(* not answered still counts as running, and so does an interrupted one.       *)
Money(k) ==
    IF refundPaid[k] > 0 THEN "returned"
    ELSE IF journal[k].ref # NoAuth /\ chain[journal[k].ref] THEN "taken" ELSE "none"

Work(k) ==
    IF calls[k] = 0 THEN "none"
    ELSE IF delivered[k] THEN "delivered"
    ELSE IF journal[k].execution = "failed" THEN "failed" ELSE "running"

Promise == INSTANCE PaidInvocation WITH
    money <- [k \in Keys |-> Money(k)],
    work <- [k \in Keys |-> Work(k)]

ImplementsPaidInvocation == Promise!Spec

-----------------------------------------------------------------------------
(* Requests in flight proceed, external calls return or time out, operators    *)
(* ask again for what is unresolved and are told in the end what the chain     *)
(* shows, and a buyer with a settled payment retries it.                       *)
Proceed(s, k) ==
    \/ VerifyAnswered(s, k) \/ Consult(s, k) \/ ClaimSigned(s, k)
    \/ SettleUnknown(s, k) \/ SettleUnwritten(s, k) \/ StartExecution(s, k)

Fairness ==
    /\ \A s \in Servers, k \in Keys :
          /\ SF_vars(Proceed(s, k))
          /\ SF_vars(AskSettlement(s, k))
          /\ SF_vars(ResolveSettled(s, k))
          /\ \A a \in Auths : SF_vars(ClaimAuthorization(s, k, a))
    /\ WF_vars(Tick)

Spec == Init /\ [][Next]_vars
FairSpec == Spec /\ Fairness

(* A lost settle answer is found out: an unresolved payment that the chain     *)
(* shows is settled in the journal in the end (POST /reconcile/by-settlement). *)
UnresolvedIsReconciled ==
    \A k \in Keys :
        journal[k].payment = "unresolved" /\ chain[journal[k].ref]
            ~> journal[k].payment \in {"settled", "refunded"}

(* A payment that reached the journal as settled is worked on, although the    *)
(* server that took it crashed: the buyer's retry resumes it on any server.    *)
SettledIsExecuted ==
    \A k \in Keys :
        journal[k].payment = "settled" ~> journal[k].execution # "authorized"

=============================================================================
