---------------------------- MODULE SpendIntents ----------------------------
(***************************************************************************)
(* The Spend Intent repository of the Wallet Kernel (intent-builder.mjs):  *)
(* Spend Sessions, the enrollment they are bound to, and the life of one   *)
(* Spend Intent inside its session.  Other modules of the Kernel use the   *)
(* operators below as conjuncts of their own transactions, as the code     *)
(* calls captureIntentInTransaction, attachChallengeInTransaction and      *)
(* transitionInTransaction inside one SQLite transaction.                  *)
(*                                                                         *)
(* A Spend Intent is a member of Intents: the agent's exact request, so a  *)
(* second execute() of the same request finds the same intent.  One agent  *)
(* has at most one session that is not closed, so the sessions are the     *)
(* numbers 1..session and only the last one may be open.  'authorized' is  *)
(* entered and left inside one transaction and is never seen at rest.      *)
(***************************************************************************)
EXTENDS Integers, FiniteSets

CONSTANTS
    Intents,        \* the requests the agent may ask the Kernel to pay for
    MaxSessions     \* model bound: sessions ever opened

\* A ledger has finitely many rows, however many requests an agent makes.
ASSUME IntentsAssumption == IsFiniteSet(Intents)
ASSUME SessionsAssumption == MaxSessions \in Nat \ {0}

VARIABLES
    intent,         \* spend_intents.state
    sessionOf,      \* spend_intents.session_id (0: not captured)
    challengeAt,    \* spend_intents.challenge_received_at (-1: none attached)
    session,        \* number of the last Spend Session
    sessionState,   \* spend_sessions.state of that session
    enrolled        \* the enrollment is active (TRUE) or revoked

intentVars  == <<intent, sessionOf, challengeAt>>
sessionVars == <<session, sessionState, enrolled>>

NoTime == -1

IntentState == {"none", "captured", "challenged", "approval_pending", "reserved",
                "signing", "signed", "retrying", "unresolved", "terminal"}

SessionState == {"open", "policy_blocked", "closed"}

(***************************************************************************)
(* LEGAL_TRANSITIONS, with the 'authorized' row folded into the edges that *)
(* pass through it.                                                        *)
(***************************************************************************)
LegalNext(state) ==
    CASE state = "captured"         -> {"challenged", "terminal"}
      [] state = "challenged"       -> {"approval_pending", "reserved", "terminal"}
      [] state = "approval_pending" -> {"reserved", "terminal"}
      [] state = "reserved"         -> {"signing", "terminal"}
      [] state = "signing"          -> {"signed", "unresolved"}
      [] state = "signed"           -> {"retrying", "unresolved"}
      [] state = "retrying"         -> {"terminal", "unresolved"}
      [] state = "unresolved"       -> {"terminal"}
      [] OTHER                      -> {}

\* Slip: the session is not looked at again when signing is claimed.
AdvancesBudget == {"challenged", "approval_pending", "reserved"}

\* States a transition may enter only under a live session and enrollment.
AdvancesAuthority == {"challenged", "approval_pending", "reserved", "signing"}

\* loadSessionAuthority with requireActive, and session.state = 'open'.
SessionLive(s) == s = session /\ sessionState = "open" /\ enrolled

InSession(s) == {i \in Intents : intent[i] # "none" /\ sessionOf[i] = s}

SpendIntentsInit ==
    /\ intent = [i \in Intents |-> "none"]
    /\ sessionOf = [i \in Intents |-> 0]
    /\ challengeAt = [i \in Intents |-> NoTime]
    /\ session = 1
    /\ sessionState = "open"
    /\ enrolled = TRUE

(***************************************************************************)
(* capturePrepared: a new intent in the agent's open session.              *)
(***************************************************************************)
Capture(i) ==
    /\ SessionLive(session)
    /\ intent[i] = "none"
    /\ intent' = [intent EXCEPT ![i] = "captured"]
    /\ sessionOf' = [sessionOf EXCEPT ![i] = session]
    /\ UNCHANGED challengeAt

(***************************************************************************)
(* attachPrepared: the challenge of an intent is immutable.  An identical  *)
(* challenge, receipt time included, is accepted without a write.          *)
(***************************************************************************)
Attach(i, at) ==
    /\ SessionLive(sessionOf[i])
    /\ \/ /\ intent[i] = "captured"
          /\ intent' = [intent EXCEPT ![i] = "challenged"]
          /\ challengeAt' = [challengeAt EXCEPT ![i] = at]
       \/ /\ intent[i] # "captured"
          /\ challengeAt[i] = at
          /\ UNCHANGED <<intent, challengeAt>>
    /\ UNCHANGED sessionOf

(***************************************************************************)
(* captureIntentInTransaction, attachChallengeInTransaction and the move   *)
(* to approval_pending of a replacement intent, in one transaction.        *)
(***************************************************************************)
CaptureReplacement(i, j, at) ==
    /\ SessionLive(sessionOf[i])
    /\ intent[j] = "none"
    /\ intent' = [intent EXCEPT ![i] = "terminal", ![j] = "approval_pending"]
    /\ sessionOf' = [sessionOf EXCEPT ![j] = sessionOf[i]]
    /\ challengeAt' = [challengeAt EXCEPT ![j] = at]

\* Slip: the update is not conditional on the expected state.
CanTransitionBlindly(i, from, to) ==
    /\ to \in LegalNext(from)
    /\ to \in AdvancesAuthority => SessionLive(sessionOf[i])

\* transitionPrepared.
CanTransition(i, from, to) ==
    /\ intent[i] = from
    /\ to \in LegalNext(from)
    /\ to \in AdvancesAuthority => SessionLive(sessionOf[i])

Transition(i, from, to) ==
    /\ CanTransition(i, from, to)
    /\ intent' = [intent EXCEPT ![i] = to]
    /\ UNCHANGED <<sessionOf, challengeAt>>

\* terminateSessionIntentsInTransaction moves each of them to 'terminal'.
TerminateAll(S) ==
    /\ intent' = [i \in Intents |-> IF i \in S THEN "terminal" ELSE intent[i]]
    /\ UNCHANGED <<sessionOf, challengeAt>>

\* closeBoundSessionInTransaction.
CloseLast ==
    /\ sessionState # "closed"
    /\ sessionState' = "closed"
    /\ UNCHANGED <<session, enrolled>>

\* transitionBlockedSessionInTransaction: close and replace the session.
ReplaceLast ==
    /\ enrolled
    /\ sessionState = "policy_blocked"
    /\ session < MaxSessions
    /\ session' = session + 1
    /\ sessionState' = "open"
    /\ UNCHANGED enrolled

\* openOrResumeSession at startup: a closed session is followed by a new one.
OpenOrResume ==
    /\ IF sessionState = "closed" /\ session < MaxSessions
       THEN session' = session + 1 /\ sessionState' = "open"
       ELSE UNCHANGED <<session, sessionState>>
    /\ UNCHANGED enrolled

\* policies.apply blocks the open session: its policy is no longer active.
BlockSession ==
    /\ sessionState = "open"
    /\ sessionState' = "policy_blocked"
    /\ UNCHANGED <<session, enrolled>>

\* enrollments.revoke.
Revoke ==
    /\ enrolled
    /\ enrolled' = FALSE
    /\ UNCHANGED <<session, sessionState>>

SpendIntentsTypeOK ==
    /\ intent \in [Intents -> IntentState]
    /\ sessionOf \in [Intents -> 0..MaxSessions]
    /\ challengeAt \in [Intents -> Int]
    /\ session \in 1..MaxSessions
    /\ sessionState \in SessionState
    /\ enrolled \in BOOLEAN
=============================================================================
