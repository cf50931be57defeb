-------------------------- MODULE Reconciler_proofs --------------------------
(***************************************************************************)
(* What reconciliation keeps for every set of intents, transactions and    *)
(* operators: holds follow the chain, one transfer resolves one thing,     *)
(* closed rows and entries stay, and a receipt that is behind stops        *)
(* everything.                                                             *)
(*                                                                         *)
(* Inv says where in its life each intent is (Stage), that what the rows   *)
(* name is what the chain shows (OnChain, Settled, Returned), and, of a    *)
(* request between its two leases, that the row it asks about is one of    *)
(* the case it is bound to (Asks).  Lease 2 compares that case with the    *)
(* current one, so the row is still there: it is why no history of other   *)
(* operators between the leases needs to be considered.                    *)
(***************************************************************************)
EXTENDS Reconciler, TLAPS, FiniteSetTheorems, SequenceTheorems

\* The columns of an intent in each stage of its life.
At(i, int, att, bud, out, exe, res) ==
    /\ intent[i] = int /\ attempt[i] = att /\ budget[i] = bud
    /\ outcome[i] = out /\ execution[i] = exe /\ resolution[i] = res

Stage(i) ==
    \/ At(i, "executing", "retrying", "reserved", "none", "none", "none")
    \/ At(i, "unresolved", "unresolved", "unresolved", "payment_unresolved", "none", "none")
    \/ At(i, "terminal", "rejected", "released", "payment_rejected", "none", "none")
    \/ At(i, "terminal", "settled", "committed", "execution_unknown", "unknown",
          "reconciliation_required")
    \/ At(i, "terminal", "settled", "committed", "completed", "succeeded", "none")
    \/ At(i, "terminal", "settled", "committed", "completed", "succeeded", "resolved")
    \/ At(i, "terminal", "settled", "committed", "execution_failed", "failed", "refund_pending")
    \/ At(i, "terminal", "settled", "released", "refunded", "failed", "resolved")

\* The chain uses an authorization once, and one transaction uses one authorization.
OnChain ==
    /\ \A i \in Intents : payment[i] # NoTransaction =>
          payment[i] \in Transactions /\ mined[payment[i]] = "payment" /\ ~expired[i]
    /\ \A i, j \in Intents : payment[i] = payment[j] /\ payment[i] # NoTransaction => i = j

\* What was resolved is what the chain shows.
Settled ==
    \A i \in Intents :
        /\ attempt[i] = "settled" => settledBy[i] = payment[i] /\ payment[i] \in Transactions
        /\ attempt[i] # "settled" => settledBy[i] = NoTransaction
        /\ attempt[i] = "rejected" => expired[i]

\* Tables of sequences.
IsFcn(f) == f = [x \in DOMAIN f |-> f[x]]

Table(f) ==
    /\ IsFcn(f) /\ DOMAIN f = Intents
    /\ \A i \in Intents : \E S : f[i] \in Seq(S)

IsRow(r) ==
    /\ {"tx", "state"} \subseteq DOMAIN r
    /\ [tx |-> r.tx, state |-> r.state] \in Row

RowTable(f) == Table(f) /\ \A i \in Intents : \A k \in DOMAIN f[i] : IsRow(f[i][k])

Tables == RowTable(candidates) /\ RowTable(refunds) /\ Table(history)

\* A confirmed refund is a refund on chain, and no other row's.
Returned ==
    /\ \A i \in Intents : \A k \in ConfirmedRefunds(i) :
          refunds[i][k].tx \in Transactions /\ mined[refunds[i][k].tx] = "refund"
    /\ \A i, j \in Intents : \A k \in ConfirmedRefunds(i), n \in ConfirmedRefunds(j) :
          refunds[i][k].tx = refunds[j][n].tx => i = j /\ k = n

\* At most one receipt is missing, by one revision, and then nothing is admitted.
Receipted ==
    /\ authority = "ready" => ParityHolds
    /\ \A i \in Intents : receipts[i] # revision[i] => revision[i] = receipts[i] + 1
    /\ \A i, j \in Intents : receipts[i] # revision[i] /\ receipts[j] # revision[j] => i = j

Kinds == {"payment", "execution", "refund"}

\* A request is about an intent; one that waits for an answer asks about a row of
\* the case it is bound to.
Asks(r) ==
    /\ "phase" \in DOMAIN r
    /\ r.phase \in {"shown", "asked"} => r.intent \in Intents /\ r.kind \in Kinds
    /\ r.phase = "asked" /\ r.kind = "payment" =>
          r.row = 0 \/ r.row \in DOMAIN r.bound.rows
    /\ r.phase = "asked" /\ r.kind = "refund" =>
          /\ r.row \in DOMAIN r.bound.rows
          /\ r.bound.rows[r.row].tx # NoTransaction

Requests ==
    /\ request = [o \in Operators |-> request[o]]
    /\ \A o \in Operators : Asks(request[o])

Inv ==
    /\ ColumnsTyped
    /\ ChainTyped
    /\ \A i \in Intents : Stage(i)
    /\ OnChain
    /\ Settled
    /\ Tables
    /\ Returned
    /\ Receipted
    /\ Requests

-----------------------------------------------------------------------------
(* Sequences, whatever their elements are.                                     *)

\* A sequence with another element at the end.
LEMMA Appended ==
    ASSUME NEW S, NEW seq \in Seq(S), NEW x
    PROVE  /\ \E T : Append(seq, x) \in Seq(T)
           /\ Len(seq) \in Nat /\ DOMAIN seq = 1..Len(seq)
           /\ Len(Append(seq, x)) = Len(seq) + 1
           /\ DOMAIN Append(seq, x) = 1..(Len(seq) + 1)
           /\ \A n \in 1..Len(seq) : Append(seq, x)[n] = seq[n]
           /\ Append(seq, x)[Len(seq) + 1] = x
           /\ SubSeq(Append(seq, x), 1, Len(seq)) = seq
<1> DEFINE T == S \cup {x}
<1>1. Len(seq) \in Nat /\ seq \in [1..Len(seq) -> S] /\ DOMAIN seq = 1..Len(seq)
  BY LenProperties
<1>2. seq \in [1..Len(seq) -> T]
  BY <1>1
<1>3. seq \in Seq(T)
  BY <1>1, <1>2, SeqDef
<1>4. Append(seq, x) \in Seq(T)
  BY <1>3, AppendProperties
<1>5. /\ Len(Append(seq, x)) = Len(seq) + 1
      /\ \A n \in 1..Len(seq) : Append(seq, x)[n] = seq[n]
      /\ Append(seq, x)[Len(seq) + 1] = x
  BY <1>3, AppendProperties
<1>6. DOMAIN Append(seq, x) = 1..(Len(seq) + 1)
  BY <1>4, <1>5, LenProperties
<1>7. SubSeq(Append(seq, x), 1, Len(seq)) = seq
  <2> DEFINE sub == SubSeq(Append(seq, x), 1, Len(seq))
  <2>1. \A n \in 1..Len(seq) : Append(seq, x)[n] \in T
    BY <1>1, <1>2, <1>5
  <2>2. /\ sub \in Seq(T) /\ Len(sub) = Len(seq)
        /\ \A n \in 1..Len(seq) : sub[n] = Append(seq, x)[n]
    BY <1>1, <2>1, SubSeqProperties
  <2> HIDE DEF sub
  <2>3. sub = seq
    BY <1>3, <1>5, <2>2, SeqEqual
  <2> QED BY <2>3 DEF sub
<1> QED
  BY <1>1, <1>4, <1>5, <1>6, <1>7

\* A function on the indexes of a sequence is a sequence.
LEMMA Remade ==
    ASSUME NEW S, NEW seq \in Seq(S), NEW f, IsFcn(f), DOMAIN f = DOMAIN seq
    PROVE  \E T : f \in Seq(T)
<1> DEFINE T == {f[n] : n \in DOMAIN seq}
<1>1. Len(seq) \in Nat /\ DOMAIN seq = 1..Len(seq)
  BY LenProperties
<1>2. f \in [1..Len(seq) -> T]
  BY <1>1 DEF IsFcn
<1>3. f \in Seq(T)
  BY <1>1, <1>2, SeqDef
<1> QED BY <1>3

\* The rows of a table are sequences.
LEMMA RowIndexes ==
    ASSUME NEW f, Table(f), NEW i \in Intents
    PROVE  Len(f[i]) \in Nat /\ DOMAIN f[i] = 1..Len(f[i])
<1>1. PICK S : f[i] \in Seq(S)
  BY DEF Table
<1> QED BY <1>1, LenProperties

\* One more element in a sequence of a table.
LEMMA TableAppend ==
    ASSUME NEW f, Table(f), NEW i \in Intents, NEW x, NEW g,
           IsFcn(g), DOMAIN g = Intents, g[i] = Append(f[i], x),
           \A j \in Intents \ {i} : g[j] = f[j]
    PROVE  /\ Table(g)
           /\ Len(f[i]) \in Nat /\ DOMAIN f[i] = 1..Len(f[i])
           /\ Len(g[i]) = Len(f[i]) + 1 /\ DOMAIN g[i] = 1..(Len(f[i]) + 1)
           /\ \A n \in DOMAIN f[i] : g[i][n] = f[i][n]
           /\ g[i][Len(f[i]) + 1] = x
           /\ SubSeq(g[i], 1, Len(f[i])) = f[i]
<1> DEFINE a == Append(f[i], x)
<1>1. PICK S : f[i] \in Seq(S)
  BY DEF Table
<1>2. /\ \E T : a \in Seq(T)
      /\ Len(f[i]) \in Nat /\ DOMAIN f[i] = 1..Len(f[i])
      /\ Len(a) = Len(f[i]) + 1
      /\ DOMAIN a = 1..(Len(f[i]) + 1)
      /\ \A n \in 1..Len(f[i]) : a[n] = f[i][n]
      /\ a[Len(f[i]) + 1] = x
      /\ SubSeq(a, 1, Len(f[i])) = f[i]
  BY <1>1, Appended
<1>3. g[i] = a
  OBVIOUS
<1> HIDE DEF a
<1>4. Table(g)
  BY <1>2, <1>3 DEF Table
<1> QED BY <1>2, <1>3, <1>4

\* One more row.
LEMMA RowAdded ==
    ASSUME NEW f, RowTable(f), NEW i \in Intents, NEW x, IsRow(x), NEW g,
           IsFcn(g), DOMAIN g = Intents, g[i] = Append(f[i], x),
           \A j \in Intents \ {i} : g[j] = f[j]
    PROVE  RowTable(g)
<1>1. Table(f)
  BY DEF RowTable
<1>2. /\ Table(g)
      /\ Len(f[i]) \in Nat /\ DOMAIN f[i] = 1..Len(f[i])
      /\ DOMAIN g[i] = 1..(Len(f[i]) + 1)
      /\ \A n \in DOMAIN f[i] : g[i][n] = f[i][n]
      /\ g[i][Len(f[i]) + 1] = x
  BY <1>1, TableAppend
<1>3. \A n \in DOMAIN g[i] : n \in DOMAIN f[i] \/ n = Len(f[i]) + 1
  BY <1>2
<1>4. \A n \in DOMAIN g[i] : IsRow(g[i][n])
  BY <1>2, <1>3 DEF RowTable
<1> QED BY <1>2, <1>4 DEF RowTable

\* The rows of one intent made anew, index by index.
LEMMA RowsRemade ==
    ASSUME NEW f, RowTable(f), NEW i \in Intents, NEW g,
           IsFcn(g), DOMAIN g = Intents, IsFcn(g[i]), DOMAIN g[i] = DOMAIN f[i],
           \A n \in DOMAIN f[i] : g[i][n] = f[i][n] \/ IsRow(g[i][n]),
           \A j \in Intents \ {i} : g[j] = f[j]
    PROVE  RowTable(g)
<1>1. PICK S : f[i] \in Seq(S)
  BY DEF Table, RowTable
<1>2. \E T : g[i] \in Seq(T)
  BY <1>1, Remade
<1>3. Table(g)
  BY <1>2 DEF Table, RowTable
<1>4. \A j \in Intents : \A n \in DOMAIN g[j] : IsRow(g[j][n])
  BY DEF RowTable
<1> QED BY <1>3, <1>4 DEF RowTable

\* Tables of rows have the rows the type invariant asks for.
LEMMA RowsTyped ==
    ASSUME NEW f, RowTable(f), NEW g, RowTable(g)
    PROVE  \A i \in Intents : \A row \in Range(f[i]) \cup Range(g[i]) :
              [tx |-> row.tx, state |-> row.state] \in Row
BY DEF RowTable, IsRow, Range

-----------------------------------------------------------------------------
(* The actions, one lemma for each kind of them.                               *)

\* The initial state.
LEMMA InvInit == Init => Inv
<1> SUFFICES ASSUME Init PROVE Inv
  OBVIOUS
<1>1. ColumnsTyped
  BY ReconcilerAssumption DEF Init, ColumnsTyped, Held
<1>2. ChainTyped
  BY DEF Init, ChainTyped
<1>3. \A i \in Intents : Stage(i)
  BY DEF Init, Stage, At
<1>4. OnChain /\ Settled
  BY ReconcilerAssumption DEF Init, OnChain, Settled
<1>5. << >> \in Seq({}) /\ DOMAIN << >> = {}
  OBVIOUS
<1>6. Tables
  BY <1>5 DEF Init, Tables, RowTable, Table, IsFcn
<1>7. Returned
  BY <1>5 DEF Init, Returned, ConfirmedRefunds
<1>8. Receipted
  BY DEF Init, Receipted, ParityHolds
<1>9. Requests
  BY DEF Init, Requests, Asks, Idle
<1> QED BY <1>1, <1>2, <1>3, <1>4, <1>6, <1>7, <1>8, <1>9 DEF Inv

\* A request changes.
LEMMA RequestSet ==
    ASSUME Requests, NEW o \in Operators, NEW r, Asks(r),
           request' = [request EXCEPT ![o] = r]
    PROVE  Requests'
<1>1. \A p \in Operators : request'[p] = IF p = o THEN r ELSE request[p]
  BY DEF Requests
<1>2. request' = [p \in Operators |-> request'[p]]
  BY DEF Requests
<1> QED BY <1>1, <1>2 DEF Requests

\* What happens on the chain.
LEMMA InvChain ==
    ASSUME Inv, ChainStep
    PROVE  Inv'
<1>1. UNCHANGED <<caseVars, processVars, request>>
  BY DEF ChainStep, Expire, MinePayment, MineOther
<1>2. /\ ColumnsTyped' /\ Tables' /\ Receipted' /\ Requests'
      /\ \A i \in Intents : Stage(i)'
  BY <1>1 DEF Inv, ColumnsTyped, Tables, Receipted, ParityHolds, Requests, Stage, At,
              caseVars, processVars, holdVars, effectVars, outcomeVars, rowVars
<1>3. UNCHANGED <<attempt, settledBy, refunds>>
  BY <1>1 DEF caseVars, holdVars, rowVars
<1>4. CASE \E i \in Intents : Expire(i)
  <2>1. PICK i \in Intents : Expire(i)
    BY <1>4
  <2>2. ChainTyped' /\ OnChain' /\ Settled'
    BY <1>3, <2>1 DEF Expire, Inv, ChainTyped, OnChain, Settled
  <2>3. Returned'
    BY <1>3, <2>1 DEF Expire, Inv, Returned, ConfirmedRefunds
  <2> QED BY <1>2, <2>2, <2>3 DEF Inv
<1>5. CASE \E i \in Intents, t \in Transactions : MinePayment(i, t)
  <2>1. PICK i \in Intents, t \in Transactions : MinePayment(i, t)
    BY <1>5
  <2>2. ChainTyped' /\ OnChain'
    BY <2>1, ReconcilerAssumption DEF MinePayment, Inv, ChainTyped, OnChain
  <2>3. Settled'
    BY <1>3, <2>1, ReconcilerAssumption DEF MinePayment, Inv, ChainTyped, Settled
  <2>4. Returned'
    BY <1>3, <2>1 DEF MinePayment, Inv, ChainTyped, Returned, ConfirmedRefunds
  <2> QED BY <1>2, <2>2, <2>3, <2>4 DEF Inv
<1>6. CASE \E t \in Transactions, what \in {"refund", "other"} : MineOther(t, what)
  <2>1. PICK t \in Transactions, what \in {"refund", "other"} : MineOther(t, what)
    BY <1>6
  <2>2. ChainTyped' /\ OnChain'
    BY <2>1, ReconcilerAssumption DEF MineOther, Inv, ChainTyped, OnChain
  <2>3. Settled'
    BY <1>3, <2>1 DEF MineOther, Inv, Settled
  <2>4. Returned'
    BY <1>3, <2>1 DEF MineOther, Inv, ChainTyped, Returned, ConfirmedRefunds
  <2> QED BY <1>2, <2>2, <2>3, <2>4 DEF Inv
<1> QED BY <1>4, <1>5, <1>6 DEF ChainStep

\* The Kernel commits a payment by itself.
LEMMA InvCommit ==
    ASSUME Inv, NEW i \in Intents, CommitSettlement(i)
    PROVE  Inv'
<1>1. Stage(i) /\ ColumnsTyped /\ ChainTyped /\ OnChain /\ Settled /\ Receipted
  BY DEF Inv
<1>2. At(i, "executing", "retrying", "reserved", "none", "none", "none")
  BY <1>1 DEF Stage, At, CommitSettlement
<1>3. ColumnsTyped' /\ ChainTyped'
  BY <1>1 DEF CommitSettlement, ColumnsTyped, ChainTyped, processVars, chainVars
<1>4. \A j \in Intents : Stage(j)'
  BY <1>2 DEF Inv, CommitSettlement, Stage, At, ColumnsTyped
<1>5. OnChain'
  BY DEF Inv, CommitSettlement, OnChain, chainVars
<1>6. Settled'
  BY <1>1 DEF CommitSettlement, Settled, ColumnsTyped, ChainTyped, chainVars
<1>7. Tables' /\ Returned'
  BY DEF Inv, CommitSettlement, Tables, Returned, ConfirmedRefunds, rowVars, chainVars
<1>8. Receipted'
  BY <1>1 DEF CommitSettlement, Receipted, ParityHolds, ColumnsTyped
<1>9. Requests'
  BY DEF Inv, CommitSettlement, Requests
<1> QED BY <1>3, <1>4, <1>5, <1>6, <1>7, <1>8, <1>9 DEF Inv

\* It stops, or does not start: nothing is admitted.
LEMMA InvStops ==
    ASSUME Inv, UNCHANGED <<caseVars, faults, request, chainVars>>,
           authority' \in {"unhealthy", "refused"}
    PROVE  Inv'
<1>1. /\ ChainTyped' /\ OnChain' /\ Settled' /\ Tables' /\ Returned' /\ Requests'
      /\ \A i \in Intents : Stage(i)'
  BY DEF Inv, ChainTyped, OnChain, Settled, Tables, Returned, ConfirmedRefunds, Stage, At,
         Requests, caseVars, holdVars, effectVars, outcomeVars, rowVars, chainVars
<1>2. ColumnsTyped' /\ Receipted'
  BY DEF Inv, ColumnsTyped, Receipted, caseVars, holdVars, effectVars, outcomeVars
<1> QED BY <1>1, <1>2 DEF Inv

\* What holding payments in flight as unresolved keeps.
LEMMA HoldKeeps ==
    ASSUME Inv, NEW S \in SUBSET {i \in Intents : attempt[i] = "retrying"}, HoldUnresolved(S)
    PROVE  /\ ChainTyped' /\ OnChain' /\ Settled' /\ Tables' /\ Returned'
           /\ \A i \in Intents : Stage(i)'
           /\ intent' \in [Intents -> {"executing", "unresolved", "terminal"}]
           /\ attempt' \in [Intents -> {"retrying", "unresolved", "settled", "rejected"}]
           /\ budget' \in [Intents -> {"reserved", "unresolved", "committed", "released"}]
           /\ outcome' \in [Intents -> {"none", "payment_unresolved", "execution_unknown",
                                "completed", "payment_rejected", "execution_failed", "refunded"}]
           /\ revision' \in [Intents -> Nat]
           /\ UNCHANGED <<settledBy, execution, resolution>>
<1>1. ColumnsTyped /\ ChainTyped /\ OnChain /\ Settled
  BY DEF Inv
<1>2. UNCHANGED <<settledBy, execution, resolution, candidates, refunds, history, mined,
                  payment, expired>>
  BY DEF HoldUnresolved, effectVars, rowVars, chainVars
<1>3. ChainTyped' /\ OnChain' /\ Tables' /\ Returned'
  BY <1>2 DEF Inv, ChainTyped, OnChain, Tables, Returned, ConfirmedRefunds
<1>4. Settled'
  BY <1>1, <1>2 DEF HoldUnresolved, Settled
<1>5. \A i \in Intents : Stage(i)'
  <2> SUFFICES ASSUME NEW i \in Intents PROVE Stage(i)'
    OBVIOUS
  <2>1. CASE i \in S
    <3>1. At(i, "executing", "retrying", "reserved", "none", "none", "none")
      BY <2>1 DEF Inv, Stage, At
    <3> QED BY <1>2, <2>1, <3>1 DEF HoldUnresolved, Stage, At
  <2>2. CASE i \notin S
    <3>1. Stage(i)
      BY DEF Inv
    <3> QED BY <1>2, <2>2, <3>1 DEF HoldUnresolved, Stage, At
  <2> QED BY <2>1, <2>2
<1>6. /\ intent' \in [Intents -> {"executing", "unresolved", "terminal"}]
      /\ attempt' \in [Intents -> {"retrying", "unresolved", "settled", "rejected"}]
      /\ budget' \in [Intents -> {"reserved", "unresolved", "committed", "released"}]
  BY <1>1 DEF HoldUnresolved, ColumnsTyped
<1>7. /\ outcome' \in [Intents -> {"none", "payment_unresolved", "execution_unknown",
                                "completed", "payment_rejected", "execution_failed", "refunded"}]
      /\ revision' \in [Intents -> Nat]
  BY <1>1 DEF HoldUnresolved, ColumnsTyped
<1> QED BY <1>2, <1>3, <1>4, <1>5, <1>6, <1>7

\* The paid response of one intent is lost.
LEMMA InvLose ==
    ASSUME Inv, NEW i \in Intents, LoseResponse(i)
    PROVE  Inv'
<1>1. HoldUnresolved({i}) /\ {i} \in SUBSET {j \in Intents : attempt[j] = "retrying"}
  BY DEF LoseResponse
<1>2. Inv /\ ColumnsTyped /\ Receipted
  BY DEF Inv
<1>3. receipts' \in [Intents -> Nat] /\ UNCHANGED <<authority, faults, request>>
  BY <1>2 DEF LoseResponse, ColumnsTyped, processVars
<1>4. ColumnsTyped'
  BY <1>1, <1>2, <1>3, HoldKeeps DEF ColumnsTyped
<1>5. Receipted'
  BY <1>2 DEF LoseResponse, HoldUnresolved, Receipted, ParityHolds, ColumnsTyped
<1>6. Requests'
  BY <1>3 DEF Inv, Requests
<1> QED BY <1>1, <1>2, <1>4, <1>5, <1>6, HoldKeeps DEF Inv

\* Crash, restart and a startup that is refused.
LEMMA InvProcess ==
    ASSUME Inv, Crash \/ Restart \/ RefuseStart
    PROVE  Inv'
<1>1. CASE Crash
  <2>1. UNCHANGED <<caseVars, chainVars>>
    BY <1>1 DEF Crash
  <2>2. /\ ChainTyped' /\ OnChain' /\ Settled' /\ Tables' /\ Returned'
        /\ \A i \in Intents : Stage(i)'
    BY <2>1 DEF Inv, ChainTyped, OnChain, Settled, Tables, Returned, ConfirmedRefunds, Stage,
                At, caseVars, holdVars, effectVars, outcomeVars, rowVars, chainVars
  <2>3. ColumnsTyped'
    BY <1>1, <2>1, ReconcilerAssumption
       DEF Crash, Inv, ColumnsTyped, caseVars, holdVars, effectVars, outcomeVars
  <2>4. Receipted'
    BY <1>1, <2>1 DEF Crash, Inv, Receipted, caseVars, outcomeVars
  <2>5. Requests'
    BY <1>1 DEF Crash, Requests, Asks, Idle
  <2> QED BY <2>2, <2>3, <2>4, <2>5 DEF Inv
<1>2. CASE Restart
  <2> DEFINE S == {i \in Intents : attempt[i] = "retrying"}
  <2>1. HoldUnresolved(S) /\ S \in SUBSET {i \in Intents : attempt[i] = "retrying"}
    BY <1>2 DEF Restart
  <2>2. receipts' = revision' /\ authority' = "ready" /\ UNCHANGED <<faults, request>>
    BY <1>2 DEF Restart
  <2>3. ColumnsTyped'
    BY <2>1, <2>2, HoldKeeps DEF Inv, ColumnsTyped
  <2>4. Receipted'
    BY <2>2 DEF Receipted, ParityHolds
  <2>5. Requests'
    BY <2>2 DEF Inv, Requests
  <2> QED BY <2>1, <2>3, <2>4, <2>5, HoldKeeps DEF Inv
<1>3. CASE RefuseStart
  BY <1>3, InvStops DEF RefuseStart
<1> QED BY <1>1, <1>2, <1>3

\* A step that writes nothing but the request of an operator.
LEMMA InvReadOnly ==
    ASSUME Inv, UNCHANGED <<caseVars, processVars, chainVars>>, Requests'
    PROVE  Inv'
<1>1. /\ ChainTyped' /\ OnChain' /\ Settled' /\ Tables' /\ Returned'
      /\ \A i \in Intents : Stage(i)'
  BY DEF Inv, ChainTyped, OnChain, Settled, Tables, Returned, ConfirmedRefunds, Stage, At,
         caseVars, holdVars, effectVars, outcomeVars, rowVars, chainVars
<1>2. ColumnsTyped' /\ Receipted'
  BY DEF Inv, ColumnsTyped, Receipted, ParityHolds, caseVars, holdVars, effectVars, outcomeVars,
         processVars
<1> QED BY <1>1, <1>2 DEF Inv

\* The rows a case hash covers are those of the table.
LEMMA ShownRows ==
    ASSUME NEW rows
    PROVE  /\ DOMAIN Shown(rows) = DOMAIN rows
           /\ \A k \in DOMAIN rows : Shown(rows)[k].tx = rows[k].tx
BY DEF Shown

\* The rows of the case of an intent.
LEMMA CaseRows ==
    ASSUME NEW i \in Intents
    PROVE  /\ PaymentCase(i).rows = Shown(candidates[i])
           /\ RefundCase(i).rows = Shown(refunds[i])
BY DEF PaymentCase, PaymentCaseOf, RefundCase, RefundCaseOf

\* The open row, where there is one.
LEMMA OpenRowThere ==
    ASSUME NEW rows, HasOpen(rows)
    PROVE  OpenIndex(rows) \in DOMAIN rows /\ rows[OpenIndex(rows)].state \in Open
BY DEF HasOpen, OpenIndex, OpenIndexes

\* The first lease that names nothing, and everything an operator only reads.
LEMMA InvRead ==
    ASSUME Inv, NEW o \in Operators,
           \/ \E i \in Intents, kind \in Kinds : Display(o, i, kind)
           \/ PreparePayment(o) \/ PrepareExecution(o) \/ PrepareRefund(o)
           \/ Refuse(o) \/ RefuseUnsigned(o) \/ LearnNothing(o)
           \/ Repetition(o)
    PROVE  Inv' /\ UNCHANGED <<caseVars, processVars, chainVars>>
<1>1. UNCHANGED <<caseVars, processVars, chainVars>>
  BY DEF Display, PreparePayment, PrepareExecution, PrepareRefund, Refuse, RefuseUnsigned,
         LearnNothing, Repetition, Repeat, RepeatAnswered, RepeatRefused, RepeatNamed
<1>2. Requests /\ Asks(request[o])
  BY DEF Inv, Requests
<1>3. CASE \E i \in Intents, kind \in Kinds : Display(o, i, kind)
  <2>1. PICK i \in Intents, kind \in Kinds : Display(o, i, kind)
    BY <1>3
  <2> DEFINE r == [phase |-> "shown", intent |-> i, kind |-> kind, case |-> CaseOf(kind, i)]
  <2>2. Asks(r) /\ request' = [request EXCEPT ![o] = r]
    BY <2>1 DEF Display, Asks
  <2> QED BY <1>1, <1>2, <2>2, RequestSet, InvReadOnly
<1>4. ASSUME NEW k, NEW bound, Ask(o, k, bound), request[o].phase = "shown",
             \/ request[o].kind = "payment" /\ (k = 0 \/ k \in DOMAIN bound.rows)
             \/ request[o].kind = "execution"
             \/ /\ request[o].kind = "refund"
                /\ k \in DOMAIN bound.rows /\ bound.rows[k].tx # NoTransaction
      PROVE  Inv'
  <2> DEFINE r == [phase |-> "asked", intent |-> request[o].intent, kind |-> request[o].kind,
                   case |-> request[o].case, row |-> k, bound |-> bound]
  <2>1. Asks(r)
    BY <1>2, <1>4 DEF Asks
  <2>2. request' = [request EXCEPT ![o] = r]
    BY <1>4 DEF Ask
  <2> QED BY <1>1, <1>2, <2>1, <2>2, RequestSet, InvReadOnly
<1>5. CASE PreparePayment(o)
  <2> DEFINE i == request[o].intent
  <2>1. /\ request[o].phase = "shown" /\ request[o].kind = "payment"
        /\ i \in Intents
    BY <1>2, <1>5 DEF PreparePayment, Submits, Asks
  <2>2. CASE Ask(o, 0, PaymentCase(i))
    BY <1>1, <1>4, <2>1, <2>2
  <2>3. CASE HasOpen(candidates[i]) /\ Ask(o, OpenIndex(candidates[i]), PaymentCase(i))
    <3>1. OpenIndex(candidates[i]) \in DOMAIN PaymentCase(i).rows
      BY <2>1, <2>3, OpenRowThere, CaseRows, ShownRows
    <3> QED BY <1>1, <1>4, <2>1, <2>3, <3>1
  <2> QED BY <1>5, <2>2, <2>3 DEF PreparePayment
<1>6. CASE PrepareExecution(o)
  BY <1>1, <1>4, <1>6 DEF PrepareExecution, Submits
<1>7. CASE PrepareRefund(o)
  <2> DEFINE i == request[o].intent
             k == OpenIndex(refunds[i])
  <2>1. /\ request[o].phase = "shown" /\ request[o].kind = "refund"
        /\ i \in Intents
        /\ HasOpen(refunds[i]) /\ refunds[i][k].tx # NoTransaction
        /\ Ask(o, k, RefundCase(i))
    BY <1>2, <1>7 DEF PrepareRefund, Submits, Asks
  <2>2. k \in DOMAIN refunds[i]
    BY <2>1, OpenRowThere
  <2>3. k \in DOMAIN RefundCase(i).rows /\ RefundCase(i).rows[k].tx # NoTransaction
    <3> HIDE DEF k
    <3> QED BY <2>1, <2>2, CaseRows, ShownRows
  <2> QED BY <1>1, <1>4, <2>1, <2>3
<1>8. CASE Refuse(o) \/ LearnNothing(o) \/ RepeatRefused(o)
  <2>1. Asks(Idle) /\ request' = [request EXCEPT ![o] = Idle]
    BY <1>8 DEF Refuse, LearnNothing, RepeatRefused, EndRequest, Idle, Asks
  <2> QED BY <1>1, <1>2, <2>1, RequestSet, InvReadOnly
<1>9. CASE RefuseUnsigned(o) \/ \E i \in Intents : RepeatNamed(o, i)
  <2> DEFINE r == [phase |-> "corrupt"]
  <2>1. Asks(r) /\ request' = [request EXCEPT ![o] = r]
    BY <1>9 DEF RefuseUnsigned, RepeatNamed, Asks
  <2> QED BY <1>1, <1>2, <2>1, RequestSet, InvReadOnly
<1>10. CASE RepeatAnswered(o)
  <2> DEFINE r == [request[o] EXCEPT !.phase = "replayed"]
  <2>1. request' = [request EXCEPT ![o] = r]
    BY <1>10 DEF RepeatAnswered
  <2>2. "phase" \in DOMAIN r /\ r.phase = "replayed"
    BY <1>2 DEF Asks
  <2>3. Asks(r)
    BY <2>2 DEF Asks
  <2> QED BY <1>1, <1>2, <2>1, <2>3, RequestSet, InvReadOnly
<1>11. CASE \E i \in Intents : \E k \in DOMAIN history[i] : Repeat(o, i, k)
  <2>0. PICK i \in Intents : \E k \in DOMAIN history[i] : Repeat(o, i, k)
    BY <1>11
  <2>1. PICK k \in DOMAIN history[i] : Repeat(o, i, k)
    BY <2>0
  <2> DEFINE r == [phase |-> "repeating", intent |-> i, entry |-> k]
  <2>2. Asks(r) /\ request' = [request EXCEPT ![o] = r]
    BY <2>1 DEF Repeat, Asks
  <2> QED BY <1>1, <1>2, <2>2, RequestSet, InvReadOnly
<1> QED
  BY <1>1, <1>3, <1>5, <1>6, <1>7, <1>8, <1>9, <1>10, <1>11 DEF Repetition

-----------------------------------------------------------------------------
(* Steps that write rows.                                                      *)

\* Closed rows stay as they are.
RowsStay(f, g) ==
    \A i \in Intents : \A k \in DOMAIN f[i] : Closed(f[i], k) =>
        k \in DOMAIN g[i] /\ g[i][k] = f[i][k]

\* No row becomes a confirmed one.
NoneConfirmed(f, g) ==
    \A i \in Intents : \A k \in DOMAIN g[i] : g[i][k].state = "confirmed" =>
        k \in DOMAIN f[i] /\ g[i][k] = f[i][k]

\* An operator is left with nothing to do.
LEMMA RequestEnds ==
    ASSUME Requests, NEW o \in Operators, EndRequest(o)
    PROVE  Requests'
<1>1. Asks(Idle) /\ request' = [request EXCEPT ![o] = Idle]
  BY DEF EndRequest, Idle, Asks
<1> QED BY <1>1, RequestSet

\* Rows in which none becomes confirmed keep what Returned says.
LEMMA ReturnedStays ==
    ASSUME Returned, NoneConfirmed(refunds, refunds'), UNCHANGED mined
    PROVE  Returned'
<1>1. \A i \in Intents : \A k \in ConfirmedRefunds(i)' :
          k \in ConfirmedRefunds(i) /\ refunds'[i][k] = refunds[i][k]
  BY DEF NoneConfirmed, ConfirmedRefunds
<1>2. ASSUME NEW i \in Intents, NEW k \in ConfirmedRefunds(i)'
      PROVE  refunds'[i][k].tx \in Transactions /\ mined'[refunds'[i][k].tx] = "refund"
  BY <1>1, <1>2 DEF Returned
<1>3. ASSUME NEW i \in Intents, NEW j \in Intents, NEW k \in ConfirmedRefunds(i)',
             NEW n \in ConfirmedRefunds(j)', refunds'[i][k].tx = refunds'[j][n].tx
      PROVE  i = j /\ k = n
  BY <1>1, <1>3 DEF Returned
<1> QED BY <1>2, <1>3 DEF Returned

\* A step that writes rows and a request.
LEMMA InvRows ==
    ASSUME Inv, UNCHANGED <<holdVars, effectVars, outcomeVars, history, processVars, chainVars>>,
           RowTable(candidates'), RowTable(refunds'), NoneConfirmed(refunds, refunds'), Requests'
    PROVE  Inv'
<1>1. /\ ChainTyped' /\ OnChain' /\ Settled' /\ ColumnsTyped' /\ Receipted'
      /\ \A i \in Intents : Stage(i)'
  BY DEF Inv, ChainTyped, OnChain, Settled, ColumnsTyped, Receipted, ParityHolds, Stage, At,
         holdVars, effectVars, outcomeVars, chainVars, processVars
<1>2. Returned'
  BY ReturnedStays DEF Inv, chainVars
<1>3. Tables'
  BY DEF Inv, Tables, RowTable, Table, IsFcn
<1> QED BY <1>1, <1>2, <1>3 DEF Inv

\* A row that is appended disturbs no other.
LEMMA AddedStays ==
    ASSUME NEW f, RowTable(f), NEW i \in Intents, NEW x, IsRow(x), x.state = "pending", NEW g,
           IsFcn(g), DOMAIN g = Intents, g[i] = Append(f[i], x),
           \A j \in Intents \ {i} : g[j] = f[j]
    PROVE  /\ RowTable(g) /\ RowsStay(f, g) /\ NoneConfirmed(f, g)
           /\ Len(f[i]) + 1 \in DOMAIN g[i] /\ g[i][Len(f[i]) + 1] = x
<1>1. Table(f) /\ RowTable(g)
  BY RowAdded DEF RowTable
<1>2. /\ Len(f[i]) \in Nat /\ DOMAIN f[i] = 1..Len(f[i])
      /\ DOMAIN g[i] = 1..(Len(f[i]) + 1)
      /\ \A n \in DOMAIN f[i] : g[i][n] = f[i][n]
      /\ g[i][Len(f[i]) + 1] = x
  BY <1>1, TableAppend
<1>3. DOMAIN f[i] \subseteq DOMAIN g[i] /\ Len(f[i]) + 1 \in DOMAIN g[i]
  BY <1>2
<1>4. \A n \in DOMAIN g[i] : n \in DOMAIN f[i] \/ g[i][n].state = "pending"
  BY <1>2
<1>5. RowsStay(f, g)
  BY <1>2, <1>3 DEF RowsStay
<1>6. NoneConfirmed(f, g)
  BY <1>2, <1>4 DEF NoneConfirmed
<1> QED BY <1>1, <1>2, <1>3, <1>5, <1>6

\* Nor does one that is written where an open row was.
LEMMA ChangedStays ==
    ASSUME NEW f, RowTable(f), NEW i \in Intents, NEW k \in DOMAIN f[i], f[i][k].state \in Open,
           NEW g, IsFcn(g), DOMAIN g = Intents, IsFcn(g[i]), DOMAIN g[i] = DOMAIN f[i],
           IsRow(g[i][k]), \A n \in DOMAIN f[i] \ {k} : g[i][n] = f[i][n],
           \A j \in Intents \ {i} : g[j] = f[j]
    PROVE  /\ RowTable(g) /\ RowsStay(f, g)
           /\ g[i][k].state # "confirmed" => NoneConfirmed(f, g)
<1>1. RowTable(g)
  BY RowsRemade
<1>2. RowsStay(f, g)
  BY DEF RowsStay, Closed
<1>3. g[i][k].state # "confirmed" => NoneConfirmed(f, g)
  BY DEF NoneConfirmed
<1> QED BY <1>1, <1>2, <1>3

\* A row with another state or transaction is a row.
LEMMA RowFields ==
    ASSUME NEW r, IsRow(r)
    PROVE  /\ r.tx \in Transactions \cup {NoTransaction}
           /\ r.state \in {"pending", "abandoned", "rejected", "confirmed"}
BY DEF IsRow, Row

\* A candidate is named.
LEMMA InvNamePayment ==
    ASSUME Inv, NEW o \in Operators, NEW t \in Transactions, NamePayment(o, t)
    PROVE  /\ Inv'
           /\ RowsStay(candidates, candidates')
           /\ UNCHANGED <<holdVars, effectVars, outcomeVars, refunds, history, processVars,
                          chainVars>>
<1> DEFINE i == request[o].intent
           x == OpenRow(t, PaymentCase(i))
           k == Len(candidates[i]) + 1
           bound == PaymentCaseOf(revision[i], Shown(candidates'[i]))
<1>1. Requests /\ Asks(request[o]) /\ RowTable(candidates) /\ RowTable(refunds)
  BY DEF Inv, Requests, Tables
<1>2. request[o].phase = "shown" /\ request[o].kind = "payment" /\ i \in Intents
  BY <1>1 DEF NamePayment, Submits, Asks
<1>3. /\ Ask(o, k, bound)
      /\ candidates' = [candidates EXCEPT ![i] = Append(candidates[i], x)]
      /\ UNCHANGED <<holdVars, effectVars, outcomeVars, refunds, history, processVars,
                     chainVars>>
  BY DEF NamePayment
<1>4. IsRow(x) /\ x.state = "pending"
  BY DEF OpenRow, IsRow, Row
<1> HIDE DEF x
<1>5. DOMAIN candidates = Intents
  BY <1>1 DEF RowTable, Table
<1>6. /\ IsFcn(candidates') /\ DOMAIN candidates' = Intents
      /\ candidates'[i] = Append(candidates[i], x)
      /\ \A j \in Intents \ {i} : candidates'[j] = candidates[j]
  BY <1>2, <1>3, <1>5 DEF IsFcn
<1>7. /\ RowTable(candidates') /\ RowsStay(candidates, candidates')
      /\ k \in DOMAIN candidates'[i]
  <2> DEFINE f == candidates
             g == candidates'
  <2>1. /\ RowTable(f) /\ i \in Intents /\ IsRow(x) /\ x.state = "pending"
        /\ IsFcn(g) /\ DOMAIN g = Intents /\ g[i] = Append(f[i], x)
        /\ \A j \in Intents \ {i} : g[j] = f[j]
    BY <1>1, <1>2, <1>4, <1>6
  <2> HIDE DEF f, g, i
  <2>2. /\ RowTable(g) /\ RowsStay(f, g)
        /\ Len(f[i]) + 1 \in DOMAIN g[i]
    BY <2>1, AddedStays
  <2> QED BY <2>2 DEF f, g
<1>8. k \in DOMAIN bound.rows
  BY <1>7, ShownRows DEF PaymentCaseOf
<1> DEFINE r == [phase |-> "asked", intent |-> request[o].intent, kind |-> request[o].kind,
                 case |-> request[o].case, row |-> k, bound |-> bound]
<1>9. request' = [request EXCEPT ![o] = r]
  BY <1>3 DEF Ask
<1>10. r.phase = "asked" /\ r.kind = "payment" /\ r.row \in DOMAIN r.bound.rows
       /\ r.intent \in Intents /\ r.kind \in Kinds /\ "phase" \in DOMAIN r
  <2> HIDE DEF k, bound
  <2> QED BY <1>2, <1>8 DEF Kinds
<1>11. Asks(r)
  <2> HIDE DEF r
  <2> QED BY <1>10 DEF Asks
<1>12. Requests'
  <2> HIDE DEF r
  <2> QED BY <1>1, <1>9, <1>11, RequestSet
<1>13. NoneConfirmed(refunds, refunds') /\ RowTable(refunds')
  BY <1>1, <1>3 DEF NoneConfirmed, RowTable, Table, IsFcn
<1> QED BY <1>3, <1>7, <1>12, <1>13, InvRows

\* The table in which row k of i is r.
Written(f, i, k, r) == [f EXCEPT ![i] = [f[i] EXCEPT ![k] = r]]

\* An open row is written anew.
LEMMA RowWritten ==
    ASSUME NEW f, RowTable(f), NEW i \in Intents, NEW k \in DOMAIN f[i], f[i][k].state \in Open,
           NEW r, IsRow(r), NEW g, g = Written(f, i, k, r)
    PROVE  /\ RowTable(g) /\ RowsStay(f, g)
           /\ r.state # "confirmed" => NoneConfirmed(f, g)
           /\ DOMAIN g[i] = DOMAIN f[i] /\ g[i][k] = r
           /\ \A n \in DOMAIN f[i] \ {k} : g[i][n] = f[i][n]
           /\ \A j \in Intents \ {i} : g[j] = f[j]
<1> DEFINE h == [f[i] EXCEPT ![k] = r]
<1>1. DOMAIN f = Intents
  BY DEF RowTable, Table
<1>2. /\ IsFcn(h) /\ DOMAIN h = DOMAIN f[i] /\ h[k] = r
      /\ \A n \in DOMAIN f[i] \ {k} : h[n] = f[i][n]
  BY DEF IsFcn
<1>3. g = [f EXCEPT ![i] = h]
  BY DEF Written
<1> HIDE DEF h
<1>4. /\ IsFcn(g) /\ DOMAIN g = Intents /\ g[i] = h
      /\ \A j \in Intents \ {i} : g[j] = f[j]
  BY <1>1, <1>3 DEF IsFcn
<1>5. /\ IsFcn(g[i]) /\ DOMAIN g[i] = DOMAIN f[i] /\ g[i][k] = r
      /\ \A n \in DOMAIN f[i] \ {k} : g[i][n] = f[i][n]
  BY <1>2, <1>4
<1>6. IsRow(g[i][k]) /\ (r.state # "confirmed" => g[i][k].state # "confirmed")
  BY <1>5
<1>7. /\ RowTable(g) /\ RowsStay(f, g)
      /\ g[i][k].state # "confirmed" => NoneConfirmed(f, g)
  BY ONLY <1>4, <1>5, <1>6, ChangedStays, RowTable(f), i \in Intents, k \in DOMAIN f[i],
          f[i][k].state \in Open
<1> QED BY <1>4, <1>5, <1>6, <1>7

\* The open row of an intent is abandoned.
LEMMA Abandoned ==
    ASSUME NEW f, RowTable(f), NEW i \in Intents, NEW k \in DOMAIN f[i], f[i][k].state \in Open,
           NEW c, NEW g, g = [f EXCEPT ![i][k].state = "abandoned", ![i][k].closed = c]
    PROVE  RowTable(g) /\ RowsStay(f, g) /\ NoneConfirmed(f, g)
<1>1. DOMAIN f = Intents /\ IsRow(f[i][k])
  BY DEF RowTable, Table
<1> DEFINE r == [f[i][k] EXCEPT !.state = "abandoned", !.closed = c]
<1>2. g = Written(f, i, k, r)
  BY <1>1 DEF Written
<1>3. {"tx", "state"} \subseteq DOMAIN r /\ r.state = "abandoned" /\ r.tx = f[i][k].tx
  BY <1>1 DEF IsRow
<1> HIDE DEF r
<1>4. IsRow(r)
  BY <1>1, <1>3, RowFields DEF IsRow, Row
<1>5. r.state # "confirmed"
  BY <1>3
<1> QED BY ONLY <1>2, <1>4, <1>5, RowWritten, RowTable(f), i \in Intents, k \in DOMAIN f[i],
                f[i][k].state \in Open

\* The table in which row k of i is closed.
WithClosed(f, i, k, state, evidence) ==
    [f EXCEPT ![i] = CloseRow(f[i], k, state, evidence)]

\* The open row of an intent is closed by what the observer proved.
LEMMA RowClosed ==
    ASSUME NEW f, RowTable(f), NEW i \in Intents, NEW k \in DOMAIN f[i], f[i][k].state \in Open,
           NEW state \in {"rejected", "confirmed"}, NEW evidence,
           NEW g, g = WithClosed(f, i, k, state, evidence)
    PROVE  /\ RowTable(g) /\ RowsStay(f, g)
           /\ state = "rejected" => NoneConfirmed(f, g)
           /\ DOMAIN g[i] = DOMAIN f[i]
           /\ g[i][k].state = state /\ g[i][k].tx = f[i][k].tx
           /\ \A n \in DOMAIN f[i] \ {k} : g[i][n] = f[i][n]
           /\ \A j \in Intents \ {i} : g[j] = f[j]
<1>1. DOMAIN f = Intents /\ IsRow(f[i][k])
  BY DEF RowTable, Table
<1> DEFINE r == [f[i][k] EXCEPT !.state = state, !.evidence = evidence]
<1>2. g = Written(f, i, k, r)
  BY <1>1 DEF CloseRow, Written, WithClosed
<1>3. {"tx", "state"} \subseteq DOMAIN r /\ r.state = state /\ r.tx = f[i][k].tx
  BY <1>1 DEF IsRow
<1> HIDE DEF r
<1>4. IsRow(r)
  BY <1>1, <1>3, RowFields DEF IsRow, Row
<1>5. /\ RowTable(g) /\ RowsStay(f, g)
      /\ r.state # "confirmed" => NoneConfirmed(f, g)
      /\ DOMAIN g[i] = DOMAIN f[i] /\ g[i][k] = r
      /\ \A n \in DOMAIN f[i] \ {k} : g[i][n] = f[i][n]
      /\ \A j \in Intents \ {i} : g[j] = f[j]
  BY ONLY <1>2, <1>4, RowWritten, RowTable(f), i \in Intents, k \in DOMAIN f[i],
          f[i][k].state \in Open
<1> QED BY <1>3, <1>5

\* An operator gives up a candidate.
LEMMA InvAbandonPayment ==
    ASSUME Inv, NEW o \in Operators, AbandonPayment(o)
    PROVE  /\ Inv'
           /\ RowsStay(candidates, candidates')
           /\ UNCHANGED <<holdVars, effectVars, outcomeVars, refunds, history, processVars,
                          chainVars>>
<1> DEFINE i == request[o].intent
           k == OpenIndex(candidates[i])
           c == PaymentCase(i)
<1>1. /\ RowTable(candidates) /\ RowTable(refunds) /\ Requests /\ Asks(request[o])
      /\ i \in Intents
  BY DEF Inv, Requests, Tables, AbandonPayment, Submits, Asks
<1>2. k \in DOMAIN candidates[i] /\ candidates[i][k].state \in Open
  BY OpenRowThere DEF AbandonPayment
<1>3. /\ candidates' = [candidates EXCEPT ![i][k].state = "abandoned", ![i][k].closed = c]
      /\ EndRequest(o)
      /\ UNCHANGED <<holdVars, effectVars, outcomeVars, refunds, history, processVars,
                     chainVars>>
  BY DEF AbandonPayment
<1>4. RowTable(candidates') /\ RowsStay(candidates, candidates')
  <2> DEFINE f == candidates
             g == candidates'
  <2> HIDE DEF k, c
  <2>1. /\ RowTable(f) /\ i \in Intents /\ k \in DOMAIN f[i] /\ f[i][k].state \in Open
        /\ g = [f EXCEPT ![i][k].state = "abandoned", ![i][k].closed = c]
    BY <1>1, <1>2, <1>3
  <2> HIDE DEF f, g, i
  <2>2. RowTable(g) /\ RowsStay(f, g)
    BY <2>1, Abandoned
  <2> QED BY <2>2 DEF f, g
<1>5. NoneConfirmed(refunds, refunds') /\ RowTable(refunds') /\ Requests'
  BY <1>1, <1>3, RequestEnds DEF NoneConfirmed, RowTable, Table, IsFcn
<1> QED BY <1>3, <1>4, <1>5, InvRows

\* An operator gives up a refund.
LEMMA InvAbandonRefund ==
    ASSUME Inv, NEW o \in Operators, AbandonRefund(o)
    PROVE  /\ Inv'
           /\ RowsStay(refunds, refunds') /\ NoneConfirmed(refunds, refunds')
           /\ UNCHANGED <<holdVars, effectVars, outcomeVars, candidates, history, processVars,
                          chainVars>>
<1> DEFINE i == request[o].intent
           k == OpenIndex(refunds[i])
           c == RefundCase(i)
<1>1. /\ RowTable(candidates) /\ RowTable(refunds) /\ Requests /\ Asks(request[o])
      /\ i \in Intents
  BY DEF Inv, Requests, Tables, AbandonRefund, Submits, Asks
<1>2. k \in DOMAIN refunds[i] /\ refunds[i][k].state \in Open
  BY OpenRowThere DEF AbandonRefund
<1>3. /\ refunds' = [refunds EXCEPT ![i][k].state = "abandoned", ![i][k].closed = c]
      /\ EndRequest(o)
      /\ UNCHANGED <<holdVars, effectVars, outcomeVars, candidates, history, processVars,
                     chainVars>>
  BY DEF AbandonRefund
<1>4. RowTable(refunds') /\ RowsStay(refunds, refunds') /\ NoneConfirmed(refunds, refunds')
  <2> DEFINE f == refunds
             g == refunds'
  <2> HIDE DEF k, c
  <2>1. /\ RowTable(f) /\ i \in Intents /\ k \in DOMAIN f[i] /\ f[i][k].state \in Open
        /\ g = [f EXCEPT ![i][k].state = "abandoned", ![i][k].closed = c]
    BY <1>1, <1>2, <1>3
  <2> HIDE DEF f, g, i
  <2>2. RowTable(g) /\ RowsStay(f, g) /\ NoneConfirmed(f, g)
    BY <2>1, Abandoned
  <2> QED BY <2>2 DEF f, g
<1>5. RowTable(candidates') /\ Requests'
  BY <1>1, <1>3, RequestEnds DEF RowTable, Table, IsFcn
<1> QED BY <1>3, <1>4, <1>5, InvRows

\* A refund transaction is named, in the row that was opened or in a new one.
LEMMA InvNameRefund ==
    ASSUME Inv, NEW o \in Operators, NEW t \in Transactions, NameRefund(o, t)
    PROVE  /\ Inv'
           /\ RowsStay(refunds, refunds') /\ NoneConfirmed(refunds, refunds')
           /\ UNCHANGED <<holdVars, effectVars, outcomeVars, candidates, history, processVars,
                          chainVars>>
<1> DEFINE i == request[o].intent
           opened == HasOpen(refunds[i])
           k == IF opened THEN OpenIndex(refunds[i]) ELSE Len(refunds[i]) + 1
           c == RefundCase(i)
           x == OpenRow(t, c)
           bound == RefundCaseOf(settledBy[i], revision[i], Shown(refunds'[i]))
<1>1. /\ Requests /\ Asks(request[o]) /\ RowTable(candidates) /\ RowTable(refunds)
      /\ t \in Transactions /\ t # NoTransaction
  BY ReconcilerAssumption DEF Inv, Requests, Tables
<1>2. request[o].phase = "shown" /\ request[o].kind = "refund" /\ i \in Intents
  BY <1>1 DEF NameRefund, Submits, Asks
<1>3. /\ Ask(o, k, bound)
      /\ opened => refunds' = [refunds EXCEPT ![i] =
                                  [refunds[i] EXCEPT ![k].tx = t, ![k].previous = c]]
      /\ ~opened => refunds' = [refunds EXCEPT ![i] = Append(refunds[i], x)]
      /\ UNCHANGED <<holdVars, effectVars, outcomeVars, candidates, history, processVars,
                     chainVars>>
  BY DEF NameRefund
<1>4. /\ RowTable(refunds') /\ RowsStay(refunds, refunds') /\ NoneConfirmed(refunds, refunds')
      /\ k \in DOMAIN refunds'[i] /\ refunds'[i][k].tx = t
  <2>1. CASE opened
    <3> DEFINE r == [refunds[i][k] EXCEPT !.tx = t, !.previous = c]
    <3>1. k \in DOMAIN refunds[i] /\ refunds[i][k].state \in Open
      BY <2>1, OpenRowThere
    <3> HIDE DEF k, c
    <3>2. DOMAIN refunds = Intents /\ IsRow(refunds[i][k])
      BY <1>1, <1>2, <3>1 DEF RowTable, Table
    <3>3. refunds' = Written(refunds, i, k, r)
      BY <1>2, <1>3, <2>1, <3>1, <3>2 DEF Written
    <3>4. {"tx", "state"} \subseteq DOMAIN r /\ r.state = refunds[i][k].state /\ r.tx = t
      BY <3>2 DEF IsRow
    <3> HIDE DEF r
    <3>5. IsRow(r) /\ r.state # "confirmed" /\ r.tx = t
      BY <1>1, <3>1, <3>2, <3>4, RowFields DEF IsRow, Row, Open
    <3> DEFINE f == refunds
               g == refunds'
    <3>6. /\ RowTable(f) /\ i \in Intents /\ k \in DOMAIN f[i] /\ f[i][k].state \in Open
          /\ IsRow(r) /\ g = Written(f, i, k, r)
      BY <1>1, <1>2, <3>1, <3>3, <3>5
    <3> HIDE DEF f, g, i
    <3>7. /\ RowTable(g) /\ RowsStay(f, g)
          /\ r.state # "confirmed" => NoneConfirmed(f, g)
          /\ DOMAIN g[i] = DOMAIN f[i] /\ g[i][k] = r
      BY ONLY <3>6, RowWritten
    <3> QED BY <3>5, <3>6, <3>7 DEF f, g
  <2>2. CASE ~opened
    <3>1. IsRow(x) /\ x.state = "pending" /\ x.tx = t
      BY DEF OpenRow, IsRow, Row
    <3> HIDE DEF x
    <3>2. DOMAIN refunds = Intents
      BY <1>1 DEF RowTable, Table
    <3>3. /\ IsFcn(refunds') /\ DOMAIN refunds' = Intents
          /\ refunds'[i] = Append(refunds[i], x)
          /\ \A j \in Intents \ {i} : refunds'[j] = refunds[j]
      BY <1>2, <1>3, <2>2, <3>2 DEF IsFcn
    <3> DEFINE f == refunds
               g == refunds'
    <3>4. /\ RowTable(f) /\ i \in Intents /\ IsRow(x) /\ x.state = "pending"
          /\ IsFcn(g) /\ DOMAIN g = Intents /\ g[i] = Append(f[i], x)
          /\ \A j \in Intents \ {i} : g[j] = f[j]
      BY <1>1, <1>2, <3>1, <3>3
    <3>5. k = Len(refunds[i]) + 1
      BY <2>2
    <3> HIDE DEF f, g, i
    <3>6. /\ RowTable(g) /\ RowsStay(f, g) /\ NoneConfirmed(f, g)
          /\ Len(f[i]) + 1 \in DOMAIN g[i] /\ g[i][Len(f[i]) + 1] = x
      BY <3>4, AddedStays
    <3> QED BY <3>1, <3>5, <3>6 DEF f, g
  <2> QED BY <2>1, <2>2
<1>5. k \in DOMAIN bound.rows /\ bound.rows[k].tx # NoTransaction
  <2>1. bound.rows = Shown(refunds'[i])
    BY DEF RefundCaseOf
  <2> HIDE DEF bound, k
  <2> QED BY <1>1, <1>4, <2>1, ShownRows
<1> DEFINE r == [phase |-> "asked", intent |-> request[o].intent, kind |-> request[o].kind,
                 case |-> request[o].case, row |-> k, bound |-> bound]
<1>6. request' = [request EXCEPT ![o] = r]
  BY <1>3 DEF Ask
<1>7. /\ r.phase = "asked" /\ r.kind = "refund" /\ r.row \in DOMAIN r.bound.rows
      /\ r.bound.rows[r.row].tx # NoTransaction
      /\ r.intent \in Intents /\ r.kind \in Kinds /\ "phase" \in DOMAIN r
  <2> HIDE DEF k, bound
  <2> QED BY <1>2, <1>5 DEF Kinds
<1>8. Requests'
  <2> HIDE DEF r
  <2>1. Asks(r)
    BY <1>7 DEF Asks
  <2> QED BY <1>1, <1>6, <2>1, RequestSet
<1>9. RowTable(candidates')
  BY <1>1, <1>3 DEF RowTable, Table, IsFcn
<1> QED BY <1>3, <1>4, <1>8, <1>9, InvRows

-----------------------------------------------------------------------------
(* The second leases.                                                          *)

\* A lease that records a reconciliation of i.
Records(i) ==
    /\ Len(history'[i]) = Len(history[i]) + 1
    /\ SubSeq(history'[i], 1, Len(history[i])) = history[i]
    /\ revision'[i] = revision[i] + 1
    /\ \A j \in Intents \ {i} : history'[j] = history[j] /\ outcome'[j] = outcome[j]

\* What a record, its revision and its receipt keep.
RecordKeeps ==
    /\ Table(history')
    /\ outcome' \in [Intents -> {"none", "payment_unresolved", "execution_unknown",
                                 "completed", "payment_rejected", "execution_failed", "refunded"}]
    /\ revision' \in [Intents -> Nat] /\ receipts' \in [Intents -> Nat]
    /\ authority' \in {"ready", "unhealthy", "down", "refused"} /\ faults' \in 0..MaxFaults
    /\ Receipted' /\ Requests'

\* A reconciliation is recorded and its receipt issued, or the authority stops.
LEMMA Recorded ==
    ASSUME Inv, NEW o \in Operators, NEW i \in Intents, NEW e,
           ParityHolds, authority = "ready",
           history' = [history EXCEPT ![i] = Append(history[i], e)],
           NEW status \in {"payment_unresolved", "execution_unknown", "completed",
                           "payment_rejected", "execution_failed", "refunded"},
           Revise(i, status), IssueReceipt(o, i)
    PROVE  Records(i) /\ RecordKeeps /\ outcome'[i] = status
<1>1. ColumnsTyped /\ Requests /\ Table(history)
  BY DEF Inv, Tables
<1>2. DOMAIN history = Intents
  BY <1>1 DEF Table
<1>3. /\ IsFcn(history') /\ DOMAIN history' = Intents /\ history'[i] = Append(history[i], e)
      /\ \A j \in Intents \ {i} : history'[j] = history[j]
  BY <1>2 DEF IsFcn
<1>4. /\ Table(history') /\ Len(history'[i]) = Len(history[i]) + 1
      /\ SubSeq(history'[i], 1, Len(history[i])) = history[i]
  <2> DEFINE f == history
             g == history'
  <2>1. /\ Table(f) /\ IsFcn(g) /\ DOMAIN g = Intents /\ g[i] = Append(f[i], e)
        /\ \A j \in Intents \ {i} : g[j] = f[j]
    BY <1>1, <1>3
  <2> HIDE DEF f, g
  <2>2. /\ Table(g) /\ Len(g[i]) = Len(f[i]) + 1 /\ SubSeq(g[i], 1, Len(f[i])) = f[i]
    BY ONLY <2>1, i \in Intents, TableAppend
  <2> QED BY <2>2 DEF f, g
<1>5. /\ outcome' = [outcome EXCEPT ![i] = status]
      /\ revision' = [revision EXCEPT ![i] = revision[i] + 1]
  BY DEF Revise
<1>6. /\ outcome' \in [Intents -> {"none", "payment_unresolved", "execution_unknown",
                                 "completed", "payment_rejected", "execution_failed", "refunded"}]
      /\ outcome'[i] = status /\ \A j \in Intents \ {i} : outcome'[j] = outcome[j]
  BY ONLY <1>1, <1>5, i \in Intents,
          status \in {"payment_unresolved", "execution_unknown", "completed",
                      "payment_rejected", "execution_failed", "refunded"} DEF ColumnsTyped
<1>7. /\ revision' \in [Intents -> Nat] /\ revision'[i] = revision[i] + 1
      /\ \A j \in Intents \ {i} : revision'[j] = revision[j]
  BY ONLY <1>1, <1>5, i \in Intents DEF ColumnsTyped
<1>8. \A j \in Intents : receipts[j] = revision[j] /\ revision[j] \in Nat
  BY <1>1 DEF ParityHolds, ColumnsTyped
<1>9. CASE /\ receipts' = [receipts EXCEPT ![i] = receipts[i] + 1] /\ UNCHANGED processVars
  <2>1. receipts' \in [Intents -> Nat] /\ \A j \in Intents : receipts'[j] = revision'[j]
    BY ONLY <1>1, <1>7, <1>8, <1>9, i \in Intents DEF ColumnsTyped
  <2>2. Receipted'
    BY <2>1 DEF Receipted, ParityHolds
  <2> QED BY <1>1, <1>3, <1>4, <1>6, <1>7, <1>9, <2>1, <2>2, RequestEnds
          DEF ColumnsTyped, processVars, IssueReceipt, Records, RecordKeeps
<1>10. CASE /\ faults < MaxFaults /\ faults' = faults + 1 /\ authority' = "unhealthy"
            /\ UNCHANGED receipts
  <2>1. /\ receipts' \in [Intents -> Nat] /\ revision'[i] = receipts'[i] + 1
        /\ \A j \in Intents \ {i} : receipts'[j] = revision'[j]
    BY ONLY <1>1, <1>7, <1>8, <1>10, i \in Intents DEF ColumnsTyped
  <2>2. Receipted'
    BY <1>10, <2>1 DEF Receipted, ParityHolds
  <2>3. faults' \in 0..MaxFaults
    BY <1>1, <1>10, ReconcilerAssumption DEF ColumnsTyped
  <2> QED BY <1>1, <1>3, <1>4, <1>6, <1>7, <1>10, <2>1, <2>2, <2>3, RequestEnds
          DEF IssueReceipt, Records, RecordKeeps
<1> QED BY <1>9, <1>10 DEF IssueReceipt

\* Lease 2 about a payment: a row that is named is the intent's, and open.
LEMMA AskedCandidate ==
    ASSUME Inv, NEW o \in Operators, Resumes(o, "payment"), CaseUnmoved(o)
    PROVE  /\ request[o].intent \in Intents /\ PaymentCaseLoads(request[o].intent)
           /\ request[o].row = 0 => AskedRow(o).tx = NoTransaction
           /\ request[o].row # 0 =>
                 /\ request[o].row \in DOMAIN candidates[request[o].intent]
                 /\ AskedRow(o) = candidates[request[o].intent][request[o].row]
                 /\ AskedRow(o).state \in Open
<1> DEFINE i == request[o].intent
<1>1. request[o].phase = "asked" /\ request[o].kind = "payment"
  BY DEF Resumes
<1>2. i \in Intents /\ (request[o].row = 0 \/ request[o].row \in DOMAIN request[o].bound.rows)
  BY <1>1 DEF Inv, Requests, Asks
<1>3. PaymentCaseLoads(i) /\ PaymentCase(i) = request[o].bound
  BY <1>1 DEF CaseUnmoved, CaseLoads, CaseOf
<1>4. DOMAIN request[o].bound.rows = DOMAIN candidates[i]
  BY <1>2, <1>3, CaseRows, ShownRows
<1>5. /\ request[o].row = 0 => AskedRow(o).tx = NoTransaction
      /\ request[o].row # 0 => AskedRow(o) = candidates[i][request[o].row]
  BY <1>1 DEF AskedRow, OpenRow
<1>6. request[o].row # 0 => AskedRow(o).state \in Open
  BY DEF CaseUnmoved
<1> QED BY <1>2, <1>3, <1>4, <1>5, <1>6

\* Lease 2 about a refund: the row is the intent's, open, and names a transaction.
LEMMA AskedRefund ==
    ASSUME Inv, NEW o \in Operators, Resumes(o, "refund"), CaseUnmoved(o)
    PROVE  /\ request[o].intent \in Intents /\ RefundCaseLoads(request[o].intent)
           /\ request[o].row \in DOMAIN refunds[request[o].intent]
           /\ AskedRow(o) = refunds[request[o].intent][request[o].row]
           /\ AskedRow(o).state \in Open
           /\ AskedRow(o).tx \in Transactions
<1> DEFINE i == request[o].intent
           k == request[o].row
<1>1. request[o].phase = "asked" /\ request[o].kind = "refund"
  BY DEF Resumes
<1>2. i \in Intents /\ k \in DOMAIN request[o].bound.rows
      /\ request[o].bound.rows[k].tx # NoTransaction
  BY <1>1 DEF Inv, Requests, Asks
<1>3. RefundCaseLoads(i) /\ RefundCase(i) = request[o].bound
  BY <1>1 DEF CaseUnmoved, CaseLoads, CaseOf
<1>4. request[o].bound.rows = Shown(refunds[i])
  BY <1>2, <1>3, CaseRows
<1>5. k \in DOMAIN refunds[i] /\ refunds[i][k].tx # NoTransaction
  BY <1>2, <1>4, ShownRows
<1>6. k # 0
  <2>1. Table(refunds)
    BY DEF Inv, Tables, RowTable
  <2>2. Len(refunds[i]) \in Nat /\ DOMAIN refunds[i] = 1..Len(refunds[i])
    BY <1>2, <2>1, RowIndexes
  <2> QED BY <1>5, <2>2
<1>7. AskedRow(o) = refunds[i][k] /\ AskedRow(o).state \in Open
  BY <1>1, <1>6 DEF AskedRow, CaseUnmoved
<1>8. refunds[i][k].tx \in Transactions
  <2>1. IsRow(refunds[i][k])
    BY <1>2, <1>5 DEF Inv, Tables, RowTable
  <2> QED BY <1>5, <2>1, RowFields
<1> QED BY <1>2, <1>3, <1>5, <1>7, <1>8

\* An open candidate of the case is closed.
LEMMA CandidateClosed ==
    ASSUME Inv, NEW o \in Operators, Resumes(o, "payment"), CaseUnmoved(o), request[o].row # 0,
           NEW state \in {"rejected", "confirmed"}, NEW evidence,
           candidates' = [candidates EXCEPT ![request[o].intent] =
               CloseRow(candidates[request[o].intent], request[o].row, state, evidence)]
    PROVE  RowTable(candidates') /\ RowsStay(candidates, candidates')
<1> DEFINE i == request[o].intent
           k == request[o].row
           f == candidates
           g == candidates'
<1>1. /\ RowTable(f) /\ i \in Intents /\ k \in DOMAIN f[i] /\ f[i][k].state \in Open
      /\ g = WithClosed(f, i, k, state, evidence)
  BY AskedCandidate DEF Inv, Tables, WithClosed
<1> HIDE DEF f, g, i, k
<1>2. RowTable(g) /\ RowsStay(f, g)
  BY ONLY <1>1, state \in {"rejected", "confirmed"}, RowClosed
<1> QED BY <1>2 DEF f, g

\* The open refund of the case is closed.
LEMMA RefundClosed ==
    ASSUME Inv, NEW o \in Operators, Resumes(o, "refund"), CaseUnmoved(o),
           NEW state \in {"rejected", "confirmed"}, NEW evidence,
           refunds' = [refunds EXCEPT ![request[o].intent] =
               CloseRow(refunds[request[o].intent], request[o].row, state, evidence)]
    PROVE  LET i == request[o].intent
               k == request[o].row
           IN
           /\ RowTable(refunds') /\ RowsStay(refunds, refunds')
           /\ state = "rejected" => NoneConfirmed(refunds, refunds')
           /\ DOMAIN refunds'[i] = DOMAIN refunds[i]
           /\ refunds'[i][k].state = state /\ refunds'[i][k].tx = refunds[i][k].tx
           /\ \A n \in DOMAIN refunds[i] \ {k} : refunds'[i][n] = refunds[i][n]
           /\ \A j \in Intents \ {i} : refunds'[j] = refunds[j]
<1> DEFINE i == request[o].intent
           k == request[o].row
           f == refunds
           g == refunds'
<1>1. /\ RowTable(f) /\ i \in Intents /\ k \in DOMAIN f[i] /\ f[i][k].state \in Open
      /\ g = WithClosed(f, i, k, state, evidence)
  BY AskedRefund DEF Inv, Tables, WithClosed
<1> HIDE DEF f, g, i, k
<1>2. /\ RowTable(g) /\ RowsStay(f, g)
      /\ state = "rejected" => NoneConfirmed(f, g)
      /\ DOMAIN g[i] = DOMAIN f[i]
      /\ g[i][k].state = state /\ g[i][k].tx = f[i][k].tx
      /\ \A n \in DOMAIN f[i] \ {k} : g[i][n] = f[i][n]
      /\ \A j \in Intents \ {i} : g[j] = f[j]
  BY ONLY <1>1, state \in {"rejected", "confirmed"}, RowClosed
<1> QED BY <1>2 DEF f, g, i, k

\* A candidate that moved something else is rejected.
LEMMA InvRejectCandidate ==
    ASSUME Inv, NEW o \in Operators, RejectCandidate(o)
    PROVE  /\ Inv'
           /\ RowsStay(candidates, candidates')
           /\ request[o].intent \in Intents /\ Records(request[o].intent)
           /\ UNCHANGED <<holdVars, effectVars, outcome, refunds, chainVars>>
<1> DEFINE i == request[o].intent
           k == request[o].row
           proof == [kind |-> "absent", tx |-> AskedRow(o).tx]
           e == Entry(o, "unresolved", proof)
<1>1. /\ Resumes(o, "payment") /\ CaseUnmoved(o) /\ ParityHolds /\ authority = "ready"
      /\ "absent" \in Answers(o)
      /\ candidates' = [candidates EXCEPT ![i] = CloseRow(candidates[i], k, "rejected", proof)]
      /\ history' = [history EXCEPT ![i] = Append(history[i], e)]
      /\ Revise(i, "payment_unresolved") /\ IssueReceipt(o, i)
      /\ UNCHANGED <<holdVars, effectVars, refunds, chainVars>>
  BY DEF RejectCandidate, Resumes, Record
<1> HIDE DEF proof, e
<1>2. i \in Intents /\ PaymentCaseLoads(i) /\ (k = 0 => AskedRow(o).tx = NoTransaction)
  BY <1>1, AskedCandidate
<1>3. k # 0
  BY <1>1, <1>2 DEF Answers, PaymentAnswers, RejectionProof, Resumes
<1>4. RowTable(candidates') /\ RowsStay(candidates, candidates')
  BY <1>1, <1>3, CandidateClosed
<1>5. Records(i) /\ RecordKeeps /\ outcome'[i] = "payment_unresolved"
  BY <1>1, <1>2, Recorded
<1>6. /\ outcome[i] = "payment_unresolved"
      /\ \A j \in Intents : outcome'[j] = outcome[j]
  BY <1>2, <1>5 DEF PaymentCaseLoads, Records
<1>7. outcome' = outcome
  BY <1>5, <1>6 DEF Inv, ColumnsTyped, RecordKeeps
<1>8. /\ ChainTyped' /\ OnChain' /\ Settled' /\ ColumnsTyped'
      /\ \A j \in Intents : Stage(j)'
  BY <1>1, <1>5, <1>7 DEF Inv, ChainTyped, OnChain, Settled, ColumnsTyped, Stage, At, RecordKeeps,
                    holdVars, effectVars, chainVars
<1>9. Tables' /\ Returned'
  BY <1>1, <1>4, <1>5 DEF Inv, Tables, RowTable, Table, IsFcn, Returned, ConfirmedRefunds,
                          RecordKeeps, chainVars
<1> QED BY <1>1, <1>2, <1>4, <1>5, <1>7, <1>8, <1>9 DEF Inv, RecordKeeps

\* A hold becomes a spend on the proof of its transfer.
LEMMA InvSettlePayment ==
    ASSUME Inv, NEW o \in Operators, SettlePayment(o)
    PROVE  /\ Inv'
           /\ RowsStay(candidates, candidates')
           /\ request[o].intent \in Intents /\ Records(request[o].intent)
           /\ attempt[request[o].intent] = "unresolved"
           /\ attempt' = [attempt EXCEPT ![request[o].intent] = "settled"]
           /\ outcome'[request[o].intent] = "execution_unknown"
           /\ payment[request[o].intent] # NoTransaction
           /\ UNCHANGED <<refunds, chainVars>>
<1> DEFINE i == request[o].intent
           k == request[o].row
           t == AskedRow(o).tx
           proof == [kind |-> "settled", tx |-> t]
           e == Entry(o, "settled", proof)
<1>1. /\ Resumes(o, "payment") /\ CaseUnmoved(o) /\ ParityHolds /\ authority = "ready"
      /\ "settled" \in Answers(o)
      /\ candidates' = [candidates EXCEPT ![i] = CloseRow(candidates[i], k, "confirmed", proof)]
      /\ history' = [history EXCEPT ![i] = Append(history[i], e)]
      /\ Revise(i, "execution_unknown") /\ IssueReceipt(o, i)
  BY DEF SettlePayment, ResolvePayment, Resumes, Record
<1>2. /\ intent' = [intent EXCEPT ![i] = "terminal"]
      /\ attempt' = [attempt EXCEPT ![i] = "settled"]
      /\ settledBy' = [settledBy EXCEPT ![i] = t]
      /\ budget' = [budget EXCEPT ![i] = "committed"]
      /\ execution' = [execution EXCEPT ![i] = "unknown"]
      /\ resolution' = [resolution EXCEPT ![i] = "reconciliation_required"]
      /\ UNCHANGED <<refunds, chainVars>>
  BY DEF SettlePayment, ResolvePayment
<1> HIDE DEF proof, e
<1>3. i \in Intents /\ PaymentCaseLoads(i) /\ (k = 0 => t = NoTransaction)
  BY <1>1, AskedCandidate
<1>4. k # 0 /\ payment[i] = t /\ t # NoTransaction
  BY <1>1, <1>3 DEF Answers, PaymentAnswers, TransferProof, Resumes
<1> HIDE DEF t
<1>5. RowTable(candidates') /\ RowsStay(candidates, candidates')
  BY <1>1, <1>4, CandidateClosed
<1>6. Records(i) /\ RecordKeeps /\ outcome'[i] = "execution_unknown"
  BY <1>1, <1>3, Recorded
<1>7. ColumnsTyped /\ ChainTyped /\ t \in Transactions
  BY <1>3, <1>4 DEF Inv, ChainTyped
<1>8. ColumnsTyped' /\ ChainTyped'
  BY <1>2, <1>3, <1>6, <1>7 DEF ColumnsTyped, ChainTyped, RecordKeeps, chainVars
<1>9. OnChain' /\ Settled'
  BY <1>2, <1>3, <1>4, <1>7 DEF Inv, OnChain, Settled, ColumnsTyped, chainVars
<1>10. ASSUME NEW j \in Intents PROVE Stage(j)'
  <2>1. CASE j = i
    BY <1>2, <1>3, <1>6, <1>7, <2>1 DEF Stage, At, ColumnsTyped
  <2>2. CASE j # i
    BY <1>2, <1>3, <1>6, <1>7, <2>2 DEF Inv, Stage, At, ColumnsTyped, Records
  <2> QED BY <2>1, <2>2
<1>11. Tables' /\ Returned'
  BY <1>2, <1>5, <1>6 DEF Inv, Tables, RowTable, Table, IsFcn, Returned, ConfirmedRefunds,
                          RecordKeeps, chainVars
<1> QED
  BY <1>2, <1>3, <1>4, <1>5, <1>6, <1>8, <1>9, <1>10, <1>11
     DEF Inv, RecordKeeps, PaymentCaseLoads

\* A hold is released on the proof that its authorization expired unused.
LEMMA InvReleasePayment ==
    ASSUME Inv, NEW o \in Operators, ReleasePayment(o)
    PROVE  /\ Inv'
           /\ RowsStay(candidates, candidates')
           /\ request[o].intent \in Intents /\ Records(request[o].intent)
           /\ attempt[request[o].intent] = "unresolved"
           /\ attempt' = [attempt EXCEPT ![request[o].intent] = "rejected"]
           /\ expired[request[o].intent]
           /\ UNCHANGED <<refunds, chainVars>>
<1> DEFINE i == request[o].intent
           proof == [kind |-> "unused", tx |-> NoTransaction]
           e == Entry(o, "rejected", proof)
           h == [k \in DOMAIN candidates[i] |->
                    IF candidates[i][k].state = "pending"
                    THEN [candidates[i][k] EXCEPT !.state = "rejected", !.evidence = proof]
                    ELSE candidates[i][k]]
<1>1. /\ Resumes(o, "payment") /\ CaseUnmoved(o) /\ ParityHolds /\ authority = "ready"
      /\ "unused" \in Answers(o)
      /\ history' = [history EXCEPT ![i] = Append(history[i], e)]
      /\ Revise(i, "payment_rejected") /\ IssueReceipt(o, i)
  BY DEF ReleasePayment, ResolvePayment, Resumes, Record
<1>2. /\ intent' = [intent EXCEPT ![i] = "terminal"]
      /\ attempt' = [attempt EXCEPT ![i] = "rejected"]
      /\ budget' = [budget EXCEPT ![i] = "released"]
      /\ candidates' = [candidates EXCEPT ![i] = h]
      /\ UNCHANGED <<settledBy, effectVars, refunds, chainVars>>
  BY DEF ReleasePayment, ResolvePayment
<1> HIDE DEF e
<1>3. i \in Intents /\ PaymentCaseLoads(i)
  BY <1>1, AskedCandidate
<1>4. expired[i]
  BY <1>1 DEF Answers, PaymentAnswers, UnusedProof, Resumes
<1>5. RowTable(candidates') /\ RowsStay(candidates, candidates')
  <2>1. RowTable(candidates) /\ DOMAIN candidates = Intents
    BY DEF Inv, Tables, RowTable, Table
  <2>2. /\ IsFcn(h) /\ DOMAIN h = DOMAIN candidates[i]
        /\ \A k \in DOMAIN candidates[i] : candidates[i][k].state # "pending" =>
              h[k] = candidates[i][k]
    BY DEF IsFcn
  <2>3. ASSUME NEW k \in DOMAIN candidates[i], candidates[i][k].state = "pending"
        PROVE  IsRow(h[k])
    <3> DEFINE row == candidates[i][k]
               r == [row EXCEPT !.state = "rejected", !.evidence = proof]
    <3>1. IsRow(row)
      BY <1>3, <2>1 DEF RowTable
    <3>2. h[k] = r
      BY <2>3
    <3>3. {"tx", "state"} \subseteq DOMAIN r /\ r.state = "rejected" /\ r.tx = row.tx
      BY <3>1 DEF IsRow
    <3> HIDE DEF r, row, h
    <3>4. IsRow(r)
      BY <3>1, <3>3, RowFields DEF IsRow, Row
    <3> QED BY <3>2, <3>4
  <2> HIDE DEF h
  <2>4. /\ IsFcn(candidates') /\ DOMAIN candidates' = Intents /\ candidates'[i] = h
        /\ \A j \in Intents \ {i} : candidates'[j] = candidates[j]
    BY <1>2, <1>3, <2>1 DEF IsFcn
  <2> DEFINE f == candidates
             g == candidates'
  <2>5. /\ RowTable(f) /\ i \in Intents /\ IsFcn(g) /\ DOMAIN g = Intents /\ IsFcn(g[i])
        /\ DOMAIN g[i] = DOMAIN f[i]
        /\ \A n \in DOMAIN f[i] : g[i][n] = f[i][n] \/ IsRow(g[i][n])
        /\ \A j \in Intents \ {i} : g[j] = f[j]
    BY <1>3, <2>1, <2>2, <2>3, <2>4
  <2>6. \A n \in DOMAIN f[i] : f[i][n].state # "pending" => g[i][n] = f[i][n]
    BY <2>2, <2>4
  <2> HIDE DEF f, g, i
  <2>7. RowTable(g)
    BY ONLY <2>5, RowsRemade
  <2>8. RowsStay(f, g)
    BY ONLY <2>5, <2>6 DEF RowsStay, Closed, Open
  <2> QED BY <2>7, <2>8 DEF f, g
<1> HIDE DEF h
<1>6. Records(i) /\ RecordKeeps /\ outcome'[i] = "payment_rejected"
  BY <1>1, <1>3, Recorded
<1>7. ColumnsTyped /\ ChainTyped
  BY DEF Inv
<1>8. ColumnsTyped' /\ ChainTyped'
  BY <1>2, <1>3, <1>6, <1>7 DEF ColumnsTyped, ChainTyped, RecordKeeps, chainVars, effectVars
<1>9. OnChain' /\ Settled'
  BY <1>2, <1>3, <1>4, <1>7 DEF Inv, OnChain, Settled, ColumnsTyped, chainVars, PaymentCaseLoads
<1>10. ASSUME NEW j \in Intents PROVE Stage(j)'
  <2>1. Stage(j)
    BY DEF Inv
  <2>2. CASE j = i
    BY <1>2, <1>3, <1>6, <1>7, <2>1, <2>2 DEF Stage, At, ColumnsTyped, effectVars, PaymentCaseLoads
  <2>3. CASE j # i
    BY <1>2, <1>3, <1>6, <1>7, <2>1, <2>3 DEF Stage, At, ColumnsTyped, Records, effectVars
  <2> QED BY <2>2, <2>3
<1>11. Tables' /\ Returned'
  BY <1>2, <1>5, <1>6 DEF Inv, Tables, RowTable, Table, IsFcn, Returned, ConfirmedRefunds,
                          RecordKeeps, chainVars
<1> QED
  BY <1>2, <1>3, <1>4, <1>5, <1>6, <1>8, <1>9, <1>10, <1>11
     DEF Inv, RecordKeeps, PaymentCaseLoads

\* The seller says how an execution ended; a failed one opens a refund.
LEMMA InvReconcileExecution ==
    ASSUME Inv, NEW o \in Operators, NEW result \in {"succeeded", "failed"},
           ReconcileExecution(o, result)
    PROVE  /\ Inv'
           /\ RowsStay(refunds, refunds') /\ NoneConfirmed(refunds, refunds')
           /\ request[o].intent \in Intents /\ Records(request[o].intent)
           /\ attempt[request[o].intent] = "settled"
           /\ outcome[request[o].intent] = "execution_unknown"
           /\ outcome'[request[o].intent] \in {"completed", "execution_failed"}
           /\ UNCHANGED <<holdVars, candidates, chainVars>>
<1> DEFINE i == request[o].intent
           e == Entry(o, result, [kind |-> "attested", tx |-> settledBy[i]])
           x == OpenRow(NoTransaction, NoCase)
<1>1. /\ Resumes(o, "execution") /\ CaseUnmoved(o) /\ ParityHolds /\ authority = "ready"
      /\ history' = [history EXCEPT ![i] = Append(history[i], e)]
      /\ IssueReceipt(o, i)
      /\ execution' = [execution EXCEPT ![i] = result]
      /\ \/ /\ result = "succeeded"
            /\ resolution' = [resolution EXCEPT ![i] = "resolved"]
            /\ Revise(i, "completed") /\ UNCHANGED refunds
         \/ /\ result = "failed" /\ refunds[i] = << >>
            /\ resolution' = [resolution EXCEPT ![i] = "refund_pending"]
            /\ Revise(i, "execution_failed")
            /\ refunds' = [refunds EXCEPT ![i] = <<x>>]
      /\ UNCHANGED <<holdVars, candidates, chainVars>>
  BY DEF ReconcileExecution, Resumes, Record
<1> HIDE DEF e
<1>2. i \in Intents /\ ExecutionCaseLoads(i)
  <2>1. i \in Intents
    BY <1>1 DEF Resumes, Inv, Requests, Asks
  <2>2. ExecutionCaseLoads(i)
    BY <1>1 DEF Resumes, CaseUnmoved, CaseLoads
  <2> QED BY <2>1, <2>2
<1>3. RowTable(refunds') /\ RowsStay(refunds, refunds') /\ NoneConfirmed(refunds, refunds')
  <2>1. RowTable(refunds) /\ DOMAIN refunds = Intents
    BY DEF Inv, Tables, RowTable, Table
  <2>2. CASE UNCHANGED refunds
    BY <2>1, <2>2 DEF RowTable, Table, IsFcn, RowsStay, NoneConfirmed
  <2>3. CASE refunds[i] = << >> /\ refunds' = [refunds EXCEPT ![i] = <<x>>]
    <3>1. IsRow(x) /\ x.state = "pending"
      BY DEF OpenRow, IsRow, Row
    <3> HIDE DEF x
    <3>2. /\ IsFcn(refunds') /\ DOMAIN refunds' = Intents
          /\ refunds'[i] = Append(refunds[i], x)
          /\ \A j \in Intents \ {i} : refunds'[j] = refunds[j]
      <4>1. <<x>> = Append(<< >>, x)
        OBVIOUS
      <4> QED BY <1>2, <2>1, <2>3, <4>1 DEF IsFcn
    <3> DEFINE f == refunds
               g == refunds'
    <3>3. /\ RowTable(f) /\ i \in Intents /\ IsRow(x) /\ x.state = "pending"
          /\ IsFcn(g) /\ DOMAIN g = Intents /\ g[i] = Append(f[i], x)
          /\ \A j \in Intents \ {i} : g[j] = f[j]
      BY <1>2, <2>1, <3>1, <3>2
    <3> HIDE DEF f, g, i
    <3>4. RowTable(g) /\ RowsStay(f, g) /\ NoneConfirmed(f, g)
      BY ONLY <3>3, AddedStays
    <3> QED BY <3>4 DEF f, g
  <2> QED BY <1>1, <2>2, <2>3
<1> HIDE DEF x
<1>4. Records(i) /\ RecordKeeps
      /\ \/ /\ outcome'[i] = "completed" /\ execution' = [execution EXCEPT ![i] = "succeeded"]
            /\ resolution' = [resolution EXCEPT ![i] = "resolved"]
         \/ /\ outcome'[i] = "execution_failed"
            /\ execution' = [execution EXCEPT ![i] = "failed"]
            /\ resolution' = [resolution EXCEPT ![i] = "refund_pending"]
  <2>1. CASE result = "succeeded"
    BY <1>1, <1>2, <2>1, Recorded
  <2>2. CASE result = "failed"
    BY <1>1, <1>2, <2>2, Recorded
  <2> QED BY <2>1, <2>2
<1>5. ColumnsTyped /\ ChainTyped
  BY DEF Inv
<1>6. ColumnsTyped' /\ ChainTyped'
  <2>1. /\ execution' \in [Intents -> {"none", "unknown", "succeeded", "failed"}]
        /\ resolution' \in [Intents -> {"none", "reconciliation_required", "refund_pending",
                                        "resolved"}]
    BY ONLY <1>2, <1>4, <1>5 DEF ColumnsTyped
  <2> QED
    BY ONLY <1>1, <1>4, <1>5, <2>1
       DEF ColumnsTyped, ChainTyped, RecordKeeps, chainVars, holdVars
<1>7. OnChain' /\ Settled'
  BY <1>1 DEF Inv, OnChain, Settled, chainVars, holdVars
<1>8. ASSUME NEW j \in Intents PROVE Stage(j)'
  <2>1. Stage(j)
    BY DEF Inv
  <2>2. CASE j = i
    BY <1>1, <1>2, <1>4, <1>5, <2>2 DEF Stage, At, ColumnsTyped, holdVars, ExecutionCaseLoads
  <2>3. CASE j # i
    BY <1>1, <1>2, <1>4, <1>5, <2>1, <2>3 DEF Stage, At, ColumnsTyped, Records, holdVars
  <2> QED BY <2>2, <2>3
<1>9. Tables' /\ Returned'
  <2>1. Returned'
    BY <1>1, <1>3, ReturnedStays DEF Inv, chainVars
  <2>2. Tables'
    BY <1>1, <1>3, <1>4 DEF Inv, Tables, RowTable, Table, IsFcn, RecordKeeps
  <2> QED BY <2>1, <2>2
<1> QED
  BY <1>1, <1>2, <1>3, <1>4, <1>6, <1>7, <1>8, <1>9 DEF Inv, RecordKeeps, ExecutionCaseLoads

\* A refund that moved something else is rejected.
LEMMA InvRejectRefund ==
    ASSUME Inv, NEW o \in Operators, RejectRefund(o)
    PROVE  /\ Inv'
           /\ RowsStay(refunds, refunds') /\ NoneConfirmed(refunds, refunds')
           /\ request[o].intent \in Intents /\ Records(request[o].intent)
           /\ UNCHANGED <<holdVars, effectVars, outcome, candidates, chainVars>>
<1> DEFINE i == request[o].intent
           k == request[o].row
           proof == [kind |-> "absent", tx |-> AskedRow(o).tx]
           e == Entry(o, "refund_rejected", proof)
<1>1. /\ Resumes(o, "refund") /\ CaseUnmoved(o) /\ ParityHolds /\ authority = "ready"
      /\ refunds' = [refunds EXCEPT ![i] = CloseRow(refunds[i], k, "rejected", proof)]
      /\ history' = [history EXCEPT ![i] = Append(history[i], e)]
      /\ Revise(i, "execution_failed") /\ IssueReceipt(o, i)
      /\ UNCHANGED <<holdVars, effectVars, candidates, chainVars>>
  BY DEF RejectRefund, Resumes, Record
<1> HIDE DEF proof, e
<1>2. i \in Intents /\ RefundCaseLoads(i)
  BY <1>1, AskedRefund
<1>3. RowTable(refunds') /\ RowsStay(refunds, refunds') /\ NoneConfirmed(refunds, refunds')
  BY <1>1, RefundClosed
<1>4. Records(i) /\ RecordKeeps /\ outcome'[i] = "execution_failed"
  BY <1>1, <1>2, Recorded
<1>5. /\ outcome[i] = "execution_failed"
      /\ \A j \in Intents : outcome'[j] = outcome[j]
  BY <1>2, <1>4 DEF RefundCaseLoads, Records
<1>6. outcome' = outcome
  BY <1>4, <1>5 DEF Inv, ColumnsTyped, RecordKeeps
<1>7. /\ ChainTyped' /\ OnChain' /\ Settled' /\ ColumnsTyped'
      /\ \A j \in Intents : Stage(j)'
  BY <1>1, <1>4, <1>6 DEF Inv, ChainTyped, OnChain, Settled, ColumnsTyped, Stage, At, RecordKeeps,
                    holdVars, effectVars, chainVars
<1>8. Tables' /\ Returned'
  <2>1. Returned'
    BY <1>1, <1>3, ReturnedStays DEF Inv, chainVars
  <2>2. Tables'
    BY <1>1, <1>3, <1>4 DEF Inv, Tables, RowTable, Table, IsFcn, RecordKeeps
  <2> QED BY <2>1, <2>2
<1> QED BY <1>1, <1>2, <1>3, <1>4, <1>6, <1>7, <1>8 DEF Inv, RecordKeeps

\* A refund names its transaction.
LEMMA RefundNamed ==
    ASSUME NEW t, NEW j \in Intents, NEW n \in DOMAIN refunds[j], refunds[j][n].tx = t
    PROVE  <<"refund", j, n>> \in RowsNaming(t)
<1> DEFINE R(i) == {<<"refund", i, k>> : k \in {m \in DOMAIN refunds[i] : refunds[i][m].tx = t}}
           U == UNION {R(i) : i \in Intents}
           A == {<<"payment", i, 0>> : i \in {m \in Intents : settledBy[m] = t}}
           B == UNION {{<<"candidate", i, k>> : k \in {m \in DOMAIN candidates[i] :
                                                  candidates[i][m].tx = t}} : i \in Intents}
<1>1. RowsNaming(t) = (A \cup B) \cup U
  BY DEF RowsNaming
<1>2. <<"refund", j, n>> \in R(j)
  OBVIOUS
<1>3. <<"refund", j, n>> \in U
  <2> HIDE DEF R
  <2> QED BY <1>2
<1> HIDE DEF A, B, U
<1> QED BY <1>1, <1>3

\* The money of a failed execution comes back with a transfer no other row names.
LEMMA InvConfirmRefund ==
    ASSUME Inv, NEW o \in Operators, ConfirmRefund(o)
    PROVE  LET i == request[o].intent
               k == request[o].row
           IN
           /\ Inv'
           /\ RowsStay(refunds, refunds')
           /\ i \in Intents /\ Records(i)
           /\ attempt[i] = "settled" /\ outcome[i] = "execution_failed"
           /\ outcome'[i] = "refunded"
           /\ k \in DOMAIN refunds[i] /\ refunds[i][k].tx \in Transactions
           /\ RowsNaming(refunds[i][k].tx) = {<<"refund", i, k>>}
           /\ DOMAIN refunds'[i] = DOMAIN refunds[i] /\ refunds[i][k].state # "confirmed"
           /\ refunds'[i][k].state = "confirmed" /\ refunds'[i][k].tx = refunds[i][k].tx
           /\ \A n \in DOMAIN refunds[i] \ {k} : refunds'[i][n] = refunds[i][n]
           /\ \A j \in Intents \ {i} : refunds'[j] = refunds[j]
           /\ UNCHANGED <<attempt, candidates, chainVars>>
<1> DEFINE i == request[o].intent
           k == request[o].row
           t == AskedRow(o).tx
           proof == [kind |-> "refunded", tx |-> t]
           e == Entry(o, "refund_confirmed", proof)
<1>1. /\ Resumes(o, "refund") /\ CaseUnmoved(o) /\ ParityHolds /\ authority = "ready"
      /\ "refunded" \in Answers(o)
      /\ RowsNaming(t) = {<<"refund", i, k>>}
      /\ refunds' = [refunds EXCEPT ![i] = CloseRow(refunds[i], k, "confirmed", proof)]
      /\ history' = [history EXCEPT ![i] = Append(history[i], e)]
      /\ Revise(i, "refunded") /\ IssueReceipt(o, i)
      /\ budget' = [budget EXCEPT ![i] = "released"]
      /\ resolution' = [resolution EXCEPT ![i] = "resolved"]
      /\ UNCHANGED <<intent, attempt, settledBy, execution, candidates, chainVars>>
  BY DEF ConfirmRefund, Resumes, Record
<1> HIDE DEF proof, e
<1>2. /\ i \in Intents /\ RefundCaseLoads(i) /\ k \in DOMAIN refunds[i]
      /\ t = refunds[i][k].tx /\ t \in Transactions /\ refunds[i][k].state # "confirmed"
  BY <1>1, AskedRefund DEF Open
<1>3. mined[t] = "refund"
  BY <1>1 DEF Answers, RefundAnswers, Resumes
<1> HIDE DEF t
<1>4. /\ RowTable(refunds') /\ RowsStay(refunds, refunds')
      /\ DOMAIN refunds'[i] = DOMAIN refunds[i]
      /\ refunds'[i][k].state = "confirmed" /\ refunds'[i][k].tx = t
      /\ \A n \in DOMAIN refunds[i] \ {k} : refunds'[i][n] = refunds[i][n]
      /\ \A j \in Intents \ {i} : refunds'[j] = refunds[j]
  BY <1>1, <1>2, RefundClosed
<1>5. Records(i) /\ RecordKeeps /\ outcome'[i] = "refunded"
  BY <1>1, <1>2, Recorded
<1>6. ColumnsTyped /\ ChainTyped
  BY DEF Inv
<1>7. ColumnsTyped' /\ ChainTyped'
  BY <1>1, <1>2, <1>5, <1>6 DEF ColumnsTyped, ChainTyped, RecordKeeps, chainVars
<1>8. OnChain' /\ Settled'
  BY <1>1 DEF Inv, OnChain, Settled, chainVars
<1>9. ASSUME NEW j \in Intents PROVE Stage(j)'
  <2>1. Stage(j)
    BY DEF Inv
  <2>2. CASE j = i
    BY <1>1, <1>2, <1>5, <1>6, <2>1, <2>2 DEF Stage, At, ColumnsTyped, RefundCaseLoads
  <2>3. CASE j # i
    BY <1>1, <1>2, <1>5, <1>6, <2>1, <2>3 DEF Stage, At, ColumnsTyped, Records
  <2> QED BY <2>2, <2>3
<1>10. ASSUME NEW j \in Intents, NEW n \in ConfirmedRefunds(j)'
       PROVE  \/ j = i /\ n = k
              \/ n \in ConfirmedRefunds(j) /\ refunds'[j][n] = refunds[j][n]
  BY <1>4 DEF ConfirmedRefunds
<1>11. ASSUME NEW j \in Intents, NEW n \in ConfirmedRefunds(j)
       PROVE  refunds[j][n].tx # t
  <2>1. SUFFICES ASSUME refunds[j][n].tx = t PROVE FALSE
    OBVIOUS
  <2>2. n \in {m \in DOMAIN refunds[j] : refunds[j][m].tx = t} /\ refunds[j][n].state = "confirmed"
    BY <2>1 DEF ConfirmedRefunds
  <2>3. <<"refund", j, n>> \in RowsNaming(t)
    BY <2>2, RefundNamed
  <2>4. j = i /\ n = k
    BY <1>1, <2>3
  <2> QED BY <1>2, <2>2, <2>4
<1>12. Returned'
  <2>1. ASSUME NEW j \in Intents, NEW n \in ConfirmedRefunds(j)'
        PROVE  refunds'[j][n].tx \in Transactions /\ mined'[refunds'[j][n].tx] = "refund"
    <3>1. mined' = mined /\ Returned
      BY <1>1 DEF chainVars, Inv
    <3>2. CASE j = i /\ n = k
      BY <1>2, <1>3, <1>4, <3>1, <3>2
    <3>3. CASE n \in ConfirmedRefunds(j) /\ refunds'[j][n] = refunds[j][n]
      BY ONLY <3>1, <3>3, j \in Intents DEF Returned
    <3> QED BY <1>10, <2>1, <3>2, <3>3
  <2>2. ASSUME NEW j \in Intents, NEW p \in Intents, NEW n \in ConfirmedRefunds(j)',
               NEW m \in ConfirmedRefunds(p)', refunds'[j][n].tx = refunds'[p][m].tx
        PROVE  j = p /\ n = m
    <3>1. Returned
      BY DEF Inv
    <3>2. /\ (j = i /\ n = k) \/ (n \in ConfirmedRefunds(j) /\ refunds'[j][n] = refunds[j][n])
          /\ (p = i /\ m = k) \/ (m \in ConfirmedRefunds(p) /\ refunds'[p][m] = refunds[p][m])
      BY <1>10, <2>2
    <3>3. CASE j = i /\ n = k
      BY <1>4, <1>11, <2>2, <3>2, <3>3
    <3>4. CASE p = i /\ m = k
      BY <1>4, <1>11, <2>2, <3>2, <3>4
    <3>5. CASE /\ n \in ConfirmedRefunds(j) /\ refunds'[j][n] = refunds[j][n]
               /\ m \in ConfirmedRefunds(p) /\ refunds'[p][m] = refunds[p][m]
      BY ONLY <2>2, <3>1, <3>5, j \in Intents, p \in Intents DEF Returned
    <3> QED BY <3>2, <3>3, <3>4, <3>5
  <2> QED BY <2>1, <2>2 DEF Returned
<1>13. Tables'
  BY <1>1, <1>4, <1>5 DEF Inv, Tables, RowTable, Table, IsFcn, RecordKeeps
<1>14. Inv'
  BY <1>5, <1>7, <1>8, <1>9, <1>12, <1>13 DEF Inv, RecordKeeps
<1> QED
  BY <1>1, <1>2, <1>4, <1>5, <1>14 DEF RefundCaseLoads

-----------------------------------------------------------------------------
(* What a step keeps.                                                          *)

\* What ResolvedForGood asks of a step.
KeepsResolved ==
    \A i \in Intents :
       /\ \A k \in DOMAIN candidates[i] :
             Closed(candidates[i], k) => candidates'[i][k] = candidates[i][k]
       /\ \A k \in DOMAIN refunds[i] : Closed(refunds[i], k) => refunds'[i][k] = refunds[i][k]
       /\ IF history'[i] = history[i]
          THEN outcome'[i] # outcome[i] => attempt[i] = "retrying"
          ELSE /\ Len(history'[i]) = Len(history[i]) + 1
               /\ SubSeq(history'[i], 1, Len(history[i])) = history[i]
               /\ revision'[i] = revision[i] + 1

\* A record of one intent keeps what was resolved.
LEMMA RecordsKeepResolved ==
    ASSUME Inv, NEW i \in Intents, Records(i), RowsStay(candidates, candidates'),
           RowsStay(refunds, refunds')
    PROVE  KeepsResolved
<1>1. Len(history[i]) \in Nat
  BY RowIndexes DEF Inv, Tables
<1>2. history'[i] # history[i]
  BY <1>1 DEF Records
<1> QED BY <1>2 DEF Records, RowsStay, KeepsResolved

\* So does a step that leaves history and outcomes alone.
LEMMA RowsKeepResolved ==
    ASSUME UNCHANGED <<history, outcome>>, RowsStay(candidates, candidates'),
           RowsStay(refunds, refunds')
    PROVE  KeepsResolved
BY DEF RowsStay, KeepsResolved

\* What stays the same stays.
LEMMA SameRows ==
    /\ UNCHANGED candidates => RowsStay(candidates, candidates')
    /\ UNCHANGED refunds => RowsStay(refunds, refunds')
BY DEF RowsStay

\* Every step keeps the invariant and what was resolved.
LEMMA StepKeeps ==
    ASSUME Inv, [Next]_vars
    PROVE  Inv' /\ KeepsResolved
<1>1. CASE UNCHANGED vars
  <2>1. UNCHANGED <<caseVars, processVars, chainVars, request>>
    BY <1>1 DEF vars
  <2>2. Requests'
    BY <2>1 DEF Inv, Requests
  <2>3. KeepsResolved
    BY <2>1, SameRows, RowsKeepResolved DEF caseVars, rowVars, outcomeVars
  <2> QED BY <2>1, <2>2, <2>3, InvReadOnly
<1>2. CASE ChainStep
  <2>1. UNCHANGED caseVars
    BY <1>2 DEF ChainStep, Expire, MinePayment, MineOther
  <2> QED BY <1>2, <2>1, InvChain, SameRows, RowsKeepResolved DEF caseVars, rowVars, outcomeVars
<1>3. CASE KernelStep
  <2>1. PICK i \in Intents : CommitSettlement(i) \/ RefuseSettlement(i) \/ LoseResponse(i)
    BY <1>3 DEF KernelStep
  <2>2. CASE CommitSettlement(i) \/ LoseResponse(i)
    <3>1. UNCHANGED rowVars
      BY <2>2 DEF CommitSettlement, LoseResponse, HoldUnresolved
    <3>2. attempt[i] = "retrying" /\ \A j \in Intents \ {i} : outcome'[j] = outcome[j]
      BY <2>2 DEF CommitSettlement, LoseResponse, HoldUnresolved, Inv, ColumnsTyped
    <3>3. KeepsResolved
      BY <3>1, <3>2 DEF KeepsResolved, rowVars
    <3> QED BY <2>2, <3>3, InvCommit, InvLose
  <2>3. CASE RefuseSettlement(i)
    <3>1. Inv' /\ UNCHANGED caseVars
      BY <2>3, InvStops DEF RefuseSettlement
    <3> QED BY <3>1, SameRows, RowsKeepResolved DEF caseVars, rowVars, outcomeVars
  <2> QED BY <2>1, <2>2, <2>3
<1>4. CASE Crash \/ Restart \/ RefuseStart
  <2>1. UNCHANGED rowVars
    BY <1>4 DEF Crash, Restart, RefuseStart, HoldUnresolved, caseVars
  <2>2. \A j \in Intents : outcome'[j] = outcome[j] \/ attempt[j] = "retrying"
    BY <1>4 DEF Crash, Restart, RefuseStart, HoldUnresolved, caseVars, outcomeVars
  <2>3. KeepsResolved
    BY <2>1, <2>2 DEF KeepsResolved, rowVars
  <2> QED BY <1>4, <2>3, InvProcess
<1>5. CASE \E o \in Operators : FirstLease(o) \/ SecondLease(o) \/ Repetition(o)
  <2>1. PICK o \in Operators : FirstLease(o) \/ SecondLease(o) \/ Repetition(o)
    BY <1>5
  <2>2. CASE \/ \E i \in Intents, kind \in Kinds : Display(o, i, kind)
             \/ PreparePayment(o) \/ PrepareExecution(o) \/ PrepareRefund(o)
             \/ Refuse(o) \/ RefuseUnsigned(o) \/ LearnNothing(o)
             \/ Repetition(o)
    <3>1. Inv' /\ UNCHANGED caseVars
      BY <2>2, InvRead
    <3> QED BY <3>1, SameRows, RowsKeepResolved DEF caseVars, rowVars, outcomeVars
  <2>3. CASE \E t \in Transactions : NamePayment(o, t)
    BY <2>3, InvNamePayment, SameRows, RowsKeepResolved DEF outcomeVars
  <2>4. CASE \E t \in Transactions : NameRefund(o, t)
    BY <2>4, InvNameRefund, SameRows, RowsKeepResolved DEF outcomeVars
  <2>5. CASE AbandonPayment(o)
    BY <2>5, InvAbandonPayment, SameRows, RowsKeepResolved DEF outcomeVars
  <2>6. CASE AbandonRefund(o)
    BY <2>6, InvAbandonRefund, SameRows, RowsKeepResolved DEF outcomeVars
  <2>7. CASE RejectCandidate(o)
    BY <2>7, InvRejectCandidate, SameRows, RecordsKeepResolved
  <2>8. CASE SettlePayment(o)
    BY <2>8, InvSettlePayment, SameRows, RecordsKeepResolved
  <2>9. CASE ReleasePayment(o)
    BY <2>9, InvReleasePayment, SameRows, RecordsKeepResolved
  <2>10. CASE \E result \in {"succeeded", "failed"} : ReconcileExecution(o, result)
    BY <2>10, InvReconcileExecution, SameRows, RecordsKeepResolved
  <2>11. CASE RejectRefund(o)
    BY <2>11, InvRejectRefund, SameRows, RecordsKeepResolved
  <2>12. CASE ConfirmRefund(o)
    BY <2>12, InvConfirmRefund, SameRows, RecordsKeepResolved
  <2> QED
    BY <2>1, <2>2, <2>3, <2>4, <2>5, <2>6, <2>7, <2>8, <2>9, <2>10, <2>11, <2>12
       DEF FirstLease, SecondLease, Kinds
<1> QED BY <1>1, <1>2, <1>3, <1>4, <1>5 DEF Next

\* The invariant of reconciliation.
LEMMA Invariant == Spec => []Inv
<1>1. Inv /\ [Next]_vars => Inv'
  BY StepKeeps
<1> QED BY <1>1, InvInit, PTL DEF Spec

-----------------------------------------------------------------------------
(* The theorems.                                                               *)

\* Every variable, and every row of the two candidate tables, keeps its type.
THEOREM ReconcilerTypeCorrect == Spec => []TypeOK
<1>1. Inv => TypeOK
  BY RowsTyped DEF Inv, TypeOK, Tables
<1> QED BY <1>1, Invariant, PTL

\* A hold becomes a spend only by the transfer that used its authorization, and is
\* given back only when that authorization can never be used any more, whatever
\* operators name and in whatever order their leases run.
THEOREM HoldsFollowTheChain == Spec => []HoldsFollowChain
<1>1. Inv => HoldsFollowChain
  BY DEF Inv, HoldsFollowChain, OnChain, Settled
<1> QED BY <1>1, Invariant, PTL

\* A missing receipt is the newest one, of one intent, and nothing is admitted
\* before the restart that issues it.
THEOREM GapStopsAdmission == Spec => []ReceiptGapStopsAdmission
<1>1. ASSUME Inv PROVE ReceiptGapStopsAdmission
  <2> DEFINE gap == {i \in Intents : receipts[i] # revision[i]}
  <2>1. Receipted /\ ColumnsTyped
    BY <1>1 DEF Inv
  <2>2. \A i \in gap : receipts[i] = revision[i] - 1
    BY <2>1 DEF Receipted, ColumnsTyped
  <2>3. gap # {} => authority # "ready"
    BY <2>1 DEF Receipted, ParityHolds
  <2>4. \A i, j \in gap : i = j
    BY <2>1 DEF Receipted
  <2>5. Cardinality(gap) <= 1
    <3> HIDE DEF gap
    <3>1. CASE gap = {}
      BY <3>1, FS_EmptySet
    <3>2. CASE gap # {}
      <4>1. PICK i \in gap : TRUE
        BY <3>2
      <4>2. gap = {i}
        BY <2>4, <4>1
      <4>3. Cardinality({i}) = 1
        BY FS_Singleton
      <4> QED BY <4>2, <4>3
    <3> QED BY <3>1, <3>2
  <2> QED BY <2>2, <2>3, <2>5 DEF ReceiptGapStopsAdmission
<1> QED BY <1>1, Invariant, PTL

\* One transfer settles one payment or returns the money of one intent, however
\* many operators, attestations and settlement responses name it.
THEOREM OneTransferOneResolution == Spec => []OneResolution
<1>1. ASSUME Inv PROVE OneResolution
  <2> SUFFICES ASSUME NEW t \in Transactions PROVE Cardinality(Resolves(t)) <= 1
    BY DEF OneResolution
  <2>1. OnChain /\ Settled /\ Returned /\ t # NoTransaction
    BY <1>1, ReconcilerAssumption DEF Inv
  <2> DEFINE P == {<<i, 0>> : i \in {j \in Intents : settledBy[j] = t}}
             R(i) == {<<i, k>> : k \in {n \in ConfirmedRefunds(i) : refunds[i][n].tx = t}}
             U == UNION {R(i) : i \in Intents}
  <2>2. Resolves(t) = P \cup U
    BY DEF Resolves
  <2>3. \A i \in Intents : settledBy[i] = t => payment[i] = t /\ mined[t] = "payment"
    BY <2>1 DEF OnChain, Settled
  <2>4. \A i \in Intents : \A k \in ConfirmedRefunds(i) : refunds[i][k].tx = t =>
           mined[t] = "refund"
    BY <2>1 DEF Returned
  <2>5. \A x, y \in P : x = y
    BY <2>1, <2>3 DEF OnChain
  <2>6. \A x, y \in U : x = y
    BY <2>1 DEF Returned
  <2>7. P = {} \/ U = {}
    BY <2>3, <2>4
  <2>8. \A x, y \in Resolves(t) : x = y
    <3> HIDE DEF P, U
    <3> QED BY <2>2, <2>5, <2>6, <2>7
  <2> DEFINE S == Resolves(t)
  <2> HIDE DEF S
  <2>9. CASE S = {}
    BY <2>9, FS_EmptySet DEF S
  <2>10. CASE S # {}
    <3>1. PICK x \in S : TRUE
      BY <2>10
    <3>2. S = {x}
      BY <2>8, <3>1 DEF S
    <3> QED BY <3>2, FS_Singleton DEF S
  <2> QED BY <2>9, <2>10
<1> QED BY <1>1, Invariant, PTL

\* Closed rows keep everything, entries are only added, one at a time, each with
\* one revision of the outcome.
THEOREM ResolutionsAreFinal == Spec => ResolvedForGood
<1>1. Inv /\ [Next]_vars => KeepsResolved
  BY StepKeeps
<1>2. Spec => [][KeepsResolved]_vars
  BY <1>1, Invariant, PTL DEF Spec
<1> QED BY <1>2 DEF ResolvedForGood, KeepsResolved

-----------------------------------------------------------------------------
(***************************************************************************)
(* Reconciliation keeps the promise of HeldPayment for every instance.     *)
(* Most steps name, abandon or reject rows and show the promise nothing;   *)
(* the chain's steps are the promise's Pay and Die; each remaining step    *)
(* moves one payment from one status to the next, and Inv has what the     *)
(* promise asks of it: that the chain shows the payment, that it never     *)
(* can, or that no other return was made with the transfer.                *)
(***************************************************************************)
PromiseStep == [Promise!HeldNext]_(Promise!heldVars)

PaidNow == {i \in Intents : payment[i] # NoTransaction}
DeadNow == {i \in Intents : expired[i]}
RefundedNow == UNION {{<<i, refunds[i][k].tx>> : k \in ConfirmedRefunds(i)} : i \in Intents}

\* What a return was made with is a confirmed row.
LEMMA RefundedIs ==
    \A x : x \in RefundedNow <=>
        \E i \in Intents : \E k \in ConfirmedRefunds(i) : x = <<i, refunds[i][k].tx>>
<1> DEFINE R(i) == {<<i, refunds[i][k].tx>> : k \in ConfirmedRefunds(i)}
<1>1. RefundedNow = UNION {R(i) : i \in Intents}
  BY DEF RefundedNow
<1>2. \A x : x \in RefundedNow <=> \E i \in Intents : x \in R(i)
  <2> HIDE DEF R
  <2> QED BY <1>1
<1> QED BY <1>2

\* The same after a step.
LEMMA RefundedNext ==
    \A x : x \in RefundedNow' <=>
        \E i \in Intents : \E k \in ConfirmedRefunds(i)' : x = <<i, refunds'[i][k].tx>>
<1> DEFINE R(i) == {<<i, refunds'[i][k].tx>> : k \in ConfirmedRefunds(i)'}
<1>1. RefundedNow' = UNION {R(i) : i \in Intents}
  BY DEF RefundedNow
<1>2. \A x : x \in RefundedNow' <=> \E i \in Intents : x \in R(i)
  <2> HIDE DEF R
  <2> QED BY <1>1
<1> QED BY <1>2

\* Refund rows that stay, and none newly confirmed, return nothing.
LEMMA NothingReturned ==
    ASSUME RowsStay(refunds, refunds'), NoneConfirmed(refunds, refunds')
    PROVE  RefundedNow' = RefundedNow
<1>1. ASSUME NEW i \in Intents, NEW k
      PROVE  /\ k \in ConfirmedRefunds(i)' <=> k \in ConfirmedRefunds(i)
             /\ k \in ConfirmedRefunds(i) => refunds'[i][k] = refunds[i][k]
  BY DEF RowsStay, NoneConfirmed, ConfirmedRefunds, Closed, Open
<1>2. \A x : x \in RefundedNow' <=> x \in RefundedNow
  BY <1>1, RefundedIs, RefundedNext
<1> QED BY <1>2

\* Where the status of a payment is read from.
LEMMA StatusOf ==
    ASSUME NEW i \in Intents
    PROVE  /\ attempt[i] = "retrying" => Status(i) = "open"
           /\ attempt[i] = "unresolved" => Status(i) = "held"
           /\ attempt[i] = "rejected" => Status(i) = "released"
           /\ attempt[i] = "settled" /\ outcome[i] = "execution_unknown" => Status(i) = "spent"
           /\ attempt[i] = "settled" /\ outcome[i] = "completed" => Status(i) = "served"
           /\ attempt[i] = "settled" /\ outcome[i] = "execution_failed" => Status(i) = "owed"
           /\ attempt[i] = "settled" /\ outcome[i] = "refunded" => Status(i) = "returned"
BY DEF Status, HoldStatus, SpentStatus

\* The same after a step.
LEMMA StatusNext ==
    ASSUME NEW i \in Intents
    PROVE  /\ attempt'[i] = "retrying" => Status(i)' = "open"
           /\ attempt'[i] = "unresolved" => Status(i)' = "held"
           /\ attempt'[i] = "rejected" => Status(i)' = "released"
           /\ attempt'[i] = "settled" /\ outcome'[i] = "execution_unknown" =>
                 Status(i)' = "spent"
           /\ attempt'[i] = "settled" /\ outcome'[i] = "completed" => Status(i)' = "served"
           /\ attempt'[i] = "settled" /\ outcome'[i] = "execution_failed" => Status(i)' = "owed"
           /\ attempt'[i] = "settled" /\ outcome'[i] = "refunded" => Status(i)' = "returned"
           /\ attempt'[i] = attempt[i] /\ outcome'[i] = outcome[i] => Status(i)' = Status(i)
BY DEF Status, HoldStatus, SpentStatus

\* A step that writes rows, receipts or requests shows nothing.
LEMMA RowsAreStutter ==
    ASSUME UNCHANGED <<attempt, outcome, chainVars>>,
           RowsStay(refunds, refunds'), NoneConfirmed(refunds, refunds')
    PROVE  PromiseStep
<1>1. \A i \in Intents : Status(i)' = Status(i)
  BY StatusNext
<1>2. [i \in Intents |-> Status(i)]' = [i \in Intents |-> Status(i)]
  BY <1>1
<1>3. PaidNow' = PaidNow /\ DeadNow' = DeadNow
  BY DEF PaidNow, DeadNow, chainVars
<1>4. RefundedNow' = RefundedNow
  BY NothingReturned
<1> QED
  BY <1>2, <1>3, <1>4 DEF PromiseStep, Promise!heldVars, PaidNow, DeadNow, RefundedNow

\* One payment moves on, with nothing returned.
LEMMA HoldMoves ==
    ASSUME NEW i \in Intents, UNCHANGED chainVars,
           RowsStay(refunds, refunds'), NoneConfirmed(refunds, refunds'),
           \A j \in Intents \ {i} : Status(j)' = Status(j),
           \/ Status(i) = "open" /\ Status(i)' = "served" /\ payment[i] # NoTransaction
           \/ Status(i) = "held" /\ Status(i)' = "spent" /\ payment[i] # NoTransaction
           \/ Status(i) = "held" /\ Status(i)' = "released" /\ expired[i]
           \/ Status(i) = "spent" /\ Status(i)' \in {"served", "owed"}
    PROVE  PromiseStep
<1> DEFINE s == [j \in Intents |-> Status(j)]
<1>1. s' = [s EXCEPT ![i] = Status(i)'] /\ s[i] = Status(i)
  OBVIOUS
<1>2. PaidNow' = PaidNow /\ DeadNow' = DeadNow
  BY DEF PaidNow, DeadNow, chainVars
<1>3. RefundedNow' = RefundedNow
  BY NothingReturned
<1>4. CASE Status(i) = "open" /\ Status(i)' = "served" /\ payment[i] # NoTransaction
  <2>1. i \in PaidNow
    BY <1>4 DEF PaidNow
  <2>2. Promise!Complete(i)
    BY <1>1, <1>2, <1>3, <1>4, <2>1
       DEF Promise!Complete, Promise!Becomes, PaidNow, DeadNow, RefundedNow
  <2> QED BY <2>2 DEF PromiseStep, Promise!HeldNext
<1>5. CASE Status(i) = "held" /\ Status(i)' = "spent" /\ payment[i] # NoTransaction
  <2>1. i \in PaidNow
    BY <1>5 DEF PaidNow
  <2>2. Promise!Confirm(i)
    BY <1>1, <1>2, <1>3, <1>5, <2>1
       DEF Promise!Confirm, Promise!Becomes, PaidNow, DeadNow, RefundedNow
  <2> QED BY <2>2 DEF PromiseStep, Promise!HeldNext
<1>6. CASE Status(i) = "held" /\ Status(i)' = "released" /\ expired[i]
  <2>1. i \in DeadNow
    BY <1>6 DEF DeadNow
  <2>2. Promise!GiveUp(i)
    BY <1>1, <1>2, <1>3, <1>6, <2>1
       DEF Promise!GiveUp, Promise!Becomes, PaidNow, DeadNow, RefundedNow
  <2> QED BY <2>2 DEF PromiseStep, Promise!HeldNext
<1>7. CASE Status(i) = "spent" /\ Status(i)' \in {"served", "owed"}
  <2>1. Promise!Attest(i)
    BY <1>1, <1>2, <1>3, <1>7
       DEF Promise!Attest, Promise!Becomes, PaidNow, DeadNow, RefundedNow
  <2> QED BY <2>1 DEF PromiseStep, Promise!HeldNext
<1> QED BY <1>4, <1>5, <1>6, <1>7

-----------------------------------------------------------------------------
\* What the chain shows of a payment, it shows once and for all.
LEMMA ChainSteps ==
    ASSUME Inv, ChainStep
    PROVE  PromiseStep
<1>1. UNCHANGED caseVars
  BY DEF ChainStep, Expire, MinePayment, MineOther
<1>2. UNCHANGED <<attempt, outcome, refunds>>
  BY <1>1 DEF caseVars, holdVars, outcomeVars, rowVars
<1>3. [i \in Intents |-> Status(i)]' = [i \in Intents |-> Status(i)]
  BY <1>2, StatusNext
<1>4. RefundedNow' = RefundedNow
  BY <1>2 DEF RefundedNow, ConfirmedRefunds
<1>5. ChainTyped /\ OnChain
  BY DEF Inv
<1>6. ASSUME NEW i \in Intents, NEW t \in Transactions, MinePayment(i, t)
      PROVE  PromiseStep
  <2>1. PaidNow' = PaidNow \cup {i} /\ DeadNow' = DeadNow /\ i \notin PaidNow \cup DeadNow
    BY <1>5, <1>6, ReconcilerAssumption DEF MinePayment, PaidNow, DeadNow, ChainTyped
  <2>2. Promise!Pay(i)
    BY <1>3, <1>4, <2>1 DEF Promise!Pay, PaidNow, DeadNow, RefundedNow
  <2> QED BY <2>2 DEF PromiseStep, Promise!HeldNext
<1>7. ASSUME NEW i \in Intents, Expire(i)
      PROVE  PromiseStep
  <2>1. DeadNow' = DeadNow \cup {i} /\ PaidNow' = PaidNow /\ i \notin PaidNow \cup DeadNow
    BY <1>5, <1>7 DEF Expire, PaidNow, DeadNow, ChainTyped
  <2>2. Promise!Die(i)
    BY <1>3, <1>4, <2>1 DEF Promise!Die, PaidNow, DeadNow, RefundedNow
  <2> QED BY <2>2 DEF PromiseStep, Promise!HeldNext
<1>8. ASSUME NEW t \in Transactions, NEW what \in {"refund", "other"}, MineOther(t, what)
      PROVE  PromiseStep
  <2>1. PaidNow' = PaidNow /\ DeadNow' = DeadNow
    BY <1>8 DEF MineOther, PaidNow, DeadNow
  <2> QED
    BY <1>3, <1>4, <2>1 DEF PromiseStep, Promise!heldVars, PaidNow, DeadNow, RefundedNow
<1> QED BY <1>6, <1>7, <1>8 DEF ChainStep

\* Payments in flight are lost, at a restart all of them.
LEMMA LosesSome ==
    ASSUME Inv, NEW S \in SUBSET {i \in Intents : attempt[i] = "retrying"}, HoldUnresolved(S)
    PROVE  PromiseStep
<1> DEFINE s == [i \in Intents |-> Status(i)]
<1>1. UNCHANGED <<refunds, chainVars>>
  BY DEF HoldUnresolved, rowVars
<1>2. \A i \in S : Status(i) = "open" /\ Status(i)' = "held"
  BY StatusOf, StatusNext DEF HoldUnresolved
<1>3. \A i \in Intents \ S : Status(i)' = Status(i)
  BY StatusNext DEF HoldUnresolved
<1>4. s' = [i \in Intents |-> IF i \in S THEN "held" ELSE s[i]] /\ \A i \in S : s[i] = "open"
  BY <1>2, <1>3
<1>5. PaidNow' = PaidNow /\ DeadNow' = DeadNow /\ RefundedNow' = RefundedNow
  BY <1>1 DEF PaidNow, DeadNow, RefundedNow, ConfirmedRefunds, chainVars
<1>6. Promise!Lose(S)
  BY <1>4, <1>5 DEF Promise!Lose, PaidNow, DeadNow, RefundedNow
<1> QED BY <1>6 DEF PromiseStep, Promise!HeldNext

\* The Kernel sees a payment through by itself.
LEMMA Commits ==
    ASSUME Inv, NEW i \in Intents, CommitSettlement(i)
    PROVE  PromiseStep
<1>1. /\ UNCHANGED <<refunds, chainVars>> /\ attempt[i] = "retrying"
      /\ payment[i] # NoTransaction
  BY DEF CommitSettlement, rowVars
<1>2. /\ attempt'[i] = "settled" /\ outcome'[i] = "completed"
      /\ \A j \in Intents \ {i} : attempt'[j] = attempt[j] /\ outcome'[j] = outcome[j]
  BY DEF CommitSettlement, Inv, ColumnsTyped
<1>3. /\ Status(i) = "open" /\ Status(i)' = "served"
      /\ \A j \in Intents \ {i} : Status(j)' = Status(j)
  BY <1>1, <1>2, StatusOf, StatusNext
<1>4. RowsStay(refunds, refunds') /\ NoneConfirmed(refunds, refunds')
  BY <1>1 DEF RowsStay, NoneConfirmed
<1> QED BY <1>1, <1>3, <1>4, HoldMoves

\* A hold is spent, released, or closed by the seller's word.
LEMMA HoldResolves ==
    ASSUME Inv, NEW o \in Operators, NEW i, i = request[o].intent,
           \/ SettlePayment(o) \/ ReleasePayment(o)
           \/ \E result \in {"succeeded", "failed"} : ReconcileExecution(o, result)
    PROVE  PromiseStep
<1>1. CASE SettlePayment(o)
  <2>1. /\ i \in Intents /\ Records(i) /\ attempt[i] = "unresolved"
        /\ attempt' = [attempt EXCEPT ![i] = "settled"] /\ outcome'[i] = "execution_unknown"
        /\ payment[i] # NoTransaction /\ UNCHANGED <<refunds, chainVars>>
    BY <1>1, InvSettlePayment
  <2>2. /\ attempt'[i] = "settled"
        /\ \A j \in Intents \ {i} : attempt'[j] = attempt[j] /\ outcome'[j] = outcome[j]
    BY <2>1 DEF Records, Inv, ColumnsTyped
  <2>3. /\ Status(i) = "held" /\ Status(i)' = "spent"
        /\ \A j \in Intents \ {i} : Status(j)' = Status(j)
    BY <2>1, <2>2, StatusOf, StatusNext
  <2>4. RowsStay(refunds, refunds') /\ NoneConfirmed(refunds, refunds')
    BY <2>1 DEF RowsStay, NoneConfirmed
  <2> QED BY <2>1, <2>3, <2>4, HoldMoves
<1>2. CASE ReleasePayment(o)
  <2>1. /\ i \in Intents /\ Records(i) /\ attempt[i] = "unresolved"
        /\ attempt' = [attempt EXCEPT ![i] = "rejected"]
        /\ expired[i] /\ UNCHANGED <<refunds, chainVars>>
    BY <1>2, InvReleasePayment
  <2>2. /\ attempt'[i] = "rejected"
        /\ \A j \in Intents \ {i} : attempt'[j] = attempt[j] /\ outcome'[j] = outcome[j]
    BY <2>1 DEF Records, Inv, ColumnsTyped
  <2>3. /\ Status(i) = "held" /\ Status(i)' = "released"
        /\ \A j \in Intents \ {i} : Status(j)' = Status(j)
    BY <2>1, <2>2, StatusOf, StatusNext
  <2>4. RowsStay(refunds, refunds') /\ NoneConfirmed(refunds, refunds')
    BY <2>1 DEF RowsStay, NoneConfirmed
  <2> QED BY <2>1, <2>3, <2>4, HoldMoves
<1>3. CASE \E result \in {"succeeded", "failed"} : ReconcileExecution(o, result)
  <2>1. /\ RowsStay(refunds, refunds') /\ NoneConfirmed(refunds, refunds')
        /\ i \in Intents /\ Records(i) /\ attempt[i] = "settled"
        /\ outcome[i] = "execution_unknown"
        /\ outcome'[i] \in {"completed", "execution_failed"}
        /\ UNCHANGED <<attempt, chainVars>>
    BY <1>3, InvReconcileExecution DEF holdVars
  <2>2. \A j \in Intents \ {i} : attempt'[j] = attempt[j] /\ outcome'[j] = outcome[j]
    BY <2>1 DEF Records
  <2>3. /\ Status(i) = "spent" /\ Status(i)' \in {"served", "owed"}
        /\ \A j \in Intents \ {i} : Status(j)' = Status(j)
    BY <2>1, <2>2, StatusOf, StatusNext
  <2> QED BY <2>1, <2>3, HoldMoves
<1> QED BY <1>1, <1>2, <1>3

\* The money of a failed execution comes back.
LEMMA Returns ==
    ASSUME Inv, NEW o \in Operators, NEW i, i = request[o].intent,
           NEW k, k = request[o].row, NEW t, t = refunds[i][k].tx,
           ConfirmRefund(o)
    PROVE  PromiseStep
<1> DEFINE s == [j \in Intents |-> Status(j)]
<1>1. /\ i \in Intents /\ Records(i)
      /\ attempt[i] = "settled" /\ outcome[i] = "execution_failed" /\ outcome'[i] = "refunded"
      /\ k \in DOMAIN refunds[i] /\ t \in Transactions
      /\ RowsNaming(t) = {<<"refund", i, k>>}
      /\ DOMAIN refunds'[i] = DOMAIN refunds[i] /\ refunds[i][k].state # "confirmed"
      /\ refunds'[i][k].state = "confirmed" /\ refunds'[i][k].tx = t
      /\ \A n \in DOMAIN refunds[i] \ {k} : refunds'[i][n] = refunds[i][n]
      /\ \A j \in Intents \ {i} : refunds'[j] = refunds[j]
      /\ UNCHANGED <<attempt, chainVars>>
  BY InvConfirmRefund
<1>2. \A j \in Intents \ {i} : attempt'[j] = attempt[j] /\ outcome'[j] = outcome[j]
  BY <1>1 DEF Records
<1>3. /\ Status(i) = "owed" /\ Status(i)' = "returned"
      /\ \A j \in Intents \ {i} : Status(j)' = Status(j)
  BY <1>1, <1>2, StatusOf, StatusNext
<1>4. s' = [s EXCEPT ![i] = "returned"] /\ s[i] = "owed"
  BY <1>1, <1>3
<1>5. PaidNow' = PaidNow /\ DeadNow' = DeadNow
  BY <1>1 DEF PaidNow, DeadNow, chainVars
<1>6. \A j \in Intents : <<j, t>> \notin RefundedNow
  <2> SUFFICES ASSUME NEW j \in Intents, <<j, t>> \in RefundedNow PROVE FALSE
    OBVIOUS
  <2>0. PICK p \in Intents : \E n \in ConfirmedRefunds(p) : <<j, t>> = <<p, refunds[p][n].tx>>
    BY RefundedIs
  <2>1. PICK n \in ConfirmedRefunds(p) : <<j, t>> = <<p, refunds[p][n].tx>>
    BY <2>0
  <2>2. n \in DOMAIN refunds[p] /\ refunds[p][n].tx = t /\ refunds[p][n].state = "confirmed"
    BY <2>1 DEF ConfirmedRefunds
  <2>3. <<"refund", p, n>> \in RowsNaming(t)
    BY <2>2, RefundNamed
  <2>4. p = i /\ n = k
    BY <1>1, <2>3
  <2> QED BY <1>1, <2>2, <2>4
<1>7. RefundedNow' = RefundedNow \cup {<<i, t>>}
  <2>1. ASSUME NEW j \in Intents, NEW n
        PROVE  /\ n \in ConfirmedRefunds(j)' <=> n \in ConfirmedRefunds(j) \/ (j = i /\ n = k)
               /\ n \in ConfirmedRefunds(j) => refunds'[j][n] = refunds[j][n]
    BY <1>1 DEF ConfirmedRefunds
  <2>2. ASSUME NEW x PROVE x \in RefundedNow' <=> x \in RefundedNow \/ x = <<i, t>>
    <3>1. ASSUME x \in RefundedNow' PROVE x \in RefundedNow \/ x = <<i, t>>
      <4>0. PICK j \in Intents : \E n \in ConfirmedRefunds(j)' : x = <<j, refunds'[j][n].tx>>
        BY <3>1, RefundedNext
      <4>1. PICK n \in ConfirmedRefunds(j)' : x = <<j, refunds'[j][n].tx>>
        BY <4>0
      <4> QED BY <1>1, <2>1, <4>1, RefundedIs
    <3>2. ASSUME x \in RefundedNow PROVE x \in RefundedNow'
      <4>0. PICK j \in Intents : \E n \in ConfirmedRefunds(j) : x = <<j, refunds[j][n].tx>>
        BY <3>2, RefundedIs
      <4>1. PICK n \in ConfirmedRefunds(j) : x = <<j, refunds[j][n].tx>>
        BY <4>0
      <4> QED BY <2>1, <4>1, RefundedNext
    <3>3. <<i, t>> \in RefundedNow'
      BY <1>1, <2>1, RefundedNext
    <3> QED BY <3>1, <3>2, <3>3
  <2> QED BY <2>2
<1>8. Promise!GiveBack(i, t)
  BY <1>1, <1>4, <1>5, <1>6, <1>7
     DEF Promise!GiveBack, Promise!Becomes, PaidNow, DeadNow, RefundedNow
<1> QED BY <1>1, <1>8 DEF PromiseStep, Promise!HeldNext

-----------------------------------------------------------------------------
\* Every hold is open or unresolved at first, and the chain shows nothing.
LEMMA PromiseStart == Init => Promise!HeldInit
<1> SUFFICES ASSUME Init PROVE Promise!HeldInit
  OBVIOUS
<1>1. \A i \in Intents : Status(i) \in {"open", "held"}
  BY StatusOf DEF Init
<1>2. [i \in Intents |-> Status(i)] \in [Intents -> {"open", "held"}]
  BY <1>1
<1>3. PaidNow = {} /\ DeadNow = {}
  BY DEF Init, PaidNow, DeadNow
<1>4. \A i \in Intents : ConfirmedRefunds(i) = {}
  BY DEF Init, ConfirmedRefunds
<1>5. RefundedNow = {}
  BY <1>4, RefundedIs
<1> QED BY <1>2, <1>3, <1>5 DEF Promise!HeldInit, PaidNow, DeadNow, RefundedNow

\* Every step is a step of the promise, or shows nothing of it.
LEMMA PromiseNext == Inv /\ [Next]_vars => PromiseStep
<1> SUFFICES ASSUME Inv, [Next]_vars PROVE PromiseStep
  OBVIOUS
<1>1. CASE UNCHANGED <<attempt, outcome, refunds, chainVars>>
  <2>1. RowsStay(refunds, refunds') /\ NoneConfirmed(refunds, refunds')
    BY <1>1 DEF RowsStay, NoneConfirmed
  <2> QED BY <1>1, <2>1, RowsAreStutter
<1>2. CASE ChainStep
  BY <1>2, ChainSteps
<1>3. CASE KernelStep
  <2>1. PICK i \in Intents : CommitSettlement(i) \/ RefuseSettlement(i) \/ LoseResponse(i)
    BY <1>3 DEF KernelStep
  <2>2. CASE LoseResponse(i)
    <3>1. HoldUnresolved({i}) /\ {i} \in SUBSET {j \in Intents : attempt[j] = "retrying"}
      BY <2>2 DEF LoseResponse
    <3> QED BY <3>1, LosesSome
  <2>3. CASE RefuseSettlement(i)
    <3>1. UNCHANGED <<caseVars, chainVars>>
      BY <2>3 DEF RefuseSettlement
    <3> QED BY <1>1, <3>1 DEF caseVars, holdVars, outcomeVars, rowVars
  <2> QED BY <2>1, <2>2, <2>3, Commits
<1>4. CASE Restart
  <2> DEFINE S == {i \in Intents : attempt[i] = "retrying"}
  <2>1. HoldUnresolved(S) /\ S \in SUBSET {i \in Intents : attempt[i] = "retrying"}
    BY <1>4 DEF Restart
  <2> HIDE DEF S
  <2> QED BY <2>1, LosesSome
<1>5. CASE Crash \/ RefuseStart \/ UNCHANGED vars
  <2>1. UNCHANGED <<caseVars, chainVars>>
    BY <1>5 DEF Crash, RefuseStart, vars
  <2> QED BY <1>1, <2>1 DEF caseVars, holdVars, outcomeVars, rowVars
<1>6. CASE \E o \in Operators : FirstLease(o) \/ SecondLease(o) \/ Repetition(o)
  <2>1. PICK o \in Operators : FirstLease(o) \/ SecondLease(o) \/ Repetition(o)
    BY <1>6
  <2>2. CASE \/ \E i \in Intents, kind \in Kinds : Display(o, i, kind)
             \/ PreparePayment(o) \/ PrepareExecution(o) \/ PrepareRefund(o)
             \/ Refuse(o) \/ RefuseUnsigned(o) \/ LearnNothing(o)
             \/ Repetition(o)
    <3>1. UNCHANGED <<caseVars, chainVars>>
      BY <2>2, InvRead
    <3> QED BY <1>1, <3>1 DEF caseVars, holdVars, outcomeVars, rowVars
  <2>3. CASE (\E t \in Transactions : NamePayment(o, t)) \/ AbandonPayment(o)
             \/ RejectCandidate(o)
    <3>1. UNCHANGED <<holdVars, outcome, refunds, chainVars>>
      BY <2>3, InvNamePayment, InvAbandonPayment, InvRejectCandidate DEF outcomeVars
    <3> QED BY <1>1, <3>1 DEF holdVars
  <2>4. CASE (\E t \in Transactions : NameRefund(o, t)) \/ AbandonRefund(o) \/ RejectRefund(o)
    <3>1. /\ UNCHANGED <<holdVars, outcome, chainVars>>
          /\ RowsStay(refunds, refunds') /\ NoneConfirmed(refunds, refunds')
      BY <2>4, InvNameRefund, InvAbandonRefund, InvRejectRefund DEF outcomeVars
    <3> QED BY <3>1, RowsAreStutter DEF holdVars
  <2>5. CASE \/ SettlePayment(o) \/ ReleasePayment(o)
             \/ \E result \in {"succeeded", "failed"} : ReconcileExecution(o, result)
    <3>1. PICK i : i = request[o].intent
      OBVIOUS
    <3> QED BY <2>5, <3>1, HoldResolves
  <2>6. CASE ConfirmRefund(o)
    <3>1. PICK i : i = request[o].intent
      OBVIOUS
    <3>2. PICK k : k = request[o].row
      OBVIOUS
    <3>3. PICK t : t = refunds[i][k].tx
      OBVIOUS
    <3> QED BY <2>6, <3>1, <3>2, <3>3, Returns
  <2> QED
    BY <2>1, <2>2, <2>3, <2>4, <2>5, <2>6 DEF FirstLease, SecondLease, Kinds
<1> QED BY <1>2, <1>3, <1>4, <1>5, <1>6 DEF Next

\* ImplementsHeldPayment: a hold becomes a spend or is released only as the chain
\* shows, and what is owed comes back once, with a transfer of its own, however the
\* leases of operators interleave with each other, the chain and crashes.
THEOREM ReconcilerKeepsThePromise == Spec => ImplementsHeldPayment
<1>1. Inv /\ [Next]_vars => [Promise!HeldNext]_(Promise!heldVars)
  BY PromiseNext DEF PromiseStep
<1> QED
  BY Invariant, PromiseStart, <1>1, PTL DEF Spec, ImplementsHeldPayment, Promise!HeldSpec

=============================================================================
