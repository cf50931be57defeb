---------------------- MODULE ReconcilerHistory_proofs ----------------------
(***************************************************************************)
(* Whatever operators do between two startups, the audit recomputes, from  *)
(* the rows in their order, every case hash the events carry.              *)
(*                                                                         *)
(* The audit counts the resolved rows before a row to find the revision    *)
(* the case had, and takes the earlier rows as they are now for the ones   *)
(* the operator saw.  Recomputable says why it may: only the last row of a *)
(* table is ever pending, so the earlier ones were closed when the row was *)
(* named and are closed for good; each entry of the history raised the     *)
(* revision by one and, but for the one that released the hold, closed one *)
(* row; and no two entries carry the same evidence, so each resolved row   *)
(* finds its own.  ShownIn is what lets an entry carry the hash of before  *)
(* the row it closes was named: the request that asks about the row either *)
(* saw it or is the one that named it.                                     *)
(*                                                                         *)
(* The audit also demands that every transaction has one owner.  Within an *)
(* intent Distinct says so; OneOwner says it of the rows of two intents,   *)
(* and of a payment and the rows of its own intent.                        *)
(***************************************************************************)
EXTENDS Reconciler_proofs

RowResolved(row) == row.state \in {"confirmed", "rejected"}

\* What the audit counts: the resolved rows before row k.
Count(rows, k) == Cardinality({n \in 1..(k - 1) : RowResolved(rows[n])})

\* The case of a hold before candidate k was named, and while it was pending.
CaseBefore(cs, k) == PaymentCaseOf(1 + Count(cs, k), Earlier(cs, k))
CaseAt(cs, k) == PaymentCaseOf(1 + Count(cs, k), Append(Earlier(cs, k), AsPending(cs[k])))

\* The same of a refund, which may be opened before it names a transaction.
RefundRevision(rs, rev, k) == rev - Count(rs, Len(rs) + 1) + Count(rs, k)

RefundAt(rs, rev, by, k) ==
    RefundCaseOf(by, RefundRevision(rs, rev, k), Append(Earlier(rs, k), AsPending(rs[k])))

RefundsBefore(rs, rev, by, k) ==
    {RefundCaseOf(by, RefundRevision(rs, rev, k), Earlier(rs, k)),
     RefundCaseOf(by, RefundRevision(rs, rev, k),
                  Append(Earlier(rs, k), [AsPending(rs[k]) EXCEPT !.tx = NoTransaction]))}

\* The entry that closed a row was decided on the case the operator saw.
Entered(h, row, seen) ==
    \E n \in DOMAIN h : /\ h[n].evidence = row.evidence
                        /\ h[n].observed = seen
                        /\ h[n].requested \in {row.previous, seen}

RowSound(rows, k) ==
    /\ DOMAIN rows[k] = {"tx", "state", "evidence", "previous", "closed"}
    /\ rows[k].state \in {"pending", "abandoned", "rejected", "confirmed"}
    /\ rows[k].state = "pending" => k = Len(rows)
    /\ rows[k].state \in {"pending", "abandoned"} => rows[k].evidence = NoEvidence

Absent(t) == [kind |-> "absent", tx |-> t]
Unused == [kind |-> "unused", tx |-> NoTransaction]

CandidateSound(cs, h, att, by, k) ==
    LET row == cs[k] IN
    /\ RowSound(cs, k)
    /\ row.tx \in Transactions
    /\ row.state = "rejected" => \/ row.evidence = Absent(row.tx)
                                 \/ row.evidence = Unused /\ att = "rejected"
    /\ row.state = "confirmed" => row.evidence = [kind |-> "settled", tx |-> row.tx] /\ by = row.tx
    /\ row.previous = CaseBefore(cs, k)
    /\ row.state = "abandoned" => row.closed = CaseAt(cs, k)
    /\ RowResolved(row) => Entered(h, row, CaseAt(cs, k))

RefundSound(rs, h, rev, by, k) ==
    LET row == rs[k] IN
    /\ RowSound(rs, k)
    /\ row.tx \in Transactions \cup {NoTransaction}
    /\ row.tx = NoTransaction => row.state = "pending"
    /\ row.state = "rejected" => row.evidence = Absent(row.tx)
    /\ row.state = "confirmed" => row.evidence = [kind |-> "refunded", tx |-> row.tx]
    /\ row.tx # NoTransaction => row.previous \in RefundsBefore(rs, rev, by, k)
    /\ row.state = "abandoned" => row.closed = RefundAt(rs, rev, by, k)
    /\ RowResolved(row) => Entered(h, row, RefundAt(rs, rev, by, k))

\* No two rows of an intent name one transaction.
Distinct(cs, rs) ==
    /\ \A k, n \in DOMAIN cs : cs[k].tx = cs[n].tx => k = n
    /\ \A k, n \in DOMAIN rs : rs[k].tx = rs[n].tx /\ rs[k].tx # NoTransaction => k = n
    /\ \A k \in DOMAIN cs, n \in DOMAIN rs : cs[k].tx # rs[n].tx

\* What each entry is evidence of; the n-th was decided at revision n.
EntrySound(cs, rs, att, by, exe, e, n) ==
    \/ /\ e.kind = "payment" /\ e.outcome = "settled" /\ att = "settled"
       /\ e.evidence = [kind |-> "settled", tx |-> by]
       /\ \E k \in DOMAIN cs : cs[k].state = "confirmed" /\ cs[k].tx = by
    \/ /\ e.kind = "payment" /\ e.outcome = "unresolved"
       /\ \E k \in DOMAIN cs : cs[k].state = "rejected" /\ e.evidence = Absent(cs[k].tx)
    \/ /\ e.kind = "payment" /\ e.outcome = "rejected" /\ att = "rejected"
       /\ e.evidence = Unused
    \/ /\ e.kind = "execution" /\ e.outcome \in {"succeeded", "failed"} /\ exe = e.outcome
       /\ att = "settled" /\ e.evidence = [kind |-> "attested", tx |-> by]
       /\ e.requested = e.observed
       /\ e.observed = [kind |-> "execution", tx |-> by, execution |-> "unknown",
                        resolution |-> "reconciliation_required", revision |-> n]
    \/ /\ e.kind = "refund" /\ e.outcome = "refund_rejected"
       /\ \E k \in DOMAIN rs : rs[k].state = "rejected" /\ e.evidence = Absent(rs[k].tx)
    \/ /\ e.kind = "refund" /\ e.outcome = "refund_confirmed"
       /\ \E k \in DOMAIN rs : /\ rs[k].state = "confirmed"
                               /\ e.evidence = [kind |-> "refunded", tx |-> rs[k].tx]

\* Every entry raised the revision, and of a hold every one closed a candidate.
Numbered(cs, rs, h, rev, att, exe) ==
    /\ att = "retrying" => cs = << >> /\ h = << >>
    /\ att # "retrying" => rev = Len(h) + 1
    /\ att = "unresolved" => Len(h) = Count(cs, Len(cs) + 1)
    /\ exe # "failed" => rs = << >>

EntriesSound(cs, rs, h, att, by, exe) ==
    /\ \A n \in DOMAIN h : EntrySound(cs, rs, att, by, exe, h[n], n)
    /\ \A m, n \in DOMAIN h : h[m].evidence = h[n].evidence => m = n

Recomputable(cs, rs, h, rev, att, by, exe) ==
    /\ \A k \in DOMAIN cs : CandidateSound(cs, h, att, by, k)
    /\ \A k \in DOMAIN rs : RefundSound(rs, h, rev, by, k)
    /\ Distinct(cs, rs)
    /\ EntriesSound(cs, rs, h, att, by, exe)
    /\ Numbered(cs, rs, h, rev, att, exe)

\* A request that waits for an answer was shown the case it is bound to, or named
\* the row it asks about.
ShownIn(r, cs, rs) ==
    LET rows == IF r.kind = "payment" THEN cs[r.intent] ELSE rs[r.intent] IN
    r.phase = "asked" =>
       \/ r.case = r.bound
       \/ /\ r.kind # "execution" /\ r.row \in DOMAIN rows
          /\ rows[r.row].tx # NoTransaction
          /\ rows[r.row].previous = r.case

HistoryInv ==
    /\ \A i \in Intents : Recomputable(candidates[i], refunds[i], history[i], revision[i],
                                       attempt[i], settledBy[i], execution[i])
    /\ \A o \in Operators : ShownIn(request[o], candidates, refunds)

-----------------------------------------------------------------------------
(* Rows as sequences, and what a case hash shows of them.                      *)

IsList(s) == \E S : s \in Seq(S)

LEMMA ListIndexes ==
    ASSUME NEW s, IsList(s)
    PROVE  Len(s) \in Nat /\ DOMAIN s = 1..Len(s)
BY LenProperties DEF IsList

\* What a case hash shows of one row.
ShownRow(row) == [tx |-> row.tx, state |-> row.state, evidence |-> row.evidence]

\* The rows shown before row k are those rows.
LEMMA EarlierIs ==
    ASSUME NEW rows, IsList(rows), NEW k \in 1..(Len(rows) + 1)
    PROVE  /\ IsList(Earlier(rows, k)) /\ Len(Earlier(rows, k)) = k - 1
           /\ \A n \in 1..(k - 1) : Earlier(rows, k)[n] = ShownRow(rows[n])
<1> DEFINE shown == Shown(rows)
           T == {shown[n] : n \in DOMAIN rows}
<1>1. Len(rows) \in Nat /\ DOMAIN rows = 1..Len(rows)
  BY ListIndexes
<1>2. \A n \in 1..(k - 1) : shown[n] \in T /\ shown[n] = ShownRow(rows[n])
  BY <1>1 DEF Shown, ShownRow
<1> HIDE DEF shown, T
<1>3. k - 1 \in Int /\ 1 \in Int /\ k \in Nat /\ k >= 1
  BY <1>1
<1>4. /\ SubSeq(shown, 1, k - 1) \in Seq(T)
      /\ Len(SubSeq(shown, 1, k - 1)) = IF 1 <= k - 1 THEN (k - 1) - 1 + 1 ELSE 0
      /\ \A n \in 1..((k - 1) - 1 + 1) : SubSeq(shown, 1, k - 1)[n] = shown[1 + n - 1]
  BY <1>2, <1>3, SubSeqProperties
<1>5. /\ Len(SubSeq(shown, 1, k - 1)) = k - 1
      /\ \A n \in 1..(k - 1) : SubSeq(shown, 1, k - 1)[n] = shown[n]
  BY <1>3, <1>4
<1> QED BY <1>2, <1>4, <1>5 DEF Earlier, IsList, shown

\* Lists with the same elements are the same list.
LEMMA SameList ==
    ASSUME NEW s, NEW t, IsList(s), IsList(t), Len(s) = Len(t),
           \A n \in 1..Len(s) : s[n] = t[n]
    PROVE  s = t
<1>1. PICK S, T : s \in Seq(S) /\ t \in Seq(T)
  BY DEF IsList
<1> DEFINE U == S \cup T
<1>2. Len(s) \in Nat /\ s \in [1..Len(s) -> S] /\ t \in [1..Len(t) -> T]
  BY <1>1, LenProperties
<1>3. s \in [1..Len(s) -> U] /\ t \in [1..Len(s) -> U]
  BY <1>2
<1> QED BY <1>2, <1>3

\* Nothing changes before row k, then nothing the audit recomputes for row k does.
LEMMA SameBefore ==
    ASSUME NEW f, NEW g, IsList(f), IsList(g), NEW k \in 1..(Len(f) + 1), k <= Len(g) + 1,
           \A n \in 1..(k - 1) : g[n] = f[n]
    PROVE  Earlier(g, k) = Earlier(f, k) /\ Count(g, k) = Count(f, k)
<1>1. Len(f) \in Nat /\ Len(g) \in Nat
  BY ListIndexes
<1>2. k \in 1..(Len(g) + 1)
  BY <1>1
<1>3. /\ IsList(Earlier(f, k)) /\ Len(Earlier(f, k)) = k - 1
      /\ \A n \in 1..(k - 1) : Earlier(f, k)[n] = ShownRow(f[n])
  BY EarlierIs
<1>4. /\ IsList(Earlier(g, k)) /\ Len(Earlier(g, k)) = k - 1
      /\ \A n \in 1..(k - 1) : Earlier(g, k)[n] = ShownRow(g[n])
  BY <1>2, EarlierIs
<1>5. Earlier(g, k) = Earlier(f, k)
  BY <1>3, <1>4, SameList
<1>6. {n \in 1..(k - 1) : RowResolved(g[n])} = {n \in 1..(k - 1) : RowResolved(f[n])}
  OBVIOUS
<1> QED BY <1>5, <1>6 DEF Count

\* The whole table, as a case hash shows it.
LEMMA ShownAll ==
    ASSUME NEW rows, IsList(rows)
    PROVE  Shown(rows) = Earlier(rows, Len(rows) + 1)
<1> DEFINE shown == Shown(rows)
           k == Len(rows) + 1
<1>1. Len(rows) \in Nat /\ DOMAIN rows = 1..Len(rows)
  BY ListIndexes
<1>2. IsFcn(shown) /\ DOMAIN shown = DOMAIN rows
      /\ \A n \in 1..Len(rows) : shown[n] = ShownRow(rows[n])
  BY <1>1 DEF Shown, ShownRow, IsFcn
<1> HIDE DEF shown
<1>3. IsList(shown)
  <2>1. PICK S : rows \in Seq(S)
    BY DEF IsList
  <2> QED BY <1>2, <2>1, Remade DEF IsList
<1>4. Len(shown) = Len(rows)
  <2>1. Len(shown) \in Nat /\ DOMAIN shown = 1..Len(shown)
    BY <1>3, ListIndexes
  <2> QED BY <1>1, <1>2, <2>1
<1>5. k \in 1..(Len(rows) + 1) /\ k - 1 = Len(rows)
  BY <1>1
<1>6. /\ IsList(Earlier(rows, k)) /\ Len(Earlier(rows, k)) = k - 1
      /\ \A n \in 1..(k - 1) : Earlier(rows, k)[n] = ShownRow(rows[n])
  BY <1>5, EarlierIs
<1> HIDE DEF k
<1>7. shown = Earlier(rows, k)
  BY <1>2, <1>3, <1>4, <1>5, <1>6, SameList
<1> QED BY <1>7 DEF shown, k

\* The rows before k + 1 are those before k, and k.
LEMMA EarlierNext ==
    ASSUME NEW rows, IsList(rows), NEW k \in 1..Len(rows)
    PROVE  Earlier(rows, k + 1) = Append(Earlier(rows, k), ShownRow(rows[k]))
<1> DEFINE a == Append(Earlier(rows, k), ShownRow(rows[k]))
           b == Earlier(rows, k + 1)
<1>1. Len(rows) \in Nat
  BY ListIndexes
<1>2. k \in 1..(Len(rows) + 1) /\ k + 1 \in 1..(Len(rows) + 1) /\ k \in Nat /\ (k + 1) - 1 = k
  BY <1>1
<1>3. /\ IsList(Earlier(rows, k)) /\ Len(Earlier(rows, k)) = k - 1
      /\ \A n \in 1..(k - 1) : Earlier(rows, k)[n] = ShownRow(rows[n])
  BY <1>2, EarlierIs
<1>4. /\ IsList(b) /\ Len(b) = k
      /\ \A n \in 1..k : b[n] = ShownRow(rows[n])
  BY <1>2, EarlierIs
<1>5. /\ IsList(a) /\ Len(a) = (k - 1) + 1
      /\ \A n \in 1..(k - 1) : a[n] = Earlier(rows, k)[n]
      /\ a[(k - 1) + 1] = ShownRow(rows[k])
  <2>1. PICK S : Earlier(rows, k) \in Seq(S)
    BY <1>3 DEF IsList
  <2> QED BY <1>3, <2>1, Appended DEF IsList
<1> HIDE DEF a, b
<1>6. \A n \in 1..k : n \in 1..(k - 1) \/ n = (k - 1) + 1
  BY <1>2
<1>7. Len(a) = k /\ \A n \in 1..k : a[n] = b[n]
  BY <1>2, <1>3, <1>4, <1>5, <1>6
<1>8. a = b
  BY <1>4, <1>5, <1>7, SameList
<1> QED BY <1>8 DEF a, b

\* And so are the resolved ones.
LEMMA CountNext ==
    ASSUME NEW rows, NEW k \in Nat, k >= 1
    PROVE  /\ Count(rows, k) \in Nat
           /\ Count(rows, k + 1) = IF RowResolved(rows[k]) THEN Count(rows, k) + 1
                                                           ELSE Count(rows, k)
<1> DEFINE A == {n \in 1..(k - 1) : RowResolved(rows[n])}
           B == {n \in 1..((k + 1) - 1) : RowResolved(rows[n])}
<1>1. IsFiniteSet(A) /\ Cardinality(A) \in Nat
  <2>1. IsFiniteSet(1..(k - 1))
    BY FS_Interval
  <2>2. IsFiniteSet(A)
    BY <2>1, FS_Subset
  <2> QED BY <2>2, FS_CardinalityType
<1>2. k \notin A
  OBVIOUS
<1>3. B = IF RowResolved(rows[k]) THEN A \cup {k} ELSE A
  OBVIOUS
<1> HIDE DEF A, B
<1>4. Cardinality(B) = IF RowResolved(rows[k]) THEN Cardinality(A) + 1 ELSE Cardinality(A)
  BY <1>1, <1>2, <1>3, FS_AddElement
<1> QED BY <1>1, <1>4 DEF A, B, Count

\* A pending row at the end is all a case hash shows beside the earlier ones.
LEMMA ShownLast ==
    ASSUME NEW rows, IsList(rows), NEW k \in 1..Len(rows), k = Len(rows),
           rows[k].state = "pending", rows[k].evidence = NoEvidence
    PROVE  Shown(rows) = Append(Earlier(rows, k), AsPending(rows[k]))
<1>1. ShownRow(rows[k]) = AsPending(rows[k])
  BY DEF ShownRow, AsPending
<1> QED BY <1>1, ShownAll, EarlierNext

-----------------------------------------------------------------------------
(* What writing the last row of a table leaves as the audit recomputes it.     *)

\* A pending row is named at the end.
Added(f, g, x) ==
    /\ IsList(f) /\ IsList(g) /\ Len(g) = Len(f) + 1
    /\ \A n \in 1..Len(f) : g[n] = f[n]
    /\ g[Len(f) + 1] = x

\* The pending row at the end is closed, or named.
Closes(f, g, x) ==
    /\ IsList(f) /\ IsList(g) /\ Len(g) = Len(f)
    /\ Len(f) # 0 /\ f[Len(f)].state = "pending" /\ f[Len(f)].evidence = NoEvidence
    /\ \A n \in 1..(Len(f) - 1) : g[n] = f[n]
    /\ g[Len(f)] = x
    /\ DOMAIN x = {"tx", "state", "evidence", "previous", "closed"}

LEMMA AddedKeeps ==
    ASSUME NEW f, NEW g, NEW x, Added(f, g, x), x.state = "pending"
    PROVE  LET k == Len(f) + 1 IN
           /\ Len(f) \in Nat /\ DOMAIN f = 1..Len(f) /\ DOMAIN g = 1..k /\ Len(g) = k
           /\ \A n \in 1..k : Earlier(g, n) = Earlier(f, n) /\ Count(g, n) = Count(f, n)
           /\ Count(g, Len(g) + 1) = Count(f, Len(f) + 1)
           /\ Earlier(g, k) = Shown(f)
           /\ Count(f, k) \in Nat
           /\ \A n \in 1..k : Count(f, n) \in Nat
<1> DEFINE k == Len(f) + 1
<1>1. Len(f) \in Nat /\ DOMAIN f = 1..Len(f) /\ DOMAIN g = 1..k /\ Len(g) = k
  BY ListIndexes DEF Added
<1>2. ASSUME NEW n \in 1..k
      PROVE  Earlier(g, n) = Earlier(f, n) /\ Count(g, n) = Count(f, n) /\ Count(f, n) \in Nat
  <2>1. n <= Len(g) + 1 /\ \A m \in 1..(n - 1) : g[m] = f[m]
    BY <1>1 DEF Added
  <2>2. n \in Nat /\ n >= 1
    BY <1>1
  <2>3. IsList(f) /\ IsList(g) /\ n \in 1..(Len(f) + 1)
    BY DEF Added
  <2>4. Earlier(g, n) = Earlier(f, n) /\ Count(g, n) = Count(f, n)
    BY ONLY <2>1, <2>3, SameBefore
  <2>5. Count(f, n) \in Nat
    BY ONLY <2>2, CountNext
  <2> QED BY <2>4, <2>5
<1>3. k \in 1..k /\ k \in Nat /\ k >= 1
  BY <1>1
<1>4. Count(g, k + 1) = Count(g, k)
  <2>1. ~RowResolved(g[k])
    BY DEF Added, RowResolved
  <2> HIDE DEF k
  <2> QED BY <1>3, <2>1, CountNext
<1>5. Earlier(g, k) = Shown(f)
  BY <1>2, <1>3, ShownAll DEF Added
<1> QED BY <1>1, <1>2, <1>3, <1>4, <1>5

LEMMA NotLast == \A m \in Nat : \A n \in 1..m : n # m => n \in 1..(m - 1)
OBVIOUS

LEMMA ClosesKeeps ==
    ASSUME NEW f, NEW g, NEW x, Closes(f, g, x)
    PROVE  LET k == Len(f) IN
           /\ k \in Nat /\ k \in 1..k /\ DOMAIN f = 1..k /\ DOMAIN g = 1..k /\ Len(g) = k
           /\ \A n \in 1..k : Earlier(g, n) = Earlier(f, n) /\ Count(g, n) = Count(f, n)
           /\ \A n \in 1..k : Count(f, n) \in Nat
           /\ Count(f, k + 1) = Count(f, k)
           /\ Count(g, k + 1) = IF RowResolved(x) THEN Count(f, k) + 1 ELSE Count(f, k)
           /\ Shown(f) = Append(Earlier(f, k), AsPending(f[k]))
<1> DEFINE k == Len(f)
<1>1. k \in Nat /\ k \in 1..k /\ DOMAIN f = 1..k /\ DOMAIN g = 1..k /\ Len(g) = k /\ k >= 1
  BY ListIndexes DEF Closes
<1>2. ASSUME NEW n \in 1..k
      PROVE  Earlier(g, n) = Earlier(f, n) /\ Count(g, n) = Count(f, n) /\ Count(f, n) \in Nat
  <2>1. n \in 1..(Len(f) + 1) /\ n <= Len(g) + 1 /\ \A m \in 1..(n - 1) : g[m] = f[m]
    BY <1>1 DEF Closes
  <2>2. n \in Nat /\ n >= 1
    BY <1>1
  <2>3. IsList(f) /\ IsList(g)
    BY DEF Closes
  <2>4. Earlier(g, n) = Earlier(f, n) /\ Count(g, n) = Count(f, n)
    BY ONLY <2>1, <2>3, SameBefore
  <2>5. Count(f, n) \in Nat
    BY ONLY <2>2, CountNext
  <2> QED BY <2>4, <2>5
<1>3. Count(f, k + 1) = Count(f, k)
  <2>1. ~RowResolved(f[k])
    BY DEF Closes, RowResolved
  <2> HIDE DEF k
  <2> QED BY <1>1, <2>1, CountNext
<1>4. Count(g, k + 1) = IF RowResolved(x) THEN Count(f, k) + 1 ELSE Count(f, k)
  <2>1. g[k] = x
    BY DEF Closes
  <2>2. Count(g, k) = Count(f, k)
    BY <1>1, <1>2
  <2> HIDE DEF k
  <2> QED BY <1>1, <2>1, <2>2, CountNext
<1>5. Shown(f) = Append(Earlier(f, k), AsPending(f[k]))
  BY <1>1, ShownLast DEF Closes
<1> QED BY <1>1, <1>2, <1>3, <1>4, <1>5

\* A longer history has the entries of the shorter one.
Longer(h, hh, e) ==
    /\ IsList(h) /\ IsList(hh) /\ Len(hh) = Len(h) + 1
    /\ \A n \in 1..Len(h) : hh[n] = h[n]
    /\ hh[Len(h) + 1] = e

EntriesKept(h, hh) == \A row, seen : Entered(h, row, seen) => Entered(hh, row, seen)

LEMMA EnteredStays ==
    ASSUME NEW h, NEW hh, NEW e, Longer(h, hh, e)
    PROVE  /\ Len(h) \in Nat /\ DOMAIN h = 1..Len(h)
           /\ DOMAIN hh = 1..(Len(h) + 1) /\ Len(h) + 1 \in DOMAIN hh
           /\ \A n \in DOMAIN hh : \/ n \in DOMAIN h /\ hh[n] = h[n]
                                   \/ n = Len(h) + 1 /\ hh[n] = e
           /\ EntriesKept(h, hh)
           /\ \A row, seen : /\ e.evidence = row.evidence /\ e.observed = seen
                             /\ e.requested \in {row.previous, seen}
                             => Entered(hh, row, seen)
<1>1. /\ Len(h) \in Nat /\ DOMAIN h = 1..Len(h)
      /\ DOMAIN hh = 1..(Len(h) + 1) /\ Len(h) + 1 \in DOMAIN hh
      /\ \A n \in DOMAIN h : n \in DOMAIN hh
  BY ListIndexes DEF Longer
<1>2. \A n \in DOMAIN hh : \/ n \in DOMAIN h /\ hh[n] = h[n]
                           \/ n = Len(h) + 1 /\ hh[n] = e
  <2>1. \A n \in DOMAIN hh : n \in DOMAIN h \/ n = Len(h) + 1
    BY <1>1
  <2> QED BY <1>1, <2>1 DEF Longer
<1>3. EntriesKept(h, hh)
  BY <1>1 DEF Longer, Entered, EntriesKept
<1>4. \A row, seen : /\ e.evidence = row.evidence /\ e.observed = seen
                     /\ e.requested \in {row.previous, seen}
                     => Entered(hh, row, seen)
  BY <1>1 DEF Longer, Entered
<1> QED BY <1>1, <1>2, <1>3, <1>4

-----------------------------------------------------------------------------
(* What a step leaves of the entries.                                          *)

\* Rows that are resolved stay.
RowsGo(f, g) ==
    \A k \in DOMAIN f : /\ k \in DOMAIN g
                        /\ RowResolved(f[k]) => g[k].state = f[k].state /\ g[k].tx = f[k].tx

\* So does what a payment or an execution ended as.
ColumnsGo(att, by, exe, att2, by2, exe2) ==
    /\ att = "settled" => att2 = "settled" /\ by2 = by
    /\ att = "rejected" => att2 = "rejected"
    /\ exe \in {"succeeded", "failed"} => exe2 = exe

LEMMA EntryStays ==
    ASSUME NEW cs, NEW rs, NEW att, NEW by, NEW exe, NEW e, NEW n,
           NEW ds, NEW ss, NEW att2, NEW by2, NEW exe2,
           RowsGo(cs, ds), RowsGo(rs, ss), ColumnsGo(att, by, exe, att2, by2, exe2),
           EntrySound(cs, rs, att, by, exe, e, n)
    PROVE  EntrySound(ds, ss, att2, by2, exe2, e, n)
<1>1. CASE /\ e.kind = "payment" /\ e.outcome = "settled" /\ att = "settled"
           /\ e.evidence = [kind |-> "settled", tx |-> by]
           /\ \E k \in DOMAIN cs : cs[k].state = "confirmed" /\ cs[k].tx = by
  BY <1>1 DEF RowsGo, RowResolved, ColumnsGo, EntrySound
<1>2. CASE /\ e.kind = "payment" /\ e.outcome = "unresolved"
           /\ \E k \in DOMAIN cs : cs[k].state = "rejected" /\ e.evidence = Absent(cs[k].tx)
  BY <1>2 DEF RowsGo, RowResolved, EntrySound
<1>3. CASE /\ e.kind = "payment" /\ e.outcome = "rejected" /\ att = "rejected"
           /\ e.evidence = Unused
  BY <1>3 DEF ColumnsGo, EntrySound
<1>4. CASE /\ e.kind = "execution" /\ e.outcome \in {"succeeded", "failed"} /\ exe = e.outcome
           /\ att = "settled" /\ e.evidence = [kind |-> "attested", tx |-> by]
           /\ e.requested = e.observed
           /\ e.observed = [kind |-> "execution", tx |-> by, execution |-> "unknown",
                            resolution |-> "reconciliation_required", revision |-> n]
  BY <1>4 DEF ColumnsGo, EntrySound
<1>5. CASE /\ e.kind = "refund" /\ e.outcome = "refund_rejected"
           /\ \E k \in DOMAIN rs : rs[k].state = "rejected" /\ e.evidence = Absent(rs[k].tx)
  BY <1>5 DEF RowsGo, RowResolved, EntrySound
<1>6. CASE /\ e.kind = "refund" /\ e.outcome = "refund_confirmed"
           /\ \E k \in DOMAIN rs : /\ rs[k].state = "confirmed"
                                   /\ e.evidence = [kind |-> "refunded", tx |-> rs[k].tx]
  BY <1>6 DEF RowsGo, RowResolved, EntrySound
<1> QED BY <1>1, <1>2, <1>3, <1>4, <1>5, <1>6 DEF EntrySound

\* What an entry may be evidence of.
LEMMA EvidenceOf ==
    ASSUME NEW cs, NEW rs, NEW att, NEW by, NEW exe, NEW e, NEW n,
           EntrySound(cs, rs, att, by, exe, e, n)
    PROVE  \/ e.evidence.kind \in {"settled", "unused"}
           \/ e.evidence.kind = "attested" /\ exe \in {"succeeded", "failed"}
           \/ \E k \in DOMAIN cs : e.evidence = Absent(cs[k].tx)
           \/ \E k \in DOMAIN rs : /\ rs[k].state \in {"rejected", "confirmed"}
                                   /\ e.evidence.kind \in {"absent", "refunded"}
                                   /\ e.evidence.tx = rs[k].tx
<1>1. CASE e.evidence = [kind |-> "settled", tx |-> by] \/ e.evidence = Unused
  <2>1. e.evidence.kind \in {"settled", "unused"}
    BY <1>1 DEF Unused
  <2> QED BY <2>1
<1>2. CASE exe \in {"succeeded", "failed"} /\ e.evidence = [kind |-> "attested", tx |-> by]
  BY <1>2
<1>3. CASE \E k \in DOMAIN cs : e.evidence = Absent(cs[k].tx)
  BY <1>3
<1>4. CASE \E k \in DOMAIN rs : rs[k].state = "rejected" /\ e.evidence = Absent(rs[k].tx)
  <2>1. PICK k \in DOMAIN rs : rs[k].state = "rejected" /\ e.evidence = Absent(rs[k].tx)
    BY <1>4
  <2>2. e.evidence.kind = "absent" /\ e.evidence.tx = rs[k].tx
    BY <2>1 DEF Absent
  <2> QED BY <2>1, <2>2
<1>5. CASE \E k \in DOMAIN rs : /\ rs[k].state = "confirmed"
                                /\ e.evidence = [kind |-> "refunded", tx |-> rs[k].tx]
  <2>1. PICK k \in DOMAIN rs : /\ rs[k].state = "confirmed"
                               /\ e.evidence = [kind |-> "refunded", tx |-> rs[k].tx]
    BY <1>5
  <2>2. e.evidence.kind = "refunded" /\ e.evidence.tx = rs[k].tx
    BY <2>1
  <2> QED BY <2>1, <2>2
<1> QED BY <1>1, <1>2, <1>3, <1>4, <1>5 DEF EntrySound

\* No entry is added.
LEMMA EntriesStay ==
    ASSUME NEW cs, NEW rs, NEW h, NEW att, NEW by, NEW exe,
           NEW ds, NEW ss, NEW att2, NEW by2, NEW exe2,
           RowsGo(cs, ds), RowsGo(rs, ss), ColumnsGo(att, by, exe, att2, by2, exe2),
           EntriesSound(cs, rs, h, att, by, exe)
    PROVE  EntriesSound(ds, ss, h, att2, by2, exe2)
BY EntryStays DEF EntriesSound

\* One is, on evidence no other has.
LEMMA EntryAdded ==
    ASSUME NEW cs, NEW rs, NEW h, NEW att, NEW by, NEW exe,
           NEW ds, NEW ss, NEW hh, NEW att2, NEW by2, NEW exe2, NEW e,
           RowsGo(cs, ds), RowsGo(rs, ss), ColumnsGo(att, by, exe, att2, by2, exe2),
           EntriesSound(cs, rs, h, att, by, exe), Longer(h, hh, e),
           EntrySound(ds, ss, att2, by2, exe2, e, Len(h) + 1),
           \A n \in DOMAIN h : h[n].evidence # e.evidence
    PROVE  EntriesSound(ds, ss, hh, att2, by2, exe2)
<1>1. \A n \in DOMAIN hh : (n \in DOMAIN h /\ hh[n] = h[n]) \/ (n = Len(h) + 1 /\ hh[n] = e)
  BY EnteredStays
<1>2. \A n \in DOMAIN h : EntrySound(ds, ss, att2, by2, exe2, h[n], n)
  BY EntryStays DEF EntriesSound
<1>3. \A n \in DOMAIN hh : EntrySound(ds, ss, att2, by2, exe2, hh[n], n)
  BY <1>1, <1>2
<1>4. \A m, n \in DOMAIN hh : hh[m].evidence = hh[n].evidence => m = n
  BY <1>1 DEF EntriesSound
<1> QED BY <1>3, <1>4 DEF EntriesSound

\* Writing the last row keeps the rows that are resolved.
LEMMA RowsGoOn ==
    ASSUME NEW f, NEW g
    PROVE  /\ \A x : Added(f, g, x) => RowsGo(f, g)
           /\ \A x : Closes(f, g, x) => RowsGo(f, g)
           /\ RowsGo(f, f)
<1>1. ASSUME NEW x, Added(f, g, x) PROVE RowsGo(f, g)
  <2>1. Len(f) \in Nat /\ DOMAIN f = 1..Len(f) /\ DOMAIN g = 1..(Len(f) + 1)
    BY <1>1, ListIndexes DEF Added
  <2> QED BY <1>1, <2>1 DEF Added, RowsGo
<1>2. ASSUME NEW x, Closes(f, g, x) PROVE RowsGo(f, g)
  <2>1. Len(f) \in Nat /\ DOMAIN f = 1..Len(f) /\ DOMAIN g = 1..Len(f)
    BY <1>2, ListIndexes DEF Closes
  <2>2. ASSUME NEW k \in DOMAIN f
        PROVE  k \in DOMAIN g /\ (RowResolved(f[k]) => g[k] = f[k])
    <3>1. CASE k = Len(f)
      BY <1>2, <2>1, <3>1 DEF Closes, RowResolved
    <3>2. CASE k # Len(f)
      BY <1>2, <2>1, <3>2 DEF Closes
    <3> QED BY <3>1, <3>2
  <2> QED BY <2>2 DEF RowsGo
<1> QED BY <1>1, <1>2 DEF RowsGo

-----------------------------------------------------------------------------
(* The candidates of a hold.                                                   *)

\* One more candidate, of a transaction no row of the intent names.
LEMMA CandidateAdds ==
    ASSUME NEW cs, NEW rs, NEW h, NEW rev, NEW by, NEW exe, NEW ds, NEW t \in Transactions, NEW x,
           Recomputable(cs, rs, h, rev, "unresolved", by, exe),
           Added(cs, ds, x), x = OpenRow(t, PaymentCaseOf(rev, Shown(cs))),
           \A k \in DOMAIN cs : cs[k].state # "pending" /\ cs[k].tx # t,
           \A k \in DOMAIN rs : rs[k].tx # t
    PROVE  Recomputable(ds, rs, h, rev, "unresolved", by, exe)
<1> DEFINE k == Len(cs) + 1
<1>1. /\ x.tx = t /\ x.state = "pending" /\ x.evidence = NoEvidence
      /\ x.previous = PaymentCaseOf(rev, Shown(cs))
      /\ DOMAIN x = {"tx", "state", "evidence", "previous", "closed"}
  BY DEF OpenRow
<1>2. /\ Len(cs) \in Nat /\ DOMAIN cs = 1..Len(cs) /\ DOMAIN ds = 1..k /\ Len(ds) = k
      /\ \A n \in 1..k : Earlier(ds, n) = Earlier(cs, n) /\ Count(ds, n) = Count(cs, n)
      /\ Count(ds, Len(ds) + 1) = Count(cs, Len(cs) + 1)
      /\ Earlier(ds, k) = Shown(cs)
      /\ \A n \in 1..k : Count(cs, n) \in Nat
  BY <1>1, AddedKeeps
<1>3. ds[k] = x /\ \A n \in DOMAIN cs : n \in DOMAIN ds /\ n # k /\ ds[n] = cs[n]
  BY <1>2 DEF Added
<1>4. \A n \in DOMAIN ds : n \in DOMAIN cs \/ n = k
  BY <1>2
<1>5. rev = 1 + Count(cs, k)
  BY <1>2 DEF Recomputable, Numbered
<1> HIDE DEF k
<1>6. ASSUME NEW n \in DOMAIN cs PROVE CandidateSound(ds, h, "unresolved", by, n)
  <2>1. CandidateSound(cs, h, "unresolved", by, n) /\ ds[n] = cs[n] /\ cs[n].state # "pending"
    BY <1>3 DEF Recomputable
  <2>2. CaseBefore(ds, n) = CaseBefore(cs, n) /\ CaseAt(ds, n) = CaseAt(cs, n)
    BY <1>2, <1>3, <2>1 DEF CaseBefore, CaseAt
  <2> QED BY <2>1, <2>2 DEF CandidateSound, RowSound
<1>7. CandidateSound(ds, h, "unresolved", by, k)
  <2>1. x.previous = CaseBefore(ds, k)
    <3>1. k \in 1..k
      BY <1>2 DEF k
    <3> QED BY <1>1, <1>2, <1>5, <3>1 DEF CaseBefore
  <2> QED BY <1>1, <1>2, <1>3, <2>1 DEF CandidateSound, RowSound, RowResolved
<1>8. \A n \in DOMAIN ds : CandidateSound(ds, h, "unresolved", by, n)
  BY <1>4, <1>6, <1>7
<1>9. Distinct(ds, rs)
  BY <1>1, <1>3, <1>4, SMTT(40) DEF Recomputable, Distinct
<1>10. EntriesSound(ds, rs, h, "unresolved", by, exe)
  BY RowsGoOn, EntriesStay DEF Recomputable, ColumnsGo
<1>11. Numbered(ds, rs, h, rev, "unresolved", exe)
  BY <1>2 DEF Recomputable, Numbered
<1> QED BY <1>8, <1>9, <1>10, <1>11 DEF Recomputable

\* The other candidates.
OthersSound(cs, h, att, by, k) == \A n \in DOMAIN cs : n # k => CandidateSound(cs, h, att, by, n)

\* The pending candidate is closed: what this leaves to say of it.
ClosedSoundly(cs, rs, h, rev, ds, x, hh, att, by) ==
    LET k == Len(cs) IN
    /\ k \in DOMAIN cs /\ DOMAIN ds = DOMAIN cs /\ ds[k] = x /\ Len(ds) = k
    /\ OthersSound(ds, hh, att, by, k)
    /\ x.tx \in Transactions /\ x.previous = CaseBefore(ds, k)
    /\ CaseAt(ds, k) = PaymentCaseOf(rev, Shown(cs))
    /\ Distinct(ds, rs) /\ RowsGo(cs, ds)
    /\ rev = Len(h) + 1
    /\ RowResolved(x) => Count(ds, Len(ds) + 1) = Len(h) + 1
    /\ ~RowResolved(x) => Count(ds, Len(ds) + 1) = Len(h)

LEMMA CandidateCloses ==
    ASSUME NEW cs, NEW rs, NEW h, NEW rev, NEW exe, NEW ds, NEW x,
           NEW hh, NEW att, NEW by,
           Recomputable(cs, rs, h, rev, "unresolved", NoTransaction, exe),
           Closes(cs, ds, x), x.tx = cs[Len(cs)].tx, x.previous = cs[Len(cs)].previous,
           EntriesKept(h, hh)
    PROVE  ClosedSoundly(cs, rs, h, rev, ds, x, hh, att, by)
<1> DEFINE k == Len(cs)
<1>1. /\ k \in Nat /\ k \in 1..k /\ DOMAIN cs = 1..k /\ DOMAIN ds = 1..k /\ Len(ds) = k
      /\ \A n \in 1..k : Earlier(ds, n) = Earlier(cs, n) /\ Count(ds, n) = Count(cs, n)
      /\ \A n \in 1..k : Count(cs, n) \in Nat
      /\ Count(cs, k + 1) = Count(cs, k)
      /\ Count(ds, k + 1) = IF RowResolved(x) THEN Count(cs, k) + 1 ELSE Count(cs, k)
      /\ Shown(cs) = Append(Earlier(cs, k), AsPending(cs[k]))
  BY ClosesKeeps
<1>2. ds[k] = x /\ \A n \in 1..k : n # k => ds[n] = cs[n]
  <2>1. \A n \in 1..k : n # k => n \in 1..(k - 1)
    BY <1>1, NotLast
  <2>2. ds[k] = x /\ \A n \in 1..(k - 1) : ds[n] = cs[n]
    BY DEF Closes
  <2> HIDE DEF k
  <2> QED BY ONLY <2>1, <2>2
<1>3. Len(h) = Count(cs, k) /\ rev = Len(h) + 1
  BY <1>1 DEF Recomputable, Numbered
<1>4. DOMAIN x = {"tx", "state", "evidence", "previous", "closed"}
  BY DEF Closes
<1> HIDE DEF k
<1>5. ASSUME NEW n \in 1..k, n # k PROVE CandidateSound(ds, hh, att, by, n)
  <2>1. CandidateSound(cs, h, "unresolved", NoTransaction, n) /\ ds[n] = cs[n]
    BY <1>1, <1>2, <1>5 DEF Recomputable
  <2>2. CaseBefore(ds, n) = CaseBefore(cs, n) /\ CaseAt(ds, n) = CaseAt(cs, n)
    BY <1>1, <2>1 DEF CaseBefore, CaseAt
  <2>3. cs[n].state # "confirmed"
    BY <2>1, ReconcilerAssumption DEF CandidateSound
  <2> QED BY <1>1, <1>5, <2>1, <2>2, <2>3 DEF CandidateSound, RowSound, EntriesKept, k
<1>6. CandidateSound(cs, h, "unresolved", NoTransaction, k)
  BY <1>1 DEF Recomputable
<1>7. x.tx \in Transactions /\ x.previous = CaseBefore(ds, k)
  <2>1. CaseBefore(ds, k) = CaseBefore(cs, k)
    BY <1>1 DEF CaseBefore
  <2> QED BY <1>6, <2>1 DEF CandidateSound, k
<1>8. CaseAt(ds, k) = PaymentCaseOf(rev, Shown(cs))
  <2>1. AsPending(ds[k]) = AsPending(cs[k])
    BY <1>2 DEF AsPending, k
  <2>2. rev = 1 + Count(ds, k)
    BY <1>1, <1>3
  <2> QED BY <1>1, <2>1, <2>2 DEF CaseAt
<1>9. Distinct(ds, rs)
  <2>1. ASSUME NEW n \in DOMAIN ds PROVE n \in DOMAIN cs /\ ds[n].tx = cs[n].tx
    <3>1. n \in 1..k /\ n \in DOMAIN cs
      BY <1>1
    <3>2. CASE n = k
      BY <1>2, <3>1, <3>2 DEF k
    <3>3. CASE n # k
      BY <1>2, <3>1, <3>3
    <3> QED BY <3>1, <3>2, <3>3
  <2> QED BY <1>1, <2>1, SMTT(40) DEF Recomputable, Distinct
<1>10. RowsGo(cs, ds)
  BY RowsGoOn
<1> QED BY <1>1, <1>2, <1>3, <1>5, <1>7, <1>8, <1>9, <1>10 DEF ClosedSoundly, OthersSound, k

\* The operator gives it up.
LEMMA CandidateAbandoned ==
    ASSUME NEW cs, NEW rs, NEW h, NEW rev, NEW exe, NEW ds, NEW x,
           Recomputable(cs, rs, h, rev, "unresolved", NoTransaction, exe),
           Closes(cs, ds, x), x.tx = cs[Len(cs)].tx, x.previous = cs[Len(cs)].previous,
           x.state = "abandoned", x.evidence = NoEvidence,
           x.closed = PaymentCaseOf(rev, Shown(cs))
    PROVE  Recomputable(ds, rs, h, rev, "unresolved", NoTransaction, exe)
<1> DEFINE k == Len(cs)
<1>1. EntriesKept(h, h)
  BY DEF EntriesKept
<1>2. /\ k \in DOMAIN cs /\ DOMAIN ds = DOMAIN cs /\ ds[k] = x /\ Len(ds) = k
      /\ OthersSound(ds, h, "unresolved", NoTransaction, k)
      /\ x.tx \in Transactions /\ x.previous = CaseBefore(ds, k)
      /\ CaseAt(ds, k) = PaymentCaseOf(rev, Shown(cs))
      /\ Distinct(ds, rs) /\ RowsGo(cs, ds)
      /\ rev = Len(h) + 1
      /\ ~RowResolved(x) => Count(ds, Len(ds) + 1) = Len(h)
  <2>1. ClosedSoundly(cs, rs, h, rev, ds, x, h, "unresolved", NoTransaction)
    BY <1>1, CandidateCloses
  <2> QED BY <2>1 DEF ClosedSoundly
<1>3. DOMAIN x = {"tx", "state", "evidence", "previous", "closed"} /\ ~RowResolved(x)
  BY DEF Closes, RowResolved
<1> HIDE DEF k
<1>4. CandidateSound(ds, h, "unresolved", NoTransaction, k)
  BY <1>2, <1>3 DEF CandidateSound, RowSound
<1>5. \A n \in DOMAIN ds : CandidateSound(ds, h, "unresolved", NoTransaction, n)
  BY <1>2, <1>4 DEF OthersSound
<1>6. EntriesSound(ds, rs, h, "unresolved", NoTransaction, exe)
  BY <1>2, RowsGoOn, EntriesStay DEF Recomputable, ColumnsGo
<1>7. Numbered(ds, rs, h, rev, "unresolved", exe)
  BY <1>2, <1>3 DEF Recomputable, Numbered
<1> QED BY <1>2, <1>5, <1>6, <1>7 DEF Recomputable

\* While a hold stands, its entries are those of the candidates it rejected.
LEMMA HeldEntries ==
    ASSUME NEW cs, NEW rs, NEW h, NEW rev, NEW by, NEW exe,
           Recomputable(cs, rs, h, rev, "unresolved", by, exe), exe # "failed",
           NEW n \in DOMAIN h
    PROVE  \E k \in DOMAIN cs : cs[k].state = "rejected" /\ h[n].evidence = Absent(cs[k].tx)
<1>1. EntrySound(cs, rs, "unresolved", by, exe, h[n], n) /\ rs = << >>
  BY DEF Recomputable, EntriesSound, Numbered
<1>2. DOMAIN rs = {}
  BY <1>1
<1> QED BY <1>1, <1>2 DEF EntrySound

\* The entry of a lease that closed row k of the case it saw.
EntryFor(e, kind, result, proof, row, seen) ==
    /\ e.kind = kind /\ e.outcome = result /\ e.evidence = proof
    /\ e.observed = seen /\ e.requested \in {row.previous, seen}

\* The chain shows that the candidate moved something else.
LEMMA CandidateRejected ==
    ASSUME NEW cs, NEW rs, NEW h, NEW rev, NEW exe, NEW ds, NEW x, NEW hh, NEW e,
           Recomputable(cs, rs, h, rev, "unresolved", NoTransaction, exe), exe # "failed",
           Closes(cs, ds, x), x.tx = cs[Len(cs)].tx, x.previous = cs[Len(cs)].previous,
           x.state = "rejected", x.evidence = Absent(x.tx), Longer(h, hh, e),
           EntryFor(e, "payment", "unresolved", Absent(x.tx), x, PaymentCaseOf(rev, Shown(cs)))
    PROVE  Recomputable(ds, rs, hh, rev + 1, "unresolved", NoTransaction, exe)
<1> DEFINE k == Len(cs)
<1>1. /\ EntriesKept(h, hh)
      /\ \A row, seen : /\ e.evidence = row.evidence /\ e.observed = seen
                        /\ e.requested \in {row.previous, seen}
                        => Entered(hh, row, seen)
  BY EnteredStays
<1>2. /\ k \in DOMAIN cs /\ DOMAIN ds = DOMAIN cs /\ ds[k] = x /\ Len(ds) = k
      /\ OthersSound(ds, hh, "unresolved", NoTransaction, k)
      /\ x.tx \in Transactions /\ x.previous = CaseBefore(ds, k)
      /\ CaseAt(ds, k) = PaymentCaseOf(rev, Shown(cs))
      /\ Distinct(ds, rs) /\ RowsGo(cs, ds)
      /\ rev = Len(h) + 1
      /\ RowResolved(x) => Count(ds, Len(ds) + 1) = Len(h) + 1
  <2>1. ClosedSoundly(cs, rs, h, rev, ds, x, hh, "unresolved", NoTransaction)
    BY <1>1, CandidateCloses
  <2> QED BY <2>1 DEF ClosedSoundly
<1>3. /\ DOMAIN x = {"tx", "state", "evidence", "previous", "closed"} /\ RowResolved(x)
      /\ cs[k].state = "pending"
  BY DEF Closes, RowResolved
<1> HIDE DEF k
<1>4. Entered(hh, x, CaseAt(ds, k))
  BY <1>1, <1>2 DEF EntryFor
<1>5. CandidateSound(ds, hh, "unresolved", NoTransaction, k)
  BY <1>2, <1>3, <1>4 DEF CandidateSound, RowSound
<1>6. \A n \in DOMAIN ds : CandidateSound(ds, hh, "unresolved", NoTransaction, n)
  BY <1>2, <1>5 DEF OthersSound
<1>7. EntrySound(ds, rs, "unresolved", NoTransaction, exe, e, Len(h) + 1)
  BY <1>2 DEF EntrySound, EntryFor
<1>8. \A n \in DOMAIN h : h[n].evidence # e.evidence
  <2>1. SUFFICES ASSUME NEW n \in DOMAIN h, h[n].evidence = Absent(x.tx) PROVE FALSE
    BY DEF EntryFor
  <2>2. PICK m \in DOMAIN cs : cs[m].state = "rejected" /\ h[n].evidence = Absent(cs[m].tx)
    BY HeldEntries
  <2>3. cs[m].tx = cs[k].tx
    BY <2>1, <2>2 DEF Absent, k
  <2> QED BY <1>2, <1>3, <2>2, <2>3 DEF Recomputable, Distinct
<1>9. EntriesSound(ds, rs, hh, "unresolved", NoTransaction, exe)
  BY <1>2, <1>7, <1>8, RowsGoOn, EntryAdded DEF Recomputable, ColumnsGo
<1>10. Numbered(ds, rs, hh, rev + 1, "unresolved", exe)
  <2>1. Len(h) \in Nat
    BY ListIndexes DEF Longer
  <2> QED BY <1>2, <1>3, <2>1 DEF Recomputable, Numbered, Longer
<1>11. \A n \in DOMAIN rs : RefundSound(rs, hh, rev + 1, NoTransaction, n)
  BY DEF Recomputable, Numbered
<1> QED BY <1>2, <1>6, <1>9, <1>10, <1>11 DEF Recomputable

\* The chain shows that it settled the payment.
LEMMA CandidateSettled ==
    ASSUME NEW cs, NEW rs, NEW h, NEW rev, NEW exe, NEW ds, NEW x, NEW hh, NEW e,
           Recomputable(cs, rs, h, rev, "unresolved", NoTransaction, exe), exe \notin {"succeeded", "failed"},
           Closes(cs, ds, x), x.tx = cs[Len(cs)].tx, x.previous = cs[Len(cs)].previous,
           x.state = "confirmed", x.evidence = [kind |-> "settled", tx |-> x.tx],
           Longer(h, hh, e),
           EntryFor(e, "payment", "settled", [kind |-> "settled", tx |-> x.tx], x,
                    PaymentCaseOf(rev, Shown(cs)))
    PROVE  Recomputable(ds, rs, hh, rev + 1, "settled", x.tx, "unknown")
<1> DEFINE k == Len(cs)
<1>1. /\ EntriesKept(h, hh)
      /\ \A row, seen : /\ e.evidence = row.evidence /\ e.observed = seen
                        /\ e.requested \in {row.previous, seen}
                        => Entered(hh, row, seen)
  BY EnteredStays
<1>2. /\ k \in DOMAIN cs /\ DOMAIN ds = DOMAIN cs /\ ds[k] = x /\ Len(ds) = k
      /\ OthersSound(ds, hh, "settled", x.tx, k)
      /\ x.tx \in Transactions /\ x.previous = CaseBefore(ds, k)
      /\ CaseAt(ds, k) = PaymentCaseOf(rev, Shown(cs))
      /\ Distinct(ds, rs) /\ RowsGo(cs, ds)
      /\ rev = Len(h) + 1
  <2>1. ClosedSoundly(cs, rs, h, rev, ds, x, hh, "settled", x.tx)
    BY <1>1, CandidateCloses
  <2> QED BY <2>1 DEF ClosedSoundly
<1>3. DOMAIN x = {"tx", "state", "evidence", "previous", "closed"}
  BY DEF Closes
<1> HIDE DEF k
<1>4. Entered(hh, x, CaseAt(ds, k))
  BY <1>1, <1>2 DEF EntryFor
<1>5. CandidateSound(ds, hh, "settled", x.tx, k)
  BY <1>2, <1>3, <1>4 DEF CandidateSound, RowSound
<1>6. \A n \in DOMAIN ds : CandidateSound(ds, hh, "settled", x.tx, n)
  BY <1>2, <1>5 DEF OthersSound
<1>7. EntrySound(ds, rs, "settled", x.tx, "unknown", e, Len(h) + 1)
  BY <1>2 DEF EntrySound, EntryFor
<1>8. \A n \in DOMAIN h : h[n].evidence # e.evidence
  <2>1. SUFFICES ASSUME NEW n \in DOMAIN h PROVE h[n].evidence # e.evidence
    OBVIOUS
  <2>2. PICK m \in DOMAIN cs : h[n].evidence = Absent(cs[m].tx)
    BY HeldEntries
  <2>3. h[n].evidence.kind = "absent" /\ e.evidence.kind = "settled"
    BY <2>2 DEF EntryFor, Absent
  <2> QED BY <2>3
<1>9. EntriesSound(ds, rs, hh, "settled", x.tx, "unknown")
  <2>1. ColumnsGo("unresolved", NoTransaction, exe, "settled", x.tx, "unknown")
    BY DEF ColumnsGo
  <2>2. EntriesSound(cs, rs, h, "unresolved", NoTransaction, exe)
    BY DEF Recomputable
  <2> QED BY <1>2, <1>7, <1>8, <2>1, <2>2, RowsGoOn, EntryAdded
<1>10. Numbered(ds, rs, hh, rev + 1, "settled", "unknown")
  BY <1>2 DEF Recomputable, Numbered, Longer
<1>11. \A n \in DOMAIN rs : RefundSound(rs, hh, rev + 1, x.tx, n)
  BY DEF Recomputable, Numbered
<1> QED BY <1>2, <1>6, <1>9, <1>10, <1>11 DEF Recomputable

\* The hold is released, and the candidate still pending goes with it.
LEMMA HoldReleasedWith ==
    ASSUME NEW cs, NEW rs, NEW h, NEW rev, NEW exe, NEW ds, NEW x, NEW hh, NEW e,
           Recomputable(cs, rs, h, rev, "unresolved", NoTransaction, exe), exe # "failed",
           Closes(cs, ds, x), x.tx = cs[Len(cs)].tx, x.previous = cs[Len(cs)].previous,
           x.state = "rejected", x.evidence = Unused, Longer(h, hh, e),
           EntryFor(e, "payment", "rejected", Unused, x, PaymentCaseOf(rev, Shown(cs)))
    PROVE  Recomputable(ds, rs, hh, rev + 1, "rejected", NoTransaction, exe)
<1> DEFINE k == Len(cs)
<1>1. /\ EntriesKept(h, hh)
      /\ \A row, seen : /\ e.evidence = row.evidence /\ e.observed = seen
                        /\ e.requested \in {row.previous, seen}
                        => Entered(hh, row, seen)
  BY EnteredStays
<1>2. /\ k \in DOMAIN cs /\ DOMAIN ds = DOMAIN cs /\ ds[k] = x /\ Len(ds) = k
      /\ OthersSound(ds, hh, "rejected", NoTransaction, k)
      /\ x.tx \in Transactions /\ x.previous = CaseBefore(ds, k)
      /\ CaseAt(ds, k) = PaymentCaseOf(rev, Shown(cs))
      /\ Distinct(ds, rs) /\ RowsGo(cs, ds)
      /\ rev = Len(h) + 1
  <2>1. ClosedSoundly(cs, rs, h, rev, ds, x, hh, "rejected", NoTransaction)
    BY <1>1, CandidateCloses
  <2> QED BY <2>1 DEF ClosedSoundly
<1>3. DOMAIN x = {"tx", "state", "evidence", "previous", "closed"}
  BY DEF Closes
<1> HIDE DEF k
<1>4. Entered(hh, x, CaseAt(ds, k))
  BY <1>1, <1>2 DEF EntryFor
<1>5. CandidateSound(ds, hh, "rejected", NoTransaction, k)
  BY <1>2, <1>3, <1>4 DEF CandidateSound, RowSound
<1>6. \A n \in DOMAIN ds : CandidateSound(ds, hh, "rejected", NoTransaction, n)
  BY <1>2, <1>5 DEF OthersSound
<1>7. EntrySound(ds, rs, "rejected", NoTransaction, exe, e, Len(h) + 1)
  BY DEF EntrySound, EntryFor
<1>8. \A n \in DOMAIN h : h[n].evidence # e.evidence
  <2>1. SUFFICES ASSUME NEW n \in DOMAIN h PROVE h[n].evidence # e.evidence
    OBVIOUS
  <2>2. PICK m \in DOMAIN cs : h[n].evidence = Absent(cs[m].tx)
    BY HeldEntries
  <2>3. h[n].evidence.kind = "absent" /\ e.evidence.kind = "unused"
    BY <2>2 DEF EntryFor, Absent, Unused
  <2> QED BY <2>3
<1>9. EntriesSound(ds, rs, hh, "rejected", NoTransaction, exe)
  <2>1. ColumnsGo("unresolved", NoTransaction, exe, "rejected", NoTransaction, exe)
    BY DEF ColumnsGo
  <2>2. EntriesSound(cs, rs, h, "unresolved", NoTransaction, exe)
    BY DEF Recomputable
  <2> QED BY <1>2, <1>7, <1>8, <2>1, <2>2, RowsGoOn, EntryAdded
<1>10. Numbered(ds, rs, hh, rev + 1, "rejected", exe)
  BY <1>2 DEF Recomputable, Numbered, Longer
<1>11. \A n \in DOMAIN rs : RefundSound(rs, hh, rev + 1, NoTransaction, n)
  BY DEF Recomputable, Numbered
<1> QED BY <1>2, <1>6, <1>9, <1>10, <1>11 DEF Recomputable

\* Or there is none.
LEMMA HoldReleased ==
    ASSUME NEW cs, NEW rs, NEW h, NEW rev, NEW exe, NEW hh, NEW e,
           Recomputable(cs, rs, h, rev, "unresolved", NoTransaction, exe), exe # "failed",
           Longer(h, hh, e), e.kind = "payment", e.outcome = "rejected", e.evidence = Unused
    PROVE  Recomputable(cs, rs, hh, rev + 1, "rejected", NoTransaction, exe)
<1>1. EntriesKept(h, hh)
  BY EnteredStays
<1>2. \A n \in DOMAIN cs : CandidateSound(cs, hh, "rejected", NoTransaction, n)
  BY <1>1 DEF Recomputable, CandidateSound, EntriesKept
<1>3. EntrySound(cs, rs, "rejected", NoTransaction, exe, e, Len(h) + 1)
  BY DEF EntrySound
<1>4. \A n \in DOMAIN h : h[n].evidence # e.evidence
  <2>1. SUFFICES ASSUME NEW n \in DOMAIN h PROVE h[n].evidence # e.evidence
    OBVIOUS
  <2>2. PICK m \in DOMAIN cs : h[n].evidence = Absent(cs[m].tx)
    BY HeldEntries
  <2>3. h[n].evidence.kind = "absent" /\ e.evidence.kind = "unused"
    BY <2>2 DEF Absent, Unused
  <2> QED BY <2>3
<1>5. EntriesSound(cs, rs, hh, "rejected", NoTransaction, exe)
  <2>1. ColumnsGo("unresolved", NoTransaction, exe, "rejected", NoTransaction, exe)
    BY DEF ColumnsGo
  <2>2. EntriesSound(cs, rs, h, "unresolved", NoTransaction, exe)
    BY DEF Recomputable
  <2> QED BY <1>3, <1>4, <2>1, <2>2, RowsGoOn, EntryAdded
<1>6. Numbered(cs, rs, hh, rev + 1, "rejected", exe)
  BY DEF Recomputable, Numbered, Longer
<1>7. \A n \in DOMAIN rs : RefundSound(rs, hh, rev + 1, NoTransaction, n)
  BY DEF Recomputable, Numbered
<1> QED BY <1>2, <1>5, <1>6, <1>7 DEF Recomputable

-----------------------------------------------------------------------------
(* The refunds of a failed execution.                                          *)

\* Candidates lose nothing when entries are added.
LEMMA CandidatesKept ==
    ASSUME NEW cs, NEW h, NEW hh, NEW att, NEW by, EntriesKept(h, hh),
           \A k \in DOMAIN cs : CandidateSound(cs, h, att, by, k)
    PROVE  \A k \in DOMAIN cs : CandidateSound(cs, hh, att, by, k)
BY DEF CandidateSound, EntriesKept

\* One more refund, of a transaction no row of the intent names.
LEMMA RefundAdds ==
    ASSUME NEW cs, NEW rs, NEW h, NEW rev \in Nat, NEW by, NEW ss, NEW t \in Transactions, NEW x,
           Recomputable(cs, rs, h, rev, "settled", by, "failed"),
           Added(rs, ss, x), x = OpenRow(t, RefundCaseOf(by, rev, Shown(rs))),
           \A k \in DOMAIN cs : cs[k].tx # t,
           \A k \in DOMAIN rs : rs[k].state # "pending" /\ rs[k].tx # t
    PROVE  Recomputable(cs, ss, h, rev, "settled", by, "failed")
<1> DEFINE k == Len(rs) + 1
<1>1. /\ x.tx = t /\ x.state = "pending" /\ x.evidence = NoEvidence
      /\ x.previous = RefundCaseOf(by, rev, Shown(rs))
      /\ DOMAIN x = {"tx", "state", "evidence", "previous", "closed"}
  BY DEF OpenRow
<1>2. /\ Len(rs) \in Nat /\ DOMAIN rs = 1..Len(rs) /\ DOMAIN ss = 1..k /\ Len(ss) = k
      /\ \A n \in 1..k : Earlier(ss, n) = Earlier(rs, n) /\ Count(ss, n) = Count(rs, n)
      /\ Count(ss, Len(ss) + 1) = Count(rs, Len(rs) + 1)
      /\ Earlier(ss, k) = Shown(rs)
      /\ \A n \in 1..k : Count(rs, n) \in Nat
  BY <1>1, AddedKeeps
<1>3. ss[k] = x /\ \A n \in DOMAIN rs : n \in DOMAIN ss /\ n # k /\ ss[n] = rs[n]
  BY <1>2 DEF Added
<1>4. \A n \in DOMAIN ss : n \in DOMAIN rs \/ n = k
  BY <1>2
<1>5. k \in 1..k /\ Count(ss, Len(ss) + 1) = Count(ss, k) /\ Count(ss, k) \in Nat
  BY <1>2
<1> HIDE DEF k
<1>6. RefundRevision(ss, rev, k) = rev
  BY <1>5 DEF RefundRevision
<1>7. ASSUME NEW n \in DOMAIN rs PROVE RefundSound(ss, h, rev, by, n)
  <2>1. RefundSound(rs, h, rev, by, n) /\ ss[n] = rs[n] /\ rs[n].state # "pending"
    BY <1>3 DEF Recomputable
  <2>2. n \in 1..k
    BY <1>2, <1>3
  <2>3. RefundRevision(ss, rev, n) = RefundRevision(rs, rev, n) /\ Earlier(ss, n) = Earlier(rs, n)
    BY <1>2, <2>2 DEF RefundRevision
  <2>4. /\ RefundsBefore(ss, rev, by, n) = RefundsBefore(rs, rev, by, n)
        /\ RefundAt(ss, rev, by, n) = RefundAt(rs, rev, by, n)
    BY <2>1, <2>3 DEF RefundsBefore, RefundAt
  <2> QED BY <2>1, <2>4 DEF RefundSound, RowSound
<1>8. RefundSound(ss, h, rev, by, k)
  <2>1. x.previous \in RefundsBefore(ss, rev, by, k)
    BY <1>1, <1>2, <1>6 DEF RefundsBefore
  <2> QED BY <1>1, <1>2, <1>3, <2>1 DEF RefundSound, RowSound, RowResolved
<1>9. \A n \in DOMAIN ss : RefundSound(ss, h, rev, by, n)
  BY <1>4, <1>7, <1>8
<1>10. Distinct(cs, ss)
  BY <1>1, <1>3, <1>4, SMTT(40) DEF Recomputable, Distinct
<1>11. EntriesSound(cs, ss, h, "settled", by, "failed")
  BY RowsGoOn, EntriesStay DEF Recomputable, ColumnsGo
<1>12. Numbered(cs, ss, h, rev, "settled", "failed")
  BY DEF Recomputable, Numbered
<1> QED BY <1>9, <1>10, <1>11, <1>12 DEF Recomputable

\* The other refunds.
OtherRefundsSound(rs, h, rev, by, k) ==
    \A n \in DOMAIN rs : n # k => RefundSound(rs, h, rev, by, n)

\* The revision once the row is written.
RevisionAfter(x, rev) == IF RowResolved(x) THEN rev + 1 ELSE rev

\* The pending refund is closed or named: what this leaves to say of it.
WrittenSoundly(rs, h, rev, by, ss, x, hh) ==
    LET k == Len(rs) IN
    /\ k \in DOMAIN rs /\ DOMAIN ss = DOMAIN rs /\ ss[k] = x /\ Len(ss) = k
    /\ \A n \in DOMAIN rs : n # k => ss[n] = rs[n]
    /\ OtherRefundsSound(ss, hh, RevisionAfter(x, rev), by, k)
    /\ RefundRevision(rs, rev, k) = rev
    /\ RefundRevision(ss, RevisionAfter(x, rev), k) = rev
    /\ Earlier(ss, k) = Earlier(rs, k)
    /\ Shown(rs) = Append(Earlier(rs, k), AsPending(rs[k]))
    /\ RowsGo(rs, ss)

LEMMA RefundWritten ==
    ASSUME NEW cs, NEW rs, NEW h, NEW rev \in Nat, NEW by, NEW ss, NEW x, NEW hh,
           Recomputable(cs, rs, h, rev, "settled", by, "failed"),
           Closes(rs, ss, x), EntriesKept(h, hh)
    PROVE  WrittenSoundly(rs, h, rev, by, ss, x, hh)
<1> DEFINE k == Len(rs)
           rev2 == RevisionAfter(x, rev)
<1>1. /\ k \in Nat /\ k \in 1..k /\ DOMAIN rs = 1..k /\ DOMAIN ss = 1..k /\ Len(ss) = k
      /\ \A n \in 1..k : Earlier(ss, n) = Earlier(rs, n) /\ Count(ss, n) = Count(rs, n)
      /\ \A n \in 1..k : Count(rs, n) \in Nat
      /\ Count(rs, k + 1) = Count(rs, k)
      /\ Count(ss, k + 1) = IF RowResolved(x) THEN Count(rs, k) + 1 ELSE Count(rs, k)
      /\ Shown(rs) = Append(Earlier(rs, k), AsPending(rs[k]))
  BY ClosesKeeps
<1>2. ss[k] = x /\ \A n \in 1..k : n # k => ss[n] = rs[n]
  <2>1. \A n \in 1..k : n # k => n \in 1..(k - 1)
    BY <1>1, NotLast
  <2>2. ss[k] = x /\ \A n \in 1..(k - 1) : ss[n] = rs[n]
    BY DEF Closes
  <2> HIDE DEF k
  <2> QED BY ONLY <2>1, <2>2
<1>3. ASSUME NEW n \in 1..k
      PROVE  RefundRevision(ss, rev2, n) = RefundRevision(rs, rev, n)
  <2>1. rev2 - Count(ss, k + 1) = rev - Count(rs, k + 1)
    <3> HIDE DEF k
    <3>1. Count(rs, k) \in Nat
      BY <1>1
    <3>2. CASE RowResolved(x)
      <4>1. rev2 = rev + 1
        BY <3>2 DEF RevisionAfter
      <4> HIDE DEF rev2
      <4> QED BY <1>1, <3>1, <3>2, <4>1
    <3>3. CASE ~RowResolved(x)
      <4>1. rev2 = rev
        BY <3>3 DEF RevisionAfter
      <4> HIDE DEF rev2
      <4> QED BY <1>1, <3>1, <3>3, <4>1
    <3> QED BY <3>2, <3>3
  <2>2. Count(ss, n) = Count(rs, n) /\ Len(ss) = k
    BY <1>1
  <2> HIDE DEF rev2
  <2> QED BY <2>1, <2>2 DEF RefundRevision
<1>4. RefundRevision(rs, rev, k) = rev /\ RefundRevision(ss, rev2, k) = rev
  <2>1. RefundRevision(rs, rev, k) = rev
    <3>1. Count(rs, k) \in Nat /\ Count(rs, k + 1) = Count(rs, k)
      BY <1>1
    <3>2. Count(rs, Len(rs) + 1) = Count(rs, k)
      BY <3>1
    <3> HIDE DEF k
    <3> QED BY ONLY <3>1, <3>2, rev \in Nat DEF RefundRevision
  <2> QED BY <1>1, <1>3, <2>1
<1> HIDE DEF k, rev2
<1>5. ASSUME NEW n \in 1..k, n # k PROVE RefundSound(ss, hh, rev2, by, n)
  <2>1. RefundSound(rs, h, rev, by, n) /\ ss[n] = rs[n]
    BY <1>1, <1>2, <1>5 DEF Recomputable
  <2>2. /\ RefundsBefore(ss, rev2, by, n) = RefundsBefore(rs, rev, by, n)
        /\ RefundAt(ss, rev2, by, n) = RefundAt(rs, rev, by, n)
    BY <1>1, <1>3, <2>1 DEF RefundsBefore, RefundAt
  <2> QED BY <1>1, <1>5, <2>1, <2>2 DEF RefundSound, RowSound, EntriesKept, k
<1>6. RowsGo(rs, ss)
  BY RowsGoOn
<1> QED BY <1>1, <1>2, <1>4, <1>5, <1>6 DEF WrittenSoundly, OtherRefundsSound, k, rev2

\* A transaction is named in the refund that was opened without one.
LEMMA RefundIsNamed ==
    ASSUME NEW cs, NEW rs, NEW h, NEW rev \in Nat, NEW by, NEW ss, NEW t \in Transactions, NEW x,
           Recomputable(cs, rs, h, rev, "settled", by, "failed"),
           Closes(rs, ss, x), rs[Len(rs)].tx = NoTransaction,
           x.tx = t, x.state = "pending", x.evidence = NoEvidence,
           x.previous = RefundCaseOf(by, rev, Shown(rs)),
           \A k \in DOMAIN cs : cs[k].tx # t,
           \A k \in DOMAIN rs : rs[k].tx # t
    PROVE  Recomputable(cs, ss, h, rev, "settled", by, "failed")
<1> DEFINE k == Len(rs)
<1>1. WrittenSoundly(rs, h, rev, by, ss, x, h)
  BY RefundWritten DEF EntriesKept
<1>2. ~RowResolved(x) /\ DOMAIN x = {"tx", "state", "evidence", "previous", "closed"}
  BY DEF RowResolved, Closes
<1>3. /\ k \in DOMAIN rs /\ DOMAIN ss = DOMAIN rs /\ ss[k] = x /\ Len(ss) = k
      /\ \A n \in DOMAIN rs : n # k => ss[n] = rs[n]
      /\ OtherRefundsSound(ss, h, rev, by, k)
      /\ RefundRevision(ss, rev, k) = rev
      /\ Earlier(ss, k) = Earlier(rs, k)
      /\ Shown(rs) = Append(Earlier(rs, k), AsPending(rs[k]))
      /\ RowsGo(rs, ss)
  BY <1>1, <1>2 DEF WrittenSoundly, RevisionAfter
<1> HIDE DEF k
<1>4. x.previous \in RefundsBefore(ss, rev, by, k)
  <2>1. [AsPending(ss[k]) EXCEPT !.tx = NoTransaction] = AsPending(rs[k])
    BY DEF AsPending, k
  <2> QED BY <1>3, <2>1 DEF RefundsBefore
<1>5. RefundSound(ss, h, rev, by, k)
  BY <1>2, <1>3, <1>4, ReconcilerAssumption DEF RefundSound, RowSound, RowResolved
<1>6. \A n \in DOMAIN ss : RefundSound(ss, h, rev, by, n)
  BY <1>3, <1>5 DEF OtherRefundsSound
<1>7. Distinct(cs, ss)
  BY <1>3 DEF Recomputable, Distinct
<1>8. EntriesSound(cs, ss, h, "settled", by, "failed")
  BY <1>3, RowsGoOn, EntriesStay DEF Recomputable, ColumnsGo
<1>9. Numbered(cs, ss, h, rev, "settled", "failed")
  BY DEF Recomputable, Numbered
<1> QED BY <1>6, <1>7, <1>8, <1>9 DEF Recomputable

\* Before and while the refund was pending, the case is what it was.
LEMMA RefundSame ==
    ASSUME NEW rs, NEW h, NEW rev \in Nat, NEW by, NEW ss, NEW x, NEW hh,
           RefundSound(rs, h, rev, by, Len(rs)), x.tx = rs[Len(rs)].tx, x.tx # NoTransaction,
           x.previous = rs[Len(rs)].previous, WrittenSoundly(rs, h, rev, by, ss, x, hh)
    PROVE  /\ x.tx \in Transactions
           /\ x.previous \in RefundsBefore(ss, RevisionAfter(x, rev), by, Len(rs))
           /\ RefundAt(ss, RevisionAfter(x, rev), by, Len(rs)) = RefundCaseOf(by, rev, Shown(rs))
<1> DEFINE k == Len(rs)
           rev2 == RevisionAfter(x, rev)
<1>1. /\ ss[k] = x /\ Earlier(ss, k) = Earlier(rs, k)
      /\ RefundRevision(rs, rev, k) = rev /\ RefundRevision(ss, rev2, k) = rev
      /\ Shown(rs) = Append(Earlier(rs, k), AsPending(rs[k]))
  BY DEF WrittenSoundly
<1>2. x.tx \in Transactions /\ x.previous \in RefundsBefore(rs, rev, by, k)
  BY DEF RefundSound
<1>3. AsPending(ss[k]) = AsPending(rs[k])
  BY <1>1 DEF AsPending
<1> HIDE DEF k, rev2
<1>4. RefundsBefore(ss, rev2, by, k) = RefundsBefore(rs, rev, by, k)
  BY <1>1, <1>3 DEF RefundsBefore
<1>5. RefundAt(ss, rev2, by, k) = RefundCaseOf(by, rev, Shown(rs))
  BY <1>1, <1>3 DEF RefundAt
<1> QED BY <1>2, <1>4, <1>5 DEF k, rev2

\* The operator gives it up.
LEMMA RefundAbandoned ==
    ASSUME NEW cs, NEW rs, NEW h, NEW rev \in Nat, NEW by, NEW ss, NEW x,
           Recomputable(cs, rs, h, rev, "settled", by, "failed"),
           Closes(rs, ss, x), x.tx = rs[Len(rs)].tx, x.tx # NoTransaction,
           x.previous = rs[Len(rs)].previous, x.state = "abandoned", x.evidence = NoEvidence,
           x.closed = RefundCaseOf(by, rev, Shown(rs))
    PROVE  Recomputable(cs, ss, h, rev, "settled", by, "failed")
<1> DEFINE k == Len(rs)
<1>1. WrittenSoundly(rs, h, rev, by, ss, x, h)
  BY RefundWritten DEF EntriesKept
<1>2. ~RowResolved(x) /\ DOMAIN x = {"tx", "state", "evidence", "previous", "closed"}
  BY DEF RowResolved, Closes
<1>3. /\ k \in DOMAIN rs /\ DOMAIN ss = DOMAIN rs /\ ss[k] = x /\ Len(ss) = k
      /\ \A n \in DOMAIN rs : n # k => ss[n] = rs[n]
      /\ OtherRefundsSound(ss, h, rev, by, k)
      /\ RowsGo(rs, ss)
  BY <1>1, <1>2 DEF WrittenSoundly, RevisionAfter
<1>4. /\ x.tx \in Transactions /\ x.previous \in RefundsBefore(ss, rev, by, k)
      /\ RefundAt(ss, rev, by, k) = RefundCaseOf(by, rev, Shown(rs))
  <2>1. RefundSound(rs, h, rev, by, k)
    BY <1>3 DEF Recomputable
  <2> QED BY <1>1, <1>2, <2>1, RefundSame DEF RevisionAfter
<1>5. RefundSound(ss, h, rev, by, k)
  <2> HIDE DEF k
  <2> QED BY <1>2, <1>3, <1>4 DEF RefundSound, RowSound
<1>6. \A n \in DOMAIN ss : RefundSound(ss, h, rev, by, n)
  BY <1>3, <1>5 DEF OtherRefundsSound
<1>7. Distinct(cs, ss)
  <2>1. \A n \in DOMAIN ss : n \in DOMAIN rs /\ ss[n].tx = rs[n].tx
    BY <1>3
  <2> QED BY <1>3, <2>1 DEF Recomputable, Distinct
<1>8. EntriesSound(cs, ss, h, "settled", by, "failed")
  BY <1>3, RowsGoOn, EntriesStay DEF Recomputable, ColumnsGo
<1>9. Numbered(cs, ss, h, rev, "settled", "failed")
  BY DEF Recomputable, Numbered
<1> QED BY <1>6, <1>7, <1>8, <1>9 DEF Recomputable

\* What the chain shows about it, and the entry of it.
RefundProof(x) ==
    IF x.state = "rejected" THEN Absent(x.tx) ELSE [kind |-> "refunded", tx |-> x.tx]

RefundResult(x) == IF x.state = "rejected" THEN "refund_rejected" ELSE "refund_confirmed"

\* The chain shows what became of it.
LEMMA RefundResolved ==
    ASSUME NEW cs, NEW rs, NEW h, NEW rev \in Nat, NEW by, NEW ss, NEW x, NEW hh, NEW e,
           Recomputable(cs, rs, h, rev, "settled", by, "failed"),
           Closes(rs, ss, x), x.tx = rs[Len(rs)].tx, x.tx # NoTransaction,
           x.previous = rs[Len(rs)].previous, x.state \in {"rejected", "confirmed"},
           x.evidence = RefundProof(x), Longer(h, hh, e),
           EntryFor(e, "refund", RefundResult(x), RefundProof(x), x,
                    RefundCaseOf(by, rev, Shown(rs)))
    PROVE  Recomputable(cs, ss, hh, rev + 1, "settled", by, "failed")
<1> DEFINE k == Len(rs)
<1>1. /\ EntriesKept(h, hh)
      /\ \A row, seen : /\ e.evidence = row.evidence /\ e.observed = seen
                        /\ e.requested \in {row.previous, seen}
                        => Entered(hh, row, seen)
  BY EnteredStays
<1>2. WrittenSoundly(rs, h, rev, by, ss, x, hh)
  BY <1>1, RefundWritten
<1>3. /\ RowResolved(x) /\ DOMAIN x = {"tx", "state", "evidence", "previous", "closed"}
      /\ rs[k].state = "pending"
  BY DEF RowResolved, Closes
<1>4. /\ k \in DOMAIN rs /\ DOMAIN ss = DOMAIN rs /\ ss[k] = x /\ Len(ss) = k
      /\ \A n \in DOMAIN rs : n # k => ss[n] = rs[n]
      /\ OtherRefundsSound(ss, hh, rev + 1, by, k)
      /\ RowsGo(rs, ss)
  BY <1>2, <1>3 DEF WrittenSoundly, RevisionAfter
<1>5. /\ x.tx \in Transactions /\ x.previous \in RefundsBefore(ss, rev + 1, by, k)
      /\ RefundAt(ss, rev + 1, by, k) = RefundCaseOf(by, rev, Shown(rs))
  <2>1. RefundSound(rs, h, rev, by, k)
    BY <1>4 DEF Recomputable
  <2> QED BY <1>2, <1>3, <2>1, RefundSame DEF RevisionAfter
<1>6. RefundSound(ss, hh, rev + 1, by, k)
  <2>1. Entered(hh, x, RefundAt(ss, rev + 1, by, k))
    BY <1>1, <1>5 DEF EntryFor
  <2> HIDE DEF k
  <2> QED BY <1>3, <1>4, <1>5, <2>1 DEF RefundSound, RowSound, RefundProof
<1>7. \A n \in DOMAIN ss : RefundSound(ss, hh, rev + 1, by, n)
  BY <1>4, <1>6 DEF OtherRefundsSound
<1>8. Distinct(cs, ss)
  <2>1. \A n \in DOMAIN ss : n \in DOMAIN rs /\ ss[n].tx = rs[n].tx
    BY <1>4
  <2> QED BY <1>4, <2>1 DEF Recomputable, Distinct
<1> HIDE DEF k
<1>9. EntrySound(cs, ss, "settled", by, "failed", e, Len(h) + 1)
  BY <1>4 DEF EntrySound, EntryFor, RefundProof, RefundResult
<1>10. \A n \in DOMAIN h : h[n].evidence # e.evidence
  <2>1. SUFFICES ASSUME NEW n \in DOMAIN h, h[n].evidence = RefundProof(x) PROVE FALSE
    BY DEF EntryFor
  <2>2. EntrySound(cs, rs, "settled", by, "failed", h[n], n)
    BY DEF Recomputable, EntriesSound
  <2>3. x.tx = rs[k].tx /\ k \in DOMAIN rs
    BY <1>4 DEF k
  <2>4. RefundProof(x).kind \in {"absent", "refunded"} /\ RefundProof(x).tx = x.tx
    BY DEF RefundProof, Absent
  <2>5. CASE \E m \in DOMAIN cs : h[n].evidence = Absent(cs[m].tx)
    <3>1. PICK m \in DOMAIN cs : h[n].evidence = Absent(cs[m].tx)
      BY <2>5
    <3>2. cs[m].tx = rs[k].tx
      BY <2>1, <2>3, <2>4, <3>1 DEF Absent
    <3> QED BY <2>3, <3>2 DEF Recomputable, Distinct
  <2>6. CASE \E m \in DOMAIN rs : /\ rs[m].state \in {"rejected", "confirmed"}
                                  /\ h[n].evidence.tx = rs[m].tx
    <3>1. PICK m \in DOMAIN rs : rs[m].state # "pending" /\ h[n].evidence.tx = rs[m].tx
      BY <2>6
    <3>2. rs[m].tx = rs[k].tx /\ rs[m].tx # NoTransaction
      BY <2>1, <2>3, <2>4, <3>1
    <3> QED BY <1>3, <2>3, <3>1, <3>2 DEF Recomputable, Distinct
  <2>7. CASE h[n].evidence.kind \in {"settled", "unused", "attested"}
    BY <2>1, <2>4, <2>7
  <2>8. \/ \E m \in DOMAIN cs : h[n].evidence = Absent(cs[m].tx)
        \/ \E m \in DOMAIN rs : rs[m].state \in {"rejected", "confirmed"}
                                /\ h[n].evidence.tx = rs[m].tx
        \/ h[n].evidence.kind \in {"settled", "unused", "attested"}
    BY <2>2, EvidenceOf
  <2> QED BY <2>5, <2>6, <2>7, <2>8
<1>11. EntriesSound(cs, ss, hh, "settled", by, "failed")
  <2>1. ColumnsGo("settled", by, "failed", "settled", by, "failed")
    BY DEF ColumnsGo
  <2>2. EntriesSound(cs, rs, h, "settled", by, "failed")
    BY DEF Recomputable
  <2> QED BY <1>4, <1>9, <1>10, <2>1, <2>2, RowsGoOn, EntryAdded
<1>12. Numbered(cs, ss, hh, rev + 1, "settled", "failed")
  BY DEF Recomputable, Numbered, Longer
<1>13. \A n \in DOMAIN cs : CandidateSound(cs, hh, "settled", by, n)
  BY <1>1, CandidatesKept DEF Recomputable
<1> QED BY <1>7, <1>8, <1>11, <1>12, <1>13 DEF Recomputable

\* The seller says how an execution ended; a failed one opens a refund.
LEMMA ExecutionReconciled ==
    ASSUME NEW cs, NEW rs, NEW h, NEW rev \in Nat, NEW by, NEW ss, NEW hh, NEW e,
           NEW result \in {"succeeded", "failed"},
           Recomputable(cs, rs, h, rev, "settled", by, "unknown"),
           ss = IF result = "failed" THEN <<OpenRow(NoTransaction, NoCase)>> ELSE rs,
           Longer(h, hh, e),
           e.kind = "execution", e.outcome = result, e.requested = e.observed,
           e.evidence = [kind |-> "attested", tx |-> by],
           e.observed = [kind |-> "execution", tx |-> by, execution |-> "unknown",
                         resolution |-> "reconciliation_required", revision |-> rev]
    PROVE  Recomputable(cs, ss, hh, rev + 1, "settled", by, result)
<1>1. EntriesKept(h, hh)
  BY EnteredStays
<1>2. rs = << >> /\ DOMAIN rs = {} /\ rev = Len(h) + 1
  BY DEF Recomputable, Numbered
<1>3. \A n \in DOMAIN cs : CandidateSound(cs, hh, "settled", by, n)
  BY <1>1, CandidatesKept DEF Recomputable
<1>4. \A n \in DOMAIN ss : /\ RefundSound(ss, hh, rev + 1, by, n)
                           /\ result = "failed" /\ n = 1 /\ ss[n].tx = NoTransaction
  <2>1. CASE result = "failed"
    <3> DEFINE x == OpenRow(NoTransaction, NoCase)
    <3>1. ss = <<x>>
      BY <2>1
    <3>2. /\ x.tx = NoTransaction /\ x.state = "pending" /\ x.evidence = NoEvidence
          /\ DOMAIN x = {"tx", "state", "evidence", "previous", "closed"}
      BY DEF OpenRow
    <3> HIDE DEF x
    <3>3. DOMAIN ss = {1} /\ Len(ss) = 1 /\ ss[1] = x
      BY <3>1
    <3> QED BY <2>1, <3>2, <3>3 DEF RefundSound, RowSound, RowResolved
  <2>2. CASE result # "failed"
    BY <1>2, <2>2
  <2> QED BY <2>1, <2>2
<1>5. Distinct(cs, ss)
  <2>1. \A k \in DOMAIN cs : cs[k].tx # NoTransaction
    BY <1>3, ReconcilerAssumption DEF CandidateSound
  <2> QED BY <1>4, <2>1 DEF Recomputable, Distinct
<1>6. EntrySound(cs, ss, "settled", by, result, e, Len(h) + 1)
  BY <1>2 DEF EntrySound
<1>7. \A n \in DOMAIN h : h[n].evidence # e.evidence
  <2>1. SUFFICES ASSUME NEW n \in DOMAIN h PROVE h[n].evidence # e.evidence
    OBVIOUS
  <2>2. EntrySound(cs, rs, "settled", by, "unknown", h[n], n)
    BY DEF Recomputable, EntriesSound
  <2>3. h[n].evidence.kind # "attested"
    <3>1. \/ h[n].evidence.kind \in {"settled", "unused"}
          \/ \E k \in DOMAIN cs : h[n].evidence = Absent(cs[k].tx)
      BY <1>2, <2>2, EvidenceOf
    <3>2. \A t : Absent(t).kind = "absent"
      BY DEF Absent
    <3> QED BY <3>1, <3>2
  <2> QED BY <2>3
<1>8. EntriesSound(cs, ss, hh, "settled", by, result)
  <2>1. ColumnsGo("settled", by, "unknown", "settled", by, result)
    BY DEF ColumnsGo
  <2>2. EntriesSound(cs, rs, h, "settled", by, "unknown")
    BY DEF Recomputable
  <2>3. RowsGo(rs, ss)
    BY <1>2 DEF RowsGo
  <2> QED BY <1>6, <1>7, <2>1, <2>2, <2>3, RowsGoOn, EntryAdded
<1>9. Numbered(cs, ss, hh, rev + 1, "settled", result)
  BY <1>2 DEF Recomputable, Numbered, Longer
<1> QED BY <1>3, <1>4, <1>5, <1>8, <1>9 DEF Recomputable

\* Nothing was reconciled yet.
LEMMA NothingYet ==
    ASSUME NEW rev, NEW att, NEW by, NEW exe, att # "retrying" => rev = 1
    PROVE  Recomputable(<< >>, << >>, << >>, rev, att, by, exe)
<1>1. DOMAIN << >> = {} /\ Len(<< >>) = 0
  OBVIOUS
<1>2. Count(<< >>, 0 + 1) = 0
  <2>1. {n \in 1..((0 + 1) - 1) : RowResolved(<< >>[n])} = {}
    OBVIOUS
  <2> QED BY <2>1, FS_EmptySet DEF Count
<1> QED BY <1>1, <1>2 DEF Recomputable, Distinct, EntriesSound, Numbered

-----------------------------------------------------------------------------
(* From the state of the reconciler to one intent's rows and back.             *)

\* The other intents are left alone.
Elsewhere(i) ==
    \A j \in Intents \ {i} :
        /\ candidates'[j] = candidates[j] /\ refunds'[j] = refunds[j]
        /\ history'[j] = history[j] /\ revision'[j] = revision[j]
        /\ attempt'[j] = attempt[j] /\ settledBy'[j] = settledBy[j]
        /\ execution'[j] = execution[j]

RecomputableAt(i) ==
    Recomputable(candidates[i], refunds[i], history[i], revision[i], attempt[i], settledBy[i],
                 execution[i])

RecomputableNext(i) ==
    Recomputable(candidates'[i], refunds'[i], history'[i], revision'[i], attempt'[i],
                 settledBy'[i], execution'[i])

\* Named rows keep their transaction and the case they were named on.
NamesKept(f, g) ==
    \A i \in Intents : \A k \in DOMAIN f[i] : f[i][k].tx # NoTransaction =>
        /\ k \in DOMAIN g[i] /\ g[i][k].tx = f[i][k].tx
        /\ g[i][k].previous = f[i][k].previous

\* One operation on one intent keeps the history invariant.
LEMMA HistoryStep ==
    ASSUME HistoryInv, Requests, NEW i \in Intents, RecomputableNext(i), Elsewhere(i),
           NamesKept(candidates, candidates'), NamesKept(refunds, refunds'),
           NEW o \in Operators, NEW r, request' = [request EXCEPT ![o] = r],
           ShownIn(r, candidates', refunds')
    PROVE  HistoryInv'
<1>1. \A j \in Intents : RecomputableNext(j)
  BY DEF HistoryInv, Elsewhere, RecomputableNext
<1>2. ASSUME NEW p \in Operators PROVE ShownIn(request'[p], candidates', refunds')
  <2>1. CASE p = o
    BY <2>1 DEF Requests
  <2>2. CASE p # o
    <3>1. request'[p] = request[p] /\ Asks(request[p])
      BY <2>2 DEF Requests
    <3>2. ShownIn(request[p], candidates, refunds)
      BY DEF HistoryInv
    <3> QED BY <3>1, <3>2 DEF ShownIn, NamesKept, Asks
  <2> QED BY <2>1, <2>2
<1> QED BY <1>1, <1>2 DEF HistoryInv, RecomputableNext

\* A request that ends waits for nothing.
LEMMA IdleShown == \A f, g : ShownIn(Idle, f, g)
BY DEF ShownIn, Idle

\* One more row.
LEMMA NamesAdded ==
    ASSUME NEW f, NEW g, NEW i \in Intents, NEW x, Added(f[i], g[i], x),
           \A j \in Intents \ {i} : g[j] = f[j]
    PROVE  NamesKept(f, g)
<1>1. Len(f[i]) \in Nat /\ DOMAIN f[i] = 1..Len(f[i]) /\ DOMAIN g[i] = 1..(Len(f[i]) + 1)
  BY ListIndexes DEF Added
<1>2. \A k \in DOMAIN f[i] : k \in DOMAIN g[i] /\ g[i][k] = f[i][k]
  BY <1>1 DEF Added
<1> QED BY <1>2 DEF NamesKept

\* The last one written.
LEMMA NamesWritten ==
    ASSUME NEW f, NEW g, NEW i \in Intents, NEW x, Closes(f[i], g[i], x),
           \A j \in Intents \ {i} : g[j] = f[j],
           \/ f[i][Len(f[i])].tx = NoTransaction
           \/ x.tx = f[i][Len(f[i])].tx /\ x.previous = f[i][Len(f[i])].previous
    PROVE  NamesKept(f, g)
<1>1. Len(f[i]) \in Nat /\ DOMAIN f[i] = 1..Len(f[i]) /\ DOMAIN g[i] = 1..Len(f[i])
  BY ListIndexes DEF Closes
<1>2. ASSUME NEW k \in DOMAIN f[i], f[i][k].tx # NoTransaction
      PROVE  /\ k \in DOMAIN g[i] /\ g[i][k].tx = f[i][k].tx
             /\ g[i][k].previous = f[i][k].previous
  <2>1. CASE k = Len(f[i])
    BY <1>1, <1>2, <2>1 DEF Closes
  <2>2. CASE k # Len(f[i])
    <3>1. k \in 1..(Len(f[i]) - 1)
      BY <1>1, <2>2
    <3> QED BY <1>1, <3>1 DEF Closes
  <2> QED BY <2>1, <2>2
<1> QED BY <1>2 DEF NamesKept

LEMMA NamesSame == /\ UNCHANGED candidates => NamesKept(candidates, candidates')
                   /\ UNCHANGED refunds => NamesKept(refunds, refunds')
BY DEF NamesKept

\* A row is appended to a table.
WithAppended(f, i, x) == [f EXCEPT ![i] = Append(f[i], x)]

LEMMA TableAdds ==
    ASSUME NEW f, Table(f), NEW i \in Intents, NEW x, NEW g, g = WithAppended(f, i, x)
    PROVE  /\ Added(f[i], g[i], x) /\ \A j \in Intents \ {i} : g[j] = f[j]
           /\ NamesKept(f, g)
<1>1. DOMAIN f = Intents
  BY DEF Table
<1>2. /\ IsFcn(g) /\ DOMAIN g = Intents /\ g[i] = Append(f[i], x)
      /\ \A j \in Intents \ {i} : g[j] = f[j]
  BY <1>1 DEF IsFcn, WithAppended
<1>3. /\ Table(g)
      /\ Len(f[i]) \in Nat /\ DOMAIN f[i] = 1..Len(f[i])
      /\ Len(g[i]) = Len(f[i]) + 1
      /\ \A n \in DOMAIN f[i] : g[i][n] = f[i][n]
      /\ g[i][Len(f[i]) + 1] = x
  BY ONLY <1>2, Table(f), i \in Intents, TableAppend
<1>4. Added(f[i], g[i], x)
  BY <1>3 DEF Added, IsList, Table
<1>5. \A j \in Intents \ {i} : g[j] = f[j]
  BY <1>2
<1>6. NamesKept(f, g)
  BY ONLY <1>4, <1>5, i \in Intents, NamesAdded
<1> QED BY <1>4, <1>5, <1>6

\* An entry is added to the history of an intent.
LEMMA HistoryGrows ==
    ASSUME Inv, NEW i \in Intents, NEW e,
           history' = [history EXCEPT ![i] = Append(history[i], e)]
    PROVE  Longer(history[i], history'[i], e) /\ \A j \in Intents \ {i} : history'[j] = history[j]
<1> DEFINE f == history
           g == history'
<1>1. Table(f) /\ g = WithAppended(f, i, e)
  BY DEF Inv, Tables, WithAppended
<1> HIDE DEF f, g
<1>2. Added(f[i], g[i], e) /\ \A j \in Intents \ {i} : g[j] = f[j]
  BY ONLY <1>1, i \in Intents, TableAdds
<1> QED BY <1>2 DEF Added, Longer, f, g

\* The last row of an intent, which is pending, is written anew.
LEMMA TableCloses ==
    ASSUME NEW f, RowTable(f), NEW i \in Intents, NEW k \in DOMAIN f[i], k = Len(f[i]),
           f[i][k].state = "pending", f[i][k].evidence = NoEvidence,
           NEW x, DOMAIN x = {"tx", "state", "evidence", "previous", "closed"}, IsRow(x),
           NEW g, g = Written(f, i, k, x)
    PROVE  Closes(f[i], g[i], x) /\ \A j \in Intents \ {i} : g[j] = f[j]
<1>1. f[i][k].state \in Open
  BY DEF Open
<1>2. /\ RowTable(g) /\ DOMAIN g[i] = DOMAIN f[i] /\ g[i][k] = x
      /\ \A n \in DOMAIN f[i] \ {k} : g[i][n] = f[i][n]
      /\ \A j \in Intents \ {i} : g[j] = f[j]
  BY <1>1, RowWritten
<1>3. IsList(f[i]) /\ IsList(g[i])
  BY <1>2 DEF RowTable, Table, IsList
<1>4. /\ Len(f[i]) \in Nat /\ DOMAIN f[i] = 1..Len(f[i])
      /\ Len(g[i]) \in Nat /\ DOMAIN g[i] = 1..Len(g[i])
  BY <1>3, ListIndexes
<1>5. Len(g[i]) = Len(f[i]) /\ Len(f[i]) # 0
  BY <1>2, <1>4
<1>6. \A n \in 1..(Len(f[i]) - 1) : n \in DOMAIN f[i] \ {k}
  BY <1>4
<1> QED BY <1>2, <1>3, <1>5, <1>6 DEF Closes

Fields == {"tx", "state", "evidence", "previous", "closed"}

\* A row that is closed, and one that is abandoned.
AsClosed(row, state, evidence) == [row EXCEPT !.state = state, !.evidence = evidence]
AsAbandoned(row, c) == [row EXCEPT !.state = "abandoned", !.closed = c]

LEMMA ClosedFields ==
    ASSUME NEW row, DOMAIN row = Fields, IsRow(row), NEW state, NEW evidence, NEW c
    PROVE  LET x == AsClosed(row, state, evidence)
               y == AsAbandoned(row, c)
           IN
           /\ DOMAIN x = Fields /\ x.tx = row.tx /\ x.state = state /\ x.evidence = evidence
           /\ x.previous = row.previous
           /\ state \in {"rejected", "confirmed"} => IsRow(x)
           /\ DOMAIN y = Fields /\ y.tx = row.tx /\ y.state = "abandoned" /\ y.closed = c
           /\ y.previous = row.previous /\ y.evidence = row.evidence /\ IsRow(y)
<1> DEFINE x == AsClosed(row, state, evidence)
           y == AsAbandoned(row, c)
<1>1. /\ DOMAIN x = Fields /\ x.tx = row.tx /\ x.state = state /\ x.evidence = evidence
      /\ x.previous = row.previous
  BY DEF Fields, AsClosed
<1>2. /\ DOMAIN y = Fields /\ y.tx = row.tx /\ y.state = "abandoned" /\ y.closed = c
      /\ y.previous = row.previous /\ y.evidence = row.evidence
  BY DEF Fields, AsAbandoned
<1> HIDE DEF x, y
<1>3. row.tx \in Transactions \cup {NoTransaction}
  BY RowFields
<1>4. state \in {"rejected", "confirmed"} => IsRow(x)
  BY <1>1, <1>3 DEF IsRow, Row, Fields
<1>5. IsRow(y)
  BY <1>2, <1>3 DEF IsRow, Row, Fields
<1> QED BY <1>1, <1>2, <1>4, <1>5 DEF x, y

-----------------------------------------------------------------------------
(* What a lease knows of the case it works on.                                 *)

\* A case hash with the columns it has is that case hash.
LEMMA SameFields ==
    ASSUME NEW c, IsFcn(c)
    PROVE  /\ c.attempt = "unresolved" /\ c.budget = "unresolved" =>
                [c EXCEPT !.attempt = "unresolved", !.budget = "unresolved"] = c
           /\ c.execution = "failed" /\ c.resolution = "refund_pending" =>
                [c EXCEPT !.execution = "failed", !.resolution = "refund_pending"] = c
BY DEF IsFcn

LEMMA HoldIs ==
    ASSUME Inv, NEW i \in Intents, PaymentCaseLoads(i)
    PROVE  /\ PaymentCase(i) = PaymentCaseOf(revision[i], Shown(candidates[i]))
           /\ attempt[i] = "unresolved" /\ settledBy[i] = NoTransaction
           /\ execution[i] = "none"
<1>1. PaymentCase(i) = PaymentCaseOf(revision[i], Shown(candidates[i]))
  <2>1. attempt[i] = "unresolved" /\ budget[i] = "unresolved"
    BY DEF PaymentCaseLoads
  <2> DEFINE c == PaymentCaseOf(revision[i], Shown(candidates[i]))
  <2>2. IsFcn(c) /\ c.attempt = "unresolved" /\ c.budget = "unresolved"
    BY DEF PaymentCaseOf, IsFcn
  <2> HIDE DEF c
  <2>3. PaymentCase(i) = [c EXCEPT !.attempt = "unresolved", !.budget = "unresolved"]
    BY <2>1 DEF PaymentCase, c
  <2> QED BY <2>2, <2>3, SameFields DEF c
<1>2. attempt[i] = "unresolved" /\ settledBy[i] = NoTransaction
  BY DEF PaymentCaseLoads, Inv, Settled
<1>3. execution[i] = "none"
  BY <1>2 DEF Inv, Stage, At
<1> QED BY <1>1, <1>2, <1>3

LEMMA RefundIs ==
    ASSUME Inv, NEW i \in Intents, RefundCaseLoads(i)
    PROVE  /\ RefundCase(i) = RefundCaseOf(settledBy[i], revision[i], Shown(refunds[i]))
           /\ attempt[i] = "settled" /\ execution[i] = "failed" /\ revision[i] \in Nat
<1>1. /\ execution[i] = "failed" /\ resolution[i] = "refund_pending" /\ attempt[i] = "settled"
      /\ revision[i] \in Nat
  BY DEF RefundCaseLoads, Inv, ColumnsTyped
<1> DEFINE c == RefundCaseOf(settledBy[i], revision[i], Shown(refunds[i]))
<1>2. IsFcn(c) /\ c.execution = "failed" /\ c.resolution = "refund_pending"
  BY DEF RefundCaseOf, IsFcn
<1> HIDE DEF c
<1>3. RefundCase(i) = [c EXCEPT !.execution = "failed", !.resolution = "refund_pending"]
  BY <1>1 DEF RefundCase, c
<1> QED BY <1>1, <1>2, <1>3, SameFields DEF c

\* An open row of a candidate table is the last one, pending.
LEMMA OpenCandidate ==
    ASSUME Inv, HistoryInv, NEW i \in Intents, NEW k \in DOMAIN candidates[i],
           candidates[i][k].state \in Open
    PROVE  /\ k = Len(candidates[i]) /\ candidates[i][k].state = "pending"
           /\ candidates[i][k].evidence = NoEvidence
           /\ DOMAIN candidates[i][k] = Fields /\ IsRow(candidates[i][k])
<1>1. RowSound(candidates[i], k) /\ IsRow(candidates[i][k])
  BY DEF HistoryInv, Recomputable, CandidateSound, Inv, Tables, RowTable
<1> QED BY <1>1 DEF RowSound, Open, Fields

LEMMA OpenRefund ==
    ASSUME Inv, HistoryInv, NEW i \in Intents, NEW k \in DOMAIN refunds[i],
           refunds[i][k].state \in Open
    PROVE  /\ k = Len(refunds[i]) /\ refunds[i][k].state = "pending"
           /\ refunds[i][k].evidence = NoEvidence
           /\ DOMAIN refunds[i][k] = Fields /\ IsRow(refunds[i][k])
<1>1. RowSound(refunds[i], k) /\ IsRow(refunds[i][k])
  BY DEF HistoryInv, Recomputable, RefundSound, Inv, Tables, RowTable
<1> QED BY <1>1 DEF RowSound, Open, Fields

\* Nothing names an unused transaction.
LEMMA UnusedIsNew ==
    ASSUME NEW t, TransactionUnused(t), NEW i \in Intents
    PROVE  /\ \A k \in DOMAIN candidates[i] : candidates[i][k].tx # t
           /\ \A k \in DOMAIN refunds[i] : refunds[i][k].tx # t
<1>1. ASSUME NEW k \in DOMAIN candidates[i], candidates[i][k].tx = t PROVE FALSE
  <2> DEFINE R(j) == {<<"candidate", j, m>> : m \in {n \in DOMAIN candidates[j] :
                                                         candidates[j][n].tx = t}}
             U == UNION {R(j) : j \in Intents}
             A == {<<"payment", j, 0>> : j \in {m \in Intents : settledBy[m] = t}}
             B == UNION {{<<"refund", j, m>> : m \in {n \in DOMAIN refunds[j] :
                                                 refunds[j][n].tx = t}} : j \in Intents}
  <2>1. (A \cup U) \cup B = {}
    BY DEF TransactionUnused, RowsNaming
  <2>2. <<"candidate", i, k>> \in R(i)
    BY <1>1
  <2>3. <<"candidate", i, k>> \in U
    <3> HIDE DEF R
    <3> QED BY <2>2
  <2> HIDE DEF A, B, U
  <2> QED BY <2>1, <2>3
<1>2. ASSUME NEW k \in DOMAIN refunds[i], refunds[i][k].tx = t PROVE FALSE
  BY <1>2, RefundNamed DEF TransactionUnused
<1> QED BY <1>1, <1>2

\* The entry of a second lease carries the case it reloaded, and the one of the
\* request, which saw the row it asks about or named it.
LEMMA EntryIs ==
    ASSUME Inv, HistoryInv, NEW o \in Operators, NEW kind \in {"payment", "refund"},
           Resumes(o, kind), CaseUnmoved(o), NEW result, NEW proof, NEW x,
           LET rows == IF kind = "payment" THEN candidates[request[o].intent]
                                           ELSE refunds[request[o].intent]
           IN  request[o].row \in DOMAIN rows => rows[request[o].row].previous = x.previous
    PROVE  EntryFor(Entry(o, result, proof), kind, result, proof, x,
                    CaseOf(kind, request[o].intent))
<1> DEFINE e == Entry(o, result, proof)
           i == request[o].intent
<1>1. /\ request[o].phase = "asked" /\ request[o].kind = kind
      /\ CaseOf(kind, i) = request[o].bound
  BY DEF Resumes, CaseUnmoved
<1>2. /\ e.kind = kind /\ e.outcome = result /\ e.evidence = proof
      /\ e.requested = request[o].case /\ e.observed = CaseOf(kind, i)
  BY <1>1 DEF Entry
<1>3. request[o].case = request[o].bound \/ request[o].case = x.previous
  <2>1. ShownIn(request[o], candidates, refunds)
    BY DEF HistoryInv
  <2> QED BY <1>1, <2>1 DEF ShownIn
<1> HIDE DEF e
<1>4. e.requested \in {x.previous, CaseOf(kind, i)}
  BY <1>1, <1>2, <1>3
<1>5. EntryFor(e, kind, result, proof, x, CaseOf(kind, i))
  BY <1>2, <1>4 DEF EntryFor
<1> QED BY <1>5 DEF e

\* Row k of i, the last one, is written as x, and nothing else is.
RowWrites(f, g, i, k, x) ==
    /\ k = Len(f[i]) /\ Closes(f[i], g[i], x) /\ x.tx = f[i][Len(f[i])].tx
    /\ x.previous = f[i][Len(f[i])].previous
    /\ \A j \in Intents \ {i} : g[j] = f[j]
    /\ NamesKept(f, g)

\* The last row, still pending.
LastPending(f, i, k) ==
    /\ k \in DOMAIN f[i] /\ k = Len(f[i]) /\ f[i][k].state = "pending"
    /\ f[i][k].evidence = NoEvidence /\ DOMAIN f[i][k] = Fields /\ IsRow(f[i][k])

LEMMA LastWritten ==
    ASSUME NEW f, RowTable(f), NEW i \in Intents, NEW k, LastPending(f, i, k),
           NEW x, DOMAIN x = Fields, IsRow(x), x.tx = f[i][k].tx,
           x.previous = f[i][k].previous, NEW g, g = Written(f, i, k, x)
    PROVE  RowWrites(f, g, i, k, x)
<1>1. Closes(f[i], g[i], x) /\ \A j \in Intents \ {i} : g[j] = f[j]
  BY TableCloses DEF Fields, LastPending
<1>2. NamesKept(f, g)
  <2>1. x.tx = f[i][Len(f[i])].tx /\ x.previous = f[i][Len(f[i])].previous
    BY DEF LastPending
  <2> QED BY ONLY <1>1, <2>1, i \in Intents, NamesWritten
<1> QED BY <1>1, <1>2 DEF RowWrites, LastPending

\* It is closed.
LEMMA LastClosed ==
    ASSUME NEW f, RowTable(f), NEW i \in Intents, NEW k, LastPending(f, i, k),
           NEW state \in {"rejected", "confirmed"}, NEW evidence,
           NEW g, g = WithClosed(f, i, k, state, evidence)
    PROVE  LET x == AsClosed(f[i][k], state, evidence) IN
           RowWrites(f, g, i, k, x) /\ x.state = state /\ x.evidence = evidence
<1> DEFINE row == f[i][k]
           x == AsClosed(row, state, evidence)
<1>1. DOMAIN f = Intents /\ k \in DOMAIN f[i]
  BY DEF RowTable, Table, LastPending
<1>2. g = Written(f, i, k, x)
  BY <1>1 DEF CloseRow, Written, WithClosed, AsClosed
<1>3. DOMAIN row = Fields /\ IsRow(row)
  BY DEF LastPending
<1> HIDE DEF row
<1>4. /\ DOMAIN x = Fields /\ x.tx = row.tx /\ x.state = state /\ x.evidence = evidence
      /\ x.previous = row.previous /\ IsRow(x)
  BY <1>3, ClosedFields
<1> HIDE DEF x
<1>5. RowWrites(f, g, i, k, x)
  BY ONLY <1>2, <1>4, RowTable(f), i \in Intents, LastPending(f, i, k), LastWritten DEF row
<1> QED BY <1>4, <1>5 DEF x, row

\* It is abandoned.
WithAbandoned(f, i, k, c) == [f EXCEPT ![i][k].state = "abandoned", ![i][k].closed = c]

LEMMA LastAbandoned ==
    ASSUME NEW f, RowTable(f), NEW i \in Intents, NEW k, LastPending(f, i, k), NEW c,
           NEW g, g = WithAbandoned(f, i, k, c)
    PROVE  LET x == AsAbandoned(f[i][k], c) IN
           /\ RowWrites(f, g, i, k, x)
           /\ x.state = "abandoned" /\ x.evidence = NoEvidence /\ x.closed = c
<1> DEFINE row == f[i][k]
           x == AsAbandoned(row, c)
<1>1. DOMAIN f = Intents /\ k \in DOMAIN f[i]
  BY DEF RowTable, Table, LastPending
<1>2. g = Written(f, i, k, x)
  BY <1>1 DEF Written, AsAbandoned, WithAbandoned
<1>3. DOMAIN row = Fields /\ IsRow(row) /\ row.evidence = NoEvidence
  BY DEF LastPending
<1> HIDE DEF row
<1>4. /\ DOMAIN x = Fields /\ x.tx = row.tx /\ x.state = "abandoned" /\ x.closed = c
      /\ x.previous = row.previous /\ x.evidence = NoEvidence /\ IsRow(x)
  BY <1>3, ClosedFields
<1> HIDE DEF x
<1>5. RowWrites(f, g, i, k, x)
  BY ONLY <1>2, <1>4, RowTable(f), i \in Intents, LastPending(f, i, k), LastWritten DEF row
<1> QED BY <1>4, <1>5 DEF x, row

-----------------------------------------------------------------------------
(* First leases that write.                                                    *)

\* What a first lease knows.
LEMMA Submitted ==
    ASSUME Inv, NEW o \in Operators, NEW kind \in {"payment", "refund"}, Submits(o, kind),
           CaseIsCurrent(o)
    PROVE  LET i == request[o].intent IN
           /\ i \in Intents /\ request[o].kind = kind /\ request[o].case = CaseOf(kind, i)
           /\ CaseLoads(kind, i) /\ Requests /\ RowTable(candidates) /\ RowTable(refunds)
<1>1. request[o].kind = kind /\ request[o].phase = "shown" /\ Asks(request[o])
  BY DEF Inv, Requests, Submits
<1>2. request[o].intent \in Intents
  BY <1>1 DEF Asks
<1> QED BY <1>1, <1>2 DEF CaseIsCurrent, Inv, Tables

\* The request that names the row was shown the case the row remembers.
LEMMA NamedShown ==
    ASSUME NEW kind \in {"payment", "refund"}, NEW i, NEW case, NEW bound, NEW k,
           NEW f, NEW g,
           LET rows == IF kind = "payment" THEN f[i] ELSE g[i] IN
           /\ k \in DOMAIN rows /\ rows[k].tx # NoTransaction /\ rows[k].previous = case
    PROVE  ShownIn([phase |-> "asked", intent |-> i, kind |-> kind, case |-> case,
                    row |-> k, bound |-> bound], f, g)
<1> DEFINE r == [phase |-> "asked", intent |-> i, kind |-> kind, case |-> case,
                 row |-> k, bound |-> bound]
<1>1. r.intent = i /\ r.kind = kind /\ r.case = case /\ r.row = k /\ r.kind # "execution"
  OBVIOUS
<1> HIDE DEF r
<1>2. ShownIn(r, f, g)
  BY <1>1 DEF ShownIn
<1> QED BY <1>2 DEF r

LEMMA HistoryNamePayment ==
    ASSUME Inv, HistoryInv, NEW o \in Operators, NEW t \in Transactions, NamePayment(o, t)
    PROVE  HistoryInv'
<1> DEFINE i == request[o].intent
           c == PaymentCase(i)
           x == OpenRow(t, c)
           k == Len(candidates[i]) + 1
           bound == PaymentCaseOf(revision[i], Shown(candidates'[i]))
           r == [phase |-> "asked", intent |-> i, kind |-> "payment", case |-> request[o].case,
                 row |-> k, bound |-> bound]
<1>1. /\ Submits(o, "payment") /\ CaseIsCurrent(o) /\ ~HasOpen(candidates[i])
      /\ TransactionUnused(t) /\ candidates' = WithAppended(candidates, i, x)
      /\ Ask(o, k, bound)
      /\ UNCHANGED <<holdVars, effectVars, outcomeVars, refunds, history, processVars, chainVars>>
  BY DEF NamePayment, WithAppended
<1>2. /\ i \in Intents /\ request[o].kind = "payment" /\ request[o].case = c
      /\ PaymentCaseLoads(i) /\ Requests /\ Table(candidates)
  BY <1>1, Submitted DEF CaseOf, CaseLoads, RowTable
<1>3. /\ c = PaymentCaseOf(revision[i], Shown(candidates[i]))
      /\ attempt[i] = "unresolved"
  BY <1>2, HoldIs
<1>4. /\ Added(candidates[i], candidates'[i], x)
      /\ \A j \in Intents \ {i} : candidates'[j] = candidates[j]
      /\ NamesKept(candidates, candidates')
  <2> DEFINE f == candidates
             g == candidates'
  <2>1. Table(f) /\ g = WithAppended(f, i, x)
    BY <1>1, <1>2
  <2> HIDE DEF f, g, x, i
  <2>2. Added(f[i], g[i], x) /\ (\A j \in Intents \ {i} : g[j] = f[j]) /\ NamesKept(f, g)
    BY ONLY <1>2, <2>1, TableAdds
  <2> QED BY <2>2 DEF f, g
<1>5. RecomputableNext(i)
  <2> DEFINE cs == candidates[i]
             ds == candidates'[i]
             rs == refunds[i]
             h == history[i]
             rev == revision[i]
             by == settledBy[i]
             exe == execution[i]
  <2>1. Recomputable(cs, rs, h, rev, "unresolved", by, exe)
    BY <1>2, <1>3 DEF HistoryInv
  <2>2. Added(cs, ds, x) /\ x = OpenRow(t, PaymentCaseOf(rev, Shown(cs)))
    BY <1>3, <1>4
  <2>3. \A n \in DOMAIN cs : cs[n].state # "pending" /\ cs[n].tx # t
    BY <1>1, <1>2, UnusedIsNew DEF HasOpen, OpenIndexes, Open
  <2>4. \A n \in DOMAIN rs : rs[n].tx # t
    BY <1>1, <1>2, UnusedIsNew
  <2> HIDE DEF cs, ds, rs, h, rev, by, exe, x
  <2>5. Recomputable(ds, rs, h, rev, "unresolved", by, exe)
    BY ONLY <2>1, <2>2, <2>3, <2>4, t \in Transactions, CandidateAdds
  <2> QED
    BY <1>1, <1>3, <2>5 DEF RecomputableNext, holdVars, effectVars, outcomeVars,
                            cs, ds, rs, h, rev, by, exe
<1>6. Elsewhere(i)
  BY <1>1, <1>4 DEF Elsewhere, holdVars, effectVars, outcomeVars
<1>7. NamesKept(candidates, candidates') /\ NamesKept(refunds, refunds')
  BY <1>1, <1>4, NamesSame
<1>8. request' = [request EXCEPT ![o] = r]
  BY <1>1, <1>2 DEF Ask
<1>9. ShownIn(r, candidates', refunds')
  <2>1. x.tx = t /\ x.previous = c /\ t # NoTransaction
    BY ReconcilerAssumption DEF OpenRow
  <2>2. k \in DOMAIN candidates'[i] /\ candidates'[i][k] = x
    BY <1>4, ListIndexes DEF Added
  <2> HIDE DEF k, x, c, bound, i
  <2> QED BY <1>2, <2>1, <2>2, NamedShown
<1> HIDE DEF r
<1> QED BY <1>2, <1>5, <1>6, <1>7, <1>8, <1>9, HistoryStep

LEMMA HistoryAbandonPayment ==
    ASSUME Inv, HistoryInv, NEW o \in Operators, AbandonPayment(o)
    PROVE  HistoryInv'
<1> DEFINE i == request[o].intent
           c == PaymentCase(i)
           k == OpenIndex(candidates[i])
           x == AsAbandoned(candidates[i][k], c)
<1>1. /\ Submits(o, "payment") /\ CaseIsCurrent(o) /\ HasOpen(candidates[i])
      /\ candidates' = WithAbandoned(candidates, i, k, c)
      /\ EndRequest(o)
      /\ UNCHANGED <<holdVars, effectVars, outcomeVars, refunds, history, processVars, chainVars>>
  BY DEF AbandonPayment, WithAbandoned
<1>2. /\ i \in Intents /\ PaymentCaseLoads(i) /\ Requests /\ RowTable(candidates)
  BY <1>1, Submitted DEF CaseLoads
<1>3. /\ c = PaymentCaseOf(revision[i], Shown(candidates[i]))
      /\ attempt[i] = "unresolved" /\ settledBy[i] = NoTransaction
  BY <1>2, HoldIs
<1>4. LastPending(candidates, i, k)
  <2>1. k \in DOMAIN candidates[i] /\ candidates[i][k].state \in Open
    BY <1>1, OpenRowThere
  <2> HIDE DEF i, k
  <2> QED BY <1>2, <2>1, OpenCandidate DEF LastPending
<1> HIDE DEF k, c
<1>5. /\ RowWrites(candidates, candidates', i, k, x)
      /\ x.state = "abandoned" /\ x.evidence = NoEvidence /\ x.closed = c
  <2> DEFINE f == candidates
             g == candidates'
  <2>1. /\ RowTable(f) /\ LastPending(f, i, k) /\ x = AsAbandoned(f[i][k], c)
        /\ g = WithAbandoned(f, i, k, c)
    BY <1>1, <1>2, <1>4
  <2> HIDE DEF f, g, x, i
  <2>2. /\ RowWrites(f, g, i, k, x)
        /\ x.state = "abandoned" /\ x.evidence = NoEvidence /\ x.closed = c
    BY ONLY <1>2, <2>1, LastAbandoned
  <2> QED BY <2>2 DEF f, g
<1> HIDE DEF x
<1>6. RecomputableNext(i)
  <2> DEFINE cs == candidates[i]
             ds == candidates'[i]
             rs == refunds[i]
             h == history[i]
             rev == revision[i]
             exe == execution[i]
  <2>1. Recomputable(cs, rs, h, rev, "unresolved", NoTransaction, exe)
    BY <1>2, <1>3 DEF HistoryInv
  <2>2. /\ Closes(cs, ds, x) /\ x.tx = cs[Len(cs)].tx /\ x.previous = cs[Len(cs)].previous
        /\ x.state = "abandoned" /\ x.evidence = NoEvidence
        /\ x.closed = PaymentCaseOf(rev, Shown(cs))
    BY <1>3, <1>5 DEF RowWrites
  <2> HIDE DEF cs, ds, rs, h, rev, exe
  <2>3. Recomputable(ds, rs, h, rev, "unresolved", NoTransaction, exe)
    BY ONLY <2>1, <2>2, CandidateAbandoned
  <2> QED
    BY <1>1, <1>3, <2>3 DEF RecomputableNext, holdVars, effectVars, outcomeVars,
                            cs, ds, rs, h, rev, exe
<1>7. Elsewhere(i)
  BY <1>1, <1>5 DEF Elsewhere, RowWrites, holdVars, effectVars, outcomeVars
<1>8. NamesKept(candidates, candidates') /\ NamesKept(refunds, refunds')
  BY <1>1, <1>5, NamesSame DEF RowWrites
<1>9. request' = [request EXCEPT ![o] = Idle]
  BY <1>1 DEF EndRequest
<1> QED BY <1>2, <1>6, <1>7, <1>8, <1>9, IdleShown, HistoryStep

-----------------------------------------------------------------------------
(* Second leases about a payment.                                              *)

\* What a second lease records.
LEMMA Reconciled ==
    ASSUME Inv, NEW o \in Operators, NEW i \in Intents, i = request[o].intent,
           NEW result, NEW proof, NEW status,
           Record(o, result, proof), Revise(i, status), IssueReceipt(o, i)
    PROVE  /\ Longer(history[i], history'[i], Entry(o, result, proof))
           /\ revision'[i] = revision[i] + 1 /\ revision[i] \in Nat
           /\ \A j \in Intents \ {i} : history'[j] = history[j] /\ revision'[j] = revision[j]
           /\ request' = [request EXCEPT ![o] = Idle]
<1> DEFINE e == Entry(o, result, proof)
<1>1. history' = [history EXCEPT ![i] = Append(history[i], e)]
  BY DEF Record
<1> HIDE DEF e
<1>2. Longer(history[i], history'[i], e) /\ \A j \in Intents \ {i} : history'[j] = history[j]
  BY <1>1, HistoryGrows
<1>3. /\ revision'[i] = revision[i] + 1 /\ revision[i] \in Nat
      /\ \A j \in Intents \ {i} : revision'[j] = revision[j]
  BY DEF Inv, ColumnsTyped, Revise
<1>4. request' = [request EXCEPT ![o] = Idle]
  BY DEF IssueReceipt, EndRequest
<1> QED BY <1>2, <1>3, <1>4 DEF e

\* The candidate asked about is the last row, and it is closed.
LEMMA CandidateWritten ==
    ASSUME Inv, HistoryInv, NEW o \in Operators, Resumes(o, "payment"), CaseUnmoved(o),
           request[o].row # 0, NEW state \in {"rejected", "confirmed"}, NEW proof, NEW result,
           candidates' = WithClosed(candidates, request[o].intent, request[o].row, state, proof)
    PROVE  \E x :
               /\ RowWrites(candidates, candidates', request[o].intent, request[o].row, x)
               /\ x.tx = AskedRow(o).tx /\ x.state = state /\ x.evidence = proof
               /\ EntryFor(Entry(o, result, proof), "payment", result, proof, x,
                           PaymentCase(request[o].intent))
<1> DEFINE i == request[o].intent
           k == request[o].row
           x == AsClosed(candidates[i][k], state, proof)
<1>1. /\ i \in Intents /\ PaymentCaseLoads(i) /\ k \in DOMAIN candidates[i]
      /\ AskedRow(o) = candidates[i][k] /\ AskedRow(o).state \in Open
  BY AskedCandidate
<1>2. LastPending(candidates, i, k)
  <2> HIDE DEF i, k
  <2> QED BY <1>1, OpenCandidate DEF LastPending
<1>3. RowWrites(candidates, candidates', i, k, x) /\ x.state = state /\ x.evidence = proof
  <2> DEFINE f == candidates
             g == candidates'
  <2>1. /\ RowTable(f) /\ LastPending(f, i, k) /\ x = AsClosed(f[i][k], state, proof)
        /\ g = WithClosed(f, i, k, state, proof)
    BY <1>2 DEF Inv, Tables
  <2> HIDE DEF f, g, x, i, k
  <2>2. RowWrites(f, g, i, k, x) /\ x.state = state /\ x.evidence = proof
    BY ONLY <1>1, <2>1, state \in {"rejected", "confirmed"}, LastClosed
  <2> QED BY <2>2 DEF f, g
<1> HIDE DEF x
<1>4. x.tx = AskedRow(o).tx /\ x.previous = candidates[i][k].previous
  BY <1>1, <1>3 DEF RowWrites
<1>5. EntryFor(Entry(o, result, proof), "payment", result, proof, x, PaymentCase(i))
  <2>1. candidates[request[o].intent][request[o].row].previous = x.previous
    BY <1>4
  <2> QED BY <2>1, EntryIs DEF CaseOf
<1> QED BY <1>3, <1>4, <1>5

LEMMA HistoryRejectCandidate ==
    ASSUME Inv, HistoryInv, NEW o \in Operators, RejectCandidate(o)
    PROVE  HistoryInv'
<1> DEFINE i == request[o].intent
           k == request[o].row
           proof == [kind |-> "absent", tx |-> AskedRow(o).tx]
           e == Entry(o, "unresolved", proof)
<1>1. /\ Resumes(o, "payment") /\ CaseUnmoved(o) /\ "absent" \in Answers(o)
      /\ candidates' = WithClosed(candidates, i, k, "rejected", proof)
      /\ Record(o, "unresolved", proof)
      /\ Revise(i, "payment_unresolved") /\ IssueReceipt(o, i)
      /\ UNCHANGED <<holdVars, effectVars, refunds, chainVars>>
  BY DEF RejectCandidate, WithClosed
<1>2. i \in Intents /\ PaymentCaseLoads(i) /\ (k = 0 => AskedRow(o).tx = NoTransaction)
  BY <1>1, AskedCandidate
<1>3. k # 0
  BY <1>1, <1>2 DEF Answers, PaymentAnswers, RejectionProof, Resumes
<1>4. /\ PaymentCase(i) = PaymentCaseOf(revision[i], Shown(candidates[i]))
      /\ attempt[i] = "unresolved" /\ settledBy[i] = NoTransaction /\ execution[i] = "none"
  BY <1>2, HoldIs
<1> HIDE DEF proof
<1>5. PICK x :
         /\ RowWrites(candidates, candidates', i, k, x)
         /\ x.tx = AskedRow(o).tx /\ x.state = "rejected" /\ x.evidence = proof
         /\ EntryFor(e, "payment", "unresolved", proof, x, PaymentCase(i))
  BY <1>1, <1>3, CandidateWritten
<1>6. proof = Absent(x.tx)
  BY <1>5 DEF proof, Absent
<1> HIDE DEF e, k
<1>7. /\ Longer(history[i], history'[i], e)
      /\ revision'[i] = revision[i] + 1 /\ revision[i] \in Nat
      /\ \A j \in Intents \ {i} : history'[j] = history[j] /\ revision'[j] = revision[j]
      /\ request' = [request EXCEPT ![o] = Idle]
  BY <1>1, <1>2, Reconciled DEF e
<1>8. RecomputableNext(i)
  <2> DEFINE cs == candidates[i]
             ds == candidates'[i]
             rs == refunds[i]
             h == history[i]
             hh == history'[i]
             rev == revision[i]
             exe == execution[i]
  <2>1. Recomputable(cs, rs, h, rev, "unresolved", NoTransaction, exe) /\ exe # "failed"
    BY <1>2, <1>4 DEF HistoryInv
  <2>2. /\ Closes(cs, ds, x) /\ x.tx = cs[Len(cs)].tx /\ x.previous = cs[Len(cs)].previous
        /\ x.state = "rejected" /\ x.evidence = Absent(x.tx) /\ Longer(h, hh, e)
        /\ EntryFor(e, "payment", "unresolved", Absent(x.tx), x, PaymentCaseOf(rev, Shown(cs)))
    BY <1>4, <1>5, <1>6, <1>7 DEF RowWrites
  <2> HIDE DEF cs, ds, rs, h, hh, rev, exe
  <2>3. Recomputable(ds, rs, hh, rev + 1, "unresolved", NoTransaction, exe)
    BY ONLY <2>1, <2>2, CandidateRejected
  <2> QED
    BY <1>1, <1>4, <1>7, <2>3 DEF RecomputableNext, holdVars, effectVars,
                                  cs, ds, rs, h, hh, rev, exe
<1>9. Elsewhere(i)
  BY <1>1, <1>5, <1>7 DEF Elsewhere, RowWrites, holdVars, effectVars
<1>10. NamesKept(candidates, candidates') /\ NamesKept(refunds, refunds') /\ Requests
  BY <1>1, <1>5, NamesSame DEF RowWrites, Inv
<1> QED BY <1>2, <1>7, <1>8, <1>9, <1>10, IdleShown, HistoryStep

LEMMA HistorySettlePayment ==
    ASSUME Inv, HistoryInv, NEW o \in Operators, SettlePayment(o)
    PROVE  HistoryInv'
<1> DEFINE i == request[o].intent
           k == request[o].row
           t == AskedRow(o).tx
           proof == [kind |-> "settled", tx |-> t]
           e == Entry(o, "settled", proof)
<1>1. /\ Resumes(o, "payment") /\ CaseUnmoved(o) /\ "settled" \in Answers(o)
      /\ Record(o, "settled", proof)
      /\ Revise(i, "execution_unknown") /\ IssueReceipt(o, i)
      /\ candidates' = WithClosed(candidates, i, k, "confirmed", proof)
      /\ attempt' = [attempt EXCEPT ![i] = "settled"]
      /\ settledBy' = [settledBy EXCEPT ![i] = t]
      /\ execution' = [execution EXCEPT ![i] = "unknown"]
      /\ UNCHANGED <<refunds, chainVars>>
  BY DEF SettlePayment, ResolvePayment, WithClosed
<1>2. i \in Intents /\ PaymentCaseLoads(i) /\ (k = 0 => AskedRow(o).tx = NoTransaction)
  BY <1>1, AskedCandidate
<1>3. k # 0
  BY <1>1, <1>2 DEF Answers, PaymentAnswers, TransferProof, Resumes
<1>4. /\ PaymentCase(i) = PaymentCaseOf(revision[i], Shown(candidates[i]))
      /\ attempt[i] = "unresolved" /\ settledBy[i] = NoTransaction /\ execution[i] = "none"
  BY <1>2, HoldIs
<1> HIDE DEF proof
<1>5. PICK x :
         /\ RowWrites(candidates, candidates', i, k, x)
         /\ x.tx = AskedRow(o).tx /\ x.state = "confirmed" /\ x.evidence = proof
         /\ EntryFor(e, "payment", "settled", proof, x, PaymentCase(i))
  BY <1>1, <1>3, CandidateWritten
<1>6. proof = [kind |-> "settled", tx |-> x.tx] /\ t = x.tx
  BY <1>5 DEF proof
<1> HIDE DEF e, k, t
<1>7. /\ Longer(history[i], history'[i], e)
      /\ revision'[i] = revision[i] + 1 /\ revision[i] \in Nat
      /\ \A j \in Intents \ {i} : history'[j] = history[j] /\ revision'[j] = revision[j]
      /\ request' = [request EXCEPT ![o] = Idle]
  BY <1>1, <1>2, Reconciled DEF e
<1>8. /\ attempt'[i] = "settled" /\ settledBy'[i] = x.tx /\ execution'[i] = "unknown"
      /\ \A j \in Intents \ {i} : /\ attempt'[j] = attempt[j] /\ settledBy'[j] = settledBy[j]
                                  /\ execution'[j] = execution[j]
  BY <1>1, <1>2, <1>6 DEF Inv, ColumnsTyped
<1>9. RecomputableNext(i)
  <2> DEFINE cs == candidates[i]
             ds == candidates'[i]
             rs == refunds[i]
             h == history[i]
             hh == history'[i]
             rev == revision[i]
             exe == execution[i]
  <2>1. /\ Recomputable(cs, rs, h, rev, "unresolved", NoTransaction, exe)
        /\ exe \notin {"succeeded", "failed"}
    BY <1>2, <1>4 DEF HistoryInv
  <2>2. /\ Closes(cs, ds, x) /\ x.tx = cs[Len(cs)].tx /\ x.previous = cs[Len(cs)].previous
        /\ x.state = "confirmed" /\ x.evidence = [kind |-> "settled", tx |-> x.tx]
        /\ Longer(h, hh, e)
        /\ EntryFor(e, "payment", "settled", [kind |-> "settled", tx |-> x.tx], x,
                    PaymentCaseOf(rev, Shown(cs)))
    BY <1>4, <1>5, <1>6, <1>7 DEF RowWrites
  <2> HIDE DEF cs, ds, rs, h, hh, rev, exe
  <2>3. Recomputable(ds, rs, hh, rev + 1, "settled", x.tx, "unknown")
    BY ONLY <2>1, <2>2, CandidateSettled
  <2> QED
    BY <1>1, <1>7, <1>8, <2>3 DEF RecomputableNext, cs, ds, rs, h, hh, rev, exe
<1>10. Elsewhere(i)
  BY <1>1, <1>5, <1>7, <1>8 DEF Elsewhere, RowWrites
<1>11. NamesKept(candidates, candidates') /\ NamesKept(refunds, refunds') /\ Requests
  BY <1>1, <1>5, NamesSame DEF RowWrites, Inv
<1> QED BY <1>2, <1>7, <1>9, <1>10, <1>11, IdleShown, HistoryStep

\* Whatever is pending in a table is rejected.
Released(rows, proof) ==
    [k \in DOMAIN rows |-> IF rows[k].state = "pending" THEN AsClosed(rows[k], "rejected", proof)
                                                        ELSE rows[k]]

LEMMA ReleasedRows ==
    ASSUME NEW f, RowTable(f), NEW i \in Intents, NEW proof,
           NEW g, g = [f EXCEPT ![i] = Released(f[i], proof)]
    PROVE  /\ \A k : LastPending(f, i, k) /\ (\A n \in DOMAIN f[i] : f[i][n].state = "pending" => n = k)
                        => g = WithClosed(f, i, k, "rejected", proof)
           /\ (\A n \in DOMAIN f[i] : f[i][n].state # "pending") => g = f
<1>1. IsFcn(f) /\ DOMAIN f = Intents
  BY DEF RowTable, Table
<1>2. ASSUME NEW k, LastPending(f, i, k),
             \A n \in DOMAIN f[i] : f[i][n].state = "pending" => n = k
      PROVE  g = WithClosed(f, i, k, "rejected", proof)
  <2> DEFINE rows == f[i]
  <2>1. k \in DOMAIN rows /\ rows[k].state = "pending"
    BY <1>2 DEF LastPending
  <2>2. CloseRow(rows, k, "rejected", proof) = [rows EXCEPT ![k] = AsClosed(rows[k], "rejected", proof)]
    BY <2>1 DEF CloseRow, AsClosed
  <2>3. Released(rows, proof) = [rows EXCEPT ![k] = AsClosed(rows[k], "rejected", proof)]
    BY <1>2, <2>1 DEF Released
  <2> QED BY <2>2, <2>3 DEF WithClosed
<1>3. ASSUME \A n \in DOMAIN f[i] : f[i][n].state # "pending"
      PROVE  g = f
  <2> DEFINE rows == f[i]
  <2>1. IsFcn(rows)
    <3>1. PICK S : rows \in Seq(S)
      BY DEF RowTable, Table
    <3>2. rows \in [1..Len(rows) -> S]
      BY <3>1, LenProperties
    <3> QED BY <3>2 DEF IsFcn
  <2>2. Released(rows, proof) = [k \in DOMAIN rows |-> rows[k]]
    BY <1>3 DEF Released
  <2>3. Released(rows, proof) = rows
    BY <2>1, <2>2 DEF IsFcn
  <2> HIDE DEF rows
  <2>4. g = [f EXCEPT ![i] = rows]
    BY <2>3 DEF rows
  <2> QED BY <1>1, <2>4 DEF IsFcn, rows
<1> QED BY <1>2, <1>3

LEMMA HistoryReleasePayment ==
    ASSUME Inv, HistoryInv, NEW o \in Operators, ReleasePayment(o)
    PROVE  HistoryInv'
<1> DEFINE i == request[o].intent
           e == Entry(o, "rejected", Unused)
<1>1. /\ Resumes(o, "payment") /\ CaseUnmoved(o)
      /\ Record(o, "rejected", Unused)
      /\ Revise(i, "payment_rejected") /\ IssueReceipt(o, i)
      /\ candidates' = [candidates EXCEPT ![i] = Released(candidates[i], Unused)]
      /\ attempt' = [attempt EXCEPT ![i] = "rejected"]
      /\ UNCHANGED <<settledBy, effectVars, refunds, chainVars>>
  BY DEF ReleasePayment, ResolvePayment, Released, AsClosed, Unused
<1>2. /\ i \in Intents /\ PaymentCaseLoads(i)
      /\ request[o].row # 0 => /\ request[o].row \in DOMAIN candidates[i]
                               /\ candidates[i][request[o].row].state \in Open
  BY <1>1, AskedCandidate
<1>3. /\ PaymentCase(i) = PaymentCaseOf(revision[i], Shown(candidates[i]))
      /\ attempt[i] = "unresolved" /\ settledBy[i] = NoTransaction /\ execution[i] = "none"
  BY <1>2, HoldIs
<1> HIDE DEF e
<1>4. /\ Longer(history[i], history'[i], e)
      /\ revision'[i] = revision[i] + 1 /\ revision[i] \in Nat
      /\ \A j \in Intents \ {i} : history'[j] = history[j] /\ revision'[j] = revision[j]
      /\ request' = [request EXCEPT ![o] = Idle]
  BY <1>1, <1>2, Reconciled DEF e
<1>5. /\ attempt'[i] = "rejected" /\ settledBy'[i] = NoTransaction /\ execution'[i] = execution[i]
      /\ \A j \in Intents \ {i} : /\ attempt'[j] = attempt[j] /\ settledBy'[j] = settledBy[j]
                                  /\ execution'[j] = execution[j]
  BY <1>1, <1>2, <1>3 DEF Inv, ColumnsTyped, effectVars
<1>6. RowTable(candidates) /\ Requests
  BY DEF Inv, Tables
<1>7. Recomputable(candidates[i], refunds[i], history[i], revision[i], "unresolved",
                   NoTransaction, execution[i])
  BY <1>2, <1>3 DEF HistoryInv
<1>8. /\ \A k \in DOMAIN candidates[i] : candidates[i][k].state \in Open =>
            LastPending(candidates, i, k)
      /\ \A k \in DOMAIN candidates[i] : candidates[i][k].state = "pending" =>
            candidates[i][k].state \in Open
  BY <1>2, OpenCandidate DEF LastPending, Open
<1>9. CASE \E k \in DOMAIN candidates[i] : candidates[i][k].state = "pending"
  <2>1. PICK k \in DOMAIN candidates[i] : candidates[i][k].state = "pending"
    BY <1>9
  <2>2. LastPending(candidates, i, k)
    BY <1>8, <2>1
  <2>3. \A n \in DOMAIN candidates[i] : candidates[i][n].state \in Open => n = k
    BY <1>8, <2>2 DEF LastPending
  <2> DEFINE f == candidates
             g == candidates'
             x == AsClosed(f[i][k], "rejected", Unused)
  <2>4. RowWrites(f, g, i, k, x) /\ x.state = "rejected" /\ x.evidence = Unused
    <3>1. /\ RowTable(f) /\ LastPending(f, i, k) /\ g = [f EXCEPT ![i] = Released(f[i], Unused)]
          /\ \A n \in DOMAIN f[i] : f[i][n].state = "pending" => n = k
      BY <1>1, <1>6, <1>8, <2>2, <2>3
    <3> HIDE DEF f, g, i
    <3>2. g = WithClosed(f, i, k, "rejected", Unused)
      BY ONLY <1>2, <3>1, ReleasedRows
    <3> DEFINE state == "rejected"
    <3>3. state \in {"rejected", "confirmed"} /\ x = AsClosed(f[i][k], state, Unused)
          /\ g = WithClosed(f, i, k, state, Unused)
          /\ RowTable(f) /\ i \in Intents /\ LastPending(f, i, k)
      BY <1>2, <3>1, <3>2
    <3> HIDE DEF x, state
    <3>4. RowWrites(f, g, i, k, x) /\ x.state = state /\ x.evidence = Unused
      BY ONLY <3>3, LastClosed
    <3> QED BY <3>4 DEF state
  <2>5. EntryFor(e, "payment", "rejected", Unused, x, PaymentCase(i))
    <3>1. x.previous = candidates[i][k].previous
      BY <2>4 DEF RowWrites, LastPending
    <3>2. request[o].row \in DOMAIN candidates[i] =>
             candidates[i][request[o].row].previous = x.previous
      <4>1. request[o].row \in DOMAIN candidates[i] => request[o].row # 0
        BY <1>2, <1>6, RowIndexes DEF RowTable
      <4> QED BY <1>2, <2>3, <3>1, <4>1
    <3> HIDE DEF x
    <3> QED BY <1>1, <3>2, EntryIs DEF e, CaseOf
  <2> HIDE DEF x
  <2>6. RecomputableNext(i)
    <3> DEFINE cs == candidates[i]
               ds == candidates'[i]
               rs == refunds[i]
               h == history[i]
               hh == history'[i]
               rev == revision[i]
               exe == execution[i]
    <3>1. Recomputable(cs, rs, h, rev, "unresolved", NoTransaction, exe) /\ exe # "failed"
      BY <1>3, <1>7
    <3>2. /\ Closes(cs, ds, x) /\ x.tx = cs[Len(cs)].tx /\ x.previous = cs[Len(cs)].previous
          /\ x.state = "rejected" /\ x.evidence = Unused /\ Longer(h, hh, e)
          /\ EntryFor(e, "payment", "rejected", Unused, x, PaymentCaseOf(rev, Shown(cs)))
      BY <1>3, <1>4, <2>4, <2>5 DEF RowWrites
    <3> HIDE DEF cs, ds, rs, h, hh, rev, exe
    <3>3. Recomputable(ds, rs, hh, rev + 1, "rejected", NoTransaction, exe)
      BY ONLY <3>1, <3>2, HoldReleasedWith
    <3> QED
      BY <1>1, <1>4, <1>5, <3>3 DEF RecomputableNext, cs, ds, rs, h, hh, rev, exe
  <2>7. Elsewhere(i)
    BY <1>1, <1>4, <1>5, <2>4 DEF Elsewhere, RowWrites
  <2>8. NamesKept(candidates, candidates') /\ NamesKept(refunds, refunds')
    BY <1>1, <2>4, NamesSame DEF RowWrites
  <2> QED BY <1>2, <1>4, <1>6, <2>6, <2>7, <2>8, IdleShown, HistoryStep
<1>10. CASE \A k \in DOMAIN candidates[i] : candidates[i][k].state # "pending"
  <2>1. candidates' = candidates
    <3> DEFINE f == candidates
               g == candidates'
    <3>1. /\ RowTable(f) /\ g = [f EXCEPT ![i] = Released(f[i], Unused)]
          /\ \A n \in DOMAIN f[i] : f[i][n].state # "pending"
      BY <1>1, <1>6, <1>10
    <3> HIDE DEF f, g, i
    <3>2. g = f
      BY ONLY <1>2, <3>1, ReleasedRows
    <3> QED BY <3>2 DEF f, g
  <2>2. e.kind = "payment" /\ e.outcome = "rejected" /\ e.evidence = Unused
    BY <1>1 DEF e, Entry, Resumes
  <2>3. RecomputableNext(i)
    <3> DEFINE cs == candidates[i]
               rs == refunds[i]
               h == history[i]
               hh == history'[i]
               rev == revision[i]
               exe == execution[i]
    <3>1. /\ Recomputable(cs, rs, h, rev, "unresolved", NoTransaction, exe) /\ exe # "failed"
          /\ Longer(h, hh, e)
      BY <1>3, <1>4, <1>7
    <3> HIDE DEF cs, rs, h, hh, rev, exe
    <3>2. Recomputable(cs, rs, hh, rev + 1, "rejected", NoTransaction, exe)
      BY ONLY <2>2, <3>1, HoldReleased
    <3> QED
      BY <1>1, <1>4, <1>5, <2>1, <3>2 DEF RecomputableNext, cs, rs, h, hh, rev, exe
  <2>4. Elsewhere(i)
    BY <1>1, <1>4, <1>5, <2>1 DEF Elsewhere
  <2> QED BY <1>1, <1>2, <1>4, <1>6, <2>1, <2>3, <2>4, NamesSame, IdleShown, HistoryStep
<1> QED BY <1>9, <1>10

-----------------------------------------------------------------------------
(* The execution, and the refunds of a failed one.                             *)

LEMMA HistoryReconcileExecution ==
    ASSUME Inv, HistoryInv, NEW o \in Operators, NEW result \in {"succeeded", "failed"},
           ReconcileExecution(o, result)
    PROVE  HistoryInv'
<1> DEFINE i == request[o].intent
           proof == [kind |-> "attested", tx |-> settledBy[i]]
           e == Entry(o, result, proof)
           x == OpenRow(NoTransaction, NoCase)
<1>1. /\ Resumes(o, "execution") /\ CaseUnmoved(o)
      /\ execution' = [execution EXCEPT ![i] = result]
      /\ \/ result = "succeeded" /\ UNCHANGED refunds
         \/ result = "failed" /\ refunds[i] = << >> /\ refunds' = [refunds EXCEPT ![i] = <<x>>]
      /\ Record(o, result, proof) /\ IssueReceipt(o, i)
      /\ \E status : Revise(i, status)
      /\ UNCHANGED <<holdVars, candidates, chainVars>>
  BY DEF ReconcileExecution
<1>2. /\ request[o].phase = "asked" /\ request[o].kind = "execution" /\ i \in Intents
      /\ ExecutionCaseLoads(i) /\ ExecutionCase(i) = request[o].bound /\ Requests
      /\ request[o].case = request[o].bound
  <2>1. request[o].phase = "asked" /\ request[o].kind = "execution" /\ i \in Intents
    BY <1>1 DEF Resumes, Inv, Requests, Asks
  <2>2. ShownIn(request[o], candidates, refunds)
    BY DEF HistoryInv
  <2> QED BY <1>1, <2>1, <2>2 DEF CaseUnmoved, CaseLoads, CaseOf, ShownIn, Inv
<1>3. /\ attempt[i] = "settled" /\ execution[i] = "unknown"
      /\ ExecutionCase(i) = [kind |-> "execution", tx |-> settledBy[i], execution |-> "unknown",
                             resolution |-> "reconciliation_required", revision |-> revision[i]]
  BY <1>2 DEF ExecutionCaseLoads, ExecutionCase
<1>4. /\ e.kind = "execution" /\ e.outcome = result /\ e.requested = e.observed
      /\ e.evidence = proof /\ e.observed = ExecutionCase(i)
  BY <1>2 DEF Entry, CaseOf
<1> HIDE DEF e, x
<1>5. /\ Longer(history[i], history'[i], e)
      /\ revision'[i] = revision[i] + 1 /\ revision[i] \in Nat
      /\ \A j \in Intents \ {i} : history'[j] = history[j] /\ revision'[j] = revision[j]
      /\ request' = [request EXCEPT ![o] = Idle]
  <2>1. PICK status : Revise(i, status)
    BY <1>1
  <2> QED BY <1>1, <1>2, <2>1, Reconciled DEF e
<1>6. /\ refunds'[i] = IF result = "failed" THEN <<x>> ELSE refunds[i]
      /\ \A j \in Intents \ {i} : refunds'[j] = refunds[j]
      /\ execution'[i] = result
      /\ \A j \in Intents \ {i} : execution'[j] = execution[j]
  BY <1>1, <1>2 DEF Inv, ColumnsTyped, Tables, RowTable, Table
<1>7. RecomputableNext(i)
  <2> DEFINE cs == candidates[i]
             rs == refunds[i]
             ss == refunds'[i]
             h == history[i]
             hh == history'[i]
             rev == revision[i]
             by == settledBy[i]
  <2>1. /\ Recomputable(cs, rs, h, rev, "settled", by, "unknown")
        /\ Longer(h, hh, e) /\ rev \in Nat
    BY <1>2, <1>3, <1>5 DEF HistoryInv
  <2>2. ss = IF result = "failed" THEN <<OpenRow(NoTransaction, NoCase)>> ELSE rs
    BY <1>6 DEF x
  <2>3. /\ e.kind = "execution" /\ e.outcome = result /\ e.requested = e.observed
        /\ e.evidence = [kind |-> "attested", tx |-> by]
        /\ e.observed = [kind |-> "execution", tx |-> by, execution |-> "unknown",
                         resolution |-> "reconciliation_required", revision |-> rev]
    BY <1>3, <1>4
  <2> HIDE DEF cs, rs, ss, h, hh, rev, by
  <2>4. Recomputable(cs, ss, hh, rev + 1, "settled", by, result)
    BY ONLY <2>1, <2>2, <2>3, result \in {"succeeded", "failed"}, ExecutionReconciled
  <2> QED
    BY <1>1, <1>3, <1>5, <1>6, <2>4 DEF RecomputableNext, holdVars,
                                        cs, rs, ss, h, hh, rev, by
<1>8. Elsewhere(i)
  BY <1>1, <1>5, <1>6 DEF Elsewhere, holdVars
<1>9. NamesKept(candidates, candidates') /\ NamesKept(refunds, refunds')
  <2>1. NamesKept(refunds, refunds')
    <3>1. CASE UNCHANGED refunds
      BY <3>1, NamesSame
    <3>2. CASE refunds[i] = << >>
      BY <1>6, <3>2 DEF NamesKept
    <3> QED BY <1>1, <3>1, <3>2
  <2> QED BY <1>1, <2>1, NamesSame
<1> QED BY <1>2, <1>5, <1>7, <1>8, <1>9, IdleShown, HistoryStep

\* The refund asked about is the last row, and it is closed.
LEMMA RefundWrittenBy ==
    ASSUME Inv, HistoryInv, NEW o \in Operators, Resumes(o, "refund"), CaseUnmoved(o),
           NEW state \in {"rejected", "confirmed"}, NEW proof, NEW result,
           refunds' = WithClosed(refunds, request[o].intent, request[o].row, state, proof)
    PROVE  \E x :
               /\ RowWrites(refunds, refunds', request[o].intent, request[o].row, x)
               /\ x.tx = AskedRow(o).tx /\ x.state = state /\ x.evidence = proof
               /\ EntryFor(Entry(o, result, proof), "refund", result, proof, x,
                           RefundCase(request[o].intent))
<1> DEFINE i == request[o].intent
           k == request[o].row
           x == AsClosed(refunds[i][k], state, proof)
<1>1. /\ i \in Intents /\ RefundCaseLoads(i) /\ k \in DOMAIN refunds[i]
      /\ AskedRow(o) = refunds[i][k] /\ AskedRow(o).state \in Open
  BY AskedRefund
<1>2. LastPending(refunds, i, k)
  <2> HIDE DEF i, k
  <2> QED BY <1>1, OpenRefund DEF LastPending
<1>3. RowWrites(refunds, refunds', i, k, x) /\ x.state = state /\ x.evidence = proof
  <2> DEFINE f == refunds
             g == refunds'
  <2>1. /\ RowTable(f) /\ LastPending(f, i, k) /\ x = AsClosed(f[i][k], state, proof)
        /\ g = WithClosed(f, i, k, state, proof)
    BY <1>2 DEF Inv, Tables
  <2> HIDE DEF f, g, x, i, k
  <2>2. RowWrites(f, g, i, k, x) /\ x.state = state /\ x.evidence = proof
    BY ONLY <1>1, <2>1, state \in {"rejected", "confirmed"}, LastClosed
  <2> QED BY <2>2 DEF f, g
<1> HIDE DEF x
<1>4. x.tx = AskedRow(o).tx /\ x.previous = refunds[i][k].previous
  BY <1>1, <1>3 DEF RowWrites
<1>5. EntryFor(Entry(o, result, proof), "refund", result, proof, x, RefundCase(i))
  <2>1. refunds[request[o].intent][request[o].row].previous = x.previous
    BY <1>4
  <2> QED BY <2>1, EntryIs DEF CaseOf
<1> QED BY <1>3, <1>4, <1>5

\* Whatever the observer shows of a refund.
LEMMA HistoryResolveRefund ==
    ASSUME Inv, HistoryInv, NEW o \in Operators,
           RejectRefund(o) \/ ConfirmRefund(o)
    PROVE  HistoryInv'
<1> DEFINE i == request[o].intent
           k == request[o].row
           t == AskedRow(o).tx
<1>1. PICK state, proof, result :
         /\ state \in {"rejected", "confirmed"}
         /\ Resumes(o, "refund") /\ CaseUnmoved(o)
         /\ refunds' = WithClosed(refunds, i, k, state, proof)
         /\ proof = IF state = "rejected" THEN Absent(t) ELSE [kind |-> "refunded", tx |-> t]
         /\ result = IF state = "rejected" THEN "refund_rejected" ELSE "refund_confirmed"
         /\ Record(o, result, proof) /\ IssueReceipt(o, i) /\ \E status : Revise(i, status)
         /\ UNCHANGED <<attempt, settledBy, execution, candidates, chainVars>>
  <2>1. CASE RejectRefund(o)
    <3> DEFINE state == "rejected"
               proof == Absent(t)
               result == "refund_rejected"
    <3>1. /\ Resumes(o, "refund") /\ CaseUnmoved(o)
          /\ refunds' = WithClosed(refunds, i, k, state, proof)
          /\ Record(o, result, proof) /\ IssueReceipt(o, i) /\ Revise(i, "execution_failed")
          /\ UNCHANGED <<attempt, settledBy, execution, candidates, chainVars>>
      BY <2>1 DEF RejectRefund, WithClosed, Absent, holdVars, effectVars
    <3>2. /\ state \in {"rejected", "confirmed"} /\ state = "rejected"
          /\ proof = Absent(t) /\ result = "refund_rejected"
      OBVIOUS
    <3> HIDE DEF state, proof, result, i, k, t
    <3> QED BY <3>1, <3>2
  <2>2. CASE ConfirmRefund(o)
    <3> DEFINE state == "confirmed"
               proof == [kind |-> "refunded", tx |-> t]
               result == "refund_confirmed"
    <3>1. /\ Resumes(o, "refund") /\ CaseUnmoved(o)
          /\ refunds' = WithClosed(refunds, i, k, state, proof)
          /\ Record(o, result, proof) /\ IssueReceipt(o, i) /\ Revise(i, "refunded")
          /\ UNCHANGED <<attempt, settledBy, execution, candidates, chainVars>>
      BY <2>2 DEF ConfirmRefund, WithClosed
    <3>2. /\ state \in {"rejected", "confirmed"} /\ state # "rejected"
          /\ proof = [kind |-> "refunded", tx |-> t] /\ result = "refund_confirmed"
      OBVIOUS
    <3> HIDE DEF state, proof, result, i, k, t
    <3> QED BY <3>1, <3>2
  <2> QED BY <2>1, <2>2
<1> DEFINE e == Entry(o, result, proof)
<1>2. /\ i \in Intents /\ RefundCaseLoads(i) /\ t \in Transactions
  BY <1>1, AskedRefund
<1>3. /\ RefundCase(i) = RefundCaseOf(settledBy[i], revision[i], Shown(refunds[i]))
      /\ attempt[i] = "settled" /\ execution[i] = "failed"
  BY <1>2, RefundIs
<1>4. PICK x :
         /\ RowWrites(refunds, refunds', i, k, x)
         /\ x.tx = t /\ x.state = state /\ x.evidence = proof
         /\ EntryFor(e, "refund", result, proof, x, RefundCase(i))
  BY <1>1, RefundWrittenBy
<1>5. /\ proof = RefundProof(x) /\ result = RefundResult(x)
      /\ x.state \in {"rejected", "confirmed"} /\ x.tx # NoTransaction
  BY <1>1, <1>2, <1>4, ReconcilerAssumption DEF RefundProof, RefundResult
<1> HIDE DEF e, k, t
<1>6. /\ Longer(history[i], history'[i], e)
      /\ revision'[i] = revision[i] + 1 /\ revision[i] \in Nat
      /\ \A j \in Intents \ {i} : history'[j] = history[j] /\ revision'[j] = revision[j]
      /\ request' = [request EXCEPT ![o] = Idle]
  <2>1. PICK status : Revise(i, status)
    BY <1>1
  <2> QED BY <1>1, <1>2, <2>1, Reconciled DEF e
<1>7. RecomputableNext(i)
  <2> DEFINE cs == candidates[i]
             rs == refunds[i]
             ss == refunds'[i]
             h == history[i]
             hh == history'[i]
             rev == revision[i]
             by == settledBy[i]
  <2>1. Recomputable(cs, rs, h, rev, "settled", by, "failed") /\ rev \in Nat
    BY <1>2, <1>3, <1>6 DEF HistoryInv
  <2>2. /\ Closes(rs, ss, x) /\ x.tx = rs[Len(rs)].tx /\ x.tx # NoTransaction
        /\ x.previous = rs[Len(rs)].previous /\ x.state \in {"rejected", "confirmed"}
        /\ x.evidence = RefundProof(x) /\ Longer(h, hh, e)
        /\ EntryFor(e, "refund", RefundResult(x), RefundProof(x), x,
                    RefundCaseOf(by, rev, Shown(rs)))
    BY <1>3, <1>4, <1>5, <1>6 DEF RowWrites
  <2> HIDE DEF cs, rs, ss, h, hh, rev, by
  <2>3. Recomputable(cs, ss, hh, rev + 1, "settled", by, "failed")
    BY ONLY <2>1, <2>2, RefundResolved
  <2> QED
    BY <1>1, <1>3, <1>6, <2>3 DEF RecomputableNext, cs, rs, ss, h, hh, rev, by
<1>8. Elsewhere(i)
  BY <1>1, <1>4, <1>6 DEF Elsewhere, RowWrites
<1>9. NamesKept(candidates, candidates') /\ NamesKept(refunds, refunds') /\ Requests
  BY <1>1, <1>4, NamesSame DEF RowWrites, Inv
<1> QED BY <1>2, <1>6, <1>7, <1>8, <1>9, IdleShown, HistoryStep

LEMMA HistoryAbandonRefund ==
    ASSUME Inv, HistoryInv, NEW o \in Operators, AbandonRefund(o)
    PROVE  HistoryInv'
<1> DEFINE i == request[o].intent
           c == RefundCase(i)
           k == OpenIndex(refunds[i])
           x == AsAbandoned(refunds[i][k], c)
<1>1. /\ Submits(o, "refund") /\ CaseIsCurrent(o) /\ HasOpen(refunds[i])
      /\ refunds[i][k].tx # NoTransaction
      /\ refunds' = WithAbandoned(refunds, i, k, c)
      /\ EndRequest(o)
      /\ UNCHANGED <<holdVars, effectVars, outcomeVars, candidates, history, processVars,
                     chainVars>>
  BY DEF AbandonRefund, WithAbandoned
<1>2. /\ i \in Intents /\ RefundCaseLoads(i) /\ Requests /\ RowTable(refunds)
  BY <1>1, Submitted DEF CaseLoads
<1>3. /\ c = RefundCaseOf(settledBy[i], revision[i], Shown(refunds[i]))
      /\ attempt[i] = "settled" /\ execution[i] = "failed" /\ revision[i] \in Nat
  BY <1>2, RefundIs
<1>4. LastPending(refunds, i, k)
  <2>1. k \in DOMAIN refunds[i] /\ refunds[i][k].state \in Open
    BY <1>1, OpenRowThere
  <2> HIDE DEF i, k
  <2> QED BY <1>2, <2>1, OpenRefund DEF LastPending
<1> HIDE DEF k, c
<1>5. /\ RowWrites(refunds, refunds', i, k, x)
      /\ x.state = "abandoned" /\ x.evidence = NoEvidence /\ x.closed = c
  <2> DEFINE f == refunds
             g == refunds'
  <2>1. /\ RowTable(f) /\ LastPending(f, i, k) /\ x = AsAbandoned(f[i][k], c)
        /\ g = WithAbandoned(f, i, k, c)
    BY <1>1, <1>2, <1>4
  <2> HIDE DEF f, g, x, i
  <2>2. /\ RowWrites(f, g, i, k, x)
        /\ x.state = "abandoned" /\ x.evidence = NoEvidence /\ x.closed = c
    BY ONLY <1>2, <2>1, LastAbandoned
  <2> QED BY <2>2 DEF f, g
<1> HIDE DEF x
<1>6. x.tx # NoTransaction
  BY <1>1, <1>5 DEF RowWrites
<1>7. RecomputableNext(i)
  <2> DEFINE cs == candidates[i]
             rs == refunds[i]
             ss == refunds'[i]
             h == history[i]
             rev == revision[i]
             by == settledBy[i]
  <2>1. Recomputable(cs, rs, h, rev, "settled", by, "failed") /\ rev \in Nat
    BY <1>2, <1>3 DEF HistoryInv
  <2>2. /\ Closes(rs, ss, x) /\ x.tx = rs[Len(rs)].tx /\ x.tx # NoTransaction
        /\ x.previous = rs[Len(rs)].previous
        /\ x.state = "abandoned" /\ x.evidence = NoEvidence
        /\ x.closed = RefundCaseOf(by, rev, Shown(rs))
    BY <1>3, <1>5, <1>6 DEF RowWrites
  <2> HIDE DEF cs, rs, ss, h, rev, by
  <2>3. Recomputable(cs, ss, h, rev, "settled", by, "failed")
    BY ONLY <2>1, <2>2, RefundAbandoned
  <2> QED
    BY <1>1, <1>3, <2>3 DEF RecomputableNext, holdVars, effectVars, outcomeVars,
                            cs, rs, ss, h, rev, by
<1>8. Elsewhere(i)
  BY <1>1, <1>5 DEF Elsewhere, RowWrites, holdVars, effectVars, outcomeVars
<1>9. NamesKept(candidates, candidates') /\ NamesKept(refunds, refunds')
  BY <1>1, <1>5, NamesSame DEF RowWrites
<1>10. request' = [request EXCEPT ![o] = Idle]
  BY <1>1 DEF EndRequest
<1> QED BY <1>2, <1>7, <1>8, <1>9, <1>10, IdleShown, HistoryStep

\* The fields of an open row in which a transaction is named.
AsNamed(row, t, c) == [row EXCEPT !.tx = t, !.previous = c]

LEMMA NamedFields ==
    ASSUME NEW row, DOMAIN row = Fields, IsRow(row), NEW t \in Transactions, NEW c
    PROVE  LET x == AsNamed(row, t, c) IN
           /\ DOMAIN x = Fields /\ x.tx = t /\ x.previous = c
           /\ x.state = row.state /\ x.evidence = row.evidence /\ IsRow(x)
<1> DEFINE x == AsNamed(row, t, c)
<1>1. /\ DOMAIN x = Fields /\ x.tx = t /\ x.previous = c
      /\ x.state = row.state /\ x.evidence = row.evidence
  BY DEF Fields, AsNamed
<1> HIDE DEF x
<1>2. IsRow(x)
  BY <1>1, RowFields DEF IsRow, Row, Fields
<1> QED BY <1>1, <1>2 DEF x

LEMMA HistoryNameRefund ==
    ASSUME Inv, HistoryInv, NEW o \in Operators, NEW t \in Transactions, NameRefund(o, t)
    PROVE  HistoryInv'
<1> DEFINE i == request[o].intent
           c == RefundCase(i)
           opened == HasOpen(refunds[i])
           k == IF opened THEN OpenIndex(refunds[i]) ELSE Len(refunds[i]) + 1
           bound == RefundCaseOf(settledBy[i], revision[i], Shown(refunds'[i]))
           r == [phase |-> "asked", intent |-> i, kind |-> "refund", case |-> request[o].case,
                 row |-> k, bound |-> bound]
<1>1. /\ Submits(o, "refund") /\ CaseIsCurrent(o)
      /\ opened => refunds[i][k].tx = NoTransaction
      /\ TransactionUnused(t)
      /\ opened => refunds' = [refunds EXCEPT ![i] =
                                  [refunds[i] EXCEPT ![k].tx = t, ![k].previous = c]]
      /\ ~opened => refunds' = WithAppended(refunds, i, OpenRow(t, c))
      /\ Ask(o, k, bound)
      /\ UNCHANGED <<holdVars, effectVars, outcomeVars, candidates, history, processVars,
                     chainVars>>
  BY DEF NameRefund, WithAppended
<1>2. /\ i \in Intents /\ request[o].kind = "refund" /\ request[o].case = c
      /\ RefundCaseLoads(i) /\ Requests /\ RowTable(refunds)
  BY <1>1, Submitted DEF CaseOf, CaseLoads
<1>3. /\ c = RefundCaseOf(settledBy[i], revision[i], Shown(refunds[i]))
      /\ attempt[i] = "settled" /\ execution[i] = "failed" /\ revision[i] \in Nat
  BY <1>2, RefundIs, SMTT(40)
<1>4. /\ \A n \in DOMAIN candidates[i] : candidates[i][n].tx # t
      /\ \A n \in DOMAIN refunds[i] : refunds[i][n].tx # t
  BY <1>1, <1>2, UnusedIsNew
<1>5. Recomputable(candidates[i], refunds[i], history[i], revision[i], "settled", settledBy[i],
                   "failed")
  BY <1>2, <1>3 DEF HistoryInv
<1> HIDE DEF c
<1>6. /\ Recomputable(candidates[i], refunds'[i], history[i], revision[i], "settled",
                      settledBy[i], "failed")
      /\ \A j \in Intents \ {i} : refunds'[j] = refunds[j]
      /\ NamesKept(refunds, refunds')
      /\ k \in DOMAIN refunds'[i] /\ refunds'[i][k].tx = t /\ refunds'[i][k].previous = c
  <2> DEFINE f == refunds
             g == refunds'
             cs == candidates[i]
             rs == f[i]
             ss == g[i]
             h == history[i]
             rev == revision[i]
             by == settledBy[i]
  <2>1. CASE opened
    <3> DEFINE x == AsNamed(refunds[i][k], t, c)
    <3>1. LastPending(refunds, i, k)
      <4>1. k \in DOMAIN refunds[i] /\ refunds[i][k].state \in Open
        BY <2>1, OpenRowThere
      <4> HIDE DEF i, k
      <4> QED BY <1>2, <4>1, OpenRefund DEF LastPending
    <3>2. refunds[i][k].tx = NoTransaction
      BY <1>1, <2>1
    <3> HIDE DEF k
    <3>3. refunds' = Written(refunds, i, k, x)
      BY <1>1, <2>1, <3>1 DEF Written, AsNamed, LastPending
    <3>4. /\ DOMAIN x = Fields /\ x.tx = t /\ x.previous = c /\ x.state = "pending"
          /\ x.evidence = NoEvidence /\ IsRow(x)
      <4> DEFINE row == refunds[i][k]
      <4>1. DOMAIN row = Fields /\ IsRow(row) /\ row.state = "pending" /\ row.evidence = NoEvidence
        BY <3>1 DEF LastPending
      <4> HIDE DEF row
      <4>2. x = AsNamed(row, t, c)
        BY DEF row
      <4> HIDE DEF x
      <4> QED BY ONLY <4>1, <4>2, t \in Transactions, NamedFields
    <3> HIDE DEF x
    <3>5. /\ RowTable(f) /\ i \in Intents /\ k \in DOMAIN f[i] /\ k = Len(f[i])
          /\ f[i][k].state = "pending" /\ f[i][k].evidence = NoEvidence
          /\ DOMAIN x = {"tx", "state", "evidence", "previous", "closed"} /\ IsRow(x)
          /\ g = Written(f, i, k, x)
      BY <1>2, <3>1, <3>3, <3>4 DEF LastPending, Fields
    <3> HIDE DEF f, g, i
    <3>6. Closes(f[i], g[i], x) /\ \A j \in Intents \ {i} : g[j] = f[j]
      BY ONLY <3>5, TableCloses
    <3>7. f[i][Len(f[i])].tx = NoTransaction
      BY <3>2, <3>5 DEF f
    <3>8. NamesKept(f, g)
      <4>1. /\ i \in Intents /\ Closes(f[i], g[i], x)
            /\ \A j \in Intents \ {i} : g[j] = f[j]
            /\ \/ f[i][Len(f[i])].tx = NoTransaction
               \/ x.tx = f[i][Len(f[i])].tx /\ x.previous = f[i][Len(f[i])].previous
        BY <3>5, <3>6, <3>7
      <4> QED BY ONLY <4>1, NamesWritten
    <3>9. k \in DOMAIN g[i] /\ g[i][k] = x
      BY <3>5, <3>6, ListIndexes DEF Closes
    <3>10. /\ Recomputable(cs, rs, h, rev, "settled", by, "failed") /\ rev \in Nat
           /\ Closes(rs, ss, x) /\ rs[Len(rs)].tx = NoTransaction
           /\ x.tx = t /\ x.state = "pending" /\ x.evidence = NoEvidence
           /\ x.previous = RefundCaseOf(by, rev, Shown(rs))
           /\ \A n \in DOMAIN cs : cs[n].tx # t
           /\ \A n \in DOMAIN rs : rs[n].tx # t
      BY <1>3, <1>4, <1>5, <3>4, <3>6, <3>7 DEF f
    <3> HIDE DEF cs, rs, ss, h, rev, by
    <3>11. Recomputable(cs, ss, h, rev, "settled", by, "failed")
      BY ONLY <3>10, t \in Transactions, RefundIsNamed
    <3> QED BY <3>4, <3>6, <3>8, <3>9, <3>11 DEF f, g, cs, rs, ss, h, rev, by
  <2>2. CASE ~opened
    <3> DEFINE x == OpenRow(t, c)
    <3>1. k = Len(refunds[i]) + 1 /\ \A n \in DOMAIN refunds[i] : refunds[i][n].state # "pending"
      BY <2>2 DEF HasOpen, OpenIndexes, Open
    <3>2. Table(f) /\ i \in Intents /\ g = WithAppended(f, i, x)
      BY <1>1, <1>2, <2>2 DEF RowTable
    <3>3. x.tx = t /\ x.previous = c
      BY DEF OpenRow
    <3> HIDE DEF f, g, i, x, k
    <3>4. /\ Added(f[i], g[i], x) /\ NamesKept(f, g)
          /\ \A j \in Intents \ {i} : g[j] = f[j]
      BY ONLY <3>2, TableAdds
    <3>5. k \in DOMAIN g[i] /\ g[i][k] = x
      BY <3>1, <3>4, ListIndexes DEF Added, f
    <3>6. /\ Recomputable(cs, rs, h, rev, "settled", by, "failed") /\ rev \in Nat
          /\ Added(rs, ss, x) /\ x = OpenRow(t, RefundCaseOf(by, rev, Shown(rs)))
          /\ \A n \in DOMAIN cs : cs[n].tx # t
          /\ \A n \in DOMAIN rs : rs[n].state # "pending" /\ rs[n].tx # t
      BY <1>3, <1>4, <1>5, <3>1, <3>4 DEF f, x
    <3> HIDE DEF cs, rs, ss, h, rev, by
    <3>7. Recomputable(cs, ss, h, rev, "settled", by, "failed")
      BY ONLY <3>6, t \in Transactions, RefundAdds, SMTT(40)
    <3> QED BY <3>3, <3>4, <3>5, <3>7 DEF f, g, cs, rs, ss, h, rev, by
  <2> QED BY <2>1, <2>2
<1> HIDE DEF i, k, opened, bound, r
<1>7. RecomputableNext(i)
  BY <1>1, <1>3, <1>6 DEF RecomputableNext, holdVars, effectVars, outcomeVars
<1>8. Elsewhere(i)
  BY <1>1, <1>6 DEF Elsewhere, holdVars, effectVars, outcomeVars
<1>9. NamesKept(candidates, candidates') /\ NamesKept(refunds, refunds')
  BY <1>1, <1>6, NamesSame
<1>10. request' = [request EXCEPT ![o] = r]
  BY <1>1, <1>2 DEF Ask, r, i
<1>11. ShownIn(r, candidates', refunds')
  <2>1. t # NoTransaction
    BY ReconcilerAssumption
  <2>2. request[o].case = c
    BY <1>2
  <2> QED BY <1>6, <2>1, <2>2, NamedShown DEF r
<1>12. i \in Intents /\ Requests
  BY <1>2
<1> QED BY ONLY HistoryInv, o \in Operators, <1>7, <1>8, <1>9, <1>10, <1>11, <1>12, HistoryStep, ZenonT(40)

-----------------------------------------------------------------------------
(* The other steps.                                                            *)

\* A step that writes no row changes nothing but who waits for what.
LEMMA HistoryRead ==
    ASSUME HistoryInv, Requests, UNCHANGED caseVars, NEW o \in Operators, NEW r,
           request' = [request EXCEPT ![o] = r], ShownIn(r, candidates, refunds)
    PROVE  HistoryInv'
<1>1. /\ UNCHANGED <<candidates, refunds>>
      /\ \A i \in Intents : RecomputableNext(i)
  BY DEF HistoryInv, RecomputableNext, caseVars, holdVars, effectVars, outcomeVars, rowVars
<1>2. ASSUME NEW p \in Operators PROVE ShownIn(request'[p], candidates', refunds')
  <2>1. CASE p = o
    BY <1>1, <2>1 DEF Requests
  <2>2. CASE p # o
    <3>1. request'[p] = request[p]
      BY <2>2 DEF Requests
    <3> QED BY <1>1, <3>1 DEF HistoryInv
  <2> QED BY <2>1, <2>2
<1> QED BY <1>1, <1>2 DEF HistoryInv, RecomputableNext

\* A request in another phase waits for nothing.
LEMMA OtherPhases ==
    ASSUME NEW r, r.phase # "asked"
    PROVE  ShownIn(r, candidates, refunds)
BY DEF ShownIn

LEMMA HistoryReadOnly ==
    ASSUME Inv, HistoryInv, NEW o \in Operators,
           \/ \E i \in Intents, kind \in Kinds : Display(o, i, kind)
           \/ PreparePayment(o) \/ PrepareExecution(o) \/ PrepareRefund(o)
           \/ Refuse(o) \/ RefuseUnsigned(o) \/ LearnNothing(o)
           \/ Repetition(o)
    PROVE  HistoryInv'
<1>1. UNCHANGED caseVars
  BY InvRead
<1>2. Requests /\ Asks(request[o])
  BY DEF Inv, Requests
<1>3. CASE \E i \in Intents, kind \in Kinds : Display(o, i, kind)
  <2>1. PICK i \in Intents, kind \in Kinds : Display(o, i, kind)
    BY <1>3
  <2> DEFINE r == [phase |-> "shown", intent |-> i, kind |-> kind, case |-> CaseOf(kind, i)]
  <2>2. r.phase # "asked" /\ request' = [request EXCEPT ![o] = r]
    BY <2>1 DEF Display
  <2> HIDE DEF r
  <2> QED BY <1>1, <1>2, <2>2, OtherPhases, HistoryRead
<1>4. ASSUME NEW k, NEW bound, Ask(o, k, bound), bound = request[o].case
      PROVE  HistoryInv'
  <2> DEFINE r == [phase |-> "asked", intent |-> request[o].intent, kind |-> request[o].kind,
                   case |-> request[o].case, row |-> k, bound |-> bound]
  <2>1. ShownIn(r, candidates, refunds)
    BY <1>4 DEF ShownIn
  <2>2. request' = [request EXCEPT ![o] = r]
    BY <1>4 DEF Ask
  <2> HIDE DEF r
  <2> QED BY <1>1, <1>2, <2>1, <2>2, HistoryRead
<1>5. CASE PreparePayment(o) \/ PrepareExecution(o) \/ PrepareRefund(o)
  <2>1. \E k : Ask(o, k, request[o].case)
    <3>1. CASE PreparePayment(o)
      <4>1. PaymentCase(request[o].intent) = request[o].case
        BY <3>1 DEF PreparePayment, Submits, CaseIsCurrent, CaseOf
      <4> QED BY <3>1, <4>1 DEF PreparePayment
    <3>2. CASE PrepareExecution(o)
      BY <3>2 DEF PrepareExecution
    <3>3. CASE PrepareRefund(o)
      <4>1. RefundCase(request[o].intent) = request[o].case
        BY <3>3 DEF PrepareRefund, Submits, CaseIsCurrent, CaseOf
      <4> QED BY <3>3, <4>1 DEF PrepareRefund
    <3> QED BY <1>5, <3>1, <3>2, <3>3
  <2> QED BY <1>4, <2>1
<1>6. CASE Refuse(o) \/ LearnNothing(o) \/ RepeatRefused(o)
  <2>1. request' = [request EXCEPT ![o] = Idle]
    BY <1>6 DEF Refuse, LearnNothing, RepeatRefused, EndRequest
  <2> QED BY <1>1, <1>2, <2>1, IdleShown, HistoryRead
<1>7. CASE RefuseUnsigned(o) \/ \E i \in Intents : RepeatNamed(o, i)
  <2> DEFINE r == [phase |-> "corrupt"]
  <2>1. r.phase # "asked" /\ request' = [request EXCEPT ![o] = r]
    BY <1>7 DEF RefuseUnsigned, RepeatNamed
  <2> HIDE DEF r
  <2> QED BY <1>1, <1>2, <2>1, OtherPhases, HistoryRead
<1>8. CASE RepeatAnswered(o)
  <2> DEFINE r == [request[o] EXCEPT !.phase = "replayed"]
  <2>1. request' = [request EXCEPT ![o] = r]
    BY <1>8 DEF RepeatAnswered
  <2>2. r.phase # "asked"
    BY <1>2 DEF Asks
  <2> HIDE DEF r
  <2> QED BY <1>1, <1>2, <2>1, <2>2, OtherPhases, HistoryRead
<1>9. CASE \E i \in Intents : \E k \in DOMAIN history[i] : Repeat(o, i, k)
  <2>1. PICK i \in Intents : \E k \in DOMAIN history[i] : Repeat(o, i, k)
    BY <1>9
  <2>2. PICK k \in DOMAIN history[i] : Repeat(o, i, k)
    BY <2>1
  <2> DEFINE r == [phase |-> "repeating", intent |-> i, entry |-> k]
  <2>3. r.phase # "asked" /\ request' = [request EXCEPT ![o] = r]
    BY <2>2 DEF Repeat
  <2> HIDE DEF r
  <2> QED BY <1>1, <1>2, <2>3, OtherPhases, HistoryRead
<1> QED BY <1>3, <1>5, <1>6, <1>7, <1>8, <1>9 DEF Repetition

\* A payment still in flight has no row and no entry.
LEMMA InFlightEmpty ==
    ASSUME Inv, HistoryInv, NEW i \in Intents, attempt[i] = "retrying"
    PROVE  candidates[i] = << >> /\ refunds[i] = << >> /\ history[i] = << >>
<1>1. execution[i] # "failed"
  BY DEF Inv, Stage, At
<1>2. Numbered(candidates[i], refunds[i], history[i], revision[i], attempt[i], execution[i])
  BY DEF HistoryInv, Recomputable
<1> QED BY <1>1, <1>2 DEF Numbered

\* It is committed, or held.
LEMMA HistoryKernel ==
    ASSUME Inv, HistoryInv, NEW S \in SUBSET {i \in Intents : attempt[i] = "retrying"},
           UNCHANGED <<rowVars, request>>,
           \A i \in S : revision'[i] = 1,
           \A i \in Intents \ S : /\ revision'[i] = revision[i] /\ attempt'[i] = attempt[i]
                                  /\ settledBy'[i] = settledBy[i]
                                  /\ execution'[i] = execution[i]
    PROVE  HistoryInv'
<1>1. ASSUME NEW i \in Intents PROVE RecomputableNext(i)
  <2>1. CASE i \in S
    <3>1. candidates'[i] = << >> /\ refunds'[i] = << >> /\ history'[i] = << >>
      BY <2>1, InFlightEmpty DEF rowVars
    <3>2. Recomputable(<< >>, << >>, << >>, revision'[i], attempt'[i], settledBy'[i], execution'[i])
      BY <2>1, NothingYet
    <3> QED BY <3>1, <3>2 DEF RecomputableNext
  <2>2. CASE i \notin S
    BY <2>2 DEF RecomputableNext, HistoryInv, rowVars
  <2> QED BY <2>1, <2>2
<1>2. \A o \in Operators : ShownIn(request'[o], candidates', refunds')
  BY DEF HistoryInv, rowVars
<1> QED BY <1>1, <1>2 DEF HistoryInv, RecomputableNext

LEMMA HistoryInit ==
    ASSUME Init
    PROVE  HistoryInv
<1>1. ASSUME NEW i \in Intents PROVE RecomputableAt(i)
  <2>1. /\ candidates[i] = << >> /\ refunds[i] = << >> /\ history[i] = << >>
        /\ attempt[i] # "retrying" => revision[i] = 1
    BY DEF Init
  <2> QED BY <2>1, NothingYet DEF RecomputableAt
<1>2. \A o \in Operators : ShownIn(request[o], candidates, refunds)
  BY IdleShown DEF Init
<1> QED BY <1>1, <1>2 DEF HistoryInv, RecomputableAt

\* Every step keeps the history invariant.
LEMMA HistoryKept ==
    ASSUME Inv, HistoryInv, [Next]_vars
    PROVE  HistoryInv'
<1>1. CASE UNCHANGED vars \/ ChainStep
  <2>1. UNCHANGED <<caseVars, request>>
    BY <1>1 DEF vars, ChainStep, Expire, MinePayment, MineOther
  <2> QED
    BY <2>1 DEF HistoryInv, caseVars, holdVars, effectVars, outcomeVars, rowVars
<1>2. CASE KernelStep
  <2>1. PICK i \in Intents : CommitSettlement(i) \/ RefuseSettlement(i) \/ LoseResponse(i)
    BY <1>2 DEF KernelStep
  <2>2. CASE CommitSettlement(i)
    <3>1. {i} \in SUBSET {j \in Intents : attempt[j] = "retrying"}
      BY <2>2 DEF CommitSettlement
    <3> QED BY <2>2, <3>1, HistoryKernel DEF CommitSettlement, Inv, ColumnsTyped
  <2>3. CASE LoseResponse(i)
    <3>1. {i} \in SUBSET {j \in Intents : attempt[j] = "retrying"}
      BY <2>3 DEF LoseResponse
    <3> QED BY <2>3, <3>1, HistoryKernel DEF LoseResponse, HoldUnresolved, effectVars
  <2>4. CASE RefuseSettlement(i)
    <3>1. UNCHANGED <<caseVars, request>>
      BY <2>4 DEF RefuseSettlement
    <3> QED
      BY <3>1 DEF HistoryInv, caseVars, holdVars, effectVars, outcomeVars, rowVars
  <2> QED BY <2>1, <2>2, <2>3, <2>4
<1>3. CASE Crash
  <2>1. /\ UNCHANGED caseVars
        /\ \A o \in Operators : request'[o] = Idle
    BY <1>3 DEF Crash
  <2>2. \A o \in Operators : ShownIn(request'[o], candidates', refunds')
    BY <2>1, IdleShown
  <2> QED
    BY <2>1, <2>2 DEF HistoryInv, caseVars, holdVars, effectVars, outcomeVars, rowVars
<1>4. CASE Restart
  BY <1>4, HistoryKernel DEF Restart, HoldUnresolved, effectVars
<1>5. CASE RefuseStart
  BY <1>5 DEF RefuseStart, HistoryInv, caseVars, holdVars, effectVars, outcomeVars, rowVars
<1>6. CASE \E o \in Operators : FirstLease(o) \/ SecondLease(o) \/ Repetition(o)
  <2>1. PICK o \in Operators : FirstLease(o) \/ SecondLease(o) \/ Repetition(o)
    BY <1>6
  <2>2. CASE \/ \E i \in Intents, kind \in Kinds : Display(o, i, kind)
             \/ PreparePayment(o) \/ PrepareExecution(o) \/ PrepareRefund(o)
             \/ Refuse(o) \/ RefuseUnsigned(o) \/ LearnNothing(o)
             \/ Repetition(o)
    BY <2>2, HistoryReadOnly
  <2>3. CASE \E t \in Transactions : NamePayment(o, t)
    BY <2>3, HistoryNamePayment
  <2>4. CASE \E t \in Transactions : NameRefund(o, t)
    BY <2>4, HistoryNameRefund
  <2>5. CASE AbandonPayment(o)
    BY <2>5, HistoryAbandonPayment
  <2>6. CASE AbandonRefund(o)
    BY <2>6, HistoryAbandonRefund
  <2>7. CASE RejectCandidate(o)
    BY <2>7, HistoryRejectCandidate
  <2>8. CASE SettlePayment(o)
    BY <2>8, HistorySettlePayment
  <2>9. CASE ReleasePayment(o)
    BY <2>9, HistoryReleasePayment
  <2>10. CASE \E result \in {"succeeded", "failed"} : ReconcileExecution(o, result)
    BY <2>10, HistoryReconcileExecution
  <2>11. CASE RejectRefund(o) \/ ConfirmRefund(o)
    BY <2>11, HistoryResolveRefund
  <2> QED
    BY <2>1, <2>2, <2>3, <2>4, <2>5, <2>6, <2>7, <2>8, <2>9, <2>10, <2>11
       DEF FirstLease, SecondLease, Kinds
<1> QED BY <1>1, <1>2, <1>3, <1>4, <1>5, <1>6 DEF Next

-----------------------------------------------------------------------------
(* One owner of every transaction.                                             *)

\* The transactions the rows of an intent name.
Named(i) ==
    {t \in Transactions : \/ settledBy[i] = t
                          \/ \E k \in DOMAIN candidates[i] : candidates[i][k].tx = t
                          \/ \E k \in DOMAIN refunds[i] : refunds[i][k].tx = t}

\* Of its own rows, the one its payment was confirmed by may name that payment.
PaidByItsOwn(i) ==
    settledBy[i] \in Transactions =>
        /\ \A k \in DOMAIN candidates[i] : candidates[i][k].tx = settledBy[i] =>
              candidates[i][k].state = "confirmed"
        /\ \A k \in DOMAIN refunds[i] : refunds[i][k].tx # settledBy[i]

OneOwner ==
    /\ \A i, j \in Intents : \A t \in Named(i) \cap Named(j) : i = j
    /\ \A i \in Intents : PaidByItsOwn(i)

\* A step names nothing in a table, but t for i.
NamesOnly(f, g, i, t) ==
    \A j \in Intents : \A k \in DOMAIN g[j] :
        \/ k \in DOMAIN f[j] /\ g[j][k].tx = f[j][k].tx
        \/ j = i /\ g[j][k].tx = t

\* What a transaction is named by.
LEMMA NamingIs ==
    ASSUME NEW t \in Transactions
    PROVE  /\ \A i \in Intents : t \in Named(i) <=>
                 \/ <<"payment", i, 0>> \in RowsNaming(t)
                 \/ \E k \in DOMAIN candidates[i] : <<"candidate", i, k>> \in RowsNaming(t)
                 \/ \E k \in DOMAIN refunds[i] : <<"refund", i, k>> \in RowsNaming(t)
           /\ \A x \in RowsNaming(t) :
                 \/ \E i \in Intents : x = <<"payment", i, 0>> /\ settledBy[i] = t
                 \/ \E i \in Intents : \E k \in DOMAIN candidates[i] :
                       x = <<"candidate", i, k>> /\ candidates[i][k].tx = t
                 \/ \E i \in Intents : \E k \in DOMAIN refunds[i] :
                       x = <<"refund", i, k>> /\ refunds[i][k].tx = t
<1> DEFINE A == {<<"payment", i, 0>> : i \in {j \in Intents : settledBy[j] = t}}
           C(i) == {<<"candidate", i, k>> : k \in {n \in DOMAIN candidates[i] :
                                                      candidates[i][n].tx = t}}
           R(i) == {<<"refund", i, k>> : k \in {n \in DOMAIN refunds[i] : refunds[i][n].tx = t}}
           U == UNION {C(i) : i \in Intents}
           V == UNION {R(i) : i \in Intents}
<1>1. RowsNaming(t) = (A \cup U) \cup V
  BY DEF RowsNaming
<1>2. \A x : x \in A <=> \E i \in Intents : x = <<"payment", i, 0>> /\ settledBy[i] = t
  OBVIOUS
<1>3. \A i, x : x \in C(i) <=>
         \E k \in DOMAIN candidates[i] : x = <<"candidate", i, k>> /\ candidates[i][k].tx = t
  OBVIOUS
<1>4. \A i, x : x \in R(i) <=>
         \E k \in DOMAIN refunds[i] : x = <<"refund", i, k>> /\ refunds[i][k].tx = t
  OBVIOUS
<1> HIDE DEF A, C, R
<1>5. \A x : x \in U <=> \E i \in Intents : x \in C(i)
  OBVIOUS
<1>6. \A x : x \in V <=> \E i \in Intents : x \in R(i)
  OBVIOUS
<1> HIDE DEF U, V
<1>7. \A i \in Intents : <<"payment", i, 0>> \in RowsNaming(t) <=> settledBy[i] = t
  BY <1>1, <1>2, <1>3, <1>4, <1>5, <1>6
<1>8. \A i \in Intents : \A k \in DOMAIN candidates[i] :
         <<"candidate", i, k>> \in RowsNaming(t) <=> candidates[i][k].tx = t
  BY <1>1, <1>2, <1>3, <1>4, <1>5, <1>6
<1>9. \A i \in Intents : \A k \in DOMAIN refunds[i] :
         <<"refund", i, k>> \in RowsNaming(t) <=> refunds[i][k].tx = t
  BY <1>1, <1>2, <1>3, <1>4, <1>5, <1>6
<1>10. \A i \in Intents : t \in Named(i) <=>
                 \/ <<"payment", i, 0>> \in RowsNaming(t)
                 \/ \E k \in DOMAIN candidates[i] : <<"candidate", i, k>> \in RowsNaming(t)
                 \/ \E k \in DOMAIN refunds[i] : <<"refund", i, k>> \in RowsNaming(t)
  BY <1>7, <1>8, <1>9 DEF Named
<1>11. ASSUME NEW x \in RowsNaming(t)
       PROVE  \/ \E i \in Intents : x = <<"payment", i, 0>> /\ settledBy[i] = t
              \/ \E i \in Intents : \E k \in DOMAIN candidates[i] :
                    x = <<"candidate", i, k>> /\ candidates[i][k].tx = t
              \/ \E i \in Intents : \E k \in DOMAIN refunds[i] :
                    x = <<"refund", i, k>> /\ refunds[i][k].tx = t
  <2>1. CASE x \in A
    BY <1>2, <2>1
  <2>2. CASE x \in U
    BY <1>3, <1>5, <2>2
  <2>3. CASE x \in V
    BY <1>4, <1>6, <2>3
  <2> QED BY <1>1, <2>1, <2>2, <2>3
<1> QED BY <1>10, <1>11

\* Nothing of an intent names an unused transaction.
LEMMA UnusedNamed ==
    ASSUME NEW t \in Transactions, RowsNaming(t) = {}
    PROVE  /\ \A i \in Intents : t \notin Named(i)
           /\ \A i \in Intents : settledBy[i] # t
<1>1. \A i \in Intents : t \notin Named(i)
  BY NamingIs
<1> QED BY <1>1 DEF Named

\* A step that names only what nothing else names, for one intent.
LEMMA OwnersNext ==
    ASSUME OneOwner, NEW i, NEW t, NamesOnly(candidates, candidates', i, t),
           NamesOnly(refunds, refunds', i, t),
           \A j \in Intents : settledBy'[j] = settledBy[j] \/ (j = i /\ settledBy'[j] = t),
           t \in Transactions => \A j \in Intents : j # i => t \notin Named(j),
           \A j \in Intents : PaidByItsOwn(j)'
    PROVE  OneOwner'
<1>1. ASSUME NEW j \in Intents, NEW u \in Named(j)'
      PROVE  u \in Named(j) \/ (j = i /\ u = t /\ t \in Transactions)
  <2>1. u \in Transactions
    BY DEF Named
  <2>2. CASE settledBy'[j] = u
    BY <2>1, <2>2 DEF Named
  <2>3. CASE \E k \in DOMAIN candidates'[j] : candidates'[j][k].tx = u
    BY <2>1, <2>3 DEF NamesOnly, Named
  <2>4. CASE \E k \in DOMAIN refunds'[j] : refunds'[j][k].tx = u
    BY <2>1, <2>4 DEF NamesOnly, Named
  <2> QED BY <2>2, <2>3, <2>4 DEF Named
<1>2. ASSUME NEW j \in Intents, NEW m \in Intents, NEW u \in Named(j)' \cap Named(m)'
      PROVE  j = m
  BY <1>1 DEF OneOwner
<1> QED BY <1>2 DEF OneOwner

\* A step that settles nothing.
LEMMA OwnersKept ==
    ASSUME OneOwner, Tables, KeepsResolved, UNCHANGED settledBy, NEW i, NEW t,
           NamesOnly(candidates, candidates', i, t), NamesOnly(refunds, refunds', i, t),
           t = NoTransaction \/ (t \in Transactions /\ RowsNaming(t) = {})
    PROVE  OneOwner'
<1>1. /\ t \in Transactions => \A j \in Intents : t \notin Named(j)
      /\ \A j \in Intents : settledBy[j] \in Transactions => settledBy[j] # t
  BY UnusedNamed, ReconcilerAssumption
<1>2. ASSUME NEW j \in Intents, settledBy[j] \in Transactions
      PROVE  /\ \A k \in DOMAIN candidates'[j] : candidates'[j][k].tx = settledBy[j] =>
                   candidates'[j][k].state = "confirmed"
             /\ \A k \in DOMAIN refunds'[j] : refunds'[j][k].tx # settledBy[j]
  <2>1. PaidByItsOwn(j)
    BY DEF OneOwner
  <2>2. ASSUME NEW k \in DOMAIN candidates'[j], candidates'[j][k].tx = settledBy[j]
        PROVE  candidates'[j][k].state = "confirmed"
    <3>1. k \in DOMAIN candidates[j] /\ candidates[j][k].tx = settledBy[j]
      BY <1>1, <1>2, <2>2 DEF NamesOnly
    <3>2. candidates[j][k].state = "confirmed"
      BY <1>2, <2>1, <3>1 DEF PaidByItsOwn
    <3>3. Closed(candidates[j], k)
      BY <3>2 DEF Closed, Open
    <3> QED BY <3>1, <3>2, <3>3 DEF KeepsResolved
  <2>3. \A k \in DOMAIN refunds'[j] : refunds'[j][k].tx # settledBy[j]
    BY <1>1, <1>2, <2>1 DEF NamesOnly, PaidByItsOwn
  <2> QED BY <2>2, <2>3
<1>3. \A j \in Intents : PaidByItsOwn(j)'
  BY <1>2 DEF PaidByItsOwn
<1>4. /\ \A j \in Intents : settledBy'[j] = settledBy[j] \/ (j = i /\ settledBy'[j] = t)
      /\ t \in Transactions => \A j \in Intents : j # i => t \notin Named(j)
  BY <1>1
<1> QED BY <1>3, <1>4, OwnersNext

\* What an operation does to the rows of an intent.
LEMMA RowsNameOnly ==
    ASSUME NEW f, RowTable(f), NEW i \in Intents, NEW s, NEW g, g = [f EXCEPT ![i] = s],
           NEW t, \A k \in DOMAIN s : \/ k \in DOMAIN f[i] /\ s[k].tx = f[i][k].tx
                                      \/ s[k].tx = t
    PROVE  NamesOnly(f, g, i, t)
BY DEF NamesOnly, RowTable, Table

LEMMA RowHasFields ==
    ASSUME NEW f, RowTable(f), NEW i \in Intents, NEW k \in DOMAIN f[i]
    PROVE  "tx" \in DOMAIN f[i][k]
BY DEF RowTable, IsRow

LEMMA NamesClosed ==
    ASSUME NEW f, RowTable(f), NEW i \in Intents, NEW n, NEW state, NEW evidence,
           NEW g, g = WithClosed(f, i, n, state, evidence), NEW t
    PROVE  NamesOnly(f, g, i, t)
<1> DEFINE s == CloseRow(f[i], n, state, evidence)
<1>1. \A k \in DOMAIN s : k \in DOMAIN f[i] /\ s[k].tx = f[i][k].tx
  BY RowHasFields DEF CloseRow
<1>2. g = [f EXCEPT ![i] = s]
  BY DEF WithClosed
<1> HIDE DEF s
<1> QED BY <1>1, <1>2, RowsNameOnly

LEMMA NamesAbandoned ==
    ASSUME NEW f, RowTable(f), NEW i \in Intents, NEW n, NEW c,
           NEW g, g = WithAbandoned(f, i, n, c), NEW t
    PROVE  NamesOnly(f, g, i, t)
<1> DEFINE s == [f[i] EXCEPT ![n].state = "abandoned", ![n].closed = c]
<1>1. \A k \in DOMAIN s : k \in DOMAIN f[i] /\ s[k].tx = f[i][k].tx
  BY RowHasFields
<1>2. g = [f EXCEPT ![i] = s]
  BY DEF WithAbandoned, RowTable, Table
<1> HIDE DEF s
<1> QED BY <1>1, <1>2, RowsNameOnly

LEMMA NamesReleased ==
    ASSUME NEW f, RowTable(f), NEW i \in Intents, NEW proof,
           NEW g, g = [f EXCEPT ![i] = Released(f[i], proof)], NEW t
    PROVE  NamesOnly(f, g, i, t)
<1> DEFINE s == Released(f[i], proof)
<1>1. \A k \in DOMAIN s : k \in DOMAIN f[i] /\ s[k].tx = f[i][k].tx
  BY RowHasFields DEF Released, AsClosed
<1>2. g = [f EXCEPT ![i] = s]
  OBVIOUS
<1> HIDE DEF s
<1> QED BY <1>1, <1>2, RowsNameOnly, ZenonT(40)

LEMMA NamesAppended ==
    ASSUME NEW f, RowTable(f), NEW i \in Intents, NEW x,
           NEW g, g = WithAppended(f, i, x)
    PROVE  NamesOnly(f, g, i, x.tx)
<1>1. Table(f)
  BY DEF RowTable
<1>2. Added(f[i], g[i], x) /\ \A j \in Intents \ {i} : g[j] = f[j]
  BY ONLY <1>1, i \in Intents, g = WithAppended(f, i, x), TableAdds
<1>3. Len(f[i]) \in Nat /\ DOMAIN f[i] = 1..Len(f[i]) /\ DOMAIN g[i] = 1..(Len(f[i]) + 1)
  BY <1>2, ListIndexes DEF Added
<1>4. ASSUME NEW k \in DOMAIN g[i]
      PROVE  (k \in DOMAIN f[i] /\ g[i][k].tx = f[i][k].tx) \/ g[i][k].tx = x.tx
  <2>1. k \in 1..Len(f[i]) \/ k = Len(f[i]) + 1
    BY <1>3
  <2> QED BY <1>2, <1>3, <2>1 DEF Added
<1> QED BY <1>2, <1>4 DEF NamesOnly

LEMMA NamesWrittenIn ==
    ASSUME NEW f, RowTable(f), NEW i \in Intents, NEW n, NEW t, NEW c,
           NEW g, g = [f EXCEPT ![i] = [f[i] EXCEPT ![n].tx = t, ![n].previous = c]]
    PROVE  NamesOnly(f, g, i, t)
<1> DEFINE s == [f[i] EXCEPT ![n].tx = t, ![n].previous = c]
<1>1. \A k \in DOMAIN s : (k \in DOMAIN f[i] /\ s[k].tx = f[i][k].tx) \/ s[k].tx = t
  BY RowHasFields
<1>2. g = [f EXCEPT ![i] = s]
  OBVIOUS
<1> HIDE DEF s
<1> QED BY <1>1, <1>2, RowsNameOnly

LEMMA NamesUnchanged ==
    ASSUME NEW i, NEW t
    PROVE  /\ UNCHANGED candidates => NamesOnly(candidates, candidates', i, t)
           /\ UNCHANGED refunds => NamesOnly(refunds, refunds', i, t)
BY DEF NamesOnly

\* A payment is settled by a transaction that names its intent, or nothing.
LEMMA OwnersPaid ==
    ASSUME OneOwner, NEW i \in Intents, NEW t,
           UNCHANGED refunds, settledBy'[i] = t,
           \A j \in Intents \ {i} : settledBy'[j] = settledBy[j] /\ candidates'[j] = candidates[j],
           t \in Transactions => \A j \in Intents \ {i} : t \notin Named(j),
           \A k \in DOMAIN candidates'[i] : candidates'[i][k].tx = t =>
              candidates'[i][k].state = "confirmed",
           \A k \in DOMAIN refunds[i] : refunds[i][k].tx # t,
           \A k \in DOMAIN candidates'[i] : k \in DOMAIN candidates[i]
              /\ candidates'[i][k].tx = candidates[i][k].tx
    PROVE  OneOwner'
<1>1. NamesOnly(candidates, candidates', i, t) /\ NamesOnly(refunds, refunds', i, t)
  BY DEF NamesOnly
<1>2. PaidByItsOwn(i)'
  BY DEF PaidByItsOwn
<1>3. \A j \in Intents \ {i} : PaidByItsOwn(j)'
  BY DEF OneOwner, PaidByItsOwn
<1>4. \A j \in Intents : PaidByItsOwn(j)'
  BY <1>2, <1>3
<1>5. /\ \A j \in Intents : settledBy'[j] = settledBy[j] \/ (j = i /\ settledBy'[j] = t)
      /\ t \in Transactions => \A j \in Intents : j # i => t \notin Named(j)
  OBVIOUS
<1> QED BY <1>1, <1>4, <1>5, OwnersNext

LEMMA OwnersCommit ==
    ASSUME Inv, OneOwner, NEW i \in Intents, CommitSettlement(i)
    PROVE  OneOwner'
<1>1. /\ RowsNaming(payment[i]) = {} /\ payment[i] \in Transactions
      /\ UNCHANGED <<candidates, refunds>>
      /\ settledBy' = [settledBy EXCEPT ![i] = payment[i]]
  BY DEF CommitSettlement, GloballyUnique, rowVars, Inv, ChainTyped
<1>2. \A j \in Intents : payment[i] \notin Named(j)
  BY <1>1, UnusedNamed
<1>3. /\ settledBy'[i] = payment[i] /\ \A j \in Intents \ {i} : settledBy'[j] = settledBy[j]
  BY <1>1 DEF Inv, ColumnsTyped
<1>4. /\ \A k \in DOMAIN candidates[i] : candidates[i][k].tx # payment[i]
      /\ \A k \in DOMAIN refunds[i] : refunds[i][k].tx # payment[i]
  BY <1>1, <1>2 DEF Named
<1> DEFINE t == payment[i]
<1>5. /\ UNCHANGED refunds /\ settledBy'[i] = t
      /\ \A j \in Intents \ {i} : settledBy'[j] = settledBy[j] /\ candidates'[j] = candidates[j]
      /\ t \in Transactions => \A j \in Intents \ {i} : t \notin Named(j)
      /\ \A k \in DOMAIN candidates'[i] : candidates'[i][k].tx = t =>
            candidates'[i][k].state = "confirmed"
      /\ \A k \in DOMAIN refunds[i] : refunds[i][k].tx # t
      /\ \A k \in DOMAIN candidates'[i] : k \in DOMAIN candidates[i]
            /\ candidates'[i][k].tx = candidates[i][k].tx
  BY <1>1, <1>2, <1>3, <1>4
<1> HIDE DEF t
<1> QED BY <1>5, OwnersPaid

LEMMA OwnersSettle ==
    ASSUME Inv, HistoryInv, OneOwner, NEW o \in Operators, SettlePayment(o)
    PROVE  OneOwner'
<1> DEFINE i == request[o].intent
           n == request[o].row
           t == AskedRow(o).tx
           proof == [kind |-> "settled", tx |-> t]
           s == CloseRow(candidates[i], n, "confirmed", proof)
<1>1. /\ Resumes(o, "payment") /\ CaseUnmoved(o) /\ "settled" \in Answers(o)
      /\ candidates' = [candidates EXCEPT ![i] = s]
      /\ settledBy' = [settledBy EXCEPT ![i] = t]
      /\ UNCHANGED refunds
  BY DEF SettlePayment, ResolvePayment
<1>2. /\ i \in Intents /\ (n = 0 => t = NoTransaction)
      /\ n # 0 => n \in DOMAIN candidates[i] /\ t = candidates[i][n].tx
  BY <1>1, AskedCandidate
<1>3. t # NoTransaction
  BY <1>1 DEF Answers, PaymentAnswers, TransferProof, Resumes
<1>4. n \in DOMAIN candidates[i] /\ t = candidates[i][n].tx
  BY <1>2, <1>3
<1>5. RowTable(candidates) /\ DOMAIN candidates = Intents
  BY DEF Inv, Tables, RowTable, Table
<1>6. Distinct(candidates[i], refunds[i])
  BY <1>2 DEF HistoryInv, Recomputable
<1>7. /\ DOMAIN s = DOMAIN candidates[i]
      /\ \A k \in DOMAIN s : s[k].tx = candidates[i][k].tx
      /\ s[n].state = "confirmed"
  <2>1. \A k \in DOMAIN candidates[i] : {"tx", "state"} \subseteq DOMAIN candidates[i][k]
    BY <1>2, <1>5 DEF RowTable, IsRow
  <2> QED BY <1>4, <2>1 DEF CloseRow
<1>8. t \in Transactions
  BY <1>2, <1>3, <1>4, <1>5, RowFields DEF RowTable
<1>9. t \in Named(i)
  BY <1>4, <1>8 DEF Named
<1> HIDE DEF s, t, n, i
<1>10. candidates'[i] = s /\ \A j \in Intents \ {i} : candidates'[j] = candidates[j]
  BY <1>1, <1>2, <1>5
<1>11. \A k \in DOMAIN s : s[k].tx = t => s[k].state = "confirmed"
  BY <1>4, <1>6, <1>7 DEF Distinct
<1>12. \A k \in DOMAIN refunds[i] : refunds[i][k].tx # t
  BY <1>4, <1>6 DEF Distinct
<1>13. settledBy'[i] = t /\ \A j \in Intents \ {i} : settledBy'[j] = settledBy[j]
  BY <1>1, <1>2 DEF Inv, ColumnsTyped
<1>14. \A j \in Intents \ {i} : t \notin Named(j)
  BY <1>2, <1>9 DEF OneOwner
<1> QED BY <1>1, <1>2, <1>7, <1>10, <1>11, <1>12, <1>13, <1>14, OwnersPaid

\* An operation names one unused transaction, or none.
Names(t) ==
    /\ UNCHANGED settledBy
    /\ t = NoTransaction \/ (t \in Transactions /\ RowsNaming(t) = {})
    /\ \E i : /\ NamesOnly(candidates, candidates', i, t)
              /\ NamesOnly(refunds, refunds', i, t)

LEMMA FirstLeaseNames ==
    ASSUME Inv, HistoryInv, NEW o \in Operators,
           \/ \E t \in Transactions : NamePayment(o, t) \/ NameRefund(o, t)
           \/ AbandonPayment(o) \/ AbandonRefund(o)
    PROVE  \E t : Names(t)
<1> DEFINE i == request[o].intent
<1>1. RowTable(candidates) /\ RowTable(refunds)
  BY DEF Inv, Tables
<1>2. CASE \E t \in Transactions : NamePayment(o, t)
  <2>1. PICK t \in Transactions : NamePayment(o, t)
    BY <1>2
  <2> DEFINE x == OpenRow(t, PaymentCase(i))
  <2>2. /\ i \in Intents /\ candidates' = WithAppended(candidates, i, x)
        /\ UNCHANGED <<settledBy, refunds>> /\ RowsNaming(t) = {}
    BY <2>1, Submitted DEF NamePayment, WithAppended, TransactionUnused, holdVars
  <2>3. x.tx = t
    BY DEF OpenRow
  <2> HIDE DEF x, i
  <2>4. NamesOnly(candidates, candidates', i, t)
    BY <1>1, <2>2, <2>3, NamesAppended
  <2> QED BY <2>2, <2>4, NamesUnchanged DEF Names
<1>3. CASE \E t \in Transactions : NameRefund(o, t)
  <2>1. PICK t \in Transactions : NameRefund(o, t)
    BY <1>3
  <2> DEFINE opened == HasOpen(refunds[i])
             k == OpenIndex(refunds[i])
             c == RefundCase(i)
             x == OpenRow(t, c)
  <2>2. /\ i \in Intents /\ UNCHANGED <<settledBy, candidates>> /\ RowsNaming(t) = {}
        /\ opened => refunds' = [refunds EXCEPT ![i] =
                                    [refunds[i] EXCEPT ![k].tx = t, ![k].previous = c]]
        /\ ~opened => refunds' = WithAppended(refunds, i, x)
    BY <2>1, Submitted DEF NameRefund, WithAppended, TransactionUnused, holdVars
  <2>3. x.tx = t
    BY DEF OpenRow
  <2> HIDE DEF x, i, c, k, opened
  <2>4. NamesOnly(refunds, refunds', i, t)
    <3>1. CASE opened
      BY <1>1, <2>2, <3>1, NamesWrittenIn
    <3>2. CASE ~opened
      BY <1>1, <2>2, <2>3, <3>2, NamesAppended
    <3> QED BY <3>1, <3>2
  <2> QED BY <2>2, <2>4, NamesUnchanged DEF Names
<1>4. CASE AbandonPayment(o)
  <2> DEFINE k == OpenIndex(candidates[i])
             c == PaymentCase(i)
  <2>1. /\ i \in Intents /\ UNCHANGED <<settledBy, refunds>>
        /\ candidates' = WithAbandoned(candidates, i, k, c)
    BY <1>4, Submitted DEF AbandonPayment, WithAbandoned, holdVars
  <2> HIDE DEF i, k, c
  <2>2. NamesOnly(candidates, candidates', i, NoTransaction)
    BY <1>1, <2>1, NamesAbandoned
  <2> QED BY <2>1, <2>2, NamesUnchanged DEF Names
<1>5. CASE AbandonRefund(o)
  <2> DEFINE k == OpenIndex(refunds[i])
             c == RefundCase(i)
  <2>1. /\ i \in Intents /\ UNCHANGED <<settledBy, candidates>>
        /\ refunds' = WithAbandoned(refunds, i, k, c)
    BY <1>5, Submitted DEF AbandonRefund, WithAbandoned, holdVars
  <2> HIDE DEF i, k, c
  <2>2. NamesOnly(refunds, refunds', i, NoTransaction)
    BY <1>1, <2>1, NamesAbandoned
  <2> QED BY <2>1, <2>2, NamesUnchanged DEF Names
<1> QED BY <1>2, <1>3, <1>4, <1>5

LEMMA SecondLeaseNames ==
    ASSUME Inv, NEW o \in Operators,
           \/ RejectCandidate(o) \/ ReleasePayment(o) \/ RejectRefund(o) \/ ConfirmRefund(o)
           \/ \E result \in {"succeeded", "failed"} : ReconcileExecution(o, result)
    PROVE  \E t : Names(t)
<1> DEFINE i == request[o].intent
           n == request[o].row
<1>1. RowTable(candidates) /\ RowTable(refunds)
  BY DEF Inv, Tables
<1>2. CASE RejectCandidate(o)
  <2> DEFINE proof == [kind |-> "absent", tx |-> AskedRow(o).tx]
  <2>1. /\ i \in Intents /\ UNCHANGED <<settledBy, refunds>>
        /\ candidates' = WithClosed(candidates, i, n, "rejected", proof)
    BY <1>2, AskedCandidate DEF RejectCandidate, WithClosed, holdVars
  <2> HIDE DEF i, n, proof
  <2>2. NamesOnly(candidates, candidates', i, NoTransaction)
    BY <1>1, <2>1, NamesClosed
  <2> QED BY <2>1, <2>2, NamesUnchanged DEF Names
<1>3. CASE ReleasePayment(o)
  <2>1. /\ i \in Intents /\ UNCHANGED <<settledBy, refunds>>
        /\ candidates' = [candidates EXCEPT ![i] = Released(candidates[i], Unused)]
    BY <1>3, AskedCandidate DEF ReleasePayment, ResolvePayment, Released, AsClosed, Unused
  <2> HIDE DEF i
  <2>2. NamesOnly(candidates, candidates', i, NoTransaction)
    BY <1>1, <2>1, NamesReleased
  <2> QED BY <2>1, <2>2, NamesUnchanged DEF Names
<1>4. CASE RejectRefund(o) \/ ConfirmRefund(o)
  <2> DEFINE t == AskedRow(o).tx
             absent == [kind |-> "absent", tx |-> t]
             back == [kind |-> "refunded", tx |-> t]
  <2>1. /\ i \in Intents /\ UNCHANGED <<settledBy, candidates>>
        /\ \/ refunds' = WithClosed(refunds, i, n, "rejected", absent)
           \/ refunds' = WithClosed(refunds, i, n, "confirmed", back)
    BY <1>4, AskedRefund DEF RejectRefund, ConfirmRefund, WithClosed, holdVars
  <2> HIDE DEF i, n, absent, back
  <2>2. NamesOnly(refunds, refunds', i, NoTransaction)
    BY <1>1, <2>1, NamesClosed
  <2> QED BY <2>1, <2>2, NamesUnchanged DEF Names
<1>5. CASE \E result \in {"succeeded", "failed"} : ReconcileExecution(o, result)
  <2> DEFINE s == <<OpenRow(NoTransaction, NoCase)>>
  <2>1. /\ request[o].phase = "asked"
        /\ UNCHANGED <<settledBy, candidates>>
        /\ UNCHANGED refunds \/ refunds' = [refunds EXCEPT ![i] = s]
    BY <1>5 DEF ReconcileExecution, Resumes, holdVars
  <2>2. i \in Intents
    BY <2>1 DEF Inv, Requests, Asks
  <2>3. \A k \in DOMAIN s : s[k].tx = NoTransaction
    BY DEF OpenRow
  <2> HIDE DEF i, s
  <2>4. NamesOnly(refunds, refunds', i, NoTransaction)
    BY <1>1, <2>1, <2>2, <2>3, RowsNameOnly, NamesUnchanged
  <2> QED BY <2>1, <2>4, NamesUnchanged DEF Names
<1> QED BY <1>2, <1>3, <1>4, <1>5

\* Every step leaves every transaction to one owner.
LEMMA OwnersStep ==
    ASSUME Inv, HistoryInv, OneOwner, [Next]_vars
    PROVE  OneOwner'
<1>1. Tables /\ KeepsResolved
  BY StepKeeps DEF Inv
<1>2. ASSUME \E t : Names(t) PROVE OneOwner'
  BY <1>1, <1>2, OwnersKept DEF Names
<1>3. ASSUME UNCHANGED <<candidates, refunds, settledBy>> PROVE OneOwner'
  BY <1>3 DEF OneOwner, Named, PaidByItsOwn
<1>4. CASE UNCHANGED vars \/ ChainStep
  BY <1>3, <1>4
     DEF vars, ChainStep, Expire, MinePayment, MineOther, caseVars, holdVars, rowVars
<1>5. CASE KernelStep
  <2>1. PICK i \in Intents : CommitSettlement(i) \/ RefuseSettlement(i) \/ LoseResponse(i)
    BY <1>5 DEF KernelStep
  <2>2. CASE RefuseSettlement(i) \/ LoseResponse(i)
    BY <1>3, <2>2
       DEF RefuseSettlement, LoseResponse, HoldUnresolved, caseVars, holdVars, rowVars
  <2> QED BY <2>1, <2>2, OwnersCommit
<1>6. CASE Crash \/ Restart \/ RefuseStart
  BY <1>3, <1>6 DEF Crash, Restart, RefuseStart, HoldUnresolved, caseVars, holdVars, rowVars
<1>7. CASE \E o \in Operators : FirstLease(o) \/ SecondLease(o) \/ Repetition(o)
  <2>1. PICK o \in Operators : FirstLease(o) \/ SecondLease(o) \/ Repetition(o)
    BY <1>7
  <2>2. CASE \/ \E i \in Intents, kind \in Kinds : Display(o, i, kind)
             \/ PreparePayment(o) \/ PrepareExecution(o) \/ PrepareRefund(o)
             \/ Refuse(o) \/ RefuseUnsigned(o) \/ LearnNothing(o)
             \/ Repetition(o)
    BY <1>3, <2>2, InvRead DEF caseVars, holdVars, rowVars
  <2>3. CASE \/ \E t \in Transactions : NamePayment(o, t) \/ NameRefund(o, t)
             \/ AbandonPayment(o) \/ AbandonRefund(o)
    BY <1>2, <2>3, FirstLeaseNames
  <2>4. CASE \/ RejectCandidate(o) \/ ReleasePayment(o) \/ RejectRefund(o) \/ ConfirmRefund(o)
             \/ \E result \in {"succeeded", "failed"} : ReconcileExecution(o, result)
    BY <1>2, <2>4, SecondLeaseNames
  <2>5. CASE SettlePayment(o)
    BY <2>5, OwnersSettle
  <2> QED
    BY <2>1, <2>2, <2>3, <2>4, <2>5 DEF FirstLease, SecondLease, Kinds
<1> QED BY <1>4, <1>5, <1>6, <1>7 DEF Next

LEMMA OwnersInit ==
    ASSUME Init
    PROVE  OneOwner
<1>1. \A i \in Intents : /\ settledBy[i] \notin Transactions
                         /\ DOMAIN candidates[i] = {} /\ DOMAIN refunds[i] = {}
  BY ReconcilerAssumption DEF Init
<1>2. \A i \in Intents : Named(i) = {} /\ PaidByItsOwn(i)
  BY <1>1 DEF Named, PaidByItsOwn
<1> QED BY <1>2 DEF OneOwner

\* The unique history of the audit is that of the owners.
LEMMA OwnersSuffice ==
    ASSUME HistoryInv, OneOwner
    PROVE  TransactionsAudit
<1> SUFFICES ASSUME NEW t \in Transactions
             PROVE  \/ Cardinality(RowsNaming(t)) <= 1
                    \/ \E i \in Intents : \E k \in DOMAIN candidates[i] :
                          /\ RowsNaming(t) = {<<"payment", i, 0>>, <<"candidate", i, k>>}
                          /\ candidates[i][k].state = "confirmed"
  BY DEF TransactionsAudit
<1> DEFINE Paid(i) == settledBy[i] = t
           Cand(i, k) == k \in DOMAIN candidates[i] /\ candidates[i][k].tx = t
           Back(i, k) == k \in DOMAIN refunds[i] /\ refunds[i][k].tx = t
           S == RowsNaming(t)
<1>1. /\ \A i \in Intents : Paid(i) => t \in Named(i)
      /\ \A i \in Intents : \A k : Cand(i, k) => t \in Named(i)
      /\ \A i \in Intents : \A k : Back(i, k) => t \in Named(i)
  BY DEF Named
<1>2. \A i, j \in Intents : t \in Named(i) /\ t \in Named(j) => i = j
  BY DEF OneOwner
<1>3. \A i \in Intents : \A k, n :
         /\ Cand(i, k) /\ Cand(i, n) => k = n
         /\ Back(i, k) /\ Back(i, n) => k = n
         /\ ~(Cand(i, k) /\ Back(i, n))
         /\ Paid(i) => ~Back(i, n)
         /\ Paid(i) /\ Cand(i, k) => candidates[i][k].state = "confirmed"
  <2> SUFFICES ASSUME NEW i \in Intents
               PROVE  \A k, n :
                         /\ Cand(i, k) /\ Cand(i, n) => k = n
                         /\ Back(i, k) /\ Back(i, n) => k = n
                         /\ ~(Cand(i, k) /\ Back(i, n))
                         /\ Paid(i) => ~Back(i, n)
                         /\ Paid(i) /\ Cand(i, k) => candidates[i][k].state = "confirmed"
    OBVIOUS
  <2>1. Distinct(candidates[i], refunds[i]) /\ PaidByItsOwn(i) /\ t # NoTransaction
    BY ReconcilerAssumption DEF HistoryInv, Recomputable, OneOwner
  <2> QED BY <2>1 DEF Distinct, PaidByItsOwn
<1>4. \A x \in S : \/ \E i \in Intents : x = <<"payment", i, 0>> /\ Paid(i)
                   \/ \E i \in Intents : \E k : x = <<"candidate", i, k>> /\ Cand(i, k)
                   \/ \E i \in Intents : \E k : x = <<"refund", i, k>> /\ Back(i, k)
  BY NamingIs
<1>5. ASSUME NEW i \in Intents, NEW k, Paid(i), Cand(i, k)
      PROVE  S = {<<"payment", i, 0>>, <<"candidate", i, k>>}
  <2>1. <<"payment", i, 0>> \in S /\ <<"candidate", i, k>> \in S
    BY <1>5 DEF RowsNaming
  <2> HIDE DEF S, Paid, Cand, Back
  <2>2. \A j \in Intents : \A n : /\ Paid(j) => j = i
                                  /\ Cand(j, n) => j = i /\ n = k
                                  /\ ~Back(j, n)
    BY <1>1, <1>2, <1>3, <1>5
  <2>3. \A x \in S : x = <<"payment", i, 0>> \/ x = <<"candidate", i, k>>
    BY <1>4, <2>2
  <2> QED BY <2>1, <2>3
<1> HIDE DEF S, Paid, Cand, Back
<1>6. CASE \E i \in Intents : \E k : Paid(i) /\ Cand(i, k)
  BY <1>3, <1>5, <1>6 DEF S, Cand
<1>7. CASE ~\E i \in Intents : \E k : Paid(i) /\ Cand(i, k)
  <2>1. \A x, y \in S : x = y
    BY <1>1, <1>2, <1>3, <1>4, <1>7
  <2>2. Cardinality(S) <= 1
    <3>1. CASE S = {}
      BY <3>1, FS_EmptySet
    <3>2. CASE S # {}
      <4>1. PICK x \in S : TRUE
        BY <3>2
      <4>2. S = {x}
        BY <2>1, <4>1
      <4> QED BY <4>2, FS_Singleton
    <3> QED BY <3>1, <3>2
  <2> QED BY <2>2 DEF S
<1> QED BY <1>6, <1>7

\* The invariant of the rows, the entries and the owners.
LEMMA HistoryInvariant == Spec => [](Inv /\ HistoryInv /\ OneOwner)
<1>1. Init => Inv /\ HistoryInv /\ OneOwner
  BY InvInit, HistoryInit, OwnersInit
<1>2. Inv /\ HistoryInv /\ OneOwner /\ [Next]_vars => (Inv /\ HistoryInv /\ OneOwner)'
  BY StepKeeps, HistoryKept, OwnersStep
<1> QED BY <1>1, <1>2, PTL DEF Spec
-----------------------------------------------------------------------------
(* The audit finds what the invariant says.                                    *)

\* An operator-made evidence is not the absence of one.
LEMMA EvidenceIsSome ==
    ASSUME NEW t
    PROVE  /\ Absent(t) # NoEvidence /\ Absent(t).tx = t
           /\ Unused # NoEvidence
           /\ [kind |-> "settled", tx |-> t] # NoEvidence
           /\ [kind |-> "refunded", tx |-> t] # NoEvidence
<1>1. /\ Absent(t).kind = "absent" /\ Absent(t).tx = t /\ Unused.kind = "unused"
      /\ [kind |-> "settled", tx |-> t].kind = "settled"
      /\ [kind |-> "refunded", tx |-> t].kind = "refunded"
      /\ NoEvidence.kind = "none"
  BY DEF Absent, Unused, NoEvidence
<1> QED BY <1>1

\* A row that is resolved carries an evidence and its entry; another carries none.
RowEntered(h, row, seen) ==
    /\ row.evidence # NoEvidence <=> RowResolved(row)
    /\ RowResolved(row) => Entered(h, row, seen)

LEMMA CandidateEntered ==
    ASSUME NEW cs, NEW h, NEW att, NEW by, NEW k, CandidateSound(cs, h, att, by, k)
    PROVE  RowEntered(h, cs[k], CaseAt(cs, k))
<1>1. ASSUME RowResolved(cs[k]) PROVE cs[k].evidence # NoEvidence
  BY <1>1, EvidenceIsSome DEF RowResolved, CandidateSound
<1>2. ASSUME ~RowResolved(cs[k]) PROVE cs[k].evidence = NoEvidence
  BY <1>2 DEF RowResolved, CandidateSound, RowSound
<1> QED BY <1>1, <1>2 DEF RowEntered, CandidateSound

LEMMA RefundEntered ==
    ASSUME NEW rs, NEW h, NEW rev, NEW by, NEW k, RefundSound(rs, h, rev, by, k)
    PROVE  RowEntered(h, rs[k], RefundAt(rs, rev, by, k))
<1>1. ASSUME RowResolved(rs[k]) PROVE rs[k].evidence # NoEvidence
  BY <1>1, EvidenceIsSome DEF RowResolved, RefundSound
<1>2. ASSUME ~RowResolved(rs[k]) PROVE rs[k].evidence = NoEvidence
  BY <1>2 DEF RowResolved, RefundSound, RowSound
<1> QED BY <1>1, <1>2 DEF RowEntered, RefundSound

\* The entries the audit finds for a row.
LEMMA EntriesOfRow ==
    ASSUME NEW i \in Intents, NEW row, NEW seen, RowEntered(history[i], row, seen),
           \A m, n \in DOMAIN history[i] : history[i][m].evidence = history[i][n].evidence => m = n
    PROVE  /\ EntriesOf(i, row) # {} <=> RowResolved(row)
           /\ RowResolved(row) => Cardinality(EntriesOf(i, row)) = 1
           /\ \A n \in EntriesOf(i, row) : /\ history[i][n].observed = seen
                                           /\ history[i][n].requested \in {row.previous, seen}
<1>1. CASE ~RowResolved(row)
  <2>1. EntriesOf(i, row) = {}
    BY <1>1 DEF RowEntered, EntriesOf
  <2> QED BY <1>1, <2>1
<1>2. CASE RowResolved(row)
  <2>1. row.evidence # NoEvidence
    BY <1>2 DEF RowEntered
  <2>2. PICK n \in DOMAIN history[i] : /\ history[i][n].evidence = row.evidence
                                       /\ history[i][n].observed = seen
                                       /\ history[i][n].requested \in {row.previous, seen}
    BY <1>2 DEF RowEntered, Entered
  <2>3. EntriesOf(i, row) = {n}
    BY <2>1, <2>2 DEF EntriesOf
  <2>4. Cardinality({n}) = 1
    BY FS_Singleton
  <2> QED BY <1>2, <2>2, <2>3, <2>4
<1> QED BY <1>1, <1>2

\* So the audit counts the rows that are resolved.
LEMMA ResolvedIsCount ==
    ASSUME NEW i \in Intents, NEW rows, IsList(rows), NEW k \in DOMAIN rows,
           \A n \in DOMAIN rows : EntriesOf(i, rows[n]) # {} <=> RowResolved(rows[n])
    PROVE  ResolvedBefore(i, rows, k) = Count(rows, k)
<1>1. DOMAIN rows = 1..Len(rows) /\ Len(rows) \in Nat
  BY ListIndexes
<1>2. \A n \in 1..(k - 1) : n \in DOMAIN rows
  BY <1>1
<1>3. {n \in 1..(k - 1) : EntriesOf(i, rows[n]) # {}} = {n \in 1..(k - 1) : RowResolved(rows[n])}
  BY <1>2
<1> QED BY <1>3 DEF ResolvedBefore, Count

LEMMA ResolvedInAll ==
    ASSUME NEW rows, IsList(rows)
    PROVE  Count(rows, Len(rows) + 1)
             = Cardinality({n \in DOMAIN rows : rows[n].state \in {"confirmed", "rejected"}})
<1>1. DOMAIN rows = 1..Len(rows) /\ Len(rows) \in Nat
  BY ListIndexes
<1>2. 1..((Len(rows) + 1) - 1) = DOMAIN rows
  BY <1>1
<1> QED BY <1>2 DEF Count, RowResolved

\* At most one row of a table is open: the last.
LEMMA OneOpen ==
    ASSUME NEW rows, NEW l, \A k \in DOMAIN rows : rows[k].state \in Open => k = l
    PROVE  Cardinality(OpenIndexes(rows)) <= 1
<1>1. OpenIndexes(rows) = {} \/ OpenIndexes(rows) = {l}
  BY DEF OpenIndexes
<1>2. Cardinality({}) = 0 /\ Cardinality({l}) = 1
  BY FS_EmptySet, FS_Singleton
<1>3. Cardinality(OpenIndexes(rows)) \in {0, 1}
  BY <1>1, <1>2
<1> QED BY <1>3

\* Rows and entries of one intent as the audit reads them.
LEMMA RowsOf ==
    ASSUME Inv, HistoryInv, NEW i \in Intents
    PROVE  /\ IsList(candidates[i]) /\ IsList(refunds[i])
           /\ \A k \in DOMAIN candidates[i] :
                 CandidateSound(candidates[i], history[i], attempt[i], settledBy[i], k)
           /\ \A k \in DOMAIN refunds[i] :
                 RefundSound(refunds[i], history[i], revision[i], settledBy[i], k)
           /\ EntriesSound(candidates[i], refunds[i], history[i], attempt[i], settledBy[i],
                           execution[i])
BY DEF Inv, Tables, RowTable, Table, IsList, HistoryInv, Recomputable

LEMMA CandidateCounts ==
    ASSUME Inv, HistoryInv, NEW i \in Intents, NEW k \in DOMAIN candidates[i]
    PROVE  /\ RowEntered(history[i], candidates[i][k], CaseAt(candidates[i], k))
           /\ ResolvedBefore(i, candidates[i], k) = Count(candidates[i], k)
<1>1. ASSUME NEW n \in DOMAIN candidates[i]
      PROVE  /\ RowEntered(history[i], candidates[i][n], CaseAt(candidates[i], n))
             /\ EntriesOf(i, candidates[i][n]) # {} <=> RowResolved(candidates[i][n])
  <2>1. RowEntered(history[i], candidates[i][n], CaseAt(candidates[i], n))
    BY RowsOf, CandidateEntered
  <2>2. \A m, p \in DOMAIN history[i] : history[i][m].evidence = history[i][p].evidence => m = p
    BY RowsOf DEF EntriesSound
  <2> QED BY <2>1, <2>2, EntriesOfRow
<1> QED BY <1>1, RowsOf, ResolvedIsCount

LEMMA RefundCounts ==
    ASSUME Inv, HistoryInv, NEW i \in Intents, NEW k \in DOMAIN refunds[i]
    PROVE  /\ RowEntered(history[i], refunds[i][k],
                         RefundAt(refunds[i], revision[i], settledBy[i], k))
           /\ ResolvedBefore(i, refunds[i], k) = Count(refunds[i], k)
<1> DEFINE seen(n) == RefundAt(refunds[i], revision[i], settledBy[i], n)
<1>1. ASSUME NEW n \in DOMAIN refunds[i]
      PROVE  /\ RowEntered(history[i], refunds[i][n], seen(n))
             /\ EntriesOf(i, refunds[i][n]) # {} <=> RowResolved(refunds[i][n])
  <2>1. RowEntered(history[i], refunds[i][n], seen(n))
    BY RowsOf, RefundEntered
  <2>2. \A m, p \in DOMAIN history[i] : history[i][m].evidence = history[i][p].evidence => m = p
    BY RowsOf DEF EntriesSound
  <2> HIDE DEF seen
  <2> QED BY <2>1, <2>2, EntriesOfRow
<1> QED BY <1>1, RowsOf, ResolvedIsCount
LEMMA PaymentRowRecomputes ==
    ASSUME Inv, HistoryInv, NEW i \in Intents, NEW k \in DOMAIN candidates[i]
    PROVE  PaymentRowAudit(i, k)
<1> DEFINE cs == candidates[i]
           row == cs[k]
           before == CaseBefore(cs, k)
           seen == CaseAt(cs, k)
<1>1. /\ RowEntered(history[i], row, seen)
      /\ ResolvedBefore(i, cs, k) = Count(cs, k)
  BY CandidateCounts
<1>2. \A m, n \in DOMAIN history[i] : history[i][m].evidence = history[i][n].evidence => m = n
  BY RowsOf DEF EntriesSound
<1>3. CandidateSound(cs, history[i], attempt[i], settledBy[i], k)
  BY RowsOf
<1>4. /\ ObservedPaymentCase(i, k) = seen
      /\ PaymentCaseOf(1 + ResolvedBefore(i, cs, k), Earlier(cs, k)) = before
  BY <1>1 DEF ObservedPaymentCase, CaseAt, CaseBefore
<1>5. /\ row.previous = before
      /\ row.state = "abandoned" => row.closed = seen
      /\ row.state = "confirmed" => settledBy[i] = row.tx
  BY <1>3 DEF CandidateSound
<1>6. /\ RowResolved(row) => Cardinality(EntriesOf(i, row)) = 1
      /\ \A n \in EntriesOf(i, row) : /\ history[i][n].observed = seen
                                      /\ history[i][n].requested \in {row.previous, seen}
  <2> HIDE DEF row, seen
  <2> QED BY <1>1, <1>2, EntriesOfRow
<1>7. /\ EvidenceFits(row)
      /\ RowResolved(row) <=> row.state \in {"confirmed", "rejected"}
  BY <1>1 DEF EvidenceFits, RowEntered, RowResolved
<1> HIDE DEF before, seen
<1> QED BY <1>4, <1>5, <1>6, <1>7 DEF PaymentRowAudit

LEMMA RefundRowRecomputes ==
    ASSUME Inv, HistoryInv, NEW i \in Intents, NEW k \in DOMAIN refunds[i]
    PROVE  RefundRowAudit(i, k)
<1> DEFINE rs == refunds[i]
           row == rs[k]
           seen == RefundAt(rs, revision[i], settledBy[i], k)
           rev == RefundRevision(rs, revision[i], k)
           all == {n \in DOMAIN rs : rs[n].state \in {"confirmed", "rejected"}}
           unnamed == [AsPending(row) EXCEPT !.tx = NoTransaction]
<1>1. /\ RowEntered(history[i], row, seen)
      /\ ResolvedBefore(i, rs, k) = Count(rs, k)
  BY RefundCounts
<1>2. \A m, n \in DOMAIN history[i] : history[i][m].evidence = history[i][n].evidence => m = n
  BY RowsOf DEF EntriesSound
<1>3. RefundSound(rs, history[i], revision[i], settledBy[i], k)
  BY RowsOf
<1>4. revision[i] - Cardinality(all) + ResolvedBefore(i, rs, k) = rev
  BY <1>1, RowsOf, ResolvedInAll DEF RefundRevision
<1>5. RefundCaseOf(settledBy[i], rev, Append(Earlier(rs, k), AsPending(row))) = seen
  BY DEF RefundAt
<1>6. /\ row.tx # NoTransaction =>
            row.previous \in {RefundCaseOf(settledBy[i], rev, Earlier(rs, k)),
                              RefundCaseOf(settledBy[i], rev, Append(Earlier(rs, k), unnamed))}
      /\ row.state = "abandoned" => row.closed = seen
      /\ row.state \in {"confirmed", "rejected"} => row.tx # NoTransaction
  BY <1>3 DEF RefundSound, RefundsBefore
<1>7. /\ RowResolved(row) => Cardinality(EntriesOf(i, row)) = 1
      /\ \A n \in EntriesOf(i, row) : /\ history[i][n].observed = seen
                                      /\ history[i][n].requested \in {row.previous, seen}
  <2> HIDE DEF row, seen
  <2> QED BY <1>1, <1>2, EntriesOfRow
<1>8. /\ EvidenceFits(row)
      /\ RowResolved(row) <=> row.state \in {"confirmed", "rejected"}
  BY <1>1 DEF EvidenceFits, RowEntered, RowResolved
<1> HIDE DEF seen, rev
<1> QED BY <1>4, <1>5, <1>6, <1>7, <1>8 DEF RefundRowAudit

LEMMA EntryRecomputes ==
    ASSUME Inv, HistoryInv, NEW i \in Intents, NEW n \in DOMAIN history[i]
    PROVE  EntryAudit(i, n)
<1> DEFINE e == history[i][n]
           t == settledBy[i]
<1>1. EntrySound(candidates[i], refunds[i], attempt[i], t, execution[i], e, n)
  BY RowsOf DEF EntriesSound
<1>2. CASE /\ e.kind = "payment" /\ e.outcome = "settled" /\ attempt[i] = "settled"
           /\ e.evidence = [kind |-> "settled", tx |-> t]
           /\ \E k \in DOMAIN candidates[i] : /\ candidates[i][k].state = "confirmed"
                                              /\ candidates[i][k].tx = t
  <2>1. e.evidence.tx = t
    BY <1>2
  <2> QED BY <1>2, <2>1 DEF EntryAudit
<1>3. CASE /\ e.kind = "payment" /\ e.outcome = "unresolved"
           /\ \E k \in DOMAIN candidates[i] : /\ candidates[i][k].state = "rejected"
                                              /\ e.evidence = Absent(candidates[i][k].tx)
  <2>1. \E k \in DOMAIN candidates[i] : candidates[i][k].tx = e.evidence.tx
    BY <1>3, EvidenceIsSome
  <2> QED BY <1>3, <2>1 DEF EntryAudit
<1>4. CASE e.kind = "payment" /\ e.outcome = "rejected"
  BY <1>4 DEF EntryAudit
<1>5. CASE /\ e.kind = "execution" /\ e.outcome \in {"succeeded", "failed"}
           /\ execution[i] = e.outcome
           /\ e.requested = e.observed
           /\ e.observed = [kind |-> "execution", tx |-> t, execution |-> "unknown",
                            resolution |-> "reconciliation_required", revision |-> n]
  BY <1>5 DEF EntryAudit
<1>6. CASE /\ e.kind = "refund" /\ e.outcome \in {"refund_rejected", "refund_confirmed"}
           /\ \E k \in DOMAIN refunds[i] : \/ e.evidence = Absent(refunds[i][k].tx)
                                           \/ e.evidence = [kind |-> "refunded",
                                                            tx |-> refunds[i][k].tx]
  <2>1. \E k \in DOMAIN refunds[i] : refunds[i][k].tx = e.evidence.tx
    BY <1>6, EvidenceIsSome
  <2> QED BY <1>6, <2>1 DEF EntryAudit
<1> QED BY <1>1, <1>2, <1>3, <1>4, <1>5, <1>6 DEF EntrySound

LEMMA HistorySuffices ==
    ASSUME Inv, HistoryInv, OneOwner
    PROVE  HistoryRecomputes
<1>1. ASSUME NEW i \in Intents
      PROVE  /\ Cardinality(OpenIndexes(candidates[i])) <= 1
             /\ Cardinality(OpenIndexes(refunds[i])) <= 1
  <2>1. \A k \in DOMAIN candidates[i] : candidates[i][k].state \in Open => k = Len(candidates[i])
    BY OpenCandidate
  <2>2. \A k \in DOMAIN refunds[i] : refunds[i][k].state \in Open => k = Len(refunds[i])
    BY OpenRefund
  <2> QED BY <2>1, <2>2, OneOpen
<1>2. RowsAudit
  BY <1>1, PaymentRowRecomputes, RefundRowRecomputes DEF RowsAudit
<1>3. EntriesAudit
  BY EntryRecomputes DEF EntriesAudit
<1>4. TransactionsAudit
  BY OwnersSuffice
<1> QED BY <1>2, <1>3, <1>4 DEF HistoryRecomputes

\* Whatever operators, any number of them, name, abandon and resolve between two
\* startups, and wherever the process stops, the startup audit finds one owner of every
\* transaction, and in every row and every event the case hash it recomputes from the
\* rows in their order (verifyCandidateHistory, verifyReconciliationHistory).
THEOREM HistoryAlwaysRecomputes == Spec => []HistoryRecomputes
<1>1. Inv /\ HistoryInv /\ OneOwner => HistoryRecomputes
  BY HistorySuffices
<1> QED BY <1>1, HistoryInvariant, PTL

=============================================================================
