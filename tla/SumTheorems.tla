---------------------------- MODULE SumTheorems ----------------------------
(***************************************************************************)
(* The laws of SumFunctionOnSet over a finite set.  The ledger sums of the *)
(* Wallet Kernel and the statement sums of the award engine are written    *)
(* with it, and the ceilings are proved from these laws.                   *)
(*                                                                         *)
(* The library defines the sum by a recursive function on the subsets of   *)
(* its set, which picks one element after the other.  That such a function *)
(* exists, and that what it returns does not depend on the picks, is shown *)
(* with a smallest subset for which it would fail.                         *)
(***************************************************************************)
EXTENDS Functions, Integers, FiniteSetTheorems, TLAPS

LOCAL Sum(f, S) == SumFunctionOnSet(f, S)

LOCAL Pick(S) == CHOOSE x \in S : TRUE

\* g gives the sum of f over every subset of W, by the library's recursion.
LOCAL Sums(f, W, g) ==
    g = [s \in SUBSET W |-> IF s = {} THEN 0 ELSE f[Pick(s)] + g[s \ {Pick(s)}]]

LOCAL Iter(f, W) == CHOOSE g : Sums(f, W, g)

\* A set of subsets of a finite set has one without a proper subset in it.
LEMMA SmallestSubset ==
    ASSUME NEW S, IsFiniteSet(S), NEW B, B \subseteq SUBSET S, B # {}
    PROVE  \E T \in B : \A U \in SUBSET T : U # T => U \notin B
  <1>1. IsWellFoundedOn(StrictSubsetOrdering(S), SUBSET S)
    BY FS_StrictSubsetOrderingWellFounded, FS_FiniteSubsetsOfFinite
  <1>2. PICK T \in B : \A U \in B : <<U, T>> \notin StrictSubsetOrdering(S)
    BY <1>1, WFMin
  <1>3. ASSUME NEW U \in SUBSET T, U # T, U \in B
        PROVE  FALSE
    <2>1. <<U, T>> \in (SUBSET S) \X (SUBSET S)
      BY <1>3
    <2>2. <<U, T>>[1] \subseteq <<U, T>>[2] /\ <<U, T>>[1] # <<U, T>>[2]
      BY <1>3
    <2>3. <<U, T>> \in StrictSubsetOrdering(S)
      BY <2>1, <2>2 DEF StrictSubsetOrdering
    <2> QED
      BY <1>2, <1>3, <2>3
  <1> QED
    BY <1>2, <1>3

LEMMA PickIn ==
    ASSUME NEW S, S # {}
    PROVE  Pick(S) \in S
  BY DEF Pick

\* The recursion determines the sums: two functions that satisfy it agree on
\* every set that is in the domain of both.
LEMMA SumsAgree ==
    ASSUME NEW f, NEW V, NEW W, IsFiniteSet(V), NEW g, NEW h,
           Sums(f, V, g), Sums(f, W, h), NEW T \in SUBSET V, T \in SUBSET W
    PROVE  g[T] = h[T]
  <1> DEFINE Differ == {U \in SUBSET V : U \in SUBSET W /\ g[U] # h[U]}
  <1>1. SUFFICES ASSUME Differ # {}
                 PROVE  FALSE
    OBVIOUS
  <1>2. PICK U \in Differ : \A X \in SUBSET U : X # U => X \notin Differ
    <2> HIDE DEF Differ
    <2>1. Differ \subseteq SUBSET V
      BY DEF Differ
    <2> QED
      BY <1>1, <2>1, SmallestSubset
  <1>3. g[U] = IF U = {} THEN 0 ELSE f[Pick(U)] + g[U \ {Pick(U)}]
    BY Zenon, <1>2 DEF Sums
  <1>4. h[U] = IF U = {} THEN 0 ELSE f[Pick(U)] + h[U \ {Pick(U)}]
    BY Zenon, <1>2 DEF Sums
  <1>5. U # {}
    BY <1>2, <1>3, <1>4
  <1>6. U \ {Pick(U)} \in SUBSET U /\ U \ {Pick(U)} # U
    BY <1>5, PickIn
  <1>7. g[U \ {Pick(U)}] = h[U \ {Pick(U)}]
    BY <1>2, <1>6
  <1> QED
    BY <1>2, <1>3, <1>4, <1>5, <1>7

\* Such a function exists for a finite set, so Iter is one.
LEMMA SumsExist ==
    ASSUME NEW f, NEW S, IsFiniteSet(S)
    PROVE  Sums(f, S, Iter(f, S))
  <1> DEFINE Fails == {U \in SUBSET S : ~Sums(f, U, Iter(f, U))}
  <1>1. SUFFICES ASSUME Fails # {}
                 PROVE  FALSE
    OBVIOUS
  <1>2. PICK T \in Fails : \A U \in SUBSET T : U # T => U \notin Fails
    <2> HIDE DEF Fails
    <2>1. Fails \subseteq SUBSET S
      BY DEF Fails
    <2> QED
      BY <1>1, <2>1, SmallestSubset
  <1> DEFINE Value(u) == Iter(f, u)[u]
             H == [s \in SUBSET T |->
                     IF s = {} THEN 0 ELSE f[Pick(s)] + Value(s \ {Pick(s)})]
  <1>3. ASSUME NEW u \in SUBSET T, u # T
        PROVE  Sums(f, u, Iter(f, u))
    BY <1>2, <1>3
  <1>4. ASSUME NEW u \in SUBSET T, u # T
        PROVE  H[u] = Value(u)
    <2>1. Value(u) = IF u = {} THEN 0 ELSE f[Pick(u)] + Iter(f, u)[u \ {Pick(u)}]
      <3>1. Sums(f, u, Iter(f, u))
        BY <1>3, <1>4
      <3> DEFINE g == Iter(f, u)
      <3> HIDE DEF g
      <3>2. g = [s \in SUBSET u |-> IF s = {} THEN 0 ELSE f[Pick(s)] + g[s \ {Pick(s)}]]
        BY Zenon, <3>1 DEF Sums, g
      <3>3. g[u] = IF u = {} THEN 0 ELSE f[Pick(u)] + g[u \ {Pick(u)}]
        BY Zenon, <3>2
      <3> QED
        BY Zenon, <3>3 DEF g
    <2>2. CASE u = {}
      BY <2>1, <2>2
    <2>3. CASE u # {}
      <3> DEFINE v == u \ {Pick(u)}
      <3>1. v \in SUBSET u /\ v # u /\ v \in SUBSET T /\ v # T /\ v \in SUBSET v
        BY <2>3, PickIn
      <3>2. IsFiniteSet(u)
        BY <1>2, FS_Subset
      <3>3. Iter(f, u)[v] = Iter(f, v)[v]
        <4>1. Sums(f, u, Iter(f, u)) /\ Sums(f, v, Iter(f, v))
          BY <1>3, <1>4, <3>1
        <4> HIDE DEF v
        <4> QED
          BY <3>1, <3>2, <4>1, SumsAgree
      <3> QED
        BY <2>1, <2>3, <3>3
    <2> QED
      BY <2>2, <2>3
  <1>5. Sums(f, T, H)
    <2>1. ASSUME NEW s \in SUBSET T, s # {}
          PROVE  Value(s \ {Pick(s)}) = H[s \ {Pick(s)}]
      <3>1. s \ {Pick(s)} \in SUBSET T /\ s \ {Pick(s)} # T
        BY <2>1, PickIn
      <3> HIDE DEF H, Value
      <3> QED
        BY <1>4, <3>1
    <2>2. H = [s \in SUBSET T |-> IF s = {} THEN 0 ELSE f[Pick(s)] + H[s \ {Pick(s)}]]
      <3> HIDE DEF Value
      <3> DEFINE G == [s \in SUBSET T |-> IF s = {} THEN 0 ELSE f[Pick(s)] + H[s \ {Pick(s)}]]
      <3>1. \A s \in SUBSET T : H[s] = G[s]
        BY <2>1
      <3> QED
        BY <3>1
    <2> QED
      BY Zenon, <2>2 DEF Sums
  <1>6. Sums(f, T, Iter(f, T))
    <2> HIDE DEF H
    <2> QED
      BY Zenon, <1>5 DEF Iter
  <1> QED
    BY <1>2, <1>6

\* The recursion of the sum: nothing over the empty set, else one element more.
LEMMA SumUnfold ==
    ASSUME NEW f, NEW S, IsFiniteSet(S)
    PROVE  SumFunctionOnSet(f, S) =
             IF S = {} THEN 0
             ELSE f[CHOOSE x \in S : TRUE]
                    + SumFunctionOnSet(f, S \ {CHOOSE x \in S : TRUE})
  <1>1. ASSUME NEW W
        PROVE  SumFunctionOnSet(f, W) = Iter(f, W)[W]
    BY Zenon DEF SumFunctionOnSet, FoldFunctionOnSet, MapThenFoldSet, Iter, Sums, Pick
  <1> DEFINE v == S \ {Pick(S)}
  <1>2. IsFiniteSet(v) /\ v \in SUBSET S /\ v \in SUBSET v
    BY FS_Subset
  <1>3. Iter(f, S)[v] = Iter(f, v)[v]
    <2>1. Sums(f, S, Iter(f, S)) /\ Sums(f, v, Iter(f, v))
      BY <1>2, SumsExist
    <2>2. v \in SUBSET S /\ v \in SUBSET v
      BY <1>2
    <2> HIDE DEF v
    <2> QED
      BY <2>1, <2>2, SumsAgree
  <1>4. Iter(f, S)[S] = IF S = {} THEN 0 ELSE f[Pick(S)] + Iter(f, S)[v]
    <2> DEFINE g == Iter(f, S)
    <2>1. Sums(f, S, g)
      BY SumsExist
    <2> HIDE DEF g
    <2>2. g[S] = IF S = {} THEN 0 ELSE f[Pick(S)] + g[S \ {Pick(S)}]
      BY Zenon, <2>1 DEF Sums
    <2> QED
      BY Zenon, <2>2 DEF g
  <1> QED
    BY Zenon, <1>1, <1>3, <1>4 DEF Pick

\* The sum of natural numbers is one, and of integers an integer.
LEMMA SumNat ==
    ASSUME NEW f, NEW S, IsFiniteSet(S), \A x \in S : f[x] \in Nat
    PROVE  SumFunctionOnSet(f, S) \in Nat
  <1> DEFINE Fails == {U \in SUBSET S : SumFunctionOnSet(f, U) \notin Nat}
  <1>1. SUFFICES ASSUME Fails # {}
                 PROVE  FALSE
    OBVIOUS
  <1>2. PICK T \in Fails : \A U \in SUBSET T : U # T => U \notin Fails
    <2> HIDE DEF Fails
    <2>1. Fails \subseteq SUBSET S
      BY DEF Fails
    <2> QED
      BY <1>1, <2>1, SmallestSubset
  <1> DEFINE p == CHOOSE x \in T : TRUE
  <1>3. SumFunctionOnSet(f, T) =
          IF T = {} THEN 0 ELSE f[p] + SumFunctionOnSet(f, T \ {p})
    BY <1>2, FS_Subset, SumUnfold
  <1>4. CASE T = {}
    BY <1>2, <1>3, <1>4
  <1>5. CASE T # {}
    <2>1. p \in T
      BY <1>5
    <2> HIDE DEF p
    <2>2. SumFunctionOnSet(f, T \ {p}) \in Nat
      BY <1>2, <2>1
    <2> QED
      BY <1>2, <1>3, <1>5, <2>1, <2>2
  <1> QED
    BY <1>4, <1>5

LEMMA SumInt ==
    ASSUME NEW f, NEW S, IsFiniteSet(S), \A x \in S : f[x] \in Int
    PROVE  SumFunctionOnSet(f, S) \in Int
  <1> DEFINE Fails == {U \in SUBSET S : SumFunctionOnSet(f, U) \notin Int}
  <1>1. SUFFICES ASSUME Fails # {}
                 PROVE  FALSE
    OBVIOUS
  <1>2. PICK T \in Fails : \A U \in SUBSET T : U # T => U \notin Fails
    <2> HIDE DEF Fails
    <2>1. Fails \subseteq SUBSET S
      BY DEF Fails
    <2> QED
      BY <1>1, <2>1, SmallestSubset
  <1> DEFINE p == CHOOSE x \in T : TRUE
  <1>3. SumFunctionOnSet(f, T) =
          IF T = {} THEN 0 ELSE f[p] + SumFunctionOnSet(f, T \ {p})
    BY <1>2, FS_Subset, SumUnfold
  <1>4. CASE T = {}
    BY <1>2, <1>3, <1>4
  <1>5. CASE T # {}
    <2>1. p \in T
      BY <1>5
    <2> HIDE DEF p
    <2>2. SumFunctionOnSet(f, T \ {p}) \in Int
      BY <1>2, <2>1
    <2> QED
      BY <1>2, <1>3, <1>5, <2>1, <2>2
  <1> QED
    BY <1>4, <1>5

\* The sum does not depend on the order of the picks: any element may come first.
LEMMA SumRemove ==
    ASSUME NEW f, NEW S, IsFiniteSet(S), \A x \in S : f[x] \in Int, NEW a \in S
    PROVE  SumFunctionOnSet(f, S) = f[a] + SumFunctionOnSet(f, S \ {a})
  <1> DEFINE Fails == {U \in SUBSET S : \E x \in U :
                         SumFunctionOnSet(f, U) # f[x] + SumFunctionOnSet(f, U \ {x})}
  <1>1. SUFFICES ASSUME Fails # {}
                 PROVE  FALSE
    OBVIOUS
  <1>2. PICK T \in Fails : \A U \in SUBSET T : U # T => U \notin Fails
    <2> HIDE DEF Fails
    <2>1. Fails \subseteq SUBSET S
      BY DEF Fails
    <2> QED
      BY <1>1, <2>1, SmallestSubset
  <1>3. PICK b \in T : SumFunctionOnSet(f, T) # f[b] + SumFunctionOnSet(f, T \ {b})
    BY <1>2
  <1> DEFINE p == CHOOSE x \in T : TRUE
  <1>4. SumFunctionOnSet(f, T) = f[p] + SumFunctionOnSet(f, T \ {p})
    BY <1>2, <1>3, FS_Subset, SumUnfold
  <1>5. p \in T /\ p # b
    BY <1>3, <1>4
  <1> HIDE DEF p
  <1>6. SumFunctionOnSet(f, T \ {p}) = f[b] + SumFunctionOnSet(f, (T \ {p}) \ {b})
    BY <1>2, <1>3, <1>5
  <1>7. SumFunctionOnSet(f, T \ {b}) = f[p] + SumFunctionOnSet(f, (T \ {b}) \ {p})
    BY <1>2, <1>3, <1>5
  <1>8. (T \ {p}) \ {b} = (T \ {b}) \ {p}
    OBVIOUS
  <1>9. f[b] \in Int /\ f[p] \in Int /\ SumFunctionOnSet(f, (T \ {p}) \ {b}) \in Int
    BY <1>2, <1>3, <1>5, FS_Subset, SumInt
  <1> DEFINE rest == SumFunctionOnSet(f, (T \ {p}) \ {b})
  <1>10. /\ SumFunctionOnSet(f, T) = f[p] + (f[b] + rest)
         /\ f[b] + SumFunctionOnSet(f, T \ {b}) = f[b] + (f[p] + rest)
    BY <1>4, <1>6, <1>7, <1>8
  <1>11. f[b] \in Int /\ f[p] \in Int /\ rest \in Int
    BY <1>9
  <1> HIDE DEF rest, Fails
  <1>12. \A u, v, w \in Int : u + (v + w) = v + (u + w)
    OBVIOUS
  <1> QED
    BY <1>3, <1>10, <1>11, <1>12

LEMMA SumEmpty ==
    ASSUME NEW f
    PROVE  SumFunctionOnSet(f, {}) = 0
  BY FS_EmptySet, SumUnfold

\* One element more.
LEMMA SumAdd ==
    ASSUME NEW f, NEW S, IsFiniteSet(S), NEW a, a \notin S,
           \A x \in S \cup {a} : f[x] \in Int
    PROVE  SumFunctionOnSet(f, S \cup {a}) = f[a] + SumFunctionOnSet(f, S)
  <1>1. IsFiniteSet(S \cup {a})
    BY FS_AddElement
  <1>2. (S \cup {a}) \ {a} = S
    OBVIOUS
  <1>3. SumFunctionOnSet(f, S \cup {a}) = f[a] + SumFunctionOnSet(f, (S \cup {a}) \ {a})
    BY <1>1, SumRemove
  <1> QED
    BY <1>2, <1>3

\* The sum of natural numbers over a part is at most the sum over the whole.
LEMMA SumMonotone ==
    ASSUME NEW f, NEW S, IsFiniteSet(S), \A x \in S : f[x] \in Nat, NEW T \in SUBSET S
    PROVE  SumFunctionOnSet(f, T) <= SumFunctionOnSet(f, S)
  <1> DEFINE Fails == {U \in SUBSET S : \E V \in SUBSET U :
                         ~(SumFunctionOnSet(f, V) <= SumFunctionOnSet(f, U))}
  <1>1. SUFFICES ASSUME Fails # {}
                 PROVE  FALSE
    OBVIOUS
  <1>2. PICK U \in Fails : \A X \in SUBSET U : X # U => X \notin Fails
    <2> HIDE DEF Fails
    <2>1. Fails \subseteq SUBSET S
      BY DEF Fails
    <2> QED
      BY <1>1, <2>1, SmallestSubset
  <1>3. PICK V \in SUBSET U : ~(SumFunctionOnSet(f, V) <= SumFunctionOnSet(f, U))
    BY <1>2
  <1>4. IsFiniteSet(U) /\ SumFunctionOnSet(f, U) \in Nat
    BY <1>2, FS_Subset, SumNat
  <1>5. PICK a \in U : a \notin V
    BY <1>3, <1>4
  <1>6. SumFunctionOnSet(f, V) <= SumFunctionOnSet(f, U \ {a})
    <2>1. U \ {a} \in SUBSET U /\ U \ {a} # U /\ V \in SUBSET (U \ {a})
      BY <1>5
    <2> QED
      BY <1>2, <2>1
  <1>7. SumFunctionOnSet(f, U) = f[a] + SumFunctionOnSet(f, U \ {a})
    BY <1>2, <1>4, <1>5, SumRemove
  <1>8. IsFiniteSet(U \ {a}) /\ IsFiniteSet(V)
    BY <1>4, FS_Subset
  <1>9. SumFunctionOnSet(f, U \ {a}) \in Nat /\ SumFunctionOnSet(f, V) \in Nat /\ f[a] \in Nat
    BY <1>2, <1>5, <1>8, SumNat
  <1> QED
    BY <1>3, <1>6, <1>7, <1>9

\* Functions that agree on a set have one sum over it.
LEMMA SumSame ==
    ASSUME NEW f, NEW g, NEW S, IsFiniteSet(S), \A x \in S : f[x] = g[x]
    PROVE  SumFunctionOnSet(f, S) = SumFunctionOnSet(g, S)
  <1> DEFINE Fails == {U \in SUBSET S : SumFunctionOnSet(f, U) # SumFunctionOnSet(g, U)}
  <1>1. SUFFICES ASSUME Fails # {}
                 PROVE  FALSE
    OBVIOUS
  <1>2. PICK T \in Fails : \A U \in SUBSET T : U # T => U \notin Fails
    <2> HIDE DEF Fails
    <2>1. Fails \subseteq SUBSET S
      BY DEF Fails
    <2> QED
      BY <1>1, <2>1, SmallestSubset
  <1> DEFINE p == CHOOSE x \in T : TRUE
  <1>3. /\ SumFunctionOnSet(f, T) =
             IF T = {} THEN 0 ELSE f[p] + SumFunctionOnSet(f, T \ {p})
        /\ SumFunctionOnSet(g, T) =
             IF T = {} THEN 0 ELSE g[p] + SumFunctionOnSet(g, T \ {p})
    BY <1>2, FS_Subset, SumUnfold
  <1>4. T # {}
    BY <1>2, <1>3
  <1>5. p \in T
    BY <1>4
  <1> HIDE DEF p
  <1>6. SumFunctionOnSet(f, T \ {p}) = SumFunctionOnSet(g, T \ {p})
    BY <1>2, <1>5
  <1>7. f[p] = g[p]
    BY <1>2, <1>5
  <1> QED
    BY <1>2, <1>3, <1>4, <1>6, <1>7

\* The sum of sums: two functions are added element by element.
LEMMA SumPlus ==
    ASSUME NEW f, NEW g, NEW h, NEW S, IsFiniteSet(S),
           \A x \in S : f[x] \in Int /\ g[x] \in Int /\ h[x] = f[x] + g[x]
    PROVE  SumFunctionOnSet(h, S) = SumFunctionOnSet(f, S) + SumFunctionOnSet(g, S)
  <1> DEFINE Fails == {U \in SUBSET S : SumFunctionOnSet(h, U)
                                          # SumFunctionOnSet(f, U) + SumFunctionOnSet(g, U)}
  <1>1. SUFFICES ASSUME Fails # {}
                 PROVE  FALSE
    OBVIOUS
  <1>2. PICK T \in Fails : \A U \in SUBSET T : U # T => U \notin Fails
    <2> HIDE DEF Fails
    <2>1. Fails \subseteq SUBSET S
      BY DEF Fails
    <2> QED
      BY <1>1, <2>1, SmallestSubset
  <1>3. IsFiniteSet(T)
    BY <1>2, FS_Subset
  <1>4. CASE T = {}
    <2>1. SumFunctionOnSet(f, T) = 0 /\ SumFunctionOnSet(g, T) = 0 /\ SumFunctionOnSet(h, T) = 0
      BY <1>4, SumEmpty
    <2> QED
      BY <1>2, <2>1
  <1>5. CASE T # {}
    <2>1. PICK a \in T : TRUE
      BY <1>5
    <2> DEFINE U == T \ {a}
    <2>2. SumFunctionOnSet(h, U) = SumFunctionOnSet(f, U) + SumFunctionOnSet(g, U)
      BY <1>2, <2>1
    <2>3. f[a] \in Int /\ g[a] \in Int /\ h[a] = f[a] + g[a]
      BY <1>2
    <2>4. /\ SumFunctionOnSet(f, T) = f[a] + SumFunctionOnSet(f, U)
          /\ SumFunctionOnSet(g, T) = g[a] + SumFunctionOnSet(g, U)
          /\ SumFunctionOnSet(h, T) = h[a] + SumFunctionOnSet(h, U)
      BY <1>2, <1>3, SumRemove
    <2>5. IsFiniteSet(U)
      BY <1>3, FS_Subset
    <2>6. SumFunctionOnSet(f, U) \in Int /\ SumFunctionOnSet(g, U) \in Int
      BY <1>2, <2>5, SumInt
    <2>7. SumFunctionOnSet(h, T) # SumFunctionOnSet(f, T) + SumFunctionOnSet(g, T)
      BY <1>2
    <2> HIDE DEF U, Fails
    <2> QED
      BY <2>2, <2>3, <2>4, <2>6, <2>7
  <1> QED
    BY <1>4, <1>5

\* The sum of a constant counts the elements.
LEMMA SumConstant ==
    ASSUME NEW f, NEW c \in Int, NEW S, IsFiniteSet(S), \A x \in S : f[x] = c
    PROVE  SumFunctionOnSet(f, S) = Cardinality(S) * c
  <1> DEFINE Fails == {U \in SUBSET S : SumFunctionOnSet(f, U) # Cardinality(U) * c}
  <1>1. SUFFICES ASSUME Fails # {}
                 PROVE  FALSE
    OBVIOUS
  <1>2. PICK T \in Fails : \A U \in SUBSET T : U # T => U \notin Fails
    <2> HIDE DEF Fails
    <2>1. Fails \subseteq SUBSET S
      BY DEF Fails
    <2> QED
      BY <1>1, <2>1, SmallestSubset
  <1>3. IsFiniteSet(T)
    BY <1>2, FS_Subset
  <1>4. CASE T = {}
    <2>1. SumFunctionOnSet(f, T) = 0 /\ Cardinality(T) = 0
      BY <1>4, SumEmpty, FS_EmptySet
    <2> QED
      BY <1>2, <2>1
  <1>5. CASE T # {}
    <2>1. PICK a \in T : TRUE
      BY <1>5
    <2> DEFINE U == T \ {a}
               m == Cardinality(U)
    <2>2. SumFunctionOnSet(f, U) = m * c
      BY <1>2, <2>1
    <2>3. f[a] = c
      BY <1>2
    <2>4. SumFunctionOnSet(f, T) = f[a] + SumFunctionOnSet(f, U)
      BY <1>2, <1>3, SumRemove
    <2>5. IsFiniteSet(U)
      BY <1>3, FS_Subset
    <2>6. Cardinality(T) = m + 1 /\ m \in Nat
      BY <1>3, <2>5, FS_RemoveElement, FS_CardinalityType
    <2>7. SumFunctionOnSet(f, T) # Cardinality(T) * c
      BY <1>2
    <2>8. (m + 1) * c = c + m * c
      <3> HIDE DEF m
      <3> QED BY <2>6
    <2> HIDE DEF U, Fails, m
    <2> QED
      BY <2>2, <2>3, <2>4, <2>6, <2>7, <2>8
  <1> QED
    BY <1>4, <1>5

\* Elements that add nothing may be left out.
LEMMA SumZeros ==
    ASSUME NEW f, NEW S, IsFiniteSet(S), NEW T \in SUBSET S,
           \A x \in S : f[x] \in Int, \A x \in S \ T : f[x] = 0
    PROVE  SumFunctionOnSet(f, S) = SumFunctionOnSet(f, T)
  <1> DEFINE Fails == {U \in SUBSET S : /\ T \subseteq U
                                        /\ SumFunctionOnSet(f, U) # SumFunctionOnSet(f, T)}
  <1>1. SUFFICES ASSUME Fails # {}
                 PROVE  FALSE
    OBVIOUS
  <1>2. PICK U \in Fails : \A X \in SUBSET U : X # U => X \notin Fails
    <2> HIDE DEF Fails
    <2>1. Fails \subseteq SUBSET S
      BY DEF Fails
    <2> QED
      BY <1>1, <2>1, SmallestSubset
  <1>3. PICK a \in U : a \notin T
    BY <1>2
  <1>4. IsFiniteSet(U) /\ IsFiniteSet(U \ {a})
    BY <1>2, FS_Subset
  <1>5. SumFunctionOnSet(f, U) = f[a] + SumFunctionOnSet(f, U \ {a})
    BY <1>2, <1>4, SumRemove
  <1>6. SumFunctionOnSet(f, U \ {a}) = SumFunctionOnSet(f, T)
    BY <1>2, <1>3
  <1>7. f[a] = 0 /\ SumFunctionOnSet(f, U \ {a}) \in Int
    BY <1>2, <1>3, <1>4, SumInt
  <1> QED
    BY <1>2, <1>5, <1>6, <1>7

\* A function that is nowhere larger has no larger sum.
LEMMA SumOrder ==
    ASSUME NEW f, NEW g, NEW S, IsFiniteSet(S),
           \A x \in S : f[x] \in Int /\ g[x] \in Int /\ f[x] <= g[x]
    PROVE  SumFunctionOnSet(f, S) <= SumFunctionOnSet(g, S)
  <1> DEFINE d == [x \in S |-> g[x] - f[x]]
  <1>1. \A x \in S : d[x] \in Nat /\ g[x] = f[x] + d[x]
    OBVIOUS
  <1> HIDE DEF d
  <1>2. SumFunctionOnSet(g, S) = SumFunctionOnSet(f, S) + SumFunctionOnSet(d, S)
    BY <1>1, SumPlus
  <1>3. SumFunctionOnSet(d, S) \in Nat /\ SumFunctionOnSet(f, S) \in Int
    BY <1>1, SumNat, SumInt
  <1> QED
    BY <1>2, <1>3
=============================================================================
