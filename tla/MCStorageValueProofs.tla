---- MODULE MCStorageValueProofs ----
(***************************************************************************)
(* What LREM and INCRBY must do to a value, for integers of any width and  *)
(* lists of any length.                                                    *)
(***************************************************************************)
EXTENDS MCStorageValue, StorageValueProofs, FiniteSetTheorems

-----------------------------------------------------------------------------
(* DECRBY and INCRBY *)

Number(x) == String(TextOf(x))

\* DECRBY on a number within the width leaves the difference, wrapped.
LEMMA DecrbyOfNumber ==
    ASSUME NEW x \in Int, InRange(x), NEW n \in Int
    PROVE  decrby(Number(x), n).value = Number(Wrap(x - n))
<1>1. Number(x).type = "String" /\ Number(x).string = TextOf(x)
  BY DEF Number, String
<1>2. TextOf(x) \in Texts
  BY TextOfType
<1>3. Number(x) # Absent
  BY <1>2, ValueTypes, AbsentAssumption DEF Number
<1>4. IsInteger(TextOf(x)) /\ NumberOf(TextOf(x)) = x
  BY ReadBack DEF IsInteger
<1>5. decrby(Number(x), n).value = String(TextOf(Wrap(x - n)))
  <2> DEFINE v == Number(x)
  <2>1. v # Absent /\ v.type = "String" /\ v.string = TextOf(x)
    BY <1>1, <1>3
  <2> HIDE DEF v
  <2>2. decrby(v, n) = Leaves(String(TextOf(Wrap(x - n))), Integer(Wrap(x - n)))
    BY <1>4, <2>1 DEF decrby
  <2> QED BY <2>2 DEF Leaves, v
<1> QED BY <1>5 DEF Number

\* Taking an amount away and adding it gives the number back, however the
\* difference and the negated amount wrap.
LEMMA WrapCancels ==
    ASSUME NEW x \in Int, InRange(x), NEW n \in Int, InRange(n)
    PROVE  Wrap(Wrap(x - n) - Wrap(-n)) = x
<1> DEFINE w == 2 * (MaxInt + 1)
<1>1. MaxInt \in Nat \ {0}
  BY IntAssumption
<1>2. \A y \in Int : InRange(y) => Wrap(y) = y /\ Wrap(y + w) = y /\ Wrap(y - w) = y
  BY WrapNear
<1>3. w \in Int
  BY <1>1
<1>4. PICK y \in Int : InRange(y) /\ Wrap(x - n) = y /\ y - (x - n) \in {0, w, -w}
                                 /\ (y - (x - n) = w => n > 0)
  <2>1. CASE InRange(x - n)
    <3> DEFINE y == x - n
    <3>1. y \in Int /\ y - (x - n) = 0 /\ w # 0 /\ y = x - n
      BY <1>1
    <3>2. InRange(y)
      BY <2>1
    <3> HIDE DEF y, w
    <3>3. Wrap(y) = y
      BY <3>1, <3>2, <1>2
    <3> QED BY <3>1, <3>2, <3>3
  <2>2. CASE x - n > MaxInt
    <3> DEFINE y == (x - n) - w
    <3>1. y \in Int /\ y + w = x - n /\ y - (x - n) = -w /\ w # -w
      BY <1>1, <1>3
    <3>2. InRange(y)
      BY <1>1, <2>2 DEF InRange
    <3> HIDE DEF y, w
    <3> QED BY <3>1, <3>2, <1>2
  <2>3. CASE x - n < -MaxInt - 1
    <3> DEFINE y == (x - n) + w
    <3>1. y \in Int /\ y - w = x - n /\ y - (x - n) = w /\ n > 0
      BY <1>1, <1>3, <2>3 DEF InRange
    <3>2. InRange(y)
      BY <1>1, <2>3 DEF InRange
    <3> HIDE DEF y, w
    <3> QED BY <3>1, <3>2, <1>2
  <2> QED BY <1>1, <2>1, <2>2, <2>3 DEF InRange
<1>5. PICK m \in Int : Wrap(-n) = m /\ m + n \in {0, -w} /\ (m + n = -w => n < 0)
  <2>1. CASE InRange(-n)
    <3> DEFINE m == -n
    <3>1. m \in Int /\ m + n = 0 /\ w \in Int /\ w > 0 /\ m = -n
      BY <1>1
    <3>2. InRange(m)
      BY <2>1
    <3> HIDE DEF m, w
    <3>3. Wrap(m) = m
      BY <3>1, <3>2, <1>2
    <3>4. Wrap(-n) = m
      BY <3>1, <3>3, Zenon
    <3>5. m + n \in {0, -w} /\ (m + n = -w => n < 0)
      BY <3>1
    <3> QED BY <3>1, <3>4, <3>5
  <2>2. CASE ~InRange(-n)
    <3> DEFINE m == -n - w
    <3>1. m \in Int /\ m + w = -n /\ m + n = -w /\ n < 0
      BY <1>1, <1>3, <2>2 DEF InRange
    <3>2. InRange(m)
      BY <1>1, <2>2 DEF InRange
    <3> HIDE DEF m, w
    <3> QED BY <3>1, <3>2, <1>2
  <2> QED BY <2>1, <2>2
<1>6. y - m = x \/ y - m = x + w \/ y - m = x - w
  <2>1. w \in Int /\ w > 0
    BY <1>1
  <2> HIDE DEF w
  <2> QED BY <2>1, <1>4, <1>5
<1> QED BY <1>2, <1>4, <1>5, <1>6

LEMMA NumberType ==
    ASSUME NEW x \in Int
    PROVE  Number(x) \in StorageValues /\ Number(x).type = "String"
BY TextOfType, ValueTypes DEF Number, String

-----------------------------------------------------------------------------
(* The inductive invariant: a string is always a number within the width *)

Numeric(v) == v.type = "String" => \E x \in Int : InRange(x) /\ v = Number(x)

VInv == value \in StorageValues /\ Numeric(value)

\* Of the commands only DECRBY and INCRBY make strings.
LEMMA OtherTypesLeft ==
    ASSUME NEW v, NEW t, NEW texts, NEW n,
           NEW r \in {lpush_one(v, t), rpush(v, texts), lpushx(v, texts), rpushx(v, texts),
                      sadd_one(v, t), srem(v, texts), lset(v, n, t), lpop(v), rpop(v), lrem(v, n, t)}
    PROVE  r.value = v \/ r.value.type \in {"List", "Set"}
<1>1. CASE r = lpush_one(v, t)
  BY <1>1 DEF lpush_one, Pushed, Leaves, List
<1>2. CASE r = rpush(v, texts)
  BY <1>2 DEF rpush, Pushed, Leaves, List
<1>3. CASE r = lpushx(v, texts)
  BY <1>3 DEF lpushx, Pushed, NotAList, Leaves, List
<1>4. CASE r = rpushx(v, texts)
  BY <1>4 DEF rpushx, Pushed, NotAList, Leaves, List
<1>5. CASE r = sadd_one(v, t)
  BY <1>5 DEF sadd_one, Leaves, Set
<1>6. CASE r = srem(v, texts)
  BY <1>6 DEF srem, NotASet, Leaves, Set
<1>7. CASE r = lset(v, n, t)
  BY <1>7 DEF lset, NotAList, Leaves, List
<1>8. CASE r = lpop(v)
  BY <1>8 DEF lpop, NotAList, Leaves, List
<1>9. CASE r = rpop(v)
  BY <1>9 DEF rpop, NotAList, Leaves, List
<1>10. CASE r = lrem(v, n, t)
  BY <1>10 DEF lrem, NotAList, Leaves, List
<1> QED BY <1>1, <1>2, <1>3, <1>4, <1>5, <1>6, <1>7, <1>8, <1>9, <1>10

LEMMA DecrbyKeeps ==
    ASSUME NEW v \in StorageValues, Numeric(v), NEW n \in Int
    PROVE  decrby(v, n).value \in StorageValues /\ Numeric(decrby(v, n).value)
<1>1. CASE v.type = "String"
  <2>1. PICK x \in Int : InRange(x) /\ v = Number(x)
    BY <1>1 DEF Numeric
  <2>2. decrby(v, n).value = Number(Wrap(x - n))
    BY <2>1, DecrbyOfNumber
  <2>3. Wrap(x - n) \in Int /\ InRange(Wrap(x - n))
    BY <2>1, WrapType
  <2> QED BY <2>2, <2>3, NumberType DEF Numeric
<1>2. CASE v.type # "String"
  <2>1. decrby(v, n).value = v
    BY <1>2 DEF decrby, Leaves
  <2> QED BY <2>1
<1> QED BY <1>1, <1>2

LEMMA IntAmounts ==
    /\ Amounts \subseteq Int /\ Counts \subseteq Int
    /\ \A n \in Amounts : InRange(n) /\ -n \in Int /\ Wrap(-n) \in Int
<1>1. MaxInt \in Nat /\ MaxLength \in Nat
  BY IntAssumption, ElementsAssumption
<1>2. \A n \in Amounts : n \in Int /\ -n \in Int /\ InRange(n)
  BY <1>1 DEF Amounts, InRange
<1>3. \A n \in Amounts : Wrap(-n) \in Int
  BY <1>2, WrapType
<1>4. Counts \subseteq Int
  BY <1>1 DEF Counts
<1> QED BY <1>2, <1>3, <1>4

LEMMA ChangeKeeps ==
    ASSUME NEW v \in StorageValues, Numeric(v), NEW change \in Changes(v)
    PROVE  change.value \in StorageValues /\ Numeric(change.value)
<1>0. v \in Cells /\ Elements \subseteq Texts /\ \A t \in Texts : <<t>> \in Seq(Texts) /\ <<t, t>> \in Seq(Texts)
  BY ElementsAssumption DEF Cells
<1>1. ASSUME change.value \in StorageValues \cup {v},
             change.value = v \/ change.value.type \in {"List", "Set"}
      PROVE  change.value \in StorageValues /\ Numeric(change.value)
  BY <1>1 DEF Numeric
<1>2. ASSUME NEW t \in Elements, change \in {lpush_one(v, t), rpush(v, <<t, t>>), lpushx(v, <<t>>),
                                             rpushx(v, <<t>>), sadd_one(v, t), srem(v, <<t>>),
                                             lset(v, 0, t)}
      PROVE  change.value \in StorageValues \cup {v}
  <2>1. t \in Texts /\ <<t>> \in Seq(Texts) /\ <<t, t>> \in Seq(Texts) /\ 0 \in Nat
    BY <1>0
  <2>2. CASE change \in {lpush_one(v, t), rpush(v, <<t, t>>), lpushx(v, <<t>>), rpushx(v, <<t>>)}
    BY <1>0, <2>1, <2>2, PushLeaves
  <2>3. CASE change \in {sadd_one(v, t), srem(v, <<t>>)}
    BY <1>0, <2>1, <2>3, SetLeaves
  <2>4. CASE change = lset(v, 0, t)
    BY <1>0, <2>1, <2>4, LsetLeaves
  <2> QED BY <1>2, <2>2, <2>3, <2>4
<1>3. ASSUME NEW t \in Elements, change \in {lpush_one(v, t), rpush(v, <<t, t>>), lpushx(v, <<t>>),
                                             rpushx(v, <<t>>), sadd_one(v, t), srem(v, <<t>>),
                                             lset(v, 0, t)}
      PROVE  change.value = v \/ change.value.type \in {"List", "Set"}
  BY <1>3, OtherTypesLeft
<1>4. CASE change \in {lpop(v), rpop(v)}
  <2>1. change.value \in StorageValues \cup {v}
    BY <1>0, <1>4, PopLeaves
  <2>2. change.value = v \/ change.value.type \in {"List", "Set"}
    BY <1>4, OtherTypesLeft
  <2> QED BY <1>1, <2>1, <2>2
<1>5. ASSUME NEW n \in Counts, NEW t \in Elements, change = lrem(v, n, t)
      PROVE  change.value \in StorageValues /\ Numeric(change.value)
  <2>1. change.value \in StorageValues \cup {v}
    BY <1>0, <1>5, LremLeaves, IntAmounts
  <2>2. change.value = v \/ change.value.type \in {"List", "Set"}
    BY <1>5, OtherTypesLeft
  <2> QED BY <1>1, <2>1, <2>2
<1>6. ASSUME NEW n \in Amounts, change \in {decrby(v, n), incrby(v, n)}
      PROVE  change.value \in StorageValues /\ Numeric(change.value)
  BY <1>6, DecrbyKeeps, IntAmounts DEF incrby
<1>7. \/ \E t \in Elements : change \in {lpush_one(v, t), rpush(v, <<t, t>>), lpushx(v, <<t>>),
                                           rpushx(v, <<t>>), sadd_one(v, t), srem(v, <<t>>),
                                           lset(v, 0, t)}
      \/ change \in {lpop(v), rpop(v)}
      \/ \E n \in Counts, t \in Elements : change = lrem(v, n, t)
      \/ \E n \in Amounts : change \in {decrby(v, n), incrby(v, n)}
  <2> DEFINE Each(t) == {lpush_one(v, t), rpush(v, <<t, t>>), lpushx(v, <<t>>),
                         rpushx(v, <<t>>), sadd_one(v, t), srem(v, <<t>>), lset(v, 0, t)}
  <2> DEFINE Pops == {lpop(v), rpop(v)}
             Less == {decrby(v, n) : n \in Amounts}
             More == {incrby(v, n) : n \in Amounts}
             Removals == {lrem(v, n, t) : n \in Counts, t \in Elements}
             Others == UNION {Each(t) : t \in Elements}
  <2>1. change \in Pops \/ change \in Less \/ change \in More \/ change \in Removals \/ change \in Others
    <3>1. Changes(v) = Pops \cup Less \cup More \cup Removals \cup Others
      BY DEF Changes
    <3> HIDE DEF Pops, Less, More, Removals, Others
    <3> QED BY <3>1
  <2>2. change \in Others => \E t \in Elements : change \in Each(t)
    <3> HIDE DEF Each
    <3> QED OBVIOUS
  <2>3. change \in Less => \E n \in Amounts : change = decrby(v, n)
    OBVIOUS
  <2>4. change \in More => \E n \in Amounts : change = incrby(v, n)
    OBVIOUS
  <2>5. change \in Removals => \E n \in Counts, t \in Elements : change = lrem(v, n, t)
    OBVIOUS
  <2> HIDE DEF Less, More, Removals, Others
  <2> QED BY <2>1, <2>2, <2>3, <2>4, <2>5
<1> QED BY <1>1, <1>2, <1>3, <1>4, <1>5, <1>6, <1>7, Zenon

LEMMA VInvInductive ==
    VSpec => []VInv
<1>1. VInit => VInv
  <2>1. Number(0) \in StorageValues /\ InRange(0)
    BY NumberType, IntAssumption DEF InRange
  <2>2. List(<<>>) \in StorageValues /\ Set({}) \in StorageValues
    <3>1. <<>> \in Seq(Texts) /\ {} \in SUBSET Texts
      OBVIOUS
    <3> QED BY <3>1, ValueTypes
  <2>3. List(<<>>).type # "String" /\ Set({}).type # "String"
    BY DEF List, Set
  <2> SUFFICES ASSUME VInit PROVE VInv
    OBVIOUS
  <2>4. CASE value = String(TextOf(0))
    <3>1. value = Number(0) /\ 0 \in Int
      BY <2>4 DEF Number
    <3> QED BY <3>1, <2>1 DEF VInv, Numeric
  <2>5. CASE value = List(<<>>) \/ value = Set({})
    BY <2>2, <2>3, <2>5 DEF VInv, Numeric
  <2> QED BY <2>4, <2>5 DEF VInit
<1>2. VInv /\ [VNext]_value => VInv'
  <2> SUFFICES ASSUME VInv, [VNext]_value PROVE VInv'
    OBVIOUS
  <2>1. CASE VNext
    <3>1. PICK change \in Changes(value) : value' = change.value
      BY <2>1 DEF VNext
    <3>2. change.value \in StorageValues /\ Numeric(change.value)
      BY ChangeKeeps DEF VInv
    <3> QED BY <3>1, <3>2 DEF VInv, Numeric
  <2>2. CASE UNCHANGED value
    BY <2>2 DEF VInv, Numeric
  <2> QED BY <2>1, <2>2
<1> QED BY <1>1, <1>2, PTL DEF VSpec

\* For integers of any width: whatever commands made a number, DECRBY by any
\* amount of the width and INCRBY by the same leave it as it was, although the
\* code negates the amount first (incrby) and both may wrap.
THEOREM IncrbyUndone ==
    VSpec => []IncrbyUndoesDecrby
<1>1. VInv => IncrbyUndoesDecrby
  <2> SUFFICES ASSUME VInv, value.type = "String", NEW n \in Amounts
               PROVE  incrby(decrby(value, n).value, n).value = value
    BY DEF IncrbyUndoesDecrby
  <2>1. PICK x \in Int : InRange(x) /\ value = Number(x)
    BY DEF VInv, Numeric
  <2>2. n \in Int /\ InRange(n) /\ Wrap(-n) \in Int
    BY IntAmounts
  <2>3. decrby(value, n).value = Number(Wrap(x - n))
    BY <2>1, <2>2, DecrbyOfNumber
  <2>4. Wrap(x - n) \in Int /\ InRange(Wrap(x - n))
    BY <2>1, <2>2, WrapType
  <2>5. decrby(Number(Wrap(x - n)), Wrap(-n)).value = Number(Wrap(Wrap(x - n) - Wrap(-n)))
    BY <2>2, <2>4, DecrbyOfNumber
  <2>6. Wrap(Wrap(x - n) - Wrap(-n)) = x
    BY <2>1, <2>2, WrapCancels
  <2> QED BY <2>1, <2>3, <2>5, <2>6 DEF incrby
<1> QED BY <1>1, VInvInductive, PTL

-----------------------------------------------------------------------------
(* Positions that are kept, and what is left at them *)

Rank(kept, i) == Cardinality({j \in kept : j <= i})

\* `part` is what is left of `list` at the positions `kept`, in order.
IsPart(part, list, kept) ==
    Len(part) = Cardinality(kept) /\ \A i \in kept : part[Rank(kept, i)] = list[i]

Before(all, i) == {j \in all : j < i}

LEMMA PositionsFinite ==
    ASSUME NEW n \in Nat, NEW K \in SUBSET (1..n)
    PROVE  /\ IsFiniteSet(K) /\ Cardinality(K) \in Nat
           /\ \A T \in SUBSET K : IsFiniteSet(T) /\ Cardinality(T) \in Nat
                                  /\ Cardinality(T) <= Cardinality(K)
<1>1. IsFiniteSet(1..n)
  BY FS_Interval
<1>2. \A T \in SUBSET (1..n) : IsFiniteSet(T) /\ Cardinality(T) \in Nat
  BY <1>1, FS_Subset, FS_CardinalityType
<1>3. \A T \in SUBSET K : Cardinality(T) <= Cardinality(K)
  BY <1>2, FS_Subset
<1> QED BY <1>2, <1>3

\* A position counts itself and those before it.
LEMMA RankAndBefore ==
    ASSUME NEW n \in Nat, NEW K \in SUBSET (1..n), NEW i \in K
    PROVE  /\ Rank(K, i) = Cardinality(Before(K, i)) + 1
           /\ Cardinality(Before(K, i)) \in Nat
           /\ Rank(K, i) \in 1..Cardinality(K)
<1> DEFINE B == Before(K, i)
           U == {j \in K : j <= i}
<1>0. i \in Int /\ \A j \in K : j \in Int
  OBVIOUS
<1>1. U = B \cup {i} /\ i \notin B /\ B \in SUBSET K /\ U \in SUBSET K
  <2>1. \A j \in K : j <= i <=> j < i \/ j = i
    BY <1>0
  <2>2. i \notin B /\ (\A j \in B : j \in K) /\ \A j \in U : j \in K
    BY <1>0 DEF Before
  <2>3. \A j : j \in U <=> j \in B \/ j = i
    BY <1>0, <2>1 DEF Before
  <2> HIDE DEF B, U
  <2> QED BY <2>2, <2>3
<1>2. IsFiniteSet(B) /\ Cardinality(B) \in Nat /\ Cardinality(U) <= Cardinality(K) /\ Cardinality(K) \in Nat
  BY <1>1, PositionsFinite
<1> HIDE DEF B, U
<1>3. Cardinality(B \cup {i}) = Cardinality(B) + 1
  BY <1>1, <1>2, FS_AddElement
<1> QED BY <1>1, <1>2, <1>3 DEF Rank, B, U

\* A later position has more before it.
LEMMA BeforeGrows ==
    ASSUME NEW n \in Nat, NEW K \in SUBSET (1..n), NEW i \in K, NEW j \in 1..n, i < j
    PROVE  Cardinality(Before(K, i)) + 1 <= Cardinality(Before(K, j))
<1> DEFINE U == {k \in K : k <= i}
<1>0. i \in Int /\ j \in Int /\ \A k \in K : k \in Int
  OBVIOUS
<1>1. Before(K, j) \in SUBSET (1..n) /\ U \in SUBSET Before(K, j)
  <2>1. \A k \in K : k <= i => k < j
    BY <1>0
  <2>2. \A k \in Before(K, j) : k \in 1..n
    BY DEF Before
  <2>3. \A k \in U : k \in Before(K, j)
    BY <2>1 DEF Before
  <2> HIDE DEF U
  <2> QED BY <2>2, <2>3
<1>2. Cardinality(U) <= Cardinality(Before(K, j))
  BY <1>1, PositionsFinite
<1>3. Cardinality(U) = Cardinality(Before(K, i)) + 1
  BY RankAndBefore DEF Rank
<1> QED BY <1>2, <1>3

LEMMA RankGrows ==
    ASSUME NEW n \in Nat, NEW K \in SUBSET (1..n), NEW i \in K, NEW j \in K
    PROVE  /\ i < j => Rank(K, i) < Rank(K, j)
           /\ Rank(K, i) <= Rank(K, j) => i <= j
<1>1. /\ Rank(K, i) = Cardinality(Before(K, i)) + 1 /\ Cardinality(Before(K, i)) \in Nat
      /\ Rank(K, j) = Cardinality(Before(K, j)) + 1 /\ Cardinality(Before(K, j)) \in Nat
  BY RankAndBefore
<1>2. i < j => Cardinality(Before(K, i)) + 1 <= Cardinality(Before(K, j))
  BY BeforeGrows
<1>3. j < i => Cardinality(Before(K, j)) + 1 <= Cardinality(Before(K, i))
  BY BeforeGrows
<1>4. i \in Int /\ j \in Int
  OBVIOUS
<1> QED BY <1>1, <1>2, <1>3, <1>4

\* Every place of what is left is the place of some position.
LEMMA RankOnto ==
    ASSUME NEW n \in Nat, NEW K \in SUBSET (1..n), NEW p \in 1..Cardinality(K)
    PROVE  \E i \in K : Rank(K, i) = p
<1> DEFINE T == 1..Cardinality(K)
           f == [i \in K |-> Rank(K, i)]
<1>1. \A i \in K : Rank(K, i) \in T
  BY RankAndBefore
<1>2. \A i, j \in K : Rank(K, i) = Rank(K, j) => i = j
  <2> SUFFICES ASSUME NEW i \in K, NEW j \in K, Rank(K, i) = Rank(K, j) PROVE i = j
    OBVIOUS
  <2>1. Rank(K, i) \in 1..Cardinality(K)
    BY RankAndBefore
  <2>2. Rank(K, i) <= Rank(K, j) /\ Rank(K, j) <= Rank(K, i)
    BY <2>1
  <2>3. i <= j
    BY <2>2, RankGrows
  <2>4. j <= i
    BY <2>2, RankGrows
  <2>5. i \in Int /\ j \in Int
    OBVIOUS
  <2> QED BY <2>3, <2>4, <2>5
<1>3. IsFiniteSet(K) /\ Cardinality(K) \in Nat
  BY PositionsFinite
<1>4. IsFiniteSet(T) /\ Cardinality(T) = Cardinality(K)
  BY <1>3, FS_Interval
<1>5. f \in Injection(K, T)
  BY <1>1, <1>2 DEF Injection, IsInjective
<1> HIDE DEF T, f
<1>6. f \in Surjection(K, T)
  BY <1>3, <1>4, <1>5, FS_Injection
<1>7. \E i \in K : f[i] = p
  BY <1>6 DEF Surjection, T
<1> QED BY <1>7 DEF f

\* One position less: the places behind it move up.
LEMMA RankWithout ==
    ASSUME NEW n \in Nat, NEW K \in SUBSET (1..n), NEW i \in K, NEW j \in K \ {i}
    PROVE  Rank(K \ {i}, j) = IF j < i THEN Rank(K, j) ELSE Rank(K, j) - 1
<1> DEFINE U == {k \in K : k <= j}
           W == {k \in K \ {i} : k <= j}
<1>1. W = U \ {i} /\ (i \in U <=> i <= j) /\ (i <= j <=> ~(j < i)) /\ U \in SUBSET K
  OBVIOUS
<1>2. IsFiniteSet(U)
  BY <1>1, PositionsFinite
<1> HIDE DEF U, W
<1>3. Cardinality(W) = IF i \in U THEN Cardinality(U) - 1 ELSE Cardinality(U)
  BY <1>1, <1>2, FS_RemoveElement
<1>4. Cardinality(W) = IF j < i THEN Cardinality(U) ELSE Cardinality(U) - 1
  BY <1>1, <1>3
<1> QED BY <1>4 DEF Rank, U, W

LEMMA PartWithout ==
    ASSUME NEW S, NEW part \in Seq(S), NEW list, NEW n \in Nat, NEW K \in SUBSET (1..n),
           IsPart(part, list, K), NEW i \in K
    PROVE  /\ RemoveAt(part, Rank(K, i)) \in Seq(S)
           /\ IsPart(RemoveAt(part, Rank(K, i)), list, K \ {i})
<1> DEFINE p == Rank(K, i)
           left == RemoveAt(part, p)
<1>1. Len(part) = Cardinality(K) /\ Len(part) \in Nat /\ DOMAIN part = 1..Len(part) /\ p \in 1..Len(part)
  BY RankAndBefore, LenProperties DEF IsPart
<1> HIDE DEF p
<1>2. left \in Seq(S) /\ Len(left) = Len(part) - 1
  BY <1>1, RemoveAtType
<1>3. \A q \in 1..(Len(part) - 1) : left[q] = IF q < p THEN part[q] ELSE part[q + 1]
  BY <1>1, RemoveAtElements
<1> HIDE DEF left
<1>4. Cardinality(K \ {i}) = Cardinality(K) - 1
  <2>1. IsFiniteSet(K)
    BY PositionsFinite
  <2> QED BY <2>1, FS_RemoveElement
<1>5. ASSUME NEW j \in K \ {i} PROVE left[Rank(K \ {i}, j)] = list[j]
  <2> DEFINE q == Rank(K, j)
  <2>1. q \in 1..Len(part) /\ part[q] = list[j]
    BY <1>1, RankAndBefore DEF IsPart
  <2>2. j \in Int /\ i \in Int /\ j # i
    OBVIOUS
  <2>3. (j < i => q < p) /\ (i < j => p < q)
    BY RankGrows DEF p
  <2>4. Rank(K \ {i}, j) = IF j < i THEN q ELSE q - 1
    BY RankWithout
  <2> HIDE DEF q
  <2>5. CASE j < i
    BY <1>1, <1>3, <2>1, <2>3, <2>4, <2>5
  <2>6. CASE i < j
    <3>1. Rank(K \ {i}, j) = q - 1 /\ q - 1 \in 1..(Len(part) - 1) /\ ~(q - 1 < p) /\ (q - 1) + 1 = q
      BY <1>1, <2>1, <2>2, <2>3, <2>4, <2>6
    <3> QED BY <1>3, <2>1, <3>1
  <2> QED BY <2>2, <2>5, <2>6
<1>6. IsPart(left, list, K \ {i})
  BY <1>1, <1>2, <1>4, <1>5 DEF IsPart
<1> QED BY <1>2, <1>6 DEF left, p

\* Where RemoveFirst finds the element it takes out.
LEMMA RemoveFirstAt ==
    ASSUME NEW S, NEW s \in Seq(S), NEW e, \E i \in 1..Len(s) : s[i] = e
    PROVE  \E p \in 1..Len(s) : /\ s[p] = e
                                /\ \A q \in 1..Len(s) : s[q] = e => p <= q
                                /\ RemoveFirst(s, e) = RemoveAt(s, p)
<1> DEFINE I == {i \in 1..Len(s) : s[i] = e}
           p == SelectInSeq(s, LAMBDA v : v = e)
<1>1. I # {} /\ I \in SUBSET Nat
  BY LenProperties
<1>2. p = Min(I)
  BY <1>1 DEF SelectInSeq
<1>3. RemoveFirst(s, e) = RemoveAt(s, p)
  BY DEF RemoveFirst
<1> HIDE DEF I, p
<1>4. Min(I) \in I /\ \A q \in I : Min(I) <= q
  BY <1>1, LeastNumber DEF Min
<1>5. p \in 1..Len(s) /\ s[p] = e /\ \A q \in 1..Len(s) : s[q] = e => p <= q
  BY <1>2, <1>4 DEF I
<1> QED BY <1>3, <1>5

\* RemoveFirst takes what stands at the first position that has the element.
LEMMA FirstGoes ==
    ASSUME NEW S, NEW part \in Seq(S), NEW list, NEW n \in Nat, NEW K \in SUBSET (1..n),
           IsPart(part, list, K), NEW e, \E i \in K : list[i] = e
    PROVE  \E i \in K : /\ list[i] = e
                        /\ \A j \in K : list[j] = e => i <= j
                        /\ IsPart(RemoveFirst(part, e), list, K \ {i})
<1>1. Len(part) = Cardinality(K) /\ \A i \in K : Rank(K, i) \in 1..Len(part) /\ part[Rank(K, i)] = list[i]
  BY RankAndBefore DEF IsPart
<1>2. PICK p \in 1..Len(part) : /\ part[p] = e
                                /\ \A q \in 1..Len(part) : part[q] = e => p <= q
                                /\ RemoveFirst(part, e) = RemoveAt(part, p)
  <2>1. \E q \in 1..Len(part) : part[q] = e
    BY <1>1
  <2> QED BY <2>1, RemoveFirstAt
<1>3. PICK i \in K : Rank(K, i) = p
  BY <1>1, RankOnto
<1>4. list[i] = e
  BY <1>1, <1>2, <1>3
<1>5. ASSUME NEW j \in K, list[j] = e PROVE i <= j
  <2>1. Rank(K, i) <= Rank(K, j)
    BY <1>1, <1>2, <1>3, <1>5
  <2> QED BY <2>1, RankGrows
<1>6. IsPart(RemoveFirst(part, e), list, K \ {i})
  BY <1>2, <1>3, PartWithout
<1> QED BY <1>4, <1>5, <1>6

LEMMA NoneGoes ==
    ASSUME NEW part, NEW list, NEW n \in Nat, NEW K \in SUBSET (1..n),
           IsPart(part, list, K), NEW e, ~ \E i \in K : list[i] = e
    PROVE  RemoveFirst(part, e) = part
<1>1. Len(part) = Cardinality(K) /\ \A i \in K : part[Rank(K, i)] = list[i]
  BY DEF IsPart
<1>2. ASSUME NEW p \in 1..Len(part) PROVE part[p] # e
  <2>1. PICK i \in K : Rank(K, i) = p
    BY <1>1, RankOnto
  <2> QED BY <1>1, <2>1
<1> QED BY <1>2 DEF RemoveFirst

\* Everything is there at the start.
LEMMA WholePart ==
    ASSUME NEW S, NEW list \in Seq(S)
    PROVE  IsPart(list, list, 1..Len(list))
<1>1. Len(list) \in Nat
  BY LenProperties
<1>2. Cardinality(1..Len(list)) = Len(list)
  <2>1. \A n \in Nat : Cardinality(1..n) = IF 1 > n THEN 0 ELSE n - 1 + 1
    BY FS_Interval
  <2> QED BY <1>1, <2>1
<1>3. ASSUME NEW i \in 1..Len(list) PROVE Rank(1..Len(list), i) = i
  <2>1. {j \in 1..Len(list) : j <= i} = 1..i
    BY <1>1
  <2>2. Cardinality(1..i) = i
    BY FS_Interval
  <2> QED BY <2>1, <2>2 DEF Rank
<1> QED BY <1>2, <1>3 DEF IsPart

-----------------------------------------------------------------------------
(* LREM from the head *)

\* The n positions of the element nearest to the head.
Nearest(list, text, n) ==
    LET all == PositionsOf(list, text)
    IN  {i \in all : Cardinality(Before(all, i)) < n}

\* One time more takes one position more, the nearest that is left, if any is.
LEMMA NextNearest ==
    ASSUME NEW S, NEW list \in Seq(S), NEW text, NEW n \in Nat,
           Cardinality(Nearest(list, text, n)) <= n,
           NEW i \in DOMAIN list \ Nearest(list, text, n), list[i] = text,
           \A j \in DOMAIN list \ Nearest(list, text, n) : list[j] = text => i <= j
    PROVE  /\ Nearest(list, text, n + 1) = Nearest(list, text, n) \cup {i}
           /\ Cardinality(Nearest(list, text, n + 1)) <= n + 1
<1> DEFINE all == PositionsOf(list, text)
           near == Nearest(list, text, n)
           next == Nearest(list, text, n + 1)
           B(j) == Cardinality(Before(all, j))
<1>1. Len(list) \in Nat /\ DOMAIN list = 1..Len(list)
  BY LenProperties
<1>2. all \in SUBSET (1..Len(list)) /\ near \in SUBSET all
  BY <1>1 DEF PositionsOf, Nearest
<1>3. /\ i \in all /\ i \notin near /\ \A j \in all : j \notin near => i <= j
      /\ \A j \in all : j \in near <=> B(j) < n
      /\ \A j : j \in next <=> j \in all /\ B(j) < n + 1
  BY <1>1 DEF PositionsOf, Nearest
<1>4. \A j \in all : B(j) \in Nat /\ j \in Int
  <2> SUFFICES ASSUME NEW j \in all PROVE B(j) \in Nat /\ j \in Int
    OBVIOUS
  <2>1. Cardinality(Before(all, j)) \in Nat
    BY <1>1, <1>2, RankAndBefore
  <2> QED BY <1>1, <1>2, <2>1
<1>5. \A j \in all : i < j => B(i) + 1 <= B(j)
  <2> SUFFICES ASSUME NEW j \in all, i < j PROVE B(i) + 1 <= B(j)
    OBVIOUS
  <2> HIDE DEF all
  <2> QED BY <1>1, <1>2, <1>3, BeforeGrows
<1>6. IsFiniteSet(near) /\ Cardinality(near) \in Nat
  <2>1. near \in SUBSET (1..Len(list))
    BY <1>2
  <2> QED BY <1>1, <2>1, PositionsFinite
<1>7. B(i) <= Cardinality(near)
  <2>1. \A j \in Before(all, i) : j \in all /\ j < i
    BY DEF Before
  <2>2. Before(all, i) \in SUBSET near
    <3> HIDE DEF all, near
    <3>1. \A j \in Before(all, i) : j \in near
      BY <1>3, <1>4, <2>1
    <3> QED BY <3>1
  <2>3. near \in SUBSET (1..Len(list))
    BY <1>2
  <2> HIDE DEF near
  <2> QED BY <1>1, <2>2, <2>3, PositionsFinite
<1> HIDE DEF all, near, next, B
<1>8. Cardinality(near) <= n
  BY DEF near
<1>9. B(i) = n
  BY <1>3, <1>4, <1>6, <1>7, <1>8
<1>10. \A j : j \in next <=> j \in near \/ j = i
  <2> SUFFICES ASSUME NEW j \in all PROVE B(j) < n + 1 <=> B(j) < n \/ j = i
    BY <1>2, <1>3
  <2>1. B(j) = n => i <= j
    BY <1>3, <1>4
  <2>2. i < j => n + 1 <= B(j)
    BY <1>5, <1>9
  <2>3. B(j) \in Nat /\ i \in Int /\ j \in Int
    BY <1>3, <1>4
  <2>4. B(j) = n => j = i
    BY <2>1, <2>2, <2>3
  <2> QED BY <1>9, <2>3, <2>4
<1>11. next = near \cup {i}
  BY <1>10
<1>12. Cardinality(near \cup {i}) = Cardinality(near) + 1
  BY <1>3, <1>6, FS_AddElement
<1>13. Cardinality(next) <= n + 1
  BY <1>6, <1>8, <1>11, <1>12
<1> QED BY <1>11, <1>13 DEF near, next

LEMMA NoMoreNearest ==
    ASSUME NEW S, NEW list \in Seq(S), NEW text, NEW n \in Nat,
           \A j \in DOMAIN list \ Nearest(list, text, n) : list[j] # text
    PROVE  Nearest(list, text, n + 1) = Nearest(list, text, n)
<1> DEFINE all == PositionsOf(list, text)
           B(j) == Cardinality(Before(all, j))
<1>1. Len(list) \in Nat /\ DOMAIN list = 1..Len(list) /\ all \in SUBSET (1..Len(list))
  BY LenProperties DEF PositionsOf
<1>2. \A j \in all : B(j) \in Nat
  <2> SUFFICES ASSUME NEW j \in all PROVE B(j) \in Nat
    OBVIOUS
  <2> HIDE DEF all
  <2> QED BY <1>1, RankAndBefore
<1>3. \A j \in all : B(j) < n
  BY DEF PositionsOf, Nearest
<1> HIDE DEF B
<1>4. \A j \in all : B(j) < n + 1
  BY <1>2, <1>3
<1> QED BY <1>3, <1>4 DEF Nearest, B

\* Searched from the head each time, the element goes from the n positions
\* nearest to it, and the rest stays in order.
LEMMA RemoveTimesTakesNearest ==
    ASSUME NEW S, NEW list \in Seq(S), NEW text, NEW n \in Nat
    PROVE  /\ RemoveTimes(list, text, n) \in Seq(S)
           /\ IsPart(RemoveTimes(list, text, n), list, DOMAIN list \ Nearest(list, text, n))
<1>1. PICK after : /\ RemoveTimes(list, text, n) = after[n]
                   /\ after[0] = list
                   /\ \A i \in 1..n : after[i] = RemoveFirst(after[i - 1], text)
  BY RemoveTimesSteps
<1> DEFINE Good(k) == /\ after[k] \in Seq(S)
                      /\ IsPart(after[k], list, DOMAIN list \ Nearest(list, text, k))
                      /\ Cardinality(Nearest(list, text, k)) <= k
           N == {k \in Nat : k \in 0..n => Good(k)}
<1>2. Len(list) \in Nat /\ DOMAIN list = 1..Len(list)
  BY LenProperties
<1>3. Good(0)
  <2>1. Nearest(list, text, 0) = {}
    <3> DEFINE all == PositionsOf(list, text)
    <3>1. all \in SUBSET (1..Len(list))
      BY <1>2 DEF PositionsOf
    <3>2. \A j \in all : Cardinality(Before(all, j)) \in Nat
      <4> HIDE DEF all
      <4> QED BY <1>2, <3>1, RankAndBefore
    <3>3. \A j \in all : ~(Cardinality(Before(all, j)) < 0)
      BY <3>2
    <3> QED BY <3>3 DEF Nearest
  <2>2. Cardinality({}) = 0 /\ DOMAIN list \ {} = 1..Len(list)
    BY <1>2, FS_EmptySet
  <2>3. IsPart(list, list, 1..Len(list))
    BY WholePart
  <2>4. DOMAIN list \ Nearest(list, text, 0) = 1..Len(list)
    BY <2>1, <2>2, Zenon
  <2>5. IsPart(after[0], list, DOMAIN list \ Nearest(list, text, 0))
    BY <1>1, <2>3, <2>4, Zenon
  <2>6. Cardinality(Nearest(list, text, 0)) <= 0
    <3>1. Cardinality(Nearest(list, text, 0)) = 0
      BY <2>1, <2>2, Zenon
    <3> QED BY <3>1
  <2> QED BY <1>1, <2>5, <2>6
<1>4. ASSUME NEW k \in Nat, Good(k), k + 1 \in 1..n PROVE Good(k + 1)
  <2> DEFINE K == DOMAIN list \ Nearest(list, text, k)
  <2>1. after[k + 1] = RemoveFirst(after[k], text)
    <3>1. (k + 1) - 1 = k
      OBVIOUS
    <3> QED BY <1>1, <1>4, <3>1
  <2>2. after[k + 1] \in Seq(S)
    BY <1>4, <2>1, RemoveFirstType
  <2>3. K \in SUBSET (1..Len(list)) /\ after[k] \in Seq(S) /\ IsPart(after[k], list, K)
    BY <1>2, <1>4
  <2>4. CASE \E i \in K : list[i] = text
    <3>1. PICK i \in K : /\ list[i] = text
                         /\ \A j \in K : list[j] = text => i <= j
                         /\ IsPart(after[k + 1], list, K \ {i})
      <4> HIDE DEF K
      <4>1. PICK i \in K : /\ list[i] = text
                           /\ \A j \in K : list[j] = text => i <= j
                           /\ IsPart(RemoveFirst(after[k], text), list, K \ {i})
        BY <1>2, <2>3, <2>4, FirstGoes
      <4> QED BY <2>1, <4>1
    <3>2. /\ Nearest(list, text, k + 1) = Nearest(list, text, k) \cup {i}
          /\ Cardinality(Nearest(list, text, k + 1)) <= k + 1
      BY <1>4, <3>1, NextNearest
    <3>3. DOMAIN list \ Nearest(list, text, k + 1) = K \ {i}
      BY <3>2
    <3> QED BY <2>2, <3>1, <3>2, <3>3
  <2>5. CASE \A i \in K : list[i] # text
    <3>1. after[k + 1] = after[k]
      <4> HIDE DEF K
      <4>1. Len(list) \in Nat /\ K \in SUBSET (1..Len(list)) /\ IsPart(after[k], list, K)
        BY <1>2, <2>3
      <4>2. RemoveFirst(after[k], text) = after[k]
        <5>1. ~ \E i \in K : list[i] = text
          BY <2>5
        <5> DEFINE part == after[k]
                   len == Len(list)
        <5>2. len \in Nat /\ K \in SUBSET (1..len) /\ IsPart(part, list, K)
          BY <4>1
        <5> HIDE DEF part, len
        <5>3. RemoveFirst(part, text) = part
          BY <5>1, <5>2, NoneGoes
        <5> QED BY <5>3 DEF part
      <4> QED BY <2>1, <4>2
    <3>2. Nearest(list, text, k + 1) = Nearest(list, text, k)
      BY <2>5, NoMoreNearest
    <3>3. Cardinality(Nearest(list, text, k)) \in Nat
      <4>1. Nearest(list, text, k) \in SUBSET (1..Len(list))
        BY <1>2 DEF Nearest, PositionsOf
      <4> QED BY <1>2, <4>1, PositionsFinite
    <3>4. Cardinality(Nearest(list, text, k)) <= k + 1
      BY <1>4, <3>3
    <3> QED BY <1>4, <3>1, <3>2, <3>4
  <2> QED BY <2>4, <2>5
<1> HIDE DEF Good
<1>5. 0 \in N
  BY <1>3
<1>6. ASSUME NEW k \in Nat, k \in N PROVE k + 1 \in N
  <2>1. k + 1 \in 0..n => k \in 0..n /\ k + 1 \in 1..n
    OBVIOUS
  <2> QED BY <1>4, <1>6, <2>1
<1> HIDE DEF N
<1>7. n \in N
  BY <1>5, <1>6, Induction
<1>8. Good(n)
  BY <1>7 DEF N
<1> QED BY <1>1, <1>8 DEF Good

-----------------------------------------------------------------------------
(* LREM from the tail: the same, in a mirror *)

Mirror(K, n) == {n + 1 - i : i \in K}

LEMMA MirrorMembers ==
    ASSUME NEW n \in Nat, NEW K \in SUBSET (1..n)
    PROVE  /\ Mirror(K, n) \in SUBSET (1..n)
           /\ \A i \in 1..n : i \in Mirror(K, n) <=> n + 1 - i \in K
           /\ Cardinality(Mirror(K, n)) = Cardinality(K)
<1>1. \A i \in 1..n : n + 1 - i \in 1..n /\ n + 1 - (n + 1 - i) = i
  OBVIOUS
<1>2. Mirror(K, n) \in SUBSET (1..n)
  BY <1>1 DEF Mirror
<1>3. \A i \in 1..n : i \in Mirror(K, n) <=> n + 1 - i \in K
  <2> SUFFICES ASSUME NEW i \in 1..n PROVE i \in Mirror(K, n) <=> n + 1 - i \in K
    OBVIOUS
  <2>1. ASSUME n + 1 - i \in K PROVE i \in Mirror(K, n)
    BY <1>1, <2>1 DEF Mirror
  <2>2. ASSUME i \in Mirror(K, n) PROVE n + 1 - i \in K
    <3>1. PICK j \in K : i = n + 1 - j
      BY <2>2 DEF Mirror
    <3>2. n + 1 - i = j
      BY <1>1, <3>1
    <3> QED BY <3>2
  <2> QED BY <2>1, <2>2
<1>4. Cardinality(Mirror(K, n)) = Cardinality(K)
  <2> DEFINE T == Mirror(K, n)
             f == [i \in K |-> n + 1 - i]
  <2>1. IsFiniteSet(K)
    BY PositionsFinite
  <2>2. \A i \in K : f[i] \in T
    BY DEF Mirror
  <2>3. \A i, j \in K : f[i] = f[j] => i = j
    BY <1>1
  <2>4. \A t \in T : \E i \in K : f[i] = t
    BY DEF Mirror
  <2>5. f \in [K -> T]
    BY <2>2
  <2> HIDE DEF f, T
  <2>6. f \in Bijection(K, T)
    BY <2>3, <2>4, <2>5 DEF Bijection, Injection, Surjection, IsInjective
  <2>7. Cardinality(T) = Cardinality(K)
    BY <2>1, <2>6, FS_Bijection DEF ExistsBijection
  <2> QED BY <2>7 DEF T
<1> QED BY <1>2, <1>3, <1>4

\* The place of a position in the mirror is its place from the other end.
LEMMA RankMirrored ==
    ASSUME NEW n \in Nat, NEW K \in SUBSET (1..n), NEW i \in Mirror(K, n)
    PROVE  Rank(Mirror(K, n), i) = Cardinality(K) - Rank(K, n + 1 - i) + 1
<1> DEFINE m == n + 1 - i
           M == Mirror(K, n)
           L == Before(K, m)
           H == K \ L
           U == {j \in M : j <= i}
<1>1. i \in 1..n /\ m \in K /\ M \in SUBSET (1..n)
  <2>1. i \in 1..n
    BY MirrorMembers
  <2> QED BY <2>1, MirrorMembers
<1>2. L \in SUBSET K /\ H \in SUBSET (1..n) /\ L \cap H = {} /\ L \cup H = K
  BY DEF Before
<1>3. IsFiniteSet(L) /\ Cardinality(L) \in Nat /\ IsFiniteSet(H) /\ Cardinality(H) \in Nat
  <2> HIDE DEF L, H
  <2>1. L \in SUBSET (1..n)
    BY <1>2
  <2> QED BY <1>2, <2>1, PositionsFinite
<1>4. Cardinality(K) = Cardinality(L) + Cardinality(H)
  <2> HIDE DEF L, H
  <2>1. Cardinality({}) = 0
    BY FS_EmptySet
  <2>2. Cardinality(L \cup H) = Cardinality(L) + Cardinality(H) - Cardinality(L \cap H)
    BY <1>3, FS_Union
  <2>3. Cardinality(L \cap H) = 0 /\ Cardinality(L \cup H) = Cardinality(K)
    BY <1>2, <2>1, Zenon
  <2> QED BY <1>3, <2>2, <2>3
<1>5. Rank(K, m) = Cardinality(L) + 1
  BY <1>1, RankAndBefore
<1>6. U = Mirror(H, n)
  <2>1. U \in SUBSET (1..n)
    BY <1>1
  <2>2. Mirror(H, n) \in SUBSET (1..n) /\ \A j \in 1..n : j \in Mirror(H, n) <=> n + 1 - j \in H
    <3> HIDE DEF H
    <3> QED BY <1>2, MirrorMembers
  <2>3. \A j \in 1..n : j \in M <=> n + 1 - j \in K
    BY MirrorMembers
  <2>4. \A j \in 1..n : j <= i <=> ~(n + 1 - j < m)
    BY <1>1
  <2>5. ASSUME NEW j \in 1..n PROVE j \in U <=> j \in Mirror(H, n)
    BY <2>2, <2>3, <2>4 DEF Before
  <2> HIDE DEF U, H
  <2> QED BY <2>1, <2>2, <2>5
<1>7. Cardinality(U) = Cardinality(H)
  <2> HIDE DEF U, H
  <2> QED BY <1>2, <1>6, MirrorMembers
<1>8. Rank(M, i) = Cardinality(U)
  BY DEF Rank
<1> HIDE DEF U, H, L, M, m
<1>9. Rank(M, i) = Cardinality(K) - Rank(K, m) + 1
  BY <1>3, <1>4, <1>5, <1>7, <1>8
<1> QED BY <1>9 DEF M, m

LEMMA ReverseElements ==
    ASSUME NEW S, NEW s \in Seq(S)
    PROVE  /\ Reverse(s) \in Seq(S) /\ Len(Reverse(s)) = Len(s)
           /\ \A i \in 1..Len(s) : Reverse(s)[i] = s[Len(s) - i + 1]
BY ReverseType DEF Reverse

\* A part of the reversed list, reversed, is a part of the list.
LEMMA PartMirrored ==
    ASSUME NEW S, NEW list \in Seq(S), NEW part \in Seq(S),
           NEW K \in SUBSET (1..Len(list)), IsPart(part, Reverse(list), K)
    PROVE  IsPart(Reverse(part), list, Mirror(K, Len(list)))
<1> DEFINE n == Len(list)
           M == Mirror(K, n)
<1>1. n \in Nat /\ Len(part) \in Nat
  BY LenProperties
<1>2. /\ Len(Reverse(part)) = Len(part)
      /\ \A p \in 1..Len(part) : Reverse(part)[p] = part[Len(part) - p + 1]
      /\ \A i \in 1..n : Reverse(list)[i] = list[n - i + 1]
  BY ReverseElements
<1>3. Len(part) = Cardinality(K) /\ \A i \in K : part[Rank(K, i)] = Reverse(list)[i]
  BY DEF IsPart
<1> HIDE DEF n
<1>4. K \in SUBSET (1..n)
  BY DEF n
<1>5. M \in SUBSET (1..n) /\ Cardinality(M) = Cardinality(K)
  BY <1>1, <1>4, MirrorMembers
<1>6. ASSUME NEW i \in M PROVE Reverse(part)[Rank(M, i)] = list[i]
  <2> DEFINE m == n + 1 - i
             r == Rank(K, m)
  <2>1. i \in 1..n
    BY <1>5
  <2>2. m \in K
    BY <1>1, <1>4, <2>1, MirrorMembers
  <2>3. Rank(M, i) = Len(part) - r + 1
    BY <1>1, <1>3, <1>4, RankMirrored
  <2> HIDE DEF M
  <2>4. r \in 1..Len(part)
    <3> HIDE DEF m
    <3> QED BY <1>1, <1>3, <1>4, <2>2, RankAndBefore
  <2>5. part[r] = Reverse(list)[m]
    BY <1>3, <2>2
  <2> HIDE DEF r
  <2>6. Len(part) - r + 1 \in 1..Len(part) /\ Len(part) - (Len(part) - r + 1) + 1 = r
    BY <1>1, <2>4
  <2>7. Reverse(part)[Len(part) - r + 1] = part[r]
    BY <1>2, <2>6
  <2>8. m \in 1..n /\ n - m + 1 = i
    BY <1>1, <2>1
  <2>9. Reverse(list)[m] = list[i]
    <3>1. Reverse(list)[m] = list[n - m + 1]
      BY <1>2, <2>8
    <3> QED BY <2>8, <3>1
  <2> QED BY <2>3, <2>5, <2>7, <2>9
<1> HIDE DEF M
<1>7. IsPart(Reverse(part), list, M)
  BY <1>2, <1>3, <1>5, <1>6 DEF IsPart
<1> QED BY <1>7 DEF M, n

LEMMA RemovedFromTail ==
    ASSUME NEW S, NEW list \in Seq(S), NEW text, NEW n \in Nat
    PROVE  LET all == PositionsOf(list, text)
               last == {i \in all : Cardinality({j \in all : j > i}) < n}
           IN  IsPart(Reverse(RemoveTimes(Reverse(list), text, n)), list, DOMAIN list \ last)
<1> DEFINE len == Len(list)
           all == PositionsOf(list, text)
           last == {i \in all : Cardinality({j \in all : j > i}) < n}
           back == Reverse(list)
           backAll == PositionsOf(back, text)
           near == Nearest(back, text, n)
           left == RemoveTimes(back, text, n)
           K == (1..len) \ near
<1>1. len \in Nat /\ DOMAIN list = 1..len
  BY LenProperties
<1>2. /\ back \in Seq(S) /\ Len(back) = len /\ DOMAIN back = 1..len
      /\ \A i \in 1..len : back[i] = list[len - i + 1]
  BY ReverseElements, LenProperties
<1>3. left \in Seq(S) /\ IsPart(left, back, K)
  <2>1. left \in Seq(S) /\ IsPart(left, back, DOMAIN back \ near)
    BY <1>2, RemoveTimesTakesNearest
  <2> QED BY <1>2, <2>1
<1> HIDE DEF back, left
<1>4. IsPart(Reverse(left), list, Mirror(K, len))
  <2> HIDE DEF K
  <2>1. K \in SUBSET (1..Len(list))
    BY DEF K
  <2> QED BY <1>3, <2>1, PartMirrored DEF back
<1>5. all \in SUBSET (1..len) /\ backAll \in SUBSET (1..len) /\ near \in SUBSET (1..len)
  BY <1>1, <1>2 DEF PositionsOf, Nearest
<1>6. \A i \in 1..len : i \in all <=> len + 1 - i \in backAll
  <2>1. \A i \in 1..len : len + 1 - i \in 1..len /\ len - (len + 1 - i) + 1 = i
    BY <1>1
  <2>2. \A i \in 1..len : back[len + 1 - i] = list[i]
    BY <1>2, <2>1
  <2> QED BY <1>1, <1>2, <2>1, <2>2 DEF PositionsOf
<1> HIDE DEF len, all, backAll
<1>7. ASSUME NEW i \in all
      PROVE  Cardinality({j \in all : j > i}) = Cardinality(Before(backAll, len + 1 - i))
  <2> DEFINE U == {j \in all : j > i}
             B == Before(backAll, len + 1 - i)
  <2>1. i \in 1..len /\ U \in SUBSET (1..len) /\ B \in SUBSET (1..len)
    BY <1>5 DEF Before
  <2>2. \A j \in 1..len : j > i <=> len + 1 - j < len + 1 - i
    BY <1>1, <2>1
  <2>3. \A j \in 1..len : j \in U <=> len + 1 - j \in B
    BY <1>6, <2>2 DEF Before
  <2> HIDE DEF U, B
  <2>4. /\ Mirror(B, len) \in SUBSET (1..len) /\ Cardinality(Mirror(B, len)) = Cardinality(B)
        /\ \A j \in 1..len : j \in Mirror(B, len) <=> len + 1 - j \in B
    BY <1>1, <2>1, MirrorMembers
  <2>5. U = Mirror(B, len)
    BY <2>1, <2>3, <2>4
  <2> QED BY <2>4, <2>5 DEF U, B
<1>8. ASSUME NEW i \in 1..len PROVE i \in last <=> len + 1 - i \in near
  <2>1. CASE i \in all
    <3>1. len + 1 - i \in backAll
      BY <1>6, <2>1
    <3>2. i \in last <=> Cardinality({j \in all : j > i}) < n
      BY <2>1
    <3>3. len + 1 - i \in near <=> Cardinality(Before(backAll, len + 1 - i)) < n
      BY <3>1 DEF Nearest, backAll
    <3> QED BY <1>7, <2>1, <3>2, <3>3
  <2>2. CASE i \notin all
    <3>1. len + 1 - i \notin backAll
      BY <1>6, <2>2
    <3>2. len + 1 - i \notin near
      BY <3>1 DEF Nearest, backAll
    <3> QED BY <2>2, <3>2
  <2> QED BY <2>1, <2>2
<1>9. Mirror(K, len) = (1..len) \ last
  <2>1. K \in SUBSET (1..len)
    OBVIOUS
  <2>2. \A i \in 1..len : i \in K <=> i \notin near
    OBVIOUS
  <2> HIDE DEF K, near, last
  <2>3. Mirror(K, len) \in SUBSET (1..len) /\ \A i \in 1..len : i \in Mirror(K, len) <=> len + 1 - i \in K
    BY <1>1, <2>1, MirrorMembers
  <2>4. \A i \in 1..len : len + 1 - i \in 1..len
    BY <1>1
  <2>5. \A i \in 1..len : i \in Mirror(K, len) <=> i \notin last
    BY <1>8, <2>2, <2>3, <2>4
  <2> QED BY <2>3, <2>5
<1>10. IsPart(Reverse(left), list, DOMAIN list \ last)
  BY <1>1, <1>4, <1>9, Zenon
<1> QED BY <1>10 DEF left, back, all

-----------------------------------------------------------------------------
(* LREM with a count of 0 *)

LEMMA RemovedEverywhere ==
    ASSUME NEW S, NEW list \in Seq(S), NEW elements
    PROVE  IsPart(Without(list, elements), list, {i \in DOMAIN list : list[i] \notin elements})
<1>1. Len(list) \in Nat /\ DOMAIN list = 1..Len(list) /\ \A i \in 1..Len(list) : list[i] \in S
  BY LenProperties
<1>2. PICK kept : /\ Without(list, elements) = kept[Len(list)]
                  /\ kept[0] = <<>>
                  /\ \A n \in 1..Len(list) :
                         kept[n] = IF list[n] \in elements THEN kept[n - 1]
                                   ELSE Append(kept[n - 1], list[n])
  BY <1>1, WithoutSteps
<1> DEFINE K(n) == {i \in 1..n : list[i] \notin elements}
           Good(n) == kept[n] \in Seq(S) /\ IsPart(kept[n], list, K(n))
           N == {n \in Nat : n \in 0..Len(list) => Good(n)}
<1>3. Good(0)
  <2>1. K(0) = {} /\ Cardinality({}) = 0
    BY FS_EmptySet
  <2>2. kept[0] \in Seq(S) /\ Len(kept[0]) = 0
    BY <1>2
  <2> QED BY <2>1, <2>2 DEF IsPart
<1>4. ASSUME NEW n \in Nat, n + 1 \in 1..Len(list), Good(n) PROVE Good(n + 1)
  <2>1. (n + 1) - 1 = n
    OBVIOUS
  <2>2. CASE list[n + 1] \in elements
    <3>1. kept[n + 1] = kept[n]
      BY <1>2, <1>4, <2>1, <2>2
    <3>2. K(n + 1) = K(n)
      BY <2>2
    <3> QED BY <1>4, <3>1, <3>2
  <2>3. CASE list[n + 1] \notin elements
    <3> DEFINE A == K(n)
               B == K(n + 1)
               s == kept[n]
               t == Append(s, list[n + 1])
    <3>1. kept[n + 1] = t
      BY <1>2, <1>4, <2>1, <2>3
    <3>2. B = A \cup {n + 1} /\ n + 1 \notin A /\ A \in SUBSET (1..n) /\ B \in SUBSET (1..(n + 1))
      BY <2>3
    <3>3. s \in Seq(S) /\ IsPart(s, list, A) /\ list[n + 1] \in S
      BY <1>1, <1>4
    <3> HIDE DEF A, B, s
    <3>4. IsFiniteSet(A) /\ Cardinality(A) \in Nat /\ Len(s) = Cardinality(A)
      BY <3>2, <3>3, PositionsFinite DEF IsPart
    <3>5. Cardinality(B) = Cardinality(A) + 1
      BY <3>2, <3>4, FS_AddElement
    <3>6. t \in Seq(S) /\ Len(t) = Len(s) + 1 /\ t[Len(s) + 1] = list[n + 1]
          /\ \A i \in 1..Len(s) : t[i] = s[i]
      BY <3>3, AppendType
    <3> HIDE DEF t
    <3>7. ASSUME NEW i \in B PROVE t[Rank(B, i)] = list[i]
      <4>1. CASE i = n + 1
        <5>0. \A j \in 1..(n + 1) : j <= n + 1
          OBVIOUS
        <5>1. {j \in B : j <= i} = B
          BY <3>2, <4>1, <5>0
        <5> QED BY <3>4, <3>5, <3>6, <4>1, <5>1 DEF Rank
      <4>2. CASE i # n + 1
        <5>1. i \in A /\ i \in 1..n
          BY <3>2, <4>2
        <5>2. {j \in B : j <= i} = {j \in A : j <= i}
          BY <3>2, <5>1
        <5>3. Rank(B, i) = Rank(A, i)
          BY <5>2 DEF Rank
        <5>4. Rank(A, i) \in 1..Len(s)
          BY <3>2, <3>4, <5>1, RankAndBefore
        <5>5. s[Rank(A, i)] = list[i]
          BY <3>3, <5>1 DEF IsPart
        <5> QED BY <3>6, <5>3, <5>4, <5>5
      <4> QED BY <4>1, <4>2
    <3>8. IsPart(t, list, B)
      BY <3>4, <3>5, <3>6, <3>7 DEF IsPart
    <3> QED BY <3>1, <3>6, <3>8 DEF B
  <2> QED BY <2>2, <2>3
<1> HIDE DEF Good
<1>5. 0 \in N
  BY <1>3
<1>6. ASSUME NEW n \in Nat, n \in N PROVE n + 1 \in N
  <2>1. n + 1 \in 0..Len(list) => n \in 0..Len(list) /\ n + 1 \in 1..Len(list)
    BY <1>1
  <2> QED BY <1>4, <1>6, <2>1
<1> HIDE DEF N
<1>7. Len(list) \in N
  BY <1>1, <1>5, <1>6, Induction
<1>8. Good(Len(list))
  BY <1>1, <1>7 DEF N
<1>9. K(Len(list)) = {i \in DOMAIN list : list[i] \notin elements}
  BY <1>1
<1> QED BY <1>2, <1>8, <1>9 DEF Good

-----------------------------------------------------------------------------
(* What LREM leaves *)

LEMMA LeftByLrem ==
    ASSUME NEW list \in Seq(Texts), NEW n \in Int, NEW text
    PROVE  IsPart(lrem(List(list), n, text).value.list, list, DOMAIN list \ Doomed(list, n, text))
<1> DEFINE all == PositionsOf(list, text)
           v == List(list)
           left == lrem(v, n, text).value.list
<1>1. v.list = list /\ IsList(v)
  <2>1. List(list) # Absent
    BY ValueTypes, AbsentAssumption
  <2> QED BY <2>1 DEF IsList, List
<1>2. left = IF n # 0 THEN RemoveFromEnd(list, text, n) ELSE Without(list, {text})
  <2> HIDE DEF v
  <2>1. lrem(v, n, text).value = List(IF n # 0 THEN RemoveFromEnd(list, text, n)
                                                ELSE Without(list, {text}))
    BY <1>1 DEF lrem, Leaves
  <2> QED BY <2>1 DEF List
<1> HIDE DEF v, left
<1>3. CASE n > 0
  <2>1. left = RemoveTimes(list, text, n)
    BY <1>2, <1>3 DEF RemoveFromEnd
  <2>2. IsPart(RemoveTimes(list, text, n), list, DOMAIN list \ Nearest(list, text, n))
    BY <1>3, RemoveTimesTakesNearest
  <2>3. Doomed(list, n, text) = Nearest(list, text, n)
    BY <1>3 DEF Doomed, Nearest, Before
  <2> QED BY <2>1, <2>2, <2>3 DEF left, v
<1>4. CASE n < 0
  <2> DEFINE m == -n
             last == {i \in all : Cardinality({j \in all : j > i}) < m}
  <2>0. m \in Nat
    BY <1>4
  <2>1. left = Reverse(RemoveTimes(Reverse(list), text, m))
    BY <1>2, <1>4 DEF RemoveFromEnd
  <2> HIDE DEF m
  <2>2. IsPart(Reverse(RemoveTimes(Reverse(list), text, m)), list, DOMAIN list \ last)
    BY <2>0, RemovedFromTail
  <2>3. Doomed(list, n, text) = last
    BY <1>4 DEF Doomed, m
  <2> QED BY <2>1, <2>2, <2>3 DEF left, v
<1>5. CASE n = 0
  <2>1. left = Without(list, {text})
    BY <1>2, <1>5
  <2>2. IsPart(Without(list, {text}), list, {i \in DOMAIN list : list[i] \notin {text}})
    BY RemovedEverywhere
  <2>3. {i \in DOMAIN list : list[i] \notin {text}} = DOMAIN list \ Doomed(list, n, text)
    BY <1>5 DEF Doomed, PositionsOf
  <2> QED BY <2>1, <2>2, <2>3 DEF left, v
<1> QED BY <1>3, <1>4, <1>5

\* For lists of any length and any count: LREM leaves every element but the
\* |count| nearest to the end it searches from, in their order, although its
\* loop searches a list that shrinks.
THEOREM LremCorrect ==
    VSpec => []LremRemovesFromItsEnd
<1>1. VInv => LremRemovesFromItsEnd
  <2> SUFFICES ASSUME VInv, value.type = "List", NEW n \in Counts, NEW t \in Elements
               PROVE  LET kept == DOMAIN value.list \ Doomed(value.list, n, t)
                          rank(i) == Cardinality({j \in kept : j <= i})
                          left == lrem(value, n, t).value.list
                      IN  /\ Len(left) = Cardinality(kept)
                          /\ \A i \in kept : left[rank(i)] = value.list[i]
    BY DEF LremRemovesFromItsEnd
  <2>1. value.list \in Seq(Texts) /\ value = List(value.list)
    BY DEF VInv, StorageValues, List
  <2>2. n \in Int
    BY IntAmounts
  <2>3. IsPart(lrem(value, n, t).value.list, value.list,
               DOMAIN value.list \ Doomed(value.list, n, t))
    <3> DEFINE l == value.list
    <3>1. l \in Seq(Texts) /\ value = List(l)
      BY <2>1
    <3> HIDE DEF l
    <3>2. IsPart(lrem(List(l), n, t).value.list, l, DOMAIN l \ Doomed(l, n, t))
      BY <2>2, <3>1, LeftByLrem
    <3>3. IsPart(lrem(value, n, t).value.list, l, DOMAIN l \ Doomed(l, n, t))
      BY <3>1, <3>2, Zenon
    <3> QED BY <3>3 DEF l
  <2> QED BY <2>3, Zenon DEF IsPart, Rank
<1> QED BY <1>1, VInvInductive, PTL

====
