---- MODULE StorageValueProofs ----
(***************************************************************************)
(* The commands on one value: whatever they find under a key, a value or   *)
(* nothing, they leave a value there, or what they found; and a number     *)
(* written as text is read back as the same number.                        *)
(***************************************************************************)
EXTENDS StorageValue, DataLemmas

Cells == StorageValues \cup {Absent}

-----------------------------------------------------------------------------
(* What a value is made of *)

LEMMA ValueTypes ==
    /\ \A t \in Texts : String(t) \in StorageValues
    /\ \A l \in Seq(Texts) : List(l) \in StorageValues
    /\ \A s \in SUBSET Texts : Set(s) \in StorageValues
BY DEF String, List, Set, StorageValues

LEMMA PartTypes ==
    ASSUME NEW v \in Cells, v # Absent
    PROVE  /\ v.type = "String" => v.string \in Texts
           /\ v.type = "List" => v.list \in Seq(Texts)
           /\ v.type = "Set" => v.set \in SUBSET Texts
BY DEF Cells, StorageValues

-----------------------------------------------------------------------------
(* Strings *)

LEMMA ReadersLeave ==
    ASSUME NEW v, NEW text, NEW index, NEW ini, NEW end
    PROVE  /\ get(v).value = v /\ strlen(v).value = v /\ get_type(v).value = v
           /\ lindex(v, index).value = v /\ llen(v).value = v /\ lrange(v, ini, end).value = v
           /\ sismember(v, text).value = v /\ scard(v).value = v /\ smembers(v).value = v
BY DEF get, strlen, get_type, lindex, llen, lrange, sismember, scard, smembers,
       NotAList, NotASet, Leaves

LEMMA AppendLeaves ==
    ASSUME NEW v \in Cells, NEW text \in Texts
    PROVE  append(v, text).value \in StorageValues \cup {v}
<1>1. CASE v # Absent /\ v.type = "String"
  <2>1. v.string \o text \in Texts
    BY <1>1, PartTypes, ConcatLength DEF Texts
  <2> QED BY <1>1, <2>1, ValueTypes DEF append, Leaves, Cells
<1>2. CASE ~(v # Absent /\ v.type = "String")
  BY <1>2 DEF append, Leaves
<1> QED BY <1>1, <1>2

-----------------------------------------------------------------------------
(* Numbers *)

\* DigitsOf takes the digits off from the end.
LEMMA DigitsSteps ==
    ASSUME NEW n \in Nat
    PROVE  \E digits : /\ DigitsOf(n) = digits[n]
                       /\ \A m \in 0..n : digits[m] = IF m < 10 THEN <<m>>
                                                      ELSE Append(digits[m \div 10], m % 10)
<1> DEFINE F(f, k) == f = [m \in 0..k |-> IF m < 10 THEN <<m>> ELSE Append(f[m \div 10], m % 10)]
           N == {k \in Nat : \E f : F(f, k)}
<1>1. \E f : F(f, 0)
  <2> DEFINE f == [m \in 0..0 |-> <<m>>]
  <2>1. \A m \in 0..0 : m < 10
    OBVIOUS
  <2>2. F(f, 0)
    BY <2>1
  <2> QED BY <2>2
<1>2. ASSUME NEW k \in Nat, NEW f, F(f, k) PROVE \E g : F(g, k + 1)
  <2> DEFINE last == IF k + 1 < 10 THEN <<k + 1>> ELSE Append(f[(k + 1) \div 10], (k + 1) % 10)
             g == [m \in 0..(k + 1) |-> IF m = k + 1 THEN last ELSE f[m]]
  <2>1. g[k + 1] = last /\ \A m \in 0..k : g[m] = f[m]
    <3> HIDE DEF last
    <3> QED OBVIOUS
  <2>2. \A m \in 0..k : f[m] = IF m < 10 THEN <<m>> ELSE Append(f[m \div 10], m % 10)
    BY <1>2
  <2>3. g = [m \in 0..(k + 1) |-> g[m]]
    OBVIOUS
  <2> HIDE DEF g
  <2>4. ASSUME NEW m \in 0..(k + 1)
        PROVE  g[m] = IF m < 10 THEN <<m>> ELSE Append(g[m \div 10], m % 10)
    <3>0. m >= 10 => m \div 10 \in 0..k
      OBVIOUS
    <3>1. CASE m = k + 1
      BY <3>0, <3>1, <2>1
    <3>2. CASE m # k + 1
      <4>1. m \in 0..k
        BY <3>2
      <4> QED BY <4>1, <3>0, <2>1, <2>2
    <3> QED BY <3>1, <3>2
  <2> QED BY <2>3, <2>4
<1> HIDE DEF F
<1>3. 0 \in N /\ \A k \in Nat : k \in N => k + 1 \in N
  BY <1>1, <1>2
<1> HIDE DEF N
<1>4. n \in N
  BY <1>3, Induction
<1>5. \E f : F(f, n)
  BY <1>4 DEF N
<1> DEFINE digits == CHOOSE f : F(f, n)
<1>6. F(digits, n)
  BY <1>5
<1>7. DigitsOf(n) = digits[n]
  BY DEF DigitsOf, F
<1> HIDE DEF digits
<1>8. \A m \in 0..n : digits[m] = IF m < 10 THEN <<m>> ELSE Append(digits[m \div 10], m % 10)
  BY <1>6 DEF F
<1> QED BY <1>7, <1>8, Zenon

\* A number is written with digits, one at least.
LEMMA DigitsType ==
    ASSUME NEW n \in Nat
    PROVE  DigitsOf(n) \in Seq(0..9) /\ DigitsOf(n) # <<>>
<1>1. PICK digits : /\ DigitsOf(n) = digits[n]
                    /\ \A m \in 0..n : digits[m] = IF m < 10 THEN <<m>>
                                                   ELSE Append(digits[m \div 10], m % 10)
  BY DigitsSteps
<1> DEFINE Good(t) == t \in Seq(0..9) /\ t # <<>>
           N == {k \in Nat : \A m \in 0..k : m \in 0..n => Good(digits[m])}
<1>2. ASSUME NEW m \in 0..n, \A j \in 0..(m - 1) : Good(digits[j]) PROVE Good(digits[m])
  <2>1. CASE m < 10
    <3>1. m \in 0..9
      BY <2>1
    <3>2. digits[m] = <<m>>
      BY <1>1, <2>1
    <3>3. <<m>> \in Seq(0..9) /\ <<m>> # <<>>
      BY <3>1, OneElement
    <3> QED BY <3>2, <3>3
  <2>2. CASE ~(m < 10)
    <3>1. m \div 10 \in 0..(m - 1) /\ m % 10 \in 0..9
      BY <2>2
    <3>2. digits[m] = Append(digits[m \div 10], m % 10)
      BY <1>1, <2>2
    <3>3. Good(digits[m \div 10])
      BY <1>2, <3>1
    <3> QED BY <3>1, <3>2, <3>3, AppendType
  <2> QED BY <2>1, <2>2
<1> HIDE DEF Good
<1>3. 0 \in N
  <2>1. \A m \in 0..0 : m = 0 /\ 0..(m - 1) = {}
    OBVIOUS
  <2> QED BY <1>2, <2>1
<1>4. ASSUME NEW k \in Nat, k \in N PROVE k + 1 \in N
  <2> SUFFICES ASSUME NEW m \in 0..(k + 1), m \in 0..n PROVE Good(digits[m])
    OBVIOUS
  <2>1. \A j \in 0..(m - 1) : j \in 0..k /\ j \in 0..n
    OBVIOUS
  <2>2. \A j \in 0..(m - 1) : Good(digits[j])
    BY <2>1, <1>4
  <2> QED BY <2>2, <1>2
<1> HIDE DEF N
<1>5. n \in N
  BY <1>3, <1>4, Induction
<1>6. Good(digits[n])
  BY <1>5 DEF N
<1> QED BY <1>1, <1>6 DEF Good

\* to_string gives a text.
LEMMA TextOfType ==
    ASSUME NEW n \in Int
    PROVE  TextOf(n) \in Texts
<1>1. \A m \in Nat : DigitsOf(m) \in Texts
  <2> SUFFICES ASSUME NEW m \in Nat PROVE DigitsOf(m) \in Texts
    OBVIOUS
  <2>1. DigitsOf(m) \in Seq(0..9)
    BY DigitsType
  <2> HIDE DEF DigitsOf
  <2> QED BY <2>1 DEF Texts
<1>2. CASE n < 0
  <2>1. -n \in Nat /\ <<Minus>> \in Texts
    BY <1>2 DEF Minus, Texts
  <2>2. DigitsOf(-n) \in Texts
    BY <1>1, <2>1
  <2>3. <<Minus>> \o DigitsOf(-n) \in Texts
    BY <2>1, <2>2, ConcatLength DEF Texts
  <2> QED BY <1>2, <2>3 DEF TextOf
<1>3. CASE ~(n < 0)
  BY <1>1, <1>3 DEF TextOf
<1> QED BY <1>2, <1>3

\* i32 arithmetic stays within its width.
LEMMA WrapType ==
    ASSUME NEW n \in Int
    PROVE  Wrap(n) \in Int /\ InRange(Wrap(n))
<1>1. MaxInt \in Nat
  BY IntAssumption
<1> DEFINE width == 2 * (MaxInt + 1)
<1>2. width \in Nat /\ width > 0 /\ n + MaxInt + 1 \in Int
  BY <1>1
<1>3. \A w \in Nat \ {0}, m \in Int : m % w \in 0..(w - 1)
  OBVIOUS
<1>4. (n + MaxInt + 1) % width \in 0..(width - 1)
  <2> HIDE DEF width
  <2> QED BY <1>2, <1>3
<1> QED BY <1>1, <1>4 DEF Wrap, InRange

LEMMA DecrbyLeaves ==
    ASSUME NEW v \in Cells, NEW decr \in Int
    PROVE  decrby(v, decr).value \in StorageValues \cup {v}
<1>1. CASE v # Absent /\ v.type = "String" /\ IsInteger(v.string)
  <2> DEFINE n == Wrap(NumberOf(v.string) - decr)
  <2>1. NumberOf(v.string) \in Int
    BY <1>1, IntAssumption DEF IsInteger, InRange
  <2>2. n \in Int
    BY <2>1, WrapType
  <2>3. TextOf(n) \in Texts
    BY <2>2, TextOfType
  <2>4. decrby(v, decr).value = String(TextOf(n))
    BY <1>1 DEF decrby, Leaves
  <2> HIDE DEF n
  <2> QED BY <2>3, <2>4, ValueTypes
<1>2. CASE ~(v # Absent /\ v.type = "String" /\ IsInteger(v.string))
  BY <1>2 DEF decrby, Leaves
<1> QED BY <1>1, <1>2

-----------------------------------------------------------------------------
(* Lists *)

LEMMA ReverseType ==
    ASSUME NEW S, NEW s \in Seq(S)
    PROVE  Reverse(s) \in Seq(S) /\ Len(Reverse(s)) = Len(s)
<1>1. Len(s) \in Nat /\ \A i \in 1..Len(s) : s[i] \in S
  BY LenProperties
<1>2. \A i \in 1..Len(s) : s[(Len(s) - i) + 1] \in S
  BY <1>1
<1> QED BY <1>1, <1>2 DEF Reverse

LEMMA RemoveFirstType ==
    ASSUME NEW S, NEW s \in Seq(S), NEW e
    PROVE  RemoveFirst(s, e) \in Seq(S)
<1>1. CASE \E i \in 1..Len(s) : s[i] = e
  <2> DEFINE I == {i \in 1..Len(s) : s[i] = e}
             p == SelectInSeq(s, LAMBDA v : v = e)
  <2>1. I # {} /\ I \in SUBSET Nat
    BY <1>1, LenProperties
  <2>2. p = Min(I)
    BY <2>1 DEF SelectInSeq
  <2>3. RemoveFirst(s, e) = RemoveAt(s, p)
    BY <1>1 DEF RemoveFirst
  <2> HIDE DEF I, p
  <2>4. Min(I) \in I
    BY <2>1, LeastNumber DEF Min
  <2>5. p \in DOMAIN s
    BY <2>2, <2>4, LenProperties DEF I
  <2> QED BY <2>3, <2>5, RemoveAtType
<1>2. CASE ~\E i \in 1..Len(s) : s[i] = e
  BY <1>2 DEF RemoveFirst
<1> QED BY <1>1, <1>2

LEMMA RemoveTimesSteps ==
    ASSUME NEW list, NEW text, NEW n \in Nat
    PROVE  \E after : /\ RemoveTimes(list, text, n) = after[n]
                      /\ after[0] = list
                      /\ \A i \in 1..n : after[i] = RemoveFirst(after[i - 1], text)
<1> DEFINE F(f, m) == f = [i \in 0..m |-> IF i = 0 THEN list ELSE RemoveFirst(f[i - 1], text)]
           N == {m \in Nat : \E f : F(f, m)}
<1>1. \E f : F(f, 0)
  <2> DEFINE f == [i \in 0..0 |-> list]
  <2>1. F(f, 0)
    OBVIOUS
  <2> QED BY <2>1
<1>2. ASSUME NEW m \in Nat, NEW f, F(f, m) PROVE \E g : F(g, m + 1)
  <2> DEFINE last == RemoveFirst(f[m], text)
             g == [i \in 0..(m + 1) |-> IF i = m + 1 THEN last ELSE f[i]]
  <2>1. g[m + 1] = last /\ \A i \in 0..m : g[i] = f[i]
    <3> HIDE DEF last
    <3> QED OBVIOUS
  <2>2. \A i \in 0..m : f[i] = IF i = 0 THEN list ELSE RemoveFirst(f[i - 1], text)
    BY <1>2
  <2>3. g = [i \in 0..(m + 1) |-> g[i]]
    OBVIOUS
  <2> HIDE DEF g
  <2>4. ASSUME NEW i \in 0..(m + 1)
        PROVE  g[i] = IF i = 0 THEN list ELSE RemoveFirst(g[i - 1], text)
    <3>1. CASE i = m + 1
      BY <3>1, <2>1
    <3>2. CASE i # m + 1
      <4>1. i \in 0..m /\ (i # 0 => i - 1 \in 0..m)
        BY <3>2
      <4> QED BY <4>1, <2>1, <2>2
    <3> QED BY <3>1, <3>2
  <2> QED BY <2>3, <2>4
<1> HIDE DEF F
<1>3. 0 \in N /\ \A m \in Nat : m \in N => m + 1 \in N
  BY <1>1, <1>2
<1> HIDE DEF N
<1>4. n \in N
  BY <1>3, Induction
<1>5. \E f : F(f, n)
  BY <1>4 DEF N
<1> DEFINE after == CHOOSE f : F(f, n)
<1>6. F(after, n)
  BY <1>5
<1>7. RemoveTimes(list, text, n) = after[n]
  BY DEF RemoveTimes, F
<1> HIDE DEF after
<1>8. \A i \in 0..n : after[i] = IF i = 0 THEN list ELSE RemoveFirst(after[i - 1], text)
  BY <1>6 DEF F
<1>9. after[0] = list /\ \A i \in 1..n : after[i] = RemoveFirst(after[i - 1], text)
  BY <1>8
<1> QED BY <1>7, <1>9, Zenon

LEMMA RemoveTimesType ==
    ASSUME NEW S, NEW list \in Seq(S), NEW text, NEW n \in Nat
    PROVE  RemoveTimes(list, text, n) \in Seq(S)
<1>1. PICK after : /\ RemoveTimes(list, text, n) = after[n]
                   /\ after[0] = list
                   /\ \A i \in 1..n : after[i] = RemoveFirst(after[i - 1], text)
  BY RemoveTimesSteps
<1> DEFINE N == {i \in Nat : i \in 0..n => after[i] \in Seq(S)}
<1>2. 0 \in N
  BY <1>1
<1>3. ASSUME NEW i \in Nat, i \in N PROVE i + 1 \in N
  <2> SUFFICES ASSUME i + 1 \in 0..n PROVE after[i + 1] \in Seq(S)
    OBVIOUS
  <2>1. i \in 0..n /\ i + 1 \in 1..n /\ (i + 1) - 1 = i
    OBVIOUS
  <2>2. after[i] \in Seq(S) /\ after[i + 1] = RemoveFirst(after[i], text)
    BY <1>1, <1>3, <2>1
  <2> QED BY <2>2, RemoveFirstType
<1> HIDE DEF N
<1>4. n \in N
  BY <1>2, <1>3, Induction
<1> QED BY <1>1, <1>4 DEF N

LEMMA LremLeaves ==
    ASSUME NEW v \in Cells, NEW count \in Int, NEW text
    PROVE  lrem(v, count, text).value \in StorageValues \cup {v}
<1>1. CASE IsList(v)
  <2>0. v.list \in Seq(Texts)
    BY <1>1, PartTypes DEF IsList
  <2>1. CASE count > 0
    <3>1. RemoveTimes(v.list, text, count) \in Seq(Texts)
      BY <2>0, <2>1, RemoveTimesType
    <3>2. lrem(v, count, text).value = List(RemoveTimes(v.list, text, count))
      BY <1>1, <2>1 DEF lrem, RemoveFromEnd, Leaves
    <3> QED BY <3>1, <3>2, ValueTypes
  <2>2. CASE count < 0
    <3>1. -count \in Nat /\ Reverse(v.list) \in Seq(Texts)
      BY <2>0, <2>2, ReverseType
    <3>2. RemoveTimes(Reverse(v.list), text, -count) \in Seq(Texts)
      BY <3>1, RemoveTimesType
    <3>3. Reverse(RemoveTimes(Reverse(v.list), text, -count)) \in Seq(Texts)
      BY <3>2, ReverseType
    <3>4. lrem(v, count, text).value = List(Reverse(RemoveTimes(Reverse(v.list), text, -count)))
      BY <1>1, <2>2 DEF lrem, RemoveFromEnd, Leaves
    <3> QED BY <3>3, <3>4, ValueTypes
  <2>3. CASE count = 0
    <3>1. Without(v.list, {text}) \in Seq(Texts)
      BY <2>0, WithoutProperties
    <3>2. lrem(v, count, text).value = List(Without(v.list, {text}))
      BY <1>1, <2>3 DEF lrem, Leaves
    <3> QED BY <3>1, <3>2, ValueTypes
  <2> QED BY <2>1, <2>2, <2>3
<1>2. CASE ~IsList(v)
  BY <1>2 DEF lrem, NotAList, Leaves
<1> QED BY <1>1, <1>2

LEMMA PopLeaves ==
    ASSUME NEW v \in Cells
    PROVE  /\ lpop(v).value \in StorageValues \cup {v}
           /\ rpop(v).value \in StorageValues \cup {v}
<1>1. CASE IsList(v) /\ v.list # <<>>
  <2>1. v.list \in Seq(Texts) /\ Len(v.list) \in Nat \ {0}
    BY <1>1, PartTypes, EmptySeq, LenProperties DEF IsList
  <2>2. Tail(v.list) \in Seq(Texts)
    BY <1>1, <2>1, HeadTailProperties
  <2>3. Front(v.list) \in Seq(Texts)
    BY <2>1, LenProperties, SubSeqProperties DEF Front
  <2>4. lpop(v).value = List(Tail(v.list)) /\ rpop(v).value = List(Front(v.list))
    BY <1>1 DEF lpop, rpop, Leaves
  <2> QED BY <2>2, <2>3, <2>4, ValueTypes
<1>2. CASE ~(IsList(v) /\ v.list # <<>>)
  BY <1>2 DEF lpop, rpop, NotAList, Leaves
<1> QED BY <1>1, <1>2

LEMMA PushLeaves ==
    ASSUME NEW v \in Cells, NEW text \in Texts, NEW texts \in Seq(Texts)
    PROVE  /\ lpush_one(v, text).value \in StorageValues \cup {v}
           /\ rpush(v, texts).value \in StorageValues \cup {v}
           /\ lpushx(v, texts).value \in StorageValues \cup {v}
           /\ rpushx(v, texts).value \in StorageValues \cup {v}
<1>1. CASE IsList(v)
  <2>1. v.list \in Seq(Texts) /\ <<text>> \in Seq(Texts) /\ Reverse(texts) \in Seq(Texts)
    BY <1>1, PartTypes, OneElement, ReverseType DEF IsList
  <2>2. /\ <<text>> \o v.list \in Seq(Texts) /\ v.list \o texts \in Seq(Texts)
        /\ Reverse(texts) \o v.list \in Seq(Texts)
    BY <2>1, ConcatLength
  <2>3. /\ lpush_one(v, text).value = List(<<text>> \o v.list)
        /\ rpush(v, texts).value = List(v.list \o texts)
        /\ lpushx(v, texts).value = List(Reverse(texts) \o v.list)
        /\ rpushx(v, texts).value = List(v.list \o texts)
    BY <1>1 DEF lpush_one, rpush, lpushx, rpushx, Pushed, Leaves
  <2> QED BY <2>2, <2>3, ValueTypes
<1>2. CASE ~IsList(v)
  BY <1>2 DEF lpush_one, rpush, lpushx, rpushx, NotAList, Leaves
<1> QED BY <1>1, <1>2

LEMMA LsetLeaves ==
    ASSUME NEW v \in Cells, NEW index \in Nat, NEW text \in Texts
    PROVE  lset(v, index, text).value \in StorageValues \cup {v}
<1>1. CASE IsList(v) /\ index < Len(v.list)
  <2>1. v.list \in Seq(Texts) /\ index + 1 \in DOMAIN v.list
    BY <1>1, PartTypes, LenProperties DEF IsList
  <2>2. ReplaceAt(v.list, index + 1, text) \in Seq(Texts)
    BY <2>1, ReplaceAtType
  <2>3. lset(v, index, text).value = List(ReplaceAt(v.list, index + 1, text))
    BY <1>1 DEF lset, Leaves
  <2> QED BY <2>2, <2>3, ValueTypes
<1>2. CASE ~(IsList(v) /\ index < Len(v.list))
  BY <1>2 DEF lset, NotAList, Leaves
<1> QED BY <1>1, <1>2

-----------------------------------------------------------------------------
(* Sets *)

LEMMA SetLeaves ==
    ASSUME NEW v \in Cells, NEW text \in Texts, NEW texts
    PROVE  /\ sadd_one(v, text).value \in StorageValues \cup {v}
           /\ srem(v, texts).value \in StorageValues \cup {v}
<1>1. CASE IsSet(v)
  <2>1. v.set \in SUBSET Texts
    BY <1>1, PartTypes DEF IsSet
  <2>2. v.set \cup {text} \in SUBSET Texts /\ v.set \ ToSet(texts) \in SUBSET Texts
    BY <2>1
  <2>3. /\ sadd_one(v, text).value = Set(v.set \cup {text})
        /\ srem(v, texts).value = Set(v.set \ ToSet(texts))
    BY <1>1 DEF sadd_one, srem, Leaves
  <2> QED BY <2>2, <2>3, ValueTypes
<1>2. CASE ~IsSet(v)
  BY <1>2 DEF sadd_one, srem, NotASet, Leaves
<1> QED BY <1>1, <1>2

-----------------------------------------------------------------------------
(* Numbers written and read again *)

\* The remainder of a number up to one width outside the range.
LEMMA ModNear ==
    ASSUME NEW w \in Nat \ {0}, NEW a \in 0..(w - 1)
    PROVE  a % w = a /\ (a + w) % w = a /\ (a - w) % w = a
OBVIOUS

\* So wrapping adds or takes away one width at most, within three of them.
LEMMA WrapNear ==
    ASSUME NEW x \in Int, InRange(x)
    PROVE  /\ Wrap(x) = x
           /\ Wrap(x + 2 * (MaxInt + 1)) = x
           /\ Wrap(x - 2 * (MaxInt + 1)) = x
<1> DEFINE w == 2 * (MaxInt + 1)
           a == x + MaxInt + 1
<1>1. MaxInt \in Nat \ {0}
  BY IntAssumption
<1>2. w \in Nat \ {0} /\ a \in 0..(w - 1)
  BY <1>1 DEF InRange
<1>3. (x + w) + MaxInt + 1 = a + w /\ (x - w) + MaxInt + 1 = a - w /\ a - (MaxInt + 1) = x
  BY <1>1
<1> HIDE DEF w, a
<1>4. a % w = a /\ (a + w) % w = a /\ (a - w) % w = a
  BY <1>2, ModNear
<1>5. /\ Wrap(x) = (a % w) - (MaxInt + 1)
      /\ Wrap(x + w) = ((a + w) % w) - (MaxInt + 1)
      /\ Wrap(x - w) = ((a - w) % w) - (MaxInt + 1)
  BY <1>3 DEF Wrap, w, a
<1> QED BY <1>3, <1>4, <1>5 DEF w

\* The digits are read from the front.
LEMMA ValueSteps ==
    ASSUME NEW digits, Len(digits) \in Nat
    PROVE  \E upto : /\ ValueOf(digits) = upto[Len(digits)]
                     /\ upto[0] = 0
                     /\ \A n \in 1..Len(digits) : upto[n] = 10 * upto[n - 1] + digits[n]
<1> DEFINE Step(before, n) == 10 * before + digits[n]
           F(f, m) == f = [n \in 0..m |-> IF n = 0 THEN 0 ELSE Step(f[n - 1], n)]
           N == {m \in Nat : \E f : F(f, m)}
<1> HIDE DEF Step
<1>1. \E f : F(f, 0)
  <2> DEFINE f == [n \in 0..0 |-> 0]
  <2>1. F(f, 0)
    OBVIOUS
  <2> QED BY <2>1
<1>2. ASSUME NEW m \in Nat, NEW f, F(f, m) PROVE \E g : F(g, m + 1)
  <2> DEFINE last == Step(f[m], m + 1)
             g == [n \in 0..(m + 1) |-> IF n = m + 1 THEN last ELSE f[n]]
  <2>1. g[m + 1] = last /\ \A n \in 0..m : g[n] = f[n]
    <3> HIDE DEF last
    <3> QED OBVIOUS
  <2>2. \A n \in 0..m : f[n] = IF n = 0 THEN 0 ELSE Step(f[n - 1], n)
    BY <1>2
  <2>3. g = [n \in 0..(m + 1) |-> g[n]]
    OBVIOUS
  <2> HIDE DEF g
  <2>4. ASSUME NEW n \in 0..(m + 1) PROVE g[n] = IF n = 0 THEN 0 ELSE Step(g[n - 1], n)
    <3>1. CASE n = m + 1
      BY <3>1, <2>1
    <3>2. CASE n # m + 1
      <4>1. n \in 0..m /\ (n # 0 => n - 1 \in 0..m)
        BY <3>2
      <4> QED BY <4>1, <2>1, <2>2
    <3> QED BY <3>1, <3>2
  <2> QED BY <2>3, <2>4
<1> HIDE DEF F
<1>3. 0 \in N /\ \A m \in Nat : m \in N => m + 1 \in N
  BY <1>1, <1>2
<1> HIDE DEF N
<1>4. Len(digits) \in N
  BY <1>3, Induction
<1>5. \E f : F(f, Len(digits))
  BY <1>4 DEF N
<1> DEFINE upto == CHOOSE f : F(f, Len(digits))
<1>6. F(upto, Len(digits))
  BY <1>5
<1>7. ValueOf(digits) = upto[Len(digits)]
  BY DEF ValueOf, F, Step
<1> HIDE DEF upto
<1>8. \A n \in 0..Len(digits) : upto[n] = IF n = 0 THEN 0 ELSE Step(upto[n - 1], n)
  BY <1>6 DEF F
<1>9. upto[0] = 0
  BY <1>8
<1>10. \A n \in 1..Len(digits) : upto[n] = 10 * upto[n - 1] + digits[n]
  BY <1>8 DEF Step
<1> QED BY <1>7, <1>9, <1>10, Zenon

\* Two texts with the same beginning have the same value so far.
LEMMA ValueOfAppend ==
    ASSUME NEW s \in Seq(Nat), NEW d \in Nat
    PROVE  ValueOf(Append(s, d)) = 10 * ValueOf(s) + d
<1> DEFINE t == Append(s, d)
<1>1. /\ Len(s) \in Nat /\ t \in Seq(Nat) /\ Len(t) = Len(s) + 1
      /\ t[Len(s) + 1] = d /\ \A n \in 1..Len(s) : t[n] = s[n]
  BY LenProperties, AppendType
<1> HIDE DEF t
<1>2. PICK u : /\ ValueOf(s) = u[Len(s)]
               /\ u[0] = 0
               /\ \A n \in 1..Len(s) : u[n] = 10 * u[n - 1] + s[n]
  <2>1. Len(s) \in Nat
    BY <1>1
  <2> QED BY <2>1, ValueSteps
<1>3. PICK w : /\ ValueOf(t) = w[Len(t)]
               /\ w[0] = 0
               /\ \A n \in 1..Len(t) : w[n] = 10 * w[n - 1] + t[n]
  <2>1. Len(t) \in Nat
    BY <1>1
  <2> QED BY <2>1, ValueSteps
<1> DEFINE N == {n \in Nat : n <= Len(s) => w[n] = u[n]}
<1>4. 0 \in N
  BY <1>2, <1>3
<1>5. ASSUME NEW n \in Nat, n \in N PROVE n + 1 \in N
  <2> SUFFICES ASSUME n + 1 <= Len(s) PROVE w[n + 1] = u[n + 1]
    OBVIOUS
  <2>1. n + 1 \in 1..Len(s) /\ n + 1 \in 1..Len(t) /\ (n + 1) - 1 = n /\ w[n] = u[n]
    BY <1>1, <1>5
  <2>2. w[n + 1] = 10 * w[n] + t[n + 1] /\ u[n + 1] = 10 * u[n] + s[n + 1]
    BY <1>2, <1>3, <2>1
  <2> QED BY <1>1, <2>1, <2>2
<1> HIDE DEF N
<1>6. Len(s) \in N
  BY <1>1, <1>4, <1>5, Induction
<1>7. w[Len(s)] = ValueOf(s)
  BY <1>1, <1>2, <1>6 DEF N
<1>8. Len(t) \in 1..Len(t) /\ Len(t) - 1 = Len(s)
  BY <1>1
<1>9. w[Len(t)] = 10 * w[Len(s)] + t[Len(t)]
  BY <1>3, <1>8
<1>10. ValueOf(t) = 10 * ValueOf(s) + d
  BY <1>1, <1>3, <1>7, <1>9
<1> QED BY <1>10 DEF t

\* A number is what its digits say.
LEMMA ValueOfDigits ==
    ASSUME NEW n \in Nat
    PROVE  ValueOf(DigitsOf(n)) = n
<1>0. \A m \in Nat : ValueOf(<<m>>) = m
  <2> SUFFICES ASSUME NEW m \in Nat PROVE ValueOf(<<m>>) = m
    OBVIOUS
  <2> DEFINE t == <<m>>
  <2>1. Len(t) = 1 /\ t[1] = m
    OBVIOUS
  <2> HIDE DEF t
  <2>2. PICK u : /\ ValueOf(t) = u[Len(t)]
                 /\ u[0] = 0
                 /\ \A i \in 1..Len(t) : u[i] = 10 * u[i - 1] + t[i]
    BY <2>1, ValueSteps
  <2>3. u[1] = 10 * u[0] + t[1]
    BY <2>1, <2>2
  <2>4. ValueOf(t) = m
    BY <2>1, <2>2, <2>3
  <2> QED BY <2>4 DEF t
<1>1. PICK digits : /\ DigitsOf(n) = digits[n]
                    /\ \A m \in 0..n : digits[m] = IF m < 10 THEN <<m>>
                                                   ELSE Append(digits[m \div 10], m % 10)
  BY DigitsSteps
<1> DEFINE Good(m) == digits[m] \in Seq(Nat) /\ ValueOf(digits[m]) = m
           N == {k \in Nat : \A m \in 0..k : m \in 0..n => Good(m)}
<1>2. ASSUME NEW m \in 0..n, \A j \in 0..(m - 1) : Good(j) PROVE Good(m)
  <2>1. CASE m < 10
    <3>1. digits[m] = <<m>>
      BY <1>1, <2>1
    <3>2. <<m>> \in Seq(Nat) /\ ValueOf(<<m>>) = m
      BY <1>0, OneElement
    <3> QED BY <3>1, <3>2
  <2>2. CASE ~(m < 10)
    <3>1. m \div 10 \in 0..(m - 1) /\ m % 10 \in Nat /\ m = 10 * (m \div 10) + (m % 10)
      BY <2>2
    <3>2. digits[m] = Append(digits[m \div 10], m % 10)
      BY <1>1, <2>2
    <3>3. Good(m \div 10)
      BY <1>2, <3>1
    <3>4. Append(digits[m \div 10], m % 10) \in Seq(Nat)
      BY <3>1, <3>3, AppendType
    <3>5. ValueOf(Append(digits[m \div 10], m % 10)) = 10 * (m \div 10) + (m % 10)
      BY <3>1, <3>3, ValueOfAppend
    <3> QED BY <3>1, <3>2, <3>4, <3>5
  <2> QED BY <2>1, <2>2
<1> HIDE DEF Good
<1>3. 0 \in N
  <2>1. \A m \in 0..0 : m = 0 /\ 0..(m - 1) = {}
    OBVIOUS
  <2> QED BY <1>2, <2>1
<1>4. ASSUME NEW k \in Nat, k \in N PROVE k + 1 \in N
  <2> SUFFICES ASSUME NEW m \in 0..(k + 1), m \in 0..n PROVE Good(m)
    OBVIOUS
  <2>1. \A j \in 0..(m - 1) : j \in 0..k /\ j \in 0..n
    OBVIOUS
  <2>2. \A j \in 0..(m - 1) : Good(j)
    BY <2>1, <1>4
  <2> QED BY <2>2, <1>2
<1> HIDE DEF N
<1>5. n \in N
  BY <1>3, <1>4, Induction
<1>6. Good(n)
  BY <1>5 DEF N
<1> QED BY <1>1, <1>6 DEF Good

\* What is put before a sequence is its head, and the sequence the tail.
LEMMA PutBefore ==
    ASSUME NEW S, NEW e \in S, NEW s \in Seq(S)
    PROVE  <<e>> \o s # <<>> /\ Head(<<e>> \o s) = e /\ Tail(<<e>> \o s) = s
<1> DEFINE one == <<e>>
           t == one \o s
<1>1. one \in Seq(S) /\ Len(one) = 1 /\ one[1] = e
  BY OneElement
<1> HIDE DEF one
<1>2. t \in Seq(S) /\ Len(t) = 1 + Len(s)
  BY <1>1, ConcatLength
<1>3. t[1] = e /\ \A i \in 1..Len(s) : t[1 + i] = s[i]
  <2>1. /\ \A i \in 1..Len(one) : t[i] = one[i]
        /\ \A i \in 1..Len(s) : t[Len(one) + i] = s[i]
    <3>1. one \in Seq(S) /\ s \in Seq(S)
      BY <1>1
    <3> QED BY <3>1, ConcatElements
  <2> HIDE DEF t
  <2> QED BY <1>1, <2>1
<1> HIDE DEF t
<1>4. Len(s) \in Nat
  BY LenProperties
<1>5. t # <<>>
  BY <1>2, <1>4, EmptySeq
<1>6. /\ Head(t) = t[1] /\ Tail(t) \in Seq(S) /\ Len(Tail(t)) = Len(t) - 1
      /\ \A i \in 1..(Len(t) - 1) : Tail(t)[i] = t[i + 1]
  BY <1>2, <1>5, HeadTailProperties
<1>7. Tail(t) = s
  <2>1. Len(Tail(t)) = Len(s) /\ \A i \in 1..Len(s) : Tail(t)[i] = s[i]
    BY <1>2, <1>3, <1>4, <1>6
  <2> QED BY <1>6, <2>1, SeqEqual
<1> QED BY <1>3, <1>5, <1>6, <1>7 DEF t, one

\* What to_string wrote, parse reads, with the sign.
LEMMA ReadBack ==
    ASSUME NEW x \in Int
    PROVE  IsNumeral(TextOf(x)) /\ NumberOf(TextOf(x)) = x
<1>1. ASSUME NEW n \in Nat
      PROVE  /\ DigitsOf(n) \in Seq(0..9) /\ DigitsOf(n) # <<>>
             /\ \A i \in DOMAIN DigitsOf(n) : DigitsOf(n)[i] \in 0..9
             /\ Head(DigitsOf(n)) \in 0..9
             /\ ValueOf(DigitsOf(n)) = n
  <2> DEFINE d == DigitsOf(n)
  <2>1. d \in Seq(0..9) /\ d # <<>> /\ ValueOf(d) = n
    BY DigitsType, ValueOfDigits
  <2> HIDE DEF d
  <2>2. (\A i \in DOMAIN d : d[i] \in 0..9) /\ Head(d) \in 0..9
    BY <2>1, LenProperties, HeadTailProperties
  <2> QED BY <2>1, <2>2 DEF d
<1>2. CASE x < 0
  <2> DEFINE d == DigitsOf(-x)
             t == <<Minus>> \o d
  <2>0. -x \in Nat
    BY <1>2
  <2>1. d \in Seq(0..9) /\ d # <<>> /\ (\A i \in DOMAIN d : d[i] \in 0..9) /\ ValueOf(d) = -x
    BY <1>1, <2>0
  <2>2. TextOf(x) = t
    BY <1>2 DEF TextOf
  <2> HIDE DEF d
  <2>3. <<Minus>> \in Seq(Int) /\ d \in Seq(Int)
    BY <2>1 DEF Minus
  <2>4. t # <<>> /\ Head(t) = Minus /\ Tail(t) = d
    BY <2>1, <2>3, PutBefore
  <2> HIDE DEF t
  <2>5. Unsigned(t) = d
    BY <2>4 DEF Unsigned
  <2>6. NumberOf(t) = x
    BY <2>1, <2>4, <2>5 DEF NumberOf
  <2> QED BY <2>1, <2>2, <2>5, <2>6 DEF IsNumeral
<1>3. CASE ~(x < 0)
  <2> DEFINE d == DigitsOf(x)
  <2>1. /\ d \in Seq(0..9) /\ d # <<>> /\ (\A i \in DOMAIN d : d[i] \in 0..9)
        /\ Head(d) \in 0..9 /\ ValueOf(d) = x
    BY <1>1, <1>3
  <2>2. TextOf(x) = d
    BY <1>3 DEF TextOf
  <2> HIDE DEF d
  <2>3. Unsigned(d) = d /\ Head(d) # Minus
    BY <2>1 DEF Unsigned, Minus, Plus
  <2>4. NumberOf(d) = x
    BY <2>1, <2>3 DEF NumberOf
  <2> QED BY <2>1, <2>2, <2>3, <2>4 DEF IsNumeral
<1> QED BY <1>2, <1>3

====
