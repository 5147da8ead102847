---- MODULE DataLemmas ----
(***************************************************************************)
(* Facts about numbers and sequences that the proofs about the components  *)
(* need.  Induction over the natural numbers is stated for a set, not for  *)
(* a predicate: a proof names the set of the numbers for which its claim   *)
(* holds.                                                                  *)
(***************************************************************************)
EXTENDS SequencesExt, Integers, Vectors, SequenceTheorems, WellFoundedInduction, TLAPS

-----------------------------------------------------------------------------
(* Numbers *)

\* A set of natural numbers that is not empty has a least element.
LEMMA LeastNumber ==
    ASSUME NEW S \in SUBSET Nat, S # {}
    PROVE  \E n \in S : \A m \in S : n <= m
<1> DEFINE R == OpToRel(<, Nat)
<1>1. IsWellFoundedOn(R, Nat)
  BY NatLessThanWellFounded
<1>2. \A x, y \in Nat : x < y => <<x, y>> \in R
  BY DEF OpToRel
<1> HIDE DEF R
<1>3. PICK n \in S : \A m \in S : ~ (<<m, n>> \in R)
  BY <1>1, WFMin
<1>4. ASSUME NEW m \in S PROVE n <= m
  <2>1. m \in Nat /\ n \in Nat /\ ~ (m < n)
    BY <1>2, <1>3, Zenon
  <2> QED BY <2>1
<1> QED BY <1>4

\* Induction: a set that holds 0, and with a number the next one, holds all.
LEMMA Induction ==
    ASSUME NEW S, 0 \in S, \A n \in Nat : n \in S => n + 1 \in S
    PROVE  Nat \subseteq S
<1> DEFINE Missing == Nat \ S
<1> SUFFICES ASSUME Missing # {} PROVE FALSE
  OBVIOUS
<1>1. PICK n \in Missing : \A m \in Missing : n <= m
  <2> Missing \in SUBSET Nat
    OBVIOUS
  <2> HIDE DEF Missing
  <2> QED BY LeastNumber
<1>2. n # 0 /\ n - 1 \in Nat /\ n - 1 \notin Missing
  BY <1>1
<1> QED BY <1>1, <1>2

\* An even number is the double of its half.
LEMMA EvenNumber ==
    ASSUME NEW x \in Int, x % 2 = 0
    PROVE  x \div 2 \in Int /\ x = 2 * (x \div 2)
OBVIOUS

-----------------------------------------------------------------------------
(* Sequences *)

LEMMA OneElement ==
    ASSUME NEW S, NEW e \in S
    PROVE  <<e>> \in Seq(S) /\ Len(<<e>>) = 1 /\ <<e>>[1] = e
OBVIOUS

LEMMA TwoElements ==
    ASSUME NEW S, NEW e \in S, NEW f \in S
    PROVE  /\ <<e, f>> \in Seq(S) /\ Len(<<e, f>>) = 2
           /\ <<e, f>>[1] = e /\ <<e, f>>[2] = f
OBVIOUS

\* ConcatProperties with the equation on lengths alone.
LEMMA ConcatLength ==
    ASSUME NEW S, NEW s \in Seq(S), NEW t \in Seq(S)
    PROVE  s \o t \in Seq(S) /\ Len(s \o t) = Len(s) + Len(t)
BY ConcatProperties, Zenon

LEMMA AppendType ==
    ASSUME NEW S, NEW s \in Seq(S), NEW e \in S
    PROVE  /\ Append(s, e) \in Seq(S) /\ Len(Append(s, e)) = Len(s) + 1
           /\ \A i \in 1..Len(s) : Append(s, e)[i] = s[i]
           /\ Append(s, e)[Len(s) + 1] = e
OBVIOUS

LEMMA ConcatElements ==
    ASSUME NEW S, NEW s \in Seq(S), NEW t \in Seq(S)
    PROVE  /\ \A i \in 1..Len(s) : (s \o t)[i] = s[i]
           /\ \A i \in 1..Len(t) : (s \o t)[Len(s) + i] = t[i]
OBVIOUS

LEMMA ConcatPart ==
    ASSUME NEW S, NEW s \in Seq(S), NEW t \in Seq(S), NEW n \in 1..Len(t), n = Len(t)
    PROVE  /\ s \o t \in Seq(S) /\ Len(s \o t) = Len(s) + n
           /\ (s \o t)[Len(s) + n] = t[n]
BY ConcatLength, ConcatElements

LEMMA ConcatThree ==
    ASSUME NEW S, NEW s \in Seq(S), NEW t \in Seq(S), NEW u \in Seq(S)
    PROVE  (s \o t) \o u = s \o (t \o u)
BY ConcatAssociative

\* What is appended behind a concatenation is appended to its second part.
LEMMA ConcatAppend ==
    ASSUME NEW S, NEW s \in Seq(S), NEW t \in Seq(S), NEW e \in S
    PROVE  s \o Append(t, e) = Append(s \o t, e)
<1>1. <<e>> \in Seq(S) /\ s \o t \in Seq(S)
  BY OneElement, ConcatLength, Zenon
<1>2. \A u \in Seq(S) : Append(u, e) = u \o <<e>>
  OBVIOUS
<1>3. (s \o t) \o <<e>> = s \o (t \o <<e>>)
  BY <1>1, ConcatAssociative
<1> QED BY <1>1, <1>2, <1>3, Zenon

LEMMA AppendToOne ==
    ASSUME NEW S, NEW e \in S, NEW f \in S
    PROVE  Append(<<e>>, f) = <<e, f>>
<1> DEFINE s == Append(<<e>>, f)
           t == <<e, f>>
<1>1. /\ s \in Seq(S) /\ Len(s) = 2 /\ s[1] = e /\ s[2] = f
  BY OneElement, AppendType
<1>2. /\ t \in Seq(S) /\ Len(t) = 2 /\ t[1] = e /\ t[2] = f
  BY TwoElements
<1> HIDE DEF s, t
<1>3. \A i \in 1..2 : i = 1 \/ i = 2
  OBVIOUS
<1>4. s = t
  BY <1>1, <1>2, <1>3, SeqEqual
<1> QED BY <1>4 DEF s, t

\* A sequence taken apart behind its n-th element.
LEMMA TakenApart ==
    ASSUME NEW S, NEW s \in Seq(S), NEW n \in 1..Len(s)
    PROVE  LET first == SubSeq(s, 1, n)
               rest == SubSeq(s, n + 1, Len(s))
           IN  /\ first \in Seq(S) /\ Len(first) = n
               /\ \A i \in 1..n : first[i] = s[i]
               /\ rest \in Seq(S) /\ Len(rest) = Len(s) - n
               /\ \A i \in 1..(Len(s) - n) : rest[i] = s[n + i]
               /\ first \o rest = s
<1>1. Len(s) \in Nat /\ \A i \in 1..Len(s) : s[i] \in S
  BY LenProperties
<1>2. /\ SubSeq(s, 1, n) \in Seq(S) /\ Len(SubSeq(s, 1, n)) = n
      /\ \A i \in 1..n : SubSeq(s, 1, n)[i] = s[i]
  BY <1>1, SubSeqProperties
<1>3. /\ SubSeq(s, n + 1, Len(s)) \in Seq(S) /\ Len(SubSeq(s, n + 1, Len(s))) = Len(s) - n
      /\ \A i \in 1..(Len(s) - n) : SubSeq(s, n + 1, Len(s))[i] = s[n + i]
  BY <1>1, SubSeqProperties
<1>4. SubSeq(s, 1, n) \o SubSeq(s, n + 1, Len(s)) = s
  BY <1>1, ConcatAdjacentSubSeq, SubSeqFull
<1> QED BY <1>2, <1>3, <1>4

\* Taking out, putting in and replacing one element.
LEMMA RemoveAtType ==
    ASSUME NEW S, NEW s \in Seq(S), NEW i \in DOMAIN s
    PROVE  /\ RemoveAt(s, i) \in Seq(S)
           /\ Len(RemoveAt(s, i)) = Len(s) - 1
<1> DEFINE before == SubSeq(s, 1, i - 1)
           after == SubSeq(s, i + 1, Len(s))
<1>1. /\ Len(s) \in Nat /\ i \in 1..Len(s)
  BY LenProperties
<1>2. /\ before \in Seq(S) /\ Len(before) = i - 1
      /\ after \in Seq(S) /\ Len(after) = Len(s) - i
  BY <1>1, SubSeqProperties
<1>3. RemoveAt(s, i) = before \o after
  BY Zenon DEF RemoveAt
<1> HIDE DEF before, after
<1>4. before \o after \in Seq(S) /\ Len(before \o after) = Len(before) + Len(after)
  BY <1>2, ConcatLength, Zenon
<1> QED BY <1>1, <1>2, <1>3, <1>4

LEMMA InsertAtType ==
    ASSUME NEW S, NEW s \in Seq(S), NEW e \in S, NEW i \in 1..(Len(s) + 1)
    PROVE  /\ InsertAt(s, i, e) \in Seq(S)
           /\ Len(InsertAt(s, i, e)) = Len(s) + 1
<1> DEFINE before == SubSeq(s, 1, i - 1)
           after == SubSeq(s, i, Len(s))
           new == <<e>>
           left == before \o new
<1>1. Len(s) \in Nat
  BY LenProperties
<1>2. /\ before \in Seq(S) /\ Len(before) = i - 1
      /\ after \in Seq(S) /\ Len(after) = Len(s) + 1 - i
  BY <1>1, SubSeqProperties
<1>3. new \in Seq(S) /\ Len(new) = 1
  OBVIOUS
<1>4. InsertAt(s, i, e) = left \o after
  BY Zenon DEF InsertAt
<1> HIDE DEF before, after, new
<1>5. left \in Seq(S) /\ Len(left) = Len(before) + Len(new)
  BY <1>2, <1>3, ConcatLength, Zenon
<1> HIDE DEF left
<1>6. left \o after \in Seq(S) /\ Len(left \o after) = Len(left) + Len(after)
  BY <1>2, <1>5, ConcatLength, Zenon
<1> QED BY <1>1, <1>2, <1>3, <1>4, <1>5, <1>6

LEMMA ReplaceAtType ==
    ASSUME NEW S, NEW s \in Seq(S), NEW i \in DOMAIN s, NEW e \in S
    PROVE  /\ ReplaceAt(s, i, e) \in Seq(S)
           /\ Len(ReplaceAt(s, i, e)) = Len(s)
           /\ Len(s) > 0
BY LenProperties DEF ReplaceAt

\* Where each element is afterwards.
LEMMA RemoveAtElements ==
    ASSUME NEW S, NEW s \in Seq(S), NEW i \in DOMAIN s
    PROVE  \A j \in 1..(Len(s) - 1) : RemoveAt(s, i)[j] = IF j < i THEN s[j] ELSE s[j + 1]
<1> DEFINE before == SubSeq(s, 1, i - 1)
           after == SubSeq(s, i + 1, Len(s))
<1>1. /\ Len(s) \in Nat /\ i \in 1..Len(s)
  BY LenProperties
<1>2. /\ before \in Seq(S) /\ Len(before) = i - 1
      /\ after \in Seq(S) /\ Len(after) = Len(s) - i
      /\ \A j \in 1..(i - 1) : before[j] = s[j]
      /\ \A j \in 1..(Len(s) - i) : after[j] = s[i + j]
  BY <1>1, SubSeqProperties
<1>3. RemoveAt(s, i) = before \o after
  BY Zenon DEF RemoveAt
<1> HIDE DEF before, after
<1>4. /\ \A j \in 1..(i - 1) : (before \o after)[j] = before[j]
      /\ \A j \in 1..(Len(s) - i) : (before \o after)[(i - 1) + j] = after[j]
  <2>1. before \in Seq(S) /\ after \in Seq(S)
    BY <1>2
  <2>2. /\ \A j \in 1..Len(before) : (before \o after)[j] = before[j]
        /\ \A j \in 1..Len(after) : (before \o after)[Len(before) + j] = after[j]
    BY <2>1
  <2>3. Len(before) = i - 1 /\ Len(after) = Len(s) - i
    BY <1>2
  <2> QED BY <2>2, <2>3, Zenon
<1>5. ASSUME NEW j \in 1..(Len(s) - 1)
      PROVE  (before \o after)[j] = IF j < i THEN s[j] ELSE s[j + 1]
  <2>1. CASE j < i
    BY <1>1, <1>2, <1>4, <2>1
  <2>2. CASE ~(j < i)
    <3>1. j - (i - 1) \in 1..(Len(s) - i) /\ j = (i - 1) + (j - (i - 1))
          /\ i + (j - (i - 1)) = j + 1
      BY <1>1, <2>2
    <3>2. (before \o after)[j] = after[j - (i - 1)]
      BY <1>2, <1>4, <3>1
    <3> QED BY <1>2, <2>2, <3>1, <3>2
  <2> QED BY <2>1, <2>2
<1> QED BY <1>3, <1>5

LEMMA InsertAtElements ==
    ASSUME NEW S, NEW s \in Seq(S), NEW e \in S, NEW i \in 1..(Len(s) + 1)
    PROVE  \A j \in 1..(Len(s) + 1) :
               InsertAt(s, i, e)[j] = IF j < i THEN s[j] ELSE IF j = i THEN e ELSE s[j - 1]
<1> DEFINE before == SubSeq(s, 1, i - 1)
           after == SubSeq(s, i, Len(s))
           new == <<e>>
           left == before \o new
<1>1. Len(s) \in Nat
  BY LenProperties
<1>2. /\ before \in Seq(S) /\ Len(before) = i - 1
      /\ after \in Seq(S) /\ Len(after) = Len(s) + 1 - i
      /\ \A j \in 1..(i - 1) : before[j] = s[j]
      /\ \A j \in 1..(Len(s) + 1 - i) : after[j] = s[i + j - 1]
  BY <1>1, SubSeqProperties
<1>3. new \in Seq(S) /\ Len(new) = 1 /\ new[1] = e
  OBVIOUS
<1>4. InsertAt(s, i, e) = left \o after
  BY Zenon DEF InsertAt
<1> HIDE DEF before, after, new
<1>5. /\ left \in Seq(S) /\ Len(left) = i /\ left[i] = e
      /\ \A j \in 1..(i - 1) : left[j] = s[j]
  <2>1. /\ left \in Seq(S) /\ Len(left) = Len(before) + Len(new)
    BY <1>2, <1>3, ConcatLength, Zenon
  <2>2. /\ \A j \in 1..(i - 1) : left[j] = before[j]
        /\ \A j \in 1..1 : left[(i - 1) + j] = new[j]
    <3>1. before \in Seq(S) /\ new \in Seq(S)
      BY <1>2, <1>3
    <3>2. /\ \A j \in 1..Len(before) : left[j] = before[j]
          /\ \A j \in 1..Len(new) : left[Len(before) + j] = new[j]
      BY <3>1, ConcatElements
    <3>3. Len(before) = i - 1 /\ Len(new) = 1
      BY <1>2, <1>3
    <3> QED BY <3>2, <3>3, Zenon
  <2> HIDE DEF left
  <2> QED BY <1>2, <1>3, <2>1, <2>2
<1> HIDE DEF left
<1>6. /\ \A j \in 1..Len(left) : (left \o after)[j] = left[j]
      /\ \A j \in 1..Len(after) : (left \o after)[Len(left) + j] = after[j]
  BY <1>2, <1>5, ConcatElements
<1>7. ASSUME NEW j \in 1..(Len(s) + 1)
      PROVE  (left \o after)[j] = IF j < i THEN s[j] ELSE IF j = i THEN e ELSE s[j - 1]
  <2>1. CASE j <= i
    BY <1>1, <1>5, <1>6, <2>1
  <2>2. CASE j > i
    <3>1. j - i \in 1..(Len(s) + 1 - i) /\ j = i + (j - i) /\ i + (j - i) - 1 = j - 1
      BY <1>1, <2>2
    <3>2. (left \o after)[j] = after[j - i]
      BY <1>2, <1>5, <1>6, <3>1
    <3> QED BY <1>2, <2>2, <3>1, <3>2
  <2>3. j <= i \/ j > i
    BY <1>1
  <2> QED BY <2>1, <2>2, <2>3
<1> QED BY <1>4, <1>7

LEMMA ReplaceAtElements ==
    ASSUME NEW S, NEW s \in Seq(S), NEW i \in DOMAIN s, NEW e \in S
    PROVE  \A j \in 1..Len(s) : ReplaceAt(s, i, e)[j] = IF j = i THEN e ELSE s[j]
BY LenProperties DEF ReplaceAt

\* The first element taken out.
LEMMA TailIsRemove ==
    ASSUME NEW S, NEW s \in Seq(S), s # <<>>
    PROVE  Tail(s) = RemoveAt(s, 1)
<1> DEFINE w == RemoveAt(s, 1)
<1>1. Len(s) \in Nat /\ Len(s) > 0 /\ 1 \in DOMAIN s
  BY LenProperties, EmptySeq
<1>2. w \in Seq(S) /\ Len(w) = Len(s) - 1
  BY <1>1, RemoveAtType
<1>3. \A j \in 1..(Len(s) - 1) : w[j] = s[j + 1]
  <2>1. \A j \in 1..(Len(s) - 1) : w[j] = IF j < 1 THEN s[j] ELSE s[j + 1]
    BY <1>1, RemoveAtElements
  <2> HIDE DEF w
  <2> QED BY <2>1
<1>4. /\ Tail(s) \in Seq(S) /\ Len(Tail(s)) = Len(s) - 1
      /\ \A j \in 1..(Len(s) - 1) : Tail(s)[j] = s[j + 1]
  BY <1>1, HeadTailProperties
<1> HIDE DEF w
<1>5. Tail(s) = w
  BY <1>2, <1>3, <1>4, SeqEqual
<1> QED BY <1>5 DEF w

\* What stands before an appended element is the sequence as it was.
LEMMA AppendedBehind ==
    ASSUME NEW S, NEW s \in Seq(S), NEW e \in S
    PROVE  LET t == Append(s, e)
           IN  t \in Seq(S) /\ Len(t) = Len(s) + 1 /\ SubSeq(t, 1, Len(s)) = s
<1> DEFINE t == Append(s, e)
           u == SubSeq(t, 1, Len(s))
<1>1. /\ t \in Seq(S) /\ Len(t) = Len(s) + 1 /\ \A i \in 1..Len(s) : t[i] = s[i]
  BY AppendType
<1>2. Len(s) \in Nat
  BY LenProperties
<1> HIDE DEF t
<1>3. u \in Seq(S) /\ Len(u) = Len(s) /\ \A i \in 1..Len(s) : u[i] = t[i]
  BY <1>1, <1>2, SubSeqProperties
<1> HIDE DEF u
<1>4. u = s
  BY <1>1, <1>2, <1>3, SeqEqual
<1> QED BY <1>1, <1>4 DEF t, u

\* Where a sequence is searched: 0, or the position of a match.
LEMMA SelectInSeqFinds ==
    ASSUME NEW S, NEW s \in Seq(S), NEW Test(_), SelectInSeq(s, Test) # 0
    PROVE  SelectInSeq(s, Test) \in 1..Len(s) /\ Test(s[SelectInSeq(s, Test)])
<1> DEFINE I == {i \in 1..Len(s) : Test(s[i])}
<1>1. I # {} /\ SelectInSeq(s, Test) = Min(I)
  BY DEF SelectInSeq
<1>2. I \in SUBSET Nat
  BY LenProperties
<1> HIDE DEF I
<1>3. \E n \in I : \A m \in I : n <= m
  BY <1>1, <1>2, LeastNumber
<1>4. Min(I) \in I
  BY <1>3 DEF Min
<1> QED BY <1>1, <1>4 DEF I

-----------------------------------------------------------------------------
(* Lists that elements are taken off *)

\* Without goes through the list from the front.
LEMMA WithoutSteps ==
    ASSUME NEW list, Len(list) \in Nat, NEW elements
    PROVE  \E kept : /\ Without(list, elements) = kept[Len(list)]
                     /\ kept[0] = <<>>
                     /\ \A n \in 1..Len(list) : 
                            kept[n] = IF list[n] \in elements THEN kept[n - 1]
                                      ELSE Append(kept[n - 1], list[n])
<1> DEFINE Step(before, n) == IF list[n] \in elements THEN before ELSE Append(before, list[n])
           F(f, m) == f = [n \in 0..m |-> IF n = 0 THEN <<>> ELSE Step(f[n - 1], n)]
           N == {m \in Nat : \E f : F(f, m)}
<1> HIDE DEF Step
<1>1. \E f : F(f, 0)
  <2> DEFINE f == [n \in 0..0 |-> <<>>]
  <2>1. F(f, 0)
    OBVIOUS
  <2> QED BY <2>1
<1>2. ASSUME NEW m \in Nat, NEW f, F(f, m) PROVE \E g : F(g, m + 1)
  <2> DEFINE last == Step(f[m], m + 1)
             g == [n \in 0..(m + 1) |-> IF n = m + 1 THEN last ELSE f[n]]
  <2>1. g[m + 1] = last /\ \A n \in 0..m : g[n] = f[n]
    <3> HIDE DEF last
    <3> QED OBVIOUS
  <2>2. \A n \in 0..m : f[n] = IF n = 0 THEN <<>> ELSE Step(f[n - 1], n)
    BY <1>2
  <2>3. g = [n \in 0..(m + 1) |-> g[n]]
    OBVIOUS
  <2> HIDE DEF g
  <2>4. ASSUME NEW n \in 0..(m + 1) PROVE g[n] = IF n = 0 THEN <<>> ELSE Step(g[n - 1], n)
    <3>1. CASE n = m + 1
      BY <3>1, <2>1
    <3>2. CASE n # m + 1
      <4>1. n \in 0..m /\ (n # 0 => n - 1 \in 0..m)
        BY <3>2
      <4> QED BY <4>1, <2>1, <2>2
    <3> QED BY <3>1, <3>2
  <2> QED BY <2>3, <2>4
<1> HIDE DEF F
<1>3. 0 \in N /\ \A n \in Nat : n \in N => n + 1 \in N
  BY <1>1, <1>2
<1> HIDE DEF N
<1>4. Len(list) \in N
  BY <1>3, Induction
<1>5. \E f : F(f, Len(list))
  BY <1>4 DEF N
<1> DEFINE kept == CHOOSE f : F(f, Len(list))
<1>6. F(kept, Len(list))
  BY <1>5
<1>7. Without(list, elements) = kept[Len(list)]
  BY DEF Without, F, Step
<1> HIDE DEF kept
<1>8. \A n \in 0..Len(list) : kept[n] = IF n = 0 THEN <<>> ELSE Step(kept[n - 1], n)
  BY <1>6 DEF F
<1>9. kept[0] = <<>>
  BY <1>8
<1>10. \A n \in 1..Len(list) : kept[n] = IF list[n] \in elements THEN kept[n - 1]
                                        ELSE Append(kept[n - 1], list[n])
  BY <1>8 DEF Step
<1> QED BY <1>7, <1>9, <1>10, Zenon

\* What is left is in its old order, and everything is left that is not to go.
LEMMA WithoutProperties ==
    ASSUME NEW S, NEW list \in Seq(S), NEW elements
    PROVE  /\ Without(list, elements) \in Seq(S)
           /\ ToSet(Without(list, elements)) = ToSet(list) \ elements
           /\ \E from \in [1..Len(Without(list, elements)) -> 1..Len(list)] :
                 /\ \A i \in 1..Len(Without(list, elements)) : Without(list, elements)[i] = list[from[i]]
                 /\ \A i, j \in 1..Len(Without(list, elements)) : i < j => from[i] < from[j]
<1>1. Len(list) \in Nat /\ \A n \in 1..Len(list) : list[n] \in S
  BY LenProperties
<1>2. PICK kept : /\ Without(list, elements) = kept[Len(list)]
                  /\ kept[0] = <<>>
                  /\ \A n \in 1..Len(list) : 
                            kept[n] = IF list[n] \in elements THEN kept[n - 1]
                                      ELSE Append(kept[n - 1], list[n])
  BY <1>1, WithoutSteps
<1> DEFINE Good(n, t) ==
              /\ t \in Seq(S)
              /\ \A i \in 1..n : list[i] \notin elements => \E j \in 1..Len(t) : t[j] = list[i]
              /\ \A j \in 1..Len(t) : t[j] \notin elements
              /\ \E from \in [1..Len(t) -> 1..n] :
                    /\ \A j \in 1..Len(t) : t[j] = list[from[j]]
                    /\ \A i, j \in 1..Len(t) : i < j => from[i] < from[j]
<1>3. Good(0, kept[0])
  <2>1. <<>> \in Seq(S) /\ Len(<<>>) = 0
    OBVIOUS
  <2>2. 1..0 = {} /\ [i \in 1..0 |-> 0] \in [1..0 -> 1..0]
    OBVIOUS
  <2> QED BY <1>2, <2>1, <2>2
<1>4. ASSUME NEW n \in Nat, n + 1 \in 1..Len(list), Good(n, kept[n])
      PROVE  Good(n + 1, kept[n + 1])
  <2> DEFINE t == kept[n]
             e == list[n + 1]
  <2>0. kept[n + 1] = IF e \in elements THEN t ELSE Append(t, e)
    <3>1. (n + 1) - 1 = n
      OBVIOUS
    <3> QED BY <1>2, <1>4, <3>1
  <2>1. t \in Seq(S) /\ e \in S /\ Len(t) \in Nat
    BY <1>1, <1>4, LenProperties
  <2>2. PICK from \in [1..Len(t) -> 1..n] :
                    /\ \A j \in 1..Len(t) : t[j] = list[from[j]]
                    /\ \A i, j \in 1..Len(t) : i < j => from[i] < from[j]
    BY <1>4
  <2>3. CASE e \in elements
    <3>1. kept[n + 1] = t
      BY <2>0, <2>3
    <3>2. \A i \in 1..(n + 1) : i \in 1..n \/ i = n + 1
      OBVIOUS
    <3>3. from \in [1..Len(t) -> 1..(n + 1)]
      OBVIOUS
    <3> HIDE DEF t
    <3>4. \A i \in 1..(n + 1) : list[i] \notin elements => \E j \in 1..Len(t) : t[j] = list[i]
      BY <1>4, <2>3, <3>2 DEF t
    <3>5. \E from1 \in [1..Len(t) -> 1..(n + 1)] :
                    /\ \A j \in 1..Len(t) : t[j] = list[from1[j]]
                    /\ \A i, j \in 1..Len(t) : i < j => from1[i] < from1[j]
      BY <2>2, <3>3
    <3>6. t \in Seq(S) /\ \A j \in 1..Len(t) : t[j] \notin elements
      BY <1>4 DEF t
    <3>7. Good(n + 1, t)
      BY <3>4, <3>5, <3>6
    <3> QED BY <3>1, <3>7, Zenon
  <2>4. CASE e \notin elements
    <3> DEFINE u == Append(t, e)
               m == Len(t) + 1
               from1 == [j \in 1..m |-> IF j = m THEN n + 1 ELSE from[j]]
    <3>1. kept[n + 1] = u
      BY <2>0, <2>4
    <3>2. /\ u \in Seq(S) /\ Len(u) = m /\ u[m] = e
          /\ \A j \in 1..Len(t) : u[j] = t[j]
      BY <2>1, AppendType
    <3>3. /\ from1 \in [1..m -> 1..(n + 1)]
          /\ from1[m] = n + 1 /\ \A j \in 1..Len(t) : from1[j] = from[j]
      BY <2>1
    <3>4. \A j \in 1..m : j = m \/ j \in 1..Len(t)
      BY <2>1
    <3> HIDE DEF u, from1
    <3>5. \A j \in 1..m : u[j] = list[from1[j]] /\ u[j] \notin elements
      BY <1>4, <2>2, <2>4, <3>2, <3>3, <3>4
    <3>6. ASSUME NEW i \in 1..m, NEW j \in 1..m, i < j PROVE from1[i] < from1[j]
      <4>1. i \in 1..Len(t)
        BY <2>1, <3>6
      <4>2. from[i] \in 1..n /\ (j # m => from[i] < from[j])
        BY <4>1, <2>2, <3>4, <3>6
      <4> QED BY <3>3, <3>4, <4>1, <4>2
    <3>7. ASSUME NEW i \in 1..(n + 1), list[i] \notin elements PROVE \E j \in 1..m : u[j] = list[i]
      <4>1. CASE i = n + 1
        BY <4>1, <2>1, <3>2
      <4>2. CASE i # n + 1
        <5>1. PICK j \in 1..Len(t) : t[j] = list[i]
          BY <4>2, <1>4, <3>7
        <5> QED BY <5>1, <3>2, <2>1
      <4> QED BY <4>1, <4>2
    <3> QED BY <3>1, <3>2, <3>3, <3>5, <3>6, <3>7
  <2> QED BY <2>3, <2>4
<1> DEFINE N == {n \in Nat : n \in 0..Len(list) => Good(n, kept[n])}
<1> HIDE DEF Good
<1>5. 0 \in N
  BY <1>3
<1>6. ASSUME NEW n \in Nat, n \in N PROVE n + 1 \in N
  <2> SUFFICES ASSUME n + 1 \in 0..Len(list) PROVE Good(n + 1, kept[n + 1])
    OBVIOUS
  <2>1. n \in 0..Len(list) /\ n + 1 \in 1..Len(list)
    BY <1>1
  <2> QED BY <1>4, <1>6, <2>1
<1> HIDE DEF N
<1>7. Len(list) \in N
  BY <1>1, <1>5, <1>6, Induction
<1>8. Good(Len(list), Without(list, elements))
  BY <1>1, <1>2, <1>7 DEF N
<1> DEFINE t == Without(list, elements)
<1> HIDE DEF t
<1>9. t \in Seq(S) /\ DOMAIN t = 1..Len(t) /\ DOMAIN list = 1..Len(list)
  BY <1>8, LenProperties DEF Good, t
<1>10. ToSet(t) = ToSet(list) \ elements
  BY <1>8, <1>9 DEF Good, t, ToSet
<1> QED BY <1>8, <1>9, <1>10 DEF Good, t

LEMMA WithoutNothing ==
    ASSUME NEW elements
    PROVE  Without(<<>>, elements) = <<>>
<1>1. Len(<<>>) = 0
  OBVIOUS
<1>2. \A list : Len(list) \in Nat =>
        \E kept : Without(list, elements) = kept[Len(list)] /\ kept[0] = <<>>
  BY WithoutSteps
<1> QED BY <1>1, <1>2

\* What is left holds nothing twice if the list did not; `f` tells elements apart.
LEMMA WithoutDistinct ==
    ASSUME NEW S, NEW list \in Seq(S), NEW elements, NEW f,
           \A i, j \in 1..Len(list) : f[list[i]] = f[list[j]] => i = j
    PROVE  \A i, j \in 1..Len(Without(list, elements)) :
               f[Without(list, elements)[i]] = f[Without(list, elements)[j]] => i = j
<1> DEFINE t == Without(list, elements)
<1>1. t \in Seq(S) /\ Len(t) \in Nat
  BY WithoutProperties, LenProperties
<1>2. PICK from \in [1..Len(t) -> 1..Len(list)] :
                 /\ \A i \in 1..Len(t) : t[i] = list[from[i]]
                 /\ \A i, j \in 1..Len(t) : i < j => from[i] < from[j]
  BY WithoutProperties
<1> HIDE DEF t
<1>3. ASSUME NEW i \in 1..Len(t), NEW j \in 1..Len(t), f[t[i]] = f[t[j]] PROVE i = j
  <2>1. from[i] = from[j] /\ from[i] \in 1..Len(list) /\ Len(list) \in Nat
    BY <1>2, <1>3, LenProperties
  <2>2. from[i] \in Nat /\ i \in Nat /\ j \in Nat
    BY <1>1, <2>1
  <2>3. ~(i < j) /\ ~(j < i)
    BY <1>2, <2>1, <2>2
  <2> QED BY <2>2, <2>3
<1> QED BY <1>3 DEF t

\* The elements behind the first one.
LEMMA TailSet ==
    ASSUME NEW S, NEW s \in Seq(S), s # <<>>, \A i, j \in 1..Len(s) : s[i] = s[j] => i = j
    PROVE  /\ ToSet(Tail(s)) = ToSet(s) \ {Head(s)}
           /\ \A i, j \in 1..Len(Tail(s)) : Tail(s)[i] = Tail(s)[j] => i = j
<1>1. /\ Len(s) \in Nat \ {0} /\ Len(Tail(s)) = Len(s) - 1 /\ Tail(s) \in Seq(S)
      /\ \A i \in 1..Len(s) - 1 : Tail(s)[i] = s[i + 1]
      /\ Head(s) = s[1]
  BY HeadTailProperties, LenProperties, EmptySeq
<1>2. DOMAIN s = 1..Len(s) /\ DOMAIN Tail(s) = 1..Len(s) - 1
  BY <1>1, LenProperties
<1>3. \A i \in 1..Len(s) - 1 : i + 1 \in 1..Len(s) /\ i + 1 # 1
  BY <1>1
<1>4. \A i \in 1..Len(s) : i # 1 => i - 1 \in 1..Len(s) - 1 /\ (i - 1) + 1 = i
  BY <1>1
<1>5. 1 \in 1..Len(s)
  BY <1>1
<1>6. ASSUME NEW x PROVE x \in ToSet(Tail(s)) <=> x \in ToSet(s) \ {Head(s)}
  <2>1. ASSUME x \in ToSet(Tail(s)) PROVE x \in ToSet(s) \ {Head(s)}
    <3>1. PICK i \in 1..Len(s) - 1 : x = s[i + 1]
      BY <1>1, <1>2, <2>1 DEF ToSet
    <3> QED BY <1>1, <1>2, <1>3, <1>5, <3>1 DEF ToSet
  <2>2. ASSUME x \in ToSet(s) \ {Head(s)} PROVE x \in ToSet(Tail(s))
    <3>1. PICK i \in 1..Len(s) : x = s[i] /\ i # 1
      BY <1>1, <1>2, <2>2 DEF ToSet
    <3>2. x = Tail(s)[i - 1] /\ i - 1 \in DOMAIN Tail(s)
      BY <1>1, <1>2, <1>4, <3>1
    <3> QED BY <3>2 DEF ToSet
  <2> QED BY <2>1, <2>2
<1>7. ASSUME NEW i \in 1..Len(Tail(s)), NEW j \in 1..Len(Tail(s)), Tail(s)[i] = Tail(s)[j] PROVE i = j
  <2>1. i + 1 \in 1..Len(s) /\ j + 1 \in 1..Len(s) /\ s[i + 1] = s[j + 1] /\ i \in Nat /\ j \in Nat
    BY <1>1, <1>3, <1>7
  <2>2. i + 1 = j + 1
    BY <2>1
  <2> QED BY <2>1, <2>2
<1> QED BY <1>6, <1>7

====
