---- MODULE DumpProofs ----
(***************************************************************************)
(* What a restart brings back.  The file is whatever the serializer wrote  *)
(* before the crash; the invariant relates it to what each key has held    *)
(* since the dump began and, for the keys nothing has changed, to the      *)
(* memory itself.                                                          *)
(***************************************************************************)
EXTENDS Dump, DataLemmas, FiniteSetTheorems

-----------------------------------------------------------------------------
(* Sequences and numbers *)

\* A set of natural numbers that is bounded has a greatest element.
LEMMA GreatestNumber ==
    ASSUME NEW n \in Nat, NEW S \in SUBSET (0..n), S # {}
    PROVE  \E m \in S : \A j \in S : j <= m
<1> DEFINE D == {n - m : m \in S}
<1>1. D \in SUBSET Nat /\ D # {}
  <2>1. PICK m \in S : TRUE
    OBVIOUS
  <2>2. n - m \in D /\ \A j \in S : n - j \in Nat
    OBVIOUS
  <2> QED BY <2>2
<1>2. PICK d \in D : \A e \in D : d <= e
  <2> HIDE DEF D
  <2> QED BY <1>1, LeastNumber
<1>3. PICK m \in S : d = n - m
  OBVIOUS
<1>4. ASSUME NEW j \in S PROVE j <= m
  <2>1. n - m <= n - j
    BY <1>2, <1>3
  <2> QED BY <2>1
<1> QED BY <1>4

\* Induction up to a number.
LEMMA InductionTo ==
    ASSUME NEW m \in Nat, NEW S, 0 \in S, \A n \in 0..(m - 1) : n \in S => n + 1 \in S
    PROVE  0..m \subseteq S
<1> DEFINE T == {n \in Nat : n \in 0..m => n \in S}
<1>1. 0 \in T
  OBVIOUS
<1>2. ASSUME NEW n \in Nat, n \in T PROVE n + 1 \in T
  <2>1. n + 1 \in 0..m => n \in 0..(m - 1) /\ n \in 0..m
    OBVIOUS
  <2> QED BY <1>2, <2>1
<1> HIDE DEF T
<1>3. Nat \subseteq T
  BY <1>1, <1>2, Induction
<1> QED BY <1>3 DEF T

\* The elements of a finite set, listed in some order.
LEMMA OrderLists ==
    ASSUME NEW S, IsFiniteSet(S), NEW order \in SetToSeqs(S)
    PROVE  /\ order \in Seq(S)
           /\ \A x \in S : \E i \in DOMAIN order : order[i] = x
           /\ \A i, j \in DOMAIN order : order[i] = order[j] => i = j
<1> DEFINE n == Cardinality(S)
<1>1. n \in Nat
  BY FS_CardinalityType
<1> HIDE DEF n
<1>2. order \in [1..n -> S] /\ \A i, j \in 1..n : i # j => order[i] # order[j]
  BY DEF SetToSeqs, n
<1>3. order \in Seq(S) /\ DOMAIN order = 1..n
  BY <1>1, <1>2
<1>4. order \in Injection(1..n, S)
  BY <1>2 DEF Injection, IsInjective
<1>5. Cardinality(1..n) = n
  BY <1>1, FS_Interval
<1>6. order \in Surjection(1..n, S)
  BY <1>4, <1>5, FS_Injection DEF n
<1>7. \A x \in S : \E i \in 1..n : order[i] = x
  BY <1>6 DEF Surjection
<1> QED BY <1>2, <1>3, <1>7

\* Moving the head of a sequence to the end of another moves the border between
\* them.
LEMMA BorderMoves ==
    ASSUME NEW S, NEW s \in Seq(S), NEW t \in Seq(S), t # <<>>
    PROVE  /\ Append(s, Head(t)) \o Tail(t) = s \o t
           /\ Append(s, Head(t)) \in Seq(S) /\ Tail(t) \in Seq(S) /\ Head(t) \in S
<1>1. Head(t) \in S /\ Tail(t) \in Seq(S) /\ <<Head(t)>> \in Seq(S)
  BY HeadTailProperties, OneElement
<1>2. Append(s, Head(t)) = s \o <<Head(t)>> /\ Append(s, Head(t)) \in Seq(S)
  BY <1>1
<1>3. <<Head(t)>> \o Tail(t) = t
  BY HeadTailProperties, SubSeqFull, TailIsSubSeq, SubSeqRecursiveFirst, EmptySeq, LenProperties
<1>4. (s \o <<Head(t)>>) \o Tail(t) = s \o (<<Head(t)>> \o Tail(t))
  BY <1>1, ConcatThree
<1> QED BY <1>1, <1>2, <1>3, <1>4, Zenon

-----------------------------------------------------------------------------
(* What a value is read back as *)

\* A value; a set is finite.
FiniteValues == {v \in StorageValues : v.type = "Set" => IsFiniteSet(v.set)}
Cells == FiniteValues \cup {Absent}

LEMMA CutAtType ==
    ASSUME NEW text \in Texts, NEW c
    PROVE  CutAt(text, c) \in Texts
<1> DEFINE p == SelectInSeq(text, LAMBDA x : x = c)
<1>1. CASE Has(text, c)
  <2>1. \E i \in 1..Len(text) : text[i] = c
    BY <1>1, LenProperties DEF Has, ToSet, Texts
  <2>2. p # 0 => p \in 1..Len(text)
    BY SelectInSeqFinds DEF Texts
  <2>3. Len(text) \in Nat /\ \A i \in 1..Len(text) : text[i] \in Nat
    BY LenProperties DEF Texts
  <2>4. CutAt(text, c) = SubSeq(text, 1, p - 1)
    BY <1>1 DEF CutAt, PositionOf
  <2> HIDE DEF p
  <2>5. p \in 0..Len(text)
    BY <2>2, <2>3
  <2>6. \A i \in 1..(p - 1) : text[i] \in Nat
    BY <2>3, <2>5
  <2>7. p - 1 \in Int
    BY <2>5
  <2> QED BY <2>4, <2>6, <2>7, SubSeqProperties DEF Texts
<1>2. CASE ~Has(text, c)
  BY <1>2 DEF CutAt
<1> QED BY <1>1, <1>2

LEMMA CutListType ==
    ASSUME NEW list \in Seq(Texts)
    PROVE  CutList(list) \in Seq(Texts)
<1> DEFINE cut == SelectInSeq(list, LAMBDA t : Has(t, Comma))
           whole == SubSeq(list, 1, cut - 1)
           rest == CutAt(list[cut], Comma)
<1>1. cut # 0 => cut \in 1..Len(list)
  BY SelectInSeqFinds
<1>2. Len(list) \in Nat /\ \A i \in 1..Len(list) : list[i] \in Texts
  BY LenProperties
<1>3. \/ CutList(list) = list /\ cut = 0
      \/ cut # 0 /\ CutList(list) \in {whole, Append(whole, rest)}
  BY Zenon DEF CutList
<1> HIDE DEF cut
<1>4. CASE cut # 0
  <2>1. cut - 1 \in Int /\ \A i \in 1..(cut - 1) : list[i] \in Texts
    BY <1>1, <1>2, <1>4
  <2>2. whole \in Seq(Texts)
    BY <2>1, SubSeqProperties
  <2>3. rest \in Texts
    BY <1>1, <1>2, <1>4, CutAtType
  <2> HIDE DEF whole, rest
  <2> QED BY <1>3, <1>4, <2>2, <2>3, AppendType
<1> QED BY <1>3, <1>4

\* What is read back is a value again.
LEMMA RereadType ==
    ASSUME NEW v \in FiniteValues
    PROVE  Reread(v) \subseteq FiniteValues
<1>1. CASE v.type = "String"
  <2>1. v.string \in Texts
    BY <1>1 DEF FiniteValues, StorageValues
  <2>2. CutAt(v.string, Comma) \in Texts
    BY <2>1, CutAtType
  <2>3. Reread(v) = {String(t) : t \in {CutAt(v.string, Comma)} \ {<<>>}}
    BY <1>1 DEF Reread
  <2> QED BY <2>2, <2>3 DEF String, FiniteValues, StorageValues
<1>2. CASE v.type = "List"
  <2>1. v.list \in Seq(Texts)
    BY <1>2 DEF FiniteValues, StorageValues
  <2>2. CutList(v.list) \in Seq(Texts)
    BY <2>1, CutListType
  <2>3. Reread(v) = {List(CutList(v.list))}
    BY <1>2 DEF Reread
  <2> QED BY <2>2, <2>3 DEF List, FiniteValues, StorageValues
<1>3. CASE v.type = "Set"
  <2>1. v.set \in SUBSET Texts /\ IsFiniteSet(v.set)
    BY <1>3 DEF FiniteValues, StorageValues
  <2>2. ASSUME NEW s \in SetToSeqs(v.set)
        PROVE  Set(ToSet(CutList(s))) \in FiniteValues
    <3> DEFINE c == CutList(s)
    <3>1. s \in Seq(Texts)
      BY <2>1, OrderLists, SeqMonotonic
    <3>2. c \in Seq(Texts)
      BY <3>1, CutListType
    <3>3. Len(c) \in Nat /\ DOMAIN c = 1..Len(c) /\ c \in [1..Len(c) -> Texts]
      BY <3>2, LenProperties
    <3> HIDE DEF c
    <3>4. ToSet(c) \in SUBSET Texts /\ c \in Surjection(1..Len(c), ToSet(c))
      BY <3>3 DEF ToSet, Surjection
    <3>5. IsFiniteSet(ToSet(c))
      BY <3>3, <3>4, FS_Surjection, FS_Interval
    <3> QED BY <3>4, <3>5 DEF Set, FiniteValues, StorageValues, c
  <2>3. Reread(v) = {Set(ToSet(CutList(s))) : s \in SetToSeqs(v.set)}
    BY <1>3 DEF Reread
  <2> QED BY <2>2, <2>3
<1>4. v.type \in {"String", "List", "Set"}
  BY DEF FiniteValues, StorageValues
<1> QED BY <1>1, <1>2, <1>3, <1>4

-----------------------------------------------------------------------------
(* Names *)

\* A name without a semicolon is one part; without a comma, it gives no number.
LEMMA OnePart ==
    ASSUME NEW name \in Keys, ~Has(name, Semicolon), ~Has(name, Comma)
    PROVE  /\ DOMAIN Parts[name] = {1}
           /\ LET part == Parts[name][1]
              IN  part.last /\ part.named /\ ~part.comma /\ part.name = CutAt(name, Colon)
<1>1. name \in Seq(Nat)
  BY DumpAssumption DEF Texts
<1>2. SubSeq(name, 1, Len(name)) = name
  BY <1>1, SubSeqFull
<1>3. Starts(name) = {1}
  <2>1. \A i \in DOMAIN name : name[i] # Semicolon
    <3>1. DOMAIN name = 1..Len(name)
      BY <1>1, LenProperties
    <3> QED BY <3>1 DEF Has, ToSet
  <2> QED BY <2>1 DEF Starts
<1>4. Parts[name] = [n \in {1} |-> Part(name, n)]
  BY <1>3 DEF Parts
<1>5. CutAt(name, Semicolon) = name /\ CutAt(name, Comma) = name
  BY DEF CutAt
<1>6. Part(name, 1).last /\ Part(name, 1).named /\ ~Part(name, 1).comma
      /\ Part(name, 1).name = CutAt(name, Colon)
  BY <1>2, <1>5 DEF Part
<1> QED BY <1>4, <1>6

\* A name without punctuation is read as it is.
LEMMA PlainName ==
    ASSUME NEW k \in Keys, Plain(k)
    PROVE  /\ EntryName[k] = k /\ ~Has(k, Comma)
           /\ DOMAIN Parts[k] = {1} /\ Parts[k][1].name = k /\ ~Parts[k][1].comma
<1>1. ~Has(k, Comma) /\ ~Has(k, Colon) /\ ~Has(k, Semicolon)
  BY DEF Plain
<1>2. CutAt(k, Comma) = k /\ CutAt(k, Colon) = k
  BY <1>1 DEF CutAt
<1>3. EntryName[k] = k
  BY <1>2 DEF EntryName
<1> QED BY <1>1, <1>2, <1>3, OnePart

-----------------------------------------------------------------------------
(* Reading the timeouts *)

Limits == AllTimes \cup {Persistent}
Memories == [dictionary : [Keys -> Cells], timeouts : [Keys -> Limits], panicked : BOOLEAN]

\* A timeout in whole seconds, at most as long as the timeout.
FileTimes == [key : Keys, secs : {n \in Nat : n * TicksPerSecond \in AllTimes}]

LEMMA RoundedType ==
    ASSUME NEW t \in AllTimes
    PROVE  t \div TicksPerSecond \in Nat /\ Rounded(t) \in AllTimes
<1>1. TicksPerSecond \in Nat \ {0} /\ MaxTime \in Nat
  BY DumpAssumption
<1>2. CASE t \in Times
  <2>1. t \in Nat /\ t <= MaxTime
    BY <1>1, <1>2 DEF Times
  <2>2. t \div TicksPerSecond \in Nat /\ (t \div TicksPerSecond) * TicksPerSecond \in 0..t
    BY <1>1, <2>1
  <2>3. Rounded(t) \in Times
    BY <1>1, <2>1, <2>2 DEF Rounded, Times
  <2> QED BY <2>2, <2>3 DEF AllTimes
<1>3. CASE t \notin Times
  <2>1. PICK n \in SecondsInNames : t = n * TicksPerSecond
    BY <1>3 DEF AllTimes
  <2>1a. n \in Nat
    <3>1. \A X : n \in X \cap Nat => n \in Nat
      OBVIOUS
    <3> QED BY <2>1, <3>1, Zenon DEF SecondsInNames
  <2>2. t \div TicksPerSecond = n
    BY <1>1, <2>1, <2>1a
  <2> QED BY <2>1, <2>1a, <2>2 DEF Rounded
<1> QED BY <1>2, <1>3

LEMMA WithTimeoutEffect ==
    ASSUME NEW ts \in [Keys -> Limits], NEW name, NEW t \in Limits, NEW k \in Keys
    PROVE  /\ WithTimeout(ts, name, t) \in [Keys -> Limits]
           /\ name = k => WithTimeout(ts, name, t)[k] = t
           /\ name # k /\ (ts[k] # t \/ ts[k] = Persistent) => WithTimeout(ts, name, t)[k] = ts[k]
BY DEF WithTimeout, Limits

\* What one reading does to one key.
LEMMA OneTimeout ==
    ASSUME NEW m \in Memories, NEW name, NEW secs, NEW k \in Keys,
           secs \in Nat => secs * TicksPerSecond \in AllTimes
    PROVE  LET e == Expireat(m, name, secs)
               time == secs * TicksPerSecond
           IN  /\ e \in Memories
               /\ e.dictionary[k] \in {m.dictionary[k], Absent}
               /\ secs \in Nat => e.panicked = m.panicked
               /\ name # k =>
                      e.dictionary[k] = m.dictionary[k]
                      /\ (secs \notin Nat \/ m.timeouts[k] # time \/ m.timeouts[k] = Persistent
                             => e.timeouts[k] = m.timeouts[k])
               /\ name = k /\ m.dictionary[k] # Absent /\ secs \in Nat =>
                     \/ time < now /\ e.dictionary[k] = Absent
                     \/ /\ ~(time < now)
                        /\ e.dictionary[k] = m.dictionary[k] /\ e.timeouts[k] = time
<1> DEFINE time == secs * TicksPerSecond
           e == Expireat(m, name, secs)
           found == m.dictionary[name] # Absent
<1>1. secs \in Nat => time \in Limits
  BY DEF Limits
<1>2. e = CASE ~found -> m
            [] found /\ secs \notin Nat -> [m EXCEPT !.panicked = TRUE]
            [] found /\ secs \in Nat /\ time < now -> [m EXCEPT !.dictionary[name] = Absent]
            [] OTHER -> [m EXCEPT !.timeouts = WithTimeout(@, name, time)]
  BY DEF Expireat
<1> HIDE DEF time, e
<1>3. CASE ~found
  <2>1. e = m
    BY <1>2, <1>3
  <2>2. m.dictionary[k] \in Cells
    BY DEF Memories
  <2> QED BY <1>3, <2>1 DEF time, e
<1>4. CASE found /\ secs \notin Nat
  <2>1. e = [m EXCEPT !.panicked = TRUE]
    BY <1>2, <1>4
  <2>2. /\ e.dictionary = m.dictionary /\ e.timeouts = m.timeouts
        /\ e \in Memories
    BY <2>1 DEF Memories
  <2> QED BY <1>4, <2>2 DEF time, e
<1>5. CASE found /\ secs \in Nat /\ time < now
  <2>1. e = [m EXCEPT !.dictionary[name] = Absent]
    BY <1>2, <1>5
  <2>2. /\ e.dictionary = [m.dictionary EXCEPT ![name] = Absent]
        /\ e.timeouts = m.timeouts /\ e.panicked = m.panicked
        /\ e = [dictionary |-> e.dictionary, timeouts |-> m.timeouts, panicked |-> m.panicked]
    BY <2>1 DEF Memories
  <2>3. e \in Memories
    BY <2>2 DEF Memories, Cells
  <2> QED BY <1>5, <2>2, <2>3 DEF time, e, Memories
<1>6. CASE found /\ secs \in Nat /\ ~(time < now)
  <2>1. e = [m EXCEPT !.timeouts = WithTimeout(@, name, time)]
    BY <1>2, <1>6
  <2>2. /\ e.timeouts = WithTimeout(m.timeouts, name, time)
        /\ e.dictionary = m.dictionary /\ e.panicked = m.panicked
        /\ e = [dictionary |-> m.dictionary, timeouts |-> e.timeouts, panicked |-> m.panicked]
    BY <2>1 DEF Memories
  <2>3. m.timeouts \in [Keys -> Limits]
    BY DEF Memories
  <2>4. e \in Memories
    BY <1>1, <1>6, <2>2, <2>3, WithTimeoutEffect DEF Memories
  <2>5. /\ name = k => e.timeouts[k] = time
        /\ name # k /\ (m.timeouts[k] # time \/ m.timeouts[k] = Persistent) => e.timeouts[k] = m.timeouts[k]
    BY <1>1, <1>6, <2>2, <2>3, WithTimeoutEffect
  <2> QED BY <1>6, <2>2, <2>4, <2>5 DEF time, e
<1> QED BY <1>3, <1>4, <1>5, <1>6

\* A number that is read gives a time.
LEMMA SecondsReadType ==
    ASSUME file.times \in Seq(FileTimes), NEW i \in 1..Len(file.times), NEW n \in Readings(i)
    PROVE  /\ SecondsRead(i, n) \in Nat => SecondsRead(i, n) * TicksPerSecond \in AllTimes
           /\ ~TimeParts(i)[n].comma => SecondsRead(i, n) = file.times[i].secs /\ SecondsRead(i, n) \in Nat
<1>1. file.times[i] \in FileTimes
  BY LenProperties
<1>2. file.times[i].key \in Keys /\ file.times[i].secs \in Nat /\ file.times[i].secs * TicksPerSecond \in AllTimes
  BY <1>1 DEF FileTimes
<1>3. CASE TimeParts(i)[n].comma
  <2>1. PICK name \in DOMAIN Parts : TimeParts(i) = Parts[name]
    BY <1>2 DEF TimeParts, Parts
  <2>2. n \in DOMAIN Parts[name] /\ SecondsRead(i, n) = Parts[name][n].secs
    BY <1>3, <2>1 DEF Readings, SecondsRead
  <2>3. SecondsRead(i, n) \in Nat => SecondsRead(i, n) \in SecondsInNames
    <3> DEFINE Secs(k) == {Parts[k][j].secs : j \in DOMAIN Parts[k]}
    <3>1. SecondsRead(i, n) \in Secs(name)
      BY <2>2
    <3>2. Secs(name) \in {Secs(k) : k \in DOMAIN Parts}
      OBVIOUS
    <3> HIDE DEF Secs
    <3>3. SecondsRead(i, n) \in UNION {Secs(k) : k \in DOMAIN Parts}
      BY <3>1, <3>2
    <3>4. SecondsInNames = (UNION {Secs(k) : k \in DOMAIN Parts}) \cap Nat
      BY Zenon DEF Secs, SecondsInNames
    <3> QED BY <3>3, <3>4, Zenon
  <2>4. SecondsRead(i, n) \in Nat => SecondsRead(i, n) * TicksPerSecond \in AllTimes
    BY <2>3 DEF AllTimes
  <2> QED BY <1>3, <2>4
<1>4. CASE ~TimeParts(i)[n].comma
  BY <1>2, <1>4 DEF SecondsRead
<1> QED BY <1>3, <1>4

\* ExpireRecord goes through the positions of a name from the front.
RecordStep(m, i, n) == IF n \in Readings(i) THEN Expireat(m, NameRead(i, n), SecondsRead(i, n)) ELSE m

LEMMA RecordSteps ==
    ASSUME NEW before, NEW i, Len(file.times[i].key) \in Nat
    PROVE  LET last == Len(file.times[i].key) + 1
           IN  \E upto : /\ ExpireRecord(before, i) = upto[last]
                         /\ upto[0] = before
                         /\ \A n \in 1..last : upto[n] = RecordStep(upto[n - 1], i, n)
<1> DEFINE last == Len(file.times[i].key) + 1
           F(f, m) == f = [n \in 0..m |-> IF n = 0 THEN before
                                          ELSE IF n \in Readings(i)
                                                 THEN Expireat(f[n - 1], NameRead(i, n), SecondsRead(i, n))
                                          ELSE f[n - 1]]
           N == {m \in Nat : \E f : F(f, m)}
<1>1. \E f : F(f, 0)
  <2> DEFINE f == [n \in 0..0 |-> before]
  <2>1. F(f, 0)
    OBVIOUS
  <2> QED BY <2>1
<1>2. ASSUME NEW m \in Nat, NEW f, F(f, m) PROVE \E g : F(g, m + 1)
  <2> DEFINE new == RecordStep(f[m], i, m + 1)
             g == [n \in 0..(m + 1) |-> IF n = m + 1 THEN new ELSE f[n]]
  <2>1. g[m + 1] = new /\ \A n \in 0..m : g[n] = f[n]
    <3> HIDE DEF new
    <3> QED OBVIOUS
  <2>2. \A n \in 0..m : f[n] = IF n = 0 THEN before ELSE RecordStep(f[n - 1], i, n)
    BY <1>2 DEF RecordStep
  <2>3. g = [n \in 0..(m + 1) |-> g[n]]
    OBVIOUS
  <2> HIDE DEF g
  <2>4. ASSUME NEW n \in 0..(m + 1)
        PROVE  g[n] = IF n = 0 THEN before ELSE RecordStep(g[n - 1], i, n)
    <3>1. CASE n = m + 1
      BY <3>1, <2>1
    <3>2. CASE n # m + 1
      <4>1. n \in 0..m /\ (n # 0 => n - 1 \in 0..m)
        BY <3>2
      <4> QED BY <4>1, <2>1, <2>2
    <3> QED BY <3>1, <3>2
  <2> QED BY <2>3, <2>4 DEF RecordStep
<1> HIDE DEF F
<1>3. 0 \in N /\ \A n \in Nat : n \in N => n + 1 \in N
  BY <1>1, <1>2
<1> HIDE DEF N
<1>4. last \in N
  BY <1>3, Induction
<1>5. \E f : F(f, last)
  BY <1>4 DEF N
<1> DEFINE upto == CHOOSE f : F(f, last)
<1>6. F(upto, last)
  BY <1>5
<1>7. ExpireRecord(before, i) = upto[last]
  BY DEF ExpireRecord, F
<1> HIDE DEF upto
<1>8. \A n \in 0..last : upto[n] = IF n = 0 THEN before ELSE RecordStep(upto[n - 1], i, n)
  BY <1>6 DEF F, RecordStep
<1>9. upto[0] = before
  BY <1>8
<1>10. \A n \in 1..last : upto[n] = RecordStep(upto[n - 1], i, n)
  BY <1>8
<1> QED BY <1>7, <1>9, <1>10, Zenon

\* What every reading of a record preserves, the record preserves.
LEMMA RecordKeeps ==
    ASSUME NEW i, Len(file.times[i].key) \in Nat, NEW S, NEW before \in S,
           \A m \in S : \A n \in Readings(i) : Expireat(m, NameRead(i, n), SecondsRead(i, n)) \in S
    PROVE  ExpireRecord(before, i) \in S
<1> DEFINE last == Len(file.times[i].key) + 1
<1>1. PICK upto : /\ ExpireRecord(before, i) = upto[last]
                  /\ upto[0] = before
                  /\ \A n \in 1..last : upto[n] = RecordStep(upto[n - 1], i, n)
  BY RecordSteps
<1> DEFINE N == {n \in 0..last : upto[n] \in S}
<1>2. last \in Nat
  OBVIOUS
<1> HIDE DEF last
<1>3. 0 \in N
  BY <1>1, <1>2
<1>4. ASSUME NEW n \in 0..(last - 1), n \in N PROVE n + 1 \in N
  <2>1. n + 1 \in 1..last /\ (n + 1) - 1 = n /\ n + 1 \in 0..last
    BY <1>2
  <2>2. upto[n + 1] = RecordStep(upto[n], i, n + 1)
    BY <1>1, <2>1
  <2>3. upto[n] \in S
    BY <1>4
  <2>4. RecordStep(upto[n], i, n + 1) \in S
    BY <2>3 DEF RecordStep
  <2> QED BY <2>1, <2>2, <2>4
<1> HIDE DEF N
<1>5. 0..last \subseteq N
  BY <1>2, <1>3, <1>4, InductionTo
<1>6. last \in 0..last
  BY <1>2
<1> QED BY <1>1, <1>5, <1>6 DEF N

\* A record of a name without punctuation is read once.
LEMMA RecordOnce ==
    ASSUME NEW before, NEW i, Len(file.times[i].key) \in Nat, Readings(i) = {1}
    PROVE  ExpireRecord(before, i) = Expireat(before, NameRead(i, 1), SecondsRead(i, 1))
<1> DEFINE last == Len(file.times[i].key) + 1
           e == Expireat(before, NameRead(i, 1), SecondsRead(i, 1))
<1>1. PICK upto : /\ ExpireRecord(before, i) = upto[last]
                  /\ upto[0] = before
                  /\ \A n \in 1..last : upto[n] = RecordStep(upto[n - 1], i, n)
  BY RecordSteps
<1> DEFINE N == {n \in 0..last : n # 0 => upto[n] = e}
<1>2. last \in Nat \ {0}
  OBVIOUS
<1> HIDE DEF last
<1>3. 0 \in N
  BY <1>2
<1>4. ASSUME NEW n \in 0..(last - 1), n \in N PROVE n + 1 \in N
  <2>1. n + 1 \in 1..last /\ (n + 1) - 1 = n /\ n + 1 \in 0..last
    BY <1>2
  <2>2. upto[n + 1] = RecordStep(upto[n], i, n + 1)
    BY <1>1, <2>1
  <2>3. upto[n + 1] = e
    <3>1. CASE n = 0
      BY <1>1, <2>2, <3>1 DEF RecordStep
    <3>2. CASE n # 0
      BY <1>4, <2>2, <3>2 DEF RecordStep
    <3> QED BY <3>1, <3>2
  <2> QED BY <2>1, <2>3
<1> HIDE DEF N
<1>5. 0..last \subseteq N
  BY <1>2, <1>3, <1>4, InductionTo
<1>6. last \in 0..last /\ last # 0
  BY <1>2
<1> QED BY <1>1, <1>5, <1>6 DEF N

\* LoadedFrom goes through the records from the front.
LEMMA LoadedSteps ==
    ASSUME NEW d, Len(file.times) \in Nat
    PROVE  \E loaded : /\ LoadedFrom(d) = loaded[Len(file.times)]
                       /\ loaded[0] = EntriesOnly(d)
                       /\ \A i \in 1..Len(file.times) : loaded[i] = ExpireRecord(loaded[i - 1], i)
<1> DEFINE F(f, m) == f = [i \in 0..m |-> IF i = 0 THEN EntriesOnly(d) ELSE ExpireRecord(f[i - 1], i)]
           N == {m \in Nat : \E f : F(f, m)}
<1>1. \E f : F(f, 0)
  <2> DEFINE f == [i \in 0..0 |-> EntriesOnly(d)]
  <2>1. F(f, 0)
    OBVIOUS
  <2> QED BY <2>1
<1>2. ASSUME NEW m \in Nat, NEW f, F(f, m) PROVE \E g : F(g, m + 1)
  <2> DEFINE last == ExpireRecord(f[m], m + 1)
             g == [i \in 0..(m + 1) |-> IF i = m + 1 THEN last ELSE f[i]]
  <2>1. g[m + 1] = last /\ \A i \in 0..m : g[i] = f[i]
    <3> HIDE DEF last
    <3> QED OBVIOUS
  <2>2. \A i \in 0..m : f[i] = IF i = 0 THEN EntriesOnly(d) ELSE ExpireRecord(f[i - 1], i)
    BY <1>2
  <2>3. g = [i \in 0..(m + 1) |-> g[i]]
    OBVIOUS
  <2> HIDE DEF g
  <2>4. ASSUME NEW i \in 0..(m + 1)
        PROVE  g[i] = IF i = 0 THEN EntriesOnly(d) ELSE ExpireRecord(g[i - 1], i)
    <3>1. CASE i = m + 1
      BY <3>1, <2>1
    <3>2. CASE i # m + 1
      <4>1. i \in 0..m /\ (i # 0 => i - 1 \in 0..m)
        BY <3>2
      <4> QED BY <4>1, <2>1, <2>2
    <3> QED BY <3>1, <3>2
  <2> QED BY <2>3, <2>4
<1> HIDE DEF F
<1>3. 0 \in N /\ \A n \in Nat : n \in N => n + 1 \in N
  BY <1>1, <1>2
<1> HIDE DEF N
<1>4. Len(file.times) \in N
  BY <1>3, Induction
<1>5. \E f : F(f, Len(file.times))
  BY <1>4 DEF N
<1> DEFINE loaded == CHOOSE f : F(f, Len(file.times))
<1>6. F(loaded, Len(file.times))
  BY <1>5
<1>7. LoadedFrom(d) = loaded[Len(file.times)]
  BY DEF LoadedFrom, F
<1> HIDE DEF loaded
<1>8. \A i \in 0..Len(file.times) : loaded[i] = IF i = 0 THEN EntriesOnly(d)
                                                 ELSE ExpireRecord(loaded[i - 1], i)
  BY <1>6 DEF F
<1>9. loaded[0] = EntriesOnly(d)
  BY <1>8
<1>10. \A i \in 1..Len(file.times) : loaded[i] = ExpireRecord(loaded[i - 1], i)
  BY <1>8
<1> QED BY <1>7, <1>9, <1>10, Zenon

\* S[i] is what the first i records lead to, if each of them leads from one to
\* the next.
LEMMA LoadedIn ==
    ASSUME NEW d, Len(file.times) \in Nat, NEW S, EntriesOnly(d) \in S[0],
           \A i \in 1..Len(file.times) : \A m \in S[i - 1] : ExpireRecord(m, i) \in S[i]
    PROVE  LoadedFrom(d) \in S[Len(file.times)]
<1> DEFINE len == Len(file.times)
<1>1. PICK loaded : /\ LoadedFrom(d) = loaded[len]
                    /\ loaded[0] = EntriesOnly(d)
                    /\ \A i \in 1..len : loaded[i] = ExpireRecord(loaded[i - 1], i)
  BY LoadedSteps
<1> DEFINE N == {i \in 0..len : loaded[i] \in S[i]}
<1>2. len \in Nat /\ \A i \in 1..len : \A m \in S[i - 1] : ExpireRecord(m, i) \in S[i]
  OBVIOUS
<1> HIDE DEF len
<1>3. 0 \in N
  BY <1>1, <1>2
<1>4. ASSUME NEW i \in 0..(len - 1), i \in N PROVE i + 1 \in N
  <2>1. i + 1 \in 1..len /\ (i + 1) - 1 = i /\ i + 1 \in 0..len
    BY <1>2
  <2>2. loaded[i + 1] = ExpireRecord(loaded[i], i + 1) /\ loaded[i] \in S[i]
    BY <1>1, <1>4, <2>1
  <2>3. ExpireRecord(loaded[i], i + 1) \in S[i + 1]
    BY <1>2, <2>1, <2>2
  <2> QED BY <2>1, <2>2, <2>3
<1> HIDE DEF N
<1>5. 0..len \subseteq N
  BY <1>2, <1>3, <1>4, InductionTo
<1>6. len \in 0..len
  BY <1>2
<1> QED BY <1>1, <1>5, <1>6 DEF N, len

LEMMA TimesTyped ==
    ASSUME file.times \in Seq(FileTimes)
    PROVE  /\ Len(file.times) \in Nat /\ DOMAIN file.times = 1..Len(file.times)
           /\ \A i \in 1..Len(file.times) :
                 /\ file.times[i] \in FileTimes
                 /\ file.times[i].key \in Keys /\ Len(file.times[i].key) \in Nat
                 /\ file.times[i].secs \in Nat
<1>1. Len(file.times) \in Nat /\ DOMAIN file.times = 1..Len(file.times)
      /\ \A i \in 1..Len(file.times) : file.times[i] \in FileTimes
  BY LenProperties
<1>2. \A r \in FileTimes : r.key \in Keys /\ r.secs \in Nat
  BY DEF FileTimes
<1>3. \A k \in Keys : Len(k) \in Nat
  BY DumpAssumption, LenProperties DEF Texts
<1> QED BY <1>1, <1>2, <1>3

LEMMA EntriesOnlyType ==
    ASSUME NEW d \in [Keys -> Cells]
    PROVE  /\ EntriesOnly(d) \in Memories /\ EntriesOnly(d).dictionary = d
           /\ \A k \in Keys : EntriesOnly(d).timeouts[k] = Persistent
           /\ EntriesOnly(d).panicked = FALSE
BY DEF EntriesOnly, Memories, Limits

\* Whatever the records are, a key is left with its value or without one.
LEMMA LoadedKeeps ==
    ASSUME NEW d \in [Keys -> Cells], file.times \in Seq(FileTimes)
    PROVE  /\ LoadedFrom(d) \in Memories
           /\ \A k \in Keys : LoadedFrom(d).dictionary[k] \in {d[k], Absent}
<1> DEFINE len == Len(file.times)
           Good == {m \in Memories : \A k \in Keys : m.dictionary[k] \in {d[k], Absent}}
           S == [i \in 0..len |-> Good]
<1>1. len \in Nat /\ \A i \in 1..len : Len(file.times[i].key) \in Nat /\ file.times[i].key \in Keys
  BY TimesTyped
<1>2. EntriesOnly(d) \in S[0]
  <2>1. EntriesOnly(d) \in Good
    BY EntriesOnlyType
  <2> HIDE DEF Good
  <2> QED BY <1>1, <2>1
<1>3. ASSUME NEW i \in 1..len, NEW m \in S[i - 1] PROVE ExpireRecord(m, i) \in S[i]
  <2>1. S[i - 1] = Good /\ S[i] = Good
    BY <1>1
  <2>2. ASSUME NEW g \in Good, NEW n \in Readings(i)
        PROVE  Expireat(g, NameRead(i, n), SecondsRead(i, n)) \in Good
    <3> DEFINE name == NameRead(i, n)
               secs == SecondsRead(i, n)
    <3>1. secs \in Nat => secs * TicksPerSecond \in AllTimes
      BY SecondsReadType
    <3>2. g \in Memories /\ \A k \in Keys : g.dictionary[k] \in {d[k], Absent}
      OBVIOUS
    <3>3. Keys # {}
      BY <1>1
    <3> HIDE DEF name, secs
    <3>4. \A k \in Keys : Expireat(g, name, secs) \in Memories
                          /\ Expireat(g, name, secs).dictionary[k] \in {g.dictionary[k], Absent}
      BY <3>1, <3>2, OneTimeout
    <3>5. Expireat(g, name, secs) \in Good
      BY <3>2, <3>3, <3>4
    <3> QED BY <3>5 DEF name, secs
  <2> HIDE DEF Good
  <2> QED BY <1>1, <1>3, <2>1, <2>2, RecordKeeps
<1> HIDE DEF S
<1>4. LoadedFrom(d) \in S[len]
  BY <1>1, <1>2, <1>3, LoadedIn
<1>5. LoadedFrom(d) \in Good
  BY <1>1, <1>4 DEF S
<1> QED BY <1>5

\* Without a negative number there is no panic.
LEMMA LoadedPeacefully ==
    ASSUME NEW d \in [Keys -> Cells], file.times \in Seq(FileTimes),
           \A i \in 1..Len(file.times) : \A n \in Readings(i) : SecondsRead(i, n) \in Nat
    PROVE  LoadedFrom(d).panicked = FALSE
<1> DEFINE len == Len(file.times)
           Good == {m \in Memories : m.panicked = FALSE}
           S == [i \in 0..len |-> Good]
<1>1. len \in Nat /\ \A i \in 1..len : Len(file.times[i].key) \in Nat /\ file.times[i].key \in Keys
  BY TimesTyped
<1>2. EntriesOnly(d) \in S[0]
  <2>1. EntriesOnly(d) \in Good
    BY EntriesOnlyType
  <2> HIDE DEF Good
  <2> QED BY <1>1, <2>1
<1>3. ASSUME NEW i \in 1..len, NEW m \in S[i - 1] PROVE ExpireRecord(m, i) \in S[i]
  <2>1. S[i - 1] = Good /\ S[i] = Good
    BY <1>1
  <2>2. ASSUME NEW g \in Good, NEW n \in Readings(i)
        PROVE  Expireat(g, NameRead(i, n), SecondsRead(i, n)) \in Good
    <3> DEFINE name == NameRead(i, n)
               secs == SecondsRead(i, n)
    <3>1. secs \in Nat /\ secs * TicksPerSecond \in AllTimes
      BY SecondsReadType
    <3>1a. g \in Memories /\ g.panicked = FALSE
      OBVIOUS
    <3>2. PICK k \in Keys : TRUE
      BY <1>1
    <3> HIDE DEF name, secs
    <3>3. Expireat(g, name, secs) \in Memories /\ Expireat(g, name, secs).panicked = g.panicked
      <4> HIDE DEF Good
      <4>1. k \in Keys
        BY <3>2
      <4>2. secs \in Nat => secs * TicksPerSecond \in AllTimes
        BY <3>1
      <4>3. Expireat(g, name, secs) \in Memories
        BY <3>1a, <4>1, <4>2, OneTimeout
      <4>4. secs \in Nat => Expireat(g, name, secs).panicked = g.panicked
        BY <3>1a, <4>1, <4>2, OneTimeout
      <4> QED BY <3>1, <4>3, <4>4
    <3>4. Expireat(g, name, secs) \in Good
      BY <3>3
    <3> QED BY <3>4 DEF name, secs
  <2> HIDE DEF Good
  <2> QED BY <1>1, <1>3, <2>1, <2>2, RecordKeeps
<1> HIDE DEF S
<1>4. LoadedFrom(d) \in S[len]
  BY <1>1, <1>2, <1>3, LoadedIn
<1>5. LoadedFrom(d) \in Good
  BY <1>1, <1>4 DEF S
<1> QED BY <1>5

\* A key that is read in no record keeps its value and gets no timeout.
LEMMA LoadedUnnamed ==
    ASSUME NEW d \in [Keys -> Cells], file.times \in Seq(FileTimes), NEW k \in Keys,
           \A i \in 1..Len(file.times) : \A n \in Readings(i) : NameRead(i, n) # k
    PROVE  LoadedFrom(d).dictionary[k] = d[k] /\ LoadedFrom(d).timeouts[k] = Persistent
<1> DEFINE len == Len(file.times)
           Good == {m \in Memories : m.dictionary[k] = d[k] /\ m.timeouts[k] = Persistent}
           S == [i \in 0..len |-> Good]
<1>1. len \in Nat /\ \A i \in 1..len : Len(file.times[i].key) \in Nat
  BY TimesTyped
<1>2. EntriesOnly(d) \in S[0]
  <2>1. EntriesOnly(d) \in Good
    BY EntriesOnlyType
  <2> HIDE DEF Good
  <2> QED BY <1>1, <2>1
<1>3. ASSUME NEW i \in 1..len, NEW m \in S[i - 1] PROVE ExpireRecord(m, i) \in S[i]
  <2>1. S[i - 1] = Good /\ S[i] = Good
    BY <1>1
  <2>2. ASSUME NEW g \in Good, NEW n \in Readings(i)
        PROVE  Expireat(g, NameRead(i, n), SecondsRead(i, n)) \in Good
    <3> DEFINE name == NameRead(i, n)
               secs == SecondsRead(i, n)
    <3>1. (secs \in Nat => secs * TicksPerSecond \in AllTimes) /\ name # k
      BY SecondsReadType
    <3>1a. g \in Memories /\ g.timeouts[k] = Persistent
      OBVIOUS
    <3> HIDE DEF name, secs, Good
    <3>2. /\ Expireat(g, name, secs) \in Memories
          /\ Expireat(g, name, secs).dictionary[k] = g.dictionary[k]
          /\ Expireat(g, name, secs).timeouts[k] = g.timeouts[k]
      BY <3>1, <3>1a, OneTimeout
    <3>3. Expireat(g, name, secs) \in Good
      BY <3>2 DEF Good
    <3> QED BY <3>3 DEF name, secs
  <2> HIDE DEF Good
  <2> QED BY <1>1, <1>3, <2>1, <2>2, RecordKeeps
<1> HIDE DEF S
<1>4. LoadedFrom(d) \in S[len]
  BY <1>1, <1>2, <1>3, LoadedIn
<1>5. LoadedFrom(d) \in Good
  BY <1>1, <1>4 DEF S
<1> QED BY <1>5

\* A key that is read in its own record only is removed when its time has
\* passed, and else keeps its value and gets that time, unless another reading
\* gives the same one.
LEMMA LoadedNamed ==
    ASSUME NEW d \in [Keys -> Cells], file.times \in Seq(FileTimes), NEW k \in Keys,
           NEW i \in 1..Len(file.times), Readings(i) = {1}, NameRead(i, 1) = k,
           SecondsRead(i, 1) = file.times[i].secs,
           \A j \in 1..Len(file.times) : j # i => \A n \in Readings(j) : NameRead(j, n) # k
    PROVE  LET time == file.times[i].secs * TicksPerSecond
               alone == \A j \in 1..Len(file.times) : \A n \in Readings(j) :
                           SecondsRead(j, n) \in Nat /\ SecondsRead(j, n) * TicksPerSecond = time => j = i
           IN  /\ d[k] # Absent /\ ~(time < now) =>
                      LoadedFrom(d).dictionary[k] = d[k] /\ (alone => LoadedFrom(d).timeouts[k] = time)
               /\ d[k] = Absent \/ time < now => LoadedFrom(d).dictionary[k] = Absent
<1> DEFINE len == Len(file.times)
           time == file.times[i].secs * TicksPerSecond
           alone == \A j \in 1..len : \A n \in Readings(j) :
                       SecondsRead(j, n) \in Nat /\ SecondsRead(j, n) * TicksPerSecond = time => j = i
           Before == {m \in Memories : m.dictionary[k] = d[k]}
           After == {m \in Memories :
                        /\ d[k] # Absent /\ ~(time < now) =>
                               m.dictionary[k] = d[k] /\ (alone => m.timeouts[k] = time)
                        /\ d[k] = Absent \/ time < now => m.dictionary[k] = Absent}
           S == [j \in 0..len |-> IF j < i THEN Before ELSE After]
<1>1. /\ len \in Nat /\ \A j \in 1..len : Len(file.times[j].key) \in Nat
      /\ file.times[i].secs \in Nat
  BY TimesTyped
<1>2. EntriesOnly(d) \in S[0]
  <2>1. EntriesOnly(d) \in Before
    BY EntriesOnlyType
  <2>2. 0 < i /\ 0 \in 0..len
    BY <1>1
  <2> HIDE DEF Before, After
  <2> QED BY <2>1, <2>2
<1>3. /\ i \in 1..len /\ SecondsRead(i, 1) = file.times[i].secs
      /\ \A j \in 1..len : j # i => \A n \in Readings(j) : NameRead(j, n) # k
  OBVIOUS
<1>4. \A j \in 1..len : \A n \in Readings(j) :
         SecondsRead(j, n) \in Nat => SecondsRead(j, n) * TicksPerSecond \in AllTimes
  BY SecondsReadType
<1>5. ASSUME NEW m \in Before PROVE ExpireRecord(m, i) \in After
  <2> DEFINE secs == file.times[i].secs
             e == Expireat(m, k, secs)
  <2>1. ExpireRecord(m, i) = e
    BY <1>1, RecordOnce
  <2>2. secs \in Nat /\ secs * TicksPerSecond \in AllTimes /\ time = secs * TicksPerSecond
    BY <1>1, <1>3, <1>4
  <2>3. m \in Memories /\ m.dictionary[k] = d[k]
    OBVIOUS
  <2> HIDE DEF secs, e, time, alone
  <2>4. /\ e \in Memories /\ e.dictionary[k] \in {m.dictionary[k], Absent}
        /\ m.dictionary[k] # Absent => \/ time < now /\ e.dictionary[k] = Absent
                                       \/ /\ ~(time < now)
                                          /\ e.dictionary[k] = m.dictionary[k] /\ e.timeouts[k] = time
    <3>1. secs \in Nat => secs * TicksPerSecond \in AllTimes
      BY <2>2
    <3>2. m \in Memories /\ k \in Keys
      BY <2>3
    <3> HIDE DEF Before, After
    <3>3. /\ Expireat(m, k, secs) \in Memories
          /\ Expireat(m, k, secs).dictionary[k] \in {m.dictionary[k], Absent}
          /\ m.dictionary[k] # Absent =>
                \/ secs * TicksPerSecond < now /\ Expireat(m, k, secs).dictionary[k] = Absent
                \/ /\ ~(secs * TicksPerSecond < now)
                   /\ Expireat(m, k, secs).dictionary[k] = m.dictionary[k]
                   /\ Expireat(m, k, secs).timeouts[k] = secs * TicksPerSecond
      BY <2>2, <3>1, <3>2, OneTimeout
    <3> QED BY <2>2, <3>3, Zenon DEF e
  <2> QED BY <2>1, <2>3, <2>4
<1>6. ASSUME NEW j \in 1..len, j # i, NEW n \in Readings(j), NEW m \in Memories
      PROVE  LET e == Expireat(m, NameRead(j, n), SecondsRead(j, n))
             IN  /\ e \in Memories /\ e.dictionary[k] = m.dictionary[k]
                 /\ alone => e.timeouts[k] = m.timeouts[k] \/ m.timeouts[k] # time
  <2> DEFINE name == NameRead(j, n)
             secs == SecondsRead(j, n)
             e == Expireat(m, name, secs)
  <2>1. (secs \in Nat => secs * TicksPerSecond \in AllTimes) /\ name # k
    BY <1>3, <1>4, <1>6
  <2>2. alone => secs \notin Nat \/ secs * TicksPerSecond # time
    BY <1>6
  <2> HIDE DEF name, secs, alone, time
  <2>3. /\ e \in Memories /\ e.dictionary[k] = m.dictionary[k]
        /\ secs \notin Nat \/ m.timeouts[k] # secs * TicksPerSecond => e.timeouts[k] = m.timeouts[k]
    BY <2>1, OneTimeout
  <2>4. alone => e.timeouts[k] = m.timeouts[k] \/ m.timeouts[k] # time
    BY <2>2, <2>3
  <2> QED BY <2>3, <2>4 DEF name, secs
<1> HIDE DEF time, alone
<1>7. ASSUME NEW j \in 1..len, j # i, NEW m \in Before PROVE ExpireRecord(m, j) \in Before
  <2>1. \A g \in Before : \A n \in Readings(j) :
           Expireat(g, NameRead(j, n), SecondsRead(j, n)) \in Before
    BY <1>6, <1>7
  <2> HIDE DEF Before
  <2> QED BY <1>1, <1>7, <2>1, RecordKeeps
<1>8. ASSUME NEW j \in 1..len, j # i, NEW m \in After PROVE ExpireRecord(m, j) \in After
  <2>1. \A g \in After : \A n \in Readings(j) :
           Expireat(g, NameRead(j, n), SecondsRead(j, n)) \in After
    BY <1>6, <1>8
  <2> HIDE DEF After
  <2> QED BY <1>1, <1>8, <2>1, RecordKeeps
<1> HIDE DEF Before, After
<1>9. ASSUME NEW j \in 1..len, NEW m \in S[j - 1] PROVE ExpireRecord(m, j) \in S[j]
  <2>1. /\ S[j - 1] = IF j - 1 < i THEN Before ELSE After
        /\ S[j] = IF j < i THEN Before ELSE After
        /\ j \in Nat /\ i \in Nat
    BY <1>1, <1>3
  <2>2. CASE j < i
    BY <1>7, <1>9, <2>1, <2>2
  <2>3. CASE j = i
    <3>1. j - 1 < i /\ ~(j < i)
      BY <2>1, <2>3
    <3> QED BY <1>5, <1>9, <2>1, <2>3, <3>1
  <2>4. CASE i < j
    <3>1. ~(j - 1 < i) /\ ~(j < i) /\ j # i
      BY <2>1, <2>4
    <3> QED BY <1>8, <1>9, <2>1, <3>1
  <2> QED BY <2>1, <2>2, <2>3, <2>4
<1> HIDE DEF S
<1>10. LoadedFrom(d) \in S[len]
  BY <1>1, <1>2, <1>9, LoadedIn
<1>11. LoadedFrom(d) \in After
  BY <1>1, <1>3, <1>10 DEF S
<1> QED BY <1>11 DEF After, time, alone

-----------------------------------------------------------------------------
(* Reading the entries *)

FileEntries == [key : Keys, value : FiniteValues]

\* If lines are read as the key's, its value is what is read in one of them.
LEMMA LineRead ==
    ASSUME file.entries \in Seq(FileEntries), NEW k \in Keys, LinesOf(k) # {}
    PROVE  \E i \in LinesOf(k) : LoadedValues(k) = EntryValues(i)
<1>1. Len(file.entries) \in Nat /\ DOMAIN file.entries = 1..Len(file.entries)
  BY LenProperties
<1>2. LinesOf(k) \in SUBSET (0..Len(file.entries))
  BY <1>1 DEF LinesOf
<1>3. \E i \in LinesOf(k) : \A j \in LinesOf(k) : j <= i
  BY <1>1, <1>2, GreatestNumber
<1> DEFINE last == CHOOSE i \in LinesOf(k) : \A j \in LinesOf(k) : j <= i
<1>4. last \in LinesOf(k)
  BY <1>3
<1>5. LoadedValues(k) = EntryValues(last)
  BY DEF LoadedValues
<1> QED BY <1>4, <1>5

LEMMA EntryValuesType ==
    ASSUME file.entries \in Seq(FileEntries), NEW i \in DOMAIN file.entries
    PROVE  EntryValues(i) \subseteq FiniteValues
<1>1. file.entries[i] \in FileEntries
  BY ElementOfSeq, LenProperties
<1>2. file.entries[i].value \in FiniteValues
  BY <1>1 DEF FileEntries
<1>3. List(<<>>) \in FiniteValues
  BY EmptySeq DEF List, FiniteValues, StorageValues
<1>4. Set({}) \in FiniteValues
  BY FS_EmptySet DEF Set, FiniteValues, StorageValues
<1>5. EntryValues(i) \in {{List(<<>>)}, {Set({})}, Reread(file.entries[i].value), {}}
  BY Zenon DEF EntryValues
<1> QED BY <1>2, <1>3, <1>4, <1>5, RereadType

LEMMA LoadedValuesType ==
    ASSUME file.entries \in Seq(FileEntries), NEW k \in Keys
    PROVE  LoadedValues(k) \subseteq Cells
<1>1. CASE LinesOf(k) = {}
  BY <1>1 DEF LoadedValues, Cells
<1>2. CASE LinesOf(k) # {}
  <2>1. PICK i \in LinesOf(k) : LoadedValues(k) = EntryValues(i)
    BY <1>2, LineRead
  <2>2. i \in DOMAIN file.entries
    BY <2>1 DEF LinesOf
  <2> QED BY <2>1, <2>2, EntryValuesType DEF Cells
<1> QED BY <1>1, <1>2

\* A load is a panic or goes through all records.
LEMMA LoadOutcome ==
    ASSUME file.entries \in Seq(FileEntries), file.times \in Seq(FileTimes), NEW loaded \in Loads
    PROVE  \/ StartupPanics /\ loaded.panicked
           \/ /\ ~StartupPanics
              /\ \E d \in [Keys -> Cells] : /\ \A k \in Keys : d[k] \in LoadedValues(k)
                                            /\ loaded = LoadedFrom(d)
<1> DEFINE values == [k \in Keys |-> LoadedValues(k)]
<1>1. CASE StartupPanics
  <2>1. loaded = [EntriesOnly([k \in Keys |-> Absent]) EXCEPT !.panicked = TRUE]
    BY <1>1 DEF Loads
  <2>2. loaded.panicked
    BY <2>1 DEF EntriesOnly
  <2> QED BY <1>1, <2>2
<1>2. CASE ~StartupPanics
  <2>1. PICK d \in {f \in [Keys -> UNION {values[k] : k \in Keys}] : \A k \in Keys : f[k] \in values[k]} :
                 loaded = LoadedFrom(d)
    BY <1>2 DEF Loads
  <2>2. \A k \in Keys : d[k] \in LoadedValues(k) /\ d[k] \in Cells
    BY <2>1, LoadedValuesType
  <2>3. d \in [Keys -> Cells]
    BY <2>1, <2>2
  <2> QED BY <1>2, <2>1, <2>2, <2>3
<1> QED BY <1>1, <1>2

-----------------------------------------------------------------------------
(* The invariant *)

Files == [times : Seq(FileTimes), newline : BOOLEAN, entries : Seq(FileEntries),
          written : 1..5, whole : BOOLEAN]

Typed ==
    /\ dictionary \in [Keys -> Cells]
    /\ timeouts \in [Keys -> Limits]
    /\ now \in Times
    /\ file \in Files
    /\ todo \in Seq(FileTimes) \cup Seq(FileEntries)
    /\ pc = "write times" => todo \in Seq(FileTimes)
    /\ pc = "write entries" => todo \in Seq(FileEntries)
    /\ pc \in {"sleep", "times", "write times", "entries", "write entries", "down", "failed"}
    /\ steady \in SUBSET Keys
    /\ held \in [Keys -> SUBSET Cells]

\* How far the file has come.
Phases ==
    /\ pc = "times" => file = EmptyFile
    /\ pc \in {"times", "write times", "entries"} => file.entries = <<>>
    /\ pc = "entries" => file.written = 5 /\ file.newline
    /\ pc = "write entries" => file.newline
    /\ pc \in {"write times", "write entries"} /\ file.written # 5 => todo # <<>>
    /\ file.whole => file.newline /\ file.written = 5 /\ pc \in {"sleep", "down", "failed"}

\* All that is in the file, or about to be, was in the memory since the dump
\* began.
WereHeld(records) == \A i \in DOMAIN records : records[i].value \in held[records[i].key] \ {Absent}

Remembered ==
    /\ pc \in {"times", "write times", "entries", "write entries"} =>
          \A k \in Keys : dictionary[k] \in held[k]
    /\ WereHeld(file.entries)
    /\ pc = "write entries" => WereHeld(todo)

\* What a part of the file will hold when it is finished.
Planned(part) == file[part] \o (IF file.written = 5 THEN todo ELSE Tail(todo))

\* The records name the key k once, as this set has a record of it, or never.
Lists(records, k, S) ==
    /\ \A i \in DOMAIN records : records[i].key = k => records[i] \in S
    /\ S # {} => \E i \in DOMAIN records : records[i].key = k
    /\ \A i, j \in DOMAIN records : records[i].key = k /\ records[j].key = k => i = j

TimeOfKey(k) == IF timeouts[k] = Persistent THEN {}
                ELSE {[key |-> k, secs |-> timeouts[k] \div TicksPerSecond]}
EntryOfKey(k) == IF dictionary[k] = Absent THEN {} ELSE {[key |-> k, value |-> dictionary[k]]}

TimesListed(records) == \A k \in steady : Lists(records, k, TimeOfKey(k))
EntriesListed(records) == \A k \in steady : Lists(records, k, EntryOfKey(k))

\* What nothing has changed is in the file as it is in the memory.
SteadyListed ==
    /\ pc = "write times" => TimesListed(Planned("times"))
    /\ pc \in {"entries", "write entries"} \/ file.whole => TimesListed(file.times)
    /\ pc = "write entries" => EntriesListed(Planned("entries"))
    /\ file.whole => EntriesListed(file.entries)

IInv == Typed /\ Phases /\ Remembered /\ SteadyListed

LEMMA InitInvariant == DumpInit => IInv
<1> SUFFICES ASSUME DumpInit PROVE IInv
  OBVIOUS
<1>1. EmptyFile \in Files /\ EmptyFile.entries = <<>> /\ ~EmptyFile.whole
  BY EmptySeq DEF EmptyFile, Files
<1>2. Found \in [Keys -> Cells] /\ FoundTimeouts \in [Keys -> Limits] /\ 0 \in Times
  BY DumpAssumption DEF Cells, FiniteValues, Limits, AllTimes, Times
<1>3. Typed
  BY <1>1, <1>2, EmptySeq DEF DumpInit, Typed
<1> QED BY <1>1, <1>3 DEF DumpInit, IInv, Phases, Remembered, WereHeld, SteadyListed

-----------------------------------------------------------------------------
(* Clients, executors, the clock *)

LEMMA ChangesStep ==
    ASSUME IInv, NEW k \in Keys, NEW v \in Cells, NEW t \in Limits, Changes(k, v, t)
    PROVE  IInv'
<1>1. /\ dictionary' = [dictionary EXCEPT ![k] = v] /\ held' = [held EXCEPT ![k] = @ \cup {v}]
      /\ timeouts' = WithTimeout(timeouts, k, t)
      /\ steady' = {j \in steady \ {k} : timeouts'[j] = timeouts[j]}
      /\ now' = now /\ file' = file /\ todo' = todo /\ pc' = pc
  BY DEF Changes
<1>2. Typed'
  <2>1. timeouts' \in [Keys -> Limits]
    BY <1>1, WithTimeoutEffect DEF IInv, Typed
  <2>2. dictionary' \in [Keys -> Cells] /\ held' \in [Keys -> SUBSET Cells] /\ steady' \in SUBSET Keys
    BY <1>1 DEF IInv, Typed
  <2> QED BY <1>1, <2>1, <2>2 DEF IInv, Typed
<1>3. Phases'
  BY <1>1 DEF IInv, Phases
<1>4. Remembered'
  <2>1. \A j \in Keys : held[j] \subseteq held'[j] /\ v \in held'[k]
    BY <1>1 DEF IInv, Typed
  <2>2. \A j \in Keys : dictionary'[j] = IF j = k THEN v ELSE dictionary[j]
    BY <1>1 DEF IInv, Typed
  <2>3. \A records \in Seq(FileEntries) : WereHeld(records) => WereHeld(records)'
    <3>1. SUFFICES ASSUME NEW records \in Seq(FileEntries), WereHeld(records),
                          NEW i \in DOMAIN records
                   PROVE  records[i].value \in held'[records[i].key] \ {Absent}
      BY DEF WereHeld
    <3>2. records[i].key \in Keys
      <4>1. records[i] \in FileEntries
        BY <3>1, LenProperties
      <4> QED BY <4>1 DEF FileEntries
    <3> QED BY <2>1, <3>1, <3>2 DEF WereHeld
  <2>4. file.entries \in Seq(FileEntries) /\ (pc = "write entries" => todo \in Seq(FileEntries))
    BY DEF IInv, Typed, Files
  <2> QED BY <1>1, <2>1, <2>2, <2>3, <2>4 DEF IInv, Remembered
<1>5. SteadyListed'
  <2>1. \A j \in steady' : j \in steady /\ TimeOfKey(j)' = TimeOfKey(j) /\ EntryOfKey(j)' = EntryOfKey(j)
    BY <1>1 DEF IInv, Typed, TimeOfKey, EntryOfKey
  <2>2. /\ Planned("times")' = Planned("times") /\ Planned("entries")' = Planned("entries")
        /\ file.times' = file.times /\ file.entries' = file.entries
    BY <1>1 DEF Planned
  <2>3. \A records : /\ TimesListed(records) => \A j \in steady' : Lists(records, j, TimeOfKey(j)')
                     /\ EntriesListed(records) => \A j \in steady' : Lists(records, j, EntryOfKey(j)')
    BY <2>1 DEF TimesListed, EntriesListed
  <2> QED BY <1>1, <2>2, <2>3 DEF IInv, SteadyListed, TimesListed, EntriesListed
<1> QED BY <1>2, <1>3, <1>4, <1>5 DEF IInv

LEMMA ClientStep ==
    ASSUME IInv, NEW k \in Keys, Store(k) \/ SetTimeout(k) \/ Delete(k) \/ Lapse(k)
    PROVE  IInv'
<1>1. dictionary[k] \in Cells /\ timeouts[k] \in Limits /\ Persistent \in Limits /\ Absent \in Cells
  BY DEF IInv, Typed, Limits, Cells
<1>2. CASE Store(k)
  <2>1. PICK v \in Values, t \in {timeouts[k], Persistent} : Changes(k, v, t)
    BY <1>2 DEF Store
  <2>2. v \in Cells /\ t \in Limits
    BY <1>1, DumpAssumption DEF Cells, FiniteValues
  <2> QED BY <2>1, <2>2, ChangesStep
<1>3. CASE SetTimeout(k)
  <2>1. PICK t \in Limits : Changes(k, dictionary[k], t)
    BY <1>3 DEF SetTimeout, Limits, AllTimes
  <2> QED BY <1>1, <2>1, ChangesStep
<1>4. CASE Delete(k) \/ Lapse(k)
  <2>1. Changes(k, Absent, timeouts[k]) \/ Changes(k, Absent, Persistent)
    BY <1>4 DEF Delete, Lapse
  <2> QED BY <1>1, <2>1, ChangesStep
<1> QED BY <1>2, <1>3, <1>4

\* A step that leaves memory, file and lists alone, and the serializer where it
\* was or ended.
LEMMA AloneStep ==
    ASSUME IInv, dictionary' = dictionary, timeouts' = timeouts, file' = file, todo' = todo,
           steady' = steady, held' = held, now' \in Times, pc' \in {pc, "down"}
    PROVE  IInv'
<1>1. /\ dictionary' = dictionary /\ timeouts' = timeouts /\ file' = file /\ todo' = todo
      /\ steady' = steady /\ held' = held
  OBVIOUS
<1>2. Typed'
  BY <1>1 DEF IInv, Typed
<1>3. Phases'
  BY <1>1 DEF IInv, Phases
<1>4. Remembered'
  BY <1>1 DEF IInv, Remembered, WereHeld
<1>5. SteadyListed'
  <2>1. /\ Planned("times")' = Planned("times") /\ Planned("entries")' = Planned("entries")
        /\ \A j : TimeOfKey(j)' = TimeOfKey(j) /\ EntryOfKey(j)' = EntryOfKey(j)
    BY <1>1 DEF Planned, TimeOfKey, EntryOfKey
  <2> QED BY <1>1, <2>1 DEF IInv, SteadyListed, TimesListed, EntriesListed
<1> QED BY <1>2, <1>3, <1>4, <1>5 DEF IInv

-----------------------------------------------------------------------------
(* run_serializer *)

LEMMA TruncateStep ==
    ASSUME IInv, Truncate
    PROVE  IInv'
<1>1. /\ dictionary' = dictionary /\ timeouts' = timeouts /\ now' = now /\ file' = EmptyFile
      /\ todo' = todo /\ pc' = "times" /\ steady' = Keys /\ held' = [k \in Keys |-> {dictionary[k]}]
  BY DEF Truncate, memory
<1>2. EmptyFile \in Files /\ EmptyFile.entries = <<>> /\ ~EmptyFile.whole
  BY EmptySeq DEF EmptyFile, Files
<1>3. held' \in [Keys -> SUBSET Cells]
  BY <1>1 DEF IInv, Typed
<1>4. Typed'
  BY <1>1, <1>2, <1>3 DEF IInv, Typed
<1>5. Phases'
  BY <1>1, <1>2 DEF Phases
<1>6. Remembered'
  <2>1. \A k \in Keys : dictionary'[k] \in held'[k]
    BY <1>1
  <2>2. WereHeld(file.entries)'
    BY <1>1, <1>2 DEF WereHeld
  <2> QED BY <1>1, <2>1, <2>2 DEF Remembered
<1>7. SteadyListed'
  BY <1>1, <1>2 DEF SteadyListed
<1> QED BY <1>4, <1>5, <1>6, <1>7 DEF IInv

\* A list of all keys that have something names each of them once.
LEMMA ListedOnce ==
    ASSUME NEW order, NEW S \in SUBSET Keys, order \in SetToSeqs(S), NEW list, NEW Record,
           list = [i \in DOMAIN order |-> Record[order[i]]],
           \A k \in S : Record[k].key = k
    PROVE  /\ \A R : (\A k \in S : Record[k] \in R) => list \in Seq(R)
           /\ \A i \in DOMAIN list : list[i].key \in S /\ list[i] = Record[list[i].key]
           /\ \A k \in S : Lists(list, k, {Record[k]})
           /\ \A k \in Keys \ S : Lists(list, k, {})
<1>1. IsFiniteSet(S)
  BY DumpAssumption, FS_Subset
<1>2. /\ order \in Seq(S)
      /\ \A x \in S : \E i \in DOMAIN order : order[i] = x
      /\ \A i, j \in DOMAIN order : order[i] = order[j] => i = j
  BY <1>1, OrderLists
<1>3. Len(order) \in Nat /\ DOMAIN order = 1..Len(order) /\ \A i \in DOMAIN order : order[i] \in S
  BY <1>2, LenProperties
<1>4. DOMAIN list = DOMAIN order /\ \A i \in DOMAIN order : list[i] = Record[order[i]] /\ list[i].key = order[i]
  BY <1>3
<1>5. ASSUME NEW R, \A k \in S : Record[k] \in R PROVE list \in Seq(R)
  BY <1>3, <1>4, <1>5
<1>6. \A i \in DOMAIN list : list[i].key \in S /\ list[i] = Record[list[i].key]
  BY <1>3, <1>4
<1>7. \A k \in S : Lists(list, k, {Record[k]})
  BY <1>2, <1>3, <1>4 DEF Lists
<1>8. \A k \in Keys \ S : Lists(list, k, {})
  BY <1>3, <1>4 DEF Lists
<1> QED BY <1>5, <1>6, <1>7, <1>8

LEMMA ListTimesStep ==
    ASSUME IInv, ListTimes
    PROVE  IInv'
<1> DEFINE S == {k \in Keys : timeouts[k] # Persistent}
           Record == [k \in Keys |-> [key |-> k, secs |-> timeouts[k] \div TicksPerSecond]]
<1>1. /\ dictionary' = dictionary /\ timeouts' = timeouts /\ now' = now /\ file' = file
      /\ pc = "times" /\ pc' = "write times" /\ steady' = steady /\ held' = held
  BY DEF ListTimes, OnlySerializer, memory
<1>2. file.times = <<>> /\ file.entries = <<>> /\ file.written = 5 /\ ~file.whole
  <2>1. file = EmptyFile
    BY <1>1 DEF IInv, Phases
  <2> QED BY <2>1 DEF EmptyFile
<1>3. PICK order \in SetToSeqs(S) : todo' = [i \in DOMAIN order |-> Record[order[i]]]
  <2>1. PICK order \in SetToSeqs(S) :
               todo' = [i \in DOMAIN order |->
                          [key |-> order[i], secs |-> timeouts[order[i]] \div TicksPerSecond]]
    BY DEF ListTimes
  <2>2. IsFiniteSet(S)
    BY DumpAssumption, FS_Subset
  <2> HIDE DEF S
  <2>3. order \in Seq(S)
    BY <2>1, <2>2, OrderLists
  <2>4. \A i \in DOMAIN order : order[i] \in S
    BY <2>3, LenProperties
  <2>5. \A i \in DOMAIN order : order[i] \in Keys
    BY <2>4 DEF S
  <2> QED BY <2>1, <2>5
<1>4. \A k \in S : Record[k] \in FileTimes /\ Record[k].key = k
  <2>1. ASSUME NEW k \in S PROVE Record[k] \in FileTimes
    <3>1. timeouts[k] \in AllTimes
      BY DEF IInv, Typed, Limits
    <3> QED BY <3>1, RoundedType DEF FileTimes, Rounded
  <2> QED BY <2>1
<1>5. S \in SUBSET Keys
  OBVIOUS
<1>6. /\ \A k \in S : TimeOfKey(k) = {Record[k]}
      /\ \A k \in Keys \ S : TimeOfKey(k) = {}
  BY DEF TimeOfKey
<1> HIDE DEF S, Record
<1>7. todo' \in Seq(FileTimes) /\ \A k \in Keys : Lists(todo', k, TimeOfKey(k))
  <2> DEFINE list == todo'
             R == FileTimes
  <2>1. list = [i \in DOMAIN order |-> Record[order[i]]]
    BY <1>3
  <2>2. \A k \in S : Record[k] \in R /\ Record[k].key = k
    BY <1>4
  <2> HIDE DEF list, R
  <2>3. list \in Seq(R)
    BY <1>3, <1>5, <2>1, <2>2, ListedOnce
  <2>4. \A k \in S : Lists(list, k, {Record[k]})
    BY <1>3, <1>5, <2>1, <2>2, ListedOnce
  <2>5. \A k \in Keys \ S : Lists(list, k, {})
    BY <1>3, <1>5, <2>1, <2>2, ListedOnce
  <2>6. \A k \in Keys : Lists(list, k, TimeOfKey(k))
    BY <1>6, <2>4, <2>5
  <2> QED BY <2>3, <2>6 DEF list, R
<1>8. Typed'
  BY <1>1, <1>7 DEF IInv, Typed
<1>9. Phases'
  BY <1>1, <1>2 DEF IInv, Phases
<1>10. Remembered'
  BY <1>1 DEF IInv, Remembered, WereHeld
<1>11. SteadyListed'
  <2>1. Planned("times")' = todo'
    BY <1>1, <1>2, <1>7, ConcatEmptySeq DEF Planned
  <2>2. \A k \in Keys : TimeOfKey(k)' = TimeOfKey(k)
    BY <1>1 DEF TimeOfKey
  <2> QED BY <1>1, <1>2, <1>7, <2>1, <2>2 DEF IInv, Typed, SteadyListed, TimesListed
<1> QED BY <1>8, <1>9, <1>10, <1>11 DEF IInv

\* A piece moves nothing but the border between what is written and what is
\* not; the record at the border is the last one of the file.
LEMMA PieceOutcome ==
    ASSUME file \in Files, NEW part \in {"times", "entries"}, Piece(part),
           NEW R, todo \in Seq(R), file[part] \in Seq(R)
    PROVE  /\ file'[part] \in Seq(R) /\ todo' \in Seq(R) /\ file'.written \in 1..5
           /\ file'.written # 5 => todo' # <<>>
           /\ file' = [file EXCEPT !.written = file'.written, ![part] = file'[part]]
           /\ Planned(part)' = Planned(part)
           /\ \A i \in DOMAIN file'[part] : \/ i \in DOMAIN file[part] /\ file'[part][i] = file[part][i]
                                           \/ \E j \in DOMAIN todo : file'[part][i] = todo[j]
           /\ \A i \in DOMAIN todo' : \E j \in DOMAIN todo : todo'[i] = todo[j]
<1> DEFINE f == file[part]
           w == file.written
           written == IF w = 5 THEN 1 ELSE w + 1
           g == IF w = 5 THEN Append(f, Head(todo)) ELSE f
           rest == IF w = 5 THEN todo ELSE Tail(todo)
           rest1 == IF written = 5 THEN todo' ELSE Tail(todo')
<1>1. /\ todo # <<>> /\ file' = [file EXCEPT !.written = written, ![part] = g]
      /\ todo' = IF w = 4 THEN Tail(todo) ELSE todo
  BY DEF Piece
<1>2. w \in 1..5 /\ f \in Seq(R) /\ todo \in Seq(R)
  BY DEF Files
<1>3. file'.written = written /\ file'[part] = g
  BY <1>1 DEF Files
<1>4. file' = [file EXCEPT !.written = file'.written, ![part] = file'[part]]
  BY <1>1, <1>3
<1> HIDE DEF f, w
<1>5. /\ Append(f, Head(todo)) \o Tail(todo) = f \o todo
      /\ Append(f, Head(todo)) \in Seq(R) /\ Tail(todo) \in Seq(R) /\ Head(todo) \in R
  BY <1>1, <1>2, BorderMoves
<1>6. Planned(part) = f \o rest
  BY DEF Planned, f, w
<1>7. Planned(part)' = g \o rest1
  BY <1>3 DEF Planned
<1>8. /\ DOMAIN f = 1..Len(f) /\ Len(f) \in Nat /\ DOMAIN todo = 1..Len(todo) /\ Len(todo) \in Nat \ {0}
      /\ Head(todo) = todo[1]
      /\ DOMAIN Tail(todo) = 1..(Len(todo) - 1)
      /\ \A i \in 1..(Len(todo) - 1) : Tail(todo)[i] = todo[i + 1]
  BY <1>1, <1>2, <1>5, HeadTailProperties, LenProperties, EmptySeq
<1>9. \A i \in DOMAIN Append(f, Head(todo)) : \/ i \in DOMAIN f /\ Append(f, Head(todo))[i] = f[i]
                                              \/ Append(f, Head(todo))[i] = todo[1]
  <2>1. /\ Len(Append(f, Head(todo))) = Len(f) + 1
        /\ \A i \in 1..Len(f) : Append(f, Head(todo))[i] = f[i]
        /\ Append(f, Head(todo))[Len(f) + 1] = Head(todo)
    BY <1>2, <1>5, AppendType
  <2>2. DOMAIN Append(f, Head(todo)) = 1..(Len(f) + 1)
    BY <1>5, <2>1, LenProperties
  <2>3. \A i \in 1..(Len(f) + 1) : i \in 1..Len(f) \/ i = Len(f) + 1
    BY <1>8
  <2> QED BY <1>8, <2>1, <2>2, <2>3
<1>10. \A i \in DOMAIN Tail(todo) : i + 1 \in DOMAIN todo /\ Tail(todo)[i] = todo[i + 1]
  BY <1>8
<1>11. 1 \in DOMAIN todo
  BY <1>8
<1>12. \/ w = 5 /\ written = 1 /\ g = Append(f, Head(todo)) /\ todo' = todo
       \/ w = 4 /\ written = 5 /\ g = f /\ todo' = Tail(todo)
       \/ w # 5 /\ w # 4 /\ written \in 1..4 /\ g = f /\ todo' = todo
  BY <1>1, <1>2
<1>13. \/ rest = todo /\ rest1 = Tail(todo) /\ g = Append(f, Head(todo))
       \/ rest = rest1 /\ g = f
  <2> HIDE DEF written, g
  <2>1. CASE w = 5
    <3>1. written # 5 /\ g = Append(f, Head(todo)) /\ todo' = todo
      BY <1>12, <2>1
    <3> QED BY <2>1, <3>1, Zenon
  <2>2. CASE w = 4
    <3>1. written = 5 /\ w # 5 /\ g = f /\ todo' = Tail(todo)
      BY <1>12, <2>2
    <3> QED BY <3>1, Zenon
  <2>3. CASE w # 5 /\ w # 4
    <3>1. written # 5 /\ g = f /\ todo' = todo
      BY <1>12, <2>3
    <3> QED BY <2>3, <3>1, Zenon
  <2> QED BY <2>1, <2>2, <2>3
<1> HIDE DEF written, g, rest, rest1
<1>14. g \o rest1 = f \o rest
  <2>1. CASE rest = todo /\ rest1 = Tail(todo) /\ g = Append(f, Head(todo))
    BY <1>5, <2>1, Zenon
  <2>2. CASE rest = rest1 /\ g = f
    BY <2>2, Zenon
  <2> QED BY <1>13, <2>1, <2>2
<1>15. g \in Seq(R) /\ todo' \in Seq(R)
  BY <1>2, <1>5, <1>12, Zenon
<1>16. written \in 1..5 /\ (written # 5 => todo' # <<>>)
  <2>1. \/ written = 1 /\ todo' = todo
        \/ written = 5
        \/ written \in 1..4 /\ todo' = todo
    BY <1>12, Zenon
  <2> QED BY <1>1, <2>1
<1>17. \A i \in DOMAIN g : (i \in DOMAIN f /\ g[i] = f[i]) \/ \E j \in DOMAIN todo : g[i] = todo[j]
  <2>1. CASE g = f
    BY <2>1
  <2>2. CASE g = Append(f, Head(todo))
    BY <1>9, <1>11, <2>2
  <2> QED BY <1>12, <2>1, <2>2
<1>18. \A i \in DOMAIN todo' : \E j \in DOMAIN todo : todo'[i] = todo[j]
  <2>1. CASE todo' = todo
    BY <2>1
  <2>2. CASE todo' = Tail(todo)
    BY <1>10, <2>2
  <2> QED BY <1>12, <2>1, <2>2
<1>19. Planned(part)' = Planned(part)
  BY <1>6, <1>7, <1>14, Zenon
<1>20. \A i \in DOMAIN file'[part] : \/ i \in DOMAIN file[part] /\ file'[part][i] = file[part][i]
                                  \/ \E j \in DOMAIN todo : file'[part][i] = todo[j]
  BY <1>3, <1>17 DEF f
<1> QED BY <1>3, <1>4, <1>18, <1>19, <1>20, <1>15, <1>16

LEMMA WriteTimeStep ==
    ASSUME IInv, WriteTime
    PROVE  IInv'
<1>1. /\ dictionary' = dictionary /\ timeouts' = timeouts /\ now' = now /\ steady' = steady
      /\ held' = held /\ pc = "write times" /\ pc' = pc /\ Piece("times")
  BY DEF WriteTime, OnlySerializer, memory
<1>2. file \in Files /\ todo \in Seq(FileTimes) /\ file.times \in Seq(FileTimes)
  BY <1>1 DEF IInv, Typed, Files
<1>3. /\ file'.times \in Seq(FileTimes) /\ todo' \in Seq(FileTimes) /\ file'.written \in 1..5
      /\ file'.written # 5 => todo' # <<>>
      /\ file' = [file EXCEPT !.written = file'.written, !.times = file'.times]
      /\ Planned("times")' = Planned("times")
  BY <1>1, <1>2, PieceOutcome
<1>4. file' \in Files /\ file'.entries = file.entries /\ file'.whole = file.whole /\ file'.newline = file.newline
  BY <1>2, <1>3 DEF Files
<1>5. Typed'
  BY <1>1, <1>3, <1>4 DEF IInv, Typed
<1>6. Phases'
  BY <1>1, <1>3, <1>4 DEF IInv, Phases
<1>7. Remembered'
  BY <1>1, <1>4 DEF IInv, Remembered, WereHeld
<1>8. SteadyListed'
  <2>1. \A k : TimeOfKey(k)' = TimeOfKey(k)
    BY <1>1 DEF TimeOfKey
  <2>2. ~file'.whole
    BY <1>1, <1>4 DEF IInv, Phases
  <2> QED BY <1>1, <1>3, <2>1, <2>2 DEF IInv, SteadyListed, TimesListed
<1> QED BY <1>5, <1>6, <1>7, <1>8 DEF IInv

LEMMA NewlineStep ==
    ASSUME IInv, Newline
    PROVE  IInv'
<1>1. /\ dictionary' = dictionary /\ timeouts' = timeouts /\ now' = now /\ steady' = steady
      /\ held' = held /\ pc = "write times" /\ pc' = "entries" /\ todo = <<>> /\ todo' = <<>>
      /\ file' = [file EXCEPT !.newline = TRUE]
  BY DEF Newline, OnlySerializer, memory
<1>2. file \in Files /\ file.times \in Seq(FileTimes)
  BY DEF IInv, Typed, Files
<1>3. /\ file' \in Files /\ file'.entries = file.entries /\ file'.whole = file.whole /\ file'.newline
      /\ file'.times = file.times /\ file'.written = file.written
  BY <1>1, <1>2 DEF Files
<1>4. file.written = 5 /\ file.entries = <<>> /\ ~file.whole
  BY <1>1 DEF IInv, Phases
<1>5. Typed'
  BY <1>1, <1>3, EmptySeq DEF IInv, Typed
<1>6. Phases'
  BY <1>1, <1>3, <1>4 DEF IInv, Phases
<1>7. Remembered'
  BY <1>1, <1>3 DEF IInv, Remembered, WereHeld
<1>8. SteadyListed'
  <2>1. \A k : TimeOfKey(k)' = TimeOfKey(k)
    BY <1>1 DEF TimeOfKey
  <2>2. Planned("times") = file.times
    BY <1>1, <1>2, <1>4, ConcatEmptySeq DEF Planned
  <2> QED BY <1>1, <1>3, <1>4, <2>1, <2>2 DEF IInv, SteadyListed, TimesListed
<1> QED BY <1>5, <1>6, <1>7, <1>8 DEF IInv

LEMMA ListEntriesStep ==
    ASSUME IInv, ListEntries
    PROVE  IInv'
<1> DEFINE S == {k \in Keys : dictionary[k] # Absent}
           Record == [k \in Keys |-> [key |-> k, value |-> dictionary[k]]]
<1>1. /\ dictionary' = dictionary /\ timeouts' = timeouts /\ now' = now /\ file' = file
      /\ pc = "entries" /\ pc' = "write entries" /\ steady' = steady /\ held' = held
  BY DEF ListEntries, OnlySerializer, memory
<1>2. file.entries = <<>> /\ file.written = 5 /\ ~file.whole /\ file.newline
  BY <1>1 DEF IInv, Phases
<1>3. PICK order \in SetToSeqs(S) : todo' = [i \in DOMAIN order |-> Record[order[i]]]
  <2>1. PICK order \in SetToSeqs(S) :
               todo' = [i \in DOMAIN order |-> [key |-> order[i], value |-> dictionary[order[i]]]]
    BY DEF ListEntries
  <2>2. IsFiniteSet(S)
    BY DumpAssumption, FS_Subset
  <2> HIDE DEF S
  <2>3. order \in Seq(S)
    BY <2>1, <2>2, OrderLists
  <2>4. \A i \in DOMAIN order : order[i] \in S
    BY <2>3, LenProperties
  <2>5. \A i \in DOMAIN order : order[i] \in Keys
    BY <2>4 DEF S
  <2> QED BY <2>1, <2>5
<1>4. \A k \in S : Record[k] \in FileEntries /\ Record[k].key = k /\ Record[k].value \in held[k] \ {Absent}
  <2>1. \A k \in Keys : dictionary[k] \in held[k]
    BY <1>1 DEF IInv, Remembered
  <2> QED BY <2>1 DEF IInv, Typed, Cells, FileEntries
<1>5. S \in SUBSET Keys
  OBVIOUS
<1>6. /\ \A k \in S : EntryOfKey(k) = {Record[k]}
      /\ \A k \in Keys \ S : EntryOfKey(k) = {}
  BY DEF EntryOfKey
<1> HIDE DEF S, Record
<1>7. /\ todo' \in Seq(FileEntries)
      /\ \A i \in DOMAIN todo' : todo'[i].key \in S /\ todo'[i] = Record[todo'[i].key]
      /\ \A k \in Keys : Lists(todo', k, EntryOfKey(k))
  <2> DEFINE list == todo'
             R == FileEntries
  <2>1. list = [i \in DOMAIN order |-> Record[order[i]]]
    BY <1>3
  <2>2. \A k \in S : Record[k] \in R /\ Record[k].key = k
    BY <1>4
  <2> HIDE DEF list, R
  <2>3. list \in Seq(R)
    BY <1>3, <1>5, <2>1, <2>2, ListedOnce
  <2>4. \A k \in S : Lists(list, k, {Record[k]})
    BY <1>3, <1>5, <2>1, <2>2, ListedOnce
  <2>5. \A k \in Keys \ S : Lists(list, k, {})
    BY <1>3, <1>5, <2>1, <2>2, ListedOnce
  <2>6. \A k \in Keys : Lists(list, k, EntryOfKey(k))
    BY <1>6, <2>4, <2>5
  <2>7. \A i \in DOMAIN list : list[i].key \in S /\ list[i] = Record[list[i].key]
    BY <1>3, <1>5, <2>1, <2>2, ListedOnce
  <2> QED BY <2>3, <2>6, <2>7 DEF list, R
<1>8. Typed'
  BY <1>1, <1>7 DEF IInv, Typed
<1>9. Phases'
  BY <1>1, <1>2 DEF IInv, Phases
<1>10. Remembered'
  <2>1. WereHeld(todo)'
    BY <1>1, <1>4, <1>7 DEF WereHeld
  <2>2. WereHeld(file.entries)' /\ \A k \in Keys : dictionary'[k] \in held'[k]
    BY <1>1 DEF IInv, Remembered, WereHeld
  <2> QED BY <2>1, <2>2 DEF Remembered
<1>11. SteadyListed'
  <2>1. Planned("entries")' = todo'
    BY <1>1, <1>2, <1>7, ConcatEmptySeq DEF Planned
  <2>2. \A k \in Keys : TimeOfKey(k)' = TimeOfKey(k) /\ EntryOfKey(k)' = EntryOfKey(k)
    BY <1>1 DEF TimeOfKey, EntryOfKey
  <2>3. steady \subseteq Keys
    BY DEF IInv, Typed
  <2>4. TimesListed(file.times)'
    BY <1>1, <2>2, <2>3 DEF IInv, SteadyListed, TimesListed
  <2>5. EntriesListed(Planned("entries"))'
    BY <1>1, <1>7, <2>1, <2>2, <2>3 DEF EntriesListed
  <2> QED BY <1>1, <1>2, <2>4, <2>5 DEF SteadyListed
<1> QED BY <1>8, <1>9, <1>10, <1>11 DEF IInv

LEMMA WriteEntryStep ==
    ASSUME IInv, WriteEntry
    PROVE  IInv'
<1>1. /\ dictionary' = dictionary /\ timeouts' = timeouts /\ now' = now /\ steady' = steady
      /\ held' = held /\ pc = "write entries" /\ pc' = pc /\ Piece("entries")
  BY DEF WriteEntry, OnlySerializer, memory
<1>2. file \in Files /\ todo \in Seq(FileEntries) /\ file.entries \in Seq(FileEntries)
  BY <1>1 DEF IInv, Typed, Files
<1>3. /\ file'.entries \in Seq(FileEntries) /\ todo' \in Seq(FileEntries) /\ file'.written \in 1..5
      /\ file'.written # 5 => todo' # <<>>
      /\ file' = [file EXCEPT !.written = file'.written, !.entries = file'.entries]
      /\ Planned("entries")' = Planned("entries")
      /\ \A i \in DOMAIN file'.entries : \/ i \in DOMAIN file.entries /\ file'.entries[i] = file.entries[i]
                                        \/ \E j \in DOMAIN todo : file'.entries[i] = todo[j]
      /\ \A i \in DOMAIN todo' : \E j \in DOMAIN todo : todo'[i] = todo[j]
  BY <1>1, <1>2, PieceOutcome
<1>4. file' \in Files /\ file'.times = file.times /\ file'.whole = file.whole /\ file'.newline = file.newline
  BY <1>2, <1>3 DEF Files
<1>5. Typed'
  BY <1>1, <1>3, <1>4 DEF IInv, Typed
<1>6. Phases'
  BY <1>1, <1>3, <1>4 DEF IInv, Phases
<1>7. Remembered'
  <2>1. WereHeld(file.entries) /\ WereHeld(todo) /\ \A k \in Keys : dictionary[k] \in held[k]
    BY <1>1 DEF IInv, Remembered
  <2>2. WereHeld(file.entries)' /\ WereHeld(todo)'
    BY <1>1, <1>3, <2>1 DEF WereHeld
  <2> QED BY <1>1, <2>1, <2>2 DEF Remembered
<1>8. SteadyListed'
  <2>1. \A k : TimeOfKey(k)' = TimeOfKey(k) /\ EntryOfKey(k)' = EntryOfKey(k)
    BY <1>1 DEF TimeOfKey, EntryOfKey
  <2>2. ~file'.whole
    BY <1>1, <1>4 DEF IInv, Phases
  <2> QED BY <1>1, <1>3, <1>4, <2>1, <2>2 DEF IInv, SteadyListed, TimesListed, EntriesListed
<1> QED BY <1>5, <1>6, <1>7, <1>8 DEF IInv

LEMMA EndDumpStep ==
    ASSUME IInv, EndDump
    PROVE  IInv'
<1>1. /\ dictionary' = dictionary /\ timeouts' = timeouts /\ now' = now /\ steady' = steady
      /\ held' = held /\ pc = "write entries" /\ pc' = "sleep" /\ todo = <<>> /\ todo' = <<>>
      /\ file' = [file EXCEPT !.whole = TRUE]
  BY DEF EndDump, OnlySerializer, memory
<1>2. file \in Files /\ file.entries \in Seq(FileEntries)
  BY DEF IInv, Typed, Files
<1>3. /\ file' \in Files /\ file'.entries = file.entries /\ file'.newline = file.newline
      /\ file'.times = file.times /\ file'.written = file.written
  BY <1>1, <1>2 DEF Files
<1>4. file.written = 5 /\ file.newline
  BY <1>1 DEF IInv, Phases
<1>5. Typed'
  BY <1>1, <1>3, EmptySeq DEF IInv, Typed
<1>6. Phases'
  BY <1>1, <1>3, <1>4 DEF IInv, Phases
<1>7. Remembered'
  BY <1>1, <1>3 DEF IInv, Remembered, WereHeld
<1>8. SteadyListed'
  <2>1. \A k : TimeOfKey(k)' = TimeOfKey(k) /\ EntryOfKey(k)' = EntryOfKey(k)
    BY <1>1 DEF TimeOfKey, EntryOfKey
  <2>2. Planned("entries") = file.entries
    BY <1>1, <1>2, <1>4, ConcatEmptySeq DEF Planned
  <2> QED BY <1>1, <1>3, <1>4, <2>1, <2>2 DEF IInv, SteadyListed, TimesListed, EntriesListed
<1> QED BY <1>5, <1>6, <1>7, <1>8 DEF IInv

-----------------------------------------------------------------------------
(* Database::new *)

LEMMA RestartStep ==
    ASSUME IInv, Restart
    PROVE  IInv'
<1>1. /\ pc = "down" /\ pc' \in {"sleep", "failed"} /\ todo' = <<>> /\ steady' = {}
      /\ now' = now /\ file' = file /\ held' = held
  BY DEF Restart
<1>2. dictionary' \in [Keys -> Cells] /\ timeouts' \in [Keys -> Limits]
  <2>1. PICK loaded \in Loads :
              \/ UNCHANGED memory
              \/ /\ ~loaded.panicked
                 /\ dictionary' = loaded.dictionary /\ timeouts' = loaded.timeouts
    BY DEF Restart
  <2>2. CASE UNCHANGED memory
    BY <2>2 DEF memory, IInv, Typed
  <2>3. CASE /\ ~loaded.panicked
             /\ dictionary' = loaded.dictionary /\ timeouts' = loaded.timeouts
    <3>1. file.entries \in Seq(FileEntries) /\ file.times \in Seq(FileTimes)
      BY DEF IInv, Typed, Files
    <3>2. PICK d \in [Keys -> Cells] : loaded = LoadedFrom(d)
      BY <2>3, <3>1, LoadOutcome
    <3>3. loaded \in Memories
      BY <3>1, <3>2, LoadedKeeps
    <3> QED BY <2>3, <3>3 DEF Memories
  <2> QED BY <2>1, <2>2, <2>3
<1>3. Typed'
  BY <1>1, <1>2, EmptySeq DEF IInv, Typed
<1>4. Phases'
  BY <1>1 DEF IInv, Phases
<1>5. Remembered'
  BY <1>1 DEF IInv, Remembered, WereHeld
<1>6. SteadyListed'
  BY <1>1 DEF SteadyListed, TimesListed, EntriesListed
<1> QED BY <1>3, <1>4, <1>5, <1>6 DEF IInv

LEMMA StepInvariant == IInv /\ [DumpNext]_dumpVars => IInv'
<1> SUFFICES ASSUME IInv, [DumpNext]_dumpVars PROVE IInv'
  OBVIOUS
<1>1. CASE \E k \in Keys : Store(k) \/ SetTimeout(k) \/ Delete(k) \/ Lapse(k)
  BY <1>1, ClientStep
<1>2. CASE Tick
  <2>1. now \in Times /\ now < MaxTime /\ now' = now + 1
    BY <1>2 DEF Tick, IInv, Typed
  <2>2. now' \in Times
    BY <2>1, DumpAssumption DEF Times
  <2>3. /\ dictionary' = dictionary /\ timeouts' = timeouts /\ file' = file /\ todo' = todo
        /\ steady' = steady /\ held' = held /\ pc' \in {pc, "down"}
    BY <1>2 DEF Tick, memory
  <2> QED BY <2>2, <2>3, AloneStep
<1>3. CASE Serializer
  BY <1>3, TruncateStep, ListTimesStep, WriteTimeStep, NewlineStep, ListEntriesStep,
     WriteEntryStep, EndDumpStep DEF Serializer
<1>4. CASE Crash
  <2>1. now' \in Times
    BY <1>4 DEF Crash, IInv, Typed
  <2>2. /\ dictionary' = dictionary /\ timeouts' = timeouts /\ file' = file /\ todo' = todo
        /\ steady' = steady /\ held' = held /\ pc' \in {pc, "down"}
    BY <1>4 DEF Crash, memory
  <2> QED BY <2>1, <2>2, AloneStep
<1>5. CASE Restart
  BY <1>5, RestartStep
<1>6. CASE UNCHANGED dumpVars
  <2>1. /\ dictionary' = dictionary /\ timeouts' = timeouts /\ file' = file /\ todo' = todo
        /\ steady' = steady /\ held' = held /\ pc' \in {pc, "down"} /\ now' \in Times
    BY <1>6 DEF dumpVars, memory, IInv, Typed
  <2> QED BY <2>1, AloneStep
<1> QED BY <1>1, <1>2, <1>3, <1>4, <1>5, <1>6 DEF DumpNext

\* The file agrees with what each key has held, and with the memory itself as
\* far as nothing has changed, at every moment.
THEOREM Invariance == DumpSpec => []IInv
BY InitInvariant, StepInvariant, PTL DEF DumpSpec

-----------------------------------------------------------------------------
(* What the invariant is for *)

\* Every value and every list is of its type, the values read back from the
\* file among them: the HashMap<String, (u64, StorageValue)> and the vector of
\* timeouts, the file of run_serializer, and what Database::new makes of it.
THEOREM TypeCorrect == DumpSpec => []DumpTypeOK
<1>1. ASSUME IInv PROVE DumpTypeOK
  <2>1. Cells \subseteq StorageValues \cup {Absent} /\ FileTimes \subseteq [key : Keys, secs : Nat]
    BY DEF Cells, FiniteValues, FileTimes
  <2>2. FileEntries \subseteq [key : Keys, value : StorageValues]
    BY DEF FileEntries, FiniteValues
  <2>3. /\ Seq(FileTimes) \subseteq Seq([key : Keys, secs : Nat])
        /\ Seq(FileEntries) \subseteq Seq([key : Keys, value : StorageValues])
        /\ Seq(FileTimes) \subseteq Seq(Records) /\ Seq(FileEntries) \subseteq Seq(Records)
    BY <2>1, <2>2, SeqMonotonic DEF Records
  <2>4. dictionary \in [Keys -> StorageValues \cup {Absent}]
    BY <1>1, <2>1 DEF IInv, Typed
  <2>5. /\ file.times \in Seq([key : Keys, secs : Nat]) /\ file.written \in 1..5
        /\ file.entries \in Seq([key : Keys, value : StorageValues])
    BY <1>1, <2>3 DEF IInv, Typed, Files
  <2>6. todo \in Seq(Records)
    BY <1>1, <2>3 DEF IInv, Typed
  <2> QED BY <1>1, <2>4, <2>5, <2>6 DEF IInv, Typed, Limits, DumpTypeOK
<1> QED BY <1>1, Invariance, PTL

\* Only Database::new brings the process back.
LEMMA OnlyRestart ==
    ASSUME [DumpNext]_dumpVars, pc = "down", pc' # "down"
    PROVE  Restart
<1>1. ~Serializer
  BY DEF Serializer, Truncate, ListTimes, WriteTime, Newline, ListEntries, WriteEntry, EndDump
<1>2. \A k \in Keys : ~(Store(k) \/ SetTimeout(k) \/ Delete(k) \/ Lapse(k))
  BY DEF Store, SetTimeout, Delete, Lapse, Changes, Up
<1>3. ~Tick /\ ~Crash /\ ~UNCHANGED dumpVars
  BY DEF Tick, Crash, Up, dumpVars
<1> QED BY <1>1, <1>2, <1>3 DEF DumpNext

LEMMA RestartLoads ==
    ASSUME IInv, Restart, pc' = "sleep"
    PROVE  /\ ~StartupPanics
           /\ \E d \in [Keys -> Cells] : /\ \A k \in Keys : d[k] \in LoadedValues(k)
                                         /\ dictionary' = LoadedFrom(d).dictionary
                                         /\ timeouts' = LoadedFrom(d).timeouts
<1>1. PICK loaded \in Loads : /\ ~loaded.panicked
                              /\ dictionary' = loaded.dictionary /\ timeouts' = loaded.timeouts
  BY DEF Restart
<1>2. file.entries \in Seq(FileEntries) /\ file.times \in Seq(FileTimes)
  BY DEF IInv, Typed, Files
<1> QED BY <1>1, <1>2, LoadOutcome

LEMMA ComesBackHeld ==
    ASSUME IInv, Restart, pc' = "sleep", NEW k \in Keys, Plain(k), ItsLinesAreItsOwn(k),
           dictionary'[k] # Absent
    PROVE  \E v \in held[k] \ {Absent} : dictionary'[k] \in Reread(v)
<1>1. file.entries \in Seq(FileEntries) /\ file.times \in Seq(FileTimes)
  BY DEF IInv, Typed, Files
<1>2. PICK d \in [Keys -> Cells] : /\ \A j \in Keys : d[j] \in LoadedValues(j)
                                   /\ dictionary' = LoadedFrom(d).dictionary
  BY RestartLoads
<1>3. LoadedFrom(d).dictionary[k] \in {d[k], Absent}
  BY <1>1, LoadedKeeps
<1>4. dictionary'[k] \in LoadedValues(k)
  BY <1>2, <1>3
<1>5. LinesOf(k) # {}
  BY <1>4 DEF LoadedValues
<1>6. PICK i \in LinesOf(k) : LoadedValues(k) = EntryValues(i)
  BY <1>1, <1>5, LineRead
<1>7. i \in DOMAIN file.entries /\ file.entries[i].key = k
  BY <1>6 DEF LinesOf, ItsLinesAreItsOwn
<1>8. EntryValues(i) \subseteq Reread(file.entries[i].value)
  <2>1. ~Has(file.entries[i].key, Comma)
    BY <1>7, PlainName
  <2>2. EntryValues(i) \in {Reread(file.entries[i].value), {}}
    BY <2>1, Zenon DEF EntryValues
  <2> QED BY <2>2
<1>9. file.entries[i].value \in held[k] \ {Absent}
  BY <1>7 DEF IInv, Remembered, WereHeld
<1> QED BY <1>4, <1>6, <1>8, <1>9

\* Whenever the process dies, even between two pieces of a line, a key that
\* Database::new brings back has a value it had while run_serializer wrote, or
\* what stood before a comma of it, unless a line of another name was read as
\* one of its own.
THEOREM RestoredHeld == DumpSpec => RestoredWasHeld
<1>1. IInv /\ [DumpNext]_dumpVars =>
         [pc = "down" /\ pc' = "sleep" =>
             \A k \in Keys : Plain(k) /\ ItsLinesAreItsOwn(k) /\ dictionary'[k] # Absent =>
                 \E v \in held[k] \ {Absent} : dictionary'[k] \in Reread(v)]_dumpVars
  BY OnlyRestart, ComesBackHeld
<1> QED BY <1>1, Invariance, PTL DEF RestoredWasHeld, DumpSpec

-----------------------------------------------------------------------------
(* A whole dump *)

LEMMA WholeWritten ==
    ASSUME IInv, file.whole
    PROVE  /\ \A i : WrittenTimes(i) = 5
           /\ \A i : Written(file.entries, i) = 5
           /\ \A i \in DOMAIN file.times : TimeParts(i) = Parts[file.times[i].key]
<1>1. file.newline /\ file.written = 5
  BY DEF IInv, Phases
<1> QED BY <1>1 DEF WrittenTimes, Written, TimeParts

LEMMA WholeStarts ==
    ASSUME IInv, Restart, file.whole,
           \A i \in DOMAIN file.times : ~Has(file.times[i].key, Comma)
                                        /\ ~Has(file.times[i].key, Semicolon)
    PROVE  pc' = "sleep"
<1>1. file.entries \in Seq(FileEntries) /\ file.times \in Seq(FileTimes)
  BY DEF IInv, Typed, Files
<1>2. ASSUME NEW i \in DOMAIN file.times
      PROVE  /\ ~TimePanics(i)
             /\ \A n \in Readings(i) : SecondsRead(i, n) \in Nat
  <2>1. /\ file.times[i].key \in Keys /\ file.times[i].secs \in Nat
        /\ WrittenTimes(i) = 5 /\ TimeParts(i) = Parts[file.times[i].key]
    BY <1>1, TimesTyped, WholeWritten
  <2>2. /\ \A n \in Readings(i) : n = 1
        /\ TimeParts(i)[1].last /\ TimeParts(i)[1].named /\ ~TimeParts(i)[1].comma
    BY <2>1, OnePart DEF Readings
  <2> QED BY <2>1, <2>2 DEF TimePanics, SecondsRead
<1>3. \A i : ~EntryPanics(i)
  BY WholeWritten DEF EntryPanics
<1>4. ~StartupPanics
  BY <1>2, <1>3 DEF StartupPanics
<1>5. DOMAIN file.times = 1..Len(file.times)
  BY <1>1, TimesTyped
<1>6. \A loaded \in Loads : ~loaded.panicked
  BY <1>1, <1>2, <1>4, <1>5, LoadOutcome, LoadedPeacefully
<1> QED BY <1>6 DEF Restart

\* The one line of a key nothing has changed gives its value back.
LEMMA EntryReadBack ==
    ASSUME IInv, file.whole, NEW k \in steady, k \in Keys, Plain(k), ItsLinesAreItsOwn(k),
           Unharmed(dictionary[k])
    PROVE  LoadedValues(k) = {dictionary[k]}
<1>1. file.entries \in Seq(FileEntries)
  BY DEF IInv, Typed, Files
<1>2. Lists(file.entries, k, EntryOfKey(k))
  BY DEF IInv, SteadyListed, EntriesListed
<1>3. \A i \in LinesOf(k) : /\ i \in DOMAIN file.entries /\ file.entries[i].key = k
                            /\ file.entries[i] \in EntryOfKey(k)
  BY <1>2 DEF LinesOf, Lists, ItsLinesAreItsOwn
<1>4. \A i : file.entries[i].key = k => EntryValues(i) = Reread(file.entries[i].value)
  <2>1. ASSUME NEW i, file.entries[i].key = k
        PROVE  EntryValues(i) = Reread(file.entries[i].value)
    <3>1. ~Has(file.entries[i].key, Comma) /\ Written(file.entries, i) = 5
      BY <2>1, PlainName, WholeWritten
    <3> QED BY <3>1 DEF EntryValues
  <2> QED BY <2>1
<1>5. CASE dictionary[k] = Absent
  <2>1. LinesOf(k) = {}
    BY <1>3, <1>5 DEF EntryOfKey
  <2> QED BY <1>5, <2>1 DEF LoadedValues
<1>6. CASE dictionary[k] # Absent
  <2>1. EntryOfKey(k) = {[key |-> k, value |-> dictionary[k]]}
    BY <1>6 DEF EntryOfKey
  <2>2. Reread(dictionary[k]) = {dictionary[k]}
    BY <1>6 DEF Unharmed
  <2>3. PICK i \in DOMAIN file.entries : file.entries[i].key = k
    BY <1>2, <2>1 DEF Lists
  <2>4. file.entries[i].value = dictionary[k]
    <3>1. file.entries[i] = [key |-> k, value |-> dictionary[k]]
      BY <1>2, <2>1, <2>3 DEF Lists
    <3> QED BY <3>1
  <2>5. EntryName[file.entries[i].key] = k
    BY <2>3, PlainName
  <2>6. i \in LinesOf(k)
    BY <1>4, <2>2, <2>3, <2>4, <2>5 DEF LinesOf
  <2>7. PICK j \in LinesOf(k) : LoadedValues(k) = EntryValues(j)
    BY <1>1, <2>6, LineRead
  <2>8. file.entries[j].value = dictionary[k] /\ file.entries[j].key = k
    <3>1. file.entries[j] = [key |-> k, value |-> dictionary[k]]
      BY <1>3, <2>1, <2>7
    <3> QED BY <3>1
  <2> QED BY <1>4, <2>2, <2>7, <2>8
<1> QED BY <1>5, <1>6

LEMMA SameSecond ==
    ASSUME NEW a \in Nat, NEW b \in Nat, a * TicksPerSecond = b * TicksPerSecond
    PROVE  a = b
BY DumpAssumption

LEMMA SteadySurvives ==
    ASSUME IInv, Restart, file.whole, pc' = "sleep", NEW k \in steady, Plain(k),
           ItsLinesAreItsOwn(k), ItsTimesAreItsOwn(k), Unharmed(dictionary[k])
    PROVE  Survives(k)
<1>1. /\ file.times \in Seq(FileTimes) /\ k \in Keys
      /\ Lists(file.times, k, TimeOfKey(k))
  BY DEF IInv, Typed, Files, SteadyListed, TimesListed
<1>2. PICK d \in [Keys -> Cells] : /\ \A j \in Keys : d[j] \in LoadedValues(j)
                                   /\ dictionary' = LoadedFrom(d).dictionary
                                   /\ timeouts' = LoadedFrom(d).timeouts
  BY RestartLoads
<1>3. d[k] = dictionary[k]
  BY <1>1, <1>2, EntryReadBack
<1> DEFINE len == Len(file.times)
<1>4. len \in Nat /\ DOMAIN file.times = 1..len /\ \A j \in 1..len : file.times[j].secs \in Nat
  BY <1>1, TimesTyped
<1>5. \A j \in 1..len : \A n \in Readings(j) : NameRead(j, n) = k => file.times[j].key = k
  BY <1>4 DEF ItsTimesAreItsOwn
<1>6. CASE timeouts[k] = Persistent
  <2>1. \A j \in 1..len : \A n \in Readings(j) : NameRead(j, n) # k
    BY <1>1, <1>4, <1>5, <1>6 DEF Lists, TimeOfKey
  <2>2. LoadedFrom(d).dictionary[k] = d[k] /\ LoadedFrom(d).timeouts[k] = Persistent
    BY <1>1, <2>1, LoadedUnnamed
  <2> QED BY <1>2, <1>3, <1>6, <2>2 DEF Survives
<1>7. CASE timeouts[k] # Persistent
  <2> DEFINE t == timeouts[k]
             record == [key |-> k, secs |-> t \div TicksPerSecond]
  <2>1. TimeOfKey(k) = {record}
    BY <1>7 DEF TimeOfKey
  <2>2. PICK i \in 1..len : file.times[i].key = k
    BY <1>1, <1>4, <2>1 DEF Lists
  <2>3. file.times[i].key = k /\ file.times[i].secs = t \div TicksPerSecond
    <3>1. file.times[i] = record
      BY <1>1, <1>4, <2>1, <2>2 DEF Lists
    <3> QED BY <3>1
  <2>4. \A j \in 1..len : j # i => \A n \in Readings(j) : NameRead(j, n) # k
    BY <1>1, <1>4, <1>5, <2>2 DEF Lists
  <2>5. Readings(i) = {1} /\ NameRead(i, 1) = k /\ SecondsRead(i, 1) = file.times[i].secs
    <3>1. TimeParts(i) = Parts[k]
      BY <1>4, <2>3, WholeWritten
    <3>2. DOMAIN Parts[k] = {1} /\ Parts[k][1].name = k /\ ~Parts[k][1].comma
      BY <1>1, PlainName
    <3> QED BY <3>1, <3>2 DEF Readings, NameRead, SecondsRead
  <2>6. file.times[i].secs * TicksPerSecond = Rounded(t)
    BY <2>3 DEF Rounded
  <2> DEFINE time == file.times[i].secs * TicksPerSecond
             alone == \A j \in 1..len : \A n \in Readings(j) :
                         SecondsRead(j, n) \in Nat /\ SecondsRead(j, n) * TicksPerSecond = time => j = i
  <2>7. HasOwnSecond(k) => alone
    <3>1. SUFFICES ASSUME HasOwnSecond(k), NEW j \in 1..len, NEW n \in Readings(j),
                          SecondsRead(j, n) \in Nat, SecondsRead(j, n) * TicksPerSecond = time
                   PROVE  j = i
      OBVIOUS
    <3>2. SecondsRead(j, n) = file.times[i].secs
      BY <1>4, <3>1, SameSecond
    <3> QED BY <1>4, <2>3, <3>2, <3>1 DEF HasOwnSecond
  <2>8. /\ d[k] # Absent /\ ~(time < now) =>
              LoadedFrom(d).dictionary[k] = d[k] /\ (alone => LoadedFrom(d).timeouts[k] = time)
        /\ d[k] = Absent \/ time < now => LoadedFrom(d).dictionary[k] = Absent
    BY <1>1, <2>4, <2>5, LoadedNamed, Zenon
  <2>9. time = Rounded(t)
    BY <2>6
  <2> HIDE DEF time, alone
  <2> QED BY <1>2, <1>3, <1>7, <2>7, <2>8, <2>9 DEF Survives
<1> QED BY <1>6, <1>7

\* The dump run_serializer finished gives back every key nothing has changed
\* since that dump began, with its value and its timeout in whole seconds, when
\* Database::new reads no other name as that key; and it is enough to start
\* from, if no name with a timeout has a comma or a semicolon.
THEOREM WholeRestores == DumpSpec => WholeDumpRestores
<1>1. IInv /\ [DumpNext]_dumpVars =>
         [pc = "down" /\ pc' # "down" /\ file.whole =>
             /\ (\A i \in DOMAIN file.times : ~Has(file.times[i].key, Comma)
                                              /\ ~Has(file.times[i].key, Semicolon))
                   => pc' = "sleep"
             /\ pc' = "sleep" =>
                   \A k \in steady :
                       /\ Plain(k) /\ ItsLinesAreItsOwn(k) /\ ItsTimesAreItsOwn(k)
                       /\ Unharmed(dictionary[k])
                       => Survives(k)
         ]_dumpVars
  <2> SUFFICES ASSUME IInv, [DumpNext]_dumpVars, pc = "down", pc' # "down", file.whole
               PROVE  /\ (\A i \in DOMAIN file.times : ~Has(file.times[i].key, Comma)
                                                       /\ ~Has(file.times[i].key, Semicolon))
                            => pc' = "sleep"
                      /\ pc' = "sleep" =>
                            \A k \in steady :
                                /\ Plain(k) /\ ItsLinesAreItsOwn(k) /\ ItsTimesAreItsOwn(k)
                                /\ Unharmed(dictionary[k])
                                => Survives(k)
    OBVIOUS
  <2>1. Restart
    BY OnlyRestart
  <2> QED BY <2>1, WholeStarts, SteadySurvives
<1> QED BY <1>1, Invariance, PTL DEF WholeDumpRestores, DumpSpec

====
