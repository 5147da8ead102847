---- MODULE DatabaseProofs ----
(***************************************************************************)
(* Theorems about TtlSupervisor, for every set of keys, values, shards and *)
(* requesters, every clock bound and every channel capacity, and about the *)
(* commands of Database on top of it: they use the expiry machinery as     *)
(* TtlSupervisor lets its environment use it, whatever is requested and    *)
(* however many threads serve clients, so every theorem about              *)
(* TtlSupervisor holds of them.  The last parts are about the keys that    *)
(* are given no expiry time: the machinery spares them, what is read of    *)
(* them was there at some moment of the read, and no update of one that    *)
(* exists throughout is lost.                                              *)
(***************************************************************************)
EXTENDS DatabaseHistory, StorageValueProofs

-----------------------------------------------------------------------------
(* The vector of expiry times *)

\* The vector after an EXPIRE holds entries only, one more than before or as
\* many, and at least one.
LEMMA WithEntryType ==
    ASSUME NEW v \in Seq(KeyTtl), NEW e \in KeyTtl, NEW w \in WithEntry(v, e)
    PROVE  /\ w \in Seq(KeyTtl)
           /\ \/ Len(w) = Len(v) + 1
              \/ Len(w) = Len(v) /\ Len(v) > 0
<1>1. Len(v) \in Nat /\ DOMAIN v = 1..Len(v) /\ \A i \in DOMAIN v : v[i] \in KeyTtl
  BY LenProperties
<1>2. ASSUME NEW p \in DOMAIN v, w = ReplaceAt(v, p, e)
      PROVE  w \in Seq(KeyTtl) /\ Len(w) = Len(v) /\ Len(v) > 0
  BY <1>2, ReplaceAtType
<1>3. CASE HasEntry(v, e.key)
  BY <1>2, <1>3 DEF WithEntry, PositionOf
<1>4. CASE ~HasEntry(v, e.key)
  <2>1. CASE \E p \in FoundAt(v, e.expire_time) : w = ReplaceAt(v, p, e)
    BY <1>2, <2>1 DEF FoundAt
  <2>2. CASE \E p \in InsertionPoints(v, e.expire_time) : w = InsertAt(v, p, e)
    <3>1. PICK p \in 1..(Len(v) + 1) : w = InsertAt(v, p, e)
      BY <2>2 DEF InsertionPoints
    <3> QED BY <3>1, InsertAtType
  <2> QED BY <1>4, <2>1, <2>2 DEF WithEntry
<1> QED BY <1>3, <1>4

\* Taking an entry out leaves entries, and leaves one only where there was one.
LEMMA RemoveEntry ==
    ASSUME NEW v \in Seq(KeyTtl), NEW i \in DOMAIN v
    PROVE  RemoveAt(v, i) \in Seq(KeyTtl) /\ v # <<>>
BY RemoveAtType, LenProperties

\* An entry's time is a number.
LEMMA EntryTime ==
    ASSUME NEW v \in Seq(KeyTtl), NEW k, NEW i \in PositionOf(v, k)
    PROVE  v[i].expire_time \in Nat
<1>1. i \in DOMAIN v /\ v[i] \in KeyTtl
  BY LenProperties DEF PositionOf
<1> QED BY <1>1 DEF KeyTtl

-----------------------------------------------------------------------------
(* The dictionary and the messages *)

LEMMA RemoveType ==
    ASSUME NEW d \in Dictionaries, NEW k \in Keys
    PROVE  remove(d, k) \in Dictionaries
<1>1. hash_funcion[k] \in Shards
  BY HashShardAssumption
<1> QED BY <1>1 DEF remove, insert, Dictionaries

LEMMA WriteType ==
    ASSUME NEW d \in Dictionaries, NEW s \in Shards, NEW k \in Keys,
           NEW v \in StorageValues \cup {Absent}
    PROVE  [d EXCEPT ![s][k] = v] \in Dictionaries
BY DEF Dictionaries

LEMMA ClearType ==
    ASSUME NEW d \in Dictionaries
    PROVE  clear(d) \in Dictionaries
BY DEF clear, EmptyShard, Dictionaries

LEMMA AnswerTypes ==
    /\ Waiting \in RespondTtl
    /\ AnswerPersistent \in RespondTtl
    /\ AnswerList \in RespondTtl
    /\ \A t \in Nat : AnswerTtl(t) \in RespondTtl
BY DEF RespondTtl, Waiting, AnswerPersistent, AnswerList, AnswerTtl

LEMMA EnvironmentMessagesType == EnvironmentMessages \subseteq MessageTtl
BY TtlAssumption
   DEF EnvironmentMessages, MessageTtl, Expire, Clear, Check, Transfer, Ttl, AllTtL

\* The first message is one of MessageTtl, so its fields have their types.
LEMMA HeadMessage ==
    ASSUME TypeOK, NEW t, Receive(t)
    PROVE  /\ Head(mailbox) \in MessageTtl /\ Head(mailbox).type = t
           /\ mailbox' \in Seq(MessageTtl)
BY HeadTailProperties DEF TypeOK, Receive

-----------------------------------------------------------------------------
(* The inductive invariant *)

\* A vector that is not empty has an executor only because the type of the
\* vector gives its length a meaning: the two are inductive together.
IInv == TypeOK /\ ExecutorCoverage

LEMMA InitIInv == Init => IInv
<1> SUFFICES ASSUME Init PROVE IInv
  OBVIOUS
<1>1. TypeOK
  <2>1. replies \in [Requesters -> RespondTtl]
    BY AnswerTypes DEF Init
  <2>2. mailbox \in Seq(MessageTtl) /\ ttl_keys \in Seq(KeyTtl)
    BY DEF Init
  <2> QED BY <2>1, <2>2, TtlAssumption DEF Init, TypeOK
<1> QED BY <1>1 DEF Init, IInv, ExecutorCoverage

\* An EXPIRE leaves a vector of one entry, and spawns, or found one already.
LEMMA HandleExpireIInv == IInv /\ HandleExpire => IInv'
<1> SUFFICES ASSUME IInv, HandleExpire PROVE IInv'
  OBVIOUS
<1> DEFINE m == Head(mailbox)
           e == [key |-> m.key, expire_time |-> m.expire_time]
<1>1. m \in MessageTtl /\ m.type = "Expire" /\ mailbox' \in Seq(MessageTtl)
  BY HeadMessage DEF IInv, HandleExpire
<1>2. e \in KeyTtl
  BY <1>1 DEF MessageTtl, KeyTtl
<1>3. ttl_keys' \in WithEntry(ttl_keys, e) /\ executors' = Spawn(ttl_keys')
  BY DEF HandleExpire
<1> HIDE DEF m, e
<1>4. /\ ttl_keys' \in Seq(KeyTtl)
      /\ \/ Len(ttl_keys') = Len(ttl_keys) + 1
         \/ Len(ttl_keys') = Len(ttl_keys) /\ Len(ttl_keys) > 0
  BY <1>2, <1>3, WithEntryType DEF IInv, TypeOK
<1>5. executors \in Nat /\ executors' \in Nat /\ executors' >= executors
  BY <1>3 DEF Spawn, IInv, TypeOK
<1>6. ~sweeping /\ UNCHANGED <<now, replies, sweeping, dictionary>>
  BY DEF HandleExpire, Locked
<1>7. TypeOK'
  BY <1>1, <1>4, <1>5, <1>6 DEF IInv, TypeOK
<1>8. executors' > 0
  <2>1. Len(ttl_keys) \in Nat /\ (Len(ttl_keys) = 0 => ttl_keys = <<>>)
    BY EmptySeq, LenProperties DEF IInv, TypeOK
  <2>2. CASE ttl_keys = <<>>
    BY <2>2, <1>3, <1>4, <1>5 DEF Spawn
  <2>3. CASE ttl_keys # <<>>
    BY <2>3, <1>5 DEF IInv, ExecutorCoverage
  <2> QED BY <2>2, <2>3
<1> QED BY <1>6, <1>7, <1>8 DEF IInv, ExecutorCoverage

LEMMA HandleClearIInv == IInv /\ HandleClear => IInv'
<1> SUFFICES ASSUME IInv, HandleClear PROVE IInv'
  OBVIOUS
<1>1. mailbox' \in Seq(MessageTtl)
  BY HeadMessage DEF IInv, HandleClear
<1>2. ttl_keys' \in Seq(KeyTtl) /\ (ttl_keys' # <<>> => ttl_keys # <<>>)
  BY RemoveEntry DEF IInv, TypeOK, HandleClear, PositionOf
<1> QED BY <1>1, <1>2 DEF HandleClear, Locked, IInv, TypeOK, ExecutorCoverage

LEMMA HandleTransferIInv == IInv /\ HandleTransfer => IInv'
<1> SUFFICES ASSUME IInv, HandleTransfer PROVE IInv'
  OBVIOUS
<1> DEFINE m == Head(mailbox)
<1>1. m \in MessageTtl /\ m.type = "Transfer" /\ mailbox' \in Seq(MessageTtl)
  BY HeadMessage DEF IInv, HandleTransfer
<1>2. m.to_key \in Keys
  BY <1>1 DEF MessageTtl
<1>3. ASSUME NEW i \in PositionOf(ttl_keys, m.key),
             ttl_keys' = ReplaceAt(ttl_keys, i, Renamed(ttl_keys[i], m.to_key))
      PROVE  ttl_keys' \in Seq(KeyTtl) /\ ttl_keys # <<>>
  <2>1. i \in DOMAIN ttl_keys /\ ttl_keys \in Seq(KeyTtl)
    BY DEF PositionOf, IInv, TypeOK
  <2>2. ttl_keys[i] \in KeyTtl
    BY <2>1, ElementOfSeq, LenProperties
  <2>3. Renamed(ttl_keys[i], m.to_key) \in KeyTtl
    BY <1>2, <2>2 DEF Renamed, KeyTtl
  <2> QED BY <1>3, <2>1, <2>3, ReplaceAtType
<1>4. ttl_keys' \in Seq(KeyTtl) /\ (ttl_keys' # <<>> => ttl_keys # <<>>)
  BY <1>3 DEF HandleTransfer, IInv, TypeOK
<1> QED BY <1>1, <1>4 DEF HandleTransfer, Locked, IInv, TypeOK, ExecutorCoverage

LEMMA HandleTtlIInv == IInv /\ HandleTtl => IInv'
<1> SUFFICES ASSUME IInv, HandleTtl PROVE IInv'
  OBVIOUS
<1> DEFINE m == Head(mailbox)
<1>1. m \in MessageTtl /\ m.type = "Ttl" /\ mailbox' \in Seq(MessageTtl)
  BY HeadMessage DEF IInv, HandleTtl
<1>2. m.sender \in Requesters
  BY <1>1 DEF MessageTtl
<1>3. \A i \in PositionOf(ttl_keys, m.key) : ttl_keys[i].expire_time \in Nat
  BY EntryTime DEF IInv, TypeOK
<1>4. replies' \in [Requesters -> RespondTtl]
  BY <1>2, <1>3, AnswerTypes DEF HandleTtl, IInv, TypeOK
<1> QED BY <1>1, <1>4 DEF HandleTtl, IInv, TypeOK, ExecutorCoverage

LEMMA HandleAllTtLIInv == IInv /\ HandleAllTtL => IInv'
<1> SUFFICES ASSUME IInv, HandleAllTtL PROVE IInv'
  OBVIOUS
<1> DEFINE m == Head(mailbox)
<1>1. m \in MessageTtl /\ m.type = "AllTtL" /\ mailbox' \in Seq(MessageTtl)
  BY HeadMessage DEF IInv, HandleAllTtL
<1>2. m.sender \in Requesters
  BY <1>1 DEF MessageTtl
<1>3. replies' \in [Requesters -> RespondTtl]
  BY <1>2, AnswerTypes DEF HandleAllTtL, IInv, TypeOK
<1> QED BY <1>1, <1>3 DEF HandleAllTtL, IInv, TypeOK, ExecutorCoverage

LEMMA HandleCheckIInv == IInv /\ HandleCheck => IInv'
<1> SUFFICES ASSUME IInv, HandleCheck PROVE IInv'
  OBVIOUS
<1> DEFINE m == Head(mailbox)
<1>1. m \in MessageTtl /\ m.type = "Check" /\ mailbox' \in Seq(MessageTtl)
  BY HeadMessage DEF IInv, HandleCheck
<1>2. m.key \in Keys
  BY <1>1 DEF MessageTtl
<1>3. dictionary' \in Dictionaries
  BY <1>2, RemoveType DEF HandleCheck, IInv, TypeOK
<1>4. ttl_keys' \in Seq(KeyTtl) /\ (ttl_keys' # <<>> => ttl_keys # <<>>)
  BY RemoveEntry DEF IInv, TypeOK, HandleCheck, PositionOf
<1> QED BY <1>1, <1>3, <1>4 DEF HandleCheck, Locked, IInv, TypeOK, ExecutorCoverage

LEMMA ExecutorRemoveIInv == IInv /\ ExecutorRemove => IInv'
<1> SUFFICES ASSUME IInv, ExecutorRemove PROVE IInv'
  OBVIOUS
<1>1. ttl_keys \in Seq(KeyTtl) /\ ttl_keys # <<>>
  BY DEF IInv, TypeOK, ExecutorRemove
<1>2. Head(ttl_keys) \in KeyTtl /\ ttl_keys' \in Seq(KeyTtl)
  BY <1>1, HeadTailProperties DEF ExecutorRemove
<1>3. dictionary' \in Dictionaries
  BY <1>2, RemoveType DEF ExecutorRemove, IInv, TypeOK, KeyTtl
<1> QED BY <1>1, <1>2, <1>3 DEF ExecutorRemove, IInv, TypeOK, ExecutorCoverage

\* The other steps of the executors: the one that ends found nothing to sweep.
LEMMA ExecutorIInv == IInv /\ Executor => IInv'
<1>1. IInv /\ ExecutorWake => IInv'
  BY DEF ExecutorWake, Locked, IInv, TypeOK, ExecutorCoverage
<1>2. IInv /\ ExecutorSleep => IInv'
  BY DEF ExecutorSleep, IInv, TypeOK, ExecutorCoverage
<1>3. ASSUME IInv, ExecutorExit PROVE IInv'
  <2>1. executors \in Nat /\ executors > 0
    BY <1>3, Zenon DEF ExecutorExit, IInv, TypeOK, ExecutorCoverage
  <2>2. executors' \in Nat
    BY <1>3, <2>1 DEF ExecutorExit
  <2>3. ~sweeping' /\ sweeping' \in BOOLEAN /\ ttl_keys' = <<>>
    BY <1>3 DEF ExecutorExit
  <2>4. UNCHANGED <<now, mailbox, replies, ttl_keys, dictionary>>
    BY <1>3 DEF ExecutorExit
  <2> QED BY <1>3, <2>2, <2>3, <2>4, Zenon DEF IInv, TypeOK, ExecutorCoverage
<1> QED BY <1>1, <1>2, <1>3, ExecutorRemoveIInv DEF Executor, Sweep

LEMMA EnvironmentIInv == IInv /\ (Environment \/ Tick) => IInv'
<1>1. IInv /\ Tick => IInv'
  BY TtlAssumption DEF Tick, IInv, TypeOK, ExecutorCoverage
<1>2. ASSUME IInv, NEW m \in EnvironmentMessages, Post(m) PROVE IInv'
  <2>1. mailbox' \in Seq(MessageTtl)
    BY <1>2, EnvironmentMessagesType, AppendProperties DEF Post, Send, IInv, TypeOK
  <2> QED BY <1>2, <2>1 DEF Post, IInv, TypeOK, ExecutorCoverage
<1>3. ASSUME IInv, NEW c \in Requesters, TakeReply(c) PROVE IInv'
  <2>1. replies' \in [Requesters -> RespondTtl]
    BY <1>3, AnswerTypes DEF TakeReply, IInv, TypeOK
  <2> QED BY <1>3, <2>1 DEF TakeReply, IInv, TypeOK, ExecutorCoverage
<1>4. ASSUME IInv, Write PROVE IInv'
  <2>1. dictionary' \in Dictionaries
    <3>1. dictionary \in Dictionaries
      BY <1>4 DEF IInv, TypeOK
    <3>2. CASE dictionary' = clear(dictionary)
      BY <3>1, <3>2, ClearType
    <3>3. ASSUME NEW s \in Shards, NEW k \in Keys,
                 dictionary'[s][k] \in StorageValues \cup {Absent},
                 dictionary' = [dictionary EXCEPT ![s][k] = dictionary'[s][k]]
          PROVE  dictionary' \in Dictionaries
      BY <3>1, <3>3, WriteType
    <3> QED BY <1>4, <3>2, <3>3 DEF Write
  <2> QED BY <1>4, <2>1 DEF Write, IInv, TypeOK, ExecutorCoverage
<1> QED BY <1>1, <1>2, <1>3, <1>4 DEF Environment

LEMMA NextIInv == IInv /\ [Next]_ttlVars => IInv'
<1>1. IInv /\ UNCHANGED ttlVars => IInv'
  BY DEF ttlVars, IInv, TypeOK, ExecutorCoverage
<1>2. IInv /\ Supervisor => IInv'
  BY HandleExpireIInv, HandleClearIInv, HandleTransferIInv,
     HandleTtlIInv, HandleAllTtLIInv, HandleCheckIInv DEF Supervisor
<1> QED BY <1>1, <1>2, ExecutorIInv, EnvironmentIInv DEF Next

-----------------------------------------------------------------------------
(* Theorems *)

THEOREM Inductive == Spec => []IInv
BY InitIInv, NextIInv, PTL DEF Spec

\* Every message, reply, entry and cell keeps its type, and the number of
\* executor threads never goes below zero.
THEOREM TypeCorrect == Spec => []TypeOK
<1>1. IInv => TypeOK
  BY DEF IInv
<1> QED BY <1>1, Inductive, PTL

\* However messages, sweeps and writes interleave, a vector with an entry has
\* an executor that will sweep it: no key outlives its timeout because every
\* executor has gone.
THEOREM ExecutorCovered == Spec => []ExecutorCoverage
<1>1. IInv => ExecutorCoverage
  BY DEF IInv
<1> QED BY <1>1, Inductive, PTL

-----------------------------------------------------------------------------
(* The vector as a map *)

\* No key has two entries.
KeysOnce(v) == \A i, j \in DOMAIN v : v[i].key = v[j].key => i = j

\* What Timeouts says of a vector.
MapOf(v) == [k \in Keys |-> IF HasEntry(v, k) THEN TimeOf(v, k) ELSE Persistent]

LEMMA EntryTypes ==
    ASSUME NEW v \in Seq(KeyTtl)
    PROVE  \A i \in DOMAIN v :
               v[i] \in KeyTtl /\ v[i].key \in Keys /\ v[i].expire_time \in Nat
<1>1. \A i \in DOMAIN v : v[i] \in KeyTtl
  BY LenProperties
<1> QED BY <1>1 DEF KeyTtl

\* The time found for a key is that of its only entry.
LEMMA TimeOfEntry ==
    ASSUME NEW v \in Seq(KeyTtl), KeysOnce(v), NEW i \in DOMAIN v
    PROVE  TimeOf(v, v[i].key) = v[i].expire_time
<1> DEFINE k == v[i].key
<1>1. DOMAIN v = 1..Len(v) /\ Len(v) \in Nat
  BY LenProperties
<1>2. i \in PositionOf(v, k)
  <2>1. ASSUME NEW j \in 1..(i - 1) PROVE v[j].key # k
    <3>1. j \in DOMAIN v /\ j # i
      BY <1>1
    <3> QED BY <3>1 DEF KeysOnce
  <2> QED BY <2>1 DEF PositionOf
<1>3. \A j \in PositionOf(v, k) : j = i
  BY DEF PositionOf, KeysOnce
<1>4. PositionOf(v, k) = {i}
  BY <1>2, <1>3
<1>5. (CHOOSE j \in DOMAIN v : j \in PositionOf(v, k)) = i
  BY <1>4
<1> QED BY <1>5 DEF TimeOf

\* So the map of a vector is told by its entries.
LEMMA MapOfEntries ==
    ASSUME NEW v \in Seq(KeyTtl), KeysOnce(v)
    PROVE  /\ \A i \in DOMAIN v : MapOf(v)[v[i].key] = v[i].expire_time
           /\ \A k \in Keys : ~HasEntry(v, k) => MapOf(v)[k] = Persistent
           /\ \A k \in Keys : MapOf(v)[k] = Persistent <=> ~HasEntry(v, k)
<1>1. \A i \in DOMAIN v : v[i].key \in Keys /\ v[i].expire_time \in Nat
  BY EntryTypes
<1>2. ASSUME NEW i \in DOMAIN v PROVE MapOf(v)[v[i].key] = v[i].expire_time
  <2>1. HasEntry(v, v[i].key)
    BY DEF HasEntry
  <2> QED BY <1>1, <2>1, TimeOfEntry DEF MapOf
<1>3. \A k \in Keys : ~HasEntry(v, k) => MapOf(v)[k] = Persistent
  BY DEF MapOf
<1>4. ASSUME NEW k \in Keys, HasEntry(v, k) PROVE MapOf(v)[k] # Persistent
  <2>1. PICK i \in DOMAIN v : v[i].key = k
    BY <1>4 DEF HasEntry
  <2> QED BY <1>1, <1>2, <2>1, PersistentAssumption
<1> QED BY <1>2, <1>3, <1>4

\* A new vector has the same map but for key k, when the entries of the others
\* are the same, wherever they now are.
LEMMA SameElsewhere ==
    ASSUME NEW v \in Seq(KeyTtl), KeysOnce(v), NEW w \in Seq(KeyTtl), KeysOnce(w), NEW ks,
           \A i \in DOMAIN v : v[i].key \notin ks => \E j \in DOMAIN w : w[j] = v[i],
           \A j \in DOMAIN w : w[j].key \notin ks => \E i \in DOMAIN v : w[j] = v[i]
    PROVE  \A k \in Keys \ ks : MapOf(w)[k] = MapOf(v)[k]
<1> SUFFICES ASSUME NEW k \in Keys, k \notin ks PROVE MapOf(w)[k] = MapOf(v)[k]
  OBVIOUS
<1>1. CASE HasEntry(v, k)
  <2>1. PICK i \in DOMAIN v : v[i].key = k
    BY <1>1 DEF HasEntry
  <2>2. PICK j \in DOMAIN w : w[j] = v[i]
    BY <2>1
  <2>3. MapOf(v)[v[i].key] = v[i].expire_time
    BY MapOfEntries
  <2>4. MapOf(w)[w[j].key] = w[j].expire_time
    BY MapOfEntries
  <2> QED BY <2>1, <2>2, <2>3, <2>4
<1>2. CASE ~HasEntry(v, k)
  <2>1. ~HasEntry(w, k)
    BY <1>2 DEF HasEntry
  <2> QED BY <1>2, <2>1, MapOfEntries
<1> QED BY <1>1, <1>2

\* An entry taken out: its key has no time any more.
LEMMA MapRemoved ==
    ASSUME NEW v \in Seq(KeyTtl), KeysOnce(v), NEW p \in DOMAIN v
    PROVE  LET w == RemoveAt(v, p)
           IN  KeysOnce(w) /\ MapOf(w) = [MapOf(v) EXCEPT ![v[p].key] = Persistent]
<1> DEFINE w == RemoveAt(v, p)
           k == v[p].key
           Old(j) == IF j < p THEN j ELSE j + 1
<1>1. DOMAIN v = 1..Len(v) /\ Len(v) \in Nat
  BY LenProperties
<1>2. w \in Seq(KeyTtl) /\ Len(w) = Len(v) - 1
  BY RemoveAtType
<1>3. DOMAIN w = 1..(Len(v) - 1)
  BY <1>2, LenProperties
<1>4. \A j \in 1..(Len(v) - 1) : w[j] = IF j < p THEN v[j] ELSE v[j + 1]
  BY RemoveAtElements
<1> HIDE DEF w
<1>5. \A j \in DOMAIN w : Old(j) \in DOMAIN v /\ Old(j) # p /\ w[j] = v[Old(j)]
  BY <1>1, <1>3, <1>4
<1>6. \A i, j \in DOMAIN w : Old(i) = Old(j) => i = j
  BY <1>3
<1>7. \A i \in DOMAIN v : i # p => \E j \in DOMAIN w : Old(j) = i
  <2> SUFFICES ASSUME NEW i \in DOMAIN v, i # p PROVE \E j \in DOMAIN w : Old(j) = i
    OBVIOUS
  <2>1. CASE i < p
    BY <1>1, <1>3, <2>1
  <2>2. CASE i > p
    <3>1. i - 1 \in DOMAIN w /\ Old(i - 1) = i
      BY <1>1, <1>3, <2>2
    <3> QED BY <3>1
  <2> QED BY <1>1, <2>1, <2>2
<1> HIDE DEF Old
<1>8. KeysOnce(w)
  BY <1>5, <1>6 DEF KeysOnce
<1>9. ~HasEntry(w, k)
  BY <1>5 DEF HasEntry, KeysOnce
<1>10. \A i \in Keys \ {k} : MapOf(w)[i] = MapOf(v)[i]
  <2>1. \A i \in DOMAIN v : v[i].key \notin {k} => \E j \in DOMAIN w : w[j] = v[i]
    BY <1>5, <1>7
  <2>2. \A j \in DOMAIN w : w[j].key \notin {k} => \E i \in DOMAIN v : w[j] = v[i]
    BY <1>5
  <2> QED BY <1>2, <1>8, <2>1, <2>2, SameElsewhere
<1>11. k \in Keys
  BY EntryTypes
<1>12. MapOf(w)[k] = Persistent
  BY <1>9, <1>11 DEF MapOf
<1>13. MapOf(w) = [MapOf(v) EXCEPT ![k] = Persistent]
  BY <1>10, <1>11, <1>12 DEF MapOf
<1> QED BY <1>8, <1>13 DEF w

\* An entry in the place of another: the time of the other's key goes, and its
\* own key, which had none or that very entry, has its time.
LEMMA MapReplaced ==
    ASSUME NEW v \in Seq(KeyTtl), KeysOnce(v), NEW p \in DOMAIN v, NEW e \in KeyTtl,
           HasEntry(v, e.key) => e.key = v[p].key
    PROVE  LET w == ReplaceAt(v, p, e)
           IN  /\ KeysOnce(w)
               /\ MapOf(w) = [MapOf(v) EXCEPT ![v[p].key] = Persistent, ![e.key] = e.expire_time]
<1> DEFINE w == ReplaceAt(v, p, e)
           k == v[p].key
<1>1. DOMAIN v = 1..Len(v) /\ Len(v) \in Nat
  BY LenProperties
<1>2. w \in Seq(KeyTtl) /\ Len(w) = Len(v)
  BY ReplaceAtType
<1>3. DOMAIN w = DOMAIN v
  BY <1>1, <1>2, LenProperties
<1>4. \A j \in DOMAIN v : w[j] = IF j = p THEN e ELSE v[j]
  BY <1>1, ReplaceAtElements
<1> HIDE DEF w
<1>5. \A j \in DOMAIN v : j # p => v[j].key # e.key /\ v[j].key # k
  BY DEF HasEntry, KeysOnce
<1>6. KeysOnce(w)
  BY <1>3, <1>4, <1>5 DEF KeysOnce
<1>7. \A i \in Keys \ {k, e.key} : MapOf(w)[i] = MapOf(v)[i]
  <2>1. \A i \in DOMAIN v : v[i].key \notin {k, e.key} => \E j \in DOMAIN w : w[j] = v[i]
    BY <1>3, <1>4
  <2>2. \A j \in DOMAIN w : w[j].key \notin {k, e.key} => \E i \in DOMAIN v : w[j] = v[i]
    BY <1>3, <1>4
  <2> QED BY <1>2, <1>6, <2>1, <2>2, SameElsewhere
<1>8. k \in Keys /\ e.key \in Keys
  BY EntryTypes DEF KeyTtl
<1>9. MapOf(w)[e.key] = e.expire_time
  <2>1. w[p] = e /\ p \in DOMAIN w
    BY <1>3, <1>4
  <2> QED BY <1>2, <1>6, <2>1, MapOfEntries
<1>10. ASSUME k # e.key PROVE MapOf(w)[k] = Persistent
  <2>1. ~HasEntry(w, k)
    BY <1>3, <1>4, <1>5, <1>10 DEF HasEntry
  <2> QED BY <1>8, <2>1 DEF MapOf
<1>11. MapOf(w) = [MapOf(v) EXCEPT ![k] = Persistent, ![e.key] = e.expire_time]
  BY <1>7, <1>8, <1>9, <1>10 DEF MapOf
<1> QED BY <1>6, <1>11 DEF w

\* An entry put in, of a key that had none.
LEMMA MapInserted ==
    ASSUME NEW v \in Seq(KeyTtl), KeysOnce(v), NEW p \in 1..(Len(v) + 1), NEW e \in KeyTtl,
           ~HasEntry(v, e.key)
    PROVE  LET w == InsertAt(v, p, e)
           IN  KeysOnce(w) /\ MapOf(w) = [MapOf(v) EXCEPT ![e.key] = e.expire_time]
<1> DEFINE w == InsertAt(v, p, e)
           Old(j) == IF j < p THEN j ELSE j - 1
<1>1. DOMAIN v = 1..Len(v) /\ Len(v) \in Nat
  BY LenProperties
<1>2. w \in Seq(KeyTtl) /\ Len(w) = Len(v) + 1
  BY InsertAtType
<1>3. DOMAIN w = 1..(Len(v) + 1)
  BY <1>2, LenProperties
<1>4. \A j \in 1..(Len(v) + 1) : w[j] = IF j < p THEN v[j] ELSE IF j = p THEN e ELSE v[j - 1]
  BY InsertAtElements
<1> HIDE DEF w
<1>5. /\ p \in DOMAIN w /\ w[p] = e
      /\ \A j \in DOMAIN w : j # p => Old(j) \in DOMAIN v /\ w[j] = v[Old(j)]
  BY <1>1, <1>3, <1>4
<1>6. \A i, j \in DOMAIN w : i # p /\ j # p /\ Old(i) = Old(j) => i = j
  BY <1>3
<1>7. \A i \in DOMAIN v : \E j \in DOMAIN w : j # p /\ Old(j) = i
  <2> SUFFICES ASSUME NEW i \in DOMAIN v PROVE \E j \in DOMAIN w : j # p /\ Old(j) = i
    OBVIOUS
  <2>1. CASE i < p
    BY <1>1, <1>3, <2>1
  <2>2. CASE i >= p
    <3>1. i + 1 \in DOMAIN w /\ i + 1 # p /\ Old(i + 1) = i
      BY <1>1, <1>3, <2>2
    <3> QED BY <3>1
  <2> QED BY <1>1, <2>1, <2>2
<1> HIDE DEF Old
<1>8. KeysOnce(w)
  <2>1. \A j \in DOMAIN w : j # p => w[j].key # e.key
    BY <1>5 DEF HasEntry
  <2>2. \A i, j \in DOMAIN w : i # p /\ j # p /\ w[i].key = w[j].key => i = j
    BY <1>5, <1>6 DEF KeysOnce
  <2> QED BY <1>5, <2>1, <2>2 DEF KeysOnce
<1>9. \A i \in Keys \ {e.key} : MapOf(w)[i] = MapOf(v)[i]
  <2>1. \A i \in DOMAIN v : v[i].key \notin {e.key} => \E j \in DOMAIN w : w[j] = v[i]
    BY <1>5, <1>7
  <2>2. \A j \in DOMAIN w : w[j].key \notin {e.key} => \E i \in DOMAIN v : w[j] = v[i]
    BY <1>5
  <2> QED BY <1>2, <1>8, <2>1, <2>2, SameElsewhere
<1>10. e.key \in Keys
  BY DEF KeyTtl
<1>11. MapOf(w)[e.key] = e.expire_time
  BY <1>2, <1>5, <1>8, MapOfEntries
<1>12. MapOf(w) = [MapOf(v) EXCEPT ![e.key] = e.expire_time]
  BY <1>9, <1>10, <1>11 DEF MapOf
<1> QED BY <1>8, <1>12 DEF w

-----------------------------------------------------------------------------
(* Every step is a step of the map *)

\* What the map does with each message.
LEMMA MapHandles ==
    ASSUME TypeOK, mailbox # <<>>, mailbox' = Tail(mailbox), UNCHANGED now,
           NEW t, Head(mailbox).type = t,
           \/ /\ t = "Expire" /\ UNCHANGED replies
              /\ Timeouts' = [Timeouts EXCEPT ![Head(mailbox).key] = Head(mailbox).expire_time]
           \/ /\ t = "Clear" /\ UNCHANGED replies
              /\ Timeouts' = [Timeouts EXCEPT ![Head(mailbox).key] = Persistent]
           \/ /\ t = "Transfer" /\ UNCHANGED replies
              /\ Timeouts' = [Timeouts EXCEPT ![Head(mailbox).to_key] = Timeouts[Head(mailbox).key],
                                              ![Head(mailbox).key] = Persistent]
           \/ /\ t = "Check" /\ UNCHANGED replies
              /\ Timeouts' = IF Promised!Lapsed(Head(mailbox).key)
                               THEN [Timeouts EXCEPT ![Head(mailbox).key] = Persistent]
                               ELSE Timeouts
           \/ /\ t = "Ttl" /\ Timeouts' = Timeouts
              /\ replies' = [replies EXCEPT ![Head(mailbox).sender] =
                                 IF Timeouts[Head(mailbox).key] = Persistent
                                   THEN AnswerPersistent
                                   ELSE AnswerTtl(Timeouts[Head(mailbox).key])]
           \/ /\ t = "AllTtL" /\ Timeouts' = Timeouts
              /\ replies' = [replies EXCEPT ![Head(mailbox).sender] = AnswerList]
    PROVE  Promised!Handle
<1> DEFINE m == Head(mailbox)
<1>1. Timeouts' = Promised!Effect(m)
  BY DEF Promised!Effect
<1>2. replies' = Promised!Answer(m)
  BY DEF Promised!Answer, Promised!AnswerPersistent, Promised!AnswerTtl, Promised!AnswerList,
         AnswerPersistent, AnswerTtl, AnswerList
<1> QED BY <1>1, <1>2 DEF Promised!Handle

\* The entry found for a key, and the map when none is.
LEMMA FoundEntry ==
    ASSUME NEW v \in Seq(KeyTtl), KeysOnce(v), NEW k \in Keys
    PROVE  /\ \A i \in PositionOf(v, k) : /\ i \in DOMAIN v /\ v[i].key = k
                                           /\ v[i] \in KeyTtl
                                           /\ v[i].expire_time \in Nat
                                           /\ MapOf(v)[k] = v[i].expire_time
           /\ ~HasEntry(v, k) <=> PositionOf(v, k) = {}
           /\ ~HasEntry(v, k) => MapOf(v)[k] = Persistent
<1>1. \A i \in PositionOf(v, k) : i \in DOMAIN v /\ v[i].key = k
  BY DEF PositionOf
<1>2. ASSUME HasEntry(v, k) PROVE PositionOf(v, k) # {}
  <2>1. PICK i \in DOMAIN v : v[i].key = k
    BY <1>2 DEF HasEntry
  <2>2. \A j \in 1..(i - 1) : v[j].key # k
    <3>1. DOMAIN v = 1..Len(v) /\ Len(v) \in Nat
      BY LenProperties
    <3>2. \A j \in 1..(i - 1) : j \in DOMAIN v /\ j # i
      BY <3>1
    <3> QED BY <2>1, <3>2 DEF KeysOnce
  <2> QED BY <2>1, <2>2 DEF PositionOf
<1>3. HasEntry(v, k) <=> PositionOf(v, k) # {}
  BY <1>1, <1>2 DEF HasEntry
<1> QED BY <1>1, <1>3, EntryTypes, MapOfEntries

Apart == TypeOK /\ KeysOnce(ttl_keys)

LEMMA TimeoutsOfVector == Timeouts = MapOf(ttl_keys) /\ Timeouts' = MapOf(ttl_keys')
BY DEF Timeouts, MapOf

LEMMA HandleExpireMapped ==
    Apart /\ MessagesApart /\ HandleExpire => KeysOnce(ttl_keys') /\ Promised!Handle
<1> SUFFICES ASSUME Apart, MessagesApart, HandleExpire
             PROVE  KeysOnce(ttl_keys') /\ Promised!Handle
  OBVIOUS
<1> DEFINE m == Head(mailbox)
           e == [key |-> m.key, expire_time |-> m.expire_time]
<1>1. /\ m \in MessageTtl /\ m.type = "Expire"
      /\ mailbox # <<>> /\ mailbox' = Tail(mailbox) /\ UNCHANGED <<now, replies>>
  BY HeadMessage DEF Apart, HandleExpire, Receive
<1>2. /\ e \in KeyTtl /\ e.key = m.key /\ e.expire_time = m.expire_time /\ m.key \in Keys
  BY <1>1 DEF MessageTtl, KeyTtl
<1>3. ttl_keys' \in WithEntry(ttl_keys, e)
  BY DEF HandleExpire
<1>4. HasEntry(ttl_keys, m.key) \/ FoundAt(ttl_keys, m.expire_time) = {}
  BY <1>1 DEF MessagesApart
<1> HIDE DEF m, e
<1>5. ttl_keys \in Seq(KeyTtl) /\ KeysOnce(ttl_keys)
  BY DEF Apart, TypeOK
<1>6. /\ KeysOnce(ttl_keys')
      /\ MapOf(ttl_keys') = [MapOf(ttl_keys) EXCEPT ![e.key] = e.expire_time]
  <2>1. CASE HasEntry(ttl_keys, e.key)
    <3>1. PICK i \in PositionOf(ttl_keys, e.key) : ttl_keys' = ReplaceAt(ttl_keys, i, e)
      BY <1>3, <2>1 DEF WithEntry
    <3>2. i \in DOMAIN ttl_keys /\ ttl_keys[i].key = e.key
      BY <3>1 DEF PositionOf
    <3>3. /\ KeysOnce(ttl_keys')
          /\ MapOf(ttl_keys') = [MapOf(ttl_keys) EXCEPT ![e.key] = Persistent,
                                                        ![e.key] = e.expire_time]
      BY <1>2, <1>5, <3>1, <3>2, MapReplaced
    <3> QED BY <3>3 DEF MapOf
  <2>2. CASE ~HasEntry(ttl_keys, e.key)
    <3>1. PICK p \in InsertionPoints(ttl_keys, e.expire_time) : ttl_keys' = InsertAt(ttl_keys, p, e)
      BY <1>2, <1>3, <1>4, <2>2 DEF WithEntry
    <3>2. p \in 1..(Len(ttl_keys) + 1)
      BY DEF InsertionPoints
    <3> QED BY <1>2, <1>5, <2>2, <3>1, <3>2, MapInserted
  <2> QED BY <2>1, <2>2
<1>7. Timeouts' = [Timeouts EXCEPT ![m.key] = m.expire_time]
  BY <1>2, <1>6, TimeoutsOfVector
<1>8. Promised!Handle
  BY <1>1, <1>7, MapHandles DEF Apart, m
<1> QED BY <1>6, <1>8

LEMMA HandleClearMapped ==
    Apart /\ HandleClear => KeysOnce(ttl_keys') /\ Promised!Handle
<1> SUFFICES ASSUME Apart, HandleClear PROVE KeysOnce(ttl_keys') /\ Promised!Handle
  OBVIOUS
<1> DEFINE m == Head(mailbox)
<1>1. /\ m \in MessageTtl /\ m.type = "Clear"
      /\ mailbox # <<>> /\ mailbox' = Tail(mailbox) /\ UNCHANGED <<now, replies>>
  BY HeadMessage DEF Apart, HandleClear, Receive
<1>2. m.key \in Keys
  BY <1>1 DEF MessageTtl
<1>3. \/ \E i \in PositionOf(ttl_keys, m.key) : ttl_keys' = RemoveAt(ttl_keys, i)
      \/ ~HasEntry(ttl_keys, m.key) /\ ttl_keys' = ttl_keys
  BY DEF HandleClear
<1> HIDE DEF m
<1>4. ttl_keys \in Seq(KeyTtl) /\ KeysOnce(ttl_keys)
  BY DEF Apart, TypeOK
<1>5. /\ KeysOnce(ttl_keys')
      /\ MapOf(ttl_keys') = [MapOf(ttl_keys) EXCEPT ![m.key] = Persistent]
  <2>1. ASSUME NEW i \in PositionOf(ttl_keys, m.key), ttl_keys' = RemoveAt(ttl_keys, i)
        PROVE  /\ KeysOnce(ttl_keys')
               /\ MapOf(ttl_keys') = [MapOf(ttl_keys) EXCEPT ![m.key] = Persistent]
    <3>1. i \in DOMAIN ttl_keys /\ ttl_keys[i].key = m.key
      BY DEF PositionOf
    <3> QED BY <1>4, <2>1, <3>1, MapRemoved
  <2>2. CASE ~HasEntry(ttl_keys, m.key) /\ ttl_keys' = ttl_keys
    <3>1. MapOf(ttl_keys)[m.key] = Persistent
      BY <1>2, <1>4, <2>2, FoundEntry
    <3>2. MapOf(ttl_keys) = [MapOf(ttl_keys) EXCEPT ![m.key] = Persistent]
      BY <3>1 DEF MapOf
    <3> QED BY <1>4, <2>2, <3>2
  <2> QED BY <1>3, <2>1, <2>2
<1>6. Timeouts' = [Timeouts EXCEPT ![m.key] = Persistent]
  BY <1>5, TimeoutsOfVector
<1>7. Promised!Handle
  BY <1>1, <1>6, MapHandles DEF Apart, m
<1> QED BY <1>5, <1>7

LEMMA HandleTransferMapped ==
    Apart /\ MessagesApart /\ HandleTransfer => KeysOnce(ttl_keys') /\ Promised!Handle
<1> SUFFICES ASSUME Apart, MessagesApart, HandleTransfer
             PROVE  KeysOnce(ttl_keys') /\ Promised!Handle
  OBVIOUS
<1> DEFINE m == Head(mailbox)
<1>1. /\ m \in MessageTtl /\ m.type = "Transfer"
      /\ mailbox # <<>> /\ mailbox' = Tail(mailbox) /\ UNCHANGED <<now, replies>>
  BY HeadMessage DEF Apart, HandleTransfer, Receive
<1>2. m.key \in Keys /\ m.to_key \in Keys
  BY <1>1 DEF MessageTtl
<1>3. \/ \E i \in PositionOf(ttl_keys, m.key) :
             ttl_keys' = ReplaceAt(ttl_keys, i, Renamed(ttl_keys[i], m.to_key))
      \/ ~HasEntry(ttl_keys, m.key) /\ ttl_keys' = ttl_keys
  BY DEF HandleTransfer
<1>4. ~HasEntry(ttl_keys, m.to_key)
  BY <1>1 DEF MessagesApart
<1> HIDE DEF m
<1>5. ttl_keys \in Seq(KeyTtl) /\ KeysOnce(ttl_keys)
  BY DEF Apart, TypeOK
<1> DEFINE M == MapOf(ttl_keys)
           Goal == /\ KeysOnce(ttl_keys')
                   /\ MapOf(ttl_keys') = [M EXCEPT ![m.to_key] = M[m.key], ![m.key] = Persistent]
<1>6. Goal
  <2>1. ASSUME NEW i \in PositionOf(ttl_keys, m.key),
               ttl_keys' = ReplaceAt(ttl_keys, i, Renamed(ttl_keys[i], m.to_key))
        PROVE  Goal
    <3> DEFINE e == Renamed(ttl_keys[i], m.to_key)
    <3>1. /\ i \in DOMAIN ttl_keys /\ ttl_keys[i].key = m.key
          /\ ttl_keys[i].expire_time \in Nat /\ M[m.key] = ttl_keys[i].expire_time
      BY <1>2, <1>5, FoundEntry
    <3>2. e \in KeyTtl /\ e.key = m.to_key /\ e.expire_time = M[m.key]
      BY <1>2, <3>1 DEF Renamed, KeyTtl
    <3>3. m.key # m.to_key
      BY <1>4, <3>1 DEF HasEntry
    <3>4. ~HasEntry(ttl_keys, e.key)
      BY <1>4, <3>2
    <3>5. ttl_keys' = ReplaceAt(ttl_keys, i, e)
      BY <2>1
    <3> HIDE DEF e
    <3>6. /\ KeysOnce(ttl_keys')
          /\ MapOf(ttl_keys') = [M EXCEPT ![ttl_keys[i].key] = Persistent, ![e.key] = e.expire_time]
      BY <1>5, <3>1, <3>2, <3>4, <3>5, MapReplaced
    <3>7. MapOf(ttl_keys') = [M EXCEPT ![m.key] = Persistent, ![m.to_key] = M[m.key]]
      BY <3>1, <3>2, <3>6
    <3> QED BY <3>3, <3>6, <3>7 DEF MapOf
  <2>2. CASE ~HasEntry(ttl_keys, m.key) /\ ttl_keys' = ttl_keys
    <3>1. M[m.key] = Persistent /\ M[m.to_key] = Persistent
      BY <1>2, <1>4, <1>5, <2>2, FoundEntry
    <3>2. M = [M EXCEPT ![m.to_key] = M[m.key], ![m.key] = Persistent]
      BY <3>1 DEF MapOf
    <3> QED BY <1>5, <2>2, <3>2
  <2> QED BY <1>3, <2>1, <2>2
<1>7. Timeouts' = [Timeouts EXCEPT ![m.to_key] = Timeouts[m.key], ![m.key] = Persistent]
  BY <1>6, TimeoutsOfVector
<1>8. Promised!Handle
  BY <1>1, <1>7, MapHandles DEF Apart, m
<1> QED BY <1>6, <1>8

\* A question is answered from the map.
LEMMA QuestionsMapped ==
    Apart /\ (HandleTtl \/ HandleAllTtL) => KeysOnce(ttl_keys') /\ Promised!Handle
<1> SUFFICES ASSUME Apart, HandleTtl \/ HandleAllTtL
             PROVE  KeysOnce(ttl_keys') /\ Promised!Handle
  OBVIOUS
<1> DEFINE m == Head(mailbox)
<1>1. ttl_keys \in Seq(KeyTtl) /\ KeysOnce(ttl_keys) /\ ttl_keys' = ttl_keys
  BY DEF Apart, TypeOK, HandleTtl, HandleAllTtL
<1>2. Timeouts' = Timeouts
  BY <1>1, TimeoutsOfVector
<1>3. CASE HandleTtl
  <2>1. /\ m \in MessageTtl /\ m.type = "Ttl"
        /\ mailbox # <<>> /\ mailbox' = Tail(mailbox) /\ UNCHANGED now
    BY <1>3, HeadMessage DEF Apart, HandleTtl, Receive
  <2>2. m.key \in Keys
    BY <2>1 DEF MessageTtl
  <2>3. \/ \E i \in PositionOf(ttl_keys, m.key) :
               replies' = [replies EXCEPT ![m.sender] = AnswerTtl(ttl_keys[i].expire_time)]
        \/ /\ ~HasEntry(ttl_keys, m.key)
           /\ replies' = [replies EXCEPT ![m.sender] = AnswerPersistent]
    BY <1>3 DEF HandleTtl
  <2> HIDE DEF m
  <2>4. replies' = [replies EXCEPT ![m.sender] = IF Timeouts[m.key] = Persistent
                                                   THEN AnswerPersistent
                                                   ELSE AnswerTtl(Timeouts[m.key])]
    <3>1. ASSUME NEW i \in PositionOf(ttl_keys, m.key),
                 replies' = [replies EXCEPT ![m.sender] = AnswerTtl(ttl_keys[i].expire_time)]
          PROVE  /\ Timeouts[m.key] # Persistent
                 /\ replies' = [replies EXCEPT ![m.sender] = AnswerTtl(Timeouts[m.key])]
      <4>1. /\ ttl_keys[i].expire_time \in Nat
            /\ MapOf(ttl_keys)[m.key] = ttl_keys[i].expire_time
        BY <1>1, <2>2, FoundEntry
      <4> QED BY <3>1, <4>1, TimeoutsOfVector, PersistentAssumption
    <3>2. ASSUME ~HasEntry(ttl_keys, m.key) PROVE Timeouts[m.key] = Persistent
      BY <1>1, <2>2, <3>2, FoundEntry, TimeoutsOfVector
    <3> QED BY <2>3, <3>1, <3>2
  <2>5. Promised!Handle
    BY <1>2, <2>1, <2>4, MapHandles DEF Apart, m
  <2> QED BY <1>1, <2>5
<1>4. CASE HandleAllTtL
  <2>1. /\ m.type = "AllTtL" /\ replies' = [replies EXCEPT ![m.sender] = AnswerList]
        /\ mailbox # <<>> /\ mailbox' = Tail(mailbox) /\ UNCHANGED now
    BY <1>4 DEF HandleAllTtL, Receive
  <2>2. Promised!Handle
    BY <1>2, <2>1, MapHandles DEF Apart, m
  <2> QED BY <1>1, <2>2
<1> QED BY <1>3, <1>4

LEMMA HandleCheckMapped ==
    Apart /\ HandleCheck => KeysOnce(ttl_keys') /\ Promised!Handle
<1> SUFFICES ASSUME Apart, HandleCheck PROVE KeysOnce(ttl_keys') /\ Promised!Handle
  OBVIOUS
<1> DEFINE m == Head(mailbox)
<1>1. /\ m \in MessageTtl /\ m.type = "Check"
      /\ mailbox # <<>> /\ mailbox' = Tail(mailbox) /\ UNCHANGED <<now, replies>>
  BY HeadMessage DEF Apart, HandleCheck, Receive
<1>2. m.key \in Keys
  BY <1>1 DEF MessageTtl
<1>3. \/ \E i \in PositionOf(ttl_keys, m.key) :
             Expired(ttl_keys[i]) /\ ttl_keys' = RemoveAt(ttl_keys, i)
      \/ /\ \A i \in PositionOf(ttl_keys, m.key) : ~Expired(ttl_keys[i])
         /\ ttl_keys' = ttl_keys
  BY DEF HandleCheck
<1> HIDE DEF m
<1>4. ttl_keys \in Seq(KeyTtl) /\ KeysOnce(ttl_keys)
  BY DEF Apart, TypeOK
<1>5. /\ KeysOnce(ttl_keys')
      /\ Timeouts' = IF Promised!Lapsed(m.key) THEN [Timeouts EXCEPT ![m.key] = Persistent]
                                               ELSE Timeouts
  <2>1. ASSUME NEW i \in PositionOf(ttl_keys, m.key), Expired(ttl_keys[i]),
               ttl_keys' = RemoveAt(ttl_keys, i)
        PROVE  /\ KeysOnce(ttl_keys') /\ Promised!Lapsed(m.key)
               /\ Timeouts' = [Timeouts EXCEPT ![m.key] = Persistent]
    <3>1. /\ i \in DOMAIN ttl_keys /\ ttl_keys[i].key = m.key
          /\ ttl_keys[i].expire_time \in Nat
          /\ MapOf(ttl_keys)[m.key] = ttl_keys[i].expire_time
      BY <1>2, <1>4, FoundEntry
    <3>2. /\ KeysOnce(ttl_keys')
          /\ MapOf(ttl_keys') = [MapOf(ttl_keys) EXCEPT ![m.key] = Persistent]
      BY <1>4, <2>1, <3>1, MapRemoved
    <3>3. Promised!Lapsed(m.key)
      BY <2>1, <3>1, TimeoutsOfVector, PersistentAssumption DEF Promised!Lapsed, Expired
    <3> QED BY <3>2, <3>3, TimeoutsOfVector
  <2>2. ASSUME \A i \in PositionOf(ttl_keys, m.key) : ~Expired(ttl_keys[i]),
               ttl_keys' = ttl_keys
        PROVE  KeysOnce(ttl_keys') /\ ~Promised!Lapsed(m.key) /\ Timeouts' = Timeouts
    <3>1. ~Promised!Lapsed(m.key)
      <4>1. CASE HasEntry(ttl_keys, m.key)
        <5>1. PICK i : i \in PositionOf(ttl_keys, m.key)
          BY <1>2, <1>4, <4>1, FoundEntry
        <5>2. MapOf(ttl_keys)[m.key] = ttl_keys[i].expire_time
          BY <1>2, <1>4, <5>1, FoundEntry
        <5> QED BY <2>2, <5>1, <5>2, TimeoutsOfVector DEF Promised!Lapsed, Expired
      <4>2. CASE ~HasEntry(ttl_keys, m.key)
        <5>1. MapOf(ttl_keys)[m.key] = Persistent
          BY <1>2, <1>4, <4>2, FoundEntry
        <5> QED BY <5>1, TimeoutsOfVector DEF Promised!Lapsed
      <4> QED BY <4>1, <4>2
    <3> QED BY <1>4, <2>2, <3>1, TimeoutsOfVector
  <2> QED BY <1>3, <2>1, <2>2
<1>6. Promised!Handle
  BY <1>1, <1>5, MapHandles DEF Apart, m
<1> QED BY <1>5, <1>6

\* A sweep takes off the front what has lapsed.
LEMMA ExecutorRemoveMapped ==
    Apart /\ ExecutorRemove => KeysOnce(ttl_keys') /\ Promised!Lapse
<1> SUFFICES ASSUME Apart, ExecutorRemove PROVE KeysOnce(ttl_keys') /\ Promised!Lapse
  OBVIOUS
<1>1. /\ ttl_keys \in Seq(KeyTtl) /\ KeysOnce(ttl_keys)
      /\ ttl_keys # <<>> /\ Expired(Head(ttl_keys)) /\ ttl_keys' = Tail(ttl_keys)
      /\ UNCHANGED <<now, mailbox, replies>>
  BY DEF Apart, TypeOK, ExecutorRemove
<1> DEFINE e == ttl_keys[1]
<1>2. 1 \in DOMAIN ttl_keys /\ e = Head(ttl_keys)
  BY <1>1, LenProperties, EmptySeq
<1>3. e.key \in Keys /\ e.expire_time \in Nat
  BY <1>1, <1>2, EntryTypes
<1>4. Tail(ttl_keys) = RemoveAt(ttl_keys, 1)
  BY <1>1, TailIsRemove
<1>5. /\ KeysOnce(ttl_keys')
      /\ MapOf(ttl_keys') = [MapOf(ttl_keys) EXCEPT ![e.key] = Persistent]
  BY <1>1, <1>2, <1>4, MapRemoved
<1>6. MapOf(ttl_keys)[e.key] = e.expire_time
  BY <1>1, <1>2, MapOfEntries
<1>7. Promised!Lapsed(e.key)
  BY <1>1, <1>2, <1>3, <1>6, TimeoutsOfVector, PersistentAssumption DEF Promised!Lapsed, Expired
<1>8. Timeouts' = [Timeouts EXCEPT ![e.key] = Persistent]
  BY <1>5, TimeoutsOfVector
<1> HIDE DEF e
<1>9. Promised!Lapse
  BY <1>1, <1>3, <1>7, <1>8 DEF Promised!Lapse
<1> QED BY <1>5, <1>9

\* The rest leaves the vector alone.
LEMMA OthersMapped ==
    ASSUME Apart,
           \/ ExecutorWake \/ ExecutorSleep \/ ExecutorExit
           \/ Tick \/ Environment \/ UNCHANGED ttlVars
    PROVE  KeysOnce(ttl_keys') /\ [Promised!Next]_(Promised!mapVars)
<1>1. ttl_keys' = ttl_keys /\ KeysOnce(ttl_keys')
  BY DEF Apart, ExecutorWake, ExecutorSleep, ExecutorExit, Tick, Environment, Post, TakeReply,
         Write, ttlVars
<1>2. Timeouts' = Timeouts
  BY <1>1, TimeoutsOfVector
<1>3. CASE ExecutorWake \/ ExecutorSleep \/ ExecutorExit \/ UNCHANGED ttlVars \/ Write
  BY <1>1, <1>2, <1>3 DEF ExecutorWake, ExecutorSleep, ExecutorExit, Write, ttlVars, Promised!mapVars
<1>4. CASE Tick
  BY <1>1, <1>2, <1>4 DEF Tick, Promised!Tick, Promised!Next
<1>5. ASSUME NEW m \in EnvironmentMessages, Post(m) PROVE Promised!Post
  <2>1. m \in MessageTtl /\ mailbox \in Seq(MessageTtl)
    BY EnvironmentMessagesType DEF Apart, TypeOK
  <2>2. mailbox' = Append(mailbox, m) /\ UNCHANGED <<now, replies>>
    BY <1>5 DEF Post, Send
  <2>3. /\ mailbox' \in Seq(MessageTtl) /\ Len(mailbox') = Len(mailbox) + 1
        /\ SubSeq(mailbox', 1, Len(mailbox)) = mailbox
    BY <2>1, <2>2, AppendedBehind
  <2>4. MessageTtl = Promised!MessageTtl
    BY DEF MessageTtl, Promised!MessageTtl
  <2> QED BY <1>2, <2>2, <2>3, <2>4 DEF Promised!Post
<1>6. ASSUME NEW c \in Requesters, TakeReply(c) PROVE Promised!TakeReply
  BY <1>2, <1>6 DEF TakeReply, Promised!TakeReply, Waiting, Promised!Waiting
<1>7. CASE Environment
  BY <1>1, <1>3, <1>5, <1>6, <1>7 DEF Environment, Promised!Next
<1> QED BY <1>1, <1>3, <1>4, <1>7

LEMMA StepMapped ==
    IInv /\ KeysOnce(ttl_keys) /\ MessagesApart /\ [Next]_ttlVars
        => KeysOnce(ttl_keys)' /\ [Promised!Next]_(Promised!mapVars)
<1> SUFFICES ASSUME IInv, KeysOnce(ttl_keys), MessagesApart, [Next]_ttlVars
             PROVE  KeysOnce(ttl_keys') /\ [Promised!Next]_(Promised!mapVars)
  BY DEF KeysOnce
<1>1. Apart
  BY DEF IInv, Apart
<1>2. CASE Supervisor
  <2>1. KeysOnce(ttl_keys') /\ Promised!Handle
    BY <1>1, <1>2, HandleExpireMapped, HandleClearMapped, HandleTransferMapped, QuestionsMapped,
       HandleCheckMapped DEF Supervisor
  <2> QED BY <2>1 DEF Promised!Next
<1>3. CASE ExecutorRemove
  BY <1>1, <1>3, ExecutorRemoveMapped DEF Promised!Next
<1>4. CASE \/ ExecutorWake \/ ExecutorSleep \/ ExecutorExit
           \/ Tick \/ Environment \/ UNCHANGED ttlVars
  BY <1>1, <1>4, OthersMapped
<1> QED BY <1>2, <1>3, <1>4 DEF Next, Executor, Sweep

\* While messages are apart, every step of the supervisor and of its executors,
\* spawned and ended as they are, is one step of the map of timeouts or none:
\* TTL answers with the time last set, TRANSFER moves it, and a time is taken
\* away unasked only once it has passed.
THEOREM VectorImplementsMap == Spec /\ []MessagesApart => ImplementsTtlMap
<1>1. Init => KeysOnce(ttl_keys) /\ Promised!Init
  BY DEF Init, KeysOnce, Promised!Init, Timeouts, HasEntry, Waiting, Promised!Waiting
<1>2. /\ IInv /\ KeysOnce(ttl_keys) /\ MessagesApart /\ [Next]_ttlVars
          => KeysOnce(ttl_keys)'
      /\ IInv /\ KeysOnce(ttl_keys) /\ MessagesApart /\ [Next]_ttlVars
          => [Promised!Next]_(Promised!mapVars)
  BY StepMapped
<1> QED BY <1>1, <1>2, Inductive, PTL DEF Spec, ImplementsTtlMap, Promised!Spec

-----------------------------------------------------------------------------
(* Units of work *)

LEMMA UnitTypes ==
    ASSUME NEW u \in UnitsSent
    PROVE  WellFormed(u) /\ TimesOf(u) \subseteq ExpireTimes
BY RequestsAssumption

LEMMA KeyOfUnit ==
    ASSUME NEW u \in UnitsSent
    PROVE  /\ u.op \notin OnAllKeys => u.key \in Keys
           /\ u.op \in {"copy", "rename"} => u.to_key \in Keys
BY UnitTypes DEF WellFormed

\* The times EXPIRE and EXPIREAT compute are among those the supervisor is
\* expected to be sent.
LEMMA TimeOfUnit ==
    ASSUME NEW u \in UnitsSent, NEW t \in 0..MaxTime
    PROVE  /\ u.op = "expire" /\ ~(u.seconds < 0) /\ ~(t + u.seconds > MaxLong)
                  => t + u.seconds \in ExpireTimes
           /\ u.op = "expireat" /\ ~(u.seconds < 0) => u.seconds \in ExpireTimes
<1>1. WellFormed(u) /\ TimesOf(u) \subseteq ExpireTimes
  BY UnitTypes
<1>2. CASE u.op = "expire" /\ ~(u.seconds < 0) /\ ~(t + u.seconds > MaxLong)
  <2>1. u.seconds \in Nat /\ t + u.seconds \in 0..MaxLong
    BY <1>1, <1>2, TtlAssumption, IntAssumption DEF WellFormed
  <2>2. t + u.seconds \in TimesOf(u)
    BY <1>2, <2>1 DEF TimesOf
  <2> QED BY <1>1, <1>2, <2>2
<1>3. CASE u.op = "expireat" /\ ~(u.seconds < 0)
  <2>1. u.seconds \in Nat
    BY <1>1, <1>3 DEF WellFormed
  <2>2. u.seconds \in TimesOf(u)
    BY <1>3, <2>1 DEF TimesOf
  <2> QED BY <1>1, <1>3, <2>2
<1> QED BY <1>2, <1>3

\* Under a key there is a value or nothing.
LEMMA LookupType ==
    ASSUME NEW d \in Dictionaries, NEW k \in Keys
    PROVE  Lookup(d, k) \in Cells
BY HashShardAssumption DEF Lookup, Dictionaries, Cells

\* The commands that read leave the entry as it was.
LEMMA ReadingEffect ==
    ASSUME NEW v \in Cells, NEW u,
           u.op \in {"get", "getset", "getdel", "strlen", "type", "lindex", "llen", "lrange",
                     "sismember", "scard", "smembers"}
    PROVE  EffectOn(v, u).value = v
<1>1. CASE u.op \in {"get", "getset", "getdel"}
  BY <1>1, ReadersLeave DEF EffectOn
<1>2. CASE u.op = "strlen"
  BY <1>2, ReadersLeave DEF EffectOn
<1>3. CASE u.op = "type"
  BY <1>3, ReadersLeave DEF EffectOn
<1>4. CASE u.op = "lindex"
  BY <1>4, ReadersLeave DEF EffectOn
<1>5. CASE u.op = "llen"
  BY <1>5, ReadersLeave DEF EffectOn
<1>6. CASE u.op = "lrange"
  BY <1>6, ReadersLeave DEF EffectOn
<1>7. CASE u.op = "sismember"
  BY <1>7, ReadersLeave DEF EffectOn
<1>8. CASE u.op = "scard"
  BY <1>8, ReadersLeave DEF EffectOn
<1>9. CASE u.op = "smembers"
  BY <1>9, ReadersLeave DEF EffectOn
<1> QED BY <1>1, <1>2, <1>3, <1>4, <1>5, <1>6, <1>7, <1>8, <1>9

\* The commands that change the entry leave a value, or what they found.
LEMMA ChangingEffect ==
    ASSUME NEW v \in Cells, NEW u \in UnitsSent,
           u.op \in {"append", "decrby", "lpop", "rpop", "lpush_one", "rpush", "lpushx", "rpushx",
                     "lrem", "lset", "sadd_one", "srem"}
    PROVE  EffectOn(v, u).value \in StorageValues \cup {v}
<1>0. WellFormed(u)
  BY UnitTypes
<1>1. CASE u.op = "append"
  BY <1>0, <1>1, AppendLeaves DEF EffectOn, WellFormed
<1>2. CASE u.op = "decrby"
  BY <1>0, <1>2, DecrbyLeaves DEF EffectOn, WellFormed
<1>3. CASE u.op = "lpop"
  BY <1>3, PopLeaves DEF EffectOn
<1>4. CASE u.op = "rpop"
  BY <1>4, PopLeaves DEF EffectOn
<1>5. CASE u.op = "lpush_one"
  <2>1. EffectOn(v, u) = lpush_one(v, u.text) /\ u.text \in Texts
    BY <1>0, <1>5 DEF EffectOn, WellFormed
  <2>2. <<>> \in Seq(Texts)
    OBVIOUS
  <2> QED BY <2>1, <2>2, PushLeaves
<1>6. CASE u.op \in {"rpush", "lpushx", "rpushx"}
  <2>1. u.texts \in Seq(Texts)
    BY <1>0, <1>6 DEF WellFormed
  <2>2. <<>> \in Texts
    BY DEF Texts
  <2>3. /\ u.op = "rpush" => EffectOn(v, u) = rpush(v, u.texts)
        /\ u.op = "lpushx" => EffectOn(v, u) = lpushx(v, u.texts)
        /\ u.op = "rpushx" => EffectOn(v, u) = rpushx(v, u.texts)
    BY DEF EffectOn
  <2> QED BY <1>6, <2>1, <2>2, <2>3, PushLeaves
<1>7. CASE u.op = "lrem"
  BY <1>0, <1>7, LremLeaves DEF EffectOn, WellFormed
<1>8. CASE u.op = "lset"
  BY <1>0, <1>8, LsetLeaves DEF EffectOn, WellFormed
<1>9. CASE u.op = "sadd_one"
  <2>1. EffectOn(v, u) = sadd_one(v, u.text) /\ u.text \in Texts
    BY <1>0, <1>9 DEF EffectOn, WellFormed
  <2> QED BY <2>1, SetLeaves
<1>10. CASE u.op = "srem"
  <2>1. EffectOn(v, u) = srem(v, u.texts) /\ <<>> \in Texts
    BY <1>10 DEF EffectOn, Texts
  <2> QED BY <2>1, SetLeaves
<1> QED BY <1>1, <1>2, <1>3, <1>4, <1>5, <1>6, <1>7, <1>8, <1>9, <1>10

LEMMA EffectType ==
    ASSUME NEW v \in Cells, NEW u \in UnitsSent, u.op \in OnEntry
    PROVE  EffectOn(v, u).value \in Cells
BY ReadingEffect, ChangingEffect DEF OnEntry, Cells

\* What a command stores under a key that it creates or overwrites.
LEMMA NewValueType ==
    ASSUME NEW u \in UnitsSent, u.op \in Upserts \cup {"decrby", "set", "getset"}
    PROVE  NewValue(u).value \in Cells
<1>0. WellFormed(u)
  BY UnitTypes
<1>1. CASE u.op = "append"
  BY <1>0, <1>1, ValueTypes DEF NewValue, Leaves, WellFormed, Cells
<1>2. CASE u.op = "lpush_one"
  <2>1. <<u.text>> \in Seq(Texts)
    BY <1>0, <1>2, OneElement DEF WellFormed
  <2>2. NewValue(u).value = List(<<u.text>>)
    BY <1>2 DEF NewValue, Leaves
  <2> QED BY <2>1, <2>2, ValueTypes DEF Cells
<1>3. CASE u.op = "rpush"
  BY <1>0, <1>3, ValueTypes DEF NewValue, Leaves, WellFormed, Cells
<1>4. CASE u.op = "sadd_one"
  <2>1. {u.text} \in SUBSET Texts
    BY <1>0, <1>4 DEF WellFormed
  <2>2. NewValue(u).value = Set({u.text})
    BY <1>4 DEF NewValue, Leaves
  <2> QED BY <2>1, <2>2, ValueTypes DEF Cells
<1>5. CASE u.op = "decrby"
  <2>1. TextOf(0) \in Texts
    BY TextOfType
  <2>2. NewValue(u).value = String(TextOf(0))
    BY <1>5 DEF NewValue, Leaves
  <2> QED BY <2>1, <2>2, ValueTypes DEF Cells
<1>6. CASE u.op \in {"set", "getset"}
  BY <1>0, <1>6, ValueTypes DEF NewValue, Leaves, WellFormed, Cells
<1> QED BY <1>1, <1>2, <1>3, <1>4, <1>5, <1>6 DEF Upserts

-----------------------------------------------------------------------------
(* The inductive invariant *)

\* What is known of the unit a thread is in when it is about to make an access.
IsAt(pc, u) ==
    /\ pc \in {"contains", "ask", "answer"} => u.op \in OnEntry \cup OnKeys \cup OnKeyAlone
    /\ pc \in {"ask_again", "answer_again"} => u.op = "ttl"
    /\ pc = "clock" => u.op \in {"expire", "expireat"}
    /\ pc = "effect" => u.op \in OnEntry \cup OnKeys
    /\ pc = "insert" => u.op \in Upserts \cup {"decrby", "set", "getset", "rename"}
    /\ pc = "remove" => u.op \in {"del", "getdel", "expire", "expireat"}
    /\ pc = "touch" => u.op = "touch"
    /\ pc = "scan" => u.op \in OnAllKeys

IsThread(l) ==
    l = [pc |-> l.pc, request |-> l.request, units |-> l.units, replies |-> l.replies,
         contains |-> l.contains, checks |-> l.checks, saved |-> l.saved,
         message |-> l.message, reply |-> l.reply, left |-> l.left]

\* A thread that serves a request has units of it left.
HasUnits(l) ==
    /\ IsThread(l)
    /\ l.units \in Seq(UnitsSent) /\ l.units # <<>>
    /\ l.left \in 0..MaxRequests
    /\ l.message \in EnvironmentMessages \cup {NoMessage}
    /\ l.saved \in Cells

\* The next access fits the unit, and a message about to be sent is one that
\* the supervisor understands.
Underway(l) ==
    /\ HasUnits(l)
    /\ l.pc \in Pcs \ {"idle"}
    /\ IsAt(l.pc, Head(l.units))
    /\ l.pc = "send" => l.message \in EnvironmentMessages

ThreadOK(l) ==
    \/ \E request, reply : \E left \in 0..MaxRequests : l = Idle(request, reply, left)
    \/ Underway(l)

DbIInv ==
    /\ IInv
    /\ now \in 0..MaxTime
    /\ DOMAIN local = Clients
    /\ \A c \in Clients : ThreadOK(local[c])

-----------------------------------------------------------------------------
(* Where a thread goes next *)

LEMMA HeadUnit ==
    ASSUME NEW l, HasUnits(l)
    PROVE  Head(l.units) \in UnitsSent
BY HeadTailProperties DEF HasUnits

LEMMA MessageTypes ==
    /\ \A k \in Keys : Clear(k) \in EnvironmentMessages /\ Check(k) \in EnvironmentMessages
    /\ \A j, k \in Keys : Transfer(j, k) \in EnvironmentMessages
    /\ \A k \in Keys, t \in ExpireTimes : Expire(k, t) \in EnvironmentMessages
    /\ \A k \in Keys, c \in Requesters : Ttl(k, c) \in EnvironmentMessages
BY DEF EnvironmentMessages

\* A unit begins with the access that fits it.
LEMMA EnterUnderway ==
    ASSUME NEW l, HasUnits(l)
    PROVE  Underway(Enter(l))
<1> DEFINE u == Head(l.units)
           m == Enter(l)
<1>0. u \in UnitsSent /\ WellFormed(u)
  BY HeadUnit, UnitTypes
<1>1. /\ m.pc = FirstStep(u) /\ m.message = FirstMessage(u) /\ m.saved = Absent
      /\ m.units = l.units /\ m.left = l.left /\ IsThread(m)
  <2> HIDE DEF u
  <2>1. l = [pc |-> l.pc, request |-> l.request, units |-> l.units, replies |-> l.replies,
             contains |-> l.contains, checks |-> l.checks, saved |-> l.saved,
             message |-> l.message, reply |-> l.reply, left |-> l.left]
    BY DEF HasUnits, IsThread
  <2>2. m = [l EXCEPT !.pc = FirstStep(u), !.message = FirstMessage(u),
                      !.contains = FALSE, !.checks = 0, !.saved = Absent]
    BY DEF Enter, u
  <2> HIDE DEF m
  <2> QED BY <2>1, <2>2 DEF IsThread
<1> HIDE DEF m
<1>2. u.op \in OnEntry \cup OnKeys \cup OnKeyAlone \cup Unchecked \cup OnAllKeys
  BY <1>0 DEF WellFormed
<1>3. FirstStep(u) \in {"send", "remove", "scan", "contains"}
  BY DEF FirstStep
<1>4. IsAt(FirstStep(u), u)
  BY <1>2 DEF FirstStep, IsAt, OnEntry, OnKeys, OnKeyAlone, Unchecked, OnAllKeys
<1>5. FirstMessage(u) \in EnvironmentMessages \cup {NoMessage}
  <2>1. u.op \in {"set", "getdel", "touch"} => u.key \in Keys
    BY <1>0, KeyOfUnit DEF OnAllKeys
  <2> QED BY <2>1, MessageTypes DEF FirstMessage
<1>6. FirstStep(u) = "send" => FirstMessage(u) \in EnvironmentMessages
  <2>1. FirstStep(u) = "send" => u.op \in {"set", "getdel", "touch"}
    BY DEF FirstStep
  <2>2. u.op \in {"set", "getdel", "touch"} => u.key \in Keys
    BY <1>0, KeyOfUnit DEF OnAllKeys
  <2> QED BY <2>1, <2>2, MessageTypes DEF FirstMessage
<1>7. Head(m.units) = u
  BY <1>1
<1> HIDE DEF u
<1>8. IsAt(m.pc, Head(m.units)) /\ m.pc \in Pcs \ {"idle"} /\ m.saved \in Cells
  BY <1>1, <1>3, <1>4, <1>7 DEF Pcs, Cells
<1>9. m.message \in EnvironmentMessages \cup {NoMessage} /\ (m.pc = "send" => m.message \in EnvironmentMessages)
  BY <1>1, <1>5, <1>6
<1>10. HasUnits(m)
  BY <1>1, <1>8, <1>9 DEF HasUnits
<1>11. Underway(m)
  BY <1>8, <1>9, <1>10 DEF Underway
<1> QED BY <1>11 DEF m

\* After a unit comes the next one, or the thread waits for a request.
LEMMA FinishOK ==
    ASSUME NEW l, HasUnits(l), NEW reply
    PROVE  ThreadOK(Finish(l, reply))
<1> DEFINE rs == Append(l.replies, reply)
           m == [l EXCEPT !.units = Tail(l.units), !.replies = rs]
<1>1. l.units \in Seq(UnitsSent) /\ l.units # <<>> /\ l.left \in 0..MaxRequests
  BY DEF HasUnits
<1>2. CASE Len(l.units) > 1
  <2>1. Tail(l.units) \in Seq(UnitsSent) /\ Tail(l.units) # <<>>
    <3>1. Tail(l.units) \in Seq(UnitsSent) /\ Len(Tail(l.units)) = Len(l.units) - 1
      BY <1>1, HeadTailProperties
    <3>2. Len(l.units) \in Nat
      BY <1>1, LenProperties
    <3>3. Len(Tail(l.units)) # 0
      <4> DEFINE n == Len(l.units)
                 rest == Len(Tail(l.units))
      <4>1. n > 1 /\ n \in Nat /\ rest = n - 1
        BY <1>2, <3>1, <3>2
      <4> HIDE DEF n, rest
      <4>2. rest # 0
        BY <4>1
      <4> QED BY <4>2 DEF rest
    <3>4. Len(<<>>) = 0
      OBVIOUS
    <3> QED BY <3>1, <3>3, <3>4
  <2>2. /\ m.units = Tail(l.units) /\ m.left = l.left /\ IsThread(m)
        /\ m.message = l.message /\ m.saved = l.saved
    <3>1. IsThread(l)
      BY DEF HasUnits
    <3>2. m = [l EXCEPT !.units = Tail(l.units), !.replies = rs]
      OBVIOUS
    <3> HIDE DEF rs, m
    <3> QED BY <3>1, <3>2 DEF IsThread
  <2>3. Finish(l, reply) = Enter(m)
    BY <1>2 DEF Finish
  <2> HIDE DEF m
  <2>4. HasUnits(m)
    BY <2>1, <2>2 DEF HasUnits
  <2> QED BY <2>3, <2>4, EnterUnderway DEF ThreadOK
<1>3. CASE ~(Len(l.units) > 1)
  <2>1. Finish(l, reply) = Idle(l.request, CombinedReply(l.request.name, rs), l.left)
    BY <1>3 DEF Finish
  <2> QED BY <1>1, <2>1 DEF ThreadOK
<1> QED BY <1>2, <1>3

\* Another access of the same unit.
LEMMA GotoUnderway ==
    ASSUME NEW l, HasUnits(l), NEW pc \in Pcs \ {"idle", "send"}, IsAt(pc, Head(l.units))
    PROVE  Underway(Goto(l, pc))
<1> DEFINE m == Goto(l, pc)
<1>1. IsThread(l)
  BY DEF HasUnits
<1>2. m = [l EXCEPT !.pc = pc]
  BY DEF Goto
<1> HIDE DEF m
<1>3. /\ m.pc = pc /\ m.units = l.units /\ m.message = l.message /\ m.saved = l.saved
      /\ m.left = l.left /\ IsThread(m)
  BY <1>1, <1>2 DEF IsThread
<1>4. IsAt(m.pc, Head(m.units))
  BY <1>3
<1>5. HasUnits(l) /\ m.pc # "send"
  BY <1>3
<1>6. Underway(m)
  BY <1>3, <1>4, <1>5 DEF Underway, HasUnits
<1> QED BY <1>6 DEF m

LEMMA GoSendUnderway ==
    ASSUME NEW l, HasUnits(l), NEW message \in EnvironmentMessages
    PROVE  Underway(GoSend(l, message))
<1> DEFINE m == GoSend(l, message)
<1>1. IsThread(l)
  BY DEF HasUnits
<1>2. m = [l EXCEPT !.pc = "send", !.message = message]
  BY DEF GoSend
<1> HIDE DEF m
<1>3. /\ m.pc = "send" /\ m.units = l.units /\ m.message = message /\ m.saved = l.saved
      /\ m.left = l.left /\ IsThread(m)
  BY <1>1, <1>2 DEF IsThread
<1>4. IsAt("send", Head(l.units))
  BY DEF IsAt
<1>5. IsAt(m.pc, Head(m.units)) /\ "send" \in Pcs \ {"idle"}
  BY <1>3, <1>4 DEF Pcs
<1>6. HasUnits(l)
  OBVIOUS
<1>7. Underway(m)
  BY <1>3, <1>5, <1>6 DEF Underway, HasUnits
<1> QED BY <1>7 DEF m

\* The local variables beside the place, the message and the saved value.
LEMMA NotedUnderway ==
    ASSUME NEW l, Underway(l), NEW contains, NEW checks, NEW saved \in Cells
    PROVE  /\ Underway([l EXCEPT !.contains = contains])
           /\ Underway([l EXCEPT !.checks = checks])
           /\ Underway([l EXCEPT !.checks = checks, !.contains = contains])
           /\ Underway([l EXCEPT !.saved = saved])
<1>1. IsThread(l)
  BY DEF Underway, HasUnits
<1>2. ASSUME NEW m, m \in {[l EXCEPT !.contains = contains], [l EXCEPT !.checks = checks],
                           [l EXCEPT !.checks = checks, !.contains = contains],
                           [l EXCEPT !.saved = saved]}
      PROVE  Underway(m)
  <2>1. /\ m.pc = l.pc /\ m.units = l.units /\ m.message = l.message
        /\ m.saved \in {l.saved, saved} /\ m.left = l.left /\ IsThread(m)
    BY <1>1, <1>2 DEF IsThread
  <2> QED BY <2>1 DEF Underway, HasUnits
<1> QED BY <1>2

\* `_exists` has answered: the command goes to the access that fits it.
LEMMA AfterExistsOK ==
    ASSUME NEW l, HasUnits(l), IsAt("answer", Head(l.units)), NEW exists \in BOOLEAN
    PROVE  ThreadOK(AfterExists(l, exists))
<1> DEFINE u == Head(l.units)
<1>0. /\ u \in UnitsSent /\ WellFormed(u)
      /\ u.op \in OnEntry \cup OnKeys \cup OnKeyAlone
  BY HeadUnit, UnitTypes DEF IsAt
<1>1. u.key \in Keys
  BY <1>0, KeyOfUnit DEF OnEntry, OnKeys, OnKeyAlone, OnAllKeys
<1>2. \A reply : ThreadOK(Finish(l, reply))
  BY FinishOK
<1>3. CASE u.op = "copy" /\ l.checks = 0 /\ exists
  <2>1. AfterExists(l, exists) = Finish(l, Err("KeyAlredyExist"))
    BY <1>3 DEF AfterExists
  <2> QED BY <1>2, <2>1
<1>4. CASE u.op = "copy" /\ l.checks = 0 /\ ~exists
  <2>1. AfterExists(l, exists) = [Goto(l, "contains") EXCEPT !.checks = 1, !.contains = FALSE]
    BY <1>4 DEF AfterExists, Upserts
  <2>2. IsAt("contains", u) /\ "contains" \in Pcs \ {"idle", "send"}
    BY <1>0 DEF IsAt, Pcs
  <2>3. Underway(Goto(l, "contains"))
    BY <2>2, GotoUnderway
  <2>4. Absent \in Cells
    BY DEF Cells
  <2>5. Underway([Goto(l, "contains") EXCEPT !.checks = 1, !.contains = FALSE])
    BY <2>3, <2>4, NotedUnderway
  <2> QED BY <2>1, <2>5 DEF ThreadOK
<1>5. CASE u.op = "exists"
  <2>1. AfterExists(l, exists) = Finish(l, Boolean(exists))
    BY <1>5 DEF AfterExists, Upserts
  <2> QED BY <1>2, <2>1
<1>6. CASE u.op \in Upserts \cup {"decrby"} /\ ~exists
  <2>1. AfterExists(l, exists) = Goto(l, "insert")
    BY <1>6 DEF AfterExists, Upserts
  <2>2. IsAt("insert", u) /\ "insert" \in Pcs \ {"idle", "send"}
    BY <1>6 DEF IsAt, Pcs
  <2> QED BY <2>1, <2>2, GotoUnderway DEF ThreadOK
<1>7. CASE /\ u.op \notin Upserts \cup {"decrby", "exists"} /\ ~exists
           /\ ~(u.op = "copy" /\ l.checks = 0)
  <2>1. AfterExists(l, exists) = Finish(l, ReplyToMissing(u))
    BY <1>7 DEF AfterExists
  <2> QED BY <1>2, <2>1
<1>8. CASE u.op = "ttl" /\ exists
  <2>1. AfterExists(l, exists) = Goto(l, "ask_again")
    BY <1>8 DEF AfterExists, Upserts
  <2>2. IsAt("ask_again", u) /\ "ask_again" \in Pcs \ {"idle", "send"}
    BY <1>8 DEF IsAt, Pcs
  <2> QED BY <2>1, <2>2, GotoUnderway DEF ThreadOK
<1>9. CASE u.op = "persist" /\ exists
  <2>1. AfterExists(l, exists) = GoSend(l, Clear(u.key))
    BY <1>9 DEF AfterExists, Upserts
  <2> QED BY <1>1, <2>1, MessageTypes, GoSendUnderway DEF ThreadOK
<1>10. CASE u.op \in {"expire", "expireat"} /\ exists
  <2>1. AfterExists(l, exists) = Goto(l, "clock")
    BY <1>10 DEF AfterExists, Upserts
  <2>2. IsAt("clock", u) /\ "clock" \in Pcs \ {"idle", "send"}
    BY <1>10 DEF IsAt, Pcs
  <2> QED BY <2>1, <2>2, GotoUnderway DEF ThreadOK
<1>11. CASE /\ u.op \notin OnKeyAlone /\ exists
            /\ ~(u.op = "copy" /\ l.checks = 0)
  <2>1. AfterExists(l, exists) = Goto(l, "effect")
    BY <1>11 DEF AfterExists, OnKeyAlone
  <2>2. IsAt("effect", u) /\ "effect" \in Pcs \ {"idle", "send"}
    BY <1>0, <1>11 DEF IsAt, Pcs
  <2> QED BY <2>1, <2>2, GotoUnderway DEF ThreadOK
<1>12. u.op \in OnKeyAlone => u.op \in {"exists", "ttl", "persist", "expire", "expireat"}
  BY DEF OnKeyAlone
<1>13. u.op = "copy" => u.op \notin OnKeyAlone
  BY DEF OnKeyAlone
<1> HIDE DEF u
<1> QED BY <1>3, <1>4, <1>5, <1>6, <1>7, <1>8, <1>9, <1>10, <1>11, <1>12, <1>13

\* The entry of the key has been read or changed.
LEMMA AfterEffectOK ==
    ASSUME NEW l, HasUnits(l), IsAt("effect", Head(l.units)), NEW v \in Cells, NEW reply
    PROVE  ThreadOK(AfterEffect(l, v, reply))
<1> DEFINE u == Head(l.units)
<1>0. u \in UnitsSent /\ u.op \in OnEntry \cup OnKeys
  BY HeadUnit DEF IsAt
<1>1. u.key \in Keys
  BY <1>0, KeyOfUnit DEF OnEntry, OnKeys, OnAllKeys
<1>2. CASE u.op = "getset" /\ reply.type = "Text"
  <2>1. AfterEffect(l, v, reply) = [GoSend(l, Clear(u.key)) EXCEPT !.saved = v]
    BY <1>2 DEF AfterEffect
  <2>2. Underway(GoSend(l, Clear(u.key)))
    BY <1>1, MessageTypes, GoSendUnderway
  <2>3. Underway([GoSend(l, Clear(u.key)) EXCEPT !.saved = v])
    BY <2>2, NotedUnderway
  <2> QED BY <2>1, <2>3 DEF ThreadOK
<1>3. CASE u.op = "getdel" /\ reply.type = "Text"
  <2>1. AfterEffect(l, v, reply) = [Goto(l, "remove") EXCEPT !.saved = v]
    BY <1>3 DEF AfterEffect
  <2>2. IsAt("remove", u) /\ "remove" \in Pcs \ {"idle", "send"}
    BY <1>3 DEF IsAt, Pcs
  <2>3. Underway(Goto(l, "remove"))
    BY <2>2, GotoUnderway
  <2>4. Underway([Goto(l, "remove") EXCEPT !.saved = v])
    BY <2>3, NotedUnderway
  <2> QED BY <2>1, <2>4 DEF ThreadOK
<1>4. CASE u.op = "rename" /\ v # Absent
  <2>1. AfterEffect(l, v, reply) = [Goto(l, "insert") EXCEPT !.saved = v]
    BY <1>4 DEF AfterEffect
  <2>2. IsAt("insert", u) /\ "insert" \in Pcs \ {"idle", "send"}
    BY <1>4 DEF IsAt, Pcs
  <2>3. Underway(Goto(l, "insert"))
    BY <2>2, GotoUnderway
  <2>4. Underway([Goto(l, "insert") EXCEPT !.saved = v])
    BY <2>3, NotedUnderway
  <2> QED BY <2>1, <2>4 DEF ThreadOK
<1>5. CASE /\ ~(u.op = "getset" /\ reply.type = "Text")
           /\ ~(u.op = "getdel" /\ reply.type = "Text")
           /\ ~(u.op = "rename" /\ v # Absent)
  <2>1. AfterEffect(l, v, reply) = Finish(l, reply)
    BY <1>5 DEF AfterEffect
  <2> QED BY <2>1, FinishOK
<1> QED BY <1>2, <1>3, <1>4, <1>5

LEMMA AfterInsertOK ==
    ASSUME NEW l, HasUnits(l), IsAt("insert", Head(l.units))
    PROVE  ThreadOK(AfterInsert(l))
<1> DEFINE u == Head(l.units)
<1>0. u \in UnitsSent
  BY HeadUnit
<1>1. CASE u.op = "decrby"
  <2>1. AfterInsert(l) = Goto(l, "effect")
    BY <1>1 DEF AfterInsert
  <2>2. IsAt("effect", u) /\ "effect" \in Pcs \ {"idle", "send"}
    BY <1>1 DEF IsAt, Pcs, OnEntry
  <2> QED BY <2>1, <2>2, GotoUnderway DEF ThreadOK
<1>2. CASE u.op = "rename"
  <2>1. AfterInsert(l) = GoSend(l, Transfer(u.key, u.to_key))
    BY <1>2 DEF AfterInsert
  <2>2. u.key \in Keys /\ u.to_key \in Keys
    BY <1>0, <1>2, KeyOfUnit DEF OnAllKeys
  <2> QED BY <2>1, <2>2, MessageTypes, GoSendUnderway DEF ThreadOK
<1>3. CASE u.op = "getset"
  <2>1. AfterInsert(l) = Finish(l, get(l.saved).reply)
    BY <1>3 DEF AfterInsert
  <2> QED BY <2>1, FinishOK
<1>4. CASE u.op \notin {"decrby", "rename", "getset"}
  <2>1. AfterInsert(l) = Finish(l, NewValue(u).reply)
    BY <1>4 DEF AfterInsert
  <2> QED BY <2>1, FinishOK
<1> QED BY <1>1, <1>2, <1>3, <1>4

LEMMA AfterSendOK ==
    ASSUME NEW l, HasUnits(l)
    PROVE  ThreadOK(AfterSend(l))
<1> DEFINE u == Head(l.units)
<1>1. CASE u.op \in {"set", "getset"}
  <2>1. AfterSend(l) = Goto(l, "insert")
    BY <1>1 DEF AfterSend
  <2>2. IsAt("insert", u) /\ "insert" \in Pcs \ {"idle", "send"}
    BY <1>1 DEF IsAt, Pcs
  <2> QED BY <2>1, <2>2, GotoUnderway DEF ThreadOK
<1>2. CASE u.op = "getdel"
  <2>1. AfterSend(l) = Goto(l, "contains")
    BY <1>2 DEF AfterSend
  <2>2. IsAt("contains", u) /\ "contains" \in Pcs \ {"idle", "send"}
    BY <1>2 DEF IsAt, Pcs, OnEntry
  <2> QED BY <2>1, <2>2, GotoUnderway DEF ThreadOK
<1>3. CASE u.op = "touch" /\ l.checks = 0
  <2>1. AfterSend(l) = Goto(l, "touch")
    <3>1. l.checks # 1
      BY <1>3
    <3> QED BY <1>3, <3>1 DEF AfterSend
  <2>2. IsAt("touch", u) /\ "touch" \in Pcs \ {"idle", "send"}
    BY <1>3 DEF IsAt, Pcs
  <2> QED BY <2>1, <2>2, GotoUnderway DEF ThreadOK
<1>4. CASE u.op \notin {"set", "getset", "getdel"} /\ ~(u.op = "touch" /\ l.checks = 0)
  <2>1. AfterSend(l) \in {Finish(l, Integer(1)), Finish(l, Success), Finish(l, Boolean(TRUE))}
    BY <1>4 DEF AfterSend
  <2> QED BY <2>1, FinishOK
<1> QED BY <1>1, <1>2, <1>3, <1>4

LEMMA AfterRemoveOK ==
    ASSUME NEW l, HasUnits(l)
    PROVE  ThreadOK(AfterRemove(l))
<1>1. AfterRemove(l) \in {Finish(l, Success), Finish(l, get(l.saved).reply), Finish(l, Boolean(TRUE))}
  BY DEF AfterRemove
<1> QED BY <1>1, FinishOK

-----------------------------------------------------------------------------
(* The steps of a thread *)

\* What every access of a thread comes to: for the expiry machinery a step of
\* its environment, or none, and for the other threads nothing.
Moved(c) == \E l : ThreadOK(l) /\ local' = [local EXCEPT ![c] = l]

ClientStep(c) == (Environment \/ UNCHANGED ttlVars) /\ Moved(c)

\* A thread that is at an access has the unit for it.
LEMMA ThreadAt ==
    ASSUME DbIInv, NEW c \in Clients, NEW pc, pc # "idle", At(c, pc)
    PROVE  /\ Underway(local[c]) /\ HasUnits(local[c])
           /\ IsAt(pc, Head(local[c].units)) /\ Unit(c) = Head(local[c].units)
           /\ Unit(c) \in UnitsSent
<1>1. ThreadOK(local[c]) /\ local[c].pc = pc
  BY DEF DbIInv, At
<1>2. \A request, reply, left : Idle(request, reply, left).pc = "idle"
  BY DEF Idle
<1>3. Underway(local[c])
  BY <1>1, <1>2 DEF ThreadOK
<1>4. HasUnits(local[c]) /\ IsAt(pc, Head(local[c].units))
  BY <1>1, <1>3 DEF Underway
<1> QED BY <1>3, <1>4, HeadUnit DEF Unit

\* One entry written, in whatever shard.
LEMMA InsertWrites ==
    ASSUME TypeOK, NEW home \in Keys, NEW k \in Keys, NEW v \in Cells,
           dictionary' = InsertInShardOf(dictionary, home, k, v), OnlyDictionary
    PROVE  Write
<1> DEFINE s == hash_funcion[home]
<1>1. s \in Shards
  BY HashShardAssumption
<1>2. dictionary \in Dictionaries
  BY DEF TypeOK
<1>3. dictionary' = [dictionary EXCEPT ![s][k] = v]
  BY DEF InsertInShardOf
<1> HIDE DEF s
<1>4. dictionary'[s][k] = v
  BY <1>1, <1>2, <1>3 DEF Dictionaries
<1>5. /\ dictionary'[s][k] \in StorageValues \cup {Absent}
      /\ dictionary' = [dictionary EXCEPT ![s][k] = dictionary'[s][k]]
  BY <1>3, <1>4 DEF Cells
<1> QED BY <1>1, <1>5 DEF Write, OnlyDictionary

LEMMA InsertIsHere ==
    ASSUME NEW d, NEW k, NEW v
    PROVE  /\ insert(d, k, v) = InsertInShardOf(d, k, k, v)
           /\ remove(d, k) = InsertInShardOf(d, k, k, Absent)
BY DEF insert, remove, InsertInShardOf

\* A request begins with its first unit; one without units is answered at once.
LEMMA BeginStep ==
    ASSUME DbIInv, NEW c \in Clients, Begin(c)
    PROVE  ClientStep(c)
<1> DEFINE l == local[c]
           m == [l EXCEPT !.left = @ - 1]
<1>1. ThreadOK(l) /\ l.pc = "idle" /\ l.left > 0
  BY DEF DbIInv, Begin, At
<1>2. PICK request, reply : \E left \in 0..MaxRequests : l = Idle(request, reply, left)
  BY <1>1 DEF ThreadOK, Underway
<1>3. PICK left \in 0..MaxRequests : l = Idle(request, reply, left)
  BY <1>2
<1>4. left - 1 \in 0..MaxRequests
  <2>1. l.left = left
    BY <1>3 DEF Idle
  <2> QED BY <1>1, <2>1, DatabaseAssumption
<1>5. m = Idle(request, reply, left - 1)
  <2>1. l.left = left
    BY <1>3 DEF Idle
  <2>2. m = [l EXCEPT !.left = left - 1]
    BY <2>1
  <2>3. m = [Idle(request, reply, left) EXCEPT !.left = left - 1]
    BY <1>3, <2>2, Zenon
  <2> HIDE DEF m, l
  <2> QED BY <2>3 DEF Idle
<1>6. PICK r \in Requests :
          Moves(c, IF r.units = <<>>
                     THEN Idle(r, CombinedReply(r.name, <<>>), m.left)
                     ELSE Enter([m EXCEPT !.request = r, !.units = r.units, !.reply = Nil]))
  BY DEF Begin
<1> HIDE DEF l, m
<1>7. m.left = left - 1
  BY <1>5 DEF Idle
<1>8. CASE r.units = <<>>
  <2>1. Moves(c, Idle(r, CombinedReply(r.name, <<>>), left - 1))
    BY <1>6, <1>7, <1>8
  <2>2. ThreadOK(Idle(r, CombinedReply(r.name, <<>>), left - 1))
    BY <1>4 DEF ThreadOK
  <2> QED BY <2>1, <2>2 DEF ClientStep, Moved, Moves, Begin
<1>9. CASE r.units # <<>>
  <2> DEFINE n == [m EXCEPT !.request = r, !.units = r.units, !.reply = Nil]
  <2>1. n = [m EXCEPT !.request = r, !.units = r.units, !.reply = Nil]
    OBVIOUS
  <2> HIDE DEF n
  <2>2. /\ IsThread(n) /\ n.units = r.units /\ n.left = left - 1
        /\ n.message = NoMessage /\ n.saved = Absent
    BY <1>5, <2>1 DEF Idle, IsThread
  <2>3. r.units \in Seq(UnitsSent)
    BY RequestsAssumption
  <2>4. HasUnits(n)
    BY <1>4, <1>9, <2>2, <2>3 DEF HasUnits, Cells
  <2>5. ThreadOK(Enter(n))
    BY <2>4, EnterUnderway DEF ThreadOK
  <2>6. Moves(c, Enter(n))
    BY <1>6, <1>9 DEF n
  <2> QED BY <2>5, <2>6 DEF ClientStep, Moved, Moves, Begin
<1> QED BY <1>8, <1>9

LEMMA ContainsKeyStep ==
    ASSUME DbIInv, NEW c \in Clients, ContainsKey(c)
    PROVE  ClientStep(c)
<1> DEFINE l == local[c]
           m == [Goto(l, "ask") EXCEPT !.contains = contains_key(dictionary, LookedUp(l))]
<1>1. HasUnits(l) /\ IsAt("contains", Head(l.units))
  BY ThreadAt DEF ContainsKey
<1>2. IsAt("ask", Head(l.units)) /\ "ask" \in Pcs \ {"idle", "send"}
  BY <1>1 DEF IsAt, Pcs
<1>3. Underway(Goto(l, "ask")) /\ Absent \in Cells
  BY <1>1, <1>2, GotoUnderway DEF Cells
<1>4. Underway(m)
  BY <1>3, NotedUnderway
<1>5. Moves(c, m) /\ UNCHANGED ttlVars
  BY DEF ContainsKey
<1> QED BY <1>4, <1>5 DEF ClientStep, Moved, Moves, ThreadOK

\* The question `_exists` and TTL put to the supervisor.
LEMMA AskTtlStep ==
    ASSUME DbIInv, NEW c \in Clients, AskTtl(c)
    PROVE  ClientStep(c)
<1> DEFINE l == local[c]
           u == Head(l.units)
<1>1. \/ At(c, "ask") /\ Moves(c, Goto(l, "answer"))
      \/ At(c, "ask_again") /\ Moves(c, Goto(l, "answer_again"))
  BY DEF AskTtl
<1>2. /\ HasUnits(l) /\ u \in UnitsSent
      /\ At(c, "ask") => IsAt("ask", u)
      /\ At(c, "ask_again") => IsAt("ask_again", u)
  BY <1>1, ThreadAt
<1>3. u.op \in OnEntry \cup OnKeys \cup OnKeyAlone
  BY <1>1, <1>2 DEF IsAt, OnKeyAlone
<1>4. u.key \in Keys /\ (u.op = "copy" => u.to_key \in Keys)
  BY <1>2, <1>3, KeyOfUnit DEF OnEntry, OnKeys, OnKeyAlone, OnAllKeys
<1>5. LookedUp(l) \in Keys
  BY <1>4 DEF LookedUp
<1>6. Ttl(LookedUp(l), c) \in EnvironmentMessages
  BY <1>5, MessageTypes, DatabaseAssumption
<1>7. Post(Ttl(LookedUp(l), c))
  BY DEF AskTtl
<1>8. Environment
  BY <1>6, <1>7 DEF Environment
<1>9. \E m : ThreadOK(m) /\ Moves(c, m)
  <2>1. "answer" \in Pcs \ {"idle", "send"} /\ "answer_again" \in Pcs \ {"idle", "send"}
    BY DEF Pcs
  <2>2. CASE At(c, "ask") /\ Moves(c, Goto(l, "answer"))
    <3>1. IsAt("answer", u)
      BY <1>2, <2>2 DEF IsAt
    <3> QED BY <1>2, <2>1, <2>2, <3>1, GotoUnderway DEF ThreadOK
  <2>3. CASE At(c, "ask_again") /\ Moves(c, Goto(l, "answer_again"))
    <3>1. IsAt("answer_again", u)
      BY <1>2, <2>3 DEF IsAt
    <3> QED BY <1>2, <2>1, <2>3, <3>1, GotoUnderway DEF ThreadOK
  <2> QED BY <1>1, <2>2, <2>3
<1> QED BY <1>8, <1>9 DEF ClientStep, Moved, Moves

LEMMA TakesReply ==
    ASSUME NEW c \in Clients, TakeReply(c)
    PROVE  Environment
BY DatabaseAssumption DEF Environment

LEMMA DecideStep ==
    ASSUME DbIInv, NEW c \in Clients, Decide(c)
    PROVE  ClientStep(c)
<1> DEFINE l == local[c]
           exists == l.contains /\ ~IsPast(replies[c])
<1>1. HasUnits(l) /\ IsAt("answer", Head(l.units))
  BY ThreadAt DEF Decide
<1>2. exists \in BOOLEAN
  OBVIOUS
<1>3. Moves(c, AfterExists(l, exists)) /\ TakeReply(c)
  BY DEF Decide
<1> HIDE DEF exists
<1>4. ThreadOK(AfterExists(l, exists))
  BY <1>1, <1>2, AfterExistsOK
<1> QED BY <1>3, <1>4, TakesReply DEF ClientStep, Moved, Moves

LEMMA AnswerTtlCommandStep ==
    ASSUME DbIInv, NEW c \in Clients, AnswerTtlCommand(c)
    PROVE  ClientStep(c)
<1> DEFINE l == local[c]
<1>1. HasUnits(l)
  BY ThreadAt DEF AnswerTtlCommand
<1>2. TakeReply(c)
  BY DEF AnswerTtlCommand
<1>3. IsAt("panicked", Head(l.units)) /\ "panicked" \in Pcs \ {"idle", "send"}
  BY DEF IsAt, Pcs
<1>4. ThreadOK(Goto(l, "panicked")) /\ \A reply : ThreadOK(Finish(l, reply))
  BY <1>1, <1>3, GotoUnderway, FinishOK DEF ThreadOK
<1>5. \/ Moves(c, Goto(l, "panicked"))
      \/ \E reply : Moves(c, Finish(l, reply))
  BY DEF AnswerTtlCommand
<1> HIDE DEF l
<1> QED BY <1>2, <1>4, <1>5, TakesReply DEF ClientStep, Moved, Moves

\* EXPIRE and EXPIREAT have read the clock.
LEMMA ReadClockStep ==
    ASSUME DbIInv, NEW c \in Clients, ReadClock(c)
    PROVE  ClientStep(c)
<1> DEFINE l == local[c]
           u == Unit(c)
           time == IF u.op = "expire" THEN now + u.seconds ELSE u.seconds
           sent == ~(u.seconds < 0) /\ (u.op = "expire" => ~(time > MaxLong))
<1>1. /\ HasUnits(l) /\ u = Head(l.units) /\ u \in UnitsSent
      /\ u.op \in {"expire", "expireat"}
  <2>1. HasUnits(l) /\ u = Head(l.units) /\ u \in UnitsSent /\ IsAt("clock", u)
    BY ThreadAt DEF ReadClock
  <2> QED BY <2>1 DEF IsAt
<1>2. u.key \in Keys
  BY <1>1, KeyOfUnit DEF OnAllKeys
<1>3. UNCHANGED ttlVars
  BY DEF ReadClock
<1>4. \/ Moves(c, Goto(l, "panicked"))
      \/ Moves(c, Goto(l, "remove"))
      \/ sent /\ Moves(c, GoSend(l, Expire(u.key, time)))
  BY <1>1 DEF ReadClock
<1>5. sent => time \in ExpireTimes
  BY <1>1, TimeOfUnit DEF DbIInv
<1>6. sent => Expire(u.key, time) \in EnvironmentMessages
  BY <1>2, <1>5, MessageTypes
<1>7. /\ IsAt("panicked", u) /\ "panicked" \in Pcs \ {"idle", "send"}
      /\ IsAt("remove", u) /\ "remove" \in Pcs \ {"idle", "send"}
  BY <1>1 DEF IsAt, Pcs
<1>8. ThreadOK(Goto(l, "panicked")) /\ ThreadOK(Goto(l, "remove"))
  BY <1>1, <1>7, GotoUnderway DEF ThreadOK
<1>9. sent => ThreadOK(GoSend(l, Expire(u.key, time)))
  BY <1>1, <1>6, GoSendUnderway DEF ThreadOK
<1> HIDE DEF l, u, time, sent
<1> QED BY <1>3, <1>4, <1>8, <1>9 DEF ClientStep, Moved, Moves

\* The access to one entry under its shard's mutex.
LEMMA LockedEffectStep ==
    ASSUME DbIInv, NEW c \in Clients, LockedEffect(c)
    PROVE  ClientStep(c)
<1> DEFINE l == local[c]
           u == Unit(c)
           v == Lookup(dictionary, u.key)
           e == EffectOn(v, u)
<1>1. /\ HasUnits(l) /\ u = Head(l.units) /\ u \in UnitsSent /\ IsAt("effect", u)
      /\ u.op \in OnEntry
  <2>1. HasUnits(l) /\ u = Head(l.units) /\ u \in UnitsSent /\ IsAt("effect", u)
    BY ThreadAt DEF LockedEffect
  <2>2. u.op \notin {"copy", "rename", "sort"}
    BY DEF LockedEffect
  <2> QED BY <2>1, <2>2 DEF IsAt, OnKeys
<1>2. u.key \in Keys /\ TypeOK
  BY <1>1, KeyOfUnit DEF OnEntry, OnAllKeys, DbIInv, IInv
<1>3. v \in Cells
  BY <1>2, LookupType DEF TypeOK
<1>4. e.value \in Cells
  BY <1>1, <1>3, EffectType
<1>5. /\ dictionary' = insert(dictionary, u.key, e.value) /\ OnlyDictionary
      /\ Moves(c, AfterEffect(l, v, e.reply))
  BY DEF LockedEffect
<1>6. ThreadOK(AfterEffect(l, v, e.reply))
  BY <1>1, <1>3, AfterEffectOK
<1> HIDE DEF l, u, v, e
<1>7. Write
  BY <1>2, <1>4, <1>5, InsertIsHere, InsertWrites
<1> QED BY <1>5, <1>6, <1>7 DEF ClientStep, Moved, Moves, Environment

LEMMA SortEffectStep ==
    ASSUME DbIInv, NEW c \in Clients, SortEffect(c)
    PROVE  ClientStep(c)
<1> DEFINE l == local[c]
<1>1. HasUnits(l)
  BY ThreadAt DEF SortEffect
<1>2. IsAt("panicked", Head(l.units)) /\ "panicked" \in Pcs \ {"idle", "send"}
  BY DEF IsAt, Pcs
<1>3. ThreadOK(Goto(l, "panicked")) /\ \A reply : ThreadOK(Finish(l, reply))
  BY <1>1, <1>2, GotoUnderway, FinishOK DEF ThreadOK
<1>4. UNCHANGED ttlVars /\ \E m : ThreadOK(m) /\ Moves(c, m)
  BY <1>3 DEF SortEffect
<1> QED BY <1>4 DEF ClientStep, Moved, Moves

LEMMA CopyEffectStep ==
    ASSUME DbIInv, NEW c \in Clients, CopyEffect(c)
    PROVE  ClientStep(c)
<1> DEFINE l == local[c]
           u == Unit(c)
           v == Lookup(dictionary, u.key)
<1>1. HasUnits(l) /\ u \in UnitsSent /\ u.op = "copy"
  BY ThreadAt DEF CopyEffect
<1>2. u.key \in Keys /\ u.to_key \in Keys /\ TypeOK
  BY <1>1, KeyOfUnit DEF OnAllKeys, DbIInv, IInv
<1>3. v \in Cells
  BY <1>2, LookupType DEF TypeOK
<1>4. \A reply : ThreadOK(Finish(l, reply))
  BY <1>1, FinishOK
<1>5. /\ OnlyDictionary
      /\ \/ /\ dictionary' = InsertInShardOf(dictionary, u.key, u.to_key, v)
            /\ Moves(c, Finish(l, Success))
         \/ /\ UNCHANGED dictionary
            /\ Moves(c, Finish(l, Err("NonExistentKey")))
  BY DEF CopyEffect
<1> HIDE DEF l, u, v
<1>6. Write \/ UNCHANGED ttlVars
  BY <1>2, <1>3, <1>5, InsertWrites DEF OnlyDictionary, ttlVars
<1> QED BY <1>4, <1>5, <1>6 DEF ClientStep, Moved, Moves, Environment

LEMMA RenameEffectStep ==
    ASSUME DbIInv, NEW c \in Clients, RenameEffect(c)
    PROVE  ClientStep(c)
<1> DEFINE l == local[c]
           u == Unit(c)
           v == Lookup(dictionary, u.key)
<1>1. HasUnits(l) /\ u = Head(l.units) /\ u \in UnitsSent /\ u.op = "rename" /\ IsAt("effect", u)
  BY ThreadAt DEF RenameEffect
<1>2. u.key \in Keys /\ TypeOK
  BY <1>1, KeyOfUnit DEF OnAllKeys, DbIInv, IInv
<1>3. v \in Cells /\ Absent \in Cells
  BY <1>2, LookupType DEF TypeOK, Cells
<1>4. ThreadOK(AfterEffect(l, v, Err("NonExistentKey")))
  BY <1>1, <1>3, AfterEffectOK
<1>5. /\ dictionary' = remove(dictionary, u.key) /\ OnlyDictionary
      /\ Moves(c, AfterEffect(l, v, Err("NonExistentKey")))
  BY DEF RenameEffect
<1> HIDE DEF l, u, v
<1>6. Write
  BY <1>2, <1>3, <1>5, InsertIsHere, InsertWrites
<1> QED BY <1>4, <1>5, <1>6 DEF ClientStep, Moved, Moves, Environment

LEMMA InsertValueStep ==
    ASSUME DbIInv, NEW c \in Clients, InsertValue(c)
    PROVE  ClientStep(c)
<1> DEFINE l == local[c]
           u == Unit(c)
<1>1. HasUnits(l) /\ u = Head(l.units) /\ u \in UnitsSent /\ IsAt("insert", u)
  BY ThreadAt DEF InsertValue
<1>2. /\ u.key \in Keys /\ (u.op = "rename" => u.to_key \in Keys) /\ TypeOK
      /\ u.op # "rename" => u.op \in Upserts \cup {"decrby", "set", "getset"}
  BY <1>1, KeyOfUnit DEF IsAt, Upserts, OnAllKeys, DbIInv, IInv
<1>3. ThreadOK(AfterInsert(l))
  BY <1>1, AfterInsertOK
<1>4. l.saved \in Cells /\ (u.op # "rename" => NewValue(u).value \in Cells)
  BY <1>1, <1>2, NewValueType DEF HasUnits
<1>5. /\ OnlyDictionary /\ Moves(c, AfterInsert(l))
      /\ dictionary' = IF u.op = "rename" THEN insert(dictionary, u.to_key, l.saved)
                                          ELSE insert(dictionary, u.key, NewValue(u).value)
  BY DEF InsertValue
<1> HIDE DEF l, u
<1>6. Write
  <2>1. CASE u.op = "rename"
    BY <1>2, <1>4, <1>5, <2>1, InsertIsHere, InsertWrites
  <2>2. CASE u.op # "rename"
    BY <1>2, <1>4, <1>5, <2>2, InsertIsHere, InsertWrites
  <2> QED BY <2>1, <2>2
<1> QED BY <1>3, <1>5, <1>6 DEF ClientStep, Moved, Moves, Environment

LEMMA RemoveKeyStep ==
    ASSUME DbIInv, NEW c \in Clients, RemoveKey(c)
    PROVE  ClientStep(c)
<1> DEFINE l == local[c]
           u == Unit(c)
<1>1. HasUnits(l) /\ u = Head(l.units) /\ u \in UnitsSent /\ IsAt("remove", u)
  BY ThreadAt DEF RemoveKey
<1>2. u.key \in Keys /\ TypeOK /\ Absent \in Cells
  BY <1>1, KeyOfUnit DEF IsAt, OnAllKeys, DbIInv, IInv, Cells
<1>3. ThreadOK(AfterRemove(l))
  BY <1>1, AfterRemoveOK
<1>4. /\ OnlyDictionary /\ Moves(c, AfterRemove(l))
      /\ dictionary' = remove(dictionary, u.key)
  BY DEF RemoveKey
<1> HIDE DEF l, u
<1>5. Write
  BY <1>2, <1>4, InsertIsHere, InsertWrites
<1> QED BY <1>3, <1>4, <1>5 DEF ClientStep, Moved, Moves, Environment

LEMMA SendMessageStep ==
    ASSUME DbIInv, NEW c \in Clients, SendMessage(c)
    PROVE  ClientStep(c)
<1> DEFINE l == local[c]
           m == [l EXCEPT !.message = NoMessage]
<1>1. Underway(l) /\ HasUnits(l) /\ l.pc = "send"
  BY ThreadAt DEF SendMessage, At
<1>2. l.message \in EnvironmentMessages
  BY <1>1 DEF Underway
<1>3. Post(l.message) /\ Moves(c, AfterSend(m))
  BY DEF SendMessage
<1>4. m = [l EXCEPT !.message = NoMessage]
  OBVIOUS
<1> HIDE DEF l, m
<1>5. IsThread(l)
  BY <1>1 DEF HasUnits
<1>6. /\ IsThread(m) /\ m.units = l.units /\ m.left = l.left /\ m.message = NoMessage
      /\ m.saved = l.saved
  BY <1>4, <1>5 DEF IsThread
<1>7. HasUnits(m)
  BY <1>1, <1>6 DEF HasUnits
<1>8. ThreadOK(AfterSend(m))
  BY <1>7, AfterSendOK
<1> QED BY <1>2, <1>3, <1>8 DEF ClientStep, Moved, Moves, Environment

LEMMA TouchKeyStep ==
    ASSUME DbIInv, NEW c \in Clients, TouchKey(c)
    PROVE  ClientStep(c)
<1> DEFINE l == local[c]
           u == Unit(c)
           m == [GoSend(l, Check(u.key)) EXCEPT !.checks = 1]
<1>1. HasUnits(l) /\ u = Head(l.units) /\ u \in UnitsSent /\ IsAt("touch", u)
  BY ThreadAt DEF TouchKey
<1>2. u.key \in Keys /\ Absent \in Cells
  BY <1>1, KeyOfUnit DEF IsAt, OnAllKeys, Cells
<1>3. Underway(GoSend(l, Check(u.key)))
  BY <1>1, <1>2, MessageTypes, GoSendUnderway
<1>4. Underway(m) /\ ThreadOK(Finish(l, Integer(0)))
  BY <1>1, <1>2, <1>3, NotedUnderway, FinishOK
<1>5. UNCHANGED ttlVars /\ (Moves(c, m) \/ Moves(c, Finish(l, Integer(0))))
  BY DEF TouchKey
<1> QED BY <1>4, <1>5 DEF ClientStep, Moved, Moves, ThreadOK

LEMMA ScanDictionaryStep ==
    ASSUME DbIInv, NEW c \in Clients, ScanDictionary(c)
    PROVE  ClientStep(c)
<1> DEFINE l == local[c]
<1>1. HasUnits(l)
  BY ThreadAt DEF ScanDictionary
<1>2. \A reply : ThreadOK(Finish(l, reply))
  BY <1>1, FinishOK
<1>3. /\ OnlyDictionary
      /\ dictionary' = clear(dictionary) \/ UNCHANGED dictionary
      /\ \E reply : Moves(c, Finish(l, reply))
  BY DEF ScanDictionary
<1>4. Write \/ UNCHANGED ttlVars
  BY <1>3 DEF OnlyDictionary, Write, ttlVars
<1> QED BY <1>2, <1>3, <1>4 DEF ClientStep, Moved, Moves, Environment

\* Whatever a thread does, it uses the supervisor as its environment may.
LEMMA EveryClientStep ==
    ASSUME DbIInv, NEW c \in Clients, Begin(c) \/ Client(c)
    PROVE  ClientStep(c)
BY BeginStep, ContainsKeyStep, AskTtlStep, DecideStep, AnswerTtlCommandStep, ReadClockStep,
   LockedEffectStep, SortEffectStep, CopyEffectStep, RenameEffectStep, InsertValueStep,
   RemoveKeyStep, SendMessageStep, TouchKeyStep, ScanDictionaryStep
   DEF Client

-----------------------------------------------------------------------------
(* The invariant is inductive *)

LEMMA DbInitIInv == DbInit => DbIInv
<1> SUFFICES ASSUME DbInit PROVE DbIInv
  OBVIOUS
<1>1. IInv
  BY InitIInv DEF DbInit
<1>2. now \in 0..MaxTime
  BY TtlAssumption DEF DbInit, Init
<1>3. local = [c \in Clients |-> Idle(NoRequest, Nil, MaxRequests)]
  BY DEF DbInit
<1>4. MaxRequests \in 0..MaxRequests
  BY DatabaseAssumption
<1>5. ThreadOK(Idle(NoRequest, Nil, MaxRequests))
  BY <1>4 DEF ThreadOK
<1> QED BY <1>1, <1>2, <1>3, <1>5 DEF DbIInv

\* The clock stops at its bound, and nothing else moves it.
LEMMA ClockBound ==
    ASSUME now \in 0..MaxTime, [Next]_ttlVars
    PROVE  now' \in 0..MaxTime
<1>1. CASE Tick
  BY <1>1, TtlAssumption DEF Tick
<1>2. CASE Supervisor
  BY <1>2 DEF Supervisor, HandleExpire, HandleClear, HandleTransfer, HandleTtl, HandleAllTtL,
              HandleCheck
<1>3. CASE Executor
  BY <1>3 DEF Executor, Sweep, ExecutorWake, ExecutorRemove, ExecutorSleep, ExecutorExit
<1>4. CASE Environment
  BY <1>4 DEF Environment, Post, TakeReply, Write
<1>5. CASE UNCHANGED ttlVars
  BY <1>5 DEF ttlVars
<1> QED BY <1>1, <1>2, <1>3, <1>4, <1>5 DEF Next

\* A step of the whole is a step of the machinery and its environment, or none.
LEMMA EveryStep ==
    ASSUME DbIInv, [DbNext]_dbVars
    PROVE  /\ [Next]_ttlVars
           /\ UNCHANGED local \/ \E c \in Clients : Moved(c)
<1>1. CASE (Supervisor \/ Executor \/ Tick) /\ UNCHANGED local
  BY <1>1 DEF Next
<1>2. ASSUME NEW c \in Clients, Begin(c) \/ Client(c)
      PROVE  [Next]_ttlVars /\ Moved(c)
  <2>1. ClientStep(c)
    BY <1>2, EveryClientStep
  <2> QED BY <2>1 DEF ClientStep, Next
<1>3. CASE UNCHANGED dbVars
  BY <1>3 DEF dbVars
<1> QED BY <1>1, <1>2, <1>3 DEF DbNext

LEMMA DbNextIInv == DbIInv /\ [DbNext]_dbVars => DbIInv'
<1> SUFFICES ASSUME DbIInv, [DbNext]_dbVars PROVE DbIInv'
  OBVIOUS
<1>1. [Next]_ttlVars /\ (UNCHANGED local \/ \E c \in Clients : Moved(c))
  BY EveryStep
<1>2. IInv'
  BY <1>1, NextIInv DEF DbIInv
<1>3. now' \in 0..MaxTime
  BY <1>1, ClockBound DEF DbIInv
<1>4. DOMAIN local' = Clients /\ \A c \in Clients : ThreadOK(local'[c])
  <2>1. DOMAIN local = Clients /\ \A c \in Clients : ThreadOK(local[c])
    BY DEF DbIInv
  <2>2. CASE UNCHANGED local
    BY <2>1, <2>2
  <2>3. ASSUME NEW c \in Clients, Moved(c)
        PROVE  DOMAIN local' = Clients /\ \A d \in Clients : ThreadOK(local'[d])
    <3>1. PICK l : ThreadOK(l) /\ local' = [local EXCEPT ![c] = l]
      BY <2>3 DEF Moved
    <3> QED BY <2>1, <3>1
  <2> QED BY <1>1, <2>2, <2>3
<1> QED BY <1>2, <1>3, <1>4 DEF DbIInv

-----------------------------------------------------------------------------
(* Theorems *)

THEOREM DbInductive == DbSpec => []DbIInv
BY DbInitIInv, DbNextIInv, PTL DEF DbSpec

\* The commands of database.rs use the supervisor as TtlSupervisor lets its
\* environment: they post its messages, wait for one answer at a time, and
\* write one entry in a step or empty the dictionary.
THEOREM CommandsImplementSupervisor == DbSpec => ImplementsSupervisor
<1>1. DbInit => Init
  BY DEF DbInit
<1>2. DbIInv /\ [DbNext]_dbVars => [Next]_ttlVars
  BY EveryStep
<1> QED BY <1>1, <1>2, DbInductive, PTL DEF DbSpec, Spec, ImplementsSupervisor

\* So with the commands, too, a vector with an entry has an executor.
THEOREM CommandsCovered == DbSpec => []ExecutorCoverage
<1>1. DbSpec => Spec
  BY CommandsImplementSupervisor DEF ImplementsSupervisor
<1> QED BY <1>1, ExecutorCovered, PTL

\* And while messages are apart EXPIRE, PERSIST, RENAME, TTL and the others see
\* a map of timeouts, however their threads interleave.
THEOREM CommandsSeeMap == DbSpec /\ []MessagesApart => ImplementsTtlMap
<1>1. DbSpec => Spec
  BY CommandsImplementSupervisor DEF ImplementsSupervisor
<1> QED BY <1>1, VectorImplementsMap, PTL

\* A thread is only ever at a place of its program, about to send a message the
\* supervisor understands, with a value saved that a key can hold; it is busy
\* exactly while it has units of work left.
THEOREM CommandsTypeCorrect == DbSpec => []DbTypeOK
<1>1. DbIInv => DbTypeOK
  <2> SUFFICES ASSUME DbIInv, NEW c \in Clients
               PROVE  /\ TypeOK
                      /\ local[c].pc \in Pcs
                      /\ local[c].message \in MessageTtl \cup {NoMessage}
                      /\ local[c].saved \in StorageValues \cup {Absent}
                      /\ local[c].left \in 0..MaxRequests
                      /\ Busy(c) <=> local[c].units # <<>> /\ ~At(c, "panicked")
    <3>1. ASSUME DbIInv PROVE TypeOK
      BY <3>1 DEF DbIInv, IInv
    <3> QED BY <3>1 DEF DbTypeOK
  <2>1. TypeOK /\ ThreadOK(local[c])
    BY DEF DbIInv, IInv
  <2>2. CASE Underway(local[c])
    BY <2>1, <2>2, EnvironmentMessagesType DEF Underway, HasUnits, Cells, Busy, At
  <2>3. ASSUME NEW request, NEW reply, NEW left \in 0..MaxRequests,
               local[c] = Idle(request, reply, left)
        PROVE  /\ local[c].pc = "idle" /\ local[c].message = NoMessage
               /\ local[c].saved = Absent /\ local[c].left \in 0..MaxRequests
               /\ local[c].units = <<>>
    BY <2>3 DEF Idle
  <2>4. CASE ~Underway(local[c])
    BY <2>1, <2>3, <2>4 DEF ThreadOK, Busy, At, Pcs
  <2> QED BY <2>2, <2>4
<1> QED BY <1>1, DbInductive, PTL

-----------------------------------------------------------------------------
(* The shard an entry is in *)

\* COPY keeps the shard of its source locked and inserts the copy there: the
\* copy is where it belongs only if the two keys have the same shard.
CopiesWithinShard ==
    \A u \in UnitsSent : u.op = "copy" => hash_funcion[u.key] = hash_funcion[u.to_key]

LoadedInOwnShard == \A s \in Shards, k \in Keys : Loaded[s][k] # Absent => hash_funcion[k] = s

\* The ways the dictionary changes when copies stay where they belong.
AtHome == \/ UNCHANGED dictionary
          \/ dictionary' = clear(dictionary)
          \/ \E k \in Keys : \E v : dictionary' = insert(dictionary, k, v)

LEMMA AtHomeKept ==
    ASSUME TypeOK, EntriesInOwnShard, AtHome
    PROVE  EntriesInOwnShard'
<1>1. dictionary \in [Shards -> [Keys -> Cells]] /\ hash_funcion \in [Keys -> Shards]
  BY HashShardAssumption DEF TypeOK, Dictionaries, Cells
<1>2. CASE UNCHANGED dictionary
  BY <1>2 DEF EntriesInOwnShard
<1>3. CASE dictionary' = clear(dictionary)
  BY <1>1, <1>3 DEF EntriesInOwnShard, clear, EmptyShard
<1>4. ASSUME NEW k \in Keys, NEW v, dictionary' = insert(dictionary, k, v)
      PROVE  EntriesInOwnShard'
  <2> SUFFICES ASSUME NEW s \in Shards, NEW j \in Keys, dictionary'[s][j] # Absent
               PROVE  hash_funcion[j] = s
    BY DEF EntriesInOwnShard
  <2>1. dictionary' = [dictionary EXCEPT ![hash_funcion[k]][k] = v]
    BY <1>4 DEF insert
  <2>2. CASE s = hash_funcion[k] /\ j = k
    BY <2>2
  <2>3. CASE ~(s = hash_funcion[k] /\ j = k)
    <3>1. dictionary'[s][j] = dictionary[s][j]
      BY <1>1, <2>1, <2>3
    <3> QED BY <3>1 DEF EntriesInOwnShard
  <2> QED BY <2>2, <2>3
<1> QED BY <1>2, <1>3, <1>4 DEF AtHome

\* The supervisor and the executors remove keys where they belong.
LEMMA MachineryAtHome ==
    ASSUME TypeOK, Supervisor \/ Executor \/ Tick
    PROVE  AtHome
<1>1. CASE HandleCheck
  <2>1. Head(mailbox) \in MessageTtl /\ Head(mailbox).type = "Check"
    BY <1>1, HeadMessage DEF HandleCheck
  <2>2. Head(mailbox).key \in Keys
    BY <2>1 DEF MessageTtl
  <2> QED BY <1>1, <2>2 DEF HandleCheck, AtHome, remove
<1>2. CASE ExecutorRemove
  <2>1. Head(ttl_keys) \in KeyTtl
    BY <1>2, HeadTailProperties DEF ExecutorRemove, TypeOK
  <2>2. Head(ttl_keys).key \in Keys
    BY <2>1 DEF KeyTtl
  <2> QED BY <1>2, <2>2 DEF ExecutorRemove, AtHome, remove
<1>3. CASE HandleExpire \/ HandleClear \/ HandleTransfer \/ HandleTtl \/ HandleAllTtL
  BY <1>3 DEF HandleExpire, HandleClear, HandleTransfer, HandleTtl, HandleAllTtL, AtHome
<1>4. CASE ExecutorWake \/ ExecutorSleep \/ ExecutorExit \/ Tick
  BY <1>4 DEF ExecutorWake, ExecutorSleep, ExecutorExit, Tick, AtHome
<1> QED BY <1>1, <1>2, <1>3, <1>4 DEF Supervisor, Executor, Sweep

LEMMA ClientAtHome ==
    ASSUME CopiesWithinShard, DbIInv, NEW c \in Clients, Begin(c) \/ Client(c)
    PROVE  AtHome
<1> DEFINE u == Unit(c)
<1>1. CASE LockedEffect(c)
  <2>1. u \in UnitsSent /\ u.op \in OnEntry
    <3>1. u \in UnitsSent /\ IsAt("effect", u) /\ u.op \notin {"copy", "rename", "sort"}
      BY <1>1, ThreadAt DEF LockedEffect
    <3> QED BY <3>1 DEF IsAt, OnKeys
  <2>2. u.key \in Keys
    BY <2>1, KeyOfUnit DEF OnEntry, OnAllKeys
  <2> QED BY <1>1, <2>2 DEF LockedEffect, AtHome
<1>2. CASE CopyEffect(c)
  <2>1. u \in UnitsSent /\ u.op = "copy"
    BY <1>2, ThreadAt DEF CopyEffect
  <2>2. u.to_key \in Keys /\ hash_funcion[u.key] = hash_funcion[u.to_key]
    BY <2>1, KeyOfUnit DEF CopiesWithinShard
  <2>3. \A v : InsertInShardOf(dictionary, u.key, u.to_key, v) = insert(dictionary, u.to_key, v)
    BY <2>2 DEF InsertInShardOf, insert
  <2> QED BY <1>2, <2>2, <2>3 DEF CopyEffect, AtHome
<1>3. CASE RenameEffect(c)
  <2>1. u \in UnitsSent /\ u.op = "rename"
    BY <1>3, ThreadAt DEF RenameEffect
  <2>2. u.key \in Keys
    BY <2>1, KeyOfUnit DEF OnAllKeys
  <2> QED BY <1>3, <2>2 DEF RenameEffect, AtHome, remove
<1>4. CASE InsertValue(c)
  <2>1. u \in UnitsSent /\ IsAt("insert", u)
    BY <1>4, ThreadAt DEF InsertValue
  <2>2. u.key \in Keys /\ (u.op = "rename" => u.to_key \in Keys)
    BY <2>1, KeyOfUnit DEF IsAt, Upserts, OnAllKeys
  <2> QED BY <1>4, <2>2 DEF InsertValue, AtHome
<1>5. CASE RemoveKey(c)
  <2>1. u \in UnitsSent /\ IsAt("remove", u)
    BY <1>5, ThreadAt DEF RemoveKey
  <2>2. u.key \in Keys
    BY <2>1, KeyOfUnit DEF IsAt, OnAllKeys
  <2> QED BY <1>5, <2>2 DEF RemoveKey, AtHome, remove
<1>6. CASE ScanDictionary(c)
  BY <1>6 DEF ScanDictionary, AtHome
<1>7. CASE SendMessage(c) \/ AskTtl(c)
  BY <1>7 DEF SendMessage, AskTtl, Post, AtHome
<1>8. CASE Decide(c) \/ AnswerTtlCommand(c)
  BY <1>8 DEF Decide, AnswerTtlCommand, TakeReply, AtHome
<1>9. CASE Begin(c) \/ ContainsKey(c) \/ ReadClock(c) \/ SortEffect(c) \/ TouchKey(c)
  <2>1. UNCHANGED ttlVars
    BY <1>9 DEF Begin, ContainsKey, ReadClock, SortEffect, TouchKey
  <2> QED BY <2>1 DEF ttlVars, AtHome
<1> QED BY <1>1, <1>2, <1>3, <1>4, <1>5, <1>6, <1>7, <1>8, <1>9 DEF Client

\* COPY between shards aside (the run db_copy_shard shows where it leads),
\* every entry stays in the shard where every command looks for it.
THEOREM EntriesFound ==
    ASSUME CopiesWithinShard, LoadedInOwnShard
    PROVE  DbSpec => []EntriesInOwnShard
<1>1. DbInit => EntriesInOwnShard
  BY DEF DbInit, Init, LoadedInOwnShard, EntriesInOwnShard
<1>2. DbIInv /\ EntriesInOwnShard /\ [DbNext]_dbVars => EntriesInOwnShard'
  <2> SUFFICES ASSUME DbIInv, EntriesInOwnShard, [DbNext]_dbVars PROVE EntriesInOwnShard'
    OBVIOUS
  <2>1. TypeOK
    BY DEF DbIInv, IInv
  <2>2. AtHome
    <3>1. CASE UNCHANGED dbVars
      BY <3>1 DEF dbVars, ttlVars, AtHome
    <3> QED BY <2>1, <3>1, MachineryAtHome, ClientAtHome DEF DbNext
  <2> QED BY <2>1, <2>2, AtHomeKept
<1> QED BY <1>1, <1>2, DbInductive, PTL DEF DbSpec

-----------------------------------------------------------------------------
(* Keys that are given no time *)

\* None of these keys has an entry, and no time for them is on its way.
OthersThan(ks) == {e \in KeyTtl : e.key \notin ks}

Sparing(m, ks) == /\ m.type = "Expire" => m.key \notin ks
                  /\ m.type = "Transfer" /\ m.to_key \in ks => m.key \in ks

SparingMessages(ks) == {m \in MessageTtl : Sparing(m, ks)}

\* What a thread is about to send, and whether it waits for an answer.
Spared(l, ks) == l.message.type \notin {"Ttl", "AllTtL"} /\ Sparing(l.message, ks)

Awaits(l) == l.pc \in {"answer", "answer_again"}

\* Whatever c has asked, it is not told that one of these keys has a time.
Questions(c, ks) == {m \in SparingMessages(ks) : m.type = "Ttl" /\ m.sender = c => m.key \in ks}

NoTimeFor(c, ks) == replies[c].type # "Ttl" /\ mailbox \in Seq(Questions(c, ks))

TimelessInv(ks) ==
    /\ ttl_keys \in Seq(OthersThan(ks)) /\ mailbox \in Seq(SparingMessages(ks))
    /\ \A c \in Clients : Spared(local[c], ks)
    /\ \A c \in Clients : Awaits(local[c]) /\ LookedUp(local[c]) \in ks => NoTimeFor(c, ks)

\* A key without a time has no entry.
LEMMA NoEntry ==
    ASSUME NEW ks, ttl_keys \in Seq(OthersThan(ks)), NEW k \in ks
    PROVE  ~HasEntry(ttl_keys, k) /\ PositionOf(ttl_keys, k) = {}
<1>1. \A i \in DOMAIN ttl_keys : ttl_keys[i] \in OthersThan(ks)
  BY LenProperties
<1> QED BY <1>1 DEF OthersThan, HasEntry, PositionOf

-----------------------------------------------------------------------------
(* Where a thread goes next, once more *)

\* The thread l has become m, which goes on with the same unit, or has finished it.
Begins(m) == m.pc = "idle" \/ m.pc = FirstStep(Head(m.units))

Continues(l, m) == m.units = l.units \/ (m.units = Tail(l.units) /\ Begins(m))

\* And it waits for no answer, and is about to give none of these keys a time.
GoesOn(l, m, ks) == Spared(m, ks) /\ ~Awaits(m) /\ Continues(l, m)

LEMMA GotoGoesOn ==
    ASSUME NEW ks, NEW l, IsThread(l), Spared(l, ks), NEW pc, pc \notin {"answer", "answer_again"}
    PROVE  GoesOn(l, Goto(l, pc), ks) /\ IsThread(Goto(l, pc))
<1> DEFINE m == Goto(l, pc)
<1>1. m = [l EXCEPT !.pc = pc]
  BY DEF Goto
<1> HIDE DEF m
<1>2. m.pc = pc /\ m.units = l.units /\ m.message = l.message /\ IsThread(m)
  BY <1>1 DEF IsThread
<1>3. GoesOn(l, m, ks)
  BY <1>2 DEF GoesOn, Spared, Awaits, Continues
<1> QED BY <1>2, <1>3 DEF m

\* The messages other than those of EXPIRE and RENAME tell no time.
LEMMA SpareMessages ==
    ASSUME NEW ks
    PROVE  /\ \A k : Clear(k).type \notin {"Ttl", "AllTtL"} /\ Sparing(Clear(k), ks)
           /\ \A k : Check(k).type \notin {"Ttl", "AllTtL"} /\ Sparing(Check(k), ks)
           /\ NoMessage.type \notin {"Ttl", "AllTtL"} /\ Sparing(NoMessage, ks)
           /\ \A k, t : /\ Expire(k, t).type \notin {"Ttl", "AllTtL"}
                        /\ k \notin ks => Sparing(Expire(k, t), ks)
           /\ \A j, k : /\ Transfer(j, k).type \notin {"Ttl", "AllTtL"}
                        /\ (k \in ks => j \in ks) => Sparing(Transfer(j, k), ks)
BY DEF Clear, Check, NoMessage, Expire, Transfer, Sparing

LEMMA GoSendGoesOn ==
    ASSUME NEW ks, NEW l, IsThread(l), NEW message, message.type \notin {"Ttl", "AllTtL"},
           Sparing(message, ks)
    PROVE  GoesOn(l, GoSend(l, message), ks) /\ IsThread(GoSend(l, message))
<1> DEFINE m == GoSend(l, message)
<1>1. m = [l EXCEPT !.pc = "send", !.message = message]
  BY DEF GoSend
<1> HIDE DEF m
<1>2. m.pc = "send" /\ m.units = l.units /\ m.message = message /\ IsThread(m)
  BY <1>1 DEF IsThread
<1>3. GoesOn(l, m, ks)
  BY <1>2 DEF GoesOn, Spared, Awaits, Continues
<1> QED BY <1>2, <1>3 DEF m

LEMMA NotedGoesOn ==
    ASSUME NEW ks, NEW l, NEW m, IsThread(m), GoesOn(l, m, ks),
           NEW contains, NEW checks, NEW saved
    PROVE  /\ GoesOn(l, [m EXCEPT !.contains = contains], ks)
           /\ GoesOn(l, [m EXCEPT !.checks = checks], ks)
           /\ GoesOn(l, [m EXCEPT !.checks = checks, !.contains = contains], ks)
           /\ GoesOn(l, [m EXCEPT !.saved = saved], ks)
<1>1. ASSUME NEW n, n \in {[m EXCEPT !.contains = contains], [m EXCEPT !.checks = checks],
                           [m EXCEPT !.checks = checks, !.contains = contains],
                           [m EXCEPT !.saved = saved]}
      PROVE  GoesOn(l, n, ks)
  <2>1. n.pc = m.pc /\ n.units = m.units /\ n.message = m.message
    BY <1>1 DEF IsThread
  <2> QED BY <2>1 DEF GoesOn, Spared, Awaits, Continues, Begins
<1> QED BY <1>1

\* The fields of a thread that begins a unit.
LEMMA Entered ==
    ASSUME NEW ks, NEW l, IsThread(l)
    PROVE  /\ Enter(l).pc = FirstStep(Head(l.units)) /\ Enter(l).units = l.units
           /\ Enter(l).replies = l.replies
           /\ Spared(Enter(l), ks) /\ ~Awaits(Enter(l))
<1> DEFINE u == Head(l.units)
           m == Enter(l)
<1>1. m = [l EXCEPT !.pc = FirstStep(u), !.message = FirstMessage(u),
                    !.contains = FALSE, !.checks = 0, !.saved = Absent]
  BY DEF Enter
<1> HIDE DEF u, m
<1>2. /\ m.pc = FirstStep(u) /\ m.message = FirstMessage(u) /\ m.units = l.units
      /\ m.replies = l.replies
  BY <1>1 DEF IsThread
<1>3. FirstMessage(u).type \notin {"Ttl", "AllTtL"} /\ Sparing(FirstMessage(u), ks)
  BY SpareMessages DEF FirstMessage
<1>4. FirstStep(u) \notin {"answer", "answer_again"}
  BY DEF FirstStep
<1>5. Spared(m, ks) /\ ~Awaits(m)
  BY <1>2, <1>3, <1>4 DEF Spared, Awaits
<1> QED BY <1>2, <1>5 DEF m, u

LEMMA IdleFields ==
    ASSUME NEW ks, NEW request, NEW reply, NEW left
    PROVE  /\ Idle(request, reply, left).pc = "idle" /\ Idle(request, reply, left).units = <<>>
           /\ Idle(request, reply, left).reply = reply
           /\ Spared(Idle(request, reply, left), ks) /\ ~Awaits(Idle(request, reply, left))
<1>1. /\ Idle(request, reply, left).units = <<>> /\ Idle(request, reply, left).message = NoMessage
      /\ Idle(request, reply, left).pc = "idle" /\ Idle(request, reply, left).reply = reply
  BY DEF Idle
<1> QED BY <1>1, SpareMessages DEF Spared, Awaits

\* The tail of a sequence is another one, empty when only one element is left.
LEMMA TailOfSeq ==
    ASSUME NEW S, NEW s \in Seq(S), s # <<>>
    PROVE  /\ Tail(s) # s
           /\ ~(Len(s) > 1) => Tail(s) = <<>>
<1> DEFINE n == Len(s)
           t == Tail(s)
<1>1. n \in Nat /\ t \in Seq(S) /\ Len(t) = n - 1
  BY LenProperties, HeadTailProperties
<1>2. n # 0
  BY EmptySeq
<1>3. t # s
  <2> SUFFICES ASSUME t = s PROVE FALSE
    OBVIOUS
  <2>1. Len(t) = n
    OBVIOUS
  <2> HIDE DEF t, n
  <2> QED BY <1>1, <2>1
<1>4. ASSUME ~(n > 1) PROVE t = <<>>
  <2>1. Len(t) = 0
    <3> DEFINE r == Len(t)
    <3>1. r = n - 1
      BY <1>1
    <3> HIDE DEF r, n, t
    <3>2. r = 0
      BY <1>1, <1>2, <1>4, <3>1
    <3> QED BY <3>2 DEF r
  <2> HIDE DEF t
  <2> QED BY <1>1, <2>1, EmptySeq
<1> QED BY <1>3, <1>4

\* A unit ends: the next one begins, or the request is answered.
LEMMA FinishGoesOn ==
    ASSUME NEW ks, NEW l, HasUnits(l), NEW reply
    PROVE  /\ GoesOn(l, Finish(l, reply), ks) /\ Begins(Finish(l, reply))
           /\ \/ Finish(l, reply).replies = Append(l.replies, reply)
              \/ /\ Finish(l, reply).pc = "idle"
                 /\ Finish(l, reply).reply
                        = CombinedReply(l.request.name, Append(l.replies, reply))
<1> DEFINE rs == Append(l.replies, reply)
           m == [l EXCEPT !.units = Tail(l.units), !.replies = rs]
           f == Finish(l, reply)
<1>1. l.units \in Seq(UnitsSent) /\ l.units # <<>> /\ IsThread(l)
  BY DEF HasUnits
<1>2. CASE Len(l.units) > 1
  <2>1. m.units = Tail(l.units) /\ m.replies = rs /\ IsThread(m)
    <3>1. m = [l EXCEPT !.units = Tail(l.units), !.replies = rs]
      OBVIOUS
    <3> HIDE DEF m, rs
    <3> QED BY <1>1, <3>1 DEF IsThread
  <2>2. f = Enter(m)
    BY <1>2 DEF Finish
  <2> HIDE DEF m, rs, f
  <2>3. /\ f.pc = FirstStep(Head(f.units)) /\ f.units = Tail(l.units) /\ f.replies = rs
        /\ Spared(f, ks) /\ ~Awaits(f)
    BY <2>1, <2>2, Entered
  <2> QED BY <2>3 DEF GoesOn, Continues, Begins, f, rs
<1>3. CASE ~(Len(l.units) > 1)
  <2>1. f = Idle(l.request, CombinedReply(l.request.name, rs), l.left)
    BY <1>3 DEF Finish
  <2>2. Tail(l.units) = <<>>
    BY <1>1, <1>3, TailOfSeq
  <2> DEFINE answer == CombinedReply(l.request.name, rs)
  <2>3. f = Idle(l.request, answer, l.left)
    BY <2>1
  <2> HIDE DEF rs, f, answer
  <2>4. f.pc = "idle" /\ f.units = <<>> /\ f.reply = answer /\ Spared(f, ks) /\ ~Awaits(f)
    BY <2>3, IdleFields
  <2> QED BY <2>2, <2>4 DEF GoesOn, Continues, Begins, f, rs, answer
<1> QED BY <1>2, <1>3

LEMMA AfterExistsGoesOn ==
    ASSUME NEW ks, NEW l, HasUnits(l), Spared(l, ks), NEW exists
    PROVE  GoesOn(l, AfterExists(l, exists), ks)
<1> DEFINE u == Head(l.units)
           again == [Goto(l, "contains") EXCEPT !.checks = 1, !.contains = FALSE]
<1>1. AfterExists(l, exists) \in
          {Finish(l, Err("KeyAlredyExist")), Finish(l, Boolean(exists)), Finish(l, ReplyToMissing(u)),
           again, Goto(l, "insert"), Goto(l, "ask_again"), GoSend(l, Clear(u.key)), Goto(l, "clock"),
           Goto(l, "effect")}
  BY DEF AfterExists
<1>2. IsThread(l)
  BY DEF HasUnits
<1>3. GoesOn(l, again, ks)
  BY <1>2, GotoGoesOn, NotedGoesOn
<1>4. GoesOn(l, GoSend(l, Clear(u.key)), ks)
  BY <1>2, GoSendGoesOn, SpareMessages
<1>5. \A reply : GoesOn(l, Finish(l, reply), ks)
  BY FinishGoesOn
<1>6. \A pc \in {"insert", "ask_again", "clock", "effect"} : GoesOn(l, Goto(l, pc), ks)
  BY <1>2, GotoGoesOn
<1> HIDE DEF u, again
<1> QED BY <1>1, <1>3, <1>4, <1>5, <1>6

LEMMA AfterEffectGoesOn ==
    ASSUME NEW ks, NEW l, HasUnits(l), Spared(l, ks), NEW v, NEW reply
    PROVE  GoesOn(l, AfterEffect(l, v, reply), ks)
<1> DEFINE u == Head(l.units)
<1>1. AfterEffect(l, v, reply) \in
          {[GoSend(l, Clear(u.key)) EXCEPT !.saved = v], [Goto(l, "remove") EXCEPT !.saved = v],
           [Goto(l, "insert") EXCEPT !.saved = v], Finish(l, reply)}
  BY DEF AfterEffect
<1>2. IsThread(l)
  BY DEF HasUnits
<1>3. GoesOn(l, [GoSend(l, Clear(u.key)) EXCEPT !.saved = v], ks)
  BY <1>2, GoSendGoesOn, SpareMessages, NotedGoesOn
<1>4. /\ GoesOn(l, [Goto(l, "remove") EXCEPT !.saved = v], ks)
      /\ GoesOn(l, [Goto(l, "insert") EXCEPT !.saved = v], ks)
  BY <1>2, GotoGoesOn, NotedGoesOn
<1>5. GoesOn(l, Finish(l, reply), ks)
  BY FinishGoesOn
<1> HIDE DEF u
<1> QED BY <1>1, <1>3, <1>4, <1>5

LEMMA AfterInsertGoesOn ==
    ASSUME NEW ks, NEW l, HasUnits(l), Spared(l, ks),
           LET u == Head(l.units) IN u.op = "rename" /\ u.to_key \in ks => u.key \in ks
    PROVE  GoesOn(l, AfterInsert(l), ks)
<1> DEFINE u == Head(l.units)
<1>1. \/ AfterInsert(l) = Goto(l, "effect")
      \/ u.op = "rename" /\ AfterInsert(l) = GoSend(l, Transfer(u.key, u.to_key))
      \/ AfterInsert(l) = Finish(l, get(l.saved).reply)
      \/ AfterInsert(l) = Finish(l, NewValue(u).reply)
  BY DEF AfterInsert
<1>2. IsThread(l)
  BY DEF HasUnits
<1>3. u.op = "rename" => GoesOn(l, GoSend(l, Transfer(u.key, u.to_key)), ks)
  BY <1>2, GoSendGoesOn, SpareMessages
<1>4. GoesOn(l, Goto(l, "effect"), ks) /\ \A reply : GoesOn(l, Finish(l, reply), ks)
  BY <1>2, FinishGoesOn, GotoGoesOn
<1> HIDE DEF u
<1> QED BY <1>1, <1>3, <1>4

LEMMA AfterSendGoesOn ==
    ASSUME NEW ks, NEW l, HasUnits(l), Spared(l, ks)
    PROVE  GoesOn(l, AfterSend(l), ks)
<1>1. AfterSend(l) \in {Goto(l, "insert"), Goto(l, "contains"), Goto(l, "touch"),
                        Finish(l, Integer(1)), Finish(l, Success), Finish(l, Boolean(TRUE))}
  BY DEF AfterSend
<1>2. IsThread(l)
  BY DEF HasUnits
<1>3. \A reply : GoesOn(l, Finish(l, reply), ks)
  BY FinishGoesOn
<1>4. \A pc \in {"insert", "contains", "touch"} : GoesOn(l, Goto(l, pc), ks)
  BY <1>2, GotoGoesOn
<1> QED BY <1>1, <1>3, <1>4

LEMMA AfterRemoveGoesOn ==
    ASSUME NEW ks, NEW l, HasUnits(l)
    PROVE  GoesOn(l, AfterRemove(l), ks)
<1>1. AfterRemove(l) \in {Finish(l, Success), Finish(l, get(l.saved).reply), Finish(l, Boolean(TRUE))}
  BY DEF AfterRemove
<1>2. \A reply : GoesOn(l, Finish(l, reply), ks)
  BY FinishGoesOn
<1> QED BY <1>1, <1>2

-----------------------------------------------------------------------------
(* What a thread leaves alone *)

\* A step of the thread of c alone: it posts nothing that gives these keys a
\* time, takes no answer but its own, and moves no other thread.
Elsewhere(c, ks) ==
    /\ UNCHANGED ttl_keys
    /\ \/ UNCHANGED mailbox
       \/ \E m \in SparingMessages(ks) : /\ mailbox' = Append(mailbox, m)
                                         /\ m.type = "Ttl" => m.sender = c
    /\ \A d \in Clients \ {c} : replies'[d] = replies[d]
    /\ \A d \in Clients \ {c} : local'[d] = local[d]

\* And when it waits for an answer after that, the answer is no time of these.
OwnStep(c, ks) ==
    /\ Elsewhere(c, ks) /\ Spared(local'[c], ks)
    /\ Awaits(local'[c]) /\ LookedUp(local'[c]) \in ks => NoTimeFor(c, ks)'

LEMMA ElsewhereKept ==
    ASSUME NEW ks, TimelessInv(ks), NEW c \in Clients, Elsewhere(c, ks)
    PROVE  /\ ttl_keys' \in Seq(OthersThan(ks)) /\ mailbox' \in Seq(SparingMessages(ks))
           /\ \A d \in Clients \ {c} : NoTimeFor(d, ks) => NoTimeFor(d, ks)'
<1>1. mailbox' \in Seq(SparingMessages(ks))
  <2>1. ASSUME NEW m \in SparingMessages(ks), mailbox' = Append(mailbox, m)
        PROVE  mailbox' \in Seq(SparingMessages(ks))
    BY <2>1, AppendProperties DEF TimelessInv
  <2> QED BY <2>1 DEF Elsewhere, TimelessInv
<1>2. ASSUME NEW d \in Clients \ {c}, NoTimeFor(d, ks)
      PROVE  NoTimeFor(d, ks)'
  <2>1. replies'[d].type # "Ttl"
    BY <1>2 DEF NoTimeFor, Elsewhere
  <2>2. ASSUME NEW m \in SparingMessages(ks), m.type = "Ttl" => m.sender = c,
               mailbox' = Append(mailbox, m)
        PROVE  mailbox' \in Seq(Questions(d, ks))
    <3>1. m \in Questions(d, ks)
      BY <2>2 DEF Questions
    <3> QED BY <1>2, <2>2, <3>1, AppendProperties DEF NoTimeFor
  <2>3. mailbox' \in Seq(Questions(d, ks))
    BY <1>2, <2>2 DEF Elsewhere, NoTimeFor
  <2> QED BY <2>1, <2>3 DEF NoTimeFor
<1>3. ttl_keys' \in Seq(OthersThan(ks))
  BY DEF TimelessInv, Elsewhere
<1> QED BY <1>1, <1>2, <1>3

LEMMA OwnStepKept ==
    ASSUME NEW ks, TimelessInv(ks), NEW c \in Clients, OwnStep(c, ks)
    PROVE  TimelessInv(ks)'
<1>1. Elsewhere(c, ks)
  BY DEF OwnStep
<1>2. /\ ttl_keys' \in Seq(OthersThan(ks)) /\ mailbox' \in Seq(SparingMessages(ks))
      /\ \A d \in Clients \ {c} : NoTimeFor(d, ks) => NoTimeFor(d, ks)'
  BY <1>1, ElsewhereKept
<1>3. \A d \in Clients \ {c} : local'[d] = local[d]
  BY <1>1 DEF Elsewhere
<1>4. \A d \in Clients : Spared(local'[d], ks)
  BY <1>3 DEF OwnStep, TimelessInv
<1>5. ASSUME NEW d \in Clients, Awaits(local'[d]), LookedUp(local'[d]) \in ks
      PROVE  NoTimeFor(d, ks)'
  <2>1. CASE d = c
    BY <1>5, <2>1 DEF OwnStep
  <2>2. CASE d # c
    BY <1>2, <1>3, <1>5, <2>2 DEF TimelessInv
  <2> QED BY <2>1, <2>2
<1> QED BY <1>2, <1>4, <1>5 DEF TimelessInv

\* A step that posts nothing, of a thread that goes on.
LEMMA QuietOwnStep ==
    ASSUME NEW ks, NEW c \in Clients, NEW m, local' = [local EXCEPT ![c] = m],
           DOMAIN local = Clients, GoesOn(local[c], m, ks), UNCHANGED <<ttl_keys, mailbox>>,
           \A d \in Clients \ {c} : replies'[d] = replies[d]
    PROVE  OwnStep(c, ks) /\ Continues(local[c], local'[c])
<1>1. local'[c] = m /\ \A d \in Clients \ {c} : local'[d] = local[d]
  OBVIOUS
<1> QED BY <1>1 DEF OwnStep, Elsewhere, GoesOn

\* A thread at an access: its unit, and what the requests allow it.
LEMMA UnitAt ==
    ASSUME NEW ks, GivesNoTime(ks), DbIInv, NEW c \in Clients, NEW pc, pc # "idle", At(c, pc)
    PROVE  /\ HasUnits(local[c]) /\ IsThread(local[c]) /\ IsAt(pc, Unit(c))
           /\ Unit(c) = Head(local[c].units) /\ Unit(c) \in UnitsSent
           /\ Unit(c).op \in {"expire", "expireat"} => Unit(c).key \notin ks
           /\ Unit(c).op = "rename" /\ Unit(c).to_key \in ks => Unit(c).key \in ks
<1>1. /\ HasUnits(local[c]) /\ IsAt(pc, Head(local[c].units)) /\ Unit(c) = Head(local[c].units)
      /\ Unit(c) \in UnitsSent
  BY ThreadAt
<1> QED BY <1>1 DEF HasUnits, GivesNoTime

\* What is asked is the time of a key of these, and nothing else is under way.
LEMMA AskTtlOwn ==
    ASSUME NEW ks, GivesNoTime(ks), DbIInv, TimelessInv(ks), NEW c \in Clients, AskTtl(c)
    PROVE  OwnStep(c, ks) /\ Continues(local[c], local'[c])
<1> DEFINE l == local[c]
           u == Unit(c)
           q == Ttl(LookedUp(l), c)
<1>0. DOMAIN local = Clients /\ c \in Requesters
  BY DatabaseAssumption DEF DbIInv
<1>1. At(c, "ask") \/ At(c, "ask_again")
  BY DEF AskTtl
<1>2. /\ IsThread(l) /\ u \in UnitsSent /\ u.op \in OnEntry \cup OnKeys \cup OnKeyAlone
      /\ u = Head(l.units)
  BY <1>1, UnitAt DEF IsAt, OnKeyAlone
<1>3. u.key \in Keys /\ (u.op = "copy" => u.to_key \in Keys)
  BY <1>2, KeyOfUnit DEF OnEntry, OnKeys, OnKeyAlone, OnAllKeys
<1>4. LookedUp(l) \in Keys
  BY <1>2, <1>3 DEF LookedUp
<1>5. q \in SparingMessages(ks) /\ q.type = "Ttl" /\ q.sender = c /\ q.key = LookedUp(l)
  BY <1>0, <1>4 DEF Ttl, SparingMessages, Sparing, MessageTtl
<1> HIDE DEF q
<1>6. mailbox' = Append(mailbox, q) /\ UNCHANGED <<ttl_keys, replies>> /\ ~Asking(c)
  BY <1>5 DEF AskTtl, Post, Send, q
<1>7. PICK pc : local' = [local EXCEPT ![c] = Goto(l, pc)]
  BY DEF AskTtl, Moves
<1> DEFINE m == Goto(l, pc)
<1>8. m.units = l.units /\ m.message = l.message /\ m.checks = l.checks
  <2>1. m = [l EXCEPT !.pc = pc]
    BY DEF Goto
  <2> HIDE DEF m, l
  <2> QED BY <1>2, <2>1 DEF IsThread
<1>9. local'[c] = m /\ \A d \in Clients \ {c} : local'[d] = local[d]
  BY <1>0, <1>7
<1> HIDE DEF m
<1>10. Spared(local'[c], ks) /\ Continues(l, local'[c]) /\ LookedUp(local'[c]) = LookedUp(l)
  BY <1>8, <1>9 DEF TimelessInv, Spared, Continues, LookedUp
<1> HIDE DEF l, u
<1>11. Elsewhere(c, ks)
  BY <1>5, <1>6, <1>9 DEF Elsewhere
<1>12. ASSUME LookedUp(l) \in ks PROVE NoTimeFor(c, ks)'
  <2>1. replies'[c].type # "Ttl"
    BY <1>6 DEF Asking, Waiting
  <2>2. mailbox \in Seq(Questions(c, ks))
    <3>1. Len(mailbox) \in Nat /\ mailbox \in [1..Len(mailbox) -> SparingMessages(ks)]
      BY LenProperties DEF TimelessInv
    <3>2. \A i \in 1..Len(mailbox) : mailbox[i] \in Questions(c, ks)
      BY <1>6, <3>1 DEF Asking, Questions
    <3>3. mailbox \in [1..Len(mailbox) -> Questions(c, ks)]
      BY <3>1, <3>2
    <3> QED BY <3>1, <3>3, SeqDef
  <2>3. q \in Questions(c, ks)
    BY <1>5, <1>12 DEF Questions
  <2>4. mailbox' \in Seq(Questions(c, ks))
    BY <1>6, <2>2, <2>3, AppendProperties
  <2> QED BY <2>1, <2>4 DEF NoTimeFor
<1> QED BY <1>10, <1>11, <1>12 DEF OwnStep, l

\* What is sent is what the thread was about to send.
LEMMA SendMessageOwn ==
    ASSUME NEW ks, GivesNoTime(ks), DbIInv, TimelessInv(ks), NEW c \in Clients, SendMessage(c)
    PROVE  OwnStep(c, ks) /\ Continues(local[c], local'[c])
<1> DEFINE l == local[c]
           m == [l EXCEPT !.message = NoMessage]
<1>1. HasUnits(l) /\ IsThread(l) /\ Underway(l) /\ l.pc = "send" /\ DOMAIN local = Clients
  BY UnitAt, ThreadAt DEF SendMessage, At, DbIInv
<1>2. l.message \in MessageTtl
  BY <1>1, EnvironmentMessagesType DEF Underway
<1>3. l.message \in SparingMessages(ks) /\ l.message.type # "Ttl"
  BY <1>2 DEF TimelessInv, Spared, SparingMessages
<1>4. /\ mailbox' = Append(mailbox, l.message) /\ UNCHANGED <<ttl_keys, replies>>
      /\ local' = [local EXCEPT ![c] = AfterSend(m)]
  BY DEF SendMessage, Post, Send, Moves
<1>5. m.units = l.units /\ m.message = NoMessage /\ HasUnits(m)
  <2>1. m = [l EXCEPT !.message = NoMessage]
    OBVIOUS
  <2> HIDE DEF m, l
  <2>2. /\ IsThread(m) /\ m.units = l.units /\ m.left = l.left /\ m.message = NoMessage
        /\ m.saved = l.saved
    BY <1>1, <2>1 DEF IsThread
  <2> QED BY <1>1, <2>2 DEF HasUnits
<1> HIDE DEF m
<1>6. Spared(m, ks)
  BY <1>5, SpareMessages DEF Spared
<1>7. GoesOn(m, AfterSend(m), ks)
  BY <1>5, <1>6, AfterSendGoesOn
<1>8. GoesOn(l, AfterSend(m), ks)
  BY <1>5, <1>7 DEF GoesOn, Continues
<1>9. local'[c] = AfterSend(m) /\ \A d \in Clients \ {c} : local'[d] = local[d]
  BY <1>1, <1>4
<1> QED BY <1>3, <1>4, <1>8, <1>9 DEF OwnStep, Elsewhere, GoesOn

\* Nor does any other access give these keys a time.
LEMMA ClientOwn ==
    ASSUME NEW ks, GivesNoTime(ks), DbIInv, TimelessInv(ks), NEW c \in Clients, Client(c)
    PROVE  OwnStep(c, ks) /\ Continues(local[c], local'[c])
<1> DEFINE l == local[c]
           u == Unit(c)
           Quiet == /\ UNCHANGED <<ttl_keys, mailbox>>
                    /\ \A d \in Clients \ {c} : replies'[d] = replies[d]
<1>0. DOMAIN local = Clients /\ Spared(l, ks)
  BY DEF DbIInv, TimelessInv
<1>00. (UNCHANGED ttlVars => Quiet) /\ (OnlyDictionary => Quiet)
  BY DEF ttlVars, OnlyDictionary
<1>000. TakeReply(c) => Quiet
  <2>1. replies \in [Requesters -> RespondTtl] /\ Clients \subseteq Requesters
    BY DatabaseAssumption DEF DbIInv, IInv, TypeOK
  <2> QED BY <2>1 DEF TakeReply
<1>01. ASSUME NEW m, GoesOn(l, m, ks), local' = [local EXCEPT ![c] = m], Quiet
       PROVE  OwnStep(c, ks) /\ Continues(local[c], local'[c])
  BY <1>0, <1>01, QuietOwnStep
<1>1. CASE ContainsKey(c)
  <2> DEFINE m == [Goto(l, "ask") EXCEPT !.contains = contains_key(dictionary, LookedUp(l))]
  <2>1. IsThread(l)
    BY <1>1, UnitAt DEF ContainsKey
  <2>2. GoesOn(l, m, ks)
    BY <1>0, <2>1, GotoGoesOn, NotedGoesOn
  <2>3. local' = [local EXCEPT ![c] = m] /\ UNCHANGED ttlVars
    BY <1>1 DEF ContainsKey, Moves
  <2> HIDE DEF m, l, Quiet
  <2> QED BY <1>00, <1>01, <2>2, <2>3
<1>2. CASE Decide(c)
  <2>1. HasUnits(l)
    BY <1>2, UnitAt DEF Decide
  <2>2. TakeReply(c) /\ \E exists : local' = [local EXCEPT ![c] = AfterExists(l, exists)]
    BY <1>2 DEF Decide, Moves
  <2>3. \A exists : GoesOn(l, AfterExists(l, exists), ks)
    BY <1>0, <2>1, AfterExistsGoesOn
  <2> HIDE DEF l, Quiet
  <2> QED BY <1>000, <1>01, <2>2, <2>3
<1>3. CASE AnswerTtlCommand(c)
  <2>1. HasUnits(l) /\ IsThread(l)
    BY <1>3, UnitAt DEF AnswerTtlCommand
  <2>2. /\ TakeReply(c)
        /\ \/ local' = [local EXCEPT ![c] = Goto(l, "panicked")]
           \/ \E reply : local' = [local EXCEPT ![c] = Finish(l, reply)]
    BY <1>3 DEF AnswerTtlCommand, Moves
  <2>3. GoesOn(l, Goto(l, "panicked"), ks) /\ \A reply : GoesOn(l, Finish(l, reply), ks)
    BY <1>0, <2>1, GotoGoesOn, FinishGoesOn
  <2> HIDE DEF l, Quiet
  <2> QED BY <1>000, <1>01, <2>2, <2>3
<1>4. CASE ReadClock(c)
  <2> DEFINE time == IF u.op = "expire" THEN now + u.seconds ELSE u.seconds
  <2>1. IsThread(l) /\ u.key \notin ks
    BY <1>4, UnitAt DEF ReadClock, IsAt
  <2>2. GoesOn(l, GoSend(l, Expire(u.key, time)), ks)
    BY <2>1, GoSendGoesOn, SpareMessages
  <2>3. GoesOn(l, Goto(l, "panicked"), ks) /\ GoesOn(l, Goto(l, "remove"), ks)
    BY <1>0, <2>1, GotoGoesOn
  <2>4. UNCHANGED ttlVars /\ u.op \in {"expire", "expireat"}
    BY <1>4, UnitAt DEF ReadClock, IsAt
  <2>5. \/ local' = [local EXCEPT ![c] = Goto(l, "panicked")]
        \/ local' = [local EXCEPT ![c] = Goto(l, "remove")]
        \/ local' = [local EXCEPT ![c] = GoSend(l, Expire(u.key, time))]
    BY <1>4, <2>4 DEF ReadClock, Moves
  <2> HIDE DEF l, Quiet, u, time
  <2> QED BY <1>00, <1>01, <2>2, <2>3, <2>4, <2>5
<1>5. CASE LockedEffect(c) \/ RenameEffect(c)
  <2>1. HasUnits(l)
    BY <1>5, UnitAt DEF LockedEffect, RenameEffect
  <2>2. OnlyDictionary /\ \E v, reply : local' = [local EXCEPT ![c] = AfterEffect(l, v, reply)]
    BY <1>5 DEF LockedEffect, RenameEffect, Moves
  <2>3. \A v, reply : GoesOn(l, AfterEffect(l, v, reply), ks)
    BY <1>0, <2>1, AfterEffectGoesOn
  <2> HIDE DEF l, Quiet
  <2> QED BY <1>00, <1>01, <2>2, <2>3
<1>6. CASE SortEffect(c)
  <2>1. HasUnits(l) /\ IsThread(l)
    BY <1>6, UnitAt DEF SortEffect
  <2>2. /\ UNCHANGED ttlVars
        /\ \/ local' = [local EXCEPT ![c] = Goto(l, "panicked")]
           \/ \E reply : local' = [local EXCEPT ![c] = Finish(l, reply)]
    BY <1>6 DEF SortEffect, Moves
  <2>3. GoesOn(l, Goto(l, "panicked"), ks) /\ \A reply : GoesOn(l, Finish(l, reply), ks)
    BY <1>0, <2>1, GotoGoesOn, FinishGoesOn
  <2> HIDE DEF l, Quiet
  <2> QED BY <1>00, <1>01, <2>2, <2>3
<1>7. CASE CopyEffect(c) \/ ScanDictionary(c)
  <2>1. HasUnits(l)
    BY <1>7, UnitAt DEF CopyEffect, ScanDictionary
  <2>2. OnlyDictionary /\ \E reply : local' = [local EXCEPT ![c] = Finish(l, reply)]
    BY <1>7 DEF CopyEffect, ScanDictionary, Moves
  <2>3. \A reply : GoesOn(l, Finish(l, reply), ks)
    BY <2>1, FinishGoesOn
  <2> HIDE DEF l, Quiet
  <2> QED BY <1>00, <1>01, <2>2, <2>3
<1>8. CASE InsertValue(c)
  <2>1. HasUnits(l) /\ (Head(l.units).op = "rename" /\ Head(l.units).to_key \in ks => Head(l.units).key \in ks)
    BY <1>8, UnitAt DEF InsertValue
  <2>2. OnlyDictionary /\ local' = [local EXCEPT ![c] = AfterInsert(l)]
    BY <1>8 DEF InsertValue, Moves
  <2>3. GoesOn(l, AfterInsert(l), ks)
    BY <1>0, <2>1, AfterInsertGoesOn
  <2> HIDE DEF l, Quiet
  <2> QED BY <1>00, <1>01, <2>2, <2>3
<1>9. CASE RemoveKey(c)
  <2>1. HasUnits(l)
    BY <1>9, UnitAt DEF RemoveKey
  <2>2. OnlyDictionary /\ local' = [local EXCEPT ![c] = AfterRemove(l)]
    BY <1>9 DEF RemoveKey, Moves
  <2>3. GoesOn(l, AfterRemove(l), ks)
    BY <2>1, AfterRemoveGoesOn
  <2> HIDE DEF l, Quiet
  <2> QED BY <1>00, <1>01, <2>2, <2>3
<1>10. CASE TouchKey(c)
  <2> DEFINE m == [GoSend(l, Check(u.key)) EXCEPT !.checks = 1]
  <2>1. HasUnits(l) /\ IsThread(l)
    BY <1>10, UnitAt DEF TouchKey
  <2>2. GoesOn(l, m, ks)
    BY <2>1, GoSendGoesOn, SpareMessages, NotedGoesOn
  <2>3. GoesOn(l, Finish(l, Integer(0)), ks)
    BY <2>1, FinishGoesOn
  <2>4. /\ UNCHANGED ttlVars
        /\ \/ local' = [local EXCEPT ![c] = m]
           \/ local' = [local EXCEPT ![c] = Finish(l, Integer(0))]
    BY <1>10 DEF TouchKey, Moves
  <2> HIDE DEF m, l, Quiet
  <2> QED BY <1>00, <1>01, <2>2, <2>3, <2>4
<1> HIDE DEF l, u, Quiet
<1> QED BY <1>1, <1>2, <1>3, <1>4, <1>5, <1>6, <1>7, <1>8, <1>9, <1>10, AskTtlOwn, SendMessageOwn
        DEF Client

\* A request begins with its first unit; one without units is answered at once.
LEMMA BeginOwn ==
    ASSUME NEW ks, DbIInv, NEW c \in Clients, Begin(c)
    PROVE  /\ OwnStep(c, ks) /\ Begins(local'[c]) /\ UNCHANGED dictionary /\ ~Busy(c)
           /\ \E r \in Requests : local'[c].units = r.units
           /\ local'[c].units # <<>> => local'[c].pc = FirstStep(Head(local'[c].units))
<1> DEFINE l == local[c]
           m == [l EXCEPT !.left = @ - 1]
<1>1. ThreadOK(l) /\ l.pc = "idle" /\ DOMAIN local = Clients
  BY DEF DbIInv, Begin, At
<1>2. PICK request, reply : \E left \in 0..MaxRequests : l = Idle(request, reply, left)
  BY <1>1 DEF ThreadOK, Underway
<1>3. IsThread(l)
  BY <1>2 DEF Idle, IsThread
<1>4. PICK r \in Requests :
          Moves(c, IF r.units = <<>>
                     THEN Idle(r, CombinedReply(r.name, <<>>), m.left)
                     ELSE Enter([m EXCEPT !.request = r, !.units = r.units, !.reply = Nil]))
  BY DEF Begin
<1> DEFINE n == [m EXCEPT !.request = r, !.units = r.units, !.reply = Nil]
<1>5. IsThread(m)
  <2>1. m = [l EXCEPT !.left = @ - 1]
    OBVIOUS
  <2> HIDE DEF m, l
  <2> QED BY <1>3, <2>1 DEF IsThread
<1>6. IsThread(n) /\ n.units = r.units
  <2>1. n = [m EXCEPT !.request = r, !.units = r.units, !.reply = Nil]
    OBVIOUS
  <2> HIDE DEF n, m
  <2> QED BY <1>5, <2>1 DEF IsThread
<1>7. UNCHANGED <<ttl_keys, mailbox, replies, dictionary>>
  BY DEF Begin, ttlVars
<1>8. \A d \in Clients \ {c} : local'[d] = local[d]
  BY <1>1, <1>4 DEF Moves
<1>9. ~Busy(c)
  BY <1>1 DEF Busy
<1> HIDE DEF n, m, l
<1>10. /\ Spared(local'[c], ks) /\ ~Awaits(local'[c]) /\ Begins(local'[c])
       /\ local'[c].units = r.units
       /\ local'[c].units # <<>> => local'[c].pc = FirstStep(Head(local'[c].units))
  <2>1. CASE r.units = <<>>
    <3>1. local'[c] = Idle(r, CombinedReply(r.name, <<>>), m.left)
      BY <1>1, <1>4, <2>1 DEF Moves
    <3> QED BY <2>1, <3>1, IdleFields DEF Begins
  <2>2. CASE r.units # <<>>
    <3>1. local'[c] = Enter(n)
      BY <1>1, <1>4, <2>2 DEF Moves, n
    <3>2. \A w : IsThread(w) => /\ Enter(w).units = w.units /\ Begins(Enter(w))
                                /\ Spared(Enter(w), ks) /\ ~Awaits(Enter(w))
      BY Entered DEF Begins
    <3>3. \A w : IsThread(w) => Enter(w).pc = FirstStep(Head(w.units))
      BY DEF Enter, Goto, IsThread
    <3> QED BY <1>6, <3>1, <3>2, <3>3
  <2> QED BY <2>1, <2>2
<1>11. OwnStep(c, ks)
  BY <1>7, <1>8, <1>10 DEF OwnStep, Elsewhere
<1> QED BY <1>7, <1>9, <1>10, <1>11

-----------------------------------------------------------------------------
(* The supervisor and the executors give such a key no time, and spare it *)

Spares(ks) == \A k \in ks : Lookup(dictionary', k) = Lookup(dictionary, k)

\* Writing one key leaves what is under the others.
LEMMA WrittenElsewhere ==
    ASSUME NEW d \in Dictionaries, NEW home \in Keys, NEW j \in Keys, NEW k \in Keys, NEW v
    PROVE  /\ j # k => Lookup(InsertInShardOf(d, home, j, v), k) = Lookup(d, k)
           /\ j # k => Lookup(insert(d, j, v), k) = Lookup(d, k)
           /\ j # k => Lookup(remove(d, j), k) = Lookup(d, k)
           /\ Lookup(insert(d, k, v), k) = v
<1>1. hash_funcion[home] \in Shards /\ hash_funcion[k] \in Shards /\ hash_funcion[j] \in Shards
  BY HashShardAssumption
<1>2. d \in [Shards -> [Keys -> Cells]]
  BY DEF Dictionaries, Cells
<1>3. ASSUME NEW s \in Shards, NEW x
      PROVE  /\ j # k => [d EXCEPT ![s][j] = x][hash_funcion[k]][k] = d[hash_funcion[k]][k]
             /\ [d EXCEPT ![hash_funcion[k]][k] = x][hash_funcion[k]][k] = x
  BY <1>1, <1>2
<1> QED BY <1>1, <1>3 DEF Lookup, InsertInShardOf, insert, remove

LEMMA MachineryKept ==
    ASSUME NEW ks, TimelessInv(ks), UNCHANGED local, ttl_keys' \in Seq(OthersThan(ks)),
           UNCHANGED mailbox \/ (mailbox # <<>> /\ mailbox' = Tail(mailbox)),
           \A c \in Clients : replies'[c] = replies[c] \/ (NoTimeFor(c, ks) => replies'[c].type # "Ttl")
    PROVE  TimelessInv(ks)'
<1>1. mailbox' \in Seq(SparingMessages(ks))
  BY HeadTailProperties DEF TimelessInv
<1>2. ASSUME NEW c \in Clients, Awaits(local'[c]), LookedUp(local'[c]) \in ks
      PROVE  NoTimeFor(c, ks)'
  <2>1. NoTimeFor(c, ks)
    BY <1>2 DEF TimelessInv
  <2>2. mailbox' \in Seq(Questions(c, ks))
    BY <2>1, HeadTailProperties DEF NoTimeFor
  <2> QED BY <2>1, <2>2 DEF NoTimeFor
<1>3. \A c \in Clients : Spared(local'[c], ks)
  BY DEF TimelessInv
<1> QED BY <1>1, <1>2, <1>3 DEF TimelessInv

\* The message at hand gives none of these keys a time.
LEMMA MessageAtHand ==
    ASSUME NEW ks, TimelessInv(ks), NEW t, Receive(t)
    PROVE  /\ Head(mailbox) \in MessageTtl /\ Sparing(Head(mailbox), ks) /\ Head(mailbox).type = t
           /\ mailbox # <<>> /\ mailbox' = Tail(mailbox)
           /\ \A c \in Clients : NoTimeFor(c, ks) => Head(mailbox) \in Questions(c, ks)
<1>1. Head(mailbox) \in SparingMessages(ks)
  BY HeadTailProperties DEF TimelessInv, Receive
<1>2. \A c \in Clients : NoTimeFor(c, ks) => Head(mailbox) \in Questions(c, ks)
  BY HeadTailProperties DEF NoTimeFor, Receive
<1> QED BY <1>1, <1>2 DEF Receive, SparingMessages

LEMMA OthersWithEntry ==
    ASSUME NEW ks, NEW v \in Seq(OthersThan(ks)), NEW e \in OthersThan(ks), NEW w \in WithEntry(v, e)
    PROVE  w \in Seq(OthersThan(ks))
<1>1. Len(v) \in Nat /\ DOMAIN v = 1..Len(v)
  BY LenProperties
<1>2. ASSUME NEW p \in DOMAIN v, w = ReplaceAt(v, p, e) PROVE w \in Seq(OthersThan(ks))
  BY <1>2, ReplaceAtType
<1>3. CASE HasEntry(v, e.key)
  BY <1>2, <1>3 DEF WithEntry, PositionOf
<1>4. CASE ~HasEntry(v, e.key)
  <2>1. CASE \E p \in FoundAt(v, e.expire_time) : w = ReplaceAt(v, p, e)
    BY <1>2, <2>1 DEF FoundAt
  <2>2. CASE \E p \in InsertionPoints(v, e.expire_time) : w = InsertAt(v, p, e)
    <3>1. PICK p \in 1..(Len(v) + 1) : w = InsertAt(v, p, e)
      BY <2>2 DEF InsertionPoints
    <3> QED BY <3>1, InsertAtType
  <2> QED BY <1>4, <2>1, <2>2 DEF WithEntry
<1> QED BY <1>3, <1>4

LEMMA HandleExpireTimeless ==
    ASSUME NEW ks, TimelessInv(ks), UNCHANGED local, HandleExpire
    PROVE  TimelessInv(ks)'
<1> DEFINE m == Head(mailbox)
           e == [key |-> m.key, expire_time |-> m.expire_time]
<1>1. /\ m \in MessageTtl /\ Sparing(m, ks) /\ m.type = "Expire"
      /\ mailbox # <<>> /\ mailbox' = Tail(mailbox)
  BY MessageAtHand DEF HandleExpire
<1>2. e \in OthersThan(ks)
  BY <1>1 DEF MessageTtl, Sparing, OthersThan, KeyTtl
<1>3. ttl_keys' \in WithEntry(ttl_keys, e) /\ UNCHANGED replies
  BY DEF HandleExpire
<1> HIDE DEF m, e
<1>4. ttl_keys' \in Seq(OthersThan(ks))
  BY <1>2, <1>3, OthersWithEntry DEF TimelessInv
<1> QED BY <1>1, <1>3, <1>4, MachineryKept

LEMMA HandleClearTimeless ==
    ASSUME NEW ks, TimelessInv(ks), UNCHANGED local, HandleClear
    PROVE  TimelessInv(ks)'
<1>1. mailbox # <<>> /\ mailbox' = Tail(mailbox)
  BY MessageAtHand DEF HandleClear
<1>2. ttl_keys' \in Seq(OthersThan(ks))
  BY RemoveAtType DEF TimelessInv, HandleClear, PositionOf
<1>3. UNCHANGED replies
  BY DEF HandleClear
<1> QED BY <1>1, <1>2, <1>3, MachineryKept

\* RENAME gives one of these keys what another of them has: no time.
LEMMA HandleTransferTimeless ==
    ASSUME NEW ks, TimelessInv(ks), UNCHANGED local, HandleTransfer
    PROVE  TimelessInv(ks)'
<1> DEFINE m == Head(mailbox)
<1>1. /\ m \in MessageTtl /\ Sparing(m, ks) /\ m.type = "Transfer"
      /\ mailbox # <<>> /\ mailbox' = Tail(mailbox)
  BY MessageAtHand DEF HandleTransfer
<1>2. m.to_key \in Keys /\ (m.to_key \in ks => m.key \in ks)
  BY <1>1 DEF MessageTtl, Sparing
<1>3. ASSUME NEW i \in PositionOf(ttl_keys, m.key),
             ttl_keys' = ReplaceAt(ttl_keys, i, Renamed(ttl_keys[i], m.to_key))
      PROVE  ttl_keys' \in Seq(OthersThan(ks))
  <2>1. i \in DOMAIN ttl_keys /\ ttl_keys[i].key = m.key /\ ttl_keys \in Seq(OthersThan(ks))
    BY DEF PositionOf, TimelessInv
  <2>2. ttl_keys[i] \in OthersThan(ks)
    BY <2>1, ElementOfSeq, LenProperties
  <2>3. Renamed(ttl_keys[i], m.to_key) \in OthersThan(ks)
    BY <1>2, <2>1, <2>2 DEF Renamed, OthersThan, KeyTtl
  <2> QED BY <1>3, <2>1, <2>3, ReplaceAtType
<1>4. ttl_keys' \in Seq(OthersThan(ks)) /\ UNCHANGED replies
  BY <1>3 DEF HandleTransfer, TimelessInv
<1> QED BY <1>1, <1>4, MachineryKept

\* Who asks about one of them is told that it has no time.
LEMMA HandleTtlTimeless ==
    ASSUME NEW ks, DbIInv, TimelessInv(ks), UNCHANGED local, HandleTtl
    PROVE  TimelessInv(ks)'
<1> DEFINE m == Head(mailbox)
<1>1. /\ m \in MessageTtl /\ m.type = "Ttl" /\ mailbox # <<>> /\ mailbox' = Tail(mailbox)
      /\ \A c \in Clients : NoTimeFor(c, ks) => m \in Questions(c, ks)
  BY MessageAtHand DEF HandleTtl
<1>2. m.sender \in Requesters /\ replies \in [Requesters -> RespondTtl] /\ Clients \subseteq Requesters
  BY <1>1, DatabaseAssumption DEF MessageTtl, DbIInv, IInv, TypeOK
<1>3. UNCHANGED ttl_keys /\ ttl_keys \in Seq(OthersThan(ks))
  BY DEF HandleTtl, TimelessInv
<1>4. ASSUME NEW c \in Clients, NoTimeFor(c, ks)
      PROVE  replies'[c] = replies[c] \/ replies'[c].type # "Ttl"
  <2>1. CASE m.sender # c
    BY <1>2, <2>1 DEF HandleTtl
  <2>2. CASE m.sender = c
    <3>1. m.key \in ks
      BY <1>1, <1>4, <2>2 DEF Questions
    <3>2. PositionOf(ttl_keys, m.key) = {}
      BY <1>3, <3>1, NoEntry
    <3>3. replies' = [replies EXCEPT ![m.sender] = AnswerPersistent]
      BY <3>2 DEF HandleTtl
    <3> QED BY <1>2, <2>2, <3>3 DEF AnswerPersistent
  <2> QED BY <2>1, <2>2
<1> HIDE DEF m
<1> QED BY <1>1, <1>3, <1>4, MachineryKept

LEMMA HandleAllTtLTimeless ==
    ASSUME NEW ks, DbIInv, TimelessInv(ks), UNCHANGED local, HandleAllTtL
    PROVE  TimelessInv(ks)'
<1> DEFINE m == Head(mailbox)
<1>1. m \in MessageTtl /\ m.type = "AllTtL" /\ mailbox # <<>> /\ mailbox' = Tail(mailbox)
  BY MessageAtHand DEF HandleAllTtL
<1>2. m.sender \in Requesters /\ replies \in [Requesters -> RespondTtl] /\ Clients \subseteq Requesters
  BY <1>1, DatabaseAssumption DEF MessageTtl, DbIInv, IInv, TypeOK
<1>3. /\ UNCHANGED ttl_keys /\ ttl_keys \in Seq(OthersThan(ks))
      /\ replies' = [replies EXCEPT ![m.sender] = AnswerList]
  BY DEF HandleAllTtL, TimelessInv
<1>4. \A c \in Clients : replies'[c] = replies[c] \/ replies'[c].type # "Ttl"
  BY <1>2, <1>3 DEF AnswerList
<1> HIDE DEF m
<1> QED BY <1>1, <1>3, <1>4, MachineryKept

\* Only a key with an entry is removed: none of these.
LEMMA HandleCheckTimeless ==
    ASSUME NEW ks, ks \subseteq Keys, DbIInv, TimelessInv(ks), UNCHANGED local, HandleCheck
    PROVE  TimelessInv(ks)' /\ Spares(ks)
<1> DEFINE m == Head(mailbox)
<1>1. m \in MessageTtl /\ m.type = "Check" /\ mailbox # <<>> /\ mailbox' = Tail(mailbox)
  BY MessageAtHand DEF HandleCheck
<1>2. m.key \in Keys /\ dictionary \in Dictionaries
  BY <1>1 DEF MessageTtl, DbIInv, IInv, TypeOK
<1>3. ttl_keys \in Seq(OthersThan(ks)) /\ UNCHANGED replies
  BY DEF HandleCheck, TimelessInv
<1>4. ttl_keys' \in Seq(OthersThan(ks))
  BY <1>3, RemoveAtType DEF HandleCheck, PositionOf
<1>5. Spares(ks)
  <2>1. CASE UNCHANGED dictionary
    BY <2>1 DEF Spares
  <2>2. ASSUME NEW i \in PositionOf(ttl_keys, m.key), dictionary' = remove(dictionary, m.key)
        PROVE  Spares(ks)
    <3>1. m.key \notin ks
      BY <1>3, <2>2, NoEntry
    <3> QED BY <1>2, <2>2, <3>1, WrittenElsewhere DEF Spares
  <2> QED BY <2>1, <2>2 DEF HandleCheck
<1> HIDE DEF m
<1> QED BY <1>1, <1>3, <1>4, <1>5, MachineryKept

LEMMA ExecutorRemoveTimeless ==
    ASSUME NEW ks, ks \subseteq Keys, DbIInv, TimelessInv(ks), UNCHANGED local, ExecutorRemove
    PROVE  TimelessInv(ks)' /\ Spares(ks)
<1>1. ttl_keys \in Seq(OthersThan(ks)) /\ ttl_keys # <<>> /\ UNCHANGED <<mailbox, replies>>
  BY DEF ExecutorRemove, TimelessInv
<1>2. Head(ttl_keys) \in OthersThan(ks) /\ ttl_keys' \in Seq(OthersThan(ks))
  BY <1>1, HeadTailProperties DEF ExecutorRemove
<1>3. Spares(ks)
  <2>1. Head(ttl_keys).key \in Keys /\ Head(ttl_keys).key \notin ks
    BY <1>2 DEF OthersThan, KeyTtl
  <2>2. dictionary \in Dictionaries
    BY DEF DbIInv, IInv, TypeOK
  <2>3. dictionary' = remove(dictionary, Head(ttl_keys).key)
    BY DEF ExecutorRemove
  <2> QED BY <2>1, <2>2, <2>3, WrittenElsewhere DEF Spares
<1>4. UNCHANGED mailbox /\ \A c \in Clients : replies'[c] = replies[c]
  BY <1>1
<1> QED BY <1>2, <1>3, <1>4, MachineryKept

LEMMA QuietTimeless ==
    ASSUME NEW ks, TimelessInv(ks), UNCHANGED <<local, ttl_keys, mailbox, replies>>
    PROVE  TimelessInv(ks)'
<1>1. ttl_keys' \in Seq(OthersThan(ks))
  BY DEF TimelessInv
<1>2. UNCHANGED mailbox /\ \A c \in Clients : replies'[c] = replies[c]
  OBVIOUS
<1> QED BY <1>1, <1>2, MachineryKept

LEMMA MachineryTimeless ==
    ASSUME NEW ks, ks \subseteq Keys, DbIInv, TimelessInv(ks), UNCHANGED local,
           Supervisor \/ Executor \/ Tick
    PROVE  TimelessInv(ks)' /\ Spares(ks)
<1>1. CASE HandleExpire \/ HandleClear \/ HandleTransfer \/ HandleTtl \/ HandleAllTtL
  <2>1. UNCHANGED dictionary
    BY <1>1 DEF HandleExpire, HandleClear, HandleTransfer, HandleTtl, HandleAllTtL
  <2> QED BY <1>1, <2>1, HandleExpireTimeless, HandleClearTimeless, HandleTransferTimeless,
             HandleTtlTimeless, HandleAllTtLTimeless DEF Spares
<1>2. CASE ExecutorWake \/ ExecutorSleep \/ ExecutorExit \/ Tick
  <2>1. UNCHANGED <<ttl_keys, mailbox, replies, dictionary>>
    BY <1>2 DEF ExecutorWake, ExecutorSleep, ExecutorExit, Tick
  <2> QED BY <2>1, QuietTimeless DEF Spares
<1> QED BY <1>1, <1>2, HandleCheckTimeless, ExecutorRemoveTimeless DEF Supervisor, Executor, Sweep

-----------------------------------------------------------------------------
(* So they never have a time *)

LEMMA TimelessInit ==
    ASSUME NEW ks, DbInit
    PROVE  TimelessInv(ks)
<1>1. /\ ttl_keys = <<>> /\ mailbox = <<>>
      /\ local = [c \in Clients |-> Idle(NoRequest, Nil, MaxRequests)]
  BY DEF DbInit, Init
<1>2. \A c \in Clients : Spared(local[c], ks) /\ ~Awaits(local[c])
  BY <1>1, IdleFields
<1> QED BY <1>1, <1>2 DEF TimelessInv

LEMMA TimelessNext ==
    ASSUME NEW ks, ks \subseteq Keys, GivesNoTime(ks), DbIInv, TimelessInv(ks), [DbNext]_dbVars
    PROVE  TimelessInv(ks)'
<1>1. CASE UNCHANGED dbVars
  BY <1>1, QuietTimeless DEF dbVars, ttlVars
<1>2. ASSUME NEW c \in Clients, Begin(c) \/ Client(c) PROVE TimelessInv(ks)'
  <2>1. OwnStep(c, ks)
    BY <1>2, BeginOwn, ClientOwn
  <2> QED BY <2>1, OwnStepKept
<1>3. CASE (Supervisor \/ Executor \/ Tick) /\ UNCHANGED local
  BY <1>3, MachineryTimeless
<1> QED BY <1>1, <1>2, <1>3 DEF DbNext

\* Neither the supervisor nor an executor takes away an entry whose key the
\* requests give no time, neither with EXPIRE nor by a RENAME of another key to
\* it: lazy expiry and the sweeps remove keys with an entry in the vector, and
\* such a key never gets one.
THEOREM TimelessKeysStay ==
    ASSUME NEW ks \in SUBSET Keys, GivesNoTime(ks)
    PROVE  DbSpec => [][(Supervisor \/ Executor) /\ UNCHANGED local => Spares(ks)]_dbVars
<1>1. DbInit => TimelessInv(ks)
  BY TimelessInit
<1>2. DbIInv /\ TimelessInv(ks) /\ [DbNext]_dbVars => TimelessInv(ks)'
  BY TimelessNext
<1>3. DbIInv /\ TimelessInv(ks) => [(Supervisor \/ Executor) /\ UNCHANGED local => Spares(ks)]_dbVars
  BY MachineryTimeless
<1> QED BY <1>1, <1>2, <1>3, DbInductive, PTL DEF DbSpec

-----------------------------------------------------------------------------
(* What the readers of such keys have seen *)

\* A thread that reads one of these keys.
Reading(c, ks) == Busy(c) /\ Unit(c).op \in Reads /\ Unit(c).key \in ks

\* What a reader has noted of its key is still to be found in what has been seen
\* since its unit began: whether it was there, and what it held.
NotedSeen(l, s) ==
    LET u == Head(l.units)
    IN  /\ l.pc \in {"ask", "answer"} /\ ~l.contains => ReplyToMissing(u) \in s
        /\ l.pc \in {"ask", "answer"} /\ l.contains /\ u.op = "exists" => Boolean(TRUE) \in s
        /\ l.pc \in {"ask", "answer"} /\ l.contains /\ u.op = "ttl" => Integer(-1) \in s
        /\ l.pc \in {"ask_again", "answer_again"} => Integer(-1) \in s
        /\ l.pc = "remove" => get(l.saved).reply \in s
        /\ l.pc = "send" => u.op = "getdel"

SeenInv(ks) ==
    /\ DOMAIN deadline = Keys /\ \A k \in ks : deadline[k] = Persistent
    /\ \A c \in Clients : Reading(c, ks) => /\ AtomicReply(Unit(c)) \in seen[c]
                                            /\ NotedSeen(local[c], seen[c])

\* What the commands find when there is nothing is what they reply when they
\* are told so.
LEMMA AbsentEffect ==
    ASSUME NEW u, u.op \in Reads \ {"exists", "ttl"}
    PROVE  EffectOn(Absent, u).reply = ReplyToMissing(u)
<1>1. \A v, r : Leaves(v, r).reply = r
  BY DEF Leaves
<1>2. get(Absent).reply = Nil /\ strlen(Absent).reply = Nil /\ get_type(Absent).reply = TypeName("none")
  BY <1>1 DEF get, strlen, LengthReply, Nil, get_type
<1>3. /\ \A i : lindex(Absent, i).reply = Nil
      /\ llen(Absent).reply = Integer(0)
      /\ \A i, e : lrange(Absent, i, e).reply = Texts_(<<>>)
  BY <1>1 DEF lindex, llen, lrange, NotAList, IsList
<1>4. /\ \A t : sismember(Absent, t).reply = Boolean(FALSE)
      /\ scard(Absent).reply = Boolean(FALSE)
      /\ smembers(Absent).reply = Texts_(<<>>)
  BY <1>1 DEF sismember, scard, smembers, NotASet, IsSet
<1>5. u.op \in {"get", "getdel", "strlen", "type", "lindex", "llen", "lrange", "sismember", "scard",
                "smembers"}
  BY DEF Reads
<1>6. CASE u.op \in {"get", "getdel", "strlen", "type"}
  BY <1>2, <1>6 DEF EffectOn, ReplyToMissing
<1>7. CASE u.op \in {"lindex", "llen", "lrange"}
  BY <1>3, <1>7 DEF EffectOn, ReplyToMissing
<1>8. CASE u.op \in {"sismember", "scard", "smembers"}
  BY <1>4, <1>8 DEF EffectOn, ReplyToMissing
<1> QED BY <1>5, <1>6, <1>7, <1>8

\* The reply of a read of a key without a time, executed in one step.
LEMMA TimelessReply ==
    ASSUME NEW u, u.op \in Reads, deadline[u.key] = Persistent
    PROVE  /\ Lookup(dictionary, u.key) = Absent => AtomicReply(u) = ReplyToMissing(u)
           /\ Lookup(dictionary, u.key) # Absent /\ u.op = "exists" => AtomicReply(u) = Boolean(TRUE)
           /\ Lookup(dictionary, u.key) # Absent /\ u.op = "ttl" => AtomicReply(u) = Integer(-1)
           /\ u.op \notin {"exists", "ttl"}
                  => AtomicReply(u) = EffectOn(Lookup(dictionary, u.key), u).reply
<1> DEFINE v == Lookup(dictionary, u.key)
<1>1. Alive(u.key) <=> v # Absent
  BY DEF Alive, contains_key
<1>2. CASE u.op = "exists"
  <2>1. AtomicReply(u) = Boolean(Alive(u.key)) /\ ReplyToMissing(u) = Boolean(FALSE)
    BY <1>2 DEF AtomicReply, ReplyToMissing
  <2>2. CASE v = Absent
    <3>0. Alive(u.key) = FALSE
      BY <1>1, <2>2 DEF Alive
    <3>1. Boolean(Alive(u.key)) = Boolean(FALSE)
      BY <3>0
    <3> QED BY <1>2, <2>1, <2>2, <3>1
  <2>3. CASE v # Absent
    <3>0. Alive(u.key) = TRUE
      BY <1>1, <2>3 DEF Alive
    <3>1. Boolean(Alive(u.key)) = Boolean(TRUE)
      BY <3>0
    <3> QED BY <1>2, <2>1, <2>3, <3>1
  <2> QED BY <2>2, <2>3
<1>3. CASE u.op = "ttl"
  BY <1>1, <1>3 DEF AtomicReply
<1>4. CASE u.op \notin {"exists", "ttl"}
  <2>1. v = Absent => EffectOn(v, u).reply = ReplyToMissing(u)
    BY <1>4, AbsentEffect
  <2> QED BY <1>1, <1>4, <2>1 DEF AtomicReply
<1> QED BY <1>2, <1>3, <1>4

LEMMA NotedMore ==
    ASSUME NEW l, NEW s, NEW t, NotedSeen(l, s), s \subseteq t
    PROVE  NotedSeen(l, t)
BY DEF NotedSeen

\* A unit that begins has noted nothing.
LEMMA BeginsNoted ==
    ASSUME NEW l, NEW s, Begins(l), Head(l.units).op \in Reads
    PROVE  NotedSeen(l, s)
BY DEF Begins, FirstStep, NotedSeen, Reads

-----------------------------------------------------------------------------
(* The steps of a reader *)

\* It ends with a reply that has been seen, or goes on with what it has noted.
ReadStep(c) ==
    \/ \E r \in seen[c] : local'[c] = Finish(local[c], r)
    \/ local'[c].units = local[c].units /\ NotedSeen(local'[c], seen[c])

LEMMA ReaderAt ==
    ASSUME NEW ks \in SUBSET Keys, GivesNoTime(ks), DbIInv, SeenInv(ks), NEW c \in Clients, Reading(c, ks)
    PROVE  /\ HasUnits(local[c]) /\ IsThread(local[c]) /\ DOMAIN local = Clients
           /\ Unit(c) = Head(local[c].units)
           /\ Unit(c).op \in Reads /\ Unit(c).key \in ks
           /\ deadline[Unit(c).key] = Persistent /\ LookedUp(local[c]) = Unit(c).key
           /\ AtomicReply(Unit(c)) \in seen[c] /\ NotedSeen(local[c], seen[c])
           /\ IsAt(local[c].pc, Unit(c))
<1>1. local[c].pc # "idle" /\ At(c, local[c].pc)
  BY DEF Reading, Busy, At
<1>2. HasUnits(local[c]) /\ IsThread(local[c]) /\ Unit(c) = Head(local[c].units) /\ IsAt(local[c].pc, Unit(c))
  BY <1>1, UnitAt
<1>3. Unit(c).op \in Reads /\ Unit(c).key \in ks
  BY DEF Reading
<1>4. LookedUp(local[c]) = Unit(c).key
  BY <1>2, <1>3 DEF LookedUp, Reads
<1> QED BY <1>2, <1>3, <1>4 DEF SeenInv, DbIInv

\* The fields a thread keeps on its way.
LEMMA GotoFields ==
    ASSUME NEW l, IsThread(l), NEW pc
    PROVE  /\ Goto(l, pc).pc = pc /\ Goto(l, pc).units = l.units
           /\ Goto(l, pc).contains = l.contains /\ Goto(l, pc).saved = l.saved
           /\ IsThread(Goto(l, pc))
<1> DEFINE m == Goto(l, pc)
<1>1. m = [l EXCEPT !.pc = pc]
  BY DEF Goto
<1> HIDE DEF m
<1>2. m.pc = pc /\ m.units = l.units /\ m.contains = l.contains /\ m.saved = l.saved /\ IsThread(m)
  BY <1>1 DEF IsThread
<1> QED BY <1>2 DEF m

LEMMA ContainsKeyReads ==
    ASSUME NEW ks \in SUBSET Keys, GivesNoTime(ks), DbIInv, SeenInv(ks), NEW c \in Clients, Reading(c, ks),
           ContainsKey(c)
    PROVE  ReadStep(c)
<1> DEFINE l == local[c]
           u == Unit(c)
           found == contains_key(dictionary, u.key)
           g == Goto(l, "ask")
           m == [g EXCEPT !.contains = found]
<1>1. /\ IsThread(l) /\ DOMAIN local = Clients /\ u = Head(l.units) /\ u.op \in Reads
      /\ deadline[u.key] = Persistent /\ AtomicReply(u) \in seen[c] /\ LookedUp(l) = u.key
  BY ReaderAt
<1>2. local' = [local EXCEPT ![c] = m]
  BY <1>1 DEF ContainsKey, Moves
<1>3. m.pc = "ask" /\ m.contains = found /\ m.units = l.units
  <2>1. IsThread(g) /\ g.pc = "ask" /\ g.units = l.units
    BY <1>1, GotoFields
  <2>2. m = [g EXCEPT !.contains = found]
    OBVIOUS
  <2> HIDE DEF m, g, found
  <2> QED BY <2>1, <2>2 DEF IsThread
<1> HIDE DEF m
<1>4. local'[c] = m
  BY <1>1, <1>2
<1>5. /\ ~found => AtomicReply(u) = ReplyToMissing(u)
      /\ found /\ u.op = "exists" => AtomicReply(u) = Boolean(TRUE)
      /\ found /\ u.op = "ttl" => AtomicReply(u) = Integer(-1)
  BY <1>1, TimelessReply DEF contains_key
<1> HIDE DEF found, u, l
<1>6. NotedSeen(m, seen[c])
  BY <1>1, <1>3, <1>5 DEF NotedSeen
<1> QED BY <1>3, <1>4, <1>6 DEF ReadStep, l

LEMMA AskTtlReads ==
    ASSUME NEW ks \in SUBSET Keys, GivesNoTime(ks), DbIInv, SeenInv(ks), NEW c \in Clients, Reading(c, ks),
           AskTtl(c)
    PROVE  ReadStep(c)
<1> DEFINE l == local[c]
<1>1. IsThread(l) /\ DOMAIN local = Clients /\ NotedSeen(l, seen[c])
  BY ReaderAt
<1>2. PICK pc : /\ local' = [local EXCEPT ![c] = Goto(l, pc)]
                /\ \/ l.pc = "ask" /\ pc = "answer"
                   \/ l.pc = "ask_again" /\ pc = "answer_again"
  BY DEF AskTtl, Moves, At
<1> DEFINE m == Goto(l, pc)
<1>3. m.pc = pc /\ m.units = l.units /\ m.contains = l.contains
  BY <1>1, GotoFields
<1>4. local'[c] = m
  BY <1>1, <1>2
<1> HIDE DEF m, l
<1>5. NotedSeen(m, seen[c])
  BY <1>1, <1>2, <1>3 DEF NotedSeen
<1> QED BY <1>3, <1>4, <1>5 DEF ReadStep, l

\* It is told that the key has no time.
LEMMA DecideReads ==
    ASSUME NEW ks \in SUBSET Keys, GivesNoTime(ks), DbIInv, TimelessInv(ks), SeenInv(ks), NEW c \in Clients,
           Reading(c, ks), Decide(c)
    PROVE  ReadStep(c)
<1> DEFINE l == local[c]
           u == Unit(c)
           exists == l.contains /\ ~IsPast(replies[c])
<1>1. /\ IsThread(l) /\ DOMAIN local = Clients /\ u = Head(l.units) /\ u.op \in Reads
      /\ NotedSeen(l, seen[c]) /\ LookedUp(l) \in ks
  BY ReaderAt
<1>2. l.pc = "answer" /\ local' = [local EXCEPT ![c] = AfterExists(l, exists)]
  BY DEF Decide, Moves, At
<1>3. ~IsPast(replies[c])
  BY <1>1, <1>2 DEF TimelessInv, Awaits, NoTimeFor, IsPast
<1>4. /\ ~l.contains => ReplyToMissing(u) \in seen[c]
      /\ l.contains /\ u.op = "exists" => Boolean(TRUE) \in seen[c]
      /\ l.contains /\ u.op = "ttl" => Integer(-1) \in seen[c]
  BY <1>1, <1>2 DEF NotedSeen
<1>5. local'[c] = AfterExists(l, exists)
  BY <1>1, <1>2
<1> HIDE DEF l, exists
<1>6. exists <=> l.contains
  BY <1>3 DEF exists
<1>7. CASE u.op = "exists"
  <2>0. ASSUME NEW b PROVE AfterExists(l, b) = Finish(l, Boolean(b))
    <3>1. /\ u.op # "copy" /\ u.op \notin Upserts \cup {"decrby"} /\ u.op \in Upserts \cup {"decrby", "exists"}
          /\ u.op \notin {"ttl", "persist", "expire", "expireat"}
      BY <1>7 DEF Upserts
    <3> QED BY <1>1, <1>7, <3>1, Zenon DEF AfterExists
  <2>1. exists \in BOOLEAN
    BY DEF exists
  <2>2. CASE exists = TRUE
    <3>1. AfterExists(l, TRUE) = Finish(l, Boolean(TRUE))
      BY <2>0
    <3> QED BY <1>4, <1>5, <1>6, <1>7, <2>2, <3>1 DEF ReadStep, l
  <2>3. CASE exists = FALSE
    <3>1. AfterExists(l, FALSE) = Finish(l, Boolean(FALSE))
      BY <2>0
    <3>2. ReplyToMissing(u) = Boolean(FALSE)
      BY <1>7 DEF ReplyToMissing
    <3> QED BY <1>4, <1>5, <1>6, <2>3, <3>1, <3>2 DEF ReadStep, l
  <2> QED BY <2>1, <2>2, <2>3
<1>8. CASE u.op # "exists" /\ ~exists
  <2>1. AfterExists(l, exists) = Finish(l, ReplyToMissing(u))
    BY <1>1, <1>8 DEF AfterExists, Upserts, Reads
  <2> QED BY <1>4, <1>5, <1>6, <1>8, <2>1 DEF ReadStep, l
<1>9. CASE u.op # "exists" /\ exists
  <2>1. PICK pc \in {"ask_again", "effect"} :
            AfterExists(l, exists) = Goto(l, pc) /\ (pc = "ask_again" => u.op = "ttl")
    <3>1. CASE u.op = "ttl"
      <4>1. AfterExists(l, exists) = Goto(l, "ask_again")
        BY <1>1, <1>9, <3>1 DEF AfterExists, Upserts
      <4> QED BY <3>1, <4>1
    <3>2. CASE u.op # "ttl"
      <4>1. AfterExists(l, exists) = Goto(l, "effect")
        BY <1>1, <1>9, <3>2 DEF AfterExists, Upserts, Reads
      <4> QED BY <4>1
    <3> QED BY <3>1, <3>2
  <2> DEFINE m == Goto(l, pc)
  <2>2. m.pc = pc /\ m.units = l.units
    BY <1>1, GotoFields
  <2>3. local'[c] = m
    BY <1>5, <2>1
  <2> HIDE DEF m, u
  <2>4. NotedSeen(m, seen[c])
    BY <1>1, <1>4, <1>6, <1>9, <2>1, <2>2 DEF NotedSeen
  <2> QED BY <2>2, <2>3, <2>4 DEF ReadStep, l
<1> QED BY <1>7, <1>8, <1>9

LEMMA AnswerReads ==
    ASSUME NEW ks \in SUBSET Keys, GivesNoTime(ks), DbIInv, TimelessInv(ks), SeenInv(ks), NEW c \in Clients,
           Reading(c, ks), AnswerTtlCommand(c)
    PROVE  ReadStep(c)
<1> DEFINE l == local[c]
<1>1. /\ DOMAIN local = Clients /\ NotedSeen(l, seen[c]) /\ LookedUp(l) \in ks
  BY ReaderAt
<1>2. l.pc = "answer_again"
  BY DEF AnswerTtlCommand, At
<1>3. replies[c].type # "Ttl"
  BY <1>1, <1>2 DEF TimelessInv, Awaits, NoTimeFor
<1>4. local' = [local EXCEPT ![c] = Finish(l, Integer(-1))]
  BY <1>3 DEF AnswerTtlCommand, IsPast, Moves
<1>5. local'[c] = Finish(l, Integer(-1))
  BY <1>1, <1>4
<1>6. Integer(-1) \in seen[c]
  BY <1>1, <1>2 DEF NotedSeen
<1> QED BY <1>5, <1>6 DEF ReadStep

\* What is read under the lock is what an atomic execution reads now.
LEMMA LockedEffectReads ==
    ASSUME NEW ks \in SUBSET Keys, GivesNoTime(ks), DbIInv, SeenInv(ks), NEW c \in Clients, Reading(c, ks),
           LockedEffect(c)
    PROVE  ReadStep(c)
<1> DEFINE l == local[c]
           u == Unit(c)
           v == Lookup(dictionary, u.key)
           e == EffectOn(v, u)
<1>1. /\ IsThread(l) /\ DOMAIN local = Clients /\ u = Head(l.units) /\ u.op \in Reads
      /\ deadline[u.key] = Persistent /\ AtomicReply(u) \in seen[c] /\ IsAt(l.pc, u)
  BY ReaderAt
<1>2. l.pc = "effect" /\ local' = [local EXCEPT ![c] = AfterEffect(l, v, e.reply)]
  BY DEF LockedEffect, Moves, At
<1>3. u.op \notin {"exists", "ttl"}
  BY <1>1, <1>2 DEF IsAt, OnEntry, OnKeys
<1>4. e.reply \in seen[c]
  BY <1>1, <1>3, TimelessReply
<1>5. local'[c] = AfterEffect(l, v, e.reply)
  BY <1>1, <1>2
<1>6. CASE u.op = "getdel" /\ e.reply.type = "Text"
  <2> DEFINE g == Goto(l, "remove")
             m == [g EXCEPT !.saved = v]
  <2>1. e.reply = get(v).reply
    BY <1>6 DEF EffectOn
  <2>2. AfterEffect(l, v, e.reply) = m
    BY <1>1, <1>6 DEF AfterEffect
  <2>3. m.pc = "remove" /\ m.units = l.units /\ m.saved = v
    <3>1. IsThread(g) /\ g.pc = "remove" /\ g.units = l.units
      BY <1>1, GotoFields
    <3>2. m = [g EXCEPT !.saved = v]
      OBVIOUS
    <3> HIDE DEF m, g, v
    <3> QED BY <3>1, <3>2 DEF IsThread
  <2> HIDE DEF m, e, v
  <2>4. NotedSeen(m, seen[c])
    BY <1>4, <2>1, <2>3 DEF NotedSeen
  <2> QED BY <1>5, <2>2, <2>3, <2>4 DEF ReadStep
<1>7. CASE ~(u.op = "getdel" /\ e.reply.type = "Text")
  <2>1. AfterEffect(l, v, e.reply) = Finish(l, e.reply)
    <3> HIDE DEF e, v
    <3> QED BY <1>1, <1>7 DEF AfterEffect, Reads
  <2> QED BY <1>4, <1>5, <2>1 DEF ReadStep
<1> QED BY <1>6, <1>7

LEMMA RemoveKeyReads ==
    ASSUME NEW ks \in SUBSET Keys, GivesNoTime(ks), DbIInv, SeenInv(ks), NEW c \in Clients, Reading(c, ks),
           RemoveKey(c)
    PROVE  ReadStep(c)
<1> DEFINE l == local[c]
           u == Unit(c)
<1>1. /\ DOMAIN local = Clients /\ u = Head(l.units) /\ u.op \in Reads
      /\ NotedSeen(l, seen[c]) /\ IsAt(l.pc, u)
  BY ReaderAt
<1>2. l.pc = "remove" /\ local' = [local EXCEPT ![c] = AfterRemove(l)]
  BY DEF RemoveKey, Moves, At
<1>3. u.op = "getdel"
  BY <1>1, <1>2 DEF IsAt, Reads
<1>4. AfterRemove(l) = Finish(l, get(l.saved).reply)
  BY <1>1, <1>3 DEF AfterRemove
<1>5. local'[c] = Finish(l, get(l.saved).reply)
  BY <1>1, <1>2, <1>4
<1>6. get(l.saved).reply \in seen[c]
  BY <1>1, <1>2 DEF NotedSeen
<1> QED BY <1>5, <1>6 DEF ReadStep

\* GETDEL clears the timeout first.
LEMMA SendMessageReads ==
    ASSUME NEW ks \in SUBSET Keys, GivesNoTime(ks), DbIInv, SeenInv(ks), NEW c \in Clients, Reading(c, ks),
           SendMessage(c)
    PROVE  ReadStep(c)
<1> DEFINE l == local[c]
           u == Unit(c)
           n == [l EXCEPT !.message = NoMessage]
           m == Goto(n, "contains")
<1>1. IsThread(l) /\ DOMAIN local = Clients /\ u = Head(l.units) /\ NotedSeen(l, seen[c])
  BY ReaderAt
<1>2. u.op = "getdel" /\ local' = [local EXCEPT ![c] = AfterSend(n)]
  BY <1>1 DEF SendMessage, Moves, At, NotedSeen
<1>3. n.units = l.units /\ IsThread(n)
  <2>1. n = [l EXCEPT !.message = NoMessage]
    OBVIOUS
  <2> HIDE DEF n, l
  <2> QED BY <1>1, <2>1 DEF IsThread
<1> HIDE DEF n, l, u
<1>4. AfterSend(n) = m
  BY <1>1, <1>2, <1>3 DEF AfterSend
<1>5. m.pc = "contains" /\ m.units = l.units
  BY <1>3, GotoFields
<1>6. local'[c] = m
  BY <1>1, <1>2, <1>4
<1> HIDE DEF m
<1>7. NotedSeen(m, seen[c])
  BY <1>5 DEF NotedSeen
<1> QED BY <1>5, <1>6, <1>7 DEF ReadStep, l

LEMMA EveryReadStep ==
    ASSUME NEW ks \in SUBSET Keys, GivesNoTime(ks), DbIInv, TimelessInv(ks), SeenInv(ks), NEW c \in Clients,
           Reading(c, ks), Client(c)
    PROVE  ReadStep(c)
<1>1. Unit(c).op \in Reads /\ IsAt(local[c].pc, Unit(c))
  BY ReaderAt
<1>2. \/ ContainsKey(c) \/ AskTtl(c) \/ Decide(c) \/ AnswerTtlCommand(c) \/ LockedEffect(c)
      \/ RemoveKey(c) \/ SendMessage(c)
  BY <1>1 DEF Client, At, Reads, IsAt, OnAllKeys, Upserts, ReadClock, SortEffect, CopyEffect,
              RenameEffect, InsertValue, TouchKey, ScanDictionary
<1> QED BY <1>2, ContainsKeyReads, AskTtlReads, DecideReads, AnswerReads, LockedEffectReads,
           RemoveKeyReads, SendMessageReads

\* So it is answered with what has been seen.
LEMMA ReadJustified ==
    ASSUME NEW ks \in SUBSET Keys, GivesNoTime(ks), DbIInv, TimelessInv(ks), SeenInv(ks), NEW c \in Clients,
           Reading(c, ks), Client(c), local'[c].units # local[c].units
    PROVE  \E r \in seen[c] : Replied(c, r)
<1>1. PICK r \in seen[c] : local'[c] = Finish(local[c], r)
  BY EveryReadStep DEF ReadStep
<1>2. HasUnits(local[c])
  BY ReaderAt
<1>3. \/ local'[c].replies = Append(local[c].replies, r)
      \/ /\ local'[c].pc = "idle"
         /\ local'[c].reply = CombinedReply(local[c].request.name, Append(local[c].replies, r))
  BY <1>1, <1>2, FinishGoesOn
<1>4. Busy(c)
  BY DEF Reading
<1> QED BY <1>3, <1>4 DEF Replied, Answers

-----------------------------------------------------------------------------
(* What readers have seen is an invariant *)

\* No such key gets an expiry time in the documentation's sense either.
LEMMA DeadlinesKept ==
    ASSUME NEW ks \in SUBSET Keys, GivesNoTime(ks), DbIInv, SeenInv(ks), NEW c \in Clients, Busy(c)
    PROVE  DOMAIN DeadlineAfter(c) = Keys /\ \A k \in ks : DeadlineAfter(c)[k] = Persistent
<1> DEFINE u == Unit(c)
<1>1. u \in UnitsSent /\ IsAt(local[c].pc, u) /\ At(c, local[c].pc)
  <2>1. local[c].pc # "idle" /\ At(c, local[c].pc)
    BY DEF Busy, At
  <2> QED BY <2>1, UnitAt
<1>2. /\ u.op \in {"expire", "expireat"} => u.key \notin ks
      /\ u.op = "rename" /\ u.to_key \in ks => u.key \in ks
  BY <1>1 DEF GivesNoTime
<1>3. DOMAIN deadline = Keys /\ \A k \in ks : deadline[k] = Persistent
  BY DEF SeenInv
<1>4. \A k : DOMAIN Timeless(k) = Keys /\ \A j \in ks : Timeless(k)[j] = Persistent
  BY <1>3 DEF Timeless
<1> DEFINE sent == [deadline EXCEPT ![u.key] = local[c].message.expire_time]
           renamed == [Timeless(u.key) EXCEPT ![u.to_key] = deadline[u.key]]
<1>5. DeadlineAfter(c) \in {deadline, sent, renamed, Timeless(u.key), Timeless(u.to_key), [k \in Keys |-> Persistent]}
  BY DEF DeadlineAfter
<1>6. CASE DeadlineAfter(c) = sent /\ u.op \in {"expire", "expireat"}
  BY <1>2, <1>3, <1>6
<1>7. CASE DeadlineAfter(c) = renamed /\ u.op = "rename"
  <2>1. DOMAIN renamed = Keys
    BY <1>4
  <2>2. ASSUME NEW k \in ks PROVE renamed[k] = Persistent
    <3>1. k \in Keys
      OBVIOUS
    <3>2. CASE k = u.to_key
      BY <1>2, <1>3, <1>4, <1>7, <3>1, <3>2
    <3>3. CASE k # u.to_key
      BY <1>4, <3>1, <3>3
    <3> QED BY <3>2, <3>3
  <2> QED BY <1>7, <2>1, <2>2
<1>8. CASE DeadlineAfter(c) \in {deadline, Timeless(u.key), Timeless(u.to_key), [k \in Keys |-> Persistent]}
  BY <1>3, <1>4, <1>8
<1>9. \/ DeadlineAfter(c) = sent /\ u.op \in {"expire", "expireat"}
      \/ DeadlineAfter(c) = renamed /\ u.op = "rename"
      \/ DeadlineAfter(c) \in {deadline, Timeless(u.key), Timeless(u.to_key), [k \in Keys |-> Persistent]}
  BY DEF DeadlineAfter
<1> QED BY <1>6, <1>7, <1>8, <1>9

\* What Record leaves of a thread whose unit goes on, and what it adds.
LEMMA Recorded ==
    ASSUME Record, NEW c \in Clients
    PROVE  /\ local'[c].units = local[c].units => seen[c] \subseteq seen'[c]
           /\ (Busy(c) /\ Unit(c).op \in Reads)' => AtomicReply(Unit(c))' \in seen'[c]
BY DEF Record, RepliesNow

LEMMA SeenInit ==
    ASSUME NEW ks \in SUBSET Keys, HistoryInit
    PROVE  SeenInv(ks)
<1>1. deadline = [k \in Keys |-> Persistent] /\ \A c \in Clients : ~Busy(c)
  BY DEF HistoryInit, DbInit, Busy, Idle
<1> QED BY <1>1 DEF SeenInv, Reading

\* A step during which a thread's own variables do not change.
LEMMA BystanderSeen ==
    ASSUME NEW ks, SeenInv(ks), Record, NEW c \in Clients, local'[c] = local[c], Reading(c, ks)'
    PROVE  AtomicReply(Unit(c))' \in seen'[c] /\ NotedSeen(local'[c], seen'[c])
<1>1. Reading(c, ks)
  BY DEF Reading, Busy, Unit
<1>2. NotedSeen(local[c], seen[c]) /\ seen[c] \subseteq seen'[c]
  BY <1>1, Recorded DEF SeenInv
<1>3. AtomicReply(Unit(c))' \in seen'[c]
  BY Recorded DEF Reading
<1> QED BY <1>2, <1>3, NotedMore

\* And one of its own.
LEMMA ActorSeen ==
    ASSUME NEW ks \in SUBSET Keys, GivesNoTime(ks), DbIInv, TimelessInv(ks), SeenInv(ks), Record,
           NEW c \in Clients, Begin(c) \/ Client(c), Reading(c, ks)'
    PROVE  AtomicReply(Unit(c))' \in seen'[c] /\ NotedSeen(local'[c], seen'[c])
<1>1. AtomicReply(Unit(c))' \in seen'[c] /\ Head(local'[c].units).op \in Reads
  BY Recorded DEF Reading, Unit
<1>2. CASE Begins(local'[c])
  BY <1>1, <1>2, BeginsNoted
<1>3. CASE ~Begins(local'[c])
  <2>1. Client(c) /\ local'[c].units = local[c].units
    BY <1>3, BeginOwn, ClientOwn DEF Continues
  <2>2. Busy(c)
    <3>1. local[c].pc \notin {"idle", "panicked"}
      BY <2>1 DEF Client, At, ContainsKey, AskTtl, Decide, AnswerTtlCommand, ReadClock, LockedEffect,
                  SortEffect, CopyEffect, RenameEffect, InsertValue, RemoveKey, SendMessage, TouchKey,
                  ScanDictionary
    <3> QED BY <3>1 DEF Busy
  <2>3. Reading(c, ks)
    BY <2>1, <2>2 DEF Reading, Unit
  <2>4. ReadStep(c) /\ HasUnits(local[c])
    BY <2>1, <2>3, EveryReadStep, ReaderAt
  <2>5. NotedSeen(local'[c], seen[c])
    <3>1. CASE \E r \in seen[c] : local'[c] = Finish(local[c], r)
      <4>1. Begins(local'[c])
        BY <2>4, <3>1, FinishGoesOn
      <4> QED BY <1>3, <4>1
    <3> QED BY <2>4, <3>1 DEF ReadStep
  <2>6. seen[c] \subseteq seen'[c]
    BY <2>1, Recorded
  <2> QED BY <1>1, <2>5, <2>6, NotedMore
<1> QED BY <1>2, <1>3

LEMMA SeenNext ==
    ASSUME NEW ks \in SUBSET Keys, GivesNoTime(ks), DbIInv, TimelessInv(ks), SeenInv(ks),
           [HistoryNext]_historyVars
    PROVE  SeenInv(ks)'
<1>0. DOMAIN deadline = Keys /\ \A k \in ks : deadline[k] = Persistent
  BY DEF SeenInv
<1>1. CASE UNCHANGED historyVars
  <2>1. ASSUME NEW c \in Clients, Reading(c, ks)'
        PROVE  AtomicReply(Unit(c))' \in seen'[c] /\ NotedSeen(local'[c], seen'[c])
    <3>1. UNCHANGED <<local, seen, deadline, dictionary, now>>
      BY <1>1 DEF historyVars, dbVars, ttlVars
    <3>2. Reading(c, ks)
      BY <2>1, <3>1 DEF Reading, Busy, Unit
    <3>3. AtomicReply(Unit(c))' = AtomicReply(Unit(c))
      BY <3>1 DEF AtomicReply, Alive, Unit
    <3> QED BY <3>1, <3>2, <3>3 DEF SeenInv
  <2>2. UNCHANGED deadline
    BY <1>1 DEF historyVars
  <2> QED BY <1>0, <2>1, <2>2 DEF SeenInv
<1>2. CASE HistoryNext
  <2>1. Record
    BY <1>2 DEF HistoryNext, Observed, ObservedSweep
  <2>2. \/ UNCHANGED local
        \/ \E c \in Clients : Begin(c) \/ Client(c)
    BY <1>2 DEF HistoryNext, Observed, ObservedSweep
  <2>3. ASSUME NEW d \in Clients, Reading(d, ks)'
        PROVE  AtomicReply(Unit(d))' \in seen'[d] /\ NotedSeen(local'[d], seen'[d])
    <3>1. CASE local'[d] = local[d]
      BY <2>1, <2>3, <3>1, BystanderSeen
    <3>2. CASE Begin(d) \/ Client(d)
      BY <2>1, <2>3, <3>2, ActorSeen
    <3>3. ASSUME NEW c \in Clients \ {d}, Begin(c) \/ Client(c) PROVE local'[d] = local[d]
      <4>1. OwnStep(c, ks)
        BY <3>3, BeginOwn, ClientOwn
      <4> QED BY <4>1 DEF OwnStep, Elsewhere
    <3> QED BY <2>2, <3>1, <3>2, <3>3
  <2>4. DOMAIN deadline' = Keys /\ \A k \in ks : deadline'[k] = Persistent
    <3>1. \/ UNCHANGED deadline
          \/ deadline' = DeadlineAfterSweep
          \/ \E c \in Clients : Busy(c) /\ deadline' = DeadlineAfter(c)
      BY <1>2 DEF HistoryNext, Observed, ObservedSweep
    <3>2. CASE deadline' = DeadlineAfterSweep
      BY <1>0, <3>2 DEF DeadlineAfterSweep
    <3> QED BY <1>0, <3>1, <3>2, DeadlinesKept
  <2> QED BY <2>3, <2>4 DEF SeenInv
<1> QED BY <1>1, <1>2

\* In a step of the whole, only a thread that ends its unit is answered.
LEMMA StepJustified ==
    ASSUME NEW ks \in SUBSET Keys, GivesNoTime(ks), DbIInv, TimelessInv(ks), SeenInv(ks), HistoryNext
    PROVE  JustifiedIn(ks)
<1> SUFFICES ASSUME NEW c \in Clients, Reading(c, ks), local'[c].units # local[c].units
             PROVE  \E r \in seen[c] : Replied(c, r)
  BY DEF JustifiedIn, Reading
<1>1. UNCHANGED local \/ \E d \in Clients : Begin(d) \/ Client(d)
  BY DEF HistoryNext, Observed, ObservedSweep
<1>2. ASSUME NEW d \in Clients \ {c}, Begin(d) \/ Client(d) PROVE local'[c] = local[c]
  <2>1. OwnStep(d, ks)
    BY <1>2, BeginOwn, ClientOwn
  <2> QED BY <2>1 DEF OwnStep, Elsewhere
<1>3. ~Begin(c)
  BY BeginOwn DEF Reading
<1>4. Client(c)
  BY <1>1, <1>2, <1>3
<1> QED BY <1>4, ReadJustified

-----------------------------------------------------------------------------
(* Theorems about histories *)

\* The history observes the commands: they step as in Database.
LEMMA HistoryObserves ==
    /\ HistoryInit => DbInit
    /\ [HistoryNext]_historyVars => [DbNext]_dbVars
<1>1. HistoryInit => DbInit
  BY DEF HistoryInit
<1>2. ASSUME [HistoryNext]_historyVars PROVE [DbNext]_dbVars
  <2>1. CASE UNCHANGED historyVars
    BY <2>1 DEF historyVars
  <2>2. CASE HistoryNext
    BY <2>2 DEF HistoryNext, Observed, ObservedSweep, DbNext, Supervisor, Executor, Sweep
  <2> QED BY <1>2, <2>1, <2>2
<1> QED BY <1>1, <1>2

THEOREM HistoryInductive == HistorySpec => []DbIInv
BY HistoryObserves, DbInitIInv, DbNextIInv, PTL DEF HistorySpec

LEMMA JustifiedSteps ==
    ASSUME NEW ks \in SUBSET Keys, GivesNoTime(ks)
    PROVE  /\ HistoryInit => TimelessInv(ks) /\ SeenInv(ks)
           /\ DbIInv /\ TimelessInv(ks) /\ SeenInv(ks) /\ [HistoryNext]_historyVars
                 => (TimelessInv(ks) /\ SeenInv(ks))' /\ [JustifiedIn(ks)]_historyVars
<1>1. HistoryInit => TimelessInv(ks) /\ SeenInv(ks)
  BY TimelessInit, SeenInit DEF HistoryInit
<1>2. ASSUME DbIInv, TimelessInv(ks), SeenInv(ks), [HistoryNext]_historyVars
      PROVE  (TimelessInv(ks) /\ SeenInv(ks))' /\ [JustifiedIn(ks)]_historyVars
  BY <1>2, TimelessNext, SeenNext, HistoryObserves, StepJustified
<1> QED BY <1>1, <1>2

\* Whatever the other commands are, and whatever times they give to other keys:
\* EXISTS, TTL, TYPE, STRLEN, GET, GETDEL, the reads of lists and sets and each
\* key of an MGET reply, for a key that is given no time, with what one single
\* moment since they began would have given, although they look for the key, ask
\* the supervisor for its time and read the value in different locks.
THEOREM ReadsOfTimelessKeys ==
    ASSUME NEW ks \in SUBSET Keys, GivesNoTime(ks)
    PROVE  HistorySpec => [][JustifiedIn(ks)]_historyVars
<1> QED BY JustifiedSteps, HistoryInductive, PTL DEF HistorySpec

\* So where nothing is given a time, every read of every key is justified.
THEOREM ReadsJustifiedWithoutTimes ==
    ASSUME GivesNoTime(Keys)
    PROVE  HistorySpec => ReadsJustified
<1>1. GivesNoTime(Keys) /\ Keys \in SUBSET Keys
  OBVIOUS
<1>2. /\ HistoryInit => TimelessInv(Keys) /\ SeenInv(Keys)
      /\ DbIInv /\ TimelessInv(Keys) /\ SeenInv(Keys) /\ [HistoryNext]_historyVars
            => (TimelessInv(Keys) /\ SeenInv(Keys))' /\ [JustifiedIn(Keys)]_historyVars
  BY <1>1, JustifiedSteps
<1> QED BY <1>2, HistoryInductive, PTL DEF HistorySpec, ReadsJustified

-----------------------------------------------------------------------------
(* Updates that nobody disturbs *)

\* A thread that updates nothing in this request.
Calm(l) == \A i \in DOMAIN l.units : l.units[i].op \notin Updates

\* A thread that updates: it goes straight to the effect, since it finds its key.
Updating(l) ==
    /\ Len(l.units) = 1 /\ Head(l.units).op \in Updates
    /\ l.pc \in {"contains", "ask", "answer", "effect"}
    /\ l.pc \in {"ask", "answer"} => l.contains

\* What a counted key holds: what was loaded, and one more for each update.
CountKept(k) ==
    LET v == Lookup(dictionary, k)
        w == Lookup(Loaded, k)
    IN  /\ v # Absent /\ v.type = w.type
        /\ v.type = "String" => IsInteger(v.string)
        /\ Size(v) = Size(w) + updates[k]

\* No counted key has an expiry time, so nothing but its updates changes it.
UInv ==
    /\ TimelessInv(Counted)
    /\ \A c \in Clients : Calm(local[c]) \/ Updating(local[c])
    /\ updates \in [Keys -> Nat] /\ \A k \in Keys \ Counted : updates[k] = 0
    /\ \A k \in Counted : CountKept(k)

LEMMA CountedKeys ==
    ASSUME UpdatesUndisturbed
    PROVE  /\ Counted \subseteq Keys
           /\ \A k \in Counted : Lookup(Loaded, k) # Absent /\ Lookup(Loaded, k) \in StorageValues
           /\ \A k \in Counted : \/ Lookup(Loaded, k).type = "List"
                                 \/ /\ Lookup(Loaded, k).type = "String"
                                    /\ IsInteger(Lookup(Loaded, k).string)
<1> SUFFICES ASSUME NEW k \in Counted
             PROVE  /\ k \in Keys /\ Lookup(Loaded, k) # Absent /\ Lookup(Loaded, k) \in StorageValues
                    /\ \/ Lookup(Loaded, k).type = "List"
                       \/ Lookup(Loaded, k).type = "String" /\ IsInteger(Lookup(Loaded, k).string)
  OBVIOUS
<1>1. PICK u \in UnitsSent : u.op \in Updates /\ u.key = k
  BY DEF Counted
<1>2. k \in Keys
  BY <1>1, KeyOfUnit DEF Updates, OnAllKeys
<1>3. Lookup(Loaded, k) \in Cells
  BY <1>2, LookupType, TtlAssumption
<1>4. /\ Lookup(Loaded, k) # Absent
      /\ \/ Lookup(Loaded, k).type = "List"
         \/ Lookup(Loaded, k).type = "String" /\ IsInteger(Lookup(Loaded, k).string)
  BY <1>1 DEF UpdatesUndisturbed
<1> QED BY <1>2, <1>3, <1>4 DEF Cells

LEMMA CountedTimeless ==
    ASSUME UpdatesUndisturbed
    PROVE  GivesNoTime(Counted)
<1> SUFFICES ASSUME NEW u \in UnitsSent
             PROVE  /\ u.op \in {"expire", "expireat"} => u.key \notin Counted
                    /\ u.op = "rename" => u.to_key \notin Counted
  BY DEF GivesNoTime
<1>1. u.op \in {"expire", "expireat", "rename"} => \A k \in Counted : LeavesAlone(u, k)
  BY DEF UpdatesUndisturbed, Updates
<1> QED BY <1>1 DEF LeavesAlone, Harmless, Reads, OnAllKeys

-----------------------------------------------------------------------------
(* Threads that update nothing *)

LEMMA ContinuesCalm ==
    ASSUME NEW l, HasUnits(l), Calm(l), NEW m, Continues(l, m)
    PROVE  Calm(m)
<1>1. CASE m.units = l.units
  BY <1>1 DEF Calm
<1>2. CASE m.units = Tail(l.units)
  <2>1. \A i \in DOMAIN Tail(l.units) : i + 1 \in DOMAIN l.units /\ Tail(l.units)[i] = l.units[i + 1]
    BY HeadTailProperties, LenProperties DEF HasUnits
  <2> QED BY <1>2, <2>1 DEF Calm
<1> QED BY <1>1, <1>2 DEF Continues

\* A calm thread at an access has a unit of another kind than an update.
LEMMA CalmAt ==
    ASSUME UpdatesUndisturbed, DbIInv, NEW c \in Clients, Calm(local[c]),
           NEW pc, pc # "idle", At(c, pc)
    PROVE  /\ HasUnits(local[c]) /\ IsThread(local[c]) /\ IsAt(pc, Unit(c))
           /\ Unit(c) = Head(local[c].units) /\ Unit(c) \in UnitsSent /\ Unit(c).op \notin Updates
           /\ \A k \in Counted : LeavesAlone(Unit(c), k)
<1> DEFINE l == local[c]
<1>1. HasUnits(l) /\ IsAt(pc, Head(l.units)) /\ Unit(c) = Head(l.units) /\ Unit(c) \in UnitsSent
  BY ThreadAt
<1>2. l.units \in Seq(UnitsSent) /\ l.units # <<>> /\ IsThread(l)
  BY <1>1 DEF HasUnits
<1>3. 1 \in DOMAIN l.units /\ Head(l.units) = l.units[1]
  BY <1>2, LenProperties, HeadTailProperties
<1>4. Unit(c).op \notin Updates
  BY <1>1, <1>3 DEF Calm
<1>5. \A k \in Counted : LeavesAlone(Unit(c), k)
  BY <1>1, <1>4 DEF UpdatesUndisturbed
<1> QED BY <1>1, <1>2, <1>4, <1>5

\* It leaves what counted keys hold.
LEMMA CalmSpares ==
    ASSUME UpdatesUndisturbed, DbIInv, NEW c \in Clients, Calm(local[c]), Client(c)
    PROVE  Spares(Counted)
<1> DEFINE u == Unit(c)
<1>0. dictionary \in Dictionaries /\ Counted \subseteq Keys
  BY CountedKeys DEF DbIInv, IInv, TypeOK
<1>1. CASE UNCHANGED dictionary
  BY <1>1 DEF Spares
<1>2. CASE LockedEffect(c)
  <2> DEFINE v == Lookup(dictionary, u.key)
             e == EffectOn(v, u)
  <2>1. /\ u.op \notin Updates /\ u \in UnitsSent /\ u.op \in OnEntry
        /\ \A k \in Counted : LeavesAlone(u, k)
    <3>1. u.op \notin {"copy", "rename", "sort"}
      BY <1>2 DEF LockedEffect
    <3> QED BY <1>2, <3>1, CalmAt DEF LockedEffect, IsAt, OnKeys
  <2>2. u.key \in Keys
    BY <2>1, KeyOfUnit DEF OnEntry, OnAllKeys
  <2>3. v \in Cells
    BY <1>0, <2>2, LookupType
  <2>4. dictionary' = insert(dictionary, u.key, e.value)
    BY <1>2 DEF LockedEffect
  <2>5. ASSUME u.key \in Counted PROVE e.value = v
    <3>1. u.op \in Harmless
      BY <2>1, <2>5 DEF LeavesAlone, OnEntry, OnAllKeys
    <3>2. u.op \in {"get", "getset", "getdel", "strlen", "type", "lindex", "llen", "lrange",
                    "sismember", "scard", "smembers"}
      BY <2>1, <3>1 DEF Harmless, Reads, OnEntry
    <3> QED BY <2>3, <3>2, ReadingEffect
  <2> HIDE DEF e
  <2> SUFFICES ASSUME NEW k \in Counted PROVE Lookup(dictionary', k) = Lookup(dictionary, k)
    BY DEF Spares
  <2>6. k \in Keys
    BY <1>0
  <2>7. CASE k = u.key
    BY <1>0, <2>2, <2>4, <2>5, <2>7, WrittenElsewhere
  <2>8. CASE k # u.key
    BY <1>0, <2>2, <2>4, <2>6, <2>8, WrittenElsewhere
  <2> QED BY <2>7, <2>8
<1>3. CASE CopyEffect(c)
  <2>1. u \in UnitsSent /\ u.op = "copy" /\ \A k \in Counted : LeavesAlone(u, k)
    BY <1>3, CalmAt DEF CopyEffect
  <2>2. u.key \in Keys /\ u.to_key \in Keys /\ u.to_key \notin Counted
    BY <2>1, KeyOfUnit DEF OnAllKeys, LeavesAlone
  <2>3. \/ \E v : dictionary' = InsertInShardOf(dictionary, u.key, u.to_key, v)
        \/ UNCHANGED dictionary
    BY <1>3 DEF CopyEffect
  <2> QED BY <1>0, <2>2, <2>3, WrittenElsewhere DEF Spares
<1>4. CASE RenameEffect(c)
  <2>1. u \in UnitsSent /\ u.op = "rename" /\ u.op \notin Updates /\ \A k \in Counted : LeavesAlone(u, k)
    BY <1>4, CalmAt DEF RenameEffect
  <2>2. u.key \in Keys /\ u.key \notin Counted
    BY <2>1, KeyOfUnit DEF OnAllKeys, LeavesAlone, Harmless, Reads
  <2>3. dictionary' = remove(dictionary, u.key)
    BY <1>4 DEF RenameEffect
  <2> QED BY <1>0, <2>2, <2>3, WrittenElsewhere DEF Spares
<1>5. CASE InsertValue(c)
  <2>1. /\ u.op \notin Updates /\ u \in UnitsSent
        /\ u.op \in Upserts \cup {"decrby", "set", "getset", "rename"}
        /\ \A k \in Counted : LeavesAlone(u, k)
    BY <1>5, CalmAt DEF InsertValue, IsAt
  <2>2. /\ u.key \in Keys /\ (u.op = "rename" => u.to_key \in Keys)
        /\ u.key \notin Counted /\ (u.op = "rename" => u.to_key \notin Counted)
    BY <2>1, KeyOfUnit DEF OnAllKeys, LeavesAlone, Harmless, Reads, Upserts, Updates
  <2>3. \/ u.op = "rename" /\ \E v : dictionary' = insert(dictionary, u.to_key, v)
        \/ \E v : dictionary' = insert(dictionary, u.key, v)
    BY <1>5 DEF InsertValue
  <2> QED BY <1>0, <2>2, <2>3, WrittenElsewhere DEF Spares
<1>6. CASE RemoveKey(c)
  <2>1. /\ u \in UnitsSent /\ u.op \in {"del", "getdel", "expire", "expireat"}
        /\ \A k \in Counted : LeavesAlone(u, k)
    BY <1>6, CalmAt DEF RemoveKey, IsAt
  <2>2. u.key \in Keys /\ u.key \notin Counted
    BY <2>1, KeyOfUnit DEF OnAllKeys, LeavesAlone, Harmless, Reads
  <2>3. dictionary' = remove(dictionary, u.key)
    BY <1>6 DEF RemoveKey
  <2> QED BY <1>0, <2>2, <2>3, WrittenElsewhere DEF Spares
<1>7. CASE ScanDictionary(c)
  <2>1. \A k \in Counted : LeavesAlone(u, k)
    BY <1>7, CalmAt DEF ScanDictionary
  <2>2. u.op = "flushdb" \/ UNCHANGED dictionary
    BY <1>7 DEF ScanDictionary
  <2> QED BY <2>1, <2>2 DEF Spares, LeavesAlone
<1>8. CASE \/ ContainsKey(c) \/ AskTtl(c) \/ Decide(c) \/ AnswerTtlCommand(c) \/ ReadClock(c)
           \/ SortEffect(c) \/ SendMessage(c) \/ TouchKey(c)
  <2>1. UNCHANGED dictionary
    BY <1>8 DEF ContainsKey, AskTtl, Decide, AnswerTtlCommand, ReadClock, SortEffect, SendMessage,
                TouchKey, Post, TakeReply, ttlVars
  <2> QED BY <1>1, <2>1
<1> QED BY <1>2, <1>3, <1>4, <1>5, <1>6, <1>7, <1>8 DEF Client

\* The counts hold when nothing is counted and no counted key is written.
LEMMA SparedCounts ==
    ASSUME UInv, Spares(Counted), UNCHANGED updates
    PROVE  /\ updates' \in [Keys -> Nat] /\ \A k \in Keys \ Counted : updates'[k] = 0
           /\ \A k \in Counted : CountKept(k)'
BY DEF UInv, Spares, CountKept

\* So a step of one thread alone keeps the invariant if it keeps what it says of
\* that thread and of the counts.
LEMMA ThreadKept ==
    ASSUME UInv, NEW c \in Clients, OwnStep(c, Counted),
           Calm(local'[c]) \/ Updating(local'[c]),
           updates' \in [Keys -> Nat], \A k \in Keys \ Counted : updates'[k] = 0,
           \A k \in Counted : CountKept(k)'
    PROVE  UInv'
<1>1. TimelessInv(Counted)'
  BY OwnStepKept DEF UInv
<1>2. \A d \in Clients : Calm(local'[d]) \/ Updating(local'[d])
  BY DEF UInv, OwnStep, Elsewhere
<1> QED BY <1>1, <1>2 DEF UInv

LEMMA CalmClientKept ==
    ASSUME UpdatesUndisturbed, DbIInv, UInv, NEW c \in Clients, Calm(local[c]), Client(c), CountUpdate(c)
    PROVE  UInv'
<1>1. local[c].pc # "idle" /\ At(c, local[c].pc)
  BY DEF Client, At, ContainsKey, AskTtl, Decide, AnswerTtlCommand, ReadClock, LockedEffect,
         SortEffect, CopyEffect, RenameEffect, InsertValue, RemoveKey, SendMessage, TouchKey,
         ScanDictionary
<1>2. HasUnits(local[c]) /\ Unit(c).op \notin Updates
  BY <1>1, CalmAt
<1>3. OwnStep(c, Counted) /\ Continues(local[c], local'[c])
  BY CountedTimeless, ClientOwn DEF UInv
<1>4. Calm(local'[c])
  BY <1>2, <1>3, ContinuesCalm
<1>5. updates' = updates
  BY <1>2 DEF CountUpdate
<1> QED BY <1>3, <1>4, <1>5, CalmSpares, SparedCounts, ThreadKept

\* A request that updates is one unit, which begins by looking for its key.
LEMMA BeginKept ==
    ASSUME UpdatesUndisturbed, DbIInv, UInv, NEW c \in Clients, Begin(c), CountUpdate(c)
    PROVE  UInv'
<1>1. /\ OwnStep(c, Counted) /\ UNCHANGED dictionary /\ ~Busy(c)
      /\ local'[c].units # <<>> => local'[c].pc = FirstStep(Head(local'[c].units))
  BY BeginOwn
<1>2. PICK r \in Requests : local'[c].units = r.units
  BY BeginOwn
<1>3. updates' = updates /\ Spares(Counted)
  BY <1>1 DEF CountUpdate, Answers, Spares
<1>4. CASE \A i \in DOMAIN r.units : r.units[i].op \notin Updates
  <2>1. Calm(local'[c])
    BY <1>2, <1>4 DEF Calm
  <2> QED BY <1>1, <1>3, <2>1, SparedCounts, ThreadKept
<1>5. CASE \E i \in DOMAIN r.units : r.units[i].op \in Updates
  <2>1. PICK i \in DOMAIN r.units : r.units[i].op \in Updates
    BY <1>5
  <2>2. r.units \in Seq(UnitsSent) /\ DOMAIN r.units = 1..Len(r.units) /\ Len(r.units) \in Nat
    BY RequestsAssumption, LenProperties
  <2>3. Len(r.units) = 1
    <3>1. r.units[i] \in ToSet(r.units)
      BY DEF ToSet
    <3> QED BY <2>1, <3>1 DEF UpdatesUndisturbed
  <2>4. r.units # <<>> /\ Head(r.units) = r.units[i]
    BY <2>1, <2>2, <2>3, HeadTailProperties
  <2>5. local'[c].pc = "contains"
    BY <1>1, <1>2, <2>1, <2>4 DEF FirstStep, Updates
  <2>6. Updating(local'[c])
    BY <1>2, <2>1, <2>3, <2>4, <2>5 DEF Updating
  <2> QED BY <1>1, <1>3, <2>6, SparedCounts, ThreadKept
<1> QED BY <1>4, <1>5

-----------------------------------------------------------------------------
(* Threads that update *)

LEMMA UpdatingAt ==
    ASSUME UpdatesUndisturbed, DbIInv, UInv, NEW c \in Clients, Updating(local[c])
    PROVE  /\ HasUnits(local[c]) /\ IsThread(local[c]) /\ Busy(c)
           /\ Unit(c) = Head(local[c].units) /\ Unit(c) \in UnitsSent
           /\ Unit(c).op \in Updates
           /\ Unit(c).key \in Counted /\ Unit(c).key \in Keys
           /\ LookedUp(local[c]) = Unit(c).key
           /\ CountKept(Unit(c).key)
           /\ \A reply : \E r, answer, left : Finish(local[c], reply) = Idle(r, answer, left)
<1> DEFINE l == local[c]
<1>1. Unit(c) = Head(l.units) /\ Unit(c).op \in Updates /\ Len(l.units) = 1
  BY DEF Unit, Updating
<1>2. Underway(l)
  BY DEF DbIInv, ThreadOK, Updating, Idle
<1>3. HasUnits(l) /\ IsThread(l) /\ Unit(c) \in UnitsSent
  BY <1>1, <1>2, HeadUnit DEF Underway, HasUnits
<1>4. Unit(c).key \in Counted /\ Unit(c).key \in Keys
  BY <1>1, <1>3, CountedKeys DEF Counted
<1>5. LookedUp(l) = Unit(c).key
  BY <1>1 DEF LookedUp, Updates
<1>6. ASSUME NEW reply
      PROVE  \E r, answer, left : Finish(l, reply) = Idle(r, answer, left)
  <2>1. Finish(l, reply) = Idle(l.request, CombinedReply(l.request.name, Append(l.replies, reply)), l.left)
    BY <1>1 DEF Finish
  <2> QED BY <2>1
<1>7. Busy(c)
  BY DEF Busy, Updating
<1> QED BY <1>1, <1>3, <1>4, <1>5, <1>6, <1>7 DEF UInv

\* It finds its key, is told that it has no time, and goes on to its effect.
LEMMA GoesToEffect ==
    ASSUME UpdatesUndisturbed, DbIInv, UInv, NEW c \in Clients, Updating(local[c]),
           ContainsKey(c) \/ AskTtl(c) \/ Decide(c), CountUpdate(c)
    PROVE  UInv'
<1> DEFINE l == local[c]
<1>1. /\ IsThread(l) /\ DOMAIN local = Clients /\ Head(l.units).op \in Updates
      /\ LookedUp(l) \in Counted /\ CountKept(LookedUp(l))
  BY UpdatingAt DEF DbIInv
<1>2. \E contains : \/ contains /\ local' = [local EXCEPT ![c] = [Goto(l, "ask") EXCEPT !.contains = contains]]
                    \/ l.contains /\ local' = [local EXCEPT ![c] = Goto(l, "answer")]
                    \/ local' = [local EXCEPT ![c] = Goto(l, "effect")]
  <2>1. CASE ContainsKey(c)
    BY <1>1, <2>1 DEF ContainsKey, Moves, CountKept, contains_key
  <2>2. CASE AskTtl(c)
    BY <2>2 DEF AskTtl, Moves, Updating, At
  <2>3. CASE Decide(c)
    <3>1. At(c, "answer") /\ l.contains
      BY <2>3 DEF Decide, Updating, At
    <3>2. ~IsPast(replies[c])
      BY <1>1, <3>1 DEF UInv, TimelessInv, Awaits, At, NoTimeFor, IsPast
    <3>3. AfterExists(l, l.contains /\ ~IsPast(replies[c])) = Goto(l, "effect")
      BY <1>1, <3>1, <3>2 DEF AfterExists, Updates, Upserts
    <3> QED BY <2>3, <3>1, <3>3 DEF Decide, Moves, At
  <2> QED BY <2>1, <2>2, <2>3
<1>3. PICK m : /\ local' = [local EXCEPT ![c] = m] /\ m.units = l.units
               /\ m.pc \in {"ask", "answer", "effect"} /\ (m.pc \in {"ask", "answer"} => m.contains)
  <2>1. \A pc : /\ Goto(l, pc).pc = pc /\ Goto(l, pc).units = l.units
                 /\ Goto(l, pc).contains = l.contains /\ IsThread(Goto(l, pc))
    BY <1>1, GotoFields
  <2>2. \A n, contains : IsThread(n) => /\ [n EXCEPT !.contains = contains].pc = n.pc
                                        /\ [n EXCEPT !.contains = contains].units = n.units
                                        /\ [n EXCEPT !.contains = contains].contains = contains
    BY DEF IsThread
  <2> HIDE DEF l
  <2>3. CASE local' = [local EXCEPT ![c] = Goto(l, "effect")]
    <3>1. \E m : m = Goto(l, "effect")
      OBVIOUS
    <3>2. "effect" \in {"ask", "answer", "effect"} /\ "effect" \notin {"ask", "answer"}
      OBVIOUS
    <3> QED BY <2>1, <2>3, <3>1, <3>2
  <2>4. CASE l.contains /\ local' = [local EXCEPT ![c] = Goto(l, "answer")]
    BY <2>1, <2>4
  <2>5. ASSUME NEW contains, contains,
               local' = [local EXCEPT ![c] = [Goto(l, "ask") EXCEPT !.contains = contains]]
        PROVE  \E m : /\ local' = [local EXCEPT ![c] = m] /\ m.units = l.units
                      /\ m.pc \in {"ask", "answer", "effect"} /\ (m.pc \in {"ask", "answer"} => m.contains)
    <3> DEFINE m == [Goto(l, "ask") EXCEPT !.contains = contains]
    <3>1. m.units = l.units /\ m.pc = "ask" /\ m.contains
      BY <2>1, <2>2, <2>5
    <3>2. local' = [local EXCEPT ![c] = m]
      BY <2>5
    <3> HIDE DEF m
    <3> QED BY <3>1, <3>2
  <2> QED BY <1>2, <2>3, <2>4, <2>5
<1>4. local'[c] = m /\ Updating(local'[c])
  BY <1>1, <1>3 DEF Updating
<1>5. Client(c) /\ UNCHANGED dictionary
  BY DEF Client, ContainsKey, AskTtl, Decide, Post, TakeReply, ttlVars
<1>6. OwnStep(c, Counted)
  BY <1>5, CountedTimeless, ClientOwn DEF UInv
<1>7. updates' = updates /\ Spares(Counted)
  BY <1>3, <1>4, <1>5 DEF CountUpdate, Answers, Spares
<1> QED BY <1>4, <1>6, <1>7, SparedCounts, ThreadKept

\* What an update leaves is one more.
LEMMA OneMore ==
    ASSUME UpdatesUndisturbed, NEW u \in UnitsSent, u.op \in Updates, NEW v \in Cells,
           v # Absent, v.type = Lookup(Loaded, u.key).type,
           v.type = "String" => IsInteger(v.string) /\ Size(v) + 1 <= MaxInt
    PROVE  LET e == EffectOn(v, u).value
           IN  /\ e # Absent /\ e.type = v.type
               /\ e.type = "String" => IsInteger(e.string)
               /\ Size(e) = Size(v) + 1 /\ Size(v) \in Int
<1>1. MaxInt \in Nat
  BY IntAssumption
<1>2. CASE u.op = "decrby"
  <2> DEFINE n == NumberOf(v.string)
             t == TextOf(n + 1)
  <2>1. u.by = -1 /\ v.type = "String" /\ IsInteger(v.string)
    BY <1>2 DEF UpdatesUndisturbed
  <2>2. Size(v) = n /\ n \in Int /\ n + 1 <= MaxInt /\ n >= -MaxInt - 1
    BY <1>1, <2>1 DEF Size, IsInteger, InRange
  <2>3. n - u.by = n + 1
    BY <2>1, <2>2
  <2>4. Wrap(n + 1) = n + 1 /\ InRange(n + 1)
    BY <1>1, <2>2, WrapNear DEF InRange
  <2>5. EffectOn(v, u) = decrby(v, u.by)
    BY <1>2 DEF EffectOn
  <2>6. EffectOn(v, u).value = String(t)
    BY <2>1, <2>3, <2>4, <2>5 DEF decrby, Leaves
  <2>7. IsNumeral(t) /\ NumberOf(t) = n + 1 /\ t \in Texts
    BY <2>2, ReadBack, TextOfType
  <2> HIDE DEF t, n
  <2>8. String(t).type = "String" /\ String(t).string = t /\ String(t) # Absent
    BY <2>7, AbsentAssumption DEF String, StorageValues
  <2>9. Size(String(t)) = n + 1
    BY <2>7, <2>8 DEF Size
  <2> QED BY <2>1, <2>2, <2>4, <2>6, <2>7, <2>8, <2>9 DEF IsInteger
<1>3. CASE u.op = "rpush"
  <2> DEFINE s == v.list \o u.texts
  <2>1. Len(u.texts) = 1 /\ v.type = "List"
    BY <1>3 DEF UpdatesUndisturbed
  <2>2. v.list \in Seq(Texts) /\ u.texts \in Seq(Texts)
    <3>1. WellFormed(u)
      BY UnitTypes
    <3> QED BY <1>3, <2>1, <3>1 DEF WellFormed, Cells, StorageValues
  <2>3. s \in Seq(Texts) /\ Len(s) = Len(v.list) + 1 /\ Len(v.list) \in Nat
    <3>1. s \in Seq(Texts) /\ Len(s) = Len(v.list) + Len(u.texts)
      BY <2>2, ConcatLength
    <3>2. Len(v.list) \in Nat
      BY <2>2, LenProperties
    <3> QED BY <2>1, <3>1, <3>2
  <2>4. EffectOn(v, u) = rpush(v, u.texts)
    BY <1>3 DEF EffectOn
  <2>5. EffectOn(v, u).value = List(s)
    BY <2>1, <2>4 DEF rpush, IsList, Pushed, Leaves
  <2> HIDE DEF s
  <2>6. List(s).type = "List" /\ List(s).list = s /\ List(s) # Absent
    BY <2>3, AbsentAssumption DEF List, StorageValues
  <2>7. Size(List(s)) = Len(s) /\ Size(v) = Len(v.list)
    BY <2>1, <2>6 DEF Size
  <2> QED BY <2>1, <2>3, <2>5, <2>6, <2>7
<1> QED BY <1>2, <1>3 DEF Updates

LEMMA SizeType ==
    ASSUME NEW w \in StorageValues, w # Absent,
           w.type = "List" \/ (w.type = "String" /\ IsInteger(w.string))
    PROVE  Size(w) \in Int
<1>1. CASE w.type = "List"
  <2>1. w.list \in Seq(Texts)
    BY <1>1 DEF StorageValues
  <2>2. Len(w.list) \in Nat
    BY <2>1, LenProperties
  <2> QED BY <1>1, <2>2 DEF Size
<1>2. CASE w.type = "String" /\ IsInteger(w.string)
  <2>1. NumberOf(w.string) \in Int
    BY <1>2, IntAssumption DEF IsInteger, InRange
  <2> QED BY <1>2, <2>1 DEF Size
<1> QED BY <1>1, <1>2

\* It adds one to what its key holds, and is answered.
LEMMA LockedEffectKept ==
    ASSUME UpdatesUndisturbed, DbIInv, UInv, UpdatesFit', NEW c \in Clients, Updating(local[c]),
           LockedEffect(c), CountUpdate(c)
    PROVE  UInv'
<1> DEFINE l == local[c]
           u == Unit(c)
           v == Lookup(dictionary, u.key)
           w == Lookup(Loaded, u.key)
           e == EffectOn(v, u)
           m == AfterEffect(l, v, e.reply)
<1>1. /\ DOMAIN local = Clients /\ u = Head(l.units) /\ u \in UnitsSent /\ u.op \in Updates
      /\ u.key \in Counted /\ u.key \in Keys /\ CountKept(u.key) /\ Busy(c)
  BY UpdatingAt DEF DbIInv
<1>2. dictionary \in Dictionaries /\ v \in Cells
  <2>1. dictionary \in Dictionaries
    BY DEF DbIInv, IInv, TypeOK
  <2> QED BY <1>1, <2>1, LookupType
<1>3. /\ dictionary' = insert(dictionary, u.key, e.value) /\ OnlyDictionary
      /\ local' = [local EXCEPT ![c] = m]
  BY DEF LockedEffect, Moves
<1>4. m.units = <<>> /\ m.pc = "idle"
  <2>1. m = Finish(l, e.reply)
    BY <1>1 DEF AfterEffect, Updates
  <2>2. \E r, answer, left : m = Idle(r, answer, left)
    BY <2>1, UpdatingAt
  <2> HIDE DEF m
  <2> QED BY <2>2, IdleFields
<1> HIDE DEF m, l
<1>5. local'[c] = m
  BY <1>1, <1>3
<1>6. OwnStep(c, Counted)
  <2>1. Client(c)
    BY DEF Client
  <2> QED BY <2>1, CountedTimeless, ClientOwn DEF UInv
<1>7. Calm(local'[c])
  BY <1>4, <1>5 DEF Calm
<1>8. updates' = [updates EXCEPT ![u.key] = @ + 1]
  BY <1>1, <1>4, <1>5 DEF CountUpdate, Answers
<1>9. /\ updates \in [Keys -> Nat] /\ \A k \in Keys \ Counted : updates[k] = 0
      /\ Counted \subseteq Keys
  BY CountedKeys DEF UInv
<1>10. updates'[u.key] = updates[u.key] + 1 /\ updates[u.key] \in Nat
  BY <1>1, <1>8, <1>9
<1>11. ASSUME NEW k \in Counted PROVE CountKept(k)'
  <2>1. k \in Keys
    BY <1>9
  <2>2. CASE k # u.key
    <3>1. updates'[k] = updates[k] /\ CountKept(k)
      BY <1>8, <1>9, <2>1, <2>2 DEF UInv
    <3>2. Lookup(dictionary', k) = Lookup(dictionary, k)
      BY <1>1, <1>2, <1>3, <2>1, <2>2, WrittenElsewhere
    <3> QED BY <3>1, <3>2 DEF CountKept
  <2>3. CASE k = u.key
    <3>1. v # Absent /\ v.type = w.type /\ (v.type = "String" => IsInteger(v.string))
          /\ Size(v) = Size(w) + updates[u.key]
      BY <1>1 DEF CountKept
    <3>2. Lookup(dictionary', k) = e.value
      BY <1>1, <1>2, <1>3, <2>3, WrittenElsewhere
    <3>3. w.type = "String" => Size(w) + updates'[u.key] <= MaxInt
      BY <1>1 DEF UpdatesFit
    <3>4. Size(w) \in Int
      <4> HIDE DEF u
      <4>1. \A j \in Counted :
                /\ Lookup(Loaded, j) # Absent /\ Lookup(Loaded, j) \in StorageValues
                /\ \/ Lookup(Loaded, j).type = "List"
                   \/ Lookup(Loaded, j).type = "String" /\ IsInteger(Lookup(Loaded, j).string)
        BY CountedKeys
      <4> QED BY <1>1, <4>1, SizeType
    <3>5. v.type = "String" => IsInteger(v.string) /\ Size(v) + 1 <= MaxInt
      <4> DEFINE sv == Size(v)
                 sw == Size(w)
      <4>1. sv + 1 = sw + updates'[u.key]
        BY <1>10, <3>1, <3>4
      <4> QED BY <3>1, <3>3, <4>1
    <3> HIDE DEF v, w, u, e
    <3>6. /\ e.value # Absent /\ e.value.type = v.type
          /\ e.value.type = "String" => IsInteger(e.value.string)
          /\ Size(e.value) = Size(v) + 1
      BY <1>1, <1>2, <3>1, <3>5, OneMore DEF e, w
    <3>7. Size(e.value) = Size(w) + updates'[u.key]
      BY <1>10, <3>1, <3>4, <3>6
    <3> QED BY <2>3, <3>1, <3>2, <3>6, <3>7 DEF CountKept, w
  <2> QED BY <2>2, <2>3
<1>12. updates' \in [Keys -> Nat] /\ \A k \in Keys \ Counted : updates'[k] = 0
  BY <1>1, <1>8, <1>9
<1> QED BY <1>6, <1>7, <1>11, <1>12, ThreadKept

\* These four are all the steps of a thread that updates.
LEMMA UpdatingClientKept ==
    ASSUME UpdatesUndisturbed, DbIInv, UInv, UpdatesFit', NEW c \in Clients, Updating(local[c]),
           Client(c), CountUpdate(c)
    PROVE  UInv'
<1>1. /\ local[c].pc \in {"contains", "ask", "answer", "effect"}
      /\ Unit(c).op \in Updates
  BY DEF Updating, Unit
<1>2. \/ ContainsKey(c) \/ AskTtl(c) \/ Decide(c) \/ LockedEffect(c)
  BY <1>1 DEF Client, At, Updates, AnswerTtlCommand, ReadClock, SortEffect, CopyEffect,
              RenameEffect, InsertValue, RemoveKey, SendMessage, TouchKey, ScanDictionary
<1> QED BY <1>2, GoesToEffect, LockedEffectKept

-----------------------------------------------------------------------------
(* The counts are an invariant *)

LEMMA UInvInit ==
    ASSUME UpdatesUndisturbed, HistoryInit
    PROVE  UInv
<1>1. /\ ttl_keys = <<>> /\ mailbox = <<>> /\ dictionary = Loaded
      /\ local = [c \in Clients |-> Idle(NoRequest, Nil, MaxRequests)]
      /\ updates = [k \in Keys |-> 0]
  BY DEF HistoryInit, DbInit, Init
<1>2. \A c \in Clients : Calm(local[c])
  <2>1. \A c \in Clients : local[c] = Idle(NoRequest, Nil, MaxRequests)
    BY <1>1
  <2> QED BY <2>1, IdleFields DEF Calm
<1>3. updates \in [Keys -> Nat] /\ Counted \subseteq Keys /\ \A k \in Keys : updates[k] = 0
  BY <1>1, CountedKeys
<1>4. ASSUME NEW k \in Counted PROVE CountKept(k)
  <2> DEFINE w == Lookup(Loaded, k)
  <2>1. w # Absent /\ w \in StorageValues
    BY CountedKeys
  <2>2. w.type = "List" \/ (w.type = "String" /\ IsInteger(w.string))
    BY CountedKeys
  <2> HIDE DEF w
  <2>3. Size(w) \in Int
    BY <2>1, <2>2, SizeType
  <2>4. Size(w) = Size(w) + updates[k]
    BY <1>3, <2>3
  <2> QED BY <1>1, <2>1, <2>2, <2>4 DEF CountKept, w
<1>5. TimelessInv(Counted)
  BY TimelessInit DEF HistoryInit
<1> QED BY <1>2, <1>3, <1>4, <1>5 DEF UInv

LEMMA UInvNext ==
    ASSUME UpdatesUndisturbed, DbIInv, DbIInv', UInv, UpdatesFit', [HistoryNext]_historyVars
    PROVE  UInv'
<1>0. \A c \in Clients : UNCHANGED local => (Calm(local'[c]) \/ Updating(local'[c]))
  BY DEF UInv
<1>1. CASE UNCHANGED historyVars
  <2>1. UNCHANGED <<local, updates, ttl_keys, mailbox, replies, dictionary>>
    BY <1>1 DEF historyVars, dbVars, ttlVars
  <2>2. TimelessInv(Counted)' /\ Spares(Counted)
    BY <2>1, QuietTimeless DEF UInv, Spares
  <2> QED BY <1>0, <2>1, <2>2, SparedCounts DEF UInv
<1>2. ASSUME NEW c \in Clients, Begin(c) \/ Client(c), CountUpdate(c) PROVE UInv'
  BY <1>2, BeginKept, CalmClientKept, UpdatingClientKept DEF UInv
<1>3. CASE (Supervisor \/ Executor \/ Tick) /\ UNCHANGED <<local, updates>>
  <2>1. TimelessInv(Counted)' /\ Spares(Counted)
    BY <1>3, CountedKeys, MachineryTimeless DEF UInv
  <2> QED BY <1>0, <1>3, <2>1, SparedCounts DEF UInv
<1> QED BY <1>1, <1>2, <1>3
        DEF HistoryNext, Observed, ObservedSweep, Supervisor, Executor, Sweep

\* No update of a key that exists throughout is lost: when no command is under
\* way, an integer has grown by one for each answered DECRBY of -1, and a list
\* by one element for each answered RPUSH, although each of these commands
\* looks for the key and waits for the supervisor before it locks the shard
\* and changes the entry.
THEOREM UpdatesCounted ==
    ASSUME UpdatesUndisturbed
    PROVE  HistorySpec /\ []UpdatesFit => []UpdatesKept
<1>1. HistoryInit => UInv
  BY UInvInit
<1>2. DbIInv /\ DbIInv' /\ UInv /\ UpdatesFit' /\ [HistoryNext]_historyVars => UInv'
  BY UInvNext
<1>3. UInv => UpdatesKept
  <2> SUFFICES ASSUME UInv, NEW k \in Keys, updates[k] > 0
               PROVE  Size(Lookup(dictionary, k)) = Size(Lookup(Loaded, k)) + updates[k]
    BY DEF UpdatesKept
  <2>1. k \in Counted
    BY DEF UInv
  <2> QED BY <2>1 DEF UInv, CountKept
<1> QED BY <1>1, <1>2, <1>3, HistoryInductive, PTL DEF HistorySpec

====
