---- MODULE ShardLocksProofs ----
(***************************************************************************)
(* The safety of ShardLocks, for any number of threads, shards and         *)
(* operations: a scan of the shards finds a snapshot (ScansAreSnapshots),  *)
(* and every poisoned mutex goes back to a panic under a shard             *)
(* (PoisonStartsInAShard).                                                 *)
(*                                                                         *)
(* Both rest on IInv.  While a scan holds `data` no operation begins, so   *)
(* the scan is the latest one (MutexesHeld); what had ended when an        *)
(* operation began grows from one operation to the next, and a scan finds  *)
(* nothing younger than itself (Past); a write that has ended is in its    *)
(* shard (WritesApplied), where the scan meets it (ScansGoOn).             *)
(***************************************************************************)
EXTENDS ShardLocks, TLAPS

\* Thread t is inside an operation of HashShard.
Active(t) == pc[t] \in {"arc", "act", "scan"}

\* Operation w writes to shard s.
Reaches(w, s) == \/ calls[w].kind = "clear"
                 \/ calls[w].kind = "write" /\ calls[w].shard = s

\* The operations under way have begun, have not ended, and each belongs to
\* one thread; a thread that is not scanning starts its next scan at shard 0.
CallsBegun ==
    /\ \A t \in Threads : Active(t) => call[t] \in 1..begun /\ call[t] \notin done
    /\ \A t, u \in Threads : Active(t) /\ Active(u) /\ call[t] = call[u] => t = u
    /\ \A t \in Threads : At(t, "arc") \/ At(t, "act") => calls[call[t]].kind = "write"
    /\ \A t \in Threads : At(t, "idle") => next[t] = 0

\* Who works on a shard holds its mutex; who scans holds data, and no
\* operation has begun since.
MutexesHeld ==
    /\ \A t \in Threads : At(t, "act") => holder[MyShard(t)] = t
    /\ \A t \in Threads :
          At(t, "scan") => holder[Data] = t /\ call[t] = begun /\ calls[begun].kind # "write"

\* What had ended when an operation began grows with the order in which they
\* began, and nothing is applied or found before it has begun.
Past ==
    /\ done \subseteq 1..begun
    /\ \A i \in 1..begun : calls[i].after \subseteq done
    /\ \A i, j \in 1..begun : j <= i => calls[j].after \subseteq calls[i].after
    /\ \A s \in Shards : applied[s] \subseteq 1..begun
    /\ \A i \in Ids : seen[i] \subseteq 1..i

\* A write that has ended is in every shard it writes to.
WritesApplied ==
    \A w \in done, s \in Shards : Reaches(w, s) => w \in applied[s]

\* A scan has found, in the shards behind it, every write that had ended when
\* it began, and has cleared them if it is a clear.
ScansGoOn ==
    \A t \in Threads, s \in Shards :
        At(t, "scan") /\ s < next[t] =>
            /\ \A w \in calls[call[t]].after : Reaches(w, s) => w \in seen[call[t]]
            /\ calls[call[t]].kind = "clear" => call[t] \in applied[s]

\* A scan that has ended found every write that had ended when it began.
ScansComplete == \A i \in Scans : WritesOf(calls[i].after) \subseteq seen[i]

\* The inductive invariant.
IInv == /\ LockTypeOK /\ CallsBegun /\ MutexesHeld /\ Past /\ WritesApplied
        /\ ScansGoOn /\ ScansComplete /\ PoisonStartsInAShard

-----------------------------------------------------------------------------

\* hash_funcion stays within the vector of shards.
LEMMA HashInRange ==
    ASSUME NEW length \in Lengths
    PROVE  hash_funcion(length) \in Shards
BY ShardLocksAssumption DEF hash_funcion, Shards

\* data, ttl_keys and the shards are different mutexes, and shard 0 exists.
LEMMA SetsDisjoint ==
    /\ Data \in Mutexes /\ TtlKeys \in Mutexes /\ Shards \subseteq Mutexes
    /\ Data \notin Shards /\ TtlKeys \notin Shards /\ Data # TtlKeys
    /\ 0 \in Shards
BY ShardLocksAssumption DEF Data, TtlKeys, Shards, Mutexes

\* The invariant holds before any thread has run.
THEOREM InitInv == LockInit => IInv
<1> SUFFICES ASSUME LockInit PROVE IInv
  OBVIOUS
<1>1. LockTypeOK
  BY SetsDisjoint, ShardLocksAssumption DEF LockInit, LockTypeOK, Ids
<1>2. CallsBegun /\ MutexesHeld
  BY DEF LockInit, CallsBegun, MutexesHeld, Active, At
<1>3. Past
  BY DEF LockInit, Past
<1>4. WritesApplied /\ ScansGoOn /\ ScansComplete /\ PoisonStartsInAShard
  BY DEF LockInit, WritesApplied, ScansGoOn, ScansComplete, Scans, PoisonStartsInAShard, Sweepers, Threads, At
<1> QED BY <1>1, <1>2, <1>3, <1>4 DEF IInv

\* What is past stays as it is when no operation begins, works or ends.
LEMMA HistoryKept ==
    ASSUME Past, WritesApplied, ScansComplete, UNCHANGED history
    PROVE  Past' /\ WritesApplied' /\ ScansComplete'
BY DEF Past, WritesApplied, ScansComplete, Scans, WritesOf, Reaches, history

\* A thread that panics under a shard, or when a mutex is poisoned already,
\* keeps the invariant: it only lets mutexes go.
LEMMA PanicStep ==
    ASSUME IInv, NEW t \in Threads, Panic(t),
           poisoned # {} \/ At(t, "act")
    PROVE  IInv'
<1> USE DEF IInv
<1>1. LockTypeOK'
  BY DEF LockTypeOK, Panic, Goto, history
<1>2. \A u \in Threads : u # t => pc'[u] = pc[u]
  BY DEF LockTypeOK, Panic, Goto
<1>3. pc'[t] = "panicked"
  BY DEF LockTypeOK, Panic, Goto
<1>4. UNCHANGED <<call, next, history>>
  BY DEF Panic
<1>5. \A m \in Mutexes, u \in Threads : u # t /\ holder[m] = u => holder'[m] = u
  BY DEF Panic
<1>6. CallsBegun'
  BY <1>2, <1>3, <1>4 DEF CallsBegun, Active, At, history
<1>7. MutexesHeld'
  <2>1. \A u \in Threads : Active(u) => MyShard(u) \in Shards
    BY DEF CallsBegun, MyShard, LockTypeOK, Ids
  <2>2. \A u \in Threads : MyShard(u)' = MyShard(u)
    BY <1>4 DEF MyShard, history
  <2> QED BY <1>2, <1>3, <1>4, <1>5, <2>1, <2>2, SetsDisjoint DEF MutexesHeld, At, Active, history
<1>8. Past' /\ WritesApplied' /\ ScansComplete'
  BY <1>4, HistoryKept
<1>9. ScansGoOn'
  BY <1>2, <1>3, <1>4 DEF ScansGoOn, At, Reaches, history
<1>10. PoisonStartsInAShard'
  <2>1. poisoned \subseteq poisoned'
    BY DEF Panic
  <2>2. poisoned' \cap Shards # {}
    <3>1. CASE poisoned # {}
      BY <3>1, <2>1 DEF PoisonStartsInAShard
    <3>2. CASE At(t, "act")
      <4>1. MyShard(t) \in Shards /\ holder[MyShard(t)] = t
        BY <3>2 DEF CallsBegun, MutexesHeld, MyShard, LockTypeOK, Ids, Active, At
      <4> QED BY <4>1, SetsDisjoint DEF Panic
    <3> QED BY <3>1, <3>2
  <2> QED BY <2>2 DEF PoisonStartsInAShard
<1> QED BY <1>1, <1>6, <1>7, <1>8, <1>9, <1>10

\* The operation of an active thread is one of those begun, its shard exists.
LEMMA ActiveCall ==
    ASSUME LockTypeOK, CallsBegun, NEW t \in Threads, Active(t)
    PROVE  call[t] \in 1..begun /\ call[t] \in Ids /\ MyShard(t) \in Shards
<1>1. call[t] \in 1..begun
  BY DEF CallsBegun
<1>2. call[t] \in Ids
  BY <1>1, ShardLocksAssumption DEF LockTypeOK, Ids
<1> QED BY <1>1, <1>2 DEF LockTypeOK, MyShard

\* get_atomic_hash, or the first lock of a scan: the new operation comes after
\* all that have ended, and nobody is scanning, for data was free.
LEMMA CallStep ==
    ASSUME IInv, NEW t \in Threads, NEW kind \in {"write", "list", "clear"},
           NEW s \in Shards, MayCall(t), CanLock(Data), Call(t, kind, s),
           \/ kind = "write" /\ Goto(t, "arc") /\ UNCHANGED holder
           \/ kind # "write" /\ Goto(t, "scan") /\ holder' = [holder EXCEPT ![Data] = t],
           UNCHANGED <<poisoned, next>>
    PROVE  IInv'
<1> USE SetsDisjoint
<1>0. /\ LockTypeOK /\ CallsBegun /\ MutexesHeld /\ Past /\ WritesApplied
      /\ ScansGoOn /\ ScansComplete /\ PoisonStartsInAShard
  BY DEF IInv
<1>1. begun \in Nat /\ begun + 1 \in Ids /\ begun' = begun + 1 /\ done \subseteq Ids
  BY <1>0, ShardLocksAssumption DEF LockTypeOK, Call, Ids
<1>2. LockTypeOK'
  <2>1. calls' \in [Ids -> [kind : {"write", "list", "clear"}, shard : Shards, after : SUBSET Ids]]
    BY <1>0, <1>1 DEF LockTypeOK, Call
  <2>2. begun' \in 0..MaxCalls /\ call' \in [Threads -> 0..MaxCalls]
    BY <1>0, <1>1, ShardLocksAssumption DEF LockTypeOK, Call
  <2>3. pc' \in [Threads -> {"idle", "arc", "act", "scan", "panicked"}]
    BY <1>0 DEF LockTypeOK, Goto
  <2>4. holder' \in [Mutexes -> Threads \cup {Nobody}]
    BY <1>0 DEF LockTypeOK
  <2> QED BY <1>0, <2>1, <2>2, <2>3, <2>4 DEF LockTypeOK, Call
<1>3. \A i \in 1..begun : i \in Ids /\ calls'[i] = calls[i]
  BY <1>0, <1>1, ShardLocksAssumption DEF LockTypeOK, Call, Ids
<1>4. calls'[begun + 1] = [kind |-> kind, shard |-> s, after |-> done]
  BY <1>0, <1>1 DEF LockTypeOK, Call
<1>5. call'[t] = begun + 1 /\ \A u \in Threads : u # t => call'[u] = call[u]
  BY <1>0 DEF LockTypeOK, Call
<1>6. \A u \in Threads : u # t => pc'[u] = pc[u]
  BY <1>0 DEF LockTypeOK, Goto
<1>7. pc'[t] = IF kind = "write" THEN "arc" ELSE "scan"
  BY <1>0 DEF LockTypeOK, Goto
<1>8. \A u \in Threads : pc[u] # "scan"
  BY <1>0, ShardLocksAssumption DEF MutexesHeld, CanLock, At
<1>9. UNCHANGED <<applied, seen, done>>
  BY DEF Call
<1>10. pc[t] = "idle" /\ next[t] = 0
  BY <1>0 DEF MayCall, At, CallsBegun
<1>11. CallsBegun'
  <2>1. \A u \in Threads : Active(u)' => call'[u] \in 1..begun' /\ call'[u] \notin done'
    BY <1>0, <1>1, <1>5, <1>6, <1>9 DEF CallsBegun, Active, Past
  <2>2. \A u, v \in Threads : Active(u)' /\ Active(v)' /\ call'[u] = call'[v] => u = v
    BY <1>0, <1>1, <1>5, <1>6 DEF CallsBegun, Active
  <2>3. \A u \in Threads : At(u, "arc")' \/ At(u, "act")' => calls'[call'[u]].kind = "write"
    BY <1>0, <1>3, <1>4, <1>5, <1>6, <1>7 DEF CallsBegun, Active, At
  <2>4. \A u \in Threads : At(u, "idle")' => next'[u] = 0
    BY <1>0, <1>6, <1>7 DEF CallsBegun, At
  <2> QED BY <2>1, <2>2, <2>3, <2>4 DEF CallsBegun
<1>12. MutexesHeld'
  <2>1. ASSUME NEW u \in Threads, At(u, "act")'
        PROVE  holder'[MyShard(u)'] = u
    <3>1. u # t /\ At(u, "act") /\ Active(u)
      BY <2>1, <1>6, <1>7 DEF At, Active
    <3>2. MyShard(u)' = MyShard(u) /\ MyShard(u) \in Shards
      BY <3>1, <1>0, <1>3, <1>5, ActiveCall DEF MyShard
    <3>3. holder[MyShard(u)] = u
      BY <3>1, <1>0 DEF MutexesHeld
    <3> QED BY <3>2, <3>3, <1>0 DEF LockTypeOK
  <2>2. ASSUME NEW u \in Threads, At(u, "scan")'
        PROVE  holder'[Data] = u /\ call'[u] = begun' /\ calls'[begun'].kind # "write"
    <3>1. u = t /\ kind # "write"
      BY <2>2, <1>6, <1>7, <1>8 DEF At
    <3>2. holder'[Data] = t
      BY <3>1, <1>0 DEF LockTypeOK
    <3> QED BY <3>1, <3>2, <1>1, <1>4, <1>5
  <2> QED BY <2>1, <2>2 DEF MutexesHeld
<1>13. Past'
  <2>1. done' \subseteq 1..begun' /\ \A m \in Shards : applied'[m] \subseteq 1..begun'
    BY <1>0, <1>1, <1>9 DEF Past
  <2>2. \A i \in 1..begun' : i \in 1..begun \/ i = begun + 1
    BY <1>1
  <2>3. \A i \in 1..begun' : calls'[i].after \subseteq done'
    BY <1>0, <1>3, <1>4, <1>9, <2>2 DEF Past
  <2>4. \A i, j \in 1..begun' : j <= i => calls'[j].after \subseteq calls'[i].after
    <3> SUFFICES ASSUME NEW i \in 1..begun', NEW j \in 1..begun', j <= i
                 PROVE  calls'[j].after \subseteq calls'[i].after
      OBVIOUS
    <3>1. CASE i = begun + 1
      BY <3>1, <2>3, <1>4, <1>9
    <3>2. CASE i \in 1..begun
      <4>1. j \in 1..begun
        BY <3>2, <1>1
      <4> QED BY <4>1, <3>2, <1>0, <1>3 DEF Past
    <3> QED BY <3>1, <3>2, <2>2
  <2> QED BY <1>0, <1>9, <2>1, <2>3, <2>4 DEF Past
<1>14. WritesApplied'
  BY <1>0, <1>3, <1>9 DEF WritesApplied, Reaches, Past
<1>15. ScansGoOn'
  <2> SUFFICES ASSUME NEW u \in Threads, NEW m \in Shards, At(u, "scan")', m < next'[u]
               PROVE  FALSE
    BY DEF ScansGoOn
  <2>1. u = t
    BY <1>6, <1>8 DEF At
  <2> QED BY <2>1, <1>10, ShardLocksAssumption DEF Shards
<1>16. ScansComplete'
  <2>1. \A i \in done : i \in 1..begun /\ calls[i].after \subseteq 1..begun
    BY <1>0 DEF Past
  <2> QED BY <1>0, <1>3, <1>9, <2>1 DEF ScansComplete, Scans, WritesOf
<1>17. PoisonStartsInAShard'
  <2>1. Threads' = Threads /\ Sweepers \subseteq Threads
    BY DEF Threads, Sweepers
  <2> QED BY <2>1, <1>0, <1>6, <1>7 DEF PoisonStartsInAShard, At
<1> QED BY <1>2, <1>11, <1>12, <1>13, <1>14, <1>15, <1>16, <1>17 DEF IInv

\* A thread that holds the Arc of its shard locks the shard.
LEMMA LockShardStep ==
    ASSUME IInv, NEW t \in Threads, At(t, "arc"), Lock(t, MyShard(t)), Goto(t, "act"),
           UNCHANGED <<call, next, history>>
    PROVE  IInv'
<1> USE SetsDisjoint
<1>0. /\ LockTypeOK /\ CallsBegun /\ MutexesHeld /\ Past /\ WritesApplied
      /\ ScansGoOn /\ ScansComplete /\ PoisonStartsInAShard
  BY DEF IInv
<1>1. LockTypeOK'
  BY <1>0 DEF LockTypeOK, Lock, Goto, history
<1>2. MyShard(t) \in Shards /\ holder[MyShard(t)] = Nobody
  BY <1>0, ActiveCall DEF At, Active, Lock, CanLock
<1>3. \A u \in Threads : u # t => pc'[u] = pc[u]
  BY <1>0 DEF LockTypeOK, Goto
<1>4. pc[t] = "arc" /\ pc'[t] = "act"
  BY <1>0 DEF LockTypeOK, Goto, At
<1>5. CallsBegun'
  BY <1>0, <1>3, <1>4 DEF CallsBegun, Active, At, history
<1>6. MutexesHeld'
  <2>1. ASSUME NEW u \in Threads, At(u, "act")'
        PROVE  holder'[MyShard(u)'] = u
    <3>1. MyShard(u)' = MyShard(u)
      BY DEF MyShard, history
    <3>2. CASE u = t
      BY <3>1, <3>2, <1>0, <1>2 DEF LockTypeOK, Lock
    <3>3. CASE u # t
      <4>1. holder[MyShard(u)] = u /\ MyShard(u) \in Shards
        BY <2>1, <3>3, <1>0, <1>3, ActiveCall DEF MutexesHeld, At, Active
      <4> QED BY <4>1, <3>1, <1>0, <1>2, ShardLocksAssumption DEF LockTypeOK, Lock
    <3> QED BY <3>2, <3>3
  <2>2. ASSUME NEW u \in Threads, At(u, "scan")'
        PROVE  holder'[Data] = u /\ call'[u] = begun' /\ calls'[begun'].kind # "write"
    <3>1. u # t /\ At(u, "scan")
      BY <2>2, <1>3, <1>4 DEF At
    <3>2. holder[Data] = u /\ call[u] = begun /\ calls[begun].kind # "write"
      BY <3>1, <1>0 DEF MutexesHeld
    <3>3. holder'[Data] = holder[Data]
      BY <1>0, <1>2 DEF LockTypeOK, Lock
    <3> QED BY <3>2, <3>3 DEF history
  <2> QED BY <2>1, <2>2 DEF MutexesHeld
<1>7. Past' /\ WritesApplied' /\ ScansComplete'
  BY <1>0, HistoryKept
<1>8. ScansGoOn'
  BY <1>0, <1>3, <1>4 DEF ScansGoOn, At, Reaches, history
<1>9. PoisonStartsInAShard'
  BY <1>0, <1>3, <1>4 DEF PoisonStartsInAShard, At, Lock, Threads, Sweepers
<1> QED BY <1>1, <1>5, <1>6, <1>7, <1>8, <1>9 DEF IInv

\* The end of an operation, common to Act and EndScan: its mutex m is let go.
LEMMA ReturnStep ==
    ASSUME IInv, NEW t \in Threads, NEW m \in Mutexes, Returns(t), Unlock(m),
           \/ At(t, "act") /\ m = MyShard(t)
           \/ At(t, "scan") /\ m = Data,
           applied' \in [Shards -> SUBSET Ids], UNCHANGED <<begun, calls, seen>>
    PROVE  LockTypeOK' /\ CallsBegun' /\ MutexesHeld' /\ PoisonStartsInAShard'
<1> USE SetsDisjoint
<1>0. /\ LockTypeOK /\ CallsBegun /\ MutexesHeld /\ Past /\ WritesApplied
      /\ ScansGoOn /\ ScansComplete /\ PoisonStartsInAShard
  BY DEF IInv
<1>1. call[t] \in 1..begun /\ call[t] \in Ids /\ MyShard(t) \in Shards
  BY <1>0, ActiveCall DEF At, Active
<1>2. holder[m] = t
  BY <1>0, <1>1 DEF MutexesHeld
<1>3. LockTypeOK'
  BY <1>0, <1>1, ShardLocksAssumption DEF LockTypeOK, Returns, Unlock, Goto
<1>4. \A u \in Threads : u # t => pc'[u] = pc[u] /\ call'[u] = call[u] /\ next'[u] = next[u]
  BY <1>0 DEF LockTypeOK, Returns, Goto
<1>5. pc'[t] = "idle" /\ next'[t] = 0
  BY <1>0 DEF LockTypeOK, Returns, Goto
<1>6. done' = done \cup {call[t]}
  BY DEF Returns
<1>7. CallsBegun'
  <2>1. Active(t)
    BY DEF At, Active
  <2>2. \A u \in Threads : Active(u)' => u # t /\ Active(u) /\ call'[u] = call[u] /\ call[u] # call[t]
    BY <2>1, <1>0, <1>4, <1>5 DEF CallsBegun, Active
  <2>3. \A u \in Threads : Active(u)' => call'[u] \in 1..begun' /\ call'[u] \notin done'
    BY <2>2, <1>0, <1>6 DEF CallsBegun
  <2>4. \A u, v \in Threads : Active(u)' /\ Active(v)' /\ call'[u] = call'[v] => u = v
    BY <2>2, <1>0 DEF CallsBegun
  <2>5. \A u \in Threads : At(u, "arc")' \/ At(u, "act")' => calls'[call'[u]].kind = "write"
    BY <1>0, <1>4, <1>5 DEF CallsBegun, At
  <2>6. \A u \in Threads : At(u, "idle")' => next'[u] = 0
    BY <1>0, <1>4, <1>5 DEF CallsBegun, At
  <2> QED BY <2>3, <2>4, <2>5, <2>6 DEF CallsBegun
<1>8. MutexesHeld'
  <2>1. ASSUME NEW u \in Threads, At(u, "act")'
        PROVE  holder'[MyShard(u)'] = u
    <3>1. u # t /\ At(u, "act") /\ Active(u)
      BY <2>1, <1>4, <1>5 DEF At, Active
    <3>2. MyShard(u)' = MyShard(u) /\ MyShard(u) \in Shards /\ holder[MyShard(u)] = u
      BY <3>1, <1>0, <1>4, ActiveCall DEF MyShard, MutexesHeld
    <3> QED BY <3>1, <3>2, <1>0, <1>2 DEF LockTypeOK, Unlock
  <2>2. ASSUME NEW u \in Threads, At(u, "scan")'
        PROVE  holder'[Data] = u /\ call'[u] = begun' /\ calls'[begun'].kind # "write"
    <3>1. u # t /\ At(u, "scan")
      BY <2>2, <1>4, <1>5 DEF At
    <3>2. holder[Data] = u /\ call[u] = begun /\ calls[begun].kind # "write"
      BY <3>1, <1>0 DEF MutexesHeld
    <3>3. holder'[Data] = holder[Data]
      BY <3>1, <3>2, <1>0, <1>2 DEF LockTypeOK, Unlock
    <3> QED BY <3>1, <3>2, <3>3, <1>4
  <2> QED BY <2>1, <2>2 DEF MutexesHeld
<1>9. PoisonStartsInAShard'
  BY <1>0, <1>4, <1>5 DEF PoisonStartsInAShard, At, Unlock, Threads, Sweepers
<1> QED BY <1>3, <1>7, <1>8, <1>9

\* insert, remove or a command reaches its shard and returns.
LEMMA ActStep ==
    ASSUME IInv, NEW t \in Threads, Act(t)
    PROVE  IInv'
<1> USE SetsDisjoint
<1>0. /\ LockTypeOK /\ CallsBegun /\ MutexesHeld /\ Past /\ WritesApplied
      /\ ScansGoOn /\ ScansComplete /\ PoisonStartsInAShard
  BY DEF IInv
<1>1. call[t] \in 1..begun /\ call[t] \in Ids /\ MyShard(t) \in Shards
  BY <1>0, ActiveCall DEF Act, At, Active
<1>2. calls[call[t]].kind = "write"
  BY <1>0 DEF Act, CallsBegun
<1>3. applied' \in [Shards -> SUBSET Ids]
  BY <1>0, <1>1 DEF LockTypeOK, Act
<1>4. call[t] \in applied'[MyShard(t)] /\ \A m \in Shards : applied[m] \subseteq applied'[m]
  BY <1>0, <1>1 DEF LockTypeOK, Act
<1>5. \A m \in Shards : applied'[m] \subseteq applied[m] \cup {call[t]}
  BY <1>0, <1>1 DEF LockTypeOK, Act
<1>6. UNCHANGED <<begun, calls, seen>> /\ done' = done \cup {call[t]}
  BY DEF Act, Returns
<1>7. LockTypeOK' /\ CallsBegun' /\ MutexesHeld' /\ PoisonStartsInAShard'
  BY <1>1, <1>3, ReturnStep DEF Act
<1>8. \A u \in Threads : At(u, "scan")' => At(u, "scan") /\ call'[u] = call[u] /\ next'[u] = next[u]
  BY <1>0 DEF LockTypeOK, Act, Returns, Goto, At
<1>9. Past'
  BY <1>0, <1>1, <1>5, <1>6 DEF Past
<1>10. WritesApplied'
  BY <1>0, <1>2, <1>4, <1>6 DEF WritesApplied, Reaches, MyShard
<1>11. ScansGoOn'
  BY <1>0, <1>4, <1>6, <1>8 DEF ScansGoOn, Reaches
<1>12. ScansComplete'
  BY <1>0, <1>2, <1>6 DEF ScansComplete, Scans, WritesOf
<1> QED BY <1>7, <1>9, <1>10, <1>11, <1>12 DEF IInv

\* A scan that ends has visited every shard, so it has found every write that
\* had ended before it.
LEMMA EndScanStep ==
    ASSUME IInv, NEW t \in Threads, EndScan(t)
    PROVE  IInv'
<1> USE SetsDisjoint
<1>0. /\ LockTypeOK /\ CallsBegun /\ MutexesHeld /\ Past /\ WritesApplied
      /\ ScansGoOn /\ ScansComplete /\ PoisonStartsInAShard
  BY DEF IInv
<1>1. call[t] \in 1..begun /\ call[t] \in Ids
  BY <1>0, ActiveCall DEF EndScan, At, Active
<1>2. calls[call[t]].kind \in {"list", "clear"}
  BY <1>0, <1>1 DEF EndScan, MutexesHeld, LockTypeOK
<1>3. UNCHANGED <<applied, begun, calls, seen>> /\ done' = done \cup {call[t]}
  BY DEF EndScan, Returns
<1>4. LockTypeOK' /\ CallsBegun' /\ MutexesHeld' /\ PoisonStartsInAShard'
  BY <1>0, <1>3, ReturnStep DEF EndScan, LockTypeOK
<1>5. \A m \in Shards : m < next[t]
  BY ShardLocksAssumption DEF EndScan, Shards
<1>6. \A m \in Shards : calls[call[t]].kind = "clear" => call[t] \in applied[m]
  BY <1>0, <1>5 DEF ScansGoOn, EndScan
<1>7. WritesOf(calls[call[t]].after) \subseteq seen[call[t]]
  <2> SUFFICES ASSUME NEW w \in calls[call[t]].after, calls[w].kind # "list"
               PROVE  w \in seen[call[t]]
    BY DEF WritesOf
  <2>1. w \in Ids
    BY <1>0, <1>1 DEF LockTypeOK
  <2>2. PICK m \in Shards : Reaches(w, m)
    <3>1. calls[w].kind \in {"write", "clear"} /\ calls[w].shard \in Shards
      BY <1>0, <2>1 DEF LockTypeOK
    <3> QED BY <3>1 DEF Reaches
  <2> QED BY <1>0, <1>5, <2>2 DEF ScansGoOn, EndScan
<1>8. Past'
  BY <1>0, <1>1, <1>3 DEF Past
<1>9. WritesApplied'
  BY <1>0, <1>2, <1>3, <1>6 DEF WritesApplied, Reaches
<1>10. \A u \in Threads : At(u, "scan")' => At(u, "scan") /\ call'[u] = call[u] /\ next'[u] = next[u]
  BY <1>0 DEF LockTypeOK, EndScan, Returns, Goto, At
<1>11. ScansGoOn'
  BY <1>0, <1>3, <1>10 DEF ScansGoOn, Reaches
<1>12. ScansComplete'
  BY <1>0, <1>3, <1>7 DEF ScansComplete, Scans, WritesOf
<1> QED BY <1>4, <1>8, <1>9, <1>11, <1>12 DEF IInv

\* One turn of a scan finds, in the next shard, every write to it that had
\* ended when the scan began.
LEMMA VisitStep ==
    ASSUME IInv, NEW t \in Threads, ScanShard(t), ~MeetsPoison(t, next[t])
    PROVE  IInv'
<1> USE SetsDisjoint
<1>0. /\ LockTypeOK /\ CallsBegun /\ MutexesHeld /\ Past /\ WritesApplied
      /\ ScansGoOn /\ ScansComplete /\ PoisonStartsInAShard
  BY DEF IInv
<1> DEFINE c == call[t]
           m == next[t]
<1>1. At(t, "scan") /\ c \in 1..begun /\ c \in Ids /\ c \notin done /\ c = begun /\ holder[Data] = t
  BY <1>0, ActiveCall DEF ScanShard, At, Active, MutexesHeld, CallsBegun
<1>2. m \in Shards /\ m + 1 \in 0..HASH_NUMBER
  BY <1>0, ShardLocksAssumption DEF ScanShard, LockTypeOK, Shards
<1>3. UNCHANGED <<holder, poisoned, pc, call, begun, calls, done>>
  BY DEF ScanShard
<1>4. /\ seen' = [seen EXCEPT ![c] = @ \cup applied[m]]
      /\ applied' = IF calls[c].kind = "clear"
                      THEN [applied EXCEPT ![m] = @ \cup {c}] ELSE applied
      /\ next' = [next EXCEPT ![t] = m + 1]
  BY DEF ScanShard
<1> HIDE DEF c, m
<1>5. /\ seen' \in [Ids -> SUBSET Ids] /\ applied' \in [Shards -> SUBSET Ids]
      /\ next' \in [Threads -> 0..HASH_NUMBER]
  BY <1>0, <1>1, <1>2, <1>4 DEF LockTypeOK
<1>6. /\ \A i \in Ids : i # c => seen'[i] = seen[i]
      /\ seen'[c] = seen[c] \cup applied[m]
  BY <1>0, <1>1, <1>4 DEF LockTypeOK
<1>7. /\ \A s \in Shards : applied[s] \subseteq applied'[s] /\ applied'[s] \subseteq applied[s] \cup {c}
      /\ calls[c].kind = "clear" => c \in applied'[m]
  BY <1>0, <1>2, <1>4 DEF LockTypeOK
<1>8. LockTypeOK'
  BY <1>0, <1>3, <1>5 DEF LockTypeOK
<1>9. CallsBegun'
  <2>1. \A u \in Threads : At(u, "idle") => next'[u] = next[u]
    BY <1>0, <1>1, <1>4 DEF LockTypeOK, At
  <2> QED BY <2>1, <1>0, <1>3 DEF CallsBegun, Active, At
<1>10. MutexesHeld'
  BY <1>0, <1>3 DEF MutexesHeld, At, MyShard
<1>11. Past'
  <2>1. \A s \in Shards : applied'[s] \subseteq 1..begun
    BY <1>0, <1>1, <1>7 DEF Past
  <2>2. \A i \in Ids : seen'[i] \subseteq 1..i
    BY <1>0, <1>1, <1>2, <1>6 DEF Past
  <2> QED BY <2>1, <2>2, <1>0, <1>3 DEF Past
<1>12. WritesApplied'
  BY <1>0, <1>3, <1>7 DEF WritesApplied, Reaches
<1>13. ScansGoOn'
  <2> SUFFICES ASSUME NEW u \in Threads, NEW s \in Shards, At(u, "scan"), s < next'[u]
               PROVE  /\ \A w \in calls[c].after : Reaches(w, s) => w \in seen'[c]
                      /\ calls[c].kind = "clear" => c \in applied'[s]
                      /\ call[u] = c
    BY <1>3 DEF ScansGoOn, At, Reaches
  <2>1. u = t
    BY <1>0, <1>1 DEF MutexesHeld
  <2>2. next'[u] = m + 1
    BY <2>1, <1>0, <1>4 DEF LockTypeOK
  <2>3. CASE s = m
    <3>1. calls[c].after \subseteq done
      BY <1>0, <1>1 DEF Past
    <3> QED BY <2>1, <2>3, <3>1, <1>0, <1>6, <1>7 DEF WritesApplied, c
  <2>4. CASE s < m
    <3>1. /\ \A w \in calls[c].after : Reaches(w, s) => w \in seen[c]
          /\ calls[c].kind = "clear" => c \in applied[s]
      BY <2>4, <1>0, <1>1 DEF ScansGoOn, c, m
    <3> QED BY <3>1, <2>1, <1>6, <1>7 DEF c
  <2> QED BY <2>2, <2>3, <2>4, <1>2, ShardLocksAssumption DEF Shards
<1>14. ScansComplete'
  <2>1. \A i \in done : i \in Ids /\ i # c
    BY <1>0, <1>1 DEF LockTypeOK
  <2> QED BY <2>1, <1>0, <1>3, <1>6 DEF ScansComplete, Scans, WritesOf
<1>15. PoisonStartsInAShard'
  BY <1>0, <1>3 DEF PoisonStartsInAShard, At, Threads, Sweepers
<1> QED BY <1>8, <1>9, <1>10, <1>11, <1>12, <1>13, <1>14, <1>15 DEF IInv

\* ttl_keys guards nothing the invariant speaks of.
LEMMA TtlKeysStep ==
    ASSUME IInv, NEW t \in Threads, Lock(t, TtlKeys) \/ Unlock(TtlKeys),
           UNCHANGED <<pc, call, next, history>>
    PROVE  IInv'
<1> USE SetsDisjoint
<1>0. /\ LockTypeOK /\ CallsBegun /\ MutexesHeld /\ Past /\ WritesApplied
      /\ ScansGoOn /\ ScansComplete /\ PoisonStartsInAShard
  BY DEF IInv
<1>1. UNCHANGED poisoned /\ \A m \in Mutexes : m # TtlKeys => holder'[m] = holder[m]
  BY <1>0 DEF LockTypeOK, Lock, Unlock
<1>2. LockTypeOK'
  BY <1>0, <1>1 DEF LockTypeOK, Lock, Unlock, history
<1>3. CallsBegun'
  BY <1>0 DEF CallsBegun, Active, At, history
<1>4. MutexesHeld'
  <2>1. \A u \in Threads : At(u, "act") => MyShard(u) \in Shards
    BY <1>0, ActiveCall DEF At, Active
  <2>2. \A u \in Threads : MyShard(u)' = MyShard(u)
    BY DEF MyShard, history
  <2> QED BY <2>1, <2>2, <1>0, <1>1 DEF MutexesHeld, At, history
<1>5. Past' /\ WritesApplied' /\ ScansComplete'
  BY <1>0, HistoryKept
<1>6. ScansGoOn'
  BY <1>0 DEF ScansGoOn, At, Reaches, history
<1>7. PoisonStartsInAShard'
  BY <1>0, <1>1 DEF PoisonStartsInAShard, At, Threads, Sweepers
<1> QED BY <1>2, <1>3, <1>4, <1>5, <1>6, <1>7 DEF IInv

\* lock().unwrap() on a poisoned mutex.
LEMMA PoisonStep ==
    ASSUME IInv, NEW t \in Threads, NEW m, MeetsPoison(t, m)
    PROVE  IInv'
BY PanicStep DEF MeetsPoison

\* The steps that begin something: an operation, a scan, a turn of a sweeper.
LEMMA StartStep ==
    ASSUME IInv, NEW t \in Threads, Start(t)
    PROVE  IInv'
<1>1. ASSUME NEW length \in Lengths, GetAtomicHash(t, length)
      PROVE  IInv'
  <2>1. CASE MeetsPoison(t, Data)
    BY <2>1, PoisonStep
  <2>2. CASE ~MeetsPoison(t, Data)
    BY <1>1, <2>2, HashInRange, CallStep DEF GetAtomicHash
  <2> QED BY <2>1, <2>2
<1>2. CASE BeginScan(t)
  <2>1. CASE MeetsPoison(t, Data)
    BY <2>1, PoisonStep
  <2>2. CASE ~MeetsPoison(t, Data)
    <3>1. PICK kind \in {"list", "clear"} : Call(t, kind, 0)
      BY <1>2, <2>2 DEF BeginScan
    <3>2. /\ MayCall(t) /\ CanLock(Data) /\ Goto(t, "scan")
          /\ holder' = [holder EXCEPT ![Data] = t] /\ UNCHANGED <<poisoned, next>>
      BY <1>2, <2>2 DEF BeginScan, Lock
    <3> QED BY <3>1, <3>2, SetsDisjoint, CallStep
  <2> QED BY <2>1, <2>2
<1>3. CASE LockTtlKeys(t)
  BY <1>3, PoisonStep, TtlKeysStep DEF LockTtlKeys
<1> QED BY <1>1, <1>2, <1>3 DEF Start

\* The steps of a thread that is inside an operation or holds ttl_keys.
LEMMA ProceedStep ==
    ASSUME IInv, NEW t \in Threads, Proceed(t)
    PROVE  IInv'
<1>1. CASE LockShard(t)
  BY <1>1, PoisonStep, LockShardStep DEF LockShard
<1>2. CASE ScanShard(t)
  BY <1>2, PoisonStep, VisitStep
<1>3. CASE UnlockTtlKeys(t)
  BY <1>3, TtlKeysStep DEF UnlockTtlKeys
<1> QED BY <1>1, <1>2, <1>3, ActStep, EndScanStep DEF Proceed

\* The panics: under a shard, or by a mutex or a supervisor another panic has
\* reached before.
LEMMA FailStep ==
    ASSUME IInv, NEW t \in Threads, Fail(t)
    PROVE  IInv'
<1>1. CASE ActPanics(t)
  BY <1>1, PanicStep DEF ActPanics
<1>2. CASE ListTimeouts(t)
  BY <1>2, PoisonStep DEF ListTimeouts
<1>3. CASE MissSupervisor(t)
  <2>1. Supervisor \in Sweepers
    BY DEF Sweepers
  <2>2. poisoned # {}
    BY <1>3, <2>1 DEF IInv, PoisonStartsInAShard, MissSupervisor
  <2> QED BY <1>3, <2>2, PanicStep DEF MissSupervisor
<1> QED BY <1>1, <1>2, <1>3 DEF Fail

\* IInv is an invariant of every run of hash_shard.rs's locking protocol.
THEOREM Invariance == LockSpec => []IInv
<1>1. LockInit => IInv
  BY InitInv
<1>2. IInv /\ [LockNext]_lockVars => IInv'
  <2> SUFFICES ASSUME IInv, [LockNext]_lockVars PROVE IInv'
    OBVIOUS
  <2>1. ASSUME NEW t \in Threads, Start(t) \/ Proceed(t) \/ Fail(t) PROVE IInv'
    BY <2>1, StartStep, ProceedStep, FailStep
  <2>2. CASE UNCHANGED lockVars
    BY <2>2 DEF lockVars, IInv, LockTypeOK, CallsBegun, MutexesHeld, Past, WritesApplied,
                ScansGoOn, ScansComplete, PoisonStartsInAShard, Scans, WritesOf, Reaches,
                Active, At, MyShard
  <2> QED BY <2>1, <2>2 DEF LockNext
<1> QED BY <1>1, <1>2, PTL DEF LockSpec

\* Every variable keeps its type; in particular hash_funcion and the counter of
\* a scan never index a shard that does not exist.
THEOREM TypeCorrect == LockSpec => []LockTypeOK
<1>1. IInv => LockTypeOK
  BY DEF IInv
<1> QED BY <1>1, Invariance, PTL

\* No mutex is poisoned, and neither the supervisor nor an executor dies,
\* before a thread has panicked while it held a shard.
THEOREM PoisonFromShards == LockSpec => []PoisonStartsInAShard
<1>1. IInv => PoisonStartsInAShard
  BY DEF IInv
<1> QED BY <1>1, Invariance, PTL

\* clear, len, keys and key_value see a snapshot, although they lock the shards
\* one after the other: `after` only grows from an operation to the next and a
\* scan finds nothing younger than itself, so what it must have found besides
\* each write is what had ended when the scan began.
THEOREM Snapshots == LockSpec => []ScansAreSnapshots
<1>1. IInv => ScansAreSnapshots
  <2> SUFFICES ASSUME IInv, NEW i \in Scans, NEW j \in seen[i] \cup {i}
               PROVE  WritesOf(calls[j].after) \subseteq seen[i]
    BY DEF ScansAreSnapshots
  <2>1. i \in 1..begun /\ i \in Ids
    BY DEF IInv, LockTypeOK, Past, Scans
  <2>2. j \in 1..begun /\ j <= i
    BY <2>1 DEF IInv, LockTypeOK, Past
  <2>3. calls[j].after \subseteq calls[i].after
    BY <2>1, <2>2 DEF IInv, Past
  <2> QED BY <2>3 DEF IInv, ScansComplete, WritesOf
<1> QED BY <1>1, Invariance, PTL

====
