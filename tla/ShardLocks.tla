---- MODULE ShardLocks ----
(***************************************************************************)
(* The mutexes of the key space.  hash_shard.rs keeps one around the       *)
(* vector of shards, `data`, and one around each shard; database.rs adds   *)
(* one around the vector of timeouts, `ttl_keys`.  The supervisor and the  *)
(* executors lock ttl_keys first; an operation on a key locks data only to *)
(* clone the Arc of its shard, and the shard after that; clear, len, keys  *)
(* and key_value keep data locked while they go through the shards.        *)
(*                                                                         *)
(* A panic poisons every mutex its thread holds, and whoever locks a       *)
(* poisoned mutex panics in turn, for every lock() is unwrapped.           *)
(*                                                                         *)
(* The content of a shard is abstracted to the set of operations that have *)
(* reached it: Database takes each operation as one atomic step, and this  *)
(* module says why it may.                                                 *)
(***************************************************************************)
EXTENDS Integers, FiniteSets

CONSTANTS Clients,       \* threads that execute commands, and the serializer
          Supervisor,    \* the thread of ttl_supervisor_run
          Executors,     \* the threads that sweep expired keys
          Nobody,
          HASH_NUMBER,   \* the number of shards, 10 in the code
          Lengths,       \* the lengths of the keys
          MaxCalls       \* bound: operations begun

Sweepers == Executors \cup {Supervisor}
Threads == Clients \cup Sweepers

ASSUME ShardLocksAssumption ==
    /\ HASH_NUMBER \in Nat \ {0} /\ Lengths \subseteq Nat
    /\ MaxCalls \in Nat
    /\ Clients \cap Sweepers = {}
    /\ Nobody \notin Threads

\* The mutexes, numbered in the order threads lock them.
TtlKeys == -2
Data == -1
Shards == 0..(HASH_NUMBER - 1)
Mutexes == {TtlKeys, Data} \cup Shards

Ids == 1..MaxCalls

VARIABLES holder,     \* the thread that holds each mutex, or Nobody
          poisoned,   \* the mutexes a thread panicked under
          pc,         \* where each thread is
          call,       \* the operation each thread is in, or 0
          next,       \* the shard each thread goes to next when it scans
          applied,    \* for each shard, the writing operations that reached it
          begun,      \* how many operations have begun
          calls,      \* what each was: its kind, its shard, and `after`, the
                      \* operations that had ended when it began
          seen,       \* what each scan found in the shards it has visited
          done        \* the operations that have ended

lockVars == <<holder, poisoned, pc, call, next, applied, begun, calls, seen, done>>

history == <<applied, begun, calls, seen, done>>

LockInit ==
    /\ holder = [m \in Mutexes |-> Nobody]
    /\ poisoned = {}
    /\ pc = [t \in Threads |-> "idle"]
    /\ call = [t \in Threads |-> 0]
    /\ next = [t \in Threads |-> 0]
    /\ applied = [s \in Shards |-> {}]
    /\ begun = 0
    /\ calls = [i \in Ids |-> [kind |-> "list", shard |-> 0, after |-> {}]]
    /\ seen = [i \in Ids |-> {}]
    /\ done = {}

-----------------------------------------------------------------------------

At(t, where) == pc[t] = where

Goto(t, where) == pc' = [pc EXCEPT ![t] = where]

HasTtlKeys(t) == holder[TtlKeys] = t

\* The thread unwinds: its guards are dropped, which poisons their mutexes.
Panic(t) ==
    /\ poisoned' = poisoned \cup {m \in Mutexes : holder[m] = t}
    /\ holder' = [m \in Mutexes |-> IF holder[m] = t THEN Nobody ELSE holder[m]]
    /\ Goto(t, "panicked")
    /\ UNCHANGED <<call, next, history>>

\* m.lock().unwrap() finds m poisoned.
MeetsPoison(t, m) == holder[m] = Nobody /\ m \in poisoned /\ Panic(t)

CanLock(m) == holder[m] = Nobody /\ m \notin poisoned

Lock(t, m) == CanLock(m) /\ holder' = [holder EXCEPT ![m] = t] /\ UNCHANGED poisoned

Unlock(m) == holder' = [holder EXCEPT ![m] = Nobody] /\ UNCHANGED poisoned

\* Thread t calls an operation of HashShard.
Call(t, kind, s) ==
    /\ begun < MaxCalls
    /\ begun' = begun + 1
    /\ calls' = [calls EXCEPT ![begun + 1] = [kind |-> kind, shard |-> s, after |-> done]]
    /\ call' = [call EXCEPT ![t] = begun + 1]
    /\ UNCHANGED <<applied, seen, done>>

Returns(t) ==
    /\ done' = done \cup {call[t]}
    /\ call' = [call EXCEPT ![t] = 0]
    /\ next' = [next EXCEPT ![t] = 0]
    /\ Goto(t, "idle")

\* Clients hold nothing between two operations, sweepers hold ttl_keys.
MayCall(t) == At(t, "idle") /\ (t \in Sweepers => HasTtlKeys(t))

\* Mutant: one shard too many.
hash_funcion_off(length) == length % (HASH_NUMBER + 1)

\* hash_funcion: the shard of a key, from the length of its name.
hash_funcion(length) == length % HASH_NUMBER

\* get_atomic_hash locks data, clones the Arc of the key's shard and unlocks.
GetAtomicHash(t, length) ==
    /\ MayCall(t)
    /\ \/ MeetsPoison(t, Data)
       \/ /\ CanLock(Data)
          /\ Call(t, "write", hash_funcion(length))
          /\ Goto(t, "arc")
          /\ UNCHANGED <<holder, poisoned, next>>

MyShard(t) == calls[call[t]].shard

LockShard(t) ==
    /\ At(t, "arc")
    /\ \/ MeetsPoison(t, MyShard(t))
       \/ Lock(t, MyShard(t)) /\ Goto(t, "act") /\ UNCHANGED <<call, next, history>>

\* Mutant: the command inserts through self.dictionary, which locks the shard
\* it holds already.
ActRelocks(t) ==
    /\ At(t, "act") /\ CanLock(MyShard(t))
    /\ applied' = [applied EXCEPT ![MyShard(t)] = @ \cup {call[t]}]
    /\ Unlock(MyShard(t))
    /\ Returns(t)
    /\ UNCHANGED <<begun, calls, seen>>

\* insert, remove, or what a command does to its value; the guard is dropped.
Act(t) ==
    /\ At(t, "act")
    /\ applied' = [applied EXCEPT ![MyShard(t)] = @ \cup {call[t]}]
    /\ Unlock(MyShard(t))
    /\ Returns(t)
    /\ UNCHANGED <<begun, calls, seen>>

\* touch when the clock has gone backwards, the arithmetic of a debug build.
ActPanics(t) == At(t, "act") /\ Panic(t)

\* Mutant: data is unlocked as soon as the iterator exists.
BeginScanUnlocked(t) ==
    /\ MayCall(t)
    /\ \/ MeetsPoison(t, Data)
       \/ /\ CanLock(Data)
          /\ \E kind \in {"list", "clear"} : Call(t, kind, 0)
          /\ Goto(t, "scan")
          /\ UNCHANGED <<holder, poisoned, next>>

\* clear, len, keys and key_value
BeginScan(t) ==
    /\ MayCall(t)
    /\ \/ MeetsPoison(t, Data)
       \/ /\ Lock(t, Data)
          /\ \E kind \in {"list", "clear"} : Call(t, kind, 0)
          /\ Goto(t, "scan")
          /\ UNCHANGED next

\* One turn of the loop: lock a shard, clear or read it, unlock it.
ScanShard(t) ==
    LET s == next[t]
        c == call[t]
    IN  /\ At(t, "scan") /\ s < HASH_NUMBER
        /\ \/ MeetsPoison(t, s)
           \/ /\ CanLock(s)
              /\ seen' = [seen EXCEPT ![c] = @ \cup applied[s]]
              /\ applied' = IF calls[c].kind = "clear"
                              THEN [applied EXCEPT ![s] = @ \cup {c}]
                              ELSE applied
              /\ next' = [next EXCEPT ![t] = s + 1]
              /\ UNCHANGED <<holder, poisoned, pc, call, begun, calls, done>>

EndScan(t) ==
    /\ At(t, "scan") /\ next[t] = HASH_NUMBER
    /\ Unlock(Data)
    /\ Returns(t)
    /\ UNCHANGED <<applied, begun, calls, seen>>

\* The supervisor at a message, an executor that wakes up.
LockTtlKeys(t) ==
    /\ At(t, "idle") /\ ~HasTtlKeys(t)
    /\ \/ MeetsPoison(t, TtlKeys)
       \/ Lock(t, TtlKeys) /\ UNCHANGED <<pc, call, next, history>>

\* Mutant: the sweep indexes a vector that may be empty.
UnlockTtlKeysIndexing(t) == At(t, "idle") /\ HasTtlKeys(t) /\ Panic(t)

\* The message is handled, the sweep has met a time to come; the guard goes.
UnlockTtlKeys(t) ==
    /\ At(t, "idle") /\ HasTtlKeys(t)
    /\ Unlock(TtlKeys)
    /\ UNCHANGED <<pc, call, next, history>>

\* The serializer lists the timeouts: it locks ttl_keys for that alone.
ListTimeouts(t) == At(t, "idle") /\ MeetsPoison(t, TtlKeys)

\* A message to a supervisor that is no more, or the wait for its answer.
MissSupervisor(t) == At(t, "idle") /\ At(Supervisor, "panicked") /\ Panic(t)

\* A thread that is inside an operation, or holds ttl_keys, goes on.
Proceed(t) ==
    \/ LockShard(t) \/ Act(t) \/ ScanShard(t) \/ EndScan(t)
    \/ t \in Sweepers /\ UnlockTtlKeys(t)

Start(t) ==
    \/ \E length \in Lengths : GetAtomicHash(t, length)
    \/ t \in Clients /\ BeginScan(t)
    \/ t \in Sweepers /\ LockTtlKeys(t)

\* Sweepers only remove keys, which cannot panic.
Fail(t) == t \in Clients /\ (ActPanics(t) \/ ListTimeouts(t) \/ MissSupervisor(t))

LockNext == \E t \in Threads : Start(t) \/ Proceed(t) \/ Fail(t)

LockSpec == LockInit /\ [][LockNext]_lockVars

\* Every mutex is handed on in the end, and a thread that may run runs.
LockFairSpec == LockSpec /\ \A t \in Threads : WF_lockVars(Proceed(t))

-----------------------------------------------------------------------------

LockTypeOK ==
    /\ holder \in [Mutexes -> Threads \cup {Nobody}]
    /\ poisoned \subseteq Mutexes
    /\ pc \in [Threads -> {"idle", "arc", "act", "scan", "panicked"}]
    /\ call \in [Threads -> 0..MaxCalls]
    /\ next \in [Threads -> 0..HASH_NUMBER]
    /\ applied \in [Shards -> SUBSET Ids]
    /\ begun \in 0..MaxCalls
    /\ calls \in [Ids -> [kind : {"write", "list", "clear"}, shard : Shards, after : SUBSET Ids]]
    /\ seen \in [Ids -> SUBSET Ids]
    /\ done \subseteq Ids

\* The operations among S that change a shard.
WritesOf(S) == {i \in S : calls[i].kind # "list"}

Scans == {i \in done : calls[i].kind # "write"}

\* What clear erases, and what len, keys and key_value find, is a snapshot:
\* all that was written before it began, and with each write every write that
\* had ended before that one began, although the shards are visited one after
\* the other while operations that have their Arc already go on.
ScansAreSnapshots ==
    \A i \in Scans : \A j \in seen[i] \cup {i} : WritesOf(calls[j].after) \subseteq seen[i]

\* Every poisoned mutex goes back to a panic in the code that works on a
\* shard: data is not poisoned before a shard is, ttl_keys not before either,
\* and the supervisor never dies before that.
PoisonStartsInAShard ==
    /\ poisoned # {} => poisoned \cap Shards # {}
    /\ \A t \in Sweepers : At(t, "panicked") => poisoned \cap Shards # {}

\* Every operation comes to its end or its thread panics; nobody waits for a
\* mutex for ever, and no sweeper keeps ttl_keys.
OperationsEnd ==
    \A t \in Threads : ~At(t, "idle") \/ HasTtlKeys(t)
                       ~> At(t, "panicked") \/ (At(t, "idle") /\ ~HasTtlKeys(t))

====
