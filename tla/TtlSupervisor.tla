---- MODULE TtlSupervisor ----
(***************************************************************************)
(* The expiry machinery of database.rs.                                    *)
(*                                                                         *)
(* One supervisor thread (ttl_supervisor_run) takes MessageTtl messages    *)
(* from an mpsc channel and keeps ttl_keys, a vector of keys with an       *)
(* expiry time behind a mutex.  Whenever an EXPIRE leaves the vector with  *)
(* one entry it spawns an executor thread; an executor sleeps 30 seconds,  *)
(* locks the vector, removes expired entries from its front together with  *)
(* their keys, and ends when it finds the vector empty.                    *)
(*                                                                         *)
(* The ttl_keys mutex: a supervisor handler holds it from its first line   *)
(* to its last, so a handler is one step; an executor holds it over a      *)
(* whole sweep while clients go on reading and writing the dictionary, so  *)
(* a sweep takes one step for each entry and `sweeping` says it is held.   *)
(*                                                                         *)
(* The handles that send messages are an open environment here: they post  *)
(* any message and write any key.  Database replaces them by the commands. *)
(***************************************************************************)
EXTENDS HashShard, TtlMessages

CONSTANTS MaxTime,       \* bound: the clock stops here
          MaxMailbox,    \* bound: messages in the channel at once
          ExpireTimes,   \* the expiry times the environment asks for
          Loaded         \* the dictionary Database::new read from the dump

ASSUME TtlAssumption ==
    /\ MaxTime \in Nat
    /\ MaxMailbox \in Nat
    /\ ExpireTimes \subseteq Nat
    /\ Loaded \in Dictionaries

VARIABLES
    now,         \* SystemTime::now()
    mailbox,     \* the mpsc channel, oldest message first
    replies,     \* what each requester's answer channel holds
    ttl_keys,    \* the vector of KeyTtl
    executors,   \* how many executor threads are alive
    sweeping,    \* an executor holds the ttl_keys mutex
    dictionary   \* the shards

ttlVars == <<now, mailbox, replies, ttl_keys, executors, sweeping, dictionary>>

KeyTtl == [key : Keys, expire_time : Nat]

TypeOK ==
    /\ now \in Nat
    /\ mailbox \in Seq(MessageTtl)
    /\ replies \in [Requesters -> RespondTtl]
    /\ ttl_keys \in Seq(KeyTtl)
    /\ executors \in Nat
    /\ sweeping \in BOOLEAN
    /\ dictionary \in Dictionaries

Init ==
    /\ now = 0
    /\ mailbox = <<>>
    /\ replies = [c \in Requesters |-> Waiting]
    /\ ttl_keys = <<>>
    /\ executors = 0
    /\ sweeping = FALSE
    /\ dictionary = Loaded

-----------------------------------------------------------------------------
(* The vector of expiry times *)

\* iter().position(|x| x.key == k): at most one position, the first.
PositionOf(v, k) == {i \in DOMAIN v : /\ v[i].key = k
                                      /\ \A j \in 1..(i - 1) : v[j].key # k}

HasEntry(v, k) == \E i \in DOMAIN v : v[i].key = k

\* The time found for k: that of its first entry.
TimeOf(v, k) == v[CHOOSE i \in DOMAIN v : i \in PositionOf(v, k)].expire_time

\* binary_search on a vector compared by expire_time only.  The two outcomes
\* are what its result always satisfies, on a vector in order or not: Ok at an
\* entry with that very time, Err between an earlier and a later neighbour.
FoundAt(v, t) == {p \in DOMAIN v : v[p].expire_time = t}

InsertionPoints(v, t) == {p \in 1..(Len(v) + 1) :
                             /\ p > 1 => v[p - 1].expire_time < t
                             /\ p <= Len(v) => t < v[p].expire_time}

Expired(e) == e.expire_time < now

\* Mutant: at an equal time the new entry replaces nothing and is dropped.
WithEntryLost(v, e) ==
    IF HasEntry(v, e.key)
      THEN {ReplaceAt(v, i, e) : i \in PositionOf(v, e.key)}
      ELSE {ReplaceAt(v, p, e) : p \in FoundAt(v, e.expire_time)}
           \cup {v : p \in InsertionPoints(v, e.expire_time)}

\* The vector after an EXPIRE: an entry of that key gets the new time and keeps
\* its position; otherwise the entry goes where binary_search says, and at an entry
\* with the same time it takes that entry's place.
WithEntry(v, e) ==
    IF HasEntry(v, e.key)
      THEN {ReplaceAt(v, i, e) : i \in PositionOf(v, e.key)}
      ELSE {ReplaceAt(v, p, e) : p \in FoundAt(v, e.expire_time)}
           \cup {InsertAt(v, p, e) : p \in InsertionPoints(v, e.expire_time)}

-----------------------------------------------------------------------------
(* The supervisor thread: one step for each message *)

\* The next message, when it is of this type and the mutex is free.
Receive(type) ==
    /\ mailbox # <<>>
    /\ Head(mailbox).type = type
    /\ mailbox' = Tail(mailbox)

Locked == ~sweeping

\* Mutant: spawn only when the vector grows to two entries.
SpawnLate(v) == IF Len(v) = 2 THEN executors + 1 ELSE executors

\* thread::spawn(executor) when the vector holds exactly one entry.
Spawn(v) == IF Len(v) = 1 THEN executors + 1 ELSE executors

HandleExpire ==
    /\ Receive("Expire") /\ Locked
    /\ LET m == Head(mailbox)
       IN  \E v \in WithEntry(ttl_keys, [key |-> m.key, expire_time |-> m.expire_time]) :
               ttl_keys' = v /\ executors' = Spawn(v)
    /\ UNCHANGED <<now, replies, sweeping, dictionary>>

HandleClear ==
    /\ Receive("Clear") /\ Locked
    /\ LET k == Head(mailbox).key
       IN  \/ \E i \in PositionOf(ttl_keys, k) : ttl_keys' = RemoveAt(ttl_keys, i)
           \/ ~HasEntry(ttl_keys, k) /\ UNCHANGED ttl_keys
    /\ UNCHANGED <<now, replies, executors, sweeping, dictionary>>

Renamed(e, k) == [key |-> k, expire_time |-> e.expire_time]

HandleTransfer ==
    /\ Receive("Transfer") /\ Locked
    /\ LET m == Head(mailbox)
       IN  \/ \E i \in PositionOf(ttl_keys, m.key) :
                  ttl_keys' = ReplaceAt(ttl_keys, i, Renamed(ttl_keys[i], m.to_key))
           \/ ~HasEntry(ttl_keys, m.key) /\ UNCHANGED ttl_keys
    /\ UNCHANGED <<now, replies, executors, sweeping, dictionary>>

\* Mutant: a key without an entry gets no answer.
HandleTtlSilent ==
    /\ Receive("Ttl") /\ Locked
    /\ LET m == Head(mailbox)
       IN  \/ \E i \in PositionOf(ttl_keys, m.key) :
                 replies' = [replies EXCEPT ![m.sender] = AnswerTtl(ttl_keys[i].expire_time)]
           \/ ~HasEntry(ttl_keys, m.key) /\ UNCHANGED replies
    /\ UNCHANGED <<now, ttl_keys, executors, sweeping, dictionary>>

HandleTtl ==
    /\ Receive("Ttl") /\ Locked
    /\ LET m == Head(mailbox)
       IN  \/ \E i \in PositionOf(ttl_keys, m.key) :
                 replies' = [replies EXCEPT ![m.sender] = AnswerTtl(ttl_keys[i].expire_time)]
           \/ /\ ~HasEntry(ttl_keys, m.key)
              /\ replies' = [replies EXCEPT ![m.sender] = AnswerPersistent]
    /\ UNCHANGED <<now, ttl_keys, executors, sweeping, dictionary>>

\* The answer is the shared vector itself: the handler does not lock it.
HandleAllTtL ==
    /\ Receive("AllTtL")
    /\ replies' = [replies EXCEPT ![Head(mailbox).sender] = AnswerList]
    /\ UNCHANGED <<now, ttl_keys, executors, sweeping, dictionary>>

HandleCheck ==
    /\ Receive("Check") /\ Locked
    /\ LET k == Head(mailbox).key
       IN  \/ \E i \in PositionOf(ttl_keys, k) :
                  /\ Expired(ttl_keys[i])
                  /\ dictionary' = remove(dictionary, k)
                  /\ ttl_keys' = RemoveAt(ttl_keys, i)
           \/ /\ \A i \in PositionOf(ttl_keys, k) : ~Expired(ttl_keys[i])
              /\ UNCHANGED <<dictionary, ttl_keys>>
    /\ UNCHANGED <<now, replies, executors, sweeping>>

Supervisor == \/ HandleExpire \/ HandleClear \/ HandleTransfer
              \/ HandleTtl \/ HandleAllTtL \/ HandleCheck

-----------------------------------------------------------------------------
(* The executor threads *)

\* The 30 seconds are over and the mutex is free: the sweep begins.
ExecutorWake ==
    /\ executors > 0 /\ Locked
    /\ sweeping' = TRUE
    /\ UNCHANGED <<now, mailbox, replies, ttl_keys, executors, dictionary>>

\* keys_locked.remove(0), then dictionary.remove: the vector is out of sight
\* until the sweep ends, so the two are one step at the second of them.
ExecutorRemove ==
    /\ sweeping /\ ttl_keys # <<>> /\ Expired(Head(ttl_keys))
    /\ dictionary' = remove(dictionary, Head(ttl_keys).key)
    /\ ttl_keys' = Tail(ttl_keys)
    /\ UNCHANGED <<now, mailbox, replies, executors, sweeping>>

\* The first entry is still alive: leave the rest and go back to sleep.
ExecutorSleep ==
    /\ sweeping /\ ttl_keys # <<>> /\ ~Expired(Head(ttl_keys))
    /\ sweeping' = FALSE
    /\ UNCHANGED <<now, mailbox, replies, ttl_keys, executors, dictionary>>

\* Mutant: the thread ends after one sweep whatever is left.
ExecutorExitEarly ==
    /\ sweeping /\ (ttl_keys # <<>> => ~Expired(Head(ttl_keys)))
    /\ sweeping' = FALSE
    /\ executors' = executors - 1
    /\ UNCHANGED <<now, mailbox, replies, ttl_keys, dictionary>>

\* Mutant: the thread ends without releasing the mutex.
ExecutorExitHolding ==
    /\ sweeping /\ ttl_keys = <<>>
    /\ executors' = executors - 1
    /\ UNCHANGED <<now, mailbox, replies, ttl_keys, sweeping, dictionary>>

\* Mutant: an empty vector ends the sweep and not the thread.
ExecutorExitNever ==
    /\ sweeping /\ ttl_keys = <<>>
    /\ sweeping' = FALSE
    /\ UNCHANGED <<now, mailbox, replies, ttl_keys, executors, dictionary>>

\* The vector is empty: this thread ends.
ExecutorExit ==
    /\ sweeping /\ ttl_keys = <<>>
    /\ sweeping' = FALSE
    /\ executors' = executors - 1
    /\ UNCHANGED <<now, mailbox, replies, ttl_keys, dictionary>>

Sweep == ExecutorRemove \/ ExecutorSleep \/ ExecutorExit

Executor == ExecutorWake \/ Sweep

-----------------------------------------------------------------------------
(* Time and the environment *)

Tick ==
    /\ now < MaxTime
    /\ now' = now + 1
    /\ UNCHANGED <<mailbox, replies, ttl_keys, executors, sweeping, dictionary>>

\* c has asked a question and has not taken the answer.
Asking(c) == \/ replies[c] # Waiting
             \/ \E i \in DOMAIN mailbox : /\ mailbox[i].type \in {"Ttl", "AllTtL"}
                                          /\ mailbox[i].sender = c

Send(m) ==
    /\ Len(mailbox) < MaxMailbox
    /\ mailbox' = Append(mailbox, m)

Post(m) ==
    /\ m.type \in {"Ttl", "AllTtL"} => ~Asking(m.sender)
    /\ Send(m)
    /\ UNCHANGED <<now, replies, ttl_keys, executors, sweeping, dictionary>>

EnvironmentMessages ==
    {Expire(k, t) : k \in Keys, t \in ExpireTimes}
    \cup {Clear(k) : k \in Keys} \cup {Check(k) : k \in Keys}
    \cup {Transfer(from, to) : from \in Keys, to \in Keys}
    \cup {Ttl(k, c) : k \in Keys, c \in Requesters} \cup {AllTtL(c) : c \in Requesters}

TakeReply(c) ==
    /\ replies[c] # Waiting
    /\ replies' = [replies EXCEPT ![c] = Waiting]
    /\ UNCHANGED <<now, mailbox, ttl_keys, executors, sweeping, dictionary>>

\* A command stores or removes a value in some shard, or FLUSHDB empties them all.
Write ==
    /\ \/ \E s \in Shards, k \in Keys :
             /\ dictionary'[s][k] \in StorageValues \cup {Absent}
             /\ dictionary' = [dictionary EXCEPT ![s][k] = dictionary'[s][k]]
       \/ dictionary' = clear(dictionary)
    /\ UNCHANGED <<now, mailbox, replies, ttl_keys, executors, sweeping>>

Environment ==
    \/ \E m \in EnvironmentMessages : Post(m)
    \/ \E c \in Requesters : TakeReply(c)
    \/ Write

Next == Supervisor \/ Executor \/ Tick \/ Environment

Spec == Init /\ [][Next]_ttlVars

-----------------------------------------------------------------------------
(* Safety *)

\* ttl_supervisor_run spawns an executor only when an EXPIRE leaves exactly
\* one entry, and an executor ends only on an empty vector: a vector that is
\* not empty always has a thread that will sweep it, and a held mutex always
\* has a living holder.
ExecutorCoverage ==
    /\ ttl_keys # <<>> => executors > 0
    /\ sweeping => executors > 0

\* A time leaves the vector only when the message handled names that key or
\* when the time has passed: what EXPIRE's documentation says of timeouts.
TimeoutClearedByOwnKey ==
    [][\A k \in Keys :
          HasEntry(ttl_keys, k) /\ ~HasEntry(ttl_keys', k)
            => \/ mailbox' # mailbox /\ mailbox # <<>> /\ Head(mailbox).key = k
               \/ \E i \in DOMAIN ttl_keys : ttl_keys[i].key = k /\ Expired(ttl_keys[i])]_ttlVars

-----------------------------------------------------------------------------
(* Liveness *)

\* Time passes; the supervisor's loop runs while there are messages, and gets
\* the mutex although executors take it again and again (they sleep 30
\* seconds between two sweeps, which is why its fairness is strong); an
\* executor's sleep ends and its sweep, which waits for nobody, goes on.  The
\* handles that post messages owe nothing.
Fairness ==
    /\ WF_ttlVars(Tick)
    /\ SF_ttlVars(Supervisor)
    /\ WF_ttlVars(ExecutorWake)
    /\ WF_ttlVars(Sweep)

FairSpec == Spec /\ Fairness

\* k has an entry that has expired, and so has every entry before it: the
\* first entry still alive is where the executor's loop breaks (2112).
Due(k) == \E i \in DOMAIN ttl_keys : /\ ttl_keys[i].key = k
                                     /\ \A j \in 1..i : Expired(ttl_keys[j])

\* An entry that is due is swept in the end, or stops being due by what clients
\* do, who may go on with EXPIRE, RENAME and the rest for ever: executors come
\* and go, and one is always left to do it.  Of an expired entry behind one that
\* is alive the code promises nothing: EXPIRE refreshes an entry where it
\* stands (206) and the sweep stops there, so while clients keep refreshing the
\* first entry, what has expired behind it stays (until somebody asks for it),
\* although EXPIRE's documentation says that the key is deleted (410).
ExpiredEntriesSwept == \A k \in Keys : Due(k) ~> ~Due(k)

\* The executors started for one vector do not pile up for ever: once it stays
\* empty all of them end.
ExecutorsRetire == ttl_keys = <<>> ~> (executors = 0 \/ ttl_keys # <<>>)

-----------------------------------------------------------------------------
(* The vector as a map *)

CONSTANT Persistent   \* "no expiry time"

ASSUME PersistentAssumption == Persistent \notin Nat

Timeouts == [k \in Keys |-> IF HasEntry(ttl_keys, k) THEN TimeOf(ttl_keys, k) ELSE Persistent]

Promised == INSTANCE TtlMap WITH timeout <- Timeouts

\* Every step of the supervisor and of the executors is a step of TtlMap: the
\* messages take effect in order, each on its own key only, the answers are
\* those of the map, and nothing else than the passing of time removes one.
ImplementsTtlMap == Promised!Spec

\* When the next message leaves the times of other keys alone: an EXPIRE of a
\* key without an entry finds no entry with the same time, whose place it would
\* take, and a TRANSFER finds no entry of the new name, to which it would add
\* a second one or which it would leave there.
MessagesApart ==
    mailbox # <<>> =>
        LET m == Head(mailbox)
        IN  /\ m.type = "Expire" => \/ HasEntry(ttl_keys, m.key)
                                    \/ FoundAt(ttl_keys, m.expire_time) = {}
            /\ m.type = "Transfer" => ~HasEntry(ttl_keys, m.to_key)

====
