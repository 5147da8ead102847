---- MODULE Database ----
(***************************************************************************)
(* The commands of database.rs, executed by several client threads on the  *)
(* dictionary and the expiry machinery they share.                         *)
(*                                                                         *)
(* A command is a sequence of accesses to shared state, and other threads  *)
(* run between any two of them.  Almost all begin with `_exists`: look for *)
(* the key, ask the supervisor for its expiry time, wait for the answer    *)
(* and compare it with the clock.  Then come the access under the shard's  *)
(* mutex, an insertion, a removal, a message to the supervisor.  Each      *)
(* access is one action here, the same action for every command that makes *)
(* it; Step says where a command goes next.                                *)
(*                                                                         *)
(* A request is a sequence of units: LPUSH, SADD, MSET and MGET do their   *)
(* whole work once for each value or key; every other command is one unit. *)
(***************************************************************************)
EXTENDS TtlSupervisor, Sort

CONSTANTS Clients,       \* the threads that serve one connection each
          Requests,      \* the requests clients may send
          MaxRequests    \* bound: requests of one client

ASSUME DatabaseAssumption ==
    /\ Clients \subseteq Requesters
    /\ MaxRequests \in Nat

\* The operations of units: those with one access to the entry of their key,
\* which EffectOn describes; those with an access of their own; those that only
\* look for the key or change its expiry time; those that do not look first.
OnEntry == {"get", "getset", "getdel", "strlen", "append", "decrby", "type", "lindex", "llen",
            "lpop", "rpop", "lpush_one", "rpush", "lpushx", "rpushx", "lrange", "lrem", "lset",
            "sismember", "scard", "sadd_one", "smembers", "srem"}
OnKeys == {"copy", "rename", "sort"}
OnKeyAlone == {"exists", "ttl", "persist", "expire", "expireat"}
Unchecked == {"set", "del", "touch"}
OnAllKeys == {"flushdb", "dbsize", "keys"}

\* The arguments a unit has, by its operation.
WellFormed(u) ==
    /\ u.op \in OnEntry \cup OnKeys \cup OnKeyAlone \cup Unchecked \cup OnAllKeys
    /\ u.op \notin OnAllKeys => u.key \in Keys
    /\ u.op \in {"copy", "rename"} => u.to_key \in Keys
    /\ u.op \in {"append", "lpush_one", "sadd_one", "lrem", "lset", "set", "getset"} => u.text \in Texts
    /\ u.op \in {"rpush", "lpushx", "rpushx"} => u.texts \in Seq(Texts)
    /\ u.op = "decrby" => u.by \in Int
    /\ u.op = "lrem" => u.count \in Int
    /\ u.op = "lset" => u.index \in Nat
    /\ u.op \in {"expire", "expireat"} => u.seconds \in Int

\* The times its EXPIREs and EXPIREATs may send the supervisor, whenever.
TimesOf(u) ==
    CASE u.op = "expire"   -> {t + u.seconds : t \in 0..MaxTime} \cap (0..MaxLong)
      [] u.op = "expireat" -> {u.seconds} \cap Nat
      [] OTHER -> {}

UnitsSent == UNION {ToSet(r.units) : r \in Requests}

ASSUME RequestsAssumption ==
    /\ \A r \in Requests : r.units \in Seq(UnitsSent)
    /\ \A u \in UnitsSent : WellFormed(u) /\ TimesOf(u) \subseteq ExpireTimes

VARIABLE local   \* the state of each client thread

dbVars == <<ttlVars, local>>

NoMessage == [type |-> "NoMessage"]

\* The local variables of a thread that waits for a request.  `reply` is the
\* answer to the last one.
Idle(request, reply, left) ==
    [pc |-> "idle", request |-> request, units |-> <<>>, replies |-> <<>>,
     contains |-> FALSE, checks |-> 0, saved |-> Absent, message |-> NoMessage,
     reply |-> reply, left |-> left]

NoRequest == [name |-> "none", units |-> <<>>]

DbInit ==
    /\ Init
    /\ local = [c \in Clients |-> Idle(NoRequest, Nil, MaxRequests)]

-----------------------------------------------------------------------------
(* What each command does *)

\* Where a unit begins: SET and GETDEL send a message before they look,
\* TOUCH too; DEL, FLUSHDB and the commands on all keys do not look at all.
FirstStep(u) ==
    CASE u.op \in {"set", "getdel", "touch"} -> "send"
      [] u.op = "del" -> "remove"
      [] u.op \in {"flushdb", "dbsize", "keys"} -> "scan"
      [] OTHER -> "contains"

FirstMessage(u) ==
    CASE u.op \in {"set", "getdel"} -> Clear(u.key)
      [] u.op = "touch" -> Check(u.key)
      [] OTHER -> NoMessage

\* The key `_exists` is asked about; COPY asks about its destination first.
LookedUp(l) ==
    LET u == Head(l.units)
    IN  IF u.op = "copy" /\ l.checks = 0 THEN u.to_key ELSE u.key

Upserts == {"append", "lpush_one", "rpush", "sadd_one"}

\* What a command that creates a missing key stores there.
NewValue(u) ==
    CASE u.op = "append"    -> Leaves(String(u.text), Integer(Len(u.text)))
      [] u.op = "lpush_one" -> Leaves(List(<<u.text>>), Integer(1))
      [] u.op = "rpush"     -> Leaves(List(u.texts), Integer(Len(u.texts)))
      [] u.op = "sadd_one"  -> Leaves(Set({u.text}), Integer(1))
      [] u.op = "decrby"    -> Leaves(String(TextOf(0)), Nil)
      [] u.op \in {"set", "getset"} -> Leaves(String(u.text), Success)

\* The reply to a key that does not exist.
ReplyToMissing(u) ==
    CASE u.op \in {"get", "getset", "getdel", "strlen", "lindex", "lpop", "rpop"} -> Nil
      [] u.op \in {"llen", "lpushx", "lrem"} -> Integer(0)
      [] u.op \in {"lrange", "smembers", "sort"} -> Texts_(<<>>)
      [] u.op \in {"rpushx", "sismember", "scard", "srem", "expire", "expireat",
                   "exists"} -> Boolean(FALSE)
      [] u.op \in {"lset", "copy", "persist", "rename"} -> Err("NonExistentKey")
      [] u.op = "type" -> TypeName("none")
      [] u.op = "ttl" -> Integer(-2)

\* What a command does to the entry of its key under the shard's mutex.
EffectOn(v, u) ==
    CASE u.op \in {"get", "getset", "getdel"} -> get(v)
      [] u.op = "strlen"    -> strlen(v)
      [] u.op = "append"    -> append(v, u.text)
      [] u.op = "decrby"    -> decrby(v, u.by)
      [] u.op = "type"      -> get_type(v)
      [] u.op = "lindex"    -> lindex(v, u.index)
      [] u.op = "llen"      -> llen(v)
      [] u.op = "lpop"      -> lpop(v)
      [] u.op = "rpop"      -> rpop(v)
      [] u.op = "lpush_one" -> lpush_one(v, u.text)
      [] u.op = "rpush"     -> rpush(v, u.texts)
      [] u.op = "lpushx"    -> lpushx(v, u.texts)
      [] u.op = "rpushx"    -> rpushx(v, u.texts)
      [] u.op = "lrange"    -> lrange(v, u.ini, u.end)
      [] u.op = "lrem"      -> lrem(v, u.count, u.text)
      [] u.op = "lset"      -> lset(v, u.index, u.text)
      [] u.op = "sismember" -> sismember(v, u.text)
      [] u.op = "scard"     -> scard(v)
      [] u.op = "sadd_one"  -> sadd_one(v, u.text)
      [] u.op = "smembers"  -> smembers(v)
      [] u.op = "srem"      -> srem(v, u.texts)

\* The reply to a request from those to its units.
CombinedReply(name, rs) ==
    CASE name = "mset" -> Success
      [] name = "mget" -> [type |-> "List", replies |->
                              [i \in DOMAIN rs |-> IF rs[i].type = "Err" THEN Nil ELSE rs[i]]]
      [] name = "sadd" /\ Last(rs).type = "Integer" ->
             Integer(FoldLeft(LAMBDA n, r : n + r.integer, 0,
                              SelectSeq(rs, LAMBDA r : r.type = "Integer")))
      [] OTHER -> Last(rs)

-----------------------------------------------------------------------------
(* Where a thread goes next *)

\* The unit at the head of l.units begins.
Enter(l) ==
    LET u == Head(l.units)
    IN  [l EXCEPT !.pc = FirstStep(u), !.message = FirstMessage(u),
                  !.contains = FALSE, !.checks = 0, !.saved = Absent]

\* The unit has its reply: the next unit begins, or the request is answered.
Finish(l, reply) ==
    LET rs == Append(l.replies, reply)
    IN  IF Len(l.units) > 1
          THEN Enter([l EXCEPT !.units = Tail(l.units), !.replies = rs])
          ELSE Idle(l.request, CombinedReply(l.request.name, rs), l.left)

Goto(l, pc) == [l EXCEPT !.pc = pc]

GoSend(l, m) == [l EXCEPT !.pc = "send", !.message = m]

\* `_exists` has answered.
AfterExists(l, exists) ==
    LET u == Head(l.units)
    IN  CASE u.op = "copy" /\ l.checks = 0 ->
                 IF exists THEN Finish(l, Err("KeyAlredyExist"))
                           ELSE [Goto(l, "contains") EXCEPT !.checks = 1, !.contains = FALSE]
          [] u.op = "exists" -> Finish(l, Boolean(exists))
          [] u.op \in Upserts \cup {"decrby"} /\ ~exists -> Goto(l, "insert")
          [] /\ u.op \notin Upserts \cup {"decrby", "exists"} /\ ~exists
             /\ ~(u.op = "copy" /\ l.checks = 0) -> Finish(l, ReplyToMissing(u))
          [] u.op = "ttl" /\ exists -> Goto(l, "ask_again")
          [] u.op = "persist" /\ exists -> GoSend(l, Clear(u.key))
          [] u.op \in {"expire", "expireat"} /\ exists -> Goto(l, "clock")
          [] OTHER -> Goto(l, "effect")

\* The entry has been read or changed; v is what was found.
AfterEffect(l, v, reply) ==
    LET u == Head(l.units)
    IN  CASE u.op = "getset" /\ reply.type = "Text" ->
                 [GoSend(l, Clear(u.key)) EXCEPT !.saved = v]
          [] u.op = "getdel" /\ reply.type = "Text" -> [Goto(l, "remove") EXCEPT !.saved = v]
          [] u.op = "rename" /\ v # Absent -> [Goto(l, "insert") EXCEPT !.saved = v]
          [] OTHER -> Finish(l, reply)

AfterInsert(l) ==
    LET u == Head(l.units)
    IN  CASE u.op = "decrby" -> Goto(l, "effect")
          [] u.op = "rename" -> GoSend(l, Transfer(u.key, u.to_key))
          [] u.op = "getset" -> Finish(l, get(l.saved).reply)
          [] OTHER -> Finish(l, NewValue(u).reply)

AfterSend(l) ==
    LET u == Head(l.units)
    IN  CASE u.op \in {"set", "getset"} -> Goto(l, "insert")
          [] u.op = "getdel" -> Goto(l, "contains")
          [] u.op = "touch" /\ l.checks = 0 -> Goto(l, "touch")
          [] u.op = "touch" /\ l.checks = 1 -> Finish(l, Integer(1))
          [] u.op = "rename" -> Finish(l, Success)
          [] OTHER -> Finish(l, Boolean(TRUE))

AfterRemove(l) ==
    LET u == Head(l.units)
    IN  CASE u.op = "del" -> Finish(l, Success)
          [] u.op = "getdel" -> Finish(l, get(l.saved).reply)
          [] OTHER -> Finish(l, Boolean(TRUE))

-----------------------------------------------------------------------------
(* The accesses to shared state, one action each *)

At(c, pc) == local[c].pc = pc

Unit(c) == Head(local[c].units)

Moves(c, l) == local' = [local EXCEPT ![c] = l]

\* The thread has parsed a request.  MGET without a key has nothing to do.
Begin(c) ==
    /\ At(c, "idle") /\ local[c].left > 0
    /\ \E r \in Requests :
           LET l == [local[c] EXCEPT !.left = @ - 1]
           IN  Moves(c, IF r.units = <<>>
                          THEN Idle(r, CombinedReply(r.name, <<>>), l.left)
                          ELSE Enter([l EXCEPT !.request = r, !.units = r.units, !.reply = Nil]))
    /\ UNCHANGED ttlVars

\* _exists: self.dictionary.contains_key(key)
ContainsKey(c) ==
    /\ At(c, "contains")
    /\ Moves(c, [Goto(local[c], "ask") EXCEPT
                    !.contains = contains_key(dictionary, LookedUp(local[c]))])
    /\ UNCHANGED ttlVars

\* get_expire_time: the question goes out ...
AskTtl(c) ==
    /\ \/ At(c, "ask") /\ Moves(c, Goto(local[c], "answer"))
       \/ At(c, "ask_again") /\ Moves(c, Goto(local[c], "answer_again"))
    /\ Post(Ttl(LookedUp(local[c]), c))

\* Mutant: the last moment of a key's life counts as past.
IsPastOrNow(answer) == answer.type = "Ttl" /\ answer.expire_time <= now

\* Mutant: a key without an expiry time counts as gone.
IsPastOrPersistent(answer) == answer.type # "Ttl" \/ answer.expire_time < now

\* expire_time < SystemTime::now()
IsPast(answer) == answer.type = "Ttl" /\ answer.expire_time < now

\* ... and the answer is compared with the clock: _exists returns.
Decide(c) ==
    /\ At(c, "answer")
    /\ TakeReply(c)
    /\ Moves(c, AfterExists(local[c], local[c].contains /\ ~IsPast(replies[c])))

\* ttl: `duration_since(now).unwrap()` panics when the time has passed since.
AnswerTtlCommand(c) ==
    /\ At(c, "answer_again")
    /\ TakeReply(c)
    /\ \/ IsPast(replies[c]) /\ Moves(c, Goto(local[c], "panicked"))
       \/ /\ ~IsPast(replies[c])
          /\ Moves(c, Finish(local[c], Integer(IF replies[c].type = "Ttl"
                                                 THEN replies[c].expire_time - now
                                                 ELSE -1)))

\* Mutant: a time in the past is sent to the supervisor like any other.
ReadClockUnchecked(c) ==
    LET u == Unit(c)
        time == IF u.op = "expire" THEN now + u.seconds ELSE u.seconds
    IN  /\ At(c, "clock")
        /\ Moves(c, GoSend(local[c], Expire(u.key, time)))
        /\ UNCHANGED ttlVars

\* expire and expireat read the clock.  A time in the past removes the key.
\* A negative EXPIREAT, and an EXPIRE that ends beyond MaxLong, are seconds no
\* clock can be moved by, and the unwrap panics; otherwise the supervisor is
\* told when the key ends.
ReadClock(c) ==
    LET u == Unit(c)
        time == IF u.op = "expire" THEN now + u.seconds ELSE u.seconds
    IN  /\ At(c, "clock")
        /\ CASE u.op = "expireat" /\ u.seconds < 0 -> Moves(c, Goto(local[c], "panicked"))
             [] u.op = "expire" /\ time > MaxLong -> Moves(c, Goto(local[c], "panicked"))
             [] u.op = "expire" /\ u.seconds < 0 -> Moves(c, Goto(local[c], "remove"))
             [] u.op = "expireat" /\ u.seconds \in 0..(now - 1) -> Moves(c, Goto(local[c], "remove"))
             [] OTHER -> Moves(c, GoSend(local[c], Expire(u.key, time)))
        /\ UNCHANGED ttlVars

OnlyDictionary == UNCHANGED <<now, mailbox, replies, ttl_keys, executors, sweeping>>

\* The access to the key's entry while its shard is locked.
LockedEffect(c) ==
    LET u == Unit(c)
        v == Lookup(dictionary, u.key)
        e == EffectOn(v, u)
    IN  /\ At(c, "effect") /\ u.op \notin {"copy", "rename", "sort"}
        /\ dictionary' = insert(dictionary, u.key, e.value)
        /\ Moves(c, AfterEffect(local[c], v, e.reply))
        /\ OnlyDictionary

\* sort copies the elements while the shard is locked and orders the copy; a
\* LIMIT beyond the end of the list panics, the shard unlocked again.  Its BY,
\* which goes on to read other keys, is left to Sort.
SortEffect(c) ==
    LET u == Unit(c)
    IN  /\ At(c, "effect") /\ u.op = "sort"
        /\ \E reply \in Sorts(Lookup(dictionary, u.key), u.flags, <<>>) :
               Moves(c, IF reply = Panics THEN Goto(local[c], "panicked")
                                          ELSE Finish(local[c], reply))
        /\ UNCHANGED ttlVars

\* copy keeps the shard of the source locked and inserts the destination there.
CopyEffect(c) ==
    LET u == Unit(c)
        v == Lookup(dictionary, u.key)
    IN  /\ At(c, "effect") /\ u.op = "copy"
        /\ \/ /\ v # Absent
              /\ dictionary' = InsertInShardOf(dictionary, u.key, u.to_key, v)
              /\ Moves(c, Finish(local[c], Success))
           \/ /\ v = Absent
              /\ Moves(c, Finish(local[c], Err("NonExistentKey")))
              /\ UNCHANGED dictionary
        /\ OnlyDictionary

\* rename takes the value away from the old name before it has a new one.
RenameEffect(c) ==
    LET u == Unit(c)
        v == Lookup(dictionary, u.key)
    IN  /\ At(c, "effect") /\ u.op = "rename"
        /\ dictionary' = remove(dictionary, u.key)
        /\ Moves(c, AfterEffect(local[c], v, Err("NonExistentKey")))
        /\ OnlyDictionary

\* Mutant: the new name goes where the old one was.
InsertValueOldShard(c) ==
    LET u == Unit(c)
        l == local[c]
    IN  /\ At(c, "insert")
        /\ dictionary' = IF u.op = "rename"
                           THEN InsertInShardOf(dictionary, u.key, u.to_key, l.saved)
                           ELSE insert(dictionary, u.key, NewValue(u).value)
        /\ Moves(c, AfterInsert(l))
        /\ OnlyDictionary

\* self.dictionary.insert of a whole value, under the name the command gives it.
InsertValue(c) ==
    LET u == Unit(c)
        l == local[c]
    IN  /\ At(c, "insert")
        /\ dictionary' = IF u.op = "rename" THEN insert(dictionary, u.to_key, l.saved)
                                            ELSE insert(dictionary, u.key, NewValue(u).value)
        /\ Moves(c, AfterInsert(l))
        /\ OnlyDictionary

RemoveKey(c) ==
    /\ At(c, "remove")
    /\ dictionary' = remove(dictionary, Unit(c).key)
    /\ Moves(c, AfterRemove(local[c]))
    /\ OnlyDictionary

SendMessage(c) ==
    /\ At(c, "send")
    /\ Post(local[c].message)
    /\ Moves(c, AfterSend([local[c] EXCEPT !.message = NoMessage]))

\* touch: the second CHECK follows only if the key was found.
TouchKey(c) ==
    /\ At(c, "touch")
    /\ Moves(c, IF contains_key(dictionary, Unit(c).key)
                  THEN [GoSend(local[c], Check(Unit(c).key)) EXCEPT !.checks = 1]
                  ELSE Finish(local[c], Integer(0)))
    /\ UNCHANGED ttlVars

\* flushdb, dbsize and keys go through all the shards.
ScanDictionary(c) ==
    /\ At(c, "scan")
    /\ \/ /\ Unit(c).op = "flushdb"
          /\ dictionary' = clear(dictionary)
          /\ Moves(c, Finish(local[c], Success))
       \/ /\ Unit(c).op = "dbsize"
          /\ Moves(c, Finish(local[c], Integer(len(dictionary))))
          /\ UNCHANGED dictionary
       \/ /\ Unit(c).op = "keys"
          /\ Moves(c, Finish(local[c], [type |-> "Keys", entries |-> Entries(dictionary)]))
          /\ UNCHANGED dictionary
    /\ OnlyDictionary

Client(c) == \/ ContainsKey(c) \/ AskTtl(c) \/ Decide(c) \/ AnswerTtlCommand(c)
             \/ ReadClock(c) \/ LockedEffect(c) \/ SortEffect(c) \/ CopyEffect(c)
             \/ RenameEffect(c) \/ InsertValue(c) \/ RemoveKey(c) \/ SendMessage(c) \/ TouchKey(c)
             \/ ScanDictionary(c)

DbNext == \/ (Supervisor \/ Executor \/ Tick) /\ UNCHANGED local
          \/ \E c \in Clients : Begin(c) \/ Client(c)

DbSpec == DbInit /\ [][DbNext]_dbVars

-----------------------------------------------------------------------------
(* What holds of the commands whatever they mean *)

Busy(c) == local[c].pc \notin {"idle", "panicked"}

Pcs == {"idle", "contains", "ask", "answer", "ask_again", "answer_again", "clock",
        "effect", "insert", "remove", "send", "touch", "scan", "panicked"}

DbTypeOK ==
    /\ TypeOK
    /\ \A c \in Clients :
          /\ local[c].pc \in Pcs
          /\ local[c].message \in MessageTtl \cup {NoMessage}
          /\ local[c].saved \in StorageValues \cup {Absent}
          /\ local[c].left \in 0..MaxRequests
          /\ Busy(c) <=> local[c].units # <<>> /\ ~At(c, "panicked")

\* The commands use the supervisor as its open environment may: they post its
\* messages, wait for one answer at a time and take it, write one entry of the
\* dictionary in a step, or empty it.  What is proved and checked of Spec
\* holds of the whole.
ImplementsSupervisor == Spec

\* The shard an entry is in is the one its key hashes to: a key in another
\* shard is listed by KEYS and found by nothing else.
EntriesInOwnShard ==
    \A s \in Shards, k \in Keys : dictionary[s][k] # Absent => hash_funcion[k] = s

\* A thread that serves a request goes on.
DbFairness == /\ WF_dbVars(Tick /\ UNCHANGED local)
              /\ SF_dbVars(Supervisor /\ UNCHANGED local)
              /\ WF_dbVars(ExecutorWake /\ UNCHANGED local)
              /\ WF_dbVars(Sweep /\ UNCHANGED local)
              /\ \A c \in Clients : WF_dbVars(Client(c))

DbFairSpec == DbSpec /\ DbFairness

\* Every command ends, although it waits for the supervisor, which waits for
\* the executors: the recv() of each question gets its answer.
RequestsAnswered == \A c \in Clients : Busy(c) ~> ~Busy(c)

====
