---- MODULE DatabaseHistory ----
(***************************************************************************)
(* The properties of Database.  Some relate a reply to what happened while *)
(* the command ran, and need a history variable: it observes the threads   *)
(* and constrains nothing.                                                 *)
(***************************************************************************)
EXTENDS Database

VARIABLES
    deadline,   \* the expiry time each key has after the commands executed so
                \* far, as the documentation of the commands has it
    seen,       \* for each thread, the replies an atomic execution of the unit
                \* it is in could have given at any moment since it began
    updates     \* how many updates of each key have been answered

historyVars == <<dbVars, deadline, seen, updates>>

-----------------------------------------------------------------------------
(* The atomic database the commands pretend to be *)

\* Forget the expiry time of k.
Timeless(k) == [deadline EXCEPT ![k] = Persistent]

\* EXPIRE takes effect with its message, PERSIST too; a command that
\* overwrites, creates or deletes a key takes its old timeout away when it
\* does so, and RENAME gives the new name everything the old one had.
DeadlineAfter(c) ==
    LET u == Unit(c)
    IN  CASE At(c, "send") /\ u.op \in {"expire", "expireat"} ->
                 [deadline EXCEPT ![u.key] = local[c].message.expire_time]
          [] At(c, "send") /\ u.op = "persist" -> Timeless(u.key)
          [] At(c, "insert") /\ u.op = "rename" ->
                 [Timeless(u.key) EXCEPT ![u.to_key] = deadline[u.key]]
          [] At(c, "insert") /\ u.op # "rename" -> Timeless(u.key)
          [] At(c, "remove") -> Timeless(u.key)
          [] At(c, "effect") /\ u.op = "copy" -> Timeless(u.to_key)
          [] At(c, "scan") /\ u.op = "flushdb" -> [k \in Keys |-> Persistent]
          [] OTHER -> deadline

\* A key swept away has no expiry time any more.
DeadlineAfterSweep ==
    [k \in Keys |-> IF contains_key(dictionary, k) /\ ~contains_key(dictionary', k)
                      THEN Persistent ELSE deadline[k]]

Alive(k) == /\ contains_key(dictionary, k)
            /\ deadline[k] = Persistent \/ deadline[k] >= now

\* The commands that tell what a key holds; GETDEL deletes it after that.
Reads == {"get", "getdel", "exists", "ttl", "strlen", "type", "lindex", "llen",
          "lrange", "sismember", "scard", "smembers"}

\* The reply of such a command executed in one step, now.
AtomicReply(u) ==
    CASE u.op = "exists" -> Boolean(Alive(u.key))
      [] u.op # "exists" /\ ~Alive(u.key) -> ReplyToMissing(u)
      [] u.op = "ttl" /\ Alive(u.key) ->
             Integer(IF deadline[u.key] = Persistent THEN -1 ELSE deadline[u.key] - now)
      [] OTHER -> EffectOn(Lookup(dictionary, u.key), u).reply

RepliesNow(c) ==
    IF Busy(c) /\ Unit(c).op \in Reads THEN {AtomicReply(Unit(c))} ELSE {}

\* The history starts with each unit and is forgotten when the request ends.
Record ==
    seen' = [c \in Clients |->
                (IF local[c].units = local'[c].units THEN seen[c] ELSE {})
                    \cup RepliesNow(c)']

\* The commands that add one to the number or the list of a key.
Updates == {"decrby", "rpush"}

Answers(c) == Busy(c) /\ local'[c].pc = "idle"

CountUpdate(c) ==
    updates' = IF Answers(c) /\ Unit(c).op \in Updates
                 THEN [updates EXCEPT ![Unit(c).key] = @ + 1] ELSE updates

HistoryInit == /\ DbInit
               /\ deadline = [k \in Keys |-> Persistent]
               /\ seen = [c \in Clients |-> {}]
               /\ updates = [k \in Keys |-> 0]

Observed(A) == A /\ UNCHANGED <<local, deadline, updates>> /\ Record

ObservedSweep(A) == A /\ UNCHANGED <<local, updates>> /\ deadline' = DeadlineAfterSweep /\ Record

HistoryNext ==
    \/ Observed(HandleExpire) \/ Observed(HandleClear) \/ Observed(HandleTransfer)
    \/ Observed(HandleTtl) \/ ObservedSweep(HandleCheck)
    \/ Observed(ExecutorWake) \/ ObservedSweep(ExecutorRemove)
    \/ Observed(ExecutorSleep) \/ Observed(ExecutorExit)
    \/ Observed(Tick)
    \/ \E c \in Clients :
          /\ Begin(c) \/ Client(c)
          /\ deadline' = IF Busy(c) THEN DeadlineAfter(c) ELSE deadline
          /\ Record
          /\ CountUpdate(c)

HistorySpec == HistoryInit /\ [][HistoryNext]_historyVars

-----------------------------------------------------------------------------
(* Safety *)

\* The unit that c is in gets the reply r: the next unit begins, or the request
\* is answered.
Replied(c, r) ==
    LET rs == Append(local[c].replies, r)
    IN  \/ local'[c].replies = rs
        \/ Answers(c) /\ local'[c].reply = CombinedReply(local[c].request.name, rs)

\* What the reads of these keys are answered when they end: what some moment
\* since they began would have given.
JustifiedIn(ks) ==
    \A c \in Clients :
        Busy(c) /\ Unit(c).op \in Reads /\ Unit(c).key \in ks /\ local'[c].units # local[c].units
            => \E r \in seen[c] : Replied(c, r)

\* GET and its kind look for the key, ask another thread for its timeout and
\* read the value, all at different times: still the reply is one that some
\* single moment since the command began would have given.  A command that
\* overwrites a key whose time has passed may make an old value appear again,
\* so this depends on which commands meet.
ReadsJustified == [][JustifiedIn(Keys)]_historyVars

\* The requests give none of these keys an expiry time, by EXPIRE or by RENAME.
GivesNoTime(ks) ==
    \A u \in UnitsSent : /\ u.op \in {"expire", "expireat"} => u.key \notin ks
                         /\ u.op = "rename" /\ u.to_key \in ks => u.key \in ks

Size(v) == CASE v = Absent -> 0
             [] v # Absent /\ v.type = "String" -> NumberOf(v.string)
             [] v # Absent /\ v.type = "List" -> Len(v.list)

\* The increments of a number and the elements pushed to a list are all there
\* when no command is under way, although each command looks for the key, waits
\* for the supervisor and only then changes it: no update of a key that exists
\* throughout is lost.
UpdatesKept ==
    (\A c \in Clients : ~Busy(c)) =>
        \A k \in Keys : updates[k] > 0 =>
            Size(Lookup(dictionary, k)) = Size(Lookup(Loaded, k)) + updates[k]

\* The keys that are updated, and when a unit of another kind leaves what such a
\* key holds, and that it has no expiry time, alone.
Counted == {u.key : u \in {v \in UnitsSent : v.op \in Updates}}

Harmless == (Reads \ {"getdel"}) \cup {"persist", "touch", "sort", "copy"}

LeavesAlone(u, k) ==
    /\ u.op # "flushdb"
    /\ u.op \in {"copy", "rename"} => u.to_key # k
    /\ u.op \notin Harmless \cup OnAllKeys => u.key # k

\* Requests whose updates can be counted: each adds one, to a number or a list
\* that was loaded, and no other command writes to its key.
UpdatesUndisturbed ==
    /\ \A r \in Requests : (\E u \in ToSet(r.units) : u.op \in Updates) => Len(r.units) = 1
    /\ \A u \in UnitsSent : u.op \in Updates =>
          LET v == Lookup(Loaded, u.key)
          IN  /\ v # Absent
              /\ \/ u.op = "decrby" /\ u.by = -1 /\ v.type = "String" /\ IsInteger(v.string)
                 \/ u.op = "rpush" /\ Len(u.texts) = 1 /\ v.type = "List"
    /\ \A u \in UnitsSent, k \in Counted : u.op \notin Updates => LeavesAlone(u, k)

\* So far the numbers stay within the width.
UpdatesFit ==
    \A k \in Counted : Lookup(Loaded, k).type = "String"
                           => Size(Lookup(Loaded, k)) + updates[k] <= MaxInt

\* The supervisor and the executors remove a key only when its own time has
\* passed: never one that was overwritten, deleted, persisted, renamed or
\* created since the time was set (the documentation of EXPIRE and RENAME).
LiveKeysKept ==
    [][UNCHANGED local => \A k \in Keys : Alive(k) => contains_key(dictionary', k)]_historyVars

HistoryFairSpec == HistorySpec /\ DbFairness

====
