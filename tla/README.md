# A TLA+ model of OxidadosFC's Redis server

The program under `src/` is a Redis-like server in Rust: one thread for each
connection, a key space of ten shards behind mutexes, one supervisor thread
that owns the expiry times, executor threads that sweep expired keys, a
serializer thread that dumps the key space every 30 seconds, a logger thread,
and publish/subscribe over named channels.  A second program is an HTTP
front end.  This directory models it in TLA+, checks it with TLC and proves
theorems about it with TLAPS.  Line numbers below are of `src/src/database.rs`
where no file is named.

## 1. Inventory

| part | source | state | operations | what makes it correct |
|---|---|---|---|---|
| values | `databasehelper.rs`, `database.rs` | none | the effect of each command on one entry | the documented meaning of each command, i32 at its limits |
| key space | `hash_shard.rs` | ten maps, each behind a mutex, the vector of them behind another | look-up, insert, remove, touch, clear, len, key_value, keys | a key is only ever in the shard its name hashes to; scans see a state of the whole |
| expiry | 191-279, 2100-2119 | the vector of `KeyTtl`, the mpsc channel, the executors | Expire, Clear, Transfer, Ttl, AllTtL, Check; the sweep | it behaves as a map from keys to times; what has expired is removed in the end, unless a later time stands in front of it in the vector; nothing alive is removed |
| commands | 303-2086 | local variables of the client's thread | 40 commands, most of them several accesses to shared state | replies that some moment justifies; no lost update; no panic; every command ends |
| SORT | 618-936, `request.rs` | none | by, limit, alpha, desc | the elements in the order asked for, cut where asked; no index out of range |
| dump | 38-188 | a text file | serialize every 30 s, reload at start | what is reloaded was there; a whole dump brings everything back |
| channels | `channels.rs` | the listeners under each name, monitors and the logger among them; the queues | subscribe, unsubscribe, send, get_channels, subcriptors_number | delivery to exactly the listeners; a receiver that is gone harms nobody else |
| requests | `request.rs` | none | `Request::new`, `parse_request`, `respond` | what is executed is what was asked; subscription mode lets no MONITOR through |
| sessions | `client.rs`, `request.rs`, `server.rs` | subscriptions, subscription mode, `total_clients`, ids | one loop per client, one relay per SUBSCRIBE | `total_clients` counts the connections; nothing left behind by a client that is gone |
| configuration, logger | `server_conf.rs`, `logger.rs` | options, verbose flag and its mutex, a file | get, set; write a line | a set option is the one used |
| HTTP proxy | `http_server/` | one stream to the server | forward a command, return the reply | a reply goes to the browser that asked |

How they interact.  A client thread calls the commands on its clone of
`Database`; all clones share the shards and the sending end of the supervisor's
channel.  A command asks the supervisor for a key's time by a message that
carries a fresh answer channel, and blocks on it.  The supervisor locks the
vector of times for each message; an executor locks it for a whole sweep and,
while it holds it, locks the shards of the keys it removes.  Before a command
runs, the client thread passes its text to the logger and to the monitors, which
are listeners under two reserved channel names; everything that is published,
logged or monitored goes through one mutex.  The serializer is one more reader
of the shards and of the vector of times.  The HTTP front end is one client of
the server, shared by all its browsers.

What is hard: commands are not atomic (between looking for a key, asking for
its time and touching its value every other thread may run); times pass while a
question is under way; the vector is searched by time and by key, in two
orders; executors come and go; the scans visit the shards one by one; a panic
under a mutex poisons it for everybody; the dump is not written atomically; who
listens is noted in two places; several threads read one stream.  `PROJECT.json` lists each hazard at its
line.

## 2. Plan

Modules in the order they were written; a composed module EXTENDS what it uses.

1. `StorageValue`, `HashShard`, `TtlMessages`, `TtlSupervisor`, with the
   abstract `TtlMap`. **done**
2. `Database` (the commands on top of the supervisor) and `DatabaseHistory`
   (their properties). **done**
3. `Sort` and `RequestParser`: from words to commands. **done**
4. `ShardLocks`: every mutex of the key space, scans, panics, poisoning.
   **done**
5. `Channels`, `ServerConf` and, on top of them and of `RequestParser`,
   `Sessions`, with the abstract `PubSub`. **done**
6. `Dump`: serializer, crash, restart. `HttpProxy`: the shared stream. **done**
7. Proofs, each module's beside it: `StorageValueProofs`, `MCStorageValueProofs`,
   `DatabaseProofs` (the supervisor and the commands on top of it),
   `ShardLocksProofs`, `SessionsProofs`, `HttpProxyProofs`, `DumpProofs`, on the
   common `DataLemmas`. Both refinements are among them. **done**

What stays with the model checker is named at the end of section 5.

```
 Vectors --- StorageValue --- HashShard --- TtlMessages --- TtlSupervisor ....implements.... TtlMap
    |             |                                             |
    |             +-- Dump                                   Database --- DatabaseHistory --- MCDatabase
    |             +-- ServerConf ------------+                  |
    |             |                          |              MCCommands
    |            Sort --- RequestParser -----+------------------+
    |                                        |
    +------------------- Channels --- Sessions ....implements.... PubSub
 ShardLocks      HttpProxy

 DataLemmas --- StorageValueProofs --- DatabaseProofs
    |                  +-------------- MCStorageValueProofs
    +---------- SessionsProofs, HttpProxyProofs, DumpProofs;       ShardLocksProofs needs none
```

## 3. The modules

**StorageValue** - what a command does to one entry while it holds the shard:
each operator is the part of the method after its `_exists` check and returns
the entry it leaves and the reply. Texts are sequences of small numbers, the
digits being themselves, because INCRBY needs them; every other text is opaque.
Integers have the width of `MaxInt` and wrap, as in a release build; a debug
build panics there (see `PROJECT.json`, hazards).

**Vectors**, **KeyNames** - `Without`, what `Vec::retain` leaves, and the names
of keys, which the modules about keys share.

**HashShard** - `dictionary[s][k]` is what shard `s` holds under `k`. `Lookup`,
`insert`, `remove`, `contains_key` go to the shard of the key;
`InsertInShardOf` is the insertion COPY makes into a shard it has locked for
another key. The function from keys to shards is a constant.

**TtlMessages**, **TtlMap** - the messages, and what the supervisor promises: a
map from keys to times, messages handled in order, each touching its own key
only, answers from the map, a time forgotten unasked only once it has passed.

**TtlSupervisor** - `ttl_supervisor_run` and `executor`, line by line: one
action for each message type (the handler holds the mutex from first to last
line, so it is one step), and for an executor one action to wake and lock, one
for each entry it removes, one to sleep again and one to end. `binary_search`
is modelled by what its result satisfies on any vector, sorted or not, since
in-place updates leave it unsorted. The environment posts any message and
writes any entry; a question is answered before the next is asked, because the
code blocks on it.

| action | code |
|---|---|
| `HandleExpire`, `WithEntry`, `Spawn` | 199-227 |
| `HandleClear`, `HandleTransfer`, `HandleTtl`, `HandleAllTtL`, `HandleCheck` | 228-275 |
| `ExecutorWake`, `ExecutorRemove`, `ExecutorSleep`, `ExecutorExit` | 2101-2118 |

**Database** - replaces that environment by client threads that execute
commands. A request is a list of units (LPUSH, SADD, MSET, MGET repeat the same
work), a unit is a walk over a few kinds of access: `ContainsKey`, `AskTtl`,
`Decide` (these three are `_exists`), `LockedEffect`, `InsertValue`,
`RemoveKey`, `SendMessage` and a few more, each one action for all commands
that make it. `FirstStep`, `AfterExists`, `AfterEffect`, `AfterInsert`,
`AfterSend` and `AfterRemove` say in which order a command makes them:

| command | accesses in order |
|---|---|
| GET, the other readers, LPOP, RPOP, LPUSHX, RPUSHX, LREM, LSET, SREM | contains, ask, answer, effect |
| SET | send Clear, insert |
| GETSET | those of GET, send Clear, insert |
| GETDEL | send Clear, those of GET, remove |
| APPEND, LPUSH, RPUSH, SADD | contains, ask, answer, then insert (missing) or effect |
| INCRBY, DECRBY | contains, ask, answer, insert "0" if missing, effect |
| EXPIRE, EXPIREAT | contains, ask, answer, clock, then remove or send Expire |
| PERSIST | contains, ask, answer, send Clear |
| TTL | contains, ask, answer, ask again, answer |
| RENAME | contains, ask, answer, remove, insert, send Transfer |
| COPY | contains, ask, answer (destination), the same (source), effect |
| TOUCH | send Check, touch, send Check |
| SORT | contains, ask, answer, effect on a copy |
| DEL | remove |
| FLUSHDB, DBSIZE, KEYS | one scan |

A thread that panics stops (`panicked`).

**DatabaseHistory** - the same actions with history variables that constrain
nothing: `deadline`, the expiry time each key should have by the documentation;
`seen`, the replies an atomic execution could have given at any moment since
the unit began; `updates`, the number of increments answered.

**Sort** - the words after the key as flags (`ParseSort`), the orderings, the
weights BY takes from other keys, and the cutting: `limit` corrects two numbers
and leaves the list as it is, `build_sort_vector` indexes by those numbers
later, or panics. Rust's sorts become `StableSort`, a rank for each element.

**RequestParser** - `Request::new`: `Shapes` is the table of the commands with a
fixed number of words and of what each word must parse as; the others have an
operator each. A database command becomes the list of units `Database`
executes (`exec_query`). `Parse` adds what subscription mode lets through:
besides what the match at `request.rs` 238-245 names, a SORT with one flag or
none, whose arm has returned before (`ReturnsEarly`).
`MCCommands` and `MCSessions` make all their requests by `Parse`, so that no
thread is ever given a request the parser would not make.

**ShardLocks** - `data`, the mutex of each shard and `ttl_keys`, with what each
thread holds. An operation on one key locks `data`, clones an Arc, unlocks, and
locks the shard later (`GetAtomicHash`, `LockShard`, `Act`); a scan keeps `data`
and goes from shard to shard (`BeginScan`, `ScanShard`, `EndScan`); sweepers
hold `ttl_keys` meanwhile. Any client may panic while it works on a shard, and
then `Panic` poisons what it holds; who meets a poisoned mutex panics
(`MeetsPoison`). `calls`, `seen` and `done` record history and constrain
nothing.

**Dump** - a file of two parts, TTL records and entry records; of the last
record any number of pieces may be there. `Truncate`, `ListTimes`, `WriteTime`,
`Newline`, `ListEntries`, `WriteEntry`, `EndDump` are `run_serializer` in order,
`Crash` may come between any two, `Restart` is `Database::new`. A name may have
the file's punctuation in it, and the reader splits it like the rest of the
record: `Part` says what there is in each piece of a name between semicolons
(a name, a number), `Readings` which of them the reader goes through in a whole
or a torn record. `TimePanics` and `EntryPanics` are the records it cannot get
past; the others give timeouts (`NameRead`, `SecondsRead`) and values
(`EntryName`, `EntryValues`), to other keys too: a record of `a,b:7` is a timeout
of 7 for `a`, a line of `a,List` an empty list for `a`. `Reread` is what
serializing and unserializing makes of a value, `Expireat` what the reload does
with a time. Client commands are here one step each: what they may do to a key
and its time.

**ServerConf** - the configuration as a function from options to texts: file,
defaults, CONFIG GET and SET, and the readers, who fall back to a default.

**Channels** - the listeners under each name, queues known by their receivers,
the receivers that were dropped, the poisoned mutex. `send` puts a message into
the queues of all listeners, or of those before the first that is gone, and
panics there; `Copies` is how many a queue gets.

**Sessions** - `handle_client` for each connection, one action for each access
to shared state in the order of the loop:

| action | code (`client.rs`, `request.rs` where said) |
|---|---|
| `Accept` | `server.rs` 68-113 |
| `ReadTimeOut`, `LockLogger`, `StoreVerbose` | 60-72 |
| `ReadRequest`, `ReadFails` | 74-77, 133-141 |
| `LogRequest`, `TellMonitors` | 151-154 |
| `RefuseInvalid`, `ExecuteQuery`, `Close` | 78-81, 100-116 |
| `ExecuteServer`, `ExecutePublisher`, `CountNext` | `request.rs` 291-324, 456-514 |
| `SubscribeNext`, `SubscribeEnds`, `UnsubscribeNext`, `UnsubscribeEnds` | `request.rs` 372-431 |
| `AddMonitor`, `MonitorMessage`, `MonitorFails` | `request.rs` 359-371 |
| `LogReply` | 118-120 |
| `LeaveNext` | 145-147 |
| `RelayMessage` | `request.rs` 394-400 |
| `LoggerOpens` | `logger.rs` 49-50 |

What a database command does is in `Database`; here it replies, fails or
panics. `HangUp` is the peer closing its connection at any moment.

**PubSub** - what publishing promises: a message is owed at once to whoever
listens at that moment and to nobody else, is handed over once and lost only
with its reader's connection; the one failure provided for is a listener that
is gone, or the log. `Sessions` maps to it by who listens under each name, what
is in the queues, who has hung up and whether the mutex is poisoned.

**HttpProxy** - the proxy's threads, the stream in both directions as sequences
of pieces whose borders TCP does not keep, and `handle_client` at the other
end. `alone` records whether another thread's exchange overlapped this one.

**MCTtlSupervisor**, **MCStorageValue**, **MCCommands**, **MCDatabase**,
**MCDump**, **MCHttpProxy**, **MCSessions** - the instances for TLC: budgets for
the environment, requests, loaded dictionaries. `ShardLocks` needs none.
**DataLemmas** and the modules named **...Proofs** - section 5.

Operators whose comment begins with "Mutant:" are plausible faults of a
definition that stands after them; `PROJECT.json` pairs each property with the
fault that breaks it. Nothing else uses them.

## 4. What is checked

| run | question | result |
|---|---|---|
| `supervisor` | any messages, writes and sweeps in any order: is a non-empty vector always watched by a thread, is an expired entry swept, however many messages come meanwhile, do idle executors end? | holds, for an expired entry with none alive in front of it in the vector |
| `supervisor_map` | do the vector and its threads implement `TtlMap`? | holds while messages are apart (`MessagesApart`): no EXPIRE takes a time another key has, no RENAME moves a time to a name that has one |
| `supervisor_collision` | does a timeout go away only by its own key's commands (413)? | no: at an equal time the newcomer replaces the other key (210) |
| `value_commands` | does LREM's search loop remove what it should, do INCRBY and DECRBY cancel at the ends of i32, does SORT reply with the arrangement its flags ask for, in whatever order they stand? | holds, with LIMIT inside the list and not next to DESC alone |
| `db_commands` | all commands against each other: do entries stay in their shard, is the supervisor used as its specification allows, does every command end? | holds, COPY within one shard |
| `db_history` | are the replies of GET and of each key of MGET justified under DEL, RENAME, TOUCH, EXPIRE and sweeps, is no increment lost? | holds |
| `db_stale_timeout` | are only dead keys swept? | no: DEL leaves the timeout to the key's next life (372) |
| `db_copy_shard` | do entries stay in their shard under COPY? | no (357) |
| `shard_locks` | does a scan that visits shard after shard see a snapshot, where can poisoning begin, does anybody wait for a mutex for ever? | a snapshot; only under a shard; no |
| `dump` | what comes back after a crash at any moment? | everything unchanged since a whole dump began, otherwise nothing that was not there, for keys no other name in the file is read as |
| `sessions` | do the two lists of subscriptions agree, who can poison the channels, is `total_clients` right, is the logger as verbose as configured, is everybody let go who hangs up, is a message delivered to exactly the listeners? | holds; the channels are poisoned by a monitor that is gone or a dead logger, and by nobody else |
| `http_proxy` | does a browser get its own reply, whole and in the end, and what do exchanges that overlap leave on the stream? | if no other exchange overlaps its own and the server does not time out; they leave nothing |

Each "no" is an entry of `findings` that quotes the line of the documentation
it contradicts. Some of the properties that hold look weak at first: they are as
strong as the code lets them be.

- `ScansAreSnapshots` says that with each write a scan sees every write that had
  ended before it began. That FLUSHDB and KEYS keep `data` locked is what makes
  it true: an operation that still holds the Arc of a shard may slip in behind
  the scan, but nothing that begins later may.
- `ExpiredEntriesSwept` is about entries that are due: expired, with nothing alive
  before them in the vector (`Due`). Behind an entry that EXPIRE keeps refreshing
  in its place an expired one may stay for ever; the messages of the run have no
  end, so that without `Due` it fails.
- `WholeDumpRestores` excepts names and values with the file's punctuation, times
  that share a second, and the keys a punctuated name harms: those that another
  name in the file is read as (`ItsLinesAreItsOwn`, `ItsTimesAreItsOwn`). It asks
  for nothing of keys that changed while the dump was written. Every other key
  comes back. The names of the run harm others in both ways: "a,:0;:a,:-1" is read
  as two timeouts of `a`, which end it or panic, and "a:;,List" gives it an empty
  list; without either exception the run fails.
- `RestoredWasHeld` is about torn dumps: there is no checksum and no rename, so
  keys may be missing, but no value is made up or mixed from two dumps. That is
  so of the keys no line of another name is read as: "a,List" and its like do
  make one up.
- `PoisonedByTheGone` separates the two kinds of listener: a MONITOR drops its
  receiver when its connection fails, while it is still registered; the relay
  of a SUBSCRIBE ignores the failure and goes on until nobody sends.
- `ClientsCounted` allows for the threads that panicked, which are never
  subtracted.
- `NothingOnTheStream` is what limits the damage of the shared stream: threads
  take each other's pieces, but the pieces taken are as many as the pieces sent.
- `HungUpEnds` excepts a MONITOR nobody tells anything.
- `VerboseFollowsConfig` speaks of the moments when every thread is back at
  reading: CONFIG SET takes effect at the next turn of some client's loop.

Further disagreements met while modelling that have no run of their own, all
visible in the definitions: EXISTS answers true for a key that was dead when it
began, when a sweep comes between its two questions (379); two GETSETs at once
return the same old value (1180); two INCRBYs of a missing key lose one, since
the slower sets it to 0 again (1090); TTL panics when the time ends between its
two questions (1006); SET clears the timeout before it inserts, so a GET in
between returns an expired value (1305); GETDEL does so even alone (1162); EXPIRE
refreshes an entry where it stands in the vector (206) and a sweep ends at the
first entry alive (2112), so a key that is refreshed again and again keeps those
that expired behind it where they are until somebody asks for them, though
"the key will automatically be deleted" (410); EXPIREs near the end of i64 and
negative EXPIREATs panic (448, 480);
RENAME of a key without timeout onto one with a timeout leaves that timeout in
place (241); PERSIST answers TRUE without a timeout to remove (575); GETSET of a
missing key sets nothing (1183); LREM answers the length left, not the number
removed (1694). SORT with LIMIT and DESC alone ignores the LIMIT (797), and a
LIMIT that reaches beyond the end of the list panics (754), LIMIT 0 n of a list
that has become empty included; SREM passes its key on as a member to remove (`request.rs` 202).
Names with ',', ';' or ':' stop the next start or give another key a value it
never had, a time or an end (92-119), values with ',' are cut (105), and two
times in one second become one (171). CONFIG SET takes negative numbers
which its readers replace by the default (`server_conf.rs` 134). Subscription
mode is never left (`request.rs` 402), and a SORT without flags, or with ALPHA,
DESC or LIMIT alone, is executed in it (`request.rs` 63-87) although it "doesn't
support other commands" (`request.rs` 13). The proxy takes the first word of the
HTTP request with "to" in it for the command, be it a header
(`http_server/.../main.rs` 119), and reads for ever from a stream the server
has closed (146).

### Bounds

`MaxTime` caps the clock at 1 to 3: a time that is still to come, one that is
now and one that has passed are all there is to tell apart. In `supervisor` one of the two times entries may have
never passes: that of a key refreshed again and again. There messages have no
end (`MaxPosts` is `Unlimited`), one at a time in the mailbox, but an EXPIRE is not
posted that would make a fourth entry or a third executor (`MaxEntries`,
`MaxExecutors`). `MaxMailbox` is 2 for the open environment elsewhere; 8 for the
commands, which two threads of two requests never exceed. In `supervisor_map` and
`supervisor_collision` `MaxPosts` is 4 and 3: enough for two keys to collide, be
renamed and be updated in place. `MaxWrites` lets `supervisor` write the
dictionary once.  Two or
three keys in two shards (k1 and k3 share one) are the fewest for RENAME, COPY
and collisions. Two threads of one or two requests each: the races found and
excluded are between two accesses of one command and another thread. `MaxInt`
is 7, 15 or 127 in place of 2^31-1 and `MaxLong` 127 in place of 2^63-1, lists have up to six elements. A run may
stop when its requests and its clock are used up, so deadlock is not checked;
that commands do not stop halfway is `RequestsAnswered`.

`shard_locks`: two shards, two clients, the supervisor and an executor, three
operations (`MaxCalls`): a scan, the write it may miss and the one it then must
not see. `dump`: two dumps (`MaxDumps`), so that a torn one follows a whole one;
one change (`MaxChanges`), which may fall between the two lists or between two
pieces; a clock of three ticks at two to the second, so that two times may share
a second or not; a value with a comma, and names that are read as another key,
in the list of timeouts and among the lines. `sessions`: two clients, of two requests and one (`MaxRequests`),
one channel besides the two reserved ones: enough for a subscriber or monitor
that hangs up while the other publishes, and for a request after a SUBSCRIBE;
the logger may fail to open its file, before or after somebody logs.
`http_proxy`: three browsers with one post each (`MaxPosts`): two that overlap
and one that comes after them.

### Fairness

Time passes (`Tick`). The supervisor's loop is strongly fair: it competes for
the mutex with executors that sleep 30 seconds between two short sweeps, so it
is free again and again and the supervisor gets it. An executor's sleep ends,
and a sweep waits only for a shard mutex nobody keeps. A client thread in a
command goes on; it owes no new request. The open environment owes nothing, and
in `supervisor` it may go on for ever.

In `ShardLocks` each thread that is inside an operation is weakly fair: calls
are bounded, so a mutex is not taken from it again and again for ever. In
`Sessions` the client threads are weakly fair, an error of a read included (a
closed connection is readable at once); the relays, the logger, the peers and
their requests owe nothing. In `HttpProxy` the exchange of each browser and the
server are weakly fair; the server's timeout is not, and owes nothing. `PubSub`
has no fairness of its own: TLC cannot evaluate ENABLED of an abstract action
under a refinement mapping, so that what is owed is handed over in the end is
not part of it.

## 5. What is proved

For all values of the constants, from the named assumptions alone:

| module | theorem | states |
|---|---|---|
| `DatabaseProofs` | `TypeCorrect`, `ExecutorCovered` | `TypeOK`, `ExecutorCoverage` |
| | `VectorImplementsMap` | `ImplementsTtlMap` of the open environment, given `[]MessagesApart` |
| | `CommandsTypeCorrect`, `EntriesFound` | `DbTypeOK`, `EntriesInOwnShard` |
| | `CommandsImplementSupervisor`, `CommandsCovered` | `ImplementsSupervisor`, `ExecutorCoverage` under the commands |
| | `CommandsSeeMap` | `ImplementsTtlMap` under the commands, given `[]MessagesApart` |
| | `UpdatesCounted` | `UpdatesKept`, given `UpdatesUndisturbed` and `[]UpdatesFit` |
| | `TimelessKeysStay`, `ReadsOfTimelessKeys` | what the machinery takes away and what reads are answered, for keys with `GivesNoTime` |
| | `ReadsJustifiedWithoutTimes` | `ReadsJustified`, given `GivesNoTime(Keys)` |
| `ShardLocksProofs` | `TypeCorrect`, `PoisonFromShards`, `Snapshots` | `LockTypeOK`, `PoisonStartsInAShard`, `ScansAreSnapshots` |
| `SessionsProofs` | `SessionTypeCorrect`, `SubscriptionsAgree`, `PoisonCorrect`, `CountCorrect`, `VerboseCorrect` | `SessionTypeOK`, `SubscriptionsRegistered`, `PoisonedByTheGone`, `ClientsCounted`, `VerboseFollowsConfig` |
| | `SessionsImplementPubSub` | `ImplementsPubSub` |
| `MCStorageValueProofs` | `IncrbyUndone`, `LremCorrect` | `IncrbyUndoesDecrby`, `LremRemovesFromItsEnd` |
| `HttpProxyProofs` | `ProxyTypeCorrect`, `QuietExchanges`, `QuietStream` | `ProxyTypeOK`, `QuietExchangeMatched`, `NothingOnTheStream` |
| `DumpProofs` | `TypeCorrect`, `RestoredHeld`, `WholeRestores` | `DumpTypeOK`, `RestoredWasHeld`, `WholeDumpRestores` |

That is every safety property of the runs, both refinements included, except
those named at the end of this section. Each rests on one inductive invariant of
its module (`IInv`, for the commands `DbIInv`, `TimelessInv`, `SeenInv` and `UInv`, for one value `VInv`),
there is one lemma for each action or kind of action, and the last step of each
theorem is the only temporal one.

**What is assumed.** `IntAssumption` (an i32 is no wider than an i64),
`HashShardAssumption` (the hash maps keys
to shards), `TtlAssumption` (times are naturals, the loaded dictionary is a
dictionary), `PersistentAssumption` (having no expiry time is not a time),
`AbsentAssumption` (having no entry is not a value), `DatabaseAssumption`
(clients may ask the supervisor), `RequestsAssumption` (what `RequestParser`
makes of a request: units of work with the parameters their operation reads),
`ShardLocksAssumption` (there is a shard, the clients are not sweepers),
`ChannelsAssumption` and `SessionsAssumption` (names that are sent are names),
`HttpProxyAssumption`, `ElementsAssumption` (what is pushed is a text), and
`DumpAssumption`, which says that keys and the members of a set are finitely
many, for a file lists them, and that the keys are all there is to be read as a
name in one of them. TLC evaluates each on every run of a module that has
it. Sets of clients, browsers, messages and requests may be infinite.

**The supervisor.** `IInv == TypeOK /\ ExecutorCoverage` is inductive as it
stands: the vector grows only in `HandleExpire`; if that leaves one entry an
executor is spawned, and if it leaves more there was an entry before, so an
executor by induction; an executor ends only on an empty vector, and the one
that ends is the one that holds the mutex. The type half is needed for the
lengths: `WithEntryType` shows that an insertion or replacement yields a sequence
of entries that is not empty.

**The vector as a map.** `TtlMap` is what the documentation makes one expect of
timeouts, and the code keeps it only in part: an EXPIRE at a time another key
has takes that key's place in the vector (the run `supervisor_collision`), and a
RENAME onto a name with an entry leaves two of the name. `MessagesApart` says of
the next message that it does neither; it is a condition on what is asked, not on
how it is handled, and the run `supervisor_map` shows how many behaviours meet
it. Given it at every step, no key has two entries (`KeysOnce`), and each handler
is one step of the map: `MapRemoved`, `MapReplaced` and `MapInserted` say
what removing, replacing and inserting at the place the binary search found, in a
vector that in-place updates have left unsorted, do to the map read off it. An
executor removes only what has expired. As the commands implement the supervisor,
the result holds under them too (`CommandsSeeMap`).

**One value.** The commands keep a string that is a number the numeral of an
integer in range (`Numeric`); `ReadBack` says that parsing such a numeral gives
the integer again, by induction over its digits, and `WrapCancels` that adding
and subtracting the same amount cancel in wrapped arithmetic, at the one amount
whose negation overflows included. For LREM, `IsPart` says that a list is what
another one has at some of its positions, in order: the element at a position
comes at the rank of that position. `FirstGoes` is one turn of the loop: the
search that starts again finds the position of the smallest rank among those
left, and by `RemoveTimesTakesNearest`, an induction over the turns, what is
gone after n of them are the n nearest to the head. A negative count reverses
the list, works on it and reverses it back: `PartMirrored` and `RankMirrored`
carry the result over to the tail.

**The commands.** `StorageValueProofs` shows of each operator of `StorageValue`
that it leaves a value of the program, or nothing, whatever it finds.
`DatabaseProofs` then says where a thread may be: `IsAt` relates the next access
to the operation (a thread about to insert is in one of eight commands),
`HasUnits` and `Underway` say that it has work left, holds a value to save and
is about to send a message the supervisor understands. Each access is a
`ClientStep`: an environment step of `TtlSupervisor`, or none, and a move of the
one thread to a place that satisfies `ThreadOK`. Both halves come from the same
lemma, so `DbSpec => Spec` and the induction need one case distinction, and the
theorems about the supervisor carry over. `EntriesFound` has two hypotheses,
`CopiesWithinShard` and `LoadedInOwnShard`: the second is what `Database::new`
does, the first is not what the code does, and the run `db_copy_shard` shows
where it leads without.

**Updates.** That no update is lost is true only of keys nobody else writes to:
two INCRBYs of a missing key lose one. `UpdatesUndisturbed` says which requests
the theorem is about: each update is a request of its own, adds one to a number
or a list that was loaded, and whatever else is requested leaves what its key
holds and that it has no expiry time alone. Reading it, COPY from it, PERSIST,
TOUCH and SORT are allowed, and anything at all on other keys, timeouts,
FLUSHDB excepted. The requests of `db_history` are such, and TLC evaluates that
(`RequestsUndisturbed`). `UpdatesFit` says that so far the numbers have not
reached the width, at which DECRBY wraps. The invariant `UInv` divides the
threads in two. A `Calm` one has no update among its units, and `CalmSpares` goes
through its steps once. An `Updating` one goes straight from the look-up to the
effect, because its key is there (`CountKept`) and has no time (`TimelessInv`,
below). The effect itself is `OneMore`, which for a number needs `ReadBack`: the
next update must be able to read what this one wrote.

**Keys without a time.** `GivesNoTime(ks)` says of the requests that none of them
gives a key of `ks` an expiry time: no EXPIRE or EXPIREAT of it, no RENAME of a
key outside `ks` to it. It says nothing of the other keys, and everything else may
be done to those in `ks`. In `db_history` it holds of `k2` beside EXPIRE and
RENAME of others, and TLC evaluates that (`SecondKeyTimeless`). `TimelessInv(ks)`:
no entry of the vector, no Expire in the mailbox and no message a thread is about
to send is for such a key, and no Transfer to one comes from elsewhere. That
alone does not tell what a thread is told, for the answers carry no key:
`NoTimeFor` adds that between a question and its answer every question of that
thread in the mailbox is about a key of `ks`. So the sweeps and lazy expiry spare
these keys (`TimelessKeysStay`; where times are given, `db_stale_timeout` shows
one swept that should not be), and what is read of them is justified
(`ReadsOfTimelessKeys`): `SeenInv` relates where a reader is to what has been seen.
A reader that found nothing has seen the reply to a missing key, one that found
its key has seen that it exists, GETDEL about to remove has seen what it saved,
and the step that ends the unit replies with one of these, or with what the lock
it holds shows at that moment. Deletions, overwrites and RENAMEs away may happen
at any step between. `UpdatesCounted` rests on the same lemmas, with the updated
keys for `ks`.

**The mutexes.** `ScansAreSnapshots` speaks of scans that have ended and says
nothing of how they came about, so it is far from inductive. `IInv` adds six
parts. `CallsBegun`: an operation under way belongs to one thread and has not
ended. `MutexesHeld`: who works on a shard holds it; who scans holds `data`, and
no operation has begun since, for each must lock `data` first. `Past`: what had
ended when an operation began only grows from one operation to the next, and a
scan finds nothing younger than itself. `WritesApplied`: a write that has ended
is in its shard. `ScansGoOn`: behind a scan nothing that had ended before it is
missing. `ScansComplete`: the same of scans that have ended. The snapshot follows
from the last and from `Past`: what must accompany a write that was found had
ended when the write began, so it had ended when the scan began. A panic keeps
the invariant because it only lets mutexes go, and because it happens under a
shard or after another one did.

**The sessions.** One invariant implies all five properties, because they need
each other: that a client is in a list of listeners exactly when its own list
says so (`AllRegistered`) needs that nobody is in a list twice
(`OwnListsDistinct`, `ListenersDistinct`), that the log is never unsubscribed
(`LogListens`), and that a thread that monitored and reads on either is in
subscription mode, where MONITOR is refused though a SORT is not
(`SortSubscribesNobody`), or will meet its own dropped
receiver and poison the mutex before it could register again (`MonitorsOnce`).
`PoisonedByTheGone` needs to know who drops receivers (`DroppedByTheGone`), the
counter a finite set of threads served (`Counted`), the verbosity that a thread
which changed it is still to read it (`VerboseKnown`). Most steps keep what
their thread holds: `CalmStep` shows once what those preserve, `TellStep` adds
the sending of a message, `SubscribedStep`, `UnsubscribedStep` and `DroppedStep`
are about the steps that change the lists.

**Publishing.** That the sessions implement `PubSub` needs, besides that
invariant, what is in the queues (`QueuesInv`). Everybody listens with a queue of
their own, and nobody twice under a name, so whoever listens is owed a message
once (`Copies` is 0 or 1 for them). `Fresh`: a message still to be sent is in no
queue. A message is told by its sender, the number of the request and what it is
(the request itself, its reply, or the text of a PUBLISH); `Stage` orders what a
thread sends in one request, so what it sends next is new to every queue, even
when a PUBLISH names the log or the monitors. A relay reads its queue for ever,
so no message is lost before its reader has hung up.

**The proxy.** The property is about a browser that is alone; what makes it true
is about the others. `NothingLeftOver`: what is on the stream and what the server
owes is at most two pieces for each thread in an exchange. `PiecesAlternate`: text
and newline take turns, so a thread that stops reading at a newline has taken one
of the newlines. With nobody else in an exchange the stream is empty
(`QuietStream`), and `LoneExchange` follows the one that begins there.

**The dump.** `IInv` has four parts besides the types. `Phases`: how far the file
has come at each place of the serializer. `Remembered`: whatever is in the file,
or about to be, the key has held since the dump began. `Planned` is what a part
of the file will be once the records still to write are in it; `SteadyListed`
says that it names each key nothing has changed exactly once and as it is in
memory, or never if it has no value or time, and that the finished parts do.
`RestoredWasHeld` follows from `Remembered`, because the value of a key comes
from some line that is read as one of it, and that line is its own.
`WholeDumpRestores` follows from `SteadyListed` and from lemmas about the reload,
by induction over the records of the file and, in each, over the parts of its
name: a key keeps its value or loses it (`LoadedKeeps`), keeps it without a
timeout when it is read in no record (`LoadedUnnamed`), and with the time of its
own record when it is read in no other one, unless that has passed or another
reading gives the same (`LoadedNamed`). There is no panic when every number read
is one (`LoadedPeacefully`). `OneTimeout` is what one reading does to one key.

**How the model was written to be proved about.** The bodies of `SelectSeq`,
`FoldLeft`, `:>` and `@@` are out of the provers' reach, so `Without`, `ValueOf`
and `LoadedFrom` are recursive functions and the channels a function constructor;
`DataLemmas!WithoutProperties`, `StorageValueProofs!ValueSteps` and
`DumpProofs!LoadedSteps` say of each what it does. The induction they need is
`DataLemmas!Induction`, over a set of numbers. Arms of a CASE exclude each other.

**Only model-checked:**

- Liveness (`ExpiredEntriesSwept`, `ExecutorsRetire`, `RequestsAnswered`,
  `OperationsEnd`, `HungUpEnds`, `QuietBrowserAnswered`), which the prover does not
  reach.
- `ReadsJustified` of keys that are given times: it holds for the requests of its
  run, and the races listed in section 4 break it for others (a GET beside a SET
  of a key whose time has passed), so a theorem would need as its hypothesis which
  commands may meet, and to relate the histories of all threads to the order of
  the mailbox. Proved is the part about keys without a time.
- `SortAsDocumented`: it speaks of particular requests and weights, and rests on
  `StableSort`, which takes the ordering as an operator, and on a CHOOSE among the
  arrangements of a set; for other elements SORT answers an error.

## 6. Not modelled, and why

- The glob matcher: eleven lines that leave the work to a regular expression
  crate. A pattern is the set of names it matches.
- The wording of replies, log lines and HTTP pages, and what reaches only them:
  `last_access` (TOUCH reports it), uptime and process id (INFO).
- SORT BY's reading of other keys inside `Database`: `Sort` has its effect on the
  reply, for any keys and values; that those may change between two reads is
  not composed with it.
- Requests longer than the 512 bytes of one read and bytes that are no UTF-8,
  which `parse_request` skips. That TCP may join or part requests is in
  `HttpProxy`, where it matters; a client of `Sessions` sends one at a time.
- Failures at start-up (no configuration, port in use), which end the process
  before it has state.
- `HASH_NUMBER = 10`, the 30 seconds of sleeps, and 2^31: constants of the
  models, given small values by the configurations.
