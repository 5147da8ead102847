---- MODULE Dump ----
(***************************************************************************)
(* The dump file: the serializer thread of database.rs, which writes it    *)
(* every thirty seconds, a crash of the process between any two of its     *)
(* writes, and Database::new, which reads the file at the next start.      *)
(*                                                                         *)
(* A name and a text are sequences of characters, as in StorageValue; the  *)
(* characters the file uses as punctuation mean something to its reader    *)
(* even inside a name.  Each piece of a format string is a write of its    *)
(* own.  Clients and executors are reduced to what they may do to a key    *)
(* and its timeout in one step; an entry list is one snapshot, for         *)
(* ShardLocks shows that key_value returns one.                            *)
(***************************************************************************)
EXTENDS StorageValue

CONSTANTS Keys,             \* names of keys, the cut ones included
          Values,           \* what clients store
          Persistent,       \* no timeout
          Found,            \* the values and
          FoundTimeouts,    \* the timeouts the process begins with
          TicksPerSecond,   \* the clock is finer than the seconds of the file
          MaxTime,          \* bound: ticks
          MaxChanges,       \* bound: changes of a key by a client
          MaxDumps          \* bound: dumps begun

Comma == 30
Colon == 31
Semicolon == 32

\* The words "List" and "Set", should a name hold one.
ListWord == <<33>>
SetWord == <<34>>

-----------------------------------------------------------------------------
(* The parts str::split makes of a text *)

Has(text, c) == c \in ToSet(text)

PositionOf(text, c) == SelectInSeq(text, LAMBDA x : x = c)

\* The part of a text before the first c, the text behind it, and the part
\* between it and the next.
CutAt(text, c) == IF Has(text, c) THEN SubSeq(text, 1, PositionOf(text, c) - 1) ELSE text

Behind(text, c) ==
    IF Has(text, c) THEN SubSeq(text, PositionOf(text, c) + 1, Len(text)) ELSE <<>>

Second(text, c) == CutAt(Behind(text, c), c)

\* Where the parts of a name begin that semicolons separate.
Starts(name) == {1} \cup {i + 1 : i \in {j \in DOMAIN name : name[j] = Semicolon}}

\* What the reader finds in the part that begins at n: a name behind a ':' (in
\* the file, "Key:" stands before the first part) and, when there is a comma, a
\* number behind another.
Part(name, n) ==
    LET rest == SubSeq(name, n, Len(name))
        part == CutAt(rest, Semicolon)
        field == CutAt(part, Comma)
        ttl == Second(part, Comma)
    IN  [empty |-> part = <<>>,
         last  |-> ~Has(rest, Semicolon),
         named |-> n = 1 \/ Has(field, Colon),
         name  |-> IF n = 1 THEN CutAt(field, Colon) ELSE Second(field, Colon),
         comma |-> Has(part, Comma),
         timed |-> Has(ttl, Colon) /\ IsLong(Second(ttl, Colon)),
         secs  |-> NumberOf(Second(ttl, Colon))]

\* The name "" is what is there of a name of which nothing is written.
Parts == [name \in Keys \cup {<<>>} |-> [n \in Starts(name) |-> Part(name, n)]]

\* What the reader takes for the name in an entry's line.
EntryName == [name \in Keys |-> CutAt(CutAt(name, Comma), Colon)]

Times == 0..MaxTime

\* What clients may choose as timeouts, and what may be read in names.
SecondsInNames == (UNION {{Parts[k][i].secs : i \in DOMAIN Parts[k]} : k \in DOMAIN Parts}) \cap Nat
AllTimes == Times \cup {n * TicksPerSecond : n \in SecondsInNames}

ASSUME DumpAssumption ==
    /\ IsFiniteSet(Keys)
    /\ Keys \subseteq Texts
    /\ \A k \in Keys : /\ EntryName[k] \in Keys
                       /\ \A n \in Starts(k) : Parts[k][n].named => Parts[k][n].name \in Keys
    /\ Values \subseteq StorageValues
    /\ Found \in [Keys -> StorageValues \cup {Absent}]
    /\ FoundTimeouts \in [Keys -> Times \cup {Persistent}]
    /\ \A v \in Values \cup {Found[k] : k \in Keys} :
          v # Absent /\ v.type = "Set" => IsFiniteSet(v.set)
    /\ TicksPerSecond \in Nat \ {0}
    /\ MaxTime \in Nat /\ MaxChanges \in Nat /\ MaxDumps \in Nat

VARIABLES dictionary,   \* the value under each key, or Absent
          timeouts,     \* the time of each key, or Persistent
          now,
          file,         \* what is in the dump file
          todo,         \* the records the serializer has still to write
          pc,           \* what the serializer does, or that the process is gone
          left,         \* bounds: [changes, dumps]
          steady,       \* the keys nothing has changed since the dump began
          held          \* the values each key has had since then

memory == <<dictionary, timeouts>>
dumpVars == <<memory, now, file, todo, pc, left, steady, held>>

\* The records of the two parts of the file; of the last one, of at most
\* five, `written` pieces are there.  `whole` says that nothing is missing.
EmptyFile == [times |-> <<>>, newline |-> FALSE, entries |-> <<>>, written |-> 5,
              whole |-> FALSE]

DumpInit ==
    /\ dictionary = Found
    /\ timeouts = FoundTimeouts
    /\ now = 0
    /\ file = EmptyFile
    /\ todo = <<>>
    /\ pc = "sleep"
    /\ left = [changes |-> MaxChanges, dumps |-> MaxDumps]
    /\ steady = {}
    /\ held = [k \in Keys |-> {Found[k]}]

Up == pc \notin {"down", "failed"}

-----------------------------------------------------------------------------
(* Clients, executors, the clock *)

\* The key's value and timeout become v and t.  An equal time of another key
\* gives way to a new one, see TtlSupervisor.
WithTimeout(ts, k, t) ==
    [j \in Keys |-> CASE j = k -> t
                      [] j # k /\ ts[k] = Persistent /\ t # Persistent /\ ts[j] = t -> Persistent
                      [] OTHER -> ts[j]]

Changes(k, v, t) ==
    /\ Up
    /\ dictionary' = [dictionary EXCEPT ![k] = v]
    /\ timeouts' = WithTimeout(timeouts, k, t)
    /\ held' = [held EXCEPT ![k] = @ \cup {v}]
    /\ steady' = {j \in steady \ {k} : timeouts'[j] = timeouts[j]}
    /\ UNCHANGED <<now, file, todo, pc>>

Counted == left.changes > 0 /\ left' = [left EXCEPT !.changes = @ - 1]

\* set removes the timeout, append and the like leave it.
Store(k) == Counted /\ \E v \in Values, t \in {timeouts[k], Persistent} : Changes(k, v, t)

\* expire and persist
SetTimeout(k) == /\ Counted /\ dictionary[k] # Absent
                 /\ \E t \in Times \cup {Persistent} : Changes(k, dictionary[k], t)

\* del leaves the timeout where it is.
Delete(k) == Counted /\ dictionary[k] # Absent /\ Changes(k, Absent, timeouts[k])

\* An executor's sweep.
Lapse(k) == /\ timeouts[k] # Persistent /\ timeouts[k] < now
            /\ Changes(k, Absent, Persistent)
            /\ UNCHANGED left

Tick == /\ now < MaxTime
        /\ now' = now + 1
        /\ UNCHANGED <<memory, file, todo, pc, left, steady, held>>

-----------------------------------------------------------------------------
(* run_serializer *)

\* Mutant: the file is opened for appending.
TruncateNot ==
    /\ pc = "sleep" /\ left.dumps > 0
    /\ left' = [left EXCEPT !.dumps = @ - 1]
    /\ file' = [file EXCEPT !.whole = FALSE]
    /\ pc' = "times"
    /\ steady' = Keys
    /\ held' = [k \in Keys |-> {dictionary[k]}]
    /\ UNCHANGED <<memory, now, todo>>

\* set_len(0); nothing tells apart a file with and without its header "TTL ".
Truncate ==
    /\ pc = "sleep" /\ left.dumps > 0
    /\ left' = [left EXCEPT !.dumps = @ - 1]
    /\ file' = EmptyFile
    /\ pc' = "times"
    /\ steady' = Keys
    /\ held' = [k \in Keys |-> {dictionary[k]}]
    /\ UNCHANGED <<memory, now, todo>>

OnlySerializer == UNCHANGED <<memory, now, left, steady, held>>

\* Mutant: the seconds are rounded up.
ListTimesUp ==
    /\ pc = "times"
    /\ \E order \in SetToSeqs({k \in Keys : timeouts[k] # Persistent}) :
          todo' = [i \in DOMAIN order |->
                      [key |-> order[i], secs |-> timeouts[order[i]] \div TicksPerSecond + 1]]
    /\ pc' = "write times"
    /\ UNCHANGED file /\ OnlySerializer

\* AllTtL: the guard on the vector is kept while its entries are written, so
\* they are those of one moment.  The file holds whole seconds.
ListTimes ==
    /\ pc = "times"
    /\ \E order \in SetToSeqs({k \in Keys : timeouts[k] # Persistent}) :
          todo' = [i \in DOMAIN order |->
                      [key |-> order[i], secs |-> timeouts[order[i]] \div TicksPerSecond]]
    /\ pc' = "write times"
    /\ UNCHANGED file /\ OnlySerializer

\* The next piece of the record at the head of todo: "Key:", the name, ",Ttl:",
\* the seconds and ";", or "Key:", the name, ",", the value and a newline.
Piece(part) ==
    LET begins == file.written = 5
    IN  /\ todo # <<>>
        /\ file' = [file EXCEPT !.written = IF begins THEN 1 ELSE @ + 1,
                                ![part] = IF begins THEN Append(@, Head(todo)) ELSE @]
        /\ todo' = IF file.written = 4 THEN Tail(todo) ELSE todo

WriteTime == pc = "write times" /\ Piece("times") /\ UNCHANGED pc /\ OnlySerializer

Newline ==
    /\ pc = "write times" /\ todo = <<>>
    /\ file' = [file EXCEPT !.newline = TRUE]
    /\ pc' = "entries"
    /\ UNCHANGED todo /\ OnlySerializer

\* key_value
ListEntries ==
    /\ pc = "entries"
    /\ \E order \in SetToSeqs({k \in Keys : dictionary[k] # Absent}) :
          todo' = [i \in DOMAIN order |-> [key |-> order[i], value |-> dictionary[order[i]]]]
    /\ pc' = "write entries"
    /\ UNCHANGED file /\ OnlySerializer

WriteEntry == pc = "write entries" /\ Piece("entries") /\ UNCHANGED pc /\ OnlySerializer

EndDump ==
    /\ pc = "write entries" /\ todo = <<>>
    /\ file' = [file EXCEPT !.whole = TRUE]
    /\ pc' = "sleep"
    /\ UNCHANGED todo /\ OnlySerializer

Serializer == \/ Truncate \/ ListTimes \/ WriteTime \/ Newline
              \/ ListEntries \/ WriteEntry \/ EndDump

-----------------------------------------------------------------------------
(* Database::new *)

\* The elements of a list as they stand in the file, cut where the first comma
\* stands in any of them; an element of which nothing is left is no word.
CutList(list) ==
    LET cut == SelectInSeq(list, LAMBDA t : Has(t, Comma))
        whole == SubSeq(list, 1, cut - 1)
        rest == CutAt(list[cut], Comma)
    IN  CASE cut = 0 -> list
          [] cut # 0 /\ rest = <<>> -> whole
          [] OTHER -> Append(whole, rest)

\* What serialize and then unserialize may make of a value: the line is split
\* at its commas, and a String without a word after it is no value.
Reread(v) ==
    CASE v.type = "String" -> {String(t) : t \in {CutAt(v.string, Comma)} \ {<<>>}}
      [] v.type = "List" -> {List(CutList(v.list))}
      [] v.type = "Set" -> {Set(ToSet(CutList(s))) : s \in SetToSeqs(v.set)}

\* The pieces there are of record i of a part of the file.
Written(records, i) == IF i = Len(records) THEN file.written ELSE 5

WrittenTimes(i) == IF file.newline THEN 5 ELSE Written(file.times, i)

\* The parts of record i, as far as it is written, and those of them the reader
\* looks into: all that are not empty.
TimeParts(i) == Parts[IF WrittenTimes(i) = 1 THEN <<>> ELSE file.times[i].key]

Readings(i) == {n \in DOMAIN TimeParts(i) :
                   LET part == TimeParts(i)[n]
                   IN  n = 1 \/ ~part.empty \/ (part.last /\ WrittenTimes(i) > 2)}

\* Without its name or a number, in the part or written behind the last one,
\* an index is out of range or an unwrap fails.
TimePanics(i) ==
    \E n \in Readings(i) :
        LET part == TimeParts(i)[n]
        IN  \/ ~part.named
            \/ part.comma /\ ~part.timed
            \/ ~part.comma /\ ~(part.last /\ WrittenTimes(i) > 3)

NameRead(i, n) == TimeParts(i)[n].name

SecondsRead(i, n) ==
    IF TimeParts(i)[n].comma THEN TimeParts(i)[n].secs ELSE file.times[i].secs

\* A line without a comma has no value.
EntryPanics(i) ==
    LET written == Written(file.entries, i)
    IN  written = 1 \/ (written = 2 /\ ~Has(file.entries[i].key, Comma))

\* What may be read as the value of a line: what stands behind the first comma,
\* be it the rest of the name.
EntryValues(i) ==
    LET name == file.entries[i].key
    IN  CASE Has(name, Comma) /\ Second(name, Comma) = ListWord -> {List(<<>>)}
          [] Has(name, Comma) /\ Second(name, Comma) = SetWord -> {Set({})}
          [] ~Has(name, Comma) /\ Written(file.entries, i) > 3 -> Reread(file.entries[i].value)
          [] OTHER -> {}

StartupPanics == \/ \E i \in DOMAIN file.times : TimePanics(i)
                 \/ \E i \in DOMAIN file.entries : EntryPanics(i)

\* The last line with a value that is read as one of k counts.
LinesOf(k) == {i \in DOMAIN file.entries : EntryName[file.entries[i].key] = k /\ EntryValues(i) # {}}

LoadedValues(k) ==
    IF LinesOf(k) = {} THEN {Absent}
    ELSE EntryValues(CHOOSE i \in LinesOf(k) : \A j \in LinesOf(k) : j <= i)

\* expireat for one reading: a key that is not there has no timeout, a negative
\* number panics, and a key whose second has passed is removed.
Expireat(loaded, key, secs) ==
    LET time == secs * TicksPerSecond
        found == loaded.dictionary[key] # Absent
    IN  CASE ~found -> loaded
          [] found /\ secs \notin Nat -> [loaded EXCEPT !.panicked = TRUE]
          [] found /\ secs \in Nat /\ time < now -> [loaded EXCEPT !.dictionary[key] = Absent]
          [] OTHER -> [loaded EXCEPT !.timeouts = WithTimeout(@, key, time)]

ExpireRecord(before, i) ==
    LET last == Len(file.times[i].key) + 1
        upto[n \in 0..last] ==
            IF n = 0 THEN before
            ELSE IF n \in Readings(i) THEN Expireat(upto[n - 1], NameRead(i, n), SecondsRead(i, n))
            ELSE upto[n - 1]
    IN  upto[last]

EntriesOnly(d) == [dictionary |-> d, timeouts |-> [k \in Keys |-> Persistent], panicked |-> FALSE]

\* Mutant: the list of timeouts is read and forgotten.
LoadedFromEntries(d) == EntriesOnly(d)

LoadedFrom(d) ==
    LET loaded[i \in 0..Len(file.times)] ==
            IF i = 0 THEN EntriesOnly(d) ELSE ExpireRecord(loaded[i - 1], i)
    IN  loaded[Len(file.times)]

\* What may come of it: a panic, or a dictionary with its timeouts.
Loads ==
    LET values == [k \in Keys |-> LoadedValues(k)]
    IN  IF StartupPanics THEN {[EntriesOnly([k \in Keys |-> Absent]) EXCEPT !.panicked = TRUE]}
        ELSE {LoadedFrom(d) : d \in {f \in [Keys -> UNION {values[k] : k \in Keys}] :
                                        \A k \in Keys : f[k] \in values[k]}}

-----------------------------------------------------------------------------

Crash == /\ Up /\ pc' = "down"
         /\ UNCHANGED <<memory, now, file, todo, left, steady, held>>

Restart ==
    /\ pc = "down"
    /\ \E loaded \in Loads :
          \/ /\ loaded.panicked
             /\ pc' = "failed" /\ UNCHANGED memory
          \/ /\ ~loaded.panicked
             /\ pc' = "sleep"
             /\ dictionary' = loaded.dictionary /\ timeouts' = loaded.timeouts
    /\ todo' = <<>>
    /\ steady' = {}
    /\ UNCHANGED <<now, file, left, held>>

DumpNext == \/ \E k \in Keys : Store(k) \/ SetTimeout(k) \/ Delete(k) \/ Lapse(k)
            \/ Tick \/ Serializer \/ Crash \/ Restart

DumpSpec == DumpInit /\ [][DumpNext]_dumpVars

-----------------------------------------------------------------------------

Records == [key : Keys, secs : Nat] \cup [key : Keys, value : StorageValues]

DumpTypeOK ==
    /\ dictionary \in [Keys -> StorageValues \cup {Absent}]
    /\ timeouts \in [Keys -> AllTimes \cup {Persistent}]
    /\ now \in Times
    /\ file.times \in Seq([key : Keys, secs : Nat])
    /\ file.entries \in Seq([key : Keys, value : StorageValues])
    /\ file.written \in 1..5
    /\ todo \in Seq(Records)
    /\ pc \in {"sleep", "times", "write times", "entries", "write entries", "down", "failed"}

Plain(k) == \A c \in {Comma, Colon, Semicolon} : ~Has(k, c)

\* No other name in the file is read as k where there is a value, or a time.
ItsLinesAreItsOwn(k) == \A i \in LinesOf(k) : file.entries[i].key = k

ItsTimesAreItsOwn(k) ==
    \A i \in DOMAIN file.times : \A n \in Readings(i) :
        NameRead(i, n) = k => file.times[i].key = k

Unharmed(v) == v # Absent => Reread(v) = {v}

\* The second the file gives for a timeout, as a time again.
Rounded(t) == (t \div TicksPerSecond) * TicksPerSecond

HasOwnSecond(k) ==
    \A i, j \in DOMAIN file.times : \A n \in Readings(j) :
        file.times[i].key = k /\ SecondsRead(j, n) = file.times[i].secs => i = j

Survives(k) ==
    LET t == timeouts[k]
    IN  CASE t = Persistent -> dictionary'[k] = dictionary[k] /\ timeouts'[k] = Persistent
          [] t # Persistent /\ Rounded(t) < now -> dictionary'[k] = Absent
          [] OTHER -> /\ dictionary'[k] = dictionary[k]
                      /\ dictionary[k] # Absent /\ HasOwnSecond(k) =>
                             timeouts'[k] = Rounded(t)

\* Once a dump is whole, a crash loses nothing that nobody has changed since
\* that dump began: each such key comes back with its value and its timeout,
\* in whole seconds, or is gone because its time has passed.  Its name has no
\* punctuation the file uses and no other name in the file is read as it, its
\* value has no comma, and no other time that is read ends in its second.
\* Database::new starts for certain if no name with a timeout has a comma or
\* a semicolon.
WholeDumpRestores ==
    [][pc = "down" /\ pc' # "down" /\ file.whole =>
          /\ (\A i \in DOMAIN file.times : ~Has(file.times[i].key, Comma)
                                           /\ ~Has(file.times[i].key, Semicolon))
                => pc' = "sleep"
          /\ pc' = "sleep" =>
                \A k \in steady :
                    /\ Plain(k) /\ ItsLinesAreItsOwn(k) /\ ItsTimesAreItsOwn(k)
                    /\ Unharmed(dictionary[k])
                    => Survives(k)
      ]_dumpVars

\* Whenever the crash comes, a key that comes back has a value it had while the
\* file was written, or what is left of that value before a comma: a torn line
\* makes nothing up, and no line of an earlier dump is left.  Its name has no
\* punctuation, and no line of another name is read as one of it.
RestoredWasHeld ==
    [][pc = "down" /\ pc' = "sleep" =>
          \A k \in Keys : Plain(k) /\ ItsLinesAreItsOwn(k) /\ dictionary'[k] # Absent =>
              \E v \in held[k] \ {Absent} : dictionary'[k] \in Reread(v)]_dumpVars

====
