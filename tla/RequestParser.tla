---- MODULE RequestParser ----
(***************************************************************************)
(* From the words of a request to what a client thread executes            *)
(* (Request::new in request.rs), and from a database command to the units  *)
(* of work it is for the key space (exec_query).                           *)
(*                                                                         *)
(* The first word names the command and is a string.  The words after it   *)
(* are key names, texts, or names of channels and options.                 *)
(***************************************************************************)
EXTENDS Sort

Invalid(error) == [kind |-> "Invalid", error |-> error]
UnknownRequest == Invalid("UnknownRequest")
ParseError == Invalid("ParseError")
InvalidNumberOfArguments == Invalid("InvalidNumberOfArguments")
InvalidCommandSubscribeMode == Invalid("InvalidCommandSubscribeMode")

\* A database command: its name and its units, in the form Database executes.
Query(name, units) == [name |-> name, units |-> units]
DataBase(query) == [kind |-> "DataBase", query |-> query]
OneUnit(name, unit) == DataBase(Query(name, <<unit>>))

CloseClient == [kind |-> "CloseClient"]
Touch(k) == [kind |-> "Touch", query |-> Query("touch", <<[op |-> "touch", key |-> k]>>)]
Server(request) == [kind |-> "Server", request |-> request]
Publisher(request) == [kind |-> "Publisher", request |-> request]
Suscriber(op, names) == [kind |-> "Suscriber", op |-> op, names |-> names]

-----------------------------------------------------------------------------
(* Commands with a fixed number of words *)

Word(field, as) == [field |-> field, as |-> as]
KeyWord == Word("key", "str")
TextWord == Word("text", "str")
Seconds == Word("seconds", "i64")

\* What the words after each of them are.  INCRBY's becomes DECRBY's, below.
Shapes ==
    [expire |-> <<KeyWord, Seconds>>, expireat |-> <<KeyWord, Seconds>>,
     ttl |-> <<KeyWord>>, type |-> <<KeyWord>>, persist |-> <<KeyWord>>,
     append |-> <<KeyWord, TextWord>>,
     incrby |-> <<KeyWord, Word("by", "i32")>>, decrby |-> <<KeyWord, Word("by", "i32")>>,
     get |-> <<KeyWord>>, getdel |-> <<KeyWord>>, getset |-> <<KeyWord, TextWord>>,
     set |-> <<KeyWord, TextWord>>, copy |-> <<KeyWord, Word("to_key", "str")>>,
     del |-> <<KeyWord>>, exists |-> <<KeyWord>>, keys |-> <<Word("pattern", "str")>>,
     rename |-> <<KeyWord, Word("to_key", "str")>>, strlen |-> <<KeyWord>>,
     lindex |-> <<KeyWord, Word("index", "i32")>>, llen |-> <<KeyWord>>, lpop |-> <<KeyWord>>,
     lrange |-> <<KeyWord, Word("ini", "i32"), Word("end", "i32")>>,
     lrem |-> <<KeyWord, Word("count", "i32"), TextWord>>,
     lset |-> <<KeyWord, Word("index", "usize"), TextWord>>, rpop |-> <<KeyWord>>,
     sismember |-> <<KeyWord, TextWord>>, scard |-> <<KeyWord>>, smembers |-> <<KeyWord>>,
     flushdb |-> <<>>, dbsize |-> <<>>]

Parses(word, as) ==
    CASE as = "str" -> TRUE
      [] as = "i32" -> IsInteger(word)
      [] as = "i64" -> IsLong(word)
      [] as = "usize" -> IsUnsigned(word)

Parsed(word, as) == IF as = "str" THEN word ELSE NumberOf(word)

UnitOf(op, shape, words) ==
    LET position(f) == CHOOSE i \in DOMAIN shape : shape[i].field = f
    IN  [f \in {"op"} \cup {w.field : w \in ToSet(shape)} |->
            IF f = "op" THEN op ELSE Parsed(words[position(f)], shape[position(f)].as)]

Fits(shape, words) == /\ Len(words) = Len(shape)
                      /\ \A i \in DOMAIN shape : Parses(words[i], shape[i].as)

Fixed(op, words) ==
    LET shape == Shapes[op]
        unit == UnitOf(op, shape, words)
    IN  CASE Len(words) # Len(shape) -> UnknownRequest
          [] Len(words) = Len(shape) /\ ~Fits(shape, words) -> ParseError
          [] Fits(shape, words) /\ op = "incrby" ->
                 OneUnit(op, [unit EXCEPT !.op = "decrby", !.by = Wrap(-unit.by)])
          [] OTHER -> OneUnit(op, unit)

-----------------------------------------------------------------------------
(* Commands with any number of words *)

UnitPerText(name, op, k, texts) ==
    DataBase(Query(name, [i \in DOMAIN texts |-> [op |-> op, key |-> k, text |-> texts[i]]]))

\* A key and at least one value; LPUSH and SADD are one unit for each.
Pushing(op, words) ==
    LET k == Head(words)
        values == Tail(words)
    IN  CASE words = <<>> -> UnknownRequest
          [] Len(words) = 1 -> InvalidNumberOfArguments
          [] op = "lpush" /\ Len(words) > 1 -> UnitPerText(op, "lpush_one", k, values)
          [] op = "sadd" /\ Len(words) > 1 -> UnitPerText(op, "sadd_one", k, values)
          [] OTHER -> OneUnit(op, [op |-> op, key |-> k, texts |-> values])

\* The key is passed on as if it were one of the members to remove.
Srem(words) == IF words = <<>> THEN UnknownRequest
               ELSE OneUnit("srem", [op |-> "srem", key |-> Head(words), texts |-> words])

Mset(words) ==
    IF words = <<>> \/ Len(words) % 2 = 1 THEN InvalidNumberOfArguments
    ELSE DataBase(Query("mset", [i \in 1..(Len(words) \div 2) |->
                                    [op |-> "set", key |-> words[2 * i - 1], text |-> words[2 * i]]]))

Mget(words) == DataBase(Query("mget", [i \in DOMAIN words |-> [op |-> "get", key |-> words[i]]]))

SortRequest(words) ==
    LET flags == ParseSort(Tail(words))
    IN  CASE words = <<>> -> UnknownRequest
          [] words # <<>> /\ flags = InvalidSort -> ParseError
          [] OTHER -> OneUnit("sort", [op |-> "sort", key |-> Head(words), flags |-> flags])

-----------------------------------------------------------------------------
(* The requests that are not for the database *)

Config(words) ==
    CASE Len(words) = 2 /\ Head(words) = "get" -> Server([op |-> "ConfigGet", pattern |-> words[2]])
      [] Len(words) = 3 /\ Head(words) = "set" ->
             Server([op |-> "ConfigSet", option |-> words[2], new_value |-> words[3]])
      [] OTHER -> UnknownRequest

\* No pattern stands for "*".
PubSubRequest(words) ==
    CASE words # <<>> /\ Head(words) = "channels" ->
             IF Len(words) > 2 THEN InvalidNumberOfArguments
             ELSE Publisher([op |-> "Channels", pattern |-> Tail(words)])
      [] words # <<>> /\ Head(words) = "numsub" ->
             Publisher([op |-> "NumSub", names |-> Tail(words)])
      [] OTHER -> UnknownRequest

Read(command, words) ==
    CASE command \in DOMAIN Shapes -> Fixed(command, words)
      [] command \in {"lpush", "lpushx", "rpush", "rpushx", "sadd"} -> Pushing(command, words)
      [] command = "srem" -> Srem(words)
      [] command = "mset" -> Mset(words)
      [] command = "mget" -> Mget(words)
      [] command = "sort" -> SortRequest(words)
      [] command = "touch" /\ Len(words) = 1 -> Touch(words[1])
      [] command = "config" -> Config(words)
      [] command = "info" /\ words = <<>> -> Server([op |-> "Info"])
      [] command = "monitor" /\ words = <<>> -> Suscriber("monitor", <<>>)
      [] command \in {"subscribe", "unsubscribe"} -> Suscriber(command, words)
      [] command = "publish" /\ Len(words) = 2 ->
             Publisher([op |-> "Publish", chanel |-> words[1], msg |-> words[2]])
      [] command = "pubsub" -> PubSubRequest(words)
      [] command = "close" /\ words = <<>> -> CloseClient
      [] OTHER -> UnknownRequest

-----------------------------------------------------------------------------

\* What subscription mode lets through.
AllowedInSubscriptionMode(request) ==
    \/ request.kind \in {"CloseClient", "Invalid"}
    \/ request.kind = "Suscriber" /\ request.op \in {"subscribe", "unsubscribe"}

\* The arm of SORT that makes no composite flags returns from the function: it
\* does not come to the question of the mode.
ReturnsEarly(command, words) ==
    command = "sort" /\ words # <<>> /\ ParseSort(Tail(words)).flag # "CompositeFlags"

\* Mutant: subscription mode forbids nothing.
ParseAnyMode(request_words, subscription_mode) == Read(Head(request_words), Tail(request_words))

\* Request::new
Parse(request_words, subscription_mode) ==
    LET command == Head(request_words)
        words == Tail(request_words)
        request == Read(command, words)
    IN  IF /\ subscription_mode /\ ~AllowedInSubscriptionMode(request)
           /\ ~ReturnsEarly(command, words)
          THEN InvalidCommandSubscribeMode
          ELSE request

====
