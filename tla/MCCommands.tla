---- MODULE MCCommands ----
(***************************************************************************)
(* Requests and loaded dictionaries for Database.                          *)
(***************************************************************************)
EXTENDS Database, RequestParser

CONSTANTS k1, k2, k3, s1, s2

\* k2 in a shard of its own, or all keys in one.
TwoShards == [k \in Keys |-> IF k = k2 THEN s2 ELSE s1]
OneShard == [k \in Keys |-> s1]

a == <<12>>
b == <<13>>
d == <<14>>

EmptyLoad == NewHashShard
StringLoad == insert(NewHashShard, k1, String(a))
NumberLoad == insert(NewHashShard, k1, String(TextOf(1)))
NumberAndList == insert(NumberLoad, k2, List(<<a>>))
StringAndNumber == insert(StringLoad, k2, String(TextOf(1)))

-----------------------------------------------------------------------------
(* The requests, as Request::new makes them of the clients' words *)

Requested(sentences) == {Parse(words, FALSE).query : words \in sentences}

Number(n) == TextOf(n)

ReadersAndUpdaters ==
    Requested({<<"get", k1>>, <<"del", k1>>, <<"touch", k1>>, <<"expire", k1, Number(0)>>,
            <<"rename", k1, k3>>, <<"incrby", k2, Number(1)>>, <<"persist", k2>>,
            <<"mget", k2, k1>>})
DeleteAndAppend == Requested({<<"del", k1>>, <<"append", k1, b>>, <<"expire", k1, Number(0)>>})
CopyOnly == Requested({<<"copy", k1, k2>>})

StringCommands ==
    Requested({<<"get", k1>>, <<"strlen", k1>>, <<"getdel", k1>>, <<"type", k1>>, <<"set", k1, b>>,
            <<"getset", k1, b>>, <<"append", k2, b>>, <<"incrby", k1, Number(1)>>,
            <<"mset", k1, b, k2, a>>, <<"mget", k1, k2>>, <<"mget">>})

ListAndSetCommands ==
    Requested({<<"llen", k2>>, <<"lpop", k2>>, <<"rpop", k2>>, <<"lpush", k2, a, b>>,
            <<"rpush", k1, b>>, <<"lpushx", k2, b>>, <<"rpushx", k2, b>>,
            <<"lindex", k2, Number(-1)>>, <<"lrange", k2, Number(0), Number(-1)>>,
            <<"lrem", k2, Number(1), a>>, <<"lset", k2, Number(0), b>>,
            <<"sort", k2, AlphaWord, LimitWord, Number(0), Number(1)>>,
            <<"sadd", k1, a, b>>, <<"sismember", k1, a>>, <<"scard", k1>>,
            <<"smembers", k1>>, <<"srem", k1, a>>})

KeyCommands ==
    Requested({<<"del", k1>>, <<"exists", k1>>, <<"ttl", k1>>, <<"persist", k1>>, <<"touch", k1>>,
            <<"expire", k1, Number(0)>>, <<"expire", k1, Number(-1)>>,
            <<"expire", k1, Number(MaxLong)>>,
            <<"expireat", k1, Number(0)>>, <<"expireat", k1, Number(-1)>>,
            <<"rename", k1, k2>>, <<"flushdb">>, <<"dbsize">>, <<"keys", k1>>})

\* COPY stays within one shard here.
AllCommands == StringCommands \cup ListAndSetCommands \cup KeyCommands
               \cup Requested({<<"copy", k1, k3>>})

====
