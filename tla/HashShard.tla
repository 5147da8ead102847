---- MODULE HashShard ----
(***************************************************************************)
(* The key space: HashShard of hash_shard.rs, a vector of shards, each a   *)
(* map from keys to values.  A key belongs to the shard hash_funcion gives *)
(* it; every operation below looks only there, so an entry stored in       *)
(* another shard is counted and listed but never found.                    *)
(*                                                                         *)
(* Each operation on one key runs under that shard's mutex and is one      *)
(* atomic operator here.  len, clear and key_value lock the shards one     *)
(* after the other, all the time holding the mutex of the vector that      *)
(* every other operation needs first; they are taken as atomic as well.    *)
(* The last_access time stored beside a value is left out: it reaches only *)
(* the reply of TOUCH.                                                     *)
(***************************************************************************)
EXTENDS KeyNames, StorageValue

CONSTANTS Shards,        \* the shards; HASH_NUMBER = 10 of them in the code
          hash_funcion   \* the shard of each key: its length modulo HASH_NUMBER

ASSUME HashShardAssumption ==
    hash_funcion \in [Keys -> Shards]

Dictionaries == [Shards -> [Keys -> StorageValues \cup {Absent}]]

EmptyShard == [k \in Keys |-> Absent]

\* HashShard::new
NewHashShard == [s \in Shards |-> EmptyShard]

\* The value under a key in the shard get_atomic_hash(key) returns.
Lookup(d, key) == d[hash_funcion[key]][key]

contains_key(d, key) == Lookup(d, key) # Absent

insert(d, key, value) == [d EXCEPT ![hash_funcion[key]][key] = value]

\* An insertion into the shard of key `home`, whatever the key: what a
\* handler does that keeps the shard it locked for one key and inserts another.
InsertInShardOf(d, home, key, value) == [d EXCEPT ![hash_funcion[home]][key] = value]

remove(d, key) == insert(d, key, Absent)

clear(d) == [s \in DOMAIN d |-> EmptyShard]

\* The entries key_value() and keys() list, with the shard each was found in.
Entries(d) == {e \in Shards \X Keys : d[e[1]][e[2]] # Absent}

len(d) == Cardinality(Entries(d))

====
