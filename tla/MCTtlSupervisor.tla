---- MODULE MCTtlSupervisor ----
(***************************************************************************)
(* TtlSupervisor under an environment that posts at most MaxPosts          *)
(* messages, or as many as it likes, and writes the dictionary at most     *)
(* MaxWrites times.  It does not ask for an entry or a thread beyond       *)
(* MaxEntries and MaxExecutors; the code's own steps are never held back.  *)
(***************************************************************************)
EXTENDS TtlSupervisor

CONSTANTS MaxPosts, MaxWrites,        \* bounds on the environment's steps
          Unlimited,                  \* as MaxPosts: no bound
          MaxEntries, MaxExecutors,   \* bounds on what its EXPIREs lead to
          Discipline                  \* which behaviours are checked: see Kept

VARIABLES posts, writes

mcVars == <<ttlVars, posts, writes>>

\* "apart": only the behaviours in which the messages are apart; "any": all.
Kept == Discipline = "apart" => MessagesApart'

MCHash == [k \in Keys |-> CHOOSE s \in Shards : TRUE]

MCLoaded == NewHashShard

MCInit == Init /\ posts = 0 /\ writes = 0

\* An EXPIRE may add an entry and start an executor.
WithinBounds(m) ==
    m.type = "Expire" => /\ HasEntry(ttl_keys, m.key) \/ Len(ttl_keys) < MaxEntries
                         /\ executors < MaxExecutors

MCPost == /\ MaxPosts # Unlimited => posts < MaxPosts
          /\ \E m \in EnvironmentMessages : WithinBounds(m) /\ Post(m)
          /\ posts' = IF MaxPosts = Unlimited THEN posts ELSE posts + 1
          /\ UNCHANGED writes

MCWrite == /\ writes < MaxWrites
           /\ \/ \E s \in Shards, k \in Keys, v \in {String(<<1>>), Absent} :
                     dictionary' = [dictionary EXCEPT ![s][k] = v]
              \/ dictionary' = clear(dictionary)
           /\ Write
           /\ writes' = writes + 1 /\ UNCHANGED posts

MCQuiet(A) == A /\ UNCHANGED <<posts, writes>>

MCNext == \/ MCPost \/ MCWrite
          \/ MCQuiet(HandleExpire) \/ MCQuiet(HandleClear) \/ MCQuiet(HandleTransfer)
          \/ MCQuiet(HandleTtl) \/ MCQuiet(HandleAllTtL) \/ MCQuiet(HandleCheck)
          \/ MCQuiet(ExecutorWake) \/ MCQuiet(ExecutorRemove)
          \/ MCQuiet(ExecutorSleep) \/ MCQuiet(ExecutorExit)
          \/ MCQuiet(Tick)
          \/ MCQuiet(\E c \in Requesters : TakeReply(c))

MCSpec == MCInit /\ [][MCNext /\ Kept]_mcVars

MCFairSpec == MCSpec /\ Fairness

====
