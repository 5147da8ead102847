---- MODULE SessionsProofs ----
(***************************************************************************)
(* The invariants of Sessions, for any clients and whatever they send.     *)
(*                                                                         *)
(* One inductive invariant, IInv, implies all five of them.  Most steps    *)
(* change one thread and keep what it has: CalmStep says once for all of   *)
(* them what is to be shown of the new thread, TellStep adds the sending   *)
(* of a message, SubscribedStep, UnsubscribedStep and DroppedStep are      *)
(* about the steps that change the channels.  The parts of IInv that no    *)
(* step of a kind disturbs are carried over by the lemmas named ...Kept.   *)
(*                                                                         *)
(* The last part is the refinement of PubSub.  What IInv leaves out, the   *)
(* contents of the queues, is in QueuesInv: a message in a queue is none   *)
(* that is still to be sent, so that each is published once.  The lemmas   *)
(* named ...Mapped keep QueuesInv and find the step of PubSub, one for     *)
(* every action.                                                           *)
(***************************************************************************)
EXTENDS Sessions, DataLemmas, FiniteSetTheorems

-----------------------------------------------------------------------------
(* The inductive invariant *)

\* A thread's record; its request and its reply may be of any kind.
IsThread(t) ==
    /\ t = [pc |-> t.pc, a_live |-> t.a_live, subscription_mode |-> t.subscription_mode,
            timed |-> t.timed, verbose |-> t.verbose, request |-> t.request, reply |-> t.reply,
            todo |-> t.todo, subscriptions |-> t.subscriptions, monitors |-> t.monitors,
            left |-> t.left]
    /\ t.pc \in SessionPcs
    /\ t.a_live \in BOOLEAN /\ t.subscription_mode \in BOOLEAN
    /\ t.todo \in Seq(Names) /\ t.subscriptions \in Seq(Names)
    /\ t.left \in Nat

AllReceivers == Receivers \cup {LoggerReceiver}

ListenerType == [id : Clients \cup {LOGGER_SPECIAL_ID}, receiver : AllReceivers]

Typed ==
    /\ client = [c \in Clients |-> client[c]]
    /\ \A c \in Clients : IsThread(client[c]) /\ client[c].left <= MaxRequests[c]
    /\ channels = [n \in DOMAIN channels |-> channels[n]] /\ DOMAIN channels \subseteq Names
    /\ \A n \in DOMAIN channels : channels[n] \in Seq(ListenerType)
    /\ dropped \subseteq AllReceivers
    /\ logger \in {"starting", "running", "dead"}
    /\ hung_up \subseteq Clients
    /\ poisoned \in BOOLEAN

\* Where a request is under way that may make a queue, and where it is as it
\* was read.
UnderWay == {"log_request", "tell_monitors", "execute", "subscribing", "add_monitor", "monitoring"}
AsRead == {"log_request", "tell_monitors", "execute"}

RequestKnown ==
    \A c \in Clients :
        /\ client[c].pc \in UnderWay => client[c].left < MaxRequests[c]
        /\ client[c].pc \in AsRead =>
               \E words \in Sends[c] :
                   client[c].request = Parse(words, client[c].subscription_mode)

\* set_verbose holds the mutex for as long as it is about to store.
MutexHeld == \A c \in Clients : At(c, "store") <=> logger_ref = c

\* Where a thread may be that is not to go on.
NotAlive == \A c \in Clients :
    ~client[c].a_live => client[c].pc \in {"log_reply", "leaving", "gone", "panicked"}

Panicked == {c \in Clients : At(c, "panicked")}
Served == {c \in Clients : client[c].a_live /\ ~At(c, "unborn")} \ Panicked

Counted ==
    /\ IsFiniteSet(Served) /\ IsFiniteSet(Panicked)
    /\ total_clients \in Cardinality(Served)..(Cardinality(Served) + Cardinality(Panicked))

\* A thread that will set the verbosity before it waits for a request, or that
\* died after changing it.
Stale(c) == \/ client[c].pc \in {"top", "lock", "panicked"}
            \/ At(c, "log_reply") /\ client[c].a_live

VerboseKnown ==
    /\ logger_verbose = verbose(conf) \/ \E c \in Clients : Stale(c) \/ At(c, "store")
    /\ \A c \in Clients : At(c, "store") =>
           client[c].verbose = verbose(conf) \/ \E o \in Clients \ {c} : Stale(o)

\* A receiver is dropped by a logger that ends and by a MONITOR that ends.
DroppedByTheGone ==
    ~poisoned => \A r \in dropped : \/ r = LoggerReceiver /\ logger = "dead"
                                    \/ \E c \in hung_up : r \in client[c].monitors

QueueNoted == \A c \in Clients : At(c, "monitoring") => Queue(c) \in client[c].monitors

\* No element of a list is in it twice.
Distinct(list) == \A i, j \in 1..Len(list) : list[i] = list[j] => i = j

\* No client is in a list of listeners twice.
OnceEach(list) == \A i, j \in 1..Len(list) : list[i].id = list[j].id => i = j

OwnListsDistinct ==
    \A c \in Clients : Distinct(client[c].subscriptions) /\ (At(c, "leaving") => Distinct(client[c].todo))

ListenersDistinct == \A n \in DOMAIN channels : OnceEach(channels[n])

\* The lists of the channels and those of the threads tell the same.
Registered(c) == \A n \in Names : c \in Ids(n) <=> n \in ToSet(Expected(c))
AllRegistered == \A c \in Clients : ~At(c, "panicked") => Registered(c)

\* The log is listened to for good.
LogListens == LOGGER \in DOMAIN channels /\ LOGGER_SPECIAL_ID \in Ids(LOGGER)

\* A client that monitored, and whose requests are read again, listens with a
\* receiver that is gone.
Blocked(c) == \E l \in ToSet(Listeners(MONITOR)) : l.id = c /\ l.receiver \in dropped

MonitorsAsSubscribed(c) ==
    MONITOR \in ToSet(client[c].subscriptions) => client[c].subscription_mode \/ Blocked(c)

MonitorsOnce ==
    \A c \in Clients :
        /\ client[c].pc \notin {"subscribing", "monitoring", "leaving", "gone", "panicked"} =>
               MonitorsAsSubscribed(c)
        /\ At(c, "execute") /\ Requests(c, "Suscriber") /\ MONITOR \in ToSet(client[c].subscriptions) =>
               client[c].subscription_mode
        /\ At(c, "add_monitor") => MONITOR \notin ToSet(client[c].subscriptions)
        /\ At(c, "monitoring") =>
               \E l \in ToSet(Listeners(MONITOR)) : l.id = c /\ l.receiver = Queue(c)

IInv ==
    /\ Typed /\ RequestKnown
    /\ MutexHeld /\ NotAlive /\ Counted /\ VerboseKnown
    /\ DroppedByTheGone /\ QueueNoted /\ PoisonedByTheGone
    /\ OwnListsDistinct /\ ListenersDistinct /\ AllRegistered /\ LogListens /\ MonitorsOnce

-----------------------------------------------------------------------------
(* Threads *)

\* What a thread has, apart from where it stands and what it works on.
SameHoldings(t, u) ==
    /\ u.a_live = t.a_live /\ u.subscription_mode = t.subscription_mode
    /\ u.subscriptions = t.subscriptions /\ u.monitors = t.monitors

LEMMA GotoOutcome ==
    ASSUME NEW c \in Clients, IsThread(client[c]), NEW pc \in SessionPcs
    PROVE  LET u == Goto(c, pc)
           IN  /\ IsThread(u) /\ u.pc = pc /\ SameHoldings(client[c], u)
               /\ u.todo = client[c].todo /\ u.request = client[c].request /\ u.left = client[c].left
BY DEF Goto, IsThread, SameHoldings

LEMMA TodoOutcome ==
    ASSUME NEW t, IsThread(t), NEW todo \in Seq(Names)
    PROVE  LET u == [t EXCEPT !.todo = todo]
           IN  /\ IsThread(u) /\ SameHoldings(t, u) /\ u.pc = t.pc /\ u.left = t.left
               /\ u.todo = todo /\ u.request = t.request
BY DEF IsThread, SameHoldings

LEMMA LoopEndOutcome ==
    ASSUME NEW t, IsThread(t)
    PROVE  LET u == LoopEnd(t)
           IN  /\ IsThread(u) /\ SameHoldings(t, u) /\ u.left = t.left
               /\ u.pc = IF t.a_live THEN "top" ELSE "leaving"
               /\ u.todo = IF t.a_live THEN <<>> ELSE t.subscriptions
<1>1. <<>> \in Seq(Names) /\ {"top", "leaving"} \subseteq SessionPcs
  BY DEF SessionPcs
<1>2. CASE t.a_live
  <2>1. LoopEnd(t) = [t EXCEPT !.request = NoRequest, !.reply = Nil, !.pc = "top", !.todo = <<>>]
    BY <1>2 DEF LoopEnd
  <2> QED BY <1>1, <1>2, <2>1 DEF IsThread, SameHoldings
<1>3. CASE ~t.a_live
  <2>1. LoopEnd(t) = [t EXCEPT !.request = NoRequest, !.reply = Nil, !.pc = "leaving",
                               !.todo = t.subscriptions]
    BY <1>3 DEF LoopEnd
  <2> QED BY <1>1, <1>3, <2>1 DEF IsThread, SameHoldings
<1> QED BY <1>2, <1>3

LEMMA RepliesOutcome ==
    ASSUME NEW c \in Clients, IsThread(client[c]), NEW reply
    PROVE  LET u == Replies(c, reply)
           IN  \/ u = LoopEnd(client[c])
               \/ /\ IsThread(u) /\ SameHoldings(client[c], u)
                  /\ u.pc = "log_reply" /\ u.todo = client[c].todo /\ u.left = client[c].left
<1>1. "log_reply" \in SessionPcs
  BY DEF SessionPcs
<1> QED BY <1>1 DEF Replies, IsThread, SameHoldings

LEMMA BecomesOutcome ==
    ASSUME Typed, NEW c \in Clients, NEW t, Becomes(c, t)
    PROVE  /\ client'[c] = t
           /\ \A o \in Clients \ {c} : client'[o] = client[o]
           /\ client' = [o \in Clients |-> client'[o]]
BY DEF Typed, Becomes

-----------------------------------------------------------------------------
(* One thread's step, conjunct by conjunct *)

\* The thread of c becomes t: what is asked of t wherever the step leads.
Steps(c, t) == Becomes(c, t) /\ IsThread(t) /\ t.left <= client[c].left

LEMMA StepsOutcome ==
    ASSUME IInv, NEW c \in Clients, NEW t, Steps(c, t)
    PROVE  /\ client'[c] = t /\ IsThread(t)
           /\ \A o \in Clients \ {c} : client'[o] = client[o]
           /\ client' = [o \in Clients |-> client'[o]]
BY BecomesOutcome DEF IInv, Steps

ChannelsTyped ==
    /\ channels = [n \in DOMAIN channels |-> channels[n]] /\ DOMAIN channels \subseteq Names
    /\ \A n \in DOMAIN channels : channels[n] \in Seq(ListenerType)

LEMMA TypedKept ==
    ASSUME IInv, NEW c \in Clients, NEW t, Steps(c, t), ChannelsTyped',
           dropped' \subseteq AllReceivers, logger' \in {"starting", "running", "dead"},
           hung_up' \subseteq Clients, poisoned' \in BOOLEAN
    PROVE  Typed'
<1>1. t.left <= MaxRequests[c]
  <2>1. t.left <= client[c].left /\ client[c].left <= MaxRequests[c]
    BY DEF IInv, Typed, Steps
  <2>2. t.left \in Nat /\ client[c].left \in Nat /\ MaxRequests[c] \in Nat
    BY SessionsAssumption DEF IInv, Typed, IsThread, Steps
  <2> QED BY <2>1, <2>2
<1>2. \A o \in Clients : IsThread(client'[o]) /\ client'[o].left <= MaxRequests[o]
  BY <1>1, StepsOutcome DEF IInv, Typed
<1>3. \A o \in Clients : IsThread(client[o])' <=> IsThread(client'[o])
  BY DEF IsThread
<1> QED BY <1>2, <1>3, StepsOutcome DEF Typed, ChannelsTyped

LEMMA RequestKept ==
    ASSUME IInv, NEW c \in Clients, NEW t, Steps(c, t),
           t.pc \in UnderWay => t.left < MaxRequests[c],
           t.pc \in AsRead => \E words \in Sends[c] : t.request = Parse(words, t.subscription_mode)
    PROVE  RequestKnown'
BY StepsOutcome DEF IInv, RequestKnown

LEMMA MutexKept ==
    ASSUME IInv, NEW c \in Clients, NEW t, Steps(c, t), client[c].pc # "store", t.pc # "store",
           UNCHANGED logger_ref
    PROVE  MutexHeld'
BY StepsOutcome DEF IInv, MutexHeld, At

LEMMA NotAliveKept ==
    ASSUME IInv, NEW c \in Clients, NEW t, Steps(c, t),
           t.a_live \/ t.pc \in {"log_reply", "leaving", "gone", "panicked"}
    PROVE  NotAlive'
BY StepsOutcome DEF IInv, NotAlive

LEMMA CountedKept ==
    ASSUME IInv, NEW c \in Clients, NEW t, Steps(c, t), client[c].pc \notin {"unborn", "panicked"},
           t.pc # "unborn", t.a_live = client[c].a_live, UNCHANGED total_clients
    PROVE  Counted'
<1>0. Counted
  BY DEF IInv
<1>1. CASE t.pc # "panicked"
  <2>1. Panicked' = Panicked /\ Served' = Served
    BY <1>1, StepsOutcome DEF Panicked, Served, At
  <2> QED BY <1>0, <2>1 DEF Counted
<1>2. CASE t.pc = "panicked"
  <2>1. Panicked' = Panicked \cup {c} /\ c \notin Panicked
    BY <1>2, StepsOutcome DEF Panicked, At
  <2>2. Served' = Served \ {c}
    BY <1>2, <2>1, StepsOutcome DEF Served, At
  <2>3. /\ IsFiniteSet(Panicked') /\ Cardinality(Panicked') = Cardinality(Panicked) + 1
        /\ Cardinality(Panicked) \in Nat /\ Cardinality(Served) \in Nat
    BY <1>0, <2>1, FS_AddElement, FS_CardinalityType DEF Counted
  <2>4. /\ IsFiniteSet(Served')
        /\ Cardinality(Served') = Cardinality(Served) \/ Cardinality(Served') = Cardinality(Served) - 1
    BY <1>0, <2>2, FS_RemoveElement DEF Counted
  <2> QED BY <1>0, <2>3, <2>4 DEF Counted
<1> QED BY <1>1, <1>2

\* The thread that has changed the configuration is going to set the verbosity.
StaleThread(t) == t.pc \in {"top", "lock", "panicked"} \/ (t.pc = "log_reply" /\ t.a_live)

LEMMA VerboseKept ==
    ASSUME IInv, NEW c \in Clients, NEW t, Steps(c, t), client[c].pc # "store", t.pc # "store",
           Stale(c) => StaleThread(t), conf' = conf \/ StaleThread(t), UNCHANGED logger_verbose
    PROVE  VerboseKnown'
<1>0. VerboseKnown
  BY DEF IInv
<1>1. \A o \in Clients : Stale(o) => Stale(o)'
  BY StepsOutcome DEF Stale, StaleThread, At
<1>2. \A o \in Clients : At(o, "store") => o # c
  BY DEF At
<1>3. \A o \in Clients : At(o, "store")' <=> At(o, "store")
  BY StepsOutcome DEF At
<1>4. \A o \in Clients : At(o, "store") => client'[o].verbose = client[o].verbose
  BY <1>2, StepsOutcome
<1>5. CASE conf' = conf
  <2>1. verbose(conf)' = verbose(conf)
    BY <1>5, Zenon
  <2> QED BY <1>0, <1>1, <1>3, <1>4, <2>1 DEF VerboseKnown
<1>6. CASE StaleThread(t)
  <2>1. Stale(c)'
    BY <1>6, StepsOutcome DEF Stale, StaleThread, At
  <2> QED BY <1>2, <1>3, <2>1 DEF VerboseKnown
<1> QED BY <1>5, <1>6

\* The sender of a message may poison the mutex, if somebody is gone; a
\* receiver is dropped by a MONITOR that ends, or does no harm any more.
PoisonAround(c) ==
    /\ poisoned' \in BOOLEAN
    /\ poisoned => poisoned'
    /\ poisoned' => poisoned \/ dropped # {}
    /\ dropped \subseteq dropped'
    /\ \A r \in dropped' \ dropped : poisoned \/ (c \in hung_up /\ r \in client[c].monitors)

LEMMA PoisonKept ==
    ASSUME IInv, NEW c \in Clients, NEW t, Steps(c, t), client[c].monitors \subseteq t.monitors,
           t.pc = "monitoring" => <<c, t.left>> \in t.monitors,
           PoisonAround(c), UNCHANGED <<logger, hung_up>>
    PROVE  (DroppedByTheGone /\ QueueNoted /\ PoisonedByTheGone)'
<1>0. DroppedByTheGone /\ QueueNoted /\ PoisonedByTheGone /\ hung_up \subseteq Clients
  BY DEF IInv, Typed
<1>1. \A o \in Clients : client[o].monitors \subseteq client'[o].monitors
  BY StepsOutcome
<1>2. DroppedByTheGone'
  <2>1. ASSUME ~poisoned', NEW r \in dropped'
        PROVE  \/ r = LoggerReceiver /\ logger' = "dead"
               \/ \E o \in hung_up' : r \in client'[o].monitors
    <3>1. CASE r \in dropped
      <4>1. \/ r = LoggerReceiver /\ logger = "dead"
            \/ \E o \in hung_up : r \in client[o].monitors
        BY <1>0, <2>1, <3>1 DEF DroppedByTheGone, PoisonAround
      <4> QED BY <1>0, <1>1, <4>1
    <3>2. CASE r \notin dropped
      BY <1>1, <2>1, <3>2 DEF PoisonAround
    <3> QED BY <3>1, <3>2
  <2> QED BY <2>1 DEF DroppedByTheGone
<1>3. QueueNoted'
  BY <1>0, StepsOutcome DEF QueueNoted, At, Queue
<1>4. PoisonedByTheGone'
  <2>1. poisoned' => logger = "dead" \/ \E o \in hung_up : client[o].monitors \cap dropped # {}
    BY <1>0 DEF PoisonedByTheGone, DroppedByTheGone, PoisonAround
  <2>2. poisoned' => logger = "dead" \/ \E o \in hung_up : client'[o].monitors \cap dropped # {}
    BY <1>0, <1>1, <2>1
  <2> QED BY <2>2 DEF PoisonedByTheGone, PoisonAround
<1> QED BY <1>2, <1>3, <1>4

\* A thread that is served before the step and after it, or panics.
Serving(c, t) ==
    /\ client[c].pc \notin {"unborn", "store", "panicked"} /\ t.pc \notin {"unborn", "store"}
    /\ t.a_live = client[c].a_live
    /\ t.a_live \/ t.pc \in {"log_reply", "leaving", "gone", "panicked"}
    /\ t.pc \in UnderWay => t.left < MaxRequests[c]
    /\ t.pc \notin AsRead
    /\ Stale(c) => StaleThread(t)

LEMMA ServingKept ==
    ASSUME IInv, NEW c \in Clients, NEW t, Steps(c, t), Serving(c, t),
           UNCHANGED <<conf, logger_verbose, logger_ref, total_clients>>
    PROVE  (RequestKnown /\ MutexHeld /\ NotAlive /\ Counted /\ VerboseKnown)'
<1>1. RequestKnown'
  BY RequestKept DEF Serving
<1>2. MutexHeld' /\ NotAlive'
  BY MutexKept, NotAliveKept DEF Serving
<1>3. Counted'
  BY CountedKept DEF Serving
<1>4. VerboseKnown'
  BY VerboseKept DEF Serving
<1> QED BY <1>1, <1>2, <1>3, <1>4

\* The lists of the threads and of the channels, and who monitors.
Lists == OwnListsDistinct /\ ListenersDistinct /\ AllRegistered /\ LogListens /\ MonitorsOnce

LEMMA ListsKept ==
    ASSUME IInv, NEW c \in Clients, NEW t, Steps(c, t), UNCHANGED channels, dropped \subseteq dropped',
           t.subscriptions = client[c].subscriptions, client[c].pc # "panicked",
           t.pc # "panicked" =>
               Expected(c) = IF t.pc \in {"leaving", "gone"} THEN t.todo ELSE t.subscriptions,
           t.pc = "leaving" => Distinct(t.todo),
           t.pc \notin {"subscribing", "leaving", "gone", "panicked"}
               /\ MONITOR \in ToSet(t.subscriptions) => t.subscription_mode \/ Blocked(c)',
           t.pc = "execute" /\ t.request.kind = "Suscriber" /\ MONITOR \in ToSet(t.subscriptions) =>
               t.subscription_mode,
           t.pc = "add_monitor" => MONITOR \notin ToSet(t.subscriptions),
           t.pc # "monitoring"
    PROVE  Lists'
<1>0. OwnListsDistinct /\ ListenersDistinct /\ AllRegistered /\ LogListens /\ MonitorsOnce
  BY DEF IInv
<1>1. OwnListsDistinct'
  BY <1>0, StepsOutcome DEF OwnListsDistinct, At, Distinct
<1>2. ListenersDistinct'
  BY <1>0 DEF ListenersDistinct, OnceEach
<1>3. \A n : Listeners(n)' = Listeners(n) /\ Ids(n)' = Ids(n)
  BY DEF Listeners, Ids
<1>4. AllRegistered'
  <2>1. ASSUME NEW o \in Clients, ~At(o, "panicked")' PROVE Registered(o)'
    <3>1. ~At(o, "panicked")
      BY <2>1, StepsOutcome DEF At
    <3>2. Expected(o)' = Expected(o)
      BY <2>1, StepsOutcome DEF Expected, At
    <3> QED BY <1>0, <1>3, <3>1, <3>2 DEF AllRegistered, Registered
  <2> QED BY <2>1 DEF AllRegistered
<1>5. LogListens'
  BY <1>0, <1>3 DEF LogListens
<1>6. \A o : Blocked(o) => Blocked(o)'
  BY <1>3 DEF Blocked
<1>7. MonitorsOnce'
  <2>1. ASSUME NEW o \in Clients,
               client'[o].pc \notin {"subscribing", "monitoring", "leaving", "gone", "panicked"}
        PROVE  MonitorsAsSubscribed(o)'
    BY <1>0, <1>6, <2>1, StepsOutcome DEF MonitorsOnce, MonitorsAsSubscribed
  <2>2. ASSUME NEW o \in Clients, At(o, "execute")', Requests(o, "Suscriber")',
               MONITOR \in ToSet(client'[o].subscriptions)
        PROVE  client'[o].subscription_mode
    BY <1>0, <2>2, StepsOutcome DEF MonitorsOnce, At, Requests
  <2>3. ASSUME NEW o \in Clients, At(o, "add_monitor")'
        PROVE  MONITOR \notin ToSet(client'[o].subscriptions)
    BY <1>0, <2>3, StepsOutcome DEF MonitorsOnce, At
  <2>4. ASSUME NEW o \in Clients, At(o, "monitoring")'
        PROVE  (\E l \in ToSet(Listeners(MONITOR)) : l.id = o /\ l.receiver = Queue(o))'
    <3>1. At(o, "monitoring") /\ Queue(o)' = Queue(o)
      BY <2>4, StepsOutcome DEF At, Queue
    <3>2. \E l \in ToSet(Listeners(MONITOR)) : l.id = o /\ l.receiver = Queue(o)
      BY <1>0, <3>1 DEF MonitorsOnce
    <3> QED BY <1>3, <3>1, <3>2
  <2> QED BY <2>1, <2>2, <2>3, <2>4 DEF MonitorsOnce, MONITOR
<1> QED BY <1>1, <1>2, <1>4, <1>5, <1>7 DEF Lists

-----------------------------------------------------------------------------
(* Steps that leave the channels alone *)

\* The thread of c goes on, as t, in its request or in its loop: it keeps what
\* it has, and is not served for the first or the last time.
Calm(c, t) ==
    /\ IsThread(t) /\ SameHoldings(client[c], t) /\ t.left <= client[c].left
    /\ t.pc \in UnderWay => t.left < MaxRequests[c]
    /\ t.pc \in AsRead =>
           \E words \in Sends[c] : t.request = Parse(words, t.subscription_mode)
    /\ client[c].pc \notin {"unborn", "store", "panicked"} /\ t.pc \notin {"unborn", "store", "monitoring"}
    /\ t.a_live \/ t.pc \in {"log_reply", "leaving", "gone", "panicked"}
    /\ Stale(c) => StaleThread(t)
    /\ t.pc # "panicked" =>
           Expected(c) = IF t.pc \in {"leaving", "gone"} THEN t.todo ELSE t.subscriptions
    /\ t.pc = "leaving" => Distinct(t.todo)
    /\ t.pc \notin {"subscribing", "leaving", "gone", "panicked"} => MonitorsAsSubscribed(c)
    /\ t.pc = "execute" /\ t.request.kind = "Suscriber" /\ MONITOR \in ToSet(t.subscriptions) =>
           t.subscription_mode
    /\ t.pc = "add_monitor" => MONITOR \notin ToSet(t.subscriptions)

\* What else such a step may do.
Around ==
    /\ UNCHANGED <<channels, dropped, logger, logger_verbose, logger_ref, total_clients, hung_up>>
    /\ poisoned' \in BOOLEAN
    /\ poisoned => poisoned'
    /\ poisoned' => poisoned \/ dropped # {}

\* The configuration changes only before the verbosity is set again.
ConfOf(t) == conf' = conf \/ StaleThread(t)

LEMMA CalmStep ==
    ASSUME IInv, NEW c \in Clients, NEW t, Becomes(c, t), Calm(c, t), Around, ConfOf(t)
    PROVE  IInv'
<1>1. Steps(c, t) /\ SameHoldings(client[c], t)
  BY DEF Steps, Calm
<1>2. Typed'
  <2>1. ChannelsTyped' /\ dropped' \subseteq AllReceivers /\ logger' \in {"starting", "running", "dead"}
        /\ hung_up' \subseteq Clients /\ poisoned' \in BOOLEAN
    BY DEF IInv, Typed, ChannelsTyped, Around
  <2> QED BY <1>1, <2>1, TypedKept
<1>3. RequestKnown'
  BY <1>1, RequestKept DEF Calm
<1>4. MutexHeld' /\ NotAlive'
  BY <1>1, MutexKept, NotAliveKept DEF Calm, Around
<1>5. Counted'
  BY <1>1, CountedKept DEF Calm, Around, SameHoldings
<1>6. VerboseKnown'
  BY <1>1, VerboseKept DEF Calm, Around, ConfOf
<1>7. (DroppedByTheGone /\ QueueNoted /\ PoisonedByTheGone)'
  BY <1>1, PoisonKept DEF Calm, Around, SameHoldings, PoisonAround
<1>8. Lists'
  <2>1. Blocked(c)' <=> Blocked(c)
    BY DEF Blocked, Listeners, Around
  <2>2. UNCHANGED channels /\ dropped \subseteq dropped'
    BY DEF Around
  <2>3. t.pc \notin {"subscribing", "leaving", "gone", "panicked"}
            /\ MONITOR \in ToSet(t.subscriptions) => t.subscription_mode \/ Blocked(c)'
    BY <1>1, <2>1 DEF Calm, SameHoldings, MonitorsAsSubscribed
  <2> QED BY <1>1, <2>2, <2>3, ListsKept DEF Calm, SameHoldings
<1> QED BY <1>2, <1>3, <1>4, <1>5, <1>6, <1>7, <1>8 DEF IInv, Lists

\* What the lemmas about the actions start from.
LEMMA Holds ==
    ASSUME IInv, NEW c \in Clients
    PROVE  /\ IsThread(client[c])
           /\ client[c].a_live \/ client[c].pc \in {"log_reply", "leaving", "gone", "panicked"}
           /\ Distinct(client[c].subscriptions)
           /\ client[c].pc \notin {"subscribing", "monitoring", "leaving", "gone", "panicked"} =>
                  MonitorsAsSubscribed(c)
           /\ client[c].pc \in UnderWay => client[c].left < MaxRequests[c]
BY DEF IInv, Typed, NotAlive, OwnListsDistinct, MonitorsOnce, RequestKnown

LEMMA PanicCalm ==
    ASSUME IInv, NEW c \in Clients, client[c].pc \notin {"unborn", "store", "panicked"}
    PROVE  Calm(c, Goto(c, "panicked"))
<1>1. "panicked" \in SessionPcs
  BY DEF SessionPcs
<1> DEFINE u == Goto(c, "panicked")
<1>2. /\ IsThread(u) /\ u.pc = "panicked" /\ SameHoldings(client[c], u) /\ u.left = client[c].left
  BY <1>1, Holds, GotoOutcome
<1>3. client[c].left \in Nat
  BY Holds DEF IsThread
<1> HIDE DEF u
<1>4. Calm(c, u)
  BY <1>2, <1>3 DEF Calm, UnderWay, AsRead, SameHoldings, StaleThread
<1> QED BY <1>4 DEF u

\* Where a thread that is alive comes to the end of a request.
Ending == {"execute", "unsubscribing", "counting", "tell_monitors"}

LEMMA LoopEndCalm ==
    ASSUME IInv, NEW c \in Clients, client[c].pc \in Ending \cup {"log_reply"}
    PROVE  Calm(c, LoopEnd(client[c]))
<1> DEFINE u == LoopEnd(client[c])
<1>1. /\ IsThread(u) /\ SameHoldings(client[c], u) /\ u.left = client[c].left
      /\ u.pc = IF client[c].a_live THEN "top" ELSE "leaving"
      /\ u.todo = IF client[c].a_live THEN <<>> ELSE client[c].subscriptions
  BY Holds, LoopEndOutcome
<1>2. client[c].left \in Nat
  BY Holds DEF IsThread
<1> HIDE DEF u
<1>3. Calm(c, u)
  BY <1>1, <1>2, Holds DEF Calm, UnderWay, AsRead, Ending, SameHoldings, Stale, StaleThread, At, Expected
<1> QED BY <1>3 DEF u

LEMMA RepliesCalm ==
    ASSUME IInv, NEW c \in Clients, client[c].pc \in Ending, NEW reply
    PROVE  Calm(c, Replies(c, reply))
<1> DEFINE u == Replies(c, reply)
<1>1. \/ u = LoopEnd(client[c])
      \/ /\ IsThread(u) /\ SameHoldings(client[c], u)
         /\ u.pc = "log_reply" /\ u.todo = client[c].todo /\ u.left = client[c].left
  BY Holds, RepliesOutcome
<1>2. client[c].left \in Nat /\ client[c].a_live
  BY Holds DEF IsThread, Ending
<1>3. Calm(c, LoopEnd(client[c]))
  BY LoopEndCalm
<1> HIDE DEF u
<1>4. Calm(c, u)
  <2>1. CASE u = LoopEnd(client[c])
    BY <1>3, <2>1
  <2>2. CASE /\ IsThread(u) /\ SameHoldings(client[c], u)
             /\ u.pc = "log_reply" /\ u.todo = client[c].todo /\ u.left = client[c].left
    BY <1>2, <2>2, Holds DEF Calm, UnderWay, AsRead, Ending, SameHoldings, Stale, StaleThread, At, Expected
  <2> QED BY <1>1, <2>1, <2>2
<1> QED BY <1>4 DEF u

LEMMA GotoCalm ==
    ASSUME IInv, NEW c \in Clients, NEW pc \in {"lock", "tell_monitors", "execute", "log_request"},
           \/ client[c].pc = "top" /\ pc = "lock"
           \/ client[c].pc = "log_request" /\ pc = "tell_monitors"
           \/ client[c].pc = "tell_monitors" /\ pc = "execute" /\ ~Blocked(c)
           \/ client[c].pc = "execute" /\ pc = "log_request"
    PROVE  Calm(c, Goto(c, pc))
<1>1. pc \in SessionPcs
  BY DEF SessionPcs
<1> DEFINE u == Goto(c, pc)
<1>2. /\ IsThread(u) /\ u.pc = pc /\ SameHoldings(client[c], u) /\ u.left = client[c].left
      /\ u.request = client[c].request
  BY <1>1, Holds, GotoOutcome
<1>3. client[c].left \in Nat
  BY Holds DEF IsThread
<1>4. client[c].pc \in AsRead =>
               \E words \in Sends[c] :
                   client[c].request = Parse(words, client[c].subscription_mode)
  BY DEF IInv, RequestKnown
<1> HIDE DEF u
<1>5. Calm(c, u)
  BY <1>2, <1>3, <1>4, Holds
     DEF Calm, UnderWay, AsRead, SameHoldings, Stale, StaleThread, At, Expected, MonitorsAsSubscribed
<1> QED BY <1>5 DEF u

\* A step of the thread alone.
LEMMA AloneStep ==
    ASSUME IInv, NEW c \in Clients, NEW t, Becomes(c, t), Calm(c, t), UNCHANGED <<sharedVars, channelVars>>
    PROVE  IInv'
<1>1. poisoned \in BOOLEAN
  BY DEF IInv, Typed
<1>2. Around /\ ConfOf(t)
  BY <1>1 DEF Around, ConfOf, sharedVars, channelVars
<1> QED BY <1>2, CalmStep, Zenon

\* A step under the channels' mutex that only reads.
LEMMA LookStep ==
    ASSUME IInv, NEW c \in Clients, NEW t, LocksChannels(c, UNCHANGED channelVars, t), Calm(c, t),
           client[c].pc \notin {"unborn", "store", "panicked"}, UNCHANGED sharedVars
    PROVE  IInv'
<1>1. UNCHANGED <<sharedVars, channelVars>> /\ (Becomes(c, t) \/ Becomes(c, Goto(c, "panicked")))
  BY DEF LocksChannels, Panic
<1> QED BY <1>1, PanicCalm, AloneStep, Zenon

\* A message is sent: if it reaches nobody that is gone, the thread goes on.
LEMMA TellStep ==
    ASSUME IInv, NEW c \in Clients, NEW t, NEW name, NEW what, Tells(c, name, what, t),
           client[c].pc \notin {"unborn", "store", "panicked"}, ~Fails(name) => Calm(c, t),
           UNCHANGED sharedVars
    PROVE  IInv'
<1>1. Calm(c, Goto(c, "panicked"))
  BY PanicCalm
<1>2. CASE poisoned
  <2>1. UNCHANGED channelVars /\ Becomes(c, Goto(c, "panicked"))
    BY <1>2 DEF Tells, Panic
  <2> QED BY <1>1, <2>1, AloneStep, Zenon
<1>3. CASE ~poisoned
  <2>1. /\ poisoned' = Fails(name) /\ UNCHANGED <<channels, dropped>>
        /\ IF Fails(name) THEN Panic(c) ELSE Becomes(c, t)
    BY <1>3 DEF Tells, send
  <2>2. Fails(name) \in BOOLEAN /\ (Fails(name) => dropped # {})
    BY DEF Fails
  <2>3. Around /\ conf' = conf
    BY <1>3, <2>1, <2>2 DEF Around, sharedVars
  <2>4. ASSUME NEW u, Becomes(c, u), Calm(c, u) PROVE IInv'
    <3>1. ConfOf(u)
      BY <2>3 DEF ConfOf
    <3> QED BY <2>3, <2>4, <3>1, CalmStep, Zenon
  <2> QED BY <1>1, <2>1, <2>4, Zenon DEF Panic
<1> QED BY <1>2, <1>3

-----------------------------------------------------------------------------
(* The loop *)

LEMMA ReadTimeOutStep ==
    ASSUME IInv, NEW c \in Clients, ReadTimeOut(c)
    PROVE  IInv'
<1> DEFINE u == Goto(c, "lock")
           t == [u EXCEPT !.timed = time_out(conf) > 0 /\ ~client[c].subscription_mode]
<1>1. Becomes(c, t) /\ client[c].pc = "top" /\ UNCHANGED <<sharedVars, channelVars>>
  BY DEF ReadTimeOut, At
<1>2. Calm(c, u)
  BY <1>1, GotoCalm
<1> HIDE DEF u
<1>3. Calm(c, t)
  <2>1. t = [u EXCEPT !.timed = time_out(conf) > 0 /\ ~client[c].subscription_mode]
    OBVIOUS
  <2>2. IsThread(u)
    BY <1>2 DEF Calm
  <2> HIDE DEF t
  <2>3. /\ IsThread(t) /\ SameHoldings(u, t) /\ t.pc = u.pc /\ t.left = u.left /\ t.todo = u.todo
        /\ t.request = u.request
    BY <2>1, <2>2 DEF IsThread, SameHoldings
  <2> QED BY <1>2, <2>3 DEF Calm, SameHoldings, StaleThread
<1> QED BY <1>1, <1>3, AloneStep

LEMMA FirstStepOutcome ==
    ASSUME NEW request
    PROVE  /\ FirstStep(request) \in {"execute", "log_request"}
           /\ FirstStep(request) = "execute" => request.kind # "Suscriber"
BY DEF FirstStep

LEMMA ReadRequestStep ==
    ASSUME IInv, NEW c \in Clients, ReadRequest(c)
    PROVE  IInv'
<1>1. PICK words \in Sends[c] :
        LET request == Parse(words, client[c].subscription_mode)
        IN  Becomes(c, [Goto(c, FirstStep(request)) EXCEPT !.request = request, !.left = @ - 1])
  BY DEF ReadRequest
<1> DEFINE request == Parse(words, client[c].subscription_mode)
           pc == FirstStep(request)
           u == Goto(c, pc)
           t == [u EXCEPT !.request = request, !.left = u.left - 1]
<1>2. Becomes(c, t)
  BY <1>1
<1>3. client[c].pc = "reading" /\ client[c].left > 0 /\ UNCHANGED <<sharedVars, channelVars>>
  BY DEF ReadRequest, At
<1> HIDE DEF request
<1>4. pc \in {"execute", "log_request"} /\ pc \in SessionPcs
      /\ (pc = "execute" => request.kind # "Suscriber")
  BY FirstStepOutcome DEF SessionPcs
<1> HIDE DEF pc
<1>5. IsThread(u) /\ u.pc = pc /\ SameHoldings(client[c], u) /\ u.left = client[c].left
  BY <1>4, Holds, GotoOutcome
<1>6. client[c].left \in Nat /\ MaxRequests[c] \in Nat /\ client[c].left <= MaxRequests[c]
  BY SessionsAssumption DEF IInv, Typed, IsThread
<1> HIDE DEF u
<1>7. /\ IsThread(t) /\ t.pc = pc /\ SameHoldings(client[c], t) /\ t.left = client[c].left - 1
      /\ t.request = request
  <2>1. u.left - 1 \in Nat
    BY <1>3, <1>5, <1>6
  <2>0. t = [u EXCEPT !.request = request, !.left = u.left - 1]
    OBVIOUS
  <2> HIDE DEF t
  <2>2. /\ IsThread(t) /\ SameHoldings(u, t) /\ t.pc = u.pc /\ t.left = u.left - 1
        /\ t.request = request
    BY <1>5, <2>0, <2>1 DEF IsThread, SameHoldings
  <2> QED BY <1>5, <2>2 DEF SameHoldings
<1> HIDE DEF t
<1>8. t.request = Parse(words, t.subscription_mode)
  BY <1>7 DEF request, SameHoldings
<1>9. t.left < MaxRequests[c] /\ t.left <= client[c].left
  BY <1>3, <1>6, <1>7
<1>10. Calm(c, t)
  BY <1>3, <1>4, <1>7, <1>8, <1>9, Holds DEF Calm, SameHoldings, Stale, StaleThread, At, Expected, MonitorsAsSubscribed
<1> QED BY <1>2, <1>3, <1>10, AloneStep

LEMMA LogRequestStep ==
    ASSUME IInv, NEW c \in Clients, LogRequest(c)
    PROVE  IInv'
<1>1. /\ Tells(c, LOGGER, "request", Goto(c, "tell_monitors"))
      /\ client[c].pc = "log_request" /\ UNCHANGED sharedVars
  BY DEF LogRequest, At
<1>2. Calm(c, Goto(c, "tell_monitors"))
  BY <1>1, GotoCalm
<1> QED BY <1>1, <1>2, TellStep

LEMMA TellMonitorsStep ==
    ASSUME IInv, NEW c \in Clients, TellMonitors(c)
    PROVE  IInv'
<1> DEFINE t == IF Requests(c, "Touch") THEN Replies(c, Integer(1)) ELSE Goto(c, "execute")
<1>1. Tells(c, MONITOR, "request", t) /\ client[c].pc = "tell_monitors" /\ UNCHANGED sharedVars
  BY DEF TellMonitors, At
<1>2. Calm(c, Replies(c, Integer(1)))
  BY <1>1, RepliesCalm DEF Ending
<1>3. Blocked(c) => Fails(MONITOR)
  BY DEF Blocked, Fails
<1>4. ~Blocked(c) => Calm(c, Goto(c, "execute"))
  BY <1>1, GotoCalm
<1>5. ~Fails(MONITOR) => Calm(c, t)
  BY <1>2, <1>3, <1>4
<1> HIDE DEF t
<1> QED BY <1>1, <1>5, TellStep

LEMMA LogReplyStep ==
    ASSUME IInv, NEW c \in Clients, LogReply(c)
    PROVE  IInv'
<1>1. /\ Tells(c, LOGGER, "reply", LoopEnd(client[c]))
      /\ client[c].pc = "log_reply" /\ UNCHANGED sharedVars
  BY DEF LogReply, At
<1>2. Calm(c, LoopEnd(client[c]))
  BY <1>1, LoopEndCalm
<1> QED BY <1>1, <1>2, TellStep

-----------------------------------------------------------------------------
(* Executing *)

LEMMA RefuseInvalidStep ==
    ASSUME IInv, NEW c \in Clients, RefuseInvalid(c)
    PROVE  IInv'
<1>1. /\ Becomes(c, LoopEnd(client[c])) /\ client[c].pc = "execute"
      /\ UNCHANGED <<sharedVars, channelVars>>
  BY DEF RefuseInvalid, Executes, At
<1>2. Calm(c, LoopEnd(client[c]))
  BY <1>1, LoopEndCalm DEF Ending
<1> QED BY <1>1, <1>2, AloneStep

LEMMA ExecuteQueryStep ==
    ASSUME IInv, NEW c \in Clients, ExecuteQuery(c)
    PROVE  IInv'
<1>1. /\ client[c].pc = "execute" /\ UNCHANGED <<sharedVars, channelVars>>
      /\ \/ \E reply \in {Success, Err("DataBaseError")} : Becomes(c, Replies(c, reply))
         \/ Becomes(c, Goto(c, "panicked"))
         \/ Becomes(c, Goto(c, "log_request"))
  BY DEF ExecuteQuery, Executes, At, Panic
<1>2. ASSUME NEW reply, Becomes(c, Replies(c, reply)) PROVE IInv'
  <2>1. Calm(c, Replies(c, reply))
    BY <1>1, RepliesCalm DEF Ending
  <2> QED BY <1>1, <1>2, <2>1, AloneStep
<1>3. Calm(c, Goto(c, "panicked"))
  BY <1>1, PanicCalm
<1>4. Calm(c, Goto(c, "log_request"))
  BY <1>1, GotoCalm
<1>5. ASSUME NEW t, Becomes(c, t), Calm(c, t) PROVE IInv'
  BY <1>1, <1>5, AloneStep
<1> QED BY <1>1, <1>2, <1>3, <1>4, <1>5, Zenon

LEMMA ExecuteServerStep ==
    ASSUME IInv, NEW c \in Clients, ExecuteServer(c)
    PROVE  IInv'
<1> DEFINE request == client[c].request.request
           done == SetReply(conf, request.option, request.new_value)
<1>1. /\ client[c].pc = "execute" /\ UNCHANGED <<channelVars, logger, logger_verbose, logger_ref,
                                                 total_clients, hung_up>>
      /\ \/ UNCHANGED conf /\ \E reply : Becomes(c, Replies(c, reply))
         \/ /\ Becomes(c, Replies(c, done))
            /\ conf' = set_config(conf, request.option, request.new_value)
  <2>1. CASE request.op = "ConfigSet"
    BY <2>1 DEF ExecuteServer, Executes, At
  <2>2. CASE request.op # "ConfigSet"
    BY <2>2 DEF ExecuteServer, Executes, At
  <2> QED BY <2>1, <2>2
<1>2. client[c].a_live /\ IsThread(client[c])
  BY <1>1, Holds
<1>3. Around
  BY <1>1 DEF Around, channelVars, IInv, Typed
<1>4. ASSUME NEW reply, Becomes(c, Replies(c, reply)), UNCHANGED conf PROVE IInv'
  <2>1. Calm(c, Replies(c, reply)) /\ ConfOf(Replies(c, reply))
    BY <1>1, <1>4, RepliesCalm DEF Ending, ConfOf
  <2> QED BY <1>3, <1>4, <2>1, CalmStep, Zenon
<1>5. ASSUME Becomes(c, Replies(c, done)), conf' = set_config(conf, request.option, request.new_value)
      PROVE IInv'
  <2>1. Calm(c, Replies(c, done))
    BY <1>1, RepliesCalm DEF Ending
  <2>2. conf' = conf \/ done = Success
    BY <1>5 DEF set_config
  <2>3. done = Success => Replies(c, done).pc = "log_reply" /\ Replies(c, done).a_live
    <3> HIDE DEF done
    <3> QED BY <1>2 DEF Replies, Success, IsThread
  <2>4. ConfOf(Replies(c, done))
    BY <2>2, <2>3 DEF ConfOf, StaleThread
  <2> QED BY <1>3, <1>5, <2>1, <2>4, CalmStep, Zenon
<1> QED BY <1>1, <1>4, <1>5, Zenon

\* What NUMSUB, SUBSCRIBE and UNSUBSCRIBE work through.
LEMMA NamesRead ==
    ASSUME IInv, NEW c \in Clients, client[c].pc = "execute"
    PROVE  NamedIn(client[c].request) \in Seq(Names)
<1>1. PICK words \in Sends[c] : client[c].request = Parse(words, client[c].subscription_mode)
  BY DEF IInv, RequestKnown, AsRead
<1>2. client[c].subscription_mode \in BOOLEAN
  BY DEF IInv, Typed, IsThread
<1> QED BY <1>1, <1>2, SessionsAssumption, Zenon

LEMMA ExecutePublisherStep ==
    ASSUME IInv, NEW c \in Clients, ExecutePublisher(c)
    PROVE  IInv'
<1> DEFINE request == client[c].request.request
           counted == [type |-> "Counts", counts |-> <<>>]
           t == [Goto(c, "counting") EXCEPT !.todo = request.names, !.reply = counted]
<1>1. client[c].pc = "execute" /\ UNCHANGED sharedVars /\ client[c].request.kind = "Publisher"
  BY DEF ExecutePublisher, Executes, At, Requests
<1>2. \/ \E reply : Tells(c, request.chanel, "text", Replies(c, reply))
      \/ \E reply : LocksChannels(c, UNCHANGED channelVars, Replies(c, reply))
      \/ request.op = "NumSub" /\ Becomes(c, t) /\ UNCHANGED channelVars
  BY Zenon DEF ExecutePublisher
<1>3. \A reply : Calm(c, Replies(c, reply))
  BY <1>1, RepliesCalm DEF Ending
<1>4. ASSUME NEW reply, Tells(c, request.chanel, "text", Replies(c, reply)) PROVE IInv'
  <2> DEFINE u == Replies(c, reply)
  <2>1. Calm(c, u) /\ Tells(c, request.chanel, "text", u)
    BY <1>3, <1>4
  <2> HIDE DEF u, request
  <2> QED BY <1>1, <2>1, TellStep
<1>5. ASSUME NEW reply, LocksChannels(c, UNCHANGED channelVars, Replies(c, reply)) PROVE IInv'
  <2>1. Calm(c, Replies(c, reply))
    BY <1>3
  <2> QED BY <1>1, <1>5, <2>1, LookStep
<1>6. ASSUME request.op = "NumSub", Becomes(c, t), UNCHANGED channelVars PROVE IInv'
  <2>1. request.names \in Seq(Names)
    BY <1>1, <1>6, NamesRead DEF NamedIn
  <2>2. IsThread(Goto(c, "counting")) /\ Goto(c, "counting").pc = "counting"
        /\ SameHoldings(client[c], Goto(c, "counting")) /\ Goto(c, "counting").left = client[c].left
    BY Holds, GotoOutcome DEF SessionPcs
  <2>3. IsThread(t) /\ t.pc = "counting" /\ SameHoldings(client[c], t) /\ t.left = client[c].left
    <3> HIDE DEF request, counted
    <3> DEFINE u == Goto(c, "counting")
    <3>1. t = [u EXCEPT !.todo = request.names, !.reply = counted]
      OBVIOUS
    <3>0. IsThread(u)
      BY <2>2
    <3> HIDE DEF u, t, request, counted
    <3>2. IsThread(t) /\ SameHoldings(u, t) /\ t.pc = u.pc /\ t.left = u.left
      BY <2>1, <3>0, <3>1 DEF IsThread, SameHoldings
    <3> QED BY <2>2, <3>2 DEF SameHoldings, u
  <2> HIDE DEF t
  <2>4. client[c].left \in Nat /\ client[c].a_live
    BY <1>1, Holds DEF IsThread
  <2>5. Calm(c, t)
    BY <1>1, <2>3, <2>4, Holds DEF Calm, UnderWay, AsRead, SameHoldings, Stale, StaleThread, At, Expected, MonitorsAsSubscribed
  <2> QED BY <1>1, <1>6, <2>5, AloneStep
<1> QED BY <1>2, <1>4, <1>5, <1>6

\* One more name is done with, and nothing else.
LEMMA TodoCalm ==
    ASSUME IInv, NEW c \in Clients, client[c].pc \in {"subscribing", "unsubscribing", "counting"},
           NEW t, IsThread(t), SameHoldings(client[c], t), t.pc = client[c].pc, t.left = client[c].left
    PROVE  Calm(c, t)
<1>1. client[c].left \in Nat /\ client[c].a_live
  BY Holds DEF IsThread
<1> QED BY <1>1, Holds
        DEF Calm, UnderWay, AsRead, SameHoldings, Stale, StaleThread, At, Expected, MonitorsAsSubscribed

LEMMA TailNames ==
    ASSUME IInv, NEW c \in Clients, client[c].todo # <<>>
    PROVE  /\ Head(client[c].todo) \in Names /\ Tail(client[c].todo) \in Seq(Names)
           /\ IsThread(client[c])
BY Holds DEF IsThread

LEMMA CountNextStep ==
    ASSUME IInv, NEW c \in Clients, CountNext(c)
    PROVE  IInv'
<1> DEFINE l == client[c]
           count == subcriptors_number(Head(l.todo))
           t == [l EXCEPT !.todo = Tail(@), !.reply.counts = Append(@, count)]
<1>1. l.pc = "counting" /\ UNCHANGED sharedVars
  BY DEF CountNext, At
<1>2. \/ Becomes(c, Replies(c, l.reply)) /\ UNCHANGED channelVars
      \/ l.todo # <<>> /\ LocksChannels(c, UNCHANGED channelVars, t)
  BY DEF CountNext
<1>3. CASE Becomes(c, Replies(c, l.reply)) /\ UNCHANGED channelVars
  <2>1. Calm(c, Replies(c, l.reply))
    BY <1>1, RepliesCalm DEF Ending
  <2> QED BY <1>1, <1>3, <2>1, AloneStep
<1>4. CASE l.todo # <<>> /\ LocksChannels(c, UNCHANGED channelVars, t)
  <2>1. Tail(l.todo) \in Seq(Names) /\ IsThread(l)
    BY <1>4, TailNames
  <2>2. t = [l EXCEPT !.todo = Tail(l.todo),
                      !.reply = [l.reply EXCEPT !.counts = Append(l.reply.counts, count)]]
    BY <2>1 DEF IsThread
  <2> HIDE DEF t, count
  <2>3. IsThread(t) /\ SameHoldings(l, t) /\ t.pc = l.pc /\ t.left = l.left
    BY <2>1, <2>2 DEF IsThread, SameHoldings
  <2>4. Calm(c, t)
    BY <1>1, <2>3, TodoCalm
  <2> QED BY <1>1, <1>4, <2>4, LookStep
<1> QED BY <1>2, <1>3, <1>4

-----------------------------------------------------------------------------
(* Subscribing *)

\* What comes past the question of the mode is for the database.
LEMMA SortSubscribesNobody ==
    ASSUME NEW words
    PROVE  Read("sort", words).kind # "Suscriber"
<1>1. "sort" \notin DOMAIN Shapes
  BY DEF Shapes
<1>2. Read("sort", words) = SortRequest(words)
  BY <1>1 DEF Read
<1>3. SortRequest(words).kind \in {"DataBase", "Invalid"}
  BY DEF SortRequest, OneUnit, DataBase, UnknownRequest, ParseError, Invalid
<1> QED BY <1>2, <1>3

LEMMA ExecuteSuscriberStep ==
    ASSUME IInv, NEW c \in Clients, ExecuteSuscriber(c)
    PROVE  IInv'
<1> DEFINE request == client[c].request
           own == client[c].subscriptions
           u1 == Goto(c, "subscribing")
           t1 == [u1 EXCEPT !.todo = request.names]
           todo == IF request.names = <<>> THEN own ELSE request.names
           u2 == Goto(c, "unsubscribing")
           t2 == [u2 EXCEPT !.todo = todo]
           t3 == Goto(c, "add_monitor")
<1>1. /\ client[c].pc = "execute" /\ request.kind = "Suscriber" /\ UNCHANGED <<sharedVars, channelVars>>
      /\ Becomes(c, t1) \/ Becomes(c, t2) \/ (request.op = "monitor" /\ Becomes(c, t3))
  BY DEF ExecuteSuscriber, Executes, At, Requests
<1>2. request.names \in Seq(Names) /\ todo \in Seq(Names) /\ IsThread(client[c])
  <2>1. request.names \in Seq(Names)
    BY <1>1, NamesRead DEF NamedIn
  <2> QED BY <2>1, Holds DEF IsThread
<1>3. {"subscribing", "unsubscribing", "add_monitor"} \subseteq SessionPcs
  BY DEF SessionPcs
<1>4. /\ client[c].a_live /\ client[c].left \in Nat /\ client[c].left < MaxRequests[c]
      /\ MonitorsAsSubscribed(c)
  BY <1>1, Holds DEF UnderWay, IsThread
<1>5. Calm(c, t1)
  <2>1. IsThread(u1) /\ u1.pc = "subscribing" /\ SameHoldings(client[c], u1) /\ u1.left = client[c].left
    BY <1>2, <1>3, GotoOutcome
  <2> HIDE DEF u1, request
  <2>2. IsThread(t1) /\ t1.pc = u1.pc /\ SameHoldings(u1, t1) /\ t1.left = u1.left
    BY <1>2, <2>1, TodoOutcome
  <2> HIDE DEF t1
  <2> QED BY <1>1, <1>4, <2>1, <2>2 DEF Calm, UnderWay, AsRead, SameHoldings, Stale, StaleThread, At, Expected
<1>6. Calm(c, t2)
  <2>1. IsThread(u2) /\ u2.pc = "unsubscribing" /\ SameHoldings(client[c], u2) /\ u2.left = client[c].left
    BY <1>2, <1>3, GotoOutcome
  <2> HIDE DEF u2, todo
  <2>2. IsThread(t2) /\ t2.pc = u2.pc /\ SameHoldings(u2, t2) /\ t2.left = u2.left
    BY <1>2, <2>1, TodoOutcome
  <2> HIDE DEF t2
  <2> QED BY <1>1, <1>4, <2>1, <2>2 DEF Calm, UnderWay, AsRead, SameHoldings, Stale, StaleThread, At, Expected
<1>7. ASSUME request.op = "monitor" PROVE Calm(c, t3)
  <2>1. PICK words \in Sends[c] : request = Parse(words, client[c].subscription_mode)
    BY <1>1 DEF IInv, RequestKnown, AsRead
  <2>2. ~client[c].subscription_mode
    <3>1. ReturnsEarly(Head(words), Tail(words)) =>
             Read(Head(words), Tail(words)).kind # "Suscriber"
      BY SortSubscribesNobody, Zenon DEF ReturnsEarly
    <3>2. request.kind = "Suscriber"
      BY <1>1 DEF Executes, Requests
    <3> QED BY <1>1, <1>7, <2>1, <3>1, <3>2
         DEF Parse, AllowedInSubscriptionMode, InvalidCommandSubscribeMode, Invalid
  <2>3. MONITOR \notin ToSet(own)
    BY <1>1, <2>2 DEF IInv, MonitorsOnce, At, Requests
  <2>4. IsThread(t3) /\ t3.pc = "add_monitor" /\ SameHoldings(client[c], t3) /\ t3.left = client[c].left
    BY <1>2, <1>3, GotoOutcome
  <2> HIDE DEF t3
  <2> QED BY <1>1, <1>4, <2>3, <2>4 DEF Calm, UnderWay, AsRead, SameHoldings, Stale, StaleThread, At, Expected
<1> HIDE DEF t1, t2, t3
<1> QED BY <1>1, <1>5, <1>6, <1>7, AloneStep

\* The state without the queues: IInv says nothing of what is in them.
LEMMA NothingStep ==
    ASSUME IInv, UNCHANGED <<client, sharedVars, channels, poisoned, dropped>>
    PROVE  IInv'
<1>1. /\ client' = client /\ channels' = channels /\ poisoned' = poisoned /\ dropped' = dropped
      /\ conf' = conf /\ logger' = logger /\ logger_verbose' = logger_verbose
      /\ logger_ref' = logger_ref /\ total_clients' = total_clients /\ hung_up' = hung_up
  BY DEF sharedVars
<1>2. (Typed /\ RequestKnown /\ MutexHeld /\ NotAlive)'
  BY <1>1 DEF IInv, Typed, RequestKnown, MutexHeld, NotAlive, At, IsThread
<1>3. (Counted /\ VerboseKnown)'
  BY <1>1 DEF IInv, Counted, Panicked, Served, VerboseKnown, Stale, At
<1>4. (DroppedByTheGone /\ QueueNoted /\ PoisonedByTheGone)'
  BY <1>1 DEF IInv, DroppedByTheGone, QueueNoted, PoisonedByTheGone, At, Queue
<1>5. (OwnListsDistinct /\ ListenersDistinct)'
  BY <1>1 DEF IInv, OwnListsDistinct, ListenersDistinct, At
<1>6. (AllRegistered /\ LogListens)'
  BY <1>1 DEF IInv, AllRegistered, Registered, LogListens, Ids, Listeners, Expected, At
<1>7. MonitorsOnce'
  BY <1>1 DEF IInv, MonitorsOnce, MonitorsAsSubscribed, Blocked, Listeners, At, Queue, Requests
<1> QED BY <1>2, <1>3, <1>4, <1>5, <1>6, <1>7 DEF IInv

LEMMA MonitorMessageStep ==
    ASSUME IInv, NEW c \in Clients, MonitorMessage(c)
    PROVE  IInv'
BY NothingStep DEF MonitorMessage, Receive

LEMMA RelayMessageStep ==
    ASSUME IInv, NEW r \in ClientReceivers, RelayMessage(r)
    PROVE  IInv'
BY NothingStep DEF RelayMessage, Receive

-----------------------------------------------------------------------------
(* Connections come and go *)

LEMMA AcceptStep ==
    ASSUME IInv, NEW c \in Clients, Accept(c)
    PROVE  IInv'
<1> DEFINE t == Goto(c, "top")
<1>1. /\ client[c].pc = "unborn" /\ Becomes(c, t) /\ total_clients' = total_clients + 1
      /\ UNCHANGED <<channels, poisoned, dropped, conf, logger, logger_verbose, logger_ref, hung_up>>
  BY DEF Accept, At, channelVars
<1>2. IsThread(t) /\ t.pc = "top" /\ SameHoldings(client[c], t) /\ t.left = client[c].left
      /\ client[c].left \in Nat
  <2>1. IsThread(client[c]) /\ "top" \in SessionPcs
    BY Holds DEF SessionPcs
  <2>2. client[c].left \in Nat
    BY <2>1 DEF IsThread
  <2> QED BY <2>1, <2>2, GotoOutcome
<1> HIDE DEF t
<1>3. Steps(c, t)
  BY <1>1, <1>2 DEF Steps
<1>4. Typed'
  <2>1. ChannelsTyped' /\ dropped' \subseteq AllReceivers /\ logger' \in {"starting", "running", "dead"}
        /\ hung_up' \subseteq Clients /\ poisoned' \in BOOLEAN
    BY <1>1 DEF IInv, Typed, ChannelsTyped
  <2> QED BY <1>3, <2>1, TypedKept
<1>5. RequestKnown'
  BY <1>2, <1>3, RequestKept DEF UnderWay, AsRead
<1>6. client[c].a_live
  BY <1>1, Holds
<1>7. MutexHeld' /\ NotAlive'
  BY <1>1, <1>2, <1>3, <1>6, MutexKept, NotAliveKept DEF SameHoldings
<1>8. Counted'
  <2>1. Panicked' = Panicked
    BY <1>1, <1>2, <1>3, StepsOutcome DEF Panicked, At
  <2>2. Served' = Served \cup {c} /\ c \notin Served
    <3>1. c \notin Served /\ c \in Served'
      BY <1>1, <1>2, <1>3, <1>6, StepsOutcome DEF Served, Panicked, At, SameHoldings
    <3>2. \A o \in Clients \ {c} : o \in Served' <=> o \in Served
      BY <1>3, StepsOutcome DEF Served, Panicked, At
    <3>3. Served \subseteq Clients /\ Served' \subseteq Clients
      BY DEF Served
    <3> QED BY <3>1, <3>2, <3>3
  <2>3. IsFiniteSet(Served') /\ Cardinality(Served') = Cardinality(Served) + 1
    BY <2>2, FS_AddElement DEF IInv, Counted
  <2>4. Cardinality(Panicked) \in Nat /\ Cardinality(Served) \in Nat
    BY FS_CardinalityType DEF IInv, Counted
  <2> QED BY <1>1, <2>1, <2>3, <2>4 DEF IInv, Counted
<1>9. VerboseKnown'
  BY <1>1, <1>2, <1>3, VerboseKept DEF StaleThread
<1>10. (DroppedByTheGone /\ QueueNoted /\ PoisonedByTheGone)'
  BY <1>1, <1>2, <1>3, PoisonKept DEF SameHoldings, PoisonAround, IInv, Typed
<1>11. Lists'
  <2>1. Blocked(c)' <=> Blocked(c)
    BY <1>1 DEF Blocked, Listeners
  <2>2. MonitorsAsSubscribed(c) /\ Expected(c) = client[c].subscriptions
    BY <1>1, Holds DEF Expected
  <2> QED BY <1>1, <1>2, <1>3, <2>1, <2>2, ListsKept DEF SameHoldings, MonitorsAsSubscribed
<1> QED BY <1>4, <1>5, <1>7, <1>8, <1>9, <1>10, <1>11 DEF IInv, Lists

LEMMA HangUpStep ==
    ASSUME IInv, NEW c \in Clients, HangUp(c)
    PROVE  IInv'
<1>1. /\ hung_up' = hung_up \cup {c}
      /\ client' = client /\ channels' = channels /\ poisoned' = poisoned /\ dropped' = dropped
      /\ conf' = conf /\ logger' = logger /\ logger_verbose' = logger_verbose
      /\ logger_ref' = logger_ref /\ total_clients' = total_clients
  BY DEF HangUp, channelVars
<1>2. (Typed /\ RequestKnown /\ MutexHeld /\ NotAlive)'
  BY <1>1 DEF IInv, Typed, RequestKnown, MutexHeld, NotAlive, At, IsThread
<1>3. (Counted /\ VerboseKnown)'
  BY <1>1 DEF IInv, Counted, Panicked, Served, VerboseKnown, Stale, At
<1>4. (DroppedByTheGone /\ QueueNoted /\ PoisonedByTheGone)'
  BY <1>1 DEF IInv, DroppedByTheGone, QueueNoted, PoisonedByTheGone, At, Queue
<1>5. (OwnListsDistinct /\ ListenersDistinct)'
  BY <1>1 DEF IInv, OwnListsDistinct, ListenersDistinct, At
<1>6. (AllRegistered /\ LogListens)'
  BY <1>1 DEF IInv, AllRegistered, Registered, LogListens, Ids, Listeners, Expected, At
<1>7. MonitorsOnce'
  BY <1>1 DEF IInv, MonitorsOnce, MonitorsAsSubscribed, Blocked, Listeners, At, Queue, Requests
<1> QED BY <1>2, <1>3, <1>4, <1>5, <1>6, <1>7 DEF IInv

LEMMA LoggerOpensStep ==
    ASSUME IInv, LoggerOpens
    PROVE  IInv'
<1>1. /\ client' = client /\ channels' = channels /\ poisoned' = poisoned
      /\ conf' = conf /\ logger_verbose' = logger_verbose
      /\ logger_ref' = logger_ref /\ total_clients' = total_clients /\ hung_up' = hung_up
      /\ logger = "starting"
      /\ \/ logger' = "running" /\ dropped' = dropped
         \/ logger' = "dead" /\ dropped' = dropped \cup {LoggerReceiver}
  BY DEF LoggerOpens
<1>2. (Typed /\ RequestKnown /\ MutexHeld /\ NotAlive)'
  BY <1>1 DEF IInv, Typed, RequestKnown, MutexHeld, NotAlive, At, IsThread, AllReceivers
<1>3. (Counted /\ VerboseKnown)'
  BY <1>1 DEF IInv, Counted, Panicked, Served, VerboseKnown, Stale, At
<1>4. (DroppedByTheGone /\ QueueNoted /\ PoisonedByTheGone)'
  BY <1>1 DEF IInv, DroppedByTheGone, QueueNoted, PoisonedByTheGone, At, Queue
<1>5. (OwnListsDistinct /\ ListenersDistinct)'
  BY <1>1 DEF IInv, OwnListsDistinct, ListenersDistinct, At
<1>6. (AllRegistered /\ LogListens)'
  BY <1>1 DEF IInv, AllRegistered, Registered, LogListens, Ids, Listeners, Expected, At
<1>7. MonitorsOnce'
  BY <1>1 DEF IInv, MonitorsOnce, MonitorsAsSubscribed, Blocked, Listeners, At, Queue, Requests
<1> QED BY <1>2, <1>3, <1>4, <1>5, <1>6, <1>7 DEF IInv

\* A thread that is served no more, without a panic.
LEMMA ServedLess ==
    ASSUME IInv, NEW c \in Clients, NEW t, Steps(c, t), client[c].a_live,
           client[c].pc \notin {"unborn", "panicked"}, ~t.a_live, t.pc # "panicked",
           total_clients' = total_clients - 1
    PROVE  Counted'
<1>1. Panicked' = Panicked
  BY StepsOutcome DEF Panicked, At
<1>2. Served' = Served \ {c} /\ c \in Served
  BY StepsOutcome DEF Served, Panicked, At
<1>3. IsFiniteSet(Served') /\ Cardinality(Served') = Cardinality(Served) - 1
  BY <1>2, FS_RemoveElement DEF IInv, Counted
<1>4. Cardinality(Panicked) \in Nat /\ Cardinality(Served) \in Nat
  BY FS_CardinalityType DEF IInv, Counted
<1> QED BY <1>1, <1>3, <1>4 DEF IInv, Counted

\* ReadFails and Close: the thread is not alive any more.
LEMMA EndsStep ==
    ASSUME IInv, NEW c \in Clients, NEW t, Becomes(c, t), client[c].pc \in {"reading", "execute"},
           IsThread(t), t.left = client[c].left, ~t.a_live,
           t.subscription_mode = client[c].subscription_mode,
           t.subscriptions = client[c].subscriptions, t.monitors = client[c].monitors,
           \/ t.pc = "log_reply"
           \/ t.pc = "leaving" /\ t.todo = client[c].subscriptions,
           total_clients' = total_clients - 1,
           UNCHANGED <<channelVars, conf, logger, logger_verbose, logger_ref, hung_up>>
    PROVE  IInv'
<1>1. UNCHANGED <<channels, poisoned, dropped>>
  BY DEF channelVars
<1>2. client[c].left \in Nat /\ client[c].a_live
  BY Holds DEF IsThread
<1>3. Steps(c, t)
  BY <1>2 DEF Steps
<1>4. Typed'
  <2>1. ChannelsTyped' /\ dropped' \subseteq AllReceivers /\ logger' \in {"starting", "running", "dead"}
        /\ hung_up' \subseteq Clients /\ poisoned' \in BOOLEAN
    BY <1>1 DEF IInv, Typed, ChannelsTyped
  <2> QED BY <1>3, <2>1, TypedKept
<1>5. RequestKnown'
  BY <1>3, RequestKept DEF UnderWay, AsRead
<1>6. MutexHeld' /\ NotAlive'
  BY <1>3, MutexKept, NotAliveKept
<1>7. Counted'
  BY <1>2, <1>3, ServedLess
<1>8. VerboseKnown'
  BY <1>3, VerboseKept DEF Stale, At
<1>9. (DroppedByTheGone /\ QueueNoted /\ PoisonedByTheGone)'
  BY <1>1, <1>3, PoisonKept DEF PoisonAround, IInv, Typed
<1>10. Lists'
  <2>1. Blocked(c)' <=> Blocked(c)
    BY <1>1 DEF Blocked, Listeners
  <2>2. MonitorsAsSubscribed(c) /\ Expected(c) = client[c].subscriptions
        /\ Distinct(client[c].subscriptions)
    BY Holds DEF Expected
  <2> QED BY <1>1, <1>3, <2>1, <2>2, ListsKept DEF MonitorsAsSubscribed
<1> QED BY <1>4, <1>5, <1>6, <1>7, <1>8, <1>9, <1>10 DEF IInv, Lists

LEMMA ReadFailsStep ==
    ASSUME IInv, NEW c \in Clients, ReadFails(c)
    PROVE  IInv'
<1> DEFINE v == [client[c] EXCEPT !.a_live = FALSE]
           t == LoopEnd(v)
<1>1. /\ client[c].pc = "reading" /\ Becomes(c, t) /\ total_clients' = total_clients - 1
      /\ UNCHANGED <<channelVars, conf, logger, logger_verbose, logger_ref, hung_up>>
  BY DEF ReadFails, At
<1>2. /\ IsThread(v) /\ ~v.a_live /\ v.left = client[c].left
      /\ v.subscription_mode = client[c].subscription_mode
      /\ v.subscriptions = client[c].subscriptions /\ v.monitors = client[c].monitors
  <2>1. IsThread(client[c])
    BY Holds
  <2>2. v = [client[c] EXCEPT !.a_live = FALSE]
    OBVIOUS
  <2> HIDE DEF v
  <2> QED BY <2>1, <2>2 DEF IsThread
<1> HIDE DEF v
<1>3. /\ IsThread(t) /\ SameHoldings(v, t) /\ t.left = v.left /\ t.pc = "leaving"
      /\ t.todo = v.subscriptions
  BY <1>2, LoopEndOutcome
<1> HIDE DEF t
<1> QED BY <1>1, <1>2, <1>3, EndsStep DEF SameHoldings

LEMMA CloseStep ==
    ASSUME IInv, NEW c \in Clients, Close(c)
    PROVE  IInv'
<1> DEFINE v == Replies(c, Success)
           t == [v EXCEPT !.a_live = FALSE]
<1>1. /\ client[c].pc = "execute" /\ Becomes(c, t) /\ total_clients' = total_clients - 1
      /\ UNCHANGED <<channelVars, conf, logger, logger_verbose, logger_ref, hung_up>>
  BY DEF Close, Executes, At
<1>2. IsThread(v) /\ v.pc = "log_reply" /\ v.left = client[c].left /\ SameHoldings(client[c], v)
  <2>1. v = [client[c] EXCEPT !.reply = Success, !.pc = "log_reply"]
    BY DEF Replies, Success
  <2>2. IsThread(client[c]) /\ "log_reply" \in SessionPcs
    BY Holds DEF SessionPcs
  <2> HIDE DEF v
  <2> QED BY <2>1, <2>2 DEF IsThread, SameHoldings
<1> HIDE DEF v
<1>3. /\ IsThread(t) /\ ~t.a_live /\ t.left = v.left /\ t.pc = v.pc
      /\ t.subscription_mode = v.subscription_mode
      /\ t.subscriptions = v.subscriptions /\ t.monitors = v.monitors
  <2>1. t = [v EXCEPT !.a_live = FALSE]
    OBVIOUS
  <2> HIDE DEF t
  <2> QED BY <1>2, <2>1 DEF IsThread
<1> HIDE DEF t
<1> QED BY <1>1, <1>2, <1>3, EndsStep DEF SameHoldings

-----------------------------------------------------------------------------
(* The logger's mutex *)

LEMMA LockLoggerStep ==
    ASSUME IInv, NEW c \in Clients, LockLogger(c)
    PROVE  IInv'
<1> DEFINE u == Goto(c, "store")
           t == [u EXCEPT !.verbose = verbose(conf)]
<1>1. /\ client[c].pc = "lock" /\ logger_ref = Nobody /\ logger_ref' = c /\ Becomes(c, t)
      /\ UNCHANGED <<channels, poisoned, dropped, conf, logger, logger_verbose, total_clients, hung_up>>
  BY DEF LockLogger, At, channelVars
<1>2. /\ IsThread(t) /\ SameHoldings(client[c], t) /\ t.pc = "store" /\ t.left = client[c].left
      /\ t.verbose = verbose(conf)
  <2>1. IsThread(client[c]) /\ "store" \in SessionPcs
    BY Holds DEF SessionPcs
  <2>2. IsThread(u) /\ SameHoldings(client[c], u) /\ u.pc = "store" /\ u.left = client[c].left
    BY <2>1, GotoOutcome
  <2> HIDE DEF u
  <2>3. t = [u EXCEPT !.verbose = verbose(conf)]
    OBVIOUS
  <2> HIDE DEF t
  <2>4. IsThread(t) /\ SameHoldings(u, t) /\ t.pc = u.pc /\ t.left = u.left /\ t.verbose = verbose(conf)
    BY <2>2, <2>3 DEF IsThread, SameHoldings
  <2> QED BY <2>2, <2>4 DEF SameHoldings
<1> HIDE DEF t
<1>3. Steps(c, t) /\ client[c].a_live
  <2>1. client[c].left \in Nat
    BY Holds DEF IsThread
  <2> QED BY <1>1, <1>2, <2>1, Holds DEF Steps
<1>4. Typed'
  <2>1. ChannelsTyped' /\ dropped' \subseteq AllReceivers /\ logger' \in {"starting", "running", "dead"}
        /\ hung_up' \subseteq Clients /\ poisoned' \in BOOLEAN
    BY <1>1 DEF IInv, Typed, ChannelsTyped
  <2> QED BY <1>3, <2>1, TypedKept
<1>5. RequestKnown' /\ NotAlive'
  BY <1>2, <1>3, RequestKept, NotAliveKept DEF UnderWay, AsRead, SameHoldings
<1>6. \A o \in Clients : ~At(o, "store")
  BY <1>1, SessionsAssumption DEF IInv, MutexHeld
<1>7. MutexHeld'
  BY <1>1, <1>2, <1>3, <1>6, StepsOutcome DEF MutexHeld, At
<1>8. Counted'
  BY <1>1, <1>2, <1>3, CountedKept DEF SameHoldings
<1>9. VerboseKnown'
  <2>1. verbose(conf)' = verbose(conf)
    BY <1>1, Zenon
  <2>2. At(c, "store")' /\ client'[c].verbose = verbose(conf)
    BY <1>2, <1>3, StepsOutcome DEF At
  <2>3. \A o \in Clients : At(o, "store")' => o = c
    BY <1>3, <1>6, StepsOutcome DEF At
  <2> QED BY <2>1, <2>2, <2>3 DEF VerboseKnown
<1>10. (DroppedByTheGone /\ QueueNoted /\ PoisonedByTheGone)'
  BY <1>1, <1>2, <1>3, PoisonKept DEF SameHoldings, PoisonAround, IInv, Typed
<1>11. Lists'
  <2>1. Blocked(c)' <=> Blocked(c)
    BY <1>1 DEF Blocked, Listeners
  <2>2. MonitorsAsSubscribed(c) /\ Expected(c) = client[c].subscriptions
    BY <1>1, Holds DEF Expected
  <2> QED BY <1>1, <1>2, <1>3, <2>1, <2>2, ListsKept DEF SameHoldings, MonitorsAsSubscribed
<1> QED BY <1>4, <1>5, <1>7, <1>8, <1>9, <1>10, <1>11 DEF IInv, Lists

LEMMA StoreVerboseStep ==
    ASSUME IInv, NEW c \in Clients, StoreVerbose(c)
    PROVE  IInv'
<1> DEFINE u == Goto(c, "reading")
           t == [u EXCEPT !.verbose = FALSE]
<1>1. /\ client[c].pc = "store" /\ logger_verbose' = client[c].verbose /\ logger_ref' = Nobody
      /\ Becomes(c, t)
      /\ UNCHANGED <<channels, poisoned, dropped, conf, logger, total_clients, hung_up>>
  BY DEF StoreVerbose, At, channelVars
<1>2. IsThread(t) /\ SameHoldings(client[c], t) /\ t.pc = "reading" /\ t.left = client[c].left
  <2>1. IsThread(client[c]) /\ "reading" \in SessionPcs
    BY Holds DEF SessionPcs
  <2>2. IsThread(u) /\ SameHoldings(client[c], u) /\ u.pc = "reading" /\ u.left = client[c].left
    BY <2>1, GotoOutcome
  <2> HIDE DEF u
  <2>3. t = [u EXCEPT !.verbose = FALSE]
    OBVIOUS
  <2> HIDE DEF t
  <2>4. IsThread(t) /\ SameHoldings(u, t) /\ t.pc = u.pc /\ t.left = u.left
    BY <2>2, <2>3 DEF IsThread, SameHoldings
  <2> QED BY <2>2, <2>4 DEF SameHoldings
<1> HIDE DEF t
<1>3. Steps(c, t) /\ client[c].a_live
  <2>1. client[c].left \in Nat
    BY Holds DEF IsThread
  <2> QED BY <1>1, <1>2, <2>1, Holds DEF Steps
<1>4. Typed'
  <2>1. ChannelsTyped' /\ dropped' \subseteq AllReceivers /\ logger' \in {"starting", "running", "dead"}
        /\ hung_up' \subseteq Clients /\ poisoned' \in BOOLEAN
    BY <1>1 DEF IInv, Typed, ChannelsTyped
  <2> QED BY <1>3, <2>1, TypedKept
<1>5. RequestKnown' /\ NotAlive'
  BY <1>2, <1>3, RequestKept, NotAliveKept DEF UnderWay, AsRead, SameHoldings
<1>6. \A o \in Clients : At(o, "store") <=> o = c
  BY <1>1 DEF IInv, MutexHeld, At
<1>7. MutexHeld'
  BY <1>1, <1>2, <1>3, <1>6, SessionsAssumption, StepsOutcome DEF MutexHeld, At
<1>8. Counted'
  BY <1>1, <1>2, <1>3, CountedKept DEF SameHoldings
<1>9. VerboseKnown'
  <2>1. verbose(conf)' = verbose(conf)
    BY <1>1, Zenon
  <2>2. \A o \in Clients : ~At(o, "store")'
    BY <1>2, <1>3, <1>6, StepsOutcome DEF At
  <2>3. client[c].verbose = verbose(conf) \/ \E o \in Clients \ {c} : Stale(o)
    BY <1>6 DEF IInv, VerboseKnown
  <2>4. \A o \in Clients \ {c} : Stale(o)' <=> Stale(o)
    BY <1>3, StepsOutcome DEF Stale, At
  <2> QED BY <1>1, <2>1, <2>2, <2>3, <2>4 DEF VerboseKnown
<1>10. (DroppedByTheGone /\ QueueNoted /\ PoisonedByTheGone)'
  BY <1>1, <1>2, <1>3, PoisonKept DEF SameHoldings, PoisonAround, IInv, Typed
<1>11. Lists'
  <2>1. Blocked(c)' <=> Blocked(c)
    BY <1>1 DEF Blocked, Listeners
  <2>2. MonitorsAsSubscribed(c) /\ Expected(c) = client[c].subscriptions
    BY <1>1, Holds DEF Expected
  <2> QED BY <1>1, <1>2, <1>3, <2>1, <2>2, ListsKept DEF SameHoldings, MonitorsAsSubscribed
<1> QED BY <1>4, <1>5, <1>7, <1>8, <1>9, <1>10, <1>11 DEF IInv, Lists

-----------------------------------------------------------------------------
(* The lists of the channels *)

\* Under `name` the list is now this one, under the other names as before.
Relisted(name, list) ==
    /\ \A n : Listeners(n)' = IF n = name THEN list ELSE Listeners(n)
    /\ channels' = [n \in DOMAIN channels' |-> channels'[n]]
    /\ DOMAIN channels' \subseteq DOMAIN channels \cup {name}
    /\ DOMAIN channels \ {name} \subseteq DOMAIN channels'
    /\ list # <<>> => name \in DOMAIN channels'

LEMMA SubscribeOutcome ==
    ASSUME Typed, NEW name, NEW receiver, NEW id, subscribe(name, receiver, id)
    PROVE  Relisted(name, Append(Listeners(name), Listener(id, receiver)))
<1> DEFINE list == Append(Listeners(name), Listener(id, receiver))
<1>2. channels' = [n \in DOMAIN channels \cup {name} |-> IF n = name THEN list ELSE channels[n]]
  BY DEF subscribe
<1> HIDE DEF list
<1>3. \A n : Listeners(n)' = IF n = name THEN list ELSE Listeners(n)
  BY <1>2 DEF Listeners
<1> QED BY <1>2, <1>3 DEF Relisted, list

LEMMA UnsubscribeOutcome ==
    ASSUME Typed, NEW name, NEW id, unsubscribe(name, id)
    PROVE  Relisted(name, Without(Listeners(name), {l \in ToSet(Listeners(name)) : l.id = id}))
<1> DEFINE list == Without(Listeners(name), {l \in ToSet(Listeners(name)) : l.id = id})
<1>1. channels' = IF list = <<>>
                    THEN [n \in DOMAIN channels \ {name} |-> channels[n]]
                    ELSE [channels EXCEPT ![name] = list]
  BY DEF unsubscribe
<1>2. name \notin DOMAIN channels => list = <<>>
  BY WithoutNothing DEF Listeners
<1> HIDE DEF list
<1>3. channels = [n \in DOMAIN channels |-> channels[n]]
  BY DEF Typed
<1>4. CASE list = <<>>
  <2>1. channels' = [n \in DOMAIN channels \ {name} |-> channels[n]]
    BY <1>1, <1>4
  <2>2. \A n : Listeners(n)' = IF n = name THEN list ELSE Listeners(n)
    BY <2>1, <1>4 DEF Listeners
  <2> QED BY <2>1, <2>2, <1>4 DEF Relisted, list
<1>5. CASE list # <<>>
  <2>1. channels' = [channels EXCEPT ![name] = list] /\ name \in DOMAIN channels
    BY <1>1, <1>2, <1>5
  <2>2. \A n : Listeners(n)' = IF n = name THEN list ELSE Listeners(n)
    BY <2>1, <1>3 DEF Listeners
  <2>3. channels' = [n \in DOMAIN channels' |-> channels'[n]] /\ DOMAIN channels' = DOMAIN channels
    BY <2>1, <1>3
  <2> QED BY <2>1, <2>2, <2>3 DEF Relisted, list
<1> QED BY <1>4, <1>5

LEMMA ListenersType ==
    ASSUME Typed, NEW n
    PROVE  Listeners(n) \in Seq(ListenerType)
<1>1. <<>> \in Seq(ListenerType)
  OBVIOUS
<1> QED BY <1>1 DEF Typed, Listeners

LEMMA ListsTyped ==
    ASSUME Typed, NEW name \in Names, NEW list \in Seq(ListenerType), Relisted(name, list)
    PROVE  ChannelsTyped'
<1>1. \A n \in DOMAIN channels' : channels'[n] = IF n = name THEN list ELSE Listeners(n)
  BY DEF Relisted, Listeners
<1>2. \A n \in DOMAIN channels' : channels'[n] \in Seq(ListenerType)
  BY <1>1, ListenersType
<1> QED BY <1>2 DEF ChannelsTyped, Relisted, Typed

\* The queue of a request that is under way.
LEMMA QueueType ==
    ASSUME IInv, NEW c \in Clients, client[c].pc \in UnderWay
    PROVE  Queue(c) \in Receivers
<1>1. client[c].left \in Nat /\ client[c].left < MaxRequests[c] /\ MaxRequests[c] \in Nat
  BY Holds, SessionsAssumption DEF IsThread
<1>2. client[c].left \in 0..MaxRequests[c] - 1
  BY <1>1
<1> QED BY <1>2, SessionsAssumption DEF Queue, ClientReceivers

\* What an element more does to a list.
LEMMA AppendSet ==
    ASSUME NEW S, NEW s \in Seq(S), NEW e \in S
    PROVE  ToSet(Append(s, e)) = ToSet(s) \cup {e}
<1>1. /\ Append(s, e) \in Seq(S) /\ Len(Append(s, e)) = Len(s) + 1 /\ Len(s) \in Nat
      /\ \A i \in 1..Len(s) : Append(s, e)[i] = s[i]
      /\ Append(s, e)[Len(s) + 1] = e
  BY AppendType, LenProperties
<1>2. DOMAIN Append(s, e) = 1..Len(s) + 1 /\ DOMAIN s = 1..Len(s)
  BY <1>1, LenProperties
<1>3. \A i \in 1..Len(s) + 1 : i \in 1..Len(s) \/ i = Len(s) + 1
  BY <1>1
<1>4. \A i \in 1..Len(s) : i \in 1..Len(s) + 1
  BY <1>1
<1>5. Len(s) + 1 \in 1..Len(s) + 1
  BY <1>1
<1> HIDE DEF ToSet
<1>6. ASSUME NEW x PROVE x \in ToSet(Append(s, e)) <=> x \in ToSet(s) \cup {e}
  BY <1>1, <1>2, <1>3, <1>4, <1>5 DEF ToSet
<1> QED BY <1>6

\* The thread of c has put itself, with the queue of its request, under `name`,
\* and the name into its own list.
LEMMA SubscribedStep ==
    ASSUME IInv, NEW c \in Clients, NEW name \in Names, NEW t, Becomes(c, t), IsThread(t),
           subscribe(name, Queue(c), c), UNCHANGED sharedVars,
           name \notin ToSet(client[c].subscriptions),
           t.subscriptions = Append(client[c].subscriptions, name),
           t.a_live = client[c].a_live, t.subscription_mode = client[c].subscription_mode,
           t.left = client[c].left, client[c].monitors \subseteq t.monitors,
           \/ client[c].pc = "subscribing" /\ t.pc = "subscribing"
           \/ /\ client[c].pc = "add_monitor" /\ t.pc = "monitoring"
              /\ name = MONITOR /\ Queue(c) \in t.monitors
    PROVE  IInv'
<1> DEFINE old == Listeners(name)
           new == Append(old, Listener(c, Queue(c)))
           own == client[c].subscriptions
<1>0. Typed /\ OwnListsDistinct /\ ListenersDistinct /\ AllRegistered /\ LogListens /\ MonitorsOnce
      /\ UNCHANGED <<poisoned, inbox, dropped>>
  BY DEF IInv, subscribe
<1>1. client[c].left \in Nat /\ client[c].a_live /\ IsThread(client[c])
      /\ client[c].left < MaxRequests[c] /\ own \in Seq(Names) /\ Distinct(own)
  BY Holds DEF IsThread, UnderWay
<1>2. Steps(c, t)
  BY <1>1 DEF Steps
<1>3. Listener(c, Queue(c)) \in ListenerType /\ old \in Seq(ListenerType) /\ Len(old) \in Nat
  BY <1>0, QueueType, ListenersType, LenProperties DEF UnderWay, Listener, ListenerType, AllReceivers
<1>4. Relisted(name, new)
  BY <1>0, SubscribeOutcome
<1>5. /\ new \in Seq(ListenerType) /\ Len(new) = Len(old) + 1
      /\ \A i \in 1..Len(old) : new[i] = old[i]
      /\ new[Len(old) + 1] = Listener(c, Queue(c))
  BY <1>3, AppendType
<1>6. ToSet(new) = ToSet(old) \cup {Listener(c, Queue(c))}
  BY <1>3, AppendSet
<1> HIDE DEF old, new
<1>7. Typed'
  <2>1. ChannelsTyped'
    BY <1>0, <1>4, <1>5, ListsTyped
  <2> QED BY <1>0, <1>2, <2>1, TypedKept DEF sharedVars, Typed
<1>8. (RequestKnown /\ MutexHeld /\ NotAlive /\ Counted /\ VerboseKnown)'
  <2>1. Serving(c, t)
    BY <1>1 DEF Serving, UnderWay, AsRead, Stale, At
  <2> QED BY <1>2, <2>1, ServingKept DEF sharedVars
<1>9. (DroppedByTheGone /\ QueueNoted /\ PoisonedByTheGone)'
  BY <1>0, <1>2, PoisonKept DEF PoisonAround, sharedVars, Typed, Queue
<1>10. \A n : Listeners(n)' = IF n = name THEN new ELSE Listeners(n)
  BY <1>4 DEF Relisted
<1>11. \A n : Ids(n)' = IF n = name THEN Ids(n) \cup {c} ELSE Ids(n)
  <2>1. Listener(c, Queue(c)).id = c
    BY DEF Listener
  <2>2. {l.id : l \in ToSet(new)} = {l.id : l \in ToSet(old)} \cup {c}
    BY <1>6, <2>1
  <2> QED BY <1>10, <2>2 DEF Ids, old
<1>12. ToSet(t.subscriptions) = ToSet(own) \cup {name}
  BY <1>1, AppendSet
<1>13. Expected(c) = own /\ Expected(c)' = t.subscriptions
  BY <1>2, StepsOutcome DEF Expected
<1>14. c \notin Ids(name)
  BY <1>0, <1>13 DEF AllRegistered, Registered, At
<1>15. OwnListsDistinct'
  <2>1. Distinct(t.subscriptions)
    <3>1. /\ Len(t.subscriptions) = Len(own) + 1 /\ Len(own) \in Nat
          /\ \A i \in 1..Len(own) : t.subscriptions[i] = own[i]
          /\ t.subscriptions[Len(own) + 1] = name
      BY <1>1, AppendType, LenProperties
    <3>2. \A i \in 1..Len(own) : own[i] # name
      BY <1>1, LenProperties DEF ToSet
    <3>3. \A i \in 1..Len(own) + 1 : i \in 1..Len(own) \/ i = Len(own) + 1
      BY <3>1
    <3> HIDE DEF own
    <3> QED BY <1>1, <3>1, <3>2, <3>3 DEF Distinct
  <2> QED BY <1>0, <1>2, <2>1, StepsOutcome DEF OwnListsDistinct, At, Distinct
<1>16. ListenersDistinct'
  <2>1. OnceEach(new)
    <3>1. OnceEach(old)
      <4>1. OnceEach(<<>>)
        BY DEF OnceEach
      <4> QED BY <1>0, <4>1 DEF ListenersDistinct, Listeners, old
    <3>2. \A i \in 1..Len(old) : old[i].id # c
      BY <1>3, <1>14, LenProperties DEF Ids, ToSet, old
    <3>3. \A i \in 1..Len(old) + 1 : i \in 1..Len(old) \/ i = Len(old) + 1
      BY <1>3
    <3>4. Listener(c, Queue(c)).id = c
      BY DEF Listener
    <3> QED BY <1>5, <3>1, <3>2, <3>3, <3>4 DEF OnceEach
  <2>2. \A n \in DOMAIN channels' : channels'[n] = Listeners(n)'
    BY DEF Listeners
  <2>3. \A n \in DOMAIN channels' \ {name} : n \in DOMAIN channels /\ Listeners(n)' = channels[n]
    BY <1>4, <1>10 DEF Relisted, Listeners
  <2>4. ASSUME NEW n \in DOMAIN channels' PROVE OnceEach(channels'[n])
    BY <1>0, <1>10, <2>1, <2>2, <2>3 DEF ListenersDistinct
  <2>5. \A n \in DOMAIN channels' : OnceEach(channels[n])' <=> OnceEach(channels'[n])
    BY DEF OnceEach
  <2> QED BY <2>4, <2>5 DEF ListenersDistinct
<1>17. AllRegistered'
  <2>1. Registered(c)'
    BY <1>0, <1>11, <1>12, <1>13 DEF AllRegistered, Registered, At
  <2>2. ASSUME NEW o \in Clients \ {c}, ~At(o, "panicked")' PROVE Registered(o)'
    <3>1. ~At(o, "panicked") /\ Expected(o)' = Expected(o)
      BY <1>2, <2>2, StepsOutcome DEF At, Expected
    <3> QED BY <1>0, <1>11, <3>1 DEF AllRegistered, Registered
  <2> QED BY <2>1, <2>2 DEF AllRegistered
<1>18. LogListens'
  <2>1. new # <<>>
    BY <1>3, <1>5
  <2>2. LOGGER \in DOMAIN channels'
    BY <1>0, <1>4, <2>1 DEF LogListens, Relisted
  <2>3. Ids(LOGGER) \subseteq Ids(LOGGER)'
    BY <1>11 DEF LOGGER
  <2> QED BY <1>0, <2>2, <2>3 DEF LogListens, LOGGER, LOGGER_SPECIAL_ID
<1>19. MonitorsOnce'
  <2>1. \A l \in ToSet(Listeners(MONITOR)) : l \in ToSet(Listeners(MONITOR)')
    BY <1>6, <1>10 DEF old
  <2>2. \A o : Blocked(o) => Blocked(o)'
    BY <1>0, <2>1 DEF Blocked, MONITOR
  <2>3. \A o \in Clients \ {c} : MonitorsAsSubscribed(o) => MonitorsAsSubscribed(o)'
    BY <1>2, <2>2, StepsOutcome DEF MonitorsAsSubscribed
  <2>4. ASSUME NEW o \in Clients, At(o, "monitoring")'
        PROVE  (\E l \in ToSet(Listeners(MONITOR)) : l.id = o /\ l.receiver = Queue(o))'
    <3>1. CASE o = c
      <4>1. name = MONITOR /\ Queue(c)' = Queue(c)
        BY <1>2, <2>4, <3>1, StepsOutcome DEF At, Queue
      <4>2. Listener(c, Queue(c)) \in ToSet(Listeners(MONITOR)')
        BY <1>6, <1>10, <4>1
      <4> QED BY <3>1, <4>1, <4>2 DEF Listener, MONITOR
    <3>2. CASE o # c
      <4>1. At(o, "monitoring") /\ Queue(o)' = Queue(o)
        BY <1>2, <2>4, <3>2, StepsOutcome DEF At, Queue
      <4>2. \E l \in ToSet(Listeners(MONITOR)) : l.id = o /\ l.receiver = Queue(o)
        BY <1>0, <4>1 DEF MonitorsOnce
      <4> QED BY <2>1, <4>1, <4>2 DEF MONITOR
    <3> QED BY <3>1, <3>2
  <2>5. ASSUME NEW o \in Clients,
               client'[o].pc \notin {"subscribing", "monitoring", "leaving", "gone", "panicked"}
        PROVE  MonitorsAsSubscribed(o)'
    BY <1>0, <1>2, <2>3, <2>5, StepsOutcome DEF MonitorsOnce
  <2>6. ASSUME NEW o \in Clients, At(o, "execute")', Requests(o, "Suscriber")',
               MONITOR \in ToSet(client'[o].subscriptions)
        PROVE  client'[o].subscription_mode
    BY <1>0, <1>2, <2>6, StepsOutcome DEF MonitorsOnce, At, Requests
  <2>7. ASSUME NEW o \in Clients, At(o, "add_monitor")'
        PROVE  MONITOR \notin ToSet(client'[o].subscriptions)
    BY <1>0, <1>2, <2>7, StepsOutcome DEF MonitorsOnce, At
  <2> QED BY <2>4, <2>5, <2>6, <2>7 DEF MonitorsOnce, MONITOR
<1> QED BY <1>7, <1>8, <1>9, <1>15, <1>16, <1>17, <1>18, <1>19 DEF IInv

LEMMA OnceEachLeft ==
    ASSUME NEW list \in Seq(ListenerType), NEW elements, OnceEach(list)
    PROVE  OnceEach(Without(list, elements))
<1> DEFINE f == [l \in ListenerType |-> l.id]
           left == Without(list, elements)
<1>1. /\ \A i \in 1..Len(list) : list[i] \in ListenerType
      /\ \A i \in 1..Len(left) : left[i] \in ListenerType
  BY WithoutProperties, LenProperties
<1>2. \A l \in ListenerType : f[l] = l.id
  OBVIOUS
<1>3. \A i, j \in 1..Len(list) : f[list[i]] = f[list[j]] => i = j
  BY <1>1, <1>2 DEF OnceEach
<1> HIDE DEF f
<1>4. \A i, j \in 1..Len(left) : f[left[i]] = f[left[j]] => i = j
  BY <1>3, WithoutDistinct
<1> HIDE DEF left
<1>5. OnceEach(left)
  BY <1>1, <1>2, <1>4 DEF OnceEach
<1> QED BY <1>5 DEF left

LEMMA DistinctLeft ==
    ASSUME NEW list \in Seq(Names), NEW elements, Distinct(list)
    PROVE  Distinct(Without(list, elements))
<1> DEFINE f == [n \in Names |-> n]
           left == Without(list, elements)
<1>1. /\ \A i \in 1..Len(list) : list[i] \in Names
      /\ \A i \in 1..Len(left) : left[i] \in Names
  BY WithoutProperties, LenProperties
<1>2. \A n \in Names : f[n] = n
  OBVIOUS
<1>3. \A i, j \in 1..Len(list) : f[list[i]] = f[list[j]] => i = j
  BY <1>1, <1>2 DEF Distinct
<1> HIDE DEF f
<1>4. \A i, j \in 1..Len(left) : f[left[i]] = f[left[j]] => i = j
  BY <1>3, WithoutDistinct
<1> HIDE DEF left
<1>5. Distinct(left)
  BY <1>1, <1>2, <1>4 DEF Distinct
<1> QED BY <1>5 DEF left

\* The thread of c has taken itself off the list under `name`, and the name off
\* the list it goes by.
LEMMA UnsubscribedStep ==
    ASSUME IInv, NEW c \in Clients, NEW name \in Names, NEW t, Becomes(c, t), IsThread(t),
           unsubscribe(name, c), UNCHANGED sharedVars,
           client[c].pc \in {"unsubscribing", "leaving"}, t.pc = client[c].pc,
           t.a_live = client[c].a_live, t.subscription_mode = client[c].subscription_mode,
           t.left = client[c].left, t.monitors = client[c].monitors,
           Distinct(t.subscriptions), t.pc = "leaving" => Distinct(t.todo),
           ToSet(IF t.pc = "leaving" THEN t.todo ELSE t.subscriptions) = ToSet(Expected(c)) \ {name}
    PROVE  IInv'
<1> DEFINE old == Listeners(name)
           new == Without(old, {l \in ToSet(old) : l.id = c})
<1>0. Typed /\ OwnListsDistinct /\ ListenersDistinct /\ AllRegistered /\ LogListens /\ MonitorsOnce
      /\ UNCHANGED <<poisoned, inbox, dropped>>
  BY DEF IInv, unsubscribe
<1>1. client[c].left \in Nat /\ IsThread(client[c])
      /\ (client[c].a_live \/ client[c].pc = "leaving")
  BY Holds DEF IsThread
<1>2. Steps(c, t)
  BY <1>1 DEF Steps
<1>3. old \in Seq(ListenerType)
  BY <1>0, ListenersType
<1>4. Relisted(name, new)
  BY <1>0, UnsubscribeOutcome
<1>5. new \in Seq(ListenerType) /\ ToSet(new) = {l \in ToSet(old) : l.id # c}
  <2>1. ToSet(new) = ToSet(old) \ {l \in ToSet(old) : l.id = c}
    BY <1>3, WithoutProperties
  <2> QED BY <1>3, <2>1, WithoutProperties
<1>6. OnceEach(new)
  <2>1. OnceEach(<<>>)
    BY DEF OnceEach
  <2>2. OnceEach(old)
    BY <1>0, <2>1 DEF ListenersDistinct, Listeners
  <2> HIDE DEF old
  <2> QED BY <1>3, <2>2, OnceEachLeft
<1> HIDE DEF old, new
<1>7. Typed'
  <2>1. ChannelsTyped'
    BY <1>0, <1>4, <1>5, ListsTyped
  <2> QED BY <1>0, <1>2, <2>1, TypedKept DEF sharedVars, Typed
<1>8. (RequestKnown /\ MutexHeld /\ NotAlive /\ Counted /\ VerboseKnown)'
  <2>1. Serving(c, t)
    BY <1>1 DEF Serving, UnderWay, AsRead, Stale, At
  <2> QED BY <1>2, <2>1, ServingKept DEF sharedVars
<1>9. (DroppedByTheGone /\ QueueNoted /\ PoisonedByTheGone)'
  BY <1>0, <1>2, PoisonKept DEF PoisonAround, sharedVars, Typed, Queue
<1>10. \A n : Listeners(n)' = IF n = name THEN new ELSE Listeners(n)
  BY <1>4 DEF Relisted
<1>11. \A n : Ids(n)' = IF n = name THEN Ids(n) \ {c} ELSE Ids(n)
  <2>1. {l.id : l \in ToSet(new)} = {l.id : l \in ToSet(old)} \ {c}
    BY <1>5
  <2> QED BY <1>10, <2>1 DEF Ids, old
<1>12. ToSet(Expected(c)') = ToSet(Expected(c)) \ {name}
  BY <1>2, StepsOutcome DEF Expected
<1>15. OwnListsDistinct'
  BY <1>0, <1>2, StepsOutcome DEF OwnListsDistinct, At, Distinct
<1>16. ListenersDistinct'
  <2>1. \A n \in DOMAIN channels' : channels'[n] = Listeners(n)'
    BY DEF Listeners
  <2>2. \A n \in DOMAIN channels' \ {name} : n \in DOMAIN channels /\ Listeners(n)' = channels[n]
    BY <1>4, <1>10 DEF Relisted, Listeners
  <2>3. ASSUME NEW n \in DOMAIN channels' PROVE OnceEach(channels'[n])
    BY <1>0, <1>6, <1>10, <2>1, <2>2 DEF ListenersDistinct
  <2>4. \A n \in DOMAIN channels' : OnceEach(channels[n])' <=> OnceEach(channels'[n])
    BY DEF OnceEach
  <2> QED BY <2>3, <2>4 DEF ListenersDistinct
<1>17. AllRegistered'
  <2>1. Registered(c)'
    BY <1>0, <1>11, <1>12 DEF AllRegistered, Registered, At
  <2>2. ASSUME NEW o \in Clients \ {c}, ~At(o, "panicked")' PROVE Registered(o)'
    <3>1. ~At(o, "panicked") /\ Expected(o)' = Expected(o)
      BY <1>2, <2>2, StepsOutcome DEF At, Expected
    <3> QED BY <1>0, <1>11, <3>1 DEF AllRegistered, Registered
  <2> QED BY <2>1, <2>2 DEF AllRegistered
<1>18. LogListens'
  <2>1. LOGGER_SPECIAL_ID # c
    BY SessionsAssumption
  <2>2. LOGGER_SPECIAL_ID \in Ids(LOGGER)'
    BY <1>0, <1>11, <2>1 DEF LogListens, LOGGER
  <2>3. LOGGER = name => new # <<>>
    <3>1. LOGGER = name => \E l \in ToSet(old) : l.id = LOGGER_SPECIAL_ID
      BY <1>0 DEF LogListens, Ids, old
    <3>2. LOGGER = name => ToSet(new) # {}
      BY <1>5, <2>1, <3>1
    <3>3. ToSet(<<>>) = {}
      BY DEF ToSet
    <3> QED BY <3>2, <3>3
  <2>4. LOGGER \in DOMAIN channels'
    BY <1>0, <1>4, <2>3 DEF LogListens, Relisted
  <2> QED BY <2>2, <2>4 DEF LogListens, LOGGER, LOGGER_SPECIAL_ID
<1>19. MonitorsOnce'
  <2>1. \A l \in ToSet(Listeners(MONITOR)) : l.id # c => l \in ToSet(Listeners(MONITOR)')
    BY <1>5, <1>10 DEF old
  <2>2. \A o \in Clients \ {c} : Blocked(o) => Blocked(o)'
    BY <1>0, <2>1 DEF Blocked, MONITOR
  <2>3. \A o \in Clients \ {c} : MonitorsAsSubscribed(o) => MonitorsAsSubscribed(o)'
    BY <1>2, <2>2, StepsOutcome DEF MonitorsAsSubscribed
  <2>4. ASSUME t.pc = "unsubscribing" PROVE MonitorsAsSubscribed(c)'
    <3>1. MonitorsAsSubscribed(c) /\ ToSet(t.subscriptions) = ToSet(client[c].subscriptions) \ {name}
      BY <1>0, <2>4 DEF MonitorsOnce, Expected
    <3>2. MONITOR # name => Listeners(MONITOR)' = Listeners(MONITOR)
      BY <1>10
    <3>3. MONITOR # name => (Blocked(c) => Blocked(c)')
      BY <1>0, <3>2 DEF Blocked, MONITOR
    <3>4. client'[c] = t
      BY <1>2, StepsOutcome
    <3> QED BY <3>1, <3>3, <3>4 DEF MonitorsAsSubscribed, MONITOR
  <2>5. ASSUME NEW o \in Clients, At(o, "monitoring")'
        PROVE  (\E l \in ToSet(Listeners(MONITOR)) : l.id = o /\ l.receiver = Queue(o))'
    <3>1. o # c /\ At(o, "monitoring") /\ Queue(o)' = Queue(o)
      BY <1>2, <2>5, StepsOutcome DEF At, Queue
    <3>2. \E l \in ToSet(Listeners(MONITOR)) : l.id = o /\ l.receiver = Queue(o)
      BY <1>0, <3>1 DEF MonitorsOnce
    <3> QED BY <2>1, <3>1, <3>2 DEF MONITOR
  <2>6. ASSUME NEW o \in Clients,
               client'[o].pc \notin {"subscribing", "monitoring", "leaving", "gone", "panicked"}
        PROVE  MonitorsAsSubscribed(o)'
    BY <1>0, <1>2, <2>3, <2>4, <2>6, StepsOutcome DEF MonitorsOnce
  <2>7. ASSUME NEW o \in Clients, At(o, "execute")', Requests(o, "Suscriber")',
               MONITOR \in ToSet(client'[o].subscriptions)
        PROVE  client'[o].subscription_mode
    BY <1>0, <1>2, <2>7, StepsOutcome DEF MonitorsOnce, At, Requests
  <2>8. ASSUME NEW o \in Clients, At(o, "add_monitor")'
        PROVE  MONITOR \notin ToSet(client'[o].subscriptions)
    BY <1>0, <1>2, <2>8, StepsOutcome DEF MonitorsOnce, At
  <2> QED BY <2>5, <2>6, <2>7, <2>8 DEF MonitorsOnce, MONITOR
<1> QED BY <1>7, <1>8, <1>9, <1>15, <1>16, <1>17, <1>18, <1>19 DEF IInv

\* The thread of c has dropped the queue of its request: a SUBSCRIBE that
\* panics, or a MONITOR that ends.
LEMMA DroppedStep ==
    ASSUME IInv, NEW c \in Clients, NEW t, Becomes(c, t), IsThread(t), SameHoldings(client[c], t),
           t.left = client[c].left, DropReceiver(Queue(c)), UNCHANGED sharedVars,
           \/ client[c].pc = "subscribing" /\ t.pc = "panicked" /\ poisoned
           \/ client[c].pc = "monitoring" /\ t.pc = "top" /\ c \in hung_up
    PROVE  IInv'
<1>0. dropped' = dropped \cup {Queue(c)} /\ UNCHANGED <<channels, poisoned>>
  BY DEF DropReceiver
<1>1. client[c].left \in Nat /\ client[c].a_live /\ IsThread(client[c])
  BY Holds DEF IsThread
<1>2. Steps(c, t)
  BY <1>1 DEF Steps
<1>3. Typed'
  <2>1. Queue(c) \in AllReceivers
    BY QueueType DEF UnderWay, AllReceivers
  <2>2. ChannelsTyped' /\ dropped' \subseteq AllReceivers /\ logger' \in {"starting", "running", "dead"}
        /\ hung_up' \subseteq Clients /\ poisoned' \in BOOLEAN
    BY <1>0, <2>1 DEF IInv, Typed, ChannelsTyped, sharedVars
  <2> QED BY <1>2, <2>2, TypedKept
<1>4. (RequestKnown /\ MutexHeld /\ NotAlive /\ Counted /\ VerboseKnown)'
  <2>1. Serving(c, t)
    BY <1>1 DEF Serving, UnderWay, AsRead, Stale, StaleThread, At, SameHoldings
  <2> QED BY <1>2, <2>1, ServingKept DEF sharedVars
<1>5. (DroppedByTheGone /\ QueueNoted /\ PoisonedByTheGone)'
  <2>1. client[c].pc = "monitoring" => Queue(c) \in client[c].monitors
    BY DEF IInv, QueueNoted, At
  <2>2. PoisonAround(c)
    BY <1>0, <2>1 DEF PoisonAround, IInv, Typed
  <2> QED BY <1>2, <2>2, PoisonKept DEF SameHoldings, sharedVars
<1>6. Lists'
  <2>1. t.pc = "top" => Blocked(c)'
    BY <1>0 DEF IInv, MonitorsOnce, At, Blocked, Listeners
  <2>2. Expected(c) = client[c].subscriptions
    BY DEF Expected
  <2> QED BY <1>0, <1>2, <2>1, <2>2, ListsKept DEF SameHoldings
<1> QED BY <1>3, <1>4, <1>5, <1>6 DEF IInv, Lists

LEMMA SubscribeNextStep ==
    ASSUME IInv, NEW c \in Clients, SubscribeNext(c)
    PROVE  IInv'
<1> DEFINE l == client[c]
           name == Head(l.todo)
           skip == [l EXCEPT !.todo = Tail(l.todo)]
           t == [l EXCEPT !.todo = Tail(l.todo), !.subscriptions = Append(l.subscriptions, name)]
<1>1. l.pc = "subscribing" /\ l.todo # <<>> /\ UNCHANGED sharedVars
  BY DEF SubscribeNext, At
<1>2. name \in Names /\ Tail(l.todo) \in Seq(Names) /\ IsThread(l) /\ l.subscriptions \in Seq(Names)
  BY <1>1, TailNames DEF IsThread
<1>3. \/ Becomes(c, skip) /\ UNCHANGED channelVars
      \/ name \notin ToSet(l.subscriptions) /\ subscribe(name, Queue(c), c) /\ Becomes(c, t)
      \/ poisoned /\ DropReceiver(Queue(c)) /\ Becomes(c, Goto(c, "panicked"))
  <2>1. IsThread(l)
    BY <1>2
  <2> QED BY <2>1 DEF SubscribeNext, Panic, IsThread
<1>4. ASSUME Becomes(c, skip), UNCHANGED channelVars PROVE IInv'
  <2>1. IsThread(skip) /\ SameHoldings(l, skip) /\ skip.pc = l.pc /\ skip.left = l.left
    BY <1>2, TodoOutcome
  <2> HIDE DEF skip
  <2>2. Calm(c, skip)
    BY <1>1, <2>1, TodoCalm
  <2> QED BY <1>1, <1>4, <2>2, AloneStep
<1>5. ASSUME name \notin ToSet(l.subscriptions), subscribe(name, Queue(c), c), Becomes(c, t) PROVE IInv'
  <2>1. Append(l.subscriptions, name) \in Seq(Names)
    BY <1>2
  <2>2. t = [l EXCEPT !.todo = Tail(l.todo), !.subscriptions = Append(l.subscriptions, name)]
    OBVIOUS
  <2> HIDE DEF t, name
  <2>3. /\ IsThread(t) /\ t.subscriptions = Append(l.subscriptions, name) /\ t.a_live = l.a_live
        /\ t.subscription_mode = l.subscription_mode /\ t.left = l.left /\ t.monitors = l.monitors
        /\ t.pc = l.pc
    BY <1>2, <2>1, <2>2 DEF IsThread
  <2> QED BY <1>1, <1>2, <1>5, <2>3, SubscribedStep
<1>6. ASSUME poisoned, DropReceiver(Queue(c)), Becomes(c, Goto(c, "panicked")) PROVE IInv'
  <2> DEFINE u == Goto(c, "panicked")
  <2>1. IsThread(u) /\ u.pc = "panicked" /\ SameHoldings(l, u) /\ u.left = l.left
    BY <1>2, GotoOutcome DEF SessionPcs
  <2>2. Becomes(c, u)
    BY <1>6
  <2> HIDE DEF u
  <2> QED BY <1>1, <1>6, <2>1, <2>2, DroppedStep
<1> HIDE DEF skip, t, name
<1> QED BY <1>3, <1>4, <1>5, <1>6

LEMMA SubscribeEndsStep ==
    ASSUME IInv, NEW c \in Clients, SubscribeEnds(c)
    PROVE  IInv'
<1> DEFINE v == Replies(c, Success)
           t == [v EXCEPT !.subscription_mode = TRUE]
<1>1. client[c].pc = "subscribing" /\ Becomes(c, t) /\ UNCHANGED <<sharedVars, channelVars>>
  BY DEF SubscribeEnds, At
<1>2. IsThread(v) /\ v.pc = "log_reply" /\ v.left = client[c].left /\ SameHoldings(client[c], v)
  <2>1. v = [client[c] EXCEPT !.reply = Success, !.pc = "log_reply"]
    BY DEF Replies, Success
  <2>2. IsThread(client[c]) /\ "log_reply" \in SessionPcs
    BY Holds DEF SessionPcs
  <2> HIDE DEF v
  <2> QED BY <2>1, <2>2 DEF IsThread, SameHoldings
<1> HIDE DEF v
<1>3. /\ IsThread(t) /\ t.subscription_mode = TRUE /\ t.left = v.left /\ t.pc = v.pc
      /\ t.a_live = v.a_live /\ t.subscriptions = v.subscriptions /\ t.monitors = v.monitors
  <2>1. t = [v EXCEPT !.subscription_mode = TRUE]
    OBVIOUS
  <2> HIDE DEF t
  <2> QED BY <1>2, <2>1 DEF IsThread
<1> HIDE DEF t
<1>4. client[c].left \in Nat /\ client[c].a_live
  BY <1>1, Holds DEF IsThread
<1>5. Steps(c, t)
  BY <1>1, <1>2, <1>3, <1>4 DEF Steps
<1>6. UNCHANGED <<channels, poisoned, dropped>>
  BY <1>1 DEF channelVars
<1>7. Typed'
  <2>1. ChannelsTyped' /\ dropped' \subseteq AllReceivers /\ logger' \in {"starting", "running", "dead"}
        /\ hung_up' \subseteq Clients /\ poisoned' \in BOOLEAN
    BY <1>1, <1>6 DEF IInv, Typed, ChannelsTyped, sharedVars
  <2> QED BY <1>5, <2>1, TypedKept
<1>8. (RequestKnown /\ MutexHeld /\ NotAlive /\ Counted /\ VerboseKnown)'
  <2>1. Serving(c, t)
    BY <1>1, <1>2, <1>3, <1>4 DEF Serving, UnderWay, AsRead, Stale, StaleThread, At, SameHoldings
  <2> QED BY <1>1, <1>5, <2>1, ServingKept DEF sharedVars
<1>9. (DroppedByTheGone /\ QueueNoted /\ PoisonedByTheGone)'
  BY <1>1, <1>2, <1>3, <1>5, <1>6, PoisonKept DEF SameHoldings, PoisonAround, IInv, Typed, sharedVars
<1>10. Lists'
  <2>1. Expected(c) = client[c].subscriptions
    BY <1>1 DEF Expected
  <2> QED BY <1>1, <1>2, <1>3, <1>5, <1>6, <2>1, ListsKept DEF SameHoldings
<1> QED BY <1>7, <1>8, <1>9, <1>10 DEF IInv, Lists

LEMMA MonitorFailsStep ==
    ASSUME IInv, NEW c \in Clients, MonitorFails(c)
    PROVE  IInv'
<1> DEFINE t == LoopEnd(client[c])
<1>1. /\ client[c].pc = "monitoring" /\ c \in hung_up /\ DropReceiver(Queue(c)) /\ Becomes(c, t)
      /\ UNCHANGED sharedVars
  BY DEF MonitorFails, At
<1>2. client[c].a_live /\ IsThread(client[c])
  BY <1>1, Holds
<1>3. IsThread(t) /\ SameHoldings(client[c], t) /\ t.left = client[c].left /\ t.pc = "top"
  BY <1>2, LoopEndOutcome
<1> HIDE DEF t
<1> QED BY <1>1, <1>3, DroppedStep

LEMMA AddMonitorStep ==
    ASSUME IInv, NEW c \in Clients, AddMonitor(c)
    PROVE  IInv'
<1> DEFINE l == client[c]
           u == Goto(c, "monitoring")
           t == [u EXCEPT !.subscriptions = Append(l.subscriptions, MONITOR),
                          !.monitors = l.monitors \cup {Queue(c)}]
<1>1. IsThread(l) /\ l.subscriptions \in Seq(Names) /\ MONITOR \in Names
  BY Holds, ChannelsAssumption DEF IsThread
<1>2. IsThread(u) /\ u.pc = "monitoring" /\ SameHoldings(l, u) /\ u.left = l.left
  BY <1>1, GotoOutcome DEF SessionPcs
<1>3. l.pc = "add_monitor" /\ UNCHANGED sharedVars
  BY DEF AddMonitor, At
<1>4. \/ subscribe(MONITOR, Queue(c), c) /\ Becomes(c, t)
      \/ UNCHANGED channelVars /\ Becomes(c, Goto(c, "panicked"))
  <2>1. u.subscriptions = l.subscriptions /\ u.monitors = l.monitors
    BY <1>2 DEF SameHoldings
  <2>2. t = [Goto(c, "monitoring") EXCEPT !.subscriptions = Append(@, MONITOR),
                                          !.monitors = @ \cup {Queue(c)}]
    BY <1>2, <2>1 DEF IsThread
  <2> HIDE DEF t, u, l
  <2> QED BY <2>2 DEF AddMonitor, LocksChannels, Panic
<1>5. ASSUME subscribe(MONITOR, Queue(c), c), Becomes(c, t) PROVE IInv'
  <2>1. Append(l.subscriptions, MONITOR) \in Seq(Names)
    BY <1>1
  <2>2. t = [u EXCEPT !.subscriptions = Append(l.subscriptions, MONITOR),
                      !.monitors = l.monitors \cup {Queue(c)}]
    OBVIOUS
  <2>3. MONITOR \notin ToSet(l.subscriptions)
    BY <1>3 DEF IInv, MonitorsOnce, At
  <2> HIDE DEF t, u, MONITOR
  <2>4. /\ IsThread(t) /\ t.subscriptions = Append(l.subscriptions, MONITOR) /\ t.a_live = u.a_live
        /\ t.subscription_mode = u.subscription_mode /\ t.left = u.left
        /\ t.monitors = l.monitors \cup {Queue(c)} /\ t.pc = u.pc
    BY <1>2, <2>1, <2>2 DEF IsThread
  <2>5. /\ t.a_live = l.a_live /\ t.subscription_mode = l.subscription_mode /\ t.left = l.left
        /\ t.pc = "monitoring"
    BY <1>2, <2>4 DEF SameHoldings
  <2>6. l.monitors \subseteq t.monitors /\ Queue(c) \in t.monitors
    BY <2>4
  <2> QED BY <1>1, <1>3, <1>5, <2>3, <2>4, <2>5, <2>6, SubscribedStep
<1>6. ASSUME UNCHANGED channelVars, Becomes(c, Goto(c, "panicked")) PROVE IInv'
  <2>1. Calm(c, Goto(c, "panicked"))
    BY <1>3, PanicCalm
  <2> QED BY <1>3, <1>6, <2>1, AloneStep
<1> HIDE DEF t, u
<1> QED BY <1>4, <1>5, <1>6

LEMMA UnsubscribeNextStep ==
    ASSUME IInv, NEW c \in Clients, UnsubscribeNext(c)
    PROVE  IInv'
<1> DEFINE l == client[c]
           name == Head(l.todo)
           skip == [l EXCEPT !.todo = Tail(l.todo)]
           own == Without(l.subscriptions, {name})
           t == [l EXCEPT !.todo = Tail(l.todo), !.subscriptions = own]
<1>1. l.pc = "unsubscribing" /\ l.todo # <<>> /\ UNCHANGED sharedVars
  BY DEF UnsubscribeNext, At
<1>2. name \in Names /\ Tail(l.todo) \in Seq(Names) /\ IsThread(l) /\ l.subscriptions \in Seq(Names)
      /\ Distinct(l.subscriptions)
  BY <1>1, TailNames, Holds DEF IsThread
<1>3. \/ Becomes(c, skip) /\ UNCHANGED channelVars
      \/ unsubscribe(name, c) /\ Becomes(c, t)
      \/ UNCHANGED channelVars /\ Becomes(c, Goto(c, "panicked"))
  <2>1. IsThread(l)
    BY <1>2
  <2> QED BY <2>1 DEF UnsubscribeNext, LocksChannels, Panic, IsThread
<1>4. ASSUME Becomes(c, skip), UNCHANGED channelVars PROVE IInv'
  <2>1. IsThread(skip) /\ SameHoldings(l, skip) /\ skip.pc = l.pc /\ skip.left = l.left
    BY <1>2, TodoOutcome
  <2> HIDE DEF skip
  <2>2. Calm(c, skip)
    BY <1>1, <2>1, TodoCalm
  <2> QED BY <1>1, <1>4, <2>2, AloneStep
<1>5. ASSUME unsubscribe(name, c), Becomes(c, t) PROVE IInv'
  <2>1. own \in Seq(Names) /\ ToSet(own) = ToSet(l.subscriptions) \ {name} /\ Distinct(own)
    BY <1>2, WithoutProperties, DistinctLeft
  <2>2. t = [l EXCEPT !.todo = Tail(l.todo), !.subscriptions = own]
    OBVIOUS
  <2> HIDE DEF t, name, own
  <2>3. /\ IsThread(t) /\ t.subscriptions = own /\ t.a_live = l.a_live
        /\ t.subscription_mode = l.subscription_mode /\ t.left = l.left /\ t.monitors = l.monitors
        /\ t.pc = l.pc
    BY <1>2, <2>1, <2>2 DEF IsThread
  <2>4. Expected(c) = l.subscriptions
    BY <1>1 DEF Expected
  <2> QED BY <1>1, <1>2, <1>5, <2>1, <2>3, <2>4, UnsubscribedStep
<1>6. ASSUME UNCHANGED channelVars, Becomes(c, Goto(c, "panicked")) PROVE IInv'
  <2>1. Calm(c, Goto(c, "panicked"))
    BY <1>1, PanicCalm
  <2> QED BY <1>1, <1>6, <2>1, AloneStep
<1> HIDE DEF skip, t, name
<1> QED BY <1>3, <1>4, <1>5, <1>6

LEMMA UnsubscribeEndsStep ==
    ASSUME IInv, NEW c \in Clients, UnsubscribeEnds(c)
    PROVE  IInv'
<1>1. /\ Becomes(c, Replies(c, Success)) /\ client[c].pc = "unsubscribing"
      /\ UNCHANGED <<sharedVars, channelVars>>
  BY DEF UnsubscribeEnds, At
<1>2. Calm(c, Replies(c, Success))
  BY <1>1, RepliesCalm DEF Ending
<1> QED BY <1>1, <1>2, AloneStep

LEMMA LeaveNextStep ==
    ASSUME IInv, NEW c \in Clients, LeaveNext(c)
    PROVE  IInv'
<1> DEFINE l == client[c]
           name == Head(l.todo)
           t == [l EXCEPT !.todo = Tail(l.todo)]
           u == Goto(c, "gone")
<1>1. l.pc = "leaving" /\ UNCHANGED sharedVars /\ IsThread(l) /\ Distinct(l.todo)
  BY Holds DEF LeaveNext, At, IInv, OwnListsDistinct
<1>2. \/ l.todo = <<>> /\ Becomes(c, u) /\ UNCHANGED channelVars
      \/ l.todo # <<>> /\ unsubscribe(name, c) /\ Becomes(c, t)
      \/ UNCHANGED channelVars /\ Becomes(c, Goto(c, "panicked"))
  BY <1>1 DEF LeaveNext, LocksChannels, Panic, IsThread
<1>3. ASSUME l.todo = <<>>, Becomes(c, u), UNCHANGED channelVars PROVE IInv'
  <2>1. IsThread(u) /\ u.pc = "gone" /\ SameHoldings(l, u) /\ u.left = l.left /\ u.todo = l.todo
    BY <1>1, GotoOutcome DEF SessionPcs
  <2>2. l.left \in Nat
    BY <1>1 DEF IsThread
  <2> HIDE DEF u
  <2>3. Calm(c, u)
    BY <1>1, <2>1, <2>2 DEF Calm, UnderWay, AsRead, SameHoldings, Stale, At, Expected
  <2> QED BY <1>1, <1>3, <2>3, AloneStep
<1>4. ASSUME l.todo # <<>>, unsubscribe(name, c), Becomes(c, t) PROVE IInv'
  <2>1. name \in Names /\ Tail(l.todo) \in Seq(Names) /\ l.todo \in Seq(Names)
    BY <1>1, <1>4, TailNames DEF IsThread
  <2>2. /\ IsThread(t) /\ SameHoldings(l, t) /\ t.pc = l.pc /\ t.left = l.left /\ t.todo = Tail(l.todo)
    BY <1>1, <2>1, TodoOutcome
  <2>3. ToSet(Tail(l.todo)) = ToSet(l.todo) \ {name} /\ Distinct(Tail(l.todo))
    BY <1>1, <1>4, <2>1, TailSet DEF Distinct
  <2>4. Expected(c) = l.todo /\ Distinct(l.subscriptions)
    BY <1>1, Holds DEF Expected
  <2> HIDE DEF t, name
  <2> QED BY <1>1, <1>4, <2>1, <2>2, <2>3, <2>4, UnsubscribedStep DEF SameHoldings
<1>5. ASSUME UNCHANGED channelVars, Becomes(c, Goto(c, "panicked")) PROVE IInv'
  <2>1. Calm(c, Goto(c, "panicked"))
    BY <1>1, PanicCalm
  <2> QED BY <1>1, <1>5, <2>1, AloneStep
<1> HIDE DEF t, u, name
<1> QED BY <1>2, <1>3, <1>4, <1>5

-----------------------------------------------------------------------------
(* The invariant *)

LEMMA Initially ==
    ASSUME SessionsInit
    PROVE  IInv
<1>1. /\ client = [c \in Clients |->
                    [pc |-> "unborn", a_live |-> TRUE, subscription_mode |-> FALSE, timed |-> FALSE,
                     verbose |-> FALSE, request |-> NoRequest, reply |-> Nil, todo |-> <<>>,
                     subscriptions |-> <<>>, monitors |-> {}, left |-> MaxRequests[c]]]
      /\ logger = "starting" /\ logger_verbose = verbose(conf) /\ logger_ref = Nobody
      /\ total_clients = 0 /\ hung_up = {} /\ poisoned = FALSE /\ dropped = {}
      /\ channels = [n \in {MONITOR, LOGGER} |->
                        IF n = LOGGER THEN <<Listener(LOGGER_SPECIAL_ID, LoggerReceiver)>> ELSE <<>>]
  BY DEF SessionsInit, ChannelsInit
<1>2. \A c \in Clients :
        /\ IsThread(client[c]) /\ client[c].pc = "unborn" /\ client[c].a_live
        /\ client[c].subscriptions = <<>> /\ client[c].left = MaxRequests[c]
  <2>1. ASSUME NEW c \in Clients
        PROVE  /\ IsThread(client[c]) /\ client[c].pc = "unborn" /\ client[c].a_live
               /\ client[c].subscriptions = <<>> /\ client[c].left = MaxRequests[c]
    <3> DEFINE t == client[c]
    <3>1. t = [pc |-> "unborn", a_live |-> TRUE, subscription_mode |-> FALSE, timed |-> FALSE,
               verbose |-> FALSE, request |-> NoRequest, reply |-> Nil, todo |-> <<>>,
               subscriptions |-> <<>>, monitors |-> {}, left |-> MaxRequests[c]]
      BY <1>1
    <3>2. MaxRequests[c] \in Nat /\ <<>> \in Seq(Names) /\ "unborn" \in SessionPcs
      BY SessionsAssumption DEF SessionPcs
    <3> HIDE DEF t
    <3>3. IsThread(t) /\ t.pc = "unborn" /\ t.a_live /\ t.subscriptions = <<>> /\ t.left = MaxRequests[c]
      BY <3>1, <3>2 DEF IsThread
    <3> QED BY <3>3 DEF t
  <2> QED BY <2>1
<1>3. MONITOR # LOGGER /\ {MONITOR, LOGGER} \subseteq Names
  BY ChannelsAssumption DEF MONITOR, LOGGER
<1> DEFINE log == Listener(LOGGER_SPECIAL_ID, LoggerReceiver)
<1>4. /\ DOMAIN channels = {MONITOR, LOGGER} /\ channels = [n \in DOMAIN channels |-> channels[n]]
      /\ channels[LOGGER] = <<log>> /\ channels[MONITOR] = <<>>
  BY <1>1, <1>3
<1>5. log \in ListenerType /\ log.id = LOGGER_SPECIAL_ID
  BY DEF Listener, ListenerType, AllReceivers
<1> HIDE DEF log
<1>6. /\ \A n : Listeners(n) = IF n = LOGGER THEN <<log>> ELSE <<>>
      /\ \A n : Ids(n) = IF n = LOGGER THEN {LOGGER_SPECIAL_ID} ELSE {}
  <2>1. \A n : Listeners(n) = IF n = LOGGER THEN <<log>> ELSE <<>>
    BY <1>3, <1>4 DEF Listeners
  <2>2. ToSet(<<log>>) = {log} /\ ToSet(<<>>) = {}
    BY DEF ToSet
  <2> QED BY <1>5, <2>1, <2>2 DEF Ids
<1>7. Typed
  <2>1. <<log>> \in Seq(ListenerType) /\ <<>> \in Seq(ListenerType)
    BY <1>5
  <2>2. \A n \in DOMAIN channels : channels[n] \in Seq(ListenerType)
    BY <1>4, <2>1
  <2>3. client = [c \in Clients |-> client[c]]
    BY <1>1
  <2>4. \A c \in Clients : client[c].left <= MaxRequests[c]
    BY <1>2, SessionsAssumption
  <2> QED BY <1>1, <1>2, <1>3, <1>4, <2>2, <2>3, <2>4 DEF Typed
<1>8. RequestKnown /\ NotAlive
  BY <1>2 DEF RequestKnown, UnderWay, AsRead, NotAlive
<1>9. MutexHeld
  BY <1>1, <1>2, SessionsAssumption DEF MutexHeld, At
<1>10. Counted
  <2>1. Served = {} /\ Panicked = {}
    BY <1>2 DEF Served, Panicked, At
  <2>2. IsFiniteSet({}) /\ Cardinality({}) = 0
    BY FS_EmptySet
  <2> QED BY <1>1, <2>1, <2>2 DEF Counted
<1>11. VerboseKnown
  BY <1>1, <1>2 DEF VerboseKnown, At
<1>12. DroppedByTheGone /\ QueueNoted /\ PoisonedByTheGone
  BY <1>1, <1>2 DEF DroppedByTheGone, QueueNoted, PoisonedByTheGone, At
<1>13. OwnListsDistinct /\ ListenersDistinct
  <2>1. Distinct(<<>>) /\ OnceEach(<<>>)
    BY DEF Distinct, OnceEach
  <2>2. OnceEach(<<log>>)
    BY DEF OnceEach
  <2> QED BY <1>2, <1>4, <2>1, <2>2 DEF OwnListsDistinct, ListenersDistinct, At
<1>14. AllRegistered /\ LogListens
  <2>1. \A c \in Clients : Expected(c) = <<>> /\ c # LOGGER_SPECIAL_ID
    BY <1>2, SessionsAssumption DEF Expected
  <2>2. ToSet(<<>>) = {}
    BY DEF ToSet
  <2> QED BY <1>4, <1>6, <2>1, <2>2 DEF AllRegistered, Registered, LogListens
<1>15. MonitorsOnce
  <2>1. \A c \in Clients : MONITOR \notin ToSet(client[c].subscriptions)
    BY <1>2 DEF ToSet
  <2> QED BY <1>2, <2>1 DEF MonitorsOnce, MonitorsAsSubscribed, At
<1> QED BY <1>7, <1>8, <1>9, <1>10, <1>11, <1>12, <1>13, <1>14, <1>15 DEF IInv

LEMMA Kept ==
    ASSUME IInv, [SessionsNext]_sessionVars
    PROVE  IInv'
<1>1. CASE LoggerOpens
  BY <1>1, LoggerOpensStep
<1>2. ASSUME NEW r \in ClientReceivers, RelayMessage(r) PROVE IInv'
  BY <1>2, RelayMessageStep
<1>3. ASSUME NEW c \in Clients, Accept(c) \/ HangUp(c) \/ ReadRequest(c) PROVE IInv'
  BY <1>3, AcceptStep, HangUpStep, ReadRequestStep
<1>4. ASSUME NEW c \in Clients, Thread(c) PROVE IInv'
  <2>1. CASE \/ ReadTimeOut(c) \/ LockLogger(c) \/ StoreVerbose(c) \/ LogRequest(c)
             \/ TellMonitors(c) \/ LogReply(c) \/ RefuseInvalid(c) \/ ExecuteQuery(c)
    BY <2>1, ReadTimeOutStep, LockLoggerStep, StoreVerboseStep, LogRequestStep, TellMonitorsStep,
       LogReplyStep, RefuseInvalidStep, ExecuteQueryStep
  <2>2. CASE \/ Close(c) \/ ExecuteServer(c) \/ ExecutePublisher(c) \/ CountNext(c)
             \/ ExecuteSuscriber(c) \/ SubscribeNext(c) \/ SubscribeEnds(c)
    BY <2>2, CloseStep, ExecuteServerStep, ExecutePublisherStep, CountNextStep,
       ExecuteSuscriberStep, SubscribeNextStep, SubscribeEndsStep
  <2>3. CASE \/ UnsubscribeNext(c) \/ UnsubscribeEnds(c) \/ AddMonitor(c)
             \/ MonitorMessage(c) \/ MonitorFails(c) \/ ReadFails(c) \/ LeaveNext(c)
    BY <2>3, UnsubscribeNextStep, UnsubscribeEndsStep, AddMonitorStep, MonitorMessageStep,
       MonitorFailsStep, ReadFailsStep, LeaveNextStep
  <2> QED BY <1>4, <2>1, <2>2, <2>3 DEF Thread
<1>5. CASE UNCHANGED sessionVars
  BY <1>5, NothingStep DEF sessionVars, channelVars
<1> QED BY <1>1, <1>2, <1>3, <1>4, <1>5 DEF SessionsNext

\* The inductive invariant holds in every run of the server's threads, whatever
\* the clients send and whenever they go away.
THEOREM Invariance == SessionsSpec => []IInv
<1>1. SessionsInit => IInv
  BY Initially
<1>2. IInv /\ [SessionsNext]_sessionVars => IInv'
  BY Kept
<1> QED BY <1>1, <1>2, PTL DEF SessionsSpec

\* The types, and the logger's mutex: it is held by the thread that is about to
\* store the verbosity and by no other (set_verbose in logger.rs).
THEOREM SessionTypeCorrect == SessionsSpec => []SessionTypeOK
<1>1. ASSUME IInv PROVE SessionTypeOK
  <2>1. Typed /\ MutexHeld /\ LogListens
    BY <1>1 DEF IInv
  <2>2. \A c \in Clients : client[c].left \in 0..MaxRequests[c]
    BY <2>1, SessionsAssumption DEF Typed, IsThread
  <2>3. \A c \in Clients : ToSet(client[c].subscriptions) \cup ToSet(client[c].todo) \subseteq Names
    <3>1. ASSUME NEW s \in Seq(Names) PROVE ToSet(s) \subseteq Names
      BY LenProperties DEF ToSet
    <3> QED BY <2>1, <3>1 DEF Typed, IsThread
  <2>4. \A c \in Clients : client[c].pc \in SessionPcs
    BY <2>1 DEF Typed, IsThread
  <2> QED BY <2>1, <2>2, <2>3, <2>4 DEF SessionTypeOK, Typed, MutexHeld, LogListens, AllReceivers
<1> QED BY <1>1, Invariance, PTL

\* The list a client keeps of its subscriptions and the lists the channels keep
\* of their listeners agree: it is listed once under each name of its own and
\* under no other, also in the middle of a SUBSCRIBE, an UNSUBSCRIBE or the end
\* of its connection (client.rs, channels.rs).
THEOREM SubscriptionsAgree == SessionsSpec => []SubscriptionsRegistered
<1>1. ASSUME IInv PROVE SubscriptionsRegistered
  <2>1. ASSUME NEW c \in Clients, NEW n \in Names, client[c].pc # "panicked"
        PROVE  Cardinality({i \in DOMAIN Listeners(n) : Listeners(n)[i].id = c})
                   = IF n \in ToSet(Expected(c)) THEN 1 ELSE 0
    <3> DEFINE list == Listeners(n)
               mine == {i \in DOMAIN list : list[i].id = c}
    <3>1. /\ list \in Seq(ListenerType) /\ OnceEach(list)
          /\ c \in Ids(n) <=> n \in ToSet(Expected(c))
      <4>1. OnceEach(<<>>)
        BY DEF OnceEach
      <4> QED BY <1>1, <2>1, <4>1, ListenersType
              DEF IInv, ListenersDistinct, Listeners, AllRegistered, Registered, At
    <3>2. c \in Ids(n) <=> \E i \in DOMAIN list : list[i].id = c
      BY DEF Ids, ToSet
    <3> HIDE DEF list
    <3>3. DOMAIN list = 1..Len(list)
      BY <3>1, LenProperties
    <3>4. CASE n \in ToSet(Expected(c))
      <4>1. PICK i \in DOMAIN list : list[i].id = c
        BY <3>1, <3>2, <3>4
      <4>2. mine = {i}
        BY <3>1, <3>3, <4>1 DEF OnceEach
      <4> QED BY <3>4, <4>2, FS_Singleton DEF list
    <3>5. CASE n \notin ToSet(Expected(c))
      <4>1. mine = {}
        BY <3>1, <3>2, <3>5
      <4> QED BY <3>5, <4>1, FS_EmptySet DEF list
    <3> QED BY <3>4, <3>5
  <2> QED BY <2>1 DEF SubscriptionsRegistered
<1> QED BY <1>1, Invariance, PTL

\* A panic under the channels' mutex has one of two causes: the logger died, or
\* a MONITOR ended with its connection and stays registered.
THEOREM PoisonCorrect == SessionsSpec => []PoisonedByTheGone
<1>1. IInv => PoisonedByTheGone
  BY DEF IInv
<1> QED BY <1>1, Invariance, PTL

\* The count INFO reports never misses a connection that is served, and is too
\* high by no more than the threads that panicked.
THEOREM CountCorrect == SessionsSpec => []ClientsCounted
<1>1. IInv => ClientsCounted
  BY DEF IInv, Counted, ClientsCounted, Served, Panicked
<1> QED BY <1>1, Invariance, PTL

\* CONFIG SET verbose reaches the logger: once every thread is back at reading,
\* it goes by the verbosity that is configured.
THEOREM VerboseCorrect == SessionsSpec => []VerboseFollowsConfig
<1>1. IInv => VerboseFollowsConfig
  <2>1. ASSUME NEW c \in Clients, Settled(c) PROVE ~Stale(c) /\ ~At(c, "store")
    BY <2>1 DEF Settled, Stale, At
  <2> QED BY <2>1 DEF IInv, VerboseKnown, VerboseFollowsConfig
<1> QED BY <1>1, Invariance, PTL

-----------------------------------------------------------------------------
(* What is in the queues *)

Whats == {"request", "reply", "text"}

Messages == [name : Names, from : Clients, request : Nat, what : Whats]

\* Where a thread is that is not in a request, or has sent all that belongs to
\* it; and where it is on its way to the reply.
Resting == {"unborn", "top", "lock", "store", "reading", "leaving", "gone", "panicked"}
Answering == {"counting", "subscribing", "unsubscribing", "add_monitor", "monitoring", "log_reply"}

\* How far a thread is with its request, as far as it can be told by what it
\* has sent: nothing, the line of the log, that and the line of the monitors,
\* all but the reply, everything.
Stage(t) ==
    CASE t.pc = "log_request" \/ (t.pc = "execute" /\ t.request.kind = "Touch") -> 0
      [] t.pc = "tell_monitors" -> 1
      [] t.pc = "execute" /\ t.request.kind # "Touch" -> 2
      [] t.pc \in Answering -> 3
      [] OTHER -> 4

\* Whether thread t, or what it was before, can have sent the message.
MayBeSent(t, m) ==
    /\ m.request >= t.left
    /\ m.request = t.left => /\ Stage(t) > 0
                             /\ Stage(t) = 1 => m.name = LOGGER
                             /\ Stage(t) <= 2 => m.what = "request"
                             /\ Stage(t) = 3 => m.what # "reply"

InboxTyped == inbox \in [Receivers -> Seq(Messages)]

\* No message that is still to be sent is in a queue.
Fresh == \A r \in Receivers : \A m \in ToSet(inbox[r]) : MayBeSent(client[m.from], m)

\* Everybody listens with a queue of their own, the logger to the log only.
OwnQueue(n, l) == \/ l.id \in Clients /\ l.receiver \in Receivers /\ l.receiver[1] = l.id
                  \/ l = Listener(LOGGER_SPECIAL_ID, LoggerReceiver) /\ n = LOGGER
OwnQueues == \A n \in DOMAIN channels : \A l \in ToSet(channels[n]) : OwnQueue(n, l)

OwnMonitors == \A c \in Clients : \A r \in client[c].monitors : r[1] = c

QueuesInv == InboxTyped /\ Fresh /\ OwnQueues /\ OwnMonitors

-----------------------------------------------------------------------------
LEMMA StageType == \A t : Stage(t) \in 0..4
BY DEF Stage

LEMMA StageOf ==
    ASSUME NEW t
    PROVE  /\ t.pc = "log_request" => Stage(t) = 0
           /\ t.pc = "execute" /\ t.request.kind = "Touch" => Stage(t) = 0
           /\ t.pc = "tell_monitors" => Stage(t) = 1
           /\ t.pc = "execute" /\ t.request.kind # "Touch" => Stage(t) = 2
           /\ t.pc \in Answering => Stage(t) = 3
           /\ t.pc \in Resting => Stage(t) = 4
           /\ t.pc \in SessionPcs \ Resting => Stage(t) <= 3
BY DEF Stage, Resting, Answering, SessionPcs

\* What may have been sent stays sent.
LEMMA StillSent ==
    ASSUME NEW t, NEW u, NEW m, MayBeSent(t, m), u.left \in Nat, m.request \in Nat,
           \/ u.left = t.left /\ Stage(u) >= Stage(t)
           \/ t.left \in Nat /\ u.left < t.left
    PROVE  MayBeSent(u, m)
<1>1. Stage(t) \in 0..4 /\ Stage(u) \in 0..4
  BY StageType
<1>2. CASE u.left = t.left /\ Stage(u) >= Stage(t)
  BY <1>1, <1>2 DEF MayBeSent
<1>3. CASE t.left \in Nat /\ u.left < t.left
  BY <1>3 DEF MayBeSent
<1> QED BY <1>2, <1>3

\* The thread of c goes on: what it has sent so far is behind it.
Onward(c, t) ==
    \/ t.left = client[c].left /\ Stage(t) >= Stage(client[c])
    \/ t.left < client[c].left

LEMMA MessageType ==
    ASSUME InboxTyped, NEW r \in Receivers, NEW m \in ToSet(inbox[r])
    PROVE  m \in Messages /\ m.request \in Nat /\ m.from \in Clients
<1>1. inbox[r] \in Seq(Messages)
  BY DEF InboxTyped
<1>2. m \in Messages
  BY <1>1, LenProperties DEF ToSet
<1> QED BY <1>2 DEF Messages

LEMMA SentBefore ==
    ASSUME IInv, QueuesInv, NEW c \in Clients, NEW t, Steps(c, t), Onward(c, t)
    PROVE  \A r \in Receivers : \A m \in ToSet(inbox[r]) : MayBeSent(client'[m.from], m)
<1> SUFFICES ASSUME NEW r \in Receivers, NEW m \in ToSet(inbox[r])
             PROVE  MayBeSent(client'[m.from], m)
  OBVIOUS
<1>1. m.request \in Nat /\ m.from \in Clients /\ MayBeSent(client[m.from], m)
  BY MessageType DEF QueuesInv, Fresh
<1>2. CASE m.from # c
  BY <1>1, <1>2, StepsOutcome
<1>3. CASE m.from = c
  <2>1. client'[c] = t /\ t.left \in Nat /\ client[c].left \in Nat
    BY StepsOutcome, Holds DEF Steps, IsThread
  <2>2. MayBeSent(t, m)
    BY <1>1, <1>3, <2>1, StillSent DEF Onward
  <2> QED BY <1>3, <2>1, <2>2
<1> QED BY <1>2, <1>3

\* When nothing is put into the queues.
LEMMA QueuesKept ==
    ASSUME IInv, QueuesInv, NEW c \in Clients, NEW t, Steps(c, t), Onward(c, t),
           \A r \in t.monitors : r[1] = c,
           InboxTyped', \A r \in Receivers : ToSet(inbox'[r]) \subseteq ToSet(inbox[r]),
           OwnQueues'
    PROVE  QueuesInv'
<1>1. Fresh'
  BY SentBefore DEF Fresh, MayBeSent
<1>2. OwnMonitors'
  BY StepsOutcome DEF QueuesInv, OwnMonitors
<1> QED BY <1>1, <1>2 DEF QueuesInv

\* The same in words of pairs of a reader and a message.
LEMMA OwedPairs ==
    /\ \A o : o \in Owed <=> \E r \in Receivers : \E m \in ToSet(inbox[r]) : o = <<r[1], m>>
    /\ \A o : o \in Owed' <=> \E r \in Receivers : \E m \in ToSet(inbox'[r]) : o = <<r[1], m>>
<1>1. Receivers = ClientReceivers
  BY SessionsAssumption
<1> QED BY <1>1 DEF Owed

\* What is not to be seen from outside.
LEMMA Unseen ==
    ASSUME UNCHANGED <<channels, inbox, hung_up, poisoned>>
    PROVE  UNCHANGED PS!pubSubVars
<1>1. Subscribers' = Subscribers /\ Owed' = Owed
  BY DEF Subscribers, Ids, Listeners, Owed
<1> QED BY <1>1 DEF PS!pubSubVars

Seen == [PS!PubSubNext]_(PS!pubSubVars)

\* The thread goes on, and nobody outside can see it.
LEMMA QuietMapped ==
    ASSUME IInv, QueuesInv, NEW c \in Clients, NEW t, Becomes(c, t), IsThread(t), Onward(c, t),
           t.monitors = client[c].monitors, UNCHANGED <<channels, inbox, hung_up, poisoned>>
    PROVE  QueuesInv' /\ Seen
<1>0. Steps(c, t)
  <2>1. t.left \in Nat /\ client[c].left \in Nat
    BY Holds DEF IsThread
  <2> QED BY <2>1 DEF Steps, Onward
<1>1. InboxTyped' /\ OwnQueues' /\ \A r \in Receivers : ToSet(inbox'[r]) \subseteq ToSet(inbox[r])
  BY DEF QueuesInv, InboxTyped, OwnQueues, OwnQueue
<1>2. \A r \in t.monitors : r[1] = c
  BY DEF QueuesInv, OwnMonitors
<1>3. QueuesInv'
  BY <1>0, <1>1, <1>2, QueuesKept
<1> QED BY <1>3, Unseen DEF Seen

\* The same for a step that is one of those `Calm` speaks of.
LEMMA CalmMapped ==
    ASSUME IInv, QueuesInv, NEW c \in Clients, NEW t, Becomes(c, t), Calm(c, t), Onward(c, t),
           UNCHANGED <<channels, inbox, hung_up, poisoned>>
    PROVE  QueuesInv' /\ Seen
BY QuietMapped DEF Calm, SameHoldings

-----------------------------------------------------------------------------
(* Sending *)

\* Which listeners are reached: all of them, or those before one that is gone.
LEMMA ReachedListeners ==
    ASSUME IInv, NEW name
    PROVE  /\ Reached(name) \in Seq(ListenerType)
           /\ ToSet(Reached(name)) \subseteq ToSet(Listeners(name))
           /\ ~Fails(name) => Reached(name) = Listeners(name)
<1> DEFINE list == Listeners(name)
           Gone(l) == l.receiver \in dropped
           first == SelectInSeq(list, LAMBDA l : l.receiver \in dropped)
<1>1. list \in Seq(ListenerType) /\ Len(list) \in Nat /\ DOMAIN list = 1..Len(list)
  BY ListenersType, LenProperties DEF IInv
<1>2. CASE ~Fails(name)
  <2>1. Reached(name) = SubSeq(list, 1, Len(list))
    BY <1>2 DEF Reached
  <2>2. Reached(name) = list
    BY <1>1, <2>1, SubSeqFull
  <2> QED BY <1>1, <2>2
<1>3. CASE Fails(name)
  <2>1. Reached(name) = SubSeq(list, 1, first - 1)
    BY <1>3 DEF Reached
  <2>2. first \in 0..Len(list)
    <3>1. CASE first = 0
      BY <1>1, <3>1
    <3>2. CASE first # 0
      <4>1. first \in 1..Len(list)
        BY <1>1, <3>2, SelectInSeqFinds, Zenon
      <4> QED BY <1>1, <4>1
    <3> QED BY <3>1, <3>2
  <2> HIDE DEF first, list
  <2>3. /\ SubSeq(list, 1, first - 1) \in Seq(ListenerType)
        /\ \A i \in DOMAIN SubSeq(list, 1, first - 1) : SubSeq(list, 1, first - 1)[i] \in ToSet(list)
    <3>1. CASE first = 0
      <4>1. SubSeq(list, 1, first - 1) = <<>>
        BY <1>1, <3>1, SubSeqEmpty
      <4>2. <<>> \in Seq(ListenerType) /\ \A i \in DOMAIN <<>> : FALSE
        OBVIOUS
      <4> QED BY <4>1, <4>2
    <3>2. CASE first # 0
      <4> DEFINE part == SubSeq(list, 1, first - 1)
      <4>1. /\ part \in Seq(ListenerType) /\ Len(part) = first - 1
            /\ \A i \in 1..(first - 1) : part[i] = list[i]
        BY <1>1, <2>2, <3>2, SubSeqProperties
      <4>2. DOMAIN part = 1..(first - 1)
        BY <4>1, LenProperties
      <4> HIDE DEF part
      <4>3. \A i \in DOMAIN part : part[i] \in ToSet(list)
        BY <1>1, <2>2, <3>2, <4>1, <4>2 DEF ToSet
      <4> QED BY <4>1, <4>3 DEF part
    <3> QED BY <3>1, <3>2
  <2> QED BY <1>3, <2>1, <2>3 DEF ToSet, list
<1> QED BY <1>2, <1>3

LEMMA ConcatSet ==
    ASSUME NEW S, NEW s \in Seq(S), NEW t \in Seq(S)
    PROVE  ToSet(s \o t) = ToSet(s) \cup ToSet(t)
<1>1. /\ s \o t \in Seq(S) /\ Len(s \o t) = Len(s) + Len(t) /\ Len(s) \in Nat /\ Len(t) \in Nat
      /\ \A i \in 1..Len(s) : (s \o t)[i] = s[i]
      /\ \A i \in 1..Len(t) : (s \o t)[Len(s) + i] = t[i]
  BY ConcatLength, ConcatElements, LenProperties
<1>2. DOMAIN (s \o t) = 1..(Len(s) + Len(t)) /\ DOMAIN s = 1..Len(s) /\ DOMAIN t = 1..Len(t)
  BY <1>1, LenProperties
<1> DEFINE u == s \o t
<1> HIDE DEF u
<1>3. ASSUME NEW x \in ToSet(u) PROVE x \in ToSet(s) \cup ToSet(t)
  <2>1. PICK i \in 1..(Len(s) + Len(t)) : x = u[i]
    BY <1>2 DEF ToSet, u
  <2>2. CASE i <= Len(s)
    BY <1>1, <1>2, <2>1, <2>2 DEF ToSet, u
  <2>3. CASE i > Len(s)
    <3>1. i - Len(s) \in 1..Len(t) /\ i = Len(s) + (i - Len(s))
      BY <1>1, <2>3
    <3>2. x = t[i - Len(s)]
      BY <1>1, <2>1, <3>1 DEF u
    <3> QED BY <1>2, <3>1, <3>2 DEF ToSet
  <2> QED BY <1>1, <2>2, <2>3
<1>4. ASSUME NEW x \in ToSet(s) PROVE x \in ToSet(u)
  <2>1. PICK i \in 1..Len(s) : x = s[i]
    BY <1>2 DEF ToSet
  <2>2. i \in 1..(Len(s) + Len(t)) /\ u[i] = x
    BY <1>1, <2>1 DEF u
  <2> QED BY <1>2, <2>2 DEF ToSet, u
<1>5. ASSUME NEW x \in ToSet(t) PROVE x \in ToSet(u)
  <2>1. PICK i \in 1..Len(t) : x = t[i]
    BY <1>2 DEF ToSet
  <2>2. Len(s) + i \in 1..(Len(s) + Len(t)) /\ u[Len(s) + i] = x
    BY <1>1, <2>1 DEF u
  <2> QED BY <1>2, <2>2 DEF ToSet, u
<1> QED BY <1>3, <1>4, <1>5 DEF u

\* A queue gets the message when it is that of a listener who is reached.
LEMMA Delivered ==
    ASSUME IInv, QueuesInv, NEW name, NEW msg, send(name, msg), NEW r \in Receivers
    PROVE  /\ (\E l \in ToSet(Reached(name)) : l.receiver = r) /\ msg \in Messages
               => inbox'[r] \in Seq(Messages) /\ ToSet(inbox'[r]) = ToSet(inbox[r]) \cup {msg}
           /\ ~(\E l \in ToSet(Reached(name)) : l.receiver = r) => inbox'[r] = inbox[r]
<1> DEFINE list == Reached(name)
           places == {i \in DOMAIN list : list[i].receiver = r}
           n == Copies(name, r)
           more == [i \in 1..n |-> msg]
<1>1. inbox[r] \in Seq(Messages)
  BY DEF QueuesInv, InboxTyped
<1>2. inbox'[r] = inbox[r] \o more
  BY DEF send
<1>3. DOMAIN list = 1..Len(list) /\ Len(list) \in Nat
  BY ReachedListeners, LenProperties
<1>4. n = Cardinality(places)
  BY DEF Copies
<1>5. IsFiniteSet(places) /\ n \in Nat /\ (places = {} <=> n = 0)
  <2>1. IsFiniteSet(1..Len(list))
    BY <1>3, FS_Interval
  <2>2. IsFiniteSet(places)
    BY <1>3, <2>1, FS_Subset
  <2> QED BY <1>4, <2>2, FS_CardinalityType, FS_EmptySet
<1>6. (\E l \in ToSet(list) : l.receiver = r) <=> places # {}
  BY DEF ToSet
<1> HIDE DEF n, places, list
<1>7. ASSUME n = 0 PROVE inbox'[r] = inbox[r]
  <2>1. more = <<>>
    BY <1>7
  <2> QED BY <1>1, <1>2, <2>1, ConcatEmptySeq
<1>8. ASSUME n # 0, msg \in Messages
      PROVE  inbox'[r] \in Seq(Messages) /\ ToSet(inbox'[r]) = ToSet(inbox[r]) \cup {msg}
  <2>1. more \in Seq(Messages) /\ Len(more) = n /\ \A i \in 1..n : more[i] = msg
    BY <1>5, <1>8
  <2> HIDE DEF more
  <2>2. inbox'[r] \in Seq(Messages)
    BY <1>1, <1>2, <2>1, ConcatLength
  <2>3. ToSet(inbox[r] \o more) = ToSet(inbox[r]) \cup ToSet(more)
    BY <1>1, <2>1, ConcatSet
  <2>4. 1 \in 1..n /\ DOMAIN more = 1..n
    BY <1>5, <1>8, <2>1, LenProperties
  <2>5. ToSet(more) = {msg}
    BY <2>1, <2>4 DEF ToSet
  <2> QED BY <1>2, <2>2, <2>3, <2>5
<1> QED BY <1>5, <1>6, <1>7, <1>8 DEF list

\* What it means for those who listen.
LEMMA SendOwes ==
    ASSUME IInv, QueuesInv, NEW name, NEW msg, send(name, msg),
           name \in Names => msg \in Messages,
           \A r \in Receivers : msg \notin ToSet(inbox[r])
    PROVE  LET readers == {l.id : l \in ToSet(Reached(name))} \cap Clients
           IN  /\ InboxTyped'
               /\ \A r \in Receivers : ToSet(inbox'[r]) \subseteq ToSet(inbox[r]) \cup {msg}
               /\ readers \subseteq Ids(name) \cap Clients
               /\ ~Fails(name) => readers = Ids(name) \cap Clients
               /\ readers # {} => name \in Names
               /\ Owed' = Owed \cup (readers \X {msg})
               /\ msg \notin {o[2] : o \in Owed}
<1> DEFINE readers == {l.id : l \in ToSet(Reached(name))} \cap Clients
           Hit(r) == \E l \in ToSet(Reached(name)) : l.receiver = r
<1>1. ToSet(Reached(name)) \subseteq ToSet(Listeners(name))
  BY ReachedListeners
<1>2. ASSUME NEW l \in ToSet(Listeners(name)) PROVE name \in Names /\ OwnQueue(name, l)
  <2>1. name \in DOMAIN channels /\ Listeners(name) = channels[name]
    BY <1>2 DEF Listeners, ToSet
  <2> QED BY <1>2, <2>1 DEF QueuesInv, OwnQueues, IInv, Typed
<1>3. \A r \in Receivers : \A l \in ToSet(Reached(name)) :
          l.receiver = r => l.id = r[1] /\ l.id \in Clients
  BY <1>1, <1>2, ChannelsAssumption DEF OwnQueue, Listener
<1>4. \A l \in ToSet(Reached(name)) : l.id \in Clients => l.receiver \in Receivers /\ l.receiver[1] = l.id
  BY <1>1, <1>2, SessionsAssumption DEF OwnQueue, Listener
<1>5. readers # {} => name \in Names
  BY <1>1, <1>2
<1>6. ASSUME NEW r \in Receivers, Hit(r) PROVE msg \in Messages
  BY <1>1, <1>2, <1>6
<1>7. \A r \in Receivers : /\ inbox'[r] \in Seq(Messages)
                           /\ ToSet(inbox'[r]) = ToSet(inbox[r]) \cup (IF Hit(r) THEN {msg} ELSE {})
  <2> SUFFICES ASSUME NEW r \in Receivers
               PROVE  /\ inbox'[r] \in Seq(Messages)
                      /\ ToSet(inbox'[r]) = ToSet(inbox[r]) \cup (IF Hit(r) THEN {msg} ELSE {})
    OBVIOUS
  <2>1. CASE Hit(r)
    BY <1>6, <2>1, Delivered
  <2>2. CASE ~Hit(r)
    <3>1. inbox'[r] = inbox[r] /\ inbox[r] \in Seq(Messages)
      BY <2>2, Delivered DEF QueuesInv, InboxTyped
    <3> QED BY <2>2, <3>1
  <2> QED BY <2>1, <2>2
<1>8. InboxTyped'
  <2>1. inbox' = [r \in Receivers |-> inbox'[r]]
    BY DEF send
  <2> QED BY <1>7, <2>1 DEF InboxTyped
<1>9. Owed' = Owed \cup (readers \X {msg})
  <2>1. ASSUME NEW o \in Owed' PROVE o \in Owed \cup (readers \X {msg})
    <3>0. PICK r \in Receivers : \E m \in ToSet(inbox'[r]) : o = <<r[1], m>>
      BY OwedPairs
    <3>1. PICK m \in ToSet(inbox'[r]) : o = <<r[1], m>>
      BY <3>0
    <3>2. CASE m \in ToSet(inbox[r])
      BY <3>1, <3>2, OwedPairs
    <3>3. CASE m \notin ToSet(inbox[r])
      <4>1. Hit(r) /\ m = msg
        BY <1>7, <3>1, <3>3
      <4>2. r[1] \in readers
        BY <1>3, <4>1
      <4> QED BY <3>1, <4>1, <4>2
    <3> QED BY <3>2, <3>3
  <2>2. ASSUME NEW o \in Owed PROVE o \in Owed'
    <3>0. PICK r \in Receivers : \E m \in ToSet(inbox[r]) : o = <<r[1], m>>
      BY OwedPairs
    <3>1. PICK m \in ToSet(inbox[r]) : o = <<r[1], m>>
      BY <3>0
    <3>2. m \in ToSet(inbox'[r])
      BY <1>7
    <3> QED BY <3>1, <3>2, OwedPairs
  <2>3. ASSUME NEW c \in readers PROVE <<c, msg>> \in Owed'
    <3>1. PICK l \in ToSet(Reached(name)) : l.id = c
      OBVIOUS
    <3>2. l.receiver \in Receivers /\ l.receiver[1] = c
      BY <1>4, <3>1
    <3>3. msg \in ToSet(inbox'[l.receiver])
      BY <1>7, <3>2
    <3> QED BY <3>2, <3>3, OwedPairs
  <2> HIDE DEF readers
  <2>4. \A o \in readers \X {msg} : o \in Owed'
    BY <2>3
  <2> QED BY <2>1, <2>2, <2>4
<1>10. msg \notin {o[2] : o \in Owed}
  BY OwedPairs
<1>11. readers \subseteq Ids(name) \cap Clients /\ (~Fails(name) => readers = Ids(name) \cap Clients)
  BY <1>1, ReachedListeners DEF Ids
<1>12. \A r \in Receivers : ToSet(inbox'[r]) \subseteq ToSet(inbox[r]) \cup {msg}
  BY <1>7
<1> QED BY <1>5, <1>8, <1>9, <1>10, <1>11, <1>12

\* Who is found gone has hung up, or is the log.
LEMMA WhoIsGone ==
    ASSUME IInv, QueuesInv, ~poisoned, NEW name, Fails(name)
    PROVE  name \in Names /\ (name = LOGGER \/ Subscribers[name] \cap hung_up # {})
<1>1. PICK l \in ToSet(Listeners(name)) : l.receiver \in dropped
  BY DEF Fails
<1>2. name \in DOMAIN channels /\ name \in Names /\ OwnQueue(name, l)
  BY DEF Listeners, ToSet, QueuesInv, OwnQueues, IInv, Typed
<1>3. CASE l = Listener(LOGGER_SPECIAL_ID, LoggerReceiver) /\ name = LOGGER
  BY <1>2, <1>3
<1>4. CASE l.id \in Clients /\ l.receiver \in Receivers /\ l.receiver[1] = l.id
  <2>1. l.receiver # LoggerReceiver
    BY <1>4, ChannelsAssumption
  <2>2. PICK c \in hung_up : l.receiver \in client[c].monitors
    BY <1>1, <2>1 DEF IInv, DroppedByTheGone
  <2>3. c \in Clients
    BY DEF IInv, Typed
  <2>4. l.id = c
    BY <1>4, <2>2, <2>3 DEF QueuesInv, OwnMonitors
  <2>5. c \in Subscribers[name]
    BY <1>2, <2>3, <2>4 DEF Subscribers, Ids
  <2> QED BY <1>2, <2>5
<1> QED BY <1>2, <1>3, <1>4 DEF OwnQueue

\* A message is sent: it is published, or fails to be, or nobody listens.
LEMMA TellMapped ==
    ASSUME IInv, QueuesInv, NEW c \in Clients, NEW t, NEW name, NEW what \in Whats,
           Tells(c, name, what, t), UNCHANGED sharedVars,
           client[c].pc \notin {"unborn", "store", "panicked"},
           ~MayBeSent(client[c], Message(c, name, what)),
           ~Fails(name) => /\ Calm(c, t) /\ t.left = client[c].left /\ Stage(t) >= Stage(client[c])
                           /\ MayBeSent(t, Message(c, name, what))
    PROVE  QueuesInv' /\ Seen
<1> DEFINE u == Goto(c, "panicked")
           msg == Message(c, name, what)
<1>1. /\ IsThread(u) /\ u.pc = "panicked" /\ SameHoldings(client[c], u)
      /\ u.left = client[c].left
  BY Holds, GotoOutcome DEF SessionPcs
<1>2. /\ Calm(c, u) /\ Stage(u) = 4 /\ Stage(client[c]) \in 0..4 /\ client[c].left \in Nat
  BY <1>1, PanicCalm, StageOf, StageType, Holds DEF IsThread, Resting
<1>3. /\ msg.from = c /\ msg.request = client[c].left
      /\ name \in Names => msg \in Messages
  BY <1>2 DEF Message, Messages
<1>4. MayBeSent(u, msg)
  BY <1>1, <1>2, <1>3 DEF MayBeSent
<1>5. hung_up' = hung_up
  BY DEF sharedVars
<1>6. CASE poisoned
  <2>1. UNCHANGED channelVars /\ Becomes(c, u)
    BY <1>6 DEF Tells, Panic
  <2>2. Onward(c, u)
    BY <1>1, <1>2 DEF Onward
  <2> HIDE DEF u
  <2> QED BY <1>2, <1>5, <2>1, <2>2, CalmMapped DEF channelVars
<1>7. CASE ~poisoned
  <2>1. /\ send(name, msg) /\ poisoned' = Fails(name) /\ UNCHANGED <<channels, dropped>>
        /\ IF Fails(name) THEN Becomes(c, u) ELSE Becomes(c, t)
    BY <1>7 DEF Tells, send, Panic
  <2>2. \A r \in Receivers : msg \notin ToSet(inbox[r])
    BY <1>3 DEF QueuesInv, Fresh
  <2> DEFINE readers == {l.id : l \in ToSet(Reached(name))} \cap Clients
  <2> HIDE DEF u, msg
  <2>3. /\ InboxTyped'
        /\ \A r \in Receivers : ToSet(inbox'[r]) \subseteq ToSet(inbox[r]) \cup {msg}
        /\ readers \subseteq Ids(name) \cap Clients
        /\ ~Fails(name) => readers = Ids(name) \cap Clients
        /\ readers # {} => name \in Names
        /\ Owed' = Owed \cup (readers \X {msg})
        /\ msg \notin {o[2] : o \in Owed}
    BY <1>3, <2>1, <2>2, SendOwes
  <2> HIDE DEF readers
  <2>4. PICK v : /\ Becomes(c, v) /\ Calm(c, v) /\ Onward(c, v) /\ MayBeSent(v, msg)
    <3>1. CASE Fails(name)
      BY <1>1, <1>2, <1>4, <2>1, <3>1 DEF Onward
    <3>2. CASE ~Fails(name)
      BY <2>1, <3>2 DEF Onward, msg
    <3> QED BY <3>1, <3>2
  <2>5. Steps(c, v) /\ SameHoldings(client[c], v)
    BY <2>4 DEF Calm, Steps
  <2>6. QueuesInv'
    <3>1. Fresh'
      <4> SUFFICES ASSUME NEW r \in Receivers, NEW m \in ToSet(inbox'[r])
                   PROVE  MayBeSent(client'[m.from], m)
        BY DEF Fresh, MayBeSent
      <4>1. CASE m \in ToSet(inbox[r])
        BY <2>4, <2>5, <4>1, SentBefore
      <4>2. CASE m = msg
        BY <1>3, <2>4, <2>5, <4>2, StepsOutcome
      <4> QED BY <2>3, <4>1, <4>2
    <3>2. OwnMonitors'
      BY <2>5, StepsOutcome DEF QueuesInv, OwnMonitors, SameHoldings
    <3>3. OwnQueues'
      BY <2>1 DEF QueuesInv, OwnQueues, OwnQueue
    <3> QED BY <2>3, <3>1, <3>2, <3>3 DEF QueuesInv
  <2>7. Subscribers' = Subscribers /\ hung_up' = hung_up /\ poisoned' = Fails(name)
    BY <1>5, <2>1 DEF Subscribers, Ids, Listeners
  <2>10. ~Fails(name) => poisoned' = FALSE /\ poisoned = FALSE
    <3>1. poisoned \in BOOLEAN /\ Fails(name) \in BOOLEAN
      BY DEF IInv, Typed, Fails
    <3> QED BY <1>7, <2>7, <3>1
  <2>8. ASSUME readers # {} PROVE msg \in {o[2] : o \in Owed'}
    <3>1. PICK x : x \in readers
      BY <2>8
    <3>2. <<x, msg>> \in Owed' /\ <<x, msg>>[2] = msg
      BY <2>3, <3>1
    <3> QED BY <3>2
  <2>9. Seen
    <3>1. CASE Fails(name)
      <4>1. name \in Names /\ (name = LOGGER \/ Subscribers[name] \cap hung_up # {})
        BY <1>7, <3>1, WhoIsGone
      <4>2. readers \in SUBSET Subscribers[name]
        BY <2>3, <4>1 DEF Subscribers
      <4>3. Owed' = Owed \/ PS!Owe(readers)
        <5>1. CASE readers = {}
          BY <2>3, <5>1
        <5>2. CASE readers # {}
          BY <2>3, <2>8, <5>2 DEF PS!Owe
        <5> QED BY <5>1, <5>2
      <4>4. PS!PublishingFails(name)
        BY <1>7, <2>7, <3>1, <4>1, <4>2, <4>3 DEF PS!PublishingFails
      <4> QED BY <4>1, <4>4 DEF Seen, PS!PubSubNext
    <3>2. CASE ~Fails(name) /\ readers = {}
      <4>1. Owed' = Owed
        BY <2>3, <3>2
      <4> QED BY <2>7, <2>10, <3>2, <4>1 DEF Seen, PS!pubSubVars
    <3>3. CASE ~Fails(name) /\ readers # {}
      <4>1. name \in Names /\ readers = Subscribers[name]
        BY <2>3, <3>3 DEF Subscribers
      <4>2. PS!Owe(Subscribers[name])
        BY <2>3, <2>8, <3>3, <4>1 DEF PS!Owe
      <4>3. PS!Publish(name)
        BY <1>7, <2>7, <2>10, <3>3, <4>1, <4>2 DEF PS!Publish
      <4> QED BY <4>1, <4>3 DEF Seen, PS!PubSubNext
    <3> QED BY <3>1, <3>2, <3>3
  <2> QED BY <2>6, <2>9
<1> QED BY <1>6, <1>7

-----------------------------------------------------------------------------
(* Steps that nobody outside can see *)

\* Whichever way a request goes, it goes forward.
GoesOn(c, t) ==
    /\ t.left = client[c].left
    /\ \/ t.pc \in Resting
       \/ t.pc \in Answering /\ client[c].pc \notin Resting
       \/ t.pc = "log_request" /\ Stage(client[c]) = 0

LEMMA GoesOnward ==
    ASSUME IInv, NEW c \in Clients, NEW t, GoesOn(c, t)
    PROVE  Onward(c, t)
<1>1. Stage(client[c]) \in 0..4 /\ client[c].pc \in SessionPcs
  BY StageType, Holds DEF IsThread
<1>2. Stage(t) >= Stage(client[c])
  BY <1>1, StageOf DEF GoesOn
<1> QED BY <1>2 DEF GoesOn, Onward

\* A step of the thread alone, or one that also changes what only the threads
\* can see.
LEMMA AloneMapped ==
    ASSUME IInv, QueuesInv, NEW c \in Clients, NEW t, Becomes(c, t), IsThread(t), GoesOn(c, t),
           t.monitors = client[c].monitors, UNCHANGED <<channelVars, hung_up>>
    PROVE  QueuesInv' /\ Seen
BY GoesOnward, QuietMapped DEF channelVars

LEMMA GotoMapped ==
    ASSUME IInv, QueuesInv, NEW c \in Clients, NEW pc \in SessionPcs, Becomes(c, Goto(c, pc)),
           pc \in Resting \/ (pc \in Answering /\ client[c].pc \notin Resting)
               \/ (pc = "log_request" /\ Stage(client[c]) = 0),
           UNCHANGED <<channelVars, hung_up>>
    PROVE  QueuesInv' /\ Seen
<1> DEFINE u == Goto(c, pc)
<1>1. /\ IsThread(u) /\ u.pc = pc /\ SameHoldings(client[c], u) /\ u.left = client[c].left
  BY Holds, GotoOutcome
<1>2. Becomes(c, u)
  OBVIOUS
<1> HIDE DEF u
<1>3. GoesOn(c, u)
  BY <1>1 DEF GoesOn
<1> QED BY <1>1, <1>2, <1>3, AloneMapped DEF SameHoldings

LEMMA PanicMapped ==
    ASSUME IInv, QueuesInv, NEW c \in Clients, Becomes(c, Goto(c, "panicked")),
           UNCHANGED <<channelVars, hung_up>>
    PROVE  QueuesInv' /\ Seen
BY GotoMapped DEF SessionPcs, Resting

LEMMA LoopEndMapped ==
    ASSUME IInv, QueuesInv, NEW c \in Clients, Becomes(c, LoopEnd(client[c])),
           UNCHANGED <<channelVars, hung_up>>
    PROVE  QueuesInv' /\ Seen
<1> DEFINE u == LoopEnd(client[c])
<1>1. /\ IsThread(u) /\ SameHoldings(client[c], u) /\ u.left = client[c].left
      /\ u.pc \in {"top", "leaving"}
  BY Holds, LoopEndOutcome
<1>2. Becomes(c, u)
  OBVIOUS
<1> HIDE DEF u
<1>3. GoesOn(c, u)
  BY <1>1 DEF GoesOn, Resting
<1> QED BY <1>1, <1>2, <1>3, AloneMapped DEF SameHoldings

\* What a reply leads to.
LEMMA RepliesOnward ==
    ASSUME IInv, NEW c \in Clients, client[c].pc \notin Resting, NEW reply
    PROVE  LET u == Replies(c, reply)
           IN  IsThread(u) /\ SameHoldings(client[c], u) /\ GoesOn(c, u)
               /\ u.pc \in {"top", "leaving", "log_reply"}
<1>1. {"top", "leaving"} \subseteq Resting /\ "log_reply" \in Answering
  BY DEF Resting, Answering
<1>2. LET u == LoopEnd(client[c])
      IN  /\ IsThread(u) /\ SameHoldings(client[c], u) /\ u.left = client[c].left
          /\ u.pc \in {"top", "leaving"}
  BY Holds, LoopEndOutcome
<1> DEFINE u == Replies(c, reply)
<1>3. \/ u = LoopEnd(client[c])
      \/ /\ IsThread(u) /\ SameHoldings(client[c], u)
         /\ u.pc = "log_reply" /\ u.left = client[c].left
  BY Holds, RepliesOutcome
<1> HIDE DEF u
<1>4. IsThread(u) /\ SameHoldings(client[c], u) /\ GoesOn(c, u)
      /\ u.pc \in {"top", "leaving", "log_reply"}
  BY <1>1, <1>2, <1>3 DEF GoesOn
<1> QED BY <1>4 DEF u

LEMMA RepliesMapped ==
    ASSUME IInv, QueuesInv, NEW c \in Clients, client[c].pc \notin Resting, NEW reply,
           Becomes(c, Replies(c, reply)), UNCHANGED <<channelVars, hung_up>>
    PROVE  QueuesInv' /\ Seen
<1> DEFINE u == Replies(c, reply)
<1>1. IsThread(u) /\ SameHoldings(client[c], u) /\ GoesOn(c, u) /\ Becomes(c, u)
  BY RepliesOnward
<1> HIDE DEF u
<1> QED BY <1>1, AloneMapped DEF SameHoldings

LEMMA AcceptMapped ==
    ASSUME IInv, QueuesInv, NEW c \in Clients, Accept(c)
    PROVE  QueuesInv' /\ Seen
<1>1. Becomes(c, Goto(c, "top")) /\ UNCHANGED <<channelVars, hung_up>>
  BY DEF Accept
<1> QED BY <1>1, GotoMapped DEF SessionPcs, Resting

LEMMA ReadTimeOutMapped ==
    ASSUME IInv, QueuesInv, NEW c \in Clients, ReadTimeOut(c)
    PROVE  QueuesInv' /\ Seen
<1> DEFINE u == Goto(c, "lock")
           t == [u EXCEPT !.timed = time_out(conf) > 0 /\ ~client[c].subscription_mode]
<1>1. Becomes(c, t) /\ UNCHANGED <<channelVars, hung_up>>
  BY DEF ReadTimeOut, sharedVars
<1>2. /\ IsThread(u) /\ SameHoldings(client[c], u) /\ u.pc = "lock" /\ u.left = client[c].left
  BY Holds, GotoOutcome DEF SessionPcs
<1> HIDE DEF u
<1>3. t = [u EXCEPT !.timed = time_out(conf) > 0 /\ ~client[c].subscription_mode]
  OBVIOUS
<1> HIDE DEF t
<1>4. IsThread(t) /\ t.monitors = u.monitors /\ t.pc = u.pc /\ t.left = u.left
  BY <1>2, <1>3 DEF IsThread
<1> QED BY <1>1, <1>2, <1>4, AloneMapped DEF SameHoldings, GoesOn, Resting

LEMMA LockLoggerMapped ==
    ASSUME IInv, QueuesInv, NEW c \in Clients, LockLogger(c)
    PROVE  QueuesInv' /\ Seen
<1> DEFINE u == Goto(c, "store")
           t == [u EXCEPT !.verbose = verbose(conf)]
<1>1. Becomes(c, t) /\ UNCHANGED <<channelVars, hung_up>>
  BY DEF LockLogger
<1>2. /\ IsThread(u) /\ SameHoldings(client[c], u) /\ u.pc = "store" /\ u.left = client[c].left
  BY Holds, GotoOutcome DEF SessionPcs
<1> HIDE DEF u
<1>3. t = [u EXCEPT !.verbose = verbose(conf)]
  OBVIOUS
<1> HIDE DEF t
<1>4. IsThread(t) /\ t.monitors = u.monitors /\ t.pc = u.pc /\ t.left = u.left
  BY <1>2, <1>3 DEF IsThread
<1> QED BY <1>1, <1>2, <1>4, AloneMapped DEF SameHoldings, GoesOn, Resting

LEMMA StoreVerboseMapped ==
    ASSUME IInv, QueuesInv, NEW c \in Clients, StoreVerbose(c)
    PROVE  QueuesInv' /\ Seen
<1> DEFINE u == Goto(c, "reading")
           t == [u EXCEPT !.verbose = FALSE]
<1>1. Becomes(c, t) /\ UNCHANGED <<channelVars, hung_up>>
  BY DEF StoreVerbose
<1>2. /\ IsThread(u) /\ SameHoldings(client[c], u) /\ u.pc = "reading" /\ u.left = client[c].left
  BY Holds, GotoOutcome DEF SessionPcs
<1> HIDE DEF u
<1>3. t = [u EXCEPT !.verbose = FALSE]
  OBVIOUS
<1> HIDE DEF t
<1>4. IsThread(t) /\ t.monitors = u.monitors /\ t.pc = u.pc /\ t.left = u.left
  BY <1>2, <1>3 DEF IsThread
<1> QED BY <1>1, <1>2, <1>4, AloneMapped DEF SameHoldings, GoesOn, Resting

\* The next request has a number of its own: what was sent before is of others.
LEMMA ReadRequestMapped ==
    ASSUME IInv, QueuesInv, NEW c \in Clients, ReadRequest(c)
    PROVE  QueuesInv' /\ Seen
<1>1. PICK words \in Sends[c] :
        LET request == Parse(words, client[c].subscription_mode)
        IN  Becomes(c, [Goto(c, FirstStep(request)) EXCEPT !.request = request, !.left = @ - 1])
  BY DEF ReadRequest
<1> DEFINE request == Parse(words, client[c].subscription_mode)
           pc == FirstStep(request)
           u == Goto(c, pc)
           t == [u EXCEPT !.request = request, !.left = u.left - 1]
<1>2. Becomes(c, t)
  BY <1>1
<1>3. client[c].left > 0 /\ UNCHANGED <<channelVars, hung_up>>
  BY DEF ReadRequest, sharedVars
<1> HIDE DEF request
<1>4. pc \in SessionPcs
  BY FirstStepOutcome DEF SessionPcs
<1> HIDE DEF pc
<1>5. IsThread(u) /\ u.pc = pc /\ SameHoldings(client[c], u) /\ u.left = client[c].left
  BY <1>4, Holds, GotoOutcome
<1>6. client[c].left \in Nat
  BY Holds DEF IsThread
<1> HIDE DEF u
<1>7. t = [u EXCEPT !.request = request, !.left = u.left - 1] /\ u.left - 1 \in Nat
  BY <1>3, <1>5, <1>6
<1> HIDE DEF t
<1>8. IsThread(t) /\ t.monitors = u.monitors /\ t.left = u.left - 1
  BY <1>5, <1>7 DEF IsThread
<1>9. Onward(c, t)
  BY <1>5, <1>6, <1>8 DEF Onward
<1> QED BY <1>2, <1>3, <1>5, <1>8, <1>9, QuietMapped DEF SameHoldings, channelVars

LEMMA ReadFailsMapped ==
    ASSUME IInv, QueuesInv, NEW c \in Clients, ReadFails(c)
    PROVE  QueuesInv' /\ Seen
<1> DEFINE v == [client[c] EXCEPT !.a_live = FALSE]
           t == LoopEnd(v)
<1>1. Becomes(c, t) /\ UNCHANGED <<channelVars, hung_up>>
  BY DEF ReadFails
<1>2. IsThread(client[c]) /\ v = [client[c] EXCEPT !.a_live = FALSE]
  BY Holds
<1> HIDE DEF v
<1>3. IsThread(v) /\ ~v.a_live /\ v.left = client[c].left /\ v.monitors = client[c].monitors
  BY <1>2 DEF IsThread
<1>4. IsThread(t) /\ SameHoldings(v, t) /\ t.left = v.left /\ t.pc = "leaving"
  BY <1>3, LoopEndOutcome
<1> HIDE DEF t
<1> QED BY <1>1, <1>3, <1>4, AloneMapped DEF SameHoldings, GoesOn, Resting

LEMMA CloseMapped ==
    ASSUME IInv, QueuesInv, NEW c \in Clients, Close(c)
    PROVE  QueuesInv' /\ Seen
<1> DEFINE v == Replies(c, Success)
           t == [v EXCEPT !.a_live = FALSE]
<1>1. client[c].pc = "execute" /\ Becomes(c, t) /\ UNCHANGED <<channelVars, hung_up>>
  BY DEF Close, Executes, At
<1>2. IsThread(v) /\ SameHoldings(client[c], v) /\ GoesOn(c, v)
  BY <1>1, RepliesOnward DEF Resting
<1> HIDE DEF v
<1>3. t = [v EXCEPT !.a_live = FALSE]
  OBVIOUS
<1> HIDE DEF t
<1>4. IsThread(t) /\ t.monitors = v.monitors /\ t.pc = v.pc /\ t.left = v.left
  BY <1>2, <1>3 DEF IsThread
<1> QED BY <1>1, <1>2, <1>4, AloneMapped DEF SameHoldings, GoesOn

LEMMA RefuseInvalidMapped ==
    ASSUME IInv, QueuesInv, NEW c \in Clients, RefuseInvalid(c)
    PROVE  QueuesInv' /\ Seen
BY LoopEndMapped DEF RefuseInvalid, sharedVars

LEMMA ExecuteQueryMapped ==
    ASSUME IInv, QueuesInv, NEW c \in Clients, ExecuteQuery(c)
    PROVE  QueuesInv' /\ Seen
<1>1. /\ client[c].pc = "execute" /\ UNCHANGED <<channelVars, hung_up>>
      /\ \/ \E reply : Becomes(c, Replies(c, reply))
         \/ Becomes(c, Goto(c, "panicked"))
         \/ client[c].request.kind = "Touch" /\ Becomes(c, Goto(c, "log_request"))
  BY DEF ExecuteQuery, Executes, At, Panic, Requests, sharedVars
<1>2. client[c].pc \notin Resting
  BY <1>1 DEF Resting
<1>3. ASSUME NEW reply, Becomes(c, Replies(c, reply)) PROVE QueuesInv' /\ Seen
  BY <1>1, <1>2, <1>3, RepliesMapped
<1>4. ASSUME client[c].request.kind = "Touch", Becomes(c, Goto(c, "log_request"))
      PROVE  QueuesInv' /\ Seen
  <2>1. Stage(client[c]) = 0 /\ "log_request" \in SessionPcs
    BY <1>1, <1>4, StageOf DEF SessionPcs
  <2> QED BY <1>1, <1>4, <2>1, GotoMapped
<1>5. ASSUME Becomes(c, Goto(c, "panicked")) PROVE QueuesInv' /\ Seen
  BY <1>1, <1>5, PanicMapped
<1> QED BY <1>1, <1>3, <1>4, <1>5, Zenon

LEMMA ExecuteServerMapped ==
    ASSUME IInv, QueuesInv, NEW c \in Clients, ExecuteServer(c)
    PROVE  QueuesInv' /\ Seen
<1>1. /\ client[c].pc = "execute" /\ UNCHANGED <<channelVars, hung_up>>
      /\ \E reply : Becomes(c, Replies(c, reply))
  BY Zenon DEF ExecuteServer, Executes, At
<1>2. client[c].pc \notin Resting
  BY <1>1 DEF Resting
<1> QED BY <1>1, <1>2, RepliesMapped

\* A turn under the channels' mutex that only reads.
LEMMA LookMapped ==
    ASSUME IInv, QueuesInv, NEW c \in Clients, NEW t, LocksChannels(c, UNCHANGED channelVars, t),
           IsThread(t), GoesOn(c, t), t.monitors = client[c].monitors, UNCHANGED hung_up
    PROVE  QueuesInv' /\ Seen
<1>1. UNCHANGED <<channelVars, hung_up>> /\ (Becomes(c, t) \/ Becomes(c, Goto(c, "panicked")))
  BY DEF LocksChannels, Panic
<1>2. ASSUME Becomes(c, t) PROVE QueuesInv' /\ Seen
  BY <1>1, <1>2, AloneMapped
<1>3. ASSUME Becomes(c, Goto(c, "panicked")) PROVE QueuesInv' /\ Seen
  BY <1>1, <1>3, PanicMapped
<1> QED BY <1>1, <1>2, <1>3

LEMMA CountNextMapped ==
    ASSUME IInv, QueuesInv, NEW c \in Clients, CountNext(c)
    PROVE  QueuesInv' /\ Seen
<1> DEFINE l == client[c]
           count == subcriptors_number(Head(l.todo))
           t == [l EXCEPT !.todo = Tail(@), !.reply.counts = Append(@, count)]
<1>1. l.pc = "counting" /\ UNCHANGED hung_up /\ l.pc \notin Resting
  BY DEF CountNext, At, sharedVars, Resting
<1>2. \/ Becomes(c, Replies(c, l.reply)) /\ UNCHANGED channelVars
      \/ l.todo # <<>> /\ LocksChannels(c, UNCHANGED channelVars, t)
  BY DEF CountNext
<1>3. CASE Becomes(c, Replies(c, l.reply)) /\ UNCHANGED channelVars
  BY <1>1, <1>3, RepliesMapped
<1>4. CASE l.todo # <<>> /\ LocksChannels(c, UNCHANGED channelVars, t)
  <2>1. Tail(l.todo) \in Seq(Names) /\ IsThread(l)
    BY <1>4, TailNames
  <2>2. t = [l EXCEPT !.todo = Tail(l.todo),
                      !.reply = [l.reply EXCEPT !.counts = Append(l.reply.counts, count)]]
    BY <2>1 DEF IsThread
  <2> HIDE DEF t, count
  <2>3. IsThread(t) /\ t.monitors = l.monitors /\ t.pc = l.pc /\ t.left = l.left
    BY <2>1, <2>2 DEF IsThread
  <2>4. GoesOn(c, t)
    BY <1>1, <2>3 DEF GoesOn, Answering
  <2> QED BY <1>1, <1>4, <2>3, <2>4, LookMapped
<1> QED BY <1>2, <1>3, <1>4

LEMMA ExecuteSuscriberMapped ==
    ASSUME IInv, QueuesInv, NEW c \in Clients, ExecuteSuscriber(c)
    PROVE  QueuesInv' /\ Seen
<1> DEFINE request == client[c].request
           u1 == Goto(c, "subscribing")
           t1 == [u1 EXCEPT !.todo = request.names]
           todo == IF request.names = <<>> THEN client[c].subscriptions ELSE request.names
           u2 == Goto(c, "unsubscribing")
           t2 == [u2 EXCEPT !.todo = todo]
<1>1. /\ client[c].pc = "execute" /\ request.kind = "Suscriber" /\ UNCHANGED <<channelVars, hung_up>>
      /\ Becomes(c, t1) \/ Becomes(c, t2) \/ Becomes(c, Goto(c, "add_monitor"))
  BY DEF ExecuteSuscriber, Executes, At, Requests, sharedVars
<1>2. request.names \in Seq(Names) /\ todo \in Seq(Names)
  <2>1. request.names \in Seq(Names)
    BY <1>1, NamesRead DEF NamedIn
  <2> QED BY <2>1, Holds DEF IsThread
<1>3. {"subscribing", "unsubscribing", "add_monitor"} \subseteq SessionPcs \cap Answering
      /\ client[c].pc \notin Resting
  BY <1>1 DEF SessionPcs, Answering, Resting
<1>4. ASSUME Becomes(c, t1) PROVE QueuesInv' /\ Seen
  <2>1. IsThread(u1) /\ u1.pc = "subscribing" /\ SameHoldings(client[c], u1) /\ u1.left = client[c].left
    BY <1>3, Holds, GotoOutcome
  <2> HIDE DEF u1, request
  <2>2. IsThread(t1) /\ t1.pc = u1.pc /\ SameHoldings(u1, t1) /\ t1.left = u1.left
    BY <1>2, <2>1, TodoOutcome
  <2> HIDE DEF t1
  <2> QED BY <1>1, <1>3, <1>4, <2>1, <2>2, AloneMapped DEF SameHoldings, GoesOn
<1>5. ASSUME Becomes(c, t2) PROVE QueuesInv' /\ Seen
  <2>1. IsThread(u2) /\ u2.pc = "unsubscribing" /\ SameHoldings(client[c], u2) /\ u2.left = client[c].left
    BY <1>3, Holds, GotoOutcome
  <2> HIDE DEF u2, todo
  <2>2. IsThread(t2) /\ t2.pc = u2.pc /\ SameHoldings(u2, t2) /\ t2.left = u2.left
    BY <1>2, <2>1, TodoOutcome
  <2> HIDE DEF t2
  <2> QED BY <1>1, <1>3, <1>5, <2>1, <2>2, AloneMapped DEF SameHoldings, GoesOn
<1>6. ASSUME Becomes(c, Goto(c, "add_monitor")) PROVE QueuesInv' /\ Seen
  BY <1>1, <1>3, <1>6, GotoMapped
<1> HIDE DEF t1, t2
<1> QED BY <1>1, <1>4, <1>5, <1>6

LEMMA SubscribeEndsMapped ==
    ASSUME IInv, QueuesInv, NEW c \in Clients, SubscribeEnds(c)
    PROVE  QueuesInv' /\ Seen
<1> DEFINE v == Replies(c, Success)
           t == [v EXCEPT !.subscription_mode = TRUE]
<1>1. client[c].pc = "subscribing" /\ Becomes(c, t) /\ UNCHANGED <<channelVars, hung_up>>
  BY DEF SubscribeEnds, At, sharedVars
<1>2. IsThread(v) /\ SameHoldings(client[c], v) /\ GoesOn(c, v)
  BY <1>1, RepliesOnward DEF Resting
<1> HIDE DEF v
<1>3. t = [v EXCEPT !.subscription_mode = TRUE]
  OBVIOUS
<1> HIDE DEF t
<1>4. IsThread(t) /\ t.monitors = v.monitors /\ t.pc = v.pc /\ t.left = v.left
  BY <1>2, <1>3 DEF IsThread
<1> QED BY <1>1, <1>2, <1>4, AloneMapped DEF SameHoldings, GoesOn

LEMMA UnsubscribeEndsMapped ==
    ASSUME IInv, QueuesInv, NEW c \in Clients, UnsubscribeEnds(c)
    PROVE  QueuesInv' /\ Seen
<1>1. /\ client[c].pc = "unsubscribing" /\ Becomes(c, Replies(c, Success))
      /\ UNCHANGED <<channelVars, hung_up>>
  BY DEF UnsubscribeEnds, At, sharedVars
<1>2. client[c].pc \notin Resting
  BY <1>1 DEF Resting
<1> QED BY <1>1, <1>2, RepliesMapped

-----------------------------------------------------------------------------
(* Steps that send *)

LEMMA OwnMessage ==
    ASSUME NEW c, NEW name, NEW what
    PROVE  LET m == Message(c, name, what)
           IN  m.name = name /\ m.from = c /\ m.request = client[c].left /\ m.what = what
BY DEF Message

LEMMA LogRequestMapped ==
    ASSUME IInv, QueuesInv, NEW c \in Clients, LogRequest(c)
    PROVE  QueuesInv' /\ Seen
<1> DEFINE t == Goto(c, "tell_monitors")
           m == Message(c, LOGGER, "request")
<1>1. /\ Tells(c, LOGGER, "request", t) /\ client[c].pc = "log_request" /\ UNCHANGED sharedVars
  BY DEF LogRequest, At
<1>2. Calm(c, t)
  BY <1>1, GotoCalm
<1>3. IsThread(t) /\ t.pc = "tell_monitors" /\ t.left = client[c].left
  BY Holds, GotoOutcome DEF SessionPcs
<1> HIDE DEF t
<1>4. Stage(client[c]) = 0 /\ Stage(t) = 1
  BY <1>1, <1>3, StageOf
<1>5. m.name = LOGGER /\ m.request = client[c].left /\ m.what = "request"
  BY OwnMessage
<1>6. client[c].left \in Nat
  BY Holds DEF IsThread
<1>7. ~MayBeSent(client[c], m) /\ MayBeSent(t, m)
  BY <1>3, <1>4, <1>5, <1>6 DEF MayBeSent
<1> QED BY <1>1, <1>2, <1>3, <1>4, <1>7, TellMapped DEF Whats

LEMMA TellMonitorsMapped ==
    ASSUME IInv, QueuesInv, NEW c \in Clients, TellMonitors(c)
    PROVE  QueuesInv' /\ Seen
<1> DEFINE u == Replies(c, Integer(1))
           v == Goto(c, "execute")
           t == IF Requests(c, "Touch") THEN u ELSE v
           m == Message(c, MONITOR, "request")
<1>1. Tells(c, MONITOR, "request", t) /\ client[c].pc = "tell_monitors" /\ UNCHANGED sharedVars
  BY DEF TellMonitors, At
<1>2. Calm(c, u)
  BY <1>1, RepliesCalm DEF Ending
<1>3. Blocked(c) => Fails(MONITOR)
  BY DEF Blocked, Fails
<1>4. ~Blocked(c) => Calm(c, v)
  BY <1>1, GotoCalm
<1>5. ~Fails(MONITOR) => Calm(c, t)
  BY <1>2, <1>3, <1>4
<1>6. IsThread(v) /\ v.pc = "execute" /\ v.left = client[c].left /\ v.request = client[c].request
  BY Holds, GotoOutcome DEF SessionPcs
<1>7. GoesOn(c, u) /\ u.pc \in {"top", "leaving", "log_reply"}
  BY <1>1, RepliesOnward DEF Resting
<1> HIDE DEF u, v
<1>8. Stage(client[c]) = 1 /\ Stage(t) \in 2..4 /\ t.left = client[c].left
  <2>1. Requests(c, "Touch") => t = u
    OBVIOUS
  <2>2. ~Requests(c, "Touch") => t = v
    OBVIOUS
  <2>3. Stage(u) \in {3, 4} /\ u.left = client[c].left
    BY <1>7, StageOf DEF GoesOn, Resting, Answering
  <2>4. ~Requests(c, "Touch") => Stage(v) = 2
    BY <1>6, StageOf DEF Requests
  <2> QED BY <1>1, <1>6, <2>1, <2>2, <2>3, <2>4, StageOf
<1> HIDE DEF t
<1>9. m.name = MONITOR /\ m.request = client[c].left /\ m.what = "request"
  BY OwnMessage
<1>10. client[c].left \in Nat /\ MONITOR # LOGGER
  BY Holds DEF IsThread, MONITOR, LOGGER
<1>11. ~MayBeSent(client[c], m) /\ MayBeSent(t, m)
  BY <1>8, <1>9, <1>10 DEF MayBeSent
<1> QED BY <1>1, <1>5, <1>8, <1>11, TellMapped DEF Whats

LEMMA LogReplyMapped ==
    ASSUME IInv, QueuesInv, NEW c \in Clients, LogReply(c)
    PROVE  QueuesInv' /\ Seen
<1> DEFINE t == LoopEnd(client[c])
           m == Message(c, LOGGER, "reply")
<1>1. /\ Tells(c, LOGGER, "reply", t) /\ client[c].pc = "log_reply" /\ UNCHANGED sharedVars
  BY DEF LogReply, At
<1>2. Calm(c, t)
  BY <1>1, LoopEndCalm
<1>3. t.pc \in {"top", "leaving"} /\ t.left = client[c].left
  BY Holds, LoopEndOutcome
<1> HIDE DEF t
<1>4. Stage(client[c]) = 3 /\ Stage(t) = 4
  BY <1>1, <1>3, StageOf DEF Resting, Answering
<1>5. m.name = LOGGER /\ m.request = client[c].left /\ m.what = "reply"
  BY OwnMessage
<1>6. client[c].left \in Nat
  BY Holds DEF IsThread
<1>7. ~MayBeSent(client[c], m) /\ MayBeSent(t, m)
  BY <1>3, <1>4, <1>5, <1>6 DEF MayBeSent
<1> QED BY <1>1, <1>2, <1>3, <1>4, <1>7, TellMapped DEF Whats

LEMMA PublishMapped ==
    ASSUME IInv, QueuesInv, NEW c \in Clients, NEW name, NEW reply,
           Tells(c, name, "text", Replies(c, reply)), UNCHANGED sharedVars,
           client[c].pc = "execute", client[c].request.kind = "Publisher"
    PROVE  QueuesInv' /\ Seen
<1> DEFINE t == Replies(c, reply)
           m == Message(c, name, "text")
<1>1. Tells(c, name, "text", t)
  OBVIOUS
<1>2. Calm(c, t)
  BY RepliesCalm DEF Ending
<1>3. GoesOn(c, t) /\ t.pc \in {"top", "leaving", "log_reply"}
  BY RepliesOnward DEF Resting
<1> HIDE DEF t
<1>4. Stage(client[c]) = 2 /\ Stage(t) \in {3, 4} /\ t.left = client[c].left
  BY <1>3, StageOf DEF Resting, Answering, GoesOn
<1>5. m.request = client[c].left /\ m.what = "text"
  BY OwnMessage
<1>6. client[c].left \in Nat
  BY Holds DEF IsThread
<1>7. ~MayBeSent(client[c], m) /\ MayBeSent(t, m)
  BY <1>4, <1>5, <1>6 DEF MayBeSent
<1> QED BY <1>1, <1>2, <1>4, <1>7, TellMapped DEF Whats

LEMMA ExecutePublisherMapped ==
    ASSUME IInv, QueuesInv, NEW c \in Clients, ExecutePublisher(c)
    PROVE  QueuesInv' /\ Seen
<1> DEFINE request == client[c].request.request
           counted == [type |-> "Counts", counts |-> <<>>]
           t == [Goto(c, "counting") EXCEPT !.todo = request.names, !.reply = counted]
<1>1. client[c].pc = "execute" /\ UNCHANGED <<sharedVars, hung_up>> /\ client[c].request.kind = "Publisher"
      /\ client[c].pc \notin Resting
  BY DEF ExecutePublisher, Executes, At, Requests, sharedVars, Resting
<1>2. \/ \E reply : Tells(c, request.chanel, "text", Replies(c, reply))
      \/ \E reply : LocksChannels(c, UNCHANGED channelVars, Replies(c, reply))
      \/ request.op = "NumSub" /\ Becomes(c, t) /\ UNCHANGED channelVars
  BY Zenon DEF ExecutePublisher
<1>3. ASSUME NEW reply, Tells(c, request.chanel, "text", Replies(c, reply)) PROVE QueuesInv' /\ Seen
  <2> HIDE DEF request
  <2> QED BY <1>1, <1>3, PublishMapped
<1>4. ASSUME NEW reply, LocksChannels(c, UNCHANGED channelVars, Replies(c, reply))
      PROVE  QueuesInv' /\ Seen
  <2> DEFINE u == Replies(c, reply)
  <2>1. IsThread(u) /\ SameHoldings(client[c], u) /\ GoesOn(c, u)
    BY <1>1, RepliesOnward
  <2>2. LocksChannels(c, UNCHANGED channelVars, u)
    BY <1>4
  <2> HIDE DEF u
  <2> QED BY <1>1, <2>1, <2>2, LookMapped DEF SameHoldings
<1>5. ASSUME request.op = "NumSub", Becomes(c, t), UNCHANGED channelVars PROVE QueuesInv' /\ Seen
  <2> DEFINE u == Goto(c, "counting")
  <2>1. request.names \in Seq(Names)
    BY <1>1, <1>5, NamesRead DEF NamedIn
  <2>2. IsThread(u) /\ u.pc = "counting" /\ SameHoldings(client[c], u) /\ u.left = client[c].left
    BY Holds, GotoOutcome DEF SessionPcs
  <2> HIDE DEF request, counted, u
  <2>3. t = [u EXCEPT !.todo = request.names, !.reply = counted]
    BY DEF u
  <2> HIDE DEF t
  <2>4. IsThread(t) /\ t.monitors = u.monitors /\ t.pc = u.pc /\ t.left = u.left
    BY <2>1, <2>2, <2>3 DEF IsThread
  <2> QED BY <1>1, <1>5, <2>2, <2>4, AloneMapped DEF SameHoldings, GoesOn, Answering
<1> QED BY <1>2, <1>3, <1>4, <1>5

-----------------------------------------------------------------------------
(* Steps that take from the queues *)

LEMMA Received ==
    ASSUME IInv, QueuesInv, NEW r \in Receivers, Receive(r), UNCHANGED <<client, hung_up>>
    PROVE  QueuesInv' /\ Seen
<1>1. /\ inbox[r] # <<>> /\ inbox' = [inbox EXCEPT ![r] = Tail(inbox[r])]
      /\ UNCHANGED <<channels, poisoned, dropped>>
  BY DEF Receive
<1>2. inbox \in [Receivers -> Seq(Messages)] /\ inbox[r] \in Seq(Messages)
  BY DEF QueuesInv, InboxTyped
<1>3. /\ inbox' \in [Receivers -> Seq(Messages)] /\ inbox'[r] = Tail(inbox[r])
      /\ \A q \in Receivers \ {r} : inbox'[q] = inbox[q]
  BY <1>1, <1>2
<1> DEFINE first == Head(inbox[r])
<1>4. ToSet(inbox[r]) = {first} \cup ToSet(inbox'[r])
  <2> DEFINE s == inbox[r]
  <2>1. /\ Len(s) \in Nat \ {0} /\ DOMAIN s = 1..Len(s) /\ s[1] = first
        /\ Tail(s) \in Seq(Messages) /\ Len(Tail(s)) = Len(s) - 1
        /\ \A i \in 1..Len(Tail(s)) : Tail(s)[i] = s[i + 1]
    BY <1>1, <1>2, LenProperties, EmptySeq, HeadTailProperties
  <2>2. DOMAIN Tail(s) = 1..Len(s) - 1
    BY <2>1, LenProperties
  <2> DEFINE rest == Tail(s)
  <2> HIDE DEF s, rest, first
  <2>3. ASSUME NEW x \in ToSet(s) PROVE x \in {first} \cup ToSet(rest)
    <3>1. PICK i \in 1..Len(s) : x = s[i]
      BY <2>1 DEF ToSet
    <3>2. CASE i = 1
      BY <2>1, <3>1, <3>2
    <3>3. CASE i # 1
      <4>1. i - 1 \in 1..Len(s) - 1 /\ rest[i - 1] = s[i - 1 + 1]
        BY <2>1, <3>3 DEF rest
      <4>2. i - 1 + 1 = i
        OBVIOUS
      <4> QED BY <2>2, <3>1, <4>1, <4>2 DEF ToSet, rest
    <3> QED BY <3>2, <3>3
  <2>4. ASSUME NEW x \in ToSet(rest) PROVE x \in ToSet(s)
    <3>1. PICK i \in 1..Len(s) - 1 : x = rest[i]
      BY <2>2 DEF ToSet, rest
    <3>2. i + 1 \in 1..Len(s) /\ x = s[i + 1]
      BY <2>1, <3>1 DEF rest
    <3> QED BY <2>1, <3>2 DEF ToSet
  <2>5. first \in ToSet(s)
    BY <2>1 DEF ToSet
  <2> QED BY <1>3, <2>3, <2>4, <2>5 DEF s, rest
<1> HIDE DEF first
<1>5. \A q \in Receivers : ToSet(inbox'[q]) \subseteq ToSet(inbox[q])
  BY <1>3, <1>4
<1>6. QueuesInv'
  <2>1. Fresh'
    BY <1>5 DEF QueuesInv, Fresh, MayBeSent
  <2>2. OwnQueues' /\ OwnMonitors' /\ InboxTyped'
    BY <1>1, <1>3 DEF QueuesInv, OwnQueues, OwnQueue, OwnMonitors, InboxTyped
  <2> QED BY <2>1, <2>2 DEF QueuesInv
<1> DEFINE o == <<r[1], first>>
<1>7. o \in Owed /\ (Owed' = Owed \/ Owed' = Owed \ {o})
  <2>1. o \in Owed
    BY <1>4, OwedPairs
  <2>2. \A p : p \in Owed' => p \in Owed
    <3> SUFFICES ASSUME NEW p \in Owed' PROVE p \in Owed
      OBVIOUS
    <3>1. PICK q \in Receivers : \E m \in ToSet(inbox'[q]) : p = <<q[1], m>>
      BY OwedPairs
    <3>2. \E m \in ToSet(inbox[q]) : p = <<q[1], m>>
      BY <1>5, <3>1
    <3> QED BY <3>2, OwedPairs
  <2>3. \A p : p \in Owed /\ p # o => p \in Owed'
    <3> SUFFICES ASSUME NEW p \in Owed, p # o PROVE p \in Owed'
      OBVIOUS
    <3>1. PICK q \in Receivers : \E m \in ToSet(inbox[q]) : p = <<q[1], m>>
      BY OwedPairs
    <3>2. PICK m \in ToSet(inbox[q]) : p = <<q[1], m>>
      BY <3>1
    <3>3. m \in ToSet(inbox'[q])
      BY <1>3, <1>4, <3>2
    <3> QED BY <3>2, <3>3, OwedPairs
  <2> HIDE DEF o
  <2> QED BY <2>1, <2>2, <2>3
<1>8. Subscribers' = Subscribers
  BY <1>1 DEF Subscribers, Ids, Listeners
<1>9. r[1] \in Clients /\ o[1] = r[1] /\ hung_up' = hung_up /\ poisoned' = poisoned
  BY <1>1, SessionsAssumption DEF ClientReceivers
<1> HIDE DEF o
<1>10. ASSUME Owed' = Owed PROVE Seen
  <2>1. UNCHANGED PS!pubSubVars
    BY <1>8, <1>9, <1>10 DEF PS!pubSubVars
  <2> QED BY <2>1 DEF Seen
<1>11. ASSUME Owed' = Owed \ {o} PROVE Seen
  <2>1. PS!HandOver(r[1])
    BY <1>7, <1>8, <1>9, <1>11 DEF PS!HandOver
  <2>2. PS!PubSubNext
    BY <1>9, <2>1, Zenon DEF PS!PubSubNext
  <2> QED BY <2>2 DEF Seen
<1> QED BY <1>6, <1>7, <1>10, <1>11

LEMMA RelayMessageMapped ==
    ASSUME IInv, QueuesInv, NEW r \in ClientReceivers, RelayMessage(r)
    PROVE  QueuesInv' /\ Seen
BY Received, SessionsAssumption DEF RelayMessage, sharedVars

LEMMA MonitorMessageMapped ==
    ASSUME IInv, QueuesInv, NEW c \in Clients, MonitorMessage(c)
    PROVE  QueuesInv' /\ Seen
<1>1. Queue(c) \in Receivers
  BY QueueType DEF MonitorMessage, At, UnderWay
<1> QED BY <1>1, Received DEF MonitorMessage, sharedVars

\* A queue goes away with what is in it.
LEMMA Emptied ==
    ASSUME IInv, QueuesInv, NEW c \in Clients, NEW t, Becomes(c, t), IsThread(t), GoesOn(c, t),
           t.monitors = client[c].monitors, DropReceiver(Queue(c)), UNCHANGED hung_up,
           c \in hung_up \/ poisoned
    PROVE  QueuesInv' /\ Seen
<1> DEFINE r == Queue(c)
<1>1. /\ inbox' = [q \in Receivers |-> IF q = r THEN <<>> ELSE inbox[q]]
      /\ UNCHANGED <<channels, poisoned>> /\ r[1] = c
  BY DEF DropReceiver, Queue
<1> HIDE DEF r
<1>2. ToSet(<<>>) = {} /\ <<>> \in Seq(Messages)
  BY DEF ToSet
<1>3. \A q \in Receivers : /\ q = r => ToSet(inbox'[q]) = {}
                           /\ q # r => inbox'[q] = inbox[q]
  BY <1>1, <1>2
<1>4. InboxTyped' /\ OwnQueues'
  <2>1. inbox' \in [Receivers -> Seq(Messages)]
    BY <1>1, <1>2 DEF QueuesInv, InboxTyped
  <2> QED BY <1>1, <2>1 DEF QueuesInv, InboxTyped, OwnQueues, OwnQueue
<1>5. Onward(c, t) /\ Steps(c, t)
  BY GoesOnward, Holds DEF Steps, IsThread, GoesOn
<1>6. QueuesInv'
  BY <1>3, <1>4, <1>5, QueuesKept DEF QueuesInv, OwnMonitors
<1>7. \A p : p \in Owed' => p \in Owed
  <2> SUFFICES ASSUME NEW p \in Owed' PROVE p \in Owed
    OBVIOUS
  <2>1. PICK q \in Receivers : \E m \in ToSet(inbox'[q]) : p = <<q[1], m>>
    BY OwedPairs
  <2>2. \E m \in ToSet(inbox[q]) : p = <<q[1], m>>
    BY <1>3, <2>1
  <2> QED BY <2>2, OwedPairs
<1>8. \A p \in Owed \ Owed' : p[1] = c
  <2> SUFFICES ASSUME NEW p \in Owed, p[1] # c PROVE p \in Owed'
    OBVIOUS
  <2>1. PICK q \in Receivers : \E m \in ToSet(inbox[q]) : p = <<q[1], m>>
    BY OwedPairs
  <2>2. q # r
    BY <1>1, <2>1
  <2>3. \E m \in ToSet(inbox'[q]) : p = <<q[1], m>>
    BY <1>3, <2>1, <2>2
  <2> QED BY <2>3, OwedPairs
<1>9. Subscribers' = Subscribers
  BY <1>1 DEF Subscribers, Ids, Listeners
<1>10. PS!Lose(c)
  BY <1>1, <1>7, <1>8, <1>9 DEF PS!Lose
<1> QED BY <1>6, <1>10 DEF Seen, PS!PubSubNext

LEMMA MonitorFailsMapped ==
    ASSUME IInv, QueuesInv, NEW c \in Clients, MonitorFails(c)
    PROVE  QueuesInv' /\ Seen
<1> DEFINE t == LoopEnd(client[c])
<1>1. /\ c \in hung_up /\ DropReceiver(Queue(c)) /\ Becomes(c, t) /\ UNCHANGED hung_up
  BY DEF MonitorFails, sharedVars
<1>2. /\ IsThread(t) /\ SameHoldings(client[c], t) /\ t.left = client[c].left
      /\ t.pc \in {"top", "leaving"}
  BY Holds, LoopEndOutcome
<1> HIDE DEF t
<1> QED BY <1>1, <1>2, Emptied DEF SameHoldings, GoesOn, Resting

LEMMA HangUpMapped ==
    ASSUME IInv, QueuesInv, NEW c \in Clients, HangUp(c)
    PROVE  QueuesInv' /\ Seen
<1>1. /\ c \notin hung_up /\ hung_up' = hung_up \cup {c}
      /\ UNCHANGED <<client, channels, inbox, poisoned>>
  BY DEF HangUp, channelVars
<1>2. QueuesInv'
  BY <1>1 DEF QueuesInv, InboxTyped, Fresh, MayBeSent, OwnQueues, OwnQueue, OwnMonitors
<1>3. Subscribers' = Subscribers /\ Owed' = Owed
  BY <1>1 DEF Subscribers, Ids, Listeners, Owed
<1>4. PS!Close(c)
  BY <1>1, <1>3 DEF PS!Close
<1> QED BY <1>2, <1>4 DEF Seen, PS!PubSubNext

LEMMA StillMapped ==
    ASSUME IInv, QueuesInv, UNCHANGED <<client, channels, inbox, poisoned, hung_up>>
    PROVE  QueuesInv' /\ Seen
<1>1. QueuesInv'
  BY DEF QueuesInv, InboxTyped, Fresh, MayBeSent, OwnQueues, OwnQueue, OwnMonitors
<1> QED BY <1>1, Unseen DEF Seen

-----------------------------------------------------------------------------
(* Steps that change who listens *)

\* The thread of c goes on with another list under `name`; nothing is sent.
LEMMA RelistedMapped ==
    ASSUME IInv, QueuesInv, NEW c \in Clients, NEW name \in Names, NEW list, NEW t,
           Becomes(c, t), IsThread(t), GoesOn(c, t), \A r \in t.monitors : r[1] = c,
           Relisted(name, list), UNCHANGED inbox,
           \A l \in ToSet(list) : l \in ToSet(Listeners(name)) \/ OwnQueue(name, l)
    PROVE  /\ QueuesInv' /\ Owed' = Owed
           /\ Subscribers' = [Subscribers EXCEPT ![name] = {l.id : l \in ToSet(list)} \cap Clients]
<1>1. \A n : Listeners(n)' = IF n = name THEN list ELSE Listeners(n)
  BY DEF Relisted
<1>2. OwnQueues'
  <2>1. ASSUME NEW n \in DOMAIN channels', NEW l \in ToSet(channels'[n]) PROVE OwnQueue(n, l)
    <3>1. channels'[n] = Listeners(n)'
      BY DEF Listeners
    <3>2. \A k : \A m \in ToSet(Listeners(k)) : OwnQueue(k, m)
      <4>1. ToSet(<<>>) = {}
        BY DEF ToSet
      <4> QED BY <4>1 DEF QueuesInv, OwnQueues, Listeners
    <3>3. CASE n = name
      BY <1>1, <2>1, <3>1, <3>2, <3>3
    <3>4. CASE n # name
      BY <1>1, <2>1, <3>1, <3>2, <3>4
    <3> QED BY <3>3, <3>4
  <2> QED BY <2>1 DEF OwnQueues, OwnQueue
<1>3. Onward(c, t) /\ Steps(c, t)
  BY GoesOnward, Holds DEF Steps, IsThread, GoesOn
<1>4. QueuesInv'
  <2>1. InboxTyped' /\ \A r \in Receivers : ToSet(inbox'[r]) \subseteq ToSet(inbox[r])
    BY DEF QueuesInv, InboxTyped
  <2> QED BY <1>2, <1>3, <2>1, QueuesKept
<1>5. Owed' = Owed
  BY DEF Owed
<1>6. Subscribers' = [Subscribers EXCEPT ![name] = {l.id : l \in ToSet(list)} \cap Clients]
  <2>1. \A n \in Names : Ids(n)' = IF n = name THEN {l.id : l \in ToSet(list)} ELSE Ids(n)
    BY <1>1 DEF Ids
  <2> DEFINE ids == {l.id : l \in ToSet(list)}
  <2>2. Subscribers' = [n \in Names |-> Ids(n)' \cap Clients]
    BY DEF Subscribers
  <2> HIDE DEF ids
  <2>3. Subscribers' = [n \in Names |-> IF n = name THEN ids \cap Clients ELSE Ids(n) \cap Clients]
    BY <2>1, <2>2 DEF ids
  <2> QED BY <2>3 DEF Subscribers, ids
<1> QED BY <1>4, <1>5, <1>6

LEMMA SubscribeMapped ==
    ASSUME IInv, QueuesInv, NEW c \in Clients, NEW name \in Names, NEW t, Becomes(c, t), IsThread(t),
           client[c].pc \in {"subscribing", "add_monitor"}, GoesOn(c, t),
           \A r \in t.monitors : r[1] = c,
           name \notin ToSet(client[c].subscriptions), ~poisoned,
           subscribe(name, Queue(c), c), UNCHANGED hung_up
    PROVE  QueuesInv' /\ Seen
<1> DEFINE old == Listeners(name)
           new == Append(old, Listener(c, Queue(c)))
<1>1. Typed /\ UNCHANGED <<poisoned, inbox>>
  BY DEF IInv, subscribe
<1>2. Relisted(name, new)
  BY <1>1, SubscribeOutcome
<1>3. Queue(c) \in Receivers
  BY QueueType DEF UnderWay
<1>4. /\ old \in Seq(ListenerType) /\ Listener(c, Queue(c)) \in ListenerType
      /\ Listener(c, Queue(c)).id = c /\ OwnQueue(name, Listener(c, Queue(c)))
  BY <1>1, <1>3, ListenersType DEF Listener, ListenerType, AllReceivers, OwnQueue, Queue
<1>5. ToSet(new) = ToSet(old) \cup {Listener(c, Queue(c))}
  BY <1>4, AppendSet
<1> HIDE DEF new
<1>6. /\ QueuesInv' /\ Owed' = Owed
      /\ Subscribers' = [Subscribers EXCEPT ![name] = {l.id : l \in ToSet(new)} \cap Clients]
  BY <1>1, <1>2, <1>4, <1>5, RelistedMapped
<1>7. {l.id : l \in ToSet(new)} = Ids(name) \cup {c}
  BY <1>4, <1>5 DEF Ids
<1>8. Subscribers[name] = Ids(name) \cap Clients
  BY DEF Subscribers
<1>9. Subscribers' = [Subscribers EXCEPT ![name] = Subscribers[name] \cup {c}]
  <2>1. (Ids(name) \cup {c}) \cap Clients = Subscribers[name] \cup {c}
    BY <1>8
  <2> QED BY <1>6, <1>7, <2>1
<1>10. c \notin Subscribers[name]
  <2>1. Registered(c) /\ Expected(c) = client[c].subscriptions
    BY DEF IInv, AllRegistered, At, Expected
  <2> QED BY <1>8, <2>1 DEF Registered
<1>11. PS!Subscribe(c, name)
  BY <1>1, <1>6, <1>9, <1>10 DEF PS!Subscribe
<1> QED BY <1>6, <1>11 DEF Seen, PS!PubSubNext

LEMMA UnsubscribeMapped ==
    ASSUME IInv, QueuesInv, NEW c \in Clients, NEW name \in Names, NEW t, Becomes(c, t), IsThread(t),
           client[c].pc # "panicked", GoesOn(c, t), t.monitors = client[c].monitors,
           name \in ToSet(Expected(c)), ~poisoned, unsubscribe(name, c), UNCHANGED hung_up
    PROVE  QueuesInv' /\ Seen
<1> DEFINE old == Listeners(name)
           new == Without(old, {l \in ToSet(old) : l.id = c})
<1>1. Typed /\ UNCHANGED <<poisoned, inbox>>
  BY DEF IInv, unsubscribe
<1>2. Relisted(name, new)
  BY <1>1, UnsubscribeOutcome
<1>3. old \in Seq(ListenerType)
  BY <1>1, ListenersType
<1>4. ToSet(new) = {l \in ToSet(old) : l.id # c}
  <2>1. ToSet(new) = ToSet(old) \ {l \in ToSet(old) : l.id = c}
    BY <1>3, WithoutProperties
  <2> QED BY <2>1
<1> HIDE DEF new
<1>5. \A r \in t.monitors : r[1] = c
  BY DEF QueuesInv, OwnMonitors
<1>6. /\ QueuesInv' /\ Owed' = Owed
      /\ Subscribers' = [Subscribers EXCEPT ![name] = {l.id : l \in ToSet(new)} \cap Clients]
  BY <1>1, <1>2, <1>4, <1>5, RelistedMapped
<1>7. {l.id : l \in ToSet(new)} = Ids(name) \ {c}
  BY <1>4 DEF Ids
<1>8. Subscribers[name] = Ids(name) \cap Clients
  BY DEF Subscribers
<1>9. Subscribers' = [Subscribers EXCEPT ![name] = Subscribers[name] \ {c}]
  <2>1. (Ids(name) \ {c}) \cap Clients = Subscribers[name] \ {c}
    BY <1>8
  <2> QED BY <1>6, <1>7, <2>1
<1>10. c \in Subscribers[name]
  BY <1>8 DEF IInv, AllRegistered, Registered, At
<1>11. PS!Unsubscribe(c, name)
  BY <1>1, <1>6, <1>9, <1>10 DEF PS!Unsubscribe
<1> QED BY <1>6, <1>11 DEF Seen, PS!PubSubNext

LEMMA SubscribeNextMapped ==
    ASSUME IInv, QueuesInv, NEW c \in Clients, SubscribeNext(c)
    PROVE  QueuesInv' /\ Seen
<1> DEFINE l == client[c]
           name == Head(l.todo)
           skip == [l EXCEPT !.todo = Tail(l.todo)]
           t == [l EXCEPT !.todo = Tail(l.todo), !.subscriptions = Append(l.subscriptions, name)]
<1>1. l.pc = "subscribing" /\ l.todo # <<>> /\ UNCHANGED hung_up
      /\ l.pc \notin Resting /\ l.pc \in Answering
  BY DEF SubscribeNext, At, sharedVars, Resting, Answering
<1>2. name \in Names /\ Tail(l.todo) \in Seq(Names) /\ IsThread(l) /\ l.subscriptions \in Seq(Names)
  BY <1>1, TailNames DEF IsThread
<1>3. \/ Becomes(c, skip) /\ UNCHANGED channelVars
      \/ /\ name \notin ToSet(l.subscriptions) /\ ~poisoned
         /\ subscribe(name, Queue(c), c) /\ Becomes(c, t)
      \/ poisoned /\ DropReceiver(Queue(c)) /\ Becomes(c, Goto(c, "panicked"))
  <2>1. IsThread(l)
    BY <1>2
  <2> QED BY <2>1 DEF SubscribeNext, Panic, IsThread
<1>4. ASSUME Becomes(c, skip), UNCHANGED channelVars PROVE QueuesInv' /\ Seen
  <2>1. IsThread(skip) /\ SameHoldings(l, skip) /\ skip.pc = l.pc /\ skip.left = l.left
    BY <1>2, TodoOutcome
  <2> HIDE DEF skip
  <2> QED BY <1>1, <1>4, <2>1, AloneMapped DEF SameHoldings, GoesOn
<1>5. ASSUME name \notin ToSet(l.subscriptions), ~poisoned, subscribe(name, Queue(c), c), Becomes(c, t)
      PROVE  QueuesInv' /\ Seen
  <2>1. Append(l.subscriptions, name) \in Seq(Names)
    BY <1>2
  <2>2. t = [l EXCEPT !.todo = Tail(l.todo), !.subscriptions = Append(l.subscriptions, name)]
    OBVIOUS
  <2> HIDE DEF t, name
  <2>3. IsThread(t) /\ t.left = l.left /\ t.monitors = l.monitors /\ t.pc = l.pc
    BY <1>2, <2>1, <2>2 DEF IsThread
  <2>4. GoesOn(c, t) /\ \A r \in t.monitors : r[1] = c
    BY <1>1, <2>3 DEF GoesOn, QueuesInv, OwnMonitors
  <2> QED BY <1>1, <1>2, <1>5, <2>3, <2>4, SubscribeMapped
<1>6. ASSUME poisoned, DropReceiver(Queue(c)), Becomes(c, Goto(c, "panicked")) PROVE QueuesInv' /\ Seen
  <2> DEFINE u == Goto(c, "panicked")
  <2>1. IsThread(u) /\ u.pc = "panicked" /\ SameHoldings(l, u) /\ u.left = l.left
    BY <1>2, GotoOutcome DEF SessionPcs
  <2>2. Becomes(c, u)
    BY <1>6
  <2> HIDE DEF u
  <2> QED BY <1>1, <1>6, <2>1, <2>2, Emptied DEF SameHoldings, GoesOn, Resting
<1> HIDE DEF skip, t, name
<1> QED BY <1>3, <1>4, <1>5, <1>6

LEMMA AddMonitorMapped ==
    ASSUME IInv, QueuesInv, NEW c \in Clients, AddMonitor(c)
    PROVE  QueuesInv' /\ Seen
<1> DEFINE l == client[c]
           u == Goto(c, "monitoring")
           t == [u EXCEPT !.subscriptions = Append(l.subscriptions, MONITOR),
                          !.monitors = l.monitors \cup {Queue(c)}]
<1>1. IsThread(l) /\ l.subscriptions \in Seq(Names) /\ MONITOR \in Names
  BY Holds, ChannelsAssumption DEF IsThread
<1>2. IsThread(u) /\ u.pc = "monitoring" /\ SameHoldings(l, u) /\ u.left = l.left
  BY <1>1, GotoOutcome DEF SessionPcs
<1>3. l.pc = "add_monitor" /\ UNCHANGED hung_up /\ l.pc \notin Resting
  BY DEF AddMonitor, At, sharedVars, Resting
<1>4. \/ ~poisoned /\ subscribe(MONITOR, Queue(c), c) /\ Becomes(c, t)
      \/ UNCHANGED channelVars /\ Becomes(c, Goto(c, "panicked"))
  <2>1. u.subscriptions = l.subscriptions /\ u.monitors = l.monitors
    BY <1>2 DEF SameHoldings
  <2>2. t = [Goto(c, "monitoring") EXCEPT !.subscriptions = Append(@, MONITOR),
                                          !.monitors = @ \cup {Queue(c)}]
    BY <1>2, <2>1 DEF IsThread
  <2> HIDE DEF t, u, l
  <2> QED BY <2>2 DEF AddMonitor, LocksChannels, Panic
<1>5. ASSUME ~poisoned, subscribe(MONITOR, Queue(c), c), Becomes(c, t) PROVE QueuesInv' /\ Seen
  <2>1. Append(l.subscriptions, MONITOR) \in Seq(Names)
    BY <1>1
  <2>2. t = [u EXCEPT !.subscriptions = Append(l.subscriptions, MONITOR),
                      !.monitors = l.monitors \cup {Queue(c)}]
    OBVIOUS
  <2>3. MONITOR \notin ToSet(l.subscriptions)
    BY <1>3 DEF IInv, MonitorsOnce, At
  <2> HIDE DEF t, u, MONITOR
  <2>4. IsThread(t) /\ t.left = u.left /\ t.pc = u.pc /\ t.monitors = l.monitors \cup {Queue(c)}
    BY <1>2, <2>1, <2>2 DEF IsThread
  <2>5. GoesOn(c, t)
    BY <1>2, <1>3, <2>4 DEF GoesOn, Answering
  <2>6. \A r \in t.monitors : r[1] = c
    BY <2>4 DEF QueuesInv, OwnMonitors, Queue
  <2> QED BY <1>1, <1>3, <1>5, <2>3, <2>4, <2>5, <2>6, SubscribeMapped
<1>6. ASSUME UNCHANGED channelVars, Becomes(c, Goto(c, "panicked")) PROVE QueuesInv' /\ Seen
  BY <1>3, <1>6, PanicMapped
<1> HIDE DEF t, u
<1> QED BY <1>4, <1>5, <1>6

LEMMA UnsubscribeNextMapped ==
    ASSUME IInv, QueuesInv, NEW c \in Clients, UnsubscribeNext(c)
    PROVE  QueuesInv' /\ Seen
<1> DEFINE l == client[c]
           name == Head(l.todo)
           skip == [l EXCEPT !.todo = Tail(l.todo)]
           own == Without(l.subscriptions, {name})
           t == [l EXCEPT !.todo = Tail(l.todo), !.subscriptions = own]
<1>1. l.pc = "unsubscribing" /\ l.todo # <<>> /\ UNCHANGED hung_up
      /\ l.pc \notin Resting /\ l.pc \in Answering
  BY DEF UnsubscribeNext, At, sharedVars, Resting, Answering
<1>2. name \in Names /\ Tail(l.todo) \in Seq(Names) /\ IsThread(l) /\ l.subscriptions \in Seq(Names)
  BY <1>1, TailNames DEF IsThread
<1>3. \/ Becomes(c, skip) /\ UNCHANGED channelVars
      \/ /\ name \in ToSet(l.subscriptions) /\ ~poisoned
         /\ unsubscribe(name, c) /\ Becomes(c, t)
      \/ UNCHANGED channelVars /\ Becomes(c, Goto(c, "panicked"))
  <2>1. IsThread(l)
    BY <1>2
  <2> QED BY <2>1 DEF UnsubscribeNext, LocksChannels, Panic, IsThread
<1>4. ASSUME Becomes(c, skip), UNCHANGED channelVars PROVE QueuesInv' /\ Seen
  <2>1. IsThread(skip) /\ SameHoldings(l, skip) /\ skip.pc = l.pc /\ skip.left = l.left
    BY <1>2, TodoOutcome
  <2> HIDE DEF skip
  <2> QED BY <1>1, <1>4, <2>1, AloneMapped DEF SameHoldings, GoesOn
<1>5. ASSUME name \in ToSet(l.subscriptions), ~poisoned, unsubscribe(name, c), Becomes(c, t)
      PROVE  QueuesInv' /\ Seen
  <2>1. own \in Seq(Names)
    BY <1>2, WithoutProperties
  <2>2. t = [l EXCEPT !.todo = Tail(l.todo), !.subscriptions = own]
    OBVIOUS
  <2> HIDE DEF t, name, own
  <2>3. IsThread(t) /\ t.left = l.left /\ t.monitors = l.monitors /\ t.pc = l.pc
    BY <1>2, <2>1, <2>2 DEF IsThread
  <2>4. GoesOn(c, t) /\ Expected(c) = l.subscriptions
    BY <1>1, <2>3 DEF GoesOn, Expected
  <2> QED BY <1>1, <1>2, <1>5, <2>3, <2>4, UnsubscribeMapped
<1>6. ASSUME UNCHANGED channelVars, Becomes(c, Goto(c, "panicked")) PROVE QueuesInv' /\ Seen
  BY <1>1, <1>6, PanicMapped
<1> HIDE DEF skip, t, name
<1> QED BY <1>3, <1>4, <1>5, <1>6

LEMMA LeaveNextMapped ==
    ASSUME IInv, QueuesInv, NEW c \in Clients, LeaveNext(c)
    PROVE  QueuesInv' /\ Seen
<1> DEFINE l == client[c]
           name == Head(l.todo)
           t == [l EXCEPT !.todo = Tail(l.todo)]
<1>1. l.pc = "leaving" /\ UNCHANGED hung_up /\ IsThread(l) /\ l.pc \in Resting
  BY Holds DEF LeaveNext, At, sharedVars, Resting
<1>2. \/ Becomes(c, Goto(c, "gone")) /\ UNCHANGED channelVars
      \/ l.todo # <<>> /\ ~poisoned /\ unsubscribe(name, c) /\ Becomes(c, t)
      \/ UNCHANGED channelVars /\ Becomes(c, Goto(c, "panicked"))
  BY <1>1 DEF LeaveNext, LocksChannels, Panic, IsThread
<1>3. ASSUME Becomes(c, Goto(c, "gone")), UNCHANGED channelVars PROVE QueuesInv' /\ Seen
  BY <1>1, <1>3, GotoMapped DEF SessionPcs, Resting
<1>4. ASSUME l.todo # <<>>, ~poisoned, unsubscribe(name, c), Becomes(c, t) PROVE QueuesInv' /\ Seen
  <2>1. name \in Names /\ Tail(l.todo) \in Seq(Names) /\ l.todo \in Seq(Names)
    BY <1>1, <1>4, TailNames DEF IsThread
  <2>2. IsThread(t) /\ SameHoldings(l, t) /\ t.pc = l.pc /\ t.left = l.left
    BY <1>1, <2>1, TodoOutcome
  <2>3. name \in ToSet(l.todo) /\ Expected(c) = l.todo
    <3>1. l.todo[1] = name /\ 1 \in DOMAIN l.todo
      BY <1>4, <2>1, HeadTailProperties, LenProperties, EmptySeq
    <3> QED BY <1>1, <3>1 DEF ToSet, Expected
  <2> HIDE DEF t, name
  <2> QED BY <1>1, <1>4, <2>1, <2>2, <2>3, UnsubscribeMapped DEF SameHoldings, GoesOn
<1>5. ASSUME UNCHANGED channelVars, Becomes(c, Goto(c, "panicked")) PROVE QueuesInv' /\ Seen
  BY <1>1, <1>5, PanicMapped
<1> HIDE DEF t, name
<1> QED BY <1>2, <1>3, <1>4, <1>5

-----------------------------------------------------------------------------
(* The refinement *)

LEMMA QueuesInitially ==
    ASSUME SessionsInit
    PROVE  QueuesInv /\ PS!PubSubInit
<1>1. /\ IInv /\ poisoned = FALSE /\ inbox = [r \in Receivers |-> <<>>] /\ hung_up = {}
      /\ client = [c \in Clients |->
                    [pc |-> "unborn", a_live |-> TRUE, subscription_mode |-> FALSE, timed |-> FALSE,
                     verbose |-> FALSE, request |-> NoRequest, reply |-> Nil, todo |-> <<>>,
                     subscriptions |-> <<>>, monitors |-> {}, left |-> MaxRequests[c]]]
      /\ channels = [n \in {MONITOR, LOGGER} |->
                        IF n = LOGGER THEN <<Listener(LOGGER_SPECIAL_ID, LoggerReceiver)>> ELSE <<>>]
  BY Initially DEF SessionsInit, ChannelsInit
<1> DEFINE log == Listener(LOGGER_SPECIAL_ID, LoggerReceiver)
<1>2. ToSet(<<>>) = {} /\ ToSet(<<log>>) = {log} /\ <<>> \in Seq(Messages)
  BY DEF ToSet
<1>3. InboxTyped /\ Fresh
  BY <1>1, <1>2 DEF InboxTyped, Fresh
<1>4. OwnMonitors
  <2>1. \A c \in Clients : client[c].monitors = {}
    BY <1>1
  <2> QED BY <2>1 DEF OwnMonitors
<1>5. MONITOR # LOGGER
  BY DEF MONITOR, LOGGER
<1>6. DOMAIN channels = {MONITOR, LOGGER} /\ channels[LOGGER] = <<log>> /\ channels[MONITOR] = <<>>
  BY <1>1, <1>5
<1> HIDE DEF log
<1>7. OwnQueues
  BY <1>2, <1>6 DEF OwnQueues, OwnQueue, log
<1>8. \A n : Ids(n) \cap Clients = {}
  <2>1. log.id = LOGGER_SPECIAL_ID
    BY DEF log, Listener
  <2>2. \A n : ToSet(Listeners(n)) \subseteq {log}
    BY <1>2, <1>6 DEF Listeners
  <2> QED BY <2>1, <2>2, SessionsAssumption DEF Ids
<1>9. Subscribers = [n \in Names |-> {}]
  BY <1>8 DEF Subscribers
<1>10. Owed = {}
  BY <1>1, <1>2, OwedPairs
<1>11. PS!PubSubInit
  BY <1>1, <1>9, <1>10 DEF PS!PubSubInit
<1> QED BY <1>3, <1>4, <1>7, <1>11 DEF QueuesInv

LEMMA StepsMapped ==
    ASSUME IInv, QueuesInv, [SessionsNext]_sessionVars
    PROVE  QueuesInv' /\ Seen
<1>1. CASE LoggerOpens
  BY <1>1, StillMapped DEF LoggerOpens
<1>2. ASSUME NEW r \in ClientReceivers, RelayMessage(r) PROVE QueuesInv' /\ Seen
  BY <1>2, RelayMessageMapped
<1>3. ASSUME NEW c \in Clients, Accept(c) \/ HangUp(c) \/ ReadRequest(c) PROVE QueuesInv' /\ Seen
  BY <1>3, AcceptMapped, HangUpMapped, ReadRequestMapped
<1>4. ASSUME NEW c \in Clients, Thread(c) PROVE QueuesInv' /\ Seen
  <2>1. CASE \/ ReadTimeOut(c) \/ LockLogger(c) \/ StoreVerbose(c) \/ LogRequest(c)
             \/ TellMonitors(c) \/ LogReply(c) \/ RefuseInvalid(c) \/ ExecuteQuery(c)
    BY <2>1, ReadTimeOutMapped, LockLoggerMapped, StoreVerboseMapped, LogRequestMapped,
       TellMonitorsMapped, LogReplyMapped, RefuseInvalidMapped, ExecuteQueryMapped
  <2>2. CASE \/ Close(c) \/ ExecuteServer(c) \/ ExecutePublisher(c) \/ CountNext(c)
             \/ ExecuteSuscriber(c) \/ SubscribeNext(c) \/ SubscribeEnds(c)
    BY <2>2, CloseMapped, ExecuteServerMapped, ExecutePublisherMapped, CountNextMapped,
       ExecuteSuscriberMapped, SubscribeNextMapped, SubscribeEndsMapped
  <2>3. CASE \/ UnsubscribeNext(c) \/ UnsubscribeEnds(c) \/ AddMonitor(c)
             \/ MonitorMessage(c) \/ MonitorFails(c) \/ ReadFails(c) \/ LeaveNext(c)
    BY <2>3, UnsubscribeNextMapped, UnsubscribeEndsMapped, AddMonitorMapped, MonitorMessageMapped,
       MonitorFailsMapped, ReadFailsMapped, LeaveNextMapped
  <2> QED BY <1>4, <2>1, <2>2, <2>3 DEF Thread
<1>5. CASE UNCHANGED sessionVars
  BY <1>5, StillMapped DEF sessionVars, channelVars, sharedVars
<1> QED BY <1>1, <1>2, <1>3, <1>4, <1>5 DEF SessionsNext

\* Threads, mutexes, queues and relays together do what publishing promises
\* (client.rs, request.rs, channels.rs): a message is owed at once to exactly
\* those who listen, is handed over once, and goes astray only with a connection
\* that is closed or after publishing has failed for good.
THEOREM SessionsImplementPubSub == SessionsSpec => ImplementsPubSub
<1>1. SessionsInit => QueuesInv /\ PS!PubSubInit
  BY QueuesInitially
<1>2. IInv /\ QueuesInv /\ [SessionsNext]_sessionVars
          => QueuesInv' /\ [PS!PubSubNext]_(PS!pubSubVars)
  BY StepsMapped DEF Seen
<1> QED BY <1>1, <1>2, Invariance, PTL DEF SessionsSpec, ImplementsPubSub, PS!PubSubSpec

====
