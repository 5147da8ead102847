---- MODULE Sessions ----
(***************************************************************************)
(* The server's threads other than the expiry ones: handle_client for each *)
(* connection (client.rs), the requests it executes (request.rs), the      *)
(* relay of a SUBSCRIBE, the logger.  They share the channels, the         *)
(* configuration, the counter of clients and the logger's verbosity.       *)
(*                                                                         *)
(* A thread's turn is: read the configuration, wait for a request, tell    *)
(* the log and the monitors, execute, tell the log of a valid reply, send  *)
(* it.  Each access to shared state is a step.  Writing to the connection  *)
(* is none: a failure is ignored, except by MONITOR.  What a database      *)
(* command does is in Database; here it replies, or its thread panics.     *)
(***************************************************************************)
EXTENDS RequestParser, ServerConf, Channels

CONSTANTS Clients,       \* the connections, named as get_next_id numbers them
          Nobody,        \* who holds the logger's mutex when it is free
          ConfigFile,    \* the parts of each line of redis.conf
          Sends,         \* what each client may send: sequences of words
          LogFails,      \* whether the log file may be unusable
          MaxRequests    \* bound: requests of each client

\* The n-th last request of a client may make a queue.
ClientReceivers == UNION {{c} \X (0..MaxRequests[c] - 1) : c \in Clients}

\* The channels a request names that works through them one by one.
NamedIn(request) ==
    IF request.kind = "Suscriber" THEN request.names
    ELSE IF request.kind = "Publisher" THEN
        IF request.request.op = "NumSub" THEN request.request.names ELSE <<>>
    ELSE <<>>

\* The names in use are all in Names.
ASSUME SessionsAssumption ==
    /\ MaxRequests \in [Clients -> Nat] /\ LogFails \in BOOLEAN
    /\ Receivers = ClientReceivers
    /\ \A c \in Clients : \A words \in Sends[c], mode \in BOOLEAN :
          NamedIn(Parse(words, mode)) \in Seq(Names)
    /\ Nobody \notin Clients /\ LOGGER_SPECIAL_ID \notin Clients

VARIABLES client,           \* each client thread
          conf,             \* the configuration
          logger,           \* the logger thread: starting, running or dead
          logger_verbose,   \* what it goes by
          logger_ref,       \* who holds the logger's mutex
          total_clients,
          hung_up           \* the peers that have closed their connection

sharedVars == <<conf, logger, logger_verbose, logger_ref, total_clients, hung_up>>
sessionVars == <<client, sharedVars, channelVars>>

NoRequest == [kind |-> "none"]

SessionsInit ==
    /\ conf = ReadFile(default_values(<<14>>, <<15>>), ConfigFile)
    /\ ChannelsInit
    /\ client = [c \in Clients |->
                    [pc |-> "unborn", a_live |-> TRUE, subscription_mode |-> FALSE, timed |-> FALSE,
                     verbose |-> FALSE, request |-> NoRequest, reply |-> Nil, todo |-> <<>>,
                     subscriptions |-> <<>>, monitors |-> {}, left |-> MaxRequests[c]]]
    /\ logger = "starting"
    /\ logger_verbose = verbose(conf)
    /\ logger_ref = Nobody
    /\ total_clients = 0
    /\ hung_up = {}

-----------------------------------------------------------------------------
(* Steps in general *)

At(c, pc) == client[c].pc = pc

Requests(c, kind) == client[c].request.kind = kind

Becomes(c, thread) == client' = [client EXCEPT ![c] = thread]

Goto(c, pc) == [client[c] EXCEPT !.pc = pc]

Panic(c) == Becomes(c, Goto(c, "panicked"))

\* The request is done with: the loop goes on, or all subscriptions are to be
\* taken back.
LoopEnd(thread) ==
    [thread EXCEPT !.request = NoRequest, !.reply = Nil,
                   !.pc = IF thread.a_live THEN "top" ELSE "leaving",
                   !.todo = IF thread.a_live THEN <<>> ELSE thread.subscriptions]

\* A reply that is no error is logged before it is sent.
Replies(c, reply) ==
    IF reply.type = "Err" THEN LoopEnd(client[c]) ELSE [client[c] EXCEPT !.reply = reply, !.pc = "log_reply"]

\* The queue a request of the client makes.
Queue(c) == <<c, client[c].left>>

\* A message is known by where it is sent, by whom, for which request, and by
\* what it says: the request, the reply to it, or the text it publishes.
Message(c, name, what) == [name |-> name, from |-> c, request |-> client[c].left, what |-> what]

\* A critical section of the channels; who finds the mutex poisoned panics.
LocksChannels(c, Section, thread) ==
    \/ ~poisoned /\ Section /\ Becomes(c, thread)
    \/ poisoned /\ UNCHANGED channelVars /\ Panic(c)

\* The same for sending, which may panic inside.
Tells(c, name, what, thread) ==
    \/ /\ ~poisoned /\ send(name, Message(c, name, what))
       /\ IF Fails(name) THEN Panic(c) ELSE Becomes(c, thread)
    \/ poisoned /\ UNCHANGED channelVars /\ Panic(c)

-----------------------------------------------------------------------------
(* Connections come and go *)

\* run: an id, one more client, a thread.
Accept(c) ==
    /\ At(c, "unborn")
    /\ Becomes(c, Goto(c, "top"))
    /\ total_clients' = total_clients + 1
    /\ UNCHANGED <<channelVars, conf, logger, logger_verbose, logger_ref, hung_up>>

HangUp(c) ==
    /\ c \notin hung_up /\ client[c].pc \notin {"unborn", "gone"}
    /\ hung_up' = hung_up \cup {c}
    /\ UNCHANGED <<client, channelVars, conf, logger, logger_verbose, logger_ref, total_clients>>

-----------------------------------------------------------------------------
(* The logger's thread *)

\* open_logger(&path).unwrap(): without the file the thread and its receiver end.
LoggerOpens ==
    /\ logger = "starting"
    /\ \/ logger' = "running" /\ UNCHANGED dropped
       \/ LogFails /\ logger' = "dead" /\ dropped' = dropped \cup {LoggerReceiver}
    /\ UNCHANGED <<client, channels, poisoned, inbox, conf, logger_verbose, logger_ref,
                   total_clients, hung_up>>

-----------------------------------------------------------------------------
(* The loop: configuration and requests *)

\* Only a client that is not in subscription mode is read from with a timeout.
ReadTimeOut(c) ==
    /\ At(c, "top")
    /\ Becomes(c, [Goto(c, "lock") EXCEPT
                      !.timed = time_out(conf) > 0 /\ ~client[c].subscription_mode])
    /\ UNCHANGED <<sharedVars, channelVars>>

\* Mutant: the verbosity is read before the logger is locked.
LockLoggerLate(c) ==
    /\ At(c, "lock")
    /\ Becomes(c, [Goto(c, "store") EXCEPT !.verbose = verbose(conf)])
    /\ UNCHANGED <<sharedVars, channelVars>>

\* set_verbose(config.verbose()), in two steps under the logger's mutex.
LockLogger(c) ==
    /\ At(c, "lock") /\ logger_ref = Nobody
    /\ logger_ref' = c
    /\ Becomes(c, [Goto(c, "store") EXCEPT !.verbose = verbose(conf)])
    /\ UNCHANGED <<channelVars, conf, logger, logger_verbose, total_clients, hung_up>>

\* Mutant: the guard lives on.
StoreVerboseHolding(c) ==
    /\ At(c, "store")
    /\ logger_verbose' = client[c].verbose
    /\ Becomes(c, [Goto(c, "reading") EXCEPT !.verbose = FALSE])
    /\ UNCHANGED <<channelVars, conf, logger, logger_ref, total_clients, hung_up>>

StoreVerbose(c) ==
    /\ At(c, "store")
    /\ logger_verbose' = client[c].verbose
    /\ logger_ref' = Nobody
    /\ Becomes(c, [Goto(c, "reading") EXCEPT !.verbose = FALSE])
    /\ UNCHANGED <<channelVars, conf, logger, total_clients, hung_up>>

\* Only what is executed is told of beforehand; TOUCH is executed first.
FirstStep(request) ==
    CASE request.kind \in {"CloseClient", "Touch", "Invalid"} -> "execute"
      [] OTHER -> "log_request"

\* A peer may have sent requests before it closed the connection.
ReadRequest(c) ==
    /\ At(c, "reading") /\ client[c].left > 0
    /\ \E words \in Sends[c] :
          LET request == Parse(words, client[c].subscription_mode)
          IN  Becomes(c, [Goto(c, FirstStep(request)) EXCEPT !.request = request, !.left = @ - 1])
    /\ UNCHANGED <<sharedVars, channelVars>>

\* Mutant: the loop goes on after an error.
ReadFailsAgain(c) ==
    /\ At(c, "reading") /\ (c \in hung_up \/ client[c].timed)
    /\ total_clients' = total_clients
    /\ Becomes(c, Goto(c, "top"))
    /\ UNCHANGED <<channelVars, conf, logger, logger_verbose, logger_ref, hung_up>>

\* Err(error): the end of the stream or a timeout.
ReadFails(c) ==
    /\ At(c, "reading") /\ (c \in hung_up \/ client[c].timed)
    /\ total_clients' = total_clients - 1
    /\ Becomes(c, LoopEnd([client[c] EXCEPT !.a_live = FALSE]))
    /\ UNCHANGED <<channelVars, conf, logger, logger_verbose, logger_ref, hung_up>>

\* emit_request
LogRequest(c) ==
    /\ At(c, "log_request")
    /\ Tells(c, LOGGER, "request", Goto(c, "tell_monitors"))
    /\ UNCHANGED sharedVars

TellMonitors(c) ==
    /\ At(c, "tell_monitors")
    /\ Tells(c, MONITOR, "request",
             IF Requests(c, "Touch") THEN Replies(c, Integer(1)) ELSE Goto(c, "execute"))
    /\ UNCHANGED sharedVars

\* send_logger(self.id, msg) of a valid reply, which then goes to the client.
LogReply(c) ==
    /\ At(c, "log_reply")
    /\ Tells(c, LOGGER, "reply",
             LoopEnd(client[c]))
    /\ UNCHANGED sharedVars

-----------------------------------------------------------------------------
(* Executing *)

Executes(c, kind) == At(c, "execute") /\ Requests(c, kind)

RefuseInvalid(c) ==
    /\ Executes(c, "Invalid")
    /\ Becomes(c, LoopEnd(client[c]))
    /\ UNCHANGED <<sharedVars, channelVars>>

\* Some of Database's commands panic; TOUCH goes on to be logged.
ExecuteQuery(c) ==
    /\ \/ /\ Executes(c, "DataBase")
          /\ \/ \E reply \in {Success, Err("DataBaseError")} : Becomes(c, Replies(c, reply))
             \/ Panic(c)
       \/ Executes(c, "Touch") /\ Becomes(c, Goto(c, "log_request"))
    /\ UNCHANGED <<sharedVars, channelVars>>

\* Mutant: the loop goes on after CLOSE.
CloseKeepsAlive(c) ==
    /\ Executes(c, "CloseClient")
    /\ total_clients' = total_clients - 1
    /\ Becomes(c, Replies(c, Success))
    /\ UNCHANGED <<channelVars, conf, logger, logger_verbose, logger_ref, hung_up>>

Close(c) ==
    /\ Executes(c, "CloseClient")
    /\ total_clients' = total_clients - 1
    /\ Becomes(c, [Replies(c, Success) EXCEPT !.a_live = FALSE])
    /\ UNCHANGED <<channelVars, conf, logger, logger_verbose, logger_ref, hung_up>>

\* exec_request
ExecuteServer(c) ==
    LET request == client[c].request.request
    IN  /\ Executes(c, "Server")
        /\ \/ /\ request.op = "ConfigGet"
              /\ Becomes(c, Replies(c, get_config(conf, request.pattern)))
              /\ UNCHANGED conf
           \/ /\ request.op = "ConfigSet"
              /\ Becomes(c, Replies(c, SetReply(conf, request.option, request.new_value)))
              /\ conf' = set_config(conf, request.option, request.new_value)
           \/ /\ request.op = "Info"
              /\ Becomes(c, Replies(c, [type |-> "Info", tcp_port |-> port(conf),
                                        clients |-> total_clients]))
              /\ UNCHANGED conf
        /\ UNCHANGED <<channelVars, logger, logger_verbose, logger_ref, total_clients, hung_up>>

ExecutePublisher(c) ==
    LET request == client[c].request.request
        pattern == IF request.pattern = <<>> THEN Names ELSE Head(request.pattern)
        counted == [type |-> "Counts", counts |-> <<>>]
    IN  /\ Executes(c, "Publisher")
        /\ \/ /\ request.op = "Publish"
              /\ Tells(c, request.chanel, "text",
                       Replies(c, Integer(subcriptors_number(request.chanel))))
           \/ /\ request.op = "Channels"
              /\ LocksChannels(c, UNCHANGED channelVars,
                               Replies(c, [type |-> "Names", names |-> get_channels(pattern)]))
           \/ /\ request.op = "NumSub"
              /\ Becomes(c, [Goto(c, "counting") EXCEPT !.todo = request.names, !.reply = counted])
              /\ UNCHANGED channelVars
        /\ UNCHANGED sharedVars

\* NUMSUB locks the channels again for each name.
CountNext(c) ==
    LET l == client[c]
    IN  /\ At(c, "counting")
        /\ \/ /\ l.todo = <<>> /\ Becomes(c, Replies(c, l.reply)) /\ UNCHANGED channelVars
           \/ /\ l.todo # <<>>
              /\ LocksChannels(c, UNCHANGED channelVars,
                     [l EXCEPT !.todo = Tail(@),
                               !.reply.counts = Append(@, subcriptors_number(Head(l.todo)))])
        /\ UNCHANGED sharedVars

-----------------------------------------------------------------------------
(* Subscribing *)

ExecuteSuscriber(c) ==
    LET request == client[c].request
        own == client[c].subscriptions
    IN  /\ Executes(c, "Suscriber")
        /\ \/ /\ request.op = "subscribe"
              /\ Becomes(c, [Goto(c, "subscribing") EXCEPT !.todo = request.names])
           \/ /\ request.op = "unsubscribe"
              /\ Becomes(c, [Goto(c, "unsubscribing") EXCEPT
                                !.todo = IF request.names = <<>> THEN own ELSE request.names])
           \/ /\ request.op = "monitor"
              /\ Becomes(c, Goto(c, "add_monitor"))
        /\ UNCHANGED <<sharedVars, channelVars>>

\* One name after the other, all with the queue of this request.  A thread that
\* panics here drops the receiver, which no relay has got yet.
SubscribeNext(c) ==
    LET l == client[c]
        name == Head(l.todo)
    IN  /\ At(c, "subscribing") /\ l.todo # <<>>
        /\ \/ /\ name \in ToSet(l.subscriptions)
              /\ Becomes(c, [l EXCEPT !.todo = Tail(@)])
              /\ UNCHANGED channelVars
           \/ /\ name \notin ToSet(l.subscriptions) /\ ~poisoned
              /\ subscribe(name, Queue(c), c)
              /\ Becomes(c, [l EXCEPT !.todo = Tail(@), !.subscriptions = Append(@, name)])
           \/ /\ name \notin ToSet(l.subscriptions) /\ poisoned
              /\ DropReceiver(Queue(c))
              /\ Panic(c)
        /\ UNCHANGED sharedVars

\* The relay thread is spawned.  Subscription mode begins, and never ends.
SubscribeEnds(c) ==
    /\ At(c, "subscribing") /\ client[c].todo = <<>>
    /\ Becomes(c, [Replies(c, Success) EXCEPT !.subscription_mode = TRUE])
    /\ UNCHANGED <<sharedVars, channelVars>>

UnsubscribeNext(c) ==
    LET l == client[c]
        name == Head(l.todo)
    IN  /\ At(c, "unsubscribing") /\ l.todo # <<>>
        /\ \/ /\ name \notin ToSet(l.subscriptions)
              /\ Becomes(c, [l EXCEPT !.todo = Tail(@)])
              /\ UNCHANGED channelVars
           \/ /\ name \in ToSet(l.subscriptions)
              /\ LocksChannels(c, unsubscribe(name, c),
                     [l EXCEPT !.todo = Tail(@),
                               !.subscriptions = Without(@, {name})])
        /\ UNCHANGED sharedVars

UnsubscribeEnds(c) ==
    /\ At(c, "unsubscribing") /\ client[c].todo = <<>>
    /\ Becomes(c, Replies(c, Success))
    /\ UNCHANGED <<sharedVars, channelVars>>

\* add_monitor, and the subscription noted.
AddMonitor(c) ==
    /\ At(c, "add_monitor")
    /\ LocksChannels(c, subscribe(MONITOR, Queue(c), c),
           [Goto(c, "monitoring") EXCEPT !.subscriptions = Append(@, MONITOR),
                                         !.monitors = @ \cup {Queue(c)}])
    /\ UNCHANGED sharedVars

\* The loop after a MONITOR ends only when a line cannot be written.  That is
\* found out with the second line after the peer has closed, if not the first.
MonitorMessage(c) ==
    /\ At(c, "monitoring")
    /\ Receive(Queue(c))
    /\ UNCHANGED <<client, sharedVars>>

MonitorFails(c) ==
    /\ At(c, "monitoring") /\ c \in hung_up
    /\ inbox[Queue(c)] # <<>>
    /\ DropReceiver(Queue(c))
    /\ Becomes(c, LoopEnd(client[c]))
    /\ UNCHANGED sharedVars

\* After the loop: self.subscriptions are taken back.
LeaveNext(c) ==
    /\ At(c, "leaving")
    /\ \/ client[c].todo = <<>> /\ Becomes(c, Goto(c, "gone")) /\ UNCHANGED channelVars
       \/ /\ client[c].todo # <<>>
          /\ LocksChannels(c, unsubscribe(Head(client[c].todo), c),
                           [client[c] EXCEPT !.todo = Tail(@)])
    /\ UNCHANGED sharedVars

-----------------------------------------------------------------------------
(* The relays *)

\* The queue r of a SUBSCRIBE has its relay: the request that made it is over.
Relays(r) ==
    LET c == r[1]
    IN  r \notin client[c].monitors /\ ~(At(c, "subscribing") /\ r = Queue(c))

\* Mutant: the relay ends when its peer has hung up.
RelayMessageEnds(r) ==
    /\ Relays(r)
    /\ IF r[1] \in hung_up THEN inbox[r] # <<>> /\ DropReceiver(r) ELSE Receive(r)
    /\ UNCHANGED <<client, sharedVars>>

\* A message is written to the connection, or lost if it is closed.
RelayMessage(r) ==
    /\ Relays(r)
    /\ Receive(r)
    /\ UNCHANGED <<client, sharedVars>>

-----------------------------------------------------------------------------

\* What the thread does without waiting for its peer.
Thread(c) == \/ ReadTimeOut(c) \/ LockLogger(c) \/ StoreVerbose(c) \/ LogRequest(c)
             \/ TellMonitors(c) \/ LogReply(c) \/ RefuseInvalid(c) \/ ExecuteQuery(c)
             \/ Close(c) \/ ExecuteServer(c) \/ ExecutePublisher(c) \/ CountNext(c)
             \/ ExecuteSuscriber(c) \/ SubscribeNext(c) \/ SubscribeEnds(c)
             \/ UnsubscribeNext(c) \/ UnsubscribeEnds(c) \/ AddMonitor(c)
             \/ MonitorMessage(c) \/ MonitorFails(c) \/ ReadFails(c) \/ LeaveNext(c)

SessionsNext ==
    \/ \E c \in Clients : Accept(c) \/ HangUp(c) \/ ReadRequest(c) \/ Thread(c)
    \/ \E r \in ClientReceivers : RelayMessage(r)
    \/ LoggerOpens

SessionsSpec == SessionsInit /\ [][SessionsNext]_sessionVars

\* Threads run, and a closed connection is noticed by who reads from it.
SessionsFairSpec == SessionsSpec /\ \A c \in Clients : WF_sessionVars(Thread(c))

-----------------------------------------------------------------------------

SessionPcs == {"unborn", "top", "lock", "store", "reading", "log_request", "tell_monitors",
               "execute", "log_reply", "counting", "subscribing", "unsubscribing",
               "add_monitor", "monitoring", "leaving", "gone", "panicked"}

\* With the types: the logger's mutex is held by the thread that is about to
\* store, and only by it.
SessionTypeOK ==
    /\ \A c \in Clients :
          /\ client[c].pc \in SessionPcs
          /\ ToSet(client[c].subscriptions) \cup ToSet(client[c].todo) \subseteq Names
          /\ client[c].left \in 0..MaxRequests[c]
          /\ At(c, "store") <=> logger_ref = c
    /\ DOMAIN channels \subseteq Names /\ LOGGER \in DOMAIN channels
    /\ dropped \subseteq Receivers \cup {LoggerReceiver}
    /\ logger \in {"starting", "running", "dead"}

\* The subscriptions a thread still answers for.
Expected(c) == IF client[c].pc \in {"leaving", "gone"} THEN client[c].todo
                                                      ELSE client[c].subscriptions

\* A client listens under the names in its own list, once under each, and under
\* no other: the two lists are kept in different places and nothing but the
\* order of the statements ties them.  A connection that ended listens to
\* nothing, unless its thread panicked.
SubscriptionsRegistered ==
    \A c \in Clients, n \in Names :
        client[c].pc # "panicked" =>
            Cardinality({i \in DOMAIN Listeners(n) : Listeners(n)[i].id = c})
                = IF n \in ToSet(Expected(c)) THEN 1 ELSE 0

\* The channels are unusable for everybody only after the logger died or a
\* MONITOR ended with its connection.  A subscriber that went away does no harm.
PoisonedByTheGone ==
    poisoned => \/ logger = "dead"
                \/ \E c \in hung_up : client[c].monitors \cap dropped # {}

\* The number INFO reports: no open connection is missing from it, and it is
\* too high only by the threads that panicked.
ClientsCounted ==
    LET panicked == {c \in Clients : At(c, "panicked")}
        served == {c \in Clients : client[c].a_live /\ ~At(c, "unborn")} \ panicked
    IN  total_clients \in Cardinality(served)..(Cardinality(served) + Cardinality(panicked))

\* The logger goes by the verbosity that is configured, as soon as every thread
\* that may just have changed it is back at reading.
Settled(c) == client[c].pc \notin {"top", "lock", "store", "log_reply", "panicked"}

VerboseFollowsConfig == (\A c \in Clients : Settled(c)) => logger_verbose = verbose(conf)

LetGo(c) == \/ client[c].pc \in {"gone", "panicked"}
            \/ At(c, "monitoring") /\ inbox[Queue(c)] = <<>>

\* A client whose peer has hung up is let go, except one that monitors: it
\* waits, registered, for something to write.
HungUpEnds == \A c \in Clients : c \in hung_up ~> LetGo(c)

\* Seen from outside: who listens, what is owed to whom.
Subscribers == [n \in Names |-> Ids(n) \cap Clients]

Owed == UNION {{r[1]} \X ToSet(inbox[r]) : r \in ClientReceivers}

PS == INSTANCE PubSub WITH
          members <- Subscribers, owed <- Owed, gone <- hung_up, failed <- poisoned

\* Threads, locks, queues and relays together publish as PubSub promises.
ImplementsPubSub == PS!PubSubSpec

====
