---- MODULE Channels ----
(***************************************************************************)
(* The channels (channels.rs): under each name the clients that listen,    *)
(* every one with the sending end of a queue.  One mutex guards them all.  *)
(* A name exists while somebody listens; "Monitor" and "Logger" exist from *)
(* the start, and are names like the others.                               *)
(*                                                                         *)
(* A queue is known by its receiver.  Sending into a queue whose receiver  *)
(* was dropped panics, and a panic under the mutex poisons it: whoever     *)
(* locks it afterwards panics as well.                                     *)
(***************************************************************************)
EXTENDS SequencesExt, Naturals, Vectors

CONSTANTS Names,       \* of channels, MONITOR and LOGGER among them
          Receivers    \* the queues' receiving ends, the logger's apart

VARIABLES channels,    \* the listeners under each name there is
          poisoned,    \* a thread panicked inside the critical section
          inbox,       \* what was sent into a queue and not taken out
          dropped      \* the receivers that are no more

channelVars == <<channels, poisoned, inbox, dropped>>

MONITOR == "Monitor"
LOGGER == "Logger"
LOGGER_SPECIAL_ID == 0

\* The logger's queue: what is in it is not kept.
LoggerReceiver == <<LOGGER_SPECIAL_ID, 0>>

ASSUME ChannelsAssumption == {MONITOR, LOGGER} \subseteq Names /\ LoggerReceiver \notin Receivers

Listener(id, receiver) == [id |-> id, receiver |-> receiver]

\* new, and add_logger in run
ChannelsInit ==
    /\ channels = [n \in {MONITOR, LOGGER} |->
                      IF n = LOGGER THEN <<Listener(LOGGER_SPECIAL_ID, LoggerReceiver)>> ELSE <<>>]
    /\ poisoned = FALSE
    /\ inbox = [r \in Receivers |-> <<>>]
    /\ dropped = {}

Listeners(name) == IF name \in DOMAIN channels THEN channels[name] ELSE <<>>

Ids(name) == {l.id : l \in ToSet(Listeners(name))}

-----------------------------------------------------------------------------
(* The critical sections *)

subscribe(name, receiver, id) ==
    /\ channels' = [n \in DOMAIN channels \cup {name} |->
                       IF n = name THEN Append(Listeners(name), Listener(id, receiver))
                                   ELSE channels[n]]
    /\ UNCHANGED <<poisoned, inbox, dropped>>

\* Mutant: every listener is taken off.
unsubscribe_all(name, id) ==
    /\ channels' = [n \in DOMAIN channels \ {name} |-> channels[n]]
    /\ UNCHANGED <<poisoned, inbox, dropped>>

\* A name nobody listens under any more goes away.
unsubscribe(name, id) ==
    LET left == Without(Listeners(name), {l \in ToSet(Listeners(name)) : l.id = id})
    IN  /\ channels' = IF left = <<>>
                         THEN [n \in DOMAIN channels \ {name} |-> channels[n]]
                         ELSE [channels EXCEPT ![name] = left]
        /\ UNCHANGED <<poisoned, inbox, dropped>>

\* Whether sending under the name panics at some listener, and who comes first.
Fails(name) == \E l \in ToSet(Listeners(name)) : l.receiver \in dropped

Reached(name) ==
    SubSeq(Listeners(name), 1,
           IF Fails(name) THEN SelectInSeq(Listeners(name), LAMBDA l : l.receiver \in dropped) - 1
                          ELSE Len(Listeners(name)))

\* How many of the listeners that are reached have this queue.
Copies(name, r) == Cardinality({i \in DOMAIN Reached(name) : Reached(name)[i].receiver = r})

\* The listeners before one that is gone have got the message.
send(name, msg) ==
    /\ inbox' = [r \in Receivers |-> inbox[r] \o [i \in 1..Copies(name, r) |-> msg]]
    /\ poisoned' = Fails(name)
    /\ UNCHANGED <<channels, dropped>>

get_channels(pattern) == (DOMAIN channels \cap pattern) \ {MONITOR, LOGGER}

subcriptors_number(name) == Len(Listeners(name))

-----------------------------------------------------------------------------
(* The receiving ends *)

\* One turn of `for msg in r.iter()`.
Receive(r) ==
    /\ inbox[r] # <<>>
    /\ inbox' = [inbox EXCEPT ![r] = Tail(@)]
    /\ UNCHANGED <<channels, poisoned, dropped>>

DropReceiver(r) ==
    /\ dropped' = dropped \cup {r}
    /\ inbox' = [q \in Receivers |-> IF q = r THEN <<>> ELSE inbox[q]]
    /\ UNCHANGED <<channels, poisoned>>

====
