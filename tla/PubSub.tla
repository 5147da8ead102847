---- MODULE PubSub ----
(***************************************************************************)
(* What publishing promises, whatever threads and queues there are: a      *)
(* message is owed at once to everybody who listens at that moment and to  *)
(* nobody else, is handed over once, and is lost only with the connection  *)
(* of its reader.  One failure is provided for: somebody who listens is    *)
(* gone, or the log is.  Then a message may reach some listeners only, and *)
(* nothing is published or changed ever after.                             *)
(***************************************************************************)
CONSTANTS Clients, Names, LOGGER

VARIABLES members,     \* who listens under each name
          owed,        \* the messages published and not handed over yet, with their readers
          gone,        \* whose connection is closed
          failed       \* publishing has failed

pubSubVars == <<members, owed, gone, failed>>

PubSubInit == /\ members = [n \in Names |-> {}]
              /\ owed = {}
              /\ gone = {}
              /\ failed = FALSE

Subscribe(c, n) ==
    /\ ~failed /\ c \notin members[n]
    /\ members' = [members EXCEPT ![n] = @ \cup {c}]
    /\ UNCHANGED <<owed, gone, failed>>

Unsubscribe(c, n) ==
    /\ ~failed /\ c \in members[n]
    /\ members' = [members EXCEPT ![n] = @ \ {c}]
    /\ UNCHANGED <<owed, gone, failed>>

\* `readers` is who gets to see the new message.
Owe(readers) ==
    \E msg \in {o[2] : o \in owed'} :
        /\ msg \notin {o[2] : o \in owed}
        /\ owed' = owed \cup (readers \X {msg})

Publish(n) ==
    /\ ~failed /\ members[n] # {}
    /\ Owe(members[n])
    /\ UNCHANGED <<members, gone, failed>>

PublishingFails(n) ==
    /\ ~failed /\ (n = LOGGER \/ members[n] \cap gone # {})
    /\ owed' = owed \/ \E readers \in SUBSET members[n] : Owe(readers)
    /\ failed' = TRUE
    /\ UNCHANGED <<members, gone>>

HandOver(c) ==
    /\ \E o \in owed : o[1] = c /\ owed' = owed \ {o}
    /\ UNCHANGED <<members, gone, failed>>

Close(c) ==
    /\ c \notin gone
    /\ gone' = gone \cup {c}
    /\ UNCHANGED <<members, owed, failed>>

\* Messages on their way to a connection that is closed, or, once publishing
\* has failed, to a reader who was just subscribing.
Lose(c) ==
    /\ c \in gone \/ failed
    /\ owed' \subseteq owed /\ \A o \in owed \ owed' : o[1] = c
    /\ UNCHANGED <<members, gone, failed>>

PubSubNext ==
    \/ \E c \in Clients, n \in Names : Subscribe(c, n) \/ Unsubscribe(c, n)
    \/ \E n \in Names : Publish(n) \/ PublishingFails(n)
    \/ \E c \in Clients : HandOver(c) \/ Close(c) \/ Lose(c)


PubSubSpec == PubSubInit /\ [][PubSubNext]_pubSubVars

====
