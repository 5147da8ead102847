---- MODULE TtlMap ----
(***************************************************************************)
(* What the expiry machinery promises: a service that owns a map from each *)
(* key to its expiry time, or to Persistent, takes messages in the order   *)
(* they were sent, and answers questions from the map.  EXPIRE sets a time,*)
(* CLEAR forgets it, TRANSFER gives the new name everything the old one    *)
(* held, and a time goes away unasked only once it has passed.  The vector *)
(* searched by time and the executor threads of TtlSupervisor are one      *)
(* implementation of this map.                                             *)
(***************************************************************************)
EXTENDS TtlMessages, Sequences

CONSTANT Persistent   \* "no expiry time"

VARIABLES now,       \* the clock
          mailbox,   \* messages sent and not yet handled, oldest first
          replies,   \* the answer on each requester's channel
          timeout    \* the expiry time of each key, or Persistent

mapVars == <<now, mailbox, replies, timeout>>

Init ==
    /\ now = 0
    /\ mailbox = <<>>
    /\ replies = [c \in Requesters |-> Waiting]
    /\ timeout = [k \in Keys |-> Persistent]

Tick == now' = now + 1 /\ UNCHANGED <<mailbox, replies, timeout>>

\* A message joins the others behind them.
Post == /\ mailbox' \in Seq(MessageTtl)
        /\ Len(mailbox') = Len(mailbox) + 1
        /\ SubSeq(mailbox', 1, Len(mailbox)) = mailbox
        /\ UNCHANGED <<now, replies, timeout>>

TakeReply == /\ \E c \in Requesters : replies' = [replies EXCEPT ![c] = Waiting]
             /\ UNCHANGED <<now, mailbox, timeout>>

Lapsed(k) == timeout[k] # Persistent /\ timeout[k] < now

\* The map after message m, the only message that may be handled now.
Effect(m) ==
    CASE m.type = "Expire"   -> [timeout EXCEPT ![m.key] = m.expire_time]
      [] m.type = "Clear"    -> [timeout EXCEPT ![m.key] = Persistent]
      [] m.type = "Transfer" -> [timeout EXCEPT ![m.to_key] = timeout[m.key],
                                                ![m.key] = Persistent]
      [] m.type = "Check"    -> IF Lapsed(m.key)
                                  THEN [timeout EXCEPT ![m.key] = Persistent]
                                  ELSE timeout
      [] OTHER -> timeout

Answer(m) ==
    CASE m.type = "Ttl"    -> [replies EXCEPT ![m.sender] =
                                  IF timeout[m.key] = Persistent
                                    THEN AnswerPersistent
                                    ELSE AnswerTtl(timeout[m.key])]
      [] m.type = "AllTtL" -> [replies EXCEPT ![m.sender] = AnswerList]
      [] OTHER -> replies

Handle ==
    /\ mailbox # <<>>
    /\ mailbox' = Tail(mailbox)
    /\ timeout' = Effect(Head(mailbox))
    /\ replies' = Answer(Head(mailbox))
    /\ UNCHANGED now

\* A time that has passed is forgotten.
Lapse == \E k \in Keys :
    /\ Lapsed(k)
    /\ timeout' = [timeout EXCEPT ![k] = Persistent]
    /\ UNCHANGED <<now, mailbox, replies>>

Next == Tick \/ Post \/ TakeReply \/ Handle \/ Lapse

Spec == Init /\ [][Next]_mapVars

====
