---- MODULE TtlMessages ----
(***************************************************************************)
(* The messages between the database handles and the thread that keeps the *)
(* expiry times: MessageTtl, sent through one mpsc channel, and RespondTtl,*)
(* sent back through a channel made for one question.                      *)
(***************************************************************************)
EXTENDS KeyNames, Integers

CONSTANT Requesters   \* the threads that may ask the supervisor a question

Expire(k, t)       == [type |-> "Expire", key |-> k, expire_time |-> t]
Clear(k)           == [type |-> "Clear", key |-> k]
Transfer(from, to) == [type |-> "Transfer", key |-> from, to_key |-> to]
Ttl(k, c)          == [type |-> "Ttl", key |-> k, sender |-> c]
Check(k)           == [type |-> "Check", key |-> k]
AllTtL(c)          == [type |-> "AllTtL", sender |-> c]

MessageTtl ==
    [type : {"Expire"}, key : Keys, expire_time : Nat]
    \cup [type : {"Clear", "Check"}, key : Keys]
    \cup [type : {"Transfer"}, key : Keys, to_key : Keys]
    \cup [type : {"Ttl"}, key : Keys, sender : Requesters]
    \cup [type : {"AllTtL"}, sender : Requesters]

\* "Waiting": no answer has been sent on the requester's channel.
Waiting          == [type |-> "Waiting"]
AnswerTtl(t)     == [type |-> "Ttl", expire_time |-> t]
AnswerPersistent == [type |-> "Persistent"]
AnswerList       == [type |-> "List"]

RespondTtl == [type : {"Ttl"}, expire_time : Nat]
              \cup [type : {"Persistent", "List", "Waiting"}]

====
