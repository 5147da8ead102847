---- MODULE HttpProxyProofs ----
(***************************************************************************)
(* Theorems about HttpProxy, for every set of browsers, finite or not, all *)
(* posts and all lists of commands let through.                            *)
(*                                                                         *)
(* The property is about a browser that is alone; what makes it true is    *)
(* about the others.  What they leave on the stream would be read as the   *)
(* lone one's reply, so nothing may be left: the pieces of replies that    *)
(* are still to come are at most two for each thread in an exchange        *)
(* (NothingLeftOver), and they alternate (PiecesAlternate), so that a      *)
(* thread that stops reading at a newline has taken one of the newlines.   *)
(***************************************************************************)
EXTENDS HttpProxy, DataLemmas, FiniteSetTheorems

-----------------------------------------------------------------------------
(* The inductive invariant *)

\* The provers do not know of a literal that it is a string: "" is what the
\* command of a thread is that has none.
Threads == [pc : {"idle", "writing", "reading", "recording", "panicked"},
            command : STRING \cup {""}, response : Seq(Pieces), alone : BOOLEAN, left : 0..MaxPosts]

\* ProxyTypeOK, with the parts of the state it leaves out.
Typed ==
    /\ thread \in [Browsers -> Threads]
    /\ commands \in Seq(COMMANDS_ALOWED)
    /\ replies \in Seq(Pieces)
    /\ server \in [pc : {"reading", "replying", "ending", "closed"}, request : Seq(COMMANDS_ALOWED)]

InExchanges == {b \in Browsers : InExchange(b)}

\* How many pieces the request that the server has will still be answered with.
Owed == CASE server.pc = "replying" -> 2 [] server.pc = "ending" -> 1 [] OTHER -> 0

\* What every thread brings to its exchange.
WritersReady ==
    \A b \in Browsers :
        /\ At(b, "writing") => thread[b].response = <<>>
        /\ At(b, "writing") \/ At(b, "reading") => thread[b].command \in COMMANDS_ALOWED

\* The pieces on the stream and those the server owes end with a newline, and
\* every other one of them is a text.
PiecesAlternate ==
    \A i \in 1..Len(replies) :
        (replies[i] = Newline) <=> (Len(replies) + Owed - i) % 2 = 0

\* No command and no piece of a reply is there without a thread that waits.
NothingLeftOver ==
    /\ IsFiniteSet(InExchanges)
    /\ 2 * Len(commands) + Len(replies) + Owed <= 2 * Cardinality(InExchanges)

\* Whoever is alone in an exchange is the only one in an exchange.
AloneIsAlone ==
    \A b \in InExchanges : thread[b].alone => InExchanges = {b}

\* Where the exchange of the one that is alone stands.
OneExchange(b) ==
    LET request == <<thread[b].command>>
        sofar == thread[b].response \o replies
    IN  \/ commands = request /\ server.pc = "reading" /\ sofar = <<>>
        \/ commands = <<>> /\ server.pc = "replying" /\ server.request = request /\ sofar = <<>>
        \/ commands = <<>> /\ server.pc = "ending" /\ sofar = <<Text(request)>>
        \/ commands = <<>> /\ server.pc = "reading" /\ sofar = <<Text(request), Newline>>

LoneExchange ==
    \A b \in InExchanges : thread[b].alone => OneExchange(b)

\* What will be recorded.
RecordedNext ==
    \A b \in Browsers :
        At(b, "recording") /\ thread[b].alone =>
            thread[b].response = <<Text(<<thread[b].command>>), Newline>>

IInv ==
    /\ Typed
    /\ WritersReady
    /\ ~Closed => PiecesAlternate /\ NothingLeftOver
    /\ Closed => \A b \in Browsers : ~thread[b].alone
    /\ AloneIsAlone
    /\ LoneExchange
    /\ RecordedNext
    /\ QuietExchangeMatched

-----------------------------------------------------------------------------
(* The parts of a step *)

LEMMA FoundAt ==
    ASSUME NEW S, NEW words \in Seq(S), FirstWithTo(words) # 0
    PROVE  words[FirstWithTo(words)] \in S
<1>1. FirstWithTo(words) \in 1..Len(words)
  BY SelectInSeqFinds DEF FirstWithTo
<1> QED BY <1>1, LenProperties

LEMMA PieceTypes ==
    /\ \A request \in Seq(Words) : Text(request) \in Pieces /\ Text(request) # Newline
    /\ Newline \in Pieces
<1>1. <<>> \in Seq(Words)
  OBVIOUS
<1> QED BY <1>1 DEF Text, Newline, Pieces

\* A thread in one of its states is a thread.
LEMMA ThreadType ==
    ASSUME NEW pc \in {"idle", "writing", "reading", "recording", "panicked"},
           NEW left \in 0..MaxPosts
    PROVE  Thread(pc, left) \in Threads
<1>1. <<>> \in Seq(Pieces) /\ "" \in STRING \cup {""}
  OBVIOUS
<1> QED BY <1>1 DEF Thread, Threads

LEMMA BecomesType ==
    ASSUME thread \in [Browsers -> Threads], NEW b \in Browsers, NEW t \in Threads, Becomes(b, t)
    PROVE  /\ thread' \in [Browsers -> Threads]
           /\ thread'[b] = t
           /\ \A o \in Browsers \ {b} : thread'[o] = thread[o]
BY DEF Becomes

\* What Accept makes of a thread.
LEMMA AcceptOutcome ==
    ASSUME Typed, NEW b \in Browsers, Accept(b)
    PROVE  \E t \in Threads :
              /\ Becomes(b, t) /\ ~t.alone
              /\ t.pc \in {"panicked", "writing", "recording"}
              /\ t.pc = "writing" => t.command \in COMMANDS_ALOWED /\ t.response = <<>>
<1> DEFINE left == thread[b].left - 1
           Outcome(t) == /\ t \in Threads /\ Becomes(b, t) /\ ~t.alone
                         /\ t.pc \in {"panicked", "writing", "recording"}
                         /\ t.pc = "writing" => t.command \in COMMANDS_ALOWED /\ t.response = <<>>
<1>1. PICK words \in Posts :
        LET found == FirstWithTo(words)
        IN  IF found = 0 \/ ~words[found].long THEN Becomes(b, Thread("panicked", left))
            ELSE LET command == words[found].command
                 IN  Becomes(b, IF Allowed(command)
                                THEN [Thread("writing", left) EXCEPT !.command = command]
                                ELSE [Thread("recording", left) EXCEPT
                                         !.command = command,
                                         !.response = <<Text(<<"Non existent Request">>)>>])
  BY Zenon DEF Accept
<1> DEFINE found == FirstWithTo(words)
           command == words[found].command
<1>2. left \in 0..MaxPosts
  <2>1. thread[b].left > 0
    BY Zenon DEF Accept
  <2>2. thread[b].left \in 0..MaxPosts
    BY DEF Typed, Threads
  <2> QED BY <2>1, <2>2, HttpProxyAssumption
<1> HIDE DEF left
<1>3. CASE found = 0 \/ ~words[found].long
  <2>1. Becomes(b, Thread("panicked", left))
    BY <1>1, <1>3, Zenon
  <2>2. Thread("panicked", left) \in Threads
    BY <1>2, ThreadType
  <2>3. Outcome(Thread("panicked", left))
    BY <2>1, <2>2 DEF Thread
  <2> QED BY <2>3, Zenon
<1>4. CASE ~(found = 0 \/ ~words[found].long)
  <2>1. command \in STRING
    <3>1. words \in Seq([to : BOOLEAN, long : BOOLEAN, command : STRING])
      BY HttpProxyAssumption
    <3>2. words[found] \in [to : BOOLEAN, long : BOOLEAN, command : STRING]
      BY <1>4, <3>1, FoundAt
    <3> QED BY <3>2
  <2>2. CASE Allowed(command)
    <3> DEFINE t == [Thread("writing", left) EXCEPT !.command = command]
    <3>1. Becomes(b, t)
      BY <1>1, <1>4, <2>2, Zenon
    <3>2. Thread("writing", left) \in Threads
      BY <1>2, ThreadType
    <3>3. command \in COMMANDS_ALOWED
      BY <2>2 DEF Allowed
    <3> HIDE DEF command
    <3>4. /\ t \in Threads /\ ~t.alone /\ t.pc = "writing" /\ t.command = command
          /\ t.response = <<>>
      BY <2>1, <3>2 DEF Thread, Threads
    <3> HIDE DEF t
    <3>5. Outcome(t)
      BY <3>1, <3>3, <3>4
    <3> QED BY <3>5, Zenon
  <2>3. CASE ~Allowed(command)
    <3> DEFINE answer == <<Text(<<"Non existent Request">>)>>
               t == [Thread("recording", left) EXCEPT !.command = command, !.response = answer]
    <3>1. Becomes(b, t)
      BY <1>1, <1>4, <2>3, Zenon
    <3>2. Thread("recording", left) \in Threads
      BY <1>2, ThreadType
    <3>3. answer \in Seq(Pieces)
      <4>1. "Non existent Request" \in Words
        BY DEF Words
      <4>2. <<"Non existent Request">> \in Seq(Words)
        BY <4>1, OneElement, Zenon
      <4>3. Text(<<"Non existent Request">>) \in Pieces
        BY <4>2, PieceTypes, Zenon
      <4> QED BY <4>3, OneElement, Zenon
    <3> HIDE DEF command, answer
    <3>4. t \in Threads /\ ~t.alone /\ t.pc = "recording"
      BY <2>1, <3>2, <3>3 DEF Thread, Threads
    <3> HIDE DEF t
    <3>5. Outcome(t)
      BY <3>1, <3>4
    <3> QED BY <3>5, Zenon
  <2> QED BY <2>2, <2>3
<1> QED BY <1>3, <1>4

\* What a thread that panics becomes.
LEMMA FailOutcome ==
    ASSUME Typed, NEW b \in Browsers
    PROVE  LET t == Thread("panicked", thread[b].left)
           IN  t \in Threads /\ t.pc = "panicked" /\ ~t.alone
<1>1. thread[b].left \in 0..MaxPosts
  BY DEF Typed, Threads
<1>2. Thread("panicked", thread[b].left) \in Threads
  BY <1>1, ThreadType
<1> QED BY <1>2 DEF Thread

\* What a thread that has recorded becomes.
LEMMA RecordOutcome ==
    ASSUME Typed, NEW b \in Browsers
    PROVE  LET t == Thread("idle", thread[b].left)
           IN  t \in Threads /\ t.pc = "idle" /\ ~t.alone
<1>1. thread[b].left \in 0..MaxPosts
  BY DEF Typed, Threads
<1>2. Thread("idle", thread[b].left) \in Threads
  BY <1>1, ThreadType
<1> QED BY <1>2 DEF Thread

-----------------------------------------------------------------------------
(* Every step keeps the invariant *)

LEMMA InvInit == ProxyInit => IInv
<1> SUFFICES ASSUME ProxyInit PROVE IInv
  OBVIOUS
<1>1. /\ MaxPosts \in 0..MaxPosts
      /\ \A b \in Browsers : thread[b] = Thread("idle", MaxPosts)
      /\ thread = [b \in Browsers |-> Thread("idle", MaxPosts)]
      /\ commands = <<>> /\ replies = <<>> /\ records = {}
      /\ server = [pc |-> "reading", request |-> <<>>]
  BY HttpProxyAssumption DEF ProxyInit
<1>2. Typed
  <2>1. Thread("idle", MaxPosts) \in Threads
    BY <1>1, ThreadType
  <2> QED BY <1>1, <2>1 DEF Typed
<1>3. \A b \in Browsers : thread[b].pc = "idle" /\ ~thread[b].alone
  BY <1>1 DEF Thread
<1>4. InExchanges = {}
  BY <1>3 DEF InExchanges, InExchange, At
<1>5. PiecesAlternate /\ NothingLeftOver
  BY <1>1, <1>4, FS_EmptySet DEF PiecesAlternate, NothingLeftOver, Owed
<1> QED BY <1>1, <1>2, <1>3, <1>4, <1>5
        DEF IInv, WritersReady, AloneIsAlone, LoneExchange, RecordedNext, QuietExchangeMatched,
            Closed, At

\* A step of one thread that is no exchange, or that ends on a closed stream.
LEMMA LocalStep ==
    ASSUME IInv, NEW b \in Browsers, NEW t \in Threads, Becomes(b, t),
           ~t.alone, t.pc # "reading",
           t.pc = "writing" => t.command \in COMMANDS_ALOWED /\ t.response = <<>>,
           At(b, "reading") => Closed,
           UNCHANGED <<commands, replies, server>>, QuietExchangeMatched'
    PROVE  IInv'
<1>0. /\ Typed /\ WritersReady /\ (~Closed => PiecesAlternate /\ NothingLeftOver)
      /\ (Closed => \A o \in Browsers : ~thread[o].alone)
      /\ AloneIsAlone /\ LoneExchange /\ RecordedNext
  BY DEF IInv
<1>1. /\ thread' \in [Browsers -> Threads] /\ thread'[b] = t
      /\ \A o \in Browsers \ {b} : thread'[o] = thread[o]
  BY <1>0, BecomesType DEF Typed
<1>2. Typed'
  BY <1>0, <1>1 DEF Typed
<1>3. WritersReady'
  BY <1>0, <1>1 DEF WritersReady, At
<1>4. Closed' = Closed
  BY DEF Closed
<1>5. Closed => \A o \in Browsers : ~thread'[o].alone
  BY <1>0, <1>1
<1>6. RecordedNext'
  BY <1>0, <1>1 DEF RecordedNext, At
<1>7. CASE Closed
  <2>1. AloneIsAlone' /\ LoneExchange'
    BY <1>5, <1>7 DEF AloneIsAlone, LoneExchange, InExchanges
  <2> QED BY <1>2, <1>3, <1>4, <1>5, <1>6, <1>7, <2>1 DEF IInv
<1>8. CASE ~Closed
  <2>1. InExchanges' = InExchanges
    BY <1>1, <1>8 DEF InExchanges, InExchange, At
  <2>2. b \notin InExchanges
    BY <1>8 DEF InExchanges, InExchange
  <2>3. PiecesAlternate' /\ NothingLeftOver'
    BY <1>0, <1>8, <2>1 DEF PiecesAlternate, NothingLeftOver, Owed
  <2>4. AloneIsAlone'
    BY <1>0, <1>1, <2>1, <2>2 DEF AloneIsAlone, InExchanges
  <2>5. ASSUME NEW o \in InExchanges', thread'[o].alone PROVE OneExchange(o)'
    <3>1. o \in InExchanges /\ thread'[o] = thread[o]
      BY <1>1, <2>1, <2>2 DEF InExchanges
    <3>2. OneExchange(o)
      BY <1>0, <2>5, <3>1 DEF LoneExchange
    <3> QED BY <3>1, <3>2 DEF OneExchange
  <2>6. LoneExchange'
    BY <2>5 DEF LoneExchange
  <2> QED BY <1>2, <1>3, <1>4, <1>6, <1>8, <2>3, <2>4, <2>6 DEF IInv
<1> QED BY <1>7, <1>8

LEMMA AcceptKeeps ==
    ASSUME IInv, NEW b \in Browsers, Accept(b)
    PROVE  IInv'
<1>1. Typed /\ QuietExchangeMatched
  BY DEF IInv
<1>2. PICK t \in Threads :
        /\ Becomes(b, t) /\ ~t.alone
        /\ t.pc \in {"panicked", "writing", "recording"}
        /\ t.pc = "writing" => t.command \in COMMANDS_ALOWED /\ t.response = <<>>
  BY <1>1, AcceptOutcome
<1>3. At(b, "idle") /\ UNCHANGED <<commands, replies, server, records>>
  BY Zenon DEF Accept
<1>4. ~At(b, "reading") /\ t.pc # "reading"
  BY <1>2, <1>3 DEF At
<1>5. QuietExchangeMatched'
  BY <1>1, <1>3 DEF QuietExchangeMatched
<1> QED BY <1>2, <1>3, <1>4, <1>5, LocalStep

LEMMA StreamFailsKeeps ==
    ASSUME IInv, NEW b \in Browsers, StreamFails(b)
    PROVE  IInv'
<1> DEFINE t == Thread("panicked", thread[b].left)
<1>1. Typed /\ QuietExchangeMatched
  BY DEF IInv
<1>2. t \in Threads /\ t.pc = "panicked" /\ ~t.alone
  BY <1>1, FailOutcome
<1>3. Closed /\ Becomes(b, t) /\ UNCHANGED <<commands, replies, server, records>>
  BY Zenon DEF StreamFails
<1> HIDE DEF t
<1>4. QuietExchangeMatched'
  BY <1>1, <1>3 DEF QuietExchangeMatched
<1>5. t.pc # "reading" /\ t.pc # "writing"
  BY <1>2
<1> QED BY <1>2, <1>3, <1>4, <1>5, LocalStep

LEMMA RecordKeeps ==
    ASSUME IInv, NEW b \in Browsers, Record(b)
    PROVE  IInv'
<1> DEFINE t == Thread("idle", thread[b].left)
           r == [command |-> thread[b].command, response |-> thread[b].response,
                 alone |-> thread[b].alone]
<1>1. Typed /\ QuietExchangeMatched /\ RecordedNext
  BY DEF IInv
<1>2. t \in Threads /\ t.pc = "idle" /\ ~t.alone
  BY <1>1, RecordOutcome
<1>3. /\ At(b, "recording") /\ Becomes(b, t) /\ records' = records \cup {r}
      /\ UNCHANGED <<commands, replies, server>>
  BY Zenon DEF Record
<1>4. r.alone => r.response = <<Text(<<r.command>>), Newline>>
  BY <1>1, <1>3 DEF RecordedNext
<1> HIDE DEF t, r
<1>5. QuietExchangeMatched'
  BY <1>1, <1>3, <1>4 DEF QuietExchangeMatched
<1>6. t.pc # "reading" /\ t.pc # "writing" /\ ~At(b, "reading")
  BY <1>2, <1>3 DEF At
<1> QED BY <1>2, <1>3, <1>5, <1>6, LocalStep

LEMMA WriteCommandKeeps ==
    ASSUME IInv, NEW b \in Browsers, WriteCommand(b)
    PROVE  IInv'
<1> DEFINE alone == ~Closed /\ \A o \in Browsers : ~InExchange(o)
<1>0. /\ Typed /\ WritersReady /\ (~Closed => PiecesAlternate /\ NothingLeftOver)
      /\ (Closed => \A o \in Browsers : ~thread[o].alone)
      /\ AloneIsAlone /\ LoneExchange /\ RecordedNext /\ QuietExchangeMatched
  BY DEF IInv
<1>1. /\ At(b, "writing") /\ UNCHANGED <<replies, server, records>>
      /\ commands' = IF Closed THEN commands ELSE Append(commands, thread[b].command)
      /\ thread' = [o \in Browsers |->
                      CASE o = b -> [thread[b] EXCEPT !.pc = "reading", !.alone = alone]
                        [] InExchange(o) -> [thread[o] EXCEPT !.alone = FALSE]
                        [] OTHER -> thread[o]]
  BY Zenon DEF WriteCommand
<1>2. alone \in BOOLEAN /\ (alone => ~Closed /\ InExchanges = {})
  BY DEF InExchanges
<1>3. ~InExchange(b)
  BY <1>1 DEF InExchange, At
<1> HIDE DEF alone
<1>4. /\ thread' \in [Browsers -> Threads]
      /\ thread'[b] = [thread[b] EXCEPT !.pc = "reading", !.alone = alone]
      /\ \A o \in Browsers : o # b /\ ~InExchange(o) => thread'[o] = thread[o]
      /\ \A o \in Browsers : o # b /\ InExchange(o) => thread'[o] = [thread[o] EXCEPT !.alone = FALSE]
  <2>1. thread \in [Browsers -> Threads]
    BY <1>0 DEF Typed
  <2>2. [thread[b] EXCEPT !.pc = "reading", !.alone = alone] \in Threads
    BY <1>2, <2>1 DEF Threads
  <2>3. \A o \in Browsers : [thread[o] EXCEPT !.alone = FALSE] \in Threads
    BY <2>1 DEF Threads
  <2>4. \A o \in Browsers :
          /\ o = b => thread'[o] = [thread[b] EXCEPT !.pc = "reading", !.alone = alone]
          /\ o # b /\ ~InExchange(o) => thread'[o] = thread[o]
          /\ o # b /\ InExchange(o) => thread'[o] = [thread[o] EXCEPT !.alone = FALSE]
    BY <1>1, <1>3, Zenon
  <2> QED BY <1>1, <2>1, <2>2, <2>3, <2>4
<1>5. /\ thread'[b].pc = "reading" /\ thread'[b].alone = alone
      /\ thread'[b].command = thread[b].command /\ thread'[b].response = thread[b].response
  <2>1. thread[b] \in Threads
    BY <1>0 DEF Typed
  <2> QED BY <1>2, <1>4, <2>1 DEF Threads
<1>6. \A o \in Browsers \ {b} :
        /\ thread'[o].pc = thread[o].pc /\ thread'[o].command = thread[o].command
        /\ thread'[o].response = thread[o].response
        /\ InExchange(o) => ~thread'[o].alone
        /\ ~InExchange(o) => thread'[o].alone = thread[o].alone
  <2> TAKE o \in Browsers \ {b}
  <2>1. thread[o] \in Threads
    BY <1>0 DEF Typed
  <2>2. CASE InExchange(o)
    <3>1. thread'[o] = [thread[o] EXCEPT !.alone = FALSE]
      BY <1>4, <2>2
    <3> QED BY <2>1, <2>2, <3>1 DEF Threads
  <2>3. CASE ~InExchange(o)
    BY <1>4, <2>3
  <2> QED BY <2>2, <2>3
<1>7. InExchanges' = InExchanges \cup {b} /\ b \notin InExchanges
  BY <1>3, <1>5, <1>6 DEF InExchanges, InExchange, At
<1>8. thread[b].command \in COMMANDS_ALOWED /\ thread[b].response = <<>>
  BY <1>0, <1>1 DEF WritersReady
<1>9. /\ commands' \in Seq(COMMANDS_ALOWED)
      /\ ~Closed => Len(commands') = Len(commands) + 1
  BY <1>0, <1>1, <1>8, AppendType DEF Typed
<1>10. Typed'
  BY <1>0, <1>1, <1>4, <1>9 DEF Typed
<1>11. WritersReady'
  <2>1. ASSUME NEW o \in Browsers
        PROVE  /\ At(o, "writing")' => thread'[o].response = <<>>
               /\ At(o, "writing")' \/ At(o, "reading")' => thread'[o].command \in COMMANDS_ALOWED
    <3>1. CASE o = b
      BY <1>5, <1>8, <3>1 DEF At
    <3>2. CASE o # b
      BY <1>0, <1>6, <3>2 DEF WritersReady, At
    <3> QED BY <3>1, <3>2
  <2> QED BY <2>1, Zenon DEF WritersReady
<1>12. Closed' = Closed
  BY <1>1 DEF Closed
<1>13. ~Closed => PiecesAlternate' /\ NothingLeftOver'
  <2> SUFFICES ASSUME ~Closed PROVE PiecesAlternate' /\ NothingLeftOver'
    OBVIOUS
  <2>1. PiecesAlternate'
    BY <1>0, <1>1 DEF PiecesAlternate, Owed
  <2>2. /\ IsFiniteSet(InExchanges) /\ Cardinality(InExchanges) \in Nat
        /\ 2 * Len(commands) + Len(replies) + Owed <= 2 * Cardinality(InExchanges)
    BY <1>0, FS_CardinalityType DEF NothingLeftOver
  <2>3. /\ IsFiniteSet(InExchanges \cup {b})
        /\ Cardinality(InExchanges \cup {b}) = Cardinality(InExchanges) + 1
    BY <1>7, <2>2, FS_AddElement
  <2>4. Owed' = Owed /\ Owed \in Nat
    BY <1>1 DEF Owed
  <2>5. Len(commands) \in Nat /\ Len(replies) \in Nat /\ replies' = replies
    BY <1>0, <1>1 DEF Typed
  <2> QED BY <1>7, <1>9, <2>1, <2>2, <2>3, <2>4, <2>5 DEF NothingLeftOver
<1>14. Closed => \A o \in Browsers : ~thread'[o].alone
  BY <1>0, <1>2, <1>5, <1>6
<1>15. \A o \in InExchanges' : thread'[o].alone => o = b /\ alone /\ InExchanges' = {b}
  BY <1>2, <1>5, <1>6, <1>7 DEF InExchanges
<1>16. AloneIsAlone'
  BY <1>15 DEF AloneIsAlone
<1>17. alone => OneExchange(b)'
  <2> SUFFICES ASSUME alone PROVE OneExchange(b)'
    OBVIOUS
  <2>1. NothingLeftOver /\ InExchanges = {} /\ ~Closed
    BY <1>0, <1>2
  <2>2. 2 * Len(commands) + Len(replies) + Owed <= 0
    BY <2>1, FS_EmptySet DEF NothingLeftOver
  <2>3. Len(commands) \in Nat /\ Len(replies) \in Nat /\ Owed \in 0..2
    BY <1>0 DEF Typed, Owed
  <2>4. Len(commands) = 0 /\ Len(replies) = 0 /\ Owed = 0
    BY <2>2, <2>3
  <2>5. commands = <<>> /\ replies = <<>>
    BY <1>0, <2>4, EmptySeq DEF Typed
  <2>6. server.pc = "reading"
    BY <1>0, <2>1, <2>4 DEF Typed, Owed, Closed
  <2>7. commands' = <<thread[b].command>> /\ replies' = <<>> /\ server'.pc = "reading"
    BY <1>1, <2>1, <2>5, <2>6
  <2>8. thread'[b].response \o replies' = <<>>
    BY <1>5, <1>8, <2>7
  <2> QED BY <1>5, <2>7, <2>8 DEF OneExchange
<1>18. LoneExchange'
  BY <1>15, <1>17 DEF LoneExchange
<1>19. RecordedNext'
  BY <1>0, <1>5, <1>6 DEF RecordedNext, At, InExchange
<1>20. QuietExchangeMatched'
  BY <1>0, <1>1 DEF QuietExchangeMatched
<1> QED BY <1>10, <1>11, <1>12, <1>13, <1>14, <1>16, <1>18, <1>19, <1>20 DEF IInv

\* One turn of the loop: the pieces read are a beginning of the replies, and the
\* thread is done if the last of them is a newline.
LEMMA ReadOutcome ==
    ASSUME Typed, NEW b \in Browsers, NEW n \in 1..Len(replies)
    PROVE  LET first == SubSeq(replies, 1, n)
               rest == SubSeq(replies, n + 1, Len(replies))
               response == thread[b].response \o first
           IN  /\ response \in Seq(Pieces) /\ Len(response) = Len(thread[b].response) + n
               /\ Last(response) = replies[n]
               /\ response \o rest = thread[b].response \o replies
<1> DEFINE sofar == thread[b].response
           first == SubSeq(replies, 1, n)
           rest == SubSeq(replies, n + 1, Len(replies))
<1>1. sofar \in Seq(Pieces) /\ replies \in Seq(Pieces)
  BY DEF Typed, Threads
<1>2. /\ first \in Seq(Pieces) /\ Len(first) = n /\ first[n] = replies[n]
      /\ rest \in Seq(Pieces) /\ first \o rest = replies
  BY <1>1, TakenApart
<1> HIDE DEF sofar, first, rest
<1>3. /\ sofar \o first \in Seq(Pieces) /\ Len(sofar \o first) = Len(sofar) + n
      /\ (sofar \o first)[Len(sofar) + n] = first[n]
  BY <1>1, <1>2, ConcatPart
<1>4. (sofar \o first) \o rest = sofar \o replies
  <2>1. \A x, y, z \in Seq(Pieces) : (x \o y) \o z = x \o (y \o z)
    BY ConcatThree
  <2>2. (sofar \o first) \o rest = sofar \o (first \o rest)
    BY <1>1, <1>2, <2>1
  <2> QED BY <1>2, <2>2, Zenon
<1> QED BY <1>2, <1>3, <1>4 DEF Last, sofar, first, rest

\* A beginning of the reply to one command that ends with a newline is all of it.
LEMMA WholeReply ==
    ASSUME NEW request \in Seq(Words), NEW r \in Seq(Pieces), NEW rest \in Seq(Pieces),
           r # <<>>, Last(r) = Newline,
           r \o rest \in {<<>>, <<Text(request)>>, <<Text(request), Newline>>}
    PROVE  r = <<Text(request), Newline>>
<1> DEFINE text == Text(request)
<1>1. text \in Pieces /\ Newline \in Pieces /\ text # Newline
  BY PieceTypes
<1> HIDE DEF text
<1>2. /\ Len(r) \in Nat /\ Len(r) >= 1 /\ Len(rest) \in Nat /\ Len(r \o rest) = Len(r) + Len(rest)
      /\ (r \o rest)[Len(r)] = Newline
  <2>1. Len(r) \in Nat /\ Len(r) >= 1 /\ Len(rest) \in Nat
    BY EmptySeq, LenProperties
  <2>2. Len(r) \in 1..Len(r)
    BY <2>1
  <2>3. /\ Len(r \o rest) = Len(r) + Len(rest)
        /\ (r \o rest)[Len(r)] = r[Len(r)]
    BY <2>2, ConcatLength, ConcatElements, Zenon
  <2> QED BY <2>1, <2>3 DEF Last
<1>3. r \o rest # <<>>
  BY <1>2
<1>4. r \o rest # <<text>>
  <2>1. Len(<<text>>) = 1 /\ <<text>>[1] = text
    BY <1>1, OneElement, Zenon
  <2> SUFFICES ASSUME r \o rest = <<text>> PROVE FALSE
    OBVIOUS
  <2>2. Len(r) = 1
    BY <1>2, <2>1
  <2> QED BY <1>1, <1>2, <2>1, <2>2
<1>5. r \o rest = <<text, Newline>>
  BY <1>3, <1>4 DEF text
<1>6. Len(r) = 2 /\ Len(rest) = 0
  <2>1. Len(<<text, Newline>>) = 2 /\ <<text, Newline>>[1] = text
    BY <1>1, TwoElements, Zenon
  <2>2. Len(r) # 1
    <3> SUFFICES ASSUME Len(r) = 1 PROVE FALSE
      OBVIOUS
    <3> QED BY <1>1, <1>2, <1>5, <2>1
  <2>3. Len(r) + Len(rest) = 2
    BY <1>2, <1>5, <2>1
  <2>4. \A x, y \in Nat : x >= 1 /\ x # 1 /\ x + y = 2 => x = 2 /\ y = 0
    OBVIOUS
  <2> QED BY <1>2, <2>2, <2>3, <2>4, Zenon
<1>7. rest = <<>>
  BY <1>6, EmptySeq
<1>8. r \o rest = r
  BY <1>7, ConcatEmptySeq
<1> QED BY <1>5, <1>8 DEF text

LEMMA ReadReplyKeeps ==
    ASSUME IInv, NEW b \in Browsers, ReadReply(b)
    PROVE  IInv'
<1>0. /\ Typed /\ WritersReady /\ (~Closed => PiecesAlternate /\ NothingLeftOver)
      /\ (Closed => \A o \in Browsers : ~thread[o].alone)
      /\ AloneIsAlone /\ LoneExchange /\ RecordedNext /\ QuietExchangeMatched
  BY DEF IInv
<1>1. PICK n \in 1..Len(replies) :
        LET response == thread[b].response \o SubSeq(replies, 1, n)
        IN  /\ replies' = SubSeq(replies, n + 1, Len(replies))
            /\ Becomes(b, [thread[b] EXCEPT
                              !.response = response,
                              !.pc = IF Last(response) = Newline THEN "recording" ELSE @])
  BY Zenon DEF ReadReply
<1> DEFINE first == SubSeq(replies, 1, n)
           rest == SubSeq(replies, n + 1, Len(replies))
           response == thread[b].response \o first
           done == replies[n] = Newline
           t == [thread[b] EXCEPT !.response = response, !.pc = IF done THEN "recording" ELSE @]
<1>2. At(b, "reading") /\ UNCHANGED <<commands, server, records>>
  BY Zenon DEF ReadReply
<1>3. /\ response \in Seq(Pieces) /\ Len(response) = Len(thread[b].response) + n
      /\ Last(response) = replies[n]
      /\ response \o rest = thread[b].response \o replies
  BY <1>0, ReadOutcome
<1>4. replies' = rest /\ Becomes(b, t)
  BY <1>1, <1>3, Zenon
<1>5. /\ rest \in Seq(Pieces) /\ Len(rest) = Len(replies) - n
      /\ \A i \in 1..(Len(replies) - n) : rest[i] = replies[n + i]
      /\ Len(replies) \in Nat /\ n \in 1..Len(replies)
  BY <1>0, TakenApart, LenProperties DEF Typed
<1> HIDE DEF first, rest, response, done
<1>6. thread[b] \in Threads /\ thread[b].pc = "reading"
  BY <1>0, <1>2 DEF Typed, At
<1>7. /\ t \in Threads /\ t.pc = (IF done THEN "recording" ELSE "reading")
      /\ t.response = response /\ t.command = thread[b].command /\ t.alone = thread[b].alone
  BY <1>3, <1>6 DEF Threads
<1> HIDE DEF t
<1>8. /\ thread' \in [Browsers -> Threads] /\ thread'[b] = t
      /\ \A o \in Browsers \ {b} : thread'[o] = thread[o]
  BY <1>0, <1>4, <1>7, BecomesType DEF Typed
<1>9. Typed'
  BY <1>0, <1>2, <1>4, <1>5, <1>8 DEF Typed
<1>10. WritersReady'
  <2>1. ASSUME NEW o \in Browsers
        PROVE  /\ thread'[o].pc \in {thread[o].pc, "recording"}
               /\ thread'[o].command = thread[o].command
               /\ thread'[o].pc = "writing" => thread'[o].response = thread[o].response
    BY <1>6, <1>7, <1>8
  <2> QED BY <1>0, <2>1 DEF WritersReady, At
<1>11. Closed' = Closed
  BY <1>2 DEF Closed
<1>12. Closed => \A o \in Browsers : ~thread'[o].alone
  BY <1>0, <1>7, <1>8
<1>13. /\ b \in InExchanges
       /\ InExchanges' = IF done THEN InExchanges \ {b} ELSE InExchanges
  BY <1>2, <1>7, <1>8 DEF InExchanges, InExchange, At
<1>14. ~Closed => PiecesAlternate' /\ NothingLeftOver'
  <2> SUFFICES ASSUME ~Closed PROVE PiecesAlternate' /\ NothingLeftOver'
    OBVIOUS
  <2>1. /\ IsFiniteSet(InExchanges) /\ Cardinality(InExchanges) \in Nat
        /\ 2 * Len(commands) + Len(replies) + Owed <= 2 * Cardinality(InExchanges)
    BY <1>0, FS_CardinalityType DEF NothingLeftOver
  <2>2. Owed' = Owed /\ Owed \in Nat
    BY <1>2 DEF Owed
  <2>3. \A i \in 1..Len(replies) : (replies[i] = Newline) <=> (Len(replies) + Owed - i) % 2 = 0
    BY <1>0 DEF PiecesAlternate
  <2>4. ASSUME NEW i \in 1..Len(rest)
        PROVE  (rest[i] = Newline) <=> (Len(rest) + Owed - i) % 2 = 0
    <3>1. n + i \in 1..Len(replies) /\ rest[i] = replies[n + i]
      BY <1>5
    <3>2. Len(rest) + Owed - i = Len(replies) + Owed - (n + i)
      BY <1>5, <2>2
    <3> QED BY <2>3, <3>1, <3>2
  <2>5. PiecesAlternate'
    BY <1>4, <2>2, <2>4 DEF PiecesAlternate
  <2>6. CASE ~done
    <3>1. Len(commands) \in Nat /\ commands' = commands
      BY <1>0, <1>2 DEF Typed
    <3>2. 2 * Len(commands) + Len(rest) + Owed <= 2 * Cardinality(InExchanges)
      BY <1>5, <2>1, <2>2, <3>1
    <3> QED BY <1>4, <1>13, <2>1, <2>2, <2>5, <2>6, <3>1, <3>2 DEF NothingLeftOver
  <2>7. CASE done
    <3>1. Len(commands) \in Nat /\ commands' = commands
      BY <1>0, <1>2 DEF Typed
    <3>2. /\ IsFiniteSet(InExchanges \ {b})
          /\ Cardinality(InExchanges \ {b}) = Cardinality(InExchanges) - 1
      BY <1>13, <2>1, FS_RemoveElement
    <3>3. (Len(replies) + Owed - n) % 2 = 0
      BY <1>5, <2>3, <2>7 DEF done
    <3>4. Len(rest) + Owed = Len(replies) + Owed - n /\ Len(replies) - n >= 0
      BY <1>5, <2>2
    <3> DEFINE left == Len(replies) + Owed - n
    <3>9. left \in Int
      BY <1>5, <2>2
    <3>10. left % 2 = 0
      BY <3>3
    <3> HIDE DEF left
    <3>11. \E half \in Int : left = 2 * half
      BY <3>9, <3>10, EvenNumber
    <3>5. PICK half \in Int : Len(replies) + Owed - n = 2 * half
      BY <3>11 DEF left
    <3>6. 2 * Len(commands) + 2 * half < 2 * Cardinality(InExchanges)
      BY <1>5, <2>1, <2>2, <3>1, <3>5
    <3>7. Len(commands) + half <= Cardinality(InExchanges) - 1
      BY <2>1, <3>1, <3>6
    <3>8. 2 * Len(commands) + Len(rest) + Owed <= 2 * (Cardinality(InExchanges) - 1)
      BY <1>5, <2>1, <2>2, <3>1, <3>4, <3>5, <3>7
    <3> QED BY <1>4, <1>13, <2>2, <2>5, <2>7, <3>1, <3>2, <3>8 DEF NothingLeftOver
  <2> QED BY <2>6, <2>7
<1>15. ASSUME NEW o \in InExchanges', thread'[o].alone
       PROVE  o = b /\ ~done /\ InExchanges' = {o} /\ OneExchange(o)'
  <2>1. o \in InExchanges /\ o \in Browsers
    BY <1>13, <1>15 DEF InExchanges
  <2>2. thread[o].alone
    BY <1>7, <1>8, <1>15, <2>1
  <2>3. InExchanges = {o}
    BY <1>0, <2>1, <2>2 DEF AloneIsAlone
  <2>4. o = b /\ ~done /\ InExchanges' = {o}
    BY <1>13, <1>15, <2>3
  <2>5. OneExchange(b)
    BY <1>0, <2>1, <2>2, <2>4 DEF LoneExchange
  <2>6. OneExchange(b)'
    BY <1>2, <1>3, <1>4, <1>7, <1>8, <2>5 DEF OneExchange
  <2> QED BY <2>4, <2>6
<1>16. AloneIsAlone' /\ LoneExchange'
  BY <1>15 DEF AloneIsAlone, LoneExchange
<1>17. ASSUME done, thread[b].alone
       PROVE  response = <<Text(<<thread[b].command>>), Newline>>
  <2> DEFINE request == <<thread[b].command>>
  <2>1. OneExchange(b)
    BY <1>0, <1>13, <1>17 DEF LoneExchange
  <2>2. response \o rest \in {<<>>, <<Text(request)>>, <<Text(request), Newline>>}
    BY <1>3, <2>1, Zenon DEF OneExchange
  <2>3. replies # <<>>
    BY <1>5
  <2>4. request \in Seq(Words)
    <3>1. thread[b].command \in COMMANDS_ALOWED
      BY <1>0, <1>2 DEF WritersReady
    <3>2. thread[b].command \in Words
      BY <3>1 DEF Words
    <3> QED BY <3>2, OneElement, Zenon
  <2>5. response # <<>> /\ Last(response) = Newline
    <3>1. thread[b].response \in Seq(Pieces)
      BY <1>6 DEF Threads
    <3>2. Len(thread[b].response) \in Nat
      BY <3>1, LenProperties
    <3> QED BY <1>3, <1>5, <1>17, <3>2, EmptySeq DEF done
  <2> HIDE DEF request
  <2>6. response = <<Text(request), Newline>>
    BY <1>3, <1>5, <2>2, <2>4, <2>5, WholeReply
  <2> QED BY <2>6 DEF request
<1>18. RecordedNext'
  <2>1. ASSUME NEW o \in Browsers, At(o, "recording")', thread'[o].alone
        PROVE  thread'[o].response = <<Text(<<thread'[o].command>>), Newline>>
    <3>1. CASE o = b
      BY <1>7, <1>8, <1>17, <2>1, <3>1 DEF At
    <3>2. CASE o # b
      BY <1>0, <1>8, <2>1, <3>2 DEF RecordedNext, At
    <3> QED BY <3>1, <3>2
  <2> QED BY <2>1 DEF RecordedNext
<1>19. QuietExchangeMatched'
  BY <1>0, <1>2 DEF QuietExchangeMatched
<1> QED BY <1>9, <1>10, <1>11, <1>12, <1>14, <1>16, <1>18, <1>19 DEF IInv

\* A step of the server leaves the threads alone: of the invariant only the
\* types, the pieces and the lone exchange are at stake.
LEMMA ServerStep ==
    ASSUME IInv, UNCHANGED <<thread, records>>, ~Closed', Typed',
           PiecesAlternate', NothingLeftOver',
           \A b \in InExchanges : OneExchange(b) => OneExchange(b)'
    PROVE  IInv'
<1>0. /\ WritersReady /\ AloneIsAlone /\ LoneExchange /\ RecordedNext /\ QuietExchangeMatched
  BY DEF IInv
<1>1. InExchanges' = InExchanges
  BY DEF InExchanges, InExchange, At
<1>2. WritersReady' /\ RecordedNext' /\ QuietExchangeMatched'
  BY <1>0 DEF WritersReady, RecordedNext, QuietExchangeMatched, At
<1>3. AloneIsAlone' /\ LoneExchange'
  BY <1>0, <1>1 DEF AloneIsAlone, LoneExchange
<1> QED BY <1>2, <1>3 DEF IInv

LEMMA ServerReadKeeps ==
    ASSUME IInv, ServerRead
    PROVE  IInv'
<1>0. /\ Typed /\ WritersReady /\ (~Closed => PiecesAlternate /\ NothingLeftOver)
      /\ AloneIsAlone /\ LoneExchange /\ RecordedNext /\ QuietExchangeMatched
  BY DEF IInv
<1>1. PICK n \in 1..Len(commands) :
        /\ server' = [pc |-> "replying", request |-> SubSeq(commands, 1, n)]
        /\ commands' = SubSeq(commands, n + 1, Len(commands))
  BY Zenon DEF ServerRead
<1>2. server.pc = "reading" /\ UNCHANGED <<thread, replies, records>>
  BY Zenon DEF ServerRead
<1>3. ~Closed /\ ~Closed' /\ Owed = 0 /\ Owed' = 2
  BY <1>1, <1>2 DEF Closed, Owed
<1>4. /\ SubSeq(commands, 1, n) \in Seq(COMMANDS_ALOWED) /\ Len(SubSeq(commands, 1, n)) = n
      /\ \A i \in 1..n : SubSeq(commands, 1, n)[i] = commands[i]
      /\ commands' \in Seq(COMMANDS_ALOWED) /\ Len(commands') = Len(commands) - n
      /\ Len(commands) \in Nat /\ n \in Nat /\ n >= 1 /\ n <= Len(commands)
  BY <1>0, <1>1, TakenApart, LenProperties DEF Typed
<1>5. Typed'
  BY <1>0, <1>1, <1>2, <1>4 DEF Typed
<1>6. Len(replies) \in Nat /\ replies' = replies
  BY <1>0, <1>2 DEF Typed
<1>7. PiecesAlternate'
  <2>1. \A i \in 1..Len(replies) : (replies[i] = Newline) <=> (Len(replies) - i) % 2 = 0
    BY <1>0, <1>3, <1>6 DEF PiecesAlternate
  <2>2. \A i \in 1..Len(replies) :
          ((Len(replies) + 2 - i) % 2 = 0) <=> ((Len(replies) - i) % 2 = 0)
    BY <1>6
  <2> QED BY <1>3, <1>6, <2>1, <2>2 DEF PiecesAlternate
<1>8. NothingLeftOver'
  <2>1. /\ IsFiniteSet(InExchanges) /\ Cardinality(InExchanges) \in Nat
        /\ 2 * Len(commands) + Len(replies) <= 2 * Cardinality(InExchanges)
    BY <1>0, <1>3, <1>6, FS_CardinalityType DEF NothingLeftOver
  <2>2. InExchanges' = InExchanges
    BY <1>2 DEF InExchanges, InExchange, At
  <2>3. 2 * Len(commands') + Len(replies) + 2 <= 2 * Cardinality(InExchanges)
    BY <1>4, <1>6, <2>1
  <2> QED BY <1>3, <1>6, <2>1, <2>2, <2>3 DEF NothingLeftOver
<1>9. ASSUME NEW b \in InExchanges, OneExchange(b) PROVE OneExchange(b)'
  <2> DEFINE c == thread[b].command
  <2>1. commands # <<>>
    BY <1>4
  <2>2. commands = <<c>> /\ thread[b].response \o replies = <<>>
    BY <1>2, <1>9, <2>1 DEF OneExchange
  <2>3. c \in COMMANDS_ALOWED
    BY <1>0, <1>9 DEF WritersReady, InExchanges, InExchange
  <2> HIDE DEF c
  <2>4. Len(<<c>>) = 1 /\ <<c>>[1] = c
    BY <2>3, OneElement, Zenon
  <2>5. n = 1 /\ Len(commands') = 0
    BY <1>4, <2>2, <2>4
  <2>6. commands' = <<>>
    BY <1>4, <2>5, EmptySeq
  <2>7. SubSeq(commands, 1, n) = <<c>>
    <3>1. n = Len(commands)
      BY <2>2, <2>4, <2>5
    <3> QED BY <1>0, <2>2, <3>1, SubSeqFull DEF Typed
  <2>8. server'.pc = "replying" /\ server'.request = <<c>>
    BY <1>1, <2>7
  <2>9. thread' = thread
    BY <1>2
  <2> QED BY <1>6, <2>2, <2>6, <2>8, <2>9 DEF OneExchange, c
<1> QED BY <1>2, <1>3, <1>5, <1>7, <1>8, <1>9, ServerStep

LEMMA ServerReplyKeeps ==
    ASSUME IInv, ServerReply
    PROVE  IInv'
<1>0. /\ Typed /\ WritersReady /\ (~Closed => PiecesAlternate /\ NothingLeftOver)
      /\ AloneIsAlone /\ LoneExchange /\ RecordedNext /\ QuietExchangeMatched
  BY DEF IInv
<1>1. /\ server.pc = "replying" /\ UNCHANGED <<thread, commands, records>>
      /\ replies' = Append(replies, Text(server.request))
      /\ server' = [server EXCEPT !.pc = "ending"]
  BY Zenon DEF ServerReply
<1>2. /\ server \in [pc : {"reading", "replying", "ending", "closed"}, request : Seq(COMMANDS_ALOWED)]
      /\ replies \in Seq(Pieces) /\ Len(replies) \in Nat
      /\ commands \in Seq(COMMANDS_ALOWED) /\ Len(commands) \in Nat
  BY <1>0 DEF Typed
<1>3. /\ server' \in [pc : {"reading", "replying", "ending", "closed"}, request : Seq(COMMANDS_ALOWED)]
      /\ server'.pc = "ending" /\ server'.request = server.request
  BY <1>1, <1>2
<1>4. ~Closed /\ ~Closed' /\ Owed = 2 /\ Owed' = 1
  BY <1>1, <1>3 DEF Closed, Owed
<1>5. Text(server.request) \in Pieces /\ Text(server.request) # Newline
  <2>1. server.request \in Seq(Words)
    BY <1>2, SeqMonotonic DEF Words
  <2> QED BY <2>1, PieceTypes, Zenon
<1>6. /\ replies' \in Seq(Pieces) /\ Len(replies') = Len(replies) + 1
      /\ \A i \in 1..Len(replies) : replies'[i] = replies[i]
      /\ replies'[Len(replies) + 1] = Text(server.request)
  BY <1>1, <1>2, <1>5, AppendType
<1>7. Typed'
  BY <1>0, <1>1, <1>3, <1>6 DEF Typed
<1>8. PiecesAlternate'
  <2>1. \A i \in 1..Len(replies) : (replies[i] = Newline) <=> (Len(replies) + 2 - i) % 2 = 0
    BY <1>0, <1>4 DEF PiecesAlternate
  <2>2. ASSUME NEW i \in 1..(Len(replies) + 1)
        PROVE  (replies'[i] = Newline) <=> (Len(replies) + 2 - i) % 2 = 0
    <3>1. CASE i = Len(replies) + 1
      <4>1. (Len(replies) + 2 - i) % 2 = 1
        BY <1>2, <3>1
      <4> QED BY <1>5, <1>6, <3>1, <4>1
    <3>2. CASE i # Len(replies) + 1
      <4>1. i \in 1..Len(replies)
        BY <1>2, <3>2
      <4> QED BY <1>6, <2>1, <4>1
    <3> QED BY <3>1, <3>2
  <2>3. \A i \in 1..(Len(replies) + 1) : Len(replies) + 1 + 1 - i = Len(replies) + 2 - i
    BY <1>2
  <2> QED BY <1>4, <1>6, <2>2, <2>3 DEF PiecesAlternate
<1>9. NothingLeftOver'
  <2>1. /\ IsFiniteSet(InExchanges) /\ Cardinality(InExchanges) \in Nat
        /\ 2 * Len(commands) + Len(replies) + 2 <= 2 * Cardinality(InExchanges)
    BY <1>0, <1>4, FS_CardinalityType DEF NothingLeftOver
  <2>2. InExchanges' = InExchanges
    BY <1>1 DEF InExchanges, InExchange, At
  <2>3. 2 * Len(commands) + (Len(replies) + 1) + 1 <= 2 * Cardinality(InExchanges)
    BY <1>2, <2>1
  <2> QED BY <1>1, <1>4, <1>6, <2>1, <2>2, <2>3 DEF NothingLeftOver
<1>10. ASSUME NEW b \in InExchanges, OneExchange(b) PROVE OneExchange(b)'
  <2> DEFINE request == <<thread[b].command>>
  <2>1. commands = <<>> /\ server.request = request /\ thread[b].response \o replies = <<>>
    BY <1>1, <1>10 DEF OneExchange
  <2>2. thread[b].response \in Seq(Pieces)
    BY <1>0, <1>10 DEF Typed, InExchanges, Threads
  <2> HIDE DEF request
  <2>3. thread[b].response \o replies' = Append(thread[b].response \o replies, Text(request))
    <3>1. \A x, y \in Seq(Pieces), e \in Pieces : x \o Append(y, e) = Append(x \o y, e)
      BY ConcatAppend
    <3> QED BY <1>1, <1>2, <1>5, <2>1, <2>2, <3>1
  <2>4. thread[b].response \o replies' = <<Text(request)>>
    BY <2>1, <2>3
  <2>5. thread' = thread /\ commands' = <<>>
    BY <1>1, <2>1
  <2> QED BY <1>3, <2>4, <2>5 DEF OneExchange, request
<1> QED BY <1>1, <1>4, <1>7, <1>8, <1>9, <1>10, ServerStep

LEMMA ServerNewlineKeeps ==
    ASSUME IInv, ServerNewline
    PROVE  IInv'
<1>0. /\ Typed /\ WritersReady /\ (~Closed => PiecesAlternate /\ NothingLeftOver)
      /\ AloneIsAlone /\ LoneExchange /\ RecordedNext /\ QuietExchangeMatched
  BY DEF IInv
<1>1. /\ server.pc = "ending" /\ UNCHANGED <<thread, commands, records>>
      /\ replies' = Append(replies, Newline)
      /\ server' = [pc |-> "reading", request |-> <<>>]
  BY Zenon DEF ServerNewline
<1>2. /\ replies \in Seq(Pieces) /\ Len(replies) \in Nat
      /\ commands \in Seq(COMMANDS_ALOWED) /\ Len(commands) \in Nat
  BY <1>0 DEF Typed
<1>3. ~Closed /\ ~Closed' /\ Owed = 1 /\ Owed' = 0
  BY <1>1 DEF Closed, Owed
<1>4. /\ replies' \in Seq(Pieces) /\ Len(replies') = Len(replies) + 1
      /\ \A i \in 1..Len(replies) : replies'[i] = replies[i]
      /\ replies'[Len(replies) + 1] = Newline
  BY <1>1, <1>2, PieceTypes, AppendType
<1>5. Typed'
  BY <1>0, <1>1, <1>4 DEF Typed
<1>6. PiecesAlternate'
  <2>1. \A i \in 1..Len(replies) : (replies[i] = Newline) <=> (Len(replies) + 1 - i) % 2 = 0
    BY <1>0, <1>3 DEF PiecesAlternate
  <2>2. ASSUME NEW i \in 1..(Len(replies) + 1)
        PROVE  (replies'[i] = Newline) <=> (Len(replies) + 1 - i) % 2 = 0
    <3>1. CASE i = Len(replies) + 1
      <4>1. (Len(replies) + 1 - i) % 2 = 0
        BY <1>2, <3>1
      <4> QED BY <1>4, <3>1, <4>1
    <3>2. CASE i # Len(replies) + 1
      <4>1. i \in 1..Len(replies)
        BY <1>2, <3>2
      <4> QED BY <1>4, <2>1, <4>1
    <3> QED BY <3>1, <3>2
  <2>3. \A i \in 1..(Len(replies) + 1) : Len(replies) + 1 + 0 - i = Len(replies) + 1 - i
    BY <1>2
  <2> QED BY <1>3, <1>4, <2>2, <2>3 DEF PiecesAlternate
<1>7. NothingLeftOver'
  <2>1. /\ IsFiniteSet(InExchanges) /\ Cardinality(InExchanges) \in Nat
        /\ 2 * Len(commands) + Len(replies) + 1 <= 2 * Cardinality(InExchanges)
    BY <1>0, <1>3, FS_CardinalityType DEF NothingLeftOver
  <2>2. InExchanges' = InExchanges
    BY <1>1 DEF InExchanges, InExchange, At
  <2>3. 2 * Len(commands) + (Len(replies) + 1) + 0 <= 2 * Cardinality(InExchanges)
    BY <1>2, <2>1
  <2> QED BY <1>1, <1>3, <1>4, <2>1, <2>2, <2>3 DEF NothingLeftOver
<1>8. ASSUME NEW b \in InExchanges, OneExchange(b) PROVE OneExchange(b)'
  <2> DEFINE text == Text(<<thread[b].command>>)
  <2>1. commands = <<>> /\ thread[b].response \o replies = <<text>>
    BY <1>1, <1>8 DEF OneExchange
  <2>2. thread[b].response \in Seq(Pieces)
    BY <1>0, <1>8 DEF Typed, InExchanges, Threads
  <2> HIDE DEF text
  <2>3. thread[b].response \o replies' = Append(thread[b].response \o replies, Newline)
    <3>1. \A x, y \in Seq(Pieces), e \in Pieces : x \o Append(y, e) = Append(x \o y, e)
      BY ConcatAppend
    <3> QED BY <1>1, <1>2, <2>2, <3>1, PieceTypes
  <2>4. thread[b].response \o replies' = <<text, Newline>>
    <3>0. text \in Pieces
      <4>1. thread[b].command \in COMMANDS_ALOWED
        BY <1>0, <1>8 DEF WritersReady, InExchanges, InExchange
      <4>2. thread[b].command \in Words
        BY <4>1 DEF Words
      <4> QED BY <4>2, OneElement, PieceTypes, Zenon DEF text
    <3>1. Append(<<text>>, Newline) = <<text, Newline>>
      BY <3>0, PieceTypes, AppendToOne, Zenon
    <3> QED BY <2>1, <2>3, <3>1, Zenon
  <2>5. thread' = thread /\ commands' = <<>> /\ server'.pc = "reading"
    BY <1>1, <2>1
  <2> QED BY <2>4, <2>5 DEF OneExchange, text
<1> QED BY <1>1, <1>3, <1>5, <1>6, <1>7, <1>8, ServerStep

LEMMA ServerTimesOutKeeps ==
    ASSUME IInv, ServerTimesOut
    PROVE  IInv'
<1>0. Typed /\ WritersReady /\ QuietExchangeMatched
  BY DEF IInv
<1>1. /\ replies' = replies \o <<TimeOutText, Newline>>
      /\ server' = [pc |-> "closed", request |-> <<>>]
      /\ thread' = [b \in Browsers |-> [thread[b] EXCEPT !.alone = FALSE]]
      /\ UNCHANGED <<commands, records>>
  BY Zenon DEF ServerTimesOut
<1>2. TimeOutText \in Pieces
  <2>1. "Time Out" \in Words
    BY DEF Words
  <2>2. <<"Time Out">> \in Seq(Words)
    BY <2>1, OneElement, Zenon
  <2> QED BY <2>2, PieceTypes, Zenon DEF TimeOutText
<1>3. replies' \in Seq(Pieces)
  <2>1. <<TimeOutText, Newline>> \in Seq(Pieces)
    BY <1>2, PieceTypes, TwoElements, Zenon
  <2> QED BY <1>0, <1>1, <2>1, ConcatLength DEF Typed
<1>4. ASSUME NEW b \in Browsers
      PROVE  /\ thread'[b] \in Threads /\ thread'[b].pc = thread[b].pc /\ ~thread'[b].alone
             /\ thread'[b].command = thread[b].command /\ thread'[b].response = thread[b].response
  <2>1. thread[b] \in Threads /\ thread'[b] = [thread[b] EXCEPT !.alone = FALSE]
    BY <1>0, <1>1 DEF Typed
  <2> QED BY <2>1 DEF Threads
<1>5. Typed'
  <2>1. thread' \in [Browsers -> Threads]
    BY <1>1, <1>4
  <2> QED BY <1>0, <1>1, <1>3, <2>1 DEF Typed
<1>6. Closed'
  BY <1>1 DEF Closed
<1>7. WritersReady' /\ QuietExchangeMatched'
  BY <1>0, <1>1, <1>4 DEF WritersReady, At, QuietExchangeMatched
<1>8. AloneIsAlone' /\ LoneExchange' /\ RecordedNext'
  BY <1>4 DEF AloneIsAlone, LoneExchange, RecordedNext, InExchanges
<1> QED BY <1>4, <1>5, <1>6, <1>7, <1>8 DEF IInv

LEMMA InvNext ==
    ASSUME IInv, [ProxyNext]_proxyVars
    PROVE  IInv'
<1>1. ASSUME NEW b \in Browsers, Accept(b) PROVE IInv'
  BY <1>1, AcceptKeeps
<1>2. ASSUME NEW b \in Browsers, Exchange(b) PROVE IInv'
  BY <1>2, WriteCommandKeeps, ReadReplyKeeps, RecordKeeps DEF Exchange
<1>3. ASSUME NEW b \in Browsers, StreamFails(b) PROVE IInv'
  BY <1>3, StreamFailsKeeps
<1>4. CASE Server
  BY <1>4, ServerReadKeeps, ServerReplyKeeps, ServerNewlineKeeps DEF Server
<1>5. CASE ServerTimesOut
  BY <1>5, ServerTimesOutKeeps
<1>6. CASE UNCHANGED proxyVars
  BY <1>6 DEF IInv, Typed, WritersReady, PiecesAlternate, NothingLeftOver, Owed, AloneIsAlone,
              LoneExchange, OneExchange, RecordedNext, QuietExchangeMatched, InExchanges,
              InExchange, At, Closed, proxyVars
<1> QED BY <1>1, <1>2, <1>3, <1>4, <1>5, <1>6 DEF ProxyNext

-----------------------------------------------------------------------------
(* The theorems *)

\* The inductive invariant holds.
THEOREM Invariance == ProxySpec => []IInv
<1> QED BY InvInit, InvNext, PTL DEF ProxySpec

\* The threads' states, the commands on their way and the pieces of the replies
\* are what they should be: the server is never asked anything but commands
\* that are let through.
THEOREM ProxyTypeCorrect == ProxySpec => []ProxyTypeOK
<1>1. IInv => ProxyTypeOK
  BY DEF IInv, Typed, Threads, ProxyTypeOK
<1> QED BY <1>1, Invariance, PTL

\* Two threads that read each other's replies on the unlocked stream never leave
\* anything for the next one: a browser nobody disturbed gets the reply to its
\* own command, and all of it.
THEOREM QuietExchanges == ProxySpec => []QuietExchangeMatched
<1>1. IInv => QuietExchangeMatched
  BY DEF IInv
<1> QED BY <1>1, Invariance, PTL

\* When no thread is in an exchange, nothing is left on the stream for the next
\* one to read, unless the server has closed it.
THEOREM QuietStream == ProxySpec => []NothingOnTheStream
<1>1. IInv => NothingOnTheStream
  <2> SUFFICES ASSUME IInv, ~Closed, \A b \in Browsers : ~InExchange(b)
               PROVE  commands = <<>> /\ replies = <<>> /\ server.pc = "reading"
    BY DEF NothingOnTheStream
  <2>1. Typed /\ NothingLeftOver
    BY DEF IInv
  <2>2. InExchanges = {}
    BY DEF InExchanges
  <2>3. 2 * Len(commands) + Len(replies) + Owed <= 0
    BY <2>1, <2>2, FS_EmptySet DEF NothingLeftOver
  <2>4. Len(commands) \in Nat /\ Len(replies) \in Nat /\ Owed \in 0..2
    BY <2>1 DEF Typed, Owed
  <2>5. Len(commands) = 0 /\ Len(replies) = 0 /\ Owed = 0
    BY <2>3, <2>4
  <2>6. commands = <<>> /\ replies = <<>>
    BY <2>1, <2>5, EmptySeq DEF Typed
  <2>7. server.pc = "reading"
    BY <2>1, <2>5 DEF Typed, Owed, Closed
  <2> QED BY <2>6, <2>7
<1> QED BY <1>1, Invariance, PTL

====
