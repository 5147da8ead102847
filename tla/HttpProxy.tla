---- MODULE HttpProxy ----
(***************************************************************************)
(* The HTTP front end (http_server): one thread for each connection of a   *)
(* browser, all of them on clones of one stream to the server, which is    *)
(* locked by nobody.  A thread writes its command and reads until what it  *)
(* has read ends with a newline.                                           *)
(*                                                                         *)
(* TCP keeps the order of the bytes and not the borders of the writes: the *)
(* server reads any number of waiting commands as one request, and a       *)
(* thread any number of waiting pieces of replies.  The server's side of   *)
(* the stream is handle_client: a request, its reply in two pieces (the    *)
(* text and the newline), and a time-out that closes the connection.       *)
(***************************************************************************)
EXTENDS SequencesExt, Naturals

CONSTANTS Browsers,           \* the connections that may be open at once
          COMMANDS_ALOWED,    \* the names of the commands let through
          Posts,              \* what browsers post, see below
          TimesOut,           \* the server is configured with a read timeout
          MaxPosts            \* bound: posts of one browser

\* A word of an HTTP request: whether it contains "to", whether it is longer
\* than three characters, and the command that is left without the first three.
Word(to, long, command) == [to |-> to, long |-> long, command |-> command]

\* The page sends its field as to=<command>; a header may contain "to" as well.
Body(command) == Word(TRUE, TRUE, command)
Header == Word(FALSE, TRUE, "")
HeaderWithTo == Word(TRUE, TRUE, "intosh")
ShortTo == Word(TRUE, FALSE, "")

ASSUME HttpProxyAssumption ==
    /\ \A post \in Posts : post \in Seq([to : BOOLEAN, long : BOOLEAN, command : STRING])
    /\ TimesOut \in BOOLEAN /\ MaxPosts \in Nat

VARIABLES thread,     \* the state of each browser's thread
          commands,   \* bytes on their way to the server
          replies,    \* bytes on their way back
          server,     \* what handle_client does: its state and its request
          records     \* every command with its response, shared by the threads

proxyVars == <<thread, commands, replies, server, records>>

\* The reply to a request, which may be several commands read as one, and the
\* newline that ends it.
Text(request) == [piece |-> "text", request |-> request]
Newline == [piece |-> "newline", request |-> <<>>]
TimeOutText == Text(<<"Time Out">>)

Thread(pc, left) == [pc |-> pc, command |-> "", response |-> <<>>, alone |-> FALSE, left |-> left]

ProxyInit ==
    /\ thread = [b \in Browsers |-> Thread("idle", MaxPosts)]
    /\ commands = <<>>
    /\ replies = <<>>
    /\ server = [pc |-> "reading", request |-> <<>>]
    /\ records = {}

-----------------------------------------------------------------------------
(* The threads *)

At(b, pc) == thread[b].pc = pc

Becomes(b, t) == thread' = [thread EXCEPT ![b] = t]

Closed == server.pc = "closed"

\* A thread whose command the server has, or will have, and that has not read
\* its reply yet.
InExchange(b) == At(b, "reading")

\* get_command: where the first word with "to" in it is, or 0.  That word
\* without three characters is the command; no such word, or a shorter one,
\* panics.
FirstWithTo(words) == SelectInSeq(words, LAMBDA w : w.to)

\* Mutant: whatever comes is let through.
AllowedAlways(command) == TRUE

Allowed(command) == command \in COMMANDS_ALOWED

\* handle_connection up to the list of allowed commands.  A command that is not
\* on it is answered here.
Accept(b) ==
    /\ At(b, "idle") /\ thread[b].left > 0
    /\ \E words \in Posts :
          LET found == FirstWithTo(words)
              left == thread[b].left - 1
          IN  IF found = 0 \/ ~words[found].long THEN Becomes(b, Thread("panicked", left))
              ELSE LET command == words[found].command
                   IN  Becomes(b, IF Allowed(command)
                                  THEN [Thread("writing", left) EXCEPT !.command = command]
                                  ELSE [Thread("recording", left) EXCEPT
                                           !.command = command,
                                           !.response = <<Text(<<"Non existent Request">>)>>])
    /\ UNCHANGED <<commands, replies, server, records>>

\* stream.write_all; from here on two threads in an exchange are in each
\* other's way.
WriteCommand(b) ==
    LET alone == ~Closed /\ \A o \in Browsers : ~InExchange(o)
    IN  /\ At(b, "writing")
        /\ commands' = IF Closed THEN commands ELSE Append(commands, thread[b].command)
        /\ thread' = [o \in Browsers |->
                        CASE o = b -> [thread[b] EXCEPT !.pc = "reading", !.alone = alone]
                          [] InExchange(o) -> [thread[o] EXCEPT !.alone = FALSE]
                          [] OTHER -> thread[o]]
        /\ UNCHANGED <<replies, server, records>>

\* The server is gone: a write fails, or the read after it does, and is unwrapped.
StreamFails(b) ==
    /\ Closed
    /\ At(b, "writing") \/ At(b, "reading")
    /\ Becomes(b, Thread("panicked", thread[b].left))
    /\ UNCHANGED <<commands, replies, server, records>>

\* Mutant: the first read is taken for the reply.
ReadReplyOnce(b) ==
    /\ At(b, "reading")
    /\ \E n \in 1..Len(replies) :
          /\ replies' = SubSeq(replies, n + 1, Len(replies))
          /\ Becomes(b, [thread[b] EXCEPT !.response = SubSeq(replies, 1, n), !.pc = "recording"])
    /\ UNCHANGED <<commands, server, records>>

\* One turn of secure_read's loop.  At the end of a closed stream read returns
\* no byte again and again, and the loop never ends: no step here.
ReadReply(b) ==
    /\ At(b, "reading")
    /\ \E n \in 1..Len(replies) :
          LET response == thread[b].response \o SubSeq(replies, 1, n)
          IN  /\ replies' = SubSeq(replies, n + 1, Len(replies))
              /\ Becomes(b, [thread[b] EXCEPT
                                !.response = response,
                                !.pc = IF Last(response) = Newline THEN "recording" ELSE @])
    /\ UNCHANGED <<commands, server, records>>

\* The pair goes into the shared list, the page out to the browser.
Record(b) ==
    /\ At(b, "recording")
    /\ records' = records \cup {[command |-> thread[b].command, response |-> thread[b].response,
                                 alone |-> thread[b].alone]}
    /\ Becomes(b, Thread("idle", thread[b].left))
    /\ UNCHANGED <<commands, replies, server>>

-----------------------------------------------------------------------------
(* handle_client, at the other end *)

ServerRead ==
    /\ server.pc = "reading"
    /\ \E n \in 1..Len(commands) :
          /\ server' = [pc |-> "replying", request |-> SubSeq(commands, 1, n)]
          /\ commands' = SubSeq(commands, n + 1, Len(commands))
    /\ UNCHANGED <<thread, replies, records>>

\* writeln! writes the text and the newline one after the other.
ServerReply ==
    /\ server.pc = "replying"
    /\ replies' = Append(replies, Text(server.request))
    /\ server' = [server EXCEPT !.pc = "ending"]
    /\ UNCHANGED <<thread, commands, records>>

\* Mutant: respond writes the text alone.
ServerNewlineNot ==
    /\ server.pc = "ending"
    /\ server' = [pc |-> "reading", request |-> <<>>]
    /\ UNCHANGED <<thread, commands, replies, records>>

ServerNewline ==
    /\ server.pc = "ending"
    /\ replies' = Append(replies, Newline)
    /\ server' = [pc |-> "reading", request |-> <<>>]
    /\ UNCHANGED <<thread, commands, records>>

\* parse_request times out: the client is told, and its thread ends.
ServerTimesOut ==
    /\ TimesOut /\ server.pc = "reading" /\ commands = <<>>
    /\ replies' = replies \o <<TimeOutText, Newline>>
    /\ server' = [pc |-> "closed", request |-> <<>>]
    /\ thread' = [b \in Browsers |-> [thread[b] EXCEPT !.alone = FALSE]]
    /\ UNCHANGED <<commands, records>>

Server == ServerRead \/ ServerReply \/ ServerNewline

Exchange(b) == WriteCommand(b) \/ ReadReply(b) \/ Record(b)

ProxyNext == \/ \E b \in Browsers : Accept(b) \/ Exchange(b) \/ StreamFails(b)
             \/ Server \/ ServerTimesOut

ProxySpec == ProxyInit /\ [][ProxyNext]_proxyVars

\* The threads of both programs run.
ProxyFairSpec == ProxySpec /\ WF_proxyVars(Server) /\ \A b \in Browsers : WF_proxyVars(Exchange(b))

-----------------------------------------------------------------------------

\* What a reply is about: commands let through, and the two answers that are no
\* command's reply.
Words == COMMANDS_ALOWED \cup {"Time Out", "Non existent Request"}

Pieces == [piece : {"text", "newline"}, request : Seq(Words)]

ProxyTypeOK ==
    /\ \A b \in Browsers :
          /\ thread[b].pc \in {"idle", "writing", "reading", "recording", "panicked"}
          /\ thread[b].response \in Seq(Pieces)
          /\ thread[b].left \in 0..MaxPosts
    /\ commands \in Seq(COMMANDS_ALOWED)
    /\ replies \in Seq(Pieces)
    /\ server.pc \in {"reading", "replying", "ending", "closed"}

\* A browser nobody disturbed gets the reply to its own command, whole and
\* nothing else, whatever the others did to each other before: two that
\* overlapped leave no reply behind for the next one.
QuietExchangeMatched ==
    \A r \in records : r.alone => r.response = <<Text(<<r.command>>), Newline>>

\* Nothing is on the stream, and the server owes nothing, when no thread is in
\* an exchange and the server has not closed the connection.
NothingOnTheStream ==
    ~Closed /\ (\A b \in Browsers : ~InExchange(b)) =>
        commands = <<>> /\ replies = <<>> /\ server.pc = "reading"

\* A browser that is alone with the server gets its answer, unless another one
\* comes in its way or the server closes the connection.
QuietBrowserAnswered ==
    \A b \in Browsers :
        InExchange(b) /\ thread[b].alone ~> ~InExchange(b) \/ ~thread[b].alone

====
