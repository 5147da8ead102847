---- MODULE MCSessions ----
(***************************************************************************)
(* What the clients of Sessions send, and the configuration file.          *)
(***************************************************************************)
EXTENDS Sessions

CONSTANTS c1, c2

MCMaxRequests == c1 :> 2 @@ c2 :> 1

MCConfigFile == <<<<"verbose", TextOf(0)>>, <<"timeout", TextOf(5)>>>>

Verbose(n) == <<"config", "set", "verbose", TextOf(n)>>

\* One client listens, the other publishes, looks around and changes things.
MCSends ==
    c1 :> {<<"subscribe", "n", "Monitor">>, <<"unsubscribe">>,
           <<"monitor">>, <<"sort", "n", AlphaWord>>, <<"close">>} @@
    c2 :> {<<"publish", "n", "hola">>, Verbose(1), <<"monitor">>, <<"get", "n">>, <<"info">>,
           <<"touch", "n">>, <<"config", "get", {"port"}>>, <<"pubsub", "channels">>,
           <<"pubsub", "numsub", "n">>}

====
