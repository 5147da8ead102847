---- MODULE ServerConf ----
(***************************************************************************)
(* The configuration (server_conf.rs): texts under option names, read from *)
(* a file at the start and changed by CONFIG SET while the server runs.    *)
(* Each operator is one critical section of the mutex around the texts.    *)
(*                                                                         *)
(* Texts are those of StorageValue.  A line of the file is the sequence of *)
(* its parts around "=", trimmed; a pattern is the set of the names it     *)
(* matches.                                                                *)
(***************************************************************************)
EXTENDS StorageValue, TLC

NUMERIC_KEYS == {"verbose", "timeout"}
INVALID_SETEABLE == {"logfile", "port", "dbfilename"}

DEFAULT_VERBOSE == 0
DEFAULT_TIMEOUT == 0
DEFAULT_PORT == 8888

default_values(dbfilename, logfile) ==
    [verbose |-> TextOf(DEFAULT_VERBOSE), port |-> TextOf(DEFAULT_PORT),
     timeout |-> TextOf(DEFAULT_TIMEOUT), dbfilename |-> dbfilename, logfile |-> logfile]

\* Each line of the file replaces or adds an option; a line with more or fewer
\* than two parts, an empty one too, makes the whole file unusable.
ReadFile(defaults, lines) ==
    IF \A i \in DOMAIN lines : Len(lines[i]) = 2
      THEN FoldLeft(LAMBDA conf, line : line[1] :> line[2] @@ conf, defaults, lines)
      ELSE Err("Invalid format config file")

\* A number, or the default when the text is none that is not negative.
NumberOr(text, default) == IF IsUnsigned(text) THEN NumberOf(text) ELSE default

port(conf) == NumberOr(conf["port"], DEFAULT_PORT)
time_out(conf) == NumberOr(conf["timeout"], DEFAULT_TIMEOUT)
verbose(conf) == NumberOr(conf["verbose"], DEFAULT_VERBOSE) # 0

get_config(conf, pattern) ==
    IF DOMAIN conf \cap pattern = {} THEN Err("NonExistentConfigOption")
    ELSE [type |-> "Options", options |-> [o \in DOMAIN conf \cap pattern |-> conf[o]]]

\* A number may be negative here.  The branch for "port" is never reached.
SetReply(conf, option, new_value) ==
    IF option \in NUMERIC_KEYS /\ ~IsLong(new_value) THEN Err("NotAnInteger")
    ELSE IF option \in INVALID_SETEABLE THEN Err("NoSeteableOption")
    ELSE IF option \in DOMAIN conf THEN Success
    ELSE Err("NonExistentConfigOption")

set_config(conf, option, new_value) ==
    IF SetReply(conf, option, new_value) = Success
      THEN [conf EXCEPT ![option] = new_value]
      ELSE conf

====
