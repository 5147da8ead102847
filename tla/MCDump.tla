---- MODULE MCDump ----
\* Names with and without punctuation, values with and without a comma.
EXTENDS Dump

a == <<12>>
b == <<13>>

\* "a,:0;:a,:-1", whose timeout is read as two of a, and "a:;,List", whose line
\* is read as an empty list of a.
retimes == a \o <<Comma, Colon, 0, Semicolon, Colon>> \o a \o <<Comma, Colon, Minus, 1>>
lists == a \o <<Colon, Semicolon, Comma>> \o ListWord

MCKeys == {a, b, retimes, lists}

MCFound == [k \in MCKeys |-> IF k = lists THEN Absent ELSE String(a)]
MCFoundTimeouts == [k \in MCKeys |-> IF k = a THEN 1 ELSE Persistent]

MCValues == {List(<<<<12, Comma, 13>>, <<13>>>>)}

====
