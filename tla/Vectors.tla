---- MODULE Vectors ----
(***************************************************************************)
(* Vec::retain, by which the channels, UNSUBSCRIBE and LREM take elements  *)
(* off a list.                                                             *)
(***************************************************************************)
EXTENDS Sequences, Integers

\* The list without these elements; the others keep their order.
Without(list, elements) ==
    LET kept[n \in 0..Len(list)] ==
            IF n = 0 THEN <<>>
            ELSE IF list[n] \in elements THEN kept[n - 1] ELSE Append(kept[n - 1], list[n])
    IN  kept[Len(list)]

====
