---- MODULE MCStorageValue ----
(***************************************************************************)
(* One value under any sequence of the commands of StorageValue that       *)
(* change it: what each command must do to every value reached that way,   *)
(* and what SORT must make of it.                                          *)
(***************************************************************************)
EXTENDS Sort

CONSTANTS Elements,    \* the texts pushed, added and removed
          MaxLength    \* bound: elements of a list

ASSUME ElementsAssumption == Elements \subseteq Texts /\ MaxLength \in Nat

VARIABLE value

\* 10 comes before 2 as a text and after it as a number.
TwoNumbers == {<<2>>, <<1, 0>>}

Amounts == (-MaxInt - 1)..MaxInt
Counts == -(MaxLength + 1)..(MaxLength + 1)

VInit == value \in {String(TextOf(0)), List(<<>>), Set({})}

Changes(v) ==
    {lpop(v), rpop(v)}
    \cup {decrby(v, n) : n \in Amounts} \cup {incrby(v, n) : n \in Amounts}
    \cup {lrem(v, n, t) : n \in Counts, t \in Elements}
    \cup UNION {{lpush_one(v, t), rpush(v, <<t, t>>), lpushx(v, <<t>>), rpushx(v, <<t>>),
                 sadd_one(v, t), srem(v, <<t>>), lset(v, 0, t)} : t \in Elements}

VNext == \E change \in Changes(value) :
            /\ change.value.type = "List" => Len(change.value.list) <= MaxLength
            /\ value' = change.value

VSpec == VInit /\ [][VNext]_value

-----------------------------------------------------------------------------

\* The positions of `text`, and those of them LREM is to remove: all, or the
\* |count| nearest to the head or to the tail.
PositionsOf(list, text) == {i \in DOMAIN list : list[i] = text}

Doomed(list, count, text) ==
    LET all == PositionsOf(list, text)
        before(i) == Cardinality({j \in all : j < i})
        after(i) == Cardinality({j \in all : j > i})
    IN  CASE count = 0 -> all
          [] count > 0 -> {i \in all : before(i) < count}
          [] count < 0 -> {i \in all : after(i) < -count}

\* LREM removes those elements and no other, and the rest stays in order: the
\* loop that searches again after each removal loses and doubles nothing.
LremRemovesFromItsEnd ==
    value.type = "List" =>
        \A n \in Counts, t \in Elements :
            LET kept == DOMAIN value.list \ Doomed(value.list, n, t)
                rank(i) == Cardinality({j \in kept : j <= i})
                left == lrem(value, n, t).value.list
            IN  /\ Len(left) = Cardinality(kept)
                /\ \A i \in kept : left[rank(i)] = value.list[i]

\* INCRBY is DECRBY of the negated amount: at both ends of i32, where the
\* negation itself overflows, the one still undoes the other.
IncrbyUndoesDecrby ==
    value.type = "String" =>
        \A n \in Amounts : incrby(decrby(value, n).value, n).value = value

-----------------------------------------------------------------------------
(* SORT *)

\* The weights of the two numbers are in the order of their texts.
Matching == <<[key |-> <<20, 2>>, value |-> String(<<1>>)],
              [key |-> <<20, 1, 0>>, value |-> String(<<0>>)]>>

Orders == [None |-> <<>>, Alpha |-> <<AlphaWord>>, By |-> <<ByWord, <<20>>>>]

InOrder(kind, s, t) ==
    CASE kind = "None" -> NumberOf(s) <= NumberOf(t)
      [] kind = "Alpha" -> s = t \/ Lexically(s, t)
      [] kind = "By" -> Weight(s, Matching) <= Weight(t, Matching)

Elems(v) == IF IsList(v) THEN v.list ELSE SetToSeq(v.set)

\* All the words of a request, its blocks in any order.
Tails(blocks) == {FlattenSeq(p) : p \in SetToSeqs(blocks)}

Replies(v, tail) == Sorts(v, ParseSort(tail), Matching)

\* An ordered arrangement of all the elements.
IsArrangement(v, kind, desc, reply) ==
    LET n == Len(Elems(v))
    IN  /\ reply.type = "List" /\ Len(reply.texts) = n
        /\ \A t \in Elements : Cardinality(PositionsOf(reply.texts, t))
                             = Cardinality(PositionsOf(Elems(v), t))
        /\ \A i \in 1..(n - 1) :
              IF desc THEN InOrder(kind, reply.texts[i + 1], reply.texts[i])
                      ELSE InOrder(kind, reply.texts[i], reply.texts[i + 1])

\* LIMIT by numbers that stay inside the list, or begin at its head; beyond the
\* end, and so for any element of an empty list, the code panics.
Limits(n) == {cut \in (-1..n) \X (-1..(n + 1)) :
                 /\ cut[1] < n \/ cut[2] <= 0
                 /\ cut[1] <= 0 \/ (cut[2] >= 0 /\ cut[1] + cut[2] <= n)}

LimitBlock(cut) == <<LimitWord, TextOf(cut[1]), TextOf(cut[2])>>

\* The part of the list that LIMIT names; a negative count means all of it.
Limited(list, cut) ==
    LET p == IF cut[1] < 0 THEN 0 ELSE cut[1]
        m == IF cut[2] < 0 \/ cut[2] > Len(list) THEN Len(list) ELSE cut[2]
    IN  SubSeq(list, p + 1, p + m)

\* SORT with its flags in any order replies with every element once, in the
\* order the flags ask for (numbers, ALPHA, the weights of BY; DESC reverses),
\* and LIMIT cuts that very list, whether it stands before DESC or after it.
\* LIMIT and DESC without a third flag are left out: there the code ignores
\* the LIMIT.
SortAsDocumented ==
    value.type # "String" =>
        \A kind \in DOMAIN Orders, desc \in BOOLEAN :
            LET blocks == ({Orders[kind]} \cup (IF desc THEN {<<DescWord>>} ELSE {})) \ {<<>>}
                whole == UNION {Replies(value, tail) : tail \in Tails(blocks)}
            IN  /\ \A reply \in whole : IsArrangement(value, kind, desc, reply)
                /\ ~(kind = "None" /\ desc) =>
                      \A cut \in Limits(Len(Elems(value))) :
                          UNION {Replies(value, tail) :
                                    tail \in Tails(blocks \cup {LimitBlock(cut)})}
                          \subseteq {Texts_(Limited(reply.texts, cut)) : reply \in whole}

====
