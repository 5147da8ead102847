---- MODULE Sort ----
(***************************************************************************)
(* SORT: the words after the key are read as flags (request.rs), the       *)
(* elements of the list or set are ordered and cut by them (database.rs).  *)
(* Everything happens on a copy of the elements, made while the shard was  *)
(* locked.                                                                 *)
(*                                                                         *)
(* BY takes the weights of the elements from other keys; `matching` is the *)
(* sequence of those that match its pattern and exist, with their values,  *)
(* in the order keys() lists them.                                         *)
(***************************************************************************)
EXTENDS StorageValue

\* The words of the request that name a flag.
AlphaWord == <<20>>
DescWord == <<21>>
LimitWord == <<22>>
ByWord == <<23>>

WithoutFlags == [flag |-> "WithoutFlags"]
Alpha == [flag |-> "Alpha"]
Desc == [flag |-> "Desc"]
Limit(pos_begin, num_elems) == [flag |-> "Limit", pos_begin |-> pos_begin, num_elems |-> num_elems]
By(pattern) == [flag |-> "By", pattern |-> pattern]
CompositeFlags(flags) == [flag |-> "CompositeFlags", flags |-> flags]
InvalidSort == [flag |-> "Invalid"]

\* The reply of a thread that indexes out of bounds.
Panics == [type |-> "Panics"]

-----------------------------------------------------------------------------
(* From words to flags *)

\* The words after the first occurrence of w.
After(tail, w) == SubSeq(tail, SelectInSeq(tail, LAMBDA x : x = w) + 1, Len(tail))

Mentions(tail, w) == w \in ToSet(tail)

HasLimit(tail) == Mentions(tail, LimitWord) /\ Len(After(tail, LimitWord)) >= 2

\* LIMIT followed by two words that are no numbers, BY followed by nothing.
Unusable(tail) ==
    \/ HasLimit(tail) /\ ~(IsInteger(After(tail, LimitWord)[1]) /\ IsInteger(After(tail, LimitWord)[2]))
    \/ Mentions(tail, ByWord) /\ After(tail, ByWord) = <<>>

\* What one word contributes; LIMIT without two words after it is ignored, as
\* is every word that names no flag.
FlagsOf(tail, w) ==
    CASE w = AlphaWord -> <<Alpha>>
      [] w = DescWord -> <<Desc>>
      [] w = LimitWord /\ HasLimit(tail) ->
             <<Limit(NumberOf(After(tail, LimitWord)[1]), NumberOf(After(tail, LimitWord)[2]))>>
      [] w = ByWord -> <<By(Head(After(tail, ByWord)))>>
      [] OTHER -> <<>>

\* A flag that is the whole tail stands alone; BY never does.
ParseSort(tail) ==
    IF tail = <<>> THEN WithoutFlags
    ELSE IF Unusable(tail) THEN InvalidSort
    ELSE IF tail \in {<<AlphaWord>>, <<DescWord>>} \/ (Len(tail) = 3 /\ tail[1] = LimitWord)
      THEN Head(FlagsOf(tail, tail[1]))
    ELSE CompositeFlags(FlattenSeq([i \in DOMAIN tail |-> FlagsOf(tail, tail[i])]))

-----------------------------------------------------------------------------
(* Ordering *)

StableSort(s, Less(_, _)) ==
    LET rank(i) == Cardinality({j \in DOMAIN s : \/ Less(s[j], s[i])
                                                 \/ ~Less(s[i], s[j]) /\ j < i})
    IN  [r \in DOMAIN s |-> s[CHOOSE i \in DOMAIN s : rank(i) = r - 1]]

\* The signs come before the digits in a String, the letters after them.
Byte(c) == CASE c = Plus -> -2 [] c = Minus -> -1 [] OTHER -> c

Lexically(s, t) ==
    \/ IsStrictPrefix(s, t)
    \/ \E i \in DOMAIN s \cap DOMAIN t : /\ SubSeq(s, 1, i - 1) = SubSeq(t, 1, i - 1)
                                         /\ Byte(s[i]) < Byte(t[i])

sort_alpha(to_order) == StableSort(to_order, Lexically)

\* The elements become numbers, are ordered, and become texts again.
Numerically(to_order, Less(_, _)) ==
    IF \A i \in DOMAIN to_order : IsInteger(to_order[i])
      THEN LET sorted == StableSort([i \in DOMAIN to_order |-> NumberOf(to_order[i])], Less)
           IN  Texts_([i \in DOMAIN sorted |-> TextOf(sorted[i])])
      ELSE Err("SortParseError")

sort_without_flags(to_order) == Numerically(to_order, <)
sort_desc(to_order) == Numerically(to_order, >)

IsSubstring(s, t) == \E i \in 0..(Len(t) - Len(s)) : SubSeq(t, i + 1, i + Len(s)) = s

\* The first matching key that has the element in its name and holds a string.
KeysFor(elem, matching) ==
    SelectSeq(matching, LAMBDA m : IsSubstring(elem, m.key) /\ m.value.type = "String")

Weight(elem, matching) ==
    LET found == KeysFor(elem, matching)
    IN  IF found = <<>> THEN 0 ELSE NumberOf(Head(found).value.string)

HasWeight(elem, matching) ==
    LET found == KeysFor(elem, matching)
    IN  found # <<>> => IsInteger(Head(found).value.string)

sort_by(to_order, matching) ==
    IF \A i \in DOMAIN to_order : HasWeight(to_order[i], matching)
      THEN Texts_(StableSort(to_order, LAMBDA s, t : Weight(s, matching) < Weight(t, matching)))
      ELSE Err("SortByParseError")

-----------------------------------------------------------------------------
(* Cutting *)

Cut(list, pos_begin, num_elems) ==
    [list |-> list, pos_begin |-> pos_begin, num_elems |-> num_elems]

FromHead(pos_begin) == IF pos_begin < 0 THEN 0 ELSE pos_begin

AtMost(num_elems, n) == IF num_elems < 0 \/ num_elems > n THEN n ELSE num_elems

\* Mutant: the list is cut already here, and once more when the reply is built.
limit_cuts(to_order, pos_begin, num_elems) ==
    IF pos_begin >= Len(to_order) \/ num_elems = 0
      THEN Cut(<<>>, pos_begin, num_elems)
      ELSE Cut(SubSeq(to_order, FromHead(pos_begin) + 1, Len(to_order)),
               FromHead(pos_begin), AtMost(num_elems, Len(to_order)))

\* limit returns the whole list or nothing, and corrects the two numbers that
\* build_sort_vector goes by; a count may still reach beyond the end.
limit(to_order, pos_begin, num_elems) ==
    IF pos_begin >= Len(to_order) \/ num_elems = 0
      THEN Cut(<<>>, pos_begin, num_elems)
      ELSE Cut(to_order, FromHead(pos_begin), AtMost(num_elems, Len(to_order)))

\* for i in pos_begin..(pos_begin + num_elems), in i32: to_build[i]
build_sort_vector(cut) ==
    LET end == Wrap(cut.pos_begin + cut.num_elems)
    IN  CASE end <= cut.pos_begin -> Texts_(<<>>)
          [] cut.pos_begin < end /\ (cut.pos_begin < 0 \/ end > Len(cut.list)) -> Panics
          [] OTHER -> Texts_(SubSeq(cut.list, cut.pos_begin + 1, end))

sort_limit(to_order, pos_begin, num_elems) ==
    LET cut == limit(to_order, pos_begin, num_elems)
        sorted == sort_without_flags(cut.list)
    IN  IF sorted.type = "Err" THEN sorted
        ELSE build_sort_vector([cut EXCEPT !.list = sorted.texts])

-----------------------------------------------------------------------------
(* The command *)

HasFlag(flags, name) == \E i \in DOMAIN flags : flags[i].flag = name

\* One flag after the other, on what the ones before it left.
Apply(cut, flag) ==
    CASE flag.flag = "Desc" -> [cut EXCEPT !.list = Reverse(cut.list)]
      [] flag.flag = "Limit" -> limit(cut.list, flag.pos_begin, flag.num_elems)
      [] OTHER -> cut

\* LIMIT and DESC alone have an arm of their own, which limits by the whole
\* length.  Otherwise the elements are ordered by BY, by ALPHA or not at all.
SortComposite(to_order, flags, matching) ==
    LET ordered == CASE HasFlag(flags, "By") -> sort_by(to_order, matching)
                     [] HasFlag(flags, "Alpha") /\ ~HasFlag(flags, "By") ->
                            Texts_(sort_alpha(to_order))
                     [] OTHER -> Texts_(to_order)
    IN  CASE Len(flags) = 2 /\ HasFlag(flags, "Limit") /\ HasFlag(flags, "Desc") ->
                 sort_desc(to_order)
          [] ordered.type = "Err" -> ordered
          [] OTHER -> build_sort_vector(
                          FoldLeft(Apply, Cut(ordered.texts, 0, Len(to_order)), flags))

_sort(to_order, sort_flags, matching) ==
    CASE sort_flags.flag = "WithoutFlags" -> sort_without_flags(to_order)
      [] sort_flags.flag = "Alpha" -> Texts_(sort_alpha(to_order))
      [] sort_flags.flag = "Desc" -> sort_desc(to_order)
      [] sort_flags.flag = "Limit" ->
             sort_limit(to_order, sort_flags.pos_begin, sort_flags.num_elems)
      [] sort_flags.flag = "CompositeFlags" ->
             SortComposite(to_order, sort_flags.flags, matching)

\* The replies SORT may give: a set lists its elements in any order.
Sorts(v, sort_flags, matching) ==
    CASE v = Absent -> {Texts_(<<>>)}
      [] IsList(v) -> {_sort(v.list, sort_flags, matching)}
      [] IsSet(v) -> {_sort(s, sort_flags, matching) : s \in SetToSeqs(v.set)}
      [] OTHER -> {Err("NotAList")}

====
