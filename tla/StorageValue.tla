---- MODULE StorageValue ----
(***************************************************************************)
(* The values of the key space and what each command of database.rs does   *)
(* to one of them while it holds the mutex of the key's shard.             *)
(*                                                                         *)
(* A text is a sequence of characters: 0..9 are the digits, Minus and Plus *)
(* the signs, any other number a letter.  Integers are wrapped to the      *)
(* width of the code's i32, whose magnitude is MaxInt here.                *)
(*                                                                         *)
(* Each operator named after a command returns the entry it leaves under   *)
(* the key (Absent when there is none) and the reply.  The handlers come   *)
(* here after their `_exists` check, so they meet an absent entry only     *)
(* when it went away in between.                                           *)
(***************************************************************************)
EXTENDS Integers, SequencesExt, Vectors

CONSTANTS Absent,   \* no entry under the key
          MaxInt,   \* i32::MAX, a power of two minus one
          MaxLong   \* i64::MAX

ASSUME IntAssumption == MaxInt \in Nat \ {0} /\ MaxLong \in Nat /\ MaxInt <= MaxLong

Minus == 10
Plus == 11

String(t) == [type |-> "String", string |-> t]
List(l)   == [type |-> "List", list |-> l]
Set(s)    == [type |-> "Set", set |-> s]

Texts == Seq(Nat)

StorageValues == [type : {"String"}, string : Texts]
                 \cup [type : {"List"}, list : Seq(Texts)]
                 \cup [type : {"Set"}, set : SUBSET Texts]

ASSUME AbsentAssumption == Absent \notin StorageValues

\* SuccessQuery and DataBaseError
Integer(n) == [type |-> "Integer", integer |-> n]
Boolean(b) == [type |-> "Boolean", boolean |-> b]
Text(t)    == [type |-> "Text", text |-> t]
Texts_(l)  == [type |-> "List", texts |-> l]
Members(s) == [type |-> "List", members |-> s]
TypeName(n) == [type |-> "Type", name |-> n]
Success    == [type |-> "Success"]
Nil        == [type |-> "Nil"]
Err(e)     == [type |-> "Err", error |-> e]

Leaves(value, reply) == [value |-> value, reply |-> reply]

-----------------------------------------------------------------------------
(* Numbers held as text *)

DigitsOf(n) ==
    LET digits[m \in 0..n] == IF m < 10 THEN <<m>> ELSE Append(digits[m \div 10], m % 10)
    IN  digits[n]

\* i32::to_string
TextOf(n) == IF n < 0 THEN <<Minus>> \o DigitsOf(-n) ELSE DigitsOf(n)

Unsigned(t) == IF t # <<>> /\ Head(t) \in {Minus, Plus} THEN Tail(t) ELSE t

\* What parse makes of digits, one after the other.
ValueOf(digits) ==
    LET upto[n \in 0..Len(digits)] == IF n = 0 THEN 0 ELSE 10 * upto[n - 1] + digits[n]
    IN  upto[Len(digits)]

NumberOf(t) ==
    IF t # <<>> /\ Head(t) = Minus THEN -ValueOf(Unsigned(t)) ELSE ValueOf(Unsigned(t))

InRange(n) == n \in (-MaxInt - 1)..MaxInt

IsNumeral(t) == Unsigned(t) # <<>> /\ \A i \in DOMAIN Unsigned(t) : Unsigned(t)[i] \in 0..9

\* str::parse succeeds for an i64, a u64 and an i32; the limit of a u64 is not
\* used.
IsLong(t) == IsNumeral(t) /\ NumberOf(t) \in (-MaxLong - 1)..MaxLong

IsUnsigned(t) == IsNumeral(t) /\ Head(t) # Minus

IsInteger(t) == IsNumeral(t) /\ InRange(NumberOf(t))

\* Mutant: saturating arithmetic.
Saturate(n) == IF n > MaxInt THEN MaxInt ELSE IF n < -MaxInt - 1 THEN -MaxInt - 1 ELSE n

\* i32 arithmetic in a build without overflow checks
Wrap(n) == ((n + MaxInt + 1) % (2 * (MaxInt + 1))) - (MaxInt + 1)

-----------------------------------------------------------------------------
(* Strings *)

get(v) ==
    CASE v = Absent -> Leaves(v, Nil)
      [] v # Absent /\ v.type = "String" -> Leaves(v, Text(v.string))
      [] OTHER -> Leaves(v, Err("NotAString"))

LengthReply(reply) == IF reply.type = "Text" THEN Integer(Len(reply.text)) ELSE reply

strlen(v) == Leaves(v, LengthReply(get(v).reply))

\* Anything but a string, nothing included, is "not a string".
append(v, text) ==
    IF v # Absent /\ v.type = "String"
      THEN Leaves(String(v.string \o text), Integer(Len(v.string) + Len(text)))
      ELSE Leaves(v, Err("NotAString"))

decrby(v, decr) ==
    IF v = Absent \/ v.type # "String" THEN Leaves(v, Err("NotAString"))
    ELSE IF ~IsInteger(v.string) THEN Leaves(v, Err("NotAnInteger"))
    ELSE LET n == Wrap(NumberOf(v.string) - decr)
         IN  Leaves(String(TextOf(n)), Integer(n))

incrby(v, incr) == decrby(v, Wrap(-incr))

get_type(v) == Leaves(v, TypeName(IF v = Absent THEN "none" ELSE v.type))

-----------------------------------------------------------------------------
(* Lists *)

IsList(v) == v # Absent /\ v.type = "List"

\* The arms every list command ends with: another type, or nothing.
NotAList(v, reply) == Leaves(v, IF v = Absent THEN reply ELSE Err("NotAList"))

\* A position from the end when negative; `as usize` leaves nothing below 0.
IndexFrom(list, i) == IF i < 0 THEN Len(list) + i ELSE i

lindex(v, index) ==
    IF ~IsList(v) THEN NotAList(v, Nil)
    ELSE LET i == IndexFrom(v.list, index)
         IN  Leaves(v, IF i \in 0..(Len(v.list) - 1) THEN Text(v.list[i + 1]) ELSE Nil)

llen(v) == IF IsList(v) THEN Leaves(v, Integer(Len(v.list))) ELSE NotAList(v, Integer(0))

lpop(v) ==
    IF ~IsList(v) THEN NotAList(v, Nil)
    ELSE IF v.list = <<>> THEN Leaves(v, Nil)
    ELSE Leaves(List(Tail(v.list)), Text(Head(v.list)))

rpop(v) ==
    IF ~IsList(v) THEN NotAList(v, Nil)
    ELSE IF v.list = <<>> THEN Leaves(v, Nil)
    ELSE Leaves(List(Front(v.list)), Text(Last(v.list)))

Pushed(list) == Leaves(List(list), Integer(Len(list)))

lpush_one(v, text) ==
    IF IsList(v) THEN Pushed(<<text>> \o v.list) ELSE Leaves(v, Err("NotAList"))

rpush(v, texts) ==
    IF IsList(v) THEN Pushed(v.list \o texts) ELSE Leaves(v, Err("NotAList"))

\* Each value in turn goes to the front.
lpushx(v, texts) ==
    IF IsList(v) THEN Pushed(Reverse(texts) \o v.list) ELSE NotAList(v, Integer(0))

rpushx(v, texts) ==
    IF IsList(v) THEN Pushed(v.list \o texts) ELSE NotAList(v, Boolean(FALSE))

lrange(v, ini, end) ==
    IF ~IsList(v) THEN NotAList(v, Texts_(<<>>))
    ELSE LET i == IndexFrom(v.list, ini)
             e == IndexFrom(v.list, end)
         IN  Leaves(v, Texts_(IF 0 <= i /\ i <= e /\ e < Len(v.list)
                                THEN SubSeq(v.list, i + 1, e + 1)
                                ELSE <<>>))

\* Mutant: position() whichever end the count asks for.
RemoveFromHead(list, text, count) ==
    LET n == IF count < 0 THEN -count ELSE count
        after[i \in 0..n] == IF i = 0 THEN list ELSE RemoveFirst(after[i - 1], text)
    IN  after[n]

\* `n` times, the first element equal to `text` goes.
RemoveTimes(list, text, n) ==
    LET after[i \in 0..n] == IF i = 0 THEN list ELSE RemoveFirst(after[i - 1], text)
    IN  after[n]

\* position() finds the first such element, rposition() the last.
RemoveFromEnd(list, text, count) ==
    IF count > 0 THEN RemoveTimes(list, text, count)
                 ELSE Reverse(RemoveTimes(Reverse(list), text, -count))

lrem(v, count, text) ==
    IF ~IsList(v) THEN NotAList(v, Integer(0))
    ELSE LET left == IF count # 0 THEN RemoveFromEnd(v.list, text, count)
                                  ELSE Without(v.list, {text})
         IN  Leaves(List(left), Integer(Len(left)))

lset(v, index, text) ==
    IF ~IsList(v) THEN NotAList(v, Err("NonExistentKey"))
    ELSE IF index < Len(v.list)
      THEN Leaves(List(ReplaceAt(v.list, index + 1, text)), Success)
    ELSE Leaves(v, Err("IndexOutOfRange"))

-----------------------------------------------------------------------------
(* Sets *)

IsSet(v) == v # Absent /\ v.type = "Set"

NotASet(v, reply) == Leaves(v, IF v = Absent THEN reply ELSE Err("NotASet"))

sismember(v, text) ==
    IF IsSet(v) THEN Leaves(v, Boolean(text \in v.set)) ELSE NotASet(v, Boolean(FALSE))

scard(v) ==
    IF IsSet(v) THEN Leaves(v, Integer(Cardinality(v.set))) ELSE NotASet(v, Boolean(FALSE))

sadd_one(v, text) ==
    IF IsSet(v)
      THEN Leaves(Set(v.set \cup {text}), Integer(IF text \in v.set THEN 0 ELSE 1))
      ELSE Leaves(v, Err("NotASet"))

smembers(v) == IF IsSet(v) THEN Leaves(v, Members(v.set)) ELSE NotASet(v, Texts_(<<>>))

srem(v, texts) ==
    IF IsSet(v)
      THEN Leaves(Set(v.set \ ToSet(texts)), Integer(Cardinality(v.set \cap ToSet(texts))))
      ELSE NotASet(v, Boolean(FALSE))

====
