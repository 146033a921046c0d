------------------------------ MODULE RbhValues ------------------------------
(***************************************************************************)
(* librobinhood values (value.c): a value is [type, v]. v is an integer    *)
(* for the integer types, a string for STRING and BINARY, [string,         *)
(* options] for REGEX, a sequence of values for SEQUENCE and a sequence of *)
(* [key, value] pairs for MAP. Integer types keep a width: W32 bits for    *)
(* INT32 and UINT32, W64 for INT64 and UINT64.                             *)
(*                                                                         *)
(* A clone is one block of memory: *_data_size() computes the bytes needed *)
(* behind the first struct and *_copy() carves them out, aligning every    *)
(* struct. An assertion ends the program when the block is too short.      *)
(***************************************************************************)
EXTENDS Integers, Sequences, FiniteSets

CONSTANTS W32, W64    \* bits of the two integer widths

ASSUME WidthAssumption == W32 \in Nat \ {0} /\ W64 \in Nat /\ W32 < W64

IntTypes == {"INT32", "UINT32", "INT64", "UINT64"}
ScalarTypes == IntTypes \cup {"BOOLEAN", "DOUBLE", "NULL"}
RegexOptions == {"CASE_INSENSITIVE", "SHELL_PATTERN"}

WidthOf(type) == IF type \in {"INT32", "UINT32"} THEN W32 ELSE W64

\* The readings of n on w bits: C casts to a signed or an unsigned type.
Unsigned(n, w) == n % 2^w
Signed(n, w) ==
    LET u == Unsigned(n, w) IN IF u >= 2^(w - 1) THEN u - 2^w ELSE u

BitsOf(n, w) == {i \in 0..(w - 1) : (Unsigned(n, w) \div 2^i) % 2 = 1}

\* The rbh_value_<type>_new() family: a clone of the value they are given.
Val(type, v) == [type |-> type, v |-> v]

\* get_value_in_map() and rbh_map_find() on a path of keys: the first pair
\* with the key, NoValue when a step of the path is not there or not a map.
NoValue == [type |-> "NONE"]

FindKey(pairs, key) ==
    LET at == {i \in DOMAIN pairs : pairs[i].key = key}
    IN IF at = {} THEN NoValue
       ELSE pairs[CHOOSE i \in at : \A j \in at : i <= j].value

RECURSIVE MapFind(_, _)
MapFind(pairs, path) ==
    LET value == FindKey(pairs, Head(path))
    IN IF Len(path) = 1 THEN value
       ELSE IF value.type # "MAP" THEN NoValue
       ELSE MapFind(value.v, Tail(path))

\* rbh_value_validate(): strings and arrays of the model are never NULL.
RECURSIVE ValueValid(_)
ValueValid(value) ==
    CASE value.type \in ScalarTypes \cup {"STRING", "BINARY"} -> TRUE
      [] value.type = "REGEX" -> value.v.options \subseteq RegexOptions
      [] value.type = "SEQUENCE" ->
            \A i \in DOMAIN value.v : ValueValid(value.v[i])
      [] value.type = "MAP" ->
            \A i \in DOMAIN value.v : ValueValid(value.v[i].value)
      [] OTHER -> FALSE

-----------------------------------------------------------------------------
(* Sizes in bytes of the structs of a 64-bit build.                        *)

ALIGN == 8
POINTER == 8
VALUE == 24
PAIR == 16

Align(n) == ((n + ALIGN - 1) \div ALIGN) * ALIGN
StrSize(string) == Len(string) + 1

RECURSIVE ValueSize(_, _)
RECURSIVE ElementsSize(_, _, _)
RECURSIVE PairsSize(_, _, _)
\* value_data_size(): offset is where the data would start.
ValueSize(value, offset) ==
    CASE value.type = "STRING" -> StrSize(value.v)
      [] value.type = "REGEX" -> StrSize(value.v.string)
      [] value.type = "BINARY" -> Len(value.v)
      [] value.type = "SEQUENCE" ->
            (Align(offset) - offset)
              + ElementsSize(value.v, 1, Len(value.v) * VALUE)
      [] value.type = "MAP" ->
            (Align(offset) - offset)
              + PairsSize(value.v, 1, Len(value.v) * PAIR)
      [] OTHER -> 0

ElementsSize(values, i, size) ==
    IF i > Len(values) THEN size
    ELSE ElementsSize(values, i + 1,
             Align(size) + ValueSize(values[i], Align(size)))

\* value_map_data_size() and value_pair_data_size(); a pair whose value is a
\* NULL pointer, of type NIL here, is its key.
PairsSize(pairs, i, size) ==
    IF i > Len(pairs) THEN size
    ELSE LET key == StrSize(pairs[i].key)
             v == Align(key) + VALUE
         IN PairsSize(pairs, i + 1,
                Align(size)
                  + (IF pairs[i].value.type = "NIL" THEN key
                     ELSE v + ValueSize(pairs[i].value, v)))

MapSize(pairs) == PairsSize(pairs, 1, Len(pairs) * PAIR)

RECURSIVE ValueCopy(_, _)
RECURSIVE ElementsCopy(_, _, _)
RECURSIVE PairsCopy(_, _, _)
\* value_copy(): from the position "at" to the position after the copy.
ValueCopy(value, at) ==
    CASE value.type = "STRING" -> at + StrSize(value.v)
      [] value.type = "REGEX" -> at + StrSize(value.v.string)
      [] value.type = "BINARY" -> at + Len(value.v)
      [] value.type = "SEQUENCE" ->
            ElementsCopy(value.v, 1, Align(at) + Len(value.v) * VALUE)
      [] value.type = "MAP" ->
            PairsCopy(value.v, 1, Align(at) + Len(value.v) * PAIR)
      [] OTHER -> at

ElementsCopy(values, i, at) ==
    IF i > Len(values) THEN at
    ELSE ElementsCopy(values, i + 1, ValueCopy(values[i], at))

\* value_map_copy() and value_pair_copy(): the pairs are not aligned again.
PairsCopy(pairs, i, at) ==
    IF i > Len(pairs) THEN at
    ELSE LET key == at + StrSize(pairs[i].key)
         IN PairsCopy(pairs, i + 1,
                IF pairs[i].value.type = "NIL" THEN key
                ELSE ValueCopy(pairs[i].value, Align(key) + VALUE))

MapCopy(pairs, at) == PairsCopy(pairs, 1, Align(at) + Len(pairs) * PAIR)

=============================================================================
