--------------------------- MODULE Serialization ---------------------------
(***************************************************************************)
(* fsevents written as YAML documents and read back (serialization.c).     *)
(*                                                                         *)
(* A node of a document is a scalar (a text, or a number written in        *)
(* digits), a sequence or a mapping. libyaml and miniyaml keep the texts,  *)
(* the tags and the order of the nodes. An option is a sequence of at most *)
(* one element: <<>> is a NULL pointer, or the failure of a function that  *)
(* parses.                                                                 *)
(*                                                                         *)
(* An fsevent is [type, id, xattrs, statx, symlink, ns]; statx is an       *)
(* option of [mask, v], where mask is the set of the fields that are set.  *)
(* A field is <<name>>, or <<name, part>> for times and device numbers;    *)
(* v[<<"stx_mode">>], which holds the type and the permissions, is a set   *)
(* of bits.                                                                *)
(***************************************************************************)
EXTENDS RbhValues, SequencesExt

Fail == <<>>
Ok(v) == <<v>>
NIL == [type |-> "NIL"]           \* a pair whose value is a NULL pointer

-----------------------------------------------------------------------------
(* Scalars                                                                 *)

RECURSIVE Digits(_, _)
Digits(n, base) ==
    IF n < base THEN <<n>> ELSE Digits(n \div base, base) \o <<n % base>>

RECURSIVE FromDigits(_, _)
FromDigits(digits, base) ==
    IF digits = <<>> THEN 0
    ELSE FromDigits(Front(digits), base) * base + Last(digits)

Abs(n) == IF n < 0 THEN -n ELSE n

Scalar(tag, plain, text, minus, digits) ==
    [kind |-> "scalar", tag |-> tag, plain |-> plain, text |-> text,
     minus |-> minus, digits |-> digits]
Text(tag, text) == Scalar(tag, FALSE, text, FALSE, <<>>)
Number(tag, n) == Scalar(tag, TRUE, "", n < 0, Digits(Abs(n), 10))
Mapping(tag, pairs) == [kind |-> "mapping", tag |-> tag, pairs |-> pairs]
Sequence(nodes) == [kind |-> "sequence", tag |-> "", nodes |-> nodes]
Pair(key, node) == [key |-> key, node |-> node]
Null == Scalar("!!null", TRUE, "null", FALSE, <<>>)
Boolean(b) == Scalar("!!bool", TRUE, IF b THEN "true" ELSE "false", FALSE, <<>>)

\* emit_octal_unsigned_integer(): a zero, then the digits.
emit_octal_unsigned_integer(n) ==
    Scalar("", TRUE, "", FALSE, <<0>> \o Digits(n, 8))

\* The digits of strtoumax(value, &end, 0) and strtoimax(): a leading zero
\* makes them octal.
Magnitude(node) ==
    FromDigits(node.digits,
               IF Len(node.digits) > 1 /\ node.digits[1] = 0 THEN 8 ELSE 10)

\* A scalar is read as an integer when it has the type's tag, or no tag and
\* no quotes.
IsNumber(node, tag) ==
    /\ node.kind = "scalar"
    /\ IF node.tag # "" THEN node.tag = tag ELSE node.plain
    /\ node.text = ""

\* parse_uint32(), parse_uint64(): strtoumax() negates what follows a minus.
parse_uint(node, tag, w) ==
    IF ~IsNumber(node, tag) \/ Magnitude(node) >= 2^W64 THEN Fail
    ELSE LET umax == IF node.minus THEN Unsigned(-Magnitude(node), W64)
                     ELSE Magnitude(node)
         IN IF umax < 2^w THEN Ok(umax) ELSE Fail

\* parse_int32(), parse_int64()
parse_int(node, tag, w) ==
    IF ~IsNumber(node, tag) THEN Fail
    ELSE LET n == IF node.minus THEN -Magnitude(node) ELSE Magnitude(node)
         IN IF n \in (-(2^(w - 1)))..(2^(w - 1) - 1) THEN Ok(n) ELSE Fail

\* yaml_parse_string(): an untagged scalar, or one tagged as a string.
parse_string(node) ==
    IF node.kind = "scalar" /\ node.tag \in {"", "!!str"} THEN Ok(node.text)
    ELSE Fail

\* parse_id(): base64 text back to bytes.
parse_id(node) ==
    IF node.kind = "scalar" /\ node.tag = "!!binary" THEN Ok(node.text)
    ELSE Fail

parse_boolean(node) ==
    IF node.kind = "scalar" /\ node.text \in {"true", "false"}
    THEN Ok(node.text = "true") ELSE Fail

-----------------------------------------------------------------------------
(* Values                                                                  *)

INT_TAG == [UINT32 |-> "!uint32", UINT64 |-> "!uint64",
            INT32 |-> "!int32", INT64 |-> "!int64"]

OptionBits(options) ==
    (IF "CASE_INSENSITIVE" \in options THEN 1 ELSE 0)
      + (IF "SHELL_PATTERN" \in options THEN 2 ELSE 0)

emit_regex(regex) ==
    Mapping("!regex", <<Pair("regex", Text("", regex.string)),
                        Pair("options", Number("", OptionBits(regex.options)))>>)

RECURSIVE emit_rbh_value(_)
emit_rbh_value(value) ==
    CASE value.type = "NIL" -> Null
      [] value.type = "BOOLEAN" -> Boolean(value.v)
      [] value.type = "BINARY" -> Text("!!binary", value.v)
      [] value.type \in IntTypes -> Number(INT_TAG[value.type], value.v)
      [] value.type = "DOUBLE" -> Text("!double", value.v)
      [] value.type = "STRING" -> Text("", value.v)
      [] value.type = "REGEX" -> emit_regex(value.v)
      [] value.type = "SEQUENCE" ->
            Sequence([i \in DOMAIN value.v |-> emit_rbh_value(value.v[i])])
      [] value.type = "MAP" ->
            Mapping("", [i \in DOMAIN value.v |->
                           Pair(value.v[i].key, emit_rbh_value(value.v[i].value))])

emit_rbh_value_map(pairs) == emit_rbh_value(Val("MAP", pairs))

\* parse_regex_field() and parse_regex_mapping(): a field that cannot be read
\* is skipped, options are optional.
parse_regex_mapping(pairs) ==
    LET field(key) == [i \in DOMAIN pairs |->
                         IF pairs[i].key = key THEN pairs[i].node ELSE Null]
        strings == SelectSeq([i \in DOMAIN pairs |->
                                parse_string(field("regex")[i])],
                             LAMBDA s : s # Fail)
        options == SelectSeq([i \in DOMAIN pairs |->
                                parse_uint(field("options")[i], "", W32)],
                             LAMBDA n : n # Fail)
        bits == IF options = <<>> THEN 0 ELSE Last(options)[1]
    IN IF strings = <<>> THEN Fail
       ELSE Ok([string |-> Last(strings)[1],
                options |-> (IF bits % 2 = 1 THEN {"CASE_INSENSITIVE"} ELSE {})
                      \cup (IF (bits \div 2) % 2 = 1 THEN {"SHELL_PATTERN"} ELSE {})])

\* parse_value_type(): the type a node is read as. No tag stands for a double.
parse_value_type(node) ==
    CASE node.kind = "mapping" ->
            CASE node.tag = "" -> "MAP"
              [] node.tag = "!regex" -> "REGEX"
              [] OTHER -> "EINVAL"
      [] node.kind = "sequence" -> "SEQUENCE"
      [] node.tag \in {"", "!!str"} -> "STRING"
      [] node.tag = "!!bool" -> "BOOLEAN"
      [] node.tag = "!!binary" -> "BINARY"
      [] OTHER -> IF \E t \in IntTypes : INT_TAG[t] = node.tag
                  THEN CHOOSE t \in IntTypes : INT_TAG[t] = node.tag
                  ELSE "EINVAL"

\* The values of a list of options when none has failed.
All(options) ==
    IF \E i \in DOMAIN options : options[i] = Fail THEN Fail
    ELSE Ok([i \in DOMAIN options |-> options[i][1]])

Typed(type, parsed) == IF parsed = Fail THEN Fail ELSE Ok(Val(type, parsed[1]))

RECURSIVE parse_rbh_value(_)
\* parse_rbh_value(), parse_sequence()
parse_rbh_value(node) ==
    LET type == parse_value_type(node)
        pairs == IF type = "MAP" THEN node.pairs ELSE <<>>
        pair(i) ==
            LET value == IF pairs[i].node = Null THEN Ok(NIL)
                         ELSE parse_rbh_value(pairs[i].node)
            IN IF value = Fail THEN Fail
               ELSE Ok([key |-> pairs[i].key, value |-> value[1]])
        parsed == CASE type = "BOOLEAN" -> parse_boolean(node)
                    [] type = "BINARY" -> parse_id(node)
                    [] type \in {"UINT32", "UINT64"} ->
                          parse_uint(node, INT_TAG[type], WidthOf(type))
                    [] type \in {"INT32", "INT64"} ->
                          parse_int(node, INT_TAG[type], WidthOf(type))
                    [] type = "STRING" -> parse_string(node)
                    [] type = "REGEX" -> parse_regex_mapping(node.pairs)
                    [] type = "SEQUENCE" ->
                          All([i \in DOMAIN node.nodes |->
                                 parse_rbh_value(node.nodes[i])])
                    [] type = "MAP" -> All([i \in DOMAIN pairs |-> pair(i)])
                    [] type = "EINVAL" -> Fail
    IN Typed(type, parsed)

\* parse_rbh_value_pair() and parse_rbh_value_map(), as parse_xattrs() and the
\* other fsevents call it: the pairs of a mapping.
parse_rbh_value_map(node) ==
    IF node.kind # "mapping" THEN Fail
    ELSE LET map == parse_rbh_value([node EXCEPT !.tag = ""])
         IN IF map = Fail THEN Fail ELSE Ok(map[1].v)

=============================================================================
