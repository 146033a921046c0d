--------------------------- MODULE FilterBackends ---------------------------
(***************************************************************************)
(* How the Mongo and the SQLite backends translate a filter, and what the  *)
(* databases (external) answer for an entry. The variable is a filter      *)
(* built the way librobinhood's callers build one: a comparison, then the  *)
(* logical constructors around it.                                         *)
(***************************************************************************)
EXTENDS RbhFilters, SequencesExt

CONSTANTS Comparisons,  \* sequence of comparison filters
          Operands,     \* sequence of the filters used as the other operand
          Entries,      \* sequence of the entries the filters are tried on
          MaxNodes      \* bound on the logical nodes of a filter

VARIABLES filter, nodes

vars == <<filter, nodes>>

IntMax(w) == 2^(w - 1) - 1
IsUnsigned(type) == type \in {"UINT32", "UINT64"}
SignedType(type) == IF type = "UINT32" THEN "INT32" ELSE "INT64"

-----------------------------------------------------------------------------
(* Mongo                                                                   *)

\* bson_append_rbh_value(): BSON has no unsigned integers. What counts is the
\* bracket a value is compared in: numbers of both widths are one bracket.
RECURSIVE Bson(_)
Bson(value) ==
    CASE value.type \in IntTypes ->
            [type |-> "number", v |-> Signed(value.v, WidthOf(value.type))]
      [] value.type = "STRING" -> [type |-> "utf8", v |-> value.v]
      [] value.type = "SEQUENCE" ->
            [type |-> "array", v |-> [i \in DOMAIN value.v |-> Bson(value.v[i])]]
      [] OTHER -> [type |-> value.type, v |-> value.v]

\* bson_append_statx(), for the fields filters are about here: 32-bit fields
\* are stored as int32, the type and the permissions apart.
Document(entry) ==
    [key \in DOMAIN entry |->
        CASE key \in {"size", "blocks", "ino", "mtime"} ->
                [type |-> "number", v |-> Signed(entry[key], W64)]
          [] key \in {"uid", "gid", "nlink", "type", "mode"} ->
                [type |-> "number", v |-> Signed(entry[key], W32)]
          [] key \in {"name", "symlink"} -> [type |-> "utf8", v |-> entry[key]]
          [] OTHER -> Bson(entry[key])]

FOP2STR == [EQUAL |-> "$eq", STRICTLY_LOWER |-> "$lt",
            LOWER_OR_EQUAL |-> "$lte", STRICTLY_GREATER |-> "$gt",
            GREATER_OR_EQUAL |-> "$gte", EXISTS |-> "$exists",
            REGEX |-> "/regex/", BITS_ANY_SET |-> "$bitsAnySet",
            BITS_ALL_SET |-> "$bitsAllSet", BITS_ANY_CLEAR |-> "$bitsAnyClear",
            BITS_ALL_CLEAR |-> "$bitsAllClear", AND |-> "$and", OR |-> "$or",
            ELEMMATCH |-> "$elemMatch"]

NEGATED_FOP2STR ==
    [EQUAL |-> "$ne", STRICTLY_LOWER |-> "$gte", LOWER_OR_EQUAL |-> "$gt",
     STRICTLY_GREATER |-> "$lte", GREATER_OR_EQUAL |-> "$lt",
     EXISTS |-> "$exists", REGEX |-> "$not", BITS_ANY_SET |-> "$bitsAllClear",
     BITS_ALL_SET |-> "$bitsAnyClear", BITS_ANY_CLEAR |-> "$bitsAllSet",
     BITS_ALL_CLEAR |-> "$bitsAnySet", AND |-> "$or", OR |-> "$and",
     ELEMMATCH |-> "$not"]

Fop2Str(op, negate) ==
    CASE op = "IN" -> IF negate THEN "$nin" ELSE "$in"
      [] OTHER     -> IF negate THEN NEGATED_FOP2STR[op] ELSE FOP2STR[op]

\* Mutant: the boundary of the signed range is taken for an overflow.
EmulateUnsignedStrict(f) ==
    LET w == WidthOf(f.value.type)
        lower == f.op \in {"STRICTLY_LOWER", "LOWER_OR_EQUAL"}
        compare == [f EXCEPT !.value = Val(SignedType(f.value.type),
                                           Signed(f.value.v, w))]
        sign == [op |-> IF lower THEN "GREATER_OR_EQUAL" ELSE "STRICTLY_LOWER",
                 field |-> f.field, value |-> Val(SignedType(f.value.type), 0)]
    IN Compose(IF (f.value.v < IntMax(w)) = lower THEN "AND" ELSE "OR",
               compare, sign)

\* bson_append_uint{32,64}_{lower,greater}(): an order on unsigned integers
\* from one on signed integers and a test of the sign, joined by AND or OR
\* according to whether the cast to a signed integer overflows.
EmulateUnsigned(f) ==
    LET w == WidthOf(f.value.type)
        lower == f.op \in {"STRICTLY_LOWER", "LOWER_OR_EQUAL"}
        compare == [f EXCEPT !.value = Val(SignedType(f.value.type),
                                           Signed(f.value.v, w))]
        sign == [op |-> IF lower THEN "GREATER_OR_EQUAL" ELSE "STRICTLY_LOWER",
                 field |-> f.field, value |-> Val(SignedType(f.value.type), 0)]
    IN Compose(IF (f.value.v <= IntMax(w)) = lower THEN "AND" ELSE "OR",
               compare, sign)

\* bson_append_comparison()
MongoComparison(f, negate) ==
    [op |-> Fop2Str(f.op, negate), key |-> f.field.key,
     value |-> IF f.op = "EXISTS"
               THEN Val("BOOLEAN", f.value.v # negate)
               ELSE IF f.op = "REGEX" THEN f.value ELSE Bson(f.value)]

\* _bson_append_rbh_filter(): a negation is pushed down to the comparisons.
RECURSIVE MongoFilter(_, _)
MongoFilter(f, negate) ==
    CASE f.op = "NULL" -> [op |-> "_id", value |-> Val("BOOLEAN", ~negate)]
      [] f.op \in OrderOps /\ IsUnsigned(f.value.type) ->
            MongoFilter(EmulateUnsigned(f), negate)
      [] IsComparison(f) /\ ~(f.op \in OrderOps /\ IsUnsigned(f.value.type)) ->
            MongoComparison(f, negate)
      [] f.op = "NOT" -> MongoFilter(f.filters[1], ~negate)
      [] f.op \in {"AND", "OR"} ->
            [op |-> Fop2Str(f.op, negate),
             list |-> [i \in DOMAIN f.filters |->
                          MongoFilter(f.filters[i], negate)]]
      [] f.op = "ELEMMATCH" ->
            [op |-> Fop2Str("ELEMMATCH", FALSE), key |-> f.field.key,
             negate |-> negate,
             list |-> [i \in DOMAIN f.filters |->
                          MongoComparison(f.filters[i], FALSE)]]
      [] f.op = "GET" -> MongoFilter(f.filter, negate)

\* What mongod answers (external): an order only holds inside a bracket, $ne,
\* $nin and $not also hold where the field is missing.
MongoOrder == [EQUAL |-> "$eq", STRICTLY_LOWER |-> "$lt",
               LOWER_OR_EQUAL |-> "$lte", STRICTLY_GREATER |-> "$gt",
               GREATER_OR_EQUAL |-> "$gte"]

MongoBits(op, a, b) ==
    LET bits == BitsOf(b, W32) set == BitsOf(a, W32)
    IN CASE op = "$bitsAnySet"   -> bits \cap set # {}
         [] op = "$bitsAllSet"   -> bits \subseteq set
         [] op = "$bitsAnyClear" -> ~(bits \subseteq set)
         [] op = "$bitsAllClear" -> bits \cap set = {}

MongoCompare(op, a, b) ==
    CASE op \in {"$bitsAnySet", "$bitsAllSet", "$bitsAnyClear",
                 "$bitsAllClear"} ->
            a.type = "number" /\ MongoBits(op, a.v, b.v)
      [] OTHER -> /\ a.type = b.type
                  /\ \E fop \in DOMAIN MongoOrder :
                        MongoOrder[fop] = op /\ Ordered(fop, a.v, b.v)

RECURSIVE MongoMatches(_, _)
MongoMatches(q, doc) ==
    LET present == q.key \in DOMAIN doc
    IN CASE q.op = "_id" -> q.value.v
         [] q.op = "$and" -> \A i \in DOMAIN q.list : MongoMatches(q.list[i], doc)
         [] q.op = "$or" -> \E i \in DOMAIN q.list : MongoMatches(q.list[i], doc)
         [] q.op = "$exists" -> present = q.value.v
         [] q.op = "$ne" -> ~(present /\ MongoCompare("$eq", doc[q.key], q.value))
         [] q.op \in {"$in", "$nin"} ->
               LET in == /\ present
                         /\ \E i \in DOMAIN q.value.v :
                               MongoCompare("$eq", doc[q.key], q.value.v[i])
               IN in = (q.op = "$in")
         [] q.op \in {"/regex/", "$not"} ->
               LET match == /\ present /\ doc[q.key].type = "utf8"
                            /\ RegexMatches(q.value.v, doc[q.key].v)
               IN match = (q.op = "/regex/")
         [] q.op = "$elemMatch" ->
               LET match == /\ present /\ doc[q.key].type = "array"
                            /\ \E i \in DOMAIN doc[q.key].v :
                                  \A j \in DOMAIN q.list :
                                     MongoCompare(q.list[j].op, doc[q.key].v[i],
                                                  q.list[j].value)
               IN match # q.negate
         [] OTHER -> present /\ MongoCompare(q.op, doc[q.key], q.value)

-----------------------------------------------------------------------------
(* SQLite: a where clause is a sequence of tokens. An atom is a predicate  *)
(* with its placeholders; bind_filter_values() gives the values, in order. *)

Symbol(t) == <<[t |-> t]>>
Atom(kind, f, op, params) ==
    <<[t |-> "atom", kind |-> kind, key |-> f.field.key, op |-> op,
       params |-> params]>>

NegatedOp == [EQUAL |-> "DIFFERENT", STRICTLY_LOWER |-> "GREATER_OR_EQUAL",
              LOWER_OR_EQUAL |-> "STRICTLY_GREATER",
              STRICTLY_GREATER |-> "LOWER_OR_EQUAL",
              GREATER_OR_EQUAL |-> "STRICTLY_LOWER",
              BITS_ANY_SET |-> "BITS_ALL_CLEAR",
              BITS_ALL_SET |-> "BITS_ANY_CLEAR",
              BITS_ANY_CLEAR |-> "BITS_ALL_SET",
              BITS_ALL_CLEAR |-> "BITS_ANY_SET"]

IsEmptyBinary(value) == value.type = "BINARY" /\ Len(value.v) = 0

\* Mutant: the negation of "<=" keeps the equality.
Filter2OpLoose(f, negate) ==
    CASE f.op = "LOWER_OR_EQUAL" /\ negate -> "GREATER_OR_EQUAL"
      [] negate -> NegatedOp[f.op]
      [] OTHER -> f.op

\* filter2op(): strings and binaries are only compared for equality; an empty
\* binary is written in the clause.
Filter2Op(f, negate) ==
    LET op == IF f.value.type \in IntTypes \cup {"BOOLEAN"} THEN f.op ELSE "EQUAL"
    IN IF negate THEN NegatedOp[op] ELSE op

\* comparison_filter2sql()
ComparisonSql(f, negate) ==
    CASE f.op \in BitOps \cup OrderOps \cup {"EQUAL"} ->
            IF IsXattr(f.field)
            THEN Atom("json_each", f, Filter2Op(f, negate), 2)
            ELSE Atom("column", f, Filter2Op(f, negate),
                      IF IsEmptyBinary(f.value) THEN 0 ELSE 1)
      [] f.op = "REGEX" /\ ~IsXattr(f.field) ->
            IF negate
            THEN Atom("is_null", f, "", 0) \o Symbol("or") \o Symbol("not")
                   \o Atom("regexp", f, "", 1)
            ELSE Atom("is_not_null", f, "", 0) \o Symbol("and")
                   \o Atom("regexp", f, "", 1)
      [] f.op = "REGEX" /\ IsXattr(f.field) ->
            (IF negate THEN Symbol("not") ELSE <<>>)
              \o Atom("json_regexp", f, "", 2)
      [] f.op = "IN" ->
            IF IsXattr(f.field)
            THEN Atom("json_in", f, IF negate THEN "DIFFERENT" ELSE "EQUAL", 1)
            ELSE Atom("in", f, "", Len(f.value.v))
      [] f.op = "EXISTS" ->
            Atom(IF negate THEN "json_null" ELSE "json_not_null", f, "", 1)

\* empty_filter()
EmptyFilter(f) ==
    \/ f.op = "NULL"
    \/ IsLogical(f) /\ \A i \in DOMAIN f.filters : f.filters[i].op = "NULL"

RECURSIVE FilterSql(_, _)
RECURSIVE JoinSql(_, _, _)
\* The loops of and2sql() and or2sql(): only an OR under an AND gets its
\* parentheses, and NULL operands are skipped.
JoinSql(fs, i, word) ==
    IF i > Len(fs) THEN <<>>
    ELSE IF fs[i].op = "NULL" THEN JoinSql(fs, i + 1, word)
    ELSE LET sql == FilterSql(fs[i], FALSE)
         IN (IF word = "and" /\ fs[i].op = "OR"
             THEN Symbol("(") \o sql \o Symbol(")") ELSE sql)
            \o (IF i # Len(fs) /\ ~EmptyFilter(fs[i + 1])
                THEN Symbol(word) ELSE <<>>)
            \o JoinSql(fs, i + 1, word)

\* filter2sql() and logical_filter2sql()
FilterSql(f, negate) ==
    CASE IsComparison(f) -> ComparisonSql(f, negate)
      [] f.op = "NOT" -> FilterSql(f.filters[1], ~negate)
      [] f.op \in {"AND", "OR"} ->
            LET sql == JoinSql(f.filters, 1, IF f.op = "AND" THEN "and" ELSE "or")
            IN IF negate THEN Symbol("not") \o Symbol("(") \o sql \o Symbol(")")
               ELSE sql
      [] f.op = "GET" -> FilterSql(f.filter, negate)
      [] f.op = "ELEMMATCH" ->
            Atom("elemmatch", f, [i \in DOMAIN f.filters |->
                                     Filter2Op(f.filters[i], negate)],
                 1 + Len(f.filters))

\* bind_value(): unsigned integers are capped.
BindValue(value) ==
    CASE value.type = "UINT64" ->
            IF value.v >= IntMax(W64) THEN IntMax(W64) ELSE value.v
      [] value.type = "BOOLEAN" -> IF value.v THEN 1 ELSE 0
      [] OTHER -> value.v

RECURSIVE BindFilter(_)
\* bind_filter_values(): the path of an xattr comes before its value.
BindFilter(f) ==
    CASE IsComparison(f) ->
            LET path == IF IsXattr(f.field) /\ f.op # "IN"
                        THEN <<f.field.key>> ELSE <<>>
            IN CASE IsEmptyBinary(f.value) -> path
                 [] f.op = "EXISTS" -> path
                 [] f.op = "IN" -> [i \in DOMAIN f.value.v |->
                                       BindValue(f.value.v[i])]
                 [] OTHER -> path \o <<BindValue(f.value)>>
      [] f.op = "GET" -> BindFilter(f.filter)
      [] f.op = "ELEMMATCH" ->
            <<f.field.key>> \o [i \in DOMAIN f.filters |->
                                   BindValue(f.filters[i].value)]
      [] IsLogical(f) ->
            FlattenSeq([i \in DOMAIN f.filters |->
                           IF f.filters[i].op = "NULL" THEN <<>>
                           ELSE BindFilter(f.filters[i])])

\* What an atom says of an entry, with the values bound to its placeholders:
\* "T", "F" or "N" (SQL's NULL).
Truth(b) == IF b THEN "T" ELSE "F"

SqlCompare(op, a, b) ==
    CASE op \in BitOps -> BitsHold(op, a, b)
      [] op = "DIFFERENT" -> a # b
      [] OTHER -> Ordered(op, a, b)

\* json_each(xattrs, path): the elements of an array, or the value itself.
JsonEach(entry, key) ==
    IF key \notin DOMAIN entry THEN <<>>
    ELSE IF entry[key].type = "SEQUENCE" THEN entry[key].v ELSE <<entry[key]>>

AtomTruth(atom, bound, entry) ==
    LET present == atom.key \in DOMAIN entry
    IN CASE atom.kind = "is_null" -> Truth(~present)
         [] atom.kind = "is_not_null" -> Truth(present)
         [] atom.kind \in {"column", "regexp", "in"} /\ ~present -> "N"
         [] atom.kind = "column" ->
               Truth(SqlCompare(atom.op, entry[atom.key], bound[1]))
         [] atom.kind = "regexp" ->
               Truth(RegexMatches(bound[1], entry[atom.key]))
         [] atom.kind = "in" ->
               Truth(\E i \in DOMAIN bound : entry[atom.key] = bound[i])
         [] atom.kind = "json_not_null" -> Truth(bound[1] \in DOMAIN entry)
         [] atom.kind = "json_null" -> Truth(bound[1] \notin DOMAIN entry)
         [] atom.kind = "json_in" ->
               LET each == JsonEach(entry, atom.key)
               IN Truth(\E i \in DOMAIN each :
                           SqlCompare(atom.op, each[i].v, bound[1]))
         [] atom.kind = "json_each" ->
               LET each == JsonEach(entry, bound[1])
               IN Truth(\E i \in DOMAIN each :
                           SqlCompare(atom.op, each[i].v, bound[2]))
         [] atom.kind = "json_regexp" ->
               LET each == JsonEach(entry, bound[1])
               IN Truth(\E i \in DOMAIN each :
                           RegexMatches(bound[2], each[i].v))
         [] atom.kind = "elemmatch" ->
               LET each == JsonEach(entry, bound[1])
               IN Truth(\E i \in DOMAIN each : \A j \in DOMAIN atom.op :
                           SqlCompare(atom.op[j], each[i].v, bound[j + 1]))

\* The placeholders are numbered from left to right.
RECURSIVE Valuation(_, _, _, _)
Valuation(tokens, i, bound, entry) ==
    IF i > Len(tokens) THEN <<>>
    ELSE IF tokens[i].t # "atom"
         THEN <<tokens[i].t>> \o Valuation(tokens, i + 1, bound, entry)
         ELSE LET n == tokens[i].params
              IN <<AtomTruth(tokens[i], SubSeq(bound, 1, n), entry)>>
                   \o Valuation(tokens, i + 1, SubSeq(bound, n + 1, Len(bound)),
                                entry)

\* SQL's precedence: NOT binds tighter than AND, AND tighter than OR. A parse
\* is [v, next]: the truth value and the token after the expression.
SqlNot(v) == CASE v = "T" -> "F" [] v = "F" -> "T" [] OTHER -> "N"
SqlAnd(v, w) == CASE "F" \in {v, w} -> "F" [] "N" \in {v, w} -> "N" [] OTHER -> "T"
SqlOr(v, w) == SqlNot(SqlAnd(SqlNot(v), SqlNot(w)))

RECURSIVE ParseOr(_, _)
RECURSIVE ParseAnd(_, _)
RECURSIVE ParseNot(_, _)
ParseNot(ts, i) ==
    CASE ts[i] = "not" ->
            LET p == ParseNot(ts, i + 1) IN [v |-> SqlNot(p.v), next |-> p.next]
      [] ts[i] = "(" ->
            LET p == ParseOr(ts, i + 1) IN [v |-> p.v, next |-> p.next + 1]
      [] OTHER -> [v |-> ts[i], next |-> i + 1]
ParseAnd(ts, i) ==
    LET p == ParseNot(ts, i)
    IN IF p.next > Len(ts) \/ ts[p.next] # "and" THEN p
       ELSE LET q == ParseAnd(ts, p.next + 1)
            IN [v |-> SqlAnd(p.v, q.v), next |-> q.next]
ParseOr(ts, i) ==
    LET p == ParseAnd(ts, i)
    IN IF p.next > Len(ts) \/ ts[p.next] # "or" THEN p
       ELSE LET q == ParseOr(ts, p.next + 1)
            IN [v |-> SqlOr(p.v, q.v), next |-> q.next]

SqliteMatches(f, entry) ==
    ParseOr(Valuation(FilterSql(f, FALSE), 1, BindFilter(f), entry), 1).v = "T"

-----------------------------------------------------------------------------
(* MPI-file: a chain of mpifileutils predicates (convert_rbh_filter()).    *)

\* statx2mfu_fn() and filter2mfu_fn(): the fields mpifileutils knows.
MfuFields == {"name", "path", "atime", "ctime", "mtime", "type", "size"}

RECURSIVE MfuSupported(_)
MfuSupported(f) ==
    CASE f.op = "NULL" -> TRUE
      [] IsComparison(f) -> f.field.key \in MfuFields
      [] IsLogical(f) -> \A i \in DOMAIN f.filters : MfuSupported(f.filters[i])
      [] OTHER -> FALSE

\* Mutant: the chain of an OR is executed like that of an AND.
MfuLogicalAnd(f, results) ==
    IF f.op = "NOT" THEN ~results[1] ELSE \A i \in DOMAIN results : results[i]

\* _MFU_PRED_AND, _MFU_PRED_NOT, _MFU_PRED_OR
MfuLogical(f, results) ==
    CASE f.op = "AND" -> \A i \in DOMAIN results : results[i]
      [] f.op = "OR" -> \E i \in DOMAIN results : results[i]
      [] f.op = "NOT" -> ~results[1]

\* filter2arg() keeps the operator of a size only; a name is a pattern and a
\* type is compared for equality whatever the operator.
MfuComparison(f, entry) ==
    CASE f.field.key = "size" ->
            f.op \in OrderOps \cup {"EQUAL"} /\ Ordered(f.op, entry.size, f.value.v)
      [] f.field.key = "type" -> entry.type = f.value.v
      [] f.field.key = "name" -> RegexMatches(f.value.v, entry.name)
      [] OTHER -> FALSE

RECURSIVE MfuExecute(_, _)
MfuExecute(f, entry) ==
    CASE f.op = "NULL" -> TRUE
      [] IsComparison(f) -> MfuComparison(f, entry)
      [] IsLogical(f) ->
            MfuLogical(f, [i \in DOMAIN f.filters |->
                              MfuExecute(f.filters[i], entry)])

-----------------------------------------------------------------------------
(* The filters librobinhood's callers build.                               *)

Init == nodes = 0 /\ \E i \in DOMAIN Comparisons : filter = Comparisons[i]

Grow(f) == nodes < MaxNodes /\ filter' = f /\ nodes' = nodes + 1

AndLeft == \E i \in DOMAIN Operands : Grow(FilterAnd(Operands[i], filter))
AndRight == \E i \in DOMAIN Operands : Grow(FilterAnd(filter, Operands[i]))
OrLeft == \E i \in DOMAIN Operands : Grow(FilterOr(Operands[i], filter))
OrRight == \E i \in DOMAIN Operands : Grow(FilterOr(filter, Operands[i]))
Negate == Grow(FilterNot(filter))
\* parse_expression() hands an action AND[filter, NULL].
AndNull == Grow(FilterAnd(filter, Null))

Next == AndLeft \/ AndRight \/ OrLeft \/ OrRight \/ Negate \/ AndNull

Spec == Init /\ [][Next]_vars

-----------------------------------------------------------------------------
(* Properties                                                              *)

\* Entries that have every field the filter is about: without one of them the
\* databases disagree on what a negation means.
HasFields(f, entry) == \A g \in Leaves(f) : Has(entry, g.field)

\* A comparison with an owner, a group or a count of links that does not fit a
\* signed 32-bit integer: it is stored as a negative one (bson_append_statx()),
\* while the predicates compare with 64 bits.
StoredNegative(f, entry) ==
    \E g \in Leaves(f) : /\ g.field \in {Statx("uid"), Statx("gid"), Statx("nlink")}
                         /\ entry[g.field.key] > IntMax(W32)

\* The query sent to Mongo selects exactly the entries the filter means:
\* negations pushed down to the comparisons, unsigned integers emulated with
\* signed ones at every boundary of the width, NULL operands included. Entries
\* with a field that is stored as a negative number are excepted.
MongoAgrees ==
    LET query == MongoFilter(filter, FALSE)
    IN \A i \in DOMAIN Entries :
          HasFields(filter, Entries[i]) /\ ~StoredNegative(filter, Entries[i])
            => MongoMatches(query, Document(Entries[i]))
                  = Meaning(filter, Entries[i])

\* An unparenthesised "or" comes out of these filters.
RECURSIVE BareOr(_, _)
BareOr(f, negate) ==
    CASE f.op = "REGEX" -> negate /\ ~IsXattr(f.field)
      [] f.op = "NOT" -> BareOr(f.filters[1], ~negate)
      [] f.op = "OR" -> ~negate
      [] OTHER -> FALSE

RECURSIVE SqlSafe(_)
SqlSafe(f) ==
    IsLogical(f) =>
        \A i \in DOMAIN f.filters :
            LET g == f.filters[i]
            IN /\ SqlSafe(g)
               /\ f.op = "AND" /\ g.op # "OR" => ~BareOr(g, FALSE)

\* Array filters are not negated by the SQLite backend: their negation is the
\* conjunction of the negated comparisons.
RECURSIVE ArrayNegated(_, _)
ArrayNegated(f, negate) ==
    CASE f.op = "NOT" -> ArrayNegated(f.filters[1], ~negate)
      [] IsLogical(f) -> \E i \in DOMAIN f.filters :
                            ArrayNegated(f.filters[i], FALSE)
      [] OTHER -> f.op = "ELEMMATCH" /\ negate

\* The SQL text, parsed with SQL's precedence and with the values bound in
\* order to its placeholders, selects the entries the filter means. Sizes
\* are below the value bind_value() caps at.
SqliteAgrees ==
    SqlSafe(filter) /\ ~ArrayNegated(filter, FALSE) =>
        \A i \in DOMAIN Entries :
            LET e == Entries[i]
            IN HasFields(filter, e) /\ e.size < IntMax(W64)
                 => SqliteMatches(filter, e) = Meaning(filter, e)

\* A walk with mpifileutils keeps exactly the files the filter means, when it
\* accepts the filter: negations and NULL operands go through the chains of
\* predicates unchanged.
MpiAgrees ==
    MfuSupported(filter) =>
        \A i \in DOMAIN Entries :
            MfuExecute(filter, Entries[i]) = Meaning(filter, Entries[i])

\* An entry read again from the filesystem is kept exactly when it still
\* matches the filter that selected it (check_fsentry.c), missing fields
\* included.
CheckAgrees ==
    Checkable(filter) =>
        \A i \in DOMAIN Entries :
            Matches(filter, Entries[i]) = Meaning(filter, Entries[i])

\* rbh_filter_clone() finds room for everything it copies, and the filters
\* its callers build pass rbh_filter_validate().
CloneFits == FilterCopy(filter, 0) <= FilterSize(filter) /\ Valid(filter)

\* Wherever a filter is evaluated, by Mongo, by SQLite, during a walk with
\* mpifileutils or again on an entry of the file system, it selects the entries
\* that it means.
FiltersAgree == MongoAgrees /\ SqliteAgrees /\ MpiAgrees /\ CheckAgrees
=============================================================================
