----------------------------- MODULE RbhFilters -----------------------------
(***************************************************************************)
(* librobinhood: filter fields, filters, their validation, the memory a    *)
(* clone needs, and the matcher that checks a filter against an            *)
(* entry read again from the filesystem (filters/check_fsentry.c).         *)
(*                                                                         *)
(* A filter is a comparison [op, field, value], a logical node [op,        *)
(* filters], an array node [op, field, filters], or a "get" node [op,      *)
(* field, filter, to_get]; the NULL filter is Null. A field is [fsentry,   *)
(* key]: the key is the statx field or the name of the xattr.              *)
(***************************************************************************)
EXTENDS RbhValues

Null == [op |-> "NULL"]

ComparisonOps == {"EQUAL", "STRICTLY_LOWER", "LOWER_OR_EQUAL",
                  "STRICTLY_GREATER", "GREATER_OR_EQUAL", "REGEX", "IN",
                  "EXISTS", "BITS_ANY_SET", "BITS_ALL_SET",
                  "BITS_ANY_CLEAR", "BITS_ALL_CLEAR"}
BitOps == {"BITS_ANY_SET", "BITS_ALL_SET", "BITS_ANY_CLEAR", "BITS_ALL_CLEAR"}
OrderOps == {"STRICTLY_LOWER", "LOWER_OR_EQUAL", "STRICTLY_GREATER",
             "GREATER_OR_EQUAL"}
LogicalOps == {"AND", "OR", "NOT"}

\* Fields of an entry.
Statx(key) == [fsentry |-> "statx", key |-> key]
Xattr(key) == [fsentry |-> "xattr", key |-> key]
NAME == [fsentry |-> "name", key |-> "name"]
SYMLINK == [fsentry |-> "symlink", key |-> "symlink"]
PATH == [fsentry |-> "ns_xattr", key |-> "path"]

IsComparison(f) == f.op \in ComparisonOps
IsLogical(f) == f.op \in LogicalOps

-----------------------------------------------------------------------------
(* Constructors.                                                           *)

\* op_matches_value(): the operators that ask for one type of value.
OpMatchesValue(op, value) ==
    CASE op = "IN"     -> value.type = "SEQUENCE"
      [] op = "REGEX"  -> value.type = "REGEX"
      [] op = "EXISTS" -> value.type = "BOOLEAN"
      [] op \in BitOps -> value.type \in IntTypes
      [] OTHER         -> op \in ComparisonOps

\* rbh_filter_compare_new(): NULL (EINVAL) when the operator and the value
\* do not go together.
CompareNew(op, field, value) ==
    IF OpMatchesValue(op, value)
    THEN [op |-> op, field |-> field, value |-> value]
    ELSE Null

ExistsNew(field) == CompareNew("EXISTS", field, Val("BOOLEAN", TRUE))

Compose(op, left, right) == [op |-> op, filters |-> <<left, right>>]
FilterAnd(left, right) == Compose("AND", left, right)
FilterOr(left, right) == Compose("OR", left, right)
FilterNot(f) == [op |-> "NOT", filters |-> <<f>>]
ElemMatch(field, fs) == [op |-> "ELEMMATCH", field |-> field, filters |-> fs]
GetNew(f, toGet, field) ==
    [op |-> "GET", field |-> field, filter |-> f, to_get |-> toGet]

RangeNew(field, start, end) ==
    FilterAnd(CompareNew("STRICTLY_GREATER", field, Val("UINT64", start)),
              CompareNew("STRICTLY_LOWER", field, Val("UINT64", end)))

-----------------------------------------------------------------------------
(* rbh_filter_validate()                                                   *)

\* The statx fields a filter may be about (the mount id is not one).
StatxFields == {"type", "mode", "nlink", "uid", "gid", "atime", "mtime",
                "ctime", "btime", "ino", "size", "blocks", "blksize",
                "attributes", "atime_nsec", "mtime_nsec", "ctime_nsec",
                "btime_nsec", "rdev_major", "rdev_minor", "dev_major",
                "dev_minor"}

FieldValid(field) ==
    \/ field.fsentry \in {"id", "parent_id", "name", "symlink", "ns_xattr",
                          "xattr"}
    \/ field.fsentry = "statx" /\ field.key \in StatxFields

ComparisonValid(f) ==
    /\ OpMatchesValue(f.op, f.value)
    /\ FieldValid(f.field)
    /\ ValueValid(f.value)

\* 0 is "valid" in the code: the && of get_filter_validate() reports an error
\* only when both comparisons of a "get" filter are invalid.
GetValid(f) ==
    /\ FieldValid(f.field)
    /\ ComparisonValid(f.filter) \/ ComparisonValid(f.to_get)

RECURSIVE Valid(_)
Valid(f) ==
    CASE f.op = "NULL" -> TRUE
      [] IsComparison(f) -> ComparisonValid(f)
      [] f.op \in {"AND", "OR"} ->
            /\ f.filters # <<>>
            /\ \A i \in DOMAIN f.filters : Valid(f.filters[i])
      [] f.op = "NOT" -> Len(f.filters) = 1 /\ Valid(f.filters[1])
      [] f.op = "ELEMMATCH" ->
            /\ f.filters # <<>> /\ FieldValid(f.field)
            /\ \A i \in DOMAIN f.filters :
                  /\ IsComparison(f.filters[i])
                  /\ OpMatchesValue(f.filters[i].op, f.filters[i].value)
                  /\ ValueValid(f.filters[i].value)
      [] f.op = "GET" -> GetValid(f)
      [] OTHER -> FALSE

-----------------------------------------------------------------------------
(* rbh_filter_clone(): see RbhValues for how a clone is laid out.          *)

FILTER == 48

\* Mutant: the terminating NUL of the xattr's name is forgotten.
FieldSizeNoNul(field) ==
    IF field.fsentry \in {"ns_xattr", "xattr"} THEN Len(field.key) ELSE 0

\* filter_field_data_size(): only the name of an xattr needs memory.
FieldSize(field) ==
    IF field.fsentry \in {"ns_xattr", "xattr"} THEN StrSize(field.key) ELSE 0

\* filter_field_copy()
FieldCopy(field, at) ==
    IF field.fsentry \in {"ns_xattr", "xattr"} THEN at + StrSize(field.key)
    ELSE at

RECURSIVE FilterSize(_)
RECURSIVE ChildrenSize(_, _, _)
FilterSize(f) ==
    CASE f.op = "NULL" -> 0
      [] IsComparison(f) ->
            LET field == FieldSize(f.field)
            IN field + ValueSize(f.value, field)
      [] IsLogical(f) -> ChildrenSize(f.filters, 1, POINTER * Len(f.filters))
      [] f.op = "ELEMMATCH" ->
            ChildrenSize(f.filters, 1,
                         FieldSize(f.field) + POINTER * Len(f.filters))
      [] f.op = "GET" ->
            LET first == Align(FieldSize(f.field) + POINTER * 2) + FILTER
                           + FilterSize(f.filter)
            IN Align(first) + FILTER + FilterSize(f.to_get)

ChildrenSize(fs, i, size) ==
    IF i > Len(fs) THEN size
    ELSE ChildrenSize(fs, i + 1,
             IF fs[i].op = "NULL" THEN size
             ELSE Align(size) + FILTER + FilterSize(fs[i]))

RECURSIVE FilterCopy(_, _)
RECURSIVE ChildrenCopy(_, _, _)
FilterCopy(f, at) ==
    CASE IsComparison(f) -> ValueCopy(f.value, FieldCopy(f.field, at))
      [] IsLogical(f) ->
            ChildrenCopy(f.filters, 1, Align(at) + POINTER * Len(f.filters))
      [] f.op = "ELEMMATCH" ->
            ChildrenCopy(f.filters, 1,
                FieldCopy(f.field, Align(at) + POINTER * Len(f.filters)))
      [] f.op = "GET" ->
            FilterCopy(f.filter,
                Align(FilterCopy(f.to_get,
                          Align(FieldCopy(f.field, at)) + FILTER)) + FILTER)

ChildrenCopy(fs, i, at) ==
    IF i > Len(fs) THEN at
    ELSE ChildrenCopy(fs, i + 1,
             IF fs[i].op = "NULL" THEN at
             ELSE FilterCopy(fs[i], Align(at) + FILTER))

-----------------------------------------------------------------------------
(* rbh_filter_matches_fsentry()                                            *)
(* An entry is a record: one component per statx field (an integer), name  *)
(* (a string) and xattrs (values); a field the entry lacks is not in its   *)
(* domain. Type bits and permission bits are separate components.          *)

Has(entry, field) == field.key \in DOMAIN entry

Ordered(op, a, b) ==
    CASE op = "EQUAL"            -> a = b
      [] op = "STRICTLY_LOWER"   -> a < b
      [] op = "LOWER_OR_EQUAL"   -> a <= b
      [] op = "STRICTLY_GREATER" -> a > b
      [] op = "GREATER_OR_EQUAL" -> a >= b

\* Mutant: the cases of EQUAL are missing.
CompareValuesLoose(op, a, b) ==
    a.type = b.type /\ a.type \in IntTypes /\ op # "EQUAL" /\ Ordered(op, a.v, b.v)

\* compare_values(): nothing is equal across types, only integers are ordered
\* and the other types are never equal.
CompareValues(op, a, b) ==
    /\ a.type = b.type
    /\ IF op = "EQUAL" THEN a.type \in IntTypes \cup {"STRING"}
                       ELSE op \in OrderOps /\ a.type \in IntTypes
    /\ Ordered(op, a.v, b.v)

\* get_field_value(): NoValue where the code returns NULL. "mode" is the whole
\* st_mode, the type bits included.
FieldValue(entry, field) ==
    CASE ~Has(entry, field) \/ field.fsentry \in {"id", "parent_id"} -> NoValue
      [] field.fsentry \in {"name", "symlink"} ->
            Val("STRING", entry[field.key])
      [] field.fsentry \in {"ns_xattr", "xattr"} -> entry[field.key]
      [] field.key = "type" -> Val("INT32", entry.type)
      [] field.key = "mode" -> Val("UINT32", entry.mode + entry.type)
      [] OTHER -> Val("UINT64", entry[field.key])

\* fnmatch() and regexec() (external): the patterns of the model are "*" and
\* names.
RegexMatches(regex, string) == regex.string \in {"*", string}

RECURSIVE Matches(_, _)
Matches(f, entry) ==
    CASE f.op = "NULL" -> TRUE
      [] f.op \in OrderOps \cup {"EQUAL"} ->
            LET v == FieldValue(entry, f.field)
            IN v # NoValue /\ CompareValues(f.op, v, f.value)
      [] f.op = "REGEX" ->
            LET v == FieldValue(entry, f.field)
            IN v.type = "STRING" /\ RegexMatches(f.value.v, v.v)
      [] f.op = "IN" ->
            LET v == FieldValue(entry, f.field)
            IN /\ v # NoValue
               /\ \E i \in DOMAIN f.value.v :
                     CompareValues("EQUAL", v, f.value.v[i])
      [] f.op = "EXISTS" -> FieldValue(entry, f.field) # NoValue
      [] f.op = "AND" ->
            \A i \in DOMAIN f.filters : Matches(f.filters[i], entry)
      [] f.op = "OR" ->
            \E i \in DOMAIN f.filters : Matches(f.filters[i], entry)
      [] f.op = "NOT" -> ~Matches(f.filters[1], entry)
      [] OTHER -> FALSE

-----------------------------------------------------------------------------
(* What a filter means for an entry, said once for every backend: a        *)
(* comparison with a field the entry lacks is false, one with an array     *)
(* holds when it does for an element, and NOT is the complement.           *)

IsXattr(field) == field.fsentry \in {"ns_xattr", "xattr"}

BitsHold(op, a, b) ==
    LET bits == BitsOf(b, W32) set == BitsOf(a, W32)
    IN CASE op = "BITS_ANY_SET"   -> bits \cap set # {}
         [] op = "BITS_ALL_SET"   -> bits \subseteq set
         [] op = "BITS_ANY_CLEAR" -> ~(bits \subseteq set)
         [] op = "BITS_ALL_CLEAR" -> bits \cap set = {}

\* The values a comparison looks at.
Plain(entry, field) ==
    IF ~IsXattr(field) THEN <<entry[field.key]>>
    ELSE IF entry[field.key].type = "SEQUENCE"
         THEN [i \in DOMAIN entry[field.key].v |-> entry[field.key].v[i].v]
         ELSE <<entry[field.key].v>>

HoldsOf(f, plain) ==
    CASE f.op = "EXISTS" -> TRUE
      [] f.op = "REGEX" -> RegexMatches(f.value.v, plain)
      [] f.op \in BitOps -> BitsHold(f.op, plain, f.value.v)
      [] f.op = "IN" -> \E i \in DOMAIN f.value.v : f.value.v[i].v = plain
      [] OTHER -> Ordered(f.op, plain, f.value.v)

\* An element of an array of maps is compared by its keys.
ElementHolds(f, element) ==
    IF element.type = "MAP" THEN HoldsOf(f, FindKey(element.v, f.field.key).v)
                            ELSE HoldsOf(f, element.v)

RECURSIVE Meaning(_, _)
Meaning(f, entry) ==
    CASE f.op = "NULL" -> TRUE
      [] f.op = "AND" -> \A i \in DOMAIN f.filters : Meaning(f.filters[i], entry)
      [] f.op = "OR" -> \E i \in DOMAIN f.filters : Meaning(f.filters[i], entry)
      [] f.op = "NOT" -> ~Meaning(f.filters[1], entry)
      [] f.op = "GET" -> Meaning(f.filter, entry)
      [] ~Has(entry, f.field) -> FALSE
      [] f.op = "ELEMMATCH" ->
            \E i \in DOMAIN entry[f.field.key].v : \A j \in DOMAIN f.filters :
               ElementHolds(f.filters[j], entry[f.field.key].v[i])
      [] OTHER -> \E i \in DOMAIN Plain(entry, f.field) :
                     HoldsOf(f, Plain(entry, f.field)[i])

\* The comparisons, arrays and "get" nodes of a filter.
RECURSIVE Leaves(_)
Leaves(f) ==
    CASE f.op = "NULL" -> {}
      [] IsLogical(f) -> UNION {Leaves(f.filters[i]) : i \in DOMAIN f.filters}
      [] OTHER -> {f}

\* rbh_filter_matches_fsentry() knows neither bits, arrays nor "get" nodes, that
\* it takes for false, and sees the type bits in the mode.
Checkable(f) ==
    \A g \in Leaves(f) :
       g.op \notin BitOps \cup {"ELEMMATCH", "GET"} /\ g.field.key # "mode"

-----------------------------------------------------------------------------
(* filters/core.c: complete_rbh_filter() replaces, in every "get" node,    *)
(* the value of the comparison by a field of the first entry of db (the    *)
(* entries of the backend, in order) that to_get selects.                  *)

\* update_rbh_value(): only the modification time can be taken over.
UpdateValue(f, field, entry) ==
    IF field.fsentry = "statx" /\ field.key = "mtime"
    THEN [f EXCEPT !.value.v = entry.mtime]
    ELSE f

FirstMatch(f, db) ==
    CHOOSE i \in DOMAIN db : /\ Matches(f, db[i])
                             /\ \A j \in 1..(i - 1) : ~Matches(f, db[j])

\* What complete_rbh_filter() returns: 0, -1 when an entry is missing, or a
\* NULL pointer dereferenced (the children of a logical node may be NULL).
RECURSIVE CompleteStatus(_, _)
CompleteStatus(f, db) ==
    CASE f.op = "NULL" -> "crash"
      [] IsLogical(f) ->
            LET status == [i \in DOMAIN f.filters |->
                              CompleteStatus(f.filters[i], db)]
                bad == {i \in DOMAIN status : status[i] # "ok"}
            IN IF bad = {} THEN "ok"
               ELSE status[CHOOSE i \in bad : \A j \in bad : i <= j]
      [] f.op = "GET" /\ (\A i \in DOMAIN db : ~Matches(f.to_get, db[i])) ->
            "missing"
      [] OTHER -> "ok"

\* The filter complete_rbh_filter() leaves behind when it returns 0.
RECURSIVE Complete(_, _)
Complete(f, db) ==
    CASE IsLogical(f) ->
            [f EXCEPT !.filters =
                [i \in DOMAIN f.filters |-> Complete(f.filters[i], db)]]
      [] f.op = "GET" ->
            [f EXCEPT !.filter =
                UpdateValue(f.filter, f.field, db[FirstMatch(f.to_get, db)])]
      [] OTHER -> f

=============================================================================
