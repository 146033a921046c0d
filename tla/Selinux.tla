------------------------------ MODULE Selinux -------------------------------
(***************************************************************************)
(* The selinux extension of the posix plugin: the security context of an   *)
(* inode as it is stored, and the predicates about it. A context is [user, *)
(* role, type, range], a range the sequence of its one or two levels, a    *)
(* level [sens, items] with the categories as they are written: a          *)
(* sequence of [first, last].                                              *)
(***************************************************************************)
EXTENDS Predicates

CONSTANTS MaxCategory,      \* SELINUX_MAX_CATEGORY
          MaxSensitivity    \* SELINUX_MAX_SENSITIVITY

ASSUME SelinuxAssumption == MaxCategory \in Nat /\ MaxSensitivity \in Nat

Invalid == [ok |-> FALSE, intervals |-> <<>>]

\* Mutant: adjacent intervals are not merged.
append_intervalApart(parsed, item) ==
    LET n == Len(parsed.intervals)
    IN CASE ~parsed.ok \/ item.last < item.first -> Invalid
         [] n > 0 /\ item.first <= parsed.intervals[n].last -> Invalid
         [] OTHER -> [parsed EXCEPT !.intervals = Append(@, item)]

append_interval(parsed, item) ==
    LET n == Len(parsed.intervals)
        previous == parsed.intervals[n]
    IN CASE ~parsed.ok \/ item.last < item.first -> Invalid
         [] n > 0 /\ item.first >= previous.first
                  /\ item.first <= previous.last + 1 ->
                [parsed EXCEPT !.intervals[n].last =
                    IF item.last > @ THEN item.last ELSE @]
         [] n > 0 /\ item.first <= previous.last -> Invalid
         [] OTHER -> [parsed EXCEPT !.intervals = Append(@, item)]

\* selinux_parse_level(), with parse_category_set() and parse_category_item()
parse_level(level) ==
    IF level.sens > MaxSensitivity
         \/ \E i \in DOMAIN level.items :
               level.items[i].first > MaxCategory \/ level.items[i].last > MaxCategory
    THEN Invalid
    ELSE FoldLeft(append_interval, [ok |-> TRUE, intervals |-> <<>>],
                  level.items)

\* selinux_parse_range() returns 0; a single level is both ends of the range.
RangeValid(range) == \A i \in DOMAIN range : parse_level(range[i]).ok

add_interval_list_pair(key, intervals) ==
    IF intervals = <<>> THEN <<>>
    ELSE key :> Val("SEQUENCE",
            [i \in DOMAIN intervals |->
               Val("MAP", <<[key |-> "f",
                             value |-> Val("INT32", intervals[i].first)],
                            [key |-> "l",
                             value |-> Val("INT32", intervals[i].last)]>>)])

\* fill_selinux_pairs(): a range that does not parse is only kept as text.
fill_selinux_pairs(context) ==
    ("selinux.user" :> Val("STRING", context.user))
      @@ ("selinux.role" :> Val("STRING", context.role))
      @@ ("selinux.type" :> Val("STRING", context.type))
      @@ ("selinux.range" :> Val("STRING", context.range))
      @@ (IF ~RangeValid(context.range) THEN <<>>
          ELSE ("selinux.high_sens" :> Val("INT32", Last(context.range).sens))
                 @@ add_interval_list_pair("selinux.low_cat",
                        parse_level(Head(context.range)).intervals)
                 @@ add_interval_list_pair("selinux.high_cat",
                        parse_level(Last(context.range)).intervals))

-----------------------------------------------------------------------------
(* The predicates.                                                         *)

selinux_string2filter(key, string) ==
    CompareNew("EQUAL", Xattr(key), Val("STRING", string))

context_predicate2filter(context) ==
    FilterAnd(FilterAnd(FilterAnd(
        selinux_string2filter("selinux.user", context.user),
        selinux_string2filter("selinux.role", context.role)),
        selinux_string2filter("selinux.type", context.type)),
        selinux_string2filter("selinux.range", context.range))

interval_cover_filter(interval) ==
    ElemMatch(Xattr("selinux.high_cat"),
              <<I32("LOWER_OR_EQUAL", Xattr("f"), interval.first),
                I32("GREATER_OR_EQUAL", Xattr("l"), interval.last)>>)

\* The level of the argument is valid: the program ends otherwise.
selinux_dominates_filter(level) ==
    FoldLeft(LAMBDA f, interval : FilterAnd(f, interval_cover_filter(interval)),
             I32("GREATER_OR_EQUAL", Xattr("selinux.high_sens"), level.sens),
             parse_level(level).intervals)

selinux_has_cat_filter(category) ==
    interval_cover_filter([first |-> category, last |-> category])

\* rbh_selinux_build_filter()
selinux_build_filter(p) ==
    CASE p.name = "selinux-context" -> context_predicate2filter(p.arg)
      [] p.name \in {"selinux-user", "selinux-role", "selinux-type",
                     "selinux-range"} -> selinux_string2filter(p.key, p.arg)
      [] p.name = "selinux-range-dominates" -> selinux_dominates_filter(p.arg)
      [] p.name = "selinux-has-cat" -> selinux_has_cat_filter(p.arg)

=============================================================================
