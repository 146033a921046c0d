---------------------------- MODULE PolicyConfig ----------------------------
(***************************************************************************)
(* rbh-policy's configuration (rbhpolicy/config): what a condition becomes *)
(* for the plugin's filters (utils.py, conditions.py, build_filter() of    *)
(* cpython.py), and how a trigger is evaluated (triggers.py, trigger.c).   *)
(*                                                                         *)
(* A condition is [key, op, n, unit], the value being the text "<n><unit>";*)
(* [op, left, right] for & and |; [op, cond] for ~. What the configuration *)
(* refuses is <<>>, what it accepts <<result>>.                            *)
(***************************************************************************)
EXTENDS Predicates

CONSTANT DoubleBits       \* bits of the mantissa of a floating-point number

ASSUME DoubleAssumption == DoubleBits \in Nat \ {0}

KeysStrings == {"Path", "Name", "User"}
KeysTime == {"LastAccess", "LastModification", "LastChange", "CreationDate"}

-----------------------------------------------------------------------------
(* The values.                                                             *)

StorageSuffix(unit) ==
    CASE unit \in {"B", "c"} -> "c" [] unit \in {"KB", "k"} -> "k"
      [] unit \in {"MB", "M"} -> "M" [] unit \in {"GB", "G"} -> "G"
      [] unit \in {"TB", "T"} -> "T" [] unit \in {"PB", "P"} -> "P"
      [] unit \in {"EB", "E"} -> "E" [] OTHER -> ""

\* The powers of ten.
QUANTITY == [k |-> 3, M |-> 6, B |-> 9, T |-> 12]
MINUTES == [m |-> 1, h |-> 60, d |-> 1440, w |-> 10080, mo |-> 43200, y |-> 525600]

parse_storage_unit(n, unit) == [kind |-> "storage", n |-> n, unit |-> StorageSuffix(unit)]
parse_quantity_unit(n, unit) == [kind |-> "quantity", n |-> n * 10^QUANTITY[unit], unit |-> ""]

\* From one day on, in whole days.
parse_time_unit(n, unit) ==
    LET total == n * MINUTES[unit]
    IN IF total < 1440 THEN [kind |-> "time", n |-> total, unit |-> "m"]
       ELSE [kind |-> "time", n |-> total \div 1440, unit |-> "d"]

\* The parsers in the order they are tried: a "k", an "M" or a "T" is a
\* quantity, except for a size. Dates are left out.
parse_unit(key, n, unit) ==
    LET storage == StorageSuffix(unit) # "" quantity == unit \in DOMAIN QUANTITY
    IN CASE storage /\ (key = "Size" \/ ~quantity) -> <<parse_storage_unit(n, unit)>>
         [] quantity /\ ~(storage /\ key = "Size") -> <<parse_quantity_unit(n, unit)>>
         [] unit \in DOMAIN MINUTES -> <<parse_time_unit(n, unit)>>
         [] unit = "" -> <<[kind |-> "int", n |-> n, unit |-> ""]>>
         [] OTHER -> <<>>

-----------------------------------------------------------------------------
(* The conditions.                                                         *)

\* Mutant: the strict and the loose comparisons are taken for each other.
translate_operatorLoose(n, op) ==
    CASE op = "eq" -> <<[sign |-> "", n |-> n]>>
      [] op \in {"gt", "ge"} -> <<[sign |-> "+", n |-> n]>>
      [] op \in {"lt", "le"} -> <<[sign |-> "-", n |-> n]>>
      [] OTHER -> <<>>

\* find's "+n", "-n" and "n"; "!=" raises ValueError.
translate_operator(n, op) ==
    CASE op = "eq" -> <<[sign |-> "", n |-> n]>>
      [] op = "gt" -> <<[sign |-> "+", n |-> n]>>
      [] op = "ge" -> <<[sign |-> "+", n |-> IF n = 0 THEN 0 ELSE n - 1]>>
      [] op = "lt" -> <<[sign |-> "-", n |-> n]>>
      [] op = "le" -> <<[sign |-> "-", n |-> n + 1]>>
      [] OTHER -> <<>>

TimeKey(key) == CASE key = "LastAccess" -> "atime" [] key = "LastModification" -> "mtime"
                  [] key = "LastChange" -> "ctime" [] OTHER -> "btime"

Predicate(name, key, arg) == [name |-> name, key |-> key, arg |-> arg]

\* A duration is taken for a number of blocks.
handle_size(v, op) ==
    LET t == translate_operator(v.n, op)
        suffix == CASE v.kind = "int" -> "c" [] v.kind = "storage" -> v.unit [] OTHER -> "b"
    IN IF t = <<>> THEN <<>>
       ELSE <<Predicate("size", "size", [sign |-> t[1].sign, n |-> t[1].n, suffix |-> suffix])>>

\* A time without a unit keeps its text: the operator is lost.
handle_time(key, v, op) ==
    LET t == IF v.kind = "time" THEN translate_operator(v.n, op)
             ELSE <<[sign |-> "", n |-> v.n]>>
        name == IF v.kind = "time" /\ v.unit = "m" THEN "amin" ELSE "atime"
    IN IF t = <<>> \/ v.kind \notin {"time", "int"} THEN <<>>
       ELSE <<Predicate(name, TimeKey(key), t[1])>>

\* translate_condition(): the operator only counts for sizes and durations.
translate_condition(c) ==
    IF c.key = "Type" THEN <<Predicate("type", "type", c.unit)>>
    ELSE IF c.key \in KeysStrings THEN
        <<CASE c.key = "Path" -> Predicate("path", "path", c.unit)
            [] c.key = "Name" -> Predicate("name", "name", c.unit)
            [] OTHER -> Predicate("user", "uid", c.n)>>
    ELSE LET v == parse_unit(c.key, c.n, c.unit)
         IN IF v = <<>> THEN <<>>
            ELSE CASE c.key = "Size" -> handle_size(v[1], c.op)
                   [] c.key = "DirCount" ->
                        LET t == translate_operator(v[1].n, c.op)
                        IN IF t = <<>> \/ v[1].kind = "storage" THEN <<>>
                           ELSE <<Predicate("dircount", "", t[1])>>
                   [] c.key \in KeysTime -> handle_time(c.key, v[1], c.op)
                   [] v[1].kind \in {"int", "quantity"} ->
                        <<Predicate("uid", "uid", [sign |-> "", n |-> v[1].n])>>
                   [] OTHER -> <<>>

\* build_filter_from_uri(): NULL for a predicate that nobody knows.
build_filter(p) == IF p.name = "dircount" THEN Null ELSE posix_build_filter(p)

SimpleFilter(c) ==
    LET p == translate_condition(c)
    IN IF p = <<>> THEN <<>>
       ELSE IF c.op = "ne" THEN <<FilterNot(build_filter(p[1]))>>
       ELSE <<build_filter(p[1])>>

\* to_filter(), for conditions of two levels at most.
to_filter(c) ==
    CASE c.op \in {"and", "or"} ->
            LET l == SimpleFilter(c.left) r == SimpleFilter(c.right)
            IN IF l = <<>> \/ r = <<>> THEN <<>>
               ELSE IF c.op = "and" THEN <<FilterAnd(l[1], r[1])>>
               ELSE <<FilterOr(l[1], r[1])>>
      [] c.op = "not" ->
            LET f == SimpleFilter(c.cond)
            IN IF f = <<>> THEN <<>> ELSE <<FilterNot(f[1])>>
      [] OTHER -> SimpleFilter(c)

-----------------------------------------------------------------------------
(* What a condition means: a size is counted in units, rounded up; an age, *)
(* Now less a timestamp, is compared with a duration, and "is" the duration*)
(* as long as it is that number of whole units.                            *)

Compare(a, op, b) ==
    CASE op = "eq" -> a = b [] op = "ne" -> a # b [] op = "gt" -> a > b
      [] op = "ge" -> a >= b [] op = "lt" -> a < b [] op = "le" -> a <= b

Bytes(c) == 2^UNIT[IF c.unit = "" THEN "c" ELSE StorageSuffix(c.unit)]
Seconds(c) == MINUTES[c.unit] * 60

Age(c, e) == Now - e[TimeKey(c.key)]

Means(c, e) ==
    CASE c.key = "Size" -> Compare((e.size + Bytes(c) - 1) \div Bytes(c), c.op, c.n)
      [] c.key \in KeysTime ->
            IF c.op \in {"eq", "ne"} THEN Compare(Age(c, e) \div Seconds(c), c.op, c.n)
            ELSE Compare(Age(c, e), c.op, c.n * Seconds(c))
      [] c.key = "Type" -> Compare(e.type, c.op, S_IF[c.unit])
      [] c.key \in {"User", "UID"} -> Compare(e.uid, c.op, c.n)
      [] c.key = "Name" -> (c.unit \in {"*", e.name}) <=> (c.op = "eq")

\* Where the translation into find's numbers departs from that. A duration is
\* a number of minutes or, from one day on, of days, without the rest. Then "at
\* least n" is more than n - 1, "at most n" is less than n + 1, and "n" is more
\* than n and less than n + 1, of these.
AgeDeparts(c, e) ==
    LET age == Age(c, e)
        given == c.n * Seconds(c)
        step == IF given < 86400 THEN 60 ELSE 86400
        n == given \div step
    IN CASE c.op = "gt" -> n * step < age /\ age <= given
         [] c.op = "lt" -> n * step <= age /\ age < given
         [] c.op = "ge" -> IF n = 0 THEN age = 0 ELSE (n - 1) * step < age /\ age < given
         [] c.op = "le" -> given < age /\ age < (n + 1) * step
         [] OTHER -> (age \div Seconds(c) = c.n) # (n * step < age /\ age < (n + 1) * step)

\* A size of 0 units is one of at most one unit; one cannot be less than 0.
SizeDeparts(c, e) ==
    /\ c.n = 0
    /\ CASE c.op \in {"lt", "ge"} -> e.size = 0
         [] c.op \in {"eq", "ne"} -> e.size <= Bytes(c)
         [] OTHER -> FALSE

\* The operator of a user is lost, but for "!=".
UserDeparts(c, e) == c.op # "ne" /\ Compare(e.uid, c.op, c.n) # (e.uid = c.n)

Departs(c, e) ==
    CASE c.key = "Size" -> SizeDeparts(c, e)
      [] c.key \in KeysTime -> AgeDeparts(c, e)
      [] c.key \in {"User", "UID"} -> UserDeparts(c, e)
      [] OTHER -> FALSE

Selects(c, e) == Means(c, e) # Departs(c, e)

Selected(c, e) ==
    CASE c.op = "and" -> Selects(c.left, e) /\ Selects(c.right, e)
      [] c.op = "or" -> Selects(c.left, e) \/ Selects(c.right, e)
      [] c.op = "not" -> ~Selects(c.cond, e)
      [] OTHER -> Selects(c, e)

\* What is accepted and means nothing: a size that is a duration, an age without
\* a unit, and the number of children, which no plugin knows.
Meaningless(c) ==
    \/ c.key = "Size" /\ StorageSuffix(c.unit) = "" /\ c.unit # ""
    \/ c.key \in KeysTime /\ c.unit \notin DOMAIN MINUTES
    \/ c.key = "DirCount"

SomeMeaningless(c) ==
    CASE c.op \in {"and", "or"} -> Meaningless(c.left) \/ Meaningless(c.right)
      [] c.op = "not" -> Meaningless(c.cond)
      [] OTHER -> Meaningless(c)

-----------------------------------------------------------------------------
(* The triggers. A trigger is [kind], with op and threshold (percent and   *)
(* stat), field (stat), at (scheduled), left and right (and, or). They are *)
(* evaluated in a context: manual, now, capacity (used and total, <<>>     *)
(* when there is no provider), sizes (of the mirror's documents, one for   *)
(* each name), db (whether the query works).                               *)

CompareNumeric(value, threshold, op) == Compare(value, op, threshold)

\* rbh_trigger_query_stat(): nothing selected is 0.
query_stat(field, sizes) ==
    IF field = "count" THEN Len(sizes) ELSE FoldLeft(LAMBDA sum, s : sum + s, 0, sizes)

\* What a trigger decides: "T", "F", or "raise".
Decision(b) == IF b THEN "T" ELSE "F"

\* The floating-point number nearest to n / d, of two the even one: m / 2^s.
Float(n, d) ==
    LET s == CHOOSE s \in 0..(2 * DoubleBits) :
                 2^(DoubleBits - 1) * d <= n * 2^s /\ n * 2^s < 2^DoubleBits * d
        q == (n * 2^s) \div d
        r == (n * 2^s) % d
        up == 2 * r > d \/ (2 * r = d /\ q % 2 = 1)
    IN IF n = 0 THEN [m |-> 0, s |-> 0] ELSE [m |-> IF up THEN q + 1 ELSE q, s |-> s]

\* used / total * 100.0
used_pct(capacity) ==
    LET ratio == Float(capacity.used, capacity.total)
    IN Float(100 * ratio.m, 2^ratio.s)

EvaluatePercent(t, ctx) ==
    CASE ctx.capacity = <<>> -> "raise"
      [] ctx.capacity[1].total = 0 -> "F"
      [] OTHER -> LET pct == used_pct(ctx.capacity[1])
                  IN Decision(CompareNumeric(pct.m, t.threshold * 2^pct.s, t.op))

EvaluateOne(t, ctx) ==
    CASE t.kind \in {"always", "periodic"} -> "T"
      [] t.kind = "scheduled" -> Decision(ctx.manual \/ ctx.now >= t.at)
      [] t.kind = "percent" -> EvaluatePercent(t, ctx)
      [] t.kind = "stat" ->
            Decision(ctx.db /\ CompareNumeric(query_stat(t.field, ctx.sizes), t.threshold, t.op))

\* Mutant: the second trigger always decides.
EvaluateAndOrLast(t, ctx) == EvaluateOne(t.right, ctx)

\* evaluate_trigger(), for triggers of two levels at most: the second one is
\* not evaluated when the first one decides.
EvaluateAndOr(t, ctx) ==
    LET left == EvaluateOne(t.left, ctx)
    IN IF left = (IF t.kind = "and" THEN "T" ELSE "F") THEN EvaluateOne(t.right, ctx)
       ELSE left

evaluate_trigger(t, ctx) ==
    IF t.kind \in {"and", "or"} THEN EvaluateAndOr(t, ctx) ELSE EvaluateOne(t, ctx)

\* What a trigger means, given what can be known.
Holds(t, ctx) ==
    CASE t.kind = "percent" ->
            /\ ctx.capacity # <<>>
            /\ ctx.capacity[1].total > 0
            /\ Compare(100 * ctx.capacity[1].used, t.op, t.threshold * ctx.capacity[1].total)
      [] t.kind = "stat" ->
            /\ ctx.db
            /\ Compare(IF t.field = "count" THEN Len(ctx.sizes)
                       ELSE FoldLeft(LAMBDA a, b : a + b, 0, ctx.sizes), t.op, t.threshold)
      [] t.kind = "scheduled" -> ctx.manual \/ t.at <= ctx.now
      [] OTHER -> TRUE

\* The capacity in use is the threshold, up to the rounding of its percentage.
AtThreshold(t, ctx) ==
    /\ t.kind = "percent"
    /\ ctx.capacity # <<>> /\ ctx.capacity[1].total > 0
    /\ LET used == 100 * ctx.capacity[1].used
           limit == t.threshold * ctx.capacity[1].total
       IN 2^(DoubleBits - 2) * (IF used > limit THEN used - limit ELSE limit - used) < used

SomeAtThreshold(t, ctx) ==
    IF t.kind \in {"and", "or"} THEN AtThreshold(t.left, ctx) \/ AtThreshold(t.right, ctx)
    ELSE AtThreshold(t, ctx)

Wanted(t, ctx) ==
    CASE t.kind = "and" -> Holds(t.left, ctx) /\ Holds(t.right, ctx)
      [] t.kind = "or" -> Holds(t.left, ctx) \/ Holds(t.right, ctx)
      [] OTHER -> Holds(t, ctx)
=============================================================================
