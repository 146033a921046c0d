------------------------------ MODULE MCPolicy ------------------------------
(* Bounds for Policy: two directories, two files (one with two names).       *)
EXTENDS Policy

MCStarts ==
    {[tree |-> (<<Root, "a">> :> "d" @@ <<"d", "a">> :> "e" @@ <<"e", "a">> :> "f"
                  @@ <<"d", "b">> :> "g" @@ <<Root, "b">> :> "g"),
      up |-> [x \in Dir |-> IF x = "e" THEN "d" ELSE Root],
      attr |-> [x \in {Root} \cup Dir \cup File |->
                   CASE x = "f" -> 2 [] x = "e" -> 3 [] x = "g" -> 1 [] OTHER -> 0]]}

Do(form, prefix, verb, count, output) ==
    [form |-> form, prefix |-> prefix, verb |-> verb, parents |-> FALSE, below |-> <<>>,
     count |-> count, output |-> output]
Purge(parents, below, count) ==
    [Do("text", "", "delete", count, "") EXCEPT !.parents = parents, !.below = below]
LogTo(output, count) == Do("text", "common", "log", count, output)

Posix == <<[name |-> "posix", plugin |-> TRUE, deletes |-> TRUE]>>
Rule(filter, a) == [filter |-> filter, action |-> a]
Of(filter, a, rules, sort) ==
    [filter |-> filter, action |-> a, rules |-> rules, sort |-> sort,
     trigger |-> [kind |-> "always"], providers |-> Posix]
Stat(op, n) == [kind |-> "stat", field |-> "count", op |-> op, threshold |-> n]

MCPlans ==
    {<<Of({1, 2}, Purge(TRUE, <<>>, 0), <<>>, "none")>>,
     <<Of({1, 2, 3}, Purge(TRUE, <<<<"a">>>>, 0), <<>>, "asc")>>,
     <<Of({0, 2}, Purge(TRUE, <<<<"b">>>>, 0), <<>>, "none")>>,
     <<Of({1, 2}, Purge(FALSE, <<>>, 1), <<>>, "asc"),
       Of({1, 2}, Purge(FALSE, <<>>, 2), <<>>, "desc")>>,
     <<Of({1, 2, 3}, LogTo("x", 0),
          <<Rule(<<{2, 3}>>, Purge(FALSE, <<>>, 1)), Rule(<<{2}>>, LogTo("y", 1))>>, "none")>>,
     <<Of({1, 2}, LogTo("x", 1), <<Rule(<<{1}>>, LogTo("", 1)), Rule(<<>>, LogTo("y", 1))>>,
          "none"),
       [Of({1, 2}, LogTo("x", 0), <<>>, "none") EXCEPT !.trigger = Stat("ge", 6)]>>,
     <<[Of({1}, Do("text", "cmd", "stat", 0, ""), <<>>, "none") EXCEPT !.trigger = Stat("lt", 6)],
       Of({1, 2}, Do("function", "", "f", 0, ""),
          <<Rule(<<{2}>>, Do("none", "", "", 0, ""))>>, "none"),
       [Of({1}, LogTo("", 0), <<>>, "none") EXCEPT
          !.trigger = [kind |-> "percent", op |-> "gt", threshold |-> 50]]>>,
     <<Of({2}, Do("text", "lustre", "delete", 0, ""), <<>>, "none")>>}

Cond(key, op, n, unit) == [key |-> key, op |-> op, n |-> n, unit |-> unit]
Ops == {"eq", "ne", "gt", "ge", "lt", "le"}
Simple ==
    {Cond("Size", op, n, u) : op \in Ops, n \in 0..3, u \in {"", "KB", "M", "h"}}
      \cup {Cond(key, op, n, u) : key \in KeysTime, op \in Ops, n \in {0, 2, 3},
                                  u \in {"m", "h", "d", "", "k", "MB"}}
      \cup {Cond("LastAccess", op, n, "h") : op \in Ops, n \in {24, 36}}
      \cup {Cond("LastAccess", op, n, "m") : op \in Ops, n \in {1439, 1440}}
      \cup {Cond(key, op, n, "") : key \in {"UID", "User", "DirCount"}, op \in Ops, n \in {1, 2}}
      \cup {Cond("Type", op, 0, t) : op \in {"eq", "ne"}, t \in {"f", "d"}}
      \cup {Cond("Name", op, 0, n) : op \in {"eq", "ne"}, n \in {"*", "n"}}
Few == {Cond("Size", "ge", 2, "KB"), Cond("LastAccess", "gt", 2, "d"), Cond("UID", "ne", 1, ""),
        Cond("Type", "eq", 0, "f")}
MCConditions == Simple \cup {[op |-> op, left |-> l, right |-> r] :
                                op \in {"and", "or"}, l \in Few, r \in Few}
                       \cup {[op |-> "not", cond |-> c] : c \in Few}

Entry(size, age, uid, type) ==
    [size |-> size, uid |-> uid, type |-> type, name |-> "n", atime |-> Now - age,
     mtime |-> Now - 2 * age, ctime |-> Now - age, btime |-> Now - age]
Day == 86400
MCFileEntries ==
    {Entry(s, 5, 1, 8) : s \in {0, 1, 2, 3, 1023, 1024, 1025, 2048, 2049, 3073, 2^20, 2^20 + 1,
                                3 * 2^20}}
      \cup {Entry(1, a, 2, 4) : a \in {0, 59, 60, 119, 120, 121, 179, 180, 181, 240, 7199, 7200,
               10801, Day - 1, Day, Day + 1, 2 * Day, 2 * Day + 1, 3 * Day - 1, 3 * Day,
               4 * Day, 129600}}

Triggers1 == {[kind |-> "always"], [kind |-> "periodic"], [kind |-> "scheduled", at |-> 5]}
               \cup {[kind |-> "percent", op |-> op, threshold |-> n] : op \in Ops, n \in {0, 50}}
               \cup {[kind |-> "stat", field |-> f, op |-> op, threshold |-> n] :
                        f \in {"count", "size"}, op \in {"gt", "le"}, n \in {0, 2}}
MCTriggers == Triggers1 \cup {[kind |-> "percent", op |-> op, threshold |-> n] :
                                op \in Ops, n \in {6, 7, 29, 30}} \cup {[kind |-> kind, left |-> l, right |-> r] :
                                 kind \in {"and", "or"}, l \in Triggers1, r \in Triggers1}
MCContexts ==
    {[manual |-> m, now |-> n, capacity |-> c, sizes |-> s, db |-> d] :
        m \in BOOLEAN, n \in {4, 5}, d \in BOOLEAN,
        c \in {<<>>, <<[used |-> 0, total |-> 0]>>, <<[used |-> 1, total |-> 2]>>,
              <<[used |-> 29, total |-> 100]>>, <<[used |-> 7, total |-> 100]>>},
        s \in {<<>>, <<3>>, <<1, 1, 0>>}}

Module(name, deletes) == [name |-> name, plugin |-> FALSE, deletes |-> deletes]
MCProviderLists ==
    {<<[name |-> "posix", plugin |-> TRUE, deletes |-> d]>> \o exts : d \in BOOLEAN,
        exts \in {<<>>} \cup {<<Module("lustre", e)>> : e \in BOOLEAN}
                   \cup {<<Module("lustre", e), Module("retention", f)>> : e, f \in BOOLEAN}}
MCDeletes == {Do("text", prefix, "delete", 0, "") : prefix \in {"common", "posix", "lustre", "acl"}}
=============================================================================
