--------------------------- MODULE MCFindCommand ---------------------------
(* Seconds are those of a clock at 300000; sizes are below 2^20. A test of *)
(* permissions carries the bits that chmod would set in its key.           *)
EXTENDS FindCommand

Entry(name, type, mode, ids, size, times) ==
    [name |-> name, path |-> Val("STRING", name), type |-> S_IF[type],
     mode |-> mode, uid |-> ids, gid |-> ids, size |-> size, nlink |-> ids + 1,
     blocks |-> size \div 512, ino |-> size, atime |-> times[1],
     mtime |-> times[2], ctime |-> times[3], btime |-> times[4]]

\* 86400 s: one day; 120 s: two minutes
At(age) == Now - age
MCEntries ==
    <<Entry("a", "f", 448, 1, 0, <<At(1), At(60), At(61), At(119)>>),
      Entry("b", "f", 493, 2, 513, <<At(120), At(121), At(179), At(180)>>),
      Entry("c", "d", 2541, 1, 1024, <<At(181), At(86399), At(86400), At(86401)>>)
        @@ [nb_children |-> Val("INT64", 0)],
      Entry("d", "d", 1023, 3, 1025, <<At(172799), At(172800), At(172801), At(0)>>)
        @@ [nb_children |-> Val("INT64", 2), user |-> Val("STRING", "x")],
      Entry("e", "l", 511, 2, 2048, <<At(59), At(30), At(86400), At(172800)>>)
        @@ [symlink |-> "a"],
      Entry("f", "f", 49, 3, 0, <<At(60), At(86460), At(3600), At(259200)>>)>>
\* The owner of z may do less than its group.
MCOther == <<[Entry("z", "f", 48, 2, 513, <<At(5), At(5), At(5), At(5)>>)
                EXCEPT !.gid = 1]>>

\* Entry b has grown and been made set-user-ID, and d is gone, since they were
\* read.
MCBackends ==
    <<[db |-> MCEntries,
       fs |-> [p \in {"a", "b", "c", "e", "f"} |->
                 CASE p = "a" -> MCEntries[1]
                   [] p = "b" -> [MCEntries[2] EXCEPT !.size = 4096,
                                                      !.mode = @ + 2048]
                   [] p = "c" -> MCEntries[3]
                   [] p = "e" -> MCEntries[5]
                   [] p = "f" -> MCEntries[6]]],
      [db |-> MCOther, fs |-> [p \in {"z"} |-> MCOther[1]]]>>

MCUsers == <<[name |-> "u", uid |-> 1, gid |-> 2, gids |-> {}],
             [name |-> "v", uid |-> 2, gid |-> 1, gids |-> {3}]>>
MCGroups == <<1, 2>>

Number(k) == [sign |-> <<"-", "+", "">>[(k % 3) + 1], n |-> k \div 3]
Times == <<<<"amin", "atime">>, <<"mmin", "mtime">>, <<"cmin", "ctime">>,
           <<"bmin", "btime">>, <<"atime", "atime">>, <<"mtime", "mtime">>,
           <<"ctime", "ctime">>, <<"btime", "btime">>>>
TimeTests == [k \in 1..72 |-> Word(Times[((k - 1) % 8) + 1][1],
                                   Number((k - 1) \div 8),
                                   Times[((k - 1) % 8) + 1][2])]
Size(k, suffix) == [sign |-> <<"-", "+", "">>[(k % 3) + 1], n |-> k \div 3,
                    suffix |-> suffix]
SizeTests == [k \in 1..15 |-> Word("size", Size(k - 1, "b"), "")]
               \o [k \in 1..9 |-> Word("size", Size(k - 1, "k"), "")]
               \o <<Word("size", Size(3, "c"), ""), Word("size", Size(4, "w"), "")>>
NumericTests == [k \in 1..9 |-> Word("uid", Number(k), "uid")]
                  \o [k \in 1..9 |-> Word("links", Number(k), "nlink")]
                  \o <<Word("gid", Number(4), "gid"), Word("inum", Number(5), "ino"),
                       Word("blocks", Number(3), "blocks")>>

\* [who, op, what, v]: u+rwx ; u+rw,g=u ; a=r,o-r ; u+s ; 0755 ; +X after x
Act(op, what, v) == [op |-> op, what |-> what, v |-> v]
Clause(who, actions) == [who |-> who, actions |-> actions]
Perm(match, clauses, bits) ==
    Word("perm", [match |-> match, clauses |-> clauses], bits)
PermTests ==
    FlattenSeq([i \in 1..3 |->
        LET m == <<"/", "-", "">>[i]
        IN <<Perm(m, <<Clause({"u"}, <<Act("+", "perm", {"r", "w", "x"})>>)>>, {6, 7, 8}),
             Perm(m, <<Clause({"u"}, <<Act("+", "perm", {"r", "w"})>>),
                       Clause({"g"}, <<Act("=", "copy", "u")>>)>>, {8, 7, 5, 4}),
             Perm(m, <<Clause({}, <<Act("+", "perm", {"r"})>>),
                       Clause({"o"}, <<Act("-", "perm", {"r"})>>)>>, {8, 5}),
             Perm(m, <<Clause({"u", "g"}, <<Act("+", "perm", {"s"})>>)>>, {11, 10}),
             Perm(m, <<Clause({}, <<Act("+", "perm", {"t"})>>)>>, {9}),
             Perm(m, <<Clause({"u"}, <<Act("+", "perm", {"x"})>>),
                       Clause({"o"}, <<Act("+", "perm", {"X"})>>)>>, {6, 0}),
             Perm(m, <<Clause({}, <<Act("=", "octal", {8, 7, 6, 5, 3, 2, 0})>>)>>,
                  {8, 7, 6, 5, 3, 2, 0})>>])

OtherTests ==
    [i \in 1..3 |-> Word("type", <<"f", "d", "l">>[i], "")]
      \o <<Word("name", "a", ""), Word("iname", "*", ""), Word("path", "b", ""),
           Word("regex", "c", ""), Word("iregex", "*", ""), Word("lname", "a", ""),
           Word("ilname", "*", ""), Word("empty", "", ""), Word("nouser", "", ""),
           Word("nogroup", "", ""), Word("user", 2, "uid"), Word("group", 1, "gid"),
           Word("readable", "u", "r"), Word("readable", "v", "r"),
           Word("writable", "v", "w"), Word("executable", "u", "x"),
           Word("executable", "v", "x"), Word("xattr", "user", ""),
           Word("newer", "b", "mtime"), Word("anewer", "c", "atime"),
           Word("cnewer", "a", "ctime"), Word("newer", "nothing", "mtime"),
           Word("samefile", "a", "")>>
Directives == <<"a", "A", "b", "c", "d", "D", "f", "g", "G", "h", "H", "i", "I",
                "l", "m", "M", "n", "p", "P", "s", "t", "T", "u", "U", "y">>
Formats == [k \in DOMAIN Directives |-> Word("printf", {Directives[k]}, "")]
MCTests == TimeTests \o SizeTests \o NumericTests \o PermTests \o OtherTests \o Formats

MCShortWords ==
    <<Sign("AND"), Word("ls", {}, ""), Word("fls", {}, ""), Word("printf", {"f", "s"}, ""),
      Word("fprintf", {"p"}, ""), Word("delete", {}, ""), Word("exec", {}, ""),
      Word("checked-exec", {}, ""), Word("count", {}, ""), Word("quit", {}, ""),
      Word("prune", {}, ""), Word("unknown", {}, ""), Word("limit", 0, ""),
      Word("limit", 1, ""), Word("sort", 0, "size"), Word("rsort", 0, "path"),
      Word("newer", "b", "mtime"),
      Perm("-", <<Clause({"u"}, <<Act("+", "perm", {"s"})>>)>>, {11})>>
MCWords ==
    <<Word("type", "f", ""), Word("uid", [sign |-> "", n |-> 2], "uid"),
      Sign("OR"), Sign("NOT"), Sign("OPEN"), Sign("CLOSE"), Word("print", {}, "")>>

=============================================================================
