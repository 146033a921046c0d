----------------------------- MODULE Predicates -----------------------------
(***************************************************************************)
(* The predicates of rbh-find: the filter that each plugin (posix, lustre, *)
(* acl, selinux, retention, sparse, s3) builds from a predicate and its    *)
(* argument. An argument is what the plugin reads in the string: a signed  *)
(* number is [sign, n], a size [sign, n, suffix], a symbolic mode a        *)
(* sequence of clauses; strings that are rejected end the program and are  *)
(* left out.                                                               *)
(***************************************************************************)
EXTENDS RbhFilters, SequencesExt

CONSTANTS Now,        \* time(NULL), in seconds
          Users,      \* sequence of [name, uid, gid, gids], getpwent()
          Groups      \* sequence of gids, getgrent()

Wrap(n) == Unsigned(n, W64)
U64(op, field, n) == CompareNew(op, field, Val("UINT64", n))
U32(op, field, n) == CompareNew(op, field, Val("UINT32", n))
I32(op, field, n) == CompareNew(op, field, Val("INT32", n))
User(name) == SelectSeq(Users, LAMBDA u : u.name = name)[1]

-----------------------------------------------------------------------------
(* Helpers of filter.c that the plugins share.                             *)

S_IF == [p |-> 1, c |-> 2, d |-> 4, b |-> 6, f |-> 8, l |-> 10, s |-> 12]

filetype2filter(letter) == I32("EQUAL", Statx("type"), S_IF[letter])

\* rbh_get_size_parameters(): a number of units, a power of two each.
UNIT == [c |-> 0, w |-> 1, b |-> 9, k |-> 10, M |-> 20, G |-> 30, T |-> 40,
         P |-> 50, E |-> 60]

Scale(n, suffix) ==
    IF UNIT[suffix] >= W64 THEN 0 ELSE Wrap(n * 2^UNIT[suffix])

size2filter(field, size) ==
    CASE size.sign = "-" ->
            U64("LOWER_OR_EQUAL", field,
                IF size.n = 0 THEN 0 ELSE Scale(size.n - 1, size.suffix))
      [] size.sign = "+" ->
            U64("STRICTLY_GREATER", field, Scale(size.n, size.suffix))
      [] size.sign = "" ->
            IF size.n = 0 THEN RangeNew(field, 0, Wrap(Scale(1, size.suffix) + 1))
            ELSE RangeNew(field, Scale(size.n - 1, size.suffix),
                          Wrap(Scale(size.n, size.suffix) + 1))

numeric2filter(field, number, noSignOp) ==
    U64([s \in {"-", "+", ""} |->
            CASE s = "-" -> "STRICTLY_LOWER"
              [] s = "+" -> "STRICTLY_GREATER"
              [] OTHER -> noSignOp][number.sign], field, number.n)

epoch2filter(field, number) == numeric2filter(field, number, "LOWER_OR_EQUAL")

regex2filter(field, string, options) ==
    CompareNew("REGEX", field, Val("REGEX", [string |-> string,
                                             options |-> options]))

-----------------------------------------------------------------------------
(* posix: symbolic modes. A mode is its set of bits; a clause is [who,     *)
(* actions], an action [op, what, v] with what one of perm (letters), copy *)
(* (a class) and octal (bits).                                             *)

SHIFT == [u |-> 6, g |-> 3, o |-> 0]
RWX == [r |-> 2, w |-> 1, x |-> 0]
SUID == 11
SGID == 10
SVTX == 9

Classes(who) == IF who = {} THEN {"u", "g", "o"} ELSE who

symbolic_perm(who, letters, mode) ==
    {SHIFT[c] + RWX[l] : c \in Classes(who), l \in letters \cap {"r", "w", "x"}}
      \cup {SHIFT[c] : c \in IF "X" \in letters /\ mode \cap {0, 3, 6} # {}
                             THEN who ELSE {}}
      \cup (IF "s" \in letters /\ "u" \in who THEN {SUID} ELSE {})
      \cup (IF "s" \in letters /\ "g" \in who THEN {SGID} ELSE {})
      \cup (IF "t" \in letters /\ "o" \in Classes(who) THEN {SVTX} ELSE {})

symbolic_permcopy(who, class, mode) ==
    {SHIFT[c] + b : c \in Classes(who),
                    b \in {b \in 0..2 : SHIFT[class] + b \in mode}}

\* "=" without a permission clears the mode, and with one of the classes it
\* drops the special bits.
symbolic_action(who, op, current, new) ==
    CASE op = "-" -> current \ new
      [] op = "+" -> current \cup new
      [] op = "=" /\ (new = {} \/ who = {}) -> new
      [] OTHER -> {b \in 0..8 : IF \E c \in who : b \div 3 = SHIFT[c] \div 3
                                THEN b \in new ELSE b \in current}

symbolic_actionlist(who, actions, mode) ==
    FoldLeft(LAMBDA current, a :
                symbolic_action(who, a.op, current,
                    CASE a.what = "perm" -> symbolic_perm(who, a.v, current)
                      [] a.what = "copy" -> symbolic_permcopy(who, a.v, current)
                      [] a.what = "octal" -> a.v),
             mode, actions)

\* str2mode(): the clauses are applied to an empty mode.
str2mode(clauses) ==
    FoldLeft(LAMBDA mode, c : symbolic_actionlist(c.who, c.actions, mode),
             {}, clauses)

ModeValue(bits) == FoldSet(LAMBDA b, sum : sum + 2^b, 0, bits)

mode2filter(perm) ==
    U32([m \in {"/", "-", ""} |->
            CASE m = "/" -> "BITS_ANY_SET"
              [] m = "-" -> "BITS_ALL_SET"
              [] OTHER -> "EQUAL"][perm.match],
        Statx("mode"), ModeValue(str2mode(perm.clauses)))

-----------------------------------------------------------------------------
(* posix: the other predicates.                                            *)

empty2filter ==
    FilterOr(FilterAnd(U64("EQUAL", Statx("size"), 0), filetype2filter("f")),
             FilterAnd(filetype2filter("d"),
                       CompareNew("EQUAL", Xattr("nb_children"),
                                  Val("INT64", 0))))

lname2filter(string, options) ==
    FilterAnd(filetype2filter("l"), regex2filter(SYMLINK, string, options))

newer2filter(key, path) ==
    GetNew([op |-> "STRICTLY_GREATER", field |-> Statx(key),
            value |-> Val("UINT64", 0)],
           CompareNew("EQUAL", PATH, Val("STRING", path)), Statx("mtime"))

\* nouser2filter() and nogroup2filter()
unknown2filter(key, ids) ==
    FilterNot(FoldLeft(LAMBDA f, id : FilterOr(U64("EQUAL", Statx(key), id), f),
                       U64("EQUAL", Statx(key), Head(ids)), Tail(ids)))

\* The /u=, /o= and /g= of rwxable2filter().
AnyOf(class, letter) ==
    mode2filter([match |-> "/",
                 clauses |-> <<[who |-> {class},
                                actions |-> <<[op |-> "=", what |-> "perm",
                                               v |-> {letter}]>>]>>])

rwxable2filter(name, letter) ==
    FilterOr(FilterOr(FilterAnd(AnyOf("u", letter),
                                U64("EQUAL", Statx("uid"), User(name).uid)),
                      AnyOf("o", letter)),
             FilterAnd(AnyOf("g", letter),
                       U64("EQUAL", Statx("gid"), User(name).gid)))

TIME_UNIT2SECONDS == [minute |-> 60, hour |-> 3600, day |-> 86400]

timedelta2filter(key, unit, delta) ==
    LET then == Wrap(Now - Wrap(delta.n * TIME_UNIT2SECONDS[unit]))
    IN CASE delta.sign = "-" -> U64("STRICTLY_GREATER", Statx(key), then)
         [] delta.sign = "+" -> U64("STRICTLY_LOWER", Statx(key), then)
         [] OTHER -> RangeNew(Statx(key),
                              Wrap(then - TIME_UNIT2SECONDS[unit]), then)

ALL == {"CASE_INSENSITIVE", "SHELL_PATTERN"}

\* rbh_posix_build_filter(); -bucket is the predicate of s3.
posix_build_filter(p) ==
    CASE p.name \in {"amin", "bmin", "cmin", "mmin"} ->
            timedelta2filter(p.key, "minute", p.arg)
      [] p.name \in {"atime", "btime", "ctime", "mtime"} ->
            timedelta2filter(p.key, "day", p.arg)
      [] p.name \in {"anewer", "cnewer", "newer"} -> newer2filter(p.key, p.arg)
      [] p.name = "empty" -> empty2filter
      [] p.name = "ilname" -> lname2filter(p.arg, ALL)
      [] p.name = "lname" -> lname2filter(p.arg, {"SHELL_PATTERN"})
      [] p.name = "iname" -> regex2filter(NAME, p.arg, ALL)
      [] p.name = "name" -> regex2filter(NAME, p.arg, {"SHELL_PATTERN"})
      [] p.name = "path" -> regex2filter(PATH, p.arg, {"SHELL_PATTERN"})
      [] p.name = "regex" -> regex2filter(PATH, p.arg, {})
      [] p.name = "iregex" -> regex2filter(PATH, p.arg, {"CASE_INSENSITIVE"})
      [] p.name = "bucket" -> regex2filter(Xattr("bucket"), p.arg,
                                           {"SHELL_PATTERN"})
      [] p.name \in {"blocks", "gid", "inum", "links", "uid"} ->
            numeric2filter(Statx(p.key), p.arg, "EQUAL")
      [] p.name \in {"user", "group"} -> U64("EQUAL", Statx(p.key), p.arg)
      [] p.name = "nouser" ->
            unknown2filter("uid", [i \in DOMAIN Users |-> Users[i].uid])
      [] p.name = "nogroup" -> unknown2filter("gid", Groups)
      [] p.name = "perm" -> mode2filter(p.arg)
      [] p.name = "readable" -> rwxable2filter(p.arg, "r")
      [] p.name = "writable" -> rwxable2filter(p.arg, "w")
      [] p.name = "executable" -> rwxable2filter(p.arg, "x")
      [] p.name = "size" -> size2filter(Statx("size"), p.arg)
      [] p.name = "type" -> filetype2filter(p.arg)
      [] p.name = "xattr" -> ExistsNew(Xattr(p.arg))

=============================================================================
