---------------------------- MODULE FindCommand ----------------------------
(***************************************************************************)
(* rbh-find: a command line is read word by word, every action runs as     *)
(* soon as it is read, on the entries that the filter built so far         *)
(* selects, and the entries are printed when there was no action. The      *)
(* recursion of parse_expression() is the stack: a frame is [kind, filter, *)
(* outer, negate], outer being the filter of the enclosing frames.         *)
(***************************************************************************)
EXTENDS Predicates

CONSTANTS Backends,    \* sequence of [db: sequence of entries, fs: path -> entry]
          Tests,       \* sequence of the predicates tried on their own
          ShortWords,  \* sequence of the words tried in the first MaxShort ones
          Words,       \* sequence of the words of the longer command lines
          MaxTested,
          MaxShort,
          MaxWords

VARIABLES argv,      \* the words read
          stack,     \* frames, the innermost one last
          token,     \* kind of the last word (static in parse_expression)
          find_ctx,  \* [action_done, projection, limit, sort, need_prefetch]
          runs,      \* what the actions were given: [at, action, entries...]
          status     \* "parsing", "done", "error" or "crash"

vars == <<argv, stack, token, find_ctx, runs, status>>

Parsing == status = "parsing"
Top == stack[Len(stack)]
Frame(kind, outer) ==
    [kind |-> kind, filter |-> Null, outer |-> outer, negate |-> FALSE]
SetTop(frames, f) == [frames EXCEPT ![Len(frames)].filter = f]

\* Mutant: the filter of the enclosing frames is forgotten.
LeftFilterInner(frame) == FilterAnd(frame.filter, Null)

\* left_filter: what the words before this one select.
LeftFilter(frame) == FilterAnd(frame.filter, frame.outer)

Conjoin(filter, f) == IF filter = Null THEN f ELSE FilterAnd(filter, f)

\* Takes a negated f into the filter of the innermost frame.
Consume(frames, f) ==
    LET top == frames[Len(frames)]
    IN [frames EXCEPT ![Len(frames)] =
            [top EXCEPT !.filter = Conjoin(@, IF top.negate THEN FilterNot(f)
                                                            ELSE f),
                        !.negate = FALSE]]

\* Mutant: the right side replaces the left one.
UnwindRight(frames) ==
    LET n == Len(frames)
    IN IF frames[n].kind = "or"
       THEN SetTop(SubSeq(frames, 1, n - 1), frames[n].filter)
       ELSE frames

\* Returning from "-o" frames: each one is ORed into its caller, that returns
\* as well.
RECURSIVE Unwind(_)
Unwind(frames) ==
    LET n == Len(frames)
        rest == SubSeq(frames, 1, n - 1)
    IN IF frames[n].kind # "or" THEN frames
       ELSE Unwind(SetTop(rest, FilterOr(rest[n - 1].filter, frames[n].filter)))

-----------------------------------------------------------------------------
(* The words.                                                              *)

\* rbh_posix_check_valid_token() and str2predicate(): "-" is left out.
PosixPredicates ==
    {"amin", "anewer", "atime", "blocks", "bmin", "btime", "cmin", "cnewer",
     "context", "ctime", "empty", "executable", "false", "fstype", "gid",
     "group", "ilname", "iname", "inum", "ipath", "iregex", "iwholename",
     "links", "lname", "mmin", "mtime", "name", "newer", "newerXY", "nogroup",
     "nouser", "path", "perm", "readable", "regex", "samefile", "size", "true",
     "type", "uid", "used", "user", "wholename", "writable", "xattr", "xtype"}

ENOSYS == {"context", "false", "fstype", "ipath", "iwholename", "newerXY",
           "samefile", "true", "used", "wholename", "xtype"}

sort2field(name) ==
    CASE name = "name" -> NAME
      [] name \in {"atime", "btime", "ctime", "mtime", "blocks", "gid", "ino",
                   "mode", "nlink", "size", "type", "uid"} -> Statx(name)
      [] OTHER -> Null

\* str2action()
Actions == {"checked-exec", "count", "delete", "exec", "execdir", "fls",
            "fprint", "fprint0", "fprintf", "ls", "ok", "okdir", "print",
            "print0", "printf", "prune", "quit"}

\* str2command_line_token(): what no plugin knows is an action.
Kind(word) ==
    CASE word.t # "-" -> word.t
      [] word.name \in {"sort", "rsort", "limit"} -> "OUTPUT_MODIFIER"
      [] word.name \in PosixPredicates -> "PREDICATE"
      [] OTHER -> "ACTION"

-----------------------------------------------------------------------------
(* Running an action.                                                      *)

\* set_ls_projection()
LsFields == {"ns-xattrs", "symlink", "ino", "blocks", "type", "mode", "nlink",
             "uid", "gid", "size", "mtime"}

\* check_basic_directives() and rbh_posix_fill_projection(): the fields that a
\* directive of -printf adds. The directives of the extensions are left out.
DirectiveFields(d) ==
    CASE d \in {"d", "h", "p", "P"} -> {"ns-xattrs"}
      [] d = "f" -> {"name"}
      [] d = "I" -> {"id"}
      [] d \in {"a", "A"} -> {"atime"}
      [] d = "b" -> {"blocks"}
      [] d = "c" -> {"ctime"}
      [] d = "D" -> {"dev_minor", "dev_major"}
      [] d \in {"g", "G"} -> {"gid"}
      [] d = "i" -> {"ino"}
      [] d = "l" -> {"type", "mode", "symlink"}
      [] d \in {"m", "M", "y"} -> {"type", "mode"}
      [] d = "n" -> {"nlink"}
      [] d = "s" -> {"size"}
      [] d \in {"t", "T"} -> {"mtime"}
      [] d \in {"u", "U"} -> {"uid"}
      [] OTHER -> {}

\* Mutant: -fls keeps the projection of the actions before it.
FindPreActionKept(word, projection) ==
    CASE word.name \in {"ls", "fls"} -> projection
      [] word.name \in {"printf", "fprintf"} ->
            projection \cup UNION {DirectiveFields(d) : d \in word.arg}
      [] OTHER -> projection \cup {"ns-xattrs"}

\* find_pre_action(): the fields to read. -ls replaces the ones of the
\* actions before it, the others add theirs.
FindPreAction(word, projection) ==
    CASE word.name \in {"ls", "fls"} -> LsFields
      [] word.name = "delete" -> projection \cup {"ns-xattrs", "statx"}
      [] word.name \in {"printf", "fprintf"} ->
            projection \cup UNION {DirectiveFields(d) : d \in word.arg}
      [] OTHER -> projection \cup {"ns-xattrs"}

\* rbh_get_fresh_fsentry(): the entry read again, if it is there. The path of
\* the branch goes through realpath(): the target of a symbolic link is read.
FreshPath(fs, path) ==
    IF path \in DOMAIN fs /\ fs[path].type = S_IF.l THEN fs[path].symlink ELSE path

\* rbh_check_real_fsentry_match_filter(): 0 when the entry read again from
\* the filesystem matches.
CheckReal(fs, filter, entry) ==
    LET path == FreshPath(fs, entry.path.v)
    IN IF path \in DOMAIN fs /\ Matches(filter, fs[path]) THEN 0 ELSE 1

\* Mutant: the command runs when some filesystem lacks a match.
CheckRealAllNone(filter, entry) ==
    IF \E b \in DOMAIN Backends : CheckReal(Backends[b].fs, filter, entry) # 0
    THEN 0 ELSE 1

\* check_real_fsentry_match_filters(): 0 as soon as one filesystem matches.
CheckRealAll(filter, entry) ==
    IF \E b \in DOMAIN Backends : CheckReal(Backends[b].fs, filter, entry) = 0
    THEN 0 ELSE 1

\* find_exec_action(): the entries an action has an effect on, the -quit and
\* the actions that are not supported ending the program at the first entry.
Unsupported == {"execdir", "ok", "okdir", "prune"}
FindExecAction(name, filter, entries) ==
    CASE name = "checked-exec" ->
            SelectSeq(entries, LAMBDA e : CheckRealAll(filter, e) = 0)
      [] name \in Unsupported \cup {"quit"} -> <<>>
      [] OTHER -> entries

\* _find(): what a backend returns. An entry that a "get" filter needs and
\* lacks makes the backend count for nothing.
Limited(entries, limit) ==
    IF limit = 0 \/ limit >= Len(entries) THEN entries
    ELSE SubSeq(entries, 1, limit)

Query(ctx, filter, db) ==
    IF ctx.need_prefetch /\ CompleteStatus(filter, db) # "ok" THEN <<>>
    ELSE LET f == IF ctx.need_prefetch THEN Complete(filter, db) ELSE filter
         IN Limited(SelectSeq(db, LAMBDA e : Meaning(f, e)), ctx.limit)

FindCrashes(ctx, filter) ==
    ctx.need_prefetch /\ CompleteStatus(filter, Backends[1].db) = "crash"

\* find(): every backend in turn. What is left of the word's arguments is read
\* as words: the format of -fprintf is taken for a path.
Find(word, filter) ==
    LET ctx == [find_ctx EXCEPT
                   !.action_done = TRUE,
                   !.projection = FindPreAction(word, @)]
        found == FlattenSeq([b \in DOMAIN Backends |->
                                Query(ctx, filter, Backends[b].db)])
        ends == found # <<>> /\ word.name \in Unsupported \cup {"quit"}
        run == [at |-> Len(argv'), action |-> word.name, filter |-> filter,
                entries |-> FindExecAction(word.name, filter, found),
                projection |-> ctx.projection]
    IN IF FindCrashes(ctx, filter)
       THEN status' = "crash" /\ UNCHANGED <<find_ctx, runs>>
       ELSE /\ find_ctx' = ctx
            /\ runs' = Append(runs, run)
            /\ status' = CASE ends /\ word.name = "quit" -> "done"
                           [] ends \/ word.name = "fprintf" -> "error"
                           [] OTHER -> status

-----------------------------------------------------------------------------
(* parse_expression()                                                      *)

Word(name, arg, key) == [t |-> "-", name |-> name, arg |-> arg, key |-> key]
Sign(t) == [t |-> t, name |-> t, arg |-> t, key |-> t]

\* The bounds: the words tried next. A command that starts with one of Tests
\* has MaxTested words, one of more than MaxShort words is made of Words.
MadeOf(words) == \A i \in DOMAIN argv : \E j \in DOMAIN words :
                    argv[i].name = words[j].name
Room == CASE MadeOf(Words) -> MaxWords
          [] ~MadeOf(Words) /\ MadeOf(ShortWords \o Words) -> MaxShort
          [] OTHER -> MaxTested
Candidates ==
    LET room == Room
    IN (IF argv = <<>> THEN Tests ELSE <<>>)
         \o (IF Len(argv) < room /\ Len(argv) < MaxShort THEN ShortWords ELSE <<>>)
         \o (IF Len(argv) < room THEN Words ELSE <<>>)

Read(word) ==
    /\ Parsing
    /\ argv' = Append(argv, word)
    /\ token' = Kind(word)

Fail == status' = "error" /\ UNCHANGED <<stack, find_ctx, runs>>
Parsed(frames) == stack' = frames /\ UNCHANGED <<find_ctx, runs, status>>

Predicate(word) ==
    /\ Kind(word) = "PREDICATE"
    /\ Read(word)
    /\ IF word.name \in ENOSYS THEN Fail
       ELSE /\ stack' = Consume(stack, posix_build_filter(word))
            /\ find_ctx' = [find_ctx EXCEPT
                   !.need_prefetch = @ \/ word.name \in {"newer", "anewer", "cnewer"}]
            /\ UNCHANGED <<runs, status>>

Not(word) ==
    /\ Kind(word) = "NOT"
    /\ Read(word)
    /\ Parsed([stack EXCEPT ![Len(stack)].negate = ~@])

\* A binary operator asks for something before it.
Operand == {"ACTION", "PREDICATE", "CLOSE"}

AndWord(word) ==
    /\ Kind(word) = "AND"
    /\ Read(word)
    /\ IF token \in Operand THEN Parsed(stack) ELSE Fail

OrWord(word) ==
    /\ Kind(word) = "OR"
    /\ Read(word)
    /\ IF token \in Operand
       THEN Parsed(Append(stack, Frame("or", FilterNot(LeftFilter(Top)))))
       ELSE Fail

Open(word) ==
    /\ Kind(word) = "OPEN"
    /\ Read(word)
    /\ Parsed(Append(stack, Frame("paren", LeftFilter(Top))))

Close(word) ==
    /\ Kind(word) = "CLOSE"
    /\ Read(word)
    /\ LET frames == Unwind(stack)
           n == Len(frames)
       IN IF token = "OPEN" \/ frames[n].kind = "top" THEN Fail
          ELSE Parsed(Consume(SubSeq(frames, 1, n - 1), frames[n].filter))

\* find_parse_callback(): the limit may be given once, unless it is 0.
OutputModifier(word) ==
    /\ Kind(word) = "OUTPUT_MODIFIER"
    /\ Read(word)
    /\ UNCHANGED <<stack, runs>>
    /\ IF \/ word.name = "limit" /\ find_ctx.limit # 0
          \/ word.name # "limit" /\ sort2field(word.key) = Null
       THEN status' = "error" /\ UNCHANGED find_ctx
       ELSE /\ UNCHANGED status
            /\ find_ctx' =
                  IF word.name = "limit" THEN [find_ctx EXCEPT !.limit = word.arg]
                  ELSE [find_ctx EXCEPT !.sort =
                           Append(@, [field |-> sort2field(word.key),
                                      ascending |-> word.name = "sort"])]

Action(word) ==
    /\ Kind(word) = "ACTION"
    /\ Read(word)
    /\ IF word.name \in Actions
       THEN Find(word, LeftFilter(Top)) /\ UNCHANGED stack
       ELSE Fail

\* The end of the command line: -print unless an action was run.
End ==
    /\ Parsing
    /\ UNCHANGED <<argv, token>>
    /\ LET frames == Unwind(stack)
           top == frames[Len(frames)]
       IN /\ stack' = frames
          /\ CASE top.kind = "paren" ->
                    status' = "error" /\ UNCHANGED <<find_ctx, runs>>
               [] top.kind # "paren" /\ find_ctx.action_done ->
                    status' = "done" /\ UNCHANGED <<find_ctx, runs>>
               [] OTHER ->
                    LET db(b) == Query(find_ctx, top.filter, Backends[b].db)
                    IN /\ status' = IF FindCrashes(find_ctx, top.filter)
                                    THEN "crash" ELSE "done"
                       /\ find_ctx' = [find_ctx EXCEPT !.action_done = TRUE,
                             !.projection = FindPreAction(Word("print", 0, ""), @)]
                       /\ runs' = <<[at |-> 0, action |-> "print",
                              filter |-> top.filter,
                              entries |-> FlattenSeq([b \in DOMAIN Backends |-> db(b)]),
                              projection |-> find_ctx'.projection]>>

Init ==
    /\ argv = <<>>
    /\ stack = <<Frame("top", Null)>>
    /\ token = "URI"
    /\ find_ctx = [action_done |-> FALSE, projection |-> {}, limit |-> 0,
                   sort |-> <<>>, need_prefetch |-> FALSE]
    /\ runs = <<>>
    /\ status = "parsing"

Next ==
    \/ LET words == Candidates
       IN \E i \in DOMAIN words :
             LET word == words[i]
             IN \/ Predicate(word) \/ Not(word) \/ AndWord(word) \/ OrWord(word)
                \/ Open(word) \/ Close(word) \/ OutputModifier(word)
                \/ Action(word)
    \/ End

Spec == Init /\ [][Next]_vars

-----------------------------------------------------------------------------
(* What the words mean, after find(1): an expression is evaluated from left *)
(* to right for every entry, "!" binds first and "-o" last, and what a      *)
(* short-circuited operator skips is not run.                               *)

Age(e, key) == Now - e[key]
Seconds(p) == TIME_UNIT2SECONDS[IF p.name \in {"amin", "bmin", "cmin", "mmin"}
                                THEN "minute" ELSE "day"]
Units(n, suffix) == (n + 2^UNIT[suffix] - 1) \div 2^UNIT[suffix]
SignedCompare(sign, a, n) ==
    CASE sign = "-" -> a < n [] sign = "+" -> a > n [] OTHER -> a = n
Known(key, e) == \E i \in DOMAIN Users : Users[i].uid = e[key]

\* access(2): the first class that a user is in decides, any of the user's
\* groups making the user one of the group.
ClassOf(user, e) == CASE user.uid = e.uid -> "u"
                      [] user.uid # e.uid /\ e.gid \in {user.gid} \cup user.gids -> "g"
                      [] OTHER -> "o"
Granted(p, e) ==
    {class \in {"u", "g", "o"} : SHIFT[class] + RWX[p.key] \in BitsOf(e.mode, 12)}

\* The words of a -perm test carry its bits in key.
PermHolds(match, bits, mode) ==
    CASE match = "/" -> bits \cap mode # {}
      [] match = "-" -> bits \subseteq mode
      [] OTHER -> bits = mode

TimePredicates ==
    {"amin", "bmin", "cmin", "mmin", "atime", "btime", "ctime", "mtime"}
AccessPredicates == {"readable", "writable", "executable"}

\* find(1): ages are counted in whole units, the rest being dropped, and sizes
\* in units rounded up.
Holds(p, e) ==
    LET mode == BitsOf(e.mode, 12)
    IN CASE p.name \in TimePredicates ->
              SignedCompare(p.arg.sign, Age(e, p.key) \div Seconds(p), p.arg.n)
         [] p.name = "size" ->
              SignedCompare(p.arg.sign, Units(e.size, p.arg.suffix), p.arg.n)
         [] p.name \in {"blocks", "gid", "inum", "links", "uid"} ->
              SignedCompare(p.arg.sign, e[p.key], p.arg.n)
         [] p.name \in {"user", "group"} -> e[p.key] = p.arg
         [] p.name = "type" -> e.type = S_IF[p.arg]
         [] p.name \in {"name", "iname"} -> p.arg \in {"*", e.name}
         [] p.name \in {"path", "regex", "iregex"} -> p.arg \in {"*", e.path.v}
         [] p.name \in {"lname", "ilname"} ->
              e.type = S_IF.l /\ p.arg \in {"*", e.symlink}
         [] p.name = "perm" -> PermHolds(p.arg.match, p.key, mode)
         [] p.name = "empty" -> IF e.type = S_IF.d THEN e.nb_children.v = 0
                                ELSE e.type = S_IF.f /\ e.size = 0
         [] p.name = "nouser" -> ~Known("uid", e)
         [] p.name = "nogroup" -> \A i \in DOMAIN Groups : Groups[i] # e.gid
         [] p.name \in AccessPredicates ->
              ClassOf(User(p.arg), e) \in Granted(p, e)
         [] p.name \in {"newer", "anewer", "cnewer"} ->
              \E b \in DOMAIN Backends : \E i \in DOMAIN Backends[b].db :
                 /\ Backends[b].db[i].path.v = p.arg
                 /\ e[p.key] > Backends[b].db[i].mtime
         [] p.name = "xattr" -> p.arg \in DOMAIN e

\* Where the code answers the contrary of find(1):
\*  - "+n" takes ages between n and n + 1 units, and "n" refuses n units sharp
\*    (timedelta2filter());
\*  - "-size 0" takes the sizes of 1 but not of 0, and "-size -0" takes 0
\*    (rbh_size2filter());
\*  - access is granted when a class that does not decide for the user grants
\*    it, and the secondary groups of the user are not known
\*    (rwxable2filter()).
TimeDeparts(p, e) ==
    LET then == p.arg.n * Seconds(p) age == Age(e, p.key)
    IN \/ p.arg.sign = "+" /\ then < age /\ age < then + Seconds(p)
       \/ p.arg.sign = "" /\ age = then
SizeDeparts(p, e) ==
    /\ p.arg.n = 0
    /\ \/ p.arg.sign = "" /\ Units(e.size, p.arg.suffix) \in {0, 1}
       \/ p.arg.sign = "-" /\ e.size = 0
AccessDeparts(p, e) ==
    LET user == User(p.arg) class == ClassOf(user, e) granted == Granted(p, e)
    IN \/ /\ class \notin granted
          /\ "o" \in granted \/ ("g" \in granted /\ user.gid = e.gid)
       \/ class = "g" /\ user.gid # e.gid /\ granted \cap {"g", "o"} = {"g"}
Departs(p, e) ==
    \/ p.name \in TimePredicates /\ TimeDeparts(p, e)
    \/ p.name = "size" /\ SizeDeparts(p, e)
    \/ p.name \in AccessPredicates /\ AccessDeparts(p, e)

Primary(i) == i <= Len(argv) /\ Kind(argv[i]) \in {"PREDICATE", "ACTION", "NOT",
                                                 "OPEN", "OUTPUT_MODIFIER"}
Is(i, kind) == i \in DOMAIN argv /\ Kind(argv[i]) = kind
Invalid == [val |-> FALSE, next |-> 0, run |-> {}]
Both(a, b, val) == IF a.next = 0 \/ b.next = 0 THEN Invalid
                   ELSE [val |-> val, next |-> b.next, run |-> a.run \cup b.run]

\* [val, next, run]: the value of the expression that starts at word i, the
\* word after it and the actions run for entry e, none unless it is live. The
\* operators of find(1) bind at three levels.
Evaluation(e) ==
    LET eval[level \in {"or", "and", "not"}, i \in 1..(Len(argv) + 2),
             live \in BOOLEAN] ==
            CASE level = "or" ->
                   LET a == eval["and", i, live]
                   IN IF a.next = 0 \/ ~Is(a.next, "OR") THEN a
                      ELSE LET b == eval["or", a.next + 1, live /\ ~a.val]
                           IN Both(a, b, a.val \/ b.val)
              [] level = "and" ->
                   LET a == eval["not", i, live]
                       j == IF Is(a.next, "AND") THEN a.next + 1 ELSE a.next
                   IN IF a.next = 0 \/ (j = a.next /\ ~Primary(j)) THEN a
                      ELSE LET b == eval["and", j, live /\ a.val]
                           IN Both(a, b, a.val /\ b.val)
              [] level = "not" /\ ~Primary(i) -> Invalid
              [] level = "not" /\ Is(i, "NOT") ->
                   LET a == eval["not", i + 1, live]
                   IN IF a.next = 0 THEN a ELSE [a EXCEPT !.val = ~@]
              [] level = "not" /\ Is(i, "OPEN") ->
                   LET a == eval["or", i + 1, live]
                   IN IF a.next > 0 /\ Is(a.next, "CLOSE")
                      THEN [a EXCEPT !.next = @ + 1] ELSE Invalid
              [] level = "not" /\ Is(i, "ACTION") ->
                   [val |-> TRUE, next |-> i + 1, run |-> IF live THEN {i} ELSE {}]
              [] level = "not" /\ Is(i, "PREDICATE") ->
                   [val |-> Holds(argv[i], e) # Departs(argv[i], e), next |-> i + 1,
                    run |-> {}]
              [] OTHER -> [val |-> TRUE, next |-> i + 1, run |-> {}]
    IN eval

Evaluated(e) == IF argv = <<>> THEN [val |-> TRUE, next |-> 1, run |-> {}]
                ELSE Evaluation(e)["or", 1, TRUE]
WellFormed ==
    /\ \A i \in DOMAIN argv : argv[i].name \notin ENOSYS
    /\ Evaluated(Backends[1].db[1]).next = Len(argv) + 1

-----------------------------------------------------------------------------
(* Properties.                                                             *)

\* The backends that have the files of the -newer of the command:
\* complete_rbh_filter() fails for the others, that return nothing.
HasNewerFiles(db) ==
    \A i \in DOMAIN argv : argv[i].name \in {"newer", "anewer", "cnewer"} =>
       \E j \in DOMAIN db : db[j].path.v = argv[i].arg
AllEntries ==
    FlattenSeq([b \in DOMAIN Backends |->
        IF HasNewerFiles(Backends[b].db) THEN Backends[b].db ELSE <<>>])
EntryIn(e, run) == \E i \in DOMAIN run.entries : run.entries[i] = e
Selects(run, Chosen(_)) ==
    LET entries == AllEntries
    IN \A i \in DOMAIN entries :
          LET in == EntryIn(entries[i], run)
              chosen == Chosen(entries[i])
          IN /\ in => chosen
             /\ chosen /\ find_ctx.limit = 0 => in
NoNegatedAction ==
    \A i \in DOMAIN argv : Is(i, "NOT") => ~Is(i + 1, "ACTION")
                                        /\ ~Is(i + 1, "OUTPUT_MODIFIER")

\* Without an action, the entries printed are the ones for which the whole
\* expression is true: precedence, parentheses, negations, and what each
\* predicate says of the attributes of the entry, Departs apart.
PrintedMatch ==
    \A k \in DOMAIN runs :
       /\ runs[k].at = 0 /\ status = "done" /\ WellFormed /\ NoNegatedAction
       => Selects(runs[k], LAMBDA e : Evaluated(e).val)

\* An action is run, when it is read, on exactly the entries that reach it in
\* the evaluation of find(1): those for which what is on its left is true,
\* and that no left side of a "-o" has taken. A "-o" after another one, or in
\* parentheses that follow a predicate, is excepted: the action after it is also
\* run on entries that its left side has taken.
Simple(k) ==
    \A i \in 1..(k - 1) : Is(i, "OR") =>
       /\ \A j \in 1..(i - 1) : ~Is(j, "OR")
       /\ \A j \in 1..(i - 1) : Is(j, "OPEN") =>
             \/ \E c \in j..(i - 1) : Is(c, "CLOSE")
             \/ \A b \in 1..(j - 1) : Is(b, "OPEN")

PlainActions == {"print", "print0", "ls", "fls", "fprint", "fprint0", "printf",
                 "fprintf", "exec", "delete", "count"}
ReachedBy(run) ==
    run.action \in PlainActions =>
       Selects(run, LAMBDA e : run.at \in Evaluated(e).run)

ActionsSelect ==
    ~Parsing /\ WellFormed /\ NoNegatedAction =>
       \A k \in DOMAIN runs : runs[k].at > 0 /\ Simple(runs[k].at) =>
          ReachedBy(runs[k])

\* What the code of an action looks at in an entry (fsentry_print_ls_dils(),
\* fill_basic_entry_info(), rbh_posix_fill_entry_info(),
\* rbh_posix_delete_entry(), exec_command()); "type" and "mode" are bits of
\* stx_mode, each of which is read on its own.
Formatted(d) ==
    CASE d \in {"d", "h", "p", "P"} -> {"path"}
      [] d = "f" -> {"name"}
      [] d = "I" -> {"id"}
      [] d \in {"a", "A"} -> {"atime"}
      [] d = "b" -> {"blocks"}
      [] d = "c" -> {"ctime"}
      [] d = "D" -> {"dev_major", "dev_minor"}
      [] d \in {"g", "G"} -> {"gid"}
      [] d = "i" -> {"ino"}
      [] d = "l" -> {"type", "symlink"}
      [] d = "m" -> {"mode"}
      [] d = "M" -> {"type", "mode"}
      [] d = "n" -> {"nlink"}
      [] d = "s" -> {"size"}
      [] d \in {"t", "T"} -> {"mtime"}
      [] d \in {"u", "U"} -> {"uid"}
      [] d = "y" -> {"type"}
      [] OTHER -> {}
Uses(run) ==
    CASE run.action \in {"ls", "fls"} ->
            {"path", "symlink", "ino", "blocks", "type", "mode", "nlink", "uid",
             "gid", "size", "mtime"}
      [] run.action = "delete" -> {"path", "type"}
      [] run.action = "checked-exec" -> {"path", "id"}
      [] run.action \in {"printf", "fprintf"} ->
            UNION {Formatted(d) : d \in argv[run.at].arg}
      [] run.action \in {"count", "quit"} \cup Unsupported -> {}
      [] OTHER -> {"path"}

\* What MongoDB returns for a projection (mongo/projection.c): the path is an
\* xattr of the namespace, "statx" is all of its fields, and the _id is left out
\* of no projection.
Returned(projection) ==
    projection \cup {"id"}
      \cup (IF "ns-xattrs" \in projection THEN {"path"} ELSE {})
      \cup (IF "statx" \in projection THEN StatxFields ELSE {})

\* The entries an action is given were read with the fields that its code looks
\* at, whatever the actions of the same command before it asked for.
FieldsRead == \A k \in DOMAIN runs : Uses(runs[k]) \subseteq Returned(runs[k].projection)

\* -checked-exec runs its command on the entries that it selects and that a
\* filesystem still has with attributes that match, and on no other. Two
\* exceptions: a filter with a test that the check answers "no" to (tests of
\* permissions and -newer, see Checkable), where a negation makes the command
\* run on an entry that no longer matches; and symbolic links, whose targets
\* are looked at.
StillMatches(filter, e) ==
    \E b \in DOMAIN Backends :
       /\ e.path.v \in DOMAIN Backends[b].fs
       /\ Meaning(filter, Backends[b].fs[e.path.v])
CheckedExecFresh ==
    \A k \in DOMAIN runs :
       LET run == runs[k]
       IN run.action = "checked-exec" /\ Checkable(run.filter) =>
             \A b \in DOMAIN Backends : \A i \in DOMAIN Backends[b].db :
                LET e == Backends[b].db[i]
                IN e.type # S_IF.l =>
                      /\ EntryIn(e, run) => StillMatches(run.filter, e)
                      /\ Meaning(run.filter, e) /\ StillMatches(run.filter, e)
                            /\ find_ctx.limit = 0 => EntryIn(e, run)

\* A well-formed command crashes only when it compares with the time of a file:
\* in the first action after that, or at the end when an operand of "-o" or
\* what is in parentheses is only an output modifier. Both give
\* complete_logical_filter() a NULL filter.
EmptyOperand ==
    \E i \in DOMAIN argv : Is(i, "OUTPUT_MODIFIER") /\ (Is(i - 1, "OR") \/ Is(i - 1, "OPEN"))
CrashesWithNewer ==
    status = "crash" =>
       /\ \E i \in DOMAIN argv : argv[i].name \in {"newer", "anewer", "cnewer"}
       /\ WellFormed => Is(Len(argv), "ACTION") \/ EmptyOperand

\* Every entry that is printed, or given to an action, is one that find(1) would
\* select there, and none is missing (parse_expression(), find()).
SelectsAsFind == PrintedMatch /\ ActionsSelect /\ CrashesWithNewer
=============================================================================
