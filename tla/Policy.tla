------------------------------- MODULE Policy -------------------------------
(***************************************************************************)
(* rbh-policy run: the policies of a configuration, one after the other.   *)
(* Each one asks its trigger, collects from the mirror the entries that    *)
(* its target selects, reads each of them again from the file system by    *)
(* its id, and applies the action of the first rule that selects what was  *)
(* read (run.py, policyengine/core.c and actions.c, posix/action.c).       *)
(*                                                                         *)
(* An entry has one attribute, and a filter is the set of the values it    *)
(* selects (RbhFilters says how filters select). A path is the sequence of *)
(* names below the mount point. Users change the file system all along.    *)
(***************************************************************************)
EXTENDS FsTree, PolicyConfig

CONSTANTS Attrs, Plans, Starts, MaxUpsets

VARIABLES attr,         \* the attribute of each entry
          mirror,       \* the mirror's documents, one for each name
          plan, k,      \* the policies to run, and the one that runs
          pc, rc,       \* where rbh_pe_execute() is, and what it returned
          todo,         \* the mirror's entries still to come
          cur, path,    \* the entry in hand, and where its id was found
          fresh, rule,  \* what was read there, and the rule that selects it
          used,         \* the actions spent by each rule (0: the default action)
          stream, stream_path,      \* the log file that is open
          upsets,       \* the steps the users took
          \* What happened, for the properties:
          acts, dropped, lines, refused, raced, calm, present

stepVars == <<todo, cur, path, fresh, rule>>
logVars == <<stream, stream_path, lines, refused>>
pastVars == <<acts, dropped, raced, calm, present>>
vars == <<fsVars, attr, mirror, plan, k, pc, rc, stepVars, used, logVars, upsets, pastVars>>

-----------------------------------------------------------------------------
(* Actions. As configured: [form, prefix, verb, parents, below, count,     *)
(* output].                                                                *)

\* normalize_action(): a function, a bare name, a command, "<who>:delete", "<who>:log".
normalize_action(a) ==
    CASE a.form = "none" -> <<[a EXCEPT !.prefix = "", !.verb = ""]>>
      [] a.form = "function" -> <<[a EXCEPT !.prefix = "py"]>>
      [] a.prefix = "" -> <<[a EXCEPT !.prefix = "common"]>>
      [] a.prefix = "cmd" \/ a.verb \in {"log", "delete"} -> <<a>>
      [] OTHER -> <<>>

\* rbh_pe_parse_action()
parse_action(a) ==
    CASE a.prefix = "cmd" -> "CMD"
      [] a.prefix = "py" -> "PYTHON"
      [] a.verb = "delete" -> "DELETE"
      [] a.verb = "log" -> "LOG"
      [] OTHER -> "UNKNOWN"

\* The provider the action names, as <<name>>.
provider_hint(a) == IF a.prefix = "common" THEN <<>> ELSE <<a.prefix>>

\* Mutant: the last of several extensions is taken.
select_common_opsLast(a, providers) ==
    LET hint == provider_hint(a)
        fits(i) == providers[i].deletes /\ (hint = <<>> \/ providers[i].name = hint[1])
        exts == {i \in DOMAIN providers : ~providers[i].plugin /\ fits(i)}
        plugins == {i \in DOMAIN providers : providers[i].plugin /\ fits(i)}
    IN CASE exts # {} -> <<providers[Max(exts)].name>>
         [] plugins # {} -> <<providers[Max(plugins)].name>>
         [] OTHER -> <<>>

\* rbh_pe_select_common_ops_for_actions(), of the loaded plugin and extensions
\* [name, plugin, deletes]; an error (<<>>) when two of them could do it.
select_common_ops(a, providers) ==
    LET hint == provider_hint(a)
        fits(i) == providers[i].deletes /\ (hint = <<>> \/ providers[i].name = hint[1])
        exts == {i \in DOMAIN providers : ~providers[i].plugin /\ fits(i)}
        plugins == {i \in DOMAIN providers : providers[i].plugin /\ fits(i)}
    IN CASE Cardinality(exts) > 1 -> <<>>
         [] hint # <<>> /\ exts # {} /\ plugins # {} -> <<>>
         [] exts # {} -> <<providers[Max(exts)].name>>
         [] plugins # {} -> <<providers[Max(plugins)].name>>
         [] OTHER -> <<>>

\* rbh_pe_action_count_limit(): 0 is no limit.
action_count_limit(a) == IF parse_action(a) \in {"DELETE", "LOG"} THEN a.count ELSE 0

-----------------------------------------------------------------------------
(* Policies: [filter, action, rules, sort, trigger, providers].            *)

Declared(p) ==
    /\ normalize_action(p.action) # <<>>
    /\ \A i \in DOMAIN p.rules : normalize_action(p.rules[i].action) # <<>>

policy == plan[k]

\* rbh_pe_match_rule(): 0 when there is none; a NULL filter (<<>>) selects all.
match_rule(p, value) ==
    LET hits == {i \in DOMAIN p.rules :
                    p.rules[i].filter = <<>> \/ value \in p.rules[i].filter[1]}
    IN IF hits = {} THEN 0 ELSE Min(hits)

\* rbh_pe_select_action(): the rule's action and parameters, never the policy's.
select_action(p, r) == normalize_action(IF r = 0 THEN p.action ELSE p.rules[r].action)[1]

\* Mutant: the rules and the default action share a counter.
used_counterShared(r) == 0

\* rbh_pe_action_used_counter()
used_counter(r) == r

\* Mutant: one action too many.
SpentLate(limit, n) == limit > 0 /\ n > limit
Spent(limit, n) == limit > 0 /\ n >= limit

\* Mutant: the order of the sort is lost.
InOrderLost(sort, s) == TRUE

\* The mirror sorts by what it stored.
InOrder(sort, s) ==
    \A i, j \in DOMAIN s :
        i < j => CASE sort = "asc" -> s[i].attr <= s[j].attr
                   [] sort = "desc" -> s[i].attr >= s[j].attr
                   [] OTHER -> TRUE

\* The entries that rbh_collect_fsentries() may give, one for each name.
Collections(p) ==
    {s \in SetToSeqs({e \in mirror : e.attr \in p.filter}) : InOrder(p.sort, s)}

\* The stop trigger is asked for an attribute that policies do not have
\* ("threshold"): the exception is caught and means "no".
stop_trigger_cb(p) == FALSE

-----------------------------------------------------------------------------
(* rbh_pe_execute()                                                        *)

Context == [manual |-> TRUE, now |-> 0, capacity |-> <<>>, db |-> TRUE,
            sizes |-> [i \in 1..Cardinality(mirror) |-> 1]]

\* run(): a policy whose trigger does not match is skipped, a trigger that
\* raises ends the program.
RunPolicy ==
    /\ pc = "start" /\ k <= Len(plan)
    /\ LET decision == evaluate_trigger(policy.trigger, Context)
       IN IF decision = "T"
          THEN \E s \in Collections(policy) :
                  /\ todo' = s
                  /\ pc' = "next" /\ k' = k
                  /\ used' = [r \in DOMAIN used |-> 0]
                  /\ present' = [f \in File |-> Cardinality(Links(f))]
          ELSE /\ pc' = IF decision = "F" THEN "start" ELSE "raised"
               /\ k' = k + 1
               /\ UNCHANGED <<todo, used, present>>
    /\ UNCHANGED <<fsVars, attr, mirror, plan, rc, cur, path, fresh, rule, logVars,
                   upsets, acts, dropped, raced, calm>>

\* The iterator's end, or its failure.
EndPolicy ==
    /\ pc = "next"
    /\ \/ todo = <<>> /\ rc' = 0
       \/ rc' = -1
    /\ pc' = "done"
    /\ UNCHANGED <<fsVars, attr, mirror, plan, k, stepVars, used, logVars, upsets, pastVars>>

NextPolicy ==
    /\ pc = "done"
    /\ k' = k + 1 /\ pc' = "start"
    /\ UNCHANGED <<fsVars, attr, mirror, plan, rc, stepVars, used, logVars, upsets, pastVars>>

\* The paths at which open_by_handle_at() may find an id.
PathsOf(id) == IF id = Root THEN {<<>>}
               ELSE {Append(PathOf(l[1]), l[2]) : l \in Links(id)}

\* id2path(): the path of the id now, whatever the mirror says.
Locate ==
    /\ pc = "next" /\ todo # <<>>
    /\ cur' = Head(todo) /\ todo' = Tail(todo)
    /\ raced' = FALSE
    /\ IF PathsOf(Head(todo).id) = {}
       THEN pc' = "next" /\ UNCHANGED path
       ELSE pc' = "read" /\ path' \in PathsOf(Head(todo).id)
    /\ UNCHANGED <<fsVars, attr, mirror, plan, k, rc, fresh, rule, used, logVars, upsets,
                   acts, dropped, calm, present>>

\* Mutant: the attributes that the mirror stored are believed.
ReadAtStored(id) == [id |-> id, attr |-> cur.attr]

\* What posix_root() reads at the path.
ReadAt(id) == [id |-> id, attr |-> attr[id]]

\* The target, then the rules, then the limit.
Read ==
    /\ pc = "read"
    /\ LET at == Resolve(path)
       IN IF at = <<>> THEN pc' = "next" /\ UNCHANGED <<fresh, rule>>
          ELSE LET e == ReadAt(at[1])
                   r == match_rule(policy, e.attr)
                   limit == action_count_limit(select_action(policy, r))
               IN IF e.attr \notin policy.filter \/ Spent(limit, used[used_counter(r)])
                  THEN pc' = "next" /\ UNCHANGED <<fresh, rule>>
                  ELSE fresh' = e /\ rule' = r /\ pc' = "apply"
    /\ UNCHANGED <<fsVars, attr, mirror, plan, k, rc, todo, cur, path, used, logVars, upsets,
                   pastVars>>

-----------------------------------------------------------------------------
(* rbh_pe_apply_action()                                                   *)

action == select_action(policy, rule)

Count ==
    used' = IF action_count_limit(action) > 0
            THEN [used EXCEPT ![used_counter(rule)] = @ + 1] ELSE used

\* done: the entry that was removed, as <<id>>.
Act(done) ==
    acts' = Append(acts, [k |-> k, rule |-> rule, type |-> parse_action(action),
                          want |-> cur.id, done |-> done, raced |-> raced,
                          now |-> IF done = <<>> THEN fresh.attr ELSE attr[done[1]]])

Proceed == IF stop_trigger_cb(policy) THEN pc' = "done" /\ rc' = 2
                                      ELSE pc' = "next" /\ UNCHANGED rc

\* A command, a function, or nothing at all.
Apply ==
    /\ pc = "apply" /\ parse_action(action) \in {"CMD", "PYTHON", "UNKNOWN"}
    /\ Act(<<>>) /\ Count /\ Proceed
    /\ UNCHANGED <<fsVars, attr, mirror, plan, k, stepVars, logVars, upsets,
                   dropped, raced, calm, present>>

\* Mutant: a log file that is open is used whatever its path.
SameStreamAny(output) == stream_path # <<>>
SameStream(output) == stream_path = <<output>>

\* rbh_pe_log_action(): the path is remembered before the file is known to be open,
\* and the NULL stream is then used or closed.
Log ==
    /\ pc = "apply" /\ parse_action(action) = "LOG"
    /\ LET output == action.output
           write(to) == lines' = Append(lines, [to |-> to, wants |-> output])
           close == stream_path # <<>>
       IN IF output # "" /\ SameStream(output)
          THEN /\ IF stream = "NULL" THEN pc' = "crashed" /\ UNCHANGED <<rc, lines>>
                                     ELSE write(stream) /\ Proceed
               /\ UNCHANGED <<stream, stream_path, refused>>
          ELSE IF close /\ stream = "NULL"
          THEN pc' = "crashed" /\ UNCHANGED <<rc, logVars>>
          ELSE IF output = ""
          THEN stream' = "stdout" /\ stream_path' = <<>> /\ write("") /\ Proceed
               /\ UNCHANGED refused
          ELSE \E opens \in BOOLEAN :
                  /\ stream_path' = <<output>>
                  /\ stream' = IF opens THEN output ELSE "NULL"
                  /\ refused' = (refused \/ ~opens)
                  /\ IF opens THEN write(output) ELSE UNCHANGED lines
                  /\ Proceed
    /\ Act(<<>>) /\ Count
    /\ UNCHANGED <<fsVars, attr, mirror, plan, k, stepVars, upsets, dropped, raced, calm,
                   present>>

\* unlink() or rmdir() of the path, by the type that was read: the entry removed.
Removed(at, isdir) ==
    LET found == Resolve(at)
    IN IF at = <<>> \/ found = <<>> THEN <<>>
       ELSE IF IsDir(found[1]) # isdir \/ (isdir /\ Entries(found[1]) # {}) THEN <<>>
       ELSE found

RemovePath(at) ==
    /\ tree' = LET l == <<Resolve(Front(at))[1], Last(at)>>
               IN [n \in DOMAIN tree \ {l} |-> tree[n]]
    /\ UNCHANGED <<up, born>>

\* rbh_posix_delete_entry()
Delete ==
    /\ pc = "apply" /\ parse_action(action) = "DELETE"
    /\ LET done == IF select_common_ops(action, policy.providers) = <<>> THEN <<>>
                   ELSE Removed(path, IsDir(fresh.id))
       IN /\ Act(done)
          /\ IF done = <<>> THEN UNCHANGED fsVars ELSE RemovePath(path)
          /\ IF done # <<>> /\ action.parents /\ Len(path) > 1
             THEN pc' = "parents" /\ path' = Front(path) /\ UNCHANGED rc
             ELSE Proceed /\ UNCHANGED path
          /\ fresh' = [id |-> fresh.id, attr |-> fresh.attr, path |-> path]
    /\ Count
    /\ UNCHANGED <<attr, mirror, plan, k, todo, cur, rule, logVars, upsets, dropped,
                   raced, calm, present>>

\* Mutant: the grandparent may go too.
build_abs_floorHigh(at, below) ==
    IF below # <<>> THEN below[1] ELSE Front(Front(Front(at)))

\* build_abs_floor(): without a floor, only the parent may be removed.
build_abs_floor(at, below) == IF below # <<>> THEN below[1] ELSE Front(Front(at))

\* One turn of remove_empty_parents().
RemoveParent ==
    /\ pc = "parents"
    /\ IF \/ path = <<>>
          \/ path = build_abs_floor(fresh.path, action.below)
          \/ Removed(path, TRUE) = <<>>
       THEN Proceed /\ UNCHANGED <<fsVars, path, dropped>>
       ELSE /\ RemovePath(path)
            /\ dropped' = dropped \cup {[path |-> path, of |-> fresh.path,
                                         below |-> action.below]}
            /\ path' = Front(path)
            /\ UNCHANGED <<pc, rc>>
    /\ UNCHANGED <<attr, mirror, plan, k, todo, cur, fresh, rule, used, logVars, upsets,
                   acts, raced, calm, present>>

-----------------------------------------------------------------------------
(* The users.                                                              *)

\* External: an entry's attribute changes.
Touch(id, value) ==
    /\ Exists(id) /\ attr[id] # value
    /\ attr' = [attr EXCEPT ![id] = value]
    /\ UNCHANGED fsVars

\* Bound: MaxUpsets steps, fewer beside several policies.
UserActs ==
    /\ k <= Len(plan) /\ pc # "crashed" /\ upsets + Len(plan) <= MaxUpsets
    /\ \/ UserStep /\ UNCHANGED attr
       \/ \E id \in Dir \cup File, value \in Attrs : Touch(id, value)
    /\ upsets' = upsets + 1
    /\ raced' = (pc \in {"read", "apply", "parents"}) /\ calm' = FALSE
    /\ UNCHANGED <<mirror, plan, k, pc, rc, stepVars, used, logVars, acts, dropped, present>>

PolicyInit(plans, starts) ==
    /\ \E start \in starts :
          /\ tree = start.tree /\ up = start.up
          /\ born = {Root} \cup {start.tree[l] : l \in DOMAIN start.tree}
          /\ attr = start.attr
    /\ mirror = {[id |-> Root, path |-> <<>>, attr |-> attr[Root]]}
                  \cup UNION {{[id |-> id, path |-> p, attr |-> attr[id]] : p \in PathsOf(id)} :
                                 id \in born \ {Root}}
    /\ plan \in plans /\ k = 1
    /\ \A i \in DOMAIN plan : Declared(plan[i])
    /\ pc = "start" /\ rc = 0 /\ todo = <<>>
    /\ cur = [id |-> Root, path |-> <<>>, attr |-> attr[Root]]
    /\ path = <<>> /\ fresh = [id |-> Root, attr |-> attr[Root]] /\ rule = 0
    /\ used = [r \in 0..2 |-> 0]
    /\ stream = "none" /\ stream_path = <<>> /\ upsets = 0
    /\ acts = <<>> /\ dropped = {} /\ lines = <<>> /\ refused = FALSE
    /\ raced = FALSE /\ calm = TRUE /\ present = [f \in File |-> 0]

PolicyNext ==
    \/ RunPolicy \/ EndPolicy \/ NextPolicy \/ Locate \/ Read \/ Apply \/ Log
    \/ Delete \/ RemoveParent \/ UserActs

-----------------------------------------------------------------------------
(* Properties.                                                             *)

ActsOf(r, id) == Cardinality({i \in DOMAIN acts : acts[i].k = k /\ acts[i].rule = r
                                                  /\ acts[i].want = id})
SpentBy(i, r) == Cardinality({j \in DOMAIN acts : acts[j].k = i /\ acts[j].rule = r})

\* The first rule that selects the value, or none of them does.
Governs(p, r, value) ==
    LET selects(i) == p.rules[i].filter = <<>> \/ value \in p.rules[i].filter[1]
    IN /\ r > 0 => selects(r)
       /\ \A i \in DOMAIN p.rules : (r = 0 \/ i < r) => ~selects(i)

\* What a policy deletes is the entry that it collected, as it is at that moment:
\* the target selects it and the rule that deletes it is the first one that does. Only
\* a user who acts between the look-up and the unlink() gets something else deleted.
DeletedAsChecked ==
    \A i \in DOMAIN acts :
        LET a == acts[i] IN
        a.done # <<>> /\ ~a.raced =>
            /\ a.done[1] = a.want
            /\ a.now \in plan[a.k].filter
            /\ Governs(plan[a.k], a.rule, a.now)

\* Removing empty parents never goes above the floor that is configured (when it is
\* above the entry), nor, without one, above the direct parent, nor to the mount point,
\* whatever is renamed meanwhile.
FloorKept ==
    \A d \in dropped :
        /\ d.path # <<>> /\ IsStrictPrefix(d.path, d.of)
        /\ IF d.below = <<>> THEN d.path = Front(d.of)
           ELSE IsStrictPrefix(d.below[1], d.of) => IsStrictPrefix(d.below[1], d.path)

\* No rule, and no default action, acts on more entries than its own count allows.
LimitKept ==
    \A i \in DOMAIN plan, r \in DOMAIN used :
        r <= Len(plan[i].rules) =>
            LET limit == action_count_limit(select_action(plan[i], r))
            IN limit > 0 => SpentBy(i, r) <= limit

\* When nobody else acts, a policy that ends has acted on every name of every file that
\* it selects, by the first rule that selects it, unless the count of that very rule is
\* spent; and a file to delete, for which there is one provider, is gone.
Swept ==
    pc = "done" /\ rc = 0 /\ calm =>
        \A f \in File : present[f] > 0 /\ attr[f] \in policy.filter =>
            LET r == match_rule(policy, attr[f])
                a == select_action(policy, r)
                limit == action_count_limit(a)
            IN \/ limit > 0 /\ SpentBy(k, r) >= limit
               \/ /\ ActsOf(r, f) >= present[f]
                  /\ parse_action(a) = "DELETE"
                        /\ select_common_ops(a, policy.providers) # <<>> => Links(f) = {}

\* When nobody else acts, a sorted policy spends a count on the files that come first
\* in its order.
FirstSpent ==
    pc = "done" /\ rc = 0 /\ calm /\ policy.sort # "none" =>
        \A f, g \in File :
            LET r == match_rule(policy, attr[g])
                before == IF policy.sort = "asc" THEN attr[f] < attr[g] ELSE attr[f] > attr[g]
            IN (/\ before /\ present[f] > 0 /\ attr[f] \in policy.filter
                /\ match_rule(policy, attr[f]) = r /\ ActsOf(r, g) > 0)
               => ActsOf(r, f) >= present[f]

\* Each line that the actions of several policies log goes to the output of its own
\* action; the program only breaks on a log file after one could not be opened.
LoggedWhere ==
    /\ \A i \in DOMAIN lines : lines[i].to = lines[i].wants
    /\ pc = "crashed" => refused

-----------------------------------------------------------------------------
(* Runs of policies, and, one at a time, the conditions, the triggers and  *)
(* the providers of actions that a configuration may hold (PolicyConfig).  *)

CONSTANTS Conditions, FileEntries, Triggers, Contexts, ProviderLists, Deletes

VARIABLES part, case

allVars == <<vars, part, case>>

Init ==
    /\ case = <<>>
    /\ \/ part = "run" /\ PolicyInit(Plans, Starts)
       \/ part = "cases" /\ PolicyInit({<<>>}, {CHOOSE s \in Starts : TRUE})

Idle == part = "cases" /\ case = <<>>
Take(c) == case' = c /\ UNCHANGED <<vars, part>>

\* declare_fileclass() or a target or a rule, and an entry to select.
TakeCondition ==
    Idle /\ \E c \in Conditions, e \in FileEntries : Take(<<"condition", c, e>>)
TakeTrigger ==
    Idle /\ \E t \in Triggers, ctx \in Contexts : Take(<<"trigger", t, ctx>>)
TakeProviders ==
    Idle /\ \E a \in Deletes, ps \in ProviderLists : Take(<<"providers", a, ps>>)

Next ==
    \/ part = "run" /\ PolicyNext /\ UNCHANGED <<part, case>>
    \/ TakeCondition \/ TakeTrigger \/ TakeProviders

Spec == Init /\ [][Next]_allVars

Is(kind) == case # <<>> /\ case[1] = kind

\* A condition that the configuration accepts selects, once translated into a find
\* predicate and then into a filter, the entries that it says: sizes in units rounded
\* up, ages of that duration, & | and ~ the logical ones; but where Departs says that
\* it does the contrary.
ConditionAgrees ==
    Is("condition") =>
        LET c == case[2] f == to_filter(c)
        IN f # <<>> /\ ~SomeMeaningless(c) =>
              (Matches(f[1], case[3]) <=> Selected(c, case[3]))

\* A trigger that does not raise decides what it means, whichever of its parts is
\* evaluated first; one that raises has no capacity to compare. With the capacity at
\* the threshold, the rounding decides.
TriggerAgrees ==
    Is("trigger") =>
        LET d == evaluate_trigger(case[2], case[3])
        IN IF d = "raise" THEN case[3].capacity = <<>>
           ELSE SomeAtThreshold(case[2], case[3]) \/ ((d = "T") <=> Wanted(case[2], case[3]))

\* Who deletes does not depend on the order in which the plugin and its extensions
\* were loaded, and it is the one that the action names.
ProviderStable ==
    Is("providers") =>
        LET a == case[2] ps == case[3] chosen == select_common_ops(a, ps)
        IN /\ \A order \in Permutations(DOMAIN ps) :
                 select_common_ops(a, [i \in DOMAIN ps |-> ps[order[i]]]) = chosen
           /\ chosen # <<>> /\ provider_hint(a) # <<>> => chosen = provider_hint(a)

\* What is removed is what was selected and nothing above the floor: files by the
\* actions, then their empty parents (rbh_posix_delete_entry).
RemovedSafely == DeletedAsChecked /\ FloorKept

\* Each policy applies its rules to all that it selects, in its order, up to the
\* count of each rule and no further (rbh_pe_execute).
RulesApplied == LimitKept /\ Swept /\ FirstSpent

\* What a configuration says is what is evaluated: its conditions, its triggers and
\* the providers of its actions.
ConfigAgrees == ConditionAgrees /\ TriggerAgrees /\ ProviderStable
=============================================================================
