------------------------------- MODULE FsTree -------------------------------
(***************************************************************************)
(* The POSIX file system that rbh-sync crawls and rbh-gc looks entries up  *)
(* in, and what its users do meanwhile.  External: as far as fts_iter.c,   *)
(* posix.c and rbh-gc.c can tell.  An id is a file handle: it is never     *)
(* used again.                                                             *)
(***************************************************************************)
EXTENDS Integers, FiniteSets, SequencesExt

CONSTANTS Root, Dir, File, Name

VARIABLES tree,     \* [<<directory, name>> |-> id], what the directories hold
          up,       \* ".." of each directory, which a removed one keeps
          born      \* the ids that were ever used

fsVars == <<tree, up, born>>

IsDir(id) == id \in Dir \cup {Root}
Links(id) == {l \in DOMAIN tree : tree[l] = id}
Exists(id) == id = Root \/ Links(id) # {}
Entries(dir) == {l[2] : l \in {k \in DOMAIN tree : k[1] = dir}}

\* The link counts: a directory has its ".", its name and its subdirectories' "..".
nlink(id) ==
    IF IsDir(id) THEN 2 + Cardinality({l \in DOMAIN tree : l[1] = id /\ IsDir(tree[l])})
    ELSE Cardinality(Links(id))

\* What openat(dir, name) finds, as <<id>>, or <<>>.
Lookup(dir, name) == IF <<dir, name>> \in DOMAIN tree THEN <<tree[<<dir, name>>]>> ELSE <<>>

\* What a path from the mount point leads to, as <<id>>, or <<>>.
Resolve(path) ==
    FoldLeft(LAMBDA at, name : IF at = <<>> THEN <<>> ELSE Lookup(at[1], name),
             <<Root>>, path)

\* The directories above an entry's, in the order of ".."
Above(dir) ==
    LET above[d \in Dir \cup {Root}] ==
            IF d = Root THEN {Root} ELSE {d} \cup above[up[d]]
    IN above[dir]

PathOf(dir) ==
    LET path[d \in Dir \cup {Root}] ==
            IF d = Root THEN <<>>
            ELSE LET l == CHOOSE k \in Links(d) : TRUE IN Append(path[l[1]], l[2])
    IN path[dir]

-----------------------------------------------------------------------------
Free(l) == l \notin DOMAIN tree
Live(dir) == dir = Root \/ Links(dir) # {}

Create(id, l) ==
    /\ id \notin born /\ Free(l) /\ Live(l[1])
    /\ tree' = [k \in DOMAIN tree \cup {l} |-> IF k = l THEN id ELSE tree[k]]
    /\ up' = IF IsDir(id) THEN [up EXCEPT ![id] = l[1]] ELSE up
    /\ born' = born \cup {id}

HardLink(id, l) ==
    /\ id \in File /\ Links(id) # {} /\ Free(l) /\ Live(l[1])
    /\ tree' = [k \in DOMAIN tree \cup {l} |-> IF k = l THEN id ELSE tree[k]]
    /\ UNCHANGED <<up, born>>

\* unlink() or rmdir()
Unlink(l) ==
    /\ ~Free(l)
    /\ IsDir(tree[l]) => Entries(tree[l]) = {}
    /\ tree' = [k \in DOMAIN tree \ {l} |-> tree[k]]
    /\ UNCHANGED <<up, born>>

\* rename(), of a file over another one too
Rename(l, m) ==
    /\ ~Free(l) /\ l # m /\ Live(m[1])
    /\ ~Free(m) => {tree[l], tree[m]} \subseteq File /\ tree[l] # tree[m]
    /\ IsDir(tree[l]) => tree[l] \notin Above(m[1])
    /\ tree' = [k \in (DOMAIN tree \ {l}) \cup {m} |-> IF k = m THEN tree[l] ELSE tree[k]]
    /\ up' = IF IsDir(tree[l]) THEN [up EXCEPT ![tree[l]] = m[1]] ELSE up
    /\ UNCHANGED born

UserStep ==
    \E l \in (Dir \cup {Root}) \X Name :
        \/ \E id \in Dir \cup File : Create(id, l) \/ HardLink(id, l)
        \/ Unlink(l)
        \/ \E m \in (Dir \cup {Root}) \X Name : Rename(l, m)
=============================================================================
