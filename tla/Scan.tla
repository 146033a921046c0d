-------------------------------- MODULE Scan --------------------------------
(***************************************************************************)
(* The parallel crawl (iterators/mfu/iterator.c, utils.c): mpifileutils has*)
(* walked the tree and dealt its entries to the ranks of an MPI program,   *)
(* each of which sends its own to the database.  An entry is its path, and *)
(* so is its id.  Some entries have vanished since the walk.               *)
(***************************************************************************)
EXTENDS SyncGc

CONSTANTS Dealings     \* set of [lists: rank -> sequence of [path, dir], gone]

\* Each entry is dealt to one rank, once; the mount point is the first entry of
\* rank 0, and what holds it is there; what is in a directory that is gone is gone.
ASSUME DealAssumption ==
    \A d \in Dealings :
        /\ <<"..">> \notin d.gone
        /\ \A r \in DOMAIN d.lists :
              /\ d.lists[r] \in Seq([path : Seq(STRING), dir : BOOLEAN])
              /\ \A i \in DOMAIN d.lists[r] :
                    LET path == d.lists[r][i].path
                    IN /\ path = <<>> <=> r = 0 /\ i = 1
                       /\ path # NoId /\ (path # <<>> => path[1] # "..")
                       /\ path # <<>> /\ Front(path) \in d.gone => path \in d.gone
                       /\ \A q \in DOMAIN d.lists : \A j \in DOMAIN d.lists[q] :
                             d.lists[q][j].path = path => q = r /\ j = i

VARIABLES deal,        \* the one that is crawled
          ranks,       \* the thread-local state of each rank's iterator
          mnb,         \* nb_children, by id, in the database
          msent        \* ghost: the fsentries sent, with their parent ids

mfuVars == <<deal, ranks, mnb, msent>>

Rank == DOMAIN deal.lists
Dealt == UNION {Range(deal.lists[r]) : r \in Rank}
MfuDirs == {p \in Dealt : p.dir}
Start == 1             \* start_time, the same for all the ranks

\* dirname(); the mount point is <<>>, and what holds it <<"..">>
Dirname(path) == IF path = <<>> THEN <<"..">> ELSE Front(path)

\* _build_id(): the entry cannot be opened if it is gone.
mfu_build_id(path) == IF path \in deal.gone THEN <<>> ELSE <<path>>

MfuInit ==
    /\ deal \in Dealings
    /\ ranks = [r \in Rank |->
                  [run |-> "run", current |-> 1, seen_first_time |-> TRUE, parent |-> <<>>,
                   parent_id |-> <<>>, children |-> 0, skipped |-> 0, converted |-> 0]]
    /\ mnb = [i \in {} |-> <<>>]
    /\ msent = <<>>

Current(r) == deal.lists[r][ranks[r].current]
AtEnd(r) == ranks[r].current > Len(deal.lists[r])

SendsCount(id, count, final) ==
    LET old == IF id \in DOMAIN mnb THEN mnb[id] ELSE <<>>
        new == <<[value |-> count, ts |-> Start, final |-> final]>>
    IN mnb' = [i \in DOMAIN mnb \cup {id} |-> IF i = id THEN Counted(old, new) ELSE mnb[i]]

\* mfu_iter_handle_end(): the directory that was being crawled, then ENODATA
HandleEnd(r) ==
    /\ ranks[r].run = "run" /\ AtEnd(r)
    /\ IF ranks[r].parent_id = <<>>
       THEN /\ ranks' = [ranks EXCEPT ![r].run = "done"]
            /\ UNCHANGED mnb
       ELSE /\ SendsCount(ranks[r].parent_id[1], ranks[r].children, TRUE)
            /\ ranks' = [ranks EXCEPT ![r].parent = <<>>, ![r].parent_id = <<>>]
    /\ UNCHANGED <<deal, msent>>

\* mfu_iter_handle_new_directory(), before the directory itself
HandleNewDirectory(r) ==
    /\ ranks[r].run = "run" /\ ~AtEnd(r)
    /\ Current(r).dir /\ ranks[r].seen_first_time
    /\ ranks' = [ranks EXCEPT ![r].seen_first_time = FALSE]
    /\ LET id == mfu_build_id(Current(r).path)
       IN IF id = <<>> THEN UNCHANGED mnb ELSE SendsCount(id[1], 0, FALSE)
    /\ UNCHANGED <<deal, msent>>

\* Mutant: the parent's id is the one of the entry.
SetupParentSelf(k, path) ==
    [k EXCEPT !.parent = <<Dirname(path)>>, !.parent_id = mfu_build_id(path)]
\* mfu_iter_setup_current_parent()
SetupParent(k, path) ==
    [k EXCEPT !.parent = <<Dirname(path)>>, !.parent_id = mfu_build_id(Dirname(path))]

Ready(r) == /\ ranks[r].run = "run" /\ ~AtEnd(r)
            /\ ~(Current(r).dir /\ ranks[r].seen_first_time)

IsNewParent(r) == ranks[r].parent # <<>> /\ ranks[r].parent # <<Dirname(Current(r).path)>>
CountsPrevious(r) == ranks[r].parent_id # <<>> /\ ranks[r].parent_id # <<NoId>>

\* mfu_iter_handle_new_parent(): the directory that is left, before the entry
HandleNewParent(r) ==
    /\ Ready(r) /\ IsNewParent(r) /\ CountsPrevious(r)
    /\ SendsCount(ranks[r].parent_id[1], ranks[r].children, TRUE)
    /\ ranks' = [ranks EXCEPT ![r] = [SetupParent(@, Current(r).path) EXCEPT !.children = 0]]
    /\ UNCHANGED <<deal, msent>>

\* The rest of mfu_iter_next(): the entry itself, or skipped if it is gone
HandleEntry(r) ==
    /\ Ready(r) /\ ~(IsNewParent(r) /\ CountsPrevious(r))
    /\ LET e == Current(r)
           k0 == IF IsNewParent(r) THEN [SetupParent(ranks[r], e.path) EXCEPT !.children = 0]
                 ELSE IF ranks[r].parent = <<>> THEN SetupParent(ranks[r], e.path)
                 ELSE ranks[r]
           top == r = 0 /\ k0.current = 1
           k == [k0 EXCEPT !.children = @ + 1, !.parent_id = IF top THEN <<NoId>> ELSE @,
                           !.current = @ + 1]
       IN IF k.parent_id = <<>> \/ e.path \in deal.gone
          THEN /\ ranks' = [ranks EXCEPT ![r] = [k EXCEPT !.children = @ - 1, !.skipped = @ + 1]]
               /\ UNCHANGED msent
          ELSE /\ ranks' = [ranks EXCEPT ![r] = [k EXCEPT !.seen_first_time = TRUE,
                                                         !.converted = @ + 1]]
               /\ msent' = Append(msent, [path |-> e.path, parent |-> k.parent_id[1]])
    /\ UNCHANGED <<deal, mnb>>

MfuNext == \E r \in Rank : \/ HandleEnd(r) \/ HandleNewDirectory(r)
                           \/ HandleNewParent(r) \/ HandleEntry(r)

MfuDone == \A r \in Rank : ranks[r].run = "done"

-----------------------------------------------------------------------------
Kids(d) == {e \in Dealt : e.path # <<>> /\ Dirname(e.path) = d}
Places(d, r) == {n \in DOMAIN deal.lists[r] : deal.lists[r][n] \in Kids(d)}
\* The entries of d are in a row, on one rank.
Together(d) ==
    \A r, q \in Rank : \A i \in Places(d, r), j \in Places(d, q) :
        r = q /\ i .. j \subseteq Places(d, r)
\* The entry before the nth of a rank was skipped, and so were those before it
\* back to a directory.
Skipping(r, n) ==
    \E m \in 1 .. n - 1 : /\ deal.lists[r][m].dir
                          /\ \A i \in m .. n - 1 : deal.lists[r][i].path \in deal.gone
AfterSkipped(d) ==
    \E r \in Rank : \E n \in DOMAIN deal.lists[r] : deal.lists[r][n].path = d /\ Skipping(r, n)

\* Whatever the order in which the ranks' counts reach the database, the one of a
\* directory whose entries were dealt together is in the end the number of those
\* that were found, and 0 for an empty one (make_cond_bson, the "final" flag).
\* An empty directory is not set to 0 when the entries before it on its rank were
\* skipped, back to a directory (seen_first_time).
MfuCounted ==
    MfuDone =>
        \A d \in MfuDirs : d.path \notin deal.gone /\ Together(d.path) =>
            LET found == {e \in Kids(d.path) : e.path \notin deal.gone}
            IN \/ /\ d.path \in DOMAIN mnb
                  /\ mnb[d.path][1].value = Cardinality(found)
               \/ Kids(d.path) = {} /\ AfterSkipped(d.path)

\* Every entry that was found, with its directory, is sent once, with the id of
\* that directory, by whichever rank has it (mfu_iter_next).
MfuSentOnce ==
    MfuDone =>
        /\ {s.path : s \in Range(msent)} =
              {e.path : e \in {x \in Dealt : {x.path, Dirname(x.path)} \cap deal.gone = {}}}
        /\ Cardinality(Range(msent)) = Len(msent)
        /\ \A s \in Range(msent) : s.parent = IF s.path = <<>> THEN NoId ELSE Dirname(s.path)

-----------------------------------------------------------------------------
(* The ways into the POSIX backend, one at a time: the crawl by fts with   *)
(* the runs of rbh-sync and rbh-gc, the parallel crawl, the reads of one   *)
(* entry.                                                                  *)

CONSTANT Trees      \* the file systems to start from: set of [tree, up]

VARIABLE part
vars == <<part, scanVars, mfuVars, readVars>>

Init ==
    /\ part \in {"fts", "mfu", "entry"}
    /\ ReadInit /\ SyncInit /\ MfuInit
    /\ \E t \in Trees : tree = t.tree /\ up = t.up /\ born = Range(t.tree)
    /\ part # "fts" => tree = (CHOOSE t \in Trees : TRUE).tree
    /\ part # "mfu" => deal = CHOOSE d \in Dealings : TRUE
    /\ part # "entry" => xattrs_types = CHOOSE types \in TypeMaps : set_xattrs_types_map(types)

Next ==
    \/ part = "fts" /\ SyncNext /\ UNCHANGED <<part, mfuVars, readVars>>
    \/ part = "mfu" /\ MfuNext /\ UNCHANGED <<part, scanVars, readVars>>
    \/ part = "entry" /\ ReadNext /\ UNCHANGED <<part, scanVars, mfuVars>>

Spec == Init /\ [][Next]_vars

\* What the crawls leave: after a calm rbh-sync every name of the file system is
\* in the database, whatever earlier runs left there; a parallel crawl sends every
\* entry that it found, once; and no run, however it ended, leaves a name without
\* the link count that rbh-gc reads, or half a record in an mpi-file (sync,
\* mfu_iter_next, mpi_file_backend_update).
SyncedWhole == NamesSynced /\ MfuSentOnce /\ LinkCountKnown /\ FlistWhole

\* The numbers of children are right: in the database after a calm rbh-sync or a
\* parallel crawl, and in the counters of fts at each moment of a crawl
\* (children_counter, make_cond_bson).
CountsRight == ChildrenSynced /\ MfuCounted /\ CountersMatch
=============================================================================
