-------------------------- MODULE BranchIterator --------------------------
(***************************************************************************)
(* The traversal of a branch (generic_branch.c), which the Mongo and SQLite *)
(* backends include: the directories of the branch are recorded in two     *)
(* rings, their ids and the values that point at the ids, each read by two *)
(* readers: one lists the directories' subdirectories, the other their     *)
(* entries.  The backend's filter is external: the entries whose parent is *)
(* one of the ids.  It may fail, and the caller may then call again.       *)
(***************************************************************************)
EXTENDS Rings

CONSTANTS Trees,         \* set of [parent, dirs, matching, idsize]
          RingSizes,     \* set of <<ID_RING_SIZE, VALUE_RING_SIZE>>
          VALUE,         \* bytes of a struct rbh_value
          MaxErrors      \* bound: failures of the backend

VARIABLES tree,          \* the backend's entries; the branch's root is Root
          at,            \* where branch_next_fsentries() is
          directories,   \* directories not fetched yet
          fsentries,     \* option: entries not returned yet
          directory,     \* option: the directory being recorded
          data,          \* option: value.binary.data, an offset in the ring
          ids, values,   \* the rings, with their readers
          emitted,       \* ghost: entries returned, in order
          errors         \* failures of the backend

branchVars == <<tree, at, directories, fsentries, directory, data, ids, values,
                emitted, errors>>

Root == 1
DIRECTORIES == "directories"
FSENTRIES == "fsentries"

\* generic_branch_backend_filter(): the root is filtered alone.
BranchInit ==
    /\ tree \in Trees
    /\ at = "next"
    /\ directories = <<>>
    /\ fsentries = <<IF Root \in tree.matching THEN <<Root>> ELSE <<>>>>
    /\ directory = <<Root>>
    /\ data = <<>>
    /\ \E size \in RingSizes :
           /\ ids = ringr_dup(ringr_new(size[1], DIRECTORIES), DIRECTORIES, FSENTRIES)
           /\ values = ringr_dup(ringr_new(size[2], DIRECTORIES), DIRECTORIES, FSENTRIES)
    /\ emitted = <<>>
    /\ errors = 0

Id(dir) == [i \in 1 .. tree.idsize[dir] |-> dir]

\* A struct rbh_value: its first byte stands for its content.
Value(address, size) ==
    [i \in 1 .. VALUE |-> IF i = 1 THEN <<address, size>> ELSE <<>>]

\* The values that a reader of the value ring sees.
ValuesOf(reader) ==
    LET bytes == ringr_peek(values, reader)
    IN [i \in 1 .. Len(bytes) \div VALUE |-> bytes[(i - 1) * VALUE + 1]]

\* The id a value points at: what the ring holds there now.
Pointed(value) == [i \in 1 .. value[2] |-> ids.ring.data[(value[1] + i - 1) % ids.ring.size]]

Listed(S) == FoldSet(LAMBDA e, s : Append(s, e), <<>>, S)

\* _filter_child_fsentries(): the entries among some whose parent's id is
\* one of the values.
Children(reader, some) ==
    LET parents == {Pointed(v) : v \in Range(ValuesOf(reader))}
    IN Listed({e \in some : /\ e # Root
                            /\ Id(tree.parent[e]) \in parents})

\* IDs have variable size: the bytes of the ids that the values point at.
Bytes(reader) == FoldLeft(LAMBDA n, v : n + v[2], 0, ValuesOf(reader))

\* The ids are acknowledged for both readers.
AcknowledgeBoth(reader) ==
    /\ values' = ringr_ack(values, reader, Len(ValuesOf(reader)) * VALUE)
    /\ ids' = ringr_ack(ringr_ack(ids, DIRECTORIES, Bytes(reader)), FSENTRIES, Bytes(reader))

\* filter_child_fsentries() acknowledges what it has read in both rings.
Acknowledge(reader) ==
    /\ values' = ringr_ack(values, reader, Len(ValuesOf(reader)) * VALUE)
    /\ ids' = ringr_ack(ids, reader, Bytes(reader))

Recorded(reader) == ringr_readable(values, reader) > 0

\* The reader that has the least to read.
ringr_largest_readerSwapped ==
    IF ringr_readable(ids, DIRECTORIES) > ringr_readable(ids, FSENTRIES)
    THEN FSENTRIES ELSE DIRECTORIES

\* ringr_largest_reader(iter->ids)
ringr_largest_reader ==
    IF ringr_readable(ids, DIRECTORIES) > ringr_readable(ids, FSENTRIES)
    THEN DIRECTORIES ELSE FSENTRIES

\* branch_iter_next(): the next entry of the current list.
NextFsentry ==
    /\ at = "next"
    /\ fsentries # <<>> /\ fsentries[1] # <<>>
    /\ emitted' = Append(emitted, Head(fsentries[1]))
    /\ fsentries' = <<Tail(fsentries[1])>>
    /\ UNCHANGED <<tree, at, directories, directory, data, ids, values, errors>>

\* The directory being recorded is forgotten.
ResumeFetch == "fetch"

\* branch_next_fsentries() resumes where it was interrupted.
Resume == CASE directory = <<>> -> "fetch"
            [] directory # <<>> /\ data = <<>> -> "record_id"
            [] OTHER -> "record_rbh_value"

\* branch_iter_next(): the list is exhausted, branch_next_fsentries().
CallNextFsentries ==
    /\ at = "next"
    /\ fsentries = <<>> \/ fsentries = <<<<>>>>
    /\ fsentries' = <<>>
    /\ at' = Resume
    /\ UNCHANGED <<tree, directories, directory, data, ids, values, emitted, errors>>

\* The next directory of the list.
FetchDirectory ==
    /\ at = "fetch"
    /\ directories # <<>>
    /\ directory' = <<Head(directories)>>
    /\ directories' = Tail(directories)
    /\ at' = "record_id"
    /\ UNCHANGED <<tree, fsentries, data, ids, values, emitted, errors>>

\* The list of directories is exhausted: those below the recorded ones.
Hydrate ==
    /\ at = "fetch"
    /\ directories = <<>>
    /\ Recorded(DIRECTORIES)
    /\ directories' = Children(DIRECTORIES, tree.dirs)
    /\ Acknowledge(DIRECTORIES)
    /\ directory' = <<>>
    /\ UNCHANGED <<tree, at, fsentries, data, emitted, errors>>

\* _branch_next_fsentries()
ReturnFsentries ==
    IF Recorded(FSENTRIES)
    THEN /\ fsentries' = <<Children(FSENTRIES, tree.matching)>>
         /\ Acknowledge(FSENTRIES)
         /\ at' = "next"
    ELSE /\ at' = "ENODATA"
         /\ UNCHANGED <<fsentries, ids, values>>

\* No directory is left: the entries of the last recorded ones.
TraversalComplete ==
    /\ at = "fetch"
    /\ directories = <<>>
    /\ ~Recorded(DIRECTORIES)
    /\ directory' = <<>>
    /\ ReturnFsentries
    /\ UNCHANGED <<tree, directories, data, emitted, errors>>

\* record_id: the ring has room.
RecordId ==
    /\ at = "record_id"
    /\ ring_errno(ids.ring, tree.idsize[directory[1]]) = ""
    /\ data' = <<Offset(ids.ring, ids.ring.used)>>
    /\ ids' = ringr_push(ids, Id(directory[1]))
    /\ at' = "record_rbh_value"
    /\ UNCHANGED <<tree, directories, fsentries, directory, values, emitted, errors>>

\* record_rbh_value: the ring has room; on to the next directory.
RecordValue ==
    /\ at = "record_rbh_value"
    /\ ring_errno(values.ring, VALUE) = ""
    /\ values' = ringr_push(values, Value(data[1], tree.idsize[directory[1]]))
    /\ at' = "fetch"
    /\ UNCHANGED <<tree, directories, fsentries, directory, data, ids, emitted, errors>>

\* A ring is full (ENOBUFS): make room in it, through the reader that has
\* the most to read.
RingFull ==
    \/ /\ at = "record_id"
       /\ ring_errno(ids.ring, tree.idsize[directory[1]]) = "ENOBUFS"
       /\ data' = <<>>
    \/ /\ at = "record_rbh_value"
       /\ ring_errno(values.ring, VALUE) = "ENOBUFS"
       /\ UNCHANGED data

\* branch_iter_recurse(): the subdirectories are chained to the list.
RecurseWhenFull ==
    /\ RingFull
    /\ ringr_largest_reader = DIRECTORIES
    /\ IF Recorded(DIRECTORIES)
       THEN /\ directories' = directories \o Children(DIRECTORIES, tree.dirs)
            /\ Acknowledge(DIRECTORIES)
            /\ UNCHANGED at
       ELSE /\ at' = "assert"
            /\ UNCHANGED <<directories, ids, values>>
    /\ UNCHANGED <<tree, fsentries, directory, emitted, errors>>

\* Interrupted: the entries of the recorded directories are returned.
ReturnWhenFull ==
    /\ RingFull
    /\ ringr_largest_reader = FSENTRIES
    /\ ReturnFsentries
    /\ UNCHANGED <<tree, directories, directory, emitted, errors>>

\* The backend's filter fails: nothing is acknowledged, the caller is told
\* and may call again.
BackendFails ==
    /\ errors < MaxErrors
    /\ \/ /\ at = "fetch"
          /\ directories = <<>>
          /\ Recorded(DIRECTORIES) \/ Recorded(FSENTRIES)
          /\ directory' = <<>>
          /\ UNCHANGED data
       \/ /\ RingFull
          /\ Recorded(ringr_largest_reader)
          /\ UNCHANGED directory
    /\ errors' = errors + 1
    /\ at' = "next"
    /\ UNCHANGED <<tree, directories, fsentries, ids, values, emitted>>

BranchNext ==
    \/ NextFsentry
    \/ CallNextFsentries
    \/ FetchDirectory
    \/ Hydrate
    \/ TraversalComplete
    \/ RecordId
    \/ RecordValue
    \/ RecurseWhenFull
    \/ ReturnWhenFull
    \/ BackendFails

-----------------------------------------------------------------------------
(* Properties of the traversal                                             *)

\* However small the rings, and whenever the backend fails, the traversal
\* returns the entries of the branch that match, each one once, and has
\* returned all of them when it ends ("no matter the error,
\* branch_next_fsentries() must be retryable").
BranchOnce ==
    /\ IsInjective(emitted)
    /\ Range(emitted) \subseteq tree.matching
    /\ at = "ENODATA" => Range(emitted) = tree.matching

\* A value that a reader has still to read points at the id of a directory
\* that the ring still holds: an id is not overwritten before its values are
\* read (the two rings are acknowledged together).
IdsIntact ==
    \A reader \in {DIRECTORIES, FSENTRIES} :
        \A v \in Range(ValuesOf(reader)) :
            \E dir \in tree.dirs \cup {Root} : Pointed(v) = Id(dir)

\* The assertion of branch_next_fsentries(): "the ring can't be full and
\* empty at the same time".
NeverFullAndEmpty == at # "assert"

\* The traversal is retryable and complete, its values always point at ids that
\* are still there, and it never gives up with two full rings
\* (branch_next_fsentries(), branch_iter_next()).
BranchWhole == BranchOnce /\ IdsIntact /\ NeverFullAndEmpty
=============================================================================
