---------------------------- MODULE PosixEntries ----------------------------
(***************************************************************************)
(* How the POSIX backend turns an entry of the file system into an fsentry *)
(* (posix.c, xattrs_mapping.c): the target of a symbolic link, the names of*)
(* its extended attributes, their values with the types that the           *)
(* configuration gives them.  A step is a system call: the entry may change*)
(* between any two.  The buffers are kept from an entry to the next.       *)
(***************************************************************************)
EXTENDS Integers, SequencesExt, FiniteSets

CONSTANTS Hints,       \* stx_size of symbolic links (page_size - 1 if unknown)
          Lengths,     \* lengths of their targets by the time they are read
          NameLists,   \* what listxattr() may find: set of [size, names]; one that
                       \* is too big stands for E2BIG and ENOTSUP
          NamesLength, \* names_length when the process starts
          PairsCount,  \* pairs_count when an entry starts, 2^7
          Answers,     \* what getxattr() may answer: set of [errno, text]
          TypeMaps     \* "xattrs_map" of configurations: set of [name -> type]

ASSUME EntryAssumption ==
    /\ Hints \subseteq Nat /\ Lengths \subseteq Nat
    /\ \A list \in NameLists : list.size \in Nat /\ list.names \in Seq(STRING)
    /\ \A answer \in Answers : answer.text.number \in {<<>>} \cup (Int \X Int)
    /\ NamesLength \in Nat \ {0} /\ PairsCount \in Nat \ {0}

VARIABLES reading,       \* the next call: "readlink", "list", "measure" or "get";
                         \* or how the last entry ended: "done", "failed"
          xattrs_types,  \* what set_xattrs_types_map() read
          size, target,  \* of freadlink(): the buffer's, and what it returned
          names_length, names,            \* the buffer, and the names in it
          pairs, pairs_count, skipped,    \* those of getxattrs()
          length, listed, answers,        \* ghosts: what the last readlink()
                         \* and listxattr() found, what getxattr() said so far
          dangling       \* ghost: the places where pair was left behind

linkVars == <<size, target, length>>
listVars == <<names_length, names, listed>>
pairVars == <<pairs, pairs_count, skipped, answers, dangling>>
readVars == <<reading, xattrs_types, linkVars, listVars, pairVars>>

KiB64 == 65536           \* the most that the VFS allows for a value or a list
NoError == ""
Ok(v) == [errno |-> NoError, v |-> v]
Err(errno) == [errno |-> errno, v |-> <<>>]
Junk == [key |-> "?", value |-> [type |-> "?", v |-> "?"]]

-----------------------------------------------------------------------------
\* extract_type_from_map()
Typings == {"boolean", "int32", "uint32", "int64", "uint64", "string", "binary"}
set_xattrs_types_map(types) ==
    \A name \in DOMAIN types : types[name] \in Typings

ReadInit ==
    /\ reading = "done"
    /\ xattrs_types \in {types \in TypeMaps : set_xattrs_types_map(types)}
    /\ size = 0 /\ target = 0 /\ length = 0
    /\ names_length = NamesLength /\ names = <<>> /\ listed = [size |-> 0, names |-> <<>>]
    /\ pairs = [n \in 1 .. PairsCount |-> Junk] /\ pairs_count = PairsCount
    /\ skipped = 0 /\ answers = <<>> /\ dangling = {}

\* fsentry_from_any(): the entry has been opened, and is a link or another entry
\* that has attributes.
StartEntry(link, hint) ==
    /\ reading \in {"done", "failed"}
    /\ reading' = IF link THEN "readlink" ELSE "list"
    /\ size' = hint + 1 /\ target' = 0 /\ length' = 0
    /\ names' = <<>> /\ listed' = [size |-> 0, names |-> <<>>]
    /\ pairs_count' = PairsCount /\ skipped' = 0 /\ answers' = <<>> /\ dangling' = {}
    /\ UNCHANGED <<xattrs_types, names_length, pairs>>

\* Any call may fail in another way, which makes the entry ESTALE.
CallFails ==
    /\ reading \in {"readlink", "list", "measure"}
    /\ reading' = "failed"
    /\ UNCHANGED <<xattrs_types, linkVars, listVars, pairVars>>

\* Mutant: a target that fills the buffer is taken for a whole one.
freadlinkFull(len) ==
    /\ reading = "readlink"
    /\ length' = len /\ target' = (IF len < size THEN len ELSE size)
    /\ reading' = "list"
    /\ UNCHANGED <<xattrs_types, size, listVars, pairVars>>

\* freadlink(): readlink() truncates the target to the buffer, whose size is
\* doubled until the target does not fill it.
freadlink(len) ==
    /\ reading = "readlink"
    /\ length' = len
    /\ LET rc == IF len < size THEN len ELSE size
       IN \/ /\ rc < size
             /\ target' = rc /\ reading' = "list" /\ UNCHANGED size
          \/ /\ rc = size /\ size >= KiB64
             /\ reading' = "failed" /\ UNCHANGED <<size, target>>
          \/ /\ rc = size /\ size < KiB64
             /\ size' = 2 * size /\ UNCHANGED <<reading, target>>
    /\ UNCHANGED <<xattrs_types, listVars, pairVars>>

-----------------------------------------------------------------------------
Powers == {1, 2, 4, 8, 16, 32, 64, 128, 256, 512, 1024, 2048, 4096, 8192, 16384,
           32768, 65536}
ceil2(number) == CHOOSE p \in Powers : p >= number /\ p < 2 * number

\* Mutant: a list that does not fit is cut.
flistxattrsCut(list) ==
    /\ reading = "list"
    /\ listed' = list
    /\ names' = (IF list.size <= names_length THEN list.names ELSE SubSeq(list.names, 1, 1))
    /\ reading' = "get"
    /\ UNCHANGED <<xattrs_types, names_length, linkVars, pairVars>>

\* flistxattrs(): the names, into the buffer.  There are none if the file system
\* refuses to list them.
flistxattrs(list) ==
    /\ reading = "list"
    /\ listed' = list
    /\ \/ /\ list.size > KiB64
          /\ names' = <<>> /\ reading' = "get"
       \/ /\ list.size <= KiB64 /\ list.size <= names_length
          /\ names' = list.names /\ reading' = "get"
       \/ /\ list.size <= KiB64 /\ list.size > names_length
          /\ reading' = "measure" /\ UNCHANGED names
    /\ UNCHANGED <<xattrs_types, names_length, linkVars, pairVars>>

\* The list did not fit: its size, for another try.  It may have shrunk since.
Measure(list) ==
    /\ reading = "measure"
    /\ listed' = list
    /\ reading' = IF list.size > KiB64 THEN "get" ELSE "list"
    /\ names_length' = IF list.size <= names_length \/ list.size > KiB64 THEN names_length
                       ELSE ceil2(list.size)
    /\ UNCHANGED <<xattrs_types, names, linkVars, pairVars>>

-----------------------------------------------------------------------------
(* create_value_from_xattr(): a text is [text, number], its number <<>> or *)
(* <<hi, lo>> for hi * 2^32 + lo.                                          *)

Unsigned == {"uint32", "uint64"}
Narrow == {"int32", "uint32"}

Number(type, text) ==
    IF text.number = <<>> \/ (type \in Unsigned /\ text.number[1] < 0) THEN Err("EINVAL")
    ELSE Ok([type |-> type,
             v |-> IF type \in Narrow THEN <<0, text.number[2]>> ELSE text.number])

create_value_from_xattr(name, text) ==
    LET type == IF name \in DOMAIN xattrs_types THEN xattrs_types[name] ELSE "binary"
    IN CASE type = "boolean" ->
               IF text.text \in {"true", "false"}
               THEN Ok([type |-> "boolean", v |-> text.text]) ELSE Err("EINVAL")
         [] type \in {"int32", "int64"} \cup Unsigned -> Number(type, text)
         [] OTHER -> Ok([type |-> type, v |-> text.text])

Gone == {"ENODATA", "E2BIG"}

GetOne(name, answer) ==
    IF answer.errno # NoError THEN Err(answer.errno)
    ELSE create_value_from_xattr(name, answer.text)

\* xreallocarray(): the array has twice pairs_count pairs.
Grown == [n \in 1 .. 2 * pairs_count |-> IF n \in DOMAIN pairs THEN pairs[n] ELSE Junk]

\* Mutant: an attribute that was removed since keeps its place.
getxattrsGap(answer, moved) ==
    LET name == names[Len(answers) + 1]
        result == GetOne(name, answer)
    IN /\ reading = "get" /\ Len(answers) < Len(names) /\ ~moved
       /\ Len(answers) < pairs_count
       /\ answers' = Append(answers, answer)
       /\ pairs' = [pairs EXCEPT ![Len(answers) + 1] = [key |-> name, value |-> result.v]]
       /\ reading' = IF result.errno \in Gone \cup {NoError} THEN reading ELSE "failed"
       /\ UNCHANGED <<xattrs_types, pairs_count, skipped, dangling, linkVars, listVars>>

\* getxattrs(), one round of its loop: an attribute removed since, or too big, is
\* skipped, and the next one takes its place.  pair points into the array before
\* it grows: if realloc() moves it, what goes through pair is lost.
getxattrs(answer, moved) ==
    LET name == names[Len(answers) + 1]
        result == GetOne(name, answer)
        place == Len(answers) - skipped + 1
        full == place = pairs_count + 1
        array == IF full THEN Grown ELSE pairs
        named == [array EXCEPT ![place].key = name]
    IN /\ reading = "get" /\ Len(answers) < Len(names)
       /\ moved => full
       /\ answers' = Append(answers, answer)
       /\ pairs_count' = IF full THEN 2 * pairs_count ELSE pairs_count
       /\ \/ /\ result.errno \in Gone
             /\ skipped' = skipped + 1
             /\ pairs' = IF moved THEN array ELSE named
             /\ UNCHANGED <<reading, dangling>>
          \/ /\ result.errno \notin Gone \cup {NoError}
             /\ reading' = "failed"
             /\ pairs' = IF moved THEN array ELSE named
             /\ UNCHANGED <<skipped, dangling>>
          \/ /\ result.errno = NoError
             /\ pairs' = IF moved THEN array
                         ELSE [array EXCEPT ![place] = [key |-> name, value |-> result.v]]
             /\ dangling' = IF moved THEN dangling \cup {place} ELSE dangling
             /\ UNCHANGED <<reading, skipped>>
       /\ UNCHANGED <<xattrs_types, linkVars, listVars>>

\* The rest of fsentry_from_any(): the fsentry has the pairs before count.
EndEntry ==
    /\ reading = "get" /\ Len(answers) = Len(names)
    /\ reading' = "done"
    /\ UNCHANGED <<xattrs_types, linkVars, listVars, pairVars>>

ReadNext ==
    \/ \E link \in BOOLEAN, hint \in Hints : StartEntry(link, hint)
    \/ CallFails
    \/ \E len \in Lengths : freadlink(len)
    \/ \E list \in NameLists : flistxattrs(list) \/ Measure(list)
    \/ \E answer \in Answers, moved \in BOOLEAN : getxattrs(answer, moved)
    \/ EndEntry

-----------------------------------------------------------------------------
\* fsentry_from_any(): the errno of each call that it makes.  A single entry
\* that fails is made ESTALE so as not to stop the iterator; an enricher's
\* failure only loses what it would have added.
NoFailure == [open |-> NoError, id |-> NoError, statx |-> NoError, symlink |-> NoError,
              xattrs |-> NoError]

fsentry_from_any(calls) ==
    CASE calls.open # NoError  -> "ESTALE"
      [] calls.id # NoError    -> calls.id
      [] calls.statx # NoError \/ calls.symlink # NoError -> "ESTALE"
      [] calls.xattrs = "ENOMEM" -> "ENOMEM"
      [] calls.xattrs # NoError -> "ESTALE"
      [] OTHER -> NoError

-----------------------------------------------------------------------------
\* The target of a link is read whole, even when the link was replaced after its
\* size was read, or the entry is skipped (freadlink).
TargetWhole == reading \in {"list", "measure", "get", "done"} => target = length

\* The names are those that the entry had at the last call, none cut by the
\* buffer, and there are none when the list is too big to be had; the buffer,
\* kept for the next entries, never grows past 64 KiB (flistxattrs).
NamesWhole ==
    /\ reading \in {"get", "done"} =>
          IF listed.size > KiB64 THEN names = <<>>
          ELSE names = listed.names /\ listed.size <= names_length
    /\ names_length <= KiB64 \/ names_length = NamesLength

Kept == {n \in DOMAIN answers : answers[n].errno \notin Gone}
Place(n) == Cardinality({m \in Kept : m <= n})
Right(value, text) ==
    IF value.type \in Narrow \cup {"int64", "uint64"}
    THEN value.v = text.number \/ (value.type \in Narrow /\ text.number[1] # 0)
    ELSE value.v = text.text

\* Unless the entry is skipped, every attribute that it still has is among the
\* pairs, once, in order, under its own name and with its own value, but a number
\* too wide for its type; none that is gone is.  Only an entry with more than
\* pairs_count attributes may lose one, where the array grew (getxattrs).
XattrsKept ==
    reading = "done" =>
        /\ Len(answers) - skipped = Cardinality(Kept) /\ Len(answers) = Len(names)
        /\ \A n \in Kept : Place(n) \notin dangling =>
              /\ pairs[Place(n)].key = names[n]
              /\ Right(pairs[Place(n)].value, answers[n].text)
        /\ \A k \in dangling : k > PairsCount

\* What is read of an entry while users change it is whole, or the entry is
\* skipped: its target, the names of its attributes, and their values (freadlink,
\* flistxattrs, getxattrs).
EntryWhole == TargetWhole /\ NamesWhole /\ XattrsKept
=============================================================================
