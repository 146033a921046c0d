----------------------------- MODULE Retention ------------------------------
(***************************************************************************)
(* The retention and sparse extensions of the posix plugin, and            *)
(* rbh-update-retention, which deletes expired directories. The retention  *)
(* attribute (user.expires) is [kind, n]: "inf", "+n" after the last       *)
(* modification, a date n, or text that is none of them. Attributes of     *)
(* more than 18 bytes are not modelled: their digits are read from a       *)
(* buffer that was not filled.                                             *)
(***************************************************************************)
EXTENDS Predicates

CONSTANT Delay    \* --delay of rbh-update-retention, in seconds

INT64_MAX == 2^(W64 - 1) - 1
EXPIRATION == Xattr("trusted.expiration_date")

\* parse_user_expiration_date(); strtoul() is read as a signed integer, and a
\* negative date counts as an error.
parse_user_expiration_date(expires, mtime) ==
    CASE expires.kind = "inf"  -> INT64_MAX
      [] expires.kind = "+"    ->
            IF INT64_MAX - mtime < expires.n THEN INT64_MAX
            ELSE expires.n + mtime
      [] expires.kind = "date" -> Signed(expires.n, W64)
      [] OTHER -> -1

\* Mutant: the date that was stored is always replaced.
enrich_from_xattrsLast(inode) ==
    LET user == parse_user_expiration_date(inode.expires[1], inode.mtime)
    IN IF inode.expires = <<>> \/ user < 0 THEN <<>>
       ELSE EXPIRATION.key :> Val("INT64", user)

\* enrich_from_xattrs(), with create_expiration_date_value_pair() and
\* update_or_cast_expiration_date(): a date that the inode already has is
\* only moved forward.
enrich_from_xattrs(inode) ==
    LET user == parse_user_expiration_date(inode.expires[1], inode.mtime)
        current == inode.expiration_date
    IN IF inode.expires = <<>> \/ user < 0 THEN <<>>
       ELSE EXPIRATION.key :>
               Val("INT64", IF current # <<>> /\ current[1] >= user
                            THEN current[1] ELSE user)

expired2filter == U64("LOWER_OR_EQUAL", EXPIRATION, Now)

expired_at2filter(at) ==
    IF at.sign = "inf" THEN U64("EQUAL", EXPIRATION, INT64_MAX)
    ELSE FilterAnd(FilterNot(U64("EQUAL", EXPIRATION, INT64_MAX)),
                   epoch2filter(EXPIRATION, at))

-----------------------------------------------------------------------------
(* rbh-update-retention, on a directory: inode is the directory, with the  *)
(* times its files were last used at; mirror what the last rbh-sync stored *)
(* of it, which is all that the tool reads.                                *)

Mirrored(inode) == [expires |-> inode.expires, files |-> inode.files,
                    entry |-> [type |-> inode.type] @@ enrich_from_xattrs(inode)]

\* Directory.set_max_time(): 0 for a directory without files
MaxTime(mirror) == IF mirror.files = {} THEN 0
                   ELSE CHOOSE t \in mirror.files : \A u \in mirror.files : u <= t

ActualExpiration(mirror) == mirror.expires[1].n + MaxTime(mirror)

\* The directories main() asks rbh-find for.
Candidate(mirror) ==
    Meaning(FilterAnd(filetype2filter("d"),
                      expired_at2filter([sign |-> "", n |-> Now + Delay])), mirror.entry)

\* Mutant: a directory that was empty is removed with what came since.
RemovesTree(inode, mirror) == TRUE

\* handle_truly_expired_empty_directory(): "find -exec rmdir" leaves what is not
\* empty; rm_tree() leaves nothing.
Removes(inode, mirror) == MaxTime(mirror) = 0 => inode.files = {}

\* Mutant: the use of the files is not looked at.
check_directory_expirancyAtOnce(inode, mirror) ==
    CASE ~Candidate(mirror) -> "kept"
      [] mirror.expires[1].kind # "+" -> "deleted"
      [] inode.expires[1].n + inode.mtime <= Now -> "deleted"
      [] ActualExpiration(mirror) >= Now + Delay -> "updated"
      [] OTHER -> "notified"

\* check_directory_expirancy(), with --delete
check_directory_expirancy(inode, mirror) ==
    CASE ~Candidate(mirror) -> "kept"
      [] mirror.expires[1].kind # "+" -> "deleted"
      [] ActualExpiration(mirror) <= Now ->
            IF Removes(inode, mirror) THEN "deleted" ELSE "kept"
      [] ActualExpiration(mirror) >= Now + Delay -> "updated"
      [] OTHER -> "notified"

\* Directory.update_expiration_date(): in the database, then on the inode
update_expiration_date(inode, mirror) ==
    LET date == ActualExpiration(mirror) + 1
    IN [inode |-> [inode EXCEPT !.expiration_date = <<date>>],
        mirror |-> [mirror EXCEPT !.entry = (EXPIRATION.key :> Val("INT64", date)) @@ @]]

-----------------------------------------------------------------------------
(* sparse                                                                  *)

BLOCK == 512

\* Mutant: an empty file has no block for its size.
sparse_enrichEmpty(inode) ==
    IF inode.type # S_IF.f THEN <<>>
    ELSE "sparseness" :> Val("UINT32",
            IF inode.size = 0 THEN 0
            ELSE (BLOCK * inode.blocks * 100) \div inode.size)

sparse_enrich(inode) ==
    IF inode.type # S_IF.f THEN <<>>
    ELSE "sparseness" :> Val("UINT32",
            IF inode.size = 0 THEN 100
            ELSE (BLOCK * inode.blocks * 100) \div inode.size)

sparse2filter == U32("STRICTLY_LOWER", Xattr("sparseness"), 100)

=============================================================================
