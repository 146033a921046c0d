-------------------------------- MODULE Acl ---------------------------------
(***************************************************************************)
(* The acl extension of the posix plugin: what the enricher stores of the  *)
(* POSIX ACLs of an inode and the predicates of rbh-find about them.       *)
(*                                                                         *)
(* An ACL xattr is a sequence of [tag, id, perms], perms a number on three *)
(* bits; an inode has the xattrs "access" and "default", empty when they   *)
(* are not set. Maps of maps are stored under dotted keys, as a query      *)
(* names them.                                                             *)
(***************************************************************************)
EXTENDS Predicates

Tags == {"USER_OBJ", "USER", "GROUP_OBJ", "GROUP", "MASK", "OTHER"}

Tagged(acl, tag) == SelectSeq(acl, LAMBDA e : e.tag = tag)
Perms(acl, tag) == Last(Tagged(acl, tag)).perms

\* acl_xattr_parse() returns 0
AclValid(acl) ==
    /\ \A i \in DOMAIN acl : acl[i].tag \in Tags
    /\ \A tag \in {"USER_OBJ", "GROUP_OBJ", "OTHER"} : Tagged(acl, tag) # <<>>

\* fill_named_entry() and fill_named_entries()
NamedEntries(acl, tag) ==
    LET named == Tagged(acl, tag)
    IN Val("SEQUENCE",
           [i \in DOMAIN named |->
               Val("MAP", <<[key |-> "id", value |-> Val("UINT32", named[i].id)],
                            [key |-> "p",
                             value |-> Val("UINT32", named[i].perms)]>>)])

NamedFields(acl, users, groups) ==
    (IF Tagged(acl, "USER") = <<>> THEN <<>>
     ELSE users :> NamedEntries(acl, "USER"))
      @@ (IF Tagged(acl, "GROUP") = <<>> THEN <<>>
          ELSE groups :> NamedEntries(acl, "GROUP"))

\* The owner, mask and other permissions of the access ACL are those of the
\* mode, so only the owning group's is stored.
fill_access_acl(acl) ==
    ("acl.access.group" :> Val("UINT32", Perms(acl, "GROUP_OBJ")))
      @@ NamedFields(acl, "acl.access.users", "acl.access.groups")

fill_default_acl(acl) ==
    ("acl.default.owner" :> Val("UINT32", Perms(acl, "USER_OBJ")))
      @@ ("acl.default.group" :> Val("UINT32", Perms(acl, "GROUP_OBJ")))
      @@ ("acl.default.other" :> Val("UINT32", Perms(acl, "OTHER")))
      @@ (IF Tagged(acl, "MASK") = <<>> THEN <<>>
          ELSE "acl.default.mask" :> Val("UINT32", Perms(acl, "MASK")))
      @@ NamedFields(acl, "acl.default.users", "acl.default.groups")

\* rbh_acl_enrich(): an ACL that cannot be parsed fails the whole enrichment.
acl_enrich(inode) ==
    IF \E acl \in {inode.access, inode.default} : acl # <<>> /\ ~AclValid(acl)
    THEN [rc |-> -1, xattrs |-> <<>>]
    ELSE [rc |-> IF inode.access = <<>> /\ inode.default = <<>> THEN 0 ELSE 1,
          xattrs |->
            (IF inode.access = <<>> THEN <<>> ELSE fill_access_acl(inode.access))
              @@ (IF inode.default = <<>> THEN <<>>
                  ELSE fill_default_acl(inode.default))]

-----------------------------------------------------------------------------
(* The predicates. A subject is [uid, gids]; perms is -1 for any.          *)

AnyPerms == -1

acl_named_entry2filter(key, id, perms) ==
    ElemMatch(Xattr(key),
        <<U32("EQUAL", Xattr("id"), id)>>
          \o (IF perms < 0 THEN <<>>
              ELSE <<U32("BITS_ALL_SET", Xattr("p"), perms)>>))

posix_id2filter(key, id) ==
    numeric2filter(Statx(key), [sign |-> "", n |-> id], "EQUAL")

\* mode2filter() of the extension: -perm -0BIT
acl_mode2filter(bit) ==
    mode2filter([match |-> "-",
                 clauses |-> <<[who |-> {},
                                actions |-> <<[op |-> "=", what |-> "octal",
                                               v |-> {bit}]>>]>>])

acl_groups2filter(subject, named, perms) ==
    LET current(gid) ==
            IF named THEN acl_named_entry2filter("acl.access.groups", gid, perms)
            ELSE posix_id2filter("gid", gid)
    IN FoldLeft(LAMBDA f, gid : FilterOr(f, current(gid)),
                current(Head(subject.gids)), Tail(subject.gids))

owner2filter(subject, letter) ==
    FilterAnd(posix_id2filter("uid", subject.uid),
              acl_mode2filter(SHIFT.u + RWX[letter]))

group_match2filter(subject, perms) ==
    LET owning == acl_groups2filter(subject, FALSE, AnyPerms)
        group == Xattr("acl.access.group")
    IN FilterOr(
         IF perms < 0 THEN owning
         ELSE FilterAnd(owning,
                  FilterOr(FilterNot(ExistsNew(group)),
                           U32("BITS_ALL_SET", group, perms))),
         acl_groups2filter(subject, TRUE, perms))

named_user2filter(subject, letter) ==
    FilterAnd(FilterNot(posix_id2filter("uid", subject.uid)),
        FilterAnd(acl_named_entry2filter("acl.access.users", subject.uid,
                                         2^RWX[letter]),
                  acl_mode2filter(SHIFT.g + RWX[letter])))

\* Mutant: a named user entry does not hide the groups.
group2filterAlways(subject, letter) ==
    FilterAnd(FilterNot(posix_id2filter("uid", subject.uid)),
        FilterAnd(group_match2filter(subject, 2^RWX[letter]),
                  acl_mode2filter(SHIFT.g + RWX[letter])))

group2filter(subject, letter) ==
    FilterAnd(
        FilterNot(FilterOr(posix_id2filter("uid", subject.uid),
                           acl_named_entry2filter("acl.access.users",
                                                  subject.uid, AnyPerms))),
        FilterAnd(group_match2filter(subject, 2^RWX[letter]),
                  acl_mode2filter(SHIFT.g + RWX[letter])))

other2filter(subject, letter) ==
    FilterAnd(
        FilterNot(FilterOr(
            FilterOr(posix_id2filter("uid", subject.uid),
                     acl_named_entry2filter("acl.access.users", subject.uid,
                                            AnyPerms)),
            group_match2filter(subject, AnyPerms))),
        acl_mode2filter(SHIFT.o + RWX[letter]))

acl_access2filter(subject, letter) ==
    FilterOr(FilterOr(FilterOr(owner2filter(subject, letter),
                               named_user2filter(subject, letter)),
                      group2filter(subject, letter)),
             other2filter(subject, letter))

\* rbh_acl_build_filter(): a name is a subject of the user database
acl_build_filter(p) ==
    CASE p.name = "acl-user" ->
            acl_named_entry2filter("acl.access.users", p.id, p.perms)
      [] p.name = "acl-group" ->
            acl_named_entry2filter("acl.access.groups", p.id, p.perms)
      [] p.name = "acl-default-user" ->
            acl_named_entry2filter("acl.default.users", p.id, p.perms)
      [] p.name = "acl-default-group" ->
            acl_named_entry2filter("acl.default.groups", p.id, p.perms)
      [] p.name = "readable" -> acl_access2filter(p.subject, "r")
      [] p.name = "writable" -> acl_access2filter(p.subject, "w")
      [] p.name = "executable" -> acl_access2filter(p.subject, "x")

=============================================================================
