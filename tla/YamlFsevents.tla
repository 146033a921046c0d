---------------------------- MODULE YamlFsevents ----------------------------
(***************************************************************************)
(* The fsevents of serialization.c as YAML documents: emit_fsevent() and   *)
(* parse_fsevent(), with the statx of an upsert. The reader keeps one      *)
(* statx for all the upserts it reads, statxbuf, a static variable of      *)
(* parse_upsert().                                                         *)
(***************************************************************************)
EXTENDS Serialization

S_IFMT == 12..15                  \* bits of stx_mode
MODE_BITS == 0..15

FileTypes == [socket |-> {14, 15}, link |-> {13, 15}, file |-> {15},
              blockdev |-> {13, 14}, directory |-> {14}, chardev |-> {13},
              fifo |-> {12}]

Attributes == {"compressed", "immutable", "append", "nodump", "encrypted",
               "automount", "mount-root", "verity", "dax"}

Times == {"atime", "mtime", "ctime", "btime"}
Devices == {"rdev", "dev"}
Parts(key) == IF key \in Times THEN {"sec", "nsec"} ELSE {"major", "minor"}
Fields32 == {"nlink", "uid", "gid", "blksize"}
Fields64 == {"ino", "size", "blocks"}

\* The keys of a statx, in the order emit_statx() writes them: the id of the
\* mount, which a statx may have (merge_statx()), is not one of them.
StatxKeys == <<"type", "mode", "nlink", "uid", "gid", "atime", "mtime",
               "ctime", "ino", "size", "blocks", "btime", "blksize",
               "attributes", "rdev", "dev">>

StatxFields ==
    {<<key>> : key \in ToSet(StatxKeys) \ (Times \cup Devices)}
      \cup {<<key, part>> : key \in Times, part \in {"sec", "nsec"}}
      \cup {<<key, part>> : key \in Devices, part \in {"major", "minor"}}
      \cup {<<"mnt_id">>}

\* A struct rbh_statx of zeroes.
ZeroStatx ==
    [mask |-> {},
     v |-> [f \in (StatxFields \ {<<"type">>, <<"mode">>}) \cup {<<"stx_mode">>} |->
              IF f = <<"stx_mode">> THEN {}
              ELSE IF f = <<"attributes">> THEN [mask |-> {}, set |-> {}] ELSE 0]]

\* What a field of a statx holds.
FieldOf(statx, f) ==
    CASE f = <<"type">> -> statx.v[<<"stx_mode">>] \cap S_IFMT
      [] f = <<"mode">> -> statx.v[<<"stx_mode">>] \ S_IFMT
      [] f = <<"attributes">> ->
            [mask |-> statx.v[f].mask,
             set |-> statx.v[f].set \cap statx.v[f].mask]
      [] OTHER -> statx.v[f]

FromBits(bits) == FoldSet(LAMBDA b, n : n + 2^b, 0, bits)

-----------------------------------------------------------------------------
(* emit_statx()                                                            *)

emit_filetype(bits) ==
    Text("", CHOOSE name \in DOMAIN FileTypes : FileTypes[name] = bits)

emit_statx_attributes(attributes) ==
    LET names == SetToSeq(attributes.mask)
    IN Mapping("", [i \in DOMAIN names |->
                      Pair(names[i], Boolean(names[i] \in attributes.set))])

\* emit_statx_timestamp(), emit_device_number(): the parts that are set.
emit_parts(statx, key) ==
    LET parts == SetToSeq({f \in statx.mask : f[1] = key})
    IN Mapping("", [i \in DOMAIN parts |->
                      Pair(parts[i][2], Number("", statx.v[parts[i]]))])

emit_statx_field(statx, key) ==
    CASE key = "type" -> emit_filetype(FieldOf(statx, <<"type">>))
      [] key = "mode" ->
            emit_octal_unsigned_integer(FromBits(FieldOf(statx, <<"mode">>)))
      [] key = "attributes" -> emit_statx_attributes(statx.v[<<key>>])
      [] key \in Times \cup Devices -> emit_parts(statx, key)
      [] OTHER -> Number("", statx.v[<<key>>])

emit_statx(statx) ==
    LET keys == SelectSeq(StatxKeys,
                          LAMBDA key : \E f \in statx.mask : f[1] = key)
    IN Mapping("", [i \in DOMAIN keys |->
                      Pair(keys[i], emit_statx_field(statx, keys[i]))])

-----------------------------------------------------------------------------
(* parse_statx()                                                           *)

parse_filetype(node) ==
    LET name == parse_string(node)
    IN IF name = Fail THEN Fail
       ELSE IF name[1] \in DOMAIN FileTypes THEN Ok(FileTypes[name[1]])
       ELSE Fail

\* parse_permissions(): anything that fits 16 bits.
parse_permissions(node) ==
    LET u == parse_uint(node, "", W64)
    IN IF u = Fail \/ u[1] >= 2^16 THEN Fail ELSE Ok(BitsOf(u[1], 16))

\* parse_statx_attributes(): the mask starts from zero, the attributes do not.
parse_statx_attributes(node, old) ==
    IF node.kind # "mapping" THEN Fail
    ELSE LET bools == [i \in DOMAIN node.pairs |->
                         IF node.pairs[i].key \in Attributes
                         THEN parse_boolean(node.pairs[i].node) ELSE Fail]
             mask == {node.pairs[i].key : i \in DOMAIN node.pairs}
             on == {node.pairs[i].key : i \in {j \in DOMAIN bools :
                                                  bools[j] = Ok(TRUE)}}
         IN IF \E i \in DOMAIN bools : bools[i] = Fail THEN Fail
            ELSE Ok([mask |-> mask, set |-> (old.set \ mask) \cup on])

\* parse_statx_timestamp(), parse_device_numbers(): one part at a time.
parse_part(buf, key, pair) ==
    LET n == IF pair.key = "sec" THEN parse_int(pair.node, "!int64", W64)
             ELSE parse_uint(pair.node, "!uint32", W32)
    IN IF pair.key \notin Parts(key) \/ n = Fail THEN Fail
       ELSE Ok([mask |-> buf.mask \cup {<<key, pair.key>>},
                v |-> [buf.v EXCEPT ![<<key, pair.key>>] = n[1]]])

parse_parts(buf, key, node) ==
    IF node.kind # "mapping" THEN Fail
    ELSE FoldLeft(LAMBDA b, pair : IF b = Fail THEN Fail
                                  ELSE parse_part(b[1], key, pair),
                 Ok(buf), node.pairs)

\* One key of parse_statx_mapping(). The mask has the field even when its
\* value cannot be read; the type and the permissions are added to stx_mode.
parse_statx_field(buf, key, node) ==
    LET set(f, parsed, g) ==
            IF parsed = Fail THEN Fail
            ELSE Ok([mask |-> buf.mask \cup {f},
                     v |-> [buf.v EXCEPT ![g] = parsed[1]]])
        add(f, bits) ==
            set(f, IF bits = Fail THEN Fail
                   ELSE Ok(buf.v[<<"stx_mode">>] \cup bits[1]), <<"stx_mode">>)
    IN CASE key = "type" -> add(<<key>>, parse_filetype(node))
         [] key = "mode" -> add(<<key>>, parse_permissions(node))
         [] key = "attributes" ->
               set(<<key>>, parse_statx_attributes(node, buf.v[<<key>>]), <<key>>)
         [] key \in Times \cup Devices -> parse_parts(buf, key, node)
         [] key \in Fields32 ->
               set(<<key>>, parse_uint(node, "!uint32", W32), <<key>>)
         [] key \in Fields64 ->
               set(<<key>>, parse_uint(node, "!uint64", W64), <<key>>)
         [] OTHER -> Fail

\* The mode is kept from the last statx.
StatxBufKeptMode(statxbuf) == statxbuf

\* parse_statx_mapping() clears stx_mode, and not stx_mask, before it reads.
StatxBuf(statxbuf) == [statxbuf EXCEPT !.v[<<"stx_mode">>] = {}]

parse_statx(statxbuf, node) ==
    IF node.kind # "mapping" THEN Fail
    ELSE FoldLeft(LAMBDA b, pair : IF b = Fail THEN Fail
                                  ELSE parse_statx_field(b[1], pair.key, pair.node),
                 Ok(StatxBuf(statxbuf)), node.pairs)

-----------------------------------------------------------------------------
(* fsevents                                                                *)

Event(type, id, xattrs, statx, symlink, ns) ==
    [type |-> type, id |-> id, xattrs |-> xattrs, statx |-> statx,
     symlink |-> symlink, ns |-> ns]

\* memset(fsevent, 0) of the source.
ZeroEvent == Event("", "", <<>>, <<>>, <<>>, <<>>)

Id(id) == Text("!!binary", id)
emit_id(e) == <<Pair("id", Id(e.id))>>
emit_xattrs(e) == <<Pair("xattrs", emit_rbh_value_map(e.xattrs))>>
emit_ns(e) == <<Pair("parent", Id(e.ns[1].parent)),
                Pair("name", Text("", e.ns[1].name))>>

emit_upsert(e) ==
    emit_id(e) \o emit_xattrs(e)
      \o [i \in DOMAIN e.statx |-> Pair("statx", emit_statx(e.statx[i]))]
      \o [i \in DOMAIN e.symlink |-> Pair("symlink", Text("", e.symlink[i]))]
emit_link(e) == emit_id(e) \o emit_xattrs(e) \o emit_ns(e)
emit_unlink(e) == emit_id(e) \o emit_ns(e)
emit_inode_xattr(e) == emit_id(e) \o emit_xattrs(e)

\* emit_fsevent(), emit_xattr()
emit_fsevent(e) ==
    CASE e.type = "UPSERT" -> Mapping("!upsert", emit_upsert(e))
      [] e.type = "LINK" -> Mapping("!link", emit_link(e))
      [] e.type = "UNLINK" -> Mapping("!unlink", emit_unlink(e))
      [] e.type = "DELETE" -> Mapping("!delete", emit_id(e))
      [] e.type = "XATTR" ->
            IF e.ns # <<>> THEN Mapping("!ns_xattr", emit_link(e))
            ELSE Mapping("!inode_xattr", emit_inode_xattr(e))

\* A reader is [e, seen, statxbuf]: the fsevent so far, the keys seen and the
\* static statx.
Seen(r, key) == [r EXCEPT !.seen = @ \cup {key}]

parse_id_field(r, node) ==
    LET id == parse_id(node)
    IN IF id = Fail THEN Fail ELSE Ok([Seen(r, "id") EXCEPT !.e.id = id[1]])

parse_xattrs_field(r, node) ==
    LET xattrs == parse_rbh_value_map(node)
    IN IF xattrs = Fail THEN Fail ELSE Ok([r EXCEPT !.e.xattrs = xattrs[1]])

parse_upsert_field(r, key, node) ==
    LET statx == parse_statx(r.statxbuf, node)
        symlink == parse_string(node)
    IN CASE key = "id" -> parse_id_field(r, node)
         [] key = "xattrs" -> parse_xattrs_field(r, node)
         [] key = "statx" ->
               IF statx = Fail THEN Fail
               ELSE Ok([r EXCEPT !.statxbuf = statx[1], !.e.statx = statx])
         [] key = "symlink" ->
               IF symlink = Fail THEN Fail ELSE Ok([r EXCEPT !.e.symlink = symlink])
         [] OTHER -> Fail

\* The parent or the name of a link.
parse_ns_field(r, key, node) ==
    LET text == IF key = "parent" THEN parse_id(node) ELSE parse_string(node)
        old == IF r.e.ns = <<>> THEN [parent |-> "", name |-> ""] ELSE r.e.ns[1]
    IN IF text = Fail THEN Fail
       ELSE Ok([Seen(r, key) EXCEPT !.e.ns = <<[old EXCEPT ![key] = text[1]]>>])

\* parse_link(), parse_ns_xattr(), and parse_unlink(), which skips xattrs.
parse_link_field(r, key, node) ==
    CASE key = "id" -> parse_id_field(r, node)
      [] key = "xattrs" ->
            IF r.e.type = "UNLINK" THEN Ok(r) ELSE parse_xattrs_field(r, node)
      [] key \in {"parent", "name"} -> parse_ns_field(r, key, node)
      [] OTHER -> Fail

parse_inode_xattr_field(r, key, node) ==
    CASE key = "id" -> parse_id_field(r, node)
      [] key = "xattrs" -> parse_xattrs_field(r, node)
      [] OTHER -> Fail

parse_delete_field(r, key, node) ==
    IF key = "id" THEN parse_id_field(r, node) ELSE Fail

FseventTypes == ("!upsert" :> "UPSERT") @@ ("!delete" :> "DELETE")
                  @@ ("!link" :> "LINK") @@ ("!unlink" :> "UNLINK")
                  @@ ("!ns_xattr" :> "XATTR") @@ ("!inode_xattr" :> "XATTR")

\* Only the id is asked for.
RequiredKeysId(tag) == {"id"}

RequiredKeys(tag) ==
    IF tag \in {"!link", "!unlink", "!ns_xattr"} THEN {"id", "parent", "name"}
    ELSE {"id"}

\* parse_fsevent(): the reader after the document, or a failure.
parse_fsevent(statxbuf, doc) ==
    LET tag == doc.tag
        field(r, key, node) ==
            CASE tag = "!upsert" -> parse_upsert_field(r, key, node)
              [] tag = "!delete" -> parse_delete_field(r, key, node)
              [] tag = "!inode_xattr" -> parse_inode_xattr_field(r, key, node)
              [] OTHER -> parse_link_field(r, key, node)
        r0 == [e |-> [ZeroEvent EXCEPT !.type = FseventTypes[tag]],
               seen |-> {}, statxbuf |-> statxbuf]
        r == FoldLeft(LAMBDA acc, pair : IF acc = Fail THEN Fail
                                        ELSE field(acc[1], pair.key, pair.node),
                     Ok(r0), doc.pairs)
    IN IF doc.kind # "mapping" \/ tag \notin DOMAIN FseventTypes THEN Fail
       ELSE IF r = Fail THEN Fail
       ELSE IF RequiredKeys(tag) \subseteq r[1].seen THEN r ELSE Fail

=============================================================================
