--------------------------- MODULE MongoDocuments ---------------------------
(***************************************************************************)
(* fsevents as updates of Mongo documents, and fsentries read from them    *)
(* (plugins/mongo: fsevent.c, xattrs.c, value.c, statx.c, projection.c,    *)
(* fsentry.c).                                                             *)
(*                                                                         *)
(* A document is [statx, symlink, xattrs, ns]: statx maps a field to a     *)
(* BSON value, xattrs is a sequence of [key, value] and ns a sequence of   *)
(* [parent, name, xattrs]. What $set, $unset, $inc, $push and $pull do to  *)
(* it is Mongo's part.                                                     *)
(***************************************************************************)
EXTENDS YamlFsevents

CONSTANT BUFSIZE         \* bytes of the buffer of fsentry_from_bson()

ASSUME BufsizeAssumption == BUFSIZE \in Nat

EmptyDocument == [statx |-> <<>>, symlink |-> <<>>, xattrs |-> <<>>, ns |-> <<>>]

-----------------------------------------------------------------------------
(* rbh_value to BSON and back                                              *)

BsonInt(w, n) == [type |-> IF w = W32 THEN "int32" ELSE "int64", v |-> Signed(n, w)]

RECURSIVE bson_append_rbh_value(_)
bson_append_rbh_value(value) ==
    CASE value.type \in {"NIL", "NULL"} -> [type |-> "null"]
      [] value.type \in IntTypes -> BsonInt(WidthOf(value.type), value.v)
      [] value.type = "SEQUENCE" ->
            [type |-> "array",
             v |-> [i \in DOMAIN value.v |-> bson_append_rbh_value(value.v[i])]]
      [] value.type = "MAP" ->
            [type |-> "document",
             v |-> [i \in DOMAIN value.v |->
                      [key |-> value.v[i].key,
                       value |-> bson_append_rbh_value(value.v[i].value)]]]
      [] OTHER -> [type |-> value.type, v |-> value.v]

bson_append_rbh_value_map(pairs) == bson_append_rbh_value(Val("MAP", pairs)).v

\* Bytes of the buffer the maps and the sequences of a BSON value take.
RECURSIVE BsonBytes(_)
BsonBytes(bson) ==
    IF bson.type \notin {"array", "document"} THEN 0
    ELSE LET each == IF bson.type = "array" THEN VALUE ELSE PAIR + VALUE
             inner(x) == IF bson.type = "array" THEN x ELSE x.value
         IN FoldLeft(LAMBDA n, x : n + BsonBytes(inner(x)),
                     Len(bson.v) * each, bson.v)

RECURSIVE bson_iter_rbh_value(_)
\* bson_iter_rbh_value(), bson_iter_rbh_value_sequence(). A regex, which is
\* skipped and counted, is no value of a document here.
bson_iter_rbh_value(bson) ==
    CASE bson.type = "int32" -> Val("INT32", bson.v)
      [] bson.type = "int64" -> Val("INT64", bson.v)
      [] bson.type = "null" -> Val("BINARY", "")
      [] bson.type = "array" ->
            Val("SEQUENCE", [i \in DOMAIN bson.v |-> bson_iter_rbh_value(bson.v[i])])
      [] bson.type = "document" ->
            Val("MAP", [i \in DOMAIN bson.v |->
                          [key |-> bson.v[i].key,
                           value |-> bson_iter_rbh_value(bson.v[i].value)]])
      [] OTHER -> Val(bson.type, bson.v)

bson_iter_rbh_value_map(pairs) ==
    bson_iter_rbh_value([type |-> "document", v |-> pairs]).v

-----------------------------------------------------------------------------
(* statx to BSON and back                                                  *)

\* The width a field is stored in.
FieldWidth(f) ==
    IF f[1] \in Fields64 \cup {"mnt_id"} \/ (Len(f) = 2 /\ f[2] = "sec") THEN W64 ELSE W32

bson_append_statx_field(statx, f) ==
    CASE f[1] = "attributes" ->
            [type |-> "BOOLEAN", v |-> f[2] \in statx.v[<<"attributes">>].set]
      [] f \in {<<"type">>, <<"mode">>} ->
            BsonInt(W32, FromBits(FieldOf(statx, f)))
      [] OTHER -> BsonInt(FieldWidth(f), statx.v[f])

\* bson_append_statx(), bson_append_statx_attributes(): one path per field,
\* one per attribute.
bson_append_statx(statx) ==
    [f \in (statx.mask \ {<<"attributes">>})
             \cup (IF <<"attributes">> \in statx.mask
                   THEN {<<"attributes", a>> : a \in statx.v[<<"attributes">>].mask}
                   ELSE {})
       |-> bson_append_statx_field(statx, f)]

\* bson_iter_statx_attributes()
bson_iter_statx_attributes(fields) ==
    LET names == {f[2] : f \in {g \in DOMAIN fields : g[1] = "attributes"}}
    IN [mask |-> names, set |-> {a \in names : fields[<<"attributes", a>>].v}]

\* bson_iter_statx_timestamp(), bson_iter_statx_device() and the other fields:
\* what is stored, read as the unsigned type of the field but for the seconds.
bson_iter_statx_field(f, bson) ==
    IF Len(f) = 2 /\ f[2] = "sec" THEN bson.v ELSE Unsigned(bson.v, FieldWidth(f))

bson_iter_statx(fields) ==
    LET bits(f) == IF f \in DOMAIN fields THEN BitsOf(fields[f].v, 16) ELSE {}
        stored == {f \in DOMAIN fields : f[1] # "attributes"}
        mode == (bits(<<"type">>) \cap S_IFMT) \cup (bits(<<"mode">>) \ S_IFMT)
        attributes == bson_iter_statx_attributes(fields)
    IN [mask |-> stored \cup (IF stored # DOMAIN fields THEN {<<"attributes">>} ELSE {}),
        v |-> [f \in DOMAIN ZeroStatx.v |->
                 IF f = <<"stx_mode">> THEN mode
                 ELSE IF f = <<"attributes">> THEN attributes
                 ELSE IF f \in stored THEN bson_iter_statx_field(f, fields[f])
                 ELSE 0]]

-----------------------------------------------------------------------------
(* Updates                                                                 *)

\* Mongo: a path set, unset or incremented in a document of pairs.
SetKey(pairs, key, bson) ==
    LET at == {i \in DOMAIN pairs : pairs[i].key = key}
    IN IF at = {} THEN Append(pairs, [key |-> key, value |-> bson])
       ELSE [i \in DOMAIN pairs |->
               IF i \in at THEN [key |-> key, value |-> bson] ELSE pairs[i]]
UnsetKey(pairs, key) == SelectSeq(pairs, LAMBDA p : p.key # key)
BsonKey(pairs, key) ==
    LET at == {i \in DOMAIN pairs : pairs[i].key = key}
    IN IF at = {} THEN [type |-> "missing"]
       ELSE pairs[CHOOSE i \in at : TRUE].value
IncKey(pairs, key, bson) ==
    LET old == BsonKey(pairs, key)
    IN SetKey(pairs, key,
              IF old.type = "missing" THEN bson ELSE [bson EXCEPT !.v = @ + old.v])

\* Always the new count.
make_cond_bsonAlways(old, ts) == TRUE

\* make_cond_bson(): a newer count, or one as recent as a count that is not
\* final. Mongo orders a missing field before every number.
make_cond_bson(old, ts) ==
    \/ old.type = "missing"
    \/ LET timestamp == BsonKey(old.v, "timestamp").v
       IN \/ ts > timestamp
          \/ /\ ts = timestamp
             /\ ~BsonKey(old.v, "final").v

bson_append_set_nb_children(pairs, value) ==
    IF make_cond_bson(BsonKey(pairs, "nb_children"), FindKey(value.v, "timestamp").v)
    THEN SetKey(pairs, "nb_children", bson_append_rbh_value(value))
    ELSE pairs

\* bson_append_xattrs() for { "xattr": { "op": value } }: the first letter of
\* the operator counts.
bson_append_xattrs(pairs, xattrs) ==
    LET apply(acc, xattr) ==
            LET op == xattr.value.v[1]
            IN CASE op.key = "set" /\ xattr.key = "nb_children" ->
                       bson_append_set_nb_children(acc, op.value)
                 [] op.key = "set" ->
                       SetKey(acc, xattr.key, bson_append_rbh_value(op.value))
                 [] op.key = "unset" -> UnsetKey(acc, xattr.key)
                 [] op.key = "inc" ->
                       IncKey(acc, xattr.key, bson_append_rbh_value(op.value))
    IN FoldLeft(apply, pairs, xattrs)

\* Mongo: $set of a pipeline adds the keys of a map to those of the map it
\* finds. The count of children comes from a $cond, whose result is set whole.
SetStage(pairs, xattrs) ==
    LET merged(key, bson) ==
            LET old == BsonKey(pairs, key)
            IN IF bson.type # "document" \/ old.type # "document" THEN bson
               ELSE [bson EXCEPT !.v = FoldLeft(LAMBDA acc, p : SetKey(acc, p.key, p.value),
                                                old.v, @)]
        apply(acc, xattr) ==
            IF xattr.key = "nb_children" THEN bson_append_xattrs(acc, <<xattr>>)
            ELSE SetKey(acc, xattr.key,
                        merged(xattr.key, bson_append_rbh_value(xattr.value.v[1].value)))
    IN FoldLeft(apply, pairs, xattrs)

\* The update of an upsert is the one stage of a pipeline: PipelineFails says
\* when it is not one of $set alone.
bson_from_upsert(d, e) ==
    [d EXCEPT
        !.statx = IF e.statx = <<>> THEN @ ELSE bson_append_statx(e.statx[1]) @@ @,
        !.symlink = IF e.symlink = <<>> THEN @ ELSE e.symlink,
        !.xattrs = SetStage(@, e.xattrs)]

IsLink(link, ns) == link.parent = ns.parent /\ link.name = ns.name

bson_from_link(d, e) ==
    [d EXCEPT !.ns = Append(@, [parent |-> e.ns[1].parent, name |-> e.ns[1].name,
                                xattrs |-> bson_append_rbh_value_map(e.xattrs)])]
bson_from_unlink(d, e) ==
    [d EXCEPT !.ns = SelectSeq(@, LAMBDA link : ~IsLink(link, e.ns[1]))]
bson_from_inode_xattrs(d, e) ==
    [d EXCEPT !.xattrs = bson_append_xattrs(@, e.xattrs)]
bson_from_ns_xattrs(d, e) ==
    LET at == CHOOSE i \in DOMAIN d.ns :
                 /\ IsLink(d.ns[i], e.ns[1])
                 /\ \A j \in 1..(i - 1) : ~IsLink(d.ns[j], e.ns[1])
    IN [d EXCEPT !.ns[at].xattrs = bson_append_xattrs(@, e.xattrs)]

\* _bson_from_xattrs() refuses an update with nothing in it.
UpdateFails(e) ==
    \/ e.type = "UPSERT" /\ e.xattrs = <<>> /\ e.symlink = <<>>
         /\ (e.statx = <<>> \/ DOMAIN bson_append_statx(e.statx[1]) = {})
    \/ e.type = "XATTR" /\ e.xattrs = <<>>

\* Mongo: a stage has one operator, $inc is no stage and $unset takes names
\* where bson_from_upsert() gives it a document.
PipelineFails(e) ==
    e.type = "UPSERT"
      /\ \E i \in DOMAIN e.xattrs : e.xattrs[i].value.v[1].key # "set"

\* bson_selector_from_fsevent()
Selects(d, e) ==
    e.type = "XATTR" /\ e.ns # <<>> =>
        \E i \in DOMAIN d.ns : IsLink(d.ns[i], e.ns[1])

\* mongo_bulk_append_fsevent(): documents is a function on the ids in the
\* collection. A link is an unlink and a link; a link and an upsert create
\* the document.
mongo_update(documents, e) ==
    LET d == IF e.id \in DOMAIN documents THEN documents[e.id] ELSE EmptyDocument
        put(new) == (e.id :> new) @@ documents
    IN CASE e.type = "UPSERT" -> put(bson_from_upsert(d, e))
         [] e.type = "LINK" -> put(bson_from_link(bson_from_unlink(d, e), e))
         [] e.id \notin DOMAIN documents -> documents
         [] e.type = "DELETE" ->
               [id \in DOMAIN documents \ {e.id} |-> documents[id]]
         [] e.type = "UNLINK" -> put(bson_from_unlink(d, e))
         [] e.type = "XATTR" ->
               IF ~Selects(d, e) THEN documents
               ELSE IF e.ns = <<>> THEN put(bson_from_inode_xattrs(d, e))
               ELSE put(bson_from_ns_xattrs(d, e))

-----------------------------------------------------------------------------
(* Reads: one fsentry per link                                             *)

\* A projection is [parts, statx, xattrs]: the RBH_FP_* fields, the statx mask
\* and the names of the inode xattrs, none of them for all.
bson_append_statx_projection(fields, mask) ==
    [f \in {g \in DOMAIN fields :
              g \in mask \/ (g[1] = "attributes" /\ <<"attributes">> \in mask)}
       |-> fields[f]]

bson_append_xattrs_projection(pairs, names) ==
    IF names = {} THEN pairs ELSE SelectSeq(pairs, LAMBDA p : p.key \in names)

\* bson_append_fot_projection(), of the document of one link.
bson_append_fot_projection(d, link, p) ==
    [statx |-> IF "statx" \in p.parts
               THEN bson_append_statx_projection(d.statx, p.statx) ELSE <<>>,
     symlink |-> IF "symlink" \in p.parts THEN d.symlink ELSE <<>>,
     xattrs |-> IF "xattrs" \in p.parts
                THEN bson_append_xattrs_projection(d.xattrs, p.xattrs) ELSE <<>>,
     ns |-> IF "ns" \in p.parts THEN <<link>> ELSE <<>>]

\* Whether the type was read is not asked.
NotSymlinkUnmasked(statx) == FieldOf(statx, <<"type">>) # FileTypes.link

\* rbh_fsentry_new(): an entry whose type was read and is not a symlink's.
NotSymlink(statx) ==
    <<"type">> \in statx.mask /\ FieldOf(statx, <<"type">>) # FileTypes.link

\* fsentry_from_bson() and bson_iter_fsentry(), bson_iter_namespace(): no
\* fsentry when the buffer is too short, or when rbh_fsentry_new() is given a
\* symlink for an entry of another type.
fsentry_from_bson(d) ==
    LET maps == [type |-> "document",
                 v |-> d.xattrs \o (IF d.ns = <<>> THEN <<>> ELSE d.ns[1].xattrs)]
        statx == bson_iter_statx(d.statx)
    IN IF BsonBytes(maps) > BUFSIZE THEN Fail
       ELSE IF d.symlink # <<>> /\ NotSymlink(statx) THEN Fail
       ELSE Ok([statx |-> statx, symlink |-> d.symlink,
                xattrs |-> bson_iter_rbh_value_map(d.xattrs),
                ns |-> IF d.ns = <<>> THEN <<>>
                       ELSE <<[parent |-> d.ns[1].parent, name |-> d.ns[1].name,
                               xattrs |-> bson_iter_rbh_value_map(d.ns[1].xattrs)]>>])

=============================================================================
