----------------------------- MODULE MCFilters -----------------------------
(* Filters over integers of 5 and 6 bits: sizes on both sides of the       *)
(* largest signed 64-bit integer (31), owners on both sides of the largest *)
(* signed 32-bit one (15), two types (4, 8), two mode bits.                *)
EXTENDS FilterBackends

Regex(string) == Val("REGEX", [string |-> string, options |-> {"SHELL_PATTERN"}])

Sizes == <<0, 1, 31, 32, 63>>
Orders == <<"EQUAL", "STRICTLY_LOWER", "LOWER_OR_EQUAL", "STRICTLY_GREATER",
            "GREATER_OR_EQUAL">>
Bits == <<"BITS_ANY_SET", "BITS_ALL_SET", "BITS_ANY_CLEAR", "BITS_ALL_CLEAR">>

SizeComparisons ==
    [k \in 1..25 |-> CompareNew(Orders[((k - 1) \div 5) + 1], Statx("size"),
                                Val("UINT64", Sizes[((k - 1) % 5) + 1]))]
ModeComparisons ==
    [k \in 1..8 |-> CompareNew(Bits[((k - 1) \div 2) + 1], Statx("mode"),
                               Val("UINT32", <<1, 3>>[((k - 1) % 2) + 1]))]

NameIsA == CompareNew("REGEX", NAME, Regex("a"))
TypeIsFile == CompareNew("EQUAL", Statx("type"), Val("INT32", 8))
HasOwner == ExistsNew(Xattr("owner"))
OwnerIsA == CompareNew("EQUAL", Xattr("owner"), Val("STRING", "a"))
Stripe(op, n) == CompareNew(op, Xattr("stripe"), Val("INT64", n))

MCComparisons ==
    SizeComparisons \o ModeComparisons \o
    <<NameIsA, TypeIsFile, HasOwner, OwnerIsA,
      CompareNew("REGEX", Xattr("owner"), Regex("a")),
      CompareNew("EQUAL", Statx("uid"), Val("UINT64", 3)),
      CompareNew("STRICTLY_LOWER", Statx("uid"), Val("UINT64", 3)),
      CompareNew("STRICTLY_GREATER", Statx("uid"), Val("UINT64", 15)),
      CompareNew("EQUAL", Statx("uid"), Val("UINT64", 17)),
      CompareNew("IN", Xattr("stripe"), Val("SEQUENCE", <<Val("INT64", 5)>>)),
      Stripe("LOWER_OR_EQUAL", 5), Stripe("STRICTLY_GREATER", -1),
      ElemMatch(Xattr("ost"), <<Stripe("GREATER_OR_EQUAL", 1),
                                Stripe("STRICTLY_LOWER", 3)>>)>>

MCOperands ==
    <<CompareNew("STRICTLY_GREATER", Statx("size"), Val("UINT64", 31)),
      NameIsA, FilterNot(NameIsA), FilterOr(TypeIsFile, HasOwner), OwnerIsA>>

Entry(name, type, mode, uid, size) ==
    [name |-> name, type |-> type, mode |-> mode, uid |-> uid, size |-> size]
WithXattrs(entry, owner, stripe, ost) ==
    [k \in DOMAIN entry \cup {"owner", "stripe", "ost"} |->
        CASE k = "owner" -> Val("STRING", owner)
          [] k = "stripe" -> Val("INT64", stripe)
          [] k = "ost" -> Val("SEQUENCE", ost)
          [] OTHER -> entry[k]]

MCEntries ==
    <<Entry("a", 8, 1, 3, 0), Entry("b", 8, 1, 17, 31), Entry("a", 4, 3, 15, 0),
      Entry("b", 8, 3, 2, 30), Entry("a", 4, 0, 0, 32),
      Entry("b", 4, 2, 3, 63),
      WithXattrs(Entry("a", 8, 2, 1, 31), "a", 5, <<Val("INT64", 0)>>),
      WithXattrs(Entry("b", 8, 0, 4, 1), "b", -1,
                 <<Val("INT64", 4), Val("INT64", 2)>>),
      WithXattrs(Entry("b", 4, 3, 3, 29), "a", 6,
                 <<Val("INT64", 0), Val("INT64", 4)>>)>>

=============================================================================
