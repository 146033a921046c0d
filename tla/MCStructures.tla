--------------------------- MODULE MCStructures ---------------------------
(* Bounds for Structures.                                                  *)
EXTENDS Structures

MCChains == {<<<<1, 0, 2>>, <<3, 0, 4>>, "array">>, <<<<>>, <<1, 2, 3, 4>>, "list">>,
             <<<<1, 2, 0>>, <<3>>, "list">>, <<<<>>, <<>>, "array">>}
MCChunkSize == {1, 2, 3}

\* Nine entries: 1 is the root, a chain of directories and two wide ones.
Tree(parent, dirs, matching, idsize) ==
    [parent |-> parent, dirs |-> dirs, matching |-> matching, idsize |-> idsize]
Same(n) == [e \in 1 .. 9 |-> n]
Mixed == <<2, 4, 2, 4, 2, 2, 4, 2, 2>>
Wide == <<1, 1, 1, 1, 1, 2, 2, 3, 4>>
Deep == <<1, 1, 2, 3, 4, 5, 5, 1, 8>>

MCTrees ==
    {Tree(Wide, 2 .. 7, 1 .. 9, Same(2)), Tree(Deep, 2 .. 9, {1, 3, 7, 9}, Same(2)),
     Tree(Wide, 2 .. 8, 2 .. 9, Mixed), Tree(Deep, {2, 3, 4, 5, 8}, 1 .. 9, Mixed)}

\* Room for 2 to 6 small ids and for 2 or 4 values: one ring or the other
\* fills up first.  Neither is ever full to the last byte, as the ring of
\* 2^14 bytes is not with values of 24 bytes.
MCRingSizes == {<<7, 5>>, <<7, 9>>, <<5, 9>>, <<13, 5>>}
=============================================================================
