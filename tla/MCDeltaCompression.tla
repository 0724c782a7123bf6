------------------------- MODULE MCDeltaCompression -------------------------
(* Groups of two.  The files are such that a base has no delta chunk, fewer *)
(* than two, two, and more than two, that the deltas of a base are spread   *)
(* over files, and that a file ends with a base or has no chunk at all.     *)
EXTENDS DeltaCompression

a == <<1>>
b == <<2, 2>>
c == <<3, 3, 3>>

MCContents == {a, b, c}

MCSimilar == {<<x, y>> \in MCContents \X MCContents :
                x = y \/ {x, y} = {a, b} \/ {x, y} = {b, c}}

MCFiles == {<<>>, <<a, b, a>>, <<b, c>>, <<c, a, a, b>>}
=============================================================================
