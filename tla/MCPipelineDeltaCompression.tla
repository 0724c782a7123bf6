--------------------- MODULE MCPipelineDeltaCompression ---------------------
(* Five contents with a similarity that is not transitive, so that bases,   *)
(* deltas with one and with two candidates, and duplicates within a file    *)
(* and across files all occur.  The lengths differ, so that offsets do not  *)
(* coincide by chance, and the cache has room for one larger base only, so  *)
(* that a base is evicted and fetched again.  The longest chunk does not    *)
(* fit the length field of a record.                                        *)
EXTENDS PipelineDeltaCompression

a == <<1>>
b == <<2, 2>>
c == <<3, 3, 3>>
d == <<4>>
e == <<5, 5>>

MCContents == {a, b, c, d, e}

MCSimilar == {<<x, y>> \in MCContents \X MCContents :
                x = y \/ {x, y} \in {{a, b}, {b, c}, {a, d}, {a, e}, {c, e}}}

MCFiles == {<<a, b, a>>, <<c, b, d>>, <<e>>}
=============================================================================
