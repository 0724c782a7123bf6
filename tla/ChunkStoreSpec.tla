--------------------------- MODULE ChunkStoreSpec ---------------------------
(***************************************************************************)
(* What the compressor promises of its chunk store, whatever threads and   *)
(* queues it is built with: chunks are stored one after the other, and     *)
(* each is classified by the chunks stored before it and by nothing else.  *)
(*                                                                         *)
(*   duplicate   its content was stored before; base is the first such     *)
(*   delta       some base chunk is similar; base is one of these          *)
(*   base        neither; the chunk is its own base                        *)
(***************************************************************************)
EXTENDS Naturals, Sequences, FiniteSetsExt

CONSTANTS Contents,     \* what a chunk can contain
          Similar,      \* pairs of contents the feature index matches
          Deduplicate   \* whether duplicates are looked for

VARIABLES input,        \* contents of the chunks stored so far
          records       \* class and base id of each, ids counting from 0

Before(c) == {i \in 1..Len(input) : input[i] = c}

SimilarBases(c) ==
  {i \in 1..Len(input) : records[i].type = "base" /\ <<c, input[i]>> \in Similar}

Records(c) ==
  IF Deduplicate /\ Before(c) # {}
    THEN {[type |-> "duplicate", base |-> Min(Before(c)) - 1]}
  ELSE IF SimilarBases(c) # {}
    THEN {[type |-> "delta", base |-> i - 1] : i \in SimilarBases(c)}
  ELSE {[type |-> "base", base |-> Len(input)]}

Init == input = <<>> /\ records = <<>>

Store(c) ==
  /\ input' = Append(input, c)
  /\ \E r \in Records(c) : records' = Append(records, r)

Next == \E c \in Contents : Store(c)

Spec == Init /\ [][Next]_<<input, records>>
=============================================================================
