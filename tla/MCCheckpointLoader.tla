------------------------- MODULE MCCheckpointLoader -------------------------
(***************************************************************************)
(* Small dimensions, and a size_t in which the layout of the larger models *)
(* overflows in a tensor, in the total, in bytes or in none of them.  The  *)
(* files have the sizes at which the loader's decisions change, those      *)
(* included that a wrapped computation would ask for.                      *)
(***************************************************************************)
EXTENDS CheckpointLoader

MCHeaders ==
    [magic : {TRUE}, version : {1, 3}, max_sequence_length : {2},
     vocabulary_size : {1, 3}, num_layers : {1, 4, 5}, num_heads : {1, 2},
     channels : {1, 2, 3}, padded_vocabulary_size : {2}]
    \cup
    [magic : BOOLEAN, version : {1, 2}, max_sequence_length : {1},
     vocabulary_size : {0, 1}, num_layers : {1}, num_heads : {1},
     channels : {1, 200}, padded_vocabulary_size : {1}]

\* The number of parameters, as an integer.
Parameters(c) ==
    LET C == c.channels
    IN  (c.padded_vocabulary_size + c.max_sequence_length + 2) * C
        + c.num_layers * (12 * C * C + 13 * C)

\* The size a loader that wraps would demand; the right one if nothing wraps.
Fitting(h) == SizeT(HeaderBytes + SizeT(FloatBytes * Parameters(ConfigOf(h))))

MCFileSizes ==
    {HeaderBytes - 1, HeaderBytes} \cup
    {Fitting(h) : h \in {x \in MCHeaders : x.vocabulary_size = 3 /\ x.channels = 1}} \cup
    {Fitting(h) : h \in {x \in MCHeaders : x.vocabulary_size = 3 /\ x.channels = 2
                                           /\ x.num_layers = 1}}
=============================================================================
