------------------------- MODULE MCLinearRefinement -------------------------
(***************************************************************************)
(* Two callers of a two-thread pool whose outputs share a vector, so that  *)
(* a write that leaks out of its call is visible to the other caller.      *)
(***************************************************************************)
EXTENDS LinearRefinement

Req(b, x, n) ==
    [output |-> b, input |-> x, output_size |-> n, input_size |-> 1,
     weight_size |-> n, bias_size |-> 0, input_channels |-> 1,
     output_channels |-> n]

BigA  == Req("b1", "x1", 3)
BigB  == Req("b1", "x2", 2)
Tiny  == Req("b2", "x3", 1)
Short == [Req("b1", "x1", 3) EXCEPT !.weight_size = 2]

MCInputs   == {"x1", "x2", "x3"}
MCBuffers  == {"b1", "b2"}
MCRequests == {BigA, BigB, Tiny, Short}
MCThrowing == {BigA} \X Shards
=============================================================================
