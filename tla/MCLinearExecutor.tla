-------------------------- MODULE MCLinearExecutor --------------------------
(***************************************************************************)
(* Small instances of LinearExecutor for TLC.  With MinWeight = 1 a job is *)
(* run in parallel as soon as it has a channel and a weight per thread.    *)
(***************************************************************************)
EXTENDS LinearExecutor, TLC

\* A well-formed call: one input channel, n output channels, with a bias.
Req(b, x, n) ==
    [output |-> b, input |-> x, output_size |-> n, input_size |-> 1,
     weight_size |-> n, bias_size |-> n, input_channels |-> 1,
     output_channels |-> n]

\* A parallel call with uneven shards, another on the same vector, and a
\* call with fewer channels than threads, which takes the scalar fallback.
BigA   == Req("b1", "x1", TotalThreads + 1)
BigB   == [Req("b1", "x2", TotalThreads + 1) EXCEPT !.bias_size = 0]
Tiny   == Req("b1", "x3", 1)
\* Two input channels per output channel and no bias.
Wide   == [Req("b1", "x4", TotalThreads) EXCEPT
              !.input_channels = 2, !.input_size = 2, !.weight_size = 2 * TotalThreads,
              !.bias_size = 0]
\* weight.size() agrees with a product that wraps; a span of the wrong size.
TooBig == [Req("b1", "x1", SizeMax) EXCEPT
              !.input_channels = 2, !.input_size = 2, !.weight_size = SizeT(2 * SizeMax)]
Short  == [BigA EXCEPT !.bias_size = 1]

MCInputs == {"x1", "x2", "x3", "x4"}
OneBuffer == {"b1"}

PoolRequests  == {BigA, Wide, Tiny, TooBig, Short}
FaultRequests == {BigA, BigB}
TwoRequests   == {BigA, Tiny}
NoFault   == {}
AnyFault  == {BigA} \X Shards

Symmetry == Permutations(Submitters)
=============================================================================
