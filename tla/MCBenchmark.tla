---------------------------- MODULE MCBenchmark -----------------------------
(* Command lines of gpt2_benchmark over the tokens of MCTokens.            *)
EXTENDS Benchmark, MCTokens

MCPrompts == UNION {[1..n -> MCIds] : n \in 0 .. (Context + 1)}
=============================================================================
