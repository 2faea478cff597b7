--------------------------- MODULE ShardPartition ---------------------------
(***************************************************************************)
(* How LinearExecutor::run_shard divides the output channels of a job      *)
(* among the threads: shard 0 belongs to the submitting thread, shard w    *)
(* to worker w.  All values are std::size_t, so every operation that could *)
(* wrap is taken modulo SizeMax + 1.                                       *)
(***************************************************************************)
EXTENDS SizeArithmetic

CONSTANT
    TotalThreads    \* total_threads_, the submitting thread included

ASSUME ThreadsAssumption == /\ TotalThreads \in Nat \ {0}
                            /\ SizeMax \in Nat \ {0}
                            /\ TotalThreads <= SizeMax

Shards == 0 .. (TotalThreads - 1)

\* const auto first: where the shard starts among n output channels.
ShardFirst(n, shard) ==
    LET block     == n \div TotalThreads
        remainder == n % TotalThreads
    IN  SizeT(SizeT(shard * block) + IF shard < remainder THEN shard ELSE remainder)

\* const auto count: how many of the n output channels the shard computes.
ShardCount(n, shard) ==
    LET block     == n \div TotalThreads
        remainder == n % TotalThreads
    IN  SizeT(block + IF shard < remainder THEN 1 ELSE 0)

\* weight_first and weight_count: the shard's rows of the weight matrix, k
\* being input_channels.
WeightFirst(n, k, shard) == SizeT(ShardFirst(n, shard) * k)

WeightCount(n, k, shard) == SizeT(ShardCount(n, shard) * k)

\* The output channels the shard writes.
ShardRange(n, shard) ==
    ShardFirst(n, shard) .. (ShardFirst(n, shard) + ShardCount(n, shard) - 1)

-----------------------------------------------------------------------------
\* The comment "Quotient/remainder partition avoids output_channels * shard
\* overflow": every output channel belongs to exactly one shard, for every
\* number of channels a size_t holds.
IsPartition(n) ==
    /\ UNION {ShardRange(n, s) : s \in Shards} = 0 .. (n - 1)
    /\ \A s, t \in Shards : s # t => ShardRange(n, s) \cap ShardRange(n, t) = {}

\* The subspans of run_shard lie inside the weight matrix, and neither offset
\* nor length has wrapped, once linear() has checked that n * k fits.
WeightSlicesFit(n, k) ==
    \A s \in Shards :
        /\ WeightFirst(n, k, s) = ShardFirst(n, s) * k
        /\ WeightCount(n, k, s) = ShardCount(n, s) * k
        /\ WeightFirst(n, k, s) + WeightCount(n, k, s) <= n * k
=============================================================================
