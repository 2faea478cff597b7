------------------------ MODULE LinearExecutorProofs ------------------------
(***************************************************************************)
(* IInv is an inductive invariant of LinearExecutor, for every number of   *)
(* threads, callers, requests and faults, and for a generation counter of  *)
(* any width that may wrap.  The safety properties of the pool follow; a   *)
(* call that returns has computed its whole output; and the pool           *)
(* implements LinearService.                                               *)
(***************************************************************************)
EXTENDS LinearRefinement, SizeArithmeticProofs, FiniteSetTheorems

-----------------------------------------------------------------------------
(* run_shard's partition is exact and in bounds for every pool size and    *)
(* every job shape that linear() accepts.                                  *)

\* What first and count are when nothing wraps, with q and r the quotient and
\* the remainder; the shard ends inside the output.
LEMMA ShardShape ==
    ASSUME NEW n \in 0..SizeMax, NEW s \in Shards
    PROVE  LET q == n \div TotalThreads
               r == n % TotalThreads
           IN  /\ ShardFirst(n, s) = s * q + IF s < r THEN s ELSE r
               /\ ShardCount(n, s) = q + IF s < r THEN 1 ELSE 0
               /\ ShardFirst(n, s) \in 0..n
               /\ ShardCount(n, s) \in 0..n
               /\ ShardFirst(n, s) + ShardCount(n, s) <= n
  <1> DEFINE q == n \div TotalThreads
             r == n % TotalThreads
             lo == IF s < r THEN s ELSE r
             extra == IF s < r THEN 1 ELSE 0
  <1>1. /\ TotalThreads \in Nat \ {0} /\ SizeMax \in Nat /\ n \in Nat /\ n <= SizeMax
        /\ s \in Nat /\ s + 1 <= TotalThreads
    BY ThreadsAssumption DEF Shards
  <1>2. q \in Nat /\ r \in 0 .. (TotalThreads - 1) /\ n = TotalThreads * q + r
    BY <1>1, Euclid
  <1>3. /\ (s + 1) * q <= TotalThreads * q
        /\ (s + 1) * q = s * q + q
        /\ s * q \in Nat /\ TotalThreads * q \in Nat
    <2> HIDE DEF q
    <2>1. (s + 1) * q <= TotalThreads * q /\ TotalThreads * q \in Nat
      BY <1>1, <1>2, MulMono
    <2>2. (s + 1) * q = s * q + q /\ s * q \in Nat
      BY <1>1, <1>2, SMT
    <2> QED BY <2>1, <2>2
  <1> HIDE DEF q, r
  <1>4. /\ lo \in Nat /\ extra \in Nat /\ lo + extra <= r
        /\ s * q \in 0..SizeMax
        /\ s * q + lo \in 0..n
        /\ q + extra \in 0..n
        /\ s * q + lo + (q + extra) <= n
    BY <1>1, <1>2, <1>3
  <1>5. ShardFirst(n, s) = s * q + lo
    BY <1>1, <1>4, SizeTFits DEF ShardFirst, q, r
  <1>6. ShardCount(n, s) = q + extra
    BY <1>1, <1>4, SizeTFits DEF ShardCount, q, r
  <1> QED BY <1>1, <1>4, <1>5, <1>6 DEF q, r

\* A later shard starts where, or after, an earlier one ends.
LEMMA ShardsOrdered ==
    ASSUME NEW n \in 0..SizeMax, NEW s \in Shards, NEW t \in Shards, s < t
    PROVE  ShardFirst(n, s) + ShardCount(n, s) <= ShardFirst(n, t)
  <1> DEFINE q == n \div TotalThreads
             r == n % TotalThreads
  <1>1. /\ TotalThreads \in Nat \ {0} /\ n \in Nat
        /\ s \in Nat /\ t \in Nat /\ s + 1 <= t
    BY ThreadsAssumption DEF Shards
  <1>2. q \in Nat /\ r \in Nat
    <2>1. q \in Nat /\ r \in 0 .. (TotalThreads - 1)
      BY <1>1, Euclid
    <2> QED BY <1>1, <2>1
  <1> HIDE DEF q, r
  <1>3. (s + 1) * q <= t * q /\ t * q \in Nat
    BY <1>1, <1>2, MulMono
  <1>4. (s + 1) * q = s * q + q /\ s * q \in Nat
    BY <1>1, <1>2, SMT
  <1>5. /\ ShardFirst(n, s) = s * q + IF s < r THEN s ELSE r
        /\ ShardCount(n, s) = q + IF s < r THEN 1 ELSE 0
        /\ ShardFirst(n, t) = t * q + IF t < r THEN t ELSE r
    BY ShardShape DEF q, r
  <1> QED BY <1>1, <1>2, <1>3, <1>4, <1>5

\* Some shard contains a given channel.
LEMMA ShardOfChannel ==
    ASSUME NEW n \in 0..SizeMax, NEW c \in 0 .. (n - 1)
    PROVE  \E s \in Shards : c \in ShardRange(n, s)
  <1> DEFINE q == n \div TotalThreads
             r == n % TotalThreads
  <1>1. TotalThreads \in Nat \ {0} /\ n \in Nat /\ c \in Nat /\ c < n
    BY ThreadsAssumption
  <1>2. q \in Nat /\ r \in 0 .. (TotalThreads - 1) /\ n = TotalThreads * q + r
    BY <1>1, Euclid
  <1>3. ASSUME NEW s \in Shards
        PROVE  /\ ShardFirst(n, s) = s * q + IF s < r THEN s ELSE r
               /\ ShardCount(n, s) = q + IF s < r THEN 1 ELSE 0
    BY ShardShape
  <1> HIDE DEF q, r
  <1>4. r * (q + 1) \in Nat /\ r * (q + 1) = r * q + r /\ r * q \in Nat
    BY <1>2, SMT
  <1>5. CASE c < r * (q + 1)
    <2> DEFINE s == c \div (q + 1)
               m == c % (q + 1)
    <2>0. q + 1 \in Nat \ {0}
      BY <1>2
    <2>1. s \in Nat /\ m \in 0 .. ((q + 1) - 1) /\ c = (q + 1) * s + m
      BY <1>1, <2>0, Euclid
    <2> HIDE DEF s, m
    <2>2. (q + 1) * s = s * q + s /\ s * q \in Nat
      BY <1>2, <2>1, SMT
    <2>3. s < r
      <3> SUFFICES ASSUME r <= s PROVE FALSE
        BY <1>2, <2>1
      <3>1. r * (q + 1) <= s * (q + 1)
        BY <1>2, <2>1, MulMono
      <3>2. s * (q + 1) = s * q + s
        BY <1>2, <2>1, SMT
      <3> QED BY <1>1, <1>2, <1>4, <1>5, <2>1, <2>2, <3>1, <3>2
    <2>4. s \in Shards
      BY <1>1, <1>2, <2>1, <2>3 DEF Shards
    <2>5. ShardFirst(n, s) = s * q + s /\ ShardCount(n, s) = q + 1
      BY <1>3, <2>3, <2>4
    <2>6. c \in ShardRange(n, s)
      BY <1>1, <1>2, <2>1, <2>2, <2>5 DEF ShardRange
    <2> QED BY <2>4, <2>6
  <1>6. CASE r * (q + 1) <= c
    <2> DEFINE d == c - r * (q + 1)
               i == d \div q
               m == d % q
               s == r + i
    <2>1. q # 0
      <3> SUFFICES ASSUME q = 0 PROVE FALSE
        OBVIOUS
      <3>1. TotalThreads * q = 0 /\ r * (q + 1) = r
        BY <1>1, <1>2, SMT
      <3> QED BY <1>1, <1>2, <1>6, <3>1
    <2>2. d \in Nat /\ c = r * q + r + d
      BY <1>1, <1>4, <1>6
    <2> HIDE DEF d
    <2>3. i \in Nat /\ m \in 0 .. (q - 1) /\ d = q * i + m
      BY <1>2, <2>1, <2>2, Euclid
    <2> HIDE DEF i, m
    <2>4. q * i = i * q /\ i * q \in Nat /\ s * q = r * q + i * q
      BY <1>2, <2>3, SMT
    <2>5. s \in Nat /\ s < TotalThreads
      <3> SUFFICES ASSUME TotalThreads <= s PROVE FALSE
        BY <1>1, <1>2, <2>3
      <3>1. TotalThreads * q <= s * q
        BY <1>1, <1>2, <2>3, MulMono
      <3> QED BY <1>1, <1>2, <1>4, <2>2, <2>3, <2>4, <3>1
    <2>6. s \in Shards /\ ~(s < r)
      BY <1>1, <1>2, <2>3, <2>5 DEF Shards
    <2>7. ShardFirst(n, s) = s * q + r /\ ShardCount(n, s) = q
      BY <1>2, <1>3, <2>6
    <2>8. c \in ShardRange(n, s)
      BY <1>1, <1>2, <1>4, <2>2, <2>3, <2>4, <2>7 DEF ShardRange
    <2> QED BY <2>6, <2>8
  <1> QED BY <1>1, <1>4, <1>5, <1>6

\* run_shard gives every output channel to exactly one thread, for every pool
\* and every number of channels.
THEOREM ShardsPartitionChannels ==
    ASSUME NEW n \in 0..SizeMax
    PROVE  IsPartition(n)
  <1>0. SizeMax \in Nat /\ n \in Nat
    BY ThreadsAssumption
  <1>1. ASSUME NEW s \in Shards
        PROVE  /\ ShardFirst(n, s) \in Nat /\ ShardCount(n, s) \in Nat
               /\ ShardFirst(n, s) + ShardCount(n, s) <= n
    BY <1>0, ShardShape
  <1>2. UNION {ShardRange(n, s) : s \in Shards} \subseteq 0 .. (n - 1)
    BY <1>0, <1>1 DEF ShardRange
  <1>3. 0 .. (n - 1) \subseteq UNION {ShardRange(n, s) : s \in Shards}
    BY ShardOfChannel
  <1>4. ASSUME NEW s \in Shards, NEW t \in Shards, s < t
        PROVE  ShardRange(n, s) \cap ShardRange(n, t) = {}
    BY <1>1, <1>4, ShardsOrdered DEF ShardRange
  <1>5. ASSUME NEW s \in Shards, NEW t \in Shards, s # t
        PROVE  ShardRange(n, s) \cap ShardRange(n, t) = {}
    <2>1. s < t \/ t < s
      BY <1>5, ThreadsAssumption DEF Shards
    <2> QED BY <1>4, <2>1
  <1> QED BY <1>2, <1>3, <1>5 DEF IsPartition

\* For a job that passes linear()'s overflow check, run_shard's weight
\* subspans are in bounds and no product wraps.
THEOREM WeightSlicesInBounds ==
    ASSUME NEW n \in 0..SizeMax, NEW k \in Nat, n * k <= SizeMax
    PROVE  WeightSlicesFit(n, k)
  <1> SUFFICES ASSUME NEW s \in Shards
               PROVE  /\ WeightFirst(n, k, s) = ShardFirst(n, s) * k
                      /\ WeightCount(n, k, s) = ShardCount(n, s) * k
                      /\ WeightFirst(n, k, s) + WeightCount(n, k, s) <= n * k
    BY DEF WeightSlicesFit
  <1> DEFINE first == ShardFirst(n, s)
             count == ShardCount(n, s)
  <1>1. /\ SizeMax \in Nat /\ n \in Nat /\ first \in Nat /\ count \in Nat
        /\ first + count <= n
    BY ShardShape, ThreadsAssumption
  <1> HIDE DEF first, count
  <1>2. (first + count) * k <= n * k /\ n * k \in Nat
    BY <1>1, MulMono
  <1>3. (first + count) * k = first * k + count * k
    BY <1>1, SMT
  <1>4. first * k \in Nat /\ count * k \in Nat
    BY <1>1, SMT
  <1>5. first * k \in 0..SizeMax /\ count * k \in 0..SizeMax
    BY <1>1, <1>2, <1>3, <1>4
  <1>6. WeightFirst(n, k, s) = first * k /\ WeightCount(n, k, s) = count * k
    BY <1>5, SizeTFits DEF WeightFirst, WeightCount, first, count
  <1> QED BY <1>1, <1>2, <1>3, <1>4, <1>6 DEF first, count

-----------------------------------------------------------------------------
(* The pool.                                                               *)

\* NULL is none of the values it stands in for.
LEMMA NullFacts == NULL \notin Requests /\ NULL \notin Submitters /\ NULL \notin Errors
  BY RequestsAssumption DEF Errors

LEMMA RequestFacts ==
    ASSUME NEW r \in Requests
    PROVE  /\ r \in RequestType
           /\ r.output_channels \in 0..SizeMax
           /\ r.input_channels \in 0..SizeMax
           /\ r.output \in Buffers
  BY RequestsAssumption DEF RequestType

\* linear()'s checks make the spans as long as the exact product says.
LEMMA AcceptedFits ==
    ASSUME NEW r \in Requests, Accepted(r)
    PROVE  LET n == r.output_channels
               k == r.input_channels
           IN  /\ n * k \in 0..SizeMax
               /\ r.weight_size = n * k
               /\ r.output_size = n
               /\ r.bias_size # 0 => r.bias_size = n
  <1> DEFINE n == r.output_channels
             k == r.input_channels
  <1>1. n \in Nat /\ k \in Nat /\ SizeMax \in Nat
    BY RequestFacts, ThreadsAssumption
  <1>2. /\ k # 0 => n <= SizeMax \div k
        /\ r.weight_size = SizeT(k * n)
        /\ r.output_size = n
        /\ r.bias_size # 0 => r.bias_size = n
    BY <1>1 DEF Accepted, WeightSizeOverflow, SizeMismatch
  <1> HIDE DEF n, k
  <1>3. k * n <= SizeMax
    BY <1>1, <1>2, QuotientBound
  <1>4. k * n = n * k /\ k * n \in 0..SizeMax
    BY <1>1, <1>3, SMT
  <1> QED BY <1>2, <1>4, SizeTFits DEF n, k

\* The workers are as many as the pool was built with.
LEMMA WorkersFinite ==
    IsFiniteSet(Workers) /\ Cardinality(Workers) = TotalThreads - 1
  <1>1. 1 \in Int /\ TotalThreads - 1 \in Int /\ TotalThreads >= 1
    BY ThreadsAssumption
  <1>2. IsFiniteSet(1 .. (TotalThreads - 1))
    BY <1>1, FS_Interval
  <1>3. Cardinality(1 .. (TotalThreads - 1)) =
            IF 1 > TotalThreads - 1 THEN 0 ELSE (TotalThreads - 1) - 1 + 1
    BY <1>1, FS_Interval
  <1>4. (IF 1 > TotalThreads - 1 THEN 0 ELSE (TotalThreads - 1) - 1 + 1) = TotalThreads - 1
    BY ThreadsAssumption
  <1> QED BY <1>2, <1>3, <1>4 DEF Workers

\* The finished workers are at most all of them; when they are as many as the
\* pool has, they are all of them.
LEMMA FinishedFacts ==
    /\ Finished \subseteq Workers
    /\ IsFiniteSet(Finished)
    /\ Cardinality(Finished) \in 0 .. (TotalThreads - 1)
    /\ Cardinality(Finished) = TotalThreads - 1 => Finished = Workers
  <1>1. Finished \subseteq Workers
    BY DEF Finished
  <1>2. /\ IsFiniteSet(Finished)
        /\ Cardinality(Finished) <= Cardinality(Workers)
        /\ Cardinality(Finished) = Cardinality(Workers) => Finished = Workers
    BY <1>1, WorkersFinite, FS_Subset
  <1>3. Cardinality(Finished) \in Nat
    BY <1>2, FS_CardinalityType
  <1> QED BY <1>1, <1>2, <1>3, WorkersFinite, ThreadsAssumption

\* A generation that is incremented changes, also when it wraps.
LEMMA NextGeneration ==
    ASSUME NEW g \in 0..SizeMax
    PROVE  SizeT(g + 1) \in 0..SizeMax /\ SizeT(g + 1) # g
  BY ThreadsAssumption DEF SizeT

\* At most one call is past submit_mutex_.
LEMMA OneHolder ==
    ASSUME CallInv, NEW s \in Submitters, NEW t \in Submitters,
           spc[s] \notin {"idle", "submit"}, spc[t] \notin {"idle", "submit"}
    PROVE  s = t
  BY DEF CallInv

\* When the holder of submit_mutex_ has no job in flight, every worker has
\* caught up and none is in its kernel.
LEMMA QuietPool ==
    ASSUME IInv, NEW s \in Submitters,
           spc[s] \notin {"idle", "submit"}, ~InFlight(s)
    PROVE  /\ job = NULL
           /\ \A w \in Workers : observed[w] = generation /\ wpc[w] \notin {"run", "finish"}
  <1>1. TypeOK /\ LifeInv /\ CallInv /\ JobInv
    BY DEF IInv
  <1>2. job = NULL
    <2> SUFFICES ASSUME job # NULL PROVE FALSE
      OBVIOUS
    <2>1. PICK t \in Submitters : InFlight(t)
      BY <1>1 DEF JobInv
    <2>2. t = s
      BY <1>1, <2>1, OneHolder DEF InFlight
    <2> QED BY <2>1, <2>2
  <1>3. life = "live" /\ created = TotalThreads - 1
    BY <1>1 DEF LifeInv
  <1>4. \A w \in Workers : wpc[w] # "absent"
    BY <1>1, <1>3, ThreadsAssumption DEF LifeInv, Workers
  <1> QED BY <1>1, <1>2, <1>4 DEF JobInv

OwnerAction ==
    \/ Construct \/ ReserveFails \/ SpawnFails \/ Destroy \/ OwnerStep

\* Construction and destruction keep the invariant: no call is running.
LEMMA OwnerKeepsIInv ==
    ASSUME IInv, OwnerAction
    PROVE  IInv'
  <1>inv. TypeOK /\ LifeInv /\ CallInv /\ JobInv /\ ErrorInv /\ CompletedExact
    BY DEF IInv
  <1>idle. /\ \A s \in Submitters : spc[s] = "idle"
           /\ \A s \in Submitters : ~InFlight(s)
           /\ job = NULL
    BY <1>inv DEF OwnerAction, OwnerStep, LifeInv, JobInv, InFlight, Construct, Reserve,
       ReserveFails, SpawnWorker, SpawnFails, Constructed, Destroy, SetStopping,
       NotifyStop, JoinWorkers
  <1>null. NULL \notin Requests /\ NULL \notin Submitters /\ NULL \notin Errors
    BY NullFacts
  <1>thr. TotalThreads \in Nat \ {0} /\ SizeMax \in Nat \ {0} /\ Workers = 1 .. (TotalThreads - 1)
    BY ThreadsAssumption DEF Workers
  <1>1. CASE Construct
    <2>1. TypeOK'
      <3>1. stopping' \in BOOLEAN
        BY <1>1 DEF Construct
      <3> QED BY <1>1, <1>inv, <1>thr, <3>1 DEF Construct, TypeOK, workerVars, callVars
    <2>2. LifeInv'
      BY <1>1, <1>inv, <1>idle, <1>null, <1>thr DEF Construct, TypeOK, LifeInv,
         NoOrphanWorker, poolVars, jobVars, workerVars, callVars
    <2>3. CallInv'
      BY <1>1, <1>inv, <1>idle, <1>null, <1>thr DEF Construct, TypeOK, CallInv,
         InFlight, poolVars, jobVars, workerVars, callVars
    <2>4. JobInv'
      BY <1>1, <1>inv, <1>idle, <1>null, <1>thr DEF Construct, TypeOK, LifeInv,
         NoOrphanWorker, JobInv, InFlight, poolVars, jobVars, workerVars, callVars
    <2>5. ErrorInv'
      BY <1>1, <1>inv, <1>idle, <1>null, <1>thr DEF Construct, TypeOK, LifeInv,
         NoOrphanWorker, ErrorInv, ErrorBelongsToOwnJob, poolVars, jobVars, workerVars,
         callVars
    <2>6. CompletedExact'
      BY <1>1, <1>inv, <1>idle, <1>null, <1>thr DEF Construct, TypeOK, InFlight,
         CompletedExact, Finished, poolVars, jobVars, workerVars, callVars
    <2> QED BY <2>1, <2>2, <2>3, <2>4, <2>5, <2>6 DEF IInv
  <1>2. CASE Reserve
    <2>1. TypeOK'
      BY <1>2, <1>inv, <1>idle, <1>null, <1>thr DEF Reserve, TypeOK, poolVars, jobVars,
         workerVars, callVars
    <2>2. LifeInv'
      BY <1>2, <1>inv, <1>idle, <1>null, <1>thr DEF Reserve, TypeOK, LifeInv,
         NoOrphanWorker, poolVars, jobVars, workerVars, callVars
    <2>3. CallInv'
      BY <1>2, <1>inv, <1>idle, <1>null, <1>thr DEF Reserve, TypeOK, CallInv, InFlight,
         poolVars, jobVars, workerVars, callVars
    <2>4. JobInv'
      BY <1>2, <1>inv, <1>idle, <1>null, <1>thr DEF Reserve, TypeOK, LifeInv,
         NoOrphanWorker, JobInv, InFlight, poolVars, jobVars, workerVars, callVars
    <2>5. ErrorInv'
      BY <1>2, <1>inv, <1>idle, <1>null, <1>thr DEF Reserve, TypeOK, LifeInv,
         NoOrphanWorker, ErrorInv, ErrorBelongsToOwnJob, poolVars, jobVars, workerVars,
         callVars
    <2>6. CompletedExact'
      BY <1>2, <1>inv, <1>idle, <1>null, <1>thr DEF Reserve, TypeOK, InFlight,
         CompletedExact, Finished, poolVars, jobVars, workerVars, callVars
    <2> QED BY <2>1, <2>2, <2>3, <2>4, <2>5, <2>6 DEF IInv
  <1>3. CASE ReserveFails
    <2>1. TypeOK'
      BY <1>3, <1>inv, <1>idle, <1>null, <1>thr DEF ReserveFails, TypeOK, poolVars,
         jobVars, workerVars, callVars
    <2>2. LifeInv'
      BY <1>3, <1>inv, <1>idle, <1>null, <1>thr DEF ReserveFails, TypeOK, LifeInv,
         NoOrphanWorker, poolVars, jobVars, workerVars, callVars
    <2>3. CallInv'
      BY <1>3, <1>inv, <1>idle, <1>null, <1>thr DEF ReserveFails, TypeOK, CallInv,
         InFlight, poolVars, jobVars, workerVars, callVars
    <2>4. JobInv'
      BY <1>3, <1>inv, <1>idle, <1>null, <1>thr DEF ReserveFails, TypeOK, LifeInv,
         NoOrphanWorker, JobInv, InFlight, poolVars, jobVars, workerVars, callVars
    <2>5. ErrorInv'
      BY <1>3, <1>inv, <1>idle, <1>null, <1>thr DEF ReserveFails, TypeOK, LifeInv,
         NoOrphanWorker, ErrorInv, ErrorBelongsToOwnJob, poolVars, jobVars, workerVars,
         callVars
    <2>6. CompletedExact'
      BY <1>3, <1>inv, <1>idle, <1>null, <1>thr DEF ReserveFails, TypeOK, InFlight,
         CompletedExact, Finished, poolVars, jobVars, workerVars, callVars
    <2> QED BY <2>1, <2>2, <2>3, <2>4, <2>5, <2>6 DEF IInv
  <1>4. CASE SpawnWorker
    <2>1. TypeOK'
      BY <1>4, <1>inv, <1>idle, <1>null, <1>thr DEF SpawnWorker, TypeOK, poolVars,
         jobVars, workerVars, callVars
    <2>2. LifeInv'
      BY <1>4, <1>inv, <1>idle, <1>null, <1>thr DEF SpawnWorker, TypeOK, LifeInv,
         NoOrphanWorker, poolVars, jobVars, workerVars, callVars
    <2>3. CallInv'
      BY <1>4, <1>inv, <1>idle, <1>null, <1>thr DEF SpawnWorker, TypeOK, CallInv,
         InFlight, poolVars, jobVars, workerVars, callVars
    <2>4. JobInv'
      BY <1>4, <1>inv, <1>idle, <1>null, <1>thr DEF SpawnWorker, TypeOK, LifeInv,
         NoOrphanWorker, JobInv, InFlight, poolVars, jobVars, workerVars, callVars
    <2>5. ErrorInv'
      BY <1>4, <1>inv, <1>idle, <1>null, <1>thr DEF SpawnWorker, TypeOK, LifeInv,
         NoOrphanWorker, ErrorInv, ErrorBelongsToOwnJob, poolVars, jobVars, workerVars,
         callVars
    <2>6. CompletedExact'
      BY <1>4, <1>inv, <1>idle, <1>null, <1>thr DEF SpawnWorker, TypeOK, InFlight,
         CompletedExact, Finished, poolVars, jobVars, workerVars, callVars
    <2> QED BY <2>1, <2>2, <2>3, <2>4, <2>5, <2>6 DEF IInv
  <1>5. CASE SpawnFails
    <2>1. TypeOK'
      BY <1>5, <1>inv, <1>idle, <1>null, <1>thr DEF SpawnFails, TypeOK, poolVars,
         jobVars, workerVars, callVars
    <2>2. LifeInv'
      BY <1>5, <1>inv, <1>idle, <1>null, <1>thr DEF SpawnFails, TypeOK, LifeInv,
         NoOrphanWorker, poolVars, jobVars, workerVars, callVars
    <2>3. CallInv'
      BY <1>5, <1>inv, <1>idle, <1>null, <1>thr DEF SpawnFails, TypeOK, CallInv,
         InFlight, poolVars, jobVars, workerVars, callVars
    <2>4. JobInv'
      BY <1>5, <1>inv, <1>idle, <1>null, <1>thr DEF SpawnFails, TypeOK, LifeInv,
         NoOrphanWorker, JobInv, InFlight, poolVars, jobVars, workerVars, callVars
    <2>5. ErrorInv'
      BY <1>5, <1>inv, <1>idle, <1>null, <1>thr DEF SpawnFails, TypeOK, LifeInv,
         NoOrphanWorker, ErrorInv, ErrorBelongsToOwnJob, poolVars, jobVars, workerVars,
         callVars
    <2>6. CompletedExact'
      BY <1>5, <1>inv, <1>idle, <1>null, <1>thr DEF SpawnFails, TypeOK, InFlight,
         CompletedExact, Finished, poolVars, jobVars, workerVars, callVars
    <2> QED BY <2>1, <2>2, <2>3, <2>4, <2>5, <2>6 DEF IInv
  <1>6. CASE Constructed
    <2>1. TypeOK'
      BY <1>6, <1>inv, <1>idle, <1>null, <1>thr DEF Constructed, TypeOK, poolVars,
         jobVars, workerVars, callVars
    <2>2. LifeInv'
      BY <1>6, <1>inv, <1>idle, <1>null, <1>thr DEF Constructed, TypeOK, LifeInv,
         NoOrphanWorker, poolVars, jobVars, workerVars, callVars
    <2>3. CallInv'
      BY <1>6, <1>inv, <1>idle, <1>null, <1>thr DEF Constructed, TypeOK, CallInv,
         InFlight, poolVars, jobVars, workerVars, callVars
    <2>4. JobInv'
      BY <1>6, <1>inv, <1>idle, <1>null, <1>thr DEF Constructed, TypeOK, LifeInv,
         NoOrphanWorker, JobInv, InFlight, poolVars, jobVars, workerVars, callVars
    <2>5. ErrorInv'
      BY <1>6, <1>inv, <1>idle, <1>null, <1>thr DEF Constructed, TypeOK, LifeInv,
         NoOrphanWorker, ErrorInv, ErrorBelongsToOwnJob, poolVars, jobVars, workerVars,
         callVars
    <2>6. CompletedExact'
      BY <1>6, <1>inv, <1>idle, <1>null, <1>thr DEF Constructed, TypeOK, InFlight,
         CompletedExact, Finished, poolVars, jobVars, workerVars, callVars
    <2> QED BY <2>1, <2>2, <2>3, <2>4, <2>5, <2>6 DEF IInv
  <1>7. CASE Destroy
    <2>1. TypeOK'
      BY <1>7, <1>inv, <1>idle, <1>null, <1>thr DEF Destroy, TypeOK, poolVars, jobVars,
         workerVars, callVars
    <2>2. LifeInv'
      BY <1>7, <1>inv, <1>idle, <1>null, <1>thr DEF Destroy, TypeOK, LifeInv,
         NoOrphanWorker, poolVars, jobVars, workerVars, callVars
    <2>3. CallInv'
      BY <1>7, <1>inv, <1>idle, <1>null, <1>thr DEF Destroy, TypeOK, CallInv, InFlight,
         poolVars, jobVars, workerVars, callVars
    <2>4. JobInv'
      BY <1>7, <1>inv, <1>idle, <1>null, <1>thr DEF Destroy, TypeOK, LifeInv,
         NoOrphanWorker, JobInv, InFlight, poolVars, jobVars, workerVars, callVars
    <2>5. ErrorInv'
      BY <1>7, <1>inv, <1>idle, <1>null, <1>thr DEF Destroy, TypeOK, LifeInv,
         NoOrphanWorker, ErrorInv, ErrorBelongsToOwnJob, poolVars, jobVars, workerVars,
         callVars
    <2>6. CompletedExact'
      BY <1>7, <1>inv, <1>idle, <1>null, <1>thr DEF Destroy, TypeOK, InFlight,
         CompletedExact, Finished, poolVars, jobVars, workerVars, callVars
    <2> QED BY <2>1, <2>2, <2>3, <2>4, <2>5, <2>6 DEF IInv
  <1>8. CASE SetStopping
    <2>1. TypeOK'
      BY <1>8, <1>inv, <1>idle, <1>null, <1>thr DEF SetStopping, TypeOK, poolVars,
         jobVars, workerVars, callVars
    <2>2. LifeInv'
      BY <1>8, <1>inv, <1>idle, <1>null, <1>thr DEF SetStopping, TypeOK, LifeInv,
         NoOrphanWorker, poolVars, jobVars, workerVars, callVars
    <2>3. CallInv'
      BY <1>8, <1>inv, <1>idle, <1>null, <1>thr DEF SetStopping, TypeOK, CallInv,
         InFlight, poolVars, jobVars, workerVars, callVars
    <2>4. JobInv'
      BY <1>8, <1>inv, <1>idle, <1>null, <1>thr DEF SetStopping, TypeOK, LifeInv,
         NoOrphanWorker, JobInv, InFlight, poolVars, jobVars, workerVars, callVars
    <2>5. ErrorInv'
      BY <1>8, <1>inv, <1>idle, <1>null, <1>thr DEF SetStopping, TypeOK, LifeInv,
         NoOrphanWorker, ErrorInv, ErrorBelongsToOwnJob, poolVars, jobVars, workerVars,
         callVars
    <2>6. CompletedExact'
      BY <1>8, <1>inv, <1>idle, <1>null, <1>thr DEF SetStopping, TypeOK, InFlight,
         CompletedExact, Finished, poolVars, jobVars, workerVars, callVars
    <2> QED BY <2>1, <2>2, <2>3, <2>4, <2>5, <2>6 DEF IInv
  <1>9. CASE NotifyStop
    <2>1. TypeOK'
      BY <1>9, <1>inv, <1>idle, <1>null, <1>thr DEF NotifyStop, TypeOK, poolVars,
         jobVars, workerVars, callVars, WakeWorkers
    <2>2. LifeInv'
      BY <1>9, <1>inv, <1>idle, <1>null, <1>thr DEF NotifyStop, TypeOK, LifeInv,
         NoOrphanWorker, poolVars, jobVars, workerVars, callVars, WakeWorkers
    <2>3. CallInv'
      BY <1>9, <1>inv, <1>idle, <1>null, <1>thr DEF NotifyStop, TypeOK, CallInv,
         InFlight, poolVars, jobVars, workerVars, callVars, WakeWorkers
    <2>4. JobInv'
      BY <1>9, <1>inv, <1>idle, <1>null, <1>thr DEF NotifyStop, TypeOK, LifeInv,
         NoOrphanWorker, JobInv, InFlight, poolVars, jobVars, workerVars, callVars,
         WakeWorkers
    <2>5. ErrorInv'
      BY <1>9, <1>inv, <1>idle, <1>null, <1>thr DEF NotifyStop, TypeOK, LifeInv,
         NoOrphanWorker, ErrorInv, ErrorBelongsToOwnJob, poolVars, jobVars, workerVars,
         callVars, WakeWorkers
    <2>6. CompletedExact'
      BY <1>9, <1>inv, <1>idle, <1>null, <1>thr DEF NotifyStop, TypeOK, InFlight,
         CompletedExact, Finished, poolVars, jobVars, workerVars, callVars
    <2> QED BY <2>1, <2>2, <2>3, <2>4, <2>5, <2>6 DEF IInv
  <1>10. CASE JoinWorkers
    <2>1. TypeOK'
      BY <1>10, <1>inv, <1>idle, <1>null, <1>thr DEF JoinWorkers, TypeOK, poolVars,
         jobVars, workerVars, callVars
    <2>2. LifeInv'
      BY <1>10, <1>inv, <1>idle, <1>null, <1>thr DEF JoinWorkers, TypeOK, LifeInv,
         NoOrphanWorker, poolVars, jobVars, workerVars, callVars
    <2>3. CallInv'
      BY <1>10, <1>inv, <1>idle, <1>null, <1>thr DEF JoinWorkers, TypeOK, CallInv,
         InFlight, poolVars, jobVars, workerVars, callVars
    <2>4. JobInv'
      BY <1>10, <1>inv, <1>idle, <1>null, <1>thr DEF JoinWorkers, TypeOK, LifeInv,
         NoOrphanWorker, JobInv, InFlight, poolVars, jobVars, workerVars, callVars
    <2>5. ErrorInv'
      BY <1>10, <1>inv, <1>idle, <1>null, <1>thr DEF JoinWorkers, TypeOK, LifeInv,
         NoOrphanWorker, ErrorInv, ErrorBelongsToOwnJob, poolVars, jobVars, workerVars,
         callVars
    <2>6. CompletedExact'
      BY <1>10, <1>inv, <1>idle, <1>null, <1>thr DEF JoinWorkers, TypeOK, InFlight,
         CompletedExact, Finished, poolVars, jobVars, workerVars, callVars
    <2> QED BY <2>1, <2>2, <2>3, <2>4, <2>5, <2>6 DEF IInv
  <1> QED BY <1>1, <1>2, <1>3, <1>4, <1>5, <1>6, <1>7, <1>8, <1>9, <1>10 DEF
             OwnerAction, OwnerStep

\* A step of a worker thread keeps the invariant.
LEMMA WorkerKeepsIInv ==
    ASSUME IInv, NEW w \in Workers, WorkerStep(w) \/ WorkerSpuriousWake(w)
    PROVE  IInv'
  <1>inv. TypeOK /\ LifeInv /\ CallInv /\ JobInv /\ ErrorInv /\ CompletedExact
    BY DEF IInv
  <1>null. NULL \notin Requests /\ NULL \notin Submitters /\ NULL \notin Errors
    BY NullFacts
  <1>thr. TotalThreads \in Nat \ {0} /\ SizeMax \in Nat \ {0} /\ Workers = 1 .. (TotalThreads - 1)
    BY ThreadsAssumption DEF Workers
  <1>run. wpc[w] \in {"run", "finish"} =>
             /\ current[w] = job /\ job \in Requests /\ observed[w] = generation
    BY <1>inv DEF JobInv, TypeOK
  <1>counts. ASSUME WorkerFinish(w)
             PROVE  /\ completed + 1 \in 0 .. (TotalThreads - 1)
                    /\ completed' = completed + 1
                    /\ Cardinality(Finished') = completed'
    <2>1. job # NULL
      BY <1>counts, <1>run, <1>null DEF WorkerFinish
    <2>2. completed = Cardinality(Finished)
      BY <1>inv, <2>1 DEF JobInv, CompletedExact
    <2>3. w \notin Finished /\ Finished' = Finished \cup {w}
      BY <1>counts, <1>inv, <1>run DEF WorkerFinish, Finished, TypeOK
    <2>4. IsFiniteSet(Finished) /\ Cardinality(Finished) \in Nat
      BY FinishedFacts
    <2>5. Cardinality(Finished') = Cardinality(Finished) + 1
      BY <2>3, <2>4, FS_AddElement
    <2>6. Cardinality(Finished') <= TotalThreads - 1
      <3>1. Finished' \subseteq Workers
        BY <2>3 DEF Finished
      <3> QED BY <3>1, WorkersFinite, FS_Subset
    <2>7. completed' = SizeT(completed + 1)
      BY <1>counts DEF WorkerFinish
    <2>8. completed + 1 \in 0 .. (TotalThreads - 1) /\ completed + 1 \in 0..SizeMax
      BY <1>thr, <2>2, <2>4, <2>5, <2>6, ThreadsAssumption
    <2> QED BY <2>2, <2>5, <2>7, <2>8, SizeTFits
  <1>1. CASE WorkerExit(w)
    <2>1. TypeOK'
      BY <1>1, <1>inv, <1>null, <1>thr, <1>run DEF WorkerExit, TypeOK, poolVars,
         jobVars, workerVars, callVars
    <2>2. LifeInv'
      BY <1>1, <1>inv, <1>null, <1>thr, <1>run DEF WorkerExit, TypeOK, LifeInv,
         NoOrphanWorker, poolVars, jobVars, workerVars, callVars
    <2>3. CallInv'
      BY <1>1, <1>inv, <1>null, <1>thr, <1>run DEF WorkerExit, TypeOK, CallInv,
         InFlight, poolVars, jobVars, workerVars, callVars
    <2>4. JobInv'
      BY <1>1, <1>inv, <1>null, <1>thr, <1>run DEF WorkerExit, TypeOK, JobInv, InFlight,
         poolVars, jobVars, workerVars, callVars
    <2>5. ErrorInv'
      BY <1>1, <1>inv, <1>null, <1>thr, <1>run DEF WorkerExit, TypeOK, ErrorInv,
         ErrorBelongsToOwnJob, poolVars, jobVars, workerVars, callVars
    <2>6. CompletedExact'
      BY <1>1, <1>inv, <1>null, <1>thr, <1>run DEF WorkerExit, TypeOK, InFlight,
         CompletedExact, Finished, poolVars, jobVars, workerVars, callVars
    <2> QED BY <2>1, <2>2, <2>3, <2>4, <2>5, <2>6 DEF IInv
  <1>2. CASE WorkerTake(w)
    <2>1. TypeOK'
      BY <1>2, <1>inv, <1>null, <1>thr, <1>run DEF WorkerTake, TypeOK, poolVars,
         jobVars, workerVars, callVars
    <2>2. LifeInv'
      BY <1>2, <1>inv, <1>null, <1>thr, <1>run DEF WorkerTake, TypeOK, LifeInv,
         NoOrphanWorker, poolVars, jobVars, workerVars, callVars
    <2>3. CallInv'
      BY <1>2, <1>inv, <1>null, <1>thr, <1>run DEF WorkerTake, TypeOK, CallInv,
         InFlight, poolVars, jobVars, workerVars, callVars
    <2>4. JobInv'
      BY <1>2, <1>inv, <1>null, <1>thr, <1>run DEF WorkerTake, TypeOK, JobInv, InFlight,
         poolVars, jobVars, workerVars, callVars
    <2>5. ErrorInv'
      BY <1>2, <1>inv, <1>null, <1>thr, <1>run DEF WorkerTake, TypeOK, ErrorInv,
         ErrorBelongsToOwnJob, poolVars, jobVars, workerVars, callVars
    <2>6. CompletedExact'
      <3>1. Finished' = Finished
        BY <1>2, <1>inv DEF WorkerTake, Finished, TypeOK, jobVars
      <3>2. \A s \in Submitters : InFlight(s)' => InFlight(s)
        BY <1>2 DEF WorkerTake, InFlight, callVars
      <3> QED BY <1>2, <1>inv, <3>1, <3>2 DEF WorkerTake, CompletedExact, jobVars
    <2> QED BY <2>1, <2>2, <2>3, <2>4, <2>5, <2>6 DEF IInv
  <1>3. CASE WorkerWait(w)
    <2>1. TypeOK'
      BY <1>3, <1>inv, <1>null, <1>thr, <1>run DEF WorkerWait, TypeOK, poolVars,
         jobVars, workerVars, callVars
    <2>2. LifeInv'
      BY <1>3, <1>inv, <1>null, <1>thr, <1>run DEF WorkerWait, TypeOK, LifeInv,
         NoOrphanWorker, poolVars, jobVars, workerVars, callVars
    <2>3. CallInv'
      BY <1>3, <1>inv, <1>null, <1>thr, <1>run DEF WorkerWait, TypeOK, CallInv,
         InFlight, poolVars, jobVars, workerVars, callVars
    <2>4. JobInv'
      BY <1>3, <1>inv, <1>null, <1>thr, <1>run DEF WorkerWait, TypeOK, JobInv, InFlight,
         poolVars, jobVars, workerVars, callVars
    <2>5. ErrorInv'
      BY <1>3, <1>inv, <1>null, <1>thr, <1>run DEF WorkerWait, TypeOK, ErrorInv,
         ErrorBelongsToOwnJob, poolVars, jobVars, workerVars, callVars
    <2>6. CompletedExact'
      BY <1>3, <1>inv, <1>null, <1>thr, <1>run DEF WorkerWait, TypeOK, InFlight,
         CompletedExact, Finished, poolVars, jobVars, workerVars, callVars
    <2> QED BY <2>1, <2>2, <2>3, <2>4, <2>5, <2>6 DEF IInv
  <1>4. CASE WorkerSpuriousWake(w)
    <2>1. TypeOK'
      BY <1>4, <1>inv, <1>null, <1>thr, <1>run DEF WorkerSpuriousWake, TypeOK, poolVars,
         jobVars, workerVars, callVars
    <2>2. LifeInv'
      BY <1>4, <1>inv, <1>null, <1>thr, <1>run DEF WorkerSpuriousWake, TypeOK, LifeInv,
         NoOrphanWorker, poolVars, jobVars, workerVars, callVars
    <2>3. CallInv'
      BY <1>4, <1>inv, <1>null, <1>thr, <1>run DEF WorkerSpuriousWake, TypeOK, CallInv,
         InFlight, poolVars, jobVars, workerVars, callVars
    <2>4. JobInv'
      BY <1>4, <1>inv, <1>null, <1>thr, <1>run DEF WorkerSpuriousWake, TypeOK, JobInv,
         InFlight, poolVars, jobVars, workerVars, callVars
    <2>5. ErrorInv'
      BY <1>4, <1>inv, <1>null, <1>thr, <1>run DEF WorkerSpuriousWake, TypeOK, ErrorInv,
         ErrorBelongsToOwnJob, poolVars, jobVars, workerVars, callVars
    <2>6. CompletedExact'
      BY <1>4, <1>inv, <1>null, <1>thr, <1>run DEF WorkerSpuriousWake, TypeOK, InFlight,
         CompletedExact, Finished, poolVars, jobVars, workerVars, callVars
    <2> QED BY <2>1, <2>2, <2>3, <2>4, <2>5, <2>6 DEF IInv
  <1>5. CASE WorkerChannel(w)
    <2>1. TypeOK'
      <3>1. current[w] \in Requests /\ wcursor[w] < ShardCount(current[w].output_channels, w)
        BY <1>5, <1>run DEF WorkerChannel
      <3>2. current[w].output_channels \in 0..SizeMax /\ w \in Shards
        BY <1>thr, <3>1, RequestFacts DEF Shards
      <3>3. ShardCount(current[w].output_channels, w) \in 0..SizeMax
        <4>1. ShardCount(current[w].output_channels, w) \in 0 .. current[w].output_channels
          BY <3>2, ShardShape
        <4> QED BY <1>thr, <3>2, <4>1
      <3>4. wcursor[w] + 1 \in 0..SizeMax
        BY <1>inv, <1>thr, <3>1, <3>3 DEF TypeOK
      <3>5. DOMAIN out' = Buffers /\ \A b \in Buffers : DOMAIN out'[b] = Channels
        BY <1>5, <1>inv DEF WorkerChannel, WriteShard, TypeOK
      <3> QED BY <1>5, <1>inv, <3>4, <3>5 DEF WorkerChannel, TypeOK, poolVars, jobVars,
                 callVars
    <2>2. LifeInv'
      BY <1>5, <1>inv, <1>null, <1>thr, <1>run DEF WorkerChannel, TypeOK, LifeInv,
         NoOrphanWorker, poolVars, jobVars, workerVars, callVars, WriteShard
    <2>3. CallInv'
      BY <1>5, <1>inv, <1>null, <1>thr, <1>run DEF WorkerChannel, TypeOK, CallInv,
         InFlight, poolVars, jobVars, workerVars, callVars, WriteShard
    <2>4. JobInv'
      BY <1>5, <1>inv, <1>null, <1>thr, <1>run DEF WorkerChannel, TypeOK, JobInv,
         InFlight, poolVars, jobVars, workerVars, callVars, WriteShard
    <2>5. ErrorInv'
      BY <1>5, <1>inv, <1>null, <1>thr, <1>run DEF WorkerChannel, TypeOK, ErrorInv,
         ErrorBelongsToOwnJob, poolVars, jobVars, workerVars, callVars, WriteShard
    <2>6. CompletedExact'
      BY <1>5, <1>inv, <1>null, <1>thr, <1>run DEF WorkerChannel, TypeOK, InFlight,
         CompletedExact, Finished, poolVars, jobVars, workerVars, callVars
    <2> QED BY <2>1, <2>2, <2>3, <2>4, <2>5, <2>6 DEF IInv
  <1>6. CASE WorkerThrow(w)
    <2>1. TypeOK'
      <3>1. [req |-> current[w], shard |-> w] \in Errors
        BY <1>6, <1>run, <1>thr DEF WorkerThrow, Errors, Shards
      <3> QED BY <1>6, <1>inv, <3>1 DEF WorkerThrow, TypeOK, poolVars, jobVars, callVars
    <2>2. LifeInv'
      BY <1>6, <1>inv, <1>null, <1>thr, <1>run DEF WorkerThrow, TypeOK, LifeInv,
         NoOrphanWorker, poolVars, jobVars, workerVars, callVars
    <2>3. CallInv'
      BY <1>6, <1>inv, <1>null, <1>thr, <1>run DEF WorkerThrow, TypeOK, CallInv,
         InFlight, poolVars, jobVars, workerVars, callVars
    <2>4. JobInv'
      BY <1>6, <1>inv, <1>null, <1>thr, <1>run DEF WorkerThrow, TypeOK, JobInv,
         InFlight, poolVars, jobVars, workerVars, callVars
    <2>5. ErrorInv'
      BY <1>6, <1>inv, <1>null, <1>thr, <1>run DEF WorkerThrow, TypeOK, ErrorInv,
         ErrorBelongsToOwnJob, poolVars, jobVars, workerVars, callVars
    <2>6. CompletedExact'
      BY <1>6, <1>inv, <1>null, <1>thr, <1>run DEF WorkerThrow, TypeOK, InFlight,
         CompletedExact, Finished, poolVars, jobVars, workerVars, callVars
    <2> QED BY <2>1, <2>2, <2>3, <2>4, <2>5, <2>6 DEF IInv
  <1>7. CASE WorkerShardDone(w)
    <2>1. TypeOK'
      BY <1>7, <1>inv, <1>null, <1>thr, <1>run DEF WorkerShardDone, TypeOK, poolVars,
         jobVars, workerVars, callVars
    <2>2. LifeInv'
      BY <1>7, <1>inv, <1>null, <1>thr, <1>run DEF WorkerShardDone, TypeOK, LifeInv,
         NoOrphanWorker, poolVars, jobVars, workerVars, callVars
    <2>3. CallInv'
      BY <1>7, <1>inv, <1>null, <1>thr, <1>run DEF WorkerShardDone, TypeOK, CallInv,
         InFlight, poolVars, jobVars, workerVars, callVars
    <2>4. JobInv'
      BY <1>7, <1>inv, <1>null, <1>thr, <1>run DEF WorkerShardDone, TypeOK, JobInv,
         InFlight, poolVars, jobVars, workerVars, callVars
    <2>5. ErrorInv'
      BY <1>7, <1>inv, <1>null, <1>thr, <1>run DEF WorkerShardDone, TypeOK, ErrorInv,
         ErrorBelongsToOwnJob, poolVars, jobVars, workerVars, callVars
    <2>6. CompletedExact'
      BY <1>7, <1>inv, <1>null, <1>thr, <1>run DEF WorkerShardDone, TypeOK, InFlight,
         CompletedExact, Finished, poolVars, jobVars, workerVars, callVars
    <2> QED BY <2>1, <2>2, <2>3, <2>4, <2>5, <2>6 DEF IInv
  <1>8. CASE WorkerFinish(w)
    <2>1. TypeOK'
      <3>1. completed + 1 \in 0 .. (TotalThreads - 1) /\ completed' = completed + 1
        BY <1>counts, <1>8
      <3> QED BY <1>8, <1>inv, <3>1 DEF WorkerFinish, TypeOK, poolVars, callVars
    <2>2. LifeInv'
      BY <1>8, <1>inv, <1>null, <1>thr, <1>run DEF WorkerFinish, TypeOK, LifeInv,
         NoOrphanWorker, poolVars, jobVars, workerVars, callVars
    <2>3. CallInv'
      BY <1>8, <1>inv, <1>null, <1>thr, <1>run DEF WorkerFinish, TypeOK, CallInv,
         InFlight, poolVars, jobVars, workerVars, callVars
    <2>4. JobInv'
      BY <1>8, <1>inv, <1>null, <1>thr, <1>run DEF WorkerFinish, TypeOK, JobInv,
         InFlight, poolVars, jobVars, workerVars, callVars
    <2>5. ErrorInv'
      BY <1>8, <1>inv, <1>null, <1>thr, <1>run DEF WorkerFinish, TypeOK, ErrorInv,
         ErrorBelongsToOwnJob, poolVars, jobVars, workerVars, callVars
    <2>6. CompletedExact'
      BY <1>counts, <1>8 DEF CompletedExact
    <2> QED BY <2>1, <2>2, <2>3, <2>4, <2>5, <2>6 DEF IInv
  <1>9. CASE WorkerNotify(w)
    <2>1. TypeOK'
      BY <1>9, <1>inv, <1>null, <1>thr, <1>run DEF WorkerNotify, TypeOK, poolVars,
         jobVars, workerVars, callVars
    <2>2. LifeInv'
      BY <1>9, <1>inv, <1>null, <1>thr, <1>run DEF WorkerNotify, TypeOK, LifeInv,
         NoOrphanWorker, poolVars, jobVars, workerVars, callVars
    <2>3. CallInv'
      BY <1>9, <1>inv, <1>null, <1>thr, <1>run DEF WorkerNotify, TypeOK, CallInv,
         InFlight, poolVars, jobVars, workerVars, callVars
    <2>4. JobInv'
      BY <1>9, <1>inv, <1>null, <1>thr, <1>run DEF WorkerNotify, TypeOK, JobInv,
         InFlight, poolVars, jobVars, workerVars, callVars
    <2>5. ErrorInv'
      BY <1>9, <1>inv, <1>null, <1>thr, <1>run DEF WorkerNotify, TypeOK, ErrorInv,
         ErrorBelongsToOwnJob, poolVars, jobVars, workerVars, callVars
    <2>6. CompletedExact'
      BY <1>9, <1>inv, <1>null, <1>thr, <1>run DEF WorkerNotify, TypeOK, InFlight,
         CompletedExact, Finished, poolVars, jobVars, workerVars, callVars
    <2> QED BY <2>1, <2>2, <2>3, <2>4, <2>5, <2>6 DEF IInv
  <1> QED BY <1>1, <1>2, <1>3, <1>4, <1>5, <1>6, <1>7, <1>8, <1>9 DEF WorkerStep

\* A step of a call that has passed the argument checks keeps the invariant.
LEMMA SubmitterKeepsIInv ==
    ASSUME IInv, NEW s \in Submitters, SubmitterStep(s) \/ SubmitterSpuriousWake(s)
    PROVE  IInv'
  <1>inv. TypeOK /\ LifeInv /\ CallInv /\ JobInv /\ ErrorInv /\ CompletedExact
    BY DEF IInv
  <1>null. NULL \notin Requests /\ NULL \notin Submitters /\ NULL \notin Errors
    BY NullFacts
  <1>thr. TotalThreads \in Nat \ {0} /\ SizeMax \in Nat \ {0} /\ Workers = 1 .. (TotalThreads - 1)
    BY ThreadsAssumption DEF Workers
  <1>live. spc[s] # "idle" => life = "live" /\ created = TotalThreads - 1
    BY <1>inv DEF LifeInv
  <1>req. spc[s] # "idle" =>
             /\ request[s] \in Requests /\ Accepted(request[s])
             /\ request[s].output_channels \in 0..SizeMax
             /\ ShardCount(request[s].output_channels, 0) \in 0..SizeMax
    <2>1. SUFFICES ASSUME spc[s] # "idle"
                   PROVE  /\ request[s] \in Requests /\ Accepted(request[s])
                          /\ request[s].output_channels \in 0..SizeMax
                          /\ ShardCount(request[s].output_channels, 0) \in 0..SizeMax
      OBVIOUS
    <2>2. request[s] \in Requests /\ Accepted(request[s])
      BY <1>inv, <2>1 DEF CallInv
    <2>3. request[s].output_channels \in 0..SizeMax /\ 0 \in Shards
      BY <1>thr, <2>2, RequestFacts DEF Shards
    <2>4. ShardCount(request[s].output_channels, 0) \in 0 .. request[s].output_channels
      BY <2>3, ShardShape
    <2> QED BY <1>thr, <2>2, <2>3, <2>4
  <1>alone. spc[s] \notin {"idle", "submit"} =>
               /\ submit_mutex = s
               /\ \A t \in Submitters \ {s} : spc[t] \in {"idle", "submit"} /\ ~InFlight(t)
    BY <1>inv, OneHolder DEF CallInv, InFlight, TypeOK
  <1>quiet. spc[s] \notin {"idle", "submit"} /\ ~InFlight(s) =>
               /\ job = NULL
               /\ \A w \in Workers : observed[w] = generation /\ wpc[w] \notin {"run", "finish"}
    BY QuietPool
  <1>barrier. InFlight(s) /\ completed = created =>
                 \A w \in Workers : observed[w] = generation /\ wpc[w] \notin {"run", "finish"}
    <2>1. SUFFICES ASSUME InFlight(s), completed = created
                   PROVE  \A w \in Workers : observed[w] = generation
                                             /\ wpc[w] \notin {"run", "finish"}
      OBVIOUS
    <2>2. Cardinality(Finished) = TotalThreads - 1
      BY <1>inv, <1>live, <2>1 DEF CompletedExact, InFlight
    <2>3. Finished = Workers
      BY <2>2, FinishedFacts
    <2> QED BY <2>3 DEF Finished
  <1>1. CASE LockSubmission(s)
    <2>1. TypeOK'
      BY <1>1, <1>inv, <1>null, <1>thr, <1>live, <1>req, <1>alone DEF LockSubmission,
         TypeOK, poolVars, jobVars, workerVars, callVars
    <2>2. LifeInv'
      BY <1>1, <1>inv, <1>null, <1>thr, <1>live, <1>req, <1>alone DEF LockSubmission,
         TypeOK, LifeInv, NoOrphanWorker, poolVars, jobVars, workerVars, callVars
    <2>3. CallInv'
      BY <1>1, <1>inv, <1>null, <1>thr, <1>live, <1>req, <1>alone DEF LockSubmission,
         TypeOK, CallInv, InFlight, poolVars, jobVars, workerVars, callVars
    <2>4. JobInv'
      BY <1>1, <1>inv, <1>null, <1>thr, <1>live, <1>req, <1>alone, <1>quiet DEF
         LockSubmission, TypeOK, JobInv, InFlight, poolVars, jobVars, workerVars,
         callVars
    <2>5. ErrorInv'
      BY <1>1, <1>inv, <1>null, <1>thr, <1>live, <1>req, <1>alone, <1>quiet DEF
         LockSubmission, TypeOK, ErrorInv, ErrorBelongsToOwnJob, poolVars, jobVars,
         workerVars, callVars
    <2>6. CompletedExact'
      <3>1. Finished' = Finished /\ completed' = completed
        BY <1>1, <1>inv DEF LockSubmission, Finished, TypeOK, jobVars, workerVars
      <3>2. (\E t \in Submitters : InFlight(t)') => \E t \in Submitters : InFlight(t)
        BY <1>1, <1>inv DEF LockSubmission, InFlight, TypeOK, callVars
      <3> QED BY <1>inv, <3>1, <3>2 DEF CompletedExact
    <2> QED BY <2>1, <2>2, <2>3, <2>4, <2>5, <2>6 DEF IInv
  <1>2. CASE ScalarStep(s)
    <2>1. TypeOK'
      BY <1>2, <1>inv, <1>null, <1>thr, <1>live, <1>req, <1>alone DEF ScalarStep,
         TypeOK, poolVars, jobVars, workerVars, callVars
    <2>2. LifeInv'
      BY <1>2, <1>inv, <1>null, <1>thr, <1>live, <1>req, <1>alone DEF ScalarStep,
         TypeOK, LifeInv, NoOrphanWorker, poolVars, jobVars, workerVars, callVars
    <2>3. CallInv'
      BY <1>2, <1>inv, <1>null, <1>thr, <1>live, <1>req, <1>alone DEF ScalarStep,
         TypeOK, CallInv, InFlight, poolVars, jobVars, workerVars, callVars
    <2>4. JobInv'
      BY <1>2, <1>inv, <1>null, <1>thr, <1>live, <1>req, <1>alone, <1>quiet DEF
         ScalarStep, TypeOK, JobInv, InFlight, poolVars, jobVars, workerVars, callVars
    <2>5. ErrorInv'
      BY <1>2, <1>inv, <1>null, <1>thr, <1>live, <1>req, <1>alone, <1>quiet DEF
         ScalarStep, TypeOK, ErrorInv, ErrorBelongsToOwnJob, poolVars, jobVars,
         workerVars, callVars
    <2>6. CompletedExact'
      <3>1. Finished' = Finished /\ completed' = completed
        BY <1>2, <1>inv DEF ScalarStep, Finished, TypeOK, jobVars, workerVars
      <3>2. (\E t \in Submitters : InFlight(t)') => \E t \in Submitters : InFlight(t)
        BY <1>2, <1>inv DEF ScalarStep, InFlight, TypeOK, callVars
      <3> QED BY <1>inv, <3>1, <3>2 DEF CompletedExact
    <2> QED BY <2>1, <2>2, <2>3, <2>4, <2>5, <2>6 DEF IInv
  <1>3. CASE ScalarDone(s)
    <2>1. TypeOK'
      BY <1>3, <1>inv, <1>null, <1>thr, <1>live, <1>req, <1>alone DEF ScalarDone,
         TypeOK, poolVars, jobVars, workerVars, callVars
    <2>2. LifeInv'
      BY <1>3, <1>inv, <1>null, <1>thr, <1>live, <1>req, <1>alone DEF ScalarDone,
         TypeOK, LifeInv, NoOrphanWorker, poolVars, jobVars, workerVars, callVars
    <2>3. CallInv'
      BY <1>3, <1>inv, <1>null, <1>thr, <1>live, <1>req, <1>alone DEF ScalarDone,
         TypeOK, CallInv, InFlight, poolVars, jobVars, workerVars, callVars
    <2>4. JobInv'
      BY <1>3, <1>inv, <1>null, <1>thr, <1>live, <1>req, <1>alone, <1>quiet DEF
         ScalarDone, TypeOK, JobInv, InFlight, poolVars, jobVars, workerVars, callVars
    <2>5. ErrorInv'
      BY <1>3, <1>inv, <1>null, <1>thr, <1>live, <1>req, <1>alone, <1>quiet DEF
         ScalarDone, TypeOK, ErrorInv, ErrorBelongsToOwnJob, poolVars, jobVars,
         workerVars, callVars
    <2>6. CompletedExact'
      <3>1. Finished' = Finished /\ completed' = completed
        BY <1>3, <1>inv DEF ScalarDone, Finished, TypeOK, jobVars, workerVars
      <3>2. (\E t \in Submitters : InFlight(t)') => \E t \in Submitters : InFlight(t)
        BY <1>3, <1>inv DEF ScalarDone, InFlight, TypeOK, callVars
      <3> QED BY <1>inv, <3>1, <3>2 DEF CompletedExact
    <2> QED BY <2>1, <2>2, <2>3, <2>4, <2>5, <2>6 DEF IInv
  <1>4. CASE Publish(s)
    <2>1. TypeOK'
      <3>1. generation' \in 0..SizeMax
        BY <1>4, <1>inv, NextGeneration DEF Publish, TypeOK
      <3> QED BY <1>4, <1>inv, <1>thr, <1>req, <3>1 DEF Publish, TypeOK, poolVars,
                 workerVars
    <2>2. LifeInv'
      BY <1>4, <1>inv, <1>null, <1>thr, <1>live, <1>req, <1>alone DEF Publish, TypeOK,
         LifeInv, NoOrphanWorker, poolVars, jobVars, workerVars, callVars
    <2>3. CallInv'
      BY <1>4, <1>inv, <1>null, <1>thr, <1>live, <1>req, <1>alone DEF Publish, TypeOK,
         CallInv, InFlight, poolVars, jobVars, workerVars, callVars
    <2>4. JobInv'
      BY <1>4, <1>inv, <1>null, <1>thr, <1>live, <1>req, <1>alone, <1>quiet DEF Publish,
         TypeOK, JobInv, InFlight, poolVars, jobVars, workerVars, callVars
    <2>5. ErrorInv'
      BY <1>4, <1>inv, <1>null, <1>thr, <1>live, <1>req, <1>alone, <1>quiet DEF Publish,
         TypeOK, ErrorInv, ErrorBelongsToOwnJob, poolVars, jobVars, workerVars, callVars
    <2>6. CompletedExact'
      <3>1. generation' # generation
        BY <1>4, <1>inv, NextGeneration DEF Publish, TypeOK
      <3>2. Finished' = {}
        BY <1>4, <1>quiet, <3>1 DEF Publish, InFlight, Finished, workerVars
      <3> QED BY <1>4, <3>2, FS_EmptySet DEF Publish, CompletedExact
    <2> QED BY <2>1, <2>2, <2>3, <2>4, <2>5, <2>6 DEF IInv
  <1>5. CASE NotifyAll(s)
    <2>1. TypeOK'
      BY <1>5, <1>inv, <1>null, <1>thr, <1>live, <1>req, <1>alone DEF NotifyAll, TypeOK,
         poolVars, jobVars, workerVars, callVars, WakeWorkers
    <2>2. LifeInv'
      BY <1>5, <1>inv, <1>null, <1>thr, <1>live, <1>req, <1>alone DEF NotifyAll, TypeOK,
         LifeInv, NoOrphanWorker, poolVars, jobVars, workerVars, callVars, WakeWorkers
    <2>3. CallInv'
      BY <1>5, <1>inv, <1>null, <1>thr, <1>live, <1>req, <1>alone DEF NotifyAll, TypeOK,
         CallInv, InFlight, poolVars, jobVars, workerVars, callVars, WakeWorkers
    <2>4. JobInv'
      BY <1>5, <1>inv, <1>null, <1>thr, <1>live, <1>req, <1>alone, <1>quiet DEF
         NotifyAll, TypeOK, JobInv, InFlight, poolVars, jobVars, workerVars, callVars,
         WakeWorkers
    <2>5. ErrorInv'
      BY <1>5, <1>inv, <1>null, <1>thr, <1>live, <1>req, <1>alone, <1>quiet DEF
         NotifyAll, TypeOK, ErrorInv, ErrorBelongsToOwnJob, poolVars, jobVars,
         workerVars, callVars, WakeWorkers
    <2>6. CompletedExact'
      <3>1. Finished' = Finished /\ completed' = completed
        BY <1>5, <1>inv DEF NotifyAll, WakeWorkers, Finished, TypeOK, jobVars,
           workerVars
      <3>2. (\E t \in Submitters : InFlight(t)') => \E t \in Submitters : InFlight(t)
        BY <1>5, <1>inv DEF NotifyAll, InFlight, TypeOK, callVars
      <3> QED BY <1>inv, <3>1, <3>2 DEF CompletedExact
    <2> QED BY <2>1, <2>2, <2>3, <2>4, <2>5, <2>6 DEF IInv
  <1>6. CASE CallerChannel(s)
    <2>1. TypeOK'
      BY <1>6, <1>inv, <1>null, <1>thr, <1>live, <1>req, <1>alone DEF CallerChannel,
         TypeOK, poolVars, jobVars, workerVars, callVars, WriteShard
    <2>2. LifeInv'
      BY <1>6, <1>inv, <1>null, <1>thr, <1>live, <1>req, <1>alone DEF CallerChannel,
         TypeOK, LifeInv, NoOrphanWorker, poolVars, jobVars, workerVars, callVars,
         WriteShard
    <2>3. CallInv'
      BY <1>6, <1>inv, <1>null, <1>thr, <1>live, <1>req, <1>alone DEF CallerChannel,
         TypeOK, CallInv, InFlight, poolVars, jobVars, workerVars, callVars, WriteShard
    <2>4. JobInv'
      BY <1>6, <1>inv, <1>null, <1>thr, <1>live, <1>req, <1>alone, <1>quiet DEF
         CallerChannel, TypeOK, JobInv, InFlight, poolVars, jobVars, workerVars,
         callVars, WriteShard
    <2>5. ErrorInv'
      BY <1>6, <1>inv, <1>null, <1>thr, <1>live, <1>req, <1>alone, <1>quiet DEF
         CallerChannel, TypeOK, ErrorInv, ErrorBelongsToOwnJob, poolVars, jobVars,
         workerVars, callVars, WriteShard
    <2>6. CompletedExact'
      <3>1. Finished' = Finished /\ completed' = completed
        BY <1>6, <1>inv DEF CallerChannel, Finished, TypeOK, jobVars, workerVars
      <3>2. (\E t \in Submitters : InFlight(t)') => \E t \in Submitters : InFlight(t)
        BY <1>6, <1>inv DEF CallerChannel, InFlight, TypeOK, callVars
      <3> QED BY <1>inv, <3>1, <3>2 DEF CompletedExact
    <2> QED BY <2>1, <2>2, <2>3, <2>4, <2>5, <2>6 DEF IInv
  <1>7. CASE CallerThrow(s)
    <2>1. TypeOK'
      <3>1. [req |-> request[s], shard |-> 0] \in Errors
        BY <1>7, <1>req, <1>thr DEF CallerThrow, Errors, Shards
      <3> QED BY <1>7, <1>inv, <3>1 DEF CallerThrow, TypeOK, poolVars, jobVars,
                 workerVars
    <2>2. LifeInv'
      BY <1>7, <1>inv, <1>null, <1>thr, <1>live, <1>req, <1>alone DEF CallerThrow,
         TypeOK, LifeInv, NoOrphanWorker, poolVars, jobVars, workerVars, callVars
    <2>3. CallInv'
      BY <1>7, <1>inv, <1>null, <1>thr, <1>live, <1>req, <1>alone DEF CallerThrow,
         TypeOK, CallInv, InFlight, poolVars, jobVars, workerVars, callVars
    <2>4. JobInv'
      BY <1>7, <1>inv, <1>null, <1>thr, <1>live, <1>req, <1>alone, <1>quiet DEF
         CallerThrow, TypeOK, JobInv, InFlight, poolVars, jobVars, workerVars, callVars
    <2>5. ErrorInv'
      BY <1>7, <1>inv, <1>null, <1>thr, <1>live, <1>req, <1>alone, <1>quiet DEF
         CallerThrow, TypeOK, ErrorInv, ErrorBelongsToOwnJob, poolVars, jobVars,
         workerVars, callVars
    <2>6. CompletedExact'
      <3>1. Finished' = Finished /\ completed' = completed
        BY <1>7, <1>inv DEF CallerThrow, Finished, TypeOK, jobVars, workerVars
      <3>2. (\E t \in Submitters : InFlight(t)') => \E t \in Submitters : InFlight(t)
        BY <1>7, <1>inv DEF CallerThrow, InFlight, TypeOK, callVars
      <3> QED BY <1>inv, <3>1, <3>2 DEF CompletedExact
    <2> QED BY <2>1, <2>2, <2>3, <2>4, <2>5, <2>6 DEF IInv
  <1>8. CASE CallerShardDone(s)
    <2>1. TypeOK'
      BY <1>8, <1>inv, <1>null, <1>thr, <1>live, <1>req, <1>alone DEF CallerShardDone,
         TypeOK, poolVars, jobVars, workerVars, callVars
    <2>2. LifeInv'
      BY <1>8, <1>inv, <1>null, <1>thr, <1>live, <1>req, <1>alone DEF CallerShardDone,
         TypeOK, LifeInv, NoOrphanWorker, poolVars, jobVars, workerVars, callVars
    <2>3. CallInv'
      BY <1>8, <1>inv, <1>null, <1>thr, <1>live, <1>req, <1>alone DEF CallerShardDone,
         TypeOK, CallInv, InFlight, poolVars, jobVars, workerVars, callVars
    <2>4. JobInv'
      BY <1>8, <1>inv, <1>null, <1>thr, <1>live, <1>req, <1>alone, <1>quiet DEF
         CallerShardDone, TypeOK, JobInv, InFlight, poolVars, jobVars, workerVars,
         callVars
    <2>5. ErrorInv'
      BY <1>8, <1>inv, <1>null, <1>thr, <1>live, <1>req, <1>alone, <1>quiet DEF
         CallerShardDone, TypeOK, ErrorInv, ErrorBelongsToOwnJob, poolVars, jobVars,
         workerVars, callVars
    <2>6. CompletedExact'
      <3>1. Finished' = Finished /\ completed' = completed
        BY <1>8, <1>inv DEF CallerShardDone, Finished, TypeOK, jobVars, workerVars
      <3>2. (\E t \in Submitters : InFlight(t)') => \E t \in Submitters : InFlight(t)
        BY <1>8, <1>inv DEF CallerShardDone, InFlight, TypeOK, callVars
      <3> QED BY <1>inv, <3>1, <3>2 DEF CompletedExact
    <2> QED BY <2>1, <2>2, <2>3, <2>4, <2>5, <2>6 DEF IInv
  <1>9. CASE Collect(s)
    <2>1. TypeOK'
      BY <1>9, <1>inv, <1>null, <1>thr, <1>live, <1>req, <1>alone DEF Collect, TypeOK,
         poolVars, jobVars, workerVars, callVars
    <2>2. LifeInv'
      BY <1>9, <1>inv, <1>null, <1>thr, <1>live, <1>req, <1>alone DEF Collect, TypeOK,
         LifeInv, NoOrphanWorker, poolVars, jobVars, workerVars, callVars
    <2>3. CallInv'
      BY <1>9, <1>inv, <1>null, <1>thr, <1>live, <1>req, <1>alone DEF Collect, TypeOK,
         CallInv, InFlight, poolVars, jobVars, workerVars, callVars
    <2>4. JobInv'
      BY <1>9, <1>inv, <1>null, <1>alone, <1>barrier DEF Collect, TypeOK, JobInv,
         InFlight, poolVars, workerVars
    <2>5. ErrorInv'
      <3>1. job = request[s] /\ job # NULL
        BY <1>9, <1>inv, <1>req, <1>null DEF Collect, JobInv, InFlight
      <3> QED BY <1>9, <1>inv, <1>null, <3>1 DEF Collect, TypeOK, ErrorInv,
                 ErrorBelongsToOwnJob, poolVars, workerVars
    <2>6. CompletedExact'
      <3>1. Finished' = Finished /\ completed' = completed
        BY <1>9, <1>inv DEF Collect, Finished, TypeOK, jobVars, workerVars
      <3>2. (\E t \in Submitters : InFlight(t)') => \E t \in Submitters : InFlight(t)
        BY <1>9, <1>inv DEF Collect, InFlight, TypeOK, callVars
      <3> QED BY <1>inv, <3>1, <3>2 DEF CompletedExact
    <2> QED BY <2>1, <2>2, <2>3, <2>4, <2>5, <2>6 DEF IInv
  <1>10. CASE Block(s)
    <2>1. TypeOK'
      BY <1>10, <1>inv, <1>null, <1>thr, <1>live, <1>req, <1>alone DEF Block, TypeOK,
         poolVars, jobVars, workerVars, callVars
    <2>2. LifeInv'
      BY <1>10, <1>inv, <1>null, <1>thr, <1>live, <1>req, <1>alone DEF Block, TypeOK,
         LifeInv, NoOrphanWorker, poolVars, jobVars, workerVars, callVars
    <2>3. CallInv'
      BY <1>10, <1>inv, <1>null, <1>thr, <1>live, <1>req, <1>alone DEF Block, TypeOK,
         CallInv, InFlight, poolVars, jobVars, workerVars, callVars
    <2>4. JobInv'
      BY <1>10, <1>inv, <1>null, <1>thr, <1>live, <1>req, <1>alone, <1>quiet DEF Block,
         TypeOK, JobInv, InFlight, poolVars, jobVars, workerVars, callVars
    <2>5. ErrorInv'
      BY <1>10, <1>inv, <1>null, <1>thr, <1>live, <1>req, <1>alone, <1>quiet DEF Block,
         TypeOK, ErrorInv, ErrorBelongsToOwnJob, poolVars, jobVars, workerVars, callVars
    <2>6. CompletedExact'
      <3>1. Finished' = Finished /\ completed' = completed
        BY <1>10, <1>inv DEF Block, Finished, TypeOK, jobVars, workerVars
      <3>2. (\E t \in Submitters : InFlight(t)') => \E t \in Submitters : InFlight(t)
        BY <1>10, <1>inv DEF Block, InFlight, TypeOK, callVars
      <3> QED BY <1>inv, <3>1, <3>2 DEF CompletedExact
    <2> QED BY <2>1, <2>2, <2>3, <2>4, <2>5, <2>6 DEF IInv
  <1>11. CASE SubmitterSpuriousWake(s)
    <2>1. TypeOK'
      BY <1>11, <1>inv, <1>null, <1>thr, <1>live, <1>req, <1>alone DEF
         SubmitterSpuriousWake, TypeOK, poolVars, jobVars, workerVars, callVars
    <2>2. LifeInv'
      BY <1>11, <1>inv, <1>null, <1>thr, <1>live, <1>req, <1>alone DEF
         SubmitterSpuriousWake, TypeOK, LifeInv, NoOrphanWorker, poolVars, jobVars,
         workerVars, callVars
    <2>3. CallInv'
      BY <1>11, <1>inv, <1>null, <1>thr, <1>live, <1>req, <1>alone DEF
         SubmitterSpuriousWake, TypeOK, CallInv, InFlight, poolVars, jobVars,
         workerVars, callVars
    <2>4. JobInv'
      BY <1>11, <1>inv, <1>null, <1>thr, <1>live, <1>req, <1>alone, <1>quiet DEF
         SubmitterSpuriousWake, TypeOK, JobInv, InFlight, poolVars, jobVars, workerVars,
         callVars
    <2>5. ErrorInv'
      BY <1>11, <1>inv, <1>null, <1>thr, <1>live, <1>req, <1>alone, <1>quiet DEF
         SubmitterSpuriousWake, TypeOK, ErrorInv, ErrorBelongsToOwnJob, poolVars,
         jobVars, workerVars, callVars
    <2>6. CompletedExact'
      <3>1. Finished' = Finished /\ completed' = completed
        BY <1>11, <1>inv DEF SubmitterSpuriousWake, Finished, TypeOK, jobVars,
           workerVars
      <3>2. (\E t \in Submitters : InFlight(t)') => \E t \in Submitters : InFlight(t)
        BY <1>11, <1>inv DEF SubmitterSpuriousWake, InFlight, TypeOK, callVars
      <3> QED BY <1>inv, <3>1, <3>2 DEF CompletedExact
    <2> QED BY <2>1, <2>2, <2>3, <2>4, <2>5, <2>6 DEF IInv
  <1>12. CASE Return(s)
    <2>1. TypeOK'
      BY <1>12, <1>inv, <1>null, <1>thr, <1>live, <1>req, <1>alone DEF Return, TypeOK,
         poolVars, jobVars, workerVars, callVars
    <2>2. LifeInv'
      BY <1>12, <1>inv, <1>null, <1>thr, <1>live, <1>req, <1>alone DEF Return, TypeOK,
         LifeInv, NoOrphanWorker, poolVars, jobVars, workerVars, callVars
    <2>3. CallInv'
      BY <1>12, <1>inv, <1>null, <1>thr, <1>live, <1>req, <1>alone DEF Return, TypeOK,
         CallInv, InFlight, poolVars, jobVars, workerVars, callVars
    <2>4. JobInv'
      BY <1>12, <1>inv, <1>null, <1>thr, <1>live, <1>req, <1>alone, <1>quiet DEF Return,
         TypeOK, JobInv, InFlight, poolVars, jobVars, workerVars, callVars
    <2>5. ErrorInv'
      BY <1>12, <1>inv, <1>null, <1>thr, <1>live, <1>req, <1>alone, <1>quiet DEF Return,
         TypeOK, ErrorInv, ErrorBelongsToOwnJob, poolVars, jobVars, workerVars, callVars
    <2>6. CompletedExact'
      <3>1. Finished' = Finished /\ completed' = completed
        BY <1>12, <1>inv DEF Return, Finished, TypeOK, jobVars, workerVars
      <3>2. (\E t \in Submitters : InFlight(t)') => \E t \in Submitters : InFlight(t)
        BY <1>12, <1>inv DEF Return, InFlight, TypeOK, callVars
      <3> QED BY <1>inv, <3>1, <3>2 DEF CompletedExact
    <2> QED BY <2>1, <2>2, <2>3, <2>4, <2>5, <2>6 DEF IInv
  <1> QED BY <1>1, <1>2, <1>3, <1>4, <1>5, <1>6, <1>7, <1>8, <1>9, <1>10, <1>11, <1>12
             DEF SubmitterStep

\* Calling linear(), with acceptable arguments or not, keeps the invariant.
LEMMA CallKeepsIInv ==
    ASSUME IInv, NEW s \in Submitters, NEW r \in Requests, Reject(s, r) \/ Call(s, r)
    PROVE  IInv'
  <1>inv. TypeOK /\ LifeInv /\ CallInv /\ JobInv /\ ErrorInv /\ CompletedExact
    BY DEF IInv
  <1>null. NULL \notin Requests /\ NULL \notin Submitters /\ NULL \notin Errors
    BY NullFacts
  <1>1. CASE Reject(s, r)
    <2>1. TypeOK'
      <3>1. [req |-> r, shard |-> NULL] \in Errors
        BY DEF Errors
      <3> QED BY <1>1, <1>inv, <3>1 DEF Reject, TypeOK, poolVars, jobVars, workerVars
    <2>2. LifeInv'
      BY <1>1, <1>inv, <1>null DEF Reject, TypeOK, LifeInv, NoOrphanWorker, poolVars,
         jobVars, workerVars, callVars
    <2>3. CallInv'
      BY <1>1, <1>inv, <1>null DEF Reject, TypeOK, CallInv, InFlight, poolVars, jobVars,
         workerVars, callVars
    <2>4. JobInv'
      BY <1>1, <1>inv, <1>null DEF Reject, TypeOK, JobInv, InFlight, poolVars, jobVars,
         workerVars, callVars
    <2>5. ErrorInv'
      BY <1>1, <1>inv, <1>null DEF Reject, TypeOK, ErrorInv, ErrorBelongsToOwnJob,
         poolVars, jobVars, workerVars, callVars
    <2>6. CompletedExact'
      <3>1. Finished' = Finished /\ completed' = completed
        BY <1>1 DEF Reject, Finished, jobVars, workerVars
      <3>2. (\E t \in Submitters : InFlight(t)') => \E t \in Submitters : InFlight(t)
        BY <1>1, <1>inv DEF Reject, InFlight, TypeOK
      <3> QED BY <1>inv, <3>1, <3>2 DEF CompletedExact
    <2> QED BY <2>1, <2>2, <2>3, <2>4, <2>5, <2>6 DEF IInv
  <1>2. CASE Call(s, r)
    <2>1. TypeOK'
      BY <1>2, <1>inv, <1>null DEF Call, TypeOK, poolVars, jobVars, workerVars, callVars
    <2>2. LifeInv'
      BY <1>2, <1>inv, <1>null DEF Call, TypeOK, LifeInv, NoOrphanWorker, poolVars,
         jobVars, workerVars, callVars
    <2>3. CallInv'
      BY <1>2, <1>inv, <1>null DEF Call, TypeOK, CallInv, InFlight, poolVars, jobVars,
         workerVars, callVars
    <2>4. JobInv'
      BY <1>2, <1>inv, <1>null DEF Call, TypeOK, JobInv, InFlight, poolVars, jobVars,
         workerVars, callVars
    <2>5. ErrorInv'
      BY <1>2, <1>inv, <1>null DEF Call, TypeOK, ErrorInv, ErrorBelongsToOwnJob,
         poolVars, jobVars, workerVars, callVars
    <2>6. CompletedExact'
      <3>1. Finished' = Finished /\ completed' = completed
        BY <1>2 DEF Call, Finished, jobVars, workerVars
      <3>2. (\E t \in Submitters : InFlight(t)') => \E t \in Submitters : InFlight(t)
        BY <1>2, <1>inv DEF Call, InFlight, TypeOK
      <3> QED BY <1>inv, <3>1, <3>2 DEF CompletedExact
    <2> QED BY <2>1, <2>2, <2>3, <2>4, <2>5, <2>6 DEF IInv
  <1> QED BY <1>1, <1>2

LEMMA InitIInv == Init => IInv
  <1> SUFFICES ASSUME Init PROVE IInv
    OBVIOUS
  <1>1. NULL \notin Requests /\ NULL \notin Submitters /\ NULL \notin Errors
    BY NullFacts
  <1>2. TotalThreads \in Nat \ {0} /\ SizeMax \in Nat \ {0} /\ Workers = 1 .. (TotalThreads - 1)
    BY ThreadsAssumption DEF Workers
  <1>3. TypeOK
    <2>1. stopping \in BOOLEAN
      BY DEF Init
    <2>2. DOMAIN out = Buffers /\ \A b \in Buffers : DOMAIN out[b] = Channels
      BY DEF Init
    <2> QED BY <1>2, <2>1, <2>2 DEF Init, TypeOK
  <1>4. LifeInv /\ JobInv
    BY <1>1, <1>2 DEF Init, LifeInv, NoOrphanWorker, JobInv, InFlight
  <1>5. CallInv /\ ErrorInv
    BY <1>1 DEF Init, CallInv, ErrorInv, ErrorBelongsToOwnJob, InFlight
  <1>6. CompletedExact
    BY DEF Init, CompletedExact, InFlight
  <1> QED BY <1>3, <1>4, <1>5, <1>6 DEF IInv

LEMMA StutterIInv ==
    ASSUME IInv, UNCHANGED vars
    PROVE  IInv'
  BY DEF IInv, TypeOK, LifeInv, NoOrphanWorker, CallInv, JobInv, ErrorInv,
     ErrorBelongsToOwnJob, CompletedExact, InFlight, Finished, vars, poolVars,
     jobVars, workerVars, callVars

LEMMA NextIInv ==
    ASSUME IInv, [Next]_vars
    PROVE  IInv'
  <1>1. CASE OwnerAction
    BY <1>1, OwnerKeepsIInv
  <1>2. CASE \E w \in Workers : WorkerStep(w) \/ WorkerSpuriousWake(w)
    BY <1>2, WorkerKeepsIInv
  <1>3. CASE \E s \in Submitters : SubmitterStep(s) \/ SubmitterSpuriousWake(s)
    BY <1>3, SubmitterKeepsIInv
  <1>4. CASE \E s \in Submitters : \E r \in Requests : Reject(s, r) \/ Call(s, r)
    BY <1>4, CallKeepsIInv
  <1>5. CASE UNCHANGED vars
    BY <1>5, StutterIInv
  <1> QED BY <1>1, <1>2, <1>3, <1>4, <1>5 DEF Next, OwnerAction

\* The inductive invariant holds throughout.
THEOREM Inductive == Spec => []IInv
  <1>1. Init => IInv
    BY InitIInv
  <1>2. IInv /\ [Next]_vars => IInv'
    BY NextIInv
  <1> QED BY <1>1, <1>2, PTL DEF Spec

\* Every variable keeps its type; in particular completed_ counts at most the
\* workers there are, although it is reset and incremented by different threads.
THEOREM TypeCorrect == Spec => []TypeOK
  <1>1. IInv => TypeOK
    BY DEF IInv
  <1> QED BY <1>1, Inductive, PTL

\* A worker dereferences only the spans of the linear() call in flight, whose
\* caller holds submit_mutex_ and cannot return before the worker is done.
THEOREM BorrowedDataStaysAlive == Spec => []BorrowedDataAlive
  <1>1. ASSUME IInv PROVE BorrowedDataAlive
    <2>1. TypeOK /\ CallInv /\ JobInv
      BY <1>1 DEF IInv
    <2>2. ASSUME job # NULL
          PROVE  \E s \in Submitters :
                    InFlight(s) /\ submit_mutex = s /\ request[s] = job
      <3>1. PICK s \in Submitters : InFlight(s)
        BY <2>1, <2>2 DEF JobInv
      <3>2. submit_mutex = s /\ request[s] = job
        BY <2>1, <3>1 DEF CallInv, JobInv, InFlight
      <3> QED BY <3>1, <3>2
    <2>3. \A w \in Workers : wpc[w] = "run" => job # NULL /\ current[w] = job
      BY <2>1 DEF JobInv
    <2> QED BY <2>2, <2>3 DEF BorrowedDataAlive
  <1> QED BY <1>1, Inductive, PTL

\* completed_ is the number of workers that finished the job in flight.
THEOREM BarrierIsExact == Spec => []CompletedExact
  <1>1. IInv => CompletedExact
    BY DEF IInv
  <1> QED BY <1>1, Inductive, PTL

\* An error is only ever rethrown by the call it is about.
THEOREM ErrorsAreOwn == Spec => []ErrorBelongsToOwnJob
  <1>1. IInv => ErrorBelongsToOwnJob
    BY DEF IInv, ErrorInv
  <1> QED BY <1>1, Inductive, PTL

\* No worker thread outlives its executor, whether the destructor or a failed
\* constructor ends it.
THEOREM NoThreadOutlivesExecutor == Spec => []NoOrphanWorker
  <1>1. IInv => NoOrphanWorker
    BY DEF IInv, LifeInv
  <1> QED BY <1>1, Inductive, PTL

\* run_shard stays inside the caller's spans for every pool, shape and width of
\* size_t: what linear() checks before it takes a lock is all that is needed.
THEOREM ShardsStayInBounds == Spec => []ShardsInBounds
  <1>1. ASSUME IInv PROVE ShardsInBounds
    <2> SUFFICES ASSUME NEW s \in Submitters, InFlight(s)
                 PROVE  LET r == request[s]
                            n == r.output_channels
                            k == r.input_channels
                        IN  /\ IsPartition(n)
                            /\ WeightSlicesFit(n, k)
                            /\ \A shard \in Shards :
                                 LET last == ShardFirst(n, shard) + ShardCount(n, shard)
                                 IN  /\ last <= r.output_size
                                     /\ r.bias_size # 0 => last <= r.bias_size
                                     /\ WeightFirst(n, k, shard) + WeightCount(n, k, shard)
                                          <= r.weight_size
      BY DEF ShardsInBounds
    <2> DEFINE r == request[s]
               n == r.output_channels
               k == r.input_channels
    <2>1. r \in Requests /\ Accepted(r)
      BY <1>1 DEF IInv, CallInv, InFlight
    <2>2. n \in 0..SizeMax /\ k \in Nat /\ SizeMax \in Nat
      BY <2>1, RequestFacts, ThreadsAssumption
    <2>3. /\ n * k <= SizeMax /\ r.weight_size = n * k
          /\ r.output_size = n
          /\ r.bias_size # 0 => r.bias_size = n
      BY <2>1, <2>2, AcceptedFits
    <2> HIDE DEF n, k
    <2>4. IsPartition(n) /\ WeightSlicesFit(n, k)
      BY <2>2, <2>3, ShardsPartitionChannels, WeightSlicesInBounds
    <2>5. \A shard \in Shards : ShardFirst(n, shard) + ShardCount(n, shard) <= n
      BY <2>2, ShardShape
    <2>6. \A shard \in Shards :
              WeightFirst(n, k, shard) + WeightCount(n, k, shard) <= n * k
      BY <2>4 DEF WeightSlicesFit
    <2>7. \A shard \in Shards :
              LET last == ShardFirst(n, shard) + ShardCount(n, shard)
              IN  /\ last <= r.output_size
                  /\ r.bias_size # 0 => last <= r.bias_size
                  /\ WeightFirst(n, k, shard) + WeightCount(n, k, shard) <= r.weight_size
      BY <2>3, <2>5, <2>6
    <2> QED BY <2>4, <2>7 DEF n, k
  <1> QED BY <1>1, Inductive, PTL

\* Two shards of a job are disjoint sets of elements of its output.
LEMMA ShardsDisjoint ==
    ASSUME NEW r \in Requests, NEW v \in Shards, NEW w \in Shards, v # w
    PROVE  {<<r.output, c>> : c \in ShardRange(r.output_channels, v)}
             \cap {<<r.output, c>> : c \in ShardRange(r.output_channels, w)} = {}
  <1>1. IsPartition(r.output_channels)
    BY RequestFacts, ShardsPartitionChannels
  <1>2. ShardRange(r.output_channels, v) \cap ShardRange(r.output_channels, w) = {}
    BY <1>1 DEF IsPartition
  <1> QED BY <1>2

\* No two threads ever write a common output element.
THEOREM WritesNeverRace == Spec => []NoWriteRace
  <1>1. ASSUME IInv PROVE NoWriteRace
    <2>1. TypeOK /\ CallInv /\ JobInv
      BY <1>1 DEF IInv
    <2>2. Workers \subseteq Shards /\ 0 \in Shards /\ 0 \notin Workers
      BY ThreadsAssumption DEF Workers, Shards
    <2>3. ASSUME NEW w \in Workers, wpc[w] = "run"
          PROVE  job # NULL /\ current[w] = job /\ job \in Requests
      BY <2>1, <2>3 DEF JobInv, TypeOK
    <2>4. ASSUME NEW v \in Workers, NEW w \in Workers, v # w
          PROVE  WorkerWrites(v) \cap WorkerWrites(w) = {}
      <3>1. CASE wpc[v] = "run" /\ wpc[w] = "run"
        <4>1. current[v] = job /\ current[w] = job /\ job \in Requests
          BY <2>3, <3>1
        <4> QED BY <2>2, <2>4, <3>1, <4>1, ShardsDisjoint DEF WorkerWrites
      <3>2. CASE ~(wpc[v] = "run" /\ wpc[w] = "run")
        BY <3>2 DEF WorkerWrites
      <3> QED BY <3>1, <3>2
    <2>5. ASSUME NEW s \in Submitters, NEW w \in Workers
          PROVE  SubmitterWrites(s) \cap WorkerWrites(w) = {}
      <3>1. CASE wpc[w] = "run" /\ spc[s] \in {"scalar", "shard"}
        <4>1. job # NULL /\ current[w] = job /\ job \in Requests
          BY <2>3, <3>1
        <4>2. PICK t \in Submitters : InFlight(t)
          BY <2>1, <4>1 DEF JobInv
        <4>3. s = t
          BY <2>1, <3>1, <4>2, OneHolder DEF InFlight
        <4>4. spc[s] = "shard" /\ request[s] = job
          BY <2>1, <3>1, <4>2, <4>3 DEF InFlight, JobInv
        <4>5. SubmitterWrites(s) =
                {<<job.output, c>> : c \in ShardRange(job.output_channels, 0)}
          BY <4>4 DEF SubmitterWrites
        <4>6. WorkerWrites(w) =
                {<<job.output, c>> : c \in ShardRange(job.output_channels, w)}
          BY <3>1, <4>1 DEF WorkerWrites
        <4> QED BY <2>2, <4>1, <4>5, <4>6, ShardsDisjoint
      <3>2. CASE wpc[w] # "run"
        BY <3>2 DEF WorkerWrites
      <3>3. CASE spc[s] \notin {"scalar", "shard"}
        BY <3>3 DEF SubmitterWrites
      <3> QED BY <3>1, <3>2, <3>3
    <2>6. ASSUME NEW s \in Submitters, NEW t \in Submitters, s # t
          PROVE  SubmitterWrites(s) \cap SubmitterWrites(t) = {}
      <3>1. spc[s] \notin {"scalar", "shard"} \/ spc[t] \notin {"scalar", "shard"}
        BY <2>1, <2>6, OneHolder
      <3>2. \A u \in Submitters : spc[u] \notin {"scalar", "shard"} => SubmitterWrites(u) = {}
        BY DEF SubmitterWrites
      <3> QED BY <3>1, <3>2
    <2> QED BY <2>4, <2>5, <2>6 DEF NoWriteRace
  <1> QED BY <1>1, Inductive, PTL

\* Only linear() publishes a generation on a finished executor, and then
\* every worker has run the previous one.
THEOREM EveryJobIsRun == Spec => NoJobSkipped
  <1> DEFINE Caught == \A w \in Workers : observed[w] = generation /\ wpc[w] # "run"
  <1>1. ASSUME IInv, [Next]_vars, life = "live", generation' # generation
        PROVE  Caught
    <2>1. PICK s \in Submitters : Publish(s)
      <3>1. ~OwnerAction
        BY <1>1 DEF OwnerAction, OwnerStep, Construct, Reserve, ReserveFails,
           SpawnWorker, SpawnFails, Constructed, Destroy, SetStopping, NotifyStop,
           JoinWorkers, jobVars
      <3>2. ~\E w \in Workers : WorkerStep(w) \/ WorkerSpuriousWake(w)
        BY <1>1 DEF WorkerStep, WorkerExit, WorkerTake, WorkerWait,
           WorkerSpuriousWake, WorkerChannel, WorkerThrow, WorkerShardDone,
           WorkerFinish, WorkerNotify, jobVars
      <3>3. ~\E s \in Submitters : \E r \in Requests : Reject(s, r) \/ Call(s, r)
        BY <1>1 DEF Reject, Call, jobVars
      <3>4. ~UNCHANGED vars
        BY <1>1 DEF vars, jobVars
      <3>5. PICK s \in Submitters : SubmitterStep(s) \/ SubmitterSpuriousWake(s)
        BY <1>1, <3>1, <3>2, <3>3, <3>4 DEF Next, OwnerAction
      <3>6. Publish(s)
        BY <1>1, <3>5 DEF SubmitterStep, LockSubmission, ScalarStep, ScalarDone,
           NotifyAll, CallerChannel, CallerThrow, CallerShardDone, Collect, Block,
           SubmitterSpuriousWake, Return, jobVars
      <3> QED BY <3>6
    <2>2. spc[s] = "publish"
      BY <2>1 DEF Publish
    <2> QED BY <1>1, <2>2, QuietPool DEF InFlight
  <1>2. IInv /\ [Next]_vars =>
          [life = "live" /\ generation' # generation => Caught]_vars
    BY <1>1
  <1> QED BY <1>2, Inductive, PTL DEF Spec, NoJobSkipped

-----------------------------------------------------------------------------
(* Shards and memory.                                                      *)

\* What a shard computes is what the scalar kernel computes for its channel:
\* the offsets of run_shard's subspans add up.
LEMMA ShardIsScalar ==
    ASSUME NEW r \in Requests, Accepted(r), NEW shard \in Shards,
           NEW c \in 0 .. (ShardCount(r.output_channels, shard) - 1)
    PROVE  ShardChannel(r, shard, c) =
              ScalarChannel(r, ShardFirst(r.output_channels, shard) + c)
  <1> DEFINE n == r.output_channels
             k == r.input_channels
             first == ShardFirst(n, shard)
  <1>1. n \in 0..SizeMax /\ k \in 0..SizeMax /\ SizeMax \in Nat
    BY RequestFacts, ThreadsAssumption
  <1>2. first \in Nat /\ c \in Nat
    BY <1>1, ShardShape
  <1>3. n * k <= SizeMax
    BY <1>1, AcceptedFits
  <1>4. WeightFirst(n, k, shard) = first * k
    BY <1>1, <1>3, WeightSlicesInBounds DEF WeightSlicesFit
  <1> HIDE DEF n, k, first
  <1>5. first * k + c * k = 0 + (first + c) * k /\ 0 + (first + c) = first + c
    BY <1>1, <1>2, SMT
  <1> QED BY <1>4, <1>5 DEF ShardChannel, ScalarChannel, Dot, n, k, first

\* The contents of the output vectors have their shape.
MemoryType(memory) ==
    DOMAIN memory = Buffers /\ \A b \in Buffers : DOMAIN memory[b] = Channels

\* A memory after channel c of a shard of r has been written.
AfterWrite(memory, r, shard, c) ==
    [memory EXCEPT ![r.output][ShardFirst(r.output_channels, shard) + c] =
        ShardChannel(r, shard, c)]

\* A channel of a shard is a channel of the output.
LEMMA ShardChannelFacts ==
    ASSUME NEW r \in Requests, NEW shard \in Shards,
           NEW c \in 0 .. (ShardCount(r.output_channels, shard) - 1)
    PROVE  /\ c \in Nat
           /\ ShardFirst(r.output_channels, shard) + c \in 0 .. (r.output_channels - 1)
           /\ ShardFirst(r.output_channels, shard) + c \in Channels
           /\ ShardFirst(r.output_channels, shard) + c \in ShardRange(r.output_channels, shard)
           /\ r.output \in Buffers
  <1>1. /\ r.output_channels \in 0..SizeMax /\ r.output \in Buffers /\ SizeMax \in Nat
    BY RequestFacts, ThreadsAssumption
  <1>2. /\ ShardFirst(r.output_channels, shard) \in Nat
        /\ ShardCount(r.output_channels, shard) \in Nat
        /\ ShardFirst(r.output_channels, shard) + ShardCount(r.output_channels, shard)
              <= r.output_channels
    BY <1>1, ShardShape
  <1> QED BY <1>1, <1>2 DEF Channels, ShardRange

\* Writing the next channel of a shard extends what the shard holds.
LEMMA WriteExtends ==
    ASSUME NEW memory, MemoryType(memory), NEW r \in Requests, Accepted(r),
           NEW shard \in Shards,
           NEW c \in 0 .. (ShardCount(r.output_channels, shard) - 1),
           ShardHolds(memory, r, shard, c)
    PROVE  ShardHolds(AfterWrite(memory, r, shard, c), r, shard, c + 1)
  <1> DEFINE first == ShardFirst(r.output_channels, shard)
             after == AfterWrite(memory, r, shard, c)
  <1>1. c \in Nat /\ first + c \in Channels /\ r.output \in Buffers
    BY ShardChannelFacts
  <1>2. first \in Nat
    BY RequestFacts, ShardShape
  <1>3. after[r.output] = [memory[r.output] EXCEPT ![first + c] = ShardChannel(r, shard, c)]
    BY <1>1 DEF AfterWrite, MemoryType
  <1>4. after[r.output][first + c] = ScalarChannel(r, first + c)
    BY <1>1, <1>3, ShardIsScalar DEF MemoryType
  <1>5. ASSUME NEW d \in 0 .. (c - 1)
        PROVE  after[r.output][first + d] = ScalarChannel(r, first + d)
    <2>1. memory[r.output][first + d] = ScalarChannel(r, first + d)
      BY DEF ShardHolds
    <2>2. first + d # first + c
      BY <1>1, <1>2
    <2>3. after[r.output][first + d] = memory[r.output][first + d]
      BY <1>1, <1>3, <2>2 DEF MemoryType
    <2> QED BY <2>1, <2>3
  <1> HIDE DEF first, after
  <1>6. \A d \in 0 .. (c + 1 - 1) : d = c \/ d \in 0 .. (c - 1)
    BY <1>1
  <1>7. \A d \in 0 .. (c + 1 - 1) : after[r.output][first + d] = ScalarChannel(r, first + d)
    BY <1>4, <1>5, <1>6
  <1> QED BY <1>7 DEF ShardHolds, first, after

\* Writing a channel of one shard leaves the others as they are.
LEMMA WriteKeepsOthers ==
    ASSUME NEW memory, MemoryType(memory), NEW r \in Requests,
           NEW shard \in Shards,
           NEW c \in 0 .. (ShardCount(r.output_channels, shard) - 1),
           NEW other \in Shards, other # shard,
           NEW n \in 0 .. ShardCount(r.output_channels, other),
           ShardHolds(memory, r, other, n)
    PROVE  ShardHolds(AfterWrite(memory, r, shard, c), r, other, n)
  <1> DEFINE after == AfterWrite(memory, r, shard, c)
             at(s, i) == ShardFirst(r.output_channels, s) + i
  <1> SUFFICES ASSUME NEW d \in 0 .. (n - 1)
               PROVE  after[r.output][at(other, d)] = ScalarChannel(r, at(other, d))
    BY DEF ShardHolds
  <1>1. at(shard, c) \in ShardRange(r.output_channels, shard)
    BY ShardChannelFacts
  <1>2. d \in 0 .. (ShardCount(r.output_channels, other) - 1)
    BY RequestFacts, ShardShape
  <1>3. at(other, d) \in ShardRange(r.output_channels, other) /\ r.output \in Buffers
    BY <1>2, ShardChannelFacts
  <1>4. at(shard, c) # at(other, d)
    <2>1. ShardRange(r.output_channels, shard) \cap ShardRange(r.output_channels, other) = {}
      BY RequestFacts, ShardsPartitionChannels DEF IsPartition
    <2> QED BY <1>1, <1>3, <2>1
  <1>5. after[r.output][at(other, d)] = memory[r.output][at(other, d)]
    BY <1>3, <1>4 DEF AfterWrite, MemoryType
  <1>6. memory[r.output][at(other, d)] = ScalarChannel(r, at(other, d))
    BY DEF ShardHolds
  <1> QED BY <1>5, <1>6

\* Shards that are all whole make a complete output.
LEMMA WholeShardsComplete ==
    ASSUME NEW memory, NEW r \in Requests,
           \A shard \in Shards : WholeShardHolds(memory, r, shard),
           NEW c \in 0 .. (r.output_channels - 1)
    PROVE  memory[r.output][c] = ScalarChannel(r, c)
  <1>1. r.output_channels \in 0..SizeMax
    BY RequestFacts
  <1>2. PICK shard \in Shards : c \in ShardRange(r.output_channels, shard)
    BY <1>1, ShardOfChannel
  <1> DEFINE first == ShardFirst(r.output_channels, shard)
             count == ShardCount(r.output_channels, shard)
  <1>3. first \in Nat /\ count \in Nat /\ c \in first .. (first + count - 1)
    BY <1>1, <1>2, ShardShape, ThreadsAssumption DEF ShardRange
  <1>4. ShardHolds(memory, r, shard, count)
    BY DEF WholeShardHolds
  <1> HIDE DEF first, count
  <1>5. c - first \in 0 .. (count - 1) /\ first + (c - first) = c
    BY <1>3
  <1>6. memory[r.output][first + (c - first)] = ScalarChannel(r, first + (c - first))
    BY <1>4, <1>5 DEF ShardHolds, first
  <1> QED BY <1>5, <1>6

-----------------------------------------------------------------------------
(* OutputInv is inductive relative to IInv.                                *)

LEMMA InitOutput == Init => OutputInv
  BY DEF Init, OutputInv, ScalarProgress, CallerProgress, WorkerProgress, CompleteOutput

\* No call is running while the executor is constructed or destroyed.
LEMMA OwnerKeepsOutput ==
    ASSUME IInv, OutputInv, OwnerAction
    PROVE  OutputInv'
  <1>1. /\ \A s \in Submitters : spc[s] = "idle" /\ spc' = spc
        /\ job = NULL /\ job' = NULL
        /\ \A w \in Workers : wpc'[w] \notin {"run", "finish"}
    BY DEF OwnerAction, OwnerStep, IInv, TypeOK, LifeInv, JobInv, InFlight, Construct, Reserve,
       ReserveFails, SpawnWorker, SpawnFails, Constructed, Destroy, SetStopping,
       NotifyStop, WakeWorkers, JoinWorkers, jobVars, workerVars, callVars
  <1> QED BY <1>1 DEF OutputInv, ScalarProgress, CallerProgress, WorkerProgress,
             CompleteOutput

\* Facts about the job a worker runs.
LEMMA RunningWorker ==
    ASSUME IInv, NEW w \in Workers, wpc[w] \in {"run", "finish"}
    PROVE  /\ current[w] = job /\ job \in Requests /\ Accepted(job)
           /\ w \in Shards /\ w # 0
           /\ \A s \in Submitters : spc[s] \notin {"scalar", "publish", "return"}
           /\ \A s \in Submitters : InFlight(s) => request[s] = job
  <1>1. TypeOK /\ CallInv /\ JobInv
    BY DEF IInv
  <1>2. current[w] = job /\ job \in Requests
    BY <1>1 DEF JobInv, TypeOK
  <1>3. PICK t \in Submitters : InFlight(t)
    BY <1>1, <1>2, NullFacts DEF JobInv
  <1>4. \A s \in Submitters : spc[s] \notin {"idle", "submit"} => s = t
    BY <1>1, <1>3, OneHolder DEF InFlight
  <1>5. Accepted(job)
    BY <1>1, <1>3 DEF CallInv, JobInv, InFlight
  <1>6. w \in Shards /\ w # 0
    BY ThreadsAssumption DEF Workers, Shards
  <1> QED BY <1>1, <1>2, <1>3, <1>4, <1>5, <1>6 DEF JobInv, InFlight

LEMMA WorkerKeepsOutput ==
    ASSUME IInv, OutputInv, NEW w \in Workers, WorkerStep(w) \/ WorkerSpuriousWake(w)
    PROVE  OutputInv'
  <1>inv. TypeOK /\ JobInv /\ ErrorInv
    BY DEF IInv
  <1>out. ScalarProgress /\ CallerProgress /\ WorkerProgress /\ CompleteOutput
    BY DEF OutputInv
  <1>run. wpc[w] \in {"run", "finish"} => current[w] = job /\ job \in Requests /\ w \in Shards
    BY RunningWorker
  <1>1. CASE WorkerExit(w)
    BY <1>1, <1>out, <1>inv DEF WorkerExit, TypeOK, OutputInv, ScalarProgress, CallerProgress,
       WorkerProgress, CompleteOutput, Finished, jobVars, callVars
  <1>2. CASE WorkerTake(w)
    <2>1. job \in Requests
      BY <1>2, <1>inv DEF WorkerTake, TypeOK, JobInv
    <2>2. 0 <= ShardCount(job.output_channels, w)
      <3>1. job.output_channels \in 0..SizeMax /\ w \in Shards
        BY <2>1, RequestFacts, ThreadsAssumption DEF Shards, Workers
      <3>2. ShardCount(job.output_channels, w) \in 0 .. job.output_channels
        BY <3>1, ShardShape
      <3> QED BY <3>1, <3>2, ThreadsAssumption
    <2>3. ShardHolds(out, job, w, 0)
      BY DEF ShardHolds
    <2> QED BY <1>2, <1>out, <1>inv, <2>2, <2>3 DEF WorkerTake, TypeOK, OutputInv,
               ScalarProgress, CallerProgress, WorkerProgress, CompleteOutput, Finished,
               jobVars, callVars
  <1>3. CASE WorkerWait(w)
    BY <1>3, <1>out, <1>inv DEF WorkerWait, TypeOK, OutputInv, ScalarProgress, CallerProgress,
       WorkerProgress, CompleteOutput, Finished, jobVars, callVars
  <1>4. CASE WorkerSpuriousWake(w)
    BY <1>4, <1>out, <1>inv DEF WorkerSpuriousWake, TypeOK, OutputInv, ScalarProgress, CallerProgress,
       WorkerProgress, CompleteOutput, Finished, jobVars, callVars
  <1>5. CASE WorkerChannel(w)
    <2> DEFINE r == job
               c == wcursor[w]
    <2>1. /\ wpc[w] = "run" /\ current[w] = r /\ r \in Requests /\ Accepted(r)
          /\ w \in Shards /\ w # 0
          /\ \A s \in Submitters : spc[s] \notin {"scalar", "publish", "return"}
          /\ \A s \in Submitters : InFlight(s) => request[s] = r
      BY <1>5, RunningWorker DEF WorkerChannel
    <2>2. /\ c \in 0 .. (ShardCount(r.output_channels, w) - 1)
          /\ ShardHolds(out, r, w, c) /\ MemoryType(out)
      BY <1>5, <1>inv, <1>out, <2>1, RequestFacts, ShardShape, ThreadsAssumption
         DEF WorkerChannel, WorkerProgress, TypeOK, MemoryType
    <2>3. out' = AfterWrite(out, r, w, c)
      BY <1>5, <2>1 DEF WorkerChannel, WriteShard, AfterWrite
    <2>4. ASSUME NEW v \in Shards, v # w,
                 NEW n \in 0 .. ShardCount(r.output_channels, v), ShardHolds(out, r, v, n)
          PROVE  ShardHolds(out', r, v, n)
      BY <2>1, <2>2, <2>3, <2>4, WriteKeepsOthers
    <2>5. \A v \in Shards : ShardCount(r.output_channels, v) \in Nat
      BY <2>1, RequestFacts, ShardShape, ThreadsAssumption
    <2>6. \A v \in Shards : v # w /\ WholeShardHolds(out, r, v) => WholeShardHolds(out', r, v)
      BY <2>4, <2>5 DEF WholeShardHolds
    <2>7. ShardHolds(out', r, w, c + 1)
      BY <2>1, <2>2, <2>3, WriteExtends
    <2>8. Workers \subseteq Shards /\ 0 \in Shards
      BY ThreadsAssumption DEF Workers, Shards
    <2> HIDE DEF r, c
    <2>9. ScalarProgress' /\ CompleteOutput'
      BY <1>5, <2>1 DEF WorkerChannel, ScalarProgress, CompleteOutput, callVars
    <2>10. CallerProgress'
      <3>1. \A s \in Submitters : spc[s] = "shard" =>
                /\ cursor[s] <= ShardCount(request[s].output_channels, 0)
                /\ ShardHolds(out', request[s], 0, cursor[s])
        BY <1>inv, <1>out, <2>1, <2>4, <2>5, <2>8 DEF CallerProgress, TypeOK, InFlight
      <3>2. \A s \in Submitters : spc[s] \in {"await", "blocked"} /\ failure[s] = NULL =>
                WholeShardHolds(out', request[s], 0)
        BY <1>out, <2>1, <2>6, <2>8 DEF CallerProgress, InFlight
      <3> QED BY <1>5, <1>out, <3>1, <3>2 DEF WorkerChannel, CallerProgress, callVars
    <2>11. WorkerProgress'
      <3>0. \A v \in Workers : wpc[v] \in {"run", "finish"} => current[v] = r
        BY RunningWorker DEF r
      <3>1. \A v \in Workers : wpc[v] = "run" /\ v # w =>
                /\ wcursor[v] <= ShardCount(current[v].output_channels, v)
                /\ ShardHolds(out', current[v], v, wcursor[v])
        BY <1>inv, <1>out, <2>4, <2>5, <2>8, <3>0 DEF WorkerProgress, TypeOK
      <3>2. /\ wcursor' = [wcursor EXCEPT ![w] = c + 1]
            /\ c + 1 <= ShardCount(current[w].output_channels, w)
            /\ ShardHolds(out', current[w], w, c + 1)
        BY <1>5, <2>1, <2>2, <2>5, <2>7 DEF WorkerChannel, c
      <3>3. \A v \in Workers : wpc[v] = "finish" /\ error[v] = NULL =>
                WholeShardHolds(out', current[v], v)
        BY <1>out, <2>1, <2>6, <2>8, <3>0 DEF WorkerProgress
      <3>4. r # NULL /\ worker_error = NULL =>
                \A v \in Finished : WholeShardHolds(out', r, v)
        BY <1>out, <2>1, <2>6, <2>8 DEF WorkerProgress, Finished, r
      <3>5. /\ wpc' = wpc /\ current' = current /\ error' = error /\ job' = r
            /\ worker_error' = worker_error /\ Finished' = Finished
        BY <1>5 DEF WorkerChannel, Finished, jobVars, r
      <3>6. \A v \in Workers : wpc[v] = "run" =>
                /\ wcursor'[v] <= ShardCount(current[v].output_channels, v)
                /\ ShardHolds(out', current[v], v, wcursor'[v])
        BY <1>inv, <3>1, <3>2 DEF TypeOK
      <3> QED BY <3>3, <3>4, <3>5, <3>6 DEF WorkerProgress
    <2> QED BY <2>9, <2>10, <2>11 DEF OutputInv
  <1>6. CASE WorkerThrow(w)
    <2>1. error'[w] # NULL
      BY <1>6, <1>inv, RequestsAssumption, ThreadsAssumption DEF WorkerThrow, TypeOK, Shards, Workers
    <2> QED BY <1>6, <1>out, <1>inv, <2>1 DEF WorkerThrow, TypeOK, OutputInv,
               ScalarProgress, CallerProgress, WorkerProgress, CompleteOutput, Finished,
               jobVars, callVars
  <1>7. CASE WorkerShardDone(w)
    BY <1>7, <1>out, <1>inv DEF WorkerShardDone, TypeOK, OutputInv, ScalarProgress, CallerProgress,
       WorkerProgress, CompleteOutput, Finished, jobVars, callVars, WholeShardHolds
  <1>8. CASE WorkerFinish(w)
    BY <1>8, <1>out, <1>inv, <1>run DEF WorkerFinish, TypeOK, OutputInv, ScalarProgress, CallerProgress,
       WorkerProgress, CompleteOutput, Finished, callVars
  <1>9. CASE WorkerNotify(w)
    BY <1>9, <1>out, <1>inv DEF WorkerNotify, TypeOK, OutputInv, ScalarProgress, CallerProgress,
       WorkerProgress, CompleteOutput, Finished, jobVars
  <1> QED BY <1>1, <1>2, <1>3, <1>4, <1>5, <1>6, <1>7, <1>8, <1>9 DEF WorkerStep

\* Of the calls, only the holder of submit_mutex_ has computed anything; what
\* it depends on when it is alone, without a job, and at the barrier.
LEMMA SubmitterFacts ==
    ASSUME IInv, NEW s \in Submitters, spc[s] # "idle"
    PROVE  /\ request[s] \in Requests /\ Accepted(request[s])
           /\ spc[s] # "submit" => \A t \in Submitters : t # s => spc[t] \in {"idle", "submit"}
           /\ spc[s] \in {"scalar", "publish", "return"} =>
                 job = NULL /\ \A w \in Workers : wpc[w] \notin {"run", "finish"}
           /\ InFlight(s) => job = request[s] /\ job # NULL
           /\ InFlight(s) /\ completed = created => Finished = Workers
  <1>1. TypeOK /\ LifeInv /\ CallInv /\ JobInv /\ CompletedExact
    BY DEF IInv
  <1>2. request[s] \in Requests /\ Accepted(request[s])
    BY <1>1 DEF CallInv
  <1>3. spc[s] # "submit" => \A t \in Submitters : t # s => spc[t] \in {"idle", "submit"}
    BY <1>1, OneHolder
  <1>4. spc[s] \in {"scalar", "publish", "return"} =>
            job = NULL /\ \A w \in Workers : wpc[w] \notin {"run", "finish"}
    BY QuietPool DEF InFlight
  <1>5. InFlight(s) => job = request[s] /\ job # NULL
    BY <1>1, <1>2, NullFacts DEF JobInv
  <1>6. ASSUME InFlight(s), completed = created
        PROVE  Finished = Workers
    <2>1. Cardinality(Finished) = TotalThreads - 1
      BY <1>1, <1>6 DEF LifeInv, CompletedExact
    <2> QED BY <2>1, FinishedFacts
  <1> QED BY <1>2, <1>3, <1>4, <1>5, <1>6

LEMMA SubmitterKeepsOutput ==
    ASSUME IInv, OutputInv, NEW s \in Submitters, SubmitterStep(s) \/ SubmitterSpuriousWake(s)
    PROVE  OutputInv'
  <1>inv. TypeOK /\ CallInv /\ JobInv
    BY DEF IInv
  <1>out. ScalarProgress /\ CallerProgress /\ WorkerProgress /\ CompleteOutput
    BY DEF OutputInv
  <1>busy. spc[s] # "idle"
    BY DEF SubmitterStep, LockSubmission, ScalarStep, ScalarDone, Publish, NotifyAll,
       CallerChannel, CallerThrow, CallerShardDone, Collect, Block, Return,
       SubmitterSpuriousWake
  <1>own. /\ request[s] \in Requests /\ Accepted(request[s])
          /\ spc[s] # "submit" => \A t \in Submitters : t # s => spc[t] \in {"idle", "submit"}
          /\ spc[s] \in {"scalar", "publish", "return"} =>
                job = NULL /\ \A w \in Workers : wpc[w] \notin {"run", "finish"}
          /\ InFlight(s) => job = request[s] /\ job # NULL
          /\ InFlight(s) /\ completed = created => Finished = Workers
    BY <1>busy, SubmitterFacts
  <1>0. 0 \in Shards
    BY ThreadsAssumption DEF Shards
  <1>count. ShardCount(request[s].output_channels, 0) \in Nat
    <2>1. request[s].output_channels \in 0..SizeMax
      BY <1>own, RequestFacts
    <2>2. ShardCount(request[s].output_channels, 0) \in 0 .. request[s].output_channels
      BY <1>0, <2>1, ShardShape
    <2> QED BY <2>1, <2>2, ThreadsAssumption
  <1>1. CASE LockSubmission(s)
    BY <1>1, <1>out, <1>inv DEF LockSubmission, TypeOK, OutputInv, ScalarProgress,
       CallerProgress, WorkerProgress, CompleteOutput, Finished, jobVars, workerVars
  <1>2. CASE ScalarStep(s)
    <2> DEFINE r == request[s]
               c == cursor[s]
    <2>1. c \in Channels /\ r.output \in Buffers /\ c \in Nat
      BY <1>2, <1>inv, <1>own, RequestFacts, ThreadsAssumption
         DEF ScalarStep, TypeOK, Channels
    <2>2. /\ out'[r.output][c] = ScalarChannel(r, c)
          /\ \A d \in Channels : d # c => out'[r.output][d] = out[r.output][d]
      BY <1>2, <1>inv, <2>1 DEF ScalarStep, TypeOK
    <2>3. ASSUME NEW d \in 0 .. (c + 1 - 1)
          PROVE  out'[r.output][d] = ScalarChannel(r, d)
      <3>1. CASE d = c
        BY <2>2, <3>1
      <3>2. CASE d # c
        <4>1. d \in 0 .. (c - 1) /\ d \in Channels
          BY <2>1, <3>2, ThreadsAssumption DEF Channels
        <4> QED BY <1>2, <1>out, <2>2, <3>2, <4>1 DEF ScalarStep, ScalarProgress
      <3> QED BY <3>1, <3>2
    <2>4. /\ spc' = spc /\ request' = request /\ wpc' = wpc /\ job' = job
          /\ cursor' = [cursor EXCEPT ![s] = c + 1]
      BY <1>2 DEF ScalarStep, jobVars, workerVars
    <2>5. /\ spc[s] = "scalar" /\ job = NULL
          /\ \A t \in Submitters : t # s => spc[t] \in {"idle", "submit"}
          /\ \A w \in Workers : wpc[w] \notin {"run", "finish"}
      BY <1>2, <1>own DEF ScalarStep
    <2> HIDE DEF r, c
    <2>6. ScalarProgress'
      <3>1. \A t \in Submitters : spc'[t] = "scalar" => t = s
        BY <2>4, <2>5
      <3>2. request'[s] = r /\ cursor'[s] = c + 1
        BY <1>inv, <2>4 DEF TypeOK, r
      <3> QED BY <2>1, <2>3, <3>1, <3>2 DEF ScalarProgress
    <2>7. CallerProgress' /\ WorkerProgress' /\ CompleteOutput'
      BY <2>4, <2>5 DEF CallerProgress, WorkerProgress, CompleteOutput
    <2> QED BY <2>6, <2>7 DEF OutputInv
  <1>3. CASE ScalarDone(s)
    BY <1>3, <1>out, <1>inv DEF ScalarDone, TypeOK, OutputInv, ScalarProgress,
       CallerProgress, WorkerProgress, CompleteOutput, Finished, jobVars, workerVars
  <1>4. CASE Publish(s)
    <2>1. generation' # generation
      BY <1>4, <1>inv, NextGeneration DEF Publish, TypeOK
    <2>2. Finished' = {}
      BY <1>4, <2>1, QuietPool DEF Publish, InFlight, Finished, workerVars
    <2> QED BY <1>4, <1>out, <1>inv, <1>own, <2>2 DEF Publish, TypeOK, OutputInv, CallInv,
               ScalarProgress, CallerProgress, WorkerProgress, CompleteOutput, workerVars
  <1>5. CASE NotifyAll(s)
    <2>1. ShardHolds(out, request[s], 0, 0)
      BY DEF ShardHolds
    <2> QED BY <1>5, <1>out, <1>inv, <1>count, <2>1 DEF NotifyAll, WakeWorkers, TypeOK, OutputInv,
               ScalarProgress, CallerProgress, WorkerProgress, CompleteOutput, Finished,
               jobVars
  <1>6. CASE CallerChannel(s)
    <2> DEFINE r == request[s]
               c == cursor[s]
    <2>1. /\ spc[s] = "shard" /\ job = r /\ job # NULL /\ r \in Requests /\ Accepted(r)
          /\ \A t \in Submitters : t # s => spc[t] \in {"idle", "submit"}
      BY <1>6, <1>own DEF CallerChannel, InFlight
    <2>2. /\ c \in 0 .. (ShardCount(r.output_channels, 0) - 1)
          /\ ShardHolds(out, r, 0, c) /\ MemoryType(out)
      BY <1>6, <1>inv, <1>out, <1>count, ThreadsAssumption
         DEF CallerChannel, CallerProgress, TypeOK, MemoryType
    <2>3. out' = AfterWrite(out, r, 0, c)
      BY <1>6 DEF CallerChannel, WriteShard, AfterWrite
    <2>4. ASSUME NEW w \in Workers,
                 NEW n \in 0 .. ShardCount(r.output_channels, w), ShardHolds(out, r, w, n)
          PROVE  ShardHolds(out', r, w, n)
      <3>1. w \in Shards /\ w # 0
        BY ThreadsAssumption DEF Workers, Shards
      <3> QED BY <1>0, <2>1, <2>2, <2>3, <2>4, <3>1, WriteKeepsOthers
    <2>5. \A w \in Workers : ShardCount(r.output_channels, w) \in Nat
      <3>1. r.output_channels \in 0..SizeMax /\ Workers \subseteq Shards
        BY <2>1, RequestFacts, ThreadsAssumption DEF Workers, Shards
      <3> QED BY <3>1, ShardShape, ThreadsAssumption
    <2>6. \A w \in Workers : WholeShardHolds(out, r, w) => WholeShardHolds(out', r, w)
      BY <2>4, <2>5 DEF WholeShardHolds
    <2>7. ShardHolds(out', r, 0, c + 1)
      BY <1>0, <2>1, <2>2, <2>3, WriteExtends
    <2>8. /\ spc' = spc /\ request' = request /\ failure' = failure
          /\ wpc' = wpc /\ current' = current /\ wcursor' = wcursor /\ error' = error
          /\ job' = job /\ worker_error' = worker_error /\ Finished' = Finished
          /\ cursor' = [cursor EXCEPT ![s] = c + 1]
      BY <1>6 DEF CallerChannel, Finished, jobVars, workerVars
    <2> HIDE DEF r, c
    <2>9. ScalarProgress' /\ CompleteOutput'
      BY <2>1, <2>8 DEF ScalarProgress, CompleteOutput
    <2>10. CallerProgress'
      <3>1. c + 1 <= ShardCount(r.output_channels, 0)
        BY <1>count, <2>2 DEF r
      <3>2. \A t \in Submitters : spc'[t] \in {"notify", "shard", "await", "blocked"} =>
                t = s /\ spc'[t] = "shard" /\ cursor'[t] = c + 1 /\ request'[t] = r
        BY <1>inv, <2>1, <2>8 DEF TypeOK, r
      <3> QED BY <2>7, <3>1, <3>2 DEF CallerProgress
    <2>11. WorkerProgress'
      <3>0. \A w \in Workers : wpc[w] \in {"run", "finish"} => current[w] = r
        BY <1>inv, <2>1 DEF JobInv
      <3>1. \A w \in Workers : wpc[w] = "run" =>
                /\ wcursor[w] <= ShardCount(current[w].output_channels, w)
                /\ ShardHolds(out', current[w], w, wcursor[w])
        BY <1>inv, <1>out, <2>4, <2>5, <3>0 DEF WorkerProgress, TypeOK
      <3>2. \A w \in Workers : wpc[w] = "finish" /\ error[w] = NULL =>
                WholeShardHolds(out', current[w], w)
        BY <1>out, <2>6, <3>0 DEF WorkerProgress
      <3>3. worker_error = NULL => \A w \in Finished : WholeShardHolds(out', r, w)
        BY <1>out, <2>1, <2>6 DEF WorkerProgress, Finished
      <3> QED BY <2>1, <2>8, <3>1, <3>2, <3>3 DEF WorkerProgress
    <2> QED BY <2>9, <2>10, <2>11 DEF OutputInv
  <1>7. CASE CallerThrow(s)
    <2>1. failure'[s] # NULL
      BY <1>7, <1>inv, <1>own, <1>0, RequestsAssumption DEF CallerThrow, TypeOK
    <2> QED BY <1>7, <1>out, <1>inv, <2>1 DEF CallerThrow, TypeOK, OutputInv, ScalarProgress,
               CallerProgress, WorkerProgress, CompleteOutput, Finished, jobVars, workerVars
  <1>8. CASE CallerShardDone(s)
    BY <1>8, <1>out, <1>inv DEF CallerShardDone, TypeOK, OutputInv, ScalarProgress,
       CallerProgress, WorkerProgress, CompleteOutput, Finished, jobVars, workerVars,
       WholeShardHolds
  <1>9. CASE Collect(s)
    <2>1. InFlight(s) /\ job = request[s] /\ job # NULL /\ Finished = Workers
      BY <1>9, <1>own DEF Collect, InFlight
    <2>2. ASSUME failure'[s] = NULL,
                 NEW c \in 0 .. (request[s].output_channels - 1)
          PROVE  out[request[s].output][c] = ScalarChannel(request[s], c)
      <3>1. failure[s] = NULL /\ worker_error = NULL
        BY <1>9, <1>inv, <2>2 DEF Collect, TypeOK
      <3>2. WholeShardHolds(out, request[s], 0)
        BY <1>9, <1>out, <3>1 DEF Collect, CallerProgress
      <3>3. \A w \in Workers : WholeShardHolds(out, request[s], w)
        BY <1>out, <2>1, <3>1 DEF WorkerProgress
      <3>4. Shards = Workers \cup {0}
        BY ThreadsAssumption DEF Workers, Shards
      <3> QED BY <1>own, <2>2, <3>2, <3>3, <3>4, WholeShardsComplete
    <2>3. CompleteOutput'
      BY <1>9, <1>out, <1>inv, <2>2 DEF Collect, TypeOK, CompleteOutput
    <2> QED BY <1>9, <1>out, <1>inv, <1>own, <2>3 DEF Collect, TypeOK, OutputInv, InFlight,
               ScalarProgress, CallerProgress, WorkerProgress, workerVars
  <1>10. CASE Block(s)
    BY <1>10, <1>out, <1>inv DEF Block, TypeOK, OutputInv, ScalarProgress,
       CallerProgress, WorkerProgress, CompleteOutput, Finished, jobVars, workerVars
  <1>11. CASE SubmitterSpuriousWake(s)
    BY <1>11, <1>out, <1>inv DEF SubmitterSpuriousWake, TypeOK, OutputInv, ScalarProgress,
       CallerProgress, WorkerProgress, CompleteOutput, Finished, jobVars, workerVars
  <1>12. CASE Return(s)
    BY <1>12, <1>out, <1>inv DEF Return, TypeOK, OutputInv, ScalarProgress,
       CallerProgress, WorkerProgress, CompleteOutput, Finished, jobVars, workerVars
  <1> QED BY <1>1, <1>2, <1>3, <1>4, <1>5, <1>6, <1>7, <1>8, <1>9, <1>10, <1>11, <1>12
          DEF SubmitterStep

LEMMA CallKeepsOutput ==
    ASSUME IInv, OutputInv, NEW s \in Submitters, NEW r \in Requests,
           Reject(s, r) \/ Call(s, r)
    PROVE  OutputInv'
  <1>1. TypeOK
    BY DEF IInv
  <1>2. CASE Reject(s, r)
    BY <1>1, <1>2 DEF Reject, TypeOK, OutputInv, ScalarProgress, CallerProgress,
       WorkerProgress, CompleteOutput, Finished, jobVars, workerVars
  <1>3. CASE Call(s, r)
    BY <1>1, <1>3 DEF Call, TypeOK, OutputInv, ScalarProgress, CallerProgress,
       WorkerProgress, CompleteOutput, Finished, jobVars, workerVars
  <1> QED BY <1>2, <1>3

LEMMA NextOutput ==
    ASSUME IInv, OutputInv, [Next]_vars
    PROVE  OutputInv'
  <1>1. CASE OwnerAction
    BY <1>1, OwnerKeepsOutput
  <1>2. CASE \E w \in Workers : WorkerStep(w) \/ WorkerSpuriousWake(w)
    BY <1>2, WorkerKeepsOutput
  <1>3. CASE \E s \in Submitters : SubmitterStep(s) \/ SubmitterSpuriousWake(s)
    BY <1>3, SubmitterKeepsOutput
  <1>4. CASE \E s \in Submitters : \E r \in Requests : Reject(s, r) \/ Call(s, r)
    BY <1>4, CallKeepsOutput
  <1>5. CASE UNCHANGED vars
    BY <1>5 DEF OutputInv, ScalarProgress, CallerProgress, WorkerProgress,
       CompleteOutput, Finished, vars, poolVars, jobVars, workerVars, callVars
  <1> QED BY <1>1, <1>2, <1>3, <1>4, <1>5 DEF Next, OwnerAction

\* What the threads have computed is kept until the call returns.
THEOREM ProgressIsKept == Spec => []OutputInv
  <1>1. Init => OutputInv
    BY InitOutput
  <1>2. IInv /\ OutputInv /\ [Next]_vars => OutputInv'
    BY NextOutput
  <1> QED BY <1>1, <1>2, Inductive, PTL DEF Spec

\* A linear() that returns normally has computed every channel of its output
\* as one scalar kernel call would, whichever threads computed them and
\* whatever failed in other calls.
THEOREM OutputIsComplete == Spec => []CompleteOutput
  <1>1. OutputInv => CompleteOutput
    BY DEF OutputInv
  <1> QED BY <1>1, ProgressIsKept, PTL

-----------------------------------------------------------------------------
(* The refinement.                                                         *)

\* The output vectors, and the same with the channels of r torn.
Shown(memory) == [b \in Buffers |-> [c \in Channels |-> memory[b][c]]]

ShownTorn(memory, r) ==
    [b \in Buffers |-> [c \in Channels |->
        IF r.output = b /\ c < r.output_channels THEN TornValue ELSE memory[b][c]]]

\* What the callers see: the call being served hides its own channels.
LEMMA WhatCallersSee ==
    ASSUME IInv
    PROVE  /\ (\A s \in Submitters : ~Serving(s)) => memoryBar = Shown(out)
           /\ \A s \in Submitters : Serving(s) => memoryBar = ShownTorn(out, request[s])
  <1>1. (\A s \in Submitters : ~Serving(s)) => memoryBar = Shown(out)
    BY DEF memoryBar, Shown
  <1>2. ASSUME NEW s \in Submitters, Serving(s)
        PROVE  memoryBar = ShownTorn(out, request[s])
    <2>1. \A t \in Submitters : Serving(t) => t = s
      BY <1>2, OneHolder DEF IInv, Serving
    <2> QED BY <1>2, <2>1 DEF memoryBar, ShownTorn
  <1> QED BY <1>1, <1>2

\* The channels a call writes are exactly those hidden while it is served.
LEMMA HiddenChannels ==
    ASSUME NEW r \in Requests, NEW memory
    PROVE  /\ \A x \in Service!Written(r) :
                 /\ x[1] = r.output /\ x[2] \in 0 .. (r.output_channels - 1)
                 /\ x[1] \in Buffers /\ x[2] \in Channels
                 /\ ShownTorn(memory, r)[x[1]][x[2]] = TornValue
                 /\ Shown(memory)[x[1]][x[2]] = memory[r.output][x[2]]
           /\ \A b \in Buffers, c \in Channels : <<b, c>> \notin Service!Written(r) =>
                 ShownTorn(memory, r)[b][c] = Shown(memory)[b][c]
           /\ DOMAIN Shown(memory) = DOMAIN ShownTorn(memory, r)
  <1>1. r.output_channels \in 0..SizeMax /\ r.output \in Buffers /\ SizeMax \in Nat
    BY RequestFacts, ThreadsAssumption
  <1>2. Service!Written(r) = {<<r.output, c>> : c \in 0 .. (r.output_channels - 1)}
    BY DEF Service!Written, OutputChannels
  <1>3. ASSUME NEW x \in Service!Written(r)
        PROVE  /\ x[1] = r.output /\ x[2] \in 0 .. (r.output_channels - 1)
               /\ x[1] \in Buffers /\ x[2] \in Channels
               /\ ShownTorn(memory, r)[x[1]][x[2]] = TornValue
               /\ Shown(memory)[x[1]][x[2]] = memory[r.output][x[2]]
    <2>1. PICK c \in 0 .. (r.output_channels - 1) : x = <<r.output, c>>
      BY <1>2
    <2>2. x[1] = r.output /\ x[2] = c /\ c \in Channels /\ c < r.output_channels
      BY <1>1, <2>1 DEF Channels
    <2> QED BY <1>1, <2>2 DEF Shown, ShownTorn
  <1>4. ASSUME NEW b \in Buffers, NEW c \in Channels, <<b, c>> \notin Service!Written(r)
        PROVE  ShownTorn(memory, r)[b][c] = Shown(memory)[b][c]
    <2>1. ~(r.output = b /\ c < r.output_channels)
      BY <1>1, <1>2, <1>4 DEF Channels
    <2> QED BY <2>1 DEF Shown, ShownTorn
  <1>5. DOMAIN Shown(memory) = DOMAIN ShownTorn(memory, r)
    BY DEF Shown, ShownTorn
  <1> QED BY <1>3, <1>4, <1>5

\* A write into the output of the call being served is not seen.
LEMMA HiddenWrite ==
    ASSUME NEW memory, MemoryType(memory), NEW r \in Requests,
           NEW c \in 0 .. (r.output_channels - 1), NEW value
    PROVE  ShownTorn([memory EXCEPT ![r.output][c] = value], r) = ShownTorn(memory, r)
  <1>1. r.output \in Buffers /\ c \in Channels /\ c < r.output_channels
    BY RequestFacts, ThreadsAssumption DEF Channels
  <1> DEFINE after == [memory EXCEPT ![r.output][c] = value]
  <1>2. \A b \in Buffers, d \in Channels :
            after[b][d] = IF b = r.output /\ d = c THEN value ELSE memory[b][d]
    BY <1>1 DEF MemoryType
  <1> HIDE DEF after
  <1>3. \A b \in Buffers, d \in Channels :
            (IF r.output = b /\ d < r.output_channels THEN TornValue ELSE after[b][d]) =
            (IF r.output = b /\ d < r.output_channels THEN TornValue ELSE memory[b][d])
    BY <1>1, <1>2
  <1>4. ShownTorn(after, r) = ShownTorn(memory, r)
    BY <1>3 DEF ShownTorn
  <1> QED BY <1>4 DEF after

LEMMA InitRefines == Init => Service!ServiceInit
  <1> SUFFICES ASSUME Init PROVE Service!ServiceInit
    OBVIOUS
  <1>1. phaseBar = [s \in Submitters |-> "idle"] /\ faultBar = [s \in Submitters |-> NULL]
    BY DEF Init, phaseBar, faultBar
  <1>2. memoryBar = [b \in Buffers |-> [c \in Channels |-> NULL]]
    BY DEF Init, memoryBar, Serving
  <1> QED BY <1>1, <1>2 DEF Init, Service!ServiceInit

\* No variable of the service changes.
Invisible == UNCHANGED <<phaseBar, request, faultBar, memoryBar>>

\* A step that changes neither the calls nor the memory is invisible.
LEMMA QuietStep ==
    ASSUME UNCHANGED <<spc, request, failure, out>>
    PROVE  Invisible
  BY DEF Invisible, phaseBar, faultBar, memoryBar, Serving

\* A call that stays in service is only seen to do so.
LEMMA ServedStep ==
    ASSUME IInv, NEW s \in Submitters, Serving(s), Serving(s)',
           \A t \in Submitters : t # s => spc'[t] = spc[t] /\ failure'[t] = failure[t],
           request' = request,
           ShownTorn(out', request[s]) = ShownTorn(out, request[s])
    PROVE  Invisible
  <1>1. phaseBar' = phaseBar
    BY DEF phaseBar, Serving
  <1>2. faultBar' = faultBar
    BY DEF faultBar, Serving
  <1>3. memoryBar = ShownTorn(out, request[s])
    BY WhatCallersSee
  <1>4. memoryBar' = ShownTorn(out', request[s])
    <2>1. \A t \in Submitters : t # s => ~Serving(t)'
      BY OneHolder DEF IInv, Serving
    <2> QED BY <2>1 DEF memoryBar, ShownTorn
  <1> QED BY <1>1, <1>2, <1>3, <1>4 DEF Invisible

\* No call is running, and none starts, while the owner is at work.
LEMMA OwnerRefines ==
    ASSUME OwnerAction
    PROVE  Invisible
  BY QuietStep DEF OwnerAction, OwnerStep, Construct, Reserve, ReserveFails, SpawnWorker,
     SpawnFails, Constructed, Destroy, SetStopping, NotifyStop, JoinWorkers, callVars

\* Workers change only channels of the call being served, and what it waits for.
LEMMA WorkerRefines ==
    ASSUME IInv, OutputInv, NEW w \in Workers, WorkerStep(w) \/ WorkerSpuriousWake(w)
    PROVE  Invisible
  <1>1. CASE WorkerChannel(w)
    <2> DEFINE r == job
               c == wcursor[w]
    <2>1. wpc[w] = "run" /\ current[w] = r /\ r \in Requests /\ w \in Shards
      BY <1>1, RunningWorker DEF WorkerChannel
    <2>2. PICK s \in Submitters : InFlight(s) /\ request[s] = r
      BY <2>1, NullFacts DEF IInv, JobInv
    <2>3. c \in 0 .. (ShardCount(r.output_channels, w) - 1)
      <3>1. ShardCount(r.output_channels, w) \in Nat
        BY <2>1, RequestFacts, ShardShape, ThreadsAssumption
      <3> QED BY <1>1, <2>1, <3>1, ThreadsAssumption DEF WorkerChannel, IInv, TypeOK
    <2> DEFINE d == ShardFirst(r.output_channels, w) + c
               value == ShardChannel(r, w, c)
    <2>4. d \in 0 .. (r.output_channels - 1)
      BY <2>1, <2>3, ShardChannelFacts
    <2>5. r \in Requests /\ MemoryType(out)
      BY <2>1 DEF IInv, TypeOK, MemoryType
    <2>6. out' = [out EXCEPT ![r.output][d] = value]
      BY <1>1, <2>1 DEF WorkerChannel, WriteShard
    <2> HIDE DEF r, c, d, value
    <2>7. ShownTorn(out', r) = ShownTorn(out, r)
      BY <2>4, <2>5, <2>6, HiddenWrite
    <2>8. spc' = spc /\ failure' = failure /\ request' = request
      BY <1>1 DEF WorkerChannel, callVars
    <2> QED BY <2>2, <2>7, <2>8, ServedStep DEF InFlight, Serving
  <1>2. CASE WorkerNotify(w) /\ ~UNCHANGED spc
    <2>1. PICK s \in Submitters : spc[s] = "blocked" /\ spc' = [spc EXCEPT ![s] = "await"]
      BY <1>2 DEF WorkerNotify
    <2>2. Serving(s) /\ Serving(s)' /\ \A t \in Submitters : t # s => spc'[t] = spc[t]
      BY <2>1 DEF Serving, IInv, TypeOK
    <2> QED BY <1>2, <2>2, ServedStep DEF WorkerNotify
  <1>3. CASE ~WorkerChannel(w) /\ ~(WorkerNotify(w) /\ ~UNCHANGED spc)
    BY <1>3, QuietStep DEF WorkerStep, WorkerSpuriousWake, WorkerExit, WorkerTake,
       WorkerWait, WorkerThrow, WorkerShardDone, WorkerFinish, WorkerNotify, callVars
  <1> QED BY <1>1, <1>2, <1>3

\* The lock of submit_mutex_ makes the call the one being served.
LEMMA LockRefines ==
    ASSUME IInv, NEW s \in Submitters, LockSubmission(s)
    PROVE  Service!Serve(s)
  <1> DEFINE r == request[s]
  <1>1. TypeOK /\ CallInv
    BY DEF IInv
  <1>2. /\ spc[s] = "submit" /\ r \in Requests
        /\ \A t \in Submitters : spc[t] \in {"idle", "submit"}
    BY <1>1, NullFacts DEF LockSubmission, CallInv
  <1>3. /\ spc' = [spc EXCEPT ![s] = IF UseScalar(r) THEN "scalar" ELSE "publish"]
        /\ request' = request /\ failure' = failure /\ out' = out
    BY DEF LockSubmission
  <1> HIDE DEF r
  <1>4. phaseBar[s] = "queued" /\ \A t \in Submitters : phaseBar[t] \notin {"served", "done"}
    BY <1>2 DEF phaseBar
  <1>5. phaseBar' = [phaseBar EXCEPT ![s] = "served"]
    BY <1>1, <1>2, <1>3 DEF phaseBar, TypeOK
  <1>6. faultBar' = faultBar
    BY <1>1, <1>2, <1>3 DEF faultBar, Serving, TypeOK, CallInv
  <1>7. memoryBar = Shown(out) /\ memoryBar' = ShownTorn(out, r)
    BY <1>1, <1>2, <1>3 DEF memoryBar, Shown, ShownTorn, Serving, TypeOK, r
  <1>8. /\ \A x \in Service!Written(r) : memoryBar'[x[1]][x[2]] = TornValue
        /\ Service!Frame(r)
    BY <1>2, <1>7, HiddenChannels DEF Service!Frame
  <1> QED BY <1>3, <1>4, <1>5, <1>6, <1>8 DEF Service!Serve, r

\* Leaving the barrier, or the scalar kernel, ends the service with what the
\* call has computed or with its own error.
LEMMA EndRefines ==
    ASSUME IInv, IInv', OutputInv', NEW s \in Submitters, ScalarDone(s) \/ Collect(s)
    PROVE  Service!Succeed(s) \/ Service!Fail(s)
  <1> DEFINE r == request[s]
  <1>1. TypeOK /\ CallInv /\ r \in Requests
    BY SubmitterFacts DEF IInv, ScalarDone, Collect
  <1>2. /\ spc[s] \in {"scalar", "await"}
        /\ \A t \in Submitters : t # s => spc[t] \in {"idle", "submit"}
    BY SubmitterFacts DEF ScalarDone, Collect
  <1>3. /\ spc' = [spc EXCEPT ![s] = "return"] /\ request' = request /\ out' = out
        /\ \A t \in Submitters : t # s => failure'[t] = failure[t]
    BY <1>1 DEF ScalarDone, Collect, TypeOK
  <1>4. spc'[s] = "return" /\ request'[s] = r
    BY <1>1, <1>3 DEF TypeOK
  <1>5. phaseBar[s] = "served" /\ phaseBar' = [phaseBar EXCEPT ![s] = "done"]
    BY <1>1, <1>2, <1>3 DEF phaseBar, TypeOK
  <1>6. faultBar' = [faultBar EXCEPT ![s] = IF failure'[s] = NULL THEN NULL ELSE failure'[s].req]
    <2>1. \A t \in Submitters : t # s => ~Serving(t) /\ ~Serving(t)'
      BY <1>1, <1>2, <1>3 DEF Serving, TypeOK
    <2>2. Serving(s) /\ ~Serving(s)'
      BY <1>2, <1>4 DEF Serving
    <2>3. \A t \in Submitters :
              faultBar'[t] = IF t # s THEN faultBar[t]
                             ELSE IF failure'[s] = NULL THEN NULL ELSE failure'[s].req
      BY <1>3, <2>1, <2>2 DEF faultBar
    <2>4. faultBar' = [t \in Submitters |-> faultBar'[t]]
          /\ faultBar = [t \in Submitters |-> faultBar[t]]
      BY DEF faultBar
    <2> HIDE DEF faultBar
    <2> QED BY <2>3, <2>4
  <1>7. faultBar[s] = NULL
    BY <1>2 DEF faultBar, Serving
  <1>8. memoryBar = ShownTorn(out, r) /\ memoryBar' = Shown(out)
    BY <1>1, <1>2, <1>3, <1>4, WhatCallersSee DEF memoryBar, Shown, Serving
  <1>9. Service!Frame(r)
    BY <1>1, <1>8, HiddenChannels DEF Service!Frame
  <1>10. CASE failure'[s] = NULL
    <2>1. \A c \in 0 .. (r.output_channels - 1) : out[r.output][c] = ScalarChannel(r, c)
      BY <1>3, <1>4, <1>10 DEF OutputInv, CompleteOutput
    <2>2. \A x \in Service!Written(r) : memoryBar'[x[1]][x[2]] = ScalarChannel(r, x[2])
      BY <1>1, <1>8, <2>1, HiddenChannels
    <2>3. faultBar' = faultBar
      BY <1>6, <1>7, <1>10 DEF faultBar
    <2> QED BY <1>3, <1>5, <1>9, <2>2, <2>3 DEF Service!Succeed
  <1>11. CASE failure'[s] # NULL
    <2>1. failure'[s].req = r
      BY <1>4, <1>11 DEF IInv, ErrorInv, ErrorBelongsToOwnJob
    <2> QED BY <1>3, <1>5, <1>6, <1>9, <1>11, <2>1 DEF Service!Fail
  <1> QED BY <1>10, <1>11

LEMMA ReturnRefines ==
    ASSUME IInv, NEW s \in Submitters, Return(s)
    PROVE  Service!Resume(s)
  <1>1. /\ spc[s] = "return" /\ spc' = [spc EXCEPT ![s] = "idle"]
        /\ request' = request /\ failure' = failure /\ out' = out
    BY DEF Return
  <1>2. phaseBar[s] = "done" /\ phaseBar' = [phaseBar EXCEPT ![s] = "idle"]
    BY <1>1 DEF phaseBar, IInv, TypeOK
  <1>3. faultBar' = faultBar /\ memoryBar' = memoryBar
    BY <1>1 DEF faultBar, memoryBar, Serving, IInv, TypeOK
  <1> QED BY <1>1, <1>2, <1>3 DEF Service!Resume

\* The steps of a call between its lock and its return.
LEMMA ServingRefines ==
    ASSUME IInv, OutputInv, NEW s \in Submitters,
           \/ ScalarStep(s) \/ Publish(s) \/ NotifyAll(s) \/ CallerChannel(s)
           \/ CallerThrow(s) \/ CallerShardDone(s) \/ Block(s) \/ SubmitterSpuriousWake(s)
    PROVE  Invisible
  <1> DEFINE r == request[s]
             c == cursor[s]
  <1>1. /\ Serving(s) /\ Serving(s)' /\ request' = request
        /\ \A t \in Submitters : t # s => spc'[t] = spc[t] /\ failure'[t] = failure[t]
    BY DEF IInv, TypeOK, Serving, ScalarStep, Publish, NotifyAll, CallerChannel,
       CallerThrow, CallerShardDone, Block, SubmitterSpuriousWake
  <1>2. r \in Requests /\ MemoryType(out) /\ c \in Nat
    BY <1>1, SubmitterFacts, ThreadsAssumption DEF Serving, IInv, TypeOK, MemoryType
  <1>3. CASE ScalarStep(s)
    <2>1. c \in 0 .. (r.output_channels - 1)
      BY <1>2, <1>3, RequestFacts, ThreadsAssumption DEF ScalarStep
    <2>2. out' = [out EXCEPT ![r.output][c] = ScalarChannel(r, c)]
      BY <1>3 DEF ScalarStep
    <2> HIDE DEF r, c
    <2>3. ShownTorn(out', r) = ShownTorn(out, r)
      BY <1>2, <2>1, <2>2, HiddenWrite
    <2> QED BY <1>1, <2>3, ServedStep DEF r
  <1>4. CASE CallerChannel(s)
    <2>1. 0 \in Shards
      BY ThreadsAssumption DEF Shards
    <2>2. c \in 0 .. (ShardCount(r.output_channels, 0) - 1)
      <3>1. ShardCount(r.output_channels, 0) \in Nat
        BY <1>2, <2>1, RequestFacts, ShardShape, ThreadsAssumption
      <3> QED BY <1>2, <1>4, <3>1 DEF CallerChannel
    <2> DEFINE d == ShardFirst(r.output_channels, 0) + c
               value == ShardChannel(r, 0, c)
    <2>3. d \in 0 .. (r.output_channels - 1)
      BY <1>2, <2>1, <2>2, ShardChannelFacts
    <2>4. out' = [out EXCEPT ![r.output][d] = value]
      BY <1>4 DEF CallerChannel, WriteShard
    <2> HIDE DEF r, c, d, value
    <2>5. ShownTorn(out', r) = ShownTorn(out, r)
      BY <1>2, <2>3, <2>4, HiddenWrite
    <2> QED BY <1>1, <2>5, ServedStep DEF r
  <1>5. CASE ~ScalarStep(s) /\ ~CallerChannel(s)
    <2>1. out' = out
      BY <1>5 DEF Publish, NotifyAll, CallerThrow, CallerShardDone, Block,
         SubmitterSpuriousWake
    <2> QED BY <1>1, <2>1, ServedStep
  <1> QED BY <1>3, <1>4, <1>5

\* Refused calls, and calls that begin to wait for submit_mutex_.
LEMMA CallRefines ==
    ASSUME IInv, NEW s \in Submitters, NEW r \in Requests, Reject(s, r) \/ Call(s, r)
    PROVE  Service!Refuse(s, r) \/ Service!Ask(s, r)
  <1>0. TypeOK /\ r # NULL /\ spc[s] = "idle"
    BY NullFacts DEF IInv, Reject, Call
  <1>1. \A t \in Submitters : ~Serving(t)' <=> ~Serving(t)
    BY <1>0 DEF Serving, Reject, Call, TypeOK
  <1>2. memoryBar' = memoryBar
    <2>1. \A t \in Submitters : Serving(t) => request'[t] = request[t]
      BY <1>0 DEF Serving, Reject, Call, TypeOK
    <2>2. out' = out
      BY DEF Reject, Call
    <2> QED BY <1>1, <2>1, <2>2 DEF memoryBar
  <1>3. CASE Reject(s, r)
    <2>1. phaseBar' = phaseBar /\ phaseBar[s] = "idle"
      BY <1>0, <1>3 DEF Reject, phaseBar
    <2>2. faultBar' = [faultBar EXCEPT ![s] = r]
      <3>1. failure' = [failure EXCEPT ![s] = [req |-> r, shard |-> NULL]]
            /\ [req |-> r, shard |-> NULL] # NULL /\ [req |-> r, shard |-> NULL].req = r
        BY <1>3, RequestsAssumption DEF Reject
      <3> HIDE DEF faultBar
      <3> QED BY <1>0, <1>1, <3>1 DEF faultBar, Serving, TypeOK
    <2> QED BY <1>2, <1>3, <2>1, <2>2 DEF Reject, Service!Refuse
  <1>4. CASE Call(s, r)
    <2>1. phaseBar' = [phaseBar EXCEPT ![s] = "queued"] /\ phaseBar[s] = "idle"
      BY <1>0, <1>4 DEF Call, phaseBar, TypeOK
    <2>2. faultBar' = [faultBar EXCEPT ![s] = NULL]
      BY <1>0, <1>4 DEF Call, faultBar, Serving, TypeOK
    <2> QED BY <1>2, <1>4, <2>1, <2>2 DEF Call, Service!Ask
  <1> QED BY <1>3, <1>4

LEMMA StepRefines ==
    ASSUME IInv, OutputInv, IInv', OutputInv', [Next]_vars
    PROVE  Service!ServiceNext \/ Invisible
  <1>1. CASE OwnerAction
    BY <1>1, OwnerRefines
  <1>2. CASE \E w \in Workers : WorkerStep(w) \/ WorkerSpuriousWake(w)
    BY <1>2, WorkerRefines
  <1>3. ASSUME NEW s \in Submitters, SubmitterStep(s) \/ SubmitterSpuriousWake(s)
        PROVE  Service!ServiceNext \/ Invisible
    <2>1. CASE LockSubmission(s)
      BY <2>1, LockRefines DEF Service!ServiceNext
    <2>2. CASE ScalarDone(s) \/ Collect(s)
      BY <2>2, EndRefines DEF Service!ServiceNext
    <2>3. CASE Return(s)
      BY <2>3, ReturnRefines DEF Service!ServiceNext
    <2>4. CASE \/ ScalarStep(s) \/ Publish(s) \/ NotifyAll(s) \/ CallerChannel(s)
               \/ CallerThrow(s) \/ CallerShardDone(s) \/ Block(s)
               \/ SubmitterSpuriousWake(s)
      BY <2>4, ServingRefines
    <2> QED BY <1>3, <2>1, <2>2, <2>3, <2>4 DEF SubmitterStep
  <1>4. CASE \E s \in Submitters : \E r \in Requests : Reject(s, r) \/ Call(s, r)
    BY <1>4, CallRefines DEF Service!ServiceNext
  <1>5. CASE UNCHANGED vars
    BY <1>5, QuietStep DEF vars, callVars
  <1> QED BY <1>1, <1>2, <1>3, <1>4, <1>5 DEF Next, OwnerAction

\* linear() is atomic and serialised to its callers, whatever the threads, the
\* schedules and the failures are.
THEOREM PoolImplementsService == Spec => ImplementsService
  <1>1. Init => Service!ServiceInit
    BY InitRefines
  <1>2. ASSUME IInv, OutputInv, IInv', OutputInv', [Next]_vars
        PROVE  [Service!ServiceNext]_(Service!serviceVars)
    BY <1>2, StepRefines DEF Invisible, Service!serviceVars
  <1> QED BY <1>1, <1>2, Inductive, ProgressIsKept, PTL
          DEF Spec, ImplementsService, Service!ServiceSpec
=============================================================================
