# Verification of gpt2-cpu-runtime

TLA+ models of the C++ GPT-2 runtime in `src/`, model-checked with TLC; the safety
properties and refinements are also proved with TLAPS for every size. `PROJECT.json`
lists the runs, the source lines of every definition, the hazards and the
theorems. All paths below are relative to the repository.

## 1. The system

| Part | State it keeps | Operations | Talks to |
|---|---|---|---|
| **LinearExecutor** (`src/linear_executor.cpp`) | worker threads; `job_`, `generation_`, `completed_`, `worker_error_`, `stopping_` under `state_mutex_`; `submit_mutex_` for a whole call | constructor, destructor, `linear()`, `worker_loop`, `run_shard` | callers' vectors, borrowed as spans for the duration of a call; threads and condition variables |
| **InferenceSession, KVCache** (`src/session.cpp`) | `size_`, the K/V slots per layer and position, scratch rows, `logits_` | `prefill`, `decode`, `reset`, `consume_token` | borrows a model; calls `kernels::linear` or `executor->linear` four times per layer and token and once for the logits; returns views of `logits_` |
| **GPT2Model::forward, InferenceWorkspace** (`src/model.cpp`) | a workspace reused between calls | `resize`, `forward` | the kernels |
| **Checkpoint loader, ParameterLayout** (`src/model.cpp`) | the layout being built, the storage | `load_checkpoint` | a file that may change; `forward` and `consume_token` slice the storage |
| **Kernels** (`src/kernels.cpp`) | none | `linear`, both attentions, normalisation, GELU | |
| **gpt2_generate** (`app/gpt2_generate.cpp`) | token list, loop counter, the last view of logits | option checks, full and cached generation, dump | forward, session, executor |
| **gpt2_benchmark** (`app/gpt2_benchmark.cpp`) | session, token lists | timed sequences of prefill/decode/reset, comparison of both modes | as above |
| linear benchmark, inspector, validation tools, tests | — | timing, printing, comparison | — |

What is hard in it, and what must nevertheless hold:

* **LinearExecutor** is the only concurrent part. A worker copies `job_` under a
  lock and dereferences its spans without one; several threads may submit, also
  with the same output vector; both notifications are sent after unlocking; any
  shard may throw; the constructor may fail after some workers run; the
  generation counter wraps. It must look like an atomic, serialised `linear()`:
  every shard done before the call ends, errors delivered to their own call, no
  lost wakeup, no dangling span, no orphan thread.
* **InferenceSession** has no locks but long operations that may fail anywhere:
  an executor failure in the middle of a layer leaves half of the cache written.
  `size_` is the only commit point. Its answers must equal full recomputation.
* **forward** overwrites a workspace of the wrong length, possibly left by a
  failed call, and its causal mask is a loop bound.
* **load_checkpoint** asks for the size once and reads later, and multiplies
  untrusted dimensions; the code that uses the weights recomputes the same
  products without a check.
* **KVCache** keeps all slots in one flat vector. Its constructor checks every
  product, the offsets are unchecked, and attention computes offsets of its own:
  slots must not overlap, leave the vector or be taken for one another.
* **gpt2_benchmark** runs many calls on one session. Rounds must not depend on
  each other, and one capacity check stands for phases of different lengths.
* **gpt2_generate** reads the next token from the view returned by the previous
  call and usually does not consume the last token it prints, so the capacity it
  needs and the dump it writes are off-by-one traps.

The parts not modelled, with the reason, are in section 8.

## 2. The modules

```
SizeArithmetic        size_t, checked_add, ...          <- SizeArithmeticProofs
  ShardPartition      run_shard's index arithmetic
    LinearExecutor    threads, locks, linear()
      LinearRefinement --implements--> LinearService    (atomic, serialised linear())
                                                        <- LinearExecutorProofs
  CheckpointLoader    load_checkpoint, layout, slices   <- CheckpointLoaderProofs
  KVCache             flat cache vectors, offsets       <- KVCacheProofs
Transformer           the equations of GPT-2 over opaque rows
  InferenceSession    prefill, decode, reset, cache
    SessionRefinement --implements--> SessionService    (state table of MILESTONE2_DESIGN.md)
    SharedExecutor    a session and other threads, over LinearService
                                                        <- InferenceSessionProofs
  GPT2Forward         forward over a reused workspace   <- GPT2ForwardProofs
SessionService
  GreedyDecoding      the model, the session and the greedy choice
    Generate          one run of gpt2_generate          <- GenerateProofs
    Benchmark         one run of gpt2_benchmark         <- BenchmarkProofs
TermKernels           kernels as free terms, for TLC
MC*                   instances for TLC
```

A module of proofs is about the module beside it and those above in its branch.

**LinearExecutor.** One action per critical section, kernel write, notification
or wait. `state_mutex_` needs no variable: its sections do nothing that blocks
except waiting on a condition variable, which releases it, so each is one action
(`WorkerTake`, `WorkerFinish`, `Publish`, `Collect`, `Block`, ...). Locking
`submit_mutex_`, in contrast, spans a call and is a variable. A notification is
an action after the one that unlocks; a sleeping thread is `waiting` or
`blocked`, and may also wake spuriously. A wait whose predicate is false and the
step to sleep are one action, as the standard guarantees. `spc` and `wpc` say
where each caller and worker is. `out` holds, per element, a term naming the
operands and offsets it was computed from, so that a write of the wrong shard is
visible. A kernel writes one output channel per step. `Throwing` says which
shards may throw; `life` is the owner's thread in the constructor and
destructor. The object is destroyed only when no call is active, as the C++
lifetime rules demand of the owner.

**LinearService** is what callers may rely on: a call is refused, or queued,
served alone and ended by success (all channels hold the kernel's result) or by
an error of that very call; its own channels are unspecified in between, and it
touches nothing else. `LinearRefinement` maps a call to *served* from the lock
of `submit_mutex_` until it leaves the barrier.

**Transformer** characterises the residual row `Hidden(l, p)` of the last token of
prefix `p` entering layer `l` by one equation per layer. The kernels are constant
operators: floating-point is deterministic, and the properties are only about
which operands reach which row. `TermKernels` interprets them as free terms, the
strongest interpretation: equal terms mean equal results under every other.

**InferenceSession.** `consume_token` is split at its linear operations, since
these alone can fail after the arguments are accepted, and the exception leaves
everything written before it. A slot of the cache holds the pair stored for a
layer and position. `history` is a history variable: the tokens consumed since
the last reset. **SessionService** is the documented state table: calls append
their whole argument and answer for the new prefix, or change nothing.

**SharedExecutor** composes a session with `LinearService`: the session's thread and
`Others` call one executor. `CallLinear` asks for the operation at which
`consume_token` is, with the vector and the `output_count` of that call; the
executor serves the queued calls one at a time in any order; `LinearReturns` and
`LinearRethrows` go on with what the session then finds in its vector, a torn row
if a channel of it is not the one computed for this very call. The variables of
`InferenceSession` have there the meaning they have alone, with a step of
`consume_token` at the moment `linear()` ends; `memory` is what the executor writes,
channel by channel. The layer norm before a projection and `gelu_in_place` after
it count as part of the projection, so `RowOf` is the operator that
`InferenceSession` uses. A session without an executor runs the scalar kernel in
its own thread, and is `InferenceSession` without `LinearThrows`. What the others
call, with sizes right or wrong, is `OtherCalls`; that they have no access to the
session's vectors, which are private members, is an assumption.

**GPT2Forward** keeps a workspace from call to call. `resize` goes vector by
vector, with the sizes it computes in checked arithmetic, and may throw between
any two: `overflow_error` before it changes anything, `length_error` beyond
`MaxFloats` (the vector's `max_size`), `bad_alloc` when a vector grows. So there
are rows left over from longer prefixes and workspaces whose vectors belong to
different calls. `LayerAccepts` is what `require_size` demands in the kernels of a
layer, and `OutputAccepts` in the final norm and the output projection, in the
wrapping arithmetic in which they compute it.

**KVCache** is the class alone, with the arguments of any caller: constructor,
`store` with a width of its own for each of its two rows, and the reads through
`key` and `layer_keys`. An element of `floats` says
which stored row and channel it comes from. `StoreReplacesOneSlot` is the promise
`InferenceSession` relies on when it treats the cache as an array of slots;
`AttentionReadsSlots` is the same for the arithmetic inside
`cached_self_attention`.

**CheckpointLoader** is the loader check by check, the layout tensor by tensor, a
file whose size may change and whose reads may fail, and the slices that its users
take. Integers have the
width `SizeMax`; `Overflow` is a checked operation that throws.

**GreedyDecoding** is what the programs share: `SessionService`, a forward pass
that answers with the padded row of the last token, and `greedy_token`, relying
on what `ImplementsSession` and `RowsMatchPrefixes` establish. **Generate** is one
run of `gpt2_generate`. **Benchmark** is one run of `gpt2_benchmark`: `phase` is the
metric being measured, `round` counts `measure`'s iterations, `stage` is where an
iteration is (setup, prefill, the operation, a decode inside it); `OutOfMemory` is
what may be lacking between the calls, for samples, medians and token lists. A view of logits
is a span of the session's buffer, so the benchmark reads `answer` itself.

## 3. The runs

| Run | What is checked | Instance |
|---|---|---|
| `ExecutorPool` | shards tile the channels inside the caller's spans; borrowed data alive; no write race; completeness; exact barrier; no job skipped | 3 threads, 2 callers, 5 requests on one vector |
| `ExecutorFaults` | what shards have written, and error ownership, with throwing shards; no orphan; the inductive invariants | as above, any shard of one request throws |
| `ExecutorLive` | a served call returns; the destructor ends | 3 threads, 1 caller, a parallel and a scalar request, faults |
| `ExecutorService` | the pool implements `LinearService` | 2 threads, 2 callers, 4 requests on 2 vectors, faults |
| `Session` | slots, published prefix, answers, inductive invariant, commit only on success; calls end; the session implements its state table | 2 layers, capacity 2, 2 tokens and an invalid one |
| `SharedExecutor` | sharing is transparent to the session; returned logits stay; the inductive invariant | 2 layers, capacity 2, one other thread with a valid and an ill-sized call, faults on both sides |
| `Forward` | row i answers for the first i tokens; every vector has the size the kernels address; the inductive invariant | 2 layers, context 3, lists up to 4, four pairs of dimensions, `SizeMax` 23 |
| `KVCache` | sizes exact; no offset wraps or leaves the vectors; attention reads the slot it means; a store replaces one slot | `SizeMax` 103, up to 2 layers and positions, widths 2 to 60 |
| `Generate` | greedy output, dump, capacity and context checks; the inductive invariant | context 3, up to 3 new tokens, every option combination |
| `Benchmark` | rounds are alike; both generations agree; what may be refused half way; the inductive invariant | context 3, up to 3 tokens, up to 4 rounds, every option combination |
| `BenchmarkCapacity` | the capacity check is sufficient: **violated**, see section 10 | as `Benchmark` |
| `CheckpointLoader` | layout contiguous, storage complete, slices inside; the inductive invariant | `SizeMax` 511, 88 headers, 10 file sizes |

The inductive invariants are run before they are proved, and they hold what the
proofs need of each moment, the module's type invariant included; `IInv`,
`OutputInv`, `SessionInv`, `SharedInv`, `ForwardInv`, `LoaderInv`, `GenerateInv` and `BenchmarkInv`
are described in section 5.

All but `BenchmarkCapacity` pass. Each property of each passing run also has a mutant of the code (the operators
marked `Mutant:` in the modules) that violates it under the same configuration:
a missing wait, a lost notification, an unreset error, a stale view, an
off-by-one in the capacity, and so on.

**Why the bounds are enough to be interesting.**
*Pool:* three threads are the fewest with two workers that can interleave with
each other and the caller; `TotalThreads + 1` channels make the shards uneven;
the requests of `ExecutorPool` include a scalar fallback, a call with two weights per
channel and no bias, an ill-sized call, and one whose weight span has just the size
to which the product of its channel counts wraps: it must be refused, since its
shards would leave the span. The generation counter wraps at `SizeMax` (6, or
4 where faults are explored), so every run goes round it. `ExecutorService` has one
worker only, since refinement is not symmetric in the callers and the barrier with two workers is covered by the invariant runs.
`SYMMETRY` permutes the callers, in invariant runs and for the action property
`NoJobSkipped`, never for liveness or refinement. `MinWeightFloatsPerThread` is 1
instead of 65536: it only chooses the path, and both paths are taken.
*Session:* capacity 2 has a first slot, a last slot, a full cache and a decode
after a failed decode at the same position; two layers distinguish an error in
one layer from one between layers; prompts one longer than the capacity are
refused.
*Shared executor:* the other thread's row is another one than any of the session's,
its call has as many channels as the logits, and it may be queued, served, failed
or refused at every moment of the session's calls; vectors of 1 to 4 channels are
written whole or in part.
*Forward:* the dimensions overflow in the MLP's vector or in the logits, with a
small wrapped product, exceed `MaxFloats`, or fit; three lengths make vectors grow
and shrink in any order.
*KVCache:* shapes with one and two layers and positions, of which the largest fit
exactly or overflow in a layer, in the total, in K plus V, or in bytes.
*Generate and Benchmark:* context 3 with prompts up to 4 and up to 3 new tokens lies on both
sides of each comparison.
*Loader:* the layouts overflow in a tensor, in the total, in bytes, or pass with
more bytes than `StreamMax`; file sizes include those that a wrapping
computation would accept, and too short ones. The version 1 and 3 headers have
real vocabularies below, at and above the padded one.
The input bounds are `Requests`, `TokenIds`, `MaxPrompt`, `MaxTokens`, `MaxNew`,
`MaxGeneration`,
`MaxRounds`, `OtherCalls`, `Longest`, `PromptSet`, `Configs`, `Indices`, `Widths`, `Headers` and `FileSizes`. No run has a state constraint.
Deadlock is checked in every run; programs that end (`Generate`, `Benchmark`, `CheckpointLoader`) stutter in an
explicit last action.

## 4. Fairness

`LinearExecutor!FairSpec` is weak fairness of the owner's steps inside the
constructor and destructor, of each worker's steps and of each caller's steps
inside `linear()`: the operating system schedules runnable threads. Nothing more
is assumed: nobody has to call, construct or destroy; spurious wakeups are not
owed; and `std::mutex` is not fair, so `CallReturns` is about a call that *has*
`submit_mutex_`, not about one queueing for it, which may starve. For the session,
weak fairness of its steps is justified by `CallReturns` as long as its calls get
that mutex: always when the session has the executor to itself, which is how both
programs use it; a session that shares its executor with others that never stop
is promised no more than its calls to `linear` are, and `SharedSpec` states no fairness.

## 5. What is proved

For every value of the constants that satisfies their assumptions. The named
`ASSUME`s of the modules are used, and nothing else; TLC evaluates each of them in
a run.

*`SizeArithmeticProofs`* — lemmas for the modules that compute sizes: a checked
operation either throws or returns the exact result (`CheckedProduct`,
`ProductReturned`), factors of a product that fits fit themselves (`FactorsFit`),
a block of a division lies inside the whole (`BlockInside`), and division and
multiplication are monotone, which the solver does not know of products of
variables.

*`LinearExecutorProofs`* — any number of threads, callers, requests, sizes and any
width of the generation counter.

The partition: from Euclidean division the shards tile the output channels
(`ShardsPartitionChannels`), and once `linear()` has checked that the weight count
fits, no unchecked product of `run_shard` wraps and every slice lies in the matrix
(`WeightSlicesInBounds`). For the pool they give `ShardsStayInBounds`: whenever a job is
in flight, its call has passed those checks (`AcceptedFits`, from `CallInv`), and no
subspan of output, weight or bias leaves the span the caller passed.

The pool: `IInv` is inductive and is the conjunction of
- `TypeOK` and `CompletedExact`, the properties of interest, which are not
  inductive alone: a step of a worker says nothing about `completed_` unless one
  knows which generation it observed;
- `LifeInv`: which threads exist at which point of construction and destruction;
- `CallInv`: `submit_mutex_` is held by the one call that is past its lock;
- `JobInv`: workers run only the job in flight, and without one all of them have
  observed the current generation. Hence `generation_ + 1` differs from what
  every worker has observed, although the counter wraps;
- `ErrorInv`: an error on its way to the caller is about the job in flight.

One lemma per actor (owner, worker, submitter, call) shows that its steps keep
`IInv`. From it follow `BorrowedDataStaysAlive`, `BarrierIsExact`, `ErrorsAreOwn`,
`NoThreadOutlivesExecutor`, `EveryJobIsRun` and, with the partition theorem,
`WritesNeverRace`.

The output: `OutputInv`, inductive with `IInv`, says which channels of a call are
computed: all of a shard that is finished without an error, and of a running one
those before its cursor. At the barrier every shard is finished, the shards tile
the channels, and a sharded channel is the scalar one because the offsets of the
subspans add up (`ShardIsScalar`); so `OutputIsComplete`. Writes of different calls
do not disturb each other because only the holder of `submit_mutex_` has any.

The refinement: `PoolImplementsService`. The steps that enter and leave the
serialised section are steps of `LinearService`; `OutputInv` supplies the result of
the one that leaves, `ErrorInv` that its error is its own; all others are hidden.

*`InferenceSessionProofs`* — any number of layers, capacity, vocabulary and any
kernels that satisfy the equations of `TransformerAssumption`. `SessionInv` adds to
the properties what holds *during* a call: `SlotsExact` (the slots written so far
are those of `history \o tokens`) and `RowsExact` (each scratch row holds what the
next operation needs). It yields `SessionTypeCorrect`, `PublishedPrefixStaysIntact`
and `CachedDecodingIsExact` (cached inference equals full recomputation), and
`SizeIsPublishedLast`. `TransformerAssumption` defines `Hidden` by its equations, so
it excludes no kernels; TLC evaluates it for the term kernels in the runs.
`SessionImplementsService`: every step of the session is a step of `SessionService` or
invisible, for any capacity. Only the first and last steps of a call, refusals and
`reset` are visible; `SessionInv` supplies the answer of the last step, and
`CallAccepted` that the argument of the call in progress is one a user may pass.

On a shared executor, for any number of other threads and any calls of theirs:
`SharedInv` ties the session's place in `consume_token` to its call in the executor.
The call is the current operation's; while it is queued or served no error is
pending; once it has succeeded its vector holds the whole row, and after the last
operation `logits_` keeps it. It is inductive because a served call touches nothing
outside its own output (`OutsideOutput`), and the others' outputs are not the
session's. Then a return is one of the five steps of `InferenceSession`
(`ReturnRefines`), an exception is `LinearThrows`, and all else leaves the session
alone: `SharingChangesNothing`. So all theorems about the session hold for the
shared one, among them `SharedDecodingIsExact` and `SharedSessionImplementsService`,
and with `SharedInv` the view that a call returned is right channel by channel
until the session's next call (`ViewStaysValidShared`). With `PoolImplementsService`
this goes from worker threads to answers: the pool implements the service that
`SharedExecutor` uses. The link between the two theorems is the reading of the
service's constants, `RowOf` for what the pool computes from its request.

*`GPT2ForwardProofs`* — any configuration that `validate()` and the loader accept, any
context length. `ForwardInv` adds to the types that a call in the layer loop fits
the context (`CallFits`), that the vectors already resized have the new sizes
(`PrefixResized`), and that the rows are those of the current layer (`RowsExact`).
`WorkspaceStaysExact`: the products that `resize` checks are exact, and the products
that the kernels compute unchecked are the same ones. `ForwardIsCausal`: row i
answers for the first i tokens, whatever the workspace held.

*`KVCacheProofs`* — any dimensions and any width of `size_t`. The constructor's checks
make the stored counts exact products (`CacheTypeCorrect`), so no offset wraps
(`OffsetsStayInside`); slots at different places do not overlap (`SlotsApart`), so a
store replaces one slot (`StoresAreIndependent`); and attention's own index is that
of the slot and channel it means (`AttentionMeetsSlots`). This is what justifies the
array of slots in `InferenceSession`.

*`CheckpointLoaderProofs`* — any header, file size and width of `size_t`. `LoaderInv`:
the layout is contiguous and exact tensor by tensor (`TensorsExact`), a
configuration past the header was validated, and the payload is read only after
the size check. Hence `LoadedIsComplete`, and `SlicesStayInside`: each tensor's count
bounds every product by which a layer's slice or an embedding row is addressed,
the real vocabulary being no larger than the padded one.

*`GenerateProofs`* — any context, vocabulary, command line and model. `GenerateInv`:
the tokens so far are the greedy continuation of the prompt, and in cached mode
the session has consumed them all but, at most, the one emitted last (`Pending`);
the room that is left is what `Required` has counted. Hence `BothModesAreGreedy`,
`DumpIsComplete` and `CapacityIsExact`: no call is refused after the first checks.

*`BenchmarkProofs`* — any context, command line and number of rounds. `BenchmarkInv`
says what the session and the token list hold at each stage of a round without
mentioning the rounds before (`RoundFollows`), hence `RoundsAreIndependent`. That two
greedy continuations of one prompt are equal would be an induction over the
tokens; `Retraces` makes it an invariant instead: the cached generation is at each
moment a prefix of the last full one, hence `GenerationsAgree`.
`OnlyOneCallLacksRoom`: the capacity check leaves room for every call but one.

Both rely on `GreedyAssumption`: for every prefix that forward and a session accept,
the session answers the real part of forward's row, and its greedy choice is a
known token. `CachedDecodingIsExact` and `ForwardIsCausal` establish the first.

## 6. What is only model-checked

Liveness: `CallReturns`, `StopTerminates` and `CallsTerminate`. The prover reaches
neither fairness nor `ENABLED`. Every other property of the passing runs is a
theorem.

## 7. Plan

Done: all modules of section 2 and the proofs of section 5.

Possible extensions: several sessions as full participants of `SharedExecutor`
(each is, to the others, one of `Others`, so the theorem already covers each of
them); and shorter proofs of the executor's lemmas about single actors.

## 8. Not modelled

* Floating-point values: rows are opaque and their equality is that of the
  computation. Rounding differences between the scalar and the sharded kernel do
  not exist, as every output channel is summed in the same order.
* The text syntax of options and token lists, printing and timing. A malformed
  option ends like a bad combination of options; `--help` prints the usage and exits
  with status 0 before anything else is done, and is left out.
* `LinearExecutor(0)`: the constructor throws `invalid_argument` as its first
  statement, before it has reserved or started anything. `ThreadsAssumption`
  excludes it, since `TotalThreads` is a constant of the model and shards of no
  threads are undefined; the programs' own check of `--threads` is modelled.
* `gpt2_linear_benchmark`, `gpt2_inspect`: straight sequences of modelled calls plus
  output, with no decision that depends on a result. The validation tools run
  offline on files.
* Timing and medians in `gpt2_benchmark`, and the values of its projections.
* Contents of checkpoint tensors. A read that fails may leave any number of floats
  in the storage; why it fails is not told apart from a file that ends early.
* Weak memory: every shared variable is accessed under `state_mutex_` or handed
  over by it, so the interleavings of critical sections are all there is. The
  output vectors are the exception, and `NoWriteRace` shows they never race.
* A session or executor used by two threads in ways its documentation forbids.

## 9. Running

    tlc -workers 2 -config ExecutorPool.cfg MCLinearExecutor.tla
    tlapm LinearExecutorProofs.tla

`PROJECT.json` names the module of every configuration. A run takes between
seconds and a minute or two; the proofs take some minutes.

## 10. Findings

**`gpt2_benchmark` accepts a capacity that is too small** (`BenchmarkCapacity`).
`main` compares the capacity with prompt + generated − 1 tokens
(`app/gpt2_benchmark.cpp:232-234`), which is what the cached generation consumes,
and reports "benchmark capacity cannot hold generation state" otherwise. The
`single_decode` phase always consumes prompt + 1 (lines 299-305). With
`--generation-tokens 1` and `--capacity` equal to the prompt length the check
passes, two metrics are printed, and `session.decode` then throws
`length_error` "session KV cache is full". `OnlySingleDecodeLacksRoom` shows that
this is the only combination in which a call of an accepted run is refused.
