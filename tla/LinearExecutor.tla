--------------------------- MODULE LinearExecutor ---------------------------
(***************************************************************************)
(* The persistent worker pool of src/linear_executor.cpp: its constructor  *)
(* and destructor, the loop of every worker thread and linear() as called  *)
(* by any number of application threads.                                   *)
(*                                                                         *)
(* job, completed, worker_error, generation and stopping are only touched  *)
(* under state_mutex_, in critical sections that call nothing and wait for *)
(* nothing but the condition variable that releases the mutex.  Each such  *)
(* section is therefore one action.  submit_mutex_ is held for a whole     *)
(* call and is modelled explicitly.  A notification is an action of its    *)
(* own, as the code notifies after it unlocks; a blocked thread may also   *)
(* wake for no reason.                                                     *)
(***************************************************************************)
EXTENDS ShardPartition, FiniteSets

CONSTANTS
    Submitters,               \* application threads that call linear()
    Requests,                 \* the argument lists they call it with
    Buffers,                  \* output vectors, possibly shared by requests
    Inputs,                   \* identities of the borrowed operands
    MinWeightFloatsPerThread, \* min_weight_floats_per_thread
    Throwing,                 \* <<request, shard>>: run_shard may throw
    NULL

\* The arguments of one linear() call: the borrowed spans, as the vector
\* behind the output, an identity for the operands' values, and their sizes.
RequestType ==
    [output : Buffers, input : Inputs,
     output_size : 0..SizeMax, input_size : 0..SizeMax,
     weight_size : 0..SizeMax, bias_size : 0..SizeMax,
     input_channels : 0..SizeMax, output_channels : 0..SizeMax]

ASSUME RequestsAssumption ==
    /\ Requests \subseteq RequestType
    /\ MinWeightFloatsPerThread \in Nat \ {0}
    /\ Throwing \subseteq Requests \X Shards
    /\ NULL \notin Requests
    /\ NULL \notin Submitters
    /\ NULL \notin [req : Requests, shard : Shards \cup {NULL}]

Workers == 1 .. (TotalThreads - 1)
Channels == 0 .. (SizeMax - 1)

\* An exception: the call it is about and the shard whose kernel threw it,
\* NULL when it comes from linear()'s argument checks.
Errors == [req : Requests, shard : Shards \cup {NULL}]

VARIABLES
    life,          \* the owner's progress through construction and destruction
    created,       \* workers_.size()
    stopping, generation, completed, job, worker_error,
    submit_mutex,  \* the submitter that holds it, or NULL
    wpc,           \* where each worker thread is
    observed,      \* observed_generation of each worker
    current,       \* the worker's copy of the job
    error,         \* the worker's exception_ptr, or NULL
    spc,           \* where each submitter is in linear()
    request,       \* the arguments of its call
    failure,       \* caller_error, then the exception linear() rethrows
    cursor,        \* out_channel of the kernel each submitter runs
    wcursor,       \* out_channel of the kernel each worker runs
    out            \* the contents of the output vectors

poolVars   == <<life, created, stopping>>
jobVars    == <<generation, completed, job, worker_error>>
workerVars == <<wpc, observed, current, error, wcursor>>
callVars   == <<submit_mutex, spc, request, failure, cursor>>
vars       == <<poolVars, jobVars, workerVars, callVars, out>>

-----------------------------------------------------------------------------
(* linear()'s argument checks and its choice of the scalar path.           *)

\* Mutant: the weight size is computed without an overflow check.
WeightSizeUnchecked(r) == FALSE

\* Line 110: input_channels * output_channels does not fit in a size_t.
WeightSizeOverflow(r) ==
    /\ r.input_channels # 0
    /\ r.output_channels > SizeMax \div r.input_channels

\* Line 114: a span has another size than the channel counts say.
SizeMismatch(r) ==
    \/ r.output_size # r.output_channels
    \/ r.input_size # r.input_channels
    \/ r.weight_size # SizeT(r.input_channels * r.output_channels)
    \/ r.bias_size # 0 /\ r.bias_size # r.output_channels

Accepted(r) == ~WeightSizeOverflow(r) /\ ~SizeMismatch(r)

\* Line 122: one thread, fewer channels than threads, or too small a job.
UseScalar(r) ==
    \/ TotalThreads = 1
    \/ r.output_channels < TotalThreads
    \/ r.weight_size \div TotalThreads < MinWeightFloatsPerThread

\* kernels::linear on one row: the value of local channel c of a slice whose
\* weights start at weight_first and whose bias starts at bias_first.  The
\* dot product is a term naming the operands and the offsets it reads.
Dot(r, weight_first, bias_first, c) ==
    [input  |-> r.input,
     weight |-> weight_first + c * r.input_channels,
     bias   |-> IF r.bias_size = 0 THEN NULL ELSE bias_first + c]

\* The scalar path: kernels::linear(output, input, weight, bias, 1, ...).
ScalarChannel(r, c) == Dot(r, 0, 0, c)

\* Mutant: the bias is passed whole instead of the shard's subspan.
ShardChannelWholeBias(r, shard, c) ==
    Dot(r, WeightFirst(r.output_channels, r.input_channels, shard), 0, c)

\* run_shard: the same kernel on the shard's subspans.
ShardChannel(r, shard, c) ==
    Dot(r, WeightFirst(r.output_channels, r.input_channels, shard),
        ShardFirst(r.output_channels, shard), c)

\* The write of local channel c of the shard into the output vector.
WriteShard(r, shard, c) ==
    out' = [out EXCEPT ![r.output][ShardFirst(r.output_channels, shard) + c] =
                ShardChannel(r, shard, c)]

-----------------------------------------------------------------------------
(* The owner: constructor, destructor, stop_workers.                       *)

Init ==
    /\ life = "none" /\ created = 0 /\ stopping = FALSE
    /\ generation = 0 /\ completed = 0 /\ job = NULL /\ worker_error = NULL
    /\ wpc = [w \in Workers |-> "absent"]
    /\ observed = [w \in Workers |-> 0]
    /\ current = [w \in Workers |-> NULL]
    /\ error = [w \in Workers |-> NULL]
    /\ wcursor = [w \in Workers |-> 0]
    /\ submit_mutex = NULL
    /\ spc = [s \in Submitters |-> "idle"]
    /\ request = [s \in Submitters |-> NULL]
    /\ failure = [s \in Submitters |-> NULL]
    /\ cursor = [s \in Submitters |-> 0]
    /\ out = [b \in Buffers |-> [c \in Channels |-> NULL]]

\* The constructor enters its body, with total_threads # 0 (ThreadsAssumption):
\* every member has its initializer's value.
Construct ==
    /\ life = "none"
    /\ life' = "reserve"
    /\ created' = 0 /\ stopping' = FALSE
    /\ generation' = 0 /\ completed' = 0 /\ job' = NULL /\ worker_error' = NULL
    /\ UNCHANGED <<workerVars, callVars, out>>

Reserve ==
    /\ life = "reserve"
    /\ life' = "spawn"
    /\ UNCHANGED <<created, stopping, jobVars, workerVars, callVars, out>>

\* workers_.reserve, outside the try block: when it throws there is nothing
\* to stop and no object.
ReserveFails ==
    /\ life = "reserve"
    /\ life' = "none"
    /\ UNCHANGED <<created, stopping, jobVars, workerVars, callVars, out>>

\* workers_.emplace_back starts worker_loop(shard); the new thread runs at
\* once, while the constructor still creates the others.
SpawnWorker ==
    /\ life = "spawn"
    /\ created < TotalThreads - 1
    /\ created' = created + 1
    /\ wpc' = [wpc EXCEPT ![created + 1] = "check"]
    /\ observed' = [observed EXCEPT ![created + 1] = 0]
    /\ UNCHANGED <<life, stopping, jobVars, current, error, wcursor, callVars, out>>

\* Mutant: the constructor rethrows without stop_workers().
SpawnFailsWithoutStop ==
    /\ life = "spawn"
    /\ created < TotalThreads - 1
    /\ life' = "none"
    /\ UNCHANGED <<created, stopping, jobVars, workerVars, callVars, out>>

\* std::thread throws: catch (...) calls stop_workers() and rethrows.
SpawnFails ==
    /\ life = "spawn"
    /\ created < TotalThreads - 1
    /\ life' = "stop"
    /\ UNCHANGED <<created, stopping, jobVars, workerVars, callVars, out>>

Constructed ==
    /\ life = "spawn"
    /\ created = TotalThreads - 1
    /\ life' = "live"
    /\ UNCHANGED <<created, stopping, jobVars, workerVars, callVars, out>>

\* ~LinearExecutor: the owner may only destroy an executor no call is using.
Destroy ==
    /\ life = "live"
    /\ \A s \in Submitters : spc[s] = "idle"
    /\ life' = "stop"
    /\ UNCHANGED <<created, stopping, jobVars, workerVars, callVars, out>>

\* stop_workers: the critical section, then notify_all, then the joins.
SetStopping ==
    /\ life = "stop"
    /\ stopping' = TRUE
    /\ life' = "notify"
    /\ UNCHANGED <<created, jobVars, workerVars, callVars, out>>

WakeWorkers ==
    wpc' = [w \in Workers |-> IF wpc[w] = "waiting" THEN "check" ELSE wpc[w]]

\* Mutant: stop_workers() does not notify.
NotifyStopMissing ==
    /\ life = "notify"
    /\ life' = "join"
    /\ UNCHANGED <<created, stopping, jobVars, workerVars, callVars, out>>

NotifyStop ==
    /\ life = "notify"
    /\ WakeWorkers
    /\ life' = "join"
    /\ UNCHANGED <<created, stopping, jobVars, observed, current, error, wcursor,
                   callVars, out>>

\* The last join() returns; the members are destroyed.
JoinWorkers ==
    /\ life = "join"
    /\ \A w \in 1..created : wpc[w] = "exited"
    /\ life' = "none"
    /\ wpc' = [w \in Workers |-> "absent"]
    /\ UNCHANGED <<created, stopping, jobVars, observed, current, error, wcursor,
                   callVars, out>>

-----------------------------------------------------------------------------
(* worker_loop(w), run by the thread that computes shard w.                *)

\* The wait's predicate is true and the executor is stopping: return.
WorkerExit(w) ==
    /\ wpc[w] = "check"
    /\ stopping
    /\ wpc' = [wpc EXCEPT ![w] = "exited"]
    /\ UNCHANGED <<poolVars, jobVars, observed, current, error, wcursor, callVars, out>>

\* Mutant: observed_generation is not updated.
TakeForgettingGeneration(w) ==
    /\ wpc[w] = "check"
    /\ ~stopping
    /\ generation # observed[w]
    /\ wpc' = [wpc EXCEPT ![w] = "run"]
    /\ current' = [current EXCEPT ![w] = job]
    /\ wcursor' = [wcursor EXCEPT ![w] = 0]
    /\ UNCHANGED <<poolVars, jobVars, observed, error, callVars, out>>

\* The predicate is true because of a new generation: copy the job.
WorkerTake(w) ==
    /\ wpc[w] = "check"
    /\ ~stopping
    /\ generation # observed[w]
    /\ wpc' = [wpc EXCEPT ![w] = "run"]
    /\ observed' = [observed EXCEPT ![w] = generation]
    /\ current' = [current EXCEPT ![w] = job]
    /\ wcursor' = [wcursor EXCEPT ![w] = 0]
    /\ UNCHANGED <<poolVars, jobVars, error, callVars, out>>

\* The predicate is false: release state_mutex_ and block on work_ready_.
WorkerWait(w) ==
    /\ wpc[w] = "check"
    /\ ~stopping
    /\ generation = observed[w]
    /\ wpc' = [wpc EXCEPT ![w] = "waiting"]
    /\ UNCHANGED <<poolVars, jobVars, observed, current, error, wcursor, callVars, out>>

\* A wakeup without a notification.
WorkerSpuriousWake(w) ==
    /\ wpc[w] = "waiting"
    /\ wpc' = [wpc EXCEPT ![w] = "check"]
    /\ UNCHANGED <<poolVars, jobVars, observed, current, error, wcursor, callVars, out>>

\* run_shard: the kernel computes one more channel of the worker's slice.
WorkerChannel(w) ==
    /\ wpc[w] = "run"
    /\ wcursor[w] < ShardCount(current[w].output_channels, w)
    /\ WriteShard(current[w], w, wcursor[w])
    /\ wcursor' = [wcursor EXCEPT ![w] = @ + 1]
    /\ UNCHANGED <<poolVars, jobVars, wpc, observed, current, error, callVars>>

\* run_shard throws before its first write, and the worker keeps the error.
WorkerThrow(w) ==
    /\ wpc[w] = "run"
    /\ wcursor[w] = 0
    /\ <<current[w], w>> \in Throwing
    /\ error' = [error EXCEPT ![w] = [req |-> current[w], shard |-> w]]
    /\ wpc' = [wpc EXCEPT ![w] = "finish"]
    /\ UNCHANGED <<poolVars, jobVars, observed, current, wcursor, callVars, out>>

\* run_shard returns, at once when the slice is empty.
WorkerShardDone(w) ==
    /\ wpc[w] = "run"
    /\ wcursor[w] = ShardCount(current[w].output_channels, w)
    /\ wpc' = [wpc EXCEPT ![w] = "finish"]
    /\ UNCHANGED <<poolVars, jobVars, observed, current, error, wcursor, callVars, out>>

\* Mutant: the worker's exception is dropped.
FinishDroppingError(w) ==
    /\ wpc[w] = "finish"
    /\ completed' = SizeT(completed + 1)
    /\ wpc' = [wpc EXCEPT ![w] = "signal"]
    /\ UNCHANGED <<poolVars, generation, job, worker_error, observed, current, error,
                   wcursor, callVars, out>>

\* Mutant: only a worker that succeeds is counted.
FinishCountingSuccess(w) ==
    /\ wpc[w] = "finish"
    /\ worker_error' = IF error[w] # NULL /\ worker_error = NULL
                       THEN error[w] ELSE worker_error
    /\ completed' = IF error[w] = NULL THEN SizeT(completed + 1) ELSE completed
    /\ wpc' = [wpc EXCEPT ![w] = "signal"]
    /\ UNCHANGED <<poolVars, generation, job, observed, current, error, wcursor,
                   callVars, out>>

\* The second critical section: keep the first error and count the worker.
WorkerFinish(w) ==
    /\ wpc[w] = "finish"
    /\ worker_error' = IF error[w] # NULL /\ worker_error = NULL
                       THEN error[w] ELSE worker_error
    /\ completed' = SizeT(completed + 1)
    /\ wpc' = [wpc EXCEPT ![w] = "signal"]
    /\ UNCHANGED <<poolVars, generation, job, observed, current, error, wcursor,
                   callVars, out>>

\* work_done_.notify_one(); the iteration's locals go out of scope.
WorkerNotify(w) ==
    /\ wpc[w] = "signal"
    /\ wpc' = [wpc EXCEPT ![w] = "check"]
    /\ current' = [current EXCEPT ![w] = NULL]
    /\ error' = [error EXCEPT ![w] = NULL]
    /\ IF \E s \in Submitters : spc[s] = "blocked"
       THEN \E s \in Submitters :
              /\ spc[s] = "blocked"
              /\ spc' = [spc EXCEPT ![s] = "await"]
       ELSE UNCHANGED spc
    /\ UNCHANGED <<poolVars, jobVars, observed, wcursor, submit_mutex, request,
                   failure, cursor, out>>

-----------------------------------------------------------------------------
(* linear(), called by submitter s.                                        *)

\* The argument checks throw before any lock is taken.
Reject(s, r) ==
    /\ life = "live"
    /\ spc[s] = "idle"
    /\ ~Accepted(r)
    /\ request' = [request EXCEPT ![s] = r]
    /\ failure' = [failure EXCEPT ![s] = [req |-> r, shard |-> NULL]]
    /\ UNCHANGED <<poolVars, jobVars, workerVars, submit_mutex, spc, cursor, out>>

\* The argument checks pass: the thread queues for submit_mutex_.
Call(s, r) ==
    /\ life = "live"
    /\ spc[s] = "idle"
    /\ Accepted(r)
    /\ spc' = [spc EXCEPT ![s] = "submit"]
    /\ request' = [request EXCEPT ![s] = r]
    /\ failure' = [failure EXCEPT ![s] = NULL]
    /\ UNCHANGED <<poolVars, jobVars, workerVars, submit_mutex, cursor, out>>

\* Mutant: the scalar fallback runs without submit_mutex_.
LockOnlyParallel(s) ==
    /\ spc[s] = "submit"
    /\ UseScalar(request[s]) \/ submit_mutex = NULL
    /\ submit_mutex' = IF UseScalar(request[s]) THEN submit_mutex ELSE s
    /\ spc' = [spc EXCEPT ![s] = IF UseScalar(request[s]) THEN "scalar" ELSE "publish"]
    /\ cursor' = [cursor EXCEPT ![s] = 0]
    /\ UNCHANGED <<poolVars, jobVars, workerVars, request, failure, out>>

\* Mutant: submit_mutex_ excludes nobody.
LockWithoutExclusion(s) ==
    /\ spc[s] = "submit"
    /\ submit_mutex' = s
    /\ spc' = [spc EXCEPT ![s] = IF UseScalar(request[s]) THEN "scalar" ELSE "publish"]
    /\ cursor' = [cursor EXCEPT ![s] = 0]
    /\ UNCHANGED <<poolVars, jobVars, workerVars, request, failure, out>>

\* std::lock_guard submission(submit_mutex_), then the scalar/parallel choice.
LockSubmission(s) ==
    /\ spc[s] = "submit"
    /\ submit_mutex = NULL
    /\ submit_mutex' = s
    /\ spc' = [spc EXCEPT ![s] = IF UseScalar(request[s]) THEN "scalar" ELSE "publish"]
    /\ cursor' = [cursor EXCEPT ![s] = 0]
    /\ UNCHANGED <<poolVars, jobVars, workerVars, request, failure, out>>

\* The scalar fallback computes one more channel.
ScalarStep(s) ==
    /\ spc[s] = "scalar"
    /\ cursor[s] < request[s].output_channels
    /\ out' = [out EXCEPT ![request[s].output][cursor[s]] =
                   ScalarChannel(request[s], cursor[s])]
    /\ cursor' = [cursor EXCEPT ![s] = @ + 1]
    /\ UNCHANGED <<poolVars, jobVars, workerVars, submit_mutex, spc, request, failure>>

ScalarDone(s) ==
    /\ spc[s] = "scalar"
    /\ cursor[s] = request[s].output_channels
    /\ spc' = [spc EXCEPT ![s] = "return"]
    /\ UNCHANGED <<poolVars, jobVars, workerVars, submit_mutex, request, failure,
                   cursor, out>>

\* Mutant: worker_error_ keeps the exception of an earlier job.
PublishKeepingError(s) ==
    /\ spc[s] = "publish"
    /\ job' = request[s]
    /\ completed' = 0
    /\ generation' = SizeT(generation + 1)
    /\ spc' = [spc EXCEPT ![s] = "notify"]
    /\ UNCHANGED <<poolVars, worker_error, workerVars, submit_mutex, request, failure,
                   cursor, out>>

\* The critical section that publishes the job.
Publish(s) ==
    /\ spc[s] = "publish"
    /\ job' = request[s]
    /\ completed' = 0
    /\ worker_error' = NULL
    /\ generation' = SizeT(generation + 1)
    /\ spc' = [spc EXCEPT ![s] = "notify"]
    /\ UNCHANGED <<poolVars, workerVars, submit_mutex, request, failure, cursor, out>>

\* Mutant: notify_one instead of notify_all.
NotifyOne(s) ==
    /\ spc[s] = "notify"
    /\ IF \E w \in Workers : wpc[w] = "waiting"
       THEN \E w \in Workers : wpc[w] = "waiting" /\ wpc' = [wpc EXCEPT ![w] = "check"]
       ELSE UNCHANGED wpc
    /\ spc' = [spc EXCEPT ![s] = "shard"]
    /\ UNCHANGED <<poolVars, jobVars, observed, current, error, wcursor,
                   submit_mutex, request, failure, cursor, out>>

\* work_ready_.notify_all()
NotifyAll(s) ==
    /\ spc[s] = "notify"
    /\ WakeWorkers
    /\ spc' = [spc EXCEPT ![s] = "shard"]
    /\ UNCHANGED <<poolVars, jobVars, observed, current, error, wcursor,
                   submit_mutex, request, failure, cursor, out>>

\* run_shard(current, 0) computes one more channel of the caller's slice.
CallerChannel(s) ==
    /\ spc[s] = "shard"
    /\ cursor[s] < ShardCount(request[s].output_channels, 0)
    /\ WriteShard(request[s], 0, cursor[s])
    /\ cursor' = [cursor EXCEPT ![s] = @ + 1]
    /\ UNCHANGED <<poolVars, jobVars, workerVars, submit_mutex, spc, request, failure>>

CallerThrow(s) ==
    /\ spc[s] = "shard"
    /\ cursor[s] = 0
    /\ <<request[s], 0>> \in Throwing
    /\ failure' = [failure EXCEPT ![s] = [req |-> request[s], shard |-> 0]]
    /\ spc' = [spc EXCEPT ![s] = "await"]
    /\ UNCHANGED <<poolVars, jobVars, workerVars, submit_mutex, request, cursor, out>>

CallerShardDone(s) ==
    /\ spc[s] = "shard"
    /\ cursor[s] = ShardCount(request[s].output_channels, 0)
    /\ spc' = [spc EXCEPT ![s] = "await"]
    /\ UNCHANGED <<poolVars, jobVars, workerVars, submit_mutex, request, failure,
                   cursor, out>>

\* Mutant: the caller does not wait for the workers.
CollectWithoutWaiting(s) ==
    /\ spc[s] = "await"
    /\ failure' = [failure EXCEPT ![s] = IF @ # NULL THEN @ ELSE worker_error]
    /\ job' = NULL
    /\ spc' = [spc EXCEPT ![s] = "return"]
    /\ UNCHANGED <<poolVars, generation, completed, worker_error, workerVars,
                   submit_mutex, request, cursor, out>>

\* Mutant: an exception of the caller's own shard leaves linear() at once.
CollectUnlessCallerFailed(s) ==
    /\ spc[s] = "await"
    /\ failure[s] # NULL \/ completed = created
    /\ failure' = [failure EXCEPT ![s] = IF @ # NULL THEN @ ELSE worker_error]
    /\ job' = NULL
    /\ spc' = [spc EXCEPT ![s] = "return"]
    /\ UNCHANGED <<poolVars, generation, completed, worker_error, workerVars,
                   submit_mutex, request, cursor, out>>

\* The predicate completed_ == workers_.size() holds: take the workers' error,
\* which the caller's own precedes, and clear the job.
Collect(s) ==
    /\ spc[s] = "await"
    /\ completed = created
    /\ failure' = [failure EXCEPT ![s] = IF @ # NULL THEN @ ELSE worker_error]
    /\ job' = NULL
    /\ spc' = [spc EXCEPT ![s] = "return"]
    /\ UNCHANGED <<poolVars, generation, completed, worker_error, workerVars,
                   submit_mutex, request, cursor, out>>

\* It does not: release state_mutex_ and block on work_done_.
Block(s) ==
    /\ spc[s] = "await"
    /\ completed # created
    /\ spc' = [spc EXCEPT ![s] = "blocked"]
    /\ UNCHANGED <<poolVars, jobVars, workerVars, submit_mutex, request, failure,
                   cursor, out>>

SubmitterSpuriousWake(s) ==
    /\ spc[s] = "blocked"
    /\ spc' = [spc EXCEPT ![s] = "await"]
    /\ UNCHANGED <<poolVars, jobVars, workerVars, submit_mutex, request, failure,
                   cursor, out>>

\* linear() returns or rethrows; either way submit_mutex_ is released.
Return(s) ==
    /\ spc[s] = "return"
    /\ submit_mutex' = NULL
    /\ spc' = [spc EXCEPT ![s] = "idle"]
    /\ UNCHANGED <<poolVars, jobVars, workerVars, request, failure, cursor, out>>

-----------------------------------------------------------------------------
OwnerStep ==
    \/ Reserve \/ SpawnWorker \/ Constructed
    \/ SetStopping \/ NotifyStop \/ JoinWorkers

WorkerStep(w) ==
    \/ WorkerExit(w) \/ WorkerTake(w) \/ WorkerWait(w)
    \/ WorkerChannel(w) \/ WorkerThrow(w) \/ WorkerShardDone(w)
    \/ WorkerFinish(w) \/ WorkerNotify(w)

SubmitterStep(s) ==
    \/ LockSubmission(s) \/ ScalarStep(s) \/ ScalarDone(s)
    \/ Publish(s) \/ NotifyAll(s)
    \/ CallerChannel(s) \/ CallerThrow(s) \/ CallerShardDone(s)
    \/ Collect(s) \/ Block(s) \/ Return(s)

Next ==
    \/ Construct \/ ReserveFails \/ SpawnFails \/ Destroy \/ OwnerStep
    \/ \E w \in Workers : WorkerStep(w) \/ WorkerSpuriousWake(w)
    \/ \E s \in Submitters :
         \/ SubmitterStep(s) \/ SubmitterSpuriousWake(s)
         \/ \E r \in Requests : Reject(s, r) \/ Call(s, r)

Spec == Init /\ [][Next]_vars

\* Every thread that can run is eventually scheduled.  Nobody is obliged to
\* call linear(), to construct or to destroy, and no spurious wakeup is owed.
Fairness ==
    /\ WF_vars(OwnerStep)
    /\ \A w \in Workers : WF_vars(WorkerStep(w))
    /\ \A s \in Submitters : WF_vars(SubmitterStep(s))

FairSpec == Spec /\ Fairness

-----------------------------------------------------------------------------
(* Properties.                                                             *)

\* Every variable keeps its type; completed_ never exceeds the pool's size.
TypeOK ==
    /\ life \in {"none", "reserve", "spawn", "live", "stop", "notify", "join"}
    /\ created \in 0 .. (TotalThreads - 1)
    /\ stopping \in BOOLEAN
    /\ generation \in 0..SizeMax
    /\ completed \in 0 .. (TotalThreads - 1)
    /\ job \in Requests \cup {NULL}
    /\ worker_error \in Errors \cup {NULL}
    /\ submit_mutex \in Submitters \cup {NULL}
    /\ wpc \in [Workers -> {"absent", "check", "waiting", "run", "finish",
                            "signal", "exited"}]
    /\ observed \in [Workers -> 0..SizeMax]
    /\ current \in [Workers -> Requests \cup {NULL}]
    /\ error \in [Workers -> Errors \cup {NULL}]
    /\ wcursor \in [Workers -> 0..SizeMax]
    /\ spc \in [Submitters -> {"idle", "submit", "scalar", "publish", "notify",
                               "shard", "await", "blocked", "return"}]
    /\ request \in [Submitters -> Requests \cup {NULL}]
    /\ failure \in [Submitters -> Errors \cup {NULL}]
    /\ cursor \in [Submitters -> 0..SizeMax]
    /\ DOMAIN out = Buffers
    /\ \A b \in Buffers : DOMAIN out[b] = Channels

\* Submitter s has published its job and has not collected the workers yet.
InFlight(s) == spc[s] \in {"notify", "shard", "await", "blocked"}

\* The comment "No caller can replace job_ until every worker and the
\* submitter finish": the spans a worker dereferences in run_shard, and those
\* job_ would hand to a worker, are arguments of a linear() call that is still
\* running and that holds submit_mutex_.
BorrowedDataAlive ==
    /\ \A w \in Workers : wpc[w] = "run" =>
          \E s \in Submitters :
             InFlight(s) /\ submit_mutex = s /\ request[s] = current[w]
    /\ job # NULL =>
          \E s \in Submitters :
             InFlight(s) /\ submit_mutex = s /\ request[s] = job

\* Whatever job run_shard is handed, for every thread: its shards tile the
\* output channels, none of its unchecked offsets and counts has wrapped, and
\* each subspan it takes of output, bias and weight lies inside the span the
\* caller passed.  Only linear()'s checks before the lock stand for that.
ShardsInBounds ==
    \A s \in Submitters : InFlight(s) =>
        LET r == request[s]
            n == r.output_channels
            k == r.input_channels
        IN  /\ IsPartition(n)
            /\ WeightSlicesFit(n, k)
            /\ \A shard \in Shards :
                 LET last == ShardFirst(n, shard) + ShardCount(n, shard)
                 IN  /\ last <= r.output_size
                     /\ r.bias_size # 0 => last <= r.bias_size
                     /\ WeightFirst(n, k, shard) + WeightCount(n, k, shard) <= r.weight_size

\* The output vector and the channels that submitter s, or worker w, is
\* writing at this moment.
SubmitterWrites(s) ==
    CASE spc[s] = "scalar" ->
           {<<request[s].output, c>> : c \in 0 .. (request[s].output_channels - 1)}
      [] spc[s] = "shard" ->
           {<<request[s].output, c>> :
                c \in ShardRange(request[s].output_channels, 0)}
      [] OTHER -> {}

WorkerWrites(w) ==
    IF wpc[w] = "run"
    THEN {<<current[w].output, c>> :
              c \in ShardRange(current[w].output_channels, w)}
    ELSE {}

\* Two threads never run a kernel over a common output element: neither two
\* shards of a job, nor the shards of one call and the scalar fallback of
\* another call on the same vector.
NoWriteRace ==
    /\ \A v, w \in Workers : v # w => WorkerWrites(v) \cap WorkerWrites(w) = {}
    /\ \A s \in Submitters, w \in Workers :
          SubmitterWrites(s) \cap WorkerWrites(w) = {}
    /\ \A s, t \in Submitters :
          s # t => SubmitterWrites(s) \cap SubmitterWrites(t) = {}

\* When linear() is about to return normally, the whole output vector holds
\* what one scalar kernel call on the same arguments computes: no shard is
\* missing, late, misplaced, or silently failed.
CompleteOutput ==
    \A s \in Submitters : spc[s] = "return" /\ failure[s] = NULL =>
        \A c \in 0 .. (request[s].output_channels - 1) :
            out[request[s].output][c] = ScalarChannel(request[s], c)

\* The exception a call ends with was raised for that very call, never left
\* over in worker_error_ from an earlier one.
ErrorBelongsToOwnJob ==
    \A s \in Submitters : failure[s] # NULL => failure[s].req = request[s]

\* The workers that have taken and left the published job.
Finished == {w \in Workers : observed[w] = generation /\ wpc[w] \notin {"run", "finish"}}

\* While a job is in flight completed_ counts exactly the workers that have
\* finished it, so the caller's predicate is true only at the real barrier.
CompletedExact ==
    (\E s \in Submitters : InFlight(s)) => completed = Cardinality(Finished)

\* No thread of the pool outlives the object, also when the constructor fails
\* halfway through creating the workers.
NoOrphanWorker ==
    life \in {"none", "reserve"} => \A w \in Workers : wpc[w] = "absent"

\* Every worker runs every job exactly once: a new generation is published
\* only after each worker has observed the current one and left its kernel.
NoJobSkipped ==
    [][life = "live" /\ generation' # generation =>
         \A w \in Workers : observed[w] = generation /\ wpc[w] # "run"]_vars

\* A call that got submit_mutex_ returns or throws, whatever notification it
\* races with.  (std::mutex promises nothing to the calls queueing for it.)
CallReturns ==
    \A s \in Submitters : submit_mutex = s ~> spc[s] = "idle"

\* stop_workers() ends: every worker leaves its wait and its loop.
StopTerminates == life = "stop" ~> life = "none"

-----------------------------------------------------------------------------
(* The inductive invariant.                                                *)

\* The owner's progress determines which threads exist, whether they are told
\* to stop, and that linear() runs only on a finished, undestroyed object.
LifeInv ==
    /\ NoOrphanWorker
    /\ life \notin {"none", "reserve"} =>
          \A w \in Workers : wpc[w] = "absent" <=> w > created
    /\ life = "reserve" => created = 0
    /\ life = "live" => created = TotalThreads - 1
    /\ life # "none" => (stopping <=> life \in {"notify", "join"})
    /\ life \in {"reserve", "spawn"} => generation = 0
    /\ \A w \in Workers : wpc[w] = "exited" => life \in {"notify", "join"}
    /\ life # "live" => \A s \in Submitters : spc[s] = "idle"

\* submit_mutex_ is held exactly by the call between its lock and its return,
\* and what that call works on is a checked request for the path it is on.
CallInv ==
    /\ \A s \in Submitters :
          submit_mutex = s <=> spc[s] \notin {"idle", "submit"}
    /\ \A s \in Submitters : spc[s] # "idle" =>
          request[s] \in Requests /\ Accepted(request[s])
    /\ \A s \in Submitters : spc[s] = "publish" \/ InFlight(s) =>
          ~UseScalar(request[s])
    /\ \A s \in Submitters : spc[s] \in {"submit", "scalar", "publish", "notify"} =>
          failure[s] = NULL
    /\ \A s \in Submitters : spc[s] = "publish" => cursor[s] = 0

\* Workers compute only the job in flight; without one they have all caught
\* up with the generation and job_ is empty.
JobInv ==
    /\ \A s \in Submitters : InFlight(s) => job = request[s]
    /\ job # NULL => \E s \in Submitters : InFlight(s)
    /\ \A w \in Workers : wpc[w] \in {"run", "finish"} =>
          job # NULL /\ observed[w] = generation /\ current[w] = job
    /\ job = NULL => \A w \in Workers : wpc[w] # "absent" => observed[w] = generation

\* Where an error is about to be passed on, it is about the job in flight.
ErrorInv ==
    /\ \A w \in Workers : wpc[w] \in {"absent", "check", "waiting", "run", "exited"} =>
          error[w] = NULL
    /\ \A w \in Workers : wpc[w] = "finish" /\ error[w] # NULL =>
          error[w].req = current[w]
    /\ job # NULL /\ worker_error # NULL => worker_error.req = job
    /\ ErrorBelongsToOwnJob

\* TypeOK, CompletedExact and the facts that make them inductive.
IInv ==
    TypeOK /\ LifeInv /\ CallInv /\ JobInv /\ ErrorInv /\ CompletedExact

\* In memory, the first n channels of a shard of r are the scalar kernel's.
ShardHolds(memory, r, shard, n) ==
    \A c \in 0 .. (n - 1) :
        LET channel == ShardFirst(r.output_channels, shard) + c
        IN  memory[r.output][channel] = ScalarChannel(r, channel)

WholeShardHolds(memory, r, shard) ==
    ShardHolds(memory, r, shard, ShardCount(r.output_channels, shard))

\* The scalar fallback has written the channels below its cursor.
ScalarProgress ==
    \A s \in Submitters : spc[s] = "scalar" =>
        \A c \in 0 .. (cursor[s] - 1) :
            out[request[s].output][c] = ScalarChannel(request[s], c)

\* So has the caller in its own shard, which is whole once it waits.
CallerProgress ==
    /\ \A s \in Submitters : spc[s] = "notify" => cursor[s] = 0
    /\ \A s \in Submitters : spc[s] = "shard" =>
          /\ cursor[s] <= ShardCount(request[s].output_channels, 0)
          /\ ShardHolds(out, request[s], 0, cursor[s])
    /\ \A s \in Submitters : spc[s] \in {"await", "blocked"} /\ failure[s] = NULL =>
          WholeShardHolds(out, request[s], 0)

\* So has every worker, and a shard stays whole when its worker was counted
\* without an error.
WorkerProgress ==
    /\ \A w \in Workers : wpc[w] = "run" =>
          /\ wcursor[w] <= ShardCount(current[w].output_channels, w)
          /\ ShardHolds(out, current[w], w, wcursor[w])
    /\ \A w \in Workers : wpc[w] = "finish" /\ error[w] = NULL =>
          WholeShardHolds(out, current[w], w)
    /\ job # NULL /\ worker_error = NULL =>
          \A w \in Finished : WholeShardHolds(out, job, w)

\* What has been computed survives until the call returns: with IInv, an
\* inductive invariant.
OutputInv ==
    ScalarProgress /\ CallerProgress /\ WorkerProgress /\ CompleteOutput
=============================================================================
