----------------------------- MODULE Benchmark ------------------------------
(***************************************************************************)
(* One run of app/gpt2_benchmark.cpp: phases that repeat a timed sequence  *)
(* of session or forward calls, all but one on the same session, and the   *)
(* final comparison of the two ways to generate.  A view of logits is a    *)
(* span of the session's buffer, so it shows whatever the session's last   *)
(* call left there: answer.                                                *)
(***************************************************************************)
EXTENDS GreedyDecoding

CONSTANTS
    MaxGeneration,  \* largest --generation-tokens of a user (input bound)
    MaxRounds       \* largest --warmup and --repetitions (input bound)

ASSUME BenchmarkAssumption == MaxGeneration \in Nat /\ MaxRounds \in Nat

VARIABLES
    phase,    \* "start", "create", "prefill", "initial", "decode", "full",
              \* "cached", "report", "done"
    stage,    \* where a round of the phase is: "setup", "prefill", "run", "next"
    options,  \* the command line
    round,    \* rounds of the phase completed, warmup included
    decode_input,
    tokens,   \* full_tokens or cached_tokens
    step,     \* the loop counter of a generation
    last_full_tokens, last_cached_tokens,
    failure   \* the exception main() catches, "none" on exit status 0

locals == <<decode_input, tokens, step, last_full_tokens, last_cached_tokens>>
mainVars == <<phase, stage, options, round, locals, failure>>
benchmarkVars == <<mainVars, sessionVars>>

\* The command lines whose single options are well formed; checkpoint says
\* whether there is one, and a capacity of 0 stands for one that is left out.
CommandLines ==
    [checkpoint : BOOLEAN, tokens : PromptSet \ {<<>>}, generation_tokens : 0..MaxGeneration,
     warmup : 0..MaxRounds, repetitions : 0..MaxRounds,
     capacity : 0 .. (Context + 1), threads : 0..2, skip_full_prefix : BOOLEAN]

\* parse_options
BadOptions(o) == ~o.checkpoint \/ 0 \in {o.generation_tokens, o.repetitions, o.threads}

Capacity(o) == IF o.capacity = 0 THEN Context ELSE o.capacity

\* Mutant: a generated token too few is counted.
ConsumedForShorterGeneration(o) == Len(o.tokens) + o.generation_tokens - 2

ConsumedForGeneration(o) == Len(o.tokens) + o.generation_tokens - 1

\* main()'s checks, before anything runs.
Unsuitable(o) ==
    \/ Len(o.tokens) > Context
    \/ o.generation_tokens > Context - Len(o.tokens)
    \/ Capacity(o) < ConsumedForGeneration(o)
    \/ Capacity(o) > Context
    \/ \E i \in DOMAIN o.tokens : o.tokens[i] \notin Known

BenchmarkInit ==
    /\ phase = "start" /\ stage = "setup" /\ options = None /\ round = 0
    /\ decode_input = None /\ tokens = <<>> /\ step = 0
    /\ last_full_tokens = <<>> /\ last_cached_tokens = <<>>
    /\ failure = "none"
    /\ room = 0 /\ Start

-----------------------------------------------------------------------------
\* An exception reaches main(), which exits with status 1.
Throw(kind) ==
    /\ failure' = kind
    /\ phase' = "done"
    /\ UNCHANGED <<stage, round, locals>>

Enter(next) ==
    /\ phase' = next
    /\ round' = 0
    /\ stage' = "setup"

\* Mutant: measure() sets the operation up once, before its loops.
EndRoundWithoutSetup(rounds, next) ==
    IF round + 1 < rounds
    THEN /\ round' = round + 1
         /\ stage' = IF phase = "prefill" THEN "prefill" ELSE "run"
         /\ UNCHANGED phase
    ELSE Enter(next)

\* measure(): setup() and operation() so many times, then the next phase.
EndRound(rounds, next) ==
    IF round + 1 < rounds
    THEN round' = round + 1 /\ stage' = "setup" /\ UNCHANGED phase
    ELSE Enter(next)

Rounds == options.warmup + options.repetitions

\* parse_options, load_checkpoint, the executor, and main()'s checks.  Memory
\* may be short from the parsing of the token list on.
Main ==
    /\ phase = "start"
    /\ options' \in CommandLines
    /\ UNCHANGED sessionVars
    /\ \/ Throw("bad_alloc")
       \/ BadOptions(options') /\ Throw("invalid_argument")
       \/ ~BadOptions(options') /\ Throw("load_error")
       \/ ~BadOptions(options') /\ options'.threads # 1 /\ Throw("system_error")
       \/ ~BadOptions(options') /\ Unsuitable(options') /\ Throw("invalid_argument")
       \/ /\ ~BadOptions(options') /\ ~Unsuitable(options')
          /\ Enter("create")
          /\ UNCHANGED <<locals, failure>>

\* The timed constructions of sessions, which are destroyed again, and that of
\* the session the other phases use.  The checks of the constructor hold.
CreateSession ==
    /\ phase = "create"
    /\ UNCHANGED <<options, prefix, answer, ended>>
    /\ \/ Throw("bad_alloc") /\ UNCHANGED room
       \/ /\ room' = Capacity(options)
          /\ Enter("prefill")
          /\ UNCHANGED <<locals, failure>>

\* Mutant: the setup of cached_generation does not restore the token list.
ResetKeepingTokens ==
    /\ phase \in {"prefill", "initial", "decode", "cached"}
    /\ stage = "setup"
    /\ Cleared
    /\ stage' = "prefill"
    /\ UNCHANGED <<phase, options, round, locals, failure>>

\* session.reset(), which comes before every prefill.
Reset ==
    /\ phase \in {"prefill", "initial", "decode", "cached"}
    /\ stage = "setup"
    /\ Cleared
    /\ tokens' = IF phase = "cached" THEN options.tokens ELSE tokens
    /\ stage' = "prefill"
    /\ UNCHANGED <<phase, options, round, decode_input, step, last_full_tokens,
                   last_cached_tokens, failure>>

\* A worker's exception needs an executor.
WorkerFails ==
    /\ options.threads # 1
    /\ Failed
    /\ Throw("worker_error")

\* session.prefill(): the timed operation, the untimed call whose greedy token
\* the decode phase uses, the setup of that phase, or the start of a generation.
Prefill ==
    LET prompt == IF phase = "cached" THEN tokens ELSE options.tokens
    IN  /\ phase \in {"prefill", "initial", "decode", "cached"}
        /\ stage = "prefill"
        /\ UNCHANGED options
        /\ \/ /\ Prefilled(prompt)
              /\ \/ /\ phase = "prefill"
                    /\ EndRound(Rounds, "initial")
                    /\ UNCHANGED locals
                 \/ /\ phase = "initial"
                    /\ decode_input' = Greedy(answer')
                    /\ Enter("decode")
                    /\ UNCHANGED <<tokens, step, last_full_tokens, last_cached_tokens>>
                 \/ /\ phase \in {"decode", "cached"}
                    /\ stage' = "run"
                    /\ step' = 0
                    /\ UNCHANGED <<phase, round, decode_input, tokens, last_full_tokens,
                                   last_cached_tokens>>
              /\ UNCHANGED failure
           \/ PrefillRefused(prompt) /\ Throw(ended')
           \/ WorkerFails

\* The timed decode of one token.
SingleDecode ==
    /\ phase = "decode" /\ stage = "run"
    /\ UNCHANGED options
    /\ \/ /\ Decoded(decode_input)
          /\ EndRound(Rounds, IF options.skip_full_prefix THEN "cached" ELSE "full")
          /\ UNCHANGED <<locals, failure>>
       \/ DecodeRefused(decode_input) /\ Throw(ended')
       \/ WorkerFails

\* No memory outside the calls of the session and of forward: for the median of
\* the phase before (print_samples), for the samples of this one (measure(),
\* after the warmup), or for a token list that is copied or extended.
OutOfMemory ==
    /\ \/ stage = "setup" /\ phase \in {"prefill", "initial"} /\ round = 0
       \/ stage = "setup" /\ phase \in {"prefill", "decode"} /\ round = options.warmup
       \/ stage \in {"setup", "run"} /\ phase \in {"full", "cached"}
    /\ Throw("bad_alloc")
    /\ UNCHANGED <<options, sessionVars>>

-----------------------------------------------------------------------------
\* push_back of the greedy token, and the end of an iteration.
Emit(row) ==
    /\ tokens' = Append(tokens, Greedy(row))
    /\ step' = step + 1
    /\ UNCHANGED <<decode_input, last_full_tokens, last_cached_tokens>>

FullSetup ==
    /\ phase = "full" /\ stage = "setup"
    /\ tokens' = options.tokens
    /\ step' = 0
    /\ stage' = "run"
    /\ UNCHANGED <<phase, options, round, decode_input, last_full_tokens,
                   last_cached_tokens, failure, sessionVars>>

\* A forward pass over the whole prefix: the last row without its padding.
FullStep ==
    /\ phase = "full" /\ stage = "run"
    /\ step < options.generation_tokens
    /\ UNCHANGED <<options, sessionVars>>
    /\ \/ ~ForwardAccepts(tokens) /\ Throw("invalid_argument")
       \/ Throw("bad_alloc")
       \/ /\ ForwardAccepts(tokens)
          /\ Emit(Real(Row(tokens)))
          /\ UNCHANGED <<phase, stage, round, failure>>

FullEnd ==
    /\ phase = "full" /\ stage = "run"
    /\ step = options.generation_tokens
    /\ last_full_tokens' = tokens
    /\ EndRound(Rounds, "cached")
    /\ UNCHANGED <<options, decode_input, tokens, step, last_cached_tokens, failure,
                   sessionVars>>

\* Mutant: tokens are emitted without decoding the one before.
CachedStepWithoutDecoding ==
    /\ phase = "cached" /\ stage = "run"
    /\ step < options.generation_tokens
    /\ Emit(answer)
    /\ UNCHANGED <<phase, stage, options, round, failure, sessionVars>>

\* A token from the view of the last call, to be decoded unless it is the last.
CachedStep ==
    /\ phase = "cached" /\ stage = "run"
    /\ step < options.generation_tokens
    /\ Emit(answer)
    /\ stage' = IF step + 1 < options.generation_tokens THEN "next" ELSE "run"
    /\ UNCHANGED <<phase, options, round, failure, sessionVars>>

DecodeNext ==
    LET next == tokens[Len(tokens)]
    IN  /\ phase = "cached" /\ stage = "next"
        /\ UNCHANGED options
        /\ \/ /\ Decoded(next)
              /\ stage' = "run"
              /\ UNCHANGED <<phase, round, locals, failure>>
           \/ DecodeRefused(next) /\ Throw(ended')
           \/ WorkerFails

CachedEnd ==
    /\ phase = "cached" /\ stage = "run"
    /\ step = options.generation_tokens
    /\ last_cached_tokens' = tokens
    /\ EndRound(Rounds, "report")
    /\ UNCHANGED <<options, decode_input, tokens, step, last_full_tokens, failure,
                   sessionVars>>

\* The last median, the comparison, then the projections of synthetic rows,
\* which only allocate.
Report ==
    /\ phase = "report"
    /\ UNCHANGED <<options, sessionVars>>
    /\ \/ /\ ~options.skip_full_prefix /\ last_cached_tokens # last_full_tokens
          /\ Throw("runtime_error")
       \/ Throw("bad_alloc")
       \/ /\ options.skip_full_prefix \/ last_cached_tokens = last_full_tokens
          /\ phase' = "done"
          /\ UNCHANGED <<stage, round, locals, failure>>

\* The process has ended; nothing else may stop it.
Exited ==
    /\ phase = "done"
    /\ UNCHANGED benchmarkVars

BenchmarkNext ==
    \/ Main \/ CreateSession
    \/ Reset \/ Prefill \/ SingleDecode \/ OutOfMemory
    \/ FullSetup \/ FullStep \/ FullEnd
    \/ CachedStep \/ DecodeNext \/ CachedEnd
    \/ Report \/ Exited

\* Nothing in the program waits for anything but the executor's calls.
BenchmarkSpec == BenchmarkInit /\ [][BenchmarkNext]_benchmarkVars

-----------------------------------------------------------------------------
(* Properties.                                                             *)

\* Every round of a phase works from the same state, whatever the warmup and
\* the rounds before it left in the session and in the token lists: no prefill
\* is refused, and every timed decode comes at the position the program prints
\* as single_decode_context_length, with the greedy choice after the prompt.
RoundsAreAlike ==
    /\ failure # "logic_error"
    /\ phase = "decode" /\ stage = "run" =>
          prefix = options.tokens /\ decode_input = Greedy(LogitsOf(options.tokens))
    /\ phase \in {"full", "cached"} /\ stage = "run" =>
          GreedyContinuation(tokens, options.tokens, step)

\* Both ways to generate find the greedy continuation of the prompt, so that
\* the comparison at the end never throws "generation diverged".
ModesAgree ==
    /\ failure # "runtime_error"
    /\ phase = "done" /\ failure = "none" =>
          /\ GreedyContinuation(last_cached_tokens, options.tokens,
                                options.generation_tokens)
          /\ ~options.skip_full_prefix => last_full_tokens = last_cached_tokens

\* Once main() has accepted the command line, no call refuses its arguments,
\* except for a lack of room in the single decode of a run that generates one
\* token in a session as large as the prompt.
OnlySingleDecodeLacksRoom ==
    /\ failure = "invalid_argument" => room = 0
    /\ failure = "length_error" =>
          /\ decode_input # None /\ last_cached_tokens = <<>>
          /\ options.generation_tokens = 1 /\ room = Len(options.tokens)

\* "benchmark capacity cannot hold generation state" (gpt2_benchmark.cpp:235):
\* a capacity that passes this check is enough for the benchmark to run.
AcceptedCapacitySuffices == failure # "length_error"

-----------------------------------------------------------------------------
(* The inductive invariant.                                                *)

OnSession == {"prefill", "initial", "decode", "full", "cached"}

BenchmarkTypeOK ==
    /\ phase \in {"start", "create", "report", "done"} \cup OnSession
    /\ stage \in {"setup", "prefill", "run", "next"}
    /\ phase # "start" => options \in CommandLines
    /\ round \in 0 .. (2 * MaxRounds)
    /\ tokens \in Seq(Ids) /\ step \in 0..MaxGeneration
    /\ room \in 0..Context
    /\ prefix \in Seq(Ids) /\ Len(prefix) <= room
    /\ failure \in {"none", "invalid_argument", "load_error", "bad_alloc",
                    "system_error", "worker_error", "length_error"}

\* Between main()'s checks and exit: a command line that passed them, one
\* session of the capacity they were made for, and no result before its phase.
Accepted ==
    /\ phase \notin {"start", "done"} =>
          ~BadOptions(options) /\ ~Unsuitable(options) /\ failure = "none"
    /\ phase = "start" => failure = "none"
    /\ phase \in {"start", "create"} => room = 0
    /\ phase \in OnSession => room = Capacity(options)
    /\ phase \notin {"cached", "report", "done"} => last_cached_tokens = <<>>

\* Which part of a round a phase can be in.
Stages ==
    /\ phase \in {"start", "create", "report"} => stage = "setup"
    /\ stage = "prefill" => phase \in {"prefill", "initial", "decode", "cached", "done"}
    /\ stage = "run" => phase \in {"decode", "full", "cached", "done"}
    /\ stage = "next" => phase \in {"cached", "done"}

\* What the session and the token list hold in the middle of a round.
RoundFollows ==
    /\ stage = "prefill" /\ phase # "done" =>
          prefix = <<>> /\ (phase = "cached" => tokens = options.tokens)
    /\ phase = "decode" =>
          /\ decode_input = Greedy(LogitsOf(options.tokens))
          /\ stage = "run" => prefix = options.tokens
    /\ phase \in {"full", "cached"} /\ stage \in {"run", "next"} =>
          /\ tokens \in Seq(Known) /\ step <= options.generation_tokens
          /\ GreedyContinuation(tokens, options.tokens, step)
    /\ phase = "cached" /\ stage = "run" /\ step < options.generation_tokens =>
          tokens = prefix /\ answer = LogitsOf(prefix)
    /\ phase = "cached" /\ stage = "next" =>
          /\ 0 < step /\ step < options.generation_tokens
          /\ prefix # <<>> /\ tokens = Append(prefix, Greedy(LogitsOf(prefix)))

\* The cached generation retraces the last full one, token by token.
Retraces ==
    /\ phase \in {"cached", "report"} /\ ~options.skip_full_prefix =>
          /\ last_full_tokens \in Seq(Known)
          /\ GreedyContinuation(last_full_tokens, options.tokens,
                                options.generation_tokens)
    /\ phase = "cached" /\ stage \in {"run", "next"} /\ ~options.skip_full_prefix =>
          tokens = SubSeq(last_full_tokens, 1, Len(tokens))
    /\ phase = "report" =>
          /\ GreedyContinuation(last_cached_tokens, options.tokens,
                                options.generation_tokens)
          /\ ~options.skip_full_prefix => last_cached_tokens = last_full_tokens

BenchmarkInv ==
    /\ BenchmarkTypeOK
    /\ Accepted /\ Stages /\ RoundFollows /\ Retraces
    /\ RoundsAreAlike /\ ModesAgree /\ OnlySingleDecodeLacksRoom
=============================================================================
