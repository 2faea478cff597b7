--------------------------- MODULE BenchmarkProofs --------------------------
(***************************************************************************)
(* Every round of gpt2_benchmark works from the same state, both ways to   *)
(* generate agree, and only the single decode can lack room: for every     *)
(* context length, command line, number of rounds, vocabulary and model.   *)
(***************************************************************************)
EXTENDS Benchmark, TLAPS

-----------------------------------------------------------------------------
(* Lists of tokens.                                                        *)

LEMMA KnownList ==
    ASSUME NEW list \in Seq(Known), Len(list) \in 1..Context
    PROVE  /\ ForwardAccepts(list)
           /\ LogitsOf(list) = Real(Row(list))
           /\ Greedy(LogitsOf(list)) \in Known
           /\ list \in Seq(Ids)
  <1>1. list \in [1..Len(list) -> Known]
    OBVIOUS
  <1>2. LogitsOf(list) = Real(Row(list)) /\ Greedy(LogitsOf(list)) \in Known
    BY <1>1, GreedyAssumption
  <1>3. list \in Seq(Ids)
    BY GreedyAssumption
  <1>4. ForwardAccepts(list)
    BY DEF ForwardAccepts
  <1> QED BY <1>2, <1>3, <1>4

\* What forward accepts is a list of known tokens.
LEMMA AcceptedList ==
    ASSUME NEW list \in Seq(Ids), ForwardAccepts(list)
    PROVE  list \in Seq(Known) /\ Len(list) \in 1..Context
  <1>1. Len(list) \in 1..Context /\ \A i \in 1..Len(list) : list[i] \in Known
    BY DEF ForwardAccepts
  <1>2. list \in [1..Len(list) -> Known]
    BY <1>1
  <1> QED BY <1>1, <1>2

\* A greedy continuation with one more greedy token is one token longer.
LEMMA ContinuationGrows ==
    ASSUME NEW list \in Seq(Ids), NEW prompt \in Seq(Ids), NEW n \in Nat,
           GreedyContinuation(list, prompt, n), Greedy(LogitsOf(list)) \in Ids
    PROVE  GreedyContinuation(Append(list, Greedy(LogitsOf(list))), prompt, n + 1)
  <1> DEFINE next == Greedy(LogitsOf(list))
             longer == Append(list, next)
  <1>1. Len(list) = Len(prompt) + n /\ SubSeq(list, 1, Len(prompt)) = prompt
    BY DEF GreedyContinuation
  <1>2. \A i \in (Len(prompt) + 1) .. Len(list) :
          list[i] = Greedy(LogitsOf(SubSeq(list, 1, i - 1)))
    BY DEF GreedyContinuation
  <1>3. /\ longer \in Seq(Ids) /\ Len(longer) = Len(list) + 1
        /\ longer[Len(list) + 1] = next
        /\ \A i \in 1..Len(list) : longer[i] = list[i]
    OBVIOUS
  <1>4. \A i \in 0..Len(list) : SubSeq(longer, 1, i) = SubSeq(list, 1, i)
    BY <1>3
  <1>5. SubSeq(list, 1, Len(list)) = list
    OBVIOUS
  <1>6. ASSUME NEW i \in (Len(prompt) + 1) .. Len(longer)
        PROVE  longer[i] = Greedy(LogitsOf(SubSeq(longer, 1, i - 1)))
    <2> HIDE DEF next, longer
    <2>1. i \in Int /\ Len(prompt) \in Nat /\ i >= Len(prompt) + 1 /\ i <= Len(list) + 1
      BY <1>3
    <2>2. i - 1 \in 0..Len(list)
      BY <2>1
    <2>3. SubSeq(longer, 1, i - 1) = SubSeq(list, 1, i - 1)
      BY <1>4, <2>2
    <2>4. CASE i = Len(list) + 1
      <3>1. i - 1 = Len(list)
        BY <2>4
      <3>2. SubSeq(longer, 1, i - 1) = list
        BY <1>5, <2>3, <3>1
      <3>3. longer[i] = next
        BY <1>3, <2>4
      <3> QED BY <3>2, <3>3 DEF next
    <2>5. CASE i <= Len(list)
      <3>1. i \in (Len(prompt) + 1) .. Len(list) /\ i \in 1..Len(list)
        BY <2>1, <2>5
      <3> QED BY <1>2, <1>3, <2>3, <3>1
    <2> QED BY <2>1, <2>4, <2>5
  <1>7. Len(prompt) \in 0..Len(list)
    BY <1>1
  <1>8. SubSeq(longer, 1, Len(prompt)) = prompt
    BY <1>1, <1>4, <1>7
  <1>9. Len(longer) = Len(prompt) + (n + 1)
    BY <1>1, <1>3
  <1> QED BY <1>6, <1>8, <1>9 DEF GreedyContinuation

LEMMA OneMoreToken ==
    ASSUME NEW S, NEW list \in Seq(S), NEW e \in S
    PROVE  Append(list, e) \in Seq(S) /\ Len(Append(list, e)) = Len(list) + 1
  OBVIOUS

LEMMA PromptContinues ==
    ASSUME NEW prompt \in Seq(Ids)
    PROVE  GreedyContinuation(prompt, prompt, 0)
  BY DEF GreedyContinuation

\* The start of a greedy continuation is determined by what comes before: the
\* next token of a longer one is the greedy choice after any prefix of it.
LEMMA ContinuationRetraced ==
    ASSUME NEW whole \in Seq(Known), NEW prompt \in Seq(Ids), NEW n \in Nat, NEW k \in Nat,
           GreedyContinuation(whole, prompt, n), k < n,
           NEW list \in Seq(Known), Len(list) = Len(prompt) + k,
           list = SubSeq(whole, 1, Len(list))
    PROVE  LET longer == Append(list, Greedy(LogitsOf(list)))
           IN  longer = SubSeq(whole, 1, Len(longer))
  <1> DEFINE m == Len(list)
             longer == Append(list, whole[m + 1])
  <1>1. /\ Len(whole) = Len(prompt) + n /\ Len(prompt) \in Nat /\ m \in Nat
        /\ m + 1 \in (Len(prompt) + 1) .. Len(whole)
    BY DEF GreedyContinuation
  <1>2. whole[m + 1] = Greedy(LogitsOf(SubSeq(whole, 1, (m + 1) - 1)))
    BY <1>1 DEF GreedyContinuation
  <1>3. (m + 1) - 1 = m
    BY <1>1
  <1>4. whole[m + 1] = Greedy(LogitsOf(list))
    BY <1>2, <1>3
  <1>5. longer = SubSeq(whole, 1, Len(longer))
    <2>1. m + 1 \in 1..Len(whole) /\ whole[m + 1] \in Known
      BY <1>1
    <2>2. longer \in Seq(Known) /\ Len(longer) = m + 1
      BY <2>1, OneMoreToken
    <2>3. SubSeq(whole, 1, m + 1) \in Seq(Known) /\ Len(SubSeq(whole, 1, m + 1)) = m + 1
      BY <2>1
    <2>4. ASSUME NEW i \in 1..(m + 1) PROVE longer[i] = SubSeq(whole, 1, m + 1)[i]
      <3>1. SubSeq(whole, 1, m + 1)[i] = whole[i]
        BY <2>1
      <3>2. CASE i = m + 1
        BY <3>1, <3>2
      <3>3. CASE i \in 1..m
        <4>1. SubSeq(whole, 1, m)[i] = whole[i]
          BY <1>1, <3>3
        <4>2. longer[i] = list[i]
          BY <3>3
        <4> QED BY <3>1, <4>1, <4>2
      <3> QED BY <1>1, <3>2, <3>3
    <2> HIDE DEF longer
    <2> QED BY <2>2, <2>3, <2>4
  <1> QED BY <1>4, <1>5

\* What the command line says once main()'s checks have passed.
LEMMA OptionFacts ==
    ASSUME NEW o, o \in CommandLines
    PROVE  /\ o.tokens \in Seq(Ids) /\ o.tokens # <<>> /\ Len(o.tokens) \in Nat \ {0}
           /\ o.generation_tokens \in 0..MaxGeneration /\ o.generation_tokens \in Nat
           /\ o.warmup \in 0..MaxRounds /\ o.repetitions \in 0..MaxRounds
           /\ o.skip_full_prefix \in BOOLEAN
           /\ MaxGeneration \in Nat /\ MaxRounds \in Nat /\ Context \in Nat \ {0}
           /\ Capacity(o) \in Nat \ {0}
           /\ ~Unsuitable(o) =>
                /\ Len(o.tokens) + o.generation_tokens <= Context
                /\ Len(o.tokens) + o.generation_tokens - 1 <= Capacity(o)
                /\ Capacity(o) \in 1..Context
                /\ o.tokens \in Seq(Known)
           /\ ~BadOptions(o) => o.generation_tokens # 0 /\ o.repetitions # 0
  <1>1. /\ o.tokens \in PromptSet \ {<<>>} /\ o.generation_tokens \in 0..MaxGeneration
        /\ o.warmup \in 0..MaxRounds /\ o.repetitions \in 0..MaxRounds
        /\ o.capacity \in 0 .. (Context + 1) /\ o.skip_full_prefix \in BOOLEAN
    BY DEF CommandLines
  <1>2. /\ MaxGeneration \in Nat /\ MaxRounds \in Nat /\ Context \in Nat \ {0}
        /\ o.tokens \in Seq(Ids) /\ o.tokens # <<>>
    BY <1>1, GreedyAssumption, BenchmarkAssumption
  <1>3. Len(o.tokens) \in Nat \ {0} /\ o.generation_tokens \in Nat
    BY <1>1, <1>2
  <1>4. Capacity(o) \in Nat \ {0}
    BY <1>1, <1>2 DEF Capacity
  <1>5. ASSUME ~Unsuitable(o)
        PROVE  /\ Len(o.tokens) + o.generation_tokens <= Context
               /\ Len(o.tokens) + o.generation_tokens - 1 <= Capacity(o)
               /\ Capacity(o) \in 1..Context
               /\ o.tokens \in Seq(Known)
    <2>1. /\ ~(Len(o.tokens) > Context)
          /\ ~(o.generation_tokens > Context - Len(o.tokens))
          /\ ~(Capacity(o) < ConsumedForGeneration(o))
          /\ ~(Capacity(o) > Context)
          /\ \A i \in DOMAIN o.tokens : o.tokens[i] \in Known
      BY <1>5 DEF Unsuitable
    <2>2. o.tokens \in [1..Len(o.tokens) -> Known]
      BY <1>2, <2>1
    <2>3. o.tokens \in Seq(Known)
      BY <1>3, <2>2
    <2> QED BY <1>2, <1>3, <1>4, <2>1, <2>3 DEF ConsumedForGeneration
  <1>6. ~BadOptions(o) => o.generation_tokens # 0 /\ o.repetitions # 0
    BY DEF BadOptions
  <1> QED BY <1>1, <1>2, <1>3, <1>4, <1>5, <1>6
-----------------------------------------------------------------------------
(* The inductive invariant.                                                *)

LEMMA InitBenchmark == BenchmarkInit => BenchmarkInv
  BY GreedyAssumption, BenchmarkAssumption
     DEF BenchmarkInit, Start, BenchmarkInv, BenchmarkTypeOK, Accepted, Stages, RoundFollows,
     Retraces, RoundsAreAlike, ModesAgree, OnlySingleDecodeLacksRoom, OnSession

Failures == {"invalid_argument", "load_error", "bad_alloc", "system_error",
             "worker_error", "length_error"}

\* An exception leaves the session and the results as they are.
LEMMA ThrowStep ==
    ASSUME BenchmarkInv, phase # "done",
           NEW kind \in Failures, Throw(kind),
           options' \in CommandLines, prefix' = prefix,
           room' \in 0..Context, Len(prefix) <= room',
           kind = "invalid_argument" => room' = 0,
           kind = "length_error" =>
              /\ decode_input # None /\ last_cached_tokens = <<>>
              /\ options'.generation_tokens = 1 /\ room' = Len(options'.tokens)
    PROVE  BenchmarkInv'
  <1>1. /\ phase' = "done" /\ failure' = kind /\ failure' \notin {"none", "logic_error",
                                                                 "runtime_error"}
        /\ UNCHANGED <<stage, round, decode_input, tokens, step, last_full_tokens,
                       last_cached_tokens>>
    BY DEF Throw, locals, Failures
  <1>2. BenchmarkTypeOK'
    BY <1>1 DEF BenchmarkInv, BenchmarkTypeOK, CommandLines, Failures, OnSession
  <1>3. Accepted'
    BY <1>1 DEF Accepted, OnSession
  <1>4. Stages' /\ RoundFollows' /\ Retraces'
    BY <1>1 DEF Stages, RoundFollows, Retraces
  <1>5. RoundsAreAlike' /\ ModesAgree'
    BY <1>1 DEF RoundsAreAlike, ModesAgree
  <1>6. OnlySingleDecodeLacksRoom'
    BY <1>1 DEF OnlySingleDecodeLacksRoom
  <1> QED BY <1>2, <1>3, <1>4, <1>5, <1>6 DEF BenchmarkInv

\* The facts every step between the checks and the exit starts from.
LEMMA RunFacts ==
    ASSUME BenchmarkInv, phase \notin {"start", "done"}
    PROVE  /\ options \in CommandLines /\ failure = "none"
           /\ options.tokens \in Seq(Ids) /\ options.tokens \in Seq(Known)
           /\ options.tokens # <<>> /\ Len(options.tokens) \in 1..Context
           /\ options.generation_tokens \in Nat \ {0}
           /\ options.generation_tokens <= MaxGeneration /\ MaxGeneration \in Nat
           /\ options.skip_full_prefix \in BOOLEAN
           /\ Rounds \in 1 .. (2 * MaxRounds) /\ MaxRounds \in Nat
           /\ Len(options.tokens) + options.generation_tokens <= Context
           /\ Len(options.tokens) + options.generation_tokens - 1 <= Capacity(options)
           /\ Capacity(options) \in 1..Context /\ Context \in Nat
           /\ phase \in OnSession => room = Capacity(options)
           /\ room \in 0..Context /\ prefix \in Seq(Ids) /\ Len(prefix) <= room
           /\ round \in 0 .. (2 * MaxRounds)
           /\ tokens \in Seq(Ids) /\ step \in 0..MaxGeneration
           /\ ~BadOptions(options) /\ ~Unsuitable(options)
  <1>1. /\ options \in CommandLines /\ failure = "none"
        /\ ~BadOptions(options) /\ ~Unsuitable(options)
        /\ phase \in OnSession => room = Capacity(options)
        /\ room \in 0..Context /\ prefix \in Seq(Ids) /\ Len(prefix) <= room
        /\ round \in 0 .. (2 * MaxRounds)
        /\ tokens \in Seq(Ids) /\ step \in 0..MaxGeneration
    BY DEF BenchmarkInv, BenchmarkTypeOK, Accepted
  <1>2. Rounds \in 1 .. (2 * MaxRounds)
    <2>1. /\ options.warmup \in 0..MaxRounds /\ options.repetitions \in 0..MaxRounds
          /\ MaxRounds \in Nat /\ options.repetitions # 0
      BY <1>1, OptionFacts
    <2> QED BY <2>1 DEF Rounds
  <1>3. /\ options.tokens \in Seq(Ids) /\ options.tokens \in Seq(Known)
        /\ options.tokens # <<>> /\ Len(options.tokens) \in Nat \ {0}
        /\ options.generation_tokens \in Nat \ {0}
        /\ options.generation_tokens <= MaxGeneration /\ MaxGeneration \in Nat
        /\ options.skip_full_prefix \in BOOLEAN
        /\ Len(options.tokens) + options.generation_tokens <= Context
        /\ Len(options.tokens) + options.generation_tokens - 1 <= Capacity(options)
        /\ Capacity(options) \in 1..Context /\ Context \in Nat /\ MaxRounds \in Nat
    BY <1>1, OptionFacts
  <1>4. Len(options.tokens) \in 1..Context
    BY <1>3
  <1> QED BY <1>1, <1>2, <1>3, <1>4

\* A throw in the middle of a run; a lack of room only in the single decode.
LEMMA RunThrows ==
    ASSUME BenchmarkInv, phase \notin {"start", "done"},
           NEW kind \in {"bad_alloc", "worker_error", "length_error"}, Throw(kind),
           UNCHANGED <<options, prefix, room>>,
           kind = "length_error" =>
              /\ decode_input # None /\ last_cached_tokens = <<>>
              /\ options.generation_tokens = 1 /\ room = Len(options.tokens)
    PROVE  BenchmarkInv'
  BY RunFacts, ThrowStep DEF Failures

LEMMA WorkerStep ==
    ASSUME BenchmarkInv, phase \notin {"start", "done"}, WorkerFails, options' = options
    PROVE  BenchmarkInv'
  <1>1. UNCHANGED <<room, prefix>> /\ Throw("worker_error")
    BY DEF WorkerFails, Failed
  <1> QED BY <1>1, RunThrows

\* measure() repeats the phase from its setup or goes on to the next one.
LEMMA RoundEnds ==
    ASSUME BenchmarkInv, phase \notin {"start", "done"}, NEW next, EndRound(Rounds, next)
    PROVE  /\ stage' = "setup" /\ phase' \in {phase, next}
           /\ round' \in 0 .. (2 * MaxRounds)
  <1>1. Rounds \in 1 .. (2 * MaxRounds) /\ round \in 0 .. (2 * MaxRounds) /\ MaxRounds \in Nat
    BY RunFacts
  <1>2. \/ /\ round + 1 < Rounds /\ round' = round + 1 /\ stage' = "setup" /\ phase' = phase
        \/ phase' = next /\ round' = 0 /\ stage' = "setup"
    BY DEF EndRound, Enter
  <1> QED BY <1>1, <1>2

\* What is left to show of a step that stays between the checks and the exit.
LEMMA StillRunning ==
    ASSUME BenchmarkInv, phase \notin {"start", "done"},
           phase' \in OnSession \cup {"report"}, failure' = "none", options' = options,
           stage' \in {"setup", "prefill", "run", "next"},
           round' \in 0 .. (2 * MaxRounds),
           tokens' \in Seq(Ids), step' \in 0..MaxGeneration,
           room' = Capacity(options), prefix' \in Seq(Ids), Len(prefix') <= room',
           phase' \notin {"cached", "report"} => last_cached_tokens' = <<>>,
           Stages', RoundFollows', Retraces'
    PROVE  BenchmarkInv'
  <1>1. /\ options \in CommandLines /\ ~BadOptions(options) /\ ~Unsuitable(options)
        /\ room' \in 0..Context
    BY RunFacts
  <1>2. BenchmarkTypeOK'
    BY <1>1 DEF BenchmarkTypeOK, CommandLines
  <1>3. Accepted'
    BY <1>1 DEF Accepted, OnSession, BadOptions, Unsuitable, Capacity,
       ConsumedForGeneration
  <1>4. RoundsAreAlike' /\ ModesAgree' /\ OnlySingleDecodeLacksRoom'
    BY DEF RoundsAreAlike, ModesAgree, OnlySingleDecodeLacksRoom, RoundFollows, OnSession
  <1> QED BY <1>2, <1>3, <1>4 DEF BenchmarkInv

LEMMA MainStep == BenchmarkInv /\ Main => BenchmarkInv'
  <1> SUFFICES ASSUME BenchmarkInv, Main PROVE BenchmarkInv'
    OBVIOUS
  <1>1. /\ phase = "start" /\ options' \in CommandLines /\ stage = "setup"
        /\ UNCHANGED <<room, prefix, answer, ended>>
        /\ room = 0 /\ failure = "none" /\ last_cached_tokens = <<>>
    BY DEF Main, sessionVars, BenchmarkInv, Accepted, Stages
  <1>2. /\ room \in 0..Context /\ prefix \in Seq(Ids) /\ Len(prefix) <= room
        /\ tokens \in Seq(Ids) /\ step \in 0..MaxGeneration
        /\ MaxRounds \in Nat
    BY BenchmarkAssumption DEF BenchmarkInv, BenchmarkTypeOK
  <1>3. ASSUME NEW kind \in Failures \ {"length_error"}, Throw(kind) PROVE BenchmarkInv'
    BY <1>1, <1>2, <1>3, ThrowStep DEF Failures
  <1>4. CASE /\ ~BadOptions(options') /\ ~Unsuitable(options')
             /\ Enter("create") /\ UNCHANGED <<locals, failure>>
    <2>1. /\ phase' = "create" /\ round' = 0 /\ stage' = "setup" /\ failure' = "none"
          /\ UNCHANGED <<tokens, step, decode_input, last_cached_tokens, room, prefix>>
      BY <1>1, <1>4 DEF Enter, locals
    <2>2. BenchmarkTypeOK'
      BY <1>1, <1>2, <2>1 DEF BenchmarkTypeOK, CommandLines
    <2>3. Accepted' /\ Stages'
      BY <1>1, <1>4, <2>1 DEF Accepted, Stages, OnSession, BadOptions, Unsuitable, Capacity,
         ConsumedForGeneration
    <2>4. RoundFollows' /\ Retraces'
      BY <2>1 DEF RoundFollows, Retraces
    <2>5. RoundsAreAlike' /\ ModesAgree' /\ OnlySingleDecodeLacksRoom'
      BY <2>1 DEF RoundsAreAlike, ModesAgree, OnlySingleDecodeLacksRoom
    <2> QED BY <2>2, <2>3, <2>4, <2>5 DEF BenchmarkInv
  <1> QED BY <1>3, <1>4 DEF Main, Failures

LEMMA OutOfMemoryStep == BenchmarkInv /\ OutOfMemory => BenchmarkInv'
  <1> SUFFICES ASSUME BenchmarkInv, OutOfMemory PROVE BenchmarkInv'
    OBVIOUS
  <1>1. /\ phase \notin {"start", "done"} /\ Throw("bad_alloc")
        /\ UNCHANGED <<options, room, prefix>>
    BY DEF OutOfMemory, sessionVars
  <1> QED BY <1>1, RunThrows

LEMMA CreateStep == BenchmarkInv /\ CreateSession => BenchmarkInv'
  <1> SUFFICES ASSUME BenchmarkInv, CreateSession PROVE BenchmarkInv'
    OBVIOUS
  <1>1. phase = "create" /\ UNCHANGED <<options, prefix>>
    BY DEF CreateSession
  <1>2. CASE Throw("bad_alloc") /\ UNCHANGED room
    BY <1>1, <1>2, RunThrows
  <1>3. CASE room' = Capacity(options) /\ Enter("prefill") /\ UNCHANGED <<locals, failure>>
    <2>1. /\ phase' = "prefill" /\ round' = 0 /\ stage' = "setup" /\ failure' = "none"
          /\ UNCHANGED <<tokens, step, last_cached_tokens>>
      BY <1>1, <1>3, RunFacts DEF Enter, locals
    <2>2. last_cached_tokens = <<>> /\ room = 0
      BY <1>1 DEF BenchmarkInv, Accepted
    <2>3. Len(prefix') <= room'
      BY <1>1, <1>3, <2>2, RunFacts
    <2>4. Stages' /\ RoundFollows' /\ Retraces'
      BY <2>1 DEF Stages, RoundFollows, Retraces
    <2> QED BY <1>1, <1>3, <2>1, <2>2, <2>3, <2>4, RunFacts, StillRunning DEF OnSession
  <1> QED BY <1>2, <1>3 DEF CreateSession

LEMMA ResetStep == BenchmarkInv /\ Reset => BenchmarkInv'
  <1> SUFFICES ASSUME BenchmarkInv, Reset PROVE BenchmarkInv'
    OBVIOUS
  <1>1. /\ phase \in {"prefill", "initial", "decode", "cached"} /\ stage' = "prefill"
        /\ prefix' = <<>> /\ room' = room
        /\ tokens' = (IF phase = "cached" THEN options.tokens ELSE tokens)
        /\ UNCHANGED <<phase, options, round, decode_input, step, last_full_tokens,
                       last_cached_tokens, failure>>
    BY DEF Reset, Cleared
  <1>2. phase \in OnSession /\ phase \notin {"start", "done"}
    BY <1>1 DEF OnSession
  <1>3. tokens' \in Seq(Ids) /\ prefix' \in Seq(Ids) /\ Len(prefix') <= room'
    BY <1>1, <1>2, RunFacts
  <1>4. Stages'
    BY <1>1 DEF Stages
  <1>5. RoundFollows' /\ Retraces'
    BY <1>1 DEF BenchmarkInv, RoundFollows, Retraces
  <1>6. phase' \notin {"cached", "report"} => last_cached_tokens' = <<>>
    BY <1>1, <1>2 DEF BenchmarkInv, Accepted
  <1> QED BY <1>1, <1>2, <1>3, <1>4, <1>5, <1>6, RunFacts, StillRunning
\* No prefill of an accepted prompt into an empty session is refused.
LEMMA PrefillAccepted ==
    ASSUME BenchmarkInv, phase \in OnSession, prefix = <<>>
    PROVE  ~PrefillRefused(options.tokens)
  <1>1. phase \notin {"start", "done"}
    BY DEF OnSession
  <1>2. /\ options.tokens \in Seq(Known) /\ options.tokens # <<>>
        /\ Len(options.tokens) \in Nat /\ options.generation_tokens \in Nat \ {0}
        /\ Len(options.tokens) + options.generation_tokens - 1 <= room /\ room \in Nat
    BY <1>1, RunFacts
  <1>3. Len(options.tokens) <= room
    BY <1>2
  <1>4. \A i \in DOMAIN options.tokens : options.tokens[i] \in Known
    BY <1>2
  <1>5. room \in Nat /\ Len(options.tokens) \in Nat
    BY <1>2
  <1> QED BY <1>2, <1>3, <1>4, <1>5 DEF PrefillRefused

LEMMA PrefillStep == BenchmarkInv /\ Prefill => BenchmarkInv'
  <1> SUFFICES ASSUME BenchmarkInv, Prefill PROVE BenchmarkInv'
    OBVIOUS
  <1> DEFINE prompt == IF phase = "cached" THEN tokens ELSE options.tokens
  <1>1. /\ phase \in {"prefill", "initial", "decode", "cached"} /\ stage = "prefill"
        /\ options' = options
    BY DEF Prefill
  <1>2. phase \in OnSession /\ phase \notin {"start", "done"}
    BY <1>1 DEF OnSession
  <1>3. prompt = options.tokens /\ prefix = <<>>
    BY <1>1 DEF BenchmarkInv, RoundFollows
  <1>4. CASE PrefillRefused(prompt) /\ Throw(ended')
    BY <1>2, <1>3, <1>4, PrefillAccepted
  <1>5. CASE WorkerFails
    BY <1>1, <1>2, <1>5, WorkerStep
  <1> DEFINE Timed ==
               phase = "prefill" /\ EndRound(Rounds, "initial") /\ UNCHANGED locals
             Untimed ==
               /\ phase = "initial" /\ decode_input' = Greedy(answer') /\ Enter("decode")
               /\ UNCHANGED <<tokens, step, last_full_tokens, last_cached_tokens>>
             Begins ==
               /\ phase \in {"decode", "cached"} /\ stage' = "run" /\ step' = 0
               /\ UNCHANGED <<phase, round, decode_input, tokens, last_full_tokens,
                              last_cached_tokens>>
  <1>6. CASE Prefilled(prompt) /\ UNCHANGED failure /\ (Timed \/ Untimed \/ Begins)
    <2>1. /\ prefix' = <<>> \o options.tokens /\ answer' = LogitsOf(<<>> \o options.tokens)
          /\ room' = room
      BY <1>3, <1>6 DEF Prefilled, Consumed
    <2>2. <<>> \o options.tokens = options.tokens
      BY <1>2, RunFacts
    <2>3. prefix' = options.tokens /\ answer' = LogitsOf(options.tokens)
      BY <2>1, <2>2
    <2>4. /\ failure' = "none" /\ room' = Capacity(options) /\ prefix' \in Seq(Ids)
          /\ Len(prefix') <= room'
      <3>1. Len(options.tokens) <= room
        BY <1>3, <1>6 DEF Prefilled
      <3> QED BY <1>2, <1>6, <2>1, <2>3, <3>1, RunFacts
    <2>5. phase # "cached" => last_cached_tokens = <<>>
      BY <1>1 DEF BenchmarkInv, Accepted
    <2>6. CASE Timed
      <3>1. /\ stage' = "setup" /\ phase' \in {"prefill", "initial"}
            /\ round' \in 0 .. (2 * MaxRounds)
        BY <1>2, <2>6, RoundEnds
      <3>2. UNCHANGED <<tokens, step, last_cached_tokens>>
        BY <2>6 DEF locals
      <3>3. Stages' /\ RoundFollows' /\ Retraces'
        BY <3>1 DEF Stages, RoundFollows, Retraces
      <3> QED BY <1>1, <1>2, <2>4, <2>5, <2>6, <3>1, <3>2, <3>3, RunFacts, StillRunning
              DEF OnSession
    <2>7. CASE Untimed
      <3>1. /\ stage' = "setup" /\ phase' = "decode" /\ round' = 0
            /\ decode_input' = Greedy(LogitsOf(options'.tokens))
        BY <1>1, <2>3, <2>7 DEF Enter
      <3>2. round' \in 0 .. (2 * MaxRounds)
        BY <1>2, <3>1, RunFacts
      <3>3. Stages' /\ RoundFollows' /\ Retraces'
        BY <3>1 DEF Stages, RoundFollows, Retraces
      <3> QED BY <1>1, <1>2, <2>4, <2>5, <2>7, <3>1, <3>2, <3>3, RunFacts, StillRunning
              DEF OnSession
    <2>8. CASE Begins
      <3>1. Stages'
        BY <2>8 DEF Stages
      <3>2. phase = "cached" => tokens = options.tokens
        BY <1>1 DEF BenchmarkInv, RoundFollows
      <3>3. phase = "decode" => decode_input = Greedy(LogitsOf(options.tokens))
        BY DEF BenchmarkInv, RoundFollows
      <3>4. phase = "cached" => /\ tokens \in Seq(Known)
                                /\ GreedyContinuation(tokens, options.tokens, 0)
        BY <1>2, <3>2, RunFacts, PromptContinues
      <3>5. RoundFollows'
        BY <1>1, <1>2, <2>3, <2>8, <3>2, <3>3, <3>4, RunFacts DEF RoundFollows
      <3>6. ASSUME phase = "cached", ~options.skip_full_prefix
            PROVE  tokens = SubSeq(last_full_tokens, 1, Len(tokens))
        BY <3>2, <3>6 DEF BenchmarkInv, Retraces, GreedyContinuation
      <3>7. Retraces'
        BY <1>1, <2>8, <3>6 DEF BenchmarkInv, Retraces
      <3>8. step' \in 0..MaxGeneration
        BY <1>2, <2>8, RunFacts
      <3> QED BY <1>1, <1>2, <2>4, <2>5, <2>8, <3>1, <3>5, <3>7, <3>8, RunFacts, StillRunning
    <2> QED BY <1>6, <2>6, <2>7, <2>8
  <1> QED BY <1>4, <1>5, <1>6 DEF Prefill

\* The decode finds the prompt consumed, so it is refused for a lack of room
\* or not at all; there is room unless one token is to be generated.
LEMMA SingleDecodeStep == BenchmarkInv /\ SingleDecode => BenchmarkInv'
  <1> SUFFICES ASSUME BenchmarkInv, SingleDecode PROVE BenchmarkInv'
    OBVIOUS
  <1>1. phase = "decode" /\ stage = "run" /\ options' = options
    BY DEF SingleDecode
  <1>2. phase \in OnSession /\ phase \notin {"start", "done"}
    BY <1>1 DEF OnSession
  <1>3. /\ prefix = options.tokens /\ decode_input = Greedy(LogitsOf(options.tokens))
        /\ last_cached_tokens = <<>>
    BY <1>1 DEF BenchmarkInv, RoundFollows, Accepted
  <1>4. decode_input \in Known /\ decode_input # None /\ prefix # <<>>
    BY <1>2, <1>3, RunFacts, KnownList, GreedyAssumption
  <1>5. CASE DecodeRefused(decode_input) /\ Throw(ended')
    <2>1. /\ ended' = "length_error" /\ Len(prefix) = room
          /\ UNCHANGED <<room, prefix>>
      BY <1>4, <1>5 DEF DecodeRefused
    <2>2. options.generation_tokens = 1
      BY <1>2, <1>3, <2>1, RunFacts
    <2> QED BY <1>1, <1>2, <1>3, <1>4, <1>5, <2>1, <2>2, RunThrows
  <1>6. CASE WorkerFails
    BY <1>1, <1>2, <1>6, WorkerStep
  <1>7. CASE /\ Decoded(decode_input)
             /\ EndRound(Rounds, IF options.skip_full_prefix THEN "cached" ELSE "full")
             /\ UNCHANGED <<locals, failure>>
    <2>1. /\ prefix' = prefix \o <<decode_input>> /\ room' = room /\ Len(prefix) < room
      BY <1>7 DEF Decoded, Consumed
    <2>2. prefix' \in Seq(Ids) /\ Len(prefix') <= room'
      <3>1. decode_input \in Ids
        BY <1>4, GreedyAssumption
      <3> QED BY <1>2, <2>1, <3>1, RunFacts
    <2>3. /\ stage' = "setup"
          /\ phase' \in {phase, IF options.skip_full_prefix THEN "cached" ELSE "full"}
          /\ round' \in 0 .. (2 * MaxRounds)
      BY <1>2, <1>7, RoundEnds
    <2>4. UNCHANGED <<decode_input, tokens, step, last_full_tokens, last_cached_tokens>>
      BY <1>7 DEF locals
    <2>5. phase' \in {"decode", "full", "cached"}
          /\ (phase' = "cached" => options'.skip_full_prefix)
      BY <1>1, <2>3
    <2>6. Stages' /\ RoundFollows' /\ Retraces'
      BY <1>1, <1>3, <2>3, <2>4, <2>5 DEF Stages, RoundFollows, Retraces
    <2>7. /\ phase' \in OnSession \cup {"report"} /\ failure' = "none"
          /\ room' = Capacity(options)
      BY <1>2, <1>7, <2>1, <2>5, RunFacts DEF OnSession
    <2> QED BY <1>1, <1>2, <1>3, <2>2, <2>3, <2>4, <2>6, <2>7, RunFacts, StillRunning
  <1> QED BY <1>5, <1>6, <1>7 DEF SingleDecode
\* One more greedy token in either kind of generation.
LEMMA EmitKeeps ==
    ASSUME BenchmarkInv, phase \in {"full", "cached"}, stage = "run",
           step < options.generation_tokens,
           NEW row, row = LogitsOf(tokens), Emit(row), options' = options
    PROVE  /\ tokens' = Append(tokens, Greedy(LogitsOf(tokens)))
           /\ tokens' \in Seq(Known) /\ tokens' \in Seq(Ids)
           /\ tokens \in Seq(Known) /\ Len(tokens) = Len(options.tokens) + step
           /\ Greedy(LogitsOf(tokens)) \in Known
           /\ step' = step + 1 /\ step \in Nat
           /\ step' <= options.generation_tokens /\ step' \in 0..MaxGeneration
           /\ GreedyContinuation(tokens', options'.tokens, step')
  <1> DEFINE next == Greedy(LogitsOf(tokens))
  <1>1. /\ tokens \in Seq(Known) /\ tokens \in Seq(Ids)
        /\ GreedyContinuation(tokens, options.tokens, step)
    BY RunFacts DEF BenchmarkInv, RoundFollows
  <1>2. Len(tokens) = Len(options.tokens) + step
    BY <1>1 DEF GreedyContinuation
  <1> HIDE DEF next
  <1>3. /\ Len(options.tokens) \in 1..Context /\ Context \in Nat /\ step \in 0..MaxGeneration
        /\ options.generation_tokens \in Nat /\ MaxGeneration \in Nat
        /\ options.generation_tokens <= MaxGeneration
        /\ Len(options.tokens) + options.generation_tokens <= Context
    BY RunFacts
  <1>4. Len(tokens) \in 1..Context /\ step \in Nat
    BY <1>2, <1>3
  <1>5. next \in Known /\ next \in Ids
    BY <1>1, <1>4, KnownList, GreedyAssumption DEF next
  <1>6. tokens' = Append(tokens, next) /\ step' = step + 1
    BY DEF Emit, next
  <1>7. tokens' \in Seq(Known) /\ tokens' \in Seq(Ids)
    BY <1>1, <1>5, <1>6
  <1>8. GreedyContinuation(tokens', options'.tokens, step')
    BY <1>1, <1>4, <1>5, <1>6, RunFacts, ContinuationGrows DEF next
  <1>9. step' <= options.generation_tokens /\ step' \in 0..MaxGeneration
    BY <1>4, <1>6, <1>3
  <1> QED BY <1>1, <1>2, <1>4, <1>5, <1>6, <1>7, <1>8, <1>9 DEF next

LEMMA FullSetupStep == BenchmarkInv /\ FullSetup => BenchmarkInv'
  <1> SUFFICES ASSUME BenchmarkInv, FullSetup PROVE BenchmarkInv'
    OBVIOUS
  <1>1. /\ phase = "full" /\ tokens' = options.tokens /\ step' = 0 /\ stage' = "run"
        /\ UNCHANGED <<phase, options, round, decode_input, last_full_tokens,
                       last_cached_tokens, failure, room, prefix>>
    BY DEF FullSetup, sessionVars
  <1>2. phase \in OnSession /\ phase \notin {"start", "done"} /\ last_cached_tokens = <<>>
    BY <1>1 DEF OnSession, BenchmarkInv, Accepted
  <1>3. tokens' \in Seq(Ids) /\ tokens' \in Seq(Known) /\ step' \in 0..MaxGeneration
        /\ GreedyContinuation(tokens', options'.tokens, step')
        /\ step' <= options'.generation_tokens
    BY <1>1, <1>2, RunFacts, PromptContinues
  <1>4. Stages' /\ RoundFollows' /\ Retraces'
    BY <1>1, <1>3 DEF Stages, RoundFollows, Retraces
  <1> QED BY <1>1, <1>2, <1>3, <1>4, RunFacts, StillRunning

\* forward never refuses a token list of the benchmark.
LEMMA FullSteps == BenchmarkInv /\ (FullStep \/ FullEnd) => BenchmarkInv'
  <1> SUFFICES ASSUME BenchmarkInv, FullStep \/ FullEnd PROVE BenchmarkInv'
    OBVIOUS
  <1>1. phase = "full" /\ stage = "run" /\ UNCHANGED <<options, room, prefix>>
    BY DEF FullStep, FullEnd, sessionVars
  <1>2. phase \in OnSession /\ phase \notin {"start", "done"} /\ last_cached_tokens = <<>>
    BY <1>1 DEF OnSession, BenchmarkInv, Accepted
  <1>3. /\ tokens \in Seq(Known) /\ step <= options.generation_tokens
        /\ GreedyContinuation(tokens, options.tokens, step)
    BY <1>1 DEF BenchmarkInv, RoundFollows
  <1>4. Len(tokens) \in 1..Context
    <2>1. /\ Len(options.tokens) \in 1..Context /\ Context \in Nat /\ step \in 0..MaxGeneration
          /\ options.generation_tokens \in Nat /\ MaxGeneration \in Nat
          /\ options.generation_tokens <= MaxGeneration
          /\ Len(options.tokens) + options.generation_tokens <= Context
      BY <1>2, RunFacts
    <2>2. Len(tokens) = Len(options.tokens) + step
      BY <1>3 DEF GreedyContinuation
    <2> QED BY <1>3, <2>1, <2>2
  <1>5. ForwardAccepts(tokens) /\ LogitsOf(tokens) = Real(Row(tokens))
    BY <1>3, <1>4, KnownList
  <1>6. CASE Throw("bad_alloc")
    BY <1>1, <1>2, <1>6, RunThrows
  <1>7. CASE /\ step < options.generation_tokens /\ Emit(Real(Row(tokens)))
             /\ UNCHANGED <<phase, stage, round, failure>>
    <2>1. /\ tokens' \in Seq(Known) /\ tokens' \in Seq(Ids) /\ step' \in 0..MaxGeneration
          /\ step' <= options.generation_tokens
          /\ GreedyContinuation(tokens', options'.tokens, step')
      BY <1>1, <1>5, <1>7, EmitKeeps
    <2>2. Stages' /\ RoundFollows' /\ Retraces' /\ last_cached_tokens' = last_cached_tokens
      BY <1>1, <1>7, <2>1 DEF Stages, RoundFollows, Retraces, Emit
    <2> QED BY <1>1, <1>2, <1>7, <2>1, <2>2, RunFacts, StillRunning
  <1>8. CASE /\ step = options.generation_tokens /\ last_full_tokens' = tokens
             /\ EndRound(Rounds, "cached")
             /\ UNCHANGED <<decode_input, tokens, step, last_cached_tokens, failure>>
    <2>1. stage' = "setup" /\ phase' \in {"full", "cached"} /\ round' \in 0 .. (2 * MaxRounds)
      BY <1>1, <1>2, <1>8, RoundEnds
    <2>2. Stages' /\ RoundFollows'
      BY <2>1 DEF Stages, RoundFollows
    <2>3. Retraces'
      BY <1>1, <1>3, <1>8, <2>1 DEF Retraces
    <2>4. phase' \in OnSession
      BY <2>1 DEF OnSession
    <2> QED BY <1>1, <1>2, <1>8, <2>1, <2>2, <2>3, <2>4, RunFacts, StillRunning
  <1> QED BY <1>5, <1>6, <1>7, <1>8 DEF FullStep, FullEnd

\* Each cached token is the one the last full generation chose there.
LEMMA CachedStepStep == BenchmarkInv /\ CachedStep => BenchmarkInv'
  <1> SUFFICES ASSUME BenchmarkInv, CachedStep PROVE BenchmarkInv'
    OBVIOUS
  <1>1. /\ phase = "cached" /\ stage = "run" /\ step < options.generation_tokens
        /\ Emit(answer)
        /\ stage' = (IF step + 1 < options.generation_tokens THEN "next" ELSE "run")
        /\ UNCHANGED <<phase, options, round, failure, room, prefix>>
        /\ UNCHANGED <<decode_input, last_full_tokens, last_cached_tokens>>
    BY DEF CachedStep, sessionVars, Emit
  <1>2. phase \in OnSession /\ phase \notin {"start", "done"}
    BY <1>1 DEF OnSession
  <1>3. tokens = prefix /\ answer = LogitsOf(prefix)
    BY <1>1 DEF BenchmarkInv, RoundFollows
  <1>4. /\ tokens' = Append(tokens, Greedy(LogitsOf(tokens)))
        /\ tokens' \in Seq(Known) /\ tokens' \in Seq(Ids) /\ tokens \in Seq(Known)
        /\ Len(tokens) = Len(options.tokens) + step
        /\ step' = step + 1 /\ step \in Nat
        /\ step' <= options.generation_tokens /\ step' \in 0..MaxGeneration
        /\ GreedyContinuation(tokens', options'.tokens, step')
    BY <1>1, <1>3, EmitKeeps
  <1>5. prefix # <<>>
    BY <1>2, <1>3, <1>4, RunFacts
  <1>6. /\ stage' \in {"next", "run"} /\ 0 < step'
        /\ stage' = "next" => step' < options.generation_tokens
        /\ stage' = "run" => ~(step' < options.generation_tokens)
    BY <1>1, <1>2, <1>4, RunFacts
  <1>7. Stages'
    BY <1>1 DEF Stages
  <1>8. RoundFollows'
    BY <1>1, <1>3, <1>4, <1>5, <1>6 DEF RoundFollows
  <1>9. ASSUME ~options.skip_full_prefix
        PROVE  tokens' = SubSeq(last_full_tokens', 1, Len(tokens'))
    <2>1. /\ last_full_tokens \in Seq(Known)
          /\ GreedyContinuation(last_full_tokens, options.tokens, options.generation_tokens)
          /\ tokens = SubSeq(last_full_tokens, 1, Len(tokens))
      BY <1>1, <1>9 DEF BenchmarkInv, Retraces
    <2>2. options.tokens \in Seq(Ids) /\ options.generation_tokens \in Nat
      BY <1>2, RunFacts
    <2> DEFINE longer == Append(tokens, Greedy(LogitsOf(tokens)))
    <2>3. longer = SubSeq(last_full_tokens, 1, Len(longer))
      BY <1>1, <1>4, <2>1, <2>2, ContinuationRetraced
    <2> QED BY <1>1, <1>4, <2>3
  <1>10. Retraces'
    BY <1>1, <1>9 DEF BenchmarkInv, Retraces
  <1> QED BY <1>1, <1>2, <1>4, <1>6, <1>7, <1>8, <1>10, RunFacts, StillRunning

\* The capacity check has left room for every decode of a generation.
LEMMA DecodeNextStep == BenchmarkInv /\ DecodeNext => BenchmarkInv'
  <1> SUFFICES ASSUME BenchmarkInv, DecodeNext PROVE BenchmarkInv'
    OBVIOUS
  <1> DEFINE next == tokens[Len(tokens)]
  <1>1. phase = "cached" /\ stage = "next" /\ options' = options
    BY DEF DecodeNext
  <1>2. phase \in OnSession /\ phase \notin {"start", "done"}
    BY <1>1 DEF OnSession
  <1>3. /\ 0 < step /\ step < options.generation_tokens /\ prefix # <<>>
        /\ tokens = Append(prefix, Greedy(LogitsOf(prefix)))
        /\ tokens \in Seq(Known)
        /\ GreedyContinuation(tokens, options.tokens, step)
    BY <1>1 DEF BenchmarkInv, RoundFollows
  <1>4. Len(tokens) = Len(options.tokens) + step
    BY <1>3 DEF GreedyContinuation
  <1>5. /\ Len(tokens) = Len(prefix) + 1 /\ next = Greedy(LogitsOf(prefix))
        /\ next \in Known /\ next \in Ids
    <2>1. prefix \in Seq(Ids)
      BY <1>2, RunFacts
    <2> DEFINE last == Greedy(LogitsOf(prefix))
    <2>2. tokens = Append(prefix, last)
      BY <1>3
    <2> HIDE DEF last
    <2>3. Len(tokens) = Len(prefix) + 1 /\ next = last
      BY <2>1, <2>2
    <2>4. next \in Known
      BY <1>3, <2>1, <2>3
    <2> QED BY <2>3, <2>4, GreedyAssumption DEF last
  <1>6. prefix \o <<next>> = tokens
    <2>1. prefix \in Seq(Ids) /\ tokens = Append(prefix, next)
      BY <1>2, <1>3, <1>5, RunFacts
    <2> HIDE DEF next
    <2> QED BY <1>5, <2>1
  <1>7. Len(prefix) < room
    <2>1. /\ room = Capacity(options) /\ Capacity(options) \in Nat
          /\ Len(options.tokens) + options.generation_tokens - 1 <= Capacity(options)
          /\ options.generation_tokens \in Nat /\ step \in Nat
          /\ Len(options.tokens) \in Nat /\ Len(prefix) \in Nat
      BY <1>2, RunFacts
    <2>2. Len(prefix) + 1 = Len(options.tokens) + step /\ step < options.generation_tokens
      BY <1>3, <1>4, <1>5
    <2> QED BY <2>1, <2>2
  <1>8. CASE DecodeRefused(next) /\ Throw(ended')
    <2>1. room \in Nat /\ Len(prefix) # room
      BY <1>2, <1>7, RunFacts
    <2> QED BY <1>3, <1>5, <1>8, <2>1 DEF DecodeRefused
  <1>9. CASE WorkerFails
    BY <1>1, <1>2, <1>9, WorkerStep
  <1>10. CASE Decoded(next) /\ stage' = "run" /\ UNCHANGED <<phase, round, locals, failure>>
    <2>1. /\ prefix' = tokens /\ answer' = LogitsOf(tokens) /\ room' = room
          /\ UNCHANGED <<decode_input, tokens, step, last_full_tokens, last_cached_tokens>>
      BY <1>6, <1>10 DEF Decoded, Consumed, locals
    <2>2. prefix' \in Seq(Ids) /\ Len(prefix') <= room'
      BY <1>2, <1>5, <1>7, <2>1, RunFacts
    <2>3. Stages'
      BY <1>1, <1>10 DEF Stages
    <2>4. step <= options.generation_tokens
      BY <1>2, <1>3, RunFacts
    <2>5. RoundFollows'
      BY <1>1, <1>3, <1>10, <2>1, <2>4 DEF RoundFollows
    <2>6. Retraces'
      BY <1>1, <1>10, <2>1 DEF BenchmarkInv, Retraces
    <2> QED BY <1>1, <1>2, <1>10, <2>1, <2>2, <2>3, <2>5, <2>6, RunFacts, StillRunning
  <1> QED BY <1>8, <1>9, <1>10 DEF DecodeNext

LEMMA CachedEndStep == BenchmarkInv /\ CachedEnd => BenchmarkInv'
  <1> SUFFICES ASSUME BenchmarkInv, CachedEnd PROVE BenchmarkInv'
    OBVIOUS
  <1>1. /\ phase = "cached" /\ stage = "run" /\ step = options.generation_tokens
        /\ last_cached_tokens' = tokens /\ EndRound(Rounds, "report")
        /\ UNCHANGED <<options, decode_input, tokens, step, last_full_tokens, failure,
                       room, prefix>>
    BY DEF CachedEnd, sessionVars
  <1>2. phase \in OnSession /\ phase \notin {"start", "done"}
    BY <1>1 DEF OnSession
  <1>3. GreedyContinuation(tokens, options.tokens, options.generation_tokens)
    BY <1>1 DEF BenchmarkInv, RoundFollows
  <1>4. ASSUME ~options.skip_full_prefix PROVE tokens = last_full_tokens
    <2>1. /\ last_full_tokens \in Seq(Known)
          /\ GreedyContinuation(last_full_tokens, options.tokens, options.generation_tokens)
          /\ tokens = SubSeq(last_full_tokens, 1, Len(tokens))
      BY <1>1, <1>4 DEF BenchmarkInv, Retraces
    <2>2. Len(tokens) = Len(last_full_tokens)
      BY <1>3, <2>1 DEF GreedyContinuation
    <2>3. SubSeq(last_full_tokens, 1, Len(last_full_tokens)) = last_full_tokens
      BY <2>1
    <2> QED BY <2>1, <2>2, <2>3
  <1>5. stage' = "setup" /\ phase' \in {"cached", "report"} /\ round' \in 0 .. (2 * MaxRounds)
    BY <1>1, <1>2, RoundEnds
  <1>6. Stages' /\ RoundFollows'
    BY <1>5 DEF Stages, RoundFollows
  <1>7. Retraces'
    BY <1>1, <1>3, <1>4, <1>5 DEF BenchmarkInv, Retraces
  <1>8. phase' \in OnSession \cup {"report"}
    BY <1>5 DEF OnSession
  <1> QED BY <1>1, <1>2, <1>5, <1>6, <1>7, <1>8, RunFacts, StillRunning

LEMMA ReportStep == BenchmarkInv /\ Report => BenchmarkInv'
  <1> SUFFICES ASSUME BenchmarkInv, Report PROVE BenchmarkInv'
    OBVIOUS
  <1>1. phase = "report" /\ UNCHANGED <<options, room, prefix>>
    BY DEF Report, sessionVars
  <1>2. /\ GreedyContinuation(last_cached_tokens, options.tokens, options.generation_tokens)
        /\ ~options.skip_full_prefix => last_cached_tokens = last_full_tokens
    BY <1>1 DEF BenchmarkInv, Retraces
  <1>3. CASE Throw("bad_alloc")
    BY <1>1, <1>3, RunThrows
  <1>4. CASE phase' = "done" /\ UNCHANGED <<stage, round, locals, failure>>
    <2>1. /\ UNCHANGED <<decode_input, tokens, step, last_full_tokens, last_cached_tokens>>
          /\ failure' = "none"
      BY <1>1, <1>4, RunFacts DEF locals
    <2>2. BenchmarkTypeOK'
      BY <1>1, <1>4, <2>1 DEF BenchmarkInv, BenchmarkTypeOK, CommandLines, OnSession
    <2>3. Accepted' /\ Stages' /\ RoundFollows' /\ Retraces'
      BY <1>4 DEF Accepted, Stages, RoundFollows, Retraces, OnSession
    <2>4. RoundsAreAlike' /\ OnlySingleDecodeLacksRoom'
      BY <1>4, <2>1 DEF RoundsAreAlike, OnlySingleDecodeLacksRoom
    <2>5. ModesAgree'
      BY <1>1, <1>2, <1>4, <2>1 DEF ModesAgree
    <2> QED BY <2>2, <2>3, <2>4, <2>5 DEF BenchmarkInv
  <1> QED BY <1>2, <1>3, <1>4 DEF Report

LEMMA EndStep == BenchmarkInv /\ UNCHANGED benchmarkVars => BenchmarkInv'
  <1> SUFFICES ASSUME BenchmarkInv, UNCHANGED benchmarkVars PROVE BenchmarkInv'
    OBVIOUS
  <1>1. UNCHANGED <<phase, stage, options, round, decode_input, tokens, step,
                    last_full_tokens, last_cached_tokens, failure, room, prefix, answer>>
    BY DEF benchmarkVars, mainVars, locals, sessionVars
  <1>2. BenchmarkTypeOK' /\ Accepted'
    BY <1>1 DEF BenchmarkInv, BenchmarkTypeOK, Accepted, CommandLines, BadOptions,
       Unsuitable, Capacity, ConsumedForGeneration, OnSession
  <1>3. Stages' /\ RoundFollows' /\ Retraces'
    BY <1>1 DEF BenchmarkInv, Stages, RoundFollows, Retraces
  <1>4. RoundsAreAlike' /\ ModesAgree' /\ OnlySingleDecodeLacksRoom'
    BY <1>1 DEF BenchmarkInv, RoundsAreAlike, ModesAgree, OnlySingleDecodeLacksRoom
  <1> QED BY <1>2, <1>3, <1>4 DEF BenchmarkInv

\* In the middle of every round the session and the token list are what the
\* round alone determines, and the cached generation retraces the full one.
THEOREM BenchmarkInductive == BenchmarkSpec => []BenchmarkInv
  <1>1. BenchmarkInit => BenchmarkInv
    BY InitBenchmark
  <1>2. BenchmarkInv /\ [BenchmarkNext]_benchmarkVars => BenchmarkInv'
    BY MainStep, CreateStep, ResetStep, PrefillStep, SingleDecodeStep, OutOfMemoryStep,
       FullSetupStep, FullSteps, CachedStepStep, DecodeNextStep, CachedEndStep, ReportStep, EndStep
       DEF BenchmarkNext, Exited
  <1> QED BY <1>1, <1>2, PTL DEF BenchmarkSpec

\* Warmup and earlier rounds leave nothing behind that a later one depends on.
THEOREM RoundsAreIndependent == BenchmarkSpec => []RoundsAreAlike
  <1>1. BenchmarkInv => RoundsAreAlike
    BY DEF BenchmarkInv
  <1> QED BY <1>1, BenchmarkInductive, PTL

\* The comparison of the two ways to generate never throws.
THEOREM GenerationsAgree == BenchmarkSpec => []ModesAgree
  <1>1. BenchmarkInv => ModesAgree
    BY DEF BenchmarkInv
  <1> QED BY <1>1, BenchmarkInductive, PTL

\* The check of the capacity is right for the generations; the single decode
\* is the only call it can leave without room.
THEOREM OnlyOneCallLacksRoom == BenchmarkSpec => []OnlySingleDecodeLacksRoom
  <1>1. BenchmarkInv => OnlySingleDecodeLacksRoom
    BY DEF BenchmarkInv
  <1> QED BY <1>1, BenchmarkInductive, PTL
=============================================================================
