--------------------------- MODULE GenerateProofs ---------------------------
(***************************************************************************)
(* gpt2_generate prints the greedy continuation of the prompt and dumps    *)
(* the logits of the complete output in both modes, for every context      *)
(* length, command line, vocabulary and model.                             *)
(***************************************************************************)
EXTENDS Generate, TLAPS

-----------------------------------------------------------------------------
(* Lists of tokens.                                                        *)

LEMMA KnownList ==
    ASSUME NEW list \in Seq(Known), Len(list) \in 1..Context
    PROVE  /\ ForwardAccepts(list)
           /\ LogitsOf(list) = Real(Row(list))
           /\ Greedy(LogitsOf(list)) \in Known
           /\ list \in Seq(Ids)
  <1>1. list \in [1..Len(list) -> Known]
    OBVIOUS
  <1>2. LogitsOf(list) = Real(Row(list)) /\ Greedy(LogitsOf(list)) \in Known
    BY <1>1, GreedyAssumption
  <1>3. list \in Seq(Ids)
    BY GreedyAssumption
  <1>4. ForwardAccepts(list)
    BY DEF ForwardAccepts
  <1> QED BY <1>2, <1>3, <1>4

\* What forward accepts is a list of known tokens.
LEMMA AcceptedList ==
    ASSUME NEW list \in Seq(Ids), ForwardAccepts(list)
    PROVE  list \in Seq(Known) /\ Len(list) \in 1..Context
  <1>1. Len(list) \in 1..Context /\ \A i \in 1..Len(list) : list[i] \in Known
    BY DEF ForwardAccepts
  <1>2. list \in [1..Len(list) -> Known]
    BY <1>1
  <1> QED BY <1>1, <1>2

\* A greedy continuation with one more greedy token is one token longer.
LEMMA ContinuationGrows ==
    ASSUME NEW list \in Seq(Ids), NEW prompt \in Seq(Ids), NEW n \in Nat,
           GreedyContinuation(list, prompt, n), Greedy(LogitsOf(list)) \in Ids
    PROVE  GreedyContinuation(Append(list, Greedy(LogitsOf(list))), prompt, n + 1)
  <1> DEFINE next == Greedy(LogitsOf(list))
             longer == Append(list, next)
  <1>1. Len(list) = Len(prompt) + n /\ SubSeq(list, 1, Len(prompt)) = prompt
    BY DEF GreedyContinuation
  <1>2. \A i \in (Len(prompt) + 1) .. Len(list) :
          list[i] = Greedy(LogitsOf(SubSeq(list, 1, i - 1)))
    BY DEF GreedyContinuation
  <1>3. /\ longer \in Seq(Ids) /\ Len(longer) = Len(list) + 1
        /\ longer[Len(list) + 1] = next
        /\ \A i \in 1..Len(list) : longer[i] = list[i]
    OBVIOUS
  <1>4. \A i \in 0..Len(list) : SubSeq(longer, 1, i) = SubSeq(list, 1, i)
    BY <1>3
  <1>5. SubSeq(list, 1, Len(list)) = list
    OBVIOUS
  <1>6. ASSUME NEW i \in (Len(prompt) + 1) .. Len(longer)
        PROVE  longer[i] = Greedy(LogitsOf(SubSeq(longer, 1, i - 1)))
    <2> HIDE DEF next, longer
    <2>1. i \in Int /\ Len(prompt) \in Nat /\ i >= Len(prompt) + 1 /\ i <= Len(list) + 1
      BY <1>3
    <2>2. i - 1 \in 0..Len(list)
      BY <2>1
    <2>3. SubSeq(longer, 1, i - 1) = SubSeq(list, 1, i - 1)
      BY <1>4, <2>2
    <2>4. CASE i = Len(list) + 1
      <3>1. i - 1 = Len(list)
        BY <2>4
      <3>2. SubSeq(longer, 1, i - 1) = list
        BY <1>5, <2>3, <3>1
      <3>3. longer[i] = next
        BY <1>3, <2>4
      <3> QED BY <3>2, <3>3 DEF next
    <2>5. CASE i <= Len(list)
      <3>1. i \in (Len(prompt) + 1) .. Len(list) /\ i \in 1..Len(list)
        BY <2>1, <2>5
      <3> QED BY <1>2, <1>3, <2>3, <3>1
    <2> QED BY <2>1, <2>4, <2>5
  <1>7. Len(prompt) \in 0..Len(list)
    BY <1>1
  <1>8. SubSeq(longer, 1, Len(prompt)) = prompt
    BY <1>1, <1>4, <1>7
  <1>9. Len(longer) = Len(prompt) + (n + 1)
    BY <1>1, <1>3
  <1> QED BY <1>6, <1>8, <1>9 DEF GreedyContinuation

LEMMA PromptContinues ==
    ASSUME NEW prompt \in Seq(Ids)
    PROVE  GreedyContinuation(prompt, prompt, 0)
  BY DEF GreedyContinuation

\* What a command line says once main() has accepted it.
LEMMA OptionFacts ==
    ASSUME NEW o, o \in CommandLines, ~BadOptions(o)
    PROVE  /\ o.tokens \in Seq(Ids) /\ Len(o.tokens) \in Nat \ {0}
           /\ o.max_new_tokens \in 0..MaxNew /\ o.max_new_tokens \in Nat
           /\ o.dump \in BOOLEAN /\ o.mode \in {"full", "cached"}
           /\ Required(o) = Len(o.tokens)
                 + (IF o.max_new_tokens = 0 THEN 0 ELSE o.max_new_tokens - 1)
                 + (IF o.dump /\ o.max_new_tokens # 0 THEN 1 ELSE 0)
           /\ Required(o) \in Nat
           /\ ~ExceedsContext(o) => Len(o.tokens) + o.max_new_tokens <= Context
  <1>1. /\ o.tokens \in PromptSet \ {<<>>} /\ o.max_new_tokens \in 0..MaxNew
        /\ o.dump \in BOOLEAN /\ o.mode \in {"full", "cached"}
    BY DEF CommandLines, BadOptions
  <1>2. o.tokens \in Seq(Ids) /\ o.tokens # <<>> /\ MaxNew \in Nat /\ Context \in Nat
    BY <1>1, GreedyAssumption, GenerateAssumption
  <1>3. Len(o.tokens) \in Nat \ {0} /\ o.max_new_tokens \in Nat
    BY <1>1, <1>2
  <1>4. Required(o) = Len(o.tokens)
                 + (IF o.max_new_tokens = 0 THEN 0 ELSE o.max_new_tokens - 1)
                 + (IF o.dump /\ o.max_new_tokens # 0 THEN 1 ELSE 0)
    BY DEF Required
  <1>5. Required(o) \in Nat
    BY <1>3, <1>4
  <1>6. ~ExceedsContext(o) => Len(o.tokens) + o.max_new_tokens <= Context
    BY <1>2, <1>3 DEF ExceedsContext
  <1> QED BY <1>1, <1>2, <1>3, <1>4, <1>5, <1>6
-----------------------------------------------------------------------------
(* The inductive invariant.                                                *)

LEMMA InitGenerate == GenerateInit => GenerateInv
  BY GreedyAssumption, GenerateAssumption
     DEF GenerateInit, Start, GenerateInv, GenerateTypeOK, OutputSoFar, SessionFollows,
     ReadyToDump, OutputIsGreedy, DumpDescribesOutput, CapacityCheckIsExact, Succeeded

Failures == {"invalid_argument", "load_error", "bad_alloc", "system_error",
             "worker_error", "runtime_error"}

\* Nothing is written when an exception reaches main(), and an argument is
\* refused only before the first token.
LEMMA ThrowStep ==
    ASSUME GenerateInv, pc \notin {"start", "done"},
           NEW kind \in Failures, Throw(kind), kind = "invalid_argument" => step = 0,
           UNCHANGED <<options, prefix>>, room' \in 0..Context, Len(prefix) <= room'
    PROVE  GenerateInv'
  <1>1. /\ pc' = "done" /\ failure' = kind /\ failure' # "none"
        /\ UNCHANGED <<tokens, step, logits, dumped, options, prefix>>
    BY DEF Throw, Failures
  <1>2. GenerateTypeOK'
    BY <1>1 DEF GenerateInv, GenerateTypeOK, CommandLines, Failures
  <1>3. CapacityCheckIsExact'
    BY <1>1 DEF GenerateInv, OutputSoFar, CapacityCheckIsExact, Succeeded, Failures
  <1>4. OutputSoFar' /\ SessionFollows' /\ ReadyToDump'
    BY <1>1 DEF OutputSoFar, SessionFollows, ReadyToDump
  <1>5. OutputIsGreedy' /\ DumpDescribesOutput'
    BY <1>1 DEF OutputIsGreedy, DumpDescribesOutput, Succeeded
  <1> QED BY <1>2, <1>3, <1>4, <1>5 DEF GenerateInv

\* While main() runs none of its promises about the end is due.
LEMMA StillRunning ==
    ASSUME pc' # "done", failure' = "none",
           GenerateTypeOK', OutputSoFar', SessionFollows', ReadyToDump'
    PROVE  GenerateInv'
  BY DEF GenerateInv, OutputIsGreedy, DumpDescribesOutput, CapacityCheckIsExact, Succeeded

LEMMA MainStep == GenerateInv /\ Main => GenerateInv'
  <1> SUFFICES ASSUME GenerateInv, Main PROVE GenerateInv'
    OBVIOUS
  <1>1. /\ pc = "start" /\ options' \in CommandLines
        /\ UNCHANGED <<room, prefix, answer, ended>>
        /\ tokens = <<>> /\ step = 0 /\ dumped = None /\ failure = "none" /\ prefix = <<>>
    BY DEF Main, sessionVars, GenerateInv, OutputSoFar
  <1>2. room \in 0..Context /\ Context \in Nat /\ MaxNew \in Nat
    BY GreedyAssumption, GenerateAssumption DEF GenerateInv, GenerateTypeOK
  <1>3. ASSUME NEW kind \in Failures, Throw(kind) PROVE GenerateInv'
    <2>1. /\ pc' = "done" /\ failure' = kind /\ failure' # "none"
          /\ UNCHANGED <<tokens, step, logits, dumped>>
      BY <1>3 DEF Throw, Failures
    <2>2. GenerateTypeOK'
      BY <1>1, <1>2, <2>1 DEF GenerateTypeOK, CommandLines, Failures
    <2>3. CapacityCheckIsExact'
      BY <1>1, <2>1 DEF CapacityCheckIsExact, Succeeded, Failures
    <2>4. OutputSoFar' /\ SessionFollows' /\ ReadyToDump'
      BY <2>1 DEF OutputSoFar, SessionFollows, ReadyToDump
    <2>5. OutputIsGreedy' /\ DumpDescribesOutput'
      BY <2>1 DEF OutputIsGreedy, DumpDescribesOutput, Succeeded
    <2> QED BY <2>2, <2>3, <2>4, <2>5 DEF GenerateInv
  <1>4. CASE /\ ~BadOptions(options') /\ ~ExceedsContext(options')
             /\ tokens' = options'.tokens
             /\ pc' = IF options'.mode = "full" THEN "full" ELSE "session"
             /\ UNCHANGED <<step, logits, dumped, failure>>
    <2> DEFINE o == options'
    <2>1. /\ o.tokens \in Seq(Ids) /\ Len(o.tokens) \in Nat \ {0}
          /\ o.max_new_tokens \in Nat /\ o.mode \in {"full", "cached"}
          /\ Len(o.tokens) + o.max_new_tokens <= Context
      BY <1>1, <1>4, OptionFacts
    <2>2. pc' \in {"full", "session"} /\ tokens' = o.tokens /\ step' = 0
          /\ dumped' = None /\ failure' = "none" /\ prefix' = <<>> /\ room' = room
      BY <1>1, <1>4
    <2>3. /\ pc' = "full" => o.mode = "full"
          /\ pc' = "session" => o.mode = "cached"
      BY <1>4, <2>1
    <2>4. Len(tokens') <= Context
      BY <1>2, <2>1, <2>2
    <2>5. GenerateTypeOK'
      BY <1>1, <1>2, <2>1, <2>2, <2>4 DEF GenerateTypeOK, CommandLines
    <2>6. GreedyContinuation(tokens', o.tokens, step')
      BY <2>1, <2>2, PromptContinues
    <2>7. OutputSoFar'
      BY <1>4, <2>1, <2>2, <2>6 DEF OutputSoFar, BadOptions, ExceedsContext
    <2>8. SessionFollows' /\ ReadyToDump'
      BY <2>2, <2>3 DEF SessionFollows, ReadyToDump
    <2> QED BY <2>2, <2>5, <2>7, <2>8, StillRunning
  <1> QED BY <1>3, <1>4 DEF Main, Failures
\* The facts every step of a run starts from.
LEMMA RunFacts ==
    ASSUME GenerateInv, pc \notin {"start", "done"}
    PROVE  /\ options \in CommandLines
           /\ options.tokens \in Seq(Ids) /\ Len(options.tokens) \in Nat \ {0}
           /\ options.max_new_tokens \in Nat /\ options.max_new_tokens <= MaxNew
           /\ options.dump \in BOOLEAN /\ options.mode \in {"full", "cached"}
           /\ step \in Nat /\ step <= options.max_new_tokens
           /\ MaxNew \in Nat /\ Context \in Nat
           /\ tokens \in Seq(Ids) /\ Len(tokens) = Len(options.tokens) + step
           /\ Len(options.tokens) + options.max_new_tokens <= Context
           /\ GreedyContinuation(tokens, options.tokens, step)
           /\ step # 0 => tokens \in Seq(Known)
           /\ failure = "none" /\ dumped = None
           /\ room \in 0..Context /\ prefix \in Seq(Ids) /\ Len(prefix) <= room
           /\ ~BadOptions(options) /\ ~ExceedsContext(options)
  <1>1. /\ options \in CommandLines /\ step \in 0..MaxNew /\ tokens \in Seq(Ids)
        /\ step <= options.max_new_tokens
        /\ ~BadOptions(options) /\ ~ExceedsContext(options)
        /\ GreedyContinuation(tokens, options.tokens, step)
        /\ step # 0 => tokens \in Seq(Known)
        /\ failure = "none" /\ dumped = None
        /\ room \in 0..Context /\ prefix \in Seq(Ids) /\ Len(prefix) <= room
    BY DEF GenerateInv, GenerateTypeOK, OutputSoFar
  <1>2. MaxNew \in Nat /\ Context \in Nat
    BY GreedyAssumption, GenerateAssumption
  <1>3. Len(tokens) = Len(options.tokens) + step
    BY <1>1 DEF GreedyContinuation
  <1> QED BY <1>1, <1>2, <1>3, OptionFacts

\* A step that changes none of the tokens keeps the run within its bounds.
LEMMA SameTokens ==
    ASSUME GenerateInv, pc \notin {"start", "done"}, pc' \notin {"start", "done"},
           pc' \in {"full", "session", "prefill", "emit", "decode", "redecode", "dump"},
           UNCHANGED <<options, tokens, step, dumped, failure>>,
           room' \in 0..Context, prefix' \in Seq(Ids), Len(prefix') <= room'
    PROVE  GenerateTypeOK' /\ OutputSoFar'
  <1>1. GenerateTypeOK'
    BY DEF GenerateInv, GenerateTypeOK, CommandLines
  <1>2. OutputSoFar'
    BY DEF GenerateInv, OutputSoFar, BadOptions, ExceedsContext
  <1> QED BY <1>1, <1>2

\* One more greedy token keeps the run within its bounds.
LEMMA EmitKeeps ==
    ASSUME GenerateInv, pc \notin {"start", "done"}, pc' \notin {"start", "done"},
           pc' \in {"full", "session", "prefill", "emit", "decode", "redecode", "dump"},
           step < options.max_new_tokens, tokens \in Seq(Known),
           NEW row, Emit(row), row = LogitsOf(tokens),
           UNCHANGED <<options, dumped, failure, room, prefix>>
    PROVE  /\ GenerateTypeOK' /\ OutputSoFar'
           /\ tokens' = Append(tokens, Greedy(LogitsOf(tokens)))
           /\ tokens' \in Seq(Known) /\ step' = step + 1
           /\ Len(tokens') = Len(tokens) + 1
  <1> DEFINE next == Greedy(LogitsOf(tokens))
  <1> USE RunFacts
  <1>1. Len(tokens) \in 1..Context /\ Len(tokens) + 1 <= Context
    OBVIOUS
  <1>2. next \in Known /\ next \in Ids
    BY <1>1, KnownList, GreedyAssumption
  <1>3. tokens' = Append(tokens, next) /\ step' = step + 1
    BY DEF Emit
  <1> HIDE DEF next
  <1>4. tokens' \in Seq(Known) /\ tokens' \in Seq(Ids) /\ Len(tokens') = Len(tokens) + 1
    BY <1>2, <1>3
  <1>5. GreedyContinuation(tokens', options.tokens, step')
    BY <1>2, <1>3, ContinuationGrows DEF next
  <1>6. step' \in 0..MaxNew /\ step' <= options.max_new_tokens
    BY <1>3
  <1>7. Len(tokens') <= Context
    BY <1>1, <1>4
  <1>8. GenerateTypeOK'
    BY <1>4, <1>6, <1>7 DEF GenerateInv, GenerateTypeOK, CommandLines
  <1>9. OutputSoFar'
    BY <1>4, <1>5, <1>6 DEF OutputSoFar, BadOptions, ExceedsContext
  <1> QED BY <1>3, <1>4, <1>8, <1>9 DEF next

\* forward refuses its arguments only before the first token: after it every
\* token is known, and main() has checked the length.
LEMMA ForwardRefusal ==
    ASSUME GenerateInv, pc = "full", ~ForwardAccepts(tokens)
    PROVE  step = 0
  <1>1. ASSUME step # 0 PROVE FALSE
    <2>1. tokens \in Seq(Known) /\ Len(tokens) \in 1..Context
      BY <1>1, RunFacts
    <2> QED BY <2>1, KnownList
  <1> QED BY <1>1

LEMMA FullFails ==
    ASSUME GenerateInv, pc = "full", ForwardFails, UNCHANGED <<options, sessionVars>>
    PROVE  GenerateInv'
  <1>1. UNCHANGED <<options, prefix>> /\ room' \in 0..Context /\ Len(prefix) <= room'
    BY RunFacts DEF sessionVars
  <1>2. CASE ~ForwardAccepts(tokens) /\ Throw("invalid_argument")
    BY <1>1, <1>2, ForwardRefusal, ThrowStep DEF Failures
  <1>3. CASE Throw("bad_alloc")
    BY <1>1, <1>3, ThrowStep DEF Failures
  <1> QED BY <1>2, <1>3 DEF ForwardFails

LEMMA FullSteps == GenerateInv /\ (FullStep \/ FullEnd) => GenerateInv'
  <1> SUFFICES ASSUME GenerateInv, FullStep \/ FullEnd PROVE GenerateInv'
    OBVIOUS
  <1>1. /\ pc = "full" /\ UNCHANGED <<options, room, prefix>>
        /\ UNCHANGED sessionVars /\ options.mode = "full"
    BY DEF FullStep, FullEnd, sessionVars, GenerateInv, SessionFollows
  <1>2. CASE ForwardFails
    BY <1>1, <1>2, FullFails
  <1>3. CASE FullStep /\ ~ForwardFails
    <2>1. /\ ForwardAccepts(tokens) /\ Emit(Real(Row(tokens)))
          /\ UNCHANGED <<pc, dumped, failure>> /\ step < options.max_new_tokens
      BY <1>3 DEF FullStep
    <2>2. tokens \in Seq(Known) /\ Real(Row(tokens)) = LogitsOf(tokens)
      BY <1>1, <2>1, RunFacts, AcceptedList, KnownList
    <2>3. GenerateTypeOK' /\ OutputSoFar'
      BY <1>1, <2>1, <2>2, EmitKeeps
    <2>4. SessionFollows' /\ ReadyToDump'
      BY <1>1, <2>1 DEF SessionFollows, ReadyToDump
    <2> QED BY <1>1, <2>1, <2>3, <2>4, RunFacts, StillRunning
  <1>4. CASE FullEnd /\ ~ForwardFails
    <2>1. /\ pc' = "dump" /\ UNCHANGED <<tokens, step, dumped, failure>>
          /\ step = options.max_new_tokens
          /\ options.dump => logits' = Row(tokens)
      BY <1>4 DEF FullEnd
    <2>2. GenerateTypeOK' /\ OutputSoFar'
      BY <1>1, <2>1, RunFacts, SameTokens
    <2>3. SessionFollows' /\ ReadyToDump'
      BY <1>1, <2>1 DEF SessionFollows, ReadyToDump
    <2> QED BY <1>1, <2>1, <2>2, <2>3, RunFacts, StillRunning
  <1> QED BY <1>2, <1>3, <1>4
\* An accepted capacity is positive and within the context, so the session's
\* constructor raises nothing of its own.
LEMMA OpenStep == GenerateInv /\ OpenSession => GenerateInv'
  <1> SUFFICES ASSUME GenerateInv, OpenSession PROVE GenerateInv'
    OBVIOUS
  <1> DEFINE capacity == SessionCapacity(options)
             accepted == Required(options) <= capacity /\ capacity \in 1..Context
  <1>1. /\ pc = "session" /\ UNCHANGED <<options, prefix>>
        /\ options.mode = "cached" /\ step = 0 /\ prefix = <<>>
    BY DEF OpenSession, GenerateInv, SessionFollows
  <1>2. ASSUME NEW kind \in Failures, Throw(kind), room' = room \/ room' \in 1..Context
        PROVE  GenerateInv'
    <2>1. room' \in 0..Context /\ Len(prefix) <= room'
      BY <1>1, <1>2, RunFacts
    <2> QED BY <1>1, <1>2, <2>1, ThrowStep
  <1>3. CASE ~accepted /\ Throw("invalid_argument") /\ UNCHANGED room
    BY <1>2, <1>3 DEF Failures
  <1>4. CASE accepted /\ Throw("bad_alloc") /\ UNCHANGED room
    BY <1>2, <1>4 DEF Failures
  <1>5. CASE accepted /\ room' = capacity /\ Throw("system_error")
    BY <1>2, <1>5 DEF Failures
  <1>6. CASE /\ accepted /\ room' = capacity /\ pc' = "prefill"
             /\ UNCHANGED <<tokens, step, logits, dumped, failure>>
    <2>1. /\ room' \in 1..Context /\ Required(options) <= room'
      BY <1>6
    <2>2. room' \in 0..Context /\ prefix' \in Seq(Ids) /\ Len(prefix') <= room'
      BY <1>1, <2>1, RunFacts
    <2>3. GenerateTypeOK' /\ OutputSoFar'
      BY <1>1, <1>6, <2>2, SameTokens
    <2>4. Required(options') = Required(options)
      BY <1>1
    <2>5. SessionFollows' /\ ReadyToDump'
      BY <1>1, <1>6, <2>1, <2>4 DEF SessionFollows, ReadyToDump
    <2> QED BY <1>1, <1>6, <2>3, <2>5, RunFacts, StillRunning
  <1> QED BY <1>3, <1>4, <1>5, <1>6 DEF OpenSession

LEMMA WorkerStep ==
    ASSUME GenerateInv, pc \notin {"start", "done"}, WorkerFails, options' = options
    PROVE  GenerateInv'
  <1>1. UNCHANGED <<room, prefix>> /\ Throw("worker_error")
    BY DEF WorkerFails, Failed
  <1> QED BY <1>1, RunFacts, ThrowStep DEF Failures

LEMMA PrefillStep == GenerateInv /\ Prefill => GenerateInv'
  <1> SUFFICES ASSUME GenerateInv, Prefill PROVE GenerateInv'
    OBVIOUS
  <1>1. /\ pc = "prefill" /\ options' = options /\ options.mode = "cached"
        /\ step = 0 /\ prefix = <<>> /\ Required(options) <= room
    BY DEF Prefill, GenerateInv, SessionFollows
  <1>2. CASE PrefillRefused(tokens) /\ Throw(ended')
    <2>1. /\ ended' \in Failures
          /\ UNCHANGED <<room, prefix>>
      <3>1. Len(tokens) <= room
        BY <1>1, RunFacts, OptionFacts
      <3> QED BY <1>1, <1>2, <3>1, RunFacts DEF PrefillRefused, Failures
    <2> QED BY <1>1, <1>2, <2>1, RunFacts, ThrowStep
  <1>3. CASE WorkerFails
    BY <1>1, <1>3, WorkerStep
  <1>4. CASE /\ Prefilled(tokens) /\ logits' = answer' /\ pc' = "emit"
             /\ UNCHANGED <<tokens, step, dumped, failure>>
    <2>1. /\ tokens # <<>> /\ Len(tokens) <= room
          /\ \A j \in DOMAIN tokens : tokens[j] \in Known
          /\ prefix' = <<>> \o tokens /\ answer' = LogitsOf(<<>> \o tokens) /\ room' = room
      BY <1>1, <1>4 DEF Prefilled, Consumed
    <2>2. <<>> \o tokens = tokens
      BY RunFacts, <1>1
    <2>3. tokens \in Seq(Known)
      <3>1. tokens \in [1..Len(tokens) -> Known] /\ Len(tokens) \in Nat
        BY <1>1, <2>1, RunFacts
      <3> QED BY <3>1
    <2>4. prefix' = tokens /\ logits' = LogitsOf(prefix')
      BY <1>4, <2>1, <2>2
    <2>5. room' \in 0..Context /\ prefix' \in Seq(Ids) /\ Len(prefix') <= room'
      BY <1>1, <2>1, <2>4, RunFacts
    <2>6. GenerateTypeOK' /\ OutputSoFar'
      BY <1>1, <1>4, <2>5, SameTokens
    <2>7. ~Pending'
      BY <1>1, <1>4 DEF Pending
    <2>8. Required(options') = Required(options)
      BY <1>1
    <2>9. SessionFollows' /\ ReadyToDump'
      BY <1>1, <1>4, <2>1, <2>3, <2>4, <2>7, <2>8 DEF SessionFollows, ReadyToDump
    <2> QED BY <1>1, <1>4, <2>6, <2>9, RunFacts, StillRunning
  <1> QED BY <1>2, <1>3, <1>4 DEF Prefill

\* What the session of a run in the loop or after it holds.
LEMMA SessionFacts ==
    ASSUME GenerateInv, pc \in {"emit", "decode", "redecode"}
    PROVE  /\ options.mode = "cached" /\ Required(options) <= room
           /\ tokens \in Seq(Known) /\ prefix \in Seq(Known) /\ prefix # <<>>
           /\ Len(prefix) \in 1..Context
           /\ ~Pending => tokens = prefix
           /\ Pending => /\ tokens = Append(prefix, Greedy(LogitsOf(prefix)))
                         /\ Len(tokens) = Len(prefix) + 1
                         /\ tokens[Len(tokens)] = Greedy(LogitsOf(prefix))
                         /\ prefix \o <<tokens[Len(tokens)]>> = tokens
           /\ Required(options) = Len(options.tokens)
                 + (IF options.max_new_tokens = 0 THEN 0 ELSE options.max_new_tokens - 1)
                 + (IF options.dump /\ options.max_new_tokens # 0 THEN 1 ELSE 0)
  <1>1. /\ options.mode = "cached" /\ Required(options) <= room
        /\ tokens \in Seq(Known) /\ prefix # <<>>
        /\ ~Pending => tokens = prefix
        /\ Pending => tokens = Append(prefix, Greedy(LogitsOf(prefix)))
    BY DEF GenerateInv, SessionFollows
  <1>2. prefix \in Seq(Ids) /\ Len(prefix) \in 1..Context
    BY <1>1, RunFacts
  <1>3. ASSUME Pending
        PROVE  /\ prefix \in Seq(Known) /\ Len(tokens) = Len(prefix) + 1
               /\ tokens[Len(tokens)] = Greedy(LogitsOf(prefix))
               /\ prefix \o <<tokens[Len(tokens)]>> = tokens
    <2> DEFINE next == Greedy(LogitsOf(prefix))
    <2>1. tokens = Append(prefix, next)
      BY <1>1, <1>3
    <2> HIDE DEF next
    <2>2. Len(tokens) = Len(prefix) + 1 /\ tokens[Len(prefix) + 1] = next
      BY <1>2, <2>1
    <2>3. \A j \in 1..Len(prefix) : tokens[j] = prefix[j] /\ tokens[j] \in Known
      BY <1>1, <1>2, <2>1
    <2>4. prefix \in [1..Len(prefix) -> Known]
      BY <1>2, <2>3
    <2>5. prefix \in Seq(Known)
      BY <1>2, <2>4
    <2>6. prefix \o <<next>> = tokens
      <3>1. next \in Known
        BY <1>1, <1>2, <2>2
      <3> QED BY <2>1, <2>5, <3>1
    <2> QED BY <2>2, <2>5, <2>6 DEF next
  <1>4. prefix \in Seq(Known)
    BY <1>1, <1>3
  <1>5. Required(options) = Len(options.tokens)
                 + (IF options.max_new_tokens = 0 THEN 0 ELSE options.max_new_tokens - 1)
                 + (IF options.dump /\ options.max_new_tokens # 0 THEN 1 ELSE 0)
    BY RunFacts, OptionFacts
  <1> QED BY <1>1, <1>2, <1>3, <1>4, <1>5
LEMMA EmitStep == GenerateInv /\ EmitToken => GenerateInv'
  <1> SUFFICES ASSUME GenerateInv, EmitToken PROVE GenerateInv'
    OBVIOUS
  <1>0. CASE Throw("bad_alloc")
    <2>1. pc = "emit" /\ UNCHANGED <<options, prefix, room>>
      BY DEF EmitToken, sessionVars
    <2>2. room \in 0..Context /\ Len(prefix) <= room
      BY <2>1, RunFacts
    <2> QED BY <1>0, <2>1, <2>2, ThrowStep DEF Failures
  <1> SUFFICES ASSUME ~Throw("bad_alloc") PROVE GenerateInv'
    BY <1>0
  <1>1. /\ pc = "emit" /\ step < options.max_new_tokens /\ Emit(logits)
        /\ pc' = (IF step + 1 < options.max_new_tokens THEN "decode" ELSE "emit")
        /\ UNCHANGED <<options, logits, dumped, failure, room, prefix>>
    BY DEF EmitToken, sessionVars
  <1>2. logits = LogitsOf(prefix) /\ ~Pending
    BY <1>1, RunFacts DEF GenerateInv, SessionFollows, Pending
  <1>3. /\ tokens = prefix /\ tokens \in Seq(Known) /\ options.mode = "cached"
        /\ prefix # <<>> /\ Required(options) <= room
    BY <1>1, <1>2, SessionFacts
  <1>4. /\ GenerateTypeOK' /\ OutputSoFar'
        /\ tokens' = Append(prefix, Greedy(LogitsOf(prefix)))
        /\ tokens' \in Seq(Known) /\ step' = step + 1
    BY <1>1, <1>2, <1>3, EmitKeeps
  <1>5. pc' \in {"decode", "emit"} /\ 0 < step' /\ step' <= options.max_new_tokens
        /\ (pc' = "decode" => step' < options.max_new_tokens)
        /\ (pc' = "emit" => step' = options.max_new_tokens)
    BY <1>1, <1>4, RunFacts
  <1>6. Pending'
    BY <1>1, <1>5 DEF Pending
  <1>7. Required(options') = Required(options)
    BY <1>1
  <1>8. SessionFollows' /\ ReadyToDump'
    BY <1>1, <1>2, <1>3, <1>4, <1>5, <1>6, <1>7 DEF SessionFollows, ReadyToDump
  <1> QED BY <1>1, <1>4, <1>5, <1>8, RunFacts, StillRunning

\* After the loop the session has consumed all but the last token, which is
\* decoded for the dump, or all of it.
LEMMA LoopEndStep == GenerateInv /\ EndLoop => GenerateInv'
  <1> SUFFICES ASSUME GenerateInv, EndLoop PROVE GenerateInv'
    OBVIOUS
  <1>1. /\ pc = "emit" /\ step = options.max_new_tokens
        /\ pc' = (IF options.dump /\ options.max_new_tokens # 0 THEN "redecode" ELSE "dump")
        /\ UNCHANGED <<options, tokens, step, logits, dumped, failure, room, prefix>>
    BY DEF EndLoop, sessionVars
  <1>2. logits = LogitsOf(prefix) /\ (Pending <=> step # 0)
    BY <1>1 DEF GenerateInv, SessionFollows, Pending
  <1>3. GenerateTypeOK' /\ OutputSoFar'
    BY <1>1, RunFacts, SameTokens
  <1>4. CASE options.dump /\ options.max_new_tokens # 0
    <2>1. pc' = "redecode" /\ Pending' /\ Pending /\ 0 < step
      BY <1>1, <1>2, <1>4, RunFacts DEF Pending
    <2>2. Required(options') = Required(options)
      BY <1>1
    <2>3. SessionFollows' /\ ReadyToDump'
      BY <1>1, <1>4, <2>1, <2>2, SessionFacts DEF SessionFollows, ReadyToDump
    <2> QED BY <1>1, <1>3, <2>1, <2>3, RunFacts, StillRunning
  <1>5. CASE ~(options.dump /\ options.max_new_tokens # 0)
    <2>1. pc' = "dump"
      BY <1>1, <1>5
    <2>2. Len(prefix) = Required(options)
      <3>1. CASE step = 0
        BY <1>1, <1>2, <3>1, SessionFacts, RunFacts
      <3>2. CASE step # 0
        <4>1. ~options.dump /\ options.max_new_tokens # 0 /\ Pending
          BY <1>1, <1>2, <1>5, <3>2, RunFacts
        <4>2. Len(tokens) = Len(prefix) + 1 /\ Len(prefix) \in Nat
          BY <1>1, <4>1, SessionFacts
        <4>3. Required(options) = Len(options.tokens) + (options.max_new_tokens - 1) + 0
          BY <1>1, <4>1, SessionFacts
        <4> QED BY <1>1, <4>2, <4>3, RunFacts
      <3> QED BY <3>1, <3>2
    <2>3. options.dump => logits = LogitsOf(tokens)
      BY <1>1, <1>2, <1>5, SessionFacts
    <2>4. Required(options') = Required(options) /\ options.mode = "cached"
      BY <1>1, SessionFacts
    <2>5. SessionFollows' /\ ReadyToDump'
      BY <1>1, <2>1, <2>2, <2>3, <2>4 DEF SessionFollows, ReadyToDump
    <2> QED BY <1>1, <1>3, <2>1, <2>5, RunFacts, StillRunning
  <1> QED BY <1>4, <1>5

\* The capacity check has left room for every decode, so none is refused.
LEMMA DecodeStep == GenerateInv /\ DecodeLast => GenerateInv'
  <1> SUFFICES ASSUME GenerateInv, DecodeLast PROVE GenerateInv'
    OBVIOUS
  <1> DEFINE next == tokens[Len(tokens)]
  <1>1. pc \in {"decode", "redecode"} /\ options' = options /\ Pending
    BY DEF DecodeLast, Pending
  <1>2. /\ 0 < step /\ step <= options.max_new_tokens
        /\ pc = "decode" => step < options.max_new_tokens
        /\ pc = "redecode" => step = options.max_new_tokens /\ options.dump
    BY <1>1, RunFacts DEF GenerateInv, SessionFollows
  <1>3. /\ prefix # <<>> /\ prefix \in Seq(Known) /\ prefix \o <<next>> = tokens
        /\ next \in Known /\ Len(tokens) = Len(prefix) + 1
    <2>1. Greedy(LogitsOf(prefix)) \in Known
      BY <1>1, SessionFacts, KnownList
    <2> QED BY <1>1, <2>1, SessionFacts
  <1>4. /\ Len(prefix) + 1 <= Required(options)
        /\ pc = "redecode" => Len(prefix) + 1 = Required(options)
    <2>1. /\ Len(options.tokens) \in Nat /\ options.max_new_tokens \in Nat /\ step \in Nat
          /\ Len(prefix) + 1 = Len(options.tokens) + step
      BY <1>1, <1>3, RunFacts
    <2>2. options.max_new_tokens # 0
      BY <1>2, <2>1
    <2>3. Required(options) = Len(options.tokens) + (options.max_new_tokens - 1)
                                + (IF options.dump THEN 1 ELSE 0)
      BY <1>1, <2>2, SessionFacts
    <2>4. CASE pc = "decode"
      BY <1>2, <2>1, <2>3, <2>4
    <2>5. CASE pc = "redecode"
      BY <1>2, <2>1, <2>3, <2>5
    <2> QED BY <1>1, <2>4, <2>5
  <1>5. Len(prefix) < room
    <2>1. Required(options) <= room /\ room \in Nat /\ Len(prefix) \in Nat
      BY <1>1, SessionFacts, RunFacts
    <2>2. Required(options) \in Nat
      <3>1. options \in CommandLines /\ ~BadOptions(options)
        BY <1>1, RunFacts
      <3> QED BY <3>1, OptionFacts
    <2> QED BY <1>4, <2>1, <2>2
  <1>6. CASE DecodeRefused(next) /\ Throw(ended')
    BY <1>3, <1>5, <1>6 DEF DecodeRefused
  <1>7. CASE WorkerFails
    BY <1>1, <1>7, WorkerStep
  <1>8. CASE /\ Decoded(next) /\ logits' = answer'
             /\ pc' = (IF pc = "decode" THEN "emit" ELSE "dump")
             /\ UNCHANGED <<tokens, step, dumped, failure>>
    <2>1. prefix' = tokens /\ logits' = LogitsOf(tokens) /\ room' = room
      BY <1>3, <1>8 DEF Decoded, Consumed
    <2>2. room' \in 0..Context /\ prefix' \in Seq(Ids) /\ Len(prefix') <= room'
      BY <1>1, <1>3, <1>5, <2>1, RunFacts
    <2>3. pc' \in {"emit", "dump"}
      BY <1>8
    <2>4. GenerateTypeOK' /\ OutputSoFar'
      BY <1>1, <1>8, <2>2, <2>3, SameTokens
    <2>5. /\ pc' = "emit" => ~Pending'
          /\ Required(options') = Required(options)
      <3>1. pc' = "emit" => pc = "decode"
        BY <1>1, <1>8
      <3>2. pc' = "emit" => step' # options'.max_new_tokens
        BY <1>1, <1>2, <1>8, <3>1, RunFacts
      <3> QED BY <1>1, <3>2 DEF Pending
    <2>6. tokens \in Seq(Known) /\ prefix' # <<>> /\ options.mode = "cached"
          /\ Required(options) <= room
      BY <1>1, <1>3, <2>1, SessionFacts
    <2>7. SessionFollows'
      BY <1>1, <1>2, <1>8, <2>1, <2>3, <2>5, <2>6 DEF SessionFollows
    <2>8. ReadyToDump'
      BY <1>1, <1>2, <1>3, <1>4, <1>8, <2>1, <2>3, <2>5, <2>6 DEF ReadyToDump
    <2> QED BY <1>1, <1>8, <2>3, <2>4, <2>7, <2>8, RunFacts, StillRunning
  <1> QED BY <1>6, <1>7, <1>8 DEF DecodeLast

LEMMA DumpStep == GenerateInv /\ Dump => GenerateInv'
  <1> SUFFICES ASSUME GenerateInv, Dump PROVE GenerateInv'
    OBVIOUS
  <1>1. pc = "dump" /\ UNCHANGED <<options, room, prefix>>
    BY DEF Dump, sessionVars
  <1>2. CASE options.dump /\ Throw("runtime_error")
    BY <1>1, <1>2, RunFacts, ThrowStep DEF Failures
  <1>3. CASE /\ dumped' = (IF options.dump THEN logits ELSE None) /\ pc' = "done"
             /\ UNCHANGED <<tokens, step, logits, failure>>
    <2>1. /\ step = options.max_new_tokens
          /\ options.dump =>
                logits = IF options.mode = "full" THEN Row(tokens) ELSE LogitsOf(tokens)
          /\ options.mode = "cached" => Len(prefix) = Required(options)
      BY <1>1 DEF GenerateInv, ReadyToDump
    <2>2. failure' = "none"
      BY <1>1, <1>3, RunFacts
    <2>3. GenerateTypeOK'
      BY <1>1, <1>3 DEF GenerateInv, GenerateTypeOK, CommandLines
    <2>4. OutputIsGreedy'
      BY <1>1, <1>3, <2>1, RunFacts DEF OutputIsGreedy
    <2>5. DumpDescribesOutput'
      <3>1. CASE ~options.dump
        BY <1>1, <1>3, <3>1 DEF DumpDescribesOutput
      <3>2. CASE options.dump /\ options.mode = "full"
        BY <1>1, <1>3, <2>1, <3>2 DEF DumpDescribesOutput
      <3>3. CASE options.dump /\ options.mode = "cached"
        BY <1>1, <1>3, <2>1, <3>3 DEF DumpDescribesOutput
      <3> QED BY <1>1, <3>1, <3>2, <3>3, RunFacts
    <2>6. Required(options') = Required(options)
      BY <1>1
    <2>7. CapacityCheckIsExact'
      BY <1>1, <1>3, <2>1, <2>2, <2>6 DEF CapacityCheckIsExact
    <2>8. OutputSoFar' /\ SessionFollows' /\ ReadyToDump'
      BY <1>3 DEF OutputSoFar, SessionFollows, ReadyToDump
    <2> QED BY <2>3, <2>4, <2>5, <2>7, <2>8 DEF GenerateInv
  <1> QED BY <1>2, <1>3 DEF Dump

LEMMA EndStep == GenerateInv /\ UNCHANGED allVars => GenerateInv'
  <1> SUFFICES ASSUME GenerateInv, UNCHANGED allVars PROVE GenerateInv'
    OBVIOUS
  <1>1. UNCHANGED <<pc, options, tokens, step, logits, dumped, failure, room, prefix>>
    BY DEF allVars, mainVars, sessionVars
  <1>2. GenerateTypeOK' /\ OutputSoFar'
    BY <1>1 DEF GenerateInv, GenerateTypeOK, OutputSoFar, CommandLines, BadOptions,
       ExceedsContext
  <1>3. Required(options') = Required(options) /\ Pending' = Pending
    BY <1>1 DEF Pending
  <1>4. SessionFollows' /\ ReadyToDump'
    BY <1>1, <1>3 DEF GenerateInv, SessionFollows, ReadyToDump
  <1>5. OutputIsGreedy' /\ DumpDescribesOutput' /\ CapacityCheckIsExact'
    BY <1>1, <1>3 DEF GenerateInv, OutputIsGreedy, DumpDescribesOutput, CapacityCheckIsExact,
       Succeeded
  <1> QED BY <1>2, <1>4, <1>5 DEF GenerateInv

\* At every moment of a run the tokens printed are the greedy continuation of
\* the prompt, and in cached mode the session has consumed all of them but at
\* most the last.
THEOREM GenerateInductive == GenerateSpec => []GenerateInv
  <1>1. GenerateInit => GenerateInv
    BY InitGenerate
  <1>2. GenerateInv /\ [GenerateNext]_allVars => GenerateInv'
    BY MainStep, FullSteps, OpenStep, PrefillStep, EmitStep, LoopEndStep, DecodeStep,
       DumpStep, EndStep DEF GenerateNext, Exited
  <1> QED BY <1>1, <1>2, PTL DEF GenerateSpec

\* Both modes print the prompt and max_new_tokens greedy tokens.
THEOREM BothModesAreGreedy == GenerateSpec => []OutputIsGreedy
  <1>1. GenerateInv => OutputIsGreedy
    BY DEF GenerateInv
  <1> QED BY <1>1, GenerateInductive, PTL

\* "The dump describes the complete output sequence."
THEOREM DumpIsComplete == GenerateSpec => []DumpDescribesOutput
  <1>1. GenerateInv => DumpDescribesOutput
    BY DEF GenerateInv
  <1> QED BY <1>1, GenerateInductive, PTL

\* No command line that passes main()'s and generate_cached's checks is refused
\* later, and the capacity they require is what the run consumes.
THEOREM CapacityIsExact == GenerateSpec => []CapacityCheckIsExact
  <1>1. GenerateInv => CapacityCheckIsExact
    BY DEF GenerateInv
  <1> QED BY <1>1, GenerateInductive, PTL
=============================================================================
