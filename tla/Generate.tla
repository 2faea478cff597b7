------------------------------ MODULE Generate ------------------------------
(***************************************************************************)
(* One run of app/gpt2_generate.cpp: greedy generation by recomputing the  *)
(* whole prefix or by an incremental session.                              *)
(***************************************************************************)
EXTENDS GreedyDecoding

CONSTANT MaxNew   \* largest --max-new-tokens of a user (input bound)

ASSUME GenerateAssumption == MaxNew \in Nat

VARIABLES
    pc,       \* "start", "full", "session", "prefill", "emit", "decode",
              \* "redecode", "dump", "done"
    options,  \* the command line as parse_options stores it
    tokens,   \* options.tokens, which generation extends
    step,     \* the loop counter
    logits,   \* what the view in the local logits shows
    dumped,   \* what the logits file holds, or None when it was not written
    failure   \* the exception main() catches, "none" on exit status 0

mainVars == <<pc, options, tokens, step, logits, dumped, failure>>
allVars == <<mainVars, sessionVars>>

\* The command lines whose single options parse_tokens, parse_size and
\* parse_mode accept; checkpoint says whether there is one, and no tokens stand
\* for an option that is left out.
CommandLines ==
    [checkpoint : BOOLEAN, tokens : PromptSet \cup {<<>>}, max_new_tokens : 0..MaxNew, greedy : BOOLEAN,
     dump : BOOLEAN, mode : {"full", "cached"}, threads : 0..2,
     capacity : 0 .. (Context + 1) \cup {None}]

\* The combinations parse_options rejects.
BadOptions(o) ==
    \/ ~o.checkpoint \/ o.tokens = <<>>
    \/ ~o.greedy /\ o.max_new_tokens # 0
    \/ o.mode = "full" /\ o.capacity # None
    \/ o.threads = 0
    \/ o.mode = "full" /\ o.threads # 1

\* Mutant: only the prompt is compared with the context.
PromptExceedsContext(o) == Len(o.tokens) > Context

\* main(): prompt and output do not fit the context.
ExceedsContext(o) ==
    \/ Len(o.tokens) > Context
    \/ o.max_new_tokens > Context - Len(o.tokens)

\* generate_cached: the session's capacity and the tokens it will consume.
SessionCapacity(o) == IF o.capacity = None THEN Context ELSE o.capacity

\* Mutant: the decode for the dump is not counted.
RequiredWithoutDump(o) ==
    Len(o.tokens) + IF o.max_new_tokens = 0 THEN 0 ELSE o.max_new_tokens - 1

Required(o) ==
    LET generated_decode_count == IF o.max_new_tokens = 0 THEN 0 ELSE o.max_new_tokens - 1
        dump_decode_count      == IF o.dump /\ o.max_new_tokens # 0 THEN 1 ELSE 0
    IN  Len(o.tokens) + generated_decode_count + dump_decode_count

GenerateInit ==
    /\ pc = "start" /\ options = None /\ tokens = <<>> /\ step = 0
    /\ logits = None /\ dumped = None /\ failure = "none"
    /\ room = 0 /\ Start

-----------------------------------------------------------------------------
\* An exception reaches main(), which exits with status 1.
Throw(kind) ==
    /\ failure' = kind
    /\ pc' = "done"
    /\ UNCHANGED <<tokens, step, logits, dumped>>

\* parse_options, load_checkpoint and main()'s own check.  Memory may be short
\* from the parsing of the token list on.
Main ==
    /\ pc = "start"
    /\ options' \in CommandLines
    /\ UNCHANGED sessionVars
    /\ \/ Throw("bad_alloc")
       \/ BadOptions(options') /\ Throw("invalid_argument")
       \/ ~BadOptions(options') /\ Throw("load_error")
       \/ /\ ~BadOptions(options') /\ ExceedsContext(options')
          /\ Throw("invalid_argument")
       \/ /\ ~BadOptions(options') /\ ~ExceedsContext(options')
          /\ tokens' = options'.tokens
          /\ pc' = IF options'.mode = "full" THEN "full" ELSE "session"
          /\ UNCHANGED <<step, logits, dumped, failure>>

\* options.tokens.push_back(next), and the end of an iteration.
Emit(row) ==
    /\ tokens' = Append(tokens, Greedy(row))
    /\ step' = step + 1

-----------------------------------------------------------------------------
(* generate_full.                                                          *)

\* forward's argument checks, or no memory for the workspace or for the token.
ForwardFails ==
    \/ ~ForwardAccepts(tokens) /\ Throw("invalid_argument")
    \/ Throw("bad_alloc")

\* One iteration: a forward pass over the whole prefix and its greedy token.
FullStep ==
    /\ pc = "full"
    /\ step < options.max_new_tokens
    /\ UNCHANGED <<options, sessionVars>>
    /\ \/ ForwardFails
       \/ /\ ForwardAccepts(tokens)
          /\ logits' = Row(tokens)
          /\ Emit(Real(Row(tokens)))
          /\ UNCHANGED <<pc, dumped, failure>>

\* The last forward pass, over the complete output, if anything needs it.
FullEnd ==
    /\ pc = "full"
    /\ step = options.max_new_tokens
    /\ UNCHANGED <<options, sessionVars>>
    /\ IF options.max_new_tokens = 0 \/ options.dump
       THEN \/ ForwardFails
            \/ /\ ForwardAccepts(tokens)
               /\ logits' = Row(tokens)
               /\ pc' = "dump"
               /\ UNCHANGED <<tokens, step, dumped, failure>>
       ELSE pc' = "dump" /\ UNCHANGED <<tokens, step, logits, dumped, failure>>

-----------------------------------------------------------------------------
(* generate_cached.                                                        *)

\* The capacity check, the session's constructor with a check of its own, and
\* the executor, whose threads may not start.
OpenSession ==
    /\ pc = "session"
    /\ UNCHANGED <<options, prefix, answer, ended>>
    /\ LET capacity == SessionCapacity(options)
           accepted == Required(options) <= capacity /\ capacity \in 1..Context
       IN  \/ ~accepted /\ Throw("invalid_argument") /\ UNCHANGED room
           \/ accepted /\ Throw("bad_alloc") /\ UNCHANGED room
           \/ /\ accepted /\ options.threads # 1
              /\ room' = capacity
              /\ Throw("system_error")
           \/ /\ accepted
              /\ room' = capacity
              /\ pc' = "prefill"
              /\ UNCHANGED <<tokens, step, logits, dumped, failure>>

\* A worker's exception needs an executor.
WorkerFails ==
    /\ options.threads # 1
    /\ Failed
    /\ Throw("worker_error")

Prefill ==
    /\ pc = "prefill"
    /\ UNCHANGED options
    /\ \/ /\ Prefilled(tokens)
          /\ logits' = answer'
          /\ pc' = "emit"
          /\ UNCHANGED <<tokens, step, dumped, failure>>
       \/ PrefillRefused(tokens) /\ Throw(ended')
       \/ WorkerFails

\* Mutant: tokens are emitted without decoding the one before.
EmitWithoutDecoding ==
    /\ pc = "emit"
    /\ step < options.max_new_tokens
    /\ Emit(logits)
    /\ UNCHANGED <<pc, options, logits, dumped, failure, sessionVars>>

\* The top of the loop: emit a token, then decode it unless it is the last.
EmitToken ==
    /\ pc = "emit"
    /\ step < options.max_new_tokens
    /\ UNCHANGED <<options, sessionVars>>
    /\ \/ Throw("bad_alloc")
       \/ /\ Emit(logits)
          /\ pc' = IF step + 1 < options.max_new_tokens THEN "decode" ELSE "emit"
          /\ UNCHANGED <<logits, dumped, failure>>

\* Mutant: the dump is taken from the last view, before the final token.
EndLoopWithoutDecode ==
    /\ pc = "emit"
    /\ step = options.max_new_tokens
    /\ pc' = "dump"
    /\ UNCHANGED <<options, tokens, step, logits, dumped, failure, sessionVars>>

\* After the loop: the dump describes the complete output.
EndLoop ==
    /\ pc = "emit"
    /\ step = options.max_new_tokens
    /\ pc' = IF options.dump /\ options.max_new_tokens # 0 THEN "redecode" ELSE "dump"
    /\ UNCHANGED <<options, tokens, step, logits, dumped, failure, sessionVars>>

\* session.decode of the token emitted last, in the loop or for the dump.
DecodeLast ==
    LET next == tokens[Len(tokens)]
    IN  /\ pc \in {"decode", "redecode"}
        /\ UNCHANGED options
        /\ \/ /\ Decoded(next)
              /\ logits' = answer'
              /\ pc' = IF pc = "decode" THEN "emit" ELSE "dump"
              /\ UNCHANGED <<tokens, step, dumped, failure>>
           \/ DecodeRefused(next) /\ Throw(ended')
           \/ WorkerFails

-----------------------------------------------------------------------------
\* dump_binary, which may fail to open or write the file, and exit.
Dump ==
    /\ pc = "dump"
    /\ UNCHANGED <<options, sessionVars>>
    /\ \/ options.dump /\ Throw("runtime_error")
       \/ /\ dumped' = IF options.dump THEN logits ELSE None
          /\ pc' = "done"
          /\ UNCHANGED <<tokens, step, logits, failure>>

\* The process has ended; nothing else may stop it.
Exited ==
    /\ pc = "done"
    /\ UNCHANGED allVars

GenerateNext ==
    \/ Main
    \/ FullStep \/ FullEnd
    \/ OpenSession \/ Prefill \/ EmitToken \/ EndLoop \/ DecodeLast
    \/ Dump \/ Exited

GenerateSpec == GenerateInit /\ [][GenerateNext]_allVars

-----------------------------------------------------------------------------
Succeeded == pc = "done" /\ failure = "none"

GenerateTypeOK ==
    /\ pc \in {"start", "full", "session", "prefill", "emit", "decode", "redecode",
               "dump", "done"}
    /\ pc # "start" => options \in CommandLines
    /\ tokens \in Seq(Ids) /\ Len(tokens) <= Context
    /\ step \in 0..MaxNew
    /\ room \in 0..Context
    /\ prefix \in Seq(Ids) /\ Len(prefix) <= room
    /\ failure \in {"none", "invalid_argument", "load_error", "bad_alloc",
                    "system_error", "worker_error", "runtime_error"}

\* Both modes print the same thing: the prompt, then max_new_tokens tokens each
\* of which is the greedy choice after everything before it.  In cached mode
\* each choice is made from the view of the previous call.
OutputIsGreedy ==
    Succeeded => GreedyContinuation(tokens, options.tokens, options.max_new_tokens)

\* "The dump describes the complete output sequence": the file, if requested,
\* holds the logits after the last printed token, padded in full mode only.
DumpDescribesOutput ==
    Succeeded =>
        dumped = IF ~options.dump THEN None
                 ELSE IF options.mode = "full" THEN Row(tokens) ELSE LogitsOf(tokens)

\* A command line is refused before the first token: neither forward nor the
\* session refuses a call half way through the output.  generate_cached checks
\* the capacity for exactly what it will consume; no smaller one would do.
CapacityCheckIsExact ==
    /\ failure \notin {"length_error", "logic_error"}
    /\ failure = "invalid_argument" => step = 0 /\ dumped = None
    /\ Succeeded /\ options.mode = "cached" => Len(prefix) = Required(options)

-----------------------------------------------------------------------------
(* The inductive invariant.                                                *)

\* Between parse_options and exit: a command line that main() has accepted,
\* and the tokens printed so far.  After the first one every token is known.
OutputSoFar ==
    /\ pc = "start" => /\ tokens = <<>> /\ step = 0 /\ dumped = None
                       /\ failure = "none" /\ prefix = <<>>
    /\ pc \notin {"start", "done"} =>
         /\ ~BadOptions(options) /\ ~ExceedsContext(options)
         /\ step <= options.max_new_tokens
         /\ GreedyContinuation(tokens, options.tokens, step)
         /\ step # 0 => tokens \in Seq(Known)
         /\ failure = "none" /\ dumped = None

\* The token emitted last has not been decoded.
Pending ==
    \/ pc \in {"decode", "redecode"}
    \/ pc = "emit" /\ step = options.max_new_tokens /\ step # 0

\* generate_cached: what the session has consumed, what the view shows, and
\* how much of the capacity is left.
SessionFollows ==
    /\ pc = "full" => options.mode = "full"
    /\ pc \in {"session", "prefill", "emit", "decode", "redecode"} =>
          options.mode = "cached"
    /\ pc \in {"session", "prefill"} => step = 0 /\ prefix = <<>>
    /\ pc \in {"prefill", "emit", "decode", "redecode"} => Required(options) <= room
    /\ pc \in {"emit", "decode", "redecode"} =>
         /\ tokens \in Seq(Known) /\ prefix # <<>>
         /\ IF Pending THEN tokens = Append(prefix, Greedy(LogitsOf(prefix)))
                       ELSE tokens = prefix
    /\ pc = "emit" => logits = LogitsOf(prefix)
    /\ pc = "decode" => 0 < step /\ step < options.max_new_tokens
    /\ pc = "redecode" => 0 < step /\ step = options.max_new_tokens /\ options.dump

\* All tokens are printed and the view shows what is to be written.
ReadyToDump ==
    pc = "dump" =>
        /\ step = options.max_new_tokens
        /\ options.dump =>
              logits = IF options.mode = "full" THEN Row(tokens) ELSE LogitsOf(tokens)
        /\ options.mode = "cached" => Len(prefix) = Required(options)

GenerateInv ==
    /\ GenerateTypeOK
    /\ OutputSoFar /\ SessionFollows /\ ReadyToDump
    /\ OutputIsGreedy /\ DumpDescribesOutput /\ CapacityCheckIsExact
=============================================================================
