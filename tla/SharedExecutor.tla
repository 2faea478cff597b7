--------------------------- MODULE SharedExecutor ---------------------------
(***************************************************************************)
(* A session that hands its linear operations to a LinearExecutor which    *)
(* other threads call at the same time, e.g. for sessions of their own.    *)
(* consume_token runs in the session's thread; executor->linear() is a     *)
(* call of LinearService, queued, served and resumed between the others'.  *)
(* The variables of InferenceSession show, as there, the vectors before    *)
(* and after such a call; memory shows the ones the executor writes at     *)
(* every moment.  The layer norm before a projection and gelu_in_place     *)
(* after it are part of the projection's row.                              *)
(***************************************************************************)
EXTENDS InferenceSession

CONSTANTS
    Session,         \* the thread that calls prefill and decode
    Others,          \* the other threads
    OtherCalls,      \* the calls of linear() they make
    ChannelCount,    \* config.channels
    VocabularySize,  \* config.vocabulary_size
    Longest          \* bounds the lengths of all vectors

SessionVectors == {"qkv", "projected", "mlp_hidden", "logits"}

\* The session's vectors are private members: nobody else passes them.
ASSUME SharedAssumption ==
    /\ Session \notin Others
    /\ ChannelCount \in Nat /\ VocabularySize \in Nat /\ Longest \in Nat
    /\ 4 * ChannelCount <= Longest /\ VocabularySize <= Longest
    /\ \A r \in OtherCalls : /\ r.output \notin SessionVectors
                             /\ r.width \in 0..Longest

Threads == {Session} \cup Others
Vectors == SessionVectors \cup {r.output : r \in OtherCalls}
Places == 0 .. (Longest - 1)
NoCall == [op |-> "none"]

VARIABLES phase, call, fault, memory   \* of LinearService

executorVars == <<phase, call, fault, memory>>
sharedVars == <<vars, executorVars>>

-----------------------------------------------------------------------------
(* The calls.                                                              *)

\* How long the constructor made the session's vectors.
VectorLength ==
    [qkv |-> 3 * ChannelCount, projected |-> ChannelCount,
     mlp_hidden |-> 4 * ChannelCount, logits |-> VocabularySize]

\* Which of them a linear operation writes, and its output_count.
OutputVector ==
    [qkv |-> "qkv", attproj |-> "projected", fc |-> "mlp_hidden",
     fcproj |-> "projected", logits |-> "logits"]
OutputCount ==
    [qkv |-> 3 * ChannelCount, attproj |-> ChannelCount, fc |-> 4 * ChannelCount,
     fcproj |-> ChannelCount, logits |-> VocabularySize]

\* Mutant: the second MLP projection reads the residual row.
OperandOfResidual == IF pc = "attproj" THEN attention_output ELSE residual

\* The row the operation reads, directly or through a layer norm.
Operand ==
    IF pc = "attproj" THEN attention_output
    ELSE IF pc = "fcproj" THEN mlp_hidden
    ELSE residual

\* The call of linear() for the current operation.
Operation ==
    [op |-> pc, layer |-> layer, row |-> Operand, output |-> OutputVector[pc],
     size |-> VectorLength[OutputVector[pc]], width |-> OutputCount[pc]]

\* The row a call computes.
RowOf(r) ==
    CASE r.op = "qkv"     -> <<Query(r.layer, r.row), KV(r.layer, r.row)>>
      [] r.op = "attproj" -> AttProj(r.layer, r.row)
      [] r.op = "fc"      -> Fc(r.layer, r.row)
      [] r.op = "fcproj"  -> FcProj(r.layer, r.row)
      [] r.op = "logits"  -> Unembed(r.row)

Sized(r) == r.size = r.width
WidthOf(r) == r.width
ChannelOf(r, c) == [of |-> RowOf(r), channel |-> c]

\* The session's own calls are the values of Operation.
Executor == INSTANCE LinearService WITH
    Callers <- Threads, Calls <- OtherCalls, Positions <- Places,
    Valid <- Sized, Width <- WidthOf, Result <- ChannelOf

\* The vector holds the whole row of the call.
Holds(r) == \A c \in 0 .. (r.width - 1) : memory[r.output][c] = ChannelOf(r, c)

-----------------------------------------------------------------------------
SharedInit == Init /\ Executor!ServiceInit

\* What the session does between its linear operations.
SessionAlone ==
    /\ \/ \E prompt \in Prompts : RejectPrefill(prompt) \/ Prefill(prompt)
       \/ \E token \in TokenIds : RejectDecode(token) \/ Decode(token)
       \/ Reset \/ NextPosition \/ Publish
    /\ UNCHANGED executorVars

CallLinear ==
    /\ pc \in LinearOps
    /\ Executor!Ask(Session, Operation)
    /\ UNCHANGED vars

\* consume_token goes on with what it finds in the output vector.
GoOn ==
    LET r == call[Session]
        row == IF Holds(r) THEN RowOf(r) ELSE <<Torn, Torn>>
    IN  \/ AfterQkv(row[1], row[2]) \/ AfterAttProj(row) \/ AfterFc(row)
        \/ AfterFcProj(row) \/ AfterLogits(row)

\* Mutant: the session does not notice that linear() threw.
LinearReturnsAnyway == Executor!Resume(Session) /\ GoOn

LinearReturns ==
    /\ Executor!Resume(Session)
    /\ fault[Session] = NoCall
    /\ GoOn

\* Mutant: prefill and decode catch the exception, publish and return the view.
LinearErrorSwallowed ==
    /\ Executor!Resume(Session)
    /\ fault[Session] # NoCall
    /\ Leave
    /\ outcome' = "ok"
    /\ size' = size + Len(tokens)
    /\ history' = history \o tokens
    /\ UNCHANGED <<cache, scratch, op>>

LinearRethrows ==
    /\ Executor!Resume(Session)
    /\ fault[Session] # NoCall
    /\ LinearThrows

\* memory with the first channels of the call's output replaced.
Written(r, row) ==
    [memory EXCEPT ![r.output] =
        [c \in Places |-> IF c < r.width THEN row[c] ELSE @[c]]]

\* The executor serves a call.  Until it succeeds, and when it fails, what the
\* output holds is unspecified: Torn.
ExecutorServes(p) ==
    /\ phase[p] \in {"queued", "served"}
    /\ \/ /\ memory' = Written(call[p], [c \in Places |-> Torn])
          /\ Executor!Serve(p)
       \/ /\ memory' = Written(call[p], [c \in Places |-> ChannelOf(call[p], c)])
          /\ Executor!Succeed(p)
       \/ /\ UNCHANGED memory
          /\ Executor!Fail(p)
    /\ UNCHANGED vars

OtherCaller(q) ==
    /\ \/ \E r \in OtherCalls : Executor!Refuse(q, r) \/ Executor!Ask(q, r)
       \/ Executor!Resume(q)
    /\ UNCHANGED vars

SharedNext ==
    \/ SessionAlone \/ CallLinear \/ LinearReturns \/ LinearRethrows
    \/ \E p \in Threads : ExecutorServes(p)
    \/ \E q \in Others : OtherCaller(q)

SharedSpec == SharedInit /\ [][SharedNext]_sharedVars

-----------------------------------------------------------------------------
(* Properties.                                                             *)

\* MILESTONE3_DESIGN.md: the executor "serializes simultaneous submissions".
\* The session behaves as if it had the executor to itself: whatever the others
\* ask, and whenever they are served, its steps are those of InferenceSession,
\* an error being one of its own calls'.
SharingIsTransparent == Init /\ [][Next]_vars

\* The view that a successful prefill or decode returned shows the logits of
\* the whole history, in every channel, until this session's next call: no
\* call of another thread disturbs it.
ViewStaysValid ==
    pc = "idle" /\ outcome = "ok" =>
        \A c \in 0 .. (VocabularySize - 1) :
            memory["logits"][c] = [of |-> Logits(history), channel |-> c]

\* The logits vector holds what the session takes for the answer.
LogitsHeld ==
    \A c \in 0 .. (VocabularySize - 1) :
        memory["logits"][c] = [of |-> logits, channel |-> c]

\* The call in progress is the one of the current operation, no error of
\* another reaches it, and once it succeeded its row stays in its vector.
SharedInv ==
    /\ phase \in [Threads -> {"idle", "queued", "served", "done"}]
    /\ DOMAIN call = Threads /\ DOMAIN fault = Threads
    /\ \A q \in Others : phase[q] # "idle" => call[q] \in OtherCalls
    /\ phase[Session] # "idle" => pc \in LinearOps /\ call[Session] = Operation
    /\ phase[Session] \in {"queued", "served"} => fault[Session] = NoCall
    /\ phase[Session] = "done" =>
          IF fault[Session] = NoCall THEN Holds(Operation)
          ELSE fault[Session] = Operation
    /\ pc = "consumed" \/ (pc = "idle" /\ outcome = "ok") => LogitsHeld
=============================================================================
