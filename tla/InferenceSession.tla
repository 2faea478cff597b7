-------------------------- MODULE InferenceSession --------------------------
(***************************************************************************)
(* src/session.cpp: the incremental session and its K/V cache.  A call is  *)
(* split at its linear operations, the only statements of consume_token    *)
(* that can fail once the arguments are accepted: executor->linear()       *)
(* rethrows what a shard threw, with its output half written.              *)
(***************************************************************************)
EXTENDS Transformer

CONSTANTS
    Capacity,    \* cache_.capacity()
    TokenIds,    \* IDs a caller passes, the invalid ones included
    MaxPrompt,   \* longest prompt a caller passes (bounds the inputs only)
    Torn         \* contents of a partly written or never written buffer

ASSUME SessionAssumption ==
    /\ Capacity \in 1..MaxPrefix
    /\ Vocabulary \subseteq TokenIds
    /\ MaxPrompt \in Nat

Positions == 0 .. (Capacity - 1)

VARIABLES
    size,      \* size_
    cache,     \* keys_ and values_, by layer and position
    residual, attention_output, mlp_hidden,  \* the scratch rows that
               \* outlive a step; qkv_, normalized_ and projected_ do not
    logits,    \* logits_
    pc,        \* "idle", or the linear operation to execute next
    op,        \* the call in progress: "prefill" or "decode"
    tokens,    \* its argument
    position, layer,  \* consume_token's position and its loop counter
    outcome,   \* how the last call ended
    history    \* history variable: the tokens the session has consumed

\* The values of pc at which a linear operation is executed.
LinearOps == {"qkv", "attproj", "fc", "fcproj", "logits"}

scratch == <<residual, attention_output, mlp_hidden, logits>>
vars == <<size, cache, scratch, pc, op, tokens, position, layer, outcome, history>>

\* validate_token
ValidToken(t) == t \in Vocabulary

\* The arguments of prefill and the checks it makes before any work.
Prompts == UNION {[1..n -> TokenIds] : n \in 0..MaxPrompt}

PrefillError(prompt) ==
    IF size # 0 THEN "logic_error"
    ELSE IF prompt = <<>> THEN "invalid_argument"
    ELSE IF Len(prompt) > Capacity THEN "length_error"
    ELSE IF \E i \in DOMAIN prompt : ~ValidToken(prompt[i]) THEN "invalid_argument"
    ELSE "none"

DecodeError(token) ==
    IF size = 0 THEN "logic_error"
    ELSE IF ~ValidToken(token) THEN "invalid_argument"
    ELSE IF size = Capacity THEN "length_error"
    ELSE "none"

Init ==
    /\ size = 0
    /\ cache = [l \in Layers |-> [p \in Positions |-> Torn]]
    /\ residual = Torn /\ attention_output = Torn /\ mlp_hidden = Torn
    /\ logits = Torn
    /\ pc = "idle" /\ op = "prefill" /\ tokens = <<>>
    /\ position = 0 /\ layer = 0
    /\ outcome = "none"
    /\ history = <<>>

-----------------------------------------------------------------------------
\* The locals of prefill, decode and consume_token go out of scope.
Leave ==
    /\ pc' = "idle"
    /\ tokens' = <<>> /\ position' = 0 /\ layer' = 0

\* consume_token starts: add the embeddings and enter the layer loop.
Consume(token, at) ==
    /\ residual' = Embed(token, at)
    /\ position' = at
    /\ layer' = 0
    /\ pc' = "qkv"

RejectPrefill(prompt) ==
    /\ pc = "idle"
    /\ PrefillError(prompt) # "none"
    /\ outcome' = PrefillError(prompt)
    /\ UNCHANGED <<size, cache, scratch, pc, op, tokens, position, layer, history>>

Prefill(prompt) ==
    /\ pc = "idle"
    /\ PrefillError(prompt) = "none"
    /\ op' = "prefill"
    /\ tokens' = prompt
    /\ Consume(prompt[1], 0)
    /\ UNCHANGED <<size, cache, attention_output, mlp_hidden, logits, outcome, history>>

RejectDecode(token) ==
    /\ pc = "idle"
    /\ DecodeError(token) # "none"
    /\ outcome' = DecodeError(token)
    /\ UNCHANGED <<size, cache, scratch, pc, op, tokens, position, layer, history>>

\* Mutant: decode overwrites the last position instead of appending.
DecodeAtLastPosition(token) ==
    /\ pc = "idle"
    /\ DecodeError(token) = "none"
    /\ op' = "decode"
    /\ tokens' = <<token>>
    /\ Consume(token, size - 1)
    /\ UNCHANGED <<size, cache, attention_output, mlp_hidden, logits, outcome, history>>

Decode(token) ==
    /\ pc = "idle"
    /\ DecodeError(token) = "none"
    /\ op' = "decode"
    /\ tokens' = <<token>>
    /\ Consume(token, size)
    /\ UNCHANGED <<size, cache, attention_output, mlp_hidden, logits, outcome, history>>

Reset ==
    /\ pc = "idle"
    /\ size' = 0
    /\ history' = <<>>
    /\ outcome' = "none"
    /\ UNCHANGED <<cache, scratch, pc, op, tokens, position, layer>>

-----------------------------------------------------------------------------
\* Mutant: attention reads the unpublished slots as well.
WholeLayerKVs(contents, l, visible) == [j \in 1..Capacity |-> contents[l][j - 1]]

\* What cached_self_attention reads: the first position + 1 slots of the layer.
CachedKVs(contents, l, visible) == [j \in 1..visible |-> contents[l][j - 1]]

\* What consume_token does with the row that a linear operation returned.
\* Mutant: every layer stores its pairs at layer 0.
AfterQkvOneLayer(query, kv) ==
    /\ pc = "qkv"
    /\ cache' = [cache EXCEPT ![0][position] = kv]
    /\ attention_output' = Attention(query, CachedKVs(cache', layer, position + 1))
    /\ pc' = "attproj"
    /\ UNCHANGED <<size, residual, mlp_hidden, logits, op, tokens, position, layer,
                   outcome, history>>

\* Store the pair, and attend over the slots up to and including it.
AfterQkv(query, kv) ==
    /\ pc = "qkv"
    /\ cache' = [cache EXCEPT ![layer][position] = kv]
    /\ attention_output' = Attention(query, CachedKVs(cache', layer, position + 1))
    /\ pc' = "attproj"
    /\ UNCHANGED <<size, residual, mlp_hidden, logits, op, tokens, position, layer,
                   outcome, history>>

\* The first residual addition.
AfterAttProj(row) ==
    /\ pc = "attproj"
    /\ residual' = Add(residual, row)
    /\ pc' = "fc"
    /\ UNCHANGED <<size, cache, attention_output, mlp_hidden, logits, op, tokens,
                   position, layer, outcome, history>>

AfterFc(row) ==
    /\ pc = "fc"
    /\ mlp_hidden' = row
    /\ pc' = "fcproj"
    /\ UNCHANGED <<size, cache, residual, attention_output, logits, op, tokens,
                   position, layer, outcome, history>>

\* The second residual addition, and the next layer.
AfterFcProj(row) ==
    /\ pc = "fcproj"
    /\ residual' = Add(residual, row)
    /\ layer' = layer + 1
    /\ pc' = IF layer + 1 < NumLayers THEN "qkv" ELSE "logits"
    /\ UNCHANGED <<size, cache, attention_output, mlp_hidden, logits, op, tokens,
                   position, outcome, history>>

AfterLogits(row) ==
    /\ pc = "logits"
    /\ logits' = row
    /\ pc' = "consumed"
    /\ UNCHANGED <<size, cache, residual, attention_output, mlp_hidden, op, tokens,
                   position, layer, outcome, history>>

\* The five linear operations of consume_token: a layer norm, if there is one
\* before it, the projection and gelu_in_place after the third.
QkvLinear     == AfterQkv(Query(layer, residual), KV(layer, residual))
AttProjLinear == AfterAttProj(AttProj(layer, attention_output))
FcLinear      == AfterFc(Fc(layer, residual))
FcProjLinear  == AfterFcProj(FcProj(layer, mlp_hidden))
LogitsLinear  == AfterLogits(Unembed(residual))

\* Mutant: prefill publishes every position as soon as it is consumed.
NextPositionPublishing ==
    /\ pc = "consumed"
    /\ op = "prefill"
    /\ position + 1 < Len(tokens)
    /\ Consume(tokens[position + 2], position + 1)
    /\ size' = position + 1
    /\ UNCHANGED <<cache, attention_output, mlp_hidden, logits, op, tokens,
                   outcome, history>>

\* Mutant: the prompt position is not advanced.
NextPositionStuck ==
    /\ pc = "consumed"
    /\ op = "prefill"
    /\ position + 1 < Len(tokens)
    /\ Consume(tokens[position + 1], position)
    /\ UNCHANGED <<size, cache, attention_output, mlp_hidden, logits, op, tokens,
                   outcome, history>>

\* prefill's loop goes on to the next prompt position.
NextPosition ==
    /\ pc = "consumed"
    /\ op = "prefill"
    /\ position + 1 < Len(tokens)
    /\ Consume(tokens[position + 2], position + 1)
    /\ UNCHANGED <<size, cache, attention_output, mlp_hidden, logits, op, tokens,
                   outcome, history>>

\* Mutant: decode does not advance size_.
PublishSameSize ==
    /\ pc = "consumed"
    /\ \/ op = "prefill" /\ position + 1 = Len(tokens) /\ size' = Len(tokens)
       \/ op = "decode" /\ size' = position
    /\ history' = history \o tokens
    /\ outcome' = "ok"
    /\ Leave
    /\ UNCHANGED <<cache, scratch, op>>

\* The whole operation succeeded: publish the new size and return logits_.
Publish ==
    /\ pc = "consumed"
    /\ \/ op = "prefill" /\ position + 1 = Len(tokens) /\ size' = Len(tokens)
       \/ op = "decode" /\ size' = position + 1
    /\ history' = history \o tokens
    /\ outcome' = "ok"
    /\ Leave
    /\ UNCHANGED <<cache, scratch, op>>

\* A shard of the current linear operation threw: the exception leaves
\* consume_token, prefill or decode at once; the operation's output is torn.
LinearThrows ==
    /\ pc \in LinearOps
    /\ mlp_hidden' = IF pc = "fc" THEN Torn ELSE mlp_hidden
    /\ logits' = IF pc = "logits" THEN Torn ELSE logits
    /\ outcome' = "worker_error"
    /\ Leave
    /\ UNCHANGED <<size, cache, residual, attention_output, op, history>>

Step ==
    \/ QkvLinear \/ AttProjLinear \/ FcLinear \/ FcProjLinear \/ LogitsLinear
    \/ NextPosition \/ Publish \/ LinearThrows

Next ==
    \/ \E prompt \in Prompts : RejectPrefill(prompt) \/ Prefill(prompt)
    \/ \E token \in TokenIds : RejectDecode(token) \/ Decode(token)
    \/ Reset
    \/ Step

Spec == Init /\ [][Next]_vars

\* A call that has started keeps executing: it waits for nobody but the
\* executor, whose calls return (LinearExecutor!CallReturns).
FairSpec == Spec /\ WF_vars(Step)

-----------------------------------------------------------------------------
(* Properties.                                                             *)

\* The slots the code addresses exist (KVCache::position_offset and
\* layer_offset never throw out_of_range), and the call in progress fits.
TypeOK ==
    /\ size \in 0..Capacity
    /\ DOMAIN cache = Layers
    /\ \A l \in Layers : DOMAIN cache[l] = Positions
    /\ pc \in {"idle", "qkv", "attproj", "fc", "fcproj", "logits", "consumed"}
    /\ op \in {"prefill", "decode"}
    /\ position \in Positions
    /\ layer \in 0..NumLayers
    /\ pc \in {"qkv", "attproj", "fc", "fcproj"} => layer < NumLayers
    /\ tokens \in Seq(Vocabulary)
    /\ history \in Seq(Vocabulary)
    /\ pc # "idle" =>
         /\ size + Len(tokens) <= Capacity
         /\ position \in size .. (size + Len(tokens) - 1)
         /\ op = "prefill" => size = 0
         /\ op = "decode" => Len(tokens) = 1
    /\ outcome \in {"none", "ok", "logic_error", "invalid_argument",
                    "length_error", "worker_error"}

\* MILESTONE2_DESIGN.md: "Writes left by an unexpected exception are
\* unreachable while size_ remains unchanged and are overwritten by later
\* valid work".  Every slot below size_ holds, in every layer and at every
\* moment, the pair the full forward pass computes for the consumed tokens.
PublishedPrefixIntact ==
    /\ size = Len(history)
    /\ \A l \in Layers, i \in 1..size :
          cache[l][i - 1] = KV(l, Hidden(l, SubSeq(history, 1, i)))

\* The logits a successful prefill or decode returns are those of a full
\* recomputation of everything the session has consumed since its last reset,
\* whatever calls failed in between and whatever older contents the cache has.
LogitsMatchForward ==
    pc = "idle" /\ outcome = "ok" => logits = Logits(history)

\* "size_ changes only after the complete public operation succeeds."
OnlySuccessPublishes ==
    [][size' # size => /\ pc' = "idle"
                       /\ outcome' = "ok" \/ (outcome' = "none" /\ size' = 0)]_vars

\* Every prefill and decode returns or throws.
CallsTerminate == pc # "idle" ~> pc = "idle"

-----------------------------------------------------------------------------
(* The inductive invariant.                                                *)

\* What the session will have consumed if the call in progress succeeds, and
\* the part of it that ends with the token being consumed.
Target == history \o tokens
Working == SubSeq(Target, 1, position + 1)

\* The earlier slots of every layer, and the slot at position in the layers
\* already passed, hold the pairs of the target.
SlotsExact ==
    /\ \A l \in Layers, i \in 1..position :
          cache[l][i - 1] = KV(l, Hidden(l, SubSeq(Target, 1, i)))
    /\ \A l \in Layers : l < layer \/ (l = layer /\ pc # "qkv") =>
          cache[l][position] = KV(l, Hidden(l, Working))

\* The scratch rows hold what the next operation needs of the token being
\* consumed; nothing older is read.
RowsExact ==
    LET x == Hidden(layer, Working)
        y == AfterAttention(layer, x, VisibleKVs(layer, Working))
    IN  /\ pc \in {"qkv", "attproj"} => residual = x
        /\ pc = "attproj" =>
              attention_output = Attention(Query(layer, x), VisibleKVs(layer, Working))
        /\ pc \in {"fc", "fcproj"} => residual = y
        /\ pc = "fcproj" => mlp_hidden = Fc(layer, y)
        /\ pc \in {"logits", "consumed"} => layer = NumLayers
        /\ pc = "logits" => residual = x
        /\ pc = "consumed" => logits = Unembed(x)

SessionInv ==
    /\ TypeOK
    /\ PublishedPrefixIntact
    /\ LogitsMatchForward
    /\ pc # "idle" => SlotsExact /\ RowsExact
=============================================================================
