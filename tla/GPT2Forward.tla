---------------------------- MODULE GPT2Forward -----------------------------
(***************************************************************************)
(* GPT2Model::forward over a workspace that its caller reuses for prefixes *)
(* of any length.  The workspace vectors keep their old elements when they *)
(* are resized; residual and logits stand for the elements of all of them, *)
(* as the others are written before they are read within one layer.        *)
(***************************************************************************)
EXTENDS Transformer, SizeArithmetic

CONSTANTS
    TokenIds,   \* IDs a caller passes, the invalid ones included
    MaxTokens,  \* longest token sequence a caller passes (bounds the inputs)
    Configs,    \* the dimensions a loaded model may have
    MaxFloats,  \* std::vector<float>::max_size()
    Zero        \* the value of new vector elements

\* The loader has computed the sizes of the parameters without overflow.
ASSUME ForwardAssumption ==
    /\ Vocabulary \subseteq TokenIds
    /\ MaxTokens \in Nat
    /\ MaxFloats \in Sizes
    /\ \A c \in Configs :
          /\ c.channels \in Nat \ {0} /\ c.padded_vocabulary_size \in Nat \ {0}
          /\ 4 * c.channels * c.channels <= SizeMax
          /\ MaxPrefix * c.channels <= SizeMax
          /\ c.padded_vocabulary_size * c.channels <= SizeMax

VARIABLES
    config,            \* weights_.config()
    residual, logits,  \* workspace.residual_ and logits_, one entry per row
    sizes,             \* the size() of every vector of the workspace
    sequence_length,   \* workspace.sequence_length_
    pc, tokens, layer, outcome,
    resized            \* how many vectors resize() has resized

workspace == <<residual, logits, sizes, sequence_length>>
vars == <<config, workspace, pc, tokens, layer, outcome, resized>>

TokenLists == UNION {[1..n -> TokenIds] : n \in 0..MaxTokens}

\* Mutant: the length of the prefix is not limited.
AcceptedAnyLength(list) ==
    /\ list # <<>>
    /\ \A i \in DOMAIN list : list[i] \in Vocabulary

\* forward()'s argument checks.
AcceptedTokens(list) ==
    /\ Len(list) \in 1..MaxPrefix
    /\ \A i \in DOMAIN list : list[i] \in Vocabulary

Vectors == <<"residual", "normalized", "qkv", "attention_output", "projected",
             "mlp_hidden", "attention_scores", "logits">>

VectorNames == {Vectors[i] : i \in DOMAIN Vectors}

\* The sizes resize() computes for n tokens, before it changes anything.
Counts(n) ==
    LET token_channels == CheckedMultiply(n, config.channels)
    IN  [residual |-> token_channels, normalized |-> token_channels,
         qkv |-> CheckedMultiply(token_channels, 3),
         attention_output |-> token_channels, projected |-> token_channels,
         mlp_hidden |-> CheckedMultiply(token_channels, 4),
         attention_scores |-> n,
         logits |-> CheckedMultiply(n, config.padded_vocabulary_size)]

Overflows(n) == \E i \in DOMAIN Vectors : Counts(n)[Vectors[i]] = Overflow

\* The size the kernels demand of a vector with n rows, in arithmetic that wraps.
Rows(n, width) == SizeT(n * width)

\* What the kernels of one layer require of the vectors.
LayerAccepts(n) ==
    LET c == config.channels
    IN  /\ \A v \in {"residual", "normalized", "attention_output", "projected"} :
              sizes[v] = Rows(n, c)
        /\ sizes["qkv"] \in {Rows(n, 3 * c)} \cap {SizeT(Rows(n, 3) * c)}
        /\ sizes["mlp_hidden"] = Rows(n, 4 * c)
        /\ sizes["attention_scores"] = n

\* What the final layer norm and the output projection require.
OutputAccepts(n) ==
    /\ \A v \in {"residual", "normalized"} : sizes[v] = Rows(n, config.channels)
    /\ sizes["logits"] = Rows(n, config.padded_vocabulary_size)

\* std::vector::resize of the rows of a vector
Resized(rows, n) == [i \in 1..n |-> IF i \in DOMAIN rows THEN rows[i] ELSE Zero]

Init ==
    /\ config \in Configs
    /\ residual = <<>> /\ logits = <<>> /\ sequence_length = 0
    /\ sizes = [v \in VectorNames |-> 0]
    /\ pc = "idle" /\ tokens = <<>> /\ layer = 0 /\ outcome = "none" /\ resized = 0

Reject(list) ==
    /\ pc = "idle"
    /\ \/ ~AcceptedTokens(list) /\ outcome' = "invalid_argument"
       \/ AcceptedTokens(list) /\ Overflows(Len(list)) /\ outcome' = "overflow_error"
    /\ UNCHANGED <<config, workspace, pc, tokens, layer, resized>>

Forward(list) ==
    /\ pc = "idle"
    /\ AcceptedTokens(list) /\ ~Overflows(Len(list))
    /\ tokens' = list
    /\ pc' = "resize"
    /\ outcome' = "none"
    /\ UNCHANGED <<config, workspace, layer, resized>>

\* Mutant: a workspace that is large enough is not resized.
NewSizeIfLarger(v) == IF Counts(Len(tokens))[v] > sizes[v]
                      THEN Counts(Len(tokens))[v] ELSE sizes[v]

NewSize(v) == Counts(Len(tokens))[v]

\* InferenceWorkspace::resize goes on with the next vector.
ResizeVector ==
    LET v == Vectors[resized + 1]
        n == Len(tokens)
    IN  /\ pc = "resize"
        /\ NewSize(v) <= MaxFloats
        /\ sizes' = [sizes EXCEPT ![v] = NewSize(v)]
        /\ residual' = IF v = "residual" THEN Resized(residual, n) ELSE residual
        /\ logits' = IF v = "logits" THEN Resized(logits, n) ELSE logits
        /\ IF resized + 1 < Len(Vectors)
           THEN resized' = resized + 1 /\ UNCHANGED <<sequence_length, pc>>
           ELSE resized' = 0 /\ sequence_length' = n /\ pc' = "embed"
        /\ UNCHANGED <<config, tokens, layer, outcome>>

\* An exception leaves forward(); the workspace stays as it is.
Throw(error) ==
    /\ outcome' = error
    /\ pc' = "idle" /\ tokens' = <<>> /\ layer' = 0 /\ resized' = 0
    /\ UNCHANGED <<config, workspace>>

\* The next vector cannot grow; those before it stay resized.
ResizeFails ==
    LET v == Vectors[resized + 1]
    IN  /\ pc = "resize"
        /\ \/ NewSize(v) > MaxFloats /\ Throw("length_error")
           \/ sizes[v] < NewSize(v) /\ Throw("bad_alloc")

EmbedTokens ==
    /\ pc = "embed"
    /\ residual' = [i \in DOMAIN residual |->
                      IF i <= Len(tokens) THEN Embed(tokens[i], i - 1) ELSE residual[i]]
    /\ layer' = 0
    /\ pc' = "layer"
    /\ UNCHANGED <<config, logits, sizes, sequence_length, tokens, outcome, resized>>

\* Mutant: no causal mask.
UnmaskedKVs(l, rows, i) == [j \in DOMAIN rows |-> KV(l, rows[j])]

\* causal_self_attention: row i reads the key and value thirds of the qkv rows
\* up to its own.
CausalKVs(l, rows, i) == [j \in 1..i |-> KV(l, rows[j])]

\* One iteration of the layer loop over all rows.
Layer ==
    /\ pc = "layer"
    /\ layer < NumLayers
    /\ IF LayerAccepts(Len(tokens))
       THEN /\ residual' = [i \in DOMAIN residual |->
                   AfterMlp(layer, AfterAttention(layer, residual[i],
                                                  CausalKVs(layer, residual, i)))]
            /\ layer' = layer + 1
            /\ UNCHANGED <<config, logits, sizes, sequence_length, pc, tokens, outcome,
                           resized>>
       ELSE Throw("kernel_error")

\* The final layer norm and the output projection of every row.
Output ==
    /\ pc = "layer"
    /\ layer = NumLayers
    /\ IF OutputAccepts(Len(tokens))
       THEN /\ logits' = [i \in DOMAIN logits |-> Unembed(residual[i])]
            /\ outcome' = IF Len(residual) # Len(tokens) THEN "logic_error" ELSE "ok"
            /\ pc' = "idle"
            /\ layer' = 0
            /\ UNCHANGED <<config, residual, sizes, sequence_length, tokens, resized>>
       ELSE Throw("kernel_error")

Next ==
    \/ \E list \in TokenLists : Reject(list) \/ Forward(list)
    \/ ResizeVector \/ ResizeFails \/ EmbedTokens \/ Layer \/ Output

Spec == Init /\ [][Next]_vars

-----------------------------------------------------------------------------
TypeOK ==
    /\ config \in Configs
    /\ pc \in {"idle", "resize", "embed", "layer"}
    /\ layer \in 0..NumLayers /\ resized \in 0 .. (Len(Vectors) - 1)
    /\ pc # "resize" => resized = 0
    /\ sequence_length \in 0..MaxPrefix
    /\ tokens \in Seq(Vocabulary) /\ Len(tokens) <= MaxPrefix
    /\ sizes \in [VectorNames -> 0..MaxFloats]
    /\ Len(residual) \in Nat /\ DOMAIN residual = 1..Len(residual)
    /\ Len(logits) \in Nat /\ DOMAIN logits = 1..Len(logits)
    /\ sizes["residual"] = Len(residual) * config.channels
    /\ sizes["logits"] = Len(logits) * config.padded_vocabulary_size
    /\ outcome \in {"none", "ok", "invalid_argument", "overflow_error", "length_error",
                    "bad_alloc"}

\* The sizes the loops of the kernels address for n tokens, in exact arithmetic.
ExactSizes(c, n) ==
    LET rows == n * c.channels
    IN  [residual |-> rows, normalized |-> rows, qkv |-> 3 * rows,
         attention_output |-> rows, projected |-> rows, mlp_hidden |-> 4 * rows,
         attention_scores |-> n, logits |-> n * c.padded_vocabulary_size]

\* While forward works, every vector has exactly the elements the kernels'
\* loops address, computed without wrapping, whatever prefix lengths and
\* failures the workspace has seen before; so no kernel refuses its operands.
WorkspaceExact ==
    pc \in {"embed", "layer"} =>
        /\ sequence_length = Len(tokens)
        /\ sizes = ExactSizes(config, Len(tokens))
        /\ LayerAccepts(Len(tokens)) /\ OutputAccepts(Len(tokens))

\* Every row of the result is the answer for the prefix that ends there: no
\* row sees a later token or a row left in the workspace by an earlier call,
\* and the invariant check at the end of forward never fires.
RowsMatchPrefixes ==
    pc = "idle" /\ outcome = "ok" =>
        /\ Len(logits) = Len(tokens) /\ sequence_length = Len(tokens)
        /\ \A i \in 1..Len(tokens) : logits[i] = Logits(SubSeq(tokens, 1, i))

-----------------------------------------------------------------------------
(* The inductive invariant.                                                *)

\* A call that got past the argument checks can be carried out exactly.
CallFits == pc # "idle" => Len(tokens) \in 1..MaxPrefix /\ ~Overflows(Len(tokens))

\* resize() has given the vectors it is done with their exact sizes.
PrefixResized ==
    pc = "resize" =>
        \A i \in 1..resized :
            sizes[Vectors[i]] = ExactSizes(config, Len(tokens))[Vectors[i]]

\* Between layers every row is the hidden state of its own prefix.
RowsExact ==
    pc = "layer" =>
        \A i \in 1..Len(tokens) : residual[i] = Hidden(layer, SubSeq(tokens, 1, i))

\* What every step of forward keeps: types, the progress of resize(), exact
\* vectors afterwards, and rows that depend on their own prefix alone.
ForwardInv ==
    /\ TypeOK /\ CallFits /\ PrefixResized /\ WorkspaceExact
    /\ RowsExact /\ RowsMatchPrefixes
=============================================================================
