---------------------------- MODULE Transformer -----------------------------
(***************************************************************************)
(* What GPT-2 computes for the last token of a prefix, as equations on     *)
(* rows of activations.  Rows are opaque: floating-point arithmetic is     *)
(* deterministic, and all that matters to the properties is which operands *)
(* a row was computed from.  The kernels of src/kernels.cpp are therefore  *)
(* constant operators, and Hidden is characterised by the one equation per *)
(* layer that both GPT2Model::forward and InferenceSession implement.      *)
(***************************************************************************)
EXTENDS Integers, Sequences

CONSTANTS
    NumLayers,        \* config.num_layers
    Vocabulary,       \* the token IDs below vocabulary_size
    MaxPrefix,        \* config.max_sequence_length
    Embed(_, _),      \* wte row of a token plus wpe row of a position
    Query(_, _),      \* layer, residual row: the query third of a qkv row
    KV(_, _),         \* layer, residual row: its key and value thirds
    Attention(_, _),  \* query, sequence of visible key/value pairs
    AttProj(_, _),    \* layer, attention row
    Fc(_, _),         \* layer, residual row: ln2, fc and gelu
    FcProj(_, _),     \* layer, hidden row
    Add(_, _),        \* add_in_place
    Unembed(_),         \* final layer norm and tied output projection
    Hidden(_, _)      \* layer, prefix: the residual row entering the layer

Layers == 0 .. (NumLayers - 1)

\* Prefixes the model accepts.
Prefixes == UNION {[1..n -> Vocabulary] : n \in 1..MaxPrefix}

\* The residual row after a layer's attention half and after its MLP half.
AfterAttention(l, x, kvs) == Add(x, AttProj(l, Attention(Query(l, x), kvs)))
AfterMlp(l, y) == Add(y, FcProj(l, Fc(l, y)))

\* The key/value pairs of layer l that the last token of the prefix attends
\* to: its own and those of every earlier token.
VisibleKVs(l, prefix) ==
    [j \in 1..Len(prefix) |-> KV(l, Hidden(l, SubSeq(prefix, 1, j)))]

ASSUME TransformerAssumption ==
    /\ NumLayers \in Nat \ {0}
    /\ MaxPrefix \in Nat \ {0}
    /\ \A p \in Prefixes :
         /\ Hidden(0, p) = Embed(p[Len(p)], Len(p) - 1)
         /\ \A l \in Layers :
              Hidden(l + 1, p) =
                 AfterMlp(l, AfterAttention(l, Hidden(l, p), VisibleKVs(l, p)))

\* The next-token logits of a prefix.
Logits(p) == Unembed(Hidden(NumLayers, p))
=============================================================================
