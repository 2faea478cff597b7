------------------------- MODULE GPT2ForwardProofs --------------------------
(***************************************************************************)
(* GPT2Model::forward answers every prefix for itself, over a workspace of *)
(* any history, for every model dimension, token and kernel.               *)
(***************************************************************************)
EXTENDS GPT2Forward, SizeArithmeticProofs

-----------------------------------------------------------------------------
(* Sequences of rows and of tokens.                                        *)

\* A function on 1..n is a sequence of length n, whatever its values are.
LEMMA RowsLength ==
    ASSUME NEW f, NEW n \in Nat, f = [i \in 1..n |-> f[i]]
    PROVE  Len(f) = n /\ DOMAIN f = 1..n
  <1> DEFINE S == {f[i] : i \in 1..n}
  <1>1. f \in [1..n -> S]
    OBVIOUS
  <1> HIDE DEF S
  <1> QED BY <1>1

\* resize() makes a vector exactly n rows long.
LEMMA ResizedLength ==
    ASSUME NEW rows, NEW n \in Nat
    PROVE  Len(Resized(rows, n)) = n /\ DOMAIN Resized(rows, n) = 1..n
  <1> DEFINE f == Resized(rows, n)
  <1>1. f = [i \in 1..n |-> f[i]]
    BY DEF Resized
  <1> HIDE DEF f
  <1>2. Len(f) = n /\ DOMAIN f = 1..n
    BY <1>1, RowsLength
  <1> QED BY <1>2 DEF f

\* Prefixes of an accepted list of tokens are accepted prefixes.
LEMMA PrefixFacts ==
    ASSUME NEW w \in Seq(Vocabulary), Len(w) \in 1..MaxPrefix, NEW i \in 1..Len(w)
    PROVE  /\ SubSeq(w, 1, i) \in Prefixes
           /\ Len(SubSeq(w, 1, i)) = i
           /\ SubSeq(w, 1, i)[i] = w[i]
           /\ \A j \in 1..i : SubSeq(SubSeq(w, 1, i), 1, j) = SubSeq(w, 1, j)
  <1> DEFINE p == SubSeq(w, 1, i)
  <1>1. /\ p \in Seq(Vocabulary) /\ Len(p) = i /\ p[i] = w[i]
        /\ \A j \in 1..i : SubSeq(p, 1, j) = SubSeq(w, 1, j)
    OBVIOUS
  <1>2. i \in 1..MaxPrefix
    BY TransformerAssumption
  <1> HIDE DEF p
  <1>3. p \in [1..i -> Vocabulary]
    BY <1>1
  <1>4. p \in Prefixes
    BY <1>2, <1>3 DEF Prefixes
  <1> QED BY <1>1, <1>4 DEF p

\* The equations of the transformer for a prefix of an accepted list.
LEMMA HiddenFacts ==
    ASSUME NEW w \in Seq(Vocabulary), Len(w) \in 1..MaxPrefix, NEW i \in 1..Len(w),
           NEW l \in Layers
    PROVE  LET p == SubSeq(w, 1, i)
           IN  /\ Hidden(0, p) = Embed(w[i], i - 1)
               /\ Hidden(l + 1, p) =
                    AfterMlp(l, AfterAttention(l, Hidden(l, p), VisibleKVs(l, p)))
               /\ VisibleKVs(l, p) = [j \in 1..i |-> KV(l, Hidden(l, SubSeq(w, 1, j)))]
  <1> DEFINE p == SubSeq(w, 1, i)
  <1>1. /\ p \in Prefixes /\ Len(p) = i /\ p[i] = w[i]
        /\ \A j \in 1..i : SubSeq(p, 1, j) = SubSeq(w, 1, j)
    BY PrefixFacts
  <1> HIDE DEF p
  <1>2. VisibleKVs(l, p) = [j \in 1..i |-> KV(l, Hidden(l, SubSeq(w, 1, j)))]
    BY <1>1 DEF VisibleKVs
  <1> QED BY <1>1, <1>2, TransformerAssumption DEF p

-----------------------------------------------------------------------------
(* The sizes of the workspace.                                             *)

\* The vectors of a workspace, in the order of resize().
LEMMA VectorFacts ==
    /\ Len(Vectors) = 8 /\ DOMAIN Vectors = 1..8
    /\ VectorNames = {"residual", "normalized", "qkv", "attention_output", "projected",
                      "mlp_hidden", "attention_scores", "logits"}
    /\ \A i, j \in 1..8 : Vectors[i] = Vectors[j] => i = j
    /\ Vectors[1] = "residual" /\ Vectors[8] = "logits"
    /\ \A i \in 1..8 : Vectors[i] \in VectorNames
    /\ \A v \in VectorNames : \E i \in 1..8 : Vectors[i] = v
  <1>1. Len(Vectors) = 8 /\ DOMAIN Vectors = 1..8
    BY DEF Vectors
  <1>2. /\ Vectors[1] = "residual" /\ Vectors[2] = "normalized" /\ Vectors[3] = "qkv"
        /\ Vectors[4] = "attention_output" /\ Vectors[5] = "projected"
        /\ Vectors[6] = "mlp_hidden" /\ Vectors[7] = "attention_scores"
        /\ Vectors[8] = "logits"
    BY DEF Vectors
  <1>3. \A i \in 1..8 : i = 1 \/ i = 2 \/ i = 3 \/ i = 4 \/ i = 5 \/ i = 6 \/ i = 7 \/ i = 8
    OBVIOUS
  <1>4. \A i, j \in 1..8 : Vectors[i] = Vectors[j] => i = j
    BY <1>2, <1>3
  <1>5. VectorNames = {"residual", "normalized", "qkv", "attention_output", "projected",
                       "mlp_hidden", "attention_scores", "logits"}
    BY <1>1, <1>2, <1>3 DEF VectorNames
  <1>6. /\ \A i \in 1..8 : Vectors[i] \in VectorNames
        /\ \A v \in VectorNames : \E i \in 1..8 : Vectors[i] = v
    BY <1>1 DEF VectorNames
  <1> QED BY <1>1, <1>2, <1>4, <1>5, <1>6

\* What the loader has established about the dimensions of a model.
LEMMA DimensionsFit ==
    ASSUME NEW c \in Configs
    PROVE  /\ c.channels \in Nat \ {0} /\ c.padded_vocabulary_size \in Nat \ {0}
           /\ c.channels \in Sizes /\ c.padded_vocabulary_size \in Sizes
           /\ 3 \in Sizes /\ 4 \in Sizes
           /\ \A n \in 1..MaxPrefix : n \in Sizes
           /\ SizeMax \in Nat /\ MaxPrefix \in Nat /\ MaxFloats \in Nat
  <1> DEFINE k == c.channels
             v == c.padded_vocabulary_size
  <1>1. /\ k \in Nat \ {0} /\ v \in Nat \ {0}
        /\ 4 * k * k <= SizeMax /\ MaxPrefix * k <= SizeMax /\ v * k <= SizeMax
        /\ SizeMax \in Nat /\ MaxPrefix \in Nat /\ MaxFloats \in Sizes
    BY ForwardAssumption, TransformerAssumption, SizeAssumption
  <1> HIDE DEF k, v
  <1>2. 4 * 1 <= 4 * k /\ 4 * k * 1 <= 4 * k * k
    BY <1>1
  <1>3. MaxPrefix * 1 <= MaxPrefix * k /\ v * 1 <= v * k
    BY <1>1
  <1> QED BY <1>1, <1>2, <1>3 DEF Sizes, k, v

\* The sizes resize() computes are the exact ones, when none of them overflows.
LEMMA CountsExact ==
    ASSUME config \in Configs, NEW n \in 1..MaxPrefix, ~Overflows(n)
    PROVE  /\ Counts(n) = ExactSizes(config, n)
           /\ \A v \in VectorNames : ExactSizes(config, n)[v] \in Sizes
  <1> DEFINE k == config.channels
             v == config.padded_vocabulary_size
             rows == n * k
             counted == CheckedMultiply(n, k)
             qkv == CheckedMultiply(counted, 3)
             mlp == CheckedMultiply(counted, 4)
             out == CheckedMultiply(n, v)
  <1>1. \A name \in VectorNames : Counts(n)[name] # Overflow
    BY VectorFacts DEF Overflows
  <1>2. /\ Counts(n).residual = counted /\ Counts(n).qkv = qkv
        /\ Counts(n).mlp_hidden = mlp /\ Counts(n).logits = out
    BY DEF Counts
  <1>3. counted # Overflow /\ qkv # Overflow /\ mlp # Overflow /\ out # Overflow
    BY <1>1, <1>2, VectorFacts
  <1>4. k \in Sizes /\ v \in Sizes /\ n \in Sizes /\ 3 \in Sizes /\ 4 \in Sizes
    BY DimensionsFit
  <1>5. counted = rows /\ rows \in Sizes
    BY <1>3, <1>4, CheckedProduct
  <1>6. qkv = rows * 3 /\ rows * 3 \in Sizes
    BY <1>3, <1>4, <1>5, CheckedProduct
  <1>7. mlp = rows * 4 /\ rows * 4 \in Sizes
    BY <1>3, <1>4, <1>5, CheckedProduct
  <1>8. out = n * v /\ n * v \in Sizes
    BY <1>3, <1>4, CheckedProduct
  <1>9. rows \in Nat /\ rows * 3 = 3 * rows /\ rows * 4 = 4 * rows
    BY <1>5, SizeAssumption DEF Sizes
  <1>10. /\ Counts(n) =
              [residual |-> counted, normalized |-> counted, qkv |-> qkv,
               attention_output |-> counted, projected |-> counted, mlp_hidden |-> mlp,
               attention_scores |-> n, logits |-> out]
         /\ ExactSizes(config, n) =
              [residual |-> rows, normalized |-> rows, qkv |-> 3 * rows,
               attention_output |-> rows, projected |-> rows, mlp_hidden |-> 4 * rows,
               attention_scores |-> n, logits |-> n * v]
    BY DEF Counts, ExactSizes
  <1> HIDE DEF k, v, rows, counted, qkv, mlp, out
  <1>11. Counts(n) = ExactSizes(config, n)
    BY <1>5, <1>6, <1>7, <1>8, <1>9, <1>10 DEF v
  <1>12. \A name \in VectorNames : ExactSizes(config, n)[name] \in Sizes
    BY <1>4, <1>5, <1>6, <1>7, <1>8, <1>9, <1>10, VectorFacts DEF v
  <1> QED BY <1>11, <1>12

\* The sizes the kernels require, computed in size_t, are the exact ones.
LEMMA RequiredExact ==
    ASSUME NEW c \in Configs, NEW n \in 1..MaxPrefix,
           \A v \in VectorNames : ExactSizes(c, n)[v] \in Sizes
    PROVE  LET exact == ExactSizes(c, n)
               k == c.channels
           IN  /\ SizeT(n * k) = exact.residual /\ exact.normalized = exact.residual
               /\ exact.attention_output = exact.residual
               /\ exact.projected = exact.residual
               /\ SizeT(n * (3 * k)) = exact.qkv /\ SizeT(SizeT(n * 3) * k) = exact.qkv
               /\ SizeT(n * (4 * k)) = exact.mlp_hidden
               /\ exact.attention_scores = n
               /\ SizeT(n * c.padded_vocabulary_size) = exact.logits
  <1> DEFINE k == c.channels
             v == c.padded_vocabulary_size
             rows == n * k
             exact == ExactSizes(c, n)
  <1>1. /\ exact.residual = rows /\ exact.qkv = 3 * rows /\ exact.normalized = rows
        /\ exact.attention_output = rows /\ exact.projected = rows
        /\ exact.mlp_hidden = 4 * rows /\ exact.attention_scores = n
        /\ exact.logits = n * v
    BY DEF ExactSizes
  <1>2. k \in Nat \ {0} /\ n \in Nat /\ v \in Nat /\ rows \in Nat /\ SizeMax \in Nat
    BY DimensionsFit
  <1>3. rows \in 0..SizeMax /\ 3 * rows \in 0..SizeMax /\ 4 * rows \in 0..SizeMax
        /\ n * v \in 0..SizeMax
    BY <1>1, VectorFacts DEF Sizes
  <1>4. /\ n * (3 * k) = 3 * rows /\ n * (4 * k) = 4 * rows
        /\ n * 3 = 3 * n /\ (n * 3) * k = 3 * rows
    BY <1>2
  <1>5. n * 3 \in 0..SizeMax
    <2>1. n * 3 \in Nat /\ 1 \in Nat /\ 1 <= k
      BY <1>2
    <2>2. 1 * (n * 3) <= k * (n * 3)
      BY <1>2, <2>1, MulMono
    <2> QED BY <1>2, <1>3, <1>4, <2>1, <2>2
  <1>6. /\ SizeT(rows) = rows /\ SizeT(3 * rows) = 3 * rows /\ SizeT(4 * rows) = 4 * rows
        /\ SizeT(n * v) = n * v /\ SizeT(n * 3) = n * 3
    BY <1>3, <1>5, SizeTFits
  <1>7. /\ SizeT(n * k) = rows /\ SizeT(n * (3 * k)) = 3 * rows
        /\ SizeT(SizeT(n * 3) * k) = 3 * rows /\ SizeT(n * (4 * k)) = 4 * rows
    BY <1>4, <1>6
  <1> QED BY <1>1, <1>6, <1>7

-----------------------------------------------------------------------------
(* The steps.                                                              *)

LEMMA InitForward == Init => ForwardInv
  <1> SUFFICES ASSUME Init PROVE ForwardInv
    OBVIOUS
  <1>1. /\ pc = "idle" /\ outcome = "none" /\ layer = 0 /\ resized = 0
        /\ sequence_length = 0 /\ tokens = <<>> /\ config \in Configs
        /\ residual = <<>> /\ logits = <<>> /\ sizes = [v \in VectorNames |-> 0]
    BY DEF Init
  <1>2. /\ config.channels \in Nat /\ config.padded_vocabulary_size \in Nat
        /\ MaxPrefix \in Nat /\ MaxFloats \in Nat /\ NumLayers \in Nat
    BY <1>1, DimensionsFit, TransformerAssumption
  <1>3. Len(<<>>) = 0 /\ DOMAIN <<>> = 1..0 /\ <<>> \in Seq(Vocabulary)
    OBVIOUS
  <1>4. sizes["residual"] = 0 /\ sizes["logits"] = 0
    BY <1>1, VectorFacts
  <1>5. TypeOK
    BY <1>1, <1>2, <1>3, <1>4, VectorFacts DEF TypeOK
  <1> QED BY <1>1, <1>5 DEF ForwardInv, CallFits, PrefixResized, WorkspaceExact,
             RowsExact, RowsMatchPrefixes

\* A call that is refused before it starts leaves everything alone.
LEMMA RejectStep ==
    ASSUME ForwardInv, NEW list \in TokenLists, Reject(list)
    PROVE  ForwardInv'
  <1>1. /\ pc = "idle" /\ pc' = "idle" /\ outcome' \in {"invalid_argument", "overflow_error"}
        /\ UNCHANGED <<config, residual, logits, sizes, sequence_length, tokens, layer,
                       resized>>
    BY DEF Reject, workspace
  <1>2. TypeOK'
    BY <1>1 DEF ForwardInv, TypeOK
  <1> QED BY <1>1, <1>2 DEF ForwardInv, CallFits, PrefixResized, WorkspaceExact,
             RowsExact, RowsMatchPrefixes

\* A call starts with tokens that fit and with nothing resized.
LEMMA ForwardStep ==
    ASSUME ForwardInv, NEW list \in TokenLists, Forward(list)
    PROVE  ForwardInv'
  <1>1. /\ pc = "idle" /\ pc' = "resize" /\ outcome' = "none" /\ tokens' = list
        /\ AcceptedTokens(list) /\ ~Overflows(Len(list))
        /\ UNCHANGED <<config, residual, logits, sizes, sequence_length, layer, resized>>
    BY DEF Forward, workspace
  <1>2. list \in Seq(Vocabulary) /\ Len(list) \in 1..MaxPrefix
    <2>1. PICK n \in 0..MaxTokens : list \in [1..n -> TokenIds]
      BY DEF TokenLists
    <2>2. n \in Nat
      BY <2>1, ForwardAssumption
    <2> QED BY <1>1, <2>1, <2>2 DEF AcceptedTokens
  <1>3. TypeOK'
    BY <1>1, <1>2, TransformerAssumption DEF ForwardInv, TypeOK
  <1>4. CallFits'
    BY <1>1, <1>2 DEF CallFits, Overflows, Counts
  <1>5. PrefixResized'
    BY <1>1 DEF ForwardInv, TypeOK, PrefixResized
  <1> QED BY <1>1, <1>3, <1>4, <1>5 DEF ForwardInv, WorkspaceExact, RowsExact,
             RowsMatchPrefixes

\* resize() gives the next vector its exact size; after the last one, all of
\* them have theirs.
LEMMA ResizeVectorStep ==
    ASSUME ForwardInv, ResizeVector
    PROVE  ForwardInv'
  <1> DEFINE v == Vectors[resized + 1]
             n == Len(tokens)
             exact == ExactSizes(config, n)
  <1>1. /\ pc = "resize" /\ NewSize(v) <= MaxFloats
        /\ sizes' = [sizes EXCEPT ![v] = NewSize(v)]
        /\ residual' = IF v = "residual" THEN Resized(residual, n) ELSE residual
        /\ logits' = IF v = "logits" THEN Resized(logits, n) ELSE logits
        /\ IF resized + 1 < Len(Vectors)
           THEN resized' = resized + 1 /\ UNCHANGED <<sequence_length, pc>>
           ELSE resized' = 0 /\ sequence_length' = n /\ pc' = "embed"
        /\ UNCHANGED <<config, tokens, layer, outcome>>
    BY DEF ResizeVector
  <1>2. TypeOK /\ CallFits /\ PrefixResized
    BY DEF ForwardInv
  <1>3. /\ n \in 1..MaxPrefix /\ n \in Nat /\ ~Overflows(n) /\ config \in Configs
        /\ resized \in 0..7 /\ sizes \in [VectorNames -> 0..MaxFloats]
        /\ MaxFloats \in Nat /\ SizeMax \in Nat
    <2>1. n \in 1..MaxPrefix /\ ~Overflows(n)
      BY <1>1, <1>2 DEF CallFits
    <2>2. config \in Configs /\ sizes \in [VectorNames -> 0..MaxFloats]
      BY <1>2 DEF TypeOK
    <2>3. resized \in 0..7
      BY <1>2, VectorFacts DEF TypeOK
    <2>4. MaxFloats \in Nat /\ SizeMax \in Nat /\ MaxPrefix \in Nat
      BY <2>2, DimensionsFit
    <2> HIDE DEF n
    <2> QED BY <2>1, <2>2, <2>3, <2>4
  <1>4. /\ NewSize(v) = exact[v]
        /\ \A name \in VectorNames : exact[name] \in Sizes
    <2>1. /\ Counts(n) = exact
          /\ \A name \in VectorNames : exact[name] \in Sizes
      BY <1>3, CountsExact
    <2> QED BY <2>1 DEF NewSize
  <1>5. v \in VectorNames /\ \A i \in 1..resized : Vectors[i] # v /\ Vectors[i] \in VectorNames
    <2>1. resized + 1 \in 1..8 /\ \A i \in 1..resized : i \in 1..8 /\ i # resized + 1
      BY <1>3
    <2> QED BY <2>1, VectorFacts
  <1>6. /\ exact["residual"] = n * config.channels
        /\ exact["logits"] = n * config.padded_vocabulary_size
        /\ exact = [name \in VectorNames |-> exact[name]]
    BY VectorFacts DEF ExactSizes
  <1> HIDE DEF v, n, exact
  <1>7. \A i \in 1..(resized + 1) : sizes'[Vectors[i]] = exact[Vectors[i]]
    <2> SUFFICES ASSUME NEW i \in 1..(resized + 1)
                 PROVE  sizes'[Vectors[i]] = exact[Vectors[i]]
      OBVIOUS
    <2>1. CASE i \in 1..resized
      <3>1. sizes'[Vectors[i]] = sizes[Vectors[i]]
        BY <1>1, <1>3, <1>5, <2>1
      <3>2. sizes[Vectors[i]] = exact[Vectors[i]]
        BY <1>1, <1>2, <2>1 DEF PrefixResized, exact, n
      <3> QED BY <3>1, <3>2
    <2>2. CASE i = resized + 1
      <3>1. Vectors[i] = v
        BY <2>2 DEF v
      <3> QED BY <1>1, <1>3, <1>4, <1>5, <3>1
    <2> QED BY <1>3, <2>1, <2>2
  <1>8. sizes' \in [VectorNames -> 0..MaxFloats]
    <2>1. NewSize(v) \in 0..MaxFloats
      BY <1>1, <1>3, <1>4, <1>5 DEF Sizes
    <2> QED BY <1>1, <1>3, <2>1
  <1>9. /\ Len(residual') \in Nat /\ DOMAIN residual' = 1..Len(residual')
        /\ sizes'["residual"] = Len(residual') * config.channels
    <2>1. CASE v = "residual"
      BY <1>1, <1>3, <1>4, <1>5, <1>6, <2>1, ResizedLength
    <2>2. CASE v # "residual"
      <3>1. residual' = residual /\ sizes'["residual"] = sizes["residual"]
        BY <1>1, <1>3, <2>2, VectorFacts
      <3> QED BY <1>2, <3>1 DEF TypeOK
    <2> QED BY <2>1, <2>2
  <1>10. /\ Len(logits') \in Nat /\ DOMAIN logits' = 1..Len(logits')
         /\ sizes'["logits"] = Len(logits') * config.padded_vocabulary_size
    <2>1. CASE v = "logits"
      BY <1>1, <1>3, <1>4, <1>5, <1>6, <2>1, ResizedLength
    <2>2. CASE v # "logits"
      <3>1. logits' = logits /\ sizes'["logits"] = sizes["logits"]
        BY <1>1, <1>3, <2>2, VectorFacts
      <3> QED BY <1>2, <3>1 DEF TypeOK
    <2> QED BY <2>1, <2>2
  <1>11. TypeOK'
    <2>1. /\ resized' \in 0 .. (Len(Vectors) - 1)
          /\ pc' # "resize" => resized' = 0
      BY <1>1, <1>3, VectorFacts
    <2>2. sequence_length' \in 0..MaxPrefix /\ pc' \in {"resize", "embed"}
      BY <1>1, <1>2, <1>3 DEF TypeOK
    <2>3. /\ config' \in Configs /\ layer' \in 0..NumLayers
          /\ tokens' \in Seq(Vocabulary) /\ Len(tokens') <= MaxPrefix
          /\ outcome' \in {"none", "ok", "invalid_argument", "overflow_error",
                          "length_error", "bad_alloc"}
      BY <1>1, <1>2 DEF TypeOK
    <2>4. config' = config
      BY <1>1
    <2> QED BY <1>8, <1>9, <1>10, <2>1, <2>2, <2>3, <2>4 DEF TypeOK
  <1>12. CallFits'
    BY <1>1, <1>2 DEF CallFits, Overflows, Counts
  <1>13. exact = ExactSizes(config', Len(tokens'))
    BY <1>1 DEF exact, n
  <1>14. PrefixResized'
    <2>1. pc' = "resize" => resized' = resized + 1
      BY <1>1
    <2> QED BY <1>7, <1>13, <2>1 DEF PrefixResized
  <1>15. WorkspaceExact'
    <2> SUFFICES ASSUME pc' = "embed" PROVE WorkspaceExact'
      BY <1>1 DEF WorkspaceExact
    <2>1. resized = 7 /\ sequence_length' = n
      BY <1>1, <1>3, VectorFacts
    <2>2. \A name \in VectorNames : sizes'[name] = exact[name]
      BY <1>7, <2>1, VectorFacts
    <2>3. sizes' = exact
      BY <1>6, <1>8, <2>2
    <2>4. LayerAccepts(Len(tokens))' /\ OutputAccepts(Len(tokens))'
      <3>1. /\ config' \in Configs /\ Len(tokens') \in 1..MaxPrefix
            /\ sizes' = ExactSizes(config', Len(tokens'))
            /\ \A name \in VectorNames : ExactSizes(config', Len(tokens'))[name] \in Sizes
        BY <1>1, <1>3, <1>4, <1>13, <2>3 DEF n
      <3> DEFINE k == config'.channels
                 m == Len(tokens')
      <3>2. /\ SizeT(m * k) = sizes'["residual"] /\ SizeT(m * k) = sizes'["normalized"]
            /\ SizeT(m * k) = sizes'["attention_output"]
            /\ SizeT(m * k) = sizes'["projected"]
            /\ SizeT(m * (3 * k)) = sizes'["qkv"] /\ SizeT(SizeT(m * 3) * k) = sizes'["qkv"]
            /\ SizeT(m * (4 * k)) = sizes'["mlp_hidden"]
            /\ sizes'["attention_scores"] = m
            /\ SizeT(m * config'.padded_vocabulary_size) = sizes'["logits"]
        BY <3>1, RequiredExact
      <3> QED BY <3>2 DEF LayerAccepts, OutputAccepts, Rows
    <2> QED BY <1>1, <1>13, <2>1, <2>3, <2>4 DEF WorkspaceExact, n
  <1> QED BY <1>1, <1>11, <1>12, <1>14, <1>15 DEF ForwardInv, RowsExact, RowsMatchPrefixes

\* An allocation fails: the vectors keep what they have, and the call is over.
LEMMA ThrowStep ==
    ASSUME ForwardInv, ResizeFails
    PROVE  ForwardInv'
  <1>1. /\ pc' = "idle" /\ tokens' = <<>> /\ layer' = 0 /\ resized' = 0
        /\ outcome' \in {"length_error", "bad_alloc"}
        /\ UNCHANGED <<config, residual, logits, sizes, sequence_length>>
    BY DEF ResizeFails, Throw, workspace
  <1>2. <<>> \in Seq(Vocabulary) /\ Len(<<>>) = 0
    OBVIOUS
  <1>3. TypeOK'
    BY <1>1, <1>2, VectorFacts, TransformerAssumption DEF ForwardInv, TypeOK
  <1> QED BY <1>1, <1>3 DEF ForwardInv, CallFits, PrefixResized, WorkspaceExact,
             RowsExact, RowsMatchPrefixes

\* Vectors of the exact sizes have one row per token.
LEMMA RowPerToken ==
    ASSUME TypeOK, CallFits, WorkspaceExact, pc \in {"embed", "layer"}
    PROVE  Len(residual) = Len(tokens) /\ Len(logits) = Len(tokens)
  <1>1. /\ Len(tokens) \in 1..MaxPrefix /\ Len(residual) \in Nat /\ Len(logits) \in Nat
        /\ config \in Configs
        /\ sizes["residual"] = Len(residual) * config.channels
        /\ sizes["logits"] = Len(logits) * config.padded_vocabulary_size
    BY DEF TypeOK, CallFits
  <1>2. /\ sizes["residual"] = Len(tokens) * config.channels
        /\ sizes["logits"] = Len(tokens) * config.padded_vocabulary_size
    BY DEF WorkspaceExact, ExactSizes
  <1>3. config.channels \in Nat \ {0} /\ config.padded_vocabulary_size \in Nat \ {0}
    BY <1>1, DimensionsFit
  <1>4. Len(tokens) \in Nat
    BY <1>1
  <1>5. Len(residual) * config.channels = Len(tokens) * config.channels
    BY <1>1, <1>2
  <1>6. Len(logits) * config.padded_vocabulary_size =
           Len(tokens) * config.padded_vocabulary_size
    BY <1>1, <1>2
  <1>7. Len(residual) = Len(tokens)
    BY <1>1, <1>3, <1>4, <1>5, MulCancel
  <1>8. Len(logits) = Len(tokens)
    BY <1>1, <1>3, <1>4, <1>6, MulCancel
  <1> QED BY <1>7, <1>8

\* The workspace's sizes are not touched by the kernels.
LEMMA WorkspaceKept ==
    ASSUME WorkspaceExact, pc \in {"embed", "layer"},
           UNCHANGED <<config, sizes, sequence_length, tokens>>
    PROVE  WorkspaceExact'
  BY DEF WorkspaceExact, LayerAccepts, OutputAccepts, Rows

\* The rows enter the first layer as the embeddings of their tokens.
LEMMA EmbedStep ==
    ASSUME ForwardInv, EmbedTokens
    PROVE  ForwardInv'
  <1> DEFINE n == Len(tokens)
  <1>1. /\ pc = "embed" /\ pc' = "layer" /\ layer' = 0
        /\ residual' = [i \in DOMAIN residual |->
                          IF i <= n THEN Embed(tokens[i], i - 1) ELSE residual[i]]
        /\ UNCHANGED <<config, logits, sizes, sequence_length, tokens, outcome, resized>>
    BY DEF EmbedTokens
  <1>2. TypeOK /\ CallFits /\ WorkspaceExact
    BY DEF ForwardInv
  <1>3. n \in 1..MaxPrefix /\ n \in Nat /\ tokens \in Seq(Vocabulary) /\ 0 \in Layers
    BY <1>1, <1>2, TransformerAssumption DEF CallFits, TypeOK, Layers
  <1>4. Len(residual) = n /\ DOMAIN residual = 1..n
    BY <1>1, <1>2, RowPerToken DEF TypeOK
  <1>5. \A i \in 1..n : residual'[i] = Embed(tokens[i], i - 1)
    BY <1>1, <1>3, <1>4
  <1>6. residual' = [i \in 1..n |-> residual'[i]]
    BY <1>1, <1>4
  <1> HIDE DEF n
  <1>7. Len(residual') = n /\ DOMAIN residual' = 1..n
    BY <1>3, <1>6, RowsLength
  <1>8. TypeOK'
    BY <1>1, <1>2, <1>3, <1>4, <1>7, TransformerAssumption DEF TypeOK
  <1>9. CallFits'
    BY <1>1, <1>2 DEF CallFits, Overflows, Counts
  <1>10. WorkspaceExact'
    BY <1>1, <1>2, WorkspaceKept
  <1>11. RowsExact'
    <2> SUFFICES ASSUME NEW i \in 1..Len(tokens)
                 PROVE  residual'[i] = Hidden(0, SubSeq(tokens, 1, i))
      BY <1>1 DEF RowsExact
    <2>1. Hidden(0, SubSeq(tokens, 1, i)) = Embed(tokens[i], i - 1)
      BY <1>3, HiddenFacts DEF n
    <2> QED BY <1>5, <2>1 DEF n
  <1> QED BY <1>1, <1>8, <1>9, <1>10, <1>11 DEF ForwardInv, PrefixResized, RowsMatchPrefixes

\* One layer: row i attends to the rows up to its own, which hold the hidden
\* states of the prefixes of its prefix.
LEMMA LayerStep ==
    ASSUME ForwardInv, Layer
    PROVE  ForwardInv'
  <1> DEFINE n == Len(tokens)
  <1>1. pc = "layer" /\ layer < NumLayers
    BY DEF Layer
  <1>2. TypeOK /\ CallFits /\ WorkspaceExact /\ RowsExact
    BY DEF ForwardInv
  <1>3. LayerAccepts(Len(tokens))
    BY <1>1, <1>2 DEF WorkspaceExact
  <1>4. /\ residual' = [i \in DOMAIN residual |->
               AfterMlp(layer, AfterAttention(layer, residual[i],
                                              CausalKVs(layer, residual, i)))]
        /\ layer' = layer + 1
        /\ UNCHANGED <<config, logits, sizes, sequence_length, pc, tokens, outcome, resized>>
    BY <1>3 DEF Layer
  <1>5. /\ n \in 1..MaxPrefix /\ n \in Nat /\ tokens \in Seq(Vocabulary)
        /\ layer \in Layers /\ layer + 1 \in 0..NumLayers
    <2>1. n \in 1..MaxPrefix /\ tokens \in Seq(Vocabulary)
      BY <1>1, <1>2 DEF CallFits, TypeOK
    <2>2. layer \in 0..NumLayers /\ NumLayers \in Nat
      BY <1>2, TransformerAssumption DEF TypeOK
    <2> QED BY <1>1, <2>1, <2>2 DEF Layers
  <1>6. Len(residual) = n /\ DOMAIN residual = 1..n
    BY <1>1, <1>2, RowPerToken DEF TypeOK
  <1>7. residual' = [i \in 1..n |-> residual'[i]]
    BY <1>4, <1>6
  <1> HIDE DEF n
  <1>8. Len(residual') = n /\ DOMAIN residual' = 1..n
    BY <1>5, <1>7, RowsLength
  <1>9. TypeOK'
    BY <1>1, <1>2, <1>4, <1>5, <1>6, <1>8 DEF TypeOK
  <1>10. CallFits'
    BY <1>2, <1>4 DEF CallFits, Overflows, Counts
  <1>11. WorkspaceExact'
    BY <1>1, <1>2, <1>4, WorkspaceKept
  <1>12. RowsExact'
    <2> SUFFICES ASSUME NEW i \in 1..Len(tokens)
                 PROVE  residual'[i] = Hidden(layer + 1, SubSeq(tokens, 1, i))
      BY <1>4 DEF RowsExact
    <2> DEFINE p == SubSeq(tokens, 1, i)
    <2>1. \A j \in 1..n : residual[j] = Hidden(layer, SubSeq(tokens, 1, j))
      BY <1>1, <1>2 DEF RowsExact, n
    <2>2. i \in 1..n /\ \A j \in 1..i : j \in 1..n
      BY <1>5 DEF n
    <2>3. /\ Hidden(layer + 1, p) =
               AfterMlp(layer, AfterAttention(layer, Hidden(layer, p), VisibleKVs(layer, p)))
          /\ VisibleKVs(layer, p) =
               [j \in 1..i |-> KV(layer, Hidden(layer, SubSeq(tokens, 1, j)))]
      BY <1>5, HiddenFacts DEF n
    <2>4. CausalKVs(layer, residual, i) = VisibleKVs(layer, p)
      BY <2>1, <2>2, <2>3 DEF CausalKVs
    <2>5. residual[i] = Hidden(layer, p)
      BY <2>1, <2>2
    <2> HIDE DEF p
    <2>6. residual'[i] =
            AfterMlp(layer, AfterAttention(layer, residual[i], CausalKVs(layer, residual, i)))
      BY <1>4, <1>6, <2>2
    <2>7. residual'[i] = Hidden(layer + 1, p)
      BY <2>3, <2>4, <2>5, <2>6
    <2> QED BY <2>7 DEF p
  <1> QED BY <1>1, <1>4, <1>9, <1>10, <1>11, <1>12 DEF ForwardInv, PrefixResized,
             RowsMatchPrefixes

\* The final projection of the hidden states is the answer for every prefix,
\* and the vectors it is written to have a row for each.
LEMMA OutputStep ==
    ASSUME ForwardInv, Output
    PROVE  ForwardInv'
  <1> DEFINE n == Len(tokens)
  <1>1. /\ pc = "layer" /\ layer = NumLayers /\ pc' = "idle" /\ layer' = 0
        /\ logits' = [i \in DOMAIN logits |-> Unembed(residual[i])]
        /\ outcome' = IF Len(residual) # n THEN "logic_error" ELSE "ok"
        /\ UNCHANGED <<config, residual, sizes, sequence_length, tokens, resized>>
    <2>1. pc = "layer" /\ OutputAccepts(n)
      BY DEF Output, ForwardInv, WorkspaceExact
    <2> QED BY <2>1 DEF Output
  <1>2. TypeOK /\ CallFits /\ WorkspaceExact /\ RowsExact
    BY DEF ForwardInv
  <1>3. /\ n \in 1..MaxPrefix /\ n \in Nat /\ NumLayers \in Nat
    BY <1>1, <1>2, TransformerAssumption DEF CallFits
  <1>4. Len(residual) = n /\ Len(logits) = n /\ DOMAIN logits = 1..n
    BY <1>1, <1>2, RowPerToken DEF TypeOK
  <1>5. outcome' = "ok"
    BY <1>1, <1>4
  <1>6. logits' = [i \in 1..n |-> logits'[i]]
    BY <1>1, <1>4
  <1>7. sequence_length = n
    BY <1>1, <1>2 DEF WorkspaceExact
  <1>8. \A i \in 1..n : logits'[i] = Logits(SubSeq(tokens, 1, i))
    BY <1>1, <1>2, <1>4 DEF RowsExact, Logits
  <1>9. PrefixResized' /\ CallFits' /\ WorkspaceExact' /\ RowsExact'
    BY <1>1 DEF PrefixResized, CallFits, WorkspaceExact, RowsExact
  <1> HIDE DEF n
  <1>10. Len(logits') = n /\ DOMAIN logits' = 1..n
    BY <1>3, <1>6, RowsLength
  <1>11. TypeOK'
    BY <1>1, <1>2, <1>3, <1>4, <1>5, <1>10 DEF TypeOK
  <1>12. RowsMatchPrefixes'
    <2>1. Len(logits') = Len(tokens') /\ sequence_length' = Len(tokens')
      BY <1>1, <1>7, <1>10 DEF n
    <2>2. \A i \in 1..Len(tokens') : logits'[i] = Logits(SubSeq(tokens', 1, i))
      BY <1>1, <1>8 DEF n
    <2> QED BY <2>1, <2>2 DEF RowsMatchPrefixes, Logits
  <1> QED BY <1>9, <1>11, <1>12 DEF ForwardInv

LEMMA StutterStep ==
    ASSUME ForwardInv, UNCHANGED vars
    PROVE  ForwardInv'
  <1>1. UNCHANGED <<config, residual, logits, sizes, sequence_length, pc, tokens, layer,
                    outcome, resized>>
    BY DEF vars, workspace
  <1>2. TypeOK' /\ CallFits'
    BY <1>1 DEF ForwardInv, TypeOK, CallFits, Overflows, Counts
  <1>3. PrefixResized' /\ WorkspaceExact'
    BY <1>1 DEF ForwardInv, PrefixResized, WorkspaceExact, LayerAccepts, OutputAccepts, Rows
  <1>4. RowsExact' /\ RowsMatchPrefixes'
    BY <1>1 DEF ForwardInv, RowsExact, RowsMatchPrefixes, Logits
  <1> QED BY <1>2, <1>3, <1>4 DEF ForwardInv

-----------------------------------------------------------------------------
(* The theorems.                                                           *)

\* The inductive invariant of forward() and of its workspace.
THEOREM ForwardInductive == Spec => []ForwardInv
  <1>1. Init => ForwardInv
    BY InitForward
  <1>2. ForwardInv /\ [Next]_vars => ForwardInv'
    BY RejectStep, ForwardStep, ResizeVectorStep, ThrowStep, EmbedStep, LayerStep,
       OutputStep, StutterStep DEF Next
  <1> QED BY <1>1, <1>2, PTL DEF Spec

\* While forward() computes, every vector has exactly the elements its kernels
\* address, whatever calls the workspace has served or failed before.
THEOREM WorkspaceStaysExact == Spec => []WorkspaceExact
  <1>1. ForwardInv => WorkspaceExact
    BY DEF ForwardInv
  <1> QED BY <1>1, ForwardInductive, PTL

\* Row i of the result answers for the first i tokens, and for nothing else.
THEOREM ForwardIsCausal == Spec => []RowsMatchPrefixes
  <1>1. ForwardInv => RowsMatchPrefixes
    BY DEF ForwardInv
  <1> QED BY <1>1, ForwardInductive, PTL
=============================================================================
