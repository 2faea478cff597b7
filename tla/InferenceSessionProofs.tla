----------------------- MODULE InferenceSessionProofs -----------------------
(***************************************************************************)
(* A session answers like a full recomputation, for every number of layers *)
(* and positions, every vocabulary and every kernel, and implements its    *)
(* state table; it does so on an executor that other threads use as well.  *)
(***************************************************************************)
EXTENDS SessionRefinement, SharedExecutor, TLAPS

\* Prefixes of a nonempty sequence of tokens.
LEMMA PrefixFacts ==
    ASSUME NEW w \in Seq(Vocabulary), NEW i \in 1..Len(w)
    PROVE  /\ SubSeq(w, 1, i) \in Seq(Vocabulary)
           /\ Len(SubSeq(w, 1, i)) = i
           /\ SubSeq(w, 1, i)[i] = w[i]
           /\ \A j \in 1..i : SubSeq(SubSeq(w, 1, i), 1, j) = SubSeq(w, 1, j)
           /\ SubSeq(w, 1, Len(w)) = w
  OBVIOUS

LEMMA PrefixAccepted ==
    ASSUME NEW w \in Seq(Vocabulary), NEW i \in 1..Len(w), Len(w) <= Capacity
    PROVE  SubSeq(w, 1, i) \in Prefixes
  <1>1. i \in 1..MaxPrefix
    BY SessionAssumption, TransformerAssumption
  <1>2. SubSeq(w, 1, i) \in [1..i -> Vocabulary]
    <2> DEFINE p == SubSeq(w, 1, i)
    <2>1. p \in Seq(Vocabulary) /\ Len(p) = i
      BY PrefixFacts
    <2> HIDE DEF p
    <2>2. p \in [1..i -> Vocabulary]
      BY <2>1
    <2> QED BY <2>2 DEF p
  <1> QED BY <1>1, <1>2 DEF Prefixes

\* Appending tokens keeps the prefixes of what is there.
LEMMA ConcatFacts ==
    ASSUME NEW h \in Seq(Vocabulary), NEW t \in Seq(Vocabulary)
    PROVE  /\ h \o t \in Seq(Vocabulary)
           /\ Len(h \o t) = Len(h) + Len(t)
           /\ \A i \in 1..Len(h) : SubSeq(h \o t, 1, i) = SubSeq(h, 1, i)
           /\ \A i \in 1..Len(t) : (h \o t)[Len(h) + i] = t[i]
  OBVIOUS

\* The equations of the transformer for a prefix of an accepted sequence.
LEMMA HiddenFacts ==
    ASSUME NEW w \in Seq(Vocabulary), NEW i \in 1..Len(w), Len(w) <= Capacity,
           NEW l \in Layers
    PROVE  LET p == SubSeq(w, 1, i)
           IN  /\ Hidden(0, p) = Embed(w[i], i - 1)
               /\ Hidden(l + 1, p) =
                    AfterMlp(l, AfterAttention(l, Hidden(l, p), VisibleKVs(l, p)))
               /\ VisibleKVs(l, p) = [j \in 1..i |-> KV(l, Hidden(l, SubSeq(w, 1, j)))]
  <1> DEFINE p == SubSeq(w, 1, i)
  <1>1. p \in Prefixes
    BY PrefixAccepted
  <1>2. Len(p) = i /\ p[i] = w[i] /\ \A j \in 1..i : SubSeq(p, 1, j) = SubSeq(w, 1, j)
    BY PrefixFacts
  <1> HIDE DEF p
  <1>3. VisibleKVs(l, p) = [j \in 1..i |-> KV(l, Hidden(l, SubSeq(w, 1, j)))]
    BY <1>2 DEF VisibleKVs
  <1> QED BY <1>1, <1>2, <1>3, TransformerAssumption DEF p

\* What the type invariant says of the call in progress.
LEMMA TargetFacts ==
    ASSUME TypeOK, PublishedPrefixIntact, pc # "idle"
    PROVE  /\ Target \in Seq(Vocabulary)
           /\ Len(Target) = size + Len(tokens) /\ Len(Target) <= Capacity
           /\ position \in Nat /\ position + 1 \in 1..Len(Target)
           /\ position \in Positions
           /\ \A i \in 1..size : SubSeq(Target, 1, i) = SubSeq(history, 1, i)
           /\ Working \in Seq(Vocabulary) /\ Len(Working) = position + 1
           /\ NumLayers \in Nat \ {0}
  <1>1. history \in Seq(Vocabulary) /\ tokens \in Seq(Vocabulary) /\ size = Len(history)
    BY DEF TypeOK, PublishedPrefixIntact
  <1>2. /\ Target \in Seq(Vocabulary)
        /\ Len(Target) = size + Len(tokens)
        /\ \A i \in 1..size : SubSeq(Target, 1, i) = SubSeq(history, 1, i)
    BY <1>1, ConcatFacts DEF Target
  <1>3. /\ Len(tokens) \in Nat /\ size \in Nat /\ size + Len(tokens) <= Capacity
        /\ position \in size .. (size + Len(tokens) - 1) /\ position \in Positions
    BY <1>1 DEF TypeOK
  <1>4. position \in Nat /\ position + 1 \in 1..Len(Target)
    BY <1>2, <1>3
  <1>5. Working \in Seq(Vocabulary) /\ Len(Working) = position + 1
    BY <1>2, <1>4, PrefixFacts DEF Working
  <1> QED BY <1>2, <1>3, <1>4, <1>5, TransformerAssumption

LEMMA InitSession == Init => SessionInv
  <1> SUFFICES ASSUME Init PROVE SessionInv
    OBVIOUS
  <1>1. TypeOK
    BY SessionAssumption, TransformerAssumption DEF Init, TypeOK, Positions
  <1>2. PublishedPrefixIntact /\ LogitsMatchForward /\ pc = "idle"
    BY DEF Init, PublishedPrefixIntact, LogitsMatchForward
  <1> QED BY <1>1, <1>2 DEF SessionInv

\* Rejected calls and reset leave the cache alone.
LEMMA IdleSteps ==
    ASSUME SessionInv,
           \/ \E prompt \in Prompts : RejectPrefill(prompt)
           \/ \E token \in TokenIds : RejectDecode(token)
           \/ Reset
    PROVE  SessionInv'
  <1>1. TypeOK /\ PublishedPrefixIntact /\ pc = "idle" /\ pc' = "idle"
    BY DEF SessionInv, RejectPrefill, RejectDecode, Reset
  <1>2. TypeOK'
    <2>1. CASE \E prompt \in Prompts : RejectPrefill(prompt)
      BY <1>1, <2>1 DEF TypeOK, RejectPrefill, PrefillError, scratch
    <2>2. CASE \E token \in TokenIds : RejectDecode(token)
      BY <1>1, <2>2 DEF TypeOK, RejectDecode, DecodeError, scratch
    <2>3. CASE Reset
      BY <1>1, <2>3, SessionAssumption DEF TypeOK, Reset, scratch
    <2> QED BY <2>1, <2>2, <2>3
  <1>3. PublishedPrefixIntact'
    BY <1>1 DEF PublishedPrefixIntact, RejectPrefill, RejectDecode, Reset, scratch
  <1>4. LogitsMatchForward'
    BY DEF LogitsMatchForward, RejectPrefill, RejectDecode, Reset, PrefillError,
       DecodeError
  <1> QED BY <1>1, <1>2, <1>3, <1>4 DEF SessionInv

\* A call that starts works on the embedding of its first token.
LEMMA StartSteps ==
    ASSUME SessionInv,
           \/ \E prompt \in Prompts : Prefill(prompt)
           \/ \E token \in TokenIds : Decode(token)
    PROVE  SessionInv'
  <1>1. TypeOK /\ PublishedPrefixIntact
    BY DEF SessionInv
  <1>2. /\ tokens' \in Seq(Vocabulary) /\ Len(tokens') >= 1
        /\ size + Len(tokens') <= Capacity
        /\ op' \in {"prefill", "decode"}
        /\ op' = "prefill" => size = 0
        /\ op' = "decode" => Len(tokens') = 1
        /\ residual' = Embed(tokens'[1], size)
        /\ position' = size /\ layer' = 0 /\ pc' = "qkv"
        /\ UNCHANGED <<size, cache, attention_output, mlp_hidden, logits, outcome, history>>
    <2>1. CASE \E prompt \in Prompts : Prefill(prompt)
      <3>1. PICK prompt \in Prompts : Prefill(prompt)
        BY <2>1
      <3>2. /\ size = 0 /\ prompt # <<>> /\ ~(Len(prompt) > Capacity)
            /\ \A i \in DOMAIN prompt : prompt[i] \in Vocabulary
        BY <3>1 DEF Prefill, PrefillError, ValidToken
      <3>3. PICK n \in 0..MaxPrompt : prompt \in [1..n -> TokenIds]
        BY DEF Prompts
      <3>4. prompt \in Seq(Vocabulary) /\ Len(prompt) = n
        BY <3>2, <3>3, SessionAssumption
      <3>5. Len(prompt) >= 1 /\ Len(prompt) <= Capacity
        BY <3>2, <3>3, <3>4, SessionAssumption
      <3> QED BY <3>1, <3>2, <3>4, <3>5, SessionAssumption DEF Prefill, Consume
    <2>2. CASE \E token \in TokenIds : Decode(token)
      <3>1. PICK token \in TokenIds : Decode(token)
        BY <2>2
      <3>2. size # 0 /\ token \in Vocabulary /\ size # Capacity
        BY <3>1 DEF Decode, DecodeError, ValidToken
      <3>3. size + 1 <= Capacity
        BY <1>1, <3>2, SessionAssumption DEF TypeOK
      <3> QED BY <1>1, <3>1, <3>2, <3>3 DEF Decode, Consume, TypeOK
    <2> QED BY <2>1, <2>2
  <1>3. TypeOK'
    BY <1>1, <1>2, SessionAssumption, TransformerAssumption DEF TypeOK, Positions
  <1>4. PublishedPrefixIntact' /\ LogitsMatchForward'
    BY <1>1, <1>2 DEF PublishedPrefixIntact, LogitsMatchForward
  <1>5. /\ Target' \in Seq(Vocabulary) /\ Len(Target') <= Capacity
        /\ size + 1 \in 1..Len(Target')
        /\ \A i \in 1..size : SubSeq(Target', 1, i) = SubSeq(history, 1, i)
        /\ Target'[size + 1] = tokens'[1]
    <2>1. history' = history /\ size' = size /\ pc' # "idle"
      BY <1>2
    <2>2. history \in Seq(Vocabulary) /\ size = Len(history) /\ size \in Nat
      BY <1>1 DEF TypeOK, PublishedPrefixIntact
    <2>3. Target' = history \o tokens'
      BY <2>1 DEF Target
    <2> QED BY <1>2, <2>2, <2>3, ConcatFacts
  <1>6. Working' = SubSeq(Target', 1, size + 1)
    BY <1>2 DEF Working
  <1>7. SlotsExact'
    <2>1. \A l \in Layers, i \in 1..size :
             cache'[l][i - 1] = KV(l, Hidden(l, SubSeq(Target', 1, i)))
      BY <1>1, <1>2, <1>5 DEF PublishedPrefixIntact
    <2>2. \A l \in Layers : ~(l < layer' \/ (l = layer' /\ pc' # "qkv"))
      BY <1>2 DEF Layers
    <2> QED BY <1>2, <2>1, <2>2 DEF SlotsExact
  <1>8. RowsExact'
    <2>1. 0 \in Layers
      BY TransformerAssumption DEF Layers
    <2>2. Hidden(0, SubSeq(Target', 1, size + 1)) = Embed(Target'[size + 1], (size + 1) - 1)
      BY <1>5, <2>1, HiddenFacts
    <2>3. size \in Int /\ (size + 1) - 1 = size
      BY <1>1, SessionAssumption DEF TypeOK
    <2>4. Hidden(0, Working') = Embed(tokens'[1], size)
      <3>1. Hidden(0, Working') = Embed(Target'[size + 1], (size + 1) - 1)
        BY <1>6, <2>2
      <3>2. Target'[size + 1] = tokens'[1]
        BY <1>5
      <3> QED BY <2>3, <3>1, <3>2
    <2>5. Hidden(layer', Working') = residual'
      BY <1>2, <2>4
    <2> QED BY <1>2, <2>5 DEF RowsExact
  <1> QED BY <1>3, <1>4, <1>7, <1>8 DEF SessionInv

\* A linear operation that succeeds advances the row one stage.
LEMMA LinearSteps ==
    ASSUME SessionInv,
           QkvLinear \/ AttProjLinear \/ FcLinear \/ FcProjLinear \/ LogitsLinear
    PROVE  SessionInv'
  <1>1. TypeOK /\ PublishedPrefixIntact /\ SlotsExact /\ RowsExact /\ pc # "idle"
    BY DEF SessionInv, QkvLinear, AfterQkv, AttProjLinear, AfterAttProj,
       FcLinear, AfterFc, FcProjLinear, AfterFcProj, LogitsLinear, AfterLogits
  <1>2. /\ UNCHANGED <<size, op, tokens, position, outcome, history>>
        /\ pc' # "idle"
        /\ Target' = Target /\ Working' = Working
    BY DEF QkvLinear, AfterQkv, AttProjLinear, AfterAttProj,
       FcLinear, AfterFc, FcProjLinear, AfterFcProj, LogitsLinear, AfterLogits, Target,
       Working
  <1>3. /\ Target \in Seq(Vocabulary)
        /\ Len(Target) = size + Len(tokens) /\ Len(Target) <= Capacity
        /\ position \in Nat /\ position + 1 \in 1..Len(Target)
        /\ position \in Positions /\ position >= size
        /\ \A i \in 1..size : SubSeq(Target, 1, i) = SubSeq(history, 1, i)
        /\ Len(Working) = position + 1
        /\ NumLayers \in Nat \ {0}
    BY <1>1, TargetFacts DEF TypeOK
  <1> DEFINE x == Hidden(layer, Working)
             kvs == VisibleKVs(layer, Working)
  <1>4. LogitsMatchForward'
    BY <1>2 DEF LogitsMatchForward
  <1>5. CASE QkvLinear
    <2>1. pc = "qkv" /\ layer \in Layers /\ residual = x
      <3>1. pc = "qkv"
        BY <1>5 DEF QkvLinear, AfterQkv
      <3>2. layer \in Layers
        BY <1>1, <1>3, <3>1 DEF TypeOK, Layers
      <3> QED BY <1>1, <3>1, <3>2 DEF RowsExact
    <2>2. /\ cache' = [cache EXCEPT ![layer][position] = KV(layer, residual)]
          /\ attention_output' = Attention(Query(layer, residual),
                                           CachedKVs(cache', layer, position + 1))
          /\ pc' = "attproj"
          /\ UNCHANGED <<residual, layer, mlp_hidden, logits>>
      BY <1>5 DEF QkvLinear, AfterQkv
    <2>3. /\ cache'[layer][position] = KV(layer, x)
          /\ \A l \in Layers, at \in Positions :
               <<l, at>> # <<layer, position>> => cache'[l][at] = cache[l][at]
      BY <1>1, <1>3, <2>1, <2>2 DEF TypeOK
    <2>4. TypeOK'
      BY <1>1, <1>2, <2>1, <2>2 DEF TypeOK, Layers
    <2>5. PublishedPrefixIntact'
      <3> SUFFICES ASSUME NEW l \in Layers, NEW i \in 1..size
                   PROVE  cache'[l][i - 1] = KV(l, Hidden(l, SubSeq(history, 1, i)))
        BY <1>1, <1>2 DEF PublishedPrefixIntact
      <3>1. i - 1 \in Positions /\ i - 1 # position
        BY <1>1, <1>3, SessionAssumption DEF TypeOK, Positions
      <3> QED BY <1>1, <2>3, <3>1 DEF PublishedPrefixIntact
    <2>6. SlotsExact'
      <3>1. ASSUME NEW l \in Layers, NEW i \in 1..position
            PROVE  cache'[l][i - 1] = KV(l, Hidden(l, SubSeq(Target, 1, i)))
        <4>1. i - 1 \in Positions /\ i - 1 # position
          BY <1>3, SessionAssumption DEF Positions
        <4> QED BY <1>1, <2>3, <4>1 DEF SlotsExact
      <3>2. ASSUME NEW l \in Layers, l < layer \/ l = layer
            PROVE  cache'[l][position] = KV(l, Hidden(l, Working))
        <4>1. CASE l = layer
          BY <2>3, <4>1
        <4>2. CASE l < layer /\ l # layer
          BY <1>1, <1>3, <2>3, <4>2 DEF SlotsExact
        <4> QED BY <3>2, <4>1, <4>2
      <3> QED BY <1>2, <2>2, <3>1, <3>2 DEF SlotsExact
    <2>7. CachedKVs(cache', layer, position + 1) = kvs
      <3>1. \A j \in 1 .. (position + 1) :
               cache'[layer][j - 1] = KV(layer, Hidden(layer, SubSeq(Target, 1, j)))
        <4> SUFFICES ASSUME NEW j \in 1 .. (position + 1)
                     PROVE  cache'[layer][j - 1] =
                              KV(layer, Hidden(layer, SubSeq(Target, 1, j)))
          OBVIOUS
        <4>1. CASE j = position + 1
          BY <1>3, <2>3, <4>1 DEF Working
        <4>2. CASE j # position + 1
          <5>1. j \in 1..position
            BY <1>3, <4>2
          <5> QED BY <1>2, <2>1, <2>6, <5>1 DEF SlotsExact
        <4> QED BY <4>1, <4>2
      <3>2. kvs = [j \in 1 .. (position + 1) |->
                      KV(layer, Hidden(layer, SubSeq(Target, 1, j)))]
        BY <1>3, <2>1, HiddenFacts DEF Working
      <3> QED BY <3>1, <3>2 DEF CachedKVs
    <2>8. RowsExact'
      BY <1>2, <2>1, <2>2, <2>7 DEF RowsExact
    <2> QED BY <1>4, <2>4, <2>5, <2>6, <2>8 DEF SessionInv
  <1>6. CASE AttProjLinear
    <2>1. pc = "attproj" /\ pc' = "fc" /\ residual' = Add(residual, AttProj(layer, attention_output))
      BY <1>6 DEF AttProjLinear, AfterAttProj
    <2>2. UNCHANGED <<cache, attention_output, mlp_hidden, logits, layer>>
      BY <1>6 DEF AttProjLinear, AfterAttProj
    <2>3. residual' = AfterAttention(layer, x, kvs)
      BY <1>1, <2>1 DEF RowsExact, AfterAttention
    <2>4. TypeOK' /\ PublishedPrefixIntact'
      BY <1>1, <1>2, <2>1, <2>2 DEF TypeOK, PublishedPrefixIntact
    <2>5. SlotsExact'
      BY <1>1, <1>2, <2>1, <2>2 DEF SlotsExact
    <2>6. RowsExact'
      BY <1>2, <2>1, <2>2, <2>3 DEF RowsExact
    <2> QED BY <1>4, <2>4, <2>5, <2>6 DEF SessionInv
  <1>7. CASE FcLinear
    <2>1. /\ pc = "fc" /\ pc' = "fcproj" /\ mlp_hidden' = Fc(layer, residual)
          /\ UNCHANGED <<cache, residual, attention_output, logits, layer>>
      BY <1>7 DEF FcLinear, AfterFc
    <2>2. TypeOK' /\ PublishedPrefixIntact'
      BY <1>1, <1>2, <2>1 DEF TypeOK, PublishedPrefixIntact
    <2>3. SlotsExact'
      BY <1>1, <1>2, <2>1 DEF SlotsExact
    <2>4. RowsExact'
      BY <1>1, <1>2, <2>1 DEF RowsExact
    <2> QED BY <1>4, <2>2, <2>3, <2>4 DEF SessionInv
  <1>8. CASE FcProjLinear
    <2>1. /\ pc = "fcproj" /\ residual' = Add(residual, FcProj(layer, mlp_hidden))
          /\ layer' = layer + 1
          /\ pc' = IF layer + 1 < NumLayers THEN "qkv" ELSE "logits"
          /\ UNCHANGED <<cache, attention_output, mlp_hidden, logits>>
      BY <1>8 DEF FcProjLinear, AfterFcProj
    <2>2. layer \in Layers /\ layer \in Nat
      BY <1>1, <1>3, <2>1 DEF TypeOK, Layers
    <2>3. residual' = AfterMlp(layer, AfterAttention(layer, x, kvs))
      BY <1>1, <2>1 DEF RowsExact, AfterMlp
    <2>4. Hidden(layer + 1, Working) = AfterMlp(layer, AfterAttention(layer, x, kvs))
      BY <1>3, <2>2, HiddenFacts DEF Working
    <2>5. TypeOK'
      BY <1>1, <1>2, <1>3, <2>1, <2>2 DEF TypeOK, Layers
    <2>6. PublishedPrefixIntact'
      BY <1>1, <1>2, <2>1 DEF PublishedPrefixIntact
    <2>7. SlotsExact'
      <3>1. \A l \in Layers : l < layer + 1 => l < layer \/ l = layer
        BY <2>2 DEF Layers
      <3>2. \A l \in Layers : l = layer + 1 => pc' = "qkv"
        BY <1>3, <2>1 DEF Layers
      <3> QED BY <1>1, <1>2, <2>1, <3>1, <3>2 DEF SlotsExact
    <2>8. RowsExact'
      <3>1. residual' = Hidden(layer', Working')
        BY <1>2, <2>1, <2>3, <2>4
      <3>2. pc' = "logits" => layer' = NumLayers
        BY <1>3, <2>1, <2>2 DEF Layers
      <3>3. pc' \in {"qkv", "logits"}
        BY <2>1
      <3> QED BY <3>1, <3>2, <3>3 DEF RowsExact
    <2> QED BY <1>4, <2>5, <2>6, <2>7, <2>8 DEF SessionInv
  <1>9. CASE LogitsLinear
    <2>1. /\ pc = "logits" /\ pc' = "consumed" /\ logits' = Unembed(residual)
          /\ UNCHANGED <<cache, residual, attention_output, mlp_hidden, layer>>
      BY <1>9 DEF LogitsLinear, AfterLogits
    <2>2. TypeOK' /\ PublishedPrefixIntact'
      BY <1>1, <1>2, <2>1 DEF TypeOK, PublishedPrefixIntact
    <2>3. SlotsExact'
      BY <1>1, <1>2, <2>1 DEF SlotsExact
    <2>4. RowsExact'
      BY <1>1, <1>2, <2>1 DEF RowsExact
    <2> QED BY <1>4, <2>2, <2>3, <2>4 DEF SessionInv
  <1> QED BY <1>5, <1>6, <1>7, <1>8, <1>9

\* prefill's loop: every layer's slot at the old position is now an earlier one.
LEMMA NextPositionStep ==
    ASSUME SessionInv, NextPosition
    PROVE  SessionInv'
  <1>1. /\ TypeOK /\ PublishedPrefixIntact /\ SlotsExact /\ RowsExact
        /\ pc = "consumed" /\ op = "prefill"
    BY DEF SessionInv, NextPosition
  <1>2. /\ residual' = Embed(tokens[position + 2], position + 1)
        /\ position' = position + 1 /\ layer' = 0 /\ pc' = "qkv"
        /\ position + 1 < Len(tokens)
        /\ UNCHANGED <<size, cache, attention_output, mlp_hidden, logits, op, tokens,
                       outcome, history>>
    BY DEF NextPosition, Consume
  <1>3. /\ Target \in Seq(Vocabulary)
        /\ Len(Target) = Len(tokens) /\ Len(Target) <= Capacity /\ Len(tokens) \in Nat
        /\ position \in Nat /\ position + 1 \in 1..Len(Target)
        /\ position \in Positions /\ size = 0
        /\ NumLayers \in Nat \ {0}
    <2>1. size = 0 /\ tokens \in Seq(Vocabulary)
      BY <1>1 DEF TypeOK
    <2> QED BY <1>1, <2>1, TargetFacts
  <1>4. Target' = Target /\ Working' = SubSeq(Target, 1, position + 2)
    BY <1>2, <1>3 DEF Target, Working
  <1>5. Target[position + 2] = tokens[position + 2]
    <2>1. history \in Seq(Vocabulary) /\ tokens \in Seq(Vocabulary) /\ Len(history) = 0
      BY <1>1, <1>3 DEF TypeOK, PublishedPrefixIntact
    <2>2. position + 2 \in 1..Len(tokens)
      BY <1>2, <1>3
    <2>3. Target[Len(history) + (position + 2)] = tokens[position + 2]
      BY <2>1, <2>2, ConcatFacts DEF Target
    <2> QED BY <1>3, <2>1, <2>3
  <1>6. TypeOK'
    BY <1>1, <1>2, <1>3, SessionAssumption DEF TypeOK, Positions
  <1>7. PublishedPrefixIntact' /\ LogitsMatchForward'
    BY <1>1, <1>2 DEF PublishedPrefixIntact, LogitsMatchForward
  <1>8. SlotsExact'
    <2>1. \A l \in Layers : l < layer
      <3>1. layer = NumLayers
        BY <1>1 DEF RowsExact
      <3> QED BY <1>3, <3>1 DEF Layers
    <2>2. ASSUME NEW l \in Layers, NEW i \in 1 .. (position + 1)
          PROVE  cache[l][i - 1] = KV(l, Hidden(l, SubSeq(Target, 1, i)))
      <3>1. CASE i = position + 1
        BY <1>1, <1>3, <2>1, <3>1 DEF SlotsExact, Working
      <3>2. CASE i # position + 1
        <4>1. i \in 1..position
          BY <1>3, <3>2
        <4> QED BY <1>1, <4>1 DEF SlotsExact
      <3> QED BY <3>1, <3>2
    <2>3. \A l \in Layers : ~(l < layer' \/ (l = layer' /\ pc' # "qkv"))
      BY <1>2 DEF Layers
    <2> QED BY <1>2, <1>4, <2>2, <2>3 DEF SlotsExact
  <1>9. RowsExact'
    <2>1. 0 \in Layers /\ position + 2 \in 1..Len(Target)
      BY <1>2, <1>3 DEF Layers
    <2>2. Hidden(0, SubSeq(Target, 1, position + 2)) =
            Embed(Target[position + 2], (position + 2) - 1)
      BY <1>3, <2>1, HiddenFacts
    <2>3. (position + 2) - 1 = position + 1
      BY <1>3
    <2>4. Hidden(0, Working') = Embed(tokens[position + 2], position + 1)
      BY <1>4, <1>5, <2>2, <2>3
    <2>5. residual' = Hidden(layer', Working')
      BY <1>2, <2>4
    <2> QED BY <1>2, <2>5 DEF RowsExact
  <1> QED BY <1>6, <1>7, <1>8, <1>9 DEF SessionInv

\* The call succeeds: the target becomes the published prefix.
LEMMA PublishStep ==
    ASSUME SessionInv, Publish
    PROVE  SessionInv'
  <1>1. /\ TypeOK /\ PublishedPrefixIntact /\ SlotsExact /\ RowsExact
        /\ pc = "consumed"
    BY DEF SessionInv, Publish
  <1>2. /\ history' = Target /\ outcome' = "ok" /\ pc' = "idle"
        /\ tokens' = <<>> /\ position' = 0 /\ layer' = 0
        /\ UNCHANGED <<cache, logits, op>>
    BY DEF Publish, Leave, Target, scratch
  <1>3. /\ Target \in Seq(Vocabulary) /\ Len(Target) <= Capacity
        /\ position \in Nat /\ position + 1 \in 1..Len(Target)
        /\ NumLayers \in Nat \ {0}
        /\ Len(Target) = size + Len(tokens)
    BY <1>1, TargetFacts
  <1>4. size' = Len(Target) /\ position + 1 = Len(Target)
    <2>1. CASE op = "prefill"
      <3>1. size = 0 /\ position + 1 = Len(tokens) /\ size' = Len(tokens)
        BY <1>1, <2>1 DEF Publish, TypeOK
      <3>2. Len(tokens) \in Nat
        BY <1>1 DEF TypeOK
      <3> QED BY <1>3, <3>1, <3>2
    <2>2. CASE op = "decode"
      <3>1. Len(tokens) = 1 /\ size' = position + 1
        BY <1>1, <2>2 DEF Publish, TypeOK
      <3>2. position \in size .. (size + Len(tokens) - 1) /\ size \in Nat
        BY <1>1, SessionAssumption DEF TypeOK
      <3> QED BY <1>3, <3>1, <3>2
    <2> QED BY <1>1, <2>1, <2>2 DEF TypeOK
  <1>5. Working = Target /\ layer = NumLayers
    BY <1>1, <1>3, <1>4, PrefixFacts DEF Working, RowsExact
  <1>6. TypeOK'
    <2>1. Len(Target) \in 0..Capacity /\ 0 \in Positions /\ 0 \in 0..NumLayers
      BY <1>3, SessionAssumption DEF Positions
    <2> QED BY <1>1, <1>2, <1>3, <1>4, <2>1 DEF TypeOK
  <1>7. PublishedPrefixIntact'
    <2> SUFFICES ASSUME NEW l \in Layers, NEW i \in 1..Len(Target)
                 PROVE  cache[l][i - 1] = KV(l, Hidden(l, SubSeq(Target, 1, i)))
      BY <1>2, <1>4 DEF PublishedPrefixIntact
    <2>1. CASE i = position + 1
      <3>1. l < layer /\ i - 1 = position
        BY <1>3, <1>5, <2>1 DEF Layers
      <3> QED BY <1>1, <2>1, <3>1 DEF SlotsExact, Working
    <2>2. CASE i # position + 1
      <3>1. i \in 1..position
        BY <1>3, <1>4, <2>2
      <3> QED BY <1>1, <3>1 DEF SlotsExact
    <2> QED BY <2>1, <2>2
  <1>8. LogitsMatchForward'
    BY <1>1, <1>2, <1>5 DEF LogitsMatchForward, RowsExact, Logits
  <1> QED BY <1>2, <1>6, <1>7, <1>8 DEF SessionInv

\* The call fails: what it wrote lies at or above size_.
LEMMA ThrowStep ==
    ASSUME SessionInv, LinearThrows
    PROVE  SessionInv'
  <1>1. TypeOK /\ PublishedPrefixIntact
    BY DEF SessionInv
  <1>2. /\ outcome' = "worker_error" /\ pc' = "idle"
        /\ tokens' = <<>> /\ position' = 0 /\ layer' = 0
        /\ UNCHANGED <<size, cache, op, history>>
    BY DEF LinearThrows, LinearOps, Leave
  <1>3. TypeOK'
    BY <1>1, <1>2, SessionAssumption, TransformerAssumption DEF TypeOK, Positions
  <1>4. PublishedPrefixIntact' /\ LogitsMatchForward'
    BY <1>1, <1>2 DEF PublishedPrefixIntact, LogitsMatchForward
  <1> QED BY <1>2, <1>3, <1>4 DEF SessionInv

LEMMA StutterStep ==
    ASSUME SessionInv, UNCHANGED vars
    PROVE  SessionInv'
  BY DEF SessionInv, TypeOK, PublishedPrefixIntact, LogitsMatchForward, SlotsExact,
     RowsExact, Target, Working, vars, scratch

\* SessionInv holds throughout.
THEOREM SessionInductive == Spec => []SessionInv
  <1>1. Init => SessionInv
    BY InitSession
  <1>2. SessionInv /\ [Next]_vars => SessionInv'
    BY IdleSteps, StartSteps, LinearSteps, NextPositionStep, PublishStep, ThrowStep,
       StutterStep DEF Next, Step
  <1> QED BY <1>1, <1>2, PTL DEF Spec

\* No failure, reset or interleaving of calls damages a published slot.
THEOREM PublishedPrefixStaysIntact == Spec => []PublishedPrefixIntact
  <1>1. SessionInv => PublishedPrefixIntact
    BY DEF SessionInv
  <1> QED BY <1>1, SessionInductive, PTL

\* Cached decoding computes the logits of a full recomputation.
THEOREM CachedDecodingIsExact == Spec => []LogitsMatchForward
  <1>1. SessionInv => LogitsMatchForward
    BY DEF SessionInv
  <1> QED BY <1>1, SessionInductive, PTL

\* The size changes only in the last step of a successful call or by reset.
THEOREM SizeIsPublishedLast == Spec => OnlySuccessPublishes
  <1> DEFINE Ended == /\ pc' = "idle"
                      /\ outcome' = "ok" \/ (outcome' = "none" /\ size' = 0)
  <1>1. [Next]_vars => [size' # size => Ended]_vars
    <2> SUFFICES ASSUME Next, size' # size PROVE Ended
      OBVIOUS
    <2>1. Publish \/ Reset
      BY DEF Next, Step, RejectPrefill, Prefill, RejectDecode, Decode, QkvLinear, AfterQkv,
         AttProjLinear, AfterAttProj, FcLinear, AfterFc, FcProjLinear, AfterFcProj,
         LogitsLinear, AfterLogits, NextPosition, LinearThrows, LinearOps
    <2> QED BY <2>1 DEF Publish, Leave, Reset
  <1> QED BY <1>1, PTL DEF Spec, OnlySuccessPublishes

\* Every slot the code addresses exists, and the call in progress fits the
\* cache: KVCache::position_offset and layer_offset never throw out_of_range.
THEOREM SessionTypeCorrect == Spec => []TypeOK
  <1>1. SessionInv => TypeOK
    BY DEF SessionInv
  <1> QED BY <1>1, SessionInductive, PTL

-----------------------------------------------------------------------------
(* The session implements SessionService.                                  *)

\* The call in progress is one that a user may make in its state.
CallAccepted ==
    pc # "idle" => /\ op = "prefill" => tokens \in Prompts
                   /\ op = "decode" => size # 0

RefinementInv == SessionInv /\ CallAccepted

LEMMA InitRefines == Init => Service!Start
  BY DEF Init, Service!Start, answerBar

\* The scratch of the call in progress is not visible: only its first step,
\* which disturbs the view, and its last one are steps of the service.
LEMMA WorkingHidden ==
    ASSUME pc # "idle", pc' # "idle", history' = history, outcome' = outcome
    PROVE  UNCHANGED Service!sessionVars
  BY DEF Service!sessionVars, answerBar

LEMMA RejectionRefines ==
    ASSUME SessionInv,
           \/ \E prompt \in Prompts : RejectPrefill(prompt)
           \/ \E token \in TokenIds : RejectDecode(token)
    PROVE  Service!SessionNext
  <1>1. size = Len(history) /\ history \in Seq(Vocabulary)
    BY DEF SessionInv, TypeOK, PublishedPrefixIntact
  <1>2. size = 0 <=> history = <<>>
    BY <1>1
  <1>3. CASE \E prompt \in Prompts : RejectPrefill(prompt)
    <2>1. PICK prompt \in Prompts : RejectPrefill(prompt)
      BY <1>3
    <2>2. history' = history /\ answerBar' = answerBar
      BY <2>1 DEF RejectPrefill, answerBar, scratch
    <2>3. \/ outcome' = "logic_error" /\ size # 0
          \/ outcome' = "invalid_argument" /\ prompt = <<>>
          \/ outcome' = "length_error" /\ Len(prompt) > Capacity
          \/ outcome' = "invalid_argument" /\ \E i \in DOMAIN prompt : prompt[i] \notin Vocabulary
      BY <2>1 DEF RejectPrefill, PrefillError, ValidToken
    <2>4. Service!PrefillRefused(prompt)
      BY <1>2, <2>2, <2>3 DEF Service!PrefillRefused
    <2> QED BY <2>4 DEF Service!SessionNext
  <1>4. CASE \E token \in TokenIds : RejectDecode(token)
    <2>1. PICK token \in TokenIds : RejectDecode(token)
      BY <1>4
    <2>2. history' = history /\ answerBar' = answerBar
      BY <2>1 DEF RejectDecode, answerBar, scratch
    <2>3. \/ outcome' = "logic_error" /\ size = 0
          \/ outcome' = "invalid_argument" /\ token \notin Vocabulary
          \/ outcome' = "length_error" /\ size = Capacity
      BY <2>1 DEF RejectDecode, DecodeError, ValidToken
    <2>4. Service!DecodeRefused(token)
      BY <1>1, <1>2, <2>2, <2>3 DEF Service!DecodeRefused
    <2> QED BY <2>4 DEF Service!SessionNext
  <1> QED BY <1>3, <1>4

LEMMA StartRefines ==
    ASSUME \/ \E prompt \in Prompts : Prefill(prompt)
           \/ \E token \in TokenIds : Decode(token)
    PROVE  Service!SessionNext
  <1>1. pc' = "qkv" /\ history' = history /\ outcome' = outcome
    BY DEF Prefill, Decode, Consume
  <1>2. answerBar' = Torn
    BY <1>1 DEF answerBar
  <1> QED BY <1>1, <1>2 DEF Service!SessionNext, Service!Disturb

LEMMA ResetRefines == Reset => Service!SessionNext
  <1> SUFFICES ASSUME Reset PROVE Service!SessionNext
    OBVIOUS
  <1>1. history' = <<>> /\ outcome' = "none" /\ size' = 0
    BY DEF Reset
  <1>2. answerBar' = Torn
    BY <1>1 DEF answerBar
  <1> QED BY <1>1, <1>2 DEF Service!SessionNext, Service!Cleared

LEMMA ThrowRefines ==
    ASSUME SessionInv, LinearThrows
    PROVE  Service!SessionNext
  <1>1. size = Len(history) /\ history \in Seq(Vocabulary)
    BY DEF SessionInv, TypeOK, PublishedPrefixIntact
  <1>2. history' = history /\ size' = size /\ outcome' = "worker_error"
    BY DEF LinearThrows, LinearOps
  <1>3. \/ answerBar' = Torn
        \/ size' > 0 /\ answerBar' = Logits(history')
    BY DEF answerBar
  <1>4. \/ answerBar' = Torn
        \/ history # <<>> /\ answerBar' = Logits(history)
    BY <1>1, <1>2, <1>3
  <1> QED BY <1>2, <1>4 DEF Service!SessionNext, Service!Failed

\* The last step of a call appends its whole argument and answers for it.
LEMMA PublishRefines ==
    ASSUME RefinementInv, Publish, SessionInv'
    PROVE  Service!SessionNext
  <1>1. /\ size = Len(history) /\ history \in Seq(Vocabulary)
        /\ tokens \in Seq(Vocabulary) /\ size \in Nat /\ Capacity \in Nat
        /\ size + Len(tokens) <= Capacity /\ position \in size .. (size + Len(tokens) - 1)
        /\ op \in {"prefill", "decode"}
        /\ op = "prefill" => size = 0
        /\ op = "decode" => Len(tokens) = 1
    BY SessionAssumption, TransformerAssumption
       DEF RefinementInv, SessionInv, TypeOK, PublishedPrefixIntact, Publish
  <1>2. /\ history' = history \o tokens /\ outcome' = "ok" /\ pc' = "idle"
        /\ size' > 0
    BY <1>1 DEF Publish, Leave
  <1>3. answerBar' = Logits(history')
    BY <1>2 DEF SessionInv, LogitsMatchForward, answerBar
  <1>4. Service!Consumed(tokens)
    BY <1>2, <1>3 DEF Service!Consumed
  <1>5. tokens # <<>> /\ \A i \in DOMAIN tokens : tokens[i] \in Vocabulary
    BY <1>1
  <1>6. CASE op = "prefill"
    <2>1. tokens \in Prompts
      BY <1>6 DEF RefinementInv, CallAccepted, Publish
    <2>2. Service!Prefilled(tokens)
      BY <1>1, <1>4, <1>5, <1>6 DEF Service!Prefilled
    <2> QED BY <2>1, <2>2 DEF Service!SessionNext
  <1>7. CASE op = "decode"
    <2>1. history # <<>> /\ Len(history) < Capacity
      BY <1>1, <1>7 DEF RefinementInv, CallAccepted, Publish
    <2>2. tokens = <<tokens[1]>> /\ tokens[1] \in Vocabulary
      BY <1>1, <1>7
    <2>3. Service!Decoded(tokens[1])
      BY <1>4, <2>1, <2>2 DEF Service!Decoded
    <2> QED BY <2>2, <2>3, SessionAssumption DEF Service!SessionNext
  <1> QED BY <1>1, <1>6, <1>7

LEMMA AcceptedStep ==
    ASSUME RefinementInv, [Next]_vars
    PROVE  CallAccepted'
  <1>1. CASE \E prompt \in Prompts : Prefill(prompt)
    BY <1>1 DEF CallAccepted, Prefill
  <1>2. CASE \E token \in TokenIds : Decode(token)
    BY <1>2 DEF CallAccepted, Decode, DecodeError
  <1>3. CASE NextPosition
    BY <1>3 DEF RefinementInv, CallAccepted, NextPosition
  <1>4. CASE QkvLinear \/ AttProjLinear \/ FcLinear \/ FcProjLinear \/ LogitsLinear
    BY <1>4 DEF RefinementInv, CallAccepted, QkvLinear, AfterQkv, AttProjLinear,
       AfterAttProj, FcLinear, AfterFc, FcProjLinear, AfterFcProj, LogitsLinear,
       AfterLogits
  <1>5. CASE Publish \/ LinearThrows
    BY <1>5 DEF CallAccepted, Publish, LinearThrows, LinearOps, Leave
  <1>6. CASE \/ \E prompt \in Prompts : RejectPrefill(prompt)
             \/ \E token \in TokenIds : RejectDecode(token)
             \/ Reset
    BY <1>6 DEF CallAccepted, RejectPrefill, RejectDecode, Reset
  <1>7. CASE UNCHANGED vars
    BY <1>7 DEF RefinementInv, CallAccepted, vars
  <1> QED BY <1>1, <1>2, <1>3, <1>4, <1>5, <1>6, <1>7 DEF Next, Step

LEMMA StepRefines ==
    ASSUME RefinementInv, SessionInv', [Next]_vars
    PROVE  [Service!SessionNext]_(Service!sessionVars)
  <1> USE DEF RefinementInv
  <1>1. CASE \/ QkvLinear \/ AttProjLinear \/ FcLinear \/ FcProjLinear \/ LogitsLinear
             \/ NextPosition
    <2>1. pc # "idle" /\ pc' # "idle" /\ history' = history /\ outcome' = outcome
      BY <1>1 DEF QkvLinear, AfterQkv, AttProjLinear, AfterAttProj,
       FcLinear, AfterFc, FcProjLinear, AfterFcProj, LogitsLinear, AfterLogits,
         NextPosition, Consume
    <2> QED BY <2>1, WorkingHidden
  <1>2. CASE UNCHANGED vars
    BY <1>2 DEF vars, scratch, Service!sessionVars, answerBar
  <1> QED BY <1>1, <1>2, RejectionRefines, StartRefines, ResetRefines, ThrowRefines,
             PublishRefines DEF Next, Step

\* prefill and decode are atomic to their callers: a call appends its whole
\* argument and answers for the new prefix, or fails for the documented reason
\* and changes nothing.
THEOREM SessionImplementsService == Spec => ImplementsSession
  <1>1. Init => RefinementInv
    BY InitSession DEF Init, RefinementInv, CallAccepted
  <1>2. RefinementInv /\ SessionInv' /\ [Next]_vars => RefinementInv'
    BY AcceptedStep DEF RefinementInv
  <1>3. Init => Service!Start
    BY InitRefines
  <1>4. RefinementInv /\ SessionInv' /\ [Next]_vars =>
           [Service!SessionNext]_(Service!sessionVars)
    BY StepRefines
  <1> QED BY <1>1, <1>2, <1>3, <1>4, SessionInductive, PTL
             DEF Spec, ImplementsSession, Service!SessionSpec

-----------------------------------------------------------------------------
(* The session on a shared executor.                                       *)

\* The current operation computes a whole vector of the session.
LEMMA OperationFacts ==
    ASSUME pc \in LinearOps
    PROVE  /\ Operation # NoCall
           /\ Operation.output \in SessionVectors /\ Operation.output \in Vectors
           /\ Operation.op = pc
           /\ Operation.width \in Nat /\ Operation.width <= Longest
           /\ Operation.output = "logits" <=> pc = "logits"
           /\ pc = "logits" => Operation.width = VocabularySize
  <1>1. Operation.op = pc /\ Operation.output = OutputVector[pc]
        /\ Operation.width = OutputCount[pc]
    BY DEF Operation
  <1>2. Operation # NoCall
    BY <1>1 DEF NoCall, LinearOps
  <1>3. OutputVector[pc] \in SessionVectors /\ (OutputVector[pc] = "logits" <=> pc = "logits")
    BY DEF OutputVector, SessionVectors, LinearOps
  <1>4. /\ OutputCount[pc] \in Nat /\ OutputCount[pc] <= Longest
        /\ pc = "logits" => OutputCount[pc] = VocabularySize
    BY SharedAssumption DEF OutputCount, LinearOps
  <1> QED BY <1>1, <1>2, <1>3, <1>4 DEF Vectors

\* The row of the current operation is the operand of its successor.
LEMMA RowFacts ==
    ASSUME pc \in LinearOps
    PROVE  /\ pc = "qkv" => RowOf(Operation) = <<Query(layer, residual), KV(layer, residual)>>
           /\ pc = "attproj" => RowOf(Operation) = AttProj(layer, attention_output)
           /\ pc = "fc" => RowOf(Operation) = Fc(layer, residual)
           /\ pc = "fcproj" => RowOf(Operation) = FcProj(layer, mlp_hidden)
           /\ pc = "logits" => RowOf(Operation) = Unembed(residual)
  <1>1. Operation.op = pc /\ Operation.layer = layer /\ Operation.row = Operand
    BY DEF Operation
  <1> QED BY <1>1 DEF RowOf, Operand

\* Serving a call changes nothing outside its output.
LEMMA OutsideOutput ==
    ASSUME NEW r, Executor!Frame(r), NEW b \in Vectors, b # r.output, NEW c \in Places
    PROVE  memory'[b][c] = memory[b][c]
  BY DEF Executor!Frame, Executor!Written

LEMMA SharedInitInv == SharedInit => SharedInv
  <1> SUFFICES ASSUME SharedInit PROVE SharedInv
    OBVIOUS
  <1>1. /\ phase = [p \in Threads |-> "idle"]
        /\ call = [p \in Threads |-> NoCall] /\ fault = [p \in Threads |-> NoCall]
    BY DEF SharedInit, Executor!ServiceInit
  <1>2. pc = "idle" /\ outcome = "none"
    BY DEF SharedInit, Init
  <1>3. Session \in Threads /\ Others \subseteq Threads
    BY DEF Threads
  <1> QED BY <1>1, <1>2, <1>3 DEF SharedInv

\* Between its operations the session has no call in the executor; it changes
\* logits_ in none of these steps, and returns only after its last operation.
LEMMA SessionAloneStep == SharedInv /\ SessionAlone => SharedInv'
  <1> SUFFICES ASSUME SharedInv, SessionAlone PROVE SharedInv'
    OBVIOUS
  <1> DEFINE Alone ==
        \/ \E prompt \in Prompts : RejectPrefill(prompt) \/ Prefill(prompt)
        \/ \E token \in TokenIds : RejectDecode(token) \/ Decode(token)
        \/ Reset \/ NextPosition \/ Publish
  <1>1. Alone /\ UNCHANGED <<phase, call, fault, memory>>
    BY DEF SessionAlone, executorVars
  <1>2. pc \in {"idle", "consumed"} /\ logits' = logits
    BY <1>1 DEF RejectPrefill, Prefill, RejectDecode, Decode, Reset, NextPosition,
                Publish, scratch
  <1>3. phase[Session] = "idle"
    BY <1>2 DEF SharedInv, LinearOps
  <1>4. pc' = "consumed" \/ (pc' = "idle" /\ outcome' = "ok") => LogitsHeld
    <2>1. \A prompt \in Prompts : RejectPrefill(prompt) => pc' = "idle" /\ outcome' # "ok"
      BY DEF RejectPrefill, PrefillError
    <2>2. \A token \in TokenIds : RejectDecode(token) => pc' = "idle" /\ outcome' # "ok"
      BY DEF RejectDecode, DecodeError
    <2>3. (\E prompt \in Prompts : Prefill(prompt)) \/ (\E token \in TokenIds : Decode(token))
          \/ NextPosition => pc' = "qkv"
      BY DEF Prefill, Decode, NextPosition, Consume
    <2>4. Reset => outcome' = "none" /\ pc' = "idle"
      BY DEF Reset
    <2>5. Publish => pc = "consumed"
      BY DEF Publish
    <2> QED BY <1>1, <2>1, <2>2, <2>3, <2>4, <2>5 DEF SharedInv
  <1>5. LogitsHeld => LogitsHeld'
    BY <1>1, <1>2 DEF LogitsHeld
  <1> QED BY <1>1, <1>3, <1>4, <1>5 DEF SharedInv

LEMMA CallStep == SharedInv /\ CallLinear => SharedInv'
  <1> SUFFICES ASSUME SharedInv, CallLinear PROVE SharedInv'
    OBVIOUS
  <1>1. /\ phase' = [phase EXCEPT ![Session] = "queued"]
        /\ call' = [call EXCEPT ![Session] = Operation]
        /\ fault' = [fault EXCEPT ![Session] = NoCall]
    BY DEF CallLinear, Executor!Ask
  <1>2. pc \in LinearOps /\ pc' = pc /\ Operation' = Operation
    BY DEF CallLinear, vars, scratch, Operation, Operand
  <1>3. Session \in Threads /\ \A q \in Others : q \in Threads /\ q # Session
    BY SharedAssumption DEF Threads
  <1>4. ~ (pc' = "consumed" \/ pc' = "idle")
    BY <1>2 DEF LinearOps
  <1> QED BY <1>1, <1>2, <1>3, <1>4 DEF SharedInv

\* A call of linear() that returns hands the session the row it asked for.
LEMMA ReturnRefines ==
    ASSUME SharedInv, LinearReturns
    PROVE  /\ pc \in LinearOps /\ Holds(Operation)
           /\ \/ QkvLinear \/ AttProjLinear \/ FcLinear \/ FcProjLinear
              \/ LogitsLinear
  <1>1. phase[Session] = "done" /\ fault[Session] = NoCall
    BY DEF LinearReturns, Executor!Resume
  <1>2. pc \in LinearOps /\ call[Session] = Operation /\ Holds(Operation)
    BY <1>1 DEF SharedInv
  <1>3. LET row == RowOf(Operation)
        IN  \/ AfterQkv(row[1], row[2]) \/ AfterAttProj(row) \/ AfterFc(row)
            \/ AfterFcProj(row) \/ AfterLogits(row)
    BY <1>2 DEF LinearReturns, GoOn
  <1>4. ASSUME AfterQkv(RowOf(Operation)[1], RowOf(Operation)[2]) PROVE QkvLinear
    <2>1. pc = "qkv"
      BY <1>4 DEF AfterQkv
    <2>2. RowOf(Operation)[1] = Query(layer, residual)
          /\ RowOf(Operation)[2] = KV(layer, residual)
      BY <1>2, <2>1, RowFacts
    <2> QED BY <1>4, <2>2 DEF QkvLinear
  <1>5. ASSUME AfterAttProj(RowOf(Operation)) PROVE AttProjLinear
    BY <1>2, <1>5, RowFacts DEF AfterAttProj, AttProjLinear
  <1>6. ASSUME AfterFc(RowOf(Operation)) PROVE FcLinear
    BY <1>2, <1>6, RowFacts DEF AfterFc, FcLinear
  <1>7. ASSUME AfterFcProj(RowOf(Operation)) PROVE FcProjLinear
    BY <1>2, <1>7, RowFacts DEF AfterFcProj, FcProjLinear
  <1>8. ASSUME AfterLogits(RowOf(Operation)) PROVE LogitsLinear
    BY <1>2, <1>8, RowFacts DEF AfterLogits, LogitsLinear
  <1> QED BY <1>2, <1>3, <1>4, <1>5, <1>6, <1>7, <1>8

LEMMA ReturnStep == SharedInv /\ LinearReturns => SharedInv'
  <1> SUFFICES ASSUME SharedInv, LinearReturns PROVE SharedInv'
    OBVIOUS
  <1>1. /\ phase' = [phase EXCEPT ![Session] = "idle"]
        /\ UNCHANGED <<call, fault, memory>>
    BY DEF LinearReturns, Executor!Resume
  <1>2. Session \in Threads /\ \A q \in Others : q \in Threads /\ q # Session
    BY SharedAssumption DEF Threads
  <1>3. pc' = "consumed" \/ (pc' = "idle" /\ outcome' = "ok") => LogitsHeld'
    <2>1. QkvLinear \/ AttProjLinear \/ FcLinear \/ FcProjLinear =>
             pc' \notin {"consumed", "idle"}
      BY DEF QkvLinear, AfterQkv, AttProjLinear, AfterAttProj, FcLinear, AfterFc,
             FcProjLinear, AfterFcProj
    <2>2. ASSUME LogitsLinear PROVE LogitsHeld'
      <3>1. pc = "logits" /\ logits' = Unembed(residual)
        BY <2>2 DEF LogitsLinear, AfterLogits
      <3>2. /\ Operation.output = "logits" /\ Operation.width = VocabularySize
            /\ RowOf(Operation) = Unembed(residual) /\ Holds(Operation)
        BY <3>1, ReturnRefines, OperationFacts, RowFacts
      <3> QED BY <1>1, <3>1, <3>2 DEF Holds, ChannelOf, LogitsHeld
    <2> QED BY <2>1, <2>2, ReturnRefines
  <1> QED BY <1>1, <1>2, <1>3 DEF SharedInv

LEMMA RethrowStep == SharedInv /\ LinearRethrows => SharedInv'
  <1> SUFFICES ASSUME SharedInv, LinearRethrows PROVE SharedInv'
    OBVIOUS
  <1>1. /\ phase' = [phase EXCEPT ![Session] = "idle"]
        /\ UNCHANGED <<call, fault, memory>>
    BY DEF LinearRethrows, Executor!Resume
  <1>2. Session \in Threads /\ \A q \in Others : q \in Threads /\ q # Session
    BY SharedAssumption DEF Threads
  <1>3. pc' = "idle" /\ outcome' = "worker_error"
    BY DEF LinearRethrows, LinearThrows, Leave
  <1> QED BY <1>1, <1>2, <1>3 DEF SharedInv

\* Serving a call of another thread leaves the session's vectors alone.
LEMMA OthersStayOutside ==
    ASSUME NEW r \in OtherCalls, Executor!Frame(r), NEW b \in SessionVectors,
           NEW c \in Places
    PROVE  memory'[b][c] = memory[b][c]
  <1>1. b \in Vectors /\ b # r.output
    BY SharedAssumption DEF Vectors
  <1> QED BY <1>1, OutsideOutput

LEMMA ServeStep ==
    ASSUME SharedInv, NEW p \in Threads, ExecutorServes(p)
    PROVE  SharedInv'
  <1>1. /\ pc' = pc /\ outcome' = outcome /\ logits' = logits
        /\ Operation' = Operation /\ RowOf(Operation)' = RowOf(Operation)
    BY DEF ExecutorServes, vars, scratch, Operation, Operand, RowOf
  <1>2. Executor!Serve(p) \/ Executor!Succeed(p) \/ Executor!Fail(p)
    BY DEF ExecutorServes
  <1>3. Executor!Frame(call[p]) /\ phase[p] \in {"queued", "served"} /\ call' = call
    BY <1>2 DEF Executor!Serve, Executor!Succeed, Executor!Fail
  <1>4. Session \in Threads /\ \A q \in Others : q \in Threads /\ q # Session
    BY SharedAssumption DEF Threads
  <1>5. \A c \in 0 .. (VocabularySize - 1) : c \in Places
    BY SharedAssumption DEF Places
  <1>6. CASE p = Session
    <2>1. pc \in LinearOps /\ call[Session] = Operation /\ fault[Session] = NoCall
      BY <1>3, <1>6 DEF SharedInv
    <2>2. pc' \notin {"idle", "consumed"}
      BY <1>1, <2>1 DEF LinearOps
    <2>3. CASE Executor!Serve(Session)
      <3>1. phase' = [phase EXCEPT ![Session] = "served"] /\ fault' = fault
        BY <2>3 DEF Executor!Serve
      <3> QED BY <1>1, <1>3, <1>4, <2>1, <2>2, <3>1 DEF SharedInv
    <2>4. CASE Executor!Succeed(Session)
      <3>1. phase' = [phase EXCEPT ![Session] = "done"] /\ fault' = fault
        BY <2>4 DEF Executor!Succeed
      <3>2. \A c \in 0 .. (Operation.width - 1) :
               memory'[Operation.output][c] = [of |-> RowOf(Operation), channel |-> c]
        <4> SUFFICES ASSUME NEW c \in 0 .. (Operation.width - 1)
                     PROVE  memory'[Operation.output][c] = ChannelOf(Operation, c)
          BY DEF ChannelOf
        <4> DEFINE x == <<Operation.output, c>>
        <4>1. x \in Executor!Written(Operation)
          BY DEF Executor!Written, WidthOf
        <4>2. memory'[x[1]][x[2]] = ChannelOf(Operation, x[2])
          BY <2>1, <2>4, <4>1 DEF Executor!Succeed
        <4> QED BY <4>2
      <3>3. Holds(Operation)'
        BY <1>1, <3>2 DEF Holds, ChannelOf
      <3> QED BY <1>1, <1>3, <1>4, <2>1, <2>2, <3>1, <3>3 DEF SharedInv
    <2>5. CASE Executor!Fail(Session)
      <3>1. /\ phase' = [phase EXCEPT ![Session] = "done"]
            /\ fault' = [fault EXCEPT ![Session] = Operation]
        BY <2>1, <2>5 DEF Executor!Fail
      <3>2. Operation # NoCall
        BY <2>1, OperationFacts
      <3> QED BY <1>1, <1>3, <1>4, <2>1, <2>2, <3>1, <3>2 DEF SharedInv
    <2> QED BY <1>2, <1>6, <2>3, <2>4, <2>5
  <1>7. CASE p \in Others
    <2>1. call[p] \in OtherCalls /\ p # Session
      BY <1>3, <1>4, <1>7 DEF SharedInv
    <2>2. /\ phase' \in [Threads -> {"idle", "queued", "served", "done"}]
          /\ DOMAIN fault' = Threads
          /\ phase'[Session] = phase[Session] /\ fault'[Session] = fault[Session]
          /\ \A q \in Others : phase'[q] # "idle" => phase[q] # "idle"
      BY <1>2, <1>3, <1>4, <2>1
         DEF SharedInv, Executor!Serve, Executor!Succeed, Executor!Fail
    <2>3. \A b \in SessionVectors, c \in Places : memory'[b][c] = memory[b][c]
      BY <1>3, <2>1, OthersStayOutside
    <2>4. LogitsHeld => LogitsHeld'
      BY <1>1, <1>5, <2>3 DEF LogitsHeld, SessionVectors
    <2>5. pc \in LinearOps /\ Holds(Operation) => Holds(Operation)'
      <3>1. pc \in LinearOps => /\ Operation.output \in SessionVectors
                                /\ \A c \in 0 .. (Operation.width - 1) : c \in Places
        BY OperationFacts, SharedAssumption DEF Places
      <3> QED BY <1>1, <2>3, <3>1 DEF Holds, ChannelOf
    <2> QED BY <1>1, <1>3, <2>2, <2>4, <2>5 DEF SharedInv
  <1> QED BY <1>6, <1>7 DEF Threads

LEMMA OtherCallerStep ==
    ASSUME SharedInv, NEW q \in Others, OtherCaller(q)
    PROVE  SharedInv'
  <1>1. /\ UNCHANGED memory /\ pc' = pc /\ outcome' = outcome /\ logits' = logits
        /\ Operation' = Operation /\ RowOf(Operation)' = RowOf(Operation)
    BY DEF OtherCaller, vars, scratch, Operation, Operand, RowOf, Executor!Refuse,
           Executor!Ask, Executor!Resume
  <1>2. q \in Threads /\ q # Session /\ Session \in Threads /\ Others \subseteq Threads
    BY SharedAssumption DEF Threads
  <1>3. /\ phase' \in [Threads -> {"idle", "queued", "served", "done"}]
        /\ DOMAIN call' = Threads /\ DOMAIN fault' = Threads
        /\ phase'[Session] = phase[Session]
        /\ call'[Session] = call[Session] /\ fault'[Session] = fault[Session]
        /\ \A o \in Others : phase'[o] # "idle" => call'[o] \in OtherCalls
    BY <1>2 DEF SharedInv, OtherCaller, Executor!Refuse, Executor!Ask, Executor!Resume
  <1>4. Holds(Operation)' <=> Holds(Operation)
    BY <1>1 DEF Holds, ChannelOf
  <1>5. LogitsHeld' <=> LogitsHeld
    BY <1>1 DEF LogitsHeld
  <1> QED BY <1>1, <1>3, <1>4, <1>5 DEF SharedInv

LEMMA SharedStutter == SharedInv /\ UNCHANGED sharedVars => SharedInv'
  <1> SUFFICES ASSUME SharedInv, UNCHANGED sharedVars PROVE SharedInv'
    OBVIOUS
  <1>1. /\ UNCHANGED <<phase, call, fault, memory, pc, outcome, logits>>
        /\ Operation' = Operation /\ RowOf(Operation)' = RowOf(Operation)
    BY DEF sharedVars, executorVars, vars, scratch, Operation, Operand, RowOf
  <1>2. Holds(Operation)' <=> Holds(Operation)
    BY <1>1 DEF Holds, ChannelOf
  <1> QED BY <1>1, <1>2 DEF SharedInv, LogitsHeld

\* The executor answers the operation the session is at, with its error or its
\* row, however the other threads' calls come in between.
THEOREM SharedInductive == SharedSpec => []SharedInv
  <1>1. SharedInit => SharedInv
    BY SharedInitInv
  <1>2. SharedInv /\ [SharedNext]_sharedVars => SharedInv'
    BY SessionAloneStep, CallStep, ReturnStep, RethrowStep, ServeStep, OtherCallerStep,
       SharedStutter DEF SharedNext
  <1> QED BY <1>1, <1>2, PTL DEF SharedSpec

\* Every step of the shared system is a step of InferenceSession or none of it.
THEOREM SharingChangesNothing == SharedSpec => SharingIsTransparent
  <1>1. SharedInit => Init
    BY DEF SharedInit
  <1>2. SharedInv /\ [SharedNext]_sharedVars => [Next]_vars
    <2> SUFFICES ASSUME SharedInv, [SharedNext]_sharedVars PROVE [Next]_vars
      OBVIOUS
    <2>1. SessionAlone => Next
      BY DEF SessionAlone, Next, Step
    <2>2. LinearReturns => Next
      BY ReturnRefines DEF Next, Step
    <2>3. LinearRethrows => Next
      BY DEF LinearRethrows, Next, Step
    <2>4. CallLinear \/ (\E p \in Threads : ExecutorServes(p))
          \/ (\E q \in Others : OtherCaller(q)) => UNCHANGED vars
      BY DEF CallLinear, ExecutorServes, OtherCaller
    <2>5. UNCHANGED sharedVars => UNCHANGED vars
      BY DEF sharedVars
    <2> QED BY <2>1, <2>2, <2>3, <2>4, <2>5 DEF SharedNext
  <1> QED BY <1>1, <1>2, SharedInductive, PTL DEF SharedSpec, SharingIsTransparent

\* The view that a call returned keeps showing the logits of the whole history.
THEOREM ViewStaysValidShared == SharedSpec => []ViewStaysValid
  <1>1. SharedInv /\ LogitsMatchForward => ViewStaysValid
    BY DEF SharedInv, LogitsMatchForward, LogitsHeld, ViewStaysValid
  <1>2. SharingIsTransparent => Spec
    BY DEF SharingIsTransparent, Spec
  <1> QED BY <1>1, <1>2, SharedInductive, SharingChangesNothing, CachedDecodingIsExact, PTL

\* Cached decoding is exact on an executor that other threads use too.
THEOREM SharedDecodingIsExact == SharedSpec => []LogitsMatchForward
  <1>1. SharingIsTransparent => Spec
    BY DEF SharingIsTransparent, Spec
  <1> QED BY <1>1, SharingChangesNothing, CachedDecodingIsExact, PTL

\* To its users, the session on a shared executor is still SessionService.
THEOREM SharedSessionImplementsService == SharedSpec => ImplementsSession
  <1>1. SharingIsTransparent => Spec
    BY DEF SharingIsTransparent, Spec
  <1> QED BY <1>1, SharingChangesNothing, SessionImplementsService, PTL
=============================================================================
