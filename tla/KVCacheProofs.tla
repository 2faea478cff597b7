---------------------------- MODULE KVCacheProofs ---------------------------
(***************************************************************************)
(* The flat cache is an array of independent slots, for every number of    *)
(* layers, positions and channels that the constructor accepts.            *)
(***************************************************************************)
EXTENDS KVCache, SizeArithmeticProofs

-----------------------------------------------------------------------------
(* The arithmetic of a slot: layer m of L, position q of P, C channels.    *)

\* The slot lies inside its layer and the layer inside the vector.
LEMMA SlotInside ==
    ASSUME NEW L \in Nat, NEW P \in Nat, NEW C \in Nat,
           NEW m \in 0 .. (L - 1), NEW q \in 0 .. (P - 1)
    PROVE  /\ P * C \in Nat /\ L * (P * C) \in Nat
           /\ m * (P * C) \in Nat /\ m * (P * C) + P * C <= L * (P * C)
           /\ q * C \in Nat /\ q * C + C <= P * C
  <1>1. q * C \in Nat /\ P * C \in Nat /\ q * C + C <= P * C
    BY BlockInside
  <1> DEFINE size == P * C
  <1>2. size \in Nat
    BY <1>1
  <1> HIDE DEF size
  <1>3. m * size \in Nat /\ L * size \in Nat /\ m * size + size <= L * size
    BY <1>2, BlockInside
  <1> QED BY <1>1, <1>3 DEF size

\* Two slots have no element in common.
LEMMA SlotsApart ==
    ASSUME NEW L \in Nat, NEW P \in Nat, NEW C \in Nat,
           NEW m \in 0 .. (L - 1), NEW q \in 0 .. (P - 1),
           NEW n \in 0 .. (L - 1), NEW r \in 0 .. (P - 1),
           <<m, q>> # <<n, r>>
    PROVE  \/ m * (P * C) + q * C + C <= n * (P * C) + r * C
           \/ n * (P * C) + r * C + C <= m * (P * C) + q * C
  <1> DEFINE size == P * C
  <1>1. /\ size \in Nat
        /\ m * size \in Nat /\ q * C \in Nat /\ q * C + C <= size
        /\ n * size \in Nat /\ r * C \in Nat /\ r * C + C <= size
    BY SlotInside
  <1> HIDE DEF size
  <1>2. CASE m < n
    <2>1. m * size + size <= n * size
      BY <1>1, <1>2, BlockInside
    <2> QED BY <1>1, <2>1 DEF size
  <1>3. CASE n < m
    <2>1. n * size + size <= m * size
      BY <1>1, <1>3, BlockInside
    <2> QED BY <1>1, <2>1 DEF size
  <1>4. CASE m = n /\ q < r
    <2>1. q * C + C <= r * C
      BY <1>4, BlockInside
    <2> QED BY <1>1, <1>4, <2>1 DEF size
  <1>5. CASE m = n /\ r < q
    <2>1. r * C + C <= q * C
      BY <1>5, BlockInside
    <2> QED BY <1>1, <1>5, <2>1 DEF size
  <1>6. m < n \/ n < m \/ (m = n /\ q < r) \/ (m = n /\ r < q)
    OBVIOUS
  <1> QED BY <1>2, <1>3, <1>4, <1>5, <1>6

-----------------------------------------------------------------------------
(* Type correctness.                                                       *)

LEMMA InitType == Init => TypeOK
  BY SizeAssumption DEF Init, TypeOK, Sizes, NoCache

\* The constructor computes the exact sizes, or throws.
LEMMA ConstructType ==
    ASSUME TypeOK, NEW l \in Indices, NEW p \in Indices, NEW w \in Widths,
           Construct(l, p, w)
    PROVE  TypeOK'
  <1> DEFINE layer_count == CheckedMultiply(p, w)
             total == CheckedMultiply(l, layer_count)
             both == CheckedMultiply(2, total)
             bytes == CheckedMultiply(both, FloatBytes)
  <1>1. CASE outcome' \in {"invalid_argument", "overflow_error", "bad_alloc"}
             /\ UNCHANGED <<dims, floats>>
    BY <1>1 DEF TypeOK, dims
  <1>2. CASE /\ l # 0 /\ p # 0 /\ w # 0
             /\ bytes # Overflow
             /\ num_layers' = l /\ capacity' = p /\ channels' = w
             /\ layer_float_count' = layer_count
             /\ storage_float_count' = both
             /\ floats' = [i \in 0 .. (total - 1) |-> [row |-> Zero, channel |-> 0]]
             /\ outcome' = "ok"
    <2>1. both # Overflow /\ total # Overflow /\ layer_count # Overflow
      BY <1>2, FactorsFit
    <2>2. /\ l \in Sizes /\ p \in Sizes /\ w \in Sizes /\ FloatBytes \in Sizes
          /\ 2 \in Sizes /\ SizeMax \in Nat
      BY CacheAssumption, SizeAssumption DEF Sizes
    <2>3. layer_count = p * w /\ layer_count \in Sizes
      BY <2>1, <2>2, CheckedProduct
    <2>4. total = l * layer_count /\ total \in Sizes
      BY <2>1, <2>2, <2>3, CheckedProduct
    <2>5. both = 2 * total /\ both \in Sizes
      BY <2>1, <2>2, <2>4, CheckedProduct
    <2>6. bytes = both * FloatBytes /\ bytes \in Sizes
      BY <1>2, <2>2, <2>5, CheckedProduct
    <2> HIDE DEF bytes, both, total, layer_count
    <2>7. l \in Nat \ {0} /\ p \in Nat \ {0} /\ w \in Nat \ {0}
      BY <1>2, <2>2 DEF Sizes
    <2>8. layer_count \in Nat \ {0} /\ total \in Nat \ {0}
      <3>1. layer_count \in Nat \ {0}
        <4>1. 1 * w <= p * w
          BY <2>7, MulMono
        <4> QED BY <2>3, <2>7, <4>1
      <3>2. total \in Nat \ {0}
        <4>1. 1 * layer_count <= l * layer_count
          BY <2>7, <3>1, MulMono
        <4> QED BY <2>4, <2>7, <3>1, <4>1
      <3> QED BY <3>1, <3>2
    <2>9. FloatBytes * both <= SizeMax
      BY <2>2, <2>5, <2>6 DEF Sizes
    <2>10. DOMAIN floats' = 0 .. (total - 1) /\ 0 \in DOMAIN floats'
      BY <1>2, <2>8
    <2>11. floats' # NoCache
      <3>1. 0 \in DOMAIN floats'
        BY <2>10
      <3> QED BY <3>1 DEF NoCache
    <2>12. \A i \in DOMAIN floats' :
              floats'[i] \in [row : Rows \cup {Zero}, channel : 0 .. (channels' - 1)]
      BY <1>2, <2>7, <2>10
    <2>13. /\ num_layers' \in Sizes /\ capacity' \in Sizes /\ channels' \in Sizes
           /\ layer_float_count' \in Sizes /\ storage_float_count' \in Sizes
      BY <1>2, <2>2, <2>3, <2>5
    <2>14. /\ num_layers' > 0 /\ capacity' > 0 /\ channels' > 0
           /\ layer_float_count' = capacity' * channels'
           /\ storage_float_count' = 2 * (num_layers' * layer_float_count')
           /\ FloatBytes * storage_float_count' <= SizeMax
           /\ DOMAIN floats' = 0 .. (num_layers' * layer_float_count' - 1)
      BY <1>2, <2>3, <2>4, <2>5, <2>7, <2>9, <2>10
    <2> QED BY <1>2, <2>11, <2>12, <2>13, <2>14 DEF TypeOK
  <1> QED BY <1>1, <1>2 DEF Construct

\* A store that is accepted copies a row of the cache's width.
LEMMA StoreType ==
    ASSUME TypeOK, NEW l \in Indices, NEW p \in Indices, NEW row \in Rows,
           NEW w \in Widths, NEW vw \in Widths, Store(l, p, row, w, vw)
    PROVE  TypeOK'
  <1> DEFINE first == PositionOffset(l, p)
  <1>1. /\ floats # NoCache
        /\ outcome' = StoreError(l, p, w, vw)
        /\ floats' = IF outcome' # "ok" THEN floats
                     ELSE [i \in DOMAIN floats |->
                             IF i \in first .. (first + w - 1)
                             THEN [row |-> row, channel |-> i - first] ELSE floats[i]]
        /\ UNCHANGED <<num_layers, capacity, channels, layer_float_count,
                       storage_float_count>>
    BY DEF Store, dims
  <1>2. outcome' \in {"ok", "invalid_argument", "out_of_range"}
    BY <1>1 DEF StoreError
  <1>3. CASE outcome' # "ok"
    BY <1>1, <1>2, <1>3 DEF TypeOK
  <1>4. CASE outcome' = "ok"
    <2>1. w = channels
      BY <1>1, <1>4 DEF StoreError
    <2>2. DOMAIN floats' = DOMAIN floats
      BY <1>1, <1>4
    <2>3. /\ num_layers > 0 /\ DOMAIN floats = 0 .. (num_layers * layer_float_count - 1)
          /\ num_layers \in Nat /\ layer_float_count \in Nat /\ channels \in Nat
          /\ capacity > 0 /\ channels > 0 /\ layer_float_count = capacity * channels
          /\ capacity \in Nat
      BY <1>1, SizeAssumption DEF TypeOK, Sizes
    <2>4. 0 \in DOMAIN floats
      <3>1. 1 * channels <= capacity * channels
        BY <2>3, MulMono
      <3>2. 1 * layer_float_count <= num_layers * layer_float_count
        BY <2>3, MulMono
      <3> QED BY <2>3, <3>1, <3>2
    <2>5. floats' # NoCache
      BY <2>2, <2>4 DEF NoCache
    <2>6. first \in Nat
      <3>1. l \in Nat /\ p \in Nat /\ SizeMax \in Nat
        BY CacheAssumption, SizeAssumption DEF Sizes
      <3>2. l * layer_float_count \in Nat /\ p * channels \in Nat
        BY <2>3, <3>1
      <3> DEFINE x == l * layer_float_count
                 y == p * channels
      <3> HIDE DEF x, y
      <3>3. SizeT(x) \in Nat /\ SizeT(y) \in Nat
        BY <3>1, <3>2 DEF x, y, SizeT
      <3>4. SizeT(SizeT(x) + SizeT(y)) \in Nat
        BY <3>1, <3>3 DEF SizeT
      <3> QED BY <3>4 DEF x, y, PositionOffset, LayerOffset
    <2> HIDE DEF first
    <2>7. ASSUME NEW i \in DOMAIN floats
          PROVE  floats'[i] \in [row : Rows \cup {Zero}, channel : 0 .. (channels - 1)]
      <3>1. CASE i \in first .. (first + w - 1)
        <4>1. floats'[i] = [row |-> row, channel |-> i - first]
          BY <1>1, <1>4, <3>1
        <4>2. i - first \in 0 .. (channels - 1)
          <5>1. i \in first .. (first + channels - 1)
            BY <2>1, <3>1
          <5> QED BY <2>3, <2>6, <5>1
        <4> QED BY <4>1, <4>2
      <3>2. CASE i \notin first .. (first + w - 1)
        <4>1. floats'[i] = floats[i]
          BY <1>1, <1>4, <3>2
        <4> QED BY <1>1, <4>1 DEF TypeOK
      <3> QED BY <3>1, <3>2
    <2> QED BY <1>1, <1>2, <2>2, <2>5, <2>7 DEF TypeOK
  <1> QED BY <1>3, <1>4

LEMMA DestroyType ==
    ASSUME TypeOK, Destroy
    PROVE  TypeOK'
  BY SizeAssumption DEF Destroy, TypeOK, Sizes

\* The sizes are exact, within what a size_t holds, and the vector has them.
THEOREM CacheTypeCorrect == Spec => []TypeOK
  <1>1. Init => TypeOK
    BY InitType
  <1>2. TypeOK /\ [Next]_vars => TypeOK'
    <2> SUFFICES ASSUME TypeOK, [Next]_vars PROVE TypeOK'
      OBVIOUS
    <2>1. CASE UNCHANGED vars
      BY <2>1 DEF TypeOK, vars, dims
    <2> QED BY <2>1, ConstructType, StoreType, DestroyType DEF Next
  <1> QED BY <1>1, <1>2, PTL DEF Spec

-----------------------------------------------------------------------------
(* Addressing.                                                             *)

\* The dimensions of a cache that exists.
LEMMA CacheShape ==
    ASSUME TypeOK, floats # NoCache
    PROVE  /\ num_layers \in Nat \ {0} /\ capacity \in Nat \ {0} /\ channels \in Nat \ {0}
           /\ layer_float_count = capacity * channels
           /\ DOMAIN floats = 0 .. (num_layers * (capacity * channels) - 1)
           /\ num_layers * (capacity * channels) \in 0..SizeMax
           /\ SizeMax \in Nat
  <1> DEFINE layer_size == capacity * channels
             total == num_layers * layer_size
  <1>1. /\ num_layers \in Nat \ {0} /\ capacity \in Nat \ {0} /\ channels \in Nat \ {0}
        /\ layer_float_count = layer_size
        /\ storage_float_count = 2 * (num_layers * layer_float_count)
        /\ storage_float_count \in Sizes
        /\ DOMAIN floats = 0 .. (num_layers * layer_float_count - 1)
        /\ SizeMax \in Nat
    BY SizeAssumption DEF TypeOK, Sizes
  <1>2. layer_size \in Nat
    BY <1>1
  <1> HIDE DEF layer_size
  <1>3. total \in Nat
    BY <1>1, <1>2
  <1>4. 2 * total \in 0..SizeMax /\ DOMAIN floats = 0 .. (total - 1)
    BY <1>1 DEF Sizes
  <1> HIDE DEF total
  <1>5. total \in 0..SizeMax
    BY <1>1, <1>3, <1>4
  <1> QED BY <1>1, <1>4, <1>5 DEF layer_size, total

\* No offset the cache computes wraps.
LEMMA OffsetsExact ==
    ASSUME TypeOK, floats # NoCache, NEW l \in Layers, NEW p \in Positions
    PROVE  /\ LayerOffset(l) = l * (capacity * channels)
           /\ SizeT(p * channels) = p * channels
           /\ PositionOffset(l, p) = l * (capacity * channels) + p * channels
  <1> DEFINE size == capacity * channels
             base == l * size
             row == p * channels
  <1>1. /\ num_layers \in Nat /\ capacity \in Nat /\ channels \in Nat /\ SizeMax \in Nat
        /\ layer_float_count = size /\ num_layers * size \in 0..SizeMax
    BY CacheShape
  <1>2. /\ size \in Nat /\ base \in Nat /\ base + size <= num_layers * size
        /\ row \in Nat /\ row + channels <= size
    BY <1>1, SlotInside DEF Layers, Positions
  <1>3. LayerOffset(l) = SizeT(base)
    BY <1>1 DEF LayerOffset
  <1>4. PositionOffset(l, p) = SizeT(LayerOffset(l) + SizeT(row))
    BY DEF PositionOffset
  <1> HIDE DEF size, base, row
  <1>5. base \in 0..SizeMax /\ row \in 0..SizeMax /\ base + row \in 0..SizeMax
    BY <1>1, <1>2
  <1>6. SizeT(base) = base /\ SizeT(row) = row /\ SizeT(base + row) = base + row
    BY <1>5, SizeTFits
  <1>7. LayerOffset(l) = base /\ SizeT(row) = row /\ PositionOffset(l, p) = base + row
    BY <1>3, <1>4, <1>6
  <1> QED BY <1>7 DEF size, base, row

\* Every slot and every layer lies inside the vectors.
LEMMA InsideType == TypeOK => OffsetsInside
  <1> SUFFICES ASSUME TypeOK, floats # NoCache, NEW l \in Layers
               PROVE  /\ LayerOffset(l) + layer_float_count - 1 \in DOMAIN floats
                      /\ \A p \in Positions :
                            /\ PositionOffset(l, p) = (l * capacity + p) * channels
                            /\ PositionOffset(l, p) + channels - 1 \in DOMAIN floats
    BY DEF OffsetsInside
  <1> DEFINE size == capacity * channels
             total == num_layers * size
             base == l * size
  <1>1. /\ num_layers \in Nat \ {0} /\ capacity \in Nat \ {0} /\ channels \in Nat \ {0}
        /\ layer_float_count = size /\ DOMAIN floats = 0 .. (total - 1)
        /\ l \in Nat
    BY CacheShape DEF Layers
  <1>2. ASSUME NEW p \in Positions
        PROVE  /\ p * channels \in Nat /\ p * channels + channels <= size
               /\ size \in Nat /\ base \in Nat /\ total \in Nat /\ base + size <= total
               /\ LayerOffset(l) = base /\ PositionOffset(l, p) = base + p * channels
               /\ base + p * channels = (l * capacity + p) * channels
    <2>1. p \in Nat
      BY DEF Positions
    <2>2. /\ p * channels \in Nat /\ p * channels + channels <= size
          /\ size \in Nat /\ base \in Nat /\ total \in Nat /\ base + size <= total
      BY <1>1, SlotInside DEF Layers, Positions
    <2>3. LayerOffset(l) = base /\ PositionOffset(l, p) = base + p * channels
      BY OffsetsExact
    <2>4. l * (capacity * channels) + p * channels = (l * capacity + p) * channels
      BY <1>1, <2>1
    <2> QED BY <2>2, <2>3, <2>4
  <1>3. 0 \in Positions
    BY <1>1 DEF Positions
  <1> HIDE DEF size, base, total
  <1>4. size \in Nat \ {0} /\ base \in Nat /\ total \in Nat /\ base + size <= total
        /\ LayerOffset(l) = base
    BY <1>1, <1>2, <1>3
  <1>5. LayerOffset(l) + layer_float_count - 1 \in DOMAIN floats
    BY <1>1, <1>4
  <1>6. ASSUME NEW p \in Positions
        PROVE  /\ PositionOffset(l, p) = (l * capacity + p) * channels
               /\ PositionOffset(l, p) + channels - 1 \in DOMAIN floats
    <2> DEFINE row == p * channels
    <2>1. /\ row \in Nat /\ row + channels <= size
          /\ PositionOffset(l, p) = base + row
          /\ base + row = (l * capacity + p) * channels
      BY <1>2
    <2> HIDE DEF row
    <2> QED BY <1>1, <1>4, <2>1
  <1> QED BY <1>5, <1>6

\* The offsets that store and key rely on do not wrap, and every slot is
\* inside keys_ and values_.
THEOREM OffsetsStayInside == Spec => []OffsetsInside
  BY CacheTypeCorrect, InsideType, PTL

\* The element of a head in a row: heads of equal size tile the channels.
LEMMA HeadInside ==
    ASSUME NEW C \in Nat \ {0}, NEW heads \in 1..C, C % heads = 0,
           NEW head \in 0 .. (heads - 1), NEW i \in 0 .. (C \div heads - 1)
    PROVE  /\ head * (C \div heads) \in Nat /\ i \in Nat
           /\ head * (C \div heads) + i < C
  <1> DEFINE size == C \div heads
  <1>1. size \in Nat /\ C = heads * size + (C % heads)
    <2>1. heads \in Nat \ {0} /\ C \in Nat
      OBVIOUS
    <2> QED BY <2>1, Euclid
  <1> HIDE DEF size
  <1>2. head * size \in Nat /\ head * size + size <= heads * size
    BY <1>1, BlockInside
  <1>3. i \in 0 .. (size - 1)
    BY DEF size
  <1>4. C = heads * size
    BY <1>1, <1>2
  <1>5. head * size \in Nat /\ i \in Nat /\ head * size + i < C
    BY <1>1, <1>2, <1>3, <1>4
  <1> QED BY <1>5 DEF size

\* Attention's own offsets meet the slots.
LEMMA ReadsType == TypeOK => AttentionReadsSlots
  <1> SUFFICES ASSUME TypeOK, floats # NoCache, NEW l \in Layers, NEW p \in Positions,
                      NEW heads \in 1..channels, channels % heads = 0,
                      NEW head \in 0 .. (heads - 1),
                      NEW i \in 0 .. (channels \div heads - 1)
               PROVE  LET head_size == channels \div heads
                      IN  LayerKeys(l)[AttentionIndex(p, head_size, head, i)] =
                             Key(l, p)[head * head_size + i]
    BY DEF AttentionReadsSlots
  <1> DEFINE head_size == channels \div heads
             size == capacity * channels
             total == num_layers * size
             base == l * size
             row == p * channels
             part == head * head_size
  <1>1. /\ num_layers \in Nat /\ capacity \in Nat /\ channels \in Nat \ {0}
        /\ SizeMax \in Nat /\ layer_float_count = size /\ total \in 0..SizeMax
    BY CacheShape
  <1>2. part \in Nat /\ i \in Nat /\ part + i < channels
    BY <1>1, HeadInside
  <1>3. /\ size \in Nat /\ base \in Nat /\ base + size <= total
        /\ row \in Nat /\ row + channels <= size
    BY <1>1, SlotInside DEF Layers, Positions
  <1>4. LayerOffset(l) = base /\ PositionOffset(l, p) = base + row
    BY OffsetsExact
  <1>5. AttentionIndex(p, head_size, head, i) = SizeT(SizeT(row) + SizeT(part) + i)
    BY DEF AttentionIndex
  <1>6. LayerKeys(l) = [x \in 0 .. (size - 1) |-> floats[base + x]]
    BY <1>1, <1>4 DEF LayerKeys, Subspan
  <1>7. Key(l, p) = [x \in 0 .. (channels - 1) |-> floats[base + row + x]]
    BY <1>4 DEF Key, Subspan
  <1> HIDE DEF head_size, size, total, base, row, part
  <1>8. /\ row \in 0..SizeMax /\ part \in 0..SizeMax /\ row + part + i \in 0..SizeMax
        /\ row + part + i \in 0 .. (size - 1)
        /\ part + i \in 0 .. (channels - 1)
    BY <1>1, <1>2, <1>3
  <1>9. SizeT(SizeT(row) + SizeT(part) + i) = row + part + i
    <2>1. SizeT(row) = row /\ SizeT(part) = part
      BY <1>8, SizeTFits
    <2>2. SizeT(row + part + i) = row + part + i
      BY <1>8, SizeTFits
    <2> QED BY <2>1, <2>2
  <1>10. LayerKeys(l)[row + part + i] = floats[base + (row + part + i)]
    BY <1>6, <1>8
  <1>11. Key(l, p)[part + i] = floats[base + row + (part + i)]
    BY <1>7, <1>8
  <1>12. base + (row + part + i) = base + row + (part + i)
    BY <1>2, <1>3
  <1>13. LayerKeys(l)[AttentionIndex(p, head_size, head, i)] = Key(l, p)[part + i]
    BY <1>5, <1>9, <1>10, <1>11, <1>12
  <1> QED BY <1>13 DEF head_size, part

\* Attention reads, for every head, the elements of the slot it means.
THEOREM AttentionMeetsSlots == Spec => []AttentionReadsSlots
  BY CacheTypeCorrect, ReadsType, PTL

-----------------------------------------------------------------------------
(* Independence of the slots.                                              *)

\* The rows the slots hold after a step that keeps the dimensions.
LEMMA SlotsAfter ==
    ASSUME UNCHANGED dims
    PROVE  /\ Slots' = [l \in Layers |-> [p \in Positions |-> RowAt(l, p)']]
           /\ \A l \in Layers, p \in Positions :
                 Key(l, p)' = [x \in 0 .. (channels - 1) |-> floats'[PositionOffset(l, p) + x]]
  <1>1. UNCHANGED <<num_layers, capacity, channels, layer_float_count>>
    BY DEF dims
  <1>2. Layers' = Layers /\ Positions' = Positions
    BY <1>1 DEF Layers, Positions
  <1>3. Slots' = [l \in Layers |-> [p \in Positions |-> RowAt(l, p)']]
    BY <1>2 DEF Slots
  <1>4. ASSUME NEW l \in Layers, NEW p \in Positions
        PROVE  Key(l, p)' = [x \in 0 .. (channels - 1) |-> floats'[PositionOffset(l, p) + x]]
    BY <1>1 DEF Key, Subspan, PositionOffset, LayerOffset
  <1> QED BY <1>3, <1>4

\* A slot whose elements are kept keeps its row.
LEMMA RowKept ==
    ASSUME UNCHANGED dims, NEW l \in Layers, NEW p \in Positions,
           \A x \in 0 .. (channels - 1) :
              floats'[PositionOffset(l, p) + x] = floats[PositionOffset(l, p) + x]
    PROVE  RowAt(l, p)' = RowAt(l, p)
  <1>1. Key(l, p)' = [x \in 0 .. (channels - 1) |-> floats'[PositionOffset(l, p) + x]]
    BY SlotsAfter
  <1>2. Key(l, p)' = Key(l, p)
    BY <1>1 DEF Key, Subspan
  <1> QED BY <1>2 DEF RowAt

\* store() replaces one slot: the other slots have no element in common with
\* the range it copies to.
LEMMA StoreSlots ==
    ASSUME TypeOK, NEW l \in Indices, NEW p \in Indices, NEW row \in Rows,
           NEW w \in Widths, NEW vw \in Widths, Store(l, p, row, w, vw)
    PROVE  IF l \in Layers /\ p \in Positions /\ {w, vw} = {channels}
           THEN Slots' = [Slots EXCEPT ![l][p] = row]
           ELSE dims' = dims /\ floats' = floats
  <1> DEFINE first == PositionOffset(l, p)
  <1>1. /\ floats # NoCache
        /\ outcome' = StoreError(l, p, w, vw)
        /\ floats' = IF outcome' # "ok" THEN floats
                     ELSE [i \in DOMAIN floats |->
                             IF i \in first .. (first + w - 1)
                             THEN [row |-> row, channel |-> i - first] ELSE floats[i]]
        /\ UNCHANGED dims
    BY DEF Store
  <1>2. /\ num_layers \in Nat \ {0} /\ capacity \in Nat \ {0} /\ channels \in Nat \ {0}
        /\ DOMAIN floats = 0 .. (num_layers * (capacity * channels) - 1)
    BY <1>1, CacheShape
  <1>3. l \in Nat /\ p \in Nat
    BY CacheAssumption, SizeAssumption DEF Sizes
  <1>4. outcome' = "ok" <=> l \in Layers /\ p \in Positions /\ {w, vw} = {channels}
    <2>1. outcome' = "ok" <=> /\ w = channels /\ vw = channels
                              /\ ~(p >= capacity) /\ ~(l >= num_layers)
      BY <1>1 DEF StoreError
    <2>2. (~(p >= capacity) <=> p \in Positions) /\ (~(l >= num_layers) <=> l \in Layers)
      BY <1>2, <1>3 DEF Layers, Positions
    <2>3. {w, vw} = {channels} <=> w = channels /\ vw = channels
      OBVIOUS
    <2> QED BY <2>1, <2>2, <2>3
  <1>5. CASE outcome' # "ok"
    BY <1>1, <1>4, <1>5
  <1>6. CASE outcome' = "ok"
    <2>1. /\ l \in Layers /\ p \in Positions
          /\ floats' = [i \in DOMAIN floats |->
                          IF i \in first .. (first + channels - 1)
                          THEN [row |-> row, channel |-> i - first] ELSE floats[i]]
      BY <1>1, <1>4, <1>6
    <2>2. ASSUME NEW m \in Layers, NEW q \in Positions
          PROVE  /\ PositionOffset(m, q) = m * (capacity * channels) + q * channels
                 /\ PositionOffset(m, q) \in Nat
                 /\ \A x \in 0 .. (channels - 1) : PositionOffset(m, q) + x \in DOMAIN floats
      <3> DEFINE size == capacity * channels
                 total == num_layers * size
                 base == m * size
                 at == q * channels
      <3>1. PositionOffset(m, q) = base + at
        BY <1>1, OffsetsExact
      <3>2. /\ base \in Nat /\ at \in Nat /\ size \in Nat /\ total \in Nat
            /\ base + size <= total /\ at + channels <= size
        BY <1>2, SlotInside DEF Layers, Positions
      <3>3. DOMAIN floats = 0 .. (total - 1)
        BY <1>2
      <3> HIDE DEF size, total, base, at
      <3>4. \A x \in 0 .. (channels - 1) : base + at + x \in DOMAIN floats
        BY <1>2, <3>2, <3>3
      <3>5. PositionOffset(m, q) \in Nat
        BY <3>1, <3>2
      <3> QED BY <3>1, <3>4, <3>5 DEF base, at, size
    <2>3. RowAt(l, p)' = row
      <3>1. Key(l, p)' = [x \in 0 .. (channels - 1) |-> floats'[first + x]]
        BY <1>1, <2>1, SlotsAfter
      <3>2. first \in Nat /\ \A x \in 0 .. (channels - 1) : first + x \in DOMAIN floats
        BY <2>1, <2>2
      <3> HIDE DEF first
      <3>3. ASSUME NEW x \in 0 .. (channels - 1)
            PROVE  floats'[first + x] = [row |-> row, channel |-> x]
        <4>1. first + x \in first .. (first + channels - 1) /\ (first + x) - first = x
          BY <1>2, <3>2
        <4> QED BY <2>1, <3>2, <4>1
      <3>4. Key(l, p)' = [x \in 0 .. (channels - 1) |-> [row |-> row, channel |-> x]]
        BY <3>1, <3>3
      <3>5. 0 \in 0 .. (channels - 1)
        BY <1>2
      <3> QED BY <3>4, <3>5 DEF RowAt
    <2>4. ASSUME NEW m \in Layers, NEW q \in Positions, <<m, q>> # <<l, p>>
          PROVE  RowAt(m, q)' = RowAt(m, q)
      <3> DEFINE other == PositionOffset(m, q)
      <3>1. other + channels <= first \/ first + channels <= other
        <4> DEFINE a == m * (capacity * channels) + q * channels
                   b == l * (capacity * channels) + p * channels
        <4>1. a + channels <= b \/ b + channels <= a
          <5>1. /\ m \in 0 .. (num_layers - 1) /\ q \in 0 .. (capacity - 1)
                /\ l \in 0 .. (num_layers - 1) /\ p \in 0 .. (capacity - 1)
            BY <2>1 DEF Layers, Positions
          <5>2. num_layers \in Nat /\ capacity \in Nat /\ channels \in Nat
            BY <1>2
          <5> QED BY <2>4, <5>1, <5>2, SlotsApart
        <4>2. other = a /\ first = b
          BY <2>1, <2>2
        <4> QED BY <4>1, <4>2
      <3>2. first \in Nat /\ other \in Nat
            /\ \A x \in 0 .. (channels - 1) : other + x \in DOMAIN floats
        BY <2>1, <2>2
      <3> HIDE DEF other, first
      <3>3. ASSUME NEW x \in 0 .. (channels - 1)
            PROVE  floats'[other + x] = floats[other + x]
        <4>1. other + x \notin first .. (first + channels - 1)
          BY <1>2, <3>1, <3>2
        <4> QED BY <2>1, <3>2, <4>1
      <3> QED BY <1>1, <3>3, RowKept DEF other
    <2>5. Slots' = [m \in Layers |-> [q \in Positions |-> RowAt(m, q)']]
      BY <1>1, SlotsAfter
    <2>6. Slots' = [Slots EXCEPT ![l][p] = row]
      <3> DEFINE after == Slots'
      <3>1. after = [m \in Layers |-> [q \in Positions |->
                       IF m = l /\ q = p THEN row ELSE RowAt(m, q)]]
        <4>1. \A m \in Layers, q \in Positions :
                 RowAt(m, q)' = IF m = l /\ q = p THEN row ELSE RowAt(m, q)
          BY <2>3, <2>4
        <4> QED BY <2>5, <4>1
      <3>2. [Slots EXCEPT ![l][p] = row] =
               [m \in Layers |-> [q \in Positions |->
                  IF m = l /\ q = p THEN row ELSE RowAt(m, q)]]
        BY <2>1 DEF Slots
      <3> QED BY <3>1, <3>2
    <2> QED BY <1>4, <1>6, <2>6
  <1> QED BY <1>5, <1>6

\* The cache behaves as an array of slots.
THEOREM StoresAreIndependent == Spec => StoreReplacesOneSlot
  <1> DEFINE OneSlot ==
        \A l, p \in Indices, row \in Rows, kw, vw \in Widths :
           Store(l, p, row, kw, vw) =>
              IF l \in Layers /\ p \in Positions /\ {kw, vw} = {channels}
              THEN Slots' = [Slots EXCEPT ![l][p] = row]
              ELSE dims' = dims /\ floats' = floats
  <1>1. TypeOK => [OneSlot]_vars
    BY StoreSlots
  <1> QED BY <1>1, CacheTypeCorrect, PTL DEF StoreReplacesOneSlot
=============================================================================
