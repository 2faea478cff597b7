------------------------------ MODULE KVCache -------------------------------
(***************************************************************************)
(* class KVCache of src/session.cpp: the slots of a session's cache in one *)
(* flat vector.  Only the constructor's arithmetic is checked; offsets are *)
(* computed without checks, and attention computes its own from the span   *)
(* of a whole layer.  keys_ and values_ are always written and read at the *)
(* same index, so an element of floats stands for both; the two rows of a  *)
(* store still have a width each, as the caller passes two spans.          *)
(***************************************************************************)
EXTENDS SizeArithmetic

CONSTANTS
    Indices,     \* layers and positions, and their numbers, in a caller's calls
    Widths,      \* numbers of channels
    Rows,        \* identities of the pairs of rows a caller stores
    FloatBytes,  \* sizeof(float)
    Zero

ASSUME CacheAssumption ==
    /\ Indices \subseteq Sizes /\ Widths \subseteq Sizes
    /\ FloatBytes \in Sizes \ {0}
    /\ SizeMax >= 2
    /\ Zero \notin Rows

VARIABLES
    num_layers, capacity, channels, layer_float_count, storage_float_count,
    floats,   \* keys_ and values_, with no element while there is no cache
    outcome   \* how the last call ended

dims == <<num_layers, capacity, channels, layer_float_count, storage_float_count>>
vars == <<dims, floats, outcome>>

\* No cache has been constructed: a constructed one has at least one float.
NoCache == <<>>

-----------------------------------------------------------------------------
(* The offsets, as the code computes them.                                 *)

\* Mutant: the offset of a layer counts positions, not floats.
LayerOffsetInPositions(layer) == SizeT(layer * capacity)

LayerOffset(layer) == SizeT(layer * layer_float_count)

PositionOffset(layer, position) ==
    SizeT(LayerOffset(layer) + SizeT(position * channels))

\* floats.subspan(offset, count), given that it is in bounds.
Subspan(offset, count) == [i \in 0 .. (count - 1) |-> floats[offset + i]]

Key(layer, position) == Subspan(PositionOffset(layer, position), channels)

LayerKeys(layer) == Subspan(LayerOffset(layer), layer_float_count)

\* Mutant: attention strides over a layer by the size of a head.
AttentionIndexByHead(source, head_size, head, index) ==
    SizeT(SizeT(source * head_size) + SizeT(head * head_size) + index)

\* The element of layer_keys that cached_self_attention reads.
AttentionIndex(source, head_size, head, index) ==
    SizeT(SizeT(source * channels) + SizeT(head * head_size) + index)

-----------------------------------------------------------------------------
Init ==
    /\ num_layers = 0 /\ capacity = 0 /\ channels = 0
    /\ layer_float_count = 0 /\ storage_float_count = 0
    /\ floats = NoCache
    /\ outcome = "none"

\* The constructor; a failed one leaves no object.  "bad_alloc" stands for any
\* failure of the two resize() calls.
Construct(layers, positions, width) ==
    LET layer_count == CheckedMultiply(positions, width)
        total == CheckedMultiply(layers, layer_count)
        both == CheckedMultiply(2, total)
        bytes == CheckedMultiply(both, FloatBytes)
    IN  /\ floats = NoCache
        /\ \/ /\ layers = 0 \/ positions = 0 \/ width = 0
              /\ outcome' = "invalid_argument"
              /\ UNCHANGED <<dims, floats>>
           \/ /\ layers # 0 /\ positions # 0 /\ width # 0
              /\ bytes = Overflow
              /\ outcome' = "overflow_error"
              /\ UNCHANGED <<dims, floats>>
           \/ /\ layers # 0 /\ positions # 0 /\ width # 0
              /\ bytes # Overflow
              /\ outcome' = "bad_alloc"
              /\ UNCHANGED <<dims, floats>>
           \/ /\ layers # 0 /\ positions # 0 /\ width # 0
              /\ bytes # Overflow
              /\ num_layers' = layers /\ capacity' = positions /\ channels' = width
              /\ layer_float_count' = layer_count
              /\ storage_float_count' = both
              /\ floats' = [i \in 0 .. (total - 1) |-> [row |-> Zero, channel |-> 0]]
              /\ outcome' = "ok"

\* Mutant: store checks the layer only.
StoreErrorLayerOnly(layer, position, key_width, value_width) ==
    IF key_width # channels \/ value_width # channels THEN "invalid_argument"
    ELSE IF layer >= num_layers THEN "out_of_range"
    ELSE "ok"

\* The checks of store, position_offset and layer_offset, in this order.
StoreError(layer, position, key_width, value_width) ==
    IF key_width # channels \/ value_width # channels THEN "invalid_argument"
    ELSE IF position >= capacity \/ layer >= num_layers THEN "out_of_range"
    ELSE "ok"

\* store(): std::copy of a key row and a value row to the slot's offset.
Store(layer, position, row, key_width, value_width) ==
    LET first == PositionOffset(layer, position)
    IN  /\ floats # NoCache
        /\ outcome' = StoreError(layer, position, key_width, value_width)
        /\ floats' =
              IF outcome' # "ok" THEN floats
              ELSE [i \in DOMAIN floats |->
                      IF i \in first .. (first + key_width - 1)
                      THEN [row |-> row, channel |-> i - first] ELSE floats[i]]
        /\ UNCHANGED dims

Destroy ==
    /\ floats # NoCache
    /\ floats' = NoCache
    /\ outcome' = "none"
    /\ num_layers' = 0 /\ capacity' = 0 /\ channels' = 0
    /\ layer_float_count' = 0 /\ storage_float_count' = 0

Next ==
    \/ \E l, p \in Indices, w \in Widths : Construct(l, p, w)
    \/ \E l, p \in Indices, row \in Rows, kw, vw \in Widths : Store(l, p, row, kw, vw)
    \/ Destroy

Spec == Init /\ [][Next]_vars

-----------------------------------------------------------------------------
(* Properties.                                                             *)

Layers == 0 .. (num_layers - 1)
Positions == 0 .. (capacity - 1)

TypeOK ==
    /\ \A d \in {num_layers, capacity, channels, layer_float_count,
                 storage_float_count} : d \in Sizes
    /\ outcome \in {"none", "ok", "invalid_argument", "overflow_error", "out_of_range",
                    "bad_alloc"}
    /\ floats = NoCache => num_layers = 0
    /\ floats # NoCache =>
          /\ num_layers > 0 /\ capacity > 0 /\ channels > 0
          /\ layer_float_count = capacity * channels
          /\ storage_float_count = 2 * (num_layers * layer_float_count)
          /\ FloatBytes * storage_float_count <= SizeMax
          /\ DOMAIN floats = 0 .. (num_layers * layer_float_count - 1)
          /\ \A i \in DOMAIN floats :
                floats[i] \in [row : Rows \cup {Zero}, channel : 0 .. (channels - 1)]

\* "[layer][position][channel] in separate contiguous K and V vectors": no
\* offset wraps, and every slot and every layer lies in the vectors; the bytes
\* that cache_bytes() reports fit a size_t.
OffsetsInside ==
    floats # NoCache =>
        \A l \in Layers :
            /\ LayerOffset(l) + layer_float_count - 1 \in DOMAIN floats
            /\ \A p \in Positions :
                  /\ PositionOffset(l, p) = (l * capacity + p) * channels
                  /\ PositionOffset(l, p) + channels - 1 \in DOMAIN floats

\* Attention, which computes its own offsets into the span of a layer, reads
\* for every head exactly the elements of the slot at the source position.
AttentionReadsSlots ==
    floats # NoCache =>
        \A l \in Layers, p \in Positions, heads \in 1..channels :
            channels % heads = 0 =>
                LET head_size == channels \div heads
                IN  \A head \in 0 .. (heads - 1), i \in 0 .. (head_size - 1) :
                       LayerKeys(l)[AttentionIndex(p, head_size, head, i)] =
                          Key(l, p)[head * head_size + i]

\* The row a slot holds, if it is channel by channel that of one store.
RowAt(l, p) ==
    LET key == Key(l, p)
    IN  IF \A i \in DOMAIN key : key[i] = [row |-> key[0].row, channel |-> i]
        THEN key[0].row ELSE Zero

Slots == [l \in Layers |-> [p \in Positions |-> RowAt(l, p)]]

\* The cache is an array of independent slots, as InferenceSession uses it, in
\* spite of the flat vector: storing at a layer and a position replaces that
\* slot and no other, and a call with arguments out of range changes nothing.
StoreReplacesOneSlot ==
    [][\A l, p \in Indices, row \in Rows, kw, vw \in Widths :
          Store(l, p, row, kw, vw) =>
             IF l \in Layers /\ p \in Positions /\ {kw, vw} = {channels}
             THEN Slots' = [Slots EXCEPT ![l][p] = row]
             ELSE dims' = dims /\ floats' = floats]_vars
=============================================================================
