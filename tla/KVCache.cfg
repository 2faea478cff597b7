SPECIFICATION Spec
CONSTANTS
    SizeMax = 103
    Indices = {0, 1, 2}
    Widths = {2, 3, 20, 60}
    Rows = {r1, r2}
    FloatBytes = 4
    Zero = Zero
INVARIANTS
    TypeOK
    OffsetsInside
    AttentionReadsSlots
PROPERTY
    StoreReplacesOneSlot
