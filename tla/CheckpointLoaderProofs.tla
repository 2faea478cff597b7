----------------------- MODULE CheckpointLoaderProofs -----------------------
(***************************************************************************)
(* A checkpoint that loads is complete, and every slice the forward passes *)
(* take of its weights is in bounds, for every header, file and size_t.    *)
(***************************************************************************)
EXTENDS CheckpointLoader, SizeArithmeticProofs

-----------------------------------------------------------------------------
(* Configurations and shapes.                                              *)

AcceptedConfigs == {c \in {ConfigOf(h) : h \in Headers} : Valid(c)}

\* The dimensions of a configuration that passes validate().
LEMMA ConfigTyped ==
    ASSUME NEW c \in AcceptedConfigs
    PROVE  /\ \A d \in Dimensions : c[d] \in Sizes /\ c[d] \in Nat \ {0}
           /\ c.vocabulary_size <= c.padded_vocabulary_size
           /\ SizeMax \in Nat
  <1>1. PICK h \in Headers : c = ConfigOf(h)
    BY DEF AcceptedConfigs
  <1>2. Valid(c)
    BY DEF AcceptedConfigs
  <1>3. h \in HeaderType /\ SizeMax \in Nat
    BY LoaderAssumption, SizeAssumption
  <1>4. ASSUME NEW d \in Dimensions
        PROVE  c[d] \in Int /\ c[d] <= SizeMax
    <2>1. \A f \in Dimensions : h[f] \in Int /\ h[f] <= SizeMax
      <3>1. Dimensions \subseteq DOMAIN h \ {"magic"}
        BY <1>3 DEF HeaderType, Dimensions
      <3>2. \A f \in Dimensions : h[f] \in Int
        BY <1>3 DEF HeaderType, Dimensions
      <3> QED BY <3>1, <3>2, LoaderAssumption
    <2>2. c[d] = h[d] \/ c[d] = h["vocabulary_size"]
      BY <1>1, <1>3 DEF ConfigOf, HeaderType, Dimensions
    <2> QED BY <2>1, <2>2 DEF Dimensions
  <1>5. \A d \in Dimensions : c[d] > 0
    BY <1>2 DEF Valid
  <1>6. \A d \in Dimensions : c[d] \in Sizes /\ c[d] \in Nat \ {0}
    BY <1>3, <1>4, <1>5 DEF Sizes
  <1>7. c.vocabulary_size <= c.padded_vocabulary_size
    BY <1>2, <1>4 DEF Valid, Dimensions
  <1> QED BY <1>3, <1>6, <1>7

\* product() by the number of dimensions.
LEMMA ProductOfOne ==
    ASSUME NEW shape, NEW a, shape = <<a>>
    PROVE  Product(shape) = a
  BY DEF Product

LEMMA ProductOfTwo ==
    ASSUME NEW shape, NEW a, NEW b, shape = <<a, b>>
    PROVE  Product(shape) = CheckedMultiply(a, b)
  BY DEF Product

LEMMA ProductOfThree ==
    ASSUME NEW shape, NEW a, NEW b, NEW c, shape = <<a, b, c>>
    PROVE  Product(shape) = CheckedMultiply(CheckedMultiply(a, b), c)
  BY DEF Product

\* The number of parameters of every tensor, as it is computed.
LEMMA TensorSizes ==
    ASSUME NEW c
    PROVE  LET L == c.num_layers
               C == c.channels
               c3 == CheckedMultiply(3, C)
               c4 == CheckedMultiply(4, C)
           IN  /\ Product(Shapes(c)[1]) = CheckedMultiply(c.padded_vocabulary_size, C)
               /\ Product(Shapes(c)[2]) = CheckedMultiply(c.max_sequence_length, C)
               /\ \A i \in {3, 4, 8, 9, 10, 14} :
                     Product(Shapes(c)[i]) = CheckedMultiply(L, C)
               /\ Product(Shapes(c)[5]) = CheckedMultiply(CheckedMultiply(L, c3), C)
               /\ Product(Shapes(c)[6]) = CheckedMultiply(L, c3)
               /\ Product(Shapes(c)[7]) = CheckedMultiply(CheckedMultiply(L, C), C)
               /\ Product(Shapes(c)[11]) = CheckedMultiply(CheckedMultiply(L, c4), C)
               /\ Product(Shapes(c)[12]) = CheckedMultiply(L, c4)
               /\ Product(Shapes(c)[13]) = CheckedMultiply(CheckedMultiply(L, C), c4)
               /\ Product(Shapes(c)[15]) = C /\ Product(Shapes(c)[16]) = C
  <1> DEFINE L == c.num_layers
             C == c.channels
             c3 == CheckedMultiply(3, C)
             c4 == CheckedMultiply(4, C)
             s == Shapes(c)
  <1>1. /\ s[1] = <<c.padded_vocabulary_size, C>> /\ s[2] = <<c.max_sequence_length, C>>
        /\ s[3] = <<L, C>> /\ s[4] = <<L, C>> /\ s[5] = <<L, c3, C>> /\ s[6] = <<L, c3>>
        /\ s[7] = <<L, C, C>> /\ s[8] = <<L, C>> /\ s[9] = <<L, C>> /\ s[10] = <<L, C>>
        /\ s[11] = <<L, c4, C>> /\ s[12] = <<L, c4>> /\ s[13] = <<L, C, c4>>
        /\ s[14] = <<L, C>> /\ s[15] = <<C>> /\ s[16] = <<C>>
    BY DEF Shapes
  <1> HIDE DEF L, C, c3, c4, s
  <1>2. /\ \A i \in {3, 4, 8, 9, 10, 14} : Product(s[i]) = CheckedMultiply(L, C)
        /\ Product(s[1]) = CheckedMultiply(c.padded_vocabulary_size, C)
        /\ Product(s[2]) = CheckedMultiply(c.max_sequence_length, C)
        /\ Product(s[6]) = CheckedMultiply(L, c3) /\ Product(s[12]) = CheckedMultiply(L, c4)
    BY <1>1, ProductOfTwo
  <1>3. /\ Product(s[5]) = CheckedMultiply(CheckedMultiply(L, c3), C)
        /\ Product(s[7]) = CheckedMultiply(CheckedMultiply(L, C), C)
        /\ Product(s[11]) = CheckedMultiply(CheckedMultiply(L, c4), C)
        /\ Product(s[13]) = CheckedMultiply(CheckedMultiply(L, C), c4)
    BY <1>1, ProductOfThree
  <1>4. Product(s[15]) = C /\ Product(s[16]) = C
    BY <1>1, ProductOfOne
  <1> QED BY <1>2, <1>3, <1>4 DEF L, C, c3, c4, s

\* Every tensor has a size, or computing it throws.
LEMMA TensorsClosed ==
    ASSUME NEW c \in AcceptedConfigs, NEW i \in 1..TensorCount
    PROVE  Product(Shapes(c)[i]) \in Sizes \cup {Overflow}
  <1> DEFINE L == c.num_layers
             C == c.channels
             c3 == CheckedMultiply(3, C)
             c4 == CheckedMultiply(4, C)
             Results == Sizes \cup {Overflow}
  <1>1. /\ L \in Results /\ C \in Results /\ c.padded_vocabulary_size \in Results
        /\ c.max_sequence_length \in Results
    BY ConfigTyped DEF Dimensions
  <1>2. 3 \in Results /\ 4 \in Results
    BY LoaderAssumption, SizeAssumption DEF Sizes
  <1>3. c3 \in Results /\ c4 \in Results
    BY <1>1, <1>2, CheckedClosed
  <1> HIDE DEF L, C, c3, c4
  <1>4. /\ CheckedMultiply(L, c3) \in Results /\ CheckedMultiply(L, c4) \in Results
        /\ CheckedMultiply(L, C) \in Results
        /\ CheckedMultiply(c.padded_vocabulary_size, C) \in Results
        /\ CheckedMultiply(c.max_sequence_length, C) \in Results
    BY <1>1, <1>3, CheckedClosed
  <1>5. /\ CheckedMultiply(CheckedMultiply(L, c3), C) \in Results
        /\ CheckedMultiply(CheckedMultiply(L, c4), C) \in Results
        /\ CheckedMultiply(CheckedMultiply(L, C), C) \in Results
        /\ CheckedMultiply(CheckedMultiply(L, C), c4) \in Results
    BY <1>1, <1>3, <1>4, CheckedClosed
  <1>6. i \in {1, 2, 5, 6, 7, 11, 12, 13, 15, 16} \cup {3, 4, 8, 9, 10, 14}
    BY DEF TensorCount
  <1> HIDE DEF Results
  <1>7. Product(Shapes(c)[i]) \in Results
    BY <1>1, <1>4, <1>5, <1>6, TensorSizes DEF L, C, c3, c4
  <1> QED BY <1>7 DEF Results

-----------------------------------------------------------------------------
(* The steps.                                                              *)

LEMMA InitLoader == Init => LoaderInv
  <1> SUFFICES ASSUME Init PROVE LoaderInv
    OBVIOUS
  <1>1. /\ file \in [size : FileSizes, header : Headers]
        /\ pc = "open" /\ outcome = "none" /\ file_size = 0 /\ config = NoHeader
        /\ offset = <<>> /\ count = <<>> /\ total_count = 0 /\ storage = 0
    BY DEF Init
  <1>2. 0 \in Sizes /\ TensorCount \in Nat
    BY SizeAssumption DEF Sizes, TensorCount
  <1>3. Len(<<>>) = 0 /\ <<>> \in Seq(Sizes)
    OBVIOUS
  <1>4. TypeOK
    BY <1>1, <1>2, <1>3 DEF TypeOK
  <1> QED BY <1>1, <1>4 DEF LoaderInv, ConfigAccepted, TensorsExact, SizeChecked, Loaded

\* The file changes under the loader, which has not seen it yet.
LEMMA FileStep ==
    ASSUME LoaderInv, FileChanges
    PROVE  LoaderInv'
  <1>1. /\ pc \in {"header", "read"} /\ file' \in [size : FileSizes, header : Headers]
        /\ UNCHANGED <<pc, outcome, file_size, config, offset, count, total_count, storage>>
    BY DEF FileChanges, LoaderInv, TypeOK
  <1>2. TypeOK'
    BY <1>1 DEF LoaderInv, TypeOK
  <1> QED BY <1>1, <1>2 DEF LoaderInv, ConfigAccepted, TensorsExact, SizeChecked, Loaded,
             ExpectedSize, PayloadBytes

\* A failure before the payload is read leaves nothing loaded.
LEMMA ThrowStep ==
    ASSUME LoaderInv, pc # "done", pc' = "done",
           outcome' \in {"runtime_error", "invalid_argument", "overflow_error", "bad_alloc"},
           file_size' \in Sizes, config' \in {ConfigOf(h) : h \in Headers} \cup {NoHeader},
           UNCHANGED <<file, offset, count, total_count, storage>>
    PROVE  LoaderInv'
  <1>1. TypeOK'
    BY DEF LoaderInv, TypeOK
  <1> QED BY <1>1 DEF LoaderInv, ConfigAccepted, TensorsExact, SizeChecked, Loaded

LEMMA OpenStep ==
    ASSUME LoaderInv, Open
    PROVE  LoaderInv'
  <1>1. /\ pc = "open" /\ TypeOK
        /\ UNCHANGED <<file, config, offset, count, total_count, storage>>
    BY DEF Open, LoaderInv
  <1>2. file_size \in Sizes /\ file.size \in Sizes
        /\ config \in {ConfigOf(h) : h \in Headers} \cup {NoHeader}
    BY <1>1, LoaderAssumption DEF TypeOK
  <1>3. CASE Throw("runtime_error") /\ file_size' \in {file_size, file.size}
    BY <1>1, <1>2, <1>3, ThrowStep DEF Throw
  <1>4. CASE file_size' = file.size /\ pc' = "header" /\ UNCHANGED outcome
    <2>1. TypeOK'
      BY <1>1, <1>2, <1>4 DEF TypeOK
    <2> QED BY <1>1, <1>4, <2>1 DEF LoaderInv, ConfigAccepted, TensorsExact, SizeChecked,
               Loaded, TypeOK
  <1> QED BY <1>3, <1>4 DEF Open

\* A header that is accepted starts an empty layout.
LEMMA HeaderStep ==
    ASSUME LoaderInv, ReadHeader
    PROVE  LoaderInv'
  <1> DEFINE h == file.header
             c == ConfigOf(h)
             accepted == {ConfigOf(x) : x \in Headers}
  <1>1. /\ pc = "header" /\ TypeOK
        /\ UNCHANGED <<file, file_size, offset, count, total_count, storage>>
    BY DEF ReadHeader, LoaderInv
  <1>2. c \in accepted /\ file_size \in Sizes /\ config \in accepted \cup {NoHeader}
        /\ count = <<>> /\ outcome = "none"
    BY <1>1 DEF TypeOK
  <1>3. config' \in accepted \cup {NoHeader}
    BY <1>2 DEF ReadHeader
  <1>4. CASE \E e \in {"runtime_error", "invalid_argument", "overflow_error"} : Throw(e)
    BY <1>1, <1>2, <1>3, <1>4, ThrowStep DEF Throw
  <1>5. CASE /\ config' = c /\ Valid(c)
             /\ CheckedMultiply(3, c.channels) # Overflow
             /\ CheckedMultiply(4, c.channels) # Overflow
             /\ pc' = "layout" /\ UNCHANGED outcome
    <2>1. TypeOK'
      BY <1>1, <1>2, <1>5 DEF TypeOK
    <2>2. ConfigAccepted'
      BY <1>2, <1>5 DEF ConfigAccepted
    <2>3. TensorsExact'
      BY <1>1, <1>2 DEF TensorsExact
    <2> QED BY <1>2, <1>5, <2>1, <2>2, <2>3 DEF LoaderInv, SizeChecked, Loaded
  <1> QED BY <1>4, <1>5 DEF ReadHeader

\* The next tensor starts where the last one ends, and has its exact size.
LEMMA AddStep ==
    ASSUME LoaderInv, AddTensor
    PROVE  LoaderInv'
  <1> DEFINE k == Len(count)
             n == Product(Shapes(config)[k + 1])
             total == CheckedAdd(total_count, n)
  <1>1. /\ pc = "layout" /\ k < TensorCount /\ TypeOK /\ ConfigAccepted /\ TensorsExact
        /\ IF total = Overflow
           THEN Throw("overflow_error") /\ UNCHANGED <<offset, count, total_count>>
           ELSE /\ offset' = Append(offset, total_count)
                /\ count' = Append(count, n)
                /\ total_count' = total
                /\ UNCHANGED <<pc, outcome>>
        /\ UNCHANGED <<file, file_size, config, storage>>
    BY DEF AddTensor, LoaderInv
  <1>2. CASE total = Overflow
    <2>1. Throw("overflow_error") /\ UNCHANGED <<offset, count, total_count>>
      BY <1>1, <1>2
    <2>2. file_size \in Sizes /\ config \in {ConfigOf(h) : h \in Headers} \cup {NoHeader}
      BY <1>1 DEF TypeOK
    <2> QED BY <1>1, <2>1, <2>2, ThrowStep DEF Throw
  <1>3. CASE total # Overflow
    <2>1. /\ offset' = Append(offset, total_count) /\ count' = Append(count, n)
          /\ total_count' = total
          /\ UNCHANGED <<pc, outcome, file, file_size, config, storage>>
      BY <1>1, <1>3
    <2>2. /\ offset \in Seq(Sizes) /\ count \in Seq(Sizes) /\ Len(offset) = k
          /\ total_count \in Sizes /\ k \in Nat /\ TensorCount \in Nat /\ SizeMax \in Nat
          /\ outcome = "none" /\ storage = 0
      BY <1>1, SizeAssumption DEF TypeOK, TensorCount
    <2>3. n \in Sizes \cup {Overflow}
      <3>1. config \in AcceptedConfigs
        BY <1>1 DEF ConfigAccepted, AcceptedConfigs
      <3>2. k + 1 \in 1..TensorCount
        BY <1>1, <2>2
      <3> QED BY <3>1, <3>2, TensorsClosed
    <2>4. n \in Sizes /\ total = total_count + n /\ total \in Sizes
      <3> HIDE DEF n
      <3> QED BY <1>3, <2>2, <2>3, CheckedClosed
    <2> HIDE DEF n, total
    <2>5. /\ offset' \in Seq(Sizes) /\ count' \in Seq(Sizes)
          /\ Len(offset') = k + 1 /\ Len(count') = k + 1 /\ k + 1 <= TensorCount
          /\ count' # <<>>
          /\ offset'[k + 1] = total_count /\ count'[k + 1] = n
          /\ \A i \in 1..k : offset'[i] = offset[i] /\ count'[i] = count[i]
      BY <1>1, <2>1, <2>2, <2>4
    <2>6. \A i \in 1..(k + 1) :
             /\ offset'[i] = IF i = 1 THEN 0 ELSE offset'[i - 1] + count'[i - 1]
             /\ i = k + 1 => offset'[i] + count'[i] = total_count'
      <3> SUFFICES ASSUME NEW i \in 1..(k + 1)
                   PROVE  /\ offset'[i] = IF i = 1 THEN 0 ELSE offset'[i - 1] + count'[i - 1]
                          /\ i = k + 1 => offset'[i] + count'[i] = total_count'
        OBVIOUS
      <3>1. CASE i \in 1..k
        <4>1. offset[i] = IF i = 1 THEN 0 ELSE offset[i - 1] + count[i - 1]
          BY <1>1, <3>1 DEF TypeOK
        <4>2. i # 1 => i - 1 \in 1..k
          BY <2>2, <3>1
        <4>3. i # k + 1
          BY <2>2, <3>1
        <4> QED BY <2>5, <3>1, <4>1, <4>2, <4>3
      <3>2. CASE i = k + 1 /\ k = 0
        <4>1. total_count = 0
          <5>1. count = <<>>
            BY <2>2, <3>2
          <5> QED BY <1>1, <5>1 DEF TypeOK
        <4> QED BY <2>1, <2>4, <2>5, <3>2, <4>1
      <3>3. CASE i = k + 1 /\ k # 0
        <4>1. k \in 1..Len(count)
          BY <2>2, <3>3
        <4>2. offset[k] + count[k] = total_count
          BY <1>1, <4>1 DEF TypeOK
        <4>3. i # 1 /\ i - 1 = k /\ k \in 1..k
          BY <2>2, <3>3
        <4> QED BY <2>1, <2>4, <2>5, <3>3, <4>2, <4>3
      <3> QED BY <2>2, <3>1, <3>2, <3>3
    <2>7. TypeOK'
      <3>1. storage' \in 0..total_count'
        BY <2>1, <2>2, <2>4 DEF Sizes
      <3>2. /\ file' \in [size : FileSizes, header : Headers]
            /\ pc' = "layout" /\ outcome' = "none" /\ storage' = 0
            /\ file_size' \in Sizes /\ total_count' \in Sizes
            /\ config' \in {ConfigOf(h) : h \in Headers} \cup {NoHeader}
        BY <1>1, <2>1, <2>2, <2>4 DEF TypeOK
      <3>3. /\ Len(offset') = Len(count') /\ Len(count') <= TensorCount
            /\ \A i \in 1..Len(count') :
                  /\ offset'[i] = IF i = 1 THEN 0 ELSE offset'[i - 1] + count'[i - 1]
                  /\ i = Len(count') => offset'[i] + count'[i] = total_count'
        BY <2>5, <2>6
      <3> QED BY <2>5, <3>1, <3>2, <3>3 DEF TypeOK
    <2>8. ConfigAccepted'
      BY <1>1, <2>1 DEF ConfigAccepted, Loaded
    <2>9. TensorsExact'
      <3> SUFFICES ASSUME NEW i \in 1..(k + 1)
                   PROVE  count'[i] = Product(Shapes(config)[i])
        BY <2>1, <2>5 DEF TensorsExact
      <3>1. CASE i \in 1..k
        <4>1. count[i] = Product(Shapes(config)[i])
          BY <1>1, <3>1 DEF TensorsExact
        <4> QED BY <2>5, <3>1, <4>1
      <3>2. CASE i = k + 1
        BY <2>5, <3>2 DEF n
      <3> QED BY <2>2, <3>1, <3>2
    <2> QED BY <1>1, <2>1, <2>2, <2>7, <2>8, <2>9 DEF LoaderInv, SizeChecked, Loaded
  <1> QED BY <1>2, <1>3

\* The size the header demands, computed without wrapping.
LEMMA ExpectedExact ==
    ASSUME TypeOK, ExpectedSize # Overflow
    PROVE  /\ PayloadBytes = total_count * FloatBytes /\ PayloadBytes \in Sizes
           /\ ExpectedSize = HeaderBytes + PayloadBytes
           /\ HeaderBytes \in Nat /\ FloatBytes \in Nat \ {0} /\ total_count \in Nat
  <1>1. /\ total_count \in Sizes /\ FloatBytes \in Sizes \ {0} /\ HeaderBytes \in Sizes
        /\ SizeMax \in Nat
    BY LoaderAssumption, SizeAssumption DEF TypeOK
  <1>2. PayloadBytes \in Sizes \cup {Overflow}
    BY <1>1, CheckedProduct DEF PayloadBytes
  <1>3. PayloadBytes \in Sizes /\ ExpectedSize = HeaderBytes + PayloadBytes
    BY <1>1, <1>2, CheckedClosed DEF ExpectedSize
  <1>4. PayloadBytes # Overflow
    BY <1>1, <1>3 DEF Sizes, Overflow
  <1>5. PayloadBytes = total_count * FloatBytes
    BY <1>1, <1>4, CheckedProduct DEF PayloadBytes
  <1>6. HeaderBytes \in Nat /\ FloatBytes \in Nat \ {0} /\ total_count \in Nat
    BY <1>1 DEF Sizes
  <1> QED BY <1>3, <1>5, <1>6

\* The layout is complete, and the file has the size it demands.
LEMMA SizeStep ==
    ASSUME LoaderInv, CheckSize
    PROVE  LoaderInv'
  <1>1. /\ pc = "layout" /\ Len(count) = TensorCount /\ TypeOK
        /\ UNCHANGED <<file, file_size, config, offset, count, total_count, storage>>
    BY DEF CheckSize, LoaderInv
  <1>2. CASE \E e \in {"runtime_error", "overflow_error"} : Throw(e)
    <2>1. file_size \in Sizes /\ config \in {ConfigOf(h) : h \in Headers} \cup {NoHeader}
      BY <1>1 DEF TypeOK
    <2> QED BY <1>1, <1>2, <2>1, ThrowStep DEF Throw
  <1>3. CASE /\ ExpectedSize # Overflow /\ file_size = ExpectedSize
             /\ pc' = "read" /\ UNCHANGED outcome
    <2>1. outcome = "none"
      BY <1>1 DEF TypeOK
    <2>2. TypeOK'
      BY <1>1, <1>3 DEF TypeOK
    <2>3. ConfigAccepted' /\ TensorsExact'
      BY <1>1, <1>3 DEF LoaderInv, ConfigAccepted, TensorsExact
    <2>4. SizeChecked'
      BY <1>1, <1>3 DEF SizeChecked, ExpectedSize, PayloadBytes
    <2> QED BY <1>3, <2>1, <2>2, <2>3, <2>4 DEF LoaderInv, Loaded
  <1>4. file_size \in Sizes /\ Overflow \notin Sizes
    BY <1>1, SizeAssumption DEF TypeOK, Sizes, Overflow
  <1>5. file_size = ExpectedSize => ExpectedSize # Overflow
    BY <1>4
  <1>6. file_size = ExpectedSize => (PayloadBytes > StreamMax <=> ~(PayloadBytes <= StreamMax))
    <2>1. file_size = ExpectedSize => PayloadBytes \in Sizes
      BY <1>1, <1>5, ExpectedExact
    <2> QED BY <2>1, LoaderAssumption, SizeAssumption DEF Sizes
  <1>7. \/ \E e \in {"runtime_error", "overflow_error"} : Throw(e)
        \/ /\ file_size = ExpectedSize
           /\ pc' = "read" /\ UNCHANGED outcome
    <2> DEFINE small == PayloadBytes <= StreamMax
               large == PayloadBytes > StreamMax
               A == ExpectedSize = Overflow
               B == file_size # ExpectedSize
    <2>1. CASE A
      BY <1>4, <2>1 DEF CheckSize
    <2>2. CASE ~A /\ B
      BY <2>2 DEF CheckSize
    <2>3. CASE ~B /\ large /\ ~small
      BY <1>5, <2>3 DEF CheckSize
    <2>4. CASE ~B /\ ~large /\ small
      BY <1>5, <2>4 DEF CheckSize
    <2> QED BY <1>5, <1>6, <2>1, <2>2, <2>3, <2>4
  <1> QED BY <1>2, <1>3, <1>5, <1>7

\* The floats that a file of any size can provide.
LEMMA AvailableFloats ==
    ASSUME LoaderInv, pc = "read"
    PROVE  /\ Available \in 0..total_count
           /\ file.size >= HeaderBytes + PayloadBytes => Available = total_count
  <1>1. TypeOK /\ SizeChecked
    BY DEF LoaderInv
  <1>2. /\ PayloadBytes = total_count * FloatBytes
        /\ HeaderBytes \in Nat /\ FloatBytes \in Nat \ {0} /\ total_count \in Nat
    BY <1>1, ExpectedExact DEF SizeChecked
  <1>3. file.size \in Nat
    <2>1. file.size \in FileSizes /\ FileSizes \subseteq Sizes
      BY <1>1, LoaderAssumption DEF TypeOK
    <2>2. \A x \in Sizes : x \in Nat
      BY SizeAssumption DEF Sizes
    <2> QED BY <2>1, <2>2
  <1> DEFINE bytes == IF file.size < HeaderBytes + PayloadBytes
                      THEN file.size - HeaderBytes ELSE PayloadBytes
  <1>4. Available = IF bytes < 0 THEN 0 ELSE bytes \div FloatBytes
    BY DEF Available
  <1>5. /\ PayloadBytes \in Nat
        /\ bytes \in Int /\ bytes <= total_count * FloatBytes
        /\ file.size >= HeaderBytes + PayloadBytes => bytes = total_count * FloatBytes
    <2> DEFINE all == total_count * FloatBytes
    <2>1. all \in Nat
      BY <1>2
    <2> HIDE DEF all
    <2>2. PayloadBytes = all
      BY <1>2 DEF all
    <2>3. /\ bytes \in Int /\ bytes <= all
          /\ file.size >= HeaderBytes + PayloadBytes => bytes = all
      BY <1>2, <1>3, <2>1, <2>2
    <2> QED BY <2>1, <2>2, <2>3 DEF all
  <1> HIDE DEF bytes
  <1>6. CASE bytes < 0
    BY <1>2, <1>4, <1>5, <1>6
  <1>7. CASE ~(bytes < 0)
    <2>1. bytes \in Nat
      BY <1>5, <1>7
    <2>2. /\ bytes \div FloatBytes \in 0..total_count
          /\ bytes = total_count * FloatBytes => bytes \div FloatBytes = total_count
      BY <1>2, <1>5, <2>1, DivBound
    <2> QED BY <1>4, <1>5, <1>7, <2>2
  <1> QED BY <1>6, <1>7

\* The payload is loaded only if the file held all of it.
LEMMA PayloadStep ==
    ASSUME LoaderInv, ReadPayload
    PROVE  LoaderInv'
  <1>1. /\ pc = "read" /\ TypeOK /\ pc' = "done"
        /\ UNCHANGED <<file, file_size, config, offset, count, total_count>>
    BY DEF ReadPayload, Throw, LoaderInv
  <1>2. CASE Throw("bad_alloc") /\ UNCHANGED storage
    <2>1. file_size \in Sizes /\ config \in {ConfigOf(h) : h \in Headers} \cup {NoHeader}
      BY <1>1 DEF TypeOK
    <2> QED BY <1>1, <1>2, <2>1, ThrowStep DEF Throw
  <1>3. CASE \/ storage' \in 0..Available /\ Throw("runtime_error")
             \/ /\ file.size >= HeaderBytes + PayloadBytes /\ storage' = Available
                /\ Throw("ok")
    <2>1. /\ storage' \in 0..total_count
          /\ outcome' \in {"runtime_error", "ok"}
          /\ outcome' = "ok" => storage' = total_count
      <3>1. /\ Available \in 0..total_count
            /\ file.size >= HeaderBytes + PayloadBytes => Available = total_count
        BY <1>1, AvailableFloats
      <3>2. total_count \in Nat
        BY <1>1, SizeAssumption DEF TypeOK, Sizes
      <3>3. \A x \in 0..Available : x \in 0..total_count
        BY <3>1, <3>2
      <3> QED BY <1>3, <3>1, <3>3 DEF Throw
    <2>2. TypeOK'
      BY <1>1, <2>1 DEF TypeOK
    <2>3. ConfigAccepted' /\ TensorsExact'
      BY <1>1 DEF LoaderInv, ConfigAccepted, TensorsExact
    <2>4. SizeChecked'
      BY <1>1 DEF LoaderInv, SizeChecked, ExpectedSize, PayloadBytes
    <2> QED BY <1>1, <2>1, <2>2, <2>3, <2>4 DEF LoaderInv, Loaded
  <1> QED BY <1>2, <1>3 DEF ReadPayload

LEMMA StutterStep ==
    ASSUME LoaderInv, UNCHANGED vars
    PROVE  LoaderInv'
  BY DEF LoaderInv, TypeOK, ConfigAccepted, TensorsExact, SizeChecked, Loaded,
     ExpectedSize, PayloadBytes, vars

-----------------------------------------------------------------------------
(* The theorems.                                                           *)

\* The inductive invariant of the loader: the layout grows contiguously out of
\* exact sizes, and only a file of the right size is read into it.
THEOREM LoaderInductive == Spec => []LoaderInv
  <1>1. Init => LoaderInv
    BY InitLoader
  <1>2. LoaderInv /\ [Next]_vars => LoaderInv'
    BY FileStep, OpenStep, HeaderStep, AddStep, SizeStep, PayloadStep, StutterStep
       DEF Next, Finished
  <1> QED BY <1>1, <1>2, PTL DEF Spec

\* Whatever happens to the file meanwhile, what load_checkpoint returns is
\* complete and has consumed exactly the file it was sized for.
THEOREM LoadedIsComplete == Spec => []StorageComplete
  <1>1. LoaderInv => StorageComplete
    <2> SUFFICES ASSUME LoaderInv, Loaded
                 PROVE  /\ Len(count) = TensorCount /\ storage = total_count
                        /\ file_size = HeaderBytes + FloatBytes * total_count
      BY DEF StorageComplete
    <2>1. /\ TypeOK /\ Len(count) = TensorCount /\ storage = total_count
          /\ ExpectedSize # Overflow /\ file_size = ExpectedSize
      BY DEF LoaderInv, SizeChecked
    <2>2. /\ ExpectedSize = HeaderBytes + PayloadBytes
          /\ PayloadBytes = total_count * FloatBytes
          /\ FloatBytes \in Nat /\ total_count \in Nat
      BY <2>1, ExpectedExact
    <2>3. total_count * FloatBytes = FloatBytes * total_count
      BY <2>2
    <2> QED BY <2>1, <2>2, <2>3
  <1> QED BY <1>1, LoaderInductive, PTL

-----------------------------------------------------------------------------
(* The slices of the weights.                                              *)

\* The names' places in the layout.
LEMMA TensorIndices ==
    /\ Index("wte") = 1 /\ Index("wpe") = 2
    /\ Index("ln1w") = 3 /\ Index("ln1b") = 4 /\ Index("qkvw") = 5 /\ Index("qkvb") = 6
    /\ Index("attprojw") = 7 /\ Index("attprojb") = 8
    /\ Index("ln2w") = 9 /\ Index("ln2b") = 10 /\ Index("fcw") = 11 /\ Index("fcb") = 12
    /\ Index("fcprojw") = 13 /\ Index("fcprojb") = 14
  <1> DEFINE T == Tensors
  <1>1. /\ T[1] = "wte" /\ T[2] = "wpe" /\ T[3] = "ln1w" /\ T[4] = "ln1b"
        /\ T[5] = "qkvw" /\ T[6] = "qkvb" /\ T[7] = "attprojw" /\ T[8] = "attprojb"
        /\ T[9] = "ln2w" /\ T[10] = "ln2b" /\ T[11] = "fcw" /\ T[12] = "fcb"
        /\ T[13] = "fcprojw" /\ T[14] = "fcprojb" /\ T[15] = "lnfw" /\ T[16] = "lnfb"
    BY DEF Tensors
  <1>2. \A i \in 1..TensorCount :
           i \in {1, 2, 3, 4, 5, 6, 7, 8, 9, 10, 11, 12, 13, 14, 15, 16}
    BY DEF TensorCount
  <1>3. {1, 2, 3, 4, 5, 6, 7, 8, 9, 10, 11, 12, 13, 14, 15, 16} \subseteq 1..TensorCount
    BY DEF TensorCount
  <1> HIDE DEF T
  <1>4. \A i, j \in 1..TensorCount : T[i] = T[j] => i = j
    BY <1>1, <1>2
  <1>5. ASSUME NEW i \in 1..TensorCount
        PROVE  Index(T[i]) = i
    <2>1. \E j \in 1..TensorCount : Tensors[j] = T[i]
      BY DEF T
    <2>2. Index(T[i]) \in 1..TensorCount /\ Tensors[Index(T[i])] = T[i]
      BY <2>1 DEF Index
    <2> QED BY <1>4, <2>2 DEF T
  <1> QED BY <1>1, <1>3, <1>5

\* One layer's slice out of a tensor of L equal ones.
LEMMA SliceInside ==
    ASSUME NEW L \in Nat, NEW layer \in 0 .. (L - 1), NEW per \in Nat, L * per \in Sizes,
           L \in Sizes
    PROVE  /\ CheckedMultiply(layer, per) = layer * per
           /\ layer * per + per <= L * per
           /\ per \in Sizes
  <1>1. layer * per \in Nat /\ L * per \in Nat /\ layer * per + per <= L * per
    BY BlockInside
  <1>2. L * per <= SizeMax /\ L <= SizeMax /\ SizeMax \in Nat
    BY SizeAssumption DEF Sizes
  <1> DEFINE x == layer * per
             y == L * per
  <1> HIDE DEF x, y
  <1>3. x <= SizeMax /\ layer <= SizeMax /\ per <= SizeMax
    BY <1>1, <1>2 DEF x, y
  <1>4. CheckedMultiply(layer, per) = layer * per
    BY <1>3, ProductReturned DEF x
  <1> QED BY <1>1, <1>2, <1>3, <1>4 DEF Sizes

\* A row of a matrix of n rows, of which only the first m are addressed.
LEMMA RowInside ==
    ASSUME NEW n \in Nat, NEW m \in Nat, m <= n, NEW width \in Nat, n * width \in Sizes
    PROVE  /\ SizeT(m * width) <= n * width
           /\ \A row \in 0 .. (m - 1) : SizeT(row * width) + width <= n * width
  <1>1. n * width \in 0..SizeMax /\ SizeMax \in Nat
    BY SizeAssumption DEF Sizes
  <1>2. SizeT(m * width) <= n * width
    <2>1. m * width <= n * width /\ m * width \in Nat
      BY MulMono
    <2>2. m * width \in 0..SizeMax
      BY <1>1, <2>1
    <2> QED BY <2>1, <2>2, SizeTFits
  <1>3. ASSUME NEW row \in 0 .. (m - 1)
        PROVE  SizeT(row * width) + width <= n * width
    <2>1. row * width \in Nat /\ row * width + width <= n * width
      BY BlockInside
    <2>2. row * width \in 0..SizeMax
      BY <1>1, <2>1
    <2> QED BY <2>1, <2>2, SizeTFits
  <1> QED BY <1>2, <1>3

\* A product of three factors, associated the other way.
LEMMA Associated ==
    ASSUME NEW a \in Nat, NEW b \in Nat, NEW c \in Nat
    PROVE  (a * b) * c = a * (b * c) /\ a * b \in Nat /\ b * c \in Nat
  OBVIOUS

\* The parameters of every layered tensor, layer by layer.
LEMMA LayersExact ==
    ASSUME NEW c \in AcceptedConfigs,
           CheckedMultiply(3, c.channels) # Overflow,
           CheckedMultiply(4, c.channels) # Overflow,
           \A i \in 1..TensorCount : Product(Shapes(c)[i]) \in Sizes
    PROVE  LET L == c.num_layers
               C == c.channels
               tensor(i) == Product(Shapes(c)[i])
           IN  /\ tensor(1) = c.padded_vocabulary_size * C
               /\ tensor(2) = c.max_sequence_length * C
               /\ \A i \in {3, 4, 8, 9, 10, 14} : tensor(i) = L * C
               /\ tensor(5) = L * ((3 * C) * C) /\ tensor(6) = L * (3 * C)
               /\ tensor(7) = L * (C * C)
               /\ tensor(11) = L * ((4 * C) * C) /\ tensor(12) = L * (4 * C)
               /\ tensor(13) = L * (C * (4 * C))
               /\ 3 * C \in Nat /\ 4 * C \in Nat
  <1> DEFINE L == c.num_layers
             C == c.channels
             V == c.padded_vocabulary_size
             S == c.max_sequence_length
             c3 == CheckedMultiply(3, C)
             c4 == CheckedMultiply(4, C)
             tensor(i) == Product(Shapes(c)[i])
  <1>1. /\ L \in Sizes /\ C \in Sizes /\ V \in Sizes /\ S \in Sizes
        /\ L \in Nat /\ C \in Nat /\ SizeMax \in Nat
        /\ 3 \in Sizes /\ 4 \in Sizes
    <2>1. 3 \in Sizes /\ 4 \in Sizes
      BY LoaderAssumption, SizeAssumption DEF Sizes
    <2> QED BY <2>1, ConfigTyped DEF Dimensions
  <1>2. /\ c3 # Overflow /\ c4 # Overflow
        /\ \A i \in 1..TensorCount : tensor(i) \in Sizes
    OBVIOUS
  <1>3. /\ tensor(1) = CheckedMultiply(V, C) /\ tensor(2) = CheckedMultiply(S, C)
        /\ \A i \in {3, 4, 8, 9, 10, 14} : tensor(i) = CheckedMultiply(L, C)
        /\ tensor(5) = CheckedMultiply(CheckedMultiply(L, c3), C)
        /\ tensor(6) = CheckedMultiply(L, c3)
        /\ tensor(7) = CheckedMultiply(CheckedMultiply(L, C), C)
        /\ tensor(11) = CheckedMultiply(CheckedMultiply(L, c4), C)
        /\ tensor(12) = CheckedMultiply(L, c4)
        /\ tensor(13) = CheckedMultiply(CheckedMultiply(L, C), c4)
    BY TensorSizes
  <1>4. Overflow \notin Sizes
    BY <1>1 DEF Sizes, Overflow
  <1> HIDE DEF L, C, V, S, c3, c4, tensor
  <1>5. /\ tensor(1) # Overflow /\ tensor(2) # Overflow /\ tensor(3) # Overflow
        /\ tensor(5) # Overflow /\ tensor(6) # Overflow /\ tensor(7) # Overflow
        /\ tensor(11) # Overflow /\ tensor(12) # Overflow /\ tensor(13) # Overflow
    BY <1>2, <1>4 DEF TensorCount
  <1>6. c3 = 3 * C /\ c3 \in Sizes /\ c4 = 4 * C /\ c4 \in Sizes
    BY <1>1, <1>2, CheckedProduct DEF c3, c4
  <1>7. tensor(1) = V * C /\ tensor(2) = S * C
    BY <1>1, <1>3, <1>5, CheckedProduct
  <1>8. CheckedMultiply(L, C) = L * C /\ L * C \in Sizes
    <2>1. CheckedMultiply(L, C) # Overflow
      BY <1>3, <1>5
    <2> QED BY <1>1, <2>1, CheckedProduct
  <1>9. /\ tensor(6) = L * c3 /\ CheckedMultiply(L, c3) = L * c3 /\ L * c3 \in Sizes
        /\ tensor(12) = L * c4 /\ CheckedMultiply(L, c4) = L * c4 /\ L * c4 \in Sizes
    <2>1. CheckedMultiply(L, c3) # Overflow /\ CheckedMultiply(L, c4) # Overflow
      BY <1>3, <1>5
    <2> QED BY <1>1, <1>3, <1>6, <2>1, CheckedProduct
  <1>10. tensor(5) = (L * c3) * C /\ tensor(11) = (L * c4) * C
    <2> DEFINE x == L * c3
               y == L * c4
    <2>1. /\ x \in Sizes /\ CheckedMultiply(x, C) = tensor(5)
          /\ y \in Sizes /\ CheckedMultiply(y, C) = tensor(11)
      BY <1>3, <1>9
    <2> HIDE DEF x, y
    <2>2. tensor(5) = x * C /\ tensor(11) = y * C
      BY <1>1, <1>5, <2>1, CheckedProduct
    <2> QED BY <2>2 DEF x, y
  <1>11. tensor(7) = (L * C) * C /\ tensor(13) = (L * C) * c4
    <2> DEFINE x == L * C
    <2>1. /\ x \in Sizes /\ CheckedMultiply(x, C) = tensor(7)
          /\ CheckedMultiply(x, c4) = tensor(13)
      BY <1>3, <1>8
    <2> HIDE DEF x
    <2>2. tensor(7) = x * C /\ tensor(13) = x * c4
      BY <1>1, <1>5, <1>6, <2>1, CheckedProduct
    <2> QED BY <2>2 DEF x
  <1>12. c3 \in Nat /\ c4 \in Nat
    BY <1>1, <1>6
  <1>13. /\ (L * c3) * C = L * (c3 * C) /\ (L * c4) * C = L * (c4 * C)
         /\ (L * C) * C = L * (C * C) /\ (L * C) * c4 = L * (C * c4)
    BY <1>1, <1>12, Associated
  <1>14. \A i \in {3, 4, 8, 9, 10, 14} : tensor(i) = L * C
    BY <1>3, <1>8
  <1>15. /\ tensor(5) = L * (c3 * C) /\ tensor(11) = L * (c4 * C)
         /\ tensor(7) = L * (C * C) /\ tensor(13) = L * (C * c4)
         /\ tensor(6) = L * c3 /\ tensor(12) = L * c4
    BY <1>9, <1>10, <1>11, <1>13
  <1>16. /\ tensor(5) = L * ((3 * C) * C) /\ tensor(11) = L * ((4 * C) * C)
         /\ tensor(13) = L * (C * (4 * C))
         /\ tensor(6) = L * (3 * C) /\ tensor(12) = L * (4 * C)
         /\ 3 * C \in Nat /\ 4 * C \in Nat
    BY <1>6, <1>12, <1>15
  <1> QED BY <1>7, <1>14, <1>15, <1>16 DEF L, C, V, S, tensor

\* What a layer's slice of each tensor is, although the callers compute it
\* without checks.
LEMMA PerLayerExact ==
    ASSUME LoaderInv, Loaded, NEW name \in Layered
    PROVE  /\ count[Index(name)] = config.num_layers * PerLayer(name)
           /\ PerLayer(name) \in Nat
  <1> DEFINE L == config.num_layers
             C == config.channels
             tensor(i) == Product(Shapes(config)[i])
  <1>1. /\ TypeOK /\ ConfigAccepted /\ TensorsExact /\ SizeChecked
    BY DEF LoaderInv
  <1>2. /\ config \in AcceptedConfigs
        /\ CheckedMultiply(3, C) # Overflow /\ CheckedMultiply(4, C) # Overflow
    BY <1>1 DEF ConfigAccepted, AcceptedConfigs
  <1>3. \A i \in 1..TensorCount : count[i] = tensor(i) /\ tensor(i) \in Sizes
    BY <1>1 DEF TypeOK, TensorsExact, SizeChecked
  <1>4. L \in Nat \ {0} /\ C \in Nat \ {0} /\ L \in Sizes /\ C \in Sizes /\ SizeMax \in Nat
    BY <1>2, ConfigTyped DEF Dimensions
  <1>5. /\ \A i \in {3, 4, 8, 9, 10, 14} : tensor(i) = L * C
        /\ tensor(5) = L * ((3 * C) * C) /\ tensor(6) = L * (3 * C)
        /\ tensor(7) = L * (C * C)
        /\ tensor(11) = L * ((4 * C) * C) /\ tensor(12) = L * (4 * C)
        /\ tensor(13) = L * (C * (4 * C))
        /\ 3 * C \in Nat /\ 4 * C \in Nat
    BY <1>2, <1>3, LayersExact
  <1> HIDE DEF L, C, tensor
  <1>6. /\ \A i \in {3, 4, 8, 9, 10, 14} : count[i] = L * C
        /\ count[5] = L * ((3 * C) * C) /\ count[6] = L * (3 * C)
        /\ count[7] = L * (C * C)
        /\ count[11] = L * ((4 * C) * C) /\ count[12] = L * (4 * C)
        /\ count[13] = L * (C * (4 * C))
        /\ \A i \in {5, 6, 7, 11, 12, 13} : count[i] \in Sizes
    BY <1>3, <1>5 DEF TensorCount
  <1>7. 0 \in 0 .. (L - 1)
    BY <1>4
  <1>8. /\ (3 * C) * C \in Nat /\ (4 * C) * C \in Nat /\ C * C \in Nat
        /\ C * (4 * C) \in Nat
    BY <1>4
  <1>9. ASSUME NEW per \in Nat, L * per \in Sizes
        PROVE  SizeT(per) = per
    <2>1. per \in Sizes
      BY <1>4, <1>7, <1>9, SliceInside
    <2> QED BY <2>1, SizeTFits DEF Sizes
  <1>10. /\ SizeT(3 * C) = 3 * C /\ SizeT(4 * C) = 4 * C
    BY <1>5, <1>6, <1>9
  <1>11. SizeT((3 * C) * C) = (3 * C) * C
    BY <1>6, <1>8, <1>9
  <1>12. SizeT((4 * C) * C) = (4 * C) * C
    BY <1>6, <1>8, <1>9
  <1>13. SizeT(C * C) = C * C
    BY <1>6, <1>8, <1>9
  <1>14. SizeT(C * (4 * C)) = C * (4 * C)
    BY <1>6, <1>8, <1>9
  <1>15. CASE name = "qkvw"
    <2>1. PerLayer(name) = (3 * C) * C
      BY <1>10, <1>11, <1>15 DEF PerLayer, C
    <2> QED BY <1>6, <1>8, <1>15, <2>1, TensorIndices DEF L
  <1>16. CASE name = "qkvb"
    <2>1. PerLayer(name) = 3 * C
      BY <1>10, <1>16 DEF PerLayer, C
    <2> QED BY <1>5, <1>6, <1>16, <2>1, TensorIndices DEF L
  <1>17. CASE name = "attprojw"
    <2>1. PerLayer(name) = C * C
      BY <1>13, <1>17 DEF PerLayer, C
    <2> QED BY <1>6, <1>8, <1>17, <2>1, TensorIndices DEF L
  <1>18. CASE name = "fcw"
    <2>1. PerLayer(name) = (4 * C) * C
      BY <1>10, <1>12, <1>18 DEF PerLayer, C
    <2> QED BY <1>6, <1>8, <1>18, <2>1, TensorIndices DEF L
  <1>19. CASE name = "fcb"
    <2>1. PerLayer(name) = 4 * C
      BY <1>10, <1>19 DEF PerLayer, C
    <2> QED BY <1>5, <1>6, <1>19, <2>1, TensorIndices DEF L
  <1>20. CASE name = "fcprojw"
    <2>1. PerLayer(name) = C * (4 * C)
      BY <1>10, <1>14, <1>20 DEF PerLayer, C
    <2> QED BY <1>6, <1>8, <1>20, <2>1, TensorIndices DEF L
  <1>21. CASE name \in {"ln1w", "ln1b", "attprojb", "ln2w", "ln2b", "fcprojb"}
    <2>1. PerLayer(name) = C
      BY <1>21 DEF PerLayer, C
    <2>2. Index(name) \in {3, 4, 8, 9, 10, 14}
      BY <1>21, TensorIndices
    <2> QED BY <1>4, <1>6, <2>1, <2>2 DEF L
  <1> QED BY <1>15, <1>16, <1>17, <1>18, <1>19, <1>20, <1>21 DEF Layered

\* forward() and consume_token never address the weights out of bounds.
THEOREM SlicesStayInside == Spec => []WeightAddressesInside
  <1>1. LoaderInv => WeightAddressesInside
    <2> SUFFICES ASSUME LoaderInv, Loaded PROVE WeightAddressesInside
      BY DEF WeightAddressesInside
    <2> DEFINE L == config.num_layers
               C == config.channels
               V == config.vocabulary_size
               W == config.padded_vocabulary_size
               S == config.max_sequence_length
    <2>1. /\ TypeOK /\ ConfigAccepted /\ TensorsExact /\ SizeChecked
      BY DEF LoaderInv
    <2>2. /\ config \in AcceptedConfigs
          /\ CheckedMultiply(3, C) # Overflow /\ CheckedMultiply(4, C) # Overflow
      BY <2>1 DEF ConfigAccepted, AcceptedConfigs
    <2>3. \A i \in 1..TensorCount : count[i] = Product(Shapes(config)[i]) /\ count[i] \in Sizes
      BY <2>1 DEF TypeOK, TensorsExact, SizeChecked
    <2>4. /\ L \in Nat /\ C \in Nat /\ V \in Nat /\ W \in Nat /\ S \in Nat
          /\ V <= W /\ L \in Sizes
      BY <2>2, ConfigTyped DEF Dimensions
    <2>5. count[1] = W * C /\ count[2] = S * C
      <3>1. /\ Product(Shapes(config)[1]) = W * C
            /\ Product(Shapes(config)[2]) = S * C
        BY <2>2, <2>3, LayersExact
      <3> QED BY <2>3, <3>1 DEF TensorCount
    <2>6. ASSUME NEW name \in Layered, NEW layer \in 0 .. (L - 1)
          PROVE  /\ CheckedMultiply(layer, PerLayer(name)) = layer * PerLayer(name)
                 /\ layer * PerLayer(name) + PerLayer(name) <= count[Index(name)]
      <3>1. count[Index(name)] = L * PerLayer(name) /\ PerLayer(name) \in Nat
        BY PerLayerExact
      <3>2. Index(name) \in 1..TensorCount
        BY TensorIndices DEF Layered, TensorCount
      <3>3. L * PerLayer(name) \in Sizes
        BY <2>3, <3>1, <3>2
      <3> HIDE DEF L
      <3> QED BY <2>4, <3>1, <3>3, SliceInside
    <2>7. /\ W * C \in Sizes /\ S * C \in Sizes
          /\ count[Index("wte")] = W * C /\ count[Index("wpe")] = S * C
      BY <2>3, <2>5, TensorIndices DEF TensorCount
    <2>8. /\ SizeT(V * C) <= W * C
          /\ \A token \in 0 .. (V - 1) : SizeT(token * C) + C <= W * C
      BY <2>4, <2>7, RowInside
    <2>9. \A position \in 0 .. (S - 1) : SizeT(position * C) + C <= S * C
      <3>1. S \in Nat /\ S <= S /\ C \in Nat /\ S * C \in Sizes
        BY <2>4, <2>7
      <3> HIDE DEF S, C
      <3> QED BY <3>1, RowInside
    <2> QED BY <2>6, <2>7, <2>8, <2>9 DEF WeightAddressesInside
  <1> QED BY <1>1, LoaderInductive, PTL
=============================================================================
