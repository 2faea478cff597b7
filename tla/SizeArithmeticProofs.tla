------------------------ MODULE SizeArithmeticProofs ------------------------
(***************************************************************************)
(* What a checked operation that does not throw has established.           *)
(***************************************************************************)
EXTENDS SizeArithmetic, TLAPS

\* Quotient and remainder of a size by a divisor.
LEMMA Euclid ==
    ASSUME NEW n \in Nat, NEW d \in Nat \ {0}
    PROVE  /\ n \div d \in Nat
           /\ n % d \in 0 .. (d - 1)
           /\ n = d * (n \div d) + (n % d)
  OBVIOUS

\* A product of naturals grows with either factor.
LEMMA MulMono ==
    ASSUME NEW a \in Nat, NEW b \in Nat, NEW c \in Nat, a <= b
    PROVE  /\ a * c <= b * c
           /\ a * c \in Nat
           /\ b * c \in Nat
  BY SMT

\* A block inside a row of blocks ends inside the row.
LEMMA BlockInside ==
    ASSUME NEW k \in Nat, NEW n \in Nat, NEW size \in Nat, k < n
    PROVE  /\ k * size \in Nat /\ n * size \in Nat
           /\ k * size + size <= n * size
  <1>1. (k + 1) * size <= n * size /\ n * size \in Nat
    BY MulMono
  <1>2. (k + 1) * size = k * size + size /\ k * size \in Nat
    BY SMT
  <1> QED BY <1>1, <1>2

\* A positive factor of a product can be divided out.
LEMMA MulCancel ==
    ASSUME NEW a \in Nat, NEW b \in Nat, NEW c \in Nat \ {0}, a * c = b * c
    PROVE  a = b
  <1>1. ASSUME NEW x \in Nat, NEW y \in Nat, x < y
        PROVE  x * c # y * c
    <2>1. (x + 1) * c <= y * c
      BY <1>1, MulMono
    <2>2. (x + 1) * c = x * c + c /\ x * c \in Nat /\ y * c \in Nat
      BY SMT
    <2> QED BY <2>1, <2>2
  <1> QED BY <1>1

\* Dividing undoes a multiplication, and at most that much comes out of less.
LEMMA DivBound ==
    ASSUME NEW t \in Nat, NEW d \in Nat \ {0}, NEW x \in Nat, x <= t * d
    PROVE  x \div d \in 0..t /\ (x = t * d => x \div d = t)
  <1> DEFINE q == x \div d
             r == x % d
  <1>1. q \in Nat /\ r \in 0 .. (d - 1) /\ x = d * q + r
    BY Euclid
  <1> HIDE DEF q, r
  <1>2. d * q = q * d /\ q * d \in Nat /\ t * d \in Nat
    BY <1>1
  <1>3. q <= t
    <2> SUFFICES ASSUME t < q PROVE FALSE
      BY <1>1
    <2>1. t * d + d <= q * d
      BY <1>1, BlockInside
    <2> QED BY <1>1, <1>2, <2>1
  <1>4. ASSUME x = t * d, q < t PROVE FALSE
    <2>1. q * d + d <= t * d
      BY <1>1, <1>4, BlockInside
    <2> QED BY <1>1, <1>2, <1>4, <2>1
  <1> QED BY <1>1, <1>3, <1>4 DEF q

\* A size_t that fits is not changed by the reduction.
LEMMA SizeTFits ==
    ASSUME NEW x \in 0..SizeMax
    PROVE  SizeT(x) = x
  BY SizeAssumption DEF SizeT

\* The quotient bounds the product: the test in checked_multiply is exact.
LEMMA QuotientBound ==
    ASSUME NEW a \in Nat \ {0}, NEW b \in Nat, NEW m \in Nat, b <= m \div a
    PROVE  a * b <= m
  <1> DEFINE q == m \div a
  <1>1. q \in Nat /\ a * q <= m
    OBVIOUS
  <1>2. \A x, y \in Nat : x <= y => a * x <= a * y
    OBVIOUS
  <1> QED BY <1>1, <1>2

\* checked_multiply returns the product or throws.
LEMMA CheckedProduct ==
    ASSUME NEW a \in Sizes, NEW b \in Sizes
    PROVE  /\ CheckedMultiply(a, b) \in Sizes \cup {Overflow}
           /\ a * b \in Nat
           /\ CheckedMultiply(a, b) # Overflow =>
                 CheckedMultiply(a, b) = a * b /\ a * b \in Sizes
  <1>1. a \in Nat /\ b \in Nat /\ SizeMax \in Nat /\ a # Overflow /\ b # Overflow
    BY SizeAssumption DEF Sizes, Overflow
  <1>2. CASE a # 0 /\ b > SizeMax \div a
    BY <1>1, <1>2 DEF CheckedMultiply
  <1>3. CASE ~(a # 0 /\ b > SizeMax \div a)
    <2>1. a * b \in Nat /\ a * b <= SizeMax
      <3>1. CASE a = 0
        BY <1>1, <3>1
      <3>2. CASE a # 0
        <4>1. SizeMax \div a \in Int
          BY <1>1, <3>2
        <4>2. b <= SizeMax \div a
          BY <1>1, <1>3, <3>2, <4>1
        <4>3. a * b <= SizeMax
          BY <1>1, <3>2, <4>2, QuotientBound
        <4> QED BY <1>1, <4>3
      <3> QED BY <3>1, <3>2
    <2>2. a * b \in Sizes
      BY <2>1 DEF Sizes
    <2>3. CheckedMultiply(a, b) = a * b
      <3>1. SizeT(a * b) = a * b
        BY <2>2, SizeTFits DEF Sizes
      <3> QED BY <1>1, <1>3, <3>1 DEF CheckedMultiply
    <2> QED BY <2>1, <2>2, <2>3
  <1>4. a * b \in Nat
    BY <1>1
  <1> QED BY <1>2, <1>3, <1>4

\* A checked product exists only if both of its factors did.
LEMMA FactorsFit ==
    ASSUME NEW a, NEW b, CheckedMultiply(a, b) # Overflow
    PROVE  a # Overflow /\ b # Overflow
  BY DEF CheckedMultiply

\* The test is exact in the other direction too: a product that fits is
\* returned.
LEMMA ProductReturned ==
    ASSUME NEW a \in Nat, NEW b \in Nat, a * b <= SizeMax, a <= SizeMax, b <= SizeMax
    PROVE  CheckedMultiply(a, b) = a * b
  <1>1. SizeMax \in Nat /\ a # Overflow /\ b # Overflow /\ a * b \in 0..SizeMax
    BY SizeAssumption DEF Overflow
  <1>2. SizeT(a * b) = a * b
    BY <1>1, SizeTFits
  <1>3. ~(a # 0 /\ b > SizeMax \div a)
    <2> SUFFICES ASSUME a # 0, b > SizeMax \div a PROVE FALSE
      OBVIOUS
    <2> DEFINE q == SizeMax \div a
    <2>1. /\ q \in Nat /\ SizeMax % a \in 0 .. (a - 1)
          /\ SizeMax = a * q + (SizeMax % a)
      BY <1>1, Euclid
    <2>2. b > q
      OBVIOUS
    <2> HIDE DEF q
    <2>3. (q + 1) * a <= b * a /\ (q + 1) * a = a * q + a /\ b * a = a * b
      <3>1. (q + 1) * a <= b * a
        BY <2>1, <2>2, MulMono
      <3>2. (q + 1) * a = a * q + a /\ b * a = a * b
        BY <2>1
      <3> QED BY <3>1, <3>2
    <2> DEFINE r == SizeMax % a
               x == a * q
               y == a * b
    <2>4. x \in Nat /\ y \in Nat
      BY <2>1
    <2> HIDE DEF r, x, y
    <2>5. r \in 0 .. (a - 1) /\ SizeMax = x + r /\ x + a <= y /\ y <= SizeMax
      BY <2>1, <2>3 DEF r, x, y
    <2> QED BY <1>1, <2>4, <2>5
  <1> QED BY <1>1, <1>2, <1>3 DEF CheckedMultiply

\* Checked operations return a size or throw, whatever came before them.
LEMMA CheckedClosed ==
    ASSUME NEW a \in Sizes \cup {Overflow}, NEW b \in Sizes \cup {Overflow}
    PROVE  /\ CheckedMultiply(a, b) \in Sizes \cup {Overflow}
           /\ CheckedAdd(a, b) \in Sizes \cup {Overflow}
           /\ CheckedAdd(a, b) # Overflow =>
                 a \in Sizes /\ b \in Sizes /\ CheckedAdd(a, b) = a + b
  <1>1. CheckedMultiply(a, b) \in Sizes \cup {Overflow}
    <2>1. CASE a \in Sizes /\ b \in Sizes
      BY <2>1, CheckedProduct
    <2>2. CASE a = Overflow \/ b = Overflow
      BY <2>2 DEF CheckedMultiply
    <2> QED BY <2>1, <2>2
  <1>2. CASE a = Overflow \/ b = Overflow
    BY <1>1, <1>2 DEF CheckedAdd
  <1>3. CASE a \in Sizes /\ b \in Sizes
    <2>1. /\ a \in Nat /\ b \in Nat /\ SizeMax \in Nat /\ a <= SizeMax /\ b <= SizeMax
          /\ a # Overflow /\ b # Overflow
      BY <1>3, SizeAssumption DEF Sizes, Overflow
    <2>2. CASE b > SizeMax - a
      BY <1>1, <2>2 DEF CheckedAdd
    <2>3. CASE ~(b > SizeMax - a)
      <3>1. a + b \in 0..SizeMax
        BY <2>1, <2>3
      <3>2. SizeT(a + b) = a + b
        BY <3>1, SizeTFits
      <3>3. CheckedAdd(a, b) = a + b
        BY <2>1, <2>3, <3>2 DEF CheckedAdd
      <3> QED BY <1>1, <1>3, <3>1, <3>3 DEF Sizes
    <2> QED BY <2>2, <2>3
  <1> QED BY <1>2, <1>3
=============================================================================
