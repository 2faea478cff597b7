--------------------------- MODULE SizeArithmetic ---------------------------
(***************************************************************************)
(* std::size_t arithmetic, and the checked operations of src/model.cpp and *)
(* src/session.cpp, which throw std::overflow_error instead of wrapping.   *)
(***************************************************************************)
EXTENDS Integers

CONSTANT SizeMax   \* std::numeric_limits<std::size_t>::max()

ASSUME SizeAssumption == SizeMax \in Nat \ {0}

Sizes == 0..SizeMax

\* A std::size_t result.
SizeT(x) == x % (SizeMax + 1)

\* The result of a checked operation that throws: no size_t, and whatever is
\* computed from it is not computed either.
Overflow == SizeMax + 1

CheckedAdd(left, right) ==
    IF left = Overflow \/ right = Overflow \/ right > SizeMax - left
    THEN Overflow ELSE SizeT(left + right)

\* Mutant: the multiplication is not checked.
WrappingMultiply(left, right) ==
    IF left = Overflow \/ right = Overflow THEN Overflow ELSE SizeT(left * right)

CheckedMultiply(left, right) ==
    IF \/ left = Overflow \/ right = Overflow
       \/ left # 0 /\ right > SizeMax \div left
    THEN Overflow ELSE SizeT(left * right)
=============================================================================
