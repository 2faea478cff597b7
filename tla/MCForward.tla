----------------------------- MODULE MCForward ------------------------------
(***************************************************************************)
(* GPT2Model::forward over terms.  With SizeMax = 23 and three tokens, the *)
(* first dimensions below overflow in the MLP's vector and the second in   *)
(* the logits (wrapped, both would be small), the third need more floats   *)
(* than MaxFloats = 20, and the last fit.                                  *)
(***************************************************************************)
EXTENDS GPT2Forward, TermKernels

Dimensions(c, v) == [channels |-> c, padded_vocabulary_size |-> v]

MCConfigs == {Dimensions(2, 3), Dimensions(1, 9), Dimensions(1, 7), Dimensions(1, 2)}
=============================================================================
