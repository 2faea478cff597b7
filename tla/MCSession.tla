----------------------------- MODULE MCSession ------------------------------
(* InferenceSession and its refinement over terms.                         *)
EXTENDS SessionRefinement, TermKernels
=============================================================================
