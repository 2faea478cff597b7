----------------------------- MODULE MCGenerate -----------------------------
(* Command lines of gpt2_generate over the tokens of MCTokens.             *)
EXTENDS Generate, MCTokens

MCPrompts == UNION {[1..n -> MCIds] : n \in 0 .. (Context + 1)}
=============================================================================
