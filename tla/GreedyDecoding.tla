--------------------------- MODULE GreedyDecoding ---------------------------
(***************************************************************************)
(* What the programs of app/ that generate tokens share: the model whose   *)
(* forward pass they call, a session as SessionService describes it (which *)
(* InferenceSession implements), and the greedy choice of the next token.  *)
(* Among their failures, "bad_alloc" stands for every way in which memory  *)
(* cannot be had, an overflow in the computation of its size included.     *)
(***************************************************************************)
EXTENDS SessionService

CONSTANTS
    Context,     \* config.max_sequence_length
    Row(_),      \* padded logits of the last token, by forward
    Real(_),     \* the entries of a row below vocabulary_size
    Greedy(_),   \* greedy_token
    None

\* For every prefix that forward and a session accept: LogitsOf, the session's
\* answer, has no padded entries; and the largest of the real entries is the
\* index of a token.
ASSUME GreedyAssumption ==
    /\ Context \in Nat \ {0}
    /\ Known \subseteq Ids /\ None \notin Ids
    /\ PromptSet \subseteq Seq(Ids)
    /\ \A n \in 1..Context : \A p \in [1..n -> Known] :
          LogitsOf(p) = Real(Row(p)) /\ Greedy(LogitsOf(p)) \in Known

\* forward()'s argument checks.
ForwardAccepts(list) ==
    /\ Len(list) \in 1..Context
    /\ \A i \in DOMAIN list : list[i] \in Known

\* A prompt and n more tokens, each the greedy choice after all before it.
GreedyContinuation(list, prompt, n) ==
    /\ Len(list) = Len(prompt) + n
    /\ SubSeq(list, 1, Len(prompt)) = prompt
    /\ \A i \in (Len(prompt) + 1) .. Len(list) :
          list[i] = Greedy(LogitsOf(SubSeq(list, 1, i - 1)))
=============================================================================
