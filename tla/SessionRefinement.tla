-------------------------- MODULE SessionRefinement -------------------------
(***************************************************************************)
(* InferenceSession implements SessionService: its users see whole calls,  *)
(* not the slots, scratch rows and linear operations of consume_token.     *)
(***************************************************************************)
EXTENDS InferenceSession

\* logits_ answers for the prefix as long as no later call has disturbed it.
answerBar ==
    IF pc = "idle" /\ size > 0 /\ logits = Logits(history) THEN logits ELSE Torn

Service == INSTANCE SessionService WITH
    room <- Capacity, Ids <- TokenIds, Known <- Vocabulary, PromptSet <- Prompts,
    LogitsOf <- Logits, Unknown <- Torn,
    prefix <- history, answer <- answerBar, ended <- outcome

\* prefill and decode are atomic to their users: they append the whole
\* argument and answer for exactly the new prefix, or they change nothing.
ImplementsSession == Service!SessionSpec
=============================================================================
