--------------------------- MODULE SessionService ---------------------------
(***************************************************************************)
(* The state table of docs/MILESTONE2_DESIGN.md as the users of a session  *)
(* see it: a prefix of consumed tokens, and the logits of exactly that     *)
(* prefix, or Unknown contents while and after a call disturbs them.       *)
(***************************************************************************)
EXTENDS Integers, Sequences

CONSTANTS
    Ids, Known,     \* the IDs a user may pass and those in the vocabulary
    PromptSet,      \* the prompts a user may pass
    LogitsOf(_),    \* what the full forward pass answers for a prefix
    Unknown

VARIABLES
    room,    \* how many tokens the session can consume: fixed
    prefix,  \* the tokens consumed since the last reset
    answer,  \* the contents of the view last returned
    ended    \* how the last call ended

sessionVars == <<room, prefix, answer, ended>>

Start == prefix = <<>> /\ answer = Unknown /\ ended = "none"

\* A call starts to work: the view returned before is invalidated.
Disturb ==
    /\ answer' = Unknown
    /\ UNCHANGED <<room, prefix, ended>>

Consumed(more) ==
    /\ prefix' = prefix \o more
    /\ answer' = LogitsOf(prefix \o more)
    /\ ended' = "ok"
    /\ UNCHANGED room

Prefilled(prompt) ==
    /\ prefix = <<>> /\ prompt # <<>> /\ Len(prompt) <= room
    /\ \A i \in DOMAIN prompt : prompt[i] \in Known
    /\ Consumed(prompt)

Decoded(token) ==
    /\ prefix # <<>> /\ Len(prefix) < room /\ token \in Known
    /\ Consumed(<<token>>)

\* The documented errors are raised only for their reason and change nothing.
PrefillRefused(prompt) ==
    /\ \/ ended' = "logic_error" /\ prefix # <<>>
       \/ /\ ended' = "invalid_argument"
          /\ \/ prompt = <<>>
             \/ \E i \in DOMAIN prompt : prompt[i] \notin Known
       \/ ended' = "length_error" /\ Len(prompt) > room
    /\ UNCHANGED <<room, prefix, answer>>

DecodeRefused(token) ==
    /\ \/ ended' = "logic_error" /\ prefix = <<>>
       \/ ended' = "invalid_argument" /\ token \notin Known
       \/ ended' = "length_error" /\ Len(prefix) = room
    /\ UNCHANGED <<room, prefix, answer>>

\* An unexpected failure keeps the prefix.
Failed ==
    /\ ended' = "worker_error"
    /\ \/ answer' = Unknown
       \/ prefix # <<>> /\ answer' = LogitsOf(prefix)
    /\ UNCHANGED <<room, prefix>>

Cleared ==
    /\ prefix' = <<>> /\ answer' = Unknown /\ ended' = "none"
    /\ UNCHANGED room

SessionNext ==
    \/ Disturb \/ Failed \/ Cleared
    \/ \E prompt \in PromptSet : Prefilled(prompt) \/ PrefillRefused(prompt)
    \/ \E token \in Ids : Decoded(token) \/ DecodeRefused(token)

SessionSpec == Start /\ [][SessionNext]_sessionVars
=============================================================================
