--------------------------- MODULE LinearService ----------------------------
(***************************************************************************)
(* What a caller may rely on when it shares a LinearExecutor: calls take   *)
(* effect one at a time.  While a call is served the channels of its       *)
(* output are Torn; it ends with all of them holding the kernel's result,  *)
(* or with an error that belongs to that call and those channels           *)
(* unspecified.  It never touches anything else.  Threads, shards,         *)
(* generations and notifications do not appear.                            *)
(***************************************************************************)
EXTENDS Naturals

CONSTANTS
    Callers, Calls, Vectors, Positions,
    Valid(_),      \* the call's arguments pass the checks
    Width(_),      \* how many positions of its vector the call computes
    Result(_, _),  \* what a served call leaves at a position
    Torn, NoCall

VARIABLES
    phase,    \* of each caller: "idle", "queued", "served", "done"
    call,     \* what it asked for
    fault,    \* the call its exception is about, or NoCall
    memory

serviceVars == <<phase, call, fault, memory>>

Written(r) == {<<r.output, c>> : c \in 0 .. (Width(r) - 1)}

\* memory' agrees with memory outside the call's output.
Frame(r) ==
    /\ DOMAIN memory' = DOMAIN memory
    /\ \A b \in Vectors, c \in Positions :
          <<b, c>> \notin Written(r) => memory'[b][c] = memory[b][c]

ServiceInit ==
    /\ phase = [p \in Callers |-> "idle"]
    /\ call = [p \in Callers |-> NoCall]
    /\ fault = [p \in Callers |-> NoCall]
    /\ memory \in [Vectors -> [Positions -> {NoCall}]]

Refuse(p, r) ==
    /\ phase[p] = "idle" /\ ~Valid(r)
    /\ call' = [call EXCEPT ![p] = r]
    /\ fault' = [fault EXCEPT ![p] = r]
    /\ UNCHANGED <<phase, memory>>

Ask(p, r) ==
    /\ phase[p] = "idle" /\ Valid(r)
    /\ phase' = [phase EXCEPT ![p] = "queued"]
    /\ call' = [call EXCEPT ![p] = r]
    /\ fault' = [fault EXCEPT ![p] = NoCall]
    /\ UNCHANGED memory

\* At most one caller is served at a time.
Serve(p) ==
    /\ phase[p] = "queued"
    /\ \A q \in Callers : phase[q] \notin {"served", "done"}
    /\ phase' = [phase EXCEPT ![p] = "served"]
    /\ \A x \in Written(call[p]) : memory'[x[1]][x[2]] = Torn
    /\ Frame(call[p])
    /\ UNCHANGED <<call, fault>>

Succeed(p) ==
    /\ phase[p] = "served"
    /\ phase' = [phase EXCEPT ![p] = "done"]
    /\ \A x \in Written(call[p]) : memory'[x[1]][x[2]] = Result(call[p], x[2])
    /\ Frame(call[p])
    /\ UNCHANGED <<call, fault>>

Fail(p) ==
    /\ phase[p] = "served"
    /\ phase' = [phase EXCEPT ![p] = "done"]
    /\ fault' = [fault EXCEPT ![p] = call[p]]
    /\ Frame(call[p])
    /\ UNCHANGED call

Resume(p) ==
    /\ phase[p] = "done"
    /\ phase' = [phase EXCEPT ![p] = "idle"]
    /\ UNCHANGED <<call, fault, memory>>

ServiceNext ==
    \E p \in Callers :
        \/ \E r \in Calls : Refuse(p, r) \/ Ask(p, r)
        \/ Serve(p) \/ Succeed(p) \/ Fail(p) \/ Resume(p)

ServiceSpec == ServiceInit /\ [][ServiceNext]_serviceVars
=============================================================================
