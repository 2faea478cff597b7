-------------------------- MODULE LinearRefinement --------------------------
(***************************************************************************)
(* The worker pool implements LinearService.  A call is served from the    *)
(* moment it holds submit_mutex_ until it leaves the completion barrier;   *)
(* what the shards have written so far is hidden behind Torn.              *)
(***************************************************************************)
EXTENDS LinearExecutor

CONSTANT TornValue

ASSUME TornAssumption == TornValue # NULL

Serving(s) == spc[s] \in {"scalar", "publish", "notify", "shard", "await", "blocked"}

phaseBar ==
    [s \in Submitters |-> CASE spc[s] = "idle"   -> "idle"
                            [] spc[s] = "submit" -> "queued"
                            [] spc[s] = "return" -> "done"
                            [] OTHER             -> "served"]

\* A caller_error is reported only once the workers have been collected.
faultBar ==
    [s \in Submitters |-> IF failure[s] = NULL \/ Serving(s) THEN NULL
                          ELSE failure[s].req]

memoryBar ==
    [b \in Buffers |-> [c \in Channels |->
        IF \E s \in Submitters : /\ Serving(s)
                                 /\ request[s].output = b
                                 /\ c < request[s].output_channels
        THEN TornValue ELSE out[b][c]]]

OutputChannels(r) == r.output_channels

Service == INSTANCE LinearService WITH
    Callers <- Submitters, Calls <- Requests, Vectors <- Buffers,
    Positions <- Channels, Valid <- Accepted, Width <- OutputChannels,
    Result <- ScalarChannel, Torn <- TornValue, NoCall <- NULL,
    phase <- phaseBar, call <- request, fault <- faultBar, memory <- memoryBar

\* linear() as the callers see it is atomic: what LinearService promises holds
\* of every behaviour of the pool, worker interleavings, faults and early or
\* late notifications included.
ImplementsService == Service!ServiceSpec
=============================================================================
