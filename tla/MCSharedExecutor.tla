-------------------------- MODULE MCSharedExecutor --------------------------
(* A session, and a thread that runs the same operations on other vectors. *)
EXTENDS SharedExecutor, TermKernels

Call(v, o, n) == [op |-> o, layer |-> 0, row |-> <<"x">>, output |-> v,
                  size |-> 2, width |-> n]

MCOtherCalls == {Call("theirs", "qkv", 2), Call("theirs", "logits", 1)}
=============================================================================
