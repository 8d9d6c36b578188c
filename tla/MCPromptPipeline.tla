-------------------------- MODULE MCPromptPipeline --------------------------
(* Instances of PromptPipeline small enough for TLC. *)
EXTENDS PromptPipeline, TLC

CONSTANTS t1, t2, c1, c2

\* Both turns in one conversation: they share its client and cancel flag.
SameConv == [t \in Turn |-> c1]

\* Turns of one conversation are interchangeable.
Symmetry == Permutations(Turn)

\* One conversation per turn: they share the queue and the semaphore.
OwnConv == t1 :> c1 @@ t2 :> c2
=============================================================================
