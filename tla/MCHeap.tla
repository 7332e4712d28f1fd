------------------------------- MODULE MCHeap -------------------------------
(* Instances of Heap for TLC.                                              *)
EXTENDS Heap

\* Blocks that are resized, and blocks of which the last ones are given back; in both a
\* thread exits while the others only free.
Resizing == [ops |-> {"malloc", "free", "realloc", "exit"}]
GivingBack == [ops |-> {"malloc", "free", "trim", "exit"}]
Everything == {Resizing, GivingBack}

\* A thread exits while the others allocate.
Racing == {[ops |-> {"malloc", "free", "exit", "race"}]}

\* Memory is given back beside a block that was resized.
ResizingAndGivingBack == {[ops |-> {"malloc", "free", "realloc", "trim"}]}
=============================================================================
