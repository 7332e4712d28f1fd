------------------------------ MODULE Allocator ------------------------------
(***************************************************************************)
(* What malloc, realloc and free promise: the blocks a program holds lie    *)
(* in the memory the heap may use and no two of them share a byte.          *)
(***************************************************************************)
EXTENDS Integers

CONSTANT Arena     \* the addresses of the heap's memory

VARIABLE live      \* the blocks, by their address: their sizes

Bytes(a, size) == a..(a + size - 1)

\* Of a program's blocks, the one at a meets none of the others.
Fits(blocks, a) ==
  /\ Bytes(a, blocks[a]) \subseteq Arena
  /\ \A b \in DOMAIN blocks \ {a} : Bytes(a, blocks[a]) \cap Bytes(b, blocks[b]) = {}

\* The blocks but the one at a.
Others(blocks, a) == [b \in DOMAIN blocks \ {a} |-> blocks[b]]

Init == live = << >>

Allocate ==
  \E a \in DOMAIN live' \ DOMAIN live : Fits(live', a) /\ Others(live', a) = live

Resize ==
  \E a \in DOMAIN live : DOMAIN live' = DOMAIN live /\ Fits(live', a)
                         /\ Others(live', a) = Others(live, a)

Release == \E a \in DOMAIN live : live' = Others(live, a)

Next == Allocate \/ Resize \/ Release
Spec == Init /\ [][Next]_live
=============================================================================
