------------------------------- MODULE MCSffs -------------------------------
(* Instances of Sffs for TLC.                                               *)
EXTENDS Sffs

Use(modes, over, open, sections, cap) ==
  [modes |-> modes, over |-> over, crash |-> {}, open |-> open, sections |-> sections, cap |-> cap,
   calls |-> 0, boots |-> 1]
For(s, where, maxCalls, maxBoots) ==
  [s EXCEPT !.crash = where, !.calls = maxCalls, !.boots = maxBoots]

\* A small drive whose sections are erased over and over.
Small == Use({"excl", "rdwr", "trunc"}, TRUE, 1, 3, 3)
Two == Use({"excl", "read"}, FALSE, 2, 3, 3)

\* Files that are created and appended to, on a drive with space.
Grow == Use({"excl", "rdwr"}, FALSE, 1, 6, 8)

Sound == {For(Small, {}, 7, 2), For(Two, {}, 7, 1), For(Grow, {"call"}, 5, 3),
          For(Grow, {"call", "mount"}, 5, 2)}

\* Files that are overwritten.
Replace == Use({"excl", "rdwr", "trunc"}, TRUE, 1, 5, 3)
\* The values are interchangeable.
Swaps == Permutations(Vals)
Power == {For(Replace, {"call", "mount"}, 7, 3)}
=============================================================================
