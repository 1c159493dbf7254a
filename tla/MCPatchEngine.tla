--------------------------- MODULE MCPatchEngine ---------------------------
(***************************************************************************)
(* Patches small enough for TLC, over eight cells on two pages.  The cave  *)
(* patch is a jump, then two contiguous lines it leads to, across a page   *)
(* boundary.  The detour patch is a pattern line, a line over the same     *)
(* cell, and a jump32.  The clash patch is one pattern line, whose pattern *)
(* the detour's hook overwrites; the line patch is one line.               *)
(***************************************************************************)
EXTENDS PatchEngine, TLC

PlainAt(id, cells, target) ==
  [kind |-> "plain", bytes |-> [c \in cells |-> id], target |-> target,
   pattern |-> {}, cave |-> <<>>]
MaskAt(id, cells, pattern) ==
  [kind |-> "mask", bytes |-> [c \in cells |-> id], target |-> NoCell,
   pattern |-> pattern, cave |-> <<>>]
DetourAt(id, cells, pattern, cave) ==
  [kind |-> "jump32", bytes |-> [c \in cells |-> id], target |-> NoCell,
   pattern |-> pattern, cave |-> cave]

CavePatch == <<PlainAt(1, {1}, 3), PlainAt(2, {3}, NoCell), PlainAt(3, {4}, NoCell)>>
DetourPatch == <<MaskAt(4, {5}, {5, 6}), PlainAt(5, {5}, NoCell),
                 DetourAt(6, {6}, {6, 7}, <<7 :> 6, 8 :> 6>>)>>
ClashPatch == <<MaskAt(7, {6}, {6, 7})>>
LinePatch == <<PlainAt(8, {2}, NoCell)>>

MCPageOf == [c \in 1..8 |-> IF c < 4 THEN 1 ELSE 2]
Files == 1 :> CavePatch @@ 2 :> DetourPatch @@ 3 :> ClashPatch @@ 4 :> LinePatch

NoFault == [c \in 1..8 |-> "ok"]
\* The second half of the cave patch's code, and the detour's jump back or cave.
Faults == {NoFault, [NoFault EXCEPT ![4] = "refuse", ![8] = "ignore"],
           [NoFault EXCEPT ![4] = "refuse", ![7] = "unmapped"]}
NoFaults == {NoFault}

ThreadSymmetry == Permutations(Threads)

\* The patches of the runs have jumps such as NoJumpCorrect is about.
ASSUME JumpsOwned == OwnJumps
=============================================================================
