---------------------------- MODULE MCCheatApply ----------------------------
(***************************************************************************)
(* Cheat files small enough for TLC.  The full file has every case of the  *)
(* safeguards and of the write order: cheat 0 overlaps cheat 1, which is a *)
(* mastercode; cheat 2 depends on it and is a hook followed by its cave    *)
(* and by a short write on the cave's page.  Enabling 2 enables 1, which   *)
(* disables 0.  The tiny file is one cheat, a hook with its cave: enough   *)
(* for restarts, threads that wait for each other and failing accesses.    *)
(***************************************************************************)
EXTENDS CheatApply, TLC

FullModOf == 0 :> 0 @@ 1 :> 1 @@ 2 :> 2 @@ 3 :> 2 @@ 4 :> 2
FullAddrOf == 0 :> 10 @@ 1 :> 10 @@ 2 :> 11 @@ 3 :> 12 @@ 4 :> 13
FullPageOf == 10 :> 1 @@ 11 :> 2 @@ 12 :> 3 @@ 13 :> 3

TinyModOf == 0 :> 0 @@ 1 :> 0
TinyAddrOf == 0 :> 10 @@ 1 :> 11
TinyPageOf == 10 :> 1 @@ 11 :> 2

NoFault == [a \in Addrs |-> "ok"]
Fault(a, mode) == [NoFault EXCEPT ![a] = mode]

\* Failed accesses that change nothing: of the first write of a pass, or after
\* some were done.
FullFaults ==
  {NoFault, Fault(13, "unmapped"), Fault(11, "refuse"), Fault(13, "ignore"),
   Fault(10, "refuse")}
TinyFaults == {NoFault, Fault(10, "refuse"), Fault(11, "unmapped")}
NoFaults == {NoFault}
\* A byte range across two pages of which only the first can be written.
TornFaults == {Fault(12, "torn"), Fault(11, "torn")}

ThreadSymmetry == Permutations(Threads)
=============================================================================
