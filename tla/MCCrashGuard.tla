---------------------------- MODULE MCCrashGuard ----------------------------
(***************************************************************************)
(* Two games for TLC, with a cheat each; the first game's is autoloaded.   *)
(***************************************************************************)
EXTENDS CrashGuard, TLC

CONSTANTS gameA, gameB, cheatA, cheatB

MCTitleOf == [c \in Cheats |-> IF c = cheatB THEN gameB ELSE gameA]
MCProfile == gameA :> <<cheatA>> @@ gameB :> <<>>
=============================================================================
