---------------------------- MODULE CheatToggle ----------------------------
(***************************************************************************)
(* What the cheat engine promises a user about the running game: a cheat   *)
(* is in the game's memory as a whole or not there at all, one toggle is   *)
(* under way at a time, it changes its own cheat, at once and in the       *)
(* direction that was asked for, or changes nothing, and a game that has   *)
(* ended takes every cheat with it.  CheatApply shows that the write pass, *)
(* its verification and its rollback implement this.                       *)
(***************************************************************************)
CONSTANTS Cheats,    \* the cheats that share no byte with another one
          Nothing    \* no toggle is under way

VARIABLES running,   \* is a game process alive
          active,    \* the cheats whose bytes are in its memory
          pending    \* the toggle under way in it

Toggles == [cheat : Cheats, on : BOOLEAN, committed : BOOLEAN]

Init == /\ running = FALSE
        /\ active = {}
        /\ pending = Nothing

\* A game process starts with its own bytes only.
Start == /\ ~running
         /\ running' = TRUE
         /\ UNCHANGED <<active, pending>>

\* The process ends, and its memory and what was being done to it with it.
Stop == /\ running
        /\ running' = FALSE
        /\ active' = {}
        /\ pending' = Nothing

Begin(c, on) ==
  /\ running /\ pending = Nothing
  /\ pending' = [cheat |-> c, on |-> on, committed |-> FALSE]
  /\ UNCHANGED <<running, active>>

\* The one step in which the toggle takes effect.
Commit ==
  /\ pending \in Toggles /\ ~pending.committed
  /\ active' = IF pending.on THEN active \cup {pending.cheat}
                             ELSE active \ {pending.cheat}
  /\ pending' = [pending EXCEPT !.committed = TRUE]
  /\ UNCHANGED running

\* The toggle is over; one that was not committed has changed nothing.
Close ==
  /\ pending # Nothing
  /\ pending' = Nothing
  /\ UNCHANGED <<running, active>>

Next == \/ Start \/ Stop
        \/ \E c \in Cheats, on \in BOOLEAN : Begin(c, on)
        \/ Commit \/ Close

Spec == Init /\ [][Next]_<<running, active, pending>>
=============================================================================
