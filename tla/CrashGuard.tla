----------------------------- MODULE CrashGuard -----------------------------
(***************************************************************************)
(* Crash guards and crash suspects (cr_cheats.c), with the game monitor    *)
(* that turns the one into the other (rpc_refresh_title_and_notify() of    *)
(* cr_game_monitor.c), the toggle handler that asks for suspects and the   *)
(* one that clears them (cr_api.c), the file they are kept in, and the     *)
(* autoload worker (cr_cheat_profiles.cpp).                                *)
(*                                                                         *)
(* A cheat that is switched on gets a guard.  If the game is found stopped *)
(* less than Window after that, the cheat becomes a suspect; if it is      *)
(* found running after Window, the guard goes and the cheat is no suspect. *)
(* Not only the monitor's thread refreshes: an apply that finds its game   *)
(* gone does too, so refreshes overlap.                                    *)
(*                                                                         *)
(* How the engine writes is the matter of CheatApply; here a cheat goes on *)
(* or off in one step.                                                     *)
(***************************************************************************)
EXTENDS Integers, FiniteSets, Sequences, Functions

CONSTANTS
  Users,        \* threads of HTTP clients
  Autoloaders,  \* threads for autoload workers
  Monitor,      \* the game monitor's thread
  NoThread,     \* the apply lock is free
  Titles, NoTitle,
  Cheats,       \* the mods of the cheat files
  TitleOf,      \* the game of each
  Profile,      \* what is switched on when a title starts
  Window,       \* cheat_post_apply_watch_ms, in ticks
  GuardMax,     \* CRASH_GUARD_MAX
  SuspectMax,   \* CRASH_SUSPECT_MAX
  MaxPid        \* bound: how many game processes are started

Threads == Users \cup Autoloaders
Refreshers == Threads \cup {Monitor}
Pids == 0..MaxPid
Bags == [Cheats -> 0..SuspectMax]

ASSUME GuardAssumption ==
  /\ Users \cap Autoloaders = {} /\ Monitor \notin Threads
  /\ NoThread \notin Refreshers /\ NoTitle \notin Titles
  /\ IsFiniteSet(Cheats) /\ Cheats # {} /\ TitleOf \in [Cheats -> Titles]
  /\ Profile \in [Titles -> Seq(Cheats)]
  /\ Window \in Nat \ {0} /\ GuardMax \in Nat /\ SuspectMax \in Nat
  /\ MaxPid \in Nat

NoGame == [pid |-> 0, title |-> NoTitle]
Games == {NoGame} \cup [pid : 1..MaxPid, title : Titles]

VARIABLES
  game,      \* the running game
  started,   \* how many processes have been started
  lit,       \* the cheats that are on in its memory
  running,   \* g_running, the game that was seen last
  lock,      \* the holder of g_cheat_apply_lock
  guards,    \* g_crash_guard_arr: the process of each cheat, and the time since
  suspects,  \* g_crash_suspects: how many records each cheat has
  file,      \* the records in crash_suspects.json
  pc,        \* where each request or autoload worker is
  req,       \* what it is about
  ref,       \* the refresh or the save that a thread is in, with its locals
  since,     \* history: the process each cheat was switched on in, and the time
  expired,   \* history: the cheats with records in the file too old to load
  crossed    \* history: the last snapshot was taken while another was not yet written

world == <<game, started, lit>>
tables == <<guards, suspects>>
history == <<since, expired, crossed>>
vars == <<world, running, lock, tables, file, pc, req, ref, history>>

NoGuard == [pid |-> 0, age |-> 0]
Guarded == {c \in Cheats : guards[c].pid # 0}
NoSuspects == [c \in Cheats |-> 0]

\* game and todo: the process of an autoload and the cheats left, the one that
\* is being switched on first.
NoRequest == [cheat |-> CHOOSE c \in Cheats : TRUE, on |-> FALSE, pid |-> 0,
              failed |-> FALSE, game |-> 0, todo |-> <<>>]
NoRefresh == [pc |-> "none", prev |-> NoGame, cur |-> NoGame, snap |-> NoSuspects,
              then |-> "none"]

Locked == {"write", "arm", "unlock"}
Locations == {"idle", "check", "auto", "begin", "lock"} \cup Locked
RefreshLocations == {"none", "prev", "read", "set", "judge", "start", "clear", "snap", "save"}

\* Also that no table outgrows its array and that the lock has one holder.
TypeOK ==
  /\ game \in Games /\ started \in Pids /\ lit \subseteq Cheats
  /\ running \in Games
  /\ lock \in Threads \cup {NoThread} /\ \A t \in Threads : pc[t] \in Locked <=> lock = t
  /\ guards \in [Cheats -> [pid : Pids, age : 0..Window]]
  /\ Cardinality(Guarded) <= GuardMax
  /\ suspects \in Bags /\ SumFunction(suspects) <= SuspectMax
  /\ file \in Bags /\ SumFunction(file) <= SuspectMax
  /\ pc \in [Threads -> Locations]
  /\ req \in [Threads -> [cheat : Cheats, on : BOOLEAN, pid : Pids, failed : BOOLEAN,
                          game : Pids, todo : Seq(Cheats)]]
  /\ ref \in [Refreshers -> [pc : RefreshLocations, prev : Games, cur : Games, snap : Bags,
                             then : {"none", "start"}]]

Init ==
  /\ game = NoGame /\ started = 0 /\ lit = {}
  /\ running = NoGame /\ lock = NoThread
  /\ guards = [c \in Cheats |-> NoGuard]
  /\ suspects = NoSuspects /\ file = NoSuspects
  /\ pc = [t \in Threads |-> "idle"] /\ req = [t \in Threads |-> NoRequest]
  /\ ref = [t \in Refreshers |-> NoRefresh]
  /\ since = [c \in Cheats |-> NoGuard] /\ expired = {} /\ crossed = FALSE

----------------------------------------------------------------------------
(* The world.                                                              *)

StartGame ==
  /\ game = NoGame /\ started < MaxPid
  /\ started' = started + 1
  /\ \E title \in Titles : game' = [pid |-> started + 1, title |-> title]
  /\ UNCHANGED <<lit, running, lock, tables, file, pc, req, ref, history>>

\* It crashes, or the user quits it.
EndGame ==
  /\ game # NoGame
  /\ game' = NoGame /\ lit' = {}
  /\ UNCHANGED <<started, running, lock, tables, file, pc, req, ref, history>>

Older(g) == [c \in Cheats |-> IF g[c].pid # 0 /\ g[c].age < Window
                              THEN [g[c] EXCEPT !.age = @ + 1] ELSE g[c]]

Tick ==
  /\ \E c \in Guarded : guards[c].age < Window
  /\ guards' = Older(guards) /\ since' = Older(since)
  /\ UNCHANGED <<world, running, lock, suspects, file, pc, req, ref, expired, crossed>>

\* CheatRunner is stopped at any point and started again: crash_suspects_load()
\* reads the file and leaves out what is older than a week.
Restart ==
  /\ running' = NoGame /\ lock' = NoThread
  /\ guards' = [c \in Cheats |-> NoGuard]
  /\ suspects' \in {bag \in Bags : \A c \in Cheats : bag[c] <= file[c]}
  /\ pc' = [t \in Threads |-> "idle"] /\ req' = [t \in Threads |-> NoRequest]
  /\ ref' = [t \in Refreshers |-> NoRefresh]
  /\ since' = [c \in Cheats |-> NoGuard]
  /\ expired' = {c \in Cheats : suspects'[c] < file[c]} /\ crossed' = FALSE
  /\ UNCHANGED <<world, file>>

----------------------------------------------------------------------------
(* rpc_refresh_title_and_notify(), by whichever thread.                    *)

At(t, loc) == ref[t].pc = loc
\* prev is used no more after Judge, nothing at the end.
Goto(t, loc) ==
  ref' = [ref EXCEPT ![t] =
            IF loc = "none" THEN NoRefresh
            ELSE IF loc = "judge" THEN [ref[t] EXCEPT !.pc = loc]
            ELSE [ref[t] EXCEPT !.pc = loc, !.prev = NoGame]]

\* The monitor's loop, or a call of the engine.
ReadPrev(t) ==
  /\ At(t, "prev") \/ (t = Monitor /\ At(t, "none"))
  /\ ref' = [ref EXCEPT ![t] = [NoRefresh EXCEPT !.pc = "read", !.prev = running]]
  /\ UNCHANGED <<world, running, lock, tables, file, pc, req, history>>

ReadCur(t) ==
  /\ At(t, "read")
  /\ ref' = [ref EXCEPT ![t].pc = "set", ![t].cur = game]
  /\ UNCHANGED <<world, running, lock, tables, file, pc, req, history>>

\* A game stopped if none runs or one of another title; that the same title has
\* a new process is not noticed.
Set(t) ==
  /\ At(t, "set")
  /\ running' = ref[t].cur
  /\ LET prev == ref[t].prev
         cur == ref[t].cur
     IN  Goto(t, IF prev.title # cur.title
                 THEN IF prev # NoGame THEN "judge" ELSE "start"
                 ELSE IF cur # NoGame THEN "clear" ELSE "none")
  /\ UNCHANGED <<world, lock, tables, file, pc, req, history>>

Without(g, gone) == [c \in Cheats |-> IF c \in gone THEN NoGuard ELSE g[c]]
Save(t, then) ==
  ref' = [ref EXCEPT ![t] = [NoRefresh EXCEPT !.pc = "snap", !.then = then,
            !.cur = IF then = "none" THEN NoGame ELSE ref[t].cur]]

\* The guards of the process that stopped go, and those younger than Window mark
\* their cheats, as far as there is room (which of them, is up to their slots).
Judge(t) ==
  /\ At(t, "judge")
  /\ LET mine == {c \in Cheats : guards[c].pid = ref[t].prev.pid}
         due == {c \in mine : guards[c].age < Window}
         room == SuspectMax - SumFunction(suspects)
     IN  \E marked \in SUBSET due :
           /\ IF Cardinality(due) <= room THEN marked = due ELSE Cardinality(marked) = room
           /\ suspects' = [c \in Cheats |-> IF c \in marked THEN suspects[c] + 1 ELSE suspects[c]]
           /\ guards' = Without(guards, mine)
           /\ IF marked = {} THEN Goto(t, "start") ELSE Save(t, "start")
           /\ since' = [c \in Cheats |-> IF since[c].pid = ref[t].prev.pid THEN NoGuard ELSE since[c]]
  /\ UNCHANGED <<world, running, lock, file, pc, req, expired, crossed>>

\* A worker with the profile of the game that started; no thread, no worker.
StartAutoload(t) ==
  /\ At(t, "start")
  /\ LET cur == ref[t].cur
         idle == {a \in Autoloaders : pc[a] = "idle"}
     IN  IF cur = NoGame \/ idle = {} \/ Profile[cur.title] = <<>>
         THEN UNCHANGED <<pc, req>>
         ELSE \E a \in idle :
                /\ pc' = [pc EXCEPT ![a] = "auto"]
                /\ req' = [req EXCEPT ![a] = [NoRequest EXCEPT !.game = cur.pid,
                                                !.todo = Profile[cur.title]]]
  /\ Goto(t, IF ref[t].cur = NoGame THEN "none" ELSE "clear")
  /\ UNCHANGED <<world, running, lock, tables, file, history>>

\* Mutants of Clear: a guard of any age; suspects with no guard; no save.
ClearYoung(t) ==
  /\ At(t, "clear")
  /\ LET seen == {c \in Cheats : guards[c].pid = ref[t].cur.pid}
     IN  /\ guards' = Without(guards, seen)
         /\ suspects' = [c \in Cheats |-> IF c \in seen THEN 0 ELSE suspects[c]]
         /\ IF \A c \in seen : suspects[c] = 0 THEN Goto(t, "none") ELSE Save(t, "none")
  /\ UNCHANGED <<world, running, lock, file, pc, req, history>>

ClearTitle(t) ==
  /\ At(t, "clear")
  /\ LET survived == {c \in Cheats : TitleOf[c] = ref[t].cur.title /\ guards[c].pid = 0}
     IN  /\ suspects' = [c \in Cheats |-> IF c \in survived THEN 0 ELSE suspects[c]]
         /\ IF \A c \in survived : suspects[c] = 0 THEN Goto(t, "none") ELSE Save(t, "none")
  /\ UNCHANGED <<world, running, lock, guards, file, pc, req, history>>

ClearUnsaved(t) ==
  /\ At(t, "clear")
  /\ LET survived == {c \in Cheats : guards[c].pid = ref[t].cur.pid /\ guards[c].age >= Window}
     IN  /\ guards' = Without(guards, survived)
         /\ suspects' = [c \in Cheats |-> IF c \in survived THEN 0 ELSE suspects[c]]
         /\ Goto(t, "none")
  /\ UNCHANGED <<world, running, lock, file, pc, req, history>>

\* What outlived Window in the game that runs is trusted again.
Clear(t) ==
  /\ At(t, "clear")
  /\ LET survived == {c \in Cheats : guards[c].pid = ref[t].cur.pid /\ guards[c].age >= Window}
         cleared == {c \in survived : suspects[c] > 0}
     IN  /\ guards' = Without(guards, survived)
         /\ suspects' = [c \in Cheats |-> IF c \in survived THEN 0 ELSE suspects[c]]
         /\ IF cleared = {} THEN Goto(t, "none") ELSE Save(t, "none")
  /\ UNCHANGED <<world, running, lock, file, pc, req, history>>

\* crash_suspects_save(): a snapshot under the lock, written after it.
Snapshot(t) ==
  /\ At(t, "snap")
  /\ ref' = [ref EXCEPT ![t].pc = "save", ![t].snap = suspects]
  /\ crossed' = (\E u \in Refreshers : At(u, "save"))
  /\ UNCHANGED <<world, running, lock, tables, file, pc, req, since, expired>>

WriteFile(t) ==
  /\ At(t, "save")
  /\ file' = ref[t].snap /\ expired' = {}
  /\ ref' = [ref EXCEPT ![t] = [NoRefresh EXCEPT !.pc = ref[t].then, !.cur = ref[t].cur]]
  /\ UNCHANGED <<world, running, lock, tables, pc, req, since, crossed>>

Refresh(t) ==
  \/ ReadPrev(t) \/ ReadCur(t) \/ Set(t) \/ Judge(t) \/ StartAutoload(t)
  \/ Clear(t) \/ Snapshot(t) \/ WriteFile(t)

----------------------------------------------------------------------------
(* Requests and autoload workers.                                          *)

\* A thread runs its request when it is not in a refresh or a save.
In(t, loc) == pc[t] = loc /\ At(t, "none")
Go(t, loc) == pc' = [pc EXCEPT ![t] = loc]
Alive(t) == game # NoGame /\ game.pid = req[t].pid

\* handle_api_cheats_toggle(): on, unless forced (which the settings must allow),
\* only after the check.
RequestToggle(t, c) ==
  /\ t \in Users /\ In(t, "idle")
  /\ \E on, force \in BOOLEAN :
       /\ req' = [req EXCEPT ![t] = [NoRequest EXCEPT !.cheat = c, !.on = on]]
       /\ Go(t, IF on /\ ~force THEN "check" ELSE "begin")
  /\ UNCHANGED <<world, running, lock, tables, file, ref, history>>

\* check_mod_enable_state() finds a suspect only past its other answers: not this
\* game, still loading, on already where the original bytes are known.
Check(t) ==
  /\ In(t, "check")
  /\ \E loading, known \in BOOLEAN :
       LET c == req[t].cheat
           blocked == ~loading /\ game.title = TitleOf[c] /\ (known => c \notin lit) /\ suspects[c] > 0
       IN  IF blocked
           THEN Go(t, "idle") /\ req' = [req EXCEPT ![t] = NoRequest]
           ELSE Go(t, "begin") /\ UNCHANGED req
  /\ UNCHANGED <<world, running, lock, tables, file, ref, history>>

\* handle_api_cheats_clear_crash_flags().
ClearFlags(t, title) ==
  /\ t \in Users /\ In(t, "idle")
  /\ \E c \in Cheats : TitleOf[c] = title /\ suspects[c] > 0
  /\ suspects' = [c \in Cheats |-> IF TitleOf[c] = title THEN 0 ELSE suspects[c]]
  /\ Save(t, "none")
  /\ UNCHANGED <<world, running, lock, guards, file, pc, req, history>>

\* autoloadWorker(): the next cheat, as long as the game is the same; the
\* deadline may be over at any time.
Autoload(t) ==
  /\ In(t, "auto")
  /\ \/ /\ Go(t, "idle")
        /\ req' = [req EXCEPT ![t] = NoRequest]
     \/ /\ running.pid = req[t].game /\ req[t].todo # <<>>
        /\ Go(t, "begin")
        /\ req' = [req EXCEPT ![t].cheat = Head(req[t].todo), ![t].on = TRUE]
  /\ UNCHANGED <<world, running, lock, tables, file, ref, history>>

\* A user is answered; an autoload worker goes on, or tries the same once more.
Finish(t, retry) ==
  IF t \in Users
  THEN Go(t, "idle") /\ req' = [req EXCEPT ![t] = NoRequest]
  ELSE /\ Go(t, "auto")
       /\ req' = [req EXCEPT ![t] = [NoRequest EXCEPT !.game = req[t].game,
                    !.todo = IF retry THEN req[t].todo ELSE Tail(req[t].todo)]]

\* apply_cheat_json(): the game of the cheat runs, or the request is turned
\* away, for good or for now.
Begin(t) ==
  /\ In(t, "begin")
  /\ \/ /\ game.title = TitleOf[req[t].cheat]
        /\ Go(t, "lock")
        /\ req' = [req EXCEPT ![t].pid = game.pid]
     \/ \E retry \in BOOLEAN : Finish(t, retry)
  /\ UNCHANGED <<world, running, lock, tables, file, ref, history>>

\* Mutant of TakeLock: the lock is not asked for.
TakeBusy(t) ==
  /\ In(t, "lock")
  /\ lock' = t
  /\ Go(t, "write")
  /\ UNCHANGED <<world, running, tables, file, req, ref, history>>

\* The trylock; busy and the cooldown are answered alike.
TakeLock(t) ==
  /\ In(t, "lock")
  /\ \/ /\ lock = NoThread
        /\ lock' = t
        /\ Go(t, "write")
        /\ UNCHANGED req
     \/ /\ Finish(t, TRUE)
        /\ UNCHANGED lock
  /\ UNCHANGED <<world, running, tables, file, ref, history>>

\* The pass succeeds, or fails and is taken back.
Write(t) ==
  /\ In(t, "write")
  /\ \/ /\ Alive(t)
        /\ lit' = IF req[t].on THEN lit \cup {req[t].cheat} ELSE lit \ {req[t].cheat}
        /\ Go(t, "arm")
        /\ UNCHANGED req
     \/ /\ Go(t, "unlock")
        /\ req' = [req EXCEPT ![t].failed = TRUE, ![t].pid = 0]
        /\ UNCHANGED lit
  /\ UNCHANGED <<game, started, running, lock, tables, file, ref, history>>

\* The game is gone: the engine refreshes after the unlock, or under the lock
\* when it finds out while it reads.
GameGone(t) ==
  /\ In(t, "write") /\ ~Alive(t)
  /\ ref' = [ref EXCEPT ![t].pc = "prev"]
  /\ \/ /\ lock' = NoThread
        /\ Finish(t, FALSE)
     \/ /\ UNCHANGED lock
        /\ Go(t, "unlock")
        /\ req' = [req EXCEPT ![t].failed = TRUE, ![t].pid = 0]
  /\ UNCHANGED <<world, running, tables, file, history>>

\* Mutant of Arm: switching off leaves the guard.
ArmOnly(t) ==
  /\ In(t, "arm")
  /\ LET c == req[t].cheat
         guard == [pid |-> req[t].pid, age |-> 0]
     IN  IF req[t].on
         THEN guards' = [guards EXCEPT ![c] = guard] /\ since' = [since EXCEPT ![c] = guard]
         ELSE UNCHANGED <<guards, since>>
  /\ Go(t, "unlock")
  /\ req' = [req EXCEPT ![t].pid = 0]
  /\ UNCHANGED <<world, running, lock, suspects, file, ref, expired, crossed>>

\* On: the guard of the cheat is made new, or a new one if there is room.  Off:
\* it goes, whatever process it is for.
Arm(t) ==
  /\ In(t, "arm")
  /\ LET c == req[t].cheat
         room == c \in Guarded \/ Cardinality(Guarded) < GuardMax
         guard == [pid |-> req[t].pid, age |-> 0]
     IN  IF req[t].on
         THEN /\ guards' = [guards EXCEPT ![c] = IF room THEN guard ELSE @]
              /\ since' = [since EXCEPT ![c] = IF room THEN guard ELSE NoGuard]
         ELSE guards' = Without(guards, {c}) /\ UNCHANGED since
  /\ Go(t, "unlock")
  /\ req' = [req EXCEPT ![t].pid = 0]
  /\ UNCHANGED <<world, running, lock, suspects, file, ref, expired, crossed>>

Unlock(t) ==
  /\ In(t, "unlock")
  /\ lock' = NoThread
  /\ Finish(t, FALSE)
  /\ since' = IF req[t].on \/ req[t].failed THEN since
              ELSE [since EXCEPT ![req[t].cheat] = NoGuard]
  /\ UNCHANGED <<world, running, tables, file, ref, expired, crossed>>

Work(t) ==
  \/ Check(t) \/ Autoload(t) \/ Begin(t) \/ TakeLock(t)
  \/ Write(t) \/ GameGone(t) \/ Arm(t) \/ Unlock(t)

Next ==
  \/ StartGame \/ EndGame \/ Tick \/ Restart
  \/ \E t \in Refreshers : Refresh(t)
  \/ \E t \in Threads : Work(t)
  \/ \E t \in Users : \/ \E c \in Cheats : RequestToggle(t, c)
                      \/ \E title \in Titles : ClearFlags(t, title)

Spec == Init /\ [][Next]_vars

----------------------------------------------------------------------------
(* Properties.                                                             *)

Judged(t) == At(t, "judge") /\ ref'[t].pc \in {"snap", "start"}

\* Nobody is blamed without cause: a cheat becomes a suspect only while its last
\* switch-on is less than Window ago, was made in the process that was found
\* stopped, and no switch-off that went through came after it.
Justified ==
  [][\A t \in Refreshers, c \in Cheats :
       Judged(t) /\ suspects'[c] > suspects[c]
         => since[c].pid = ref[t].prev.pid /\ since[c].age < Window]_vars

SwitchingOff(c) ==
  \E t \in Threads : pc[t] \in {"arm", "unlock"} /\ req[t].cheat = c /\ ~req[t].on

\* Nobody gets away: when a game is found stopped, every cheat that has been
\* given a guard and was switched on in it less than Window ago is a suspect
\* afterwards, unless the table is full: whichever thread finds out, however
\* many do at once.  A cheat just being switched off may go either way.
Flagged ==
  [][\A t \in Refreshers, c \in Cheats :
       Judged(t) /\ ~SwitchingOff(c) /\ since[c].pid = ref[t].prev.pid /\ since[c].age < Window
         => suspects'[c] > 0 \/ SumFunction(suspects') = SuspectMax]_vars

\* A flag goes when the user clears it or the cheat has outlived Window since it
\* was switched on last, and at no other time while CheatRunner runs.
OnlySurvivorsForgiven ==
  [][\A c \in Cheats :
       suspects[c] > 0 /\ suspects'[c] = 0 /\ ~Restart
         => \/ \E t \in Users : pc[t] = "idle" /\ At(t, "none") /\ ref'[t].pc = "snap"
            \/ since[c].pid # 0 /\ since[c].age = Window]_vars

\* When no save is under way the file says what the table says, records that
\* were too old to load apart, so a restart brings back the flags there are and
\* none that were cleared.  It takes that the last save overlapped no other.
FileAgrees ==
  (~crossed /\ \A t \in Refreshers : ref[t].pc \notin {"snap", "save"})
    => \A c \in Cheats : /\ suspects[c] > 0 => file[c] > 0
                         /\ file[c] > 0 => suspects[c] > 0 \/ c \in expired

\* Autoload does not ask for a suspect, at least while nobody is just finding
\* out that a game crashed (README.md:49, "mods that crashed the
\* game are flagged and blocked from re-enabling automatically").
AutoloadSparesSuspects ==
  [][\A t \in Autoloaders :
       pc[t] = "auto" /\ pc'[t] = "begin" /\ (\A u \in Refreshers : At(u, "none"))
         => suspects[req'[t].cheat] = 0]_vars
=============================================================================
