----------------------------- MODULE CheatApply -----------------------------
(***************************************************************************)
(* The cheat engine's apply path, apply_cheat_json_impl() of cr_cheats.c,  *)
(* run by any number of request threads against one running title: the     *)
(* cooldown, the safeguards that switch conflicting cheats off and the     *)
(* mastercode on by calling the same function again, the global apply      *)
(* lock, the re-validation of the process, the pre-read, the ordered       *)
(* write pass with its read-back, the rollback, and the two tables of      *)
(* enabled and disabled cheats that every later request consults.          *)
(*                                                                         *)
(* Data is abstracted to what the properties tell apart.  A byte range of  *)
(* the game holds its Original bytes (a cheat's "off" value), the "on"     *)
(* bytes of some cheat (its index) or a Torn mixture.  A process id is     *)
(* never reused, and 0 is no process, and no record, in the tables.        *)
(***************************************************************************)
EXTENDS Integers, Sequences

CONSTANTS
  Threads,      \* HTTP clients, the autoload thread: whoever calls the engine
  NoThread,     \* the apply lock is free
  Sweepers,     \* bound: the threads that may serve disable_all
  Mods,         \* the cheats of the file, by mod_index
  Entries,      \* the memory entries of all of them, numbered in file order
  ModOf,        \* the cheat an entry belongs to
  AddrOf,       \* the byte range an entry writes
  PageOf,       \* the page of a byte range
  Big,          \* the entries of 16 bytes or more
  MasterNamed,  \* the cheats whose name says "mastercode"
  MaxPid,       \* bound: how many game processes are started
  OneAtATime,   \* cheat_apply_one_at_a_time
  Cooldown,     \* cheat_apply_cooldown_ms > 0
  Safeguards,   \* cheat_auto_safeguards
  Layouts       \* how the byte ranges of a game may answer reads and writes

Addrs == {AddrOf[e] : e \in Entries}
Original == -1
Torn == -2
Values == Mods \cup {Original, Torn}
Pids == 0..MaxPid
NoMod == -1

\* ok: written and read back.  unmapped: not even readable.  refuse: readable,
\* the write fails.  ignore: the write reports success and changes nothing.
\* torn: it crosses a page and only the first half is written.
FaultModes == {"ok", "unmapped", "refuse", "ignore", "torn"}

ASSUME LayoutAssumption ==
  /\ Mods \subseteq Nat /\ Mods # {} /\ Entries \subseteq Nat
  /\ ModOf \in [Entries -> Mods]
  /\ DOMAIN AddrOf = Entries
  /\ DOMAIN PageOf = Addrs
  /\ Big \subseteq Entries /\ MasterNamed \subseteq Mods

ASSUME ConfigAssumption ==
  /\ NoThread \notin Threads /\ Sweepers \subseteq Threads
  /\ MaxPid \in Nat
  /\ {OneAtATime, Cooldown, Safeguards} \subseteq BOOLEAN
  /\ Layouts \subseteq [Addrs -> FaultModes]

----------------------------------------------------------------------------
(* The cheat file: caves and hooks, mastercodes, conflicts.                *)

EntriesOf == [m \in Mods |-> {e \in Entries : ModOf[e] = m}]

\* A write of 16 bytes or more is a code cave, and so is every other write of
\* the same cheat on such a page; what is left are the hooks that jump there.
Caves ==
  {e \in Entries : \E b \in Big : /\ ModOf[b] = ModOf[e]
                                  /\ PageOf[AddrOf[b]] = PageOf[AddrOf[e]]}

\* mod_has_cave_entry() and the name: only then is a cheat a mastercode.
Masters == {m \in MasterNamed : EntriesOf[m] \cap Big # {}}

\* find_master_code_mod_for(): the nearest mastercode before the cheat.
MasterFor ==
  [m \in Mods |->
     LET before == {k \in Masters : k < m}
         nearest == {k \in before : \A j \in before : j <= k}
     IN  IF nearest = {} THEN NoMod ELSE CHOOSE k \in nearest : TRUE]

Overlap(m, n) ==
  \E e \in EntriesOf[m], f \in EntriesOf[n] : AddrOf[e] = AddrOf[f]

\* conflict_map_build() for one pair i < j: a dependent does not conflict with
\* its own mastercode, nor with the dependents of another mastercode.
PairConflicts(i, j) ==
  /\ Overlap(i, j)
  /\ ~(i \in Masters /\ j \notin Masters /\ MasterFor[j] = i)
  /\ ~(/\ {i, j} \cap Masters = {}
       /\ NoMod \notin {MasterFor[i], MasterFor[j]}
       /\ MasterFor[i] # MasterFor[j])

ConflictsOf ==
  [m \in Mods |-> {n \in Mods : \/ n < m /\ PairConflicts(n, m)
                                \/ m < n /\ PairConflicts(m, n)}]

\* The cheats that share no byte range with any other entry of the file: the
\* ones whose "off" bytes are the game's own.
Solo ==
  {m \in Mods : /\ EntriesOf[m] # {}
                /\ \A e \in EntriesOf[m], f \in Entries :
                     AddrOf[e] = AddrOf[f] => e = f}

----------------------------------------------------------------------------
VARIABLES
  gamePid,   \* the process of the running game, 0 when there is none
  started,   \* how many processes have been started
  mem,       \* the byte ranges of that process
  fault,     \* how each of them answers a write, fixed by the game's layout
  lock,      \* the holder of g_cheat_apply_lock
  applying,  \* g_cheat_applying
  cooling,   \* now_ms() - g_last_apply_at_ms < cheat_apply_cooldown_ms
  enabled,   \* g_mods_enabled_arr: the pid a cheat was enabled in
  disabled,  \* g_mods_disabled: the pid a cheat was disabled in
  cached,    \* g_running.pid, what the monitor saw last
  pc,        \* where each thread is in apply_cheat_json_impl()
  req,       \* the arguments and locals of its current call
  stack,     \* the suspended calls that the safeguards made it from
  sweep,     \* rs.pid and i of the disable_all a thread serves, pid 0 for none
  old,       \* applied[].old_bytes of the thread that holds the lock
  done       \* written_order[] of that thread, as the set of its entries

game == <<gamePid, started, mem, fault>>
tables == <<enabled, disabled, cached>>
calls == <<req, stack, sweep>>
pass == <<old, done>>
vars == <<game, lock, applying, cooling, tables, pc, calls, pass>>

Unlocked == {"idle", "enter", "cooldown", "conflicts", "lock"}
Writing == {"write", "rollback"}
Applying == {"probe", "read", "record", "finish", "fail"} \cup Writing
Locked == {"recheck"} \cup Applying
Locations == Unlocked \cup Locked

\* todo: the conflicting cheats still to look at.  undone: history, the ones
\* this call has switched off.
Call == [mod : Mods, on : BOOLEAN, pid : Pids, todo : SUBSET Mods,
         undone : SUBSET Mods]
NewCall(m, on) == [mod |-> m, on |-> on, pid |-> 0, todo |-> {}, undone |-> {}]

NoSweep == [pid |-> 0, from |-> 0]

Idle == NewCall(CHOOSE m \in Mods : TRUE, FALSE)

TypeOK ==
  /\ gamePid \in Pids /\ started \in Pids /\ gamePid <= started
  /\ mem \in [Addrs -> Values]
  /\ fault \in Layouts
  /\ lock \in Threads \cup {NoThread}
  /\ applying \in BOOLEAN /\ cooling \in BOOLEAN
  /\ enabled \in [Mods -> Pids] /\ disabled \in [Mods -> Pids]
  /\ cached \in Pids
  /\ pc \in [Threads -> Locations]
  /\ req \in [Threads -> Call]
  /\ stack \in [Threads -> Seq(Call)]
  /\ sweep \in [Threads -> [pid : Pids, from : Nat]]
  /\ old \in [Entries -> Values]
  /\ done \in SUBSET Entries

Init ==
  /\ gamePid = 0 /\ started = 0
  /\ mem = [a \in Addrs |-> Original]
  /\ fault \in Layouts
  /\ lock = NoThread /\ applying = FALSE /\ cooling = FALSE
  /\ enabled = [m \in Mods |-> 0] /\ disabled = [m \in Mods |-> 0]
  /\ cached = 0
  /\ pc = [t \in Threads |-> "idle"]
  /\ req = [t \in Threads |-> Idle]
  /\ stack = [t \in Threads |-> <<>>]
  /\ sweep = [t \in Threads |-> NoSweep]
  /\ old = [e \in Entries |-> Original]
  /\ done = {}

----------------------------------------------------------------------------
(* The game and the clock.                                                 *)

StartGame ==
  /\ gamePid = 0 /\ started < MaxPid
  /\ started' = started + 1
  /\ gamePid' = started + 1
  /\ UNCHANGED <<mem, fault, lock, applying, cooling, tables, pc, calls, pass>>

\* The user quits the game or it crashes: its memory is gone.
EndGame ==
  /\ gamePid # 0
  /\ gamePid' = 0
  /\ mem' = [a \in Addrs |-> Original]
  /\ UNCHANGED <<started, fault, lock, applying, cooling, tables, pc, calls, pass>>

CooldownElapses ==
  /\ cooling
  /\ cooling' = FALSE
  /\ UNCHANGED <<game, lock, applying, tables, pc, calls, pass>>

\* Mutant of Refresh: the records are marked pid -1, not dropped.
RefreshMarks ==
  /\ cached' = gamePid
  /\ IF cached # 0 /\ gamePid = 0
     THEN /\ enabled' = [m \in Mods |-> IF enabled[m] = cached THEN -1 ELSE enabled[m]]
          /\ disabled' = [m \in Mods |-> IF disabled[m] = cached THEN -1 ELSE disabled[m]]
     ELSE UNCHANGED <<enabled, disabled>>

\* rpc_refresh_title_and_notify(), as far as these tables go: when the title
\* that ran is seen no more, the records of its process are dropped.  With one
\* title a restart between two polls is no change, and drops nothing.
Refresh ==
  /\ cached' = gamePid
  /\ IF cached # 0 /\ gamePid = 0
     THEN /\ enabled' = [m \in Mods |-> IF enabled[m] = cached THEN 0 ELSE enabled[m]]
          /\ disabled' = [m \in Mods |-> IF disabled[m] = cached THEN 0 ELSE disabled[m]]
     ELSE UNCHANGED <<enabled, disabled>>

MonitorPolls ==
  /\ Refresh
  /\ UNCHANGED <<game, lock, applying, cooling, pc, calls, pass>>

----------------------------------------------------------------------------
(* Calling the engine and coming back from it.                             *)

Go(t, loc) == pc' = [pc EXCEPT ![t] = loc]

\* The outermost call answers the request; a call the safeguards made resumes
\* the one that made it, whatever came of it: after a conflicting cheat with
\* the next one, after the mastercode with the lock.
Return(t, ok) ==
  \/ /\ stack[t] = <<>>
     /\ Go(t, "idle")
     /\ req' = [req EXCEPT ![t] = Idle]
     /\ UNCHANGED <<stack, sweep>>
  \/ /\ stack[t] # <<>>
     /\ Go(t, IF req[t].on THEN "lock" ELSE "conflicts")
     /\ req' = [req EXCEPT ![t] =
                  [Head(stack[t]) EXCEPT !.undone =
                     IF ok /\ ~req[t].on THEN @ \cup {req[t].mod} ELSE @]]
     /\ stack' = [stack EXCEPT ![t] = Tail(@)]
     /\ UNCHANGED sweep

\* apply_cheat_json() called by the safeguards of the call that is running.
CallEngine(t, caller, m, on) ==
  /\ Go(t, "enter")
  /\ req' = [req EXCEPT ![t] = NewCall(m, on)]
  /\ stack' = [stack EXCEPT ![t] = <<caller>> \o @]
  /\ UNCHANGED sweep

Request(t, m, on) ==
  /\ pc[t] = "idle" /\ sweep[t].pid = 0
  /\ Go(t, "enter")
  /\ req' = [req EXCEPT ![t] = NewCall(m, on)]
  /\ UNCHANGED <<game, lock, applying, cooling, tables, stack, sweep, pass>>

\* handle_api_cheats_disable_all() reads the running game's pid once ...
DisableAll(t) ==
  /\ pc[t] = "idle" /\ sweep[t].pid = 0 /\ t \in Sweepers
  /\ cached # 0
  /\ sweep' = [sweep EXCEPT ![t].pid = cached]
  /\ UNCHANGED <<game, lock, applying, cooling, tables, pc, req, stack, pass>>

\* ... then looks at one cheat after the other, and switches off what is enabled
\* in that process, the cooldown cleared so that rapid disables are not blocked ...
Unswept(t) == {m \in Mods : sweep[t].from <= m}

DisableAllRound(t) ==
  /\ pc[t] = "idle" /\ sweep[t].pid # 0
  /\ \E m \in Unswept(t) :
       /\ \A n \in Unswept(t) : m <= n
       /\ sweep' = [sweep EXCEPT ![t].from = m + 1]
       /\ \/ /\ enabled[m] = sweep[t].pid
             /\ cooling' = FALSE
             /\ req' = [req EXCEPT ![t] = NewCall(m, FALSE)]
             /\ Go(t, "enter")
          \/ /\ enabled[m] # sweep[t].pid
             /\ UNCHANGED <<cooling, req, pc>>
  /\ UNCHANGED <<game, lock, applying, tables, stack, pass>>

\* ... to the end of the file.
DisableAllDone(t) ==
  /\ pc[t] = "idle" /\ sweep[t].pid # 0
  /\ Unswept(t) = {}
  /\ sweep' = [sweep EXCEPT ![t] = NoSweep]
  /\ UNCHANGED <<game, lock, applying, cooling, tables, pc, req, stack, pass>>

\* The process the call was made for still runs.
Alive(t) == gamePid # 0 /\ gamePid = req[t].pid

----------------------------------------------------------------------------
(* Before the lock.                                                        *)

\* The file, the configuration and the running game pass the first checks.
Enter(t) ==
  /\ pc[t] = "enter" /\ gamePid # 0 /\ EntriesOf[req[t].mod] # {}
  /\ req' = [req EXCEPT ![t].pid = gamePid]
  /\ Go(t, "cooldown")
  /\ UNCHANGED <<game, lock, applying, cooling, tables, stack, sweep, pass>>

\* No file, engine off, no game, another title, app_not_stable,
\* base_not_ready, parse errors, index out of range, no entries, no privilege.
Reject(t) ==
  /\ pc[t] = "enter"
  /\ Return(t, FALSE)
  /\ UNCHANGED <<game, lock, applying, cooling, tables, pass>>

CheckCooldown(t) ==
  /\ pc[t] = "cooldown"
  /\ \/ /\ cooling
        /\ Return(t, FALSE)
     \/ /\ ~cooling
        /\ IF req[t].on /\ Safeguards
           THEN /\ Go(t, "conflicts")
                /\ req' = [req EXCEPT ![t].todo = ConflictsOf[req[t].mod]]
           ELSE /\ Go(t, "lock")
                /\ UNCHANGED req
        /\ UNCHANGED <<stack, sweep>>
  /\ UNCHANGED <<game, lock, applying, cooling, tables, pass>>

\* Mutant of SwitchOffConflict: it insists until the conflicting cheat is off.
SwitchOffInsists(t) ==
  /\ pc[t] = "conflicts"
  /\ \E c \in req[t].todo :
       /\ \A d \in req[t].todo : c <= d
       /\ \/ /\ enabled[c] = req[t].pid
             /\ CallEngine(t, req[t], c, FALSE)
          \/ /\ enabled[c] # req[t].pid
             /\ req' = [req EXCEPT ![t].todo = @ \ {c}]
             /\ UNCHANGED <<pc, stack, sweep>>
  /\ UNCHANGED <<game, lock, applying, cooling, tables, pass>>

\* Conflicts are switched off in the order of their index.
SwitchOffConflict(t) ==
  /\ pc[t] = "conflicts"
  /\ \E c \in req[t].todo :
       LET rest == [req[t] EXCEPT !.todo = @ \ {c}]
       IN  /\ \A d \in req[t].todo : c <= d
           /\ \/ /\ enabled[c] = req[t].pid
                 /\ CallEngine(t, rest, c, FALSE)
              \/ /\ enabled[c] # req[t].pid
                 /\ req' = [req EXCEPT ![t] = rest]
                 /\ UNCHANGED <<pc, stack, sweep>>
  /\ UNCHANGED <<game, lock, applying, cooling, tables, pass>>

\* The mastercode, when it is not on, is switched on with the cooldown cleared.
SwitchOnMaster(t) ==
  LET mc == MasterFor[req[t].mod]
  IN  /\ pc[t] = "conflicts" /\ req[t].todo = {}
      /\ \/ /\ mc # NoMod /\ enabled[mc] # req[t].pid
            /\ cooling' = FALSE
            /\ CallEngine(t, req[t], mc, TRUE)
         \/ /\ mc # NoMod => enabled[mc] = req[t].pid
            /\ Go(t, "lock")
            /\ UNCHANGED <<cooling, calls>>
      /\ UNCHANGED <<game, lock, applying, tables, pass>>

\* Mutant of TakeLock: without one_at_a_time the lock is not taken either.
TakeLockOnlyIfOneAtATime(t) ==
  /\ pc[t] = "lock"
  /\ \/ /\ lock = NoThread \/ ~OneAtATime
        /\ lock' = t
        /\ Go(t, "recheck")
        /\ UNCHANGED calls
     \/ /\ OneAtATime /\ lock # NoThread
        /\ Return(t, FALSE)
        /\ UNCHANGED lock
  /\ UNCHANGED <<game, applying, cooling, tables, pass>>

TakeLock(t) ==
  /\ pc[t] = "lock"
  /\ \/ /\ lock = NoThread
        /\ lock' = t
        /\ Go(t, "recheck")
        /\ UNCHANGED calls
     \/ /\ OneAtATime /\ lock # NoThread
        /\ Return(t, FALSE)
        /\ UNCHANGED lock
  /\ UNCHANGED <<game, applying, cooling, tables, pass>>

----------------------------------------------------------------------------
(* With the lock: validation.                                              *)

Unlock == lock' = NoThread

\* Mutant of Recheck: the early return forgets the unlock.
RecheckKeepsLock(t) ==
  /\ pc[t] = "recheck"
  /\ \/ /\ cooling \/ ~Alive(t)
        /\ Return(t, FALSE)
        /\ UNCHANGED <<lock, applying>>
     \/ /\ ~cooling /\ Alive(t)
        /\ applying' = TRUE
        /\ Go(t, "probe")
        /\ UNCHANGED <<lock, calls>>
  /\ UNCHANGED <<game, cooling, tables, pass>>

\* The cooldown again, now that no other apply can finish in between, and
\* cr_check_app_safe(): the process is still the one the call started with.
Recheck(t) ==
  /\ pc[t] = "recheck"
  /\ \/ /\ cooling \/ ~Alive(t)
        /\ Unlock
        /\ Return(t, FALSE)
        /\ UNCHANGED applying
     \/ /\ ~cooling /\ Alive(t)
        /\ applying' = TRUE
        /\ Go(t, "probe")
        /\ UNCHANGED <<lock, calls>>
  /\ UNCHANGED <<game, cooling, tables, pass>>

\* kill(pid, 0) and the module base.
Probe(t) ==
  /\ pc[t] = "probe" /\ Alive(t)
  /\ Go(t, "read")
  /\ UNCHANGED <<game, lock, applying, cooling, tables, calls, pass>>

\* Neither failure starts the cooldown.  A dead process has the monitor's
\* refresh run at once; a module that is not loaded does not.
ProbeFails(t) ==
  /\ pc[t] = "probe"
  /\ applying' = FALSE
  /\ Unlock
  /\ Return(t, FALSE)
  /\ IF ~Alive(t) THEN Refresh ELSE UNCHANGED tables
  /\ UNCHANGED <<game, cooling, pass>>

----------------------------------------------------------------------------
(* With the lock: pre-read, write pass, rollback.                          *)

\* Every entry is read and backed up before any is written.
PreRead(t) ==
  /\ pc[t] = "read" /\ Alive(t)
  /\ \A e \in EntriesOf[req[t].mod] : fault[AddrOf[e]] # "unmapped"
  /\ old' = [e \in Entries |-> mem[AddrOf[e]]]
  /\ done' = {}
  /\ Go(t, "write")
  /\ UNCHANGED <<game, lock, applying, cooling, tables, calls>>

\* Mutant of PreReadFails: return -1 in the loop instead of break.
PreReadReturns(t) ==
  /\ pc[t] = "read"
  /\ applying' = FALSE
  /\ Return(t, FALSE)
  /\ UNCHANGED <<game, lock, cooling, tables, pass>>

\* A malformed or unreadable entry, too many of them, or a process that died:
\* when kill() is what found out, the monitor's refresh runs at once.
PreReadFails(t) ==
  /\ pc[t] = "read"
  /\ Go(t, "fail")
  /\ \/ UNCHANGED tables
     \/ ~Alive(t) /\ Refresh
  /\ UNCHANGED <<game, lock, applying, cooling, calls, pass>>

\* Mutant of PassOf: caves first whichever way the cheat is switched.
PassCavesFirst(e, on) == IF e \in Caves THEN 0 ELSE 1

\* Caves before hooks on enable, hooks before caves on disable.
PassOf(e, on) == IF e \in Caves <=> on THEN 0 ELSE 1

\* The order of the two passes; within one, the order of the file.
Before(e, f, on) ==
  \/ PassOf(e, on) < PassOf(f, on)
  \/ PassOf(e, on) = PassOf(f, on) /\ e < f

NewBytes(t) == IF req[t].on THEN req[t].mod ELSE Original

IsNextWrite(t, e) ==
  /\ e \in EntriesOf[req[t].mod] \ done
  /\ \A f \in EntriesOf[req[t].mod] \ done : f = e \/ Before(e, f, req[t].on)

\* write_process_memory_forced() succeeds and the read-back shows the bytes.  That a
\* read-back which fails counts as one (cr_cheats.c:1555) is left out: what cannot be
\* read fails at the pre-read.
WriteVerified(t, e) ==
  /\ Alive(t)
  /\ \/ fault[AddrOf[e]] = "ok"
     \/ fault[AddrOf[e]] = "ignore" /\ mem[AddrOf[e]] = NewBytes(t)

WriteEntry(t) ==
  /\ pc[t] = "write"
  /\ \E e \in Entries :
       /\ IsNextWrite(t, e) /\ WriteVerified(t, e)
       /\ mem' = [mem EXCEPT ![AddrOf[e]] = NewBytes(t)]
       /\ done' = done \cup {e}
  /\ UNCHANGED <<gamePid, started, fault, lock, applying, cooling, tables, pc,
                 calls, old>>

\* The write is refused, or ignored, or stops after the first page: the entry
\* is not among the written ones, whatever it left behind.
WriteFails(t) ==
  /\ pc[t] = "write"
  /\ \E e \in Entries :
       /\ IsNextWrite(t, e) /\ ~WriteVerified(t, e)
       /\ mem' = IF /\ Alive(t) /\ fault[AddrOf[e]] = "torn"
                    /\ mem[AddrOf[e]] # NewBytes(t)
                 THEN [mem EXCEPT ![AddrOf[e]] = Torn] ELSE mem
  /\ Go(t, "rollback")
  /\ UNCHANGED <<gamePid, started, fault, lock, applying, cooling, tables,
                 calls, pass>>

\* Mutant of IsNextUndo: the rollback runs forwards.
IsNextUndoForwards(t, e) ==
  /\ e \in done
  /\ \A f \in done : f = e \/ Before(e, f, req[t].on)

IsNextUndo(t, e) ==
  /\ e \in done
  /\ \A f \in done : f = e \/ Before(f, e, req[t].on)

\* The written entries in reverse; one that cannot be restored is logged only.  How a
\* range answers does not change in a pass, so what was written can be put back.
Rollback(t) ==
  /\ pc[t] = "rollback"
  /\ \E e \in Entries :
       /\ IsNextUndo(t, e)
       /\ mem' = IF Alive(t) /\ fault[AddrOf[e]] = "ok"
                 THEN [mem EXCEPT ![AddrOf[e]] = old[e]] ELSE mem
       /\ done' = done \ {e}
  /\ UNCHANGED <<gamePid, started, fault, lock, applying, cooling, tables, pc,
                 calls, old>>

----------------------------------------------------------------------------
(* With the lock: the records, and letting go.                             *)

\* mod_disabled_clear() or mod_disabled_set(), which comes first ...
Commit(t) ==
  /\ pc[t] = "write" /\ EntriesOf[req[t].mod] \subseteq done
  /\ disabled' = [disabled EXCEPT ![req[t].mod] = IF req[t].on THEN 0 ELSE req[t].pid]
  /\ Go(t, "record")
  /\ UNCHANGED <<game, lock, applying, cooling, enabled, cached, calls, pass>>

\* Mutant of Record: the record carries the pid the monitor saw last.
RecordCachedPid(t) ==
  /\ pc[t] = "record"
  /\ enabled' = [enabled EXCEPT ![req[t].mod] = IF req[t].on THEN cached ELSE 0]
  /\ Go(t, "finish")
  /\ UNCHANGED <<game, lock, applying, cooling, disabled, cached, calls, pass>>

\* ... and mod_enabled_set() or mod_enabled_clear(), under another lock.  The tables
\* have room: a record that finds them full is dropped (cr_cheats.c:699, :739).
Record(t) ==
  /\ pc[t] = "record"
  /\ enabled' = [enabled EXCEPT ![req[t].mod] = IF req[t].on THEN req[t].pid ELSE 0]
  /\ Go(t, "finish")
  /\ UNCHANGED <<game, lock, applying, cooling, disabled, cached, calls, pass>>

\* Mutant of Release: the rollback loop stops before index 0.
ReleaseOneEarly(t) ==
  /\ \/ pc[t] \in {"finish", "fail"}
     \/ pc[t] = "rollback" /\ \A e, f \in done : e = f
  /\ applying' = FALSE
  /\ cooling' = Cooldown
  /\ Unlock
  /\ old' = [e \in Entries |-> Original]
  /\ done' = {}
  /\ Return(t, pc[t] = "finish")
  /\ UNCHANGED <<game, tables>>

\* Success or failure, the cooldown starts and the lock is free.
Release(t) ==
  /\ \/ pc[t] \in {"finish", "fail"}
     \/ pc[t] = "rollback" /\ done = {}
  /\ applying' = FALSE
  /\ cooling' = Cooldown
  /\ Unlock
  /\ old' = [e \in Entries |-> Original]
  /\ done' = {}
  /\ Return(t, pc[t] = "finish")
  /\ UNCHANGED <<game, tables>>

----------------------------------------------------------------------------
\* One step of the call a thread is in.
Step(t) ==
  \/ Enter(t) \/ Reject(t) \/ CheckCooldown(t)
  \/ SwitchOffConflict(t) \/ SwitchOnMaster(t) \/ TakeLock(t)
  \/ Recheck(t) \/ Probe(t) \/ ProbeFails(t)
  \/ PreRead(t) \/ PreReadFails(t)
  \/ WriteEntry(t) \/ WriteFails(t) \/ Rollback(t)
  \/ Commit(t) \/ Record(t) \/ Release(t)

Next ==
  \/ StartGame \/ EndGame \/ CooldownElapses \/ MonitorPolls
  \/ \E t \in Threads :
       \/ \E m \in Mods, on \in BOOLEAN : Request(t, m, on)
       \/ DisableAll(t) \/ DisableAllRound(t) \/ DisableAllDone(t)
       \/ Step(t)

Spec == Init /\ [][Next]_vars

\* A thread inside the engine keeps running; nothing else is owed.
FairSpec == Spec /\ \A t \in Threads : WF_vars(Step(t))

----------------------------------------------------------------------------
(* Properties.                                                             *)

AllOn(m) == \A e \in EntriesOf[m] : mem[AddrOf[e]] = m
AllOff(m) == \A e \in EntriesOf[m] : mem[AddrOf[e]] = Original

\* The lock has one holder, the thread that is between taking and releasing
\* it, and g_cheat_applying is up exactly while that thread may touch the game.
LockInv ==
  /\ \A t \in Threads : pc[t] \in Locked <=> lock = t
  /\ applying <=> \E t \in Threads : pc[t] \in Applying

\* At no moment, in the middle of a write pass or a rollback included, does
\* the game hold a hook of a cheat without every code cave it jumps into.
HookNeedsCave ==
  \A m \in Solo : \A h, c \in EntriesOf[m] :
     h \notin Caves /\ c \in Caves /\ mem[AddrOf[h]] = m => mem[AddrOf[c]] = m

\* Whenever nobody holds the lock each cheat is in memory as a whole or not at
\* all: an apply that failed half way left nothing behind.
AllOrNothing ==
  lock = NoThread => \A m \in Solo : AllOn(m) \/ AllOff(m)

\* Whenever nobody holds the lock, the cheats recorded as enabled in the live
\* process are the ones whose bytes are there, and no cheat is recorded both
\* enabled and disabled in it: what the safeguards look up is true.
RecordsMatchMemory ==
  lock = NoThread /\ gamePid # 0 =>
    /\ \A m \in Solo : enabled[m] = gamePid <=> AllOn(m)
    /\ \A m \in Mods : ~(enabled[m] = gamePid /\ disabled[m] = gamePid)

\* A request that has already switched a conflicting cheat off is not then
\* turned away by the cooldown, leaving both off (cr_cheats.c:1152).
NotBothOff ==
  \A t \in Threads :
     pc[t] = "recheck" /\ cooling => req[t].undone = {}

\* What the pass under way has done to the memory, and what stands behind the
\* three properties above: while a cheat that shares no byte is being switched,
\* its entries hold the new bytes where written and the old ones elsewhere, the
\* written ones are a prefix of the write order, every written one can be put
\* back, and the old bytes were the cheat's as a whole or the game's; every
\* other cheat is whole; nobody writes to a process that replaced its own.
Untouched == mem = [a \in Addrs |-> Original]
InPassOn(t, m) == pc[t] \in Writing /\ Alive(t) /\ req[t].mod = m
Prefix(t) ==
  \A e \in done, f \in EntriesOf[req[t].mod] : Before(f, e, req[t].on) => f \in done
WasOn(m) == \A e \in EntriesOf[m] : old[e] = m
WasOff(m) == \A e \in EntriesOf[m] : old[e] = Original

PassInv(t) ==
  LET own == EntriesOf[req[t].mod]
  IN  /\ WasOn(req[t].mod) \/ WasOff(req[t].mod)
      /\ \A e \in own : mem[AddrOf[e]] = IF e \in done THEN NewBytes(t) ELSE old[e]
      /\ Prefix(t)
      /\ \A e \in done : fault[AddrOf[e]] = "ok" \/ old[e] = NewBytes(t)

MemoryInv ==
  /\ gamePid = 0 => Untouched
  /\ \A t \in Threads :
       /\ pc[t] \in Writing => done \subseteq EntriesOf[req[t].mod]
       /\ pc[t] \in Writing \cup {"record"} => /\ req[t].pid <= started
                                               /\ (Alive(t) \/ Untouched)
  /\ \A m \in Solo :
       /\ \A t \in Threads : InPassOn(t, m) => PassInv(t)
       /\ (\A t \in Threads : ~InPassOn(t, m)) => AllOn(m) \/ AllOff(m)

\* The records, likewise: they say what was there before the pass under way.
Recording(t, m) == pc[t] = "record" /\ req[t].mod = m
RecordInv ==
  /\ \A m \in Mods : enabled[m] <= started /\ disabled[m] <= started
  /\ \A m \in Solo, t \in Threads :
       /\ InPassOn(t, m) => (enabled[m] = gamePid <=> WasOn(m))
       /\ Recording(t, m) /\ Alive(t) => IF req[t].on THEN AllOn(m) ELSE AllOff(m)
  /\ gamePid # 0 =>
       /\ \A m \in Solo :
            \/ \E t \in Threads : Alive(t) /\ (InPassOn(t, m) \/ Recording(t, m))
            \/ enabled[m] = gamePid <=> AllOn(m)
       /\ \A m \in Mods :
            \/ \E t \in Threads : Recording(t, m)
            \/ ~(enabled[m] = gamePid /\ disabled[m] = gamePid)
  /\ \A t \in Threads : pc[t] = "record" /\ req[t].on => disabled[req[t].mod] = 0

IInv == MemoryInv /\ RecordInv

\* A plain mutex promises nothing to a thread that waits while others take it.
PassedOver(t) == pc[t] = "lock" /\ ~OneAtATime /\ lock \notin {t, NoThread}

\* A request to the engine comes back, with its safeguards' calls, unless it waits
\* for the lock and others get it; and the apply lock, once taken, is released: the
\* shutdown, the patch engine and every other request count on it.
Answered ==
  /\ \A t \in Threads : (pc[t] # "idle") ~> (pc[t] = "idle" \/ PassedOver(t))
  /\ (lock # NoThread) ~> (lock = NoThread)

\* A solo cheat is on, as the user sees it, from the moment its last byte is
\* written; until then, and through a rollback, it is what it was before.
Whole(t) == EntriesOf[req[t].mod] \subseteq done
Toggling(t) == /\ pc[t] \in Writing \cup {"record", "finish"}
               /\ req[t].mod \in Solo /\ Alive(t)
InPass(m) ==
  \E t \in Threads : /\ Toggling(t) /\ req[t].mod = m
                     /\ pc[t] \in Writing /\ ~Whole(t)
ActiveCheats ==
  {m \in Solo : IF InPass(m) THEN \A e \in EntriesOf[m] : old[e] = m ELSE AllOn(m)}
ActiveToggle ==
  IF \E t \in Threads : Toggling(t)
  THEN LET t == CHOOSE u \in Threads : Toggling(u)
       IN  [cheat |-> req[t].mod, on |-> req[t].on,
            committed |-> pc[t] \notin Writing \/ Whole(t)]
  ELSE NoThread
Toggle == INSTANCE CheatToggle WITH
            Cheats <- Solo, Nothing <- NoThread, running <- (gamePid # 0),
            active <- ActiveCheats, pending <- ActiveToggle

\* The write pass, its verification and its rollback, whoever else calls the
\* engine and whenever the game ends, implement toggling a whole cheat at once
\* or not at all (README.md:45, post-write verification and rollback).
ImplementsToggle == Toggle!Spec
=============================================================================
