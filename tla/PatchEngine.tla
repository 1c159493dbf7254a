---------------------------- MODULE PatchEngine ----------------------------
(***************************************************************************)
(* The patch engine of cr_patch_parser.c with the handlers of              *)
(* cr_api_patches.c and the part of the game monitor that undoes patches:  *)
(* patch_apply_entry_ex() with its backups, read-back and rollback,        *)
(* patch_restore_entry(), patch_restore_all_for_pid(), the store of 16     *)
(* backups and the list of applied patches.  Each request runs in a thread *)
(* of its own; writes are made under the apply lock, and the two tables    *)
(* are updated after it was released.                                      *)
(*                                                                         *)
(* Memory is an array of cells; 0 stands for the game's own bytes and a    *)
(* line's id for what that line writes there.                              *)
(***************************************************************************)
EXTENDS PatchPlan

CONSTANTS
  Threads,      \* HTTP clients and the autoload thread
  Monitor,      \* the game monitor's thread
  NoThread,     \* the apply lock is free
  Patches,      \* the entries of the patch files, by entry_id
  File,         \* the lines of each, in file order
  PageOf,       \* the page of a cell
  Slots,        \* PATCH_BACKUP_STORE_MAX
  MaxPid,       \* bound: how many game processes are started
  Glitches,     \* bound: how often a running game is not reported as running
  Again,        \* bound: whether a patch that is applied is applied again
  Layouts       \* how the cells of a game may answer reads and writes

Memory == DOMAIN PageOf
Original == 0
Pids == 0..MaxPid

\* ok: written and read back.  unmapped: not even readable.  refuse: readable,
\* the write fails.  ignore: the write reports success and changes nothing.
FaultModes == {"ok", "unmapped", "refuse", "ignore"}

ASSUME PatchAssumption ==
  /\ Monitor \notin Threads /\ NoThread \notin Threads \cup {Monitor}
  /\ Slots \in Nat /\ MaxPid \in Nat /\ Glitches \in Nat
  /\ Again \in BOOLEAN
  /\ Patches # {}
  /\ Layouts \subseteq [Memory -> FaultModes]

----------------------------------------------------------------------------
(* What a patch writes.                                                    *)

Plan == [p \in Patches |-> BuildPlan(File[p])]

\* The writes of one line of the plan, in order.  A jump32 writes the cave,
\* the jump back behind it, and last the jump into the cave.
Writes(line) ==
  IF line.kind = "jump32" THEN Append(line.cave, line.bytes) ELSE <<line.bytes>>

WritesOf(p) ==
  UNION {{Writes(Plan[p][i])[j] : j \in DOMAIN Writes(Plan[p][i])} : i \in DOMAIN Plan[p]}
CellsOf == [p \in Patches |-> UNION {DOMAIN w : w \in WritesOf(p)}]

\* A plan is a list of lines, and each of them writes bytes to the game.
ASSUME PlanAssumption ==
  \A p \in Patches :
    /\ DOMAIN Plan[p] = 1..Len(Plan[p])
    /\ \A i \in DOMAIN Plan[p] :
         /\ Writes(Plan[p][i]) \in Seq(WritesOf(p)) /\ Writes(Plan[p][i]) # <<>>
         /\ Plan[p][i].kind = "jump32" => Plan[p][i].cave \in Seq(WritesOf(p))
    /\ \A w \in WritesOf(p) : w = [c \in DOMAIN w |-> w[c]] /\ DOMAIN w \subseteq Memory

VARIABLES
  gamePid,   \* the process of the running game, 0 when there is none
  started,   \* how many processes have been started
  mem,       \* the memory of that process
  fault,     \* how each cell answers, fixed by the game's layout
  lock,      \* the holder of g_cheat_apply_lock
  applying,  \* g_cheat_applying
  applied,   \* g_applied: the patches marked applied, with the pid
  store,     \* g_patch_backups: the backups, in the order of their slots
  pc,        \* where each thread is
  job,       \* the arguments and locals of its request
  mon,       \* where the monitor is, with its locals
  cached,    \* g_running.pid, what the monitor saw last
  glitches,  \* how often the game was not reported
  lost       \* history: the backups dropped while their process lived

game == <<gamePid, started, mem, fault>>
gate == <<lock, applying>>
tables == <<applied, store>>
monitor == <<mon, cached, glitches>>
vars == <<game, gate, tables, pc, job, monitor, lost>>

Values ==
  {Original} \cup UNION {{w[c] : c \in DOMAIN w} : w \in UNION {WritesOf(p) : p \in Patches}}

\* What is written to, or was saved from, some cells.
IsBytes(w) == /\ w = [c \in DOMAIN w |-> w[c]]
              /\ DOMAIN w \subseteq Memory
              /\ \A c \in DOMAIN w : w[c] \in Values
IsSaved(s) == /\ s = [i \in 1..Len(s) |-> s[i]]
              /\ \A i \in DOMAIN s : IsBytes(s[i])

Locked == {"probe", "write", "rollback", "putback", "unlock"}
Locations == {"idle", "copy", "lock", "store", "mark", "remove", "unmark"} \cup Locked
MonitorLocations == {"poll", "stopped", "try", "undo", "clear", "unmark"}

\* saved: backups[] of an apply, the copied record of a restore.  before:
\* history, the memory when the lock was taken.
NoJob ==
  [op |-> "none", patch |-> CHOOSE p \in Patches : TRUE, pid |-> 0, line |-> 1,
   part |-> 1, skipped |-> 0, saved |-> <<>>, failed |-> FALSE,
   before |-> [c \in Memory |-> Original]]

\* todo: the snapshot of entry ids.  lines: what is left of the record in hand.
\* undone: history, the patches whose bytes this undo has put back.
NoUndo == [pc |-> "poll", pid |-> 0, todo |-> <<>>, patch |-> CHOOSE p \in Patches : TRUE,
           lines |-> <<>>, undone |-> {}]

TypeOK ==
  /\ gamePid \in Pids /\ started \in Pids /\ gamePid <= started
  /\ mem \in [Memory -> Values] /\ fault \in Layouts
  /\ lock \in Threads \cup {Monitor, NoThread} /\ applying \in BOOLEAN
  /\ applied \subseteq Patches \X Pids
  /\ Len(store) <= Slots
  /\ \A i \in DOMAIN store : /\ store[i].patch \in Patches /\ store[i].pid \in Pids
                             /\ IsSaved(store[i].lines)
  /\ pc \in [Threads -> Locations]
  /\ DOMAIN job = Threads
  /\ \A t \in Threads :
       /\ job[t].op \in {"none", "apply", "restore"}
       /\ job[t].patch \in Patches /\ job[t].pid \in Pids
       /\ job[t].line \in Nat /\ job[t].part \in Nat /\ job[t].skipped \in Nat
       /\ job[t].failed \in BOOLEAN
       /\ IsSaved(job[t].saved) /\ job[t].before \in [Memory -> Values]
  /\ mon.pc \in MonitorLocations /\ mon.pid \in Pids
  /\ IsSaved(mon.lines) /\ mon.undone \subseteq Patches
  /\ cached \in Pids /\ glitches \in 0..Glitches /\ lost \subseteq Patches

Init ==
  /\ gamePid = 0 /\ started = 0
  /\ mem = [c \in Memory |-> Original] /\ fault \in Layouts
  /\ lock = NoThread /\ applying = FALSE
  /\ applied = {} /\ store = <<>>
  /\ pc = [t \in Threads |-> "idle"] /\ job = [t \in Threads |-> NoJob]
  /\ mon = NoUndo /\ cached = 0 /\ glitches = 0
  /\ lost = {}

----------------------------------------------------------------------------
(* The game.                                                               *)

StartGame ==
  /\ gamePid = 0 /\ started < MaxPid
  /\ started' = started + 1 /\ gamePid' = started + 1
  /\ UNCHANGED <<mem, fault, gate, tables, pc, job, monitor, lost>>

\* The user quits the game or it crashes: its memory is gone.
EndGame ==
  /\ gamePid # 0
  /\ gamePid' = 0
  /\ mem' = [c \in Memory |-> Original]
  /\ lost' = {}
  /\ UNCHANGED <<started, fault, gate, tables, pc, job, monitor>>

----------------------------------------------------------------------------
(* Reading and writing the memory of a process.                            *)

Runs(pid) == gamePid # 0 /\ gamePid = pid
Alive(t) == Runs(job[t].pid)

Readable(w) == \A c \in DOMAIN w : fault[c] # "unmapped"

\* write_process_memory_forced() goes page by page and stops at the first one
\* that refuses.
Refused(w) == {c \in DOMAIN w : fault[c] \in {"refuse", "unmapped"}}
Landed(w) == {c \in DOMAIN w : /\ fault[c] # "ignore"
                               /\ \A d \in Refused(w) : PageOf[c] < PageOf[d]}
After(w) == [c \in Memory |-> IF c \in Landed(w) THEN w[c] ELSE mem[c]]

\* Mutant of Backup: read once the write is done.
BackupOfAfter(w) == [c \in DOMAIN w |-> After(w)[c]]

Backup(w) == [c \in DOMAIN w |-> mem[c]]

\* The write reports success and the read-back finds what was written.
Sticks(w) == Refused(w) = {} /\ \A c \in DOMAIN w : After(w)[c] = w[c]

\* scan_for_pattern() searches upwards and ends at the first unreadable chunk.
Found(pattern) ==
  \A c \in pattern : /\ mem[c] = Original
                     /\ \A d \in Memory : d <= c => fault[d] # "unmapped"

----------------------------------------------------------------------------
(* The two tables.                                                         *)

IsFor(rec, p, pid) == rec.patch = p /\ rec.pid = pid
SlotOf(p, pid) == {i \in DOMAIN store : IsFor(store[i], p, pid)}

\* g[i] = g[--n]: the last record takes the place of the removed one.
RemoveSlot(s, i) == Front([s EXCEPT ![i] = Last(s)])

RemoveBackup(p, pid) ==
  IF SlotOf(p, pid) = {} THEN store
  ELSE RemoveSlot(store, CHOOSE i \in SlotOf(p, pid) : \A j \in SlotOf(p, pid) : i <= j)

\* patch_clear_backups_for_pid() looks at the slots from the last to the first.
ClearBackups(pid) ==
  LET after[n \in 0..Len(store)] ==
        IF n = 0 THEN store
        ELSE IF store[Len(store) + 1 - n].pid = pid
             THEN RemoveSlot(after[n - 1], Len(store) + 1 - n)
             ELSE after[n - 1]
  IN  after[Len(store)]

\* The patches that lose their backup while their bytes are in the game.
Forgotten(pid) ==
  IF Runs(pid)
  THEN {store[i].patch : i \in {j \in DOMAIN store : store[j].pid = pid}} \ mon.undone
  ELSE {}

----------------------------------------------------------------------------
(* Requests.                                                               *)

Go(t, loc) == pc' = [pc EXCEPT ![t] = loc]

Finish(t) == Go(t, "idle") /\ job' = [job EXCEPT ![t] = NoJob]

\* The bound Again = FALSE: nobody asks for a patch that another request is at
\* work on, and none is applied that may be in place already.
Busy(p) == \E t \in Threads : pc[t] # "idle" /\ job[t].patch = p
Allowed(p) == Again \/ ~Busy(p)
Fresh(p) ==
  Again \/ (SlotOf(p, gamePid) = {} /\ <<p, gamePid>> \notin applied /\ p \notin lost)

\* handle_patches_apply(), or patch_apply_by_entry_id() for the autoload, found
\* the entry, its version fits, and the game runs.  The engine does not ask
\* whether the patch is applied.  Requests turned away here change nothing.
RequestApply(t, p) ==
  /\ pc[t] = "idle" /\ gamePid # 0
  /\ Allowed(p) /\ Fresh(p)
  /\ Go(t, "lock")
  /\ job' = [job EXCEPT ![t] = [NoJob EXCEPT !.op = "apply", !.patch = p, !.pid = gamePid]]
  /\ UNCHANGED <<game, gate, tables, monitor, lost>>

\* handle_patches_restore(): only for a patch that is marked applied.
RequestRestore(t, p) ==
  /\ pc[t] = "idle" /\ gamePid # 0
  /\ Allowed(p)
  /\ <<p, gamePid>> \in applied
  /\ Go(t, "copy")
  /\ job' = [job EXCEPT ![t] = [NoJob EXCEPT !.op = "restore", !.patch = p, !.pid = gamePid]]
  /\ UNCHANGED <<game, gate, tables, monitor, lost>>

\* patch_index_invalidate(): a rescan, a forced refresh of the games, or a
\* patch file switched or deleted.  The backups stay.
Rescan ==
  /\ applied' = {}
  /\ UNCHANGED <<game, gate, store, pc, job, monitor, lost>>

\* patch_restore_entry() copies the record, or answers no_backup.
CopyBackup(t) ==
  /\ pc[t] = "copy"
  /\ LET slots == SlotOf(job[t].patch, job[t].pid) IN
       \/ /\ slots = {}
          /\ Finish(t)
       \/ /\ slots # {}
          /\ job' = [job EXCEPT ![t].saved =
                       store[CHOOSE i \in slots : \A j \in slots : i <= j].lines]
          /\ Go(t, "lock")
  /\ UNCHANGED <<game, gate, tables, monitor, lost>>

----------------------------------------------------------------------------
(* Under the apply lock.                                                   *)

AcquireLock(t) ==
  /\ pc[t] = "lock" /\ lock = NoThread
  /\ lock' = t /\ applying' = TRUE
  /\ Go(t, "probe")
  /\ UNCHANGED <<game, tables, job, monitor, lost>>

\* Mutant of Probe: the game that exited is answered without unlocking.
ProbeKeepsLock(t) ==
  /\ pc[t] = "probe"
  /\ \/ /\ ~Alive(t)
        /\ Finish(t)
     \/ /\ Alive(t)
        /\ job' = [job EXCEPT ![t].before = mem]
        /\ Go(t, IF job[t].op = "apply" THEN "write" ELSE "putback")
  /\ UNCHANGED <<game, gate, tables, monitor, lost>>

\* kill(pid, 0); an apply may also find its module not loaded, or no memory.
Probe(t) ==
  /\ pc[t] = "probe"
  /\ \/ /\ ~Alive(t) \/ job[t].op = "apply"
        /\ job' = [job EXCEPT ![t].failed = TRUE, ![t].before = mem]
        /\ Go(t, "unlock")
     \/ /\ Alive(t)
        /\ job' = [job EXCEPT ![t].before = mem]
        /\ Go(t, IF job[t].op = "apply" THEN "write" ELSE "putback")
  /\ UNCHANGED <<game, gate, tables, monitor, lost>>

LineOf(t) == Plan[job[t].patch][job[t].line]
InPlan(t) == job[t].line \in DOMAIN Plan[job[t].patch]
WriteOf(t) == Writes(LineOf(t))[job[t].part]
\* The patterns are searched once, before the first write of the line.
CanWrite(t) ==
  IsPlain(LineOf(t)) \/ job[t].part > 1 \/ (Alive(t) /\ Found(LineOf(t).pattern))

\* A pattern line that finds no match is skipped.
SkipLine(t) ==
  /\ pc[t] = "write" /\ InPlan(t) /\ ~CanWrite(t)
  /\ job' = [job EXCEPT ![t].line = @ + 1, ![t].skipped = @ + 1]
  /\ UNCHANGED <<game, gate, tables, pc, monitor, lost>>

\* backup_read_failed.
ReadFails(t) ==
  /\ pc[t] = "write" /\ InPlan(t) /\ CanWrite(t)
  /\ ~(Alive(t) /\ Readable(WriteOf(t)))
  /\ job' = [job EXCEPT ![t].failed = TRUE]
  /\ Go(t, "rollback")
  /\ UNCHANGED <<game, gate, tables, monitor, lost>>

\* The line and the part of it that come after the one written.
Advance(j) ==
  IF j.part < Len(Writes(Plan[j.patch][j.line]))
  THEN [j EXCEPT !.part = @ + 1]
  ELSE [j EXCEPT !.line = @ + 1, !.part = 1]

\* Mutant of WriteBlock: the backup counts only once the write was verified.
WriteBeforeBackup(t) ==
  /\ pc[t] = "write" /\ InPlan(t) /\ CanWrite(t)
  /\ Alive(t) /\ Readable(WriteOf(t))
  /\ LET w == WriteOf(t)
     IN  /\ mem' = After(w)
         /\ \/ /\ Sticks(w)
               /\ job' = [job EXCEPT ![t] =
                            Advance([job[t] EXCEPT !.saved = Append(@, Backup(w))])]
               /\ UNCHANGED pc
            \/ /\ ~Sticks(w)
               /\ job' = [job EXCEPT ![t].failed = TRUE]
               /\ Go(t, "rollback")
  /\ UNCHANGED <<gamePid, started, fault, gate, tables, monitor, lost>>

\* The original bytes are saved, the block written and read back.  What could
\* come between these three is the end of the game, after which no difference
\* is left.  The read-back itself succeeds: one that fails counts as a success
\* (cr_patch_parser.c:1528); and a plan has no more writes than there are backups.
WriteBlock(t) ==
  /\ pc[t] = "write" /\ InPlan(t) /\ CanWrite(t)
  /\ Alive(t) /\ Readable(WriteOf(t))
  /\ LET w == WriteOf(t)
         saving == [job[t] EXCEPT !.saved = Append(@, Backup(w))]
     IN  /\ mem' = After(w)
         /\ \/ /\ Sticks(w)
               /\ job' = [job EXCEPT ![t] = Advance(saving)]
               /\ UNCHANGED pc
            \/ /\ ~Sticks(w)
               /\ job' = [job EXCEPT ![t] = [saving EXCEPT !.failed = TRUE]]
               /\ Go(t, "rollback")
  /\ UNCHANGED <<gamePid, started, fault, gate, tables, monitor, lost>>

\* mask_not_found when every line was skipped.
WritesDone(t) ==
  /\ pc[t] = "write" /\ ~InPlan(t)
  /\ \/ /\ job[t].skipped = Len(Plan[job[t].patch])
        /\ job' = [job EXCEPT ![t].failed = TRUE]
        /\ Go(t, "rollback")
     \/ /\ job[t].skipped < Len(Plan[job[t].patch])
        /\ Go(t, "unlock")
        /\ UNCHANGED job
  /\ UNCHANGED <<game, gate, tables, monitor, lost>>

PutBack(pid, w) == mem' = IF Runs(pid) THEN After(w) ELSE mem

\* Mutant of Rollback: from the first backup on.
RollbackForward(t) ==
  /\ pc[t] = "rollback"
  /\ \/ /\ job[t].saved # <<>>
        /\ PutBack(job[t].pid, Head(job[t].saved))
        /\ job' = [job EXCEPT ![t].saved = Tail(@)]
        /\ UNCHANGED pc
     \/ /\ job[t].saved = <<>>
        /\ Go(t, "unlock")
        /\ UNCHANGED <<mem, job>>
  /\ UNCHANGED <<gamePid, started, fault, gate, tables, monitor, lost>>

\* do_rollback(): from the last backup to the first.
Rollback(t) ==
  /\ pc[t] = "rollback"
  /\ \/ /\ job[t].saved # <<>>
        /\ PutBack(job[t].pid, Last(job[t].saved))
        /\ job' = [job EXCEPT ![t].saved = Front(@)]
        /\ UNCHANGED pc
     \/ /\ job[t].saved = <<>>
        /\ Go(t, "unlock")
        /\ UNCHANGED <<mem, job>>
  /\ UNCHANGED <<gamePid, started, fault, gate, tables, monitor, lost>>

\* patch_restore_entry() writes the record in the order it was made.
RestoreBlock(t) ==
  /\ pc[t] = "putback"
  /\ \/ /\ job[t].saved # <<>>
        /\ PutBack(job[t].pid, Head(job[t].saved))
        /\ job' = [job EXCEPT ![t].saved = Tail(@)]
        /\ UNCHANGED pc
     \/ /\ job[t].saved = <<>>
        /\ Go(t, "unlock")
        /\ UNCHANGED <<mem, job>>
  /\ UNCHANGED <<gamePid, started, fault, gate, tables, monitor, lost>>

Unlock(t) ==
  /\ pc[t] = "unlock"
  /\ lock' = NoThread /\ applying' = FALSE
  /\ \/ /\ job[t].failed
        /\ Finish(t)
     \/ /\ ~job[t].failed
        /\ Go(t, IF job[t].op = "apply" THEN "store" ELSE "remove")
        /\ UNCHANGED job
  /\ UNCHANGED <<game, tables, monitor, lost>>

----------------------------------------------------------------------------
(* After the unlock: the tables.                                           *)

\* Mutant of Stored: no bound on the slots.
StoredBeyond(rec, slots) ==
  IF slots # {} THEN [store EXCEPT ![CHOOSE i \in slots : \A j \in slots : i <= j] = rec]
  ELSE Append(store, rec)

\* Mutant of Stored: the last slot is never used.
StoredOneFewer(rec, slots) ==
  IF slots # {} THEN [store EXCEPT ![CHOOSE i \in slots : \A j \in slots : i <= j] = rec]
  ELSE IF Len(store) + 1 < Slots THEN Append(store, rec)
  ELSE store

\* What StoreBackup does with the backup, given the slots of this patch: its
\* record is replaced, or a new one added, or with all slots taken it is dropped.
Stored(rec, slots) ==
  IF slots # {} THEN [store EXCEPT ![CHOOSE i \in slots : \A j \in slots : i <= j] = rec]
  ELSE IF Len(store) < Slots THEN Append(store, rec)
  ELSE store

\* patch_store_backup().
StoreBackup(t) ==
  /\ pc[t] = "store"
  /\ LET rec == [patch |-> job[t].patch, pid |-> job[t].pid, lines |-> job[t].saved]
         slots == SlotOf(rec.patch, rec.pid)
     IN  /\ store' = Stored(rec, slots)
         /\ lost' = IF Alive(t) /\ slots = {} /\ Len(store) = Slots
                    THEN lost \cup {rec.patch} ELSE lost
  /\ Go(t, "mark")
  /\ UNCHANGED <<game, gate, applied, job, monitor>>

\* patch_mark_applied(), with the pid the engine used.
MarkApplied(t) ==
  /\ pc[t] = "mark"
  /\ applied' = applied \cup {<<job[t].patch, job[t].pid>>}
  /\ Finish(t)
  /\ UNCHANGED <<game, gate, store, monitor, lost>>

\* patch_restore_entry() drops the record whether or not every write succeeded.
DropBackup(t) ==
  /\ pc[t] = "remove"
  /\ store' = RemoveBackup(job[t].patch, job[t].pid)
  /\ Go(t, "unmark")
  /\ UNCHANGED <<game, gate, applied, job, monitor, lost>>

\* patch_mark_unapplied().
MarkUnapplied(t) ==
  /\ pc[t] = "unmark"
  /\ applied' = applied \ {<<job[t].patch, job[t].pid>>}
  /\ Finish(t)
  /\ UNCHANGED <<game, gate, store, monitor, lost>>

----------------------------------------------------------------------------
(* The monitor.                                                            *)

\* rpc_refresh_title_and_notify() with one title: a game no longer reported has
\* stopped, a new process of the title is no change.
Poll ==
  /\ mon.pc = "poll"
  /\ \/ /\ cached' = gamePid
        /\ UNCHANGED glitches
     \/ /\ gamePid # 0 /\ glitches < Glitches
        /\ cached' = 0
        /\ glitches' = glitches + 1
  /\ mon' = IF cached # 0 /\ cached' = 0
            THEN [NoUndo EXCEPT !.pc = "stopped", !.pid = cached] ELSE mon
  /\ UNCHANGED <<game, gate, tables, pc, job, lost>>

\* No restore while an apply is under way.
MonitorLooks ==
  /\ mon.pc = "stopped"
  /\ mon' = [mon EXCEPT !.pc = IF applying THEN "clear" ELSE "try"]
  /\ UNCHANGED <<game, gate, tables, pc, job, cached, glitches, lost>>

BackupsOf(pid) == SelectSeq(store, LAMBDA r : r.pid = pid)
IdsOf(pid) == [i \in DOMAIN BackupsOf(pid) |-> BackupsOf(pid)[i].patch]

\* patch_restore_all_for_pid(): no backups, a dead process, or the lock taken
\* meanwhile; in each case the caller clears the backups next.
MonitorGivesUp ==
  /\ mon.pc = "try"
  /\ IdsOf(mon.pid) = <<>> \/ ~Runs(mon.pid) \/ lock # NoThread
  /\ mon' = [mon EXCEPT !.pc = "clear"]
  /\ UNCHANGED <<game, gate, tables, pc, job, cached, glitches, lost>>

\* Mutant of MonitorLocks: the undo does not take the lock.
UndoUnlocked ==
  /\ mon.pc = "try"
  /\ IdsOf(mon.pid) # <<>> /\ Runs(mon.pid)
  /\ mon' = [mon EXCEPT !.pc = "undo", !.todo = IdsOf(mon.pid)]
  /\ UNCHANGED <<game, gate, tables, pc, job, cached, glitches, lost>>

\* pthread_mutex_trylock() succeeds; g_cheat_applying stays as it is.
MonitorLocks ==
  /\ mon.pc = "try"
  /\ IdsOf(mon.pid) # <<>> /\ Runs(mon.pid) /\ lock = NoThread
  /\ lock' = Monitor
  /\ mon' = [mon EXCEPT !.pc = "undo", !.todo = IdsOf(mon.pid)]
  /\ UNCHANGED <<game, applying, tables, pc, job, cached, glitches, lost>>

\* The record of the next id, unless a restore has removed it meanwhile.
MonitorTakes ==
  /\ mon.pc = "undo" /\ mon.lines = <<>> /\ mon.todo # <<>>
  /\ LET p == Head(mon.todo)
         slots == SlotOf(p, mon.pid)
     IN  mon' = [mon EXCEPT !.todo = Tail(@), !.patch = p,
                   !.lines = IF slots = {} THEN <<>>
                             ELSE store[CHOOSE i \in slots : \A j \in slots : i <= j].lines]
  /\ UNCHANGED <<game, gate, tables, pc, job, cached, glitches, lost>>

MonitorRestores ==
  /\ mon.pc = "undo" /\ mon.lines # <<>>
  /\ PutBack(mon.pid, Head(mon.lines))
  /\ mon' = [mon EXCEPT !.lines = Tail(@), !.undone = @ \cup {mon.patch}]
  /\ UNCHANGED <<gamePid, started, fault, gate, tables, pc, job, cached, glitches, lost>>

Clear == /\ store' = ClearBackups(mon.pid)
         /\ lost' = lost \cup Forgotten(mon.pid)

MonitorUnlocks ==
  /\ mon.pc = "undo" /\ mon.lines = <<>> /\ mon.todo = <<>>
  /\ Clear
  /\ lock' = NoThread
  /\ mon' = [mon EXCEPT !.pc = "clear", !.undone = {}]
  /\ UNCHANGED <<game, applying, applied, pc, job, cached, glitches>>

\* patch_clear_backups_for_pid(), in every case, ...
MonitorClears ==
  /\ mon.pc = "clear"
  /\ Clear
  /\ mon' = [mon EXCEPT !.pc = "unmark"]
  /\ UNCHANGED <<game, gate, applied, pc, job, cached, glitches>>

\* ... then patch_clear_for_pid().
MonitorUnmarks ==
  /\ mon.pc = "unmark"
  /\ applied' = {m \in applied : m[2] # mon.pid}
  /\ mon' = NoUndo
  /\ UNCHANGED <<game, gate, store, pc, job, cached, glitches, lost>>

----------------------------------------------------------------------------
Work(t) ==
  \/ CopyBackup(t) \/ AcquireLock(t) \/ Probe(t)
  \/ SkipLine(t) \/ ReadFails(t) \/ WriteBlock(t) \/ WritesDone(t)
  \/ Rollback(t) \/ RestoreBlock(t) \/ Unlock(t)
  \/ StoreBackup(t) \/ MarkApplied(t) \/ DropBackup(t) \/ MarkUnapplied(t)

Undo ==
  \/ MonitorLooks \/ MonitorGivesUp \/ MonitorLocks \/ MonitorTakes
  \/ MonitorRestores \/ MonitorUnlocks \/ MonitorClears \/ MonitorUnmarks

Next ==
  \/ StartGame \/ EndGame \/ Rescan \/ Poll \/ Undo
  \/ \E t \in Threads :
       \/ Work(t)
       \/ \E p \in Patches : RequestApply(t, p) \/ RequestRestore(t, p)

\* Threads keep running.  A mutex that is free promises no waiter its turn.
Fairness ==
  /\ \A t \in Threads : WF_vars(Work(t))
  /\ WF_vars(Poll) /\ WF_vars(Undo)

Spec == Init /\ [][Next]_vars /\ Fairness

----------------------------------------------------------------------------
(* Properties.                                                             *)

InPass == {t \in Threads : pc[t] \in Locked}

\* Writes to the game, whoever makes them, come one pass at a time: a request
\* between lock and unlock, or the monitor's undo, and never both.
OneWriter ==
  /\ \A t \in Threads : pc[t] \in Locked <=> lock = t
  /\ mon.pc = "undo" <=> lock = Monitor
  /\ applying <=> InPass # {}

\* An apply that fails, at whatever write, leaves the game as it found it, also
\* where lines of the patch overlap (do_rollback(), last backup first).
RolledBack ==
  \A t \in Threads :
    pc[t] = "unlock" /\ job[t].op = "apply" /\ job[t].failed /\ Alive(t)
      => mem = job[t].before

Present(w) == \A c \in DOMAIN w : mem[c] = w[c]
TargetBlocks(p, i) ==
  {Plan[p][j].bytes : j \in {k \in DOMAIN Plan[p] : /\ IsPlain(Plan[p][k])
                                                   /\ Plan[p][i].target \in Cells(Plan[p][k])}}
BehindJump(p, i) ==
  IF IsPlain(Plan[p][i]) THEN TargetBlocks(p, i)
  ELSE IF Plan[p][i].kind = "jump32" THEN {Plan[p][i].cave[j] : j \in DOMAIN Plan[p][i].cave}
  ELSE {}
BeingRestored(p) ==
  \/ \E t \in Threads : pc[t] \in {"putback", "unlock"} /\ job[t].op = "restore" /\ job[t].patch = p
  \/ mon.pc = "undo" /\ mon.patch = p

\* Whenever the running game can reach a jump of a patch, what it jumps to is
\* there: in the middle of an apply, of its rollback, and afterwards
\* (cr_patch_parser.c:1215, "a block that jumps into another one in the same
\* run goes after its target").  A restore, which goes forward, is left out.
NoJumpIntoNothing ==
  \A p \in Patches : \A i \in DOMAIN Plan[p] :
    Present(Plan[p][i].bytes) /\ ~BeingRestored(p)
      => \A w \in BehindJump(p, i) : Present(w)

\* Cells that one write of one patch only reaches.
WriteIds ==
  UNION {UNION {{<<p, i, j>> : j \in DOMAIN Writes(Plan[p][i])}
                : i \in DOMAIN Plan[p]} : p \in Patches}
WritersOf(c) == {w \in WriteIds : c \in DOMAIN Writes(Plan[w[1]][w[2]])[w[3]]}
Sole == {c \in Memory : \A v, w \in WritersOf(c) : v = w}

\* No other write reaches a jump, or what it leads to, and a jump changes the
\* game's bytes.
OwnJumps ==
  \A p \in Patches : \A i \in DOMAIN Plan[p] : BehindJump(p, i) # {} =>
    /\ DOMAIN Plan[p][i].bytes \subseteq Sole
    /\ \E c \in DOMAIN Plan[p][i].bytes : Plan[p][i].bytes[c] # Original
    /\ \A w \in BehindJump(p, i) : DOMAIN w \subseteq Sole

\* A block comes before the block that jumps to it.
TargetsFirst(plan) ==
  \A i, k \in DOMAIN plan :
    IsPlain(plan[i]) /\ IsPlain(plan[k]) /\ plan[i].target \in Cells(plan[k]) => k <= i

\* The plans NoJumpIntoNothing is proved for.
Tidy == OwnJumps /\ \A p \in Patches : TargetsFirst(Plan[p])

SavedIn(saved, c) == \E i \in DOMAIN saved : c \in DOMAIN saved[i]

\* What a patch changed in the living game can be put back: the bytes are with
\* the request at work on the patch or in the store, until they were put back.
Recoverable ==
  \A p \in Patches \ lost, c \in Sole \cap UNION {CellsOf[q] : q \in Patches} :
    c \in CellsOf[p] /\ mem[c] # Original
      => \/ \E i \in SlotOf(p, gamePid) : SavedIn(store[i].lines, c)
         \/ \E t \in Threads : Alive(t) /\ job[t].patch = p /\ SavedIn(job[t].saved, c)

\* A patch the user sees as applied can be restored: its backup is in the store
\* of the same process, whatever the monitor does for an earlier process and
\* other requests for other patches.  It takes a monitor that never saw the
\* living game as stopped: its undo can come between a backup and its mark.
MarkedRestorable ==
  \A p \in Patches \ lost :
    glitches = 0 /\ gamePid # 0 /\ <<p, gamePid>> \in applied /\ ~Busy(p)
      => SlotOf(p, gamePid) # {}

\* A restore that went through has put the original bytes back
\* (src/web/app.js:1440, "Restore puts the original bytes back.").
RestoredToOriginal ==
  \A t \in Threads :
    pc[t] = "unlock" /\ job[t].op = "restore" /\ ~job[t].failed /\ Alive(t)
      => \A c \in CellsOf[job[t].patch] \cap Sole : mem[c] = Original

\* The lock is always released, by the request or by the monitor; a request
\* that got it is answered; and the monitor, which only tries it, polls again
\* (cr_patch_parser.c:301), whenever the game ends and whatever a write answers.
Answered ==
  /\ (lock # NoThread) ~> (lock = NoThread)
  /\ \A t \in Threads : (pc[t] \notin {"idle", "copy", "lock"}) ~> (pc[t] = "idle")
  /\ (mon.pc # "poll") ~> (mon.pc = "poll")
=============================================================================
