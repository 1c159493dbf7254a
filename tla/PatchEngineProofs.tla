------------------------ MODULE PatchEngineProofs ------------------------
(***************************************************************************)
(* Theorems about the patch engine, for any number of threads, any patches *)
(* and plans, any layout and any number of slots.                          *)
(*                                                                         *)
(* The apply lock excludes every two passes over the game's memory, and    *)
(* the state keeps its types (LockIInv, PatchIInv).  The backups of a      *)
(* failed apply, undone from the last to the first, give the memory it     *)
(* found (RollIInv).  Where no patch is applied again, a patch that is     *)
(* marked has its record (MarkIInv), and in the cells that no other write  *)
(* reaches the record, or the request at work, has all that was changed    *)
(* (CoverIInv): it can be put back, and is.  What a jump leads to is there *)
(* before the jump (JumpIInv).                                             *)
(***************************************************************************)
EXTENDS PatchEngine, SequenceTheorems, WellFoundedInduction, TLAPS

Fields(m) ==
  m = [pc |-> m.pc, pid |-> m.pid, todo |-> m.todo, patch |-> m.patch,
       lines |-> m.lines, undone |-> m.undone]

\* The control state: what OneWriter needs of the types.
Control ==
  /\ pc \in [Threads -> Locations]
  /\ Fields(mon) /\ mon.pc \in MonitorLocations
  /\ applying \in BOOLEAN

\* OneWriter with the flag tied to the lock instead of to the threads.
Holders ==
  /\ \A t \in Threads : pc[t] \in Locked <=> lock = t
  /\ mon.pc = "undo" <=> lock = Monitor
  /\ applying <=> lock \in Threads

LockIInv == Control /\ Holders

LEMMA HoldersMeanOneWriter ==
  LockIInv => OneWriter
BY DEF LockIInv, Control, Holders, OneWriter, InPass

LEMMA LocationFacts ==
  /\ Locked \subseteq Locations
  /\ {"idle", "copy", "lock", "store", "mark", "remove", "unmark"} \subseteq Locations
  /\ {"idle", "copy", "lock", "store", "mark", "remove", "unmark"} \cap Locked = {}
BY DEF Locked, Locations

LEMMA LockInit == Init => LockIInv
<1> SUFFICES ASSUME Init PROVE LockIInv
  OBVIOUS
<1>1. Control
  BY DEF Init, Control, NoUndo, Fields, MonitorLocations, Locations
<1>2. Holders
  BY PatchAssumption DEF Init, Holders, NoUndo, Locked
<1> QED
  BY <1>1, <1>2 DEF LockIInv

\* A thread that goes from one location to another on the same side of the lock.
LEMMA ThreadMoves ==
  ASSUME LockIInv, NEW t \in Threads, NEW loc \in Locations,
         loc \in Locked <=> pc[t] \in Locked,
         Go(t, loc), UNCHANGED <<lock, applying, mon>>
  PROVE  LockIInv'
<1>1. Control'
  BY DEF LockIInv, Control, Go, Fields
<1>2. \A u \in Threads : pc'[u] \in Locked <=> pc[u] \in Locked
  BY DEF LockIInv, Control, Go
<1>3. Holders'
  BY <1>2 DEF LockIInv, Holders
<1> QED
  BY <1>1, <1>3 DEF LockIInv

\* A step of the monitor that neither takes nor releases the lock.
LEMMA MonitorMoves ==
  ASSUME LockIInv, Fields(mon'), mon'.pc \in MonitorLocations,
         mon'.pc = "undo" <=> mon.pc = "undo",
         UNCHANGED <<lock, applying, pc>>
  PROVE  LockIInv'
BY DEF LockIInv, Control, Holders, Fields

LEMMA WorkKeepsLock ==
  ASSUME LockIInv, NEW t \in Threads, Work(t)
  PROVE  LockIInv'
<1> USE LocationFacts
<1>1. CASE CopyBackup(t)
  <2>1. \E loc \in {"idle", "lock"} : Go(t, loc)
    BY <1>1 DEF CopyBackup, Finish
  <2>2. pc[t] \notin Locked /\ UNCHANGED <<lock, applying, mon>>
    BY <1>1 DEF CopyBackup, Locked, gate, monitor
  <2> QED
    BY <2>1, <2>2, ThreadMoves
<1>2. CASE AcquireLock(t)
  <2>1. /\ pc[t] = "lock" /\ lock = NoThread /\ lock' = t /\ applying' = TRUE
        /\ pc' = [pc EXCEPT ![t] = "probe"] /\ mon' = mon
    BY <1>2 DEF AcquireLock, Go, monitor
  <2>2. Control'
    BY <2>1 DEF LockIInv, Control, Fields, Locations, Locked
  <2>3. pc'[t] \in Locked /\ \A u \in Threads \ {t} : pc'[u] \notin Locked
    BY <2>1, PatchAssumption DEF LockIInv, Control, Holders, Locked
  <2>4. mon'.pc # "undo" /\ lock' # Monitor
    BY <2>1, PatchAssumption DEF LockIInv, Holders
  <2> QED
    BY <2>1, <2>2, <2>3, <2>4 DEF LockIInv, Holders
<1>3. CASE Probe(t)
  <2>1. \E loc \in Locked : Go(t, loc)
    BY <1>3 DEF Probe, Locked
  <2>2. pc[t] \in Locked /\ UNCHANGED <<lock, applying, mon>>
    BY <1>3 DEF Probe, Locked, gate, monitor
  <2> QED
    BY <2>1, <2>2, ThreadMoves
<1>4. CASE SkipLine(t)
  BY <1>4 DEF SkipLine, gate, monitor, LockIInv, Control, Holders, Fields
<1>5. CASE ReadFails(t) \/ WriteBlock(t) \/ WritesDone(t) \/ Rollback(t) \/ RestoreBlock(t)
  <2>1. pc[t] \in Locked /\ UNCHANGED <<lock, applying, mon>>
    BY <1>5 DEF ReadFails, WriteBlock, WritesDone, Rollback, RestoreBlock, Locked, gate, monitor
  <2>2. pc' = pc \/ \E loc \in Locked : Go(t, loc)
    BY <1>5 DEF ReadFails, WriteBlock, WritesDone, Rollback, RestoreBlock, Locked
  <2>3. CASE pc' = pc
    BY <2>1, <2>3 DEF LockIInv, Control, Holders, Fields
  <2> QED
    BY <2>1, <2>2, <2>3, ThreadMoves
<1>6. CASE Unlock(t)
  <2>1. /\ pc[t] = "unlock" /\ lock' = NoThread /\ applying' = FALSE /\ mon' = mon
        /\ \E loc \in Locations \ Locked : pc' = [pc EXCEPT ![t] = loc]
    BY <1>6 DEF Unlock, Finish, Go, monitor
  <2>2. lock = t
    BY <2>1 DEF LockIInv, Holders, Locked
  <2>3. Control'
    BY <2>1 DEF LockIInv, Control, Fields
  <2>4. \A u \in Threads : pc'[u] \notin Locked
    BY <2>1, <2>2 DEF LockIInv, Control, Holders
  <2>5. mon'.pc # "undo"
    BY <2>1, <2>2, PatchAssumption DEF LockIInv, Holders
  <2> QED
    BY <2>1, <2>3, <2>4, <2>5, PatchAssumption DEF LockIInv, Holders
<1>7. CASE StoreBackup(t) \/ MarkApplied(t) \/ DropBackup(t) \/ MarkUnapplied(t)
  <2>1. pc[t] \notin Locked /\ UNCHANGED <<lock, applying, mon>>
    BY <1>7 DEF StoreBackup, MarkApplied, DropBackup, MarkUnapplied, Locked, gate, monitor
  <2>2. \E loc \in {"idle", "mark", "unmark"} : Go(t, loc)
    BY <1>7 DEF StoreBackup, MarkApplied, DropBackup, MarkUnapplied, Finish
  <2> QED
    BY <2>1, <2>2, ThreadMoves
<1> QED
  BY <1>1, <1>2, <1>3, <1>4, <1>5, <1>6, <1>7 DEF Work

LEMMA UndoKeepsLock ==
  ASSUME LockIInv, Undo
  PROVE  LockIInv'
<1>1. Fields(mon) /\ mon.pc \in MonitorLocations
  BY DEF LockIInv, Control
<1>2. CASE MonitorLooks
  <2>1. mon.pc = "stopped" /\ UNCHANGED <<lock, applying, pc>>
    BY <1>2 DEF MonitorLooks, gate
  <2>2. Fields(mon') /\ mon'.pc \in {"clear", "try"}
    BY <1>1, <1>2 DEF MonitorLooks, Fields
  <2> QED
    BY <2>1, <2>2, MonitorMoves DEF MonitorLocations
<1>3. CASE MonitorGivesUp
  <2>1. mon.pc = "try" /\ UNCHANGED <<lock, applying, pc>>
    BY <1>3 DEF MonitorGivesUp, gate
  <2>2. Fields(mon') /\ mon'.pc = "clear"
    BY <1>1, <1>3 DEF MonitorGivesUp, Fields
  <2> QED
    BY <2>1, <2>2, MonitorMoves DEF MonitorLocations
<1>4. CASE MonitorLocks
  <2>1. lock = NoThread /\ lock' = Monitor /\ UNCHANGED <<applying, pc>>
    BY <1>4 DEF MonitorLocks
  <2>2. Fields(mon') /\ mon'.pc = "undo"
    BY <1>1, <1>4 DEF MonitorLocks, Fields
  <2>3. Control'
    BY <2>1, <2>2 DEF LockIInv, Control, MonitorLocations
  <2> QED
    BY <2>1, <2>2, <2>3, PatchAssumption DEF LockIInv, Holders
<1>5. CASE MonitorTakes
  <2>1. mon.pc = "undo" /\ UNCHANGED <<lock, applying, pc>>
    BY <1>5 DEF MonitorTakes, gate
  <2>2. \E todo, p, lines : mon' = [mon EXCEPT !.todo = todo, !.patch = p, !.lines = lines]
    BY <1>5 DEF MonitorTakes
  <2>3. Fields(mon') /\ mon'.pc = "undo"
    BY <1>1, <2>1, <2>2 DEF Fields
  <2> QED
    BY <2>1, <2>3, MonitorMoves DEF MonitorLocations
<1>6. CASE MonitorRestores
  <2>1. mon.pc = "undo" /\ UNCHANGED <<lock, applying, pc>>
    BY <1>6 DEF MonitorRestores, gate
  <2>2. \E lines, undone : mon' = [mon EXCEPT !.lines = lines, !.undone = undone]
    BY <1>6 DEF MonitorRestores
  <2>3. Fields(mon') /\ mon'.pc = "undo"
    BY <1>1, <2>1, <2>2 DEF Fields
  <2> QED
    BY <2>1, <2>3, MonitorMoves DEF MonitorLocations
<1>7. CASE MonitorUnlocks
  <2>1. mon.pc = "undo" /\ lock' = NoThread /\ UNCHANGED <<applying, pc>>
    BY <1>7 DEF MonitorUnlocks
  <2>2. lock = Monitor
    BY <2>1 DEF LockIInv, Holders
  <2>3. Fields(mon') /\ mon'.pc = "clear"
    BY <1>1, <1>7 DEF MonitorUnlocks, Fields
  <2>4. Control'
    BY <2>1, <2>3 DEF LockIInv, Control, MonitorLocations
  <2> QED
    BY <2>1, <2>2, <2>3, <2>4, PatchAssumption DEF LockIInv, Holders
<1>8. CASE MonitorClears
  <2>1. mon.pc = "clear" /\ UNCHANGED <<lock, applying, pc>>
    BY <1>8 DEF MonitorClears, gate
  <2>2. Fields(mon') /\ mon'.pc = "unmark"
    BY <1>1, <1>8 DEF MonitorClears, Fields
  <2> QED
    BY <2>1, <2>2, MonitorMoves DEF MonitorLocations
<1>9. CASE MonitorUnmarks
  <2>1. mon.pc = "unmark" /\ UNCHANGED <<lock, applying, pc>>
    BY <1>9 DEF MonitorUnmarks, gate
  <2>2. Fields(mon') /\ mon'.pc = "poll"
    BY <1>9 DEF MonitorUnmarks, NoUndo, Fields
  <2> QED
    BY <2>1, <2>2, MonitorMoves DEF MonitorLocations
<1> QED
  BY <1>2, <1>3, <1>4, <1>5, <1>6, <1>7, <1>8, <1>9 DEF Undo

LEMMA LockStep == LockIInv /\ [Next]_vars => LockIInv'
<1> SUFFICES ASSUME LockIInv, [Next]_vars PROVE LockIInv'
  OBVIOUS
<1>1. CASE StartGame \/ EndGame \/ Rescan \/ UNCHANGED vars
  <2>1. UNCHANGED <<lock, applying, pc, mon>>
    BY <1>1 DEF StartGame, EndGame, Rescan, vars, gate, monitor
  <2> QED
    BY <2>1 DEF LockIInv, Control, Holders, Fields
<1>2. CASE Poll
  <2>1. mon.pc = "poll" /\ UNCHANGED <<lock, applying, pc>>
    BY <1>2 DEF Poll, gate
  <2>2. Fields(mon') /\ mon'.pc \in {"poll", "stopped"}
    <3>1. mon' = mon \/ mon' = [NoUndo EXCEPT !.pc = "stopped", !.pid = cached]
      BY <1>2 DEF Poll
    <3>2. CASE mon' = mon
      BY <2>1, <3>2 DEF LockIInv, Control, Fields
    <3>3. CASE mon' = [NoUndo EXCEPT !.pc = "stopped", !.pid = cached]
      BY <3>3 DEF NoUndo, Fields
    <3> QED
      BY <3>1, <3>2, <3>3
  <2> QED
    BY <2>1, <2>2, MonitorMoves DEF MonitorLocations
<1>3. CASE Undo
  BY <1>3, UndoKeepsLock
<1>4. ASSUME NEW t \in Threads, Work(t) PROVE LockIInv'
  BY <1>4, WorkKeepsLock
<1>5. ASSUME NEW t \in Threads, NEW p \in Patches, RequestApply(t, p) \/ RequestRestore(t, p)
      PROVE  LockIInv'
  <2>1. pc[t] \notin Locked /\ UNCHANGED <<lock, applying, mon>>
    BY <1>5 DEF RequestApply, RequestRestore, Locked, gate, monitor
  <2>2. \E loc \in {"lock", "copy"} : Go(t, loc)
    BY <1>5 DEF RequestApply, RequestRestore
  <2> QED
    BY <2>1, <2>2, ThreadMoves, LocationFacts
<1> QED
  BY <1>1, <1>2, <1>3, <1>4, <1>5 DEF Next

\* At any time at most one pass over the game's memory is under way, a
\* request's or the monitor's undo, and g_cheat_applying says whether it is a
\* request's (cr_patch_parser.c:218, 302, 1294).
THEOREM OneWriterCorrect == Spec => []OneWriter
<1>1. Init => LockIInv
  BY LockInit
<1>2. LockIInv /\ [Next]_vars => LockIInv'
  BY LockStep
<1>3. LockIInv => OneWriter
  BY HoldersMeanOneWriter
<1> QED
  BY <1>1, <1>2, <1>3, PTL DEF Spec

----------------------------------------------------------------------------
(* Types.                                                                  *)

Bytes == UNION {[D -> Values] : D \in SUBSET Memory}
Jobs == [op : {"none", "apply", "restore"}, patch : Patches, pid : Pids,
         line : Nat \ {0}, part : Nat \ {0}, skipped : Nat, saved : Seq(Bytes),
         failed : BOOLEAN, before : [Memory -> Values]]
Backups == [patch : Patches, pid : Pids, lines : Seq(Bytes)]

\* The write a thread is at exists.
Pointed(j) ==
  j.line \in DOMAIN Plan[j.patch] => j.part \in DOMAIN Writes(Plan[j.patch][j.line])

GameTypes ==
  /\ gamePid \in Pids /\ started \in Pids /\ gamePid <= started
  /\ mem \in [Memory -> Values] /\ fault \in Layouts

JobTypes == job \in [Threads -> Jobs] /\ \A t \in Threads : Pointed(job[t])

TableTypes ==
  /\ applied \subseteq Patches \X Pids
  /\ store \in Seq(Backups) /\ Len(store) <= Slots
  /\ lost \subseteq Patches

MonitorTypes ==
  /\ mon.pid \in Pids /\ mon.lines \in Seq(Bytes) /\ mon.undone \subseteq Patches
  /\ mon.lines # <<>> => mon.patch \in Patches
  /\ cached \in Pids /\ glitches \in 0..Glitches

PatchTypes == GameTypes /\ JobTypes /\ TableTypes /\ MonitorTypes

\* The bytes of a line, or of a backup, are a function from cells.
LEMMA BytesFacts ==
  ASSUME NEW b \in Bytes
  PROVE  /\ DOMAIN b \subseteq Memory
         /\ b = [c \in DOMAIN b |-> b[c]]
         /\ \A c \in DOMAIN b : b[c] \in Values
BY DEF Bytes

LEMMA BytesAre ==
  ASSUME NEW b, b = [c \in DOMAIN b |-> b[c]], DOMAIN b \subseteq Memory,
         \A c \in DOMAIN b : b[c] \in Values
  PROVE  b \in Bytes
<1>1. b \in [DOMAIN b -> Values]
  OBVIOUS
<1> QED
  BY <1>1 DEF Bytes

LEMMA SavedFacts ==
  ASSUME NEW s \in Seq(Bytes)
  PROVE  IsSaved(s)
<1>1. s = [i \in 1..Len(s) |-> s[i]] /\ \A i \in DOMAIN s : s[i] \in Bytes
  OBVIOUS
<1> QED
  BY <1>1, BytesFacts DEF IsSaved, IsBytes

\* Every write of a plan is bytes of the values that TypeOK names.
LEMMA WritesTyped ==
  ASSUME NEW p \in Patches, NEW w \in WritesOf(p)
  PROVE  w \in Bytes
<1>1. w = [c \in DOMAIN w |-> w[c]] /\ DOMAIN w \subseteq Memory
  BY PlanAssumption
<1>2. \A c \in DOMAIN w : w[c] \in Values
  BY DEF Values
<1> QED
  BY <1>1, <1>2, BytesAre

LEMMA LineFacts ==
  ASSUME NEW p \in Patches, NEW i \in DOMAIN Plan[p]
  PROVE  /\ Writes(Plan[p][i]) \in Seq(WritesOf(p))
         /\ Len(Writes(Plan[p][i])) \in Nat \ {0}
         /\ DOMAIN Writes(Plan[p][i]) = 1..Len(Writes(Plan[p][i]))
         /\ DOMAIN Plan[p] \subseteq Int
<1>1. /\ Writes(Plan[p][i]) \in Seq(WritesOf(p)) /\ Writes(Plan[p][i]) # <<>>
      /\ DOMAIN Plan[p] = 1..Len(Plan[p])
  BY PlanAssumption
<1>2. Len(Writes(Plan[p][i])) \in Nat \ {0}
  BY <1>1, EmptySeq
<1>3. DOMAIN Writes(Plan[p][i]) = 1..Len(Writes(Plan[p][i]))
  BY <1>1, LenProperties
<1> QED
  BY <1>1, <1>2, <1>3

LEMMA WriteTyped ==
  ASSUME JobTypes, NEW t \in Threads, InPlan(t)
  PROVE  WriteOf(t) \in WritesOf(job[t].patch) /\ WriteOf(t) \in Bytes
<1>1. job[t].patch \in Patches /\ job[t].line \in DOMAIN Plan[job[t].patch]
      /\ job[t].part \in DOMAIN Writes(LineOf(t))
  BY DEF JobTypes, Jobs, Pointed, InPlan, LineOf
<1>2. WriteOf(t) \in WritesOf(job[t].patch)
  <2> DEFINE p == job[t].patch
             here == {Writes(LineOf(t))[j] : j \in DOMAIN Writes(LineOf(t))}
  <2>1. WriteOf(t) \in here
    BY <1>1 DEF WriteOf
  <2>2. here \in {{Writes(Plan[p][i])[j] : j \in DOMAIN Writes(Plan[p][i])} : i \in DOMAIN Plan[p]}
    BY <1>1 DEF LineOf
  <2> QED
    BY <2>1, <2>2 DEF WritesOf
<1> QED
  BY <1>1, <1>2, WritesTyped

LEMMA AfterTyped ==
  ASSUME GameTypes, NEW w \in Bytes
  PROVE  After(w) \in [Memory -> Values]
<1>1. Landed(w) \subseteq DOMAIN w
  BY DEF Landed
<1> QED
  BY <1>1, BytesFacts DEF After, GameTypes

LEMMA BackupTyped ==
  ASSUME GameTypes, NEW w \in Bytes
  PROVE  Backup(w) \in Bytes /\ DOMAIN Backup(w) = DOMAIN w
<1>1. Backup(w) = [c \in DOMAIN w |-> mem[c]] /\ DOMAIN w \subseteq Memory
  BY BytesFacts DEF Backup
<1>2. \A c \in DOMAIN Backup(w) : Backup(w)[c] \in Values
  BY <1>1 DEF GameTypes
<1> QED
  BY <1>1, <1>2, BytesAre

LEMMA NoJobTyped == NoJob \in Jobs /\ Pointed(NoJob)
<1>1. (CHOOSE p \in Patches : TRUE) \in Patches
  BY PatchAssumption
<1>2. [c \in Memory |-> Original] \in [Memory -> Values]
  BY DEF Values
<1>3. 0 \in Pids
  BY PatchAssumption DEF Pids
<1>4. <<>> \in Seq(Bytes)
  OBVIOUS
<1>5. NoJob \in Jobs
  BY <1>1, <1>2, <1>3, <1>4 DEF NoJob, Jobs
<1>6. Pointed(NoJob)
  BY <1>1, LineFacts DEF NoJob, Pointed
<1> QED
  BY <1>5, <1>6

\* The ends of a sequence.
LEMMA EndsTyped ==
  ASSUME NEW S, NEW s \in Seq(S), s # <<>>
  PROVE  /\ Head(s) \in S /\ Tail(s) \in Seq(S) /\ Last(s) \in S /\ Front(s) \in Seq(S)
         /\ Len(Front(s)) = Len(s) - 1 /\ Len(s) \in Nat \ {0}
         /\ \A i \in 1..(Len(s) - 1) : Front(s)[i] = s[i]
         /\ \A i \in 1..(Len(s) - 1) : Tail(s)[i] = s[i + 1]
         /\ Len(Tail(s)) = Len(s) - 1
<1>1. Len(s) \in Nat \ {0}
  BY EmptySeq
<1>2. Head(s) \in S /\ Tail(s) \in Seq(S) /\ Len(Tail(s)) = Len(s) - 1
  BY HeadTailProperties
<1>3. Last(s) \in S
  BY <1>1, ElementOfSeq DEF Last
<1>4. \A i \in 1..(Len(s) - 1) : s[i] \in S
  BY <1>1, ElementOfSeq
<1>5. /\ Front(s) \in Seq(S) /\ Len(Front(s)) = Len(s) - 1
      /\ \A i \in 1..(Len(s) - 1) : Front(s)[i] = s[i]
  <2> DEFINE n == Len(s) - 1
  <2>1. n \in Nat /\ 1 \in Int /\ n \in Int /\ n - 1 + 1 = n /\ \A i \in 1..n : 1 + i - 1 = i
    BY <1>1
  <2>2. /\ SubSeq(s, 1, n) \in Seq(S) /\ Len(SubSeq(s, 1, n)) = IF 1 <= n THEN n - 1 + 1 ELSE 0
        /\ \A i \in 1..n - 1 + 1 : SubSeq(s, 1, n)[i] = s[1 + i - 1]
    BY <1>4, <2>1, SubSeqProperties
  <2> QED
    BY <2>1, <2>2 DEF Front
<1>6. \A i \in 1..(Len(s) - 1) : Tail(s)[i] = s[i + 1]
  BY <1>1
<1> QED
  BY <1>1, <1>2, <1>3, <1>5, <1>6

----------------------------------------------------------------------------
(* The table of backups.                                                   *)

NatOrder == {p \in Nat \X Nat : p[1] < p[2]}

\* What holds of 0, and of n + 1 when it holds of n, holds of every number.
LEMMA Induction ==
  ASSUME NEW S, 0 \in S, \A n \in Nat : n \in S => n + 1 \in S
  PROVE  Nat \subseteq S
<1>1. SUFFICES ASSUME Nat \ S # {} PROVE FALSE
  OBVIOUS
<1>2. NatOrder = OpToRel(<, Nat)
  BY DEF OpToRel, NatOrder
<1>3. PICK x \in Nat \ S : \A y \in Nat \ S : ~(<<y, x>> \in NatOrder)
  BY <1>1, <1>2, NatLessThanWellFounded, WFMin, Zenon
<1>4. x # 0 /\ x - 1 \in Nat /\ x - 1 + 1 = x
  OBVIOUS
<1>5. <<x - 1, x>> \in NatOrder
  BY <1>4 DEF NatOrder
<1>6. x - 1 \in S
  BY <1>3, <1>4, <1>5
<1> QED
  BY <1>4, <1>6

\* g[i] = g[--n] removes one record, and no record before it moves.
LEMMA RemoveSlotFacts ==
  ASSUME NEW S, NEW s \in Seq(S), NEW i \in 1..Len(s)
  PROVE  /\ RemoveSlot(s, i) \in Seq(S) /\ Len(RemoveSlot(s, i)) = Len(s) - 1
         /\ \A k \in 1..(i - 1) : RemoveSlot(s, i)[k] = s[k]
         /\ \A k \in 1..(Len(s) - 1) : \E l \in 1..Len(s) : RemoveSlot(s, i)[k] = s[l]
         /\ \A k \in 1..Len(s) \ {i} : \E l \in 1..(Len(s) - 1) : RemoveSlot(s, i)[l] = s[k]
<1> DEFINE n == Len(s)
           e == [s EXCEPT ![i] = Last(s)]
<1>1. n \in Nat /\ i \in 1..n /\ n \in 1..n
  OBVIOUS
<1>2. Last(s) \in S /\ Last(s) = s[n]
  BY <1>1, ElementOfSeq DEF Last
<1>3. /\ e \in Seq(S) /\ Len(e) = n
      /\ \A j \in 1..n : e[j] = IF j = i THEN s[n] ELSE s[j]
  BY <1>1, <1>2, ExceptSeq
<1>4. e # <<>>
  BY <1>1, <1>3
<1> HIDE DEF e
<1>5. /\ Front(e) \in Seq(S) /\ Len(Front(e)) = n - 1
      /\ \A k \in 1..(n - 1) : Front(e)[k] = e[k]
  BY <1>3, <1>4, EndsTyped
<1>6. RemoveSlot(s, i) = Front(e)
  BY DEF RemoveSlot, e
<1>7. \A k \in 1..(i - 1) : Front(e)[k] = s[k]
  BY <1>1, <1>3, <1>5
<1>8. \A k \in 1..(n - 1) : Front(e)[k] = s[IF k = i THEN n ELSE k]
  BY <1>1, <1>3, <1>5
<1>9. ASSUME NEW k \in 1..n \ {i} PROVE \E l \in 1..(n - 1) : Front(e)[l] = s[k]
  <2>1. CASE k = n
    <3>1. i \in 1..(n - 1)
      BY <1>1, <1>9, <2>1
    <3> QED
      BY <1>8, <2>1, <3>1
  <2>2. CASE k # n
    <3>1. k \in 1..(n - 1)
      BY <1>1, <1>9, <2>2
    <3> QED
      BY <1>8, <1>9, <3>1
  <2> QED
    BY <2>1, <2>2
<1>10. \A k \in 1..(n - 1) : \E l \in 1..n : Front(e)[k] = s[l]
  <2> TAKE k \in 1..(n - 1)
  <2>1. (IF k = i THEN n ELSE k) \in 1..n
    BY <1>1
  <2> QED
    BY <1>8, <2>1
<1> QED
  BY <1>5, <1>6, <1>7, <1>9, <1>10

\* g[n] is the table when the last n slots have been looked at.
Loops(g, pid) ==
  /\ g[0] = store /\ g[Len(store)] = ClearBackups(pid)
  /\ \A n \in 1..Len(store) :
       g[n] = IF store[Len(store) + 1 - n].pid = pid
              THEN RemoveSlot(g[n - 1], Len(store) + 1 - n) ELSE g[n - 1]

\* ClearBackups(pid) is a loop over the slots, from the last to the first.
LEMMA ClearLoop ==
  ASSUME TableTypes, NEW pid
  PROVE  \E g : Loops(g, pid)
<1> DEFINE max == Len(store)
           Turn(s, n) == IF store[max + 1 - n].pid = pid
                         THEN RemoveSlot(s, max + 1 - n) ELSE s
           Loop(g, m) == g = [n \in 0..m |-> IF n = 0 THEN store ELSE Turn(g[n - 1], n)]
           S == {m \in Nat : \E g : Loop(g, m)}
           after[n \in 0..max] == IF n = 0 THEN store
                                  ELSE IF store[max + 1 - n].pid = pid
                                       THEN RemoveSlot(after[n - 1], max + 1 - n)
                                       ELSE after[n - 1]
<1>1. max \in Nat
  BY LenProperties DEF TableTypes
<1>2. ClearBackups(pid) = after[max]
  BY DEF ClearBackups
<1>3. 0 \in S
  <2> DEFINE g == [n \in 0..0 |-> store]
  <2>1. Loop(g, 0)
    <3> HIDE DEF Turn
    <3> QED OBVIOUS
  <2> QED
    BY <2>1
<1>4. ASSUME NEW m \in Nat, m \in S PROVE m + 1 \in S
  <2>1. PICK g : Loop(g, m)
    BY <1>4
  <2> HIDE DEF Turn
  <2> DEFINE h == [n \in 0..(m + 1) |-> IF n = m + 1 THEN Turn(g[m], m + 1) ELSE g[n]]
  <2>2. \A n \in 0..m : h[n] = g[n]
    OBVIOUS
  <2>3. \A n \in 0..m : n # 0 => n - 1 \in 0..m
    OBVIOUS
  <2>4. \A n \in 0..m : g[n] = IF n = 0 THEN store ELSE Turn(g[n - 1], n)
    BY <2>1
  <2>5. \A n \in 0..(m + 1) : h[n] = IF n = 0 THEN store ELSE Turn(h[n - 1], n)
    <3> SUFFICES ASSUME NEW n \in 0..(m + 1) PROVE h[n] = IF n = 0 THEN store ELSE Turn(h[n - 1], n)
      OBVIOUS
    <3>1. CASE n \in 0..m
      BY <2>2, <2>3, <2>4, <3>1
    <3>2. CASE n = m + 1
      <4>1. n - 1 = m /\ m \in 0..m /\ n # 0
        BY <3>2
      <4> QED
        BY <2>2, <3>2, <4>1
    <3> QED
      BY <3>1, <3>2
  <2>6. Loop(h, m + 1)
    BY <2>5
  <2> HIDE DEF h, Loop
  <2> QED
    BY <2>6
<1>5. max \in S
  BY <1>1, <1>3, <1>4, Induction
<1>6. after = [n \in 0..max |-> IF n = 0 THEN store ELSE Turn(after[n - 1], n)]
  BY <1>5
<1> HIDE DEF after, Turn
<1>7. \A n \in 1..max : n \in 0..max /\ n # 0
  OBVIOUS
<1>8. after[0] = store /\ \A n \in 1..max : after[n] = Turn(after[n - 1], n)
  BY <1>1, <1>6, <1>7
<1> QED
  BY <1>2, <1>8 DEF Turn, Loops

\* What a table keeps of the store: its records come from there, and those of
\* other processes are all in it.
Keeps(s, pid) ==
  /\ \A k \in 1..Len(s) : \E l \in 1..Len(store) : s[k] = store[l]
  /\ \A k \in 1..Len(store) : store[k].pid # pid => \E l \in 1..Len(s) : s[l] = store[k]

\* The turn of the loop that looks at slot i.
LEMMA ClearTurn ==
  ASSUME TableTypes, NEW pid, NEW i \in 1..Len(store),
         NEW s \in Seq(Backups), Keeps(s, pid), i <= Len(s), Len(s) <= Len(store),
         \A k \in 1..i : s[k] = store[k],
         NEW r, r = IF store[i].pid = pid THEN RemoveSlot(s, i) ELSE s
  PROVE  /\ r \in Seq(Backups) /\ Keeps(r, pid) /\ i - 1 <= Len(r) /\ Len(r) <= Len(store)
         /\ \A k \in 1..(i - 1) : r[k] = store[k]
<1>1. Len(s) \in Nat /\ Len(store) \in Nat /\ i \in 1..Len(s)
  BY LenProperties DEF TableTypes
<1>2. CASE store[i].pid = pid
  <2>1. r = RemoveSlot(s, i)
    BY <1>2
  <2>2. /\ r \in Seq(Backups) /\ Len(r) = Len(s) - 1
        /\ \A k \in 1..(i - 1) : r[k] = s[k]
        /\ \A k \in 1..(Len(s) - 1) : \E l \in 1..Len(s) : r[k] = s[l]
        /\ \A k \in 1..Len(s) \ {i} : \E l \in 1..(Len(s) - 1) : r[l] = s[k]
    <3>1. /\ RemoveSlot(s, i) \in Seq(Backups) /\ Len(RemoveSlot(s, i)) = Len(s) - 1
          /\ \A k \in 1..(i - 1) : RemoveSlot(s, i)[k] = s[k]
          /\ \A k \in 1..(Len(s) - 1) : \E l \in 1..Len(s) : RemoveSlot(s, i)[k] = s[l]
          /\ \A k \in 1..Len(s) \ {i} : \E l \in 1..(Len(s) - 1) : RemoveSlot(s, i)[l] = s[k]
      BY <1>1, RemoveSlotFacts
    <3> QED
      BY ONLY <2>1, <3>1
  <2>3. ASSUME NEW k \in 1..Len(r) PROVE \E l \in 1..Len(store) : r[k] = store[l]
    <3>1. PICK l \in 1..Len(s) : r[k] = s[l]
      BY <2>2
    <3> QED
      BY <3>1 DEF Keeps
  <2>4. ASSUME NEW k \in 1..Len(store), store[k].pid # pid
        PROVE  \E l \in 1..Len(r) : r[l] = store[k]
    <3>1. PICK l \in 1..Len(s) : s[l] = store[k]
      BY <2>4 DEF Keeps
    <3>2. l # i
      BY <1>2, <2>4, <3>1
    <3> QED
      BY <2>2, <3>1, <3>2
  <2>5. \A k \in 1..(i - 1) : r[k] = store[k]
    BY <2>2
  <2>6. i - 1 <= Len(r) /\ Len(r) <= Len(store)
    BY <1>1, <2>2
  <2> QED
    BY <2>2, <2>3, <2>4, <2>5, <2>6 DEF Keeps
<1>3. CASE store[i].pid # pid
  BY <1>1, <1>3
<1> QED
  BY <1>2, <1>3

\* patch_clear_backups_for_pid() drops records of that process only.
LEMMA ClearFacts ==
  ASSUME TableTypes, NEW pid
  PROVE  /\ ClearBackups(pid) \in Seq(Backups) /\ Len(ClearBackups(pid)) <= Len(store)
         /\ Keeps(ClearBackups(pid), pid)
<1> DEFINE max == Len(store)
<1>1. max \in Nat /\ store \in Seq(Backups)
  BY LenProperties DEF TableTypes
<1>2. PICK g : Loops(g, pid)
  BY ClearLoop
<1> DEFINE Fine(s, n) == /\ s \in Seq(Backups) /\ Keeps(s, pid)
                         /\ max - n <= Len(s) /\ Len(s) <= max
                         /\ \A k \in 1..(max - n) : s[k] = store[k]
           S == {n \in Nat : n <= max => Fine(g[n], n)}
<1>3. 0 \in S
  <2>1. Keeps(store, pid)
    BY DEF Keeps
  <2> QED
    BY <1>1, <1>2, <2>1 DEF Loops
<1>4. ASSUME NEW n \in Nat, n \in S PROVE n + 1 \in S
  <2>1. SUFFICES ASSUME n + 1 <= max PROVE Fine(g[n + 1], n + 1)
    OBVIOUS
  <2> DEFINE i == max - n
  <2>2. /\ i \in 1..max /\ max + 1 - (n + 1) = i /\ i - 1 = max - (n + 1)
        /\ n + 1 \in 1..max /\ n + 1 - 1 = n /\ n <= max
    BY <1>1, <2>1
  <2>3. Fine(g[n], n)
    BY <1>4, <2>2
  <2>4. g[n + 1] = IF store[i].pid = pid THEN RemoveSlot(g[n], i) ELSE g[n]
    BY <1>2, <2>2 DEF Loops
  <2>5. /\ g[n + 1] \in Seq(Backups) /\ Keeps(g[n + 1], pid)
        /\ i - 1 <= Len(g[n + 1]) /\ Len(g[n + 1]) <= max
        /\ \A k \in 1..(i - 1) : g[n + 1][k] = store[k]
    <3>1. /\ g[n] \in Seq(Backups) /\ Keeps(g[n], pid)
          /\ i <= Len(g[n]) /\ Len(g[n]) <= max
          /\ \A k \in 1..i : g[n][k] = store[k]
      BY <2>3
    <3> HIDE DEF Fine, i
    <3> QED
      BY <2>2, <2>4, <3>1, ClearTurn
  <2> QED
    BY <2>2, <2>5
<1> HIDE DEF Fine
<1>5. max \in S
  BY <1>1, <1>3, <1>4, Induction
<1> QED
  BY <1>1, <1>2, <1>5 DEF Fine, Loops

LEMMA FirstSlot ==
  ASSUME TableTypes, NEW p, NEW pid, SlotOf(p, pid) # {}
  PROVE  LET i == CHOOSE i \in SlotOf(p, pid) : \A j \in SlotOf(p, pid) : i <= j
         IN  i \in 1..Len(store) /\ store[i] \in Backups /\ IsFor(store[i], p, pid)
<1> DEFINE S == SlotOf(p, pid)
<1>1. S \subseteq 1..Len(store) /\ Len(store) \in Nat
  BY LenProperties DEF TableTypes, SlotOf
<1>2. \E i \in S : \A j \in S : i <= j
  <2> DEFINE F == {n \in Nat : \A j \in S : ~(j <= n)}
  <2>1. SUFFICES ASSUME ~\E i \in S : \A j \in S : i <= j PROVE FALSE
    OBVIOUS
  <2>2. S \subseteq Nat \ {0}
    BY <1>1
  <2>3. 0 \in F
    BY <2>2
  <2>4. ASSUME NEW n \in Nat, n \in F PROVE n + 1 \in F
    <3>1. \A j \in S : n + 1 <= j
      BY <2>2, <2>4
    <3>2. n + 1 \notin S
      BY <2>1, <3>1
    <3> QED
      BY <2>2, <3>1, <3>2
  <2>5. Nat \subseteq F
    BY <2>3, <2>4, Induction
  <2>6. PICK j \in S : TRUE
    OBVIOUS
  <2> QED
    BY <2>2, <2>5, <2>6
<1>3. (CHOOSE i \in S : \A j \in S : i <= j) \in S
  BY <1>2
<1> QED
  BY <1>1, <1>3, ElementOfSeq DEF TableTypes, SlotOf

\* patch_remove_backup() drops one record of that patch and process.
LEMMA RemoveBackupFacts ==
  ASSUME TableTypes, NEW p, NEW pid
  PROVE  /\ RemoveBackup(p, pid) \in Seq(Backups) /\ Len(RemoveBackup(p, pid)) <= Len(store)
         /\ \A k \in 1..Len(RemoveBackup(p, pid)) :
              \E l \in 1..Len(store) : RemoveBackup(p, pid)[k] = store[l]
         /\ \A k \in 1..Len(store) :
              ~IsFor(store[k], p, pid) =>
                \E l \in 1..Len(RemoveBackup(p, pid)) : RemoveBackup(p, pid)[l] = store[k]
<1>1. store \in Seq(Backups) /\ Len(store) \in Nat
  BY LenProperties DEF TableTypes
<1>2. CASE SlotOf(p, pid) = {}
  BY <1>1, <1>2 DEF RemoveBackup
<1>3. CASE SlotOf(p, pid) # {}
  <2> DEFINE i == CHOOSE i \in SlotOf(p, pid) : \A j \in SlotOf(p, pid) : i <= j
  <2>1. i \in 1..Len(store) /\ IsFor(store[i], p, pid)
    BY <1>3, FirstSlot
  <2>2. RemoveBackup(p, pid) = RemoveSlot(store, i)
    BY <1>3 DEF RemoveBackup
  <2> HIDE DEF i
  <2>3. /\ RemoveSlot(store, i) \in Seq(Backups) /\ Len(RemoveSlot(store, i)) = Len(store) - 1
        /\ \A k \in 1..(Len(store) - 1) : \E l \in 1..Len(store) : RemoveSlot(store, i)[k] = store[l]
        /\ \A k \in 1..Len(store) \ {i} :
             \E l \in 1..(Len(store) - 1) : RemoveSlot(store, i)[l] = store[k]
    BY <1>1, <2>1, RemoveSlotFacts
  <2> QED
    BY <1>1, <2>1, <2>2, <2>3
<1> QED
  BY <1>2, <1>3

\* patch_store_backup() puts the record in or drops it, and moves no other.
LEMMA StoredFacts ==
  ASSUME TableTypes, NEW rec \in Backups
  PROVE  LET s == Stored(rec, SlotOf(rec.patch, rec.pid))
         IN  /\ s \in Seq(Backups) /\ Len(s) <= Slots
             /\ \A k \in 1..Len(s) : s[k] = rec \/ \E l \in 1..Len(store) : s[k] = store[l]
             /\ \A k \in 1..Len(store) :
                  ~IsFor(store[k], rec.patch, rec.pid) => \E l \in 1..Len(s) : s[l] = store[k]
             /\ \/ \E l \in 1..Len(s) : s[l] = rec
                \/ SlotOf(rec.patch, rec.pid) = {} /\ Len(store) = Slots /\ s = store
<1>1. store \in Seq(Backups) /\ Len(store) \in Nat /\ Len(store) <= Slots /\ Slots \in Nat
  BY LenProperties, PatchAssumption DEF TableTypes
<1> DEFINE slots == SlotOf(rec.patch, rec.pid)
           s == Stored(rec, slots)
<1>2. CASE slots # {}
  <2> DEFINE i == CHOOSE i \in slots : \A j \in slots : i <= j
  <2>1. i \in 1..Len(store) /\ IsFor(store[i], rec.patch, rec.pid)
    BY <1>2, FirstSlot
  <2>2. s = [store EXCEPT ![i] = rec]
    BY <1>2 DEF Stored
  <2> HIDE DEF i
  <2>3. /\ s \in Seq(Backups) /\ Len(s) = Len(store)
        /\ \A j \in 1..Len(store) : s[j] = IF j = i THEN rec ELSE store[j]
    BY <1>1, <2>1, <2>2, ExceptSeq
  <2> HIDE DEF s, slots
  <2>4. \A k \in 1..Len(store) : ~IsFor(store[k], rec.patch, rec.pid) => k # i
    BY <2>1
  <2>5. /\ \A k \in 1..Len(s) : s[k] = rec \/ \E l \in 1..Len(store) : s[k] = store[l]
        /\ \A k \in 1..Len(store) :
             ~IsFor(store[k], rec.patch, rec.pid) => \E l \in 1..Len(s) : s[l] = store[k]
    BY <2>3, <2>4
  <2>6. \E l \in 1..Len(s) : s[l] = rec
    BY <2>1, <2>3
  <2> QED
    BY <1>1, <2>3, <2>5, <2>6 DEF s, slots
<1>3. CASE slots = {} /\ Len(store) < Slots
  <2>1. s = Append(store, rec)
    BY <1>3 DEF Stored
  <2> HIDE DEF s
  <2>2. /\ s \in Seq(Backups) /\ Len(s) = Len(store) + 1
        /\ \A k \in 1..Len(store) : s[k] = store[k]
        /\ s[Len(store) + 1] = rec
    BY <1>1, <2>1, AppendProperties
  <2>3. /\ \A k \in 1..Len(s) : s[k] = rec \/ \E l \in 1..Len(store) : s[k] = store[l]
        /\ \A k \in 1..Len(store) : \E l \in 1..Len(s) : s[l] = store[k]
        /\ \E l \in 1..Len(s) : s[l] = rec
    BY <1>1, <2>2
  <2> QED
    BY <1>1, <1>3, <2>2, <2>3 DEF s
<1>4. CASE slots = {} /\ ~(Len(store) < Slots)
  <2>1. s = store /\ Len(store) = Slots
    BY <1>1, <1>4 DEF Stored
  <2> HIDE DEF s
  <2> QED
    BY <1>1, <1>4, <2>1 DEF s
<1> QED
  BY <1>2, <1>3, <1>4

----------------------------------------------------------------------------
(* Every step keeps the types.                                             *)

\* A step that changes the job of one thread at most.
LEMMA JobStep ==
  ASSUME JobTypes, NEW t \in Threads, job' = [job EXCEPT ![t] = job'[t]],
         job'[t] \in Jobs, Pointed(job'[t])
  PROVE  JobTypes'
<1>1. job \in [Threads -> Jobs] /\ \A u \in Threads : Pointed(job[u])
  BY DEF JobTypes
<1>2. job' \in [Threads -> Jobs] /\ \A u \in Threads : u = t \/ job'[u] = job[u]
  BY <1>1
<1>3. \A u \in Threads : Pointed(job'[u])
  BY <1>1, <1>2
<1> QED
  BY <1>2, <1>3 DEF JobTypes, Pointed

LEMMA FinishTyped ==
  ASSUME JobTypes, NEW t \in Threads, job' = [job EXCEPT ![t] = NoJob]
  PROVE  JobTypes'
<1>1. job'[t] = NoJob
  BY DEF JobTypes
<1> QED
  BY <1>1, NoJobTyped, JobStep

LEMMA AdvanceTyped ==
  ASSUME NEW j \in Jobs, Pointed(j), j.line \in DOMAIN Plan[j.patch]
  PROVE  Advance(j) \in Jobs /\ Pointed(Advance(j))
<1> DEFINE writes == Writes(Plan[j.patch][j.line])
<1>1. /\ j.patch \in Patches /\ j.line \in Nat \ {0} /\ j.part \in 1..Len(writes)
      /\ Len(writes) \in Nat \ {0} /\ DOMAIN writes = 1..Len(writes)
  BY LineFacts DEF Jobs, Pointed
<1> HIDE DEF writes
<1>2. CASE j.part < Len(writes)
  <2>1. Advance(j) = [j EXCEPT !.part = @ + 1]
    BY <1>2 DEF Advance, writes
  <2>2. j.part + 1 \in 1..Len(writes) /\ j.part + 1 \in Nat \ {0}
    BY <1>1, <1>2
  <2> DEFINE k == j.part + 1
  <2> HIDE DEF k
  <2>3. [j EXCEPT !.part = k] \in Jobs
    BY <2>2 DEF Jobs, k
  <2>4. /\ [j EXCEPT !.part = k].line = j.line /\ [j EXCEPT !.part = k].patch = j.patch
        /\ [j EXCEPT !.part = k].part = k
    BY DEF Jobs
  <2>5. Pointed([j EXCEPT !.part = k])
    BY <1>1, <2>2, <2>4 DEF Pointed, writes, k
  <2> QED
    BY <2>1, <2>3, <2>5 DEF k
<1>3. CASE ~(j.part < Len(writes))
  <2>1. Advance(j) = [j EXCEPT !.line = @ + 1, !.part = 1]
    BY <1>3 DEF Advance, writes
  <2> DEFINE k == j.line + 1
             r == [j EXCEPT !.line = k, !.part = 1]
  <2>2. k \in Nat \ {0}
    BY <1>1
  <2> HIDE DEF k
  <2>3. r \in Jobs /\ r.patch = j.patch /\ r.part = 1 /\ r.line = k
    <3>1. 1 \in Nat \ {0}
      OBVIOUS
    <3> QED
      BY <2>2, <3>1 DEF Jobs
  <2> HIDE DEF r
  <2>4. Pointed(r)
    <3>1. ASSUME k \in DOMAIN Plan[j.patch] PROVE 1 \in DOMAIN Writes(Plan[j.patch][k])
      BY <1>1, <3>1, LineFacts
    <3> QED
      BY <2>3, <3>1 DEF Pointed
  <2> QED
    BY <2>1, <2>3, <2>4 DEF k, r
<1> QED
  BY <1>2, <1>3

LEMMA WriteBlockTyped ==
  ASSUME GameTypes, JobTypes, NEW t \in Threads, WriteBlock(t)
  PROVE  JobTypes' /\ mem' \in [Memory -> Values]
<1> DEFINE w == WriteOf(t)
           saving == [job[t] EXCEPT !.saved = Append(@, Backup(w))]
<1>1. w \in Bytes /\ InPlan(t)
  BY WriteTyped DEF WriteBlock
<1>2. job[t] \in Jobs /\ Pointed(job[t]) /\ job[t].line \in DOMAIN Plan[job[t].patch]
  BY <1>1 DEF JobTypes, InPlan
<1> HIDE DEF w
<1>3. Backup(w) \in Bytes
  BY <1>1, BackupTyped
<1> DEFINE b == Backup(w)
           more == Append(job[t].saved, b)
<1>4. more \in Seq(Bytes)
  <2>1. job[t].saved \in Seq(Bytes)
    BY <1>2 DEF Jobs
  <2> HIDE DEF b
  <2> QED
    BY <1>3, <2>1, AppendProperties DEF b
<1> HIDE DEF more
<1>5. saving = [job[t] EXCEPT !.saved = more]
  BY DEF more
<1>6. /\ saving \in Jobs /\ saving.line = job[t].line /\ saving.part = job[t].part
      /\ saving.patch = job[t].patch
  BY <1>2, <1>4, <1>5 DEF Jobs
<1> HIDE DEF saving
<1>7. Pointed(saving)
  BY <1>2, <1>6 DEF Pointed
<1>8. mem' = After(w)
  BY DEF WriteBlock, w
<1>9. job' = [job EXCEPT ![t] = Advance(saving)]
      \/ job' = [job EXCEPT ![t] = [saving EXCEPT !.failed = TRUE]]
  BY DEF WriteBlock, w, saving
<1>10. CASE job' = [job EXCEPT ![t] = Advance(saving)]
  <2>1. job'[t] = Advance(saving)
    BY <1>10 DEF JobTypes
  <2>2. Advance(saving) \in Jobs /\ Pointed(Advance(saving))
    BY <1>2, <1>6, <1>7, AdvanceTyped
  <2> QED
    BY <1>1, <1>8, <1>10, <2>1, <2>2, JobStep, AfterTyped
<1>11. CASE job' = [job EXCEPT ![t] = [saving EXCEPT !.failed = TRUE]]
  <2> DEFINE r == [saving EXCEPT !.failed = TRUE]
  <2>1. r \in Jobs /\ r.line = saving.line /\ r.part = saving.part /\ r.patch = saving.patch
    BY <1>6 DEF Jobs
  <2>2. job'[t] = r
    BY <1>11 DEF JobTypes
  <2> HIDE DEF r
  <2>3. Pointed(r)
    BY <1>7, <2>1 DEF Pointed
  <2>4. job' = [job EXCEPT ![t] = r]
    BY <1>11 DEF r
  <2> QED
    BY <1>1, <1>8, <2>1, <2>2, <2>3, <2>4, JobStep, AfterTyped
<1> QED
  BY <1>9, <1>10, <1>11

\* The other steps change one field or two of the job.
LEMMA JobsTyped ==
  ASSUME GameTypes, JobTypes, TableTypes, NEW t \in Threads, Work(t)
  PROVE  JobTypes' /\ mem' \in [Memory -> Values]
<1>1. job[t] \in Jobs /\ Pointed(job[t]) /\ mem \in [Memory -> Values]
  BY DEF JobTypes, GameTypes
<1>2. ASSUME NEW saved \in Seq(Bytes), job' = [job EXCEPT ![t].saved = saved]
      PROVE  JobTypes'
  <2>1. job'[t] = [job[t] EXCEPT !.saved = saved]
    BY <1>2 DEF JobTypes
  <2>2. job'[t] \in Jobs /\ Pointed(job'[t])
    BY <1>1, <2>1 DEF Jobs, Pointed
  <2>3. job' = [job EXCEPT ![t] = job'[t]]
    BY <1>2, <2>1
  <2> QED
    BY <2>2, <2>3, JobStep
<1>3. ASSUME job' = [job EXCEPT ![t].failed = TRUE]
      PROVE  JobTypes'
  <2>1. job'[t] = [job[t] EXCEPT !.failed = TRUE]
    BY <1>3 DEF JobTypes
  <2>2. job'[t] \in Jobs /\ Pointed(job'[t])
    BY <1>1, <2>1 DEF Jobs, Pointed
  <2>3. job' = [job EXCEPT ![t] = job'[t]]
    BY <1>3, <2>1
  <2> QED
    BY <2>2, <2>3, JobStep
<1>4. ASSUME JobTypes', UNCHANGED mem PROVE JobTypes' /\ mem' \in [Memory -> Values]
  BY <1>1, <1>4
<1>5. ASSUME NEW pid, NEW b \in Bytes, PutBack(pid, b) PROVE mem' \in [Memory -> Values]
  BY <1>1, <1>5, AfterTyped DEF PutBack
<1>6. CASE CopyBackup(t)
  <2> DEFINE slots == SlotOf(job[t].patch, job[t].pid)
  <2>1. CASE job' = [job EXCEPT ![t] = NoJob]
    BY <1>4, <1>6, <2>1, FinishTyped DEF CopyBackup, game
  <2>2. CASE /\ slots # {}
             /\ job' = [job EXCEPT ![t].saved =
                          store[CHOOSE i \in slots : \A j \in slots : i <= j].lines]
    <3>1. store[CHOOSE i \in slots : \A j \in slots : i <= j] \in Backups
      BY <2>2, FirstSlot
    <3>2. store[CHOOSE i \in slots : \A j \in slots : i <= j].lines \in Seq(Bytes)
      BY <3>1 DEF Backups
    <3> HIDE DEF slots
    <3> QED
      BY <1>2, <1>4, <1>6, <2>2, <3>2 DEF CopyBackup, game
  <2> QED
    BY <1>6, <2>1, <2>2 DEF CopyBackup, Finish
<1>7. CASE Probe(t)
  <2>1. \/ job' = [job EXCEPT ![t].failed = TRUE, ![t].before = mem]
        \/ job' = [job EXCEPT ![t].before = mem]
    BY <1>7 DEF Probe
  <2>2. \/ job'[t] = [job[t] EXCEPT !.failed = TRUE, !.before = mem]
        \/ job'[t] = [job[t] EXCEPT !.before = mem]
    BY <2>1 DEF JobTypes
  <2>3. job'[t] \in Jobs /\ Pointed(job'[t])
    BY <1>1, <2>2 DEF Jobs, Pointed
  <2>4. job' = [job EXCEPT ![t] = job'[t]]
    BY <2>1 DEF JobTypes
  <2> QED
    BY <1>4, <1>7, <2>3, <2>4, JobStep DEF Probe, game
<1>8. CASE SkipLine(t)
  <2>1. job' = [job EXCEPT ![t].line = @ + 1, ![t].skipped = @ + 1]
    BY <1>8 DEF SkipLine
  <2> DEFINE k == job[t].line + 1
             m == job[t].skipped + 1
             r == [job[t] EXCEPT !.line = k, !.skipped = m]
  <2>2. k \in Nat \ {0} /\ m \in Nat /\ job[t].part = 1
    BY <1>1, <1>8 DEF Jobs, SkipLine, CanWrite
  <2>3. job' = [job EXCEPT ![t] = r]
    BY <2>1 DEF JobTypes
  <2> HIDE DEF k, m
  <2>4. r \in Jobs /\ r.line = k /\ r.part = 1 /\ r.patch = job[t].patch /\ r.patch \in Patches
    BY <1>1, <2>2 DEF Jobs
  <2>5. job'[t] = r
    BY <2>3 DEF JobTypes
  <2> HIDE DEF r
  <2>6. Pointed(r)
    BY <2>4, LineFacts DEF Pointed
  <2> QED
    BY <1>4, <1>8, <2>3, <2>4, <2>5, <2>6, JobStep DEF SkipLine, game
<1>9. CASE ReadFails(t)
  BY <1>3, <1>4, <1>9 DEF ReadFails, game
<1>10. CASE WriteBlock(t)
  BY <1>10, WriteBlockTyped
<1>11. CASE WritesDone(t) \/ AcquireLock(t) \/ StoreBackup(t) \/ DropBackup(t)
  <2>1. UNCHANGED mem
    BY <1>11 DEF WritesDone, AcquireLock, StoreBackup, DropBackup, game
  <2>2. UNCHANGED job \/ job' = [job EXCEPT ![t].failed = TRUE]
    BY <1>11 DEF WritesDone, AcquireLock, StoreBackup, DropBackup
  <2>3. ASSUME UNCHANGED job PROVE JobTypes'
    BY <2>3 DEF JobTypes, Pointed
  <2> QED
    BY <1>3, <1>4, <2>1, <2>2, <2>3
<1>12. CASE Rollback(t) \/ RestoreBlock(t)
  <2>1. CASE job[t].saved = <<>>
    <3>1. UNCHANGED <<mem, job>>
      BY <1>12, <2>1 DEF Rollback, RestoreBlock
    <3> QED
      BY <1>4, <3>1 DEF JobTypes, Pointed
  <2>2. CASE job[t].saved # <<>>
    <3>1. job[t].saved \in Seq(Bytes)
      BY <1>1 DEF Jobs
    <3>2. /\ Head(job[t].saved) \in Bytes /\ Tail(job[t].saved) \in Seq(Bytes)
          /\ Last(job[t].saved) \in Bytes /\ Front(job[t].saved) \in Seq(Bytes)
      BY <2>2, <3>1, EndsTyped
    <3>3. \/ /\ PutBack(job[t].pid, Last(job[t].saved))
             /\ job' = [job EXCEPT ![t].saved = Front(job[t].saved)]
          \/ /\ PutBack(job[t].pid, Head(job[t].saved))
             /\ job' = [job EXCEPT ![t].saved = Tail(job[t].saved)]
      BY <1>12, <2>2 DEF Rollback, RestoreBlock
    <3> QED
      BY <1>2, <1>5, <3>2, <3>3
  <2> QED
    BY <2>1, <2>2
<1>13. CASE Unlock(t) \/ MarkApplied(t) \/ MarkUnapplied(t)
  <2>1. UNCHANGED mem /\ (UNCHANGED job \/ job' = [job EXCEPT ![t] = NoJob])
    BY <1>13 DEF Unlock, MarkApplied, MarkUnapplied, Finish, game
  <2>2. ASSUME UNCHANGED job PROVE JobTypes'
    BY <2>2 DEF JobTypes, Pointed
  <2> QED
    BY <1>4, <2>1, <2>2, FinishTyped
<1> QED
  BY <1>6, <1>7, <1>8, <1>9, <1>10, <1>11, <1>12, <1>13 DEF Work

LEMMA TablesTyped ==
  ASSUME JobTypes, TableTypes, NEW t \in Threads, Work(t)
  PROVE  TableTypes'
<1>1. job[t] \in Jobs
  BY DEF JobTypes
<1>2. CASE StoreBackup(t)
  <2> DEFINE rec == [patch |-> job[t].patch, pid |-> job[t].pid, lines |-> job[t].saved]
  <2>1. rec \in Backups /\ rec.patch \in Patches
    BY <1>1 DEF Jobs, Backups
  <2>2. /\ store' = Stored(rec, SlotOf(rec.patch, rec.pid)) /\ applied' = applied
        /\ lost' \in {lost, lost \cup {rec.patch}}
    BY <1>2 DEF StoreBackup
  <2> HIDE DEF rec
  <2>3. store' \in Seq(Backups) /\ Len(store') <= Slots
    BY <2>1, <2>2, StoredFacts
  <2> QED
    BY <2>1, <2>2, <2>3 DEF TableTypes
<1>3. CASE DropBackup(t)
  <2>1. store' = RemoveBackup(job[t].patch, job[t].pid) /\ UNCHANGED <<applied, lost>>
    BY <1>3 DEF DropBackup
  <2>2. store' \in Seq(Backups) /\ Len(store') <= Len(store)
    BY <2>1, RemoveBackupFacts
  <2>3. Len(store) \in Nat /\ Len(store') \in Nat /\ Slots \in Nat
    BY <2>2, LenProperties, PatchAssumption DEF TableTypes
  <2> QED
    BY <2>1, <2>2, <2>3 DEF TableTypes
<1>4. CASE MarkApplied(t) \/ MarkUnapplied(t)
  <2>1. job[t].patch \in Patches /\ job[t].pid \in Pids
    BY <1>1 DEF Jobs
  <2>2. /\ applied' \in {applied \cup {<<job[t].patch, job[t].pid>>},
                         applied \ {<<job[t].patch, job[t].pid>>}}
        /\ UNCHANGED <<store, lost>>
    BY <1>4 DEF MarkApplied, MarkUnapplied
  <2> QED
    BY <2>1, <2>2 DEF TableTypes
<1>5. CASE ~(StoreBackup(t) \/ DropBackup(t) \/ MarkApplied(t) \/ MarkUnapplied(t))
  <2>1. UNCHANGED <<applied, store, lost>>
    BY <1>5 DEF Work, CopyBackup, AcquireLock, Probe, SkipLine, ReadFails, WriteBlock,
      WritesDone, Rollback, RestoreBlock, Unlock, tables
  <2> QED
    BY <2>1 DEF TableTypes
<1> QED
  BY <1>2, <1>3, <1>4, <1>5

LEMMA ClearTyped ==
  ASSUME TableTypes, Clear, UNCHANGED applied
  PROVE  TableTypes'
<1>1. store' = ClearBackups(mon.pid) /\ lost' = lost \cup Forgotten(mon.pid)
  BY DEF Clear
<1>2. store' \in Seq(Backups) /\ Len(store') <= Len(store)
  BY <1>1, ClearFacts
<1>3. Len(store) \in Nat /\ Len(store') \in Nat /\ Slots \in Nat
  BY <1>2, LenProperties, PatchAssumption DEF TableTypes
<1>4. Forgotten(mon.pid) \subseteq Patches
  <2>1. \A i \in DOMAIN store : store[i].patch \in Patches
    <3>1. \A i \in DOMAIN store : store[i] \in Backups
      BY LenProperties, ElementOfSeq DEF TableTypes
    <3> QED
      BY <3>1 DEF Backups
  <2> QED
    BY <2>1 DEF Forgotten
<1> QED
  BY <1>1, <1>2, <1>3, <1>4 DEF TableTypes

LEMMA NoUndoFacts ==
  NoUndo.pc = "poll" /\ NoUndo.pid = 0 /\ NoUndo.lines = <<>> /\ NoUndo.undone = {}
BY DEF NoUndo

LEMMA PollTyped ==
  ASSUME GameTypes, MonitorTypes, Fields(mon), Poll
  PROVE  MonitorTypes'
<1>1. cached' \in {gamePid, 0} /\ glitches' \in 0..Glitches
  <2>1. glitches' = glitches \/ (glitches < Glitches /\ glitches' = glitches + 1)
    BY DEF Poll
  <2> QED
    BY <2>1, PatchAssumption DEF Poll, MonitorTypes
<1>2. mon' = mon \/ mon' = [NoUndo EXCEPT !.pc = "stopped", !.pid = cached]
  BY DEF Poll
<1>3. 0 \in Pids
  BY PatchAssumption DEF Pids
<1>4. CASE mon' = mon
  BY <1>1, <1>3, <1>4 DEF MonitorTypes, GameTypes
<1>5. CASE mon' = [NoUndo EXCEPT !.pc = "stopped", !.pid = cached]
  <2>1. mon'.pid = cached /\ mon'.lines = <<>> /\ mon'.undone = {}
    BY <1>5 DEF NoUndo
  <2>2. <<>> \in Seq(Bytes)
    OBVIOUS
  <2> QED
    BY <1>1, <1>3, <2>1, <2>2 DEF MonitorTypes, GameTypes
<1> QED
  BY <1>2, <1>4, <1>5

LEMMA UndoTyped ==
  ASSUME GameTypes, TableTypes, MonitorTypes, Fields(mon), Undo
  PROVE  MonitorTypes' /\ TableTypes' /\ mem' \in [Memory -> Values]
<1>1. ASSUME Fields(mon'), mon'.pid = mon.pid, mon'.lines \in Seq(Bytes),
             mon'.undone \subseteq Patches, mon'.lines # <<>> => mon'.patch \in Patches,
             UNCHANGED <<cached, glitches>>
      PROVE  MonitorTypes'
  BY <1>1 DEF MonitorTypes
<1>2. mem \in [Memory -> Values]
  BY DEF GameTypes
<1>3. CASE MonitorLooks \/ MonitorGivesUp \/ MonitorLocks
  <2>1. UNCHANGED <<mem, cached, glitches, applied, store, lost>>
    BY <1>3 DEF MonitorLooks, MonitorGivesUp, MonitorLocks, game, tables
  <2>2. \/ \E loc : mon' = [mon EXCEPT !.pc = loc]
        \/ \E todo : mon' = [mon EXCEPT !.pc = "undo", !.todo = todo]
    BY <1>3 DEF MonitorLooks, MonitorGivesUp, MonitorLocks
  <2>3. /\ Fields(mon') /\ mon'.pid = mon.pid /\ mon'.lines = mon.lines
        /\ mon'.undone = mon.undone /\ mon'.patch = mon.patch
    BY <2>2 DEF Fields
  <2> QED
    BY <1>1, <1>2, <2>1, <2>3 DEF MonitorTypes, TableTypes
<1>4. CASE MonitorTakes
  <2> DEFINE p == Head(mon.todo)
             slots == SlotOf(p, mon.pid)
             i == CHOOSE i \in slots : \A j \in slots : i <= j
             lines == IF slots = {} THEN <<>> ELSE store[i].lines
  <2>1. mon' = [mon EXCEPT !.todo = Tail(@), !.patch = p, !.lines = lines]
    BY <1>4 DEF MonitorTakes
  <2>2. lines \in Seq(Bytes) /\ (lines # <<>> => p \in Patches)
    <3>1. CASE slots = {}
      BY <3>1
    <3>2. CASE slots # {}
      <4>1. store[i] \in Backups /\ IsFor(store[i], p, mon.pid)
        BY <3>2, FirstSlot
      <4> QED
        BY <3>2, <4>1 DEF Backups, IsFor
    <3> QED
      BY <3>1, <3>2
  <2> HIDE DEF p, lines
  <2>3. /\ Fields(mon') /\ mon'.pid = mon.pid /\ mon'.lines = lines
        /\ mon'.undone = mon.undone /\ mon'.patch = p
    BY <2>1 DEF Fields
  <2>4. UNCHANGED <<mem, cached, glitches, applied, store, lost>>
    BY <1>4 DEF MonitorTakes, game, tables
  <2> QED
    BY <1>1, <1>2, <2>2, <2>3, <2>4 DEF MonitorTypes, TableTypes
<1>5. CASE MonitorRestores
  <2> DEFINE rest == Tail(mon.lines)
             undone == mon.undone \cup {mon.patch}
  <2>1. mon' = [mon EXCEPT !.lines = rest, !.undone = undone]
    BY <1>5 DEF MonitorRestores
  <2>2. Head(mon.lines) \in Bytes /\ rest \in Seq(Bytes)
    <3>1. mon.lines \in Seq(Bytes) /\ mon.lines # <<>>
      BY <1>5 DEF MonitorRestores, MonitorTypes
    <3> QED
      BY <3>1, EndsTyped
  <2>3. mon.patch \in Patches /\ undone \subseteq Patches
    BY <1>5 DEF MonitorRestores, MonitorTypes
  <2> HIDE DEF rest, undone
  <2>4. /\ Fields(mon') /\ mon'.pid = mon.pid /\ mon'.lines = rest
        /\ mon'.undone = undone /\ mon'.patch = mon.patch
    BY <2>1 DEF Fields
  <2>5. UNCHANGED <<cached, glitches, applied, store, lost>> /\ PutBack(mon.pid, Head(mon.lines))
    BY <1>5 DEF MonitorRestores, tables
  <2>6. mem' \in [Memory -> Values]
    BY <1>2, <2>2, <2>5, AfterTyped DEF PutBack
  <2> QED
    BY <1>1, <2>2, <2>3, <2>4, <2>5, <2>6 DEF TableTypes
<1>6. CASE MonitorUnlocks \/ MonitorClears
  <2>1. \/ mon' = [mon EXCEPT !.pc = "clear", !.undone = {}]
        \/ mon' = [mon EXCEPT !.pc = "unmark"]
    BY <1>6 DEF MonitorUnlocks, MonitorClears
  <2>2. /\ Fields(mon') /\ mon'.pid = mon.pid /\ mon'.lines = mon.lines
        /\ mon'.undone \subseteq mon.undone /\ mon'.patch = mon.patch
    BY <2>1 DEF Fields
  <2>3. UNCHANGED <<mem, cached, glitches, applied>> /\ Clear
    BY <1>6 DEF MonitorUnlocks, MonitorClears, game
  <2> QED
    BY <1>1, <1>2, <2>2, <2>3, ClearTyped DEF MonitorTypes
<1>7. CASE MonitorUnmarks
  <2>1. /\ mon' = NoUndo /\ UNCHANGED <<mem, cached, glitches, store, lost>>
        /\ applied' \subseteq applied
    BY <1>7 DEF MonitorUnmarks, game
  <2>2. 0 \in Pids /\ <<>> \in Seq(Bytes)
    BY PatchAssumption DEF Pids
  <2> QED
    BY <1>2, <2>1, <2>2, NoUndoFacts DEF MonitorTypes, TableTypes
<1> QED
  BY <1>3, <1>4, <1>5, <1>6, <1>7 DEF Undo

LEMMA PatchTypesInit == Init => PatchTypes
<1> SUFFICES ASSUME Init PROVE PatchTypes
  OBVIOUS
<1>1. 0 \in Pids /\ 0 \in 0..Glitches /\ 0 <= Slots
  BY PatchAssumption DEF Pids
<1>2. GameTypes
  BY <1>1 DEF Init, GameTypes, Values
<1>3. JobTypes
  BY NoJobTyped DEF Init, JobTypes
<1>4. TableTypes
  BY <1>1 DEF Init, TableTypes
<1>5. MonitorTypes
  BY <1>1, NoUndoFacts DEF Init, MonitorTypes
<1> QED
  BY <1>2, <1>3, <1>4, <1>5 DEF PatchTypes

LEMMA PatchTypesStep == LockIInv /\ PatchTypes /\ [Next]_vars => PatchTypes'
<1> SUFFICES ASSUME LockIInv, PatchTypes, [Next]_vars PROVE PatchTypes'
  OBVIOUS
<1>1. GameTypes /\ JobTypes /\ TableTypes /\ MonitorTypes /\ Fields(mon)
  BY DEF PatchTypes, LockIInv, Control
<1>2. ASSUME UNCHANGED job PROVE JobTypes'
  BY <1>1, <1>2 DEF JobTypes, Pointed
<1>3. ASSUME UNCHANGED monitor PROVE MonitorTypes'
  BY <1>1, <1>3 DEF MonitorTypes, monitor
<1>4. ASSUME UNCHANGED <<gamePid, started, fault>>, mem' \in [Memory -> Values]
      PROVE  GameTypes'
  BY <1>1, <1>4 DEF GameTypes
<1>5. ASSUME UNCHANGED <<applied, store, lost>> PROVE TableTypes'
  BY <1>1, <1>5 DEF TableTypes
<1>6. CASE UNCHANGED vars
  BY <1>1, <1>2, <1>3, <1>4, <1>5, <1>6 DEF vars, game, tables, PatchTypes, GameTypes
<1>7. CASE StartGame \/ EndGame
  <2>1. GameTypes'
    <3>1. CASE StartGame
      <4>1. started + 1 \in Pids /\ started + 1 <= started + 1
        BY <1>1, <3>1, PatchAssumption DEF StartGame, GameTypes, Pids
      <4> QED
        BY <1>1, <3>1, <4>1 DEF StartGame, GameTypes
    <3>2. CASE EndGame
      <4>1. 0 \in Pids /\ 0 <= started
        BY <1>1, PatchAssumption DEF GameTypes, Pids
      <4>2. [c \in Memory |-> Original] \in [Memory -> Values]
        BY DEF Values
      <4> QED
        BY <1>1, <3>2, <4>1, <4>2 DEF EndGame, GameTypes
    <3> QED
      BY <1>7, <3>1, <3>2
  <2>2. UNCHANGED <<job, monitor, applied, store>> /\ lost' \subseteq lost
    BY <1>7 DEF StartGame, EndGame, tables
  <2> QED
    BY <1>1, <1>2, <1>3, <2>1, <2>2 DEF TableTypes, PatchTypes
<1>8. CASE Rescan
  <2>1. UNCHANGED <<game, job, monitor, store, lost>> /\ applied' = {}
    BY <1>8 DEF Rescan
  <2> QED
    BY <1>1, <1>2, <1>3, <1>4, <2>1 DEF TableTypes, GameTypes, game, PatchTypes
<1>9. CASE Poll
  <2>1. UNCHANGED <<game, job, applied, store, lost>>
    BY <1>9 DEF Poll, tables
  <2> QED
    BY <1>1, <1>2, <1>4, <1>5, <1>9, <2>1, PollTyped DEF GameTypes, game, PatchTypes
<1>10. CASE Undo
  <2>1. UNCHANGED <<gamePid, started, fault, job>>
    BY <1>10 DEF Undo, MonitorLooks, MonitorGivesUp, MonitorLocks, MonitorTakes,
      MonitorRestores, MonitorUnlocks, MonitorClears, MonitorUnmarks, game
  <2> QED
    BY <1>1, <1>2, <1>4, <1>10, <2>1, UndoTyped DEF PatchTypes
<1>11. ASSUME NEW t \in Threads, Work(t) PROVE PatchTypes'
  <2>1. UNCHANGED <<gamePid, started, fault, monitor>>
    BY <1>11 DEF Work, CopyBackup, AcquireLock, Probe, SkipLine, ReadFails, WriteBlock,
      WritesDone, Rollback, RestoreBlock, Unlock, StoreBackup, MarkApplied, DropBackup,
      MarkUnapplied, game
  <2> QED
    BY <1>1, <1>3, <1>4, <1>11, <2>1, JobsTyped, TablesTyped DEF PatchTypes
<1>12. ASSUME NEW t \in Threads, NEW p \in Patches, RequestApply(t, p) \/ RequestRestore(t, p)
       PROVE  PatchTypes'
  <2>1. UNCHANGED <<game, tables, monitor, lost>>
    BY <1>12 DEF RequestApply, RequestRestore
  <2>2. JobTypes'
    <3> DEFINE r(op) == [NoJob EXCEPT !.op = op, !.patch = p, !.pid = gamePid]
    <3>1. \E op \in {"apply", "restore"} : job' = [job EXCEPT ![t] = r(op)]
      BY <1>12 DEF RequestApply, RequestRestore
    <3>2. \A op \in {"apply", "restore"} :
            r(op) \in Jobs /\ r(op).line = 1 /\ r(op).part = 1 /\ r(op).patch = p
      <4>1. NoJob \in Jobs /\ NoJob.line = 1 /\ NoJob.part = 1 /\ gamePid \in Pids
        BY <1>1, NoJobTyped DEF NoJob, GameTypes
      <4> QED
        BY <4>1 DEF Jobs
    <3> HIDE DEF r
    <3>3. \A op \in {"apply", "restore"} : Pointed(r(op))
      BY <3>2, LineFacts DEF Pointed
    <3>4. PICK op \in {"apply", "restore"} : job' = [job EXCEPT ![t] = r(op)]
      BY <3>1
    <3>5. job'[t] = r(op)
      BY <1>1, <3>4 DEF JobTypes
    <3> QED
      BY <1>1, <3>2, <3>3, <3>4, <3>5, JobStep
  <2> QED
    BY <1>1, <1>3, <1>4, <1>5, <2>1, <2>2 DEF game, tables, GameTypes, PatchTypes
<1> QED
  BY <1>6, <1>7, <1>8, <1>9, <1>10, <1>11, <1>12 DEF Next

LockTyped == lock \in Threads \cup {Monitor, NoThread}

LEMMA LockTypedStep == LockTyped /\ [Next]_vars => LockTyped'
<1> SUFFICES ASSUME LockTyped, [Next]_vars PROVE LockTyped'
  OBVIOUS
<1>1. CASE UNCHANGED vars \/ StartGame \/ EndGame \/ Rescan \/ Poll
  BY <1>1 DEF LockTyped, vars, gate, StartGame, EndGame, Rescan, Poll
<1>2. CASE Undo
  BY <1>2 DEF LockTyped, gate, Undo, MonitorLooks, MonitorGivesUp, MonitorLocks, MonitorTakes,
    MonitorRestores, MonitorUnlocks, MonitorClears, MonitorUnmarks
<1>3. ASSUME NEW t \in Threads, Work(t) PROVE LockTyped'
  BY <1>3 DEF LockTyped, gate, Work, CopyBackup, AcquireLock, Probe, SkipLine, ReadFails,
    WriteBlock, WritesDone, Rollback, RestoreBlock, Unlock, StoreBackup, MarkApplied,
    DropBackup, MarkUnapplied
<1>4. ASSUME NEW t \in Threads, NEW p \in Patches, RequestApply(t, p) \/ RequestRestore(t, p)
      PROVE  LockTyped'
  BY <1>4 DEF LockTyped, gate, RequestApply, RequestRestore
<1> QED
  BY <1>1, <1>2, <1>3, <1>4 DEF Next

PatchIInv == LockIInv /\ LockTyped /\ PatchTypes

LEMMA PatchInvariant == Init /\ [][Next]_vars => []PatchIInv
<1>1. Init => PatchIInv
  BY LockInit, PatchTypesInit DEF PatchIInv, LockTyped, Init
<1>2. PatchIInv /\ [Next]_vars => PatchIInv'
  BY LockStep, LockTypedStep, PatchTypesStep DEF PatchIInv
<1> QED
  BY <1>1, <1>2, PTL

LEMMA PatchIInvMeansTypeOK == PatchIInv => TypeOK
<1> SUFFICES ASSUME PatchIInv PROVE TypeOK
  OBVIOUS
<1>1. GameTypes /\ JobTypes /\ TableTypes /\ MonitorTypes /\ Control /\ LockTyped
  BY DEF PatchIInv, PatchTypes, LockIInv
<1>2. ASSUME NEW i \in DOMAIN store
      PROVE  /\ store[i].patch \in Patches /\ store[i].pid \in Pids
             /\ IsSaved(store[i].lines)
  <2>1. store[i] \in Backups
    BY <1>1, LenProperties, ElementOfSeq DEF TableTypes
  <2> QED
    BY <2>1, SavedFacts DEF Backups
<1>3. ASSUME NEW t \in Threads
      PROVE  /\ job[t].op \in {"none", "apply", "restore"}
             /\ job[t].patch \in Patches /\ job[t].pid \in Pids
             /\ job[t].line \in Nat /\ job[t].part \in Nat /\ job[t].skipped \in Nat
             /\ job[t].failed \in BOOLEAN
             /\ IsSaved(job[t].saved) /\ job[t].before \in [Memory -> Values]
  <2>1. job[t] \in Jobs
    BY <1>1 DEF JobTypes
  <2> QED
    BY <2>1, SavedFacts DEF Jobs
<1>4. DOMAIN job = Threads
  BY <1>1 DEF JobTypes
<1>5. IsSaved(mon.lines)
  BY <1>1, SavedFacts DEF MonitorTypes
<1> QED
  BY <1>1, <1>2, <1>3, <1>4, <1>5 DEF TypeOK, GameTypes, TableTypes, MonitorTypes, Control,
    LockTyped

\* Every variable of the engine keeps its type, whatever the plans and the
\* layouts of the game; the store of backups never holds more than Slots.
THEOREM PatchTypeCorrect == Spec => []TypeOK
<1> QED
  BY PatchInvariant, PatchIInvMeansTypeOK, PTL DEF Spec

----------------------------------------------------------------------------
(* Processes and requests.                                                 *)

\* Nothing refers to a process that was never started, and without a process
\* no byte is changed.
Processes ==
  /\ \A t \in Threads : job[t].pid <= started
  /\ \A i \in 1..Len(store) : store[i].pid <= started
  /\ \A m \in applied : m[2] <= started
  /\ cached <= started /\ mon.pid <= started
  /\ gamePid = 0 => mem = [c \in Memory |-> Original]

\* Where a request can be, and an apply that has not written yet.
RequestAt(loc, j) ==
  /\ loc \in {"write", "rollback", "store", "mark"} => j.op = "apply"
  /\ loc \in {"copy", "putback", "remove", "unmark"} => j.op = "restore"
  /\ loc \in {"lock", "probe", "unlock"} => j.op \in {"apply", "restore"}
  /\ j.op = "apply" /\ loc \in {"lock", "probe"} => j.saved = <<>> /\ j.line = 1 /\ j.part = 1
  /\ loc \notin {"unlock", "rollback"} => ~j.failed

Requests == \A t \in Threads : RequestAt(pc[t], job[t])

\* A thread touches no other thread's request.
LEMMA OthersStay ==
  ASSUME PatchIInv, NEW t \in Threads, Work(t)
  PROVE  /\ \A u \in Threads \ {t} : pc'[u] = pc[u] /\ job'[u] = job[u]
         /\ UNCHANGED <<gamePid, started, fault, monitor>>
<1>1. job \in [Threads -> Jobs] /\ pc \in [Threads -> Locations]
  BY DEF PatchIInv, PatchTypes, JobTypes, LockIInv, Control
<1>2. UNCHANGED <<gamePid, started, fault, monitor>>
  BY DEF Work, CopyBackup, AcquireLock, Probe, SkipLine, ReadFails, WriteBlock,
    WritesDone, Rollback, RestoreBlock, Unlock, StoreBackup, MarkApplied, DropBackup,
    MarkUnapplied, game
<1>3. /\ UNCHANGED pc \/ \E loc : pc' = [pc EXCEPT ![t] = loc]
      /\ UNCHANGED job \/ job' = [job EXCEPT ![t] = job'[t]]
  <2>1. CASE CopyBackup(t) \/ Probe(t)
    BY <1>1, <2>1 DEF CopyBackup, Probe, Go, Finish
  <2>2. CASE SkipLine(t) \/ ReadFails(t) \/ WritesDone(t) \/ Rollback(t) \/ RestoreBlock(t)
    BY <1>1, <2>2 DEF SkipLine, ReadFails, WritesDone, Rollback, RestoreBlock, Go
  <2>3. CASE WriteBlock(t)
    <3>1. \/ job' = [job EXCEPT ![t] = Advance([job[t] EXCEPT !.saved = Append(@, Backup(WriteOf(t)))])]
          \/ job' = [job EXCEPT ![t] = [[job[t] EXCEPT !.saved = Append(@, Backup(WriteOf(t)))]
                                          EXCEPT !.failed = TRUE]]
      BY <2>3 DEF WriteBlock
    <3>2. job' = [job EXCEPT ![t] = job'[t]]
      BY <1>1, <3>1
    <3> QED
      BY <2>3, <3>2 DEF WriteBlock, Go
  <2>4. CASE Unlock(t) \/ MarkApplied(t) \/ MarkUnapplied(t)
    BY <1>1, <2>4 DEF Unlock, MarkApplied, MarkUnapplied, Go, Finish
  <2>5. CASE AcquireLock(t) \/ StoreBackup(t) \/ DropBackup(t)
    BY <2>5 DEF AcquireLock, StoreBackup, DropBackup, Go
  <2> QED
    BY <2>1, <2>2, <2>3, <2>4, <2>5 DEF Work
<1> QED
  BY <1>1, <1>2, <1>3

Same(j, k) == k.op = j.op /\ k.patch = j.patch /\ k.pid = j.pid

\* What the steps of a request do to it, field by field.
LEMMA JobFacts ==
  ASSUME PatchIInv, NEW t \in Threads
  PROVE  /\ job[t] \in Jobs /\ DOMAIN job = Threads /\ Pointed(job[t])
         /\ job[t].patch \in Patches /\ job[t].saved \in Seq(Bytes)
         /\ job[t].failed \in BOOLEAN /\ job[t].before \in [Memory -> Values]
         /\ job[t].line \in Nat \ {0} /\ job[t].part \in Nat \ {0} /\ job[t].pid \in Pids
         /\ pc \in [Threads -> Locations] /\ mem \in [Memory -> Values]
BY DEF PatchIInv, PatchTypes, JobTypes, GameTypes, LockIInv, Control, Jobs

LEMMA CopyFacts ==
  ASSUME PatchIInv, NEW t \in Threads, CopyBackup(t)
  PROVE  \/ pc'[t] = "idle" /\ job'[t] = NoJob /\ SlotOf(job[t].patch, job[t].pid) = {}
         \/ /\ pc'[t] = "lock" /\ Same(job[t], job'[t]) /\ job'[t].failed = job[t].failed
            /\ \E i \in 1..Len(store) : /\ IsFor(store[i], job[t].patch, job[t].pid)
                                        /\ job'[t].saved = store[i].lines
<1> USE JobFacts
<1> DEFINE slots == SlotOf(job[t].patch, job[t].pid)
           i == CHOOSE i \in slots : \A j \in slots : i <= j
<1>1. CASE slots = {} /\ Finish(t)
  BY <1>1 DEF Finish, Go
<1>2. CASE slots # {} /\ job' = [job EXCEPT ![t].saved = store[i].lines] /\ Go(t, "lock")
  <2>1. i \in 1..Len(store) /\ IsFor(store[i], job[t].patch, job[t].pid)
    BY <1>2, FirstSlot DEF PatchIInv, PatchTypes
  <2> HIDE DEF slots, i
  <2>2. /\ pc'[t] = "lock" /\ Same(job[t], job'[t]) /\ job'[t].failed = job[t].failed
        /\ job'[t].saved = store[i].lines
    BY <1>2 DEF Go, Same, Jobs
  <2> QED
    BY <2>1, <2>2
<1> QED
  BY <1>1, <1>2 DEF CopyBackup

LEMMA ProbeFacts ==
  ASSUME PatchIInv, NEW t \in Threads, Probe(t)
  PROVE  /\ Same(job[t], job'[t]) /\ job'[t].before = mem /\ job'[t].saved = job[t].saved
         /\ job'[t].line = job[t].line /\ job'[t].part = job[t].part
         /\ \/ pc'[t] = "unlock" /\ job'[t].failed /\ (~Alive(t) \/ job[t].op = "apply")
            \/ /\ Alive(t) /\ job'[t].failed = job[t].failed
               /\ pc'[t] = IF job[t].op = "apply" THEN "write" ELSE "putback"
BY JobFacts DEF Probe, Go, Same, Jobs

LEMMA SkipFacts ==
  ASSUME PatchIInv, NEW t \in Threads, SkipLine(t)
  PROVE  /\ Same(job[t], job'[t]) /\ job'[t].before = job[t].before
         /\ job'[t].saved = job[t].saved /\ job'[t].failed = job[t].failed
         /\ job'[t].line = job[t].line + 1 /\ job'[t].part = job[t].part /\ job[t].part = 1
BY JobFacts DEF SkipLine, CanWrite, Same, Jobs

LEMMA FailFacts ==
  ASSUME PatchIInv, NEW t \in Threads, ReadFails(t) \/ WritesDone(t)
  PROVE  /\ Same(job[t], job'[t]) /\ job'[t].before = job[t].before
         /\ job'[t].saved = job[t].saved
         /\ \/ pc'[t] = "rollback" /\ job'[t].failed
            \/ pc'[t] = "unlock" /\ job'[t] = job[t]
<1> USE JobFacts
<1>1. \/ job' = [job EXCEPT ![t].failed = TRUE] /\ Go(t, "rollback")
      \/ UNCHANGED job /\ Go(t, "unlock")
  BY DEF ReadFails, WritesDone
<1> QED
  BY <1>1 DEF Go, Same, Jobs

LEMMA WriteFacts ==
  ASSUME PatchIInv, NEW t \in Threads, WriteBlock(t)
  PROVE  /\ Same(job[t], job'[t]) /\ job'[t].before = job[t].before
         /\ job'[t].saved = Append(job[t].saved, Backup(WriteOf(t)))
         /\ mem' = After(WriteOf(t)) /\ Alive(t)
         /\ \/ /\ pc' = pc /\ job'[t].failed = job[t].failed
               /\ \/ /\ job[t].part < Len(Writes(LineOf(t)))
                     /\ job'[t].line = job[t].line /\ job'[t].part = job[t].part + 1
                  \/ /\ ~(job[t].part < Len(Writes(LineOf(t))))
                     /\ job'[t].line = job[t].line + 1 /\ job'[t].part = 1
            \/ pc'[t] = "rollback" /\ job'[t].failed
<1> USE JobFacts
<1> DEFINE more == Append(job[t].saved, Backup(WriteOf(t)))
           saving == [job[t] EXCEPT !.saved = more]
<1>1. /\ mem' = After(WriteOf(t)) /\ Alive(t)
      /\ \/ job' = [job EXCEPT ![t] = Advance(saving)] /\ pc' = pc
         \/ job' = [job EXCEPT ![t] = [saving EXCEPT !.failed = TRUE]] /\ Go(t, "rollback")
  BY DEF WriteBlock
<1> HIDE DEF more
<1>2. /\ saving.op = job[t].op /\ saving.patch = job[t].patch /\ saving.pid = job[t].pid
      /\ saving.before = job[t].before /\ saving.saved = more /\ saving.failed = job[t].failed
      /\ saving.line = job[t].line /\ saving.part = job[t].part
      /\ saving = [op |-> saving.op, patch |-> saving.patch, pid |-> saving.pid,
                   line |-> saving.line, part |-> saving.part, skipped |-> saving.skipped,
                   saved |-> saving.saved, failed |-> saving.failed, before |-> saving.before]
  BY DEF Jobs
<1> HIDE DEF saving
<1>3. CASE job' = [job EXCEPT ![t] = Advance(saving)] /\ pc' = pc
  <2>1. job'[t] = Advance(saving)
    BY <1>3
  <2> DEFINE here == Len(Writes(LineOf(t)))
  <2>2. Advance(saving) = IF saving.part < here THEN [saving EXCEPT !.part = @ + 1]
                          ELSE [saving EXCEPT !.line = @ + 1, !.part = 1]
    BY <1>2 DEF Advance, LineOf
  <2> HIDE DEF here
  <2>3. CASE saving.part < here
    <3>1. job'[t] = [saving EXCEPT !.part = @ + 1]
      BY <2>1, <2>2, <2>3
    <3> QED
      BY <1>1, <1>2, <1>3, <2>3, <3>1 DEF Same, more, here
  <2>4. CASE ~(saving.part < here)
    <3> DEFINE n == saving.line + 1
               one == 1
    <3>1. job'[t] = [saving EXCEPT !.line = n, !.part = one]
      BY <2>1, <2>2, <2>4
    <3> HIDE DEF n, one
    <3>2. /\ Same(saving, job'[t]) /\ job'[t].before = saving.before
          /\ job'[t].saved = saving.saved /\ job'[t].failed = saving.failed
          /\ job'[t].line = n /\ job'[t].part = one
      BY <1>2, <3>1 DEF Same
    <3> QED
      BY <1>1, <1>2, <1>3, <2>4, <3>2 DEF Same, more, here, n, one
  <2> QED
    BY <2>3, <2>4
<1>4. CASE job' = [job EXCEPT ![t] = [saving EXCEPT !.failed = TRUE]] /\ Go(t, "rollback")
  <2>1. job'[t] = [saving EXCEPT !.failed = TRUE]
    BY <1>4
  <2> QED
    BY <1>1, <1>2, <1>4, <2>1 DEF Same, Go, more
<1> QED
  BY <1>1, <1>3, <1>4

LEMMA PutFacts ==
  ASSUME PatchIInv, NEW t \in Threads, Rollback(t) \/ RestoreBlock(t)
  PROVE  /\ Same(job[t], job'[t]) /\ job'[t].before = job[t].before
         /\ job'[t].failed = job[t].failed
         /\ \/ /\ job[t].saved # <<>> /\ pc' = pc
               /\ \/ /\ Rollback(t) /\ job'[t].saved = Front(job[t].saved)
                     /\ PutBack(job[t].pid, Last(job[t].saved))
                  \/ /\ RestoreBlock(t) /\ job'[t].saved = Tail(job[t].saved)
                     /\ PutBack(job[t].pid, Head(job[t].saved))
            \/ job[t].saved = <<>> /\ UNCHANGED <<mem, job>> /\ pc'[t] = "unlock"
<1> USE JobFacts
<1>1. CASE job[t].saved # <<>>
  <2>1. pc' = pc
    BY <1>1 DEF Rollback, RestoreBlock
  <2>2. \E s : job' = [job EXCEPT ![t].saved = s]
    BY <1>1 DEF Rollback, RestoreBlock
  <2>3. /\ Same(job[t], job'[t]) /\ job'[t].before = job[t].before
        /\ job'[t].failed = job[t].failed
    BY <2>2 DEF Same, Jobs
  <2>4. CASE Rollback(t)
    <3>1. /\ job' = [job EXCEPT ![t].saved = Front(job[t].saved)]
          /\ PutBack(job[t].pid, Last(job[t].saved))
      BY <1>1, <2>4 DEF Rollback
    <3>2. job'[t].saved = Front(job[t].saved)
      BY <3>1 DEF Jobs
    <3> QED
      BY <1>1, <2>1, <2>3, <2>4, <3>1, <3>2
  <2>5. CASE RestoreBlock(t)
    <3>1. /\ job' = [job EXCEPT ![t].saved = Tail(job[t].saved)]
          /\ PutBack(job[t].pid, Head(job[t].saved))
      BY <1>1, <2>5 DEF RestoreBlock
    <3>2. job'[t].saved = Tail(job[t].saved)
      BY <3>1 DEF Jobs
    <3> QED
      BY <1>1, <2>1, <2>3, <2>5, <3>1, <3>2
  <2> QED
    BY <2>4, <2>5
<1>2. CASE job[t].saved = <<>>
  BY <1>2 DEF Rollback, RestoreBlock, Go, Same
<1> QED
  BY <1>1, <1>2

LEMMA LeaveFacts ==
  ASSUME PatchIInv, NEW t \in Threads, Unlock(t)
  PROVE  \/ pc'[t] = "idle" /\ job'[t] = NoJob /\ job[t].failed
         \/ /\ UNCHANGED job /\ ~job[t].failed
            /\ pc'[t] = IF job[t].op = "apply" THEN "store" ELSE "remove"
BY JobFacts DEF Unlock, Finish, Go

LEMMA RequestFacts ==
  ASSUME PatchIInv, NEW t \in Threads, NEW p \in Patches, RequestApply(t, p) \/ RequestRestore(t, p)
  PROVE  /\ \A u \in Threads \ {t} : pc'[u] = pc[u] /\ job'[u] = job[u]
         /\ pc[t] = "idle" /\ gamePid # 0 /\ Allowed(p)
         /\ job'[t].patch = p /\ job'[t].pid = gamePid /\ job'[t].saved = <<>>
         /\ job'[t].line = 1 /\ job'[t].part = 1 /\ job'[t].failed = FALSE
         /\ \/ RequestApply(t, p) /\ pc'[t] = "lock" /\ job'[t].op = "apply" /\ Fresh(p)
            \/ /\ RequestRestore(t, p) /\ pc'[t] = "copy" /\ job'[t].op = "restore"
               /\ <<p, gamePid>> \in applied
         /\ UNCHANGED <<game, gate, tables, monitor, lost>>
<1> USE JobFacts
<1> DEFINE r(op) == [NoJob EXCEPT !.op = op, !.patch = p, !.pid = gamePid]
<1>1. \A op : /\ r(op).op = op /\ r(op).patch = p /\ r(op).pid = gamePid
              /\ r(op).saved = <<>> /\ r(op).line = 1 /\ r(op).part = 1 /\ r(op).failed = FALSE
  BY DEF NoJob
<1> HIDE DEF r
<1>2. /\ pc[t] = "idle" /\ gamePid # 0 /\ Allowed(p)
      /\ UNCHANGED <<game, gate, tables, monitor, lost>>
  BY DEF RequestApply, RequestRestore
<1>3. \/ /\ RequestApply(t, p) /\ pc' = [pc EXCEPT ![t] = "lock"] /\ Fresh(p)
         /\ job' = [job EXCEPT ![t] = r("apply")]
      \/ /\ RequestRestore(t, p) /\ pc' = [pc EXCEPT ![t] = "copy"]
         /\ <<p, gamePid>> \in applied
         /\ job' = [job EXCEPT ![t] = r("restore")]
  BY DEF RequestApply, RequestRestore, Go, r
<1> QED
  BY <1>1, <1>2, <1>3

\* Bytes change in a living process only.
LEMMA MemoryStays ==
  ASSUME PatchIInv, gamePid = 0, (\E t \in Threads : Work(t)) \/ Undo
  PROVE  UNCHANGED mem
<1>1. \A pid : ~Runs(pid)
  BY DEF Runs
<1>2. ASSUME NEW t \in Threads, Work(t) PROVE UNCHANGED mem
  BY <1>1, <1>2 DEF Work, CopyBackup, AcquireLock, Probe, SkipLine, ReadFails, WriteBlock,
    WritesDone, Rollback, RestoreBlock, Unlock, StoreBackup, MarkApplied, DropBackup,
    MarkUnapplied, game, Alive, PutBack
<1>3. CASE Undo
  BY <1>1, <1>3 DEF Undo, MonitorLooks, MonitorGivesUp, MonitorLocks, MonitorTakes,
    MonitorRestores, MonitorUnlocks, MonitorClears, MonitorUnmarks, game, PutBack
<1> QED
  BY <1>2, <1>3

\* The records of the store come from the store, or are a request's backup.
LEMMA StoreSteps ==
  ASSUME PatchIInv, [Next]_vars, NEW k \in 1..Len(store')
  PROVE  \/ \E l \in 1..Len(store) : store'[k] = store[l]
         \/ \E t \in Threads : /\ StoreBackup(t)
                               /\ store'[k] = [patch |-> job[t].patch, pid |-> job[t].pid,
                                               lines |-> job[t].saved]
<1> USE DEF PatchIInv, PatchTypes
<1>1. CASE UNCHANGED store
  BY <1>1
<1>2. CASE Clear
  BY <1>2, ClearFacts DEF Clear, Keeps
<1>3. ASSUME NEW t \in Threads, StoreBackup(t)
      PROVE  \/ \E l \in 1..Len(store) : store'[k] = store[l]
             \/ store'[k] = [patch |-> job[t].patch, pid |-> job[t].pid, lines |-> job[t].saved]
  <2> DEFINE rec == [patch |-> job[t].patch, pid |-> job[t].pid, lines |-> job[t].saved]
  <2>1. rec \in Backups
    BY JobFacts DEF Backups
  <2>2. store' = Stored(rec, SlotOf(rec.patch, rec.pid))
    BY <1>3 DEF StoreBackup
  <2> HIDE DEF rec
  <2>3. store'[k] = rec \/ \E l \in 1..Len(store) : store'[k] = store[l]
    BY <2>1, <2>2, StoredFacts
  <2> QED
    BY <2>3 DEF rec
<1>4. ASSUME NEW t \in Threads, DropBackup(t) PROVE \E l \in 1..Len(store) : store'[k] = store[l]
  <2>1. store' = RemoveBackup(job[t].patch, job[t].pid)
    BY <1>4 DEF DropBackup
  <2> QED
    BY <2>1, RemoveBackupFacts
<1>5. \/ UNCHANGED store \/ Clear \/ \E t \in Threads : StoreBackup(t) \/ DropBackup(t)
  <2>1. CASE UNCHANGED vars \/ StartGame \/ EndGame \/ Rescan \/ Poll
    BY <2>1 DEF vars, tables, StartGame, EndGame, Rescan, Poll
  <2>2. CASE Undo
    BY <2>2 DEF Undo, tables, MonitorLooks, MonitorGivesUp, MonitorLocks, MonitorTakes,
      MonitorRestores, MonitorUnlocks, MonitorClears, MonitorUnmarks
  <2>3. ASSUME NEW t \in Threads, Work(t) PROVE UNCHANGED store \/ StoreBackup(t) \/ DropBackup(t)
    BY <2>3 DEF Work, tables, CopyBackup, AcquireLock, Probe, SkipLine, ReadFails, WriteBlock,
      WritesDone, Rollback, RestoreBlock, Unlock, MarkApplied, MarkUnapplied
  <2>4. ASSUME NEW t \in Threads, NEW p \in Patches, RequestApply(t, p) \/ RequestRestore(t, p)
        PROVE  UNCHANGED store
    BY <2>4 DEF RequestApply, RequestRestore, tables
  <2> QED
    BY <2>1, <2>2, <2>3, <2>4 DEF Next
<1> QED
  BY <1>1, <1>2, <1>3, <1>4, <1>5

\* A step of a request leaves it, or keeps what it asks for.
LEMMA WorkFacts ==
  ASSUME PatchIInv, NEW t \in Threads, Work(t)
  PROVE  \/ pc'[t] = "idle" /\ job'[t] = NoJob
         \/ pc'[t] # "idle" /\ Same(job[t], job'[t])
<1> USE JobFacts
<1>1. CASE CopyBackup(t)
  BY <1>1, CopyFacts
<1>2. CASE Probe(t)
  BY <1>2, ProbeFacts
<1>3. CASE SkipLine(t)
  BY <1>3, SkipFacts DEF SkipLine
<1>4. CASE ReadFails(t) \/ WritesDone(t)
  BY <1>4, FailFacts
<1>5. CASE WriteBlock(t)
  BY <1>5, WriteFacts DEF WriteBlock
<1>6. CASE Rollback(t) \/ RestoreBlock(t)
  BY <1>6, PutFacts DEF Rollback, RestoreBlock
<1>7. CASE Unlock(t)
  BY <1>7, LeaveFacts DEF Same
<1>8. CASE AcquireLock(t) \/ StoreBackup(t) \/ DropBackup(t)
  BY <1>8 DEF AcquireLock, StoreBackup, DropBackup, Go, Same
<1>9. CASE MarkApplied(t) \/ MarkUnapplied(t)
  BY <1>9 DEF MarkApplied, MarkUnapplied, Finish, Go
<1> QED
  BY <1>1, <1>2, <1>3, <1>4, <1>5, <1>6, <1>7, <1>8, <1>9 DEF Work

LEMMA ProcessesStep == PatchIInv /\ Processes /\ [Next]_vars => Processes'
<1> SUFFICES ASSUME PatchIInv, Processes, [Next]_vars PROVE Processes'
  OBVIOUS
<1>1. /\ gamePid \in Nat /\ started \in Nat /\ gamePid <= started
      /\ mon.pid \in Nat /\ cached \in Nat /\ Fields(mon)
      /\ \A t \in Threads : job[t].pid \in Nat
  BY JobFacts, PatchAssumption DEF PatchIInv, PatchTypes, GameTypes, MonitorTypes, LockIInv,
    Control, Pids
<1>2. started' \in Nat /\ started <= started'
  <2>1. CASE StartGame
    BY <1>1, <2>1 DEF StartGame
  <2>2. CASE UNCHANGED vars \/ EndGame \/ Rescan \/ Poll
    BY <1>1, <2>2 DEF vars, game, EndGame, Rescan, Poll
  <2>3. CASE Undo
    BY <1>1, <2>3 DEF game, Undo, MonitorLooks, MonitorGivesUp, MonitorLocks, MonitorTakes,
      MonitorRestores, MonitorUnlocks, MonitorClears, MonitorUnmarks
  <2>4. CASE \E t \in Threads : Work(t)
    BY <1>1, <2>4, OthersStay
  <2>5. CASE \E t \in Threads, p \in Patches : RequestApply(t, p) \/ RequestRestore(t, p)
    BY <1>1, <2>5 DEF game, RequestApply, RequestRestore
  <2> QED
    BY <2>1, <2>2, <2>3, <2>4, <2>5 DEF Next
<1>3. \A i \in 1..Len(store) : store[i].pid \in Nat
  <2>1. \A i \in 1..Len(store) : store[i] \in Backups
    BY ElementOfSeq DEF PatchIInv, PatchTypes, TableTypes
  <2> QED
    BY <2>1, PatchAssumption DEF Backups, Pids
<1>4. \A m \in applied : m[2] \in Nat
  BY PatchAssumption DEF PatchIInv, PatchTypes, TableTypes, Pids
<1>5. ASSUME NEW i \in 1..Len(store') PROVE store'[i].pid <= started'
  <2>1. CASE \E l \in 1..Len(store) : store'[i] = store[l]
    BY <1>1, <1>2, <1>3, <2>1 DEF Processes
  <2>2. CASE \E t \in Threads : store'[i] = [patch |-> job[t].patch, pid |-> job[t].pid,
                                             lines |-> job[t].saved]
    BY <1>1, <1>2, <2>2 DEF Processes
  <2> QED
    BY <2>1, <2>2, StoreSteps
<1>6. ASSUME \A t \in Threads : job'[t].pid <= started', \A m \in applied' : m[2] <= started',
             cached' <= started', mon'.pid <= started',
             gamePid' = 0 => mem' = [c \in Memory |-> Original]
      PROVE  Processes'
  BY <1>5, <1>6 DEF Processes
<1>7. ASSUME UNCHANGED job PROVE \A t \in Threads : job'[t].pid <= started'
  BY <1>1, <1>2, <1>7 DEF Processes
<1>8. ASSUME applied' \subseteq applied PROVE \A m \in applied' : m[2] <= started'
  BY <1>1, <1>2, <1>4, <1>8 DEF Processes
<1>9. ASSUME UNCHANGED monitor PROVE cached' <= started' /\ mon'.pid <= started'
  BY <1>1, <1>2, <1>9 DEF Processes, monitor
<1>10. CASE UNCHANGED vars \/ Rescan
  <2>1. UNCHANGED <<gamePid, mem, job, monitor>> /\ applied' \subseteq applied
    BY <1>10 DEF vars, game, tables, Rescan
  <2> QED
    BY <1>6, <1>7, <1>8, <1>9, <2>1 DEF Processes
<1>11. CASE StartGame \/ EndGame
  <2>1. UNCHANGED <<applied, job, monitor>>
    BY <1>11 DEF StartGame, EndGame, tables
  <2>2. gamePid' = 0 => mem' = [c \in Memory |-> Original]
    BY <1>1, <1>11 DEF StartGame, EndGame
  <2> QED
    BY <1>6, <1>7, <1>8, <1>9, <2>1, <2>2
<1>12. CASE Poll
  <2>1. cached' \in {gamePid, 0} /\ UNCHANGED <<gamePid, started, mem, applied, job>>
    BY <1>12 DEF Poll, game, tables
  <2>2. mon'.pid \in {mon.pid, cached}
    <3>1. NoUndo = [NoUndo EXCEPT !.pid = NoUndo.pid] /\ [NoUndo EXCEPT !.pc = "stopped", !.pid = cached].pid = cached
      BY DEF NoUndo
    <3> QED
      BY <1>12, <3>1 DEF Poll
  <2>3. cached' <= started' /\ mon'.pid <= started'
    BY <1>1, <1>2, <2>1, <2>2 DEF Processes
  <2> QED
    BY <1>6, <1>7, <1>8, <2>1, <2>3 DEF Processes
<1>13. CASE Undo
  <2>1. UNCHANGED <<gamePid, job, cached>> /\ applied' \subseteq applied
    BY <1>13 DEF Undo, MonitorLooks, MonitorGivesUp, MonitorLocks, MonitorTakes,
      MonitorRestores, MonitorUnlocks, MonitorClears, MonitorUnmarks, game, tables
  <2>2. mon'.pid \in {mon.pid, 0}
    <3>1. CASE MonitorUnmarks
      BY <3>1, NoUndoFacts DEF MonitorUnmarks
    <3>2. CASE MonitorLooks \/ MonitorGivesUp \/ MonitorLocks \/ MonitorTakes
      BY <1>1, <3>2 DEF MonitorLooks, MonitorGivesUp, MonitorLocks, MonitorTakes, Fields
    <3>3. CASE MonitorRestores \/ MonitorUnlocks \/ MonitorClears
      BY <1>1, <3>3 DEF MonitorRestores, MonitorUnlocks, MonitorClears, Fields
    <3> QED
      BY <1>13, <3>1, <3>2, <3>3 DEF Undo
  <2>3. cached' <= started' /\ mon'.pid <= started'
    BY <1>1, <1>2, <2>1, <2>2 DEF Processes
  <2>4. gamePid' = 0 => mem' = [c \in Memory |-> Original]
    BY <1>13, <2>1, MemoryStays DEF Processes
  <2> QED
    BY <1>6, <1>7, <1>8, <2>1, <2>3, <2>4
<1>14. ASSUME NEW t \in Threads, Work(t) PROVE Processes'
  <2>1. job'[t].pid \in {job[t].pid, 0}
    <3>1. NoJob.pid = 0
      BY DEF NoJob
    <3> QED
      BY <1>14, <3>1, WorkFacts DEF Same
  <2>2. UNCHANGED <<gamePid, started, monitor>>
        /\ \A u \in Threads \ {t} : job'[u] = job[u]
    BY <1>14, OthersStay
  <2>3. \A u \in Threads : job'[u].pid <= started'
    BY <1>1, <1>2, <2>1, <2>2 DEF Processes
  <2>4. gamePid' = 0 => mem' = [c \in Memory |-> Original]
    BY <1>14, <2>2, MemoryStays DEF Processes
  <2>5. applied' \subseteq applied \cup {<<job[t].patch, job[t].pid>>}
    BY <1>14 DEF Work, CopyBackup, AcquireLock, Probe, SkipLine, ReadFails, WriteBlock,
      WritesDone, Rollback, RestoreBlock, Unlock, StoreBackup, MarkApplied, DropBackup,
      MarkUnapplied, tables
  <2>6. \A m \in applied' : m[2] <= started'
    BY <1>1, <1>2, <1>4, <2>5 DEF Processes
  <2> QED
    BY <1>6, <1>9, <2>2, <2>3, <2>4, <2>6
<1>15. ASSUME NEW t \in Threads, NEW p \in Patches, RequestApply(t, p) \/ RequestRestore(t, p)
       PROVE  Processes'
  <2>1. /\ job'[t].pid = gamePid /\ \A u \in Threads \ {t} : job'[u] = job[u]
        /\ UNCHANGED <<game, tables, monitor>>
    BY <1>15, RequestFacts
  <2>2. UNCHANGED <<gamePid, started, mem, applied>>
    BY <2>1 DEF game, tables
  <2>3. \A u \in Threads : job'[u].pid <= started'
    BY <1>1, <1>2, <2>1, <2>2 DEF Processes
  <2> QED
    BY <1>6, <1>8, <1>9, <2>1, <2>2, <2>3 DEF Processes
<1> QED
  BY <1>10, <1>11, <1>12, <1>13, <1>14, <1>15 DEF Next

LEMMA RequestsStep == PatchIInv /\ Requests /\ [Next]_vars => Requests'
<1> SUFFICES ASSUME PatchIInv, Requests, [Next]_vars PROVE Requests'
  OBVIOUS
<1> USE JobFacts
<1>1. ASSUME UNCHANGED <<pc, job>> PROVE Requests'
  BY <1>1 DEF Requests
<1>2. ASSUME NEW t \in Threads, Work(t) PROVE RequestAt(pc'[t], job'[t])
  <2>1. RequestAt(pc[t], job[t])
    BY DEF Requests
  <2>2. CASE pc'[t] = "idle" /\ job'[t] = NoJob
    BY <2>2 DEF RequestAt, NoJob
  <2> USE DEF RequestAt, Same
  <2>3. CASE CopyBackup(t) /\ pc'[t] # "idle"
    BY <2>1, <2>3, CopyFacts DEF CopyBackup
  <2>4. CASE AcquireLock(t)
    BY <2>1, <2>4 DEF AcquireLock, Go
  <2>5. CASE Probe(t)
    <3>1. pc[t] = "probe" /\ job[t].op \in {"apply", "restore"} /\ ~job[t].failed
      BY <2>1, <2>5 DEF Probe
    <3> QED
      BY <2>1, <2>5, <3>1, ProbeFacts
  <2>6. CASE SkipLine(t)
    BY <2>1, <2>6, SkipFacts DEF SkipLine
  <2>7. CASE ReadFails(t) \/ WritesDone(t)
    BY <2>1, <2>7, FailFacts DEF ReadFails, WritesDone
  <2>8. CASE WriteBlock(t)
    BY <2>1, <2>8, WriteFacts DEF WriteBlock
  <2>9. CASE Rollback(t) \/ RestoreBlock(t)
    <3>1. pc[t] \in {"rollback", "putback"}
      BY <2>9 DEF Rollback, RestoreBlock
    <3> QED
      BY <2>1, <2>9, <3>1, PutFacts
  <2>10. CASE Unlock(t) /\ pc'[t] # "idle"
    BY <2>1, <2>10, LeaveFacts DEF Unlock
  <2>11. CASE StoreBackup(t) \/ DropBackup(t)
    BY <2>1, <2>11 DEF StoreBackup, DropBackup, Go
  <2>12. CASE MarkApplied(t) \/ MarkUnapplied(t)
    BY <2>2, <2>12 DEF MarkApplied, MarkUnapplied, Finish, Go
  <2> QED
    BY <1>2, <2>2, <2>3, <2>4, <2>5, <2>6, <2>7, <2>8, <2>9, <2>10, <2>11, <2>12, WorkFacts DEF Work
<1>3. ASSUME NEW t \in Threads, Work(t) PROVE Requests'
  BY <1>2, <1>3, OthersStay DEF Requests
<1>4. ASSUME NEW t \in Threads, NEW p \in Patches, RequestApply(t, p) \/ RequestRestore(t, p)
      PROVE  Requests'
  <2>1. RequestAt(pc'[t], job'[t])
    BY <1>4, RequestFacts DEF RequestAt
  <2>2. \A u \in Threads \ {t} : pc'[u] = pc[u] /\ job'[u] = job[u]
    BY <1>4, RequestFacts
  <2> QED
    BY <2>1, <2>2 DEF Requests
<1>5. CASE UNCHANGED vars \/ StartGame \/ EndGame \/ Rescan \/ Poll \/ Undo
  <2>1. UNCHANGED <<pc, job>>
    BY <1>5 DEF vars, StartGame, EndGame, Rescan, Poll, Undo, MonitorLooks, MonitorGivesUp,
      MonitorLocks, MonitorTakes, MonitorRestores, MonitorUnlocks, MonitorClears, MonitorUnmarks
  <2> QED
    BY <1>1, <2>1
<1> QED
  BY <1>3, <1>4, <1>5 DEF Next

\* A step that is no start and no end of the game leaves the living processes.
LEMMA StillAlive ==
  ASSUME PatchIInv, [Next]_vars, ~StartGame, ~EndGame
  PROVE  UNCHANGED <<gamePid, started, fault>>
<1>1. CASE UNCHANGED vars \/ Rescan \/ Poll \/ Undo
  BY <1>1 DEF vars, game, Rescan, Poll, Undo, MonitorLooks, MonitorGivesUp,
    MonitorLocks, MonitorTakes, MonitorRestores, MonitorUnlocks, MonitorClears, MonitorUnmarks
<1>2. ASSUME NEW t \in Threads, Work(t) PROVE UNCHANGED <<gamePid, started, fault>>
  BY <1>2, OthersStay
<1>3. ASSUME NEW t \in Threads, NEW p \in Patches, RequestApply(t, p) \/ RequestRestore(t, p)
      PROVE  UNCHANGED <<gamePid, started, fault>>
  BY <1>3, RequestFacts DEF game
<1> QED
  BY <1>1, <1>2, <1>3 DEF Next

\* A process that is started is new, and one that has ended never runs again.
LEMMA OldProcesses ==
  ASSUME PatchIInv, Processes, StartGame \/ EndGame, NEW pid \in Nat, pid <= started
  PROVE  ~(gamePid' # 0 /\ gamePid' = pid)
<1>1. started \in Nat
  BY PatchAssumption DEF PatchIInv, PatchTypes, GameTypes, Pids
<1> QED
  BY <1>1 DEF StartGame, EndGame

\* Only the holder of the lock writes to the game.
LEMMA WriterHolds ==
  ASSUME PatchIInv, [Next]_vars, ~StartGame, ~EndGame, mem' # mem
  PROVE  \/ \E t \in Threads : /\ pc[t] \in Locked /\ lock = t
                               /\ WriteBlock(t) \/ Rollback(t) \/ RestoreBlock(t)
         \/ MonitorRestores /\ lock = Monitor
<1>1. ASSUME NEW t \in Threads, Work(t)
      PROVE  pc[t] \in Locked /\ (WriteBlock(t) \/ Rollback(t) \/ RestoreBlock(t))
  BY <1>1 DEF Work, game, CopyBackup, AcquireLock, Probe, SkipLine, ReadFails, WriteBlock,
    WritesDone, Rollback, RestoreBlock, Unlock, StoreBackup, MarkApplied, DropBackup,
    MarkUnapplied, Locked
<1>2. CASE Undo
  <2>1. MonitorRestores
    BY <1>2 DEF game, Undo, MonitorLooks, MonitorGivesUp, MonitorLocks, MonitorTakes,
      MonitorUnlocks, MonitorClears, MonitorUnmarks
  <2> QED
    BY <2>1 DEF MonitorRestores, PatchIInv, LockIInv, Holders
<1>3. CASE UNCHANGED vars \/ Rescan \/ Poll
  BY <1>3 DEF vars, game, Rescan, Poll
<1>4. ASSUME NEW t \in Threads, NEW p \in Patches, RequestApply(t, p) \/ RequestRestore(t, p)
      PROVE  FALSE
  BY <1>4, RequestFacts DEF game
<1>5. \A t \in Threads : pc[t] \in Locked => lock = t
  BY DEF PatchIInv, LockIInv, Holders
<1> QED
  BY <1>1, <1>2, <1>3, <1>4, <1>5 DEF Next

----------------------------------------------------------------------------
(* The rollback.                                                           *)

\* The cells of a write, or of its backup, that the pages let through.
Lands(f, cells) ==
  {c \in cells : /\ f[c] # "ignore"
                 /\ \A d \in cells : f[d] \in {"refuse", "unmapped"} => PageOf[c] < PageOf[d]}
Written(m, f, w) == [c \in Memory |-> IF c \in Lands(f, DOMAIN w) THEN w[c] ELSE m[c]]

LEMMA AfterIsWritten ==
  ASSUME NEW w
  PROVE  Landed(w) = Lands(fault, DOMAIN w) /\ After(w) = Written(mem, fault, w)
<1>1. Landed(w) = Lands(fault, DOMAIN w)
  BY DEF Landed, Lands, Refused
<1> QED
  BY <1>1 DEF After, Written

\* The backups of s, written from the last to the first, turn m into before:
\* of the backups of a cell the first one counts.
Undoes(m, f, s, before) ==
  /\ \A c \in Memory :
       (\A i \in 1..Len(s) : c \notin Lands(f, DOMAIN s[i])) => m[c] = before[c]
  /\ \A c \in Memory : \A i \in 1..Len(s) :
       c \in Lands(f, DOMAIN s[i]) /\ (\A j \in 1..(i - 1) : c \notin Lands(f, DOMAIN s[j]))
         => s[i][c] = before[c]

LEMMA UndoesNothing ==
  ASSUME NEW f, NEW m \in [Memory -> Values], NEW b \in [Memory -> Values]
  PROVE  Undoes(m, f, <<>>, b) <=> m = b
<1>1. Len(<<>>) = 0 /\ 1..0 = {}
  BY EmptySeq
<1>2. Undoes(m, f, <<>>, b) <=> \A c \in Memory : m[c] = b[c]
  BY <1>1 DEF Undoes
<1> QED
  BY <1>2

\* One more backup, taken before the write.
LEMMA UndoesMore ==
  ASSUME NEW f, NEW m, NEW b, NEW s \in Seq(Bytes), Undoes(m, f, s, b),
         NEW w \in Bytes, NEW k \in Bytes, k = [c \in DOMAIN w |-> m[c]]
  PROVE  Undoes(Written(m, f, w), f, Append(s, k), b)
<1> DEFINE n == Len(s)
           r == Append(s, k)
<1>1. /\ n \in Nat /\ Len(r) = n + 1 /\ r[n + 1] = k
      /\ \A i \in 1..n : r[i] = s[i]
  BY LenProperties, AppendProperties
<1>2. DOMAIN k = DOMAIN w
  OBVIOUS
<1> DEFINE L == Lands(f, DOMAIN w)
           On(i) == Lands(f, DOMAIN s[i])
<1>3. \A c \in Memory : Written(m, f, w)[c] = IF c \in L THEN w[c] ELSE m[c]
  BY DEF Written
<1>4. L \subseteq DOMAIN w
  BY DEF Lands
<1> HIDE DEF L, On, r
<1>5. /\ \A i \in 1..n : Lands(f, DOMAIN r[i]) = On(i)
      /\ Lands(f, DOMAIN r[n + 1]) = L
  BY <1>1, <1>2 DEF L, On
<1>6. /\ \A c \in Memory : (\A i \in 1..n : c \notin On(i)) => m[c] = b[c]
      /\ \A c \in Memory : \A i \in 1..n :
           c \in On(i) /\ (\A j \in 1..(i - 1) : c \notin On(j)) => s[i][c] = b[c]
  BY DEF Undoes, On
<1>7. ASSUME NEW c \in Memory, \A i \in 1..(n + 1) : c \notin Lands(f, DOMAIN r[i])
      PROVE  Written(m, f, w)[c] = b[c]
  <2>1. c \notin L /\ \A i \in 1..n : c \notin On(i)
    <3>1. n + 1 \in 1..(n + 1) /\ \A i \in 1..n : i \in 1..(n + 1)
      BY <1>1
    <3> QED
      BY <1>5, <1>7, <3>1
  <2> QED
    BY <1>3, <1>6, <2>1
<1>8. ASSUME NEW c \in Memory, NEW i \in 1..(n + 1), c \in Lands(f, DOMAIN r[i]),
             \A j \in 1..(i - 1) : c \notin Lands(f, DOMAIN r[j])
      PROVE  r[i][c] = b[c]
  <2>1. CASE i \in 1..n
    <3>1. \A j \in 1..(i - 1) : j \in 1..n
      BY <1>1, <2>1
    <3> QED
      BY <1>1, <1>5, <1>6, <1>8, <2>1, <3>1
  <2>2. CASE i = n + 1
    <3>1. i - 1 = n
      BY <1>1, <2>2
    <3>2. \A j \in 1..n : c \notin On(j)
      BY <1>5, <1>8, <3>1
    <3>3. c \in DOMAIN w
      BY <1>4, <1>5, <1>8, <2>2
    <3> QED
      BY <1>1, <1>6, <2>2, <3>2, <3>3
  <2> QED
    BY <1>1, <2>1, <2>2
<1>9. Undoes(Written(m, f, w), f, r, b)
  BY <1>1, <1>7, <1>8 DEF Undoes
<1> QED
  BY <1>9 DEF r

\* do_rollback() writes the last backup.
LEMMA UndoesLess ==
  ASSUME NEW f, NEW m, NEW b, NEW s \in Seq(Bytes), s # <<>>, Undoes(m, f, s, b)
  PROVE  Undoes(Written(m, f, Last(s)), f, Front(s), b)
<1> DEFINE n == Len(s) - 1
           r == Front(s)
<1>1. /\ n \in Nat /\ Len(s) = n + 1 /\ Last(s) = s[n + 1] /\ Len(r) = n
      /\ \A i \in 1..n : r[i] = s[i]
  BY EndsTyped DEF Last
<1> DEFINE L == Lands(f, DOMAIN Last(s))
           On(i) == Lands(f, DOMAIN s[i])
<1>2. \A c \in Memory : Written(m, f, Last(s))[c] = IF c \in L THEN Last(s)[c] ELSE m[c]
  BY DEF Written
<1> HIDE DEF L, On, r, n
<1>3. /\ \A c \in Memory : (\A i \in 1..(n + 1) : c \notin On(i)) => m[c] = b[c]
      /\ \A c \in Memory : \A i \in 1..(n + 1) :
           c \in On(i) /\ (\A j \in 1..(i - 1) : c \notin On(j)) => s[i][c] = b[c]
  BY <1>1 DEF Undoes, On
<1>4. On(n + 1) = L /\ \A i \in 1..n : Lands(f, DOMAIN r[i]) = On(i)
  BY <1>1 DEF L, On
<1>5. ASSUME NEW c \in Memory, \A i \in 1..n : c \notin Lands(f, DOMAIN r[i])
      PROVE  Written(m, f, Last(s))[c] = b[c]
  <2>1. /\ \A i \in 1..n : c \notin On(i)
        /\ \A i \in 1..(n + 1) : i \in 1..n \/ i = n + 1
        /\ n + 1 \in 1..(n + 1) /\ n + 1 - 1 = n
    BY <1>1, <1>4, <1>5
  <2>2. CASE c \in L
    BY <1>1, <1>2, <1>3, <1>4, <2>1, <2>2
  <2>3. CASE c \notin L
    BY <1>2, <1>3, <1>4, <2>1, <2>3
  <2> QED
    BY <2>2, <2>3
<1>6. ASSUME NEW c \in Memory, NEW i \in 1..n, c \in Lands(f, DOMAIN r[i]),
             \A j \in 1..(i - 1) : c \notin Lands(f, DOMAIN r[j])
      PROVE  r[i][c] = b[c]
  <2>1. i \in 1..(n + 1) /\ \A j \in 1..(i - 1) : j \in 1..n
    BY <1>1
  <2>2. c \in On(i) /\ \A j \in 1..(i - 1) : c \notin On(j)
    BY <1>4, <1>6, <2>1
  <2> QED
    BY <1>1, <1>3, <2>1, <2>2
<1>7. Undoes(Written(m, f, Last(s)), f, r, b)
  BY <1>1, <1>5, <1>6 DEF Undoes
<1> QED
  BY <1>7 DEF r

\* An apply at work can be undone to the byte, and one that failed was.
Reversible(m, f, loc, j) ==
  j.op = "apply" =>
    /\ loc \in {"write", "rollback"} => Undoes(m, f, j.saved, j.before)
    /\ loc = "unlock" /\ j.failed => m = j.before

RollIInv ==
  /\ PatchIInv /\ Processes /\ Requests
  /\ \A t \in Threads : Alive(t) => Reversible(mem, fault, pc[t], job[t])

LEMMA RollIInvMeansRolledBack == RollIInv => RolledBack
BY DEF RollIInv, RolledBack, Reversible

LEMMA ReversibleWork ==
  ASSUME RollIInv, NEW t \in Threads, Work(t), Alive(t)
  PROVE  Reversible(mem', fault, pc'[t], job'[t])
<1> USE JobFacts DEF RollIInv
<1>1. Reversible(mem, fault, pc[t], job[t]) /\ RequestAt(pc[t], job[t])
  BY DEF Requests
<1>2. CASE pc'[t] \notin {"write", "rollback", "unlock"}
  BY <1>2 DEF Reversible
<1>3. CASE Probe(t)
  <2>1. UNCHANGED mem /\ pc[t] = "probe"
    BY <1>3 DEF Probe, game
  <2>2. ASSUME job[t].op = "apply" PROVE job'[t].saved = <<>> /\ job'[t].before = mem
    BY <1>1, <1>3, <2>1, <2>2, ProbeFacts DEF RequestAt
  <2>3. Undoes(mem, fault, <<>>, mem)
    BY UndoesNothing
  <2>4. job'[t].op = job[t].op
    BY <1>3, ProbeFacts DEF Same
  <2> QED
    BY <2>1, <2>2, <2>3, <2>4 DEF Reversible
<1>4. CASE SkipLine(t)
  BY <1>1, <1>4, SkipFacts DEF SkipLine, Reversible, Same, game
<1>5. CASE ReadFails(t) \/ WritesDone(t)
  <2>1. UNCHANGED mem /\ pc[t] = "write" /\ ~job[t].failed
    BY <1>1, <1>5 DEF ReadFails, WritesDone, game, RequestAt
  <2> QED
    BY <1>1, <1>5, <2>1, FailFacts DEF Reversible, Same
<1>6. CASE WriteBlock(t)
  <2> DEFINE w == WriteOf(t)
  <2>1. w \in Bytes /\ pc[t] = "write"
    BY <1>6, WriteTyped DEF WriteBlock, PatchIInv, PatchTypes
  <2>2. /\ Same(job[t], job'[t]) /\ job'[t].before = job[t].before
        /\ job'[t].saved = Append(job[t].saved, Backup(w)) /\ mem' = After(w)
        /\ pc'[t] \in {"write", "rollback"}
    BY <1>6, <2>1, WriteFacts
  <2> HIDE DEF w
  <2>3. Backup(w) \in Bytes /\ Backup(w) = [c \in DOMAIN w |-> mem[c]]
    BY <2>1, BackupTyped DEF Backup, PatchIInv, PatchTypes
  <2>4. mem' = Written(mem, fault, w)
    BY <2>2, AfterIsWritten
  <2>5. ASSUME job[t].op = "apply" PROVE Undoes(mem', fault, job'[t].saved, job'[t].before)
    <3>1. Undoes(mem, fault, job[t].saved, job[t].before)
      BY <1>1, <2>1, <2>5 DEF Reversible
    <3>2. Undoes(Written(mem, fault, w), fault, Append(job[t].saved, Backup(w)), job[t].before)
      BY <2>1, <2>3, <3>1, UndoesMore
    <3> QED
      BY <2>2, <2>4, <3>2
  <2> QED
    BY <2>2, <2>5 DEF Reversible, Same
<1>7. CASE Rollback(t)
  <2>1. pc[t] = "rollback" /\ job[t].op = "apply"
    BY <1>1, <1>7 DEF Rollback, RequestAt
  <2>2. Undoes(mem, fault, job[t].saved, job[t].before)
    BY <1>1, <2>1 DEF Reversible
  <2>3. CASE job[t].saved = <<>>
    <3>1. UNCHANGED <<mem, job>> /\ mem = job[t].before
      BY <1>7, <2>2, <2>3, PutFacts, UndoesNothing
    <3>2. pc'[t] = "unlock"
      BY <1>7, <2>3, PutFacts
    <3> QED
      BY <3>1, <3>2 DEF Reversible
  <2>4. CASE job[t].saved # <<>>
    <3>1. /\ pc'[t] = "rollback" /\ job'[t].before = job[t].before
          /\ job'[t].saved = Front(job[t].saved) /\ PutBack(job[t].pid, Last(job[t].saved))
      BY <1>7, <2>1, <2>4, PutFacts DEF RestoreBlock
    <3>2. mem' = Written(mem, fault, Last(job[t].saved))
      BY <3>1, AfterIsWritten DEF PutBack, Alive
    <3>3. Undoes(Written(mem, fault, Last(job[t].saved)), fault, Front(job[t].saved), job[t].before)
      BY <2>2, <2>4, UndoesLess
    <3> QED
      BY <3>1, <3>2, <3>3 DEF Reversible
  <2> QED
    BY <2>3, <2>4
<1>8. CASE RestoreBlock(t)
  <2>1. pc[t] = "putback" /\ job[t].op = "restore"
    BY <1>1, <1>8 DEF RestoreBlock, RequestAt
  <2>2. job'[t].op = "restore"
    BY <1>8, <2>1, PutFacts DEF Same
  <2> QED
    BY <2>2 DEF Reversible
<1>9. pc'[t] \in {"write", "rollback", "unlock"} =>
        \/ Probe(t) \/ SkipLine(t) \/ ReadFails(t) \/ WritesDone(t) \/ WriteBlock(t)
        \/ Rollback(t) \/ RestoreBlock(t)
  <2>1. CASE CopyBackup(t)
    BY <2>1, CopyFacts
  <2>2. CASE Unlock(t)
    BY <2>2, LeaveFacts
  <2>3. CASE AcquireLock(t) \/ StoreBackup(t) \/ DropBackup(t) \/ MarkApplied(t) \/ MarkUnapplied(t)
    BY <2>3 DEF AcquireLock, StoreBackup, DropBackup, MarkApplied, MarkUnapplied, Finish, Go
  <2> QED
    BY <2>1, <2>2, <2>3 DEF Work
<1> QED
  BY <1>2, <1>3, <1>4, <1>5, <1>6, <1>7, <1>8, <1>9

\* Another thread's apply is touched by no step.
LEMMA ReversibleOthers ==
  ASSUME RollIInv, [Next]_vars, ~StartGame, ~EndGame,
         NEW u \in Threads, UNCHANGED <<pc[u], job[u]>>, Alive(u), ~Work(u)
  PROVE  Reversible(mem', fault, pc'[u], job'[u])
<1>1. Reversible(mem, fault, pc[u], job[u])
  BY DEF RollIInv
<1>2. CASE UNCHANGED mem
  BY <1>1, <1>2
<1>3. CASE mem' # mem
  <2>1. lock # u
    <3>1. \/ \E t \in Threads : lock = t /\ (WriteBlock(t) \/ Rollback(t) \/ RestoreBlock(t))
          \/ lock = Monitor
      BY <1>3, WriterHolds DEF RollIInv
    <3> QED
      BY <3>1, PatchAssumption DEF Work
  <2>2. pc[u] \notin Locked
    BY <2>1 DEF RollIInv, PatchIInv, LockIInv, Holders
  <2> QED
    BY <2>2 DEF Reversible, Locked
<1> QED
  BY <1>2, <1>3

LEMMA RollStep == RollIInv /\ [Next]_vars => RollIInv'
<1> SUFFICES ASSUME RollIInv, [Next]_vars PROVE RollIInv'
  OBVIOUS
<1>1. PatchIInv' /\ Processes' /\ Requests'
  BY LockStep, LockTypedStep, PatchTypesStep, ProcessesStep, RequestsStep DEF RollIInv, PatchIInv
<1>2. SUFFICES ASSUME NEW u \in Threads, gamePid' # 0, gamePid' = job'[u].pid
               PROVE  Reversible(mem', fault', pc'[u], job'[u])
  BY <1>1 DEF RollIInv, Alive, Runs
<1>3. CASE StartGame \/ EndGame
  <2>1. job'[u].pid \in Nat /\ job'[u].pid <= started
    <3>1. job' = job
      BY <1>3 DEF StartGame, EndGame
    <3>2. job[u].pid \in Nat /\ job[u].pid <= started
      BY JobFacts, PatchAssumption DEF RollIInv, Processes, Pids
    <3> QED
      BY <3>1, <3>2
  <2> QED
    BY <1>2, <1>3, <2>1, OldProcesses DEF RollIInv
<1>4. CASE ~StartGame /\ ~EndGame
  <2>1. UNCHANGED <<gamePid, fault>>
    BY <1>4, StillAlive DEF RollIInv
  <2>2. CASE Work(u)
    <3>1. CASE pc'[u] = "idle"
      BY <3>1 DEF Reversible
    <3>2. CASE Same(job[u], job'[u])
      <4>1. Alive(u)
        BY <1>2, <2>1, <3>2 DEF Alive, Runs, Same
      <4> QED
        BY <2>1, <2>2, <4>1, ReversibleWork
    <3> QED
      BY <2>2, <3>1, <3>2, WorkFacts DEF RollIInv
  <2>3. CASE UNCHANGED <<pc[u], job[u]>> /\ ~Work(u)
    <3>1. Alive(u)
      BY <1>2, <2>1, <2>3 DEF Alive, Runs
    <3> QED
      BY <1>4, <2>1, <2>3, <3>1, ReversibleOthers
  <2>4. CASE \E p \in Patches : RequestApply(u, p) \/ RequestRestore(u, p)
    <3>1. pc'[u] \in {"lock", "copy"}
      BY <2>4, RequestFacts DEF RollIInv
    <3> QED
      BY <3>1 DEF Reversible
  <2>5. \/ Work(u) \/ UNCHANGED <<pc[u], job[u]>>
        \/ \E p \in Patches : RequestApply(u, p) \/ RequestRestore(u, p)
    <3>1. CASE UNCHANGED vars \/ Rescan \/ Poll \/ Undo
      BY <3>1 DEF vars, Rescan, Poll, Undo, MonitorLooks, MonitorGivesUp, MonitorLocks,
        MonitorTakes, MonitorRestores, MonitorUnlocks, MonitorClears, MonitorUnmarks
    <3>2. ASSUME NEW t \in Threads \ {u}, Work(t) PROVE UNCHANGED <<pc[u], job[u]>>
      BY <3>2, OthersStay DEF RollIInv
    <3>3. ASSUME NEW t \in Threads \ {u}, NEW p \in Patches,
                 RequestApply(t, p) \/ RequestRestore(t, p)
          PROVE  UNCHANGED <<pc[u], job[u]>>
      BY <3>3, RequestFacts DEF RollIInv
    <3> QED
      BY <1>4, <3>1, <3>2, <3>3 DEF Next
  <2> QED
    BY <2>2, <2>3, <2>4, <2>5
<1> QED
  BY <1>3, <1>4

LEMMA RollInvariant == Init /\ [][Next]_vars => []RollIInv
<1>1. Init => RollIInv
  <2> SUFFICES ASSUME Init PROVE RollIInv
    OBVIOUS
  <2>1. PatchIInv
    BY LockInit, PatchTypesInit DEF PatchIInv, LockTyped, Init
  <2>2. NoJob.pid = 0 /\ NoJob.op = "none" /\ NoJob.failed = FALSE
    BY DEF NoJob
  <2>3. Processes
    BY <2>2, NoUndoFacts DEF Init, Processes
  <2>4. Requests /\ \A t \in Threads : ~Alive(t)
    BY <2>2 DEF Init, Requests, RequestAt, Alive, Runs
  <2> QED
    BY <2>1, <2>3, <2>4 DEF RollIInv
<1>2. RollIInv /\ [Next]_vars => RollIInv'
  BY RollStep
<1> QED
  BY <1>1, <1>2, PTL

\* A failed apply leaves the living game byte for byte as it found it, whatever
\* its lines write, overlapping or not, and however the cells answer: the
\* backups are written back from the last to the first (do_rollback()).
THEOREM RolledBackCorrect == Spec => []RolledBack
<1> QED
  BY RollInvariant, RollIInvMeansRolledBack, PTL DEF Spec

----------------------------------------------------------------------------
(* One request per patch, and the patches marked applied.                  *)

\* With the bound Again = FALSE two requests never work on the same patch.
Alone ==
  \A t, u \in Threads :
    pc[t] # "idle" /\ pc[u] # "idle" /\ job[t].patch = job[u].patch => t = u

Holds(s, p, pid) == \E i \in 1..Len(s) : IsFor(s[i], p, pid)

LEMMA HoldsIsSlot ==
  ASSUME PatchIInv, NEW p, NEW pid
  PROVE  Holds(store, p, pid) <=> SlotOf(p, pid) # {}
<1>1. DOMAIN store = 1..Len(store)
  BY LenProperties DEF PatchIInv, PatchTypes, TableTypes
<1> QED
  BY <1>1 DEF Holds, SlotOf

LEMMA AloneStep ==
  ASSUME ~Again, PatchIInv, Alone, [Next]_vars
  PROVE  Alone'
<1>1. ASSUME NEW t \in Threads, Work(t) PROVE Alone'
  <2>1. \A u \in Threads \ {t} : pc'[u] = pc[u] /\ job'[u] = job[u]
    BY <1>1, OthersStay
  <2>2. pc[t] # "idle"
    BY <1>1 DEF Work, CopyBackup, AcquireLock, Probe, SkipLine, ReadFails, WriteBlock,
      WritesDone, Rollback, RestoreBlock, Unlock, StoreBackup, MarkApplied, DropBackup,
      MarkUnapplied
  <2>3. pc'[t] = "idle" \/ job'[t].patch = job[t].patch
    BY <1>1, WorkFacts DEF Same
  <2> QED
    BY <2>1, <2>2, <2>3 DEF Alone
<1>2. ASSUME NEW t \in Threads, NEW p \in Patches, RequestApply(t, p) \/ RequestRestore(t, p)
      PROVE  Alone'
  <2>1. \A u \in Threads : pc[u] # "idle" => job[u].patch # p
    BY <1>2, RequestFacts DEF Allowed, Busy
  <2>2. job'[t].patch = p /\ \A u \in Threads \ {t} : pc'[u] = pc[u] /\ job'[u] = job[u]
    BY <1>2, RequestFacts
  <2> QED
    BY <2>1, <2>2 DEF Alone
<1>3. CASE UNCHANGED vars \/ StartGame \/ EndGame \/ Rescan \/ Poll \/ Undo
  <2>1. UNCHANGED <<pc, job>>
    BY <1>3 DEF vars, StartGame, EndGame, Rescan, Poll, Undo, MonitorLooks, MonitorGivesUp,
      MonitorLocks, MonitorTakes, MonitorRestores, MonitorUnlocks, MonitorClears, MonitorUnmarks
  <2> QED
    BY <2>1 DEF Alone
<1> QED
  BY <1>1, <1>2, <1>3 DEF Next

\* The monitor works on a process that was not reported; a bound of no glitch
\* means that this process has ended.
Gone ==
  mon.pc # "poll" => mon.pid # 0 /\ (glitches = 0 => mon.pid # gamePid)

LEMMA GoneStep == PatchIInv /\ Processes /\ Gone /\ [Next]_vars => Gone'
<1> SUFFICES ASSUME PatchIInv, Processes, Gone, [Next]_vars PROVE Gone'
  OBVIOUS
<1>1. /\ Fields(mon) /\ mon.pid \in Nat /\ cached \in Nat /\ gamePid \in Nat /\ started \in Nat
      /\ glitches \in Nat
  BY PatchAssumption DEF PatchIInv, PatchTypes, GameTypes, MonitorTypes, LockIInv, Control, Pids
<1>2. CASE StartGame \/ EndGame
  <2>1. mon' = mon /\ glitches' = glitches /\ gamePid' \in {0, started + 1}
    BY <1>2 DEF StartGame, EndGame, monitor
  <2> QED
    BY <1>1, <2>1 DEF Gone, Processes
<1>3. CASE Poll
  <2>1. /\ gamePid' = gamePid
        /\ \/ mon' = mon /\ mon.pc = "poll"
           \/ /\ mon'.pid = cached /\ cached # 0 /\ cached' = 0
              /\ mon'.pc = "stopped"
    <3>1. mon.pc = "poll" /\ gamePid' = gamePid
      BY <1>3 DEF Poll, game
    <3>2. [NoUndo EXCEPT !.pc = "stopped", !.pid = cached].pid = cached
          /\ [NoUndo EXCEPT !.pc = "stopped", !.pid = cached].pc = "stopped"
      BY DEF NoUndo
    <3> QED
      BY <1>3, <3>1, <3>2 DEF Poll
  <2>2. (glitches' = 0 /\ cached' = 0) => gamePid = 0
    <3>1. cached' = gamePid \/ glitches' = glitches + 1
      BY <1>3 DEF Poll
    <3> QED
      BY <1>1, <3>1
  <2> QED
    BY <2>1, <2>2 DEF Gone
<1>4. CASE Undo
  <2>1. UNCHANGED <<gamePid, glitches>>
    BY <1>4 DEF Undo, MonitorLooks, MonitorGivesUp, MonitorLocks, MonitorTakes,
      MonitorRestores, MonitorUnlocks, MonitorClears, MonitorUnmarks, game
  <2>2. mon.pc # "poll"
    BY <1>4 DEF Undo, MonitorLooks, MonitorGivesUp, MonitorLocks, MonitorTakes,
      MonitorRestores, MonitorUnlocks, MonitorClears, MonitorUnmarks
  <2>3. mon'.pid = mon.pid \/ mon'.pc = "poll"
    <3>1. CASE MonitorUnmarks
      BY <3>1, NoUndoFacts DEF MonitorUnmarks
    <3>2. CASE MonitorLooks \/ MonitorGivesUp \/ MonitorLocks \/ MonitorTakes
      BY <1>1, <3>2 DEF MonitorLooks, MonitorGivesUp, MonitorLocks, MonitorTakes, Fields
    <3>3. CASE MonitorRestores \/ MonitorUnlocks \/ MonitorClears
      BY <1>1, <3>3 DEF MonitorRestores, MonitorUnlocks, MonitorClears, Fields
    <3> QED
      BY <1>4, <3>1, <3>2, <3>3 DEF Undo
  <2> QED
    BY <2>1, <2>2, <2>3 DEF Gone
<1>5. ASSUME NEW t \in Threads,
             Work(t) \/ \E p \in Patches : RequestApply(t, p) \/ RequestRestore(t, p)
      PROVE  Gone'
  BY <1>5, OthersStay, RequestFacts DEF Gone, monitor, game
<1>6. CASE UNCHANGED vars \/ Rescan
  BY <1>6 DEF vars, Rescan, Gone, monitor, game
<1> QED
  BY <1>2, <1>3, <1>4, <1>5, <1>6 DEF Next

\* A record leaves the store when a restore of its patch went through, or with
\* all the records of the monitor's process; lost patches stay lost.
LEMMA RecordsStay ==
  ASSUME PatchIInv, [Next]_vars, ~StartGame, ~EndGame
  PROVE  /\ lost \subseteq lost'
         /\ \A i \in 1..Len(store) :
              \/ Holds(store', store[i].patch, store[i].pid)
              \/ \E t \in Threads : /\ DropBackup(t)
                                    /\ IsFor(store[i], job[t].patch, job[t].pid)
              \/ (MonitorUnlocks \/ MonitorClears) /\ Clear /\ store[i].pid = mon.pid
<1> USE DEF PatchIInv, PatchTypes
<1>1. ASSUME UNCHANGED <<store, lost>>
      PROVE  lost \subseteq lost' /\ \A i \in 1..Len(store) : Holds(store', store[i].patch, store[i].pid)
  BY <1>1 DEF Holds, IsFor
<1>2. ASSUME NEW t \in Threads, StoreBackup(t)
      PROVE  lost \subseteq lost' /\ \A i \in 1..Len(store) : Holds(store', store[i].patch, store[i].pid)
  <2> DEFINE rec == [patch |-> job[t].patch, pid |-> job[t].pid, lines |-> job[t].saved]
  <2>1. rec \in Backups
    BY JobFacts DEF Backups
  <2>2. store' = Stored(rec, SlotOf(rec.patch, rec.pid)) /\ lost \subseteq lost'
    BY <1>2 DEF StoreBackup
  <2> HIDE DEF rec
  <2>3. /\ \A k \in 1..Len(store) :
             ~IsFor(store[k], rec.patch, rec.pid) => \E l \in 1..Len(store') : store'[l] = store[k]
        /\ \/ \E l \in 1..Len(store') : store'[l] = rec
           \/ store' = store
    BY <2>1, <2>2, StoredFacts
  <2>4. ASSUME NEW i \in 1..Len(store) PROVE Holds(store', store[i].patch, store[i].pid)
    <3>1. CASE ~IsFor(store[i], rec.patch, rec.pid)
      BY <2>3, <3>1 DEF Holds, IsFor
    <3>2. CASE IsFor(store[i], rec.patch, rec.pid)
      BY <2>3, <3>2 DEF Holds, IsFor
    <3> QED
      BY <3>1, <3>2
  <2> QED
    BY <2>2, <2>4
<1>3. ASSUME NEW t \in Threads, DropBackup(t)
      PROVE  /\ lost \subseteq lost'
             /\ \A i \in 1..Len(store) :
                  \/ Holds(store', store[i].patch, store[i].pid)
                  \/ IsFor(store[i], job[t].patch, job[t].pid)
  <2>1. store' = RemoveBackup(job[t].patch, job[t].pid) /\ lost' = lost
    BY <1>3 DEF DropBackup
  <2>2. \A k \in 1..Len(store) :
          ~IsFor(store[k], job[t].patch, job[t].pid) => \E l \in 1..Len(store') : store'[l] = store[k]
    BY <2>1, RemoveBackupFacts
  <2> QED
    BY <2>1, <2>2 DEF Holds, IsFor
<1>4. ASSUME MonitorUnlocks \/ MonitorClears
      PROVE  /\ lost \subseteq lost'
             /\ \A i \in 1..Len(store) :
                  \/ Holds(store', store[i].patch, store[i].pid)
                  \/ Clear /\ store[i].pid = mon.pid
  <2>1. Clear
    BY <1>4 DEF MonitorUnlocks, MonitorClears
  <2>2. store' = ClearBackups(mon.pid) /\ lost \subseteq lost'
    BY <2>1 DEF Clear
  <2>3. \A k \in 1..Len(store) : store[k].pid # mon.pid => \E l \in 1..Len(store') : store'[l] = store[k]
    BY <2>2, ClearFacts DEF Keeps
  <2> QED
    BY <2>1, <2>2, <2>3 DEF Holds, IsFor
<1>5. \/ UNCHANGED <<store, lost>> \/ MonitorUnlocks \/ MonitorClears
      \/ \E t \in Threads : StoreBackup(t) \/ DropBackup(t)
  <2>1. CASE UNCHANGED vars \/ Rescan \/ Poll
    BY <2>1 DEF vars, tables, Rescan, Poll
  <2>2. CASE Undo
    BY <2>2 DEF Undo, tables, MonitorLooks, MonitorGivesUp, MonitorLocks, MonitorTakes,
      MonitorRestores, MonitorUnmarks
  <2>3. ASSUME NEW t \in Threads, Work(t)
        PROVE  UNCHANGED <<store, lost>> \/ StoreBackup(t) \/ DropBackup(t)
    BY <2>3 DEF Work, tables, CopyBackup, AcquireLock, Probe, SkipLine, ReadFails, WriteBlock,
      WritesDone, Rollback, RestoreBlock, Unlock, MarkApplied, MarkUnapplied
  <2>4. ASSUME NEW t \in Threads, NEW p \in Patches, RequestApply(t, p) \/ RequestRestore(t, p)
        PROVE  UNCHANGED <<store, lost>>
    BY <2>4 DEF RequestApply, RequestRestore, tables
  <2> QED
    BY <2>1, <2>2, <2>3, <2>4 DEF Next
<1> QED
  BY <1>1, <1>2, <1>3, <1>4, <1>5

\* A mark of the living process comes with the backup, or goes with it: a
\* request that has dropped the backup removes the mark next, and one that has
\* stored it sets it next.
Unmarks(p) == \E t \in Threads : pc[t] = "unmark" /\ job[t].patch = p /\ Alive(t)
Marked ==
  glitches = 0 /\ gamePid # 0 =>
    \A p \in Patches \ lost :
      /\ <<p, gamePid>> \in applied => Holds(store, p, gamePid) \/ Unmarks(p)
      /\ \A t \in Threads :
           pc[t] = "mark" /\ job[t].patch = p /\ Alive(t) => Holds(store, p, gamePid)

MarkIInv == PatchIInv /\ Processes /\ Alone /\ Gone /\ Marked

LEMMA MarkIInvMeansMarkedRestorable == MarkIInv => MarkedRestorable
<1> SUFFICES ASSUME MarkIInv, NEW p \in Patches \ lost, glitches = 0, gamePid # 0,
                    <<p, gamePid>> \in applied, ~Busy(p)
             PROVE  SlotOf(p, gamePid) # {}
  BY DEF MarkedRestorable
<1>1. ~Unmarks(p)
  BY DEF Unmarks, Busy
<1>2. Holds(store, p, gamePid)
  BY <1>1 DEF MarkIInv, Marked
<1> QED
  BY <1>2, HoldsIsSlot DEF MarkIInv

LEMMA MarkedStep ==
  ASSUME ~Again, MarkIInv, [Next]_vars
  PROVE  Marked'
<1> USE DEF MarkIInv
<1>1. SUFFICES ASSUME glitches' = 0, gamePid' # 0, NEW p \in Patches, p \notin lost'
               PROVE  /\ <<p, gamePid'>> \in applied' =>
                           Holds(store', p, gamePid') \/ Unmarks(p)'
                      /\ \A t \in Threads :
                           pc'[t] = "mark" /\ job'[t].patch = p /\ gamePid' = job'[t].pid =>
                             Holds(store', p, gamePid')
  BY DEF Marked, Alive, Runs
<1>2. /\ started \in Nat /\ gamePid \in Nat /\ glitches \in Nat
      /\ \A t \in Threads : job[t].pid \in Nat
  BY JobFacts, PatchAssumption DEF PatchIInv, PatchTypes, GameTypes, MonitorTypes, Pids
<1>3. CASE StartGame \/ EndGame
  <2>1. gamePid' = started + 1 /\ UNCHANGED <<applied, pc, job>>
    BY <1>1, <1>3 DEF StartGame, EndGame, tables
  <2>2. <<p, gamePid'>> \notin applied'
    <3>1. \A m \in applied : m[2] <= started
      BY DEF Processes
    <3> QED
      BY <1>2, <2>1, <3>1
  <2>3. \A t \in Threads : gamePid' # job'[t].pid
    BY <1>2, <2>1 DEF Processes
  <2> QED
    BY <2>2, <2>3
<1>4. CASE ~StartGame /\ ~EndGame
  <2>1. UNCHANGED gamePid /\ p \notin lost
    BY <1>1, <1>4, StillAlive, RecordsStay
  <2>2. glitches = 0
    <3>1. glitches' = glitches \/ glitches' = glitches + 1
      <4>1. CASE UNCHANGED vars \/ Rescan \/ Undo
        BY <4>1 DEF vars, Rescan, monitor, Undo, MonitorLooks, MonitorGivesUp, MonitorLocks,
          MonitorTakes, MonitorRestores, MonitorUnlocks, MonitorClears, MonitorUnmarks
      <4>2. CASE Poll
        BY <4>2 DEF Poll
      <4>3. ASSUME NEW t \in Threads,
                   Work(t) \/ \E q \in Patches : RequestApply(t, q) \/ RequestRestore(t, q)
            PROVE  UNCHANGED glitches
        BY <4>3, OthersStay, RequestFacts DEF monitor
      <4> QED
        BY <1>4, <4>1, <4>2, <4>3 DEF Next
    <3> QED
      BY <1>1, <1>2, <3>1
  <2>3. /\ <<p, gamePid>> \in applied => Holds(store, p, gamePid) \/ Unmarks(p)
        /\ \A t \in Threads :
             pc[t] = "mark" /\ job[t].patch = p /\ Alive(t) => Holds(store, p, gamePid)
    BY <1>1, <2>1, <2>2 DEF Marked
  <2>4. ASSUME Holds(store, p, gamePid)
        PROVE  Holds(store', p, gamePid) \/ \E t \in Threads : DropBackup(t) /\ job[t].patch = p /\ Alive(t)
    <3>1. PICK i \in 1..Len(store) : IsFor(store[i], p, gamePid)
      BY <2>4 DEF Holds
    <3>2. store[i].patch = p /\ store[i].pid = gamePid
      BY <3>1 DEF IsFor
    <3>3. ~((MonitorUnlocks \/ MonitorClears) /\ store[i].pid = mon.pid)
      <4>1. MonitorUnlocks \/ MonitorClears => mon.pc # "poll"
        BY DEF MonitorUnlocks, MonitorClears
      <4> QED
        BY <2>2, <3>2, <4>1 DEF Gone
    <3>4. \/ Holds(store', p, gamePid)
          \/ \E t \in Threads : DropBackup(t) /\ IsFor(store[i], job[t].patch, job[t].pid)
      BY <1>4, <3>2, <3>3, RecordsStay
    <3> QED
      BY <1>1, <2>1, <3>2, <3>4 DEF IsFor, Alive, Runs
  <2>5. ASSUME NEW t \in Threads, DropBackup(t), job[t].patch = p, Alive(t) PROVE Unmarks(p)'
    <3>1. pc'[t] = "unmark" /\ job' = job
      BY <2>5, JobFacts DEF DropBackup, Go
    <3> QED
      BY <2>1, <2>5, <3>1 DEF Unmarks, Alive, Runs
  <2>6. ASSUME Unmarks(p), <<p, gamePid>> \in applied' PROVE Unmarks(p)'
    <3>1. PICK t \in Threads : pc[t] = "unmark" /\ job[t].patch = p /\ Alive(t)
      BY <2>6 DEF Unmarks
    <3>2. job[t].pid = gamePid
      BY <3>1 DEF Alive, Runs
    <3>3. ~Work(t)
      <4>1. SUFFICES ASSUME Work(t) PROVE FALSE
        OBVIOUS
      <4>2. MarkUnapplied(t)
        BY <3>1, <4>1 DEF Work, CopyBackup, AcquireLock, Probe, SkipLine, ReadFails, WriteBlock,
          WritesDone, Rollback, RestoreBlock, Unlock, StoreBackup, MarkApplied, DropBackup
      <4>3. applied' = applied \ {<<p, gamePid>>}
        BY <3>1, <3>2, <4>2 DEF MarkUnapplied
      <4> QED
        BY <2>6, <4>3
    <3>4. UNCHANGED <<pc[t], job[t]>>
      <4>1. CASE UNCHANGED vars \/ Rescan \/ Poll \/ Undo
        BY <4>1 DEF vars, Rescan, Poll, Undo, MonitorLooks, MonitorGivesUp, MonitorLocks,
          MonitorTakes, MonitorRestores, MonitorUnlocks, MonitorClears, MonitorUnmarks
      <4>2. ASSUME NEW u \in Threads, Work(u) PROVE UNCHANGED <<pc[t], job[t]>>
        BY <3>3, <4>2, OthersStay
      <4>3. ASSUME NEW u \in Threads, NEW q \in Patches, RequestApply(u, q) \/ RequestRestore(u, q)
            PROVE  UNCHANGED <<pc[t], job[t]>>
        BY <3>1, <4>3, RequestFacts
      <4> QED
        BY <1>4, <4>1, <4>2, <4>3 DEF Next
    <3> QED
      BY <2>1, <3>1, <3>4 DEF Unmarks, Alive, Runs
  <2>7. ASSUME <<p, gamePid>> \in applied' PROVE Holds(store', p, gamePid) \/ Unmarks(p)'
    <3>1. CASE <<p, gamePid>> \in applied
      BY <2>3, <2>4, <2>5, <2>6, <2>7, <3>1
    <3>2. CASE <<p, gamePid>> \notin applied
      <4>1. PICK t \in Threads : MarkApplied(t) /\ <<p, gamePid>> = <<job[t].patch, job[t].pid>>
        <5>1. applied' \subseteq applied
              \/ \E t \in Threads : MarkApplied(t) /\ applied' = applied \cup {<<job[t].patch, job[t].pid>>}
          <6>1. CASE UNCHANGED vars \/ Rescan \/ Poll \/ Undo
            BY <6>1 DEF vars, tables, Rescan, Poll, Undo, MonitorLooks, MonitorGivesUp,
              MonitorLocks, MonitorTakes, MonitorRestores, MonitorUnlocks, MonitorClears,
              MonitorUnmarks
          <6>2. ASSUME NEW t \in Threads, Work(t)
                PROVE  \/ applied' \subseteq applied
                       \/ MarkApplied(t) /\ applied' = applied \cup {<<job[t].patch, job[t].pid>>}
            BY <6>2 DEF tables, Work, CopyBackup, AcquireLock, Probe, SkipLine, ReadFails,
              WriteBlock, WritesDone, Rollback, RestoreBlock, Unlock, StoreBackup, MarkApplied,
              DropBackup, MarkUnapplied
          <6>3. ASSUME NEW u \in Threads, NEW q \in Patches, RequestApply(u, q) \/ RequestRestore(u, q)
                PROVE  applied' \subseteq applied
            BY <6>3, RequestFacts DEF tables
          <6> QED
            BY <1>4, <6>1, <6>2, <6>3 DEF Next
        <5> QED
          BY <2>7, <3>2, <5>1
      <4>2. Holds(store, p, gamePid) /\ store' = store
        BY <1>1, <2>1, <2>3, <4>1 DEF MarkApplied, Alive, Runs
      <4> QED
        BY <4>2
    <3> QED
      BY <3>1, <3>2
  <2>8. ASSUME NEW t \in Threads, pc'[t] = "mark", job'[t].patch = p, gamePid = job'[t].pid
        PROVE  Holds(store', p, gamePid)
    <3>1. CASE StoreBackup(t)
      <4> DEFINE rec == [patch |-> job[t].patch, pid |-> job[t].pid, lines |-> job[t].saved]
      <4>1. job' = job /\ rec \in Backups /\ rec.patch = p /\ rec.pid = gamePid /\ Alive(t)
        BY <1>1, <2>1, <2>8, <3>1, JobFacts DEF StoreBackup, Backups, Alive, Runs
      <4>2. /\ store' = Stored(rec, SlotOf(rec.patch, rec.pid))
            /\ SlotOf(rec.patch, rec.pid) = {} /\ Len(store) = Slots =>
                 lost' = lost \cup {rec.patch}
        BY <3>1, <4>1 DEF StoreBackup
      <4> HIDE DEF rec
      <4>3. \/ \E l \in 1..Len(store') : store'[l] = rec
            \/ SlotOf(rec.patch, rec.pid) = {} /\ Len(store) = Slots
        BY <4>1, <4>2, StoredFacts DEF PatchIInv, PatchTypes
      <4> QED
        BY <1>1, <4>1, <4>2, <4>3 DEF Holds, IsFor
    <3>2. CASE ~StoreBackup(t)
      <4>1. pc[t] = "mark" /\ job'[t] = job[t]
        <5>1. CASE UNCHANGED vars \/ Rescan \/ Poll \/ Undo
          BY <2>8, <5>1 DEF vars, Rescan, Poll, Undo, MonitorLooks, MonitorGivesUp,
            MonitorLocks, MonitorTakes, MonitorRestores, MonitorUnlocks, MonitorClears,
            MonitorUnmarks
        <5>2. CASE Work(t)
          <6>1. CASE CopyBackup(t) \/ Probe(t) \/ WriteBlock(t)
            BY <2>8, <6>1, CopyFacts, ProbeFacts, WriteFacts DEF WriteBlock
          <6>2. CASE SkipLine(t) \/ ReadFails(t) \/ WritesDone(t) \/ Unlock(t)
            BY <2>8, <6>2, FailFacts, LeaveFacts DEF SkipLine
          <6>3. CASE Rollback(t) \/ RestoreBlock(t)
            BY <2>8, <6>3, PutFacts DEF Rollback, RestoreBlock
          <6>4. CASE AcquireLock(t) \/ MarkApplied(t) \/ DropBackup(t) \/ MarkUnapplied(t)
            BY <2>8, <6>4, JobFacts DEF AcquireLock, MarkApplied, DropBackup, MarkUnapplied,
              Finish, Go
          <6> QED
            BY <3>2, <5>2, <6>1, <6>2, <6>3, <6>4 DEF Work
        <5>3. ASSUME NEW u \in Threads \ {t}, Work(u) PROVE pc[t] = "mark" /\ job'[t] = job[t]
          BY <2>8, <5>3, OthersStay
        <5>4. ASSUME NEW u \in Threads, NEW q \in Patches, RequestApply(u, q) \/ RequestRestore(u, q)
              PROVE  pc[t] = "mark" /\ job'[t] = job[t]
          BY <2>8, <5>4, RequestFacts
        <5> QED
          BY <1>4, <5>1, <5>2, <5>3, <5>4 DEF Next
      <4>2. Holds(store, p, gamePid)
        BY <1>1, <2>1, <2>3, <2>8, <4>1 DEF Alive, Runs
      <4>3. ASSUME NEW u \in Threads, DropBackup(u), job[u].patch = p PROVE FALSE
        <5>1. pc[u] = "remove"
          BY <4>3 DEF DropBackup
        <5>2. job[t].patch = p /\ pc[t] # "idle"
          BY <2>8, <4>1
        <5> QED
          BY <4>1, <4>3, <5>1, <5>2 DEF Alone
      <4> QED
        BY <2>4, <4>2, <4>3
    <3> QED
      BY <3>1, <3>2
  <2> QED
    BY <2>1, <2>7, <2>8
<1> QED
  BY <1>3, <1>4

\* A patch the user sees as applied, and that no request is at work on, has its
\* backup in the store of the living process, unless it was dropped with the
\* store full or by the monitor.  It takes a monitor that always sees the
\* living game (glitches = 0) and one request per patch (~Again).
THEOREM MarkedRestorableCorrect ==
  ASSUME ~Again
  PROVE  Spec => []MarkedRestorable
<1>1. Init => MarkIInv
  <2> SUFFICES ASSUME Init PROVE MarkIInv
    OBVIOUS
  <2>1. PatchIInv
    BY LockInit, PatchTypesInit DEF PatchIInv, LockTyped, Init
  <2>2. Processes
    <3>1. NoJob.pid = 0
      BY DEF NoJob
    <3> QED
      BY <3>1, NoUndoFacts DEF Init, Processes
  <2> QED
    BY <2>1, <2>2, NoUndoFacts DEF Init, MarkIInv, Alone, Gone, Marked
<1>2. MarkIInv /\ [Next]_vars => MarkIInv'
  <2> SUFFICES ASSUME MarkIInv, [Next]_vars PROVE MarkIInv'
    OBVIOUS
  <2>1. PatchIInv' /\ Processes' /\ Gone'
    BY LockStep, LockTypedStep, PatchTypesStep, ProcessesStep, GoneStep DEF MarkIInv, PatchIInv
  <2>2. Alone' /\ Marked'
    BY AloneStep, MarkedStep DEF MarkIInv
  <2> QED
    BY <2>1, <2>2 DEF MarkIInv
<1> QED
  BY <1>1, <1>2, MarkIInvMeansMarkedRestorable, PTL DEF Spec

----------------------------------------------------------------------------
(* What a backup can put back.                                             *)

\* The cells of p that memory m shows changed can be put back from s, and the
\* backups of s hold the game's own bytes wherever one write only reaches.
Cover(m, f, s, p) ==
  \A c \in Sole \cap CellsOf[p] :
    m[c] # Original => \E i \in 1..Len(s) : c \in Lands(f, DOMAIN s[i])
Untouched(m, p) == \A c \in Sole \cap CellsOf[p] : m[c] = Original
Clean(s) == \A i \in 1..Len(s) : \A c \in Sole \cap DOMAIN s[i] : s[i][c] = Original

\* From m to n no cell of p was changed.
Fewer(n, m, p) == \A c \in Sole \cap CellsOf[p] : n[c] # Original => m[c] # Original

\* The writes of the request's plan that are still to come.
Ahead(m, j) ==
  \A i \in DOMAIN Plan[j.patch] : \A k \in DOMAIN Writes(Plan[j.patch][i]) :
    (i > j.line \/ (i = j.line /\ k >= j.part)) =>
      \A c \in Sole \cap DOMAIN Writes(Plan[j.patch][i])[k] : m[c] = Original

LEMMA CoverNothing ==
  ASSUME NEW m, NEW f, NEW p
  PROVE  Cover(m, f, <<>>, p) <=> Untouched(m, p)
<1>1. 1..Len(<<>>) = {}
  BY EmptySeq
<1> QED
  BY <1>1 DEF Cover, Untouched

LEMMA FewerKeeps ==
  ASSUME NEW m, NEW n, NEW f, NEW s, NEW p, Fewer(n, m, p)
  PROVE  /\ Cover(m, f, s, p) => Cover(n, f, s, p)
         /\ Untouched(m, p) => Untouched(n, p)
BY DEF Fewer, Cover, Untouched

\* A clean backup that is written changes no cell.
LEMMA CleanWrite ==
  ASSUME NEW m, NEW f, NEW w, \A c \in Sole \cap DOMAIN w : w[c] = Original, NEW p
  PROVE  Fewer(Written(m, f, w), m, p)
<1>1. \A c \in Memory : Written(m, f, w)[c] = IF c \in Lands(f, DOMAIN w) THEN w[c] ELSE m[c]
  BY DEF Written
<1>2. Sole \subseteq Memory /\ Lands(f, DOMAIN w) \subseteq DOMAIN w
  BY DEF Sole, Lands
<1> QED
  BY <1>1, <1>2 DEF Fewer

\* The backup written last, or first, is needed no longer.
LEMMA CoverRest ==
  ASSUME NEW m, NEW f, NEW p, NEW s \in Seq(Bytes), s # <<>>, Clean(s), Cover(m, f, s, p)
  PROVE  /\ Cover(Written(m, f, Last(s)), f, Front(s), p) /\ Clean(Front(s))
         /\ Cover(Written(m, f, Head(s)), f, Tail(s), p) /\ Clean(Tail(s))
         /\ \A q : /\ Fewer(Written(m, f, Last(s)), m, q)
                   /\ Fewer(Written(m, f, Head(s)), m, q)
<1> DEFINE n == Len(s) - 1
           a == Front(s)
           b == Tail(s)
<1>1. /\ n \in Nat /\ Len(s) = n + 1 /\ Last(s) = s[n + 1] /\ Head(s) = s[1]
      /\ Len(a) = n /\ Len(b) = n
      /\ \A i \in 1..n : a[i] = s[i] /\ b[i] = s[i + 1]
  BY EndsTyped DEF Last
<1>2. n + 1 \in 1..(n + 1) /\ 1 \in 1..(n + 1) /\ \A i \in 1..n : i \in 1..(n + 1) /\ i + 1 \in 1..(n + 1)
  BY <1>1
<1> HIDE DEF a, b, n
<1>3. Clean(a) /\ Clean(b)
  BY <1>1, <1>2 DEF Clean
<1>4. /\ \A c \in Sole \cap DOMAIN Last(s) : Last(s)[c] = Original
      /\ \A c \in Sole \cap DOMAIN Head(s) : Head(s)[c] = Original
  BY <1>1, <1>2 DEF Clean
<1>5. \A q : Fewer(Written(m, f, Last(s)), m, q) /\ Fewer(Written(m, f, Head(s)), m, q)
  BY <1>4, CleanWrite
<1>6. Sole \subseteq Memory
  BY DEF Sole
<1>7. ASSUME NEW w, w = Last(s) \/ w = Head(s), NEW c \in Sole, Written(m, f, w)[c] # Original
      PROVE  c \notin Lands(f, DOMAIN w)
  <2>1. SUFFICES ASSUME c \in Lands(f, DOMAIN w) PROVE FALSE
    OBVIOUS
  <2>2. Written(m, f, w)[c] = w[c] /\ c \in DOMAIN w
    BY <1>6, <2>1 DEF Written, Lands
  <2> QED
    BY <1>4, <1>7, <2>2
<1>8. ASSUME NEW c \in Sole \cap CellsOf[p], Written(m, f, Last(s))[c] # Original
      PROVE  \E i \in 1..n : c \in Lands(f, DOMAIN a[i])
  <2>1. PICK i \in 1..(n + 1) : c \in Lands(f, DOMAIN s[i])
    BY <1>1, <1>5, <1>8 DEF Fewer, Cover
  <2>2. i # n + 1
    BY <1>1, <1>7, <1>8, <2>1
  <2>3. i \in 1..n
    BY <1>1, <2>1, <2>2
  <2> QED
    BY <1>1, <2>1, <2>3
<1>9. ASSUME NEW c \in Sole \cap CellsOf[p], Written(m, f, Head(s))[c] # Original
      PROVE  \E i \in 1..n : c \in Lands(f, DOMAIN b[i])
  <2>1. PICK i \in 1..(n + 1) : c \in Lands(f, DOMAIN s[i])
    BY <1>1, <1>5, <1>9 DEF Fewer, Cover
  <2>2. i # 1
    BY <1>1, <1>7, <1>9, <2>1
  <2>3. i - 1 \in 1..n /\ i - 1 + 1 = i
    BY <1>1, <2>1, <2>2
  <2>4. b[i - 1] = s[i]
    BY <1>1, <2>3
  <2> QED
    BY <2>1, <2>3, <2>4
<1>10. /\ Cover(Written(m, f, Last(s)), f, a, p)
       /\ Cover(Written(m, f, Head(s)), f, b, p)
  BY <1>1, <1>8, <1>9 DEF Cover
<1> QED
  BY <1>3, <1>5, <1>10 DEF a, b

\* A write whose backup was taken first.
LEMMA CoverMore ==
  ASSUME NEW m, NEW f, NEW p, NEW s \in Seq(Bytes), Clean(s), Cover(m, f, s, p),
         NEW w \in Bytes, NEW k \in Bytes, k = [c \in DOMAIN w |-> m[c]],
         \A c \in Sole \cap DOMAIN w : m[c] = Original
  PROVE  Cover(Written(m, f, w), f, Append(s, k), p) /\ Clean(Append(s, k))
<1> DEFINE n == Len(s)
           r == Append(s, k)
<1>1. /\ n \in Nat /\ Len(r) = n + 1 /\ r[n + 1] = k
      /\ \A i \in 1..n : r[i] = s[i]
      /\ \A i \in 1..(n + 1) : i \in 1..n \/ i = n + 1
      /\ n + 1 \in 1..(n + 1) /\ \A i \in 1..n : i \in 1..(n + 1)
  BY LenProperties, AppendProperties
<1> HIDE DEF r, n
<1>2. Clean(r)
  <2>1. \A c \in Sole \cap DOMAIN k : k[c] = Original
    OBVIOUS
  <2> QED
    BY <1>1, <2>1 DEF Clean, n
<1>3. ASSUME NEW c \in Sole \cap CellsOf[p], Written(m, f, w)[c] # Original
      PROVE  \E i \in 1..(n + 1) : c \in Lands(f, DOMAIN r[i])
  <2>1. c \in Memory
    BY DEF Sole
  <2>2. CASE c \in Lands(f, DOMAIN w)
    <3>1. DOMAIN r[n + 1] = DOMAIN w
      BY <1>1
    <3> QED
      BY <1>1, <2>2, <3>1
  <2>3. CASE c \notin Lands(f, DOMAIN w)
    <3>1. m[c] # Original
      BY <1>3, <2>1, <2>3 DEF Written
    <3>2. PICK i \in 1..n : c \in Lands(f, DOMAIN s[i])
      BY <3>1 DEF Cover, n
    <3> QED
      BY <1>1, <3>2
  <2> QED
    BY <2>2, <2>3
<1>4. Cover(Written(m, f, w), f, r, p)
  BY <1>1, <1>3 DEF Cover
<1> QED
  BY <1>2, <1>4 DEF r

\* A cell that one write only reaches.
LEMMA SoleWriter ==
  ASSUME NEW p \in Patches, NEW i \in DOMAIN Plan[p], NEW k \in DOMAIN Writes(Plan[p][i]),
         NEW q \in Patches, NEW h \in DOMAIN Plan[q], NEW l \in DOMAIN Writes(Plan[q][h]),
         NEW c \in Sole, c \in DOMAIN Writes(Plan[p][i])[k], c \in DOMAIN Writes(Plan[q][h])[l]
  PROVE  p = q /\ i = h /\ k = l
<1>1. ASSUME NEW o \in Patches, NEW x \in DOMAIN Plan[o], NEW y \in DOMAIN Writes(Plan[o][x]),
             c \in DOMAIN Writes(Plan[o][x])[y]
      PROVE  <<o, x, y>> \in WritersOf(c)
  <2>1. <<o, x, y>> \in {<<o, x, j>> : j \in DOMAIN Writes(Plan[o][x])}
    OBVIOUS
  <2>2. <<o, x, y>> \in UNION {{<<o, z, j>> : j \in DOMAIN Writes(Plan[o][z])} : z \in DOMAIN Plan[o]}
    BY <2>1
  <2>3. <<o, x, y>> \in WriteIds
    BY <2>2 DEF WriteIds
  <2> QED
    BY <1>1, <2>3 DEF WritersOf
<1>2. <<p, i, k>> \in WritersOf(c) /\ <<q, h, l>> \in WritersOf(c)
  BY <1>1
<1>3. <<p, i, k>> = <<q, h, l>>
  BY <1>2 DEF Sole
<1> QED
  BY <1>3

LEMMA CellIsWritten ==
  ASSUME NEW p \in Patches, NEW c \in CellsOf[p]
  PROVE  \E i \in DOMAIN Plan[p] : \E k \in DOMAIN Writes(Plan[p][i]) :
           c \in DOMAIN Writes(Plan[p][i])[k]
<1>1. CellsOf[p] = UNION {DOMAIN w : w \in WritesOf(p)}
  BY DEF CellsOf
<1>2. PICK w \in WritesOf(p) : c \in DOMAIN w
  BY <1>1
<1>3. PICK i \in DOMAIN Plan[p] : w \in {Writes(Plan[p][i])[j] : j \in DOMAIN Writes(Plan[p][i])}
  BY <1>2 DEF WritesOf
<1> QED
  BY <1>2, <1>3

LEMMA WrittenIsCell ==
  ASSUME NEW p \in Patches, NEW i \in DOMAIN Plan[p], NEW k \in DOMAIN Writes(Plan[p][i])
  PROVE  DOMAIN Writes(Plan[p][i])[k] \subseteq CellsOf[p]
<1>1. Writes(Plan[p][i])[k] \in WritesOf(p)
  <2>1. Writes(Plan[p][i])[k] \in {Writes(Plan[p][i])[j] : j \in DOMAIN Writes(Plan[p][i])}
    OBVIOUS
  <2> QED
    BY <2>1 DEF WritesOf
<1> QED
  BY <1>1 DEF CellsOf

\* What is still to come, when nothing was written and when no cell changes.
LEMMA AheadStays ==
  ASSUME NEW m, NEW n, NEW j, j.patch \in Patches
  PROVE  /\ Untouched(m, j.patch) => Ahead(m, j)
         /\ Fewer(n, m, j.patch) /\ Ahead(m, j) => Ahead(n, j)
BY WrittenIsCell DEF Untouched, Ahead, Fewer

\* What a request at loc owes its patch: a restore holds what it has to put
\* back and then has put it back; an apply starts on an untouched patch without
\* a record, has a backup for what it wrote, and has the rest ahead of it.
RequestCovers(m, f, s, loc, j) ==
  /\ j.op = "restore" /\ loc \in {"lock", "probe", "putback"} => Cover(m, f, j.saved, j.patch)
  /\ j.op = "restore" /\ loc \in {"unlock", "remove", "unmark"} => Untouched(m, j.patch)
  /\ j.op = "apply" /\ loc \in {"lock", "probe", "write", "rollback", "unlock", "store"} =>
       ~Holds(s, j.patch, j.pid)
  /\ j.op = "apply" /\ loc \in {"lock", "probe"} => Untouched(m, j.patch)
  /\ j.op = "apply" /\ loc = "unlock" /\ j.failed => Untouched(m, j.patch)
  /\ j.op = "apply" /\ loc \in {"write", "rollback", "unlock", "store"} =>
       Cover(m, f, j.saved, j.patch)
  /\ j.op = "apply" /\ loc = "write" => Ahead(m, j)

AllClean ==
  /\ \A i \in 1..Len(store) : Clean(store[i].lines)
  /\ \A t \in Threads : Clean(job[t].saved)
  /\ Clean(mon.lines)
StoreCovers ==
  \A i \in 1..Len(store) :
    Runs(store[i].pid) => Cover(mem, fault, store[i].lines, store[i].patch)
RequestsCover ==
  \A t \in Threads : Alive(t) => RequestCovers(mem, fault, store, pc[t], job[t])
MonitorCovers ==
  mon.pc = "undo" /\ Runs(mon.pid) =>
    /\ mon.lines # <<>> \/ mon.patch \in mon.undone => Cover(mem, fault, mon.lines, mon.patch)
    /\ \A q \in mon.undone \ {mon.patch} : Untouched(mem, q)
NotUndoing == mon.pc # "undo" => mon.undone = {} /\ mon.lines = <<>>

\* A request that has the bytes of its patch in hand.
Carrying(loc, j) ==
  \/ j.op = "restore" /\ loc \in {"lock", "probe", "putback"}
  \/ j.op = "apply" /\ loc \in {"write", "rollback", "unlock", "store"}
Carries(t, p) == Alive(t) /\ job[t].patch = p /\ Carrying(pc[t], job[t])
Kept ==
  \A p \in Patches \ lost :
    \/ gamePid = 0 \/ Untouched(mem, p) \/ Holds(store, p, gamePid)
    \/ \E t \in Threads : Carries(t, p)

CoverIInv ==
  /\ PatchIInv /\ Processes /\ Requests /\ Alone
  /\ AllClean /\ StoreCovers /\ RequestsCover /\ MonitorCovers /\ NotUndoing /\ Kept

LEMMA CleanRest ==
  ASSUME NEW s \in Seq(Bytes), s # <<>>, Clean(s)
  PROVE  /\ Clean(Front(s)) /\ Clean(Tail(s))
         /\ \A c \in Sole \cap DOMAIN Last(s) : Last(s)[c] = Original
         /\ \A c \in Sole \cap DOMAIN Head(s) : Head(s)[c] = Original
<1> DEFINE n == Len(s) - 1
           a == Front(s)
           b == Tail(s)
<1>1. /\ n \in Nat /\ Len(s) = n + 1 /\ Last(s) = s[n + 1] /\ Head(s) = s[1]
      /\ Len(a) = n /\ Len(b) = n
      /\ \A i \in 1..n : a[i] = s[i] /\ b[i] = s[i + 1]
  BY EndsTyped DEF Last
<1>2. n + 1 \in 1..(n + 1) /\ 1 \in 1..(n + 1) /\ \A i \in 1..n : i \in 1..(n + 1) /\ i + 1 \in 1..(n + 1)
  BY <1>1
<1> HIDE DEF a, b, n
<1>3. Clean(a) /\ Clean(b)
  BY <1>1, <1>2 DEF Clean
<1>4. /\ \A c \in Sole \cap DOMAIN Last(s) : Last(s)[c] = Original
      /\ \A c \in Sole \cap DOMAIN Head(s) : Head(s)[c] = Original
  BY <1>1, <1>2 DEF Clean
<1> QED
  BY <1>3, <1>4 DEF a, b

LEMMA PutBackFewer ==
  ASSUME NEW pid, NEW w, \A c \in Sole \cap DOMAIN w : w[c] = Original, PutBack(pid, w), NEW q
  PROVE  Fewer(mem', mem, q)
<1>1. mem' = mem \/ mem' = Written(mem, fault, w)
  BY AfterIsWritten DEF PutBack
<1>2. Fewer(mem, mem, q)
  BY DEF Fewer
<1> QED
  BY <1>1, <1>2, CleanWrite

\* The cells of a patch are changed by an apply of that patch only.
LEMMA CellsFall ==
  ASSUME PatchIInv, AllClean, [Next]_vars, ~StartGame, ~EndGame, NEW q \in Patches
  PROVE  Fewer(mem', mem, q) \/ \E t \in Threads : WriteBlock(t) /\ job[t].patch = q
<1>1. ASSUME NEW t \in Threads, WriteBlock(t), job[t].patch # q PROVE Fewer(mem', mem, q)
  <2> DEFINE w == WriteOf(t)
  <2>1. mem' = Written(mem, fault, w) /\ InPlan(t)
    BY <1>1, WriteFacts, AfterIsWritten DEF WriteBlock
  <2>2. /\ job[t].patch \in Patches /\ job[t].line \in DOMAIN Plan[job[t].patch]
        /\ job[t].part \in DOMAIN Writes(Plan[job[t].patch][job[t].line])
        /\ w = Writes(Plan[job[t].patch][job[t].line])[job[t].part]
    BY <2>1, JobFacts DEF InPlan, WriteOf, LineOf, Pointed
  <2> HIDE DEF w
  <2>3. ASSUME NEW c \in Sole \cap CellsOf[q], c \in Lands(fault, DOMAIN w) PROVE FALSE
    <3>1. c \in DOMAIN w
      BY <2>3 DEF Lands
    <3>2. PICK i \in DOMAIN Plan[q] : \E k \in DOMAIN Writes(Plan[q][i]) :
            c \in DOMAIN Writes(Plan[q][i])[k]
      BY CellIsWritten
    <3>3. PICK k \in DOMAIN Writes(Plan[q][i]) : c \in DOMAIN Writes(Plan[q][i])[k]
      BY <3>2
    <3>4. c \in Sole /\ c \in DOMAIN Writes(Plan[job[t].patch][job[t].line])[job[t].part]
      BY <2>2, <3>1
    <3>5. job[t].patch = q
      <4> DEFINE p == job[t].patch
                 h == job[t].line
                 l == job[t].part
      <4>1. /\ p \in Patches /\ h \in DOMAIN Plan[p] /\ l \in DOMAIN Writes(Plan[p][h])
            /\ c \in DOMAIN Writes(Plan[p][h])[l]
        BY <2>2, <3>4
      <4> HIDE DEF p, h, l
      <4>2. p = q
        BY <3>3, <3>4, <4>1, SoleWriter
      <4> QED
        BY <4>2 DEF p
    <3> QED
      BY <1>1, <3>5
  <2>4. Sole \subseteq Memory
    BY DEF Sole
  <2> QED
    BY <2>1, <2>3, <2>4 DEF Fewer, Written
<1>2. ASSUME NEW t \in Threads, Rollback(t) \/ RestoreBlock(t) PROVE Fewer(mem', mem, q)
  <2>1. CASE mem' = mem
    BY <2>1 DEF Fewer
  <2>2. CASE mem' # mem
    <3>1. /\ job[t].saved # <<>> /\ job[t].saved \in Seq(Bytes) /\ Clean(job[t].saved)
          /\ \/ PutBack(job[t].pid, Last(job[t].saved))
             \/ PutBack(job[t].pid, Head(job[t].saved))
      BY <1>2, <2>2, PutFacts, JobFacts DEF AllClean
    <3>2. /\ \A c \in Sole \cap DOMAIN Last(job[t].saved) : Last(job[t].saved)[c] = Original
          /\ \A c \in Sole \cap DOMAIN Head(job[t].saved) : Head(job[t].saved)[c] = Original
      BY <3>1, CleanRest
    <3> QED
      BY <3>1, <3>2, PutBackFewer
  <2> QED
    BY <2>1, <2>2
<1>3. CASE MonitorRestores
  <2>1. /\ mon.lines # <<>> /\ mon.lines \in Seq(Bytes) /\ Clean(mon.lines)
        /\ PutBack(mon.pid, Head(mon.lines))
    BY <1>3 DEF MonitorRestores, AllClean, PatchIInv, PatchTypes, MonitorTypes
  <2>2. \A c \in Sole \cap DOMAIN Head(mon.lines) : Head(mon.lines)[c] = Original
    BY <2>1, CleanRest
  <2> QED
    BY <2>1, <2>2, PutBackFewer
<1>4. CASE mem' = mem
  BY <1>4 DEF Fewer
<1> QED
  BY <1>1, <1>2, <1>3, <1>4, WriterHolds

LEMMA WriteCovers ==
  ASSUME CoverIInv, NEW t \in Threads, WriteBlock(t)
  PROVE  /\ Cover(mem', fault, job'[t].saved, job[t].patch) /\ Clean(job'[t].saved)
         /\ pc'[t] = "write" => Ahead(mem', job'[t])
<1> DEFINE w == WriteOf(t)
           p == job[t].patch
           i == job[t].line
           k == job[t].part
<1>1. /\ PatchIInv /\ Alive(t) /\ pc[t] = "write" /\ job[t].op = "apply" /\ InPlan(t)
      /\ mem' = Written(mem, fault, w) /\ job'[t].saved = Append(job[t].saved, Backup(w))
  BY WriteFacts, AfterIsWritten DEF WriteBlock, CoverIInv, Requests, RequestAt
<1>2. /\ p \in Patches /\ i \in DOMAIN Plan[p] /\ k \in DOMAIN Writes(Plan[p][i])
      /\ w = Writes(Plan[p][i])[k]
  BY <1>1, JobFacts DEF InPlan, WriteOf, LineOf, Pointed
<1>3. i \in Int /\ k \in Int /\ DOMAIN Plan[p] \subseteq Int
      /\ \A h \in DOMAIN Plan[p] : DOMAIN Writes(Plan[p][h]) \subseteq Int
  BY <1>1, <1>2, JobFacts, LineFacts
<1>4. Cover(mem, fault, job[t].saved, p) /\ Ahead(mem, job[t]) /\ Clean(job[t].saved)
  BY <1>1 DEF CoverIInv, RequestsCover, RequestCovers, AllClean
<1>5. \A h \in DOMAIN Plan[p] : \A l \in DOMAIN Writes(Plan[p][h]) :
        (h > i \/ (h = i /\ l >= k)) =>
          \A c \in Sole \cap DOMAIN Writes(Plan[p][h])[l] : mem[c] = Original
  BY <1>4 DEF Ahead
<1>6. \A c \in Sole \cap DOMAIN w : mem[c] = Original
  BY <1>2, <1>3, <1>5
<1>7. w \in Bytes /\ Backup(w) \in Bytes /\ Backup(w) = [c \in DOMAIN w |-> mem[c]]
  BY <1>1, WriteTyped, BackupTyped DEF Backup, PatchIInv, PatchTypes
<1>8. job[t].saved \in Seq(Bytes)
  BY <1>1, JobFacts
<1>9. Same(job[t], job'[t])
  BY <1>1, WriteFacts
<1>10. ASSUME pc'[t] = "write"
       PROVE  \/ job'[t].line = i /\ job'[t].part = k + 1
              \/ /\ job'[t].line = i + 1 /\ job'[t].part = 1
                 /\ \A l \in DOMAIN Writes(Plan[p][i]) : l <= k
  <2>1. \/ /\ job[t].part < Len(Writes(LineOf(t)))
           /\ job'[t].line = job[t].line /\ job'[t].part = job[t].part + 1
        \/ /\ ~(job[t].part < Len(Writes(LineOf(t))))
           /\ job'[t].line = job[t].line + 1 /\ job'[t].part = 1
    BY <1>1, <1>10, WriteFacts
  <2>2. /\ LineOf(t) = Plan[p][i] /\ Len(Writes(Plan[p][i])) \in Nat
        /\ DOMAIN Writes(Plan[p][i]) = 1..Len(Writes(Plan[p][i]))
    BY <1>2, LineFacts DEF LineOf
  <2> QED
    BY <1>3, <2>1, <2>2
<1> HIDE DEF w, p, i, k
<1>11. Cover(mem', fault, job'[t].saved, p) /\ Clean(job'[t].saved)
  BY <1>1, <1>4, <1>6, <1>7, <1>8, CoverMore
<1>12. ASSUME pc'[t] = "write", NEW h \in DOMAIN Plan[p], NEW l \in DOMAIN Writes(Plan[p][h]),
              h > job'[t].line \/ (h = job'[t].line /\ l >= job'[t].part),
              NEW c \in Sole, c \in DOMAIN Writes(Plan[p][h])[l]
       PROVE  mem'[c] = Original
  <2>1. h \in Int /\ l \in Int
    BY <1>3
  <2>2. (h > i \/ (h = i /\ l >= k)) /\ ~(h = i /\ l = k)
    BY <1>3, <1>10, <1>12, <2>1
  <2>3. mem[c] = Original
    BY <1>5, <1>12, <2>2
  <2>4. c \notin DOMAIN w
    BY <1>2, <1>12, <2>2, SoleWriter
  <2>5. c \in Memory
    BY DEF Sole
  <2> QED
    BY <1>1, <2>3, <2>4, <2>5 DEF Written, Lands
<1>13. job'[t].patch = p
  BY <1>9 DEF Same, p
<1>14. pc'[t] = "write" => Ahead(mem', job'[t])
  BY <1>12, <1>13 DEF Ahead
<1> QED
  BY <1>11, <1>14 DEF p

LEMMA AllCleanStep ==
  ASSUME CoverIInv, [Next]_vars
  PROVE  AllClean'
<1>1. PatchIInv /\ AllClean
  BY DEF CoverIInv
<1>2. Clean(<<>>)
  BY EmptySeq DEF Clean
<1>3. ASSUME NEW t \in Threads, Work(t) PROVE Clean(job'[t].saved)
  <2> USE <1>1, JobFacts
  <2>1. Clean(job[t].saved) /\ \A i \in 1..Len(store) : Clean(store[i].lines)
    BY DEF AllClean
  <2>2. CASE pc'[t] = "idle" /\ job'[t] = NoJob
    BY <1>2, <2>2 DEF NoJob
  <2>3. CASE CopyBackup(t) /\ pc'[t] # "idle"
    BY <2>1, <2>3, CopyFacts
  <2>4. CASE AcquireLock(t) \/ StoreBackup(t) \/ DropBackup(t)
    BY <2>1, <2>4 DEF AcquireLock, StoreBackup, DropBackup
  <2>5. CASE Probe(t)
    BY <2>1, <2>5, ProbeFacts
  <2>6. CASE SkipLine(t)
    BY <2>1, <2>6, SkipFacts
  <2>7. CASE ReadFails(t) \/ WritesDone(t)
    BY <2>1, <2>7, FailFacts
  <2>8. CASE WriteBlock(t)
    BY <2>8, WriteCovers
  <2>9. CASE Rollback(t) \/ RestoreBlock(t)
    BY <2>1, <2>9, PutFacts, CleanRest
  <2>10. CASE Unlock(t) /\ pc'[t] # "idle"
    BY <2>1, <2>10, LeaveFacts
  <2>11. CASE MarkApplied(t) \/ MarkUnapplied(t)
    BY <2>2, <2>11 DEF MarkApplied, MarkUnapplied, Finish, Go
  <2> QED
    BY <1>3, <2>2, <2>3, <2>4, <2>5, <2>6, <2>7, <2>8, <2>9, <2>10, <2>11, WorkFacts DEF Work
<1>4. \A t \in Threads : Clean(job'[t].saved)
  <2>1. ASSUME NEW t \in Threads, Work(t), NEW u \in Threads PROVE Clean(job'[u].saved)
    BY <1>1, <1>3, <2>1, OthersStay DEF AllClean
  <2>2. ASSUME NEW t \in Threads, NEW p \in Patches, RequestApply(t, p) \/ RequestRestore(t, p),
               NEW u \in Threads
        PROVE  Clean(job'[u].saved)
    BY <1>1, <1>2, <2>2, RequestFacts DEF AllClean
  <2>3. CASE UNCHANGED vars \/ StartGame \/ EndGame \/ Rescan \/ Poll \/ Undo
    <3>1. UNCHANGED job
      BY <2>3 DEF vars, StartGame, EndGame, Rescan, Poll, Undo, MonitorLooks, MonitorGivesUp,
        MonitorLocks, MonitorTakes, MonitorRestores, MonitorUnlocks, MonitorClears, MonitorUnmarks
    <3> QED
      BY <1>1, <3>1 DEF AllClean
  <2> QED
    BY <2>1, <2>2, <2>3 DEF Next
<1>5. ASSUME NEW i \in 1..Len(store') PROVE Clean(store'[i].lines)
  <2>1. \/ \E l \in 1..Len(store) : store'[i] = store[l]
        \/ \E t \in Threads : store'[i].lines = job[t].saved
    <3>1. \/ \E l \in 1..Len(store) : store'[i] = store[l]
          \/ \E t \in Threads : /\ StoreBackup(t)
                                /\ store'[i] = [patch |-> job[t].patch, pid |-> job[t].pid,
                                                lines |-> job[t].saved]
      BY <1>1, StoreSteps
    <3>2. ASSUME NEW t \in Threads,
                 store'[i] = [patch |-> job[t].patch, pid |-> job[t].pid, lines |-> job[t].saved]
          PROVE  store'[i].lines = job[t].saved
      BY ONLY <3>2
    <3> QED
      BY ONLY <3>1, <3>2
  <2> QED
    BY <1>1, <2>1 DEF AllClean
<1>6. Clean(mon'.lines)
  <2>1. Fields(mon) /\ mon.lines \in Seq(Bytes) /\ Clean(mon.lines) /\ TableTypes
    BY <1>1 DEF AllClean, PatchIInv, PatchTypes, MonitorTypes, LockIInv, Control
  <2>2. CASE Poll \/ MonitorUnmarks
    <3>1. mon'.lines = <<>> \/ mon' = mon
      BY <2>2, NoUndoFacts DEF Poll, MonitorUnmarks, NoUndo
    <3> QED
      BY <1>2, <2>1, <3>1
  <2>3. CASE MonitorLooks \/ MonitorGivesUp \/ MonitorLocks \/ MonitorUnlocks \/ MonitorClears
    <3>1. mon'.lines = mon.lines
      BY <2>1, <2>3 DEF MonitorLooks, MonitorGivesUp, MonitorLocks, MonitorUnlocks,
        MonitorClears, Fields
    <3> QED
      BY <2>1, <3>1
  <2>4. CASE MonitorRestores
    <3>1. mon.lines # <<>> /\ mon'.lines = Tail(mon.lines)
      BY <2>1, <2>4 DEF MonitorRestores, Fields
    <3> QED
      BY <2>1, <3>1, CleanRest
  <2>5. CASE MonitorTakes
    <3>1. \/ mon'.lines = <<>>
          \/ \E i \in 1..Len(store) : mon'.lines = store[i].lines
      <4>1. mon'.lines = IF SlotOf(Head(mon.todo), mon.pid) = {} THEN <<>>
                         ELSE store[CHOOSE i \in SlotOf(Head(mon.todo), mon.pid) :
                                \A j \in SlotOf(Head(mon.todo), mon.pid) : i <= j].lines
        BY <2>1, <2>5 DEF MonitorTakes, Fields
      <4> QED
        BY <2>1, <4>1, FirstSlot
    <3> QED
      BY <1>1, <1>2, <3>1 DEF AllClean
  <2>6. CASE UNCHANGED mon
    BY <2>1, <2>6
  <2>7. UNCHANGED mon \/ Poll \/ Undo
    <3>1. CASE UNCHANGED vars \/ StartGame \/ EndGame \/ Rescan
      BY <3>1 DEF vars, monitor, StartGame, EndGame, Rescan
    <3>2. ASSUME NEW t \in Threads,
                 Work(t) \/ \E p \in Patches : RequestApply(t, p) \/ RequestRestore(t, p)
          PROVE  UNCHANGED mon
      BY <1>1, <3>2, OthersStay, RequestFacts DEF monitor
    <3> QED
      BY <3>1, <3>2 DEF Next
  <2> QED
    BY <2>2, <2>3, <2>4, <2>5, <2>6, <2>7 DEF Undo
<1> QED
  BY <1>4, <1>5, <1>6 DEF AllClean

\* What the store holds of a patch, no request for it is writing.
LEMMA StoreCoversStep ==
  ASSUME CoverIInv, [Next]_vars, ~StartGame, ~EndGame
  PROVE  StoreCovers'
<1>1. /\ PatchIInv /\ AllClean /\ StoreCovers /\ UNCHANGED <<gamePid, fault>>
      /\ store \in Seq(Backups)
  BY StillAlive DEF CoverIInv, PatchIInv, PatchTypes, TableTypes
<1>2. SUFFICES ASSUME NEW k \in 1..Len(store'), gamePid # 0, gamePid = store'[k].pid
               PROVE  Cover(mem', fault, store'[k].lines, store'[k].patch)
  BY <1>1 DEF StoreCovers, Runs
<1>3. ASSUME NEW l \in 1..Len(store), store'[k] = store[l]
      PROVE  Cover(mem', fault, store'[k].lines, store'[k].patch)
  <2> DEFINE q == store[l].patch
  <2>1. store[l] \in Backups
    BY <1>1, ElementOfSeq
  <2>2. q \in Patches /\ Cover(mem, fault, store[l].lines, q)
    BY <1>1, <1>2, <1>3, <2>1 DEF StoreCovers, Runs, Backups
  <2> HIDE DEF q
  <2>3. ASSUME NEW t \in Threads, WriteBlock(t), job[t].patch = q PROVE FALSE
    <3>1. Alive(t) /\ pc[t] = "write" /\ job[t].op = "apply"
      BY <2>3 DEF WriteBlock, CoverIInv, Requests, RequestAt
    <3>2. ~Holds(store, q, job[t].pid)
      BY <2>3, <3>1 DEF CoverIInv, RequestsCover, RequestCovers
    <3>3. IsFor(store[l], q, job[t].pid)
      BY <1>2, <1>3, <3>1 DEF IsFor, Alive, Runs, q
    <3> QED
      BY <3>2, <3>3 DEF Holds
  <2>4. Fewer(mem', mem, q)
    BY <1>1, <2>2, <2>3, CellsFall
  <2>5. Cover(mem', fault, store[l].lines, q)
    BY <2>2, <2>4, FewerKeeps
  <2> QED
    BY <1>3, <2>5 DEF q
<1>4. ASSUME NEW t \in Threads, StoreBackup(t),
             store'[k] = [patch |-> job[t].patch, pid |-> job[t].pid, lines |-> job[t].saved]
      PROVE  Cover(mem', fault, store'[k].lines, store'[k].patch)
  <2>1. /\ store'[k].patch = job[t].patch /\ store'[k].pid = job[t].pid
        /\ store'[k].lines = job[t].saved
    BY ONLY <1>4
  <2>2. pc[t] = "store" /\ job[t].op = "apply" /\ mem' = mem /\ Alive(t)
    BY <1>2, <1>4, <2>1 DEF StoreBackup, CoverIInv, Requests, RequestAt, game, Alive, Runs
  <2>3. Cover(mem, fault, job[t].saved, job[t].patch)
    BY <2>2 DEF CoverIInv, RequestsCover, RequestCovers
  <2> QED
    BY <2>1, <2>2, <2>3
<1>5. \/ \E l \in 1..Len(store) : store'[k] = store[l]
      \/ \E t \in Threads : /\ StoreBackup(t)
                            /\ store'[k] = [patch |-> job[t].patch, pid |-> job[t].pid,
                                            lines |-> job[t].saved]
  BY <1>1, StoreSteps
<1> QED
  BY <1>3, <1>4, <1>5

LEMMA NotUndoingStep ==
  ASSUME PatchIInv, NotUndoing, [Next]_vars
  PROVE  NotUndoing'
<1>1. Fields(mon)
  BY DEF PatchIInv, LockIInv, Control
<1>2. CASE Poll \/ MonitorUnmarks
  <2>1. mon' = mon \/ mon' = NoUndo \/ mon' = [NoUndo EXCEPT !.pc = "stopped", !.pid = cached]
    BY <1>2 DEF Poll, MonitorUnmarks
  <2>2. /\ [NoUndo EXCEPT !.pc = "stopped", !.pid = cached].undone = {}
        /\ [NoUndo EXCEPT !.pc = "stopped", !.pid = cached].lines = <<>>
        /\ NoUndo.undone = {} /\ NoUndo.lines = <<>>
    BY DEF NoUndo
  <2>3. mon' = mon \/ (mon'.undone = {} /\ mon'.lines = <<>>)
    BY <2>1, <2>2
  <2> QED
    BY <2>3 DEF NotUndoing
<1>3. CASE MonitorLooks \/ MonitorGivesUp \/ MonitorLocks \/ MonitorClears
  <2>1. mon.pc # "undo" /\ mon'.undone = mon.undone /\ mon'.lines = mon.lines
    BY <1>1, <1>3 DEF MonitorLooks, MonitorGivesUp, MonitorLocks, MonitorClears, Fields
  <2> QED
    BY <2>1 DEF NotUndoing
<1>4. CASE MonitorTakes \/ MonitorRestores
  <2>1. mon'.pc = "undo"
    BY <1>1, <1>4 DEF MonitorTakes, MonitorRestores, Fields
  <2> QED
    BY <2>1 DEF NotUndoing
<1>5. CASE MonitorUnlocks
  <2>1. mon.lines = <<>> /\ mon'.undone = {} /\ mon'.lines = mon.lines
    BY <1>1, <1>5 DEF MonitorUnlocks, Fields
  <2> QED
    BY <2>1 DEF NotUndoing
<1>6. CASE UNCHANGED mon
  BY <1>6 DEF NotUndoing
<1>7. UNCHANGED mon \/ Poll \/ Undo
  <2>1. CASE UNCHANGED vars \/ StartGame \/ EndGame \/ Rescan
    BY <2>1 DEF vars, monitor, StartGame, EndGame, Rescan
  <2>2. ASSUME NEW t \in Threads,
               Work(t) \/ \E p \in Patches : RequestApply(t, p) \/ RequestRestore(t, p)
        PROVE  UNCHANGED mon
    BY <2>2, OthersStay, RequestFacts DEF monitor
  <2> QED
    BY <2>1, <2>2 DEF Next
<1> QED
  BY <1>2, <1>3, <1>4, <1>5, <1>6, <1>7 DEF Undo

\* What the monitor has in hand, or has put back, stays so while it undoes: it
\* holds the lock.
LEMMA MonitorCoversStep ==
  ASSUME CoverIInv, [Next]_vars, ~StartGame, ~EndGame
  PROVE  MonitorCovers'
<1>1. /\ PatchIInv /\ AllClean /\ MonitorCovers /\ NotUndoing /\ StoreCovers /\ Fields(mon)
      /\ UNCHANGED <<gamePid, fault>> /\ TableTypes /\ mon.lines \in Seq(Bytes)
  BY StillAlive DEF CoverIInv, PatchIInv, PatchTypes, MonitorTypes, LockIInv, Control
<1> DEFINE Cov(m, x) == x.lines # <<>> \/ x.patch \in x.undone => Cover(m, fault, x.lines, x.patch)
           Und(m, x) == \A q \in x.undone \ {x.patch} : Untouched(m, q)
<1>2. SUFFICES ASSUME mon'.pc = "undo", gamePid # 0, gamePid = mon'.pid
               PROVE  Cov(mem', mon') /\ Und(mem', mon')
  BY <1>1 DEF MonitorCovers, Runs
<1>3. mon.pc = "undo" /\ gamePid = mon.pid => Cov(mem, mon) /\ Und(mem, mon)
  BY <1>1, <1>2 DEF MonitorCovers, Runs
<1>4. CASE MonitorLocks
  <2>1. mon.pc # "undo" /\ mon'.undone = mon.undone /\ mon'.lines = mon.lines
    BY <1>1, <1>4 DEF MonitorLocks, Fields
  <2>2. mon'.undone = {} /\ mon'.lines = <<>>
    BY <1>1, <2>1 DEF NotUndoing
  <2> QED
    BY <2>2
<1>5. CASE MonitorTakes
  <2> DEFINE p == Head(mon.todo)
  <2>1. /\ mon.pc = "undo" /\ mon.lines = <<>> /\ mem' = mem /\ gamePid = mon.pid
        /\ mon'.patch = p /\ mon'.undone = mon.undone /\ mon'.pid = mon.pid
        /\ mon'.lines = IF SlotOf(p, mon.pid) = {} THEN <<>>
                        ELSE store[CHOOSE i \in SlotOf(p, mon.pid) :
                                     \A j \in SlotOf(p, mon.pid) : i <= j].lines
    BY <1>1, <1>2, <1>5 DEF MonitorTakes, Fields, game
  <2> HIDE DEF p
  <2>2. /\ mon.patch \in mon.undone => Untouched(mem, mon.patch)
        /\ Und(mem, mon)
    BY <1>3, <2>1, CoverNothing
  <2>3. \A q \in mon.undone : Untouched(mem, q)
    BY <2>2
  <2>4. CASE SlotOf(p, mon.pid) = {}
    BY <2>1, <2>3, <2>4, CoverNothing
  <2>5. CASE SlotOf(p, mon.pid) # {}
    <3> DEFINE i == CHOOSE i \in SlotOf(p, mon.pid) : \A j \in SlotOf(p, mon.pid) : i <= j
    <3>1. mon'.lines = store[i].lines
      BY <2>1, <2>5
    <3>3. i \in 1..Len(store) /\ IsFor(store[i], p, mon.pid)
      BY <1>1, <2>5, FirstSlot
    <3> HIDE DEF i
    <3>2. Cover(mem, fault, store[i].lines, p)
      BY <1>1, <1>2, <2>1, <3>3 DEF StoreCovers, Runs, IsFor
    <3> QED
      BY <2>1, <2>3, <3>1, <3>2
  <2> QED
    BY <2>4, <2>5
<1>6. CASE MonitorRestores
  <2> DEFINE s == mon.lines
  <2>1. /\ mon.pc = "undo" /\ s # <<>> /\ mon'.lines = Tail(s) /\ mon'.patch = mon.patch
        /\ mon'.undone = mon.undone \cup {mon.patch} /\ mon'.pid = mon.pid
        /\ PutBack(mon.pid, Head(s)) /\ Clean(s) /\ s \in Seq(Bytes)
    BY <1>1, <1>6 DEF MonitorRestores, Fields, AllClean
  <2>2. mem' = Written(mem, fault, Head(s))
    BY <1>2, <2>1, AfterIsWritten DEF PutBack, Runs
  <2> HIDE DEF s
  <2>3. Cover(mem, fault, s, mon.patch) /\ Und(mem, mon)
    BY <1>2, <1>3, <2>1 DEF s
  <2>4. Cover(mem', fault, Tail(s), mon.patch) /\ \A q : Fewer(mem', mem, q)
    BY <2>1, <2>2, <2>3, CoverRest
  <2>5. Und(mem', mon)
    BY <2>3, <2>4, FewerKeeps
  <2> QED
    BY <2>1, <2>4, <2>5
<1>7. CASE UNCHANGED mon
  <2>1. mon.pc = "undo" /\ lock = Monitor
    BY <1>1, <1>2, <1>7 DEF PatchIInv, LockIInv, Holders
  <2>2. \A t \in Threads : ~WriteBlock(t)
    <3>1. ASSUME NEW t \in Threads, WriteBlock(t) PROVE FALSE
      <4>1. pc[t] \in Locked
        BY <3>1 DEF WriteBlock, Locked
      <4>2. lock = t
        BY <1>1, <4>1 DEF PatchIInv, LockIInv, Holders
      <4> QED
        BY <2>1, <4>2, PatchAssumption
    <3> QED
      BY <3>1
  <2>3. \A q \in Patches : Fewer(mem', mem, q)
    BY <1>1, <2>2, CellsFall
  <2>4. /\ mon.undone \subseteq Patches
        /\ (mon.lines # <<>> \/ mon.patch \in mon.undone => mon.patch \in Patches)
    BY <1>1 DEF PatchIInv, PatchTypes, MonitorTypes
  <2>5. Cov(mem, mon) /\ Und(mem, mon)
    BY <1>2, <1>3, <1>7, <2>1
  <2> QED
    BY <1>7, <2>3, <2>4, <2>5, FewerKeeps
<1>8. UNCHANGED mon \/ MonitorLocks \/ MonitorTakes \/ MonitorRestores
  <2>1. CASE UNCHANGED vars \/ Rescan
    BY <2>1 DEF vars, monitor, Rescan
  <2>2. ASSUME NEW t \in Threads,
               Work(t) \/ \E p \in Patches : RequestApply(t, p) \/ RequestRestore(t, p)
        PROVE  UNCHANGED mon
    BY <1>1, <2>2, OthersStay, RequestFacts DEF monitor
  <2>3. CASE Poll
    <3>1. mon' = mon \/ mon' = [NoUndo EXCEPT !.pc = "stopped", !.pid = cached]
      BY <2>3 DEF Poll
    <3> QED
      BY <1>2, <3>1 DEF NoUndo
  <2>4. ~MonitorLooks /\ ~MonitorGivesUp /\ ~MonitorUnlocks /\ ~MonitorClears /\ ~MonitorUnmarks
    BY <1>1, <1>2, NoUndoFacts DEF MonitorLooks, MonitorGivesUp, MonitorUnlocks, MonitorClears,
      MonitorUnmarks, Fields
  <2> QED
    BY <2>1, <2>2, <2>3, <2>4 DEF Next, Undo
<1> QED
  BY <1>4, <1>5, <1>6, <1>7, <1>8

\* Nobody else makes a record of a patch a request is at work on.
LEMMA NoNewRecord ==
  ASSUME PatchIInv, Alone, [Next]_vars, NEW t \in Threads, pc[t] # "idle", ~StoreBackup(t),
         ~Holds(store, job[t].patch, job[t].pid)
  PROVE  ~Holds(store', job[t].patch, job[t].pid)
<1>1. SUFFICES ASSUME NEW k \in 1..Len(store'), IsFor(store'[k], job[t].patch, job[t].pid)
               PROVE  FALSE
  BY DEF Holds
<1>2. ASSUME NEW l \in 1..Len(store), store'[k] = store[l] PROVE FALSE
  <2>1. IsFor(store[l], job[t].patch, job[t].pid)
    BY <1>1, <1>2
  <2> QED
    BY <2>1 DEF Holds
<1>3. ASSUME NEW u \in Threads, StoreBackup(u),
             store'[k] = [patch |-> job[u].patch, pid |-> job[u].pid, lines |-> job[u].saved]
      PROVE  FALSE
  <2>1. store'[k].patch = job[u].patch
    BY ONLY <1>3
  <2>2. job[u].patch = job[t].patch /\ pc[u] # "idle"
    BY <1>1, <1>3, <2>1 DEF IsFor, StoreBackup
  <2> QED
    BY <1>3, <2>2 DEF Alone
<1>4. \/ \E l \in 1..Len(store) : store'[k] = store[l]
      \/ \E u \in Threads : /\ StoreBackup(u)
                            /\ store'[k] = [patch |-> job[u].patch, pid |-> job[u].pid,
                                            lines |-> job[u].saved]
  BY StoreSteps
<1> QED
  BY <1>2, <1>3, <1>4

\* What the others do while a request stands still.
LEMMA StandingCovers ==
  ASSUME CoverIInv, [Next]_vars, ~StartGame, ~EndGame,
         NEW t \in Threads, ~Work(t), UNCHANGED <<pc[t], job[t]>>, Alive(t)
  PROVE  RequestCovers(mem', fault, store', pc'[t], job'[t])
<1>1. /\ PatchIInv /\ AllClean /\ Alone /\ job[t].patch \in Patches
      /\ RequestCovers(mem, fault, store, pc[t], job[t])
  BY JobFacts DEF CoverIInv, RequestsCover
<1>2. CASE pc[t] = "idle"
  BY <1>2 DEF RequestCovers
<1>3. CASE pc[t] # "idle"
  <2>1. ASSUME NEW u \in Threads, WriteBlock(u), job[u].patch = job[t].patch PROVE FALSE
    <3>1. pc[u] # "idle"
      BY <2>1 DEF WriteBlock
    <3>2. u = t
      BY <1>1, <1>3, <2>1, <3>1 DEF Alone
    <3> QED
      BY <2>1, <3>2 DEF Work
  <2>2. Fewer(mem', mem, job[t].patch)
    BY <1>1, <2>1, CellsFall
  <2>3. ~Holds(store, job[t].patch, job[t].pid) => ~Holds(store', job[t].patch, job[t].pid)
    BY <1>1, <1>3, NoNewRecord DEF Work
  <2>4. /\ Cover(mem, fault, job[t].saved, job[t].patch) => Cover(mem', fault, job[t].saved, job[t].patch)
        /\ Untouched(mem, job[t].patch) => Untouched(mem', job[t].patch)
    BY <2>2, FewerKeeps
  <2>5. Ahead(mem, job[t]) => Ahead(mem', job[t])
    BY <1>1, <2>2, AheadStays
  <2> QED
    BY <1>1, <2>3, <2>4, <2>5 DEF RequestCovers
<1> QED
  BY <1>2, <1>3

\* A request that is made finds its patch untouched, or has bytes to look for.
LEMMA NewCovers ==
  ASSUME ~Again, CoverIInv, NEW t \in Threads, NEW p \in Patches,
         RequestApply(t, p) \/ RequestRestore(t, p)
  PROVE  RequestCovers(mem', fault, store', pc'[t], job'[t])
<1>1. PatchIInv /\ gamePid # 0 /\ UNCHANGED <<mem, store>> /\ ~Busy(p)
  BY RequestFacts DEF CoverIInv, Allowed, game, tables
<1>2. CASE RequestRestore(t, p)
  <2>1. pc'[t] = "copy"
    BY <1>1, <1>2, JobFacts DEF RequestRestore, Go
  <2> QED
    BY <2>1 DEF RequestCovers
<1>3. CASE ~RequestRestore(t, p)
  <2>1. /\ pc'[t] = "lock" /\ job'[t].op = "apply" /\ job'[t].patch = p /\ job'[t].pid = gamePid
        /\ Fresh(p)
    BY <1>1, <1>3, RequestFacts
  <2>2. p \notin lost /\ ~Holds(store, p, gamePid)
    BY <1>1, <2>1, HoldsIsSlot DEF Fresh
  <2>3. ~\E u \in Threads : Carries(u, p)
    BY <1>1 DEF Carries, Carrying, Busy
  <2>4. Untouched(mem, p)
    BY <1>1, <2>2, <2>3 DEF CoverIInv, Kept
  <2> QED
    BY <1>1, <2>1, <2>2, <2>4 DEF RequestCovers
<1> QED
  BY <1>2, <1>3

\* The steps of a request.
LEMMA WorkingCovers ==
  ASSUME CoverIInv, [Next]_vars, NEW t \in Threads, Work(t), Alive(t)
  PROVE  RequestCovers(mem', fault, store', pc'[t], job'[t])
<1> DEFINE j == job[t]
           k == job'[t]
<1>1. /\ PatchIInv /\ Alone /\ AllClean /\ RequestCovers(mem, fault, store, pc[t], j)
      /\ RequestAt(pc[t], j) /\ j.patch \in Patches /\ j.saved \in Seq(Bytes)
      /\ UNCHANGED fault
  BY JobFacts, OthersStay DEF CoverIInv, RequestsCover, Requests
<1>2. pc[t] # "idle"
  BY DEF Work, CopyBackup, AcquireLock, Probe, SkipLine, ReadFails, WriteBlock,
    WritesDone, Rollback, RestoreBlock, Unlock, StoreBackup, MarkApplied, DropBackup,
    MarkUnapplied
<1>3. ASSUME ~StoreBackup(t), ~Holds(store, j.patch, j.pid) PROVE ~Holds(store', j.patch, j.pid)
  BY <1>1, <1>2, <1>3, NoNewRecord
<1>4. CASE pc'[t] = "idle"
  BY <1>4 DEF RequestCovers
<1>5. CASE CopyBackup(t) /\ pc'[t] # "idle"
  <2>1. /\ pc'[t] = "lock" /\ Same(j, k) /\ j.op = "restore" /\ mem' = mem
        /\ \E i \in 1..Len(store) : IsFor(store[i], j.patch, j.pid) /\ k.saved = store[i].lines
    BY <1>1, <1>5, CopyFacts DEF CopyBackup, RequestAt, game
  <2>2. Cover(mem, fault, k.saved, j.patch)
    BY <2>1 DEF CoverIInv, StoreCovers, IsFor, Alive
  <2> QED
    BY <2>1, <2>2 DEF RequestCovers, Same
<1>6. CASE AcquireLock(t)
  <2>1. pc[t] = "lock" /\ pc'[t] = "probe" /\ k = j /\ mem' = mem /\ store' = store
    BY <1>1, <1>6, JobFacts DEF AcquireLock, Go, game, tables
  <2> QED
    BY <1>1, <2>1 DEF RequestCovers
<1>7. CASE Probe(t)
  <2>1. /\ Same(j, k) /\ k.saved = j.saved /\ k.line = j.line /\ k.part = j.part
        /\ pc[t] = "probe" /\ mem' = mem /\ store' = store
        /\ \/ pc'[t] = "unlock" /\ j.op = "apply"
           \/ pc'[t] = IF j.op = "apply" THEN "write" ELSE "putback"
    BY <1>1, <1>7, ProbeFacts DEF Probe, game, tables
  <2>2. j.op \in {"apply", "restore"}
    BY <1>1, <2>1 DEF RequestAt
  <2>3. CASE j.op = "apply"
    <3>1. Untouched(mem, j.patch) /\ ~Holds(store, j.patch, j.pid) /\ j.saved = <<>>
      BY <1>1, <2>1, <2>3 DEF RequestCovers, RequestAt
    <3>2. Cover(mem, fault, j.saved, j.patch) /\ Ahead(mem, k)
      BY <1>1, <2>1, <3>1, CoverNothing, AheadStays DEF Same
    <3> QED
      BY <2>1, <2>3, <3>1, <3>2 DEF RequestCovers, Same
  <2>4. CASE j.op = "restore"
    BY <1>1, <2>1, <2>4 DEF RequestCovers, Same
  <2> QED
    BY <2>2, <2>3, <2>4
<1>8. CASE SkipLine(t)
  <2>1. /\ Same(j, k) /\ k.saved = j.saved /\ k.line = j.line + 1 /\ k.part = j.part
        /\ pc[t] = "write" /\ pc'[t] = "write" /\ mem' = mem /\ store' = store /\ InPlan(t)
        /\ j.op = "apply"
    BY <1>1, <1>8, SkipFacts DEF SkipLine, game, tables, RequestAt
  <2>2. j.line \in Int /\ DOMAIN Plan[j.patch] \subseteq Int
    BY <1>1, <2>1, LineFacts DEF InPlan
  <2>3. Ahead(mem, j)
    BY <1>1, <2>1 DEF RequestCovers
  <2>4. ASSUME NEW h \in DOMAIN Plan[j.patch], NEW l \in DOMAIN Writes(Plan[j.patch][h]),
               h > k.line \/ (h = k.line /\ l >= k.part)
        PROVE  h > j.line
    BY <2>1, <2>2, <2>4
  <2>5. Ahead(mem, k)
    BY <2>1, <2>3, <2>4 DEF Ahead, Same
  <2> QED
    BY <1>1, <2>1, <2>5 DEF RequestCovers, Same
<1>9. CASE ReadFails(t) \/ WritesDone(t)
  <2>1. /\ Same(j, k) /\ k.saved = j.saved /\ pc[t] = "write" /\ mem' = mem /\ store' = store
        /\ pc'[t] = "rollback" \/ (pc'[t] = "unlock" /\ k = j)
        /\ j.op = "apply" /\ ~j.failed
    BY <1>1, <1>9, FailFacts DEF ReadFails, WritesDone, game, tables, RequestAt
  <2> QED
    BY <1>1, <2>1 DEF RequestCovers, Same
<1>10. CASE WriteBlock(t)
  <2>1. /\ Same(j, k) /\ store' = store /\ pc[t] = "write" /\ j.op = "apply"
        /\ pc'[t] \in {"write", "rollback"}
    BY <1>1, <1>10, WriteFacts DEF WriteBlock, tables, RequestAt
  <2>2. /\ Cover(mem', fault, k.saved, j.patch)
        /\ pc'[t] = "write" => Ahead(mem', k)
    BY <1>10, WriteCovers
  <2> QED
    BY <1>1, <2>1, <2>2 DEF RequestCovers, Same
<1>11. CASE Rollback(t) \/ RestoreBlock(t)
  <2>1. /\ Same(j, k) /\ store' = store /\ k.failed = j.failed
        /\ \/ pc[t] = "rollback" /\ j.op = "apply"
           \/ pc[t] = "putback" /\ j.op = "restore"
    BY <1>1, <1>11, PutFacts DEF Rollback, RestoreBlock, tables, RequestAt
  <2>2. Cover(mem, fault, j.saved, j.patch) /\ Clean(j.saved)
        /\ (j.op = "apply" => ~Holds(store, j.patch, j.pid))
    BY <1>1, <2>1 DEF RequestCovers, AllClean
  <2>3. CASE j.saved # <<>>
    <3>1. /\ pc'[t] = pc[t]
          /\ \/ /\ k.saved = Front(j.saved) /\ mem' = Written(mem, fault, Last(j.saved))
             \/ /\ k.saved = Tail(j.saved) /\ mem' = Written(mem, fault, Head(j.saved))
      BY <1>1, <1>11, <2>3, PutFacts, AfterIsWritten DEF PutBack, Alive
    <3>2. Cover(mem', fault, k.saved, j.patch)
      BY <1>1, <2>2, <2>3, <3>1, CoverRest
    <3> QED
      BY <2>1, <2>2, <3>1, <3>2 DEF RequestCovers, Same
  <2>4. CASE j.saved = <<>>
    <3>1. mem' = mem /\ k = j /\ pc'[t] = "unlock"
      BY <1>1, <1>11, <2>4, PutFacts
    <3>2. Untouched(mem, j.patch)
      BY <2>2, <2>4, CoverNothing
    <3> QED
      BY <2>1, <2>2, <3>1, <3>2 DEF RequestCovers
  <2> QED
    BY <2>3, <2>4
<1>12. CASE Unlock(t) /\ pc'[t] # "idle"
  <2>1. /\ k = j /\ mem' = mem /\ store' = store /\ pc[t] = "unlock"
        /\ pc'[t] = IF j.op = "apply" THEN "store" ELSE "remove"
    BY <1>1, <1>12, LeaveFacts DEF Unlock, game, tables
  <2> QED
    BY <1>1, <2>1 DEF RequestCovers, RequestAt
<1>13. CASE StoreBackup(t)
  <2>1. pc'[t] = "mark"
    BY <1>1, <1>13, JobFacts DEF StoreBackup, Go
  <2> QED
    BY <2>1 DEF RequestCovers
<1>14. CASE DropBackup(t)
  <2>1. pc[t] = "remove" /\ pc'[t] = "unmark" /\ k = j /\ mem' = mem /\ j.op = "restore"
    BY <1>1, <1>14, JobFacts DEF DropBackup, Go, game, RequestAt
  <2> QED
    BY <1>1, <2>1 DEF RequestCovers
<1>15. CASE MarkApplied(t) \/ MarkUnapplied(t)
  <2>1. pc'[t] = "idle"
    BY <1>1, <1>15, JobFacts DEF MarkApplied, MarkUnapplied, Finish, Go
  <2> QED
    BY <1>4, <2>1
<1> QED
  BY <1>4, <1>5, <1>6, <1>7, <1>8, <1>9, <1>10, <1>11, <1>12, <1>13, <1>14, <1>15 DEF Work

LEMMA RequestsCoverStep ==
  ASSUME ~Again, CoverIInv, [Next]_vars, ~StartGame, ~EndGame
  PROVE  RequestsCover'
<1>1. PatchIInv /\ UNCHANGED <<gamePid, fault>>
  BY StillAlive DEF CoverIInv
<1>2. SUFFICES ASSUME NEW t \in Threads, gamePid # 0, gamePid = job'[t].pid
               PROVE  RequestCovers(mem', fault, store', pc'[t], job'[t])
  BY <1>1 DEF RequestsCover, Alive, Runs
<1>3. CASE Work(t)
  <2>1. (pc'[t] = "idle" /\ job'[t] = NoJob) \/ job'[t].pid = job[t].pid
    BY <1>1, <1>3, WorkFacts DEF Same
  <2>2. CASE pc'[t] = "idle"
    BY <2>2 DEF RequestCovers
  <2>3. CASE job'[t].pid = job[t].pid
    <3>1. Alive(t)
      BY <1>2, <2>3 DEF Alive, Runs
    <3> QED
      BY <1>3, <3>1, WorkingCovers
  <2> QED
    BY <2>1, <2>2, <2>3
<1>4. ASSUME NEW p \in Patches, RequestApply(t, p) \/ RequestRestore(t, p)
      PROVE  RequestCovers(mem', fault, store', pc'[t], job'[t])
  BY <1>1, <1>4, NewCovers
<1>5. CASE ~Work(t) /\ UNCHANGED <<pc[t], job[t]>>
  <2>1. Alive(t)
    BY <1>2, <1>5 DEF Alive, Runs
  <2> QED
    BY <1>5, <2>1, StandingCovers
<1>6. \/ Work(t) \/ UNCHANGED <<pc[t], job[t]>>
      \/ \E p \in Patches : RequestApply(t, p) \/ RequestRestore(t, p)
  <2>1. CASE UNCHANGED vars \/ StartGame \/ EndGame \/ Rescan \/ Poll \/ Undo
    BY <2>1 DEF vars, StartGame, EndGame, Rescan, Poll, Undo, MonitorLooks, MonitorGivesUp,
      MonitorLocks, MonitorTakes, MonitorRestores, MonitorUnlocks, MonitorClears, MonitorUnmarks
  <2>2. ASSUME NEW u \in Threads \ {t}, Work(u) PROVE UNCHANGED <<pc[t], job[t]>>
    BY <1>1, <2>2, OthersStay
  <2>3. ASSUME NEW u \in Threads \ {t}, NEW p \in Patches,
               RequestApply(u, p) \/ RequestRestore(u, p)
        PROVE  UNCHANGED <<pc[t], job[t]>>
    BY <1>1, <2>3, RequestFacts
  <2> QED
    BY <2>1, <2>2, <2>3 DEF Next
<1> QED
  BY <1>3, <1>4, <1>5, <1>6

\* What became of the bytes a request had in hand.
LEMMA CarriedOn ==
  ASSUME CoverIInv, [Next]_vars, NEW t \in Threads, NEW p \in Patches, Carries(t, p), Work(t)
  PROVE  \/ Untouched(mem', p) \/ Holds(store', p, gamePid) \/ p \in lost'
         \/ Carrying(pc'[t], job'[t]) /\ Same(job[t], job'[t])
<1> DEFINE j == job[t]
           k == job'[t]
<1>1. /\ PatchIInv /\ RequestCovers(mem, fault, store, pc[t], j) /\ RequestAt(pc[t], j)
      /\ j.patch = p /\ j.pid = gamePid /\ Carrying(pc[t], j) /\ Alive(t) /\ j.saved \in Seq(Bytes)
  BY JobFacts DEF CoverIInv, RequestsCover, Requests, Carries, Alive, Runs
<1>2. CASE CopyBackup(t) \/ MarkApplied(t) \/ DropBackup(t) \/ MarkUnapplied(t)
  <2>1. pc[t] \in {"copy", "mark", "remove", "unmark"}
    BY <1>2 DEF CopyBackup, MarkApplied, DropBackup, MarkUnapplied
  <2> QED
    BY <1>1, <2>1 DEF Carrying
<1>3. CASE AcquireLock(t)
  <2>1. pc[t] = "lock" /\ pc'[t] = "probe" /\ k = j
    BY <1>1, <1>3, JobFacts DEF AcquireLock, Go
  <2> QED
    BY <1>1, <2>1 DEF Carrying, Same
<1>4. CASE Probe(t)
  <2>1. /\ pc[t] = "probe" /\ Same(j, k)
        /\ \/ pc'[t] = "unlock" /\ j.op = "apply"
           \/ pc'[t] = IF j.op = "apply" THEN "write" ELSE "putback"
    BY <1>1, <1>4, ProbeFacts DEF Probe
  <2> QED
    BY <1>1, <2>1 DEF Carrying, Same
<1>5. CASE SkipLine(t)
  <2>1. pc[t] = "write" /\ pc'[t] = "write" /\ Same(j, k)
    BY <1>1, <1>5, SkipFacts DEF SkipLine
  <2> QED
    BY <1>1, <2>1 DEF Carrying, Same
<1>6. CASE ReadFails(t) \/ WritesDone(t)
  <2>1. pc[t] = "write" /\ pc'[t] \in {"rollback", "unlock"} /\ Same(j, k)
    BY <1>1, <1>6, FailFacts DEF ReadFails, WritesDone
  <2> QED
    BY <1>1, <2>1 DEF Carrying, Same
<1>7. CASE WriteBlock(t)
  <2>1. pc[t] = "write" /\ pc'[t] \in {"write", "rollback"} /\ Same(j, k)
    BY <1>1, <1>7, WriteFacts DEF WriteBlock
  <2> QED
    BY <1>1, <2>1 DEF Carrying, Same
<1>8. CASE Rollback(t) \/ RestoreBlock(t)
  <2>1. /\ Same(j, k)
        /\ \/ pc[t] = "rollback" /\ j.op = "apply"
           \/ pc[t] = "putback" /\ j.op = "restore"
    BY <1>1, <1>8, PutFacts DEF Rollback, RestoreBlock, RequestAt
  <2>2. CASE j.saved # <<>>
    <3>1. pc'[t] = pc[t]
      BY <1>1, <1>8, <2>2, PutFacts
    <3> QED
      BY <2>1, <3>1 DEF Carrying, Same
  <2>3. CASE j.saved = <<>>
    <3>1. mem' = mem
      BY <1>1, <1>8, <2>3, PutFacts
    <3>2. Cover(mem, fault, <<>>, p)
      BY <1>1, <2>1, <2>3 DEF RequestCovers
    <3> QED
      BY <3>1, <3>2, CoverNothing
  <2> QED
    BY <2>2, <2>3
<1>9. CASE Unlock(t)
  <2>1. pc[t] = "unlock" /\ j.op = "apply" /\ mem' = mem
    BY <1>1, <1>9 DEF Unlock, Carrying, game
  <2>2. CASE j.failed
    BY <1>1, <2>1, <2>2 DEF RequestCovers
  <2>3. CASE ~j.failed
    <3>1. pc'[t] = "store" /\ k = j
      BY <1>1, <1>9, <2>1, <2>3, LeaveFacts
    <3> QED
      BY <2>1, <3>1 DEF Carrying, Same
  <2> QED
    BY <2>2, <2>3
<1>10. CASE StoreBackup(t)
  <2> DEFINE rec == [patch |-> job[t].patch, pid |-> job[t].pid, lines |-> job[t].saved]
  <2>1. rec \in Backups /\ rec.patch = p /\ rec.pid = gamePid
    BY <1>1, JobFacts DEF Backups
  <2>2. /\ store' = Stored(rec, SlotOf(rec.patch, rec.pid))
        /\ SlotOf(rec.patch, rec.pid) = {} /\ Len(store) = Slots =>
             lost' = lost \cup {rec.patch}
    BY <1>1, <1>10 DEF StoreBackup
  <2> HIDE DEF rec
  <2>3. \/ \E l \in 1..Len(store') : store'[l] = rec
        \/ SlotOf(rec.patch, rec.pid) = {} /\ Len(store) = Slots
    BY <1>1, <2>1, <2>2, StoredFacts DEF PatchIInv, PatchTypes
  <2> QED
    BY <2>1, <2>2, <2>3 DEF Holds, IsFor
<1> QED
  BY <1>2, <1>3, <1>4, <1>5, <1>6, <1>7, <1>8, <1>9, <1>10 DEF Work

\* Of what the monitor drops, the patches it has not put back are lost.
LEMMA ClearedCovers ==
  ASSUME CoverIInv, [Next]_vars, MonitorUnlocks \/ MonitorClears, NEW i \in 1..Len(store),
         store[i].pid = mon.pid, gamePid # 0, gamePid = mon.pid
  PROVE  store[i].patch \in lost' \/ Untouched(mem', store[i].patch)
<1>1. lost' = lost \cup Forgotten(mon.pid) /\ mem' = mem
  BY DEF MonitorUnlocks, MonitorClears, Clear, game
<1>2. DOMAIN store = 1..Len(store)
  BY LenProperties DEF CoverIInv, PatchIInv, PatchTypes, TableTypes
<1>3. CASE store[i].patch \notin mon.undone
  BY <1>1, <1>2, <1>3 DEF Forgotten, Runs
<1>4. CASE store[i].patch \in mon.undone
  <2>1. mon.pc = "undo" /\ mon.lines = <<>>
    BY <1>4 DEF CoverIInv, NotUndoing, MonitorUnlocks, MonitorClears
  <2>2. /\ \A q \in mon.undone \ {mon.patch} : Untouched(mem, q)
        /\ mon.patch \in mon.undone => Cover(mem, fault, <<>>, mon.patch)
    BY <2>1 DEF CoverIInv, MonitorCovers, Runs
  <2> QED
    BY <1>1, <1>4, <2>2, CoverNothing
<1> QED
  BY <1>3, <1>4

LEMMA KeptStep ==
  ASSUME CoverIInv, [Next]_vars, ~StartGame, ~EndGame
  PROVE  Kept'
<1>1. /\ PatchIInv /\ AllClean /\ Kept /\ UNCHANGED <<gamePid, fault>> /\ lost \subseteq lost'
  BY StillAlive, RecordsStay DEF CoverIInv
<1>2. SUFFICES ASSUME NEW p \in Patches, p \notin lost', gamePid # 0
               PROVE  \/ Untouched(mem', p) \/ Holds(store', p, gamePid)
                      \/ \E t \in Threads : Carries(t, p)'
  BY <1>1 DEF Kept
<1>3. ASSUME NEW t \in Threads, WriteBlock(t), job[t].patch = p PROVE Carries(t, p)'
  <2>1. /\ Alive(t) /\ pc'[t] \in {"write", "rollback"} /\ Same(job[t], job'[t])
        /\ job[t].op = "apply"
    BY <1>1, <1>3, WriteFacts DEF WriteBlock, CoverIInv, Requests, RequestAt
  <2> QED
    BY <1>1, <1>3, <2>1 DEF Carries, Carrying, Same, Alive, Runs
<1>4. CASE Untouched(mem, p)
  <2>1. CASE Fewer(mem', mem, p)
    BY <1>4, <2>1, FewerKeeps
  <2>2. ASSUME NEW t \in Threads, WriteBlock(t), job[t].patch = p PROVE Carries(t, p)'
    BY <1>3, <2>2
  <2> QED
    BY <1>1, <2>1, <2>2, CellsFall
<1>5. CASE Holds(store, p, gamePid)
  <2>1. PICK i \in 1..Len(store) : IsFor(store[i], p, gamePid)
    BY <1>5 DEF Holds
  <2>2. store[i].patch = p /\ store[i].pid = gamePid
    BY <2>1 DEF IsFor
  <2>3. ASSUME NEW t \in Threads, DropBackup(t), IsFor(store[i], job[t].patch, job[t].pid)
        PROVE  Untouched(mem', p)
    <3>1. pc[t] = "remove" /\ mem' = mem /\ job[t].op = "restore"
      BY <2>3 DEF DropBackup, game, CoverIInv, Requests, RequestAt
    <3>2. Alive(t) /\ job[t].patch = p
      BY <1>2, <2>2, <2>3 DEF IsFor, Alive, Runs
    <3> QED
      BY <3>1, <3>2 DEF CoverIInv, RequestsCover, RequestCovers
  <2>4. ASSUME MonitorUnlocks \/ MonitorClears, store[i].pid = mon.pid
        PROVE  Untouched(mem', p)
    BY <1>2, <2>2, <2>4, ClearedCovers
  <2>5. \/ Holds(store', p, gamePid)
        \/ \E t \in Threads : DropBackup(t) /\ IsFor(store[i], job[t].patch, job[t].pid)
        \/ (MonitorUnlocks \/ MonitorClears) /\ store[i].pid = mon.pid
    BY <1>1, <2>2, RecordsStay
  <2> QED
    BY <2>3, <2>4, <2>5
<1>6. ASSUME NEW t \in Threads, Carries(t, p)
      PROVE  \/ Untouched(mem', p) \/ Holds(store', p, gamePid) \/ Carries(t, p)'
  <2>1. CASE Work(t)
    <3>1. \/ Untouched(mem', p) \/ Holds(store', p, gamePid) \/ p \in lost'
          \/ Carrying(pc'[t], job'[t]) /\ Same(job[t], job'[t])
      BY <1>6, <2>1, CarriedOn
    <3> QED
      BY <1>1, <1>2, <1>6, <3>1 DEF Carries, Same, Alive, Runs
  <2>2. CASE UNCHANGED <<pc[t], job[t]>>
    BY <1>1, <1>6, <2>2 DEF Carries, Alive, Runs
  <2>3. Work(t) \/ UNCHANGED <<pc[t], job[t]>>
    <3>1. CASE UNCHANGED vars \/ StartGame \/ EndGame \/ Rescan \/ Poll \/ Undo
      BY <3>1 DEF vars, StartGame, EndGame, Rescan, Poll, Undo, MonitorLooks, MonitorGivesUp,
        MonitorLocks, MonitorTakes, MonitorRestores, MonitorUnlocks, MonitorClears, MonitorUnmarks
    <3>2. ASSUME NEW u \in Threads \ {t}, Work(u) PROVE UNCHANGED <<pc[t], job[t]>>
      BY <1>1, <3>2, OthersStay
    <3>3. ASSUME NEW u \in Threads, NEW q \in Patches, RequestApply(u, q) \/ RequestRestore(u, q)
          PROVE  UNCHANGED <<pc[t], job[t]>>
      <4>1. pc[t] # "idle"
        BY <1>6 DEF Carries, Carrying
      <4> QED
        BY <1>1, <3>3, <4>1, RequestFacts
    <3> QED
      BY <3>1, <3>2, <3>3 DEF Next
  <2> QED
    BY <2>1, <2>2, <2>3
<1>7. Untouched(mem, p) \/ Holds(store, p, gamePid) \/ \E t \in Threads : Carries(t, p)
  BY <1>1, <1>2 DEF Kept
<1> QED
  BY <1>4, <1>5, <1>6, <1>7

LEMMA CoverStep ==
  ASSUME ~Again, CoverIInv, [Next]_vars
  PROVE  CoverIInv'
<1>1. PatchIInv /\ Processes /\ Requests /\ Alone /\ NotUndoing
  BY DEF CoverIInv
<1>2. PatchIInv' /\ Processes' /\ Requests' /\ Alone' /\ NotUndoing' /\ AllClean'
  BY <1>1, LockStep, LockTypedStep, PatchTypesStep, ProcessesStep, RequestsStep, AloneStep,
    NotUndoingStep, AllCleanStep DEF PatchIInv
<1>3. CASE StartGame \/ EndGame
  <2>1. /\ \A pid \in Nat : pid <= started => ~(gamePid' # 0 /\ gamePid' = pid)
        /\ UNCHANGED <<store, job, mon>>
    BY <1>1, <1>3, OldProcesses DEF StartGame, EndGame, tables, monitor
  <2>2. mem' = [c \in Memory |-> Original]
    BY <1>1, <1>3 DEF StartGame, EndGame, Processes
  <2>3. /\ \A i \in 1..Len(store') : store'[i].pid \in Nat /\ store'[i].pid <= started
        /\ \A t \in Threads : job'[t].pid \in Nat /\ job'[t].pid <= started
        /\ mon'.pid \in Nat /\ mon'.pid <= started
    <3>1. store \in Seq(Backups) /\ mon.pid \in Pids /\ Pids \subseteq Nat
      BY <1>1, PatchAssumption DEF PatchIInv, PatchTypes, TableTypes, MonitorTypes, Pids
    <3>2. \A i \in 1..Len(store) : store[i] \in Backups
      BY <3>1, ElementOfSeq
    <3>3. \A i \in 1..Len(store) : store[i].pid \in Nat
      BY <3>1, <3>2 DEF Backups
    <3>4. \A t \in Threads : job[t].pid \in Nat
      BY <1>1, <3>1, JobFacts
    <3> QED
      BY <1>1, <2>1, <3>1, <3>3, <3>4 DEF Processes
  <2>4. StoreCovers' /\ RequestsCover' /\ MonitorCovers'
    BY <2>1, <2>3 DEF StoreCovers, RequestsCover, MonitorCovers, Alive, Runs
  <2>5. Kept'
    BY <2>2 DEF Kept, Untouched, Sole
  <2> QED
    BY <1>2, <2>4, <2>5 DEF CoverIInv
<1>4. CASE ~StartGame /\ ~EndGame
  BY <1>2, <1>4, StoreCoversStep, RequestsCoverStep, MonitorCoversStep, KeptStep DEF CoverIInv
<1> QED
  BY <1>3, <1>4

LEMMA CoverInit == Init => CoverIInv
<1> SUFFICES ASSUME Init PROVE CoverIInv
  OBVIOUS
<1>1. PatchIInv
  BY LockInit, PatchTypesInit DEF PatchIInv, LockTyped, Init
<1>2. NoJob.pid = 0 /\ NoJob.op = "none" /\ NoJob.failed = FALSE /\ NoJob.saved = <<>>
  BY DEF NoJob
<1>3. Clean(<<>>) /\ 1..Len(<<>>) = {}
  BY EmptySeq DEF Clean
<1>4. Processes /\ Requests /\ \A t \in Threads : ~Alive(t)
  BY <1>2, <1>3, NoUndoFacts DEF Init, Processes, Requests, RequestAt, Alive, Runs
<1>5. Alone /\ AllClean /\ StoreCovers /\ RequestsCover /\ MonitorCovers /\ NotUndoing
  BY <1>2, <1>3, <1>4, NoUndoFacts DEF Init, Alone, AllClean, StoreCovers, RequestsCover,
    MonitorCovers, NotUndoing
<1>6. Kept
  BY DEF Init, Kept
<1> QED
  BY <1>1, <1>4, <1>5, <1>6 DEF CoverIInv

LEMMA CoverIInvMeansRecoverable == CoverIInv => Recoverable
<1> SUFFICES ASSUME CoverIInv, NEW p \in Patches \ lost,
                    NEW c \in Sole \cap UNION {CellsOf[q] : q \in Patches},
                    c \in CellsOf[p], mem[c] # Original
             PROVE  \/ \E i \in SlotOf(p, gamePid) : SavedIn(store[i].lines, c)
                    \/ \E t \in Threads : Alive(t) /\ job[t].patch = p /\ SavedIn(job[t].saved, c)
  BY DEF Recoverable
<1>1. PatchIInv /\ store \in Seq(Backups) /\ DOMAIN store = 1..Len(store) /\ c \in Memory
  BY LenProperties DEF CoverIInv, PatchIInv, PatchTypes, TableTypes, Sole
<1>2. ASSUME NEW s \in Seq(Bytes), Cover(mem, fault, s, p) PROVE SavedIn(s, c)
  <2>1. PICK i \in 1..Len(s) : c \in Lands(fault, DOMAIN s[i])
    BY <1>2 DEF Cover
  <2>2. DOMAIN s = 1..Len(s)
    BY <1>2, LenProperties
  <2> QED
    BY <2>1, <2>2 DEF SavedIn, Lands
<1>3. gamePid # 0 /\ ~Untouched(mem, p)
  BY <1>1 DEF CoverIInv, Processes, Untouched
<1>4. CASE Holds(store, p, gamePid)
  <2>1. PICK i \in 1..Len(store) : IsFor(store[i], p, gamePid)
    BY <1>4 DEF Holds
  <2>2. store[i] \in Backups
    BY <1>1, ElementOfSeq
  <2>3. store[i].lines \in Seq(Bytes) /\ Cover(mem, fault, store[i].lines, p)
    BY <1>3, <2>1, <2>2 DEF CoverIInv, StoreCovers, Runs, IsFor, Backups
  <2>4. i \in SlotOf(p, gamePid)
    BY <1>1, <2>1 DEF SlotOf
  <2> QED
    BY <1>2, <2>3, <2>4
<1>5. ASSUME NEW t \in Threads, Carries(t, p)
      PROVE  Alive(t) /\ job[t].patch = p /\ SavedIn(job[t].saved, c)
  <2>1. Alive(t) /\ job[t].patch = p /\ job[t].saved \in Seq(Bytes)
    BY <1>1, <1>5, JobFacts DEF Carries
  <2>2. Cover(mem, fault, job[t].saved, p)
    BY <1>5, <2>1 DEF CoverIInv, RequestsCover, RequestCovers, Carries, Carrying
  <2> QED
    BY <1>2, <2>1, <2>2
<1>6. Holds(store, p, gamePid) \/ \E t \in Threads : Carries(t, p)
  BY <1>3 DEF CoverIInv, Kept
<1> QED
  BY <1>4, <1>5, <1>6

\* What a patch changed in the living game can be put back, from the request at
\* work on it or from the store, whatever other requests, the monitor and a
\* rescan do, and however the cells answer a write.  Only a backup that found
\* the store full, or that the monitor dropped, is excepted, and cells that
\* several writes reach.  With one request per patch (~Again).
THEOREM RecoverableCorrect ==
  ASSUME ~Again
  PROVE  Spec => []Recoverable
<1>1. CoverIInv /\ [Next]_vars => CoverIInv'
  BY CoverStep
<1> QED
  BY <1>1, CoverInit, CoverIInvMeansRecoverable, PTL DEF Spec

\* A restore that went through has put the game's own bytes back
\* (patch_restore_entry()), also when the monitor dropped the record or undid
\* the patch while the restore waited for the lock.  With one request per patch.
THEOREM RestoredToOriginalCorrect ==
  ASSUME ~Again
  PROVE  Spec => []RestoredToOriginal
<1>1. CoverIInv /\ [Next]_vars => CoverIInv'
  BY CoverStep
<1>2. CoverIInv => RestoredToOriginal
  BY DEF CoverIInv, RequestsCover, RequestCovers, Untouched, RestoredToOriginal
<1> QED
  BY <1>1, <1>2, CoverInit, PTL DEF Spec

----------------------------------------------------------------------------
(* Jumps and what they lead to.                                            *)

Shows(m, w) == \A c \in DOMAIN w : m[c] = w[c]

\* NoJumpIntoNothing of one patch in memory m.
Sound(m, p) ==
  \A i \in DOMAIN Plan[p] :
    Shows(m, Plan[p][i].bytes) => \A w \in BehindJump(p, i) : Shows(m, w)

\* In a tidy plan a jump is the last write of its line, and what it leads to
\* is written before it: earlier in its line, or by an earlier plain line.
LEMMA JumpFacts ==
  ASSUME Tidy, NEW p \in Patches, NEW i \in DOMAIN Plan[p], BehindJump(p, i) # {}
  PROVE  \E n \in DOMAIN Writes(Plan[p][i]) :
           /\ Plan[p][i].bytes = Writes(Plan[p][i])[n]
           /\ DOMAIN Writes(Plan[p][i]) = 1..n
           /\ \A w \in BehindJump(p, i) :
                \/ w = Plan[p][i].bytes
                \/ \E k \in DOMAIN Writes(Plan[p][i]) : k < n /\ w = Writes(Plan[p][i])[k]
                \/ \E h \in DOMAIN Plan[p] : \E k \in DOMAIN Writes(Plan[p][h]) :
                     h < i /\ IsPlain(Plan[p][h]) /\ w = Writes(Plan[p][h])[k]
<1> DEFINE line == Plan[p][i]
           n == Len(Writes(line))
<1>1. n \in Nat \ {0} /\ DOMAIN Writes(line) = 1..n /\ n \in 1..n /\ DOMAIN Plan[p] \subseteq Int
  BY LineFacts
<1>2. CASE IsPlain(line)
  <2>1. Writes(line) = <<line.bytes>> /\ line.kind # "jump32"
    BY <1>2 DEF Writes, IsPlain
  <2>2. n = 1 /\ Writes(line)[n] = line.bytes
    BY <2>1
  <2>3. ASSUME NEW w \in BehindJump(p, i)
        PROVE  \/ w = line.bytes
               \/ \E h \in DOMAIN Plan[p] : \E k \in DOMAIN Writes(Plan[p][h]) :
                    h < i /\ IsPlain(Plan[p][h]) /\ w = Writes(Plan[p][h])[k]
    <3>1. PICK h \in DOMAIN Plan[p] : /\ IsPlain(Plan[p][h]) /\ line.target \in Cells(Plan[p][h])
                                      /\ w = Plan[p][h].bytes
      BY <1>2 DEF BehindJump, TargetBlocks
    <3>2. h <= i
      BY <1>2, <3>1 DEF Tidy, TargetsFirst
    <3>3. Writes(Plan[p][h]) = <<w>>
      BY <3>1 DEF Writes, IsPlain
    <3>4. 1 \in DOMAIN Writes(Plan[p][h]) /\ Writes(Plan[p][h])[1] = w
      BY <3>3
    <3>5. CASE h = i
      BY <3>1, <3>5
    <3>6. CASE h # i
      <4>1. h < i
        BY <1>1, <3>2, <3>6
      <4> QED
        BY <3>1, <3>4, <4>1
    <3> QED
      BY <3>5, <3>6
  <2> HIDE DEF n
  <2> QED
    BY <1>1, <2>2, <2>3
<1>3. CASE ~IsPlain(line)
  <2>1. line.kind = "jump32" /\ BehindJump(p, i) = {line.cave[j] : j \in DOMAIN line.cave}
    BY <1>3 DEF BehindJump
  <2>2. line.cave \in Seq(WritesOf(p)) /\ Writes(line) = Append(line.cave, line.bytes)
    BY <2>1, PlanAssumption DEF Writes
  <2>3. /\ n = Len(line.cave) + 1 /\ Writes(line)[n] = line.bytes /\ Len(line.cave) \in Nat
        /\ \A j \in 1..Len(line.cave) : Writes(line)[j] = line.cave[j]
        /\ DOMAIN line.cave = 1..Len(line.cave)
    <3>1. line.bytes \in WritesOf(p) \cup {line.bytes}
      OBVIOUS
    <3>2. line.cave \in Seq(WritesOf(p) \cup {line.bytes})
      BY <2>2
    <3> HIDE DEF line
    <3> QED
      BY <2>2, <3>1, <3>2, AppendProperties, LenProperties
  <2>4. ASSUME NEW w \in BehindJump(p, i)
        PROVE  \E k \in DOMAIN Writes(line) : k < n /\ w = Writes(line)[k]
    <3>1. PICK j \in 1..Len(line.cave) : w = line.cave[j]
      BY <2>1, <2>3
    <3>2. j \in 1..n /\ j < n
      BY <2>3
    <3> QED
      BY <1>1, <2>3, <3>1, <3>2
  <2> HIDE DEF n
  <2> QED
    BY <1>1, <2>3, <2>4
<1> QED
  BY <1>2, <1>3

\* A write of a patch was made, or its line was passed over, in the cells that
\* no other write reaches.
Shown(m, p, h, k) ==
  \A c \in Sole \cap DOMAIN Writes(Plan[p][h])[k] : m[c] = Writes(Plan[p][h])[k][c]
Skipped(m, p, h) ==
  /\ ~IsPlain(Plan[p][h])
  /\ \A k \in DOMAIN Writes(Plan[p][h]) :
       \A c \in Sole \cap DOMAIN Writes(Plan[p][h])[k] : m[c] = Original

\* The writes of p before write k of line i are over.
Behind(m, p, i, k) ==
  \A h \in DOMAIN Plan[p] :
    /\ h < i => Skipped(m, p, h) \/ \A l \in DOMAIN Writes(Plan[p][h]) : Shown(m, p, h, l)
    /\ h = i => \A l \in DOMAIN Writes(Plan[p][h]) : l < k => Shown(m, p, h, l)

\* A patch that was not touched has no jump in memory.
LEMMA UntouchedSound ==
  ASSUME Tidy, NEW p \in Patches, NEW m, Untouched(m, p)
  PROVE  Sound(m, p)
<1> SUFFICES ASSUME NEW i \in DOMAIN Plan[p], Shows(m, Plan[p][i].bytes), BehindJump(p, i) # {}
             PROVE  FALSE
  BY DEF Sound
<1>1. PICK c \in DOMAIN Plan[p][i].bytes : Plan[p][i].bytes[c] # Original
  BY DEF Tidy, OwnJumps
<1>2. PICK n \in DOMAIN Writes(Plan[p][i]) : Plan[p][i].bytes = Writes(Plan[p][i])[n]
  BY JumpFacts
<1>3. c \in Sole \cap CellsOf[p]
  BY <1>1, <1>2, WrittenIsCell DEF Tidy, OwnJumps
<1> QED
  BY <1>1, <1>3 DEF Untouched, Shows

\* Only the cells of a patch that no other write reaches matter.
LEMMA SteadySound ==
  ASSUME Tidy, NEW p \in Patches, NEW m, NEW n, Sound(m, p),
         \A c \in Sole \cap CellsOf[p] : n[c] = m[c]
  PROVE  Sound(n, p)
<1> SUFFICES ASSUME NEW i \in DOMAIN Plan[p], Shows(n, Plan[p][i].bytes),
                    NEW w \in BehindJump(p, i)
             PROVE  Shows(n, w)
  BY DEF Sound
<1>1. PICK l \in DOMAIN Writes(Plan[p][i]) :
        /\ Plan[p][i].bytes = Writes(Plan[p][i])[l]
        /\ \/ w = Plan[p][i].bytes
           \/ \E k \in DOMAIN Writes(Plan[p][i]) : w = Writes(Plan[p][i])[k]
           \/ \E h \in DOMAIN Plan[p] : \E k \in DOMAIN Writes(Plan[p][h]) :
                w = Writes(Plan[p][h])[k]
  BY JumpFacts
<1>2. DOMAIN Plan[p][i].bytes \subseteq Sole \cap CellsOf[p]
  BY <1>1, WrittenIsCell DEF Tidy, OwnJumps
<1>3. DOMAIN w \subseteq Sole \cap CellsOf[p]
  BY <1>1, WrittenIsCell DEF Tidy, OwnJumps
<1>4. Shows(m, w)
  BY <1>2 DEF Sound, Shows
<1> QED
  BY <1>3, <1>4 DEF Shows

\* A write, k of line i, leaves the cells of the other writes of p that are
\* theirs alone.
Spares(n, m, p, i, k) ==
  \A h \in DOMAIN Plan[p] : \A l \in DOMAIN Writes(Plan[p][h]) : h # i \/ l # k =>
    \A c \in Sole \cap DOMAIN Writes(Plan[p][h])[l] : n[c] = m[c]

LEMMA WriteSpares ==
  ASSUME NEW p \in Patches, NEW i \in DOMAIN Plan[p], NEW k \in DOMAIN Writes(Plan[p][i]),
         NEW v, v = Writes(Plan[p][i])[k], NEW m, NEW f
  PROVE  Spares(Written(m, f, v), m, p, i, k)
<1> SUFFICES ASSUME NEW h \in DOMAIN Plan[p], NEW l \in DOMAIN Writes(Plan[p][h]), h # i \/ l # k,
                    NEW c \in Sole, c \in DOMAIN Writes(Plan[p][h])[l]
             PROVE  Written(m, f, v)[c] = m[c]
  BY DEF Spares
<1>1. c \notin DOMAIN v
  BY SoleWriter
<1>2. c \in Memory
  BY DEF Sole
<1> QED
  BY <1>1, <1>2 DEF Written, Lands

\* A jump is written when what it leads to is there, and no write of the plan
\* before it shows it: after each write the patch is sound, however much of the
\* write the pages let through.
LEMMA SoundAfter ==
  ASSUME Tidy, NEW j, NEW p \in Patches, p = j.patch, NEW i \in DOMAIN Plan[p], i = j.line,
         NEW k \in DOMAIN Writes(Plan[p][i]), k = j.part,
         NEW v, v = Writes(Plan[p][i])[k], NEW m, NEW f, Behind(m, p, i, k), Ahead(m, j)
  PROVE  Sound(Written(m, f, v), p)
<1> DEFINE n == Written(m, f, v)
<1>1. Spares(n, m, p, i, k)
  BY WriteSpares
<1> HIDE DEF n
<1>2. i \in Int /\ DOMAIN Plan[p] \subseteq Int
      /\ \A h \in DOMAIN Plan[p] : DOMAIN Writes(Plan[p][h]) \subseteq Int
  BY LineFacts
<1>3. SUFFICES ASSUME NEW g \in DOMAIN Plan[p], Shows(n, Plan[p][g].bytes), NEW w \in BehindJump(p, g)
               PROVE  Shows(n, w)
  BY DEF Sound, n
<1>4. PICK y \in DOMAIN Writes(Plan[p][g]) :
        /\ Plan[p][g].bytes = Writes(Plan[p][g])[y]
        /\ DOMAIN Writes(Plan[p][g]) = 1..y
        /\ \/ w = Plan[p][g].bytes
           \/ \E x \in DOMAIN Writes(Plan[p][g]) : x < y /\ w = Writes(Plan[p][g])[x]
           \/ \E h \in DOMAIN Plan[p] : \E x \in DOMAIN Writes(Plan[p][h]) :
                h < g /\ IsPlain(Plan[p][h]) /\ w = Writes(Plan[p][h])[x]
  BY JumpFacts
<1>5. /\ DOMAIN Plan[p][g].bytes \subseteq Sole /\ DOMAIN w \subseteq Sole
      /\ \E c \in DOMAIN Plan[p][g].bytes : Plan[p][g].bytes[c] # Original
  BY DEF Tidy, OwnJumps
\* The line of the jump, when another write is made, was passed and not skipped.
<1>6. ASSUME g # i \/ y # k PROVE g < i /\ ~Skipped(m, p, g)
  <2>1. PICK c \in DOMAIN Plan[p][g].bytes : Plan[p][g].bytes[c] # Original
    BY <1>5
  <2>2. c \in Sole \cap DOMAIN Writes(Plan[p][g])[y]
    BY <1>4, <1>5, <2>1
  <2>3. n[c] = m[c]
    <3>1. \A d \in Sole \cap DOMAIN Writes(Plan[p][g])[y] : n[d] = m[d]
      BY <1>1, <1>6 DEF Spares
    <3> QED
      BY <2>2, <3>1
  <2>4. m[c] # Original
    BY <1>3, <2>1, <2>3 DEF Shows
  <2>5. ~(g > i \/ (g = i /\ y >= k))
    BY <2>2, <2>4 DEF Ahead
  <2>6. g # i
    BY <1>2, <1>4, <2>5
  <2>7. g < i
    BY <1>2, <2>5, <2>6
  <2> QED
    BY <2>2, <2>4, <2>7 DEF Skipped
\* What the jump leads to was written before.
<1>7. ASSUME NEW h \in DOMAIN Plan[p], NEW x \in DOMAIN Writes(Plan[p][h]),
             w = Writes(Plan[p][h])[x],
             \/ h = g /\ x < y
             \/ h < g /\ IsPlain(Plan[p][h])
      PROVE  Shows(n, w)
  <2>1. h \in Int /\ x \in Int /\ g \in Int /\ y \in Int /\ k \in Int
    BY <1>2
  <2>2. h # i \/ x # k
    BY <1>6, <1>7, <2>1, <1>2
  <2>3. Shown(m, p, h, x)
    <3>1. CASE h = i
      <4>1. g = i /\ y = k
        BY <1>2, <1>6, <1>7, <2>1, <3>1
      <4>2. x < k
        BY <1>7, <2>1, <3>1, <4>1
      <4> QED
        BY <3>1, <4>2 DEF Behind
    <3>2. CASE h # i
      <4>1. h < i /\ ~Skipped(m, p, h)
        <5>1. CASE h = g
          BY <1>6, <3>2, <5>1
        <5>2. CASE h # g
          <6>1. h < g /\ IsPlain(Plan[p][h])
            BY <1>7, <5>2
          <6>2. h < i
            BY <1>2, <1>6, <2>1, <6>1
          <6> QED
            BY <6>1, <6>2 DEF Skipped
        <5> QED
          BY <5>1, <5>2
      <4> QED
        BY <4>1 DEF Behind
    <3> QED
      BY <3>1, <3>2
  <2>4. \A c \in DOMAIN w : c \in Sole \cap DOMAIN Writes(Plan[p][h])[x]
    BY <1>5, <1>7
  <2>5. \A c \in DOMAIN w : n[c] = m[c] /\ m[c] = w[c]
    BY <1>1, <1>7, <2>2, <2>3, <2>4 DEF Shown, Spares
  <2> QED
    BY <2>5 DEF Shows
<1> QED
  BY <1>3, <1>4, <1>7

\* The next write or line: the one that was made was made in full.
LEMMA BehindMore ==
  ASSUME NEW p \in Patches, NEW i \in DOMAIN Plan[p], NEW k \in DOMAIN Writes(Plan[p][i]),
         NEW m, NEW n, Behind(m, p, i, k), Spares(n, m, p, i, k), Shows(n, Writes(Plan[p][i])[k])
  PROVE  /\ Behind(n, p, i, k + 1)
         /\ k = Len(Writes(Plan[p][i])) => Behind(n, p, i + 1, 1)
<1>1. i \in Int /\ DOMAIN Plan[p] \subseteq Int /\ k \in Int
      /\ \A h \in DOMAIN Plan[p] : DOMAIN Writes(Plan[p][h]) \subseteq Nat \ {0}
      /\ \A l \in DOMAIN Writes(Plan[p][i]) : l <= Len(Writes(Plan[p][i]))
  BY LineFacts
<1>2. ASSUME NEW h \in DOMAIN Plan[p], h < i
      PROVE  Skipped(n, p, h) \/ \A l \in DOMAIN Writes(Plan[p][h]) : Shown(n, p, h, l)
  <2>1. h # i
    BY <1>1, <1>2
  <2>2. CASE Skipped(m, p, h)
    BY <2>1, <2>2 DEF Skipped, Spares
  <2>3. CASE \A l \in DOMAIN Writes(Plan[p][h]) : Shown(m, p, h, l)
    BY <2>1, <2>3 DEF Shown, Spares
  <2> QED
    BY <1>2, <2>2, <2>3 DEF Behind
<1>3. ASSUME NEW l \in DOMAIN Writes(Plan[p][i]), l <= k PROVE Shown(n, p, i, l)
  <2>1. CASE l = k
    BY <2>1 DEF Shown, Shows
  <2>2. CASE l # k
    <3>1. l < k
      BY <1>1, <1>3, <2>2
    <3>2. Shown(m, p, i, l)
      BY <3>1 DEF Behind
    <3> QED
      BY <2>2, <3>2 DEF Shown, Spares
  <2> QED
    BY <2>1, <2>2
<1>4. Behind(n, p, i, k + 1)
  <2>1. \A l \in DOMAIN Writes(Plan[p][i]) : l < k + 1 => l <= k
    BY <1>1
  <2> QED
    BY <1>2, <1>3, <2>1 DEF Behind
<1>5. ASSUME k = Len(Writes(Plan[p][i])) PROVE Behind(n, p, i + 1, 1)
  <2>1. \A h \in DOMAIN Plan[p] : h < i + 1 => h < i \/ h = i
    BY <1>1
  <2>2. ASSUME NEW h \in DOMAIN Plan[p], NEW l \in DOMAIN Writes(Plan[p][h]) PROVE ~(l < 1)
    <3>1. l \in Nat \ {0}
      BY <1>1
    <3> QED
      BY <3>1
  <2>3. \A l \in DOMAIN Writes(Plan[p][i]) : l <= k
    BY <1>1, <1>5
  <2> QED
    BY <1>2, <1>3, <2>1, <2>2, <2>3 DEF Behind
<1> QED
  BY <1>4, <1>5

\* A line that is passed over had nothing written.
LEMMA BehindSkip ==
  ASSUME NEW j, NEW p \in Patches, p = j.patch, NEW i \in DOMAIN Plan[p], i = j.line,
         j.part = 1, ~IsPlain(Plan[p][i]), NEW m, Behind(m, p, i, 1), Ahead(m, j)
  PROVE  Behind(m, p, i + 1, 1)
<1>1. i \in Int /\ DOMAIN Plan[p] \subseteq Int
      /\ \A h \in DOMAIN Plan[p] : DOMAIN Writes(Plan[p][h]) \subseteq Nat \ {0}
  BY LineFacts
<1>2. \A l \in DOMAIN Writes(Plan[p][i]) : l >= 1
  BY <1>1
<1>3. Skipped(m, p, i)
  BY <1>2 DEF Ahead, Skipped
<1>4. \A h \in DOMAIN Plan[p] : h < i + 1 => h < i \/ h = i
  BY <1>1
<1>5. \A h \in DOMAIN Plan[p] : \A l \in DOMAIN Writes(Plan[p][h]) : ~(l < 1)
  BY <1>1
<1> QED
  BY <1>3, <1>4, <1>5 DEF Behind

\* The backups of s, written from the last to the first, lead from m through
\* sound memories only.
Retraces(m, f, s, p) ==
  \E M \in [0..Len(s) -> [Memory -> Values]] :
    /\ M[Len(s)] = m
    /\ \A n \in 1..Len(s) : M[n - 1] = Written(M[n], f, s[n])
    /\ \A n \in 0..Len(s) : Sound(M[n], p)

LEMMA RetraceSound ==
  ASSUME NEW m, NEW f, NEW p, NEW s \in Seq(Bytes), Retraces(m, f, s, p)
  PROVE  Sound(m, p)
<1>1. Len(s) \in 0..Len(s)
  BY LenProperties
<1> QED
  BY <1>1 DEF Retraces

LEMMA RetraceNothing ==
  ASSUME NEW m \in [Memory -> Values], NEW f, NEW p, Sound(m, p)
  PROVE  Retraces(m, f, <<>>, p)
<1> DEFINE M == [n \in 0..0 |-> m]
<1>1. Len(<<>>) = 0 /\ 1..0 = {} /\ 0..0 = {0}
  BY EmptySeq
<1>2. M \in [0..0 -> [Memory -> Values]] /\ M[0] = m
  BY <1>1
<1> HIDE DEF M
<1> QED
  BY <1>1, <1>2 DEF Retraces

LEMMA RetraceMore ==
  ASSUME NEW m, NEW f, NEW p, NEW s \in Seq(Bytes), Retraces(m, f, s, p),
         NEW w \in Bytes, NEW k \in Bytes, k = [c \in DOMAIN w |-> m[c]],
         NEW o \in [Memory -> Values], o = Written(m, f, w), Sound(o, p)
  PROVE  Retraces(o, f, Append(s, k), p)
<1> DEFINE n == Len(s)
           r == Append(s, k)
<1>1. /\ n \in Nat /\ Len(r) = n + 1 /\ r[n + 1] = k
      /\ \A i \in 1..n : r[i] = s[i]
  BY LenProperties, AppendProperties
<1>2. PICK M \in [0..n -> [Memory -> Values]] :
        /\ M[n] = m
        /\ \A i \in 1..n : M[i - 1] = Written(M[i], f, s[i])
        /\ \A i \in 0..n : Sound(M[i], p)
  BY DEF Retraces
<1> DEFINE N == [i \in 0..(n + 1) |-> IF i = n + 1 THEN o ELSE M[i]]
<1> HIDE DEF n, r
<1>3. /\ \A i \in 0..(n + 1) : i = n + 1 \/ i \in 0..n
      /\ \A i \in 1..(n + 1) : i = n + 1 \/ (i \in 1..n /\ i # n + 1)
      /\ \A i \in 1..(n + 1) : i - 1 \in 0..(n + 1) /\ i \in 0..(n + 1) /\ i - 1 # n + 1
      /\ n + 1 \in 0..(n + 1) /\ n \in 0..(n + 1) /\ n # n + 1 /\ n + 1 - 1 = n
  BY <1>1
<1>4. /\ N \in [0..(n + 1) -> [Memory -> Values]] /\ N[n + 1] = o /\ N[n] = m
      /\ \A i \in 1..(n + 1) : N[i - 1] = M[i - 1]
      /\ \A i \in 1..n : N[i] = M[i]
      /\ \A i \in 0..(n + 1) : i # n + 1 => N[i] = M[i]
  BY <1>2, <1>3
<1> HIDE DEF N
<1>5. m = Written(o, f, k)
  <2>1. m \in [Memory -> Values]
    BY <1>1, <1>2
  <2>2. DOMAIN k = DOMAIN w /\ Lands(f, DOMAIN w) \subseteq DOMAIN w
    BY DEF Lands
  <2>3. \A c \in Memory : Written(o, f, k)[c] = IF c \in Lands(f, DOMAIN w) THEN k[c] ELSE o[c]
    BY <2>2 DEF Written
  <2>4. \A c \in Memory : o[c] = IF c \in Lands(f, DOMAIN w) THEN w[c] ELSE m[c]
    BY DEF Written
  <2>5. \A c \in Memory : Written(o, f, k)[c] = m[c]
    BY <2>2, <2>3, <2>4
  <2>6. Written(o, f, k) = [c \in Memory |-> Written(o, f, k)[c]]
    BY DEF Written
  <2> QED
    BY <2>1, <2>5, <2>6
<1>6. \A i \in 1..(n + 1) : N[i - 1] = Written(N[i], f, r[i])
  <2>1. ASSUME NEW i \in 1..n PROVE N[i - 1] = Written(N[i], f, r[i])
    <3>1. i \in 1..(n + 1)
      BY <1>1
    <3> QED
      BY <1>1, <1>2, <1>4, <3>1
  <2>2. N[n + 1 - 1] = Written(N[n + 1], f, r[n + 1])
    BY <1>1, <1>3, <1>4, <1>5
  <2> QED
    BY <1>3, <2>1, <2>2
<1>7. \A i \in 0..(n + 1) : Sound(N[i], p)
  BY <1>2, <1>3, <1>4
<1>8. Retraces(o, f, r, p)
  BY <1>1, <1>4, <1>6, <1>7 DEF Retraces
<1> QED
  BY <1>8 DEF r

LEMMA RetraceLess ==
  ASSUME NEW m, NEW f, NEW p, NEW s \in Seq(Bytes), s # <<>>, Retraces(m, f, s, p)
  PROVE  Retraces(Written(m, f, Last(s)), f, Front(s), p)
<1> DEFINE n == Len(s) - 1
           r == Front(s)
<1>1. /\ n \in Nat /\ Len(s) = n + 1 /\ Last(s) = s[n + 1] /\ Len(r) = n
      /\ \A i \in 1..n : r[i] = s[i]
  BY EndsTyped DEF Last
<1>2. PICK M \in [0..(n + 1) -> [Memory -> Values]] :
        /\ M[n + 1] = m
        /\ \A i \in 1..(n + 1) : M[i - 1] = Written(M[i], f, s[i])
        /\ \A i \in 0..(n + 1) : Sound(M[i], p)
  <2> HIDE DEF n
  <2> QED
    BY <1>1 DEF Retraces
<1> DEFINE N == [i \in 0..n |-> M[i]]
<1> HIDE DEF n, r
<1>3. /\ \A i \in 0..n : i \in 0..(n + 1)
      /\ \A i \in 1..n : i \in 1..(n + 1) /\ i \in 0..n /\ i - 1 \in 0..n
      /\ n \in 0..n /\ n + 1 \in 1..(n + 1) /\ n + 1 - 1 = n
  BY <1>1
<1>4. N \in [0..n -> [Memory -> Values]] /\ \A i \in 0..n : N[i] = M[i]
  BY <1>2, <1>3
<1> HIDE DEF N
<1>5. N[n] = Written(m, f, Last(s))
  <2>1. M[n + 1 - 1] = Written(M[n + 1], f, s[n + 1])
    BY <1>2, <1>3
  <2> QED
    BY <1>1, <1>2, <1>3, <1>4, <2>1
<1>6. \A i \in 1..n : N[i - 1] = Written(N[i], f, r[i])
  BY <1>1, <1>2, <1>3, <1>4
<1>7. \A i \in 0..n : Sound(N[i], p)
  BY <1>2, <1>3, <1>4
<1>8. Retraces(Written(m, f, Last(s)), f, r, p)
  BY <1>1, <1>4, <1>5, <1>6, <1>7 DEF Retraces
<1> QED
  BY <1>8 DEF r

\* An apply that writes, or rolls back, goes through sound memories only.
InStep(m, f, loc, j) ==
  j.op = "apply" =>
    /\ loc \in {"write", "rollback"} => Retraces(m, f, j.saved, j.patch)
    /\ loc = "write" => Behind(m, j.patch, j.line, j.part)

InOrder == \A t \in Threads : Alive(t) => InStep(mem, fault, pc[t], job[t])

LEMMA WriteInStep ==
  ASSUME Tidy, CoverIInv, InOrder, NEW t \in Threads, WriteBlock(t)
  PROVE  InStep(mem', fault, pc'[t], job'[t])
<1> DEFINE v == WriteOf(t)
           p == job[t].patch
           i == job[t].line
           k == job[t].part
<1>1. /\ PatchIInv /\ Alive(t) /\ pc[t] = "write" /\ job[t].op = "apply" /\ InPlan(t)
      /\ mem' = After(v) /\ mem' = Written(mem, fault, v)
      /\ job'[t].saved = Append(job[t].saved, Backup(v))
  BY WriteFacts, AfterIsWritten DEF WriteBlock, CoverIInv, Requests, RequestAt
<1>2. /\ p \in Patches /\ i \in DOMAIN Plan[p] /\ k \in DOMAIN Writes(Plan[p][i])
      /\ v = Writes(Plan[p][i])[k]
  BY <1>1, JobFacts DEF InPlan, WriteOf, LineOf, Pointed
<1>3. Ahead(mem, job[t]) /\ Behind(mem, p, i, k) /\ Retraces(mem, fault, job[t].saved, p)
  BY <1>1 DEF CoverIInv, RequestsCover, RequestCovers, InOrder, InStep
<1>4. v \in Bytes /\ Backup(v) \in Bytes /\ Backup(v) = [c \in DOMAIN v |-> mem[c]]
  BY <1>1, WriteTyped, BackupTyped DEF Backup, PatchIInv, PatchTypes
<1>5. job[t].saved \in Seq(Bytes) /\ mem' \in [Memory -> Values]
  BY <1>1, <1>4, JobFacts, AfterTyped DEF PatchIInv, PatchTypes
<1>6. Same(job[t], job'[t]) /\ pc'[t] \in {"write", "rollback"}
  BY <1>1, WriteFacts
<1>7. ASSUME pc'[t] = "write"
      PROVE  /\ Shows(mem', v)
             /\ \/ job'[t].line = i /\ job'[t].part = k + 1
                \/ job'[t].line = i + 1 /\ job'[t].part = 1 /\ k = Len(Writes(Plan[p][i]))
  <2>1. Sticks(v)
    <3>1. Sticks(v) \/ Go(t, "rollback")
      BY DEF WriteBlock
    <3>2. pc \in [Threads -> Locations]
      BY <1>1, JobFacts
    <3> QED
      BY <1>7, <3>1, <3>2 DEF Go
  <2>2. \/ /\ job[t].part < Len(Writes(LineOf(t)))
           /\ job'[t].line = job[t].line /\ job'[t].part = job[t].part + 1
        \/ /\ ~(job[t].part < Len(Writes(LineOf(t))))
           /\ job'[t].line = job[t].line + 1 /\ job'[t].part = 1
    BY <1>1, <1>7, WriteFacts
  <2>3. /\ LineOf(t) = Plan[p][i] /\ Len(Writes(Plan[p][i])) \in Nat
        /\ DOMAIN Writes(Plan[p][i]) = 1..Len(Writes(Plan[p][i]))
    BY <1>2, LineFacts DEF LineOf
  <2>4. k \in 1..Len(Writes(Plan[p][i]))
    BY <1>2, <2>3
  <2>5. Shows(mem', v)
    BY <1>1, <2>1 DEF Sticks, Shows
  <2> HIDE DEF v
  <2> QED
    BY <2>2, <2>3, <2>4, <2>5
<1> HIDE DEF v, p, i, k
<1>8. Sound(mem', p)
  <2>1. p = job[t].patch /\ i = job[t].line /\ k = job[t].part
    BY DEF p, i, k
  <2>2. Sound(Written(mem, fault, v), p)
    BY <1>2, <1>3, <2>1, SoundAfter
  <2> QED
    BY <1>1, <2>2
<1>9. Retraces(mem', fault, job'[t].saved, p)
  BY <1>1, <1>3, <1>4, <1>5, <1>8, RetraceMore
<1>10. Spares(mem', mem, p, i, k)
  BY <1>1, <1>2, WriteSpares
<1>11. ASSUME pc'[t] = "write" PROVE Behind(mem', p, job'[t].line, job'[t].part)
  <2>1. /\ Behind(mem', p, i, k + 1)
        /\ k = Len(Writes(Plan[p][i])) => Behind(mem', p, i + 1, 1)
    BY <1>2, <1>3, <1>7, <1>10, <1>11, BehindMore
  <2> QED
    BY <1>7, <1>11, <2>1
<1>12. job'[t].patch = p
  BY <1>6 DEF Same, p
<1> QED
  BY <1>9, <1>11, <1>12 DEF InStep

LEMMA SkipInStep ==
  ASSUME CoverIInv, InOrder, NEW t \in Threads, SkipLine(t), Alive(t)
  PROVE  InStep(mem', fault, pc'[t], job'[t])
<1> DEFINE p == job[t].patch
           i == job[t].line
<1>1. /\ PatchIInv /\ pc[t] = "write" /\ job[t].op = "apply" /\ InPlan(t)
      /\ mem' = mem /\ pc' = pc /\ ~IsPlain(LineOf(t))
  BY DEF SkipLine, CanWrite, game, CoverIInv, Requests, RequestAt
<1>2. /\ Same(job[t], job'[t]) /\ job'[t].saved = job[t].saved
      /\ job'[t].line = i + 1 /\ job'[t].part = 1 /\ job[t].part = 1
  BY <1>1, SkipFacts
<1>3. p \in Patches /\ i \in DOMAIN Plan[p] /\ ~IsPlain(Plan[p][i])
  BY <1>1, JobFacts DEF InPlan, LineOf
<1>4. Ahead(mem, job[t]) /\ Behind(mem, p, i, 1) /\ Retraces(mem, fault, job[t].saved, p)
  BY <1>1, <1>2 DEF CoverIInv, RequestsCover, RequestCovers, InOrder, InStep
<1> HIDE DEF p, i
<1>5. Behind(mem, p, i + 1, 1)
  <2>1. p = job[t].patch /\ i = job[t].line
    BY DEF p, i
  <2> QED
    BY <1>2, <1>3, <1>4, <2>1, BehindSkip
<1>6. job'[t].patch = p
  BY <1>2 DEF Same, p
<1> QED
  BY <1>1, <1>2, <1>4, <1>5, <1>6 DEF InStep

LEMMA WorkInStep ==
  ASSUME Tidy, CoverIInv, InOrder, NEW t \in Threads, Work(t), Alive(t)
  PROVE  InStep(mem', fault, pc'[t], job'[t])
<1>1. PatchIInv /\ RequestAt(pc[t], job[t]) /\ InStep(mem, fault, pc[t], job[t])
  BY DEF CoverIInv, Requests, InOrder
<1> USE <1>1, JobFacts
<1>2. CASE pc'[t] \notin {"write", "rollback"}
  BY <1>2 DEF InStep
<1>3. CASE Probe(t) /\ pc'[t] = "write"
  <2>1. mem' = mem /\ pc[t] = "probe" /\ mem \in [Memory -> Values]
    BY <1>3 DEF Probe, game
  <2>2. job[t].op = "apply"
    BY <1>3, <2>1, ProbeFacts
  <2>3. /\ Same(job[t], job'[t]) /\ job'[t].saved = <<>> /\ job'[t].line = 1 /\ job'[t].part = 1
    BY <1>3, <2>1, <2>2, ProbeFacts DEF RequestAt
  <2>4. Untouched(mem, job[t].patch)
    BY <2>1, <2>2 DEF CoverIInv, RequestsCover, RequestCovers
  <2>5. Retraces(mem, fault, <<>>, job[t].patch)
    BY <2>1, <2>4, UntouchedSound, RetraceNothing
  <2>6. ASSUME NEW h \in DOMAIN Plan[job[t].patch]
        PROVE  ~(h < 1) /\ \A k \in DOMAIN Writes(Plan[job[t].patch][h]) : ~(k < 1)
    <3>1. /\ DOMAIN Plan[job[t].patch] = 1..Len(Plan[job[t].patch])
          /\ DOMAIN Writes(Plan[job[t].patch][h]) = 1..Len(Writes(Plan[job[t].patch][h]))
      BY LineFacts, PlanAssumption
    <3> QED
      BY <3>1
  <2>7. Behind(mem, job[t].patch, 1, 1)
    BY <2>6 DEF Behind
  <2> QED
    BY <2>1, <2>3, <2>5, <2>7 DEF InStep, Same
<1>4. CASE SkipLine(t)
  BY <1>4, SkipInStep
<1>5. CASE (ReadFails(t) \/ WritesDone(t)) /\ pc'[t] = "rollback"
  <2>1. UNCHANGED mem /\ pc[t] = "write"
    BY <1>5 DEF ReadFails, WritesDone, game
  <2> QED
    BY <1>5, <2>1, FailFacts DEF InStep, Same
<1>6. CASE WriteBlock(t)
  BY <1>6, WriteInStep
<1>7. CASE Rollback(t) /\ pc'[t] = "rollback"
  <2>1. pc[t] = "rollback" /\ job[t].op = "apply"
    BY <1>7 DEF Rollback, RequestAt
  <2>2. Retraces(mem, fault, job[t].saved, job[t].patch)
    BY <2>1 DEF InStep
  <2>3. /\ job[t].saved # <<>> /\ job'[t].patch = job[t].patch
        /\ job'[t].saved = Front(job[t].saved) /\ PutBack(job[t].pid, Last(job[t].saved))
    BY <1>7, <2>1, PutFacts DEF RestoreBlock, Same
  <2>4. mem' = Written(mem, fault, Last(job[t].saved))
    BY <2>3, AfterIsWritten DEF PutBack, Alive
  <2>5. Retraces(Written(mem, fault, Last(job[t].saved)), fault, Front(job[t].saved), job[t].patch)
    BY <2>2, <2>3, RetraceLess
  <2> QED
    BY <1>7, <2>3, <2>4, <2>5 DEF InStep
<1>8. CASE RestoreBlock(t)
  <2>1. pc[t] = "putback" /\ job[t].op = "restore"
    BY <1>8 DEF RestoreBlock, RequestAt
  <2>2. job'[t].op = "restore"
    BY <1>8, <2>1, PutFacts DEF Same
  <2> QED
    BY <2>2 DEF InStep
<1>9. pc'[t] \in {"write", "rollback"} =>
        \/ Probe(t) /\ pc'[t] = "write"
        \/ SkipLine(t)
        \/ WriteBlock(t)
        \/ (ReadFails(t) \/ WritesDone(t)) /\ pc'[t] = "rollback"
        \/ Rollback(t) /\ pc'[t] = "rollback"
        \/ RestoreBlock(t)
  <2>1. CASE CopyBackup(t)
    BY <2>1, CopyFacts
  <2>2. CASE Unlock(t)
    BY <2>2, LeaveFacts
  <2>3. CASE AcquireLock(t) \/ StoreBackup(t) \/ DropBackup(t) \/ MarkApplied(t) \/ MarkUnapplied(t)
    BY <2>3 DEF AcquireLock, StoreBackup, DropBackup, MarkApplied, MarkUnapplied, Finish, Go
  <2>4. CASE Probe(t)
    BY <2>4, ProbeFacts
  <2>5. CASE ReadFails(t) \/ WritesDone(t)
    BY <2>5, FailFacts
  <2>6. CASE Rollback(t)
    BY <2>6, PutFacts DEF Rollback
  <2> QED
    BY <2>1, <2>2, <2>3, <2>4, <2>5, <2>6 DEF Work
<1> QED
  BY <1>2, <1>3, <1>4, <1>5, <1>6, <1>7, <1>8, <1>9

LEMMA OthersInStep ==
  ASSUME PatchIInv, InOrder, [Next]_vars, ~StartGame, ~EndGame,
         NEW u \in Threads, UNCHANGED <<pc[u], job[u]>>, Alive(u), ~Work(u)
  PROVE  InStep(mem', fault, pc'[u], job'[u])
<1>1. InStep(mem, fault, pc[u], job[u])
  BY DEF InOrder
<1>2. CASE UNCHANGED mem
  BY <1>1, <1>2
<1>3. CASE mem' # mem
  <2>1. lock # u
    <3>1. \/ \E t \in Threads : lock = t /\ (WriteBlock(t) \/ Rollback(t) \/ RestoreBlock(t))
          \/ lock = Monitor
      BY <1>3, WriterHolds
    <3> QED
      BY <3>1, PatchAssumption DEF Work
  <2>2. pc[u] \notin Locked
    BY <2>1 DEF PatchIInv, LockIInv, Holders
  <2> QED
    BY <2>2 DEF InStep, Locked
<1> QED
  BY <1>2, <1>3

LEMMA InOrderStep ==
  ASSUME Tidy, CoverIInv, InOrder, [Next]_vars
  PROVE  InOrder'
<1>1. PatchIInv /\ Processes
  BY DEF CoverIInv
<1>2. SUFFICES ASSUME NEW u \in Threads, gamePid' # 0, gamePid' = job'[u].pid
               PROVE  InStep(mem', fault', pc'[u], job'[u])
  BY DEF InOrder, Alive, Runs
<1>3. CASE StartGame \/ EndGame
  <2>1. job'[u].pid \in Nat /\ job'[u].pid <= started
    <3>1. job' = job
      BY <1>3 DEF StartGame, EndGame
    <3>2. job[u].pid \in Nat /\ job[u].pid <= started
      BY <1>1, JobFacts, PatchAssumption DEF Processes, Pids
    <3> QED
      BY <3>1, <3>2
  <2> QED
    BY <1>1, <1>2, <1>3, <2>1, OldProcesses
<1>4. CASE ~StartGame /\ ~EndGame
  <2>1. UNCHANGED <<gamePid, fault>>
    BY <1>1, <1>4, StillAlive
  <2>2. CASE Work(u)
    <3>1. CASE pc'[u] = "idle"
      BY <3>1 DEF InStep
    <3>2. CASE Same(job[u], job'[u])
      <4>1. Alive(u)
        BY <1>2, <2>1, <3>2 DEF Alive, Runs, Same
      <4> QED
        BY <2>1, <2>2, <4>1, WorkInStep
    <3> QED
      BY <1>1, <2>2, <3>1, <3>2, WorkFacts
  <2>3. CASE UNCHANGED <<pc[u], job[u]>> /\ ~Work(u)
    <3>1. Alive(u)
      BY <1>2, <2>1, <2>3 DEF Alive, Runs
    <3> QED
      BY <1>1, <1>4, <2>1, <2>3, <3>1, OthersInStep
  <2>4. CASE \E p \in Patches : RequestApply(u, p) \/ RequestRestore(u, p)
    <3>1. pc'[u] \in {"lock", "copy"}
      BY <1>1, <2>4, RequestFacts
    <3> QED
      BY <3>1 DEF InStep
  <2>5. \/ Work(u) \/ UNCHANGED <<pc[u], job[u]>>
        \/ \E p \in Patches : RequestApply(u, p) \/ RequestRestore(u, p)
    <3>1. CASE UNCHANGED vars \/ Rescan \/ Poll \/ Undo
      BY <3>1 DEF vars, Rescan, Poll, Undo, MonitorLooks, MonitorGivesUp, MonitorLocks,
        MonitorTakes, MonitorRestores, MonitorUnlocks, MonitorClears, MonitorUnmarks
    <3>2. ASSUME NEW t \in Threads \ {u}, Work(t) PROVE UNCHANGED <<pc[u], job[u]>>
      BY <1>1, <3>2, OthersStay
    <3>3. ASSUME NEW t \in Threads \ {u}, NEW p \in Patches,
                 RequestApply(t, p) \/ RequestRestore(t, p)
          PROVE  UNCHANGED <<pc[u], job[u]>>
      BY <1>1, <3>3, RequestFacts
    <3> QED
      BY <1>4, <3>1, <3>2, <3>3 DEF Next
  <2> QED
    BY <2>2, <2>3, <2>4, <2>5
<1> QED
  BY <1>3, <1>4

\* A backup is of cells that its patch writes.
Own(s, p) == \A i \in 1..Len(s) : DOMAIN s[i] \subseteq CellsOf[p]

AllOwn ==
  /\ \A i \in 1..Len(store) : Own(store[i].lines, store[i].patch)
  /\ \A t \in Threads : Own(job[t].saved, job[t].patch)
  /\ Own(mon.lines, mon.patch)

LEMMA OwnNothing ==
  ASSUME NEW p
  PROVE  Own(<<>>, p)
<1>1. 1..Len(<<>>) = {}
  BY EmptySeq
<1> QED
  BY <1>1 DEF Own

LEMMA OwnMore ==
  ASSUME NEW p, NEW s \in Seq(Bytes), Own(s, p), NEW k \in Bytes, DOMAIN k \subseteq CellsOf[p]
  PROVE  Own(Append(s, k), p)
<1> DEFINE n == Len(s)
           r == Append(s, k)
<1>1. /\ n \in Nat /\ Len(r) = n + 1 /\ r[n + 1] = k
      /\ \A i \in 1..n : r[i] = s[i]
      /\ \A i \in 1..(n + 1) : i \in 1..n \/ i = n + 1
  BY LenProperties, AppendProperties
<1>2. \A i \in 1..n : DOMAIN s[i] \subseteq CellsOf[p]
  BY DEF Own
<1> HIDE DEF n, r
<1>3. \A i \in 1..(n + 1) : DOMAIN r[i] \subseteq CellsOf[p]
  BY <1>1, <1>2
<1>4. Own(r, p)
  BY <1>1, <1>3 DEF Own
<1> QED
  BY <1>4 DEF r

LEMMA OwnRest ==
  ASSUME NEW p, NEW s \in Seq(Bytes), s # <<>>, Own(s, p)
  PROVE  /\ Own(Front(s), p) /\ Own(Tail(s), p)
         /\ DOMAIN Last(s) \subseteq CellsOf[p] /\ DOMAIN Head(s) \subseteq CellsOf[p]
<1> DEFINE n == Len(s) - 1
           a == Front(s)
           b == Tail(s)
<1>1. /\ n \in Nat /\ Len(s) = n + 1 /\ Last(s) = s[n + 1] /\ Head(s) = s[1]
      /\ Len(a) = n /\ Len(b) = n
      /\ \A i \in 1..n : a[i] = s[i] /\ b[i] = s[i + 1]
  BY EndsTyped DEF Last
<1>2. n + 1 \in 1..(n + 1) /\ 1 \in 1..(n + 1) /\ \A i \in 1..n : i \in 1..(n + 1) /\ i + 1 \in 1..(n + 1)
  BY <1>1
<1> HIDE DEF a, b, n
<1>3. Own(a, p) /\ Own(b, p)
  BY <1>1, <1>2 DEF Own
<1>4. DOMAIN Last(s) \subseteq CellsOf[p] /\ DOMAIN Head(s) \subseteq CellsOf[p]
  BY <1>1, <1>2 DEF Own
<1> QED
  BY <1>3, <1>4 DEF a, b

LEMMA AllOwnStep ==
  ASSUME PatchIInv, AllOwn, [Next]_vars
  PROVE  AllOwn'
<1>1. ASSUME NEW t \in Threads, Work(t) PROVE Own(job'[t].saved, job'[t].patch)
  <2> USE JobFacts
  <2>1. /\ Own(job[t].saved, job[t].patch)
        /\ \A i \in 1..Len(store) : Own(store[i].lines, store[i].patch)
    BY DEF AllOwn
  <2>2. CASE pc'[t] = "idle" /\ job'[t] = NoJob
    BY <2>2, OwnNothing DEF NoJob
  <2>3. CASE CopyBackup(t) /\ pc'[t] # "idle"
    <3>1. /\ job'[t].patch = job[t].patch
          /\ \E i \in 1..Len(store) : /\ store[i].patch = job[t].patch
                                      /\ job'[t].saved = store[i].lines
      BY <2>3, CopyFacts DEF Same, IsFor
    <3> QED
      BY <2>1, <3>1
  <2>4. CASE AcquireLock(t) \/ StoreBackup(t) \/ DropBackup(t)
    BY <2>1, <2>4 DEF AcquireLock, StoreBackup, DropBackup
  <2>5. CASE Probe(t)
    BY <2>1, <2>5, ProbeFacts DEF Same
  <2>6. CASE SkipLine(t)
    BY <2>1, <2>6, SkipFacts DEF Same
  <2>7. CASE ReadFails(t) \/ WritesDone(t)
    BY <2>1, <2>7, FailFacts DEF Same
  <2>8. CASE WriteBlock(t)
    <3> DEFINE v == WriteOf(t)
    <3>1. /\ Same(job[t], job'[t]) /\ job'[t].saved = Append(job[t].saved, Backup(v))
          /\ InPlan(t)
      BY <2>8, WriteFacts DEF WriteBlock
    <3>2. v \in Bytes /\ Backup(v) \in Bytes /\ DOMAIN Backup(v) = DOMAIN v
      BY <2>8, WriteTyped, BackupTyped DEF Backup, WriteBlock, PatchIInv, PatchTypes
    <3>3. DOMAIN v \subseteq CellsOf[job[t].patch]
      BY <3>1, WrittenIsCell DEF InPlan, WriteOf, LineOf, Pointed
    <3> HIDE DEF v
    <3>4. Own(Append(job[t].saved, Backup(v)), job[t].patch)
      BY <2>1, <3>2, <3>3, OwnMore
    <3> QED
      BY <3>1, <3>4 DEF Same
  <2>9. CASE Rollback(t) \/ RestoreBlock(t)
    BY <2>1, <2>9, PutFacts, OwnRest DEF Same
  <2>10. CASE Unlock(t) /\ pc'[t] # "idle"
    BY <2>1, <2>10, LeaveFacts
  <2>11. CASE MarkApplied(t) \/ MarkUnapplied(t)
    BY <2>2, <2>11 DEF MarkApplied, MarkUnapplied, Finish, Go
  <2> QED
    BY <1>1, <2>2, <2>3, <2>4, <2>5, <2>6, <2>7, <2>8, <2>9, <2>10, <2>11, WorkFacts DEF Work
<1>2. \A t \in Threads : Own(job'[t].saved, job'[t].patch)
  <2>1. ASSUME NEW t \in Threads, Work(t), NEW u \in Threads
        PROVE  Own(job'[u].saved, job'[u].patch)
    BY <1>1, <2>1, OthersStay DEF AllOwn
  <2>2. ASSUME NEW t \in Threads, NEW p \in Patches, RequestApply(t, p) \/ RequestRestore(t, p),
               NEW u \in Threads
        PROVE  Own(job'[u].saved, job'[u].patch)
    <3>1. Own(<<>>, job'[u].patch) /\ Own(job[u].saved, job[u].patch)
      BY OwnNothing DEF AllOwn
    <3> QED
      BY <2>2, <3>1, RequestFacts
  <2>3. CASE UNCHANGED vars \/ StartGame \/ EndGame \/ Rescan \/ Poll \/ Undo
    <3>1. UNCHANGED job
      BY <2>3 DEF vars, StartGame, EndGame, Rescan, Poll, Undo, MonitorLooks, MonitorGivesUp,
        MonitorLocks, MonitorTakes, MonitorRestores, MonitorUnlocks, MonitorClears, MonitorUnmarks
    <3> QED
      BY <3>1 DEF AllOwn
  <2> QED
    BY <2>1, <2>2, <2>3 DEF Next
<1>3. ASSUME NEW i \in 1..Len(store') PROVE Own(store'[i].lines, store'[i].patch)
  <2>1. \/ \E l \in 1..Len(store) : store'[i] = store[l]
        \/ \E t \in Threads : /\ StoreBackup(t)
                              /\ store'[i] = [patch |-> job[t].patch, pid |-> job[t].pid,
                                              lines |-> job[t].saved]
    BY StoreSteps
  <2>2. ASSUME NEW t \in Threads,
               store'[i] = [patch |-> job[t].patch, pid |-> job[t].pid, lines |-> job[t].saved]
        PROVE  store'[i].lines = job[t].saved /\ store'[i].patch = job[t].patch
    BY ONLY <2>2
  <2> QED
    BY <2>1, <2>2 DEF AllOwn
<1>4. Own(mon'.lines, mon'.patch)
  <2>1. Fields(mon) /\ mon.lines \in Seq(Bytes) /\ Own(mon.lines, mon.patch) /\ TableTypes
    BY DEF AllOwn, PatchIInv, PatchTypes, MonitorTypes, LockIInv, Control
  <2>2. CASE Poll \/ MonitorUnmarks
    <3>1. mon'.lines = <<>> \/ mon' = mon
      BY <2>2, NoUndoFacts DEF Poll, MonitorUnmarks, NoUndo
    <3> QED
      BY <2>1, <3>1, OwnNothing
  <2>3. CASE MonitorLooks \/ MonitorGivesUp \/ MonitorLocks \/ MonitorUnlocks \/ MonitorClears
    <3>1. mon'.lines = mon.lines /\ mon'.patch = mon.patch
      BY <2>1, <2>3 DEF MonitorLooks, MonitorGivesUp, MonitorLocks, MonitorUnlocks,
        MonitorClears, Fields
    <3> QED
      BY <2>1, <3>1
  <2>4. CASE MonitorRestores
    <3>1. mon.lines # <<>> /\ mon'.lines = Tail(mon.lines) /\ mon'.patch = mon.patch
      BY <2>1, <2>4 DEF MonitorRestores, Fields
    <3> QED
      BY <2>1, <3>1, OwnRest
  <2>5. CASE MonitorTakes
    <3> DEFINE p == Head(mon.todo)
    <3>1. \/ mon'.lines = <<>>
          \/ \E i \in 1..Len(store) : mon'.lines = store[i].lines /\ store[i].patch = mon'.patch
      <4>1. /\ mon'.lines = IF SlotOf(p, mon.pid) = {} THEN <<>>
                            ELSE store[CHOOSE i \in SlotOf(p, mon.pid) :
                                   \A j \in SlotOf(p, mon.pid) : i <= j].lines
            /\ mon'.patch = p
        BY <2>1, <2>5 DEF MonitorTakes, Fields
      <4> DEFINE slots == SlotOf(p, mon.pid)
                 i == CHOOSE i \in slots : \A j \in slots : i <= j
      <4>2. slots = {} \/ (i \in 1..Len(store) /\ IsFor(store[i], p, mon.pid))
        BY <2>1, FirstSlot
      <4>3. mon'.lines = <<>> \/ (slots # {} /\ mon'.lines = store[i].lines)
        BY <4>1
      <4> HIDE DEF p, slots, i
      <4> QED
        BY <4>1, <4>2, <4>3 DEF IsFor
    <3> QED
      BY <3>1, OwnNothing DEF AllOwn
  <2>6. CASE UNCHANGED mon
    BY <2>1, <2>6
  <2>7. UNCHANGED mon \/ Poll \/ Undo
    <3>1. CASE UNCHANGED vars \/ StartGame \/ EndGame \/ Rescan
      BY <3>1 DEF vars, monitor, StartGame, EndGame, Rescan
    <3>2. ASSUME NEW t \in Threads,
                 Work(t) \/ \E p \in Patches : RequestApply(t, p) \/ RequestRestore(t, p)
          PROVE  UNCHANGED mon
      BY <3>2, OthersStay, RequestFacts DEF monitor
    <3> QED
      BY <3>1, <3>2 DEF Next
  <2> QED
    BY <2>2, <2>3, <2>4, <2>5, <2>6, <2>7 DEF Undo
<1> QED
  BY <1>2, <1>3, <1>4 DEF AllOwn

\* A restore has begun to put p back, and is not done: it goes forward, and may
\* take away what a jump leads to before the jump.
RequestRestores(p) ==
  \E t \in Threads : /\ Alive(t) /\ pc[t] \in {"putback", "unlock"}
                     /\ job[t].op = "restore" /\ job[t].patch = p
MonitorIsRestoring(p) ==
  mon.pc = "undo" /\ Runs(mon.pid) /\ mon.patch = p /\ p \in mon.undone
Restoring(p) == RequestRestores(p) \/ MonitorIsRestoring(p)

AllSound == \A p \in Patches : Restoring(p) \/ Sound(mem, p)

JumpIInv == CoverIInv /\ AllOwn /\ InOrder /\ AllSound

LEMMA JumpIInvMeansNoJumpIntoNothing == JumpIInv => NoJumpIntoNothing
<1> SUFFICES ASSUME JumpIInv, NEW p \in Patches, NEW i \in DOMAIN Plan[p],
                    Present(Plan[p][i].bytes), ~BeingRestored(p), NEW w \in BehindJump(p, i)
             PROVE  Present(w)
  BY DEF NoJumpIntoNothing
<1>1. ~Restoring(p)
  BY DEF BeingRestored, Restoring, RequestRestores, MonitorIsRestoring
<1>2. Sound(mem, p)
  BY <1>1 DEF JumpIInv, AllSound
<1> QED
  BY <1>2 DEF Sound, Present, Shows

\* A cell that one write only reaches belongs to one patch.
LEMMA CellsApart ==
  ASSUME NEW p \in Patches, NEW q \in Patches, NEW c \in Sole, c \in CellsOf[p], c \in CellsOf[q]
  PROVE  p = q
<1>1. PICK i \in DOMAIN Plan[p] : \E k \in DOMAIN Writes(Plan[p][i]) :
        c \in DOMAIN Writes(Plan[p][i])[k]
  BY CellIsWritten
<1>2. PICK k \in DOMAIN Writes(Plan[p][i]) : c \in DOMAIN Writes(Plan[p][i])[k]
  BY <1>1
<1>3. PICK h \in DOMAIN Plan[q] : \E l \in DOMAIN Writes(Plan[q][h]) :
        c \in DOMAIN Writes(Plan[q][h])[l]
  BY CellIsWritten
<1>4. PICK l \in DOMAIN Writes(Plan[q][h]) : c \in DOMAIN Writes(Plan[q][h])[l]
  BY <1>3
<1> QED
  BY <1>2, <1>4, SoleWriter

\* No cell of p that is its alone differs.
Steady(n, m, p) == \A c \in Sole \cap CellsOf[p] : n[c] = m[c]

\* Bytes of another patch.
LEMMA WrittenSteady ==
  ASSUME NEW p \in Patches, NEW q \in Patches, p # q, NEW m, NEW f,
         NEW v, DOMAIN v \subseteq CellsOf[q]
  PROVE  Steady(Written(m, f, v), m, p)
<1> SUFFICES ASSUME NEW c \in Sole, c \in CellsOf[p]
             PROVE  Written(m, f, v)[c] = m[c]
  BY DEF Steady
<1>1. c \notin DOMAIN v
  BY CellsApart
<1>2. c \in Memory
  BY DEF Sole
<1> QED
  BY <1>1, <1>2 DEF Written, Lands

LEMMA PutBackSteady ==
  ASSUME NEW p \in Patches, NEW q \in Patches, p # q, NEW pid,
         NEW v, DOMAIN v \subseteq CellsOf[q], PutBack(pid, v)
  PROVE  Steady(mem', mem, p)
<1>1. mem' = mem \/ mem' = Written(mem, fault, v)
  BY AfterIsWritten DEF PutBack
<1>2. Steady(mem, mem, p)
  BY DEF Steady
<1>3. Steady(Written(mem, fault, v), mem, p)
  BY WrittenSteady
<1> QED
  BY <1>1, <1>2, <1>3

\* The cells of p change when a request for p, or the monitor for p, writes.
LEMMA CellsStay ==
  ASSUME PatchIInv, AllOwn, [Next]_vars, ~StartGame, ~EndGame, NEW p \in Patches
  PROVE  \/ Steady(mem', mem, p)
         \/ \E t \in Threads : /\ job[t].patch = p /\ mem' # mem
                               /\ WriteBlock(t) \/ Rollback(t) \/ RestoreBlock(t)
         \/ MonitorRestores /\ mon.patch = p /\ mem' # mem
<1>1. CASE mem' = mem
  BY <1>1 DEF Steady
<1>2. ASSUME NEW t \in Threads, WriteBlock(t), job[t].patch # p PROVE Steady(mem', mem, p)
  <2> DEFINE v == WriteOf(t)
             q == job[t].patch
  <2>1. mem' = Written(mem, fault, v) /\ InPlan(t) /\ q \in Patches
    BY <1>2, WriteFacts, AfterIsWritten, JobFacts DEF WriteBlock
  <2>2. DOMAIN v \subseteq CellsOf[q]
    BY <2>1, WrittenIsCell, JobFacts DEF InPlan, WriteOf, LineOf, Pointed
  <2>3. p # q
    BY <1>2
  <2> HIDE DEF v, q
  <2> QED
    BY <2>1, <2>2, <2>3, WrittenSteady
<1>3. ASSUME NEW t \in Threads, Rollback(t) \/ RestoreBlock(t), job[t].patch # p, mem' # mem
      PROVE  Steady(mem', mem, p)
  <2> DEFINE s == job[t].saved
             q == job[t].patch
  <2>1. /\ s # <<>> /\ s \in Seq(Bytes) /\ Own(s, q) /\ q \in Patches /\ p # q
        /\ PutBack(job[t].pid, Last(s)) \/ PutBack(job[t].pid, Head(s))
    BY <1>3, PutFacts, JobFacts DEF AllOwn
  <2> HIDE DEF s, q
  <2>2. DOMAIN Last(s) \subseteq CellsOf[q] /\ DOMAIN Head(s) \subseteq CellsOf[q]
    BY <2>1, OwnRest
  <2> QED
    BY <2>1, <2>2, PutBackSteady
<1>4. ASSUME MonitorRestores, mon.patch # p PROVE Steady(mem', mem, p)
  <2>1. /\ mon.lines # <<>> /\ mon.lines \in Seq(Bytes) /\ Own(mon.lines, mon.patch)
        /\ mon.patch \in Patches /\ PutBack(mon.pid, Head(mon.lines))
    BY <1>4 DEF MonitorRestores, AllOwn, PatchIInv, PatchTypes, MonitorTypes
  <2>2. DOMAIN Head(mon.lines) \subseteq CellsOf[mon.patch]
    BY <2>1, OwnRest
  <2> QED
    BY <1>4, <2>1, <2>2, PutBackSteady
<1> QED
  BY <1>1, <1>2, <1>3, <1>4, WriterHolds

\* A request for p that writes leaves it sound, or is a restore that begins.
LEMMA OwnWriteSounds ==
  ASSUME PatchIInv, PatchIInv', Requests, InOrder', mem' # mem, UNCHANGED gamePid,
         NEW p \in Patches, NEW t \in Threads, job[t].patch = p,
         WriteBlock(t) \/ Rollback(t) \/ RestoreBlock(t)
  PROVE  Sound(mem', p) \/ RequestRestores(p)'
<1>1. /\ RequestAt(pc[t], job[t]) /\ DOMAIN job = Threads /\ job'[t].saved \in Seq(Bytes)
  BY JobFacts DEF Requests, PatchIInv, PatchTypes, JobTypes, Jobs
<1>2. Same(job[t], job'[t]) /\ Alive(t)
  BY WriteFacts, PutFacts DEF PutBack, Alive
<1>3. Alive(t)'
  BY <1>2 DEF Same, Alive, Runs
<1>4. CASE WriteBlock(t) \/ Rollback(t)
  <2>1. pc'[t] \in {"write", "rollback"} /\ job[t].op = "apply"
    BY <1>1, <1>4, WriteFacts, PutFacts DEF WriteBlock, Rollback, RequestAt
  <2>2. Retraces(mem', fault', job'[t].saved, job'[t].patch)
    BY <1>2, <1>3, <2>1 DEF InOrder, InStep, Same
  <2>3. Sound(mem', job'[t].patch)
    BY <1>1, <2>2, RetraceSound
  <2> QED
    BY <1>2, <2>3 DEF Same
<1>5. CASE RestoreBlock(t)
  <2>1. pc'[t] = "putback" /\ job[t].op = "restore"
    BY <1>1, <1>5, PutFacts DEF RestoreBlock, RequestAt
  <2> QED
    BY <1>2, <1>3, <2>1 DEF RequestRestores, Same
<1> QED
  BY <1>4, <1>5

LEMMA MonitorWrites ==
  ASSUME PatchIInv, MonitorRestores, mem' # mem, NEW p \in Patches, mon.patch = p
  PROVE  MonitorIsRestoring(p)'
<1>1. Fields(mon) /\ mon.undone \subseteq Patches
  BY DEF PatchIInv, LockIInv, Control, PatchTypes, MonitorTypes
<1>2. /\ mon' = [mon EXCEPT !.lines = Tail(@), !.undone = @ \cup {mon.patch}]
      /\ mon.pc = "undo" /\ Runs(mon.pid) /\ UNCHANGED gamePid
  BY DEF MonitorRestores, PutBack
<1>3. /\ mon'.pc = "undo" /\ mon'.pid = mon.pid /\ mon'.patch = p
      /\ p \in mon'.undone
  BY <1>1, <1>2 DEF Fields
<1> QED
  BY <1>2, <1>3 DEF MonitorIsRestoring, Runs

\* A restore goes on, or all is as the game had it.
LEMMA RequestRestoresOn ==
  ASSUME CoverIInv, [Next]_vars, ~StartGame, ~EndGame, NEW p \in Patches, RequestRestores(p)
  PROVE  RequestRestores(p)' \/ Untouched(mem', p)
<1>1. PatchIInv /\ UNCHANGED <<gamePid, fault>>
  BY StillAlive DEF CoverIInv
<1>2. PICK t \in Threads : /\ Alive(t) /\ pc[t] \in {"putback", "unlock"}
                           /\ job[t].op = "restore" /\ job[t].patch = p
  BY DEF RequestRestores
<1>3. ASSUME pc'[t] \in {"putback", "unlock"}, Same(job[t], job'[t]) PROVE RequestRestores(p)'
  BY <1>1, <1>2, <1>3 DEF RequestRestores, Same, Alive, Runs
<1>4. CASE UNCHANGED <<pc[t], job[t]>>
  BY <1>2, <1>3, <1>4 DEF Same
<1>5. CASE Work(t)
  <2>1. CASE RestoreBlock(t)
    BY <1>1, <1>2, <1>3, <2>1, PutFacts DEF RestoreBlock
  <2>2. CASE Unlock(t)
    <3>1. UNCHANGED mem /\ pc[t] = "unlock"
      BY <2>2 DEF Unlock, game
    <3>2. Untouched(mem, p)
      BY <1>2, <3>1 DEF CoverIInv, RequestsCover, RequestCovers
    <3> QED
      BY <3>1, <3>2
  <2>3. RestoreBlock(t) \/ Unlock(t)
    BY <1>2, <1>5 DEF Work, CopyBackup, AcquireLock, Probe, SkipLine, ReadFails, WriteBlock,
      WritesDone, Rollback, StoreBackup, MarkApplied, DropBackup, MarkUnapplied
  <2> QED
    BY <2>1, <2>2, <2>3
<1>6. Work(t) \/ UNCHANGED <<pc[t], job[t]>>
  <2>1. CASE UNCHANGED vars \/ Rescan \/ Poll \/ Undo
    BY <2>1 DEF vars, Rescan, Poll, Undo, MonitorLooks, MonitorGivesUp, MonitorLocks,
      MonitorTakes, MonitorRestores, MonitorUnlocks, MonitorClears, MonitorUnmarks
  <2>2. ASSUME NEW u \in Threads \ {t}, Work(u) PROVE UNCHANGED <<pc[t], job[t]>>
    BY <1>1, <2>2, OthersStay
  <2>3. ASSUME NEW u \in Threads, NEW q \in Patches, RequestApply(u, q) \/ RequestRestore(u, q)
        PROVE  UNCHANGED <<pc[t], job[t]>>
    <3>1. pc[u] = "idle"
      BY <1>1, <2>3, RequestFacts
    <3> QED
      BY <1>1, <1>2, <2>3, <3>1, RequestFacts
  <2> QED
    BY <2>1, <2>2, <2>3 DEF Next
<1> QED
  BY <1>4, <1>5, <1>6

LEMMA MonitorRestoresOn ==
  ASSUME CoverIInv, [Next]_vars, ~StartGame, ~EndGame, NEW p \in Patches, MonitorIsRestoring(p)
  PROVE  MonitorIsRestoring(p)' \/ Untouched(mem', p)
<1>1. PatchIInv /\ UNCHANGED gamePid /\ Fields(mon) /\ mon.undone \subseteq Patches
  BY StillAlive DEF CoverIInv, PatchIInv, LockIInv, Control, PatchTypes, MonitorTypes
<1>2. mon.pc = "undo" /\ Runs(mon.pid) /\ mon.patch = p /\ p \in mon.undone
  BY DEF MonitorIsRestoring
<1>3. CASE UNCHANGED mon
  BY <1>1, <1>3 DEF MonitorIsRestoring, Runs
<1>4. CASE MonitorRestores
  <2>1. /\ mon'.pc = "undo" /\ mon'.pid = mon.pid /\ mon'.patch = p /\ p \in mon'.undone
    BY <1>1, <1>2, <1>4 DEF MonitorRestores, Fields
  <2> QED
    BY <1>1, <1>2, <2>1 DEF MonitorIsRestoring, Runs
<1>5. CASE MonitorTakes \/ MonitorUnlocks
  <2>1. mon.lines = <<>> /\ UNCHANGED mem
    BY <1>5 DEF MonitorTakes, MonitorUnlocks, game
  <2>2. Cover(mem, fault, <<>>, p)
    BY <1>2, <2>1 DEF CoverIInv, MonitorCovers
  <2> QED
    BY <2>1, <2>2, CoverNothing
<1>6. UNCHANGED mon \/ MonitorRestores \/ MonitorTakes \/ MonitorUnlocks
  <2>1. CASE UNCHANGED vars \/ Rescan
    BY <2>1 DEF vars, monitor, Rescan
  <2>2. CASE Poll \/ Undo
    BY <1>2, <2>2 DEF Poll, Undo, MonitorLooks, MonitorGivesUp, MonitorLocks, MonitorClears,
      MonitorUnmarks
  <2>3. ASSUME NEW t \in Threads,
               Work(t) \/ \E q \in Patches : RequestApply(t, q) \/ RequestRestore(t, q)
        PROVE  UNCHANGED mon
    BY <1>1, <2>3, OthersStay, RequestFacts DEF monitor
  <2> QED
    BY <2>1, <2>2, <2>3 DEF Next
<1> QED
  BY <1>3, <1>4, <1>5, <1>6

LEMMA AllSoundStep ==
  ASSUME Tidy, CoverIInv, AllOwn, AllSound, [Next]_vars, PatchIInv', InOrder'
  PROVE  AllSound'
<1>1. PatchIInv /\ Processes /\ Requests
  BY DEF CoverIInv
<1>2. SUFFICES ASSUME NEW p \in Patches PROVE Restoring(p)' \/ Sound(mem', p)
  BY DEF AllSound
<1>3. CASE StartGame \/ EndGame
  <2>1. mem' = [c \in Memory |-> Original]
    BY <1>1, <1>3 DEF StartGame, EndGame, Processes
  <2>2. Untouched(mem', p)
    BY <2>1 DEF Untouched, Sole
  <2> QED
    BY <2>2, UntouchedSound
<1>4. CASE ~StartGame /\ ~EndGame
  <2>1. UNCHANGED gamePid
    BY <1>1, <1>4, StillAlive
  <2>2. CASE Restoring(p)
    <3>1. Restoring(p)' \/ Untouched(mem', p)
      BY <1>4, <2>2, RequestRestoresOn, MonitorRestoresOn DEF Restoring
    <3> QED
      BY <3>1, UntouchedSound
  <2>3. CASE Sound(mem, p)
    <3>1. CASE Steady(mem', mem, p)
      BY <2>3, <3>1, SteadySound DEF Steady
    <3>2. ASSUME NEW t \in Threads, job[t].patch = p, mem' # mem,
                 WriteBlock(t) \/ Rollback(t) \/ RestoreBlock(t)
          PROVE  Restoring(p)' \/ Sound(mem', p)
      BY <1>1, <2>1, <3>2, OwnWriteSounds DEF Restoring
    <3>3. CASE MonitorRestores /\ mon.patch = p /\ mem' # mem
      BY <1>1, <3>3, MonitorWrites DEF Restoring
    <3> QED
      BY <1>1, <1>4, <3>1, <3>2, <3>3, CellsStay
  <2> QED
    BY <2>2, <2>3 DEF AllSound
<1> QED
  BY <1>3, <1>4

LEMMA JumpInit ==
  ASSUME Tidy
  PROVE  Init => JumpIInv
<1> SUFFICES ASSUME Init PROVE JumpIInv
  OBVIOUS
<1>1. NoJob.pid = 0 /\ NoJob.saved = <<>>
  BY DEF NoJob
<1>2. 1..Len(<<>>) = {}
  BY EmptySeq
<1>3. AllOwn
  BY <1>1, <1>2, NoUndoFacts DEF Init, AllOwn, Own
<1>4. InOrder
  BY <1>1 DEF Init, InOrder, Alive, Runs
<1>5. \A p \in Patches : Untouched(mem, p)
  BY DEF Init, Untouched, Sole
<1>6. AllSound
  BY <1>5, UntouchedSound DEF AllSound
<1> QED
  BY <1>3, <1>4, <1>6, CoverInit DEF JumpIInv

LEMMA JumpStep ==
  ASSUME ~Again, Tidy, JumpIInv, [Next]_vars
  PROVE  JumpIInv'
<1>1. CoverIInv' /\ PatchIInv'
  BY CoverStep DEF JumpIInv, CoverIInv
<1>2. AllOwn'
  BY AllOwnStep DEF JumpIInv, CoverIInv
<1>3. InOrder'
  BY InOrderStep DEF JumpIInv
<1>4. AllSound'
  BY <1>1, <1>3, AllSoundStep DEF JumpIInv
<1> QED
  BY <1>1, <1>2, <1>3, <1>4 DEF JumpIInv

\* Whenever the running game can reach a jump of a patch, what it jumps to is
\* there, in the middle of an apply, of its rollback, and afterwards, whatever
\* else is applied or restored and however the cells answer: the lines are
\* written targets first and the rollback takes the jump away first
\* (cr_patch_parser.c:1215).  With one request per patch, for tidy plans.
THEOREM NoJumpCorrect ==
  ASSUME ~Again, Tidy
  PROVE  Spec => []NoJumpIntoNothing
<1>1. Init => JumpIInv
  BY JumpInit
<1>2. JumpIInv /\ [Next]_vars => JumpIInv'
  BY JumpStep
<1> QED
  BY <1>1, <1>2, JumpIInvMeansNoJumpIntoNothing, PTL DEF Spec
=============================================================================
