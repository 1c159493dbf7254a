----------------------- MODULE CheatApplyMemoryProofs -----------------------
(***************************************************************************)
(* Theorems about the game's memory and the records, for any number of     *)
(* threads, any cheat file and any configuration, in the layouts where a   *)
(* failed write changes nothing.  IInv is the inductive invariant.  From   *)
(* it, step by step: the engine implements CheatToggle.                    *)
(***************************************************************************)
EXTENDS CheatApplyProofs

USE DEF Unlocked, Writing, Applying, Locked, Locations

\* No write stops half way.
NoTear == Layouts \subseteq [Addrs -> FaultModes \ {"torn"}]

\* The locations IInv speaks of: one thread at most is in them.
Marked == Writing \cup {"record"}

----------------------------------------------------------------------------
(* Facts about the file.                                                   *)

LEMMA SoloFacts ==
  ASSUME NEW m \in Solo
  PROVE  /\ m \in Mods /\ m \in Nat /\ m # Original
         /\ EntriesOf[m] # {} /\ EntriesOf[m] \subseteq Entries
         /\ \A e \in EntriesOf[m], f \in Entries : AddrOf[e] = AddrOf[f] => e = f
BY LayoutAssumption DEF Solo, EntriesOf, Original

LEMMA OwnEntries ==
  ASSUME NEW m \in Mods
  PROVE  /\ EntriesOf[m] = {e \in Entries : ModOf[e] = m}
         /\ \A e \in EntriesOf[m] : AddrOf[e] \in Addrs
BY DEF EntriesOf, Addrs

\* A write to an entry of another cheat leaves the bytes of a solo cheat alone.
LEMMA SoloApart ==
  ASSUME NEW m \in Solo, NEW n \in Mods, m # n, NEW e \in EntriesOf[m], NEW f \in EntriesOf[n]
  PROVE  AddrOf[e] # AddrOf[f]
BY SoloFacts, OwnEntries

\* The write order is strict.
LEMMA BeforeStrict ==
  ASSUME NEW e \in Entries, NEW f \in Entries, NEW on \in BOOLEAN, Before(e, f, on)
  PROVE  ~Before(f, e, on) /\ e # f
BY LayoutAssumption DEF Before, PassOf

LEMMA OnNotOff ==
  ASSUME NEW m \in Solo, AllOn(m), AllOff(m)
  PROVE  FALSE
BY SoloFacts DEF AllOn, AllOff

LEMMA UntouchedOff ==
  ASSUME NEW m \in Mods, Untouched
  PROVE  AllOff(m)
BY OwnEntries DEF Untouched, AllOff

----------------------------------------------------------------------------
(* Steps that leave the memory and the pass alone.                         *)

LEMMA OneMarked ==
  ASSUME LockInv, NEW t \in Threads, NEW u \in Threads, pc[t] \in Locked, pc[u] \in Locked
  PROVE  t = u
BY DEF LockInv

\* A step that touches neither the game nor a thread at a marked location, and
\* drops records at most while no game runs.
LEMMA Frame ==
  ASSUME TypeOK, IInv, TypeOK', UNCHANGED <<gamePid, started, mem, fault, old, done>>,
         \A u \in Threads : pc[u] \in Marked \/ pc'[u] \in Marked =>
                              pc'[u] = pc[u] /\ req'[u] = req[u],
         \/ UNCHANGED <<enabled, disabled>>
         \/ gamePid = 0 /\ \A m \in Mods : /\ enabled'[m] \in {0, enabled[m]}
                                           /\ disabled'[m] \in {0, disabled[m]}
  PROVE  IInv'
<1> USE DEF Marked
<1>1. \A u \in Threads, m \in Mods : InPassOn(u, m)' <=> InPassOn(u, m)
  BY DEF InPassOn, Alive
<1>2. \A u \in Threads, m \in Mods : Recording(u, m)' <=> Recording(u, m)
  BY DEF Recording
<1>3. \A m \in Mods : /\ AllOn(m)' <=> AllOn(m)
                      /\ AllOff(m)' <=> AllOff(m)
                      /\ WasOn(m)' <=> WasOn(m)
                      /\ WasOff(m)' <=> WasOff(m)
  BY DEF AllOn, AllOff, WasOn, WasOff
<1>4. \A u \in Threads : pc[u] \in Marked =>
        /\ req'[u] = req[u] /\ (Alive(u)' <=> Alive(u))
        /\ PassInv(u)' <=> PassInv(u)
  BY DEF Alive, PassInv, Prefix, NewBytes, WasOn, WasOff
<1>5. MemoryInv'
  BY <1>1, <1>3, <1>4, SoloFacts DEF IInv, MemoryInv, Untouched, InPassOn
<1>6. RecordInv'
  <2>1. \A m \in Mods : enabled'[m] <= started' /\ disabled'[m] <= started'
    BY DEF IInv, RecordInv, TypeOK, Pids
  <2>2. \A m \in Solo, t \in Threads :
          /\ InPassOn(t, m)' => (enabled'[m] = gamePid' <=> WasOn(m)')
          /\ Recording(t, m)' /\ Alive(t)' => IF req'[t].on THEN AllOn(m)' ELSE AllOff(m)'
    BY <1>1, <1>2, <1>3, <1>4, SoloFacts DEF IInv, RecordInv, InPassOn, Recording, Alive
  <2>3. ASSUME gamePid # 0, NEW m \in Mods
        PROVE  /\ m \in Solo =>
                    \/ \E t \in Threads : Alive(t)' /\ (InPassOn(t, m)' \/ Recording(t, m)')
                    \/ enabled'[m] = gamePid' <=> AllOn(m)'
               /\ \/ \E t \in Threads : Recording(t, m)'
                  \/ ~(enabled'[m] = gamePid' /\ disabled'[m] = gamePid')
    <3>1. UNCHANGED <<enabled, disabled>> BY <2>3
    <3> QED BY <1>1, <1>2, <1>3, <1>4, <2>3, <3>1 DEF IInv, RecordInv, InPassOn, Recording
  <2>4. \A t \in Threads : pc'[t] = "record" /\ req'[t].on => disabled'[req'[t].mod] = 0
    BY DEF IInv, RecordInv, TypeOK, Call
  <2> QED BY <2>1, <2>2, <2>3, <2>4, SoloFacts DEF RecordInv
<1> QED BY <1>5, <1>6 DEF IInv

\* A thread that moves between locations that are not marked.
LEMMA FrameMove ==
  ASSUME TypeOK, IInv, TypeOK', UNCHANGED <<gamePid, started, mem, fault, old, done>>,
         NEW t \in Threads, pc[t] \notin Marked,
         \A u \in Threads : u # t => pc'[u] = pc[u] /\ req'[u] = req[u],
         pc'[t] \notin Marked,
         \/ UNCHANGED <<enabled, disabled>>
         \/ gamePid = 0 /\ \A m \in Mods : /\ enabled'[m] \in {0, enabled[m]}
                                           /\ disabled'[m] \in {0, disabled[m]}
  PROVE  IInv'
<1>1. \A u \in Threads : pc[u] \in Marked \/ pc'[u] \in Marked =>
                              pc'[u] = pc[u] /\ req'[u] = req[u]
  OBVIOUS
<1> QED BY <1>1, Frame

LEMMA ReturnMoves ==
  ASSUME TypeOK, NEW t \in Threads, NEW ok, Return(t, ok)
  PROVE  /\ pc'[t] \in Unlocked
         /\ \A u \in Threads : u # t => pc'[u] = pc[u] /\ req'[u] = req[u]
<1>1. \A u \in Threads : u # t => pc'[u] = pc[u]
  BY ReturnUnlocked DEF TypeOK
<1>2. pc'[t] \in Unlocked
  BY ReturnUnlocked DEF TypeOK
<1>3. \A u \in Threads : u # t => req'[u] = req[u]
  BY DEF Return, TypeOK
<1> QED BY <1>1, <1>2, <1>3

LEMMA CallMoves ==
  ASSUME TypeOK, NEW t \in Threads, NEW caller, NEW m, NEW on, CallEngine(t, caller, m, on)
  PROVE  /\ pc'[t] \in Unlocked
         /\ \A u \in Threads : u # t => pc'[u] = pc[u] /\ req'[u] = req[u]
<1>1. pc' = [pc EXCEPT ![t] = "enter"] /\ req' = [req EXCEPT ![t] = NewCall(m, on)]
  BY DEF CallEngine, Go
<1> QED BY <1>1 DEF TypeOK

LEMMA RefreshDrops ==
  ASSUME TypeOK, Refresh
  PROVE  \/ UNCHANGED <<enabled, disabled>>
         \/ gamePid = 0 /\ \A m \in Mods : /\ enabled'[m] \in {0, enabled[m]}
                                           /\ disabled'[m] \in {0, disabled[m]}
BY DEF Refresh, TypeOK

\* Where a call neither holds a backup nor is seen to toggle a cheat.
Outside == Unlocked \cup {"recheck", "probe", "read", "fail"}

\* The steps that stay there leave the game and the pass alone.
LEMMA OutsideMoves ==
  ASSUME TypeOK, NEW t \in Threads,
         \/ Enter(t) \/ Reject(t) \/ CheckCooldown(t) \/ SwitchOffConflict(t)
         \/ SwitchOnMaster(t) \/ TakeLock(t) \/ Recheck(t) \/ Probe(t) \/ ProbeFails(t)
         \/ PreReadFails(t)
  PROVE  /\ pc[t] \in Outside /\ pc'[t] \in Outside
         /\ \A u \in Threads : u # t => pc'[u] = pc[u] /\ req'[u] = req[u]
         /\ UNCHANGED <<gamePid, started, mem, fault, old, done>>
<1> USE DEF game, tables, calls, pass, Outside
<1>1. CASE Enter(t)
  BY <1>1 DEF Enter, Go, TypeOK
<1>2. CASE Reject(t)
  BY <1>2, ReturnMoves DEF Reject
<1>3. CASE CheckCooldown(t)
  BY <1>3, ReturnMoves DEF CheckCooldown, Go, TypeOK
<1>4. CASE SwitchOffConflict(t)
  BY <1>4, CallMoves DEF SwitchOffConflict, TypeOK
<1>5. CASE SwitchOnMaster(t)
  BY <1>5, CallMoves DEF SwitchOnMaster, Go, TypeOK
<1>6. CASE TakeLock(t)
  BY <1>6, ReturnMoves DEF TakeLock, Go, TypeOK
<1>7. CASE Recheck(t)
  BY <1>7, ReturnMoves DEF Recheck, Go, TypeOK
<1>8. CASE Probe(t)
  BY <1>8 DEF Probe, Go, TypeOK
<1>9. CASE ProbeFails(t)
  BY <1>9, ReturnMoves DEF ProbeFails
<1>10. CASE PreReadFails(t)
  BY <1>10 DEF PreReadFails, Go, TypeOK
<1> QED BY <1>1, <1>2, <1>3, <1>4, <1>5, <1>6, <1>7, <1>8, <1>9, <1>10

----------------------------------------------------------------------------
(* The game starts and ends.                                               *)

LEMMA StartKeeps ==
  ASSUME TypeOK, IInv, StartGame
  PROVE  IInv'
<1> USE DEF StartGame, tables, calls, pass, Marked
<1>1. Untouched /\ Untouched'
  BY DEF IInv, MemoryInv, Untouched
<1>2. \A m \in Mods : AllOff(m)'
  BY <1>1, OwnEntries DEF Untouched, AllOff
<1>3. \A t \in Threads : pc[t] \in Marked => ~Alive(t)'
  BY ConfigAssumption DEF IInv, MemoryInv, Alive, TypeOK, Call, Pids
<1>4. \A t \in Threads, m \in Mods : ~InPassOn(t, m)'
  BY <1>3 DEF InPassOn
<1>5. MemoryInv'
  <2>1. \A t \in Threads : pc[t] \in Marked => req[t].pid <= started'
    BY ConfigAssumption DEF IInv, MemoryInv, TypeOK, Call, Pids
  <2> QED BY <1>1, <1>2, <1>4, <2>1, SoloFacts DEF IInv, MemoryInv
<1>6. \A m \in Mods : /\ enabled[m] <= started' /\ disabled[m] <= started'
                      /\ enabled[m] # gamePid' /\ disabled[m] # gamePid'
  BY ConfigAssumption DEF IInv, RecordInv, TypeOK, Pids
<1>7. \A m \in Solo : ~AllOn(m)'
  BY <1>2, SoloFacts DEF AllOn, AllOff
<1>8. RecordInv'
  BY <1>3, <1>4, <1>6, <1>7, SoloFacts DEF IInv, RecordInv, Recording
<1> QED BY <1>5, <1>8 DEF IInv

LEMMA EndKeeps ==
  ASSUME TypeOK, IInv, EndGame
  PROVE  IInv'
<1> USE DEF EndGame, tables, calls, pass, Marked
<1>1. Untouched'
  BY DEF Untouched
<1>2. \A m \in Mods : AllOff(m)'
  BY <1>1, OwnEntries DEF Untouched, AllOff
<1>3. \A t \in Threads : ~Alive(t)'
  BY DEF Alive
<1>4. MemoryInv'
  BY <1>1, <1>2, <1>3, SoloFacts DEF IInv, MemoryInv, InPassOn
<1>5. RecordInv'
  BY <1>3 DEF IInv, RecordInv, InPassOn, Recording
<1> QED BY <1>4, <1>5 DEF IInv

----------------------------------------------------------------------------
(* The thread that holds the lock, and nobody else, is at a marked place.  *)

LEMMA OnlyMarked ==
  ASSUME TypeOK, LockInv, NEW t \in Threads, pc[t] \in Locked
  PROVE  \A u \in Threads : u # t => pc[u] \notin Locked
BY DEF LockInv

LEMMA PreReadKeeps ==
  ASSUME TypeOK, LockInv, IInv, TypeOK', NEW t \in Threads, PreRead(t)
  PROVE  IInv'
<1> DEFINE m == req[t].mod
<1> USE DEF game, tables, calls, Marked
<1>1. /\ Alive(t) /\ Alive(t)' /\ pc[t] = "read" /\ pc'[t] = "write" /\ done' = {}
      /\ \A u \in Threads : u # t => pc'[u] = pc[u] /\ pc[u] \notin Locked
      /\ old' = [e \in Entries |-> mem[AddrOf[e]]]
      /\ UNCHANGED <<gamePid, started, mem, fault, enabled, disabled, req>>
  <2>1. /\ Alive(t) /\ pc[t] = "read" /\ pc' = [pc EXCEPT ![t] = "write"] /\ done' = {}
        /\ old' = [e \in Entries |-> mem[AddrOf[e]]]
        /\ UNCHANGED <<gamePid, started, mem, fault, enabled, disabled, req>>
    BY DEF PreRead, Go
  <2>2. \A u \in Threads : u # t => pc[u] \notin Locked
    BY <2>1, OnlyMarked
  <2>3. Alive(t)'
    BY <2>1 DEF Alive
  <2> QED BY <2>1, <2>2, <2>3 DEF TypeOK
<1>2. m \in Mods BY DEF TypeOK, Call
<1>3. \A u \in Threads, n \in Mods : /\ ~InPassOn(u, n) /\ ~Recording(u, n)
                                     /\ InPassOn(u, n)' <=> u = t /\ n = m
                                     /\ ~Recording(u, n)'
  BY <1>1 DEF InPassOn, Recording, Alive
<1>4. \A n \in Solo : AllOn(n) \/ AllOff(n)
  BY <1>3, SoloFacts DEF IInv, MemoryInv
<1>5. \A n \in Mods : /\ AllOn(n)' <=> AllOn(n)
                      /\ AllOff(n)' <=> AllOff(n)
                      /\ WasOn(n)' <=> AllOn(n)
                      /\ WasOff(n)' <=> AllOff(n)
  BY <1>1, OwnEntries DEF AllOn, AllOff, WasOn, WasOff
<1>6. m \in Solo => PassInv(t)'
  <2> SUFFICES ASSUME m \in Solo PROVE PassInv(t)'
    OBVIOUS
  <2>1. WasOn(m)' \/ WasOff(m)'
    BY <1>1, <1>2, <1>4, <1>5
  <2>2. \A e \in EntriesOf[m] : mem'[AddrOf[e]] = old'[e]
    BY <1>1, <1>2, OwnEntries
  <2> QED BY <1>1, <2>1, <2>2 DEF PassInv, Prefix
<1>7. MemoryInv'
  <2>1. req[t].pid <= started
    BY <1>1 DEF Alive, TypeOK
  <2> QED BY <1>1, <1>3, <1>4, <1>5, <1>6, <2>1, SoloFacts
          DEF IInv, MemoryInv, Untouched
<1>8. RecordInv'
  <2>1. gamePid # 0 BY <1>1 DEF Alive
  <2>2. \A n \in Solo : enabled[n] = gamePid <=> AllOn(n)
    BY <1>3, <2>1, SoloFacts DEF IInv, RecordInv
  <2>3. \A n \in Mods : ~(enabled[n] = gamePid /\ disabled[n] = gamePid)
    BY <1>3, <2>1 DEF IInv, RecordInv
  <2>4. \A u \in Threads : pc'[u] # "record"
    BY <1>1
  <2> QED BY <1>1, <1>3, <1>5, <2>2, <2>3, <2>4, SoloFacts DEF IInv, RecordInv
<1> QED BY <1>7, <1>8 DEF IInv

\* What the lemmas about a step of the pass start from: t is the only thread at
\* a marked place, before the step and after it.
LEMMA OnlyPass ==
  ASSUME TypeOK, LockInv, NEW t \in Threads, pc[t] \in Locked, NEW loc \in Locations,
         pc' = [pc EXCEPT ![t] = loc], UNCHANGED <<gamePid, req>>
  PROVE  /\ pc'[t] = loc /\ (Alive(t)' <=> Alive(t))
         /\ \A u \in Threads : u # t => pc'[u] = pc[u] /\ pc[u] \notin Locked
         /\ \A u \in Threads, n \in Mods :
              /\ InPassOn(u, n) <=> u = t /\ pc[t] \in Writing /\ Alive(t) /\ n = req[t].mod
              /\ InPassOn(u, n)' <=> u = t /\ loc \in Writing /\ Alive(t) /\ n = req[t].mod
              /\ Recording(u, n) <=> u = t /\ pc[t] = "record" /\ n = req[t].mod
              /\ Recording(u, n)' <=> u = t /\ loc = "record" /\ n = req[t].mod
<1>1. pc'[t] = loc /\ \A u \in Threads : u # t => pc'[u] = pc[u] /\ pc[u] \notin Locked
  BY OnlyMarked DEF TypeOK
<1>2. \A u \in Threads : Alive(u)' <=> Alive(u)
  BY DEF Alive
<1> QED BY <1>1, <1>2 DEF InPassOn, Recording

\* The bytes of the cheats that are not being switched stay as they are.
LEMMA OthersKeep ==
  ASSUME TypeOK, NEW t \in Threads, NEW e \in EntriesOf[req[t].mod],
         \A a \in Addrs : a # AddrOf[e] => mem'[a] = mem[a],
         NEW n \in Solo, n # req[t].mod
  PROVE  (AllOn(n)' <=> AllOn(n)) /\ (AllOff(n)' <=> AllOff(n))
<1>1. req[t].mod \in Mods BY DEF TypeOK, Call
<1>2. \A f \in EntriesOf[n] : mem'[AddrOf[f]] = mem[AddrOf[f]]
  BY <1>1, SoloApart, SoloFacts, OwnEntries
<1> QED BY <1>2 DEF AllOn, AllOff

\* A step of the pass or of the rollback that rewrites one byte range of the
\* live process and keeps PassInv keeps IInv.
LEMMA PassKeeps ==
  ASSUME TypeOK, LockInv, IInv, NEW t \in Threads, pc[t] \in Writing, Alive(t),
         UNCHANGED <<gamePid, started, fault, enabled, disabled, pc, req, old>>,
         NEW e \in EntriesOf[req[t].mod],
         \A a \in Addrs : a # AddrOf[e] => mem'[a] = mem[a],
         done' \subseteq EntriesOf[req[t].mod],
         req[t].mod \in Solo => PassInv(t)'
  PROVE  IInv'
<1> DEFINE m == req[t].mod
<1> USE DEF Marked
<1>1. m \in Mods BY DEF TypeOK, Call
<1>2. pc' = [pc EXCEPT ![t] = pc[t]] BY DEF TypeOK
<1>3. /\ Alive(t)'
      /\ \A u \in Threads : u # t => pc[u] \notin Locked
      /\ \A u \in Threads, n \in Mods : /\ InPassOn(u, n) <=> u = t /\ n = m
                                        /\ InPassOn(u, n)' <=> u = t /\ n = m
                                        /\ ~Recording(u, n) /\ ~Recording(u, n)'
  <2>1. pc[t] \in Locations /\ pc[t] \in Locked /\ pc[t] # "record"
    OBVIOUS
  <2> HIDE DEF Marked
  <2> QED BY <1>1, <1>2, <2>1, OnlyPass
<1>4. \A n \in Solo : n # m => (AllOn(n)' <=> AllOn(n)) /\ (AllOff(n)' <=> AllOff(n))
  BY OthersKeep
<1>5. \A n \in Mods : WasOn(n)' <=> WasOn(n)
  BY DEF WasOn
<1>6. gamePid # 0 BY DEF Alive
<1>7. MemoryInv'
  BY <1>1, <1>3, <1>4, <1>6, SoloFacts DEF IInv, MemoryInv
<1>8. RecordInv'
  BY <1>1, <1>3, <1>4, <1>5, <1>6, SoloFacts DEF IInv, RecordInv
<1> QED BY <1>7, <1>8 DEF IInv

LEMMA WriteKeeps ==
  ASSUME TypeOK, LockInv, IInv, NEW t \in Threads, WriteEntry(t)
  PROVE  IInv'
<1> DEFINE m == req[t].mod
<1> USE DEF tables, calls, Marked
<1>1. PICK e \in Entries : /\ IsNextWrite(t, e) /\ WriteVerified(t, e)
                           /\ mem' = [mem EXCEPT ![AddrOf[e]] = NewBytes(t)]
                           /\ done' = done \cup {e}
  BY DEF WriteEntry
<1>2. /\ pc[t] = "write" /\ Alive(t)
      /\ UNCHANGED <<gamePid, started, fault, enabled, disabled, pc, req, old>>
  BY <1>1 DEF WriteEntry, WriteVerified
<1>3. e \in EntriesOf[m] /\ e \notin done /\ done \subseteq EntriesOf[m]
  BY <1>1, <1>2 DEF IsNextWrite, IInv, MemoryInv
<1>4. ASSUME m \in Solo PROVE PassInv(t)'
  <2>1. PassInv(t)
    BY <1>2, <1>4 DEF IInv, MemoryInv, InPassOn
  <2>2. /\ NewBytes(t)' = NewBytes(t)
        /\ WasOn(m)' <=> WasOn(m)
        /\ WasOff(m)' <=> WasOff(m)
    BY <1>2 DEF NewBytes, WasOn, WasOff
  <2>3. \A f \in EntriesOf[m] : f # e => AddrOf[f] # AddrOf[e]
    BY <1>3, <1>4, SoloFacts
  <2>4. \A f \in EntriesOf[m] :
          mem'[AddrOf[f]] = IF f \in done' THEN NewBytes(t) ELSE old[f]
    BY <1>1, <1>3, <1>4, <2>1, <2>3, SoloFacts, OwnEntries DEF PassInv, TypeOK
  <2>5. Prefix(t)'
    <3>1. \A f \in EntriesOf[m] : Before(f, e, req[t].on) => f \in done
      <4>1. req[t].on \in BOOLEAN BY DEF TypeOK, Call
      <4> QED BY <1>1, <1>3, <1>4, <4>1, BeforeStrict, SoloFacts DEF IsNextWrite
    <3> QED BY <1>1, <1>2, <2>1, <3>1 DEF PassInv, Prefix
  <2>6. fault[AddrOf[e]] = "ok" \/ old[e] = NewBytes(t)
    BY <1>1, <1>3, <2>1 DEF WriteVerified, PassInv
  <2>7. \A f \in done' : fault'[AddrOf[f]] = "ok" \/ old'[f] = NewBytes(t)'
    BY <1>1, <1>2, <2>1, <2>2, <2>6 DEF PassInv
  <2> QED BY <1>2, <2>1, <2>2, <2>4, <2>5, <2>7 DEF PassInv
<1>5. done' \subseteq EntriesOf[m]
  BY <1>1, <1>3
<1>6. \A a \in Addrs : a # AddrOf[e] => mem'[a] = mem[a]
  BY <1>1 DEF TypeOK
<1> QED BY <1>2, <1>3, <1>4, <1>5, <1>6, PassKeeps

LEMMA RollbackKeeps ==
  ASSUME TypeOK, LockInv, IInv, NEW t \in Threads, Rollback(t)
  PROVE  IInv'
<1> DEFINE m == req[t].mod
<1> USE DEF tables, calls, Marked
<1>1. PICK e \in Entries : /\ IsNextUndo(t, e)
                           /\ mem' = IF Alive(t) /\ fault[AddrOf[e]] = "ok"
                                    THEN [mem EXCEPT ![AddrOf[e]] = old[e]] ELSE mem
                           /\ done' = done \ {e}
  BY DEF Rollback
<1>2. /\ pc[t] = "rollback"
      /\ UNCHANGED <<gamePid, started, fault, enabled, disabled, pc, req, old>>
  BY DEF Rollback
<1>3. e \in EntriesOf[m] /\ e \in done /\ done \subseteq EntriesOf[m]
  BY <1>1, <1>2 DEF IsNextUndo, IInv, MemoryInv
<1>4. m \in Mods BY DEF TypeOK, Call
<1>5. CASE Alive(t)
  <2>1. ASSUME m \in Solo PROVE PassInv(t)'
    <3>1. PassInv(t)
      BY <1>2, <1>5, <2>1 DEF IInv, MemoryInv, InPassOn
    <3>2. /\ NewBytes(t)' = NewBytes(t)
          /\ WasOn(m)' <=> WasOn(m)
          /\ WasOff(m)' <=> WasOff(m)
      BY <1>2 DEF NewBytes, WasOn, WasOff
    <3>3. \A f \in EntriesOf[m] : f # e => AddrOf[f] # AddrOf[e]
      BY <1>3, <2>1, SoloFacts
    <3>4. mem'[AddrOf[e]] = old[e]
      BY <1>1, <1>3, <1>4, <1>5, <3>1, OwnEntries DEF PassInv, TypeOK
    <3>5. \A f \in EntriesOf[m] : f # e => mem'[AddrOf[f]] = mem[AddrOf[f]]
      BY <1>1, <1>4, <3>3, OwnEntries DEF TypeOK
    <3>6. \A f \in EntriesOf[m] :
            mem'[AddrOf[f]] = IF f \in done' THEN NewBytes(t) ELSE old[f]
      BY <1>1, <1>3, <3>1, <3>4, <3>5 DEF PassInv
    <3>7. Prefix(t)'
      <4>1. req[t].on \in BOOLEAN BY DEF TypeOK, Call
      <4>2. \A g \in done : g # e => ~Before(e, g, req[t].on)
        BY <1>1, <1>3, <2>1, <4>1, BeforeStrict, SoloFacts DEF IsNextUndo
      <4> QED BY <1>1, <1>2, <3>1, <4>2 DEF PassInv, Prefix
    <3> QED BY <1>1, <1>2, <3>1, <3>2, <3>6, <3>7 DEF PassInv
  <2>2. \A a \in Addrs : a # AddrOf[e] => mem'[a] = mem[a]
    BY <1>1 DEF TypeOK
  <2>3. done' \subseteq EntriesOf[m] /\ pc[t] \in Writing
    BY <1>1, <1>2, <1>3
  <2> QED BY <1>2, <1>3, <1>5, <2>1, <2>2, <2>3, PassKeeps
<1>6. CASE ~Alive(t)
  <2>1. UNCHANGED mem BY <1>1, <1>6
  <2>2. pc' = [pc EXCEPT ![t] = "rollback"] BY <1>2 DEF TypeOK
  <2>3. /\ \A u \in Threads : u # t => pc[u] \notin Locked
        /\ \A u \in Threads, n \in Mods : /\ ~InPassOn(u, n) /\ ~InPassOn(u, n)'
                                          /\ ~Recording(u, n) /\ ~Recording(u, n)'
    <3> HIDE DEF Marked
    <3> QED BY <1>2, <1>6, <2>2, OnlyPass
  <2>4. \A n \in Mods : (AllOn(n)' <=> AllOn(n)) /\ (AllOff(n)' <=> AllOff(n))
    BY <2>1 DEF AllOn, AllOff
  <2>5. Alive(t)' <=> Alive(t)
    BY <1>2 DEF Alive
  <2>6. MemoryInv'
    BY <1>1, <1>2, <1>3, <2>1, <2>3, <2>4, <2>5, SoloFacts DEF IInv, MemoryInv, Untouched
  <2>7. RecordInv'
    BY <1>2, <2>3, <2>4, SoloFacts DEF IInv, RecordInv
  <2> QED BY <2>6, <2>7 DEF IInv
<1> QED BY <1>5, <1>6

\* A write that fails and changes nothing turns the pass into its rollback.
LEMMA WriteFailsKeeps ==
  ASSUME NoTear, TypeOK, LockInv, IInv, NEW t \in Threads, WriteFails(t)
  PROVE  IInv'
<1> DEFINE m == req[t].mod
<1> USE DEF tables, calls, pass, Marked
<1>1. /\ pc[t] = "write" /\ pc' = [pc EXCEPT ![t] = "rollback"]
      /\ UNCHANGED <<gamePid, started, fault, enabled, disabled, req, old, done>>
  BY DEF WriteFails, Go
<1>2. UNCHANGED mem
  <2>1. \A a \in Addrs : fault[a] # "torn"
    BY DEF NoTear, TypeOK
  <2>2. \A e \in Entries : AddrOf[e] \in Addrs BY DEF Addrs
  <2> QED BY <2>1, <2>2 DEF WriteFails
<1>3. /\ pc'[t] = "rollback" /\ (Alive(t)' <=> Alive(t))
      /\ \A u \in Threads : u # t => pc'[u] = pc[u] /\ pc[u] \notin Locked
      /\ \A u \in Threads, n \in Mods : /\ InPassOn(u, n)' <=> InPassOn(u, n)
                                        /\ InPassOn(u, n) => u = t
                                        /\ ~Recording(u, n) /\ ~Recording(u, n)'
  <2>1. \A u \in Threads, n \in Mods :
          /\ InPassOn(u, n) <=> u = t /\ Alive(t) /\ n = m
          /\ InPassOn(u, n)' <=> u = t /\ Alive(t) /\ n = m
          /\ ~Recording(u, n) /\ ~Recording(u, n)'
    <3>1. \A u \in Threads, n \in Mods :
            /\ InPassOn(u, n) <=> u = t /\ pc[t] \in Writing /\ Alive(t) /\ n = req[t].mod
            /\ InPassOn(u, n)' <=> u = t /\ "rollback" \in Writing /\ Alive(t) /\ n = req[t].mod
            /\ Recording(u, n) <=> u = t /\ pc[t] = "record" /\ n = req[t].mod
            /\ Recording(u, n)' <=> u = t /\ "rollback" = "record" /\ n = req[t].mod
      BY <1>1, OnlyPass
    <3> QED BY <1>1, <3>1
  <2>2. /\ pc'[t] = "rollback" /\ (Alive(t)' <=> Alive(t))
        /\ \A u \in Threads : u # t => pc'[u] = pc[u] /\ pc[u] \notin Locked
    BY <1>1, OnlyPass
  <2> QED BY <2>1, <2>2, Zenon
<1>4. \A n \in Mods : /\ AllOn(n)' <=> AllOn(n)
                      /\ AllOff(n)' <=> AllOff(n)
                      /\ WasOn(n)' <=> WasOn(n)
                      /\ WasOff(n)' <=> WasOff(n)
  BY <1>1, <1>2 DEF AllOn, AllOff, WasOn, WasOff
<1>5. PassInv(t)' <=> PassInv(t)
  BY <1>1, <1>2 DEF PassInv, Prefix, NewBytes, WasOn, WasOff
<1>6. MemoryInv'
  BY <1>1, <1>2, <1>3, <1>4, <1>5, SoloFacts DEF IInv, MemoryInv, Untouched
<1>7. RecordInv'
  BY <1>1, <1>3, <1>4, SoloFacts DEF IInv, RecordInv
<1> QED BY <1>6, <1>7 DEF IInv

\* At the end of a pass every byte range holds the new bytes.
LEMMA CommitKeeps ==
  ASSUME TypeOK, LockInv, IInv, NEW t \in Threads, Commit(t)
  PROVE  IInv'
<1> DEFINE m == req[t].mod
<1> USE DEF game, calls, pass, Marked
<1>1. /\ pc[t] = "write" /\ pc' = [pc EXCEPT ![t] = "record"]
      /\ EntriesOf[m] \subseteq done
      /\ disabled' = [disabled EXCEPT ![m] = IF req[t].on THEN 0 ELSE req[t].pid]
      /\ UNCHANGED <<gamePid, started, mem, fault, enabled, req, old, done>>
  BY DEF Commit, Go
<1>2. m \in Mods /\ req[t].on \in BOOLEAN /\ req[t].pid \in Pids BY DEF TypeOK, Call
<1>3. /\ pc'[t] = "record" /\ (Alive(t)' <=> Alive(t))
      /\ \A u \in Threads : u # t => pc'[u] = pc[u] /\ pc[u] \notin Locked
      /\ \A u \in Threads, n \in Mods : /\ InPassOn(u, n) <=> u = t /\ Alive(t) /\ n = m
                                        /\ ~InPassOn(u, n)' /\ ~Recording(u, n)
                                        /\ Recording(u, n)' <=> u = t /\ n = m
  <2>1. \A u \in Threads, n \in Mods :
          /\ InPassOn(u, n) <=> u = t /\ pc[t] \in Writing /\ Alive(t) /\ n = req[t].mod
          /\ InPassOn(u, n)' <=> u = t /\ "record" \in Writing /\ Alive(t) /\ n = req[t].mod
          /\ Recording(u, n) <=> u = t /\ pc[t] = "record" /\ n = req[t].mod
          /\ Recording(u, n)' <=> u = t /\ "record" = "record" /\ n = req[t].mod
    BY <1>1, OnlyPass
  <2>2. /\ pc'[t] = "record" /\ (Alive(t)' <=> Alive(t))
        /\ \A u \in Threads : u # t => pc'[u] = pc[u] /\ pc[u] \notin Locked
    BY <1>1, OnlyPass
  <2> QED BY <1>1, <2>1, <2>2
<1>4. \A n \in Mods : (AllOn(n)' <=> AllOn(n)) /\ (AllOff(n)' <=> AllOff(n))
  BY <1>1 DEF AllOn, AllOff
<1>5. ASSUME m \in Solo PROVE IF req[t].on /\ Alive(t) THEN AllOn(m) ELSE AllOff(m)
  <2>1. CASE Alive(t)
    <3>0. InPassOn(t, m) BY <1>2, <1>3, <2>1
    <3>1. PassInv(t) BY <1>5, <3>0 DEF IInv, MemoryInv
    <3> QED BY <1>1, <2>1, <3>1 DEF PassInv, NewBytes, AllOn, AllOff
  <2>2. CASE ~Alive(t)
    <3>1. Untouched BY <1>1, <2>2 DEF IInv, MemoryInv
    <3> QED BY <1>2, <2>2, <3>1, UntouchedOff
  <2> QED BY <2>1, <2>2
<1>6. MemoryInv'
  BY <1>1, <1>3, <1>4, <1>5, SoloFacts DEF IInv, MemoryInv, Untouched
<1>7. RecordInv'
  <2>1. req[t].pid <= started /\ 0 <= started
    BY <1>1 DEF IInv, MemoryInv, TypeOK, Pids
  <2>2. \A n \in Mods : /\ enabled'[n] <= started' /\ disabled'[n] <= started'
                        /\ n # m => disabled'[n] = disabled[n]
    BY <1>1, <1>2, <2>1 DEF IInv, RecordInv, TypeOK
  <2>3. \A n \in Solo : (Alive(t) /\ n = m) \/ gamePid = 0 \/ (enabled[n] = gamePid <=> AllOn(n))
    BY <1>3, SoloFacts DEF IInv, RecordInv
  <2>4. \A n \in Mods : n = m \/ gamePid = 0 \/ ~(enabled'[n] = gamePid /\ disabled'[n] = gamePid)
    BY <1>1, <1>3, <2>2 DEF IInv, RecordInv
  <2>5. req[t].on => disabled'[m] = 0
    BY <1>1, <1>2 DEF TypeOK
  <2>6. \A u \in Threads : pc'[u] = "record" => u = t
    BY <1>3
  <2> QED BY <1>1, <1>3, <1>4, <1>5, <2>2, <2>3, <2>4, <2>5, <2>6, SoloFacts DEF RecordInv
<1> QED BY <1>6, <1>7 DEF IInv

LEMMA RecordKeeps ==
  ASSUME TypeOK, LockInv, IInv, NEW t \in Threads, Record(t)
  PROVE  IInv'
<1> DEFINE m == req[t].mod
<1> USE DEF game, calls, pass, Marked
<1>1. /\ pc[t] = "record" /\ pc' = [pc EXCEPT ![t] = "finish"]
      /\ enabled' = [enabled EXCEPT ![m] = IF req[t].on THEN req[t].pid ELSE 0]
      /\ UNCHANGED <<gamePid, started, mem, fault, disabled, req, old, done>>
  BY DEF Record, Go
<1>2. m \in Mods /\ req[t].on \in BOOLEAN /\ req[t].pid \in Pids BY DEF TypeOK, Call
<1>3. /\ pc'[t] = "finish" /\ (Alive(t)' <=> Alive(t))
      /\ \A u \in Threads : u # t => pc'[u] = pc[u] /\ pc[u] \notin Locked
      /\ \A u \in Threads, n \in Mods : /\ ~InPassOn(u, n) /\ ~InPassOn(u, n)'
                                        /\ ~Recording(u, n)'
                                        /\ Recording(u, n) <=> u = t /\ n = m
  <2>1. \A u \in Threads, n \in Mods :
          /\ InPassOn(u, n) <=> u = t /\ pc[t] \in Writing /\ Alive(t) /\ n = req[t].mod
          /\ InPassOn(u, n)' <=> u = t /\ "finish" \in Writing /\ Alive(t) /\ n = req[t].mod
          /\ Recording(u, n) <=> u = t /\ pc[t] = "record" /\ n = req[t].mod
          /\ Recording(u, n)' <=> u = t /\ "finish" = "record" /\ n = req[t].mod
    BY <1>1, OnlyPass
  <2>2. /\ pc'[t] = "finish" /\ (Alive(t)' <=> Alive(t))
        /\ \A u \in Threads : u # t => pc'[u] = pc[u] /\ pc[u] \notin Locked
    BY <1>1, OnlyPass
  <2> QED BY <1>1, <2>1, <2>2
<1>4. \A n \in Mods : (AllOn(n)' <=> AllOn(n)) /\ (AllOff(n)' <=> AllOff(n))
  BY <1>1 DEF AllOn, AllOff
<1>5. MemoryInv'
  BY <1>1, <1>3, <1>4, SoloFacts DEF IInv, MemoryInv, Untouched
<1>6. RecordInv'
  <2>1. req[t].pid <= started /\ 0 <= started /\ (Alive(t) \/ Untouched)
    BY <1>1 DEF IInv, MemoryInv, TypeOK, Pids
  <2>2. \A n \in Mods : /\ enabled'[n] <= started' /\ disabled'[n] <= started'
                        /\ n # m => enabled'[n] = enabled[n]
    BY <1>1, <1>2, <2>1 DEF IInv, RecordInv, TypeOK
  <2>3. ASSUME NEW n \in Solo, gamePid # 0
        PROVE  enabled'[n] = gamePid <=> AllOn(n)
    <3>1. CASE n # m
      <4>1. enabled[n] = gamePid <=> AllOn(n)
        BY <1>3, <2>3, <3>1, SoloFacts DEF IInv, RecordInv
      <4> QED BY <2>2, <3>1, <4>1, SoloFacts
    <3>2. CASE n = m /\ Alive(t)
      <4>1. IF req[t].on THEN AllOn(m) ELSE AllOff(m)
        <5>1. Recording(t, m) BY <1>2, <1>3
        <5> QED BY <3>2, <5>1 DEF IInv, RecordInv
      <4>2. enabled'[m] = IF req[t].on THEN req[t].pid ELSE 0
        BY <1>1, <1>2 DEF TypeOK
      <4>3. ~(AllOn(m) /\ AllOff(m)) BY <3>2, OnNotOff
      <4> QED BY <2>3, <3>2, <4>1, <4>2, <4>3 DEF Alive
    <3>3. CASE n = m /\ ~Alive(t)
      <4>1. ~AllOn(n) BY <2>1, <3>3, UntouchedOff, OnNotOff, SoloFacts
      <4>2. enabled'[m] # gamePid
        BY <1>1, <1>2, <2>3, <3>3 DEF TypeOK, Alive
      <4> QED BY <3>3, <4>1, <4>2
    <3> QED BY <3>1, <3>2, <3>3
  <2>4. ASSUME NEW n \in Mods, gamePid # 0
        PROVE  ~(enabled'[n] = gamePid /\ disabled[n] = gamePid)
    <3>1. CASE n # m
      BY <1>3, <2>2, <2>4, <3>1 DEF IInv, RecordInv
    <3>2. CASE n = m /\ req[t].on
      BY <1>1, <2>4, <3>2 DEF IInv, RecordInv
    <3>3. CASE n = m /\ ~req[t].on
      BY <1>1, <2>4, <3>3 DEF TypeOK
    <3> QED BY <3>1, <3>2, <3>3
  <2>5. \A u \in Threads : pc'[u] # "record"
    BY <1>3
  <2> QED BY <1>1, <1>3, <1>4, <2>2, <2>3, <2>4, <2>5, SoloFacts DEF RecordInv
<1> QED BY <1>5, <1>6 DEF IInv

\* The end of a rollback: with nothing left to put back, the cheat is what the
\* pass found, and so are its records.
LEMMA ReleaseKeeps ==
  ASSUME TypeOK, LockInv, IInv, NEW t \in Threads, Release(t)
  PROVE  IInv'
<1> DEFINE m == req[t].mod
<1> USE DEF game, tables, Marked
<1>1. /\ \/ pc[t] \in {"finish", "fail"}
         \/ pc[t] = "rollback" /\ done = {}
      /\ UNCHANGED <<gamePid, started, mem, fault, enabled, disabled>>
  BY DEF Release
<1>2. m \in Mods BY DEF TypeOK, Call
<1>3. Return(t, pc[t] = "finish")
  BY DEF Release
<1>4. pc'[t] \in Unlocked /\ \A u \in Threads : u # t => pc'[u] = pc[u]
  BY <1>3, ReturnMoves
<1>5. \A u \in Threads : pc'[u] \notin Locked
  BY <1>1, <1>4, OnlyMarked
<1>6. \A u \in Threads : u # t => pc[u] \notin Locked
  BY <1>1, OnlyMarked
<1>7. \A u \in Threads, n \in Mods : /\ ~InPassOn(u, n)' /\ ~Recording(u, n)'
                                     /\ ~Recording(u, n)
                                     /\ InPassOn(u, n) => u = t /\ n = m /\ Alive(t) /\ done = {}
  BY <1>1, <1>5, <1>6 DEF InPassOn, Recording
<1>8. \A n \in Mods : (AllOn(n)' <=> AllOn(n)) /\ (AllOff(n)' <=> AllOff(n))
  BY <1>1 DEF AllOn, AllOff
<1>9. ASSUME m \in Solo, InPassOn(t, m)
      PROVE  /\ AllOn(m) \/ AllOff(m)
             /\ enabled[m] = gamePid <=> AllOn(m)
  <2>1. PassInv(t) /\ (enabled[m] = gamePid <=> WasOn(m))
    BY <1>9 DEF IInv, MemoryInv, RecordInv
  <2>2. done = {} BY <1>2, <1>7, <1>9
  <2>3. (AllOn(m) <=> WasOn(m)) /\ (AllOff(m) <=> WasOff(m))
    BY <2>1, <2>2 DEF PassInv, AllOn, AllOff, WasOn, WasOff
  <2>4. WasOn(m) \/ WasOff(m) BY <2>1 DEF PassInv
  <2> QED BY <2>1, <2>3, <2>4
<1>10. MemoryInv'
  <2>1. \A n \in Solo : AllOn(n) \/ AllOff(n)
    BY <1>7, <1>9, SoloFacts DEF IInv, MemoryInv
  <2> QED BY <1>1, <1>5, <1>7, <1>8, <2>1, SoloFacts DEF IInv, MemoryInv, Untouched
<1>11. RecordInv'
  <2>1. \A n \in Solo : gamePid = 0 \/ (enabled[n] = gamePid <=> AllOn(n))
    BY <1>7, <1>9, SoloFacts DEF IInv, RecordInv
  <2>2. \A n \in Mods : gamePid = 0 \/ ~(enabled[n] = gamePid /\ disabled[n] = gamePid)
    BY <1>7 DEF IInv, RecordInv
  <2> QED BY <1>1, <1>5, <1>7, <1>8, <2>1, <2>2, SoloFacts DEF IInv, RecordInv
<1> QED BY <1>10, <1>11 DEF IInv

----------------------------------------------------------------------------
(* The inductive step and what follows from it.                            *)

THEOREM MemoryInit == Init => IInv
<1> SUFFICES ASSUME Init PROVE IInv
  OBVIOUS
<1>1. Untouched BY DEF Init, Untouched
<1>2. \A m \in Mods : AllOff(m) BY <1>1, UntouchedOff
<1>3. \A t \in Threads, m \in Mods : ~InPassOn(t, m) /\ ~Recording(t, m)
  BY DEF Init, InPassOn, Recording
<1>4. MemoryInv BY <1>1, <1>2, <1>3, SoloFacts DEF Init, MemoryInv
<1>5. RecordInv BY <1>3, SoloFacts DEF Init, RecordInv
<1> QED BY <1>4, <1>5 DEF IInv

THEOREM MemoryStep ==
  NoTear => (TypeOK /\ TypeOK' /\ LockInv /\ IInv /\ [Next]_vars => IInv')
<1> SUFFICES ASSUME NoTear, TypeOK, TypeOK', LockInv, IInv, [Next]_vars PROVE IInv'
  OBVIOUS
<1> USE DEF game, tables, calls, pass
<1>1. CASE UNCHANGED vars
  BY <1>1, Frame DEF vars
<1>2. CASE StartGame
  BY <1>2, StartKeeps
<1>3. CASE EndGame
  BY <1>3, EndKeeps
<1>4. CASE CooldownElapses
  BY <1>4, Frame DEF CooldownElapses
<1>5. CASE MonitorPolls
  BY <1>5, RefreshDrops, Frame DEF MonitorPolls
<1>6. ASSUME NEW t \in Threads,
             \/ \E m \in Mods, on \in BOOLEAN : Request(t, m, on)
             \/ DisableAllRound(t)
      PROVE  IInv'
  <2>1. /\ pc[t] = "idle"
        /\ pc' = [pc EXCEPT ![t] = "enter"] \/ pc' = pc
        /\ UNCHANGED <<gamePid, started, mem, fault, old, done, enabled, disabled>>
    BY <1>6 DEF Request, DisableAllRound, Go
  <2>2. \A u \in Threads : u # t => req'[u] = req[u]
    BY <1>6 DEF Request, DisableAllRound, TypeOK
  <2>3. pc'[t] \in {"idle", "enter"} /\ \A u \in Threads : u # t => pc'[u] = pc[u]
    BY <2>1 DEF TypeOK
  <2> QED BY <2>1, <2>2, <2>3, FrameMove DEF Marked
<1>8. ASSUME NEW t \in Threads, DisableAll(t) \/ DisableAllDone(t)
      PROVE  IInv'
  BY <1>8, Frame DEF DisableAll, DisableAllDone
<1>7. ASSUME NEW t \in Threads, Step(t)
      PROVE  IInv'
  <2>1. CASE \/ Enter(t) \/ Reject(t) \/ CheckCooldown(t) \/ SwitchOffConflict(t)
             \/ SwitchOnMaster(t) \/ TakeLock(t) \/ Recheck(t) \/ Probe(t) \/ ProbeFails(t)
             \/ PreReadFails(t)
    <3>1. /\ pc[t] \notin Marked /\ pc'[t] \notin Marked
          /\ \A u \in Threads : u # t => pc'[u] = pc[u] /\ req'[u] = req[u]
          /\ UNCHANGED <<gamePid, started, mem, fault, old, done>>
      BY <2>1, OutsideMoves DEF Outside, Marked
    <3>2. \/ UNCHANGED <<enabled, disabled>>
          \/ gamePid = 0 /\ \A m \in Mods : /\ enabled'[m] \in {0, enabled[m]}
                                            /\ disabled'[m] \in {0, disabled[m]}
      BY <2>1, RefreshDrops
         DEF Enter, Reject, CheckCooldown, SwitchOffConflict, SwitchOnMaster, TakeLock, Recheck,
             Probe, ProbeFails, PreReadFails
    <3> QED BY <3>1, <3>2, FrameMove
  <2>2. CASE PreRead(t)
    BY <2>2, PreReadKeeps
  <2>3. CASE WriteEntry(t)
    BY <2>3, WriteKeeps
  <2>4. CASE WriteFails(t)
    BY <2>4, WriteFailsKeeps
  <2>5. CASE Rollback(t)
    BY <2>5, RollbackKeeps
  <2>6. CASE Commit(t)
    BY <2>6, CommitKeeps
  <2>7. CASE Record(t)
    BY <2>7, RecordKeeps
  <2>8. CASE Release(t)
    BY <2>8, ReleaseKeeps
  <2> QED BY <1>7, <2>1, <2>2, <2>3, <2>4, <2>5, <2>6, <2>7, <2>8 DEF Step
<1> QED BY <1>1, <1>2, <1>3, <1>4, <1>5, <1>6, <1>7, <1>8 DEF Next

\* The memory and the records stay consistent under any interleaving of
\* requests, rollbacks, polls, ends and restarts of the game.
THEOREM MemoryCorrect == ASSUME NoTear PROVE Spec => []IInv
<1>1. TypeOK /\ TypeOK' /\ LockInv /\ IInv /\ [Next]_vars => IInv'
  BY MemoryStep
<1> QED BY <1>1, TypeCorrect, LockCorrect, MemoryInit, PTL DEF Spec

\* In no state, in the middle of a pass or of a rollback included, is a hook in
\* the game without its cave: caves go in first and come out last.
THEOREM HookNeedsCaveCorrect == ASSUME NoTear PROVE Spec => []HookNeedsCave
<1>1. TypeOK /\ IInv => HookNeedsCave
  <2> SUFFICES ASSUME TypeOK, IInv, NEW m \in Solo,
                      NEW h \in EntriesOf[m], NEW c \in EntriesOf[m],
                      h \notin Caves, c \in Caves, mem[AddrOf[h]] = m
               PROVE  mem[AddrOf[c]] = m
    BY DEF HookNeedsCave
  <2>1. CASE \A t \in Threads : ~InPassOn(t, m)
    BY <2>1, SoloFacts DEF IInv, MemoryInv, AllOn, AllOff
  <2>2. ASSUME NEW t \in Threads, InPassOn(t, m) PROVE mem[AddrOf[c]] = m
    <3>1. PassInv(t) /\ req[t].mod = m
      BY <2>2 DEF IInv, MemoryInv, InPassOn
    <3>2. req[t].on \in BOOLEAN BY DEF TypeOK, Call
    <3>3. CASE req[t].on
      <4>1. Before(c, h, req[t].on) BY <3>2, <3>3 DEF Before, PassOf
      <4> QED BY <3>1, <3>3, <4>1, SoloFacts
              DEF PassInv, Prefix, NewBytes, WasOn, WasOff
    <3>4. CASE ~req[t].on
      <4>1. Before(h, c, req[t].on) BY <3>2, <3>4 DEF Before, PassOf
      <4> QED BY <3>1, <3>4, <4>1, SoloFacts
              DEF PassInv, Prefix, NewBytes, WasOn, WasOff
    <3> QED BY <3>2, <3>3, <3>4
  <2> QED BY <2>1, <2>2
<1> QED BY <1>1, TypeCorrect, MemoryCorrect, PTL

\* With the lock free no cheat is half applied.
THEOREM AllOrNothingCorrect == ASSUME NoTear PROVE Spec => []AllOrNothing
<1>1. LockInv /\ IInv => AllOrNothing
  <2> SUFFICES ASSUME LockInv, IInv, lock = NoThread, NEW m \in Solo
               PROVE  AllOn(m) \/ AllOff(m)
    BY DEF AllOrNothing
  <2>1. \A t \in Threads : ~InPassOn(t, m)
    BY ConfigAssumption DEF LockInv, InPassOn
  <2> QED BY <2>1 DEF IInv, MemoryInv
<1> QED BY <1>1, LockCorrect, MemoryCorrect, PTL

\* With the lock free the tables say what the memory of the live game holds.
THEOREM RecordsCorrect == ASSUME NoTear PROVE Spec => []RecordsMatchMemory
<1>1. LockInv /\ IInv => RecordsMatchMemory
  <2> SUFFICES ASSUME LockInv, IInv, lock = NoThread, gamePid # 0
               PROVE  /\ \A m \in Solo : enabled[m] = gamePid <=> AllOn(m)
                      /\ \A m \in Mods : ~(enabled[m] = gamePid /\ disabled[m] = gamePid)
    BY DEF RecordsMatchMemory
  <2>1. \A t \in Threads, m \in Mods : ~InPassOn(t, m) /\ ~Recording(t, m)
    BY ConfigAssumption DEF LockInv, InPassOn, Recording
  <2> QED BY <2>1, SoloFacts DEF IInv, RecordInv
<1> QED BY <1>1, LockCorrect, MemoryCorrect, PTL

----------------------------------------------------------------------------
(* The engine implements the toggle of a whole cheat.                      *)

\* The toggle of a thread, as ActiveToggle shows it, and what is shown of a cheat.
Pending(t) == [cheat |-> req[t].mod, on |-> req[t].on,
               committed |-> pc[t] \notin Writing \/ Whole(t)]
Shown(m) == IF InPass(m) THEN WasOn(m) ELSE AllOn(m)

LEMMA ActiveShown == ActiveCheats = {m \in Solo : Shown(m)}
BY DEF ActiveCheats, Shown, WasOn

LEMMA ShownKept ==
  ASSUME \A m \in Solo : Shown(m)' <=> Shown(m)
  PROVE  ActiveCheats' = ActiveCheats
<1>1. ActiveCheats = {m \in Solo : Shown(m)}
  BY ActiveShown
<1>2. ActiveCheats' = {m \in Solo : Shown(m)'}
  BY DEF ActiveCheats, Shown, WasOn
<1> QED BY <1>1, <1>2

\* Only the holder of the lock can be seen to toggle a cheat, in the state of a step ...
LEMMA HolderView ==
  ASSUME LockInv, NEW t \in Threads, pc[t] \in Locked
  PROVE  /\ \A m \in Solo : InPass(m) <=> /\ Toggling(t) /\ req[t].mod = m
                                          /\ pc[t] \in Writing /\ ~Whole(t)
         /\ ActiveToggle = IF Toggling(t) THEN Pending(t) ELSE NoThread
<1>1. \A u \in Threads : Toggling(u) => u = t
  BY OneMarked DEF Toggling
<1>2. CASE Toggling(t)
  <2>1. (CHOOSE u \in Threads : Toggling(u)) = t
    BY <1>1, <1>2
  <2> QED BY <1>1, <1>2, <2>1 DEF InPass, ActiveToggle, Pending
<1>3. CASE ~Toggling(t)
  BY <1>1, <1>3 DEF InPass, ActiveToggle
<1> QED BY <1>2, <1>3

\* ... and in the one after it.
LEMMA HolderViewNext ==
  ASSUME LockInv', NEW t \in Threads, pc'[t] \in Locked
  PROVE  /\ \A m \in Solo : InPass(m)' <=> /\ Toggling(t)' /\ req'[t].mod = m
                                           /\ pc'[t] \in Writing /\ ~Whole(t)'
         /\ ActiveToggle' = IF Toggling(t)' THEN Pending(t)' ELSE NoThread
<1>1. \A u \in Threads : Toggling(u)' => u = t
  BY DEF LockInv, Toggling
<1>2. CASE Toggling(t)'
  <2>1. (CHOOSE u \in Threads : Toggling(u)') = t
    BY <1>1, <1>2
  <2> QED BY <1>1, <1>2, <2>1 DEF InPass, ActiveToggle, Pending
<1>3. CASE ~Toggling(t)'
  BY <1>1, <1>3 DEF InPass, ActiveToggle
<1> QED BY <1>2, <1>3

LEMMA NoView ==
  ASSUME \A t \in Threads : ~Toggling(t)
  PROVE  ActiveToggle = NoThread /\ \A m \in Solo : Shown(m) <=> AllOn(m)
BY DEF ActiveToggle, InPass, Shown

LEMMA NoViewNext ==
  ASSUME \A t \in Threads : ~Toggling(t)'
  PROVE  ActiveToggle' = NoThread /\ \A m \in Solo : Shown(m)' <=> AllOn(m)'
BY DEF ActiveToggle, InPass, Shown

\* The invariant the view needs besides IInv: a rollback has an entry left that it
\* never wrote, and a call that finishes was made for a process that has started.
ViewInv ==
  \A t \in Threads : /\ pc[t] = "rollback" => ~Whole(t)
                     /\ pc[t] = "finish" => req[t].pid <= started

LEMMA ViewInit == Init => ViewInv
BY DEF Init, ViewInv

LEMMA ViewStep ==
  ASSUME TypeOK, LockInv, IInv, ViewInv, [Next]_vars
  PROVE  ViewInv'
<1> USE DEF game, tables, calls, pass
<1>1. CASE UNCHANGED vars \/ EndGame \/ CooldownElapses \/ MonitorPolls
  BY <1>1 DEF vars, EndGame, CooldownElapses, MonitorPolls, ViewInv, Whole
<1>2. CASE StartGame
  BY <1>2, ConfigAssumption DEF StartGame, ViewInv, Whole, TypeOK, Pids, Call
<1>3. ASSUME NEW t \in Threads,
             \/ \E m \in Mods, on \in BOOLEAN : Request(t, m, on)
             \/ DisableAll(t) \/ DisableAllRound(t) \/ DisableAllDone(t)
      PROVE  ViewInv'
  <2>1. /\ \A u \in Threads : u # t => pc'[u] = pc[u] /\ req'[u] = req[u]
        /\ pc'[t] \in {"idle", "enter"}
        /\ UNCHANGED <<started, done>>
    BY <1>3 DEF Request, DisableAll, DisableAllRound, DisableAllDone, Go, TypeOK
  <2> QED BY <2>1 DEF ViewInv, Whole
<1>4. ASSUME NEW t \in Threads, Step(t)
      PROVE  ViewInv'
  <2>1. CASE \/ Enter(t) \/ Reject(t) \/ CheckCooldown(t) \/ SwitchOffConflict(t)
             \/ SwitchOnMaster(t) \/ TakeLock(t) \/ Recheck(t) \/ Probe(t) \/ ProbeFails(t)
             \/ PreReadFails(t)
    <3>1. /\ pc'[t] \in Outside /\ UNCHANGED <<started, done>>
          /\ \A u \in Threads : u # t => pc'[u] = pc[u] /\ req'[u] = req[u]
      BY <2>1, OutsideMoves
    <3> QED BY <3>1 DEF ViewInv, Whole, Outside
  \* The other steps are the lock holder's: nobody else is at a place ViewInv speaks of.
  <2>2. CASE PreRead(t) \/ WriteEntry(t) \/ Commit(t)
    <3>1. pc[t] \in Locked /\ pc'[t] \in {"write", "record"} /\ UNCHANGED <<started, req>>
      BY <2>2 DEF PreRead, WriteEntry, Commit, Go, TypeOK
    <3>2. \A u \in Threads : u # t => pc'[u] = pc[u] /\ pc[u] \notin Locked
      BY <2>2, <3>1, OnlyMarked DEF PreRead, WriteEntry, Commit, Go, TypeOK
    <3> QED BY <3>1, <3>2 DEF ViewInv
  <2>3. CASE WriteFails(t)
    <3>1. /\ pc[t] = "write" /\ pc' = [pc EXCEPT ![t] = "rollback"]
          /\ UNCHANGED <<started, req, done>> /\ ~Whole(t)
      BY <2>3 DEF WriteFails, Go, IsNextWrite, Whole
    <3> QED BY <3>1 DEF ViewInv, Whole, TypeOK
  <2>4. CASE Rollback(t)
    <3>1. /\ pc[t] = "rollback" /\ done' \subseteq done /\ UNCHANGED <<pc, started, req>>
      BY <2>4 DEF Rollback
    <3>2. \A u \in Threads : u # t => pc[u] \notin Locked
      BY <3>1, OnlyMarked
    <3>3. ~Whole(t) /\ ~Whole(t)'
      BY <3>1 DEF ViewInv, Whole
    <3> QED BY <3>1, <3>2, <3>3 DEF ViewInv
  <2>5. CASE Record(t)
    <3>1. /\ pc[t] = "record" /\ pc' = [pc EXCEPT ![t] = "finish"]
          /\ UNCHANGED <<started, req, done>> /\ req[t].pid <= started
      BY <2>5 DEF Record, Go, IInv, MemoryInv
    <3> QED BY <3>1 DEF ViewInv, Whole, TypeOK
  <2>6. CASE Release(t)
    <3>1. pc[t] \in Locked /\ UNCHANGED started
      BY <2>6 DEF Release
    <3>2. pc'[t] \in Unlocked /\ \A u \in Threads : u # t => pc'[u] = pc[u]
      BY <2>6, ReturnMoves DEF Release
    <3>3. \A u \in Threads : u # t => pc[u] \notin Locked
      BY <3>1, OnlyMarked
    <3> QED BY <3>1, <3>2, <3>3 DEF ViewInv
  <2> QED BY <1>4, <2>1, <2>2, <2>3, <2>4, <2>5, <2>6 DEF Step
<1> QED BY <1>1, <1>2, <1>3, <1>4 DEF Next

THEOREM ViewCorrect == ASSUME NoTear PROVE Spec => []ViewInv
<1>1. TypeOK /\ LockInv /\ IInv /\ ViewInv /\ [Next]_vars => ViewInv'
  BY ViewStep
<1> QED BY <1>1, ViewInit, TypeCorrect, LockCorrect, MemoryCorrect, PTL DEF Spec

----------------------------------------------------------------------------
(* The steps that change nothing of what is shown.                         *)

\* No thread enters, leaves or moves within a pass, and the bytes stay.
LEMMA QuietView ==
  ASSUME UNCHANGED <<gamePid, mem, old, done>>,
         \A u \in Threads : \/ pc'[u] = pc[u] /\ req'[u] = req[u]
                            \/ pc[u] \in Outside /\ pc'[u] \in Outside
  PROVE  UNCHANGED <<gamePid, ActiveCheats, ActiveToggle>>
<1>1. \A u \in Threads : /\ Toggling(u)' <=> Toggling(u)
                         /\ Toggling(u) => pc'[u] = pc[u] /\ req'[u] = req[u]
  BY DEF Toggling, Alive, Outside
<1>2. \A u \in Threads : Toggling(u) => (Whole(u)' <=> Whole(u))
  BY <1>1 DEF Whole
<1>3. \A m \in Solo : InPass(m)' <=> InPass(m)
  BY <1>1, <1>2 DEF InPass
<1>4. \A m \in Solo : (WasOn(m)' <=> WasOn(m)) /\ (AllOn(m)' <=> AllOn(m))
  BY DEF WasOn, AllOn
<1>5. ActiveCheats' = ActiveCheats
  <2>1. \A m \in Solo : Shown(m)' <=> Shown(m)
    BY <1>3, <1>4 DEF Shown
  <2> QED BY <2>1, ShownKept
<1>6. ActiveToggle' = ActiveToggle
  <2>1. CASE \E u \in Threads : Toggling(u)
    <3>1. PICK t \in Threads : t = (CHOOSE u \in Threads : Toggling(u)) /\ Toggling(t)
      BY <2>1
    <3>2. (CHOOSE u \in Threads : Toggling(u)') = t
      BY <1>1, <3>1
    <3>3. ActiveToggle = Pending(t)
      BY <2>1, <3>1 DEF ActiveToggle, Pending
    <3>4. ActiveToggle' = Pending(t)'
      BY <1>1, <2>1, <3>2 DEF ActiveToggle, Pending
    <3>5. (pc'[t] \notin Writing \/ Whole(t)') = (pc[t] \notin Writing \/ Whole(t))
      BY <1>1, <1>2, <3>1
    <3> QED BY <1>1, <3>1, <3>3, <3>4, <3>5 DEF Pending
  <2>2. CASE \A u \in Threads : ~Toggling(u)
    BY <1>1, <2>2 DEF ActiveToggle
  <2> QED BY <2>1, <2>2
<1> QED BY <1>5, <1>6

----------------------------------------------------------------------------
(* The steps of the game.                                                  *)

LEMMA StartMaps ==
  ASSUME TypeOK, IInv, ViewInv, StartGame
  PROVE  Toggle!Start
<1> USE DEF StartGame, tables, calls, pass
<1>1. gamePid = 0 /\ gamePid' # 0 /\ UNCHANGED <<mem, pc, req, old, done>>
  BY DEF TypeOK, Pids
<1>2. \A t \in Threads : ~Toggling(t)
  BY <1>1 DEF Toggling, Alive
<1>3. \A t \in Threads : ~Toggling(t)'
  BY ConfigAssumption DEF Toggling, Alive, IInv, MemoryInv, ViewInv, TypeOK, Pids, Call
<1>4. \A m \in Solo : Shown(m)' <=> Shown(m)
  <2>1. \A m \in Solo : AllOn(m)' <=> AllOn(m)
    BY <1>1 DEF AllOn
  <2> QED BY <1>2, <1>3, <2>1, NoView, NoViewNext
<1>5. ActiveToggle' = ActiveToggle
  BY <1>2, <1>3, NoView, NoViewNext
<1> QED BY <1>1, <1>4, <1>5, ShownKept DEF Toggle!Start

LEMMA EndMaps ==
  ASSUME EndGame
  PROVE  Toggle!Stop
<1> USE DEF EndGame, tables, calls, pass
<1>1. \A t \in Threads : ~Toggling(t)'
  BY DEF Toggling, Alive
<1>2. \A m \in Solo : ~AllOn(m)'
  <2> SUFFICES ASSUME NEW m \in Solo PROVE ~AllOn(m)'
    OBVIOUS
  <2>1. PICK e \in EntriesOf[m] : AddrOf[e] \in Addrs
    BY SoloFacts, OwnEntries
  <2> QED BY <2>1, SoloFacts DEF AllOn
<1>3. ActiveCheats' = {}
  <2>1. ActiveCheats' = {m \in Solo : Shown(m)'}
    BY DEF ActiveCheats, Shown, WasOn
  <2> QED BY <1>1, <1>2, <2>1, NoViewNext
<1> QED BY <1>1, <1>3, NoViewNext DEF Toggle!Stop

----------------------------------------------------------------------------
(* The steps of the thread that holds the lock.                            *)

\* A cheat that shares bytes, and a process that is gone, are not seen: such a step
\* shows nothing as long as the bytes of the solo cheats stay.
LEMMA UnseenMaps ==
  ASSUME TypeOK, LockInv, LockInv', NEW t \in Threads, pc[t] \in Locked,
         \A u \in Threads : u # t => pc'[u] = pc[u],
         UNCHANGED gamePid, ~Toggling(t), ~Toggling(t)',
         \A m \in Solo : AllOn(m)' <=> AllOn(m)
  PROVE  UNCHANGED <<gamePid, ActiveCheats, ActiveToggle>>
<1>1. \A u \in Threads : u # t => pc[u] \notin Locked
  BY OnlyMarked
<1>2. \A u \in Threads : ~Toggling(u) /\ ~Toggling(u)'
  BY <1>1 DEF Toggling
<1> QED BY <1>2, NoView, NoViewNext, ShownKept

LEMMA PreReadMaps ==
  ASSUME TypeOK, LockInv, LockInv', NEW t \in Threads, PreRead(t)
  PROVE  \/ UNCHANGED <<gamePid, ActiveCheats, ActiveToggle>>
         \/ \E c \in Solo, on \in BOOLEAN : Toggle!Begin(c, on)
<1> DEFINE m == req[t].mod
<1>1. /\ pc[t] = "read" /\ pc' = [pc EXCEPT ![t] = "write"] /\ done' = {}
      /\ old' = [e \in Entries |-> mem[AddrOf[e]]] /\ Alive(t)
      /\ UNCHANGED <<gamePid, mem, req>>
  BY DEF PreRead, Go, game, calls
<1>2. m \in Mods /\ req[t].on \in BOOLEAN
  BY DEF TypeOK, Call
<1>3. \A n \in Mods : (WasOn(n)' <=> AllOn(n)) /\ (AllOn(n)' <=> AllOn(n))
  BY <1>1, OwnEntries DEF WasOn, AllOn
<1>4. pc'[t] = "write" /\ \A u \in Threads : u # t => pc'[u] = pc[u]
  BY <1>1 DEF TypeOK
<1>5. CASE m \notin Solo
  BY <1>1, <1>3, <1>4, <1>5, UnseenMaps, SoloFacts DEF Toggling
<1>6. CASE m \in Solo
  <2>1. ~Toggling(t) /\ Toggling(t)' /\ ~Whole(t)'
    BY <1>1, <1>4, <1>6, SoloFacts DEF Toggling, Alive, Whole
  <2>2. ActiveToggle = NoThread /\ \A n \in Solo : Shown(n) <=> AllOn(n)
    BY <1>1, <2>1, HolderView DEF Shown
  <2>3. /\ ActiveToggle' = Pending(t)'
        /\ \A n \in Solo : Shown(n)' <=> AllOn(n)
    BY <1>3, <1>4, <2>1, HolderViewNext, SoloFacts DEF Shown
  <2>4. Pending(t)' = [cheat |-> m, on |-> req[t].on, committed |-> FALSE]
    <3>1. (pc'[t] \notin Writing \/ Whole(t)') = FALSE
      BY <1>4, <2>1
    <3> QED BY <1>1, <3>1 DEF Pending
  <2>5. ActiveCheats' = ActiveCheats
    BY <2>2, <2>3, ShownKept
  <2>6. gamePid # 0
    BY <1>1 DEF Alive
  <2> QED BY <1>1, <1>2, <1>6, <2>2, <2>3, <2>4, <2>5, <2>6 DEF Toggle!Begin
<1> QED BY <1>5, <1>6

\* A step of the pass or of the rollback after which the cheat is still not whole.
LEMMA PartialMaps ==
  ASSUME TypeOK, LockInv, LockInv', NEW t \in Threads, pc[t] \in Writing, pc'[t] \in Writing,
         Toggling(t), ~Whole(t), ~Whole(t)', UNCHANGED <<gamePid, req, old>>,
         NEW e \in EntriesOf[req[t].mod],
         \A a \in Addrs : a # AddrOf[e] => mem'[a] = mem[a]
  PROVE  UNCHANGED <<gamePid, ActiveCheats, ActiveToggle>>
<1>1. Toggling(t)'
  BY DEF Toggling, Alive
<1>2. /\ ActiveToggle = Pending(t) /\ ActiveToggle' = Pending(t)'
      /\ \A n \in Solo : /\ InPass(n) <=> req[t].mod = n
                         /\ InPass(n)' <=> req[t].mod = n
  BY <1>1, HolderView, HolderViewNext
<1>3. Pending(t)' = Pending(t)
  <2>1. (pc'[t] \notin Writing \/ Whole(t)') = (pc[t] \notin Writing \/ Whole(t))
    OBVIOUS
  <2> QED BY <2>1 DEF Pending
<1>4. \A n \in Solo : Shown(n)' <=> Shown(n)
  <2>1. \A n \in Solo : WasOn(n)' <=> WasOn(n)
    BY DEF WasOn
  <2>2. \A n \in Solo : n # req[t].mod => (AllOn(n)' <=> AllOn(n))
    BY OthersKeep
  <2> QED BY <1>2, <2>1, <2>2 DEF Shown
<1> QED BY <1>2, <1>3, <1>4, ShownKept

LEMMA WriteMaps ==
  ASSUME TypeOK, LockInv, LockInv', IInv, IInv', NEW t \in Threads, WriteEntry(t)
  PROVE  UNCHANGED <<gamePid, ActiveCheats, ActiveToggle>> \/ Toggle!Commit
<1> DEFINE m == req[t].mod
<1>1. PICK e \in Entries : /\ IsNextWrite(t, e) /\ WriteVerified(t, e)
                           /\ mem' = [mem EXCEPT ![AddrOf[e]] = NewBytes(t)]
                           /\ done' = done \cup {e}
  BY DEF WriteEntry
<1>2. /\ pc[t] = "write" /\ Alive(t) /\ Alive(t)' /\ UNCHANGED <<gamePid, pc, req, old>>
  BY <1>1 DEF WriteEntry, WriteVerified, calls, Alive
<1>3. e \in EntriesOf[m] /\ e \notin done /\ ~Whole(t)
  BY <1>1 DEF IsNextWrite, Whole
<1>4. m \in Mods /\ req[t].on \in BOOLEAN
  BY DEF TypeOK, Call
<1>5. \A a \in Addrs : a # AddrOf[e] => mem'[a] = mem[a]
  BY <1>1 DEF TypeOK
<1>6. \A n \in Solo : n # m => (AllOn(n)' <=> AllOn(n))
  BY <1>3, <1>5, OthersKeep
<1>7. CASE m \notin Solo
  BY <1>2, <1>6, <1>7, UnseenMaps DEF Toggling
<1>8. CASE m \in Solo /\ ~Whole(t)'
  BY <1>2, <1>3, <1>5, <1>8, PartialMaps DEF Toggling
<1>9. CASE m \in Solo /\ Whole(t)'
  <2>1. Toggling(t) /\ Toggling(t)'
    BY <1>2, <1>9 DEF Toggling
  <2>2. /\ ActiveToggle = [cheat |-> m, on |-> req[t].on, committed |-> FALSE]
        /\ ActiveToggle' = [cheat |-> m, on |-> req[t].on, committed |-> TRUE]
    <3>1. (pc[t] \notin Writing \/ Whole(t)) = FALSE
      BY <1>2, <1>3
    <3>2. (pc'[t] \notin Writing \/ Whole(t)') = TRUE
      BY <1>9
    <3>3. Pending(t) = [cheat |-> m, on |-> req[t].on, committed |-> FALSE]
      BY <3>1 DEF Pending
    <3>4. Pending(t)' = [cheat |-> m, on |-> req[t].on, committed |-> TRUE]
      BY <1>2, <3>2 DEF Pending
    <3>5. ActiveToggle = Pending(t)
      BY <1>2, <2>1, HolderView
    <3>6. ActiveToggle' = Pending(t)'
      BY <1>2, <2>1, HolderViewNext
    <3> QED BY <3>3, <3>4, <3>5, <3>6
  <2>3. AllOn(m)' <=> req[t].on
    <3>1. PassInv(t)'
      BY <1>2, <1>9 DEF IInv, MemoryInv, InPassOn
    <3>2. \A f \in EntriesOf[m] : mem'[AddrOf[f]] = IF req[t].on THEN m ELSE Original
      BY <1>2, <1>9, <3>1 DEF PassInv, Whole, NewBytes
    <3>3. CASE req[t].on
      BY <1>2, <3>2, <3>3 DEF AllOn
    <3>4. CASE ~req[t].on
      <4>1. PICK f \in EntriesOf[m] : TRUE
        BY <1>9, SoloFacts
      <4>2. mem'[AddrOf[f]] = Original /\ m # Original
        BY <1>9, <3>2, <3>4, SoloFacts
      <4> QED BY <1>2, <3>4, <4>1, <4>2 DEF AllOn
    <3> QED BY <1>4, <3>3, <3>4
  <2>4. \A n \in Solo : Shown(n)' <=> IF n = m THEN req[t].on ELSE Shown(n)
    <3>1. \A n \in Solo : ~InPass(n)'
      BY <1>2, <1>9, HolderViewNext
    <3>2. \A n \in Solo : n # m => ~InPass(n)
      BY <1>2, HolderView
    <3>3. Shown(m)' <=> req[t].on
      BY <1>2, <1>9, <2>3, <3>1 DEF Shown
    <3>4. ASSUME NEW n \in Solo, n # m PROVE Shown(n)' <=> Shown(n)
      BY <1>6, <3>1, <3>2, <3>4 DEF Shown
    <3> QED BY <1>2, <3>3, <3>4
  <2>5. ActiveCheats' = IF req[t].on THEN ActiveCheats \cup {m} ELSE ActiveCheats \ {m}
    <3>1. ActiveCheats' = {n \in Solo : Shown(n)'}
      BY DEF ActiveCheats, Shown, WasOn
    <3> QED BY <1>9, <2>4, <3>1, ActiveShown
  <2>6. ActiveToggle \in Toggle!Toggles
    BY <1>4, <1>9, <2>2 DEF Toggle!Toggles
  <2>7. ActiveToggle' = [ActiveToggle EXCEPT !.committed = TRUE]
    <3>1. /\ ActiveToggle' \in Toggle!Toggles /\ ActiveToggle'.committed
          /\ ActiveToggle'.cheat = ActiveToggle.cheat /\ ActiveToggle'.on = ActiveToggle.on
      BY <1>4, <1>9, <2>2 DEF Toggle!Toggles
    <3> QED BY <2>6, <3>1 DEF Toggle!Toggles
  <2>8. ActiveToggle.cheat = m /\ ActiveToggle.on = req[t].on /\ ~ActiveToggle.committed
    BY <2>2
  <2> QED BY <1>2, <2>5, <2>6, <2>7, <2>8 DEF Toggle!Commit
<1> QED BY <1>7, <1>8, <1>9

LEMMA WriteFailsMaps ==
  ASSUME NoTear, TypeOK, LockInv, LockInv', NEW t \in Threads, WriteFails(t)
  PROVE  UNCHANGED <<gamePid, ActiveCheats, ActiveToggle>>
<1>1. PICK e \in Entries : /\ IsNextWrite(t, e)
                           /\ mem' = IF /\ Alive(t) /\ fault[AddrOf[e]] = "torn"
                                        /\ mem[AddrOf[e]] # NewBytes(t)
                                     THEN [mem EXCEPT ![AddrOf[e]] = Torn] ELSE mem
  BY DEF WriteFails
<1>2. fault[AddrOf[e]] # "torn"
  BY DEF NoTear, TypeOK, Addrs
<1>3. /\ pc[t] = "write" /\ pc' = [pc EXCEPT ![t] = "rollback"]
      /\ UNCHANGED <<gamePid, mem, req, old, done>>
  BY <1>1, <1>2 DEF WriteFails, Go, calls, pass
<1>4. e \in EntriesOf[req[t].mod] /\ ~Whole(t) /\ ~Whole(t)' /\ pc'[t] = "rollback"
  BY <1>1, <1>3 DEF IsNextWrite, Whole, TypeOK
<1>5. CASE Toggling(t)
  BY <1>3, <1>4, <1>5, PartialMaps
<1>6. CASE ~Toggling(t)
  <2>1. ~Toggling(t)' /\ \A u \in Threads : u # t => pc'[u] = pc[u]
    BY <1>3, <1>6 DEF Toggling, Alive, TypeOK
  <2>2. \A m \in Solo : AllOn(m)' <=> AllOn(m)
    BY <1>3 DEF AllOn
  <2> QED BY <1>3, <1>6, <2>1, <2>2, UnseenMaps
<1> QED BY <1>5, <1>6

LEMMA RollbackMaps ==
  ASSUME TypeOK, LockInv, LockInv', IInv, ViewInv, NEW t \in Threads, Rollback(t)
  PROVE  UNCHANGED <<gamePid, ActiveCheats, ActiveToggle>>
<1> DEFINE m == req[t].mod
<1>1. PICK e \in Entries : /\ IsNextUndo(t, e) /\ done' = done \ {e}
                           /\ mem' = IF Alive(t) /\ fault[AddrOf[e]] = "ok"
                                     THEN [mem EXCEPT ![AddrOf[e]] = old[e]] ELSE mem
  BY DEF Rollback
<1>2. pc[t] = "rollback" /\ UNCHANGED <<gamePid, pc, req, old>>
  BY DEF Rollback, calls
<1>3. e \in EntriesOf[m]
  BY <1>1, <1>2 DEF IsNextUndo, IInv, MemoryInv
<1>4. ~Whole(t) /\ ~Whole(t)'
  BY <1>1, <1>2 DEF ViewInv, Whole
<1>5. \A a \in Addrs : a # AddrOf[e] => mem'[a] = mem[a]
  BY <1>1 DEF TypeOK
<1>6. CASE Toggling(t)
  BY <1>2, <1>3, <1>4, <1>5, <1>6, PartialMaps
<1>7. CASE ~Toggling(t)
  <2>1. ~Toggling(t)'
    BY <1>2, <1>7 DEF Toggling, Alive
  <2>2. \A n \in Solo : AllOn(n)' <=> AllOn(n)
    <3>1. CASE ~Alive(t)
      BY <1>1, <3>1 DEF AllOn
    <3>2. CASE Alive(t)
      <4>1. m \notin Solo
        BY <1>2, <1>7, <3>2 DEF Toggling
      <4> QED BY <1>3, <1>5, <4>1, OthersKeep
    <3> QED BY <3>1, <3>2
  <2> QED BY <1>2, <1>7, <2>1, <2>2, UnseenMaps
<1> QED BY <1>6, <1>7

\* A pass that is complete shows its cheat already: the records change nothing.
LEMMA RecordsMap ==
  ASSUME TypeOK, LockInv, LockInv', NEW t \in Threads, Commit(t) \/ Record(t)
  PROVE  UNCHANGED <<gamePid, ActiveCheats, ActiveToggle>>
<1>1. /\ \/ pc[t] = "write" /\ Whole(t) /\ pc' = [pc EXCEPT ![t] = "record"]
         \/ pc[t] = "record" /\ pc' = [pc EXCEPT ![t] = "finish"]
      /\ UNCHANGED <<gamePid, mem, req, old, done>>
  BY DEF Commit, Record, Go, game, calls, pass, Whole
<1>2. pc'[t] \in {"record", "finish"} /\ \A u \in Threads : u # t => pc'[u] = pc[u]
  BY <1>1 DEF TypeOK
<1>3. Toggling(t)' <=> Toggling(t)
  BY <1>1, <1>2 DEF Toggling, Alive
<1>4. \A n \in Solo : AllOn(n)' <=> AllOn(n)
  BY <1>1 DEF AllOn
<1>5. CASE ~Toggling(t)
  BY <1>1, <1>2, <1>3, <1>4, <1>5, UnseenMaps
<1>6. CASE Toggling(t)
  <2>1. /\ ActiveToggle = Pending(t) /\ ActiveToggle' = Pending(t)'
        /\ \A n \in Solo : ~InPass(n) /\ ~InPass(n)'
    BY <1>1, <1>2, <1>3, <1>6, HolderView, HolderViewNext
  <2>2. Pending(t)' = Pending(t)
    <3>1. (pc'[t] \notin Writing \/ Whole(t)') = (pc[t] \notin Writing \/ Whole(t))
      BY <1>1, <1>2
    <3> QED BY <1>1, <3>1 DEF Pending
  <2> QED BY <1>1, <1>4, <2>1, <2>2, ShownKept DEF Shown
<1> QED BY <1>5, <1>6

\* The end of a rollback puts the last byte back, so what was shown is there again.
LEMMA ReleaseMaps ==
  ASSUME TypeOK, LockInv, LockInv', IInv, NEW t \in Threads, Release(t)
  PROVE  UNCHANGED <<gamePid, ActiveCheats, ActiveToggle>> \/ Toggle!Close
<1> DEFINE m == req[t].mod
<1>1. /\ \/ pc[t] \in {"finish", "fail"}
         \/ pc[t] = "rollback" /\ done = {}
      /\ UNCHANGED <<gamePid, mem>>
      /\ pc'[t] \in Unlocked /\ \A u \in Threads : u # t => pc'[u] = pc[u]
  BY ReturnMoves DEF Release, game
<1>2. \A u \in Threads : ~Toggling(u)'
  BY <1>1, OnlyMarked DEF Toggling
<1>3. \A n \in Solo : Shown(n) <=> AllOn(n)
  <2> SUFFICES ASSUME NEW n \in Solo, InPass(n) PROVE WasOn(n) <=> AllOn(n)
    BY DEF Shown
  <2>1. n = m /\ Toggling(t) /\ pc[t] \in Writing
    BY <1>1, HolderView
  <2>2. PassInv(t) /\ done = {}
    BY <1>1, <2>1 DEF IInv, MemoryInv, InPassOn, Toggling
  <2> QED BY <2>1, <2>2 DEF PassInv, WasOn, AllOn
<1>4. \A n \in Solo : Shown(n)' <=> Shown(n)
  <2>1. \A n \in Solo : AllOn(n)' <=> AllOn(n)
    BY <1>1 DEF AllOn
  <2> QED BY <1>2, <1>3, <2>1, NoViewNext
<1> QED BY <1>1, <1>2, <1>4, NoViewNext, ShownKept DEF Toggle!Close

----------------------------------------------------------------------------

LEMMA InitMaps == Init => Toggle!Init
<1> SUFFICES ASSUME Init PROVE Toggle!Init
  OBVIOUS
<1>1. gamePid = 0 /\ \A t \in Threads : ~Toggling(t)
  BY DEF Init, Toggling, Alive
<1>2. \A m \in Solo : ~AllOn(m)
  <2> SUFFICES ASSUME NEW m \in Solo PROVE ~AllOn(m)
    OBVIOUS
  <2>1. AllOff(m)
    BY SoloFacts, UntouchedOff DEF Init, Untouched
  <2> QED BY <2>1, OnNotOff
<1>3. ActiveCheats = {}
  BY <1>1, <1>2, ActiveShown, NoView
<1> QED BY <1>1, <1>3, NoView DEF Toggle!Init

LEMMA NextMaps ==
  ASSUME NoTear, TypeOK, LockInv, LockInv', IInv, IInv', ViewInv, [Next]_vars
  PROVE  Toggle!Next \/ UNCHANGED <<gamePid, ActiveCheats, ActiveToggle>>
<1> USE DEF game, tables, calls, pass
<1>1. CASE UNCHANGED vars \/ CooldownElapses \/ MonitorPolls
  BY <1>1, QuietView DEF vars, CooldownElapses, MonitorPolls
<1>2. CASE StartGame
  BY <1>2, StartMaps DEF Toggle!Next
<1>3. CASE EndGame
  BY <1>3, EndMaps DEF Toggle!Next
<1>4. ASSUME NEW t \in Threads,
             \/ \E m \in Mods, on \in BOOLEAN : Request(t, m, on)
             \/ DisableAll(t) \/ DisableAllRound(t) \/ DisableAllDone(t)
      PROVE  UNCHANGED <<gamePid, ActiveCheats, ActiveToggle>>
  <2>1. /\ \A u \in Threads : u # t => pc'[u] = pc[u] /\ req'[u] = req[u]
        /\ pc[t] = "idle" /\ pc'[t] \in {"idle", "enter"}
        /\ UNCHANGED <<gamePid, mem, old, done>>
    BY <1>4 DEF Request, DisableAll, DisableAllRound, DisableAllDone, Go, TypeOK
  <2>2. pc[t] \in Outside /\ pc'[t] \in Outside
    BY <2>1 DEF Outside
  <2>3. \A u \in Threads : \/ pc'[u] = pc[u] /\ req'[u] = req[u]
                           \/ pc[u] \in Outside /\ pc'[u] \in Outside
    BY <2>1, <2>2
  <2> QED BY <2>1, <2>3, QuietView
<1>5. ASSUME NEW t \in Threads, Step(t)
      PROVE  Toggle!Next \/ UNCHANGED <<gamePid, ActiveCheats, ActiveToggle>>
  <2>1. CASE \/ Enter(t) \/ Reject(t) \/ CheckCooldown(t) \/ SwitchOffConflict(t)
             \/ SwitchOnMaster(t) \/ TakeLock(t) \/ Recheck(t) \/ Probe(t) \/ ProbeFails(t)
             \/ PreReadFails(t)
    <3>1. /\ pc[t] \in Outside /\ pc'[t] \in Outside
          /\ \A u \in Threads : u # t => pc'[u] = pc[u] /\ req'[u] = req[u]
          /\ UNCHANGED <<gamePid, mem, old, done>>
      BY <2>1, OutsideMoves
    <3>2. \A u \in Threads : \/ pc'[u] = pc[u] /\ req'[u] = req[u]
                             \/ pc[u] \in Outside /\ pc'[u] \in Outside
      BY <3>1
    <3> QED BY <3>1, <3>2, QuietView
  <2>2. CASE PreRead(t)
    BY <2>2, PreReadMaps DEF Toggle!Next
  <2>3. CASE WriteEntry(t)
    BY <2>3, WriteMaps DEF Toggle!Next
  <2>4. CASE WriteFails(t)
    BY <2>4, WriteFailsMaps
  <2>5. CASE Rollback(t)
    BY <2>5, RollbackMaps
  <2>6. CASE Commit(t) \/ Record(t)
    BY <2>6, RecordsMap
  <2>7. CASE Release(t)
    BY <2>7, ReleaseMaps DEF Toggle!Next
  <2> QED BY <1>5, <2>1, <2>2, <2>3, <2>4, <2>5, <2>6, <2>7 DEF Step
<1> QED BY <1>1, <1>2, <1>3, <1>4, <1>5 DEF Next

\* Refinement: for any cheat file, any number of threads and any configuration in
\* which no write stops half way, the engine implements CheatToggle: a cheat is in the
\* game whole or not at all, whatever fails, interleaves or ends.
THEOREM ImplementsToggleCorrect == ASSUME NoTear PROVE Spec => ImplementsToggle
<1>1. Init => Toggle!Init
  BY InitMaps
<1>2. /\ TypeOK /\ LockInv /\ IInv /\ ViewInv /\ LockInv' /\ IInv' /\ [Next]_vars
      => [Toggle!Next]_<<gamePid # 0, ActiveCheats, ActiveToggle>>
  <2> SUFFICES ASSUME TypeOK, LockInv, LockInv', IInv, IInv', ViewInv, [Next]_vars
               PROVE  Toggle!Next \/ UNCHANGED <<gamePid # 0, ActiveCheats, ActiveToggle>>
    OBVIOUS
  <2>1. Toggle!Next \/ UNCHANGED <<gamePid, ActiveCheats, ActiveToggle>>
    BY NextMaps
  <2> QED BY <2>1
<1> QED BY <1>1, <1>2, TypeCorrect, LockCorrect, MemoryCorrect, ViewCorrect, PTL
        DEF Spec, ImplementsToggle, Toggle!Spec
=============================================================================
