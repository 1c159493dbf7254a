-------------------------- MODULE CheatApplyProofs --------------------------
(***************************************************************************)
(* Theorems about CheatApply for any number of threads, any cheat file,    *)
(* any layout and any configuration.                                       *)
(***************************************************************************)
EXTENDS CheatApply, TLAPS

USE DEF Unlocked, Writing, Applying, Locked, Locations

----------------------------------------------------------------------------
(* Type correctness.                                                       *)

LEMMA NewCallType ==
  ASSUME NEW m \in Mods, NEW on \in BOOLEAN
  PROVE  NewCall(m, on) \in Call
BY ConfigAssumption DEF NewCall, Call, Pids

LEMMA IdleType == Idle \in Call
<1>1. (CHOOSE m \in Mods : TRUE) \in Mods
  BY LayoutAssumption
<1> QED BY <1>1, NewCallType DEF Idle

LEMMA MasterForType ==
  ASSUME NEW m \in Mods, MasterFor[m] # NoMod
  PROVE  MasterFor[m] \in Mods
<1> DEFINE before == {k \in Masters : k < m}
           nearest == {k \in before : \A j \in before : j <= k}
<1>1. MasterFor[m] = IF nearest = {} THEN NoMod ELSE CHOOSE k \in nearest : TRUE
  BY DEF MasterFor
<1>2. nearest # {} BY <1>1
<1>3. MasterFor[m] \in nearest BY <1>1, <1>2
<1> QED BY <1>3, LayoutAssumption DEF Masters

\* A call that returns leaves a well-typed caller, or an idle thread.
LEMMA ReturnType ==
  ASSUME TypeOK, NEW t \in Threads, NEW ok, Return(t, ok)
  PROVE  /\ pc' \in [Threads -> Locations]
         /\ req' \in [Threads -> Call]
         /\ stack' \in [Threads -> Seq(Call)]
         /\ sweep' = sweep
<1>1. CASE stack[t] = <<>>
  <2>1. /\ pc' = [pc EXCEPT ![t] = "idle"]
        /\ req' = [req EXCEPT ![t] = Idle]
        /\ stack' = stack /\ sweep' = sweep
    BY <1>1 DEF Return, Go
  <2> QED BY <2>1, IdleType DEF TypeOK
<1>2. CASE stack[t] # <<>>
  <2> DEFINE caller == [Head(stack[t]) EXCEPT !.undone =
                          IF ok /\ ~req[t].on THEN @ \cup {req[t].mod} ELSE @]
  <2>1. /\ pc' = [pc EXCEPT ![t] = IF req[t].on THEN "lock" ELSE "conflicts"]
        /\ req' = [req EXCEPT ![t] = caller]
        /\ stack' = [stack EXCEPT ![t] = Tail(stack[t])] /\ sweep' = sweep
    BY <1>2 DEF Return, Go
  <2>2. stack[t] \in Seq(Call) /\ req[t] \in Call
    BY DEF TypeOK
  <2>3. Head(stack[t]) \in Call /\ Tail(stack[t]) \in Seq(Call)
    BY <1>2, <2>2
  <2>4. caller \in Call
    BY <2>2, <2>3 DEF Call
  <2> HIDE DEF caller
  <2> QED BY <2>1, <2>3, <2>4 DEF TypeOK
<1> QED BY <1>1, <1>2

\* A call made by the safeguards is well-typed and so is the one it suspends.
LEMMA CallEngineType ==
  ASSUME TypeOK, NEW t \in Threads, NEW caller \in Call, NEW m \in Mods,
         NEW on \in BOOLEAN, CallEngine(t, caller, m, on)
  PROVE  /\ pc' \in [Threads -> Locations]
         /\ req' \in [Threads -> Call]
         /\ stack' \in [Threads -> Seq(Call)]
         /\ sweep' = sweep
<1>1. NewCall(m, on) \in Call BY NewCallType
<1>2. <<caller>> \o stack[t] \in Seq(Call) BY DEF TypeOK
<1> QED BY <1>1, <1>2 DEF CallEngine, Go, TypeOK

THEOREM TypeInit == Init => TypeOK
<1> SUFFICES ASSUME Init PROVE TypeOK OBVIOUS
<1>1. 0 \in Pids BY ConfigAssumption DEF Pids
<1>2. gamePid \in Pids /\ started \in Pids /\ gamePid <= started
  BY <1>1 DEF Init
<1>3. mem \in [Addrs -> Values] /\ fault \in Layouts
  BY DEF Init, Values
<1>4. lock \in Threads \cup {NoThread} /\ applying \in BOOLEAN /\ cooling \in BOOLEAN
  BY DEF Init
<1>5. enabled \in [Mods -> Pids] /\ disabled \in [Mods -> Pids] /\ cached \in Pids
  BY <1>1 DEF Init
<1>6. pc \in [Threads -> Locations] /\ req \in [Threads -> Call]
  BY IdleType DEF Init
<1>7. stack \in [Threads -> Seq(Call)]
  BY DEF Init
<1>9. sweep \in [Threads -> [pid : Pids, from : Nat]]
  BY <1>1 DEF Init, NoSweep
<1>8. old \in [Entries -> Values] /\ done \in SUBSET Entries
  BY DEF Init, Values
<1> QED BY <1>2, <1>3, <1>4, <1>5, <1>6, <1>7, <1>8, <1>9 DEF TypeOK

\* Forgetting the records of a process, and only those, keeps the tables typed.
LEMMA RefreshType ==
  ASSUME TypeOK, Refresh
  PROVE  enabled' \in [Mods -> Pids] /\ disabled' \in [Mods -> Pids] /\ cached' \in Pids
<1>1. 0 \in Pids BY ConfigAssumption DEF Pids
<1> QED BY <1>1 DEF TypeOK, Refresh

THEOREM TypeStep == TypeOK /\ [Next]_vars => TypeOK'
<1> SUFFICES ASSUME TypeOK, [Next]_vars PROVE TypeOK'
  OBVIOUS
<1> USE DEF game, tables, calls, pass
<1>0. 0 \in Pids BY ConfigAssumption DEF Pids
<1>1. CASE UNCHANGED vars
  BY <1>1 DEF TypeOK, vars
<1>2. CASE StartGame
  BY <1>2, ConfigAssumption DEF StartGame, TypeOK, Pids
<1>3. CASE EndGame
  BY <1>3, <1>0 DEF EndGame, TypeOK, Pids, Values
<1>4. CASE CooldownElapses
  BY <1>4 DEF CooldownElapses, TypeOK
<1>5. CASE MonitorPolls
  BY <1>5, RefreshType DEF MonitorPolls, TypeOK
<1>6. ASSUME NEW t \in Threads, NEW m \in Mods, NEW on \in BOOLEAN, Request(t, m, on)
      PROVE  TypeOK'
  BY <1>6, NewCallType DEF Request, Go, TypeOK
<1>7. ASSUME NEW t \in Threads, DisableAll(t) \/ DisableAllRound(t) \/ DisableAllDone(t)
      PROVE  TypeOK'
  <2>1. CASE DisableAll(t)
    BY <2>1 DEF DisableAll, TypeOK
  <2>2. CASE DisableAllRound(t)
    <3>1. PICK m \in Unswept(t) :
             /\ sweep' = [sweep EXCEPT ![t].from = m + 1]
             /\ \/ /\ cooling' = FALSE
                   /\ req' = [req EXCEPT ![t] = NewCall(m, FALSE)]
                   /\ Go(t, "enter")
                \/ UNCHANGED <<cooling, req, pc>>
      BY <2>2 DEF DisableAllRound
    <3>2. m \in Mods /\ m + 1 \in Nat BY LayoutAssumption DEF Unswept
    <3>3. sweep' \in [Threads -> [pid : Pids, from : Nat]]
      BY <3>1, <3>2 DEF TypeOK
    <3>4. req' \in [Threads -> Call] /\ cooling' \in BOOLEAN
      BY <3>1, <3>2, NewCallType DEF TypeOK
    <3>5. pc' \in [Threads -> Locations]
      BY <3>1 DEF Go, TypeOK
    <3> QED BY <2>2, <3>3, <3>4, <3>5 DEF DisableAllRound, TypeOK
  <2>3. CASE DisableAllDone(t)
    BY <2>3, <1>0 DEF DisableAllDone, NoSweep, TypeOK
  <2> QED BY <1>7, <2>1, <2>2, <2>3
<1>8. ASSUME NEW t \in Threads, Step(t)
      PROVE  TypeOK'
  <2> req[t] \in Call BY DEF TypeOK
  <2>1. CASE Enter(t)
    BY <2>1 DEF Enter, Go, TypeOK, Call
  <2>2. CASE Reject(t)
    BY <2>2, ReturnType DEF Reject, TypeOK
  <2>3. CASE CheckCooldown(t)
    <3>1. CASE cooling
      BY <2>3, <3>1, ReturnType DEF CheckCooldown, TypeOK
    <3>2. CASE ~cooling
      <4>1. ConflictsOf[req[t].mod] \subseteq Mods
        BY DEF ConflictsOf, Call
      <4>2. CASE req[t].on /\ Safeguards
        <5>1. /\ req' = [req EXCEPT ![t].todo = ConflictsOf[req[t].mod]]
              /\ pc' = [pc EXCEPT ![t] = "conflicts"]
              /\ stack' = stack /\ sweep' = sweep
          BY <2>3, <3>2, <4>2 DEF CheckCooldown, Go
        <5>2. req' \in [Threads -> Call]
          BY <4>1, <5>1 DEF TypeOK, Call
        <5>3. "conflicts" \in Locations BY DEF Locations, Unlocked
        <5>4. pc' \in [Threads -> Locations] BY <5>1, <5>3 DEF TypeOK
        <5>5. UNCHANGED <<game, lock, applying, cooling, tables, pass>>
          BY <2>3 DEF CheckCooldown
        <5> QED BY <5>1, <5>2, <5>4, <5>5 DEF TypeOK, game, tables, pass
      <4>3. CASE ~(req[t].on /\ Safeguards)
        BY <2>3, <3>2, <4>3 DEF CheckCooldown, Go, TypeOK
      <4> QED BY <4>2, <4>3
    <3> QED BY <3>1, <3>2
  <2>4. CASE SwitchOffConflict(t)
    <3> DEFINE Rest(c) == [req[t] EXCEPT !.todo = @ \ {c}]
    <3>1. PICK c \in req[t].todo :
            \/ CallEngine(t, Rest(c), c, FALSE)
            \/ req' = [req EXCEPT ![t] = Rest(c)] /\ UNCHANGED <<pc, stack, sweep>>
      BY <2>4, Zenon DEF SwitchOffConflict
    <3> DEFINE rest == Rest(c)
    <3>2. rest \in Call /\ c \in Mods BY DEF Call
    <3> HIDE DEF rest
    <3>3. /\ pc' \in [Threads -> Locations]
          /\ req' \in [Threads -> Call]
          /\ stack' \in [Threads -> Seq(Call)]
         /\ sweep' = sweep
      <4>1. CASE CallEngine(t, rest, c, FALSE)
        BY <3>2, <4>1, CallEngineType
      <4>2. CASE req' = [req EXCEPT ![t] = rest] /\ UNCHANGED <<pc, stack, sweep>>
        BY <3>2, <4>2 DEF TypeOK
      <4> QED BY <3>1, <4>1, <4>2 DEF rest
    <3> QED BY <2>4, <3>3 DEF SwitchOffConflict, TypeOK
  <2>5. CASE SwitchOnMaster(t)
    <3> DEFINE mc == MasterFor[req[t].mod]
    <3>1. CASE mc # NoMod /\ CallEngine(t, req[t], mc, TRUE) /\ cooling' = FALSE
      <4>1. req[t].mod \in Mods BY DEF Call
      <4>2. mc \in Mods BY <3>1, <4>1, MasterForType
      <4> HIDE DEF mc
      <4>3. /\ pc' \in [Threads -> Locations]
            /\ req' \in [Threads -> Call]
            /\ stack' \in [Threads -> Seq(Call)]
         /\ sweep' = sweep
        BY <3>1, <4>2, CallEngineType
      <4> QED BY <2>5, <3>1, <4>3 DEF SwitchOnMaster, TypeOK
    <3>2. CASE Go(t, "lock") /\ UNCHANGED <<cooling, calls>>
      BY <2>5, <3>2 DEF SwitchOnMaster, Go, TypeOK
    <3> QED BY <2>5, <3>1, <3>2 DEF SwitchOnMaster
  <2>6. CASE TakeLock(t)
    <3>1. CASE Go(t, "recheck") /\ lock' = t /\ UNCHANGED calls
      BY <2>6, <3>1 DEF TakeLock, Go, TypeOK
    <3>2. CASE Return(t, FALSE) /\ UNCHANGED lock
      BY <2>6, <3>2, ReturnType DEF TakeLock, TypeOK
    <3> QED BY <2>6, <3>1, <3>2 DEF TakeLock
  <2>7. CASE Recheck(t)
    <3>1. CASE Unlock /\ Return(t, FALSE) /\ UNCHANGED applying
      BY <2>7, <3>1, ReturnType DEF Recheck, Unlock, TypeOK
    <3>2. CASE applying' = TRUE /\ Go(t, "probe") /\ UNCHANGED <<lock, calls>>
      BY <2>7, <3>2 DEF Recheck, Go, TypeOK
    <3> QED BY <2>7, <3>1, <3>2 DEF Recheck
  <2>8. CASE Probe(t)
    BY <2>8 DEF Probe, Go, TypeOK
  <2>9. CASE ProbeFails(t)
    <3>1. enabled' \in [Mods -> Pids] /\ disabled' \in [Mods -> Pids] /\ cached' \in Pids
      BY <2>9, RefreshType DEF ProbeFails, TypeOK
    <3> QED BY <2>9, <3>1, ReturnType DEF ProbeFails, Unlock, TypeOK
  <2>10. CASE PreRead(t)
    <3>1. \A e \in Entries : AddrOf[e] \in Addrs BY DEF Addrs
    <3> QED BY <2>10, <3>1 DEF PreRead, Go, TypeOK
  <2>11. CASE PreReadFails(t)
    <3>1. enabled' \in [Mods -> Pids] /\ disabled' \in [Mods -> Pids] /\ cached' \in Pids
      BY <2>11, RefreshType DEF PreReadFails, TypeOK
    <3> QED BY <2>11, <3>1 DEF PreReadFails, Go, TypeOK
  <2>12. CASE WriteEntry(t)
    <3>1. NewBytes(t) \in Values BY DEF NewBytes, Values, Call
    <3> QED BY <2>12, <3>1 DEF WriteEntry, TypeOK
  <2>13. CASE WriteFails(t)
    <3>1. mem' \in [Addrs -> Values]
      BY <2>13 DEF WriteFails, TypeOK, Values
    <3> QED BY <2>13, <3>1 DEF WriteFails, Go, TypeOK
  <2>14. CASE Rollback(t)
    <3>1. mem' \in [Addrs -> Values]
      BY <2>14 DEF Rollback, TypeOK
    <3> QED BY <2>14, <3>1 DEF Rollback, TypeOK
  <2>15. CASE Commit(t)
    BY <2>15, <1>0 DEF Commit, Go, TypeOK, Call
  <2>16. CASE Record(t)
    BY <2>16, <1>0 DEF Record, Go, TypeOK, Call
  <2>17. CASE Release(t)
    <3>1. Cooldown \in BOOLEAN /\ Original \in Values
      BY ConfigAssumption DEF Values
    <3>2. Return(t, pc[t] = "finish")
      BY <2>17 DEF Release
    <3> QED BY <2>17, <3>1, <3>2, ReturnType DEF Release, Unlock, TypeOK
  <2> QED BY <1>8, <2>1, <2>2, <2>3, <2>4, <2>5, <2>6, <2>7, <2>8, <2>9, <2>10,
             <2>11, <2>12, <2>13, <2>14, <2>15, <2>16, <2>17 DEF Step
<1> QED BY <1>1, <1>2, <1>3, <1>4, <1>5, <1>6, <1>7, <1>8 DEF Next

\* Every reachable state is well typed, for any cheat file, threads and layout.
THEOREM TypeCorrect == Spec => []TypeOK
BY TypeInit, TypeStep, PTL DEF Spec

----------------------------------------------------------------------------
(* The apply lock.                                                         *)

\* A call that returns leaves its thread outside the lock.
LEMMA ReturnUnlocked ==
  ASSUME TypeOK, NEW t \in Threads, NEW ok, Return(t, ok)
  PROVE  \E loc \in Unlocked : pc' = [pc EXCEPT ![t] = loc]
<1>1. CASE stack[t] = <<>>
  BY <1>1 DEF Return, Go
<1>2. CASE stack[t] # <<>>
  <2>1. pc' = [pc EXCEPT ![t] = IF req[t].on THEN "lock" ELSE "conflicts"]
    BY <1>2 DEF Return, Go
  <2> QED BY <2>1
<1> QED BY <1>1, <1>2

\* The ways a thread moves across the lock.
LEMMA MoveUnlocked ==
  ASSUME TypeOK, LockInv, NEW t \in Threads, NEW loc \in Unlocked,
         pc[t] \in Unlocked, pc' = [pc EXCEPT ![t] = loc], UNCHANGED <<lock, applying>>
  PROVE  LockInv'
BY DEF TypeOK, LockInv

LEMMA MoveInside ==
  ASSUME TypeOK, LockInv, NEW t \in Threads, NEW loc \in Applying,
         pc[t] \in Applying, pc' = [pc EXCEPT ![t] = loc], UNCHANGED <<lock, applying>>
  PROVE  LockInv'
BY DEF TypeOK, LockInv

LEMMA MoveOut ==
  ASSUME TypeOK, LockInv, NEW t \in Threads, NEW loc \in Unlocked,
         pc[t] \in Locked, pc' = [pc EXCEPT ![t] = loc], lock' = NoThread,
         applying' = FALSE
  PROVE  LockInv'
<1>1. \A u \in Threads : u # t => pc[u] \notin Locked
  BY DEF LockInv
<1>2. \A u \in Threads : pc'[u] \notin Locked
  BY <1>1 DEF TypeOK
<1> QED BY <1>2, ConfigAssumption DEF LockInv

\* Where no thread touches the game, g_cheat_applying is down already.
LEMMA NotApplying ==
  ASSUME TypeOK, LockInv, NEW t \in Threads, pc[t] = "recheck"
  PROVE  applying = FALSE
<1>1. \A u \in Threads : u # t => pc[u] \notin Locked
  BY DEF LockInv
<1> QED BY <1>1 DEF LockInv, TypeOK

THEOREM LockInit == Init => LockInv
BY ConfigAssumption DEF Init, LockInv

THEOREM LockStep == TypeOK /\ LockInv /\ [Next]_vars => LockInv'
<1> SUFFICES ASSUME TypeOK, LockInv, [Next]_vars PROVE LockInv'
  OBVIOUS
<1> USE DEF game, tables, calls, pass
<1>1. CASE UNCHANGED vars
  BY <1>1 DEF LockInv, vars
<1>2. CASE StartGame \/ EndGame \/ CooldownElapses \/ MonitorPolls
  BY <1>2 DEF StartGame, EndGame, CooldownElapses, MonitorPolls, LockInv
<1>3. ASSUME NEW t \in Threads, NEW m \in Mods, NEW on \in BOOLEAN, Request(t, m, on)
      PROVE  LockInv'
  BY <1>3, MoveUnlocked DEF Request, Go
<1>4. ASSUME NEW t \in Threads, DisableAll(t) \/ DisableAllRound(t) \/ DisableAllDone(t)
      PROVE  LockInv'
  <2>1. CASE DisableAll(t) \/ DisableAllDone(t)
    BY <2>1 DEF DisableAll, DisableAllDone, LockInv
  <2>2. CASE DisableAllRound(t)
    <3>1. CASE pc' = [pc EXCEPT ![t] = "enter"]
      BY <2>2, <3>1, MoveUnlocked DEF DisableAllRound
    <3>2. CASE UNCHANGED pc
      BY <2>2, <3>2 DEF DisableAllRound, LockInv
    <3> QED BY <2>2, <3>1, <3>2 DEF DisableAllRound, Go
  <2> QED BY <1>4, <2>1, <2>2
<1>5. ASSUME NEW t \in Threads, Step(t)
      PROVE  LockInv'
  <2>1. CASE Enter(t)
    BY <2>1, MoveUnlocked DEF Enter, Go
  <2>2. CASE Reject(t)
    BY <2>2, ReturnUnlocked, MoveUnlocked DEF Reject
  <2>3. CASE CheckCooldown(t)
    <3>1. \E loc \in Unlocked : pc' = [pc EXCEPT ![t] = loc]
      BY <2>3, ReturnUnlocked DEF CheckCooldown, Go
    <3> QED BY <2>3, <3>1, MoveUnlocked DEF CheckCooldown
  <2>4. CASE SwitchOffConflict(t)
    <3>1. pc' = pc \/ pc' = [pc EXCEPT ![t] = "enter"]
      BY <2>4 DEF SwitchOffConflict, CallEngine, Go
    <3>2. pc' = [pc EXCEPT ![t] = "conflicts"] \/ pc' = [pc EXCEPT ![t] = "enter"]
      BY <2>4, <3>1 DEF SwitchOffConflict, TypeOK
    <3> QED BY <2>4, <3>2, MoveUnlocked DEF SwitchOffConflict
  <2>5. CASE SwitchOnMaster(t)
    BY <2>5, MoveUnlocked DEF SwitchOnMaster, CallEngine, Go
  <2>6. CASE TakeLock(t)
    <3>1. CASE Return(t, FALSE) /\ UNCHANGED lock
      BY <2>6, <3>1, ReturnUnlocked, MoveUnlocked DEF TakeLock
    <3>2. CASE lock = NoThread /\ lock' = t /\ Go(t, "recheck")
      <4>1. \A u \in Threads : pc[u] \notin Locked
        BY <3>2, ConfigAssumption DEF LockInv
      <4>2. pc' = [pc EXCEPT ![t] = "recheck"] BY <3>2 DEF Go
      <4>3. \A u \in Threads : pc'[u] \in Locked <=> u = t
        BY <4>1, <4>2 DEF TypeOK
      <4>4. \A u \in Threads : pc'[u] \notin Applying
        BY <4>1, <4>2 DEF TypeOK
      <4> QED BY <2>6, <3>2, <4>1, <4>3, <4>4 DEF TakeLock, LockInv
    <3> QED BY <2>6, <3>1, <3>2 DEF TakeLock
  <2>7. CASE Recheck(t)
    <3>1. applying = FALSE
      BY <2>7, NotApplying DEF Recheck
    <3>2. CASE Unlock /\ Return(t, FALSE) /\ UNCHANGED applying
      BY <2>7, <3>1, <3>2, ReturnUnlocked, MoveOut DEF Recheck, Unlock
    <3>3. CASE applying' = TRUE /\ Go(t, "probe") /\ UNCHANGED <<lock, calls>>
      <4>1. pc' = [pc EXCEPT ![t] = "probe"] /\ pc[t] = "recheck"
        BY <2>7, <3>3 DEF Recheck, Go
      <4>2. \A u \in Threads : pc'[u] \in Locked <=> pc[u] \in Locked
        BY <4>1 DEF TypeOK
      <4>3. pc'[t] \in Applying
        BY <4>1 DEF TypeOK
      <4> QED BY <3>3, <4>2, <4>3 DEF LockInv
    <3> QED BY <2>7, <3>2, <3>3 DEF Recheck
  <2>8. CASE Probe(t)
    BY <2>8, MoveInside DEF Probe, Go
  <2>9. CASE ProbeFails(t)
    BY <2>9, ReturnUnlocked, MoveOut DEF ProbeFails, Unlock
  <2>10. CASE PreRead(t)
    BY <2>10, MoveInside DEF PreRead, Go
  <2>11. CASE PreReadFails(t)
    BY <2>11, MoveInside DEF PreReadFails, Go
  <2>12. CASE WriteEntry(t) \/ Rollback(t)
    BY <2>12 DEF WriteEntry, Rollback, LockInv
  <2>13. CASE WriteFails(t)
    BY <2>13, MoveInside DEF WriteFails, Go
  <2>14. CASE Commit(t)
    BY <2>14, MoveInside DEF Commit, Go
  <2>15. CASE Record(t)
    BY <2>15, MoveInside DEF Record, Go
  <2>16. CASE Release(t)
    BY <2>16, ReturnUnlocked, MoveOut DEF Release, Unlock
  <2> QED BY <1>5, <2>1, <2>2, <2>3, <2>4, <2>5, <2>6, <2>7, <2>8, <2>9, <2>10,
             <2>11, <2>12, <2>13, <2>14, <2>15, <2>16 DEF Step
<1> QED BY <1>1, <1>2, <1>3, <1>4, <1>5 DEF Next

\* The apply lock has one holder, and g_cheat_applying is up exactly while that
\* thread may touch the game, whatever early return, nested call or failure
\* apply_cheat_json_impl() takes.
THEOREM LockCorrect == Spec => []LockInv
BY TypeInit, TypeStep, LockInit, LockStep, PTL DEF Spec
=============================================================================
