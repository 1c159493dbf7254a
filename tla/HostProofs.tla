----------------------------- MODULE HostProofs -----------------------------
(***************************************************************************)
(* The components that MCHost composes: the injection, the HTTP server and *)
(* the hotkey hook, each for any value of its constants, and at the end,   *)
(* with what PatchEngineProofs shows of the patch engine, all of them      *)
(* together.                                                               *)
(***************************************************************************)
EXTENDS MCHost, PatchEngineProofs, FiniteSetTheorems

----------------------------------------------------------------------------
(* Injection: what is left behind.                                         *)

\* A window is held by the thread that opened it.
WindowHeld == inj.window => caller["injector"].in

\* The registers are saved before they are changed, and what fails without
\* a copy of them is no success.
CopyKept ==
  /\ inj.at \in {"hijack", "run", "wait"} => inj.backup
  /\ inj.at = "join" /\ ~inj.backup => ~inj.ok

\* The copy is back before the process is let go.
CopyBack == inj.at = "detach" /\ inj.ok /\ process.traced => process.regs = "own"

InjectionIInv ==
  /\ InjectionTypeOK /\ CredentialsKept /\ RegistersBack
  /\ WindowHeld /\ CopyKept /\ CopyBack

LEMMA InjectionStart == InjectionInit => InjectionIInv
BY InjectionAssumption DEF InjectionInit, InjectionIInv, InjectionTypeOK, CredentialsKept,
     RegistersBack, WindowHeld, CopyKept, CopyBack, NoInjection, Outside, Callers, Places

\* The types of the credentials, and that they are kept.
Credentials ==
  /\ ucred \in [lock : Callers \cup {NoOne}, level : {"own", "raised"}]
  /\ caller \in [Callers -> [in : BOOLEAN, saved : {"own", "raised"}]]
  /\ CredentialsKept

\* Whoever takes the lock saves the daemon's own credentials.
LEMMA RaiseKept ==
  ASSUME Credentials, NEW t \in {"injector", "watchdog"}, Raise(t)
  PROVE  Credentials' /\ ~caller["injector"].in /\ (t = "injector" => caller'["injector"].in)
<1> USE InjectionAssumption DEF Credentials, CredentialsKept
<1>1. t \in Callers /\ ucred.lock = NoOne /\ ucred.level = "own" /\ NoOne \notin Callers
  BY DEF Raise, Callers
<1>2. \A c \in Callers : ~caller[c].in
  BY <1>1
<1>3. /\ caller' = [caller EXCEPT ![t] = [in |-> TRUE, saved |-> "own"]]
      /\ ucred' = [lock |-> t, level |-> "raised"]
  BY <1>1 DEF Raise
<1>4. caller' \in [Callers -> [in : BOOLEAN, saved : {"own", "raised"}]]
  BY <1>3
<1>5. \A c \in Callers : caller'[c].saved = "own" /\ (caller'[c].in => c = t)
  BY <1>1, <1>2, <1>3
<1>6. caller'[t].in
  BY <1>1, <1>3
<1> QED BY <1>1, <1>2, <1>3, <1>4, <1>5, <1>6 DEF Callers

\* What was saved is given back by the one thread that is inside.
LEMMA RestoreKept ==
  ASSUME Credentials, NEW t \in Callers, caller[t].in, Restore(t)
  PROVE  Credentials' /\ (caller["injector"].in => t = "injector")
<1> USE InjectionAssumption DEF Credentials, CredentialsKept
<1>1. \A c \in Callers : caller[c].in => c = t
  OBVIOUS
<1>2. caller' = [caller EXCEPT ![t] = Outside] /\ ucred' = [lock |-> NoOne, level |-> "own"]
  BY DEF Restore
<1>3. caller' \in [Callers -> [in : BOOLEAN, saved : {"own", "raised"}]]
  BY <1>2 DEF Outside
<1>4. \A c \in Callers : caller'[c].saved = "own" /\ ~caller'[c].in
  BY <1>1, <1>2 DEF Outside
<1> QED BY <1>1, <1>2, <1>3, <1>4 DEF Callers

\* A call outside the window takes the lock.
LEMMA CallStartsKept ==
  ASSUME InjectionIInv, NEW t \in {"injector", "watchdog"}, CallStarts(t),
         UNCHANGED <<inj, dog, process>>
  PROVE  InjectionIInv'
<1>1. Credentials
  BY DEF Credentials, InjectionIInv, InjectionTypeOK
<1>2. Credentials' /\ ~caller["injector"].in
  BY <1>1, RaiseKept DEF CallStarts
<1> QED BY <1>2 DEF InjectionIInv, InjectionTypeOK, RegistersBack, WindowHeld, CopyKept, CopyBack,
             Credentials

\* The end of a call gives the credentials back, unless a window stays open.
LEMMA CallEndsKept ==
  ASSUME InjectionIInv, NEW t \in Callers, CallEnds(t), inj'.window = inj.window
  PROVE  Credentials' /\ WindowHeld'
<1>1. Credentials /\ WindowHeld
  BY DEF Credentials, InjectionIInv, InjectionTypeOK
<1>2. CASE t = "injector" /\ inj.window
  BY <1>1, <1>2 DEF CallEnds, Credentials, CredentialsKept, WindowHeld
<1>3. CASE ~(t = "injector" /\ inj.window)
  <2>1. Credentials' /\ (caller["injector"].in => t = "injector")
    BY <1>1, <1>3, RestoreKept DEF CallEnds
  <2> QED BY <1>1, <1>3, <2>1 DEF WindowHeld
<1> QED BY <1>2, <1>3

\* What the injecting thread does to the process, in a call of its own.
LEMMA InjectorStepsKept ==
  ASSUME InjectionIInv,
         \/ AttachRefused \/ Attach \/ Load \/ PrepareStub \/ SaveRegisters \/ Hijack
         \/ Continue \/ RestoreRegisters \/ Detach
  PROVE  InjectionIInv'
<1> USE DEF InjectionIInv, InjectionTypeOK
<1>1. CallEnds("injector") /\ inj'.window = inj.window
  BY DEF AttachRefused, Attach, Load, PrepareStub, SaveRegisters, Hijack, Continue,
       RestoreRegisters, Detach, GoTo, Abort
<1>2. Credentials' /\ WindowHeld'
  BY <1>1, CallEndsKept DEF Callers
<1> USE DEF Credentials, RegistersBack, CopyKept, CopyBack, GoTo, Abort, LetItGo
<1>3. CASE AttachRefused
  BY <1>2, <1>3 DEF AttachRefused, Places
<1>10. CASE Load
  BY <1>2, <1>10 DEF Load, Places
<1>11. CASE PrepareStub
  BY <1>2, <1>11 DEF PrepareStub, Places
<1>4. CASE Attach
  BY <1>2, <1>4 DEF Attach, Places
<1>5. CASE SaveRegisters
  BY <1>2, <1>5 DEF SaveRegisters, Places
<1>6. CASE Hijack
  BY <1>2, <1>6 DEF Hijack, Places
<1>7. CASE Continue
  BY <1>2, <1>7 DEF Continue, Places
<1>8. CASE RestoreRegisters
  BY <1>2, <1>8 DEF RestoreRegisters, Places
<1>9. CASE Detach
  BY <1>2, <1>9 DEF Detach, Places
<1> QED BY <1>3, <1>4, <1>5, <1>6, <1>7, <1>8, <1>9, <1>10, <1>11

\* Where it waits, and the watchdog's own steps.
LEMMA WaitsKept ==
  ASSUME InjectionIInv,
         \/ StartWatchdog \/ StubEnds \/ CallHangs \/ CallReturns \/ JoinWatchdog \/ Expire
  PROVE  InjectionIInv'
<1> USE DEF InjectionIInv, InjectionTypeOK, CredentialsKept, RegistersBack, WindowHeld, CopyKept,
         CopyBack, GoTo, Abort
<1>1. CASE StartWatchdog
  BY <1>1 DEF StartWatchdog, Places
<1>2. CASE StubEnds
  <2>1. PICK at \in Places, ok \in BOOLEAN, backup \in BOOLEAN :
          /\ inj' = [inj EXCEPT !.at = at, !.ok = ok, !.backup = backup]
          /\ at = "join" /\ (~backup => ~ok) /\ inj.at = "wait"
    <3>1. inj.at = "wait" /\ inj.backup /\ "join" \in Places
      BY <1>2 DEF StubEnds, Places
    <3>2. CASE GoTo("join")
      <4>1. inj' = [inj EXCEPT !.at = "join", !.ok = inj.ok, !.backup = inj.backup]
        BY <3>2
      <4> QED BY <3>1, <4>1
    <3>3. CASE Abort("join")
      <4>1. inj' = [inj EXCEPT !.at = "join", !.ok = FALSE, !.backup = inj.backup]
        BY <3>3
      <4> QED BY <3>1, <4>1
    <3>4. CASE inj' = [inj EXCEPT !.at = "join", !.ok = FALSE, !.backup = FALSE]
      BY <3>1, <3>4
    <3> QED BY <1>2, <3>2, <3>3, <3>4 DEF StubEnds
  <2>2. process' \in [traced : BOOLEAN, stopped : BOOLEAN, regs : {"own", "stub"}]
    BY <1>2 DEF StubEnds
  <2>3. UNCHANGED <<ucred, caller, dog>>
    BY <1>2 DEF StubEnds
  <2> QED BY <2>1, <2>2, <2>3
<1>3. CASE CallHangs \/ CallReturns
  <2>1. PICK at \in Places :
          /\ inj' = [inj EXCEPT !.at = at]
          /\ at \in {"load", "load_stuck", "stub", "stub_stuck"}
    BY <1>3 DEF CallHangs, CallReturns, Stuck, Places
  <2>2. UNCHANGED <<ucred, caller, dog, process>>
    BY <1>3 DEF CallHangs, CallReturns
  <2> QED BY <2>1, <2>2
<1>4. CASE JoinWatchdog
  BY <1>4 DEF JoinWatchdog, Places
<1>5. CASE Expire
  BY <1>5 DEF Expire
<1> QED BY <1>1, <1>2, <1>3, <1>4, <1>5

\* The watchdog lets the process go as it is: the registers stay what they are.
LEMMA WatchdogKept ==
  ASSUME InjectionIInv, WatchdogDetaches
  PROVE  InjectionIInv'
<1>1. CallEnds("watchdog") /\ inj'.window = inj.window /\ "watchdog" \in Callers
  BY DEF WatchdogDetaches, Callers
<1>2. Credentials' /\ WindowHeld'
  BY <1>1, CallEndsKept
<1>3. process' = [process EXCEPT !.traced = FALSE, !.stopped = FALSE] /\ dog' = "over"
      /\ inj' = inj
  BY DEF WatchdogDetaches, LetItGo
<1>4. RegistersBack'
  <2> SUFFICES ASSUME inj.at = "close", inj.ok
               PROVE  process' = [traced |-> FALSE, stopped |-> FALSE, regs |-> "own"]
    BY <1>3 DEF RegistersBack
  <2>1. process = [traced |-> FALSE, stopped |-> FALSE, regs |-> "own"]
    BY DEF RegistersBack, InjectionIInv
  <2> QED BY <1>3, <2>1
<1> QED BY <1>2, <1>3, <1>4 DEF Credentials, InjectionIInv, InjectionTypeOK, CopyKept, CopyBack

\* The window is opened with the lock and closed with what was saved.
LEMMA WindowKept ==
  ASSUME InjectionIInv,
         OpenWindow \/ LeaveStopped \/ NextShell \/ CloseWindow \/ OtherLocks \/ OtherUnlocks
  PROVE  InjectionIInv'
<1> USE InjectionAssumption
    DEF InjectionIInv, InjectionTypeOK, CredentialsKept, RegistersBack, WindowHeld, CopyKept,
        CopyBack, NoInjection, Outside, Callers
<1>0. Credentials
  BY DEF Credentials
<1>1. CASE OpenWindow
  <2>1. dog' = dog /\ process' = process
    BY <1>1 DEF OpenWindow
  <2>2. CASE Raise("injector") /\ inj' = [NoInjection EXCEPT !.at = "attach", !.window = TRUE]
    <3>1. Credentials' /\ caller'["injector"].in
      BY <1>0, <2>2, RaiseKept
    <3>2. inj' = [at |-> "attach", window |-> TRUE, backup |-> FALSE, ok |-> TRUE]
      BY <2>2
    <3> QED BY <2>1, <3>1, <3>2 DEF Credentials, Places
  <2>3. CASE RaiseFails("injector") /\ inj' = [NoInjection EXCEPT !.at = "attach"]
    <3>1. inj' = [at |-> "attach", window |-> FALSE, backup |-> FALSE, ok |-> TRUE]
      BY <2>3
    <3> QED BY <2>1, <2>3, <3>1 DEF RaiseFails, Places
  <2> QED BY <1>1, <2>2, <2>3 DEF OpenWindow
<1>2. CASE CloseWindow
  <2>1. Credentials'
    <3>1. CASE inj.window
      BY <1>0, <1>2, <3>1, RestoreKept DEF CloseWindow
    <3>2. CASE ~inj.window
      BY <1>0, <1>2, <3>2 DEF CloseWindow, Credentials
    <3> QED BY <3>1, <3>2
  <2> QED BY <1>2, <2>1 DEF CloseWindow, Credentials, Places
<1>3. CASE OtherLocks
  BY <1>3 DEF OtherLocks
<1>4. CASE OtherUnlocks
  BY <1>4 DEF OtherUnlocks
<1>5. CASE LeaveStopped
  <2>1. caller["injector"].in /\ inj' = [at |-> "left", window |-> FALSE, backup |-> FALSE, ok |-> FALSE]
    BY <1>5 DEF LeaveStopped, Inside
  <2>2. Credentials'
    BY <1>0, <1>5, <2>1, RestoreKept DEF LeaveStopped
  <2> QED BY <1>5, <2>1, <2>2 DEF LeaveStopped, Credentials, Places
<1>6. CASE NextShell
  BY <1>6 DEF NextShell, Places
<1> QED BY <1>1, <1>2, <1>3, <1>4, <1>5, <1>6

LEMMA InjectionCorrect == InjectionInit /\ [][InjectionNext]_injectionVars => []InjectionIInv
<1>1. InjectionIInv /\ [InjectionNext]_injectionVars => InjectionIInv'
  <2> SUFFICES ASSUME InjectionIInv, [InjectionNext]_injectionVars PROVE InjectionIInv'
    OBVIOUS
  <2>1. CASE UNCHANGED injectionVars
    BY <2>1 DEF injectionVars, InjectionIInv, InjectionTypeOK, CredentialsKept, RegistersBack,
         WindowHeld, CopyKept, CopyBack
  <2>2. CASE InjectorCalls \/ WatchdogCalls
    BY <2>2, CallStartsKept DEF InjectorCalls, WatchdogCalls, Callers
  <2> QED BY <2>1, <2>2, InjectorStepsKept, WaitsKept, WatchdogKept, WindowKept
          DEF InjectionNext, Injector, ExecWatchdog
<1> QED BY <1>1, InjectionStart, PTL

\* Whatever fails and whichever thread comes last, an injection leaves neither
\* the daemon's credentials raised nor the process's registers changed.
THEOREM TargetRestoredCorrect ==
  InjectionInit /\ [][InjectionNext]_injectionVars => []TargetRestored
<1>1. InjectionIInv => TargetRestored
  BY DEF InjectionIInv, TargetRestored
<1> QED BY <1>1, InjectionCorrect, PTL

----------------------------------------------------------------------------
(* HttpServer: the count of connections.                                   *)

Connected == {c \in Clients : client[c] # "none"}

\* HttpTypeOK counts the connections; for that there have to be finitely many.
HttpIInv ==
  /\ HttpTypeOK
  /\ client \in [Clients -> {"none", "counted", "serving"}] /\ active \in Nat
  /\ IsFiniteSet(Connected)

LEMMA HttpStart == HttpInit => HttpIInv
<1> SUFFICES ASSUME HttpInit PROVE HttpIInv
  OBVIOUS
<1>1. Connected = {}
  BY DEF HttpInit, Connected
<1>2. IsFiniteSet(Connected) /\ Cardinality(Connected) = 0
  BY <1>1, FS_EmptySet
<1> QED BY <1>2, HttpAssumption DEF HttpInit, HttpIInv, HttpTypeOK, Connected

\* Steps of main() and of the shutdown: the connections stay, or all are over.
LEMMA ConnectionsStay ==
  ASSUME HttpIInv, UNCHANGED <<client, active>> \/ Ended,
         main' \in [at : {"kill", "evict", "start", "join", "ended"}, n : 0..(MaxSpins + 2)],
         http' \in {"off", "try", "accept", "spawn", "stopped"},
         listener' \in {"none", "open", "stale", "down"},
         apply' \in Clients \cup {NoClient}
  PROVE  HttpIInv'
<1>1. CASE UNCHANGED <<client, active>>
  BY <1>1 DEF HttpIInv, HttpTypeOK, Connected
<1>2. CASE Ended
  <2>1. Connected' = {}
    BY <1>2 DEF Ended, Connected
  <2>2. IsFiniteSet(Connected') /\ Cardinality(Connected') = 0
    BY <2>1, FS_EmptySet
  <2> QED BY <1>2, <2>2, HttpAssumption DEF Ended, HttpIInv, HttpTypeOK, Connected
<1> QED BY <1>1, <1>2

LEMMA MainKeeps ==
  ASSUME HttpIInv, Main \/ OldLeaves \/ MainReturns
  PROVE  HttpIInv'
<1> USE HttpAssumption DEF HttpIInv, HttpTypeOK
<1>1. CASE KillOld \/ NoOldLeft \/ EvictOld \/ Evicted \/ OldLeaves
  BY <1>1, ConnectionsStay DEF KillOld, NoOldLeft, EvictOld, Evicted, OldLeaves, server
<1>2. CASE StartThreads \/ MainReturns
  BY <1>2, ConnectionsStay DEF StartThreads, MainReturns, Ended
<1> QED BY <1>1, <1>2 DEF Main

LEMMA ServerKeeps ==
  ASSUME HttpIInv,
         \/ ListenFails \/ Listen \/ Refuse \/ AcceptFails \/ StaleAcceptFails \/ SleepAndResume
         \/ ListenWatchdog \/ Killer
         \/ \E c \in Clients : BeginApply(c) \/ EndApply(c) \/ RequestShutdown(c)
  PROVE  HttpIInv'
<1> USE DEF HttpIInv, HttpTypeOK
<1>1. CASE ListenFails \/ Listen \/ Refuse \/ AcceptFails \/ StaleAcceptFails
  BY <1>1, ConnectionsStay
     DEF ListenFails, Listen, Refuse, AcceptFails, StaleAcceptFails, httpFrame, httpVars
<1>2. CASE SleepAndResume \/ ListenWatchdog
  BY <1>2, ConnectionsStay
     DEF SleepAndResume, ListenWatchdog, TakeFlag, ShutdownListener, watchdogFrame
<1>3. CASE Killer
  BY <1>3, HttpAssumption, ConnectionsStay DEF Killer, CloseServers, Save, Kill, Ended
<1>4. CASE \E c \in Clients : BeginApply(c) \/ EndApply(c) \/ RequestShutdown(c)
  BY <1>4, ConnectionsStay DEF BeginApply, EndApply, RequestShutdown, clientFrame
<1> QED BY <1>1, <1>2, <1>3, <1>4

\* A connection that is counted, and one that is over.
LEMMA ClientsKeep ==
  ASSUME HttpIInv, NEW c \in Clients, Accept(c) \/ Spawn(c) \/ Close(c)
  PROVE  HttpIInv'
<1> USE HttpAssumption DEF HttpIInv, HttpTypeOK
<1>1. active = Cardinality(Connected)
  BY DEF Connected
<1>2. CASE Accept(c)
  <2>1. Connected' = Connected \cup {c} /\ c \notin Connected
    BY <1>2 DEF Accept, Connected
  <2>2. IsFiniteSet(Connected') /\ Cardinality(Connected') = active + 1
    BY <1>1, <2>1, FS_AddElement
  <2> QED BY <1>2, <2>2 DEF Accept, httpFrame, Connected
<1>3. CASE Spawn(c) /\ client'[c] = "serving"
  <2>1. Connected' = Connected
    BY <1>3 DEF Spawn, Connected
  <2> QED BY <1>1, <1>3, <2>1 DEF Spawn, httpFrame, Connected
<1>4. CASE (Spawn(c) /\ client'[c] = "none") \/ Close(c)
  <2>1. Connected' = Connected \ {c} /\ c \in Connected
    BY <1>4 DEF Spawn, Close, Connected
  <2>2. IsFiniteSet(Connected') /\ Cardinality(Connected') = active - 1
    BY <1>1, <2>1, FS_RemoveElement
  <2>3. active - 1 \in Nat
    BY <2>2, FS_CardinalityType
  <2> QED BY <1>4, <2>2, <2>3 DEF Spawn, Close, httpFrame, clientFrame, Connected
<1> QED BY <1>2, <1>3, <1>4 DEF Spawn

LEMMA HttpCorrect == HttpInit /\ [][HttpNext]_httpVars => []HttpIInv
<1>1. HttpIInv /\ [HttpNext]_httpVars => HttpIInv'
  <2> SUFFICES ASSUME HttpIInv, [HttpNext]_httpVars PROVE HttpIInv'
    OBVIOUS
  <2>1. CASE UNCHANGED httpVars
    BY <2>1 DEF httpVars, HttpIInv, HttpTypeOK, Connected
  <2> QED BY <2>1, MainKeeps, ServerKeeps, ClientsKeep DEF HttpNext
<1> QED BY <1>1, HttpStart, PTL

----------------------------------------------------------------------------
(* HotkeyHook: how often it tries.                                         *)

Messages == [kind : {"err", "old", "request"}, done : SUBSET Sites, sites : SUBSET Sites,
             from : Int]
PayloadType == [at : {"working", "prepared"}, sites : SUBSET Sites]
HookType ==
  [at : {"check", "attach", "await", "arm", "receive"},
   hooked : 0..MaxShells, failed : 0..MaxShells, attempt : 0..MaxShells, settle : 0..MaxShells,
   ripe : BOOLEAN, losses : Nat, reinjects : Nat, totalFails : 0..MaxTotalFails,
   payloadFails : Nat, gaveUp : BOOLEAN, loop : BOOLEAN,
   request : [done : SUBSET Sites, sites : SUBSET Sites, from : Int], word : Int]

HotkeyTypes ==
  /\ HotkeyTypeOK
  /\ hook \in HookType
  /\ payloads \in Seq(PayloadType)
  /\ inbox \in Seq(Messages)
  /\ watch \in [pending : BOOLEAN, news : BOOLEAN]
  /\ unanswered \in SUBSET (1..MaxShells)
  /\ attempts \in Nat

Injecting == hook.at \in {"attach", "await", "arm"}

\* The thread knows no shell that has not been there yet.
KnowsPast ==
  /\ shell.pid > 0 => hook.attempt <= shell.pid /\ hook.settle <= shell.pid
  /\ shell.pid <= 0 => hook.attempt <= -shell.pid /\ hook.settle <= -shell.pid

\* A shell has settled after the watcher has looked into it; so the news of it
\* is taken before the first attempt, and no later look forgets the attempts.
NewsFirst ==
  /\ hook.ripe /\ hook.settle = shell.pid => ~watch.pending
  /\ attempts > 0 \/ (Injecting /\ Target) =>
       shell.pid > 0 /\ Target /\ ~watch.pending /\ ~watch.news
  /\ Injecting => hook.attempt > 0

\* Every attempt at this shell is a failure that was counted, or the last.
AttemptsCounted ==
  /\ Injecting => ~hook.gaveUp /\ ~hook.loop
  /\ hook.at = "attach" => attempts <= hook.totalFails
  /\ hook.at \in {"await", "arm"} => attempts <= hook.totalFails + 1
  /\ ~Injecting /\ attempts > 0 =>
       attempts <= hook.totalFails \/ hook.hooked = shell.pid \/ hook.gaveUp
  /\ hook.totalFails < MaxTotalFails \/ hook.gaveUp
  /\ hook.payloadFails < MaxPayloadFails \/ hook.gaveUp

\* Of the shells without an answer all are counted as lost but the last one.
LossesCounted ==
  /\ hook.attempt > 0 => hook.failed \in {0, hook.attempt}
  /\ Cardinality(unanswered \ {hook.failed}) <= hook.losses
  /\ hook.losses < MaxShellLosses \/ hook.loop

HotkeyIInv ==
  /\ HotkeyTypes /\ Restraint /\ KnowsPast /\ NewsFirst /\ AttemptsCounted /\ LossesCounted

\* The pieces of HotkeyIInv that are about the thread.
Progress == KnowsPast /\ NewsFirst /\ AttemptsCounted /\ LossesCounted

LEMMA UnansweredFinite ==
  ASSUME HotkeyTypes
  PROVE  IsFiniteSet(unanswered) /\ 0 \notin unanswered
<1>1. IsFiniteSet(1..MaxShells)
  BY FS_Interval, HotkeyAssumption
<1>2. unanswered \in SUBSET (1..MaxShells)
  BY DEF HotkeyTypes
<1>3. IsFiniteSet(unanswered)
  BY <1>1, <1>2, FS_Subset
<1> QED BY <1>2, <1>3

\* What is known of the thread's locals.
LEMMA HookFields ==
  ASSUME HotkeyTypes
  PROVE  /\ hook.attempt \in Nat /\ hook.settle \in Nat /\ hook.totalFails \in Nat
         /\ hook.failed \in Nat /\ hook.losses \in Nat /\ hook.payloadFails \in Nat
         /\ shell.pid \in Int /\ attempts \in Nat
BY HotkeyAssumption DEF HotkeyTypes, HotkeyTypeOK, HookType

LEMMA RemoveAtType ==
  ASSUME NEW S, NEW s \in Seq(S), NEW k \in DOMAIN s
  PROVE  RemoveAt(s, k) \in Seq(S)
<1>1. SubSeq(s, 1, k - 1) \in Seq(S) /\ SubSeq(s, k + 1, Len(s)) \in Seq(S)
  OBVIOUS
<1> QED BY <1>1 DEF RemoveAt

LEMMA ElementType ==
  ASSUME NEW S, NEW s \in Seq(S), NEW k \in DOMAIN s
  PROVE  s[k] \in S
OBVIOUS

LEMMA AppendType ==
  ASSUME NEW S, NEW s \in Seq(S), NEW e \in S
  PROVE  Append(s, e) \in Seq(S)
OBVIOUS

LEMMA HotkeyStart == HotkeyInit => HotkeyIInv
<1> SUFFICES ASSUME HotkeyInit PROVE HotkeyIInv
  OBVIOUS
<1> USE HotkeyAssumption DEF HotkeyInit, NoHook
<1>1. HotkeyTypes
  <2>1. hook \in HookType
    BY DEF HookType
  <2>2. 1 \in (-MaxShells)..MaxShells
    OBVIOUS
  <2>3. readyFile \in 0..MaxShells /\ shell \in [pid : {1}, hooked : SUBSET Sites]
    OBVIOUS
  <2> QED BY <2>1, <2>2, <2>3 DEF HotkeyTypes, HotkeyTypeOK
<1>2. Cardinality(unanswered) = 0 /\ Cardinality(unanswered \ {hook.failed}) = 0
  <2>1. unanswered = {} /\ unanswered \ {hook.failed} = {}
    OBVIOUS
  <2> QED BY <2>1, FS_EmptySet
<1> QED BY <1>1, <1>2 DEF HotkeyIInv, Restraint, KnowsPast, NewsFirst, AttemptsCounted,
             LossesCounted, Injecting, Target

\* A shell that ends takes its attempts along, one that starts is a new one.
LEMMA ShellSteps ==
  ASSUME HotkeyIInv, ShellEnds \/ ShellStarts
  PROVE  HotkeyIInv'
<1> USE HotkeyAssumption DEF HotkeyIInv
<1>1. /\ hook.attempt \in Nat /\ hook.settle \in Nat /\ hook.totalFails \in Nat
      /\ shell.pid \in Int /\ attempts \in Nat
  BY HookFields
<1>2. hook' = hook /\ unanswered' = unanswered /\ inbox' = inbox /\ readyFile' = readyFile
  BY DEF ShellEnds, ShellStarts, environment
<1>3. LossesCounted'
  BY <1>2 DEF LossesCounted
<1>4. CASE ShellEnds
  <2>1. /\ shell' = [pid |-> -shell.pid, hooked |-> {}] /\ shell.pid > 0 /\ attempts' = 0
        /\ ~watch'.pending
    BY <1>4 DEF ShellEnds, HotkeyTypes
  <2>2. HotkeyTypes'
    <3>1. -shell.pid \in (-MaxShells)..MaxShells
      BY <1>1 DEF HotkeyTypes, HotkeyTypeOK
    <3>2. shell' \in [pid : (-MaxShells)..MaxShells, hooked : SUBSET Sites]
      BY <2>1, <3>1
    <3>3. payloads' \in Seq(PayloadType) /\ watch' \in [pending : BOOLEAN, news : BOOLEAN]
      <4>1. payloads' = <<>> /\ watch' = [watch EXCEPT !.pending = FALSE]
        BY <1>4 DEF ShellEnds
      <4>2. watch \in [pending : BOOLEAN, news : BOOLEAN]
        BY DEF HotkeyTypes
      <4>3. watch' \in [pending : BOOLEAN, news : BOOLEAN]
        BY <4>1, <4>2
      <4>4. <<>> \in Seq(PayloadType)
        OBVIOUS
      <4> QED BY <4>1, <4>3, <4>4
    <3> QED BY <1>2, <2>1, <3>2, <3>3 DEF HotkeyTypes, HotkeyTypeOK
  <2>3. shell'.pid = -shell.pid
    BY <2>1
  <2>4. ~Target'
    BY <1>1, <1>2, <2>1, <2>3 DEF Target
  <2>5. KnowsPast'
    BY <1>1, <1>2, <2>1, <2>3 DEF KnowsPast
  <2>6. NewsFirst'
    BY <1>1, <1>2, <2>1, <2>4 DEF NewsFirst, Injecting
  <2>7. AttemptsCounted' /\ Restraint'
    BY <1>1, <1>2, <2>1 DEF AttemptsCounted, Restraint, Injecting
  <2> QED BY <1>3, <2>2, <2>5, <2>6, <2>7
<1>5. CASE ShellStarts
  <2>1. shell' = [shell EXCEPT !.pid = 1 - shell.pid] /\ shell.pid < 0 /\ attempts' = attempts
    BY <1>5 DEF ShellStarts
  <2>2. shell'.pid = 1 - shell.pid /\ shell' \in [pid : (-MaxShells)..MaxShells, hooked : SUBSET Sites]
    <3>1. 1 - shell.pid \in (-MaxShells)..MaxShells
      BY <1>1, <1>5, <2>1 DEF ShellStarts
    <3>2. shell \in [pid : (-MaxShells)..MaxShells, hooked : SUBSET Sites]
      BY DEF HotkeyTypes, HotkeyTypeOK
    <3> QED BY <2>1, <3>1, <3>2
  <2>3. HotkeyTypes'
    BY <1>2, <1>5, <2>1, <2>2 DEF ShellStarts, HotkeyTypes, HotkeyTypeOK
  <2>4. attempts = 0
    BY <1>1, <2>1 DEF NewsFirst
  <2>5. hook.attempt < shell'.pid /\ hook.settle < shell'.pid
    BY <1>1, <2>1, <2>2 DEF KnowsPast
  <2>6. KnowsPast'
    BY <1>1, <1>2, <2>1, <2>2, <2>5 DEF KnowsPast
  <2>7. NewsFirst'
    BY <1>1, <1>2, <2>1, <2>2, <2>4, <2>5 DEF NewsFirst, Injecting, Target
  <2>8. AttemptsCounted' /\ Restraint'
    BY <1>1, <1>2, <2>1, <2>4 DEF AttemptsCounted, Restraint, Injecting
  <2> QED BY <1>3, <2>3, <2>6, <2>7, <2>8
<1> QED BY <1>4, <1>5

\* The news of a shell comes before an attempt at it.
LEMMA WatcherSteps ==
  ASSUME HotkeyIInv, ConsoleChanges \/ WatcherReports \/ Ripen
  PROVE  HotkeyIInv'
<1> USE DEF HotkeyIInv, environment
<1>1. CASE ConsoleChanges
  BY <1>1 DEF ConsoleChanges, HotkeyTypes, HotkeyTypeOK, Restraint, KnowsPast, NewsFirst,
     AttemptsCounted, LossesCounted, Injecting, Target
<1>2. CASE WatcherReports
  BY <1>2 DEF WatcherReports, HotkeyTypes, HotkeyTypeOK, Restraint, KnowsPast, NewsFirst,
     AttemptsCounted, LossesCounted, Injecting, Target
<1>3. CASE Ripen
  <2>1. hook' = [hook EXCEPT !.ripe = TRUE] /\ hook \in HookType
    BY <1>3 DEF Ripen, HotkeyTypes
  <2>2. hook' \in HookType
    BY <2>1 DEF HookType
  <2>3. \A f \in {"at", "hooked", "failed", "attempt", "settle", "losses", "reinjects", "totalFails",
                   "payloadFails", "gaveUp", "loop"} : hook'[f] = hook[f]
    BY <2>1 DEF HookType
  <2> QED BY <1>3, <2>2, <2>3 DEF Ripen, HotkeyTypes, HotkeyTypeOK, Restraint, KnowsPast, NewsFirst,
     AttemptsCounted, LossesCounted, Injecting, Target
<1> QED BY <1>1, <1>2, <1>3

\* A payload arms sites and sends one message.
LEMMA PayloadSteps ==
  ASSUME HotkeyIInv, NEW k \in DOMAIN payloads, Payload(k)
  PROVE  HotkeyIInv'
<1> USE DEF HotkeyIInv, HotkeyTypes, payloadFrame
<1>1. hook' = hook /\ watch' = watch /\ unanswered' = unanswered /\ attempts' = attempts
      /\ readyFile' = readyFile
  BY DEF Payload, PayloadFails, PayloadFindsHook, PayloadPrepares, PayloadCommits
<1>2. RemoveAt(payloads, k) \in Seq(PayloadType)
  BY RemoveAtType
<1>3. payloads[k] \in PayloadType
  BY ElementType
<1>6. shell.pid \in Int
  BY HookFields
<1>4. /\ payloads' \in Seq(PayloadType)
      /\ inbox' \in Seq(Messages)
      /\ shell' \in [pid : {shell.pid}, hooked : SUBSET Sites]
  <2> USE DEF HotkeyTypeOK
  <2>1. CASE PayloadFails(k) \/ PayloadFindsHook(k)
    <3>1. Send(Answer("err")) \/ Send(Answer("old"))
      BY <2>1 DEF PayloadFails, PayloadFindsHook
    <3>2. Answer("err") \in Messages /\ Answer("old") \in Messages
      BY <1>6 DEF Messages, Answer
    <3>3. inbox \in Seq(Messages)
      BY DEF HotkeyTypes
    <3>4. inbox' \in Seq(Messages)
      <4>1. \A m \in Messages : Append(inbox, m) \in Seq(Messages)
        BY <3>3, AppendType
      <4> QED BY <3>1, <3>2, <4>1 DEF Send
    <3> QED BY <1>2, <2>1, <3>4 DEF PayloadFails, PayloadFindsHook, IsOver
  <2>2. CASE PayloadPrepares(k)
    <3>1. PICK found \in SUBSET Sites :
            payloads' = [payloads EXCEPT ![k] = [at |-> "prepared", sites |-> found]]
      BY <2>2 DEF PayloadPrepares, Preparable
    <3>2. [at |-> "prepared", sites |-> found] \in PayloadType
      BY DEF PayloadType
    <3> QED BY <2>2, <3>1, <3>2 DEF PayloadPrepares
  <2>3. CASE PayloadCommits(k)
    <3>1. PICK done \in Committable(payloads[k].sites) :
            /\ shell' = [shell EXCEPT !.hooked = @ \cup done]
            /\ Send([kind |-> "request", done |-> done, sites |-> payloads[k].sites,
                     from |-> shell.pid])
      BY <2>3 DEF PayloadCommits
    <3>2. done \in SUBSET Sites /\ payloads[k].sites \in SUBSET Sites
      BY <1>3 DEF Committable, PayloadType
    <3>3. [kind |-> "request", done |-> done, sites |-> payloads[k].sites, from |-> shell.pid]
             \in Messages
      BY <1>6, <3>2 DEF Messages
    <3>4. inbox' \in Seq(Messages)
      BY <3>1, <3>3, AppendType DEF Send
    <3> QED BY <1>2, <2>3, <3>1, <3>2, <3>4 DEF PayloadCommits, IsOver
  <2> QED BY <2>1, <2>2, <2>3 DEF Payload
<1>5. shell'.pid = shell.pid
  BY <1>4
<1> QED BY <1>1, <1>4, <1>5 DEF HotkeyTypeOK, Restraint, KnowsPast, NewsFirst, AttemptsCounted,
             LossesCounted, Injecting, Target

\* An injection that ends well: the shell has its hooks, the counters start anew.
LEMMA SucceedKeeps ==
  ASSUME HotkeyIInv, hook.at \in {"await", "arm"},
         NEW h \in {hook, [hook EXCEPT !.request = NoHook.request]}, NEW from \in Int, Succeed(h, from),
         shell'.pid = shell.pid, UNCHANGED <<watch, attempts>>
  PROVE  hook' \in HookType /\ unanswered' = {} /\ Restraint' /\ Progress'
<1> USE HotkeyAssumption DEF HotkeyIInv
<1>1. hook \in HookType
  BY DEF HotkeyTypes
<1>2. h \in HookType /\ h = [hook EXCEPT !.request = h.request]
  BY <1>1 DEF HookType, NoHook
<1>3. PICK n \in {1, h.reinjects + 1} :
        hook' = [h EXCEPT !.at = "receive", !.hooked = h.attempt, !.totalFails = 0,
                          !.losses = 0, !.reinjects = n, !.loop = @ \/ n > MaxReinjects,
                          !.word = from]
  BY DEF Succeed
<1> DEFINE over == h.loop \/ n > MaxReinjects
<1>0. over \in BOOLEAN /\ n \in Nat /\ h.attempt \in 0..MaxShells
  BY <1>2 DEF HookType
<1>14. 0 \in 0..MaxTotalFails
  OBVIOUS
<1>13. hook' = [h EXCEPT !.at = "receive", !.hooked = h.attempt, !.totalFails = 0,
                         !.losses = 0, !.reinjects = n, !.loop = over, !.word = from]
  BY <1>3
<1> HIDE DEF over
<1>4. hook' \in HookType
  BY <1>0, <1>2, <1>13, <1>14 DEF HookType
<1>5. /\ hook'.at = "receive" /\ hook'.hooked = hook.attempt /\ hook'.totalFails = 0
      /\ hook'.losses = 0 /\ hook'.attempt = hook.attempt /\ hook'.settle = hook.settle
      /\ hook'.ripe = hook.ripe /\ hook'.failed = hook.failed
      /\ hook'.payloadFails = hook.payloadFails /\ hook'.gaveUp = hook.gaveUp
  BY <1>1, <1>2, <1>13 DEF HookType
<1>6. Cardinality(unanswered') = 0 /\ Cardinality(unanswered' \ {hook'.failed}) = 0
  <2>1. unanswered' = {} /\ unanswered' \ {hook'.failed} = {}
    BY DEF Succeed
  <2> QED BY <2>1, FS_EmptySet
<1>7. ~hook.gaveUp /\ hook.payloadFails < MaxPayloadFails /\ hook.payloadFails \in Nat
  BY HookFields DEF AttemptsCounted, Injecting
<1>8. KnowsPast'
  BY <1>5 DEF KnowsPast
<1>9. NewsFirst'
  BY <1>5 DEF NewsFirst, Injecting, Target
<1>10. AttemptsCounted'
  BY <1>5, <1>7 DEF AttemptsCounted, NewsFirst, Injecting, Target
<1>11. LossesCounted'
  BY <1>5, <1>6 DEF LossesCounted
<1>12. Restraint'
  BY <1>5, <1>6, <1>7 DEF Restraint
<1> QED BY <1>4, <1>8, <1>9, <1>10, <1>11, <1>12 DEF Progress, Succeed

\* One that fails: the failure is counted, and the last one ends it.  An attempt
\* at this shell is counted before, or with it.
LEMMA FailKeeps ==
  ASSUME HotkeyIInv, Injecting,
         NEW h \in {hook, [hook EXCEPT !.request = NoHook.request]}, Fail(h),
         shell'.pid = shell.pid, UNCHANGED <<watch, unanswered>>,
         \/ hook.at # "attach" /\ attempts' = attempts
         \/ hook.at = "attach" /\ attempts' = IF Target THEN attempts + 1 ELSE attempts
  PROVE  hook' \in HookType /\ Restraint' /\ Progress'
<1> USE HotkeyAssumption DEF HotkeyIInv
<1>1. hook \in HookType /\ hook.totalFails \in Nat /\ hook.payloadFails \in Nat /\ attempts \in Nat
  BY HookFields DEF HotkeyTypes
<1>2. h \in HookType /\ h = [hook EXCEPT !.request = h.request]
  BY <1>1 DEF HookType, NoHook
<1>3. /\ ~hook.gaveUp /\ hook.totalFails < MaxTotalFails /\ hook.payloadFails < MaxPayloadFails
      /\ attempts' <= hook.totalFails + 1 /\ attempts' \in Nat
  BY <1>1 DEF AttemptsCounted, Injecting
<1> DEFINE more == h.totalFails + 1
           last == h.gaveUp \/ more >= MaxTotalFails
<1>4. hook' = [h EXCEPT !.at = "receive", !.totalFails = more, !.gaveUp = last]
  BY DEF Fail
<1>5. /\ more = hook.totalFails + 1 /\ more \in 0..MaxTotalFails /\ last \in BOOLEAN
      /\ more < MaxTotalFails \/ last
  <2>1. h.totalFails = hook.totalFails
    BY <1>1, <1>2 DEF HookType
  <2> QED BY <1>1, <1>3, <2>1
<1> HIDE DEF more, last
<1>6. /\ hook'.at = "receive" /\ hook'.hooked = hook.hooked /\ hook'.totalFails = hook.totalFails + 1
      /\ hook'.losses = hook.losses /\ hook'.attempt = hook.attempt /\ hook'.settle = hook.settle
      /\ hook'.ripe = hook.ripe /\ hook'.failed = hook.failed /\ hook'.loop = hook.loop
      /\ hook'.payloadFails = hook.payloadFails
      /\ hook'.totalFails < MaxTotalFails \/ hook'.gaveUp
  BY <1>1, <1>2, <1>4, <1>5 DEF HookType
<1>7. hook' \in HookType
  BY <1>1, <1>2, <1>4, <1>5 DEF HookType
<1>8. KnowsPast'
  BY <1>6 DEF KnowsPast
<1>9. NewsFirst'
  BY <1>6 DEF NewsFirst, Injecting, Target
<1>10. AttemptsCounted'
  BY <1>3, <1>6 DEF AttemptsCounted, Injecting
<1>11. LossesCounted'
  BY <1>6 DEF LossesCounted
<1>12. Restraint'
  BY <1>1, <1>3, <1>6 DEF Restraint
<1> QED BY <1>7, <1>8, <1>9, <1>10, <1>11, <1>12 DEF Progress

\* A payload that fails: its shell joins those without an answer.
LEMMA PayloadFailedKeeps ==
  ASSUME HotkeyIInv, hook.at = "await", PayloadFailed(hook),
         shell'.pid = shell.pid, UNCHANGED <<watch, attempts>>
  PROVE  hook' \in HookType /\ unanswered' \in SUBSET (1..MaxShells) /\ Restraint' /\ Progress'
<1> USE HotkeyAssumption DEF HotkeyIInv
<1>1. /\ hook \in HookType /\ hook.totalFails \in Nat /\ hook.payloadFails \in Nat
      /\ attempts \in Nat /\ hook.losses \in Nat /\ hook.attempt \in Nat
  BY HookFields DEF HotkeyTypes
<1> DEFINE failures == hook.payloadFails + 1
           f == [hook EXCEPT !.failed = hook.attempt, !.payloadFails = failures]
<1>20. failures \in Nat /\ failures = hook.payloadFails + 1
  BY <1>1
<1>21. /\ IF f.payloadFails >= MaxPayloadFails
           THEN hook' = [f EXCEPT !.at = "receive", !.gaveUp = TRUE]
           ELSE Fail(f)
      /\ unanswered' = unanswered \cup {hook.attempt}
  BY DEF PayloadFailed
<1> HIDE DEF failures
<1>2. f \in HookType
  BY <1>1, <1>20 DEF HookType
<1>3. /\ f.at = "await" /\ f.failed = hook.attempt /\ f.payloadFails = hook.payloadFails + 1
      /\ f.hooked = hook.hooked /\ f.totalFails = hook.totalFails /\ f.gaveUp = hook.gaveUp
      /\ f.losses = hook.losses /\ f.attempt = hook.attempt /\ f.settle = hook.settle
      /\ f.ripe = hook.ripe /\ f.loop = hook.loop
  BY <1>1, <1>20 DEF HookType
<1>4. /\ IF f.payloadFails >= MaxPayloadFails
           THEN hook' = [f EXCEPT !.at = "receive", !.gaveUp = TRUE]
           ELSE Fail(f)
      /\ unanswered' = unanswered \cup {hook.attempt}
  BY <1>21
<1> HIDE DEF f
<1>5. /\ ~hook.gaveUp /\ ~hook.loop /\ hook.totalFails < MaxTotalFails
      /\ hook.payloadFails < MaxPayloadFails /\ attempts <= hook.totalFails + 1
      /\ hook.attempt > 0 /\ hook.failed \in {0, hook.attempt} /\ hook.losses < MaxShellLosses
  BY <1>1 DEF AttemptsCounted, NewsFirst, LossesCounted, Injecting
<1>6. /\ hook' \in HookType /\ hook'.at = "receive" /\ hook'.payloadFails = f.payloadFails
      /\ hook'.losses = f.losses /\ hook'.attempt = f.attempt /\ hook'.settle = f.settle
      /\ hook'.ripe = f.ripe /\ hook'.failed = f.failed /\ hook'.loop = f.loop
      /\ hook'.totalFails < MaxTotalFails \/ hook'.gaveUp
      /\ hook'.payloadFails < MaxPayloadFails \/ hook'.gaveUp
      /\ attempts <= hook'.totalFails \/ hook'.gaveUp
  <2>1. CASE f.payloadFails >= MaxPayloadFails
    <3>1. hook' = [f EXCEPT !.at = "receive", !.gaveUp = TRUE]
      BY <1>4, <2>1
    <3>2. hook'.gaveUp
      BY <1>2, <3>1 DEF HookType
    <3> QED BY <1>2, <3>1, <3>2 DEF HookType
  <2>2. CASE ~(f.payloadFails >= MaxPayloadFails)
    <3> DEFINE more == f.totalFails + 1
               last == f.gaveUp \/ more >= MaxTotalFails
    <3>1. hook' = [f EXCEPT !.at = "receive", !.totalFails = more, !.gaveUp = last]
      BY <1>4, <2>2 DEF Fail
    <3>2. /\ more \in 0..MaxTotalFails /\ last \in BOOLEAN /\ (more < MaxTotalFails \/ last)
          /\ attempts <= more
      BY <1>1, <1>3, <1>5
    <3>3. f.payloadFails < MaxPayloadFails
      BY <1>1, <1>3, <2>2
    <3> HIDE DEF more, last
    <3> QED BY <1>2, <3>1, <3>2, <3>3 DEF HookType
  <2> QED BY <2>1, <2>2
<1>7. /\ Cardinality(unanswered') <= MaxShellLosses
      /\ Cardinality(unanswered' \ {hook'.failed}) <= hook'.losses
      /\ unanswered' \in SUBSET (1..MaxShells)
  <2>1. IsFiniteSet(unanswered) /\ 0 \notin unanswered
    BY UnansweredFinite
  <2> DEFINE others == unanswered' \ {hook'.failed}
  <2>2. others \subseteq unanswered \ {hook.failed} /\ IsFiniteSet(unanswered \ {hook.failed})
    BY <1>3, <1>4, <1>5, <1>6, <2>1, FS_RemoveElement
  <2>3. /\ IsFiniteSet(others) /\ Cardinality(others) <= Cardinality(unanswered \ {hook.failed})
        /\ Cardinality(others) \in Nat /\ Cardinality(unanswered \ {hook.failed}) \in Nat
    BY <2>2, FS_Subset, FS_CardinalityType
  <2>4. unanswered' = others \cup {hook.attempt} /\ hook.attempt \notin others
    BY <1>3, <1>4, <1>6
  <2>5. Cardinality(unanswered') = Cardinality(others) + 1
    BY <2>3, <2>4, FS_AddElement
  <2>6. Cardinality(unanswered \ {hook.failed}) <= hook.losses
    BY DEF LossesCounted
  <2>7. unanswered' \in SUBSET (1..MaxShells)
    BY <1>1, <1>4, <1>5 DEF HotkeyTypes, HookType
  <2> HIDE DEF others
  <2>8. Cardinality(others) <= hook.losses /\ Cardinality(others) + 1 <= MaxShellLosses
    BY <1>1, <1>5, <2>3, <2>6
  <2> QED BY <1>3, <1>6, <2>5, <2>7, <2>8 DEF others
<1>8. KnowsPast'
  BY <1>3, <1>6 DEF KnowsPast
<1>9. NewsFirst'
  BY <1>3, <1>6 DEF NewsFirst, Injecting, Target
<1>10. AttemptsCounted'
  BY <1>3, <1>5, <1>6 DEF AttemptsCounted, Injecting
<1>11. LossesCounted'
  BY <1>3, <1>5, <1>6, <1>7 DEF LossesCounted
<1>12. Restraint'
  BY <1>1, <1>3, <1>5, <1>6, <1>7 DEF Restraint
<1> QED BY <1>6, <1>7, <1>8, <1>9, <1>10, <1>11, <1>12 DEF Progress

\* What a look at the process changes: nothing, if there was an attempt at it.
LEMMA NoticedKeeps ==
  ASSUME HotkeyIInv, hook.at = "check", ~hook.loop,
         NEW pid, pid = IF shell.pid > 0 THEN shell.pid ELSE 0,
         NEW h, h = NoticePid(NoticeImage(hook), pid)
  PROVE  /\ h \in HookType /\ h.at = "check" /\ h.attempt = pid
         /\ attempts > 0 => h = hook
         /\ h.settle \in {0, hook.settle}
         /\ h.ripe => hook.ripe /\ h.settle = hook.settle /\ ~watch.news
         /\ h.loop => h.gaveUp
         /\ h.totalFails < MaxTotalFails \/ h.gaveUp
         /\ h.payloadFails < MaxPayloadFails \/ h.gaveUp
         /\ h.attempt > 0 => h.failed \in {0, h.attempt}
         /\ Cardinality(unanswered \ {h.failed}) <= h.losses
         /\ h.losses < MaxShellLosses \/ h.loop
         /\ h.payloadFails <= MaxPayloadFails
<1> USE HotkeyAssumption DEF HotkeyIInv
<1>1. /\ hook \in HookType /\ hook.totalFails \in Nat /\ hook.payloadFails \in Nat
      /\ attempts \in Nat /\ hook.losses \in Nat /\ hook.attempt \in Nat /\ hook.failed \in Nat
      /\ pid \in 0..MaxShells /\ watch.news \in BOOLEAN
  BY HookFields DEF HotkeyTypes, HotkeyTypeOK
<1> DEFINE g == NoticeImage(hook)
<1>2. /\ g \in HookType /\ g.at = "check" /\ g.failed = hook.failed /\ g.losses = hook.losses
      /\ g.totalFails = hook.totalFails /\ g.payloadFails = hook.payloadFails
      /\ g.gaveUp = hook.gaveUp /\ g.loop = hook.loop
      /\ g.attempt \in {0, hook.attempt} /\ g.settle \in {0, hook.settle}
      /\ g.ripe => hook.ripe /\ g.settle = hook.settle /\ ~watch.news
      /\ ~watch.news => g = hook
  <2>1. CASE watch.news
    <3>1. g = [hook EXCEPT !.hooked = 0, !.attempt = 0, !.settle = 0, !.ripe = FALSE]
      BY <2>1 DEF NoticeImage
    <3>2. 0 \in 0..MaxShells
      OBVIOUS
    <3> HIDE DEF g
    <3> QED BY <1>1, <2>1, <3>1, <3>2 DEF HookType
  <2>2. CASE ~watch.news
    <3>1. g = hook
      BY <2>2 DEF NoticeImage
    <3> HIDE DEF g
    <3> QED BY <1>1, <2>2, <3>1
  <2> QED BY <2>1, <2>2
<1>3. attempts > 0 => ~watch.news /\ pid = hook.attempt
  BY DEF NewsFirst, Target
<1>4. /\ hook.totalFails < MaxTotalFails \/ hook.gaveUp
      /\ hook.payloadFails < MaxPayloadFails \/ hook.gaveUp
      /\ hook.payloadFails <= MaxPayloadFails
      /\ hook.attempt > 0 => hook.failed \in {0, hook.attempt}
      /\ Cardinality(unanswered \ {hook.failed}) <= hook.losses
      /\ hook.losses < MaxShellLosses
  BY DEF AttemptsCounted, LossesCounted, Restraint
<1>5. h = NoticePid(g, pid)
  OBVIOUS
<1> HIDE DEF g
<1>6. CASE pid = g.attempt
  <2>1. h = g
    BY <1>5, <1>6 DEF NoticePid
  <2> QED BY <1>1, <1>2, <1>3, <1>4, <1>6, <2>1
<1>7. CASE pid # g.attempt
  <2> DEFINE gone == g.failed > 0 /\ pid > 0 /\ g.failed # pid
             over == gone /\ g.losses + 1 >= MaxShellLosses
             fail == IF gone THEN 0 ELSE g.failed
             losses == IF gone THEN g.losses + 1 ELSE g.losses
             looped == g.loop \/ over
  <2>1. h = [g EXCEPT !.attempt = pid, !.totalFails = 0, !.payloadFails = 0, !.failed = fail,
                      !.losses = losses, !.loop = looped, !.gaveUp = over]
    BY <1>5, <1>7 DEF NoticePid
  <2>2. over \in BOOLEAN /\ looped \in BOOLEAN /\ fail \in 0..MaxShells /\ losses \in Nat
        /\ 0 \in 0..MaxTotalFails
    BY <1>1, <1>2 DEF HookType
  <2>3. /\ pid > 0 => fail \in {0, pid}
        /\ losses < MaxShellLosses \/ looped
        /\ looped <=> over
    BY <1>1, <1>2, <1>4
  <2>4. Cardinality(unanswered \ {fail}) <= losses
    <3>1. CASE gone
      <4>1. IsFiniteSet(unanswered) /\ 0 \notin unanswered
        BY UnansweredFinite
      <4>2. IsFiniteSet(unanswered \ {hook.failed}) /\ Cardinality(unanswered \ {hook.failed}) \in Nat
        BY <4>1, FS_RemoveElement, FS_CardinalityType
      <4>3. Cardinality(unanswered) <= Cardinality(unanswered \ {hook.failed}) + 1
        BY <4>1, <4>2, FS_RemoveElement, FS_CardinalityType
      <4>4. unanswered \ {fail} = unanswered
        BY <3>1, <4>1
      <4>5. Cardinality(unanswered) \in Nat
        BY <4>1, FS_CardinalityType
      <4>6. losses = hook.losses + 1
        BY <1>2, <3>1
      <4>7. Cardinality(unanswered) <= hook.losses + 1
        BY <1>1, <1>4, <4>2, <4>3, <4>5
      <4> QED BY <4>4, <4>6, <4>7
    <3>2. CASE ~gone
      BY <1>2, <1>4, <3>2
    <3> QED BY <3>1, <3>2
  <2> HIDE DEF over, fail, losses, looped, gone
  <2>5. h \in HookType
    <3> DEFINE k == [g EXCEPT !.attempt = pid, !.totalFails = 0, !.payloadFails = 0]
    <3>1. k \in HookType
      BY <1>1, <1>2, <2>2 DEF HookType
    <3>2. h = [k EXCEPT !.failed = fail, !.losses = losses, !.loop = looped, !.gaveUp = over]
      BY <1>2, <2>1, <2>2 DEF HookType
    <3> HIDE DEF k
    <3> QED BY <2>2, <3>1, <3>2 DEF HookType
  <2>6. /\ h.at = "check" /\ h.attempt = pid /\ h.totalFails = 0 /\ h.payloadFails = 0
        /\ h.failed = fail /\ h.losses = losses /\ h.loop = looped /\ h.gaveUp = over
        /\ h.settle = g.settle /\ h.ripe = g.ripe
    BY <1>1, <1>2, <2>1, <2>2 DEF HookType
  <2>7. ~(attempts > 0)
    BY <1>2, <1>3, <1>7
  <2> QED BY <1>2, <2>3, <2>4, <2>5, <2>6, <2>7
<1> QED BY <1>6, <1>7

\* The types of what a step of the thread leaves alone.
LEMMA TypesKept ==
  ASSUME HotkeyTypes, hook' \in HookType, unanswered' \in SUBSET (1..MaxShells),
         shell' \in [pid : {shell.pid}, hooked : SUBSET Sites], readyFile' \in 0..MaxShells,
         payloads' \in Seq(PayloadType), inbox' \in Seq(Messages),
         watch' \in [pending : BOOLEAN, news : BOOLEAN], attempts' \in Nat
  PROVE  HotkeyTypes'
<1>1. /\ hook'.at \in {"check", "attach", "await", "arm", "receive"}
      /\ hook'.hooked \in 0..MaxShells /\ hook'.attempt \in 0..MaxShells
      /\ hook'.reinjects \in Nat /\ hook'.totalFails \in 0..MaxTotalFails
  BY DEF HookType
<1>2. shell.pid \in (-MaxShells)..MaxShells
  BY DEF HotkeyTypes, HotkeyTypeOK
<1> QED BY <1>1, <1>2 DEF HotkeyTypes, HotkeyTypeOK

\* The thread that is switched off, or has found itself in a loop.
LEMMA NothingKeeps ==
  ASSUME HotkeyIInv, CheckNothing
  PROVE  HotkeyIInv'
<1> USE HotkeyAssumption DEF HotkeyIInv
<1>1. hook \in HookType /\ attempts \in Nat
  BY DEF HotkeyTypes
<1>2. CASE console = "off" /\ hook' = [hook EXCEPT !.at = "receive", !.loop = FALSE, !.losses = 0]
           /\ unanswered' = {}
  <2>1. hook' \in HookType
    BY <1>1, <1>2 DEF HookType
  <2>2. /\ hook'.at = "receive" /\ hook'.losses = 0 /\ hook'.hooked = hook.hooked
        /\ hook'.failed = hook.failed /\ hook'.attempt = hook.attempt /\ hook'.settle = hook.settle
        /\ hook'.ripe = hook.ripe /\ hook'.totalFails = hook.totalFails
        /\ hook'.payloadFails = hook.payloadFails /\ hook'.gaveUp = hook.gaveUp
    BY <1>1, <1>2 DEF HookType
  <2>3. Cardinality(unanswered') = 0 /\ Cardinality(unanswered' \ {hook'.failed}) = 0
    <3>1. unanswered' = {} /\ unanswered' \ {hook'.failed} = {}
      BY <1>2
    <3> QED BY <3>1, FS_EmptySet
  <2>4. HotkeyTypes'
    BY <1>2, <2>1, TypesKept DEF CheckNothing, HotkeyTypes, HotkeyTypeOK
  <2> QED BY <2>2, <2>3, <2>4 DEF CheckNothing, Restraint, KnowsPast, NewsFirst, AttemptsCounted,
               LossesCounted, Injecting, Target
<1>3. CASE hook' = [hook EXCEPT !.at = "receive"] /\ UNCHANGED unanswered
  <2>1. hook' \in HookType
    BY <1>1, <1>3 DEF HookType
  <2>2. /\ hook'.at = "receive" /\ hook'.losses = hook.losses /\ hook'.hooked = hook.hooked
        /\ hook'.failed = hook.failed /\ hook'.attempt = hook.attempt /\ hook'.settle = hook.settle
        /\ hook'.ripe = hook.ripe /\ hook'.totalFails = hook.totalFails /\ hook'.loop = hook.loop
        /\ hook'.payloadFails = hook.payloadFails /\ hook'.gaveUp = hook.gaveUp
    BY <1>1, <1>3 DEF HookType
  <2>4. HotkeyTypes'
    BY <1>3, <2>1, TypesKept DEF CheckNothing, HotkeyTypes, HotkeyTypeOK
  <2> QED BY <1>3, <2>2, <2>4 DEF CheckNothing, Restraint, KnowsPast, NewsFirst, AttemptsCounted,
               LossesCounted, Injecting, Target
<1> QED BY <1>2, <1>3 DEF CheckNothing

\* A look at the process.  Only one that has settled, after its news was taken,
\* is attached to.
LEMMA CheckKeeps ==
  ASSUME HotkeyIInv, Check
  PROVE  HotkeyIInv'
<1> USE HotkeyAssumption DEF HotkeyIInv
<1> DEFINE pid == IF shell.pid > 0 THEN shell.pid ELSE 0
           h == NoticePid(NoticeImage(hook), pid)
           rest == [h EXCEPT !.at = "receive"]
           settled == Settle(rest, pid)
<1>1. /\ hook.at = "check" /\ ~hook.loop
      /\ watch' = [watch EXCEPT !.news = FALSE] /\ readyFile' \in {0, readyFile}
      /\ UNCHANGED <<shell, payloads, inbox, unanswered, attempts, console>>
  BY DEF Check
<1>2. \/ hook' = rest
      \/ hook' = [rest EXCEPT !.hooked = pid, !.word = 0] /\ ~(pid \in {0, h.hooked})
      \/ hook' = settled
      \/ /\ hook' = [h EXCEPT !.at = "attach"] /\ settled.ripe
         /\ ~h.gaveUp /\ ~(pid \in {0, h.hooked})
  BY DEF Check
<1>3. /\ h \in HookType /\ h.at = "check" /\ h.attempt = pid
      /\ attempts > 0 => h = hook
      /\ h.settle \in {0, hook.settle}
      /\ h.ripe => hook.ripe /\ h.settle = hook.settle /\ ~watch.news
      /\ h.loop => h.gaveUp
      /\ h.totalFails < MaxTotalFails \/ h.gaveUp
      /\ h.payloadFails < MaxPayloadFails \/ h.gaveUp
      /\ h.attempt > 0 => h.failed \in {0, h.attempt}
      /\ Cardinality(unanswered \ {h.failed}) <= h.losses
      /\ h.losses < MaxShellLosses \/ h.loop
      /\ h.payloadFails <= MaxPayloadFails
  BY <1>1, NoticedKeeps
<1>4. /\ shell.pid \in Int /\ attempts \in Nat /\ hook.attempt \in Nat /\ hook.settle \in Nat
      /\ pid \in 0..MaxShells /\ pid \in Nat
  BY HookFields DEF HotkeyTypes, HotkeyTypeOK
<1>5. pid # 0 => shell.pid = pid
  OBVIOUS
<1>6. shell.pid > 0 => pid <= shell.pid
  BY <1>4
<1>20. shell.pid <= 0 => pid = 0
  BY <1>4
<1>7. /\ settled \in HookType /\ settled.at = "receive" /\ settled.settle \in {h.settle, pid}
      /\ settled.ripe => h.ripe /\ h.settle = pid /\ settled.settle = h.settle
      /\ settled.hooked = h.hooked /\ settled.failed = h.failed /\ settled.attempt = h.attempt
      /\ settled.losses = h.losses /\ settled.totalFails = h.totalFails /\ settled.payloadFails = h.payloadFails
      /\ settled.gaveUp = h.gaveUp /\ settled.loop = h.loop
  <2> HIDE DEF h, pid
  <2>1. rest \in HookType /\ rest.at = "receive" /\ rest.settle = h.settle /\ rest.ripe = h.ripe
        /\ rest.hooked = h.hooked /\ rest.failed = h.failed /\ rest.attempt = h.attempt
        /\ rest.losses = h.losses /\ rest.totalFails = h.totalFails /\ rest.payloadFails = h.payloadFails
        /\ rest.gaveUp = h.gaveUp /\ rest.loop = h.loop
    BY <1>3 DEF HookType
  <2> HIDE DEF rest
  <2>2. CASE rest.settle # pid
    <3>1. settled = [rest EXCEPT !.settle = pid, !.ripe = FALSE]
      BY <2>2 DEF Settle
    <3> HIDE DEF settled
    <3> QED BY <1>4, <2>1, <3>1 DEF HookType
  <2>3. CASE rest.settle = pid
    <3>1. settled = rest
      BY <2>3 DEF Settle
    <3> HIDE DEF settled
    <3> QED BY <2>1, <2>3, <3>1
  <2> QED BY <2>2, <2>3
<1>8. /\ hook' \in HookType /\ hook'.settle \in {h.settle, pid}
      /\ hook'.ripe => h.ripe /\ hook'.settle = h.settle
      /\ hook'.failed = h.failed /\ hook'.attempt = h.attempt /\ hook'.losses = h.losses
      /\ hook'.totalFails = h.totalFails /\ hook'.payloadFails = h.payloadFails
      /\ hook'.gaveUp = h.gaveUp /\ hook'.loop = h.loop
      /\ hook'.at \in {"receive", "attach"}
      /\ hook'.hooked = h.hooked \/ (hook'.hooked = pid /\ pid # 0)
      /\ hook'.at = "attach" => /\ h.ripe /\ h.settle = pid /\ hook'.settle = pid /\ ~h.gaveUp
                                /\ ~(pid \in {0, h.hooked})
  <2> HIDE DEF h, pid, settled
  <2>5. /\ rest \in HookType /\ rest.at = "receive" /\ rest.settle = h.settle /\ rest.ripe = h.ripe
        /\ rest.hooked = h.hooked /\ rest.failed = h.failed /\ rest.attempt = h.attempt
        /\ rest.losses = h.losses /\ rest.totalFails = h.totalFails /\ rest.payloadFails = h.payloadFails
        /\ rest.gaveUp = h.gaveUp /\ rest.loop = h.loop
    BY <1>3 DEF HookType
  <2>1. CASE hook' = rest
    <3> HIDE DEF rest
    <3> QED BY <2>1, <2>5
  <2>2. CASE hook' = [rest EXCEPT !.hooked = pid, !.word = 0] /\ ~(pid \in {0, h.hooked})
    <3>1. rest \in HookType
      BY <1>3 DEF HookType
    <3>2. pid \in 0..MaxShells /\ pid # 0
      BY <1>4, <2>2
    <3> HIDE DEF rest
    <3>3. hook' \in HookType
      <4>1. 0 \in Int
        OBVIOUS
      <4> QED BY <2>2, <3>1, <3>2, <4>1 DEF HookType
    <3>4. /\ hook'.at = rest.at /\ hook'.settle = rest.settle /\ hook'.ripe = rest.ripe
          /\ hook'.failed = rest.failed /\ hook'.attempt = rest.attempt /\ hook'.losses = rest.losses
          /\ hook'.totalFails = rest.totalFails /\ hook'.payloadFails = rest.payloadFails
          /\ hook'.gaveUp = rest.gaveUp /\ hook'.loop = rest.loop /\ hook'.hooked = pid
      BY <2>2, <3>1 DEF HookType
    <3> QED BY <2>5, <3>2, <3>3, <3>4
  <2>3. CASE hook' = settled
    BY <1>7, <2>3
  <2>4. CASE hook' = [h EXCEPT !.at = "attach"] /\ settled.ripe /\ ~h.gaveUp /\ ~(pid \in {0, h.hooked})
    BY <1>3, <1>7, <2>4 DEF HookType
  <2> QED BY <1>2, <2>1, <2>2, <2>3, <2>4
<1> HIDE DEF settled, h, pid, rest
<1>9. HotkeyTypes'
  <2>1. readyFile' \in 0..MaxShells /\ watch' \in [pending : BOOLEAN, news : BOOLEAN]
    <3>1. readyFile \in 0..MaxShells /\ 0 \in 0..MaxShells
      BY DEF HotkeyTypes, HotkeyTypeOK
    <3>2. watch \in [pending : BOOLEAN, news : BOOLEAN]
      BY DEF HotkeyTypes
    <3>3. watch' \in [pending : BOOLEAN, news : BOOLEAN]
      BY <1>1, <3>2
    <3> QED BY <1>1, <3>1, <3>3
  <2>2. shell' \in [pid : {shell.pid}, hooked : SUBSET Sites]
    BY <1>1 DEF HotkeyTypes, HotkeyTypeOK
  <2> QED BY <1>1, <1>8, <2>1, <2>2, TypesKept DEF HotkeyTypes
<1>10. watch'.pending = watch.pending /\ watch'.news = FALSE
  BY <1>1 DEF HotkeyTypes
<1>11. KnowsPast'
  BY <1>1, <1>3, <1>4, <1>6, <1>20, <1>8 DEF KnowsPast
<1>12. hook.ripe /\ hook.settle = shell.pid => ~watch.pending
  BY DEF NewsFirst
<1>13. attempts > 0 => shell.pid > 0 /\ hook.attempt = shell.pid /\ ~watch.pending
  BY DEF NewsFirst, Target
<1>14. NewsFirst'
  <2>1. hook'.ripe /\ hook'.settle = shell.pid => ~watch.pending
    BY <1>3, <1>8, <1>12
  <2>2. attempts > 0 => hook'.attempt = shell.pid
    BY <1>3, <1>8, <1>13
  <2>3. hook'.at = "attach" => shell.pid > 0 /\ hook'.attempt = shell.pid /\ ~watch.pending
                               /\ hook'.attempt > 0
    BY <1>3, <1>4, <1>5, <1>8, <1>12
  <2> QED BY <1>1, <1>8, <1>10, <1>13, <2>1, <2>2, <2>3 DEF NewsFirst, Injecting, Target
<1>15. AttemptsCounted'
  <2>1. /\ attempts > 0 => attempts <= hook.totalFails \/ hook.hooked = shell.pid \/ hook.gaveUp
        /\ attempts > 0 => shell.pid = pid
    BY <1>1, <1>3, <1>13 DEF AttemptsCounted, Injecting
  <2>2. attempts > 0 => attempts <= hook'.totalFails \/ h.hooked = shell.pid \/ hook'.gaveUp
    BY <1>3, <1>8, <2>1
  <2>3. h.totalFails \in Nat
    BY <1>3 DEF HookType
  <2>4. hook'.at = "attach" => ~hook'.gaveUp /\ ~hook'.loop /\ attempts <= hook'.totalFails
    BY <1>3, <1>4, <1>8, <2>1, <2>2, <2>3
  <2>5. hook'.at = "receive" /\ attempts > 0 =>
          attempts <= hook'.totalFails \/ hook'.hooked = shell.pid \/ hook'.gaveUp
    BY <1>8, <2>1, <2>2
  <2> QED BY <1>1, <1>3, <1>8, <2>4, <2>5 DEF AttemptsCounted, Injecting
<1>16. LossesCounted'
  BY <1>1, <1>3, <1>8 DEF LossesCounted
<1>17. Restraint'
  BY <1>1, <1>3, <1>8 DEF Restraint
<1> QED BY <1>9, <1>11, <1>14, <1>15, <1>16, <1>17

\* An attempt that fails at once, and one that gets as far as the payload.
LEMMA AttachKeeps ==
  ASSUME HotkeyIInv, AttachFails \/ Exec
  PROVE  HotkeyIInv'
<1> USE HotkeyAssumption DEF HotkeyIInv
<1>1. /\ hook \in HookType /\ attempts \in Nat /\ hook.totalFails \in Nat
      /\ payloads \in Seq(PayloadType) /\ shell.pid \in Int /\ hook.attempt \in Nat
  BY HookFields DEF HotkeyTypes
<1>2. CASE AttachFails
  <2>1. /\ hook.at = "attach" /\ Fail(hook) /\ attempts' \in Nat
        /\ attempts' = IF Target THEN attempts + 1 ELSE attempts
        /\ UNCHANGED <<shell, payloads, inbox, readyFile, watch, unanswered>>
    BY <1>1, <1>2 DEF AttachFails
  <2>2. hook' \in HookType /\ Restraint' /\ Progress'
    BY <2>1, FailKeeps DEF Injecting
  <2>3. HotkeyTypes'
    BY <2>1, <2>2, TypesKept DEF HotkeyTypes, HotkeyTypeOK
  <2> QED BY <2>2, <2>3 DEF Progress
<1>3. CASE Exec
  <2>1. /\ hook.at = "attach" /\ Target /\ hook' = [hook EXCEPT !.at = "await"]
        /\ payloads' = Append(payloads, [at |-> "working", sites |-> {}])
        /\ attempts' = attempts + 1
        /\ UNCHANGED <<shell, inbox, readyFile, watch, unanswered>>
    BY <1>3 DEF Exec
  <2>2. hook' \in HookType
    BY <1>1, <2>1 DEF HookType
  <2>3. /\ hook'.at = "await" /\ hook'.losses = hook.losses /\ hook'.hooked = hook.hooked
        /\ hook'.failed = hook.failed /\ hook'.attempt = hook.attempt /\ hook'.settle = hook.settle
        /\ hook'.ripe = hook.ripe /\ hook'.totalFails = hook.totalFails /\ hook'.loop = hook.loop
        /\ hook'.payloadFails = hook.payloadFails /\ hook'.gaveUp = hook.gaveUp
    BY <1>1, <2>1 DEF HookType
  <2>4. payloads' \in Seq(PayloadType)
    <3>1. [at |-> "working", sites |-> {}] \in PayloadType
      BY DEF PayloadType
    <3> QED BY <1>1, <2>1, <3>1
  <2>5. HotkeyTypes'
    <3>1. shell' \in [pid : {shell.pid}, hooked : SUBSET Sites] /\ readyFile' \in 0..MaxShells
      BY <2>1 DEF HotkeyTypes, HotkeyTypeOK
    <3>2. attempts' \in Nat
      BY <1>1, <2>1
    <3> QED BY <2>1, <2>2, <2>4, <3>1, <3>2, TypesKept DEF HotkeyTypes
  <2>6. KnowsPast' /\ LossesCounted'
    BY <2>1, <2>3 DEF KnowsPast, LossesCounted
  <2>7. NewsFirst'
    BY <2>1, <2>3 DEF NewsFirst, Injecting, Target
  <2>8. AttemptsCounted' /\ Restraint'
    BY <1>1, <2>1, <2>3 DEF AttemptsCounted, Restraint, Injecting
  <2> QED BY <2>5, <2>6, <2>7, <2>8
<1> QED BY <1>2, <1>3

\* The answer of a payload, or none.
LEMMA AnswerKeeps ==
  ASSUME HotkeyIInv, TakeAnswer \/ NoAnswer
  PROVE  HotkeyIInv'
<1> USE HotkeyAssumption DEF HotkeyIInv
<1>1. /\ hook.at = "await" /\ hook \in HookType /\ hook.attempt \in 0..MaxShells
      /\ UNCHANGED <<shell, payloads, watch, attempts>>
      /\ shell' \in [pid : {shell.pid}, hooked : SUBSET Sites]
      /\ readyFile \in 0..MaxShells
  BY DEF TakeAnswer, NoAnswer, HotkeyTypes, HotkeyTypeOK, HookType
<1>2. inbox' \in Seq(Messages) /\ readyFile' \in {readyFile, hook.attempt}
  <2>1. inbox \in Seq(Messages)
    BY DEF HotkeyTypes
  <2>2. inbox # <<>> => Tail(inbox) \in Seq(Messages)
    BY <2>1
  <2> QED BY <2>1, <2>2 DEF TakeAnswer, NoAnswer
<1>3. readyFile' \in 0..MaxShells
  BY <1>1, <1>2
<1>4. CASE TakeAnswer /\ Succeed(hook, Head(inbox).from)
  <2>0. Head(inbox).from \in Int
    <3>1. Head(inbox) \in Messages
      BY <1>4 DEF TakeAnswer, HotkeyTypes
    <3> QED BY <3>1 DEF Messages
  <2>1. hook' \in HookType /\ unanswered' = {} /\ Restraint' /\ Progress'
    BY <1>1, <1>4, <2>0, SucceedKeeps
  <2>2. HotkeyTypes'
    BY <1>1, <1>2, <1>3, <2>1, TypesKept DEF HotkeyTypes
  <2> QED BY <2>1, <2>2 DEF Progress
<1>5. CASE PayloadFailed(hook)
  <2>1. hook' \in HookType /\ unanswered' \in SUBSET (1..MaxShells) /\ Restraint' /\ Progress'
    BY <1>1, <1>5, PayloadFailedKeeps
  <2>2. HotkeyTypes'
    BY <1>1, <1>2, <1>3, <2>1, TypesKept DEF HotkeyTypes
  <2> QED BY <2>1, <2>2 DEF Progress
<1>6. CASE TakeAnswer /\ UNCHANGED unanswered
           /\ hook' = [hook EXCEPT !.at = "arm", !.request = [done |-> Head(inbox).done,
                                                              sites |-> Head(inbox).sites,
                                                              from |-> Head(inbox).from]]
  <2>0. Head(inbox) \in Messages
    BY <1>6 DEF TakeAnswer, HotkeyTypes
  <2>1. /\ Head(inbox).done \in SUBSET Sites /\ Head(inbox).sites \in SUBSET Sites
        /\ Head(inbox).from \in Int
    BY <2>0 DEF Messages
  <2>2. hook' \in HookType
    <3> DEFINE request == [done |-> Head(inbox).done, sites |-> Head(inbox).sites,
                           from |-> Head(inbox).from]
    <3>1. request \in [done : SUBSET Sites, sites : SUBSET Sites, from : Int]
      BY <2>1
    <3>2. hook' = [hook EXCEPT !.at = "arm", !.request = request]
      BY <1>6
    <3> HIDE DEF request
    <3> QED BY <1>1, <3>1, <3>2 DEF HookType
  <2>3. /\ hook'.at = "arm" /\ hook'.losses = hook.losses /\ hook'.hooked = hook.hooked
        /\ hook'.failed = hook.failed /\ hook'.attempt = hook.attempt /\ hook'.settle = hook.settle
        /\ hook'.ripe = hook.ripe /\ hook'.totalFails = hook.totalFails /\ hook'.loop = hook.loop
        /\ hook'.payloadFails = hook.payloadFails /\ hook'.gaveUp = hook.gaveUp
    BY <1>1, <1>6 DEF HookType
  <2>4. HotkeyTypes'
    BY <1>1, <1>2, <1>3, <1>6, <2>2, TypesKept DEF HotkeyTypes
  <2>5. KnowsPast' /\ LossesCounted'
    BY <1>1, <1>6, <2>3 DEF KnowsPast, LossesCounted
  <2>6. NewsFirst'
    BY <1>1, <2>3 DEF NewsFirst, Injecting, Target
  <2>7. AttemptsCounted' /\ Restraint'
    BY <1>1, <1>6, <2>3 DEF AttemptsCounted, Restraint, Injecting
  <2> QED BY <2>4, <2>5, <2>6, <2>7
<1> QED BY <1>4, <1>5, <1>6 DEF TakeAnswer, NoAnswer

\* Sites are armed in the shell the attempt was made at, if that still runs.
LEMMA ArmKeeps ==
  ASSUME HotkeyIInv, Arm
  PROVE  HotkeyIInv'
<1> USE HotkeyAssumption DEF HotkeyIInv
<1> DEFINE h == [hook EXCEPT !.request = NoHook.request]
<1>1. PICK wrote \in MayWrite(hook.attempt, hook.request) :
        /\ shell' = [shell EXCEPT !.hooked = @ \cup wrote]
        /\ IF Armed(wrote, hook.request) THEN Succeed(h, hook.request.from) ELSE Fail(h) /\ UNCHANGED unanswered
  BY DEF Arm
<1>2. /\ hook.at = "arm" /\ hook \in HookType
      /\ UNCHANGED <<payloads, inbox, readyFile, watch, attempts>>
  BY DEF Arm, HotkeyTypes
<1>3. hook.request \in [done : SUBSET Sites, sites : SUBSET Sites, from : Int]
  BY <1>2 DEF HookType
<1>4. wrote \in SUBSET Sites
  BY <1>3 DEF MayWrite
<1>5. shell' \in [pid : {shell.pid}, hooked : SUBSET Sites] /\ shell'.pid = shell.pid
  BY <1>1, <1>4 DEF HotkeyTypes, HotkeyTypeOK
<1> HIDE DEF h
<1>6. CASE Succeed(h, hook.request.from)
  <2>1. hook' \in HookType /\ unanswered' = {} /\ Restraint' /\ Progress'
    BY <1>2, <1>3, <1>5, <1>6, SucceedKeeps DEF h
  <2>2. HotkeyTypes'
    BY <1>2, <1>5, <2>1, TypesKept DEF HotkeyTypes, HotkeyTypeOK
  <2> QED BY <2>1, <2>2 DEF Progress
<1>7. CASE Fail(h) /\ UNCHANGED unanswered
  <2>1. hook' \in HookType /\ Restraint' /\ Progress'
    BY <1>2, <1>5, <1>7, FailKeeps DEF h, Injecting
  <2>2. HotkeyTypes'
    BY <1>2, <1>5, <1>7, <2>1, TypesKept DEF HotkeyTypes, HotkeyTypeOK
  <2> QED BY <2>1, <2>2 DEF Progress
<1> QED BY <1>1, <1>6, <1>7

\* What comes outside an injection: a late request may arm the shell that runs.
LEMMA ReceiveKeeps ==
  ASSUME HotkeyIInv, ReceiveOther \/ ReceiveRequest
  PROVE  HotkeyIInv'
<1> USE HotkeyAssumption DEF HotkeyIInv
<1>1. /\ hook.at = "receive" /\ hook \in HookType
      /\ UNCHANGED <<payloads, watch, unanswered, attempts>>
  BY DEF ReceiveOther, ReceiveRequest, HotkeyTypes
<1>2. inbox' \in Seq(Messages)
  <2>1. inbox \in Seq(Messages)
    BY DEF HotkeyTypes
  <2>2. inbox # <<>> => Tail(inbox) \in Seq(Messages)
    BY <2>1
  <2> QED BY <2>1, <2>2 DEF ReceiveOther, ReceiveRequest
<1>3. PICK hooked, word \in Int :
        /\ hook' = [hook EXCEPT !.at = "check", !.hooked = hooked, !.word = word]
        /\ hooked = hook.hooked \/ (hooked = shell.pid /\ shell.pid > 0)
  <2>0. shell.pid \in Int
    BY HookFields
  <2>1. CASE hook' = [hook EXCEPT !.at = "check"]
    <3>1. hook.hooked \in Int /\ hook.word \in Int
      BY <1>1 DEF HookType
    <3>2. [hook EXCEPT !.hooked = hook.hooked, !.word = hook.word] = hook
      BY <1>1 DEF HookType
    <3>3. hook' = [hook EXCEPT !.at = "check", !.hooked = hook.hooked, !.word = hook.word]
      <4>1. [hook EXCEPT !.at = "check", !.hooked = hook.hooked, !.word = hook.word]
              = [[hook EXCEPT !.hooked = hook.hooked, !.word = hook.word] EXCEPT !.at = "check"]
        BY <1>1 DEF HookType
      <4> QED BY <2>1, <3>2, <4>1
    <3> USE <3>1, <3>3
    <3> WITNESS hook.hooked \in Int, hook.word \in Int
    <3> QED OBVIOUS
  <2>2. CASE /\ shell.pid > 0 /\ inbox # <<>>
             /\ hook' = [hook EXCEPT !.at = "check", !.hooked = shell.pid, !.word = Head(inbox).from]
    <3>1. Head(inbox) \in Messages
      BY <2>2 DEF HotkeyTypes
    <3>2. Head(inbox).from \in Int
      BY <3>1 DEF Messages
    <3> USE <2>0, <2>2, <3>2
    <3> WITNESS shell.pid \in Int, Head(inbox).from \in Int
    <3> QED OBVIOUS
  <2> QED BY <2>1, <2>2 DEF ReceiveOther, ReceiveRequest
<1>4. shell' \in [pid : {shell.pid}, hooked : SUBSET Sites] /\ readyFile' \in 0..MaxShells
  <2>1. shell \in [pid : (-MaxShells)..MaxShells, hooked : SUBSET Sites] /\ readyFile \in 0..MaxShells
    BY DEF HotkeyTypes, HotkeyTypeOK
  <2>2. CASE UNCHANGED <<shell, readyFile>>
    BY <2>1, <2>2
  <2>3. CASE ReceiveRequest /\ ~UNCHANGED <<shell, readyFile>>
    <3>1. /\ shell.pid > 0 /\ inbox # <<>> /\ readyFile' \in {readyFile, shell.pid}
          /\ \E wrote \in MayWrite(shell.pid, Head(inbox)) :
               shell' = [shell EXCEPT !.hooked = @ \cup wrote]
      BY <2>3 DEF ReceiveRequest
    <3>2. Head(inbox) \in Messages
      BY <3>1 DEF HotkeyTypes
    <3>3. Head(inbox).sites \in SUBSET Sites
      BY <3>2 DEF Messages
    <3>4. shell.pid \in 0..MaxShells
      BY <2>1, <3>1
    <3> QED BY <2>1, <3>1, <3>3, <3>4 DEF MayWrite
  <2> QED BY <2>2, <2>3 DEF ReceiveOther
<1>5. hooked \in 0..MaxShells
  <2>1. hook.hooked \in 0..MaxShells /\ shell.pid \in (-MaxShells)..MaxShells
    BY DEF HotkeyTypes, HotkeyTypeOK
  <2> QED BY <1>3, <2>1
<1>6. hook' \in HookType
  BY <1>1, <1>3, <1>5 DEF HookType
<1>7. /\ hook'.at = "check" /\ hook'.losses = hook.losses /\ hook'.hooked = hooked
      /\ hook'.failed = hook.failed /\ hook'.attempt = hook.attempt /\ hook'.settle = hook.settle
      /\ hook'.ripe = hook.ripe /\ hook'.totalFails = hook.totalFails /\ hook'.loop = hook.loop
      /\ hook'.payloadFails = hook.payloadFails /\ hook'.gaveUp = hook.gaveUp
  BY <1>1, <1>3 DEF HookType
<1>8. shell'.pid = shell.pid
  BY <1>4
<1>9. HotkeyTypes'
  BY <1>1, <1>2, <1>4, <1>6, TypesKept DEF HotkeyTypes
<1>10. KnowsPast' /\ LossesCounted' /\ Restraint'
  BY <1>1, <1>7, <1>8 DEF KnowsPast, LossesCounted, Restraint
<1>11. NewsFirst'
  BY <1>1, <1>7, <1>8 DEF NewsFirst, Injecting, Target
<1>12. AttemptsCounted'
  BY <1>1, <1>3, <1>7, <1>8 DEF AttemptsCounted, Injecting
<1> QED BY <1>9, <1>10, <1>11, <1>12

LEMMA HotkeyCorrect == HotkeyInit /\ [][HotkeyNext]_hotkeyVars => []HotkeyIInv
<1>1. HotkeyIInv /\ [HotkeyNext]_hotkeyVars => HotkeyIInv'
  <2> SUFFICES ASSUME HotkeyIInv, [HotkeyNext]_hotkeyVars PROVE HotkeyIInv'
    OBVIOUS
  <2>1. CASE UNCHANGED hotkeyVars
    BY <2>1 DEF hotkeyVars, HotkeyIInv, HotkeyTypes, HotkeyTypeOK, Restraint, KnowsPast, NewsFirst,
       AttemptsCounted, LossesCounted, Injecting, Target
  <2>2. CASE HookThread
    BY <2>2, NothingKeeps, CheckKeeps, AttachKeeps, AnswerKeeps, ArmKeeps, ReceiveKeeps DEF HookThread
  <2> QED BY <2>1, <2>2, ShellSteps, WatcherSteps, PayloadSteps DEF HotkeyNext
<1> QED BY <1>1, HotkeyStart, PTL

\* A shell that cannot be hooked is left alone, for any limits and any number of
\* shells: neither the reset of the counters at a new image nor a late answer
\* lets the thread attach to one more often, or lose more of them.
THEOREM RestraintCorrect == HotkeyInit /\ [][HotkeyNext]_hotkeyVars => []Restraint
BY HotkeyCorrect, PTL DEF HotkeyIInv

----------------------------------------------------------------------------
(* All parts.                                                              *)

\* A step of one part is no step of another: each part sees only its own.
LEMMA HostPartsAlone ==
  Host => /\ Init /\ [][Next]_vars
          /\ HotkeyInit /\ [][HotkeyNext]_hotkeyVars
          /\ HttpInit /\ [][HttpNext]_httpVars
          /\ InjectionInit /\ [][InjectionNext]_injectionVars
<1>1. HostInit => Init /\ HotkeyInit /\ HttpInit /\ InjectionInit
  BY DEF HostInit
<1>2. [HostNext]_<<part, vars, hotkeyVars, httpVars, injectionVars>> =>
        /\ [Next]_vars /\ [HotkeyNext]_hotkeyVars
        /\ [HttpNext]_httpVars /\ [InjectionNext]_injectionVars
  BY DEF HostNext
<1> QED BY <1>1, <1>2, PTL DEF Host

\* Every variable of the patch engine, the hotkey hook, the HTTP server and the
\* injection keeps its type, whichever of them runs.
THEOREM HostTypeCorrect == Host => []HostTypeOK
<1>1. PatchIInv /\ HotkeyIInv /\ HttpIInv /\ InjectionIInv => HostTypeOK
  BY PatchIInvMeansTypeOK DEF HotkeyIInv, HotkeyTypes, HttpIInv, InjectionIInv, HostTypeOK
<1> QED
  BY <1>1, HostPartsAlone, PatchInvariant, HotkeyCorrect, HttpCorrect, InjectionCorrect, PTL

=============================================================================
