------------------------------ MODULE Injection ------------------------------
(***************************************************************************)
(* How the daemon runs code in another process: it raises its credentials, *)
(* stops the process, maps the payload, hijacks one thread to start it,    *)
(* puts the registers back and lets the process go.  Credentials belong to *)
(* the whole daemon, so one lock serialises everyone who raises them or    *)
(* depends on them; a window may hold it for the whole injection.  A       *)
(* watchdog is there to let the process go when a call does not return.    *)
(***************************************************************************)
EXTENDS Naturals

CONSTANT NoOne   \* not a thread

ASSUME InjectionAssumption == NoOne \notin {"injector", "watchdog", "other"}

VARIABLES
  ucred,      \* [lock, level]: who holds the lock, what the daemon may do
  caller,     \* per thread: outside or inside a call, and the credentials it saved
  inj,        \* the injecting thread
  dog,        \* its watchdog: none, waiting, expired, over
  process      \* the process: [traced, stopped, regs]

injectionVars == <<ucred, caller, inj, dog, process>>

Callers == {"injector", "watchdog", "other"}
Outside == [in |-> FALSE, saved |-> "own"]
NoInjection == [at |-> "idle", window |-> FALSE, backup |-> FALSE, ok |-> TRUE]

InjectionInit ==
  /\ ucred = [lock |-> NoOne, level |-> "own"]
  /\ caller = [t \in Callers |-> Outside]
  /\ inj = NoInjection
  /\ dog = "none"
  /\ process = [traced |-> FALSE, stopped |-> FALSE, regs |-> "own"]

-----------------------------------------------------------------------------
(* Credentials: sys_ptrace(), pt_batch_begin() and pt_batch_end(). *)

\* The lock, the credentials saved, the higher ones set.
Raise(t) ==
  /\ ucred.lock = NoOne
  /\ ucred' = [lock |-> t, level |-> "raised"]
  /\ caller' = [caller EXCEPT ![t] = [in |-> TRUE, saved |-> ucred.level]]

\* A credential could not be read or set: what was set is taken back.
RaiseFails(t) ==
  /\ ucred.lock = NoOne
  /\ UNCHANGED <<ucred, caller>>

Restore(t) ==
  /\ ucred' = [lock |-> NoOne, level |-> caller[t].saved]
  /\ caller' = [caller EXCEPT ![t] = Outside]

\* One call: inside the window as it is, else between Raise and Restore.
CallStarts(t) == ~caller[t].in /\ ~(t = "injector" /\ inj.window) /\ Raise(t)
CallEnds(t) ==
  IF t = "injector" /\ inj.window THEN UNCHANGED <<ucred, caller>>
                                  ELSE caller[t].in /\ Restore(t)

\* mdbg_io_copyin() and mdbg_io_copyout() of any other thread.
OtherLocks ==
  /\ ucred.lock = NoOne /\ ucred' = [ucred EXCEPT !.lock = "other"]
  /\ caller' = [caller EXCEPT !["other"] = [in |-> TRUE, saved |-> ucred.level]]
  /\ UNCHANGED <<inj, dog, process>>

OtherUnlocks ==
  /\ ucred.lock = "other" /\ ucred' = [ucred EXCEPT !.lock = NoOne]
  /\ caller' = [caller EXCEPT !["other"] = Outside]
  /\ UNCHANGED <<inj, dog, process>>

-----------------------------------------------------------------------------
(* The injection: inject_hook(), elfldr_exec() and elfldr_prepare_exec(). *)

GoTo(at) == inj' = [inj EXCEPT !.at = at]
Abort(at) == inj' = [inj EXCEPT !.at = at, !.ok = FALSE]

\* pt_batch_begin(); without a window every call goes on its own.
OpenWindow ==
  /\ inj.at = "idle"
  /\ \/ Raise("injector") /\ inj' = [NoInjection EXCEPT !.at = "attach", !.window = TRUE]
     \/ RaiseFails("injector") /\ inj' = [NoInjection EXCEPT !.at = "attach"]
  /\ UNCHANGED <<dog, process>>

\* Every ptrace request outside the window is a call of its own.
InjectorCalls ==
  /\ inj.at \in {"attach", "load", "stub", "save", "hijack", "run", "restore", "detach"}
  /\ CallStarts("injector")
  /\ UNCHANGED <<inj, dog, process>>

Inside == inj.window \/ caller["injector"].in

\* PT_ATTACH is refused, or the process does not stop in time and is detached.
AttachRefused ==
  /\ inj.at = "attach" /\ Inside /\ CallEnds("injector") /\ Abort("close")
  /\ UNCHANGED <<dog, process>>

\* It does not stop in time and the detach fails too: it stays stopped, as the
\* log says, and this shell is left to the user.
LeaveStopped ==
  /\ inj.at = "attach" /\ Inside /\ Restore("injector")
  /\ inj' = [NoInjection EXCEPT !.at = "left", !.ok = FALSE]
  /\ process' = [process EXCEPT !.traced = TRUE, !.stopped = TRUE]
  /\ UNCHANGED dog

NextShell ==
  /\ inj.at = "left" /\ inj' = NoInjection
  /\ process' = [traced |-> FALSE, stopped |-> FALSE, regs |-> "own"]
  /\ UNCHANGED <<ucred, caller, dog>>

Attach ==
  /\ inj.at = "attach" /\ Inside /\ CallEnds("injector") /\ GoTo("load")
  /\ process' = [process EXCEPT !.traced = TRUE, !.stopped = TRUE]
  /\ UNCHANGED <<dog>>

\* elfldr_load(), elfldr_payload_args() and the search for pthread_create.
\* Memory that was mapped is unmapped when the copy or a protection fails.
Load ==
  /\ inj.at = "load" /\ Inside /\ CallEnds("injector")
  /\ GoTo("watch") \/ Abort("detach")
  /\ UNCHANGED <<dog, process>>

\* The watchdog is started, if there is a thread for it.
StartWatchdog ==
  /\ inj.at = "watch" /\ GoTo("stub")
  /\ dog' \in {"none", "waiting"}
  /\ UNCHANGED <<ucred, caller, process>>

\* Mutant of PrepareStub: an early return that does not detach.
PrepareStubReturns ==
  /\ inj.at = "stub" /\ Inside /\ CallEnds("injector")
  /\ (process.traced /\ GoTo("save")) \/ Abort("close")
  /\ UNCHANGED <<dog, process>>

\* The stub's stack, its code, the thread to hijack: nothing is changed yet.
PrepareStub ==
  /\ inj.at = "stub" /\ Inside /\ CallEnds("injector")
  /\ (process.traced /\ GoTo("save")) \/ Abort("join")
  /\ UNCHANGED <<dog, process>>

SaveRegisters ==
  /\ inj.at = "save" /\ Inside /\ CallEnds("injector")
  /\ \/ process.traced /\ inj' = [inj EXCEPT !.at = "hijack", !.backup = TRUE]
     \/ Abort("join")
  /\ UNCHANGED <<dog, process>>

Hijack ==
  /\ inj.at = "hijack" /\ Inside /\ CallEnds("injector")
  /\ \/ process.traced /\ process' = [process EXCEPT !.regs = "stub"] /\ GoTo("run")
     \/ Abort("join") /\ UNCHANGED process
  /\ UNCHANGED <<dog>>

Continue ==
  /\ inj.at = "run" /\ Inside /\ CallEnds("injector")
  /\ \/ process.traced /\ process' = [process EXCEPT !.stopped = FALSE] /\ GoTo("wait")
     \/ Abort("join") /\ UNCHANGED process
  /\ UNCHANGED <<dog>>

\* The stub reaches its breakpoint, stops elsewhere, the process is gone, or
\* the time is over: then it is stopped, or left as it is without a backup.
StubEnds ==
  /\ inj.at = "wait"
  /\ \/ process' = [process EXCEPT !.stopped = process.traced] /\ (GoTo("join") \/ Abort("join"))
     \/ UNCHANGED process /\ inj' = [inj EXCEPT !.at = "join", !.ok = FALSE, !.backup = FALSE]
  /\ UNCHANGED <<ucred, caller, dog>>

\* The remote calls that map memory wait for the process without a limit: one
\* does not return, or late.  In a window the lock is held meanwhile.
Stuck == [load |-> "load_stuck", stub |-> "stub_stuck"]
Waits(at) == inj.at = at /\ (inj.window \/ ~caller["injector"].in)
CallHangs ==
  /\ \E at \in DOMAIN Stuck : Waits(at) /\ GoTo(Stuck[at])
  /\ UNCHANGED <<ucred, caller, dog, process>>

CallReturns ==
  /\ \E at \in DOMAIN Stuck : inj.at = Stuck[at] /\ GoTo(at)
  /\ UNCHANGED <<ucred, caller, dog, process>>

\* The flag is up before the join: a watchdog that has not expired goes home, one
\* that has is waited for.
JoinWatchdog ==
  /\ inj.at = "join" /\ dog \in {"none", "waiting", "over"} /\ dog' = "none"
  /\ GoTo(IF inj.backup THEN "restore" ELSE "detach")
  /\ UNCHANGED <<ucred, caller, process>>

RestoreRegisters ==
  /\ inj.at = "restore" /\ Inside /\ CallEnds("injector") /\ GoTo("detach")
  /\ process' = IF process.traced THEN [process EXCEPT !.regs = "own"] ELSE process
  /\ UNCHANGED <<dog>>

LetItGo == process' = [process EXCEPT !.traced = FALSE, !.stopped = FALSE]

\* Mutant of Detach: success is reported although there was nothing to detach.
DetachBlindly ==
  /\ inj.at = "detach" /\ Inside /\ CallEnds("injector") /\ LetItGo
  /\ GoTo("close") /\ UNCHANGED <<dog>>

\* An error if the watchdog was there first.
Detach ==
  /\ inj.at = "detach" /\ Inside /\ CallEnds("injector") /\ LetItGo
  /\ inj' = [inj EXCEPT !.at = "close", !.ok = @ /\ process.traced]
  /\ UNCHANGED <<dog>>

CloseWindow ==
  /\ inj.at = "close" /\ inj' = NoInjection
  /\ IF inj.window THEN Restore("injector") ELSE UNCHANGED <<ucred, caller>>
  /\ process' = [process EXCEPT !.regs = "own"]   \* the next injection finds another shell
  /\ UNCHANGED <<dog>>

-----------------------------------------------------------------------------
(* elfldr_hang_watchdog(). *)

\* Its time is over before the flag is up; pt_detach() is a call like any other.
Expire ==
  /\ dog = "waiting" /\ inj.at # "join" /\ dog' = "expired"
  /\ UNCHANGED <<ucred, caller, inj, process>>

WatchdogCalls ==
  /\ dog = "expired" /\ CallStarts("watchdog")
  /\ UNCHANGED <<inj, dog, process>>

WatchdogDetaches ==
  /\ dog = "expired" /\ caller["watchdog"].in /\ CallEnds("watchdog") /\ dog' = "over" /\ LetItGo
  /\ UNCHANGED <<inj>>

Injector ==
  \/ OpenWindow \/ InjectorCalls \/ AttachRefused \/ LeaveStopped \/ Attach \/ Load \/ StartWatchdog
  \/ PrepareStub \/ SaveRegisters \/ Hijack \/ Continue \/ StubEnds \/ JoinWatchdog
  \/ RestoreRegisters \/ Detach \/ CloseWindow
ExecWatchdog == Expire \/ WatchdogCalls \/ WatchdogDetaches
InjectionNext ==
  Injector \/ CallHangs \/ CallReturns \/ NextShell \/ ExecWatchdog \/ OtherLocks \/ OtherUnlocks

\* Scheduled fairly are the two threads and the other's unlock; of those that wait
\* for the lock again and again, not only the others get it (a strong fairness).
TakesLock == OpenWindow \/ InjectorCalls \/ WatchdogCalls

InjectionSpec ==
  /\ InjectionInit /\ [][InjectionNext]_injectionVars
  /\ WF_injectionVars(Injector) /\ WF_injectionVars(ExecWatchdog)
  /\ WF_injectionVars(OtherUnlocks) /\ SF_injectionVars(TakesLock)

-----------------------------------------------------------------------------
Places ==
  {"idle", "attach", "load", "load_stuck", "watch", "stub", "stub_stuck", "save", "hijack",
   "run", "wait", "join", "restore", "detach", "close", "left"}

\* The types of the credentials, the threads and the process.
InjectionTypeOK ==
  /\ ucred \in [lock : Callers \cup {NoOne}, level : {"own", "raised"}]
  /\ caller \in [Callers -> [in : BOOLEAN, saved : {"own", "raised"}]]
  /\ dog \in {"none", "waiting", "expired", "over"}
  /\ process \in [traced : BOOLEAN, stopped : BOOLEAN, regs : {"own", "stub"}]
  /\ inj \in [at : Places, window : BOOLEAN, backup : BOOLEAN, ok : BOOLEAN]

\* Credentials are raised only by the thread with the lock, and every thread
\* inside has saved the daemon's own, so that they are back whoever leaves last.
CredentialsKept ==
  /\ ucred.lock \in {NoOne, "other"} => ucred.level = "own"
  /\ \A t \in Callers : caller[t].saved = "own"
  /\ \A t \in Callers : caller[t].in => ucred.lock = t

\* When an injection reports success the process runs on, with the registers
\* it was stopped with, although the watchdog may let it go at any moment.
RegistersBack ==
  inj.at = "close" /\ inj.ok => process = [traced |-> FALSE, stopped |-> FALSE, regs |-> "own"]

\* An injection leaves nothing behind: neither the daemon's credentials nor the
\* process's registers, whichever of its threads comes last.
TargetRestored == CredentialsKept /\ RegistersBack

\* What may keep the process stopped: a call that hangs where no watchdog is, a
\* watchdog whose pt_detach() waits for the lock of the injector's own window,
\* and an attach that could neither be completed nor taken back.
Unguarded ==
  \/ inj.at = "load_stuck"
  \/ inj.at = "stub_stuck" /\ dog = "none"
  \/ inj.window /\ dog = "expired"
  \/ inj.at = "left"

\* A process that was stopped is let go, whatever fails and however late: only
\* the cases of Unguarded keep it (elfldr_exec() and inject_hook()).
LetGo == process.stopped ~> (~process.stopped \/ Unguarded)

\* A watchdog that has expired lets the process go, "so it doesn't stay stopped"
\* (elfldr.c:406).  It does not in a window, which inject_hook() opens whenever
\* it can: the watchdog waits for the lock, and the injector for the watchdog.
WatchdogLetsGo == dog = "expired" ~> ~process.stopped
=============================================================================
