------------------------------- MODULE Launch -------------------------------
(***************************************************************************)
(* Launching a title (handle_launch() of cr_api_launch.c, the worker and   *)
(* g_launch_status of cr_launch.c): requests that find no launch busy begin *)
(* one, its worker closes the current game, asks two launch services in    *)
(* turn and waits for the title.  Meanwhile the watchdog, run by every      *)
(* request, may give a launch up, and the game monitor may find the title. *)
(* Each launch has a generation; only the newest may report.               *)
(***************************************************************************)
EXTENDS Integers

CONSTANTS
  Handlers,     \* threads of HTTP clients
  Titles, NoTitle,
  KillCurrent,  \* launch_kill_current
  MaxGen,       \* bound: how many launches are begun
  MaxApp        \* bound: how many apps are started

ASSUME LaunchAssumption ==
  /\ NoTitle \notin Titles
  /\ KillCurrent \in BOOLEAN
  /\ MaxGen \in Nat /\ MaxApp \in Nat

Gens == 1..MaxGen
NoApp == [id |-> 0, title |-> NoTitle]
Apps == {NoApp} \cup [id : 1..MaxApp, title : Titles]

VARIABLES
  big,       \* the running app
  started,   \* how many apps have been started
  seen,      \* g_running
  status,    \* g_launch_status
  old,       \* started_ms is past the watchdog's threshold
  handler,   \* where each request is, with its locals
  worker,    \* where the worker of each launch is, with its locals
  appeared   \* history: the launches whose title has run since they began

vars == <<big, started, seen, status, old, handler, worker, appeared>>

Phases == {"idle", "progress", "ready", "failed", "timeout"}
Idle == [pc |-> "idle", gen |-> 0, saw |-> NoTitle]
NoWorker == [pc |-> "none", title |-> NoTitle, cur |-> 0, lnc |-> "none", sys |-> "none",
             verdict |-> "none"]

\* What a launch service returns: 0, a positive number, 0x80940005, which may
\* mean that the title is on its way, or another error.
Replies == {"zero", "positive", "later", "refused"}

Names == Titles \cup {NoTitle}
Status == [busy : BOOLEAN, phase : Phases, title : Names, verified : BOOLEAN, gen : 0..MaxGen]
HandlerStates ==
  [pc : {"idle", "look", "settle", "check", "begin", "create"}, gen : 0..MaxGen, saw : Names]
WorkerStates ==
  [pc : {"none", "look", "live", "close", "closing", "submit", "verify", "final", "grace",
         "report", "done"},
   title : Names, cur : 0..MaxApp, lnc : Replies \cup {"none"}, sys : Replies \cup {"none"},
   verdict : {"none", "ready", "unverified", "failed"}]

\* Also that a launch is busy exactly while it is in one of the busy phases.
TypeOK ==
  /\ big \in Apps /\ started \in 0..MaxApp /\ seen \in Apps
  /\ status \in Status /\ (status.busy <=> status.phase = "progress")
  /\ old \in BOOLEAN
  /\ handler \in [Handlers -> HandlerStates]
  /\ worker \in [Gens -> WorkerStates]
  /\ appeared \subseteq Gens

Init ==
  /\ big = NoApp /\ started = 0 /\ seen = NoApp
  /\ status = [busy |-> FALSE, phase |-> "idle", title |-> NoTitle, verified |-> FALSE, gen |-> 0]
  /\ old = FALSE
  /\ handler = [h \in Handlers |-> Idle]
  /\ worker = [g \in Gens |-> NoWorker]
  /\ appeared = {}

\* set_launch_status_locked().
Told(s, phase, title, verified) ==
  [s EXCEPT !.busy = (phase = "progress"), !.phase = phase, !.title = title, !.verified = verified]

\* Mutant of TellGen: any launch may report.
TellAny(g, phase, verified) ==
  status' = Told(status, phase, worker[g].title, verified)

\* set_launch_status_ex_gen(): only the newest launch reports.
TellGen(g, phase, verified) ==
  status' = IF status.gen = g THEN Told(status, phase, worker[g].title, verified) ELSE status

\* launch_status_recover_for_game(): a launch that was given up, or failed, is
\* ready after all when its title starts.
Recovered(s, title) ==
  IF ~s.busy /\ s.title = title /\ s.phase \in {"timeout", "failed"}
  THEN Told(s, "ready", title, FALSE) ELSE s

----------------------------------------------------------------------------
(* The console and the game monitor.                                       *)

\* By the user or by a launch service, which may take its time, whether or not
\* it reported an error.
AppStarts ==
  /\ started < MaxApp
  /\ started' = started + 1
  /\ \E title \in Titles :
       /\ big' = [id |-> started + 1, title |-> title]
       /\ appeared' = appeared \cup {g \in Gens : worker[g].title = title}
  /\ UNCHANGED <<seen, status, old, handler, worker>>

\* It is killed by a worker, quits or crashes.
AppEnds ==
  /\ big # NoApp
  /\ big' = NoApp
  /\ UNCHANGED <<started, seen, status, old, handler, worker, appeared>>

\* rpc_refresh_title_and_notify(), as far as launches are concerned.
Refresh ==
  /\ seen' = big
  /\ status' = IF big # NoApp /\ big.title # seen.title THEN Recovered(status, big.title) ELSE status

MonitorPolls ==
  /\ seen # big
  /\ Refresh
  /\ UNCHANGED <<big, started, old, handler, worker, appeared>>

\* The threshold, 45 seconds at least, is longer than a worker takes to start
\* and look for a game that already runs.
Age ==
  /\ status.busy /\ ~old
  /\ worker[status.gen].pc \notin {"none", "look", "live"}
  /\ old' = TRUE
  /\ UNCHANGED <<big, started, seen, status, handler, worker, appeared>>

----------------------------------------------------------------------------
(* Requests: handle_launch() and handle_api_launch_status().               *)

Checking == [Idle EXCEPT !.pc = "check"]

\* launch_status_recover_stale(): the first look at the status,
Watch(h) ==
  /\ handler[h].pc = "idle"
  /\ handler' = [handler EXCEPT ![h] = IF status.busy /\ old
                                       THEN [@ EXCEPT !.pc = "look", !.gen = status.gen]
                                       ELSE Checking]
  /\ UNCHANGED <<big, started, seen, status, old, worker, appeared>>

\* the look at the running game,
LookAtGame(h) ==
  /\ handler[h].pc = "look"
  /\ handler' = [handler EXCEPT ![h].pc = "settle", ![h].saw = seen.title]
  /\ UNCHANGED <<big, started, seen, status, old, worker, appeared>>

\* The title that was saved with the first look is still the status's: it stays
\* while the same launch is busy.
Settled(h) == IF handler[h].saw = status.title
              THEN Told(status, "ready", status.title, TRUE)
              ELSE Told(status, "timeout", status.title, FALSE)

\* Mutant of Settle: the status is not looked at again.
SettleBlindly(h) ==
  /\ handler[h].pc = "settle"
  /\ status' = Settled(h)
  /\ handler' = [handler EXCEPT ![h] = Checking]
  /\ UNCHANGED <<big, started, seen, old, worker, appeared>>

\* and the verdict, unless the launch has ended or a newer one has begun.  The
\* generation stays: the worker that was given up goes on and may still report.
Settle(h) ==
  /\ handler[h].pc = "settle"
  /\ status' = IF status.busy /\ status.gen = handler[h].gen THEN Settled(h) ELSE status
  /\ handler' = [handler EXCEPT ![h] = Checking]
  /\ UNCHANGED <<big, started, seen, old, worker, appeared>>

\* A request for the status ends here.  One for a launch goes on unless one is
\* busy; the lock is released before its launch begins, so several can pass.
Check(h) ==
  /\ handler[h].pc = "check"
  /\ \/ handler' = [handler EXCEPT ![h] = Idle]
     \/ ~status.busy /\ handler' = [handler EXCEPT ![h].pc = "begin"]
  /\ UNCHANGED <<big, started, seen, status, old, worker, appeared>>

\* There is no memory for the worker's request.
NoMemory(h) ==
  /\ handler[h].pc = "begin"
  /\ handler' = [handler EXCEPT ![h] = Idle]
  /\ UNCHANGED <<big, started, seen, status, old, worker, appeared>>

\* launch_begin_ex().
Begin(h) ==
  /\ handler[h].pc = "begin" /\ status.gen < MaxGen
  /\ \E title \in Titles :
       LET gen == status.gen + 1
       IN  /\ status' = [Told(status, "progress", title, FALSE) EXCEPT !.gen = gen]
           /\ worker' = [worker EXCEPT ![gen] = [NoWorker EXCEPT !.title = title]]
           /\ handler' = [handler EXCEPT ![h].pc = "create", ![h].gen = gen]
           /\ appeared' = IF big.title = title THEN appeared \cup {gen} ELSE appeared
  /\ old' = FALSE
  /\ UNCHANGED <<big, started, seen>>

\* A thread that cannot be created is reported whatever the generation.
Create(h) ==
  /\ handler[h].pc = "create"
  /\ LET gen == handler[h].gen
     IN  \/ /\ worker' = [worker EXCEPT ![gen].pc = "look"]
            /\ UNCHANGED status
         \/ /\ worker' = [worker EXCEPT ![gen].pc = "done"]
            /\ status' = Told(status, "failed", worker[gen].title, status.verified)
  /\ handler' = [handler EXCEPT ![h] = Idle]
  /\ UNCHANGED <<big, started, seen, old, appeared>>

Serve(h) ==
  LookAtGame(h) \/ Settle(h) \/ Check(h) \/ NoMemory(h) \/ Begin(h) \/ Create(h)

----------------------------------------------------------------------------
(* launch_worker_thread() and launch_title().                              *)

At(g, pc) == worker[g].pc = pc
Goto(g, pc) == worker' = [worker EXCEPT ![g].pc = pc]
Ending(g, verdict) ==
  worker' = [worker EXCEPT ![g] = [NoWorker EXCEPT !.pc = "report", !.title = worker[g].title,
                                                   !.verdict = verdict]]
console == <<big, started, old, handler, appeared>>

Look(g) ==
  /\ At(g, "look")
  /\ TellGen(g, "progress", FALSE)
  /\ worker' = [worker EXCEPT ![g].pc = IF seen.title = worker[g].title THEN "live" ELSE "close",
                              ![g].cur = IF seen.title = worker[g].title THEN seen.id ELSE 0]
  /\ UNCHANGED <<console, seen>>

\* Mutant of Live: the monitor's word is taken for it.
LiveCached(g) ==
  /\ At(g, "live")
  /\ Ending(g, "ready")
  /\ UNCHANGED <<console, seen, status>>

\* The monitor may be behind: the title runs only if its app is still the one.
Live(g) ==
  /\ At(g, "live")
  /\ IF big # NoApp /\ big.id = worker[g].cur
     THEN Ending(g, "ready") /\ UNCHANGED <<seen, status>>
     ELSE /\ Refresh
          /\ worker' = [worker EXCEPT ![g].pc = "close", ![g].cur = 0]
  /\ UNCHANGED console

\* What runs is killed, if that is configured.
Close(g) ==
  /\ At(g, "close")
  /\ IF KillCurrent /\ big # NoApp
     THEN Goto(g, "closing") /\ TellGen(g, "progress", FALSE)
     ELSE Goto(g, "submit") /\ UNCHANGED status
  /\ UNCHANGED <<console, seen>>

\* wait_until_no_bigapp(): every wait may be over before it is successful.
Closing(g) ==
  /\ At(g, "closing")
  /\ \/ big = NoApp /\ Goto(g, "submit")
     \/ Ending(g, "failed")
  /\ UNCHANGED <<console, seen, status>>

\* The first service, then the second, each waited for unless it refused.  It is
\* not looked at whether the second returned 0 or a positive number.
Submit(g) ==
  /\ At(g, "submit")
  /\ TellGen(g, "progress", FALSE)
  /\ \/ /\ worker[g].lnc = "none"
        /\ \E reply \in Replies :
             worker' = [worker EXCEPT ![g].lnc = reply,
                                      ![g].pc = IF reply = "refused" THEN "submit" ELSE "verify"]
     \/ /\ worker[g].lnc # "none"
        /\ \/ \E reply \in {"positive", "later"} :
                worker' = [worker EXCEPT ![g].sys = reply, ![g].pc = "verify"]
           \/ Ending(g, "failed")
  /\ UNCHANGED <<console, seen>>

Runs(g) == big.title = worker[g].title

\* What launch_title() returns when neither service has brought the title up: an
\* error of the second, or else what the first returned, which may be 0.
GiveUp(g) ==
  IF worker[g].sys # "later" /\ worker[g].lnc = "zero" THEN Ending(g, "unverified")
  ELSE Ending(g, "failed")

Verify(g) ==
  /\ At(g, "verify")
  /\ \/ Runs(g) /\ Ending(g, "ready")
     \/ worker[g].sys = "none" /\ Goto(g, "submit")
     \/ /\ worker[g].sys # "none"
        /\ IF worker[g].lnc = "later" /\ worker[g].sys = "later" THEN Goto(g, "final") ELSE GiveUp(g)
  /\ UNCHANGED <<console, seen, status>>

\* Both services said 0x80940005: one more wait,
Final(g) ==
  /\ At(g, "final")
  /\ (Runs(g) /\ Ending(g, "ready")) \/ Goto(g, "grace")
  /\ UNCHANGED <<console, seen, status>>

\* and one for the monitor to see the title.
Grace(g) ==
  /\ At(g, "grace")
  /\ (seen.title = worker[g].title /\ Ending(g, "ready")) \/ Ending(g, "failed")
  /\ UNCHANGED <<console, seen, status>>

Phase(verdict) == IF verdict = "failed" THEN "failed" ELSE "ready"

\* Mutant of Report: the launch stays busy.
ReportBusy(g) ==
  /\ At(g, "report")
  /\ status' = IF status.gen = g THEN [status EXCEPT !.phase = Phase(worker[g].verdict)] ELSE status
  /\ worker' = [worker EXCEPT ![g].pc = "done", ![g].verdict = "none"]
  /\ UNCHANGED <<console, seen>>

Report(g) ==
  /\ At(g, "report")
  /\ TellGen(g, Phase(worker[g].verdict), worker[g].verdict = "ready")
  /\ worker' = [worker EXCEPT ![g].pc = "done", ![g].verdict = "none"]
  /\ UNCHANGED <<console, seen>>

Work(g) ==
  \/ Look(g) \/ Live(g) \/ Close(g) \/ Closing(g) \/ Submit(g)
  \/ Verify(g) \/ Final(g) \/ Grace(g) \/ Report(g)

Next ==
  \/ AppStarts \/ AppEnds \/ MonitorPolls \/ Age
  \/ \E h \in Handlers : Watch(h) \/ Serve(h)
  \/ \E g \in Gens : Work(g)

Spec == Init /\ [][Next]_vars

----------------------------------------------------------------------------
(* Properties.                                                             *)

\* A launch that is busy is shown with the title of the newest launch, however
\* many older workers still report (CHANGELOG.md:216, "a stale, slow-to-complete
\* launch attempt can no longer overwrite the status of a newer one").  Once it
\* is no longer busy the title may be another's: see Create.
BusyNewest == status.busy => status.title = worker[status.gen].title

\* A launch is verified only if its title has run since it began: neither an
\* outdated g_running nor the report of another launch counts.
VerifiedRan == status.verified => status.gen \in appeared

\* A launch whose worker is done is ready or failed: it is not busy for ever, and
\* no watchdog that was late has called it timed out.  A failed launch whose
\* title runs is shown as ready (handle_api_launch_status()), one that timed out
\* is not, so that verdict must not last.
NewestDone ==
  status.gen > 0 /\ worker[status.gen].pc = "done" => status.phase \in {"ready", "failed"}

\* A title that is shown as ready has run since a launch of it began; the web
\* interface says "Game launched." then (web/app.js:472).
ReadyRan ==
  status.phase = "ready" => \E g \in appeared : worker[g].title = status.title
=============================================================================
