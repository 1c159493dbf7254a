---------------------------- MODULE LaunchProofs ----------------------------
(***************************************************************************)
(* Type correctness of Launch and the invariant behind BusyNewest,         *)
(* VerifiedRan and NewestDone, for any number of requests and launches.    *)
(***************************************************************************)
EXTENDS Launch, TLAPS

----------------------------------------------------------------------------
(* The invariant.                                                          *)

\* The worker has looked for a game that already ran.
Past(g) == worker[g].pc \notin {"none", "look", "live"}

\* It is still at work after that look.
Looked(g) == worker[g].pc \notin {"none", "look", "live", "done"}

Begun ==
  /\ status.busy => status.gen > 0
  /\ \A g \in Gens : g <= status.gen => worker[g].title \in Titles
  /\ \A g \in Gens : g > status.gen => worker[g].pc = "none" /\ worker[g].title = NoTitle

\* The requests that create a worker have a launch each, whose worker is not there.
Creating ==
  /\ \A h \in Handlers : handler[h].pc = "create"
       => /\ handler[h].gen \in Gens /\ handler[h].gen <= status.gen
          /\ worker[handler[h].gen].pc = "none"
  /\ \A h, i \in Handlers : handler[h].pc = "create" /\ handler[i].pc = "create"
                            /\ handler[h].gen = handler[i].gen => h = i

\* The watchdog is after a launch that has come past its first look.
Watching ==
  /\ old => status.gen \in Gens /\ Past(status.gen)
  /\ \A h \in Handlers : handler[h].pc \in {"look", "settle"}
       => handler[h].gen \in Gens /\ handler[h].gen <= status.gen /\ Past(handler[h].gen)

\* What runs, and what is known to run once a worker has looked, has run since.
RanSince ==
  /\ \A g \in Gens : worker[g].title # NoTitle /\ big.title = worker[g].title => g \in appeared
  /\ \A g \in Gens : Looked(g) /\ seen.title = worker[g].title => g \in appeared
  /\ \A h \in Handlers : handler[h].pc = "settle" /\ worker[handler[h].gen].pc # "done"
                         /\ handler[h].saw = worker[handler[h].gen].title
       => handler[h].gen \in appeared

\* An identifier belongs to one app.
OneApp ==
  /\ big.id <= started /\ seen.id <= started
  /\ big.id = seen.id => big = seen
  /\ \A g \in Gens : worker[g].pc = "live"
       => /\ worker[g].cur \in 1..started
          /\ big.id = worker[g].cur => big.title = worker[g].title

Verdicts ==
  \A g \in Gens : worker[g].pc = "report"
    => /\ worker[g].verdict \in {"ready", "unverified", "failed"}
       /\ worker[g].verdict = "ready" => g \in appeared

IInv ==
  /\ TypeOK /\ Begun /\ Creating /\ Watching /\ RanSince /\ OneApp /\ Verdicts
  /\ BusyNewest /\ VerifiedRan /\ NewestDone

----------------------------------------------------------------------------
(* What the operators on the status do.                                    *)

LEMMA ToldFacts ==
  ASSUME NEW s \in Status, NEW phase \in Phases, NEW title \in Names, NEW verified \in BOOLEAN
  PROVE  LET t == Told(s, phase, title, verified)
         IN  /\ t \in Status
             /\ t.busy <=> phase = "progress"
             /\ t.phase = phase /\ t.title = title /\ (t.verified <=> verified) /\ t.gen = s.gen
BY DEF Told, Status

LEMMA TellFacts ==
  ASSUME TypeOK, NEW g \in Gens, NEW phase \in Phases, NEW verified \in BOOLEAN,
         TellGen(g, phase, verified)
  PROVE  /\ status' \in Status /\ status'.gen = status.gen
         /\ status'.busy <=> status'.phase = "progress"
         /\ status.gen = g => /\ status'.phase = phase /\ status'.title = worker[g].title
                              /\ status'.verified <=> verified
         /\ status.gen # g => status' = status
<1>1. worker[g].title \in Names
  BY DEF TypeOK, WorkerStates
<1>2. CASE status.gen = g
  <2>1. status' = Told(status, phase, worker[g].title, verified)
    BY <1>2 DEF TellGen
  <2> QED BY <1>1, <1>2, <2>1, ToldFacts DEF TypeOK
<1>3. CASE status.gen # g
  BY <1>3 DEF TellGen, TypeOK
<1> QED BY <1>2, <1>3

LEMMA RecoveredFacts ==
  ASSUME NEW s \in Status, NEW title \in Names, s.busy <=> s.phase = "progress"
  PROVE  LET t == Recovered(s, title)
         IN  /\ t \in Status
             /\ t.busy <=> t.phase = "progress"
             /\ t.gen = s.gen /\ t.title = s.title /\ (t.busy <=> s.busy)
             /\ t.verified => s.verified
             /\ t.phase = s.phase \/ t.phase = "ready"
<1>1. "ready" \in Phases /\ FALSE \in BOOLEAN
  BY DEF Phases
<1>2. s \in Status => s.busy \in BOOLEAN
  BY DEF Status
<1>3. CASE ~s.busy /\ s.title = title /\ s.phase \in {"timeout", "failed"}
  <2>1. Recovered(s, title) = Told(s, "ready", title, FALSE)
    BY <1>3 DEF Recovered
  <2> DEFINE t == Told(s, "ready", title, FALSE)
  <2>2. /\ t \in Status
        /\ t.busy <=> "ready" = "progress"
        /\ t.phase = "ready" /\ t.title = title /\ ~t.verified /\ t.gen = s.gen
    BY <1>1 DEF Told, Status
  <2> HIDE DEF t
  <2>3. t.phase # "progress" /\ ~t.busy
    BY <2>2
  <2> QED BY <1>3, <2>1, <2>2, <2>3 DEF t
<1>4. CASE ~(~s.busy /\ s.title = title /\ s.phase \in {"timeout", "failed"})
  BY <1>4 DEF Recovered
<1> QED BY <1>3, <1>4

LEMMA RefreshFacts ==
  ASSUME TypeOK, Refresh
  PROVE  /\ seen' = big /\ status' \in Status
         /\ status'.busy <=> status'.phase = "progress"
         /\ status'.gen = status.gen /\ status'.title = status.title /\ (status'.busy <=> status.busy)
         /\ status'.verified => status.verified
         /\ status'.phase = status.phase \/ status'.phase = "ready"
<1>1. big.title \in Names
  BY DEF TypeOK, Apps, NoApp, Names
<1>2. CASE big # NoApp /\ big.title # seen.title
  BY <1>1, <1>2, RecoveredFacts DEF Refresh, TypeOK
<1>3. CASE ~(big # NoApp /\ big.title # seen.title)
  BY <1>3 DEF Refresh, TypeOK
<1> QED BY <1>2, <1>3

----------------------------------------------------------------------------
(* What a step of a worker does to its record and to the status.           *)

Verdict == {"ready", "unverified", "failed"}

\* The record of launch g becomes w.
Advances(g, w) ==
  /\ w \in WorkerStates /\ worker' = [worker EXCEPT ![g] = w]
  /\ w.title = worker[g].title
  /\ worker[g].pc \notin {"none", "done"} /\ w.pc \notin {"none", "look"}
  /\ Past(g) => w.pc # "live"
  /\ w.pc = "live" => worker[g].pc = "look" /\ w.cur = seen.id /\ seen.title = w.title
  /\ ~Looked(g) /\ w.pc # "live" => g \in appeared \/ seen'.title # w.title
  /\ w.pc = "report" => w.verdict \in Verdict /\ (w.verdict = "ready" => g \in appeared)
  /\ w.pc = "done" /\ status.gen = g => status'.phase \in {"ready", "failed"}

\* The status stays as it is, or says what the launch g may say.
Reports(g) ==
  /\ status' \in Status /\ (status'.busy <=> status'.phase = "progress")
  /\ status'.gen = status.gen
  /\ status'.busy => status.gen = g \/ status.busy
  /\ status'.busy => status'.title = worker[status.gen].title
  /\ status'.verified => status.gen \in appeared
  /\ status.gen # g => status'.phase = status.phase \/ status'.phase = "ready"

Console == UNCHANGED <<big, started, old, handler, appeared>>

Worked(g) ==
  /\ Console /\ seen' \in {seen, big}
  /\ Reports(g)
  /\ \E w \in WorkerStates : Advances(g, w)

LEMMA EndingFacts ==
  ASSUME TypeOK, NEW g \in Gens, NEW verdict \in Verdict, Ending(g, verdict),
         worker[g].pc \notin {"none", "done"},
         verdict = "ready" => g \in appeared,
         Looked(g) \/ verdict = "ready"
  PROVE  \E w \in WorkerStates : Advances(g, w)
<1> DEFINE w == [NoWorker EXCEPT !.pc = "report", !.title = worker[g].title, !.verdict = verdict]
<1>1. worker[g].title \in Names
  BY DEF TypeOK, WorkerStates
<1>2. w \in WorkerStates /\ w.pc = "report" /\ w.title = worker[g].title /\ w.verdict = verdict
  <2>1. 0 \in 0..MaxApp
    BY LaunchAssumption
  <2> QED BY <1>1, <2>1 DEF NoWorker, WorkerStates, Verdict, Replies
<1>3. worker' = [worker EXCEPT ![g] = w]
  BY DEF Ending
<1> HIDE DEF w
<1>4. Advances(g, w)
  BY <1>2, <1>3 DEF Advances
<1> QED BY <1>2, <1>4

LEMMA ProgressFacts ==
  ASSUME TypeOK, NEW g \in Gens, TellGen(g, "progress", FALSE), BusyNewest, VerifiedRan
  PROVE  Reports(g)
<1>1. worker[g].title \in Names /\ "progress" \in Phases
  BY DEF TypeOK, WorkerStates, Phases
<1>2. CASE status.gen = g
  <2>1. status' = Told(status, "progress", worker[g].title, FALSE)
    BY <1>2 DEF TellGen
  <2>2. /\ status' \in Status /\ status'.phase = "progress" /\ status'.busy /\ ~status'.verified
        /\ status'.gen = status.gen /\ status'.title = worker[g].title
    BY <1>1, <2>1 DEF Told, Status, TypeOK
  <2> QED BY <1>2, <2>2 DEF Reports
<1>3. CASE status.gen # g
  <2>1. status' = status
    BY <1>3 DEF TellGen
  <2> QED BY <1>3, <2>1 DEF Reports, TypeOK, BusyNewest, VerifiedRan
<1> QED BY <1>2, <1>3

LEMMA SilentFacts ==
  ASSUME TypeOK, NEW g \in Gens, status' = status, BusyNewest, VerifiedRan
  PROVE  Reports(g)
BY DEF Reports, TypeOK, BusyNewest, VerifiedRan

LEMMA LookFacts ==
  ASSUME IInv, NEW g \in Gens, Look(g)
  PROVE  Worked(g)
<1> DEFINE live == seen.title = worker[g].title
           w == [worker[g] EXCEPT !.pc = IF live THEN "live" ELSE "close",
                                  !.cur = IF live THEN seen.id ELSE 0]
<1>1. worker[g] \in WorkerStates /\ seen.id \in 0..MaxApp /\ worker[g].pc = "look"
  BY LaunchAssumption DEF IInv, TypeOK, Apps, NoApp, Look, At
<1>2. /\ w \in WorkerStates /\ w.title = worker[g].title
      /\ live => w.pc = "live" /\ w.cur = seen.id
      /\ ~live => w.pc = "close"
  <2>1. 0 \in 0..MaxApp
    BY LaunchAssumption
  <2>2. CASE live
    <3>1. w = [worker[g] EXCEPT !.pc = "live", !.cur = seen.id]
      BY <2>2
    <3> QED BY <1>1, <2>2, <3>1 DEF WorkerStates
  <2>3. CASE ~live
    <3>1. w = [worker[g] EXCEPT !.pc = "close", !.cur = 0]
      BY <2>3
    <3> QED BY <1>1, <2>1, <2>3, <3>1 DEF WorkerStates
  <2> QED BY <2>2, <2>3
<1>3. worker' = [worker EXCEPT ![g] = w]
  BY DEF Look, IInv, TypeOK
<1>4. Reports(g)
  BY ProgressFacts DEF Look, IInv
<1>5. seen' = seen /\ Console
  BY DEF Look, Console, console
<1> HIDE DEF w
<1>6. Advances(g, w)
  BY <1>1, <1>2, <1>3, <1>5 DEF Advances, Past, Looked
<1> QED BY <1>2, <1>4, <1>5, <1>6 DEF Worked

LEMMA LiveFacts ==
  ASSUME IInv, NEW g \in Gens, Live(g)
  PROVE  Worked(g)
<1>1. worker[g] \in WorkerStates /\ worker[g].pc = "live"
  BY DEF IInv, TypeOK, Live, At
<1>2. CASE big # NoApp /\ big.id = worker[g].cur
  <2>1. Ending(g, "ready") /\ seen' = seen /\ status' = status /\ Console
    BY <1>2 DEF Live, Console, console
  <2>2. worker[g].title \in Titles
    BY <1>1 DEF IInv, Begun, TypeOK, Gens, Status
  <2>3. g \in appeared
    BY <1>1, <1>2, <2>2, LaunchAssumption DEF IInv, OneApp, RanSince
  <2>4. \E w \in WorkerStates : Advances(g, w)
    BY <1>1, <2>1, <2>3, EndingFacts DEF IInv, Verdict
  <2> QED BY <2>1, <2>4, SilentFacts DEF Worked, IInv
<1>3. CASE ~(big # NoApp /\ big.id = worker[g].cur)
  <2> DEFINE w == [worker[g] EXCEPT !.pc = "close", !.cur = 0]
  <2>0. 0 \in 0..MaxApp
    BY LaunchAssumption
  <2>1. w \in WorkerStates /\ w.title = worker[g].title /\ w.pc = "close"
    BY <1>1, <2>0 DEF WorkerStates
  <2>2. Refresh /\ Console /\ worker' = [worker EXCEPT ![g] = w]
    BY <1>3 DEF Live, Console, console, IInv, TypeOK
  <2>3. /\ seen' = big /\ status' \in Status
        /\ status'.busy <=> status'.phase = "progress"
        /\ status'.gen = status.gen /\ status'.title = status.title
        /\ status'.busy <=> status.busy
        /\ status'.verified => status.verified
        /\ status'.phase = status.phase \/ status'.phase = "ready"
    BY <2>2, RefreshFacts DEF IInv
  <2>4. Reports(g)
    BY <2>3 DEF Reports, IInv, BusyNewest, VerifiedRan
  <2>5. worker[g].title \in Titles
    BY <1>1 DEF IInv, Begun, TypeOK, Gens, Status
  <2>6. g \in appeared \/ seen'.title # w.title
    BY <2>1, <2>3, <2>5, LaunchAssumption DEF IInv, RanSince
  <2> HIDE DEF w
  <2>7. Advances(g, w)
    BY <1>1, <2>1, <2>2, <2>6 DEF Advances, Past
  <2> QED BY <2>1, <2>2, <2>3, <2>4, <2>7 DEF Worked
<1> QED BY <1>2, <1>3

LEMMA GotoFacts ==
  ASSUME TypeOK, NEW g \in Gens, Looked(g), NEW w,
         \/ w = [worker[g] EXCEPT !.pc = "closing"]
         \/ w = [worker[g] EXCEPT !.pc = "submit"]
         \/ w = [worker[g] EXCEPT !.pc = "final"]
         \/ w = [worker[g] EXCEPT !.pc = "grace"]
         \/ \E reply \in Replies : w = [worker[g] EXCEPT !.lnc = reply, !.pc = "submit"]
         \/ \E reply \in Replies : w = [worker[g] EXCEPT !.lnc = reply, !.pc = "verify"]
         \/ \E reply \in Replies : w = [worker[g] EXCEPT !.sys = reply, !.pc = "verify"],
         worker' = [worker EXCEPT ![g] = w]
  PROVE  \E v \in WorkerStates : Advances(g, v)
<1>1. worker[g] \in WorkerStates
  BY DEF TypeOK
<1>2. /\ w \in WorkerStates /\ w.title = worker[g].title
      /\ w.pc \in {"closing", "submit", "final", "grace", "verify"}
  BY <1>1 DEF WorkerStates
<1>3. Advances(g, w)
  BY <1>2 DEF Advances, Looked
<1> QED BY <1>2, <1>3

\* What a worker that has looked knows of its title.
LEMMA LookedFacts ==
  ASSUME IInv, NEW g \in Gens, Looked(g)
  PROVE  /\ worker[g].title \in Titles
         /\ Runs(g) => g \in appeared
         /\ seen.title = worker[g].title => g \in appeared
<1>1. worker[g].title \in Titles
  BY DEF IInv, Begun, Looked, TypeOK, Gens, Status
<1> QED BY <1>1, LaunchAssumption DEF IInv, RanSince, Runs

LEMMA CloseFacts ==
  ASSUME IInv, NEW g \in Gens, Close(g)
  PROVE  Worked(g)
<1>1. Looked(g) /\ TypeOK /\ BusyNewest /\ VerifiedRan
  BY DEF IInv, Close, At, Looked
<1>2. Console /\ seen' = seen
  BY DEF Close, Console, console
<1>3. Reports(g)
  BY <1>1, ProgressFacts, SilentFacts DEF Close
<1>4. \E v \in WorkerStates : Advances(g, v)
  BY <1>1, GotoFacts DEF Close, Goto, TypeOK
<1> QED BY <1>2, <1>3, <1>4 DEF Worked

LEMMA ClosingFacts ==
  ASSUME IInv, NEW g \in Gens, Closing(g)
  PROVE  Worked(g)
<1>1. Looked(g) /\ TypeOK /\ BusyNewest /\ VerifiedRan
  BY DEF IInv, Closing, At, Looked
<1>2. Console /\ seen' = seen /\ status' = status
  BY DEF Closing, Console, console
<1>3. CASE Goto(g, "submit")
  <2>1. \E v \in WorkerStates : Advances(g, v)
    BY <1>1, <1>3, GotoFacts DEF Goto, TypeOK
  <2> QED BY <1>1, <1>2, <2>1, SilentFacts DEF Worked
<1>4. CASE Ending(g, "failed")
  <2>1. \E v \in WorkerStates : Advances(g, v)
    BY <1>1, <1>4, EndingFacts DEF Verdict, Looked
  <2> QED BY <1>1, <1>2, <2>1, SilentFacts DEF Worked
<1> QED BY <1>3, <1>4 DEF Closing

LEMMA SubmitFacts ==
  ASSUME IInv, NEW g \in Gens, Submit(g)
  PROVE  Worked(g)
<1>1. Looked(g) /\ TypeOK /\ BusyNewest /\ VerifiedRan
  BY DEF IInv, Submit, At, Looked
<1>2. Console /\ seen' = seen
  BY DEF Submit, Console, console
<1>3. Reports(g)
  BY <1>1, ProgressFacts DEF Submit
<1>4. CASE Ending(g, "failed")
  <2>1. \E v \in WorkerStates : Advances(g, v)
    BY <1>1, <1>4, EndingFacts DEF Verdict, Looked
  <2> QED BY <1>2, <1>3, <2>1 DEF Worked
<1>5. ASSUME NEW reply \in Replies,
             \/ worker' = [worker EXCEPT ![g].lnc = reply,
                                         ![g].pc = IF reply = "refused" THEN "submit" ELSE "verify"]
             \/ worker' = [worker EXCEPT ![g].sys = reply, ![g].pc = "verify"]
      PROVE  Worked(g)
  <2>1. \E v \in WorkerStates : Advances(g, v)
    BY <1>1, <1>5, GotoFacts DEF TypeOK
  <2> QED BY <1>2, <1>3, <2>1 DEF Worked
<1>6. {"positive", "later"} \subseteq Replies
  BY DEF Replies
<1> QED BY <1>4, <1>5, <1>6 DEF Submit

LEMMA VerifyFacts ==
  ASSUME IInv, NEW g \in Gens, Verify(g) \/ Final(g) \/ Grace(g)
  PROVE  Worked(g)
<1>1. Looked(g) /\ TypeOK /\ BusyNewest /\ VerifiedRan
  BY DEF IInv, Verify, Final, Grace, At, Looked
<1>2. Console /\ seen' = seen /\ status' = status
  BY DEF Verify, Final, Grace, Console, console
<1>3. CASE Ending(g, "ready") /\ (Runs(g) \/ seen.title = worker[g].title)
  <2>1. g \in appeared
    BY <1>1, <1>3, LookedFacts
  <2>2. \E v \in WorkerStates : Advances(g, v)
    BY <1>1, <1>3, <2>1, EndingFacts DEF Verdict, Looked
  <2> QED BY <1>1, <1>2, <2>2, SilentFacts DEF Worked
<1>4. CASE Ending(g, "failed") \/ Ending(g, "unverified")
  <2>1. \E v \in WorkerStates : Advances(g, v)
    BY <1>1, <1>4, EndingFacts DEF Verdict, Looked
  <2> QED BY <1>1, <1>2, <2>1, SilentFacts DEF Worked
<1>5. CASE Goto(g, "submit") \/ Goto(g, "final") \/ Goto(g, "grace")
  <2>1. \E v \in WorkerStates : Advances(g, v)
    BY <1>1, <1>5, GotoFacts DEF Goto, TypeOK
  <2> QED BY <1>1, <1>2, <2>1, SilentFacts DEF Worked
<1> QED BY <1>3, <1>4, <1>5 DEF Verify, Final, Grace, GiveUp

LEMMA ReportFacts ==
  ASSUME IInv, NEW g \in Gens, Report(g)
  PROVE  Worked(g)
<1> DEFINE w == [worker[g] EXCEPT !.pc = "done", !.verdict = "none"]
           phase == Phase(worker[g].verdict)
           ready == worker[g].verdict = "ready"
<1>1. /\ worker[g] \in WorkerStates /\ worker[g].pc = "report" /\ worker[g].title \in Names
      /\ Looked(g)
  BY DEF IInv, TypeOK, Report, At, WorkerStates, Looked
<1>2. w \in WorkerStates /\ w.title = worker[g].title /\ w.pc = "done"
  BY <1>1 DEF WorkerStates
<1>3. worker' = [worker EXCEPT ![g] = w] /\ Console /\ seen' = seen
  BY DEF Report, IInv, TypeOK, Console, console
<1>4. phase \in {"ready", "failed"} /\ phase \in Phases /\ ready \in BOOLEAN
  BY DEF Phase, Phases
<1>5. ready => g \in appeared
  BY <1>1 DEF IInv, Verdicts
<1> HIDE DEF w, phase, ready
<1>6. TellGen(g, phase, ready)
  BY DEF Report, phase, ready
<1>7. /\ status' \in Status /\ status'.gen = status.gen
      /\ status'.busy <=> status'.phase = "progress"
      /\ status.gen = g => /\ status'.phase = phase /\ status'.title = worker[g].title
                           /\ status'.verified <=> ready
      /\ status.gen # g => status' = status
  BY <1>4, <1>6, TellFacts DEF IInv
<1>8. Reports(g)
  BY <1>4, <1>5, <1>7 DEF Reports, IInv, BusyNewest, VerifiedRan
<1>9. Advances(g, w)
  BY <1>1, <1>2, <1>3, <1>4, <1>7 DEF Advances
<1> QED BY <1>2, <1>3, <1>8, <1>9 DEF Worked

----------------------------------------------------------------------------
(* The invariant.                                                          *)

LEMMA InitHolds == ASSUME Init PROVE IInv
<1>1. NoTitle \in Names /\ 0 \in 0..MaxGen /\ 0 \in 0..MaxApp
  BY LaunchAssumption DEF Names
<1>2. status \in Status /\ ~status.busy /\ ~status.verified /\ status.gen = 0 /\ status.phase = "idle"
  BY <1>1 DEF Init, Status, Phases
<1>3. Idle \in HandlerStates /\ Idle.pc = "idle"
  BY <1>1 DEF Idle, HandlerStates
<1>4. NoWorker \in WorkerStates /\ NoWorker.pc = "none" /\ NoWorker.title = NoTitle
  BY <1>1 DEF NoWorker, WorkerStates, Replies
<1>5. TypeOK
  <2>1. handler \in [Handlers -> HandlerStates] /\ worker \in [Gens -> WorkerStates]
    BY <1>3, <1>4 DEF Init
  <2> QED BY <1>1, <1>2, <2>1 DEF Init, TypeOK, Apps
<1>6. \A g \in Gens : worker[g] = NoWorker
  BY DEF Init
<1>7. \A h \in Handlers : handler[h] = Idle
  BY DEF Init
<1>8. Begun
  BY <1>2, <1>4, <1>6, LaunchAssumption DEF Begun, Gens
<1>9. Creating /\ Watching /\ Verdicts
  BY <1>3, <1>4, <1>6, <1>7 DEF Creating, Watching, Verdicts, Init
<1>10. RanSince
  BY <1>3, <1>4, <1>6, <1>7 DEF RanSince, Looked, Init, NoApp
<1>11. OneApp
  BY <1>4, <1>6 DEF OneApp, Init, NoApp
<1>12. BusyNewest /\ VerifiedRan /\ NewestDone
  BY <1>2 DEF BusyNewest, VerifiedRan, NewestDone
<1> QED BY <1>5, <1>8, <1>9, <1>10, <1>11, <1>12 DEF IInv

LEMMA WorkKeeps ==
  ASSUME IInv, NEW g \in Gens, Worked(g)
  PROVE  IInv'
<1>1. PICK w \in WorkerStates : Advances(g, w)
  BY DEF Worked
<1>2. /\ big' = big /\ started' = started /\ old' = old /\ handler' = handler
      /\ appeared' = appeared /\ seen' \in {seen, big} /\ Reports(g)
  BY DEF Worked, Console
<1>3. /\ worker \in [Gens -> WorkerStates] /\ worker' = [worker EXCEPT ![g] = w]
      /\ worker'[g] = w /\ \A k \in Gens : k # g => worker'[k] = worker[k]
  BY <1>1 DEF Advances, IInv, TypeOK
<1>4. \A k \in Gens : worker'[k].title = worker[k].title
  BY <1>1, <1>3 DEF Advances
<1>5. worker[g].pc # "none" /\ w.pc # "none" /\ g <= status.gen
  BY <1>1 DEF Advances, IInv, Begun, TypeOK, Gens, Status
<1>6. \A k \in Gens : /\ worker'[k].pc = "none" <=> worker[k].pc = "none"
                      /\ Past(k) => Past(k)'
                      /\ worker'[k].pc # "done" => worker[k].pc # "done"
  BY <1>1, <1>3, <1>5 DEF Advances, Past
<1>7. TypeOK'
  BY <1>2, <1>3 DEF IInv, TypeOK, Reports
<1>8. Begun'
  BY <1>2, <1>4, <1>6 DEF IInv, Begun, Reports, Gens, TypeOK, Status
<1>9. Creating'
  BY <1>2, <1>6 DEF IInv, Creating, Reports
<1>10. Watching'
  BY <1>2, <1>6 DEF IInv, Watching, Reports
<1>11. RanSince'
  <2>1. \A k \in Gens : worker'[k].title # NoTitle /\ big'.title = worker'[k].title => k \in appeared'
    BY <1>2, <1>4 DEF IInv, RanSince
  <2>2. ASSUME NEW k \in Gens, Looked(k)', seen'.title = worker'[k].title
        PROVE  k \in appeared
    <3>1. CASE ~Looked(k)
      BY <1>1, <1>3, <1>4, <2>2, <3>1 DEF Advances, Looked
    <3>2. CASE Looked(k) /\ seen' = seen
      BY <1>4, <2>2, <3>2 DEF IInv, RanSince
    <3>3. CASE Looked(k) /\ seen' = big
      <4>1. worker[k].title \in Titles
        BY <3>3, LookedFacts
      <4> QED BY <1>4, <2>2, <3>3, <4>1, LaunchAssumption DEF IInv, RanSince
    <3> QED BY <1>2, <3>1, <3>2, <3>3
  <2>3. ASSUME NEW h \in Handlers, handler'[h].pc = "settle", worker'[handler'[h].gen].pc # "done",
               handler'[h].saw = worker'[handler'[h].gen].title
        PROVE  handler'[h].gen \in appeared'
    BY <1>2, <1>4, <1>6, <2>3 DEF IInv, RanSince, Watching
  <2> QED BY <1>2, <2>1, <2>2, <2>3 DEF RanSince
<1>12. OneApp'
  <2>1. big'.id <= started' /\ seen'.id <= started' /\ (big'.id = seen'.id => big' = seen')
    BY <1>2 DEF IInv, OneApp
  <2>2. ASSUME NEW k \in Gens, worker'[k].pc = "live"
        PROVE  /\ worker'[k].cur \in 1..started'
               /\ big'.id = worker'[k].cur => big'.title = worker'[k].title
    <3>1. CASE k # g
      BY <1>2, <1>3, <2>2, <3>1 DEF IInv, OneApp
    <3>2. CASE k = g
      <4>1. w.cur = seen.id /\ seen.title = w.title /\ w.title = worker[g].title
        BY <1>1, <1>3, <2>2, <3>2 DEF Advances
      <4>2. w.title \in Titles
        BY <1>5, <4>1 DEF IInv, Begun
      <4>3. seen.id \in 1..started
        <5>1. seen # NoApp
          BY <4>1, <4>2, LaunchAssumption DEF NoApp
        <5> QED BY <5>1, LaunchAssumption DEF IInv, TypeOK, Apps, OneApp
      <4> QED BY <1>2, <1>3, <3>2, <4>1, <4>3 DEF IInv, OneApp
    <3> QED BY <3>1, <3>2
  <2> QED BY <2>1, <2>2 DEF OneApp
<1>13. Verdicts'
  BY <1>1, <1>2, <1>3 DEF Advances, Verdict, IInv, Verdicts
<1>14. BusyNewest' /\ VerifiedRan'
  <2>1. status'.busy => status.gen \in Gens
    BY <1>2, LaunchAssumption DEF IInv, Begun, Reports, TypeOK, Status, Gens
  <2> QED BY <1>2, <1>4, <2>1 DEF Reports, BusyNewest, VerifiedRan
<1>15. NewestDone'
  <2>1. SUFFICES ASSUME status.gen \in Gens, worker'[status.gen].pc = "done"
                 PROVE  status'.phase \in {"ready", "failed"}
    BY <1>2, LaunchAssumption DEF NewestDone, Reports, IInv, TypeOK, Status, Gens
  <2>2. CASE status.gen = g
    BY <1>1, <1>3, <2>1, <2>2 DEF Advances
  <2>3. CASE status.gen # g
    BY <1>2, <1>3, <2>1, <2>3 DEF Reports, IInv, NewestDone, Gens
  <2> QED BY <2>2, <2>3
<1> QED BY <1>7, <1>8, <1>9, <1>10, <1>11, <1>12, <1>13, <1>14, <1>15 DEF IInv

LEMMA AppStartsKeeps == ASSUME IInv, AppStarts PROVE IInv'
<1>1. PICK title \in Titles :
        /\ big' = [id |-> started + 1, title |-> title]
        /\ appeared' = appeared \cup {g \in Gens : worker[g].title = title}
  BY DEF AppStarts
<1>2. /\ started < MaxApp /\ started' = started + 1
      /\ UNCHANGED <<seen, status, old, handler, worker>>
  BY DEF AppStarts
<1>3. big'.id = started + 1 /\ big'.title = title
  BY <1>1
<1>4. started \in Nat /\ started' \in 1..MaxApp /\ seen.id \in Nat
  BY <1>2, LaunchAssumption DEF IInv, TypeOK, Apps, NoApp
<1>5. TypeOK'
  BY <1>1, <1>2, <1>4 DEF IInv, TypeOK, Apps
<1>6. Begun' /\ Creating' /\ Watching' /\ BusyNewest' /\ NewestDone'
  BY <1>2 DEF IInv, Begun, Creating, Watching, Past, BusyNewest, NewestDone
<1>7. RanSince'
  BY <1>1, <1>2, <1>3 DEF IInv, RanSince, Looked
<1>8. OneApp'
  BY <1>2, <1>3, <1>4 DEF IInv, OneApp
<1>9. Verdicts' /\ VerifiedRan'
  BY <1>1, <1>2 DEF IInv, Verdicts, VerifiedRan
<1> QED BY <1>5, <1>6, <1>7, <1>8, <1>9 DEF IInv

LEMMA AppEndsKeeps == ASSUME IInv, AppEnds PROVE IInv'
<1>1. big' = NoApp /\ UNCHANGED <<started, seen, status, old, handler, worker, appeared>>
  BY DEF AppEnds
<1>2. big'.id = 0 /\ big'.title = NoTitle
  BY <1>1 DEF NoApp
<1>3. TypeOK'
  BY <1>1 DEF IInv, TypeOK, Apps
<1>4. Begun' /\ Creating' /\ Watching' /\ BusyNewest' /\ NewestDone' /\ Verdicts' /\ VerifiedRan'
  BY <1>1 DEF IInv, Begun, Creating, Watching, Past, BusyNewest, NewestDone, Verdicts, VerifiedRan
<1>5. RanSince'
  BY <1>1, <1>2 DEF IInv, RanSince, Looked
<1>6. OneApp'
  <2>1. seen.id = 0 => seen = NoApp
    BY DEF IInv, TypeOK, Apps
  <2>2. started \in Nat
    BY LaunchAssumption DEF IInv, TypeOK
  <2> QED BY <1>1, <1>2, <2>1, <2>2 DEF IInv, OneApp
<1> QED BY <1>3, <1>4, <1>5, <1>6 DEF IInv

LEMMA MonitorPollsKeeps == ASSUME IInv, MonitorPolls PROVE IInv'
<1>1. UNCHANGED <<big, started, old, handler, worker, appeared>>
  BY DEF MonitorPolls
<1>2. /\ seen' = big /\ status' \in Status
      /\ status'.busy <=> status'.phase = "progress"
      /\ status'.gen = status.gen /\ status'.title = status.title
      /\ status'.busy <=> status.busy
      /\ status'.verified => status.verified
      /\ status'.phase = status.phase \/ status'.phase = "ready"
  BY RefreshFacts DEF MonitorPolls, IInv
<1>3. TypeOK'
  BY <1>1, <1>2 DEF IInv, TypeOK
<1>4. Begun' /\ Creating' /\ Watching' /\ BusyNewest' /\ NewestDone' /\ Verdicts' /\ VerifiedRan'
  BY <1>1, <1>2 DEF IInv, Begun, Creating, Watching, Past, BusyNewest, NewestDone, Verdicts, VerifiedRan
<1>5. RanSince'
  <2>1. \A g \in Gens : Looked(g) => worker[g].title \in Titles
    BY LookedFacts
  <2> QED BY <1>1, <1>2, <2>1, LaunchAssumption DEF IInv, RanSince, Looked
<1>6. OneApp'
  BY <1>1, <1>2 DEF IInv, OneApp
<1> QED BY <1>3, <1>4, <1>5, <1>6 DEF IInv

LEMMA AgeKeeps == ASSUME IInv, Age PROVE IInv'
<1>1. /\ status.busy /\ Past(status.gen) /\ old' = TRUE
      /\ UNCHANGED <<big, started, seen, status, handler, worker, appeared>>
  BY DEF Age, Past
<1>2. status.gen \in Gens
  BY <1>1, LaunchAssumption DEF IInv, TypeOK, Begun, Status, Gens
<1> QED BY <1>1, <1>2 DEF IInv, TypeOK, Begun, Creating, Watching, Past, BusyNewest, NewestDone,
                          Verdicts, VerifiedRan, RanSince, Looked, OneApp

\* A request moves on; the status stays true of the launch it is about.
LEMMA RequestKeeps ==
  ASSUME IInv, NEW h \in Handlers, NEW r \in HandlerStates,
         handler' = [handler EXCEPT ![h] = r], r.pc # "create",
         r.pc \in {"look", "settle"} => r.gen \in Gens /\ r.gen <= status.gen /\ Past(r.gen),
         r.pc = "settle" /\ worker[r.gen].pc # "done" /\ r.saw = worker[r.gen].title
           => r.gen \in appeared,
         UNCHANGED <<big, started, seen, old, worker, appeared>>,
         status' \in Status, status'.busy <=> status'.phase = "progress",
         status'.gen = status.gen, status'.busy => status.busy /\ status'.title = status.title,
         status'.verified => status.gen \in appeared,
         status.gen \in Gens /\ worker[status.gen].pc = "done" => status'.phase \in {"ready", "failed"}
  PROVE  IInv'
<1>1. handler'[h] = r /\ \A i \in Handlers : i # h => handler'[i] = handler[i]
  BY DEF IInv, TypeOK
<1>2. TypeOK'
  BY DEF IInv, TypeOK
<1>3. Begun' /\ BusyNewest' /\ Verdicts' /\ VerifiedRan' /\ OneApp'
  BY DEF IInv, Begun, BusyNewest, Verdicts, VerifiedRan, OneApp
<1>4. NewestDone'
  BY LaunchAssumption DEF IInv, TypeOK, Status, Gens, NewestDone
<1>5. Creating'
  BY <1>1 DEF IInv, Creating
<1>6. Watching'
  BY <1>1 DEF IInv, Watching, Past
<1>7. RanSince'
  BY <1>1 DEF IInv, RanSince, Looked
<1> QED BY <1>2, <1>3, <1>4, <1>5, <1>6, <1>7 DEF IInv

\* What the invariant says of the status, in the form RequestKeeps takes it.
LEMMA StatusFacts ==
  ASSUME IInv
  PROVE  /\ status \in Status /\ (status.busy <=> status.phase = "progress")
         /\ status.busy => status.gen \in Gens
         /\ status.verified => status.gen \in appeared
         /\ status.gen \in Gens /\ worker[status.gen].pc = "done" => status.phase \in {"ready", "failed"}
         /\ Idle \in HandlerStates /\ Idle.pc = "idle"
         /\ Checking \in HandlerStates /\ Checking.pc = "check"
<1>1. Idle \in HandlerStates /\ Idle.pc = "idle" /\ Checking \in HandlerStates /\ Checking.pc = "check"
  <2>1. NoTitle \in Names /\ 0 \in 0..MaxGen
    BY LaunchAssumption DEF Names
  <2> QED BY <2>1 DEF Idle, Checking, HandlerStates
<1> QED BY <1>1, LaunchAssumption DEF IInv, TypeOK, Begun, Status, Gens, VerifiedRan, NewestDone

LEMMA WatchKeeps == ASSUME IInv, NEW h \in Handlers, Watch(h) PROVE IInv'
<1>1. UNCHANGED <<big, started, seen, status, old, worker, appeared>>
  BY DEF Watch
<1>2. CASE status.busy /\ old
  <2> DEFINE r == [handler[h] EXCEPT !.pc = "look", !.gen = status.gen]
  <2>1. handler' = [handler EXCEPT ![h] = r]
    BY <1>2 DEF Watch, IInv, TypeOK
  <2>2. handler[h] \in HandlerStates /\ status.gen \in 0..MaxGen
    BY DEF IInv, TypeOK, Status
  <2>3. r \in HandlerStates /\ r.pc = "look" /\ r.gen = status.gen
    BY <2>2 DEF HandlerStates
  <2>4. status.gen \in Gens /\ Past(status.gen) /\ status.gen <= status.gen
    BY <1>2, LaunchAssumption DEF IInv, Watching, Gens
  <2> HIDE DEF r
  <2> QED BY <1>1, <2>1, <2>3, <2>4, RequestKeeps, StatusFacts
<1>3. CASE ~(status.busy /\ old)
  <2>1. handler' = [handler EXCEPT ![h] = Checking]
    BY <1>3 DEF Watch
  <2> QED BY <1>1, <2>1, RequestKeeps, StatusFacts
<1> QED BY <1>2, <1>3

LEMMA LookAtGameKeeps == ASSUME IInv, NEW h \in Handlers, LookAtGame(h) PROVE IInv'
<1> DEFINE r == [handler[h] EXCEPT !.pc = "settle", !.saw = seen.title]
<1>1. UNCHANGED <<big, started, seen, status, old, worker, appeared>>
  BY DEF LookAtGame
<1>2. handler[h] \in HandlerStates /\ seen.title \in Names /\ handler[h].pc = "look"
  BY DEF IInv, TypeOK, Apps, NoApp, Names, LookAtGame
<1>3. /\ r \in HandlerStates /\ r.pc = "settle" /\ r.saw = seen.title /\ r.gen = handler[h].gen
      /\ handler' = [handler EXCEPT ![h] = r]
  BY <1>2 DEF HandlerStates, LookAtGame, IInv, TypeOK
<1>4. r.gen \in Gens /\ r.gen <= status.gen /\ Past(r.gen)
  BY <1>2, <1>3 DEF IInv, Watching
<1>5. worker[r.gen].pc # "done" /\ r.saw = worker[r.gen].title => r.gen \in appeared
  BY <1>3, <1>4, LookedFacts DEF Past, Looked
<1> HIDE DEF r
<1> QED BY <1>1, <1>3, <1>4, <1>5, RequestKeeps, StatusFacts

LEMMA SettleKeeps == ASSUME IInv, NEW h \in Handlers, Settle(h) PROVE IInv'
<1>1. /\ handler' = [handler EXCEPT ![h] = Checking]
      /\ UNCHANGED <<big, started, seen, old, worker, appeared>>
  BY DEF Settle
<1>2. CASE ~(status.busy /\ status.gen = handler[h].gen)
  <2>1. status' = status
    BY <1>2 DEF Settle
  <2> QED BY <1>1, <2>1, RequestKeeps, StatusFacts
<1>3. CASE status.busy /\ status.gen = handler[h].gen
  <2>1. status.gen \in Gens /\ status.phase = "progress" /\ worker[status.gen].pc # "done"
    BY <1>3, StatusFacts
  <2>2. status.title = worker[status.gen].title /\ handler[h].pc = "settle" /\ status.title \in Names
    BY <1>3 DEF IInv, BusyNewest, Settle, TypeOK, Status
  <2>3. handler[h].saw = status.title => status.gen \in appeared
    BY <1>3, <2>1, <2>2 DEF IInv, RanSince
  <2>4. status' = Settled(h)
    BY <1>3 DEF Settle
  <2>5. /\ status' \in Status /\ status'.gen = status.gen /\ status'.phase # "progress" /\ ~status'.busy
        /\ status'.verified => status.gen \in appeared
    <3>1. CASE handler[h].saw = status.title
      <4>1. status' = Told(status, "ready", status.title, TRUE)
        BY <2>4, <3>1 DEF Settled
      <4> QED BY <2>2, <2>3, <3>1, <4>1, StatusFacts DEF Told, Status, Phases
    <3>2. CASE handler[h].saw # status.title
      <4>1. status' = Told(status, "timeout", status.title, FALSE)
        BY <2>4, <3>2 DEF Settled
      <4> QED BY <2>2, <4>1, StatusFacts DEF Told, Status, Phases
    <3> QED BY <3>1, <3>2
  <2> QED BY <1>1, <2>1, <2>5, RequestKeeps, StatusFacts
<1> QED BY <1>2, <1>3

LEMMA CheckKeeps == ASSUME IInv, NEW h \in Handlers, Check(h) \/ NoMemory(h) PROVE IInv'
<1>1. UNCHANGED <<big, started, seen, status, old, worker, appeared>>
  BY DEF Check, NoMemory
<1>2. CASE handler' = [handler EXCEPT ![h] = Idle]
  BY <1>1, <1>2, RequestKeeps, StatusFacts
<1>3. CASE handler' = [handler EXCEPT ![h].pc = "begin"]
  <2> DEFINE r == [handler[h] EXCEPT !.pc = "begin"]
  <2>1. r \in HandlerStates /\ r.pc = "begin" /\ handler' = [handler EXCEPT ![h] = r]
    BY <1>3 DEF IInv, TypeOK, HandlerStates
  <2> HIDE DEF r
  <2> QED BY <1>1, <2>1, RequestKeeps, StatusFacts
<1> QED BY <1>2, <1>3 DEF Check, NoMemory

LEMMA BeginKeeps == ASSUME IInv, NEW h \in Handlers, Begin(h) PROVE IInv'
<1> DEFINE gen == status.gen + 1
<1>1. PICK title \in Titles :
        /\ status' = [Told(status, "progress", title, FALSE) EXCEPT !.gen = gen]
        /\ worker' = [worker EXCEPT ![gen] = [NoWorker EXCEPT !.title = title]]
        /\ handler' = [handler EXCEPT ![h].pc = "create", ![h].gen = gen]
        /\ appeared' = IF big.title = title THEN appeared \cup {gen} ELSE appeared
  BY DEF Begin
<1> DEFINE w == [NoWorker EXCEPT !.title = title]
           r == [handler[h] EXCEPT !.pc = "create", !.gen = gen]
<1>2. old' = FALSE /\ UNCHANGED <<big, started, seen>>
  BY DEF Begin
<1>3. status.gen \in Nat /\ gen \in Gens /\ gen \in 0..MaxGen /\ gen > status.gen /\ status \in Status
  BY LaunchAssumption DEF IInv, TypeOK, Status, Gens, Begin
<1>4. w \in WorkerStates /\ w.title = title /\ w.pc = "none"
  BY LaunchAssumption DEF NoWorker, WorkerStates, Replies, Names
<1>5. r \in HandlerStates /\ r.pc = "create" /\ r.gen = gen /\ handler' = [handler EXCEPT ![h] = r]
  BY <1>1, <1>3 DEF IInv, TypeOK, HandlerStates
<1>6. /\ status' \in Status /\ status'.busy /\ status'.phase = "progress" /\ ~status'.verified
      /\ status'.title = title /\ status'.gen = gen
  BY <1>1, <1>3 DEF Told, Status, Phases, Names
<1>7. /\ worker' \in [Gens -> WorkerStates] /\ worker'[gen] = w
      /\ \A g \in Gens : g # gen => worker'[g] = worker[g]
  BY <1>1, <1>3, <1>4 DEF IInv, TypeOK
<1>8. /\ handler' \in [Handlers -> HandlerStates] /\ handler'[h] = r
      /\ \A i \in Handlers : i # h => handler'[i] = handler[i]
  BY <1>5 DEF IInv, TypeOK
<1>9. appeared' \subseteq Gens /\ appeared \subseteq appeared' /\ (big.title = title => gen \in appeared')
  BY <1>1, <1>3 DEF IInv, TypeOK
<1> HIDE DEF gen, w, r
<1>10. TypeOK'
  BY <1>2, <1>6, <1>7, <1>8, <1>9 DEF IInv, TypeOK
<1>11. Begun'
  <2>1. \A g \in Gens : g <= gen => g = gen \/ g <= status.gen
    BY <1>3 DEF gen, Gens
  <2> QED BY <1>3, <1>4, <1>6, <1>7, <2>1 DEF IInv, Begun, Gens
<1>12. \A i \in Handlers : /\ handler[i].pc = "create" => handler[i].gen # gen
                          /\ handler[i].pc \in {"look", "settle"} => handler[i].gen # gen
  BY <1>3 DEF IInv, Creating, Watching, Gens
<1>13. Creating'
  BY <1>3, <1>4, <1>5, <1>6, <1>7, <1>8, <1>12 DEF IInv, Creating, Gens
<1>14. Watching'
  BY <1>2, <1>3, <1>5, <1>6, <1>7, <1>8, <1>12 DEF IInv, Watching, Past, Gens
<1>15. RanSince'
  <2>1. \A g \in Gens : worker'[g].title # NoTitle /\ big'.title = worker'[g].title => g \in appeared'
    BY <1>2, <1>4, <1>7, <1>9 DEF IInv, RanSince
  <2>2. \A g \in Gens : Looked(g)' /\ seen'.title = worker'[g].title => g \in appeared'
    BY <1>2, <1>4, <1>7, <1>9 DEF IInv, RanSince, Looked
  <2>3. ASSUME NEW i \in Handlers, handler'[i].pc = "settle", worker'[handler'[i].gen].pc # "done",
               handler'[i].saw = worker'[handler'[i].gen].title
        PROVE  handler'[i].gen \in appeared'
    <3>1. i # h /\ handler'[i] = handler[i]
      BY <1>5, <1>8, <2>3
    <3>2. handler[i].gen \in Gens /\ worker'[handler[i].gen] = worker[handler[i].gen]
      BY <1>7, <1>12, <2>3, <3>1 DEF IInv, Watching
    <3> QED BY <1>9, <2>3, <3>1, <3>2 DEF IInv, RanSince
  <2> QED BY <2>1, <2>2, <2>3 DEF RanSince
<1>16. OneApp' /\ Verdicts'
  BY <1>2, <1>4, <1>7, <1>9 DEF IInv, OneApp, Verdicts
<1>17. BusyNewest' /\ VerifiedRan' /\ NewestDone'
  BY <1>4, <1>6, <1>7 DEF BusyNewest, VerifiedRan, NewestDone
<1> QED BY <1>10, <1>11, <1>13, <1>14, <1>15, <1>16, <1>17 DEF IInv

LEMMA CreateKeeps == ASSUME IInv, NEW h \in Handlers, Create(h) PROVE IInv'
<1> DEFINE gen == handler[h].gen
<1>1. gen \in Gens /\ gen <= status.gen /\ worker[gen].pc = "none" /\ handler[h].pc = "create"
  BY DEF IInv, Creating, Create
<1>2. /\ handler' = [handler EXCEPT ![h] = Idle]
      /\ UNCHANGED <<big, started, seen, old, appeared>>
  BY DEF Create
<1>3. PICK pc \in {"look", "done"} :
        /\ worker' = [worker EXCEPT ![gen].pc = pc]
        /\ pc = "look" => status' = status
        /\ pc = "done" => status' = Told(status, "failed", worker[gen].title, status.verified)
  BY DEF Create
<1>4. worker[gen] \in WorkerStates /\ worker[gen].title \in Names
  BY <1>1 DEF IInv, TypeOK, WorkerStates
<1> DEFINE w == [worker[gen] EXCEPT !.pc = pc]
<1>5. w \in WorkerStates /\ w.pc = pc /\ w.title = worker[gen].title
  BY <1>4 DEF WorkerStates
<1>6. /\ worker' \in [Gens -> WorkerStates] /\ worker'[gen] = w
      /\ \A g \in Gens : g # gen => worker'[g] = worker[g]
  BY <1>1, <1>3, <1>5 DEF IInv, TypeOK
<1>7. /\ status' \in Status /\ status'.gen = status.gen /\ (status'.busy <=> status'.phase = "progress")
      /\ status'.busy => status.busy /\ status'.title = status.title
      /\ status'.verified => status.verified
      /\ pc = "done" => status'.phase = "failed"
      /\ pc = "look" => status'.phase = status.phase
  <2>1. CASE pc = "look"
    BY <1>3, <2>1, StatusFacts
  <2>2. CASE pc = "done"
    BY <1>3, <1>4, <2>2, StatusFacts DEF Told, Status, Phases
  <2> QED BY <2>1, <2>2
<1>8. /\ handler' \in [Handlers -> HandlerStates] /\ handler'[h].pc = "idle"
      /\ \A i \in Handlers : i # h => handler'[i] = handler[i]
  BY <1>2, StatusFacts DEF IInv, TypeOK
<1> HIDE DEF gen, w
<1>9. TypeOK'
  BY <1>2, <1>6, <1>7, <1>8 DEF IInv, TypeOK
<1>10. Begun'
  BY <1>1, <1>5, <1>6, <1>7 DEF IInv, Begun, TypeOK, Status, Gens
<1>11. Creating'
  BY <1>1, <1>6, <1>7, <1>8 DEF IInv, Creating, gen
<1>12. \A g \in Gens : Past(g) => g # gen
  BY <1>1 DEF Past
<1>13. Watching'
  BY <1>2, <1>6, <1>7, <1>8, <1>12 DEF IInv, Watching, Past
<1>14. RanSince'
  <2>1. \A g \in Gens : worker'[g].title # NoTitle /\ big'.title = worker'[g].title => g \in appeared'
    BY <1>2, <1>5, <1>6 DEF IInv, RanSince
  <2>2. \A g \in Gens : Looked(g)' /\ seen'.title = worker'[g].title => g \in appeared'
    BY <1>2, <1>5, <1>6 DEF IInv, RanSince, Looked
  <2>3. \A i \in Handlers : handler'[i].pc = "settle" /\ worker'[handler'[i].gen].pc # "done"
                             /\ handler'[i].saw = worker'[handler'[i].gen].title
          => handler'[i].gen \in appeared'
    BY <1>2, <1>6, <1>8, <1>12 DEF IInv, RanSince, Watching
  <2> QED BY <2>1, <2>2, <2>3 DEF RanSince
<1>15. OneApp' /\ Verdicts'
  BY <1>2, <1>5, <1>6 DEF IInv, OneApp, Verdicts
<1>16. BusyNewest'
  BY <1>5, <1>6, <1>7, StatusFacts DEF IInv, BusyNewest
<1>17. VerifiedRan'
  BY <1>2, <1>7 DEF IInv, VerifiedRan
<1>18. NewestDone'
  <2>1. CASE status.gen = gen
    BY <1>5, <1>6, <1>7, <2>1 DEF NewestDone
  <2>2. CASE status.gen # gen
    BY <1>6, <1>7, <2>2, StatusFacts, LaunchAssumption DEF NewestDone, TypeOK, IInv, Status, Gens
  <2> QED BY <2>1, <2>2
<1> QED BY <1>9, <1>10, <1>11, <1>13, <1>14, <1>15, <1>16, <1>17, <1>18 DEF IInv

LEMMA StutterKeeps == ASSUME IInv, UNCHANGED vars PROVE IInv'
BY DEF vars, IInv, TypeOK, Begun, Creating, Watching, Past, BusyNewest, NewestDone, Verdicts,
       VerifiedRan, RanSince, Looked, OneApp

\* The invariant holds however many requests, titles, launches and apps there are.
THEOREM LaunchCorrect == Spec => []IInv
<1>1. ASSUME IInv, [Next]_vars PROVE IInv'
  <2>1. CASE AppStarts \/ AppEnds \/ MonitorPolls \/ Age
    BY <1>1, <2>1, AppStartsKeeps, AppEndsKeeps, MonitorPollsKeeps, AgeKeeps
  <2>2. CASE \E h \in Handlers : Watch(h) \/ Serve(h)
    BY <1>1, <2>2, WatchKeeps, LookAtGameKeeps, SettleKeeps, CheckKeeps, BeginKeeps, CreateKeeps DEF Serve
  <2>3. ASSUME NEW g \in Gens, Work(g) PROVE IInv'
    <3>1. Worked(g)
      BY <1>1, <2>3, LookFacts, LiveFacts, CloseFacts, ClosingFacts, SubmitFacts, VerifyFacts, ReportFacts
         DEF Work
    <3> QED BY <1>1, <3>1, WorkKeeps
  <2>4. CASE UNCHANGED vars
    BY <1>1, <2>4, StutterKeeps
  <2> QED BY <1>1, <2>1, <2>2, <2>3, <2>4 DEF Next
<1> QED BY <1>1, InitHolds, PTL DEF Spec

\* Type correctness: also that a launch is busy exactly in a busy phase.
THEOREM LaunchTypeCorrect == Spec => []TypeOK
<1>1. IInv => TypeOK
  BY DEF IInv
<1> QED BY <1>1, LaunchCorrect, PTL

\* What is shown as under way is the newest launch (set_launch_status_ex_gen()).
THEOREM BusyNewestCorrect == Spec => []BusyNewest
<1>1. IInv => BusyNewest
  BY DEF IInv
<1> QED BY <1>1, LaunchCorrect, PTL

\* A launch is verified only if its title has run since it began.
THEOREM VerifiedRanCorrect == Spec => []VerifiedRan
<1>1. IInv => VerifiedRan
  BY DEF IInv
<1> QED BY <1>1, LaunchCorrect, PTL

\* A launch whose worker is done is neither busy nor timed out.
THEOREM NewestDoneCorrect == Spec => []NewestDone
<1>1. IInv => NewestDone
  BY DEF IInv
<1> QED BY <1>1, LaunchCorrect, PTL
=============================================================================
