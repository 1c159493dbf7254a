----------------------------- MODULE HotkeyHook -----------------------------
(***************************************************************************)
(* The controller shortcut: a thread of the daemon that injects a payload  *)
(* into the console's shell, the watcher that tells it of new shells, the  *)
(* payload that prepares and arms the hooks, and a shell that may restart  *)
(* at any moment.  Time is left out but for the order of two delays: a     *)
(* shell is ready and settled only after the watcher's wait for it is over.*)
(***************************************************************************)
EXTENDS Integers, Sequences, FiniteSets, SequencesExt

CONSTANTS
  Sites,            \* the functions of the shell that get a hook
  ButtonSite,       \* the one by which a payload finds the hooks of an earlier one
  MaxShells,        \* bound: shell processes; their pids are 1..MaxShells
  MaxReinjects, MaxTotalFails, MaxPayloadFails, MaxShellLosses

ASSUME HotkeyAssumption ==
  /\ ButtonSite \in Sites
  /\ {MaxShells, MaxReinjects, MaxTotalFails, MaxPayloadFails, MaxShellLosses}
       \subseteq Nat \ {0}

VARIABLES
  shell,      \* [pid, hooked]: the shell (-pid: it has ended), its sites that are armed
  payloads,   \* the payload threads at work in the shell
  inbox,      \* the datagrams waiting at the signal port
  readyFile,  \* the pid in the ready file, or 0
  watch,      \* [pending, news]: an exec the watcher looks into; a count not yet seen
  console,    \* the shortcut is off, or on with the console awake or asleep
  hook,       \* the thread of the daemon and its locals; history: its field "word",
              \* the shell whose payload said it is hooked, or 0 for the ready file
  unanswered, \* history: shells in which a payload failed since the last success
  attempts    \* history: how often the daemon attached to this shell to inject

hotkeyVars == <<shell, payloads, inbox, readyFile, watch, console, hook, unanswered,
                attempts>>

NoHook == [at |-> "check", hooked |-> 0, failed |-> 0, attempt |-> 0, settle |-> 0,
           ripe |-> FALSE, losses |-> 0, reinjects |-> 0, totalFails |-> 0,
           payloadFails |-> 0, gaveUp |-> FALSE, loop |-> FALSE,
           request |-> [done |-> {}, sites |-> {}, from |-> 0], word |-> 0]

\* An earlier run of the daemon may have left hooks in the shell and a file.
HotkeyInit ==
  /\ shell \in [pid : {1}, hooked : SUBSET Sites]
  /\ readyFile \in IF shell.hooked = {} THEN {0} ELSE {0, 1}
  /\ payloads = <<>> /\ inbox = <<>>
  /\ watch = [pending |-> FALSE, news |-> FALSE]
  /\ console \in {"off", "awake"}
  /\ hook = NoHook
  /\ unanswered = {} /\ attempts = 0

-----------------------------------------------------------------------------
(* The shell, the console and the user. *)

environment == <<inbox, readyFile, hook, unanswered>>

\* A shell ends, with what was in it; the next one has a pid of its own, though the
\* watcher is there to notice also a pid that is used again (cr_hotkey_hook.c:113).
ShellEnds ==
  /\ shell.pid > 0
  /\ shell' = [pid |-> -shell.pid, hooked |-> {}]
  /\ payloads' = <<>> /\ attempts' = 0
  /\ watch' = [watch EXCEPT !.pending = FALSE]
  /\ UNCHANGED <<environment, console>>

ShellStarts ==
  /\ shell.pid < 0 /\ -shell.pid < MaxShells
  /\ shell' = [shell EXCEPT !.pid = 1 - shell.pid]
  /\ watch' = [watch EXCEPT !.pending = TRUE]
  /\ UNCHANGED <<environment, payloads, console, attempts>>

\* The user switches the shortcut, the console goes to sleep or wakes up.
ConsoleChanges ==
  /\ console' \in {"off", "awake", "asleep"} \ {console}
  /\ UNCHANGED <<environment, shell, payloads, watch, attempts>>

\* The watcher finds the new shell under its name, or it does not: no queue of
\* kernel events, an event that was lost, or a wait that was too short.
WatcherReports ==
  /\ watch.pending
  /\ \E found \in BOOLEAN : watch' = [pending |-> FALSE, news |-> watch.news \/ found]
  /\ UNCHANGED <<environment, shell, payloads, console, attempts>>

-----------------------------------------------------------------------------
(* The payload, in the shell. *)

payloadFrame == <<readyFile, watch, console, hook, unanswered, attempts>>

IsOver(k) == payloads' = RemoveAt(payloads, k)
Send(msg) == inbox' = Append(inbox, msg)

\* A datagram does not say which shell it comes from: "from" is history.
Answer(kind) == [kind |-> kind, done |-> {}, sites |-> {}, from |-> shell.pid]

\* Mono or every method is missing, or no site can be prepared: "err".
PayloadFails(k) ==
  /\ payloads[k].at = "working"
  /\ IsOver(k) /\ Send(Answer("err"))
  /\ UNCHANGED <<shell, payloadFrame>>

\* The button's function carries a jump of ours: "old".
PayloadFindsHook(k) ==
  /\ payloads[k].at = "working" /\ ButtonSite \in shell.hooked
  /\ IsOver(k) /\ Send(Answer("old"))
  /\ UNCHANGED <<shell, payloadFrame>>

\* cr_detour_prepare(): a site has a jump of ours, or can get one unless memory,
\* the instructions there or the protection of the page forbid it.
Preparable == SUBSET (Sites \ shell.hooked)

\* cr_detour_commit(): of the prepared sites, those that are aligned and have
\* not changed get their jump in one step.
Committable(sites) == SUBSET (sites \ shell.hooked)

\* Every site that was found and can be hooked joins the request.
PayloadPrepares(k) ==
  /\ payloads[k].at = "working" /\ ButtonSite \notin shell.hooked
  /\ \E found \in Preparable \ {{}} :
       payloads' = [payloads EXCEPT ![k] = [at |-> "prepared", sites |-> found]]
  /\ UNCHANGED <<shell, inbox, payloadFrame>>

\* The request names all its sites and says which are armed already.
PayloadCommits(k) ==
  /\ payloads[k].at = "prepared"
  /\ \E done \in Committable(payloads[k].sites) :
       /\ shell' = [shell EXCEPT !.hooked = @ \cup done]
       /\ Send([kind |-> "request", done |-> done, sites |-> payloads[k].sites,
                from |-> shell.pid])
  /\ IsOver(k)
  /\ UNCHANGED payloadFrame

Payload(k) ==
  PayloadFails(k) \/ PayloadFindsHook(k) \/ PayloadPrepares(k) \/ PayloadCommits(k)

-----------------------------------------------------------------------------
(* The thread: one round is a check, perhaps an injection, and one receive. *)

\* The shortcut is off, or the thread has found itself in a restart loop.
CheckNothing ==
  /\ hook.at = "check"
  /\ \/ /\ console = "off"
        /\ hook' = [hook EXCEPT !.at = "receive", !.loop = FALSE, !.losses = 0]
        /\ unanswered' = {}
     \/ /\ console # "off" /\ hook.loop
        /\ hook' = [hook EXCEPT !.at = "receive"] /\ UNCHANGED unanswered
  /\ UNCHANGED <<shell, payloads, inbox, readyFile, watch, attempts, console>>

\* What the thread knows once it has seen that there is a new image.
NoticeImage(h) ==
  IF watch.news THEN [h EXCEPT !.hooked = 0, !.attempt = 0, !.settle = 0, !.ripe = FALSE]
                ELSE h

\* Mutant of NoticePid: every look at the process gives it a clean slate.
NoticePidAlways(h, pid) == [h EXCEPT !.attempt = pid, !.totalFails = 0, !.payloadFails = 0]

\* A new process gets a clean slate, and may be the loss of the one before.
NoticePid(h, pid) ==
  LET lost == h.failed > 0 /\ pid > 0 /\ h.failed # pid
      over == lost /\ h.losses + 1 >= MaxShellLosses
  IN  IF pid = h.attempt THEN h
      ELSE [h EXCEPT !.attempt = pid, !.totalFails = 0, !.payloadFails = 0,
                     !.failed = IF lost THEN 0 ELSE @,
                     !.losses = IF lost THEN @ + 1 ELSE @,
                     !.loop = @ \/ over, !.gaveUp = over]

\* Mutant of Settle: every look starts the delay again.
SettleAnew(h, pid) == [h EXCEPT !.settle = pid, !.ripe = FALSE]

\* Until the libraries are loaded, and then until the shell has settled.
Settle(h, pid) ==
  IF h.settle # pid THEN [h EXCEPT !.settle = pid, !.ripe = FALSE] ELSE h

Check ==
  /\ hook.at = "check" /\ console # "off" /\ ~hook.loop
  /\ LET pid == IF shell.pid > 0 THEN shell.pid ELSE 0
         file == IF watch.news THEN 0 ELSE readyFile
         h == NoticePid(NoticeImage(hook), pid)
         rest == [h EXCEPT !.at = "receive"]
         settled == Settle(rest, pid)
         idle == console = "asleep" \/ h.gaveUp \/ pid \in {0, h.hooked}
     IN  /\ readyFile' = file
         /\ \/ idle /\ hook' = rest
            \/ ~idle /\ file = pid /\ hook' = [rest EXCEPT !.hooked = pid, !.word = 0]
            \/ ~idle /\ file # pid /\ ~settled.ripe /\ hook' = settled
            \/ ~idle /\ file # pid /\ settled.ripe /\ hook' = [h EXCEPT !.at = "attach"]
  /\ watch' = [watch EXCEPT !.news = FALSE]
  /\ UNCHANGED <<shell, payloads, inbox, unanswered, attempts, console>>

\* The libraries are loaded and the time has passed, which is longer than the
\* watcher's wait for the name.
Ripen ==
  /\ hook.settle > 0 /\ ~hook.ripe /\ ~watch.pending
  /\ hook' = [hook EXCEPT !.ripe = TRUE]
  /\ UNCHANGED <<shell, payloads, inbox, readyFile, watch, unanswered, attempts, console>>

\* A success is counted against the last one if that was short ago.
Succeed(h, from) ==
  /\ \E n \in {1, h.reinjects + 1} :
       hook' = [h EXCEPT !.at = "receive", !.hooked = h.attempt, !.totalFails = 0,
                         !.losses = 0, !.reinjects = n, !.loop = @ \/ n > MaxReinjects,
                         !.word = from]
  /\ unanswered' = {}

\* A failed attempt is tried again after a while, a few times.
Fail(h) ==
  hook' = [h EXCEPT !.at = "receive", !.totalFails = @ + 1,
                    !.gaveUp = @ \/ h.totalFails + 1 >= MaxTotalFails]

\* A payload that failed once more than that ends it at once.
PayloadFailed(h) ==
  LET f == [h EXCEPT !.failed = h.attempt, !.payloadFails = @ + 1]
  IN  /\ IF f.payloadFails >= MaxPayloadFails
           THEN hook' = [f EXCEPT !.at = "receive", !.gaveUp = TRUE]
           ELSE Fail(f)
      /\ unanswered' = unanswered \cup {h.attempt}

Target == shell.pid = hook.attempt

AttachFails ==
  /\ hook.at = "attach" /\ Fail(hook)
  /\ attempts' = IF Target THEN attempts + 1 ELSE attempts
  /\ UNCHANGED <<shell, payloads, inbox, readyFile, watch, unanswered, console>>

\* elfldr_exec(): the payload runs in the shell, if that is still the one.
Exec ==
  /\ hook.at = "attach" /\ Target
  /\ payloads' = Append(payloads, [at |-> "working", sites |-> {}])
  /\ hook' = [hook EXCEPT !.at = "await"]
  /\ attempts' = attempts + 1
  /\ UNCHANGED <<shell, inbox, readyFile, watch, unanswered, console>>

\* The first datagram is the answer, whoever sent it.  The ready file is
\* written, if it can be, before the sites are armed.
TakeAnswer ==
  /\ hook.at = "await" /\ inbox # <<>> /\ inbox' = Tail(inbox)
  /\ LET msg == Head(inbox) IN
       \/ /\ msg.kind = "request"
          /\ readyFile' \in {readyFile, hook.attempt}
          /\ hook' = [hook EXCEPT !.at = "arm",
                                  !.request = [done |-> msg.done, sites |-> msg.sites,
                                               from |-> msg.from]]
          /\ UNCHANGED unanswered
       \/ msg.kind = "old" /\ readyFile' \in {readyFile, hook.attempt}
          /\ Succeed(hook, msg.from)
       \/ msg.kind = "err" /\ PayloadFailed(hook) /\ UNCHANGED readyFile
  /\ UNCHANGED <<shell, payloads, watch, attempts, console>>

NoAnswer ==
  /\ hook.at = "await" /\ inbox = <<>> /\ PayloadFailed(hook)
  /\ UNCHANGED <<shell, payloads, inbox, readyFile, watch, attempts, console>>

\* arm_hook_sites() on a process: the sites of the request it writes.  It may be
\* refused the attach, and each write.  It succeeds if any site is armed now, by
\* it or, as the request says, by the payload.
MayWrite(pid, request) ==
  IF shell.pid = pid THEN SUBSET (request.sites \ request.done) ELSE {{}}

\* Mutant of Armed: the sites that were asked for count, not those written.
ArmedOnTrust(wrote, request) == request.sites # {}

Armed(wrote, request) == wrote \cup request.done # {}

Arm ==
  /\ hook.at = "arm"
  /\ \E wrote \in MayWrite(hook.attempt, hook.request) :
       LET h == [hook EXCEPT !.request = NoHook.request]
       IN  /\ shell' = [shell EXCEPT !.hooked = @ \cup wrote]
           /\ IF Armed(wrote, hook.request) THEN Succeed(h, hook.request.from)
              ELSE Fail(h) /\ UNCHANGED unanswered
  /\ UNCHANGED <<payloads, inbox, readyFile, watch, attempts, console>>

\* Nothing came, or what came opens the browser.
ReceiveOther ==
  /\ hook.at = "receive"
  /\ \/ inbox = <<>> /\ UNCHANGED inbox
     \/ inbox # <<>> /\ Head(inbox).kind # "request" /\ inbox' = Tail(inbox)
  /\ hook' = [hook EXCEPT !.at = "check"]
  /\ UNCHANGED <<shell, payloads, readyFile, watch, unanswered, attempts, console>>

\* A request that comes late is taken for the shell that runs now.
ReceiveRequest ==
  /\ hook.at = "receive" /\ inbox # <<>> /\ Head(inbox).kind = "request"
  /\ inbox' = Tail(inbox)
  /\ \/ /\ shell.pid <= 0 \/ shell.pid = hook.hooked
        /\ hook' = [hook EXCEPT !.at = "check"] /\ UNCHANGED <<shell, readyFile>>
     \/ /\ shell.pid > 0 /\ shell.pid # hook.hooked
        /\ readyFile' \in {readyFile, shell.pid}
        /\ \E wrote \in MayWrite(shell.pid, Head(inbox)) :
             /\ shell' = [shell EXCEPT !.hooked = @ \cup wrote]
             /\ hook' = IF Armed(wrote, Head(inbox))
                          THEN [hook EXCEPT !.at = "check", !.hooked = shell.pid,
                                            !.word = Head(inbox).from]
                          ELSE [hook EXCEPT !.at = "check"]
  /\ UNCHANGED <<payloads, watch, unanswered, attempts, console>>

HookThread ==
  \/ CheckNothing \/ Check \/ AttachFails \/ Exec \/ TakeAnswer \/ NoAnswer \/ Arm
  \/ ReceiveOther \/ ReceiveRequest

HotkeyNext ==
  \/ ShellEnds \/ ShellStarts \/ ConsoleChanges \/ WatcherReports \/ Ripen
  \/ HookThread
  \/ \E k \in DOMAIN payloads : Payload(k)

-----------------------------------------------------------------------------
\* The types of the shell, the thread and its counters.
HotkeyTypeOK ==
  /\ shell \in [pid : (-MaxShells)..MaxShells, hooked : SUBSET Sites]
  /\ readyFile \in 0..MaxShells
  /\ hook.at \in {"check", "attach", "await", "arm", "receive"}
  /\ hook.hooked \in 0..MaxShells /\ hook.attempt \in 0..MaxShells
  /\ hook.reinjects \in Nat /\ hook.totalFails \in 0..MaxTotalFails

\* A shell that cannot be hooked is left alone, though counters are reset at
\* several places: one is attached to for an injection at most MaxTotalFails
\* times and at most MaxPayloadFails of its payloads fail; and when payloads get
\* no answer and the shell restarts, again and again, the thread stops after
\* MaxShellLosses shells, until a success or the switch.
Restraint ==
  /\ attempts <= MaxTotalFails
  /\ hook.payloadFails <= MaxPayloadFails
  /\ Cardinality(unanswered) <= MaxShellLosses

Calm == console = "awake" /\ shell.pid > 0
Decided == hook.hooked = shell.pid \/ hook.gaveUp \/ hook.loop

\* Sites are armed in this shell, or the thread was misled: it took the ready
\* file's word, or an answer that was sent in a shell before.
Installed == shell.hooked # {} \/ hook.word # shell.pid

\* If the shell stays and the console is awake, the thread decides for good, and
\* where it says the shortcut is installed there are hooks in the shell, not only
\* in its belief: the retries and their delays come to an end.  The two words it
\* takes without hooks are excepted by Installed.  One of them contradicts
\* cr_hotkey_hook.c:565: the ready file is written before the sites are armed
\* (:420), and when that fails the next look says "already has the hooks armed".
HookDecided == <>[]Calm => <>[](Decided /\ (hook.hooked = shell.pid => Installed))
=============================================================================
