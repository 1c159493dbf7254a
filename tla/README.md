# CheatRunner: formal models, checks and proofs

TLA+ models of CheatRunner, the trainer daemon in `src/`, with the TLC runs that
check them on small instances and the TLAPS proofs that hold for every instance.
Line numbers refer to the files of this commit (`src/src/...`; the repository's
README is `src/README.md`).

## 1. The system

CheatRunner is one process on the console.  Its threads share global tables, each
under a mutex of its own, and one big lock, `g_cheat_apply_lock`, that serialises
everything that writes into the game.

| Component | State | Operations | Interacts with |
|---|---|---|---|
| Cheat engine, apply path (`cr_cheats.c`, `cr_memory.c`) | `g_cheat_apply_lock`, `g_cheat_applying`, `g_last_apply_at_ms`, `g_mods_disabled`, `g_mods_enabled_arr` | `apply_cheat_json(title, mod, on)`, which calls itself for conflicts and the mastercode | called by toggle, disable-all and the autoload thread; writes the game's memory; calls the monitor's refresh when the game died |
| Conflict map and mastercodes (`cr_conflict.c`, `cr_cheats.c`) | none (computed from the file) | `conflict_map_build`, `conflict_map_get_for_mod`, `find_master_code_mod_for` | apply path, state API |
| Crash guards and suspects (`cr_cheats.c`, `cr_game_monitor.c`) | `g_crash_guard_arr` (8), `g_crash_suspects` (32), a JSON file | arm on enable, drop on disable, mark on stop, clear after the watch window, save, load | apply path, monitor, toggle handler |
| Game monitor (`cr_game_monitor.c`) | `g_running` (title, pid, started_at), last exit, activity session | `rpc_refresh_title_and_notify` every 500 ms and on demand | drops cheat records and patch backups, recovers the launch status, starts autoload |
| Patch engine (`cr_patch_parser.c`, `cr_api_patches.c`) | `g_applied` (256), 16 backups, the title index | apply, restore one, restore all of a pid, plan | same apply lock; the monitor restores and clears |
| Cheat file selection (`cr_cheats.c`, `cr_version.c`, `cr_api.c`) | manual selections (64, persisted), one decoded document | select, select auto, delete, upload, the state request | decides what a mod index means |
| Autoload profiles (`cr_cheat_profiles.cpp`, `cr_patch_profiles.cpp`) | saved profiles | per game start: patches, then cheats, with retries until a deadline | apply path, patch engine, monitor |
| Launch (`cr_launch.c`, `cr_api_launch.c`) | `g_launch_status` with a generation | begin, worker phases, stale recovery, recovery by the monitor | console launch services |
| Repo mirror (`cr_repo_mirror.c`) | `g_repo_mirror` progress, work queues | start, download workers, archive and tree fallbacks, abort | file system, network |
| Hotkey hook (`cr_hotkey_hook.c`, `elfldr.c`, `pt.c`, `payload/`) | attempt counters per shell process, the ready file, the credentials of the daemon | watch, inject, arm, back off, give up | the shell process, every other user of ptrace |
| HTTP server (`cr_http.c`, `main.c`) | `g_active_clients` (at most 24), the listening socket, one buffer per request | accept, read, handle, reject over the limit, listen anew after standby | all handlers |
| Shutdown and boot (`cr_shutdown.c`, `main.c`) | `g_shutdown_requested` | wait at most 2 s for the apply lock, kill; kill an old instance at boot | apply path |
| Game library scan (`cr_api.c`, `cr_appdb.c`) | cached list, `g_games_scan_busy` | scan, serve the cache | the console's database |
| Configuration (`cr_config.c`) | `g_cfg`, file time | set, save, reload on change | every component |
| Activity, favorites, notifications | bounded lists, each with a lock and a file | add, remove, save, load | monitor, handlers |
| Formats, process access, network, logging, front end | text, kernel calls, sockets | conversions and input/output | - |

What is hard here: requests overlap (up to 24 clients, the autoload, the monitor)
and most of them read a table, unlock, and act on what they read; the game can
end or restart between any two steps; a write pass of several entries can fail
half way while the game runs the code being rewritten; the engine calls itself
with shared cooldown state; most tables are bounded.  `PROJECT.json` lists the
hazards one by one with the line where each bites and the property that covers it.

What makes each component correct, in short: the engine toggles a whole cheat or
nothing, never leaves a hook without its cave, keeps its records true and answers
every request; the guards blame exactly the cheats that were enabled shortly before
a crash; the monitor cleans up for every process that ended; a patch that was
applied can be taken back to the bytes that were there before; one launch at a time
reports, and only about itself; the mirror's counters add up and its queue drains;
the hook is attempted a bounded number of times per shell and then decided, and leaves
neither credentials nor registers behind; the page offers the opposite of what is in
memory, of a document no older than its file; what is saved is what is loaded; the server
comes back after standby, stays inside its buffers, and the daemon exits when asked to.

## 2. Modules

| Module | What it is |
|---|---|
| `CheatToggle` | What the engine promises a user: a toggle takes effect in one step or not at all, one at a time, and a game that ends takes its cheats along. |
| `CheatApply` | The apply path, step by step, for any number of threads, with the safeguards' recursion, disable-all, the part of the monitor that drops the records, and a game that starts and ends at any moment. |
| `MCCheatApply` | Cheat files and failing memory layouts for TLC. |
| `CheatApplyProofs` | Type correctness and the lock invariant, proved. |
| `CheatApplyMemoryProofs` | The inductive invariant about memory, pass and records, the three safety properties that follow, and the refinement of `CheatToggle`, proved. |
| `PatchPlan` | The order in which the lines of a patch are written: merging, and jumps after their targets. |
| `PatchEngine` | Apply with backups, read-back and rollback, restore, the monitor's undo, the backup store and the applied table, for any number of threads. |
| `MCPatchEngine` | Patch files over eight cells for TLC. |
| `PatchEngineProofs` | The lock, the types, rollback, and that what a patch changed can be put back, proved. |
| `CrashGuard` | Guards and suspects: armed by the engine, judged by every refresh of the running game, asked for by the toggle handler, kept in a file; with the autoload worker. |
| `MCCrashGuard` | Two titles for TLC, with a profile. |
| `CrashGuardProofs` | The inductive invariant of guards, suspects and their file, and the properties of `CrashGuard`, proved. |
| `Launch` | Launch requests, the workers they start, the status they report to, the watchdog, the monitor, and apps that start late or end. |
| `MCLaunch` | The symmetry of requests and titles for TLC. |
| `RepoMirror` | The mirror thread that downloads collections, the threads that serve its queues, and what they count. |
| `RepoMirrorProofs` | The inductive invariant of `RepoMirror`, its safety properties and `DownloadStops`, proved. |
| `HotkeyHook` | The shortcut's thread, the watcher for new shells, the payload that prepares and arms the hooks, and a shell that may restart at any moment. |
| `Injection` | How code is started in another process: credentials under one lock, attach, hijack, restore, detach, and the watchdog. |
| `HttpServer` | The process from boot to its end: taking over from an older instance, the listening socket, the client limit, standby, shutdown. |
| `HttpRequest` | Reading one request into a buffer that grows. |
| `Config` | The settings, their file, the requests that change them and the hot reload. |
| `CheatFiles` | Which cheat file of a title is used, and the cache of its document. |
| `CheatPage` | What the page says of a cheat while the engine switches it or a rival. |
| `MCServices` | Six components without liveness properties, one after the other, for TLC. |
| `ServicesProofs` | The invariants of `HttpRequest`, `Config`, `CheatFiles` and `CheatPage`, and the types of all six, proved. |
| `MCHost` | Four components with liveness properties, one after the other, for TLC. |
| `HostProofs` | `TargetRestored`, `Restraint` and the types of the four, proved. |
| `LaunchProofs` | The inductive invariant of `Launch` and its safety properties, proved. |

### How `CheatApply` corresponds to the code

State: `lock`, `applying` and `cooling` are `g_cheat_apply_lock`, `g_cheat_applying`
and "less than `cheat_apply_cooldown_ms` since `g_last_apply_at_ms`".  `enabled` and
`disabled` are the two record tables, a cheat's record being the pid in it (0: no
record).  `cached` is the pid in `g_running`.  `pc`, `req` and `stack` are where each
thread is in `apply_cheat_json_impl`, the arguments and locals of its current call
and the calls suspended below it; `sweep` are the locals of disable-all.  `old` and
`done` are `applied[].old_bytes` and `written_order[]` of the thread in the lock (the
order of the entries in `done` is their write order, which `Before` defines, so the
set is enough).  `gamePid`, `mem` and `fault` are the running game, its byte ranges
and how each answers a write.

Actions, in the order of the code: `Enter`/`Reject` (checks before the cooldown),
`CheckCooldown`, `SwitchOffConflict`, `SwitchOnMaster` (both call the engine
recursively), `TakeLock`, `Recheck` (cooldown again, process still the same),
`Probe`/`ProbeFails`, `PreRead`/`PreReadFails`, `WriteEntry`/`WriteFails`, `Rollback`,
`Commit` and `Record` (the two tables, one lock each), `Release`.  `Return` is what
`return` does: answer the request, or resume the call that the safeguards made it
from.  The environment: `StartGame`, `EndGame`, `CooldownElapses`, `MonitorPolls`.

Abstractions, all of data: a byte range holds the game's own bytes, the "on" bytes
of some cheat or a torn mixture, so the addresses, lengths, base resolution and the
mastercode address fix-up do not appear; two entries overlap when they share a range;
the reasons for which a request is rejected before the cooldown are one action; time
is whether the cooldown is running; pids are not reused; one title runs.  `fault` says
how a range answers: `ok`, `unmapped` (cannot be read), `refuse` (the write reports an
error), `ignore` (reports success, changes nothing) and `torn` (the write crosses a
page, is split by `write_process_memory_forced`, and only its first half happens).
The optional delay between mods and the crash guards are left to other modules.  A range
answers in the same way throughout a process, so a read-back that fails, which counts as
one that succeeded (`cr_cheats.c:1555`), and a rollback write that fails, which is only
logged (`cr_cheats.c:1604`), do not occur by themselves.  The two record tables have room:
the code drops a record that finds them full (`cr_cheats.c:699`, `:739`).

Properties.  `Solo` are the cheats that share no range with any other entry of the
file: their "off" bytes are the game's own, so "on" and "off" are defined by the
memory alone.

- `LockInv`: the lock's holder is the thread in the locked part, and
  `g_cheat_applying` is up exactly while it may touch the game.
- `HookNeedsCave`: at every moment, in the middle of a pass or a rollback too, a hook
  in memory has all the caves of its cheat in memory.
- `AllOrNothing`: outside the lock a cheat is in memory as a whole or not at all.
- `RecordsMatchMemory`: outside the lock the records of the live process are true.
- `ImplementsToggle`: `CheatApply` refines `CheatToggle`.
- `Answered`: every request comes back, or waits for the lock while others have it, and
  the lock is always released.
- `NotBothOff`: a request that has switched a conflicting cheat off is not then
  turned away by the cooldown.  The code violates it.

### How `PatchEngine` corresponds to the code

State: `lock` and `applying` are the same lock and flag as in `CheatApply`.  `applied`
is `g_applied` as pairs of patch and pid; `store` is `g_patch_backups`, in slot order,
since the removal that moves the last slot is part of what is checked.  `pc` and `job`
are where each request is and the arguments and locals it has: the line and write of
the plan it is at, the lines skipped, and the backups (`saved`), which for a restore
is its copy of the record.  `mon` is the monitor in `rpc_refresh_title_and_notify` and
`patch_restore_all_for_pid`, `cached` the pid in `g_running`.  Memory is an array of
cells that hold the game's own bytes (0) or the id of the line that was written.

Actions, in the order of the code: `RequestApply`/`RequestRestore` (the handlers, once
a request is not turned away), `CopyBackup`, `AcquireLock`, `Probe`, `SkipLine`,
`ReadFails`, `WriteBlock`, `WritesDone`, `Rollback` or `RestoreBlock`, `Unlock`, and
then, outside the lock, `StoreBackup` and `MarkApplied` or `DropBackup` and
`MarkUnapplied`, each under a lock of its own.  `Rescan` clears the marks and not the
backups.  The monitor: `Poll`, `MonitorLooks` (the unlocked look at `applying`),
`MonitorGivesUp`, `MonitorLocks` (the trylock), `MonitorTakes`, `MonitorRestores`,
`MonitorUnlocks`, `MonitorClears`, `MonitorUnmarks`.

The write plan is `PatchPlan`: contiguous addressed lines become one block, and
`Emit` puts a block behind the block its first instruction jumps to.  `patch_plan_emit`
calls itself; `Follow` is one step of that chain, folded.

Abstractions: `fault` says how a cell answers (`ok`, `unmapped`, `refuse`, `ignore`);
a write goes page by page and stops at the first page that refuses, so a block across
two pages can be half written.  A pattern is found when its cells hold the game's own
bytes and nothing below is unreadable.  Requests that are turned away before the lock
(no such entry, unsupported line, wrong version, wrong title) change nothing and are
left out.  One title; a new process of the title is no change to the monitor, as in
the code.  A read-back that fails counts as a success in the code (`cr_patch_parser.c:1427`,
`:1528`, `:1553`) and does not occur, and the backups of one apply have room
(`cr_patch_parser.c:1491`).  `patch_mark_applied` drops the mark silently when its table of 256 is full,
which the few patches of an instance never reach.

Two constants bound what happens rather than how much.  `Again = FALSE` leaves out that
a patch is asked for while another request is at work on it or while it may be in place
already, since that is a finding (below).  `Glitches` is how often the game is not
reported although it runs.  `lost` records the backups that the code gave up while the
process lived: those that found the store full, and those that the monitor cleared
without restoring (`cr_game_monitor.c:504` clears after a skipped or deferred restore
too, so the "later tick" of `cr_patch_parser.c:301` finds nothing).  `before` and
`undone` are history too.

Properties.

- `OneWriter`: the lock's holder is the request between lock and unlock, or the
  monitor's undo; `applying` is up exactly for a request.
- `RolledBack`: a failed apply leaves the game byte for byte as it found it, also where
  lines overlap, a page refuses or a write is ignored.
- `NoJumpIntoNothing`: whenever a jump of a patch is in memory, what it leads to is too.
  `Tidy` names the plans it is proved for.
- `Recoverable`: bytes a patch changed are in a backup until they are put back.
- `MarkedRestorable`: a patch that is marked applied in the living game has its backup.
- `RestoredToOriginal`: a restore that went through has put back the game's own bytes.
- `Answered`: the lock is released, a request that got it is answered, and the monitor
  polls again.

`Recoverable` and `RestoredToOriginal` speak of the cells that one write of one patch
reaches (`Sole`): where two patches overlap, the later one saves the earlier one's
bytes, and restoring them in the other order cannot give the original back.

### How `CrashGuard` corresponds to the code

State: `guards` is `g_crash_guard_arr` (per cheat the pid and the time since it was
enabled), `suspects` is `g_crash_suspects` as the number of records of each cheat, since
a cheat that crashes again gets another one, and `file` is `crash_suspects.json`.
`running` is `g_running`.  `ref` says for each thread where it is in a refresh
(`prev` and `cur` are the locals of the same names) or in `crash_suspects_save`, with
the snapshot it took; `pc` and `req` where it is in its request.  A refresh is made by
the monitor and by any request that finds its game gone, so all threads have both.

Actions.  Refresh, in the order of the code: `ReadPrev`, `ReadCur`, `Set`, `Judge` (the
guards of the process that stopped), `StartAutoload`, `Clear` (those that outlived the
watch window), and `Snapshot`/`WriteFile`, the two halves of the save.  Requests:
`RequestToggle` and `Check`, `ClearFlags`, `Autoload` (the next cheat of the profile, or
the end), then the engine as `Begin`, `TakeLock`, `Write`, `GameGone`, `Arm`, `Unlock`;
what happens between is the matter of `CheatApply`.  `Restart` stops CheatRunner at any
step and starts it with what `crash_suspects_load` takes from the file.

Abstractions: the clock is the age of each guard up to `Window`, and a week in the file
may pass in any restart.  The reasons for which the engine turns a request away are
one choice of `Begin`, `TakeLock` or `Write`; what check_mod_enable_state answers before
it looks for a suspect is the choice of `loading` and `known`.  Marking and the watch
window are switched on in the settings.  A query of the running game that fails looks
like a stop, and is left out here (`PatchEngine` has it).  The conflict and mastercode
safeguards call the engine for another cheat and are left to `CheatApply`.

`since`, `expired` and `crossed` are history: which process each cheat was switched on
in and how long ago (kept beside the guards so that the guards can be compared with
it), which records were too old to load, and whether the last snapshot was taken while
another was not yet written.

Properties.

- `Justified`: a cheat is marked only while its last switch-on is less than `Window` ago,
  in the process that was found stopped, with no completed switch-off after it.
- `Flagged`: when a stop is handled, every cheat that was given a guard in that process
  less than `Window` ago is marked, whichever thread handles it, unless the table is full.
- `OnlySurvivorsForgiven`: a mark goes when the user clears it or when the cheat has
  outlived the window since its last switch-on.
- `FileAgrees`: when no save is under way, the file says what the table says.  It takes
  that the last two saves have not overlapped: two threads may each write the snapshot
  they took, the older one last, and nothing orders them.
- `AutoloadSparesSuspects`: autoload asks for no suspect.  The code violates it.

### How `Launch` corresponds to the code

State: `status` is `g_launch_status` (the fields busy, phase, title_id, verified and
generation; last_ok is 0 exactly in the phases failed and timeout once a launch has
begun).  `old` says that `started_ms` is past the watchdog's threshold.  `seen` is
`g_running`, `big` the running app.  `handler` is where each request is in
`handle_launch` and the watchdog (`launch_status_recover_stale`), with its locals: the
launch it saved or began (`gen`) and the title it saw running (`saw`).  `worker` is
where the worker of each launch is, with the app id it compared (`cur`), what the two
services returned (`lnc`, `sys`) and what it is about to report (`verdict`).

Actions, in the order of the code.  A request: `Watch`, `LookAtGame` and `Settle` (the
watchdog, which unlocks for the look), `Check` (busy or not), `NoMemory`, `Begin`,
`Create` (the thread, or the report that there is none).  A worker: `Look` (reports, and asks the
monitor's table), `Live` (asks the console), `Close` and `Closing`, `Submit` and
`Verify` for one service and then the other, `Final` and `Grace` when both said "not
yet", `Report`.  The monitor: `MonitorPolls`.  The console: `AppStarts`, by the user or
by a service that takes its time, `AppEnds`, and `Age`, the clock.

Abstractions: the phases in which a launch is busy are one, `progress`.  A wait may be
over at any moment, whether or not what it waits for has come.  A refresh of `g_running`
is one step, and so are the attempts of one service with and without a user context.
The title of a request is chosen when its launch begins; a request for the status is one
that ends at `Check`.  The threshold of the watchdog is 45 seconds at least, so `Age`
waits for the worker's first look at the game.  The activity counters are left out.
`appeared` is history: the launches whose title has run since they began.

Properties.

- `BusyNewest`: what is shown as under way is the newest launch.  Once nothing is under
  way the title may be another's: two requests can both pass the busy check, and the one
  whose thread cannot be created says so without a look at the generation
  (`cr_api_launch.c:114`).
- `VerifiedRan`: "verified" is said only of a launch whose title has run since it began.
- `NewestDone`: when the newest worker is done the launch is not busy, and no late
  watchdog has called it timed out.  A worker takes a bounded number of steps, each of
  which ends (the waits are timed), so a busy launch ends.
- `ReadyRan`: a title shown as ready has run since a launch of it began.  The code
  violates it.

### How `RepoMirror` corresponds to the code

State.  `progress` is `g_repo_mirror`.  `mirror` is where each request and the mirror
thread it started is, with the kind of source and how many are left (`todo`).  `queue` is
the `dl_queue_t` or `ex_queue_t` of the source at hand, `loader` where each of its threads
is.  `left`, `unlisted` and `unmanned` are history.

Actions.  `Start` (exclusion and reset), `Create` (the thread, or no thread), then per
source `Archive` or `NoArchive` and `List` (tree, contents, or nothing), `Crew` and
`JoinLoaders` (the threads of the queue), and `FinishMirror`.  A thread of a queue: `Claim`, one of `Skip`,
`Fail` and `Write`, then `Blame` (the consecutive failures and the stop) or `Count`, each
under the lock the code takes for it, so that another thread can come between.

Abstractions: a source is a number of files; which files are chosen from an archive or a
listing, and that duplicates are dropped before they are counted, is left out.  Skipped and
unchanged files are one counter.  Bytes, phases, warnings and names of missing files are
left out.  If threads cannot be created these are the last of a queue: the code joins as
many handles as it created, from the first on (`cr_repo_mirror.c:716`).  Deadlock is
checked: no request is ever stuck.

Properties.

- `OneMirror`: one mirror at a time, and the status is "running" exactly then, also after a
  start that failed for want of memory or a thread.
- `Accounted`: every entry of the total is counted once, in some thread's hands, still in
  the queue, or left there.
- `NothingForgotten`: entries are left in a queue only if the error says so, or if there
  was no thread for it (then the mirror is done, without an error).
- `DownloadStops`: after a download said "stopped" no thread takes another file.  For an
  archive this does not hold: `extract_loop()` asks for `write_fails >= 20`
  (`cr_repo_mirror.c:768`), and a write that another thread has under way resets it.

### How `HotkeyHook` corresponds to the code

State.  `hook` is the thread of the daemon with its locals under their own ideas:
`hooked` and `failed` are the pids it last hooked and last failed in, `attempt` the pid
that it counts for, `settle` and `ripe` the delay before the first attempt, `losses`,
`reinjects`, `totalFails` and `payloadFails` the counters, `gaveUp` and `loop` the two ways
to stop, `request` the hook request it is about to write.  `shell` is the console's shell
with the sites that carry a jump, `payloads` the payload threads in it, `inbox` the
datagrams at the signal port, `readyFile` the pid in the ready file, `watch` the watcher.

Actions.  A round of the thread is `CheckNothing` or `Check`, then perhaps `AttachFails` or
`Exec`, then `TakeAnswer` or `NoAnswer`, `Arm`, and one `ReceiveRequest` or `ReceiveOther`;
`NoticeImage`, `NoticePid`, `Settle`, `Succeed`, `Fail` and `PayloadFailed` are the parts of
a round as operators on its locals.  The payload: `PayloadFails`, `PayloadFindsHook` (the
answer "old"), `PayloadPrepares` and `PayloadCommits`.  The environment: `ShellEnds`,
`ShellStarts`, `ConsoleChanges`, `WatcherReports` (or misses), `Ripen`.

Abstractions: of time only the order of two delays is kept, that a shell has settled only
after the watcher's wait for its name is over.  The wait between two attempts is a round.
Sites are elements, and a commit or a write may take any of those it is meant for.  The
opening of the browser and what is sent to a running payload change nothing here.
A pid is not used again, which the watcher is there to notice too (`cr_hotkey_hook.c:113`).
`unanswered` and `attempts` are history, and so are `word` of the thread and `from` of an
answer: whose word it took that the shell is hooked.

- `Restraint`: a shell that cannot be hooked is left alone.  A shell is attached to at
  most `MaxTotalFails` times and at most `MaxPayloadFails` of its payloads fail, and after
  `MaxShellLosses` lost shells without a success the thread stops.
- `HookDecided`: if the shell stays and the console is awake, the thread decides for good
  that the hook is installed or that it gives up; and where it says installed, sites of this
  shell carry a jump, not only in its belief.  Excepted is the word of the ready file and of
  an answer sent in an earlier shell, which the thread takes without a look (see "Found
  while modelling").

### How `Injection` corresponds to the code

State: `ucred` is `g_ptrace_ucred_lock` with the credentials the daemon has, `caller` what
each thread inside the lock has saved, `inj` the injecting thread (its place in
`inject_hook`, `elfldr_exec` and `elfldr_prepare_exec`, whether it holds a window, has a
backup of the registers and is on its way to success), `dog` the watchdog, `process` the
process it injects into.

Actions.  `OpenWindow` and `CloseWindow` are `pt_batch_begin` and `pt_batch_end`.  Outside a
window every ptrace call takes the lock, raises, and puts back (`InjectorCalls` and the end
in the action that the call is for).  Then in order `Attach`, `Load`, `StartWatchdog`,
`PrepareStub`, `SaveRegisters`, `Hijack`, `Continue`, `StubEnds`, `JoinWatchdog`,
`RestoreRegisters`, `Detach`, each with the error path it has in the code; `LeaveStopped` is
an attach that times out and whose detach fails.  `CallHangs` and `CallReturns` are a remote
call that waits without a limit, before the watchdog is there (`elfldr_load`) or under its
eyes (the stub), inside a window or not; `Expire`, `WatchdogCalls` and `WatchdogDetaches` the
watchdog, whose time may be over at any step; `OtherLocks` and `OtherUnlocks` any other
thread that reads or writes memory under the same lock.

Abstractions: segments, relocations, addresses and the code of the stub; a request on a
stopped process that is traced is not refused when registers are restored and when it is
detached.

- `TargetRestored`: credentials are raised only by the holder of the lock and are back
  when it leaves, and an injection that reports success has put the registers back and let
  the process go, whether or not the watchdog came first.
- `LetGo`: a stopped process is let go, whatever fails, on every early return and however
  late the watchdog is, but in the cases `Unguarded` names: a call that hangs before there is
  a watchdog, or where none could be started; a watchdog that expires in a window; an attach
  that could not be taken back.
- `WatchdogLetsGo`: a watchdog that has expired lets the process go.  The code violates it:
  in a window it waits for the injector's lock.

### How `HttpServer` corresponds to the code

State: `main` is where `main()` is and the count of its loop, `old` what the older instance
is (found by name or not, killable or not, a zombie), `http` and `listener` the server's
thread and `g_http_listen_fd`, `resume` the flag that the signal handler sets and the
watchdog takes, `client` and `active` the connections and `g_active_clients`, `apply` the
holder of the apply lock, `quit` the shutdown.

Actions.  Boot: `KillOld`, `NoOldLeft`, `EvictOld`, `Evicted`, `StartThreads`.  Server:
`Listen`/`ListenFails`, `Accept`, `Refuse`, `Spawn`, `AcceptFails`/`StaleAcceptFails`.  The
console: `SleepAndResume`; the watchdog: `TakeFlag`, `ShutdownListener`.  Clients: `Close`,
`BeginApply`, `EndApply`, `RequestShutdown`.  The end: `CloseServers`, `Save`, `Kill`, or
`MainReturns`; `Ended` is what is left of a process that is over.

Abstractions: descriptor numbers are not reused; a request is one step, read by
`HttpRequest`; of the data that is loaded and saved only the time it takes matters.
`accept()` on a socket whose network is gone may block for ever, so `StaleAcceptFails` is
not fair.  That `socket()`, `bind()` and `listen()` succeed sometime once the port is free
is assumed.

- `Exits`: a shutdown that was asked for ends the process, whatever an apply does.
- `Listens`: once no older instance has the port and the server has started, it comes back
  to a healthy socket again and again, though standby takes it away.

### How `HttpRequest` corresponds to the code

`reading` is the place in `http_handle_client`, `cap`, `off`, `bodyAt` and `bodyLen` are
`cap`, `off`, `used` and `content_len`.  `ReadHead` is one `recv()` with the search for the
blank line, `CheckSize` the limit and the growth for the body, `ReadBody`, `HeadStops` and
`BodyStops` the rest; `Grown` is `http_grow_buf()`.  Sizes are scaled: what matters is how
they compare with each other and the limit, and that growth is by doubling.

- `InBuffer`: nothing is read or written outside the buffer, its last byte for the closing
  zero included, and a request that is routed is complete.

### How `Config` corresponds to the code

`cfg` is `g_cfg`, `stored` the file, `time` the clock, the file's time and `g_cfg_mtime`.
One setting stands for each kind: the port (which a reset keeps), a number with a range,
the log level (which a load passes over), two buttons that must differ, and the theme, a
text that is kept as it comes: a line, a line with blanks around it, or two lines of which
the second is a setting of its own (there is room for a port).  `SetNumber`,
`SetLevel`, `SetTheme`, `SetButton` and `Reset` change and save under the lock, and a save may fail.
`Edit` is another program.  `FindChange`, `Reload`, `KnowTime` are the hot reload;
`DaemonStarts` the load at boot.  `outside` and `unsaved` are history.

- `SavedIsLoaded`: what is set and saved is what a load gives back, so that the reload that
  follows every save changes nothing, and the two buttons always differ.  Two settings are
  excepted, since for them it does not hold: the level, and a theme that is not one trimmed
  line.  `Trimmed` says what a load makes of such a theme.

### How `CheatFiles` corresponds to the code

A file is a number, its place in the order of the scan; `library` says what its name says
(title, format, folder, version, the versions it mentions), `disk` the write its content is
from, which is also its time.  `manual` is `g_manual_sel`, `document` the cached document,
`poll` where each request for a title's cheats is in `find_cheat_file_for_title` and
`load_cheat_json_root_for_title_ex`, `select` the request that chooses a file by hand.

Operators: `Normal`, `SameVersion` and `Newer` (`cr_version.c`), `Score`, `Match`,
`BestByMatch`, `ScanBest` and `ByRules` (scan and ranking), `Used` (what the engine takes,
which a selection asks for).  Actions: `PollStarts`, `PollTriesManual`, `PollScans`, `PollStats`,
`PollAsksCache`, `PollReads`, `PollKeeps`, `PollAnswers`; `SelectStarts`, `SelectChecks`,
`SelectStores`, `SelectAuto`; `WriteFile` (upload, download, mirror) and `Delete`.

Abstractions: names and paths; a scan is one step; two writes in the same second are two
times, which the code, whose `st_mtime` has seconds (`cr_api.c:1529`), cannot tell apart; a
file is replaced as a whole.  The list of candidates on the page
(`find_cheat_candidates_ex`) asks the same rules, and is left out.

- `FreshDoc`: a request answers with the file it looked up, in a content at least as new as
  the file was when it looked.

### How `CheatPage` corresponds to the code

`ranges` is the game's memory at the entries of one cheat, `engine` the pass of
`apply_cheat_json_impl` that may be under way for it or for a rival that shares entries,
`records` the tables, `cheat` what the file says of the originals, the mastercode, a crash
suspect and the safeguards.  `request` is one evaluation of the cheat in
`handle_api_cheats_state`: `RequestStarts` (and `Blocked`, why memory is not read),
`FindModule`, `ReadEntry` with `Finding`, `Rank` with `Ranked`, then the tables one after
another, `AskDisabled`, `AskEnabled`, `AskSuspects`, `AskRivals`, and `Answer`; `Offer` is the
button that goes with the state.

Abstractions: bytes are of five kinds, and where a mastercode may have moved an entry
anything may be found (`Readings`, `cr_api.c:2082`); cheats whose on and off bytes are the same are left
out; `quiet` is history, that the engine has done nothing since the request began.

- `OffersOpposite`: when the engine rested, a cheat that is wholly in memory is offered to
  be switched off, one that is not there and not recorded is offered to be switched on,
  whatever the file tells of the original bytes.

## 3. Runs

| Run | Instance | Shows |
|---|---|---|
| `apply_safeguards` | 2 threads (symmetric), 3 cheats with 5 entries: 0 conflicts with mastercode 1, on which 2 (hook, cave, short write on the cave's page) depends; 1 game process; trylock, cooldown; five layouts | `TypeOK`, `LockInv`, `HookNeedsCave`, `AllOrNothing` |
| `apply_restarts` | 2 threads, both also serve disable-all; 1 cheat, a hook with its cave; 2 game processes; requests wait for the lock, no cooldown; three layouts, of which one refuses the hook and one has the cave's page unmapped; under fairness | `RecordsMatchMemory`, `ImplementsToggle`, `Answered` |
| `apply_both_off` | 1 thread, the file of the first run | violates `NotBothOff` |
| `apply_torn` | 1 thread, a range that is torn | violates `AllOrNothing` |
| `patch_and_mirror` | Six components, one after the other (`MCServices`).  Patches: 2 threads (symmetric) and the monitor; a patch with a jump and its cave across two pages, a patch with a pattern line, a line over the same cell and a pattern jump; three layouts, two with a fault in each patch; one glitch.  Mirror: 2 requests, 2 threads per queue, sources of 0 or 4 files, up to 2 sources, a stop after 2 failures.  Request: a buffer of 2, a limit of 16.  Settings: 2 buttons, 2 seconds, 4 themes; edited files with each pair of buttons, number and theme (`MCEdits`).  Files: one title, 3 files, two collections, 2 polls, 2 candidates.  Page: 2 entries, one a cave, one a hook, both shared with a rival | `OneWriter`, `RolledBack`, `NoJumpIntoNothing`, `Recoverable`, `MarkedRestorable`, `RestoredToOriginal`; `OneMirror`, `Accounted`, `NothingForgotten`, `DownloadStops`; `InBuffer`; `SavedIsLoaded`; `FreshDoc`; `OffersOpposite`; `ServicesTypeOK` |
| `host` | Four components, one after the other (`MCHost`), under fairness.  Patches: 2 threads and the monitor, 2 one-line patches, one backup slot, one glitch.  Hook: 2 shells, 1 site, 3 failures, 1 failed payload, 1 lost shell.  Server: 3 clients, a limit of 2, an older instance of each kind.  Injection: with and without a window, calls that hang, a watchdog that may expire at any step | `Answered`; `Restraint`, `HookDecided`; `Exits`, `Listens`; `TargetRestored`, `LetGo`; `HostTypeOK` |
| `injection_window` | the injection of `host` alone, under fairness | violates `WatchdogLetsGo` |
| `patch_again` | 2 threads, 1 patch, `Again = TRUE` | violates `RestoredToOriginal` |
| `crash_guard` | 1 user, 1 autoload worker, the monitor; 2 titles, of which one has a cheat, in its profile; 2 game processes; any number of restarts | `TypeOK`, `Justified`, `Flagged`, `OnlySurvivorsForgiven`, `FileAgrees` |
| `crash_autoload` | the same | violates `AutoloadSparesSuspects` |
| `launch_reports` | 2 requests and 2 titles (symmetric), 2 launches, 2 apps, current game killed first | `TypeOK`, `BusyNewest`, `VerifiedRan`, `NewestDone` |
| `launch_ready` | 2 requests, 1 launch | violates `ReadyRan` |

Bounds.  `MaxPid` is the number of game processes: two are enough for a pass, a record
and a disable-all that were meant for the first to meet the second.  Two threads are
enough for every race on a lock with one holder and tables that carry no thread.
Three cheats make the recursion as deep as it gets in the file (2 switches 1 on,
which switches 0 off), five entries give both write passes, the page rule for caves
and a rollback of more than one entry.  `Sweepers` says which threads may serve
disable-all.  `CHECK_DEADLOCK` stays on: an idle thread can always be asked.
In `apply_restarts` one cheat is enough: what is at stake there is the process a pass or a
record is meant for, and two threads already contend for that cheat; conflicts, the
mastercode and overlapping entries are the matter of `apply_safeguards`, and the theorems
are about any number of cheats.

In the patch runs one game process is enough: nothing but its pid ties a later one to
an earlier one, and a request or an undo that outlives its process is met when the
process ends at any step.  One glitch lets the monitor undo a living game once, at any
moment.  `Slots` is 2 where both patches must fit and 1 where the second must not.
`LineMax` (4 cells) lets the cave's two lines merge.

`MCServices` and `MCHost` put components side by side that share no variable: the first
step chooses which of them moves, each is explored as if alone, and a part that does not
move has one initial state.  For the mirror two threads race on the queue and on the count
of failures, four files let the stop come before the end with an entry in another thread's
hands, and two sources let a queue follow one that stopped.  Its number of starts is not
bounded.  A limit of 16 is three doublings above a buffer of 2: growth meets the limit in
the header and in the body.  Two seconds let a save and an edit fall into the same or into
different ones.  Three files and two candidates let the limit of the scan cut one off, and
the two collections have a tie that the version decides, a version that is equal only after
its zeros are dropped, and one that another folder mentions.  `MaxWrites` counts the content
that is there as the first, so one write can come between any two steps of the polls.

In `host` two shells give a restart, at any step of a round and of a payload; the limits of
the counters are small so that each is met, and in every order that the resets allow.  Three
clients meet the limit of two.  The injection is not bounded.  `CHECK_DEADLOCK` is off: a process that has been shut down is
over.  In the other passing runs it stays on.

In `crash_guard` three threads can be in a refresh, or hold a snapshot, at once.  Two
processes give a stop, a swap to the other title and a restart of the same title that
goes unnoticed; `Window` is one tick, so a guard is either young or over; two suspect
records let a cheat be marked twice and the table be full.  With one cheat `GuardMax`
is never the limit: a cheat that finds no room has no guard, and `Flagged` says nothing
of it.

In `launch_reports` two launches are a current and a superseded one, which is all that
the generation tells apart; two titles let the newest launch be confused with the other
one or with what already runs; two apps let a title run, end and start again, or be
replaced.  Two requests can both be past the busy check, or one in the watchdog while
the other begins.  `KillCurrent = FALSE` only skips `Closing`.  `CHECK_DEADLOCK` stays on:
a request can always ask for the status.

Fairness.  `FairSpec` asks weak fairness of each thread's `Step`: a thread inside the
engine keeps running, since nothing in the path waits for anything but the lock and
the lock's holder runs under the same assumption.  Nothing is assumed of the user, the
game, the clock or the monitor.  When requests wait for the lock (not the default, which is
a trylock) it is a plain mutex, which promises no fairness: `Answered` allows that a thread
waits for ever while others get the lock (`PassedOver`), and nothing else.

`PatchEngine` asks weak fairness of each thread's `Work`, of the monitor's `Poll` and of
its `Undo`, and nothing stronger.  A blocked `pthread_mutex_lock` may be passed over, so
`Answered` promises an answer only to a request that got the lock.

`HostFairness` is weak fairness of the other parts' threads: the hook's thread (it polls;
its receive has a timeout), the delay and the watcher's wait, which are clocks; `main()` up
to its join, the network watchdog, the thread that ends the process, and of the server what
waits for nobody; the injecting thread, its watchdog, and the unlock of any other thread.
Not fair are the user, the shell, the payloads, the network, clients, an apply (it may be
stuck), an `accept` on a dead socket and a remote call that hangs.  The one strong
fairness is of those who take the lock of the credentials: it is free again and again, and
a thread that waits for it gets it sometime.  Plain mutexes do not promise that; without it
the watchdog could be passed over for ever by the calls of the others, which each end in
microseconds.

The findings:

- `apply_both_off`: the comment at `cr_cheats.c:1152` gives the reason for an early
  cooldown check ("or both cheats end up OFF").  The check is made, but the nested call
  that switches the conflicting cheat off starts the cooldown anew, and the check under
  the lock turns the outer request away: with the default configuration the first click
  on a cheat leaves both off and answers 429.
- `apply_torn`: the rollback (`README.md:45`) covers the entries that were written and
  verified, not the one that failed; when that one stopped half way, its first half stays.
- `injection_window`: the watchdog of an injection is a "safety net", since "the target stays
  ptrace-stopped if one blocks" (`elfldr.c:389`), and logs that it is letting the process go
  "so it doesn't stay stopped" (`elfldr.c:406`).  `inject_hook`, from which every injection
  comes, opens a credential window (`cr_hotkey_hook.c:360`) and holds its lock to the end;
  the watchdog's `pt_detach` waits for that lock (`elfldr.c:409`).  A call that does not
  return keeps the shell stopped; and if the injection only takes longer than the watchdog
  waits, the injector joins the watchdog (`elfldr.c:590`) that waits for the injector's lock,
  and shell, thread and every other user of the lock stay where they are.
- `patch_again`: "Restore puts the original bytes back." (`src/web/app.js:1440`).  Nothing
  stops a second apply of a patch that is in place; it reads the patched bytes as the
  original ones and replaces the backup.  The restore then answers ok and the patch stays.
- `crash_autoload`: "mods that crashed the game are flagged and blocked from re-enabling
  automatically" (`README.md:49`).  Only the toggle handler looks at the flag; the autoload
  calls the engine directly, so a cheat of a profile that crashes its game is switched on
  at every start of it.
- `launch_ready`: when both services accept a launch and the title never comes up,
  `launch_title` logs "all launch methods failed" and returns the first service's code
  (`cr_launch.c:371`).  If that is 0, the worker takes it for success: the phase is "ready"
  and the web interface shows "All launch methods failed" as a success (`web/app.js:472`).

## 4. Proofs

Each theorem is about the specification for every value of its constants that satisfies the
module's assumption; TLC evaluates every one of these assumptions in a run.  For the cheat
engine that is every cheat file, layout, configuration, number of threads and of processes
(`LayoutAssumption`, `ConfigAssumption`: indices are naturals, every entry has a cheat, a
range and a page).  Where a theorem needs more than that, the hypothesis is in its statement.

The cheat engine (`CheatApplyProofs`, `CheatApplyMemoryProofs`).

- `TypeCorrect`: `Spec => []TypeOK`.
- `LockCorrect`: `Spec => []LockInv`, from `TypeOK`: each step moves one thread, and
  only `TakeLock` and the steps that unlock cross the border of the locked part
  (`MoveUnlocked`, `MoveInside`, `MoveOut`).
- `MemoryCorrect`: `Spec => []IInv`, the inductive invariant of `CheatApply`, under `NoTear` (no layout has a torn range;
  `apply_torn` shows that the hypothesis is needed).
- `HookNeedsCaveCorrect`, `AllOrNothingCorrect`, `RecordsCorrect`: the safety
  properties follow from `IInv` and `LockInv`.

`IInv` is needed because none of the three is inductive: whether a half-written cheat
can be taken back depends on what the pass has done so far.  `MemoryInv` says that a
cheat with no pass under way is whole; that in a pass each entry holds the new bytes
if it is in `done` and the old ones otherwise, that `done` is a prefix of the write
order, that every written entry can be put back, and that the old bytes were all "on"
or all "off"; and that a thread whose process was replaced finds no memory to spoil.
`RecordInv` says that the records speak of the memory before the pass, and what is in
memory between the two table updates.  `HookNeedsCave` then follows from the prefix:
the write order puts caves first on enable and hooks first on disable.  The step proof
has one lemma for each kind of step that matters (`PreReadKeeps`, `WriteKeeps`,
`RollbackKeeps`, `WriteFailsKeeps`, `CommitKeeps`, `RecordKeeps`, `ReleaseKeeps`,
`StartKeeps`, `EndKeeps`) and one, `Frame`, for all the others.

- `ImplementsToggleCorrect`: `Spec => ImplementsToggle` under `NoTear`: every behaviour of the
  engine, seen through the refinement mapping, is one of `CheatToggle`.  `InitMaps` has the
  initial states.  For the steps (`NextMaps`) the mapping says at any moment which cheats the
  game has and which toggle is under way, so it matters only which steps change that: the
  write that makes a pass whole is `Commit` (`WriteMaps`), the pre-read and the release are
  `Begin` and `Close`, the start and the end of the game `Start` and `Stop`, and every other
  step, rollbacks and the record tables included, a stutter (`QuietView`, `UnseenMaps`).  That a rollback never starts from a whole pass, and that
  the pid of a finished pass was started once, is not in `IInv` and is the invariant
  `ViewInv`.

The patch engine (`PatchEngineProofs`), for every set of threads, patches, plans, slots and
layouts with `PatchAssumption` and `PlanAssumption`.  The latter says that a plan is a
sequence of lines with at least one write each and that the writes are byte patterns over the
memory: `BuildPlan` makes plans with the folds of the library, and what a fold computes for
every input is induction over data, so TLC evaluates it for the plans of the run instead.

- `OneWriterCorrect`: `Spec => []OneWriter`.  `OneWriter` ties the flag to the threads in the
  pass; the inductive `LockIInv` ties it to the lock (`applying <=> lock \in Threads`), which
  a single step can be checked against, and adds the types of the control state.  Each step
  moves one thread (`ThreadMoves`) or the monitor (`MonitorMoves`) on one side of the lock,
  except those that take or release it.
- `PatchTypeCorrect`: `Spec => []TypeOK`, from `PatchIInv`, which types the backups, the slots
  and the place in the plan of each request as well.  `RemoveBackupFacts` (the removal that
  moves the last slot) and `ClearFacts` (the loop that clears the slots of one process) are
  lemmas about the store that all later proofs use; `ClearLoop` is by induction over the turns.
- `RolledBackCorrect`: `Spec => []RolledBack`.  The invariant `RollIInv` says of a pass under
  way that its backups, undone from the last to the first, give the memory it found
  (`Undoes`): one more write keeps that (`UndoesMore`), one step of the rollback does
  (`UndoesLess`), and with no backup left it is `RolledBack` (`UndoesNothing`).  Nothing is
  assumed about lines that overlap.
- `MarkedRestorableCorrect`, `RecoverableCorrect`, `RestoredToOriginalCorrect`: where
  `Again = FALSE`.  The hypothesis is the one that the run of the finding `patch_again` shows
  to be needed: the code does not refuse a second apply of an applied patch, and its backup
  is then of the patched bytes.  `MarkIInv` ties each mark to a slot of the store; it needs
  that requests for one patch do not overlap (`Alone`) and that the monitor undoes a process
  that has ended, or else the game was once not reported though it ran (`Gone`).  `CoverIInv` is about the cells that one write reaches (`Sole`):
  every cell that is changed is in the request's backups, in the rest of a restore's, in the
  monitor's, or in the store (`RequestsCover`, `MonitorCovers`, `StoreCovers`), each backup
  of such a cell holds the game's own byte (`AllClean`), and a patch with a changed cell has a
  record or a request that carries its bytes, unless its record was given up (`Kept`).  `CellsFall` is the lemma that carries it:
  a cell of a patch leaves the game's own byte only by a write of that patch.
- `NoJumpCorrect`: `Spec => []NoJumpIntoNothing`, where `Again = FALSE` and the plans are
  `Tidy`.  `JumpIInv` adds to `CoverIInv` that the writes an apply has behind it are in memory
  or their line was skipped (`Behind`), that its backups lead back through sound memories only
  (`Retraces`), that a backup is of cells of its own patch (`AllOwn`), and that a patch is sound
  unless it is being restored (`AllSound`).  `Sound` is the property for one patch and one memory.
  The write order gives that a jump is written when what it leads to is there, the rollback
  retraces it.
  `Tidy` says that no other write reaches a jump or its target, that a jump changes the game's
  bytes (`OwnJumps`), and that a target comes before the line that jumps to it
  (`TargetsFirst`).  The first two are about the patch file: with two patches over one hook, restoring them in the wrong order can bring
  a jump back without its cave, as `Recoverable` excludes too.  The third is what `BuildPlan`
  orders the lines for, as far as it can: not where jumps go in a circle, or back from one run
  of addressed lines into a later one.

Launches (`LaunchProofs`).

- `LaunchTypeCorrect`, `BusyNewestCorrect`, `VerifiedRanCorrect`, `NewestDoneCorrect`: the
  safety properties of `Launch` for any number of requests, titles, launches and apps, under
  `LaunchAssumption`.  They follow from `IInv` of `LaunchProofs` (`LaunchCorrect`), which
  adds what the late reporters know: a request that creates a worker has a launch of its
  own (`Creating`); the watchdog is only after launches whose worker has looked for a
  running game (`Watching`); if the console runs the title of a launch, or if the monitor
  says so once that launch's worker has looked, the title has run since the launch began
  (`RanSince`), which needs that an app id belongs to one app (`OneApp`); and a worker about
  to say "ready and verified" has seen it (`Verdicts`).  Each action of a worker is first
  summed up as `Worked` (what becomes of its record and of the status), and `WorkKeeps`
  takes the invariant over all of them; `RequestKeeps` does so for the requests that only
  move on, `BeginKeeps` and `CreateKeeps` for the others.

The repo mirror (`RepoMirrorProofs`).

- `MirrorTypeCorrect`, `OneMirrorCorrect`, `AccountedCorrect`, `NothingForgottenCorrect`: the
  invariants of `RepoMirror` for any number of requests, threads, files and sources, under
  `MirrorAssumption` (the limit is positive, sizes are naturals, the threads finite in
  number), which the run evaluates.  `IInv` of `RepoMirrorProofs` adds that only a mirror
  that waits has threads (`Manned`) and only one with threads to start or to wait for has a
  queue (`Queued`), so that the sum of `Accounted` starts from nothing in hand; `Explained`
  adds that the count of failures implies the stop, the stop the error, and that the last
  thread leaves a queue with entries only after the stop.

- `DownloadStopsCorrect`: `MirrorSpec => DownloadStops`, an action property.  A
  thread takes an entry only with a claim, which asks for the stop first (`LoadTakesNothing`),
  and the mirror makes the next queue, with the stop taken back, only when the last one is gone
  (`RunTakesNothing`, from `Queued` of `IInv`).

Crash guards (`CrashGuardProofs`), for any threads, cheats, profiles and table sizes.

- `GuardTypeCorrect`, `FileAgreesCorrect`, and the action properties `JustifiedCorrect`,
  `FlaggedCorrect`, `OnlySurvivorsForgivenCorrect`.  The inductive invariant `GuardIInv` has
  the types; that only a stopped game is judged (`Refreshing`); that a failed request has only
  the unlock before it (`Failing`: without it the invariant is not inductive, since a failed
  request about to arm a guard would date one that no switch-on explains); that a guard and the
  history `since` tell the same (`Dated`); and that each change of the table has a snapshot and
  a write still to come (`Saved`), which is `FileAgrees` when none is.  A table is full by the
  sum of its records; `SumFacts` has what is needed of such sums.

Services (`ServicesProofs`).

- `InBufferCorrect`: for any sizes and any arrival of the bytes, from `RequestIInv`.  The lemma
  that matters is `GrownFits`: the doubling ends, at a size that is enough or at the limit.
- `SavedIsLoadedCorrect`: for any buttons, edits and failing saves.  `Sound` is what the checks
  of the requests establish; `SoundIsLoaded` says that a load leaves sound settings alone but
  for the level and the blanks of a theme (`Kept`), if the theme is one line; `LoadedIsSound`
  that what is loaded would be loaded again.
- `FreshDocCorrect`: for any titles, collections, versions and selections.  A poll has a file of
  its title, or none, which needs that the rules name one that is there (`RulesName`):
  `NewerTransitive` and `NewerAsymmetric` make the comparison of versions an order, so that
  there is a best file (`BestExists`, `ScanBestExists`).
- `OffersOppositeCorrect`: for any number of entries.  `PageIInv` says what a request knows of
  memory it has read (`SeenIsThere`) and that its verdict is true of it (`StateIsTrue`);
  `Counted` has the sums over the entries that the ranking compares.
- `ServicesTypeCorrect`: the types of the six side by side.

Host (`HostProofs`).

- `TargetRestoredCorrect`: `InjectionIInv` adds that a window is held by the thread that opened
  it, that registers are saved before they are changed (`CopyKept`), and that the copy is back
  before the process is let go (`CopyBack`).
- `RestraintCorrect`: for any bounds and any number of restarts of the shell.  `Restraint`
  speaks of history; `HotkeyIInv` ties it to the counters of the thread: `AttemptsCounted` and
  `LossesCounted` bound what has happened by what is counted, `KnowsPast` says that the thread
  knows no pid that has not been there, and `NewsFirst` that the news of a shell is taken before
  the first attempt at it, so that no later news resets what was counted.
- `HostTypeCorrect`: the types of the four side by side.

Model-checked only:

- what lives in time: `Answered` of both engines, `HookDecided`, `Exits`, `Listens`, `LetGo`.
  Liveness under fairness, and ENABLED, are out of the proof system's reach;
- that `BuildPlan` puts targets first (`TargetsFirst`) and makes plans as `PlanAssumption` says:
  it is built with folds, so this is induction over data.  TLC evaluates both for the plans of
  the runs, and the first for every file of up to three lines over four cells with jumps to
  anywhere: where some order of the blocks has targets first, the plan has
  (`TargetsFirstWherePossible` in `MCHost`);
- the layouts with a torn range, and `Again = TRUE`: there the properties are false, as the
  runs `apply_torn` and `patch_again` show;
- the properties of the other violation runs, which the code does not have.

## 5. Plan

In this order, the most important behaviour first:

1. Done: `CheatApply`, `CheatToggle`, their runs and proofs.
2. Done: `CrashGuard`, its runs and proofs.
3. Done: `PatchPlan`, `PatchEngine`, their runs and proofs.  Left:
   the capacity of the backups of one apply (`cr_patch_parser.c:1491`), and an abstract
   "every applied patch can be taken back" that it implements.
4. Done: `Launch`, its runs and proofs.
5. Done: `RepoMirror`, its run and proofs.
6. Done, with proofs of safety: `HotkeyHook` and `Injection`.
7. Done, with proofs of safety: `HttpServer` and `HttpRequest`.
8. Done, with proofs: `Config`, `CheatFiles`, `CheatPage`.
9. `Autoload` composed with the apply path's answers: deadline, abort on swap; the shutdown
   composed with the apply path, so that what a kill leaves in memory is seen.
10. The library scan: one at a time, the cached list served meanwhile.

Proofs: every safety invariant and action property of a passing run has a theorem, and the
refinement of `CheatToggle` too.  Left are the abstract specification of entry 3 and the
proofs for entries 9 and 10 once they are modelled; liveness stays with TLC.

## 6. Found while modelling

Beside the findings of section 3, what the code does where a reader may expect otherwise.
None of this is promised by a document strongly enough, or shown by a run, to be listed as
a finding.

- The ready file is written before the sites are armed (`cr_hotkey_hook.c:420`).  If that
  fails, for all of them, the attempt counts as failed, but the next look reads the file, logs
  that the shell "already has the hooks armed" and counts it as hooked, against the comment at
  `cr_hotkey_hook.c:565` ("A previous CheatRunner already armed this shell").  `HookDecided`
  excepts this belief; without the exception the run fails on it.
- A hook request that comes late is armed in whichever shell runs now, without asking which
  shell sent it (`cr_hotkey_hook.c:641`), and its word that sites are armed is believed.
- An attach that times out and whose detach fails leaves the shell stopped for good, as its
  log says (`pt.c:215`); the remote calls of `elfldr_load` run before there is a watchdog.
- A theme is stored as it comes (`cr_api_config.c:141`) and written as one line
  (`cr_config.c:152`): with a line break in it, the next load takes what follows for another
  setting, and blanks around it are lost.
- Injections may overlap in one shell, as a payload that was given up on may still run.
- The network watchdog reads the descriptor without a lock; the number it shuts down may be
  that of a socket opened since (`cr_http.c:488`), and shutdown and server may close the same
  number.  `main()` may return before the saves of a shutdown have ended.
- The log level: "Always starts at debug; a change in Settings lasts until the next start."
  (`cr_config.c:280`).  A save does not update `g_cfg_mtime`, so the next look of the monitor
  (`cr_config.c:371`, half a second later) loads the file and sets the level back to debug.
- `g_cfg_mtime` is asked for after the file was read (`cr_config.c:317`): an edit between the
  two, or a second one in the same second, is not noticed.
- `cheat_master_code_fixup` is "On by default" and 1 in the initial settings
  (`cr_config.c:48`), and 0 in the defaults that a load and a reset start from (line 97).
- A cooldown out of range is 500 when it is set (`cr_api_config.c:149`) and 0 when it is loaded
  (`cr_config.c:254`); since what is set is always in range, only an edited file shows it.
- A manual selection whose file is gone is cleared after an unlocked look
  (`cr_cheats.c:494`), and may be a newer selection by then.
- The guard against changing the file while cheats are on is in `select` only
  (`cr_api.c:2474`): select/auto, a download, an upload and a delete can change it too.
- `?format=` in the cheat list (`cr_api.c:1370`) shows another file than the engine uses.
- A file of the exact version that the scan meets after 64 others is not found.
- Two writes of a file in the same second are the same to the cache.
- The conflicts of a page are computed from whatever document the one-document cache holds
  at that moment (`cr_api.c:1486`), which may be another title's by then.
- `cr_cheats.c:310` says that a wrong version "blocks"; the code falls back to it
  (`ByRules`).

## 7. Not modelled, and why

Text formats, logging, network clients, name lookup and kernel interfaces hold no protocol
state; the front end only drives the API.  Activity, favorites and notifications are bounded
lists under one lock each.  The library scan is planned.  What the hooks do inside the shell
when a button is pressed, and the contents of the patch index, are left out of modules that
model the rest of their component.
