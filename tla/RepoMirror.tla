----------------------------- MODULE RepoMirror -----------------------------
(***************************************************************************)
(* Downloading cheat and patch collections (cr_repo_mirror.c).  A request  *)
(* starts one thread, the mirror, unless one runs.  For each source it     *)
(* gets the archive and unpacks it, or lists the files and downloads them, *)
(* with threads that take entries from a common queue and count what       *)
(* becomes of them in g_repo_mirror.                                       *)
(*                                                                         *)
(* A number of files stands for a source; skipped and unchanged are one    *)
(* counter; bytes, phases, the warning and the names are left out, and so  *)
(* is patch_index_refresh() (see PatchEngine).  If threads of a queue      *)
(* cannot be created these are the last ones: the code joins as many as    *)
(* were created, from the first on.                                        *)
(***************************************************************************)
EXTENDS Integers, FiniteSets

CONSTANTS
  Requests,   \* threads of HTTP clients, each with the mirror it may start
  Loaders,    \* the threads that serve a queue
  Limit,      \* how many writes fail in a row before a queue stops (20)
  Sizes,      \* how many files a source may have
  Sources     \* how many cheat sources there are

ASSUME MirrorAssumption ==
  /\ Limit \in Nat \ {0} /\ Sizes \subseteq Nat /\ Sources \in Nat
  /\ IsFiniteSet(Loaders)

VARIABLES
  progress,  \* g_repo_mirror
  mirror,    \* where each request and the mirror it started is, with its locals
  queue,     \* dl_queue_t or ex_queue_t, which has no abort: there it is a history
  loader,    \* where each thread of the queue is
  left,      \* history: the entries that nobody took
  unlisted,  \* history: the sources of which nothing was had
  unmanned   \* history: there was a queue without a thread

mirrorVars == <<progress, mirror, queue, loader, left, unlisted, unmanned>>

NoProgress == [state |-> "idle", total |-> 0, downloaded |-> 0, skipped |-> 0, failed |-> 0,
          error |-> FALSE]
NoMirror == [pc |-> "idle", kind |-> "cheats", todo |-> 0]
NoQueue == [kind |-> "none", count |-> 0, next |-> 0, fails |-> 0, abort |-> FALSE]
NewQueue(kind, n) == [NoQueue EXCEPT !.kind = kind, !.count = n]

Progress ==
  [state : {"idle", "running", "done", "error"}, total : Nat, downloaded : Nat, skipped : Nat,
   failed : Nat, error : BOOLEAN]
Mirrors == [pc : {"idle", "create", "source", "listing", "crew", "join"},
            kind : {"cheats", "patches"}, todo : Nat]
Queues == [kind : {"none", "extract", "download"}, count : Nat, next : Nat, fails : Nat,
           abort : BOOLEAN]

MirrorTypeOK ==
  /\ progress \in Progress /\ mirror \in [Requests -> Mirrors] /\ queue \in Queues
  /\ loader \in [Loaders -> {"off", "claim", "entry", "blame", "count"}]
  /\ left \in Nat /\ unlisted \in Nat /\ unmanned \in BOOLEAN

MirrorInit ==
  /\ progress = NoProgress /\ queue = NoQueue
  /\ mirror = [r \in Requests |-> NoMirror]
  /\ loader = [w \in Loaders |-> "off"]
  /\ left = 0 /\ unlisted = 0 /\ unmanned = FALSE

history == <<left, unlisted, unmanned>>

----------------------------------------------------------------------------
(* repo_mirror_start(), mirror_thread() and mirror_one_source().           *)

At(r, pc) == mirror[r].pc = pc
Goto(r, pc) == mirror' = [mirror EXCEPT ![r].pc = pc]
NextSource(r) == mirror' = [mirror EXCEPT ![r].pc = "source", ![r].todo = @ - 1]

Begins(r) ==
  /\ At(r, "idle")
  /\ progress' = [NoProgress EXCEPT !.state = "running"]
  /\ \E kind \in {"cheats", "patches"}, todo \in {1, Sources} :
       /\ kind = "patches" => todo = 1
       /\ mirror' = [mirror EXCEPT ![r] = [pc |-> "create", kind |-> kind, todo |-> todo]]
  /\ left' = 0 /\ unlisted' = 0 /\ unmanned' = FALSE
  /\ UNCHANGED <<queue, loader>>

\* Mutant of Start: a mirror that runs is no obstacle.
StartAnyway(r) == Begins(r)

\* One source, or all that have cheats.
Start(r) == progress.state # "running" /\ Begins(r)

\* The thread, or no memory or no thread for it.
Create(r) ==
  /\ At(r, "create")
  /\ \/ Goto(r, "source") /\ UNCHANGED progress
     \/ Goto(r, "idle") /\ progress' = [progress EXCEPT !.state = "idle"]
  /\ UNCHANGED <<queue, loader, history>>

\* mirror_try_archive(): the archive (one of the two of a patch source) is there
\* and has files that can be used.
Archive(r) ==
  /\ At(r, "source") /\ mirror[r].todo > 0
  /\ \E n \in Sizes \ {0} :
       /\ progress' = [progress EXCEPT !.total = @ + n]
       /\ queue' = NewQueue("extract", n)
  /\ Goto(r, "crew")
  /\ UNCHANGED <<loader, history>>

NoListing(r) ==
  /\ progress' = [progress EXCEPT !.failed = @ + 1]
  /\ NextSource(r)
  /\ unlisted' = unlisted + 1
  /\ UNCHANGED <<queue, loader, left, unmanned>>

NoArchive(r) ==
  /\ At(r, "source") /\ mirror[r].todo > 0
  /\ \/ mirror[r].kind = "patches" /\ NoListing(r)
     \/ /\ mirror[r].kind = "cheats" /\ Goto(r, "listing")
        /\ UNCHANGED <<progress, queue, loader, history>>

\* The files are listed one by one, if at all; only the tree can be empty.
List(r) ==
  /\ At(r, "listing")
  /\ \/ NoListing(r)
     \/ /\ \E n \in Sizes \ {0} :
             /\ progress' = [progress EXCEPT !.total = @ + n]
             /\ queue' = NewQueue("download", n)
        /\ Goto(r, "crew")
        /\ UNCHANGED <<loader, history>>
     \/ /\ 0 \in Sizes
        /\ NextSource(r)
        /\ UNCHANGED <<progress, queue, loader, history>>

\* Some of the threads may not be there; unpacking the mirror itself takes part.
Crew(r) ==
  /\ At(r, "crew")
  /\ \E crew \in SUBSET Loaders :
       /\ queue.kind = "extract" => crew # {}
       /\ loader' = [w \in Loaders |-> IF w \in crew THEN "claim" ELSE "off"]
       /\ unmanned' = (unmanned \/ crew = {})
  /\ Goto(r, "join")
  /\ UNCHANGED <<progress, queue, left, unlisted>>

JoinLoaders(r) ==
  /\ At(r, "join")
  /\ \A w \in Loaders : loader[w] = "off"
  /\ left' = left + (queue.count - queue.next)
  /\ queue' = NoQueue
  /\ NextSource(r)
  /\ UNCHANGED <<progress, loader, unlisted, unmanned>>

FinishMirror(r) ==
  /\ At(r, "source") /\ mirror[r].todo = 0
  /\ LET lost == progress.downloaded = 0 /\ progress.skipped = 0 /\ progress.failed > 0
     IN  progress' = [progress EXCEPT !.state = IF lost THEN "error" ELSE "done",
                                      !.error = @ \/ lost]
  /\ Goto(r, "idle")
  /\ UNCHANGED <<queue, loader, history>>

----------------------------------------------------------------------------
(* dl_worker_fn() and extract_loop().                                      *)

Becomes(w, pc) == loader' = [loader EXCEPT ![w] = pc]
mirrors == <<mirror, history>>

\* Mutant of Stopped: a download too goes by the failures in a row.
StoppedNow == queue.fails >= Limit

\* A download that was stopped stays so, an extraction only while no write
\* succeeds.
Stopped == IF queue.kind = "download" THEN queue.abort ELSE queue.fails >= Limit

\* Mutant of Claim: the index may be one too high.
ClaimPastEnd(w) ==
  /\ loader[w] = "claim"
  /\ IF Stopped \/ queue.next > queue.count
     THEN Becomes(w, "off") /\ UNCHANGED queue
     ELSE Becomes(w, "entry") /\ queue' = [queue EXCEPT !.next = @ + 1]
  /\ UNCHANGED <<progress, mirrors>>

Claim(w) ==
  /\ loader[w] = "claim"
  /\ IF Stopped \/ queue.next = queue.count
     THEN Becomes(w, "off") /\ UNCHANGED queue
     ELSE Becomes(w, "entry") /\ queue' = [queue EXCEPT !.next = @ + 1]
  /\ UNCHANGED <<progress, mirrors>>

\* The file is there already, is the same, or is empty.
Skip(w) ==
  /\ loader[w] = "entry"
  /\ progress' = [progress EXCEPT !.skipped = @ + 1]
  /\ Becomes(w, "claim")
  /\ UNCHANGED <<queue, mirrors>>

\* Mutant of Fail: only what cannot be had is counted.
FailUncounted(w) ==
  /\ loader[w] = "entry"
  /\ \/ Becomes(w, "claim") /\ progress' = [progress EXCEPT !.failed = @ + 1]
     \/ Becomes(w, "blame") /\ UNCHANGED progress
  /\ UNCHANGED <<queue, mirrors>>

\* It cannot be had or, after that, not be written.
Fail(w) ==
  /\ loader[w] = "entry"
  /\ progress' = [progress EXCEPT !.failed = @ + 1]
  /\ Becomes(w, "claim") \/ Becomes(w, "blame")
  /\ UNCHANGED <<queue, mirrors>>

\* Mutant of Blame: the download stops and does not say why.
BlameSilently(w) ==
  /\ loader[w] = "blame"
  /\ queue' = [queue EXCEPT !.fails = @ + 1,
                            !.abort = @ \/ queue.fails + 1 >= Limit]
  /\ Becomes(w, "claim")
  /\ UNCHANGED <<progress, mirrors>>

Blame(w) ==
  /\ loader[w] = "blame"
  /\ queue' = [queue EXCEPT !.fails = @ + 1,
                            !.abort = @ \/ queue.fails + 1 >= Limit]
  /\ progress' = [progress EXCEPT !.error = @ \/ queue.fails + 1 >= Limit]
  /\ Becomes(w, "claim")
  /\ UNCHANGED mirrors

\* It is written, and then counted.
Write(w) ==
  /\ loader[w] = "entry"
  /\ queue' = [queue EXCEPT !.fails = 0]
  /\ Becomes(w, "count")
  /\ UNCHANGED <<progress, mirrors>>

Count(w) ==
  /\ loader[w] = "count"
  /\ progress' = [progress EXCEPT !.downloaded = @ + 1]
  /\ Becomes(w, "claim")
  /\ UNCHANGED <<queue, mirrors>>

----------------------------------------------------------------------------

Run(r) ==
  \/ Start(r) \/ Create(r) \/ Archive(r) \/ NoArchive(r) \/ List(r)
  \/ Crew(r) \/ JoinLoaders(r) \/ FinishMirror(r)

Load(w) == Claim(w) \/ Skip(w) \/ Fail(w) \/ Blame(w) \/ Write(w) \/ Count(w)

MirrorNext == (\E r \in Requests : Run(r)) \/ (\E w \in Loaders : Load(w))

MirrorSpec == MirrorInit /\ [][MirrorNext]_mirrorVars

----------------------------------------------------------------------------
(* Properties.                                                             *)

Active(r) == ~At(r, "idle")

\* There is one mirror at most, and g_repo_mirror says so: no second one writes
\* the same files, and no failed start leaves the mirror busy for ever.
OneMirror ==
  /\ \A r, s \in Requests : Active(r) /\ Active(s) => r = s
  /\ (progress.state = "running") <=> \E r \in Requests : Active(r)

InHands == {w \in Loaders : loader[w] \in {"entry", "count"}}

\* Every entry of the total is counted once, is in some thread's hands, is still
\* in the queue or was left there when it stopped; besides, a source of which
\* nothing was had counts as a failure.
Accounted ==
  progress.total + unlisted
    = progress.downloaded + progress.skipped + progress.failed
      + Cardinality(InHands)
      + (queue.count - queue.next) + left

\* Entries are left only when writing failed, which the error says, or when there
\* was no thread.
NothingForgotten == left > 0 => progress.error \/ unmanned

Takes == queue.next # queue'.next /\ queue' # NoQueue

\* After "stopped" was reported for a download no thread takes an entry of its queue.
DownloadStops == [][queue.kind = "download" /\ queue.abort => ~Takes]_mirrorVars
=============================================================================
