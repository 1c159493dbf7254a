----------------------------- MODULE CheatFiles -----------------------------
(***************************************************************************)
(* Which cheat file of a title is used: the scan and the ranking of the    *)
(* files on disk (cr_cheats.c, cr_version.c), the selection the user made  *)
(* by hand, and the cache of the one decoded document behind the polls of  *)
(* the page (cr_api.c).                                                    *)
(*                                                                         *)
(* A file is a number: its place in the order the scan meets it.  What     *)
(* its name says (title, format, version) never changes; its content is    *)
(* the number of the write it comes from, which is also its modification   *)
(* time: two writes of a file within one second are not told apart.        *)
(***************************************************************************)
EXTENDS Integers, Sequences, FiniteSets, FiniteSetsExt

CONSTANTS CheatTitles, Pollers, NoCheatTitle,
          FilesMax,      \* files 1 .. FilesMax
          Libraries,     \* the collections a run starts from
          OnDisk,        \* the sets of files that are there at the start
          MaxCandidates, \* MAX_CHEAT_CANDIDATES, 64 in the code
          MaxPicks,      \* MAX_MANUAL_SELECTIONS, 64 in the code
          MaxWrites      \* bound: writes of cheat files in a run

(* What a file's name says: a rank of the format, one of the folder, the   *)
(* version and the versions it mentions.                                   *)
ShelfCard == [title : CheatTitles, kind : Nat, folder : Nat, version : Seq(Nat),
              mentions : SUBSET Seq(Nat), own : BOOLEAN]

ASSUME FilesAssumption ==
    /\ NoCheatTitle \notin CheatTitles
    /\ FilesMax \in Nat /\ MaxCandidates \in Nat /\ MaxPicks \in Nat
    /\ MaxWrites \in Nat \ {0}
    /\ OnDisk \subseteq SUBSET (1 .. FilesMax)
    /\ \A l \in Libraries : /\ l.shelf \in [1 .. FilesMax -> ShelfCard]
                            /\ l.sfo \in [CheatTitles -> Seq(Nat)]

VARIABLES library,   \* [shelf: what each file's name says, sfo: version of each title]
          disk,      \* the write each file's content is from, 0: no file
          writes,    \* writes so far
          manual,    \* g_manual_sel: the file chosen by hand, 0: none
          document,  \* g_cheat_doc_cache
          poll,      \* the state request each poller is in
          select     \* the select request: the file, and the step it is at
fileVars == <<library, disk, writes, manual, document, poll, select>>

CheatFileIds == 1 .. FilesMax
Unversioned == << >>
NoDocument == [title |-> NoCheatTitle, file |-> 0, stamp |-> 0, content |-> 0]
IdlePoll == [at |-> "idle", title |-> NoCheatTitle, file |-> 0, stamp |-> 0, doc |-> <<0, 0>>]

(* Versions: a sequence of numbers, trailing zeros dropped (cr_version.c). *)
Normal(v) == IF v = << >> THEN v
             ELSE SubSeq(v, 1, Max({1} \cup {i \in DOMAIN v : v[i] # 0}))
SameVersion(a, b) == Normal(a) = Normal(b)
Segment(v, i) == IF i \in DOMAIN v THEN v[i] ELSE 0
Newer(a, b) == \E i \in DOMAIN a : /\ Segment(a, i) > Segment(b, i)
                                   /\ \A j \in 1 .. i - 1 : Segment(a, j) = Segment(b, j)

(* A format counts more than the folders, those and a version in the name  *)
(* decide within a format.  "mentions": the versions whose text, as given  *)
(* or normalised, is somewhere in the name.                                *)
Mentions(f, v) == v # Unversioned
                  /\ v \in library.shelf[f].mentions \cup {library.shelf[f].version}
Score(f, v) == 400 - 100 * library.shelf[f].kind + library.shelf[f].folder
               + (IF Mentions(f, v) THEN 40 ELSE 0)

OnShelf(t) == {f \in CheatFileIds : library.shelf[f].title = t /\ disk[f] # 0}
(* The first 64 the scan meets. *)
Candidates(t) == {f \in OnShelf(t) : Cardinality({g \in OnShelf(t) : g < f}) < MaxCandidates}

(* classify_candidates *)
Match(f, v) == CASE library.shelf[f].version = Unversioned -> "generic"
                 [] library.shelf[f].version # Unversioned /\ v = Unversioned -> "unknown"
                 [] OTHER -> IF SameVersion(library.shelf[f].version, v) THEN "exact" ELSE "wrong"

(* best_by_match: the lowest format, then the best score, then the first.  *)
Before(f, g, v) == LET a == library.shelf[f].kind
                       b == library.shelf[g].kind
                   IN  a < b \/ (a = b /\ (Score(f, v) > Score(g, v)
                                           \/ (Score(f, v) = Score(g, v) /\ f <= g)))
BestByMatch(t, v, class) ==
    LET S == {f \in Candidates(t) : Match(f, v) = class}
    IN  IF S = {} THEN 0 ELSE CHOOSE f \in S : \A g \in S : Before(f, g, v)

(* What the scan itself keeps: the best score, among equals the newest     *)
(* version, among those the first; the 64 do not count here.               *)
ScanBest(t) ==
    LET Beats(f, g) == \/ Score(f, Unversioned) > Score(g, Unversioned)
                       \/ /\ Score(f, Unversioned) = Score(g, Unversioned)
                          /\ \/ Newer(library.shelf[f].version, library.shelf[g].version)
                             \/ /\ ~Newer(library.shelf[g].version, library.shelf[f].version)
                                /\ f <= g
    IN  IF OnShelf(t) = {} THEN 0 ELSE CHOOSE f \in OnShelf(t) : \A g \in OnShelf(t) : Beats(f, g)

(* apply_selection_rules: an exact version, else a file for any, else a    *)
(* wrong one; an unknown version takes what the scan kept.                 *)
ByRules(t, v) ==
    LET Of(class) == BestByMatch(t, v, class)
    IN  IF v = Unversioned THEN ScanBest(t)
        ELSE IF Of("exact") # 0 THEN Of("exact")
        ELSE IF Of("generic") # 0 THEN Of("generic") ELSE Of("wrong")

(* find_cheat_file_for_title, for a selection whose file is there.         *)
Used(t) == IF manual[t] # 0 /\ disk[manual[t]] # 0 THEN manual[t]
           ELSE ByRules(t, library.sfo[t])

FilesInit ==
    /\ library \in Libraries
    /\ disk \in {[f \in CheatFileIds |-> IF f \in S THEN 1 ELSE 0] : S \in OnDisk}
    /\ writes = 1
    /\ manual \in [CheatTitles -> {0}]
    /\ document = NoDocument
    /\ poll = [p \in Pollers |-> IdlePoll]
    /\ select = [at |-> "idle", title |-> NoCheatTitle, file |-> 0]

(***************************************************************************)
(* Uploads, downloads and the mirror put a whole file in place.            *)
(***************************************************************************)
WriteFile(f) ==
    /\ writes < MaxWrites
    /\ writes' = writes + 1
    /\ disk' = [disk EXCEPT ![f] = writes + 1]
    /\ UNCHANGED <<library, manual, document, poll, select>>

(* handle_api_cheats_delete: the title's files in the daemon's own folders *)
(* go; what the user selected by hand stays selected.                      *)
Delete(t) ==
    /\ OnShelf(t) # {}
    /\ disk' = [f \in CheatFileIds |->
                  IF library.shelf[f].title = t /\ library.shelf[f].own THEN 0 ELSE disk[f]]
    /\ UNCHANGED <<library, writes, manual, document, poll, select>>

(***************************************************************************)
(* POST /api/cheats/select: the file must be a candidate and, unless it is *)
(* forced, of no wrong version; while mods of another file are on it is    *)
(* refused.  The checks and the store are separate: files come and go.     *)
(***************************************************************************)
SelectStarts(t, f, v, force) ==
    /\ select.at = "idle"
    /\ f \in Candidates(t)
    /\ Match(f, v) = "wrong" => force
    /\ select' = [at |-> IF force THEN "store" ELSE "check", title |-> t, file |-> f]
    /\ UNCHANGED <<library, disk, writes, manual, document, poll>>

SelectChecks(modsOn) ==
    /\ select.at = "check"
    /\ select' = IF modsOn /\ Used(select.title) \notin {0, select.file}
                 THEN [at |-> "idle", title |-> NoCheatTitle, file |-> 0]
                 ELSE [select EXCEPT !.at = "store"]
    /\ UNCHANGED <<library, disk, writes, manual, document, poll>>

Picked == {t \in CheatTitles : manual[t] # 0}
SelectStores ==
    /\ select.at = "store"
    /\ manual' = IF select.title \in Picked \/ Cardinality(Picked) < MaxPicks
                 THEN [manual EXCEPT ![select.title] = select.file] ELSE manual
    /\ select' = [at |-> "idle", title |-> NoCheatTitle, file |-> 0]
    /\ UNCHANGED <<library, disk, writes, document, poll>>

(* POST /api/cheats/select/auto *)
SelectAuto(t) ==
    /\ manual[t] # 0
    /\ manual' = [manual EXCEPT ![t] = 0]
    /\ UNCHANGED <<library, disk, writes, document, poll, select>>

(***************************************************************************)
(* A request about a title's cheats: find the file, get its document       *)
(* through the cache.                                                      *)
(***************************************************************************)
Step(p, new) == poll' = [poll EXCEPT ![p] = new]

PollStarts(p, t) ==
    /\ poll[p].at = "idle"
    /\ Step(p, [IdlePoll EXCEPT !.at = IF manual[t] = 0 THEN "scan" ELSE "manual",
                                !.title = t, !.file = manual[t]])
    /\ UNCHANGED <<library, disk, writes, manual, document, select>>

(* A selection whose file is gone is cleared: whichever it is by now.      *)
PollTriesManual(p) ==
    /\ poll[p].at = "manual"
    /\ \/ /\ disk[poll[p].file] # 0
          /\ Step(p, [poll[p] EXCEPT !.at = "stat"])
          /\ UNCHANGED manual
       \/ /\ disk[poll[p].file] = 0
          /\ manual' = [manual EXCEPT ![poll[p].title] = 0]
          /\ Step(p, [poll[p] EXCEPT !.at = "scan", !.file = 0])
    /\ UNCHANGED <<library, disk, writes, document, select>>

PollScans(p) ==
    /\ poll[p].at = "scan"
    /\ LET f == ByRules(poll[p].title, library.sfo[poll[p].title])
       IN  Step(p, IF f = 0 THEN IdlePoll ELSE [poll[p] EXCEPT !.at = "stat", !.file = f])
    /\ UNCHANGED <<library, disk, writes, manual, document, select>>

PollStats(p) ==
    /\ poll[p].at = "stat"
    /\ Step(p, [poll[p] EXCEPT !.at = "cache", !.stamp = disk[poll[p].file]])
    /\ UNCHANGED <<library, disk, writes, manual, document, select>>

IsHit(q) == document.title = q.title /\ document.file = q.file
            /\ document.stamp = q.stamp /\ q.stamp # 0
PollAsksCache(p) ==
    /\ poll[p].at = "cache"
    /\ Step(p, IF IsHit(poll[p])
               THEN [poll[p] EXCEPT !.at = "have", !.doc = <<document.file, document.content>>]
               ELSE [poll[p] EXCEPT !.at = "read"])
    /\ UNCHANGED <<library, disk, writes, manual, document, select>>

PollReads(p) ==
    /\ poll[p].at = "read"
    /\ LET content == disk[poll[p].file]
       IN  Step(p, IF content = 0 THEN IdlePoll
                   ELSE [poll[p] EXCEPT !.at = "keep", !.doc = <<poll[p].file, content>>])
    /\ UNCHANGED <<library, disk, writes, manual, document, select>>

(* Mutant of PollKeeps: the file's time is asked for after it was read.    *)
PollKeepsNow(p) ==
    /\ poll[p].at = "keep"
    /\ document' = [title |-> poll[p].title, file |-> poll[p].file,
                    stamp |-> disk[poll[p].file], content |-> poll[p].doc[2]]
    /\ Step(p, [poll[p] EXCEPT !.at = "have"])
    /\ UNCHANGED <<library, disk, writes, manual, select>>

PollKeeps(p) ==
    /\ poll[p].at = "keep"
    /\ document' = [title |-> poll[p].title, file |-> poll[p].file,
                    stamp |-> poll[p].stamp, content |-> poll[p].doc[2]]
    /\ Step(p, [poll[p] EXCEPT !.at = "have"])
    /\ UNCHANGED <<library, disk, writes, manual, select>>

PollAnswers(p) ==
    /\ poll[p].at = "have"
    /\ Step(p, IdlePoll)
    /\ UNCHANGED <<library, disk, writes, manual, document, select>>

PollSteps(p) == \/ \E t \in CheatTitles : PollStarts(p, t)
           \/ PollTriesManual(p) \/ PollScans(p) \/ PollStats(p) \/ PollAsksCache(p)
           \/ PollReads(p) \/ PollKeeps(p) \/ PollAnswers(p)

FilesNext ==
    \/ \E f \in CheatFileIds : WriteFile(f)
    \/ \E t \in CheatTitles : Delete(t) \/ SelectAuto(t)
    \/ \E t \in CheatTitles, f \in CheatFileIds, force \in BOOLEAN :
         \E v \in {library.sfo[t], Unversioned} : SelectStarts(t, f, v, force)
    \/ \E modsOn \in BOOLEAN : SelectChecks(modsOn)
    \/ SelectStores
    \/ \E p \in Pollers : PollSteps(p)

-----------------------------------------------------------------------------
Places == CheatFileIds \cup {0}
Contents == 0 .. MaxWrites
(* The types of the caches, the selections and the requests.               *)
FilesTypeOK ==
    /\ library \in Libraries /\ disk \in [CheatFileIds -> Contents] /\ writes \in Contents
    /\ manual \in [CheatTitles -> Places]
    /\ document \in [title : CheatTitles \cup {NoCheatTitle}, file : Places,
                     stamp : Contents, content : Contents]
    /\ poll \in [Pollers -> [at : {"idle", "manual", "scan", "stat", "cache", "read", "keep",
                                   "have"},
                             title : CheatTitles \cup {NoCheatTitle}, file : Places,
                             stamp : Contents, doc : Places \X Contents]]
    /\ select.at \in {"idle", "check", "store"}

(* A poll answers with the mods of the file it looked up, in a content at  *)
(* least as new as the file was when the poll looked: the stamp a document *)
(* is kept under is read before the document, so a write in between can    *)
(* make the cache newer than it says and never older                       *)
(* (load_cheat_json_root_for_title_ex, cr_api.c).                          *)
FreshDoc == \A p \in Pollers : poll[p].at = "have" =>
                poll[p].doc[1] = poll[p].file /\ poll[p].doc[2] >= poll[p].stamp
=============================================================================
