-------------------------- MODULE RepoMirrorProofs --------------------------
(***************************************************************************)
(* There is one mirror, and its counters account for every entry.          *)
(* Accounted needs to know where the threads of a queue and the queue      *)
(* itself are when the next one is made: IInv says that only a mirror that *)
(* waits for them has any.                                                 *)
(***************************************************************************)
EXTENDS RepoMirror, FiniteSetTheorems, TLAPS

\* Only a mirror that waits in pthread_join() has threads at work.
Manned == \A w \in Loaders : loader[w] # "off" => \E r \in Requests : At(r, "join")

\* A queue is gone when the next source is looked at.
Queued == queue # NoQueue => \E r \in Requests : mirror[r].pc \in {"crew", "join"}

InRange == queue.next <= queue.count

SourcesLeft ==
  \A r \in Requests : mirror[r].pc \in {"listing", "crew", "join"} => mirror[r].todo > 0

IInv ==
  /\ MirrorTypeOK /\ OneMirror /\ Manned /\ Queued /\ InRange /\ SourcesLeft /\ Accounted

----------------------------------------------------------------------------
(* How the number of entries in hand changes.                              *)

\* A thread that does not gain or lose an entry leaves the number alone.
LEMMA HandsKept ==
  ASSUME \A w \in Loaders : w \in InHands <=> w \in InHands'
  PROVE  Cardinality(InHands)' = Cardinality(InHands)
<1>1. InHands' = InHands
  BY DEF InHands
<1> QED
  BY <1>1

LEMMA HandsFinite ==
  IsFiniteSet(InHands) /\ Cardinality(InHands) \in Nat
BY FS_Subset, FS_CardinalityType, MirrorAssumption DEF InHands

\* A claim adds one.
LEMMA HandsTaken ==
  ASSUME NEW w \in Loaders, w \notin InHands, InHands' = InHands \cup {w}
  PROVE  Cardinality(InHands)' = Cardinality(InHands) + 1
BY HandsFinite, FS_AddElement

\* An outcome that is counted removes one.
LEMMA HandsGiven ==
  ASSUME NEW w \in Loaders, w \in InHands, InHands' = InHands \ {w}
  PROVE  Cardinality(InHands)' = Cardinality(InHands) - 1
BY HandsFinite, FS_RemoveElement

LEMMA NoHands ==
  ASSUME \A w \in Loaders : loader[w] \notin {"entry", "count"}
  PROVE  Cardinality(InHands) = 0
<1>1. InHands = {}
  BY DEF InHands
<1> QED
  BY <1>1, FS_EmptySet

----------------------------------------------------------------------------

LEMMA InitIInv == MirrorInit => IInv
<1> SUFFICES ASSUME MirrorInit PROVE IInv
  OBVIOUS
<1>1. MirrorTypeOK
  BY DEF MirrorInit, MirrorTypeOK, NoProgress, Progress, NoMirror, Mirrors, NoQueue, Queues
<1>2. OneMirror /\ Manned /\ Queued /\ InRange /\ SourcesLeft
  BY DEF MirrorInit, OneMirror, Active, At, Manned, Queued, InRange, SourcesLeft, NoProgress,
         NoMirror, NoQueue
<1>3. Cardinality(InHands) = 0
  BY NoHands DEF MirrorInit
<1>4. Accounted
  BY <1>3 DEF MirrorInit, Accounted, NoProgress, NoQueue
<1> QED
  BY <1>1, <1>2, <1>4 DEF IInv

----------------------------------------------------------------------------
(* The mirror.                                                             *)

\* When one mirror is at work no other request is anywhere.
LEMMA Alone ==
  ASSUME OneMirror, NEW r \in Requests, Active(r), NEW s \in Requests, s # r
  PROVE  mirror[s].pc = "idle"
BY DEF OneMirror, Active, At

\* While no mirror waits for them no thread works, and there is nothing in hand.
LEMMA Unmanned ==
  ASSUME Manned, \A r \in Requests : ~At(r, "join")
  PROVE  (\A w \in Loaders : loader[w] = "off") /\ Cardinality(InHands) = 0
BY NoHands DEF Manned

LEMMA BeginsKeeps ==
  ASSUME IInv, NEW r \in Requests, Start(r)
  PROVE  IInv'
<1> USE DEF At
<1>1. \A s \in Requests : mirror[s].pc = "idle"
  BY DEF IInv, OneMirror, Active, Start, Begins
<1>2. queue = NoQueue /\ (\A w \in Loaders : loader[w] = "off") /\ Cardinality(InHands) = 0
  BY <1>1, Unmanned DEF IInv, Queued
<1>3. PICK kind \in {"cheats", "patches"}, todo \in {1, Sources} :
        mirror' = [mirror EXCEPT ![r] = [pc |-> "create", kind |-> kind, todo |-> todo]]
  BY DEF Start, Begins
<1>4. MirrorTypeOK'
  <2>1. progress' \in Progress
    BY DEF Start, Begins, Progress, NoProgress
  <2>2. mirror' \in [Requests -> Mirrors]
    <3>1. todo \in Nat
      BY MirrorAssumption
    <3> QED BY <1>3, <3>1 DEF IInv, MirrorTypeOK, Mirrors
  <2> QED BY <2>1, <2>2 DEF IInv, MirrorTypeOK, Start, Begins
<1>5. OneMirror'
  BY <1>1, <1>3 DEF IInv, MirrorTypeOK, OneMirror, Active, Start, Begins, NoProgress
<1>6. Manned' /\ Queued' /\ InRange' /\ SourcesLeft'
  BY <1>1, <1>2, <1>3 DEF IInv, MirrorTypeOK, Manned, Queued, InRange, SourcesLeft, Start,
                          Begins
<1>7. Cardinality(InHands)' = 0
  BY <1>2, HandsKept DEF InHands, Start, Begins
<1>8. Accounted'
  BY <1>2, <1>7 DEF Accounted, Start, Begins, NoProgress, NoQueue
<1> QED BY <1>4, <1>5, <1>6, <1>8 DEF IInv

LEMMA CreateKeeps ==
  ASSUME IInv, NEW r \in Requests, Create(r)
  PROVE  IInv'
<1> USE DEF At, Goto
<1>1. \A s \in Requests : s # r => mirror[s].pc = "idle"
  BY Alone DEF IInv, Active, Create
<1>2. queue = NoQueue /\ (\A w \in Loaders : loader[w] = "off")
  BY <1>1, Unmanned DEF IInv, Queued, Create
<1>3. MirrorTypeOK'
  BY DEF IInv, MirrorTypeOK, Create, Progress, Mirrors, history
<1>4. OneMirror'
  <2>1. CASE Goto(r, "source") /\ UNCHANGED progress
    BY <1>1, <2>1 DEF IInv, MirrorTypeOK, OneMirror, Active, Create
  <2>2. CASE Goto(r, "idle") /\ progress' = [progress EXCEPT !.state = "idle"]
    <3>1. \A s \in Requests : mirror'[s].pc = "idle"
      BY <1>1, <2>2 DEF IInv, MirrorTypeOK, Mirrors
    <3>2. progress'.state = "idle"
      BY <2>2 DEF IInv, MirrorTypeOK, Progress
    <3> QED BY <3>1, <3>2 DEF OneMirror, Active
  <2> QED BY <2>1, <2>2 DEF Create
<1>5. Manned' /\ Queued' /\ InRange' /\ SourcesLeft'
  <2>1. \A s \in Requests : mirror'[s].pc \in {"idle", "source"}
    BY <1>1 DEF IInv, MirrorTypeOK, Mirrors, Create
  <2> QED BY <1>2, <2>1 DEF IInv, Manned, Queued, InRange, SourcesLeft, Create
<1>6. Cardinality(InHands)' = Cardinality(InHands)
  BY HandsKept DEF InHands, Create
<1>7. Accounted'
  BY <1>6 DEF IInv, MirrorTypeOK, Accounted, Create, Progress, history
<1> QED BY <1>3, <1>4, <1>5, <1>7 DEF IInv

\* Making a queue adds its entries to the total.
LEMMA ListedKeeps ==
  ASSUME IInv, NEW r \in Requests, mirror[r].pc \in {"source", "listing"},
         mirror[r].todo > 0, NEW n \in Sizes, NEW kind \in {"extract", "download"},
         progress' = [progress EXCEPT !.total = @ + n], queue' = NewQueue(kind, n),
         Goto(r, "crew"), UNCHANGED <<loader, history>>
  PROVE  IInv'
<1> USE DEF At, Goto
<1>1. \A s \in Requests : s # r => mirror[s].pc = "idle"
  BY Alone DEF IInv, Active
<1>2. queue = NoQueue /\ (\A w \in Loaders : loader[w] = "off")
  BY <1>1, Unmanned DEF IInv, Queued
<1>3. n \in Nat
  BY MirrorAssumption
<1>4. MirrorTypeOK'
  <2>1. progress' \in Progress
    BY <1>3 DEF IInv, MirrorTypeOK, Progress
  <2>2. mirror' \in [Requests -> Mirrors]
    BY DEF IInv, MirrorTypeOK, Mirrors
  <2>3. queue' \in Queues
    BY <1>3 DEF NewQueue, NoQueue, Queues
  <2> QED BY <2>1, <2>2, <2>3 DEF IInv, MirrorTypeOK, history
<1>5. OneMirror'
  BY <1>1 DEF IInv, MirrorTypeOK, OneMirror, Active, Progress
<1>6. Manned' /\ Queued' /\ InRange' /\ SourcesLeft'
  BY <1>1, <1>2, <1>3 DEF IInv, MirrorTypeOK, Manned, Queued, InRange, SourcesLeft, NewQueue,
                          NoQueue, Mirrors
<1>7. Cardinality(InHands)' = 0 /\ Cardinality(InHands) = 0
  BY <1>1, HandsKept, Unmanned DEF IInv, InHands
<1>8. Accounted'
  <2>1. queue.count = 0 /\ queue.next = 0 /\ queue'.count = n /\ queue'.next = 0
    BY <1>2 DEF NewQueue, NoQueue
  <2>2. /\ progress'.total = progress.total + n /\ progress'.downloaded = progress.downloaded
        /\ progress'.skipped = progress.skipped /\ progress'.failed = progress.failed
    BY DEF IInv, MirrorTypeOK, Progress
  <2>3. /\ progress.total \in Nat /\ progress.downloaded \in Nat /\ progress.skipped \in Nat
        /\ progress.failed \in Nat /\ left \in Nat /\ unlisted \in Nat
        /\ left' = left /\ unlisted' = unlisted
    BY DEF IInv, MirrorTypeOK, Progress, history
  <2>4. progress.total + unlisted
          = progress.downloaded + progress.skipped + progress.failed + left
    BY <1>7, <2>1, <2>3 DEF IInv, Accounted
  <2> QED BY <1>3, <1>7, <2>1, <2>2, <2>3, <2>4 DEF Accounted
<1> QED BY <1>4, <1>5, <1>6, <1>8 DEF IInv

\* Going on to the next source, the queue gone or never made, keeps the rest.
LEMMA MovesKeep ==
  ASSUME IInv, NEW r \in Requests, mirror[r].pc \in {"source", "listing"},
         mirror[r].todo > 0, NextSource(r), UNCHANGED <<queue, loader>>,
         progress'.state = progress.state
  PROVE  OneMirror' /\ Manned' /\ Queued' /\ InRange' /\ SourcesLeft'
         /\ mirror' \in [Requests -> Mirrors]
         /\ Cardinality(InHands)' = Cardinality(InHands)
<1> USE DEF At, NextSource
<1>1. \A s \in Requests : s # r => mirror[s].pc = "idle"
  BY Alone DEF IInv, Active
<1>2. OneMirror'
  BY <1>1 DEF IInv, MirrorTypeOK, OneMirror, Active
<1>3. Manned' /\ Queued' /\ InRange'
  BY <1>1 DEF IInv, MirrorTypeOK, Manned, Queued, InRange
<1>4. SourcesLeft' /\ mirror' \in [Requests -> Mirrors]
  BY <1>1 DEF IInv, MirrorTypeOK, SourcesLeft, Mirrors
<1> QED BY <1>2, <1>3, <1>4, HandsKept DEF InHands

LEMMA NoListingKeeps ==
  ASSUME IInv, NEW r \in Requests, mirror[r].pc \in {"source", "listing"},
         mirror[r].todo > 0, NoListing(r)
  PROVE  IInv'
<1>1. progress'.state = progress.state
  BY DEF IInv, MirrorTypeOK, NoListing, Progress
<1>2. OneMirror' /\ Manned' /\ Queued' /\ InRange' /\ SourcesLeft'
      /\ mirror' \in [Requests -> Mirrors] /\ Cardinality(InHands)' = Cardinality(InHands)
  BY <1>1, MovesKeep DEF NoListing
<1>3. MirrorTypeOK'
  BY <1>2 DEF IInv, MirrorTypeOK, NoListing, Progress
<1>4. Accounted'
  BY <1>2, HandsFinite DEF IInv, MirrorTypeOK, Accounted, NoListing, Progress, Queues
<1> QED BY <1>2, <1>3, <1>4 DEF IInv

LEMMA ArchiveKeeps ==
  ASSUME IInv, NEW r \in Requests, Archive(r)
  PROVE  IInv'
<1>1. PICK n \in Sizes : /\ progress' = [progress EXCEPT !.total = @ + n]
                        /\ queue' = NewQueue("extract", n)
  BY DEF Archive
<1> QED BY <1>1, ListedKeeps DEF Archive, At

LEMMA NoArchiveKeeps ==
  ASSUME IInv, NEW r \in Requests, NoArchive(r)
  PROVE  IInv'
<1>1. mirror[r].pc = "source" /\ mirror[r].todo > 0
  BY DEF NoArchive, At
<1>2. CASE NoListing(r)
  BY <1>1, <1>2, NoListingKeeps
<1>3. CASE Goto(r, "listing") /\ UNCHANGED <<progress, queue, loader, history>>
  <2> USE <1>3 DEF At, Goto
  <2>1. \A s \in Requests : s # r => mirror[s].pc = "idle"
    BY <1>1, Alone DEF IInv, Active
  <2>2. MirrorTypeOK'
    BY DEF IInv, MirrorTypeOK, Mirrors, history
  <2>3. OneMirror' /\ SourcesLeft'
    BY <1>1, <2>1 DEF IInv, MirrorTypeOK, OneMirror, Active, SourcesLeft, Mirrors
  <2>4. Manned' /\ Queued' /\ InRange'
    BY <1>1, <2>1 DEF IInv, MirrorTypeOK, Manned, Queued, InRange
  <2>5. Cardinality(InHands)' = Cardinality(InHands)
    BY HandsKept DEF InHands
  <2>6. Accounted'
    BY <2>5 DEF IInv, Accounted, history
  <2> QED BY <2>2, <2>3, <2>4, <2>6 DEF IInv
<1> QED BY <1>2, <1>3 DEF NoArchive

LEMMA ListKeeps ==
  ASSUME IInv, NEW r \in Requests, List(r)
  PROVE  IInv'
<1>1. mirror[r].pc = "listing" /\ mirror[r].todo > 0
  BY DEF List, At, IInv, SourcesLeft
<1>2. CASE NoListing(r)
  BY <1>1, <1>2, NoListingKeeps
<1>3. ASSUME NEW n \in Sizes, progress' = [progress EXCEPT !.total = @ + n],
             queue' = NewQueue("download", n), Goto(r, "crew"), UNCHANGED <<loader, history>>
      PROVE  IInv'
  BY <1>1, <1>3, ListedKeeps
<1>4. CASE NextSource(r) /\ UNCHANGED <<progress, queue, loader, history>>
  <2>1. OneMirror' /\ Manned' /\ Queued' /\ InRange' /\ SourcesLeft'
        /\ mirror' \in [Requests -> Mirrors] /\ Cardinality(InHands)' = Cardinality(InHands)
    BY <1>1, <1>4, MovesKeep
  <2>2. MirrorTypeOK' /\ Accounted'
    BY <1>4, <2>1 DEF IInv, MirrorTypeOK, Accounted, history
  <2> QED BY <2>1, <2>2 DEF IInv
<1> QED BY <1>2, <1>3, <1>4 DEF List

\* The threads start with nothing in hand, and only now does a mirror wait for them.
LEMMA CrewKeeps ==
  ASSUME IInv, NEW r \in Requests, Crew(r)
  PROVE  IInv'
<1> USE DEF At, Goto
<1>1. \A s \in Requests : s # r => mirror[s].pc = "idle"
  BY Alone DEF IInv, Active, Crew
<1>2. Cardinality(InHands) = 0
  BY <1>1, Unmanned DEF IInv, Crew
<1>3. mirror'[r].pc = "join"
  BY DEF IInv, MirrorTypeOK, Crew
<1>4. PICK crew \in SUBSET Loaders :
        /\ loader' = [w \in Loaders |-> IF w \in crew THEN "claim" ELSE "off"]
        /\ unmanned' = (unmanned \/ crew = {})
  BY DEF Crew
<1>5. Cardinality(InHands)' = 0
  <2>1. InHands' = {}
    BY <1>4 DEF InHands
  <2> QED BY <2>1, FS_EmptySet
<1>6. MirrorTypeOK'
  <2>1. mirror' \in [Requests -> Mirrors]
    BY DEF IInv, MirrorTypeOK, Mirrors, Crew
  <2> QED BY <1>4, <2>1 DEF IInv, MirrorTypeOK, Crew
<1>7. OneMirror' /\ SourcesLeft'
  BY <1>1 DEF IInv, MirrorTypeOK, OneMirror, Active, SourcesLeft, Mirrors, Crew
<1>8. Manned' /\ Queued' /\ InRange'
  BY <1>3 DEF IInv, Manned, Queued, InRange, Crew
<1>9. Accounted'
  BY <1>2, <1>5 DEF IInv, Accounted, Crew
<1> QED BY <1>6, <1>7, <1>8, <1>9 DEF IInv

\* What the threads left in the queue is moved to left.
LEMMA JoinKeeps ==
  ASSUME IInv, NEW r \in Requests, JoinLoaders(r)
  PROVE  IInv'
<1> USE DEF At, NextSource
<1>1. \A s \in Requests : s # r => mirror[s].pc = "idle"
  BY Alone DEF IInv, Active, JoinLoaders
<1>2. Cardinality(InHands) = 0 /\ Cardinality(InHands)' = 0
  BY NoHands, HandsKept DEF JoinLoaders, InHands
<1>3. mirror[r].todo > 0
  BY DEF IInv, SourcesLeft, JoinLoaders
<1>4. MirrorTypeOK'
  <2>1. mirror' \in [Requests -> Mirrors]
    BY <1>3 DEF IInv, MirrorTypeOK, Mirrors, JoinLoaders
  <2>2. left' \in Nat
    BY DEF IInv, MirrorTypeOK, InRange, Queues, JoinLoaders
  <2> QED BY <2>1, <2>2 DEF IInv, MirrorTypeOK, JoinLoaders, NoQueue, Queues
<1>5. OneMirror' /\ SourcesLeft'
  BY <1>1 DEF IInv, MirrorTypeOK, OneMirror, Active, SourcesLeft, Mirrors, JoinLoaders
<1>6. Manned' /\ Queued' /\ InRange'
  BY DEF Manned, Queued, InRange, JoinLoaders, NoQueue
<1>7. Accounted'
  BY <1>2 DEF IInv, MirrorTypeOK, Accounted, Progress, Queues, JoinLoaders, NoQueue
<1> QED BY <1>4, <1>5, <1>6, <1>7 DEF IInv

LEMMA FinishKeeps ==
  ASSUME IInv, NEW r \in Requests, FinishMirror(r)
  PROVE  IInv'
<1> USE DEF At, Goto
<1>1. \A s \in Requests : s # r => mirror[s].pc = "idle"
  BY Alone DEF IInv, Active, FinishMirror
<1>2. \A s \in Requests : mirror'[s].pc = "idle"
  BY <1>1 DEF IInv, MirrorTypeOK, Mirrors, FinishMirror
<1>3. /\ progress' \in Progress /\ progress'.state \in {"done", "error"}
      /\ progress'.total = progress.total /\ progress'.downloaded = progress.downloaded
      /\ progress'.skipped = progress.skipped /\ progress'.failed = progress.failed
  BY DEF IInv, MirrorTypeOK, Progress, FinishMirror
<1>4. MirrorTypeOK'
  <2>1. mirror' \in [Requests -> Mirrors]
    BY DEF IInv, MirrorTypeOK, Mirrors, FinishMirror
  <2> QED BY <1>3, <2>1 DEF IInv, MirrorTypeOK, FinishMirror, history
<1>5. OneMirror' /\ SourcesLeft'
  BY <1>2, <1>3 DEF OneMirror, Active, SourcesLeft
<1>6. Manned' /\ Queued' /\ InRange'
  BY <1>1 DEF IInv, MirrorTypeOK, Manned, Queued, InRange, FinishMirror
<1>7. Accounted'
  BY <1>3, HandsKept DEF IInv, Accounted, InHands, FinishMirror, history
<1> QED BY <1>4, <1>5, <1>6, <1>7 DEF IInv

----------------------------------------------------------------------------
(* The threads of a queue.                                                 *)

\* A thread at work has a mirror that waits for it, and changes neither.
LEMMA LoadKeeps ==
  ASSUME IInv, NEW w \in Loaders, loader[w] # "off", UNCHANGED mirrors,
         loader' \in [Loaders -> {"off", "claim", "entry", "blame", "count"}],
         progress' \in Progress, progress'.state = progress.state,
         queue' \in Queues, InRange', Accounted'
  PROVE  IInv'
<1>1. \E r \in Requests : At(r, "join")
  BY DEF IInv, Manned
<1>2. MirrorTypeOK' /\ OneMirror' /\ SourcesLeft'
  BY DEF IInv, MirrorTypeOK, OneMirror, Active, At, SourcesLeft, mirrors, history
<1>3. Manned' /\ Queued'
  BY <1>1 DEF Manned, Queued, At, mirrors
<1> QED BY <1>2, <1>3 DEF IInv

LEMMA ClaimKeeps ==
  ASSUME IInv, NEW w \in Loaders, Claim(w)
  PROVE  IInv'
<1> USE DEF Becomes, mirrors, history
<1>1. w \notin InHands
  BY DEF Claim, InHands
<1>2. CASE Becomes(w, "off") /\ UNCHANGED queue
  <2>1. Cardinality(InHands)' = Cardinality(InHands)
    BY <1>1, <1>2, HandsKept DEF IInv, MirrorTypeOK, InHands
  <2>2. Accounted' /\ InRange'
    BY <1>2, <2>1 DEF IInv, Accounted, InRange, Claim
  <2> QED BY <1>2, <2>2, LoadKeeps DEF IInv, MirrorTypeOK, Claim
<1>3. CASE /\ queue.next # queue.count
           /\ Becomes(w, "entry") /\ queue' = [queue EXCEPT !.next = @ + 1]
  <2>1. InHands' = InHands \cup {w}
    BY <1>3 DEF IInv, MirrorTypeOK, InHands
  <2>2. Cardinality(InHands)' = Cardinality(InHands) + 1
    BY <1>1, <2>1, HandsTaken
  <2>3. /\ queue' \in Queues /\ queue'.next = queue.next + 1 /\ queue'.count = queue.count
        /\ InRange'
    BY <1>3 DEF IInv, MirrorTypeOK, Queues, InRange
  <2>4. Accounted'
    BY <2>2, <2>3, HandsFinite DEF IInv, MirrorTypeOK, Accounted, Claim, Progress, Queues
  <2> QED BY <1>3, <2>3, <2>4, LoadKeeps DEF IInv, MirrorTypeOK, Claim
<1> QED BY <1>2, <1>3 DEF Claim

\* An entry leaves a thread's hands in the step that counts it.
LEMMA CountedKeeps ==
  ASSUME IInv, NEW w \in Loaders, w \in InHands,
         NEW pc \in {"claim", "blame"}, Becomes(w, pc), UNCHANGED <<queue, mirrors>>,
         progress' \in Progress, progress'.state = progress.state,
         progress'.total = progress.total,
         progress'.downloaded + progress'.skipped + progress'.failed
           = progress.downloaded + progress.skipped + progress.failed + 1
  PROVE  IInv'
<1>1. InHands' = InHands \ {w}
  BY DEF IInv, MirrorTypeOK, InHands, Becomes
<1>2. Cardinality(InHands)' = Cardinality(InHands) - 1
  BY <1>1, HandsGiven
<1>3. Accounted'
  BY <1>2, HandsFinite DEF IInv, MirrorTypeOK, Accounted, Progress, Queues, mirrors, history
<1>4. loader[w] # "off" /\ loader' \in [Loaders -> {"off", "claim", "entry", "blame", "count"}]
      /\ InRange'
  BY DEF IInv, MirrorTypeOK, InRange, InHands, Becomes
<1> QED BY <1>3, <1>4, LoadKeeps DEF IInv, MirrorTypeOK

LEMMA OutcomeKeeps ==
  ASSUME IInv, NEW w \in Loaders, Skip(w) \/ Fail(w) \/ Count(w)
  PROVE  IInv'
<1>1. w \in InHands /\ UNCHANGED <<queue, mirrors>>
  BY DEF Skip, Fail, Count, InHands
<1>2. \E pc \in {"claim", "blame"} : Becomes(w, pc)
  BY DEF Skip, Fail, Count
<1>3. /\ progress' \in Progress /\ progress'.state = progress.state
      /\ progress'.total = progress.total
      /\ progress'.downloaded + progress'.skipped + progress'.failed
           = progress.downloaded + progress.skipped + progress.failed + 1
  BY DEF IInv, MirrorTypeOK, Progress, Skip, Fail, Count
<1> QED BY <1>1, <1>2, <1>3, CountedKeeps

\* Neither a write nor the blame for a failed one changes what is in hand.
LEMMA WrittenKeeps ==
  ASSUME IInv, NEW w \in Loaders, Write(w) \/ Blame(w)
  PROVE  IInv'
<1>1. \A v \in Loaders : v \in InHands <=> v \in InHands'
  BY DEF IInv, MirrorTypeOK, InHands, Write, Blame, Becomes
<1>2. /\ queue' \in Queues /\ queue'.next = queue.next /\ queue'.count = queue.count
      /\ progress' \in Progress /\ progress'.state = progress.state
      /\ progress'.total = progress.total /\ progress'.downloaded = progress.downloaded
      /\ progress'.skipped = progress.skipped /\ progress'.failed = progress.failed
  <2>1. CASE Write(w)
    BY <2>1 DEF IInv, MirrorTypeOK, Queues, Write
  <2>2. CASE Blame(w)
    <3> DEFINE stopped == queue.abort \/ queue.fails + 1 >= Limit
               error == progress.error \/ queue.fails + 1 >= Limit
    <3>1. stopped \in BOOLEAN /\ error \in BOOLEAN
      OBVIOUS
    <3>2. /\ queue' = [queue EXCEPT !.fails = @ + 1, !.abort = stopped]
          /\ progress' = [progress EXCEPT !.error = error]
      BY <2>2 DEF Blame
    <3> HIDE DEF stopped, error
    <3>3. queue' \in Queues /\ queue'.next = queue.next /\ queue'.count = queue.count
      <4>1. queue.fails + 1 \in Nat /\ stopped \in BOOLEAN
        BY <3>1 DEF IInv, MirrorTypeOK, Queues
      <4>2. [queue EXCEPT !.fails = @ + 1] \in Queues
        BY <4>1 DEF IInv, MirrorTypeOK, Queues
      <4>3. queue' = [[queue EXCEPT !.fails = @ + 1] EXCEPT !.abort = stopped]
        BY <3>2 DEF IInv, MirrorTypeOK, Queues
      <4> QED BY <4>1, <4>2, <4>3 DEF IInv, MirrorTypeOK, Queues
    <3>4. progress' \in Progress
      BY <3>1, <3>2 DEF IInv, MirrorTypeOK, Progress
    <3>5. /\ progress'.state = progress.state
          /\ progress'.total = progress.total /\ progress'.downloaded = progress.downloaded
          /\ progress'.skipped = progress.skipped /\ progress'.failed = progress.failed
      BY <3>2 DEF IInv, MirrorTypeOK, Progress
    <3> QED BY <3>3, <3>4, <3>5
  <2> QED BY <2>1, <2>2
<1>3. Accounted' /\ InRange'
  BY <1>1, <1>2, HandsKept DEF IInv, Accounted, InRange, Write, Blame, mirrors, history
<1>4. loader[w] # "off" /\ loader' \in [Loaders -> {"off", "claim", "entry", "blame", "count"}]
      /\ UNCHANGED mirrors
  BY DEF IInv, MirrorTypeOK, Write, Blame, Becomes
<1> QED BY <1>2, <1>3, <1>4, LoadKeeps

----------------------------------------------------------------------------

LEMMA NextKeeps == ASSUME IInv, [MirrorNext]_mirrorVars PROVE IInv'
<1>1. ASSUME NEW r \in Requests, Run(r) PROVE IInv'
  BY <1>1, BeginsKeeps, CreateKeeps, ArchiveKeeps, NoArchiveKeeps, ListKeeps, CrewKeeps,
     JoinKeeps, FinishKeeps DEF Run
<1>2. ASSUME NEW w \in Loaders, Load(w) PROVE IInv'
  BY <1>2, ClaimKeeps, OutcomeKeeps, WrittenKeeps DEF Load
<1>3. CASE UNCHANGED mirrorVars
  BY <1>3 DEF mirrorVars, IInv, MirrorTypeOK, OneMirror, Active, At, Manned, Queued, InRange,
              SourcesLeft, Accounted, InHands
<1> QED BY <1>1, <1>2, <1>3 DEF MirrorNext

\* The inductive invariant.
THEOREM MirrorCorrect == MirrorSpec => []IInv
<1>1. MirrorInit => IInv
  BY InitIInv
<1>2. IInv /\ [MirrorNext]_mirrorVars => IInv'
  BY NextKeeps
<1> QED BY <1>1, <1>2, PTL DEF MirrorSpec

\* Of any number of requests one at a time runs a mirror (repo_mirror_start()).
THEOREM OneMirrorCorrect == MirrorSpec => []OneMirror
<1>1. IInv => OneMirror
  BY DEF IInv
<1> QED BY <1>1, MirrorCorrect, PTL

\* Type correctness; the amount that was left is never negative.
THEOREM MirrorTypeCorrect == MirrorSpec => []MirrorTypeOK
<1>1. IInv => MirrorTypeOK
  BY DEF IInv
<1> QED BY <1>1, MirrorCorrect, PTL

\* The counters account for every entry of the queues (dl_worker_fn(), extract_loop()),
\* for any number of files, sources and threads.
THEOREM AccountedCorrect == MirrorSpec => []Accounted
<1>1. IInv => Accounted
  BY DEF IInv
<1> QED BY <1>1, MirrorCorrect, PTL

----------------------------------------------------------------------------
(* Why entries are left: all threads of a queue went before its end only   *)
(* if it stopped, and then the error was set before.                       *)

Explained ==
  /\ queue.fails >= Limit => queue.abort
  /\ queue.abort => progress.error
  /\ \A r \in Requests :
       At(r, "join") /\ queue.next # queue.count
         => unmanned \/ queue.abort \/ \E w \in Loaders : loader[w] # "off"
  /\ NothingForgotten

LEMMA ExplainedInit == MirrorInit => Explained
BY MirrorAssumption DEF MirrorInit, Explained, NothingForgotten, NoQueue, NoMirror, At

\* Steps between queues.
LEMMA ExplainedBetween ==
  ASSUME IInv, Explained, NEW r \in Requests,
         Start(r) \/ Create(r) \/ Archive(r) \/ NoArchive(r) \/ List(r) \/ FinishMirror(r)
  PROVE  Explained'
<1> USE DEF At, Goto, NextSource, history
<1>1. mirror[r].pc \notin {"crew", "join"}
  BY DEF Start, Begins, Create, Archive, NoArchive, List, FinishMirror
<1>2. \A s \in Requests : mirror[s].pc \notin {"crew", "join"}
  BY <1>1 DEF IInv, OneMirror, Active, Start, Begins, Create, Archive, NoArchive, List,
              FinishMirror
<1>3. queue = NoQueue
  BY <1>2 DEF IInv, Queued
<1>4. queue'.fails = 0 /\ queue'.abort = FALSE
  <2>1. \/ UNCHANGED queue
        \/ \E kind \in {"extract", "download"}, n \in Sizes : queue' = NewQueue(kind, n)
    BY DEF Start, Begins, Create, Archive, NoArchive, NoListing, List, FinishMirror
  <2>2. NoQueue.fails = 0 /\ NoQueue.abort = FALSE
    BY DEF NoQueue
  <2>3. ASSUME NEW kind, NEW n
        PROVE  NewQueue(kind, n).fails = 0 /\ NewQueue(kind, n).abort = FALSE
    BY DEF NewQueue, NoQueue
  <2> QED BY <1>3, <2>1, <2>2, <2>3
<1>5. \A s \in Requests : mirror'[s].pc # "join"
  BY <1>2 DEF IInv, MirrorTypeOK, Mirrors, Start, Begins, Create, Archive, NoArchive,
              NoListing,
              List, FinishMirror
<1>6. \/ left' = 0
      \/ left' = left /\ unmanned' = unmanned /\ (progress.error => progress'.error)
  BY DEF IInv, MirrorTypeOK, Progress, Start, Begins, Create, Archive, NoArchive, NoListing,
         List, FinishMirror
<1>7. NothingForgotten'
  BY <1>6 DEF Explained, NothingForgotten
<1> QED BY <1>4, <1>5, <1>7, MirrorAssumption DEF Explained

LEMMA ExplainedCrew ==
  ASSUME Explained, NEW r \in Requests, Crew(r)
  PROVE  Explained'
<1>1. PICK crew \in SUBSET Loaders :
        /\ loader' = [w \in Loaders |-> IF w \in crew THEN "claim" ELSE "off"]
        /\ unmanned' = (unmanned \/ crew = {})
  BY DEF Crew
<1>2. unmanned' \/ \E w \in Loaders : loader'[w] # "off"
  BY <1>1
<1>3. NothingForgotten'
  BY <1>1 DEF Explained, NothingForgotten, Crew
<1> QED BY <1>2, <1>3 DEF Explained, Crew

LEMMA ExplainedJoin ==
  ASSUME IInv, Explained, NEW r \in Requests, JoinLoaders(r)
  PROVE  Explained'
<1> USE DEF At, NextSource
<1>1. \A s \in Requests : mirror'[s].pc # "join"
  BY Alone DEF IInv, MirrorTypeOK, Mirrors, Active, JoinLoaders
<1>2. left' = left \/ unmanned \/ progress.error
  BY DEF IInv, MirrorTypeOK, Queues, Explained, JoinLoaders
<1>3. NothingForgotten'
  BY <1>2 DEF Explained, NothingForgotten, JoinLoaders
<1> QED BY <1>1, <1>3, MirrorAssumption DEF Explained, JoinLoaders, NoQueue

\* A thread leaves only at the end of the queue or after the stop.
LEMMA ExplainedClaim ==
  ASSUME IInv, Explained, NEW w \in Loaders, Claim(w)
  PROVE  Explained'
<1> USE DEF At, Becomes, mirrors, history
<1>1. CASE (Stopped \/ queue.next = queue.count) /\ UNCHANGED queue
  <2>1. Stopped => queue.abort
    BY DEF Stopped, Explained
  <2> QED BY <1>1, <2>1 DEF Explained, NothingForgotten, Claim
<1>2. CASE Becomes(w, "entry") /\ queue' = [queue EXCEPT !.next = @ + 1]
  <2>1. queue'.fails = queue.fails /\ queue'.abort = queue.abort /\ loader'[w] = "entry"
    BY <1>2 DEF IInv, MirrorTypeOK, Queues
  <2> QED BY <2>1 DEF Explained, NothingForgotten, Claim
<1> QED BY <1>1, <1>2 DEF Claim

LEMMA ExplainedWork ==
  ASSUME IInv, Explained, NEW w \in Loaders,
         Skip(w) \/ Fail(w) \/ Blame(w) \/ Write(w) \/ Count(w)
  PROVE  Explained'
<1> USE DEF At, Becomes, mirrors, history
<1>1. loader'[w] # "off" /\ UNCHANGED <<mirror, left, unmanned>>
  BY DEF IInv, MirrorTypeOK, Skip, Fail, Blame, Write, Count
<1>2. progress.error => progress'.error
  BY DEF IInv, MirrorTypeOK, Progress, Skip, Fail, Blame, Write, Count
<1>3. (queue'.fails >= Limit => queue'.abort) /\ (queue'.abort => progress'.error)
  <2>1. CASE Skip(w) \/ Fail(w) \/ Count(w)
    BY <1>2, <2>1 DEF Explained, Skip, Fail, Count
  <2>2. CASE Write(w)
    BY <1>2, <2>2, MirrorAssumption DEF IInv, MirrorTypeOK, Queues, Explained, Write
  <2>3. CASE Blame(w)
    <3>1. /\ queue'.fails = queue.fails + 1
          /\ queue'.abort = (queue.abort \/ queue.fails + 1 >= Limit)
          /\ progress'.error = (progress.error \/ queue.fails + 1 >= Limit)
      BY <2>3 DEF IInv, MirrorTypeOK, Queues, Progress, Blame
    <3> QED BY <3>1 DEF Explained
  <2> QED BY <2>1, <2>2, <2>3
<1>4. NothingForgotten'
  BY <1>1, <1>2 DEF Explained, NothingForgotten
<1> QED BY <1>1, <1>3, <1>4 DEF Explained

LEMMA ExplainedNext ==
  ASSUME IInv, Explained, [MirrorNext]_mirrorVars PROVE Explained'
<1>1. ASSUME NEW r \in Requests, Run(r) PROVE Explained'
  BY <1>1, ExplainedBetween, ExplainedCrew, ExplainedJoin DEF Run
<1>2. ASSUME NEW w \in Loaders, Load(w) PROVE Explained'
  BY <1>2, ExplainedClaim, ExplainedWork DEF Load
<1>3. CASE UNCHANGED mirrorVars
  BY <1>3 DEF mirrorVars, Explained, NothingForgotten, At
<1> QED BY <1>1, <1>2, <1>3 DEF MirrorNext

\* Entries are left only with an error, or for want of threads.
THEOREM NothingForgottenCorrect == MirrorSpec => []NothingForgotten
<1>1. MirrorInit => Explained
  BY ExplainedInit
<1>2. IInv /\ Explained /\ [MirrorNext]_mirrorVars => Explained'
  BY ExplainedNext
<1>3. Explained => NothingForgotten
  BY DEF Explained
<1> QED BY <1>1, <1>2, <1>3, MirrorCorrect, PTL DEF MirrorSpec
----------------------------------------------------------------------------
(* A download that was stopped.                                            *)

\* The mirror makes a queue only when the last one is gone, so the queue it makes
\* or removes takes nothing from one that was stopped.
LEMMA RunTakesNothing ==
  ASSUME IInv, NEW r \in Requests, Run(r), queue.kind = "download"
  PROVE  ~Takes
<1>1. CASE Archive(r) \/ NoArchive(r) \/ List(r)
  <2>1. mirror[r].pc \in {"source", "listing"}
    BY <1>1 DEF Archive, NoArchive, List, At
  <2>2. \A s \in Requests : s # r => mirror[s].pc = "idle"
    BY <2>1, Alone DEF IInv, Active, At
  <2>3. queue = NoQueue
    BY <2>1, <2>2 DEF IInv, Queued
  <2> QED BY <2>3 DEF NoQueue
<1>2. CASE Start(r) \/ Create(r) \/ Crew(r) \/ FinishMirror(r)
  BY <1>2 DEF Start, Begins, Create, Crew, FinishMirror, Takes
<1>3. CASE JoinLoaders(r)
  BY <1>3 DEF JoinLoaders, Takes
<1> QED BY <1>1, <1>2, <1>3 DEF Run

\* A thread takes an entry only with a claim, which looks at abort first.
LEMMA LoadTakesNothing ==
  ASSUME IInv, NEW w \in Loaders, Load(w), queue.kind = "download", queue.abort
  PROVE  ~Takes
<1>1. CASE Claim(w)
  BY <1>1 DEF Claim, Stopped, Takes
<1>2. CASE Skip(w) \/ Fail(w) \/ Count(w)
  BY <1>2 DEF Skip, Fail, Count, Takes
<1>3. CASE Blame(w) \/ Write(w)
  BY <1>3 DEF IInv, MirrorTypeOK, Queues, Blame, Write, Takes
<1> QED BY <1>1, <1>2, <1>3 DEF Load

\* After dl_worker_fn() reported that writing keeps failing no thread takes an
\* entry of that download any more, whatever the threads at work still have in hand.
THEOREM DownloadStopsCorrect == MirrorSpec => DownloadStops
<1>1. ASSUME IInv, [MirrorNext]_mirrorVars, queue.kind = "download" /\ queue.abort
      PROVE  ~Takes
  <2>1. ASSUME NEW r \in Requests, Run(r) PROVE ~Takes
    BY <1>1, <2>1, RunTakesNothing
  <2>2. ASSUME NEW w \in Loaders, Load(w) PROVE ~Takes
    BY <1>1, <2>2, LoadTakesNothing
  <2>3. CASE UNCHANGED mirrorVars
    BY <2>3 DEF mirrorVars, Takes
  <2> QED BY <1>1, <2>1, <2>2, <2>3 DEF MirrorNext
<1>2. IInv /\ [MirrorNext]_mirrorVars
        => [queue.kind = "download" /\ queue.abort => ~Takes]_mirrorVars
  BY <1>1
<1> QED BY <1>2, MirrorCorrect, PTL DEF MirrorSpec, DownloadStops
=============================================================================
