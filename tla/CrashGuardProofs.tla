-------------------------- MODULE CrashGuardProofs --------------------------
(***************************************************************************)
(* Proofs about CrashGuard, for any threads, cheats, profiles and sizes of *)
(* the tables.  GuardIInv is inductive: the types (GuardTypes), that only  *)
(* a game that stopped is judged (Refreshing), that a request that failed  *)
(* arms nothing (Failing), that a guard and the history of switch-ons tell *)
(* the same (Dated), and that every change of the table is followed by a   *)
(* snapshot and a write (Saved).                                           *)
(*                                                                         *)
(* A table is full or not by the sum of its records.  SumFacts has what is *)
(* needed of such sums; it is by induction over the number of cheats added *)
(* up, with Induction for the natural numbers.                             *)
(***************************************************************************)
EXTENDS CrashGuard, FiniteSetTheorems, WellFoundedInduction, TLAPS

----------------------------------------------------------------------------
(* Sums over the cheats.                                                   *)

NatOrder == {p \in Nat \X Nat : p[1] < p[2]}

\* What holds of 0, and of n + 1 when it holds of n, holds of every number.
LEMMA Induction ==
  ASSUME NEW S, 0 \in S, \A n \in Nat : n \in S => n + 1 \in S
  PROVE  Nat \subseteq S
<1>1. SUFFICES ASSUME Nat \ S # {} PROVE FALSE
  OBVIOUS
<1>2. NatOrder = OpToRel(<, Nat)
  BY DEF OpToRel, NatOrder
<1>3. PICK x \in Nat \ S : \A y \in Nat \ S : ~(<<y, x>> \in NatOrder)
  BY <1>1, <1>2, NatLessThanWellFounded, WFMin, Zenon
<1>4. x # 0 /\ x - 1 \in Nat /\ x - 1 + 1 = x
  OBVIOUS
<1>5. <<x - 1, x>> \in NatOrder
  BY <1>4 DEF NatOrder
<1>6. x - 1 \in S
  BY <1>3, <1>4, <1>5
<1> QED
  BY <1>4, <1>6

\* The order in which a sum takes its terms is the same for every function.
FirstOf(s) == CHOOSE c \in s : TRUE
Sums(g, f) ==
  /\ g[Cheats] = SumFunction(f)
  /\ g[{}] = 0
  /\ \A s \in SUBSET Cheats : s # {} => g[s] = f[FirstOf(s)] + g[s \ {FirstOf(s)}]

LEMMA FirstOfFacts ==
  ASSUME NEW s \in SUBSET Cheats, s # {}
  PROVE  /\ FirstOf(s) \in s /\ FirstOf(s) \in Cheats /\ s \ {FirstOf(s)} \in SUBSET Cheats
         /\ IsFiniteSet(s) /\ Cardinality(s) \in Nat /\ Cardinality(s) # 0
         /\ Cardinality(s \ {FirstOf(s)}) = Cardinality(s) - 1
<1>1. FirstOf(s) \in s
  BY DEF FirstOf
<1>2. IsFiniteSet(s)
  BY GuardAssumption, FS_Subset
<1>3. Cardinality(s) \in Nat /\ Cardinality(s) # 0
  BY <1>2, FS_CardinalityType, FS_EmptySet
<1>4. Cardinality(s \ {FirstOf(s)}) = Cardinality(s) - 1
  BY <1>1, <1>2, FS_RemoveElement
<1> QED
  BY <1>1, <1>2, <1>3, <1>4

\* SumFunction adds up the terms one by one.
LEMMA SumLoop ==
  ASSUME NEW f, DOMAIN f = Cheats
  PROVE  \E g : Sums(g, f)
<1> DEFINE Small(n) == {s \in SUBSET Cheats : Cardinality(s) <= n}
           Turn(g, s) == IF s = {} THEN 0 ELSE f[FirstOf(s)] + g[s \ {FirstOf(s)}]
           Loop(g, n) == g = [s \in Small(n) |-> Turn(g, s)]
           S == {n \in Nat : \E g : Loop(g, n)}
           iter[s \in SUBSET Cheats] ==
             IF s = {} THEN 0
             ELSE f[CHOOSE x \in s : TRUE] + iter[s \ {CHOOSE x \in s : TRUE}]
<1>1. SumFunction(f) = iter[Cheats]
  BY DEF SumFunction, SumFunctionOnSet, FoldFunctionOnSet, MapThenFoldSet
<1>2. /\ Cardinality(Cheats) \in Nat /\ Small(Cardinality(Cheats)) = SUBSET Cheats
      /\ \A s \in SUBSET Cheats : Cardinality(s) \in Nat
      /\ {} \in SUBSET Cheats /\ Cardinality({}) = 0
      /\ \A s \in SUBSET Cheats : Cardinality(s) = 0 => s = {}
  BY GuardAssumption, FS_CardinalityType, FS_Subset, FS_EmptySet
<1>3. 0 \in S
  <2> DEFINE g == [s \in Small(0) |-> 0]
  <2>1. \A s \in Small(0) : s = {}
    BY <1>2
  <2>2. g = [s \in Small(0) |-> Turn(g, s)]
    BY <2>1
  <2> QED
    BY <2>2
<1>4. ASSUME NEW n \in Nat, n \in S PROVE n + 1 \in S
  <2>1. PICK g : Loop(g, n)
    BY <1>4
  <2> HIDE DEF Turn
  <2> DEFINE h == [s \in Small(n + 1) |-> Turn(g, s)]
  <2>2. \A s \in Small(n) : s \in Small(n + 1) /\ h[s] = g[s]
    BY <1>2, <2>1
  <2>3. \A s \in Small(n + 1) : s # {} => s \ {FirstOf(s)} \in Small(n)
    BY FirstOfFacts
  <2>4. \A s \in Small(n + 1) : Turn(h, s) = Turn(g, s)
    BY <2>2, <2>3 DEF Turn
  <2>5. h = [s \in Small(n + 1) |-> Turn(h, s)]
    BY <2>4
  <2> HIDE DEF h, Small
  <2>6. Loop(h, n + 1)
    BY <2>5
  <2> HIDE DEF Loop
  <2> QED
    BY <2>6
<1>5. Cardinality(Cheats) \in S
  BY <1>2, <1>3, <1>4, Induction
<1>6. \E g : g = [s \in SUBSET Cheats |-> Turn(g, s)]
  BY <1>2, <1>5
<1>7. iter = [s \in SUBSET Cheats |-> Turn(iter, s)]
  BY <1>6 DEF FirstOf
<1> HIDE DEF iter
<1>8. Sums(iter, f)
  BY <1>1, <1>2, <1>7 DEF Sums
<1> QED
  BY <1>8

\* u and v are the sums of f and of h over s.
Adds(f, h, M, u, v, s) ==
  /\ u \in Nat /\ v \in Nat
  /\ \A c \in s : f[c] <= u
  /\ (\A c \in Cheats : f[c] = 0) => u = 0
  /\ (\A c \in Cheats : f[c] <= h[c]) => u <= v
  /\ (\A c \in Cheats : h[c] = IF c \in M THEN f[c] + 1 ELSE f[c]) =>
       v = u + Cardinality(s \cap M)

LEMMA SumTerms ==
  ASSUME NEW f \in [Cheats -> Nat], NEW h \in [Cheats -> Nat], NEW M \in SUBSET Cheats,
         NEW a, Sums(a, f), NEW b, Sums(b, h), NEW s \in SUBSET Cheats
  PROVE  Adds(f, h, M, a[s], b[s], s)
<1> DEFINE Q(x) == Adds(f, h, M, a[x], b[x], x)
           S == {n \in Nat : \A x \in SUBSET Cheats : Cardinality(x) = n => Q(x)}
<1>1. a[{}] = 0 /\ b[{}] = 0 /\ Cardinality({}) = 0 /\ \A x : {} \cap x = {}
  BY FS_EmptySet DEF Sums
<1>2. Q({})
  BY <1>1 DEF Adds
<1>3. \A x \in SUBSET Cheats : IsFiniteSet(x) /\ Cardinality(x) \in Nat /\ (Cardinality(x) = 0 => x = {})
  BY GuardAssumption, FS_CardinalityType, FS_Subset, FS_EmptySet
<1>4. 0 \in S
  <2> HIDE DEF Q
  <2> QED
    BY <1>2, <1>3
<1>5. ASSUME NEW n \in Nat, n \in S PROVE n + 1 \in S
  <2> HIDE DEF Q
  <2> SUFFICES ASSUME NEW x \in SUBSET Cheats, Cardinality(x) = n + 1 PROVE Q(x)
    OBVIOUS
  <2> USE DEF Q
  <2> DEFINE c == FirstOf(x)
             y == x \ {c}
  <2>1. x # {}
    BY FS_EmptySet
  <2>2. c \in x /\ c \in Cheats /\ y \in SUBSET Cheats /\ Cardinality(y) = n
    BY <2>1, FirstOfFacts
  <2>3. a[x] = f[c] + a[y] /\ b[x] = h[c] + b[y]
    BY <2>1 DEF Sums
  <2>4. Q(y)
    <3> HIDE DEF Q, y
    <3> QED
      BY <1>5, <2>2
  <2>5. f[c] \in Nat /\ h[c] \in Nat
    BY <2>2
  <2>6. IsFiniteSet(y \cap M) /\ Cardinality(y \cap M) \in Nat
    BY <1>3, <2>2
  <2>7. c \in M => Cardinality(x \cap M) = Cardinality(y \cap M) + 1
    <3>1. c \in M => x \cap M = (y \cap M) \cup {c} /\ c \notin y \cap M
      BY <2>2
    <3> QED
      BY <2>6, <3>1, FS_AddElement
  <2>8. c \notin M => x \cap M = y \cap M
    OBVIOUS
  <2>9. \A d \in x : d = c \/ d \in y
    OBVIOUS
  <2>10. \A d \in y : f[d] \in Nat
    BY <2>2
  <2> HIDE DEF y, c
  <2> USE DEF Adds
  <2>11. a[x] \in Nat /\ b[x] \in Nat
    BY <2>3, <2>4, <2>5
  <2>12. \A d \in x : f[d] <= a[x]
    BY <2>3, <2>4, <2>5, <2>9, <2>10
  <2>13. (\A d \in Cheats : f[d] = 0) => a[x] = 0
    BY <2>2, <2>3, <2>4
  <2>14. (\A d \in Cheats : f[d] <= h[d]) => a[x] <= b[x]
    BY <2>2, <2>3, <2>4, <2>5
  <2>15. ASSUME \A d \in Cheats : h[d] = IF d \in M THEN f[d] + 1 ELSE f[d]
         PROVE  b[x] = a[x] + Cardinality(x \cap M)
    <3>1. b[y] = a[y] + Cardinality(y \cap M) /\ h[c] = IF c \in M THEN f[c] + 1 ELSE f[c]
      BY <2>2, <2>4, <2>15
    <3>2. a[y] \in Nat
      BY <2>4
    <3>3. CASE c \in M
      <4>1. h[c] = f[c] + 1 /\ Cardinality(x \cap M) = Cardinality(y \cap M) + 1
        BY <2>7, <3>1, <3>3
      <4> QED
        BY <2>3, <2>5, <2>6, <3>1, <3>2, <4>1
    <3>4. CASE c \notin M
      <4>1. h[c] = f[c] /\ x \cap M = y \cap M
        BY <2>8, <3>1, <3>4
      <4> QED
        BY <2>3, <2>5, <2>6, <3>1, <3>2, <4>1
    <3> QED
      BY <3>3, <3>4
  <2> QED
    BY <2>11, <2>12, <2>13, <2>14, <2>15
<1>6. Cardinality(s) \in S
  BY <1>3, <1>4, <1>5, Induction
<1>7. Q(s)
  <2> HIDE DEF Q
  <2> QED
    BY <1>6
<1> QED
  BY <1>7

\* What a sum over the cheats is, as far as the tables need it.
LEMMA SumFacts ==
  ASSUME NEW f \in [Cheats -> Nat], NEW h \in [Cheats -> Nat], NEW M \in SUBSET Cheats
  PROVE  /\ SumFunction(f) \in Nat /\ SumFunction(h) \in Nat
         /\ \A c \in Cheats : f[c] <= SumFunction(f)
         /\ (\A c \in Cheats : f[c] = 0) => SumFunction(f) = 0
         /\ (\A c \in Cheats : f[c] <= h[c]) => SumFunction(f) <= SumFunction(h)
         /\ (\A c \in Cheats : h[c] = IF c \in M THEN f[c] + 1 ELSE f[c]) =>
              SumFunction(h) = SumFunction(f) + Cardinality(M)
<1>1. PICK a : Sums(a, f)
  BY SumLoop
<1>2. PICK b : Sums(b, h)
  BY SumLoop
<1>3. a[Cheats] = SumFunction(f) /\ b[Cheats] = SumFunction(h) /\ Cheats \cap M = M
  BY <1>1, <1>2 DEF Sums
<1> HIDE DEF SumFunction
<1>4. Cheats \in SUBSET Cheats
  OBVIOUS
<1>5. Adds(f, h, M, a[Cheats], b[Cheats], Cheats)
  BY <1>1, <1>2, <1>4, SumTerms
<1> QED
  BY <1>3, <1>5 DEF Adds

----------------------------------------------------------------------------
(* The inductive invariant.                                                *)

Requests ==
  [cheat : Cheats, on : BOOLEAN, pid : Pids, failed : BOOLEAN, game : Pids, todo : Seq(Cheats)]
Refreshes ==
  [pc : RefreshLocations, prev : Games, cur : Games, snap : Bags, then : {"none", "start"}]
Guards == [pid : Pids, age : 0..Window]

TableTypes ==
  /\ guards \in [Cheats -> Guards] /\ since \in [Cheats -> Guards]
  /\ Cardinality(Guarded) <= GuardMax
  /\ suspects \in Bags /\ SumFunction(suspects) <= SuspectMax
  /\ file \in Bags /\ SumFunction(file) <= SuspectMax
ThreadTypes ==
  /\ pc \in [Threads -> Locations] /\ req \in [Threads -> Requests]
  /\ ref \in [Refreshers -> Refreshes]
GameTypes == game \in Games /\ started \in Pids /\ lit \subseteq Cheats /\ running \in Games

\* The lock is with the thread that has it.
Holder ==
  lock \in Threads \cup {NoThread} /\ \A t \in Threads : pc[t] \in Locked <=> lock = t

\* What the types need of the snapshots that are still to be written, and of the
\* profile an autoload worker is at.
Pending ==
  /\ \A t \in Refreshers : SumFunction(ref[t].snap) <= SuspectMax
  /\ \A t \in Autoloaders : pc[t] \notin {"idle", "auto"} => req[t].todo # <<>>

GuardTypes == GameTypes /\ TableTypes /\ ThreadTypes /\ Holder /\ Pending

\* Only a game that stopped is judged, and guards are looked at for one that runs.
Refreshing ==
  \A t \in Refreshers : /\ At(t, "judge") => ref[t].prev.pid # 0
                        /\ At(t, "clear") => ref[t].cur.pid # 0

\* A request that failed has nothing left but the unlock.
Failing == \A t \in Threads : req[t].failed => pc[t] = "unlock"

\* A cheat that a request has switched off, and is about to say so.
OffBy(t, c) == pc[t] = "unlock" /\ ~req[t].on /\ ~req[t].failed /\ req[t].cheat = c

\* A guard says when its cheat was switched on last, and a cheat that was
\* switched on less than Window ago, and not off again, has its guard.
Dated ==
  \A c \in Cheats :
    /\ guards[c].pid # 0 => since[c] = guards[c]
    /\ since[c].pid # 0 /\ since[c].age < Window /\ (\A t \in Threads : ~OffBy(t, c))
         => guards[c] = since[c]
    /\ \A t \in Threads : OffBy(t, c) => guards[c].pid = 0

\* A change of the table is followed by a snapshot, and that by a write.
Agrees(bag) ==
  \A c \in Cheats : /\ suspects[c] > 0 => bag[c] > 0
                    /\ bag[c] > 0 => suspects[c] > 0 \/ c \in expired
Saved ==
  ~crossed =>
    /\ \A t, u \in Refreshers : At(t, "save") /\ At(u, "save") => t = u
    /\ (\A t \in Refreshers : ~At(t, "snap")) =>
         /\ \A t \in Refreshers : At(t, "save") => ref[t].snap = suspects
         /\ (\A t \in Refreshers : ~At(t, "save")) => Agrees(file)

GuardIInv == GuardTypes /\ Refreshing /\ Failing /\ Dated /\ Saved

LEMMA GuardTypesMeanTypeOK == GuardTypes => TypeOK
BY DEF GuardTypes, GameTypes, TableTypes, ThreadTypes, Holder, TypeOK, Requests, Refreshes, Guards

----------------------------------------------------------------------------
(* The types.                                                              *)

LEMMA Nothing ==
  /\ NoGame \in Games /\ NoGame.pid = 0 /\ \A g \in Games : g.pid \in Pids /\ (g # NoGame => g.pid # 0)
  /\ NoSuspects \in Bags /\ SumFunction(NoSuspects) = 0
  /\ NoGuard \in Guards /\ NoGuard.pid = 0
  /\ Bags \subseteq [Cheats -> Nat] /\ Pids \subseteq Nat /\ 0 \in Pids
  /\ Refreshers = Users \cup Autoloaders \cup {Monitor}
  /\ Threads = Users \cup Autoloaders /\ Threads \subseteq Refreshers
<1>1. Pids \subseteq Nat /\ 0 \in Pids /\ 1..MaxPid \subseteq Pids /\ 0 \in 0..SuspectMax /\ 0 \in 0..Window
  BY GuardAssumption DEF Pids
<1>2. NoSuspects \in Bags /\ Bags \subseteq [Cheats -> Nat]
  BY <1>1, GuardAssumption DEF NoSuspects, Bags
<1>3. SumFunction(NoSuspects) = 0
  <2>1. \A c \in Cheats : NoSuspects[c] = 0
    BY DEF NoSuspects
  <2>2. NoSuspects \in [Cheats -> Nat] /\ {} \in SUBSET Cheats
    BY <1>2
  <2> QED
    BY <2>1, <2>2, SumFacts
<1> QED
  BY <1>1, <1>2, <1>3, GuardAssumption DEF NoGame, Games, NoGuard, Guards, Refreshers, Threads

LEMMA NoRequestTyped ==
  /\ NoRequest \in Requests /\ NoRequest.todo = <<>> /\ NoRequest.on = FALSE
  /\ NoRequest.failed = FALSE
<1>1. (CHOOSE c \in Cheats : TRUE) \in Cheats
  BY GuardAssumption
<1> QED
  BY <1>1, Nothing DEF NoRequest, Requests

LEMMA NoRefreshTyped ==
  NoRefresh \in Refreshes /\ NoRefresh.pc = "none" /\ NoRefresh.snap = NoSuspects
BY Nothing DEF NoRefresh, Refreshes, RefreshLocations

\* A refresh goes on to another place, or is over.
LEMMA GotoFacts ==
  ASSUME ref \in [Refreshers -> Refreshes], NEW t \in Refreshers,
         NEW loc \in RefreshLocations, Goto(t, loc)
  PROVE  /\ ref' \in [Refreshers -> Refreshes] /\ ref'[t].pc = loc
         /\ \A u \in Refreshers \ {t} : ref'[u] = ref[u]
         /\ ref'[t].snap \in {ref[t].snap, NoSuspects}
         /\ loc # "none" => ref'[t].cur = ref[t].cur
         /\ loc = "judge" => ref'[t].prev = ref[t].prev
<1>1. ref[t] \in Refreshes
  OBVIOUS
<1>2. /\ ref' = [ref EXCEPT ![t] = ref'[t]]
      /\ ref'[t] = IF loc = "none" THEN NoRefresh
                   ELSE IF loc = "judge" THEN [ref[t] EXCEPT !.pc = loc]
                   ELSE [ref[t] EXCEPT !.pc = loc, !.prev = NoGame]
  BY DEF Goto
<1>3. /\ [ref[t] EXCEPT !.pc = loc] \in Refreshes
      /\ [ref[t] EXCEPT !.pc = loc].pc = loc /\ [ref[t] EXCEPT !.pc = loc].snap = ref[t].snap
      /\ [ref[t] EXCEPT !.pc = loc].cur = ref[t].cur /\ [ref[t] EXCEPT !.pc = loc].prev = ref[t].prev
  BY <1>1 DEF Refreshes
<1>4. /\ [ref[t] EXCEPT !.pc = loc, !.prev = NoGame] \in Refreshes
      /\ [ref[t] EXCEPT !.pc = loc, !.prev = NoGame].pc = loc
      /\ [ref[t] EXCEPT !.pc = loc, !.prev = NoGame].snap = ref[t].snap
      /\ [ref[t] EXCEPT !.pc = loc, !.prev = NoGame].cur = ref[t].cur
  BY <1>1, Nothing DEF Refreshes
<1>5. /\ ref'[t] \in Refreshes /\ ref'[t].pc = loc /\ ref'[t].snap \in {ref[t].snap, NoSuspects}
      /\ loc # "none" => ref'[t].cur = ref[t].cur
      /\ loc = "judge" => ref'[t].prev = ref[t].prev
  BY <1>2, <1>3, <1>4, NoRefreshTyped
<1> QED
  BY <1>2, <1>5

LEMMA SaveFacts ==
  ASSUME ref \in [Refreshers -> Refreshes], NEW t \in Refreshers,
         NEW then \in {"none", "start"}, Save(t, then)
  PROVE  /\ ref' \in [Refreshers -> Refreshes] /\ ref'[t].pc = "snap"
         /\ \A u \in Refreshers \ {t} : ref'[u] = ref[u]
         /\ ref'[t].snap = NoSuspects
<1> DEFINE r == [NoRefresh EXCEPT !.pc = "snap", !.then = then,
                   !.cur = IF then = "none" THEN NoGame ELSE ref[t].cur]
           cur == IF then = "none" THEN NoGame ELSE ref[t].cur
<1>1. cur \in Games
  BY Nothing DEF Refreshes
<1>2. ref' = [ref EXCEPT ![t] = r]
  BY DEF Save
<1>3. "snap" \in RefreshLocations
  BY DEF RefreshLocations
<1> HIDE DEF cur
<1>4. r = [NoRefresh EXCEPT !.pc = "snap", !.then = then, !.cur = cur]
  BY DEF cur
<1> HIDE DEF r
<1>5. r \in Refreshes /\ r.pc = "snap" /\ r.snap = NoSuspects
  BY <1>1, <1>3, <1>4, NoRefreshTyped DEF Refreshes
<1> QED
  BY <1>2, <1>5

\* The step of a refresh.
LEMMA RefreshTyped ==
  ASSUME GuardTypes, Refreshing, NEW t \in Refreshers, Refresh(t)
  PROVE  /\ ref' \in [Refreshers -> Refreshes]
         /\ \A u \in Refreshers \ {t} : ref'[u] = ref[u]
         /\ SumFunction(ref'[t].snap) <= SuspectMax
         /\ ref'[t].pc = "judge" => ref'[t].prev.pid # 0
         /\ ref'[t].pc = "clear" => ref'[t].cur.pid # 0
<1>1. /\ ref \in [Refreshers -> Refreshes] /\ ref[t] \in Refreshes /\ game \in Games
      /\ running \in Games /\ suspects \in Bags /\ SumFunction(suspects) <= SuspectMax
      /\ SumFunction(ref[t].snap) <= SuspectMax
  BY DEF GuardTypes, ThreadTypes, GameTypes, TableTypes, Pending
<1>2. /\ {"none", "read", "set", "judge", "start", "clear", "snap", "save"} \subseteq RefreshLocations
      /\ SumFunction(NoSuspects) <= SuspectMax
  BY Nothing, GuardAssumption DEF RefreshLocations
<1>3. ASSUME NEW loc \in RefreshLocations, Goto(t, loc),
             loc = "judge" => ref[t].prev.pid # 0, loc = "clear" => ref[t].cur.pid # 0
      PROVE  /\ ref' \in [Refreshers -> Refreshes]
             /\ \A u \in Refreshers \ {t} : ref'[u] = ref[u]
             /\ SumFunction(ref'[t].snap) <= SuspectMax
             /\ ref'[t].pc = "judge" => ref'[t].prev.pid # 0
             /\ ref'[t].pc = "clear" => ref'[t].cur.pid # 0
  BY <1>1, <1>2, <1>3, GotoFacts
<1>4. ASSUME NEW then \in {"none", "start"}, Save(t, then)
      PROVE  /\ ref' \in [Refreshers -> Refreshes]
             /\ \A u \in Refreshers \ {t} : ref'[u] = ref[u]
             /\ SumFunction(ref'[t].snap) <= SuspectMax
             /\ ref'[t].pc = "snap"
  BY <1>1, <1>2, <1>4, SaveFacts
<1>5. ASSUME NEW r \in Refreshes, ref' = [ref EXCEPT ![t] = r], SumFunction(r.snap) <= SuspectMax,
             r.pc \notin {"judge", "clear"}
      PROVE  /\ ref' \in [Refreshers -> Refreshes]
             /\ \A u \in Refreshers \ {t} : ref'[u] = ref[u]
             /\ SumFunction(ref'[t].snap) <= SuspectMax
             /\ ref'[t].pc \notin {"judge", "clear"}
  BY <1>1, <1>5
<1>6. CASE ReadPrev(t)
  <2> DEFINE r == [NoRefresh EXCEPT !.pc = "read", !.prev = running]
  <2>1. r \in Refreshes /\ r.snap = NoSuspects /\ r.pc = "read"
    BY <1>1, <1>2, NoRefreshTyped DEF Refreshes
  <2> QED
    BY <1>2, <1>5, <1>6, <2>1 DEF ReadPrev
<1>7. CASE ReadCur(t)
  <2> DEFINE r == [ref[t] EXCEPT !.pc = "set", !.cur = game]
  <2>1. r \in Refreshes /\ r.snap = ref[t].snap /\ r.pc = "set"
    BY <1>1, <1>2 DEF Refreshes
  <2>2. ref' = [ref EXCEPT ![t] = r]
    BY <1>1, <1>7 DEF ReadCur
  <2> QED
    BY <1>1, <1>5, <2>1, <2>2
<1>8. CASE Set(t)
  <2>1. ref[t].prev \in Games /\ ref[t].cur \in Games
    BY <1>1 DEF Refreshes
  <2>2. \/ Goto(t, "judge") /\ ref[t].prev.pid # 0
        \/ Goto(t, "start") \/ Goto(t, "none")
        \/ Goto(t, "clear") /\ ref[t].cur.pid # 0
    BY <1>8, <2>1, Nothing DEF Set
  <2> QED
    BY <1>2, <1>3, <2>2
<1>9. CASE Judge(t)
  <2>1. Goto(t, "start") \/ Save(t, "start")
    BY <1>9 DEF Judge
  <2> QED
    BY <1>2, <1>3, <1>4, <2>1
<1>10. CASE StartAutoload(t)
  <2>1. Goto(t, "none") \/ (Goto(t, "clear") /\ ref[t].cur # NoGame)
    BY <1>10 DEF StartAutoload
  <2>2. ref[t].cur \in Games
    BY <1>1 DEF Refreshes
  <2> QED
    BY <1>2, <1>3, <2>1, <2>2, Nothing
<1>11. CASE Clear(t)
  <2>1. Goto(t, "none") \/ Save(t, "none")
    BY <1>11 DEF Clear
  <2> QED
    BY <1>2, <1>3, <1>4, <2>1
<1>12. CASE Snapshot(t)
  <2> DEFINE r == [ref[t] EXCEPT !.pc = "save", !.snap = suspects]
  <2>1. r \in Refreshes /\ r.snap = suspects /\ r.pc = "save"
    BY <1>1, <1>2 DEF Refreshes
  <2>2. ref' = [ref EXCEPT ![t] = r]
    BY <1>1, <1>12 DEF Snapshot
  <2> QED
    BY <1>1, <1>5, <2>1, <2>2
<1>13. CASE WriteFile(t)
  <2> DEFINE r == [NoRefresh EXCEPT !.pc = ref[t].then, !.cur = ref[t].cur]
  <2>1. ref[t].then \in {"none", "start"} /\ ref[t].cur \in Games
    BY <1>1 DEF Refreshes
  <2>2. r \in Refreshes /\ r.snap = NoSuspects /\ r.pc = ref[t].then
    BY <1>1, <1>2, <2>1, NoRefreshTyped DEF Refreshes
  <2> QED
    BY <1>2, <1>5, <1>13, <2>1, <2>2 DEF WriteFile
<1> QED
  BY <1>6, <1>7, <1>8, <1>9, <1>10, <1>11, <1>12, <1>13 DEF Refresh

\* A request that is answered, or the next cheat of a profile.
LEMMA FinishTyped ==
  ASSUME GuardTypes, NEW t \in Threads, NEW retry \in BOOLEAN, Finish(t, retry),
         pc[t] \notin {"idle", "auto"}
  PROVE  /\ pc' = [pc EXCEPT ![t] = pc'[t]] /\ pc'[t] \in {"idle", "auto"}
         /\ req' = [req EXCEPT ![t] = req'[t]] /\ req'[t] \in Requests
         /\ req'[t].failed = FALSE
<1>1. pc \in [Threads -> Locations] /\ req \in [Threads -> Requests] /\ req[t] \in Requests
  BY DEF GuardTypes, ThreadTypes
<1>2. CASE t \in Users
  BY <1>1, <1>2, NoRequestTyped DEF Finish, Go
<1>3. CASE t \notin Users
  <2> DEFINE todo == IF retry THEN req[t].todo ELSE Tail(req[t].todo)
             r == [NoRequest EXCEPT !.game = req[t].game, !.todo = todo]
  <2>1. t \in Autoloaders /\ req[t].todo \in Seq(Cheats) /\ req[t].todo # <<>> /\ req[t].game \in Pids
    BY <1>1, <1>3 DEF Threads, GuardTypes, Pending, Requests
  <2>2. todo \in Seq(Cheats)
    BY <2>1
  <2>3. /\ pc' = [pc EXCEPT ![t] = "auto"]
        /\ req' = [req EXCEPT ![t] = r]
    BY <1>3 DEF Finish, Go
  <2> HIDE DEF todo
  <2>4. r \in Requests /\ r.failed = FALSE
    BY <2>1, <2>2, NoRequestTyped DEF Requests
  <2> QED
    BY <1>1, <2>3, <2>4
<1> QED
  BY <1>2, <1>3

\* What a step of a request may do to the request, the thread and the lock.
RequestStep(t) ==
  /\ pc' = [pc EXCEPT ![t] = pc'[t]] /\ pc'[t] \in Locations
  /\ req' = [req EXCEPT ![t] = req'[t]] /\ req'[t] \in Requests
  /\ t \in Autoloaders /\ pc'[t] \notin {"idle", "auto"} => req'[t].todo # <<>>
  /\ \/ lock' = lock /\ (pc[t] \in Locked <=> pc'[t] \in Locked)
     \/ lock = NoThread /\ lock' = t /\ pc'[t] \in Locked
     \/ pc[t] \in Locked /\ lock' = NoThread /\ pc'[t] \notin Locked

LEMMA GoFacts ==
  ASSUME GuardTypes, NEW t \in Threads, NEW loc \in Locations, Go(t, loc)
  PROVE  pc' = [pc EXCEPT ![t] = pc'[t]] /\ pc'[t] = loc
BY DEF GuardTypes, ThreadTypes, Go

\* A field of a request is set: it is a request still.
LEMMA RequestFields ==
  ASSUME NEW r \in Requests, NEW c \in Cheats, NEW on \in BOOLEAN, NEW pid \in Pids
  PROVE  /\ [r EXCEPT !.cheat = c, !.on = on] \in Requests
         /\ [r EXCEPT !.cheat = c, !.on = on].todo = r.todo
         /\ [r EXCEPT !.cheat = c, !.on = on].failed = r.failed
         /\ [r EXCEPT !.pid = pid] \in Requests
         /\ [r EXCEPT !.pid = pid].todo = r.todo
         /\ [r EXCEPT !.pid = pid].failed = r.failed
         /\ [r EXCEPT !.pid = pid].cheat = r.cheat /\ [r EXCEPT !.pid = pid].on = r.on
         /\ [r EXCEPT !.failed = TRUE, !.pid = 0] \in Requests
         /\ [r EXCEPT !.failed = TRUE, !.pid = 0].todo = r.todo
         /\ [r EXCEPT !.failed = TRUE, !.pid = 0].failed = TRUE
BY Nothing DEF Requests

\* A request's answer, and an autoload's worker past it.
LEMMA FinishStep ==
  ASSUME GuardTypes, NEW t \in Threads, NEW retry \in BOOLEAN, Finish(t, retry),
         pc[t] \notin {"idle", "auto"},
         \/ lock' = lock /\ pc[t] \notin Locked
         \/ lock' = NoThread /\ pc[t] \in Locked
  PROVE  RequestStep(t)
<1>1. {"idle", "auto"} \subseteq Locations /\ {"idle", "auto"} \cap Locked = {}
  BY DEF Locations, Locked
<1>2. /\ pc' = [pc EXCEPT ![t] = pc'[t]] /\ pc'[t] \in {"idle", "auto"}
      /\ req' = [req EXCEPT ![t] = req'[t]] /\ req'[t] \in Requests
  BY FinishTyped
<1> QED
  BY <1>1, <1>2 DEF RequestStep

LEMMA WorkTyped ==
  ASSUME GuardTypes, NEW t \in Threads, Work(t)
  PROVE  RequestStep(t)
<1>1. /\ pc \in [Threads -> Locations] /\ req \in [Threads -> Requests] /\ req[t] \in Requests
      /\ game \in Games /\ pc[t] \in Locked <=> lock = t
      /\ t \in Autoloaders /\ pc[t] \notin {"idle", "auto"} => req[t].todo # <<>>
      /\ req[t].todo \in Seq(Cheats) /\ req[t].cheat \in Cheats /\ req[t].pid \in Pids
      /\ game.pid \in Pids
  BY Nothing DEF GuardTypes, ThreadTypes, GameTypes, Holder, Pending, Requests
<1>2. /\ {"idle", "check", "auto", "begin", "lock", "write", "arm", "unlock"} \subseteq Locations
      /\ {"idle", "check", "auto", "begin", "lock"} \cap Locked = {}
      /\ {"write", "arm", "unlock"} \subseteq Locked
  BY DEF Locations, Locked
<1>3. ASSUME UNCHANGED req, pc[t] \notin {"idle", "auto"}
      PROVE  /\ req' = [req EXCEPT ![t] = req'[t]] /\ req'[t] \in Requests
             /\ t \in Autoloaders => req'[t].todo # <<>>
  BY <1>1, <1>3
<1>4. ASSUME NEW r \in Requests, req' = [req EXCEPT ![t] = r]
      PROVE  req' = [req EXCEPT ![t] = req'[t]] /\ req'[t] = r /\ req'[t] \in Requests
  BY <1>1, <1>4
<1>5. CASE Check(t)
  <2>1. pc[t] = "check" /\ lock' = lock
    BY <1>5 DEF Check, In
  <2>2. \/ Go(t, "idle") /\ req' = [req EXCEPT ![t] = NoRequest]
        \/ Go(t, "begin") /\ UNCHANGED req
    BY <1>5 DEF Check
  <2> QED
    BY <1>2, <1>3, <1>4, <2>1, <2>2, GoFacts, NoRequestTyped DEF RequestStep
<1>6. CASE Autoload(t)
  <2> DEFINE r == [req[t] EXCEPT !.cheat = Head(req[t].todo), !.on = TRUE]
  <2>1. pc[t] = "auto" /\ lock' = lock
    BY <1>6 DEF Autoload, In
  <2>2. CASE Go(t, "idle") /\ req' = [req EXCEPT ![t] = NoRequest]
    BY <1>2, <1>4, <2>1, <2>2, GoFacts, NoRequestTyped DEF RequestStep
  <2>3. CASE req[t].todo # <<>> /\ Go(t, "begin") /\ req' = [req EXCEPT ![t] = r]
    <3>1. Head(req[t].todo) \in Cheats
      BY <1>1, <2>3
    <3>2. r \in Requests /\ r.todo = req[t].todo
      BY <1>1, <3>1, RequestFields
    <3> HIDE DEF r
    <3> QED
      BY <1>2, <1>4, <2>1, <2>3, <3>2, GoFacts DEF RequestStep
  <2>4. \/ req[t].todo # <<>> /\ Go(t, "begin") /\ req' = [req EXCEPT ![t] = r]
        \/ Go(t, "idle") /\ req' = [req EXCEPT ![t] = NoRequest]
    <3>1. req' = [req EXCEPT ![t].cheat = Head(req[t].todo), ![t].on = TRUE]
            => req' = [req EXCEPT ![t] = r]
      BY <1>1
    <3> HIDE DEF r
    <3> QED
      BY <1>6, <3>1 DEF Autoload
  <2> QED
    BY <2>2, <2>3, <2>4
<1>7. CASE Begin(t)
  <2> DEFINE r == [req[t] EXCEPT !.pid = game.pid]
  <2>1. pc[t] = "begin" /\ lock' = lock
    BY <1>7 DEF Begin, In
  <2>2. CASE Go(t, "lock") /\ req' = [req EXCEPT ![t] = r]
    <3>1. r \in Requests /\ r.todo = req[t].todo
      BY <1>1, RequestFields
    <3> HIDE DEF r
    <3> QED
      BY <1>1, <1>2, <1>4, <2>1, <2>2, <3>1, GoFacts DEF RequestStep
  <2>3. CASE \E retry \in BOOLEAN : Finish(t, retry)
    BY <1>2, <2>1, <2>3, FinishStep
  <2>4. (Go(t, "lock") /\ req' = [req EXCEPT ![t] = r]) \/ \E retry \in BOOLEAN : Finish(t, retry)
    BY <1>1, <1>7 DEF Begin
  <2> QED
    BY <2>2, <2>3, <2>4
<1>8. CASE TakeLock(t)
  <2>1. pc[t] = "lock"
    BY <1>8 DEF TakeLock, In
  <2>2. CASE lock = NoThread /\ lock' = t /\ Go(t, "write") /\ UNCHANGED req
    BY <1>2, <1>3, <2>1, <2>2, GoFacts DEF RequestStep
  <2>3. CASE Finish(t, TRUE) /\ UNCHANGED lock
    BY <1>2, <2>1, <2>3, FinishStep
  <2> QED
    BY <1>8, <2>2, <2>3 DEF TakeLock
<1>9. ASSUME Go(t, "unlock"), req' = [req EXCEPT ![t].failed = TRUE, ![t].pid = 0],
             lock' = lock, pc[t] = "write"
      PROVE  RequestStep(t)
  <2> DEFINE r == [req[t] EXCEPT !.failed = TRUE, !.pid = 0]
  <2>1. req' = [req EXCEPT ![t] = r]
    BY <1>1, <1>9
  <2>2. r \in Requests /\ r.todo = req[t].todo
    BY <1>1, RequestFields
  <2> HIDE DEF r
  <2>3. req' = [req EXCEPT ![t] = req'[t]] /\ req'[t] = r /\ req'[t] \in Requests
    BY <1>4, <2>1, <2>2
  <2>4. pc' = [pc EXCEPT ![t] = pc'[t]] /\ pc'[t] = "unlock"
    BY <1>2, <1>9, GoFacts
  <2> QED
    BY <1>1, <1>2, <1>9, <2>2, <2>3, <2>4 DEF RequestStep
<1>10. CASE Write(t)
  <2>1. pc[t] = "write" /\ lock' = lock
    BY <1>10 DEF Write, In
  <2>2. CASE Go(t, "arm") /\ UNCHANGED req
    BY <1>2, <1>3, <2>1, <2>2, GoFacts DEF RequestStep
  <2> QED
    BY <1>9, <1>10, <2>1, <2>2 DEF Write
<1>11. CASE GameGone(t)
  <2>1. pc[t] = "write"
    BY <1>11 DEF GameGone, In
  <2>2. CASE lock' = NoThread /\ Finish(t, FALSE)
    BY <1>2, <2>1, <2>2, FinishStep
  <2> QED
    BY <1>9, <1>11, <2>1, <2>2 DEF GameGone
<1>12. CASE Arm(t)
  <2> DEFINE r == [req[t] EXCEPT !.pid = 0]
  <2>1. pc[t] = "arm" /\ lock' = lock /\ Go(t, "unlock")
    BY <1>12 DEF Arm, In
  <2>2. req' = [req EXCEPT ![t] = r]
    BY <1>1, <1>12 DEF Arm
  <2>3. r \in Requests /\ r.todo = req[t].todo
    BY <1>1, Nothing, RequestFields
  <2> HIDE DEF r
  <2> QED
    BY <1>1, <1>2, <1>4, <2>1, <2>2, <2>3, GoFacts DEF RequestStep
<1>13. CASE Unlock(t)
  <2>1. pc[t] = "unlock" /\ lock' = NoThread /\ Finish(t, FALSE)
    BY <1>13 DEF Unlock, In
  <2> QED
    BY <1>2, <2>1, FinishStep
<1> QED
  BY <1>5, <1>6, <1>7, <1>8, <1>10, <1>11, <1>12, <1>13 DEF Work

\* A step of a request keeps the requests' types and the lock's holder.
LEMMA RequestStepTyped ==
  ASSUME GuardTypes, NEW t \in Threads, RequestStep(t)
  PROVE  /\ pc' \in [Threads -> Locations] /\ req' \in [Threads -> Requests]
         /\ Holder'
         /\ \A a \in Autoloaders : pc'[a] \notin {"idle", "auto"} => req'[a].todo # <<>>
         /\ \A u \in Threads \ {t} : pc'[u] = pc[u] /\ req'[u] = req[u]
<1>1. pc \in [Threads -> Locations] /\ req \in [Threads -> Requests] /\ Holder
      /\ \A a \in Autoloaders : pc[a] \notin {"idle", "auto"} => req[a].todo # <<>>
  BY DEF GuardTypes, ThreadTypes, Pending
<1>2. /\ pc' \in [Threads -> Locations] /\ req' \in [Threads -> Requests]
      /\ \A u \in Threads \ {t} : pc'[u] = pc[u] /\ req'[u] = req[u]
  BY <1>1 DEF RequestStep
<1>3. NoThread \notin Threads /\ t # NoThread
  BY GuardAssumption, Nothing
<1>4. Holder'
  BY <1>1, <1>2, <1>3 DEF RequestStep, Holder
<1>5. ASSUME NEW a \in Autoloaders, pc'[a] \notin {"idle", "auto"} PROVE req'[a].todo # <<>>
  <2>1. a \in Threads
    BY Nothing
  <2> QED
    BY <1>1, <1>2, <1>5, <2>1 DEF RequestStep
<1> QED
  BY <1>2, <1>4, <1>5

\* A request touches the refreshes only to begin one.
LEMMA WorkRefresh ==
  ASSUME GuardTypes, NEW t \in Threads, Work(t)
  PROVE  /\ ref' \in [Refreshers -> Refreshes]
         /\ \A u \in Refreshers :
              /\ ref'[u].snap = ref[u].snap /\ ref'[u].prev = ref[u].prev /\ ref'[u].cur = ref[u].cur
              /\ \/ ref'[u].pc = ref[u].pc
                 \/ u = t /\ ref[u].pc = "none" /\ ref'[u].pc = "prev"
<1>1. ref \in [Refreshers -> Refreshes] /\ t \in Refreshers /\ "prev" \in RefreshLocations
  BY Nothing DEF GuardTypes, ThreadTypes, RefreshLocations
<1>2. CASE UNCHANGED ref
  BY <1>1, <1>2
<1>3. CASE GameGone(t)
  <2> DEFINE r == [ref[t] EXCEPT !.pc = "prev"]
  <2>1. ref[t] \in Refreshes
    BY <1>1
  <2>2. /\ r \in Refreshes /\ r.pc = "prev" /\ r.snap = ref[t].snap /\ r.prev = ref[t].prev
        /\ r.cur = ref[t].cur
    BY <1>1, <2>1 DEF Refreshes
  <2>3. ref' = [ref EXCEPT ![t] = r] /\ ref[t].pc = "none"
    BY <1>1, <1>3 DEF GameGone, In, At
  <2> HIDE DEF r
  <2> QED
    BY <1>1, <2>2, <2>3
<1> QED
  BY <1>2, <1>3 DEF Work, Check, Autoload, Begin, TakeLock, Write, Arm, Unlock

\* A refresh touches the requests only to start an autoload worker.
LEMMA RefreshRequests ==
  ASSUME GuardTypes, NEW t \in Refreshers, Refresh(t)
  PROVE  /\ lock' = lock
         /\ \/ UNCHANGED <<pc, req>>
            \/ \E a \in Autoloaders : RequestStep(a) /\ pc[a] = "idle" /\ pc'[a] = "auto"
<1>1. CASE UNCHANGED <<pc, req, lock>>
  BY <1>1
<1>2. CASE StartAutoload(t)
  <2>1. lock' = lock
    BY <1>2 DEF StartAutoload
  <2>2. CASE UNCHANGED <<pc, req>>
    BY <2>1, <2>2
  <2>3. CASE ~UNCHANGED <<pc, req>>
    <3> DEFINE cur == ref[t].cur
               todo == Profile[cur.title]
               r == [NoRequest EXCEPT !.game = cur.pid, !.todo = todo]
    <3>1. PICK a \in Autoloaders : /\ cur # NoGame /\ pc[a] = "idle"
                                   /\ pc' = [pc EXCEPT ![a] = "auto"]
                                   /\ req' = [req EXCEPT ![a] = r]
      BY <1>2, <2>3 DEF StartAutoload
    <3>2. cur \in Games
      BY DEF GuardTypes, ThreadTypes, Refreshes
    <3>3. cur.title \in Titles /\ cur.pid \in Pids
      BY <3>1, <3>2, Nothing DEF Games
    <3>4. todo \in Seq(Cheats)
      BY <3>3, GuardAssumption
    <3> HIDE DEF todo, cur
    <3>5. r \in Requests
      BY <3>3, <3>4, NoRequestTyped DEF Requests
    <3> HIDE DEF r
    <3>6. /\ pc \in [Threads -> Locations] /\ req \in [Threads -> Requests] /\ a \in Threads
          /\ {"idle", "auto"} \subseteq Locations /\ {"idle", "auto"} \cap Locked = {}
      BY Nothing DEF GuardTypes, ThreadTypes, Locations, Locked
    <3> QED
      BY <2>1, <3>1, <3>5, <3>6 DEF RequestStep
  <2> QED
    BY <2>2, <2>3
<1> QED
  BY <1>1, <1>2 DEF Refresh, ReadPrev, ReadCur, Set, Judge, Clear, Snapshot, WriteFile

LEMMA AskTyped ==
  ASSUME GuardTypes, NEW t \in Users, NEW c \in Cheats, RequestToggle(t, c)
  PROVE  RequestStep(t) /\ ref' = ref /\ pc'[t] \in {"check", "begin"}
<1>1. /\ pc \in [Threads -> Locations] /\ req \in [Threads -> Requests] /\ t \in Threads
      /\ t \notin Autoloaders /\ pc[t] = "idle"
      /\ {"idle", "check", "begin"} \subseteq Locations /\ {"idle", "check", "begin"} \cap Locked = {}
  BY GuardAssumption DEF GuardTypes, ThreadTypes, Threads, Locations, Locked, RequestToggle, In
<1>2. PICK on \in BOOLEAN, loc \in {"check", "begin"} :
        req' = [req EXCEPT ![t] = [NoRequest EXCEPT !.cheat = c, !.on = on]] /\ Go(t, loc)
  BY DEF RequestToggle
<1> DEFINE r == [NoRequest EXCEPT !.cheat = c, !.on = on]
<1>3. r \in Requests
  BY NoRequestTyped, RequestFields, Nothing
<1> HIDE DEF r
<1>4. lock' = lock /\ ref' = ref
  BY DEF RequestToggle
<1>5. pc' = [pc EXCEPT ![t] = pc'[t]] /\ pc'[t] = loc
  BY <1>1, <1>2, GoFacts
<1> QED
  BY <1>1, <1>2, <1>3, <1>4, <1>5 DEF RequestStep, r

\* The threads, the lock and the refreshes after any step.
LEMMA ThreadStep ==
  ASSUME GuardTypes, Refreshing, [Next]_vars
  PROVE  ThreadTypes' /\ Holder' /\ Pending' /\ Refreshing'
<1>1. /\ pc \in [Threads -> Locations] /\ req \in [Threads -> Requests]
      /\ ref \in [Refreshers -> Refreshes] /\ Holder /\ Pending
      /\ \A t \in Refreshers : ref[t] \in Refreshes
  BY DEF GuardTypes, ThreadTypes
<1>2. Threads \subseteq Refreshers /\ Users \subseteq Threads /\ Autoloaders \subseteq Threads
  BY Nothing
<1>3. ASSUME UNCHANGED <<pc, req, lock>>
      PROVE  /\ pc' \in [Threads -> Locations] /\ req' \in [Threads -> Requests] /\ Holder'
             /\ \A a \in Autoloaders : pc'[a] \notin {"idle", "auto"} => req'[a].todo # <<>>
  BY <1>1, <1>3 DEF Holder, Pending
<1>4. ASSUME ref' = ref
      PROVE  /\ ref' \in [Refreshers -> Refreshes]
             /\ \A u \in Refreshers : SumFunction(ref'[u].snap) <= SuspectMax
             /\ Refreshing'
  BY <1>1, <1>4 DEF Pending, Refreshing, At
<1>5. CASE StartGame \/ EndGame \/ Tick \/ UNCHANGED vars
  <2>1. UNCHANGED <<pc, req, lock, ref>>
    BY <1>5 DEF StartGame, EndGame, Tick, vars
  <2> QED
    BY <1>3, <1>4, <2>1 DEF ThreadTypes, Pending
<1>6. CASE Restart
  <2>1. /\ pc' = [t \in Threads |-> "idle"] /\ req' = [t \in Threads |-> NoRequest]
        /\ ref' = [t \in Refreshers |-> NoRefresh] /\ lock' = NoThread
    BY <1>6 DEF Restart
  <2>2. "idle" \in Locations /\ "idle" \notin Locked
    BY DEF Locations, Locked
  <2>3. ThreadTypes'
    BY <2>1, <2>2, NoRequestTyped, NoRefreshTyped DEF ThreadTypes
  <2>4. Holder'
    BY <2>1, <2>2, GuardAssumption, Nothing DEF Holder
  <2>5. \A u \in Refreshers : ref'[u] = NoRefresh
    BY <2>1
  <2>6. Pending'
    <3>1. SumFunction(NoSuspects) <= SuspectMax
      BY Nothing, GuardAssumption
    <3>2. \A u \in Refreshers : SumFunction(ref'[u].snap) <= SuspectMax
      BY <2>5, <3>1, NoRefreshTyped
    <3>3. \A a \in Autoloaders : pc'[a] = "idle"
      BY <1>2, <2>1
    <3> QED
      BY <3>2, <3>3 DEF Pending
  <2>7. Refreshing'
    BY <2>5, NoRefreshTyped DEF Refreshing, At
  <2> QED
    BY <2>3, <2>4, <2>6, <2>7
<1>7. ASSUME NEW t \in Refreshers, Refresh(t)
      PROVE  ThreadTypes' /\ Holder' /\ Pending' /\ Refreshing'
  <2>1. /\ ref' \in [Refreshers -> Refreshes]
        /\ \A u \in Refreshers \ {t} : ref'[u] = ref[u]
        /\ SumFunction(ref'[t].snap) <= SuspectMax
        /\ ref'[t].pc = "judge" => ref'[t].prev.pid # 0
        /\ ref'[t].pc = "clear" => ref'[t].cur.pid # 0
    BY <1>7, RefreshTyped
  <2>2. /\ pc' \in [Threads -> Locations] /\ req' \in [Threads -> Requests] /\ Holder'
        /\ \A a \in Autoloaders : pc'[a] \notin {"idle", "auto"} => req'[a].todo # <<>>
    BY <1>2, <1>3, <1>7, RefreshRequests, RequestStepTyped
  <2>3. Refreshing'
    BY <1>7, <2>1 DEF Refreshing, At
  <2>4. \A u \in Refreshers : SumFunction(ref'[u].snap) <= SuspectMax
    BY <1>1, <2>1 DEF Pending
  <2> QED
    BY <2>1, <2>2, <2>3, <2>4 DEF ThreadTypes, Pending
<1>8. ASSUME NEW t \in Threads, Work(t)
      PROVE  ThreadTypes' /\ Holder' /\ Pending' /\ Refreshing'
  <2>1. /\ pc' \in [Threads -> Locations] /\ req' \in [Threads -> Requests] /\ Holder'
        /\ \A a \in Autoloaders : pc'[a] \notin {"idle", "auto"} => req'[a].todo # <<>>
    BY <1>8, WorkTyped, RequestStepTyped
  <2>2. /\ ref' \in [Refreshers -> Refreshes]
        /\ \A u \in Refreshers :
             /\ ref'[u].snap = ref[u].snap /\ ref'[u].prev = ref[u].prev /\ ref'[u].cur = ref[u].cur
             /\ \/ ref'[u].pc = ref[u].pc
                \/ u = t /\ ref[u].pc = "none" /\ ref'[u].pc = "prev"
    BY <1>8, WorkRefresh
  <2>3. Refreshing'
    BY <2>2 DEF Refreshing, At
  <2>4. \A u \in Refreshers : SumFunction(ref'[u].snap) <= SuspectMax
    BY <1>1, <2>2 DEF Pending
  <2> QED
    BY <2>1, <2>2, <2>3, <2>4 DEF ThreadTypes, Pending
<1>9. ASSUME NEW t \in Users, NEW c \in Cheats, RequestToggle(t, c)
      PROVE  ThreadTypes' /\ Holder' /\ Pending' /\ Refreshing'
  <2>1. /\ pc' \in [Threads -> Locations] /\ req' \in [Threads -> Requests] /\ Holder'
        /\ \A a \in Autoloaders : pc'[a] \notin {"idle", "auto"} => req'[a].todo # <<>>
    BY <1>2, <1>9, AskTyped, RequestStepTyped
  <2>2. ref' = ref
    BY <1>9, AskTyped
  <2> QED
    BY <1>4, <2>1, <2>2 DEF ThreadTypes, Pending
<1>10. ASSUME NEW t \in Users, NEW title \in Titles, ClearFlags(t, title)
       PROVE  ThreadTypes' /\ Holder' /\ Pending' /\ Refreshing'
  <2>1. Save(t, "none") /\ UNCHANGED <<pc, req, lock>> /\ t \in Refreshers
    BY <1>2, <1>10 DEF ClearFlags
  <2>2. /\ ref' \in [Refreshers -> Refreshes] /\ ref'[t].pc = "snap"
        /\ \A u \in Refreshers \ {t} : ref'[u] = ref[u]
        /\ ref'[t].snap = NoSuspects
    BY <1>1, <2>1, SaveFacts
  <2>3. SumFunction(NoSuspects) <= SuspectMax
    BY Nothing, GuardAssumption
  <2>4. \A u \in Refreshers : SumFunction(ref'[u].snap) <= SuspectMax
    BY <1>1, <2>2, <2>3 DEF Pending
  <2>5. Refreshing'
    BY <2>2 DEF Refreshing, At
  <2> QED
    BY <1>3, <2>1, <2>2, <2>4, <2>5 DEF ThreadTypes, Pending
<1> QED
  BY <1>5, <1>6, <1>7, <1>8, <1>9, <1>10 DEF Next

----------------------------------------------------------------------------
(* The tables.                                                             *)

LEMMA OlderFacts ==
  ASSUME NEW g \in [Cheats -> Guards]
  PROVE  /\ Older(g) \in [Cheats -> Guards]
         /\ \A c \in Cheats : /\ Older(g)[c].pid = g[c].pid
                              /\ Older(g)[c] = g[c] \/ g[c].age < Window
                              /\ Older(g)[c].age < Window => g[c].age < Window
<1>1. Window \in Nat /\ Pids \subseteq Nat
  BY GuardAssumption, Nothing
<1> DEFINE G(c) == IF g[c].pid # 0 /\ g[c].age < Window
                   THEN [g[c] EXCEPT !.age = @ + 1] ELSE g[c]
<1>2. ASSUME NEW c \in Cheats
      PROVE  /\ G(c) \in Guards /\ G(c).pid = g[c].pid /\ (G(c) = g[c] \/ g[c].age < Window)
             /\ G(c).age < Window => g[c].age < Window
  <2> DEFINE x == g[c].pid
             y == g[c].age
             older == y + 1
  <2>1. x \in Pids /\ y \in 0..Window /\ g[c] \in Guards
    BY DEF Guards
  <2>2. y < Window => older \in 0..Window
    BY <1>1, <2>1
  <2>3. G(c) = IF x # 0 /\ y < Window THEN [g[c] EXCEPT !.age = older] ELSE g[c]
    BY DEF Guards
  <2> HIDE DEF older
  <2>4. y < Window => [g[c] EXCEPT !.age = older] \in Guards /\ [g[c] EXCEPT !.age = older].pid = x
    BY <2>1, <2>2 DEF Guards
  <2> HIDE DEF x, y, G
  <2>5. G(c) \in Guards
    BY <2>1, <2>3, <2>4
  <2>6. G(c).pid = x
    BY <2>3, <2>4 DEF x
  <2>7. G(c) = g[c] \/ y < Window
    BY <2>3
  <2> QED
    BY <2>5, <2>6, <2>7 DEF x, y
<1>3. Older(g) = [c \in Cheats |-> G(c)]
  BY DEF Older
<1> HIDE DEF G
<1> QED
  BY <1>2, <1>3

LEMMA WithoutFacts ==
  ASSUME NEW g \in [Cheats -> Guards], NEW gone
  PROVE  /\ Without(g, gone) \in [Cheats -> Guards]
         /\ \A c \in Cheats : Without(g, gone)[c] = IF c \in gone THEN NoGuard ELSE g[c]
BY Nothing DEF Without

\* Fewer guards than before are not more than there is room for.
LEMMA FewerGuards ==
  ASSUME Cardinality(Guarded) <= GuardMax, NEW S, S \subseteq Guarded
  PROVE  Cardinality(S) <= GuardMax
<1>1. IsFiniteSet(Guarded)
  BY GuardAssumption, FS_Subset DEF Guarded
<1>2. IsFiniteSet(S) /\ Cardinality(S) <= Cardinality(Guarded)
  BY <1>1, FS_Subset
<1>3. Cardinality(S) \in Nat /\ Cardinality(Guarded) \in Nat
  BY <1>1, <1>2, FS_CardinalityType
<1> QED
  BY <1>2, <1>3, GuardAssumption

\* One more than there were, when there is room.
LEMMA OneMoreGuard ==
  ASSUME Cardinality(Guarded) <= GuardMax, NEW c \in Cheats,
         c \in Guarded \/ Cardinality(Guarded) < GuardMax,
         NEW S, S \subseteq Guarded \cup {c}
  PROVE  Cardinality(S) <= GuardMax
<1>1. IsFiniteSet(Guarded) /\ Cardinality(Guarded) \in Nat /\ GuardMax \in Nat
  BY GuardAssumption, FS_Subset, FS_CardinalityType DEF Guarded
<1>2. CASE c \in Guarded
  <2>1. S \subseteq Guarded
    BY <1>2
  <2> QED
    BY <2>1, FewerGuards
<1>3. CASE c \notin Guarded
  <2>1. IsFiniteSet(Guarded \cup {c}) /\ Cardinality(Guarded \cup {c}) = Cardinality(Guarded) + 1
    BY <1>1, <1>3, FS_AddElement
  <2>2. IsFiniteSet(S) /\ Cardinality(S) <= Cardinality(Guarded \cup {c}) /\ Cardinality(S) \in Nat
    BY <2>1, FS_Subset, FS_CardinalityType
  <2> QED
    BY <1>1, <1>3, <2>1, <2>2
<1> QED
  BY <1>2, <1>3

\* What Arm does to the guard of its cheat and to the others.
LEMMA ArmFacts ==
  ASSUME GuardTypes, NEW t \in Threads, Arm(t)
  PROVE  LET c == req[t].cheat
             g == [pid |-> req[t].pid, age |-> 0]
         IN  /\ c \in Cheats /\ g \in Guards
             /\ \A d \in Cheats \ {c} : guards'[d] = guards[d] /\ since'[d] = since[d]
             /\ guards' \in [Cheats -> Guards] /\ since' \in [Cheats -> Guards]
             /\ \/ /\ req[t].on /\ (c \in Guarded \/ Cardinality(Guarded) < GuardMax)
                   /\ guards'[c] = g /\ since'[c] = g
                \/ /\ req[t].on /\ c \notin Guarded
                   /\ guards'[c] = guards[c] /\ since'[c] = NoGuard
                \/ ~req[t].on /\ guards'[c] = NoGuard /\ since'[c] = since[c]
<1> DEFINE c == req[t].cheat
           g == [pid |-> req[t].pid, age |-> 0]
           room == c \in Guarded \/ Cardinality(Guarded) < GuardMax
<1>1. guards \in [Cheats -> Guards] /\ since \in [Cheats -> Guards] /\ req[t] \in Requests
  BY DEF GuardTypes, TableTypes, ThreadTypes
<1>2. c \in Cheats /\ g \in Guards /\ NoGuard \in Guards
  BY <1>1, Nothing, GuardAssumption DEF Requests, Guards
<1>3. CASE req[t].on
  <2>1. /\ guards' = [guards EXCEPT ![c] = IF room THEN g ELSE guards[c]]
        /\ since' = [since EXCEPT ![c] = IF room THEN g ELSE NoGuard]
    BY <1>1, <1>2, <1>3 DEF Arm
  <2> HIDE DEF c, g, room
  <2>2. /\ \A d \in Cheats \ {c} : guards'[d] = guards[d] /\ since'[d] = since[d]
        /\ guards' \in [Cheats -> Guards] /\ since' \in [Cheats -> Guards]
        /\ guards'[c] = IF room THEN g ELSE guards[c]
        /\ since'[c] = IF room THEN g ELSE NoGuard
    BY <1>1, <1>2, <2>1
  <2>3. ~room => c \notin Guarded
    BY DEF room
  <2> QED
    BY <1>2, <1>3, <2>2, <2>3 DEF c, g, room
<1>4. CASE ~req[t].on
  <2>1. guards' = Without(guards, {c}) /\ since' = since
    BY <1>4 DEF Arm
  <2> HIDE DEF c, g
  <2> QED
    BY <1>1, <1>2, <1>4, <2>1, WithoutFacts DEF c, g
<1> QED
  BY <1>3, <1>4

\* The cheat that Unlock writes off in the history.
LEMMA UnlockFacts ==
  ASSUME GuardTypes, NEW t \in Threads, Unlock(t)
  PROVE  /\ since' \in [Cheats -> Guards]
         /\ \A c \in Cheats : since'[c] = IF OffBy(t, c) THEN NoGuard ELSE since[c]
<1>1. since \in [Cheats -> Guards] /\ req[t] \in Requests /\ pc[t] = "unlock"
  BY DEF GuardTypes, TableTypes, ThreadTypes, Unlock, In
<1>2. /\ req[t].on \in BOOLEAN /\ req[t].failed \in BOOLEAN /\ req[t].cheat \in Cheats
      /\ NoGuard \in Guards
  BY <1>1, Nothing DEF Requests
<1>3. CASE req[t].on \/ req[t].failed
  <2>1. since' = since
    BY <1>3 DEF Unlock
  <2> QED
    BY <1>1, <1>3, <2>1 DEF OffBy
<1>4. CASE ~req[t].on /\ ~req[t].failed
  <2>1. since' = [since EXCEPT ![req[t].cheat] = NoGuard]
    BY <1>4 DEF Unlock
  <2> QED
    BY <1>1, <1>2, <1>4, <2>1 DEF OffBy
<1> QED
  BY <1>2, <1>3, <1>4

LEMMA GuardTableStep ==
  ASSUME GuardTypes, [Next]_vars
  PROVE  /\ guards' \in [Cheats -> Guards] /\ since' \in [Cheats -> Guards]
         /\ Cardinality(Guarded') <= GuardMax
<1>1. /\ guards \in [Cheats -> Guards] /\ since \in [Cheats -> Guards]
      /\ Cardinality(Guarded) <= GuardMax /\ NoGuard \in Guards /\ NoGuard.pid = 0
  BY Nothing DEF GuardTypes, TableTypes
<1>2. ASSUME \A c \in Cheats : guards'[c].pid # 0 => guards[c].pid # 0
      PROVE  Cardinality(Guarded') <= GuardMax
  <2>1. Guarded' \subseteq Guarded
    BY <1>2 DEF Guarded
  <2> QED
    BY <1>1, <2>1, FewerGuards
<1>3. CASE UNCHANGED <<guards, since>>
  BY <1>1, <1>2, <1>3
<1>4. CASE Tick
  BY <1>1, <1>2, <1>4, OlderFacts DEF Tick
<1>5. CASE Restart
  <2>1. guards' = [c \in Cheats |-> NoGuard] /\ since' = [c \in Cheats |-> NoGuard]
    BY <1>5 DEF Restart
  <2> QED
    BY <1>1, <1>2, <2>1
<1>6. ASSUME NEW t \in Refreshers, Judge(t)
      PROVE  /\ guards' \in [Cheats -> Guards] /\ since' \in [Cheats -> Guards]
             /\ Cardinality(Guarded') <= GuardMax
  <2> DEFINE p == ref[t].prev.pid
             mine == {c \in Cheats : guards[c].pid = p}
  <2>1. guards' = Without(guards, mine)
    BY <1>6 DEF Judge
  <2>2. since' = [c \in Cheats |-> IF since[c].pid = p THEN NoGuard ELSE since[c]]
    BY <1>6 DEF Judge
  <2> HIDE DEF p, mine
  <2> QED
    BY <1>1, <1>2, <2>1, <2>2, WithoutFacts
<1>7. ASSUME NEW t \in Refreshers, Clear(t)
      PROVE  /\ guards' \in [Cheats -> Guards] /\ since' \in [Cheats -> Guards]
             /\ Cardinality(Guarded') <= GuardMax
  <2> DEFINE survived == {c \in Cheats : guards[c].pid = ref[t].cur.pid /\ guards[c].age >= Window}
  <2>1. guards' = Without(guards, survived) /\ since' = since
    BY <1>7 DEF Clear, history
  <2> HIDE DEF survived
  <2> QED
    BY <1>1, <1>2, <2>1, WithoutFacts
<1>8. ASSUME NEW t \in Threads, Arm(t)
      PROVE  /\ guards' \in [Cheats -> Guards] /\ since' \in [Cheats -> Guards]
             /\ Cardinality(Guarded') <= GuardMax
  <2> DEFINE c == req[t].cheat
             g == [pid |-> req[t].pid, age |-> 0]
  <2>1. /\ c \in Cheats /\ g \in Guards
        /\ \A d \in Cheats \ {c} : guards'[d] = guards[d] /\ since'[d] = since[d]
        /\ guards' \in [Cheats -> Guards] /\ since' \in [Cheats -> Guards]
        /\ \/ c \in Guarded \/ Cardinality(Guarded) < GuardMax
           \/ guards'[c] = guards[c]
           \/ guards'[c] = NoGuard
    BY <1>8, ArmFacts
  <2> HIDE DEF c, g
  <2>2. Guarded' \subseteq Guarded \cup {c}
    BY <2>1 DEF Guarded
  <2>3. CASE guards'[c] \in {guards[c], NoGuard}
    BY <1>1, <1>2, <2>1, <2>3
  <2>4. CASE c \in Guarded \/ Cardinality(Guarded) < GuardMax
    BY <1>1, <2>1, <2>2, <2>4, OneMoreGuard
  <2> QED
    BY <2>1, <2>3, <2>4
<1>9. ASSUME NEW t \in Threads, Unlock(t)
      PROVE  /\ guards' \in [Cheats -> Guards] /\ since' \in [Cheats -> Guards]
             /\ Cardinality(Guarded') <= GuardMax
  <2>1. guards' = guards
    BY <1>9 DEF Unlock, tables
  <2>2. since' \in [Cheats -> Guards]
    BY <1>9, UnlockFacts
  <2> QED
    BY <1>1, <1>2, <2>1, <2>2
<1>10. ASSUME NEW t \in Refreshers, Refresh(t)
       PROVE  Judge(t) \/ Clear(t) \/ UNCHANGED <<guards, since>>
  BY <1>10 DEF Refresh, ReadPrev, ReadCur, Set, StartAutoload, Snapshot, WriteFile, tables, history
<1>11. ASSUME NEW t \in Threads, Work(t)
       PROVE  Arm(t) \/ Unlock(t) \/ UNCHANGED <<guards, since>>
  BY <1>11 DEF Work, Check, Autoload, Begin, TakeLock, Write, GameGone, tables, history
<1>12. ASSUME NEW t \in Users, (\E c \in Cheats : RequestToggle(t, c)) \/ (\E title \in Titles : ClearFlags(t, title))
       PROVE  UNCHANGED <<guards, since>>
  BY <1>12 DEF RequestToggle, ClearFlags, tables, history
<1>13. CASE StartGame \/ EndGame \/ UNCHANGED vars
  BY <1>3, <1>13 DEF StartGame, EndGame, vars, tables, history
<1> QED
  BY <1>3, <1>4, <1>5, <1>6, <1>7, <1>8, <1>9, <1>10, <1>11, <1>12, <1>13 DEF Next

\* The cheats that a refresh may mark, and what it does when it marks m of them.
Due(t) == {c \in Cheats : guards[c].pid = ref[t].prev.pid /\ guards[c].age < Window}
Marks(t, m) ==
  /\ m \subseteq Due(t)
  /\ m = Due(t) \/ SumFunction(suspects') = SuspectMax
  /\ suspects' \in Bags /\ SumFunction(suspects') <= SuspectMax
  /\ \A c \in Cheats : suspects'[c] = IF c \in m THEN suspects[c] + 1 ELSE suspects[c]
  /\ IF m = {} THEN Goto(t, "start") ELSE Save(t, "start")

LEMMA JudgeMarks ==
  ASSUME GuardTypes, NEW t \in Refreshers, Judge(t)
  PROVE  \E m \in SUBSET Cheats : Marks(t, m)
<1> DEFINE room == SuspectMax - SumFunction(suspects)
<1>1. suspects \in Bags /\ SumFunction(suspects) <= SuspectMax /\ suspects \in [Cheats -> Nat]
  BY Nothing DEF GuardTypes, TableTypes
<1>2. /\ SumFunction(suspects) \in Nat /\ SuspectMax \in Nat
      /\ room \in Nat
  <2>1. SumFunction(suspects) \in Nat
    BY <1>1, SumFacts
  <2> QED
    BY <1>1, <2>1, GuardAssumption
<1>3. PICK m \in SUBSET Due(t) :
        /\ IF Cardinality(Due(t)) <= room THEN m = Due(t) ELSE Cardinality(m) = room
        /\ suspects' = [c \in Cheats |-> IF c \in m THEN suspects[c] + 1 ELSE suspects[c]]
        /\ IF m = {} THEN Goto(t, "start") ELSE Save(t, "start")
  <2>1. {c \in {d \in Cheats : guards[d].pid = ref[t].prev.pid} : guards[c].age < Window} = Due(t)
    BY DEF Due
  <2> QED
    BY <2>1, Zenon DEF Judge
<1>4. m \in SUBSET Cheats /\ Cardinality(m) <= room /\ (m = Due(t) \/ Cardinality(m) = room)
  <2>1. Due(t) \subseteq Cheats
    BY DEF Due
  <2> QED
    BY <1>2, <1>3, <2>1
<1>5. /\ suspects' \in [Cheats -> Nat]
      /\ \A c \in Cheats : suspects'[c] = IF c \in m THEN suspects[c] + 1 ELSE suspects[c]
  BY <1>1, <1>3
<1>6. /\ SumFunction(suspects') = SumFunction(suspects) + Cardinality(m)
      /\ \A c \in Cheats : suspects'[c] <= SumFunction(suspects')
      /\ SumFunction(suspects') \in Nat
  BY <1>1, <1>4, <1>5, SumFacts
<1>7. Cardinality(m) \in Nat
  BY <1>4, GuardAssumption, FS_Subset, FS_CardinalityType
<1>8. /\ SumFunction(suspects') <= SuspectMax
      /\ Cardinality(m) = room => SumFunction(suspects') = SuspectMax
  BY <1>2, <1>4, <1>6, <1>7
<1>9. suspects' \in Bags
  <2>1. \A c \in Cheats : suspects'[c] \in 0..SuspectMax
    BY <1>2, <1>5, <1>6, <1>8
  <2> QED
    BY <1>5, <2>1 DEF Bags
<1>10. Marks(t, m)
  BY <1>3, <1>4, <1>5, <1>8, <1>9 DEF Marks
<1> QED
  BY <1>4, <1>10

\* Fewer records of some cheats, and no more of any.
LEMMA FewerSuspects ==
  ASSUME NEW f \in Bags, SumFunction(f) <= SuspectMax,
         NEW h \in Bags, \A c \in Cheats : h[c] <= f[c]
  PROVE  SumFunction(h) <= SuspectMax
<1>1. f \in [Cheats -> Nat] /\ h \in [Cheats -> Nat] /\ {} \in SUBSET Cheats
  BY Nothing
<1>2. SumFunction(h) <= SumFunction(f) /\ SumFunction(h) \in Nat /\ SumFunction(f) \in Nat
  BY <1>1, SumFacts
<1> QED
  BY <1>2, GuardAssumption

\* The records of a set of cheats are taken out.
LEMMA CutSuspects ==
  ASSUME GuardTypes, NEW S,
         suspects' = [c \in Cheats |-> IF c \in S THEN 0 ELSE suspects[c]]
  PROVE  /\ suspects' \in Bags /\ SumFunction(suspects') <= SuspectMax
         /\ \A c \in Cheats : suspects'[c] = IF c \in S THEN 0 ELSE suspects[c]
<1>1. suspects \in Bags /\ SumFunction(suspects) <= SuspectMax /\ SuspectMax \in Nat
  BY GuardAssumption DEF GuardTypes, TableTypes
<1>2. \A c \in Cheats : suspects[c] \in 0..SuspectMax
  BY <1>1 DEF Bags
<1>3. suspects' \in Bags
  BY <1>1, <1>2 DEF Bags
<1>4. \A c \in Cheats : suspects'[c] <= suspects[c]
  BY <1>1, <1>2
<1> QED
  BY <1>1, <1>3, <1>4, FewerSuspects

LEMMA SuspectTableStep ==
  ASSUME GuardTypes, [Next]_vars
  PROVE  /\ suspects' \in Bags /\ SumFunction(suspects') <= SuspectMax
         /\ file' \in Bags /\ SumFunction(file') <= SuspectMax
<1>1. /\ suspects \in Bags /\ SumFunction(suspects) <= SuspectMax
      /\ file \in Bags /\ SumFunction(file) <= SuspectMax
  BY DEF GuardTypes, TableTypes
<1>2. CASE UNCHANGED <<suspects, file>>
  BY <1>1, <1>2
<1>3. CASE Restart
  <2>1. suspects' \in Bags /\ (\A c \in Cheats : suspects'[c] <= file[c]) /\ file' = file
    BY <1>3 DEF Restart
  <2> QED
    BY <1>1, <2>1, FewerSuspects
<1>4. ASSUME NEW t \in Refreshers, Judge(t)
      PROVE  suspects' \in Bags /\ SumFunction(suspects') <= SuspectMax /\ file' = file
  BY <1>4, JudgeMarks DEF Marks, Judge
<1>5. ASSUME NEW t \in Refreshers, Clear(t)
      PROVE  suspects' \in Bags /\ SumFunction(suspects') <= SuspectMax /\ file' = file
  <2> DEFINE survived == {c \in Cheats : guards[c].pid = ref[t].cur.pid /\ guards[c].age >= Window}
  <2>1. suspects' = [c \in Cheats |-> IF c \in survived THEN 0 ELSE suspects[c]] /\ file' = file
    BY <1>5 DEF Clear
  <2> HIDE DEF survived
  <2> QED
    BY <2>1, CutSuspects
<1>6. ASSUME NEW t \in Users, NEW title \in Titles, ClearFlags(t, title)
      PROVE  suspects' \in Bags /\ SumFunction(suspects') <= SuspectMax /\ file' = file
  <2> DEFINE flagged == {c \in Cheats : TitleOf[c] = title}
  <2>1. suspects' = [c \in Cheats |-> IF c \in flagged THEN 0 ELSE suspects[c]] /\ file' = file
    BY <1>6 DEF ClearFlags
  <2> HIDE DEF flagged
  <2> QED
    BY <2>1, CutSuspects
<1>7. ASSUME NEW t \in Refreshers, WriteFile(t)
      PROVE  file' \in Bags /\ SumFunction(file') <= SuspectMax /\ suspects' = suspects
  <2>1. file' = ref[t].snap /\ suspects' = suspects
    BY <1>7 DEF WriteFile, tables
  <2>2. ref[t].snap \in Bags /\ SumFunction(ref[t].snap) <= SuspectMax
    BY DEF GuardTypes, ThreadTypes, Refreshes, Pending
  <2> QED
    BY <2>1, <2>2
<1>8. ASSUME NEW t \in Refreshers, Refresh(t)
      PROVE  Judge(t) \/ Clear(t) \/ WriteFile(t) \/ UNCHANGED <<suspects, file>>
  BY <1>8 DEF Refresh, ReadPrev, ReadCur, Set, StartAutoload, Snapshot, tables
<1>9. ASSUME NEW t \in Threads, Work(t) PROVE UNCHANGED <<suspects, file>>
  BY <1>9 DEF Work, Check, Autoload, Begin, TakeLock, Write, GameGone, Arm, Unlock, tables
<1>10. CASE \E t \in Users, c \in Cheats : RequestToggle(t, c)
  BY <1>2, <1>10 DEF RequestToggle, tables
<1>11. CASE StartGame \/ EndGame \/ Tick \/ UNCHANGED vars
  BY <1>2, <1>11 DEF StartGame, EndGame, Tick, vars, tables
<1> QED
  BY <1>1, <1>2, <1>3, <1>4, <1>5, <1>6, <1>7, <1>8, <1>9, <1>10, <1>11 DEF Next

LEMMA GameStep ==
  ASSUME GuardTypes, [Next]_vars
  PROVE  GameTypes'
<1>1. /\ game \in Games /\ started \in Pids /\ lit \subseteq Cheats /\ running \in Games
      /\ \A t \in Refreshers : ref[t].cur \in Games
      /\ \A t \in Threads : req[t].cheat \in Cheats
  BY DEF GuardTypes, GameTypes, ThreadTypes, Refreshes, Requests
<1>2. CASE UNCHANGED <<world, running>>
  BY <1>1, <1>2 DEF world, GameTypes
<1>3. CASE StartGame
  <2>1. started + 1 \in Pids /\ started + 1 \in 1..MaxPid
    BY <1>1, <1>3, GuardAssumption DEF StartGame, Pids
  <2>2. PICK title \in Titles : game' = [pid |-> started + 1, title |-> title]
    BY <1>3 DEF StartGame
  <2> DEFINE n == started + 1
  <2> HIDE DEF n
  <2>3. n \in 1..MaxPid /\ game' = [pid |-> n, title |-> title]
    BY <2>1, <2>2 DEF n
  <2>4. game' \in Games
    BY <2>3 DEF Games
  <2> QED
    BY <1>1, <1>3, <2>1, <2>4 DEF StartGame, GameTypes
<1>4. CASE EndGame
  BY <1>1, <1>4, Nothing DEF EndGame, GameTypes
<1>5. CASE Restart
  BY <1>1, <1>5, Nothing DEF Restart, world, GameTypes
<1>6. ASSUME NEW t \in Refreshers, Set(t) PROVE GameTypes'
  BY <1>1, <1>6 DEF Set, world, GameTypes
<1>7. ASSUME NEW t \in Threads, Write(t) PROVE GameTypes'
  <2>1. game' = game /\ started' = started /\ running' = running
    BY <1>7 DEF Write
  <2>2. lit' \in {lit \cup {req[t].cheat}, lit \ {req[t].cheat}, lit}
    BY <1>7 DEF Write
  <2> QED
    BY <1>1, <2>1, <2>2 DEF GameTypes
<1>8. ASSUME NEW t \in Refreshers, Refresh(t) PROVE Set(t) \/ UNCHANGED <<world, running>>
  BY <1>8 DEF Refresh, ReadPrev, ReadCur, Judge, StartAutoload, Clear, Snapshot, WriteFile
<1>9. ASSUME NEW t \in Threads, Work(t) PROVE Write(t) \/ UNCHANGED <<world, running>>
  BY <1>9 DEF Work, Check, Autoload, Begin, TakeLock, GameGone, Arm, Unlock
<1>10. CASE \E t \in Users : \/ \E c \in Cheats : RequestToggle(t, c)
                             \/ \E title \in Titles : ClearFlags(t, title)
  BY <1>2, <1>10 DEF RequestToggle, ClearFlags
<1>11. CASE Tick \/ UNCHANGED vars
  BY <1>2, <1>11 DEF Tick, vars
<1> QED
  BY <1>2, <1>3, <1>4, <1>5, <1>6, <1>7, <1>8, <1>9, <1>10, <1>11 DEF Next

----------------------------------------------------------------------------
(* The requests that failed, and those that switched off.                  *)

LEMMA WorkOff ==
  ASSUME GuardTypes, Failing, NEW t \in Threads, Work(t)
  PROVE  /\ req'[t].failed => pc'[t] = "unlock"
         /\ \/ Arm(t) \/ Unlock(t)
            \/ pc[t] # "unlock" /\ (pc'[t] = "unlock" => req'[t].failed)
<1>1. /\ pc \in [Threads -> Locations] /\ req \in [Threads -> Requests] /\ req[t] \in Requests
      /\ req[t].failed => pc[t] = "unlock"
      /\ req[t].cheat \in Cheats /\ game.pid \in Pids /\ 0 \in Pids
      /\ {"idle", "check", "auto", "begin", "lock", "write", "arm", "unlock"} \subseteq Locations
  BY Nothing DEF GuardTypes, ThreadTypes, GameTypes, Requests, Failing, Locations, Locked
<1>2. ASSUME NEW loc \in Locations, Go(t, loc) PROVE pc'[t] = loc
  BY <1>2, GoFacts
<1>3. ASSUME NEW retry \in BOOLEAN, Finish(t, retry), pc[t] \notin {"idle", "auto"}
      PROVE  pc'[t] \in {"idle", "auto"} /\ ~req'[t].failed
  BY <1>3, FinishTyped
<1>4. CASE Check(t)
  <2>1. pc[t] = "check"
    BY <1>4 DEF Check, In
  <2>2. \/ Go(t, "idle") /\ req' = [req EXCEPT ![t] = NoRequest]
        \/ Go(t, "begin") /\ UNCHANGED req
    BY <1>4 DEF Check
  <2> QED
    BY <1>1, <1>2, <2>1, <2>2, NoRequestTyped
<1>5. CASE Autoload(t)
  <2> DEFINE r == [req[t] EXCEPT !.cheat = Head(req[t].todo), !.on = TRUE]
  <2>1. pc[t] = "auto"
    BY <1>5 DEF Autoload, In
  <2>2. r.failed = req[t].failed
    BY <1>1 DEF Requests
  <2>3. \/ Go(t, "begin") /\ req'[t] = r
        \/ Go(t, "idle") /\ req' = [req EXCEPT ![t] = NoRequest]
    <3>1. req' = [req EXCEPT ![t].cheat = Head(req[t].todo), ![t].on = TRUE] => req'[t] = r
      BY <1>1
    <3> HIDE DEF r
    <3> QED
      BY <1>5, <3>1 DEF Autoload
  <2> HIDE DEF r
  <2> QED
    BY <1>1, <1>2, <2>1, <2>2, <2>3, NoRequestTyped
<1>6. CASE Begin(t)
  <2> DEFINE r == [req[t] EXCEPT !.pid = game.pid]
  <2>1. pc[t] = "begin"
    BY <1>6 DEF Begin, In
  <2>2. r.failed = req[t].failed
    BY <1>1, RequestFields
  <2>3. \/ Go(t, "lock") /\ req'[t] = r
        \/ \E retry \in BOOLEAN : Finish(t, retry)
    BY <1>1, <1>6 DEF Begin
  <2> HIDE DEF r
  <2> QED
    BY <1>1, <1>2, <1>3, <2>1, <2>2, <2>3
<1>7. CASE TakeLock(t)
  <2>1. pc[t] = "lock"
    BY <1>7 DEF TakeLock, In
  <2>2. (Go(t, "write") /\ UNCHANGED req) \/ Finish(t, TRUE)
    BY <1>7 DEF TakeLock
  <2> QED
    BY <1>1, <1>2, <1>3, <2>1, <2>2
<1>8. ASSUME pc[t] = "write", Go(t, "unlock"), req' = [req EXCEPT ![t].failed = TRUE, ![t].pid = 0]
      PROVE  req'[t].failed /\ pc'[t] = "unlock"
  <2>1. req'[t] = [req[t] EXCEPT !.failed = TRUE, !.pid = 0]
    BY <1>1, <1>8
  <2>2. req'[t].failed = TRUE
    BY <1>1, <2>1 DEF Requests
  <2> QED
    BY <1>1, <1>2, <1>8, <2>2
<1>9. CASE Write(t)
  <2>1. pc[t] = "write"
    BY <1>9 DEF Write, In
  <2>2. CASE Go(t, "arm") /\ UNCHANGED req
    BY <1>1, <1>2, <2>1, <2>2
  <2> QED
    BY <1>8, <1>9, <2>1, <2>2 DEF Write
<1>10. CASE GameGone(t)
  <2>1. pc[t] = "write"
    BY <1>10 DEF GameGone, In
  <2>2. CASE Finish(t, FALSE)
    BY <1>3, <2>1, <2>2
  <2> QED
    BY <1>8, <1>10, <2>1, <2>2 DEF GameGone
<1>11. CASE Arm(t)
  <2>1. Go(t, "unlock")
    BY <1>11 DEF Arm
  <2> QED
    BY <1>1, <1>2, <1>11, <2>1
<1>12. CASE Unlock(t)
  <2>1. pc[t] = "unlock" /\ Finish(t, FALSE)
    BY <1>12 DEF Unlock, In
  <2> QED
    BY <1>3, <1>12, <2>1
<1> QED
  BY <1>4, <1>5, <1>6, <1>7, <1>9, <1>10, <1>11, <1>12 DEF Work

\* The request after Arm, and after Unlock.
LEMMA ArmRequest ==
  ASSUME GuardTypes, NEW t \in Threads, Arm(t)
  PROVE  /\ pc[t] = "arm" /\ pc'[t] = "unlock"
         /\ req'[t].cheat = req[t].cheat /\ req'[t].on = req[t].on /\ req'[t].failed = req[t].failed
<1>1. req \in [Threads -> Requests] /\ req[t] \in Requests /\ 0 \in Pids /\ "unlock" \in Locations
  BY Nothing DEF GuardTypes, ThreadTypes, Locations, Locked
<1>2. req' = [req EXCEPT ![t].pid = 0] /\ Go(t, "unlock") /\ pc[t] = "arm"
  BY DEF Arm, In
<1>3. req'[t] = [req[t] EXCEPT !.pid = 0]
  BY <1>1, <1>2
<1>4. /\ req'[t].cheat = req[t].cheat /\ req'[t].on = req[t].on
      /\ req'[t].failed = req[t].failed
  BY <1>1, <1>3 DEF Requests
<1> QED
  BY <1>1, <1>2, <1>4, GoFacts

\* Who fails, and who has switched off, changes only at Arm, Unlock and Restart.
LEMMA OffStep ==
  ASSUME GuardTypes, Failing, [Next]_vars
  PROVE  /\ Failing'
         /\ \/ \E t \in Threads : Arm(t)
            \/ \E t \in Threads : Unlock(t)
            \/ Restart
            \/ \A t \in Threads, c \in Cheats : OffBy(t, c)' <=> OffBy(t, c)
<1>1. /\ Threads \subseteq Refreshers /\ Users \subseteq Threads /\ Autoloaders \subseteq Threads
      /\ req \in [Threads -> Requests]
  BY Nothing DEF GuardTypes, ThreadTypes
<1>2. CASE UNCHANGED <<pc, req>>
  BY <1>2 DEF Failing, OffBy
<1>3. CASE Restart
  BY <1>3, NoRequestTyped DEF Restart, Failing
<1>4. ASSUME NEW t \in Threads, RequestStep(t), req'[t].failed => pc'[t] = "unlock"
      PROVE  Failing'
  BY <1>4, RequestStepTyped DEF Failing
<1>5. ASSUME NEW t \in Threads, RequestStep(t), pc[t] # "unlock",
             pc'[t] = "unlock" => req'[t].failed
      PROVE  \A u \in Threads, c \in Cheats : OffBy(u, c)' <=> OffBy(u, c)
  <2>1. \A u \in Threads \ {t} : pc'[u] = pc[u] /\ req'[u] = req[u]
    BY <1>5, RequestStepTyped
  <2> QED
    BY <1>5, <2>1 DEF OffBy
<1>6. ASSUME NEW t \in Threads, Work(t)
      PROVE  /\ Failing'
             /\ Arm(t) \/ Unlock(t) \/ \A u \in Threads, c \in Cheats : OffBy(u, c)' <=> OffBy(u, c)
  <2>1. RequestStep(t)
    BY <1>6, WorkTyped
  <2>2. /\ req'[t].failed => pc'[t] = "unlock"
        /\ \/ Arm(t) \/ Unlock(t)
           \/ pc[t] # "unlock" /\ (pc'[t] = "unlock" => req'[t].failed)
    BY <1>6, WorkOff
  <2> QED
    BY <1>4, <1>5, <2>1, <2>2
<1>7. ASSUME NEW t \in Threads, RequestStep(t), ~req[t].failed, ~req'[t].failed,
             pc[t] # "unlock", pc'[t] # "unlock"
      PROVE  Failing' /\ \A u \in Threads, c \in Cheats : OffBy(u, c)' <=> OffBy(u, c)
  BY <1>4, <1>5, <1>7
<1>8. ASSUME NEW t \in Refreshers, Refresh(t)
      PROVE  Failing' /\ \A u \in Threads, c \in Cheats : OffBy(u, c)' <=> OffBy(u, c)
  <2>1. CASE UNCHANGED <<pc, req>>
    BY <1>2, <2>1 DEF Failing, OffBy
  <2>2. ASSUME NEW a \in Autoloaders, RequestStep(a), pc[a] = "idle", pc'[a] = "auto"
        PROVE  Failing' /\ \A u \in Threads, c \in Cheats : OffBy(u, c)' <=> OffBy(u, c)
    <3>1. ~UNCHANGED <<pc, req>>
      BY <2>2
    <3>2. PICK b \in Autoloaders : req' = [req EXCEPT ![b] = [NoRequest EXCEPT !.game = ref[t].cur.pid,
                                                             !.todo = Profile[ref[t].cur.title]]]
                                   /\ pc' = [pc EXCEPT ![b] = "auto"]
      BY <1>8, <3>1 DEF Refresh, ReadPrev, ReadCur, Set, Judge, StartAutoload, Clear, Snapshot, WriteFile
    <3>3. a = b
      <4>1. pc \in [Threads -> Locations]
        BY DEF GuardTypes, ThreadTypes
      <4> QED
        BY <1>1, <2>2, <3>2, <4>1
    <3>4. req'[a] = [NoRequest EXCEPT !.game = ref[t].cur.pid, !.todo = Profile[ref[t].cur.title]]
      BY <1>1, <3>2, <3>3
    <3>5. ~req'[a].failed
      BY <3>4, NoRequestTyped DEF Requests
    <3>6. ~req[a].failed
      BY <1>1, <2>2 DEF Failing
    <3> QED
      BY <1>1, <1>7, <2>2, <3>5, <3>6
  <2> QED
    BY <1>8, <2>1, <2>2, RefreshRequests
<1>9. ASSUME NEW t \in Users, NEW c \in Cheats, RequestToggle(t, c)
      PROVE  Failing' /\ \A u \in Threads, d \in Cheats : OffBy(u, d)' <=> OffBy(u, d)
  <2>1. RequestStep(t) /\ pc'[t] \in {"check", "begin"} /\ pc[t] = "idle" /\ t \in Threads
    BY <1>1, <1>9, AskTyped DEF RequestToggle, In
  <2>2. PICK on \in BOOLEAN : req' = [req EXCEPT ![t] = [NoRequest EXCEPT !.cheat = c, !.on = on]]
    BY <1>9 DEF RequestToggle
  <2>3. req'[t] = [NoRequest EXCEPT !.cheat = c, !.on = on]
    BY <1>1, <2>2
  <2>4. ~req'[t].failed
    BY <2>3, NoRequestTyped DEF Requests
  <2>5. ~req[t].failed
    BY <1>1, <2>1 DEF Failing
  <2> QED
    BY <1>7, <2>1, <2>4, <2>5
<1>10. ASSUME NEW t \in Users, NEW title \in Titles, ClearFlags(t, title)
       PROVE  UNCHANGED <<pc, req>>
  BY <1>10 DEF ClearFlags
<1>11. CASE StartGame \/ EndGame \/ Tick \/ UNCHANGED vars
  BY <1>2, <1>11 DEF StartGame, EndGame, Tick, vars
<1> QED
  BY <1>2, <1>3, <1>6, <1>8, <1>9, <1>10, <1>11 DEF Next

----------------------------------------------------------------------------
(* The guards and the history.                                             *)

\* The unlock is the lock holder's.
LEMMA OneOff ==
  ASSUME Holder, NEW t \in Threads, pc[t] \in {"arm", "unlock"}
  PROVE  \A u \in Threads, c \in Cheats : OffBy(u, c) => u = t /\ pc[t] = "unlock"
BY DEF Holder, OffBy, Locked

LEMMA DatedStep ==
  ASSUME GuardTypes, Refreshing, Failing, Dated, [Next]_vars
  PROVE  Dated'
<1>1. /\ guards \in [Cheats -> Guards] /\ since \in [Cheats -> Guards] /\ Holder
      /\ pc \in [Threads -> Locations] /\ Window \in Nat
      /\ NoGuard.pid = 0 /\ Threads \subseteq Refreshers
      /\ \A c \in Cheats : guards[c].age \in 0..Window
  BY Nothing, GuardAssumption DEF GuardTypes, TableTypes, ThreadTypes, Guards
<1>2. /\ Failing' /\ Holder'
      /\ \/ \E t \in Threads : Arm(t)
         \/ \E t \in Threads : Unlock(t)
         \/ Restart
         \/ \A t \in Threads, c \in Cheats : OffBy(t, c)' <=> OffBy(t, c)
  BY OffStep, ThreadStep
<1>3. ASSUME UNCHANGED <<guards, since>>,
             \A t \in Threads, c \in Cheats : OffBy(t, c)' <=> OffBy(t, c)
      PROVE  Dated'
  <2> SUFFICES ASSUME NEW c \in Cheats
               PROVE  /\ guards'[c].pid # 0 => since'[c] = guards'[c]
                      /\ since'[c].pid # 0 /\ since'[c].age < Window /\ (\A t \in Threads : ~OffBy(t, c)')
                           => guards'[c] = since'[c]
                      /\ \A t \in Threads : OffBy(t, c)' => guards'[c].pid = 0
    BY DEF Dated
  <2> QED
    BY <1>3 DEF Dated
<1>4. CASE Restart
  <2>1. /\ guards' = [c \in Cheats |-> NoGuard] /\ since' = [c \in Cheats |-> NoGuard]
    BY <1>4 DEF Restart
  <2> SUFFICES ASSUME NEW c \in Cheats
               PROVE  guards'[c].pid = 0 /\ since'[c].pid = 0
    BY DEF Dated
  <2> QED
    BY <1>1, <2>1
<1>5. CASE Tick
  <2>1. guards' = Older(guards) /\ since' = Older(since) /\ UNCHANGED <<pc, req>>
    BY <1>5 DEF Tick
  <2>2. \A t \in Threads, c \in Cheats : OffBy(t, c)' <=> OffBy(t, c)
    BY <2>1 DEF OffBy
  <2> SUFFICES ASSUME NEW c \in Cheats
               PROVE  /\ guards'[c].pid # 0 => since'[c] = guards'[c]
                      /\ since'[c].pid # 0 /\ since'[c].age < Window /\ (\A t \in Threads : ~OffBy(t, c)')
                           => guards'[c] = since'[c]
                      /\ \A t \in Threads : OffBy(t, c)' => guards'[c].pid = 0
    BY DEF Dated
  <2>3. /\ guards'[c].pid = guards[c].pid /\ since'[c].pid = since[c].pid
        /\ since'[c].age < Window => since[c].age < Window
    BY <1>1, <2>1, OlderFacts
  <2>4. guards[c] = since[c] => guards'[c] = since'[c]
    BY <2>1 DEF Older
  <2> QED
    BY <2>2, <2>3, <2>4 DEF Dated
<1>6. ASSUME NEW t \in Refreshers, Judge(t),
             \A u \in Threads, c \in Cheats : OffBy(u, c)' <=> OffBy(u, c)
      PROVE  Dated'
  <2> DEFINE p == ref[t].prev.pid
             mine == {c \in Cheats : guards[c].pid = p}
  <2>1. guards' = Without(guards, mine)
    BY <1>6 DEF Judge
  <2>2. since' = [c \in Cheats |-> IF since[c].pid = p THEN NoGuard ELSE since[c]]
    BY <1>6 DEF Judge
  <2>3. \A c \in Cheats : guards'[c] = IF guards[c].pid = p THEN NoGuard ELSE guards[c]
    BY <1>1, <2>1, WithoutFacts
  <2> HIDE DEF p, mine
  <2> SUFFICES ASSUME NEW c \in Cheats
               PROVE  /\ guards'[c].pid # 0 => since'[c] = guards'[c]
                      /\ since'[c].pid # 0 /\ since'[c].age < Window /\ (\A u \in Threads : ~OffBy(u, c)')
                           => guards'[c] = since'[c]
                      /\ \A u \in Threads : OffBy(u, c)' => guards'[c].pid = 0
    BY DEF Dated
  <2> QED
    BY <1>1, <1>6, <2>2, <2>3 DEF Dated
<1>7. ASSUME NEW t \in Refreshers, Clear(t),
             \A u \in Threads, c \in Cheats : OffBy(u, c)' <=> OffBy(u, c)
      PROVE  Dated'
  <2> DEFINE p == ref[t].cur.pid
             survived == {c \in Cheats : guards[c].pid = p /\ guards[c].age >= Window}
  <2>1. guards' = Without(guards, survived) /\ since' = since
    BY <1>7 DEF Clear, history
  <2>2. \A c \in Cheats : /\ guards'[c] = IF c \in survived THEN NoGuard ELSE guards[c]
                          /\ c \in survived => ~(guards[c].age < Window)
    BY <1>1, <2>1, WithoutFacts
  <2> HIDE DEF survived
  <2> SUFFICES ASSUME NEW c \in Cheats
               PROVE  /\ guards'[c].pid # 0 => since'[c] = guards'[c]
                      /\ since'[c].pid # 0 /\ since'[c].age < Window /\ (\A u \in Threads : ~OffBy(u, c)')
                           => guards'[c] = since'[c]
                      /\ \A u \in Threads : OffBy(u, c)' => guards'[c].pid = 0
    BY DEF Dated
  <2> QED
    BY <1>1, <1>7, <2>1, <2>2 DEF Dated
<1>8. ASSUME NEW t \in Threads, Arm(t)
      PROVE  Dated'
  <2> DEFINE g == [pid |-> req[t].pid, age |-> 0]
  <2>0. PICK c \in Cheats : c = req[t].cheat
    BY <1>8, ArmFacts
  <2>1. /\ c \in Cheats /\ g \in Guards
        /\ \A d \in Cheats \ {c} : guards'[d] = guards[d] /\ since'[d] = since[d]
        /\ \/ req[t].on /\ guards'[c] = g /\ since'[c] = g
           \/ req[t].on /\ c \notin Guarded /\ guards'[c] = guards[c] /\ since'[c] = NoGuard
           \/ ~req[t].on /\ guards'[c] = NoGuard /\ since'[c] = since[c]
    BY <1>8, <2>0, ArmFacts
  <2>2. /\ pc[t] = "arm" /\ pc'[t] = "unlock"
        /\ req'[t].cheat = c /\ req'[t].on = req[t].on /\ req'[t].failed = req[t].failed
    BY <1>8, <2>0, ArmRequest
  <2>3. ~req[t].failed
    BY <2>2 DEF Failing
  <2>4. \A u \in Threads, d \in Cheats : ~OffBy(u, d)
    BY <1>1, <2>2, OneOff
  <2>5. \A u \in Threads, d \in Cheats : OffBy(u, d)' => u = t /\ d = c /\ ~req[t].on
    BY <1>2, <2>2 DEF Holder, OffBy, Locked
  <2>6. ~req[t].on => OffBy(t, c)'
    BY <2>2, <2>3 DEF OffBy
  <2>7. c \notin Guarded => guards[c].pid = 0
    BY <2>1 DEF Guarded
  <2> HIDE DEF g
  <2> SUFFICES ASSUME NEW d \in Cheats
               PROVE  /\ guards'[d].pid # 0 => since'[d] = guards'[d]
                      /\ since'[d].pid # 0 /\ since'[d].age < Window /\ (\A u \in Threads : ~OffBy(u, d)')
                           => guards'[d] = since'[d]
                      /\ \A u \in Threads : OffBy(u, d)' => guards'[d].pid = 0
    BY DEF Dated
  <2>8. CASE d = c
    <3>1. CASE req[t].on
      <4>1. (guards'[c] = g /\ since'[c] = g) \/ (guards'[c].pid = 0 /\ since'[c] = NoGuard)
        BY <2>1, <2>7, <3>1
      <4>2. \A u \in Threads : ~OffBy(u, c)'
        BY <2>1, <2>5, <3>1
      <4> HIDE DEF NoGuard
      <4> QED
        BY <1>1, <2>8, <4>1, <4>2
    <3>2. CASE ~req[t].on
      <4>1. guards'[c].pid = 0
        BY <1>1, <2>1, <3>2
      <4> QED
        BY <2>6, <2>8, <3>2, <4>1
    <3> QED
      BY <3>1, <3>2
  <2>9. CASE d # c
    <3>1. guards'[d] = guards[d] /\ since'[d] = since[d]
      BY <2>1, <2>9
    <3> QED
      BY <2>4, <2>5, <2>9, <3>1 DEF Dated
  <2> QED
    BY <2>8, <2>9
<1>9. ASSUME NEW t \in Threads, Unlock(t)
      PROVE  Dated'
  <2>1. guards' = guards /\ pc[t] = "unlock" /\ Finish(t, FALSE)
    BY <1>9 DEF Unlock, In, tables
  <2>2. \A c \in Cheats : since'[c] = IF OffBy(t, c) THEN NoGuard ELSE since[c]
    BY <1>9, UnlockFacts
  <2>3. \A u \in Threads, c \in Cheats : OffBy(u, c) => u = t
    BY <1>1, <2>1, OneOff
  <2>4. \A u \in Threads, c \in Cheats : ~OffBy(u, c)'
    <3>1. pc' = [pc EXCEPT ![t] = pc'[t]] /\ pc'[t] \in {"idle", "auto"}
      BY <2>1, FinishTyped
    <3>2. \A u \in Threads \ {t} : pc[u] # "unlock"
      BY <1>1, <2>1 DEF Holder, Locked
    <3> QED
      BY <1>1, <3>1, <3>2 DEF OffBy
  <2> SUFFICES ASSUME NEW c \in Cheats
               PROVE  /\ guards'[c].pid # 0 => since'[c] = guards'[c]
                      /\ since'[c].pid # 0 /\ since'[c].age < Window /\ (\A u \in Threads : ~OffBy(u, c)')
                           => guards'[c] = since'[c]
                      /\ \A u \in Threads : OffBy(u, c)' => guards'[c].pid = 0
    BY DEF Dated
  <2> QED
    BY <1>1, <2>1, <2>2, <2>3, <2>4 DEF Dated
<1>10. CASE \A t \in Threads, c \in Cheats : OffBy(t, c)' <=> OffBy(t, c)
  <2>1. ASSUME NEW t \in Refreshers, Refresh(t)
        PROVE  Judge(t) \/ Clear(t) \/ UNCHANGED <<guards, since>>
    BY <2>1 DEF Refresh, ReadPrev, ReadCur, Set, StartAutoload, Snapshot, WriteFile, tables, history
  <2>2. ASSUME NEW t \in Threads, Work(t)
        PROVE  Arm(t) \/ Unlock(t) \/ UNCHANGED <<guards, since>>
    BY <2>2 DEF Work, Check, Autoload, Begin, TakeLock, Write, GameGone, tables, history
  <2>3. ASSUME NEW t \in Users, (\E c \in Cheats : RequestToggle(t, c)) \/ (\E title \in Titles : ClearFlags(t, title))
        PROVE  UNCHANGED <<guards, since>>
    BY <2>3 DEF RequestToggle, ClearFlags, tables, history
  <2>4. StartGame \/ EndGame \/ UNCHANGED vars => UNCHANGED <<guards, since>>
    BY DEF StartGame, EndGame, vars, tables, history
  <2> QED
    BY <1>3, <1>4, <1>5, <1>6, <1>7, <1>8, <1>9, <1>10, <2>1, <2>2, <2>3, <2>4 DEF Next
<1> QED
  BY <1>2, <1>4, <1>8, <1>9, <1>10

----------------------------------------------------------------------------
(* The table and the file.                                                 *)

\* Who is at a snapshot or a write is so still, with the same snapshot.
SaveKept(u) ==
  /\ ref'[u].pc = "snap" <=> ref[u].pc = "snap"
  /\ ref'[u].pc = "save" <=> ref[u].pc = "save"
  /\ ref[u].pc = "save" => ref'[u].snap = ref[u].snap

LEMMA SavedKept ==
  ASSUME Saved, UNCHANGED <<suspects, file, expired, crossed>>,
         \A u \in Refreshers : SaveKept(u)
  PROVE  Saved'
<1>1. ASSUME ~crossed
      PROVE  \A t, u \in Refreshers : ref'[t].pc = "save" /\ ref'[u].pc = "save" => t = u
  BY <1>1 DEF Saved, SaveKept, At
<1>2. ASSUME ~crossed, \A t \in Refreshers : ref'[t].pc # "snap"
      PROVE  /\ \A t \in Refreshers : ref'[t].pc = "save" => ref'[t].snap = suspects
             /\ (\A t \in Refreshers : ref'[t].pc # "save") => Agrees(file)
  <2>1. \A t \in Refreshers : ~At(t, "snap")
    BY <1>2 DEF SaveKept, At
  <2>2. /\ \A t \in Refreshers : At(t, "save") => ref[t].snap = suspects
        /\ (\A t \in Refreshers : ~At(t, "save")) => Agrees(file)
    BY <1>2, <2>1 DEF Saved
  <2> HIDE DEF Agrees
  <2> QED
    BY <2>2 DEF SaveKept, At
<1>3. Agrees(file) => Agrees(file)'
  BY DEF Agrees
<1> QED
  BY <1>1, <1>2, <1>3 DEF Saved, At

\* While somebody is at a snapshot nothing more is promised.
LEMMA SavedBySnap ==
  ASSUME Saved, crossed' = crossed, NEW t \in Refreshers, ref'[t].pc = "snap",
         \A u \in Refreshers : ref'[u].pc = "save" => ref[u].pc = "save"
  PROVE  Saved'
BY DEF Saved, At

LEMMA SavedStep ==
  ASSUME GuardTypes, Refreshing, Saved, [Next]_vars
  PROVE  Saved'
<1>1. /\ suspects \in Bags /\ file \in Bags /\ ref \in [Refreshers -> Refreshes]
      /\ \A t \in Refreshers : ref[t] \in Refreshes
      /\ Bags \subseteq [Cheats -> Nat] /\ Users \subseteq Refreshers /\ Threads \subseteq Refreshers
      /\ {"none", "start", "snap", "save", "clear", "judge"} \subseteq RefreshLocations
  BY Nothing DEF GuardTypes, TableTypes, ThreadTypes, RefreshLocations
<1>2. CASE UNCHANGED <<suspects, file, expired, crossed, ref>>
  <2>1. \A u \in Refreshers : SaveKept(u)
    BY <1>2 DEF SaveKept
  <2> QED
    BY <1>2, <2>1, SavedKept
<1>3. CASE Restart
  <2>1. /\ \A c \in Cheats : suspects'[c] <= file[c]
        /\ suspects' \in Bags /\ file' = file
        /\ expired' = {c \in Cheats : suspects'[c] < file[c]}
        /\ ref' = [t \in Refreshers |-> NoRefresh]
    BY <1>3 DEF Restart
  <2>2. Agrees(file)'
    <3> SUFFICES ASSUME NEW c \in Cheats
                 PROVE  /\ suspects'[c] > 0 => file'[c] > 0
                        /\ file'[c] > 0 => suspects'[c] > 0 \/ c \in expired'
      BY DEF Agrees
    <3>1. suspects'[c] \in Nat /\ file[c] \in Nat /\ suspects'[c] <= file[c]
      BY <1>1, <2>1
    <3> QED
      BY <2>1, <3>1
  <2>3. \A u \in Refreshers : ref'[u].pc = "none"
    BY <2>1, NoRefreshTyped
  <2> QED
    BY <2>2, <2>3 DEF Saved, At
<1>4. ASSUME NEW t \in Threads, Work(t) PROVE Saved'
  <2>1. UNCHANGED <<suspects, file, expired, crossed>>
    BY <1>4 DEF Work, Check, Autoload, Begin, TakeLock, Write, GameGone, Arm, Unlock, tables, history
  <2>2. \A u \in Refreshers : SaveKept(u)
    BY <1>4, WorkRefresh DEF SaveKept
  <2> QED
    BY <2>1, <2>2, SavedKept
<1>5. ASSUME NEW t \in Users, NEW title \in Titles, ClearFlags(t, title) PROVE Saved'
  <2>1. crossed' = crossed /\ Save(t, "none") /\ t \in Refreshers
    BY <1>1, <1>5 DEF ClearFlags, history
  <2>2. ref'[t].pc = "snap" /\ \A u \in Refreshers \ {t} : ref'[u] = ref[u]
    BY <1>1, <2>1, SaveFacts
  <2>3. \A u \in Refreshers : ref'[u].pc = "save" => ref[u].pc = "save"
    BY <2>2
  <2> QED
    BY <2>1, <2>2, <2>3, SavedBySnap
<1>6. ASSUME NEW t \in Refreshers, UNCHANGED <<suspects, file, expired, crossed>>,
             ref[t].pc \notin {"snap", "save"}, ref'[t].pc \notin {"snap", "save"},
             \A u \in Refreshers \ {t} : ref'[u] = ref[u]
      PROVE  Saved'
  <2>1. \A u \in Refreshers : SaveKept(u)
    BY <1>6 DEF SaveKept
  <2> QED
    BY <1>6, <2>1, SavedKept
<1>7. ASSUME NEW t \in Refreshers, Save(t, "none") \/ Save(t, "start"), crossed' = crossed
      PROVE  Saved'
  <2>1. ref'[t].pc = "snap" /\ \A u \in Refreshers \ {t} : ref'[u] = ref[u]
    BY <1>1, <1>7, SaveFacts
  <2>2. \A u \in Refreshers : ref'[u].pc = "save" => ref[u].pc = "save"
    BY <2>1
  <2> QED
    BY <1>7, <2>1, <2>2, SavedBySnap
<1>8. ASSUME NEW t \in Refreshers, Judge(t) PROVE Saved'
  <2>1. UNCHANGED <<file, expired, crossed>> /\ ref[t].pc = "judge"
    BY <1>8 DEF Judge, At
  <2>2. PICK m \in SUBSET Cheats : Marks(t, m)
    BY <1>8, JudgeMarks
  <2>3. CASE m = {}
    <3>1. \A c \in Cheats : suspects'[c] = suspects[c]
      BY <2>2, <2>3 DEF Marks
    <3>2. suspects' = suspects
      BY <1>1, <2>2, <3>1 DEF Marks, Bags
    <3>3. Goto(t, "start")
      BY <2>2, <2>3 DEF Marks
    <3>4. ref'[t].pc = "start" /\ \A u \in Refreshers \ {t} : ref'[u] = ref[u]
      BY <1>1, <3>3, GotoFacts
    <3> QED
      BY <1>6, <2>1, <3>2, <3>4
  <2>4. CASE m # {}
    BY <1>7, <2>1, <2>2, <2>4 DEF Marks
  <2> QED
    BY <2>3, <2>4
<1>9. ASSUME NEW t \in Refreshers, Clear(t) PROVE Saved'
  <2> DEFINE survived == {c \in Cheats : guards[c].pid = ref[t].cur.pid /\ guards[c].age >= Window}
             cleared == {c \in survived : suspects[c] > 0}
  <2>1. UNCHANGED <<file, expired, crossed>> /\ ref[t].pc = "clear"
    BY <1>9 DEF Clear, At, history
  <2>2. /\ suspects' = [c \in Cheats |-> IF c \in survived THEN 0 ELSE suspects[c]]
        /\ IF cleared = {} THEN Goto(t, "none") ELSE Save(t, "none")
    BY <1>9 DEF Clear
  <2>3. CASE cleared = {}
    <3>1. \A c \in Cheats : c \in survived => suspects[c] = 0
      BY <1>1, <2>3
    <3> HIDE DEF survived, cleared
    <3>2. suspects' = suspects
      BY <1>1, <2>2, <3>1 DEF Bags
    <3>3. ref'[t].pc = "none" /\ \A u \in Refreshers \ {t} : ref'[u] = ref[u]
      BY <1>1, <2>2, <2>3, GotoFacts
    <3> QED
      BY <1>6, <2>1, <3>2, <3>3
  <2>4. CASE cleared # {}
    BY <1>7, <2>1, <2>2, <2>4
  <2> QED
    BY <2>3, <2>4
<1>10. ASSUME NEW t \in Refreshers, Snapshot(t) PROVE Saved'
  <2> DEFINE r == [ref[t] EXCEPT !.pc = "save", !.snap = suspects]
  <2>1. suspects' = suspects /\ crossed' = (\E u \in Refreshers : At(u, "save"))
    BY <1>10 DEF Snapshot, tables
  <2>2. ref' = [ref EXCEPT ![t] = r]
    BY <1>1, <1>10 DEF Snapshot
  <2>3. r.pc = "save" /\ r.snap = suspects
    BY <1>1 DEF Refreshes
  <2> HIDE DEF r
  <2>4. /\ ref'[t].pc = "save" /\ ref'[t].snap = suspects
        /\ \A u \in Refreshers \ {t} : ref'[u] = ref[u]
    BY <1>1, <2>2, <2>3
  <2>5. ~crossed' => \A u \in Refreshers \ {t} : ref'[u].pc # "save"
    BY <2>1, <2>4 DEF At
  <2> QED
    BY <2>1, <2>4, <2>5 DEF Saved, At
<1>11. ASSUME NEW t \in Refreshers, WriteFile(t) PROVE Saved'
  <2> DEFINE r == [NoRefresh EXCEPT !.pc = ref[t].then, !.cur = ref[t].cur]
  <2>1. file' = ref[t].snap /\ suspects' = suspects /\ crossed' = crossed /\ ref[t].pc = "save"
    BY <1>11 DEF WriteFile, tables, At
  <2>2. ref' = [ref EXCEPT ![t] = r]
    BY <1>11 DEF WriteFile
  <2>3. ref[t].then \in {"none", "start"}
    BY <1>1 DEF Refreshes
  <2>4. r.pc = ref[t].then
    BY NoRefreshTyped DEF Refreshes
  <2> HIDE DEF r
  <2>5. ref'[t].pc \in {"none", "start"} /\ \A u \in Refreshers \ {t} : ref'[u] = ref[u]
    BY <1>1, <2>2, <2>3, <2>4
  <2>6. ASSUME ~crossed, \A u \in Refreshers : ref'[u].pc # "snap"
        PROVE  ref[t].snap = suspects
    <3>1. \A u \in Refreshers : ~At(u, "snap")
      BY <2>1, <2>5, <2>6 DEF At
    <3> QED
      BY <2>1, <2>6, <3>1 DEF Saved, At
  <2>7. ~crossed => \A u \in Refreshers : ref'[u].pc # "save"
    BY <2>1, <2>5 DEF Saved, At
  <2>8. file' = suspects' => Agrees(file)'
    BY DEF Agrees
  <2> QED
    BY <2>1, <2>6, <2>7, <2>8 DEF Saved, At
<1>12. ASSUME NEW t \in Refreshers, ReadPrev(t) \/ ReadCur(t) \/ Set(t) \/ StartAutoload(t)
       PROVE  Saved'
  <2>1. UNCHANGED <<suspects, file, expired, crossed>>
    BY <1>12 DEF ReadPrev, ReadCur, Set, StartAutoload, tables, history
  <2>2. ref[t].pc \notin {"snap", "save"}
    BY <1>12 DEF ReadPrev, ReadCur, Set, StartAutoload, At
  <2>3. \A u \in Refreshers \ {t} : ref'[u] = ref[u]
    <3>1. Refresh(t)
      BY <1>12 DEF Refresh
    <3> QED
      BY <3>1, RefreshTyped
  <2>4. ref'[t].pc \notin {"snap", "save"}
    <3>1. CASE ReadPrev(t)
      <4>1. ref'[t] = [NoRefresh EXCEPT !.pc = "read", !.prev = running]
        BY <1>1, <3>1 DEF ReadPrev
      <4>2. ref'[t].pc = "read"
        BY <4>1, NoRefreshTyped DEF Refreshes
      <4> QED
        BY <4>2
    <3>2. CASE ReadCur(t)
      <4>1. ref'[t] = [ref[t] EXCEPT !.pc = "set", !.cur = game]
        BY <1>1, <3>2 DEF ReadCur
      <4>2. ref'[t].pc = "set"
        BY <1>1, <4>1 DEF Refreshes
      <4> QED
        BY <4>2
    <3>3. CASE Set(t)
      <4>1. \E loc \in {"judge", "start", "clear", "none"} : Goto(t, loc)
        BY <3>3 DEF Set
      <4> QED
        BY <1>1, <4>1, GotoFacts
    <3>4. CASE StartAutoload(t)
      <4>1. \E loc \in {"clear", "none"} : Goto(t, loc)
        BY <3>4 DEF StartAutoload
      <4> QED
        BY <1>1, <4>1, GotoFacts
    <3> QED
      BY <1>12, <3>1, <3>2, <3>3, <3>4
  <2> QED
    BY <1>6, <2>1, <2>2, <2>3, <2>4
<1>13. ASSUME NEW t \in Refreshers, Refresh(t) PROVE Saved'
  BY <1>8, <1>9, <1>10, <1>11, <1>12, <1>13 DEF Refresh
<1>14. CASE \E t \in Users, c \in Cheats : RequestToggle(t, c)
  BY <1>2, <1>14 DEF RequestToggle, tables, history
<1>15. CASE StartGame \/ EndGame \/ Tick \/ UNCHANGED vars
  BY <1>2, <1>15 DEF StartGame, EndGame, Tick, vars, tables, history
<1> QED
  BY <1>3, <1>4, <1>5, <1>13, <1>14, <1>15 DEF Next

----------------------------------------------------------------------------
(* The theorems.                                                           *)

LEMMA InitGuardIInv == Init => GuardIInv
<1>1. SUFFICES ASSUME Init PROVE GuardIInv
  OBVIOUS
<1>2. /\ game = NoGame /\ started = 0 /\ lit = {} /\ running = NoGame /\ lock = NoThread
      /\ guards = [c \in Cheats |-> NoGuard] /\ since = [c \in Cheats |-> NoGuard]
      /\ suspects = NoSuspects /\ file = NoSuspects
      /\ pc = [t \in Threads |-> "idle"] /\ req = [t \in Threads |-> NoRequest]
      /\ ref = [t \in Refreshers |-> NoRefresh]
  BY <1>1 DEF Init
<1>3. /\ "idle" \in Locations /\ "idle" \notin Locked /\ NoThread \notin Threads
      /\ SuspectMax \in Nat /\ GuardMax \in Nat
  BY GuardAssumption DEF Locations, Locked, Refreshers
<1>4. GameTypes
  BY <1>2, Nothing DEF GameTypes
<1>5. TableTypes
  <2>1. Guarded = {}
    BY <1>2, Nothing DEF Guarded
  <2>2. Cardinality(Guarded) = 0
    BY <2>1, FS_EmptySet
  <2> QED
    BY <1>2, <1>3, <2>2, Nothing DEF TableTypes
<1>6. ThreadTypes
  BY <1>2, <1>3, NoRequestTyped, NoRefreshTyped DEF ThreadTypes
<1>7. Holder
  BY <1>2, <1>3 DEF Holder
<1>8. \A t \in Refreshers : ref[t] = NoRefresh
  BY <1>2
<1>9. Pending
  BY <1>2, <1>3, <1>8, Nothing, NoRefreshTyped DEF Pending
<1>10. Refreshing
  BY <1>8, NoRefreshTyped DEF Refreshing, At
<1>11. Failing
  BY <1>2, NoRequestTyped DEF Failing
<1>12. Dated
  BY <1>2, Nothing DEF Dated, OffBy
<1>13. Saved
  BY <1>2, <1>8, NoRefreshTyped DEF Saved, At, Agrees
<1> QED
  BY <1>4, <1>5, <1>6, <1>7, <1>9, <1>10, <1>11, <1>12, <1>13 DEF GuardIInv, GuardTypes

LEMMA NextGuardIInv == GuardIInv /\ [Next]_vars => GuardIInv'
<1>1. SUFFICES ASSUME GuardIInv, [Next]_vars PROVE GuardIInv'
  OBVIOUS
<1>2. GuardTypes /\ Refreshing /\ Failing /\ Dated /\ Saved
  BY <1>1 DEF GuardIInv
<1>3. TableTypes'
  BY <1>1, <1>2, GuardTableStep, SuspectTableStep DEF TableTypes
<1>4. GameTypes' /\ ThreadTypes' /\ Holder' /\ Pending' /\ Refreshing'
  BY <1>1, <1>2, GameStep, ThreadStep
<1>5. Failing' /\ Dated' /\ Saved'
  BY <1>1, <1>2, OffStep, DatedStep, SavedStep
<1> QED
  BY <1>3, <1>4, <1>5 DEF GuardIInv, GuardTypes

LEMMA GuardInvariant == Spec => []GuardIInv
BY InitGuardIInv, NextGuardIInv, PTL DEF Spec

\* The tables of cr_cheats.c never outgrow their arrays, the apply lock has one
\* holder, and everything else has its type.
THEOREM GuardTypeCorrect == Spec => []TypeOK
<1>1. GuardIInv => TypeOK
  BY GuardTypesMeanTypeOK DEF GuardIInv
<1> QED
  BY <1>1, GuardInvariant, PTL

\* When no save is under way and the last one overlapped no other, the file of
\* crash_suspects_save() has the flags of the table.
THEOREM FileAgreesCorrect == Spec => []FileAgrees
<1>1. GuardIInv => FileAgrees
  BY DEF GuardIInv, Saved, Agrees, FileAgrees, At
<1> QED
  BY <1>1, GuardInvariant, PTL

\* A stopped game is judged by the action that judges.
LEMMA JudgedByJudge ==
  ASSUME GuardTypes, [Next]_vars, NEW t \in Refreshers, Judged(t)
  PROVE  Judge(t)
<1>1. /\ ref[t].pc = "judge" /\ ref'[t].pc \in {"snap", "start"}
      /\ ref \in [Refreshers -> Refreshes] /\ Users \subseteq Refreshers
  BY Nothing DEF Judged, At, GuardTypes, ThreadTypes
<1>2. CASE UNCHANGED ref
  BY <1>1, <1>2
<1>3. CASE Restart
  BY <1>1, <1>3, NoRefreshTyped DEF Restart
<1>4. ASSUME NEW u \in Threads, Work(u) PROVE FALSE
  BY <1>1, <1>4, WorkRefresh
<1>5. ASSUME NEW u \in Users, NEW title \in Titles, ClearFlags(u, title) PROVE FALSE
  <2>1. Save(u, "none") /\ ref[u].pc = "none"
    BY <1>5 DEF ClearFlags, In, At
  <2>2. \A v \in Refreshers \ {u} : ref'[v] = ref[v]
    BY <1>1, <2>1, SaveFacts
  <2> QED
    BY <1>1, <2>1, <2>2
<1>6. ASSUME NEW u \in Users, NEW c \in Cheats, RequestToggle(u, c) PROVE UNCHANGED ref
  BY <1>6 DEF RequestToggle
<1>7. ASSUME NEW u \in Refreshers, Refresh(u), u # t PROVE ref'[t] = ref[t]
  <2>1. ref' = [ref EXCEPT ![u] = ref'[u]]
    <3>1. CASE \E loc \in RefreshLocations : Goto(u, loc)
      BY <1>1, <3>1 DEF Goto
    <3> QED
      BY <1>1, <1>7, <3>1 DEF Refresh, ReadPrev, ReadCur, Set, Judge, StartAutoload, Clear, Snapshot,
                         WriteFile, Goto, Save
  <2> QED
    BY <1>1, <1>7, <2>1
<1>8. Refresh(t) => Judge(t)
  BY <1>1 DEF Refresh, ReadPrev, ReadCur, Set, StartAutoload, Clear, Snapshot, WriteFile, At
<1>9. CASE StartGame \/ EndGame \/ Tick \/ UNCHANGED vars
  BY <1>2, <1>9 DEF StartGame, EndGame, Tick, vars
<1> QED
  BY <1>1, <1>2, <1>3, <1>4, <1>5, <1>6, <1>7, <1>8, <1>9 DEF Next

\* Nobody is blamed without cause: crash_guard_flag_suspects() marks only cheats
\* switched on, and not off again, in the process that stopped, less than the
\* watch time ago.
THEOREM JustifiedCorrect == Spec => Justified
<1>1. ASSUME GuardIInv, [Next]_vars
      PROVE  \A t \in Refreshers, c \in Cheats :
               Judged(t) /\ suspects'[c] > suspects[c]
                 => since[c].pid = ref[t].prev.pid /\ since[c].age < Window
  <2> SUFFICES ASSUME NEW t \in Refreshers, NEW c \in Cheats, Judged(t), suspects'[c] > suspects[c]
               PROVE  since[c].pid = ref[t].prev.pid /\ since[c].age < Window
    OBVIOUS
  <2>1. GuardTypes /\ Refreshing /\ Dated
    BY <1>1 DEF GuardIInv
  <2>2. PICK m \in SUBSET Cheats : Marks(t, m)
    BY <1>1, <2>1, JudgedByJudge, JudgeMarks
  <2>3. suspects[c] \in Nat
    BY <2>1, Nothing DEF GuardTypes, TableTypes
  <2>4. c \in Due(t)
    BY <1>1, <2>2, <2>3 DEF Marks
  <2>5. guards[c].pid = ref[t].prev.pid /\ guards[c].age < Window /\ guards[c].pid # 0
    BY <1>1, <2>1, <2>4 DEF Due, Refreshing, Judged
  <2> QED
    BY <2>1, <2>5 DEF Dated
<1>2. GuardIInv /\ [Next]_vars =>
        [\A t \in Refreshers, c \in Cheats :
           Judged(t) /\ suspects'[c] > suspects[c]
             => since[c].pid = ref[t].prev.pid /\ since[c].age < Window]_vars
  BY <1>1
<1> QED
  BY <1>2, GuardInvariant, PTL DEF Spec, Justified

\* Nobody gets away: whoever finds a game stopped, every cheat switched on in it
\* less than the watch time ago, and not being switched off, is a suspect then,
\* unless the table is full.
THEOREM FlaggedCorrect == Spec => Flagged
<1>1. ASSUME GuardIInv, [Next]_vars
      PROVE  \A t \in Refreshers, c \in Cheats :
               Judged(t) /\ ~SwitchingOff(c) /\ since[c].pid = ref[t].prev.pid /\ since[c].age < Window
                 => suspects'[c] > 0 \/ SumFunction(suspects') = SuspectMax
  <2> SUFFICES ASSUME NEW t \in Refreshers, NEW c \in Cheats, Judged(t), ~SwitchingOff(c),
                      since[c].pid = ref[t].prev.pid, since[c].age < Window
               PROVE  suspects'[c] > 0 \/ SumFunction(suspects') = SuspectMax
    OBVIOUS
  <2>1. GuardTypes /\ Refreshing /\ Dated
    BY <1>1 DEF GuardIInv
  <2>2. PICK m \in SUBSET Cheats : Marks(t, m)
    BY <1>1, <2>1, JudgedByJudge, JudgeMarks
  <2>3. suspects[c] \in Nat
    BY <2>1, Nothing DEF GuardTypes, TableTypes
  <2>4. \A u \in Threads : ~OffBy(u, c)
    BY <1>1 DEF SwitchingOff, OffBy
  <2>5. since[c].pid # 0
    BY <1>1, <2>1 DEF Refreshing, Judged
  <2>6. guards[c] = since[c]
    BY <1>1, <2>1, <2>4, <2>5 DEF Dated
  <2>7. c \in Due(t)
    BY <1>1, <2>6 DEF Due
  <2>8. CASE m = Due(t)
    <3>1. suspects'[c] = suspects[c] + 1
      BY <2>2, <2>7, <2>8 DEF Marks
    <3> QED
      BY <2>3, <3>1
  <2> QED
    BY <2>2, <2>8 DEF Marks
<1>2. GuardIInv /\ [Next]_vars =>
        [\A t \in Refreshers, c \in Cheats :
           Judged(t) /\ ~SwitchingOff(c) /\ since[c].pid = ref[t].prev.pid /\ since[c].age < Window
             => suspects'[c] > 0 \/ SumFunction(suspects') = SuspectMax]_vars
  BY <1>1
<1> QED
  BY <1>2, GuardInvariant, PTL DEF Spec, Flagged

\* A flag goes when the user clears it or the cheat has outlived the watch time
\* since it was switched on last, and at no other time while CheatRunner runs.
THEOREM OnlySurvivorsForgivenCorrect == Spec => OnlySurvivorsForgiven
<1>1. ASSUME GuardIInv, [Next]_vars
      PROVE  \A c \in Cheats :
               suspects[c] > 0 /\ suspects'[c] = 0 /\ ~Restart
                 => \/ \E t \in Users : pc[t] = "idle" /\ At(t, "none") /\ ref'[t].pc = "snap"
                    \/ since[c].pid # 0 /\ since[c].age = Window
  <2> SUFFICES ASSUME NEW c \in Cheats, suspects[c] > 0, suspects'[c] = 0, ~Restart
               PROVE  \/ \E t \in Users : pc[t] = "idle" /\ At(t, "none") /\ ref'[t].pc = "snap"
                      \/ since[c].pid # 0 /\ since[c].age = Window
    OBVIOUS
  <2>1. GuardTypes /\ Refreshing /\ Dated
    BY <1>1 DEF GuardIInv
  <2>2. /\ suspects[c] \in Nat /\ Window \in Nat /\ Users \subseteq Refreshers
        /\ guards[c].age \in 0..Window /\ ref \in [Refreshers -> Refreshes]
    BY <2>1, Nothing, GuardAssumption DEF GuardTypes, TableTypes, ThreadTypes, Guards
  <2>3. suspects'[c] # suspects[c]
    BY <1>1, <2>2
  <2>4. ASSUME NEW t \in Refreshers, Judge(t) PROVE FALSE
    <3>1. PICK m \in SUBSET Cheats : Marks(t, m)
      BY <2>1, <2>4, JudgeMarks
    <3> QED
      BY <1>1, <2>2, <3>1 DEF Marks
  <2>5. ASSUME NEW t \in Refreshers, Clear(t)
        PROVE  since[c].pid # 0 /\ since[c].age = Window
    <3>1. guards[c].pid = ref[t].cur.pid /\ guards[c].age >= Window
      BY <1>1, <2>3, <2>5 DEF Clear
    <3>2. guards[c].pid # 0
      BY <2>1, <2>5, <3>1 DEF Refreshing, Clear
    <3>3. since[c] = guards[c]
      BY <2>1, <3>2 DEF Dated
    <3> QED
      BY <2>2, <3>1, <3>2, <3>3
  <2>6. ASSUME NEW t \in Users, NEW title \in Titles, ClearFlags(t, title)
        PROVE  pc[t] = "idle" /\ At(t, "none") /\ ref'[t].pc = "snap"
    BY <2>2, <2>6, SaveFacts DEF ClearFlags, In
  <2>7. ASSUME NEW t \in Refreshers, Refresh(t)
        PROVE  Judge(t) \/ Clear(t) \/ UNCHANGED suspects
    BY <2>7 DEF Refresh, ReadPrev, ReadCur, Set, StartAutoload, Snapshot, WriteFile, tables
  <2>8. ASSUME NEW t \in Threads, Work(t) PROVE UNCHANGED suspects
    BY <2>8 DEF Work, Check, Autoload, Begin, TakeLock, Write, GameGone, Arm, Unlock, tables
  <2>9. (\E t \in Users, d \in Cheats : RequestToggle(t, d)) => UNCHANGED suspects
    BY DEF RequestToggle, tables
  <2>10. StartGame \/ EndGame \/ Tick \/ UNCHANGED vars => UNCHANGED suspects
    BY DEF StartGame, EndGame, Tick, vars, tables
  <2> QED
    BY <1>1, <2>3, <2>4, <2>5, <2>6, <2>7, <2>8, <2>9, <2>10 DEF Next
<1>2. GuardIInv /\ [Next]_vars =>
        [\A c \in Cheats :
           suspects[c] > 0 /\ suspects'[c] = 0 /\ ~Restart
             => \/ \E t \in Users : pc[t] = "idle" /\ At(t, "none") /\ ref'[t].pc = "snap"
                \/ since[c].pid # 0 /\ since[c].age = Window]_vars
  BY <1>1
<1> QED
  BY <1>2, GuardInvariant, PTL DEF Spec, OnlySurvivorsForgiven
=============================================================================
