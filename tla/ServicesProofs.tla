--------------------------- MODULE ServicesProofs ---------------------------
(***************************************************************************)
(* The services beside the cheat engine, each for any value of its         *)
(* constants: the buffer of a request, the settings, the choice of a cheat *)
(* file and the page; and at the end all of them together, as MCServices   *)
(* composes them.                                                          *)
(***************************************************************************)
EXTENDS MCServices, RepoMirrorProofs, WellFoundedInduction

----------------------------------------------------------------------------
(* Least elements.                                                         *)

LessThan == {p \in Nat \X Nat : p[1] < p[2]}

LEMMA LeastNatural ==
  ASSUME NEW S, S \subseteq Nat, S # {}
  PROVE  \E x \in S : \A y \in S : x <= y
<1>1. LessThan = OpToRel(<, Nat)
  BY DEF OpToRel, LessThan
<1>2. \E x \in S : \A y \in S : ~(<<y, x>> \in LessThan)
  BY <1>1, NatLessThanWellFounded, WFMin, Zenon
<1>3. ASSUME NEW x \in S, NEW y \in S, ~(<<y, x>> \in LessThan) PROVE x <= y
  <2>1. <<y, x>> \in Nat \X Nat
    OBVIOUS
  <2>2. ~(y < x)
    BY <1>3, <2>1 DEF LessThan
  <2> QED BY <2>2
<1> QED BY <1>2, <1>3

\* Min of the library is the least element, of any set of naturals.
LEMMA LeastMember ==
  ASSUME NEW S, S \subseteq Nat, S # {}
  PROVE  Min(S) \in S /\ \A y \in S : Min(S) <= y
BY LeastNatural DEF Min

----------------------------------------------------------------------------
(* HttpRequest: the buffer.                                                *)

\* InBuffer with the types of the sizes it speaks of is inductive.
RequestIInv ==
  /\ RequestTypeOK /\ InBuffer
  /\ {off, bodyAt, bodyLen} \subseteq Nat

\* A buffer that grows holds what is asked for, if a request may be as large,
\* and never shrinks.
LEMMA GrownFits ==
  ASSUME RequestTypeOK, NEW need \in Nat, need <= MaxSize
  PROVE  Grown(need) \in cap..MaxSize /\ need <= Grown(need)
<1> DEFINE Enough == {MaxSize} \cup {size \in need..MaxSize : \E k \in 1..need : size = cap * 2^k}
<1>1. CASE need <= cap
  BY <1>1, RequestAssumption DEF Grown, RequestTypeOK
<1>2. CASE ~(need <= cap)
  <2>1. Enough \subseteq need..MaxSize /\ Enough # {}
    BY RequestAssumption
  <2> HIDE DEF Enough
  <2>2. Min(Enough) \in need..MaxSize
    <3>1. Enough \subseteq Nat
      BY <2>1, RequestAssumption
    <3>2. Min(Enough) \in Enough
      BY <2>1, <3>1, LeastMember
    <3> QED BY <2>1, <3>2
  <2>3. Grown(need) = Min(Enough)
    BY <1>2 DEF Grown, Enough
  <2> QED BY <1>2, <2>2, <2>3, RequestAssumption DEF RequestTypeOK
<1> QED BY <1>1, <1>2

LEMMA RequestStart == RequestInit => RequestIInv
BY RequestAssumption DEF RequestInit, RequestIInv, RequestTypeOK, InBuffer

\* Reading: the buffer has grown before recv() is told how much may come.
LEMMA RequestReads ==
  ASSUME RequestIInv, ReadHead \/ ReadBody
  PROVE  RequestIInv'
<1> USE RequestAssumption DEF RequestIInv, RequestTypeOK, InBuffer
<1>1. CASE ReadHead
  <2>1. cap' \in cap..MaxSize
    BY <1>1, GrownFits DEF ReadHead
  <2>2. off' \in (off + 1)..cap' /\ off' \in Nat
    BY <1>1, <2>1 DEF ReadHead
  <2>3. CASE UNCHANGED <<reading, bodyAt>>
    BY <1>1, <2>1, <2>2, <2>3 DEF ReadHead
  <2>4. CASE bodyAt' \in {n \in (off + 1)..off' : n >= 2} /\ reading' = "size"
    BY <1>1, <2>1, <2>2, <2>4 DEF ReadHead
  <2> QED BY <1>1, <2>3, <2>4 DEF ReadHead
<1>2. CASE ReadBody
  BY <1>2 DEF ReadBody
<1> QED BY <1>1, <1>2

\* The check leaves room for the body in a buffer of at most MaxSize.
LEMMA RequestChecks ==
  ASSUME RequestIInv, CheckSize
  PROVE  RequestIInv'
<1> USE RequestAssumption DEF RequestIInv, RequestTypeOK, InBuffer
<1>1. CASE AnswerWith("large") \/ AnswerWith("alloc")
  BY <1>1 DEF AnswerWith
<1>2. ASSUME NEW len \in ContentLengths,
             bodyAt < MaxSize, len <= MaxSize - bodyAt - 1,
             cap' = Grown(bodyAt + len), bodyLen' = len, reading' = "body",
             UNCHANGED <<off, bodyAt>>
      PROVE  RequestIInv'
  <2>1. len \in Nat /\ bodyAt + len \in Nat /\ bodyAt + len <= MaxSize
    BY <1>2 DEF ContentLengths
  <2>2. cap' \in cap..MaxSize /\ bodyAt + len <= cap'
    BY <1>2, <2>1, GrownFits
  <2> QED BY <1>2, <2>1, <2>2
<1> QED BY <1>1, <1>2 DEF CheckSize

\* What is answered has no more of a body than has come.
LEMMA RequestEnds ==
  ASSUME RequestIInv, HeadStops \/ BodyStops \/ Route \/ NextRequest
  PROVE  RequestIInv'
<1> USE RequestAssumption DEF RequestIInv, RequestTypeOK, InBuffer, AnswerWith
<1>1. CASE HeadStops
  BY <1>1 DEF HeadStops
<1>2. CASE BodyStops
  BY <1>2 DEF BodyStops
<1>3. CASE Route
  BY <1>3 DEF Route, HasBody
<1>4. CASE NextRequest
  BY <1>4 DEF NextRequest
<1> QED BY <1>1, <1>2, <1>3, <1>4

LEMMA RequestCorrect == RequestInit /\ [][RequestNext]_requestVars => []RequestIInv
<1>1. RequestInit => RequestIInv
  BY RequestStart
<1>2. RequestIInv /\ [RequestNext]_requestVars => RequestIInv'
  <2>1. CASE UNCHANGED requestVars
    BY <2>1 DEF requestVars, RequestIInv, RequestTypeOK, InBuffer
  <2> QED BY <2>1, RequestReads, RequestChecks, RequestEnds DEF RequestNext
<1> QED BY <1>1, <1>2, PTL

\* No request, however it comes in pieces and whatever it says of its size, is
\* read or ended outside its buffer.
THEOREM InBufferCorrect == RequestInit /\ [][RequestNext]_requestVars => []InBuffer
BY RequestCorrect, PTL DEF RequestIInv

----------------------------------------------------------------------------
(* Config: what is saved is what is loaded.                                *)

\* A record whose numbers and buttons no load would change: the requests keep the
\* one in memory so, and a load makes it so.
Sound(s) == s \in Settings /\ s.a # s.b /\ s.number # Bad

\* What a load gives of a record that was saved, if its theme is one line.
Kept(s) == NoLevel([s EXCEPT !.theme = Trimmed(s.theme)])

ConfigIInv ==
  /\ ConfigTypeOK /\ {outside, unsaved} \subseteq BOOLEAN
  /\ Sound(cfg)
  /\ ~outside /\ ~unsaved /\ cfg.theme # "split" => Kept(cfg) = NoLevel(Loaded(stored))

\* What is trimmed is a line that stays as it is.
LEMMA TrimmedIsLine ==
  ASSUME NEW t \in Themes
  PROVE  Trimmed(t) \in {"midnight", "plain"} /\ Trimmed(Trimmed(t)) = Trimmed(t)
BY DEF Themes, Trimmed

\* The checks give sound numbers and buttons and leave the theme.
LEMMA CheckedIsSound ==
  ASSUME NEW r \in Settings
  PROVE  Sound(Checked(r)) /\ Checked(r).theme = r.theme
<1> DEFINE n == IF r.number = Bad THEN 0 ELSE r.number
           a1 == IF r.a = r.b THEN DefaultA ELSE r.a
           b1 == IF r.a = r.b THEN DefaultB ELSE r.b
<1>1. n \in Numbers /\ n # Bad
  BY DEF Settings, Numbers, Default, Wide, Bad
<1>2. {a1, b1} \subseteq Buttons /\ a1 # b1
  BY ConfigAssumption DEF Settings
<1>3. Checked(r) = [r EXCEPT !.number = n, !.a = a1, !.b = b1]
  BY DEF Checked
<1> HIDE DEF n, a1, b1
<1> QED BY <1>1, <1>2, <1>3 DEF Sound, Settings

\* Whatever is in the file, a load gives a sound record, and one whose theme
\* would be loaded again.
LEMMA LoadedIsSound ==
  ASSUME NEW f \in ConfigFiles
  PROVE  Sound(Loaded(f)) /\ Kept(Loaded(f)) = NoLevel(Loaded(f))
<1>1. f.theme \in Themes
  BY DEF ConfigFiles
<1>2. Trimmed(f.theme) \in Themes
  BY <1>1, TrimmedIsLine DEF Themes
<1>3. Read(f) \in Settings /\ Read(f).theme = Trimmed(f.theme)
  BY <1>2, ConfigAssumption DEF ConfigFiles, Settings, Levels, Read
<1>4. Sound(Loaded(f)) /\ Loaded(f).theme = Trimmed(f.theme)
  BY <1>3, CheckedIsSound DEF Loaded
<1>5. [Loaded(f) EXCEPT !.theme = Trimmed(Loaded(f).theme)] = Loaded(f)
  <2>1. Trimmed(Loaded(f).theme) = Loaded(f).theme
    BY <1>1, <1>4, TrimmedIsLine
  <2> QED BY <1>4, <2>1 DEF Sound, Settings
<1> QED BY <1>4, <1>5 DEF Kept

\* A sound record, saved, is loaded again but for its level and the blanks of its
\* theme.
LEMMA SoundIsLoaded ==
  ASSUME NEW s, Sound(s), s.theme # "split"
  PROVE  Kept(s) = NoLevel(Loaded(s))
<1>1. s \in Settings /\ s.theme \in Themes /\ Trimmed(s.theme) \in Themes
  BY TrimmedIsLine DEF Sound, Settings, Themes
<1> DEFINE k == [port |-> s.port, number |-> s.number, level |-> "debug",
                 a |-> s.a, b |-> s.b, theme |-> Trimmed(s.theme)]
<1>2. Kept(s) = k
  <2> DEFINE q == [port |-> s.port, number |-> s.number, level |-> s.level,
                   a |-> s.a, b |-> s.b, theme |-> Trimmed(s.theme)]
  <2>1. [s EXCEPT !.theme = Trimmed(s.theme)] = q
    BY <1>1 DEF Settings
  <2>2. NoLevel(q) = k
    BY DEF NoLevel
  <2> HIDE DEF q, k
  <2> QED BY <2>1, <2>2, Zenon DEF Kept
<1>3. Read(s) = k
  BY <1>1 DEF Read, Settings
<1>4. k \in Settings /\ k.number # Bad /\ k.a # k.b /\ k.level = "debug"
  BY <1>1 DEF Sound, Settings, Levels
<1> HIDE DEF k
<1>5. Checked(k) = k /\ NoLevel(k) = k
  BY <1>4 DEF Checked, NoLevel, Settings
<1> QED BY <1>2, <1>3, <1>5 DEF Loaded

LEMMA SoundIsFile ==
  ASSUME NEW s, Sound(s)
  PROVE  s \in ConfigFiles
BY DEF Sound, Settings, ConfigFiles

LEMMA DefaultsSound == Sound(Defaults) /\ Defaults.theme # "split"
BY ConfigAssumption DEF Sound, Defaults, Settings, Numbers, Levels, Default, Bad, Themes

LEMMA ConfigStart == ConfigInit => ConfigIInv
<1> SUFFICES ASSUME ConfigInit PROVE ConfigIInv
  OBVIOUS
<1>1. Defaults \in ConfigFiles /\ Kept(Defaults) = NoLevel(Loaded(Defaults))
  BY DefaultsSound, SoundIsLoaded, SoundIsFile
<1>2. ConfigTypeOK
  BY <1>1, DefaultsSound, ConfigAssumption DEF ConfigInit, ConfigTypeOK, Sound
<1> QED BY <1>1, <1>2, DefaultsSound DEF ConfigInit, ConfigIInv

\* A request that leaves a sound record may save it or fail to.
LEMMA ConfigSaves ==
  ASSUME ConfigIInv, Sound(cfg'), SaveLocked, UNCHANGED loading
  PROVE  ConfigIInv'
<1>1. ConfigTypeOK'
  BY SoundIsFile DEF ConfigIInv, ConfigTypeOK, SaveLocked, Sound
<1>2. CASE unsaved' = TRUE /\ UNCHANGED <<stored, time, outside>>
  <2>1. Sound(cfg)'
    BY DEF Sound
  <2> QED BY <1>1, <1>2, <2>1 DEF ConfigIInv
<1>3. CASE stored' = cfg' /\ outside' = FALSE /\ unsaved' = FALSE
  <2>1. cfg'.theme # "split" => Kept(cfg') = NoLevel(Loaded(cfg'))
    BY SoundIsLoaded
  <2>3. Sound(cfg)'
    BY DEF Sound
  <2> QED BY <1>1, <1>3, <2>1, <2>3 DEF ConfigIInv, Kept, NoLevel, Loaded, Checked, Read
<1> QED BY <1>2, <1>3 DEF SaveLocked

\* Every request checks what it is given before it keeps it.
LEMMA UserKeepsSound ==
  ASSUME ConfigIInv, User
  PROVE  Sound(cfg') /\ SaveLocked /\ UNCHANGED loading
<1> USE DEF Sound, Settings, Numbers, Default, Wide, Bad
<1>1. ASSUME NEW v \in Numbers, SetNumber(v) PROVE Sound(cfg') /\ SaveLocked /\ UNCHANGED loading
  BY <1>1 DEF ConfigIInv, SetNumber
<1>2. ASSUME NEW l \in Levels, SetLevel(l) PROVE Sound(cfg') /\ SaveLocked /\ UNCHANGED loading
  BY <1>2 DEF ConfigIInv, SetLevel
<1>3. ASSUME NEW v, SetButton(v) PROVE Sound(cfg') /\ SaveLocked /\ UNCHANGED loading
  BY <1>3 DEF ConfigIInv, SetButton
<1>4. ASSUME Reset PROVE Sound(cfg') /\ SaveLocked /\ UNCHANGED loading
  BY <1>4, DefaultsSound DEF ConfigIInv, Reset
<1>5. ASSUME NEW t \in Themes, SetTheme(t) PROVE Sound(cfg') /\ SaveLocked /\ UNCHANGED loading
  BY <1>5 DEF ConfigIInv, SetTheme
<1> QED BY <1>1, <1>2, <1>3, <1>4, <1>5 DEF User

\* The file and the monitor.
LEMMA ConfigFileSteps ==
  ASSUME ConfigIInv,
         Edit \/ ClockTicks \/ FindChange \/ Reload \/ KnowTime \/ DaemonStarts
  PROVE  ConfigIInv'
<1> USE DEF ConfigIInv, ConfigTypeOK
<1>1. CASE Edit
  BY <1>1, EditsAssumption DEF Edit
<1>2. CASE ClockTicks
  BY <1>2, ConfigAssumption DEF ClockTicks
<1>3. CASE FindChange
  BY <1>3 DEF FindChange
<1>4. CASE Reload
  BY <1>4, LoadedIsSound DEF Reload, Sound
<1>5. CASE KnowTime
  BY <1>5 DEF KnowTime
<1>6. CASE DaemonStarts
  <2>1. CASE cfg' = Loaded(stored) /\ time' = [time EXCEPT !.known = time.stored] /\ UNCHANGED stored
    BY <1>6, <2>1, LoadedIsSound DEF DaemonStarts, Sound
  <2>2. CASE cfg' = Defaults /\ stored' = Defaults
             /\ time' = [time EXCEPT !.stored = time.now, !.known = 0]
    <3>1. Defaults \in ConfigFiles /\ Kept(Defaults) = NoLevel(Loaded(Defaults))
      BY DefaultsSound, SoundIsLoaded, SoundIsFile
    <3>2. time' \in [now : 0..MaxTime, stored : 0..MaxTime, known : 0..MaxTime]
      <4>1. 0 \in 0..MaxTime
        BY ConfigAssumption
      <4> QED BY <2>2, <4>1
    <3> QED BY <1>6, <2>2, <3>1, <3>2, DefaultsSound DEF DaemonStarts, Sound
  <2> QED BY <1>6, <2>1, <2>2 DEF DaemonStarts
<1> QED BY <1>1, <1>2, <1>3, <1>4, <1>5, <1>6

LEMMA ConfigCorrect == ConfigInit /\ [][ConfigNext]_configVars => []ConfigIInv
<1>1. ConfigInit => ConfigIInv
  BY ConfigStart
<1>2. ConfigIInv /\ [ConfigNext]_configVars => ConfigIInv'
  <2>1. CASE UNCHANGED configVars
    BY <2>1 DEF configVars, ConfigIInv, ConfigTypeOK, Sound, Kept, NoLevel, Loaded, Read, Checked
  <2>2. ASSUME ConfigIInv, User PROVE ConfigIInv'
    BY <2>2, UserKeepsSound, ConfigSaves
  <2> QED BY <2>1, <2>2, ConfigFileSteps DEF ConfigNext
<1> QED BY <1>1, <1>2, PTL

\* The checks of the requests agree with those of the load, for any buttons and any
\* file another program leaves: a reload gives what was saved but for the level, the
\* blanks of a theme and what a theme of two lines does, and the two buttons differ.
THEOREM SavedIsLoadedCorrect == ConfigInit /\ [][ConfigNext]_configVars => []SavedIsLoaded
<1>1. ConfigIInv => SavedIsLoaded
  BY DEF ConfigIInv, SavedIsLoaded, Sound, Kept
<1> QED BY <1>1, ConfigCorrect, PTL

----------------------------------------------------------------------------
(* CheatFiles: the choice of a file.                                       *)

\* A finite set has a member that no other comes before, in any strict order.
LEMMA FirstExists ==
  ASSUME NEW S, IsFiniteSet(S), S # {}, NEW R,
         \A x \in S : <<x, x>> \notin R,
         \A x, y, z \in S : <<x, y>> \in R /\ <<y, z>> \in R => <<x, z>> \in R
  PROVE  \E x \in S : \A y \in S : <<y, x>> \notin R
<1> DEFINE Prior(x) == {y \in S : <<y, x>> \in R}
           Number(x) == Cardinality(Prior(x))
<1>1. \A x \in S : IsFiniteSet(Prior(x)) /\ Number(x) \in Nat
  BY FS_Subset, FS_CardinalityType
<1>2. ASSUME NEW x \in S, NEW y \in S, <<y, x>> \in R PROVE Number(y) < Number(x)
  <2>1. Prior(y) \subseteq Prior(x) /\ y \in Prior(x) /\ y \notin Prior(y)
    BY <1>2
  <2>2. Number(y) <= Number(x) /\ (Number(y) = Number(x) => Prior(y) = Prior(x))
    BY <1>1, <2>1, FS_Subset
  <2> QED BY <1>1, <2>1, <2>2
<1>8. \A x \in S : Number(x) \in Nat
  BY <1>1
<1> HIDE DEF Number, Prior
<1> DEFINE InUse == {Number(x) : x \in S}
<1>3. InUse \subseteq Nat /\ InUse # {}
  BY <1>8
<1>4. PICK n \in InUse : \A m \in InUse : n <= m
  BY <1>3, LeastNatural
<1>5. PICK x \in S : n = Number(x)
  OBVIOUS
<1>6. \A y \in S : Number(x) <= Number(y)
  BY <1>4, <1>5
<1>7. \A y \in S : ~(Number(y) < Number(x))
  BY <1>8, <1>6
<1> QED BY <1>2, <1>7

\* The numbers of a version go on with zeros for ever.
LEMMA SegmentType ==
  ASSUME NEW a \in Seq(Nat), NEW i \in Nat \ {0}
  PROVE  Segment(a, i) \in Nat
BY DEF Segment

LEMMA NewerSegments ==
  ASSUME NEW a \in Seq(Nat), NEW b \in Seq(Nat)
  PROVE  Newer(a, b) <=> \E i \in Nat \ {0} : /\ Segment(a, i) > Segment(b, i)
                                              /\ \A j \in 1 .. i - 1 : Segment(a, j) = Segment(b, j)
<1>1. DOMAIN a \subseteq Nat \ {0}
  OBVIOUS
<1>2. ASSUME NEW i \in Nat \ {0}, Segment(a, i) > Segment(b, i) PROVE i \in DOMAIN a
  BY <1>2, SegmentType DEF Segment
<1> QED BY <1>1, <1>2 DEF Newer

\* Of two versions one is newer, or they have the same numbers.
LEMMA NeitherNewer ==
  ASSUME NEW a \in Seq(Nat), NEW b \in Seq(Nat), ~Newer(a, b), ~Newer(b, a)
  PROVE  \A i \in Nat \ {0} : Segment(a, i) = Segment(b, i)
<1> DEFINE Differ == {i \in Nat \ {0} : Segment(a, i) # Segment(b, i)}
<1> SUFFICES ASSUME Differ # {} PROVE FALSE
  OBVIOUS
<1>1. PICK i \in Differ : \A k \in Differ : i <= k
  BY LeastNatural
<1>2. \A j \in 1 .. i - 1 : Segment(a, j) = Segment(b, j)
  BY <1>1
<1>3. Segment(a, i) > Segment(b, i) \/ Segment(b, i) > Segment(a, i)
  BY SegmentType
<1> QED BY <1>2, <1>3, NewerSegments

LEMMA NewerTransitive ==
  ASSUME NEW a \in Seq(Nat), NEW b \in Seq(Nat), NEW c \in Seq(Nat), Newer(a, b), Newer(b, c)
  PROVE  Newer(a, c)
<1>1. PICK i \in Nat \ {0} : /\ Segment(a, i) > Segment(b, i)
                             /\ \A j \in 1 .. i - 1 : Segment(a, j) = Segment(b, j)
  BY NewerSegments
<1>2. PICK k \in Nat \ {0} : /\ Segment(b, k) > Segment(c, k)
                             /\ \A j \in 1 .. k - 1 : Segment(b, j) = Segment(c, j)
  BY NewerSegments
<1> DEFINE m == IF i <= k THEN i ELSE k
<1>3. m \in Nat \ {0} /\ \A j \in 1 .. m - 1 : j \in 1 .. i - 1 /\ j \in 1 .. k - 1
  OBVIOUS
<1>4. \A j \in 1 .. m - 1 : Segment(a, j) = Segment(c, j)
  BY <1>1, <1>2, <1>3
<1>5. Segment(a, m) > Segment(c, m)
  <2>0. /\ Segment(a, i) \in Nat /\ Segment(b, i) \in Nat /\ Segment(c, i) \in Nat
        /\ Segment(a, k) \in Nat /\ Segment(b, k) \in Nat /\ Segment(c, k) \in Nat
    BY SegmentType
  <2>1. CASE i < k
    <3>1. Segment(b, i) = Segment(c, i)
      BY <1>2, <2>1
    <3> QED BY <1>1, <2>0, <2>1, <3>1
  <2>2. CASE i = k
    BY <1>1, <1>2, <2>0, <2>2
  <2>3. CASE k < i
    <3>1. Segment(a, k) = Segment(b, k)
      BY <1>1, <2>3
    <3> QED BY <1>2, <2>0, <2>3, <3>1
  <2> QED BY <2>1, <2>2, <2>3
<1> HIDE DEF m
<1> QED BY <1>3, <1>4, <1>5, NewerSegments

\* Versions with the same numbers are older and newer than the same others.
LEMMA NewerSame ==
  ASSUME NEW a \in Seq(Nat), NEW b \in Seq(Nat), NEW c \in Seq(Nat),
         ~Newer(a, b), ~Newer(b, a)
  PROVE  (Newer(c, a) <=> Newer(c, b)) /\ (Newer(a, c) <=> Newer(b, c))
<1>1. \A i \in Nat \ {0} : Segment(a, i) = Segment(b, i)
  BY NeitherNewer
<1>2. \A i \in Nat \ {0} : \A j \in 1 .. i - 1 : j \in Nat \ {0}
  OBVIOUS
<1> QED BY <1>1, <1>2, NewerSegments

LEMMA NewerAsymmetric ==
  ASSUME NEW a \in Seq(Nat), NEW b \in Seq(Nat), Newer(a, b)
  PROVE  ~Newer(b, a)
<1>1. ~Newer(a, a)
  <2>1. \A i \in Nat \ {0} : Segment(a, i) \in Nat
    BY SegmentType
  <2> QED BY <2>1, NewerSegments
<1> QED BY <1>1, NewerTransitive

\* What the names of a library's files say.
LEMMA ShelfType ==
  ASSUME FilesTypeOK
  PROVE  /\ library.shelf \in [CheatFileIds -> ShelfCard]
         /\ library.sfo \in [CheatTitles -> Seq(Nat)]
BY FilesAssumption DEF FilesTypeOK, CheatFileIds

LEMMA CardType ==
  ASSUME FilesTypeOK, NEW f \in CheatFileIds, NEW v
  PROVE  /\ library.shelf[f].kind \in Nat /\ library.shelf[f].version \in Seq(Nat)
         /\ Score(f, v) \in Int /\ f \in Nat
<1>1. library.shelf[f] \in ShelfCard
  BY ShelfType
<1>2. f \in Nat
  BY FilesAssumption DEF CheatFileIds
<1>3. /\ library.shelf[f].kind \in Nat /\ library.shelf[f].folder \in Nat
      /\ library.shelf[f].version \in Seq(Nat)
  BY <1>1 DEF ShelfCard
<1> DEFINE extra == IF Mentions(f, v) THEN 40 ELSE 0
<1>4. extra \in Nat
  OBVIOUS
<1>5. Score(f, v) = 400 - 100 * library.shelf[f].kind + library.shelf[f].folder + extra
  BY DEF Score
<1> HIDE DEF extra
<1> QED BY <1>2, <1>3, <1>4, <1>5

LEMMA FilesFinite ==
  ASSUME NEW S, S \subseteq CheatFileIds
  PROVE  IsFiniteSet(S)
<1>1. IsFiniteSet(CheatFileIds)
  BY FilesAssumption, FS_Interval DEF CheatFileIds
<1> QED BY <1>1, FS_Subset

\* best_by_match() has a best file of the class to find, if there is any.
LEMMA BestExists ==
  ASSUME FilesTypeOK, NEW v, NEW S, S \subseteq CheatFileIds, S # {}
  PROVE  \E f \in S : \A g \in S : Before(f, g, v)
<1> DEFINE R == {p \in S \X S : ~Before(p[2], p[1], v)}
<1>1. ASSUME NEW f \in S, NEW g \in S
      PROVE  /\ library.shelf[f].kind \in Nat /\ library.shelf[g].kind \in Nat
             /\ Score(f, v) \in Int /\ Score(g, v) \in Int /\ f \in Nat /\ g \in Nat
  BY CardType
<1>2. \A f, g \in S : <<g, f>> \in R <=> ~Before(f, g, v)
  OBVIOUS
<1>3. \A f \in S : Before(f, f, v)
  BY <1>1 DEF Before
<1>4. ASSUME NEW f \in S, NEW g \in S, NEW h \in S, ~Before(g, f, v), ~Before(h, g, v)
      PROVE  ~Before(h, f, v)
  BY <1>1, <1>4 DEF Before
<1> HIDE DEF R
<1>5. \A f \in S : <<f, f>> \notin R
  BY <1>2, <1>3
<1>6. \A f, g, h \in S : <<f, g>> \in R /\ <<g, h>> \in R => <<f, h>> \in R
  BY <1>2, <1>4
<1>7. \E f \in S : \A g \in S : <<g, f>> \notin R
  BY <1>5, <1>6, FilesFinite, FirstExists
<1> QED BY <1>2, <1>7

\* The order in which the scan keeps a file, as in ScanBest.
Beats(f, g) ==
  \/ Score(f, Unversioned) > Score(g, Unversioned)
  \/ /\ Score(f, Unversioned) = Score(g, Unversioned)
     /\ \/ Newer(library.shelf[f].version, library.shelf[g].version)
        \/ ~Newer(library.shelf[g].version, library.shelf[f].version) /\ f <= g

\* The scan has a file to keep: of the best score the newest version.
LEMMA ScanBestExists ==
  ASSUME FilesTypeOK, NEW S, S \subseteq CheatFileIds, S # {}
  PROVE  \E f \in S : \A g \in S : Beats(f, g)
<1> DEFINE R == {p \in S \X S : ~Beats(p[2], p[1])}
           Version(f) == library.shelf[f].version
           Points(f) == Score(f, Unversioned)
<1>1. \A f \in S : Version(f) \in Seq(Nat) /\ Points(f) \in Int /\ f \in Nat
  BY CardType
<1>2. \A f, g \in S : <<g, f>> \in R <=> ~Beats(f, g)
  OBVIOUS
<1> HIDE DEF R
<1>3. ASSUME NEW f \in S, NEW g \in S
      PROVE  Beats(f, g) <=> \/ Points(f) > Points(g)
                             \/ /\ Points(f) = Points(g)
                                /\ \/ Newer(Version(f), Version(g))
                                   \/ ~Newer(Version(g), Version(f)) /\ f <= g
  BY DEF Beats
<1> HIDE DEF Version, Points
<1>4. \A f \in S : Beats(f, f)
  BY <1>1, <1>3
<1>5. ASSUME NEW f \in S, NEW g \in S, NEW h \in S, ~Beats(g, f), ~Beats(h, g)
      PROVE  ~Beats(h, f)
  <2>0. /\ Points(f) \in Int /\ Points(g) \in Int /\ Points(h) \in Int
        /\ f \in Nat /\ g \in Nat /\ h \in Nat
    BY <1>1
  <2>1. /\ Points(f) >= Points(g) /\ Points(g) >= Points(h)
        /\ Points(f) = Points(g) =>
             /\ ~Newer(Version(g), Version(f)) /\ (Newer(Version(f), Version(g)) \/ f < g)
        /\ Points(g) = Points(h) =>
             /\ ~Newer(Version(h), Version(g)) /\ (Newer(Version(g), Version(h)) \/ g < h)
    <3>1. /\ ~Beats(g, f) /\ ~Beats(h, g)
      BY <1>5
    <3>2. Points(f) > Points(g) \/ (Points(f) = Points(g) /\ ~Newer(Version(g), Version(f)) /\ (Newer(Version(f), Version(g)) \/ f < g))
      BY <2>0, <3>1, <1>3, SMT
    <3>3. Points(g) > Points(h) \/ (Points(g) = Points(h) /\ ~Newer(Version(h), Version(g)) /\ (Newer(Version(g), Version(h)) \/ g < h))
      BY <2>0, <3>1, <1>3, SMT
    <3> QED BY <2>0, <3>2, <3>3
  <2>2. CASE Points(f) > Points(h)
    <3>1. Beats(h, f) => Points(h) >= Points(f)
      BY <2>0, <1>3
    <3> QED BY <2>0, <2>2, <3>1
  <2>3. CASE Points(f) = Points(h)
    <3>1. /\ ~Newer(Version(g), Version(f)) /\ (Newer(Version(f), Version(g)) \/ f < g)
          /\ ~Newer(Version(h), Version(g)) /\ (Newer(Version(g), Version(h)) \/ g < h)
      BY <2>0, <2>1, <2>3
    <3>2. ~Newer(Version(h), Version(f)) /\ (Newer(Version(f), Version(h)) \/ f < h)
      <4>1. CASE Newer(Version(f), Version(g)) /\ Newer(Version(g), Version(h))
        BY <1>1, <4>1, NewerTransitive, NewerAsymmetric
      <4>2. CASE ~Newer(Version(f), Version(g))
        <5>1. Newer(Version(f), Version(h)) <=> Newer(Version(g), Version(h))
          BY <1>1, <3>1, <4>2, NewerSame
        <5>2. Newer(Version(h), Version(f)) <=> Newer(Version(h), Version(g))
          BY <1>1, <3>1, <4>2, NewerSame
        <5> QED BY <1>1, <3>1, <4>2, <5>1, <5>2
      <4>3. CASE Newer(Version(f), Version(g)) /\ ~Newer(Version(g), Version(h))
        <5>1. Newer(Version(f), Version(g)) <=> Newer(Version(f), Version(h))
          BY <1>1, <3>1, <4>3, NewerSame
        <5> QED BY <1>1, <4>3, <5>1, NewerAsymmetric
      <4> QED BY <4>1, <4>2, <4>3
    <3> QED BY <1>1, <1>3, <2>3, <3>2
  <2> QED BY <1>1, <2>1, <2>2, <2>3
<1>6. \A f \in S : <<f, f>> \notin R
  BY <1>2, <1>4
<1>7. \A f, g, h \in S : <<f, g>> \in R /\ <<g, h>> \in R => <<f, h>> \in R
  BY <1>2, <1>5
<1>8. \E f \in S : \A g \in S : <<g, f>> \notin R
  BY <1>6, <1>7, FilesFinite, FirstExists
<1> QED BY <1>2, <1>8

LEMMA CandidatesAreThere ==
  ASSUME NEW t
  PROVE  /\ Candidates(t) \subseteq OnShelf(t) /\ OnShelf(t) \subseteq CheatFileIds
         /\ \A f \in OnShelf(t) : library.shelf[f].title = t /\ disk[f] # 0
BY DEF Candidates, OnShelf

\* The rules of the selection only ever name a file of the title that is there.
LEMMA RulesName ==
  ASSUME FilesTypeOK, NEW t \in CheatTitles, NEW v
  PROVE  ByRules(t, v) \in OnShelf(t) \cup {0}
<1>1. ASSUME NEW class PROVE BestByMatch(t, v, class) \in OnShelf(t) \cup {0}
  <2> DEFINE S == {f \in Candidates(t) : Match(f, v) = class}
  <2>1. S \subseteq OnShelf(t) /\ S \subseteq CheatFileIds
    BY CandidatesAreThere
  <2>2. BestByMatch(t, v, class) = IF S = {} THEN 0 ELSE CHOOSE f \in S : \A g \in S : Before(f, g, v)
    BY DEF BestByMatch
  <2> HIDE DEF S
  <2>3. CASE S # {}
    <3>1. \E f \in S : \A g \in S : Before(f, g, v)
      BY <2>1, <2>3, BestExists
    <3>2. (CHOOSE f \in S : \A g \in S : Before(f, g, v)) \in S
      BY <3>1
    <3> QED BY <2>1, <2>2, <2>3, <3>2
  <2> QED BY <2>2, <2>3
<1>2. ScanBest(t) \in OnShelf(t) \cup {0}
  <2>1. ScanBest(t) = IF OnShelf(t) = {} THEN 0
                      ELSE CHOOSE f \in OnShelf(t) : \A g \in OnShelf(t) : Beats(f, g)
    BY DEF ScanBest, Beats
  <2>2. CASE OnShelf(t) # {}
    <3>1. \E f \in OnShelf(t) : \A g \in OnShelf(t) : Beats(f, g)
      BY <2>2, CandidatesAreThere, ScanBestExists
    <3>2. (CHOOSE f \in OnShelf(t) : \A g \in OnShelf(t) : Beats(f, g)) \in OnShelf(t)
      BY <3>1
    <3> QED BY <2>1, <2>2, <3>2
  <2> QED BY <2>1, <2>2
<1> QED BY <1>1, <1>2 DEF ByRules

----------------------------------------------------------------------------
(* CheatFiles: the selections and the document.                            *)

PollAts == {"idle", "manual", "scan", "stat", "cache", "read", "keep", "have"}
PollType == [at : PollAts, title : CheatTitles \cup {NoCheatTitle}, file : Places,
             stamp : Contents, doc : Places \X Contents]

\* What a poll has in hand: a file of its title once it has found one; a stamp
\* the file has not fallen behind, unless it is gone; then a document that is no
\* older than the stamp.
Holds(q) ==
  /\ q \in PollType
  /\ q.at # "idle" => q.title \in CheatTitles
  /\ q.at \notin {"idle", "scan"} => q.file \in CheatFileIds
  /\ q.stamp <= writes
  /\ q.at \in {"cache", "read"} => disk[q.file] = 0 \/ disk[q.file] >= q.stamp
  /\ q.at \in {"keep", "have"} => q.doc[1] = q.file /\ q.doc[2] >= q.stamp

\* A selection, and the one a request is about to make, is a file of the title.
Chosen ==
  /\ \A t \in CheatTitles : manual[t] # 0 => library.shelf[manual[t]].title = t
  /\ select.at # "idle" => /\ select.title \in CheatTitles /\ select.file \in CheatFileIds
                           /\ library.shelf[select.file].title = select.title

FilesIInv ==
  /\ FilesTypeOK /\ Chosen
  /\ \A f \in CheatFileIds : disk[f] <= writes
  /\ document.content >= document.stamp
  /\ \A p \in Pollers : Holds(poll[p])

LEMMA PollsHold ==
  FilesIInv <=> /\ \A p \in Pollers : Holds(poll[p])
                /\ poll = [p \in Pollers |-> poll[p]]
                /\ library \in Libraries
                /\ disk \in [CheatFileIds -> Contents] /\ writes \in Contents
                /\ manual \in [CheatTitles -> Places]
                /\ document \in [title : CheatTitles \cup {NoCheatTitle}, file : Places,
                                 stamp : Contents, content : Contents]
                /\ select.at \in {"idle", "check", "store"}
                /\ Chosen
                /\ \A f \in CheatFileIds : disk[f] <= writes
                /\ document.content >= document.stamp
BY DEF FilesIInv, FilesTypeOK, Holds, PollType, PollAts

LEMMA FilesStart == FilesInit => FilesIInv
<1> SUFFICES ASSUME FilesInit PROVE FilesIInv
  OBVIOUS
<1>1. 0 \in Places /\ 0 \in Contents /\ 1 \in Contents /\ Contents \subseteq Nat
  BY FilesAssumption DEF Places, Contents
<1>2. IdlePoll \in PollType
  BY <1>1 DEF IdlePoll, PollType, PollAts
<1>3. \A p \in Pollers : Holds(poll[p])
  BY <1>2 DEF FilesInit, Holds, IdlePoll
<1>4. disk \in [CheatFileIds -> Contents] /\ \A f \in CheatFileIds : disk[f] <= 1
  BY <1>1 DEF FilesInit
<1>5. /\ document \in [title : CheatTitles \cup {NoCheatTitle}, file : Places,
                       stamp : Contents, content : Contents]
      /\ document.content >= document.stamp
  BY <1>1 DEF FilesInit, NoDocument
<1>6. Chosen
  BY DEF FilesInit, Chosen
<1> QED BY <1>1, <1>3, <1>4, <1>5, <1>6, PollsHold DEF FilesInit

\* A step of one poll that leaves the files and the selections alone.
LEMMA PollTakes ==
  ASSUME FilesIInv, NEW p \in Pollers, NEW q, Step(p, q), Holds(q),
         UNCHANGED <<library, disk, writes, manual, document, select>>
  PROVE  FilesIInv'
<1>1. poll' \in [Pollers -> PollType] /\ \A r \in Pollers : Holds(poll'[r])
  BY PollsHold DEF Step, Holds
<1>2. \A r \in Pollers : Holds(poll[r])'
  BY <1>1 DEF Holds, PollType, PollAts
<1>3. Chosen'
  BY PollsHold DEF Chosen
<1> QED BY <1>1, <1>2, <1>3, PollsHold DEF FilesIInv, FilesTypeOK, Holds, PollType, PollAts

\* What a poll does, when it leaves the files and the selections alone.
LEMMA EarlySteps ==
  ASSUME FilesIInv, NEW p \in Pollers,
         \/ \E t \in CheatTitles : PollStarts(p, t)
         \/ PollTriesManual(p) /\ UNCHANGED manual
         \/ PollScans(p) \/ PollStats(p) \/ PollAsksCache(p) \/ PollReads(p) \/ PollAnswers(p)
  PROVE  FilesIInv'
<1> DEFINE old == poll[p]
<1>1. Holds(old) /\ FilesTypeOK
  BY PollsHold DEF FilesIInv
<1>2. 0 \in Places /\ 0 \in Contents /\ Contents \subseteq Nat /\ CheatFileIds \subseteq Places /\ writes \in Contents
  BY <1>1, FilesAssumption DEF Places, Contents, FilesTypeOK
<1>3. Holds(IdlePoll)
  BY <1>2 DEF IdlePoll, Holds, PollType, PollAts
<1> USE DEF Holds, PollType, PollAts
<1>4. ASSUME NEW t \in CheatTitles, PollStarts(p, t) PROVE FilesIInv'
  <2> DEFINE first == IF manual[t] = 0 THEN "scan" ELSE "manual"
  <2>1. manual[t] \in Places /\ (manual[t] # 0 => manual[t] \in CheatFileIds)
    BY <1>1 DEF FilesTypeOK, Places
  <2>2. first \in {"scan", "manual"} /\ (first = "manual" => manual[t] # 0)
    OBVIOUS
  <2>3. Step(p, [IdlePoll EXCEPT !.at = first, !.title = t, !.file = manual[t]])
    BY <1>4 DEF PollStarts
  <2> HIDE DEF first
  <2> DEFINE q == [IdlePoll EXCEPT !.at = first, !.title = t, !.file = manual[t]]
  <2>4. /\ q \in PollType /\ q.at = first /\ q.title = t /\ q.file = manual[t] /\ q.stamp = 0
    BY <1>2, <1>3, <2>1, <2>2 DEF IdlePoll
  <2>5. Holds(q)
    <3> HIDE DEF q
    <3> QED BY <1>2, <2>1, <2>2, <2>4
  <2> QED BY <1>4, <2>3, <2>5, PollTakes DEF PollStarts
<1>5. CASE PollTriesManual(p) /\ UNCHANGED manual
  <2>1. CASE disk[poll[p].file] # 0
    <3>1. Holds([old EXCEPT !.at = "stat"]) /\ Holds([old EXCEPT !.at = "scan", !.file = 0])
      BY <1>1, <1>2, <1>5 DEF PollTriesManual
    <3> QED BY <1>5, <3>1, PollTakes DEF PollTriesManual
  <2>2. CASE disk[poll[p].file] = 0
    <3>1. Holds([old EXCEPT !.at = "stat"]) /\ Holds([old EXCEPT !.at = "scan", !.file = 0])
      BY <1>1, <1>2, <1>5 DEF PollTriesManual
    <3> QED BY <1>5, <3>1, PollTakes DEF PollTriesManual
  <2> QED BY <2>1, <2>2
<1>6. CASE PollScans(p)
  <2> DEFINE f == ByRules(old.title, library.sfo[old.title])
  <2>1. f \in CheatFileIds \cup {0}
    BY <1>1, <1>6, RulesName, CandidatesAreThere DEF PollScans
  <2> HIDE DEF f
  <2>2. CASE f = 0
    BY <1>3, <1>6, <2>2, PollTakes DEF PollScans, f
  <2>3. CASE f # 0
    <3>1. Holds([old EXCEPT !.at = "stat", !.file = f])
      BY <1>1, <1>2, <1>6, <2>1, <2>3 DEF PollScans
    <3> QED BY <1>6, <2>3, <3>1, PollTakes DEF PollScans, f
  <2> QED BY <2>2, <2>3
<1>7. CASE PollStats(p)
  <2>1. old.file \in CheatFileIds /\ disk[old.file] \in Contents /\ disk[old.file] <= writes
    BY <1>1, <1>7 DEF PollStats, FilesIInv, FilesTypeOK
  <2> DEFINE s == disk[old.file]
             q == [old EXCEPT !.at = "cache", !.stamp = s]
  <2>2. q \in PollType /\ q.at = "cache" /\ q.stamp = s /\ q.file = old.file /\ q.title = old.title
    BY <1>1, <1>2, <2>1
  <2>3. s >= s
    <3>1. s \in Nat
      BY <1>2, <2>1
    <3> QED BY <3>1
  <2>4. Holds(q)
    <3> HIDE DEF q
    <3> QED BY <1>1, <1>7, <2>1, <2>2, <2>3 DEF PollStats
  <2> QED BY <1>7, <2>4, PollTakes DEF PollStats
<1>8. CASE PollAsksCache(p)
  <2>1. CASE IsHit(old)
    <3>1. /\ document.file = old.file /\ document.content \in Contents
          /\ document.content >= old.stamp
      BY <2>1 DEF IsHit, FilesIInv, FilesTypeOK
    <3>2. Holds([old EXCEPT !.at = "have", !.doc = <<document.file, document.content>>])
      BY <1>1, <1>2, <1>8, <3>1 DEF PollAsksCache
    <3> QED BY <1>8, <2>1, <3>2, PollTakes DEF PollAsksCache
  <2>2. CASE ~IsHit(old)
    <3>1. Holds([old EXCEPT !.at = "read"])
      BY <1>1, <1>2, <1>8 DEF PollAsksCache
    <3> QED BY <1>8, <2>2, <3>1, PollTakes DEF PollAsksCache
  <2> QED BY <2>1, <2>2
<1>9. CASE PollReads(p)
  <2> DEFINE content == disk[old.file]
  <2>1. old.file \in CheatFileIds /\ content \in Contents /\ (content = 0 \/ content >= old.stamp)
    BY <1>1, <1>9 DEF PollReads, FilesTypeOK
  <2>2. CASE content = 0
    BY <1>3, <1>9, <2>2, PollTakes DEF PollReads
  <2>3. CASE content # 0
    <3> HIDE DEF content
    <3>1. Holds([old EXCEPT !.at = "keep", !.doc = <<old.file, content>>])
      BY <1>1, <1>2, <1>9, <2>1, <2>3 DEF PollReads
    <3> QED BY <1>9, <2>3, <3>1, PollTakes DEF PollReads, content
  <2> QED BY <2>2, <2>3
<1>10. CASE PollAnswers(p)
  BY <1>3, <1>10, PollTakes DEF PollAnswers
<1> QED BY <1>4, <1>5, <1>6, <1>7, <1>8, <1>9, <1>10

\* Files are written, with the number of a new write, or go.
LEMMA DiskChanges ==
  ASSUME FilesIInv, disk' \in [CheatFileIds -> Contents], writes' \in Contents, writes <= writes',
         \A f \in CheatFileIds : disk'[f] \in {disk[f], 0, writes'},
         UNCHANGED <<library, manual, document, poll, select>>
  PROVE  FilesIInv'
<1>1. /\ writes \in Nat /\ writes' \in Nat
      /\ \A f \in CheatFileIds : disk[f] \in Nat /\ disk[f] <= writes /\ disk'[f] \in Nat
  BY FilesAssumption DEF FilesIInv, FilesTypeOK, Contents
<1>2. ASSUME NEW p \in Pollers PROVE Holds(poll[p])'
  <2> DEFINE q == poll[p]
  <2>1. Holds(q) /\ q \in PollType /\ q.stamp \in Nat
    BY PollsHold, FilesAssumption DEF Holds, PollType, Contents
  <2>2. q.stamp <= writes'
    BY <1>1, <2>1 DEF Holds
  <2>3. q.at \in {"cache", "read"} => disk'[q.file] = 0 \/ disk'[q.file] >= q.stamp
    <3> SUFFICES ASSUME q.at \in {"cache", "read"} PROVE disk'[q.file] = 0 \/ disk'[q.file] >= q.stamp
      OBVIOUS
    <3>1. q.file \in CheatFileIds /\ (disk[q.file] = 0 \/ disk[q.file] >= q.stamp)
      BY <2>1 DEF Holds
    <3> QED BY <1>1, <2>1, <2>2, <3>1
  <2> QED BY <2>1, <2>2, <2>3 DEF Holds, PollType
<1>3. \A f \in CheatFileIds : disk'[f] <= writes'
  BY <1>1
<1>4. Chosen'
  BY DEF FilesIInv, Chosen
<1> QED BY <1>2, <1>3, <1>4 DEF FilesIInv, FilesTypeOK

LEMMA FilesComeAndGo ==
  ASSUME FilesIInv, (\E f \in CheatFileIds : WriteFile(f)) \/ (\E t \in CheatTitles : Delete(t))
  PROVE  FilesIInv'
<1>1. disk \in [CheatFileIds -> Contents] /\ writes \in Contents /\ 0 \in Contents
  BY FilesAssumption DEF FilesIInv, FilesTypeOK, Contents
<1>2. ASSUME NEW f \in CheatFileIds, WriteFile(f) PROVE FilesIInv'
  <2>1. writes' \in Contents /\ writes <= writes' /\ writes' = writes + 1
    BY <1>1, <1>2, FilesAssumption DEF WriteFile, Contents
  <2> QED BY <1>1, <1>2, <2>1, DiskChanges DEF WriteFile
<1>3. ASSUME NEW t \in CheatTitles, Delete(t) PROVE FilesIInv'
  <2>1. writes' \in Contents /\ writes <= writes'
    BY <1>1, <1>3, FilesAssumption DEF Delete, Contents
  <2> QED BY <1>1, <1>3, <2>1, DiskChanges DEF Delete
<1> QED BY <1>2, <1>3

\* A poll's record and the selections change, the files do not.
LEMMA ChoicesChange ==
  ASSUME FilesIInv, UNCHANGED <<library, disk, writes, document>>,
         manual' \in [CheatTitles -> Places], select'.at \in {"idle", "check", "store"}, Chosen',
         poll' = [p \in Pollers |-> poll'[p]], \A p \in Pollers : Holds(poll'[p])
  PROVE  FilesIInv'
<1>1. \A p \in Pollers : Holds(poll[p])'
  BY DEF Holds, PollType
<1>2. poll' \in [Pollers -> PollType]
  BY DEF Holds
<1> QED BY <1>1, <1>2 DEF FilesIInv, FilesTypeOK, PollType, PollAts

LEMMA Selects ==
  ASSUME FilesIInv,
         \/ \E t \in CheatTitles, f \in CheatFileIds, force \in BOOLEAN :
              \E v \in {library.sfo[t], Unversioned} : SelectStarts(t, f, v, force)
         \/ \E modsOn \in BOOLEAN : SelectChecks(modsOn)
         \/ SelectStores
         \/ \E t \in CheatTitles : SelectAuto(t)
  PROVE  FilesIInv'
<1>1. /\ manual \in [CheatTitles -> Places] /\ 0 \in Places /\ CheatFileIds \subseteq Places
      /\ poll = [p \in Pollers |-> poll[p]] /\ \A p \in Pollers : Holds(poll[p])
      /\ Chosen /\ select.at \in {"idle", "check", "store"}
  BY PollsHold DEF Places
<1>2. ASSUME NEW t \in CheatTitles, NEW f \in CheatFileIds, NEW v, NEW force \in BOOLEAN,
             SelectStarts(t, f, v, force)
      PROVE  FilesIInv'
  <2>1. library.shelf[f].title = t
    BY <1>2, CandidatesAreThere DEF SelectStarts
  <2>2. Chosen' /\ select'.at \in {"idle", "check", "store"}
    BY <1>1, <1>2, <2>1 DEF SelectStarts, Chosen
  <2> QED BY <1>1, <1>2, <2>2, ChoicesChange DEF SelectStarts
<1>3. ASSUME NEW modsOn \in BOOLEAN, SelectChecks(modsOn) PROVE FilesIInv'
  <2>1. \/ select' = [at |-> "idle", title |-> NoCheatTitle, file |-> 0]
        \/ select' = [select EXCEPT !.at = "store"]
    BY <1>3 DEF SelectChecks
  <2>2. Chosen' /\ select'.at \in {"idle", "check", "store"}
    BY <1>1, <1>3, <2>1 DEF SelectChecks, Chosen
  <2> QED BY <1>1, <1>3, <2>2, ChoicesChange DEF SelectChecks
<1>4. CASE SelectStores
  <2>1. select.title \in CheatTitles /\ select.file \in CheatFileIds
        /\ library.shelf[select.file].title = select.title
    BY <1>1, <1>4 DEF SelectStores, Chosen
  <2>2. manual' \in {manual, [manual EXCEPT ![select.title] = select.file]}
    BY <1>4 DEF SelectStores
  <2>3. manual' \in [CheatTitles -> Places]
    BY <1>1, <2>1, <2>2
  <2>4. Chosen' /\ select'.at \in {"idle", "check", "store"}
    BY <1>1, <1>4, <2>1, <2>2 DEF SelectStores, Chosen
  <2> QED BY <1>1, <1>4, <2>3, <2>4, ChoicesChange DEF SelectStores
<1>5. ASSUME NEW t \in CheatTitles, SelectAuto(t) PROVE FilesIInv'
  <2>1. manual' \in [CheatTitles -> Places]
    BY <1>1, <1>5 DEF SelectAuto
  <2>2. Chosen'
    BY <1>1, <1>5 DEF SelectAuto, Chosen
  <2> QED BY <1>1, <1>5, <2>1, <2>2, ChoicesChange DEF SelectAuto
<1> QED BY <1>2, <1>3, <1>4, <1>5

\* A selection is cleared, or the document is kept.
LEMMA PollChanges ==
  ASSUME FilesIInv, NEW p \in Pollers, PollTriesManual(p) \/ PollKeeps(p)
  PROVE  FilesIInv'
<1> DEFINE old == poll[p]
<1>1. Holds(old) /\ FilesTypeOK /\ Chosen /\ poll \in [Pollers -> PollType]
      /\ \A r \in Pollers : Holds(poll[r])
  BY PollsHold DEF FilesIInv, Holds
<1>2. 0 \in Places
  BY DEF Places
<1>3. CASE PollTriesManual(p) /\ ~UNCHANGED manual
  <2> DEFINE q == [old EXCEPT !.at = "scan", !.file = 0]
  <2>1. old.title \in CheatTitles
    BY <1>1, <1>3 DEF Holds, PollTriesManual
  <2>2. manual' = [manual EXCEPT ![old.title] = 0] /\ Step(p, q)
    BY <1>3 DEF PollTriesManual
  <2>3. q \in PollType /\ q.at = "scan" /\ q.title = old.title /\ q.stamp = old.stamp
    BY <1>1, <1>2 DEF Holds, PollType, PollAts
  <2> HIDE DEF q
  <2>4. Holds(q)
    BY <1>1, <2>1, <2>3 DEF Holds
  <2>5. poll' = [r \in Pollers |-> poll'[r]] /\ \A r \in Pollers : Holds(poll'[r])
    BY <1>1, <2>2, <2>4 DEF Step
  <2>6. manual' \in [CheatTitles -> Places] /\ Chosen'
    BY <1>1, <1>2, <1>3, <2>1, <2>2 DEF FilesTypeOK, Chosen, PollTriesManual
  <2> QED BY <1>1, <1>3, <2>5, <2>6, ChoicesChange DEF PollTriesManual, FilesTypeOK
<1>4. CASE PollKeeps(p)
  <2> DEFINE q == [old EXCEPT !.at = "have"]
  <2>1. /\ q \in PollType /\ q.at = "have" /\ q.title = old.title /\ q.stamp = old.stamp
        /\ q.file = old.file /\ q.doc = old.doc
    BY <1>1 DEF Holds, PollType, PollAts
  <2>2. Step(p, q)
    BY <1>4 DEF PollKeeps
  <2> HIDE DEF q
  <2>3. Holds(q)
    BY <1>1, <1>4, <2>1 DEF Holds, PollKeeps
  <2>4. poll' \in [Pollers -> PollType] /\ \A r \in Pollers : Holds(poll'[r])
    BY <1>1, <2>1, <2>2, <2>3 DEF Step
  <2>5. \A r \in Pollers : Holds(poll[r])'
    BY <1>4, <2>4 DEF Holds, PollType, PollKeeps
  <2>6. /\ old.title \in CheatTitles /\ old.file \in Places /\ old.stamp \in Contents
        /\ old.doc[2] \in Contents /\ old.doc[2] >= old.stamp
    BY <1>1, <1>4 DEF Holds, PollType, PollKeeps
  <2>7. /\ document' \in [title : CheatTitles \cup {NoCheatTitle}, file : Places,
                          stamp : Contents, content : Contents]
        /\ document'.content >= document'.stamp
    BY <1>4, <2>6 DEF PollKeeps
  <2>8. Chosen'
    BY <1>1, <1>4 DEF PollKeeps, Chosen
  <2> QED BY <1>4, <2>4, <2>5, <2>7, <2>8 DEF FilesIInv, FilesTypeOK, PollKeeps, PollType, PollAts
<1>5. CASE PollTriesManual(p) /\ UNCHANGED manual
  BY <1>5, EarlySteps
<1> QED BY <1>3, <1>4, <1>5

LEMMA FilesCorrect == FilesInit /\ [][FilesNext]_fileVars => []FilesIInv
<1>1. FilesInit => FilesIInv
  BY FilesStart
<1>2. FilesIInv /\ [FilesNext]_fileVars => FilesIInv'
  <2> SUFFICES ASSUME FilesIInv, [FilesNext]_fileVars PROVE FilesIInv'
    OBVIOUS
  <2>1. CASE UNCHANGED fileVars
    BY <2>1 DEF fileVars, FilesIInv, FilesTypeOK, Chosen, Holds
  <2>2. ASSUME NEW p \in Pollers, PollSteps(p) PROVE FilesIInv'
    BY <2>2, EarlySteps, PollChanges DEF PollSteps
  <2>3. CASE \/ \E t \in CheatTitles, f \in CheatFileIds, force \in BOOLEAN :
                  \E v \in {library.sfo[t], Unversioned} : SelectStarts(t, f, v, force)
             \/ \E modsOn \in BOOLEAN : SelectChecks(modsOn)
             \/ SelectStores
             \/ \E t \in CheatTitles : SelectAuto(t)
    BY <2>3, Selects
  <2>4. CASE (\E f \in CheatFileIds : WriteFile(f)) \/ (\E t \in CheatTitles : Delete(t))
    BY <2>4, FilesComeAndGo
  <2> QED BY <2>1, <2>2, <2>3, <2>4 DEF FilesNext
<1> QED BY <1>1, <1>2, PTL

\* Whatever is written and deleted between the steps of a poll, it answers with a
\* document of the file it looked up, no older than the time it saw.
THEOREM FreshDocCorrect == FilesInit /\ [][FilesNext]_fileVars => []FreshDoc
<1>1. FilesIInv => FreshDoc
  BY DEF FilesIInv, Holds, FreshDoc
<1> QED BY <1>1, FilesCorrect, PTL

----------------------------------------------------------------------------
(* CheatPage: what the button offers.                                      *)

\* The memory of a cheat that is all in place, or all not.
AllOn == \A e \in PageEntries : ranges[e] = "on"
AllOff == \A e \in PageEntries : ranges[e] = "off" /\ Readings(e) = {"off"}
NotRecorded == records.this # "on"

States == Probed \cup {"conflict", "crash_suspect", "game_not_running", "process_not_found",
                       "game_loading", "base_not_ready"}
PageAts == {"idle", "module", "read", "disabled", "enabled", "suspects", "rivals", "answer"}
RequestType == [at : PageAts, left : SUBSET PageEntries, seen : [PageEntries -> Findings],
                state : States \cup {NotProbed}, quiet : BOOLEAN]

\* What the request has seen is what the memory allows, if nothing was written
\* since it began.
SeenIsThere(r) ==
  /\ r.at = "module" => r.left = PageEntries
  /\ r.at = "read" => \A e \in PageEntries \ r.left :
                        \E v \in Readings(e) : v # "unreadable" /\ r.seen[e] = Finding(e, v)

\* From the ranking on, the state says on of a cheat that is all in place, and one
\* of the states with which it is offered to be switched on of one that is not.
StateIsTrue(r) ==
  r.at \in {"disabled", "enabled", "suspects", "rivals", "answer"} =>
    /\ AllOn => r.state = "on" \/ r.state \notin Probed \cup {"conflict"}
    /\ AllOff /\ NotRecorded =>
         \/ r.state \in {"off", "off_unverified", "address_unresolved", "conflict"}
         \/ r.state \notin Probed \cup {"conflict"}

PageIInv ==
  /\ PageTypeOK /\ request \in RequestType
  /\ request.quiet => SeenIsThere(request) /\ StateIsTrue(request)

LEMMA OfferDecided ==
  /\ Offer("on") = "disable"
  /\ \A state \in {"off", "off_unverified", "address_unresolved", "conflict"} : Offer(state) = "enable"
BY DEF Offer

LEMMA PageIInvOffers == PageIInv => OffersOpposite
<1> SUFFICES ASSUME PageIInv, request.at = "answer", request.quiet,
                    request.state \in Probed \cup {"conflict"}
             PROVE  /\ AllOn => Offer(request.state) = "disable"
                    /\ AllOff /\ NotRecorded => Offer(request.state) = "enable"
  BY DEF OffersOpposite, AllOn, AllOff, NotRecorded
<1>1. StateIsTrue(request)
  BY DEF PageIInv
<1> QED BY <1>1, OfferDecided DEF StateIsTrue

\* How many entries were found one of some ways.
LEMMA Counted ==
  ASSUME NEW seen, NEW kinds
  PROVE  LET S == {e \in PageEntries : seen[e] \in kinds}
         IN  /\ Cardinality(S) \in Nat /\ Cardinality(PageEntries) \in Nat \ {0}
             /\ Cardinality(S) = Cardinality(PageEntries) <=> \A e \in PageEntries : seen[e] \in kinds
             /\ Cardinality(S) = 0 <=> \A e \in PageEntries : seen[e] \notin kinds
<1> DEFINE S == {e \in PageEntries : seen[e] \in kinds}
<1>1. S \subseteq PageEntries /\ IsFiniteSet(PageEntries) /\ PageEntries # {}
  BY PageAssumption
<1>2. (S = PageEntries <=> \A e \in PageEntries : seen[e] \in kinds)
      /\ (S = {} <=> \A e \in PageEntries : seen[e] \notin kinds)
  OBVIOUS
<1> HIDE DEF S
<1>3. IsFiniteSet(S) /\ Cardinality(S) \in Nat /\ Cardinality(PageEntries) \in Nat
  BY <1>1, FS_Subset, FS_CardinalityType
<1>4. Cardinality(PageEntries) # 0 /\ (Cardinality(S) = 0 <=> S = {})
  BY <1>1, <1>3, FS_EmptySet
<1>5. Cardinality(S) = Cardinality(PageEntries) <=> S = PageEntries
  BY <1>1, FS_Subset
<1> QED BY <1>2, <1>3, <1>4, <1>5 DEF S

LEMMA RankedOn ==
  ASSUME NEW seen, \A e \in PageEntries : seen[e] = "on"
  PROVE  Ranked(seen) = "on"
<1>1. Cardinality({e \in PageEntries : seen[e] \in {"on"}}) = Cardinality(PageEntries)
  BY Counted
<1> DEFINE Tally(kinds) == Cardinality({e \in PageEntries : seen[e] \in kinds})
           total == Cardinality(PageEntries)
<1>2. Ranked(seen) =
        CASE Tally({"on"}) = total -> "on"
          [] Tally({"on"}) \in 1 .. total - 1 /\ Tally({"on", "foreign"}) = total -> "on"
          [] Tally({"mismatch"}) = total -> "mismatch"
          [] Tally({"off", "foreign"}) = total -> "off"
          [] Tally({"offvalue"}) > 0 /\ Tally({"off", "foreign", "offvalue"}) = total ->
               "off_unverified"
          [] Tally({"unknown"}) > 0 /\ Tally({"mismatch", "on"}) = 0 -> "baseline_unknown"
          [] OTHER -> "mixed"
  BY DEF Ranked
<1>3. /\ Tally({"on"}) = total /\ Tally({"mismatch"}) = 0 /\ Tally({"off", "foreign"}) = 0
      /\ Tally({"offvalue"}) = 0 /\ Tally({"unknown"}) = 0 /\ total \in Nat \ {0}
  BY <1>1, Counted
<1> HIDE DEF Count, total
<1>4. /\ Tally({"on"}) \notin 1 .. total - 1 /\ Tally({"mismatch"}) # total
      /\ Tally({"off", "foreign"}) # total
      /\ ~(Tally({"offvalue"}) > 0) /\ ~(Tally({"unknown"}) > 0)
  BY <1>3
<1> QED BY <1>2, <1>3, <1>4, Zenon

\* However many of the entries the format tells the original bytes of.
LEMMA RankedOff ==
  ASSUME NEW seen, \A e \in PageEntries : seen[e] \in {"off", "offvalue"}
  PROVE  Ranked(seen) \in {"off", "off_unverified"}
<1> DEFINE Tally(kinds) == Cardinality({e \in PageEntries : seen[e] \in kinds})
           total == Cardinality(PageEntries)
<1>1. /\ total \in Nat \ {0} /\ Tally({"on"}) = 0 /\ Tally({"mismatch"}) = 0
      /\ Tally({"unknown"}) = 0 /\ Tally({"off", "foreign", "offvalue"}) = total
  BY Counted
<1>2. \/ Tally({"off", "foreign"}) = total /\ Tally({"offvalue"}) = 0
      \/ Tally({"off", "foreign"}) # total /\ Tally({"offvalue"}) > 0
  <2>1. CASE \A e \in PageEntries : seen[e] = "off"
    BY <2>1, Counted
  <2>2. CASE \E e \in PageEntries : seen[e] = "offvalue"
    <3>1. Tally({"offvalue"}) \in Nat /\ Tally({"offvalue"}) # 0
      BY <2>2, Counted
    <3>2. Tally({"off", "foreign"}) # total
      <4>1. ~(\A e \in PageEntries : seen[e] \in {"off", "foreign"})
        BY <2>2
      <4> QED BY <4>1, Counted
    <3> QED BY <3>1, <3>2
  <2> QED BY <2>1, <2>2
<1>3. Ranked(seen) =
        CASE Tally({"on"}) = total -> "on"
          [] Tally({"on"}) \in 1 .. total - 1 /\ Tally({"on", "foreign"}) = total -> "on"
          [] Tally({"mismatch"}) = total -> "mismatch"
          [] Tally({"off", "foreign"}) = total -> "off"
          [] Tally({"offvalue"}) > 0 /\ Tally({"off", "foreign", "offvalue"}) = total ->
               "off_unverified"
          [] Tally({"unknown"}) > 0 /\ Tally({"mismatch", "on"}) = 0 -> "baseline_unknown"
          [] OTHER -> "mixed"
  BY DEF Ranked
<1> HIDE DEF Count, total
<1>4. /\ Tally({"on"}) # total /\ Tally({"on"}) \notin 1 .. total - 1
      /\ Tally({"mismatch"}) # total /\ ~(Tally({"unknown"}) > 0)
      /\ Tally({"off", "foreign", "offvalue"}) = total
  BY <1>1
<1>5. CASE Tally({"off", "foreign"}) = total
  <2>1. ~(Tally({"offvalue"}) > 0)
    BY <1>2, <1>5
  <2> QED BY <1>3, <1>4, <1>5, <2>1, Zenon
<1>6. CASE Tally({"off", "foreign"}) # total
  BY <1>2, <1>3, <1>4, <1>6, Zenon
<1> QED BY <1>5, <1>6

LEMMA PageStart == PageInit => PageIInv
<1> SUFFICES ASSUME PageInit PROVE PageIInv
  OBVIOUS
<1>1. PageTypeOK
  BY PageAssumption DEF PageInit, PageTypeOK, Ready, NoPageRequest, Unseen, Bytes, Findings
<1>2. request \in RequestType
  BY DEF PageInit, NoPageRequest, RequestType, PageAts, Unseen, Findings
<1>3. SeenIsThere(request) /\ StateIsTrue(request)
  BY DEF PageInit, NoPageRequest, SeenIsThere, StateIsTrue
<1> QED BY <1>1, <1>2, <1>3 DEF PageIInv

\* Any step of the engine disturbs the request: nothing is claimed of it.
LEMMA EngineSteps ==
  ASSUME PageIInv,
         \/ \E doing \in {"on", "off", "rival"} : EngineStarts(doing)
         \/ \E e \in PageEntries : EngineWrites(e)
         \/ EngineRecords
  PROVE  PageIInv'
<1>1. request \in RequestType /\ PageTypeOK
  BY DEF PageIInv
<1>2. request' = [request EXCEPT !.quiet = FALSE] /\ UNCHANGED cheat
  BY DEF EngineStarts, EngineWrites, EngineRecords, Disturbed
<1>3. request' \in RequestType /\ request'.quiet = FALSE
  BY <1>1, <1>2 DEF RequestType
<1>4. request'.left \subseteq PageEntries /\ request'.seen \in [PageEntries -> Findings]
      /\ request'.quiet \in BOOLEAN
  BY <1>3 DEF RequestType
<1> USE DEF PageTypeOK
<1>5. ASSUME NEW doing \in {"on", "off", "rival"}, EngineStarts(doing) PROVE PageTypeOK'
  BY <1>1, <1>2, <1>4, <1>5, PageAssumption DEF EngineStarts
<1>6. ASSUME NEW e \in PageEntries, EngineWrites(e) PROVE PageTypeOK'
  <2> DEFINE new == CASE engine.doing = "on" -> "on"
                      [] engine.doing = "off" -> "off"
                      [] OTHER -> IF e \in HookEntries THEN "jump" ELSE "other"
  <2>1. new \in Bytes
    BY DEF Bytes
  <2>2. ranges' = [ranges EXCEPT ![e] = new]
    BY <1>6 DEF EngineWrites
  <2> HIDE DEF new
  <2>3. ranges' \in [PageEntries -> Bytes]
    BY <1>1, <2>1, <2>2
  <2> QED BY <1>1, <1>2, <1>4, <1>6, <2>3 DEF EngineWrites
<1>7. ASSUME EngineRecords PROVE PageTypeOK'
  <2>1. engine = [doing |-> engine.doing, left |-> engine.left]
    BY <1>1
  <2>2. engine.doing \in {"on", "off", "rival"}
    BY <1>1, <1>7, <2>1 DEF EngineRecords, Ready
  <2>3. CASE engine.doing = "rival"
    <3>1. records' \in [this : {"none", "on", "off"}, rival : BOOLEAN]
      BY <1>1, <1>7, <2>3 DEF EngineRecords
    <3> QED BY <1>1, <1>2, <1>4, <1>7, <3>1 DEF EngineRecords, Ready
  <2>4. CASE engine.doing # "rival"
    <3>1. records' \in [this : {"none", "on", "off"}, rival : BOOLEAN]
      <4> DEFINE stays == records.rival /\ ~cheat.safeguards
      <4>1. records' = [this |-> engine.doing, rival |-> stays] /\ stays \in BOOLEAN
        BY <1>7, <2>4 DEF EngineRecords
      <4> HIDE DEF stays
      <4> QED BY <2>2, <2>4, <4>1
    <3> QED BY <1>1, <1>2, <1>4, <1>7, <3>1 DEF EngineRecords, Ready
  <2> QED BY <2>3, <2>4
<1>8. PageTypeOK'
  BY <1>5, <1>6, <1>7
<1> QED BY <1>3, <1>8 DEF PageIInv

\* A step of the request, which changes only its own record.
LEMMA RequestTakes ==
  ASSUME PageIInv, UNCHANGED <<cheat, ranges, engine, records>>,
         request' \in RequestType,
         request'.quiet => SeenIsThere(request') /\ StateIsTrue(request')
  PROVE  PageIInv'
<1>1. PageTypeOK'
  BY DEF PageIInv, PageTypeOK, RequestType
<1>2. \A e \in PageEntries : Readings(e)' = Readings(e)
  BY DEF Readings
<1>3. \A e, v : Finding(e, v)' = Finding(e, v)
  BY DEF Finding
<1>4. SeenIsThere(request') => SeenIsThere(request)'
  BY <1>2, <1>3 DEF SeenIsThere
<1>5. StateIsTrue(request') => StateIsTrue(request)'
  BY <1>2 DEF StateIsTrue, AllOn, AllOff, NotRecorded
<1> QED BY <1>1, <1>4, <1>5 DEF PageIInv

LEMMA RequestBegins ==
  ASSUME PageIInv,
         \/ \E running, matches, starting, based, alive \in BOOLEAN :
              RequestStarts(running, matches, starting, based, alive)
         \/ \E loaded \in BOOLEAN : FindModule(loaded)
         \/ Answer
  PROVE  PageIInv'
<1>1. request \in RequestType
  BY DEF PageIInv
<1>2. Unseen \in [PageEntries -> Findings]
  BY DEF Unseen, Findings
<1>3. ASSUME NEW running \in BOOLEAN, NEW matches \in BOOLEAN, NEW starting \in BOOLEAN,
             NEW based \in BOOLEAN, NEW alive \in BOOLEAN,
             RequestStarts(running, matches, starting, based, alive)
      PROVE  PageIInv'
  <2> DEFINE blocked == Blocked(running, matches, starting, based, alive)
  <2>1. blocked \in {"game_not_running", "process_not_found", "game_loading", "base_not_ready",
                     NotProbed}
    BY <1>3 DEF Blocked
  <2>2. request' = [at |-> IF blocked = NotProbed THEN "module" ELSE "suspects",
                    left |-> PageEntries, seen |-> Unseen, state |-> blocked, quiet |-> TRUE]
    BY <1>3 DEF RequestStarts
  <2> HIDE DEF blocked
  <2>3. request' \in RequestType
    BY <1>2, <2>1, <2>2 DEF RequestType, PageAts, States
  <2>4. SeenIsThere(request')
    BY <2>2 DEF SeenIsThere
  <2>5. StateIsTrue(request')
    BY <2>1, <2>2 DEF StateIsTrue, Probed
  <2> QED BY <1>3, <2>3, <2>4, <2>5, RequestTakes DEF RequestStarts
<1>4. ASSUME NEW loaded \in BOOLEAN, FindModule(loaded) PROVE PageIInv'
  <2>1. request' \in RequestType
    BY <1>1, <1>4 DEF FindModule, RequestType, PageAts, States
  <2>2. request'.quiet => SeenIsThere(request')
    BY <1>1, <1>4 DEF FindModule, RequestType, SeenIsThere, PageIInv
  <2>3. request'.quiet => StateIsTrue(request')
    BY <1>1, <1>4 DEF FindModule, RequestType, StateIsTrue, Probed
  <2> QED BY <1>4, <2>1, <2>2, <2>3, RequestTakes DEF FindModule
<1>5. CASE Answer
  <2>1. request' \in RequestType /\ SeenIsThere(request') /\ StateIsTrue(request')
    BY <1>2, <1>5 DEF Answer, NoPageRequest, RequestType, PageAts, SeenIsThere, StateIsTrue
  <2> QED BY <1>5, <2>1, RequestTakes DEF Answer
<1> QED BY <1>3, <1>4, <1>5

LEMMA FindingType == \A e, v : Finding(e, v) \in Findings
BY DEF Finding, Findings

LEMMA RequestReadsMemory ==
  ASSUME PageIInv, NEW e \in PageEntries, NEW v \in Readings(e), ReadEntry(e, v)
  PROVE  PageIInv'
<1>1. request \in RequestType /\ request.at = "read" /\ (request.quiet => SeenIsThere(request))
  BY DEF PageIInv, ReadEntry
<1>2. CASE v = "unreadable"
  <2>1. request' = [request EXCEPT !.at = "suspects", !.state = "address_unresolved"]
    BY <1>2 DEF ReadEntry
  <2>2. request' \in RequestType /\ request'.at = "suspects" /\ request'.state = "address_unresolved"
    BY <1>1, <2>1 DEF RequestType, PageAts, States, Probed
  <2>3. ~AllOn
    BY <1>2 DEF AllOn, Readings
  <2>4. SeenIsThere(request') /\ StateIsTrue(request')
    BY <2>2, <2>3 DEF SeenIsThere, StateIsTrue, Probed
  <2> QED BY <2>2, <2>4, RequestTakes DEF ReadEntry
<1>3. CASE v # "unreadable"
  <2> DEFINE found == Finding(e, v)
  <2>1. request' = [request EXCEPT !.left = @ \ {e}, !.seen[e] = found]
    BY <1>3 DEF ReadEntry
  <2>2. found \in Findings
    BY FindingType
  <2>3. /\ request' \in RequestType /\ request'.at = "read" /\ request'.left = request.left \ {e}
        /\ request'.seen = [request.seen EXCEPT ![e] = found] /\ request'.quiet = request.quiet
    <3> HIDE DEF found
    <3> QED BY <1>1, <2>1, <2>2 DEF RequestType
  <2>4. ASSUME request.quiet, NEW f \in PageEntries \ request'.left
        PROVE  \E w \in Readings(f) : w # "unreadable" /\ request'.seen[f] = Finding(f, w)
    <3>1. CASE f = e
      BY <1>1, <1>3, <2>3, <3>1 DEF RequestType
    <3>2. CASE f # e
      <4>1. f \in PageEntries \ request.left /\ request'.seen[f] = request.seen[f]
        BY <1>1, <2>3, <2>4, <3>2 DEF RequestType
      <4> QED BY <1>1, <2>4, <4>1 DEF SeenIsThere
    <3> QED BY <3>1, <3>2
  <2>5. request'.quiet => SeenIsThere(request') /\ StateIsTrue(request')
    BY <2>3, <2>4 DEF SeenIsThere, StateIsTrue
  <2> QED BY <2>3, <2>5, RequestTakes DEF ReadEntry
<1> QED BY <1>2, <1>3

\* All entries have been read: the ranking sees on of every one, or of none.
LEMMA RequestRanks ==
  ASSUME PageIInv, Rank
  PROVE  PageIInv'
<1> DEFINE ranked == Ranked(request.seen)
<1>1. /\ request \in RequestType
      /\ request.quiet => \A e \in PageEntries : \E v \in Readings(e) :
                            v # "unreadable" /\ request.seen[e] = Finding(e, v)
  BY DEF PageIInv, Rank, SeenIsThere
<1>2. ranked \in States
  BY DEF Ranked, States, Probed
<1>3. ASSUME request.quiet, AllOn PROVE ranked = "on"
  <2>1. \A e \in PageEntries : request.seen[e] = "on"
    BY <1>1, <1>3 DEF AllOn, Readings, Finding
  <2> QED BY <2>1, RankedOn
<1>4. ASSUME request.quiet, AllOff PROVE ranked \in {"off", "off_unverified"}
  <2>1. \A e \in PageEntries : request.seen[e] \in {"off", "offvalue"}
    BY <1>1, <1>4 DEF AllOff, Finding
  <2> QED BY <2>1, RankedOff
<1>5. request' = [request EXCEPT !.at = "disabled", !.state = ranked]
  BY DEF Rank
<1> HIDE DEF ranked
<1>6. request' \in RequestType /\ request'.quiet = request.quiet /\ request'.state = ranked
      /\ request'.at = "disabled"
  BY <1>1, <1>2, <1>5 DEF RequestType, PageAts
<1>7. request'.quiet => SeenIsThere(request') /\ StateIsTrue(request')
  BY <1>3, <1>4, <1>6 DEF SeenIsThere, StateIsTrue
<1> QED BY <1>6, <1>7, RequestTakes DEF Rank

\* A later step that leaves the state, or makes it one that is as true.
LEMMA RequestAsks ==
  ASSUME PageIInv, AskDisabled \/ AskEnabled \/ AskSuspects \/ AskRivals
  PROVE  PageIInv'
<1>1. request \in RequestType /\ (request.quiet => StateIsTrue(request))
      /\ request.at \in {"disabled", "enabled", "suspects", "rivals"}
  BY DEF PageIInv, AskDisabled, AskEnabled, AskSuspects, AskRivals
<1>2. ASSUME NEW at \in {"enabled", "suspects", "rivals", "answer"}, NEW state \in States \cup {NotProbed},
             request' = [request EXCEPT !.at = at, !.state = state],
             \/ state = request.state
             \/ request.state = "baseline_unknown" /\ state \in {"off_unverified", "on_unverified"}
             \/ state = "crash_suspect"
             \/ request.state \in Probed \ {"on"} /\ state = "conflict",
             UNCHANGED <<cheat, ranges, engine, records>>
      PROVE  PageIInv'
  <2>1. /\ request' \in RequestType /\ request'.at = at /\ request'.state = state
        /\ request'.quiet = request.quiet
    BY <1>1, <1>2 DEF RequestType, PageAts
  <2>2. SeenIsThere(request')
    BY <2>1 DEF SeenIsThere
  <2>3. request.quiet => StateIsTrue(request')
    <3> SUFFICES ASSUME StateIsTrue(request) PROVE StateIsTrue(request')
      BY <1>1
    <3>1. AllOn => state = "on" \/ state \notin Probed \cup {"conflict"}
      BY <1>1, <1>2 DEF StateIsTrue, Probed
    <3>2. AllOff /\ NotRecorded =>
             \/ state \in {"off", "off_unverified", "address_unresolved", "conflict"}
             \/ state \notin Probed \cup {"conflict"}
      BY <1>1, <1>2 DEF StateIsTrue, Probed
    <3> QED BY <2>1, <3>1, <3>2 DEF StateIsTrue
  <2> QED BY <1>2, <2>1, <2>2, <2>3, RequestTakes
<1>3. request = [request EXCEPT !.state = request.state] /\ request.state \in States \cup {NotProbed}
  BY <1>1 DEF RequestType
<1>4. \A at : [request EXCEPT !.at = at] = [request EXCEPT !.at = at, !.state = request.state]
  BY <1>1 DEF RequestType
<1>5. CASE AskDisabled
  <2> DEFINE state == IF request.state = "baseline_unknown" /\ records.this = "off"
                      THEN "off_unverified" ELSE request.state
  <2>1. request' = [request EXCEPT !.at = "enabled", !.state = state]
    BY <1>5 DEF AskDisabled
  <2>2. state \in States \cup {NotProbed}
    BY <1>3 DEF States, Probed
  <2> QED BY <1>2, <1>5, <2>1, <2>2 DEF AskDisabled
<1>6. CASE AskEnabled
  <2> DEFINE state == IF request.state = "baseline_unknown" /\ records.this = "on"
                      THEN "on_unverified" ELSE request.state
  <2>1. request' = [request EXCEPT !.at = "suspects", !.state = state]
    BY <1>6 DEF AskEnabled
  <2>2. state \in States \cup {NotProbed}
    BY <1>3 DEF States, Probed
  <2> QED BY <1>2, <1>6, <2>1, <2>2 DEF AskEnabled
<1>7. CASE AskSuspects
  <2> DEFINE at == IF request.state \in Probed THEN "rivals" ELSE "answer"
  <2>1. CASE cheat.suspect
    BY <1>2, <1>7, <2>1 DEF AskSuspects, States
  <2>2. CASE ~cheat.suspect
    <3>1. request' = [request EXCEPT !.at = at, !.state = request.state]
      BY <1>4, <1>7, <2>2 DEF AskSuspects
    <3> QED BY <1>2, <1>3, <1>7, <3>1 DEF AskSuspects
  <2> QED BY <2>1, <2>2
<1>8. CASE AskRivals
  <2> DEFINE state == IF /\ Shared # {} /\ cheat.safeguards /\ records.rival
                         /\ request.state \in {"off", "off_unverified", "mixed",
                                               "baseline_unknown", "mismatch"}
                      THEN "conflict" ELSE request.state
  <2>1. request' = [request EXCEPT !.at = "answer", !.state = state]
    BY <1>8 DEF AskRivals
  <2>2. state \in States \cup {NotProbed}
        /\ (state = request.state \/ (request.state \in Probed \ {"on"} /\ state = "conflict"))
    BY <1>3 DEF States, Probed
  <2> HIDE DEF state
  <2> QED BY <1>2, <1>8, <2>1, <2>2 DEF AskRivals
<1> QED BY <1>5, <1>6, <1>7, <1>8

LEMMA PageCorrect == PageInit /\ [][PageNext]_pageVars => []PageIInv
<1>1. PageIInv /\ [PageNext]_pageVars => PageIInv'
  <2> SUFFICES ASSUME PageIInv, [PageNext]_pageVars PROVE PageIInv'
    OBVIOUS
  <2>1. CASE UNCHANGED pageVars
    BY <2>1, RequestTakes DEF pageVars, PageIInv
  <2>2. CASE PageNext
    BY <2>2, EngineSteps, RequestBegins, RequestReadsMemory, RequestRanks, RequestAsks DEF PageNext
  <2> QED BY <2>1, <2>2
<1> QED BY <1>1, PageStart, PTL

\* While the engine rests, a cheat with all its bytes in place is offered to be
\* switched off and one with none in place to be switched on, for any entries of
\* any kinds, whatever the format tells of the original bytes.
THEOREM OffersOppositeCorrect == PageInit /\ [][PageNext]_pageVars => []OffersOpposite
BY PageCorrect, PageIInvOffers, PTL

----------------------------------------------------------------------------
(* All of them.                                                            *)

\* Each part of the services behaves as it does alone.
LEMMA PartsAlone ==
  Services => /\ MirrorInit /\ [][MirrorNext]_mirrorVars
              /\ RequestInit /\ [][RequestNext]_requestVars
              /\ ConfigInit /\ [][ConfigNext]_configVars
              /\ FilesInit /\ [][FilesNext]_fileVars
              /\ PageInit /\ [][PageNext]_pageVars
<1> DEFINE all == <<part, vars, mirrorVars, requestVars, configVars, fileVars, pageVars>>
<1>1. ServicesInit => MirrorInit /\ RequestInit /\ ConfigInit /\ FilesInit /\ PageInit
  BY DEF ServicesInit
<1>2. [ServicesNext]_all =>
        /\ [MirrorNext]_mirrorVars /\ [RequestNext]_requestVars /\ [ConfigNext]_configVars
        /\ [FilesNext]_fileVars /\ [PageNext]_pageVars
  BY DEF ServicesNext
<1> QED BY <1>1, <1>2, PTL DEF Services

\* Whichever part moves, every variable of every part keeps its type.
THEOREM ServicesTypeCorrect == Services => []ServicesTypeOK
<1>1. RequestInit /\ [][RequestNext]_requestVars => []RequestTypeOK
  BY RequestCorrect, PTL DEF RequestIInv
<1>2. ConfigInit /\ [][ConfigNext]_configVars => []ConfigTypeOK
  BY ConfigCorrect, PTL DEF ConfigIInv
<1>3. FilesInit /\ [][FilesNext]_fileVars => []FilesTypeOK
  BY FilesCorrect, PTL DEF FilesIInv
<1>4. PageInit /\ [][PageNext]_pageVars => []PageTypeOK
  BY PageCorrect, PTL DEF PageIInv
<1>5. MirrorInit /\ [][MirrorNext]_mirrorVars => []MirrorTypeOK
  BY MirrorTypeCorrect DEF MirrorSpec
<1> QED BY <1>1, <1>2, <1>3, <1>4, <1>5, PartsAlone, PTL DEF ServicesTypeOK
=============================================================================
