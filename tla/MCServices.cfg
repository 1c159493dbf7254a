SPECIFICATION Services
CONSTANTS
  LineMax = 4
  Threads = {t1, t2}
  Monitor = Monitor
  NoThread = NoThread
  Patches = {1, 2}
  File <- Files
  PageOf <- MCPageOf
  Slots = 2
  MaxPid = 1
  Glitches = 1
  Again = FALSE
  Layouts <- Faults
  Requests = {r1, r2}
  Loaders = {w1, w2}
  Limit = 2
  Sizes = {0, 4}
  Sources = 2
  StartCap = 2
  MaxSize = 16
  Buttons = {L2, R3}
  DefaultA = L2
  DefaultB = R3
  NotAButton = NotAButton
  Edits <- MCEdits
  MaxTime = 1
  CheatTitles = {"title"}
  NoCheatTitle = NoCheatTitle
  Pollers = {p1, p2}
  FilesMax = 3
  Libraries <- MCLibraries
  OnDisk <- AllFiles
  MaxCandidates = 2
  MaxPicks = 1
  MaxWrites = 2
  PageEntries = {1, 2}
  CaveEntries = {1}
  HookEntries = {2}
  Shared = {1, 2}
  NotProbed = NotProbed
SYMMETRY ServiceSymmetry
INVARIANTS OneWriter RolledBack NoJumpIntoNothing Recoverable MarkedRestorable RestoredToOriginal
INVARIANTS OneMirror Accounted NothingForgotten
INVARIANTS ServicesTypeOK InBuffer SavedIsLoaded FreshDoc OffersOpposite
PROPERTY DownloadStops
