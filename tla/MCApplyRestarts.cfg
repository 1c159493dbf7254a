SPECIFICATION FairSpec
CONSTANTS
  Threads = {t1, t2}
  NoThread = NoThread
  Sweepers = {t1, t2}
  ModOf <- TinyModOf
  AddrOf <- TinyAddrOf
  PageOf <- TinyPageOf
  Mods = {0}
  Entries = {0, 1}
  Big = {1}
  MasterNamed = {}
  MaxPid = 2
  OneAtATime = FALSE
  Cooldown = FALSE
  Safeguards = TRUE
  Layouts <- TinyFaults
INVARIANTS RecordsMatchMemory
PROPERTIES ImplementsToggle Answered
