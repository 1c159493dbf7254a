SPECIFICATION Spec
CONSTANTS
  Threads = {t1}
  NoThread = NoThread
  Sweepers = {t1}
  ModOf <- FullModOf
  AddrOf <- FullAddrOf
  PageOf <- FullPageOf
  Mods = {0, 1, 2}
  Entries = {0, 1, 2, 3, 4}
  Big = {1, 3}
  MasterNamed = {1}
  MaxPid = 1
  OneAtATime = TRUE
  Cooldown = TRUE
  Safeguards = TRUE
  Layouts <- TornFaults
INVARIANTS AllOrNothing
