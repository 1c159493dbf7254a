SPECIFICATION Host
CONSTANTS
  LineMax = 4
  Threads = {t1, t2}
  Monitor = Monitor
  NoThread = NoThread
  Patches = {3, 4}
  File <- Files
  PageOf <- MCPageOf
  Slots = 1
  MaxPid = 1
  Glitches = 1
  Again = FALSE
  Layouts <- NoFaults
  Sites = {s1}
  ButtonSite = s1
  MaxShells = 2
  MaxReinjects = 1
  MaxTotalFails = 3
  MaxPayloadFails = 1
  MaxShellLosses = 1
  Clients = {c1, c2, c3}
  NoClient = NoClient
  HttpMax = 2
  MaxSpins = 2
  NoOne = NoOne
INVARIANTS HostTypeOK Restraint TargetRestored
PROPERTIES Answered HookDecided Exits Listens LetGo
CHECK_DEADLOCK FALSE
