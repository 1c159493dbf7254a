SPECIFICATION Spec
CONSTANTS
  LineMax = 4
  Threads = {t1, t2}
  Monitor = Monitor
  NoThread = NoThread
  Patches = {1}
  File <- Files
  PageOf <- MCPageOf
  Slots = 2
  MaxPid = 1
  Glitches = 0
  Again = TRUE
  Layouts <- NoFaults
SYMMETRY ThreadSymmetry
INVARIANT RestoredToOriginal
