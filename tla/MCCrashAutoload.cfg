SPECIFICATION Spec
CONSTANTS
  Users = {u1}
  Autoloaders = {a1}
  Monitor = Monitor
  NoThread = NoThread
  gameA = gameA
  gameB = gameB
  Titles = {gameA, gameB}
  NoTitle = NoTitle
  cheatA = cheatA
  cheatB = cheatB
  Cheats = {cheatA}
  TitleOf <- MCTitleOf
  Profile <- MCProfile
  Window = 1
  GuardMax = 1
  SuspectMax = 2
  MaxPid = 2
PROPERTY AutoloadSparesSuspects
