SPECIFICATION Spec
CONSTANTS
  Handlers = {h1, h2}
  Titles = {ta, tb}
  NoTitle = NoTitle
  KillCurrent = TRUE
  MaxGen = 2
  MaxApp = 2
INVARIANTS TypeOK BusyNewest VerifiedRan NewestDone
SYMMETRY Symmetry
