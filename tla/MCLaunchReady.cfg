SPECIFICATION Spec
CONSTANTS
  Handlers = {h1, h2}
  Titles = {ta, tb}
  NoTitle = NoTitle
  KillCurrent = TRUE
  MaxGen = 1
  MaxApp = 1
INVARIANT ReadyRan
SYMMETRY Symmetry
