SPECIFICATION Spec
CONSTANTS
  x = x
  y = y
  l = l
  r = r
  g = g
  Vars <- MCVars
  Storage <- MCStorage
  Menu <- MixedMenu
  ElseMenu <- FirstOfElse
  Literals = {1}
  AssertsOn = TRUE
INVARIANT NoAssertionFails
