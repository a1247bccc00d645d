SPECIFICATION ExecSpec
CONSTANTS
  x = x
  y = y
  l = l
  r = r
  g = g
  Vars <- MCVars
  Storage <- MCStorage
  Menu <- ExecMenu
  ElseMenu <- FirstOfElse
  Literals = {1}
  AssertsOn = TRUE
INVARIANT Ownership
INVARIANT SealedOnce
INVARIANT AllSealed
INVARIANT ReadsStayLocal
INVARIANT UsesAgree
PROPERTY ImplementsBlockSealing
