SPECIFICATION Spec
CONSTANTS
  x = x
  y = y
  l = l
  r = r
  g = g
  Vars <- MCVars
  Storage <- MCStorage
  Menu <- LoopMenu
  ElseMenu <- FirstOfElse
  Literals = {1}
  AssertsOn = FALSE
INVARIANT TypeOK
INVARIANT PhiComplete
INVARIANT JoinsBreakCycles
INVARIANT OptimizesOnlyComplete
INVARIANT UnderConstructionAlive
INVARIANT HeldValuesAlive
PROPERTY NoInsertDuringSeal
PROPERTY Termination
