SPECIFICATION FairSpec
CONSTANTS
  o1 = o1
  o2 = o2
  c1 = c1
  Opens = {o1, o2}
  Closes = {c1}
  None = None
  MaxExits = 2
INVARIANTS SlotsAreCurrent OpenTabIsServed
PROPERTIES DeathIsNoticed
\* All calls may have been answered.
CHECK_DEADLOCK FALSE
