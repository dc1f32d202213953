SPECIFICATION Spec
CONSTANTS
  Threads = {t1, t2}
  Levels = {1, 2}
  Names = {n1, n2}
  MonthDays = 2
  MaxDay = 2
  None = None
  MaxEntries = 3
SYMMETRY Symmetry
INVARIANTS
  OneFileOpen
  
  LostIfNotOpened
 
