SPECIFICATION LibSpec
SYMMETRY Symmetry
CONSTANTS
  Elems = {e1, e2}
  WheelSize = 2
  Intervals = {1, 3}
  MaxCycle <- CycleBound
  MaxJobs = 1
  Nobody = Nobody
  Modes = {TRUE, FALSE}
INVARIANTS TypeOK WheelSound HeapSound TreeSound ListsSound SpfSound TedSound ContextSound
PROPERTIES ImplementsService
\* The clock of the wheel stops, and the other subjects have bounds.
CHECK_DEADLOCK FALSE
