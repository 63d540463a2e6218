CONSTANTS r1 = r1
          r2 = r2
          r3 = r3
          Routers = {r1, r2}
          Intfs <- PairIntfs
          DynGroup = {r1, r2}
          NULL = NULL
          MaxEvents = 1
SYMMETRY PairSymmetry
SPECIFICATION Spec
INVARIANTS TypeOK RefCountSound OwnSeqSound DemandEnds Converged
CHECK_DEADLOCK FALSE
