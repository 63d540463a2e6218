CONSTANTS r1 = r1
          r2 = r2
          r3 = r3
          Routers = {r1, r2, r3}
          Intfs <- LineIntfs
          DynGroup = {r1}
          NULL = NULL
          MaxEvents = 0
SPECIFICATION Spec
INVARIANTS BootSync
CHECK_DEADLOCK FALSE
