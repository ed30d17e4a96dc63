\* Mutual exclusion and progress of the hardware spinlock gate across processes and threads.
CONSTANTS
  Procs <- MC_Procs
  Threads <- MC_Threads
  ProcOf <- MC_ProcOf
  Locks <- MC_Locks
  MaxDepth <- MC_MaxDepth
  MaxStarts <- MC_MaxStarts
  CanFail = TRUE
  NoThread = NoThread

SPECIFICATION Spec

INVARIANT TypeOK
INVARIANT MutualExclusion
PROPERTY DeadlockFreedom
PROPERTY GateRefinesSpinLock

\* Each process uses the gate between a bounded number of starts; after its
\* last stop nothing more happens.
CHECK_DEADLOCK FALSE
