------------------------------ MODULE SpinLock ------------------------------
(***************************************************************************)
(* What a hardware spinlock gate promises its callers: each lock is free   *)
(* or held by one thread, and the lock register reads taken exactly while  *)
(* it is held.  A thread acquires a free lock and only its holder releases *)
(* it.  Nested entries and the local gate are invisible at this level.     *)
(***************************************************************************)
CONSTANTS
  Threads,   \* the threads that use the locks
  Locks,     \* lock numbers
  NoThread   \* the lock is free

VARIABLES
  holder,    \* [Locks -> Threads \cup {NoThread}]
  locked     \* [Locks -> BOOLEAN]: the lock register reads taken

vars == <<holder, locked>>

Init ==
  /\ holder = [l \in Locks |-> NoThread]
  /\ locked = [l \in Locks |-> FALSE]

Acquire(t, l) ==
  /\ holder[l] = NoThread
  /\ holder' = [holder EXCEPT ![l] = t]
  /\ locked' = [locked EXCEPT ![l] = TRUE]

Release(t, l) ==
  /\ holder[l] = t
  /\ holder' = [holder EXCEPT ![l] = NoThread]
  /\ locked' = [locked EXCEPT ![l] = FALSE]

Next == \E t \in Threads, l \in Locks : Acquire(t, l) \/ Release(t, l)

Spec == Init /\ [][Next]_vars

=============================================================================
