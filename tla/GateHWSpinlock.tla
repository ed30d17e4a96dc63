-------------------------- MODULE GateHWSpinlock --------------------------
(***************************************************************************)
(* The QNX user-space hardware spinlock gate (api/gates/GateHWSpinlock.c). *)
(*                                                                         *)
(* A lock register reads 0 when it was free, and the read takes it; it     *)
(* reads non-zero while taken; writing 0 frees it.  Each process (or core) *)
(* has one GateHWSpinlock object per lock, whose nested count is shared by *)
(* the process's threads, and one local gate (Mod->gmHandle, a recursive   *)
(* GateMutex) shared by all its objects.  GateHWSpinlock_enter returns     *)
(* holding the local gate; GateHWSpinlock_leave gives it back.  While the  *)
(* lock register reads taken, enter undoes its nested increment and        *)
(* leaves and re-enters the local gate between two reads.                  *)
(*                                                                         *)
(* GateHWSpinlock_start maps the lock registers and creates the local      *)
(* gate, _stop deletes and unmaps them; _create takes the local gate that  *)
(* is current at that moment into the new object.  Their callers are not   *)
(* in the repository: a process starts the module, creates objects only    *)
(* after a start that succeeded, deletes them when no thread uses them,    *)
(* and stops the module once its objects are deleted.  These orders are    *)
(* assumptions about the callers; stop does not clear Mod->vAddr, so a     *)
(* caller that stops again after the E_FAIL of start would unmap twice,    *)
(* and one that stops before deleting leaves objects with a deleted gate.  *)
(***************************************************************************)
EXTENDS Integers, FiniteSets

CONSTANTS
  Procs,      \* processes or cores using the locks
  Threads,    \* threads
  ProcOf,     \* [Threads -> Procs]
  Locks,      \* lock numbers (obj->lockNum)
  MaxDepth,   \* bound: how deep a thread nests enter calls on one lock
  MaxStarts,  \* bound: GateHWSpinlock_start calls per process
  CanFail,    \* mmap and GateMutex_create may fail
  NoThread    \* a model value: the local gate is free

ASSUME /\ ProcOf \in [Threads -> Procs]
       /\ MaxDepth \in Nat \ {0} /\ MaxStarts \in Nat \ {0}
       /\ CanFail \in BOOLEAN
       /\ NoThread \notin Threads

VARIABLES
  taken,      \* [Locks -> BOOLEAN]: the lock register reads non-zero
  owner,      \* [Procs -> Threads \cup {NoThread}]: local gate holder
  count,      \* [Procs -> Nat]: its recursion count
  nested,     \* nested[p][l]: obj->nested of p's object for lock l
  pc,         \* [Threads -> {"idle", "spin", "reenter", "cs"}]
  lock,       \* the lock a thread is entering or holding
  depth,      \* enter calls of the thread that have returned and not left
  started,    \* [Procs -> BOOLEAN]: the last start returned success, no stop since
  starts,     \* [Procs -> Nat]: start calls made
  gmHandle,   \* Mod->gmHandle: NULL, or the GateMutex made by the n-th start
  mapped,     \* the lock registers are mapped at Mod->vAddr
  objGate     \* objGate[p][l]: NoObj, or obj->localGate of p's object for l

gateVars == <<taken, owner, count, nested, pc, lock, depth>>
modVars  == <<started, starts, gmHandle, mapped, objGate>>
vars     == <<gateVars, modVars>>

NULL  == 0
NoObj == -1
Handles == 0 .. MaxStarts

-----------------------------------------------------------------------------
(* IGateProvider_enter / _leave on the process's recursive local gate.     *)
LocalFree(t)    == owner[ProcOf[t]] \in {NoThread, t}
LocalEnter(t)   == /\ owner' = [owner EXCEPT ![ProcOf[t]] = t]
                   /\ count' = [count EXCEPT ![ProcOf[t]] = @ + 1]
LocalLeave(t)   == /\ count' = [count EXCEPT ![ProcOf[t]] = @ - 1]
                   /\ owner' = [owner EXCEPT ![ProcOf[t]] =
                                  IF count[ProcOf[t]] = 1 THEN NoThread ELSE t]

(* Fault variant: the nesting test is off by one (nested > 0), so a first *)
(* entry returns without reading the lock register.                        *)
EnterNestedOffByOne(t) ==
  LET p == ProcOf[t] IN
  /\ LocalFree(t)
  /\ \/ /\ pc[t] = "idle"
        /\ \E l \in Locks : objGate[p][l] # NoObj /\ lock' = [lock EXCEPT ![t] = l]
     \/ pc[t] = "cs" /\ depth[t] < MaxDepth /\ UNCHANGED lock
  /\ LocalEnter(t)
  /\ LET l == lock'[t] IN
       /\ nested' = [nested EXCEPT ![p][l] = @ + 1]
       /\ IF nested[p][l] + 1 > 0
            THEN pc' = [pc EXCEPT ![t] = "cs"] /\ depth' = [depth EXCEPT ![t] = @ + 1]
            ELSE pc' = [pc EXCEPT ![t] = "spin"] /\ UNCHANGED depth
  /\ UNCHANGED taken

(* GateHWSpinlock_enter up to the spin loop: enter the local gate and      *)
(* increment nested; a nested entry (nested > 1) returns at once.  A       *)
(* thread enters a lock it does not hold, or re-enters the one it holds.   *)
GateHWSpinlock_enter(t) ==
  LET p == ProcOf[t] IN
  /\ LocalFree(t)
  /\ \/ /\ pc[t] = "idle"
        /\ \E l \in Locks : objGate[p][l] # NoObj /\ lock' = [lock EXCEPT ![t] = l]
     \/ pc[t] = "cs" /\ depth[t] < MaxDepth /\ UNCHANGED lock
  /\ LocalEnter(t)
  /\ LET l == lock'[t] IN
       /\ nested' = [nested EXCEPT ![p][l] = @ + 1]
       /\ IF nested[p][l] + 1 > 1
            THEN pc' = [pc EXCEPT ![t] = "cs"] /\ depth' = [depth EXCEPT ![t] = @ + 1]
            ELSE pc' = [pc EXCEPT ![t] = "spin"] /\ UNCHANGED depth
  /\ UNCHANGED taken

(* Fault variant: a taken register is re-read without leaving the local   *)
(* gate and without undoing the nested increment.                          *)
SpinHolding(t) ==
  LET p == ProcOf[t]
      l == lock[t]
  IN
  /\ pc[t] = "spin"
  /\ IF ~taken[l]
       THEN /\ taken' = [taken EXCEPT ![l] = TRUE]
            /\ pc' = [pc EXCEPT ![t] = "cs"]
            /\ depth' = [depth EXCEPT ![t] = @ + 1]
            /\ UNCHANGED <<nested, owner, count>>
       ELSE /\ nested' = [nested EXCEPT ![p][l] = @ + 1]
            /\ UNCHANGED <<taken, pc, depth, owner, count>>
  /\ UNCHANGED lock

(* One read of the lock register: 0 takes the lock and enter returns;      *)
(* otherwise nested--, leave the local gate, and re-enter it (Reenter).    *)
Spin(t) ==
  LET p == ProcOf[t]
      l == lock[t]
  IN
  /\ pc[t] = "spin"
  /\ IF ~taken[l]
       THEN /\ taken' = [taken EXCEPT ![l] = TRUE]
            /\ pc' = [pc EXCEPT ![t] = "cs"]
            /\ depth' = [depth EXCEPT ![t] = @ + 1]
            /\ UNCHANGED <<nested, owner, count>>
       ELSE /\ nested' = [nested EXCEPT ![p][l] = @ - 1]
            /\ LocalLeave(t)
            /\ pc' = [pc EXCEPT ![t] = "reenter"]
            /\ UNCHANGED <<taken, depth>>
  /\ UNCHANGED lock

(* key = IGateProvider_enter(obj->localGate); obj->nested++ (re-nest).     *)
Reenter(t) ==
  /\ pc[t] = "reenter"
  /\ LocalFree(t)
  /\ LocalEnter(t)
  /\ nested' = [nested EXCEPT ![ProcOf[t]][lock[t]] = @ + 1]
  /\ pc' = [pc EXCEPT ![t] = "spin"]
  /\ UNCHANGED <<taken, lock, depth>>

(* Fault variants of leave: free the register on every leave, or never.   *)
LeaveAlwaysFree(t) ==
  LET p == ProcOf[t]
      l == lock[t]
  IN
  /\ pc[t] = "cs"
  /\ nested' = [nested EXCEPT ![p][l] = @ - 1]
  /\ taken' = [taken EXCEPT ![l] = FALSE]
  /\ LocalLeave(t)
  /\ depth' = [depth EXCEPT ![t] = @ - 1]
  /\ pc' = [pc EXCEPT ![t] = IF depth[t] = 1 THEN "idle" ELSE "cs"]
  /\ UNCHANGED lock

LeaveNeverFree(t) ==
  LET p == ProcOf[t]
      l == lock[t]
  IN
  /\ pc[t] = "cs"
  /\ nested' = [nested EXCEPT ![p][l] = @ - 1]
  /\ LocalLeave(t)
  /\ depth' = [depth EXCEPT ![t] = @ - 1]
  /\ pc' = [pc EXCEPT ![t] = IF depth[t] = 1 THEN "idle" ELSE "cs"]
  /\ UNCHANGED <<taken, lock>>

(* GateHWSpinlock_leave: nested--; at zero write 0 to the lock register;   *)
(* leave the local gate.                                                   *)
GateHWSpinlock_leave(t) ==
  LET p == ProcOf[t]
      l == lock[t]
  IN
  /\ pc[t] = "cs"
  /\ nested' = [nested EXCEPT ![p][l] = @ - 1]
  /\ IF nested[p][l] = 1
       THEN taken' = [taken EXCEPT ![l] = FALSE]
       ELSE UNCHANGED taken
  /\ LocalLeave(t)
  /\ depth' = [depth EXCEPT ![t] = @ - 1]
  /\ pc' = [pc EXCEPT ![t] = IF depth[t] = 1 THEN "idle" ELSE "cs"]
  /\ UNCHANGED lock

-----------------------------------------------------------------------------
(* How far GateHWSpinlock_start gets: the mmap, then GateMutex_create.     *)
StartOutcomes == IF CanFail THEN {"ok", "mmapFailed", "mutexFailed"} ELSE {"ok"}

(* GateHWSpinlock_start: mmap the lock registers (MAP_FAILED returns       *)
(* E_OSFAILURE with nothing changed), then GateMutex_create; a NULL gate   *)
(* returns E_FAIL after GateHWSpinlock_stop, which skips the NULL gate and *)
(* unmaps the registers.  The caller sees the status.                      *)
GateHWSpinlock_start(p) ==
  /\ ~started[p]
  /\ starts[p] < MaxStarts
  /\ starts' = [starts EXCEPT ![p] = @ + 1]
  /\ \E r \in StartOutcomes :
       CASE r = "ok" ->
              /\ mapped' = [mapped EXCEPT ![p] = TRUE]
              /\ gmHandle' = [gmHandle EXCEPT ![p] = starts[p] + 1]
              /\ started' = [started EXCEPT ![p] = TRUE]
         [] r = "mmapFailed" -> UNCHANGED <<mapped, gmHandle, started>>
         [] r = "mutexFailed" ->
              /\ mapped' = [mapped EXCEPT ![p] = FALSE]
              /\ gmHandle' = [gmHandle EXCEPT ![p] = NULL]
              /\ UNCHANGED started
  /\ UNCHANGED <<gateVars, objGate>>

(* GateHWSpinlock_stop: GateMutex_delete, which sets the handle to NULL,   *)
(* and munmap of the registers.                                            *)
GateHWSpinlock_stop(p) ==
  /\ started[p]
  /\ \A l \in Locks : objGate[p][l] = NoObj
  /\ gmHandle' = [gmHandle EXCEPT ![p] = NULL]
  /\ mapped' = [mapped EXCEPT ![p] = FALSE]
  /\ started' = [started EXCEPT ![p] = FALSE]
  /\ UNCHANGED <<gateVars, starts, objGate>>

(* GateHWSpinlock_create: calloc the object, localGate = Mod->gmHandle,    *)
(* lockNum = resourceId, nested = 0 (a failed calloc changes nothing).     *)
GateHWSpinlock_create(p, l) ==
  /\ started[p]
  /\ objGate[p][l] = NoObj
  /\ objGate' = [objGate EXCEPT ![p][l] = gmHandle[p]]
  /\ nested' = [nested EXCEPT ![p][l] = 0]
  /\ UNCHANGED <<taken, owner, count, pc, lock, depth, started, starts,
                 gmHandle, mapped>>

(* GateHWSpinlock_delete: free the object and NULL the caller's handle,    *)
(* called when none of p's threads is inside or holding it.                *)
GateHWSpinlock_delete(p, l) ==
  /\ objGate[p][l] # NoObj
  /\ \A t \in Threads : ProcOf[t] = p => (pc[t] = "idle" \/ lock[t] # l)
  /\ objGate' = [objGate EXCEPT ![p][l] = NoObj]
  /\ UNCHANGED <<gateVars, started, starts, gmHandle, mapped>>

-----------------------------------------------------------------------------
(* Nothing is mapped or created before the first start; the registers      *)
(* start free.                                                             *)
Init ==
  /\ taken = [l \in Locks |-> FALSE]
  /\ owner = [p \in Procs |-> NoThread]
  /\ count = [p \in Procs |-> 0]
  /\ nested = [p \in Procs |-> [l \in Locks |-> 0]]
  /\ pc = [t \in Threads |-> "idle"]
  /\ lock = [t \in Threads |-> CHOOSE l \in Locks : TRUE]
  /\ depth = [t \in Threads |-> 0]
  /\ started = [p \in Procs |-> FALSE]
  /\ starts = [p \in Procs |-> 0]
  /\ gmHandle = [p \in Procs |-> NULL]
  /\ mapped = [p \in Procs |-> FALSE]
  /\ objGate = [p \in Procs |-> [l \in Locks |-> NoObj]]

(* Every gate step leaves the module state alone.                         *)
Gating(A) == A /\ UNCHANGED modVars

Next ==
  \/ \E p \in Procs : GateHWSpinlock_start(p) \/ GateHWSpinlock_stop(p)
  \/ \E p \in Procs, l \in Locks :
       GateHWSpinlock_create(p, l) \/ GateHWSpinlock_delete(p, l)
  \/ \E t \in Threads :
       Gating(\/ GateHWSpinlock_enter(t) \/ Spin(t) \/ Reenter(t)
              \/ GateHWSpinlock_leave(t))

(* A thread inside enter keeps running, and a caller leaves what it        *)
(* entered; starting an enter is the caller's choice.                      *)
Fairness ==
  \A t \in Threads : /\ WF_vars(Gating(Spin(t)))
                     /\ WF_vars(Gating(Reenter(t)))
                     /\ WF_vars(Gating(GateHWSpinlock_leave(t)))

Spec == Init /\ [][Next]_vars /\ Fairness

-----------------------------------------------------------------------------
TypeOK ==
  /\ taken \in [Locks -> BOOLEAN]
  /\ owner \in [Procs -> Threads \cup {NoThread}]
  /\ nested \in [Procs -> [Locks -> 0 .. MaxDepth]]
  /\ pc \in [Threads -> {"idle", "spin", "reenter", "cs"}]
  /\ lock \in [Threads -> Locks] /\ depth \in [Threads -> 0 .. MaxDepth]
  /\ started \in [Procs -> BOOLEAN] /\ starts \in [Procs -> 0 .. MaxStarts]
  /\ gmHandle \in [Procs -> Handles] /\ mapped \in [Procs -> BOOLEAN]
  /\ objGate \in [Procs -> [Locks -> Handles \cup {NoObj}]]

(* At most one thread, of any process, is between a returned               *)
(* GateHWSpinlock_enter and its matching leave for a lock, however enter   *)
(* calls nest and however threads of one process interleave in the spin    *)
(* loop, where nested is undone and the local gate let go.                 *)
MutualExclusion ==
  \A l \in Locks : Cardinality({t \in Threads : pc[t] = "cs" /\ lock[t] = l}) <= 1

(* Whenever a thread is inside enter, some thread eventually holds a lock: *)
(* threads of one process spinning in turn never lock each other out.      *)
InCS == {t \in Threads : pc[t] = "cs"}
DeadlockFreedom ==
  (\E t \in Threads : pc[t] \in {"spin", "reenter"}) ~> InCS # {}

(* The gate implements SpinLock: the thread between a returned first enter *)
(* and its last leave is the lock's holder, and the lock register reads    *)
(* taken exactly while there is one.  Nested enters and leaves, the spin   *)
(* loop's undo and re-enter of the shared nested count, and the module's   *)
(* start/stop and create/delete are steps that leave the lock unchanged;   *)
(* the register is taken in the step that makes a thread the holder and   *)
(* freed in the step that ends its hold.                                   *)
Holder(l) ==
  IF \E t \in Threads : pc[t] = "cs" /\ lock[t] = l
    THEN CHOOSE t \in Threads : pc[t] = "cs" /\ lock[t] = l
    ELSE NoThread
Abstract == INSTANCE SpinLock WITH holder <- [l \in Locks |-> Holder(l)],
                                   locked <- taken
GateRefinesSpinLock == Abstract!Spec

=============================================================================
