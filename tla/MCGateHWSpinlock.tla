------------------------- MODULE MCGateHWSpinlock -------------------------
(***************************************************************************)
(* Two processes on two locks: process P1 has two threads sharing its     *)
(* objects and local gate, P2 one thread.  Nesting goes two deep, which   *)
(* is where leave's nested test decides whether the register is freed.    *)
(***************************************************************************)
EXTENDS GateHWSpinlock

MC_Procs    == {"P1", "P2"}
MC_Threads  == {"t1", "t2", "t3"}
MC_ProcOf   == [t \in MC_Threads |-> IF t = "t3" THEN "P2" ELSE "P1"]
MC_Locks    == {0, 1}
MC_MaxDepth == 2

(* Two starts per process: a failed start and its retry, or a stop and a   *)
(* restart with objects created again.                                     *)
MC_MaxStarts == 2
=============================================================================
