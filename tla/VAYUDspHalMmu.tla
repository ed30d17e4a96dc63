--------------------------- MODULE VAYUDspHalMmu ---------------------------
(***************************************************************************)
(* The DSP MMU set-up of the QNX host driver                               *)
(* (family/vayu/vayudsp/VAYUDspHalMmu.c): _VAYUDSP_halMmuEnable installs   *)
(* the MMU fault handlers and then _VAYUDSP_halMmuAddStaticEntries adds    *)
(* each entry of the memory table with _VAYUDSP_halMmuAddEntry.            *)
(*                                                                         *)
(* As built, adding an entry programs nothing: _VAYUDSP_halMmuAddEntry     *)
(* cuts the entry into pages and hands each to _VAYUDSP_halMmuPteSet,      *)
(* whose VAYUDSP_InternalMMU_PteSet has its body under MMUTEST, which is   *)
(* never defined, and returns 0.  What is left is the status: the switches *)
(* of _halMmuPteSet on the element size, endianism and mixed size, which   *)
(* AddStaticEntries hard-codes, return PROCESSOR_E_INVALIDARG for a value  *)
(* outside their cases, and whether MMU_RAM_ELSZ_16 is one of the          *)
(* ELEM_SIZE_ cases is decided by headers outside the repository.  The    *)
(* page split is left out: every page carries the entry's attributes, so   *)
(* the first page decides the status, and its sizes are all cases of the   *)
(* size switch.  A memory-table entry is its size in pages.                *)
(*                                                                         *)
(* Around the set-up: VAYUDSP_halMmuCtrl dispatches the ProcMgr commands;  *)
(* enable creates and installs one fault handler per MMU (mmu0, mmu1),     *)
(* disable uninstalls and deletes them; a fault of the running DSP's MMU   *)
(* raises its IRQSTATUS, and the handler's check-and-clear function and    *)
(* the deferred _VAYUDSP_halMmuInt_isr report it to ProcMgr.               *)
(***************************************************************************)
EXTENDS Integers, Sequences

CONSTANTS
  Tables,       \* memory tables ProcMgr can pass: sequences of entry sizes
  IsrCanFail,   \* OsalIsr_create / OsalIsr_install may fail
  PteSetCanFail,\* the hard-coded attributes may miss _halMmuPteSet's cases
  OpenCanFail   \* VAYUDSPPROC_open, called by the isr, may fail

MMUs == {0, 1}       \* mmu0Obj and mmu1Obj of the HAL object

VARIABLES
  memTable,  \* the table passed to _VAYUDSP_halMmuEnable
  pc,        \* "enable", "entries", "done" or "disabled"
  i,         \* the loop index of _VAYUDSP_halMmuAddStaticEntries
  status,    \* "ok" or PROCESSOR_E_FAIL ("E_FAIL")
  isrHandle, \* [MMUs -> {"none", "created", "installed"}]: mmuXObj->isrHandle
  irqStatus, \* [MMUs -> BOOLEAN]: a fault bit set in MMU_IRQSTATUS & MMU_IRQ_MASK
  irqEnable, \* [MMUs -> BOOLEAN]: MMU_IRQENABLE is non-zero
  istPending,\* the check-and-clear function returned TRUE; the isr is due
  procState, \* ProcMgr state the isr sets: "running" or "Mmu_Fault"
  unreported \* the isr ran and VAYUDSPPROC_open failed

setupVars == <<memTable, i>>
faultVars == <<irqStatus, irqEnable, istPending, procState, unreported>>
vars == <<memTable, pc, i, status, isrHandle, faultVars>>

-----------------------------------------------------------------------------
(* _VAYUDSP_halMmuPteSet: the statuses it can return for a page of the     *)
(* entry.  VAYUDSP_InternalMMU_PteSet, called for mmu0 and mmu1, returns 0 *)
(* without writing.                                                        *)
_VAYUDSP_halMmuPteSet ==
  IF PteSetCanFail THEN {"ok", "E_INVALIDARG"} ELSE {"ok"}

(* _VAYUDSP_halMmuAddEntry: the statuses of adding an entry of size > 0.   *)
(* The loop stops at the first page whose _halMmuPteSet fails; all pages   *)
(* share the attributes, so that is the first page, and the                *)
(* VAYUDSPPROC_E_MMUCONFIG branch is never taken for a 4KB-aligned entry.  *)
_VAYUDSP_halMmuAddEntry == _VAYUDSP_halMmuPteSet

-----------------------------------------------------------------------------
(* The outcome of OsalIsr_create (c) and OsalIsr_install (n) per MMU.     *)
Outcomes == IF IsrCanFail THEN [MMUs -> BOOLEAN] ELSE {[m \in MMUs |-> TRUE]}

(* Both handlers are created before either is installed; a NULL handle    *)
(* fails enable with the other one left created.  mmu0 is installed       *)
(* first, and mmu1 only if that succeeded; a failed install leaves the     *)
(* handlers as they are.  Nothing is undone on failure.                    *)
Handles(c, n) ==
  IF \E m \in MMUs : ~c[m]
    THEN [m \in MMUs |-> IF c[m] THEN "created" ELSE "none"]
    ELSE [m \in MMUs |-> IF n[0] /\ (m = 0 \/ n[1]) THEN "installed" ELSE "created"]

(* _VAYUDSP_halMmuEnable up to the entries: the crossbar is set up and the *)
(* two MMU fault handlers created and installed; a failure returns         *)
(* PROCESSOR_E_FAIL before any entry is added.                             *)
_VAYUDSP_halMmuEnable ==
  /\ pc = "enable"
  /\ \E c, n \in Outcomes :
       /\ isrHandle' = Handles(c, n)
       /\ IF \A m \in MMUs : isrHandle'[m] = "installed"
            THEN pc' = "entries" /\ UNCHANGED status
            ELSE pc' = "done" /\ status' = "E_FAIL"
  /\ UNCHANGED <<setupVars, faultVars>>

(* One pass of the loop of _VAYUDSP_halMmuAddStaticEntries: an entry of    *)
(* size 0 is skipped, others are added; a failed add ends the loop with    *)
(* PROCESSOR_E_FAIL.                                                       *)
_VAYUDSP_halMmuAddStaticEntries ==
  /\ pc = "entries"
  /\ i <= Len(memTable)
  /\ IF memTable[i] = 0
       THEN UNCHANGED <<status, pc>>
       ELSE \E r \in _VAYUDSP_halMmuAddEntry :
              IF r = "ok"
                THEN UNCHANGED <<status, pc>>
                ELSE status' = "E_FAIL" /\ pc' = "done"
  /\ i' = i + 1
  /\ UNCHANGED <<memTable, isrHandle, faultVars>>

StaticEntriesDone ==
  /\ pc = "entries"
  /\ i > Len(memTable)
  /\ pc' = "done"
  /\ UNCHANGED <<setupVars, status, isrHandle, faultVars>>

(* _VAYUDSP_halMmuDisable, once enable has returned: both handlers are     *)
(* uninstalled and deleted, whatever enable left behind.                   *)
_VAYUDSP_halMmuDisable ==
  /\ pc = "done"
  /\ pc' = "disabled"
  /\ isrHandle' = [m \in MMUs |-> "none"]
  /\ UNCHANGED <<setupVars, status, faultVars>>

(* VAYUDSP_halMmuCtrl: Enable and Disable call the functions above; the    *)
(* AddEntry and DeleteEntry cases are empty and the default case only      *)
(* returns PROCESSOR_E_INVALIDARG, so neither changes state.               *)
VAYUDSP_halMmuCtrl(cmd) ==
  CASE cmd = "Enable"  -> _VAYUDSP_halMmuEnable
    [] cmd = "Disable" -> _VAYUDSP_halMmuDisable
    [] OTHER           -> UNCHANGED vars

(* The DSP, once loaded and running, takes an MMU fault: the MMU sets a    *)
(* bit of MMU_IRQSTATUS, which raises its interrupt while enabled.         *)
DspMmuFault(m) ==
  /\ pc = "done" /\ status = "ok"
  /\ irqEnable[m] /\ ~irqStatus[m]
  /\ irqStatus' = [irqStatus EXCEPT ![m] = TRUE]
  /\ UNCHANGED <<setupVars, pc, status, isrHandle, irqEnable, istPending,
                 procState, unreported>>

(* Fault variant: only mmu0's status is examined.                          *)
CheckAndClearMmu0Only(l) ==
  /\ isrHandle[l] = "installed" /\ irqStatus[l] /\ irqEnable[l]
  /\ IF irqStatus[0]
       THEN /\ irqEnable' = [irqEnable EXCEPT ![0] = FALSE]
            /\ irqStatus' = [irqStatus EXCEPT ![0] = FALSE]
            /\ istPending' = TRUE
       ELSE UNCHANGED <<irqEnable, irqStatus, istPending>>
  /\ UNCHANGED <<setupVars, pc, status, isrHandle, procState, unreported>>

(* _VAYUDSP_halMmuCheckAndClearFunc, run by the handler of MMU l's line    *)
(* while it is asserted: mmu0's status is read first and mmu1's only if it *)
(* is clear; the MMU found has its interrupt disabled and its status       *)
(* cleared, and TRUE schedules the isr.                                    *)
_VAYUDSP_halMmuCheckAndClearFunc(l) ==
  /\ isrHandle[l] = "installed" /\ irqStatus[l] /\ irqEnable[l]
  /\ LET m == IF irqStatus[0] THEN 0 ELSE 1 IN
       /\ irqEnable' = [irqEnable EXCEPT ![m] = FALSE]
       /\ irqStatus' = [irqStatus EXCEPT ![m] = FALSE]
  /\ istPending' = TRUE
  /\ UNCHANGED <<setupVars, pc, status, isrHandle, procState, unreported>>

(* The outcomes of VAYUDSPPROC_open, which is not in the repository.       *)
OpenOutcomes == IF OpenCanFail THEN BOOLEAN ELSE {TRUE}

(* _VAYUDSP_halMmuInt_isr: if VAYUDSPPROC_open succeeds,                   *)
(* Processor_setState(..., ProcMgr_State_Mmu_Fault) and close; otherwise   *)
(* nothing, and TRUE is returned either way.                               *)
_VAYUDSP_halMmuInt_isr ==
  /\ istPending
  /\ istPending' = FALSE
  /\ \E opened \in OpenOutcomes :
       IF opened
         THEN procState' = "Mmu_Fault" /\ UNCHANGED unreported
         ELSE unreported' = TRUE /\ UNCHANGED procState
  /\ UNCHANGED <<setupVars, pc, status, isrHandle, irqStatus, irqEnable>>

Init ==
  /\ memTable \in Tables
  /\ pc = "enable"
  /\ i = 1
  /\ status = "ok"
  /\ isrHandle = [m \in MMUs |-> "none"]
  /\ irqStatus = [m \in MMUs |-> FALSE]
  /\ irqEnable = [m \in MMUs |-> TRUE]
  /\ istPending = FALSE
  /\ procState = "running"
  /\ unreported = FALSE

Next ==
  \/ VAYUDSP_halMmuCtrl("Enable")
  \/ _VAYUDSP_halMmuAddStaticEntries
  \/ StaticEntriesDone
  \/ VAYUDSP_halMmuCtrl("Disable")
  \/ \E m \in MMUs : DspMmuFault(m) \/ _VAYUDSP_halMmuCheckAndClearFunc(m)
  \/ _VAYUDSP_halMmuInt_isr

(* An asserted interrupt line is taken and a scheduled isr runs; faults   *)
(* and the ProcMgr commands are the environment's choice.                  *)
Fairness ==
  /\ \A m \in MMUs : WF_vars(_VAYUDSP_halMmuCheckAndClearFunc(m))
  /\ WF_vars(_VAYUDSP_halMmuInt_isr)

Spec == Init /\ [][Next]_vars /\ Fairness

-----------------------------------------------------------------------------
(* Every fault of either MMU of the running DSP that raises its interrupt *)
(* while a handler is installed is reported: ProcMgr sees the processor    *)
(* in Mmu_Fault, unless the MMU is disabled first or the isr could not     *)
(* open the processor object, in which case it drops the report.  Both     *)
(* handlers share one check-and-clear function that looks at mmu0 before   *)
(* mmu1, and a handled fault turns its MMU's interrupt off.                *)
FaultReported ==
  \A m \in MMUs :
    (irqStatus[m] /\ irqEnable[m] /\ isrHandle[m] = "installed")
      ~> (procState = "Mmu_Fault" \/ pc = "disabled" \/ unreported)

=============================================================================
