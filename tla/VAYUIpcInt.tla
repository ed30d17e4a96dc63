---------------------------- MODULE VAYUIpcInt ----------------------------
(***************************************************************************)
(* The QNX host's mailbox interrupt layer for the remote cores of a vayu   *)
(* SoC (ipc/hlos/knl/arch/vayu/VAYUIpcInt.c).                              *)
(*                                                                         *)
(* Client threads register and unregister a callback per remote processor  *)
(* (VAYUIpcInt_interruptRegister / _interruptUnregister).  Registration is *)
(* refcounted per processor (isrObjects[p].isrRefCount) and, separately,   *)
(* per interrupt line (an element of the isrHandles list, holding the      *)
(* installed OsalIsr and its own refCount).  Remote cores write words into *)
(* their sub-mailbox FIFO; while a sub-channel with its IRQ enabled holds  *)
(* a word the line is asserted and the installed ISR runs the fast phase   *)
(* _VAYUIpcInt_checkAndClearFunc, which pops one word of every non-empty   *)
(* sub-channel into that processor's isrList, taking a message element    *)
(* from a small cache (get_msg) or the heap.  The deferred phase           *)
(* _VAYUIpcInt_isr takes at most one element per processor per pass,     *)
(* calls the registered callback and gives the element back (put_msg).    *)
(*                                                                         *)
(* Message words are sequence numbers 1, 2, ... per processor, so that     *)
(* order and loss are observable.                                          *)
(***************************************************************************)
EXTENDS Integers, Sequences, FiniteSets, SequencesExt

CONSTANTS
  Procs,          \* remote processors served by this host
  LineOf,         \* [Procs -> interrupt ids]: the line p's sub-mailbox raises
  ClearOrder,     \* the order checkAndClear visits the sub-channels
  IsrOrder,       \* the order _VAYUIpcInt_isr visits the processors (procId)
  CACHE_NUM,      \* capacity of the message-element cache (20 in the code)
  MBOX_DEPTH,     \* words a sub-mailbox FIFO holds (4 on vayu)
  MaxMsgs,        \* bound: [Procs -> Nat], words each remote core sends
  MaxRegs,        \* bound: [Procs -> Nat], register calls of each processor
  MaxSetups,      \* bound: VAYUIpcInt_setup calls
  CanFail,        \* Memory_map, List_create, OsalIsr_create/_install and
                  \* the element Memory_alloc may fail
  MsgAllocCanFail, \* get_msg's Memory_alloc may return NULL
  SerialClients   \* callers never run two register/unregister calls at once

Lines == {LineOf[p] : p \in Procs}
Elems == 1 .. Cardinality(Procs)     \* isrHandles elements (at most one per
                                     \* processor can ever be allocated)
NULL  == 0

(* The register banks VAYUIpcInt_setup maps, in the order it maps them.    *)
BankOrder == <<"AINTC", "MAILBOX_5", "MAILBOX_6", "CTRL_MODULE">>
Banks     == ToSet(BankOrder)

ASSUME /\ LineOf \in [Procs -> Nat]
       /\ ToSet(ClearOrder) = Procs /\ ToSet(IsrOrder) = Procs
       /\ {CACHE_NUM, MBOX_DEPTH, MaxSetups} \subseteq Nat \ {0}
       /\ {MaxMsgs, MaxRegs} \subseteq [Procs -> Nat \ {0}]
       /\ {CanFail, MsgAllocCanFail, SerialClients} \subseteq BOOLEAN

VARIABLES
  procRef,       \* isrObjects[p].isrRefCount (without its magic stamp)
  fxn,           \* isrObjects[p].fxn / fxnArgs are set
  irqEnabled,    \* the IRQENABLE bit of p's sub-channel for the host user
  isrHandle,     \* isrObjects[p].isrHandle: an element, or NULL
  hList,         \* the isrHandles list, in list order
  hAlloc,        \* isrHandles elements currently allocated
  hLine,         \* elem->intId
  hRef,          \* elem->refCount
  installed,     \* [Lines -> Nat]: OsalIsr handlers installed on each line
  clientPc,      \* per processor: the client's register/unregister call
  clientElem,    \* the element a register call found in isrHandles
  clientRegs,    \* registrations the client holds (calls that succeeded)
  regCalls,      \* register calls made (bounded by MaxRegs)
  fault,         \* an element that is NULL or freed was dereferenced
  mbox,          \* [Procs -> Seq]: p -> host sub-mailbox FIFO
  sent,          \* words each remote core has written
  isrLists,      \* isrLists[p]: elements queued by the fast phase
  num_msg,       \* num_msg: elements in msg_cache
  liveMsgs,      \* message elements allocated and not freed
  istPending,    \* deferred runs requested by the fast phase, not yet begun
  istPc,         \* 0 idle, else the index into IsrOrder being served
  istCall,       \* the deferred phase holds an element and is calling fxn
  istMsg,        \* the word of that element
  dispatched,    \* words passed to p's callback, in order
  handled,       \* words taken off p's FIFO for good (called, dropped or lost)
  staleCall,     \* a callback was entered after its processor was unregistered
  sysUp,         \* the driver called setup and not yet destroy
  setups,        \* setup calls made (bounded by MaxSetups)
  isSetup,       \* ArchIpcInt_object.isSetup
  mapped,        \* banks whose base address is set (Memory_map succeeded)
  listExists,    \* isrLists[p] # NULL
  handlesList    \* isrHandles # NULL

regVars  == <<procRef, fxn, irqEnabled, isrHandle, hList, hAlloc, hLine, hRef,
              installed>>
cliVars  == <<clientPc, clientElem, clientRegs, regCalls, fault>>
msgVars  == <<mbox, sent, isrLists, num_msg, liveMsgs>>
istVars  == <<istPending, istPc, istCall, istMsg, dispatched, handled, staleCall>>
lifeVars == <<sysUp, setups, isSetup, mapped, listExists, handlesList>>
vars == <<regVars, cliVars, msgVars, istVars, lifeVars>>

-----------------------------------------------------------------------------
(***************************************************************************)
(* Client calls.  Each call is split at the points where another thread's  *)
(* call can see its intermediate state: the per-processor refcount is an  *)
(* atomic, the isrHandles lookup and the later List_put are separate       *)
(* steps, and an element found by the lookup is incremented afterwards.    *)
(***************************************************************************)

(* A call may start once the module is set up (the API functions only     *)
(* GT_assert isSetup, so the caller checks it), and when the caller allows *)
(* it: with SerialClients no other call is in progress.                    *)
MayCall(p) ==
  /\ isSetup
  /\ clientPc[p] = "idle"
  /\ SerialClients => \A q \in Procs : clientPc[q] = "idle"

(* VAYUIpcInt_interruptEnable / _interruptDisable: set or clear the       *)
(* IRQENABLE bit of p's sub-channel for the host user.                     *)
VAYUIpcInt_interruptEnable(p)  == irqEnabled' = [irqEnabled EXCEPT ![p] = TRUE]
VAYUIpcInt_interruptDisable(p) == irqEnabled' = [irqEnabled EXCEPT ![p] = FALSE]

(* interruptRegister: Atomic_inc_return of the processor's refcount; the   *)
(* first registration stores fxn/fxnArgs/recvIntId and enables the IRQ.    *)
RegisterInc(p) ==
  /\ MayCall(p)
  /\ regCalls[p] < MaxRegs[p]
  /\ regCalls' = [regCalls EXCEPT ![p] = @ + 1]
  /\ procRef' = [procRef EXCEPT ![p] = @ + 1]
  /\ IF procRef[p] = 0
       THEN /\ fxn' = [fxn EXCEPT ![p] = TRUE]
            /\ VAYUIpcInt_interruptEnable(p)
       ELSE UNCHANGED <<fxn, irqEnabled>>
  /\ clientPc' = [clientPc EXCEPT ![p] = "traverse"]
  /\ UNCHANGED <<isrHandle, hList, hAlloc, hLine, hRef, installed, clientElem,
                 clientRegs, fault, msgVars, istVars>>

(* List_traverse of isrHandles for an element with this intId.             *)
RegisterTraverse(p) ==
  /\ clientPc[p] = "traverse"
  /\ LET found == {i \in 1 .. Len(hList) : hLine[hList[i]] = LineOf[p]}
     IN  IF found # {}
           THEN /\ clientElem' = [clientElem EXCEPT ![p] = hList[Min(found)]]
                /\ clientPc' = [clientPc EXCEPT ![p] = "incHandle"]
           ELSE /\ clientPc' = [clientPc EXCEPT ![p] = "install"]
                /\ UNCHANGED clientElem
  /\ UNCHANGED <<regVars, clientRegs, regCalls, fault, msgVars, istVars>>

(* Atomic_inc_return on the element found; status is                      *)
(* VAYUIPCINT_S_ALREADYREGISTERED (a success), so isrHandle = elem.  The   *)
(* element may have been freed by an unregister since the traversal.       *)
RegisterIncHandle(p) ==
  /\ clientPc[p] = "incHandle"
  /\ LET e == clientElem[p] IN
       /\ IF e \in hAlloc
            THEN hRef' = [hRef EXCEPT ![e] = @ + 1] /\ UNCHANGED fault
            ELSE fault' = TRUE /\ UNCHANGED hRef
       /\ isrHandle' = [isrHandle EXCEPT ![p] = e]
  /\ clientRegs' = [clientRegs EXCEPT ![p] = @ + 1]
  /\ clientPc' = [clientPc EXCEPT ![p] = "idle"]
  /\ UNCHANGED <<procRef, fxn, irqEnabled, hList, hAlloc, hLine, installed,
                 clientElem, regCalls, msgVars, istVars>>

(* No element for the line: program the crossbar, OsalIsr_create and      *)
(* _install, Memory_alloc an element with refCount 1 and List_put it; set  *)
(* isrHandle when the status is not negative.  On failure the processor's  *)
(* refcount and IRQ enable stay as RegisterInc left them; an element       *)
(* allocation failure leaves the installed handler behind.                 *)
RegisterInstall(p) ==
  /\ clientPc[p] = "install"
  /\ \/ \E e \in Elems \ hAlloc :
          /\ hAlloc' = hAlloc \cup {e}
          /\ hLine' = [hLine EXCEPT ![e] = LineOf[p]]
          /\ hRef' = [hRef EXCEPT ![e] = 1]
          /\ hList' = Append(hList, e)
          /\ installed' = [installed EXCEPT ![LineOf[p]] = @ + 1]
          /\ isrHandle' = [isrHandle EXCEPT ![p] = e]
          /\ clientRegs' = [clientRegs EXCEPT ![p] = @ + 1]
     \/ /\ CanFail                    \* OsalIsr_create or _install failed
        /\ UNCHANGED <<isrHandle, hList, hAlloc, hLine, hRef, installed,
                       clientRegs>>
     \/ /\ CanFail                    \* Memory_alloc of the element failed
        /\ installed' = [installed EXCEPT ![LineOf[p]] = @ + 1]
        /\ UNCHANGED <<isrHandle, hList, hAlloc, hLine, hRef, clientRegs>>
  /\ clientPc' = [clientPc EXCEPT ![p] = "idle"]
  /\ UNCHANGED <<procRef, fxn, irqEnabled, clientElem, regCalls, fault,
                 msgVars, istVars>>

(* Fault variant: the last unregister clears fxn but leaves the IRQ on.    *)
UnregisterDecKeepIrq(p) ==
  /\ MayCall(p)
  /\ clientRegs[p] > 0
  /\ procRef[p] > 0
  /\ clientRegs' = [clientRegs EXCEPT ![p] = @ - 1]
  /\ procRef' = [procRef EXCEPT ![p] = @ - 1]
  /\ IF procRef[p] = 1 THEN fxn' = [fxn EXCEPT ![p] = FALSE] ELSE UNCHANGED fxn
  /\ clientPc' = [clientPc EXCEPT ![p] = "unregHandle"]
  /\ UNCHANGED <<irqEnabled, isrHandle, hList, hAlloc, hLine, hRef, installed,
                 clientElem, regCalls, fault, msgVars, istVars>>

(* interruptUnregister, first half: a caller unregisters a registration it *)
(* holds.  Atomic_dec_return; at zero, disable the IRQ and clear fxn.      *)
UnregisterDec(p) ==
  /\ MayCall(p)
  /\ clientRegs[p] > 0
  /\ procRef[p] > 0
  /\ clientRegs' = [clientRegs EXCEPT ![p] = @ - 1]
  /\ procRef' = [procRef EXCEPT ![p] = @ - 1]
  /\ IF procRef[p] = 1
       THEN /\ fxn' = [fxn EXCEPT ![p] = FALSE]
            /\ VAYUIpcInt_interruptDisable(p)
       ELSE UNCHANGED <<fxn, irqEnabled>>
  /\ clientPc' = [clientPc EXCEPT ![p] = "unregHandle"]
  /\ UNCHANGED <<isrHandle, hList, hAlloc, hLine, hRef, installed, clientElem,
                 regCalls, fault, msgVars, istVars>>

(* Second half: Atomic_dec_return on *isrObjects[p].isrHandle; at zero,    *)
(* List_remove, OsalIsr_uninstall/_delete and Memory_free the element.     *)
(* isrHandle is left pointing at it.                                       *)
UnregisterHandle(p) ==
  /\ clientPc[p] = "unregHandle"
  /\ LET e == isrHandle[p] IN
       IF e \notin hAlloc
         THEN fault' = TRUE /\ UNCHANGED <<hList, hAlloc, hRef, installed>>
         ELSE /\ hRef' = [hRef EXCEPT ![e] = @ - 1]
              /\ IF hRef[e] = 1
                   THEN /\ hList' = SelectSeq(hList, LAMBDA x : x # e)
                        /\ hAlloc' = hAlloc \ {e}
                        /\ installed' = [installed EXCEPT ![hLine[e]] = @ - 1]
                   ELSE UNCHANGED <<hList, hAlloc, installed>>
              /\ UNCHANGED fault
  /\ clientPc' = [clientPc EXCEPT ![p] = "idle"]
  /\ UNCHANGED <<procRef, fxn, irqEnabled, isrHandle, hLine, clientElem,
                 clientRegs, regCalls, msgVars, istVars>>

-----------------------------------------------------------------------------
(***************************************************************************)
(* Module lifecycle.  VAYUIpcInt_setup and _destroy are called by the      *)
(* driver, "only once" and not concurrently with the API; destroy is       *)
(* called once every processor is unregistered, no handler is installed    *)
(* and the deferred phase is idle.                                         *)
(***************************************************************************)

(* How far setup gets: Memory_map succeeds for the first nm banks, and     *)
(* List_create for the first nl processors.                                *)
MapsDone  == IF CanFail THEN 0 .. Len(BankOrder) ELSE {Len(BankOrder)}
ListsDone == IF CanFail THEN 0 .. Len(IsrOrder) ELSE {Len(IsrOrder)}

(* VAYUIpcInt_setup: the four banks are mapped in nested order, the first  *)
(* failure ending the chain with that base left 0 and the earlier ones     *)
(* mapped.  With all four mapped, the mailboxes 5 and 6 are soft-reset     *)
(* (SYSCONFIG bit 0, spinning until it clears), which empties their FIFOs  *)
(* and clears their IRQ enables.  Then one isrList per processor; a failed *)
(* List_create deletes the earlier ones and leaves the loop, isrHandles is *)
(* created anyway, and isSetup is set only if every step succeeded.  The   *)
(* function returns Void.                                                  *)
VAYUIpcInt_setup ==
  /\ ~sysUp
  /\ setups < MaxSetups
  /\ sysUp' = TRUE
  /\ setups' = setups + 1
  /\ \E nm \in MapsDone, nl \in ListsDone :
       /\ mapped' = {BankOrder[k] : k \in 1 .. nm}
       /\ IF nm < Len(BankOrder)
            THEN UNCHANGED <<isSetup, listExists, handlesList, mbox,
                             irqEnabled, handled>>
            ELSE /\ mbox' = [p \in Procs |-> <<>>]
                 /\ handled' = [p \in Procs |-> handled[p] + Len(mbox[p])]
                 /\ irqEnabled' = [p \in Procs |-> FALSE]
                 /\ listExists' = [p \in Procs |-> nl = Len(IsrOrder)]
                 /\ handlesList' = TRUE
                 /\ isSetup' = (nl = Len(IsrOrder))
  /\ UNCHANGED <<procRef, fxn, isrHandle, hList, hAlloc, hLine, hRef,
                 installed, cliVars, sent, isrLists, num_msg, liveMsgs,
                 istVars>>

(* The caller's precondition for destroy.                                  *)
Quiescent ==
  /\ \A p \in Procs : clientPc[p] = "idle" /\ clientRegs[p] = 0
  /\ \A l \in Lines : installed[l] = 0
  /\ istPending = 0 /\ istPc = 0

(* VAYUIpcInt_destroy.  GT_assert(isSetup) only traces, so destroy runs   *)
(* after a setup that failed as well.  It clears isSetup and List_deletes  *)
(* every non-NULL isrList (the elements still on it are not given back to  *)
(* put_msg).  List_traverse_safe then walks isrHandles to free its         *)
(* elements: after a Memory_map failure setup never created it, and the    *)
(* walk dereferences the NULL handle before any bank is unmapped.          *)
(* Otherwise the list is deleted and every bank whose base is non-zero is  *)
(* unmapped and set to NULL.                                               *)
VAYUIpcInt_destroy ==
  /\ sysUp
  /\ Quiescent
  /\ ~fault
  /\ isSetup' = FALSE
  /\ listExists' = [p \in Procs |-> FALSE]
  /\ isrLists' = [p \in Procs |-> <<>>]
  /\ IF handlesList
       THEN /\ sysUp' = FALSE
            /\ hList' = <<>>
            /\ hAlloc' = {}
            /\ handlesList' = FALSE
            /\ mapped' = {}
            /\ UNCHANGED fault
       ELSE /\ fault' = TRUE
            /\ UNCHANGED <<sysUp, hList, hAlloc, handlesList, mapped>>
  /\ UNCHANGED <<procRef, fxn, irqEnabled, isrHandle, hLine, hRef, installed,
                 clientPc, clientElem, clientRegs, regCalls, mbox, sent,
                 num_msg, liveMsgs, istVars, setups>>
-----------------------------------------------------------------------------
(***************************************************************************)
(* The message path.                                                       *)
(***************************************************************************)

(* A remote core writes its next word into its sub-mailbox FIFO.           *)
RemoteSend(p) ==
  /\ sent[p] < MaxMsgs[p]
  /\ Len(mbox[p]) < MBOX_DEPTH
  /\ mbox' = [mbox EXCEPT ![p] = Append(@, sent[p] + 1)]
  /\ sent' = [sent EXCEPT ![p] = @ + 1]
  /\ UNCHANGED <<regVars, cliVars, isrLists, num_msg, liveMsgs, istVars>>

(* The line is asserted while a sub-channel on it with its IRQ enabled     *)
(* holds a word (MSGSTATUS is level: it re-asserts after a clear while     *)
(* words remain).                                                          *)
Asserted(l) ==
  \E p \in Procs : LineOf[p] = l /\ irqEnabled[p] /\ mbox[p] # <<>>

(* VAYUIpcInt_clearInterrupt: read the MESSAGE register of the           *)
(* sub-channel, popping its FIFO, and clear its IRQSTATUS bit.             *)
VAYUIpcInt_clearInterrupt(st, p) == [st EXCEPT !.mbox[p] = Tail(@)]

(* Fault variant: the element is put at the head of the isrList.          *)
get_msg_AtHead(p, st) ==
  LET w      == Head(st.mbox[p])
      popped == VAYUIpcInt_clearInterrupt(st, p)
  IN  IF st.num > 0
        THEN {[popped EXCEPT !.num = @ - 1, !.lists[p] = <<w>> \o @]}
        ELSE {[popped EXCEPT !.live = @ + 1, !.lists[p] = <<w>> \o @]}
             \cup (IF MsgAllocCanFail THEN {[popped EXCEPT !.handled[p] = @ + 1]}
                   ELSE {})

(* get_msg, under Gate_enterSystem: the head of msg_cache, else           *)
(* Memory_alloc, which may return NULL.  Returns the possible outcomes of  *)
(* popping p's word and queueing it, st being the fast phase's state.      *)
get_msg(p, st) ==
  LET w      == Head(st.mbox[p])
      popped == VAYUIpcInt_clearInterrupt(st, p)
  IN  IF st.num > 0
        THEN {[popped EXCEPT !.num = @ - 1, !.lists[p] = Append(@, w)]}
        ELSE {[popped EXCEPT !.live = @ + 1, !.lists[p] = Append(@, w)]}
             \cup (IF MsgAllocCanFail THEN {[popped EXCEPT !.handled[p] = @ + 1]}
                   ELSE {})

(* _VAYUIpcInt_checkAndClearFunc: for each sub-channel in order whose      *)
(* MSGSTATUS is non-zero, whatever its IRQ enable: VAYUIpcInt_clearInterrupt *)
(* reads the MESSAGE register (pops one word) and clears IRQSTATUS, then   *)
(* get_msg and List_put on the processor's isrList; a NULL element drops   *)
(* the word.                                                               *)
RECURSIVE Drain(_, _)
Drain(order, st) ==
  IF order = <<>> THEN {st}
  ELSE LET p == Head(order) IN
         IF st.mbox[p] = <<>> THEN Drain(Tail(order), st)
         ELSE UNION {Drain(Tail(order), s) : s \in get_msg(p, st)}

(* Fault variant: the fast phase does not claim the interrupt, so no       *)
(* deferred run is scheduled.                                              *)
CheckAndClearUnclaimed(l) ==
  /\ Asserted(l)
  /\ installed[l] > 0
  /\ \E st \in Drain(ClearOrder, [mbox |-> mbox, lists |-> isrLists,
                                   num |-> num_msg, live |-> liveMsgs,
                                   handled |-> handled]) :
       /\ mbox' = st.mbox
       /\ isrLists' = st.lists
       /\ num_msg' = st.num
       /\ liveMsgs' = st.live
       /\ handled' = st.handled
  /\ UNCHANGED <<regVars, cliVars, sent, istPending, istPc, istCall, istMsg,
                 dispatched, staleCall>>

(* The ISR installed on an asserted line runs the fast phase with          *)
(* interrupts masked, then signals the deferred phase.                     *)
_VAYUIpcInt_checkAndClearFunc(l) ==
  /\ Asserted(l)
  /\ installed[l] > 0
  /\ \E st \in Drain(ClearOrder, [mbox |-> mbox, lists |-> isrLists,
                                   num |-> num_msg, live |-> liveMsgs,
                                   handled |-> handled]) :
       /\ mbox' = st.mbox
       /\ isrLists' = st.lists
       /\ num_msg' = st.num
       /\ liveMsgs' = st.live
       /\ handled' = st.handled
  /\ istPending' = istPending + 1
  /\ UNCHANGED <<regVars, cliVars, sent, istPc, istCall, istMsg, dispatched,
                 staleCall>>

(* Fault variant: the cache accepts one element more than CACHE_NUM.       *)
PutMsgNumOffByOne(num) == IF num > CACHE_NUM THEN num ELSE num + 1

(* put_msg, under Gate_enterSystem: free the element when the cache holds  *)
(* CACHE_NUM, otherwise push it on msg_cache.                              *)
PutMsgNum(num)  == IF num >= CACHE_NUM THEN num ELSE num + 1
PutMsgLive(num, live) == IF num >= CACHE_NUM THEN live - 1 ELSE live

(* Fault variant: the pass does not stop after the last processor.        *)
NextIstPcNoWrap == istPc + 1

(* _VAYUIpcInt_isr visits the processors in procId order.                  *)
NextIstPc == IF istPc = Len(IsrOrder) THEN 0 ELSE istPc + 1

(* The deferred phase begins a pass.                                       *)
IstStart ==
  /\ istPc = 0
  /\ istPending > 0
  /\ istPending' = istPending - 1
  /\ istPc' = 1
  /\ UNCHANGED <<regVars, cliVars, msgVars, istCall, istMsg, dispatched,
                 handled, staleCall>>

(* List_get on the processor's isrList; with fxn set the callback is      *)
(* called (IstCall), otherwise the element goes straight back (put_msg).   *)
IstGet ==
  /\ istPc > 0
  /\ ~istCall
  /\ LET p == IsrOrder[istPc] IN
       IF isrLists[p] = <<>>
         THEN /\ istPc' = NextIstPc
              /\ UNCHANGED <<isrLists, num_msg, liveMsgs, istCall, istMsg, handled>>
         ELSE /\ isrLists' = [isrLists EXCEPT ![p] = Tail(@)]
              /\ IF fxn[p]
                   THEN /\ istCall' = TRUE
                        /\ istMsg' = Head(isrLists[p])
                        /\ UNCHANGED <<istPc, num_msg, liveMsgs, handled>>
                   ELSE /\ num_msg' = PutMsgNum(num_msg)
                        /\ liveMsgs' = PutMsgLive(num_msg, liveMsgs)
                        /\ handled' = [handled EXCEPT ![p] = @ + 1]
                        /\ istPc' = NextIstPc
                        /\ UNCHANGED <<istCall, istMsg>>
  /\ UNCHANGED <<regVars, cliVars, mbox, sent, istPending, dispatched, staleCall>>

(* isrObjects[p].fxn(elem->msg, isrObjects[p].fxnArgs), fxn and fxnArgs    *)
(* read again after the NULL check, then put_msg.                          *)
IstCall ==
  /\ istCall
  /\ LET p == IsrOrder[istPc] IN
       /\ IF fxn[p]
            THEN /\ dispatched' = [dispatched EXCEPT ![p] = Append(@, istMsg)]
                 /\ UNCHANGED staleCall
            ELSE staleCall' = TRUE /\ UNCHANGED dispatched
       /\ handled' = [handled EXCEPT ![p] = @ + 1]
  /\ num_msg' = PutMsgNum(num_msg)
  /\ liveMsgs' = PutMsgLive(num_msg, liveMsgs)
  /\ istCall' = FALSE
  /\ istPc' = NextIstPc
  /\ UNCHANGED <<regVars, cliVars, mbox, sent, isrLists, istPending, istMsg>>

-----------------------------------------------------------------------------
Init ==
  /\ procRef = [p \in Procs |-> 0]
  /\ fxn = [p \in Procs |-> FALSE]
  /\ irqEnabled = [p \in Procs |-> FALSE]
  /\ isrHandle = [p \in Procs |-> NULL]
  /\ hList = <<>>
  /\ hAlloc = {}
  /\ hLine = [e \in Elems |-> 0]
  /\ hRef = [e \in Elems |-> 0]
  /\ installed = [l \in Lines |-> 0]
  /\ clientPc = [p \in Procs |-> "idle"]
  /\ clientElem = [p \in Procs |-> NULL]
  /\ clientRegs = [p \in Procs |-> 0]
  /\ regCalls = [p \in Procs |-> 0]
  /\ fault = FALSE
  /\ mbox = [p \in Procs |-> <<>>]
  /\ sent = [p \in Procs |-> 0]
  /\ isrLists = [p \in Procs |-> <<>>]
  /\ num_msg = 0
  /\ liveMsgs = 0
  /\ istPending = 0
  /\ istPc = 0
  /\ istCall = FALSE
  /\ istMsg = 0
  /\ dispatched = [p \in Procs |-> <<>>]
  /\ handled = [p \in Procs |-> 0]
  /\ staleCall = FALSE
  /\ sysUp = FALSE
  /\ setups = 0
  /\ isSetup = FALSE
  /\ mapped = {}
  /\ listExists = [p \in Procs |-> FALSE]
  /\ handlesList = FALSE

ClientNext ==
  \E p \in Procs :
    \/ RegisterInc(p) \/ RegisterTraverse(p) \/ RegisterIncHandle(p)
    \/ RegisterInstall(p) \/ UnregisterDec(p) \/ UnregisterHandle(p)

(* Every step other than setup and destroy leaves the lifecycle alone.     *)
Running(A) == A /\ UNCHANGED lifeVars

Next ==
  \/ VAYUIpcInt_setup \/ VAYUIpcInt_destroy
  \/ Running(\/ ClientNext
             \/ \E p \in Procs : RemoteSend(p)
             \/ \E l \in Lines : _VAYUIpcInt_checkAndClearFunc(l)
             \/ IstStart \/ IstGet \/ IstCall)

(* A call in progress completes; the hardware takes an asserted, enabled   *)
(* interrupt; the deferred phase runs once signalled.  Starting a call and *)
(* a remote core's sends are not fair, nor are setup and destroy.         *)
Fairness ==
  /\ \A p \in Procs : /\ WF_vars(Running(RegisterTraverse(p)))
                      /\ WF_vars(Running(RegisterIncHandle(p)))
                      /\ WF_vars(Running(RegisterInstall(p)))
                      /\ WF_vars(Running(UnregisterHandle(p)))
  /\ \A l \in Lines : WF_vars(Running(_VAYUIpcInt_checkAndClearFunc(l)))
  /\ WF_vars(Running(IstStart)) /\ WF_vars(Running(IstGet))
  /\ WF_vars(Running(IstCall))

Spec == Init /\ [][Next]_vars /\ Fairness

-----------------------------------------------------------------------------
(***************************************************************************)
(* Properties.                                                             *)
(***************************************************************************)

TypeOK ==
  /\ \A p \in Procs : procRef[p] \in 0 .. MaxRegs[p]
  /\ fxn \in [Procs -> BOOLEAN] /\ irqEnabled \in [Procs -> BOOLEAN]
  /\ isrHandle \in [Procs -> Elems \cup {NULL}]
  /\ hList \in Seq(Elems) /\ hAlloc \subseteq Elems
  /\ hLine \in [Elems -> Lines \cup {0}] /\ hRef \in [Elems -> Int]
  /\ installed \in [Lines -> Nat]
  /\ clientPc \in [Procs -> {"idle", "traverse", "incHandle", "install",
                             "unregHandle"}]
  /\ \A p \in Procs : clientRegs[p] \in 0 .. MaxRegs[p]
  /\ fault \in BOOLEAN
  /\ \A p \in Procs : /\ mbox[p] \in Seq(1 .. MaxMsgs[p])
                      /\ Len(mbox[p]) <= MBOX_DEPTH
                      /\ isrLists[p] \in Seq(1 .. MaxMsgs[p])
                      /\ dispatched[p] \in Seq(1 .. MaxMsgs[p])
                      /\ handled[p] <= sent[p]
  /\ istPc \in 0 .. Len(IsrOrder) /\ istCall \in BOOLEAN
  /\ staleCall \in BOOLEAN
  /\ sysUp \in BOOLEAN /\ setups \in 0 .. MaxSetups /\ isSetup \in BOOLEAN
  /\ mapped \subseteq Banks /\ listExists \in [Procs -> BOOLEAN]
  /\ handlesList \in BOOLEAN

(* The message-element cache never holds more than CACHE_NUM elements, and *)
(* every element allocated by get_msg and not freed by put_msg is cached,  *)
(* queued on an isrList or held by the deferred phase: none leaks across   *)
(* fast phases that run while the deferred phase gives elements back.      *)
Queued == MapThenSumSet(LAMBDA p : Len(isrLists[p]), Procs)
MsgCacheBounded ==
  /\ num_msg <= CACHE_NUM
  /\ liveMsgs = num_msg + Queued + (IF istCall THEN 1 ELSE 0)

(* Destroy finalizes the module whatever setup achieved: it never walks a  *)
(* NULL list, and once it has run no bank stays mapped and no isrList or   *)
(* isrHandles list stays allocated.  Setup returns Void, so its caller     *)
(* cannot tell a failed setup from a good one, and destroy is the only way *)
(* back.                                                                   *)
DestroyUndoesSetup ==
  /\ ~fault
  /\ ~sysUp => /\ mapped = {}
               /\ \A p \in Procs : ~listExists[p]
               /\ ~handlesList

(* Each processor's callback receives its words in the order the remote   *)
(* core wrote them, each at most once, although the fast phase may queue   *)
(* several before the deferred phase, which takes one per pass, runs.      *)
DispatchedInOrder ==
  \A p \in Procs :
    \A i, j \in DOMAIN dispatched[p] : i < j => dispatched[p][i] < dispatched[p][j]

(* Whenever no register/unregister call is in progress, the bookkeeping    *)
(* matches the registrations the callers hold: a processor's refcount is  *)
(* its successful registrations, its IRQ is enabled and its callback set   *)
(* exactly while it has one, its isrHandle is the live element of its      *)
(* line, each line with a registered processor has exactly one element and *)
(* one installed handler, and the element's refCount is the sum of the     *)
(* refcounts of the processors on the line.                                *)
OnLine(l)   == {p \in Procs : LineOf[p] = l}
ElemsOf(l)  == {e \in hAlloc : hLine[e] = l}
HandlesMatchRegistrations ==
  (\A p \in Procs : clientPc[p] = "idle") =>
    /\ \A p \in Procs :
         /\ procRef[p] = clientRegs[p]
         /\ irqEnabled[p] = (clientRegs[p] > 0)
         /\ fxn[p] = (clientRegs[p] > 0)
         /\ clientRegs[p] > 0 => isrHandle[p] \in ElemsOf(LineOf[p])
    /\ \A l \in Lines :
         LET users == {p \in OnLine(l) : clientRegs[p] > 0} IN
         /\ Cardinality(ElemsOf(l)) = IF users = {} THEN 0 ELSE 1
         /\ installed[l] = Cardinality(ElemsOf(l))
         /\ MapThenSumSet(LAMBDA e : hRef[e], ElemsOf(l))
              = MapThenSumSet(LAMBDA p : procRef[p], OnLine(l))

(* A callback is never entered for a processor whose registration has been *)
(* undone: _VAYUIpcInt_isr's NULL check of fxn and the call are not atomic *)
(* with interruptUnregister clearing fxn/fxnArgs.                          *)
DispatchOnlyWhileRegistered == ~staleCall

(* Every word a registered processor's core writes is eventually taken by  *)
(* the host (passed to the callback, or dropped) unless the processor's    *)
(* IRQ is disabled by then: the fast phase and the one-per-pass deferred   *)
(* phase together leave nothing stranded on a sub-mailbox or an isrList.   *)
MessagesHandled ==
  \A p \in Procs : \A n \in 1 .. MaxMsgs[p] :
    (sent[p] >= n /\ irqEnabled[p]) ~> (handled[p] >= n \/ ~irqEnabled[p])

=============================================================================
