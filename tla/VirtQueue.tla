----------------------------- MODULE VirtQueue -----------------------------
(***************************************************************************)
(* One rpmsg link between the HOST and a slave core (DSP/IPU), seen from   *)
(* the slave's VirtQueue (packages/ti/ipc/family/vayu/VirtQueue.c).        *)
(*                                                                         *)
(* The modelled vring is ID_HOST_TO_SELF: the host offers buffers on the   *)
(* avail ring and kicks the slave; the slave's VirtQueue_isr demultiplexes *)
(* the mailbox word and runs the ring callback, which drains the ring with *)
(* VirtQueue_getAvailBuf / VirtQueue_addUsedBuf and kicks the host back    *)
(* with VirtQueue_kick.  The host reclaims used buffers.                   *)
(*                                                                         *)
(* The two cores share nothing but the vring memory and two mailbox        *)
(* sub-channels (one word per message, hardware FIFO of MBOX_DEPTH words). *)
(* Every access the host makes to the vring is its own step, so host steps *)
(* interleave with the slave's; GateHwi makes a slave VirtQueue call       *)
(* atomic only with respect to the slave's own interrupts.                 *)
(***************************************************************************)
EXTENDS Integers, Sequences, FiniteSets, SequencesExt

CONSTANTS
  VQ_SIZE,     \* vring.num, the ring capacity (VQ_SIZE = 256 in the code)
  IDX_MOD,     \* modulus of the UInt16 idx fields (2^16 in the code)
  MBOX_DEPTH,  \* words a mailbox sub-channel FIFO holds (4 on vayu)
  MaxOffers,   \* bound: buffers offered plus control words sent by the host
  MaxRequests, \* bound: control words the host sends
  HostRequests \* the control words the host may send (a subset of Requests)

ASSUME /\ VQ_SIZE \in Nat \ {0}
       /\ IDX_MOD \in Nat /\ IDX_MOD > VQ_SIZE
       /\ MBOX_DEPTH \in Nat \ {0}
       /\ MaxOffers \in Nat /\ MaxRequests \in Nat

(* Ids of the two vrings of the link (rsc_types / _VirtQueue.h).           *)
ID_SELF_TO_HOST == 0
ID_HOST_TO_SELF == 1
NUM_QUEUES      == 2

(* Reserved mailbox words (VirtQueue.c:139-152) are 0xFFFFFF00 + k; the   *)
(* model keeps their offsets and order above the vring ids with a smaller  *)
(* base, since only msg >= NUM_QUEUES and equality are ever tested.        *)
(* RP_MBOX_ABORT_REQUEST (crash on demand) is left out, see the README.    *)
RP_MSG_BASE               == 256
RP_MSG_MBOX_READY         == RP_MSG_BASE + 0
RP_MBOX_ECHO_REQUEST      == RP_MSG_BASE + 3
RP_MBOX_ECHO_REPLY        == RP_MSG_BASE + 4
RP_MSG_FLUSH_CACHE        == RP_MSG_BASE + 6
RP_MSG_HIBERNATION        == RP_MSG_BASE + 16
RP_MSG_HIBERNATION_FORCE  == RP_MSG_BASE + 17
RP_MSG_HIBERNATION_ACK    == RP_MSG_BASE + 18
RP_MSG_HIBERNATION_CANCEL == RP_MSG_BASE + 19

(* The words the host sends besides kicks, and the replies the slave's ISR *)
(* sends back; NoReply stands for a case of the switch that only returns.  *)
Requests == {RP_MSG_MBOX_READY, RP_MBOX_ECHO_REQUEST, RP_MSG_FLUSH_CACHE,
             RP_MSG_HIBERNATION, RP_MSG_HIBERNATION_FORCE}
Replies  == {RP_MBOX_ECHO_REPLY, RP_MSG_HIBERNATION_ACK, RP_MSG_HIBERNATION_CANCEL}
NoReply  == -1
Words == (0 .. NUM_QUEUES - 1) \cup Requests \cup Replies

ASSUME HostRequests \subseteq Requests

(* virtio config status bits, VirtQueue.c:94-99.                           *)
VIRTIO_CONFIG_S_ACKNOWLEDGE == 1
VIRTIO_CONFIG_S_DRIVER      == 2
VIRTIO_CONFIG_S_DRIVER_OK   == 4
VRING_BUFS_PRIMED == VIRTIO_CONFIG_S_ACKNOWLEDGE + VIRTIO_CONFIG_S_DRIVER
                       + VIRTIO_CONFIG_S_DRIVER_OK

Heads  == 0 .. VQ_SIZE - 1   \* descriptor indices
NoHead == -1                 \* getAvailBuf's "nothing available"

VARIABLES
  vdevStatus,        \* Resource_getVdevStatus(VIRTIO_ID_RPMSG), set by the host
  intRegistered,     \* InterruptProxy_intRegister done (VirtQueue_startup)
  created,           \* queueRegistry[ID_HOST_TO_SELF] # NULL
  availRing,         \* vring.avail->ring[], written by the host
  availIdx,          \* vring.avail->idx, written by the host
  availNoInterrupt,  \* vring.avail->flags & VRING_AVAIL_F_NO_INTERRUPT
  usedRing,          \* vring.used->ring[].id, written by the slave
  usedIdx,           \* vring.used->idx
  usedNoNotify,      \* vring.used->flags & VRING_USED_F_NO_NOTIFY
  last_avail_idx,    \* vq->last_avail_idx
  mbxToSelf,         \* HOST -> slave sub-mailbox FIFO
  mbxToHost,         \* slave -> HOST sub-mailbox FIFO
  isrPc,             \* slave VirtQueue_isr: "idle" | "replyWait" | "replySend"
  isrReply,          \* the word the ISR's InterruptProxy_intSend sends
  cbPosted,          \* the ring callback has been invoked and not yet run
  cbPc,              \* slave ring-callback thread program counter
  head,              \* the head the callback holds between get and add
  usedAny,           \* the callback returned a buffer in this run
  hostFree,          \* host's free descriptors
  hostLastUsed,      \* host's last_used_idx
  hostPc,            \* host sender: "idle" | "check" | "wait" | "send"
  hostWord,          \* word the host is about to send
  numOffered,        \* history: buffers the host has offered
  numGot,            \* history: buffers getAvailBuf has returned
  createdAt,         \* history: numOffered when the vring was created
  asked,             \* history: the requests the host has sent, in order
  answered           \* history: the replies the host has popped, in order

ringVars == <<availRing, availIdx, availNoInterrupt, usedRing, usedIdx,
              usedNoNotify, last_avail_idx>>
slaveVars == <<intRegistered, created, isrPc, isrReply, cbPosted, cbPc, head, usedAny>>
hostVars  == <<vdevStatus, hostFree, hostLastUsed, hostPc, hostWord, asked, answered>>
histVars  == <<numOffered, numGot, createdAt>>
vars == <<ringVars, slaveVars, hostVars, histVars, mbxToSelf, mbxToHost>>

-----------------------------------------------------------------------------
(* Ring arithmetic: the UInt16 idx fields wrap at IDX_MOD, a slot is       *)
(* idx % vring.num.                                                        *)
(* Fault variant: the idx cursor kept in a wider integer that never wraps. *)
IncNoWrap(i) == i + 1

Inc(i)      == (i + 1) % IDX_MOD
Slot(i)     == i % VQ_SIZE
Dist(lo, hi) == (hi - lo + IDX_MOD) % IDX_MOD

(* The heads between two cursors, oldest first.                            *)
Between(ring, lo, hi) == [k \in 1 .. Dist(lo, hi) |-> ring[Slot((lo + k - 1) % IDX_MOD)]]

(* A mailbox write: the FIFO holds MBOX_DEPTH words, a write to a full     *)
(* FIFO is discarded by the hardware.                                      *)
MboxWrite(fifo, w) == IF Len(fifo) < MBOX_DEPTH THEN Append(fifo, w) ELSE fifo

-----------------------------------------------------------------------------
(***************************************************************************)
(* The host (Linux/QNX virtio rpmsg driver and the mailbox send path of    *)
(* VAYUIpcInt.c).                                                          *)
(***************************************************************************)

(* The bound on the host's offers and control words together.             *)
HostMayAct == numOffered + Len(asked) < MaxOffers

(* The host driver sets ACKNOWLEDGE, DRIVER, DRIVER_OK one after another.  *)
HostSetStatus ==
  /\ vdevStatus # VRING_BUFS_PRIMED
  /\ vdevStatus' = CASE vdevStatus = 0 -> VIRTIO_CONFIG_S_ACKNOWLEDGE
                     [] vdevStatus = VIRTIO_CONFIG_S_ACKNOWLEDGE ->
                          VIRTIO_CONFIG_S_ACKNOWLEDGE + VIRTIO_CONFIG_S_DRIVER
                     [] OTHER -> VRING_BUFS_PRIMED
  /\ UNCHANGED <<ringVars, slaveVars, histVars, hostFree, hostLastUsed, hostPc,
                 hostWord, asked, answered, mbxToSelf, mbxToHost>>

(* virtqueue_add + publish: the head goes in the next avail slot, then     *)
(* avail->idx is advanced.                                                 *)
HostOffer ==
  /\ vdevStatus = VRING_BUFS_PRIMED
  /\ hostPc = "idle"
  /\ HostMayAct
  /\ \E h \in hostFree :
       /\ availRing' = [availRing EXCEPT ![Slot(availIdx)] = h]
       /\ availIdx' = Inc(availIdx)
       /\ hostFree' = hostFree \ {h}
  /\ numOffered' = numOffered + 1
  /\ hostPc' = "check"
  /\ UNCHANGED <<availNoInterrupt, usedRing, usedIdx, usedNoNotify,
                 last_avail_idx, slaveVars, vdevStatus, hostLastUsed, hostWord,
                 asked, answered, numGot, createdAt, mbxToSelf, mbxToHost>>

(* virtqueue_kick_prepare: kick unless the slave set VRING_USED_F_NO_NOTIFY. *)
HostCheckNotify ==
  /\ hostPc = "check"
  /\ IF usedNoNotify
       THEN hostPc' = "idle" /\ UNCHANGED hostWord
       ELSE hostPc' = "wait" /\ hostWord' = ID_HOST_TO_SELF
  /\ UNCHANGED <<ringVars, slaveVars, histVars, vdevStatus, hostFree,
                 hostLastUsed, asked, answered, mbxToSelf, mbxToHost>>

(* The host sends a control word: an echo request (Scenario B of the     *)
(* spec), a hibernation request, forced or not, a cache flush or the       *)
(* mailbox-ready word.                                                     *)
HostSendRequest ==
  /\ vdevStatus = VRING_BUFS_PRIMED
  /\ hostPc = "idle"
  /\ Len(asked) < MaxRequests
  /\ HostMayAct
  /\ \E w \in HostRequests :
       /\ hostWord' = w
       /\ asked' = Append(asked, w)
  /\ hostPc' = "wait"
  /\ UNCHANGED <<ringVars, slaveVars, histVars, vdevStatus, hostFree,
                 hostLastUsed, answered, mbxToSelf, mbxToHost>>

(* VAYUIpcInt_waitClearInterrupt: spin until the sub-mailbox is empty.      *)
VAYUIpcInt_waitClearInterrupt ==
  /\ hostPc = "wait"
  /\ mbxToSelf = <<>>
  /\ hostPc' = "send"
  /\ UNCHANGED <<ringVars, slaveVars, histVars, vdevStatus, hostFree,
                 hostLastUsed, hostWord, asked, answered, mbxToSelf, mbxToHost>>

(* VAYUIpcInt_sendInterrupt: write the word to the MESSAGE register.        *)
VAYUIpcInt_sendInterrupt ==
  /\ hostPc = "send"
  /\ mbxToSelf' = MboxWrite(mbxToSelf, hostWord)
  /\ hostPc' = "idle"
  /\ UNCHANGED <<ringVars, slaveVars, histVars, vdevStatus, hostFree,
                 hostLastUsed, hostWord, asked, answered, mbxToHost>>

(* VAYUIpcInt_clearInterrupt: the host pops one word from its sub-mailbox; *)
(* the replies among the words are recorded in answered.                   *)
VAYUIpcInt_clearInterrupt ==
  /\ mbxToHost # <<>>
  /\ mbxToHost' = Tail(mbxToHost)
  /\ answered' = IF Head(mbxToHost) \in Replies
                    THEN Append(answered, Head(mbxToHost)) ELSE answered
  /\ UNCHANGED <<ringVars, slaveVars, histVars, vdevStatus, hostFree,
                 hostLastUsed, hostPc, hostWord, asked, mbxToSelf>>

(* virtqueue_get_buf: the host takes back the next used buffer.            *)
HostReclaim ==
  /\ hostLastUsed # usedIdx
  /\ hostFree' = hostFree \cup {usedRing[Slot(hostLastUsed)]}
  /\ hostLastUsed' = Inc(hostLastUsed)
  /\ UNCHANGED <<ringVars, slaveVars, histVars, vdevStatus, hostPc, hostWord,
                 asked, answered, mbxToSelf, mbxToHost>>

(* virtqueue_disable_cb / enable_cb on the host's side of this vring.      *)
HostToggleNoInterrupt ==
  /\ availNoInterrupt' = ~availNoInterrupt
  /\ UNCHANGED <<availRing, availIdx, usedRing, usedIdx, usedNoNotify,
                 last_avail_idx, slaveVars, hostVars, histVars, mbxToSelf,
                 mbxToHost>>

-----------------------------------------------------------------------------
(***************************************************************************)
(* The slave: VirtQueue.c.  The ring callback (the rpmsg layer's Swi that  *)
(* VirtQueue_isr invokes) drains the ring: getAvailBuf until it returns    *)
(* -1, addUsedBuf for each buffer, then one VirtQueue_kick.  The ISR       *)
(* preempts the callback except while GateHwi is held.                     *)
(***************************************************************************)

(* GateHwi is held (interrupts off) inside getAvailBuf.                    *)
GateHeld == cbPc = "getCheck"

(* VirtQueue_startup: poll the vdev status until the host primed its      *)
(* buffers, then register VirtQueue_isr on the mailbox interrupt.          *)
VirtQueue_startup ==
  /\ ~intRegistered
  /\ vdevStatus = VRING_BUFS_PRIMED
  /\ intRegistered' = TRUE
  /\ UNCHANGED <<ringVars, created, isrPc, isrReply, cbPosted, cbPc, head, usedAny,
                 hostVars, histVars, mbxToSelf, mbxToHost>>

(* VirtQueue_create(ID_HOST_TO_SELF): after _VirtQueue_init's own poll,    *)
(* last_avail_idx = 0, VRING_USED_F_NO_NOTIFY cleared (procId is the       *)
(* host), then queueRegistry[id] = vq.                                     *)
VirtQueue_create ==
  /\ intRegistered
  /\ ~created
  /\ vdevStatus = VRING_BUFS_PRIMED
  /\ last_avail_idx' = 0
  /\ usedNoNotify' = FALSE
  /\ created' = TRUE
  /\ createdAt' = numOffered
  /\ UNCHANGED <<availRing, availIdx, availNoInterrupt, usedRing, usedIdx,
                 intRegistered, isrPc, isrReply, cbPosted, cbPc, head, usedAny,
                 hostVars, numOffered, numGot, mbxToSelf, mbxToHost>>

(* The word VirtQueue_isr's switch answers with, given msg and what       *)
(* IpcPower_canHibernate returns: an echo request is answered with the     *)
(* echo reply; a hibernation request is cancelled when the core cannot    *)
(* hibernate and otherwise falls through to the forced case, which acks    *)
(* and calls IpcPower_suspend; MBOX_READY and FLUSH_CACHE (Cache_wbAll)    *)
(* only return.                                                            *)
(* Fault variant: the cancel is not sent when the core cannot hibernate.   *)
IsrReplyNoCancel(msg, canHibernate) ==
  CASE msg = RP_MBOX_ECHO_REQUEST -> RP_MBOX_ECHO_REPLY
    [] msg \in {RP_MSG_HIBERNATION, RP_MSG_HIBERNATION_FORCE} /\ canHibernate ->
         RP_MSG_HIBERNATION_ACK
    [] OTHER -> NoReply

IsrReply(msg, canHibernate) ==
  CASE msg = RP_MBOX_ECHO_REQUEST -> RP_MBOX_ECHO_REPLY
    [] msg = RP_MSG_HIBERNATION /\ ~canHibernate -> RP_MSG_HIBERNATION_CANCEL
    [] msg \in {RP_MSG_HIBERNATION, RP_MSG_HIBERNATION_FORCE} -> RP_MSG_HIBERNATION_ACK
    [] OTHER -> NoReply

(* VirtQueue_isr: InterruptProxy_intClear pops one word, then the switch: *)
(* a control word is answered (or not) from the ISR, a word below          *)
(* NUM_QUEUES runs the callback of a registered vring, anything else is    *)
(* dropped.  IpcPower_canHibernate is outside the repository and may       *)
(* return either value; IpcPower_suspend is taken to return on wake-up.    *)
VirtQueue_isr ==
  /\ intRegistered
  /\ isrPc = "idle"
  /\ ~GateHeld
  /\ mbxToSelf # <<>>
  /\ mbxToSelf' = Tail(mbxToSelf)
  /\ LET msg == Head(mbxToSelf) IN
       IF msg \in Requests
         THEN \E canHibernate \in BOOLEAN :
                LET r == IsrReply(msg, canHibernate) IN
                /\ isrReply' = r
                /\ isrPc' = IF r = NoReply THEN "idle" ELSE "replyWait"
                /\ UNCHANGED cbPosted
         ELSE /\ cbPosted' = (cbPosted \/ (msg = ID_HOST_TO_SELF /\ created))
              /\ UNCHANGED <<isrPc, isrReply>>
  /\ UNCHANGED <<ringVars, intRegistered, created, cbPc, head, usedAny,
                 hostVars, histVars, mbxToHost>>

(* InterruptProxy_intSend(hostProcId, reply) from the ISR: spin until the  *)
(* host's sub-mailbox is empty, then write.                                *)
IsrReplyWait ==
  /\ isrPc = "replyWait"
  /\ mbxToHost = <<>>
  /\ isrPc' = "replySend"
  /\ UNCHANGED <<ringVars, intRegistered, created, isrReply, cbPosted, cbPc,
                 head, usedAny, hostVars, histVars, mbxToSelf, mbxToHost>>

IsrReplySend ==
  /\ isrPc = "replySend"
  /\ mbxToHost' = MboxWrite(mbxToHost, isrReply)
  /\ isrPc' = "idle"
  /\ UNCHANGED <<ringVars, intRegistered, created, isrReply, cbPosted, cbPc,
                 head, usedAny, hostVars, histVars, mbxToSelf>>

(* The callback thread runs when posted and not preempted.                 *)
CallbackRuns == isrPc = "idle"

CallbackStart ==
  /\ CallbackRuns
  /\ cbPc = "idle"
  /\ cbPosted
  /\ cbPosted' = FALSE
  /\ cbPc' = "getClear"
  /\ usedAny' = FALSE
  /\ UNCHANGED <<ringVars, intRegistered, created, isrPc, isrReply, head, hostVars,
                 histVars, mbxToSelf, mbxToHost>>

(* Fault variant: getAvailBuf without the clearing of VRING_USED_F_NO_NOTIFY *)
(* (it is set when a buffer is found and never cleared again).             *)
GetAvailBufNoClear ==
  /\ CallbackRuns
  /\ cbPc = "getClear"
  /\ cbPc' = "getCheck"
  /\ UNCHANGED <<ringVars, intRegistered, created, isrPc, isrReply, cbPosted,
                 head, usedAny, hostVars, histVars, mbxToSelf, mbxToHost>>

(* VirtQueue_getAvailBuf, first half: take GateHwi and clear              *)
(* VRING_USED_F_NO_NOTIFY before looking at avail->idx.                    *)
GetAvailBufClear ==
  /\ CallbackRuns
  /\ cbPc = "getClear"
  /\ usedNoNotify' = FALSE
  /\ cbPc' = "getCheck"
  /\ UNCHANGED <<availRing, availIdx, availNoInterrupt, usedRing, usedIdx,
                 last_avail_idx, intRegistered, created, isrPc, isrReply, cbPosted,
                 head, usedAny, hostVars, histVars, mbxToSelf, mbxToHost>>

(* Fault variant: the head is read but last_avail_idx is not advanced.     *)
GetAvailBufNoAdvance ==
  /\ cbPc = "getCheck"
  /\ IF last_avail_idx = availIdx
       THEN /\ head' = NoHead
            /\ cbPc' = IF usedAny THEN "kick" ELSE "idle"
            /\ UNCHANGED <<usedNoNotify, numGot>>
       ELSE /\ usedNoNotify' = TRUE
            /\ head' = availRing[Slot(last_avail_idx)]
            /\ numGot' = numGot + 1
            /\ cbPc' = "add"
  /\ UNCHANGED <<availRing, availIdx, availNoInterrupt, usedRing, usedIdx,
                 last_avail_idx, intRegistered, created, isrPc, isrReply, cbPosted,
                 usedAny, hostVars, numOffered, createdAt, mbxToSelf, mbxToHost>>

(* VirtQueue_getAvailBuf, second half: nothing available returns -1;       *)
(* otherwise set VRING_USED_F_NO_NOTIFY, take avail->ring[last_avail_idx++ *)
(* % num] and leave GateHwi.                                               *)
GetAvailBufCheck ==
  /\ cbPc = "getCheck"
  /\ IF last_avail_idx = availIdx
       THEN /\ head' = NoHead
            /\ cbPc' = IF usedAny THEN "kick" ELSE "idle"
            /\ UNCHANGED <<usedNoNotify, last_avail_idx, numGot>>
       ELSE /\ usedNoNotify' = TRUE
            /\ head' = availRing[Slot(last_avail_idx)]
            /\ last_avail_idx' = Inc(last_avail_idx)
            /\ numGot' = numGot + 1
            /\ cbPc' = "add"
  /\ UNCHANGED <<availRing, availIdx, availNoInterrupt, usedRing, usedIdx,
                 intRegistered, created, isrPc, isrReply, cbPosted, usedAny, hostVars,
                 numOffered, createdAt, mbxToSelf, mbxToHost>>

(* VirtQueue_addUsedBuf(vq, head, len): under GateHwi, write              *)
(* used->ring[used->idx % num] and increment used->idx.  The head bound    *)
(* check raises a fatal error; the callback only passes heads it got.      *)
VirtQueue_addUsedBuf ==
  /\ CallbackRuns
  /\ cbPc = "add"
  /\ head \in 0 .. VQ_SIZE
  /\ usedRing' = [usedRing EXCEPT ![Slot(usedIdx)] = head]
  /\ usedIdx' = Inc(usedIdx)
  /\ usedAny' = TRUE
  /\ cbPc' = "getClear"
  /\ UNCHANGED <<availRing, availIdx, availNoInterrupt, usedNoNotify,
                 last_avail_idx, intRegistered, created, isrPc, isrReply, cbPosted,
                 head, hostVars, histVars, mbxToSelf, mbxToHost>>

(* VirtQueue_kick: no kick while the host set VRING_AVAIL_F_NO_INTERRUPT; *)
(* otherwise InterruptProxy_intSend(procId, vq->id), which spins until the *)
(* host's sub-mailbox is empty and then writes.                            *)
VirtQueue_kick ==
  /\ CallbackRuns
  /\ cbPc = "kick"
  /\ cbPc' = IF availNoInterrupt THEN "idle" ELSE "kickWait"
  /\ UNCHANGED <<ringVars, intRegistered, created, isrPc, isrReply, cbPosted, head,
                 usedAny, hostVars, histVars, mbxToSelf, mbxToHost>>

KickWait ==
  /\ CallbackRuns
  /\ cbPc = "kickWait"
  /\ mbxToHost = <<>>
  /\ cbPc' = "kickSend"
  /\ UNCHANGED <<ringVars, intRegistered, created, isrPc, isrReply, cbPosted, head,
                 usedAny, hostVars, histVars, mbxToSelf, mbxToHost>>

KickSend ==
  /\ CallbackRuns
  /\ cbPc = "kickSend"
  /\ mbxToHost' = MboxWrite(mbxToHost, ID_HOST_TO_SELF)
  /\ cbPc' = "idle"
  /\ UNCHANGED <<ringVars, intRegistered, created, isrPc, isrReply, cbPosted, head,
                 usedAny, hostVars, histVars, mbxToSelf>>

-----------------------------------------------------------------------------
Init ==
  /\ vdevStatus = 0
  /\ intRegistered = FALSE
  /\ created = FALSE
  /\ availRing = [s \in 0 .. VQ_SIZE - 1 |-> 0]
  /\ availIdx = 0
  /\ availNoInterrupt = FALSE
  /\ usedRing = [s \in 0 .. VQ_SIZE - 1 |-> 0]
  /\ usedIdx = 0
  /\ usedNoNotify = FALSE
  /\ last_avail_idx = 0
  /\ mbxToSelf = <<>>
  /\ mbxToHost = <<>>
  /\ isrPc = "idle"
  /\ cbPosted = FALSE
  /\ cbPc = "idle"
  /\ head = NoHead
  /\ usedAny = FALSE
  /\ hostFree = Heads
  /\ hostLastUsed = 0
  /\ hostPc = "idle"
  /\ hostWord = ID_HOST_TO_SELF
  /\ numOffered = 0
  /\ numGot = 0
  /\ createdAt = MaxOffers
  /\ isrReply = NoReply
  /\ asked = <<>>
  /\ answered = <<>>

HostNext ==
  \/ HostSetStatus
  \/ HostOffer
  \/ HostCheckNotify
  \/ HostSendRequest
  \/ VAYUIpcInt_waitClearInterrupt
  \/ VAYUIpcInt_sendInterrupt
  \/ VAYUIpcInt_clearInterrupt
  \/ HostReclaim
  \/ HostToggleNoInterrupt

SlaveNext ==
  \/ VirtQueue_startup
  \/ VirtQueue_create
  \/ VirtQueue_isr
  \/ IsrReplyWait
  \/ IsrReplySend
  \/ CallbackStart
  \/ GetAvailBufClear
  \/ GetAvailBufCheck
  \/ VirtQueue_addUsedBuf
  \/ VirtQueue_kick
  \/ KickWait
  \/ KickSend

Next == HostNext \/ SlaveNext

(* Fairness: the hardware raises the mailbox interrupt while a word is     *)
(* pending, the scheduled callback and the spinning senders keep running,  *)
(* and the host driver completes a send it started and reclaims used       *)
(* buffers.  Offering buffers, pinging and toggling its interrupt flag are *)
(* the host's choice and are not fair.                                     *)
Fairness ==
  /\ WF_vars(HostSetStatus)
  /\ WF_vars(HostCheckNotify)
  /\ WF_vars(VAYUIpcInt_waitClearInterrupt)
  /\ WF_vars(VAYUIpcInt_sendInterrupt)
  /\ WF_vars(VAYUIpcInt_clearInterrupt)
  /\ WF_vars(HostReclaim)
  /\ WF_vars(VirtQueue_startup)
  /\ WF_vars(VirtQueue_create)
  /\ WF_vars(VirtQueue_isr)
  /\ WF_vars(IsrReplyWait)
  /\ WF_vars(IsrReplySend)
  /\ WF_vars(CallbackStart)
  /\ WF_vars(GetAvailBufClear)
  /\ WF_vars(GetAvailBufCheck)
  /\ WF_vars(VirtQueue_addUsedBuf)
  /\ WF_vars(VirtQueue_kick)
  /\ WF_vars(KickWait)
  /\ WF_vars(KickSend)

Spec == Init /\ [][Next]_vars /\ Fairness

-----------------------------------------------------------------------------
(***************************************************************************)
(* Properties.                                                             *)
(***************************************************************************)

TypeOK ==
  /\ vdevStatus \in {0, 1, 3, VRING_BUFS_PRIMED}
  /\ intRegistered \in BOOLEAN /\ created \in BOOLEAN
  /\ availRing \in [0 .. VQ_SIZE - 1 -> Heads]
  /\ usedRing \in [0 .. VQ_SIZE - 1 -> Heads]
  /\ {availIdx, usedIdx, last_avail_idx, hostLastUsed} \subseteq 0 .. IDX_MOD - 1
  /\ {availNoInterrupt, usedNoNotify, cbPosted, usedAny} \subseteq BOOLEAN
  /\ mbxToSelf \in Seq(Words) /\ Len(mbxToSelf) <= MBOX_DEPTH
  /\ mbxToHost \in Seq(Words) /\ Len(mbxToHost) <= MBOX_DEPTH
  /\ isrPc \in {"idle", "replyWait", "replySend"}
  /\ isrReply \in Replies \cup {NoReply}
  /\ cbPc \in {"idle", "getClear", "getCheck", "add", "kick", "kickWait", "kickSend"}
  /\ head \in Heads \cup {NoHead}
  /\ hostFree \subseteq Heads
  /\ hostPc \in {"idle", "check", "wait", "send"}
  /\ hostWord \in Words
  /\ asked \in Seq(Requests) /\ Len(asked) <= MaxRequests
  /\ answered \in Seq(Replies)
  /\ numGot <= numOffered /\ numOffered <= MaxOffers

(* The descriptors on the avail ring not yet taken, and those on the used *)
(* ring not yet reclaimed, oldest first.                                   *)
InFlightAvail == Between(availRing, last_avail_idx, availIdx)
InFlightUsed  == Between(usedRing, hostLastUsed, usedIdx)

(* No lost wakeup: a buffer the host offers once the vring is registered  *)
(* is eventually taken by the slave, although the host skips the kick     *)
(* while VRING_USED_F_NO_NOTIFY is set (getAvailBuf's flag protocol).     *)
(* The slave takes buffers in the order offered and the host offers at    *)
(* most MaxOffers, so this says: once a buffer is offered after create,    *)
(* the slave eventually catches up with every offer made.                  *)
OfferedAfterCreateConsumed ==
  numOffered > createdAt ~> numGot = numOffered

(* The replies the host may expect for a control word: the echo reply for *)
(* an echo request, an ack or a cancel for a hibernation request, an ack   *)
(* for a forced one, none for the others.                                  *)
Expected(w) ==
  CASE w = RP_MBOX_ECHO_REQUEST     -> {RP_MBOX_ECHO_REPLY}
    [] w = RP_MSG_HIBERNATION       -> {RP_MSG_HIBERNATION_ACK, RP_MSG_HIBERNATION_CANCEL}
    [] w = RP_MSG_HIBERNATION_FORCE -> {RP_MSG_HIBERNATION_ACK}
    [] OTHER                        -> {}

(* The host's requests that call for a reply, in the order sent.           *)
Answerable == SelectSeq(asked, LAMBDA w : Expected(w) # {})

(* Every request VirtQueue_isr answers gets its reply: the n-th such       *)
(* request is eventually the n-th reply the host pops, and that reply is   *)
(* one its case sends, although the reply shares the host's sub-mailbox   *)
(* with the callback's kicks and the ISR spins for it in interrupt context *)
(* while the callback is preempted.                                        *)
RequestsAnswered ==
  \A n \in 1 .. MaxRequests :
    Len(Answerable) >= n ~>
      (Len(answered) >= n /\ answered[n] \in Expected(Answerable[n]))

(* The vring implements RingChannel: the avail entries between            *)
(* last_avail_idx and avail->idx are the lent buffers, in order; the head  *)
(* the callback holds is taken; the used entries between the host's        *)
(* last_used_idx and used->idx are the returned ones.  Every step of       *)
(* getAvailBuf, addUsedBuf and the host's publish and reclaim is a step of *)
(* the abstract channel or leaves it unchanged.  As RingChannel keeps     *)
(* each buffer in exactly one place, so does the vring: no descriptor is   *)
(* lost or handed out twice through the wrap of the 16-bit idx fields.     *)
Taken == IF cbPc = "add" THEN {head} ELSE {}
Channel == INSTANCE RingChannel WITH Buffers <- Heads, free <- hostFree,
             lent <- InFlightAvail, taken <- Taken, returned <- InFlightUsed

(* getAvailBuf and addUsedBuf move buffers through the ring as a FIFO      *)
(* channel: each published head is handed to the slave once, in publish   *)
(* order, across the UInt16 wrap of avail->idx and last_avail_idx, and is  *)
(* returned to the host in the order the slave used it.                    *)
VirtQueueRefinement == Channel!Spec

=============================================================================
