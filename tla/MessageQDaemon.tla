-------------------------- MODULE MessageQDaemon --------------------------
(***************************************************************************)
(* The queue table of the Linux LAD daemon's MessageQ module               *)
(* (linux/src/daemon/MessageQ_daemon.c).                                   *)
(*                                                                         *)
(* queues[] maps a queue index to the MessageQ object created for it.     *)
(* Indices below numReservedEntries are reserved: a client asks for one    *)
(* explicitly.  Other creates take the first free index from              *)
(* numReservedEntries on, and the table grows by MessageQ_GROWSIZE when    *)
(* none is free.  A queue's id is (procId << 16) | (index + PORTOFFSET),   *)
(* so the index is all the table needs.  The daemon's handlers run one at  *)
(* a time, each under MessageQ_module->gate, so each is one step here.     *)
(***************************************************************************)
EXTENDS Integers, FiniteSets

CONSTANTS
  Objs,                  \* MessageQ objects the daemon can allocate
  Pids,                  \* client processes owning queues
  numReservedEntries,    \* cfg->numReservedEntries
  maxRuntimeEntries,     \* cfg->maxRuntimeEntries: the table's first size
  MessageQ_GROWSIZE,     \* entries added per _MessageQ_grow (32 in the code)
  MaxSetups,             \* bound: MessageQ_setup calls
  UINT16_BITS,           \* width of numQueues and of grow's oldSize (16)
  HANDLE_SIZE,           \* sizeof(MessageQ_Handle): 8 on a 64-bit host
  MaxSeqNum              \* bound: msgInit stamps between two first setups

NULL        == "NULL"
MessageQ_ANY == -1        \* params->queueIndex for "any index"
NoPid       == 0

ASSUME /\ NULL \notin Objs /\ NoPid \notin Pids
       /\ {numReservedEntries, maxRuntimeEntries, MessageQ_GROWSIZE, MaxSetups,
           UINT16_BITS, HANDLE_SIZE, MaxSeqNum} \subseteq Nat
       /\ numReservedEntries < maxRuntimeEntries

VARIABLES
  refCount,     \* MessageQ_module->refCount
  numQueues,    \* MessageQ_module->numQueues
  queues,       \* [0 .. numQueues-1 -> Objs \cup {NULL}]
  live,         \* objects allocated and not freed
  index,        \* [Objs -> Int]: the queue index in obj->queue
  asked,        \* [Objs -> Int]: the queueIndex the create asked for
  nsKey,        \* [Objs -> BOOLEAN]: obj->nsKey # NULL (announced)
  ownerPid,     \* [Objs -> Pids \cup {NoPid}]
  setups,       \* MessageQ_setup calls made
  seqNum        \* MessageQ_module->seqNum (Bits16)

vars == <<refCount, numQueues, queues, live, index, asked, nsKey, ownerPid,
          setups, seqNum>>

Slots == 0 .. numQueues - 1

-----------------------------------------------------------------------------
(* MessageQ_setup: the first call sizes the table to maxRuntimeEntries,    *)
(* all NULL, and restarts the sequence numbers; later calls only count.    *)
MessageQ_setup ==
  /\ setups < MaxSetups
  /\ setups' = setups + 1
  /\ refCount' = refCount + 1
  /\ IF refCount = 0
       THEN /\ numQueues' = maxRuntimeEntries
            /\ queues' = [i \in 0 .. maxRuntimeEntries - 1 |-> NULL]
            /\ seqNum' = 0
       ELSE UNCHANGED <<numQueues, queues, seqNum>>
  /\ UNCHANGED <<live, index, asked, nsKey, ownerPid>>

(* MessageQ_msgInit: the header fields are constants; the message takes   *)
(* the module's seqNum, incremented under the gate in 16 bits.             *)
MessageQ_msgInit ==
  /\ seqNum < MaxSeqNum
  /\ seqNum' = (seqNum + 1) % 2^UINT16_BITS
  /\ UNCHANGED <<refCount, numQueues, queues, live, index, asked, nsKey,
                 ownerPid, setups>>

(* MessageQ_delete, the part under and around the gate: the slot of the   *)
(* object's queue index is cleared (whatever it holds) and the object      *)
(* freed; its NameServer entry, if any, is removed with it.                *)
Delete(o, q) == [q EXCEPT ![index[o]] = NULL]

MessageQ_delete(o) ==
  /\ refCount > 0
  /\ o \in live
  /\ queues' = Delete(o, queues)
  /\ live' = live \ {o}
  /\ nsKey' = [nsKey EXCEPT ![o] = FALSE]
  /\ UNCHANGED <<refCount, numQueues, index, asked, ownerPid, setups, seqNum>>

(* MessageQ_destroy: the last call deletes every queue still in the table  *)
(* and frees the table.                                                    *)
MessageQ_destroy ==
  /\ refCount > 0
  /\ refCount' = refCount - 1
  /\ IF refCount = 1
       THEN /\ live' = live \ {queues[i] : i \in Slots}
            /\ nsKey' = [o \in Objs |-> IF o \in {queues[i] : i \in Slots}
                                           THEN FALSE ELSE nsKey[o]]
            /\ numQueues' = 0
            /\ queues' = [i \in {} |-> NULL]
       ELSE UNCHANGED <<live, nsKey, numQueues, queues>>
  /\ UNCHANGED <<index, asked, ownerPid, setups, seqNum>>

(* A value stored in a UInt16 (scaled to UINT16_BITS bits).               *)
UInt16(x) == x % (2 ^ UINT16_BITS)

(* The table calloc returns: numQueues + MessageQ_GROWSIZE entries (int    *)
(* arithmetic, no wrap), the first n copied from the old table, the        *)
(* object at the old size.                                                 *)
Grown(o, n) == [i \in 0 .. numQueues + MessageQ_GROWSIZE - 1 |->
                  IF i < n THEN queues[i]
                  ELSE IF i = numQueues THEN o ELSE NULL]

(* Fault variant: numQueues is not advanced with the table.               *)
GrowNoResize(o) ==
  /\ queues' = Grown(o, numQueues)
  /\ UNCHANGED numQueues

(* Fault variant: the grown table does not keep the old entries.           *)
GrowNoCopy(o) ==
  /\ queues' = Grown(o, 0)
  /\ numQueues' = UInt16(numQueues + MessageQ_GROWSIZE)

(* _MessageQ_grow: oldSize = numQueues * sizeof(MessageQ_Handle) is a      *)
(* UInt16, and memcpy copies oldSize bytes, that is oldSize / HANDLE_SIZE  *)
(* entries; the object goes at the old size, numQueues (a UInt16) grows by *)
(* MessageQ_GROWSIZE; returns the old size as the index.                   *)
MessageQ_grow(o) ==
  LET oldSize == UInt16(numQueues * HANDLE_SIZE) IN
  /\ queues' = Grown(o, oldSize \div HANDLE_SIZE)
  /\ numQueues' = UInt16(numQueues + MessageQ_GROWSIZE)

(* The free dynamic slots: the loop from numReservedEntries to numQueues.  *)
Holes == {i \in Slots : i >= numReservedEntries /\ queues[i] = NULL}

(* MessageQ_create(name, params): calloc the object, then under the gate:  *)
(* an explicit queueIndex greater than numReservedEntries, or whose slot   *)
(* is in use, is refused (the object is freed, nothing changes);           *)
(* MessageQ_ANY takes the first hole, else grows the table.                *)
Refused(qi) == qi # MessageQ_ANY /\ (qi > numReservedEntries \/ queues[qi] # NULL)

MessageQ_create(o, qi) ==
  /\ refCount > 0
  /\ o \notin live
  /\ IF Refused(qi)
       THEN UNCHANGED vars
       ELSE /\ CASE qi # MessageQ_ANY ->
                     /\ queues' = [queues EXCEPT ![qi] = o]
                     /\ index' = [index EXCEPT ![o] = qi]
                     /\ UNCHANGED numQueues
                 [] Holes # {} ->
                     LET i == CHOOSE h \in Holes : \A k \in Holes : h <= k IN
                     /\ queues' = [queues EXCEPT ![i] = o]
                     /\ index' = [index EXCEPT ![o] = i]
                     /\ UNCHANGED numQueues
                 [] OTHER ->
                     /\ MessageQ_grow(o)
                     /\ index' = [index EXCEPT ![o] = numQueues]
            /\ live' = live \cup {o}
            /\ asked' = [asked EXCEPT ![o] = qi]
            /\ nsKey' = [nsKey EXCEPT ![o] = FALSE]
            /\ ownerPid' = [ownerPid EXCEPT ![o] = NoPid]
            /\ UNCHANGED <<refCount, setups, seqNum>>

(* MessageQ_announce: add the name to the NameServer once.                 *)
MessageQ_announce(o) ==
  /\ o \in live
  /\ ~nsKey[o]
  /\ nsKey' = [nsKey EXCEPT ![o] = TRUE]
  /\ UNCHANGED <<refCount, numQueues, queues, live, index, asked, ownerPid,
                 setups, seqNum>>

(* MessageQ_setQueueOwner: the daemon records the client process.          *)
MessageQ_setQueueOwner(o, pid) ==
  /\ o \in live
  /\ ownerPid' = [ownerPid EXCEPT ![o] = pid]
  /\ UNCHANGED <<refCount, numQueues, queues, live, index, asked, nsKey, setups, seqNum>>

(* The loop of MessageQ_cleanupOwner from slot k on: each slot is read     *)
(* after the deletes of the earlier ones, and MessageQ_delete clears the   *)
(* slot of the object's own queue index.  Returns the table left and the   *)
(* objects deleted.                                                        *)
RECURSIVE CleanupFrom(_, _, _, _)
CleanupFrom(pid, k, q, gone) ==
  IF k >= numQueues THEN [q |-> q, gone |-> gone]
  ELSE LET o == q[k] IN
       IF o # NULL /\ ownerPid[o] = pid
         THEN CleanupFrom(pid, k + 1, Delete(o, q), gone \cup {o})
         ELSE CleanupFrom(pid, k + 1, q, gone)

(* MessageQ_cleanupOwner: a client process went away; delete every queue  *)
(* in the table it owns.                                                   *)
MessageQ_cleanupOwner(pid) ==
  LET r == CleanupFrom(pid, 0, queues, {}) IN
  /\ r.gone # {}
  /\ queues' = r.q
  /\ live' = live \ r.gone
  /\ nsKey' = [o \in Objs |-> IF o \in r.gone THEN FALSE ELSE nsKey[o]]
  /\ UNCHANGED <<refCount, numQueues, index, asked, ownerPid, setups, seqNum>>

-----------------------------------------------------------------------------
Init ==
  /\ refCount = 0
  /\ numQueues = 0
  /\ queues = [i \in {} |-> NULL]
  /\ live = {}
  /\ index = [o \in Objs |-> 0]
  /\ asked = [o \in Objs |-> MessageQ_ANY]
  /\ nsKey = [o \in Objs |-> FALSE]
  /\ ownerPid = [o \in Objs |-> NoPid]
  /\ setups = 0
  /\ seqNum = 0

(* The explicit indices a client can ask for: every reserved one and the   *)
(* first two beyond.                                                       *)
AskedIndices == {MessageQ_ANY} \cup 0 .. numReservedEntries + 1

Next ==
  \/ MessageQ_setup
  \/ MessageQ_msgInit
  \/ MessageQ_destroy
  \/ \E o \in Objs, qi \in AskedIndices : MessageQ_create(o, qi)
  \/ \E o \in Objs : MessageQ_delete(o) \/ MessageQ_announce(o)
  \/ \E o \in Objs, pid \in Pids : MessageQ_setQueueOwner(o, pid)
  \/ \E pid \in Pids : MessageQ_cleanupOwner(pid)

Spec == Init /\ [][Next]_vars

-----------------------------------------------------------------------------
TypeOK ==
  /\ refCount \in 0 .. MaxSetups /\ setups \in 0 .. MaxSetups
  /\ numQueues \in Nat
  /\ queues \in [Slots -> Objs \cup {NULL}]
  /\ live \subseteq Objs
  /\ index \in [Objs -> Nat] /\ nsKey \in [Objs -> BOOLEAN]
  /\ ownerPid \in [Objs -> Pids \cup {NoPid}]
  /\ seqNum \in 0 .. 2^UINT16_BITS - 1

(* The table and the objects agree after any sequence of creates, deletes, *)
(* grows, owner cleanups and destroys: every live queue sits in the slot   *)
(* of its queue id, no two live queues share an id, and no slot holds a    *)
(* freed object.                                                           *)
TableConsistent ==
  /\ \A o \in live : index[o] \in Slots /\ queues[index[o]] = o
  /\ \A i \in Slots : queues[i] # NULL => queues[i] \in live /\ index[queues[i]] = i

(* A queue created with an explicit queueIndex gets a reserved index (below *)
(* numReservedEntries: create's error message names numReservedEntries - 1 *)
(* as the reserved maximum), and a MessageQ_ANY queue a dynamic one.        *)
ReservedIndexRespected ==
  \A o \in live :
    IF asked[o] = MessageQ_ANY THEN index[o] >= numReservedEntries
                               ELSE index[o] < numReservedEntries

=============================================================================
