# TLA+ models of the vayu IPC stack (ipc-ipcdev)

This directory holds TLA+ models of the parts of `src/` that have concurrency,
ordering or arithmetic that tests hardly reach. It also holds the TLC
configurations that check those models. `PROJECT.json` lists every component,
run, mutant, hazard and finding. It also maps each model definition to the
source lines it translates.

## The system and how its parts interact

| Part | Source | Runs on |
|---|---|---|
| Slave vring transport | `packages/ti/ipc/family/vayu/VirtQueue.c` | DSP / IPU (SYS/BIOS) |
| Host mailbox interrupt layer | `qnx/.../arch/vayu/VAYUIpcInt.c` | QNX host, kernel-side resource manager |
| Hardware spinlock gate | `qnx/src/api/gates/GateHWSpinlock.c` | QNX user processes |
| MessageQ queue table of the LAD daemon | `linux/src/daemon/MessageQ_daemon.c` | Linux host daemon |
| DSP MMU set-up | `qnx/.../vayudsp/VAYUDspHalMmu.c` | QNX host, at DSP load |
| MultiProc config header | `linux/include/_MultiProc.h` | declarations only |

The parts interact as follows:

- **rpmsg link.** A host and a slave core share a vring in memory and signal
  each other through mailbox sub-channels.
  - The slave's `VirtQueue_kick` and the host's `VAYUIpcInt_sendInterrupt`
    each write one word into the peer's FIFO.
  - On the slave, `VirtQueue_isr` pops the word and runs the ring callback.
    The callback drains the ring with `getAvailBuf` and `addUsedBuf`.
  - On the QNX host, `_VAYUIpcInt_checkAndClearFunc` pops words into
    per-processor lists. `_VAYUIpcInt_isr` later hands the words to the
    registered callbacks.
- **Control words.** Besides kicks, the host writes control words to the
  slave's mailbox: echo, hibernation (forced or not), cache flush, mailbox
  ready. `VirtQueue_isr` answers some of them from interrupt context through
  the same host sub-mailbox the kicks use.
- **DSP MMU.** Before the DSP runs, `_VAYUDSP_halMmuEnable` programs its MMU
  from the memory table and installs one fault handler per MMU (MMU0, MMU1).
  A fault raises the MMU's IRQSTATUS. The shared `checkAndClear` clears it,
  and the deferred `_isr` sets the processor state to `Mmu_Fault`.
- **GateHWSpinlock.** Host processes use it to serialise access to shared
  memory with the remote cores.
- **LAD daemon.** On Linux hosts, LAD owns the MessageQ queue table on behalf
  of client processes.

## Modules

| Module | Models | State ↔ code |
|---|---|---|
| `RingChannel` | What one vring promises (abstract) | `free`, `lent`, `taken`, `returned` buffers |
| `VirtQueue` | The host-to-slave vring, slave `VirtQueue.c`, host offer/kick/reclaim | `availRing/availIdx/usedRing/usedIdx` = `vring.avail/used`; `last_avail_idx`; `usedNoNotify`/`availNoInterrupt` = the two flags; `mbxToSelf/mbxToHost` = sub-mailbox FIFOs; `cbPc` = the ring callback's place; `isrPc/isrReply` = the ISR's reply in progress; `asked/answered` = history of control words and replies |
| `VAYUIpcInt` | Setup/destroy, register/unregister, fast and deferred interrupt phases, message cache | `isSetup` = `ArchIpcInt_object.isSetup`; `mapped` = the four bank bases that are non-zero; `listExists/handlesList` = the non-NULL `isrLists`/`isrHandles`; `procRef` = `isrRefCount`; `hList/hAlloc/hRef/hLine` = the `isrHandles` list; `installed` = OsalIsr handlers per line; `isrLists`, `num_msg`; `istPc` = the deferred loop index |
| `SpinLock` | What the gate promises (abstract) | `holder` per lock, `locked` = the register reads taken |
| `GateHWSpinlock` | `start`/`stop`/`create`/`delete` and `enter`/`leave` with the per-process local gate | `gmHandle` = `Mod->gmHandle` (NULL or the n-th start's GateMutex); `mapped` = the registers at `Mod->vAddr`; `objGate` = `obj->localGate`, or no object; `taken` = the lock register; `owner/count` = the recursive GateMutex; `nested` = `obj->nested` per process and lock |
| `MessageQDaemon` | The LAD queue table and the message sequence stamp | `queues`, `numQueues`, `refCount`, `seqNum`; per object `index` (its queue id), `nsKey`, `ownerPid` |
| `VAYUDspHalMmu` | `halMmuCtrl` (Enable/Disable), static entries as built, fault path | `memTable`/`i` = the table and the loop of `AddStaticEntries` (an entry is its size; an add only yields a status, as `VAYUDSP_InternalMMU_PteSet` has its body under `MMUTEST`); `isrHandle` = per MMU fault handler none/created/installed; `irqStatus/irqEnable` = MMU_IRQSTATUS/IRQENABLE; `istPending` = the deferred isr scheduled; `procState` = `Processor_setState`; `unreported` = the isr ran and `VAYUDSPPROC_open` failed |

Each `MC*.tla` module extends its specification and defines the constants the
`.cfg` files substitute.

Some conventions apply to all the modules:

- **Atomicity.** Each action is a whole handler, or the part of a handler
  between two points where another actor can see its state.
  - In `VirtQueue`, GateHwi makes `getAvailBuf` atomic against the slave ISR
    only. The host still interleaves.
  - In `VAYUIpcInt`, each refcount update is atomic. The list lookup and the
    list insert are separate steps.
- **Host side of the vring.** The virtio host driver is not in this
  repository. Its actions (`Host*`) are modelled from the transport's
  specification and marked `spec_modelled` in the map. The mailbox send and
  receive of the host are from `VAYUIpcInt.c`.
- **Recursion.** `CleanupFrom` in `MessageQDaemon` is a RECURSIVE operator
  that follows the loop of `MessageQ_cleanupOwner`: it walks the slots
  `0 .. numQueues-1`, finds each slot's queue through its index, and deletes
  it when the owner matches.
- **Assertions.** `GT_assert` only traces in these builds. `VAYUIpcInt_destroy`
  therefore runs whether or not `isSetup` holds.
- **MMU as built.** `VAYUDSP_InternalMMU_PteSet` has its body under `MMUTEST`,
  which is never defined, so adding an entry writes no page table entry. The
  model keeps the status only: the attribute switches of `_halMmuPteSet` may
  reject the hard-coded `MMU_RAM_ELSZ_16` (`PteSetCanFail`), as the headers that
  decide it are not in the repository. The page split is left out. (Its loop
  also never advances the physical address, only the virtual one; as built
  this has no effect.)

## Runs

| Run (cfg) | Expect | What it shows |
|---|---|---|
| vq_ring (`MCVirtQueue`) | pass | Through idx wrap-around and all host/slave interleavings, `VirtQueue` implements `RingChannel`: each descriptor is in exactly one place, buffers are taken in the order lent and taken back in the order returned. No lost wake-up: every buffer offered after `VirtQueue_create` is consumed. `RequestsAnswered`: every echo or hibernation request gets its reply (echo reply; ack or cancel; ack for a forced one) as the host's next reply, although the ISR spins for the shared FIFO |
| ipc_msg (`MCVAYUIpcInt`) | pass | Setup fails at any of its four maps or its list creations, or succeeds; destroy and a second setup follow. With concurrent clients and allocation failures, the cache is bounded, elements do not leak (destroy's `List_delete` included), and per-processor order is kept |
| ipc_reg (`MCVAYUIpcIntReg`) | pass | When calls do not overlap and succeed (a nested registration included), the refcounts, IRQ, fxn, list and handlers match the registrations. With `get_msg` allowed to fail, every word sent while enabled is handled, with one deferred pass per fast phase, also when two words of DSP1 wait on one list |
| ipc_destroy (`MCVAYUIpcIntDestroy`) | violation | `DestroyUndoesSetup`: after destroy nothing is mapped or listed. A setup whose first `Memory_map` fails leaves `isrHandles` NULL; destroy's `GT_assert(isSetup)` only traces, and its `List_traverse_safe` walks the NULL list before any unmap |
| ipc_reg_fail | violation | A failed register leaves refcount, IRQ enable and possibly an installed handler behind |
| ipc_reg_race | violation | Concurrent registers on one line install two handlers |
| ipc_unreg_race | violation | The callback is entered after unregister cleared `fxn` |
| gate (`MCGateHWSpinlock`) | pass | `GateRefinesSpinLock`: the gate implements `SpinLock`; the register is taken in the step that makes a thread the holder and freed in the step that ends its hold, with nested enters, the spin loop and the lifecycle as stuttering steps. This holds across failed starts (mmap or GateMutex), retries and stop/start cycles. Mutual exclusion across processes and nested, spinning threads; spinning threads always let some thread into a critical section |
| mq_table (`MCMessageQDaemon`) | pass | The table and the live queues stay one-to-one through create/delete/grow/cleanup/destroy |
| mq_reserved | violation | `queueIndex == numReservedEntries` is accepted as a reserved index |
| mq_grow_wrap (`MCMessageQDaemonGrowWrap`) | violation | With the UInt16 width scaled to 4 bits, `oldSize` in `_MessageQ_grow` wraps to 0 at the first grow: the old entries are not copied and a live queue drops out of the table (on a 64-bit host this happens at 8192 queues) |
| mmu_fault (`MCVAYUDspHalMmu`) | pass | After an enable whose handler creation, installation and entry adds may each fail, `FaultReported`: a fault on either MMU, raised while its handler is installed, ends in `Mmu_Fault` unless the MMU is disabled first or the isr's `VAYUDSPPROC_open` fails, although `checkAndClear` serves MMU0 first and clears one MMU per call |

A buffer offered and kicked before `VirtQueue_create` waits for the next
kick: the ISR drops a kick for an unregistered vring and `create` does not
look at `avail->idx`. The host driver offers its buffers before it sets
DRIVER_OK, which `VirtQueue_startup` waits for. So `OfferedAfterCreateConsumed`
claims only the offers made after `create`, and this case is a hazard in
`PROJECT.json`.

The refinement of `SpinLock` maps each lock's holder to the thread between
a returned first enter and its last leave, and `locked` to the register.

Descriptor conservation needs no invariant of its own: `RingChannel` keeps
each buffer in exactly one place, so the refinement implies it.

Two observations about `VAYUIpcInt` have no run; they are hazards in
`PROJECT.json`:

- **Coalesced deferred passes.** `_VAYUIpcInt_isr` takes one element per
  processor per pass. `MessagesHandled` holds only if OsalIsr (not in the
  repository) runs one deferred pass per fast-phase run. If passes coalesce, a
  queued word is stranded.
- **Heap use in the fast phase.** `get_msg` calls `Memory_alloc` whenever
  `msg_cache` is empty. The fast phase therefore does not draw only from the
  bounded pool.

Each property of a passing run has a mutant in `PROJECT.json`. A mutant is a
fault variant defined in the module, and TLC finds the property violated when
the fault variant replaces the mapped definition. The fault variants are:

- a cursor that never wraps;
- a get that does not advance `last_avail_idx`;
- no clear of NO_NOTIFY;
- an ISR that sends no cancel when the core cannot hibernate;
- a cache off by one;
- a message queued at the head;
- an unregister that keeps the IRQ on;
- a fast phase that never claims the interrupt;
- a spin that holds the local gate;
- a leave that always frees or never frees;
- a grow without resize or without copy;
- a `checkAndClear` that serves MMU0 only;
- a nesting test in `GateHWSpinlock_enter` that is off by one, so a first entry skips the register.

## Bounds and why they are enough

- **VirtQueue.** `VQ_SIZE` is 2 and `IDX_MOD` is 4.
  - So 4 offers wrap every idx field once and reuse each descriptor twice.
  - A 4-word FIFO holds every word in flight.
  - `MaxOffers` (4) bounds offers and control words together. A behaviour
    without a control word makes 4 offers and wraps; one with a control word
    makes up to 3.
  - There is one control word per behaviour: echo, hibernation (the ISR
    picks ack or cancel, as `IpcPower_canHibernate` may return either) or
    cache flush. Forced hibernation takes the ack path of hibernation, and
    mailbox-ready the no-reply path of the flush. A second control word
    only repeats these paths.
- **VAYUIpcInt.** The model has 2 processors on one interrupt line and a cache
  of 1.
  - The bounds `MaxMsgs` and `MaxRegs` are per processor.
  - The message run uses 2 words per processor and 1 register call.
  - The register violations use 1 word and 2 register calls per processor.
  - `ipc_reg` gives DSP1 2 words and 2 register calls and IPU1 one of each,
    with a mailbox depth of 1 and one setup. `get_msg` may fail there
    (`MsgAllocCanFail`), so a dropped word is followed by one still queued.
    Symmetric bounds of 2 did not finish in reasonable time.
  - These bounds give cache hits and misses, several words queued before one
    deferred pass, and overlapping or nested registrations.
  - `MaxSetups` is 2: a setup (failing at any step when `CanFail`), destroy,
    and a second setup over what the first cycle left.
  - A complete setup soft-resets mailboxes 5 and 6. This empties their FIFOs
    and clears the IRQ enables. Words discarded this way count as `handled`.
- **GateHWSpinlock.** Threads t1 and t2 run in P1 and t3 in P2, with 2 locks
  and nesting depth 2. This covers same-process spinning, cross-process
  contention and nested enters. `MaxStarts` is 2 per process, which gives a
  failed start and its retry, or a stop and a restart with new objects.
- **MessageQDaemon.** The bounds are 3 objects, 1 reserved entry, a runtime
  size of 2, a grow size of 1 and 2 setups. Together they reach holes, growth,
  explicit indices and a full destroy/setup cycle. `MaxSeqNum` (2) lets
  `msgInit` stamp twice between first setups.
  - `UINT16_BITS` is the width of `numQueues` and `oldSize`. It is 16 in the
    passing run. `HANDLE_SIZE` is 8, as on a 64-bit host.
  - `mq_grow_wrap` sets the width to 4 bits. `oldSize = 2 * 8` then wraps to
    0 at the first grow, as 8192 * 8 does at 16 bits.
- **VAYUDspHalMmu.** The memory tables are empty or have one or two entries,
  of size 0 (skipped) or not. Every entry add may succeed or fail.
  - There are two MMUs. `OpenCanFail` lets the isr's `VAYUDSPPROC_open` fail. `IsrCanFail` lets each OsalIsr create and install
    fail. Faults come at any time after a successful set-up, on either MMU or
    on both.

## Fairness

Fairness is weak, and it is placed only on steps the code will take once they
are enabled:

- the hardware taking a pending mailbox interrupt;
- a scheduled callback or deferred phase running;
- a sender spinning on a FIFO;
- a call in progress finishing.

Some steps are the environment's choice and have no fairness:

- host offers;
- pings;
- registrations;
- remote sends;
- starting an enter;
- setup, destroy, start, stop, create and delete.

In the MMU model, the fast phase `checkAndClear` (while its line is asserted)
and the deferred `_isr` (once scheduled) are weakly fair. A fault and a
disable are the environment's choice.

The daemon model checks no liveness.

## Not modelled

- The callers of `VAYUIpcInt_setup/_destroy` and of
  `GateHWSpinlock_start/stop/create/delete`. They are not in this repository.
  The models assume the usual order:
  - destroy runs with no registration, no installed handler and an idle
    deferred phase;
  - gate objects are created after a start that succeeded and deleted before
    stop.

  Calling `GateHWSpinlock_stop` after a failed start would unmap the stale
  `vAddr` a second time, and a stop before a delete leaves an object with a
  deleted local gate. Both are hazards in `PROJECT.json`; no run calls them.
- The register addresses, the MMR unlock value and the `procIds` that setup
  writes.
- `_MessageQ_setNumReservedEntries`. Its caller is not in this repository,
  and the model fixes `numReservedEntries` as a constant. `getQueueId` and
  `getNameServerHandle` only read.
- `_VAYUDSP_halMmuDeleteEntry`. No path calls it: the `halMmuCtrl` DeleteEntry
  command is empty. It would dereference a NULL `iopgd` at line 911.
- `RP_MBOX_ABORT_REQUEST`. It crashes the slave on purpose by calling
  through a NULL function pointer.
- `IpcPower_suspend` and `IpcPower_canHibernate`. They are not in this
  repository. `canHibernate` is a free choice, and suspend is taken to return
  on wake-up.
- `VirtQueue_postCrashToMailbox` and the `VirtQueue_cacheWb` clock function.
  They do cache maintenance and post a crash word, and keep no state the
  model uses.
- The MMU fault address and the trace output of `checkAndClear`.
- The handlers that `halMmuEnable` leaves behind when it fails. The model
  keeps them, but the caller that would clean them up is not in this
  repository.
- `_MultiProc.h`.

## Plan for later work

1. **VirtQueue: the slave-to-host vring.** It should be a second instance of
   `RingChannel`.
2. **The `addUsedBuf` bounds check.** Model a caller that can pass any head,
   to expose the `head == num` off-by-one.
3. **A composed host/slave model.** Use `VAYUIpcInt` as the host side of
   `VirtQueue`.
