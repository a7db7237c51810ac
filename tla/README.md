# A verification project for the SysLink/rpmsg firmware and its benchmarks

The repository is the BIOS side of an asymmetric multiprocessor: TI SYS/BIOS
firmware for the M3 cores and the DSP of an OMAP, which talks to Linux on the
host (the A9) over virtio rings in shared memory. Its subject is a set of
benchmark programs, `sysbios-rpmsg_*`, each the firmware with a numerical kernel
that the host, the DSP and two tasks of the M3 compute together. Some host-side
tools come with it. The protocol code is in `src/common/src/ti`, what the
kernels share in `src/common/m3.c` and `dsp.c`, and the ELF loader and the tools
that make the images of the remote processors in `src/common/src/utils`.

The modules here are TLA+ models of that code, checked with TLC on small
instances, with theorems checked by TLAPS for all values of the constants.

## 1. Inventory

### The parts and how they interact

```
   Linux host (external)
     |  vrings in shared memory + 32-bit hardware mailbox messages
     v
 InterruptIpu / InterruptDsp   Hwi: one mailbox message -> VirtQueue_isr(msg)
     v
 VirtQueue        rings toHost, fromHost; kick; suppression flags; system messages
     |  callback_availBufReady: Swi_post / Semaphore_post       \-> IpcPower, OffloadM3
     v
 MessageQCopy     endpoint table, message heap, Swi, send / recv / unblock
     ^            ^            ^              ^
 RcmServer    RcmClient    IpcResource    NameMap, OmxSrvMgr, OmapRpc
     ^                                         |
     +------------- ServiceMgr <---------------+
```

The benchmark programs lie beside this:

```
   host          DSP main task        M3: fxnTest1 -> task 0, task 1
     \                |                     |            |
      +---- callBarrier (shared memory) ----+            |
             lock / unlock = HwSpinlock     +-- callLocalBarrier
```

The host asks for a kernel through `fxnTest1`, an OMX/RCM function; the M3 makes
two tasks of it, one per core, and waits for an event of each. Buffers are
shared, so what a thread may read is a matter of the barriers between its work
and that of the others, or, in the programs that multiply matrices, of the
caches each processor writes back and invalidates.

Before any of it runs, `genbase` has the ELF loader copy an executable into an
image, `genextbin` gives the image its page table and table of contents; and the
loader (`elfload`) is what a client would load dynamic modules with.

Every context of SYS/BIOS appears: Hwi (mailbox interrupt), Swi (message
drain, suspend), tasks of several priorities, in the non-SMP build two M3 cores
that run separate images, in the SMP build two cores under one scheduler.

| Part | State | Operations | What is hard |
|---|---|---|---|
| **VirtQueue** (`ipc/rpmsg/VirtQueue.c`) | shared avail/used rings, UInt16 indices, two suppression flags, `last_avail_idx` | `create`, `getAvailBuf`, `addUsedBuf`, `kick`, `isr` | lock-free ring shared with another processor, index wrap, notification suppression, messages dispatched in an ISR |
| **MessageQCopy** (`MessageQCopy.c`) | endpoint table, objects with list + semaphore + unblocked flag, fixed block heap, transport handles, init count | `init`, `finalize`, `create`, `delete`, `send` (local, to host), `recv`, `unblock`, the Swi, the callback | multiple writers against one reader, delete against send, list and semaphore updated apart, resource exhaustion |
| **InterruptIpu / InterruptDsp** | hardware mailbox FIFOs, the inter-M3 interrupt bit | `intSend`, `intClear`, `isr` | spinning on a full FIFO, check-then-write, read-modify-write of a bit shared by two cores |
| **OffloadM3** | five semaphores, three workers, `created` | message dispatch in the ISR, create task, delete task, workers | ISR against create/delete |
| **IpcPower** | wake and hibernate locks, callback list, suspend Swi/task | locks, callbacks, `suspend`, `canHibernate` | check in an ISR, act in a task |
| **ServiceMgr, OmxSrvMgr, NameMap** | service definitions, tuple table | register, create/delete service, connection server | unlocked tables, failed creates |
| **OmapRpc** | channel object, task, exit semaphore | create/delete channel, channel task | shutdown handshake on failed creation |
| **RcmServer** | symbol table, job list, pools, message queues | start, dispatch, exec, acquire/release job, workers | job streams, queues under two gates, replies |
| **RcmClient** | message id counter, mailman state, two locks | exec, execDpc, execNoWait, waitUntilDone, getReturnMsg | many tasks share one reply queue and pass each other's messages on |
| **IpcResource** | one endpoint and semaphore per handle | connect, request, release, setConstraints, disconnect | a late answer after a timeout |
| **HwSpinlock** | reference count, state, local mutex, hardware register, the word of lock bits for the host | create, delete, enter, leave | a lock nested in a mutex, objects created and deleted at every use, timeouts |
| **Barriers** (`common/m3.c`, `dsp.c`) | counter and sense per barrier in shared memory; one local pair on the M3 | `callBarrier`, `callLocalBarrier`, `lock`, `unlock` | reversal of the sense under the lock, waiting outside it, reuse while somebody is still inside |
| **Kernels** (`sysbios-rpmsg_*/m3_test_omx.c`, `dsp_test_omx.c`) | shared buffers, tasks, the event they post | `fxnTest1`, `common_wrapper`, the kernel's loop | three threads and two kinds of barrier; only task 0 meets the DSP |
| **Deh, Watchdog** | a timer per core, who is in which thread, what was reported | hooks, stop/start/kick/restore, the exception handler | timers of two cores, refreshed by hooks, stopped while a core idles or sleeps |
| **Trace (SysMin)** | circular buffer read by the host, a line per core | `putch`, `output` | per-core line buffers, wrap |
| **HdmiWa** | registers of the tick timer and of the pulse generator, flags shared with two ISRs | the task, the two ISRs | a timer that is the system's clock too, a match set in the past |
| **Multiply programs** (`sysbios-rpmsg_imgkernel` and four more) | shared matrices, a cache per processor, globals with the tasks' rows | `fxnTest1`, its two tasks | stale lines, lines put out at any time |
| **ELF loader** (`utils/elfload`) | list of loaded modules, dependency list and stack, symbol tables, DSBT, target memory, debug records | `DLOAD_load`, `DLOAD_unload`, relocation, initialisation | recursion through the client, errors half way, forty relocation types |
| **Image tools** (`genbase.c`, `genextbin.c`) | the image, its resource table, page table, table of contents | copy, patch, map, sign | addresses translated by pieces of several sizes |
| IpcMemory, utils, configuration | static tables | lookup | none that a model would tell apart |

### What makes each part correct

* **VirtQueue** - every buffer of a ring has one owner, whatever the 16-bit
  indices have wrapped to; the rings are two FIFO lists; a returned buffer is
  collected and an offered one is looked at.
* **MessageQCopy** - an endpoint is a FIFO mailbox; blocks of the heap are
  neither lost nor shared; the count of the semaphore and the length of the
  list agree when the reader looks; nobody touches a deleted object; a blocked
  reader or sender is released when there is something for it.
* **InterruptIpu, InterruptDsp** - mail arrives whole and in order, at AppM3
  through SysM3 too, and none stays in a FIFO without an interrupt to come.
* **OffloadM3** - all workers exist or none, `created` says which, but for those that
  an exit leaves behind; a payload is run and said to be done.
* **IpcPower** - nobody is suspended whom the host takes for awake; what the host
  was promised to sleep sleeps; callbacks reach who is registered; exit returns.
* **ServiceMgr, OmxSrvMgr, OmapRpc** - a tuple belongs to one live server; the
  address in a success response is that of the server created for it; a channel
  that cannot be created is torn down without waiting for ever.
* **RcmServer, RcmClient** - every message sent with a wait gets its own reply,
  once; jobs run their messages in order; a released job leaves nothing behind;
  no task sleeps on a reply that another has taken off the queue; the index of a
  symbol calls no other; an instance that could not be made leaves nothing.
* **IpcResource** - the answer a request returns is the answer to that request,
  unless an earlier one has timed out; every path gives the semaphore back.
* **Watchdog, Deh** - a core that sticks is found, one that does not is not; the
  host hears of an exception once.
* **SysMin** - the host reads whole lines of one core, and the end of the stream.
* **HdmiWa** - one pulse passes per period; a match that is awaited will come.
* **HwSpinlock** - one holder in the whole system; a lock in use is not deleted.
* **Barriers** - nobody leaves before everybody has come; everybody leaves.
* **Kernels** - a thread reads a part of a buffer when the version it needs is
  there and nobody writes it; `fxnTest1` returns when the work is done.
* **Multiply** - the host reads the product of what it wrote for this call.
* **ELF loader** - a relocation without an error leaves a field that means the
  value; each entry is applied once; modules are loaded with what they need,
  counted, initialised once and freed; addresses are moved once; memory has
  one owner.
* **Image tools** - every section is in the image, patched and translated.

The hazards behind these, each with the line where it bites, are the `hazards`
of `PROJECT.json` (the list is kept to forty; some of the findings below belong
to others).

## 2. The modules

### `Vring` - what a virtqueue promises

Buffers are free at the host, in the FIFO list of offered ones, held by the
core, or in the FIFO list of returned ones. There are no indices. `OneOwner`
says that no buffer is in two places or in none.

### `VirtQueue` - the rings

One virtqueue with its shared memory as the code has it: `avail->idx` and
`used->idx` modulo `IdxMod` (2^16 in the code), rings indexed modulo `Num`, the
flags `VRING_AVAIL_F_NO_INTERRUPT` and `VRING_USED_F_NO_NOTIFY`, and the two
mailboxes. A call of the core is cut where the host may act between two
accesses to shared memory:

| Code | Actions |
|---|---|
| `VirtQueue_create` | `Init` (`last_avail_idx = 0`, `NO_NOTIFY` set for the host) |
| `getAvailBuf`, a head is there | `GetAvailBuf` |
| `getAvailBuf`, nothing there | `GetAvailBufEmpty` (the comparison), `ClearNoNotify` (the flag) |
| `addUsedBuf` | `AddUsedBufFill` (the element), `AddUsedBufPublish` (`used->idx++`) |
| `kick` | `Kick` (the test), `IntSend` (the mailbox, waits while it is full) |
| `isr`, a vring message | `Isr` |
| host driver (external) | `HostAddAvail`, `HostKick`, `HostIsr`, `HostGetUsed`, `HostEnable`, `HostRecheck` |

The host's driver is not in the repository. It follows the protocol that
`VirtQueue.h` and `virtio_ring.h` describe: the element before the index, on
either ring a kick unless the flag asks for none, interrupts off while it polls,
on again with one more look.

`VirtQueue` implements `Vring`: the two lists are the parts of the rings
between the two indices that bound them (`Window`), and a buffer that is
written into the used ring but not published is still held (`InCall`).

### `MessageQCopy` - endpoints, heap and Swi

Readers create an endpoint, receive on it and delete it; senders are tasks; the
Swi sends what the host has put in the vring; unblock may come from any task.
The vring is the abstract one (a FIFO and a count), which `VirtQueue` justifies.

| Code | Actions |
|---|---|
| `create` | `Create` (the whole search is under the gate) |
| `recv` | `RecvCall` (`Swi_post`), `RecvPend` / `RecvTimeout`, `RecvUnblocked` / `RecvNotUnblocked`, `RecvGet`, `RecvFree` |
| `delete` | `DeleteSem`, `DeleteDrain` (per block), `DeleteSlot`, `DeleteFree` |
| `send` to an endpoint | `LocalSend` (the slot under the gate), `SendAlloc` / `SendNoMemory`, `SendPut`, `SendPost` |
| `unblock` | `UnblockFlag`, `UnblockPost` |
| `swiFxn` | `SwiBegin`, `SwiSend`, `SwiAddUsed`, `SwiEnd` |
| `callback_availBufReady` (fromHost) | `AvailBufReady` |

A section under `module.gateSwi` is one step. So is each call of List, HeapBuf
and Semaphore, which SYS/BIOS makes atomic. `SMP` chooses the build: on a
single core a Swi that is posted or running keeps the tasks off (`TasksRun`),
in the SMP build they run beside it. The model runs with `SMP = TRUE`, which
allows every behaviour of the other.

`QuiescentDelete` is the promise the API leaves to its clients: delete is called
only when no send to the endpoint is under way, none begins meanwhile, and the
host has no message for it in the ring. With it off the code alone has to cope;
see the finding of `message_delete`.

### `Mailboxes` - what MessageQCopy promises

An endpoint is a FIFO of payloads from create to delete. `MessageQCopy`
implements it: the box of an endpoint is the list of its object, until
`DeleteSem`, where the endpoint closes and what is queued is lost.

`Symmetry` is for the instance that checks safety only.

### `RxPath` - from the host's offer to a blocked reader

`VirtQueue`, with the Swi as the caller of `getAvailBuf`, `addUsedBuf` and
`kick` in the order of `MessageQCopy_swiFxn`, the mailbox Hwi that posts the
Swi, and one reader that posts the Swi itself and blocks. Here the question is
notifications only: whether some order of the host's flag test, its kick, the
ISR, the Swi and the reader leaves a message in the ring with nobody to look.
`MCRings` puts `RxPath` and `TxPath` beside each other, one for each virtqueue.

### `TxPath` - tasks that send to the host

`VirtQueue`, with tasks in `MessageQCopy_send` as its callers under
`module.gateSwi`: reset the semaphore and look for a buffer, block on
`semHandle_toHost`, copy outside the gate, return and kick under it. The Hwi
posts the semaphore between any two steps. A post hands over to the task that
has waited longest, as SYS/BIOS does.

### `Mutex`, `HwSpinlock` - a lock across processors

`Mutex` is a holder. `HwSpinlock` has per image a table of reference-counted lock
objects with a local gate, and the hardware registers, shared by all images,
whose read takes them. `MCBenchmarks` places the tasks on their images.

| Code | Actions |
|---|---|
| `create` (under the system gate) | `Create` |
| `enter` | `EnterMutex`, `TakeReg` or `Back` (the register is taken: again, or a timeout), `MarkTaken`, `SetRead`, `SetWrite` |
| `leave` | `ClearReg`, `MarkFree`, `ClearRead`, `ClearWrite`, `LeaveMutex` |
| `delete` (under the system gate) | `Delete` |

`_HwSpinlock_set` and `_HwSpinlock_clr` read and write one word of several locks
under the gate of one lock, so they are two steps. The tasks go round as
`lock` and `unlock` of the kernels do, with create and delete at each use, or as
those of `hwspinlock_task.c`, which give up.

### `Rendezvous`, `Barrier` - the barriers

`Rendezvous` counts calls: a participant leaves its n-th when all have made
theirs. `Barrier` is `callBarrier`, and `callLocalBarrier`, which is the same
with a semaphore for the lock: `Enter` takes the lock (a `Mutex`), `Count` moves
the counter by the sign of the sense, `Flip` reverses the sense if the caller is
the last, `Unlock`, and `Leave` when the counter has the awaited value, read
outside the lock. `Schedule` is the barrier of each call in order, so a barrier
may be used again while a slow participant has not looked yet. `MCBenchmarks` has
the schedule of a kernel.

### `Kernels` - what the barriers are for

Seven kernels, each a sequence of steps per thread: meet at a global or the local
barrier, or work. Work needs parts of buffers in given versions and makes
others; the arithmetic is left out. It begins and ends in two steps, so two
pieces of work overlap where no barrier keeps them apart. The barriers are two
instances of `Rendezvous`, which `Barrier` implements. That a call returns holds for
the code only where no barrier is used twice in a row (see the findings), so a thread
that another has overtaken in the barrier it waits in does not leave it any more
(`GlobalOvertaken`, `LocalOvertaken`), and `KernelReturns` has that as the other
outcome (`LeftBehind`). An `ASSUME` that TLC
evaluates says that those who meet call them in the same order. The host is left
out: as a third participant of `callBarrier` it only makes the others wait.
`Create`, `Post` and `Return` are the M3's `fxnTest1` with its two tasks and its
event; both `Task_create` are supposed to succeed. `MCBenchmarks` names two sets of
kernels, those whose barriers order their accesses and the others.

### `Calls`, `RcmClient` - replies on a shared queue

`Calls` is the promise: a message is free, sent, answered and returned, and the
thread that gets it is the one that sent it. `RcmClient` is the algorithm of
`RcmClient_getReturnMsg_P`, in which a thread that waits takes messages for all
the others:

| Code | Actions |
|---|---|
| `alloc` and `execNoWait`; the first part of `exec`, `execDpc`, `getSymbolIndex`, `acquireJobId`, `releaseJobId` | `ExecNoWait` |
| `waitUntilDone`; the second part of those | `WaitUntilDone` |
| `free` | `Free` |
| `getReturnMsg`: the reply is in the mailbox | `FindNewMail` |
| it is not, and the queue lock is free | `BecomeMailman` |
| it is not, and somebody is mailman | `BecomeRecipient`, then `PickUp` when the event is posted |
| the mailman's loop, per message | `TakeOwn` (and hand the role over), `Deliver` |
| the queue is empty | `QueueEmpty` (gives the mailbox back), `GetNext` (the blocking get) |
| `MessageQ_get` fails | `GetFails` |
| the server (external) | `Answer` |

A section under the mailbox lock is one step, except the mailman's, which is
one step per message. A message is its id; `FreshId` is the promise of the
clients that no message is out for 65535 others, which makes ids unique. The
recipients are a set: whom the code finds first on its list is left open, which
allows every order of it. `ExecOnly` are threads that use the calls that wait
only, to keep the instance small.

`RcmCommands` has the other side of the client: one thread, its calls, and what
the field of the descriptor is worth in which the client puts the type of a
message and the server its status.

| Code | Actions |
|---|---|
| `alloc`, `free` | `AllocPacket`, `FreePacket` |
| `exec`, `execDpc`, `execNoWait`, `execCmd` | `Exec`, `ExecDpc`, `ExecNoWait`, `ExecCmd`; a put that fails is `SendFails` |
| `getSymbolIndex`, `acquireJobId`, `releaseJobId` | `GetSymbolIndex`, `AcquireJobId`, `ReleaseJobId` |
| `waitUntilDone`; the second half of a call | `WaitFor`, `GetReply` |
| `checkForError` | `CheckForError` |
| `RcmServer_process_P` as far as types and statuses go | `Serve` |

### `RcmServer`, `RcmSymbols` - the command server

`RcmServer` is an instance with its server thread, worker pools, ready queues,
job streams and end; `Configs` gives it a pool for each worker and the kinds of
messages that come. A section under a gate is a step, so that a worker and the
server thread meet between the gates.

| Code | Actions |
|---|---|
| `serverThrFxn_P` | `ServerTake`, `ServerProcess` (with `Process`, `Rejected`), `ServerExit` |
| `dispatch_P` | `Dispatch`, `PutReady` |
| `acqJobId_P`, `relJobId_P` | `AcquireJob`, `ReleaseJob`, with `IdAfter` and `FreeIds` for the counter that comes round |
| `workerThrFxn_P` | `WorkerTake`, `WorkerProcess`, `WorkerNext` with `NextOfJob` |
| `start`, `delete`, `finalize_P` | `Start`, `Delete`, `JoinServer`, `TerminatePool`, `JoinPool`, `ReturnReady` |

`RcmSymbols` is its function table: `addSymbol` (`AddAddr`, `AddName` or
`AddNoMemory`, `AddKey`) and `removeSymbol` (`RemoveAddr`, `RemoveName`,
`RemoveKey`) write a slot in three accesses under the gate; the lookups
`SymIdxName`, `SymIdxKey`, `FxnAddr`, `FxnChecked` take none, though the comment on
the first (`RcmServer.c:1646`) asks for it. So a lookup by name may answer with the key
of a symbol that has taken the slot meanwhile, or with none; `owner` is whom the key was
given to, and `IndexCallsItsOwner` speaks of it and not of the name that was asked for.

### `RcmInstances` - create, construct, delete

A ladder of things to acquire, each of which may fail (`Acquire`,
`AcquireFails`, `OpenFails`), and `Release` for what finalize gives back, in its
order. Where finalize would go on with a field nobody has set, the phase is
"wild" and the model ends; `WildOnlyThere` says where that may be.

### `Services` - ServiceMgr, OmxSrvMgr, OmapRpc, NameMap

The connection server and the channels are tasks of one kind, `ConnTasks`; they
share the tables of ServiceMgr. `CreateRefused`, `CreateServer` and `CreateStore`
are `createService` cut where it may block, `DeleteNotFound`, `DeleteRemove` and
`DeleteServer` are `deleteService`; `Announce`, `Receive`, `ServeOther`, `Leave`
and `SignalExit` the tasks' loops; `CreateChannel`, `ChanMsgQ`, `ChanSem`,
`ChanTask`, `DeleteChannel`, `DeleteUnblock` and `DeleteFree` the life of a
channel, each step of which may fail.

`MCRcmServer` has these five, `RcmServer`, `RcmSymbols`, `Services`,
`RcmCommands` and `RcmInstances`, as parts: a behaviour is one of a single part,
since they share no state that would make their interleavings matter.

### `Interrupts`, `IpcPower` - mailboxes, hibernation, suspension

`IpcPower` has the locks, the suspend Swi and task, the walk over the callbacks
(`Visit`, one node a step) and init and exit. `Interrupts` adds the two drivers
and the system messages of `VirtQueue_isr`:

| Code | Actions |
|---|---|
| `intClear` on SysM3, the DSP, AppM3 | `ClearSysM3`; `ClearDsp`; `ClearBit`, `ClearFifo`, `ClearStatus` |
| `VirtQueue_isr` | `Dispatch` (what it decides), `IsrReturn` (`IpcPower_suspend`) |
| `intSend` and the inter-M3 bit | `IntSend`, `IntTrigger` |
| the host (external) | `HostSend`, `HostReceive`, `HostWake` |

`sent` is the mail to each processor, of the host or, on AppM3, of SysM3's `Dispatch`; `heard`
is what of it `VirtQueue_isr` was called with; that it tells no queue of AppM3's is a
finding below. In the part `power` of `MCFirmware` there is
no host (`hostPc` is "away").

### `OffloadM3`, `IpcResource`, `Watchdog`, `SysMin`, `HdmiWa`

* `OffloadM3`: `OffloadInit` and `OffloadExit`, whatever the tasks are at; `Ask` is
  `processSysM3Tasks` in the ISR; `OffPend`, `WorkerRun` a worker; `MutexEnter`,
  `CreateSem`, `CreateWorker`, `DeleteWorker`, `AllMade`, `MutexLeave` the create and
  delete tasks.
* `IpcResource`: `Connect` with `ConnectAck`, `ConnectRefused` or `ConnectTimeout`, `Call`, `ResPend`, `ResSend` or `ResSendFails`,
  `ResRecv` or `ResTimeout`, `Release`, `Disconnect`; the host's manager answers
  in order. Answers carry the number of their request, which the code does not
  see.
* `Watchdog`: the hooks `Switch` and `IdleBegin`, `Restore` after a suspend, the
  timers (`Tick`), and `Exception`, the handler of Deh, which tells the host by
  mail unless the timer already has.
* `SysMin`: `Putch`, `EnterGate`, `Output` (a character a step; the tag of the core and its
  time stamp is one byte), `Publish`. A character has the number its core has given it
  (`said`), which the code does not see; `stream` is all that ever went into the ring.
* `HdmiWa`: the task (`RecvSetup` or `RecvStop`, `Sync`, `Spin`, `SetHalf`, `SetFull`,
  `SetPeriod`, `StartTimer`, `RecvTrigger`), `AutoRldTmrIsr`, `MatchTmrIsr`, and
  `Cycle`, in which the counter and the pulse generator go on.

### `Multiply` - the programs without barriers

The host writes two matrices and asks the M3 and the DSP for a range of the rows
each. `MpEnter` is the start of `fxnTest1` (rows into globals, the invalidation, two
tasks), `MultiplyRow`, `PostEvent`, and `MpLeave` the write-back and the end. Every
processor has a cache; reads bring lines in, and `Evict` puts one out at any
time. `MCBenchmarks` has `HwSpinlock`, `Barrier`, `Kernels` and `Multiply` as parts.

### The ELF loader and the image tools

| Module | Code | What it has |
|---|---|---|
| `ArmReloc` | `arm_reloc.c` | 32-bit words as sets of bits; value, limit, field and byte order of each ARM type |
| `Relocations` | `arm_reloc.c`, `c60_reloc.c` | the same for C6000; a table with an entry for each symbol, applied |
| `RelocTables` | both | which entries each visit of a table applies |
| `Loader` | `dload.c` | `DLOAD_load` with the client's recursive loads, errors at each step, the dependency graph, `DLOAD_unload` |
| `ElfImage` | `dload.c`, `symtab.c` | segments placed, symbols and dynamic tags moved, initialisation and termination functions |
| `Dsbt` | `dlw_dsbt.c` | indices, and the tables of static bases |
| `DebugRecords` | `dlw_debug.c` | the list of modules that a debugger reads |
| `TargetMem` | `dlw_trgmem.c` | packets of target memory: split, aligned, joined |
| `FirmwareImage` | `genbase.c`, `dlw_client.c`, `genextbin.c` | segments copied, resources patched, page table, table of contents |

These are sequential programs: what is nondeterministic is the input (files,
graphs of modules, tables, symbols) and whether a step fails. They and the modules
before them are the parts of `MCFirmware`.


## 3. The runs

Where a module holds several parts a property is the conjunction of what is
asked of the parts; the names in brackets are the conjuncts.

| Run | Instance | Shows |
|---|---|---|
| `message` | 2 readers, 1 sender, the Swi, 2 objects, 2 blocks, 2 endpoints, `QuiescentDelete` | `EveryBlockHasOnePlace`, `NoNullPayload`, `SlotsAreObjects`, `HostIsTold`, `NoUseAfterDelete` |
| `message_order` | 1 reader, several messages, two payloads | endpoints are FIFO mailboxes (`ImplementsMailboxes`); a message, or an unblock, releases the reader (`ReadersAreReleased`) |
| `message_delete` | as `message`, without the promise | **violation**: a sender uses an object that is being deleted |
| `rx_path` | 2 buffers, indices mod 4, a heap of 1 block, a host that honours the flags, a reader with timeouts | `BuffersAreOwned`, `ImplementsVring`; `BuffersKeepMoving`: returned buffers are collected, and an offer the core was told of, or polls for, is taken |
| `rx_lost` | the same, the reader waits for ever | **violation**: an offer between the test and the clearing of the flag is never looked at |
| `tx_path` | 2 senders, 2 buffers, a mailbox of 1 | senders own distinct buffers (`SendersKeepApart`); a blocked sender is released by a buffer that is announced or yet to be offered (`BlockedSenderIsReleased`) |
| `rcm_client` | 3 threads, one with several messages out, ids 1..3 | `Calls` is implemented; `MailmanIsFair`, `ReplyReachesCaller` |
| `rcm_server` | 3 configurations of pools and 2 workers, 3 or 4 messages; a table of 3 slots, 2 names; 2 connection tasks; 2 packets; every step of create failing | `InSequence`, `AnsweredOnce`, `JobsAreKept`; `SymbolsAreSafe`, `ServicesAreKnown`, `CommandsAreSound`, `InstancesAreSound`; `EveryoneIsServed` (`EveryMessageIsAnswered`, `DeleteReturns`, `DeleteOfAReturns`, `CommandsReturn`) |
| `rcm_reuse` | a client that executes a message again after a failure | **violation**: the message has another type |
| `benchmarks` | 3 tasks, 2 images, 2 locks; host, DSP and M3 with the schedule of floydwarshall; histo, dotproduct, doitgen, matmul; two products of 2 rows | `ImplementsMutex`, `HandlesAreGood`; `ImplementsRendezvous`, `ReleaseIsNotMissed`; `ResultsAreGood` (`KernelIsOrdered`, and the types of barriers and products), `ProductIsWhole`; `CallsReturn` (`EveryCallReturns`, `KernelReturns`, `LocksAreFreed`, `ProductComes`) |
| `kernels_order` | edgedetect, regdetect, floydwarshall, 1 iteration | **violation**: work begins before what it reads has been made |
| `firmware` | one part at a time: mail for the M3s or the DSP (mailboxes of 2, 3 messages), power, offload, resource manager, watchdog, trace, HDMI, and eight parts of the loader and the tools | `MailIsSound` (`MailInOrder`, `NobodyElseSleeps`), `PowerIsSound` (`ListenersAreCalled`), `OffloadIsSound`, `RequestsAreSound` (`AnswerIsOwn`, `GateIsBalanced`), `TimersAreSound` (`WatchIsSound`, `TimerIsHeard`, `OnePulsePasses`), `TraceIsSound` (`LinesAreWhole`), `ToolsAreSound` (`RelocationIsSound`, `ModulesAreSound`, `TargetIsSound`); `NobodyIsForgotten` |

### Bounds, and why they are enough

* `Num = 2`, `IdxMod = 4`: the ring wraps, and the index wraps independently of
  it; the index range is twice the ring, the smallest that tells a full ring
  from an empty one and keeps the ring size a divisor of it, as 256 divides 2^16.
  Nothing else in the code depends on their values.
* `FifoDepth` (`Depth`) of 1 or 2: a full mailbox happens, and so does a sender that waits.
* Two readers, one sender and the Swi: two writers on one object, a delete on
  one endpoint beside traffic on another, and slot and object reuse. Two blocks:
  the heap is exhausted by one queue while another reader wants one. Two
  endpoints, one reserved and one assigned, so both branches of `create` are taken.
* `MaxPosts` bounds the semaphore count up to which `unblock` is called again,
  since a client that unblocks for ever would count without bound. The other
  counters are bounded by the blocks and the buffers.
* Locks: two tasks on one image meet at the local gate, one on another meets them
  at the register; two locks share the word of lock bits. Barriers: three
  participants, as in the program, and two rounds of the loop of `floydwarshall`,
  the kernel with the most barriers: each is used in both directions, and again
  while the others are in the next one. Kernels: three iterations, since a thread
  can be ahead by one. Products: the second call finds the first one's rows.
* `rcm_client`: with three threads two can wait behind a mailman, which is what
  the hand-over is about; with three ids they wrap, and a thread has several
  messages out, so that replies come that nobody waits for.
* `rcm_server`: two workers in one pool race for a job, in two pools they pass its
  messages on; `MaxJobId` is 2, so that ids come round; keys up to 2 and two names
  let a slot be used again while an index of its first symbol is out; two servers
  for three clients are one too few.
* `firmware`: three messages fill a mailbox, with one of them a request to
  hibernate; two clients and three requests make an answer late for the second;
  the time of a watchdog is two ticks; the trace buffer is shorter than what is
  written and a line shorter than what a core says; the period of the tick timer
  is just longer than what the workaround needs. Loader: three modules, with a
  shared dependent that is named after or before its other user, or a cycle. Relocations: the bounds of the symbols' runs of
  ones are the bits at which some type has a limit, a shift or a mask. Memory:
  six units and five packets, enough to free one between two free ones.


### Symmetry

Blocks, payloads, readers and objects are interchangeable in `message`, which
checks invariants only. The runs with liveness or refinement use none.

### Fairness

* Interrupts preempt what their processor does and a Swi preempts tasks: weak
  fairness of the Hwi and Swi steps.
* A task that is inside a call goes on: the schedulers are preemptive by
  priority and the calls do not spin, except in `intSend`. Strong fairness,
  where other contexts may disable a step again and again. This supposes that no
  application task of higher priority computes for ever.
* Host: its driver serves its mailbox, and wakes what it has put to sleep.
  `tx_path` also supposes that it offers again the buffers it has back, since a
  host that keeps them blocks every sender rightly. The resource manager need not
  answer: calls have timeouts.
* A task inside enter or leave of a lock goes on, since the local gate is a
  priority-inheriting mutex; nobody is made to begin. Participants of barriers
  and threads of kernels have a core of their own.
* `rcm_client`: strong fairness of the steps inside getReturnMsg, since other
  threads take the mailbox lock in between and semaphores serve those who wait in
  turn. The server need not answer: the property begins when it has.
* `rcm_server`: the server thread and the workers are tasks that run;
  message functions return. `firmware`: likewise each task of a part, time and the
  timer hardware, the suspend task, which has the highest priority; strong
  fairness for the pend of `IpcResource_request`, whose semaphore serves in turn.
* Nobody is made to call a function, to send, to register, to unblock or to ask.

A behaviour of `MCFirmware`, `MCRcmServer` or `MCBenchmarks` is one of a single
part, so that one fairness condition there may stand for one process of each of
several parts, and one leads-to (`WhoWaitsIsServed`) for one of each.

### Deadlock

`CHECK_DEADLOCK FALSE` is set where the system may rightly stop: rings on which
neither side has anything to do, participants that have made all their calls,
kernels and loads that have ended, an RCM instance whose message queue has failed,
and bounds on messages that are used up.

### Findings

With a run that shows them:

* **`MessageQCopy.c:536`, "Protect from MessageQCopy_delete".** The gate covers
  the read of the slot, not the use of the object; and delete destroys the
  semaphore and the list before it nulls the slot. Clients have to see to it;
  `QuiescentDelete` states how, and `QuiescentDeleteIsSafe` proves it enough.
* **`VirtQueue.c:312-316`.** The indices are compared before `NO_NOTIFY` is
  cleared, and not again. A message offered in between waits in the ring until
  another event posts the Swi: the next message, or a `recv`. A reader in
  `recv(FOREVER)` has no next call. The same window exists for toHost, where
  `VirtQueue_create` sets the flag as well (510-516): a sender that has found the ring
  empty pends for ever if the host has filled it in the window.
  `BlockedSenderIsReleased` promises nothing of a ring filled so; it is about buffers
  the host announces, or has yet to offer when the sender is blocked.
* **`sysbios-rpmsg_edgedetect/m3_test_omx.c:185`.** Task 1 convolves without
  having met the DSP; `regdetect` and `floydwarshall` have the two barriers the
  other way round, so that task 0 meets the DSP before task 1 has finished.
  `histo` has the order that works: local, global, local.
* **`RcmClient.c:841`.** The type of a message is ored into the field that still
  holds the status of its last execution. A message whose function has failed is,
  when it is executed again as `RcmClient.h:789` allows, a one-way command that
  the server frees.

Seen while modelling, without a run of their own. Messages and locks:

* `MessageQCopy.h:193` says the length is zeroed on a timeout; `recv` leaves it.
* `m3.c:294` and `316`: a barrier that is used for two calls in a row changes its counter
  while a slow participant has not looked yet, who then waits for ever. `doitgen`
  uses barrier 0 so in its loop, and `callLocalBarrier` is one barrier for all
  its calls, so that every kernel with a loop may stop there. `KernelReturns` names this
  as the one thing that keeps `fxnTest1` from returning, and the model reaches it.
* `HwSpinlock.c:63`: the word of lock bits is read and written under the gate of
  one lock, so two locks of an image lose each other's bits.
* `sysbios-rpmsg_histo/m3_test_omx.c:127-129`: when task 1 cannot be created
  nobody notices, and task 0 waits for it. `fxnTest1` of the multiply programs
  keeps its rows in globals, so two calls at once would share them.
* `InterruptIpu.c:233`: between the test of a FIFO and the write a task may be
  preempted by an Hwi that sends to the same mailbox; `InterruptDsp` has no test.
* `VirtQueue.c:435`: on AppM3 the ids of the virtqueues are 200 and 201 (476-480), and
  `VirtQueue_isr` refuses what is not less than `NUM_QUEUES`, 4: no queue of AppM3 is told of
  its mail. `queueRegistry`, of four, is written at these ids as well (518).
* `VirtQueue.c:386`: a hibernate lock that is taken between the test and the
  suspend, on the other M3 core for instance, is not seen.
* `OffloadM3.c:233-244`: the exit deletes its two tasks and leaves the workers, and
  `created`; the next init sets `created` to FALSE (211) while the workers live, and
  the next creation overwrites their handles. Nothing in the repository calls the exit.
* `OffloadM3.c`: work that is sent before the creation or after the deletion of
  the workers posts a NULL semaphore; the delete task may delete a worker that is
  blocked in its function.
* `IpcResource.c:252`: after a timeout the next call takes the late answer. `158`: a
  connect that fails leaves its semaphore behind.

Commands and services:

* `RcmClient.c:1529-1565`: a mailman whose `MessageQ_get` fails keeps the queue
  lock, and inside the loop the mailbox lock. `ReplyReachesCaller` excepts it.
* `RcmClient.c:602` and `1229`: on a failed allocation `leave` frees a pointer
  that was never set. `checkForError` (740-747, 787-793) returns success with a
  message for a job or a pool that was not found.
* `RcmClient.c:385-397`: errors of `MessageQ_open` other than NOTFOUND are not
  noticed, and an instance with callbacks is returned half built.
* `RcmServer.c:854-969`: finalize after an init that failed early reads fields
  that were never set (`WildOnlyThere` has the list); a delete before start waits
  for ever.
* `RcmServer.c:1630-1633`: at offset 0 of a dynamic table the address of the function is
  never delivered: only `*createPtr` is written, with NULL, and the caller's variable stays as
  it was. `1181`: an add that finds no memory leaks its slot.
* `RcmServer.c:1667-1673`: the lookup by name takes no gate (1939; the comment at 1646
  asks for it) and may answer with the key of another symbol, or with 0, which fits a slot that
  is being filled or emptied.
* `RcmServer.c:1902-1930`: a DPC whose index is not valid has its status set, and then
  calls a pointer to a function that nobody has set. `1743-1758`: a pool id without
  bit 15 is found valid, and no pool is returned, which the dispatch then uses (1448, 1482).
* `ServiceMgr.c`: the names of free definitions are still found. `OmxSrvMgr.c:125`:
  a refused connection is answered with the address of the one before.
* `ServiceMgr.c:170`: registrations are never taken back; a channel that is
  created when the table is full gets no task and no endpoint, and `deleteChannel`
  returns at once. After a `Task_create` that failed it waits for the task for
  ever (`OmapRpc.c:278`). `ServiceMgr.c:245-252`: in the SMP build two connection tasks
  may take one tuple.

Timers:

* `HdmiWa.c:229`: the test is of the reload value, not of the counter: where half
  and whole interval do not fit into what is left of the period the match is in
  the past, the overflow interrupt stays off and the system's clock stops.
  `HdmiAssumption` says for which intervals this cannot be. `HdmiWa.c:154`: a
  configuration that comes while the workaround runs spins on a register that the
  ISR has put back (`HostStopsFirst`).
* `DehDsp.c` posts no crash message to the host.

Loader and tools:

* `arm_reloc.c`: `PLT32` has no mask (940), so that its field becomes nothing and the
  relocation an error; `PREL31` is ored into what was there
  (348); `THM_JUMP19`, the ADR of Thumb and the group relocations from G1 on do not
  write what they mean; halfwords of a file of the other endianness are
  swapped as words; the limit of a `BLX` is tested before the place is rounded.
  `RelocationsAreExact` excepts the types by what goes wrong: all of the instruction
  (`ArmGarbles`), the value only (`ArmCutsInSilence`), the complaint only
  (`ArmRefusesInVain`). `c60_reloc.c`: an addend in a field ends the program; `PREL31`
  clears one bit too few (`C60GoesWrong`).
* `dload.c:1124`: `!e_ident[i]` is compared with the magic number's bytes.
  `dload.c:2413`: the stack is emptied in the order of loading, so that of shared
  dependents a module may be initialised before one it needs, against the comment at
  2407-2411: a needs c and b, and b needs c, and c is first. (`LoadingIsSound` claims the order under `UsersComeFirst` only;
  without it TLC has this counterexample.) `dload.c:1873-1895`: a cycle of modules, which the comments at 1864-1870 and
  1939-1943 call an error, is loaded without one, and is never freed. `dload.c:2641-2654`: a load that
  fails half way leaves names, frees modules that stay listed, and pops the stack
  of whoever is on top (`IsClean`).
* `dlw_trgmem.c:203`: a packet split before an address leaves its neighbours
  pointing to the old one; `packetsMisled` is where the links lead astray.
* `dlw_dsbt.c:262`: `assigned_index` is assigned to itself. `dlw_debug.c:264`:
  a removal from an empty list reads through NULL.
* `genextbin.c:299-329`: what is not a multiple of a section is mapped as small pages
  marked invalid; of less than a small page, or at an address not aligned to one, none of
  the four sizes fits and `mmu_sizes[4]` is read, behind the array.


## 4. The proofs

`Vring` - `VringOneOwner`: `TypeOK /\ OneOwner` is inductive as it stands in the abstract
vring, for every set of buffers. The lemmas on `Append` and `Tail` of a list without
repetitions, and `StepKeepsOwners`, are used again below.

`Rings_proofs` - for every `Num` that divides `IdxMod` and is less than it (256 and 2^16 in
the code), every depth of the mailboxes and any set of senders:

* `RingsAreLists`, `ImplementsVring` for both virtqueues. The arithmetic comes first: what
  `Inc` and `Dist` are without the remainder, that a slot does not move when the index comes
  round (`SlotWraps`, the reason why `Num` has to divide 2^16), and that two indices less
  than `Num` apart have different slots (`ModApart`). Then the window between two indices:
  a publication appends to it, a take is its `Tail`, and an element written at the second
  index is outside (`WriteIsOutside`). This last needs room, and there is room because the list
  names no head twice and lacks the one that is being written: a pigeonhole
  (`WindowHasRoom`), so that `OneOwner` is part of the argument and not a corollary. `RingInv`
  adds that the head in an element written and not yet published is held no more.
* `BuffersTheorem`, `BuffersAreOwned`: `OneOwner` follows step by step from that of `Vring`
  (`StepKeepsOwners`).
* `SendersTheorem`, `SendersKeepApart`. `SendersInv` adds that a sender has a token while it
  copies and at no other time, that no sender is twice on the pend queue, and that the Swi
  sleeps in a transport that only sends.

`MessageQCopy_proofs` - for every number of tasks, objects, blocks and
endpoints, and both values of `SMP` and `QuiescentDelete`:

* `TypeCorrect`. `TypeOK` alone is not inductive: a reader in `recv` or `delete`
  indexes objects with its handle and a writer with its pointer. `LocalInv` says
  that each of them has one where its program counter says so, and that it holds
  a block when it is about to queue or free one.
* `HandlesAreConsistent`. `HandleInv` adds who is responsible for an object: no
  two readers hold the same object, an object that is dying is the one of a
  reader inside delete, a slot that is not NULL names an object some reader
  holds, and a reader that has nulled its slot is in no slot. That is what makes
  a slot that is reused by create, between another reader's `DeleteSlot` and
  `DeleteFree`, harmless.

Under `QuiescentDelete`, in the second half of the module:

* `QuiescentDeleteIsSafe`. `QuietInv`: the object of every writer, and of every
  message in the vring, is live or its slot is empty.
* `RecvFindsMessage`. `CreditInv` relates the semaphore to the list while every
  context is in the middle of something: count, plus one for a reader past its
  pend, is at most the number of queued messages less those put but not yet
  posted, unless the object is unblocked; and a message put and not posted is
  still in the list. So the reader that is past the flag's test finds a message.
  The lemmas on sequences say what `Append` and `Tail` do to lengths and
  elements.

* `BlockTheorem`, `EveryBlockHasOnePlace`. The statement is that each block is in one of its
  places and in no two; the invariant has to say why it cannot be in two. `OwnedOnce`: a block
  in the heap, on the list of an object, in the hand of a writer that fills it or of a reader that
  copies from it, is in none of the others; `Distinct`: a list has a block once;
  `EmptyInv`: nothing is queued on an object that is free, or
  that delete has drained. The last is where `QuiescentDelete` comes in, by `QuietInv`: a writer
  that is late queues its block on memory that delete has given back, and create empties
  that queue.

And with no such promise, in the third part:

* `HostTheorem`, `HostIsTold`: `ToldInv`: while the host has buffers to collect, its
  interrupt is raised, or the Swi is still in its loop and has noted that it added one.
* `EndpointsAreMailboxes`, `ImplementsMailboxes`: the endpoints are FIFO mailboxes. `SlotInv`
  says which queue is the box of an endpoint: the one of the object in its slot, which has one slot
  only. A writer that is late writes to an object that is in no slot, so that its message is in
  no box, and the step a stutter. This needs that `NULL` is not a sequence of messages, a
  conjunct of `MessageQCopyAssumption`.

`Barrier_proofs` - for every finite set of participants and every schedule:

* `TypeCorrect` and `BarrierIsRendezvous`: the ranges, and the refinement of
  `Rendezvous`. The invariant counts: a barrier that is being filled has moved
  its counter by the number of those who wait in it, one at rest has nobody
  waiting, and in between the last to come is about to reverse the sense
  (`Counted`); those who wait aim at the end the sense points away from (`Aims`,
  `FlipAims`). It needs that the lock holder is alone (`Locked`), that nobody is
  further than one call ahead (`Turns`), and that at the moment of the reversal
  nobody has begun the next call of it (`NoneAhead`).
* `ReleaseTheorem`: if no barrier is used for two calls in a row, a participant
  finds the value it waits for, however late it looks. `histo`, `dotproduct`,
  `edgedetect`, `regdetect` and `floydwarshall` call `callBarrier` so; `doitgen`
  does not, and `callLocalBarrier` never does.
* `ProductTheorem`, `ProductIsWhole` of `Multiply`, for matrices of any size, any number of calls and
  any split of the rows. `CacheInv` says what a cache owes the memory: a dirty line is a row of C that
  its processor has worked out in this call, a row that is worked out is dirty or in memory, and
  a processor at work keeps nothing of an earlier call. So whatever is put out, and
  when, belongs to this call (`WriteBack`), and the write-back of the range leaves nothing dirty:
  the shares of the tasks make up the rows of their processor (`SharesMakeUp`), and the rows
  of the two processors the matrix (`CallInv`).

`RcmClient_proofs` - for every set of threads and every range of ids:

* `TypeCorrect`.
* `MailmanTheorem`: `MailIsNotMissed` and `RoleIsOffered`. `RoleInv` ties the
  place of a thread in getReturnMsg to the locks and the lists: the mailman, and
  nobody else, has the queue lock, the one who delivers has the mailbox lock,
  the recipients are those who wait, and the mail of a recipient is the one it
  waits for. From that, a message goes to the mailbox only when no recipient
  waits for it, and the role is offered whenever the queue lock is given back.

The second half of the module has `RcmClientImplementsCalls`, the refinement of
`Calls`, for the same constants. The invariant is that there is a function that gives
each message its one place (`Kept`: heap, server, queue, mailbox, a recipient,
the mailman's hand, or returned), that the queue holds no message twice, and
that a message has one owner. Each action moves one message from a place to
another or none (`Moves`, with a lemma per action), and `Calls` sees the move
as a step of its own or as nothing. It rests on `FreshId`: a message that is
sent comes from the heap.

`RcmServer_proofs` - for every configuration of pools, every finite set of
workers and every number of messages:

* `JobsTheorem` and `AnswerTheorem`. `ServerInv` gives each message one place:
  the server's queue and hand, one ready queue, one job's queue, one worker, or
  done with (`PlaceInv`, with the lemmas on what `Append`, `Tail` and the removal of
  a job do to the places); a semaphore counts the messages of its ready queue, or,
  once the pool is marked, at least the workers that have not left (`PostInv`);
  a job marked empty has nothing queued, and no message of a job is left when the
  server ends (`EndInv`); and a message is answered when it is in no place any more
  (`AnswerInv`). That the counter of ids comes round is part of
  it: `IdAfter` and `FreeIds` give an id that no job in the list has.
* `SequenceTheorem`, which has a hypothesis. `StreamInv` says that of one stream at
  most one message is at work, that those in the job's queue were dispatched after
  it, and that the job is not marked empty meanwhile. It is not invariant when the
  ids come round: a job that is released while a message of it is still with a
  worker may be followed by a new job with the same id, to which the worker then
  turns for its next message (`NextOfJob` looks the id up).
  `IdsAreFresh` says that no step gives a new job an id that a message at work
  carries, which is what 65535 ids are for. In the run `rcm_server`, with two ids,
  it does not always hold, and `InSequence` still does, since a run has too few
  messages left by then; with two more messages it would not.

The rest of the module is about the other parts of `MCRcmServer`:

* `SymbolsTheorem`, `SymbolsAreSafe`, for tables of any sizes, any names and any number of keys,
  and lookups by name and by index; it excepts, as the property does, the key 0 and the slots
  at offset 0. `SlotsInv`: a slot
  that is not being written has a name and a key or neither. `KeysInv`: the keys of the indices
  that are remembered are the last ones that `getNextKey_P` has given out, so that the next
  differs from all of them also when the counter comes round; then a slot that is filled again
  fits no old index. `FitInv` and `LookInv`: an index that fits its slot leads to the function of
  whom its key was given to or to none, now and when the server thread read the address.
  `OwnersHaveKeys` is what a lookup without the gate needs: a key other than 0 that it
  finds in a slot is that of its name or, while the slot is being emptied, of the name that goes.
* `ServicesTheorem`, `ServicesAreKnown`, for any channels, endpoints and tuples, with a tuple
  for every endpoint. `ServersInv`: no two servers have an endpoint in common, and every tuple in
  use names one that has started; that a tuple is free when one is needed is a pigeonhole on the endpoints.
  `ClaimsInv`: what a client knows, or has asked its task to take down, no other client
  does, and it has a tuple; with it no task finds the tuple of another's server.
  `TasksInv` says whose server is between `create` and `store`, or between the tuple and
  `delete`; `ChannelsInv`, that a channel's name is known only while its task listens.
* `CommandsTheorem`, `CommandsAreSound`, for any messages, on the condition `~ReusesFailed`:
  a client sends a message again only if it came back with no status in it, which the type
  would be ored into. The run `rcm_reuse` shows what happens to one that is not so careful.
  `PacketInv` says what a message is worth where it is: one in the heap has no type, one with
  the server the type and the queue of its call. `CallInv` and `CheckedInv` follow it to who
  waits for it.

`HwSpinlock_proofs` - for any tasks, any images and any set of locks, with the
schedules of `MCBenchmarks`:

* `HandlesTheorem`. `LockInv` has: the reference count of an object is the number
  of tasks with a handle to it (`TableInv`, with the facts on cardinality); the
  local gate of an object is held by the task whose program counter says so, and
  by no other of that image (`GateInv`); an object is marked as taken by who is
  inside (`StateInv`); a register that is taken has one task between `TakeReg` and
  `ClearReg` (`RegInv`).
* `LocksAreMutexes`, the refinement of `Mutex` for the locks the run asks about:
  `TakeReg` is the entry, `ClearReg` the exit, every other step is a stutter. It
  needs `RegInv`, since the local gate keeps apart the tasks of one image only.

`CoreServices_proofs` - seven parts of `MCFirmware`:

* `OffloadTheorem`, for any set of workers and an init or exit at any time: `MutexInv` says
  that the semaphore is 0 while the create or the delete task is inside, and that
  there are such tasks only in a module that is started; `MadeInv` what exists half way
  through each of them, and that workers nobody knows of are those an exit has left.
* `ResourceTheorem`, for any number of tasks on a connection: `GateInv` has one task
  at most past the semaphore, and `OwnInv` that, until a recv times out, what is
  under way to the manager and back is the request of that task and nothing else.
* `PowerTheorem`, `PowerIsSound`, for any processors and callbacks, and a `Wake` at any time: `WalkInv`
  says that what stands in the list since the walk began and has not been called is
  at the node the walk has reached or behind it, and that no node is in the list twice. The
  lemmas are about what `Append` and `RemoveAt` do to what is ahead of a node.
* `MailTheorem`, `MailIsSound`, for FIFOs of any depth, any mail and any number of messages,
  with both groups and all their tasks at work together. `DriverInv` is the types: what an Hwi
  can have to send, and that it holds a message only between `intClear` and
  `VirtQueue_isr`. `OrderInv` says that what was sent to a processor is what it has
  heard, then what its Hwi holds, then the FIFO, then what SysM3 has decided to pass on
  and has not written; each step moves one message over one of those borders.
  `GroupInv` is about hibernation: a request is in the FIFO or in hand once (`OnceInv`),
  an answer is under way once, and not while a request is; each processor has at most
  one cause to fall asleep - a message of SysM3, its Hwi, the semaphore, the task
  (`SuspendInv`); the host has asked while any of it lasts, and when a "cancel" is under
  way there is no such cause on any processor of the group (`HostInv`). A step for one
  group leaves the other alone (`Outside`, `GroupKept`).
* `TimersTheorem`, `TimersAreSound`, for any cores and times, and for every payload that
  `HdmiAssumption` lets through, on the condition `HostStopsFirst`. Of the watchdog,
  `WatchInv`: a timer that runs for a core that is well holds at least what the promise of the
  system (`Due`, in `Tick`) leaves of the time, and a core that may idle has none. Of the
  workaround: `RoomInv` says where the counter is at each interrupt, at the latest, so that both
  matches come before the overflow (`Fits`), and that a match is ahead of every reload, also
  when the task restarts the timer meanwhile; `TaskInv`, that the intervals the interrupts go
  by are those of the pulses; `PulseInv`, the distance of the next pulse from the match
  (`Remains`), in each of the three stretches of a window, from which one pulse, and not
  two, falls between the matches.
* `TraceTheorem`, `TraceIsSound`, for any number of cores and characters, and any lengths of the
  line and of the ring. `LineInv` says that a core copies exactly while it has the gate, and that
  its line holds the last characters it has output; `StreamInv`, that the stream holds the ones
  before (`Gone`), each of them, and that it ends with what the core in the gate has put there.
  `BackAfter` is what the ring needs: a byte that is written takes the place of the one a whole
  ring before it and of no other.
* `DebugTheorem`, `DebugListIsWhole` (a part of `ToolsAreSound`), for any modules, loads
  within loads and addresses of the records. `HandlesInv` is what it needs to be inductive: no
  handle in the list is larger than the last that was given.
  `WholeAppend` and `WholeRemove` say what a record that is put at the end, or taken from
  anywhere, does to any list that is whole.

The assumptions of the proofs are those of the constants (`VirtQueueAssumption`, `RxPathAssumption`,
`TxPathAssumption`, `MessageQCopyAssumption`, `BarrierAssumption`, `MultiplyAssumption`, `RcmClientAssumption`, `RcmServerAssumption`,
`RcmSymbolsAssumption`, `ServicesAssumption`, `RcmCommandsAssumption`, `HwSpinlockAssumption`,
`OffloadM3Assumption`, `IpcResourceAssumption`, `IpcPowerAssumption`, `InterruptsAssumption`,
`WatchdogAssumption`, `HdmiAssumption`, `SysMinAssumption`, `DebugAssumption`), which TLC
evaluates in the runs of their modules: sets of tasks that are finite where they
are counted, names that are not used twice (`Nobody` is no task, "create" and
"delete" are no workers), and times and intervals that fit into one another. Every inductive invariant was found to hold with TLC,
on the instances of the runs, before it was proved.

What is only model-checked, and why:

* everything about liveness, which is out of the prover's reach;
* what folds compute, and what goes by sums: `ToolsAreSound` (but for the list of the
  debugger), which is about sequential programs on bounded inputs;
* `ResultsAreGood` (but for the types of the barriers and the products), for which the kernels are
  data that TLC goes through one by one;
  `InstancesAreSound`, whose model has no parameters, so that the run goes through all of it.


## 5. Assumptions of the models

* Stores to shared memory take effect in program order. The code has no
  barriers; the rings are in memory that the firmware maps strongly ordered.
* The indices and flags are read and written in one access each. The avail
  flags are written by the host only and the used flags by the core only, so
  their read-modify-write is one step.
* `List_*`, `HeapBuf_*` and `Semaphore_*` are atomic, as the SYS/BIOS manual has
  it. A semaphore that is posted with a task on its queue hands over to it.
* `BlockedSenderIsReleased`, `KernelReturns`, `ReplyReachesCaller`, `AnswerIsOwn`,
  `IndexCallsItsOwner`, `RelocationsAreExact`, `LoadingIsSound` and `MemoryIsShared` except
  what the code is known to do wrong, each by name: the window of `NO_NOTIFY`, a
  participant left behind, a mailman lost, a late answer, the key 0, and so on. They say that nothing else goes
  wrong, not that these cannot. The hazards they leave open have it in their notes.
* The host writes only heads it owns. Nothing is claimed for a host that does not.
* Reading a hardware spinlock register that is free takes it, in one step.
* The parts of a buffer that different threads write do not share a cache line.
  `Kernels` leaves the caches out; `Multiply` has them, a line for a row.
* `MessageQ_get` with no message to give sets its result to NULL; a message put
  on a `MessageQ` arrives.
* An object is not allocated when memory is exhausted; create then returns NULL
  without any change of state, which is a stuttering step.

## 6. What is not modelled

Within the modelled parts:

* `MessageQCopy_init` and `finalize`, a second `VirtQueue_create`; `addAvailBuf`
  and `getUsedBuf`, which a BIOS core never calls (the host of the models uses the
  latter).
* A task's send to a mailbox that an Hwi preempts; two cores that spin on each other's
  mailbox, since only SysM3 sends to another core here; the abort request, and what becomes
  of a virtqueue's message in `VirtQueue_isr` on AppM3; the handshake of two cores
  around `Power_suspend` in the SMP build.
* The modules' `init` and `exit` of RCM, reference counts around what is modelled;
  `execAsync`, for which no instance can be made.
* In `RcmServer`: a reply whose send fails, which is only logged; a pool id without
  bit 15; a DPC with an index that is not valid. In `Services`: the functions a user
  may have called on a disconnection. In `OffloadM3`: work posted while there are no workers.
* In the image tools: regions that are not whole small pages. In the loader: reading and checking of headers beyond the magic number, the
  machine and the type, and memory that is exhausted.

Not modelled at all, and why:

* `VirtQueue_norouting.c`, `InterruptIpu_norouting.c`: older variants of modelled
  files, compiled instead of them.
* `IpcMemory` and the resource tables: constants and a lookup.
* `StackDbg`, `Version`, the XDC configuration; `readrprc.c`, `xdep.c`, `wrints.c`,
  which print or wrap.
* The main programs, the examples and the host's samples (`omx_sample.c`,
  `omx_benchmark.c`): they call what is modelled, and were read for how.
* The arithmetic of the kernels, `sysbios-rpmsg_sum`, whose tasks share nothing,
  and the copies in `optimized`, `unoptimized` and `bk` directories, which have
  the threads and the barriers of the kernels that are modelled.
