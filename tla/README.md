# TLA+ models of the TestDrive simulation system

TestDrive Profiling Master runs a hardware design, translated to C++ by
Verilator, inside the process of the software that drives it. The software calls
`RegRead` and `RegWrite` and receives interrupts as if the design were a board;
an engine thread clocks the design as long as somebody needs it and sleeps
otherwise. This directory holds TLA+ models of the part where threads, hardware
models and semaphores meet, of the memory heap of the HAL and of the FIFO with which
designs cross from one clock to another, TLC configurations that check them, and
TLAPS proofs about each of them for any number of threads, requests, bursts, blocks,
clocks and slots.

Paths below are relative to `src/Common/System/SystemSim/SimSystem/src/` unless
they begin with another directory; `dpi/` is `src/Common/System/SystemSim/HDL/dpi/`,
`SystemHAL/` is `src/Common/System/SystemHAL/`, `library/` is
`src/Common/System/SystemSim/HDL/library/`.

## The system

Three kinds of threads share the state:

| thread | runs | blocks in |
| --- | --- | --- |
| software threads | `BusSlave::Write/Read`, `InterruptService::Enable/RegisterService`, `ThreadManager::KillThread` | `m_LockSW`, `m_LockBusAck`, the join |
| engine thread | `SimEngine::MonitorThread`: the clocks, the design with its DPI bus models, the instance list, `DelayLock::Check` | `m_Lock.Down()` in `Check` or in `Lock(0)` |
| interrupt thread | `InterruptService::MonitorThread` | `m_SemaInterrupt.Down()`, the routine |

| component | state | operations | meets | what makes it correct |
| --- | --- | --- | --- | --- |
| `DelayLock` | `m_iSema`, `m_iDelayTime`, `m_iDeferredLock`, `m_bRun`, two semaphores | `UnLock`, `Lock(d)`, `Lock(0)`, `SetDelay`, `Check`, `Rlease` | everybody who needs clocks | the engine sleeps only when nobody needs it, and does sleep then |
| `SimEngine` | `m_bForceToExit`, the instance list | `Clocking`, `MonitorThread`, `AwakeInterrupt`, `OnThreadKill` | `DelayLock`, `SimHDL`, `InterruptService` | leaves its loop only when idle or forced; can always be joined |
| `ThreadManager` | `m_bThreadRunning` | `RunThread`, `KillThread` with timeout | both threads | the join returns |
| `BusSlave` | one write and one read request per slave, `m_LockSW`, `m_LockBus`, `m_LockBusAck` | `Write`, `Read` (software); `RequestWrite`, `WaitWrite`, `RequestRead`, `WaitRead` (masters); `GetWrite`, `WriteAck`, `GetRead`, `ReadAck` (slave models) | `DelayLock`, bus models | each access happens once, between its call and its return, and returns |
| `dpi/AXI_Slave_Lite`, `APB_Slave`, `VirtualSlave` | one or two state machines each | `BusWrite`, `BusRead`, `BusSignal` | `BusSlave`, the design | serve what they took, once |
| `dpi/AXI_Master` with `RoundQueue` | two queues, two descriptors, the handshakes | address and data phases, memory or slave | `BusSlave`, memory, `DelayLock` | bursts in order, each beat once; holds balance |
| `InterruptService` | queue, pending marks, `m_SemaInterrupt`, `m_bEnable`, the routine and its pointer | `Awake`, `Enable`, `RegisterService`, `MonitorThread`, `OnThreadKill` | engine, software, `DelayLock` | a raised vector is served; the routine gets its own pointer |
| `SimBusy`, `SimReset` | an edge detector; counters | `OnRun`; `Set`, `DoCycle` | `DelayLock`, `SimClock` | one `Lock` per `UnLock` |
| `SimClock` | time left per clock | `Tik`, `Tok`, `SetParameters`, `DoReset` | engine, `SimReset` | clocks keep their period and phase |
| `SystemSim` | the engine, the memory | `Initialize`, `Release`, `RegRead`, `RegWrite`, interrupt calls | all of the above | start-up and shutdown end |
| `SystemHAL/src/MemoryHeap` | a list of blocks and one of the free ones | `CreateMemory`, `AddRef`, `Release`, `SetInaccessible`, `Initialize` | the driver, one semaphore | blocks partition the memory; what fits is granted |
| `library/FiFo_Async` with `SyncPipe` | two counters, their Gray pointers, two pipes, the memory | an edge of `W_CLK`, of `R_CLK`, of both; resets | the two halves of a design | a queue, whatever the two clocks do |
| the rest of `library/` (`FiFo`, `ControlSlice`, ...) | registers | one clock | the design | no item lost, duplicated or reordered |

How they interact: a software access publishes a request in a `BusSlave`, calls
`UnLock` and waits for `m_LockBusAck`. The engine, awake, evaluates the design;
the slave model polls `GetWrite/GetRead`, runs the bus protocol, acknowledges
(`m_LockBusAck.Up()`) and calls `Lock(500)`. `Check`, once per clock edge, counts
the delay down and then takes one `m_Lock.Down()` for each lock recorded
meanwhile, which blocks when no `UnLock` is outstanding. An interrupt raised in
an evaluation is queued, `SetDelay(64)` keeps the engine awake a little, and the
interrupt thread calls the routine and gives the hardware 1500 ticks to deassert.
Shutdown releases the lock, kills the interrupt thread and joins the engine, by
force after a timeout.

The hard parts are the unsynchronised `m_iDelayTime--`, calls whose two halves
run on two threads in either order, one request packet shared by software and two
kinds of hardware masters, resets in mid-transaction, and shutdown at any moment.
`PROJECT.json` lists each hazard with its line and the properties that cover it.

## The modules

### `DelayLock` (with `EngineGate`, `IsrWake`)

The lock, the engine's loop around it and the shutdown of the engine thread.
The fields of `DelayLock` keep their names. A *hold* is one use of the engine;
`SwHolds`, `HwHolds` and `IsrHolds` say on which threads its `UnLock` and its
`Lock` run. Per hold, `stage` follows the `UnLock` (`m_iSema++`, then
`m_Lock.Up()`) and `call` the `Lock`, since for a software access the engine may
get to the `Lock(500)` before the caller gets to its `UnLock` (`Early`).
`engine` is the place of the engine thread; `reg` holds the loaded value of
`m_iDelayTime--`, whose load and store are two steps, as are the comparison and
the assignment of `SetDelay`. The last line of `Check`, `(m_iSema > 0) | m_bRun`, is
two loads that nothing synchronises: `LoadSema` is the load that finds no use
counted (`engine = "looked"`), `Leave` the load that then finds `m_bRun` false. Since
`m_bRun` never becomes true again, this order of the operands has every outcome
of the other. `unseen` is a history variable, the `m_iSema++`s between the two loads,
which `LeaveOnlyWhenIdle` speaks of. `killer` is the terminating thread: `Kill` to
`KillUp` are `OnThreadKill` (`Rlease` and its `UnLock`), `KillTimeout` the second
call. `OnThreadKill` also kills the interrupt thread, between `KillUp` and the
polling; that changes nothing in the lock and is in `InterruptService`.

`EngineGate` is the promise: users come and go, and the engine may sleep only
when there is none, but for accesses that owe their `UnLock`. `DelayLock`
implements it (`GateSpec`) with a hold counted as a user from the return of its
`UnLock` to the moment its `Lock` is recorded.

`IsrWake` adds a history variable for one question about interrupts.

### `BusSlave` (with `RegisterBus`)

Software threads, the three bus models of a slave and the slave side of `MAXI`.
`kind` says which model has created a slave: `SAXI_Lite`, whose write and read
machines run side by side, `APB_Slave`, whose single machine serves reads first,
or `VirtualSlave`. Everything but the software runs on the engine's thread, so
`engine` only says whether it is between an acknowledge and its `Lock(500)`. The
sections under `m_LockBus` are single steps; the load of the read data after the
acknowledge is a step of its own. `hold` counts `Unlock()`s less `Lock(500)`s and ties this
module to `DelayLock`. Registers are `mem`: a write takes effect when the bus
accepts it, a read samples when it answers. On APB the design takes a write one
clock before the caller learns of it; `served` is a history variable for the
slaves in between, where a reset makes the same write happen twice. A virtual
slave keeps its read over a reset and then answers with whatever `DATA` is;
without one, its design is taken to answer with the newest write. `WaitRead`,
which nothing calls, has no action, and the register design itself, its address
decoding and byte strobes are left out (a software `Write` never sets
`byte_strobe`). `MaxiStart` enumerates only single-beat accesses that reach a
slave, as the error branches before it end the simulation.

`RegisterBus` is the promise: each call takes effect atomically between its
invocation and its return. `BusSlave` implements it (`BusSpec`) when no hardware
reader shares the slave and no virtual slave is reset.

### `Maxi` (with `AxiPort`)

Both directions of `MAXI`, clock by clock: the data phase takes a burst from the
queue, looks for its target, moves its beats or waits for a slave, and gives the
response; then the address phase, `Request`, accepts another burst. `RoundQueue`
is modelled slot by slot, with the one element `m_Pop` that `pDesc` points to. `hold`
counts `AquireBus` less `ReleaseBus`. The two directions share only the engine's
hold and the bandwidth, so each has its clocks in its own time. Whether the
bandwidth is valid, and what the slave answers, is open in each clock. A `LOGE`
ends the simulation (`SystemLog::Log` calls `SimulationQuit`), so the design
issues supported bursts only; data, strobes and the addresses within a burst are
left out.

`AxiPort` is the promise of one direction: bursts in the order of acceptance, each
beat once, an end with the last beat or the response, and a reset that takes
away the burst in service only. `Maxi` implements it twice (`PortSpec`).

Read with the code: a reset does not empty `RoundQueue`, so the bursts accepted
before it are served after it; `MAXI_STATUS_DONE` has no case in the switch, so an
access to a slave blocks all that is behind it until a reset
(`dpi/AXI_Master.cpp:689`); the checks of a wrapping burst (`:288`, `:541`) test the
size, not the length, and that of `WSTRB` (`:663`) never fires, by precedence.

### `MemoryHeap` (with `MemoryMap`)

`heap` is the list of blocks by address, each with the fields of `HeapLink`. Every
call runs under one semaphore and is one step. `AllocSize` is the padded size,
whose subtraction wraps modulo `Word`; `Fits` are the guards of `Alloc`; `Alloc`
splits a block in up to three and `ReleaseNoneThreadSafe` joins it with its
neighbours. Which free block is tried first (the order of the second list) is
left open. `CreateFails` is the way out when the system has no memory to show,
which releases the new block. `SetInaccessible` puts its area on its list also when
nothing fits, as the code does. The model is of the builds without `USE_DEBUG`,
where the assertion of `SystemHAL/src/MemoryHeap.cpp:233` is compiled out: a
fixed-address request at the start of a larger free block makes `Alloc` release a
block that is free already, with a count that may be zero. One thread at a time
counts the references of a block, for `AddRef` takes no semaphore.

`MemoryMap` is the promise: the memory in use is a set of disjoint areas, each call
adds, counts or removes one and touches no other. `MemoryHeap` implements it
(`MapSpec`) with the blocks in use as the areas.

### `InterruptService`

The interrupt thread, the engine's calls of it and the main thread. Each access
that the code makes outside `m_QeueueLock` is a step. Two history variables say what
has been lost on the way: `swept`, the vector in hand had left the queue before a
registration emptied it; `lost`, how many queued vectors may lack a token because the
thread took theirs while interrupts were disabled. The `Unlock` and `Lock(1500)` after a service are the `IsrHolds` of
`DelayLock`. `m_Pending` is read and cleared by several threads without the
lock; as a `std::map` that is a data race, of which the model takes only the
outcomes in which each access happens entirely.

### `SimClock`

The list of clocks (`alive`, a set: nothing depends on the order), each with the
fields of the class, and its `SimReset` with the two counters. `turn` is the place
of the engine thread in `Clocking`: `Tik` puts the clocks on the pins, `Eval` is
the design, `Tok` subtracts the elapsed time, toggles what is due and finds the
next elapsed time. `SetParameters`, `DoReset`, `Create` and `Release` are the
design's calls, from its constructors or from an evaluation. `Process` is the body
of `Tok` and, with nothing elapsed, of `Refresh`. All times are taken modulo `W`;
`due` is a history variable in unbounded integers: the time to the next edge as
period and phase alone give it. A released clock is put back to its first values.

### `Lifecycle`

The main thread from `Initialize` to the deletion of the engine, the engine and
the interrupt thread. The engine is reduced to what the other modules establish:
it sleeps only without users (`EngineGate`) but may leave once released even with some,
for the last look of `Check` can miss them (`LeaveOnlyWhenIdle` of `DelayLock`); it
answers a waiting register access while it runs (`BusSlave`), and it may queue an
interrupt while `m_bEnable` (one vector of `InterruptService`). `Threads` are the
software's threads beside the main thread; nothing stops them from accessing registers
during `Release`. `main` follows
`Terminate`: `Rlease`, `KillIsr` and `JoinIsr` are `SimEngine::OnThreadKill`
inside `KillThread`, `Poll` and `Join` its second half. With `Finishes` the design
may end the simulation by itself. Of an error that makes `MonitorThread` call
`exit(1)` there is no model: the process ends. What a software thread does after the
deletion is undefined in the code and not followed.

### `FiFoAsync` (with `BoundedQueue`)

The FIFO between two clock domains (`library/FiFo_Async.sv`, with the `SyncPipe`s
and the memory it instantiates). Registers and wires keep their names:
`full_status` and `empty_status` are the two instances of `FiFo_Async_Status`
(`bin`, `PTR`, `STATUS`), `sync_r2w` and `sync_w2r` the two pipes, `mem` the memory.
`WClock` and `RClock` are what one edge does to each side, all non-blocking
assignments at once; the enables and the data are open. `WriteEdge` and `ReadEdge`
are edges at different instants. In `BothEdges` the edges coincide: each side
samples the other's pointer while it changes, and `Caught` lets each wire be old or
new on its own, since nothing orders the wires of a bus against another clock. Two
stages of pipe are there so that such a wire has settled on one of the two when it
is used; that it settles is taken from the pipe. Whoever instantiates the FIFO
asserts both resets together, at any moment: in `processor_axi_wrapper` the reset of
the processing clock is a pipe that the system's reset clears (`Reset`), and each
side of a FIFO leaves its reset at an edge of its own (`ReleaseW`, `ReleaseR`). In
between, edges of `W_CLK` still write the memory, which has no reset (`HeldEdge`).
`taken` is what `R_DATA` shows when an item is read.

`BoundedQueue` is the promise: items are appended, taken from the front, or both,
within the capacity. `Items` maps the memory between the two counters to it.

### MC modules and mutants

The `MC` modules declare the model values, the address map, the clock parameters,
the requests and the lengths of the bursts of the configurations. Operators
whose comment begins with "Mutant" are not part of a specification: each is an
action with a plausible slip, and `PROJECT.json` says which property refuses it.

## The runs

| run | instance | question | states |
| --- | --- | --- | --- |
| `DelayLock` | 2 software, 1 hardware, 1 interrupt hold; delays 1 and 2; 3 deferred locks; fairness | `IInv`, `NoSleepWhileHeld`, `NoStrandedDeferral`, `LeaveOnlyWhenIdle`, `GateSpec`, `KillJoins`, `HeldGetsClock`, `QuietSleeps` | 133,571 |
| `IsrWake` | one hardware, one interrupt hold | `IsrWakesSimulation`: violated | |
| `BusSlave` | 2 software threads, 2 writers, 1 slave of 3 kinds, 1 register, 2 values, resets of a writer and of two kinds of slave | `TypeOK`, `HoldLedger`, `AckBelongs`, `WaitersOwnSlave`, `BusSpec` | 997,972 |
| `BusSlaveLive` | 2 software threads, 1 writer, 1 reader, 1 slave of 3 kinds, resets of a virtual one, fairness | `WaitHasOwner`, `CallReturns`, `MaxiWriteDone` | 39,278 |
| `ReadRace` | 1 software thread, 1 reader, 2 registers | `ReadReturnsOwn`: violated | |
| `MaxiRead` | 1 writer, 1 reader | `MaxiReadAnswered`: violated | |
| `InterruptService` | 2 vectors, 2 services, queue of 2, fairness | `PendingAccounted`, `MixedOnlyInHand`, `KillJoins`, `QueuedIsServed` | 320,658 |
| `SimClock` | 2 clocks, 4 sets of parameters, resets of 2 cycles, life of 1, words below 8, fairness | `LeftIsDue`, `ResetPin`, `EdgesOnTime`, `ResetsEnd` | 56,529 |
| `Lifecycle` | one access at a time per thread, one software thread beside the main thread, one vector, a design that may finish, fairness | `DeletedAfterJoin`, `InitializeReturns`, `AccessReturns`, `OnlyRoutineHangs` | 1,886 |
| `MemoryHeap` | 9 bytes from address 4, 8 requests of several sizes and alignments, managed and at addresses, 2 references, words below 32 | `Partition`, `GrantsWhatFits`, `MapSpec` | 24,665 |
| `Maxi` | in each direction 4 bursts, one of two beats and one to a slave, a queue of 2, 1 lost hold, resets, fairness | `TypeOK`, `LedgerKept`, `PortSpec`, `Served` | 10,476 |

| `FiFoAsync` | 4 slots, 2 data, resets, fairness | `IInv`, `SlotsApart`, `SamplesWhole`, `ImplementsQueue`, `SidesNotice` | 35,616 |

Deadlock is checked in `BusSlave`, `BusSlaveLive`, `MaxiRead`, `ReadRace`, `SimClock`,
`MemoryHeap`, `Maxi` and `FiFoAsync`. The others may stop: after a join.

Bounds. Delays stand for 10 to 1500 ticks: what matters is that one is shorter
than another, which 1 and 2 give (and 3 in `IsrWake`). Two software holds let one
wait for the other's acknowledge (`m_LockSW`) while the first still owes its
`UnLock`; with a hardware and an interrupt hold every pair of threads is there.
`MaxDeferred` (the guard `Room`) bounds the locks between two collections; with 3
several are collected together and others come meanwhile.
`MaxQueue` bounds the interrupt queue and its tokens: two let a vector be queued
twice (after `Enable` cleared its mark) and let tokens and vectors differ.

In `SimClock`, periods of 2, 3 and the default 4 drift apart and meet again, phases
of 0, 1 and 5 put an edge between the others', and with `W` = 8 a sum of 7 just
does not wrap. A reset of two cycles followed by a life of one passes through
every branch of `DoCycle`. `Lifecycle` needs no bound; one
thread beside the main thread competes with it and with the routine for `m_LockSW`, and
may be inside an access at any point of the shutdown.

One slave of any kind suffices in `BusSlave`, since slaves share only `m_LockSW` and
the engine; the proofs are about any number. In `MemoryHeap` nine bytes hold three
requests with gaps between them, a base of 4 is aligned for some and not for
others, and the request of 14 bytes is larger than the memory, so that its padding
wraps. `MaxRefs` bounds the references, and how far below 1 the count of a free
block falls. In `Maxi` a queue of two fills while a burst is in service, and comes
round; `MaxLost` bounds the resets that leave a hold behind. `FiFoAsync` needs no
bound: the counters wrap. `FIFO_DEPTH` = 2 is the least the code allows, and two data
tell a slot that was overwritten from one that was not.

Fairness. A thread inside a call goes on (weak fairness), and a semaphore serves
its waiters (strong fairness where several compete: `m_DelaySemaphore`,
`m_LockSW`). `Eval` makes finitely many calls and returns: `CheckLoad` is
strongly fair. The interrupt routine returns. Nothing is assumed of when holds,
accesses or interrupts begin, of when hardware ends what it began, or of whether
the timeout of `KillThread` comes in the interrupt service; for the engine it
does, since the poll is a bounded loop. In `BusSlave` the slave models are fair
only while `hold > 0`: this is `HeldGetsClock` of `DelayLock`; the three kinds have their
machines' fairness each. In `Maxi`, whose holds keep the engine awake as well, the
design gives and takes its beats and responses again and again, and the bandwidth
becomes valid again and again, for what was consumed is divided by a time that
grows; nothing is assumed of slaves and resets. In `SimClock` the
engine goes on only while there is a reset, since `SimReset` holds the lock
unlocked and its `OnRun` answers busy. In `Lifecycle` a running engine answers
requests and ends a reset, leaves when it is forced, or released and without users, and the routine returns when its
access has; when interrupts and busy flags come, what the user calls and whether
the design finishes are left open. In `FiFoAsync` both clocks run and a reset ends;
nothing is assumed of the enables, nor that the two clocks are ever apart.

### What the runs show

The lock works: with the shutdown, the lost store of `m_iDelayTime--` and the
early acknowledges, the engine never sleeps on an open hold, no recorded lock is
stranded, and the engine can always be joined. Three edges had to be written into
the properties: an access acknowledged before its `UnLock` borrows a wake-up; one hold
goes unnoticed when the engine looks at `m_iSema` before the `m_iSema++` of `Rlease()`, even
if it leaves long after it; and whatever is counted between the engine's look at `m_iSema` and
its look at `m_bRun` is not seen. In the last two the engine leaves with a hold open, and its
access is not answered.

The register bus is linearizable for any mix of software and hardware writes and
for each of the three bus models, also when slave or master are reset, but for
a virtual slave's reset. It is not when a hardware master reads the same slave.

The bursts of a master are served in order and each beat once, no push meets a
full queue, and holds are given back once; a reset loses one. A burst in memory
ends unless an access to a slave is before it.

The heap's blocks partition the memory through all splits and merges, a request
never gets an area of somebody else, and no free memory is hidden: padding from
the end of a block finds a place whenever there is one.

The clocks keep their edges exactly, whatever is created, changed or released
among them, as long as period plus phase fits in 32 bits; the reset pin, which
`DoCycle` only flips, stays right when resets are repeated.

The FIFO is a queue for any two clocks: each side's picture of the other is old, which
costs it a free slot or an item for a few edges but never an item twice or lost, and
with running clocks the picture becomes true. Of a pointer that is caught while it
changes one wire only is in doubt, also where the counters wrap.

A vector marked pending is in the queue or in the thread's hand, unless a registration
swept it, and a queued one has a token of `m_SemaInterrupt` unless the thread took it while
interrupts were disabled; such a vector waits for the next interrupt.

Start-up ends, and register accesses end, while the engine runs. The engine is deleted
only after its own two threads have been joined. Shutdown ends
too, with busy hardware, an interrupt in service or a design that finished by
itself, except in one situation, which `OnlyRoutineHangs` delimits: the interrupt routine
accesses a register after the released engine has left. The "automatic shutdown" of
`ThreadManager.cpp:91` is not reached then, since `OnThreadKill` of the engine joins the
interrupt thread first.

Three claims of comments, messages and interfaces are refuted (`findings`):

* `IsrWake`: the clocks promised to the hardware after an interrupt service may
  be lost when `SetDelay(1500)` falls between the load and the store of
  `m_iDelayTime--` (`InterruptService.cpp:75`).
* `ReadRace`: a software read may return the data of a later hardware read
  (`BusSlave.cpp:122`).
* `MaxiRead`: a hardware read polls `WaitWrite` and may end on a write's
  completion, which that writer then misses (`dpi/AXI_Master.cpp:418`).

Known limits of what holds: after a reset of a `MAXI` in mid-write the slave
stays taken and software writes to it spin for ever, so `BusSlaveLive` resets
no master; on APB, software that reads on and on may hold off a hardware write, so
`MaxiWriteDone` is about the two other kinds; after a disable that consumed a token the interrupt queue lags, so
`QueuedIsServed` is about executions without one.

## The proofs

Eight modules hold proofs, one per component, checked by TLAPS. Each establishes an
inductive invariant, from which the properties of the runs follow for every value
of the constants that the named assumptions allow (TLC evaluates these in the
runs). The type invariants of `SimClock`, `InterruptService` and `Lifecycle` are only
proved, the last one as a part of its inductive invariant: no run repeats them. The refinements are proved by mapping steps: an operator in the terms of
the detailed module says what a step does to the abstract state, one lemma per
action shows that it does, and one lemma per abstract action that this is the
instance's step.

### `DelayLockProofs`

For any finite sets of holds, any positive delays and any bound:

| theorem | states |
| --- | --- |
| `Invariance` | `Spec => []IInv` |
| `TypeCorrect` | `Spec => []TypeOK` |
| `DeferralNotStranded` | `Spec => []NoStrandedDeferral` |
| `NeverSleepsWhileHeld` | `Spec => []NoSleepWhileHeld` |
| `LeavesOnlyWhenIdle` | `Spec => LeaveOnlyWhenIdle` |
| `ImplementsGate` | `Spec => GateSpec` |

They assume `HoldsAssumption` (the sets of holds are finite and disjoint) and
`DelaysAssumption` (no `Lock` of a hold is called with delay 0 by mistake), which
TLC evaluates in the runs.

`NoSleepWhileHeld` says nothing of how `m_Lock` came to be zero, so it is not
inductive. `IInv` adds the two ledgers: `SemaBalance`, `m_iSema` against the open
holds, the early locks, the deferred ones and the releases; and `LockBalance`,
`m_Lock` against `m_iSema` and the `Up()`s and `Down()`s still to come. With
`m_Lock = 0` and a `Down()` pending, `AsleepCounts` derives from them that no more
holds are unlocked than early locks are owed. `DelayOK` and `SectionOK` carry the
argument about the delay: a `SetDelay` inside the section precedes its
`m_iDeferredLock++`, `m_DelaySemaphore` keeps `Collect` out meanwhile, and a
store that overwrites a delay leaves either a positive one or the engine on its
way to the collection. The step lemmas are split by who moves (`HoldStepLocal`,
`EngineStepLocal`, `KillStepLocal` for the local parts, `...Balance` for the
ledgers), with one step per action; cardinalities change only through
`CardinalityChange` and `CountsChange`. `ImplementsGate` adds `AheadOK`: only a
software access may be locked before its `UnLock` has returned, so that every
other lock is recorded for a hold that counts as a user. `LeavesOnlyWhenIdle`
needs the ledger at a moment that has passed: while the engine is between its two loads,
`EngineOK` keeps `m_iSema <= unseen`, since it was at most zero at the look and only an
`UnLock` has changed it since. `SemaBalance` at the second load then bounds the open holds.

### `SimClockProofs`

For any finite set of clocks, any parameters, any life cycle and any word width:

| theorem | states |
| --- | --- |
| `Invariance` | `Spec => []IInv` |
| `TypeCorrect` | `Spec => []TypeOK` |
| `CountsDown` | `Spec => []LeftIsDue` |
| `PinFollowsReset` | `Spec => []ResetPin` |
| `NoEdgeMissed` | `Spec => EdgesOnTime` |

They assume `ClockAssumption`: a period is not zero, as the code asserts, and
period plus phase is less than `W`, which no code ensures and without which
`LeftIsDue` is false. `IInv` joins `TypeOK`, `LeftIsDue` and `ResetPin`, and adds
that a released clock has no reset, which `Create` relies on. None is inductive
alone: that `Tok`'s subtraction does not wrap (`ModSmall`) needs the elapsed time
to be at most what is left of every clock, and this needs the minimum that the
last `Process` has found. `Process` is treated once, in `ProcessClocks` and
`ProcessResets`, for `Tok` and for `Refresh`; then there is one lemma per action.

### `BusSlaveProofs`

For any software threads, slaves of the three kinds, masters and resets:

| theorem | states |
| --- | --- |
| `TypeCorrect` | `Spec => []TypeOK` |
| `HoldsBalance` | `Spec => []HoldLedger` |
| `AcksBelong` | `Spec => []AckBelongs` |
| `WaitersOwn` | without a reader, `Spec => []WaitersOwnSlave` |
| `FlagsOwned` | without a master's reset, `Spec => []WaitHasOwner` |

`IInv` joins the types, `LockOK` (one thread inside `m_LockSW`), `AckOK` (a thread
that has published a request is owed its acknowledge or its request, once),
`MachineOK` (no request is withdrawn while a bus model works on it) and the
ledger. `AckBelongs` follows from `AckOK`; that it cannot be proved alone is the
point: an acknowledge is singular only because the request it answers was.

`Linearizable`: `Undisturbed => (Spec => BusSpec)`, for any software threads, slaves,
registers, writers and resets but those of a virtual slave, without a reader. To
`IInv` it adds `AddressedOK` (a request is for a register of its slave), `OwnOK` (the
request that a thread waits for is its own, to the letter) and `SampleOK` (what lies
between the moment APB takes an access and its acknowledge: the sample stays
current, since one machine serves both).

### `InterruptServiceProofs`

For any vectors, services and bound of the queue: `TypeCorrect`, `MarksAndTokens`
(`PendingAccounted`: the marks against the queue, the queue against the tokens; that the
tokens are used is liveness and stays with `QueuedIsServed`) and `HalfServiceInHand` (`MixedOnlyInHand`). `IInv` adds `HandOK`,
the vector in the thread's hand by its place, `PairOK`, the registered pair is whole
but between its two stores, and `LoadedOK`, what a call has loaded is still the
registered pair unless a registration came in between.

### `LifecycleProofs`

For the main thread, the routine and any further software threads (`Threads`), with or
without a `$finish`: `AccessesExclude`, at most one caller is between its request and its
return (`LockOK`) and it holds the engine until its acknowledge (`HoldsOK`); and
`DeletedAfterBothJoins` (`DeletedAfterJoin`), from `Order`, what `Release` has behind it.
The latter is about the two threads that the engine owns. It does not say that no
software thread is inside an access when the engine is deleted: nothing joins those.

### `MemoryHeapProofs`

For any memory, any requests and any word that holds them (`HeapAssumption`: alignments
divide the word, and request and padding do not wrap from an address asked for,
which no code ensures):

| theorem | states |
| --- | --- |
| `PartitionHolds` | `Spec => []Partition` |
| `ImplementsMap` | `Spec => MapSpec` |
| `NoMemoryHidden` | `Spec => []GrantsWhatFits` |

`Partition` is inductive. A heap can be cut and joined: lemmas say what a list that
covers `lo` to `hi` is before and behind a block, and that lists with a common end
join; `Alloc` and `ReleaseNoneThreadSafe` are then compositions of both. `TakenOf`
follows the areas in use through them for `ImplementsMap`. For `NoMemoryHidden`, a
free place lies in one block: the least block that ends behind its start
(`Smallest`, the least-number principle from the well-founded order of the
naturals) is free, reaches to its end since no two neighbours are free, and an
aligned place in it leaves room for the padding (`Padding`, modulo the word).

### `MaxiProofs`

For any bursts, lengths, slaves and size of the queue:

| theorem | states |
| --- | --- |
| `TypeCorrect` | `Spec => []TypeOK` |
| `HoldsKept` | `Spec => LedgerKept` |
| `ImplementsPort` | `Spec => PortSpec` |

`TypeOK` is inductive with `FreshOK`, what holds of a burst just taken from the queue.
Every action ends with `Request`, treated once in `RequestStep` and, for the port, in
`RequestOpen`. `ImplementsPort` needs `RingOK`, the head is behind the last burst that
waits, and the queue as a sequence: `WaitPush` and `WaitPop` say that a `Push` of the ring
appends to it and a `Pop` takes its first, through every wrap of the two indices.

### `FiFoAsyncProofs`

For any `FIFO_DEPTH` of at least 2 (`DepthAssumption`, the comment of
`library/FiFo_Async.sv:84`) and any data:

| theorem | states |
| --- | --- |
| `Invariance` | `Spec => []IInv` |
| `FifoSlotsApart` | `Spec => []SlotsApart` |
| `FifoSamplesWhole` | `Spec => SamplesWhole` |
| `FifoImplementsQueue` | `Spec => ImplementsQueue` |

First the arithmetic that the prover does not know. Powers of two come from the
number of subsets (`PowerSucc`), so that `Bit` can be worked with; induction over the
wires is the least-element principle on a set of indices (`Upward`). From these:
counting up by one changes one wire of the Gray code, at the wrap too (`GrayStep`), two
counts with the same code are equal (`GrayInjective`), and codes that are `Opposite`
are a whole FIFO apart (`GrayOpposite`). A pointer caught between a count and its
successor is then one of the two (`CaughtWhole`), which is `SamplesWhole`.

`IInv` is inductive: the types, `ResetOK` (a side in reset shows nothing of its past)
and `PointersOK`. Going round from the oldest copy of the reader's
count, through its newer copy, the reader's count, the copies of the writer's count
and the writer's count itself, no count is met out of order and the whole way is at
most one FIFO, with one slot to spare when `W_FULL` is low and an item to read when
`R_EMPTY` is. `Unroll` lays the six counts on a line, where the step of each side is
linear arithmetic (`WriterMoves`, `ReaderMoves`), and `RollUp` takes them back.
`SlotsApart` follows, and the refinement: on the line the items are a window of the
memory, to which an accepted write appends (`WindowPut`) and from which a read takes
the first (`WindowTake`).

Only model-checked: everything with fairness (`KillJoins`, `HeldGetsClock`,
`QuietSleeps`, `CallReturns`, `MaxiWriteDone`, `QueuedIsServed`, `ResetsEnd`, `Served`,
`SidesNotice` and the liveness of `Lifecycle`), for liveness is out of the prover's reach.

## Not modelled

See `components` in `PROJECT.json`. Left for the plan below: the HDL library but for
`FiFo_Async`, the list of instances, byte strobes. A software thread that is inside a
register access when `Release` deletes the engine uses deleted objects: the code has no
join for it, and no model says what follows. Left out for good: file and window I/O, tracing, the
desktop tools, the code and document generators, third-party code, and the native
driver, which is not in the repository. Most of the repository is of these kinds
(the embedded web view, LuaBridge, argtable, the installer, the generators and their
user interfaces): they keep no protocol between threads or with hardware, and a
model of them would be a copy of their text. The maps cover what the simulator,
its bus models and the heap do, which is a small share of all the lines.

## Plan

Done, in the order of importance: `EngineGate`, `DelayLock`, `DelayLockProofs`,
`IsrWake`, `RegisterBus`, `BusSlave` with its three kinds of slaves, `InterruptService`,
`SimClock`, `SimClockProofs`, `Lifecycle`, `MemoryHeap` with `MemoryMap`, `Maxi` with
`AxiPort`, `FiFoAsync` with `BoundedQueue`, the proofs of all of them and of the five
refinements.

1. The instance list with `SimDelayCall`, whose objects delete themselves in the
   traversal (`SimEngine.cpp:145`), and the destructor of the engine, which deletes a
   reset twice.
2. `FiFo`, `ControlSlice` and `CommandQueue` of the HDL library against `BoundedQueue`,
   with proofs of order and capacity.
3. The byte strobes of `BusSlave`, which a software write inherits from the last
   hardware write.
4. `io_slave` and the memory calls of `SystemSim`; `Flush` and `PhysicalOverride` of the
   heap.
