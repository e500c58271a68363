# A TLA+ model of WEOMcpp (thermal-core)

WEOMcpp is a C++20 SDK for the WTC640 thermal camera. A program reads and writes *properties* of
the camera; the SDK turns that into tasks, the tasks into packets on a serial or USB link, and keeps
the cached values, the device and several threads of the program in step. This directory models the
parts of it where that can go wrong, checks them with TLC on small instances and proves central
properties of eight of them with TLAPS for instances of any size.

Paths are relative to the repository root; `properties.cpp` and the like stand for the file of that
name under `src/core/source` or `src/wtc640/source`.

- [The system](#the-system): components, state, operations, hard behaviour
- [The modules](#the-modules): what each one models and how it corresponds to the code
- [The runs](#the-runs): what TLC checks, with which bounds and which fairness
- [The proofs](#the-proofs)
- [Where code and text disagree](#where-code-and-text-disagree)
- [What is not modelled](#what-is-not-modelled) and [the plan](#the-plan)

## The system

    program (one or more threads)
       |  transactions: createPropertiesTransaction, createConnectionExclusiveTransaction, ...
    Properties / PropertiesWtc640 ---- PropertyValues (cached values, one mutex)
       |  property adapters: touch, refreshValue, setValue, resetValue
    ITaskManager = TaskManagerQueued (ASYNC_QUEUED) | TaskManagerDirect (SYNC_DIRECT)
       |  task functions, on detached threads
    DeviceInterfaceWtc640 (retries, busy waiting, flash bursts; m_flashMutex)
       |  packets
    ProtocolInterfaceTCSI (one request at a time; packet ids, timeouts)
       |  bytes
    IDataLinkInterface = DataLinkUart (asio) | DataLinkEbus (plugin)
       |
    camera

| Component | State | Operations | What is hard | What makes it correct |
|---|---|---|---|---|
| Queued task manager (`taskmanagerqueued.cpp`, `itaskmanager.cpp`) | waiting queue, tasks in progress, two block flags, weak handles | `addTaskSimple`, `addTaskWithProgress`, `blockAddingTasksAndWait`, `blockRunningTasksAndWait`, unblocking, `onTaskFinished`, destructor | detached threads; a queue that is scanned, not popped; no condition variable; drains while tasks start tasks | no two overlapping tasks at once, thread limit, writes in order, no lost wake-up, quiet when drained, every drain and task ends |
| Direct task manager (`taskmanagerdirect.cpp`) | one block flag | the same, in the calling thread | one flag for two kinds of blocking | as above, trivially, while used by one caller |
| Transactions (`properties.cpp`) | outer mutex, weak pointers to the open transactions, exclusive task manager, current device type | create a plain, try, exclusive or state transaction; `getTaskResultTransaction`; end of each | two mutexes released in two steps; guests in somebody else's transaction; drains while holding a lock | the owner assertions in the code, exclusiveness, no change unreported, no deadlock |
| Property values (`propertyvalues.cpp`) | values, current transaction, changed set, mutex | `createTransaction`, `setValue`, `resetValue` | what changed must survive the hand-over between transactions | part of the transactions |
| Property adapters (`propertyadapter*.h`) | reader, writer, cached value, status; of a composite the last written and the first read value | `touch`, `refreshValue`, `setValue`, `updateValueAfterRead/Write` | the cached value is compared before the queue is empty; components follow a signal; a failed write | the cached value is true of the device, components show the composite, writing one component does not disturb the others |
| TCSI protocol (`protocolinterfacetcsi.cpp`, `tcsipacket.cpp`) | last packet id, straight timeouts, connection lost | `readData`, `writeData`, flash burst start and end, `setDataLinkInterface` | late, halved and foreign answers; ids of four bits | own answer only, recovery after errors, honest connection-lost |
| Device interface (`deviceinterfacewtc640.cpp`) | flash mutex; per operation an error window, a busy time, a position | `readData`, `writeData`, `readSomeData` | retries inside retries; bursts that must not be interrupted | ok only when all is written, bursts exclusive, every operation gives up |
| Memory space, address ranges (`addressrange.cpp`, `memoryspacewtc640.cpp`) | maps of disjoint ranges | overlap, containment, sums, add, remove and search in a map; descriptors per device type | a search in an ordered map that starts one range early; sums that wrap | the search finds exactly what overlaps |
| Register of adapters (`properties.cpp`, `propertieswtc640.cpp`) | adapters, address maps per device type, statuses, values | create, add and remove preset adapters, connect, touch, write past the properties | addresses that the camera reports; answers that come after the camera or the source has changed | maps follow the register, what can be read is addressable, no value without a readable property, no value from before a write past it |
| Serial link (`datalinkuart.cpp`, asio) and eBUS (`datalinkebus.cpp`) | port, handlers and two timers, bytes taken; lost | `read`, `write`, `dropPendingData`, close | an asynchronous operation composed of smaller ones; cancellation that meets completion; a driver that hangs | bytes without a hole and none from before a drop, every call ends |
| Video stream (the same files) | input, codec, type of image | start, stop, `readImageData` | one thread reads, others start and stop | an image has the type it is labelled with |
| Connection (`propertieswtc640.cpp`) | link, device type, memory space, USB, preset and lens adapters, last link, `m_connectionLostSent` | connect over serial port or eBUS, automatic, disconnect, reconnect, baudrate, resets, firmware update, `onTransactionFinished` | a camera that resets, changes or is unplugged in any step; a thread that reports a loss outside every mutex | one consistent connection after every failure path, ok only with a camera that answers, a whole firmware, every loss signalled |
| Progress controller (`progresscontroller.cpp`) | current task, cancel flag | begin a task, cancel | cancellation that meets the start of the next task | part of the connection |
| Dead pixels (`deadpixels.cpp`, `hungariandeadpixels.cpp`) | a table of pixels and replacements, the two tables in the camera | insert, erase, recompute, import, serialise, read back, save | slots, chains and circles; a save that stops in the middle; a pruned search | the table passes its own check, what is cached is what the camera would give, the assignment is the best |
| Palettes manager (`palettesmanager.cpp`) | cached palettes, loader thread | load, reset, get | a loader that is late | not modelled |
| Firmware files, palettes, colorization, logging, USB strings, example | values | pure computation or I/O | – | not modelled |

Interaction: a caller locks the *outer* transaction mutex and then the values; adapters hand tasks to
the current task manager; the thread of a task accesses the device without either mutex and stores
what it found in a *result transaction*, for which it needs the values; an exclusive or connection
state transaction releases the values, blocks and drains the task manager and takes the values back.
Handlers of `transactionFinished` run in the thread that ends the transaction.

`PROJECT.json` lists every component with its files, and every hazard at its line.

## The modules

    TaskScheduler  <==refines==  TaskManagerQueued  --extended by-->  TaskManagerRefresh
                                        |  \--proved in--> TaskManagerQueuedProofs
                        (the scheduler, without ranges)
                                        v
    TransactionService  <==refines==  Transactions  --proved in--> TransactionsProofs

    PropertyAdapters  --extended by-->  ComponentReset     (what the tasks do to values)
         \--proved in--> PropertyAdaptersProofs

    AddressRanges <-- MemorySpaceWtc640 <-- PropertyRegister <-- PropertyTableWtc640
                                               \--proved in--> PropertyRegisterProofs

    HungarianDeadPixels <-- DeadPixels

    ProgressController <-- ConnectionWtc640  --proved in--> ConnectionWtc640Proofs

    DeviceInterfaceWtc640 (packets have outcomes)  --proved in--> DeviceInterfaceWtc640Proofs
    ProtocolTCSI          (where outcomes come from)      --proved in--> ProtocolTCSIProofs
    VideoStream <-- DataLink   (where bytes come from)    --proved in--> DataLinkProofs
                       \==refines==> ByteStream

An arrow to the left is EXTENDS. The layers of the access to the device are checked one by one: each
takes from the layer below what that layer is shown to give (an operation that ends, an answer that is
its own, the next bytes without a hole), and leaves the rest open.

### TaskManagerQueued

`taskmanagerqueued.cpp` with the handles of `itaskmanager.cpp`. Every critical section of `m_mutex`
is one action, and the unlocked parts of a task's thread are the phases in between: `executing` (the
task function), `invalidating` (the `invalidateProperties` signal of a `WRITE_WILD` task, emitted
while the task is still registered), `returned` (only the final erase is left). `inProgress` is
`m_tasksInProgress`, `waiting` is `m_tasksWaitingQueue`; since the code only pushes at the back,
erases by index and clears, the vector is a set of tasks ordered by the ticket of their request.
Address ranges are sets of addresses, inclusion and overlap those of sets.

The loop of `tryRunTasks` is the operator `ScanStarts`, which says which set of tasks a scan starts:
a waiting task is started exactly when, beside what ran before and the earlier tasks of this very
scan, a thread is left and nothing conflicts. The loop itself is `LoopStarts`, a recursive function over the queue.
That both start the same tasks is proved for every queue (`LoopIsTheScan`); TLC evaluates it over every
queue of up to three tasks (`ScanIsTheLoop` in `MCTaskManagerQueued`).

`BlockAddingTasks`, `BlockRunningTasks` and `Destroy` are the critical sections that start a drain;
`FinishTasks` is the poll of `finishTasks` that finds nothing in progress. One caller at a time
drains: `Properties` makes both handles under its outer mutex and assumes it in its assertions.

### TaskScheduler

What any task manager promises: an accepted task starts at most once, is lost only by a stop that drops
everything that waits, incompatible tasks never run together, a task never overtakes one it must
follow, nothing is accepted while offers are blocked (`accepting`) or started while starts are
(`starting`), nothing runs while the gate is shut, and the gate is shut only behind a block. `Kept` says that nothing waits in vain:
what is pending is started by the end of something that runs or, while starts are blocked, by the end of a
pause, and never stays behind a stop. A stop and a pause may overlap, so
`Block` and `Unblock` change either flag; an unblocking starts what it can. `TaskManagerQueued` implements it with `pending` as
the queue, `running` as the tasks in progress, `seen` as the requests so far, `accepting` and `starting` as the
negated `m_blockAddingTasks` and `m_blockRunningTasks`, and the gate shut while
a caller holds a handle that has been drained. "Must follow" is what the code really guarantees:
a later task does not overtake an earlier one whose ranges it *includes*. Tasks that merely overlap
have no such order. Let a task over `{a}` run and a task over `{a, b}` wait for it: a later task over
`{b, c}` overlaps the waiting one but nothing that runs, so it starts first. Every property is read
and written over its own ranges, so the order holds for the accesses to one property.

### TaskManagerRefresh

The same manager with the moment at which a task's reader or writer returns. It exists for one
question: does a refresh read the device? See [below](#where-code-and-text-disagree).

### Transactions

`properties.cpp` above a task manager. Callers go through the steps of each kind of transaction with
the mutexes as variables; the thread of a task goes from its device access through
`getTaskResultTransaction` to the report. The order of destructors matters and is kept: `~PropertiesTransactionData`
releases the outer mutex and the transaction pointer before the values (`UnlockOuter`, then
`UnlockValues`, then `Report`); `~ConnectionStateTransactionData` makes an exclusive transaction
first, then lets tasks be added, and the exclusive one ends last. A result transaction becomes the
owner if nothing is open and a guest otherwise; which of the two is decided when it has the values.
`saved` is `m_propertiesValuesChanged` of each `TransactionData`. The history variable `unreported`
collects what was changed since handlers were told.

The task manager is reduced to what `TaskScheduler` promises, without ranges: a scan may start any
set of waiting tasks, none while starts are blocked, and at least one if they are not and nothing runs (`Kept`). A task is named by the property it accesses,
and a known task is ignored. The slot of `invalidateProperties` takes the steps of a task after its
device access.

### TransactionService

What the transactions promise a program that knows nothing of two mutexes, hand-overs, drains and blocks. One
caller has the transaction; what it may do is nothing yet, share the device with the tasks, or have the
device alone. Values change by the hand of a holder that may use them, or by a task that opens a transaction
of its own or changes its property for a holder that may not use them yet. Whoever had the values owes a
report; when the last debt is paid nothing is unreported. `Transactions` implements it with the caller that has the outer
mutex as holder (`Holder`), its position as use (`Usage`), the tasks with a thread as those at work
(`Live`) and the owner of the open transaction and whoever has ended one without having reported as those that owe a report (`Owing`). The last point says more than
`ChangesAreReported`: changes saved for somebody who will never report them are not covered.

### PropertyAdapters

A composite property over the simple device adapter, as contrast with brightness, the image flip and
the article number are, and the component properties that show and write its parts. The device holds
one composite. The program sets, refreshes and resets; a component is set by
`getCurrentCompositeValueForWrite` with one part changed, which is `m_lastWrittenValue`, else
`m_firstReadValue`, else the default. A task first accesses the device (`AccessDevice`), later updates
the values in a result transaction (`Update`), and is erased last (`OnTaskFinished`); the program's
calls come in between. A write that fails may have reached the device, and is followed by a read that
may fail as well. The cached values are results: none, a value, an error that `touch` tries again, or one that
it does not. `Invalid` stands for what a component's validation refuses: the transform turns it into an error
of that component, and the first read value that has it is not written back. `SetCached` includes the
components' slots on `valueChanged`, which runs only when the value differs.

The tasks run one at a time and in the order of their requests, except those of `writeData`, as
`TaskManagerQueued` guarantees. `foreign` is a history variable: something was written past the property.

### ComponentReset

The same with `resetValue` called for a component alone.

### DeviceInterfaceWtc640

An operation is a sequence of sectors, each a number of packets; an outcome of a packet is ok, failed,
busy or refused, as `handleErrorResponse` distinguishes them. `op` holds the locals of `writeData` and
`readDataImpl`: the error window (`std::bitset<8>`, newest bit first), `busyDelayTotal` in units of
`BUSY_DEVICE_DELAY`, the counter of the sector loop. The loops around burst start and end are
separate actions because they treat the window differently. `seen` is what the device has made of the
operation and exists for the properties.

### ProtocolTCSI

One operation at a time, as `m_mutex` makes it. An answer is a header and, for a read, a rest, which the two reads of
`receiveResponsePacket` fetch. The link may lose, damage and delay both; `calm` is the moment from
which it does not any more and the device accepts everything. The number of the request an answer
belongs to is known to the model only; the code sees its value modulo `PacketIds` and the address.
The checksum tells a rest that belongs to its header from other bytes.

### DataLink, VideoStream

The port below the protocol. Bytes are numbered as they come in, so that a hole and an old byte can be
seen. `doAsync` is a loop: an operation of Boost.Asio reads what is there (`Transfer`), its intermediate
handler starts the next read (`Continue`), the timer cancels what waits (`TimerFires`) and has no
effect in between, a second timer closes the port of a driver that does not obey (`CloseTimerFires`).
`dropPendingData` is the loop over blocks of 256 bytes. eBUS is a vendor library: it is
modelled by the results the code in `datalinkebus.cpp` distinguishes.
A read or write tests once, when it begins, whether the port is open (`opened`).
`VideoStream` is the image stream beside it: one thread reads, and any thread starts and stops at any moment. The
mutex of the serial port's stream covers a start, a stop and the reading of a frame, so these are steps; `readImageData`
labels the image (`ReadBegins`) and chooses how to read it (`ReadChooses`) by an unlocked `m_dataType`, which are
steps of their own. The history field `disturbed` of a read and of its image says that a start for another
type (eBUS: any start or stop that has an effect) fell into the read. A null pointer that is dereferenced ends the program (`Crash`).
Calls and the stream share nothing but the close of the link; a behaviour explores the one or the other.

### ByteStream

What a link promises to the protocol: an answered read gives as many bytes as were asked for, and they are the
next ones; a byte is given once, and none from before a drop is given; bytes are lost only in a read or a drop.
`DataLink` implements it with the bytes taken as gone unless a read holds them (`Gone`), the read
under way as what is asked for (`Reads`), and the result of the last call (`Given`). `FreshBytes`, that an answer has no hole and
nothing from before a drop, is less than this and therefore proved but not checked by a run: the refinement
also says how much is handed over, and what the next call finds.

### ConnectionWtc640, ProgressController

The operations of `PropertiesWtc640` that change the connection. One of them runs at a time, since each holds a
state or an exclusive transaction (`Transactions` shows what that gives). `core` is the camera: mode, baudrate,
a reset that is to come, the flash. `link`, `lost`, `sent`, `type`, `space`, `last`, `usb`,
`presetIds`, `adapters`, `lens` are the variables of the code that describe the connection, `op`,
`pc` and `cand` the locals of the operation. Any access may fail. At any moment the camera executes its reset, is exchanged,
unplugged or plugged in, the user cancels. `finishing` is a thread whose transaction has ended and which
evaluates `onTransactionFinished` outside every mutex: it looks at the flag and the link in one step and sets
the flag in another, when there may be a new link. The history variable `signals` tells what was signalled since
the link was set: nothing (`none`, or `found` while a refresh that found another camera is about to signal), the loss of this link (`own`),
or, while this one was not lost, that of an earlier one (`late`). `setDataLinkInterface` is one step: a thread that looks between its reset of the flag and the exchange
of the link, and so finds a loss that was signalled already, would be one more way to a late signal and is not modelled. `updateFirmware` reads the baudrate and the device
type in one transaction and acts in another: `asked` is what was read. Operations of other threads come in
between, so that a baudrate read from a serial port may be asked of an eBUS link in the end; then
`setCoreBaudrate` has no port to set and the link is closed (`NoUartConnection`). How
many attributes a preset has is a choice when the presets are read, so that a camera
with more of them than the last one throws out of the operation (outcome `exception`); the history variable
`thrown` says that this has left the adapters of the link incomplete.

### AddressRanges, MemorySpaceWtc640, PropertyRegister, PropertyTableWtc640

`AddressRanges` has ranges with their order, overlap and sum, and `AddressRangeMap` as a function on
ranges; its search steps an iterator back from the first candidate, as the code does. Addresses are counted in words of four bytes, of
which every range of a property is made, so that 2^30 addresses fit TLC's integers.
`MemorySpaceWtc640` holds the memory descriptors of both firmwares. `PropertyTableWtc640` is the table of
`createAdapters`: every adapter with addresses, with its device types, its constraint and its
order. `PropertyRegister` is what happens to such a table: adapters are created one by one
(`CreateAdapter`), a connection sets the device type and resets values, preset adapters get the addresses the camera reports
(`AddPresetAdapter`; `PresetTableError` is the early return when one is not acceptable), reads access the device in one step and
store in another, a write past the properties forgets what it overlaps. A change of a value that is the source
of statuses sets those statuses, and values that became unreadable are dropped, in the same step
(`SetValues`), as the handlers of the transaction do.

### HungarianDeadPixels, DeadPixels

`HungarianDeadPixels` is the algorithm of `hungariandeadpixels.cpp` with its potentials, its growing
neighbourhood and its pruning; a worker is a use of a live pixel. It is written with recursive
operators, for TLC only. `DeadPixels` is the table with its edits, the division of replacements into
the slots A and B along chains and circles, the two serialised tables with their terminators, the readers, CSV files, and the save,
which writes the dead pixels first and the replacements second and may fail after any entry.

## The runs

| Run | Shows | Bounds |
|---|---|---|
| `task_manager` | `ConflictFree`, `ThreadLimit`, `NoLostWakeup`, `WritesInOrder`, `BlockedIsQuiet`; refinement of `TaskScheduler`; `DrainsFinish`, `TasksSettle`; `TypeOK` | six kinds of requests over three addresses, four requests, two threads |
| `task_refresh` | violation of `RefreshReadsNewValue` | two kinds, three requests |
| `transactions` | `ValuesOwned`, `DeviceIsExclusive`, `ChangesAreReported`; refinement of `TransactionService`; `OpeningEnds` | two callers, two tasks, the first touches the second |
| `property_adapters` | `CacheIsTrue`, `ComponentsFollow`, `LastWrittenIsOnDevice` | two components of two values and an invalid one, two waiting tasks and a running one, two connections |
| `component_reset` | violation of `RefreshGivesValue` | one waiting task, one connection |
| `property_register` | `RegisteredIsMapped`, `ReadableIsAddressable`, `UnreadableHasNoValue`, `ForgetsOverwritten` | the real table and memory space; two connections to a camera of either firmware, two touches, one write past the properties |
| `protocol` | `OwnAnswer`, `RecoversAtOnce`, `LostOnlyAfterSilence`; `OperationsEnd` | two addresses, three packet ids, four requests, answers up to two requests late |
| `data_link` | `FrameHasItsType`; refinement of `ByteStream`; `CallsEnd` | four bytes, buffers of one and two, blocks of two, three calls, two faults, three starts of the stream |
| `device_interface` | `BurstIsExclusive`, `OkMeansWritten`, `ErrorsLimited`; `ReadsAndWritesEnd` | two threads, three packets or two sectors, window of four, two errors, two busy periods |
| `flash_errors` | violation of `FlashErrorsLimited` | one thread, one sector of one packet |
| `connection` | `TypeMatchesLink`, `OkMeansConnected`, `FirmwareWhole`; `LossIsSignalled`, `OperationsEnd` | three operations of eight kinds, one fault, two baudrates, two parts of a firmware, two attempts, two presets with one or two attributes |
| `dead_pixels` | `TableIsChecked`, `CacheIsCamera`, `RecomputedIsBest` | a sensor of 3 × 3, five of its pixels edited in any order, every table of up to four dead pixels recomputed, four files with circles and doubles, one save |

Every property of a passing run has a *fault*, a variant of one definition as a plausible mistake in
the code would make it (they stand beside the definition they change, marked `Fault:`), under which TLC finds the property
violated. So no property holds by the shape of the model alone.

**Why the bounds are enough to be of interest.**
- `task_manager`: two requests can conflict, a third can wait and a fourth overtake; with two threads
  the limit is reached while a compatible task waits; the six kinds contain a read and a write of one
  property, a property write over wider ranges, two tasks with progress and one that conflicts with nothing. There is no
  bound on blocking, pausing and destroying. `MaxRequests` is a guard of `AddTask`; the proofs do
  without the small values.
- `transactions` has no bound but the two sets: one caller waits while the other opens, uses and
  ends a transaction, and one task is a guest or owner while another is touched by it.
- `property_adapters`: a write can wait behind a write that runs and before a third call; the second
  connection, with any value on its device, shows what would be carried over from the first. The two
  components are symmetric.
- `protocol`: `MaxLate < PacketIds`, as sixteen ids are more than any answer is late; three ids wrap
  around within four requests, so that an id is reused. With an answer as late as the ids are many,
  `OwnAnswer` fails, and the code has no defence: this is an assumption on the link. Four requests
  are one more than `MAX_STRAIGHT_NO_RESPONSES_COUNT + 1`, so that the loss of the connection,
  a new link and the first answer on it all happen.
- `device_interface`: the window (4) is longer than the packets of an operation (3) and than the errors
  allowed (2), as in the code (8, 4); a flash write has a sector of two packets, so that a sector can fail in its
  middle, and a second sector.

- `property_register` uses the table and the memory space as they are, not small ones, and the
  addresses for presets are good, outside every memory, on top of a static property, and on top of each other by one word.
- `data_link`: a drop of one full block and a short one, an operation put together from two reads with the timer
  between them, a timeout and a later call on what it left, and a driver that hangs after that.
- `connection`: an operation meets what a failed one has left, and a third one comes between what an update
  reads of the connection and what it does with it (serial port asked, eBUS connected, update). One fault hits any step of
  an operation or of its recovery; the proofs of the safety properties do without the bounds. The two
  baudrates are both tried, and either may be the one of the camera. This is the largest run (690,000 states).
- `dead_pixels`: the files hold circles of three and of four dead pixels; four dead pixels in a corner of a
  3 × 3 sensor leave one of them without a live neighbour, so that the neighbourhood grows, and dense tables use a live pixel twice.

**Deadlock** is checked for `transactions`, `property_adapters`, `device_interface` and `connection`. The other
systems may really stop, and their configurations say so: a task manager that is destroyed, a protocol, a
link and a register whose bounded calls are used up, an editing session after its save.

**Fairness.**
- `TaskManagerQueued`: a task's thread takes its next step, since every device access has a timeout;
  `finishTasks` polls every 50 ms until it succeeds; the handles are scoped objects whose scope ends.
  Nobody has to add tasks or to block.
- `Transactions`: a thread that waits for a mutex that stays free gets it (weak fairness), a task's
  function returns. A caller need not ask, use or end a transaction, and need not win the outer
  mutex, for which several callers may compete: `OpeningEnds` starts when it has.
- `DeviceInterfaceWtc640`: a packet has an outcome, at the latest at its timeout. Nothing is assumed
  of the lock, and a read may be cancelled or go on.
- `ProtocolTCSI`: a read of the link returns with data or at its timeout, and a link that has
  something to deliver delivers it.
- `DataLink`: time passes (`Expire`), and the thread of a call runs the handlers that are ready
  (`CallStep`: it is the thread that runs the io context). No byte need come in, no driver obey.
- `ConnectionWtc640`: the thread of an operation runs on, since every access ends (`OperationsEnd` of
  `ProtocolTCSI`); transactions keep ending, since a client refreshes the properties periodically,
  and the thread that ended one evaluates its handler. The camera need not come back from a reset.

## The proofs

Eight modules are proved about. Nothing is assumed but the named assumptions on the constants, and
`MaxLate < PacketIds` where it is said.

### The task manager

`TaskManagerQueuedProofs` proves, for every set of requests, number of threads and number of calls
(assumptions `TaskInfosAssumption`: finitely many requests, with ranges that are not empty, a type and
a flag; `ThreadsAssumption`: at least one thread; `RequestsAssumption`):

| Theorem | States |
|---|---|
| `Invariance` | the inductive invariant `IInv` always holds |
| `TypeCorrect` | `TypeOK`: the tasks registered are those with a thread, in one phase each |
| `RunsWithoutConflict` | `ConflictFree` |
| `ThreadsLimited` | `ThreadLimit` |
| `WakeUpsKept` | `NoLostWakeup` |
| `WritesKeepOrder` | `WritesInOrder` |
| `QuietWhenBlocked` | `BlockedIsQuiet` |
| `Refinement` | `Spec => Scheduler!Spec`, the abstract scheduler |
| `ScanIsDetermined` | exactly one set of tasks satisfies `ScanStarts`, whatever waits and runs |
| `LoopIsTheScan` | the loop of `tryRunTasks` starts that set |
| `DrainsShrink` | while a caller drains, no step raises what any task has left, and each step of a thread lowers it for its own |
| `DrainsWaitForThreads` | while a caller drains, something is left exactly as long as a thread is alive |

The argument has two halves. The first is about the scan alone: four lemmas say that what
`ScanStarts` starts is free of conflicts with what runs and among itself, keeps to the thread limit,
leaves nothing runnable behind (the scan passes over tasks, and what it passes over early must
still not be runnable at the end, which holds because the running set only grows), and keeps the order
of inclusion. The limit needs a last started task, which finite sets of tasks with unique tickets
have. Beside them stand the two theorems on the loop: that `ScanStarts` has exactly one solution, so that the
actions which use it neither choose nor get stuck, and that the loop computes it. Induction over the queue is out of the
provers' reach as a rule to cite; the proofs take the first step of the loop at which the claim would fail
instead, which exists because a non-empty set of naturals has a least element (`LeastNat`). The second half is the invariant. None of the properties is inductive alone: the lemmas need
tickets to be unique across waiting and running tasks and no larger than the number of requests, and
the queue disjoint from what runs; `BlockedIsQuiet` needs that a held pause means blocked running, a
held stop blocked adding, and that a drained stop has left nothing in the queue, also when the pause came first
(`blockAddingTasksAndWait` clears the queue in that case, and only in that case). `IInv` is the
conjunction of these and the properties; each action preserves it by one step per conjunct it
disturbs. The refinement is proved from `IInv`: each action maps to `Work`, `Block`, `Shut`, `Unblock`
or a stutter, and `Kept` is `NoLostWakeup` together with what `IInv` says of the handles.

The last two theorems are the safety part of `DrainsFinish`. What a task has left (`Remaining`) is the number of steps its thread has
before it, the start included; a task that waits while starts are blocked has none, as it will not be started in this
drain. A stop does not block starts, so the end of one task may start others while `finishTasks` polls; but those had
their steps counted already, and nothing new is accepted.

### Transactions

`TransactionsProofs` proves, for any sets of callers and tasks (`NobodyAssumption`: they are disjoint, and the value for "nobody" is none of them):

| Theorem | States |
|---|---|
| `Invariance` | `IInv` always holds |
| `ValuesAreOwned` | `ValuesOwned`: the assertions of `properties.cpp` on who has the values |
| `ExclusiveIsAlone` | `DeviceIsExclusive` |
| `NoChangeIsLost` | `ChangesAreReported` |
| `Refinement` | `ImplementsService`: `Spec` implements `TransactionService` |
| `DrainsShrink` | while a caller drains, no step raises what any task has left, and each step of a thread lowers it for its own |
| `DrainsHaveWayOut` | while a caller drains, a task that is left has a thread, and the values are not kept from it by anyone who waits for the drain |

`IInv` is `Types /\ Owners /\ Blocks /\ Drained /\ NoLostWakeup /\ ChangesAreReported`. `Owners`
says of each lock at which positions its holder can be: it is what makes the two-step release of outer mutex and values safe, since
between the two steps the next caller may own the one and not yet the other. `Blocks` ties the two
flags of the task manager to the position of the one caller that set them, `Drained` says from which position on no task is left, and
`NoLostWakeup` is needed because a resume must leave no task behind. `DeviceIsExclusive` follows from
`Blocks` and `Drained`. For `ChangesAreReported` the unreported changes have to be covered by the
sets saved in open transactions and the ones still to be signalled, in every position of every holder.

The refinement needs one more invariant, `Debts`: the changes collected so far are with whoever has the values,
and what is saved is saved with an actor that has a report to make. It is why the last report leaves nothing unreported. The
steps are proved in groups: a step of a caller, of a scan, or of a task maps to one step of the service or to a stutter.

The drain has the same measure as that of the task manager, with one more thing to show: a task that updates its values
touches the properties that depend on it, and asks for tasks that read them. Either offers are blocked and these are ignored,
or starts are and they are not waited for. That the threads then get the mutex they all want is `DrainsHaveWayOut`: whoever has the values is past its device access or
about to let go, and the caller that drains never has them.

### Device interface

`DeviceInterfaceWtc640Proofs` proves, for any threads, any sectors and any limits
(`DeviceAssumption`: sectors are sequences of packet counts, the errors allowed are fewer than the window is long):

| Theorem | States |
|---|---|
| `Invariance` | `IInv` always holds |
| `TypeCorrect` | `TypeOK`, which no run checks: it is a part of `IInv` |
| `BurstsAreExclusive` | `BurstIsExclusive` |
| `OkMeansAllWritten` | `OkMeansWritten` |
| `ErrorsAreLimited` | `ErrorsLimited` |
| `PacketsRunOut` | each packet of a read or write outside flash memory ends the operation or lowers `PacketsLeft` |
| `PacketsAreBounded` | `PacketsLeft` is at least 1 and at most (size + `BusyLimit`) × (`MaxErrors` + 1) |

`IInv` is `Mutex`, that `m_flashMutex` is shared by exactly the threads that read or write, or held alone by
the one flash write, and `ThreadsInv`, a statement per thread: `GoodPosition` (locals fit the operation), `GoodMissing` (what the device has not
acknowledged is still to be sent: the sector loop may only advance past what is written), and
`GoodWindow` (outside flash memory the bits of the code are the outcomes of the last packets). The
error limit needs a lemma on shifting: the window loses its oldest bit, so the new errors
inject into the old ones, and the count grows only by the bit that is set.

`PacketsLeft` counts, for each packet that still has to succeed and each busy answer that is still allowed,
`MaxErrors + 1` packets, less the failures since the last packet that did not fail. A failure adds one to these, and the
error limit keeps them below `MaxErrors + 1`; a packet that does not fail forgets them, and is one less of those counted. The theorem does not hold for flash memory, and the run `flash_errors`
shows why.

### Register of adapters

`PropertyRegisterProofs` proves, for any table of adapters, any camera and any preset addresses
(`TableAssumption`, `AddressAssumption`: the ranges of a property and of a write past the properties are as the constructors of
`AddressRanges` leave them, sorted and apart, and those of static properties of one device type are apart):

| Theorem | States |
|---|---|
| `GetOverlapIsExact` | the iterator search of `getOverlap` finds exactly what overlaps, in any map of disjoint ranges |
| `MapsFollowTheRegister` | `RegisteredIsMapped`: the VERIFYs of `mapAdapterAddressRanges` hold |
| `WhatCannotBeReadHasNoValue` | `UnreadableHasNoValue` |
| `WhatCanBeReadIsAddressable` | `ReadableIsAddressable`, if the static table is addressable |
| `OverwrittenIsForgotten` | `ForgetsOverwritten` |
| `RangesOverlapIsExact`, `RangesContainIsExact` | the loops of `AddressRanges::overlaps` and `contains` through two sorted sequences find whether they have an address in common, and whether the one holds the other |
| `MergedIsAddressRanges` | the loop of `setRanges` makes of sorted ranges a sequence that is sorted, apart and without neighbours that touch, with the same addresses |

The search is exact because in a map of disjoint ranges the order by first address is also the order by last address;
so only the one range before the first candidate can reach into the searched one. The register
needs the invariant `Shape /\ Created /\ MapsApart /\ RegisteredIsMapped`: `Created` says which
part of the table exists, and `MapsApart` is what makes the search applicable and what the checks before
a preset adapter is added re-establish. `WhatCanBeReadIsAddressable` has the hypothesis `StaticIsAddressable`, a
fact about the table and not about behaviour; the run `property_register`
shows it for the table of the WTC640, where `ReadableIsAddressable` covers every static property.

`OverwrittenIsForgotten` rests on the invariant `ForgettingInv`, which is `AddressInv /\ ValueInv /\ StatusInv /\ TaskInv /\ OverwrittenInv`. A value
that was read before the write is either with a task that has not stored it, or stored. The first cannot be: tasks with addresses
in common exclude each other (`TaskInv`), so no read of those addresses is under way beside the write. The second is found and dropped, since the
search is exact, every readable property is in the map of its device type (`AddressInv`, `StatusInv`), and
only a readable one has a value (`ValueInv`). The three theorems on loops are about recursive functions; as for the
task manager, they take the first step at which the claim would fail.

### Property adapters

`PropertyAdaptersProofs` proves, for any components and values, any number of waiting tasks and of connections
(`AdaptersAssumption`: the invalid value is none of the values, and the default can be written):

| Theorem | States |
|---|---|
| `Invariance` | `IInv` always holds |
| `CachedIsOnDevice` | `CacheIsTrue` |
| `ComponentsShowComposite` | `ComponentsFollow` |
| `WrittenIsOnDevice` | `LastWrittenIsOnDevice` |

`IInv` is `Types /\ Offline /\ AnswerIsTrue /\ Remembered /\ CacheIsTrue /\ ComponentsFollow`.
`AnswerIsTrue` carries a value from the access to the device to the update of the values: tasks on the
property are one at a time, so what was read or written is still there. `Remembered` is what
`LastWrittenIsOnDevice` needs before all tasks are done: the last write that waits carries
`m_lastWrittenValue`; if none waits, the one that runs does; if none runs, the device has it unless the write failed or
something else was written over it. A task is started from anywhere in the queue as
long as no task on the property is before it, so the lemmas `Removed` and `LastAfterStart` say
which write is the last one after an element has been taken out.

### TCSI protocol

`ProtocolTCSIProofs` proves, for any addresses, packet ids and requests, and any faults of the link (`ProtocolAssumption`):

| Theorem | States |
|---|---|
| `Invariance` | if `MaxLate < PacketIds`, `IInv` always holds |
| `AnswersAreOwn` | if `MaxLate < PacketIds`, `OwnAnswer` |
| `OneFailureAtMost` | if `MaxLate < PacketIds`, `RecoversAtOnce` |
| `LossNeedsSilence` | `LostOnlyAfterSilence` |
| `OperationsWearOff` | every step during a request, of the host, the link or the device, lowers `StepsLeft` |

`IInv` is `Types /\ Recent /\ Accepted /\ Clean /\ Counted /\ OwnAnswer`. `Recent` says how old a
fragment on the link can be; with it and the lemma `SameId` (two numbers closer than the ids are many with
the same id are equal) a header that passes the checks is of the current request, and the checksum
ties the rest to it. `Clean` is why one failure is enough: after it the link carries the answer to the
current request and nothing else. `Counted` compares the counter of the code with the operations that
got no answer, and needs neither the link nor the ids.

`OperationsWearOff` is about the loop that skips answers with other packet ids. `StepsLeft` counts two for each fragment that the device
or the link still has to deliver, one for each that has arrived, and a constant for the position of the host, so
each turn of the loop is paid for by the fragment it reads. It needs no assumption on how late an answer may be.

### Links

`DataLinkProofs` proves, for buffers and blocks of any size, any number of bytes and calls, and any faults of the driver (`DataLinkAssumption`):

| Theorem | States |
|---|---|
| `BytesAreFresh` | `FreshBytes` |
| `FramesHaveTheirTypes` | `FrameHasItsType` |
| `Refinement` | `ImplementsByteStream`: `Spec` implements `ByteStream` |
| `CallsWindDown` | each step of a drop, of a call of eBUS, or of a read or write whose time is over ends it or lowers `StepsLeft`; only a byte that comes in during a drop raises it, by at most ten |
| `CallsAreBounded` | `StepsLeft` is at most ten for a byte of the buffer (for a drop: of what has come in), and ten more |

The invariant for bytes is `Types /\ Buffers /\ Dropping /\ Reading /\ FreshBytes`. `Buffers` is about `doAsync`:
an operation fills the whole buffer or tells nothing of what it has got, so none is ever started beside bytes of
an earlier one. `Dropping` says that nothing from before the last drop is left, from the moment at
which a drop waits with nothing taken, and `Reading` that a buffer holds the last bytes taken, without a
hole. The refinement adds `GoneInv`: the bytes a read holds are exactly those that follow what is gone, in order,
and none of them is from before the last drop. For images, `FrameInv` says
that a stream that runs delivers what its type is made from, and that the label and the branch of a read are
still that type unless the read is disturbed.

`StepsLeft` counts ten steps for each byte that the call may still take, a few for bytes that it holds,
and the place of the handlers of `doAsync` (operation, timer, close timer) in their order. The timeout itself is not in the
measure: until it a read waits for bytes that need not come. A read or write that has time left is therefore only covered from the moment
its time is over; that time passes is fairness.

### Connection

`ConnectionWtc640Proofs` proves, for any baudrates, parts, attempts, presets and attributes, and any number of operations,
faults and changes of the camera (`ConnectionAssumption`: at least one baudrate, part, attempt and count of attributes, all positive):

| Theorem | States |
|---|---|
| `Invariance` | `IInv` always holds |
| `ConnectionAgrees` | `TypeMatchesLink` |
| `OkLeavesConnected` | `OkMeansConnected` |
| `UpdateIsWhole` | `FirmwareWhole` |
| `OperationsWearOff` | each step of an operation ends it or lowers `StepsLeft`, and no other step changes it |
| `OperationsAreBounded` | `StepsLeft` is at most that of four resets and of two steps for each part |
| `LossesAreNoticed` | as long as no signal was given since the link was set, the end of a transaction finds its loss, the signal is one of this link, and the loss is forgotten only when the link is closed or replaced; a link gets a late signal only before it is lost |

`IInv` is `Typed /\ Adapted /\ Control /\ Flashed`: what is known of the camera agrees with the link except
while a link is taken into use, when nothing is known yet; which operation can be at which position, with
attempts and a baudrate left; which parts have been compared at which stage of an update. Each action is
shown to preserve it and to satisfy `OkIsTrue`, a statement about the step that ends an operation with ok, from which the two
action properties follow.

`StepsLeft` is what the later stages of an update still need (`Later`) and what the current wait, attempt or baudrate does (`Now`).
It needs that an update never returns to an earlier stage, that a baudrate that has been tried is not tried again in the same attempt, and that
the attempts are counted down, through every fault. `LossesAreNoticed` rests on one invariant: the flag `m_connectionLostSent` tells
whether a signal was given since the link was set, for every way in which a link is taken into use. It does not tell which link
the thread that gave it had looked at, which is why the theorem and `LossIsSignalled` have an exception (see "Where code and text
disagree").

### Only model-checked

- Liveness itself, as it speaks of fairness. What a progress argument needs beside fairness, something that only becomes less
  and somebody who can always take the next step, is proved for every value of the constants where it could be found:

  | Checked by a run | Proved |
  |---|---|
  | `DrainsFinish` | `DrainsShrink`, `DrainsWaitForThreads` |
  | `OpeningEnds` | for its drain: `DrainsShrink`, `DrainsHaveWayOut` |
  | `ReadsAndWritesEnd` | `PacketsRunOut`, `PacketsAreBounded` |
  | `OperationsEnd` of the protocol | `OperationsWearOff` |
  | `CallsEnd` | `CallsWindDown`, `CallsAreBounded` |
  | `OperationsEnd` of the connection | `OperationsWearOff`, `OperationsAreBounded` |
  | `LossIsSignalled` | `LossesAreNoticed` |
  | `TasksSettle` | only that nothing is left waiting beside a manager that could start it (`WakeUpsKept`, and `Kept` in the refinement) |

- The three invariants of `DeadPixels` (`TableIsChecked`, `CacheIsCamera`, `RecomputedIsBest`): its algorithms, the
  Hungarian assignment among them, are recursive operators, for which the provers have no rule.
- That `setRanges` sorts: `std::sort` is `SortSeq`, which the provers do not know. `MergedIsAddressRanges` is about what follows the
  sort, for any sorted ranges.

## Where code and text disagree

1. **A refresh may read nothing** (`task_refresh`). `refreshValue` is documented with "if is readable,
   read new value" (`properties.h:193`). `addTask` drops a `READ_PROPERTY` request while a property
   task that includes its ranges is waiting or *in progress* (`taskmanagerqueued.cpp:165`). A task is in
   progress until its thread has erased it: after its device access, and after all handlers of
   `transactionFinished`. A refresh asked for in between, by a handler for instance, is answered by
   no later access.
2. **Errors of a flash burst are not counted** (`flash_errors`). `handleErrorResponse` allows
   `MAX_ERRORS_IN_WINDOW` errors in the last packets and expects its caller to shift the window. The
   loops around `writeFlashBurstStart` and `writeFlashBurstEnd` (`deviceinterfacewtc640.cpp:102`, `:126`) do not,
   so that a device that never answers a burst start is asked for ever, with `m_flashMutex` held.
3. **A component that is reset stays without a value** (`component_reset`). `resetValue` may be called for any
   property, and `setValueAndConfirm` calls it for the one it wrote (`properties.inl:96`). A
   component gets its value only when its composite *changes* (`propertyvalue.h:135`). The composite
   was not reset, so the next read finds it equal, and the component is not told: `refreshValue` does
   not give it a value, and `setValueAndConfirm` of a component ends with its timeout.

Two more are in the models, as named exceptions of properties that hold otherwise; no run is spent on them:

4. **A loss may never be signalled.** `connectionLost` is "a signal that is emitted when the connection is lost"
   (`propertieswtc640.h:400`). `onTransactionFinished` tests the flag and the link outside every mutex (`propertieswtc640.cpp:1606`) and sets
   the flag afterwards (`:1613`); `refreshProperties` sets it after the end of its transaction (`:300`). When a new link is taken into use in between,
   which resets the flag (`:3647`), the flag is set for the new link, and its own loss is not
   signalled (unless a refresh finds another camera on it). `LossIsSignalled` excepts it (`signals = "late"`); without the exception TLC finds it violated
   in the instance of `connection`.
5. **The assertion on the codec** (`datalinkuart.cpp:312`, `m_codecContext != nullptr`) does not hold: after a start for RGB that fails once
   the input is open (`:159` to `:174`) the stream is said to be running without a codec, and a read dereferences the null pointer
   in a release build. A stop and a start for another type within a read for RGB do the same. `ReadUartFrame` ends the
   program then (`Crash`), so that the properties of images say nothing of what follows.

Behaviour that no text contradicts, found while reading for the models and not checked by a run, which a reader should know:

- *Properties.* `setValue` compares with the cached value while a write of another value may still
  wait: setting the old value again at that moment returns ok and adds no task
  (`propertyadaptervaluedevice.h:114`), so that the device ends with the value in between.
  `setLensRangeCurrent` compares with a cached value as well (`propertieswtc640.cpp:366`). The status of
  the current video format is computed again only when the plugin type changes (`:1541`), and writing
  it over USB returns ok without a write (`videoformatadapter.cpp:17`). A write past the properties tells its caller that it is
  done (`properties.inl:199`) before `onTaskFinished` forgets the values (`taskmanagerqueued.cpp:203`): a caller that
  waits for the future only, and not for the end of the task, may still see the old value. `ForgetsOverwritten` is
  about the end of the task.
- *Connection.* A camera or firmware with more preset attributes than the first one makes `map::at` throw
  (`propertieswtc640.cpp:2179`, `:2318`); the model has this outcome, and the properties on agreement exclude
  it. A firmware update that read the baudrate of a serial port, before another thread changed to eBUS,
  closes the connection after its first reset and ends with an error (`:3600`, `:3707`). A cancelled `connectUartAuto` returns ok (`:3505`). A request to cancel that arrives as the next
  task starts is forgotten (`progresscontroller.cpp:156`).
- *Device interface.* Each burst that starts resets the counter of the sector loop
  (`deviceinterfacewtc640.cpp:107`): a sector that the device refuses every time is sent again every time.
- *Links.* A port that the close timer has closed is not reported as lost (`datalinkuart.cpp:517`);
  a partial answer before the timeout is reported as no response (`:486`). Over eBUS, errors carry
  no device information (`datalinkebus.cpp:315`), a write ignores how many bytes were written (`:176`) and images are
  read without a lock (`:555`); a start after one that did not find the disconnected device again dereferences a null pointer (`:384`). An image of a serial port is
  labelled outside the mutex (`datalinkuart.cpp:198`), so that a start for another pixel format before the frame is read (`:287`)
  gives an ok image with the wrong label; `FrameHasItsType` excepts exactly the reads into which such a start
  fell, and TLC finds them in the instance of `data_link` when they are not excepted.
- *Dead pixels.* The debug assertion at `deadpixels.cpp:346` takes the value of an empty optional; the CSV
  export writes `1;1` for a pixel without replacements and the import reads pixel 0 (`:712`); a
  replacement given twice in a file makes the check at `:541` fail; the loop at `:906` counts in 16 bits;
  `buffereddatareader.cpp:23` is off by one at an inclusive end.
- *Firmware files.* The temporary directory is shared by all processes (`firmwarewtc640.cpp:364`).

## What is not modelled

- The bytes of packets, except for what validation tells apart; a checksum that matches by accident.
- The validity checks of addresses before an operation, which change nothing.
- In `Transactions`: `setNonexclusiveMode`, a connection state transaction made from an exclusive one,
  `tryLoadProperties`, dependency validators, transactions opened by handlers, and the future of a task that is ignored.
- In `PropertyAdapters`: validators whose data is not ready, properties that can only be read or
  only be written, `setAlwaysRereadValueAfterWrite` (which
  nothing calls), the derived adapter, and the direct task manager, under
  which a call and its task are one step. Statuses that change with other values are in `PropertyRegister`.
- The conversions of single properties, palettes and colorization: arithmetic without a state.
- The timeout of `tryCreatePropertiesTransaction` is a choice to give up while the outer mutex is taken.
- Finding ports, eBUS devices and USB strings: calls of the operating system and of a vendor's library.
- Reading and writing of firmware files: libraries for archives and JSON. The update takes the parts as given.
- The palettes manager; the futures of `refreshValueAsync`; notifications of progress and their rate; the counters of the connection status, which nothing reads back.
- Logging, results, the example.
- Starvation: with unboundedly many requests a task over wide ranges may be overtaken for ever by
  tasks that fit beside what runs. The models bound the requests, so `TasksSettle` says nothing of it.

## The plan

Done: the task manager with its abstract scheduler, the transactions over it, the composite property
with its components, the register of all adapters, the device interface, the protocol, the links below it,
the connection with firmware update, each with proofs; the dead pixels.

Left, in this order:

1. **Property adapters**, the rest: properties that derive from others, and validators that touch what they depend on.
2. **TaskManagerDirect**, and `Transactions` with `setNonexclusiveMode` and the state transaction made from
   an exclusive one.
3. The palettes manager with its late loader; the firmware files.
