# HAMPTER device SDK: TLA+ models and proofs

The SDK runs on an ESP32-C3. It sets a device up through a SoftAP page, joins
Wi-Fi, authenticates to a Hub over TLS, and then exchanges *ObjectLink* frames
with it: port values in both directions and Tool calls. This directory holds
models of that program for TLC, and proofs for TLAPS. Paths are relative to
`src/components/hampter_device/` unless they say otherwise; `Runtime.cpp` is
`src/Runtime.cpp` there.

## 1. Inventory

Four contexts of execution touch the same objects:

* the **application task**, which calls `HampterDevice::poll()` and `publish()`
  (`appHandleTools`, `appHandlePorts`, `appHandleResetButton`, `publishPort`);
* the **I/O task** (`Runtime::ioTask`), which owns Wi-Fi, the TLS socket, the
  setup flow, the handshake and all frames;
* the **HTTP server task**, which runs `ProvisioningPortal::handleProvision`;
* drivers and the network event handler, which only wake the I/O task.

| component | state | operations | correct when |
|---|---|---|---|
| `SpscRing` | `head_`, `tail_`, elements | `tryPush`, `tryPop`, `full`, `empty` | it is a bounded FIFO and no element is read and written at once |
| `SpscByteRing` | the same on bytes, length prefixed | `canPush`, `tryPush`, `tryPop` | records come out whole and in order |
| Tool calls | four rings, `inFlight_`, `cachedResult_`, `sessionEpoch_` | `processToolDispatch`, `expireToolCalls`, `flushToolResults`, `appHandleTools` | every accepted call is answered once, with its own result, in its own session |
| receive path | `rxHeader_`, offsets, `frameBuffer_`, `rxFrameStartedAt_` | `receiveFrames`, `sendFrame` | frames are delivered whole, once, in order; a stuck frame ends |
| outbound ports | `outboundBits`, `outboundRevision`, `sentRevision`, `outboundSequence` | `publishPort`, `sendPortBatch`, `processRegisterAck` | the Hub ends up with the last value |
| inbound ports | `inboundBits`, `inboundPending`, `inboundSequence` | `processPortBatch`, `appHandlePorts` | a batch is applied whole or not at all, latest value wins |
| link and setup flow | `ioFlow_`, `linkMode_`, `linkState_`, `state_`, `bootstrap_`, `pendingProvisioning_`, attempts | `ioTask`, `processProvisioning`, `linkLoop`, handshake, `disconnectAndBackoff` | the token is used once, secrets are dropped, setup ends |
| `ProvisioningPortal` | `active_`, `status_`, `pending_`, `hasPending_` | `begin`, `loop`, `stop`, `takeRequest`, `setStatus`, `handleProvision` | one request at a time, none after `stop` |
| `CredentialStore` | two record slots in NVS | `save`, `load`, `clearProvisioning` | a power cut leaves the old or the new record |
| `CompactDns` | the lookup's host, socket, packet and result | `beginLocalResolve`, `pollLocalResolve`, `cancelLocalResolve`, the query codec, `parseMdnsAnswer` | parsing ends inside the packet and finds what the packet says of the host |
| document arenas | `ToolResultArena` and `ZeroizingJsonAllocator`: storage, end, headers | `allocate`, `deallocate`, `reallocate`, `reset` | blocks do not overlap and keep their contents; secrets are wiped |
| clocks of the link | `lastReceivedAt_`, `lastHeartbeatAt_`, `linkStateStartedAt_`, `rxFrameStartedAt_`, `reconnectAt_`, `wifiDeadline_`, `wifiRetryAt_` | the checks of `linkLoop`, `processRuntimeWifi`, `millisecondsUntilNextIoWork` | a dead Hub is dropped, a live one kept, and the task sleeps in between |
| registries | port and tool tables | `add`, `find` | unique names; filled before `begin()` |
| lifecycle | `stopping_`, semaphores, wake descriptor | `begin`, destructor, `wakeIo`, `waitForIo` | no wake-up is lost, the destructor returns |

Interactions: the two tasks share only the rings, the port slots, a few atomics
(`sessionEpoch_`, `state_`, `resetRequested_`, `fatalRequested_`) and locked
snapshots. The HTTP task shares the portal's fields under `requestMutex_`. The
I/O task calls everything else directly.

What is hard: lock-free rings whose producers rely on a `full()` that was true
earlier; pairs of rings filled and drained in two steps; sessions that are lost
between any two steps and leave entries behind; deadlines checked on two tasks, each
with a clock of its own;
a payload buffer shared by reader and writers; a setup flow that may be
interrupted by Wi-Fi, NVS failures, power cuts, the browser and a reset button.
`PROJECT.json` lists these hazards with their lines and properties.

## 2. Modules

| module | models | composed of |
|---|---|---|
| `BoundedFifo` | abstract: what a ring of the SDK promises | |
| `SpscRing` | `SpscRing.h` at the grain of loads, copies and stores | implements `BoundedFifo` |
| `ByteFifo` | abstract: a FIFO of whole records of bytes | |
| `SpscByteRing` | `SpscByteRing.h`, byte by byte | implements `ByteFifo` |
| `BlockStore` | abstract: what a `JsonDocument` relies on in its allocator | |
| `JsonArena` | `ZeroizingJsonAllocator`, in which a setup request is parsed | implements `BlockStore` |
| `ResultArena` | `ToolResultArena`, in which a Tool writes its result | implements `BlockStore` |
| `Storage_proofs` | proofs about `SpscRing`, and about `SpscByteRing` and the two arenas as `MCStorage` composes them | |
| `ToolPipeline` | the path of a Tool call through both tasks | uses rings as FIFOs of items and of records, which `Storage_proofs` justifies |
| `ToolPipeline_proofs` | proofs about `ToolPipeline` | |
| `FrameReceiver` | `receiveFrames` and the buffer it shares with senders | |
| `FrameReceiver_proofs` | proofs about `FrameReceiver` as `MCStorage` composes it | |
| `PortOutbound` | `publishPort` against `sendPortBatch` | |
| `PortOutbound_proofs` | proofs about `PortOutbound` | |
| `PortInbound` | `processPortBatch` against `appHandlePorts`, and the wake-up between them | |
| `PortInbound_proofs` | proofs about `PortInbound` | |
| `LinkSession` | `ioTask`, setup, Wi-Fi, handshake, portal, NVS as a whole | |
| `LinkSession_proofs` | proofs about `LinkSession`, and about `CredentialStore` as `MCCredentialStore` instantiates it | |
| `LinkTimers` | the deadlines of a link, the heartbeat and how long the I/O task sleeps | |
| `IoLifecycle` | the I/O task from `begin()` to the destructor, its sleep and those who wake it | |
| `IoLifecycle_proofs` | proofs about `IoLifecycle` | |
| `MdnsAnswer` | `CompactDns`: host check, query, the parser of answers | |
| `HubReach_proofs` | proofs about `MdnsAnswer`, and about `LinkTimers` as `MCHubReach` composes it | |
| `CredentialVault` | abstract: one record, saved entirely or not at all | |
| `CredentialStore` | the two slots in NVS and the commit of an enrollment | implements `CredentialVault` |

`MC*` modules give the constants that a `.cfg` cannot write. `MCStorage` and
`MCHubReach` put modules that share no state side by side: a behaviour picks one of
them (`part`) and the others stand still, so that a run explores the sum of their
states and not the product. `MCCredentialStore` is an instance of `CredentialStore`
with variables of its own, so that what is proved of it stands beside `LinkSession`.

### SpscRing
`head`, `tail` and `slots` are the members. An operation of the code is split
where the other side can see it: `PushBegin` loads both indices and decides,
`PushWrite` is the middle of the copy (the slot is `Torn`), `PushPublish` stores
`head_`; `PopBegin` and `PopRelease` are `tryPop`; `CheckFull` and `CheckEmpty`
are the two predicates, remembered in `sawRoom` and `sawEntry` until the owner of
the answer acts on it. Acquire and release make the loads and stores appear in
this order, so the model is sequentially consistent by the code's own fences.

### SpscByteRing
The same split as `SpscRing`, with one step per byte that `Put` and `Take` copy; a
record is its two-byte length and its bytes, and `tryPop` refuses one that is longer
than the output. `ByteFifo` is the queue of records that
`ToolPipeline` uses for its byte rings; the ring implements it with the records that
can be read between `tail_` and `head_` (`RecordsFrom`) as the queue, and what is
between the indices as its bytes.

### JsonArena, ResultArena and BlockStore
A cell of `storage` is a byte that the document wrote, zero, or the first byte of a
header, which stands for the whole header. One action per branch of `allocate`,
`deallocate` and `reallocate`; `Write` is the document filling a block that it
holds. `BlockStore` says what the document relies on: a new block is none that is
held, a block that is resized keeps its beginning wherever it goes, and nothing but a
write through its pointer changes a block. Both arenas implement it for any order
of calls; in `ResultArena` a released block is not reused before `Reset`.

### LinkTimers
`clock` is `millis()` with `ClockSize` in place of 2^32. A pass of `linkLoop` is
split where it reads the clock: `now` is the local variable, which is read at the
start, after `receiveFrames` and after `flushToolResults`, and time may pass in
between (`Tick`, up to `MaxPassTime` in a pass, as long as `wait` says in a sleep).
`Waits` holds the candidates of `millisecondsUntilNextIoWork`, one for each
deadline, fallback poll or pending byte. `toSend` stands for what the other modules
have to send: Tool results and calls whose deadline has come (`"tools"`, which make
the wait 0) and dirty ports (`"ports"`, which wait until `lastPortFlushAt` +
`kPortFlush`). It may come at any time and is looked at as the wait is computed;
`FlushPorts` is the pass's `sendPortBatch`. Only the states of a lookup and of setup
are left out. `silence` and `owed` count, without wrapping, how
long the Hub has been silent and has owed an answer, and `late` notes a Hub that
was not prompt: the properties compare these with what the wrapped clocks make the
code do.

### IoLifecycle
`wakeIo`, `waitForIo`, `begin` and the destructor step by step, with the application,
the HTTP task and the event handler signalling between any two steps, with an
eventfd and without one (then a task notification). A `wakeIo` is the load of
`wakeFd_` (`LoadWakeFd`), then the write or the look-up of `ioTaskHandle_` with the
notification (`SignalIo`). For the event handler the look-up and the notification are
apart (`NotifyIo`): it is the only task under which the handle can go away, since the
destructor joins the HTTP task first and the application clears the handle itself. The
destructor deletes the I/O task (`DeleteTask`) before it forgets its handle
(`ClearHandle`).

### MdnsAnswer
`packet` is the datagram, `walk` where `skipName` or `nameEquals` stands; a round of
their loops is a step, and `touched` collects the indices they read. The layout is
the code's with its sizes scaled down; the flags and counts of the header are chosen
apart from its bytes. What a datagram means is defined apart from the walk, by
recursion: `Name[n]` is what each place of the packet names to a reader of `n` rounds,
`EntryEnd[k]` where the `k`-th entry ends, and `MeantAddress` what the whole says of the
host; against it the walk is checked (`AnswerIsExact`). The comment at
`CompactDns.cpp:54-56` speaks of loops; what ends a walk that follows pointers
into each other is the bound of steps together with that on the expanded name.

### ToolPipeline
The I/O task walks `receive` (any number of frames up to `kFramesPerStep`),
`queueArguments`, `queueJob`, `expire`, `flush`, `flushBytes`; the application
task walks `idle`, `takeArguments`, `decoded`, then `invalid`, `withheld`, or `starting`
and `running`, and `putRecord`. Steps end where a ring is touched and where a deadline
is tested, so that the I/O task can come between the test (774) and the call of the
handler (775). There are two clocks. `now` is the time the device has run, of which
`millis()` is the remainder by `ClockSize`; `serverNow` is `estimatedServerTimeMs()`,
which runs with it but is set anew, forwards or back, by `ServerHello` (`Connect`) and by
each `HeartbeatAck` that carries a time. `DispatchAccept` reads the second (2282) and
`QueueArguments` tells `localDeadlineMs` from the first (2306), with time between them
and with the wrap and the clamp of that line; it may come out as 0, which means none. Any send may fail, which is
`disconnectAndBackoff` with its `resetSession`: the epoch advances, the in-flight
table empties, **the rings and the cached answer stay**. Bytes in the byte rings
carry the identity of the dispatch they belong to, so that a mix-up the code
cannot notice (it compares lengths) is visible. A raised "order violation" is
`link = "fault"`. The Hub is external.

### FrameReceiver
The stream is a sequence of cells, each naming its frame and position; the
transport delivers any prefix (`Arrive`). `ReadHeader` and `ReadPayload` are one
round of the loop, `Process` is `processFrame` and the wipe, `EndPass` the
timeout test; `Send` is any frame the device builds in the shared payload buffer
between passes, which it may do only once the session is active.

### PortOutbound
`publishPort` is three steps (store bits, bump revision, skip 0), `sendPortBatch`
one step per load and one per write; revisions wrap at `kRevisions`.

### PortInbound
`ReceiveBatch`, `ValidateSample`, `CommitSample` and `EndBatch` are
`processPortBatch`, one sample at a time: the validation loop and the commit loop
are separate in the code, and the application task may take a value between any
two rounds. `TakePort` and `ApplyInbound` are `appHandlePorts`, which takes a value
under `portMux_` and applies it outside; the limits, policies and defaults are
those of `PortRegistry::addEntry`, which refuses a minimum above the maximum, and
`applyInbound`. Port 0 stands for a handle
that no port of the registry has. `CheckPort` and `WakeUp` are `waitForAppWork`,
**without its timeout**, so that a lost wake-up would show as a violation of
`NewestIsApplied`. Samples carry the number of their batch and session for the
properties. The Hub is external.

### CredentialStore
`slots` is what NVS holds; a record that fails `decodeConfig` is `Blank`. A save is
`SaveBegin` (choose the generation and with it the slot), `PutBytes` or `PutFails`,
`Verify` (read back) and `Commit` (`processEnrollAck` loads after the save).
`PowerCycle` may come anywhere; in the middle of a write it leaves the slot as it
was, with the new record, or unreadable, and in the middle of a clear it leaves any
of the slots. `ClearFails` is the fatal branch of `eraseEnrollment`. The constant
`ReadsFail` lets each read of a slot fail.

`LinkSession` keeps its own one-step store (`stored`), which is what `CredentialVault`
says and `CredentialStore` implements.

### LinkSession
One action per branch of `ioTask`, `processProvisioning`, `processRuntimeWifi`,
`linkLoop` and the handshake. `handleProvision` is two steps, because it reads
the body between two critical sections. The I/O task is interrupted at
`portal_.stop()` (which joins the HTTP task), after the credential is in NVS and
before a failed save is handled. A request is a number that stands for its
password, token and Hub; `stored` is what a restart finds. Delays are dropped:
what may happen after a delay may happen.

## 3. Runs

| run | question | result |
|---|---|---|
| `storage` | rings of 2 items and of 8 bytes; arenas with room for three blocks of 0, 1 or 3 bytes; the frame buffer with frames in any pieces, two sessions: races, stale answers, FIFO, blocks apart, nothing left behind, framing, order, partial frames end, a payload is spoiled by the device's own sends only | holds |
| `tool_pipeline` | 2 calls, ring depth 2, 3 dispatches, 2 sessions, near and far deadlines under a clock that wraps, two result lengths, a Hub that repeats: rings stay paired, results reach their call, no call is lost, a deadline decides | holds |
| `tool_pipeline_once` | the same with a Hub that does not repeat: exactly one answer, and one comes | holds |
| `frame_split` | any pieces: delivered as written | **violated** |
| `port_outbound` | 2 ports, 3 publications of 2 values, revision wrap, 2 sessions: clean is current, the Hub ends up with the last value | holds |
| `port_inbound` | 2 ports (one clamps, one rejects), 2 batches of up to 2 samples, 2 sessions: all or nothing, order, limits, no lost wake-up | holds |
| `credential_store` | 2 records, 4 generations, power cuts and failing writes: a committed record is found again; implements `CredentialVault` | holds |
| `link_session` | 2 requests, one power cycle, NVS that may fail at each operation: token, secrets, claims, lookups, progress of setup and reset | holds |
| `link_store` | no station up when a request is accepted, NVS that may fail | **violated** |
| `io_lifecycle` | one Runtime from start to end, with and without an eventfd: no lost wake-up, nothing freed in use, the destructor returns | holds |
| `hub_reach` | lookups of 8 hosts against some thousands of datagrams; links to any Hub under a clock that wraps at 12: exact answers, a dead Hub dropped, a prompt one kept, no busy loop | holds |
| `wifi_join` | the task sleeps while the network of an enrolled device is away | **violated** |

The three violations are disagreements of the code with itself or its texts:

* **A partly read payload is overwritten by a frame that is sent**
  (`Runtime.cpp:1717-1725` with `2364`, `2390`, `2403`). `framePayload()` is the
  receive buffer and the buffer in which frames are built; in an active session
  `linkLoop` sends between two passes of `receiveFrames`.
* **The portal is opened twice after a failed save** (`1968`, then `1638`): a
  request posted in between loses its `ConnectingWifi` status, and a further one
  is accepted while a station is up, against the comment at 1635.
* **The I/O task does not sleep while it waits to retry Wi-Fi** (`1113`). A retry
  needs both `wifiDeadline_` (20 s) and `wifiRetryAt_` (5 s) to be reached (`1382`),
  but the sleep ends at the earlier one, so from 5 s to 20 s after each retry the
  wait is 0 and the task, whose priority is above the application's, goes round
  without a pause, against the light sleep that `Kconfig:11` promises.

Four more weaknesses have no run of their own, since no text of the repository promises
the opposite. First, with `ReadsFail = TRUE`, TLC finds `CommittedIsStored` violated:
`processEnrollAck` (1956-1958) takes any record that `load` finds after `save` for
the one it saved. If the read of the new slot fails there, and the other slot still
holds the record of an earlier save that was written but not verified, the device
goes on with that one. `CommittedIsStored` therefore holds, and is proved, for slots
that can be read.

Second, a handler can start after the Hub was told that its call timed out: the local
deadline lies later than the Hub's by the time between 2282 and 2306, a `HeartbeatAck`
may move the Hub's clock forward after it was told, it may come out as 0 and mean none,
and `expireToolCalls` can run between the test and the call of the handler. What holds,
and is proved, is `DeadlineDecides`: that the test does what the local deadline was told
for. The late result is then discarded (2411), and the Hub keeps its one answer
(`SingleAnswer`).

Third, a handler that ran and failed is reported as "Tool deadline expired before
execution" if its deadline passes by the time of line 817, which tests the clock again and
not what 774 found.

Fourth, without an eventfd the event handler may have loaded `ioTaskHandle_` (1031) when
the destructor deletes that task (465), and then notifies a task that is no more (1033):
the handlers are unregistered only afterwards (469). In the model, `net = "notify"` is
reached with `io = "deleted"`. `NothingFreedInUse` therefore speaks of the HTTP task when
the I/O task is deleted, and of the event handler when the Runtime is freed.

### Bounds, and why they are enough
A ring of two entries has three slots: it wraps, fills, and empties while both
sides are inside an operation. Two sessions are needed for stale entries; a
third adds no new kind, since every guard compares epochs for equality only. Two
calls and three dispatches give a repeat of one call while another is in flight,
and fill both rings of depth 2. Result lengths 1 and 2 let a wrong pair of ring
entries pass or fail the length test (arguments have one length, with which a wrong
pair always passes it); `ResultPool` and `ArgumentPool` can just hold two records of
the longest kind, so the byte rings fill too. Deadlines are one that comes soon and one
farther ahead than the longest wait of a clock of 16, which starts at 15 and so wraps
at once (and 0, which is none, for the Hub that does not repeat; a Hub whose time is not
known has the same effect); the one time that the Hub sends may set the estimate back.
Frames have two-byte headers and payloads of zero, one and three bytes, so both can be
split; passes read at most two frames and five bytes, so both budgets end a
pass, and a session carries up to three frames. The byte ring holds two records
of two bytes or three short ones, so that prefixes and bytes fall on every
position of the wrap. The arenas have room for three small blocks, so a block in
the middle can be released, shrunk or moved, and a request refused. In
`LinkTimers` the clock has twice the range of the longest deadline,
which is what `timeReached` needs; it starts anywhere, so every deadline falls
on the wrap; and the heartbeat is due twice before a silent Hub is dropped. The
safety wake of 5 s is shorter than most deadlines in the code and would hide one
that the sleep left out; here it is among the longest. Three publications with
revisions up to 10, started near the wrap, pass revision 0. Inbound, two samples
are what a batch needs to be half valid, and two batches in two sessions what it
takes to repeat, reorder or survive a session. Four generations use each slot
twice, with a record of a failed save in either. Two setup requests (three in
`link_store`) are what it takes to have one pending while another is being
handled; `kEnrollmentAttempts` has its real value 3.

### Fairness
The two tasks run forever and are preemptively scheduled, handlers return and
`receiveFrames` is bounded by its budgets: weak fairness of each task's steps.
In `PortInbound` a batch in hand is processed to its end and the application
task keeps polling. The Hub can be reached again in the end (`Connect` in
`ToolPipeline`), which is what the liveness property is conditional on in
reality as well. The HTTP server bounds the read of a request by its own
timeouts (`handleProvision`, 1193): weak fairness of the handler. A handshake is
bounded by `kConnectTimeoutMs`, so a handshake that does not advance ends; an
active session may last for ever. `HandleReset` is fair by itself since `ioTask`
tests the request on each pass. In `IoLifecycle` each task takes its next step,
and the destructor has strong fairness, since in `removeNetworkEventHandlers`
`esp_event` waits for a handler that runs and handlers keep starting; a task that sleeps
without a deadline is not fair until it is woken. No fairness is assumed of the
browser, the access point or the power supply.

## 4. Proofs

`Storage_proofs` proves of `SpscRing`, for every capacity and every set of values:
`TypeCorrect`, `RaceFree`, `AnswersKept` and `RingImplementsFifo`.
The inductive invariant `RingInv` ties the program counters to the indices: a
producer inside a push has a free slot at `head`, a consumer inside a pop has an
entry at `tail`, and the slots between `tail` and `head` hold values. Neither
race freedom nor the refinement is inductive alone: that the slot at `head` is
not among the occupied ones follows only from the producer having seen room and
nobody else moving `head`. `PositionLemma` and `ContentLemma` carry the modular
arithmetic of the indices; `PublishPushes` and `ReleasePops` show that the store
of an index is what appends to, or removes from, the abstract queue.

Of the arenas it proves, for every capacity, alignment and set of texts and sizes
(`ArenaAssumption`), and headers as long as `MCStorage` makes them (in `JsonArena` one
alignment, in `ResultArena` one cell): `ReleasedIsWiped`, that what the setup document
no longer holds is zero, and `ArenasImplementBlockStore`. A capacity is at most
`kMaxPayload`, as the portal requires it to fit the 16 bits of a header
(`ProvisioningPortal.cpp:234`). That an operation wipes what it gives up says nothing
of the other blocks; that each keeps its bytes needs to be said of all of them, so the
invariant `ArenaInv` describes how the storage is laid out:

* `JsonInv`: the blocks of `JsonArena` lie one behind the other below `used`, each
  behind a header that `findHeader` accepts and that has its size, with a span that
  holds that size; the rest is as `NothingLeftBehind` says;
* `ResultInv`: a block of `ResultArena` has its size in front of it, and ends below
  `used`, behind which the next is placed, and before the size of the next.

From these, what an operation on one block writes is outside of every other (`ApartLemma`,
`ResultApart`), from which `KeptLemma`, `AllocateLemma`, `WriteLemma`, `ResizeLemma` and
`FreeLemma` conclude that each step is one of `BlockStore` or leaves it alone.
`AlignLemma`, `SpanLemma` and `OffsetLemma` carry the rounding.

Of `SpscByteRing` it proves, for every capacity from 8 on, every set of records and
every length of the output (`ByteRingAssumption`), `ByteRingImplementsFifo`: `tryPush`
is a push when it stores `head_`, `tryPop` a pop when it stores `tail_`, and every
other step leaves the queue of records as it is. The queue exists only as bytes, whose
meaning depends on where one begins to read: a length read from the middle of a record
is no length. `ByteInv` therefore says

* that there is a set `P` of offsets from `tail_` at which records start, with the end
  of the last one, all inside of what is stored (`Layout`);
* how far the push is: the first bytes of its record are in the ring behind `head_`,
  the others are still to come, and all of them fit (`PushInv`);
* how far the pop is: the bytes it has are the first ones of the record at `tail_`,
  all of which is stored (`PopInv`).

Reading the queue is recursive, and the facts about it are proved from the end of the
stored bytes backwards: if one of the offsets of `P` were wrong there would be a last
such one, and the record there leads to a later one (`DownLemma`). `ParseType` says that
records are read, `ShiftLemma` that the same bytes read from elsewhere give the same
records, from which `GrowLemma` (a record more at the end) and the release of the first
one follow.

`ToolPipeline_proofs` proves, for all depths, pool sizes, calls, lengths and
numbers of sessions (`PipelineAssumption`, `NoCallAssumption`): `TypeCorrect`,
`RingsStayPaired`, `HandlerHasItsArguments`, `ResultsReachTheirCall`, `NoCallIsLost`,
`OneAnswerPerCall` (for a Hub that does not repeat a call) and `DeadlinesDecide`, the
last also for every clock of at least 8 and wherever the device starts on it.
The code moves an item and its bytes through two rings each way and checks nothing
but a length, so neither "no order violation" nor "a handler has its own arguments"
is inductive. The invariant `PipeInv` says what makes them true:

* `ArgumentsPaired` and `ResultsPaired`: each byte ring holds exactly the records
  of the item ring, in order, with the record that was put before its item at one
  end and the item taken before its record at the other (`Paired`). Lost sessions
  do not disturb this, because the rings are left alone by them;
* `RoomInv`: the room that `processToolDispatch` and `appHandleTools` found is
  still there when they push, since the other side only takes;
* `HandsInv`: what a task holds between two of its steps is one item and its
  record.

`PipeInv` was checked with TLC on the constants of `tool_pipeline` before it was
proved. `AcceptLemma`, the four Put and Take lemmas and the two Head lemmas do the
work on sequences.

The other three relate the table of calls to what is under way, which passes through
six places and may be of a session that is over. `TrackInv` adds to `PipeInv`:

* `LineInv`: the record being sent, those in their ring, the job of the application,
  the jobs in their ring and the job being queued stand in one line in which the numbers
  of their dispatches rise, so that each dispatch is in one place at most;
* `IdleInv`: a task between two calls holds nothing;
* `TableInv`: a used slot of the table is of this session and its dispatch is in the
  line, as the job that was accepted or as a result of it (`SlotInv`), and every call
  that was acknowledged and not answered has a slot (`OwedInv`); a job without one is of
  a lost session, or its call has been answered (`OrphanInv`); the local deadline of a
  job is what `LocalDeadline` made of its `left` at its `since` (`LocalInv`); and, for a
  Hub that does not repeat calls, one that has a slot has had no answer (`OnceInv`).

That a deadline decides rests on `LocalInv` and on the arithmetic of `timeReached`: as
long as a job has waited less than half the clock, the sign of a difference of wrapped
times is that of the times themselves, which is what the clamp of 2304-2305 is for.

`FrameReceiver_proofs` proves, for all sizes of frames, budgets of a pass and
sessions (`ReceiverAssumption`): `StreamIsAligned`, `PayloadIsOneFrame` and
`FramesInOrder`. A receiver that has part of a frame can lose its place in the stream
in any later step. `ReceiverInv` says where it is: the part of a header or of a payload
that it has, and what is still under way, together are a stream of whole frames in
rising order (`Whole`, `PartInv`), and each cell of the shared buffer below what was
received is of the frame being received or of one that the device built over it
(`BufferInv`). No recursion is needed for a stream, since each cell names its frame and
position: a stream is whole when neighbours follow on each other.

`PortOutbound_proofs` proves, for every number of ports, values, publishes, sessions
and samples per batch: `TypeCorrect` and `CleanStaysCurrent`. A revision that is
remembered, in `before`, in a batch or in `sentRevision_`, tells the value it was read
with only as long as the counter of its port has not come round to it. The invariant
`OutboundInv` therefore measures how far the counter is past each remembered revision
(`Age`) against what all the publishes so far can have used up (`Bumps`: two each,
since zero is skipped): `SamplingInv`, `BatchInv` and `SentInv` each say that a
remembered revision is `Recent` and that it still `Tells` the value. `PortAssumption`
has more revisions than the publishes use up, which in the code means fewer than
2^31 publishes; the counters start at zero or shortly before they wrap.
`BumpLemma` is the arithmetic.

`PortInbound_proofs` proves, for every number of ports, their specifications, samples,
batches and sessions: `TypeCorrect`, `CommittedIsTaken`, `OrderIsKept` and
`LimitsAreHeld`. That values are applied in order is not inductive, for a value
passes through two more places on its way; `OrderInv` puts what is applied, in the hand
of the application task, pending and still to come in a line for each port. `CommitInv`
says the same of refusals: nothing in any of these places is of a refused batch, nor of
one that is still being validated (`Settled`).

`HubReach_proofs` proves of `MdnsAnswer` that `NothingReadOutside`, for every datagram,
whatever its bytes, and every layout of records: `ParseInv` keeps the cursor, and the
place where a walk goes on after its first pointer, inside of the datagram or at its
end, while a walk itself may stand anywhere and is checked before each read
(`WalkLemma`).

For the same datagrams it proves `AnswersAreExact`, that what a lookup takes is
`MeantAddress`. Nothing that the parser holds between two steps says this: what it has
read of a name is spread over a place, a count and a length. `Known` says what they
stand for:

* `EntryInv`: `position` is `EntryEnd` of the entries done so far, and `found` the
  address of the last of them that gives one (`FoundIs`);
* `SkipInv`: the name of the next entry is what the walk has passed and what `Name`
  reads on from there in the rounds left (`Walked`); a refused walk therefore means a
  name that is not well formed (`WalkRefused`), and one that ends has its end
  (`WalkEnds`);
* `EqualsInv`: moreover the letters that `nameEquals` has passed are those of the host,
  up to a dot (`Matched`); so where it gives up the name is another (`MatchRefused`).

`Name` and `EntryEnd` are recursive functions, of which nothing can be proved before it
is shown that they exist: `RecursionLemma` builds a function from its first value and
its step, from which `NameReads` and `EntryLemma` follow, and `StillNames` and
`StillEntries` that they stay the same while the packet does.

`QueriesNameTheHost` has its invariant in `HostInv`: a lookup under way has a host that
`IsLocalHost` accepts and `CanQuery` can encode. `ReadHost` reads the query from its end:
the root, and before it one label after the other, each of which takes a round
(`ReadLabel`). A host has at most half as many labels as letters, which is where
`DnsAssumption` needs `kHostBytes + 2 <= 2 * kMaxNameSteps`, and `kHostBytes` to be at
most `kMaxExpandedNameBytes`; the code's 254, 128 and 254 meet both exactly
(`CompactDns.h:43`, `CompactDns.cpp:27-28`).

Of `LinkTimers` it proves, for a clock of any size, wherever it starts, and limits of at
most half of it (`TimersAssumption`; the code keeps the interval between 5 s and two
minutes, `Runtime.cpp:1844` and 2032): `DeadHubEnds`, `PromptHubStays` and
`LinkSleeps`. What the code subtracts are clocks that wrap, and what the properties
speak of are times that do not; the two agree only while no age comes round the clock,
which is itself due to the deadlines being looked at in time.

* `TimersInv` says both at once: `silence` is the age of `lastReceivedAt`; what the Hub
  owes, and since when, is what the timers of the handshake and the heartbeat say
  (`HandshakeInv`, `ActiveInv`, `SilenceInv`); an age is at most its limit, the time
  spent in the pass and, before the deadline is looked at, one more pass, and in a
  sleep no more than what is left of the sleep short of it (`AgesInv`); and the local
  `now` is no older than the pass (`NowInv`);
* `PromptInv`, for a Hub that answers within its time (`PromptAssumption`: that time and
  the longest pass fit between an interval and its timeout), bounds when each answer is
  read (`AckBy`) and when each heartbeat is sent (`SendBy`), by which no timeout is
  reached first;
* `LinkSleeps` is about a step, and of all of `LinkWaits`: a wait of zero comes from a
  deadline that has been reached (`WaitLemma`, `UntilLemma`), or from something to send
  that the pass sends; the time of the last flush of the ports may be of any age, and its
  deadline is past whichever it is (`PastLemma`); and the tests of a pass
  that are exclusive see it a millisecond later, also where the clock wraps
  (`NextMillisecond`), as long as no age has come round it, hence `TimersInv`.

`LinkSession_proofs` proves, for every number of requests, power cycles and attempts
and an NVS that may fail at each operation: `TypeCorrect`, `ClaimsAreTrue`,
`SecretsDoNotLast`, `LookupFits` and `TokenUsedOnce`. What the device claims depends on
how its many flags go together, which the code writes down nowhere; `SessionInv` does:

* `FlowInv`: which modes and link states a flow can be in, and in which of them a
  commit, a rejection or a fatal request can be under way;
* `CredentialInv`: a device that joins or links as a Runtime, or is about to commit,
  holds the credential that is stored;
* `SecretsInv` and `LookupInv`: which flow holds which secret, and whose Hub is being
  looked for;
* `TokenInv`: a request is in one place at a time, with the browser's handler, the
  portal, the Runtime or the history, so that a token that is committed is nowhere else
  and cannot be sent again;
* `EnrollInv`: how often the token was sent is at most the number of attempts that have
  already come that far (`Spent`), and an attempt that waits in `Backoff` has one left.

`DisconnectLemma` says how a connection ends; one lemma for each action of `Next` says
that it keeps the invariant.

Of `CredentialStore` it proves, for every set of records and any number of
generations, and for slots that can be read (`AllReadable`): `StoreTypeCorrect`,
`CommittedSurvives` and `StoreImplementsVault`. That the newest record is the
committed one says nothing about a write that is under way, so it is not
inductive; the invariant `StoreInv` adds

* `InItsSlot`: a record lies in the slot that the parity of its generation names,
  so that a save never touches the newest record;
* `NextIsNewest`: the record being saved is newer than all that are stored;
* `CommitSettles`: only a device without a credential saves, and after a commit the
  record found is the committed one;
* `StoredWasOffered`: nothing in NVS is older than the last clear, which is what a
  failed write may leave in the abstract vault.

`FoundLemma` and
`NextGenerationLemma` say what `load` finds and where the next generation goes.

`IoLifecycle_proofs` proves, with and without an eventfd: `TypeCorrect`,
`NoWakeIsLost` and `NothingIsFreedInUse`. Whether a sleep is safe depends on everything
the I/O task has looked at since it last woke, and on where each of the others stands
between its store and its signal. `LifeInv` says of each point of the loop what has been
seen by then:

* `EndInv`: how far the destructor and the I/O task are with respect to each other,
  so that what is released has nobody left who uses it;
* `ServerInv`, `HandlerInv` and `FdInv`: the HTTP task runs only while the portal
  serves, a handler of events only while it is registered, and a descriptor that a
  task has loaded is open;
* `LoopInv`: once `stopping_`, the reset and fatal requests and the network have been
  tested in this pass, one that comes later has a wake-up that has arrived or is on its
  way (`Woken`);
* `IdleInv`: the same for what an idle sleep does not wait for with a deadline.

Every invariant named above, but for `ByteInv`, whose set of offsets TLC would have to
search for, was checked with TLC before it was proved.

Only model-checked is liveness: `AcceptedIsAnswered`, `PartialFrameEnds`,
`LastValueArrives`, `NewestIsApplied`, `PortalIsFreed`, `ResetErases` and
`DestructorReturns`.

The type invariants of the modules with proofs are proved; where a run checks them no
more, that is why.

Liveness and properties that need ENABLED stay with TLC.

## 5. Not modelled, and what is left to prove

Every safety property that a passing run checks is proved; its liveness is not, and
stays with TLC.

Not modelled:

* the captive DNS responder of the portal, the header and field checks of
  `handleProvision` and the static page: sequential text processing, which a state
  machine adds nothing to;
* the bytes of the ObjectLink header and of the credential envelope: a header or a
  record is valid or not, and its length is what it is;
* the limit that the Hub sets for payloads: a result longer than it makes
  `sendFrame` fail (`Runtime.cpp:2354`), which `ToolPipeline` has as a send that
  fails for any reason; and in `PortOutbound` the bytes of a batch, so that a port
  late in the table may have to wait for others (2194);
* the Tool registry and the names in the port registry: filled before `begin()`,
  by one task;
* hooks (weak functions), the build glue, the transmission power and its
  diagnostics (a separate measurement program), and the wording of messages.
