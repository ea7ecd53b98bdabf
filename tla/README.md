# A verification project for indihurd

indihurd runs INDI drivers as child processes and serves each as an ASCOM Alpaca
device, optionally also re-exporting all of them over an INDI port. Most of its
code is concurrent: every driver has a supervisor goroutine with helpers, every
HTTP request and every INDI client has a goroutine, and the drivers are separate
programs that may be slow, silent, wrong or dead. These modules model that
concurrency, TLC checks it on small instances and TLAPS proves the main
invariants for all values of the constants.

Paths below are relative to `src/`.

## 1. Inventory of the system

| Component | State it keeps | Operations | Talks to | What is hard |
|---|---|---|---|---|
| Supervisor (`internal/supervisor/run.go`, `preset.go`, `supervisor.go`) | phase, child, writer, sent presets | Run, attempt, readLoop, apply, nudge, cancel | child over a socketpair; snapshot; observers | three goroutines share phase, writer and preset marks; every way a child can end |
| Snapshot store (`internal/snapshot`) | current snapshot (copy on write) | Apply, Invalidate, Reset | written by the read loop only, read by everybody | readers see it without a lock, at any moment |
| Waiters (`internal/supervisor/sender.go`) | registered channels | WaitSettle, WaitUpdate, notify, failAll | read loop, HTTP requests | check-then-register; sends under a lock; abandoned channels |
| Transport (`internal/transport`) | process, socket, received descriptors | DialExec, Read, Signal, Wait, Shutdown, Close | kernel | cancellation kills by itself; descriptors are matched to BLOBs by order |
| INDI wire format (`internal/indiwire`) | tokenizer depth, buffered bytes | Next, skipElement, BLOB content | transport, read loop | reads end anywhere; elements may be unknown, malformed or unfinished |
| INDI server (`internal/indiserve`) | children, connections, BLOB policies | SetChildren, Publish, replay, forward | supervisors, clients | replay runs against publication, death and reselection |
| Client send queue (`internal/indiserve/conn.go`) | queue, byte counter | enqueue, writeLoop, drop, close | publishers, client socket | a lock-free budget; a client that does not read |
| Management (`internal/host/management*.go`) | configuration, revision, active drivers, listener, sessions | save, mutate, restart, settings, sessions | file, supervisors, INDI server, discovery | several steps, any of which may fail or time out; other editors |
| Web Manager (`internal/host/webmanager.go`) | profiles, active profile | profile create/put/drivers/delete, start, stop | management | a label over flags that others change |
| Binding kit (`internal/binding`) | in-flight markers | lookups, writes, Start, Clear, Active | snapshot, supervisor writes | "answered" is inferred from update times |
| Device types (`internal/devtype/{focuser,rotator,filterwheel,dome,covercal,telescope}`) | markers, axis flags, targets | every command and every poll | kit | polls of several looks; modes that all requests share; drivers that die between two writes |
| Camera (`internal/devtype/camera`, `internal/host/builder_camera.go`) | frame, error, exposure record, cooler target | StartExposure, AbortExposure, ImageFrame, setFrame, ingestBlob | kit, read loop | images that arrive late; read-modify-write of echoed values |
| Switch (`internal/devtype/switchdev`) | pinned numbers | refresh, resolve, Get/SetSwitch(Value) | kit | numbers that must survive redefinition and restart |
| Passthrough actions (`internal/actions`) | none | lookup, check, write | kit | |
| Weather, safety monitor, FITS decoding, catalogue, discovery loop, dump, command line | none that several goroutines change | | | |

What makes each component correct, in short: the **supervisor** never writes to a
child that is gone, never shows data of a dead child, writes presets once and in
their stage, connects only what it should, and always ends or replaces what
failed; **waiters** never block the read loop, and an answer reaches the caller
it is for; the **incoming stream** is cut into the same elements however reads
fall, and neither loses, leaks nor swaps a descriptor; the **send queue** is
bounded and a client either gets the whole stream or is dropped; **clients** of the
INDI server end up with what the drivers have; the **management** keeps drivers,
routes, listener and labels equal to the configuration, and never starts a driver
twice; a **device** that is asked says "moving" while a command is unanswered and
does not say so for ever, and commands meet the mode they were meant for; the
**camera** shows the image that was asked for, and some outcome for each exposure;
a **switch** number keeps its meaning.

## 2. Modules

| Module | Models | Used by |
|---|---|---|
| `Supervisor` | one supervisor with its driver as environment | `MCSupervisor`, `SupervisorProofs` |
| `Waiters` | WaitSettle/WaitUpdate against the read loop | runs directly, `ReadLoopProofs` |
| `SendQueue` | one INDI client's outbound queue | runs directly, `SendQueueProofs` |
| `IndiServe` | children, INDI clients, publication, replay, reselection | `MCIndiServe`, `IndiServeProofs` |
| `Management` | configuration, lifecycle, profiles, sessions | `MCManagement`, `ManagementProofs` |
| `Devices` | the requests of every moving device, as programs over the binding kit | `Motion` |
| `Motion` | the binding kit, its markers, a driver, and requests that run those programs | `MCMotion`, `MotionProofs` |
| `Camera` | exposures, images, frame window and cooler target | `MCCamera`, `CameraProofs` |
| `Switches` | the switch device's numbering, reads and writes | `MCSwitches`, `SwitchesProofs` |
| `Wire` | tags and items of the driver's stream | `Incoming`, `ElementStream` |
| `ElementStream` | abstract: a stream of whole elements and a queue of descriptors | refined by `Incoming` |
| `Incoming` | socket reader, parser, BLOB claiming, close | `MCIncoming`, `ReadLoopProofs` |
| `SupervisorProofs`, `SendQueueProofs`, `IndiServeProofs`, `ManagementProofs`, `MotionProofs`, `CameraProofs`, `SwitchesProofs` | theorems about the module of that name | |
| `ReadLoopProofs` | theorems about `Waiters` and `Incoming`, the two ends of a driver's read loop | |

In every module one action is one access to state that another goroutine can
see, or one whole critical section. `PROJECT.json` maps each definition to its
lines.

**Supervisor.** `pc` is where the goroutine of `Run` is; the actions `Spawn`,
`DialOk`, `Acquire`, `GetProperties`, `Receive`, `Observe`, `Apply`, `ClaimPresets`,
`WriteClaimed`, `ConnectOnDef`, `EvalConnection`, `SweepPresets` follow `attempt`, `readLoop` and `apply` in order: the observers are called before
the store is changed, and the sweep claims and writes one property at a time. A
failing read is `Eof` or `Malformed`, then `Lost` (invalidate), `LostPhase`
(transition) and `AnnounceGone`. The deferred teardown is `Detach`, `Term`,
`GraceExpires`/`Reap`, `CloseChild`, `Invalidate`, `AnnounceGone`. `nudge` holds the ticker goroutines, of this attempt and
of earlier ones that nobody joined. `canceller` is the goroutine that waits for
the context; `CommandContextKill` is the kill that `exec.CommandContext` performs
on its own. The driver may send any element of `Elements` at any time and may
exit at any time. A vector is abstracted to its existence, and CONNECTION to the
values `evalConnection` tells apart. A preset is its property and its stage; one that
its vector does not take (a Light or BLOB vector, a value that is not a number) is
marked sent and not written, and is then in the history variable `unfit`. `Quirks`
says what a driver may do beyond the ordinary: leave members out of CONNECTION
(`partial`), delete a whole device (`deldevice`), set what it has not defined
(`early`), have vectors that do not take a preset (`misfit`), and leave elements to
be read after its exit (`backlog`).

**Waiters.** Times are abstracted to the single question the code asks
(`fresh[w]`: was the vector updated after `since`). `Check` and `Register` are
two actions because the code takes the lock only for the second. Channels have
one slot; a send into a full one would block the read loop with the lock held,
which is the state `RegisteredEmpty` excludes.

**SendQueue.** `Add`, `Put`, `Undo` and `Drop` are the atomic steps of `enqueue`
and its caller; `Take`, `Wrote`, `WriterDrops`, `WriterExit` those of `writeLoop`.
A message is its size.

**IndiServe.** `PublishElement` precedes `Apply`, as in `apply`; `Dies` precedes
`AnnounceGone`. `Accept` and `Register` are apart, as in `Serve`. `ReplaySnapshot`
and `ReplaySend` are apart: replay takes a snapshot and enqueues it later. `raced`
and `missed` are history variables; they record which clients were sent an
outdated snapshot and which elements the BLOB policy withheld, and no action
reads them.

**Management.** Each request holds `management.mu` from start to end, so it is
one action, except `save`: its comparison of the file (`SaveBegin`) and the rest
(`SaveEnds`, `SaveHalfway`, `SaveFails`) are apart, because other programs do not
take the lock. `SaveHalfway` is a `stop` that gave up after 15 s. A configuration
is per device a flag and an executable, and the serving mode; a file's revision
is its contents. `Exit` is an orderly close or a crash: only the files remain.

**Devices and Motion.** What the device types do is much alike: look whether the
child serves, look a vector up, set a marker, send, wait, clear. `Devices` writes
each method as a sequence of such instructions in the order of the source; the
kind of device and the method's name select it (`Program`). `Motion` executes one
instruction per step, for several requests at once, against a driver that defines
its properties one by one, takes commands up, may publish Busy first or not at
all, publishes unasked, and dies. A call of the kit is one step, since it reads
one snapshot or makes one write. The in-flight marker compares times in the code;
here `acked` holds the pairs <<marker, property>> for which the property's update is younger, and
`fresh` what a poll has read of that. History variables, which no action reads,
record for the properties that an update crossed a command (`crossed`), that
another request cleared a marker (`withdrawn`), that Busy fell between two looks
(`torn`), that another request chose a mode (`loose`), and at which moments of a
poll nothing was outstanding (`rested`).

**Camera.** Commands and updates travel in two pipes, so both can be late.
Exposures are numbered; an image carries the number and the frame type it
was taken with. StartExposure is look, frame type, clear, write, record, in the
order of the source; the read loop hands a BLOB over in two steps, as `ingestBlob`
does, outside and inside the camera's lock.

**Wire, ElementStream, Incoming.** An item the driver sends is a sequence of tags,
text and processing instructions, and the descriptors that travel with it. The
socket and the parser's buffer hold places in the stream (which item, which token);
`Token` says what stands there and `Carried` which descriptors travel with it. `Read`
takes any number of tags from the wire and at most one message's descriptors, as
`recvmsg` does; the parser's functions are the modes `top`, `members`, `text`,
`blob`, `skip`, and each consumes one tag per step. `ElementStream` is the promise to the
supervisor: whole elements, one at a time and in order; each attached BLOB takes
the oldest descriptor; an item that cannot be read ends the stream; the end closes what
is left. `Incoming` implements it under the mapping count = items sent, pending =
items sent and not handed over, queue = descriptors claimed by the element being
read, then those queued, then those still in the socket.

**Switches.** `pinned` is the list of numbers. `Refresh` appends what the snapshot
has and the list has not. A write is `Begin` (refresh and look-up), `Resolve`
(the vector as it is now), for SetSwitchValue on a switch `Again`, and `SetSwitch`.
`learned` is a history variable, the meaning a number had when it was first seen.

## 3. Runs

| Run | Instance | Shows |
|---|---|---|
| `supervisor_core` | 1 device, one property with a preset of each stage, 2 nudge slots, a driver that deletes devices, refuses presets and leaves a backlog | `WriterHasChild`, `ObserverAgrees`, `ObserverForgetsChild`, `DownHasNoData`, `PresetOncePerChild`, `ReaderConnectsAfterPresets` |
| `supervisor_live` | 2 devices, 1 wanted, no presets, fair scheduling | `UnwantedNeverConnects`, `PhaseFollowsConnection`; `CancelledStops`, `DeadChildReplaced`, `SilentDriverIsNudged` |
| `waiters` | 2 callers, 1 property, 3 channels, fair scheduling | `RegisteredEmpty`, `NoOrphan`; `WaitReturns` |
| `send_queue` | 3 senders, sizes 1, 2 and 5, 3 messages, 4 bytes, fair scheduling | `PendingExact`, `MemoryBounded`, `GapMeansDrop`; `WriterEnds` |
| `indi_serve` | 1 child exposed or not, 1 client, 2 values, a queue of 3 | `ClientFollowsChild`, `ClientForgetsDead`, `SelectionIsFresh` |
| `management` | 2 devices with one executable, 2 modes, 1 profile, 1 session | `ActiveIsEnabled`, `ObserversCurrent`, `LabelMatchesFlags` |
| `management_external` | 1 device, 3 executables of which one is not accepted by Build and one is not found, 2 modes, 1 session, a second editor | `NoCompetingInstance`, `RoutesFollowActive` |
| `motion` | 35 drivers of eight kinds, each with the requests that interact over it, 1 or 2 at a time | `StoppedMeansStopped`, `MarkerHasCause`, `UnparkedFirst`, `CommandMeetsItsMode`, `ModesPutBack` |
| `camera` | 7 workloads of 1 or 2 requests, up to 3 exposures or changes, pipes of 2, fair scheduling | `NoStaleImage`, `ImageAsAsked`, `WindowKeepsOthers`; `ExposureDelivers` |
| `incoming` | 4 menus of items, up to 3 items, 2 descriptors per message, a queue of 3 | `NothingLeaks`, `BlobIsItsOwn`; `ImplementsElementStream` |
| `switches` | 2 vectors with 2 and 5 shapes, 1 writing request, a pipe of 1 | `CommandHitsItsSwitch`, `ReadsBack` |
| `preset_race` | minimal | a finding, section 6 |

**What the newer runs say.** A poll that answers "not moving" although a command
was unanswered throughout was misled in one of three ways that the code does not
exclude (`StoppedMeansStopped` names them); conversely no marker outlives its
cause through failed sends and lost children (`MarkerHasCause`). A dome is unparked
before it turns (`UnparkedFirst`); coordinates reach a mount in the mode their
request chose, with the exceptions listed there (`CommandMeetsItsMode`), and only a
refused sync leaves SYNC behind (`ModesPutBack`). An image belongs to the exposure
asked for last unless another was on its way when the frame was cleared
(`NoStaleImage`), and every exposure the driver executes ends in an image, a reported
error or an Alert, unless it is aborted, replaced or lost with its child, its BLOB is
skipped on the way, or the driver keeps it (`ExposureDelivers`). The reader implements the abstract stream
(`ImplementsElementStream`); descriptors are closed exactly once (`NothingLeaks`);
and while every attached BLOB comes with a descriptor and is delivered, each gets its
own (`BlobIsItsOwn`). A switch number never changes its meaning
(`CommandHitsItsSwitch`) and what is written is what is read, except that a number
whose minimum is its maximum never reads on (`ReadsBack`).

**Bounds.** No model has a clock or a length bound on behaviours, with three named
exceptions: `MaxExp` numbers the exposures of `Camera`, `MaxItems` and the menus' `max` the
items of `Incoming`. Elsewhere the number of children, elements, requests, crashes
and saves is unlimited, and every run explores its whole state space. The other
bounds are the sizes of the constant sets. Two nudge slots are needed because a
nudge may outlive its attempt. The preset counter is capped at 2, one more than the
property allows. Both presets are on one property, so that the sweep may find both
due; the proofs cover presets on several, and every set of quirks. No run holds a
supervisor back (`HoldConnect` is FALSE); that case is in the theorems alone. In `send_queue` the size 5 exceeds the whole byte budget of 4 and
takes the "only into an empty queue" path, and three senders are enough for two to
be refused at once. In `waiters` three channels are enough for two callers and one
abandoned channel; the proofs cover every number. In `indi_serve` a queue of 3
holds a deletion between two definitions and also overflows; the child goes in and
out of the selection. `management_external` has one device, so that another
program's edits can be explored at every step; interference between devices is in
`management`. `Drafts` are all configurations of the devices that occur; since
saves also build configurations (`WithEntry`, `WithFlag`, `WithSelected`,
`WithMode`, `AllOff`), the file is not limited to them.

In `motion` a driver's requests are grouped so that every method of every kind
occurs, that every command meets the polls that watch it and the commands that
share its marker or mode, and that two run at once where they can disturb each
other over a single property. `MaxPend = 1` allows a command waiting and another
being executed; the property's other commands wait for the pipe. In `camera` three
exposures are one before, one aborted or replaced, and one after; pipes of 2 let a
command or an image be overtaken by the next one. In `incoming` the menu `any` holds every
balanced item of at most five tags over eight, and `mixed`, `leaves` and `crowd` fill the
queue, exceed the descriptors of a message, and leave unclaimed descriptors for
later items. In `switches` one writer is enough, since every other request acts on
the device only through `Enumerate`, which may happen at any time.

**Deadlock** is checked in every run but those of `Supervisor`, where `Run` ends,
and of `Motion`, `Camera` and `Incoming`, where a request may wait for an answer
that a driver need not give, the exposures are used up, or the stream is over.

**Fairness.** Weak fairness on the goroutines (`RunStep`, the canceller, each
nudge, each caller's own steps, senders and the writer, the read loop, the steps of
a request): the Go scheduler runs a goroutine that can run, and a ticker or timer
fires. Strong fairness is assumed where a `select` has several ready cases
(`Timeout` of a waiter, `WriterExit`): Go picks among them at random, so a case
that is ready again and again is taken. Of drivers something is assumed in
`Camera` alone: one that lives executes its commands (`WF_vars(Driver)`), without
which no exposure need end. Nothing is assumed of clients or users; that a driver
which ignores SIGTERM ends is due to the SIGKILL after the grace period. The
abstract `ElementStream` states its progress as leads-to formulas (`Progress`)
instead of fairness, because TLC cannot evaluate ENABLED under the mapping.

**Mutants.** Every property of a passing run has a mutated operation (next to the
original, "Mutant of ...") under which TLC finds it violated.

**Abstractions of the newer modules.** `Motion`: publishing and applying an update
are one step (`Supervisor` and `IndiServe` have them apart); whether a range or payload check
passes is a choice; the Busy check of the Alpaca library in front of requests is
left out, so any request may run at any time; a driver that switches CONNECTION off
and stays alive is left out. `DomeShutterStatus` tests Busy before it asks for the marker, where the code
asks first and so drops an acknowledged marker although it answers moving; and
`TelescopeDeviceState` leaves out that AtPark asks for the park marker once more.
`Camera`: a BLOB that the read loop or the device drops (no
descriptor, an empty or unmappable one, another device or property) is one case, the
skipped BLOB; the binning that a window change is converted with is left out.
`IndiServe`: an element that cannot be encoded, which publish and replay log and leave
out (`server.go:191`, `284`), does not occur. `Management`: `Buildable` is what Build
accepts and `Found` what LookPath finds; a device whose executable is not found is
kept and counts as running, since its supervisor goes on trying. `Incoming`: the read loop is one goroutine, so a call of the parser is
a step without interference; `Close` comes after the read loop has returned; a driver
sends an item's descriptors in one message, may fail to open its last one and may die
in the middle of an item; that recvmsg truncates the control data of a message
(MSG_CTRUNC) is not a step. `Switches`: a published value is seen at once.

## 4. Proofs

| Theorem | States, for all values of the constants |
|---|---|
| `SupervisorProofs!TypeCorrect`, `SafetyCorrect` | `[]TypeOK`, and the inductive invariant |
| `SupervisorProofs!WriterSafe` | a set writer has an open descriptor and an unreaped child |
| `SupervisorProofs!ObserverInStep`, `ObserverForgets`, `DownIsEmpty` | observers and snapshot differ at most by the element under way or by devices still to be announced as gone; observers forget a child between children; a phase of Retrying or Stopped has no data |
| `SupervisorProofs!PhaseCorrect` | Serving is what the snapshot's CONNECTION says, for an ordinary driver (below) |
| `SupervisorProofs!PresetSafe` | one write per preset and child; after-connect presets only after a connection |
| `SupervisorProofs!ConnectSafe` | held drivers and unwanted devices are never asked to connect |
| `SupervisorProofs!ReaderOrder` | the reader's CONNECT follows the before-connect presets that their vectors take (an action property) |
| `ReadLoopProofs!WaitersTyped`, `NotifyNeverBlocks`, `WakeupsReachTheirCaller` | the waiters' invariants |
| `ReadLoopProofs!IncomingTyped`, `DescriptorsNeverLeak` | what is held is queued once; mappings end with their element |
| `ReadLoopProofs!BlobsGetTheirOwn` | while the items are tidy a BLOB gets the descriptor sent with it |
| `SendQueueProofs!SendQueueInductive`, `SendQueueTyped`, `PendingIsExact`, `MemoryIsBounded`, `RefusalCloses` | the byte counter, the bound it keeps, and that a refused message drops its client |
| `IndiServeProofs!IndiServeInductive`, `IndiServeTyped`, `FollowsTheDriver`, `ForgetsTheDead`, `SelectionHolds`, `ReadingsExist` | what a client ends up with once it has read its queue |
| `ManagementProofs!ManagementTyped`, `NoCompetition`, `RunningIsConfigured`, `RoutesAreActive`, `ObserversFollowListener`, `LabelCorrect` | the management's invariants |
| `MotionProofs!MotionInductive`, `MotionTyped`, `MarkersEnd`, `ModesRestored` | no marker outlives its cause; SYNC and CLEAR do not outlive their request |
| `MotionProofs!CommandsMeetTheirMode` | coordinates and the alignment commit meet the mode their request chose (an action property) |
| `MotionProofs!DomesUnparkFirst` | the unpark of a dome is over before its azimuth is sent (an action property) |
| `MotionProofs!PollsTellTheTruth` | a poll that may answer "not moving" saw a moment of rest or was misled in a named way (an action property) |
| `CameraProofs!CameraInductive`, `ImageIsCurrent`, `ImageHasItsType` | which exposure the frame shows, and of which type |
| `CameraProofs!WindowMembersKept` | a window command changes its own member only, if its request saw the driver's window and no other window command came between (an action property) |
| `SwitchesProofs!SwitchesInductive`, `NumbersAreStable` | a number keeps its meaning up to the command |
| `SwitchesProofs!WritesReadBack` | what is written is what is read, for every range, with two exceptions named in the property (an action property) |

**Assumptions.** Those of the modules (`SupervisorAssumption`,
`WaitersAssumption`, `SendQueueAssumption`, `IndiServeAssumption`,
`ManagementAssumption`, `MotionAssumption`, `CameraAssumption`,
`SwitchesAssumption`, `IncomingAssumption`): sets contain what they should, bounds are positive, sentinel
values are not members, the tags of an item balance at its end and not before, senders are finitely many, and a driver's requests are
requests of its kind. TLC evaluates them in every run. One theorem has a
hypothesis of its own: `PhaseCorrect` assumes `Ordinary`, one wanted device, a driver
that defines CONNECTION before it sets it, always with its members, and does not
delete a whole device or leave a backlog, and either no before-connect presets or a
held connection. The code does not promise more: `evalConnection` decides for
whichever wanted device the element was about, a CONNECTION without the member CONNECT
is read as neither, and a nudge that is refused half-way may overwrite Serving
(section 6). `supervisor_live` satisfies `Ordinary`, so the hypothesis is not empty.

*Supervisor.* None of the properties is inductive. What holds depends on where
`Run` is, so the invariant `SafetyInv` says, per region of `pc`, which resources
exist (`LifeInv`), which phases are possible although nudges may set Acquiring at
any time (`PhaseInv`), that the snapshot is empty outside a child's life and what the
observers were told is the snapshot with the element under way, or with the devices
still to be announced as gone (`DataInv`), how presets move from unmarked over claimed
to written or unfit (`PresetInv`), and that serving implies a reported connection
(`ServingInv`). Each part has one lemma, with a step
per action that can disturb it. `ReaderOrder` uses `PresetInv`: what is marked and
no longer claimed has been written, or was not taken by its vector, if the child still runs. `PhaseCorrect` adds what each of the
read loop's positions between `Apply` and the next element has still to decide.

*Waiters.* `RegisteredEmpty`, `NoOrphan` and `ChannelIsPrivate` support each other
and need one more fact, `HoldsInSelect`: a caller owns a channel exactly while it
is in the select.

*Incoming.* That a BLOB gets its own descriptor is a statement about two ways that
meet: the queue of descriptors, filled by reads that cut the stream anywhere, and
the members a parser collects that keeps only a mode and a depth. The invariant
ties both to the place in the stream. `InItem(i)`: the buffer and the wire together
are the rest of the stream from token i + 1 of the current item on (`Chain`), and
the parser is where the nesting of the first i tokens says, with as many attached
members as it has seen (`Reads`). So a skip that began inside an element ends with
that element's tag and not with another, and the parser is back at `top` exactly at
the end of an item; one lemma per function of the parser says so (`NextReaches`,
`MemberReaches`, `TextReaches`, `BlobReaches`, `SkipReaches`). `QueueInv`: the queue
is in the order of the stream and ahead of what is on the wire, so a descriptor is
queued once. `OwnInv`: as long as all items up to the current one are tidy, nothing
of an earlier item is left in the queue and nothing of this one or a later one is
missing. With `ApplyInv` (claimed and still to be claimed add up to what the element
claims) the head of the queue is the descriptor of the next attached member
(`HeadIsNext`). `DescriptorsNeverLeak` needs no tidiness.

*Send queue.* The counter is a sum of sizes over a queue and over the
senders that have added and not yet put. A sum over a sequence would need induction, so the
module counts bytes instead: a family of sizes stands for the set of its bytes
(`BytesOf`), and its sum is that set's cardinality (`Bytes`). Every step adds or
removes one message's bytes, and the theorems on finite sets do the arithmetic.

*INDI server.* What a client will see is the result of reading its queue to
the end. A *reading* of a queue is a function from positions to values that
follows it message by message; the invariant says that every reading ends with
what the child last announced, or nothing. `enqueue` extends a reading by one value
and the client takes its first one off. Since the statement quantifies over readings,
`ReadingsExist` proves that there is one for every queue.

*Management.* Two facts carry the properties across the gap inside `save`.
`PendingSave` says that what the save has checked stays true until it writes:
requests cannot open a session, change the mode or edit a profile meanwhile,
because they need the lock. `DownIsIdle` says that a process that is not running
owns nothing, which is what `Boot` relies on.

*Motion.* The requests are programs, so the proof has two halves. The first
shows, program by program, that each of the 61 requests has a shape (`Sound`):
branches stay inside the program; a command with a marker goes to a property that the marker
watches (`Aimed`); after `start` every way leads to a command of the marker or to
an error that clears it (`Spans`); coordinates and the commit are preceded by the
look-up and choice of their mode (`Chooses`); and only SyncCoords and SetSite leave
a mode that is not the first one. The second half uses only these shapes: what one
step does to a request (`Moves`, from the facts about `Then`, whose CHOOSE is the
least position that is not blank), and then the invariant. A marker is excused,
outstanding, or in the span of a request (`MarkInv`); to see that a command sent at
the end of a span really reaches the driver, the proof needs that what was looked up
exists for this driver (`GuardInv`) and that the driver's commands are ones whose
answer acknowledges them (`PendInv`). A mode differs from the first one only while
its property is defined (`ChildInv`), so that the sends that put it back cannot fail
(`RestInv`). That a dome turns only after its unpark has ended needs a second
invariant beside it (`ParkInv`): a property that is not Busy runs no command, and, by
the place of the slew in its program, what the updates it has waited for say about
the commands on the park property; every update that arrives before the UNPARK is on
its way is torn, and one that finds nothing pending and no Busy afterwards is the end
of the unpark.

That a poll tells the truth (`PollsTellTheTruth`) needs a third one (`StopInv`) and a
second shape of the programs (`Honest`, shown for each of them): a poll looks at the
state of every property on which the commands of its marker run before it asks about
the marker, or takes all of it from one snapshot; it asks once and behind no branch;
a marker is set in the span of the command that carries it, and no branch enters a
span. `StopInv` then says: the driver runs the commands of a marker on such a property
only (`Targeted`); once an update younger than the marker is seen, by the snapshot, by a
poll or by the marker that was dropped, its command has been taken up by a property
that the marker watches, unless the marker is crossed (`Settled`); what such a property
runs after a poll has looked at it was taken up later, which tears the poll (`Torn`);
what a snapshot showed stays true of the poll that took it (`Shown`); and a poll that
has seen no moment of rest has had a command outstanding all along (`Rested`). A poll
that then finds its marker inactive, neither crossed nor withdrawn, has a command
outstanding that has been taken up by a property it has looked at, and so is torn.

A program added to `Devices` has to be shown `Sound` and `Honest`, and the rest of the
proofs stands.

*Camera.* Every image, command and pending record is of the current exposure while the
history says `clean` (`CleanInv`). For types and windows the invariant speaks of
what the driver's state will be after the first i commands of the pipe (`Stands`,
`OneWindow`), because a request relies on commands that are still under way.

*Switches.* The list of numbers only grows, so what a request looked up
stays what the list says (`ListInv`, `RequestInv`), and so does a command in the
pipe (`PipeInv`).

**Only model-checked.** Liveness (`CancelledStops`, `DeadChildReplaced`,
`SilentDriverIsNudged`, `WaitReturns`, `WriterEnds`, `ExposureDelivers`), which is
out of the prover's reach. The refinement of `ElementStream` by `Incoming`: its
mapping concatenates the descriptors of everything on the wire and its right-hand side
states progress as leads-to formulas; the first is a fold over a sequence, and what a
fold computes for every input needs an induction that the installed provers cannot do,
the second is liveness. Its two safety invariants are proved (above).

## 5. Not modelled

* The characters, attributes, number formats and writers of the wire format, and
  the FITS decoder: work on text and pixels, without state across calls.
* Weather, the safety monitor, and the reading members of the other devices
  (positions, limits, names, labels): each reads one snapshot. The telescope's guide rates and target
  coordinates and the rotator's remembered target are plain fields.
* The UDP discovery loop, HTML rendering, the driver catalogue, the dump command
  and the command line: no state that changes concurrently.
* The length of back-off delays, recording, and the TCP transport.

`PROJECT.json` lists each with its reason.

## 6. Where the code and its documentation disagree

`preset_race` (see `findings` in `PROJECT.json`): a before-connect preset may reach
the driver after CONNECT. It is marked sent under the lock and written after it; a
nudge in between sees the mark.

The following properties are stated in the modules and hold of no run, because the
code violates them; adding one as an INVARIANT (EnableTakesEffect as a PROPERTY)
to the module's configuration shows the behaviour.

* `Waiters!NoLostWakeup`: WaitSettle and WaitUpdate miss an update that arrives
  between their check and their registration and then wait for the next one or time
  out (`sender.go:88`).
* `IndiServe!NoPhantomDevice`: a client whose replay overlaps a driver's death may
  be left with a device that no longer exists.
* `Incoming!OwnDescriptor`: descriptors are matched to attached BLOBs by order
  alone (`run.go:166`, `conn.go:19`). One that nobody claims, because its element
  is skipped, shifts every later BLOB to its predecessor's payload, and the
  unclaimed ones add up until the queue's limit ends the connection.
* `Camera!AbortedStaysAborted`: "INDI discards the frame; so must ImageReady"
  (`camera/device.go`), but an image that was on its way when the abort cleared the
  frame is stored afterwards.
* `Management!EnableTakesEffect`: after a stop that timed out, enabling the device
  again succeeds and starts nothing.

Seen while modelling, in the host: cancelling the context kills the driver with
SIGKILL at once, because it was started with `exec.CommandContext` (`exec.go:45`), so
the disconnect, the SIGTERM and the grace period come too late or race with it; a
before-connect preset that its vector does not take is marked sent, and CONNECT
follows without it (`preset.go:101`, `123-127`, `137-139`), although
`supervisor.go:60` says that they must be applied before CONNECT; after-connect presets are one shot per child
although `run.go:298` says they are re-applied on every acquire; a late nudge may
overwrite Serving when a before-connect preset is configured, and Stopped after
`Run` has ended (`run.go:332`); channels of callers that timed out stay registered
until the next update (`sender.go:137`); replay sends the definitions of all
children with one device name although `server.go:255` says the first is used;
forward may write to a child that is replaced meanwhile (`server.go:309`); a mode
change whose stop timed out leaves the old listener for good, since a retry sees no
difference (`management.go:327-344`); an inspection session may expire just after a
request renewed it (`management_inspection_session.go:116,145`); an edit by another
program between the revision check and the rename is lost (`management.go:300-323`);
the back-off returns its base delay twice (`backoff.go:20`); `parser.go:652` says
recognised elements never reach skipElement, but they do inside others.

In the devices, with the exception that a property makes for them: `Active` drops a
marker as a side effect, also for other polls (`StoppedMeansStopped`); a refused
move clears the marker of an earlier one (same); the rotator's IsMoving does not
look at REL_ROTATOR_ANGLE, and the marker of an alt-az slew watches the equatorial
coordinates (`MarkerHasCause`); CalibratorOn's marker is acknowledged by the answer
to its intensity; setCoordMode succeeds when ON_COORD_SET is not defined, so that a
sync becomes a slew (`CommandMeetsItsMode`), and a refused sync leaves SYNC selected
(`ModesPutBack`); two setSite at once may commit APPEND for CLEAR; the axis flag is
set before the send and stays when it fails; setFrame, SetBin, SetSite and
SetUTCDate resend values of a snapshot that an earlier command has not reached
(`WindowKeepsOthers`); a BLOB that is skipped for want of a descriptor or of a mapping
is logged, and its exposure then has neither an image nor an error
(`ExposureDelivers`); assertUploadClient misses an UPLOAD_MODE that is defined late
(`ExposureDelivers`); the cooler target survives a restart of the driver; switch
numbers follow the order of definition when a client asks while definitions arrive,
although `switchdev/device.go:85` says never arrival order; a number whose minimum
is its maximum cannot be turned on.

## 7. Plan

1. Supervisor, waiters, send queue, INDI server, management: done, model-checked
   and proved.
2. `Motion` with all moving devices, `Camera`, `Switches`: done, their safety
   properties model-checked and proved. The incoming stream: done, its invariants
   proved and its abstract specification model-checked.
3. The safety monitor's verdict and the back-off as operators of their own,
   if a property worth stating is found.
