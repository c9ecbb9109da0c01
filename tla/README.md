# Race Tracker: formal model

TLA+ models of the race tracker in `src/`: what they model, what TLC checks of
them on small instances, and what TLAPS proves of them for every size of fleet.

The race tracker follows small boats in a race. Every boat (a *rover*, normally
a Raspberry Pi) runs `src/src/boatAgent.js`: it reads a GPS receiver and reports
positions over one shared, slow, lossy radio channel. The base station
(`src/src/baseStation.js`) hears the reports, stores them in Redis, detects race
events, tells a web backend (RegattaUp) about them, and sends corrections,
settings and commands back over the same radio. There is no acknowledgement on
the radio: everything works by repeating and by timing out.

Paths below are those of this repository; `slotTable.js` means
`src/src/slotTable.js`, and so on.

- [Inventory](#inventory)
- [Modules and code](#modules-and-code)
- [Runs](#runs)
- [Bounds](#bounds)
- [Fairness](#fairness)
- [Proofs](#proofs)
- [Findings](#findings)
- [Known divergences](#known-divergences)
- [Not modelled](#not-modelled)
- [Plan](#plan)

## Inventory

| Component | State it keeps | Operations | Talks to | Module |
|---|---|---|---|---|
| **Slot allocator** (base): `SlotAllocator`, `ZoneState` in `slotTable.js` | per boat: slot owned, last active report, slot given up, recent fixes, stay in the start grid zone, racing mark; boats waiting; practice mode | `noteHeard`, `sweep`, `release`, `setPractice`, `takeChanged`, `importRacing` | called by `baseStation.js` for every fix and each second; its table is broadcast | `SlotAllocator`, `SlotAssignment` |
| **Slot table on the radio**: slot timer of `baseStation.js`, `SlotTableFollower` in `slotTable.js`, `updateParked` of `boatAgent.js` | base: frames waiting; boat: slot assigned, slot in use, parked, age of the last entry, frames that missed it, practice mode | broadcast, `onTable`, `setParked`, `onPractice`, `refresh` | one-way broadcast that any boat may miss | `SlotNetwork` |
| **Webhook queues** (base): `lapWebhookQueue.js` and four siblings, the drain loop of `baseStation.js` | a sql.js database per kind of event, saved whole to a file at each change; events detected before it is open; requests in flight; round-robin cursor | `record`, `next`, `recordAttempt`, `remove`, `drainOneWebhook`, `sendQueued…` | HTTP to RegattaUp | `WebhookQueue` |
| **Radio sleep mode**: `fleetSleep.js` (base), `roverSleep.js` (rover) | base: rovers believed asleep, wake under way, repeats to come, longest cycle; rover: awake / asleep / listening and its timer | `sleep`, `wake`, `noteHeard`; `handlePower`, listen windows | POWER_SYNC frames, the boats' positions and hellos | `FleetSleep` |
| **Transmit scheduler**: `txScheduler.js`, `txGate.js`, `burstTracker.js` | frames that wait, the opening being filled, two timers; when the last bursts were heard | `submit`, `_pump`, `_flushTick`, `setSlot`, `stop` | every frame of a boat | `TxQueue` |
| **Report pipeline of a boat**: `boatAgent.js`, `distanceGate.js`, `eventBoost.js`, `thinFixes.js`, `ParkedReporter` and `JoinBackoff` of `slotTable.js` | reference fix of the gate, batch, fix waiting for the slot, frames on their way, fixes given back by a failed send, backoffs | fix, event, flush, send answered or refused, sleep, wake, exit | scheduler, slot follower | `BoatReports` |
| **Rover link and GPS sleep**: `boatAgent.js`, `gpsSleep.js`, `roverDiag.js` | radio on or off, hello under way, GPS receiver down, wake retries left, port open | hello, diagnosis, marks, ping, corrections, mark stand-in, sleep, wake, port lost | GPS receiver, radio | `RoverLink` |
| **Race-event detectors**: `detectRaceEvents` of `baseStation.js`, `finishLineWatcher.js`, `foulWatcher.js`, `markRoundingWatcher.js`, `onGridWatcher.js`, `onGridPost.js` | per boat: the fix before, sides, debounces, fixes held until the marks are known, report owed | one fix at a time; forgotten on edits, pings, selection and return of a boat | webhook queues, slot allocator | `RaceEvents` |
| **Course marks and regatta state**: `baseStation.js`, `redisStore.js`, `course.js`, `resetCourse.js`, `markSync.js` | marks in memory; marks, zone and gate flag in Redis; edits under way | edit, reset, gate switch, select, end, periodic sync, heartbeat | Redis, RegattaUp (writes the same keys), detectors, boats | `CourseMarks` |
| **Tracks in Redis**: `redisStore.js` | movement gate per boat, fixes of a tick, batches under way | `writeFix`, flush, trimming, switch of regatta | Redis | `TrackStore` |
| **Fleet power schedule**: `powerScheduleStore.js`, `wittySchedule.js`, `fleetShutdown.js`, `powerSchedule.js` | settings at the base; on a boat the applied records, the Witty Pi's files, what the scheduler runs with | edit, repeat, apply, renew, shut down | radio, Witty Pi | `PowerPlan` |
| **Logs and uploads**: `sdLogger.js`, `logRotation.js`, `uploadClient.js`, `uploadServer.js` | log files and markers on a boat; `.part` files and stored files at the base; open connections | log, prune, upload, answer, give up | HTTP from the rovers | `LogUpload` |
| **Radio frames**: `radioLink.js`, `protocol.js` | bytes not yet understood | `_onData`, encoders and decoders | all radio users | `FrameScan`, `DeltaFrames`, `FrameKinds` |
| **Base GPS receiver**: `baseGps.js`, `ubxParser.js` | port, timers, cached survey and mode | open, poll, survey-in, fix position, save | receiver, dashboard | `BaseReceiver` |
| **Link health**: `linkHealth.js` | per boat: fixes of a minute, gaps, when it finished; boats that are bad | a fix heard, finish, check | console, dashboard | `FleetHealth` |
| **Fleet simulator**: `simGps.js`, `fleetSim.js` | the simulated boat's leg, laps and lines passed; processes, start signal, bridge queue | tick, release; spawn, IPC messages, start, stop | stand in for GPS and radio | `SimBoat`, `FleetStart` |
| **RTK reference stations, dashboards, statistics, configuration, radio test programs, ESP32 firmware, hardware** | | | | no, see [Not modelled](#not-modelled) |

Interaction in one picture:

    GPS -> boatAgent --(reports, radio)--> baseStation -> SlotAllocator --table--> slot timer
             ^  ^                              |   |                                   |
             |  '---- SlotTableFollower <------+---+------(SLOT_TABLE, radio)----------'
             |                                 |   '-> detectors -> five webhook queues --HTTP--> RegattaUp
             '------- RoverSleep <--(POWER_SYNC, radio)-- FleetSleep

Both programs are single-threaded JavaScript: a handler runs to its end, and
what interleaves is handlers, timers and continuations after an `await`. Hard
behaviours come from four places:

- **Loss.** Any frame may be missed by any boat. The base does not know who
  follows which version of the slot table, nor who sleeps.
- **Time.** The allocator alone has six limits (stale, active window, racing,
  zone, dwell, hold) that run out in any order, and the follower two more.
- **Restarts.** Boats and base are powered off without notice. The slot table,
  the list of sleeping rovers and events not yet stored are only in memory.
- **Requests in flight.** Each webhook request is awaited while timers, new
  events and other requests go on; a reply can be lost after it took effect.

What makes each modelled component correct:

- *Allocator*: one owner per slot; a boat keeps its slot until it loses it;
  a racing boat gets one whenever a slot is free or owned by a boat that is not
  racing; a parked boat has no claim left; silent owners lose theirs; boats are
  spread over the cycle.
- *Table on the radio*: a boat uses a slot of its own only when a table gave it
  that slot, never from a table out of date, and ends up in the slot it owns;
  a boat that lost its slot leaves it.
- *Webhook queues*: no event lost between recording and acceptance; none
  accepted twice unless a reply was lost; the backend not flooded; no queue
  starved by another.
- *Sleep mode*: a wake reaches the rovers in range; nothing puts a woken rover
  back to sleep; the base's belief recovers.
- *Scheduler*: frames of a slot leave in the slot, and nothing waits unattended.
- *Reports*: the distance gate never counts a fix as reported that was lost.
- *Rover link*: a receiver is not left asleep under a boat that is awake.
- *Detectors*: no lap from one crossing twice, no crossing that is both lap and
  foul, no boat on the grid that RegattaUp was not told of.
- *Course*: after the next sync the marks in memory are where Redis has them, after
  the next check the zone is that of the marks; an edit made while a sync waits is
  kept; the marks are those of the selected regatta (which they are not always, see
  the findings).
- *Tracks*: the fix a boat's movement is measured from has been written.
- *Power*: what is recorded as applied is what the boat does; no shutdown of a
  boat that was moving.
- *Uploads*: a file marked as sent is whole at the base.
- *Frames*: what is read is what was written, whatever surrounds it.
- *Base GPS*: the mode shown is the mode the receiver is in.
- *Link health*: what counts as a gap has a reason, and a boat heard well is not bad
  while it goes on.
- *Simulator*: the base sees the laps the boat sails, on a course and at a rate within
  named limits; no boat is left on the grid.

The hazards these properties are for, each with its line, are listed in
`PROJECT.json`.

## Modules and code

| Module | Models | Remarks |
|---|---|---|
| `SlotAssignment` | what the slot table promises, not how it is decided | give, withdraw, hand over |
| `SlotAllocator` | `slotTable.js` 39-59 (slot order), 68-101 (`ZoneState`), 189-471 (`SlotAllocator`) | implements `SlotAssignment` |
| `SlotNetwork` | `slotTable.js` `SlotTableFollower`, the slot timer of `baseStation.js`, `updateParked` and `onPractice` of `boatAgent.js`, supersede of `txScheduler.js` | the base's decisions are `SlotAssignment`: it composes with any allocator that implements it |
| `WebhookQueue` | `lapWebhookQueue.js` (the four siblings are copies), `drainOneWebhook`, `sendQueued…` and the buffering in `baseStation.js` | |
| `FleetSleep` | `fleetSleep.js`, `roverSleep.js`, the base's slot and bounded queue of `txScheduler.js` | |
| `TxQueue` | `txScheduler.js`, `txGate.js`, `burstTracker.js` as a boat runs them | |
| `BoatReports` | `handlePvt`, `queueFixForTx`, `flushPendingBatch`, `sendFixes` of `boatAgent.js`; `distanceGate.js`, `eventBoost.js`, `thinFixes.js`; `ParkedReporter`, `JoinBackoff` | |
| `RoverLink` | the other handlers of `boatAgent.js`; `gpsSleep.js`, `roverDiag.js` | the receiver is external |
| `RaceEvents` | `detectRaceEvents` and what clears its watchers in `baseStation.js`, the four watchers, `onGridPost.js` | |
| `CourseMarks` | the course part of `baseStation.js` and `redisStore.js`, `resetCourse.js` | one action per stretch between two `await`s |
| `TrackStore` | the track part of `redisStore.js` | |
| `PowerPlan` | `powerScheduleStore.js`, `wittySchedule.js`, `fleetShutdown.js`, `powerSchedule.js` | |
| `LogUpload` | `sdLogger.js`, `logRotation.js`, `uploadClient.js`, `uploadServer.js` | |
| `FrameScan` | `RadioLink._onData` | bytes |
| `DeltaFrames` | `encodeDeltaFrames`, `decodeDeltaBatch` of `protocol.js` | the program's units and widths |
| `FrameKinds` | the other encoders and decoders of `protocol.js` | fields |
| `BaseReceiver` | `baseGps.js`, `ubxParser.js` | the receiver is external |
| `FleetHealth` | `linkHealth.js` and its callers in `baseStation.js` | |
| `SimBoat` | `simGps.js` | |
| `FleetStart` | `fleetSim.js`, the IPC part of `boatAgent.js`, the radio bridge | |
| `MC…` | instances for TLC | `MCFleet` puts the fifteen modules above side by side |
| `…Proofs` | theorems | `BoatProofs`: `RoverLink`, `PowerPlan`, `BoatReports`, `SimBoat`; `BaseProofs`: `TrackStore`, `FleetStart`, `BaseReceiver`, `FleetHealth`, `LogUpload`, `CourseMarks`, `RaceEvents`; `RadioProofs`: `TxQueue`, `FrameScan`, `DeltaFrames`, `FrameKinds`; `FleetProofs`: `MCFleet`; the others are named after their module |

`PROJECT.json` maps every definition to its lines. Operators whose comment says
*Mutant of X* are slips of X that are easy to make; replacing X by one breaks
the property it is listed with, which shows that the property looks at X.

### SlotAllocator

A JavaScript `Map` entry is a function value with a sentinel for "no entry".
The code stores times and compares differences with limits; the model stores
ages, one `Tick` older at a time, and stops counting just past the limit
(`Older`), beyond which no comparison of the code can tell ages apart. There
is one exception, `LongestSilent`: two owners silent for longer than `Stale`
compare as equal, so either may lose its slot; the code picks the longer silent
one, which is one of them.

`noteHeard` is one function with seven ways through it, each an action:
`HeardParked`, `HeardEntering`, `HeardOwner`, `HeardUnentitled`,
`HeardGivenFreeSlot`, `HeardTakingOver`, `HeardOverflowing`. `Stay`,
`ZoneAfter`, `RacingAfter` are the steps all of them share: the zone update with
its unparking, the start-line crossing, the racing mark. `Choice` is `_assign`
with `pickSlot`, and `Rank` the bit-reversed order of `slotOrder`. A fix is
abstracted to what `startGridState` and the speed threshold of `baseStation.js`
make of it: moving or not, where it lies, whether the boat was seen to cross the
start line, and whether the course is known at all. Every combination may occur
at any time, so nothing depends on how boats sail. `importRacing` is the choice
of `racing` in `Init`.

### SlotNetwork

The base's change of the table is any step of `SlotAssignment` (`Reassign`),
a switch of practice mode or a restart. `Broadcast` is the slot timer: the
frames of the new version replace those waiting (`supersedeKey`), and an
unchanged one is not queued twice. `Transmit(S)` sends the first frame and the
boats of `S` hear it; `S = {}` is a lost frame. `onTable` is `StaysParked`,
`Entry`, `GivesUp`, `AssignedAfter`, `UsingAfter`. A boat's own fixes are
`BoatFix`, with the position reduced to inside the zone or not and long enough
there to park or not. Boats and base restart at any time.

### WebhookQueue

A row of a queue keeps the id it got (AUTOINCREMENT), since the code removes by
id after an `await`. Every operation of a queue saves the whole database before
it returns, so stored rows are also on disk. One tick of the loop is one step of
`Drain`, and the unit of the backoff. A request ends with a reply (`Finish`) or
without (`TimeOut`), whatever the backend did with it. A kill (`Crash`) leaves
only the disk, and `CrashSaving` catches `writeFileSync` half way: the file is
empty, or cannot be opened and the queue stays closed.

### FleetSleep

Time is discrete, one `Tick` between two repeats of a command. A timer that is
due fires before the next `Tick`, in any order with the rest. In slot mode
frames wait in a bounded queue for the base's own slot (`phase`). `told` and
`chances` are history: the last command to each rover, and how often a wake
frame was on the air while it could hear.

### TxQueue

Time is counted from the last burst *heard*, since `txGate.js` and
`burstTracker.js` work relative to it; bursts come every `Cycle` and any of them
may be missed, so the tracker's period is the median of spacings that are
multiples of the cycle. `GateWait` and `SlotWait` are `waitMs` of the gate and
`_slotWaitMs`, `Submit`, `Pump`, `FlushTick`, `SetSlot`, `FlushNow` the methods
of the scheduler. A timer that is due may fire up to `MaxLate` ticks late: that
is what the guard at the end of a slot is for. The frame's air time is one
constant, and the join slot a boat starts in is one slot.

### BoatReports

A fix is its number, which is also its time. `handlePvt` is `Fix`; the parts of
a handler are operators from a record `pipe` (reference of the gate, batch, fix
held for the slot, frames on their way, last sent) to the set of records it may
become. A frame goes at once or waits in the scheduler, where it goes out, is
refused or is dropped at any time (`FrameDone`), which abstracts `TxQueue`. The
distance of a fix from the reference and from marks and lines is an input.

### RoverLink

The receiver has three states: on, going down, in backup. A byte that reaches it
in backup wakes it, one that reaches it on the way down does not, and bytes come
from more places than `gpsSleep.js`: a correction, a poll for signals, and
`openGps` (`Woken`). The port closes and opens and the boat restarts at any time.
Hello, diagnosis, ping and mark stand-in use the same flags and are modelled with
them.

### RaceEvents

Places are points of a small plane, and the geometry is that of the code in
integers: on which side of a line, whether a step crosses a segment, how far from
a mark, which eighth of a turn. The boat sails from any place of `Waters` to any
other, each fix is heard, lost or comes late, marks move and are looked up, and
regattas change. `det` is what the watchers keep, `ages` the times they compare.

### CourseMarks

Node runs one stretch of code between two `await`s as a whole and Redis executes
commands in order on one connection, so each action is such a stretch and
commands take effect when issued. `jobs` are the asynchronous functions under
way, of which only the sync (`syncing`) is never started twice; `checks` are the
checks of the on-grid zone under way, which may overlap, since every heartbeat and
every look-up starts one and none waits for another: Redis answers them in turn. A
command may fail wherever a function waits for one (`Fails`, `SyncFails`,
`CheckFails`); a look-up whose reads fail goes on as if nothing were published, and
at startup tries again. The pin stands for the start line, and the published zone is
named by the pin's place it was computed from. `course.of` is history: the regatta
whose keys the marks in memory were read from.

### TrackStore, PowerPlan, LogUpload

`TrackStore` distinguishes the fix that is queued (which moves the gate) from the
one that is written, batch by batch, each of which may fail in one command and
not in the other; several fixes of a tick may wait while earlier batches are still
being written. `PowerPlan` writes files one after the other, and `PowersDown`
may come between any two. In `LogUpload` a connection of the server outlives the
client's request, so that several connections write to one `.part` file.

### FrameScan, DeltaFrames, FrameKinds

`FrameScan` is the state machine of `_onData` over bytes below a small radix, with
a checksum and with kinds of fixed and of variable length, the stream being any
sequence of bytes in any chunks. `DeltaFrames` has the fields' true widths and
units: it is arithmetic. `FrameKinds` gives for each kind what the writer makes of
values (clamping, rounding, packing) and what the reader makes of fields, with any
one field damaged on the way. What values a writer may be handed is `Handed`: what it checks
itself before it writes (the count and the slots of a table, the ids of a power command) or what
its callers have checked (times of a day, modes); TLC has the border values of each kind and checks that they
are such values (`FrameValuesAssumption`).

### BaseReceiver, FleetHealth

`BaseReceiver` has the serial port, the messages either way and the parser, of
which a damaged length swallows what follows; the receiver loses power and starts
with its saved mode. `FleetHealth` has the record of a boat with ages, the levels
`boatStatus` computes, and the frames a boat sends, loses or stops sending. What a
boat was last seen doing does not make it report: it may stop, or stay within
`TX_DISTANCE_M`, and is then silent until its heartbeat (`StopsClose`). `missed` is
history: why the base has not heard a boat, if there is a reason.

### SimBoat, FleetStart

`SimBoat` sails on a grid: a tack or gybe is a diagonal, random lengths are
constants, and what the base sees (crossings between emitted fixes) is computed
from the same points. `FleetStart` has processes, IPC messages in order, the
start signal and the bridge's paced queue.

### MCFleet

These fifteen modules share no state in the model: in the program each pair is
joined by one call whose effect the other module has as an input that may occur
at any time (a frame that is heard or lost, a fix, a port that closes). `MCFleet`
therefore runs them side by side, one per behaviour, chosen by `part`, and its
reachable states are the sum of theirs, not the product. Each has a specification
of its own (`TxSpec`, `ReportSpec`, ...) for proofs and for composition.

## Runs

| Run | Instance | Shows |
|---|---|---|
| `slot_race` | 2 boats, 1 slot and a join slot, all kinds of fix, practice mode, any racing boats at the start | `UniqueSlots`, `OneClaim`, `ParkedClaimsNothing`, `NoRacerShutOut`, and the allocator implements `SlotAssignment` |
| `slot_reclaim` | 2 boats, 5 slots, course known, two heartbeats count as active | `OwnersAreRacing`, `Spread`, `SlotsNeverMove`; silent owners lose their slot under fairness |
| `net_table` | 2 boats, 2 slots, one boat per frame, both modes | `TablesAreCurrent`, `OwnSlotOnlyWhenAssigned`, `MovesToOwnedSlot` |
| `net_converge` | 2 boats, 1 slot, fairness | `FollowersConverge`, `SquattersLeave` |
| `net_practice` | 1 boat | finding: a boat parks away from the grid after practice mode |
| `hook_queue` | 3 events, 2 queues, 2 requests, a restart that may tear a save, fairness | `BackendNotFlooded`, `DuplicatesOnlyAfterLoss`, `OnlyTornSavesLose`; an event is delivered although the backend refuses those of the other queue for ever, unless a torn save of its own queue loses it (`OtherQueueDelivered`) |
| `hook_torn` | 2 events, 2 queues | finding: a kill while a queue is saved loses its rows |
| `sleep_fleet` | 1 rover, cycles 1 and 4, any loss, a restart, 3 commands, fairness | `WakeReachesAll`, `WokenStaysAwake`, `BeliefRecovers` |
| `sleep_slotted` | slot mode, base slots 4 ticks apart, windows 3 ticks long | finding: a wake can miss a rover |
| `sleep_early` | no slot mode | finding: an old frame ends a wake |
| `marks_switch` | 2 regattas, one of them published, 2 look-ups | finding: the marks of one regatta are left in memory under another |
| `fleet_day` | the fifteen components of `MCFleet`, one per behaviour | the properties below |

The properties of `fleet_day`:

| Property | Module | Says |
|---|---|---|
| `TypeOK` | all | the type invariant of the component that runs |
| `InOwnSlot` | `TxQueue` | a frame of a slot goes out in the boat's slot of the true cycle, whatever bursts it missed |
| `NothingStuck` | `TxQueue` | the guard is kept free, no frame waits without a timer, gathered fixes are let go |
| `GateHonest` | `BoatReports` | the gate's reference, or a newer fix, went out or still waits |
| `NoFalseLap` | `RaceEvents` | no two laps without having been south of the line, no crossing both lap and foul |
| `OnGridTold` | `RaceEvents` | a boat on the grid has been reported, and lately |
| `CourseHeals` | `CourseMarks` | a sync nothing came between moves the marks in memory to where Redis has them for the selected regatta, as many as it has; the next check of the zone nothing came between makes the published one that of the marks, and later checks leave it so |
| `EditKept` | `CourseMarks` | a sync does not undo an edit made while it waited |
| `SchedulesKept` | `PowerPlan` | records tell what is in force, but where a power cut fell between the two files (known divergences); a shutdown follows a full idle time |
| `MarkedIsStored` | `LogUpload` | a file with a marker is whole at the base |
| `GateIsWritten` | `TrackStore` | the place a boat's movement is measured from is in a track or in one of the batches on their way, whichever of them fail in part |
| `WakeIsRetried` | `RoverLink` | a sleeping receiver under an awake boat is going to be woken |
| `FramesGetThrough` | `FrameScan` | every frame that arrived whole is delivered |
| `FramesReadAsSent` | `DeltaFrames`, `FrameKinds` | what is read is what was written |
| `SeenAsSailed` | `SimBoat` | within four named limits on course, rate and grid, the base counts the laps the boat sails, and no foul it does not sail |
| `NoneLeftBehind` | `FleetStart` | a boat that holds has the start signal under way once it was given |
| `NoFalseAlarm` | `FleetHealth` | a gap counted has a lost frame, a stop, a switch-off or a change of the rate behind it, and a boat heard well is not bad while it goes on |
| `ModeIsShown` | `BaseReceiver` | the dashboard shows the receiver's mode after a refresh or a poll |

Every run checks for deadlock too: timers never stop, so the system always has a
step to take (`LogUpload`, where everything may be logged and sent, and
`FrameScan`, whose stream ends at a bound, state that case as a step). A property
that no passing run can hold (the findings) has a run of its own, which ends with
the counterexample.

## Bounds

Small scope, chosen so that the interesting cases occur:

- *Two boats, one slot* is the smallest contention: give, take back, hold for
  another, hand over and overflow all happen. Five slots, not a power of two,
  make the bit-reversed order skip numbers, and join slots are outside it.
- *Limits of 1* (`Stale`, `RacingTtl`, `ZoneTtl`, `Hold`, ...) suffice for the
  orders in which limits run out, since sweeps may be late by any number of
  ticks. `OwnersAreRacing` needs `RacingTtl >= Stale`, as in the code's defaults
  (10 min and 45 s).
- *FrameSize 1* makes a table of two boats two frames, so that a boat can hear
  one and miss the other. In the code a frame lists at most `MAX_SLOT_ENTRIES`.
- *RevertTables 2* where the code says 3: more than one, so that one lost frame
  does not send a boat back (`net_table` takes 1 to keep the product with two
  modes small, `net_converge` 2).
- `MaxAttempts` stops counting where the backoff is at its limit; `MaxBackoff` 3
  is not a power of two, so the limit does cut. `MaxCrashes` 1: one kill leaves
  only the disk, and a second one can start only from a state of that kind.
- `MaxCommands` 3 allows sleep, wake and one that disturbs both. `MaxQueue`
  stands for `TX_SCHED_MAX_QUEUE`.

`fleet_day`:

- *Transmit*: a cycle of 10 with two slots of 3, of which slot 2 does not fit the
  nominal period any more (`SlotFits`) and does fit one that is half a cycle too
  long after missed bursts; a frame of 1, so that two fit and a third does not;
  two spacings remembered of at most two cycles; timers one tick late. `SubmitAt`
  4 is a moment inside the first slot.
- *Reports*: three fixes, batches of two, one frame waiting: the shortest
  histories in which a failed send meets a newer fix.
- *Events*: four places, chosen so that between them a lap, a foul at the finish
  and at the start, a rounding, the grid, and the excused side of the pin boundary
  are reached; two courses that differ in the finish line. `Tolerance` is never
  exceeded, as no clock jumps in the model: a fix is at most `MaxLag` late.
- *Marks*: two regattas, one with a course, two jobs and two checks of the zone at a
  time, and two acts of operators, RegattaUp or failures in a behaviour.
- *Power, logs*: two changes or failures; two slices of two lines, two
  connections, two troubles (a stall and what overtakes it). *Tracks*: two fixes of a
  tick, two batches under way, two fixes waiting or on their way in all (`MaxHeld`), two
  regattas and a track of one fix: a batch may fail in part while another is under way.
- *Link*: one retry of the wake and one answer waiting; one mark. *Receiver*: one
  site, one command and one swallowed message at a time, polls every two steps.
- *Scan*: radix 4, streams of 7 bytes in chunks of at most 2, a kind of fixed
  length and one whose length a count tells. *Deltas*: seven fixes chosen for
  rounding either way, turns through north, a stop and jumps that do not fit; up
  to five held and four to a frame. *Frames*: the border values of every field.
- *Simulator*: a course of length 11 with a gap between the two lines, strides from 1 to
  4 (a tick past the end of a line and of the margin of 1), two laps. The figures
  satisfy the limits `SeenAsSailed` names, which `MCFleet` assumes of them
  (`FleetSails`) so that TLC asks all of the property. *Fleet*: two boats, one frame each over the
  bridge and room for one.
- *Health*: one boat (boats share nothing), a cycle of 2, one gap makes bad
  (`GapsBad`), and windows just long enough for a fix to leave them.

## Fairness

- `SlotAllocator.FairSpec`: time passes and the sweep timer fires. Nothing
  makes a boat report.
- `SlotNetwork.FairSpec`: the slot timer and the queue go on and time passes
  (weak); a boat is not for ever out of range of the frames that list it, nor of
  those that do not (strong, since frames come and go). Without the latter a
  boat may miss every frame, and the code can do nothing for it.
- `WebhookQueue.Fairness`: the loop ticks, databases open, replies that came are
  handled and every request times out (`AbortSignal.timeout`): all timers and
  callbacks of the runtime. Strong fairness that the backend accepts is assumed
  only of the event the property is about, and nothing is promised of an event in a
  file that a torn save has lost.
- `FleetSleep.FairSpec`: timers fire and frames go out; an awake rover reports
  again (position, or a hello every 5 minutes) and not every frame is lost.
  `Tick` is strongly fair, which excludes only behaviours in which infinitely
  much happens between two ticks.
- The modules of `fleet_day` are checked for safety only. What must happen in time
  is stated as a bound on a state instead (`NothingStuck`, `OnGridTold`,
  `ModeIsShown`, `CourseHeals`, `WakeIsRetried`), which needs no fairness and is
  stronger.

## Proofs

Constants are arbitrary under the assumption named in each module
(`SlotAllocatorAssumption`, `WebhookQueueAssumption`, `FleetSleepAssumption`,
`LogAssumption`, `PowerAssumption`, `HealthAssumption`, ...): numbers are naturals,
the join slots leave at least one slot, the counted attempts reach the longest
backoff, a fix is not held up for longer than the tolerance for clocks. Nothing
bounds the boats, slots, limits, queues, events, fixes, marks, places, files or
connections. What a theorem assumes beyond that is said with it.

An inductive invariant was an invariant of a TLC run before it was proved: those of
`BaseProofs`, `BoatProofs` and `RadioProofs` that follow were checked on up to
13 million states (`ReceiverInv`), 2.5 million (`GridBounds`), 2 million (`ReportInv`), 4 million (`CourseInv`)
and 0.5 million (`RaceInv`), those of `RadioProofs` on 60,000 (`TxInv`), 22,000 (`ScanInv`) and 3,000 (`DeltaInv`).

`SlotAllocatorProofs`

| Theorem | States |
|---|---|
| `TypeCorrect` | `Spec => []TypeOK` |
| `SlotsAreUnique` | `Spec => []UniqueSlots` |
| `ClaimsAreSingle` | `Spec => []OneClaim` |
| `ParkingForfeits` | `Spec => []ParkedClaimsNothing` |
| `OwnersRace` | `Spec => []OwnersAreRacing`, if only fixes with the course known occur and the racing mark outlives the stale time |
| `SlotsStayPut` | `Spec => SlotsNeverMove` |
| `RacersAreServed` | `Spec => NoRacerShutOut` |
| `FleetIsSpread` | `Spec => []Spread`, if there are at most half as many boats as slots |
| `AllocatorImplementsAssignment` | `Spec => ImplementsAssignment` |

Type correctness comes first, action by action, then each invariant is inductive
relative to those before it. `Ownership` puts the three invariants about claims
together: `UniqueSlots` rests on `ChoiceIsFree` (a slot `_assign` settles on is
owned by nobody, whatever is remembered for whom), and `OneClaim` and
`ParkedClaimsNothing` need one another, since a parked boat's fixes are told from
an owner's by what it does not have. `OwnersAreRacing` is not
inductive: an owner's racing mark could run out while it keeps its slot. The
strengthening `RaceBacked` relates the two ages: as long as an owner is not
stale, its racing mark is no older than its last active report (both are
refreshed by the same active fixes), and `RacingTtl >= Stale` then makes the sweep
that forgets the mark also free the slot. `SlotStep` lists what a step can do to
the slots; `SlotsNeverMove` and the refinement (each action is a `Give`, a
`Withdraw`, a `HandOver` or a stutter of `SlotAssignment`) follow from it.

`FleetIsSpread` has two halves. Arithmetic: in the bit-reversed order all even slots come before
the odd ones (`EvensFirst`), however many slots there are. Counting: each boat
has a claim on at most one slot (`ClaimsAreSingle`), so that as long as all claims are on
even slots (`EvenClaims`) an even one is left for whoever has none (`EvenSlotIsLeft`,
by the pigeonhole principle), and `_assign` picks it.

`WebhookQueueProofs`

| Theorem | States |
|---|---|
| `RetriesDuplicateNothing` | `Spec => []DuplicatesOnlyAfterLoss` |
| `BackendIsNotFlooded` | `Spec => []BackendNotFlooded` |
| `OnlyKillsLose` | `Spec => OnlyTornSavesLose` |
| `QueueTypesHold` | `Spec => []TypeOK` |

The inductive invariant `Books` says how rows, buffers, requests and the record
of what happened fit together: rows are of recorded events, one row for
each (`RowsSound`); a buffered event is not recorded yet (`BufferSound`); a
request is for a row still stored, the only request of its event
(`RequestsSound`); and an event accepted, no reply of which was missed, was
accepted once, and its row is gone or a good reply is about to remove it
(`AcceptedSound`). `Flow` adds the number of requests. `OnlyKillsLose` goes through the
steps that shorten a queue: a confirmed row's event is accepted, a restart leaves the disk, and
a torn save loses the rows of its own queue and no others. `QueueTypesHold` adds the retry
clock, the cursor of the round robin and the crashes to what `Books` says of the types.

`SlotNetworkProofs`

| Theorem | States |
|---|---|
| `NoStaleTable` | `Spec => []TablesAreCurrent` |
| `OwnSlotIsGiven` | `Spec => []OwnSlotOnlyWhenAssigned`, if there are join slots |
| `OnlyToOwnedSlots` | `Spec => MovesToOwnedSlot`, if there are join slots |

`TablesAreCurrent` is inductive once the base's variables are typed (`BaseInv`):
a change of the table sets `changed`, and `changed` is only reset by the broadcast
that replaces what waits. `BoatInv` ties the slot a boat uses to the one it was
assigned (`Followed`): nothing assigned before the first table, and a parked boat in
a join slot. With
no join slots a boat that is no longer listed has nowhere to go and stays in its
slot (`slotTable.js:585`), so both theorems need `JoinSlots # 0`, the default. The
base changes the table by steps of `SlotAssignment`, and by
`AllocatorImplementsAssignment` the allocator makes no others: the theorems hold of
the two together.

`FleetSleepProofs`

| Theorem | States |
|---|---|
| `SleepTypesHold` | `Spec => []TypeOK` |
| `WokenStay` | `Spec => WokenStaysAwake`, if the base's frames go out at once (`SlotPeriod = 1`) |
| `WakesReachAll` | `Spec => WakeReachesAll`, if besides a window lasts three repeats or more (`Listen >= 3`) and no restart of the base forgets a longer cycle (`NoForgottenCycle`) |

`NoLeftOver`: every repeat of a sleep command still to come, and every sleep frame
that waits, is for rovers whose last command was to sleep, since `wake` clears the
timers and a command is only given when no frame waits. In slot mode a sleep
frame may wait while the wake is given, and the statement is not claimed.

`WakesReachAll` is the sentence of `fleetSleep.js:13`, for every cycle, window and margin. A rover's
windows come when they like, so the invariant (`StillCalled`) adds up, for each rover a wake
names, the frames it could hear so far, the one that waits, those that its present window has time for, and whether
the time left holds a whole window more. No action lowers the sum: a window that ends
too early to have been of use leaves a cycle and a window to come (`CalledAfterWindow`). The
default window is 6 repeats long (`SLEEP_LISTEN_MS` 1500, `WAKE_REPEAT_MS` 250). Each of the three hypotheses
is needed: `sleep_slotted` refutes the first, and TLC refutes the statement with
`Listen = 2`, and with a restart between two cycles (`fleetSleep.js:37`, below).

`BoatProofs`

| Theorem | States |
|---|---|
| `ReceiverIsWoken` | `LinkSpec => []WakeIsRetried`, if the wake is retried at all (`WakeTries # 0`) |
| `ShutdownsAreKept` | `PowerSpec => SchedulesKept` |
| `GateIsHonest` | `ReportSpec => []GateHonest` |
| `LinkTypeCorrect` | `LinkSpec => []LinkTypeOK` |
| `PowerTypeCorrect` | `PowerSpec => []PowerTypeOK` |
| `ReportTypeCorrect` | `ReportSpec => []ReportTypeOK` |
| `SimTypeCorrect` | `SimSpec => []SimTypeOK` |

`WakeIsRetried` is not inductive: `RetriesLeft` adds that of a wake that
found its receiver on the way down all retries are left, for the timer is longer
than the way, so that the one that counts comes when the receiver is down. With
no retries a byte sent while the receiver still goes down is never followed by
another, hence `WakeTries # 0`.

`PowerInv` says of the files that the script of the Witty Pi is only called applied
once its file is whole, and that a script being applied has its whole plan file and is
still recorded as torn or in progress (`ScriptHasFile`), and of the shutdown that an idle time that runs
began after the boat was last disturbed (`IdleIsCalm`).

`ReportInv` needs less than it seems to: the types say that every fix in a batch,
held or in a frame is a past one, `Ord` that the last fix of the batch is at
least as new as the gate's reference, as what was last sent and as every frame on its way, and `Honest` that the
reference is covered by a batch, a frame or what went out. The work is in what a flush makes
of a batch: the newest fix survives thinning (`PickedLast`), splitting into frames
(`BatchesType`), and the loop over the frames (`SendAllSends`, an induction over
them) unless the radio fails, which resets the reference. A boat that is asleep
or about to announce itself has no reference that counts.

The types of a simulated boat are of interest for its laps: it counts no more than its race
has, for any course, lines and legs. What it counts by is a chain of decisions, so `SimInv`
says of each step that what the boat is made of stays whole (`Hull`), that it and what it heads for are
points (`Afloat`), and that a boat with all its laps has crossed and coasts to where it
parks (`Racing`): nothing it does until then is a crossing. Of a boat that sails its path to
the end only `Hull` is left. A leg ends before the number that stands for no end (`Forever`),
which `SimAssumption` says.

`BaseProofs`

| Theorem | States |
|---|---|
| `GateHoldsNoLostFix` | `TrackSpec => []GateIsWritten` |
| `SignalReachesAll` | `FleetSpec => []NoneLeftBehind` |
| `ModesAreShown` | `ReceiverSpec => []ModeIsShown` |
| `AlarmsAreTrue` | `HealthSpec => []NoFalseAlarm` |
| `MarkedAreSafe` | `LogSpec => []MarkedIsStored` |
| `MarksHeal` | `CourseSpec => []CourseHeals` |
| `EditsAreKept` | `CourseSpec => EditKept` |
| `LapsAreTrue` | `RaceSpec => []NoFalseLap` |
| `GridIsTold` | `RaceSpec => OnGridTold` |
| `TrackTypeCorrect`, `FleetTypeCorrect`, `ReceiverTypeCorrect`, `HealthTypeCorrect`, `LogTypeCorrect`, `CourseTypeCorrect`, `RaceTypeCorrect` | the type invariant of each of the seven components |

`GateIsWritten` is inductive over the types (`StoreInv`): lemmas say where the places of
a queue, of the batches under way and of the tracks go when a batch is formed, written
or failed. `StartInv` adds to `NoneLeftBehind` the boats that are not
there yet: once the signal was given it is in each one's queue of messages until
it has heard it (`SignalKept`).

`ReceiverInv` accounts for the answer the dashboard waits for. If the mode shown is an old
one, the next poll comes before the time is over (`PolledSoon`) or, after a command of the base, one of the
refreshes does (`RefreshedSoon`), unless the poll is already on its way or answered; a
command on its way has its refresh behind it (`RefreshBehind`); and an answer that
is out of date means that the receiver has lost its power (`OldAnswer`).

`HealthInv` says that a gap remembered has a cause (`GapsExplained`) and that a boat
of which nothing was missed, and that has not stopped since, is due as its last fix says, and was
heard no longer ago than it last sent (`DueAsHeard`), which is not longer than its interval
(`NotLate`). A boat that goes on, and whose frames all arrive, then has no gap and no silence to
be bad for. One that stops close to its last report is not promised to be well, unless it
has finished: it may turn bad (known divergences), and the gap its next report makes is put
down to the stop. That the quality of its fixes is
not bad either is a hypothesis of `NoFalseAlarm`.

`UploadInv` keeps the story of a file between the answer and the marker: the
connection the client listens to is the last one opened (`Listening`), and the
`.part` file, if there is one, is the one it has written to since it cut it off;
a file that is answered or marked is stored whole under a name that has no `.part`
file (`Safe`), so that no connection left over can rename anything over it; and
the client never opens a marked file again (`Order`).

`CourseInv` follows a sync across its `await`s. One that nothing came between has read what
Redis has (`SyncIsFresh`), and so a check of the zone, which is then the only one under way
(`CheckIsFresh`); a sync that an edit touched
and that still takes itself for undisturbed has that edit among the jobs under way
(`EditSeen`), which is what the guard in the code looks at. `HealedIsSo` is what
`CourseHeals` promises, said of the state between the sync and the next check too, and of the
checks under way: in a state that is healed each of them would write the place the pin has.
`CourseHeals` speaks of the marks that Redis has. Of those it does not have the sync knows nothing,
and they may be another regatta's: that is what `SelectedCourseOnly` is about, which `marks_switch`
refutes.

`RaceInv` is about time. Fixes wait, are overtaken and are late, so what the base
knows of the boat and where it has been since are different things: `Comes` says of
a fix under way that the boat was south of the line after the newest
fix seen if the record says so, `CameBefore` that of two that wait in order the first is the older, `PendingKept` and
`LagKept` that this holds of the queue and of the one fix held up. `WatchKept`
says that a boat last seen not north of the finish line it is watched at has been south since
its last lap, and `Told` that a boat on the grid
has been reported. `LapIsNoFoul` is the geometry: a crossing
within the line is no crossing beside it. `DetectedAllPasses` takes the invariant through a burst of any number of fixes.
`OnGridTold` follows, a step being a step of a boat in such a state.

The type invariants say that queues, counters and timers stay within their bounds. Most of it
follows from the guards and the invariants above. In `FleetStart` it does not: the count of boats on
the grid is no more than the fleet because a boat that is counted has left the shore and no
report of it is on its way, so that it is not counted twice (`GridBounds`). `CourseAssumption`,
`TrackAssumption` and `SimAssumption` say that the bounds are numbers.

`RadioProofs`

| Theorem | States |
|---|---|
| `SlotsAreKept` | `TxSpec => InOwnSlot`, if each slot is in its cycle (`SlotsInCycle`) |
| `NothingGetsStuck` | `TxSpec => []NothingStuck`, if the polls are short against the time bursts are waited for (`FlushInTime`) and a slot against the cycle (`SlotIsShort`) |
| `NoFrameForgotten` | `TxSpec => [](held # <<>> => pumpIn # NoTimer)`, the part of it that needs neither |
| `TxTypesHold` | `TxSpec => []TxTypeOK` |
| `FramesArrive` | `ScanSpec => []FramesGetThrough` |
| `ScanTypesHold` | `ScanSpec => []ScanTypeOK` |
| `FramesAreRead` | `DeltaSpec /\ KindSpec => []FramesReadAsSent` |
| `DeltasAreClose` | `DeltaSpec => []DeltaIsClose`, the part of it about delta-coded batches |
| `DeltaTypesHold` | `DeltaSpec => []DeltaTypeOK` |
| `KindTypesHold` | `KindSpec => []KindTypeOK` |

`SlotsAreKept` is arithmetic on top of `TxInv`, the types and the timer of what waits. The
boat takes the time of the burst before for a multiple of its period from the last one heard
(`BurstBefore`), which is a multiple of the cycle whenever the period is. A wait of nothing
means that the moment is in an opening of the slot, at its start or with room for the frame and
the guard (`NoWaitInOpening`), and so the moment in the true cycle is in the slot
(`OpeningIsOwn`). The rest says that no method writes a frame of the slot
without such a wait (`SubmitGood`, `SendingIsGood`), except without bursts or at the exit,
which the property leaves out.

`SlotsInCycle` is what `slotCountForPeriod` (`slotTable.js:28`) sees to when the base works out
how many slots its cycle has. `MCFleet` assumes it of its instance, so that TLC evaluates it
there. It is needed because `_slotFits` compares with the boat's *period*: a boat that heard
every other burst takes two cycles for one, and to it a slot fits that reaches
into the next cycle (as one does where the slot count is set by hand).

`NothingGetsStuck` rests on two more invariants. `AiredInv` says where the air time used in this
true cycle was used: in one opening of the slot, which the window accounts for or which is
over. A boat's periods are a median of whole cycles, so whole cycles or at least one and a half
(`PeriodRange`), and its openings too far apart for two of them to let a frame start in one
true cycle (`OneOpening`); within one, each frame finds room for itself and the guard
(`FrameFits`, and `LoopFits` for all that a pump sends). `FlushPaced` bounds the time fixes are
gathered by the time to the next tick of the flush. The hard case is a boat that
was out of step at its last tick: it gathers only if it hears the bursts by now, and its
tick comes before they can be given up again, so that the tick finds it in step or
the fixes already gone.

`FlushInTime` is three inequalities of the code's own figures. A write is unsafe for less than a cycle after a
burst (30 ms, `config.js:484`, against 400 ms and more, `burstTracker.js:20`). A boat out of step looks again
every 500 ms (`txScheduler.js:155`), and bursts are waited for three cycles and 500 ms, at least 3 s
(`burstTracker.js:117`). And the poll, and twice what a timer may be late, are shorter than
the longest spacing that is counted (15 s, `burstTracker.js:21`). TLC refutes
`NothingStuck` with `Poll = 40` and `MaxGap = 5`, which break the second, and with `Poll = 12` and `MaxGap = 1`, which break
the third. `SlotIsShort` holds of the default width (45 ms, `config.js:505`) in any cycle the tracker counts;
a width set by hand could break it, and then the proof does not apply. `MCFleet` assumes
both of its instance.

`ScanInv` accounts for every byte that has left the buffer: if it could start a frame, it is
part of one that was delivered, or the frame it starts fails its checksum, and does so whatever
arrives behind it (`FailsStays`); and what is in the buffer waits for bytes that have
not arrived, so that it is shorter than the longest frame. One byte leaves when a frame fails
and all its bytes when it is delivered (`CutGood`), so that a round of the loop keeps this (`RoundGood`), and
with it any number of rounds (`ScannedGood`). The bytes of a frame that arrived whole do not
fail, which is `FramesGetThrough`.

`DeltasAreClose` rests on one step of the arithmetic, `DeltaIsNear`: a difference that fits is
off by at most half a unit, rounded once, when it is taken from what the decoder will have, and
as a frame is built from such steps only (`LongerIsGood`), each fix in it is near what it
was made from, wherever in the frame it is. The decoder repeats the steps (`DecodedBy`,
`DecodedIsChain`). `DeltaInv` speaks of what the decoder makes of the frames on their way with an
existential over sequences, which TLC cannot enumerate: it checked it with the decoder's own
reading as the witness.

`FramesAreRead` adds the other eleven kinds. Each has a lemma that its reader, given what its writer makes of
any value in `Handed`, returns that value cut to its fields (`WittyRead`, `StatusMeant`,
`SlotTableMeant` and so on): two meanings packed into one byte come apart again, and the fields of items
that follow each other are found at their places whatever their number (`Flattened`, an induction over the sequences
laid one behind the other). `ReadIsUsable` is about fields that no writer wrote: whatever numbers they hold,
a set-mark frame, a schedule or a slot table is refused or has a mark, a mode and slots that exist. `KindInv`
says that a frame on its way has the fields that were written, or as many. TLC checked it on 9,000 states.
The theorem needs of the values sent only `FrameValuesAssumption`.

`FleetProofs`

| Theorem | States |
|---|---|
| `EachIsKept` | `MCFleet`'s `Spec` implies the specification of each of its fifteen components |
| `TypesHold` | `Spec => []TypeOK` |
| `FleetIsSafe` | `Spec` implies every other property of `fleet_day` but `SeenAsSailed` |

In a behaviour of `MCFleet` one component runs and the others stay as they start, so that it is a
behaviour of each of them (`StepOfEach`): what is proved of a component in the three modules
above holds of the whole. The three conditions the theorems have are
assumptions of `MCFleet` (`FleetSlots`, `FleetFlush`, `FleetWakes`), which TLC evaluates (as it
does `FleetSails`, the limits of `SeenAsSailed`, of which nothing is proved).

Induction. The library's induction theorems take an operator as a parameter and cannot be
used. A recursive *function* can be reasoned about all the same: that it
exists, and what it does, is an induction over a set of numbers
(`NatSetInduction`, `StepInduction` or `UpToInduction`, from the well-foundedness of the naturals). The models use such
functions where the code loops (`SendAll`, `DetectedAll`, `PowerOf2`, `Sending`, `Scanned`, and those in `EncodeDeltaFrames` and `DecodeDeltaBatch`), and the proofs have a lemma of existence for each.

Only model-checked:

- everything under fairness (`SilentOwnersFreed`, `FollowersConverge`,
  `SquattersLeave`, `OtherQueueDelivered`, `BeliefRecovers`): liveness is beyond
  the prover;
- `SeenAsSailed` of `SimBoat`. What it says holds within four limits, which it states: the
  ends of each line are equally far north (`LinesAreLevel`); no end is further north of another
  than the margin, and the gap between the lines is not a single column (`LinesAreClose`); a tick is
  shorter than the way from the lines to either end of the course (`TicksAreShort`); and no
  spot of the grid has its first beat lead through the gate (`GridIsClear`). Each is needed: TLC
  refutes the property with a tilted line; with a gate further than the margin north of the start
  line (the leg that clears the lines takes it for passed, and the boat runs down through it);
  with ticks that carry a boat over the mark it rounds; and from a grid spot in line with the
  gate. `simGps.js:1288` makes no such exception (known divergences). Inside the limits TLC found
  no counterexample on over two hundred courses, picked at random and run one by one outside
  the project's runs; `fleet_day` is one of them. It is not proved.

## Findings

Each is a run that TLC refutes, with the statement it refutes:

1. `net_practice`: `boatAgent.js:319` resets `parked` when practice mode is
   announced, but not the boat's `ZoneState`, which goes on saying that the boat
   is parked. After practice mode, its next fix parks the boat again wherever it is. The repository's README (line 924) says the new mode "starts clean".
2. `hook_torn`: `lapWebhookQueue.js:57` overwrites the queue file in place. A
   kill in the middle loses what was in it, although the file's header promises
   that a restart "never silently loses a lap".
3. `sleep_slotted`: with time slots on, wake frames leave only in the base's own
   slot, once per correction interval, while a sleeping rover listens for less
   than that: they may miss every window. `fleetSleep.js:13` says they "guarantee
   every rover in range gets several chances".
4. `sleep_early`: `fleetSleep.js:110` takes a frame that was in flight when the
   sleep command went out for the answer to a wake, and stops calling a rover
   that is still asleep; the grace period of line 21 guards only the belief.
5. `marks_switch`: `baseStation.js:1620` sets `raceMarks` to whatever its look-up found,
   without asking whether the regatta is still the one it looked up. Another regatta is
   selected while the first look-up waits for Redis; the second finds nothing published and
   ends; then the first sets the old regatta's marks, and the heartbeat publishes a
   zone computed from them under the new regatta. The comment at 1607 says that a regatta
   switch "can never leave the PREVIOUS regatta's course sitting there mislabeled as the
   new one's".

## Known divergences

Seen while modelling: the code does something else than its comments say, or than
one would expect, and no run is devoted to it. Where a module touches the place, it
does what the code does.

*Slots and radio*

- `slotTable.js:291`: a boat that waits for a slot and enters the start grid zone
  is deleted from `recent` but not from `overflow`, and `sweep` only removes boats
  it finds in `recent`. If the boat then falls silent, it is listed as waiting for
  ever, although the comment at 445 says that boats gone quiet leave the list.
  Only a dashboard reads the list.
- `slotTable.js:585`: with no join slots (`TX_SLOT_JOIN=0`) a boat that is no
  longer listed has nowhere to go and stays in a slot that may be another's,
  which the comment at 578 excludes. `SquattersLeave` fails with `JoinSlots = 0`.
- `baseStation.js:2028`: `slotZoneMarks` is compared by identity while marks are
  edited in place (1319, 1956), so the allocator's zone may be that of old marks.
- `fleetSleep.js:37`: a base that restarts forgets the longest cycle it had
  given out, so that its next wake may be too short for rovers on a longer one.
  `sleep_fleet` therefore has the configured cycle as the longest.
- `fleetSleep.js:60`: a sleep command for some rovers ends the wake under way for
  others, which then stay asleep. `FleetSleep` does the same; `WakeReachesAll` is about
  wakes that run their full time.
- `txScheduler.js:20` says that frames of no slot "shouldn't wait a whole cycle";
  they do behind a frame of a slot, since only the head of the queue is looked at.
  A frame written late in its slot may overrun it. A boat that is moved to another
  slot before each opening re-arms its flush timer every time and sends nothing
  (`moved` bounds this). After missed bursts the median may be one and a half
  cycles, which `InOwnSlot` excludes.
- `simRadioLink.js:10` decodes no set-mark and no mark-log frame, unlike
  `radioLink.js`.

*Reports and events*

- `eventBoost.js:7` promises that the fixes around an event go out at the full
  rate; a boat in a join slot or parked goes on at its own.
- With `holdWhileWaiting` a fix that is held is sent again at each opening of the
  slot. `frameLastFix` is set after the send, so that a frame that goes out at once
  is never credited to `lastSent` (`boatAgent.js:303`).
- `baseStation.js:1431`, `1319`: any edit of the course forgets the watchers of all
  boats, and with them their lap counts.
- `simGps.js:1288` says that no bad crossing is ever emitted, for every course and every
  rate. It is so within the limits of `SeenAsSailed` only: `SIM_GPS_HZ` and the marks are set
  freely, and with slow ticks, tilted lines or lines one behind the other the base sees laps or
  fouls that nobody sails.
- `simGps.js:1280`: once a leg that clears the lines is running the crossing check
  is off, so a simulated boat may be emitted inside the strip the comment excludes.
  A `SIM_FOUL` boat comes back up through the finish gate, so that the base counts
  laps the boat does not.
- `fleetSim.js:411`: Ctrl+C during the fetch of the course stops nothing. A boat that
  is released before it reaches the grid never says that it is there, and one that
  has gone is never forgotten, so that `boatsWaitingForFix` never empties (239).

*Course and Redis*

- `baseStation.js:1209` sets `selectedRegatta` to null when a regatta ends and leaves
  `raceMarks`; the next heartbeat then throws at 867, although the comment at 860
  says that a regatta is always selected. `CourseMarks` stops the base there.
- The pin boundary flag is never looked up again after a regatta is selected, and
  `setPinBoundaryEnabled` is not counted as an edit.
- `pendingFrames` has no limit, and frames held for one course may be judged by
  another.
- `redisStore.js`: the movement gate is kept by boat and not by regatta; flushes
  that overlap may move `boats:last` backwards; `clearBoatData` leaves the gate.

*Power, logs, GPS*

- `wittySchedule.js:140`: a power cut between the schedule file and
  `witty-applied.json` leaves settings in force that are recorded as not applied;
  the base's next repeat applies them again. A failed save of
  `powerScheduleStore.js` leaves the change in memory. A shutdown command that fails
  leaves `triggered` set for ever. Settings edited on a rover's page stay until the
  base's settings change.
- `uploadServer.js:236`: a connection that closes late removes the `.part` file of a
  newer upload. The file is stored under the regatta selected at that moment (164),
  lines appended late reach the base only if they come before the upload, and
  pruning may remove a file that was never sent. `uploadClient.js:100` and `167`
  open the file with no handler for errors: a file removed meanwhile stops the agent.
- `gpsSleep.js:137`: a fix that was sent while the receiver goes down ends the
  retries of the wake (`fooled` in `RoverLink`). `boatAgent.js:1317`: opening the port
  wakes a receiver that is meant to sleep. With the port closed the sleep command is
  not sent later.
- `baseGps.js:127`: the poll timer of a port that fails to open is never cleared.
  The survey kept from before a port was lost or the receiver moved may be used by
  the next fixed position (263).
- `linkHealth.js:8` and the repository's README (1047) say that a gap is a lost frame or more. A
  boat that stops or pauses within `TX_DISTANCE_M` of its last report sends nothing until its
  heartbeat (`boatAgent.js:712`, `distanceGate.js:25`): with no frame lost it is bad
  after 10 s, and its next fix counts as a gap. `NoFalseAlarm` names a stop among the
  reasons of a gap. Missed bursts count as gaps too; each lap counts as a finish, which silences the card for three minutes; a
  boat that finishes, sails on and is switched off turns bad when `FINISH_QUIET_MS`
  runs out; and "recovered" may be said of a boat that only left the list.

*Webhooks*

- `baseStation.js:3100`: a row is posted under the regatta selected when it is sent,
  not when the event happened.
- `lapWebhookQueue.js:93`: the oldest row that is due always comes first, so rows a
  backend refuses for ever starve newer rows of the same queue. Only other queues
  are protected, which is what `OtherQueueDelivered` says.
- `baseStation.js:2111`: events that wait for a queue to open are only in memory.

## Not modelled

- *Failing disks* of the webhook queues: a `save` that throws. After a failed save
  of an insert the event is announced and stored twice.
- *Floating-point geometry*: distances and bearings on the earth. `RaceEvents` and
  `SimBoat` do theirs in integers, elsewhere it is an input.
- *Bits of the wire*: the XBee command mode and its datagrams, NMEA, the satellites
  of UBX. Fields, checksums and framing are modelled.
- *Coalescing and supersede in the base's scheduler* beyond `SlotNetwork`, the random
  choice among several join slots, `rtcmWatchdog.js`, and `SLOT_PENDING_CAP`
  (`boatAgent.js:631`), which no bound of the model reaches.
- *The leeward marks and finish approach*: the windward mark's watcher is the same
  code.
- *Set-mark and mark-log answers* of the rover page, `resetRegatta.js`,
  `markStation.js`, `clearBoatLogs.js` and its siblings, wind writes, the read side
  of Redis for the pages.
- *Splitting of a sleep command over several frames*, and payloads of webhooks.
- *The level for radio checksum errors* in `linkHealth.js`.
- *RTK reference stations*: a separate service that forwards corrections and parsers
  with no state.
- *Dashboards, statistics, configuration files, radio test programs, set-up scripts,
  hardware*: they show state or start the programs.
- *The ESP32 firmware*: a second implementation of the boat in C++, whose
  slot follower and sleep mode follow the JavaScript ones.

## Plan

Done: the modules above. Left, in order of importance to a race:

1. **Composition** of `BoatReports` with `TxQueue` (the frame that waits is then the
   scheduler's) and of `TxQueue` with `SlotNetwork` (the slot is then the follower's).
2. **Proof** of `SeenAsSailed` of `SimBoat` within its four limits.
3. **`WebhookQueue`** extended by failing saves and the regatta id read when a
   row is sent; `DeliveryLog`, its abstract specification (each event recorded,
   then accepted at least once), and the refinement.
4. **The firmware's** slot follower against `SlotNetwork`, and its sleep mode against
   `FleetSleep`.
