------------------------------- MODULE PowerPlan -------------------------------
(***************************************************************************)
(* When a boat has power: the Witty Pi schedule and the shutdown time that *)
(* the base sends to the fleet (src/src/powerScheduleStore.js), what a     *)
(* boat makes of them (wittySchedule.js and fleetShutdown.js), and the     *)
(* scheduler that shuts the boat down (powerSchedule.js).                  *)
(*                                                                         *)
(* The base repeats one frame with both parts for ever; a boat applies a   *)
(* part when it differs from what it recorded as applied. Files are        *)
(* written one after the other, and the power can go between two of them.  *)
(* One boat is modelled: the frame is a broadcast and no boat answers it.  *)
(***************************************************************************)
EXTENDS Integers

CONSTANTS
  Day,       \* ticks of the scheduler in a day
  CutTimes,  \* shutdown times, in ticks of the day
  IdleFor,   \* shutdownIdleMinutes, in ticks
  SunRuns,   \* renewals a sunrise-to-sunset schedule is worth before it ends, see RunsOut
  MaxChanges \* bound: changes by operators, and failures, in a behaviour

PowerAssumption == Day \in Nat \ {0} /\ CutTimes \subseteq 1 .. Day - 1 /\ {IdleFor, SunRuns} \subseteq Nat
ASSUME PowerAssumption

VARIABLES
  plan, planSaved,   \* the base's Witty Pi schedule, in memory and on disk
  cut, cutSaved,     \* its shutdown, in memory and on disk
  boatUp,
  cutDone,           \* fleet-shutdown-applied.json
  cutLive,           \* the scheduler's shutdownAt (0: none) and shutdownRequireIdle
  cutKept,           \* power-schedule.txt
  idleSince,         \* ticks since the boat was first seen idle, or Never
  shutting,          \* the scheduler's triggered
  planDone,          \* witty-applied.json
  planFile,          \* schedule.wpi
  applyingPlan,      \* the schedule whose script is running, or NoPlan
  hour,              \* the clock
  sleepMode,         \* the radio sleep mode: the scheduler is suspended
  changes,           \* bound: see MaxChanges
  calm,              \* history: checks in a row that saw the boat awake and not moving
  cutTorn, planTorn  \* history: the record was not written after what it records, or the boat's own page changed it

powerVars == <<plan, planSaved, cut, cutSaved, boatUp, cutDone, cutLive, cutKept, idleSince,
               shutting, planDone, planFile, applyingPlan, hour, sleepMode, changes, calm,
               cutTorn, planTorn>>
baseParts == <<plan, planSaved, cut, cutSaved>>
cutParts  == <<cutDone, cutLive, cutKept, idleSince, shutting, cutTorn>>
planParts == <<planDone, planFile, applyingPlan, planTorn>>

NoPlan  == "no plan"
Off     == "off"
Modes   == {"daily", "sun"}
NotIdle == -1

NoCut == [time |-> 0, idle |-> TRUE, on |-> FALSE]      \* never set by the base
CutSettings == [time : CutTimes, idle : BOOLEAN, on : BOOLEAN]
Unset == [ok |-> FALSE, cut |-> NoCut]                  \* no record
Plain == [ok |-> FALSE, plan |-> NoPlan, left |-> 0]

PowerInit ==
  /\ plan = [mode |-> NoPlan, on |-> FALSE] /\ planSaved = plan
  /\ cut = NoCut /\ cutSaved = NoCut
  /\ boatUp = TRUE
  /\ cutDone = Unset
  /\ cutLive = [at |-> 0, idle |-> TRUE] /\ cutKept = cutLive
  /\ idleSince = NotIdle
  /\ shutting = FALSE
  /\ planDone = Plain
  /\ planFile = Off
  /\ applyingPlan = NoPlan
  /\ hour = 0
  /\ sleepMode = FALSE
  /\ changes = 0
  /\ calm = 0
  /\ cutTorn = FALSE /\ planTorn = FALSE

Change == changes < MaxChanges /\ changes' = changes + 1

-----------------------------------------------------------------------------
(* A boat that hears the frame.                                             *)

Params(c) == [at |-> IF c.on THEN c.time ELSE 0, idle |-> c.idle]

\* needsApply of fleetShutdown.js
CutDiffers(c) ==
  \/ ~cutDone.ok
  \/ cutDone.cut.on # c.on
  \/ c.on /\ (cutDone.cut.time # c.time \/ cutDone.cut.idle # c.idle)

\* handleFrame: the scheduler takes the parameters, keeps them on disk, and the boat records
\* that; a scheduler that has already triggered refuses them. kept and noted: whether the
\* two files are written.
HearCut(c, kept, noted) ==
  IF c = NoCut \/ ~CutDiffers(c) THEN UNCHANGED cutParts
  ELSE /\ IF shutting THEN UNCHANGED <<cutLive, cutKept, idleSince>>
          ELSE /\ cutLive' = Params(c)
               /\ cutKept' = IF kept THEN Params(c) ELSE cutKept
               /\ idleSince' = NotIdle
       /\ cutDone' = IF noted THEN [ok |-> ~shutting, cut |-> c] ELSE cutDone
       /\ cutTorn' = (~noted \/ (~kept /\ ~shutting) \/ (shutting /\ cutTorn))
       /\ UNCHANGED shutting

\* needsApply of wittySchedule.js: the schedule differs, or its file is gone, or it ends soon.
PlanDiffers(p) ==
  \/ ~planDone.ok
  \/ planDone.plan # p
  \/ p # Off /\ planFile = Off
  \/ p = "sun" /\ planDone.left = 0

\* handleScheduleFrame up to its await: the file is written, or removed, and the script started.
HearPlan(p) ==
  IF p = NoPlan \/ applyingPlan # NoPlan \/ ~PlanDiffers(p) THEN UNCHANGED planParts
  ELSE /\ planFile' = p
       /\ applyingPlan' = p
       /\ planTorn' = TRUE
       /\ UNCHANGED planDone

\* sendNow; what a disabled schedule is sent as.
SendPower ==
  /\ boatUp
  /\ cut # NoCut \/ plan.mode # NoPlan
  /\ HearPlan(IF plan.mode = NoPlan THEN NoPlan ELSE IF plan.on THEN plan.mode ELSE Off)
  /\ \/ HearCut(cut, TRUE, TRUE) /\ UNCHANGED changes
     \/ \E kept, noted \in BOOLEAN : ~(kept /\ noted) /\ HearCut(cut, kept, noted) /\ Change
  /\ UNCHANGED <<baseParts, boatUp, hour, sleepMode, calm>>

\* The script has run; the record is written, whether it loaded the schedule or not.
PlanApplied(ok, noted) ==
  /\ boatUp /\ applyingPlan # NoPlan
  /\ ok /\ noted => UNCHANGED changes
  /\ ~(ok /\ noted) => Change
  /\ applyingPlan' = NoPlan
  /\ planDone' = IF noted
                 THEN [ok |-> ok \/ applyingPlan = Off, plan |-> applyingPlan,
                       left |-> IF applyingPlan = "sun" THEN SunRuns ELSE 0]
                 ELSE planDone
  /\ planTorn' = ~noted
  /\ UNCHANGED <<baseParts, cutParts, boatUp, planFile, hour, sleepMode, calm>>

\* A sunrise-to-sunset schedule, which is written for so many days, comes nearer to its end.
RunsOut ==
  /\ planDone.left > 0
  /\ planDone' = [planDone EXCEPT !.left = @ - 1]
  /\ UNCHANGED <<baseParts, cutParts, planFile, applyingPlan, planTorn, boatUp, hour, sleepMode,
                 changes, calm>>

-----------------------------------------------------------------------------
(* The base's admin page. A change is in memory before it is saved, and is  *)
(* sent once it is saved, or with the next repeat when saving failed.       *)

SetWitty(m, on, saved) ==
  /\ Change
  /\ m \in Modes \/ (m = plan.mode /\ m # NoPlan)
  /\ plan' = [mode |-> m, on |-> on]
  /\ plan' # plan
  /\ planSaved' = IF saved THEN plan' ELSE planSaved
  /\ UNCHANGED <<cut, cutSaved, cutParts, planParts, boatUp, hour, sleepMode, calm>>

SetShutdown(c, saved) ==
  /\ Change
  /\ c # cut
  /\ ~c.on => cut # NoCut /\ c = [cut EXCEPT !.on = FALSE]
  /\ cut' = c
  /\ cutSaved' = IF saved THEN c ELSE cutSaved
  /\ UNCHANGED <<plan, planSaved, cutParts, planParts, boatUp, hour, sleepMode, calm>>

BaseRestarts ==
  /\ plan # planSaved \/ cut # cutSaved
  /\ plan' = planSaved
  /\ cut' = cutSaved
  /\ UNCHANGED <<planSaved, cutSaved, cutParts, planParts, boatUp, hour, sleepMode, changes, calm>>

-----------------------------------------------------------------------------
(* The boat's own scheduler.                                                *)

\* updateParams from the boat's own page, which the base does not hear of.
SetOwnShutdown(at) ==
  /\ boatUp /\ ~shutting /\ Change
  /\ cutLive' = [cutLive EXCEPT !.at = at]
  /\ cutKept' = cutLive'
  /\ idleSince' = NotIdle
  /\ cutTorn' = TRUE
  /\ UNCHANGED <<baseParts, planParts, cutDone, shutting, boatUp, hour, sleepMode, calm>>

\* evaluateGate: moving is what a fresh fix shows; a boat without one counts as idle.
Evaluated(now, moving) ==
  IF now < cutLive.at \/ (cutLive.idle /\ moving) THEN [since |-> NotIdle, down |-> FALSE]
  ELSE IF ~cutLive.idle THEN [since |-> NotIdle, down |-> TRUE]
  ELSE [since |-> IF idleSince = NotIdle THEN 0 ELSE idleSince + 1,
        down  |-> (IF idleSince = NotIdle THEN 0 ELSE idleSince + 1) >= IdleFor]

\* Mutant of Check: a sleeping boat's silence is not told from a boat that stopped.
CheckAsleep(now, moving) ==
  IF shutting \/ cutLive.at = 0 THEN UNCHANGED <<idleSince, shutting>>
  ELSE /\ idleSince' = IF Evaluated(now, moving).down THEN 0 ELSE Evaluated(now, moving).since
       /\ shutting' = Evaluated(now, moving).down

\* tick of startShutdownScheduler
Check(now, moving) ==
  IF shutting \/ cutLive.at = 0 THEN UNCHANGED <<idleSince, shutting>>
  ELSE IF sleepMode THEN idleSince' = NotIdle /\ UNCHANGED shutting
  ELSE LET e == Evaluated(now, moving) IN
       /\ idleSince' = IF e.down THEN 0 ELSE e.since
       /\ shutting' = e.down

PowerTick(moving) ==
  /\ sleepMode => ~moving  \* its GPS is silent
  /\ hour' = (hour + 1) % Day
  /\ IF boatUp THEN Check(hour', moving) ELSE UNCHANGED <<idleSince, shutting>>
  /\ calm' = IF ~boatUp \/ moving \/ sleepMode THEN 0 ELSE IF calm > IdleFor THEN calm ELSE calm + 1
  /\ UNCHANGED <<baseParts, planParts, boatUp, cutDone, cutLive, cutKept, cutTorn, sleepMode, changes>>

SleepOrWake ==
  /\ boatUp
  /\ sleepMode' = ~sleepMode
  /\ UNCHANGED <<baseParts, cutParts, planParts, boatUp, hour, changes, calm>>

\* The shutdown command works, or the power goes; what is not in a file is gone, and a script
\* under way is cut off.
PowersDown ==
  /\ boatUp
  /\ IF shutting THEN UNCHANGED changes ELSE Change
  /\ boatUp' = FALSE
  /\ applyingPlan' = NoPlan
  /\ idleSince' = NotIdle
  /\ shutting' = FALSE
  /\ calm' = 0
  /\ sleepMode' = FALSE
  /\ UNCHANGED <<baseParts, cutDone, cutLive, cutKept, cutTorn, planDone, planFile, planTorn, hour>>

\* The Witty Pi, or somebody, powers it up again.
PowersUp ==
  /\ ~boatUp
  /\ boatUp' = TRUE
  /\ cutLive' = cutKept
  /\ UNCHANGED <<baseParts, cutDone, cutKept, idleSince, shutting, cutTorn, planParts, hour,
                 sleepMode, changes, calm>>

PowerNext ==
  \/ SendPower
  \/ \E ok, noted \in BOOLEAN : PlanApplied(ok, noted)
  \/ RunsOut
  \/ \E m \in Modes, on, saved \in BOOLEAN : SetWitty(m, on, saved)
  \/ \E c \in CutSettings, saved \in BOOLEAN : SetShutdown(c, saved)
  \/ BaseRestarts
  \/ \E at \in CutTimes \cup {0} : SetOwnShutdown(at)
  \/ \E moving \in BOOLEAN : PowerTick(moving)
  \/ SleepOrWake
  \/ PowersDown \/ PowersUp

PowerSpec == PowerInit /\ [][PowerNext]_powerVars

-----------------------------------------------------------------------------
PowerTypeOK ==
  /\ {plan.mode, planSaved.mode} \subseteq Modes \cup {NoPlan}
  /\ {cut, cutSaved, cutDone.cut} \subseteq CutSettings \cup {NoCut}
  /\ {cutLive.at, cutKept.at} \subseteq CutTimes \cup {0}
  /\ idleSince \in NotIdle .. IdleFor
  /\ {boatUp, shutting, sleepMode, cutTorn, planTorn, cutDone.ok, planDone.ok} \subseteq BOOLEAN
  /\ {planDone.plan, applyingPlan} \subseteq Modes \cup {Off, NoPlan}
  /\ planFile \in Modes \cup {Off}
  /\ hour \in 0 .. Day - 1

\* What a boat recorded as applied is what it does, now and after its next start: the base's
\* repeats, which the record is compared with, can correct whatever else went wrong, as long
\* as every record was written after what it records.
RecordTold ==
  /\ cutDone.ok /\ ~cutTorn =>
       /\ boatUp => cutLive.at = Params(cutDone.cut).at
       /\ cutKept.at = Params(cutDone.cut).at
  /\ planDone.ok /\ ~planTorn => planFile = planDone.plan

\* And a boat that shuts down only once it has stopped has been awake and not seen moving for the
\* whole of that time, whatever schedules came in, and however often it slept or started.
SchedulesKept ==
  [][/\ RecordTold'
     /\ ~shutting /\ shutting' => /\ hour' >= cutLive.at
                                  /\ cutLive.idle => calm' > IdleFor]_powerVars

=============================================================================
