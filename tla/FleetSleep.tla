------------------------------- MODULE FleetSleep -------------------------------
(***************************************************************************)
(* Radio sleep mode: the base (class FleetSleep of src/src/fleetSleep.js)  *)
(* puts rovers to sleep and wakes them over the radio, and a rover (class  *)
(* RoverSleep of src/src/roverSleep.js) that sleeps switches its radio on  *)
(* for one listen window per cycle, on a timer of its own.                 *)
(*                                                                         *)
(* Time is discrete. One Tick is the time between two repeats of a command *)
(* (WAKE_REPEAT_MS); a timer that is due fires before the next Tick, in    *)
(* any order with whatever else happens then. The radio loses frames as it *)
(* likes. Without slot mode the base's frames go out at once; in slot mode *)
(* they wait for the base's own slot, once every SlotPeriod ticks          *)
(* (src/src/txScheduler.js).                                               *)
(***************************************************************************)
EXTENDS Integers, Sequences

CONSTANTS
  Rovers,        \* the rovers of the fleet
  Cycles,        \* the cycles a sleep command may name
  DefaultCycle,  \* the cycle the base is configured with (SLEEP_CYCLE_S)
  Listen,        \* how long a sleeping rover's radio is on in a cycle
  Margin,        \* how much longer than a cycle and a window a wake lasts
  SleepRepeats,  \* how often the frame of a sleep command is sent
  Grace,         \* a frame heard this soon after a sleep command is an old one
  Transit,       \* the longest a rover's frame takes to be heard
  SlotPeriod,    \* 1: the base's frames go out at once; or the time between its slots
  MaxQueue,      \* frames that wait for the base's slot; the oldest is dropped beyond
  MaxCommands,   \* bound: sleep and wake commands
  MaxRestarts    \* bound: restarts of the base and of rovers

ASSUME FleetSleepAssumption ==
  /\ DefaultCycle \in Nat \ {0}
  /\ Cycles \subseteq Nat \ {0}
  /\ Listen \in Nat \ {0}
  /\ Margin \in Nat
  /\ SleepRepeats \in Nat \ {0}
  /\ Grace \in Nat
  /\ Transit \in Nat
  /\ SlotPeriod \in Nat \ {0}
  /\ MaxQueue \in Nat \ {0}
  /\ MaxCommands \in Nat
  /\ MaxRestarts \in Nat

VARIABLES
  \* the base
  believed,  \* believed[b]: how long ago b was told to sleep, or NotAsleep (sleeping)
  known,     \* the rovers heard since the base started
  maxCycle,  \* the longest cycle any rover may be on, as far as the base knows
  job,       \* the wake under way, or NoJob (wakeJob)
  repeats,   \* the repeats of sleep commands to come (sleepTimers)
  phase,     \* time since the base's slot last opened
  queue,     \* the frames waiting to go out
  \* rover b
  state,     \* state[b]: "awake", "asleep" or "listening"
  cycle,     \* cycle[b]: the cycle b sleeps in
  timer,     \* timer[b]: time left to b's next window, or of it
  sending,   \* sending[b]: age of the frame of b that is on its way, or NoFrame
  \* what has happened
  told,      \* told[b]: what the last command naming b was
  chances,   \* chances[b]: wake frames b could have heard in this wake (2: or more)
  commands,  \* how many commands were given
  restarts   \* how often something was restarted

baseVars == <<believed, known, maxCycle, job, repeats, queue>>
roverVars == <<state, cycle, timer>>
seenVars == <<told, chances, commands, restarts>>
vars     == <<baseVars, phase, roverVars, sending, seenVars>>

NotAsleep == -1
NoFrame   == -1
NoJob     == [ids |-> {}, left |-> 0, due |-> 0, heard |-> {}, running |-> FALSE]

\* A command names some rovers, or every one by naming none.
Names(ids, b) == ids = {} \/ b \in ids

SleepFrame(ids, c) == [action |-> "sleep", ids |-> ids, cycle |-> c]
WakeFrame(ids)     == [action |-> "wake", ids |-> ids, cycle |-> 0]
FrameSet == [action : {"sleep", "wake"}, ids : SUBSET Rovers, cycle : Cycles \cup {0}]

\* submit: a frame joins those that wait, of which the oldest goes when there are too many.
Submit(f) == queue' = Append(IF Len(queue) < MaxQueue THEN queue ELSE Tail(queue), f)

Init ==
  /\ believed = [b \in Rovers |-> NotAsleep]
  /\ known = {}
  /\ maxCycle = DefaultCycle
  /\ job = NoJob
  /\ repeats = {}
  /\ phase \in 0 .. SlotPeriod - 1
  /\ queue = <<>>
  /\ state = [b \in Rovers |-> "awake"]
  /\ cycle = [b \in Rovers |-> DefaultCycle]
  /\ timer = [b \in Rovers |-> 0]
  /\ sending = [b \in Rovers |-> NoFrame]
  /\ told = [b \in Rovers |-> "none"]
  /\ chances = [b \in Rovers |-> 0]
  /\ commands = 0
  /\ restarts = 0

-------------------------------------------------------------------------------
(* The base.                                                               *)

Commanded(ids, what) ==
  /\ commands < MaxCommands
  /\ commands' = commands + 1
  /\ told' = [b \in Rovers |-> IF Names(ids, b) THEN what ELSE told[b]]

\* Mutant of Sleep: the last cycle counts, not the longest.
SleepLastCycle(ids, c) ==
  LET targets == IF ids = {} THEN known ELSE ids
  IN  /\ Commanded(ids, "sleep")
      /\ job' = NoJob
      /\ repeats' = repeats \cup {[ids |-> ids, cycle |-> c, due |-> n] : n \in 0 .. SleepRepeats - 1}
      /\ believed' = [b \in Rovers |-> IF b \in targets THEN 0 ELSE believed[b]]
      /\ maxCycle' = c
      /\ UNCHANGED <<known, queue, phase, roverVars, sending, chances, restarts>>

\* sleep: a wake under way ends, and the frame is sent a few times.
Sleep(ids, c) ==
  LET targets == IF ids = {} THEN known ELSE ids
  IN  /\ Commanded(ids, "sleep")
      /\ job' = NoJob
      /\ repeats' = repeats \cup {[ids |-> ids, cycle |-> c, due |-> n] : n \in 0 .. SleepRepeats - 1}
      /\ believed' = [b \in Rovers |-> IF b \in targets THEN 0 ELSE believed[b]]
      /\ maxCycle' = IF c > maxCycle THEN c ELSE maxCycle
      /\ UNCHANGED <<known, queue, phase, roverVars, sending, chances, restarts>>

SleepRepeat(r) ==
  /\ r.due = 0
  /\ repeats' = repeats \ {r}
  /\ Submit(SleepFrame(r.ids, r.cycle))
  /\ UNCHANGED <<believed, known, maxCycle, job, phase, roverVars, sending, seenVars>>

\* Mutant of Wake: the repeats of sleep commands go on.
WakeKeepsRepeats(ids) ==
  /\ Commanded(ids, "wake")
  /\ job' = [ids |-> ids, left |-> maxCycle + Listen + Margin, due |-> 1, heard |-> {}, running |-> TRUE]
  /\ Submit(WakeFrame(ids))
  /\ chances' = [b \in Rovers |-> 0]
  /\ UNCHANGED <<repeats, believed, known, maxCycle, phase, roverVars, sending, restarts>>

\* wake: what is left of sleep commands is dropped, and the frame is sent at once ...
Wake(ids) ==
  /\ Commanded(ids, "wake")
  /\ job' = [ids |-> ids, left |-> maxCycle + Listen + Margin, due |-> 1, heard |-> {}, running |-> TRUE]
  /\ repeats' = {}
  /\ Submit(WakeFrame(ids))
  /\ chances' = [b \in Rovers |-> 0]
  /\ UNCHANGED <<believed, known, maxCycle, phase, roverVars, sending, restarts>>

\* ... and again and again until the time is up.
WakeAgain ==
  /\ job.running
  /\ job.due = 0
  /\ job.left > 0
  /\ job' = [job EXCEPT !.due = 1]
  /\ Submit(WakeFrame(job.ids))
  /\ UNCHANGED <<believed, known, maxCycle, repeats, phase, roverVars, sending, seenVars>>

WakeTimesOut ==
  /\ job.running
  /\ job.due = 0
  /\ job.left = 0
  /\ job' = NoJob
  /\ UNCHANGED <<believed, known, maxCycle, repeats, queue, phase, roverVars, sending, seenVars>>

\* Mutant of Heard: only a frame that may be an old one clears the belief.
HeardInGrace(b) ==
  /\ sending[b] # NoFrame
  /\ sending' = [sending EXCEPT ![b] = NoFrame]
  /\ known' = known \cup {b}
  /\ believed' = [believed EXCEPT ![b] = IF @ <= Grace THEN NotAsleep ELSE @]
  /\ job' = IF job.running /\ job.ids # {} /\ job.ids \subseteq job.heard \cup {b} THEN NoJob ELSE job
  /\ UNCHANGED <<maxCycle, repeats, queue, phase, roverVars, seenVars>>

\* noteHeard: a frame of b arrives. A wake naming rovers ends when it has heard them all.
Heard(b) ==
  LET heard == job.heard \cup {b}
  IN  /\ sending[b] # NoFrame
      /\ sending' = [sending EXCEPT ![b] = NoFrame]
      /\ known' = known \cup {b}
      /\ believed' = [believed EXCEPT ![b] = IF @ > Grace THEN NotAsleep ELSE @]
      /\ job' = IF ~job.running \/ job.ids = {} THEN job
                ELSE IF job.ids \subseteq heard THEN NoJob
                ELSE [job EXCEPT !.heard = heard]
      /\ UNCHANGED <<maxCycle, repeats, queue, phase, roverVars, seenVars>>

BaseRestarts ==
  /\ restarts < MaxRestarts
  /\ restarts' = restarts + 1
  /\ believed' = [b \in Rovers |-> NotAsleep]
  /\ known' = {}
  /\ maxCycle' = DefaultCycle
  /\ job' = NoJob
  /\ repeats' = {}
  /\ queue' = <<>>
  /\ UNCHANGED <<phase, roverVars, sending, told, chances, commands>>

-------------------------------------------------------------------------------
(* The rovers.                                                             *)

\* Mutant of Transmit: a wake does not stop the radio's timer.
TransmitTimerRuns(S) ==
  LET f == Head(queue)
      named == {b \in S : Names(f.ids, b)}
  IN  /\ phase = 0
      /\ queue # <<>>
      /\ \A b \in S : state[b] # "asleep"
      /\ queue' = Tail(queue)
      /\ state' = [b \in Rovers |-> IF b \notin named THEN state[b]
                                   ELSE IF f.action = "sleep" THEN "asleep" ELSE "awake"]
      /\ timer' = [b \in Rovers |-> IF b \in named /\ f.action = "sleep" THEN f.cycle ELSE timer[b]]
      /\ cycle' = [b \in Rovers |-> IF b \in named /\ f.action = "sleep" THEN f.cycle ELSE cycle[b]]
      /\ UNCHANGED <<believed, known, maxCycle, job, repeats, phase, sending, seenVars>>

\* handlePower on every rover of S: a frame goes out, and they hear it.
Transmit(S) ==
  LET f       == Head(queue)
      sleeps  == {b \in S : Names(f.ids, b) /\ f.action = "sleep"}
      wakes   == {b \in S : Names(f.ids, b) /\ f.action = "wake"}
      reached == {b \in Rovers : state[b] # "asleep" /\ Names(f.ids, b) /\ f.action = "wake"}
  IN  /\ phase = 0
      /\ queue # <<>>
      /\ \A b \in S : state[b] # "asleep"
      /\ queue' = Tail(queue)
      /\ state' = [b \in Rovers |-> IF b \in sleeps THEN "asleep" ELSE IF b \in wakes THEN "awake" ELSE state[b]]
      /\ cycle' = [b \in Rovers |-> IF b \in sleeps THEN f.cycle ELSE cycle[b]]
      /\ timer' = [b \in Rovers |-> IF b \in sleeps THEN f.cycle ELSE IF b \in wakes THEN 0 ELSE timer[b]]
      /\ chances' = [b \in Rovers |-> IF b \in reached /\ chances[b] < 2 THEN chances[b] + 1 ELSE chances[b]]
      /\ UNCHANGED <<believed, known, maxCycle, job, repeats, phase, sending, told, commands, restarts>>

\* _enterListening, and _enterAsleep when the window is over.
RadioTimer(b) ==
  /\ state[b] # "awake"
  /\ timer[b] = 0
  /\ state' = [state EXCEPT ![b] = IF @ = "asleep" THEN "listening" ELSE "asleep"]
  /\ timer' = [timer EXCEPT ![b] = IF state[b] = "asleep" THEN Listen ELSE cycle[b]]
  /\ UNCHANGED <<baseVars, phase, cycle, sending, seenVars>>

\* A position or a hello, and its loss.
Report(b) ==
  /\ state[b] = "awake"
  /\ sending[b] = NoFrame
  /\ sending' = [sending EXCEPT ![b] = 0]
  /\ UNCHANGED <<baseVars, phase, roverVars, seenVars>>

Lost(b) ==
  /\ sending[b] # NoFrame
  /\ sending' = [sending EXCEPT ![b] = NoFrame]
  /\ UNCHANGED <<baseVars, phase, roverVars, seenVars>>

RoverRestarts(b) ==
  /\ restarts < MaxRestarts
  /\ restarts' = restarts + 1
  /\ state' = [state EXCEPT ![b] = "awake"]
  /\ cycle' = [cycle EXCEPT ![b] = DefaultCycle]
  /\ timer' = [timer EXCEPT ![b] = 0]
  /\ UNCHANGED <<baseVars, phase, sending, told, chances, commands>>

-------------------------------------------------------------------------------
Due ==
  \/ job.running /\ job.due = 0
  \/ \E r \in repeats : r.due = 0
  \/ \E b \in Rovers : state[b] # "awake" /\ timer[b] = 0
  \/ phase = 0 /\ queue # <<>>

Tick ==
  /\ ~Due
  /\ \A b \in Rovers : sending[b] < Transit
  /\ phase' = (phase + 1) % SlotPeriod
  /\ job' = IF job.running THEN [job EXCEPT !.left = @ - 1, !.due = @ - 1] ELSE job
  /\ repeats' = {[r EXCEPT !.due = @ - 1] : r \in repeats}
  /\ believed' = [b \in Rovers |-> IF believed[b] \in 0 .. Grace THEN believed[b] + 1 ELSE believed[b]]
  /\ timer' = [b \in Rovers |-> IF state[b] # "awake" THEN timer[b] - 1 ELSE timer[b]]
  /\ sending' = [b \in Rovers |-> IF sending[b] # NoFrame THEN sending[b] + 1 ELSE NoFrame]
  /\ UNCHANGED <<known, maxCycle, queue, state, cycle, seenVars>>

\* Without slot mode nothing happens before a frame handed to the radio is out.
Held == SlotPeriod > 1 \/ queue = <<>>

Next ==
  \/ \E S \in SUBSET Rovers : Transmit(S)
  \/ /\ Held
     /\ \/ \E ids \in SUBSET Rovers : Wake(ids) \/ \E c \in Cycles : Sleep(ids, c)
        \/ \E r \in repeats : SleepRepeat(r)
        \/ WakeAgain
        \/ WakeTimesOut
        \/ BaseRestarts
        \/ \E b \in Rovers : Heard(b) \/ Lost(b) \/ Report(b) \/ RadioTimer(b) \/ RoverRestarts(b)
        \/ Tick

Spec == Init /\ [][Next]_vars

(* Time goes on, timers fire and frames go out; a rover that is awake      *)
(* reports again and again (its position, or a hello at least every 5      *)
(* minutes), and not every frame of it is lost.                            *)
Fairness ==
  /\ SF_vars(Tick)
  /\ WF_vars(\E S \in SUBSET Rovers : Transmit(S))
  /\ WF_vars(WakeAgain \/ WakeTimesOut \/ \E r \in repeats : SleepRepeat(r))
  /\ \A b \in Rovers : WF_vars(RadioTimer(b)) /\ WF_vars(Report(b)) /\ SF_vars(Heard(b))

FairSpec == Spec /\ Fairness

-------------------------------------------------------------------------------
(* Properties.                                                             *)

\* Every variable has its type, and no timer of an awake rover runs.
TypeOK ==
  /\ believed \in [Rovers -> NotAsleep .. Grace + 1]
  /\ known \in SUBSET Rovers
  /\ maxCycle \in Cycles \cup {DefaultCycle}
  /\ job \in [ids : SUBSET Rovers, left : 0 .. maxCycle + Listen + Margin, due : 0 .. 1,
              heard : SUBSET Rovers, running : BOOLEAN]
  /\ repeats \in SUBSET [ids : SUBSET Rovers, cycle : Cycles, due : 0 .. SleepRepeats - 1]
  /\ phase \in 0 .. SlotPeriod - 1
  /\ queue \in Seq(FrameSet) /\ Len(queue) <= MaxQueue
  /\ state \in [Rovers -> {"awake", "asleep", "listening"}]
  /\ cycle \in [Rovers -> Cycles \cup {DefaultCycle}]
  /\ timer \in [Rovers -> Nat]
  /\ \A b \in Rovers : state[b] = "awake" => timer[b] = 0
  /\ sending \in [Rovers -> NoFrame .. Transit]

\* fleetSleep.js:13 Repeating the wake frame for a cycle and a listen window
\* "guarantees every rover in range gets several chances inside one of its
\* listen windows": a wake that runs its full time leaves no rover it names
\* asleep that could not have heard it at least twice.
WakeReachesAll ==
  [][WakeTimesOut => \A b \in Rovers : Names(job.ids, b) => state[b] = "awake" \/ chances[b] >= 2]_vars

\* A rover falls asleep only if the last command that names it was to sleep: no
\* repeat of a sleep command outlives a wake (wake clears sleepTimers).
WokenStaysAwake ==
  [][\A b \in Rovers : state[b] = "awake" /\ state'[b] = "asleep" => told[b] = "sleep"]_vars

\* fleetSleep.js:15 "A wake naming specific rovers stops early once all of them
\* have been heard from": it only stops early when all of them are awake, since a
\* rover it stops calling does not wake.
StopsWhenAnswered ==
  [][job.running /\ ~job'.running /\ (\E b \in Rovers : Heard(b))
       => \A b \in job.ids : state[b] = "awake"]_vars

\* A rover that stays awake does not stay on the base's list of sleeping ones.
BeliefRecovers ==
  \A b \in Rovers : <>[](state[b] = "awake") => <>[](believed[b] = NotAsleep)
===============================================================================
