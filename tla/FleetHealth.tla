------------------------------- MODULE FleetHealth -------------------------------
(***************************************************************************)
(* Link health on the base (src/src/linkHealth.js): from the fixes that    *)
(* arrive it judges whether the radio link to each boat works, and the     *)
(* alerter says on the console which boats turned bad and which recovered. *)
(*                                                                         *)
(* What the base keeps of a boat is written with ages instead of times.    *)
(* Levels are ranks, as in LEVEL_RANK.                                     *)
(***************************************************************************)
EXTENDS Integers, Sequences, FiniteSets, SequencesExt, FiniteSetsExt

CONSTANTS
  HealthBoats,
  CycleTime,   \* the correction interval; a boat that goes on in its slot reports once per cycle
  GapTime,     \* GAP_MS
  MaxGapTime,  \* MAX_GAP_MS
  WindowTime,  \* WINDOW_MS
  SeenTime,    \* SEEN_MS
  SilentWarn, SilentBad, \* THRESHOLDS
  QuietAfter,  \* 20 s: a boat that sits still is not expected to be chatty
  FinishSlack, \* 3 s
  FinishQuiet, \* FINISH_QUIET_MS
  MinRtk, GapsBad,
  Speeds       \* the speeds a boat may have: 0 is below 1 kn, Moving is MOVING_KN and more

Slow == 1   Moving == 2

HealthAssumption ==
  /\ {CycleTime, GapTime, MaxGapTime, WindowTime, SeenTime, SilentWarn, SilentBad, QuietAfter, FinishSlack,
      FinishQuiet, MinRtk, GapsBad} \subseteq Nat \ {0}
  /\ GapTime <= CycleTime /\ CycleTime < SilentBad /\ FinishSlack < SilentBad /\ SilentWarn <= SilentBad
  /\ SeenTime < FinishQuiet /\ Speeds \subseteq 0 .. Moving
ASSUME HealthAssumption

VARIABLES
  bursts,    \* the correction bursts are heard: setCycleMs
  health,    \* health[b]: what is kept of a boat, or Unheard
  badBoats,  \* the alerter's bad
  due,       \* due[b]: how long ago a boat sent, and when it has to again (0: whenever it likes)
  missed     \* missed[b]: why the base may not have heard what it expects of b since its last fix

healthVars == <<bursts, health, badBoats, due, missed>>

Unheard == [null |-> TRUE]
Quiet == 0  Ok == 1  Warn == 2  Bad == 3
Long == Max({SeenTime, MaxGapTime, FinishQuiet}) + 1   \* ages are not told apart beyond this
Aged(a) == Min({a + 1, Long})
TooOld(e) == e.age > WindowTime
\* _prune shifts from the front as long as the first one is old.
Keep(seq) == SubSeq(seq, Cardinality({i \in DOMAIN seq : \A j \in 1 .. i : TooOld(seq[j])}) + 1, Len(seq))
Older1(e) == [e EXCEPT !.age = @ + 1]

HealthInit ==
  /\ bursts \in BOOLEAN
  /\ health = [b \in HealthBoats |-> Unheard]
  /\ badBoats = {}
  /\ due = [b \in HealthBoats |-> [since |-> 0, within |-> 0]]
  /\ missed = [b \in HealthBoats |-> "no"]

\* Mutant of GapLimit: what a boat in a slot does is not considered.
GapLimitFixed == GapTime

GapLimit == IF bursts THEN Max({GapTime, (3 * CycleTime + 1) \div 2}) ELSE GapTime

\* recordFix, of a fix that was taken old ago. Whether a gap has a cause is noted beside it.
Recorded(h, b, old, rtk, speed, state) ==
  LET judged == state = "slot"
      gap == h.ts - old
      isGap == /\ h # Unheard
               /\ judged /\ h.state = "slot"
               /\ gap > GapLimit /\ gap <= MaxGapTime /\ Min({h.speed, speed}) >= Moving
      before == IF h = Unheard THEN [samples |-> <<>>, gaps |-> <<>>, finished |-> Long] ELSE h
  IN [samples  |-> Append(before.samples, [age |-> 0, rtk |-> rtk]),
      gaps     |-> IF isGap THEN Append(before.gaps, [age |-> 0, cause |-> missed[b] # "no"]) ELSE before.gaps,
      ts |-> old, t |-> 0, speed |-> speed, state |-> state, finished |-> before.finished]

-----------------------------------------------------------------------------
(* boatStatus.                                                              *)

Share(h) == (100 * Cardinality({i \in DOMAIN h.samples : h.samples[i].rtk}) + Len(h.samples) \div 2) \div Len(h.samples)
FixedNow(h) == Last(h.samples).rtk
Finished(h) == h.finished < FinishQuiet
WasMoving(h) == h.speed = Moving /\ h.state = "slot" /\ ~(Finished(h) /\ h.t > FinishSlack)

RtkLevel(h) ==
  CASE Len(h.samples) < MinRtk -> Ok
    [] Len(h.samples) >= MinRtk /\ FixedNow(h) -> IF Share(h) < 50 THEN Warn ELSE Ok
    [] OTHER -> IF Share(h) < 50 THEN Bad ELSE IF Share(h) < 90 THEN Warn ELSE Ok
GapLevel(h)    == IF Len(h.gaps) >= GapsBad THEN Bad ELSE IF h.gaps # <<>> THEN Warn ELSE Ok
SilentLevel(h) == CASE WasMoving(h) /\ h.t >= SilentBad -> Bad
                    [] WasMoving(h) /\ h.t \in SilentWarn .. SilentBad - 1 -> Warn
                    [] OTHER -> Ok

\* A boat that finished, or sits still, and is not heard is idle; the worst of the rest counts.
Level(h) ==
  CASE Finished(h) /\ h.t > SilentBad -> Quiet
    [] ~Finished(h) /\ h.state # "parked" /\ h.speed = 0 /\ h.t > QuietAfter -> Quiet
    [] OTHER -> Max({RtkLevel(h), GapLevel(h), SilentLevel(h), IF h.state = "waiting" THEN Warn ELSE Ok})

Seen(h)  == h # Unheard /\ h.t <= SeenTime
\* check, every now and then: status() forgets the boats it has not heard for long.
HealthCheck ==
  LET isBad == {b \in HealthBoats : Seen(health[b]) /\ Level(health[b]) = Bad}
  IN /\ badBoats' = isBad
     /\ health' = [b \in HealthBoats |-> IF Seen(health[b]) THEN health[b] ELSE Unheard]
  /\ UNCHANGED <<bursts, due, missed>>

-----------------------------------------------------------------------------
(* The boats, and the radio between them and the base.                      *)

\* A boat that goes on moving is TX_DISTANCE_M further every second, and reports then, or once per
\* cycle in its slot; any other when it likes. What it was last seen doing does not hold it to that:
\* see StopsClose.
Within(speed, state) == IF speed < Moving \/ state # "slot" THEN 0 ELSE IF bursts THEN CycleTime ELSE GapTime

\* One or two fixes of a frame, oldest first. A racing boat crosses the finish line: noteFinish.
Reports(b) ==
  \E speed \in Speeds, state \in {"slot", "parked", "waiting"}, rtk \in BOOLEAN, finish \in BOOLEAN :
    LET one == Recorded(health[b], b, 0, rtk, speed, state)
        two == Recorded(Recorded(health[b], b, 1, rtk, speed, state), b, 0, rtk, speed, state)
    IN \E h \in {one} \cup (IF due[b].since > 1 THEN {two} ELSE {}) :
         /\ health' = [health EXCEPT ![b] = IF finish THEN [h EXCEPT !.finished = 0] ELSE h]
         /\ finish => state = "slot"
         /\ due' = [due EXCEPT ![b] = [since |-> 0, within |-> Within(speed, state)]]
  /\ due[b].since > 0
  /\ missed' = [missed EXCEPT ![b] = "no"]
  /\ UNCHANGED <<bursts, badBoats>>

\* A frame is not heard, or heard damaged.
Misses(b) ==
  /\ due[b].since > 0 /\ missed[b] = "no"
  /\ missed' = [missed EXCEPT ![b] = "lost"]
  /\ due' = [due EXCEPT ![b] = [since |-> 0, within |-> 0]]
  /\ UNCHANGED <<bursts, health, badBoats>>

\* A boat that stops, or does not get TX_DISTANCE_M away, is silent until its heartbeat, up to a
\* minute, though no frame is lost.
StopsClose(b) ==
  /\ due[b].within # 0 /\ missed[b] = "no"
  /\ missed' = [missed EXCEPT ![b] = "stopped"]
  /\ due' = [due EXCEPT ![b].within = 0]
  /\ UNCHANGED <<bursts, health, badBoats>>

\* A boat that finished may stop, or be switched off, at any moment.
SwitchedOff(b) ==
  /\ health[b] # Unheard /\ Finished(health[b]) /\ missed[b] = "no"
  /\ missed' = [missed EXCEPT ![b] = "off"]
  /\ due' = [due EXCEPT ![b].within = 0]
  /\ UNCHANGED <<bursts, health, badBoats>>

\* The corrections stop or come back: until the boats follow, they report at the other rate.
BurstsChange ==
  /\ bursts' = ~bursts
  /\ missed' = [b \in HealthBoats |-> IF missed[b] = "no" THEN "rate" ELSE missed[b]]
  /\ UNCHANGED <<health, badBoats, due>>

HealthTick ==
  /\ \A b \in HealthBoats : due[b].within = 0 \/ due[b].since < due[b].within
  /\ health' = [b \in HealthBoats |->
       IF health[b] = Unheard THEN Unheard
       ELSE [health[b] EXCEPT !.samples = Keep([i \in DOMAIN @ |-> Older1(@[i])]),
                              !.gaps = Keep([i \in DOMAIN @ |-> Older1(@[i])]),
                              !.ts = Aged(@), !.t = Aged(@), !.finished = Aged(@)]]
  /\ due' = [b \in HealthBoats |-> [due[b] EXCEPT !.since = Min({@ + 1, CycleTime})]]
  /\ UNCHANGED <<bursts, badBoats, missed>>

HealthNext ==
  \/ HealthCheck \/ BurstsChange \/ HealthTick
  \/ \E b \in HealthBoats : Reports(b) \/ Misses(b) \/ StopsClose(b) \/ SwitchedOff(b)

HealthSpec == HealthInit /\ [][HealthNext]_healthVars

-----------------------------------------------------------------------------
HealthTypeOK ==
  /\ bursts \in BOOLEAN /\ badBoats \subseteq HealthBoats
  /\ \A b \in HealthBoats : health[b] = Unheard \/
       (health[b].t \in 0 .. Long /\ health[b].state \in {"slot", "parked", "waiting"} /\ health[b].ts >= health[b].t)

\* What can be behind an alarm: every gap that is counted has a lost frame, a change of the rate, a
\* boat that was off, or one that stopped within TX_DISTANCE_M of its last report behind it (which
\* the base cannot tell from a lost frame); and a boat whose frames all arrive, with an RTK fix, is
\* never bad while it goes on, whether it reports every second or once per cycle, slows down, parks or
\* waits for a slot, nor is one that finished and then stopped or was switched off.
NoFalseAlarm ==
  \A b \in HealthBoats : Seen(health[b]) =>
    LET h == health[b]
    IN /\ \A i \in DOMAIN h.gaps : h.gaps[i].cause
       /\ h.gaps = <<>> /\ RtkLevel(h) # Bad /\ (missed[b] = "no" \/ (missed[b] \in {"off", "stopped"} /\ Finished(h)))
            => Level(h) # Bad

=============================================================================
