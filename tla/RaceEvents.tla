------------------------------- MODULE RaceEvents -------------------------------
(***************************************************************************)
(* What the base makes of a boat's fixes (detectRaceEvents of              *)
(* src/src/baseStation.js): laps (finishLineWatcher.js), fouls             *)
(* (foulWatcher.js), roundings of the windward mark                        *)
(* (markRoundingWatcher.js) and boats on the start grid (onGridWatcher.js  *)
(* and onGridPost.js). The detectors compare each fix with the one before, *)
(* so what counts is which fixes they get and in which order: fixes are    *)
(* lost, one may come late, the marks are moved, and the base forgets.     *)
(*                                                                         *)
(* One boat is modelled, since the detectors of two boats share nothing.   *)
(* Places are points of the plane and the geometry is that of the code in  *)
(* integers. Times are ages in fixes, which stop counting at Old.          *)
(***************************************************************************)
EXTENDS Integers, Sequences, FiniteSets

CONSTANTS
  Courses,     \* the places of the marks, by course: an operator edits one into another
  Waters,      \* where a boat can be; never exactly on a line
  ZoneDepth,   \* onGridZoneM
  EdgeMargin,  \* ONGRID_EDGE_MARGIN_M
  RoundRadius, \* how near a mark a turn counts
  SweepMin,    \* ROUNDING_MIN_SWEEP_DEG, in eighths of a turn
  Debounce,    \* ROUNDING_DEBOUNCE_MS
  GraceTime,   \* FINISH_GRACE_MS
  Resend,      \* ONGRID_RESEND_INTERVAL_MS
  Tolerance,   \* OUT_OF_ORDER_TOLERANCE_MS
  SilentGap,   \* BOAT_RECONNECT_GAP_MS
  MaxLag,      \* bound: how late a fix comes in
  MaxPending,  \* bound: fixes held until the marks are known, for less than Old
  Old          \* ages stop counting here

NoCourse == "none"

RaceAssumption ==
  /\ {Old, Tolerance, SweepMin, MaxPending} \subseteq Nat
  /\ {Debounce, GraceTime, Resend, SilentGap, MaxLag} \subseteq 1 .. Old - 1
  /\ MaxLag < Tolerance
  /\ NoCourse \notin DOMAIN Courses
ASSUME RaceAssumption

VARIABLES
  marks,    \* raceMarks: a course, or NoCourse while they are resolved
  boat,     \* where the boat is
  lag,      \* the fix that was held up on its way, if any
  pending,  \* pendingFrames
  silent,   \* time since the base last heard the boat (lastSeenByBoat)
  racing,   \* slotAllocator.racing has the boat
  det,      \* the boat's watchers, see DetInit
  ages,     \* how long ago what they remember was
  reported, \* the events of the last step
  southSince \* history: the boat was south of the finish line after the fix of its last lap

raceVars == <<marks, boat, lag, pending, silent, racing, det, ages, reported, southSince>>

Never    == -1
NoLag    == [at |-> <<0, 0>>, age |-> Never, south |-> FALSE]

-----------------------------------------------------------------------------
(* Geometry.                                                                *)

Minus(p, q) == <<p[1] - q[1], p[2] - q[2]>>
Dot(v, w)   == v[1] * w[1] + v[2] * w[2]
Wedge(v, w) == v[1] * w[2] - v[2] * w[1]
Side(o, a, b) == Wedge(Minus(a, o), Minus(b, o))
AbsOf(n)    == IF n < 0 THEN -n ELSE n

\* segmentsIntersect
Meets(p, q, a, b) ==
  /\ (Side(a, b, p) > 0) # (Side(a, b, q) > 0)
  /\ (Side(p, q, a) > 0) # (Side(p, q, b) > 0)

\* Upwind of a -> b is to its left.
Upwind(p, q, a, b) == Meets(p, q, a, b) /\ Side(a, b, q) > 0

\* The segments of FoulWatcher, in the order they are looked at.
Segments == [c \in DOMAIN Courses |->
  LET m == Courses[c]
      far == <<m.pin[1] - 50 * (m.committeeStart[1] - m.pin[1]),
               m.pin[2] - 50 * (m.committeeStart[2] - m.pin[2])>>
  IN <<[a |-> m.pin, b |-> m.committeeStart, oneWay |-> TRUE],
       [a |-> m.committeeStart, b |-> m.committeeFinish, oneWay |-> FALSE],
       [a |-> m.committeeFinish, b |-> m.finish, oneWay |-> TRUE]>>
     \o IF m.pinBoundary THEN <<[a |-> far, b |-> m.pin, oneWay |-> TRUE]>> ELSE <<>>]
FinishSegment == 3
PinSegment    == 4

\* The on-grid zone: behind the start line, without the corners cut off at 55 degrees,
\* whose tangent is 10/7. The cut at the committee boat is there only while the finish is near.
OnGridZone(c, p) ==
  LET m   == Courses[c]
      v   == Minus(m.pin, m.committeeStart)
      len == CHOOSE n \in 1 .. 100 : n * n = Dot(v, v)
      wind == Minus(m.windward, m.leeward)
      up  == IF Dot(<<-v[2], v[1]>>, wind) >= Dot(<<v[2], -v[1]>>, wind)
             THEN <<-v[2], v[1]>> ELSE <<v[2], -v[1]>>
      along == Dot(Minus(p, m.committeeStart), v)   \* along the line, times len
      back  == -Dot(Minus(p, m.committeeStart), up) \* behind it, times len
      gap   == Minus(m.committeeFinish, m.committeeStart)
      Cut(a) == 10 * a <= 7 * back /\ 2 * a <= len * len
  IN /\ back \in -EdgeMargin * len .. ZoneDepth * len
     /\ along \in -EdgeMargin * len .. (len + EdgeMargin) * len
     /\ ~(Dot(gap, gap) < 4 * ZoneDepth * ZoneDepth /\ Cut(along))
     /\ ~Cut(len * len - along)

\* Worked out once for all: the places in the zone of each course.
Zones == [c \in DOMAIN Courses |-> {p \in Waters : OnGridZone(c, p)}]
\* And the segments that a move crosses.
Moves == Waters \X Waters
Crossed == [c \in DOMAIN Courses |-> [m \in Moves |->
  {i \in 1 .. Len(Segments[c]) : Meets(m[1], m[2], Segments[c][i].a, Segments[c][i].b)}]]
\* The legal ones of them.
CrossedUpwind == [c \in DOMAIN Courses |-> [m \in Moves |->
  {i \in Crossed[c][m] : Segments[c][i].oneWay /\ Upwind(m[1], m[2], Segments[c][i].a, Segments[c][i].b)}]]
\* The places on a finish line or south of it, as sideOf tells them.
NorthOf(c, p) == Side(Courses[c].committeeFinish, Courses[c].finish, p) > 0
South == {p \in Waters : \E c \in DOMAIN Courses : ~NorthOf(c, p)}

\* The angle between two moves, in whole eighths of a turn.
Turn(v, w) ==
  LET d == Dot(v, w)
      x == AbsOf(Wedge(v, w))
  IN IF d = 0 /\ x = 0 THEN 0
     ELSE IF d > x THEN 0 ELSE IF d > 0 THEN 1 ELSE IF d > -x THEN 2 ELSE 3

-----------------------------------------------------------------------------
(* The watchers.                                                            *)

NoPlace == <<>>

\* The finish, foul and rounding watchers are built, and forgotten, together.
DetInit ==
  [built |-> NoCourse, \* the marks they were built with
   prev  |-> NoPlace,  \* their prevPos
   vec   |-> NoPlace,  \* prevMoveVec, inside the zone
   near  |-> FALSE,    \* inZone
   sweep |-> 0,        \* sweepDeg, not counted beyond SweepMin
   grid  |-> NoCourse, \* the marks the on-grid watcher was built with
   onGrid |-> FALSE,
   held   |-> FALSE]   \* onGridHeld has the boat

AgesInit == [newest |-> Never, \* lastEventFixAt
             finish |-> Never, \* lastFinishCrossingTime
             enter  |-> Never, \* enterTime
             round  |-> Never, \* lastRoundingTime
             told   |-> Never] \* lastOnGridSentByBoat

Older(a) == IF a = Never \/ a = Old THEN a ELSE a + 1

\* Mutant of GridForgotten: only the time of the last report is forgotten.
GridHalfForgotten(s) == [s EXCEPT !.ages = [@ EXCEPT !.told = Never]]

\* clearRaceWatchers, and the part of it that pingFleet and a boat that reappears need.
GridForgotten(s) ==
  [s EXCEPT !.det = [@ EXCEPT !.grid = NoCourse, !.onGrid = FALSE],
            !.ages = [@ EXCEPT !.told = Never]]
Forgotten(s) ==
  LET s1 == GridForgotten(s)
  IN [s1 EXCEPT !.det = [DetInit EXCEPT !.held = s.det.held],
                !.ages = [@ EXCEPT !.finish = Never, !.enter = Never, !.round = Never]]

Lap(s, f) ==
  LET m == Courses[s.det.built]
  IN s.det.prev # NoPlace /\ Upwind(s.det.prev, f.at, m.committeeFinish, m.finish)

\* decideOnGridPost, with the on-grid watcher's check before it.
Gridded(s, f) ==
  LET c == IF s.det.grid = NoCourse THEN s.course ELSE s.det.grid
      in == f.at \in Zones[c]
      due == s.ages.told # Never /\ s.ages.told >= Resend
      post == in /\ ~racing /\ (~s.det.onGrid \/ due \/ s.det.held)
      held == IF in THEN racing /\ (s.det.held \/ ~s.det.onGrid)
                    ELSE s.det.held /\ ~s.det.onGrid
  IN [s EXCEPT !.det  = [@ EXCEPT !.grid = c, !.onGrid = in, !.held = held],
               !.ages = [@ EXCEPT !.told = IF post THEN 0 ELSE s.ages.told],
               !.out  = IF post THEN @ \cup {"ongrid"} ELSE @]

\* check of MarkRoundingWatcher; a rounding ends the pass a boat has after its finish.
Rounded(s, f) ==
  LET from == s.det.prev
      mark == Minus(f.at, Courses[s.det.built].windward)
      move == Minus(f.at, from)
      turn == IF s.det.near THEN Turn(s.det.vec, move) ELSE 0
      total == IF s.det.near THEN s.det.sweep + turn ELSE 0
      counts == /\ s.det.sweep >= SweepMin
                /\ s.ages.round \in {Never, Old} \/ s.ages.round - s.ages.enter >= Debounce
  IN IF from = NoPlace THEN s
     ELSE IF Dot(mark, mark) <= RoundRadius * RoundRadius
     THEN [s EXCEPT !.det = [@ EXCEPT !.near = TRUE, !.vec = move,
                                      !.sweep = IF total > SweepMin THEN SweepMin ELSE total],
                    !.ages = [@ EXCEPT !.enter = IF s.det.near THEN s.ages.enter ELSE f.age]]
     ELSE IF ~s.det.near THEN s
     ELSE [s EXCEPT !.det = [@ EXCEPT !.near = FALSE, !.vec = NoPlace, !.sweep = 0],
                    !.ages = [@ EXCEPT !.enter = Never,
                                       !.round = IF counts THEN s.ages.enter ELSE s.ages.round,
                                       !.finish = IF counts THEN Never ELSE s.ages.finish],
                    !.out = IF counts THEN @ \cup {"rounding"} ELSE @]

\* check of FoulWatcher: the first wrong crossing counts, and an upwind finish before it
\* excuses crossings of the pin boundary for a while.
Met(s, f)   == Crossed[s.det.built][<<s.det.prev, f.at>>]
Legal(s, f) == CrossedUpwind[s.det.built][<<s.det.prev, f.at>>]
FinishAge(s, f) ==
  IF FinishSegment \in Legal(s, f) /\ \A i \in Met(s, f) \ Legal(s, f) : i > FinishSegment
  THEN f.age ELSE s.ages.finish
Fouls(s, f) ==
  LET finish == FinishAge(s, f)
      excused == {PinSegment : x \in {y \in {finish} : y # Never /\ y - f.age <= GraceTime}}
      wrong == (Met(s, f) \ Legal(s, f)) \ excused
  IN IF s.det.prev = NoPlace THEN {}
     ELSE {IF i = FinishSegment THEN "finish foul" ELSE "foul" :
             i \in {j \in wrong : \A k \in wrong : j <= k}}
Fouled(s, f) ==
  [s EXCEPT !.ages = [@ EXCEPT !.finish = IF s.det.prev = NoPlace THEN s.ages.finish ELSE FinishAge(s, f)],
            !.out = @ \cup Fouls(s, f)]

\* FinishLineWatcher and detectRaceEvents: laps first, then the grid, roundings and fouls.
\* false: a lap was counted that was none, or that was counted as a foul too.
Lapped(s, f) ==
  IF Lap(s, f) THEN [s EXCEPT !.out = @ \cup {"lap"}, !.false = @ \/ ~s.south, !.south = f.south]
               ELSE s
Watched(s, f) ==
  LET built == IF s.det.built = NoCourse THEN s.course ELSE s.det.built
      s1 == [s EXCEPT !.ages = [@ EXCEPT !.newest = f.age], !.det = [@ EXCEPT !.built = built]]
      s2 == Rounded(Gridded(Lapped(s1, f), f), f)
      s3 == Fouled(s2, f)
  IN [s3 EXCEPT !.det = [@ EXCEPT !.prev = f.at],
                !.false = @ \/ (Lap(s1, f) /\ "finish foul" \in Fouls(s1, f))]

\* Mutant of Detected: a late fix is looked at like any other.
DetectedInAnyOrder(s, f) == Watched(s, f)

\* detectRaceEvents: a fix older than the newest seen is left out, unless the clock jumped.
Detected(s, f) ==
  IF s.ages.newest # Never /\ f.age > s.ages.newest /\ f.age - s.ages.newest < Tolerance
  THEN s ELSE Watched(s, f)

-----------------------------------------------------------------------------
RaceInit ==
  /\ marks = NoCourse
  /\ boat \in Waters
  /\ lag = NoLag
  /\ pending = <<>>
  /\ silent = SilentGap + 1
  /\ racing = FALSE
  /\ det = DetInit
  /\ ages = AgesInit
  /\ reported = {}
  /\ southSince = TRUE

EventState(a, c) == [course |-> c, det |-> det, ages |-> a, out |-> {},
                south |-> southSince, false |-> FALSE]
Now == EventState(ages, marks)

Take(s) ==
  /\ det' = s.det
  /\ ages' = s.ages
  /\ southSince' = s.south
  /\ reported' = s.out \cup IF s.false THEN {"false lap"} ELSE {}

\* handleDecodedFrame, for a boat that was heard or was not heard for long.
Heard(s, f, quiet) ==
  LET s1 == IF quiet > SilentGap THEN GridForgotten(s) ELSE s
  IN IF marks = NoCourse THEN s1 ELSE Detected(s1, f)

Buffered(f) == pending' = IF marks = NoCourse THEN Append(pending, f) ELSE pending

\* The boat sails on and sends a fix: it is heard, lost, or held up.
Sail(to, fate) ==
  LET f == [at |-> to, age |-> 0, south |-> FALSE]
      quiet == IF silent > SilentGap THEN silent ELSE silent + 1
      south == to \in South
      Later(g) == [g EXCEPT !.age = Older(@), !.south = @ \/ south]
      aged == [n \in DOMAIN ages |-> Older(ages[n])]
  IN /\ fate = "held up" => lag = NoLag
     /\ fate # "heard" => lag.age < MaxLag
     /\ fate = "heard" /\ marks = NoCourse => Len(pending) < MaxPending
     /\ \A i \in 1 .. Len(pending) : pending[i].age < Old - 1
     /\ boat' = to
     /\ lag' = IF fate = "held up" THEN f
               ELSE IF lag.age \in {Never, MaxLag} THEN NoLag ELSE Later(lag)
     /\ silent' = IF fate = "heard" THEN 0 ELSE quiet
     /\ LET s == [EventState(aged, marks) EXCEPT !.south = @ \/ south]
        IN Take(IF fate = "heard" THEN Heard(s, f, quiet) ELSE s)
     /\ pending' = LET old == [i \in 1 .. Len(pending) |-> Later(pending[i])]
                   IN IF fate = "heard" /\ marks = NoCourse THEN Append(old, f) ELSE old
     /\ UNCHANGED <<marks, racing>>

\* The fix that was held up comes in.
ComesLate ==
  /\ lag # NoLag
  /\ marks = NoCourse => Len(pending) < MaxPending
  /\ Take(Heard(Now, lag, silent))
  /\ Buffered(lag)
  /\ lag' = NoLag
  /\ silent' = 0
  /\ UNCHANGED <<marks, boat, racing>>

\* The fixes that waited are looked at in the order they came in.
DetectedAll(s, fixes) ==
  LET after[i \in 0 .. Len(fixes)] == IF i = 0 THEN s ELSE Detected(after[i - 1], fixes[i])
  IN after[Len(fixes)]

\* resolveCourseForCurrentRegatta: with the marks come the fixes that waited for them.
Resolve(c) ==
  /\ marks = NoCourse
  /\ marks' = c
  /\ Take(DetectedAll(EventState(ages, c), pending))
  /\ pending' = <<>>
  /\ UNCHANGED <<boat, lag, silent, racing>>

\* setMarkLocation, setPinBoundaryEnabled and syncMarksFromRedis: the marks are moved in place.
Edit(c) ==
  /\ NoCourse # marks /\ c # marks
  /\ marks' = c
  /\ Take(Forgotten(Now))
  /\ UNCHANGED <<boat, lag, pending, silent, racing>>

\* selectRegatta: the watchers are forgotten and the new regatta's marks looked up.
SelectRegatta ==
  /\ marks' = NoCourse
  /\ Take(Forgotten(Now))
  /\ UNCHANGED <<boat, lag, pending, silent, racing>>

\* pingFleet
PingFleet ==
  /\ Take(GridForgotten(Now))
  /\ UNCHANGED <<marks, boat, lag, pending, silent, racing>>

\* The slot allocator finds that the boat has started, or has stopped (see SlotAllocator).
StartOrStop ==
  /\ racing' = ~racing
  /\ Take(Now)
  /\ UNCHANGED <<marks, boat, lag, pending, silent>>

RaceNext ==
  \/ \E to \in Waters, fate \in {"heard", "lost", "held up"} : Sail(to, fate)
  \/ ComesLate
  \/ \E c \in DOMAIN Courses : Resolve(c) \/ Edit(c)
  \/ SelectRegatta
  \/ PingFleet
  \/ StartOrStop

RaceSpec == RaceInit /\ [][RaceNext]_raceVars

-----------------------------------------------------------------------------
RaceTypeOK ==
  /\ marks \in DOMAIN Courses \cup {NoCourse}
  /\ boat \in Waters
  /\ \A i \in 1 .. Len(pending) : pending[i].at \in Waters /\ pending[i].age \in 0 .. Old
  /\ Len(pending) <= MaxPending
  /\ lag.age \in Never .. MaxLag
  /\ silent \in 0 .. SilentGap + 1
  /\ {det.built, det.grid} \subseteq DOMAIN Courses \cup {NoCourse}
  /\ det.prev \in Waters \cup {NoPlace}
  /\ det.sweep \in 0 .. SweepMin
  /\ {det.near, det.onGrid, det.held, racing, southSince} \subseteq BOOLEAN
  /\ \A n \in DOMAIN ages : ages[n] \in Never .. Old

\* No crossing is counted as two laps: after a lap the boat has really been south of the
\* finish line again before the next one counts, in whatever order its fixes come in,
\* whichever are lost, and whenever marks are moved or a regatta is selected. And the watchers of
\* laps and of fouls, which cross-check nothing, never both claim one crossing.
NoFalseLap == "false lap" \notin reported

\* RegattaUp knows of every boat on the grid that is not racing: one the base last saw in
\* the zone has been reported since it came, and lately, whatever was held or forgotten meanwhile.
OnGridTold ==
  [][det'.onGrid /\ ~racing /\ marks # NoCourse /\ Sail(boat', "heard")
       => ages'.told \in 0 .. Resend - 1]_raceVars

=============================================================================
