-------------------------------- MODULE SimBoat --------------------------------
(***************************************************************************)
(* The simulated boat of src/src/simGps.js: it waits on the grid, beats to *)
(* the windward mark, runs back past the start and finish lines, counts a  *)
(* lap for each time it comes up through the finish gate, and parks when   *)
(* all laps are done. Each tick sails a bit and emits one fix; a tick that *)
(* would cross the lines where that is not allowed takes the move back.    *)
(*                                                                         *)
(* The plane is a grid, north towards the windward mark. Courses are its   *)
(* diagonals: a tack or gybe sails at 45 degrees, the wide angle that      *)
(* clears the lines two east or west for one south, and a boat that steers *)
(* straight at its target takes the nearest of the eight directions. A leg *)
(* has a random length of Legs, a tick one of Strides.                     *)
(***************************************************************************)
EXTENDS Integers, Sequences, FiniteSets, SequencesExt

CONSTANTS
  Pin, StartEnd,    \* the start line, pin to committeeStart, points of the grid
  FinishEnd, Flag,  \* the finish gate, committeeFinish to finish
  Top,              \* courseLengthM: the windward mark is at <<Top, 0>>, the leeward one at <<0, 0>>
  StartSpots,       \* where a boat waits, 2 m to leeward of the start line
  GateAim,          \* gateTargetLocal: the points of the gate boats aim at
  Legs, Strides,    \* lengths of a leg, and of a tick
  CloseBy,          \* from how far the two-tack solve is used
  SimMargin,        \* how far clear of the lines a boat goes
  Coast,            \* how far it goes on after the gate
  LapCount          \* the laps of a race

North(p) == p[1]
East(p)  == p[2]

Forever == 99       \* stands for Infinity

SimAssumption ==
  /\ Top \in Nat \ {0} /\ SimMargin \in Nat \ {0} /\ Coast \in Nat \ {0} /\ LapCount \in Nat \ {0}
  /\ Legs # {} /\ Legs \subseteq 1 .. Forever - 1 /\ CloseBy \in 0 .. Forever - 1 /\ Strides \subseteq Nat \ {0}
  /\ {Pin, StartEnd, FinishEnd, Flag} \cup StartSpots \cup GateAim \subseteq Int \X Int
  /\ East(Pin) < East(StartEnd) /\ East(StartEnd) <= East(FinishEnd) /\ East(FinishEnd) < East(Flag)
  /\ \A p \in {Pin, StartEnd, FinishEnd, Flag} \cup StartSpots \cup GateAim : North(p) \in 1 .. Top - 1

ASSUME SimAssumption

VARIABLES
  simBoat,    \* the fields of SimGpsSource, see Launched
  seen,    \* the fix emitted last
  passes,  \* history: how often the emitted fixes came up through the gate
  fouls    \* history: the lines they went down through, outside clearing legs

simVars == <<simBoat, seen, passes, fouls>>

LineSides == {"start", "finish", "middle"}
EndsOf(s) == CASE s = "start"  -> <<Pin, StartEnd>>
               [] s = "finish" -> <<FinishEnd, Flag>>
               [] s = "middle" -> <<StartEnd, FinishEnd>>

NotSet  == <<0, 0>> \* no heading frozen
NoClear == [head |-> NotSet, to |-> 0, line |-> FALSE, past |-> {}]

Sign(x)   == IF x > 0 THEN 1 ELSE IF x < 0 THEN -1 ELSE 0
Sq(x)     == x * x

-----------------------------------------------------------------------------
(* Geometry.                                                                *)

\* projectFraction: is p beside the segment, between its ends? Never for one of no length.
Alongside(ends, p, open) ==
  LET d == <<North(ends[2]) - North(ends[1]), East(ends[2]) - East(ends[1])>>
      len == Sq(d[1]) + Sq(d[2])
      dot == (North(p) - North(ends[1])) * d[1] + (East(p) - East(ends[1])) * d[2]
  IN len # 0 /\ dot <= len /\ (open \/ dot >= 0)

\* _inLocalStrip: with the pin boundary gate, the start side has no end beyond the pin.
InStrip(b, p) == \E s \in LineSides : Alongside(EndsOf(s), p, s = "start" /\ b.gate)

Trigger(s) == IF s = "middle" THEN Max({North(StartEnd), North(FinishEnd)}) ELSE North(EndsOf(s)[IF s = "start" THEN 2 ELSE 1])
PendingSides(b) == LineSides \ b.passed

\* interpolateEastAt, on a course that is level or a diagonal
EastAt(p, q, north) ==
  East(p) + (north - North(p)) * Sign(East(q) - East(p)) * Sign(North(q) - North(p))

\* Which side of the line through a and b the point p is on, positive to the north.
Over(ends, p) ==
  (East(ends[2]) - East(ends[1])) * (North(p) - North(ends[1])) -
  (North(ends[2]) - North(ends[1])) * (East(p) - East(ends[1]))
Apart(ends, p, q)    == Over(<<p, q>>, ends[1]) * Over(<<p, q>>, ends[2])
ComesUp(ends, p, q)  == Over(ends, p) <= 0 /\ Over(ends, q) > 0 /\ Apart(ends, p, q) <= 0
CrossesDown(ends, p, q) == Over(ends, p) >= 0 /\ Over(ends, q) < 0 /\ Apart(ends, p, q) < 0

-----------------------------------------------------------------------------
(* Legs.                                                                    *)

\* _targetWaypoint
Waypoint(b) ==
  CASE ~b.crossed /\ b.upwind -> b.aim
    [] ~b.crossed /\ ~b.upwind -> <<Max({North(StartEnd), North(FinishEnd)}), 0>>
    [] b.crossed -> <<IF b.upwind THEN Top ELSE 0, 0>>

\* _heading and _headingToTarget
Tack(b) == IF b.upwind THEN <<1, b.side>> ELSE <<-1, -b.side>>
Bearing(b) ==
  LET d == <<Sign(North(Waypoint(b)) - North(b.at)), Sign(East(Waypoint(b)) - East(b.at))>>
  IN IF d = <<0, 0>> THEN <<1, 0>> ELSE d

Heading(b) ==
  CASE b.clear # NoClear -> b.clear.head
    [] b.clear = NoClear /\ b.frozen # NotSet -> b.frozen
    [] OTHER -> IF b.direct THEN Bearing(b) ELSE Tack(b)

\* _setLeg
SetLeg(b, side, length) ==
  [b EXCEPT !.side = side, !.left = IF length < 1 THEN 1 ELSE length, !.direct = FALSE, !.frozen = NotSet]
Straight(b) == [b EXCEPT !.direct = TRUE, !.left = Forever, !.frozen = NotSet]

\* _projectedCrossingEast, downwind
Projected(b, side, north) == East(b.at) - side * (North(b.at) - north)

Away(b) == LET d == North(Waypoint(b)) - North(b.at) IN IF d < 0 THEN -d ELSE d
Across(b) == (IF b.upwind THEN 1 ELSE -1) * (East(Waypoint(b)) - East(b.at))

\* _startNewLeg: the boats that may result. After a mark the first tack is given and short; near
\* a target two tacks that end on it, or straight at it; else the tack that leads back to the
\* middle, or the other one where that would run through the lines.
NewLeg(b) ==
  LET short == Min(Legs) \div 2
      room  == Max({(2 * Away(b)) \div 5, 1})
      minus == (Away(b) - Across(b)) \div 2
      plus  == (Away(b) + Across(b)) \div 2
      bad(s) == \E t \in PendingSides(b) :
                  InStrip(b, <<Trigger(t), Projected(b, s, Trigger(t))>>)
      better == IF Across(b) >= 0 THEN 1 ELSE -1
      side   == IF ~b.upwind /\ ~b.crossed /\ bad(better) /\ ~bad(-better) THEN -better ELSE better
  IN CASE b.rounded -> {[SetLeg(b, -1, Min({short, room})) EXCEPT !.rounded = FALSE]}
       [] ~b.rounded /\ (b.crossed \/ b.upwind) /\ Away(b) <= CloseBy ->
            {IF minus > 0 /\ plus > 0 THEN SetLeg(b, -1, minus) ELSE Straight(b)}
       [] OTHER -> {SetLeg(b, side, l) : l \in Legs}

-----------------------------------------------------------------------------
(* Straight paths.                                                          *)

LineNorths     == {North(p) : p \in {Pin, StartEnd, FinishEnd, Flag}}
SafeNorth(b, far) == Max({North(b.at) + far, Max(LineNorths) + SimMargin})
SafeSouth     == Min(LineNorths) - SimMargin
LaneOf(s) == (East(EndsOf(s)[1]) + East(EndsOf(s)[2])) \div 2

\* _foulWaypoints: up, then down through one line after the other, and back up in between.
Lanes(b) ==
  <<LaneOf("start"), LaneOf("finish")>>
  \o (IF StartEnd = FinishEnd THEN <<>> ELSE <<LaneOf("middle")>>)
  \o (IF b.gate THEN <<East(Pin) - SimMargin>> ELSE <<>>)
FoulPath(b) ==
  LET up == SafeNorth(b, SimMargin)
      leg(i) == <<<<up, Lanes(b)[i]>>, <<SafeSouth, Lanes(b)[i]>>>>
                \o (IF i < Len(Lanes(b)) THEN <<<<up, Lanes(b)[i]>>>> ELSE <<>>)
  IN <<<<up, East(b.at)>>>> \o FlattenSeq([i \in DOMAIN Lanes(b) |-> leg(i)])

\* _parkingWaypoints: north of everything, west of the pin, then south.
ParkingPath(b) ==
  LET west == East(Pin) - SimMargin
  IN <<<<SafeNorth(b, 0), East(b.at)>>, <<SafeNorth(b, 0), west>>, <<SafeSouth, west>>>>

\* _tickFoulTest, _tickParking: straight at the next waypoint, and not past it.
Motored(b, k) ==
  LET d == <<North(b.path[1]) - North(b.at), East(b.path[1]) - East(b.at)>>
      far == Max({Sign(d[1]) * d[1], Sign(d[2]) * d[2]})
      next == IF k >= far THEN [b EXCEPT !.at = b.path[1], !.path = Tail(b.path)]
              ELSE [b EXCEPT !.at = <<@[1] + k * Sign(d[1]), @[2] + k * Sign(d[2])>>]
  IN [next EXCEPT !.done = next.path = <<>>]

-----------------------------------------------------------------------------
(* A tick.                                                                  *)

Stays(b) == {b}

\* A mark is passed on a level course, to its far side.
RoundsMark(b, to) == {[b EXCEPT !.direct = FALSE, !.clear = [head |-> <<0, to>>, to |-> to, line |-> FALSE, past |-> {}]]}

\* The clearing leg is over once its target is reached, and the boat is off the lines.
ClearingOver(b) ==
  /\ b.clear.head[2] * (East(b.at) - b.clear.to) >= 0
  /\ b.clear.line => ~InStrip(b, b.at)

\* With every line behind it, a boat going down has crossed.
PastLines(b) == IF PendingSides(b) = {} THEN NewLeg([b EXCEPT !.crossed = TRUE]) ELSE Stays(b)

ClearingEnds(b) ==
  IF b.clear.line
  THEN PastLines([b EXCEPT !.clear = NoClear, !.passed = @ \cup b.clear.past])
  ELSE NewLeg([b EXCEPT !.clear = NoClear, !.upwind = ~@, !.crossed = FALSE, !.passed = {}, !.rounded = TRUE])

\* What a boat does after it moved on by k: coast, clear, round a mark, tack, or sail on.
Steered(b, k) ==
  CASE b.coast > 0 /\ ~b.between -> {[b EXCEPT !.coast = Max({@ - k, 0})]}
    [] b.coast > 0 /\ b.between ->
         IF b.coast > k THEN {[b EXCEPT !.coast = @ - k]}
         ELSE NewLeg([b EXCEPT !.coast = 0, !.between = FALSE])
    [] b.coast = 0 /\ b.clear # NoClear -> IF ClearingOver(b) THEN ClearingEnds(b) ELSE Stays(b)
    [] b.coast = 0 /\ b.clear = NoClear /\ b.upwind /\ North(b.at) >= Top -> RoundsMark(b, 1)
    [] b.coast = 0 /\ b.clear = NoClear /\ ~b.upwind /\ North(b.at) <= 0 -> RoundsMark(b, -1)
    [] OTHER -> IF b.left <= 0 THEN NewLeg(b) ELSE Stays(b)

\* Mutant of AtGate: wherever the line is crossed counts.
AtGateAnywhere(b, from, head) ==
  LET east == EastAt(from, b.at, North(b.aim))
  IN {[b EXCEPT !.at = <<North(b.aim), east>>, !.frozen = IF b.direct THEN head ELSE @,
                !.direct = FALSE, !.crossed = TRUE, !.laps = @ + 1, !.coast = Coast,
                !.between = b.laps + 1 < LapCount]}

\* Upwind past the gate's latitude: a lap if it is through the gate, or the move is taken back.
AtGate(b, from, head) ==
  LET east == EastAt(from, b.at, North(b.aim))
  IN IF Alongside(EndsOf("finish"), <<North(b.aim), east>>, FALSE)
     THEN {[b EXCEPT !.at = <<North(b.aim), east>>, !.frozen = IF b.direct THEN head ELSE @,
                     !.direct = FALSE, !.crossed = TRUE, !.laps = @ + 1, !.coast = Coast,
                     !.between = b.laps + 1 < LapCount]}
     ELSE {[Straight(b) EXCEPT !.at = from]}

\* The leg that clears all lines still ahead, to the nearer end of them.
ClearsLines(b, east) ==
  LET ahead == PendingSides(b)
      ends  == {East(EndsOf(s)[i]) : s \in ahead, i \in {1, 2}}
      open  == b.gate /\ "start" \in ahead
      to    == IF open \/ Max(ends) - east <= east - Min(ends) THEN 1 ELSE -1
  IN [b EXCEPT !.clear = [head |-> <<-1, 2 * to>>, line |-> TRUE, past |-> ahead,
                          to |-> IF to = 1 THEN Max(ends) + SimMargin ELSE Min(ends) - SimMargin]]

\* Downwind, the line that is reached first.
LineRank(s) == CASE s = "start" -> 1 [] s = "finish" -> 2 [] s = "middle" -> 3
FirstReached(b) ==
  LET hit == {s \in PendingSides(b) : North(b.at) < Trigger(s)}
  IN CHOOSE s \in hit : \A t \in hit \ {s} :
       Trigger(s) > Trigger(t) \/ (Trigger(s) = Trigger(t) /\ LineRank(s) < LineRank(t))

\* Downwind past a line's latitude: not within any of the lines.
AtLines(b, from) ==
  LET s == FirstReached(b)
      hits == <<Trigger(s), EastAt(from, b.at, Trigger(s))>>
  IN IF InStrip(b, hits) THEN {ClearsLines([b EXCEPT !.at = from], East(hits))}
     ELSE PastLines([b EXCEPT !.at = hits, !.passed = @ \cup {s}])

LineChecked(b, from, head) ==
  CASE b.coast = 0 /\ b.clear = NoClear /\ b.upwind /\ ~b.crossed /\ North(b.at) > North(b.aim) ->
         AtGate(b, from, head)
    [] b.coast = 0 /\ b.clear = NoClear /\ ~b.upwind /\ ~b.crossed
         /\ \E s \in PendingSides(b) : North(b.at) < Trigger(s) -> AtLines(b, from)
    [] OTHER -> Stays(b)

\* A racing boat's tick: a stride is cut short at the end of a leg. The race over, it parks.
Sailed(b, stride) ==
  LET k == IF b.coast = 0 /\ b.clear = NoClear THEN Min({stride, b.left}) ELSE stride
      moved == [b EXCEPT !.at = <<@[1] + k * Heading(b)[1], @[2] + k * Heading(b)[2]>>,
                         !.left = IF @ = Forever THEN @ ELSE Max({@ - k, 0})]
      after == UNION {LineChecked(c, b.at, Heading(b)) : c \in Steered(moved, k)}
      parks(c) == b.coast > 0 /\ ~b.between /\ c.coast = 0
  IN {IF parks(c) THEN [c EXCEPT !.path = ParkingPath(c)] ELSE c : c \in after}

\* What watches the emitted fixes: the base counts passes of the gate and sees boats come down.
Emits(b) ==
  /\ simBoat' = b
  /\ seen' = b.at
  /\ passes' = passes + (IF ComesUp(EndsOf("finish"), seen, b.at) THEN 1 ELSE 0)
  /\ fouls' = IF simBoat.clear.line THEN fouls
              ELSE fouls \cup {s \in LineSides : CrossesDown(EndsOf(s), seen, b.at)}

\* The constructor.
Built(plan, p, aim, gate, side) ==
  [plan |-> plan, at |-> p, aim |-> aim, gate |-> gate,
   dwell |-> CASE plan = "dwell" -> 1 [] plan = "hold" -> Forever [] OTHER -> 0,
   upwind |-> TRUE, side |-> side, left |-> 1, direct |-> FALSE, frozen |-> NotSet,
   crossed |-> TRUE, passed |-> {}, clear |-> NoClear, rounded |-> FALSE,
   coast |-> 0, between |-> FALSE, laps |-> 0, path |-> <<>>, done |-> FALSE]

\* What it ends with: a boat that tests the lines plans its path, one that races its first leg.
Readied(b) ==
  CASE b.plan = "startOnly" -> {b}
    [] b.plan = "foul" -> {[b EXCEPT !.path = FoulPath(b)]}
    [] OTHER -> NewLeg(b)

\* The boats that may be started.
Launched ==
  UNION {Readied(Built(plan, p, aim, gate, side)) :
           plan \in {"race", "dwell", "hold", "startOnly", "foul"}, p \in StartSpots,
           aim \in GateAim, gate \in BOOLEAN, side \in {1, -1}}

SimInit ==
  /\ simBoat \in Launched
  /\ seen = simBoat.at /\ passes = 0 /\ fouls = {}

\* A boat that waits repeats its place.
SimWaits ==
  /\ ~simBoat.done
  /\ simBoat.plan = "startOnly" \/ simBoat.dwell > 0
  /\ Emits([simBoat EXCEPT !.dwell = IF @ = Forever THEN @ ELSE Max({@ - 1, 0})])

\* release: the start signal of a fleet that holds at the grid.
SimReleased ==
  /\ simBoat.plan # "startOnly" /\ simBoat.dwell > 0
  /\ simBoat' = [simBoat EXCEPT !.dwell = 0]
  /\ UNCHANGED <<seen, passes, fouls>>

SimMotors ==
  /\ ~simBoat.done /\ simBoat.dwell = 0 /\ simBoat.path # <<>>
  /\ \E k \in Strides : Emits(Motored(simBoat, k))

SimSails ==
  /\ ~simBoat.done /\ simBoat.dwell = 0 /\ simBoat.path = <<>> /\ simBoat.plan \notin {"startOnly", "foul"}
  /\ \E k \in Strides : \E b \in Sailed(simBoat, k) : Emits(b)

\* The agent of a boat that is through ends, and is started again for the next race.
SimAgain ==
  /\ simBoat.done
  /\ simBoat' \in Launched
  /\ seen' = simBoat'.at /\ passes' = 0 /\ fouls' = {}

SimNext == SimWaits \/ SimReleased \/ SimMotors \/ SimSails \/ SimAgain

SimSpec == SimInit /\ [][SimNext]_simVars

-----------------------------------------------------------------------------
SimTypeOK ==
  /\ simBoat.laps \in 0 .. LapCount /\ simBoat.side \in {1, -1} /\ simBoat.left \in 0 .. Forever
  /\ simBoat.passed \subseteq LineSides /\ simBoat.coast \in 0 .. Coast
  /\ seen = simBoat.at /\ passes \in Nat /\ fouls \subseteq LineSides

\* What the property is limited to. A line is passed where its end has its latitude, so lines
\* must be level; one north of the other by more than the margin is not yet passed where the leg
\* that clears both ends; a long tick carries a boat over a mark and back across the lines; and
\* the first beat, on which no gate is expected, must not lead through it. The lane through the
\* gap has a point of the grid.
LinesAreLevel == North(Pin) = North(StartEnd) /\ North(FinishEnd) = North(Flag)
LinesAreClose == (\A n, m \in LineNorths : n - m <= SimMargin) /\ East(FinishEnd) - East(StartEnd) # 1
TicksAreShort == \A k \in Strides : k < Top - Max(LineNorths) /\ k < Min(LineNorths)
GridIsClear   == \A p \in StartSpots : East(p) + North(FinishEnd) - North(p) < East(FinishEnd)

\* The base, which sees the emitted fixes only, sees every lap a boat counts as a pass up through
\* the gate, however it tacks and strides. On a course with its lines side by side, and with ticks
\* that are short against it, every such pass is a lap, a boat that races or parks is never seen to
\* come down through the start line, the gate or the gap between them, but on a leg that
\* clears them, and a SIM_FOUL boat comes down through all of them. simGps.js promises this of
\* every course and every rate: TLC refutes it where one of the limits is not kept.
SeenAsSailed ==
  /\ LinesAreLevel /\ simBoat.plan # "foul" =>
       passes >= simBoat.laps \/ (passes = simBoat.laps - 1 /\ North(simBoat.at) = North(simBoat.aim))
  /\ LinesAreLevel /\ LinesAreClose /\ TicksAreShort /\ GridIsClear =>
       /\ simBoat.plan # "foul" => passes <= simBoat.laps /\ fouls = {}
       /\ simBoat.plan = "foul" /\ simBoat.done =>
            fouls = IF StartEnd = FinishEnd THEN {"start", "finish"} ELSE LineSides

=============================================================================
