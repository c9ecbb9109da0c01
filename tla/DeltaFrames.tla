------------------------------ MODULE DeltaFrames ------------------------------
(***************************************************************************)
(* A boat's held fixes are sent as differences (encodeDeltaFrames of       *)
(* src/src/protocol.js): the first fix of a frame is written in full, each *)
(* later one as a rounded change from what the decoder will have by then.  *)
(* The base decodes them with the same arithmetic (decodeDeltaBatch).      *)
(*                                                                         *)
(* The fields keep the program's units and widths: time in ms (differences *)
(* of 2 ms in 8 bits), position in 1e-7 degrees (16 bits; one axis stands  *)
(* for both), speed in 0.1 knot (0.5 knot, 8 bits), heading in 0.1 degree  *)
(* (2 degrees, 8 bits). The status byte is copied and left out.            *)
(***************************************************************************)
EXTENDS Integers, Sequences, SequencesExt, FiniteSets

CONSTANTS
  MaxDeltas,   \* MAX_DELTA_COUNT: fixes in a frame
  DeltaFixes,  \* the fixes a boat may have, records [ts, pos, speed, heading] as fixInts gives them
  MaxDeltaHeld \* bound: fixes held when a batch is sent

Full16   == 65535      \* what a field of 16 bits holds
Headings == 0 .. 3600  \* headingTenths of fixInts

DeltaAssumption ==
  /\ MaxDeltas \in Nat \ {0, 1} /\ MaxDeltaHeld \in Nat
  /\ DeltaFixes \subseteq [ts : Nat, pos : Int, speed : 0 .. Full16, heading : Headings]
ASSUME DeltaAssumption

VARIABLES
  heldFixes,   \* the boat's pending batch, oldest first
  deltaAir,    \* frames on their way: [first, deltas, truth]; truth is history, the fixes encoded
  deltaRead    \* history: the fixes of the last frame read, each beside the fix it was made from

deltaVars == <<heldFixes, deltaAir, deltaRead>>

DeltaInit == heldFixes = <<>> /\ deltaAir = <<>> /\ deltaRead = <<>>

\* Math.round(x / n): halves go up.
RoundDiv(x, n) == (2 * x + n) \div (2 * n)

\* JavaScript's remainder takes the sign of the dividend; the code adds a turn and a half first,
\* which makes it the mathematical one: the shortest signed turn.
HeadingDiff(from, to) == ((to - from + 5400) % 3600) - 1800

DeltaOf(prev, next) ==
  [dt       |-> RoundDiv(next.ts - prev.ts, 2),
   dpos     |-> next.pos - prev.pos,
   dspeed   |-> RoundDiv(next.speed - prev.speed, 5),
   dheading |-> RoundDiv(HeadingDiff(prev.heading, next.heading), 20)]

\* Each change has to fit its field, or deltaOf gives null.
Fits(d) ==
  /\ d.dt \in 0 .. 255 /\ d.dpos \in -32768 .. 32767
  /\ d.dspeed \in -128 .. 127 /\ d.dheading \in -128 .. 127

Clamp16(x) == IF x < 0 THEN 0 ELSE IF x > Full16 THEN Full16 ELSE x

ApplyDelta(prev, d) ==
  [ts      |-> prev.ts + d.dt * 2,
   pos     |-> prev.pos + d.dpos,
   speed   |-> Clamp16(prev.speed + d.dspeed * 5),
   heading |-> (prev.heading + d.dheading * 20) % 3600]

\* Mutant of NextPrev: the next change is taken from the fix itself, so rounding adds up.
NextPrevExact(prev, d, fix) == fix

\* What the following fix is compared with: what the decoder will have.
NextPrev(prev, d, fix) == ApplyDelta(prev, d)

NewFrame(fix) == [first |-> fix, deltas |-> <<>>, truth |-> <<fix>>, prev |-> fix]

\* A fix joins the open frame while its change fits and there is room, and starts the next
\* frame otherwise.
AddFix(frames, fix) ==
  IF frames = <<>> THEN <<NewFrame(fix)>>
  ELSE LET open == Last(frames)
           d    == DeltaOf(open.prev, fix)
       IN IF Len(open.deltas) >= MaxDeltas - 1 \/ ~Fits(d)
          THEN Append(frames, NewFrame(fix))
          ELSE Append(Front(frames),
                      [first  |-> open.first,
                       deltas |-> Append(open.deltas, d),
                       truth  |-> Append(open.truth, fix),
                       prev   |-> NextPrev(open.prev, d, fix)])

EncodeDeltaFrames(fixes) ==
  LET frames[n \in 0 .. Len(fixes)] == IF n = 0 THEN <<>> ELSE AddFix(frames[n - 1], fixes[n])
  IN frames[Len(fixes)]

DecodeDeltaBatch(frame) ==
  LET read[i \in 1 .. Len(frame.deltas) + 1] ==
        IF i = 1 THEN frame.first ELSE ApplyDelta(read[i - 1], frame.deltas[i - 1])
  IN read

-----------------------------------------------------------------------------
HoldFix(fix) ==
  /\ deltaAir = <<>>  \* bound: one batch at a time
  /\ Len(heldFixes) < MaxDeltaHeld
  /\ heldFixes # <<>> => Last(heldFixes).ts <= fix.ts
  /\ heldFixes' = Append(heldFixes, fix)
  /\ deltaRead' = <<>> /\ UNCHANGED deltaAir

\* sendFixes with TX_DELTA_BATCH: everything held goes out in as many frames as it takes.
SendHeld ==
  /\ heldFixes # <<>>
  /\ deltaAir' = EncodeDeltaFrames(heldFixes)
  /\ heldFixes' = <<>>
  /\ UNCHANGED deltaRead

\* The base hears the next frame: each fix is read beside the one it was made from.
ReadFrame ==
  /\ deltaAir # <<>>
  /\ LET got == DecodeDeltaBatch(Head(deltaAir))
     IN deltaRead' = [i \in 1 .. Len(got) |-> [got |-> got[i], was |-> Head(deltaAir).truth[i]]]
  /\ deltaAir' = Tail(deltaAir)
  /\ UNCHANGED heldFixes

LoseDeltaFrame ==
  /\ deltaAir # <<>>
  /\ deltaAir' = Tail(deltaAir) /\ deltaRead' = <<>>
  /\ UNCHANGED heldFixes

DeltaNext ==
  \/ \E fix \in DeltaFixes : HoldFix(fix)
  \/ SendHeld
  \/ ReadFrame
  \/ LoseDeltaFrame

DeltaSpec == DeltaInit /\ [][DeltaNext]_deltaVars

-----------------------------------------------------------------------------
DeltaTypeOK ==
  /\ heldFixes \in Seq(DeltaFixes) /\ Len(heldFixes) <= MaxDeltaHeld
  /\ \A i \in DOMAIN deltaAir :
       Len(deltaAir[i].deltas) < MaxDeltas /\ Len(deltaAir[i].truth) = Len(deltaAir[i].deltas) + 1
  /\ \A i \in DOMAIN deltaRead : deltaRead[i].was \in DeltaFixes

\* The error of one fix: rounded once, whatever came before it in the frame.
Near(got, was) ==
  /\ got.ts - was.ts \in 0 .. 1
  /\ got.pos = was.pos
  /\ got.speed - was.speed \in -2 .. 2
  /\ HeadingDiff(was.heading, got.heading) \in -10 .. 10

\* The fixes of a frame that is read are those that were held, however many it carries: rounding
\* does not add up along the frame (protocol.js:860, "prev being what the decoder will have"),
\* turns through north and stops are right, no change that does not fit is cut short, and time
\* does not run backwards.
DeltaIsClose ==
  /\ \A i \in DOMAIN deltaRead : Near(deltaRead[i].got, deltaRead[i].was)
  /\ \A i \in DOMAIN deltaRead : i > 1 => deltaRead[i].got.ts >= deltaRead[i - 1].got.ts

=============================================================================
