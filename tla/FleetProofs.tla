----------------------------- MODULE FleetProofs -----------------------------
(***************************************************************************)
(* The components side by side (MCFleet). A behaviour of the whole is one  *)
(* of each component, the one that runs and those that stay as they start, *)
(* so that what BoatProofs, BaseProofs and RadioProofs prove of a          *)
(* component holds of the whole: its types, and all that the run fleet_day *)
(* checks but the laps of a simulated boat.                                *)
(***************************************************************************)
EXTENDS MCFleet, BoatProofs, BaseProofs, RadioProofs

\* Nothing changes at all.
LEMMA NothingMoves ==
  ASSUME UNCHANGED allVars
  PROVE  /\ UNCHANGED txVars
         /\ UNCHANGED reportVars
         /\ UNCHANGED raceVars
         /\ UNCHANGED courseVars
         /\ UNCHANGED powerVars
         /\ UNCHANGED logVars
         /\ UNCHANGED trackVars
         /\ UNCHANGED linkVars
         /\ UNCHANGED frameVars
         /\ UNCHANGED deltaVars
         /\ UNCHANGED simVars
         /\ UNCHANGED fleetVars
         /\ UNCHANGED kindVars
         /\ UNCHANGED healthVars
         /\ UNCHANGED receiverVars
BY DEF allVars

\* A step of the whole is a step of each component, or leaves it alone.
LEMMA StepOfEach ==
  ASSUME [Next]_allVars
  PROVE  /\ [TxNext]_txVars
         /\ [ReportNext]_reportVars
         /\ [RaceNext]_raceVars
         /\ [CourseNext]_courseVars
         /\ [PowerNext]_powerVars
         /\ [LogNext]_logVars
         /\ [TrackNext]_trackVars
         /\ [LinkNext]_linkVars
         /\ [ScanNext]_frameVars
         /\ [DeltaNext]_deltaVars
         /\ [SimNext]_simVars
         /\ [FleetNext]_fleetVars
         /\ [KindNext]_kindVars
         /\ [HealthNext]_healthVars
         /\ [ReceiverNext]_receiverVars
<1>1. CASE UNCHANGED allVars
  BY <1>1, NothingMoves
<1>2. CASE Next
  <2>1. [TxNext]_txVars
    BY <1>2 DEF Next, Others, Idles
  <2>2. [ReportNext]_reportVars
    BY <1>2 DEF Next, Others, Idles
  <2>3. [RaceNext]_raceVars
    BY <1>2 DEF Next, Others, Idles
  <2>4. [CourseNext]_courseVars
    BY <1>2 DEF Next, Others, Idles
  <2>5. [PowerNext]_powerVars
    BY <1>2 DEF Next, Others, Idles
  <2>6. [LogNext]_logVars
    BY <1>2 DEF Next, Others, Idles
  <2>7. [TrackNext]_trackVars
    BY <1>2 DEF Next, Others, Idles
  <2>8. [LinkNext]_linkVars
    BY <1>2 DEF Next, Others, Idles
  <2>9. [ScanNext]_frameVars
    BY <1>2 DEF Next, Others, Idles
  <2>10. [DeltaNext]_deltaVars
    BY <1>2 DEF Next, Others, Idles
  <2>11. [SimNext]_simVars
    BY <1>2 DEF Next, Others, Idles
  <2>12. [FleetNext]_fleetVars
    BY <1>2 DEF Next, Others, Idles
  <2>13. [KindNext]_kindVars
    BY <1>2 DEF Next, Others, Idles
  <2>14. [HealthNext]_healthVars
    BY <1>2 DEF Next, Others, Idles
  <2>15. [ReceiverNext]_receiverVars
    BY <1>2 DEF Next, Others, Idles
  <2> QED BY <2>1, <2>2, <2>3, <2>4, <2>5, <2>6, <2>7, <2>8, <2>9, <2>10, <2>11, <2>12, <2>13, <2>14, <2>15
<1> QED BY <1>1, <1>2

\* The whole (MCFleet) implements each of its fifteen components: what one of them does and the
\* others' rest is a behaviour of all of them.
THEOREM EachIsKept ==
  Spec => /\ TxSpec /\ ReportSpec /\ RaceSpec /\ CourseSpec /\ PowerSpec
          /\ LogSpec /\ TrackSpec /\ LinkSpec /\ ScanSpec /\ DeltaSpec
          /\ SimSpec /\ FleetSpec /\ KindSpec /\ HealthSpec /\ ReceiverSpec
<1>1. Init => /\ TxInit /\ ReportInit /\ RaceInit /\ CourseInit /\ PowerInit
              /\ LogInit /\ TrackInit /\ LinkInit /\ ScanInit /\ DeltaInit
              /\ SimInit /\ FleetInit /\ KindInit /\ HealthInit /\ ReceiverInit
  BY DEF Init
<1> QED
  BY <1>1, StepOfEach, PTL DEF Spec, TxSpec, ReportSpec, RaceSpec, CourseSpec, PowerSpec, LogSpec, TrackSpec, LinkSpec, ScanSpec, DeltaSpec, SimSpec, FleetSpec, KindSpec, HealthSpec, ReceiverSpec

-----------------------------------------------------------------------------
\* All state of the fifteen components is of its type, whether they run or not.
AllTypes ==
  /\ TxTypeOK /\ ReportTypeOK /\ RaceTypeOK /\ CourseTypeOK /\ PowerTypeOK
  /\ LogTypeOK /\ TrackTypeOK /\ LinkTypeOK /\ ScanTypeOK /\ DeltaTypeOK
  /\ SimTypeOK /\ FleetTypeOK /\ KindTypeOK /\ HealthTypeOK /\ ReceiverTypeOK

\* One component runs, and keeps running.
LEMMA OneRuns == Spec => [](part \in Parts)
<1>1. Init => part \in Parts
  BY DEF Init
<1>2. part \in Parts /\ [Next]_allVars => (part \in Parts)'
  BY DEF Next, Others, allVars
<1> QED BY <1>1, <1>2, PTL DEF Spec

\* The types of all that the base station, the boats and the simulator keep (fleet_day): queues,
\* counters and timers stay within their bounds, in every component and for all constants.
THEOREM TypesHold == Spec => []TypeOK
<1>1. AllTypes /\ part \in Parts => TypeOK
  BY DEF AllTypes, TypeOK, Parts
<1>2. Spec => []AllTypes
  <2>1. TxSpec => []TxTypeOK
    BY TxTypesHold
  <2>2. ReportSpec => []ReportTypeOK
    BY ReportTypeCorrect
  <2>3. RaceSpec => []RaceTypeOK
    BY RaceTypeCorrect
  <2>4. CourseSpec => []CourseTypeOK
    BY CourseTypeCorrect
  <2>5. PowerSpec => []PowerTypeOK
    BY PowerTypeCorrect
  <2>6. LogSpec => []LogTypeOK
    BY LogTypeCorrect
  <2>7. TrackSpec => []TrackTypeOK
    BY TrackTypeCorrect
  <2>8. LinkSpec => []LinkTypeOK
    BY LinkTypeCorrect
  <2>9. ScanSpec => []ScanTypeOK
    BY ScanTypesHold
  <2>10. DeltaSpec => []DeltaTypeOK
    BY DeltaTypesHold
  <2>11. SimSpec => []SimTypeOK
    BY SimTypeCorrect
  <2>12. FleetSpec => []FleetTypeOK
    BY FleetTypeCorrect
  <2>13. KindSpec => []KindTypeOK
    BY KindTypesHold
  <2>14. HealthSpec => []HealthTypeOK
    BY HealthTypeCorrect
  <2>15. ReceiverSpec => []ReceiverTypeOK
    BY ReceiverTypeCorrect
  <2> QED BY EachIsKept, <2>1, <2>2, <2>3, <2>4, <2>5, <2>6, <2>7, <2>8, <2>9, <2>10, <2>11, <2>12, <2>13, <2>14, <2>15, PTL DEF AllTypes
<1> QED BY <1>1, <1>2, OneRuns, PTL

\* Of the whole, all that fleet_day checks but SeenAsSailed: boats transmit in their own slots and
\* their queues do not get stuck, laps and grid reports are true, marks heal and edits are kept,
\* logs that are marked are stored, frames are read as they were sent, and the rest.
THEOREM FleetIsSafe ==
  Spec => /\ [](NothingStuck /\ GateHonest /\ NoFalseLap /\ CourseHeals /\ MarkedIsStored /\ GateIsWritten)
          /\ [](WakeIsRetried /\ FramesGetThrough /\ FramesReadAsSent /\ NoneLeftBehind /\ NoFalseAlarm /\ ModeIsShown)
          /\ InOwnSlot /\ OnGridTold /\ EditKept /\ SchedulesKept
<1>1. TxSpec => InOwnSlot
  BY SlotsAreKept, FleetSlots
<1>2. TxSpec => []NothingStuck
  BY NothingGetsStuck, FleetFlush
<1>3. ReportSpec => []GateHonest
  BY GateIsHonest
<1>4. RaceSpec => []NoFalseLap /\ OnGridTold
  BY LapsAreTrue, GridIsTold, PTL
<1>5. CourseSpec => []CourseHeals /\ EditKept
  BY MarksHeal, EditsAreKept, PTL
<1>6. PowerSpec => SchedulesKept
  BY ShutdownsAreKept
<1>7. LogSpec => []MarkedIsStored
  BY MarkedAreSafe
<1>8. TrackSpec => []GateIsWritten
  BY GateHoldsNoLostFix
<1>9. LinkSpec => []WakeIsRetried
  BY ReceiverIsWoken, FleetWakes
<1>10. ScanSpec => []FramesGetThrough
  BY FramesArrive
<1>11. DeltaSpec /\ KindSpec => []FramesReadAsSent
  BY FramesAreRead
<1>12. FleetSpec => []NoneLeftBehind
  BY SignalReachesAll
<1>13. HealthSpec => []NoFalseAlarm
  BY AlarmsAreTrue
<1>14. ReceiverSpec => []ModeIsShown
  BY ModesAreShown
<1> QED BY EachIsKept, <1>1, <1>2, <1>3, <1>4, <1>5, <1>6, <1>7, <1>8, <1>9, <1>10, <1>11, <1>12, <1>13, <1>14, PTL
=============================================================================
