-------------------------------- MODULE MCFleet --------------------------------
(***************************************************************************)
(* The components that are not composed with each other, side by side: in  *)
(* a behaviour one of them, part, runs, and the others stay as they start. *)
(***************************************************************************)
EXTENDS TxQueue, BoatReports, RaceEvents, CourseMarks, PowerPlan, LogUpload, TrackStore, RoverLink,
        FrameScan, DeltaFrames, SimBoat, FleetStart, FrameKinds, FleetHealth, BaseReceiver

VARIABLE part

Parts == {"transmit", "reports", "events", "marks", "power", "logs", "tracks", "link", "scan",
          "deltas", "simulator", "fleet", "frames", "health", "receiver"}

-----------------------------------------------------------------------------
(* Values of the constants.                                                 *)

Steps == [join |-> <<1, 2>>, moving |-> <<1>>]

CourseA == [pin |-> <<0, 0>>, committeeStart |-> <<8, 0>>, committeeFinish |-> <<10, 0>>, finish |-> <<18, 0>>,
            windward |-> <<20, 5>>, leeward |-> <<20, -5>>, pinBoundary |-> TRUE]
TheCourses == [a |-> CourseA, b |-> [CourseA EXCEPT !.committeeFinish = <<10, 2>>, !.finish = <<18, 2>>, !.pinBoundary = FALSE]]
TheWaters == {<<7, -1>>, <<21, 3>>, <<19, 4>>, <<-14, -1>>}

TheTrack == {[at |-> 0, time |-> 1], [at |-> 1, time |-> 1]}

\* InOwnSlot, NothingStuck and WakeIsRetried are proved for an instance like this one (SlotsAreKept,
\* NothingGetsStuck, ReceiverIsWoken).
ASSUME FleetSlots == SlotsInCycle
ASSUME FleetFlush == FlushInTime /\ SlotIsShort
ASSUME FleetWakes == WakeTries # 0

\* All of SeenAsSailed is asked of this course.
ASSUME FleetSails == LinesAreLevel /\ LinesAreClose /\ TicksAreShort /\ GridIsClear

\* A frame of a fixed length, and one whose length its second byte tells.
TheTypes == {[sync |-> 3, header |-> 2, place |-> 1, counts |-> {}, unit |-> 0],
             [sync |-> 2, header |-> 2, place |-> 2, counts |-> {1, 2}, unit |-> 1]}

TheFixes == {[ts |-> 0, pos |-> 0, speed |-> 0, heading |-> 3599], [ts |-> 201, pos |-> 5, speed |-> 7, heading |-> 9],
             [ts |-> 402, pos |-> 9, speed |-> 4, heading |-> 1809], [ts |-> 603, pos |-> 9, speed |-> 700, heading |-> 19],
             [ts |-> 803, pos |-> 33000, speed |-> 693, heading |-> 29],
             [ts |-> 1004, pos |-> 33000, speed |-> 1, heading |-> 3600],
             [ts |-> 1004, pos |-> 32990, speed |-> 3, heading |-> 1800]}

ThePin == <<5, -5>>
TheStartEnd == <<5, 0>>
TheFinishEnd == <<6, 2>>
TheFlag == <<6, 6>>
TheGrid == {<<4, -4>>, <<4, -3>>}
TheAim == {<<6, 3>>, <<6, 5>>}

TheSites == {-250}

Fixed(speed, sats) == [ts |-> 1999, lat |-> -7, lon |-> 8, speed |-> speed, heading |-> 3600, ok |-> TRUE, carr |-> 2, sv |-> sats]
Witty(mode, halts) == [managed |-> TRUE, mode |-> mode, halts |-> halts, start |-> 0, end |-> 1439, lat |-> -3, lon |-> 4,
                       before |-> 254 + mode, after |-> 0, days |-> 366]
Shutdown(on) == [managed |-> TRUE, enabled |-> on, whenIdle |-> ~on, time |-> 1439, idle |-> 10, speed |-> 50]
Status(build, dirty, fix, battery) ==
  [id |-> 1, flags |-> 255, power |-> 1, sv |-> 40, fix |-> fix, build |-> build, dirty |-> dirty, battery |-> battery]
Frame(kind, of) == [kind |-> kind, of |-> of]
TheFrames ==
  {Frame("position", [id |-> 1, fix |-> Fixed(s, n)]) : s \in {0, 65535, 70000}, n \in {0, 31, 40}}
  \cup {Frame("batch", [id |-> 1, fixes |-> [i \in 1 .. n |-> Fixed(i, 10 * i)]]) : n \in 1 .. 4}
  \cup {Frame("marks", [marks |-> [i \in 1 .. 8 |-> <<i, -i>>], ip |-> 1, port |-> 65535, adminPort |-> 0, gate |-> g, name |-> n]) :
          g \in BOOLEAN, n \in {0, 5}}
  \cup {Frame("ping", [ts |-> t]) : t \in {0, 999, 1000}}
  \cup {Frame("schedule", [stamp |-> 7, witty |-> w, shutdown |-> s]) :
          w \in {NoPart} \cup {Witty(m, h) : m \in 0 .. 2, h \in BOOLEAN}, s \in {NoPart, Shutdown(TRUE), Shutdown(FALSE)}}
  \cup {Frame("hello", [id |-> 1])}
  \cup {Frame("status", Status(b, d, x, v)) : b \in {0, 32767, 40000}, d \in BOOLEAN,
          x \in {NoPvt, [type |-> 3, carr |-> 2]}, v \in {<<>>, <<0, 0>>, <<100, 255>>}}
  \cup {Frame("setMark", [id |-> 1, mark |-> m, continuous |-> c, lat |-> -90, lon |-> 180]) : m \in {0, 7}, c \in BOOLEAN}
  \cup {Frame("markLog", [id |-> 1, label |-> l]) : l \in {0, 5}}
  \cup {Frame("power", [action |-> a, sleepS |-> s, ids |-> [i \in 1 .. n |-> 1]]) :
          a \in {"sleep", "wake"}, s \in {0, 255}, n \in {0, 1, 18}}
  \cup {Frame("slotTable", [version |-> v, practice |-> p, slotCount |-> 3, width |-> 100, joinSlots |-> 1, entries |-> e]) :
          v \in {0, 127}, p \in BOOLEAN, e \in {<<>>, <<<<1, 0>>, <<2, 1>>>>}}

-----------------------------------------------------------------------------
\* A component with several initial states keeps to one of them while it does not run.
Init ==
  /\ part \in Parts
  /\ TxInit /\ ReportInit
  /\ RaceInit /\ (part = "events" \/ boat = CHOOSE at \in TheWaters : TRUE)
  /\ CourseInit /\ PowerInit
  /\ LogInit /\ (part = "logs" \/ bucket = CHOOSE b \in Buckets : TRUE)
  /\ TrackInit /\ (part = "tracks" \/ ofRegatta = CHOOSE r \in TrackRegattas : TRUE)
  /\ LinkInit /\ (part = "link" \/ gpsBody = "on")
  /\ ScanInit /\ DeltaInit
  /\ SimInit /\ (part = "simulator" \/ simBoat = CHOOSE b \in Launched : b.plan = "startOnly" \/ b.dwell > 0)
  /\ FleetInit /\ (part = "fleet" \/ bridged)
  /\ KindInit
  /\ HealthInit /\ (part = "health" \/ bursts)
  /\ ReceiverInit

Idles(name, own) == IF part = name THEN TRUE ELSE UNCHANGED own

Others ==
  /\ Idles("transmit", txVars) /\ Idles("reports", reportVars) /\ Idles("events", raceVars)
  /\ Idles("marks", courseVars) /\ Idles("power", powerVars) /\ Idles("logs", logVars)
  /\ Idles("tracks", trackVars) /\ Idles("link", linkVars) /\ Idles("scan", frameVars)
  /\ Idles("deltas", deltaVars) /\ Idles("simulator", simVars) /\ Idles("fleet", fleetVars)
  /\ Idles("frames", kindVars) /\ Idles("health", healthVars) /\ Idles("receiver", receiverVars)
  /\ UNCHANGED part

Next ==
  \/ part = "transmit" /\ TxNext /\ Others
  \/ part = "reports" /\ ReportNext /\ Others
  \/ part = "events" /\ RaceNext /\ Others
  \/ part = "marks" /\ CourseNext /\ Others
  \/ part = "power" /\ PowerNext /\ Others
  \/ part = "logs" /\ LogNext /\ Others
  \/ part = "tracks" /\ TrackNext /\ Others
  \/ part = "link" /\ LinkNext /\ Others
  \/ part = "scan" /\ ScanNext /\ Others
  \/ part = "deltas" /\ DeltaNext /\ Others
  \/ part = "simulator" /\ SimNext /\ Others
  \/ part = "fleet" /\ FleetNext /\ Others
  \/ part = "frames" /\ KindNext /\ Others
  \/ part = "health" /\ HealthNext /\ Others
  \/ part = "receiver" /\ ReceiverNext /\ Others

allVars == <<part, txVars, reportVars, raceVars, courseVars, powerVars, logVars, trackVars, linkVars,
             frameVars, deltaVars, simVars, fleetVars, kindVars, healthVars, receiverVars>>

Spec == Init /\ [][Next]_allVars

-----------------------------------------------------------------------------
\* The type invariant of the component that runs; that of the others holds of their initial states.
TypeOK ==
  CASE part = "transmit" -> TxTypeOK
    [] part = "reports" -> ReportTypeOK
    [] part = "events" -> RaceTypeOK
    [] part = "marks" -> CourseTypeOK
    [] part = "power" -> PowerTypeOK
    [] part = "logs" -> LogTypeOK
    [] part = "tracks" -> TrackTypeOK
    [] part = "link" -> LinkTypeOK
    [] part = "scan" -> ScanTypeOK
    [] part = "deltas" -> DeltaTypeOK
    [] part = "simulator" -> SimTypeOK
    [] part = "fleet" -> FleetTypeOK
    [] part = "frames" -> KindTypeOK
    [] part = "health" -> HealthTypeOK
    [] part = "receiver" -> ReceiverTypeOK

=============================================================================
