------------------------------- MODULE FleetStart -------------------------------
(***************************************************************************)
(* A simulated fleet: src/src/fleetSim.js starts one process per boat, one *)
(* after another, hears from each over its IPC channel when it waits for a *)
(* first fix and when it is on the grid, and passes the operator's start   *)
(* signal on to all of them. The agent of a boat (src/src/boatAgent.js)    *)
(* builds its boat only when it has heard the course, so the signal may    *)
(* come before the boat. With RF_BRIDGE all boats share one real radio,    *)
(* whose frames are written one by one with a gap between them.            *)
(***************************************************************************)
EXTENDS Integers, Sequences, FiniteSets

CONSTANTS
  FleetBoats,  \* fleetBoatIds
  QueueMost,   \* BRIDGE_QUEUE_MAX
  FrameMost,   \* bound: frames a boat sends through the bridge
  GapMs        \* BRIDGE_GAP_MS, 0 or 1

FleetAssumption ==
  /\ IsFiniteSet(FleetBoats) /\ FleetBoats # {}
  /\ QueueMost \in Nat \ {0} /\ FrameMost \in Nat /\ GapMs \in {0, 1}

ASSUME FleetAssumption

VARIABLES
  bridged,   \* RF_BRIDGE: the course comes over the radio, nothing is fetched
  fleet,     \* the fleet process: "fetching" the course, "running" or "over"
  pressed,   \* SPACE was pressed: started
  gridCount, \* boatsOnGrid
  unfixed,   \* boatsWaitingForFix
  stage,     \* a boat's process, and how far it is
  signalled, \* a boat's holdReleased
  post,      \* post[b]: messages on the way from the fleet to boat b
  reports,   \* reports[b]: messages on the way back
  sentOf,    \* sentOf[b]: frames boat b handed to the bridge
  bridge,    \* txQueue
  drains     \* draining: a timer for the next frame is armed

fleetVars == <<bridged, fleet, pressed, gridCount, unfixed, stage, signalled, post, reports, sentOf, bridge, drains>>
bridgeVars == <<bridged, sentOf, bridge, drains>>

\* A boat's process is not there yet, waits for the course, holds on the grid, races, or is gone.
Stages == {"unborn", "ashore", "held", "off", "gone"}
Running(b) == stage[b] \in {"ashore", "held", "off"}

FleetInit ==
  /\ bridged \in BOOLEAN
  /\ fleet = IF bridged THEN "running" ELSE "fetching"
  /\ pressed = FALSE /\ gridCount = 0 /\ unfixed = {}
  /\ stage = [b \in FleetBoats |-> "unborn"]
  /\ signalled = [b \in FleetBoats |-> FALSE]
  /\ post = [b \in FleetBoats |-> <<>>]
  /\ reports = [b \in FleetBoats |-> <<>>]
  /\ sentOf = [b \in FleetBoats |-> 0]
  /\ bridge = <<>> /\ drains = FALSE

\* ensureFreshMarksCached is done, or failed: then no boat is started.
MarksFetched ==
  /\ fleet = "fetching"
  /\ fleet' \in {"running", "over"}
  /\ UNCHANGED <<pressed, gridCount, unfixed, stage, signalled, post, reports, bridgeVars>>

\* startFleet spawns all at once; a delayed boat's process loads its agent later.
Spawned(b) ==
  /\ fleet = "running" /\ stage[b] = "unborn"
  /\ stage' = [stage EXCEPT ![b] = "ashore"]
  /\ UNCHANGED <<fleet, pressed, gridCount, unfixed, signalled, post, reports, bridgeVars>>

\* The heartbeat of an agent without a first fix.
StillWaiting(b) ==
  /\ stage[b] = "ashore" /\ reports[b] = <<>>
  /\ reports' = [reports EXCEPT ![b] = Append(@, "waiting-for-fix")]
  /\ UNCHANGED <<fleet, pressed, gridCount, unfixed, stage, signalled, post, bridgeVars>>

\* Mutant of OnTheGrid: a signal that came before the boat is forgotten.
OnTheGridUnaware(b) ==
  /\ stage[b] = "ashore"
  /\ stage' = [stage EXCEPT ![b] = "held"]
  /\ reports' = [reports EXCEPT ![b] = Append(@, "on-grid")]
  /\ UNCHANGED <<fleet, pressed, gridCount, unfixed, signalled, post, bridgeVars>>

\* startGpsSimIfReady: the course was heard, the boat is built and catches up on the signal.
OnTheGrid(b) ==
  /\ stage[b] = "ashore"
  /\ stage' = [stage EXCEPT ![b] = IF signalled[b] THEN "off" ELSE "held"]
  /\ reports' = IF signalled[b] THEN reports ELSE [reports EXCEPT ![b] = Append(@, "on-grid")]
  /\ UNCHANGED <<fleet, pressed, gridCount, unfixed, signalled, post, bridgeVars>>

\* The fleet hears a boat.
HearsBoat(b) ==
  /\ fleet = "running" /\ reports[b] # <<>>
  /\ reports' = [reports EXCEPT ![b] = Tail(@)]
  /\ IF Head(reports[b]) = "on-grid"
     THEN gridCount' = gridCount + 1 /\ unfixed' = unfixed \ {b}
     ELSE unfixed' = unfixed \cup {b} /\ UNCHANGED gridCount
  /\ UNCHANGED <<fleet, pressed, stage, signalled, post, bridgeVars>>

\* SPACE, once: every process still connected gets the message, its agent loaded yet or not.
SpacePressed ==
  /\ fleet = "running" /\ ~pressed
  /\ pressed' = TRUE
  /\ post' = [b \in FleetBoats |-> IF stage[b] = "gone" THEN post[b] ELSE Append(post[b], "start-race")]
  /\ UNCHANGED <<fleet, gridCount, unfixed, stage, signalled, reports, bridgeVars>>

\* releaseHold
HearsStart(b) ==
  /\ post[b] # <<>> /\ Running(b)
  /\ post' = [post EXCEPT ![b] = Tail(@)]
  /\ signalled' = [signalled EXCEPT ![b] = TRUE]
  /\ stage' = IF stage[b] = "held" THEN [stage EXCEPT ![b] = "off"] ELSE stage
  /\ UNCHANGED <<fleet, pressed, gridCount, unfixed, reports, bridgeVars>>

\* A boat that is through leaves, or is stopped with the fleet; the last one out ends the fleet.
Leaves(b) ==
  /\ stage[b] = "off" \/ (Running(b) /\ fleet = "over")
  /\ stage' = [stage EXCEPT ![b] = "gone"]
  /\ fleet' = IF \A c \in FleetBoats \ {b} : stage[c] = "gone" THEN "over" ELSE fleet
  /\ post' = [post EXCEPT ![b] = <<>>]
  /\ UNCHANGED <<pressed, gridCount, unfixed, signalled, reports, bridgeVars>>

\* Ctrl+C: before the boats are there it stops nothing.
FleetStops ==
  /\ fleet = "running" /\ \E b \in FleetBoats : Running(b)
  /\ fleet' = "over"
  /\ UNCHANGED <<pressed, gridCount, unfixed, stage, signalled, post, reports, bridgeVars>>

-----------------------------------------------------------------------------
(* The bridge.                                                              *)

Paced(q, frame) == Append(IF Len(q) >= QueueMost THEN Tail(q) ELSE q, frame)

\* A frame of a boat comes in: at once if nothing is paced, or it waits for its turn.
BridgeHears(b) ==
  /\ bridged /\ fleet = "running" /\ Running(b) /\ sentOf[b] < FrameMost
  /\ sentOf' = [sentOf EXCEPT ![b] = @ + 1]
  /\ bridge' = IF drains THEN Paced(bridge, b) ELSE bridge
  /\ drains' = (GapMs > 0)
  /\ UNCHANGED <<bridged, fleet, pressed, gridCount, unfixed, stage, signalled, post, reports>>

\* drain: write the next frame, or stop.
BridgeDrains ==
  /\ drains
  /\ drains' = (bridge # <<>>)
  /\ bridge' = IF bridge = <<>> THEN bridge ELSE Tail(bridge)
  /\ UNCHANGED <<fleet, pressed, gridCount, unfixed, stage, signalled, post, reports, bridged, sentOf>>

\* The fleet is started again.
FleetAgain ==
  /\ fleet = "over" /\ \A b \in FleetBoats : ~Running(b)
  /\ bridged' \in BOOLEAN
  /\ fleet' = IF bridged' THEN "running" ELSE "fetching"
  /\ pressed' = FALSE /\ gridCount' = 0 /\ unfixed' = {}
  /\ stage' = [b \in FleetBoats |-> "unborn"]
  /\ signalled' = [b \in FleetBoats |-> FALSE]
  /\ post' = [b \in FleetBoats |-> <<>>]
  /\ reports' = [b \in FleetBoats |-> <<>>]
  /\ sentOf' = [b \in FleetBoats |-> 0]
  /\ bridge' = <<>> /\ drains' = FALSE

FleetNext ==
  \/ MarksFetched \/ SpacePressed \/ FleetStops \/ BridgeDrains \/ FleetAgain
  \/ \E b \in FleetBoats : Spawned(b) \/ StillWaiting(b) \/ OnTheGrid(b) \/ HearsBoat(b)
       \/ HearsStart(b) \/ Leaves(b) \/ BridgeHears(b)

FleetSpec == FleetInit /\ [][FleetNext]_fleetVars

-----------------------------------------------------------------------------
FleetTypeOK ==
  /\ fleet \in {"fetching", "running", "over"}
  /\ stage \in [FleetBoats -> Stages]
  /\ gridCount \in 0 .. Cardinality(FleetBoats) /\ unfixed \subseteq FleetBoats
  /\ Len(bridge) <= QueueMost /\ sentOf \in [FleetBoats -> 0 .. FrameMost]

\* No boat of a started fleet is left holding on the grid: whichever comes first at a boat, its
\* course or the start signal, it races once both are there.
NoneLeftBehind ==
  \A b \in FleetBoats : pressed /\ stage[b] = "held" => post[b] # <<>>

=============================================================================
