------------------------------ MODULE TrackStore ------------------------------
(***************************************************************************)
(* How a boat's fixes get into the track of its regatta in Redis           *)
(* (src/src/redisStore.js): implausible fixes and those of a boat that     *)
(* hardly moved are left out, the rest wait for the end of the tick and go *)
(* out as one batch. Batches may be under way together; one that fails is  *)
(* given up, and the boats in it are let through the movement gate again.  *)
(*                                                                         *)
(* One boat is modelled: boats share batches but no state. A fix is its    *)
(* place on a line and its time; fixes come in any order.                  *)
(***************************************************************************)
EXTENDS Integers, Sequences, FiniteSets, SequencesExt, FiniteSetsExt

CONSTANTS
  TrackRegattas, \* their ids
  TrackFixes,    \* the fixes that may come: records of a place on a line and a time from 1
  MinMovement,   \* minMovementM
  TrackKeeps,    \* retention: a fix older than the newest by this much may be dropped
  TrackCap,      \* REDIS_TRACK_MAX_MB, in fixes
  MaxQueue,      \* bound: fixes waiting in a tick
  MaxFlights,    \* bound: batches under way
  MaxHeld        \* bound: fixes waiting or under way

TrackAssumption ==
  /\ TrackFixes \subseteq [at : Nat, time : Nat \ {0}] /\ TrackCap \in Nat \ {0}
  /\ {MaxQueue, MaxFlights, MaxHeld} \subseteq Nat
ASSUME TrackAssumption

VARIABLES
  ofRegatta,  \* currentRegattaId
  gateAt,     \* lastRecordedPosition: a place, or NoSpot
  waiting,    \* _pendingFixes
  flights,    \* batches sent to Redis and not answered, oldest first
  track,      \* the track of each regatta: fixes
  lastFix,    \* boats:last of each regatta: a time, 0 if none
  lastAt,     \* lastPositionAt, what the base believes of it
  known,      \* the regattas whose boats:known has the boat
  healthy,    \* trackWriteHealthy
  dropped     \* history: gateAt, if a fix there left a track because of its limits since

trackVars == <<ofRegatta, gateAt, waiting, flights, track, lastFix, lastAt, known, healthy, dropped>>

NoSpot == -1

TrackInit ==
  /\ ofRegatta \in TrackRegattas
  /\ gateAt = NoSpot
  /\ waiting = <<>>
  /\ flights = <<>>
  /\ track = [r \in TrackRegattas |-> {}]
  /\ lastFix = [r \in TrackRegattas |-> 0]
  /\ lastAt = lastFix
  /\ known = {}
  /\ healthy = TRUE
  /\ dropped = {}

StepFrom(p, q) == IF p > q THEN p - q ELSE q - p

\* decideRecord and writeFix: the gate moves when the fix is queued, not when it is written.
RecordFix(f, plausible) ==
  /\ Len(waiting) < MaxQueue /\ FoldSeq(LAMBDA fl, n : n + Len(fl.batch), Len(waiting), flights) < MaxHeld
  /\ IF ~plausible \/ (gateAt # NoSpot /\ StepFrom(gateAt, f.at) < MinMovement)
     THEN UNCHANGED <<gateAt, waiting, dropped>>
     ELSE gateAt' = f.at /\ waiting' = Append(waiting, [fix |-> f, of |-> ofRegatta]) /\ dropped' = {}
  /\ UNCHANGED <<ofRegatta, flights, track, lastFix, lastAt, known, healthy>>

Newest(batch, r) == Max({b.fix.time : b \in {c \in ToSet(batch) : c.of = r}} \cup {0})

\* _flushFixes up to its await: boats:last is to be written where the batch has a newer fix
\* than the last one the base knows was written.
Flush ==
  /\ waiting # <<>> /\ Len(flights) < MaxFlights
  /\ flights' = Append(flights,
       [batch |-> waiting,
        last |-> [r \in TrackRegattas |->
                    IF Newest(waiting, r) > lastAt[r] THEN Newest(waiting, r) ELSE 0]])
  /\ waiting' = <<>>
  /\ UNCHANGED <<ofRegatta, gateAt, track, lastFix, lastAt, known, healthy, dropped>>

\* What a batch puts into Redis; the pipeline is answered in order.
WithTrack(fl) == [r \in TrackRegattas |->
                    track[r] \cup {b.fix : b \in {c \in ToSet(fl.batch) : c.of = r}}]
WithLast(l, fl) == [r \in TrackRegattas |-> IF fl.last[r] > 0 THEN fl.last[r] ELSE l[r]]
InBatch(fl) == {b.of : b \in ToSet(fl.batch)}

FlushOk ==
  /\ flights # <<>>
  /\ LET fl == Head(flights) IN
     /\ track' = WithTrack(fl)
     /\ lastFix' = WithLast(lastFix, fl)
     /\ lastAt' = WithLast(lastAt, fl)
     /\ known' = known \cup InBatch(fl)
  /\ healthy' = TRUE
  /\ flights' = Tail(flights)
  /\ UNCHANGED <<ofRegatta, gateAt, waiting, dropped>>

\* Mutant of FlushFails: the boats of a failed batch stay behind the gate.
FlushFailsQuietly(tracked, lasted) ==
  /\ flights # <<>> /\ ~(tracked /\ lasted)
  /\ track' = IF tracked THEN WithTrack(Head(flights)) ELSE track
  /\ lastFix' = IF lasted THEN WithLast(lastFix, Head(flights)) ELSE lastFix
  /\ healthy' = FALSE
  /\ flights' = Tail(flights)
  /\ UNCHANGED <<ofRegatta, gateAt, waiting, lastAt, known, dropped>>

\* One of the two commands, or both, fail.
FlushFails(tracked, lasted) ==
  /\ flights # <<>> /\ ~(tracked /\ lasted)
  /\ track' = IF tracked THEN WithTrack(Head(flights)) ELSE track
  /\ lastFix' = IF lasted THEN WithLast(lastFix, Head(flights)) ELSE lastFix
  /\ gateAt' = NoSpot /\ dropped' = {}
  /\ healthy' = FALSE
  /\ flights' = Tail(flights)
  /\ UNCHANGED <<ofRegatta, waiting, lastAt, known>>

\* _keepRollingWindow and _capTrackSize: the oldest fix goes.
Trim(r) ==
  LET oldest == Min({f.time : f \in track[r]})
      newest == Max({f.time : f \in track[r]})
  IN /\ track[r] # {}
     /\ Cardinality(track[r]) > TrackCap \/ newest - oldest >= TrackKeeps
     /\ track' = [track EXCEPT ![r] = {f \in @ : f.time # oldest}]
     /\ dropped' = dropped \cup ({gateAt} \cap {f.at : f \in {g \in track[r] : g.time = oldest}})
     /\ UNCHANGED <<ofRegatta, gateAt, waiting, flights, lastFix, lastAt, known, healthy>>

\* setCurrentRegatta: what is queued keeps the regatta it was queued for.
SetCurrentRegatta(r) ==
  /\ r # ofRegatta
  /\ ofRegatta' = r
  /\ UNCHANGED <<gateAt, waiting, flights, track, lastFix, lastAt, known, healthy, dropped>>

\* The base stops: what was queued is lost, and so is the gate.
StoreRestarts ==
  /\ gateAt' = NoSpot /\ dropped' = {}
  /\ waiting' = <<>>
  /\ flights' = <<>>
  /\ lastAt' = [r \in TrackRegattas |-> 0]
  /\ healthy' = TRUE
  /\ UNCHANGED <<ofRegatta, track, lastFix, known>>

TrackNext ==
  \/ \E f \in TrackFixes, plausible \in BOOLEAN : RecordFix(f, plausible)
  \/ Flush \/ FlushOk
  \/ \E tracked, lasted \in BOOLEAN : FlushFails(tracked, lasted)
  \/ \E r \in TrackRegattas : Trim(r) \/ SetCurrentRegatta(r)
  \/ StoreRestarts

TrackSpec == TrackInit /\ [][TrackNext]_trackVars

-----------------------------------------------------------------------------
TrackTypeOK ==
  /\ ofRegatta \in TrackRegattas
  /\ gateAt \in {f.at : f \in TrackFixes} \cup {NoSpot}
  /\ Len(waiting) <= MaxQueue /\ Len(flights) <= MaxFlights
  /\ \A r \in TrackRegattas : track[r] \subseteq TrackFixes /\ lastFix[r] \in {f.time : f \in TrackFixes} \cup {0}
  /\ healthy \in BOOLEAN

\* A boat whose fixes are left out for lack of movement has the place it is measured from in
\* a track, or on its way there: no fix that was lost on the way to Redis keeps the ones
\* after it out, with several batches under way and some of them failing in part.
GateIsWritten ==
  gateAt # NoSpot =>
    gateAt \in {b.fix.at : b \in ToSet(waiting)} \cup dropped
               \cup (UNION {{b.fix.at : b \in ToSet(flights[i].batch)} : i \in 1 .. Len(flights)})
               \cup (UNION {{f.at : f \in track[r]} : r \in TrackRegattas})

=============================================================================
