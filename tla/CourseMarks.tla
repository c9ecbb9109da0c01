------------------------------ MODULE CourseMarks ------------------------------
(***************************************************************************)
(* The course of the selected regatta, which the base keeps twice: in      *)
(* memory (raceMarks of src/src/baseStation.js, what detectors and boats   *)
(* use) and in Redis under the regatta's own keys (src/src/redisStore.js). *)
(* RegattaUp writes the same keys. Edits, the look-up after a regatta is   *)
(* picked, the periodic look for outside changes and the check of the      *)
(* published on-grid zone are asynchronous functions: each is modelled as  *)
(* one step per stretch between two awaits, so all of them interleave.     *)
(*                                                                         *)
(* A command takes effect in Redis when it is issued, since the one        *)
(* connection keeps their order; a reply is used a step later. A place is  *)
(* a number, 0 where Redis has nothing. The pin stands for both ends of    *)
(* the start line, from which the on-grid zone and the pin boundary gate   *)
(* are computed: each is given by the pin's place it was computed with.    *)
(* Who a mark is assigned to is left out but for the base's own mark.      *)
(***************************************************************************)
EXTENDS Integers, Sequences, SequencesExt

CONSTANTS
  Regattas,    \* their ids
  Published,   \* those with a course in Redis from the start
  MarkPlaces,      \* where a mark can be, positive numbers
  DefaultAt,   \* where a course reset puts every mark
  MaxJobs,     \* bound: asynchronous edits and look-ups under way at a time
  MaxChecks,   \* bound: checks of the on-grid zone under way at a time
  MaxActs      \* bound: what operators, RegattaUp and failures do in a behaviour

CourseAssumption ==
  /\ MarkPlaces \subseteq Nat \ {0} /\ DefaultAt \in MarkPlaces /\ Published \subseteq Regattas
  /\ {MaxJobs, MaxChecks} \subseteq Nat \ {0}
ASSUME CourseAssumption

Marks == {"pin", "finish"}

VARIABLES
  running,    \* the base is up
  selected,   \* selectedRegatta, which currentRegattaId of redisStore follows
  remembered, \* regatta-id.txt
  ended,      \* the regattas whose last day is over
  redis,      \* the keys of each regatta, and of no regatta
  course,     \* raceMarks; history: of, the regatta whose keys they were read from
  jobs,       \* setMarkLocation and the other functions under way, see Job
  syncing,    \* syncMarksFromRedis under way
  checks,     \* the checks of the on-grid zone under way, oldest first
  assigned,   \* assignedMarkName
  posted,     \* lastPostedMarkPosition
  acts,       \* bound: see MaxActs
  healed      \* history: 1 once the marks were synced after the last disturbance, 2 once the zone was checked too

courseVars == <<running, selected, remembered, ended, redis, course, jobs, syncing, checks,
                assigned, posted, acts, healed>>

NoRegatta == "none"
NoMarks   == [pos |-> [m \in Marks |-> 0], gate |-> FALSE, known |-> FALSE, of |-> NoRegatta]
Idle      == [step |-> 0]
NoMark    == "no mark"

EmptyKeys == [pos |-> [m \in Marks |-> 0], \* mark:<name>
              on   |-> FALSE,              \* course:pin_boundary_enabled
              gate |-> 0,                  \* mark:pinBoundary
              zone |-> 0]                  \* course:on_grid_zone

\* An asynchronous function: what it is, how far it got, and what it holds across its awaits.
Job(op, mark, to, own, of, pos) ==
  [op |-> op, step |-> 1, mark |-> mark, to |-> to, own |-> own, of |-> of, pos |-> pos,
   on |-> FALSE]

CourseInit ==
  /\ running = FALSE
  /\ selected = NoRegatta
  /\ remembered = NoRegatta
  /\ ended = {}
  /\ redis = [r \in Regattas \cup {NoRegatta} |->
                IF r \in Published THEN [EmptyKeys EXCEPT !.pos = [m \in Marks |-> DefaultAt]]
                ELSE EmptyKeys]
  /\ course = NoMarks
  /\ jobs = <<>>
  /\ syncing = Idle
  /\ checks = <<>>
  /\ assigned = NoMark
  /\ posted = 0
  /\ acts = 0
  /\ healed = 0

-----------------------------------------------------------------------------
(* What the steps are made of. K is what Redis holds for the regatta of now. *)

Keys == redis[selected]

\* Commands of redisStore; each writes the keys of the regatta it was issued under.
PutMark(k, r, m, p) == [k EXCEPT ![r].pos[m] = p]
PutSwitch(k, r, on) == [k EXCEPT ![r].on = on]
PutZone(k, r, p)    == [k EXCEPT ![r].zone = p]
KeysCleared(k, r)       == [k EXCEPT ![r] = EmptyKeys]

\* getOrCreateMarks: a mark the look-up did not find gets its default place.
Missing(pos)        == {m \in Marks : pos[m] = 0}
Filled(pos)         == [m \in Marks |-> IF m \in Missing(pos) THEN DefaultAt ELSE pos[m]]
PutMissing(k, r, pos) == [k EXCEPT ![r].pos = [m \in Marks |-> IF m \in Missing(pos) THEN DefaultAt ELSE @[m]]]

\* Edits of the marks the sync must not overlap: markEdits.inFlight.
Editing == \E i \in 1 .. Len(jobs) : jobs[i].op \in {"set", "reset"}

\* A disturbance: until the marks and the zone have been looked at again, nothing is promised.
Disturbed == healed' = 0

\* raceMarks is another object, or an edit ended: a sync under way must not be used (its
\* raceMarks !== marksAtStart and markEdits.epoch !== epochAtStart).
Beside(s)    == IF s = Idle THEN s ELSE [s EXCEPT !.alone = FALSE]

\* Mutant of Overtaken: a sync does not notice that an edit ended.
EpochForgotten(s) == Beside(s)

Overtaken(s) == IF s = Idle THEN s ELSE [s EXCEPT !.clean = FALSE, !.alone = FALSE]
Touched(s, m) == IF s = Idle THEN s
                 ELSE [s EXCEPT !.alone = FALSE, !.touched = @ \cup {m}]
NotAlone     == checks' = [k \in DOMAIN checks |-> Beside(checks[k])]

Act == acts < MaxActs /\ acts' = acts + 1

\* broadcastMarksNow: the boats are told, and the zone is written, or checked first. Nothing keeps a
\* check from starting while others wait for Redis, which answers them in turn.
Broadcast(k, c, forced) ==
  IF forced /\ c.known /\ selected # NoRegatta THEN PutZone(k, selected, c.pos.pin)
  ELSE k
Checked(k, c) ==
  [zone |-> c.pos.pin, got |-> k[selected].zone, alone |-> jobs = <<>> /\ checks = <<>>]
ChecksZone(k, c) ==
  /\ Len(checks) < MaxChecks
  /\ checks' = Append([n \in DOMAIN checks |-> Beside(checks[n])], Checked(k, c))

\* republishPinBoundaryMark
Gated(k, c) == [k EXCEPT ![selected].gate = IF c.gate THEN c.pos.pin ELSE 0]

\* Job i goes on to step s, or ends.
Goes(i, s) == jobs' = [jobs EXCEPT ![i].step = s]
Ends(i)    == jobs' = RemoveAt(jobs, i)

\* Job i reads the marks, those of the regatta of now, and goes on to step s.
Reads(i, s) == jobs' = [jobs EXCEPT ![i].step = s, ![i].pos = Keys.pos, ![i].of = selected]

\* Start the asynchronous function j.
Starts(j) == Len(jobs) < MaxJobs /\ jobs' = Append(jobs, j)

-----------------------------------------------------------------------------
(* Edits of the marks.                                                      *)

\* setMarkLocation, from the map or from the base's own GPS (onFix), which posts the mark it
\* is assigned when it moved, one post at a time.
SetMark(m, p, own) ==
  /\ running /\ course.known /\ Act
  /\ own => /\ assigned = m /\ posted # p
            /\ \A i \in 1 .. Len(jobs) : ~jobs[i].own
  /\ Starts(Job("set", m, p, own, selected, EmptyKeys.pos))
  /\ redis' = PutMark(redis, selected, m, p)
  /\ syncing' = Touched(syncing, m)
  /\ NotAlone /\ Disturbed
  /\ UNCHANGED <<running, selected, remembered, ended, course, assigned, posted>>

\* Redis has the place; then who the mark is assigned to; then raceMarks has the place.
SetMarkGoesOn(i) ==
  LET j == jobs[i]
      done == [course EXCEPT !.pos[j.mark] = j.to]
      gate == j.mark = "pin" /\ course.gate
  IN /\ j.op = "set"
     /\ CASE j.step = 1 -> Goes(i, 2) /\ UNCHANGED <<course, redis, syncing, posted>>
          [] j.step = 2 /\ ~course.known ->
               Ends(i) /\ syncing' = Overtaken(syncing) /\ UNCHANGED <<course, redis, posted>>
          [] j.step = 2 /\ course.known /\ gate ->
               /\ course' = done
               /\ redis' = Gated(redis, done)
               /\ syncing' = Touched(syncing, j.mark)
               /\ Goes(i, 3) /\ UNCHANGED posted
          [] OTHER ->
               /\ course' = IF j.step = 2 THEN done ELSE course
               /\ redis' = Broadcast(redis, course', TRUE)
               /\ syncing' = Overtaken(Touched(syncing, j.mark))
               /\ posted' = IF j.own THEN j.to ELSE posted
               /\ Ends(i)

\* resetCourseToDefault: the keys go, then whatever is missing is written, then the zone.
ResetCourse ==
  /\ running /\ Act
  /\ Starts(Job("reset", NoMark, 0, FALSE, selected, EmptyKeys.pos))
  /\ syncing' = Beside(syncing)
  /\ NotAlone /\ Disturbed
  /\ UNCHANGED <<running, selected, remembered, ended, redis, course, assigned, posted>>

ResetGoesOn(i) ==
  LET j == jobs[i]
      fresh == [pos |-> j.pos, gate |-> FALSE, known |-> TRUE, of |-> j.of]
  IN /\ j.op = "reset"
     /\ UNCHANGED posted
     /\ \/ /\ j.step = 1
           /\ redis' = KeysCleared(redis, j.of)
           /\ Goes(i, 2) /\ UNCHANGED <<course, syncing>>
        \/ /\ j.step = 2
           /\ Reads(i, 3)
           /\ UNCHANGED <<redis, course, syncing>>
        \/ /\ j.step = 3
           /\ redis' = PutMissing(redis, selected, j.pos)
           /\ jobs' = [jobs EXCEPT ![i].step = 4, ![i].pos = Filled(j.pos)]
           /\ UNCHANGED <<course, syncing>>
        \/ /\ j.step = 4
           /\ redis' = PutZone(redis, selected, j.pos.pin)
           /\ Goes(i, 5) /\ UNCHANGED <<course, syncing>>
        \/ /\ j.step = 5
           /\ course' = fresh
           /\ redis' = Broadcast(redis, fresh, TRUE)
           /\ syncing' = Overtaken(syncing)
           /\ Ends(i)

\* setPinBoundaryEnabled changes raceMarks at once; no sync waits for it.
SetGate(on) ==
  /\ running /\ course.known /\ Act
  /\ Starts(Job("gate", NoMark, 0, FALSE, selected, EmptyKeys.pos))
  /\ course' = [course EXCEPT !.gate = on]
  /\ redis' = PutSwitch(redis, selected, on)
  /\ syncing' = Beside(syncing)
  /\ NotAlone /\ Disturbed
  /\ UNCHANGED <<running, selected, remembered, ended, assigned, posted>>

GateGoesOn(i) ==
  LET j == jobs[i] IN
  /\ j.op = "gate"
  /\ IF j.step = 1 /\ course.known
     THEN redis' = Gated(redis, course) /\ Goes(i, 2)
     ELSE redis' = Broadcast(redis, course, TRUE) /\ Ends(i)
  /\ UNCHANGED <<course, syncing, posted>>

-----------------------------------------------------------------------------
(* The regatta and its course.                                              *)

\* resolveCourseForCurrentRegatta; at startup it retries until a course is published.
Resolving(own) == Job("resolve", NoMark, 0, own, selected', redis[selected'].pos)

\* resolveMarks returned null: nothing is published, or a read failed.
ResolvedNone(i) ==
  /\ course' = NoMarks
  /\ syncing' = Overtaken(syncing)
  /\ IF jobs[i].own THEN Goes(i, 0) ELSE Ends(i)

ResolveGoesOn(i) ==
  LET j == jobs[i]
      found == [pos |-> j.pos, gate |-> j.on, known |-> TRUE, of |-> j.of]
  IN /\ j.op = "resolve"
     /\ UNCHANGED posted
     /\ \/ /\ j.step = 0 \* five seconds on, again, unless there is a course by now
           /\ IF course.known THEN Ends(i) ELSE Reads(i, 1)
           /\ UNCHANGED <<course, redis, syncing>>
        \/ /\ j.step = 1 /\ j.pos.finish = 0
           /\ ResolvedNone(i)
           /\ UNCHANGED redis
        \/ /\ j.step = 1 /\ j.pos.finish # 0
           /\ jobs' = [jobs EXCEPT ![i].step = 2, ![i].on = Keys.on]
           /\ UNCHANGED <<course, redis, syncing>>
        \/ /\ j.step = 2
           /\ course' = found
           /\ redis' = Gated(redis, found)
           /\ syncing' = Overtaken(syncing)
           /\ Goes(i, 3)
        \/ /\ j.step = 3
           /\ Ends(i)
           /\ UNCHANGED <<course, redis, syncing>>

\* A function's last reply lets it go on. A course just looked up is sent to the boats, and
\* the zone checked, by the last step of its look-up.
GoesOn(i) ==
  /\ SetMarkGoesOn(i) \/ ResetGoesOn(i) \/ GateGoesOn(i) \/ ResolveGoesOn(i)
  /\ IF jobs[i].op = "resolve" /\ jobs[i].step = 3 /\ course.known /\ selected # NoRegatta
     THEN ChecksZone(redis, course)
     ELSE NotAlone
  /\ Disturbed
  /\ UNCHANGED <<running, selected, remembered, ended, assigned, acts>>

\* A command of the function fails: the rest of it is not done. A look-up whose reads fail goes on
\* as if nothing were published; one that waits for its next try has no command to fail.
Fails(i) ==
  LET j == jobs[i] IN
  /\ Act
  /\ CASE j.op = "resolve" -> /\ j.step # 0
                              /\ IF j.step < 3 THEN ResolvedNone(i)
                                 ELSE Ends(i) /\ syncing' = Beside(syncing) /\ UNCHANGED course
       [] j.op = "gate" -> Ends(i) /\ syncing' = Beside(syncing) /\ UNCHANGED course
       [] OTHER -> Ends(i) /\ syncing' = Overtaken(syncing) /\ UNCHANGED course
  /\ NotAlone /\ Disturbed
  /\ UNCHANGED <<running, selected, remembered, ended, redis, assigned, posted>>

\* selectRegatta, on the dashboard: another regatta's course is looked up once.
SelectRegattaId(r) ==
  /\ running /\ r \notin ended
  /\ IF selected \in {r, NoRegatta} THEN UNCHANGED acts ELSE Act
  /\ selected' = r
  /\ remembered' = r
  /\ IF r = selected THEN UNCHANGED <<course, jobs, syncing>>
     ELSE course' = NoMarks /\ Starts(Resolving(FALSE)) /\ syncing' = Overtaken(syncing)
  /\ NotAlone /\ Disturbed
  /\ UNCHANGED <<running, ended, redis, assigned, posted>>

RegattaEnds(r) ==
  /\ Act /\ r = remembered /\ Regattas \ ended # {r}
  /\ ended' = ended \cup {r}
  /\ UNCHANGED <<running, selected, remembered, redis, course, jobs, syncing, checks,
                 assigned, posted, healed>>

\* refreshActiveRegattas forgets a selected regatta that has ended, but not its marks.
RefreshRegattas ==
  /\ running /\ selected \in ended
  /\ selected' = NoRegatta
  /\ remembered' = NoRegatta
  /\ syncing' = Beside(syncing)
  /\ NotAlone /\ Disturbed
  /\ UNCHANGED <<running, ended, redis, course, jobs, assigned, posted, acts>>

\* applyMarkAssignment
Assign(m) ==
  /\ running /\ m # assigned /\ Act
  /\ assigned' = m
  /\ posted' = 0
  /\ UNCHANGED <<running, selected, remembered, ended, redis, course, jobs, syncing, checks, healed>>

\* RegattaUp, or a tool run next to the base, moves a mark.
Outside(r, m, p) ==
  /\ Act
  /\ redis' = PutMark(redis, r, m, p)
  /\ syncing' = Beside(syncing)
  /\ NotAlone /\ Disturbed
  /\ UNCHANGED <<running, selected, remembered, ended, course, jobs, assigned, posted>>

-----------------------------------------------------------------------------
(* What comes round by itself.                                              *)

\* changedMarks: a mark Redis does not have is no change.
Changed(pos, fresh) == {m \in Marks : fresh[m] # 0 /\ fresh[m] # pos[m]}

SyncRead ==
  /\ running /\ syncing = Idle /\ course.known /\ selected # NoRegatta /\ ~Editing
  /\ syncing' = [step |-> 1, got |-> Keys.pos, clean |-> TRUE, touched |-> {}, alone |-> jobs = <<>>]
  /\ UNCHANGED <<running, selected, remembered, ended, redis, course, jobs, checks, assigned,
                 posted, acts, healed>>

SyncIsOver == syncing' = Idle /\ healed' = IF syncing.alone /\ healed = 0 THEN 1 ELSE healed

\* The rest of syncMarksFromRedis: with the pin goes the gate, and the zone after it.
SyncApply ==
  LET changed == Changed(course.pos, syncing.got)
      moved == [course EXCEPT !.pos = [m \in Marks |-> IF m \in changed THEN syncing.got[m] ELSE @[m]]]
  IN /\ syncing.step = 1
     /\ IF ~syncing.clean \/ Editing \/ changed = {}
        THEN SyncIsOver /\ UNCHANGED <<course, redis, checks>>
        ELSE /\ course' = moved
             /\ IF "pin" \in changed /\ course.gate
                THEN /\ redis' = Gated(redis, moved)
                     /\ syncing' = [syncing EXCEPT !.step = 2]
                     /\ UNCHANGED <<checks, healed>>
                ELSE /\ redis' = Broadcast(redis, moved, "pin" \in changed)
                     /\ IF "pin" \in changed \/ selected = NoRegatta THEN UNCHANGED checks
                        ELSE ChecksZone(redis, moved)
                     /\ SyncIsOver
     /\ UNCHANGED <<running, selected, remembered, ended, jobs, assigned, posted, acts>>

SyncGated ==
  /\ syncing.step = 2
  /\ redis' = Broadcast(redis, course, TRUE)
  /\ SyncIsOver
  /\ UNCHANGED <<running, selected, remembered, ended, course, jobs, checks, assigned, posted, acts>>

\* The read, or the write of the gate, fails: the sync ends there.
SyncFails ==
  /\ syncing # Idle /\ Act
  /\ syncing' = Idle
  /\ NotAlone /\ Disturbed
  /\ UNCHANGED <<running, selected, remembered, ended, redis, course, jobs, assigned, posted>>

\* Everything in memory is gone.
Lost ==
  /\ running' = FALSE
  /\ selected' = NoRegatta
  /\ course' = NoMarks
  /\ jobs' = <<>>
  /\ syncing' = Idle
  /\ checks' = <<>>
  /\ posted' = 0
  /\ healed' = 0
  /\ UNCHANGED <<remembered, ended, redis, assigned>>

\* broadcastMarksNow, each heartbeat: without a regatta it throws, and nobody catches that.
CourseHeartbeat ==
  /\ running /\ course.known
  /\ IF selected = NoRegatta THEN Lost /\ UNCHANGED acts
     ELSE /\ ChecksZone(redis, course)
          /\ UNCHANGED <<running, selected, remembered, ended, redis, course, jobs, syncing,
                         assigned, posted, acts, healed>>

\* The oldest check is answered: a zone that differs is written under the regatta of now.
HealedBy(c) == IF c.alone /\ c.zone = course.pos.pin /\ healed = 1 THEN 2 ELSE healed

\* Mutant of ZoneChecked: the zone is only written where none is published.
ZoneOnlyOnce ==
  /\ checks # <<>>
  /\ redis' = IF Head(checks).got # 0 THEN redis ELSE PutZone(redis, selected, Head(checks).zone)
  /\ checks' = Tail(checks)
  /\ healed' = HealedBy(Head(checks))
  /\ UNCHANGED <<running, selected, remembered, ended, course, jobs, syncing, assigned, posted, acts>>

ZoneChecked ==
  /\ checks # <<>>
  /\ redis' = IF Head(checks).got = Head(checks).zone THEN redis
              ELSE PutZone(redis, selected, Head(checks).zone)
  /\ checks' = Tail(checks)
  /\ healed' = HealedBy(Head(checks))
  /\ UNCHANGED <<running, selected, remembered, ended, course, jobs, syncing, assigned, posted, acts>>

\* Its read or its write fails: the zone stays as it is.
CheckFails ==
  /\ checks # <<>> /\ Act
  /\ checks' = Tail(checks)
  /\ UNCHANGED <<running, selected, remembered, ended, redis, course, jobs, syncing, assigned, posted, healed>>

\* The base stops at any point.
Stops == running /\ Act /\ Lost

\* It comes up with the regatta it remembers, or with the one somebody picks on the terminal or
\* that is closest to today, or with none while nobody can be asked and none is known.

AtBoot ==
  IF remembered \in Regattas \ ended THEN {remembered} ELSE (Regattas \ ended) \cup {NoRegatta}

Boot ==
  /\ ~running
  /\ running' = TRUE
  /\ \E r \in AtBoot :
       /\ selected' = r
       /\ remembered' = IF r = NoRegatta THEN remembered ELSE r
       /\ jobs' = IF r = NoRegatta THEN <<>> ELSE <<Resolving(TRUE)>>
  /\ UNCHANGED <<ended, redis, course, syncing, checks, assigned, posted, acts, healed>>

CourseNext ==
  \/ \E m \in Marks, p \in MarkPlaces, own \in BOOLEAN : SetMark(m, p, own)
  \/ ResetCourse
  \/ \E on \in BOOLEAN : SetGate(on)
  \/ \E i \in 1 .. Len(jobs) : GoesOn(i) \/ Fails(i)
  \/ \E r \in Regattas : SelectRegattaId(r) \/ RegattaEnds(r)
  \/ RefreshRegattas
  \/ \E m \in Marks \cup {NoMark} : Assign(m)
  \/ \E r \in Regattas, m \in Marks, p \in MarkPlaces : Outside(r, m, p)
  \/ SyncRead \/ SyncApply \/ SyncGated \/ SyncFails
  \/ CourseHeartbeat \/ ZoneChecked \/ CheckFails
  \/ Stops \/ Boot

CourseSpec == CourseInit /\ [][CourseNext]_courseVars

-----------------------------------------------------------------------------
CourseTypeOK ==
  /\ {selected, remembered} \subseteq Regattas \cup {NoRegatta}
  /\ ended \subseteq Regattas
  /\ \A r \in DOMAIN redis, m \in Marks : redis[r].pos[m] \in MarkPlaces \cup {0}
  /\ \A m \in Marks : course.pos[m] \in MarkPlaces \cup {0}
  /\ {running, course.gate, course.known} \subseteq BOOLEAN
  /\ Len(jobs) <= MaxJobs
  /\ syncing.step \in 0 .. 2 /\ Len(checks) <= MaxChecks
  /\ assigned \in Marks \cup {NoMark}
  /\ healed \in 0 .. 2

\* Whatever edits, regatta switches, resets, outside writes, failures and restarts did to each
\* other, the first sync nothing comes between moves the marks in memory to where Redis has them for
\* the selected regatta, as many of them as Redis has (changedMarks leaves the others alone, whosever
\* they are: see SelectedCourseOnly). The first check of the zone after it that none of these and no
\* other check comes between makes the published on-grid zone that of the marks in memory, and the
\* checks that overlap later leave it so.
CourseHeals ==
  running /\ course.known /\ selected # NoRegatta =>
    /\ healed >= 1 => \A m \in Marks : Keys.pos[m] \in {0, course.pos[m]}
    /\ healed = 2 => Keys.zone = course.pos.pin

\* With no look-up under way, the marks in memory were read for the regatta that is selected: "a
\* regatta switch can never leave the PREVIOUS regatta's course sitting there mislabeled as the new
\* one's" (baseStation.js:1607-1609).
SelectedCourseOnly ==
  running /\ course.known /\ selected # NoRegatta /\ (\A i \in 1 .. Len(jobs) : jobs[i].op # "resolve")
    => course.of = selected

\* A sync never puts back the place a mark had before an edit made here: what an edit has
\* touched since the sync read Redis, the sync leaves alone.
EditKept ==
  [][SyncApply /\ course' # course
       => \A m \in syncing.touched : course'.pos[m] = course.pos[m]]_courseVars

=============================================================================
