----------------------------- MODULE BoatProofs -----------------------------
(***************************************************************************)
(* Theorems about four parts of a boat that do not meet in the model: its  *)
(* GPS sleep (RoverLink), its planned shutdowns (PowerPlan), its reports   *)
(* (BoatReports) and, where it is simulated, how it sails (SimBoat).       *)
(***************************************************************************)
EXTENDS RoverLink, PowerPlan, BoatReports, SimBoat, FiniteSetTheorems, WellFoundedInduction, TLAPS

-----------------------------------------------------------------------------
(***************************************************************************)
(* RoverLink: a boat that is awake does not leave its GPS receiver asleep, *)
(* for any number of retries but none.                                     *)
(***************************************************************************)

\* The part of the type invariant the argument uses.
RetryTypes ==
  /\ port \in {"open", "closed"} /\ gpsBody \in {"on", "entering", "backup"}
  /\ gpsDown \in BOOLEAN /\ retryOn \in BOOLEAN /\ fooled \in BOOLEAN
  /\ tries \in Nat

\* The wake's timer runs only until the first fix, and of a wake that found its receiver on the
\* way down all retries are left, for the timer is longer than the way.
RetriesLeft ==
  /\ retryOn => waking = "first"
  /\ gpsBody = "entering" /\ ~gpsDown => (retryOn /\ tries = 0) \/ fooled
  /\ gpsBody = "backup" /\ ~gpsDown => (retryOn /\ tries = 0) \/ port = "closed" \/ fooled

RetryInv == RetryTypes /\ RetriesLeft

\* A boat starts with its port closed.
LEMMA RetryInit == LinkInit => RetryInv
<1> SUFFICES ASSUME LinkInit PROVE RetryInv
  OBVIOUS
<1>1. /\ port = "closed" /\ gpsBody \in {"on", "backup"}
      /\ gpsDown = FALSE /\ retryOn = FALSE /\ fooled = FALSE /\ tries = 0
  BY DEF LinkInit
<1> QED
  BY <1>1 DEF RetryInv, RetryTypes, RetriesLeft

\* Every step keeps the retries that are still needed.
LEMMA RetryStep ==
  ASSUME WakeTries # 0, RetryInv, [LinkNext]_linkVars
  PROVE  RetryInv'
<1> USE DEF RetryInv, RetryTypes, RetriesLeft
<1>1. CASE UNCHANGED linkVars
  BY <1>1 DEF linkVars, helloVars, bodyVars, gpsVars, markVars
<1>2. CASE RadioConnects \/ RadioDrops \/ HelloStarts \/ HelloTick \/ BaseFallsSilent \/ HearPing
           \/ HearMarks \/ Answer
  <2>1. UNCHANGED gpsVars
    BY <1>2 DEF RadioConnects, RadioDrops, HelloStarts, HelloTick, BaseFallsSilent, HearPing, HearMarks, Answer
  <2> QED BY <2>1 DEF gpsVars
<1>3. ASSUME NEW s \in {"nothing", "other", "pvt"}, LineChanges(s) PROVE RetryInv'
  BY <1>3 DEF LineChanges, gpsVars
<1>4. CASE HearRtcm
  BY <1>4 DEF HearRtcm, Woken
<1>5. CASE RoverNaps
  BY <1>5 DEF RoverNaps
<1>6. CASE RoverWakes
  BY <1>6 DEF RoverWakes, Woken
<1>7. CASE WakeAgain
  <2>1. CASE waking = "first" /\ tries < WakeTries
    BY <1>7, <2>1 DEF WakeAgain, Woken
  <2>2. CASE ~(waking = "first" /\ tries < WakeTries)
    \* The timer ran out with the tries used up, so one of them has reached the receiver.
    <3>1. retryOn' = FALSE /\ UNCHANGED <<tries, gpsBody, port, gpsDown, waking, fooled>> /\ gpsBody # "entering"
          /\ retryOn
      BY <1>7, <2>2 DEF WakeAgain
    <3>2. tries # 0
      BY <2>2, <3>1, LinkAssumption DEF LinkAssumption
    <3> QED BY <3>1, <3>2
  <2> QED BY <2>1, <2>2
<1>8. CASE GoesDown
  BY <1>8 DEF GoesDown
<1>9. CASE PortOpens
  BY <1>9 DEF PortOpens
<1>10. CASE PortCloses
  BY <1>10 DEF PortCloses
<1>11. CASE PollSignals
  BY <1>11 DEF PollSignals, Woken
<1>12. ASSUME NEW valid \in BOOLEAN, NEW rtk \in BOOLEAN, GpsFix(valid, rtk) PROVE RetryInv'
  <2>1. CASE gpsDown
    BY <1>12, <2>1 DEF GpsFix
  <2>2. CASE ~gpsDown
    \* A fix ends the repeats: of a receiver that is on, or of one on its way down, which it fools.
    BY <1>12, <2>2 DEF GpsFix
  <2> QED BY <2>1, <2>2
<1>13. ASSUME NEW b \in Buoys \cup {NoBuoy}, SetMarkName(b) PROVE RetryInv'
  BY <1>13 DEF SetMarkName, gpsVars
<1>14. CASE RoverRestarts
  BY <1>14 DEF RoverRestarts
<1> QED
  BY <1>1, <1>2, <1>3, <1>4, <1>5, <1>6, <1>7, <1>8, <1>9, <1>10, <1>11, <1>12, <1>13, <1>14 DEF LinkNext

\* However bytes, fixes and naps interleave with the receiver going down and its port opening and
\* closing, a receiver that sleeps under a boat that believes it awake is going to be woken, as
\* long as the wake is retried at all (GpsSleep of gpsSleep.js and openGps of boatAgent.js).
THEOREM ReceiverIsWoken ==
  ASSUME WakeTries # 0
  PROVE  LinkSpec => []WakeIsRetried
<1>1. RetryInv => WakeIsRetried
  BY DEF RetryInv, RetryTypes, RetriesLeft, WakeIsRetried
<1> QED
  BY <1>1, RetryInit, RetryStep, PTL DEF LinkSpec

\* What a boat does beside its reports stays of its types.
LEMMA LinkTypesInit == LinkInit => LinkTypeOK
<1> SUFFICES ASSUME LinkInit PROVE LinkTypeOK
  OBVIOUS
<1>1. 0 \in 0 .. WakeTries
  BY LinkAssumption DEF LinkAssumption
<1> QED
  BY <1>1 DEF LinkInit, LinkTypeOK

LEMMA LinkTypesStep ==
  ASSUME LinkTypeOK, [LinkNext]_linkVars
  PROVE  LinkTypeOK'
<1> USE DEF LinkTypeOK
<1>0. WakeTries \in Nat /\ 0 \in 0 .. WakeTries
  BY LinkAssumption DEF LinkAssumption
<1>1. CASE UNCHANGED linkVars
  BY <1>1 DEF linkVars, helloVars, bodyVars, gpsVars, markVars
<1>2. CASE RadioConnects \/ RadioDrops \/ HelloStarts \/ HelloTick \/ BaseFallsSilent \/ HearMarks
  BY <1>2 DEF RadioConnects, RadioDrops, HelloStarts, HelloTick, BaseFallsSilent, HearMarks, bodyVars, gpsVars, markVars, helloVars
<1>3. CASE HearPing \/ Answer
  BY <1>3 DEF HearPing, Answer, HasTransmitted, bodyVars, gpsVars, markVars, helloVars
<1>4. ASSUME NEW s \in {"nothing", "other", "pvt"}, LineChanges(s) PROVE LinkTypeOK'
  BY <1>4 DEF LineChanges, gpsVars, markVars, helloVars
<1>5. CASE HearRtcm \/ PollSignals
  BY <1>5 DEF HearRtcm, PollSignals, Woken, markVars, helloVars, bodyVars
<1>6. CASE RoverNaps \/ RoverWakes
  BY <1>0, <1>6 DEF RoverNaps, RoverWakes, Woken, markVars, helloVars, bodyVars
<1>7. CASE WakeAgain
  <2>1. tries' \in 0 .. WakeTries
    <3>1. tries \in Nat /\ tries <= WakeTries
      BY <1>0
    <3>2. CASE waking = "first" /\ tries < WakeTries
      BY <1>0, <1>7, <3>1, <3>2 DEF WakeAgain
    <3>3. CASE ~(waking = "first" /\ tries < WakeTries)
      BY <1>7, <3>3 DEF WakeAgain
    <3> QED BY <3>2, <3>3
  <2> QED
    BY <1>7, <2>1 DEF WakeAgain, Woken, markVars, helloVars, bodyVars
<1>8. CASE GoesDown \/ PortOpens \/ PortCloses
  BY <1>8 DEF GoesDown, PortOpens, PortCloses, markVars, helloVars, bodyVars
<1>9. ASSUME NEW valid \in BOOLEAN, NEW rtk \in BOOLEAN, GpsFix(valid, rtk) PROVE LinkTypeOK'
  <2>1. CASE gpsDown
    BY <1>9, <2>1 DEF GpsFix
  <2>2. CASE ~gpsDown
    BY <1>9, <2>2 DEF GpsFix, HasTransmitted
  <2> QED BY <2>1, <2>2
<1>10. ASSUME NEW b \in Buoys \cup {NoBuoy}, SetMarkName(b) PROVE LinkTypeOK'
  BY <1>10 DEF SetMarkName, gpsVars, bodyVars, helloVars
<1>11. CASE RoverRestarts
  BY <1>0, <1>11 DEF RoverRestarts
<1> QED
  BY <1>1, <1>2, <1>3, <1>4, <1>5, <1>6, <1>7, <1>8, <1>9, <1>10, <1>11 DEF LinkNext

\* The link's variables have their types, with the retries of a wake counted up to their limit.
THEOREM LinkTypeCorrect == LinkSpec => []LinkTypeOK
BY LinkTypesInit, LinkTypesStep, PTL DEF LinkSpec

-----------------------------------------------------------------------------
(***************************************************************************)
(* PowerPlan: every shutdown at a quiet time was asked for or planned, for *)
(* any times of the day and any record of what the boat was told.          *)
(***************************************************************************)

Settings == CutSettings \cup {NoCut}
Orders   == [at : CutTimes \cup {0}, idle : BOOLEAN]
Names    == Modes \cup {Off, NoPlan}

\* What the arguments use of the types.
PowerTypes ==
  /\ cut \in Settings /\ cutSaved \in Settings /\ cutDone \in [ok : BOOLEAN, cut : Settings]
  /\ cutLive \in Orders /\ cutKept \in Orders
  /\ planDone \in [ok : BOOLEAN, plan : Names, left : Int]
  /\ plan \in [mode : Names, on : BOOLEAN] /\ planSaved \in [mode : Names, on : BOOLEAN]
  /\ applyingPlan \in Names /\ planFile \in Names
  /\ boatUp \in BOOLEAN /\ shutting \in BOOLEAN /\ sleepMode \in BOOLEAN
  /\ cutTorn \in BOOLEAN /\ planTorn \in BOOLEAN
  /\ idleSince \in Int /\ idleSince >= NotIdle
  /\ calm \in Nat /\ hour \in Int

\* The file of a schedule is written before its script runs, and from then until the record is
\* written too, the record is not trusted.
ScriptHasFile == applyingPlan # NoPlan => planFile = applyingPlan /\ planTorn

\* The scheduler counts only while it has a time and the boat is up, and no further than the boat
\* has been awake and at rest.
IdleIsCalm ==
  /\ cutLive.at = 0 \/ ~boatUp => idleSince = NotIdle \/ shutting
  /\ ~boatUp => ~shutting
  /\ idleSince # NotIdle /\ ~shutting => calm > idleSince \/ calm > IdleFor

PowerInv == PowerTypes /\ RecordTold /\ ScriptHasFile /\ IdleIsCalm

LEMMA ParamsType ==
  ASSUME NEW c \in Settings
  PROVE  Params(c) \in Orders
<1>1. CASE c = NoCut
  BY <1>1 DEF Params, NoCut, Orders
<1>2. CASE c \in CutSettings
  BY <1>2 DEF Params, CutSettings, Orders
<1> QED BY <1>1, <1>2 DEF Settings

LEMMA PowerInitInv == PowerInit => PowerInv
<1> SUFFICES ASSUME PowerInit PROVE PowerInv
  OBVIOUS
<1> USE DEF PowerInit
<1>1. PowerTypes
  <2>1. cut \in Settings /\ cutSaved \in Settings
    BY DEF Settings
  <2>2. cutDone \in [ok : BOOLEAN, cut : Settings]
    BY DEF Settings, Unset
  <2>3. cutLive \in Orders /\ cutKept \in Orders
    BY DEF Orders
  <2>4. planDone \in [ok : BOOLEAN, plan : Names, left : Int]
    BY DEF Plain, Names
  <2>5. plan \in [mode : Names, on : BOOLEAN] /\ planSaved \in [mode : Names, on : BOOLEAN]
    BY DEF Names
  <2>6. applyingPlan \in Names /\ planFile \in Names
    BY DEF Names
  <2>7. idleSince \in Int /\ idleSince >= NotIdle /\ calm \in Nat /\ hour \in Int
    BY DEF NotIdle
  <2>8. {boatUp, shutting, sleepMode, cutTorn, planTorn} \subseteq BOOLEAN
    OBVIOUS
  <2> HIDE DEF PowerInit
  <2> QED
    BY <2>1, <2>2, <2>3, <2>4, <2>5, <2>6, <2>7, <2>8 DEF PowerTypes
<1>2. RecordTold
  BY DEF RecordTold, Unset, Plain
<1>3. ScriptHasFile /\ IdleIsCalm
  BY DEF ScriptHasFile, IdleIsCalm, NotIdle
<1> QED BY <1>1, <1>2, <1>3 DEF PowerInv

\* The types, by what they are of.
BaseTypes ==
  /\ cut \in Settings /\ cutSaved \in Settings
  /\ plan \in [mode : Names, on : BOOLEAN] /\ planSaved \in [mode : Names, on : BOOLEAN]
CutTypes ==
  /\ cutDone \in [ok : BOOLEAN, cut : Settings]
  /\ cutLive \in Orders /\ cutKept \in Orders
  /\ idleSince \in Int /\ idleSince >= NotIdle
  /\ shutting \in BOOLEAN /\ cutTorn \in BOOLEAN
PlanTypes ==
  /\ planDone \in [ok : BOOLEAN, plan : Names, left : Int]
  /\ applyingPlan \in Names /\ planFile \in Names
  /\ planTorn \in BOOLEAN

\* And the two halves of RecordTold.
CutTold ==
  cutDone.ok /\ ~cutTorn => /\ boatUp => cutLive.at = Params(cutDone.cut).at
                            /\ cutKept.at = Params(cutDone.cut).at
PlanTold == planDone.ok /\ ~planTorn => planFile = planDone.plan

LEMMA PowerInvParts ==
  PowerInv <=> /\ BaseTypes /\ CutTypes /\ PlanTypes
               /\ boatUp \in BOOLEAN /\ sleepMode \in BOOLEAN /\ calm \in Nat /\ hour \in Int
               /\ CutTold /\ PlanTold /\ ScriptHasFile /\ IdleIsCalm
<1>1. PowerTypes <=> /\ BaseTypes /\ CutTypes /\ PlanTypes
                     /\ boatUp \in BOOLEAN /\ sleepMode \in BOOLEAN /\ calm \in Nat /\ hour \in Int
  BY DEF PowerTypes, BaseTypes, CutTypes, PlanTypes
<1>2. RecordTold <=> CutTold /\ PlanTold
  BY DEF RecordTold, CutTold, PlanTold
<1> QED BY <1>1, <1>2 DEF PowerInv

LEMMA PowerInvWhole ==
  (/\ BaseTypes /\ CutTypes /\ PlanTypes
   /\ boatUp \in BOOLEAN /\ sleepMode \in BOOLEAN /\ calm \in Nat /\ hour \in Int
   /\ CutTold /\ PlanTold /\ ScriptHasFile /\ IdleIsCalm)' => PowerInv'
<1>1. (BaseTypes /\ CutTypes /\ PlanTypes
       /\ boatUp \in BOOLEAN /\ sleepMode \in BOOLEAN /\ calm \in Nat /\ hour \in Int)' => PowerTypes'
  BY DEF PowerTypes, BaseTypes, CutTypes, PlanTypes
<1>2. (CutTold /\ PlanTold)' => RecordTold'
  BY DEF RecordTold, CutTold, PlanTold
<1> QED BY <1>1, <1>2 DEF PowerInv

\* A boat that hears the base's setting: what it recorded is what it does, whichever of its two
\* files could be written, and it counts from the beginning.
LEMMA CutHeard ==
  ASSUME PowerInv, NEW c \in Settings, NEW kept \in BOOLEAN, NEW noted \in BOOLEAN,
         HearCut(c, kept, noted), boatUp, UNCHANGED <<boatUp, calm>>
  PROVE  CutTypes' /\ CutTold' /\ IdleIsCalm' /\ shutting' = shutting
<1>0. CutTypes /\ CutTold /\ IdleIsCalm
  BY PowerInvParts
<1>1. CASE UNCHANGED cutParts
  BY <1>0, <1>1 DEF cutParts, CutTypes, CutTold, IdleIsCalm
<1>2. CASE ~UNCHANGED cutParts
  <2>1. /\ IF shutting THEN UNCHANGED <<cutLive, cutKept, idleSince>>
           ELSE /\ cutLive' = Params(c)
                /\ cutKept' = IF kept THEN Params(c) ELSE cutKept
                /\ idleSince' = NotIdle
        /\ cutDone' = IF noted THEN [ok |-> ~shutting, cut |-> c] ELSE cutDone
        /\ cutTorn' = (~noted \/ (~kept /\ ~shutting) \/ (shutting /\ cutTorn))
        /\ UNCHANGED shutting
    BY <1>2 DEF HearCut
  <2>2. Params(c) \in Orders
    BY ParamsType
  <2>3. cutLive' \in Orders /\ cutKept' \in Orders
    BY <1>0, <2>1, <2>2 DEF CutTypes
  <2>4. cutDone' \in [ok : BOOLEAN, cut : Settings]
    BY <1>0, <2>1 DEF CutTypes
  <2>5. idleSince' \in Int /\ idleSince' >= NotIdle
    BY <1>0, <2>1 DEF CutTypes, NotIdle
  <2>6. CutTypes'
    BY <1>0, <2>1, <2>3, <2>4, <2>5 DEF CutTypes
  <2>7. CutTold'
    <3>1. CASE ~noted
      BY <2>1, <3>1 DEF CutTold
    <3>2. CASE noted /\ shutting
      BY <2>1, <3>2 DEF CutTold
    <3>3. CASE noted /\ ~shutting
      <4>1. CASE kept
        BY <2>1, <3>3, <4>1 DEF CutTold
      <4>2. CASE ~kept
        BY <2>1, <3>3, <4>2 DEF CutTold
      <4> QED BY <4>1, <4>2
    <3> QED BY <3>1, <3>2, <3>3
  <2>8. IdleIsCalm'
    BY <1>0, <2>1 DEF IdleIsCalm
  <2> QED BY <2>1, <2>6, <2>7, <2>8
<1> QED BY <1>1, <1>2

\* A boat that hears the base's schedule has its file before the script runs.
LEMMA PlanHeard ==
  ASSUME PowerInv, NEW p \in Names, HearPlan(p)
  PROVE  PlanTypes' /\ PlanTold' /\ ScriptHasFile'
<1>0. PlanTypes /\ PlanTold /\ ScriptHasFile
  BY PowerInvParts
<1>1. CASE UNCHANGED planParts
  BY <1>0, <1>1 DEF planParts, PlanTypes, PlanTold, ScriptHasFile
<1>2. CASE ~UNCHANGED planParts
  BY <1>0, <1>2 DEF HearPlan, PlanTypes, PlanTold, ScriptHasFile
<1> QED BY <1>1, <1>2

\* What only the base's side of the model does.
LEMMA BaseOnly ==
  ASSUME PowerInv, BaseTypes', UNCHANGED <<cutParts, planParts, boatUp, sleepMode, calm, hour>>
  PROVE  PowerInv' /\ UNCHANGED shutting
<1>1. CutTypes' /\ PlanTypes' /\ CutTold' /\ PlanTold' /\ ScriptHasFile' /\ IdleIsCalm'
  BY PowerInvParts DEF cutParts, planParts, CutTypes, PlanTypes, CutTold, PlanTold, ScriptHasFile, IdleIsCalm
<1>2. PowerInv'
  BY <1>1, PowerInvParts, PowerInvWhole
<1> QED BY <1>2 DEF cutParts

\* What SchedulesKept says of a shutdown that begins.
ShutsInTime ==
  ~shutting /\ shutting' => hour' >= cutLive.at /\ (cutLive.idle => calm' > IdleFor)

\* A tick: a boat that shuts down is past its time, and one that has to be idle was at rest for all
\* of it, however the scheduler counted.
LEMMA Ticks ==
  ASSUME PowerInv, NEW moving \in BOOLEAN, PowerTick(moving)
  PROVE  PowerInv' /\ ShutsInTime
<1> USE PowerAssumption DEF PowerAssumption
<1>0. CutTypes /\ IdleIsCalm /\ CutTold /\ boatUp \in BOOLEAN /\ sleepMode \in BOOLEAN /\ calm \in Nat
      /\ hour \in Int
  BY PowerInvParts
<1>1. calm' = IF ~boatUp \/ moving \/ sleepMode THEN 0 ELSE IF calm > IdleFor THEN calm ELSE calm + 1
  BY DEF PowerTick
<1>2. UNCHANGED <<baseParts, planParts, boatUp, cutDone, cutLive, cutKept, cutTorn, sleepMode>>
  BY DEF PowerTick
<1>3. cutLive.at \in CutTimes \cup {0} /\ cutLive.at \in Int /\ cutLive.idle \in BOOLEAN
  <2>1. cutLive.at \in CutTimes \cup {0} /\ cutLive.idle \in BOOLEAN
    BY <1>0 DEF CutTypes, Orders
  <2>2. \A t \in CutTimes \cup {0} : t \in Int
    OBVIOUS
  <2> QED BY <2>1, <2>2
<1>4. hour' \in Int /\ calm' \in Nat
  <2>1. hour' = (hour + 1) % Day
    BY DEF PowerTick
  <2> QED BY <1>0, <1>1, <2>1
<1>5. idleSince' \in Int /\ idleSince' >= NotIdle /\ shutting' \in BOOLEAN /\ IdleIsCalm' /\ ShutsInTime
  <2>1. CASE ~boatUp
    BY <1>0, <1>1, <1>2, <2>1 DEF PowerTick, CutTypes, IdleIsCalm, ShutsInTime
  <2>2. CASE boatUp /\ (shutting \/ cutLive.at = 0)
    <3>1. UNCHANGED <<idleSince, shutting>>
      BY <2>2 DEF PowerTick, Check
    <3> QED BY <1>0, <1>1, <1>2, <2>2, <3>1 DEF CutTypes, IdleIsCalm, ShutsInTime
  <2>3. CASE boatUp /\ ~shutting /\ cutLive.at # 0 /\ sleepMode
    <3>1. idleSince' = NotIdle /\ UNCHANGED shutting
      BY <2>3 DEF PowerTick, Check
    <3> QED BY <1>0, <1>2, <2>3, <3>1 DEF CutTypes, IdleIsCalm, ShutsInTime, NotIdle
  <2>4. CASE boatUp /\ ~shutting /\ cutLive.at # 0 /\ ~sleepMode
    <3> DEFINE e == Evaluated(hour', moving)
               n == IF idleSince = NotIdle THEN 0 ELSE idleSince + 1
    <3>1. idleSince' = (IF e.down THEN 0 ELSE e.since) /\ shutting' = e.down
      BY <2>4 DEF PowerTick, Check
    <3>2. CASE hour' < cutLive.at \/ (cutLive.idle /\ moving)
      <4>1. idleSince' = NotIdle /\ shutting' = FALSE
        BY <3>1, <3>2 DEF Evaluated
      <4>2. IdleIsCalm' /\ ShutsInTime
        BY <1>2, <2>4, <4>1 DEF IdleIsCalm, ShutsInTime
      <4>3. idleSince' \in Int /\ idleSince' >= NotIdle
        BY <4>1 DEF NotIdle
      <4>4. shutting' \in BOOLEAN
        BY <4>1
      <4> QED BY <4>2, <4>3, <4>4
    <3>3. CASE ~(hour' < cutLive.at \/ (cutLive.idle /\ moving)) /\ ~cutLive.idle
      <4>1. idleSince' = 0 /\ shutting' = TRUE
        BY <3>1, <3>3 DEF Evaluated
      <4>2. hour' >= cutLive.at
        BY <1>3, <1>4, <3>3
      <4> QED BY <1>2, <2>4, <3>3, <4>1, <4>2 DEF IdleIsCalm, ShutsInTime, NotIdle
    <3>4. CASE ~(hour' < cutLive.at \/ (cutLive.idle /\ moving)) /\ cutLive.idle
      <4>1. idleSince' = (IF n >= IdleFor THEN 0 ELSE n) /\ shutting' = (n >= IdleFor)
        BY <3>1, <3>4 DEF Evaluated
      <4>2. hour' >= cutLive.at
        BY <1>3, <1>4, <3>4
      <4>3. n \in Nat
        BY <1>0 DEF CutTypes, NotIdle
      <4>4. calm' > n \/ calm' > IdleFor
        BY <1>0, <1>1, <2>4, <3>4 DEF IdleIsCalm, NotIdle, CutTypes
      <4> HIDE DEF n
      <4> QED BY <1>2, <2>4, <3>4, <4>1, <4>2, <4>3, <4>4, <1>4 DEF IdleIsCalm, ShutsInTime, NotIdle
    <3> QED BY <3>2, <3>3, <3>4
  <2> QED BY <1>0, <2>1, <2>2, <2>3, <2>4
<1>6. CutTypes' /\ CutTold'
  BY <1>0, <1>2, <1>5 DEF CutTypes, CutTold
<1>7. BaseTypes' /\ PlanTypes' /\ PlanTold' /\ ScriptHasFile'
  BY <1>2, PowerInvParts DEF baseParts, planParts, BaseTypes, PlanTypes, PlanTold, ScriptHasFile
<1> QED BY <1>0, <1>2, <1>4, <1>5, <1>6, <1>7, PowerInvWhole

\* Every other step.
LEMMA PowerSteps ==
  ASSUME PowerInv, [PowerNext]_powerVars
  PROVE  PowerInv' /\ ShutsInTime
<1>0. /\ BaseTypes /\ CutTypes /\ PlanTypes
      /\ boatUp \in BOOLEAN /\ sleepMode \in BOOLEAN /\ calm \in Nat /\ hour \in Int
      /\ CutTold /\ PlanTold /\ ScriptHasFile /\ IdleIsCalm
  BY PowerInvParts
<1>1. CASE UNCHANGED powerVars
  BY <1>0, <1>1, BaseOnly DEF powerVars, BaseTypes, cutParts, planParts, ShutsInTime
<1>2. CASE SendPower
  <2>1. boatUp /\ UNCHANGED <<baseParts, boatUp, hour, sleepMode, calm>>
    BY <1>2 DEF SendPower
  <2>2. PICK kept \in BOOLEAN, noted \in BOOLEAN : HearCut(cut, kept, noted)
    BY <1>2 DEF SendPower
  <2>3. CutTypes' /\ CutTold' /\ IdleIsCalm' /\ shutting' = shutting
    BY <1>0, <2>1, <2>2, CutHeard DEF BaseTypes
  <2>4. PICK p \in Names : HearPlan(p)
    BY <1>0, <1>2 DEF SendPower, BaseTypes, Names
  <2>5. PlanTypes' /\ PlanTold' /\ ScriptHasFile'
    BY <2>4, PlanHeard
  <2>6. BaseTypes'
    BY <1>0, <2>1 DEF BaseTypes, baseParts
  <2> QED BY <1>0, <2>1, <2>3, <2>5, <2>6, PowerInvWhole DEF ShutsInTime
<1>3. ASSUME NEW ok \in BOOLEAN, NEW noted \in BOOLEAN, PlanApplied(ok, noted)
      PROVE  PowerInv' /\ ShutsInTime
  <2>1. UNCHANGED <<baseParts, cutParts, boatUp, planFile, hour, sleepMode, calm>>
    BY <1>3 DEF PlanApplied
  <2>2. BaseTypes' /\ CutTypes' /\ CutTold' /\ IdleIsCalm' /\ shutting' = shutting
    BY <1>0, <2>1 DEF baseParts, cutParts, BaseTypes, CutTypes, CutTold, IdleIsCalm
  <2>3. applyingPlan' = NoPlan /\ planTorn' = ~noted /\ applyingPlan # NoPlan /\ planFile = applyingPlan
    BY <1>0, <1>3 DEF PlanApplied, ScriptHasFile
  <2>4. PlanTypes'
    <3>1. (IF applyingPlan = "sun" THEN SunRuns ELSE 0) \in Int
      BY PowerAssumption DEF PowerAssumption
    <3>2. planDone' \in [ok : BOOLEAN, plan : Names, left : Int]
      BY <1>0, <1>3, <3>1 DEF PlanApplied, PlanTypes
    <3>3. NoPlan \in Names
      BY DEF Names
    <3> QED BY <1>0, <1>3, <2>1, <2>3, <3>2, <3>3 DEF PlanTypes
  <2>5. PlanTold' /\ ScriptHasFile'
    BY <1>3, <2>1, <2>3 DEF PlanApplied, PlanTold, ScriptHasFile
  <2> QED BY <1>0, <2>1, <2>2, <2>4, <2>5, PowerInvWhole DEF ShutsInTime
<1>4. CASE RunsOut
  <2>1. planDone' = [planDone EXCEPT !.left = @ - 1]
        /\ UNCHANGED <<baseParts, cutParts, planFile, applyingPlan, planTorn, boatUp, hour, sleepMode, calm>>
    BY <1>4 DEF RunsOut
  <2>2. BaseTypes' /\ CutTypes' /\ CutTold' /\ IdleIsCalm' /\ shutting' = shutting
    BY <1>0, <2>1 DEF baseParts, cutParts, BaseTypes, CutTypes, CutTold, IdleIsCalm
  <2>3. PlanTypes' /\ planDone'.ok = planDone.ok /\ planDone'.plan = planDone.plan
    BY <1>0, <2>1 DEF PlanTypes
  <2>4. PlanTold' /\ ScriptHasFile'
    BY <1>0, <2>1, <2>3 DEF PlanTold, ScriptHasFile
  <2> QED BY <1>0, <2>1, <2>2, <2>3, <2>4, PowerInvWhole DEF ShutsInTime
<1>5. ASSUME NEW m \in Modes, NEW on \in BOOLEAN, NEW saved \in BOOLEAN, SetWitty(m, on, saved)
      PROVE  PowerInv' /\ ShutsInTime
  <2>1. UNCHANGED <<cutParts, planParts, boatUp, sleepMode, calm, hour>>
    BY <1>5 DEF SetWitty
  <2>2. [mode |-> m, on |-> on] \in [mode : Names, on : BOOLEAN]
    BY DEF Names
  <2>3. BaseTypes'
    BY <1>0, <1>5, <2>2 DEF SetWitty, BaseTypes
  <2> QED BY <2>1, <2>3, BaseOnly DEF ShutsInTime
<1>6. ASSUME NEW c \in CutSettings, NEW saved \in BOOLEAN, SetShutdown(c, saved)
      PROVE  PowerInv' /\ ShutsInTime
  <2>1. UNCHANGED <<cutParts, planParts, boatUp, sleepMode, calm, hour>>
    BY <1>6 DEF SetShutdown
  <2>2. BaseTypes'
    BY <1>0, <1>6 DEF SetShutdown, BaseTypes, Settings
  <2> QED BY <2>1, <2>2, BaseOnly DEF ShutsInTime
<1>7. CASE BaseRestarts
  <2>1. UNCHANGED <<cutParts, planParts, boatUp, sleepMode, calm, hour>>
    BY <1>7 DEF BaseRestarts
  <2>2. BaseTypes'
    BY <1>0, <1>7 DEF BaseRestarts, BaseTypes
  <2> QED BY <2>1, <2>2, BaseOnly DEF ShutsInTime
<1>8. ASSUME NEW at \in CutTimes \cup {0}, SetOwnShutdown(at)
      PROVE  PowerInv' /\ ShutsInTime
  <2>1. /\ UNCHANGED <<baseParts, planParts, cutDone, shutting, boatUp, hour, sleepMode, calm>>
        /\ cutLive' = [cutLive EXCEPT !.at = at] /\ cutKept' = cutLive' /\ idleSince' = NotIdle /\ cutTorn' = TRUE
    BY <1>8 DEF SetOwnShutdown
  <2>2. BaseTypes' /\ PlanTypes' /\ PlanTold' /\ ScriptHasFile'
    BY <1>0, <2>1 DEF baseParts, planParts, BaseTypes, PlanTypes, PlanTold, ScriptHasFile
  <2>3. cutLive' \in Orders
    BY <1>0, <2>1 DEF CutTypes, Orders
  <2>4. CutTypes'
    BY <1>0, <2>1, <2>3 DEF CutTypes, NotIdle
  <2>5. CutTold' /\ IdleIsCalm'
    BY <1>0, <2>1 DEF CutTold, IdleIsCalm
  <2> QED BY <1>0, <2>1, <2>2, <2>4, <2>5, PowerInvWhole DEF ShutsInTime
<1>9. ASSUME NEW moving \in BOOLEAN, PowerTick(moving)
      PROVE  PowerInv' /\ ShutsInTime
  BY <1>9, Ticks
<1>10. CASE SleepOrWake
  <2>1. UNCHANGED <<baseParts, cutParts, planParts, boatUp, hour, calm>> /\ sleepMode' = ~sleepMode
    BY <1>10 DEF SleepOrWake
  <2>2. BaseTypes' /\ CutTypes' /\ PlanTypes' /\ CutTold' /\ PlanTold' /\ ScriptHasFile' /\ IdleIsCalm'
        /\ shutting' = shutting
    BY <1>0, <2>1 DEF baseParts, cutParts, planParts, BaseTypes, CutTypes, PlanTypes, CutTold, PlanTold, ScriptHasFile, IdleIsCalm
  <2> QED BY <1>0, <2>1, <2>2, PowerInvWhole DEF ShutsInTime
<1>11. CASE PowersDown
  <2>1. /\ UNCHANGED <<baseParts, cutDone, cutLive, cutKept, cutTorn, planDone, planFile, planTorn, hour>>
        /\ boatUp' = FALSE /\ applyingPlan' = NoPlan /\ idleSince' = NotIdle /\ shutting' = FALSE
        /\ calm' = 0 /\ sleepMode' = FALSE
    BY <1>11 DEF PowersDown
  <2>2. BaseTypes' /\ PlanTypes' /\ PlanTold' /\ ScriptHasFile'
    BY <1>0, <2>1 DEF baseParts, BaseTypes, PlanTypes, PlanTold, ScriptHasFile, Names
  <2>3. CutTypes'
    <3>1. idleSince' \in Int /\ idleSince' >= NotIdle
      BY <2>1 DEF NotIdle
    <3>2. shutting' \in BOOLEAN
      BY <2>1
    <3> QED BY <1>0, <2>1, <3>1, <3>2 DEF CutTypes
  <2>4. CutTold' /\ IdleIsCalm'
    BY <1>0, <2>1 DEF CutTold, IdleIsCalm
  <2> QED BY <1>0, <2>1, <2>2, <2>3, <2>4, PowerInvWhole DEF ShutsInTime
<1>12. CASE PowersUp
  <2>1. /\ UNCHANGED <<baseParts, cutDone, cutKept, idleSince, shutting, cutTorn, planParts, hour, sleepMode, calm>>
        /\ boatUp' = TRUE /\ cutLive' = cutKept /\ ~boatUp
    BY <1>12 DEF PowersUp
  <2>2. BaseTypes' /\ CutTypes' /\ PlanTypes' /\ CutTold' /\ PlanTold' /\ ScriptHasFile' /\ IdleIsCalm'
    BY <1>0, <2>1 DEF baseParts, planParts, BaseTypes, CutTypes, PlanTypes, CutTold, PlanTold, ScriptHasFile, IdleIsCalm
  <2> QED BY <1>0, <2>1, <2>2, PowerInvWhole DEF ShutsInTime
<1> QED
  BY <1>1, <1>2, <1>3, <1>4, <1>5, <1>6, <1>7, <1>8, <1>9, <1>10, <1>11, <1>12 DEF PowerNext

\* What a boat recorded as applied is what it does, and what it will do after its next start, as
\* long as its files were written in order; and a boat that has to come to rest before it shuts
\* down was awake and at rest for all of that time, and past its hour (handleFrame and needsApply
\* of fleetShutdown.js and wittySchedule.js, startShutdownScheduler of powerSchedule.js): for
\* whatever schedules, failures, naps and power cuts there are, and however many.
THEOREM ShutdownsAreKept == PowerSpec => SchedulesKept
<1>1. PowerInv => RecordTold
  BY DEF PowerInv
<1>2. PowerInv /\ [PowerNext]_powerVars => PowerInv' /\ ShutsInTime
  BY PowerSteps
<1>3. PowerInv /\ PowerInv' /\ [PowerNext]_powerVars
        => [/\ RecordTold'
            /\ ~shutting /\ shutting' => /\ hour' >= cutLive.at
                                         /\ cutLive.idle => calm' > IdleFor]_powerVars
  BY <1>2 DEF ShutsInTime, PowerInv
<1> QED
  BY <1>2, <1>3, PowerInitInv, PTL DEF PowerSpec, SchedulesKept

\* What the type invariant says beyond the types the arguments above use: the base never plans to
\* have nothing planned, and nobody is counted as idle for longer than it takes.
PlanBounds ==
  /\ {plan.mode, planSaved.mode} \subseteq Modes \cup {NoPlan}
  /\ planFile \in Modes \cup {Off}
  /\ idleSince <= IdleFor /\ hour \in 0 .. Day - 1

LEMMA BoundsKept ==
  ASSUME PowerInv, PlanBounds, [PowerNext]_powerVars
  PROVE  PlanBounds'
<1> USE DEF PlanBounds
<1>0. BaseTypes /\ CutTypes /\ PlanTypes
  BY PowerInvParts
<1>1. Day \in Nat \ {0} /\ IdleFor \in Nat /\ NotIdle <= IdleFor
  BY PowerAssumption DEF PowerAssumption, NotIdle
<1>2. CASE UNCHANGED powerVars
  BY <1>2 DEF powerVars
<1>3. CASE SendPower
  <2>1. UNCHANGED <<plan, planSaved, hour>>
    BY <1>3 DEF SendPower, baseParts
  <2>2. idleSince' \in {idleSince, NotIdle}
    <3>1. PICK kept \in BOOLEAN, noted \in BOOLEAN : HearCut(cut, kept, noted)
      BY <1>3 DEF SendPower
    <3> QED
      BY <3>1 DEF HearCut, cutParts
  <2>3. planFile' \in Modes \cup {Off}
    <3> DEFINE p == IF plan.mode = NoPlan THEN NoPlan ELSE IF plan.on THEN plan.mode ELSE Off
    <3>1. HearPlan(p) /\ p \in Modes \cup {Off, NoPlan}
      BY <1>3 DEF SendPower
    <3> HIDE DEF p
    <3> QED
      BY <3>1 DEF HearPlan, planParts
  <2> QED
    BY <1>1, <2>1, <2>2, <2>3
<1>4. ASSUME NEW ok \in BOOLEAN, NEW noted \in BOOLEAN, PlanApplied(ok, noted) PROVE PlanBounds'
  BY <1>4 DEF PlanApplied, baseParts, cutParts
<1>5. CASE RunsOut
  BY <1>5 DEF RunsOut, baseParts, cutParts
<1>6. ASSUME NEW m \in Modes, NEW on \in BOOLEAN, NEW saved \in BOOLEAN, SetWitty(m, on, saved) PROVE PlanBounds'
  <2>1. plan' = [mode |-> m, on |-> on] /\ planSaved' \in {plan', planSaved}
    BY <1>6 DEF SetWitty
  <2>2. plan'.mode = m /\ planSaved'.mode \in {m, planSaved.mode}
    BY <2>1
  <2>3. UNCHANGED <<planFile, idleSince, hour>>
    BY <1>6 DEF SetWitty, planParts, cutParts
  <2> QED
    BY <2>2, <2>3
<1>7. ASSUME NEW c \in CutSettings, NEW saved \in BOOLEAN, SetShutdown(c, saved) PROVE PlanBounds'
  BY <1>7 DEF SetShutdown, planParts, cutParts
<1>8. CASE BaseRestarts
  BY <1>8 DEF BaseRestarts, planParts, cutParts
<1>9. ASSUME NEW at \in CutTimes \cup {0}, SetOwnShutdown(at) PROVE PlanBounds'
  BY <1>1, <1>9 DEF SetOwnShutdown, planParts, baseParts
<1>10. ASSUME NEW moving \in BOOLEAN, PowerTick(moving) PROVE PlanBounds'
  <2>1. UNCHANGED <<plan, planSaved, planFile>> /\ hour' = (hour + 1) % Day
    BY <1>10 DEF PowerTick, baseParts, planParts
  <2>2. hour' \in 0 .. Day - 1
    BY <1>1, <2>1
  <2>3. idleSince' <= IdleFor
    <3>1. \/ idleSince' \in {idleSince, NotIdle, 0}
          \/ idleSince' = (IF idleSince = NotIdle THEN 0 ELSE idleSince + 1) /\ idleSince' < IdleFor
      <4>1. CASE ~boatUp \/ shutting \/ cutLive.at = 0 \/ sleepMode
        BY <1>10, <4>1 DEF PowerTick, Check
      <4>2. CASE ~(~boatUp \/ shutting \/ cutLive.at = 0 \/ sleepMode)
        <5> DEFINE e == Evaluated(hour', moving)
                   n == IF idleSince = NotIdle THEN 0 ELSE idleSince + 1
        <5>1. idleSince' = IF e.down THEN 0 ELSE e.since
          BY <1>10, <4>2 DEF PowerTick, Check
        <5>2. \/ e = [since |-> NotIdle, down |-> FALSE] \/ e = [since |-> NotIdle, down |-> TRUE]
              \/ e = [since |-> n, down |-> n >= IdleFor]
          BY DEF Evaluated
        <5>3. n \in Int
          BY <1>0 DEF CutTypes
        <5> HIDE DEF e, n
        <5>4. e.since = NotIdle \/ (e.since = n /\ e.down = (n >= IdleFor))
          BY <5>2
        <5>5. \/ idleSince' \in {NotIdle, 0} \/ (idleSince' = n /\ n < IdleFor)
          <6>1. CASE e.down
            BY <5>1, <6>1
          <6>2. CASE ~e.down /\ e.since = NotIdle
            BY <5>1, <6>2
          <6>3. CASE ~e.down /\ e.since = n /\ e.down = (n >= IdleFor)
            <7>1. ~(n >= IdleFor)
              BY <6>3
            <7>2. idleSince' = n
              BY <5>1, <6>3
            <7> QED BY <1>1, <5>3, <7>1, <7>2
          <6> QED BY <5>4, <6>1, <6>2, <6>3
        <5> QED
          BY <5>5 DEF n
      <4> QED
        BY <4>1, <4>2
    <3> QED
      BY <1>0, <1>1, <3>1 DEF CutTypes, NotIdle
  <2> QED
    BY <2>1, <2>2, <2>3
<1>11. CASE SleepOrWake
  BY <1>11 DEF SleepOrWake, planParts, baseParts, cutParts
<1>12. CASE PowersDown
  BY <1>1, <1>12 DEF PowersDown, baseParts
<1>13. CASE PowersUp
  BY <1>13 DEF PowersUp, baseParts, planParts
<1> QED
  BY <1>2, <1>3, <1>4, <1>5, <1>6, <1>7, <1>8, <1>9, <1>10, <1>11, <1>12, <1>13 DEF PowerNext

\* The schedules, what a boat made of them and its scheduler have their types (powerSchedule.js,
\* wittySchedule.js, fleetShutdown.js): no file holds a plan nobody made, and a boat never counts
\* more idle time than its shutdown waits for.
THEOREM PowerTypeCorrect == PowerSpec => []PowerTypeOK
<1>1. PowerInit => PlanBounds
  <2> SUFFICES ASSUME PowerInit PROVE PlanBounds
    OBVIOUS
  <2>1. 0 \in 0 .. Day - 1 /\ NotIdle <= IdleFor
    BY PowerAssumption DEF PowerAssumption, NotIdle
  <2> QED
    BY <2>1 DEF PowerInit, PlanBounds
<1>2. PowerInv /\ PlanBounds => PowerTypeOK
  <2> SUFFICES ASSUME PowerInv, PlanBounds PROVE PowerTypeOK
    OBVIOUS
  <2>0. BaseTypes /\ CutTypes /\ PlanTypes /\ boatUp \in BOOLEAN /\ sleepMode \in BOOLEAN
    BY PowerInvParts
  <2>1. {cut, cutSaved, cutDone.cut} \subseteq CutSettings \cup {NoCut}
    BY <2>0 DEF BaseTypes, CutTypes, Settings
  <2>2. {cutLive.at, cutKept.at} \subseteq CutTimes \cup {0}
    BY <2>0 DEF CutTypes, Orders
  <2>3. idleSince \in NotIdle .. IdleFor
    BY <2>0, PowerAssumption DEF CutTypes, PlanBounds, PowerAssumption, NotIdle
  <2>4. {boatUp, shutting, sleepMode, cutTorn, planTorn, cutDone.ok, planDone.ok} \subseteq BOOLEAN
    BY <2>0 DEF CutTypes, PlanTypes
  <2>5. {planDone.plan, applyingPlan} \subseteq Modes \cup {Off, NoPlan}
    BY <2>0 DEF PlanTypes, Names
  <2> QED
    BY <2>1, <2>2, <2>3, <2>4, <2>5 DEF PowerTypeOK, PlanBounds
<1> QED
  BY <1>1, <1>2, PowerInitInv, PowerSteps, BoundsKept, PTL DEF PowerSpec

-----------------------------------------------------------------------------
(***************************************************************************)
(* BoatReports: the distance gate counts no fix as reported that was lost on*)
(* its way, for any pacing, batch and frame sizes.                         *)
(***************************************************************************)

\* Induction, as a fact about sets of numbers.
LEMMA StepInduction ==
  ASSUME NEW N \in Nat, NEW T, 0 \in T, \A n \in 0 .. N - 1 : n \in T => n + 1 \in T
  PROVE  0 .. N \subseteq T
<1> DEFINE R == OpToRel(<, Nat)
           U == (0 .. N) \ T
<1> SUFFICES ASSUME U # {}
             PROVE  FALSE
  OBVIOUS
<1>1. U \subseteq Nat
  OBVIOUS
<1>2. PICK x \in U : \A y \in U : ~(<<y, x>> \in R)
  <2>1. IsWellFoundedOn(R, Nat)
    BY NatLessThanWellFounded
  <2> HIDE DEF R, U
  <2> QED
    BY <1>1, <2>1, WFMin
<1>3. x \in 1 .. N /\ x - 1 \in 0 .. N - 1
  OBVIOUS
<1>4. x - 1 \in U
  BY <1>3
<1>5. <<x - 1, x>> \in R
  BY <1>3 DEF OpToRel
<1> QED
  BY <1>2, <1>4, <1>5

LEMMA LeastOf ==
  ASSUME NEW S \in SUBSET Nat, S # {}
  PROVE  \E x \in S : \A y \in S : x <= y
<1> DEFINE R == OpToRel(<, Nat)
<1>1. PICK x \in S : \A y \in S : ~(<<y, x>> \in R)
  <2>1. IsWellFoundedOn(R, Nat)
    BY NatLessThanWellFounded
  <2> HIDE DEF R
  <2> QED
    BY <2>1, WFMin
<1>2. ASSUME NEW y \in S
      PROVE  x <= y
  <2>1. x \in Nat /\ y \in Nat
    OBVIOUS
  <2>2. y < x => <<y, x>> \in R
    BY <2>1 DEF OpToRel
  <2> HIDE DEF R
  <2> QED
    BY <1>1, <2>1, <2>2
<1> QED
  BY <1>2

-----------------------------------------------------------------------------
(* Picked: the members at the chosen places, in their order.               *)

Below(keep, k) == {j \in keep : j < k}

LEMMA RankExists ==
  ASSUME NEW L \in Nat, NEW keep \in SUBSET (1 .. L)
  PROVE  /\ IsFiniteSet(keep) /\ Cardinality(keep) \in Nat
         /\ \A i \in 0 .. Cardinality(keep) - 1 : \E k \in keep : Cardinality(Below(keep, k)) = i
<1>1. IsFiniteSet(keep) /\ Cardinality(keep) \in Nat
  <2>1. IsFiniteSet(1 .. L)
    BY FS_Interval
  <2> QED
    BY <2>1, FS_Subset, FS_CardinalityType
<1>2. \A S \in SUBSET keep : IsFiniteSet(S) /\ Cardinality(S) \in Nat
  BY <1>1, FS_Subset, FS_CardinalityType
<1> DEFINE Has(i) == \E k \in keep : Cardinality(Below(keep, k)) = i
           last == Cardinality(keep) - 1
           T == {i \in 0 .. last : Has(i)}
<1>3. CASE keep = {}
  BY <1>1, <1>3, FS_EmptySet
<1>4. CASE keep # {}
  <2>1. last \in Nat
    BY <1>1, <1>4, FS_EmptySet
  <2>2. Has(0)
    <3>1. PICK x \in keep : \A y \in keep : x <= y
      BY <1>4, LeastOf
    <3>2. Below(keep, x) = {}
      <4>1. \A y \in keep : x \in Nat /\ y \in Nat /\ x <= y
        BY <3>1
      <4>2. \A y \in keep : ~(y < x)
        BY <4>1
      <4> QED
        BY <4>2 DEF Below
    <3> QED
      BY <3>1, <3>2, FS_EmptySet
  <2>3. ASSUME NEW i \in 0 .. last - 1, Has(i)
        PROVE  Has(i + 1)
    <3>1. PICK k \in keep : Cardinality(Below(keep, k)) = i
      BY <2>3
    <3> DEFINE above == {j \in keep : j > k}
    <3>2. Below(keep, k) \in SUBSET keep /\ k \notin Below(keep, k)
      BY DEF Below
    <3>3. Cardinality(Below(keep, k) \cup {k}) = i + 1
      BY <1>2, <3>1, <3>2, FS_AddElement
    <3>4. above # {}
      <4>0. \A y \in keep : y \in Nat /\ k \in Nat
        OBVIOUS
      <4>1. ASSUME above = {}
            PROVE  keep = Below(keep, k) \cup {k}
        <5>1. \A y \in keep : ~(y > k)
          BY <4>1
        <5>2. \A y \in keep : y < k \/ y = k
          BY <4>0, <5>1
        <5> QED
          BY <5>2 DEF Below
      <4> QED
        BY <4>1, <3>3, <2>1
    <3>5. PICK x \in above : \A y \in above : x <= y
      <4>1. above \in SUBSET Nat
        <5>1. \A y \in keep : y \in Nat
          OBVIOUS
        <5> QED
          BY <5>1
      <4> HIDE DEF above
      <4> QED
        BY <3>4, <4>1, LeastOf
    <3>6. Below(keep, x) = Below(keep, k) \cup {k}
      <4>1. \A y \in keep : y \in Nat /\ k \in Nat /\ x \in Nat /\ x > k /\ (y > k => x <= y)
        BY <3>5
      <4>2. \A y \in keep : y < x <=> (y < k \/ y = k)
        BY <4>1
      <4> QED
        BY <4>2 DEF Below
    <3> QED
      BY <3>3, <3>5, <3>6
  <2>4. 0 .. last \subseteq T
    <3>1. 0 \in T
      BY <2>1, <2>2
    <3>2. \A i \in 0 .. last - 1 : i \in T => i + 1 \in T
      BY <2>1, <2>3
    <3> HIDE DEF T, last
    <3> QED
      BY <2>1, <3>1, <3>2, StepInduction
  <2> QED
    BY <1>1, <2>4
<1> QED
  BY <1>3, <1>4

LEMMA PickedType ==
  ASSUME NEW S, NEW fs \in Seq(S), NEW keep \in SUBSET DOMAIN fs
  PROVE  /\ Picked(fs, keep) \in Seq(S)
         /\ Len(Picked(fs, keep)) = Cardinality(keep) /\ Cardinality(keep) \in Nat
<1> DEFINE n == Cardinality(keep)
           At(i) == CHOOSE k \in keep : Cardinality({j \in keep : j < k}) = i - 1
<1>1. keep \in SUBSET (1 .. Len(fs)) /\ Len(fs) \in Nat
  OBVIOUS
<1>2. n \in Nat
  BY <1>1, RankExists
<1>3. ASSUME NEW i \in 1 .. n
      PROVE  fs[At(i)] \in S
  <2>1. i - 1 \in 0 .. n - 1
    BY <1>2
  <2>2. \E k \in keep : Cardinality({j \in keep : j < k}) = i - 1
    <3> HIDE DEF n
    <3>1. \E k \in keep : Cardinality(Below(keep, k)) = i - 1
      BY <1>1, <2>1, RankExists DEF n
    <3> QED
      BY <3>1 DEF Below
  <2>3. At(i) \in keep
    BY <2>2
  <2> HIDE DEF At
  <2> QED
    BY <2>3, <1>1
<1>4. Picked(fs, keep) = [i \in 1 .. n |-> fs[At(i)]]
  BY DEF Picked
<1> HIDE DEF n, At
<1> QED
  BY <1>2, <1>3, <1>4 DEF n

LEMMA PickedLast ==
  ASSUME NEW S, NEW fs \in Seq(S), NEW keep \in SUBSET DOMAIN fs, Len(fs) \in keep
  PROVE  /\ Picked(fs, keep) \in Seq(S) /\ Picked(fs, keep) # <<>>
         /\ Last(Picked(fs, keep)) = Last(fs)
<1> DEFINE n == Cardinality(keep)
           L == Len(fs)
<1>1. keep \in SUBSET (1 .. L) /\ L \in Nat /\ L \in keep
  OBVIOUS
<1>2. IsFiniteSet(keep) /\ n \in Nat
  BY <1>1, RankExists
<1>3. IsFiniteSet(keep \ {L}) /\ Cardinality(keep \ {L}) = n - 1
  BY <1>1, <1>2, FS_RemoveElement
<1>4. n >= 1 /\ Cardinality(keep \ {L}) \in Nat
  BY <1>2, <1>3, FS_CardinalityType
<1>5. {j \in keep : j < L} = keep \ {L}
  BY <1>1
<1>6. ASSUME NEW k \in keep, Cardinality({j \in keep : j < k}) = n - 1
      PROVE  k = L
  <2> SUFFICES ASSUME k # L
               PROVE  FALSE
    OBVIOUS
  <2>1. Cardinality((keep \ {L}) \ {k}) = (n - 1) - 1
    BY <1>3, FS_RemoveElement
  <2>2. {j \in keep : j < k} \subseteq (keep \ {L}) \ {k}
    BY <1>1
  <2>3. IsFiniteSet((keep \ {L}) \ {k})
    BY <1>3, FS_Subset
  <2>4. Cardinality({j \in keep : j < k}) <= (n - 1) - 1
    BY <2>1, <2>2, <2>3, FS_Subset
  <2> QED
    BY <1>2, <1>6, <2>4
<1>7. (CHOOSE k \in keep : Cardinality({j \in keep : j < k}) = n - 1) = L
  BY <1>1, <1>3, <1>5, <1>6
<1>8. Picked(fs, keep)[n] = fs[L]
  <2>1. n \in 1 .. n
    BY <1>2, <1>4
  <2>2. Picked(fs, keep)[n] = fs[CHOOSE k \in keep : Cardinality({j \in keep : j < k}) = n - 1]
    BY <2>1 DEF Picked
  <2> HIDE DEF n
  <2> QED
    BY <1>7, <2>2
<1>9. Picked(fs, keep) \in Seq(S) /\ Len(Picked(fs, keep)) = n
  BY PickedType
<1> QED
  BY <1>4, <1>8, <1>9 DEF Last

-----------------------------------------------------------------------------
(* Frames.                                                                 *)

Full(t) == Seq(1 .. t) \ {<<>>}

LEMMA CeilingDivision ==
  ASSUME NEW L \in Nat \ {0}, NEW n \in Nat \ {0}
  PROVE  LET m == (L + n - 1) \div n
         IN /\ m \in Nat \ {0}
            /\ \A i \in 1 .. m : (i - 1) * n \in Nat /\ (i - 1) * n < L /\ i * n \in Nat /\ (i - 1) * n < i * n
            /\ m * n >= L
OBVIOUS

\* The chunks of a sequence of fixes: none is empty, and the last ends with its newest.
LEMMA BatchesType ==
  ASSUME NEW t \in Nat, NEW fs \in Full(t), NEW n \in Nat \ {0}
  PROVE  LET chunks == Batches(fs, n)
         IN /\ Len(chunks) \in Nat \ {0}
            /\ \A i \in 1 .. Len(chunks) : chunks[i] \in Full(t)
            /\ Last(chunks[Len(chunks)]) = Last(fs)
<1> DEFINE L == Len(fs)
           m == (L + n - 1) \div n
           end(i) == IF i * n < L THEN i * n ELSE L
           chunk(i) == SubSeq(fs, (i - 1) * n + 1, end(i))
<1>1. L \in Nat \ {0} /\ fs \in Seq(1 .. t)
  BY DEF Full
<1>2. /\ m \in Nat \ {0}
      /\ \A i \in 1 .. m : (i - 1) * n \in Nat /\ (i - 1) * n < L /\ i * n \in Nat /\ (i - 1) * n < i * n
      /\ m * n >= L
  <2> HIDE DEF L
  <2> QED
    BY <1>1, CeilingDivision
<1>3. Batches(fs, n) = [i \in 1 .. m |-> chunk(i)]
  BY DEF Batches
<1> HIDE DEF m
<1>4. Len(Batches(fs, n)) = m
  BY <1>2, <1>3
<1>5. ASSUME NEW i \in 1 .. m
      PROVE  chunk(i) \in Full(t) /\ Last(chunk(i)) = fs[end(i)]
  <2> DEFINE from == (i - 1) * n
             to == end(i)
  <2>1. from \in Nat /\ to \in Nat /\ from < to /\ to <= L
    BY <1>1, <1>2
  <2> DEFINE c == SubSeq(fs, from + 1, to)
  <2>4. chunk(i) = c /\ end(i) = to
    OBVIOUS
  <2> HIDE DEF from, to, L
  <2>2. c \in Seq(1 .. t) /\ Len(c) = to - from
    BY <1>1, <2>1 DEF L
  <2>3. c[to - from] = fs[to]
    BY <1>1, <2>1 DEF L
  <2> HIDE DEF c, chunk, end
  <2>5. c # <<>> /\ Last(c) = fs[to]
    BY <2>1, <2>2, <2>3 DEF Last
  <2> QED
    BY <2>2, <2>4, <2>5 DEF Full
<1>6. m \in 1 .. m /\ end(m) = L
  BY <1>1, <1>2
<1> HIDE DEF chunk, end
<1>7. \A i \in 1 .. m : Batches(fs, n)[i] = chunk(i)
  BY <1>3
<1> QED
  BY <1>2, <1>4, <1>5, <1>6, <1>7 DEF Last

-----------------------------------------------------------------------------
(* What a handler works on.                                                *)

Pipes(t) ==
  [ref : 0 .. t, lastSent : 0 .. t, batch : Seq(1 .. t), waiting : Seq(1 .. t), frames : Seq(Full(t))]

\* The pacers, by their names.
Pacing == {"parked", "join", "moving"}
Paces ==
  [parked : [in : Nat, first : BOOLEAN, repeats : Nat],
   join   : [in : Nat, step : 1 .. Len(Backoff["join"])],
   moving : [in : Nat, step : 1 .. Len(Backoff["moving"])]]

IsState(s, t) ==
  /\ s = [pipe |-> s.pipe, pacer |-> s.pacer, newest |-> s.newest, lastTx |-> s.lastTx]
  /\ s.pipe \in Pipes(t) /\ s.newest \in 0 .. t
  /\ s.pipe.lastSent <= s.newest
  /\ Len(s.pipe.frames) <= FrameLimit /\ s.pacer \in Paces

\* What the gate compares with went out, or waits in the scheduler.
OnWay(s) == \/ s.newest >= s.pipe.ref
            \/ \E i \in DOMAIN s.pipe.frames : Last(s.pipe.frames[i]) >= s.pipe.ref

\* Sending, as far as it matters: the batch stays, and what the gate compares with only changes
\* when it is on its way again.
Sends(s, r, t) ==
  /\ IsState(r, t)
  /\ r.pipe.batch = s.pipe.batch
  /\ OnWay(s) => OnWay(r)
  /\ OnWay(r) \/ r.pipe.ref = s.pipe.ref

LEMMA LastOfFull ==
  ASSUME NEW t \in Nat, NEW fs \in Full(t)
  PROVE  Last(fs) \in 1 .. t /\ Last(fs) \in 0 .. t /\ Len(fs) \in Nat \ {0} /\ fs \in Seq(1 .. t) /\ Last(fs) = fs[Len(fs)]
BY DEF Full, Last

\* The gate goes back to what it last saw go out.
LEMMA FailedPipe ==
  ASSUME NEW t \in Nat, NEW p \in Pipes(t)
  PROVE  /\ Failed(p) \in Pipes(t) /\ Failed(p).ref = p.lastSent /\ Failed(p).lastSent = p.lastSent
         /\ Failed(p).batch = p.batch /\ Failed(p).frames = p.frames /\ Failed(p).waiting = p.waiting
BY DEF Failed, Pipes

LEMMA SentSends ==
  ASSUME NEW t \in Nat, NEW s, IsState(s, t), NEW fs \in Full(t), NEW clear \in BOOLEAN, NEW radio \in BOOLEAN
  PROVE  /\ Sends(s, Sent(s, fs, clear, radio), t)
         /\ Last(fs) >= s.pipe.ref => OnWay(Sent(s, fs, clear, radio))
<1> DEFINE r == Sent(s, fs, clear, radio)
           p == s.pipe
<1>1. p \in Pipes(t) /\ Last(fs) \in 0 .. t /\ s.newest \in 0 .. t /\ Len(p.frames) <= FrameLimit
  BY LastOfFull DEF IsState
<1>2. CASE p.frames = <<>> /\ clear /\ radio /\ ~asleep
  <2>1. r = [s EXCEPT !.newest = Newer(@, fs), !.lastTx = Last(fs)]
    BY <1>2 DEF Sent
  <2>2. Newer(s.newest, fs) \in 0 .. t /\ Newer(s.newest, fs) >= s.newest /\ Newer(s.newest, fs) >= Last(fs)
    BY <1>1 DEF Newer
  <2>3. r = [pipe |-> p, pacer |-> s.pacer, newest |-> Newer(s.newest, fs), lastTx |-> Last(fs)]
    BY <2>1 DEF IsState
  <2> HIDE DEF r
  <2>4. p.ref \in 0 .. t /\ p.lastSent \in 0 .. t /\ p.lastSent <= s.newest
    BY <1>1 DEF IsState, Pipes
  <2> DEFINE new == Newer(s.newest, fs)
  <2> HIDE DEF new, p
  <2>5. r.pipe = p /\ r.newest = new
    BY <2>3 DEF new
  <2>6. new \in 0 .. t /\ new >= s.newest /\ new >= Last(fs)
    BY <2>2 DEF new
  <2>7. IsState(r, t)
    <3>1. p.lastSent <= new
      BY <1>1, <2>4, <2>6
    <3> QED
      BY <1>1, <2>3, <2>5, <2>6, <3>1 DEF IsState, new
  <2>8. (s.newest >= p.ref => new >= p.ref) /\ (Last(fs) >= p.ref => new >= p.ref)
    BY <1>1, <2>4, <2>6
  <2> QED
    BY <2>5, <2>7, <2>8 DEF Sends, OnWay, p, r
<1>3. CASE p.frames = <<>> /\ clear /\ ~(radio /\ ~asleep)
  <2>1. r = [s EXCEPT !.pipe = Failed(@)]
    BY <1>3 DEF Sent
  <2>2. r.newest = s.newest /\ r.pipe = Failed(p) /\ IsState(r, t)
    BY <2>1, <1>1, FailedPipe DEF IsState
  <2> HIDE DEF r, p
  <2>3. OnWay(r)
    BY <1>1, <2>2, FailedPipe DEF OnWay, IsState, Pipes, p
  <2> QED
    BY <1>1, <2>2, <2>3, FailedPipe DEF Sends, p, r
<1>4. CASE ~(p.frames = <<>> /\ clear)
  <2> DEFINE q == IF Len(p.frames) < FrameLimit THEN p ELSE Failed([p EXCEPT !.frames = Tail(@)])
             o == [q EXCEPT !.frames = Append(@, fs)]
  <2>1. r = [s EXCEPT !.pipe = o, !.lastTx = Last(fs)]
    BY <1>4 DEF Sent
  <2>2. /\ q \in Pipes(t) /\ q.lastSent = p.lastSent /\ q.batch = p.batch /\ (q.ref = q.lastSent \/ q = p)
        /\ Len(q.frames) < FrameLimit
    <3>1. CASE Len(p.frames) < FrameLimit
      BY <1>1, <3>1
    <3>2. CASE ~(Len(p.frames) < FrameLimit)
      <4> DEFINE tail == [p EXCEPT !.frames = Tail(@)]
      <4>1. p.frames # <<>>
        <5>1. FrameLimit \in Nat \ {0} /\ Len(<<>>) = 0
          BY ReportsAssumption DEF ReportsAssumption
        <5> QED
          BY <3>2, <5>1
      <4>2. tail \in Pipes(t) /\ tail.lastSent = p.lastSent /\ tail.batch = p.batch
        <5>1. Tail(p.frames) \in Seq(Full(t))
          BY <1>1, <4>1 DEF Pipes
        <5> QED
          BY <1>1, <5>1 DEF Pipes
      <4>4. Len(tail.frames) < FrameLimit
        <5>1. p.frames \in Seq(Full(t)) /\ tail.frames = Tail(p.frames) /\ FrameLimit \in Nat
          BY <1>1, ReportsAssumption DEF Pipes, ReportsAssumption
        <5> HIDE DEF tail, p
        <5> QED
          BY <1>1, <4>1, <5>1
      <4> HIDE DEF tail
      <4>3. q = Failed(tail)
        BY <3>2 DEF tail
      <4> QED
        BY <4>2, <4>3, <4>4, FailedPipe
    <3> QED
      BY <3>1, <3>2
  <2> HIDE DEF q
  <2>3. /\ o \in Pipes(t) /\ o.lastSent = p.lastSent /\ o.batch = p.batch /\ o.ref = q.ref
        /\ o.frames = Append(q.frames, fs) /\ Len(o.frames) <= FrameLimit
    <3>1. Append(q.frames, fs) \in Seq(Full(t)) /\ Len(Append(q.frames, fs)) = Len(q.frames) + 1 /\ Len(q.frames) \in Nat
      BY <2>2 DEF Pipes
    <3>2. Len(Append(q.frames, fs)) <= FrameLimit
      BY <2>2, <3>1, ReportsAssumption DEF ReportsAssumption
    <3> QED
      BY <2>2, <3>1, <3>2 DEF Pipes
  <2> HIDE DEF o
  <2>4. r.newest = s.newest /\ r.pipe = o /\ IsState(r, t)
    BY <1>1, <2>1, <2>3 DEF IsState
  <2>5. q.ref = q.lastSent => OnWay(r)
    <3>1. s.newest \in Nat /\ p.lastSent \in Nat /\ p.lastSent <= s.newest
      BY <1>1 DEF IsState, Pipes
    <3> HIDE DEF r, p
    <3> QED
      BY <2>2, <2>3, <2>4, <3>1 DEF OnWay
  <2>6. ASSUME q = p, OnWay(s)
        PROVE  OnWay(r)
    <3>1. \A i \in DOMAIN p.frames : i \in DOMAIN o.frames /\ o.frames[i] = p.frames[i]
      BY <1>1, <2>3, <2>6 DEF Pipes
    <3> HIDE DEF r
    <3> QED
      BY <2>3, <2>4, <2>6, <3>1 DEF OnWay
  <2>7. ASSUME q = p, Last(fs) >= p.ref
        PROVE  OnWay(r)
    <3>1. Len(p.frames) + 1 \in DOMAIN o.frames /\ o.frames[Len(p.frames) + 1] = fs
      BY <1>1, <2>3, <2>7 DEF Pipes
    <3> HIDE DEF r
    <3> QED
      BY <2>3, <2>4, <2>7, <3>1 DEF OnWay
  <2> HIDE DEF r
  <2> QED
    BY <2>2, <2>3, <2>4, <2>5, <2>6, <2>7 DEF Sends, r
<1> QED
  BY <1>2, <1>3, <1>4

\* The chunks of what is sent go one after another.
Chain(f, s, chunks, n, clear, radio) ==
  f = [i \in 0 .. n |-> IF i = 0 THEN s ELSE Sent(f[i - 1], chunks[i], clear, radio)]

LEMMA ChainExists ==
  ASSUME NEW s, NEW chunks, NEW N \in Nat, NEW clear, NEW radio
  PROVE  \E f : Chain(f, s, chunks, N, clear, radio)
<1> DEFINE Good(f, n) == /\ f = [i \in 0 .. n |-> f[i]]
                         /\ \A i \in 0 .. n : f[i] = IF i = 0 THEN s ELSE Sent(f[i - 1], chunks[i], clear, radio)
           T == {n \in 0 .. N : \E f : Good(f, n)}
<1>1. 0 \in T
  <2> DEFINE g == [i \in 0 .. 0 |-> s]
  <2>1. Good(g, 0)
    OBVIOUS
  <2> HIDE DEF g, Good
  <2> QED
    BY <2>1
<1>2. ASSUME NEW n \in 0 .. N - 1, n \in T
      PROVE  n + 1 \in T
  <2>1. PICK f : Good(f, n)
    BY <1>2
  <2> DEFINE new == Sent(f[n], chunks[n + 1], clear, radio)
  <2> HIDE DEF new
  <2> DEFINE g == [i \in 0 .. n + 1 |-> IF i = n + 1 THEN new ELSE f[i]]
  <2>2. \A i \in 0 .. n : g[i] = f[i]
    OBVIOUS
  <2>3. g[n + 1] = new /\ g = [i \in 0 .. n + 1 |-> g[i]]
    OBVIOUS
  <2> HIDE DEF g
  <2>4. \A i \in 0 .. n + 1 : g[i] = IF i = 0 THEN s ELSE Sent(g[i - 1], chunks[i], clear, radio)
    <3> TAKE i \in 0 .. n + 1
    <3>1. CASE i = n + 1
      <4>1. i # 0 /\ i - 1 = n /\ g[n] = f[n]
        BY <3>1, <2>2
      <4> QED
        BY <4>1, <3>1, <2>3 DEF new
    <3>2. CASE i # n + 1
      <4>1. i \in 0 .. n /\ (i # 0 => i - 1 \in 0 .. n)
        BY <3>2
      <4>2. f[i] = IF i = 0 THEN s ELSE Sent(f[i - 1], chunks[i], clear, radio)
        BY <4>1, <2>1
      <4>3. g[i] = f[i] /\ (i # 0 => g[i - 1] = f[i - 1])
        BY <4>1, <2>2
      <4> QED
        BY <4>2, <4>3
    <3> QED
      BY <3>1, <3>2
  <2>5. Good(g, n + 1)
    BY <2>3, <2>4
  <2> HIDE DEF Good
  <2> QED
    BY <2>5
<1>3. N \in T
  <2> HIDE DEF T
  <2> QED
    BY <1>1, <1>2, StepInduction
<1>4. PICK f : Good(f, N)
  BY <1>3
<1> DEFINE h == [i \in 0 .. N |-> IF i = 0 THEN s ELSE Sent(f[i - 1], chunks[i], clear, radio)]
<1>5. f = h
  BY <1>4
<1> QED
  BY <1>5 DEF Chain

\* After the fixes fs are sent, the gate is right about them.
LEMMA SendAllSends ==
  ASSUME NEW t \in Nat, NEW s, IsState(s, t), NEW fs \in Full(t), NEW n \in Nat \ {0},
         NEW clear \in BOOLEAN, NEW radio \in BOOLEAN
  PROVE  LET r == SendAll(s, fs, n, clear, radio)
         IN /\ IsState(r, t) /\ r.pipe.batch = s.pipe.batch
            /\ Last(fs) >= s.pipe.ref => OnWay(r)
<1> DEFINE chunks == Batches(fs, n)
           N == Len(chunks)
<1>1. /\ N \in Nat \ {0} /\ \A i \in 1 .. N : chunks[i] \in Full(t)
      /\ Last(chunks[N]) = Last(fs)
  BY BatchesType
<1> DEFINE f == CHOOSE f : f = [i \in 0 .. N |-> IF i = 0 THEN s ELSE Sent(f[i - 1], chunks[i], clear, radio)]
<1>2. Chain(f, s, chunks, N, clear, radio)
  <2> HIDE DEF chunks, N
  <2>1. \E g : g = [i \in 0 .. N |-> IF i = 0 THEN s ELSE Sent(g[i - 1], chunks[i], clear, radio)]
    <3>1. N \in Nat
      BY <1>1
    <3>2. PICK g : Chain(g, s, chunks, N, clear, radio)
      BY <3>1, ChainExists
    <3> QED
      BY Zenon, <3>2 DEF Chain
  <2> QED
    BY <2>1 DEF Chain
<1>3. SendAll(s, fs, n, clear, radio) = f[N]
  BY Zenon DEF SendAll
<1> HIDE DEF f, chunks
<1>4. f[0] = s /\ \A i \in 1 .. N : f[i] = Sent(f[i - 1], chunks[i], clear, radio)
  <2> HIDE DEF N
  <2> QED
    BY <1>1, <1>2 DEF Chain
<1> HIDE DEF N
<1> DEFINE Along(r) == IsState(r, t) /\ r.pipe.batch = s.pipe.batch /\ (OnWay(r) \/ r.pipe.ref = s.pipe.ref)
           T == {i \in 0 .. N : Along(f[i])}
<1>5. 0 \in T
  BY <1>1, <1>4
<1>6. ASSUME NEW i \in 0 .. N - 1, Along(f[i])
      PROVE  Along(f[i + 1]) /\ Sends(f[i], f[i + 1], t) /\ (Last(chunks[i + 1]) >= f[i].pipe.ref => OnWay(f[i + 1]))
  <2>1. i + 1 \in 1 .. N /\ i + 1 - 1 = i
    BY <1>1
  <2> DEFINE q == f[i]
             c == chunks[i + 1]
  <2>2. f[i + 1] = Sent(q, c, clear, radio) /\ c \in Full(t)
    BY <2>1, <1>1, <1>4
  <2>3. IsState(q, t)
    BY <1>6
  <2>a. Along(q)
    BY <1>6
  <2> HIDE DEF q, c
  <2>4. Sends(q, Sent(q, c, clear, radio), t) /\ (Last(c) >= q.pipe.ref => OnWay(Sent(q, c, clear, radio)))
    BY <2>2, <2>3, SentSends
  <2>5. Sends(q, f[i + 1], t) /\ (Last(c) >= q.pipe.ref => OnWay(f[i + 1]))
    BY <2>2, <2>4
  <2>6. Along(f[i + 1])
    BY <2>a, <2>5 DEF Sends
  <2> QED
    BY <2>5, <2>6 DEF q, c
<1>7. N - 1 \in 0 .. N - 1 /\ N \in 0 .. N /\ N - 1 \in 0 .. N /\ N - 1 + 1 = N
  BY <1>1
<1>8. \A i \in 0 .. N - 1 : i \in T => i + 1 \in T
  <2>1. \A i \in 0 .. N - 1 : i + 1 \in 0 .. N
    BY <1>1
  <2> HIDE DEF Along
  <2> QED
    BY <1>6, <2>1
<1>9. Along(f[N - 1]) /\ Along(f[N])
  <2>1. 0 .. N \subseteq T
    <3> HIDE DEF T
    <3> QED
      BY <1>1, <1>5, <1>8, StepInduction
  <2> HIDE DEF Along
  <2> QED
    BY <1>7, <2>1
<1>10. Sends(f[N - 1], f[N], t) /\ (Last(chunks[N]) >= f[N - 1].pipe.ref => OnWay(f[N]))
  <2> HIDE DEF Along
  <2>1. Sends(f[N - 1], f[N - 1 + 1], t) /\ (Last(chunks[N - 1 + 1]) >= f[N - 1].pipe.ref => OnWay(f[N - 1 + 1]))
    BY <1>6, <1>7, <1>9
  <2> QED
    BY <1>7, <2>1
<1>11. Last(fs) >= s.pipe.ref => OnWay(f[N])
  BY <1>1, <1>9, <1>10 DEF Sends
<1> QED
  BY <1>3, <1>9, <1>11

-----------------------------------------------------------------------------
(* What is sent of a batch ends with its newest fix.                       *)

LEMMA HeldType ==
  ASSUME NEW t \in Nat, NEW waiting \in Seq(1 .. t), NEW fs \in Seq(1 .. t)
  PROVE  Held(waiting, fs) \in Seq(1 .. t)
<1> DEFINE later == Picked(fs, {i \in DOMAIN fs : waiting = <<>> \/ fs[i] > Last(waiting)})
           all == waiting \o later
<1>1. later \in Seq(1 .. t)
  BY PickedType
<1> HIDE DEF later
<1>2. all \in Seq(1 .. t)
  BY <1>1
<1>3. Held(waiting, fs) = Picked(all, {i \in DOMAIN all : all[i] >= Last(all) - BackfillAge})
  BY DEF Held, later
<1> HIDE DEF all
<1> QED
  BY <1>2, <1>3, PickedType

LEMMA BackfillsType ==
  ASSUME NEW t \in Nat, NEW held \in Seq(1 .. t), NEW b \in Backfills(held)
  PROVE  b \in Seq(1 .. t)
<1>1. CASE Len(held) < 3
  BY <1>1 DEF Backfills
<1>2. CASE ~(Len(held) < 3)
  <2>1. PICK keep \in SUBSET (1 .. Len(held)) : b = Picked(held, keep)
    BY <1>2 DEF Backfills
  <2>2. DOMAIN held = 1 .. Len(held)
    OBVIOUS
  <2> QED
    BY <2>1, <2>2, PickedType
<1> QED
  BY <1>1, <1>2

LEMMA ThinnedType ==
  ASSUME NEW t \in Nat, NEW fs \in Full(t), NEW o \in Thinned(fs, Rate)
  PROVE  o \in Full(t) /\ Last(o) = Last(fs)
<1>1. CASE Len(fs) <= Rate
  BY <1>1 DEF Thinned
<1>2. CASE ~(Len(fs) <= Rate)
  <2>1. PICK keep \in SUBSET (1 .. Len(fs)) : Len(fs) \in keep /\ o = Picked(fs, keep)
    BY <1>2 DEF Thinned
  <2>2. fs \in Seq(1 .. t) /\ DOMAIN fs = 1 .. Len(fs)
    BY DEF Full
  <2>3. Picked(fs, keep) \in Seq(1 .. t) /\ Picked(fs, keep) # <<>> /\ Last(Picked(fs, keep)) = Last(fs)
    BY <2>1, <2>2, PickedLast
  <2> QED
    BY <2>1, <2>3 DEF Full
<1> QED
  BY <1>1, <1>2

LEMMA AfterOlder ==
  ASSUME NEW t \in Nat, NEW old \in Seq(1 .. t), NEW fs \in Full(t)
  PROVE  old \o fs \in Full(t) /\ Last(old \o fs) = Last(fs)
<1>1. Len(old) \in Nat /\ Len(fs) \in Nat \ {0} /\ fs \in Seq(1 .. t)
  BY DEF Full
<1>2. old \o fs \in Seq(1 .. t) /\ Len(old \o fs) = Len(old) + Len(fs)
  BY <1>1
<1>3. (old \o fs)[Len(old) + Len(fs)] = fs[Len(fs)]
  BY <1>1
<1>4. old \o fs # <<>>
  BY <1>1, <1>2
<1> QED
  BY <1>2, <1>3, <1>4 DEF Full, Last

-----------------------------------------------------------------------------
(* flushPendingBatch.                                                      *)

LEMMA HoldingType ==
  ASSUME NEW t \in Nat, NEW s, IsState(s, t), NEW b \in Seq(1 .. t), NEW w \in Seq(1 .. t)
  PROVE  LET r == Holding(s, b, w)
         IN /\ IsState(r, t) /\ r.pipe.batch = b /\ r.pipe.ref = s.pipe.ref
            /\ r.pipe.lastSent = s.pipe.lastSent /\ r.pipe.frames = s.pipe.frames
            /\ r.newest = s.newest /\ r.lastTx = s.lastTx
<1> DEFINE p == s.pipe
           q == [p EXCEPT !.batch = b, !.waiting = w]
<1>1. q \in Pipes(t) /\ q.batch = b /\ q.ref = p.ref /\ q.lastSent = p.lastSent /\ q.frames = p.frames
  BY DEF IsState, Pipes
<1>2. Holding(s, b, w) = [s EXCEPT !.pipe = q]
  BY DEF Holding
<1> HIDE DEF p, q
<1>3. Holding(s, b, w) = [pipe |-> q, pacer |-> s.pacer, newest |-> s.newest, lastTx |-> s.lastTx]
  BY <1>2 DEF IsState
<1> QED
  BY <1>1, <1>3 DEF IsState, p

LEMMA NothingHeld ==
  ASSUME NEW t \in Nat, NEW s, IsState(s, t), s.pipe.batch = <<>>
  PROVE  Holding(s, <<>>, s.pipe.waiting) = s
<1> DEFINE p == s.pipe
           q == [p EXCEPT !.batch = <<>>, !.waiting = p.waiting]
<1>1. q = p
  BY DEF IsState, Pipes
<1>2. Holding(s, <<>>, s.pipe.waiting) = [s EXCEPT !.pipe = q]
  BY DEF Holding
<1> HIDE DEF q
<1> QED
  BY <1>1, <1>2 DEF IsState

\* What a pacer becomes when its fix is sent, and as time passes.
LEMMA BackoffSteps ==
  ASSUME NEW name \in {"join", "moving"}, NEW b \in [in : Nat, step : 1 .. Len(Backoff[name])]
  PROVE  BackoffSent(name, b) \in [in : Nat, step : 1 .. Len(Backoff[name])]
<1>1. Backoff[name] \in Seq(Nat)
  BY ReportsAssumption DEF ReportsAssumption
<1> DEFINE steps == Backoff[name]
<1>2. steps \in Seq(Nat) /\ Len(steps) \in Nat /\ b.step \in 1 .. Len(steps) /\ b.step \in Nat
  BY <1>1
<1> DEFINE next == IF b.step < Len(steps) THEN b.step + 1 ELSE b.step
<1>3. BackoffSent(name, b) = [in |-> steps[b.step], step |-> next]
  BY DEF BackoffSent
<1> HIDE DEF steps
<1>4. steps[b.step] \in Nat /\ next \in 1 .. Len(steps)
  BY <1>2
<1> HIDE DEF next
<1> QED
  BY <1>3, <1>4 DEF steps

LEMMA PacerSentType ==
  ASSUME NEW pace \in Paces, NEW name \in Pacing
  PROVE  PacerSent(pace, name) \in Paces
<1>1. /\ pace.parked \in [in : Nat, first : BOOLEAN, repeats : Nat]
      /\ pace.join \in [in : Nat, step : 1 .. Len(Backoff["join"])]
      /\ pace.moving \in [in : Nat, step : 1 .. Len(Backoff["moving"])]
      /\ pace = [parked |-> pace.parked, join |-> pace.join, moving |-> pace.moving]
  BY DEF Paces
<1>2. CASE name = "parked"
  <2> DEFINE q == ParkedSent(pace.parked)
  <2>1. q \in [in : Nat, first : BOOLEAN, repeats : Nat]
    <3>1. ParkedEvery \in Nat
      BY ReportsAssumption DEF ReportsAssumption
    <3> DEFINE r == pace.parked
    <3>2. /\ r \in [in : Nat, first : BOOLEAN, repeats : Nat] /\ r.repeats \in Nat /\ r.first \in BOOLEAN
          /\ r.in \in Nat /\ r = [in |-> r.in, first |-> r.first, repeats |-> r.repeats]
      BY <1>1
    <3> HIDE DEF r
    <3> DEFINE wait == IF r.repeats > 0 THEN 1 ELSE ParkedEvery
               fewer == IF r.repeats > 0 THEN r.repeats - 1 ELSE 0
    <3>3. wait \in Nat /\ fewer \in Nat
      BY <3>1, <3>2
    <3>4. CASE ~r.first
      <4>1. ParkedSent(r) = [in |-> wait, first |-> TRUE, repeats |-> r.repeats]
        BY <3>2, <3>4 DEF ParkedSent
      <4> HIDE DEF wait
      <4> QED
        BY <3>2, <3>3, <4>1 DEF r
    <3>5. CASE r.first
      <4>1. ParkedSent(r) = [in |-> ParkedEvery, first |-> r.first, repeats |-> fewer]
        BY <3>2, <3>5 DEF ParkedSent
      <4> HIDE DEF fewer
      <4> QED
        BY <3>1, <3>2, <3>3, <4>1 DEF r
    <3> QED
      BY <3>2, <3>4, <3>5
  <2>2. PacerSent(pace, name) = [pace EXCEPT !["parked"] = q]
    BY <1>2 DEF PacerSent
  <2> HIDE DEF q
  <2>3. PacerSent(pace, name) = [parked |-> q, join |-> pace.join, moving |-> pace.moving]
    BY <1>1, <2>2
  <2> QED
    BY <1>1, <2>1, <2>3 DEF Paces
<1>3. CASE name = "join"
  <2> DEFINE q == BackoffSent("join", pace.join)
  <2>1. q \in [in : Nat, step : 1 .. Len(Backoff["join"])]
    BY <1>1, BackoffSteps
  <2>2. PacerSent(pace, name) = [pace EXCEPT !["join"] = q]
    BY <1>3 DEF PacerSent
  <2> HIDE DEF q
  <2>3. PacerSent(pace, name) = [parked |-> pace.parked, join |-> q, moving |-> pace.moving]
    BY <1>1, <2>2
  <2> QED
    BY <1>1, <2>1, <2>3 DEF Paces
<1>4. CASE name = "moving"
  <2> DEFINE q == BackoffSent("moving", pace.moving)
  <2>1. q \in [in : Nat, step : 1 .. Len(Backoff["moving"])]
    BY <1>1, BackoffSteps
  <2>2. PacerSent(pace, name) = [pace EXCEPT !["moving"] = q]
    BY <1>4 DEF PacerSent
  <2> HIDE DEF q
  <2>3. PacerSent(pace, name) = [parked |-> pace.parked, join |-> pace.join, moving |-> q]
    BY <1>1, <2>2
  <2> QED
    BY <1>1, <2>1, <2>3 DEF Paces
<1> QED
  BY <1>2, <1>3, <1>4 DEF Pacing

LEMMA TickType ==
  ASSUME NEW pace \in Paces
  PROVE  Tick(pace) \in Paces
<1> DEFINE less(n) == [pace[n] EXCEPT !.in = IF @ > 0 THEN @ - 1 ELSE 0]
<1>1. /\ pace["parked"] \in [in : Nat, first : BOOLEAN, repeats : Nat]
      /\ pace["join"] \in [in : Nat, step : 1 .. Len(Backoff["join"])]
      /\ pace["moving"] \in [in : Nat, step : 1 .. Len(Backoff["moving"])]
      /\ DOMAIN pace = Pacing
  BY DEF Paces, Pacing
<1>2. less("parked") \in [in : Nat, first : BOOLEAN, repeats : Nat]
  BY <1>1
<1>3. less("join") \in [in : Nat, step : 1 .. Len(Backoff["join"])]
  BY <1>1
<1>4. less("moving") \in [in : Nat, step : 1 .. Len(Backoff["moving"])]
  BY <1>1
<1>5. Tick(pace) = [n \in Pacing |-> less(n)]
  BY <1>1 DEF Tick
<1> HIDE DEF less
<1>6. Tick(pace) = [parked |-> less("parked"), join |-> less("join"), moving |-> less("moving")]
  BY <1>5 DEF Pacing
<1> QED
  BY <1>2, <1>3, <1>4, <1>6 DEF Paces

LEMMA PacerInitType == PacerInit \in Paces /\ PacerInit.parked \in [in : Nat, first : BOOLEAN, repeats : Nat]
<1>1. \A b \in {"join", "moving"} : Len(Backoff[b]) \in Nat \ {0}
  BY ReportsAssumption DEF ReportsAssumption
<1> QED
  BY <1>1 DEF PacerInit, Paces

LEMMA PacersType ==
  ASSUME NEW under, NEW near, NEW urgent
  PROVE  Pacers(under, near, urgent) \in SUBSET Pacing
BY DEF Pacers, Pacing

LEMMA PacedType ==
  ASSUME NEW t \in Nat, NEW s, IsState(s, t), NEW q \in Paces
  PROVE  IsState([s EXCEPT !.pacer = q], t) /\ [s EXCEPT !.pacer = q].pipe = s.pipe
         /\ [s EXCEPT !.pacer = q].newest = s.newest
BY DEF IsState

\* No fix in the batch is older than one the gate, the scheduler or the base has.
Ord(p) ==
  p.batch # <<>> => /\ p.ref <= Last(p.batch) /\ p.lastSent <= Last(p.batch)
                    /\ \A i \in DOMAIN p.frames : Last(p.frames[i]) <= Last(p.batch)

Good(s) == s.pipe.batch # <<>> \/ OnWay(s)

\* A flush leaves the gate right about all there was to send.
FlushGood(s, r, t) ==
  /\ IsState(r, t) /\ Ord(r.pipe)
  /\ asleep \/ s.pipe.batch = <<>> \/ Good(r)
  /\ s.pipe.batch = <<>> => r = s

LEMMA FlushedGood ==
  ASSUME NEW t \in Nat, NEW s, IsState(s, t), Ord(s.pipe),
         NEW forSlot \in BOOLEAN, NEW final \in BOOLEAN, NEW by \in SUBSET Pacing, NEW near \in BOOLEAN,
         NEW clear \in BOOLEAN, NEW radio \in BOOLEAN,
         NEW r \in Flushed(s, forSlot, final, by, near, clear, radio)
  PROVE  FlushGood(s, r, t)
<1> USE DEF FlushGood
<1> DEFINE p    == s.pipe
           fs   == p.batch
           wait == by \cap {"join", "moving"} # {}
           name == CHOOSE b \in by : TRUE
           old  == Picked(p.waiting, {i \in DOMAIN p.waiting : p.waiting[i] \in Head(fs) - BackfillAge .. Head(fs) - 1})
           perFrame == IF forSlot THEN PerFrame ELSE BatchSize
           kept == IF ~wait THEN <<>> ELSE p.waiting
           w1 == IF wait THEN Held(kept, fs) ELSE <<>>
           front == Front(fs)
           w2 == IF wait /\ front # <<>> THEN Held(kept, front) ELSE kept
           paced == [s EXCEPT !.pacer = PacerSent(@, name)]
           some  == forSlot /\ ~final /\ old # <<>>
           whole == near \/ some
           all   == {(IF some THEN b ELSE <<>>) \o fs : b \in Backfills(old)}
           out   == UNION {IF forSlot /\ ~final /\ ~whole THEN Thinned(a, Rate) ELSE {a} : a \in all}
<1>1. /\ p \in Pipes(t) /\ fs \in Seq(1 .. t) /\ p.waiting \in Seq(1 .. t) /\ kept \in Seq(1 .. t)
      /\ <<>> \in Seq(1 .. t)
  <2>1. p \in Pipes(t) /\ <<>> \in Seq(1 .. t)
    BY DEF IsState
  <2>2. fs \in Seq(1 .. t) /\ p.waiting \in Seq(1 .. t)
    BY <2>1 DEF Pipes
  <2> QED
    BY <2>1, <2>2
<1>2. perFrame \in Nat \ {0}
  BY ReportsAssumption DEF ReportsAssumption
<1>3. old \in Seq(1 .. t)
  BY <1>1, PickedType
<1>4. fs # <<>> => fs \in Full(t) /\ Last(fs) \in 1 .. t /\ Last(fs) \in 0 .. t /\ front \in Seq(1 .. t)
  BY <1>1, LastOfFull DEF Full, Front
<1>5. w1 \in Seq(1 .. t) /\ (fs # <<>> => w2 \in Seq(1 .. t))
  BY <1>1, <1>4, HeldType
<1>6. CASE fs = <<>> \/ asleep
  <2>1. r = Holding(s, <<>>, p.waiting)
    BY <1>6 DEF Flushed
  <2>2. IsState(r, t) /\ r.pipe.batch = <<>>
    <3> DEFINE w == p.waiting
               none == Holding(s, <<>>, w)
    <3>1. w \in Seq(1 .. t) /\ <<>> \in Seq(1 .. t) /\ r = none
      BY <1>1, <2>1
    <3> HIDE DEF w
    <3>2. IsState(none, t)
      BY <3>1, HoldingType
    <3>3. none.pipe.batch = <<>>
      BY <3>1, HoldingType
    <3> QED
      BY <3>1, <3>2, <3>3
  <2>3. fs = <<>> => r = s
    BY <2>1, NothingHeld
  <2> QED
    BY <1>6, <2>2, <2>3 DEF Ord
<1>7. CASE /\ fs # <<>> /\ ~asleep
           /\ r = Holding(s, <<Last(fs)>>, w1)
  <2>2. <<Last(fs)>> \in Seq(1 .. t) /\ <<Last(fs)>> # <<>> /\ Last(<<Last(fs)>>) = Last(fs)
    BY <1>4, <1>7 DEF Last
  <2>3. /\ IsState(r, t) /\ r.pipe.batch = <<Last(fs)>> /\ r.pipe.ref = p.ref
        /\ r.pipe.lastSent = p.lastSent /\ r.pipe.frames = p.frames
    <3> DEFINE b == <<Last(fs)>>
    <3>1. b \in Seq(1 .. t) /\ w1 \in Seq(1 .. t) /\ r = Holding(s, b, w1)
      BY <1>5, <1>7, <2>2
    <3> HIDE DEF w1, b
    <3>2. IsState(r, t)
      BY <3>1, HoldingType
    <3>3. r.pipe.batch = b
      BY <3>1, HoldingType
    <3>4. r.pipe.ref = p.ref
      BY <3>1, HoldingType
    <3>5. r.pipe.lastSent = p.lastSent
      BY <3>1, HoldingType
    <3>6. r.pipe.frames = p.frames
      BY <3>1, HoldingType
    <3> QED
      BY <3>2, <3>3, <3>4, <3>5, <3>6 DEF b
  <2> HIDE DEF w1, fs
  <2>4. Ord(r.pipe)
    BY <1>7, <2>2, <2>3 DEF Ord, fs
  <2> QED
    BY <1>7, <2>2, <2>3, <2>4 DEF Good, fs
<1>8. ASSUME fs # <<>>, NEW s1, IsState(s1, t), s1.pipe = p,
             NEW w \in Seq(1 .. t), NEW o \in Full(t), Last(o) = Last(fs),
             r = SendAll(Holding(s1, <<>>, w), o, perFrame, clear, radio)
      PROVE  IsState(r, t) /\ Ord(r.pipe) /\ Good(r)
  <2> DEFINE s0 == Holding(s1, <<>>, w)
  <2>1. IsState(s0, t) /\ s0.pipe.batch = <<>> /\ s0.pipe.ref = p.ref
    <3>1. IsState(s1, t) /\ <<>> \in Seq(1 .. t)
      BY <1>1, <1>8
    <3>2. IsState(s0, t)
      BY <3>1, HoldingType
    <3>3. s0.pipe.batch = <<>>
      BY <3>1, HoldingType
    <3>4. s0.pipe.ref = s1.pipe.ref
      BY <3>1, HoldingType
    <3> QED
      BY <1>8, <3>2, <3>3, <3>4
  <2> HIDE DEF s0, perFrame
  <2>2. IsState(r, t) /\ r.pipe.batch = <<>> /\ (Last(o) >= p.ref => OnWay(r))
    BY <1>2, <1>8, <2>1, SendAllSends DEF s0
  <2>3. Last(o) >= p.ref
    <3>1. p.ref <= Last(fs)
      BY <1>8 DEF Ord
    <3>2. p.ref \in Nat /\ Last(fs) \in Nat
      BY <1>1, <1>4, <1>8 DEF Pipes
    <3> QED
      BY <1>8, <3>1, <3>2
  <2> QED
    BY <2>2, <2>3 DEF Good, Ord
<1>9. CASE by # {} /\ fs # <<>> /\ ~asleep /\ r = SendAll(Holding(paced, <<>>, w2), <<Last(fs)>>, perFrame, clear, radio)
  <2>1. IsState(paced, t) /\ paced.pipe = p
    <3>1. name \in Pacing
      BY <1>9
    <3> HIDE DEF name
    <3>2. PacerSent(s.pacer, name) \in Paces
      BY <3>1, PacerSentType DEF IsState
    <3> QED
      BY <3>2, PacedType
  <2>2. <<Last(fs)>> \in Full(t) /\ Last(<<Last(fs)>>) = Last(fs)
    BY <1>4, <1>9 DEF Last, Full
  <2> HIDE DEF w2, perFrame, fs, paced
  <2>3. IsState(r, t) /\ Ord(r.pipe) /\ Good(r)
    BY <1>5, <1>8, <1>9, <2>1, <2>2
  <2> QED
    BY <1>9, <2>3 DEF fs
<1>10. ASSUME fs # <<>>, NEW o \in out
       PROVE  o \in Full(t) /\ Last(o) = Last(fs)
  <2>1. PICK a \in all : o \in IF forSlot /\ ~final /\ ~whole THEN Thinned(a, Rate) ELSE {a}
    BY <1>10
  <2>2. PICK b \in Backfills(old) : a = (IF some THEN b ELSE <<>>) \o fs
    BY <2>1
  <2>3. b \in Seq(1 .. t)
    BY <1>3, <2>2, BackfillsType
  <2> DEFINE older == IF some THEN b ELSE <<>>
  <2>4. older \in Seq(1 .. t) /\ a = older \o fs
    BY <1>1, <2>2, <2>3
  <2> HIDE DEF older, fs, all
  <2>5. a \in Full(t) /\ Last(a) = Last(fs)
    BY <1>4, <1>10, <2>4, AfterOlder
  <2> QED
    BY <2>1, <2>5, ThinnedType
<1>11. CASE \E o \in out : fs # <<>> /\ ~asleep /\ r = SendAll(Holding(s, <<>>, <<>>), o, perFrame, clear, radio)
  <2>1. PICK o \in out : fs # <<>> /\ ~asleep /\ r = SendAll(Holding(s, <<>>, <<>>), o, perFrame, clear, radio)
    BY <1>11
  <2>3. o \in Full(t) /\ Last(o) = Last(fs)
    BY <1>10, <2>1
  <2> HIDE DEF out, perFrame, fs
  <2>4. IsState(r, t) /\ Ord(r.pipe) /\ Good(r)
    BY <1>1, <1>8, <2>1, <2>3
  <2> QED
    BY <2>1, <2>4 DEF fs
<1>12. \/ fs = <<>> \/ asleep
       \/ fs # <<>> /\ ~asleep /\ r = Holding(s, <<Last(fs)>>, w1)
       \/ by # {} /\ fs # <<>> /\ ~asleep /\ r = SendAll(Holding(paced, <<>>, w2), <<Last(fs)>>, perFrame, clear, radio)
       \/ \E o \in out : fs # <<>> /\ ~asleep /\ r = SendAll(Holding(s, <<>>, <<>>), o, perFrame, clear, radio)
  BY Zenon DEF Flushed
<1> HIDE DEF fs, w1, w2, paced, out, perFrame
<1> QED
  BY <1>6, <1>7, <1>9, <1>11, <1>12 DEF fs

-----------------------------------------------------------------------------
(* The other parts of the handling of a fix.                               *)

LEMMA NewestBatch ==
  ASSUME NEW t \in Nat, NEW p \in Pipes(t), p.batch # <<>>, Last(p.batch) = t
  PROVE  Ord(p)
<1>1. p.ref \in 0 .. t /\ p.lastSent \in 0 .. t /\ p.frames \in Seq(Full(t))
  BY DEF Pipes
<1>2. ASSUME NEW i \in DOMAIN p.frames
      PROVE  Last(p.frames[i]) <= t
  <2>1. p.frames[i] \in Full(t)
    BY <1>1
  <2> QED
    BY <2>1, LastOfFull
<1> QED
  BY <1>1, <1>2 DEF Ord

LEMMA QueuedGood ==
  ASSUME NEW t \in Nat \ {0}, NEW s, IsState(s, t), NEW by \in SUBSET Pacing, NEW near \in BOOLEAN,
         NEW clear \in BOOLEAN, NEW radio \in BOOLEAN,
         NEW r \in Queued(s, t, by, near, clear, radio)
  PROVE  IsState(r, t) /\ Ord(r.pipe) /\ (asleep \/ Good(r))
<1> DEFINE p == s.pipe
           b == Append(p.batch, t)
           w == IF by \cap {"join", "moving"} # {} /\ p.batch # <<>> THEN Held(p.waiting, p.batch) ELSE p.waiting
           one == <<t>>
<1>1. p \in Pipes(t) /\ p.batch \in Seq(1 .. t) /\ p.waiting \in Seq(1 .. t)
  BY DEF IsState, Pipes
<1>2. w \in Seq(1 .. t)
  BY <1>1, HeldType
<1>3. b \in Seq(1 .. t) /\ b # <<>> /\ Last(b) = t
  BY <1>1 DEF Last
<1>4. one \in Seq(1 .. t) /\ one # <<>> /\ Last(one) = t
  BY DEF Last
<1>5. \/ r = Holding(s, one, w) \/ r = Holding(s, b, p.waiting)
      \/ r \in Flushed(Holding(s, b, p.waiting), FALSE, FALSE, by, near, clear, radio)
  BY DEF Queued
<1>6. ASSUME NEW c \in Seq(1 .. t), NEW v \in Seq(1 .. t), c # <<>>, Last(c) = t
      PROVE  /\ IsState(Holding(s, c, v), t) /\ Ord(Holding(s, c, v).pipe) /\ Good(Holding(s, c, v))
             /\ Holding(s, c, v).pipe.batch # <<>>
  <2>1. IsState(Holding(s, c, v), t)
    BY HoldingType
  <2>2. Holding(s, c, v).pipe.batch = c
    BY HoldingType
  <2> DEFINE q == Holding(s, c, v)
  <2> HIDE DEF q
  <2>3. q.pipe \in Pipes(t) /\ q.pipe.batch = c
    BY <2>1, <2>2 DEF IsState, q
  <2>4. Ord(q.pipe)
    BY <1>6, <2>3, NewestBatch
  <2> QED
    BY <1>6, <2>1, <2>3, <2>4 DEF Good, q
<1> HIDE DEF one, b, w
<1>7. CASE r = Holding(s, one, w)
  BY <1>2, <1>4, <1>6, <1>7
<1>8. CASE r = Holding(s, b, p.waiting)
  BY <1>1, <1>3, <1>6, <1>8
<1>9. CASE r \in Flushed(Holding(s, b, p.waiting), FALSE, FALSE, by, near, clear, radio)
  <2> DEFINE q == Holding(s, b, p.waiting)
  <2>1. IsState(q, t) /\ Ord(q.pipe) /\ q.pipe.batch # <<>>
    BY <1>1, <1>3, <1>6
  <2> HIDE DEF q
  <2>2. FALSE \in BOOLEAN /\ r \in Flushed(q, FALSE, FALSE, by, near, clear, radio)
    BY <1>9 DEF q
  <2>3. FlushGood(q, r, t)
    BY Zenon, <2>1, <2>2, FlushedGood
  <2> QED
    BY <2>1, <2>3 DEF FlushGood
<1> QED
  BY <1>5, <1>7, <1>8, <1>9

LEMMA TransmittedGood ==
  ASSUME NEW t \in Nat \ {0}, NEW s, IsState(s, t), s.pipe.batch = <<>>, NEW by \in SUBSET Pacing,
         NEW clear \in BOOLEAN, NEW radio \in BOOLEAN,
         NEW r \in Transmitted(s, t, by, clear, radio)
  PROVE  IsState(r, t) /\ Ord(r.pipe) /\ (asleep \/ Good(r))
<1> DEFINE name == CHOOSE b \in by : TRUE
           paced == [s EXCEPT !.pacer = PacerSent(@, name)]
           q == IF by = {} THEN s ELSE paced
<1>1. \/ asleep /\ r = s
      \/ r = [s EXCEPT !.pipe = Failed(@)]
      \/ r = Sent(q, <<t>>, clear, radio)
  BY DEF Transmitted
<1>2. CASE asleep /\ r = s
  BY <1>2 DEF Ord
<1>3. CASE r = [s EXCEPT !.pipe = Failed(@)]
  <2>1. /\ s.pipe \in Pipes(t) /\ s.newest \in 0 .. t /\ s.pipe.lastSent <= s.newest /\ s.pipe.lastSent \in 0 .. t
        /\ Len(s.pipe.frames) <= FrameLimit /\ s.pacer \in Paces
    BY DEF IsState, Pipes
  <2> DEFINE p == Failed(s.pipe)
  <2>2. /\ p \in Pipes(t) /\ p.ref = s.pipe.lastSent /\ p.lastSent = s.pipe.lastSent /\ p.batch = <<>>
        /\ p.frames = s.pipe.frames
    BY <2>1, FailedPipe
  <2> HIDE DEF p
  <2>3. r = [pipe |-> p, pacer |-> s.pacer, newest |-> s.newest, lastTx |-> s.lastTx]
    BY <1>3 DEF IsState, p
  <2>4. IsState(r, t)
    BY <2>1, <2>2, <2>3 DEF IsState
  <2>5. Ord(r.pipe)
    BY <2>2, <2>3 DEF Ord
  <2>6. OnWay(r)
    BY <2>1, <2>2, <2>3 DEF OnWay
  <2> QED
    BY <2>4, <2>5, <2>6 DEF Good
<1>4. CASE r = Sent(q, <<t>>, clear, radio)
  <2>1. IsState(q, t) /\ q.pipe = s.pipe
    <3>1. CASE by = {}
      BY <3>1
    <3>2. CASE by # {}
      <4>1. name \in Pacing
        BY <3>2
      <4> HIDE DEF name
      <4>2. PacerSent(s.pacer, name) \in Paces
        BY <4>1, PacerSentType DEF IsState
      <4> QED
        BY <3>2, <4>2, PacedType
    <3> QED
      BY <3>1, <3>2
  <2>2. <<t>> \in Full(t) /\ Last(<<t>>) = t
    BY DEF Full, Last
  <2>3. s.pipe.ref \in 0 .. t
    BY DEF IsState, Pipes
  <2> HIDE DEF q
  <2>4. Sends(q, r, t) /\ (Last(<<t>>) >= q.pipe.ref => OnWay(r))
    BY <1>4, <2>1, <2>2, SentSends
  <2>5. OnWay(r)
    BY <2>1, <2>2, <2>3, <2>4
  <2> QED
    BY <2>1, <2>4, <2>5 DEF Sends, Ord, Good
<1> QED
  BY <1>1, <1>2, <1>3, <1>4

LEMMA BoostedType ==
  ASSUME NEW t \in Nat, t > 2, NEW p \in Pipes(t)
  PROVE  Boosted(p, t) \in Pipes(t)
<1> DEFINE before == <<t - 2, t - 1>>
           from == IF p.batch = <<>> THEN 0 ELSE Last(p.batch)
           more == Picked(before, {i \in DOMAIN before : before[i] > from})
<1>1. before \in Seq(1 .. t)
  <2>1. t - 2 \in 1 .. t /\ t - 1 \in 1 .. t
    OBVIOUS
  <2> QED
    BY <2>1
<1>2. more \in Seq(1 .. t)
  <2> HIDE DEF before
  <2> QED
    BY <1>1, PickedType
<1>3. Boosted(p, t) = [p EXCEPT !.batch = @ \o more]
  BY DEF Boosted
<1> HIDE DEF more
<1>4. p.batch \o more \in Seq(1 .. t)
  BY <1>2 DEF Pipes
<1> QED
  BY <1>3, <1>4 DEF Pipes

-----------------------------------------------------------------------------
(* The gate is honest: what it compares with went out or is on its way.    *)

ReportTypes ==
  /\ now \in Nat /\ pipe \in Pipes(now) /\ newest \in 0 .. now /\ pipe.lastSent <= newest
  /\ Len(pipe.frames) <= FrameLimit /\ pacer \in Paces

Honest ==
  \/ asleep \/ announce
  \/ pipe.batch # <<>>
  \/ newest >= pipe.ref
  \/ \E i \in DOMAIN pipe.frames : Last(pipe.frames[i]) >= pipe.ref

ReportInv == ReportTypes /\ Ord(pipe) /\ Honest

\* What a handler works on satisfies what the state does.
LEMMA StateIs ==
  ASSUME NEW t \in Nat, NEW p \in Pipes(t), newest \in 0 .. t, p.lastSent <= newest, Len(p.frames) <= FrameLimit,
         NEW pace \in Paces
  PROVE  IsState(PipeState(p, pace), t)
BY DEF IsState, PipeState

LEMMA Later ==
  ASSUME NEW n \in Nat, NEW p \in Pipes(n)
  PROVE  p \in Pipes(n + 1)
<1>1. 0 .. n \subseteq 0 .. n + 1 /\ 1 .. n \subseteq 1 .. n + 1
  OBVIOUS
<1>2. Seq(1 .. n) \subseteq Seq(1 .. n + 1)
  BY <1>1
<1>3. Full(n) \subseteq Full(n + 1)
  BY <1>2 DEF Full
<1>4. Seq(Full(n)) \subseteq Seq(Full(n + 1))
  BY <1>3
<1> QED
  BY <1>1, <1>2, <1>4 DEF Pipes

\* A handler that leaves what the gate is right about keeps the invariant.
LEMMA SettlesWell ==
  ASSUME NEW s, now' \in Nat, IsState(s, now'), Ord(s.pipe), Settle(s),
         asleep' \/ announce' \/ Good(s)
  PROVE  ReportInv'
<1>1. pipe' = s.pipe /\ newest' = s.newest /\ pacer' = s.pacer
  BY DEF Settle
<1>2. ReportTypes'
  BY <1>1 DEF IsState, ReportTypes
<1>3. Ord(pipe')
  BY <1>1
<1>4. Honest'
  BY <1>1 DEF Honest, Good, OnWay
<1> QED
  BY <1>2, <1>3, <1>4 DEF ReportInv

LEMMA FixHonest ==
  ASSUME ReportInv, NEW under \in BOOLEAN, NEW event \in BOOLEAN, NEW near \in BOOLEAN,
         NEW clear \in BOOLEAN, NEW radio \in BOOLEAN, Fix(under, event, near, clear, radio)
  PROVE  ReportInv'
<1> DEFINE t == now + 1
           still == IF under \/ now = 0 THEN t ELSE since
           urgent == event \/ urgentFor > 0
           by == Pacers(under, near, urgent)
           paced == Tick(pacer)
           p1 == IF event THEN Boosted(pipe, t) ELSE pipe
           clears == urgent \/ Cleared(p1, t, still) \/ (place = "parked" /\ WantsRepeat(paced))
           q == [p1 EXCEPT !.ref = t]
           after == IF ~clears THEN {PipeState(p1, paced)}
                    ELSE Queued(PipeState(q, paced), t, by, near, clear, radio)
<1>1. /\ t \in Nat \ {0} /\ t # NoFix /\ now' = t /\ pipe \in Pipes(t) /\ newest \in 0 .. t
      /\ pipe.lastSent <= newest /\ pipe.lastSent \in 0 .. t /\ Len(pipe.frames) <= FrameLimit
      /\ paced \in Paces /\ by \in SUBSET Pacing
  <2>0. paced \in Paces
    BY TickType DEF ReportInv, ReportTypes
  <2>9. by \in SUBSET Pacing
    BY PacersType
  <2> HIDE DEF paced, by
  <2>1. now \in Nat /\ pipe \in Pipes(now) /\ newest \in 0 .. now /\ pipe.lastSent <= newest
        /\ Len(pipe.frames) <= FrameLimit
    BY DEF ReportInv, ReportTypes
  <2>2. now' = now + 1
    BY DEF Fix
  <2>3. pipe \in Pipes(now + 1)
    BY <2>1, Later
  <2>4. pipe.lastSent \in 0 .. now + 1
    BY <2>3 DEF Pipes
  <2> QED
    BY <2>0, <2>1, <2>2, <2>3, <2>4, <2>9 DEF NoFix
<1>2. event => t > 2
  BY DEF Fix
<1>3. p1 \in Pipes(t) /\ p1.lastSent = pipe.lastSent /\ p1.frames = pipe.frames /\ (~event => p1 = pipe)
  <2>1. CASE event
    <3>1. Boosted(pipe, t) \in Pipes(t)
      BY <1>1, <1>2, <2>1, BoostedType
    <3>2. Boosted(pipe, t).lastSent = pipe.lastSent /\ Boosted(pipe, t).frames = pipe.frames
      BY <1>1 DEF Boosted, Pipes
    <3> QED
      BY <2>1, <3>1, <3>2
  <2>2. CASE ~event
    BY <1>1, <2>2
  <2> QED
    BY <2>1, <2>2
<1>4. PICK s \in after :
        \E s2 \in IF ~announce \/ asleep THEN {s}
                  ELSE IF s.pipe.batch # <<>>
                  THEN Flushed(s, FALSE, FALSE, by, near, clear, radio)
                  ELSE IF s.lastTx # t THEN Transmitted(s, t, by, clear, radio) ELSE {s} :
          Settle(s2)
  BY Zenon DEF Fix
<1>5. announce' = (announce /\ asleep) /\ asleep' = asleep
  BY DEF Fix
<1> HIDE DEF p1, clears, by, paced, t
<1>6. /\ IsState(s, t) /\ Ord(s.pipe)
      /\ asleep \/ announce \/ Good(s)
      /\ asleep \/ Good(s) \/ s.lastTx = NoFix
  <2>1. CASE ~clears
    <3>1. s = PipeState(p1, paced)
      BY <2>1
    <3>2. p1 = pipe
      BY <1>3, <2>1 DEF clears
    <3>3. IsState(s, t)
      BY <1>1, <1>3, <3>1, StateIs
    <3>4. s.pipe = pipe /\ s.newest = newest /\ s.lastTx = NoFix
      BY <3>1, <3>2 DEF PipeState
    <3>5. asleep \/ announce \/ Good(s)
      BY <3>4 DEF ReportInv, Honest, Good, OnWay
    <3> QED
      BY <3>3, <3>4, <3>5 DEF ReportInv
  <2>2. CASE clears
    <3>1. q \in Pipes(t) /\ q.lastSent = pipe.lastSent /\ q.frames = pipe.frames
      <4>1. t \in 0 .. t
        BY <1>1
      <4> QED
        BY <1>3, <4>1 DEF Pipes
    <3> HIDE DEF q
    <3> DEFINE s0 == PipeState(q, paced)
    <3>2. IsState(s0, t)
      BY <1>1, <3>1, StateIs
    <3>3. s \in Queued(s0, t, by, near, clear, radio)
      BY <2>2
    <3> HIDE DEF s0
    <3>4. IsState(s, t) /\ Ord(s.pipe) /\ (asleep \/ Good(s))
      BY Zenon, <1>1, <3>2, <3>3, QueuedGood
    <3> QED
      BY <3>4
  <2> QED
    BY <2>1, <2>2
<1> HIDE DEF after
<1>7. PICK s2 \in IF ~announce \/ asleep THEN {s}
                  ELSE IF s.pipe.batch # <<>>
                  THEN Flushed(s, FALSE, FALSE, by, near, clear, radio)
                  ELSE IF s.lastTx # t THEN Transmitted(s, t, by, clear, radio) ELSE {s} :
             Settle(s2)
  BY <1>4
<1>8. IsState(s2, t) /\ Ord(s2.pipe) /\ (asleep' \/ announce' \/ Good(s2))
  <2>1. CASE s2 = s /\ (~announce \/ asleep \/ (s.pipe.batch = <<>> /\ s.lastTx = t))
    BY <1>1, <1>5, <1>6, <2>1
  <2>2. CASE announce /\ ~asleep /\ s.pipe.batch # <<>> /\ s2 \in Flushed(s, FALSE, FALSE, by, near, clear, radio)
    <3>1. FALSE \in BOOLEAN
      OBVIOUS
    <3>2. FlushGood(s, s2, t)
      BY Zenon, <1>1, <1>6, <2>2, <3>1, FlushedGood
    <3> QED
      BY <2>2, <3>2 DEF FlushGood
  <2>3. CASE announce /\ ~asleep /\ s.pipe.batch = <<>> /\ s2 \in Transmitted(s, t, by, clear, radio)
    <3>1. IsState(s2, t) /\ Ord(s2.pipe) /\ (asleep \/ Good(s2))
      BY Zenon, <1>1, <1>6, <2>3, TransmittedGood
    <3> QED
      BY <2>3, <3>1
  <2> QED
    BY <1>7, <2>1, <2>2, <2>3
<1> QED
  BY <1>1, <1>7, <1>8, SettlesWell

LEMMA SlotFlushHonest ==
  ASSUME ReportInv, NEW near \in BOOLEAN, NEW clear \in BOOLEAN, NEW radio \in BOOLEAN,
         SlotFlush(near, clear, radio)
  PROVE  ReportInv'
<1> DEFINE by == Pacers(since = now, near, urgentFor > 0)
           s0 == PipeState(pipe, pacer)
<1>1. PICK s \in Flushed(s0, TRUE, FALSE, by, near, clear, radio) : Settle(s)
  BY DEF SlotFlush
<1>2. now \in Nat /\ now' = now /\ asleep' = asleep /\ pipe.batch # <<>>
  BY DEF SlotFlush, ReportInv, ReportTypes
<1>0. by \in SUBSET Pacing
  BY PacersType
<1>3. IsState(s0, now) /\ Ord(s0.pipe) /\ s0.pipe.batch # <<>>
  <2>1. IsState(s0, now)
    BY StateIs DEF ReportInv, ReportTypes
  <2>2. s0.pipe = pipe
    BY DEF PipeState
  <2> QED
    BY <1>2, <2>1, <2>2 DEF ReportInv
<1> HIDE DEF s0, by
<1>4. TRUE \in BOOLEAN /\ FALSE \in BOOLEAN
  OBVIOUS
<1>5. FlushGood(s0, s, now)
  BY Zenon, <1>0, <1>1, <1>2, <1>3, <1>4, FlushedGood
<1> QED
  BY <1>1, <1>2, <1>3, <1>5, SettlesWell DEF FlushGood

LEMMA FrameDoneHonest ==
  ASSUME ReportInv, NEW went \in BOOLEAN, FrameDone(went)
  PROVE  ReportInv'
<1> DEFINE fs == pipe.frames
           f == Head(fs)
           p == [pipe EXCEPT !.frames = Tail(@)]
<1>1. /\ now \in Nat /\ pipe \in Pipes(now) /\ newest \in 0 .. now /\ pipe.lastSent <= newest
      /\ now' = now /\ asleep' = asleep /\ announce' = announce
      /\ fs # <<>> /\ fs \in Seq(Full(now)) /\ Len(fs) <= FrameLimit /\ pipe.ref \in 0 .. now /\ pipe.lastSent \in 0 .. now
      /\ pacer' = pacer /\ pacer \in Paces
  BY DEF ReportInv, ReportTypes, FrameDone, Pipes
<1>2. /\ Tail(fs) \in Seq(Full(now)) /\ Len(fs) \in Nat \ {0} /\ f = fs[1] /\ f \in Full(now)
      /\ DOMAIN Tail(fs) = 1 .. Len(fs) - 1 /\ Len(Tail(fs)) <= Len(fs)
      /\ \A i \in 1 .. Len(fs) - 1 : Tail(fs)[i] = fs[i + 1] /\ i + 1 \in DOMAIN fs
  <2> HIDE DEF fs
  <2> QED
    BY <1>1
<1>3. Last(f) \in 0 .. now /\ Len(Tail(fs)) <= FrameLimit
  <2>1. Last(f) \in 0 .. now
    BY <1>1, <1>2, LastOfFull
  <2>2. Len(fs) \in Nat /\ Len(Tail(fs)) \in Nat /\ FrameLimit \in Nat
    BY <1>1, <1>2, ReportsAssumption DEF ReportsAssumption
  <2> HIDE DEF f, fs
  <2> QED
    BY <1>1, <1>2, <2>1, <2>2
<1>4. /\ p \in Pipes(now) /\ p.ref = pipe.ref /\ p.lastSent = pipe.lastSent /\ p.batch = pipe.batch
      /\ p.frames = Tail(fs)
  BY <1>1, <1>2 DEF Pipes
<1> HIDE DEF p, f
<1>5. CASE went
  <2>1. pipe' = [p EXCEPT !.lastSent = Last(f)] /\ newest' = Newer(newest, f)
    BY <1>5 DEF FrameDone, p, f
  <2>2. /\ pipe' \in Pipes(now) /\ pipe'.ref = pipe.ref /\ pipe'.lastSent = Last(f) /\ pipe'.batch = pipe.batch
        /\ pipe'.frames = Tail(fs)
    BY <1>3, <1>4, <2>1 DEF Pipes
  <2>3. newest' \in 0 .. now /\ newest' >= newest /\ newest' >= Last(f)
    BY <1>1, <1>3, <2>1 DEF Newer
  <2>4. ReportTypes'
    BY <1>1, <1>3, <2>2, <2>3 DEF ReportTypes
  <2>5. Ord(pipe)'
    <3>1. pipe.batch # <<>> => /\ pipe.ref <= Last(pipe.batch)
                               /\ \A i \in DOMAIN fs : Last(fs[i]) <= Last(pipe.batch)
      BY DEF ReportInv, Ord
    <3>2. 1 \in DOMAIN fs
      BY <1>2
    <3> HIDE DEF fs
    <3> QED
      BY <1>2, <2>2, <3>1, <3>2 DEF Ord
  <2>6. Honest'
    <3>1. \/ asleep \/ announce
          \/ pipe.batch # <<>>
          \/ newest >= pipe.ref
          \/ \E i \in DOMAIN fs : Last(fs[i]) >= pipe.ref
      BY DEF ReportInv, Honest
    <3> HIDE DEF fs
    <3>2. CASE asleep \/ announce \/ pipe.batch # <<>>
      BY <1>1, <2>2, <3>2 DEF Honest
    <3>3. CASE newest >= pipe.ref
      BY <1>1, <2>2, <2>3, <3>3 DEF Honest
    <3>4. CASE \E i \in DOMAIN fs : Last(fs[i]) >= pipe.ref
      <4>1. PICK i \in DOMAIN fs : Last(fs[i]) >= pipe.ref
        BY <3>4
      <4>2. CASE i = 1
        <5>1. Last(f) >= pipe.ref
          BY <1>2, <4>1, <4>2
        <5>2. newest' >= pipe'.ref
          BY <1>1, <1>3, <2>2, <2>3, <5>1
        <5> QED
          BY <5>2 DEF Honest
      <4>3. CASE i # 1
        <5>1. i - 1 \in 1 .. Len(fs) - 1 /\ i - 1 + 1 = i
          BY <1>2, <4>3, <1>1
        <5>2. i - 1 \in DOMAIN pipe'.frames /\ pipe'.frames[i - 1] = fs[i]
          BY <1>2, <2>2, <5>1
        <5>3. Last(pipe'.frames[i - 1]) >= pipe'.ref
          BY <2>2, <4>1, <5>2
        <5> QED
          BY <5>2, <5>3 DEF Honest
      <4> QED
        BY <4>2, <4>3
    <3> QED
      BY <3>1, <3>2, <3>3, <3>4
  <2> QED
    BY <2>4, <2>5, <2>6 DEF ReportInv
<1>6. CASE ~went
  <2>1. pipe' = Failed(p) /\ newest' = newest
    BY <1>6 DEF FrameDone, p, f
  <2>2. /\ pipe' \in Pipes(now) /\ pipe'.ref = pipe.lastSent /\ pipe'.lastSent = pipe.lastSent
        /\ pipe'.batch = pipe.batch /\ pipe'.frames = Tail(fs)
    BY <1>1, <1>4, <2>1, FailedPipe
  <2>3. ReportTypes'
    BY <1>1, <1>3, <2>1, <2>2 DEF ReportTypes
  <2>4. Ord(pipe)'
    <3>1. pipe.batch # <<>> => /\ pipe.lastSent <= Last(pipe.batch)
                               /\ \A i \in DOMAIN fs : Last(fs[i]) <= Last(pipe.batch)
      BY DEF ReportInv, Ord
    <3> HIDE DEF fs
    <3> QED
      BY <1>2, <2>2, <3>1 DEF Ord
  <2>5. Honest'
    BY <1>1, <2>1, <2>2 DEF Honest
  <2> QED
    BY <2>3, <2>4, <2>5 DEF ReportInv
<1> QED
  BY <1>5, <1>6

LEMMA ExitHonest ==
  ASSUME ReportInv, NEW radio \in BOOLEAN, Exit(radio)
  PROVE  ReportInv'
<1> DEFINE s0 == PipeState(pipe, pacer)
<1>1. PICK s \in Flushed(s0, TRUE, TRUE, {}, FALSE, FALSE, radio) :
        newest' = IF radio /\ ~asleep /\ s.pipe.frames # <<>>
                  THEN Newer(s.newest, Last(s.pipe.frames)) ELSE s.newest
  BY DEF Exit
<1>2. now \in Nat /\ now' = now /\ pipe' = PipeInit
  BY DEF Exit, ReportInv, ReportTypes
<1>3. IsState(s0, now) /\ Ord(s0.pipe)
  <2>1. IsState(s0, now)
    BY StateIs DEF ReportInv, ReportTypes
  <2>2. s0.pipe = pipe
    BY DEF PipeState
  <2> QED
    BY <2>1, <2>2 DEF ReportInv
<1> HIDE DEF s0
<1>4. TRUE \in BOOLEAN /\ FALSE \in BOOLEAN /\ {} \in SUBSET Pacing
  OBVIOUS
<1>5. IsState(s, now)
  <2>1. FlushGood(s0, s, now)
    BY Zenon, <1>1, <1>2, <1>3, <1>4, FlushedGood
  <2> QED
    BY <2>1 DEF FlushGood
<1>6. newest' \in 0 .. now
  <2>1. s.newest \in 0 .. now /\ s.pipe.frames \in Seq(Full(now))
    BY <1>5 DEF IsState, Pipes
  <2>2. ASSUME s.pipe.frames # <<>>
        PROVE  Newer(s.newest, Last(s.pipe.frames)) \in 0 .. now
    <3> DEFINE f == Last(s.pipe.frames)
    <3>1. f \in Full(now)
      BY <2>1, <2>2 DEF Last
    <3> HIDE DEF f
    <3>2. Last(f) \in 0 .. now
      BY <1>2, <3>1, LastOfFull
    <3>3. Newer(s.newest, f) \in 0 .. now
      BY <2>1, <3>2 DEF Newer
    <3> QED
      BY <3>3 DEF f
  <2> QED
    BY <1>1, <2>1, <2>2
<1>7. /\ PipeInit \in Pipes(now) /\ PipeInit.ref = 0 /\ PipeInit.lastSent = 0 /\ PipeInit.batch = <<>>
      /\ Len(PipeInit.frames) <= FrameLimit
  BY <1>2, ReportsAssumption DEF PipeInit, Pipes, NoFix, ReportsAssumption
<1>8. pacer' \in Paces
  BY PacerInitType DEF Exit
<1> QED
  BY <1>2, <1>6, <1>7, <1>8 DEF ReportInv, ReportTypes, Ord, Honest

LEMMA MoveHonest ==
  ASSUME ReportInv, NEW to \in Places, Move(to)
  PROVE  ReportInv'
<1>1. /\ pacer.parked \in [in : Nat, first : BOOLEAN, repeats : Nat]
      /\ pacer.join \in [in : Nat, step : 1 .. Len(Backoff["join"])]
      /\ pacer.moving \in [in : Nat, step : 1 .. Len(Backoff["moving"])]
      /\ pacer = [parked |-> pacer.parked, join |-> pacer.join, moving |-> pacer.moving]
  BY DEF ReportInv, ReportTypes, Paces
<1>2. ASSUME NEW q \in [in : Nat, first : BOOLEAN, repeats : Nat]
      PROVE  [pacer EXCEPT !.parked = q] \in Paces
  <2>1. [pacer EXCEPT !.parked = q] = [parked |-> q, join |-> pacer.join, moving |-> pacer.moving]
    BY <1>1
  <2> QED
    BY <1>1, <2>1 DEF Paces
<1>3. \/ pacer' = [pacer EXCEPT !.parked = [in |-> 1, first |-> FALSE, repeats |-> 1]]
      \/ pacer' = PacerInit
      \/ pacer' = [pacer EXCEPT !.parked = PacerInit.parked]
  BY DEF Move
<1>4. pacer' \in Paces
  <2>1. [in |-> 1, first |-> FALSE, repeats |-> 1] \in [in : Nat, first : BOOLEAN, repeats : Nat]
    OBVIOUS
  <2>2. CASE pacer' = PacerInit
    BY <2>2, PacerInitType
  <2>3. CASE pacer' = [pacer EXCEPT !.parked = [in |-> 1, first |-> FALSE, repeats |-> 1]]
    BY <1>2, <2>1, <2>3
  <2>4. CASE pacer' = [pacer EXCEPT !.parked = PacerInit.parked]
    BY <1>2, <2>4, PacerInitType
  <2> QED
    BY <1>3, <2>2, <2>3, <2>4
<1> QED
  BY <1>4 DEF Move, ReportInv, ReportTypes, Ord, Honest

LEMMA ReportInvStep ==
  ASSUME ReportInv, [ReportNext]_reportVars
  PROVE  ReportInv'
<1>1. CASE \E under, event, near, clear, radio \in BOOLEAN : Fix(under, event, near, clear, radio)
  BY <1>1, FixHonest
<1>2. CASE \E near, clear, radio \in BOOLEAN : SlotFlush(near, clear, radio)
  BY <1>2, SlotFlushHonest
<1>3. CASE \E went \in BOOLEAN : FrameDone(went)
  BY <1>3, FrameDoneHonest
<1>4. CASE \E to \in Places : Move(to)
  BY <1>4, MoveHonest
<1>5. CASE FallAsleep
  <2>1. /\ now \in Nat /\ pipe \in Pipes(now) /\ newest \in 0 .. now /\ pipe.lastSent <= newest
        /\ pacer \in Paces /\ Len(pipe.frames) <= FrameLimit
    BY DEF ReportInv, ReportTypes
  <2>2. pipe' = [pipe EXCEPT !.batch = <<>>] /\ now' = now /\ newest' = newest /\ asleep' /\ pacer' = pacer
    BY <1>5 DEF FallAsleep
  <2> DEFINE p == [pipe EXCEPT !.batch = <<>>]
  <2>0. p \in Pipes(now) /\ p.lastSent = pipe.lastSent /\ p.batch = <<>> /\ p.frames = pipe.frames
    <3>1. <<>> \in Seq(1 .. now)
      OBVIOUS
    <3> QED
      BY <2>1, <3>1 DEF Pipes
  <2>3. pipe' \in Pipes(now) /\ pipe'.lastSent = pipe.lastSent /\ pipe'.batch = <<>> /\ pipe'.frames = pipe.frames
    BY <2>0, <2>2
  <2> QED
    BY <2>1, <2>2, <2>3 DEF ReportInv, ReportTypes, Ord, Honest
<1>6. CASE WakeUp
  BY <1>6 DEF WakeUp, ReportInv, ReportTypes, Ord, Honest
<1>7. CASE \E radio \in BOOLEAN : Exit(radio)
  BY <1>7, ExitHonest
<1>8. CASE UNCHANGED reportVars
  BY <1>8 DEF reportVars, ReportInv, ReportTypes, Ord, Honest
<1> QED
  BY <1>1, <1>2, <1>3, <1>4, <1>5, <1>6, <1>7, <1>8 DEF ReportNext

\* The gate counts no fix as reported that was lost on the way (distanceGate.js, flushPendingBatch
\* and sendFixes of boatAgent.js): a newer fix went out, waits in the batch or is in a frame, for any
\* sizes, pacing and thinning, and however frames are refused, dropped or outlived by the boat.
THEOREM GateIsHonest == ReportSpec => []GateHonest
<1>1. ReportInit => ReportInv
  <2>1. /\ PipeInit \in Pipes(0) /\ PipeInit.ref = 0 /\ PipeInit.lastSent = 0 /\ PipeInit.batch = <<>>
        /\ Len(PipeInit.frames) <= FrameLimit
    BY ReportsAssumption DEF PipeInit, Pipes, NoFix, ReportsAssumption
  <2> QED
    BY <2>1, PacerInitType DEF ReportInit, ReportInv, ReportTypes, Ord, Honest, NoFix
<1>2. ReportInv /\ [ReportNext]_reportVars => ReportInv'
  BY ReportInvStep
<1>3. ReportInv => GateHonest
  <2> SUFFICES ASSUME ReportInv, ~asleep, ~announce
               PROVE  \E f \in OnItsWay : f >= pipe.ref
    BY DEF GateHonest
  <2>1. now \in Nat /\ pipe.batch \in Seq(1 .. now) /\ pipe.frames \in Seq(Full(now)) /\ pipe.ref \in 0 .. now
    BY DEF ReportInv, ReportTypes, Pipes
  <2>2. CASE pipe.batch # <<>>
    <3>1. Last(pipe.batch) \in ToSet(pipe.batch) /\ Last(pipe.batch) \in 0 .. now
      <4>1. Len(pipe.batch) \in DOMAIN pipe.batch
        BY <2>1, <2>2
      <4> QED
        BY <2>1, <4>1 DEF ToSet, Last
    <3>2. pipe.ref <= Last(pipe.batch)
      BY <2>2 DEF ReportInv, Ord
    <3>3. Last(pipe.batch) >= pipe.ref
      BY <2>1, <3>1, <3>2
    <3> QED
      BY <3>1, <3>3 DEF OnItsWay
  <2>3. CASE newest >= pipe.ref
    BY <2>3 DEF OnItsWay
  <2>4. CASE \E i \in DOMAIN pipe.frames : Last(pipe.frames[i]) >= pipe.ref
    <3>1. PICK i \in DOMAIN pipe.frames : Last(pipe.frames[i]) >= pipe.ref
      BY <2>4
    <3> DEFINE f == pipe.frames[i]
    <3>2. f \in Full(now) /\ f \in ToSet(pipe.frames)
      BY <2>1, <3>1 DEF ToSet
    <3>3. f \in Seq(1 .. now) /\ Len(f) \in Nat \ {0} /\ Last(f) = f[Len(f)]
      BY <2>1, <3>2, LastOfFull
    <3>4. Last(f) \in ToSet(f)
      <4> HIDE DEF f
      <4>1. Len(f) \in DOMAIN f
        BY <3>3
      <4> QED
        BY <3>3, <4>1 DEF ToSet
    <3> QED
      BY <3>1, <3>2, <3>4 DEF OnItsWay
  <2> QED
    BY <2>2, <2>3, <2>4 DEF ReportInv, Honest
<1> QED
  BY <1>1, <1>2, <1>3, PTL DEF ReportSpec

\* The rest of the pipeline's state keeps to its range (handlePvt, EventBoost of eventBoost.js, the
\* radio's sleep), and the pipeline is made of fixes there have been, in no more frames than fit.
ReportRanges ==
  /\ now \in Nat /\ now <= MaxFix
  /\ since \in 0 .. now
  /\ urgentFor \in Nat /\ urgentFor <= BoostFor
  /\ place \in Places
  /\ asleep \in BOOLEAN /\ announce \in BOOLEAN

LEMMA RangesStep ==
  ASSUME ReportRanges, [ReportNext]_reportVars
  PROVE  ReportRanges'
<1>0. BoostFor \in Nat
  BY ReportsAssumption DEF ReportsAssumption
<1>1. ASSUME NEW under \in BOOLEAN, NEW event \in BOOLEAN, NEW near \in BOOLEAN,
             NEW clear \in BOOLEAN, NEW radio \in BOOLEAN, Fix(under, event, near, clear, radio)
      PROVE  ReportRanges'
  <2>1. /\ now + 1 <= MaxFix /\ now' = now + 1
        /\ since' = IF under \/ now = 0 THEN now + 1 ELSE since
        /\ urgentFor' = IF event THEN BoostFor ELSE IF urgentFor > 0 THEN urgentFor - 1 ELSE 0
        /\ announce' = (announce /\ asleep) /\ place' = place /\ asleep' = asleep
    BY <1>1 DEF Fix
  <2>2. since' \in 0 .. now'
    BY <2>1 DEF ReportRanges
  <2>3. urgentFor' \in Nat /\ urgentFor' <= BoostFor
    BY <1>0, <2>1 DEF ReportRanges
  <2> QED
    BY <2>1, <2>2, <2>3 DEF ReportRanges
<1>2. ASSUME NEW near \in BOOLEAN, NEW clear \in BOOLEAN, NEW radio \in BOOLEAN, SlotFlush(near, clear, radio)
      PROVE  ReportRanges'
  BY <1>2 DEF SlotFlush, ReportRanges, Places
<1>3. ASSUME NEW went \in BOOLEAN, FrameDone(went)
      PROVE  ReportRanges'
  BY <1>3 DEF FrameDone, ReportRanges
<1>4. ASSUME NEW to \in Places, Move(to)
      PROVE  ReportRanges'
  BY <1>4 DEF Move, ReportRanges
<1>5. CASE FallAsleep
  BY <1>5 DEF FallAsleep, ReportRanges
<1>6. CASE WakeUp
  BY <1>6 DEF WakeUp, ReportRanges
<1>7. ASSUME NEW radio \in BOOLEAN, Exit(radio)
      PROVE  ReportRanges'
  <2>1. /\ now' = now /\ since' = since /\ urgentFor' = 0 /\ place' = "free"
        /\ asleep' = FALSE /\ announce' = FALSE
    BY <1>7 DEF Exit
  <2>2. place' \in Places
    BY <2>1 DEF Places
  <2>3. urgentFor' \in Nat /\ urgentFor' <= BoostFor
    BY <1>0, <2>1
  <2> QED
    BY <2>1, <2>2, <2>3 DEF ReportRanges
<1>8. CASE UNCHANGED reportVars
  BY <1>8 DEF reportVars, ReportRanges
<1> QED
  BY <1>1, <1>2, <1>3, <1>4, <1>5, <1>6, <1>7, <1>8 DEF ReportNext

\* The report pipeline of a boat keeps its type for any number of fixes, batch and frame sizes and
\* steps of the backoffs: it holds fixes there have been, and no more frames than the scheduler has room for.
THEOREM ReportTypeCorrect == ReportSpec => []ReportTypeOK
<1>1. ReportInit => ReportInv /\ ReportRanges
  <2>1. /\ PipeInit \in Pipes(0) /\ PipeInit.ref = 0 /\ PipeInit.lastSent = 0 /\ PipeInit.batch = <<>>
        /\ Len(PipeInit.frames) <= FrameLimit
    BY ReportsAssumption DEF PipeInit, Pipes, NoFix, ReportsAssumption
  <2>2. ReportInit => ReportInv
    BY <2>1, PacerInitType DEF ReportInit, ReportInv, ReportTypes, Ord, Honest, NoFix
  <2>3. ReportInit => ReportRanges
    <3>1. BoostFor \in Nat /\ MaxFix \in Nat
      BY ReportsAssumption DEF ReportsAssumption
    <3> SUFFICES ASSUME ReportInit
                 PROVE  ReportRanges
      OBVIOUS
    <3>2. /\ now = 0 /\ since = 0 /\ urgentFor = 0 /\ place = "free"
          /\ asleep = FALSE /\ announce = FALSE
      BY DEF ReportInit
    <3>3. place \in Places
      BY <3>2 DEF Places
    <3>4. /\ now \in Nat /\ now <= MaxFix /\ since \in 0 .. now /\ urgentFor \in Nat /\ urgentFor <= BoostFor
      BY <3>1, <3>2
    <3> QED
      BY <3>2, <3>3, <3>4 DEF ReportRanges
  <2> QED
    BY <2>2, <2>3
<1>2. ReportInv /\ [ReportNext]_reportVars => ReportInv'
  BY ReportInvStep
<1>3. ReportRanges /\ [ReportNext]_reportVars => ReportRanges'
  BY RangesStep
<1>4. ReportInv /\ ReportRanges => ReportTypeOK
  <2> SUFFICES ASSUME ReportInv, ReportRanges
               PROVE  ReportTypeOK
    OBVIOUS
  <2>1. /\ now \in 0 .. MaxFix /\ urgentFor \in 0 .. BoostFor /\ place \in Places
        /\ {asleep, announce} \subseteq BOOLEAN
    BY DEF ReportRanges
  <2>2. /\ pipe.batch \in Seq(1 .. now) /\ pipe.waiting \in Seq(1 .. now) /\ pipe.frames \in Seq(Full(now))
        /\ pipe.ref \in 0 .. now /\ pipe.lastSent \in 0 .. now /\ newest \in 0 .. now
        /\ Len(pipe.frames) <= FrameLimit
    BY DEF ReportInv, ReportTypes, Pipes
  <2>3. {since, newest, pipe.ref, pipe.lastSent} \subseteq 0 .. now
    BY <2>2 DEF ReportRanges
  <2>4. 1 .. now \subseteq Fixes
    <3>1. now \in Nat /\ now <= MaxFix /\ MaxFix \in Nat
      BY ReportsAssumption DEF ReportRanges, ReportsAssumption
    <3> QED
      BY <3>1 DEF Fixes
  <2> DEFINE had == 1 .. now
  <2>5. Seq(had) \subseteq Seq(Fixes)
    <3>1. had \subseteq Fixes
      BY <2>4
    <3> HIDE DEF had
    <3> QED
      BY <3>1
  <2>6. Full(now) \subseteq Seq(Fixes)
    BY <2>5 DEF Full
  <2>7. Seq(Full(now)) \subseteq Seq(Seq(Fixes))
    BY <2>6
  <2>8. \A n \in DOMAIN pacer : pacer[n].in \in Nat
    <3>1. pacer \in Paces
      BY DEF ReportInv, ReportTypes
    <3> QED
      BY <3>1 DEF Paces
  <2> QED
    BY <2>1, <2>2, <2>3, <2>5, <2>7, <2>8 DEF ReportTypeOK
<1> QED
  BY <1>1, <1>2, <1>3, <1>4, PTL DEF ReportSpec

-----------------------------------------------------------------------------
(***************************************************************************)
(* SimBoat, for any course, lines, legs and strides. What a boat is made   *)
(* of (Hull) holds always; where it is and what it heads for (Afloat), and *)
(* that it sails no further once its last lap is over (Racing), as long as *)
(* it sails. After that it only follows its path to where it parks.        *)
(***************************************************************************)

Points == Int \X Int
Crew == {"plan", "at", "aim", "gate", "dwell", "upwind", "side", "left", "direct", "frozen", "crossed", "passed",
         "clear", "rounded", "coast", "between", "laps", "path", "done"}

Hull(b) ==
  /\ DOMAIN b = Crew
  /\ b.side \in {1, -1} /\ b.left \in 0 .. Forever /\ b.passed \subseteq LineSides
  /\ b.coast \in 0 .. Coast /\ b.laps \in 0 .. LapCount
Afloat(b) ==
  /\ b.at \in Points /\ b.aim \in Points /\ b.frozen \in Points /\ b.clear.head \in Points /\ b.clear.past \subseteq LineSides
  /\ b.upwind \in BOOLEAN /\ b.crossed \in BOOLEAN /\ b.rounded \in BOOLEAN /\ b.between \in BOOLEAN
Racing(b) == b.laps = LapCount => b.crossed /\ b.upwind /\ b.coast > 0 /\ ~b.between
Sails(b)  == b.path = <<>> /\ ~b.done /\ b.plan # "foul"

\* The fields a new leg may change, and two boats that differ in some fields only.
LegFields == {"side", "left", "direct", "frozen", "rounded"}
Alike(n, b, fields) == DOMAIN n = DOMAIN b /\ \A f \in DOMAIN b \ fields : n[f] = b[f]

LEMMA InCrew ==
  /\ "plan" \in Crew /\ "at" \in Crew /\ "aim" \in Crew /\ "gate" \in Crew /\ "dwell" \in Crew /\ "upwind" \in Crew
  /\ "side" \in Crew /\ "left" \in Crew /\ "direct" \in Crew /\ "frozen" \in Crew /\ "crossed" \in Crew
  /\ "passed" \in Crew /\ "clear" \in Crew /\ "rounded" \in Crew /\ "coast" \in Crew /\ "between" \in Crew
  /\ "laps" \in Crew /\ "path" \in Crew /\ "done" \in Crew
  BY DEF Crew

LEMMA SimFigures ==
  /\ Top \in Nat /\ SimMargin \in Nat /\ Coast \in Nat \ {0} /\ LapCount \in Nat \ {0} /\ Forever \in Nat \ {0, 1}
  /\ CloseBy \in Nat /\ CloseBy < Forever
  /\ \A l \in Legs : l \in Nat /\ 1 <= l /\ l < Forever
  /\ Legs # {} /\ Strides \subseteq Nat
  /\ StartEnd \in Points /\ FinishEnd \in Points /\ Pin \in Points /\ Flag \in Points
  /\ StartSpots \subseteq Points /\ GateAim \subseteq Points
<1>1. Forever \in Nat \ {0, 1}
  BY DEF Forever
<1> QED BY <1>1, SimAssumption DEF SimAssumption, Points

LEMMA LeastLeg ==
  /\ Min(Legs) \in Legs
<1>1. Legs \in SUBSET Nat /\ Legs # {}
  BY SimFigures
<1> DEFINE R == OpToRel(<, Nat)
<1>2. PICK x \in Legs : \A y \in Legs : ~(<<y, x>> \in R)
  <2>1. IsWellFoundedOn(R, Nat)
    BY NatLessThanWellFounded
  <2> HIDE DEF R
  <2> QED BY <1>1, <2>1, WFMin
<1>3. \E z \in Legs : \A y \in Legs : z <= y
  <2> WITNESS x \in Legs
  <2> TAKE y \in Legs
  <2>1. x \in Nat /\ y \in Nat
    BY <1>1
  <2>2. y < x => <<y, x>> \in R
    BY <2>1 DEF OpToRel
  <2> HIDE DEF R
  <2> QED BY <1>2, <2>1, <2>2
<1> QED BY <1>3 DEF Min

LEMMA LessOf ==
  ASSUME NEW a \in Int, NEW b \in Int
  PROVE  Min({a, b}) = IF a <= b THEN a ELSE b
<1>1. \E x \in {a, b} : \A y \in {a, b} : x <= y
  OBVIOUS
<1>2. Min({a, b}) \in {a, b} /\ \A y \in {a, b} : Min({a, b}) <= y
  BY <1>1 DEF Min
<1> QED BY <1>2

LEMMA MoreOf ==
  ASSUME NEW a \in Int, NEW b \in Int
  PROVE  Max({a, b}) = IF a <= b THEN b ELSE a
<1>1. \E x \in {a, b} : \A y \in {a, b} : x >= y
  OBVIOUS
<1>2. Max({a, b}) \in {a, b} /\ \A y \in {a, b} : Max({a, b}) >= y
  BY <1>1 DEF Max
<1> QED BY <1>2

LEMMA PointOf ==
  ASSUME NEW p \in Points
  PROVE  North(p) \in Int /\ East(p) \in Int /\ p[1] \in Int /\ p[2] \in Int
  BY DEF Points, North, East

\* What a change of a boat's fields leaves of it.
LEMMA KeptAfloat ==
  ASSUME NEW b, NEW n, Hull(b), Afloat(b), Alike(n, b, LegFields),
         n.side \in {1, -1}, n.left \in 0 .. Forever, n.frozen \in Points, n.rounded \in BOOLEAN
  PROVE  Hull(n) /\ Afloat(n)
<1>1. /\ n.passed = b.passed /\ n.coast = b.coast /\ n.laps = b.laps /\ n.at = b.at /\ n.aim = b.aim
      /\ n.clear = b.clear /\ n.upwind = b.upwind /\ n.crossed = b.crossed /\ n.between = b.between
      /\ DOMAIN n = Crew
  BY InCrew DEF Hull, Alike, LegFields
<1> QED BY <1>1 DEF Hull, Afloat

LEMMA WaypointIsPoint ==
  ASSUME NEW b, Afloat(b)
  PROVE  Waypoint(b) \in Points
<1>1. Max({North(StartEnd), North(FinishEnd)}) \in Int
  <2>1. North(StartEnd) \in Int /\ North(FinishEnd) \in Int
    BY SimFigures, PointOf
  <2> QED BY <2>1, MoreOf
<1>2. CASE ~b.crossed /\ b.upwind
  BY <1>2 DEF Waypoint, Afloat
<1>3. CASE ~b.crossed /\ ~b.upwind
  BY <1>1, <1>3 DEF Waypoint, Points
<1>4. CASE b.crossed
  BY <1>4, SimFigures DEF Waypoint, Points
<1> QED BY <1>2, <1>3, <1>4 DEF Afloat

LEMMA AwayAcross ==
  ASSUME NEW b, Afloat(b)
  PROVE  Away(b) \in Nat /\ Across(b) \in Int
<1>1. North(Waypoint(b)) \in Int /\ East(Waypoint(b)) \in Int /\ North(b.at) \in Int /\ East(b.at) \in Int
  BY WaypointIsPoint, PointOf DEF Afloat
<1> QED BY <1>1 DEF Away, Across

LEMMA LegSet ==
  ASSUME NEW b, DOMAIN b = Crew, NEW side, NEW length \in Int, length < Forever
  PROVE  LET n == SetLeg(b, side, length)
         IN Alike(n, b, LegFields \ {"rounded"}) /\ n.side = side /\ n.left \in 0 .. Forever /\ n.frozen = NotSet
<1> DEFINE n == SetLeg(b, side, length)
<1>1. /\ DOMAIN n = Crew
      /\ \A f \in Crew \ {"side", "left", "direct", "frozen"} : n[f] = b[f]
  BY DEF SetLeg
<1>2. n.side = side /\ n.left = (IF length < 1 THEN 1 ELSE length) /\ n.frozen = NotSet
  BY InCrew DEF SetLeg
<1> HIDE DEF n
<1>3. n.left \in 0 .. Forever
  BY <1>2, SimFigures
<1>4. Crew \ (LegFields \ {"rounded"}) = Crew \ {"side", "left", "direct", "frozen"}
  BY DEF LegFields
<1> QED BY <1>1, <1>2, <1>3, <1>4 DEF Alike, n

LEMMA StraightSet ==
  ASSUME NEW b, DOMAIN b = Crew
  PROVE  LET n == Straight(b)
         IN Alike(n, b, LegFields \ {"rounded"}) /\ n.side = b.side /\ n.left \in 0 .. Forever /\ n.frozen = NotSet
<1> DEFINE n == Straight(b)
<1>1. /\ DOMAIN n = Crew
      /\ \A f \in Crew \ {"side", "left", "direct", "frozen"} : n[f] = b[f]
  BY DEF Straight
<1>2. n.side = b.side /\ n.left = Forever /\ n.frozen = NotSet
  BY InCrew DEF Straight
<1> HIDE DEF n
<1>3. n.left \in 0 .. Forever
  BY <1>2, SimFigures
<1>4. Crew \ (LegFields \ {"rounded"}) = Crew \ {"side", "left", "direct", "frozen"}
  BY DEF LegFields
<1> QED BY <1>1, <1>2, <1>3, <1>4 DEF Alike, n

\* A leg, and no more of the boat, is new; near a target it is no longer than the way to it.
LEMMA LegIsNew ==
  ASSUME NEW b, Hull(b), Afloat(b), NEW n \in NewLeg(b)
  PROVE  Alike(n, b, LegFields) /\ Hull(n) /\ Afloat(n)
<1> DEFINE short == Min(Legs) \div 2
           room  == Max({(2 * Away(b)) \div 5, 1})
           minus == (Away(b) - Across(b)) \div 2
           plus  == (Away(b) + Across(b)) \div 2
<1>1. Away(b) \in Nat /\ Across(b) \in Int
  BY AwayAcross
<1>2. short \in Int /\ short < Forever /\ room \in Int /\ Min({short, room}) \in Int /\ Min({short, room}) < Forever
  <2>1. Min(Legs) \in Nat /\ Min(Legs) < Forever
    BY SimFigures, LeastLeg
  <2>2. short \in Int /\ short <= Min(Legs)
    BY <2>1
  <2>3. room \in Int
    <3>1. (2 * Away(b)) \div 5 \in Int
      BY <1>1
    <3> QED BY <3>1, MoreOf
  <2> HIDE DEF short, room
  <2>4. short < Forever
    BY <2>1, <2>2, SimFigures
  <2> QED BY <2>2, <2>3, <2>4, LessOf, SimFigures
<1>3. minus \in Int /\ (minus > 0 /\ plus > 0 => minus <= Away(b))
  BY <1>1
<1>4. DOMAIN b = Crew /\ NotSet \in Points /\ b.side \in {1, -1} /\ b.rounded \in BOOLEAN
  BY DEF Hull, Afloat, NotSet, Points
<1> DEFINE IsLeg(m) == /\ Alike(m, b, LegFields) /\ m.side \in {1, -1} /\ m.left \in 0 .. Forever
                       /\ m.frozen \in Points /\ m.rounded \in BOOLEAN
<1> SUFFICES IsLeg(n)
  BY KeptAfloat
<1> DEFINE LegAsSet(m) == /\ Alike(m, b, LegFields \ {"rounded"}) /\ m.side \in {1, -1} /\ m.left \in 0 .. Forever
                          /\ m.frozen = NotSet
<1>5. ASSUME NEW m, LegAsSet(m)
      PROVE  IsLeg(m) /\ IsLeg([m EXCEPT !.rounded = FALSE])
  <2>1. DOMAIN m = Crew /\ m.rounded = b.rounded
    BY <1>4, <1>5, InCrew DEF Alike, LegFields
  <2>2. IsLeg(m)
    BY <1>4, <1>5, <2>1 DEF Alike
  <2> DEFINE r == [m EXCEPT !.rounded = FALSE]
  <2>3. DOMAIN r = Crew /\ r.rounded = FALSE /\ r.side = m.side /\ r.left = m.left /\ r.frozen = m.frozen
        /\ \A f \in Crew \ {"rounded"} : r[f] = m[f]
    BY <2>1, InCrew
  <2>4. "rounded" \in LegFields
    BY DEF LegFields
  <2> HIDE DEF r
  <2>5. Alike(r, b, LegFields)
    BY <1>4, <1>5, <2>3, <2>4 DEF Alike
  <2>6. IsLeg(r)
    BY <1>4, <1>5, <2>3, <2>5
  <2> QED BY <2>2, <2>6 DEF r
<1> HIDE DEF IsLeg
<1>6. CASE b.rounded
  <2>1. n = [SetLeg(b, -1, Min({short, room})) EXCEPT !.rounded = FALSE]
    BY <1>6 DEF NewLeg
  <2> DEFINE length == Min({short, room})
  <2>2. length \in Int /\ length < Forever
    BY <1>2
  <2> HIDE DEF length
  <2>3. LegAsSet(SetLeg(b, -1, length))
    BY <1>4, <2>2, LegSet
  <2> QED BY <1>5, <2>1, <2>3 DEF length
<1>7. CASE ~b.rounded /\ (b.crossed \/ b.upwind) /\ Away(b) <= CloseBy
  <2>1. n = IF minus > 0 /\ plus > 0 THEN SetLeg(b, -1, minus) ELSE Straight(b)
    BY <1>7 DEF NewLeg
  <2>2. CASE minus > 0 /\ plus > 0
    <3>1. minus < Forever
      BY <1>1, <1>3, <1>7, <2>2, SimFigures
    <3>2. n = SetLeg(b, -1, minus)
      BY <2>1, <2>2
    <3> HIDE DEF minus
    <3>3. minus \in Int /\ minus < Forever
      BY <1>3, <3>1
    <3>4. LegAsSet(SetLeg(b, -1, minus))
      BY <1>4, <3>3, LegSet
    <3> QED BY <1>5, <3>2, <3>4
  <2>3. CASE ~(minus > 0 /\ plus > 0)
    <3>1. LegAsSet(Straight(b))
      BY <1>4, StraightSet
    <3> QED BY <1>5, <2>1, <2>3, <3>1
  <2> QED BY <2>2, <2>3
<1>8. CASE ~b.rounded /\ ~((b.crossed \/ b.upwind) /\ Away(b) <= CloseBy)
  <2>1. \E side \in {1, -1} : n \in {SetLeg(b, side, l) : l \in Legs}
    <3> DEFINE better == IF Across(b) >= 0 THEN 1 ELSE -1
    <3>1. better \in {1, -1} /\ -better \in {1, -1}
      <4>1. better = 1 \/ better = -1
        OBVIOUS
      <4> HIDE DEF better
      <4> QED BY <4>1
    <3> HIDE DEF better
    <3>2. n \in {SetLeg(b, better, l) : l \in Legs} \/ n \in {SetLeg(b, -better, l) : l \in Legs}
      BY <1>8 DEF NewLeg, better
    <3> QED BY <3>1, <3>2
  <2>2. PICK side \in {1, -1}, l \in Legs : n = SetLeg(b, side, l)
    BY <2>1
  <2>3. l \in Int /\ l < Forever
    BY SimFigures
  <2>4. LegAsSet(SetLeg(b, side, l))
    BY <1>4, <2>3, LegSet
  <2> QED BY <1>5, <2>2, <2>4
<1> QED BY <1>6, <1>7, <1>8


-----------------------------------------------------------------------------
(* A tick.                                                                  *)

\* What a tick leaves of a boat.
Fit(n, b) ==
  /\ Hull(n) /\ Afloat(n)
  /\ n.path = b.path /\ n.done = b.done /\ n.plan = b.plan /\ n.laps = b.laps

LEMMA LegFits ==
  ASSUME NEW b, Hull(b), Afloat(b), NEW n \in NewLeg(b)
  PROVE  Fit(n, b)
<1>1. Alike(n, b, LegFields) /\ Hull(n) /\ Afloat(n)
  BY LegIsNew
<1>2. n.path = b.path /\ n.done = b.done /\ n.plan = b.plan /\ n.laps = b.laps
  BY <1>1, InCrew DEF Alike, LegFields, Hull
<1> QED BY <1>1, <1>2 DEF Fit

LEMMA PastFits ==
  ASSUME NEW b, Hull(b), Afloat(b), NEW n \in PastLines(b)
  PROVE  Fit(n, b)
<1>1. CASE PendingSides(b) = {}
  <2> DEFINE c == [b EXCEPT !.crossed = TRUE]
  <2>1. DOMAIN c = Crew /\ c.crossed = TRUE /\ \A f \in Crew \ {"crossed"} : c[f] = b[f]
    BY InCrew DEF Hull
  <2>2. n \in NewLeg(c)
    BY <1>1 DEF PastLines
  <2> HIDE DEF c
  <2>3. Fit(c, b)
    BY <2>1, InCrew DEF Fit, Hull, Afloat
  <2>4. Fit(n, c)
    BY <2>2, <2>3, LegFits DEF Fit
  <2> QED BY <2>3, <2>4 DEF Fit
<1>2. CASE PendingSides(b) # {}
  BY <1>2 DEF PastLines, Stays, Fit
<1> QED BY <1>1, <1>2

LEMMA SignIs ==
  ASSUME NEW x \in Int
  PROVE  Sign(x) \in Int
  BY DEF Sign

LEMMA NoClearIs == NoClear.head \in Points /\ NoClear.past = {} /\ NotSet \in Points
  BY DEF NoClear, NotSet, Points

LEMMA HeadingIsPoint ==
  ASSUME NEW b, Hull(b), Afloat(b)
  PROVE  Heading(b) \in Points
<1>1. Tack(b) \in Points
  BY DEF Tack, Points, Hull
<1>2. Bearing(b) \in Points
  <2>1. North(Waypoint(b)) \in Int /\ East(Waypoint(b)) \in Int /\ North(b.at) \in Int /\ East(b.at) \in Int
    BY WaypointIsPoint, PointOf DEF Afloat
  <2> DEFINE d == <<Sign(North(Waypoint(b)) - North(b.at)), Sign(East(Waypoint(b)) - East(b.at))>>
  <2>2. d \in Points
    BY <2>1, SignIs DEF Points
  <2>3. Bearing(b) = IF d = <<0, 0>> THEN <<1, 0>> ELSE d
    BY DEF Bearing
  <2> HIDE DEF d
  <2>4. <<1, 0>> \in Points
    BY DEF Points
  <2> QED BY <2>2, <2>3, <2>4
<1> QED BY <1>1, <1>2 DEF Heading, Afloat

LEMMA EastAtIs ==
  ASSUME NEW p \in Points, NEW q \in Points, NEW north \in Int
  PROVE  EastAt(p, q, north) \in Int
<1>1. North(p) \in Int /\ East(p) \in Int /\ North(q) \in Int /\ East(q) \in Int
  BY PointOf
<1> DEFINE s == Sign(East(q) - East(p))  t == Sign(North(q) - North(p))  d == north - North(p)
<1>2. s \in Int /\ t \in Int /\ d \in Int
  BY <1>1, SignIs
<1>3. EastAt(p, q, north) = East(p) + d * s * t
  BY DEF EastAt
<1> HIDE DEF s, t, d
<1>4. d * s \in Int
  BY <1>2
<1>5. d * s * t \in Int
  BY <1>2, <1>4
<1> QED BY <1>1, <1>3, <1>5

\* Coasting and clearing legs, marks and new legs.
LEMMA SteeredFits ==
  ASSUME NEW b, Hull(b), Afloat(b), Racing(b), NEW k \in Nat, NEW c \in Steered(b, k)
  PROVE  Fit(c, b) /\ (c.laps = LapCount => c.crossed /\ c.upwind /\ ~c.between /\ b.coast > 0 /\ ~b.between)
<1>1. DOMAIN b = Crew /\ b.coast \in Nat /\ b.coast <= Coast /\ Coast \in Nat /\ b.laps \in Nat
  BY SimFigures DEF Hull
<1>2. CASE b.coast > 0 /\ ~b.between
  <2> DEFINE m == Max({b.coast - k, 0})
  <2>1. c = [b EXCEPT !.coast = m]
    BY <1>2 DEF Steered
  <2>2. m \in 0 .. Coast
    <3>1. m = IF b.coast - k <= 0 THEN 0 ELSE b.coast - k
      BY <1>1, MoreOf
    <3> QED BY <1>1, <3>1
  <2> HIDE DEF m
  <2>3. DOMAIN c = Crew /\ c.coast = m /\ \A f \in Crew \ {"coast"} : c[f] = b[f]
    BY <1>1, <2>1, InCrew
  <2>4. Fit(c, b) /\ c.crossed = b.crossed /\ c.upwind = b.upwind /\ c.between = b.between
    BY <2>2, <2>3, InCrew DEF Fit, Hull, Afloat
  <2> QED BY <1>2, <2>4 DEF Racing, Fit
<1>3. CASE ~(b.coast > 0 /\ ~b.between)
  <2>1. b.laps # LapCount
    BY <1>3 DEF Racing
  <2> SUFFICES Fit(c, b)
    BY <2>1 DEF Fit
  <2>2. CASE b.coast > 0 /\ b.between
    <3>1. CASE b.coast > k
      <4>1. c = [b EXCEPT !.coast = b.coast - k]
        BY <2>2, <3>1 DEF Steered
      <4>2. b.coast - k \in 0 .. Coast
        BY <1>1, <3>1
      <4>3. DOMAIN c = Crew /\ c.coast \in 0 .. Coast /\ \A f \in Crew \ {"coast"} : c[f] = b[f]
        BY <1>1, <4>1, <4>2, InCrew
      <4> QED BY <4>3, InCrew DEF Fit, Hull, Afloat
    <3>2. CASE ~(b.coast > k)
      <4> DEFINE n == [b EXCEPT !.coast = 0, !.between = FALSE]
      <4>1. c \in NewLeg(n)
        BY <2>2, <3>2 DEF Steered
      <4>2. DOMAIN n = Crew /\ n.coast = 0 /\ n.between = FALSE /\ \A f \in Crew \ {"coast", "between"} : n[f] = b[f]
        BY <1>1, InCrew
      <4> HIDE DEF n
      <4>3. 0 \in 0 .. Coast
        BY <1>1
      <4>4. Fit(n, b)
        BY <4>2, <4>3, InCrew DEF Fit, Hull, Afloat
      <4>5. Fit(c, n)
        BY <4>1, <4>4, LegFits DEF Fit
      <4> QED BY <4>4, <4>5 DEF Fit
    <3> QED BY <3>1, <3>2
  <2>3. CASE b.coast = 0 /\ b.clear # NoClear
    <3>1. CASE ~ClearingOver(b)
      BY <2>3, <3>1 DEF Steered, Stays, Fit
    <3>2. CASE ClearingOver(b) /\ b.clear.line
      <4> DEFINE n == [b EXCEPT !.clear = NoClear, !.passed = b.passed \cup b.clear.past]
      <4>1. c \in PastLines(n)
        BY <2>3, <3>2 DEF Steered, ClearingEnds
      <4>2. DOMAIN n = Crew /\ n.clear = NoClear /\ n.passed = b.passed \cup b.clear.past
            /\ \A f \in Crew \ {"clear", "passed"} : n[f] = b[f]
        BY <1>1, InCrew
      <4> HIDE DEF n
      <4>3. Fit(n, b)
        BY <4>2, InCrew, NoClearIs DEF Fit, Hull, Afloat
      <4>4. Fit(c, n)
        BY <4>1, <4>3, PastFits DEF Fit
      <4> QED BY <4>3, <4>4 DEF Fit
    <3>3. CASE ClearingOver(b) /\ ~b.clear.line
      <4> DEFINE n == [b EXCEPT !.clear = NoClear, !.upwind = ~b.upwind, !.crossed = FALSE, !.passed = {}, !.rounded = TRUE]
      <4>1. c \in NewLeg(n)
        BY <2>3, <3>3 DEF Steered, ClearingEnds
      <4>2. DOMAIN n = Crew /\ \A f \in Crew \ {"clear", "upwind", "crossed", "passed", "rounded"} : n[f] = b[f]
        BY <1>1
      <4>3. n.clear = NoClear /\ n.upwind \in BOOLEAN /\ n.crossed = FALSE /\ n.passed = {} /\ n.rounded = TRUE
        BY <1>1, InCrew
      <4> HIDE DEF n
      <4>4. Fit(n, b)
        BY <4>2, <4>3, InCrew, NoClearIs DEF Fit, Hull, Afloat
      <4>5. Fit(c, n)
        BY <4>1, <4>4, LegFits DEF Fit
      <4> QED BY <4>4, <4>5 DEF Fit
    <3> QED BY <3>1, <3>2, <3>3
  <2>4. CASE b.coast = 0 /\ b.clear = NoClear
    <3>1. ASSUME NEW to \in {1, -1}, c \in RoundsMark(b, to)
          PROVE  Fit(c, b)
      <4> DEFINE leg == [head |-> <<0, to>>, to |-> to, line |-> FALSE, past |-> {}]
      <4>1. c = [b EXCEPT !.direct = FALSE, !.clear = leg]
        BY <3>1 DEF RoundsMark
      <4>2. leg.head \in Points /\ leg.past = {}
        BY DEF Points
      <4> HIDE DEF leg
      <4>3. DOMAIN c = Crew /\ c.clear = leg /\ \A f \in Crew \ {"direct", "clear"} : c[f] = b[f]
        BY <1>1, <4>1, InCrew
      <4> QED BY <4>2, <4>3, InCrew DEF Fit, Hull, Afloat
    <3>2. c \in RoundsMark(b, 1) \/ c \in RoundsMark(b, -1) \/ c \in NewLeg(b) \/ c \in Stays(b)
      BY <1>3, <2>4 DEF Steered
    <3>3. CASE c \in RoundsMark(b, 1)
      BY <3>1, <3>3
    <3>4. CASE c \in RoundsMark(b, -1)
      BY <3>1, <3>4
    <3>5. CASE c \in NewLeg(b)
      BY <3>5, LegFits
    <3>6. CASE c \in Stays(b)
      BY <3>6 DEF Stays, Fit
    <3> QED BY <3>2, <3>3, <3>4, <3>5, <3>6
  <2> QED BY <1>1, <1>3, <2>2, <2>3, <2>4 DEF Afloat
<1> QED BY <1>2, <1>3


\* The sides have latitudes, and of those that are reached one is reached first.
LEMMA TriggerIs ==
  ASSUME NEW s \in LineSides
  PROVE  Trigger(s) \in Int
<1>1. North(StartEnd) \in Int /\ North(FinishEnd) \in Int /\ North(Flag) \in Int /\ North(Pin) \in Int
  BY SimFigures, PointOf
<1>2. CASE s = "start"
  BY <1>1, <1>2 DEF Trigger, EndsOf
<1>3. CASE s = "finish"
  BY <1>1, <1>3 DEF Trigger, EndsOf
<1>4. CASE s = "middle"
  BY <1>1, <1>4, MoreOf DEF Trigger
<1> QED BY <1>2, <1>3, <1>4 DEF LineSides

LEMMA OneIsFirst ==
  ASSUME NEW b, \E s \in PendingSides(b) : North(b.at) < Trigger(s)
  PROVE  FirstReached(b) \in LineSides
<1> DEFINE hit == {s \in PendingSides(b) : North(b.at) < Trigger(s)}
           Before(s, t) == Trigger(s) > Trigger(t) \/ (Trigger(s) = Trigger(t) /\ LineRank(s) < LineRank(t))
<1>1. hit \subseteq LineSides /\ hit # {}
  BY DEF PendingSides
<1>2. \E s \in hit : \A t \in hit \ {s} : Before(s, t)
  <2> DEFINE x == Trigger("start")  y == Trigger("finish")  z == Trigger("middle")
  <2>1. x \in Int /\ y \in Int /\ z \in Int
    BY TriggerIs DEF LineSides
  <2>2. LineRank("start") = 1 /\ LineRank("finish") = 2 /\ LineRank("middle") = 3
    BY DEF LineRank
  <2>3. LineSides = {"start", "finish", "middle"}
    BY DEF LineSides
  <2>4. /\ Before("start", "finish") <=> x >= y
        /\ Before("start", "middle") <=> x >= z
        /\ Before("finish", "middle") <=> y >= z
        /\ Before("finish", "start") <=> y > x
        /\ Before("middle", "start") <=> z > x
        /\ Before("middle", "finish") <=> z > y
    BY <2>1, <2>2
  <2> HIDE DEF Before, x, y, z, hit
  <2>5. CASE "start" \in hit /\ ("finish" \in hit => x >= y) /\ ("middle" \in hit => x >= z)
    BY <1>1, <2>3, <2>4, <2>5
  <2>6. CASE "finish" \in hit /\ ("start" \in hit => y > x) /\ ("middle" \in hit => y >= z)
    BY <1>1, <2>3, <2>4, <2>6
  <2>7. CASE "middle" \in hit /\ ("start" \in hit => z > x) /\ ("finish" \in hit => z > y)
    BY <1>1, <2>3, <2>4, <2>7
  <2>8. "start" \in hit \/ "finish" \in hit \/ "middle" \in hit
    BY <1>1, <2>3
  <2> QED BY <2>1, <2>5, <2>6, <2>7, <2>8
<1>3. FirstReached(b) = CHOOSE s \in hit : \A t \in hit \ {s} : Before(s, t)
  BY DEF FirstReached
<1> HIDE DEF hit, Before
<1>4. FirstReached(b) \in hit
  BY <1>2, <1>3
<1> QED BY <1>1, <1>4

\* A boat that goes through the gate has a lap more and coasts; every other change of a boat that
\* reaches a line is of a boat with laps to go.
LEMMA CheckedFits ==
  ASSUME NEW b, Hull(b), Afloat(b), b.laps = LapCount => b.crossed /\ b.upwind,
         NEW from \in Points, NEW head \in Points, NEW c \in LineChecked(b, from, head)
  PROVE  /\ Hull(c) /\ Afloat(c) /\ c.path = b.path /\ c.done = b.done /\ c.plan = b.plan
         /\ c = b \/ Racing(c)
<1>1. DOMAIN b = Crew /\ b.laps \in 0 .. LapCount /\ LapCount \in Nat /\ Coast \in Nat \ {0}
  BY SimFigures DEF Hull
<1>2. CASE c \in Stays(b)
  BY <1>2 DEF Stays
<1>3. CASE /\ b.coast = 0 /\ b.clear = NoClear /\ b.upwind /\ ~b.crossed /\ North(b.at) > North(b.aim)
           /\ c \in AtGate(b, from, head)
  <2> DEFINE east == EastAt(from, b.at, North(b.aim))
  <2>1. b.laps + 1 \in 0 .. LapCount /\ b.laps # LapCount
    BY <1>1, <1>3
  <2>2. <<North(b.aim), east>> \in Points
    BY EastAtIs, PointOf DEF Afloat, Points
  <2>3. CASE Alongside(EndsOf("finish"), <<North(b.aim), east>>, FALSE)
    <3> DEFINE spot == <<North(b.aim), east>>
               froze == IF b.direct THEN head ELSE b.frozen
               more  == b.laps + 1 < LapCount
    <3>1. c = [b EXCEPT !.at = spot, !.frozen = froze, !.direct = FALSE, !.crossed = TRUE, !.laps = b.laps + 1,
                        !.coast = Coast, !.between = more]
      BY <1>3, <2>3 DEF AtGate
    <3>2. spot \in Points /\ froze \in Points /\ more \in BOOLEAN
      BY <2>2 DEF Afloat
    <3> HIDE DEF spot, froze
    <3>3. DOMAIN c = Crew
          /\ \A f \in Crew \ {"at", "frozen", "direct", "crossed", "laps", "coast", "between"} : c[f] = b[f]
      BY <1>1, <3>1
    <3>4. c.at = spot /\ c.frozen = froze /\ c.crossed = TRUE /\ c.laps = b.laps + 1 /\ c.coast = Coast /\ c.between = more
      BY <1>1, <3>1, InCrew
    <3>5. Coast \in 0 .. Coast
      BY <1>1
    <3>6. Hull(c)
      BY <2>1, <3>3, <3>4, <3>5, InCrew DEF Hull
    <3>7. Afloat(c) /\ c.path = b.path /\ c.done = b.done /\ c.plan = b.plan /\ c.upwind = b.upwind
      BY <3>2, <3>3, <3>4, InCrew DEF Afloat
    <3>8. Racing(c)
      <4>1. c.crossed /\ c.upwind /\ c.coast > 0
        BY <1>1, <1>3, <3>4, <3>7
      <4>2. c.laps = LapCount => ~c.between
        <5>1. b.laps + 1 = LapCount => ~more
          BY <1>1
        <5> HIDE DEF more
        <5> QED BY <3>2, <3>4, <5>1
      <4> QED BY <4>1, <4>2 DEF Racing
    <3> QED BY <3>6, <3>7, <3>8
  <2>4. CASE ~Alongside(EndsOf("finish"), <<North(b.aim), east>>, FALSE)
    <3> DEFINE n == Straight(b)
    <3>1. c = [n EXCEPT !.at = from]
      BY <1>3, <2>4 DEF AtGate
    <3>2. Alike(n, b, LegFields \ {"rounded"}) /\ n.side = b.side /\ n.left \in 0 .. Forever /\ n.frozen = NotSet
      BY <1>1, StraightSet
    <3> HIDE DEF n
    <3>3. DOMAIN n = Crew /\ \A f \in Crew \ {"side", "left", "direct", "frozen"} : n[f] = b[f]
      BY <1>1, <3>2 DEF Alike, LegFields
    <3>4. Fit(n, b)
      BY <3>2, <3>3, InCrew, NoClearIs DEF Fit, Hull, Afloat
    <3>5. DOMAIN c = Crew /\ c.at = from /\ \A f \in Crew \ {"at"} : c[f] = n[f]
      BY <3>1, <3>3, InCrew
    <3>6. Fit(c, n)
      BY <3>4, <3>5, InCrew DEF Fit, Hull, Afloat
    <3> QED BY <2>1, <3>4, <3>6 DEF Fit, Racing
  <2> QED BY <2>3, <2>4
<1>4. CASE ~b.upwind /\ (\E s \in PendingSides(b) : North(b.at) < Trigger(s)) /\ c \in AtLines(b, from)
  <2> DEFINE s == FirstReached(b)
             hits == <<Trigger(s), EastAt(from, b.at, Trigger(s))>>
  <2>1. b.laps # LapCount /\ s \in LineSides
    BY <1>4, OneIsFirst
  <2>2. hits \in Points
    BY <2>1, TriggerIs, EastAtIs DEF Afloat, Points
  <2> SUFFICES Fit(c, b)
    BY <2>1 DEF Fit, Racing
  <2>3. CASE InStrip(b, hits)
    <3> DEFINE n == [b EXCEPT !.at = from]
    <3>1. c = ClearsLines(n, East(hits))
      BY <1>4, <2>3 DEF AtLines
    <3>2. DOMAIN n = Crew /\ n.at = from /\ \A f \in Crew \ {"at"} : n[f] = b[f]
      BY <1>1, InCrew
    <3> HIDE DEF n
    <3>3. Fit(n, b)
      BY <3>2, InCrew DEF Fit, Hull, Afloat
    <3>4. PICK clear : c = [n EXCEPT !.clear = clear] /\ clear.head \in Points /\ clear.past \subseteq LineSides
      <4> DEFINE ahead == PendingSides(n)
                 ends  == {East(EndsOf(t)[i]) : t \in ahead, i \in {1, 2}}
                 open  == n.gate /\ "start" \in ahead
                 to    == IF open \/ Max(ends) - East(hits) <= East(hits) - Min(ends) THEN 1 ELSE -1
                 leg   == [head |-> <<-1, 2 * to>>, line |-> TRUE, past |-> ahead,
                           to |-> IF to = 1 THEN Max(ends) + SimMargin ELSE Min(ends) - SimMargin]
      <4>1. c = [n EXCEPT !.clear = leg]
        BY <3>1 DEF ClearsLines
      <4>2. to = 1 \/ to = -1
        OBVIOUS
      <4>3. ahead \subseteq LineSides
        BY DEF PendingSides
      <4>4. leg.head = <<-1, 2 * to>> /\ leg.past = ahead
        OBVIOUS
      <4> HIDE DEF leg, to, ahead
      <4>5. leg.head \in Points
        BY <4>2, <4>4 DEF Points
      <4> QED BY <4>1, <4>3, <4>4, <4>5
    <3>5. DOMAIN c = Crew /\ c.clear = clear /\ \A f \in Crew \ {"clear"} : c[f] = n[f]
      BY <3>2, <3>4, InCrew
    <3>6. Fit(c, n)
      BY <3>3, <3>4, <3>5, InCrew DEF Fit, Hull, Afloat
    <3> QED BY <3>3, <3>6 DEF Fit
  <2>4. CASE ~InStrip(b, hits)
    <3> DEFINE n == [b EXCEPT !.at = hits, !.passed = b.passed \cup {s}]
    <3>1. c \in PastLines(n)
      BY <1>4, <2>4 DEF AtLines
    <3> HIDE DEF hits, s
    <3>2. DOMAIN n = Crew /\ n.at = hits /\ n.passed = b.passed \cup {s} /\ \A f \in Crew \ {"at", "passed"} : n[f] = b[f]
      BY <1>1, InCrew
    <3> HIDE DEF n
    <3>3. Fit(n, b)
      BY <2>1, <2>2, <3>2, InCrew DEF Fit, Hull, Afloat
    <3>4. Fit(c, n)
      BY <3>1, <3>3, PastFits DEF Fit
    <3> QED BY <3>3, <3>4 DEF Fit
  <2> QED BY <2>3, <2>4
<1> QED BY <1>2, <1>3, <1>4 DEF LineChecked

\* The stride, and what follows from it: a boat whose last lap is over and that has coasted parks.
LEMMA SailedIs ==
  ASSUME NEW b, Hull(b), Afloat(b), Racing(b), Sails(b), NEW stride \in Nat, NEW n \in Sailed(b, stride)
  PROVE  Hull(n) /\ n.plan = b.plan /\ (Sails(n) => Afloat(n) /\ Racing(n))
<1> DEFINE k == IF b.coast = 0 /\ b.clear = NoClear THEN Min({stride, b.left}) ELSE stride
           spot == <<b.at[1] + k * Heading(b)[1], b.at[2] + k * Heading(b)[2]>>
           rest == IF b.left = Forever THEN b.left ELSE Max({b.left - k, 0})
           moved == [b EXCEPT !.at = spot, !.left = rest]
           parks(c) == b.coast > 0 /\ ~b.between /\ c.coast = 0
<1>1. DOMAIN b = Crew /\ b.left \in Nat /\ b.left <= Forever /\ Forever \in Nat
  BY SimFigures DEF Hull
<1>2. k \in Nat
  BY <1>1, LessOf
<1>3. \E m \in Steered(moved, k) : \E c \in LineChecked(m, b.at, Heading(b)) :
        n = IF parks(c) THEN [c EXCEPT !.path = ParkingPath(c)] ELSE c
  BY DEF Sailed
<1>4. Heading(b) \in Points
  BY HeadingIsPoint
<1> HIDE DEF k
<1>5. spot \in Points
  <2>1. Heading(b)[1] \in Int /\ Heading(b)[2] \in Int /\ b.at[1] \in Int /\ b.at[2] \in Int
    BY <1>4, PointOf DEF Afloat
  <2>2. k * Heading(b)[1] \in Int /\ k * Heading(b)[2] \in Int
    BY <1>2, <2>1
  <2> QED BY <2>1, <2>2 DEF Points
<1>6. rest \in 0 .. Forever
  <2>1. Max({b.left - k, 0}) = IF b.left - k <= 0 THEN 0 ELSE b.left - k
    BY <1>1, <1>2, MoreOf
  <2> QED BY <1>1, <1>2, <2>1
<1> HIDE DEF spot, rest
<1>7. DOMAIN moved = Crew /\ moved.at = spot /\ moved.left = rest /\ \A f \in Crew \ {"at", "left"} : moved[f] = b[f]
  BY <1>1, InCrew
<1> HIDE DEF moved
<1>8. Fit(moved, b) /\ Racing(moved) /\ moved.coast = b.coast /\ moved.between = b.between
  BY <1>5, <1>6, <1>7, InCrew DEF Fit, Hull, Afloat, Racing
<1>8a. PICK m \in Steered(moved, k) : \E c \in LineChecked(m, b.at, Heading(b)) :
        n = IF parks(c) THEN [c EXCEPT !.path = ParkingPath(c)] ELSE c
  BY <1>3
<1>9. PICK c \in LineChecked(m, b.at, Heading(b)) :
        n = IF parks(c) THEN [c EXCEPT !.path = ParkingPath(c)] ELSE c
  BY <1>8a
<1>10. Fit(m, moved) /\ (m.laps = LapCount => m.crossed /\ m.upwind /\ ~m.between /\ b.coast > 0 /\ ~b.between)
  BY <1>2, <1>8, SteeredFits DEF Fit
<1>11. /\ Hull(c) /\ Afloat(c) /\ c.path = <<>> /\ c.done = b.done /\ c.plan = b.plan
       /\ c = m \/ Racing(c)
  <2>1. Hull(m) /\ Afloat(m) /\ m.path = <<>> /\ m.done = b.done /\ m.plan = b.plan /\ b.at \in Points
    BY <1>8, <1>10 DEF Fit, Sails, Afloat
  <2> QED BY <1>4, <1>10, <2>1, CheckedFits
<1>12. CASE parks(c)
  <2>1. n = [c EXCEPT !.path = ParkingPath(c)]
    BY <1>9, <1>12
  <2>2. DOMAIN n = Crew /\ n.path = ParkingPath(c) /\ \A f \in Crew \ {"path"} : n[f] = c[f]
    BY <1>11, <2>1, InCrew DEF Hull
  <2>3. ParkingPath(c) # <<>>
    BY DEF ParkingPath
  <2> HIDE DEF parks
  <2>4. Hull(n) /\ n.plan = b.plan
    BY <1>11, <2>2, InCrew DEF Hull
  <2> QED BY <2>2, <2>3, <2>4 DEF Sails
<1>13. CASE ~parks(c)
  <2>1. n = c
    BY <1>9, <1>13
  <2>2. c = m => Racing(c)
    <3> SUFFICES ASSUME c = m, c.laps = LapCount
                 PROVE  Racing(c)
      BY DEF Racing
    <3>1. c.crossed /\ c.upwind /\ ~c.between /\ c.coast # 0
      BY <1>10, <1>13
    <3>2. c.coast > 0
      BY <1>11, <3>1, SimFigures DEF Hull
    <3> QED BY <3>1, <3>2 DEF Racing
  <2> QED BY <1>11, <2>1, <2>2
<1> QED BY <1>12, <1>13


SimInv ==
  /\ Hull(simBoat) /\ (Sails(simBoat) => Afloat(simBoat) /\ Racing(simBoat))
  /\ seen = simBoat.at /\ passes \in Nat /\ fouls \subseteq LineSides

\* A boat that is started is whole and has all its laps to go.
LEMMA LaunchedIs ==
  ASSUME NEW b \in Launched
  PROVE  Hull(b) /\ (Sails(b) => Afloat(b) /\ Racing(b))
<1>1. PICK how \in {"race", "dwell", "hold", "startOnly", "foul"}, p \in StartSpots, aim \in GateAim, gate \in BOOLEAN,
           side \in {1, -1} : b \in Readied(Built(how, p, aim, gate, side))
  BY DEF Launched
<1> DEFINE c == Built(how, p, aim, gate, side)
<1>2. DOMAIN c = Crew
  BY DEF Built, Crew
<1>3. /\ c.plan = how /\ c.at = p /\ c.aim = aim /\ c.upwind = TRUE /\ c.side = side /\ c.left = 1 /\ c.frozen = NotSet
      /\ c.crossed = TRUE /\ c.passed = {} /\ c.clear = NoClear /\ c.rounded = FALSE /\ c.coast = 0 /\ c.between = FALSE
      /\ c.laps = 0 /\ c.path = <<>> /\ c.done = FALSE
  BY DEF Built
<1> HIDE DEF c
<1>4. Coast \in Nat /\ LapCount \in Nat \ {0} /\ Forever \in Nat \ {0} /\ p \in Points /\ aim \in Points
  BY SimFigures
<1>5. 1 \in 0 .. Forever /\ 0 \in 0 .. Coast /\ 0 \in 0 .. LapCount /\ LapCount # 0
  BY <1>4
<1>6. Hull(c) /\ Afloat(c) /\ Racing(c)
  BY <1>2, <1>3, <1>4, <1>5, NoClearIs DEF Hull, Afloat, Racing
<1>7. CASE c.plan = "startOnly"
  <2>1. b = c
    BY <1>1, <1>7 DEF c, Readied
  <2> QED BY <1>6, <2>1
<1>8. CASE c.plan = "foul"
  <2>1. b = [c EXCEPT !.path = FoulPath(c)]
    BY <1>1, <1>8 DEF c, Readied
  <2>2. DOMAIN b = Crew /\ \A f \in Crew \ {"path"} : b[f] = c[f]
    BY <1>2, <2>1
  <2>3. Hull(b) /\ b.plan = "foul"
    BY <1>6, <1>8, <2>2, InCrew DEF Hull
  <2> QED BY <2>3 DEF Sails
<1>9. CASE c.plan \notin {"startOnly", "foul"}
  <2>1. b \in NewLeg(c)
    BY <1>1, <1>9 DEF c, Readied
  <2>2. Fit(b, c)
    BY <1>6, <2>1, LegFits
  <2> QED BY <1>3, <1>5, <2>2 DEF Fit, Racing
<1> QED BY <1>7, <1>8, <1>9

LEMMA SimStep ==
  ASSUME SimInv, [SimNext]_simVars
  PROVE  SimInv'
<1> DEFINE Boat(b) == Hull(b) /\ (Sails(b) => Afloat(b) /\ Racing(b))
<1>1. Boat(simBoat) /\ DOMAIN simBoat = Crew /\ passes \in Nat /\ fouls \subseteq LineSides /\ seen = simBoat.at
  BY DEF SimInv, Hull
<1>2. ASSUME NEW b, Boat(b), Emits(b)
      PROVE  SimInv'
  <2>1. simBoat' = b /\ seen' = b.at
    BY <1>2 DEF Emits
  <2>2. passes' \in Nat
    BY <1>1, <1>2 DEF Emits
  <2>3. fouls' \subseteq LineSides
    BY <1>1, <1>2 DEF Emits
  <2> QED BY <1>2, <2>1, <2>2, <2>3 DEF SimInv
<1>3. ASSUME NEW b, NEW v, b = [simBoat EXCEPT !.dwell = v]
      PROVE  Boat(b) /\ b.at = simBoat.at
  <2>1. DOMAIN b = Crew /\ \A f \in Crew \ {"dwell"} : b[f] = simBoat[f]
    BY <1>1, <1>3
  <2> QED BY <1>1, <2>1, InCrew DEF Hull, Sails, Afloat, Racing
<1> HIDE DEF Boat
<1>4. CASE UNCHANGED simVars
  BY <1>4 DEF simVars, SimInv
<1>5. CASE SimWaits
  BY <1>2, <1>3, <1>5 DEF SimWaits
<1>6. CASE SimReleased
  <2>1. simBoat' = [simBoat EXCEPT !.dwell = 0] /\ UNCHANGED <<seen, passes, fouls>>
    BY <1>6 DEF SimReleased
  <2>2. Boat(simBoat') /\ simBoat'.at = simBoat.at
    BY <1>3, <2>1
  <2> QED BY <1>1, <2>1, <2>2 DEF SimInv, Boat
<1>7. CASE SimMotors
  <2>1. PICK k \in Strides : Emits(Motored(simBoat, k))
    BY <1>7 DEF SimMotors
  <2>2. simBoat.path # <<>>
    BY <1>7 DEF SimMotors
  <2> DEFINE next == IF k >= Max({Sign(North(simBoat.path[1]) - North(simBoat.at)) * (North(simBoat.path[1]) - North(simBoat.at)),
                                  Sign(East(simBoat.path[1]) - East(simBoat.at)) * (East(simBoat.path[1]) - East(simBoat.at))})
                     THEN [simBoat EXCEPT !.at = simBoat.path[1], !.path = Tail(simBoat.path)]
                     ELSE [simBoat EXCEPT !.at = <<simBoat.at[1] + k * Sign(North(simBoat.path[1]) - North(simBoat.at)),
                                                   simBoat.at[2] + k * Sign(East(simBoat.path[1]) - East(simBoat.at))>>]
             n == [next EXCEPT !.done = next.path = <<>>]
  <2>3. Motored(simBoat, k) = n
    BY DEF Motored
  <2>4. DOMAIN next = Crew /\ \A f \in Crew \ {"at", "path"} : next[f] = simBoat[f]
    BY <1>1
  <2> HIDE DEF next
  <2>5. DOMAIN n = Crew /\ n.done = (next.path = <<>>) /\ \A f \in Crew \ {"done"} : n[f] = next[f]
    BY <2>4, InCrew
  <2> HIDE DEF n
  <2>6. Hull(n) /\ ~Sails(n)
    BY <1>1, <2>4, <2>5, InCrew DEF Boat, Hull, Sails
  <2> QED BY <1>2, <2>1, <2>3, <2>6 DEF Boat
<1>8. CASE SimSails
  <2>1. PICK k \in Strides : \E b \in Sailed(simBoat, k) : Emits(b)
    BY <1>8 DEF SimSails
  <2>2. PICK b \in Sailed(simBoat, k) : Emits(b)
    BY <2>1
  <2>3. Sails(simBoat) /\ k \in Nat
    BY <1>8, SimFigures DEF SimSails, Sails
  <2>4. Boat(b)
    BY <1>1, <2>3, SailedIs DEF Boat
  <2> QED BY <1>2, <2>2, <2>4
<1>9. CASE SimAgain
  <2>1. simBoat' \in Launched /\ seen' = simBoat'.at /\ passes' = 0 /\ fouls' = {}
    BY <1>9 DEF SimAgain
  <2> QED BY <2>1, LaunchedIs DEF SimInv
<1> QED BY <1>4, <1>5, <1>6, <1>7, <1>8, <1>9 DEF SimNext

\* A simulated boat (simGps.js) never counts more laps than its race has and coasts no further than
\* it was to, whatever its course, legs and strides: after its last lap it only follows its path to
\* where it parks.
THEOREM SimTypeCorrect == SimSpec => []SimTypeOK
<1>1. SimInit => SimInv
  BY LaunchedIs DEF SimInit, SimInv
<1>2. SimInv => SimTypeOK
  BY DEF SimInv, Hull, SimTypeOK
<1> QED
  BY <1>1, <1>2, SimStep, PTL DEF SimSpec
=============================================================================
