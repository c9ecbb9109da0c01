------------------------------- MODULE RoverLink -------------------------------
(***************************************************************************)
(* What a boat does beside its reports (src/src/boatAgent.js): it says     *)
(* hello to the base until its first fix is out and whenever its diagnosis *)
(* changes (roverDiag.js), hears the course, answers pings, hands          *)
(* corrections to its GPS receiver, may stand in for a mark, and puts the  *)
(* receiver to sleep and wakes it together with its radio (gpsSleep.js).   *)
(*                                                                         *)
(* The receiver is external. Its sleep command takes effect a little after *)
(* it is sent, and a byte written before that does not wake it. The code   *)
(* repeats the wake byte after a time that is longer than this.            *)
(***************************************************************************)
EXTENDS Integers, FiniteSets

CONSTANTS
  Buoys,      \* the marks a boat may stand in for
  Forward,    \* BOOLEAN: RTCM_FORWARD
  WakeTries   \* WAKE_MAX_RETRIES

LinkAssumption == WakeTries \in Nat /\ Forward \in BOOLEAN
ASSUME LinkAssumption

VARIABLES
  radioUp,     \* radioConnected
  napping,     \* sleeper.isSleeping()
  hello,       \* the hello's timers: "none", "delay" or "running"
  told,        \* lastHelloKey: the problems last told, or {Never}
  hasReported,    \* a fix went out: lastTxTime is set
  hasFix,      \* lastPvt is a valid fix
  gpsStage,       \* what arrives from the receiver of late: "nothing", "other" or "pvt"
  hearsBase,   \* the base's frames and corrections arrive
  port,        \* the receiver's port: "open", "closed"; it is opened again in the end
  gpsBody,    \* the receiver itself: "on", "entering" its backup mode, "backup"
  gpsDown,     \* GpsSleep._asleep
  waking,      \* the wake measured: "no", "first" awaits a fix, "rtk" awaits RTK
  retryOn,     \* the wake's timer is armed
  tries,       \* _retries
  announceFix,    \* announceNextFix
  answer,      \* the answer that waits for its random delay: "none", "ping" or "wake"
  standsFor,   \* currentMarkName, or NoBuoy
  markSent,    \* lastMarkSetPosition is set
  fooled       \* history: a fix ended the repeats while the receiver was still going down

bodyVars  == <<hasFix, gpsStage, hearsBase>>
gpsVars   == <<port, gpsBody, gpsDown, waking, retryOn, tries, fooled>>
helloVars == <<hello, told, hasReported>>
markVars  == <<standsFor, markSent>>
linkVars  == <<radioUp, napping, announceFix, answer, helloVars, bodyVars, gpsVars, markVars>>

NoBuoy   == "no mark"
NeverTold    == "never told"

LinkInit ==
  /\ radioUp = FALSE /\ napping = FALSE
  /\ hello = "none" /\ told = {NeverTold} /\ hasReported = FALSE
  /\ hasFix = FALSE /\ gpsStage = "nothing" /\ hearsBase = FALSE
  /\ port = "closed" /\ gpsBody \in {"on", "backup"}
  /\ gpsDown = FALSE /\ waking = "no" /\ retryOn = FALSE /\ tries = 0 /\ fooled = FALSE
  /\ announceFix = FALSE /\ answer = "none"
  /\ standsFor = NoBuoy /\ markSent = FALSE

\* Any byte on its input wakes a receiver that is in its backup mode.
Woken == IF port = "open" /\ gpsBody = "backup" THEN "on" ELSE gpsBody

-----------------------------------------------------------------------------
(* Radio, hello and diagnosis.                                              *)

\* computeFlags: of the receiver's line only the first stage that fails.
Problems ==
  (CASE gpsDown           -> {}
     [] port = "closed"   -> {"GPS_PORT_CLOSED"}
     [] gpsStage = "nothing" -> {"GPS_NO_DATA"}
     [] gpsStage = "other"   -> {"GPS_NO_PVT"}  \* or GPS_NO_UBX
     [] OTHER             -> {})
  \cup (IF hearsBase THEN {} ELSE {"NO_BASE_RX"})  \* or NO_BURSTS

\* A reconnect starts the hello over.
RadioConnects ==
  /\ ~radioUp
  /\ radioUp' = TRUE
  /\ hello' = "delay"
  /\ UNCHANGED <<napping, announceFix, answer, told, hasReported, bodyVars, gpsVars, markVars>>

RadioDrops ==
  /\ radioUp
  /\ radioUp' = FALSE
  /\ UNCHANGED <<napping, announceFix, answer, helloVars, bodyVars, gpsVars, markVars>>

\* sendHello: nothing is sent in sleep mode; what was not sent is tried again.
SayHello(force) ==
  IF /\ ~napping /\ radioUp
     /\ force \/ ~hasReported \/ told # Problems \/ Problems # {}
  THEN told' = Problems
  ELSE UNCHANGED told

HelloStarts ==
  /\ hello = "delay"
  /\ hello' = "running"
  /\ SayHello(TRUE)
  /\ UNCHANGED <<radioUp, napping, announceFix, answer, hasReported, bodyVars, gpsVars, markVars>>

HelloTick ==
  /\ hello = "running"
  /\ SayHello(FALSE)
  /\ UNCHANGED <<radioUp, napping, announceFix, answer, hello, hasReported, bodyVars, gpsVars, markVars>>

\* What comes from the receiver and the base starts or stops coming. A receiver in its backup
\* mode sends nothing.
LineChanges(s) ==
  /\ s # gpsStage /\ port = "open" /\ (gpsBody = "backup" => s = "nothing")
  /\ gpsStage' = s
  /\ UNCHANGED <<radioUp, napping, announceFix, answer, hasFix, hearsBase, helloVars, gpsVars, markVars>>
BaseFallsSilent ==
  /\ hearsBase /\ hearsBase' = FALSE
  /\ UNCHANGED <<radioUp, napping, announceFix, answer, hasFix, gpsStage, helloVars, gpsVars, markVars>>

\* A correction is handed on only while the receiver is awake by what the boat believes.
HearRtcm ==
  /\ radioUp /\ ~napping
  /\ hearsBase' = TRUE
  /\ gpsBody' = IF Forward /\ ~gpsDown THEN Woken ELSE gpsBody
  /\ fooled' = (fooled /\ gpsBody' # "on")
  /\ UNCHANGED <<radioUp, napping, announceFix, answer, hasFix, gpsStage, helloVars, port, gpsDown,
                 waking, retryOn, tries, markVars>>

\* The course is kept, and written to disk; that it came shows that the base is heard.
HearMarks ==
  /\ radioUp /\ ~napping
  /\ hearsBase' = TRUE
  /\ UNCHANGED <<radioUp, napping, announceFix, answer, hasFix, gpsStage, helloVars, gpsVars, markVars>>

HearPing ==
  /\ radioUp /\ ~napping
  /\ hearsBase' = TRUE
  /\ IF hasFix THEN answer = "none" /\ answer' = "ping" ELSE UNCHANGED answer
  /\ UNCHANGED <<radioUp, napping, announceFix, hasFix, gpsStage, helloVars, gpsVars, markVars>>

\* transmitFix, for a boat that may send: the pacing is in BoatReports.
HasTransmitted == hasReported \/ (radioUp /\ ~napping)

\* The answer comes after a random delay; a boat may be asleep again by then. One answer at a
\* time is a bound of the model.
Answer ==
  /\ answer # "none"
  /\ answer' = "none"
  /\ IF answer = "ping" THEN hasReported' = HasTransmitted /\ UNCHANGED told
                        ELSE SayHello(TRUE) /\ UNCHANGED hasReported
  /\ UNCHANGED <<radioUp, napping, announceFix, hello, bodyVars, gpsVars, markVars>>

-----------------------------------------------------------------------------
(* The receiver, asleep and awake.                                          *)

\* sleeper's 'sleep': what waited to be sent is dropped and the receiver sent to sleep.
RoverNaps ==
  /\ ~napping
  /\ napping' = TRUE
  /\ announceFix' = FALSE
  /\ gpsDown' = TRUE /\ waking' = "no" /\ retryOn' = FALSE /\ fooled' = FALSE
  /\ gpsBody' = IF port = "open" /\ gpsBody = "on" THEN "entering" ELSE gpsBody
  /\ UNCHANGED <<radioUp, answer, helloVars, bodyVars, port, tries, markVars>>

\* sleeper's 'wake', heard in a listen window or asked for on the boat.
RoverWakes ==
  /\ napping
  /\ napping' = FALSE
  /\ gpsDown' = FALSE /\ waking' = "first" /\ retryOn' = TRUE /\ tries' = 0
  /\ gpsBody' = Woken
  /\ announceFix' = TRUE
  /\ answer = "none" /\ answer' = "wake"
  /\ UNCHANGED <<radioUp, helloVars, bodyVars, port, fooled, markVars>>

\* The wake's timer. It is longer than the receiver takes to go down.
WakeAgain ==
  /\ retryOn /\ gpsBody # "entering"
  /\ IF waking = "first" /\ tries < WakeTries
     THEN tries' = tries + 1 /\ gpsBody' = Woken /\ UNCHANGED retryOn
     ELSE retryOn' = FALSE /\ UNCHANGED <<tries, gpsBody>>
  /\ UNCHANGED <<radioUp, napping, announceFix, answer, helloVars, bodyVars, port, gpsDown, waking,
                 fooled, markVars>>

GoesDown ==
  /\ gpsBody = "entering"
  /\ gpsBody' = "backup"
  /\ gpsStage' = "nothing"
  /\ UNCHANGED <<radioUp, napping, announceFix, answer, helloVars, hasFix, hearsBase,
                 port, gpsDown, waking, retryOn, tries, fooled, markVars>>

\* Mutant of PortOpens: the receiver is not woken when its port opens.
PortOpensQuietly ==
  /\ port = "closed"
  /\ port' = "open"
  /\ UNCHANGED <<radioUp, napping, announceFix, answer, helloVars, bodyVars, gpsBody, gpsDown, waking,
                 retryOn, tries, fooled, markVars>>

\* openGps: the wake byte goes out whenever the port opens, as the boat may have been restarted
\* while its receiver slept. This also wakes one that is meant to sleep.
PortOpens ==
  /\ port = "closed"
  /\ port' = "open"
  /\ gpsBody' = IF gpsBody = "backup" THEN "on" ELSE gpsBody
  /\ fooled' = (fooled /\ gpsBody' # "on")
  /\ UNCHANGED <<radioUp, napping, announceFix, answer, helloVars, bodyVars, gpsDown, waking,
                 retryOn, tries, markVars>>

PortCloses ==
  /\ port = "open"
  /\ port' = "closed" /\ gpsStage' = "nothing"
  /\ UNCHANGED <<radioUp, napping, announceFix, answer, helloVars, hasFix, hearsBase,
                 gpsBody, gpsDown, waking, retryOn, tries, fooled, markVars>>

\* pollGpsSignals, for the boat's own page.
PollSignals ==
  /\ port = "open" /\ ~gpsDown
  /\ gpsBody' = Woken
  /\ fooled' = (fooled /\ gpsBody' # "on")
  /\ UNCHANGED <<radioUp, napping, announceFix, answer, helloVars, bodyVars, port, gpsDown, waking,
                 retryOn, tries, markVars>>

\* shouldDrop, then the first fix after a wake goes out at once. A boat that stands in for a
\* mark also sends that; a send that fails leaves the mark to the next fix.
GpsFix(valid, rtk) ==
  /\ port = "open" /\ gpsBody # "backup" /\ gpsStage = "pvt"
  /\ rtk => valid  \* the receiver reports no carrier solution without a fix
  /\ IF gpsDown
     THEN UNCHANGED <<hasFix, waking, retryOn, fooled, announceFix, hasReported, markSent>>
     ELSE
       LET first == valid /\ waking = "first" IN
       /\ hasFix' = valid
       /\ retryOn' = (retryOn /\ ~first)
       /\ waking' = IF waking # "no" /\ rtk THEN "no" ELSE IF first THEN "rtk" ELSE waking
       /\ fooled' = (fooled \/ (first /\ gpsBody = "entering"))
       /\ announceFix' = (announceFix /\ (~valid \/ napping))
       /\ hasReported' = IF announceFix /\ valid THEN HasTransmitted ELSE hasReported
       /\ markSent' = (markSent \/ (valid /\ standsFor # NoBuoy /\ radioUp /\ ~napping))
  /\ UNCHANGED <<radioUp, napping, answer, hello, told, gpsStage, hearsBase,
                 port, gpsBody, gpsDown, tries, standsFor>>

\* setMarkName: the new mark's place is sent by the next fix.
SetMarkName(b) ==
  /\ standsFor' = b /\ markSent' = FALSE
  /\ b # standsFor \/ markSent
  /\ UNCHANGED <<radioUp, napping, announceFix, answer, helloVars, bodyVars, gpsVars>>

\* The boat's program starts again. That takes longer than its receiver takes to go down.
RoverRestarts ==
  /\ radioUp' = FALSE /\ napping' = FALSE
  /\ hello' = "none" /\ told' = {NeverTold} /\ hasReported' = FALSE
  /\ hasFix' = FALSE /\ gpsStage' = "nothing" /\ hearsBase' = FALSE
  /\ port' = "closed"
  /\ gpsBody' = IF gpsBody = "entering" THEN "backup" ELSE gpsBody
  /\ gpsDown' = FALSE /\ waking' = "no" /\ retryOn' = FALSE /\ tries' = 0 /\ fooled' = FALSE
  /\ announceFix' = FALSE /\ answer' = "none"
  /\ markSent' = FALSE
  /\ UNCHANGED standsFor

LinkNext ==
  \/ RadioConnects \/ RadioDrops \/ HelloStarts \/ HelloTick
  \/ \E s \in {"nothing", "other", "pvt"} : LineChanges(s)
  \/ BaseFallsSilent \/ HearRtcm \/ HearPing \/ Answer
  \/ HearMarks
  \/ RoverNaps \/ RoverWakes \/ WakeAgain \/ GoesDown
  \/ PortOpens \/ PortCloses \/ PollSignals
  \/ \E valid, rtk \in BOOLEAN : GpsFix(valid, rtk)
  \/ \E b \in Buoys \cup {NoBuoy} : SetMarkName(b)
  \/ RoverRestarts

LinkSpec == LinkInit /\ [][LinkNext]_linkVars

-----------------------------------------------------------------------------
LinkTypeOK ==
  /\ {radioUp, napping, hasReported, hasFix, hearsBase, gpsDown, retryOn, announceFix, markSent,
      fooled} \subseteq BOOLEAN
  /\ hello \in {"none", "delay", "running"}
  /\ answer \in {"none", "ping", "wake"}
  /\ gpsStage \in {"nothing", "other", "pvt"}
  /\ port \in {"open", "closed"} /\ gpsBody \in {"on", "entering", "backup"}
  /\ waking \in {"no", "first", "rtk"} /\ tries \in 0 .. WakeTries
  /\ standsFor \in Buoys \cup {NoBuoy}

\* A receiver that sleeps although its boat believes it awake is going to be woken: by a repeat
\* of the wake byte, or when its port opens, whatever bytes were lost while the receiver was
\* going down or its port was closed, and across restarts of the boat. The one exception is a
\* fix that the receiver sent on its way down and that the boat took for the first of the wake.
WakeIsRetried ==
  gpsBody # "on" /\ ~gpsDown => retryOn \/ port = "closed" \/ fooled

=============================================================================
