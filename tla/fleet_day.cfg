SPECIFICATION Spec
CONSTANTS
  Cycle = 10
  After = 2
  Before = 2
  Width = 3
  Guard = 1
  Need = 1
  Slots = {0, 2}
  FirstSlot = 0
  Slack = 2
  KeepGaps = 2
  MaxGap = 2
  QueueLimit = 2
  MaxAge = 8
  Poll = 5
  SubmitAt = {4}
  MaxLate = 1
  MaxFix = 3
  Heartbeat = 2
  BatchSize = 2
  PerFrame = 2
  Rate = 1
  FrameLimit = 1
  BoostFor = 1
  BackfillAge = 2
  ParkedEvery = 2
  Backoff <- Steps
  Courses <- TheCourses
  Waters <- TheWaters
  ZoneDepth = 3
  EdgeMargin = 1
  RoundRadius = 3
  SweepMin = 2
  Debounce = 2
  GraceTime = 2
  Resend = 2
  Tolerance = 4
  SilentGap = 1
  MaxLag = 1
  MaxPending = 1
  Old = 3
  Regattas = {r1, r2}
  Published = {r1}
  MarkPlaces = {1, 2}
  DefaultAt = 1
  MaxJobs = 2
  MaxChecks = 2
  MaxActs = 2
  Day = 5
  CutTimes = {2}
  IdleFor = 1
  SunRuns = 1
  MaxChanges = 2
  Chunks = 2
  MaxLines = 2
  Buckets = {A, B}
  MaxConns = 2
  MaxTrouble = 2
  TrackRegattas = {ra, rb}
  TrackFixes <- TheTrack
  MinMovement = 1
  TrackKeeps = 1
  TrackCap = 1
  MaxQueue = 2
  MaxFlights = 2
  MaxHeld = 2
  Buoys = {m1}
  Forward = TRUE
  WakeTries = 1
  Radix = 4
  FrameTypes <- TheTypes
  MaxHeard = 7
  MaxChunk = 2
  MaxDeltas = 4
  DeltaFixes <- TheFixes
  MaxDeltaHeld = 5
  Pin <- ThePin
  StartEnd <- TheStartEnd
  FinishEnd <- TheFinishEnd
  Flag <- TheFlag
  Top = 11
  StartSpots <- TheGrid
  GateAim <- TheAim
  Legs = {2, 3, 4}
  Strides = {1, 2, 3, 4}
  CloseBy = 3
  SimMargin = 1
  Coast = 2
  LapCount = 2
  FleetBoats = {s1, s2}
  QueueMost = 1
  FrameMost = 1
  GapMs = 1
  FrameValues <- TheFrames
  Flips = {0, 1, 2, 3, 9, 200}
  HealthBoats = {b1}
  CycleTime = 2
  GapTime = 1
  MaxGapTime = 4
  WindowTime = 2
  SeenTime = 4
  SilentWarn = 2
  SilentBad = 3
  QuietAfter = 3
  FinishSlack = 1
  FinishQuiet = 5
  MinRtk = 2
  GapsBad = 1
  Speeds = {0, 2}
  Sites <- TheSites
  Typed <- TheSites
  Clocks = {TRUE}
  RefreshDelay = 1
  PollEvery = 2
  ReopenDelay = 1
  CommandsMost = 1
  SwallowMost = 1
INVARIANTS TypeOK NothingStuck GateHonest NoFalseLap CourseHeals MarkedIsStored GateIsWritten
  WakeIsRetried FramesGetThrough FramesReadAsSent SeenAsSailed NoneLeftBehind NoFalseAlarm ModeIsShown
PROPERTIES InOwnSlot OnGridTold EditKept SchedulesKept
