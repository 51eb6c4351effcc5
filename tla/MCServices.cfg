SPECIFICATION Spec
CONSTANTS
  Parts = {"backup", "completions", "admins", "visits", "proposals", "crystal", "pusher", "relief", "timelines", "moods", "vault", "adapters", "errands", "watchers", "feed", "pleas", "chimes", "thumbs", "flaws", "recall", "index", "layers", "windows", "accepts", "lists", "shots", "scrolls", "refutes", "sights", "transfers", "centroids", "drafts"}
  Users = {u1, u2}
  Cron = cron
  Bodies = {"p", "none"}
  Workspaces = {"w1", "w2", "none"}
  Horizon = 2
  Grace = 1
  MaxTime = 3
  MaxAsked = 2
  MaxFaults = 1
  Tasks = {c1}
  Polls = {p1, p2}
  ThePoll = p1
  Forms <- MCForms
  Patches <- MCPatches
  MaxSays = 1
  MaxTrouble = 1
  Counts = {0, 985, 1000}
  Retain = 1
  WarnAt = 1
  LockAt = 20
  MaxDumps = 4
  MaxMishaps = 1
  Items = {1, 2}
  Pollers = {loop, manual}
  TheLoop = loop
  SeenCap = 1
  MaxErrors = 1
  MaxObjs = 2
  MaxFailures = 1
  Requests = {r1, r2}
  Streamed = {r2}
  Texts = {"a", "b"}
  MaxReplies = 2
  MaxFumbles = 0
  People = {h1, h2}
  Edits = {e1}
  Visits = {v1}
  TTL = 1
  MaxNow = 2
  MaxEdits = 2
  MaxGlitches = 1
  Operators = {o1, o2}
  Drafter = drafter
  MaxClicks = 2
  MaxMisses = 1
  Cooldown = 2
  CacheLife = 1
  MaxClock = 3
  MaxCrystals = 2
  MaxSlips = 1
  Flushes = {f1, f2}
  MaxDeltas = 3
  MaxLosses = 2
  Clicks = {k1}
  CoolAlert = 1
  CoolBridging = 1
  CoolSit = 2
  CoolFeed = 1
  Recency = 1
  Surge = 5
  MaxActivity = 10
  MaxPresses = 1
  MaxHitches = 1
  MaxFound = 3
  Radius = 4
  Gap = 2
  MaxPerSide = 1
  MergeGap = 2
  Second = 2
  CollapseSources = {"b"}
  ExcludeSources = {"x"}
  Syntheses = {y1, y2}
  Overflow = 2
  MaxRows = 3
  MaxUpsets = 1
  Notes = {1}
  Sweepers = {s1, s2}
  MaxText = 2
  MaxEvents = 3
  Errands = {n1, n2}
  Commandless = {n2}
  Inboxes = {i1, i2}
  MaxSnags = 1
  MaxAged = 3
  Things = {1}
  Rounds = {t1, t2}
  MaxStarts = 3
  MaxTurns = 2
  Keys = {"k1", "k2"}
  Contents = {"x", "y"}
  Modes = {"skip", "overwrite", "batch", "migrate"}
  MaxLines = 2
  MaxRewrites = 1
  MaxBreaks = 1
  Seeds = {s1}
  Letters = {r1}
  Recalls = {q1}
  MaxHits = 1
  MostCited = 2
  MostRisen = 3
  MostSources = 1
  IndexLife = 1
  MaxCites = 1
  MaxMemories = 6
  MaxMinutes = 1
  MaxStumbles = 1
  Moments <- MCMoments
  Plans <- MCPlans
  Sights <- MCSights
  Stances <- MCStances
  EndorsedFor = 1
  ConcludedFor = 2
  AlertedFor = 0
  SeenFor = 0
  MostScanned = 2
  MostEndorsed = 1
  MostConcluded = 2
  MostRegens = 1
  MostCards = 2
  MostAlerts = 1
  MostVisuals = 1
  MaxScene = 3
  MaxHours = 2
  MaxBlanks = 1
  Jobs = {c1}
  MaxOrders = 2
  MaxJams = 1
  Tabs = {t1, t2}
  Pages = {1, 2}
  Shunned = {2}
  ShotRest = 2
  MaxRecents = 1
  FarEnough = 2
  MaxShots = 2
  MaxMoves = 1
  MaxTicks = 1
  MaxBumps = 1
  Strangers = {w1, w2}
  Names = {"ann", "bob"}
  Hosts = {d1, d2}
  MostListed = 1
  ProposalLife = 1
  TombLife = 2
  MaxIntros = 2
  MaxTombs = 2
  MaxDays = 1
  MaxLapses = 1
  MaxRecalled = 1
  MaxGaps = 1
  MaxBoots = 1
  Pleas = {q1, q2}
  Formal = {q3}
  Clerks = {k1, k2}
  Lookback = 2
  EraLimit = 1
  MaxMoments = 3
  MaxMisfires = 1
  Checks = {j1, j2}
  Threshold = 2
  MostRead = 2
  MaxSignals = 3
  MaxFlaws = 1
  Happenings = {"m"}
  Episodes = {"e", "f"}
  Groupings <- MCGroupings
  MostSeen = 2
  MaxSnarls = 1
  Tables <- MCTables
  Lakes <- MCLakes
  Roots <- MCRoots
  MaxDepth = 2
  LeafCap = 3
  BatchCap = 3
  MaxGone = 1
  MaxDrops = 1
INVARIANT ServicesTypeOK LastGoodIsKept NoGreatLossUnacknowledged AnswersFindTheirAsker AnAdminRemainsUnstrained
  CachedRolesWereTrue ApprovedIsDone DoneOnce PromptedOnce DrivesAreSpaced NothingTwice StripsAreTrue ShiftsAreHeard
  NotesAreTold FeedIsTrue AlertsAreTrue ThumbsAreHeard RecallIsTrue
CHECK_DEADLOCK FALSE
