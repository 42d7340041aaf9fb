SPECIFICATION SpecAll
CONSTANTS
  a = a
  p1 = p1
  p2 = p2
  Processes = {p1, p2}
  Tasks = {p1, p2}
  Ids = {a}
  Origins = {"User", "Provider"}
  MaxAge = 1
  MaxClock = 4
  Artifacts = {"a", "b"}
  Window = 0
  Day = 1
  Delay = 1
  MaxNodes = 3
  MaxSeconds = 3
  MaxMarks = 2
  Modes = {"Correct"}
  Recent = 1
  MaxEvents = 3
  Probed <- ProbedActions
  RuleFiles <- TwoFiles
  MaxSeverity = 100
  DecoyPaths = {"a", "b"}
  Senders = {"x", "y", "z"}
  SendAge = 0
  SendSeconds = 3
  Writer = "w"
  Hosts = {"h", "i"}
  MaxRuns = 3
  Monitors = {"monitor"}
  Commands = {"deep-scan"}
  Battery <- TwoProbes
  Latencies = {100, 700}
  Provider <- Claude
  Drop = 20
  Spike = 500
  MaxLines = 2
  Indicators = {"i", "j", "k"}
INVARIANTS
  TypesOK UntrustedNeverSilent BaselineFromWindow GrantsFollowLog DecisionsReplay
  SuppressionKept DecoysTrip OnlyCheckAgainstUnplant SharedSendAlerts
  VerifiedListIsOneRun OnlySignedInstalled ChangesAlerted NewToldOnce
PROPERTIES
  EscalationNeverRelaxes WorseNeverMilder HitsNeverFade TaintOnlyExpires
  EntriesLastUnlessOverwritten
SYMMETRY Symmetry
CHECK_DEADLOCK FALSE
