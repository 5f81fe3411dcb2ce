\* The components around the core, one at a time.
CONSTANTS
  Callers = {c1, c2}
  Roles = {role1}
  MaxSessions = 3
  MaxAttempts = 1
  StartSessions = 3
  MaxCalls = 3
  MaxCrashes = 1
  Calls = {k1, k2}
  Rows = {u1, u2}
  MaxStops = 1
  Staff = {s1, s2}
  MaxEvents = 5
  MaxOutages = 1
  Cases = {q1, q2}
  Grievances = {g1}
  Syncs = {b1, b2}
  MaxChanges = 3
  MaxRows = 7
  MaxSyncs = 4
  Runs = {w1, w2}
  MaxTroubles = 2
  Addresses = {visitor, guardian}
  Guardian = guardian
  Fetches = {f1, f2}
  None = None
  MaxWrong = 1
  MaxFetches = 3
  Clerks = {h1, h2}
  OtherModules = {}
  Flags = {"view", "edit"}
  MaxRequests = 3
  MaxBreaks = 1
  Authors = {a1, a2}
  Texts = {t1, t2}
  Linguists = {n1, n2}
  Languages = {l1, l2, l3}
  MaxEdits = 3
  MaxAborts = 1
  MaxVisits = 1
  MaxSettings = 5
SPECIFICATION ServicesSpec
INVARIANTS
  ServicesTypeOK
  SessionsBounded
  ResetEndsSessions
  RecordedIsVerified
  LogsHold
  FiguresHold
  LookupsHold
  RecordsHold
  ReportsHold
  NoticesHold
  AccessHolds
PROPERTIES
  EndedForGood
CHECK_DEADLOCK FALSE
