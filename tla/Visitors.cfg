\* Two calls at a time submit and withdraw while a member of staff publishes or
\* rolls back, and a client of the API writes; or two pages show the banner.
CONSTANTS
  Templates = {t1}
  Widgets = {w1}
  Apps = {a1}
  Editors = {e1}
  Routes = {"createVersion", "publish", "rollback"}
  StartsLive = TRUE
  StartContents = {"combined", "separate"}
  MaxCalls = 1
  Visitors = {c1, c2}
  Subjects = {s1}
  Purposes = {p1, p2}
  NoPurpose = NoPurpose
  PurposesOf <- AllPurposes
  VisitRoutes = {"submit", "withdraw", "create", "update"}
  MaxVisits = 3
  Pages = {g1, g2}
  MaxPosts = 2
  MaxLoads = 2
SYMMETRY VisitSymmetry
SPECIFICATION VisitorsSpec
INVARIANTS
  RecordingTypeOK
  StatusIsTruth
  StandingWithinCalls
  AnswersAreKept
  StoredConsentStands
CHECK_DEADLOCK FALSE
