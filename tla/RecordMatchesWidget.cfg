\* Two widgets of one application, each with a template of its own.
CONSTANTS
  Templates = {t1, t2}
  Widgets = {w1, w2}
  Apps = {a1}
  Editors = {e1}
  Routes = {}
  StartsLive = TRUE
  StartContents = {"combined"}
  MaxCalls = 0
  Visitors = {c1}
  Subjects = {s1}
  Purposes = {p1}
  NoPurpose = NoPurpose
  PurposesOf <- AllPurposes
  VisitRoutes = {"submit"}
  MaxVisits = 2
SPECIFICATION RecordingSpec
INVARIANTS
  RecordMatchesWidget
CHECK_DEADLOCK FALSE
