----------------------------- MODULE Dashboards -----------------------------
(***************************************************************************)
(* What the dashboards and lists tell of tables that change while they are *)
(* being read: every answer is put together from several queries, most of  *)
(* them sent at once, none of them in a transaction.  Readers do not       *)
(* disturb each other, so one is followed at a time; only the backfill of  *)
(* usage rows writes, and there several run at once.                       *)
(***************************************************************************)
EXTENDS Integers, FiniteSets

CONSTANTS
  Cases,        \* rights requests
  Grievances,   \* grievances
  Syncs,        \* backfills in flight at a time
  MaxChanges,   \* bound: changes of the tables while a reader is at work
  MaxRows,      \* bound: rows of a listed table
  MaxSyncs      \* bound: backfills

ASSUME DashboardsAssumption ==
  /\ IsFiniteSet(Cases) /\ IsFiniteSet(Grievances) /\ IsFiniteSet(Syncs)
  /\ {MaxChanges, MaxRows, MaxSyncs} \subseteq Nat

VARIABLES
  caseIs,      \* caseIs[k]: what the counts tell apart of a request
  grievanceIs, \* grievanceIs[g]
  report,      \* the metrics or figures being gathered
  listing,     \* the list being read, page by page
  rows,        \* rows of the listed table, numbered as they were made
  answers,     \* rows of CookieConsentLog: acceptances, and others
  changes,     \* changes of the tables so far
  consent,     \* a consent record and its rows in the usage table
  sync,        \* sync[s]: how far the backfill s is
  syncs        \* backfills so far

reportVars == <<caseIs, grievanceIs, answers, report>>
listVars == <<listing, rows>>
usageVars == <<consent, sync, syncs>>
dashboardVars == <<reportVars, listVars, changes, usageVars>>

CaseStates == {"none", "open", "overdue", "COMPLETED", "REJECTED"}
GrievanceStates == {"none", "open", "RESOLVED"}

Queries == {"total", "byStatus", "breached", "ofPriority", "late", "pending", "open",
            "totalGrievances", "logs", "accepted"}
NoReport == [kind |-> "none"]
Report ==
  {NoReport} \cup
  [kind : {"metrics", "kpis", "cookies"}, left : SUBSET Queries, got : [Queries -> Nat], since : Nat]
  \cup [kind : {"trends"}, month : 0 .. 11, day : 1 .. 31]
  \cup [kind : {"analytics"}, month : 0 .. 11]
  \cup [kind : {"weeks"}, age : 0 .. 28]

NoListing == [page |-> 0]
Listing == {NoListing} \cup
  [page : Nat, take : Nat \ {0}, total : Nat, counted : BOOLEAN, listed : BOOLEAN,
   seen : SUBSET Nat, first : Nat, over : BOOLEAN]

DashboardsTypeOK ==
  /\ caseIs \in [Cases -> CaseStates]
  /\ grievanceIs \in [Grievances -> GrievanceStates]
  /\ report \in Report
  /\ listing \in Listing
  /\ rows \in 0 .. MaxRows
  /\ answers \in [accepted : Nat, other : Nat]
  /\ changes \in 0 .. MaxChanges
  /\ consent \in [status : {"none", "GRANTED", "REVOKED"}, by : {"widget", "client"},
                  own : {"due", "written", "lost"}, backfilled : Nat]
  /\ sync \in [Syncs -> {"idle", "listed", "missing"}]
  /\ syncs \in 0 .. MaxSyncs

DashboardsInit ==
  /\ caseIs = [k \in Cases |-> "none"]
  /\ grievanceIs = [g \in Grievances |-> "none"]
  /\ report = NoReport
  /\ listing = NoListing
  /\ rows = 0
  /\ answers = [accepted |-> 0, other |-> 0]
  /\ changes = 0
  /\ consent \in [status : {"none"}, by : {"widget", "client"}, own : {"due"}, backfilled : {0}]
  /\ sync = [s \in Syncs |-> "idle"]
  /\ syncs = 0

------------------------------------------------------------------------------
(* Other calls, while a reader is at work.                                 *)

CasesIn(states) == Cardinality({k \in Cases : caseIs[k] \in states})
GrievancesIn(states) == Cardinality({g \in Grievances : grievanceIs[g] \in states})

\* A request is made, its due date passes or is put off, it is closed, or a clerk who
\* races with the one who closed it takes it up again; none is deleted.
CaseChanges(k) ==
  /\ \E to \in CaseStates :
       /\ <<caseIs[k], to>> \in
            {<<"none", "open">>, <<"open", "overdue">>, <<"overdue", "open">>}
            \cup {"open", "overdue"} \X {"COMPLETED", "REJECTED"}
            \cup {"COMPLETED", "REJECTED"} \X {"open"}
       /\ caseIs' = [caseIs EXCEPT ![k] = to]
  /\ UNCHANGED <<grievanceIs, answers, report>>

\* A grievance is filed, resolved, or taken up again: its status is set freely.
GrievanceChanges(g) ==
  /\ \E to \in {"open", "RESOLVED"} :
       /\ grievanceIs[g] # to
       /\ grievanceIs[g] = "none" => to = "open"
       /\ grievanceIs' = [grievanceIs EXCEPT ![g] = to]
  /\ UNCHANGED <<caseIs, answers, report>>

\* A visitor answers a cookie banner.
AnswerLogged ==
  /\ \E kind \in {"accepted", "other"} : answers' = [answers EXCEPT ![kind] = @ + 1]
  /\ UNCHANGED <<caseIs, grievanceIs, report>>

\* Changes of the tables the reader reads.
ReportedTablesChange ==
  /\ changes < MaxChanges
  /\ changes' = changes + 1
  /\ \/ report.kind \in {"metrics", "kpis"} /\ \E k \in Cases : CaseChanges(k)
     \/ report.kind = "kpis" /\ \E g \in Grievances : GrievanceChanges(g)
     \/ report.kind = "cookies" /\ AnswerLogged
  /\ UNCHANGED <<listVars, usageVars>>

------------------------------------------------------------------------------
(* Figures.                                                                *)

NobodyReads == report = NoReport /\ listing = NoListing /\ consent.status = "none"

Gathers(kind, queries) ==
  /\ NobodyReads
  /\ report' = [kind |-> kind, left |-> queries, got |-> [q \in Queries |-> 0], since |-> changes]
  /\ UNCHANGED <<listVars, changes, usageVars>>

\* The tables hold anything when the reader comes: RightsRequestsService.getMetrics ...
StartMetrics ==
  /\ Gathers("metrics", {"total", "byStatus", "breached", "ofPriority", "late"})
  /\ caseIs' \in [Cases -> {"none", "open", "overdue"}]
  /\ UNCHANGED <<grievanceIs, answers>>

\* ... DashboardService.getKpis ...
StartKpis ==
  /\ Gathers("kpis", {"pending", "breached", "open", "total", "totalGrievances"})
  /\ caseIs' \in [Cases -> {"none", "open", "overdue"}]
  /\ grievanceIs' \in [Grievances -> GrievanceStates]
  /\ UNCHANGED answers

\* ... or CookiesManagementService.getComplianceMetrics.
StartCookieMetrics ==
  /\ Gathers("cookies", {"logs", "accepted"})
  /\ answers' \in [accepted : 0 .. MaxRows, other : 0 .. MaxRows]
  /\ UNCHANGED <<caseIs, grievanceIs>>

\* Mutant: all is counted at once.
AtOnce(kind, q) == {}

\* The queries a query waits for.  getMetrics sends its counts at once, and then, of
\* each priority, counts the requests and those of them that are late; getKpis
\* counts the totals when it has the rest; getComplianceMetrics counts all answers
\* before it counts the acceptances.
WaitsFor(kind, q) ==
  CASE q = "accepted"                     -> {"logs"}
    [] q = "ofPriority"                   -> {"total", "byStatus", "breached"}
    [] q = "late"                         -> {"total", "byStatus", "breached", "ofPriority"}
    [] kind = "kpis" /\ q = "total"       -> {"pending", "breached", "open"}
    [] q = "totalGrievances"              -> {"pending", "breached", "open", "total"}
    [] OTHER                              -> {}

Overdue == CasesIn({"overdue"})
Closed == CasesIn({"COMPLETED", "REJECTED"})
AllCases == Cardinality(Cases) - CasesIn({"none"})
Pending == AllCases - Closed

Value(q) ==
  CASE q = "total"    -> AllCases
    [] q = "byStatus" -> Closed
    [] q = "breached" -> Overdue
    [] q = "ofPriority" -> AllCases   \* all of one priority; that it may be changed is left out
    [] q = "late"     -> Overdue
    [] q = "pending"  -> Pending
    [] q = "open"     -> GrievancesIn({"open"})
    [] q = "totalGrievances" -> Cardinality(Grievances) - GrievancesIn({"none"})
    [] q = "logs"     -> answers.accepted + answers.other
    [] q = "accepted" -> answers.accepted

\* One of the queries that are on their way is answered.
AnswerQuery ==
  /\ report.kind \in {"metrics", "kpis", "cookies"}
  /\ \E q \in report.left :
       /\ WaitsFor(report.kind, q) \cap report.left = {}
       /\ report' = [report EXCEPT !.left = @ \ {q}, !.got[q] = Value(q)]
  /\ UNCHANGED <<caseIs, grievanceIs, answers, listVars, changes, usageVars>>

\* What getMetrics calls pending.
PendingOf(got) == got["total"] - got["byStatus"]

\* getKpis scores each part by the share that is in order, from 0 to 100.
Share(bad, all) == IF all = 0 THEN 100 ELSE ((all - bad) * 100) \div all

------------------------------------------------------------------------------
(* Trends.                                                                 *)

\* The days of each month, January first.
DaysIn(m) == IF m = 1 THEN 28 ELSE IF m \in {3, 5, 8, 10} THEN 30 ELSE 31

\* setMonth keeps the day: where the month is too short it runs into the next.
MonthBefore(month, day, i) ==
  LET m == (month - i) % 12 IN IF day =< DaysIn(m) THEN m ELSE (m + 1) % 12

StartTrends(month, day) ==
  /\ NobodyReads
  /\ day =< DaysIn(month)
  /\ report' = [kind |-> "trends", month |-> month, day |-> day]
  /\ UNCHANGED <<caseIs, grievanceIs, answers, listVars, changes, usageVars>>

MonthsBack == 0 .. 5
MonthsShown(month, day) == {MonthBefore(month, day, i) : i \in MonthsBack}

\* getAnalytics counts the months of a year from their first days.
StartAnalytics(month) ==
  /\ NobodyReads
  /\ report' = [kind |-> "analytics", month |-> month]
  /\ UNCHANGED <<caseIs, grievanceIs, answers, listVars, changes, usageVars>>

MonthsAnalysed(month) == {(month - 11 + i) % 12 : i \in 0 .. 11}

\* The four weeks of getMetrics, both ends included, for a request so many days old.
WeeksOf(age) == {i \in 0 .. 3 : age >= 7 * i /\ age =< 7 * (i + 1)}

StartWeeks(age) ==
  /\ NobodyReads
  /\ report' = [kind |-> "weeks", age |-> age]
  /\ UNCHANGED <<caseIs, grievanceIs, answers, listVars, changes, usageVars>>

------------------------------------------------------------------------------
(* Lists.                                                                  *)

\* A client that reads a list by pages of so many rows, newest first, until it has
\* as many pages as the last answer says there are.
Lists(take) ==
  /\ NobodyReads
  /\ \E n \in 1 .. MaxRows - MaxChanges :
       /\ rows' = n
       /\ listing' = [page |-> 1, take |-> take, total |-> 0, counted |-> FALSE,
                      listed |-> FALSE, seen |-> {}, first |-> n, over |-> FALSE]
  /\ UNCHANGED <<reportVars, changes, usageVars>>

\* The services that list in this way, each with its page; the default of the
\* audit log is the smallest.
ListRights == Lists(2)
ListAuditLogs == Lists(1)
ListSystemLogs == Lists(2)
ListUsage == Lists(3)
ListConsentRecords == Lists(2)
ListGrievances == Lists(2)
ListUsers == Lists(2)
ListAcknowledgements == Lists(2)

Reading == listing.page > 0 /\ ~listing.over

\* Other calls make rows; none of these tables loses any.
ListedTableGrows ==
  /\ Reading
  /\ changes < MaxChanges
  /\ changes' = changes + 1
  /\ rows' = rows + 1
  /\ UNCHANGED <<listing, reportVars, usageVars>>

\* count and findMany are sent at once.
CountRows ==
  /\ Reading /\ ~listing.counted
  /\ listing' = [listing EXCEPT !.counted = TRUE, !.total = rows]
  /\ UNCHANGED <<rows, reportVars, changes, usageVars>>

Skipped(page, take) == (page - 1) * take

ReadRows ==
  LET skip == Skipped(listing.page, listing.take) IN
  /\ Reading /\ ~listing.listed
  /\ listing' = [listing EXCEPT !.listed = TRUE,
       !.seen = @ \cup {n \in 1 .. rows : rows - n >= skip /\ rows - n < skip + listing.take}]
  /\ UNCHANGED <<rows, reportVars, changes, usageVars>>

\* paginate says how many pages there are; the client asks for the next one.
TurnPage ==
  /\ Reading /\ listing.counted /\ listing.listed
  /\ listing' = IF listing.page * listing.take >= listing.total
                THEN [listing EXCEPT !.over = TRUE]
                ELSE [listing EXCEPT !.page = @ + 1, !.counted = FALSE, !.listed = FALSE]
  /\ UNCHANGED <<rows, reportVars, changes, usageVars>>

------------------------------------------------------------------------------
(* The usage table, and syncUsageFromConsentRecords.                       *)

\* A consent is recorded, by a widget or a client of the API ...
RecordConsent ==
  /\ NobodyReads
  /\ consent' = [consent EXCEPT !.status = "GRANTED"]
  /\ UNCHANGED <<reportVars, listVars, changes, sync, syncs>>

\* ... and its usage row after it: a failure is logged and that is all.
WriteUsage ==
  /\ consent.status # "none"
  /\ consent.own = "due"
  /\ \E own \in {"written", "lost"} : consent' = [consent EXCEPT !.own = own]
  /\ UNCHANGED <<reportVars, listVars, changes, sync, syncs>>

\* The consent is withdrawn: its usage rows stay.
RevokeConsent ==
  /\ consent.status = "GRANTED"
  /\ consent' = [consent EXCEPT !.status = "REVOKED"]
  /\ UNCHANGED <<reportVars, listVars, changes, sync, syncs>>

\* The granted consents of the last days are listed ...
ListConsents(s) ==
  /\ sync[s] = "idle"
  /\ consent.status = "GRANTED"
  /\ syncs < MaxSyncs
  /\ syncs' = syncs + 1
  /\ sync' = [sync EXCEPT ![s] = "listed"]
  /\ UNCHANGED <<reportVars, listVars, changes, consent>>

\* A usage row counts as this consent's by the name of its purpose.  A widget
\* gives the row the purpose it puts into the consent; the API gives it the
\* title of the template, for which the backfill does not look.
AccountedFor == consent.backfilled > 0 \/ (consent.own = "written" /\ consent.by = "widget")

\* ... a usage row is looked for ...
FindUsage(s) ==
  /\ sync[s] = "listed"
  /\ sync' = [sync EXCEPT ![s] = IF AccountedFor THEN "idle" ELSE "missing"]
  /\ UNCHANGED <<reportVars, listVars, changes, consent, syncs>>

\* ... and made if there was none, as an active one.
BackfillUsage(s) ==
  /\ sync[s] = "missing"
  /\ sync' = [sync EXCEPT ![s] = "idle"]
  /\ consent' = [consent EXCEPT !.backfilled = @ + 1]
  /\ UNCHANGED <<reportVars, listVars, changes, syncs>>

------------------------------------------------------------------------------
Figures ==
  \/ StartMetrics \/ StartKpis \/ StartCookieMetrics \/ AnswerQuery
  \/ \E month \in 0 .. 11, day \in 1 .. 31 : StartTrends(month, day)
  \/ \E month \in 0 .. 11 : StartAnalytics(month)
  \/ \E age \in 0 .. 28 : StartWeeks(age)
  \/ ReportedTablesChange

ByPages ==
  \/ ListRights \/ ListAuditLogs \/ ListSystemLogs \/ ListUsage
  \/ ListConsentRecords \/ ListGrievances \/ ListUsers \/ ListAcknowledgements
  \/ CountRows \/ ReadRows \/ TurnPage
  \/ ListedTableGrows

Usage ==
  \/ RecordConsent \/ WriteUsage \/ RevokeConsent
  \/ \E s \in Syncs : ListConsents(s) \/ FindUsage(s) \/ BackfillUsage(s)

DashboardsNext == Figures \/ ByPages \/ Usage

DashboardsSpec == DashboardsInit /\ [][DashboardsNext]_dashboardVars

------------------------------------------------------------------------------
(* Properties.                                                             *)

Gathered(kind) == report.kind = kind /\ report.left = {}

\* getMetrics subtracts the requests that one query found closed from the number
\* another one counted: what it calls pending, between the two, is off by no
\* more than the changes made meanwhile.
PendingWithinChanges ==
  Gathered("metrics") =>
    LET off == PendingOf(report.got) - Pending IN
    off =< changes - report.since /\ -off =< changes - report.since

\* The scores of getKpis stay between 0 and 100, although each is the share of one
\* count in another: the totals are counted last and no row is ever deleted.
ScoresInRange ==
  Gathered("kpis") =>
    /\ Share(report.got["breached"], report.got["total"]) \in 0 .. 100
    /\ Share(report.got["open"], report.got["totalGrievances"]) \in 0 .. 100

\* getMetrics counts the requests of a priority before it counts the late ones among
\* them, and getComplianceMetrics all answers before the acceptances: a rate
\* that leaves 0 to 100 is off by no more than the changes made in between.
RatesWithinChanges ==
  /\ Gathered("metrics") =>
       report.got["late"] - report.got["ofPriority"] =< changes - report.since
  /\ Gathered("cookies") =>
       report.got["accepted"] - report.got["logs"] =< changes - report.since

\* The trends of the last six months lack a month only if it is too short for
\* today's day, the analytics lack none, and the weeks count every request of the last 28 days, twice only
\* if it is exactly some weeks old.
TrendsCover ==
  /\ report.kind = "trends" =>
       \A i \in MonthsBack :
         (report.month - i) % 12 \in MonthsShown(report.month, report.day)
         \/ report.day > DaysIn((report.month - i) % 12)
  /\ report.kind = "analytics" => MonthsAnalysed(report.month) = 0 .. 11
  /\ report.kind = "weeks" =>
       Cardinality(WeeksOf(report.age)) = IF report.age \in {7, 14, 21} THEN 2 ELSE 1

\* Rows push older ones to later pages while a client turns them, and the number
\* of pages comes from a query of its own: of the rows that were there at the
\* start the client misses no more than were made meanwhile.
PagesMissWithinGrowth ==
  listing.page > 0 /\ listing.over =>
    Cardinality((1 .. listing.first) \ listing.seen) =< rows - listing.first

\* The backfill looks for a usage row and makes one in two statements, beside the
\* call that recorded the consent: however often it runs, a consent has no more
\* rows than its own and one for each backfill in flight at a time.
UsageWithinSyncs == consent.backfilled =< Cardinality(Syncs)

\* What the figures, the lists and the usage table tell although their queries see
\* different tables.
FiguresHold ==
  /\ PendingWithinChanges
  /\ ScoresInRange
  /\ RatesWithinChanges
  /\ TrendsCover
  /\ PagesMissWithinGrowth
  /\ UsageWithinSyncs
=============================================================================
