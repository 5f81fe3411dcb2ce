--------------------------- MODULE ServicesProofs ---------------------------
(***************************************************************************)
(* Theorems about the components around the core when they are put         *)
(* together: each behaves as it does by itself, so what is proved of each  *)
(* by itself is true of all of them together.                              *)
(***************************************************************************)
EXTENDS MCServices, AccountsProofs, VisitorProofs, BackOfficeProofs

\* Whoever moves, each component makes one of its own steps or none.
LEMMA EachMakesItsStep ==
  ASSUME [ServicesNext]_servicesVars
  PROVE  /\ [AccessNext]_accessVars
         /\ [AccountsNext]_accountVars
         /\ [AuditTrailNext]_auditTrailVars
         /\ [CaseFileNext]_caseFileVars
         /\ [DashboardsNext]_dashboardVars
         /\ [NoticeNext \/ SetsLanguages]_noticesVars
         /\ [ReportsNext]_reportsVars
         /\ [WidgetNext]_widgetVars
<1>1. CASE AccessMove
  BY <1>1 DEF AccessMove
<1>2. CASE AccountsMove
  BY <1>2 DEF AccountsMove
<1>3. CASE AuditMove
  BY <1>3 DEF AuditMove
<1>4. CASE FileMove
  BY <1>4 DEF FileMove
<1>5. CASE FiguresMove
  BY <1>5 DEF FiguresMove
<1>6. CASE NoticesMove \/ LanguagesMove
  BY <1>6 DEF NoticesMove, LanguagesMove
<1>7. CASE ReportsMove
  BY <1>7 DEF ReportsMove
<1>8. CASE PageMove
  BY <1>8 DEF PageMove
<1>9. CASE UNCHANGED servicesVars
  BY <1>9 DEF servicesVars
<1>10. QED
  BY <1>1, <1>2, <1>3, <1>4, <1>5, <1>6, <1>7, <1>8, <1>9
  DEF ServicesNext

\* No component disturbs another: every behaviour of all together is one of each.
THEOREM EachBehavesByItself ==
  ServicesSpec => /\ AccessSpec /\ AccountsSpec /\ AuditTrailSpec /\ CaseFileSpec
                  /\ DashboardsSpec /\ NoticesSpec /\ ReportsSpec /\ WidgetSpec
<1>1. ServicesInit => /\ AccessInit /\ AccountsInit /\ AuditTrailInit /\ CaseFileInit
                      /\ DashboardsInit /\ NoticesInit /\ ReportsInit /\ WidgetInit
  BY DEF ServicesInit
<1>2. QED
  BY <1>1, EachMakesItsStep, PTL
  DEF ServicesSpec, AccessSpec, AccountsSpec, AuditTrailSpec, CaseFileSpec,
      DashboardsSpec, NoticesSpec, ReportsSpec, WidgetSpec

\* The types of the component that moves are kept, and those of the others too.
THEOREM ServicesTypeCorrect == ServicesSpec => []ServicesTypeOK
<1>1. ASSUME AccessTypeOK, AccountsTypeOK, AuditTrailTypeOK, CaseFileTypeOK, DashboardsTypeOK,
             NoticesTypeOK, ReportsTypeOK, WidgetTypeOK
      PROVE  ServicesTypeOK
  BY <1>1 DEF ServicesTypeOK
<1>2. QED
  BY <1>1, EachBehavesByItself, AccessTypeCorrect, AccountsTypeCorrect, LogsStayTrue,
     LookupsStayTrue, FiguresStayTrue, NoticesStayTrue, ReportsStayTrue,
     WidgetTypeCorrect, PTL

\* What the run of all of them checks of each: sessions within their limit and ended by
\* a reset, verified consents, logs, lookups, records, figures, reports and notices
\* that tell what happened, roles and invitations that are kept, and sessions that end
\* for good.
THEOREM ServicesKeepTheirWord ==
  ServicesSpec => /\ [](/\ SessionsBounded /\ ResetEndsSessions /\ RecordedIsVerified /\ LogsHold
                        /\ FiguresHold /\ LookupsHold /\ RecordsHold /\ ReportsHold
                        /\ NoticesHold /\ AccessHolds)
                  /\ EndedForGood
BY EachBehavesByItself, SessionsStayBounded, ResetsEndSessions, RecordedAreVerified, LogsStayTrue,
   FiguresStayTrue, LookupsStayTrue, RecordsStayTrue, ReportsStayTrue, NoticesStayTrue, AccessIsKept, SessionsEndForGood, PTL
=============================================================================
