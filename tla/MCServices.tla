----------------------------- MODULE MCServices -----------------------------
(***************************************************************************)
(* The components around the core on small instances.  They share no rows  *)
(* that these models follow, so in every behaviour one of them moves and   *)
(* the others stay as they are.                                            *)
(***************************************************************************)
EXTENDS Access, Accounts, AuditTrail, CaseFile, Dashboards, Notices, Reports, WidgetPage

VARIABLE part       \* the component that moves

ServiceParts == {"access", "accounts", "audit", "file", "figures", "notices", "languages", "reports",
                 "page"}

\* A component that stays as it is starts in one of its states.
FirstStates ==
  /\ part # "access" => role = NoRole
  /\ part # "audit" => table = "users" /\ \A r \in used : r = CHOOSE first \in Rows : TRUE
  /\ part # "file" => followed = "file"
  /\ part # "figures" => consent.by = "widget"
  /\ part # "reports" => ordered = "OTHER"
  /\ IF part = "page"
     THEN Cardinality({field \in DOMAIN template : template[field]}) = 1
     ELSE /\ template.otp /\ ~template.parental /\ ~template.aadhaar
          /\ page.email = CHOOSE email \in Addresses \ {Guardian} : TRUE

ServicesInit ==
  /\ part \in ServiceParts
  /\ AccessInit /\ AccountsInit /\ AuditTrailInit /\ CaseFileInit /\ DashboardsInit
  /\ NoticesInit /\ ReportsInit /\ WidgetInit
  /\ FirstStates

servicesVars == <<part, accessVars, accountVars, auditTrailVars, caseFileVars,
                  dashboardVars, noticesVars, reportsVars, widgetVars>>

AccessMove ==
  /\ part = "access"
  /\ AccessNext
  /\ UNCHANGED <<part, accountVars, auditTrailVars, caseFileVars, dashboardVars,
                 noticesVars, reportsVars, widgetVars>>

AccountsMove ==
  /\ part = "accounts"
  /\ AccountsNext
  /\ UNCHANGED <<part, accessVars, auditTrailVars, caseFileVars, dashboardVars,
                 noticesVars, reportsVars, widgetVars>>

AuditMove ==
  /\ part = "audit"
  /\ AuditTrailNext
  /\ UNCHANGED <<part, accessVars, accountVars, caseFileVars, dashboardVars,
                 noticesVars, reportsVars, widgetVars>>

FileMove ==
  /\ part = "file"
  /\ CaseFileNext
  /\ UNCHANGED <<part, accessVars, accountVars, auditTrailVars, dashboardVars,
                 noticesVars, reportsVars, widgetVars>>

FiguresMove ==
  /\ part = "figures"
  /\ DashboardsNext
  /\ UNCHANGED <<part, accessVars, accountVars, auditTrailVars, caseFileVars,
                 noticesVars, reportsVars, widgetVars>>

NoticesMove ==
  /\ part = "notices"
  /\ NoticeNext
  /\ UNCHANGED <<part, accessVars, accountVars, auditTrailVars, caseFileVars,
                 dashboardVars, reportsVars, widgetVars>>

LanguagesMove ==
  /\ part = "languages"
  /\ SetsLanguages
  /\ UNCHANGED <<part, accessVars, accountVars, auditTrailVars, caseFileVars,
                 dashboardVars, reportsVars, widgetVars>>

ReportsMove ==
  /\ part = "reports"
  /\ ReportsNext
  /\ UNCHANGED <<part, accessVars, accountVars, auditTrailVars, caseFileVars,
                 dashboardVars, noticesVars, widgetVars>>

PageMove ==
  /\ part = "page"
  /\ WidgetNext
  /\ UNCHANGED <<part, accessVars, accountVars, auditTrailVars, caseFileVars,
                 dashboardVars, noticesVars, reportsVars>>

ServicesNext ==
  \/ AccessMove \/ AccountsMove \/ AuditMove \/ FileMove \/ FiguresMove
  \/ NoticesMove \/ LanguagesMove \/ ReportsMove \/ PageMove

ServicesSpec == ServicesInit /\ [][ServicesNext]_servicesVars

\* The component that moves keeps its types.
ServicesTypeOK ==
  /\ part = "access" => AccessTypeOK
  /\ part = "accounts" => AccountsTypeOK
  /\ part = "audit" => AuditTrailTypeOK
  /\ part = "file" => CaseFileTypeOK
  /\ part = "figures" => DashboardsTypeOK
  /\ part \in {"notices", "languages"} => NoticesTypeOK
  /\ part = "reports" => ReportsTypeOK
  /\ part = "page" => WidgetTypeOK
=============================================================================
