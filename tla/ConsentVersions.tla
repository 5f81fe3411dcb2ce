--------------------------- MODULE ConsentVersions ---------------------------
(***************************************************************************)
(* What decides which text a visitor consents to: consent templates, their *)
(* numbered versions, the deployments of versions to applications, and the *)
(* widgets that show them.  Several members of staff edit at once; each    *)
(* service reads, decides, and writes by id.                               *)
(***************************************************************************)
EXTENDS Naturals, Sequences, FiniteSets, FiniteSetsExt

CONSTANTS
  Templates, Widgets, Apps,
  Editors,        \* members of staff, one call in flight each
  Routes,         \* the calls staff make
  StartsLive,     \* TRUE: version 1 of every template is already published
  StartContents,  \* what the templates ask for at the start
  MaxCalls        \* bound: calls of staff

ASSUME VersionsAssumption ==
  /\ IsFiniteSet(Editors)
  /\ StartsLive \in BOOLEAN
  /\ MaxCalls \in Nat

TemplateStatus   == {"DRAFT", "PUBLISHED", "ARCHIVED"}
DeploymentStatus == {"DEPLOYED", "PENDING", "FAILED", "ROLLED_BACK"}
WidgetStatus     == {"WIDGET_DRAFT", "WIDGET_ACTIVE", "WIDGET_DISABLED", "WIDGET_ARCHIVED"}

\* Of wizardFields and of a version's content: one consent for all purposes,
\* or one for each.
Contents == {"combined", "separate"}
ASSUME StartAssumption == StartContents \subseteq Contents

\* A column the body of an update leaves out keeps its value.
Unsaid == "unsaid"
Or(said, old) == IF said = Unsaid THEN old ELSE said

VARIABLES
  template,     \* template[t]: status and wizardFields
  versions,     \* versions[t]: the ConsentVersion rows of t, in order of insertion
  deployments,  \* the ConsentDeployment rows
  widget,       \* widget[w]: the ConsentWidgetConfig row
  clock,        \* the time of the last write that stored one
  call,         \* call[e]: the call editor e has in flight
  calls         \* calls of staff so far

versionVars == <<template, versions>>
tables == <<template, versions, deployments, widget, clock>>
vars == <<tables, call, calls>>

\* A version is the i-th row of its template.
VersionRow == [number : Nat, content : Contents]
VersionId  == Templates \X (Nat \ {0})
Deployment == [version : VersionId, app : Apps, status : DeploymentStatus,
               active : BOOLEAN, at : Nat, published : BOOLEAN]
Key(d) == <<d.version, d.app>>

Exists(v) == v[2] \in DOMAIN versions[v[1]]
Rows      == UNION {{<<t, i>> : i \in DOMAIN versions[t]} : t \in Templates}

Idle == [step |-> "idle"]
Call ==
  {Idle}
  \cup [step : {"version"}, template : Templates, number : Nat \ {0},
        content : Contents, seen : TemplateStatus]
  \cup [step : {"capture"}, template : Templates, number : Nat \ {0},
        captured : Contents, fields : Contents \cup {Unsaid}, status : TemplateStatus \cup {Unsaid}]
  \cup [step : {"save"}, template : Templates,
        fields : Contents \cup {Unsaid}, status : TemplateStatus \cup {Unsaid}]
  \cup [step : {"deploy"}, version : VersionId, app : Apps, active : BOOLEAN]
  \cup [step : {"rollback"}, key : VersionId \X Apps]
  \cup [step : {"publish", "found", "cleared"}, widget : Widgets, version : VersionId,
        app : Apps, rows : SUBSET (VersionId \X Apps)]
  \cup [step : {"enable"}, widget : Widgets, status : WidgetStatus]

\* The types, and the keys: one deployment of a version to an application, and
\* only of a version that is there.
VersionsTypeOK ==
  /\ template \in [Templates -> [status : TemplateStatus, fields : Contents]]
  /\ versions \in [Templates -> Seq(VersionRow)]
  /\ deployments \subseteq Deployment
  /\ \A d, x \in deployments : Key(d) = Key(x) => d = x
  /\ \A d \in deployments : Exists(d.version)
  /\ widget \in [Widgets -> [status : WidgetStatus, template : Templates,
                             app : Apps, touched : Nat]]
  /\ clock \in Nat
  /\ call \in [Editors -> Call]
  /\ calls \in 0 .. MaxCalls

\* Deployed and active: what publicWidgetInclude and publishAndActivate look for.
Live(d) == d.status = "DEPLOYED" /\ d.active

Init ==
  /\ template \in [Templates ->
       [status : {IF StartsLive THEN "PUBLISHED" ELSE "DRAFT"}, fields : StartContents]]
  /\ versions = [t \in Templates |->
       IF StartsLive THEN <<[number |-> 1, content |-> template[t].fields]>> ELSE <<>>]
  /\ widget \in [Widgets -> [status : {IF StartsLive THEN "WIDGET_ACTIVE" ELSE "WIDGET_DRAFT"},
                             template : Templates, app : Apps, touched : {0}]]
  /\ deployments = IF StartsLive
       THEN {[version |-> <<widget[w].template, 1>>, app |-> widget[w].app,
              status |-> "DEPLOYED", active |-> TRUE, at |-> 0, published |-> TRUE] : w \in Widgets}
       ELSE {}
  /\ clock = 0
  /\ call = [e \in Editors |-> Idle]
  /\ calls = 0

------------------------------------------------------------------------------
(* Calls.                                                                  *)

Begins(e, route) ==
  /\ route \in Routes
  /\ call[e] = Idle
  /\ calls < MaxCalls
  /\ calls' = calls + 1

Goes(e, to) == call' = [call EXCEPT ![e] = to]

Continues(e, step, to) ==
  /\ call[e].step = step
  /\ Goes(e, to)
  /\ UNCHANGED calls

------------------------------------------------------------------------------
(* Templates and versions.                                                 *)

Numbers(t) == {versions[t][i].number : i \in DOMAIN versions[t]}
Highest(t) == IF Numbers(t) = {} THEN 0 ELSE Max(Numbers(t))

NextNumber(t) == Highest(t) + 1

\* Mutant: no unique index on (templateId, versionNumber).
FreeAlways(t, n) == TRUE

\* The unique index on (templateId, versionNumber).
Free(t, n) == n \notin Numbers(t)

Inserted(t, n, content) ==
  versions' = [versions EXCEPT ![t] = Append(@, [number |-> n, content |-> content])]

\* ConsentVersionsService.create reads the template and its last version.
ReadForVersion(e, t, content) ==
  /\ Begins(e, "createVersion")
  /\ template[t].status # "ARCHIVED"
  /\ Goes(e, [step |-> "version", template |-> t, number |-> NextNumber(t),
              content |-> content, seen |-> template[t].status])
  /\ UNCHANGED tables

\* Its transaction: the version, and the status of a template that was DRAFT
\* when it was read.
CreateVersion(e) ==
  LET c == call[e] IN
  /\ Continues(e, "version", Idle)
  /\ IF Free(c.template, c.number)
     THEN /\ Inserted(c.template, c.number, c.content)
          /\ template' = IF c.seen = "DRAFT"
                         THEN [template EXCEPT ![c.template].status = "PUBLISHED"]
                         ELSE template
     ELSE UNCHANGED versionVars
  /\ UNCHANGED <<deployments, widget, clock>>

\* ConsentTemplatesService.update reads the template.  The body has new
\* wizardFields, a new status, or both.
ReadForEdit(e, t, fields, status) ==
  /\ Begins(e, "editTemplate")
  /\ IF template[t].status = "PUBLISHED"
     THEN Goes(e, [step |-> "capture", template |-> t, number |-> NextNumber(t),
                   captured |-> Or(fields, template[t].fields),
                   fields |-> fields, status |-> status])
     ELSE Goes(e, [step |-> "save", template |-> t, fields |-> fields, status |-> status])
  /\ UNCHANGED tables

\* A published template gets a version first; on a number taken the call fails.
CaptureEdit(e) ==
  LET c == call[e] IN
  /\ c.step = "capture"
  /\ IF Free(c.template, c.number)
     THEN /\ Continues(e, "capture", [step |-> "save", template |-> c.template,
                                      fields |-> c.fields, status |-> c.status])
          /\ Inserted(c.template, c.number, c.captured)
     ELSE Continues(e, "capture", Idle) /\ UNCHANGED versions
  /\ UNCHANGED <<template, deployments, widget, clock>>

\* Then the template row is written, outside any transaction.
SaveTemplate(e) ==
  LET c == call[e] IN
  /\ Continues(e, "save", Idle)
  /\ template' = [template EXCEPT ![c.template] =
       [status |-> Or(c.status, @.status), fields |-> Or(c.fields, @.fields)]]
  /\ UNCHANGED <<versions, deployments, widget, clock>>

RemoveTemplate(e, t) ==
  /\ Begins(e, "removeTemplate")
  /\ template' = [template EXCEPT ![t].status = "ARCHIVED"]
  /\ UNCHANGED <<versions, deployments, widget, clock, call>>

------------------------------------------------------------------------------
(* Deployments.                                                            *)

\* Mutant: the row another call has inserted meanwhile is not noticed.
DeployedNever(key) == FALSE

Deployed(key) == \E d \in deployments : Key(d) = key

\* Rows that an open transaction has written; other writers wait for its end.
Locked(key) == \E e \in Editors : call[e].step = "cleared" /\ key \in call[e].rows

\* new Date(), stored as deployedAt or updatedAt.
Stamp == clock + 1
Stamps == clock' = Stamp

\* ConsentDeploymentsService.create finds no deployment of this version here.
ReadForDeploy(e, v, app, active) ==
  /\ Begins(e, "deploy")
  /\ Exists(v)
  /\ ~Deployed(<<v, app>>)
  /\ Goes(e, [step |-> "deploy", version |-> v, app |-> app, active |-> active])
  /\ UNCHANGED tables

\* The unique index on (versionId, applicationId) fails the later of two.
Deploy(e) ==
  LET c == call[e] IN
  /\ Continues(e, "deploy", Idle)
  /\ ~Locked(<<c.version, c.app>>)
  /\ deployments' = IF Deployed(<<c.version, c.app>>) THEN deployments
       ELSE deployments \cup {[version |-> c.version, app |-> c.app, status |-> "DEPLOYED",
                               active |-> c.active, at |-> Stamp, published |-> FALSE]}
  /\ Stamps
  /\ UNCHANGED <<template, versions, widget>>

UpdateDeployment(e, d, status, active) ==
  /\ Begins(e, "updateDeployment")
  /\ ~Locked(Key(d))
  /\ deployments' = (deployments \ {d}) \cup
       {[d EXCEPT !.status = status, !.active = active, !.published = FALSE]}
  /\ UNCHANGED <<template, versions, widget, clock, call>>

\* rollback reads the deployment; one that is rolled back already is refused.
ReadForRollback(e, d) ==
  /\ Begins(e, "rollback")
  /\ d.status # "ROLLED_BACK"
  /\ Goes(e, [step |-> "rollback", key |-> Key(d)])
  /\ UNCHANGED tables

RollBack(e) ==
  LET key == call[e].key IN
  /\ Continues(e, "rollback", Idle)
  /\ ~Locked(key)
  /\ deployments' = {IF Key(d) = key
                     THEN [d EXCEPT !.status = "ROLLED_BACK", !.active = FALSE]
                     ELSE d : d \in deployments}
  /\ UNCHANGED <<template, versions, widget, clock>>

RemoveDeployment(e, d) ==
  /\ Begins(e, "removeDeployment")
  /\ ~Locked(Key(d))
  /\ deployments' = deployments \ {d}
  /\ UNCHANGED <<template, versions, widget, clock, call>>

------------------------------------------------------------------------------
(* publishAndActivate.                                                     *)

\* The deployments of other versions of the template that are live here.
Superseded(v, app) ==
  {Key(d) : d \in {x \in deployments :
     /\ Live(x)
     /\ x.app = app
     /\ x.version[1] = v[1]
     /\ x.version # v}}

\* The widget and the version, the last one if none is named, are read before
\* the transaction.
ReadForPublish(e, w, v) ==
  /\ Begins(e, "publish")
  /\ Exists(v)
  /\ v[1] = widget[w].template
  /\ Goes(e, [step |-> "publish", widget |-> w, version |-> v,
              app |-> widget[w].app, rows |-> {}])
  /\ UNCHANGED tables

\* The updateMany sees the rows committed when it starts ...
FindSuperseded(e) ==
  LET c == call[e] IN
  /\ Continues(e, "publish",
       [c EXCEPT !.step = "found", !.rows = Superseded(c.version, c.app)])
  /\ UNCHANGED tables

\* ... waits for those another transaction has written, and locks the ones that
\* match still.
Deactivate(e) ==
  LET c == call[e] IN
  /\ c.step = "found"
  /\ \A key \in c.rows : ~Locked(key)
  /\ Continues(e, "found",
       [c EXCEPT !.step = "cleared", !.rows = @ \cap Superseded(c.version, c.app)])
  /\ UNCHANGED tables

Write(w, row) ==
  /\ widget' = [widget EXCEPT ![w] = [row EXCEPT !.touched = Stamp]]
  /\ Stamps

\* Mutant: the other versions stay live.
DarkenedNone(d, keys) == d

Darkened(d, keys) == IF Key(d) \in keys THEN [d EXCEPT !.active = FALSE] ELSE d

\* The upsert of the deployment, the widget, and the commit.
CommitPublish(e) ==
  LET c   == call[e]
      key == <<c.version, c.app>>
  IN
  /\ Continues(e, "cleared", Idle)
  /\ ~Locked(key)
  /\ deployments' =
       {Darkened(d, c.rows) : d \in {x \in deployments : Key(x) # key}}
       \cup {[version |-> c.version, app |-> c.app, status |-> "DEPLOYED",
              active |-> TRUE, at |-> Stamp, published |-> TRUE]}
  /\ Write(c.widget, [widget[c.widget] EXCEPT !.status = "WIDGET_ACTIVE"])
  /\ UNCHANGED versionVars

\* A statement fails, waits past the timeout, or is the victim of a deadlock.
RollbackPublish(e) ==
  /\ call[e].step \in {"found", "cleared"}
  /\ Goes(e, Idle)
  /\ UNCHANGED <<tables, calls>>

------------------------------------------------------------------------------
(* Widgets.                                                                *)

\* setEnabled(true): neither archived nor draft when read.
ReadForEnable(e, w) ==
  /\ Begins(e, "enable")
  /\ widget[w].status \notin {"WIDGET_ARCHIVED", "WIDGET_DRAFT"}
  /\ Goes(e, [step |-> "enable", widget |-> w, status |-> "WIDGET_ACTIVE"])
  /\ UNCHANGED tables

\* setEnabled(false): active when read.
ReadForDisable(e, w) ==
  /\ Begins(e, "disable")
  /\ widget[w].status = "WIDGET_ACTIVE"
  /\ Goes(e, [step |-> "enable", widget |-> w, status |-> "WIDGET_DISABLED"])
  /\ UNCHANGED tables

SetEnabled(e) ==
  LET c == call[e] IN
  /\ Continues(e, "enable", Idle)
  /\ Write(c.widget, [widget[c.widget] EXCEPT !.status = c.status])
  /\ UNCHANGED <<template, versions, deployments>>

UpdateWidget(e, w, status, t) ==
  /\ Begins(e, "updateWidget")
  /\ Write(w, [widget[w] EXCEPT !.status = Or(status, @), !.template = t])
  /\ UNCHANGED <<template, versions, deployments, call>>

ArchiveWidget(e, w) ==
  /\ Begins(e, "archiveWidget")
  /\ Write(w, [widget[w] EXCEPT !.status = "WIDGET_ARCHIVED"])
  /\ UNCHANGED <<template, versions, deployments, call>>

------------------------------------------------------------------------------
EditVersions(e) ==
  \/ \E t \in Templates, content \in Contents : ReadForVersion(e, t, content)
  \/ CreateVersion(e)
  \/ \E t \in Templates, fields \in Contents \cup {Unsaid}, status \in TemplateStatus \cup {Unsaid} :
       ReadForEdit(e, t, fields, status)
  \/ CaptureEdit(e)
  \/ SaveTemplate(e)
  \/ \E t \in Templates : RemoveTemplate(e, t)

EditDeployments(e) ==
  \/ \E v \in Rows, app \in Apps, active \in BOOLEAN : ReadForDeploy(e, v, app, active)
  \/ Deploy(e)
  \/ \E d \in deployments, status \in DeploymentStatus, active \in BOOLEAN :
       UpdateDeployment(e, d, status, active)
  \/ \E d \in deployments : ReadForRollback(e, d)
  \/ RollBack(e)
  \/ \E d \in deployments : RemoveDeployment(e, d)

Publish(e) ==
  \/ \E w \in Widgets, v \in Rows : ReadForPublish(e, w, v)
  \/ FindSuperseded(e)
  \/ Deactivate(e)
  \/ CommitPublish(e)
  \/ RollbackPublish(e)

EditWidgets(e) ==
  \/ \E w \in Widgets : ReadForEnable(e, w)
  \/ \E w \in Widgets : ReadForDisable(e, w)
  \/ SetEnabled(e)
  \/ \E w \in Widgets, status \in WidgetStatus \cup {Unsaid}, t \in Templates :
       UpdateWidget(e, w, status, t)
  \/ \E w \in Widgets : ArchiveWidget(e, w)

Staff == \E e \in Editors :
  EditVersions(e) \/ EditDeployments(e) \/ Publish(e) \/ EditWidgets(e)

Next == Staff

Spec == Init /\ [][Next]_vars

------------------------------------------------------------------------------
(* Properties.                                                             *)

\* However the two calls that insert versions race, by create and by the
\* update of a published template, the versions of a template are numbered
\* 1, 2, 3 ... in the order they were published, without a gap or a duplicate.
VersionsNumbered ==
  \A t \in Templates : \A i \in DOMAIN versions[t] : versions[t][i].number = i

\* Publishing leaves one version of a template live on an application, except
\* for those that published at the same time did not see: never more than
\* there are editors at work, over any sequence of publishing, rolling back
\* and deploying.  (What is deployed or activated by hand comes on top.)
LiveWithinEditors ==
  \A t \in Templates, app \in Apps :
    Cardinality({d \in deployments : Live(d) /\ d.published /\ d.app = app /\ d.version[1] = t})
      =< Cardinality(Editors)
=============================================================================
