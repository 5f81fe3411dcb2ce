--------------------------- MODULE ConsentsProofs ---------------------------
(***************************************************************************)
(* Theorems about ConsentVersions and ConsentRecording, for any templates, *)
(* widgets, applications, editors, calls, visitors, subjects and purposes. *)
(***************************************************************************)
EXTENDS ConsentRecording, SequenceTheorems, FiniteSetTheorems, TLAPS

------------------------------------------------------------------------------
(***************************************************************************)
(* Templates, versions and deployments: ConsentVersions.                   *)
(***************************************************************************)

(***************************************************************************)
(* Numbers.                                                                *)
(***************************************************************************)
VersionsFit ==
  /\ versions \in [Templates -> Seq(VersionRow)]
  /\ VersionsNumbered

LEMMA NextNumberFits ==
  ASSUME VersionsFit, NEW t \in Templates
  PROVE  /\ Numbers(t) = 1 .. Len(versions[t])
         /\ Len(versions[t]) \in Nat
         /\ NextNumber(t) = Len(versions[t]) + 1
<1>1. versions[t] \in Seq(VersionRow)
  BY DEF VersionsFit
<1> DEFINE n == Len(versions[t])
<1>2. n \in Nat /\ DOMAIN versions[t] = 1 .. n
  BY <1>1
<1>3. \A i \in 1 .. n : versions[t][i].number = i
  BY <1>2 DEF VersionsFit, VersionsNumbered
<1>4. Numbers(t) = 1 .. n
  BY <1>2, <1>3 DEF Numbers
<1>5. Highest(t) = n
  <2> HIDE DEF n
  <2>1. CASE n = 0
    BY <1>4, <2>1 DEF Highest
  <2>2. CASE n # 0
    <3>1. n \in 1 .. n /\ \A y \in 1 .. n : n >= y
      BY <1>2, <2>2
    <3>2. Max(1 .. n) \in 1 .. n /\ Max(1 .. n) >= n
      BY <3>1 DEF Max
    <3>3. Max(1 .. n) = n
      BY <1>2, <3>2
    <3>4. QED
      BY <1>4, <3>1, <3>3 DEF Highest
  <2>3. QED
    BY <2>1, <2>2
<1>6. QED
  BY <1>2, <1>4, <1>5 DEF NextNumber

\* Versions are only added to.
Grows ==
  \A t \in Templates : Len(versions[t]) =< Len(versions'[t])

\* A number within one of the length that is free is the next one.
LEMMA InsertedFits ==
  ASSUME VersionsFit, NEW t \in Templates, NEW n \in Nat \ {0}, NEW content \in Contents,
         n =< Len(versions[t]) + 1, Free(t, n), Inserted(t, n, content)
  PROVE  VersionsFit' /\ Grows
<1> DEFINE row == [number |-> n, content |-> content]
           len == Len(versions[t])
<1>1. versions[t] \in Seq(VersionRow) /\ row \in VersionRow
  BY DEF VersionsFit, VersionRow
<1>2. len \in Nat /\ n = len + 1
  BY NextNumberFits DEF Free
<1>3. versions' = [versions EXCEPT ![t] = Append(versions[t], row)]
  BY DEF Inserted
<1>4. /\ Append(versions[t], row) \in Seq(VersionRow)
      /\ Len(Append(versions[t], row)) = len + 1
      /\ Append(versions[t], row)[len + 1] = row
      /\ \A i \in 1 .. len : Append(versions[t], row)[i] = versions[t][i]
  BY <1>1
<1>5. versions' \in [Templates -> Seq(VersionRow)]
  BY <1>3, <1>4 DEF VersionsFit
<1>6. \A u \in Templates \ {t} : versions'[u] = versions[u]
  BY <1>3 DEF VersionsFit
<1>7. versions'[t] = Append(versions[t], row)
  BY <1>3 DEF VersionsFit
<1>8. \A u \in Templates : \A i \in DOMAIN versions'[u] : versions'[u][i].number = i
  <2> SUFFICES ASSUME NEW u \in Templates, NEW i \in DOMAIN versions'[u]
               PROVE  versions'[u][i].number = i
    OBVIOUS
  <2>1. CASE u # t
    BY <1>6, <2>1 DEF VersionsFit, VersionsNumbered
  <2>2. CASE u = t
    <3>1. i \in 1 .. len + 1
      BY <1>4, <1>7, <2>2
    <3>2. CASE i \in 1 .. len
      <4>1. i \in DOMAIN versions[t]
        BY <1>1, <3>2
      <4>2. versions[t][i].number = i
        BY <4>1 DEF VersionsFit, VersionsNumbered
      <4>3. QED
        BY <1>4, <1>7, <2>2, <3>2, <4>2
    <3>3. CASE i = len + 1
      BY <1>2, <1>4, <1>7, <2>2, <3>3
    <3>4. QED
      BY <1>2, <3>1, <3>2, <3>3
  <2>3. QED
    BY <2>1, <2>2
<1>9. Grows
  <2>1. \A u \in Templates : Len(versions[u]) \in Nat
    BY DEF VersionsFit
  <2>2. QED
    BY <1>2, <1>4, <1>6, <1>7, <2>1 DEF Grows
<1>10. QED
  BY <1>5, <1>8, <1>9 DEF VersionsFit, VersionsNumbered
(***************************************************************************)
(* The inductive invariant.                                                *)
(***************************************************************************)
\* A number a call has read is at most the next one, and the version it has
\* read is there still.
CallsKnow ==
  \A e \in Editors :
    /\ call[e].step \in {"version", "capture"}
         => call[e].number =< Len(versions[call[e].template]) + 1
    /\ call[e].step \in {"deploy", "publish", "found", "cleared"}
         => Exists(call[e].version)

CallsFit ==
  /\ call \in [Editors -> Call]
  /\ CallsKnow
  /\ calls \in 0 .. MaxCalls

DeploymentsFit ==
  /\ deployments \subseteq Deployment
  /\ \A d, x \in deployments : Key(d) = Key(x) => d = x
  /\ \A d \in deployments : Exists(d.version)

RowsFit ==
  /\ template \in [Templates -> [status : TemplateStatus, fields : Contents]]
  /\ widget \in [Widgets -> [status : WidgetStatus, template : Templates,
                             app : Apps, touched : Nat]]
  /\ clock \in Nat

VersionsInv == VersionsFit /\ CallsFit /\ DeploymentsFit /\ RowsFit

LEMMA InvImplies ==
  VersionsInv => VersionsTypeOK /\ VersionsNumbered
BY DEF VersionsInv, VersionsFit, CallsFit, DeploymentsFit, RowsFit, VersionsTypeOK

LEMMA ExistsGrows ==
  ASSUME VersionsFit, VersionsFit', Grows, NEW v \in VersionId, Exists(v)
  PROVE  Exists(v)'
<1>1. v[1] \in Templates /\ v[2] \in Nat \ {0}
  BY DEF VersionId
<1>2. /\ DOMAIN versions[v[1]] = 1 .. Len(versions[v[1]])
      /\ DOMAIN versions'[v[1]] = 1 .. Len(versions'[v[1]])
      /\ Len(versions[v[1]]) \in Nat /\ Len(versions'[v[1]]) \in Nat
  BY <1>1 DEF VersionsFit
<1>3. Len(versions[v[1]]) =< Len(versions'[v[1]])
  BY <1>1 DEF Grows
<1>4. v[2] \in 1 .. Len(versions[v[1]])
  BY <1>2 DEF Exists
<1>5. v[2] \in 1 .. Len(versions'[v[1]])
  BY <1>1, <1>2, <1>3, <1>4
<1>6. QED
  BY <1>2, <1>5 DEF Exists

\* What a call in flight carries.
LEMMA CallFields ==
  ASSUME NEW c \in Call
  PROVE  /\ c.step = "version" =>
              /\ c.template \in Templates /\ c.number \in Nat \ {0}
              /\ c.content \in Contents
         /\ c.step = "capture" =>
              /\ c.template \in Templates /\ c.number \in Nat \ {0}
              /\ c.captured \in Contents
              /\ c.fields \in Contents \cup {Unsaid}
              /\ c.status \in TemplateStatus \cup {Unsaid}
         /\ c.step = "save" =>
              /\ c.template \in Templates
              /\ c.fields \in Contents \cup {Unsaid}
              /\ c.status \in TemplateStatus \cup {Unsaid}
         /\ c.step = "deploy" =>
              /\ c.version \in VersionId /\ c.app \in Apps /\ c.active \in BOOLEAN
         /\ c.step \in {"publish", "found", "cleared"} =>
              /\ c \in [step : {"publish", "found", "cleared"}, widget : Widgets,
                        version : VersionId, app : Apps, rows : SUBSET (VersionId \X Apps)]
              /\ c.widget \in Widgets /\ c.version \in VersionId /\ c.app \in Apps
              /\ c.rows \in SUBSET (VersionId \X Apps)
         /\ c.step = "enable" => c.widget \in Widgets /\ c.status \in WidgetStatus
<1> USE DEF Call, Idle
<1>1. c.step = "version" =>
        c.template \in Templates /\ c.number \in Nat \ {0} /\ c.content \in Contents
  OBVIOUS
<1>2. c.step = "capture" =>
              /\ c.template \in Templates /\ c.number \in Nat \ {0}
              /\ c.captured \in Contents
              /\ c.fields \in Contents \cup {Unsaid}
              /\ c.status \in TemplateStatus \cup {Unsaid}
  OBVIOUS
<1>3. c.step = "save" =>
              /\ c.template \in Templates
              /\ c.fields \in Contents \cup {Unsaid}
              /\ c.status \in TemplateStatus \cup {Unsaid}
  OBVIOUS
<1>4. c.step = "deploy" =>
              c.version \in VersionId /\ c.app \in Apps /\ c.active \in BOOLEAN
  OBVIOUS
<1>5. c.step \in {"publish", "found", "cleared"} =>
        c \in [step : {"publish", "found", "cleared"}, widget : Widgets,
               version : VersionId, app : Apps, rows : SUBSET (VersionId \X Apps)]
  OBVIOUS
<1>6. c.step = "enable" => c.widget \in Widgets /\ c.status \in WidgetStatus
  OBVIOUS
<1>7. QED
  BY <1>1, <1>2, <1>3, <1>4, <1>5, <1>6

\* A call goes on to a state that fits while versions are added at most.
LEMMA GoesFits ==
  ASSUME VersionsInv, VersionsFit', Grows, calls' \in 0 .. MaxCalls,
         NEW e \in Editors, NEW to \in Call, Goes(e, to),
         to.step \in {"version", "capture"} => to.number =< Len(versions'[to.template]) + 1,
         to.step \in {"deploy", "publish", "found", "cleared"} =>
           to.version[2] \in DOMAIN versions'[to.version[1]]
  PROVE  CallsFit'
<1>1. call' = [call EXCEPT ![e] = to]
  BY DEF Goes
<1>2. call \in [Editors -> Call]
  BY DEF VersionsInv, CallsFit
<1>3. call' \in [Editors -> Call]
  BY <1>1, <1>2
<1>4. CallsKnow'
  <2> SUFFICES ASSUME NEW x \in Editors
               PROVE /\ call'[x].step \in {"version", "capture"}
                          => call'[x].number =< Len(versions'[call'[x].template]) + 1
                     /\ call'[x].step \in {"deploy", "publish", "found", "cleared"}
                          => call'[x].version[2] \in DOMAIN versions'[call'[x].version[1]]
    BY DEF CallsKnow, Exists
  <2>1. CASE x = e
    BY <1>1, <1>2, <2>1
  <2>2. CASE x # e
    <3>1. call'[x] = call[x] /\ call[x] \in Call
      BY <1>1, <1>2, <2>2
    <3>2. CASE call[x].step \in {"version", "capture"}
      <4>1. call[x].template \in Templates /\ call[x].number \in Nat \ {0}
        BY <3>1, <3>2, CallFields
      <4>2. call[x].number =< Len(versions[call[x].template]) + 1
        BY <3>2 DEF VersionsInv, CallsFit, CallsKnow
      <4>3. /\ Len(versions[call[x].template]) =< Len(versions'[call[x].template])
            /\ Len(versions[call[x].template]) \in Nat
            /\ Len(versions'[call[x].template]) \in Nat
        BY <4>1 DEF Grows, VersionsInv, VersionsFit
      <4>4. call[x].number =< Len(versions'[call[x].template]) + 1
        BY <4>1, <4>2, <4>3
      <4>5. QED
        BY <3>1, <3>2, <4>4
    <3>3. CASE call[x].step \in {"deploy", "publish", "found", "cleared"}
      <4>1. call[x].version \in VersionId
        BY <3>1, <3>3, CallFields
      <4>2. Exists(call[x].version)
        BY <3>3 DEF VersionsInv, CallsFit, CallsKnow
      <4>3. Exists(call[x].version)'
            <=> call'[x].version[2] \in DOMAIN versions'[call'[x].version[1]]
        BY DEF Exists
      <4>4. \A v \in VersionId : Exists(v) => v[2] \in DOMAIN versions'[v[1]]
        BY ExistsGrows DEF VersionsInv, Exists
      <4>5. call[x].version[2] \in DOMAIN versions'[call[x].version[1]]
        BY <4>1, <4>2, <4>4
      <4>6. QED
        BY <3>1, <3>3, <4>5
    <3>4. QED
      BY <3>1, <3>2, <3>3
  <2>3. QED
    BY <2>1, <2>2
<1>5. QED
  BY <1>3, <1>4 DEF CallsFit

LEMMA GoesIdle ==
  ASSUME VersionsInv, VersionsFit', Grows, calls' \in 0 .. MaxCalls,
         NEW e \in Editors, Goes(e, Idle)
  PROVE  CallsFit'
<1>1. Idle \in Call /\ Idle.step = "idle"
  BY DEF Call, Idle
<1>2. QED
  BY <1>1, GoesFits

LEMMA SameVersions ==
  ASSUME VersionsInv, UNCHANGED versions
  PROVE  VersionsFit' /\ Grows
BY DEF VersionsInv, VersionsFit, VersionsNumbered, Grows

\* Deployments that stay as they are keep fitting.
LEMMA SameDeployments ==
  ASSUME VersionsInv, VersionsFit', Grows, UNCHANGED deployments
  PROVE  DeploymentsFit'
<1>1. \A d \in deployments : d.version \in VersionId /\ Exists(d.version)
  BY DEF VersionsInv, DeploymentsFit, Deployment
<1>2. \A v \in VersionId : Exists(v) => v[2] \in DOMAIN versions'[v[1]]
  BY ExistsGrows DEF VersionsInv, Exists
<1>3. \A d \in deployments' : d.version[2] \in DOMAIN versions'[d.version[1]]
  BY <1>1, <1>2
<1>4. QED
  BY <1>3 DEF VersionsInv, DeploymentsFit, Exists, Key
(***************************************************************************)
(* Steps that write templates and versions.                                *)
(***************************************************************************)
LEMMA BeginsCounts ==
  ASSUME VersionsInv, NEW e, NEW route, Begins(e, route)
  PROVE  calls' \in 0 .. MaxCalls
BY VersionsAssumption DEF Begins, VersionsInv, CallsFit

LEMMA ReadForVersionFits ==
  ASSUME VersionsInv, NEW e \in Editors, NEW t \in Templates, NEW content \in Contents,
         ReadForVersion(e, t, content)
  PROVE  VersionsInv'
<1> DEFINE to == [step |-> "version", template |-> t, number |-> NextNumber(t),
                  content |-> content, seen |-> template[t].status]
<1>1. calls' \in 0 .. MaxCalls /\ Goes(e, to) /\ UNCHANGED tables
  BY BeginsCounts DEF ReadForVersion
<1>2. VersionsFit' /\ Grows /\ versions' = versions
  BY <1>1, SameVersions DEF tables
<1>3. NextNumber(t) = Len(versions[t]) + 1 /\ Len(versions[t]) \in Nat
  BY NextNumberFits DEF VersionsInv
<1>4. template[t].status \in TemplateStatus
  BY DEF VersionsInv, RowsFit
<1>5. to \in Call
  <2>1. NextNumber(t) \in Nat \ {0}
    BY <1>3
  <2>2. to \in [step : {"version"}, template : Templates, number : Nat \ {0},
                content : Contents, seen : TemplateStatus]
    BY <1>4, <2>1
  <2>3. QED
    BY <2>2 DEF Call
<1>6. to.step = "version" /\ to.number =< Len(versions'[to.template]) + 1
  BY <1>2, <1>3
<1>7. CallsFit'
  <2> HIDE DEF to
  <2>1. QED
    BY <1>1, <1>2, <1>5, <1>6, GoesFits
<1>8. DeploymentsFit' /\ RowsFit'
  BY <1>1, <1>2, SameDeployments DEF VersionsInv, RowsFit, tables
<1>9. QED
  BY <1>2, <1>7, <1>8 DEF VersionsInv

LEMMA CreateVersionFits ==
  ASSUME VersionsInv, NEW e \in Editors, CreateVersion(e)
  PROVE  VersionsInv'
<1> DEFINE c == call[e]
<1>1. /\ c.step = "version" /\ Goes(e, Idle) /\ calls' = calls
      /\ UNCHANGED <<deployments, widget, clock>>
  BY DEF CreateVersion, Continues
<1>2. c.template \in Templates /\ c.number \in Nat \ {0} /\ c.content \in Contents
  BY <1>1, CallFields DEF VersionsInv, CallsFit
<1>3. c.number =< Len(versions[c.template]) + 1
  BY <1>1 DEF VersionsInv, CallsFit, CallsKnow
<1>4. VersionsFit' /\ Grows
  <2>1. CASE Free(c.template, c.number)
    <3>1. Inserted(c.template, c.number, c.content)
      BY <2>1 DEF CreateVersion
    <3>2. QED
      BY <1>2, <1>3, <2>1, <3>1, InsertedFits DEF VersionsInv
  <2>2. CASE ~Free(c.template, c.number)
    BY <2>2, SameVersions DEF CreateVersion, versionVars
  <2>3. QED
    BY <2>1, <2>2
<1>5. template' \in [Templates -> [status : TemplateStatus, fields : Contents]]
  <2>1. \/ template' = template
        \/ template' = [template EXCEPT ![c.template].status = "PUBLISHED"]
    BY DEF CreateVersion, versionVars
  <2>2. QED
    BY <1>2, <2>1 DEF VersionsInv, RowsFit, TemplateStatus
<1>6. CallsFit'
  BY <1>1, <1>4, GoesIdle DEF VersionsInv, CallsFit
<1>7. DeploymentsFit'
  BY <1>1, <1>4, SameDeployments
<1>8. QED
  BY <1>1, <1>4, <1>5, <1>6, <1>7 DEF VersionsInv, RowsFit

LEMMA ReadForEditFits ==
  ASSUME VersionsInv, NEW e \in Editors, NEW t \in Templates,
         NEW fields \in Contents \cup {Unsaid}, NEW status \in TemplateStatus \cup {Unsaid},
         ReadForEdit(e, t, fields, status)
  PROVE  VersionsInv'
<1> DEFINE capture == [step |-> "capture", template |-> t, number |-> NextNumber(t),
                       captured |-> Or(fields, template[t].fields),
                       fields |-> fields, status |-> status]
           save    == [step |-> "save", template |-> t, fields |-> fields, status |-> status]
<1>1. /\ calls' \in 0 .. MaxCalls /\ UNCHANGED tables
      /\ Goes(e, capture) \/ Goes(e, save)
  BY BeginsCounts DEF ReadForEdit
<1>2. VersionsFit' /\ Grows /\ versions' = versions
  BY <1>1, SameVersions DEF tables
<1>3. NextNumber(t) = Len(versions[t]) + 1 /\ Len(versions[t]) \in Nat
  BY NextNumberFits DEF VersionsInv
<1>4. Or(fields, template[t].fields) \in Contents
  BY DEF VersionsInv, RowsFit, Or
<1>5. capture \in Call
  <2>1. NextNumber(t) \in Nat \ {0}
    BY <1>3
  <2>2. capture \in [step : {"capture"}, template : Templates, number : Nat \ {0},
                     captured : Contents, fields : Contents \cup {Unsaid},
                     status : TemplateStatus \cup {Unsaid}]
    BY <1>4, <2>1
  <2>3. QED
    BY <2>2 DEF Call
<1>6. save \in Call
  <2>1. save \in [step : {"save"}, template : Templates, fields : Contents \cup {Unsaid},
                  status : TemplateStatus \cup {Unsaid}]
    OBVIOUS
  <2>2. QED
    BY <2>1 DEF Call
<1>7. /\ capture.step = "capture" /\ capture.number =< Len(versions'[capture.template]) + 1
      /\ save.step = "save"
  BY <1>2, <1>3
<1>8. CallsFit'
  <2> HIDE DEF capture, save
  <2>1. QED
    BY <1>1, <1>2, <1>5, <1>6, <1>7, GoesFits
<1>9. DeploymentsFit' /\ RowsFit'
  BY <1>1, <1>2, SameDeployments DEF VersionsInv, RowsFit, tables
<1>10. QED
  BY <1>2, <1>8, <1>9 DEF VersionsInv

LEMMA CaptureEditFits ==
  ASSUME VersionsInv, NEW e \in Editors, CaptureEdit(e)
  PROVE  VersionsInv'
<1> DEFINE c    == call[e]
           save == [step |-> "save", template |-> c.template, fields |-> c.fields,
                    status |-> c.status]
<1>1. /\ c.step = "capture" /\ calls' = calls
      /\ Goes(e, save) \/ Goes(e, Idle)
      /\ UNCHANGED <<template, deployments, widget, clock>>
  BY DEF CaptureEdit, Continues
<1>2. /\ c.template \in Templates /\ c.number \in Nat \ {0} /\ c.captured \in Contents
      /\ c.fields \in Contents \cup {Unsaid} /\ c.status \in TemplateStatus \cup {Unsaid}
  BY <1>1, CallFields DEF VersionsInv, CallsFit
<1>3. c.number =< Len(versions[c.template]) + 1
  BY <1>1 DEF VersionsInv, CallsFit, CallsKnow
<1>4. VersionsFit' /\ Grows
  <2>1. CASE Free(c.template, c.number)
    <3>1. Inserted(c.template, c.number, c.captured)
      BY <2>1 DEF CaptureEdit
    <3>2. QED
      BY <1>2, <1>3, <2>1, <3>1, InsertedFits DEF VersionsInv
  <2>2. CASE ~Free(c.template, c.number)
    BY <2>2, SameVersions DEF CaptureEdit
  <2>3. QED
    BY <2>1, <2>2
<1>5. save \in Call /\ save.step = "save"
  <2>1. save \in [step : {"save"}, template : Templates, fields : Contents \cup {Unsaid},
                  status : TemplateStatus \cup {Unsaid}]
    BY <1>2
  <2>2. QED
    BY <2>1 DEF Call
<1>6. CallsFit'
  <2> HIDE DEF save
  <2>1. calls' \in 0 .. MaxCalls
    BY <1>1 DEF VersionsInv, CallsFit
  <2>2. QED
    BY <1>1, <1>4, <1>5, <2>1, GoesFits, GoesIdle
<1>7. DeploymentsFit'
  BY <1>1, <1>4, SameDeployments
<1>8. QED
  BY <1>1, <1>4, <1>6, <1>7 DEF VersionsInv, RowsFit

LEMMA SaveTemplateFits ==
  ASSUME VersionsInv, NEW e \in Editors, SaveTemplate(e)
  PROVE  VersionsInv'
<1> DEFINE c == call[e]
           t == template[c.template]
<1>1. /\ c.step = "save" /\ Goes(e, Idle) /\ calls' = calls
      /\ UNCHANGED <<versions, deployments, widget, clock>>
      /\ template' = [template EXCEPT ![c.template] =
           [status |-> Or(c.status, @.status), fields |-> Or(c.fields, @.fields)]]
  BY DEF SaveTemplate, Continues
<1>2. /\ c.template \in Templates
      /\ c.fields \in Contents \cup {Unsaid} /\ c.status \in TemplateStatus \cup {Unsaid}
  BY <1>1, CallFields DEF VersionsInv, CallsFit
<1>3. VersionsFit' /\ Grows
  BY <1>1, SameVersions
<1>4. Or(c.status, t.status) \in TemplateStatus /\ Or(c.fields, t.fields) \in Contents
  BY <1>2 DEF VersionsInv, RowsFit, Or
<1>5. template' \in [Templates -> [status : TemplateStatus, fields : Contents]]
  BY <1>1, <1>2, <1>4 DEF VersionsInv, RowsFit
<1>6. CallsFit'
  BY <1>1, <1>3, GoesIdle DEF VersionsInv, CallsFit
<1>7. DeploymentsFit'
  BY <1>1, <1>3, SameDeployments
<1>8. QED
  BY <1>1, <1>3, <1>5, <1>6, <1>7 DEF VersionsInv, RowsFit

\* A call of one statement leaves the calls in flight as they are.
LEMMA SameCalls ==
  ASSUME VersionsInv, UNCHANGED <<versions, call>>, calls' \in 0 .. MaxCalls
  PROVE  CallsFit'
BY DEF VersionsInv, CallsFit, CallsKnow, Exists

LEMMA RemoveTemplateFits ==
  ASSUME VersionsInv, NEW e \in Editors, NEW t \in Templates, RemoveTemplate(e, t)
  PROVE  VersionsInv'
<1>1. /\ calls' \in 0 .. MaxCalls
      /\ template' = [template EXCEPT ![t].status = "ARCHIVED"]
      /\ UNCHANGED <<versions, deployments, widget, clock, call>>
  BY BeginsCounts DEF RemoveTemplate
<1>2. VersionsFit' /\ Grows
  BY <1>1, SameVersions
<1>3. template' \in [Templates -> [status : TemplateStatus, fields : Contents]]
  BY <1>1 DEF VersionsInv, RowsFit, TemplateStatus
<1>4. CallsFit' /\ DeploymentsFit'
  BY <1>1, <1>2, SameCalls, SameDeployments
<1>5. QED
  BY <1>1, <1>2, <1>3, <1>4 DEF VersionsInv, RowsFit

LEMMA EditVersionsFits ==
  ASSUME VersionsInv, NEW e \in Editors, EditVersions(e)
  PROVE  VersionsInv'
BY ReadForVersionFits, CreateVersionFits, ReadForEditFits, CaptureEditFits,
   SaveTemplateFits, RemoveTemplateFits DEF EditVersions
(***************************************************************************)
(* Steps that write deployments and widgets.                               *)
(***************************************************************************)
\* A step that only moves one call on.
LEMMA OnlyGoesFits ==
  ASSUME VersionsInv, UNCHANGED tables, calls' \in 0 .. MaxCalls,
         NEW e \in Editors, NEW to \in Call, Goes(e, to),
         to.step \notin {"version", "capture"},
         to.step \in {"deploy", "publish", "found", "cleared"} => Exists(to.version)
  PROVE  VersionsInv'
<1>1. VersionsFit' /\ Grows /\ versions' = versions
  BY SameVersions DEF tables
<1>2. CallsFit'
  BY <1>1, GoesFits DEF Exists
<1>3. DeploymentsFit' /\ RowsFit'
  BY <1>1, SameDeployments DEF VersionsInv, RowsFit, tables
<1>4. QED
  BY <1>1, <1>2, <1>3 DEF VersionsInv

\* A step that writes deployments, whoever calls.
LEMMA WritesDeploymentsFits ==
  ASSUME VersionsInv, UNCHANGED <<template, versions, widget>>, clock' \in Nat,
         CallsFit', deployments' \subseteq Deployment,
         \A d, x \in deployments' : Key(d) = Key(x) => d = x,
         \A d \in deployments' : Exists(d.version)
  PROVE  VersionsInv'
<1>1. VersionsFit' /\ RowsFit'
  BY SameVersions DEF VersionsInv, RowsFit
<1>2. DeploymentsFit'
  BY DEF DeploymentsFit, Exists, Key
<1>3. QED
  BY <1>1, <1>2 DEF VersionsInv

LEMMA NextStamp ==
  ASSUME VersionsInv
  PROVE  Stamp \in Nat
BY DEF VersionsInv, RowsFit, Stamp

LEMMA ReadForDeployFits ==
  ASSUME VersionsInv, NEW e \in Editors, NEW v \in Rows, NEW app \in Apps,
         NEW active \in BOOLEAN, ReadForDeploy(e, v, app, active)
  PROVE  VersionsInv'
<1> DEFINE to == [step |-> "deploy", version |-> v, app |-> app, active |-> active]
<1>1. calls' \in 0 .. MaxCalls /\ Goes(e, to) /\ UNCHANGED tables /\ Exists(v)
  BY BeginsCounts DEF ReadForDeploy
<1>2. v \in VersionId
  <2>1. PICK t \in Templates : v \in {<<t, i>> : i \in DOMAIN versions[t]}
    BY DEF Rows
  <2>2. DOMAIN versions[t] = 1 .. Len(versions[t]) /\ Len(versions[t]) \in Nat
    BY DEF VersionsInv, VersionsFit
  <2>3. DOMAIN versions[t] \subseteq Nat \ {0}
    BY <2>2
  <2>4. QED
    BY <2>1, <2>3 DEF VersionId
<1>3. to \in Call
  <2>1. to \in [step : {"deploy"}, version : VersionId, app : Apps, active : BOOLEAN]
    BY <1>2
  <2>2. QED
    BY <2>1 DEF Call
<1>4. to.step = "deploy" /\ to.version = v
  OBVIOUS
<1>5. QED
  <2> HIDE DEF to
  <2>1. QED
    BY <1>1, <1>3, <1>4, OnlyGoesFits

LEMMA DeployFits ==
  ASSUME VersionsInv, NEW e \in Editors, Deploy(e)
  PROVE  VersionsInv'
<1> DEFINE c   == call[e]
           new == [version |-> c.version, app |-> c.app, status |-> "DEPLOYED",
                   active |-> c.active, at |-> Stamp, published |-> FALSE]
<1>1. /\ c.step = "deploy" /\ Goes(e, Idle) /\ calls' = calls /\ clock' = Stamp
      /\ UNCHANGED <<template, versions, widget>>
      /\ deployments' = IF Deployed(<<c.version, c.app>>) THEN deployments
                        ELSE deployments \cup {new}
  BY DEF Deploy, Continues, Stamps
<1>2. c.version \in VersionId /\ c.app \in Apps /\ c.active \in BOOLEAN
  BY <1>1, CallFields DEF VersionsInv, CallsFit
<1>3. Exists(c.version)
  BY <1>1 DEF VersionsInv, CallsFit, CallsKnow
<1>4. CallsFit'
  BY <1>1, SameVersions, GoesIdle DEF VersionsInv, CallsFit
<1>5. new \in Deployment
  BY <1>2, NextStamp DEF Deployment, DeploymentStatus
<1>6. Key(new) = <<c.version, c.app>> /\ new.version = c.version
  BY DEF Key
<1>7. /\ deployments' \subseteq Deployment
      /\ \A d, x \in deployments' : Key(d) = Key(x) => d = x
      /\ \A d \in deployments' : Exists(d.version)
  <2> HIDE DEF new
  <2>1. CASE Deployed(<<c.version, c.app>>)
    BY <1>1, <2>1 DEF VersionsInv, DeploymentsFit
  <2>2. CASE ~Deployed(<<c.version, c.app>>)
    <3>1. \A d \in deployments : Key(d) # Key(new)
      BY <1>6, <2>2 DEF Deployed
    <3>2. deployments' = deployments \cup {new}
      BY <1>1, <2>2
    <3>3. QED
      BY <1>3, <1>5, <1>6, <3>1, <3>2 DEF VersionsInv, DeploymentsFit
  <2>3. QED
    BY <2>1, <2>2
<1>8. QED
  BY <1>1, <1>4, <1>7, NextStamp, WritesDeploymentsFits

LEMMA UpdateDeploymentFits ==
  ASSUME VersionsInv, NEW e \in Editors, NEW d \in deployments,
         NEW status \in DeploymentStatus, NEW active \in BOOLEAN,
         UpdateDeployment(e, d, status, active)
  PROVE  VersionsInv'
<1> DEFINE new == [d EXCEPT !.status = status, !.active = active, !.published = FALSE]
<1>1. /\ calls' \in 0 .. MaxCalls
      /\ deployments' = (deployments \ {d}) \cup {new}
      /\ UNCHANGED <<template, versions, widget, clock, call>>
  BY BeginsCounts DEF UpdateDeployment
<1>2. d \in Deployment /\ Exists(d.version)
  BY DEF VersionsInv, DeploymentsFit
<1>3. new \in Deployment /\ Key(new) = Key(d) /\ new.version = d.version
  BY <1>2 DEF Deployment, Key
<1>4. /\ deployments' \subseteq Deployment
      /\ \A y, x \in deployments' : Key(y) = Key(x) => y = x
      /\ \A x \in deployments' : Exists(x.version)
  <2> HIDE DEF new
  <2>1. QED
    BY <1>1, <1>2, <1>3 DEF VersionsInv, DeploymentsFit
<1>5. CallsFit' /\ clock' \in Nat
  BY <1>1, SameCalls DEF VersionsInv, RowsFit
<1>6. QED
  BY <1>1, <1>4, <1>5, WritesDeploymentsFits

LEMMA ReadForRollbackFits ==
  ASSUME VersionsInv, NEW e \in Editors, NEW d \in deployments, ReadForRollback(e, d)
  PROVE  VersionsInv'
<1> DEFINE to == [step |-> "rollback", key |-> Key(d)]
<1>1. calls' \in 0 .. MaxCalls /\ Goes(e, to) /\ UNCHANGED tables
  BY BeginsCounts DEF ReadForRollback
<1>2. Key(d) \in VersionId \X Apps
  BY DEF VersionsInv, DeploymentsFit, Deployment, Key
<1>3. to \in Call /\ to.step = "rollback"
  <2>1. to \in [step : {"rollback"}, key : VersionId \X Apps]
    BY <1>2
  <2>2. QED
    BY <2>1 DEF Call
<1>4. QED
  <2> HIDE DEF to
  <2>1. QED
    BY <1>1, <1>3, OnlyGoesFits

LEMMA RollBackFits ==
  ASSUME VersionsInv, NEW e \in Editors, RollBack(e)
  PROVE  VersionsInv'
<1> DEFINE key == call[e].key
           To(d) == IF Key(d) = key
                    THEN [d EXCEPT !.status = "ROLLED_BACK", !.active = FALSE] ELSE d
<1>1. /\ Goes(e, Idle) /\ calls' = calls
      /\ deployments' = {To(d) : d \in deployments}
      /\ UNCHANGED <<template, versions, widget, clock>>
  BY DEF RollBack, Continues
<1>2. \A d \in deployments : /\ To(d) \in Deployment /\ Key(To(d)) = Key(d)
                             /\ To(d).version = d.version
  <2> SUFFICES ASSUME NEW d \in deployments
               PROVE  /\ To(d) \in Deployment /\ Key(To(d)) = Key(d)
                      /\ To(d).version = d.version
    OBVIOUS
  <2>1. d \in Deployment
    BY DEF VersionsInv, DeploymentsFit
  <2>2. LET new == [d EXCEPT !.status = "ROLLED_BACK", !.active = FALSE]
        IN  new \in Deployment /\ Key(new) = Key(d) /\ new.version = d.version
    BY <2>1 DEF Deployment, DeploymentStatus, Key
  <2>3. QED
    BY <2>1, <2>2
<1>3. /\ deployments' \subseteq Deployment
      /\ \A y, x \in deployments' : Key(y) = Key(x) => y = x
      /\ \A x \in deployments' : Exists(x.version)
  <2> HIDE DEF To
  <2>1. QED
    BY <1>1, <1>2 DEF VersionsInv, DeploymentsFit
<1>4. CallsFit' /\ clock' \in Nat
  BY <1>1, SameVersions, GoesIdle DEF VersionsInv, CallsFit, RowsFit
<1>5. QED
  BY <1>1, <1>3, <1>4, WritesDeploymentsFits

LEMMA RemoveDeploymentFits ==
  ASSUME VersionsInv, NEW e \in Editors, NEW d \in deployments, RemoveDeployment(e, d)
  PROVE  VersionsInv'
<1>1. /\ calls' \in 0 .. MaxCalls /\ deployments' = deployments \ {d}
      /\ UNCHANGED <<template, versions, widget, clock, call>>
  BY BeginsCounts DEF RemoveDeployment
<1>2. /\ deployments' \subseteq Deployment
      /\ \A y, x \in deployments' : Key(y) = Key(x) => y = x
      /\ \A x \in deployments' : Exists(x.version)
  BY <1>1 DEF VersionsInv, DeploymentsFit
<1>3. CallsFit' /\ clock' \in Nat
  BY <1>1, SameCalls DEF VersionsInv, RowsFit
<1>4. QED
  BY <1>1, <1>2, <1>3, WritesDeploymentsFits

LEMMA EditDeploymentsFits ==
  ASSUME VersionsInv, NEW e \in Editors, EditDeployments(e)
  PROVE  VersionsInv'
BY ReadForDeployFits, DeployFits, UpdateDeploymentFits, ReadForRollbackFits,
   RollBackFits, RemoveDeploymentFits DEF EditDeployments
(***************************************************************************)
(* Publishing.                                                             *)
(***************************************************************************)
Publishing == [step : {"publish", "found", "cleared"}, widget : Widgets,
               version : VersionId, app : Apps, rows : SUBSET (VersionId \X Apps)]

LEMMA PublishingFits ==
  ASSUME VersionsInv, NEW e \in Editors, call[e].step \in {"publish", "found", "cleared"}
  PROVE  /\ call[e] \in Publishing
         /\ Exists(call[e].version)
BY CallFields DEF VersionsInv, CallsFit, CallsKnow, Publishing

LEMMA SupersededFits ==
  ASSUME VersionsInv, NEW v, NEW app
  PROVE  Superseded(v, app) \in SUBSET (VersionId \X Apps)
<1>1. \A d \in deployments : Key(d) \in VersionId \X Apps
  BY DEF VersionsInv, DeploymentsFit, Deployment, Key
<1>2. QED
  BY <1>1 DEF Superseded

LEMMA ReadForPublishFits ==
  ASSUME VersionsInv, NEW e \in Editors, NEW w \in Widgets, NEW v \in Rows,
         ReadForPublish(e, w, v)
  PROVE  VersionsInv'
<1> DEFINE to == [step |-> "publish", widget |-> w, version |-> v,
                  app |-> widget[w].app, rows |-> {}]
<1>1. calls' \in 0 .. MaxCalls /\ Goes(e, to) /\ UNCHANGED tables /\ Exists(v)
  BY BeginsCounts DEF ReadForPublish
<1>2. v \in VersionId
  <2>1. PICK t \in Templates : v \in {<<t, i>> : i \in DOMAIN versions[t]}
    BY DEF Rows
  <2>2. DOMAIN versions[t] = 1 .. Len(versions[t]) /\ Len(versions[t]) \in Nat
    BY DEF VersionsInv, VersionsFit
  <2>3. DOMAIN versions[t] \subseteq Nat \ {0}
    BY <2>2
  <2>4. QED
    BY <2>1, <2>3 DEF VersionId
<1>3. widget[w].app \in Apps
  BY DEF VersionsInv, RowsFit
<1>4. to \in Call
  <2>1. to \in Publishing
    BY <1>2, <1>3 DEF Publishing
  <2>2. QED
    BY <2>1 DEF Call, Publishing
<1>5. to.step = "publish" /\ to.version = v
  OBVIOUS
<1>6. QED
  <2> HIDE DEF to
  <2>1. QED
    BY <1>1, <1>4, <1>5, OnlyGoesFits

LEMMA FindSupersededFits ==
  ASSUME VersionsInv, NEW e \in Editors, FindSuperseded(e)
  PROVE  VersionsInv'
<1> DEFINE c  == call[e]
           to == [c EXCEPT !.step = "found", !.rows = Superseded(c.version, c.app)]
<1>1. c.step = "publish" /\ calls' = calls /\ Goes(e, to) /\ UNCHANGED tables
  BY DEF FindSuperseded, Continues
<1>2. c \in Publishing /\ Exists(c.version)
  BY <1>1, PublishingFits
<1>3. Superseded(c.version, c.app) \in SUBSET (VersionId \X Apps)
  BY SupersededFits
<1>4. to \in Publishing /\ to.step = "found" /\ to.version = c.version
  <2> DEFINE rows == Superseded(c.version, c.app)
  <2> HIDE DEF rows
  <2>1. QED
    BY <1>2, <1>3 DEF Publishing, rows
<1>5. to \in Call
  BY <1>4 DEF Call, Publishing
<1>6. calls' \in 0 .. MaxCalls
  BY <1>1 DEF VersionsInv, CallsFit
<1>7. QED
  <2> HIDE DEF to
  <2>1. QED
    BY <1>1, <1>2, <1>4, <1>5, <1>6, OnlyGoesFits

LEMMA DeactivateFits ==
  ASSUME VersionsInv, NEW e \in Editors, Deactivate(e)
  PROVE  VersionsInv'
<1> DEFINE c    == call[e]
           rows == c.rows \cap Superseded(c.version, c.app)
           to   == [c EXCEPT !.step = "cleared", !.rows = rows]
<1>1. c.step = "found" /\ calls' = calls /\ UNCHANGED tables
  BY DEF Deactivate, Continues
<1>2. c \in Publishing /\ Exists(c.version)
  BY <1>1, PublishingFits
<1>3. Goes(e, to)
  BY <1>2 DEF Deactivate, Continues, Publishing
<1>4. rows \in SUBSET (VersionId \X Apps)
  BY SupersededFits
<1>5. to \in Publishing /\ to.step = "cleared" /\ to.version = c.version
  <2> HIDE DEF rows
  <2>1. QED
    BY <1>2, <1>4 DEF Publishing
<1>6. to \in Call
  BY <1>5 DEF Call, Publishing
<1>7. calls' \in 0 .. MaxCalls
  BY <1>1 DEF VersionsInv, CallsFit
<1>8. QED
  <2> HIDE DEF to
  <2>1. QED
    BY <1>1, <1>2, <1>3, <1>5, <1>6, <1>7, OnlyGoesFits

LEMMA RollbackPublishFits ==
  ASSUME VersionsInv, NEW e \in Editors, RollbackPublish(e)
  PROVE  VersionsInv'
<1>1. Goes(e, Idle) /\ UNCHANGED tables /\ calls' \in 0 .. MaxCalls
  BY DEF RollbackPublish, VersionsInv, CallsFit
<1>2. Idle \in Call /\ Idle.step = "idle"
  BY DEF Call, Idle
<1>3. QED
  BY <1>1, <1>2, OnlyGoesFits

LEMMA CommitPublishFits ==
  ASSUME VersionsInv, NEW e \in Editors, CommitPublish(e)
  PROVE  VersionsInv'
<1> DEFINE c    == call[e]
           key  == <<c.version, c.app>>
           new  == [version |-> c.version, app |-> c.app, status |-> "DEPLOYED",
                    active |-> TRUE, at |-> Stamp, published |-> TRUE]
           rest == {Darkened(d, c.rows) : d \in {x \in deployments : Key(x) # key}}
           row  == [widget[c.widget] EXCEPT !.status = "WIDGET_ACTIVE"]
<1>1. /\ c.step = "cleared" /\ Goes(e, Idle) /\ calls' = calls
      /\ deployments' = rest \cup {new}
      /\ Write(c.widget, row)
      /\ UNCHANGED versionVars
  BY DEF CommitPublish, Continues
<1>2. c \in Publishing /\ Exists(c.version)
  BY <1>1, PublishingFits
<1>3. c.version \in VersionId /\ c.app \in Apps /\ c.widget \in Widgets
  BY <1>2 DEF Publishing
<1>4. new \in Deployment /\ Key(new) = key /\ new.version = c.version
  BY <1>3, NextStamp DEF Deployment, DeploymentStatus, Key
<1>5. \A d \in deployments :
        /\ Darkened(d, c.rows) \in Deployment
        /\ Key(Darkened(d, c.rows)) = Key(d)
        /\ Darkened(d, c.rows).version = d.version
  <2> SUFFICES ASSUME NEW d \in deployments
               PROVE  /\ Darkened(d, c.rows) \in Deployment
                      /\ Key(Darkened(d, c.rows)) = Key(d)
                      /\ Darkened(d, c.rows).version = d.version
    OBVIOUS
  <2>1. d \in Deployment
    BY DEF VersionsInv, DeploymentsFit
  <2>2. LET dark == [d EXCEPT !.active = FALSE]
        IN  dark \in Deployment /\ Key(dark) = Key(d) /\ dark.version = d.version
    BY <2>1 DEF Deployment, Key
  <2>3. QED
    BY <2>1, <2>2 DEF Darkened
<1>6. \A x \in rest : \E d \in deployments :
        /\ x = Darkened(d, c.rows) /\ Key(d) # key
  OBVIOUS
<1>7. DeploymentsFit'
  <2> HIDE DEF new, rest, key
  <2>1. deployments' \subseteq Deployment
    BY <1>1, <1>4, <1>5, <1>6
  <2>2. \A x \in rest : Key(x) # key
    BY <1>5, <1>6
  <2>3. \A y, x \in rest : Key(y) = Key(x) => y = x
    BY <1>5, <1>6 DEF VersionsInv, DeploymentsFit
  <2>4. \A y, x \in deployments' : Key(y) = Key(x) => y = x
    BY <1>1, <1>4, <2>2, <2>3
  <2>5. \A x \in deployments' : Exists(x.version)
    BY <1>1, <1>2, <1>4, <1>5, <1>6 DEF VersionsInv, DeploymentsFit
  <2>6. \A v : Exists(v) <=> v[2] \in DOMAIN versions'[v[1]]
    BY <1>1 DEF Exists, versionVars
  <2>7. QED
    BY <2>1, <2>4, <2>5, <2>6 DEF DeploymentsFit, Exists, Key
<1>8. widget[c.widget] \in [status : WidgetStatus, template : Templates,
                            app : Apps, touched : Nat]
  BY <1>3 DEF VersionsInv, RowsFit
<1>9. [row EXCEPT !.touched = Stamp]
        \in [status : WidgetStatus, template : Templates, app : Apps, touched : Nat]
  BY <1>8, NextStamp DEF WidgetStatus
<1>10. RowsFit'
  <2> HIDE DEF row
  <2>1. /\ widget' = [widget EXCEPT ![c.widget] = [row EXCEPT !.touched = Stamp]]
        /\ clock' = Stamp /\ template' = template
    BY <1>1 DEF Write, Stamps, versionVars
  <2>2. QED
    BY <1>3, <1>9, <2>1, NextStamp DEF VersionsInv, RowsFit
<1>11. VersionsFit' /\ Grows
  BY <1>1, SameVersions DEF versionVars
<1>12. CallsFit'
  BY <1>1, <1>11, GoesIdle DEF VersionsInv, CallsFit
<1>13. QED
  BY <1>7, <1>10, <1>11, <1>12 DEF VersionsInv

LEMMA PublishFits ==
  ASSUME VersionsInv, NEW e \in Editors, Publish(e)
  PROVE  VersionsInv'
BY ReadForPublishFits, FindSupersededFits, DeactivateFits, CommitPublishFits,
   RollbackPublishFits DEF Publish

(***************************************************************************)
(* Widgets.                                                                *)
(***************************************************************************)
LEMMA WriteFits ==
  ASSUME VersionsInv, NEW w \in Widgets, NEW row, Write(w, row),
         row \in [status : WidgetStatus, template : Templates, app : Apps, touched : Nat],
         UNCHANGED <<template, versions, deployments>>, CallsFit'
  PROVE  VersionsInv'
<1>1. VersionsFit' /\ DeploymentsFit'
  BY SameVersions, SameDeployments
<1>2. [row EXCEPT !.touched = Stamp]
        \in [status : WidgetStatus, template : Templates, app : Apps, touched : Nat]
  BY NextStamp
<1>3. RowsFit'
  BY <1>2, NextStamp DEF Write, Stamps, VersionsInv, RowsFit
<1>4. QED
  BY <1>1, <1>3 DEF VersionsInv

LEMMA ReadForEnableFits ==
  ASSUME VersionsInv, NEW e \in Editors, NEW w \in Widgets,
         ReadForEnable(e, w) \/ ReadForDisable(e, w)
  PROVE  VersionsInv'
<1>1. PICK st \in {"WIDGET_ACTIVE", "WIDGET_DISABLED"} :
        Goes(e, [step |-> "enable", widget |-> w, status |-> st])
  BY DEF ReadForEnable, ReadForDisable
<1> DEFINE to == [step |-> "enable", widget |-> w, status |-> st]
<1>2. calls' \in 0 .. MaxCalls /\ UNCHANGED tables
  BY BeginsCounts DEF ReadForEnable, ReadForDisable
<1>3. to \in Call /\ to.step = "enable"
  <2>1. to \in [step : {"enable"}, widget : Widgets, status : WidgetStatus]
    BY DEF WidgetStatus
  <2>2. QED
    BY <2>1 DEF Call
<1>4. QED
  <2> HIDE DEF to
  <2>1. QED
    BY <1>1, <1>2, <1>3, OnlyGoesFits DEF to

LEMMA EditWidgetsFits ==
  ASSUME VersionsInv, NEW e \in Editors, EditWidgets(e)
  PROVE  VersionsInv'
<1> DEFINE WidgetRow == [status : WidgetStatus, template : Templates,
                         app : Apps, touched : Nat]
<1>0. \A w \in Widgets : widget[w] \in WidgetRow
  BY DEF VersionsInv, RowsFit
<1>1. CASE \E w \in Widgets : ReadForEnable(e, w) \/ ReadForDisable(e, w)
  BY <1>1, ReadForEnableFits
<1>2. CASE SetEnabled(e)
  <2> DEFINE c   == call[e]
             row == [widget[c.widget] EXCEPT !.status = c.status]
  <2>1. /\ c.step = "enable" /\ Goes(e, Idle) /\ calls' = calls
        /\ Write(c.widget, row) /\ UNCHANGED <<template, versions, deployments>>
    BY <1>2 DEF SetEnabled, Continues
  <2>2. c.widget \in Widgets /\ c.status \in WidgetStatus
    BY <2>1, CallFields DEF VersionsInv, CallsFit
  <2>3. row \in WidgetRow
    BY <1>0, <2>2
  <2>4. CallsFit'
    BY <2>1, SameVersions, GoesIdle DEF VersionsInv, CallsFit
  <2>5. QED
    <3> HIDE DEF row
    <3>1. QED
      BY <2>1, <2>2, <2>3, <2>4, WriteFits
<1>3. CASE \E w \in Widgets, status \in WidgetStatus \cup {Unsaid}, t \in Templates :
             UpdateWidget(e, w, status, t)
  <2>1. PICK w \in Widgets, status \in WidgetStatus \cup {Unsaid}, t \in Templates :
          UpdateWidget(e, w, status, t)
    BY <1>3
  <2> DEFINE row == [widget[w] EXCEPT !.status = Or(status, @), !.template = t]
  <2>2. /\ calls' \in 0 .. MaxCalls /\ Write(w, row)
        /\ UNCHANGED <<template, versions, deployments, call>>
    BY <2>1, BeginsCounts DEF UpdateWidget
  <2>3. Or(status, widget[w].status) \in WidgetStatus
    BY <1>0 DEF Or
  <2>4. row \in WidgetRow
    BY <1>0, <2>3
  <2>5. CallsFit'
    BY <2>2, SameCalls
  <2>6. QED
    <3> HIDE DEF row
    <3>1. QED
      BY <2>2, <2>4, <2>5, WriteFits
<1>4. CASE \E w \in Widgets : ArchiveWidget(e, w)
  <2>1. PICK w \in Widgets : ArchiveWidget(e, w)
    BY <1>4
  <2> DEFINE row == [widget[w] EXCEPT !.status = "WIDGET_ARCHIVED"]
  <2>2. /\ calls' \in 0 .. MaxCalls /\ Write(w, row)
        /\ UNCHANGED <<template, versions, deployments, call>>
    BY <2>1, BeginsCounts DEF ArchiveWidget
  <2>3. row \in WidgetRow
    BY <1>0 DEF WidgetStatus
  <2>4. CallsFit'
    BY <2>2, SameCalls
  <2>5. QED
    <3> HIDE DEF row
    <3>1. QED
      BY <2>2, <2>3, <2>4, WriteFits
<1>5. QED
  BY <1>1, <1>2, <1>3, <1>4 DEF EditWidgets
(***************************************************************************)
(* The theorems.                                                           *)
(***************************************************************************)
LEMMA VersionsStart == Init => VersionsInv
<1> SUFFICES ASSUME Init PROVE VersionsInv
  OBVIOUS
<1>1. template \in [Templates -> [status : TemplateStatus, fields : Contents]]
  BY StartAssumption DEF Init, TemplateStatus
<1>2. widget \in [Widgets -> [status : WidgetStatus, template : Templates,
                              app : Apps, touched : Nat]]
  BY DEF Init, WidgetStatus
<1>3. VersionsFit
  <2> DEFINE row(t) == [number |-> 1, content |-> template[t].fields]
  <2>1. \A t \in Templates : row(t) \in VersionRow
    BY <1>1 DEF VersionRow
  <2>2. versions = [t \in Templates |-> IF StartsLive THEN <<row(t)>> ELSE <<>>]
    BY DEF Init
  <2>3. \A t \in Templates : versions[t] \in Seq(VersionRow)
    <3> SUFFICES ASSUME NEW t \in Templates PROVE versions[t] \in Seq(VersionRow)
      OBVIOUS
    <3>1. row(t) \in VersionRow
      BY <2>1
    <3>2. <<row(t)>> \in Seq(VersionRow) /\ <<>> \in Seq(VersionRow)
      <4> HIDE DEF row
      <4>1. QED
        BY <3>1
    <3>3. QED
      BY <2>2, <3>2
  <2>4. \A t \in Templates : \A i \in DOMAIN versions[t] : versions[t][i].number = i
    <3> SUFFICES ASSUME NEW t \in Templates, NEW i \in DOMAIN versions[t]
                 PROVE  versions[t][i].number = i
      OBVIOUS
    <3>1. CASE StartsLive
      <4>1. versions[t] = <<row(t)>>
        BY <2>2, <3>1
      <4>2. row(t).number = 1
        OBVIOUS
      <4>3. QED
        <5> HIDE DEF row
        <5>1. QED
          BY <4>1, <4>2
    <3>2. CASE ~StartsLive
      <4>1. versions[t] = <<>>
        BY <2>2, <3>2
      <4>2. QED
        BY <4>1
    <3>3. QED
      BY <3>1, <3>2
  <2>5. versions \in [Templates -> Seq(VersionRow)]
    <3>1. DOMAIN versions = Templates /\ versions = [t \in Templates |-> versions[t]]
      BY <2>2
    <3>2. QED
      BY <2>3, <3>1
  <2>6. QED
    BY <2>4, <2>5 DEF VersionsFit, VersionsNumbered
<1>4. CallsFit
  BY VersionsAssumption DEF Init, CallsFit, CallsKnow, Call, Idle
<1>5. DeploymentsFit
  <2>1. CASE ~StartsLive
    BY <2>1 DEF Init, DeploymentsFit
  <2>2. CASE StartsLive
    <3> DEFINE Row(w) == [version |-> <<widget[w].template, 1>>, app |-> widget[w].app,
                          status |-> "DEPLOYED", active |-> TRUE, at |-> 0,
                          published |-> TRUE]
    <3>1. deployments = {Row(w) : w \in Widgets}
      BY <2>2 DEF Init
    <3>2. \A w \in Widgets : widget[w].template \in Templates /\ widget[w].app \in Apps
      BY <1>2
    <3>3. \A w \in Widgets : Row(w) \in Deployment
      BY <3>2 DEF Deployment, DeploymentStatus, VersionId
    <3>4. \A w, x \in Widgets : Key(Row(w)) = Key(Row(x)) => Row(w) = Row(x)
      BY DEF Key
    <3>5. \A t \in Templates : 1 \in DOMAIN versions[t]
      BY <2>2 DEF Init
    <3>6. \A w \in Widgets : Exists(Row(w).version)
      BY <3>2, <3>5 DEF Exists
    <3>7. QED
      <4> HIDE DEF Row
      <4>1. QED
        BY <3>1, <3>3, <3>4, <3>6 DEF DeploymentsFit
  <2>3. QED
    BY <2>1, <2>2
<1>6. QED
  BY <1>1, <1>2, <1>3, <1>4, <1>5 DEF VersionsInv, RowsFit, Init

LEMMA VersionsStep == VersionsInv /\ [Next]_vars => VersionsInv'
<1> SUFFICES ASSUME VersionsInv, [Next]_vars PROVE VersionsInv'
  OBVIOUS
<1>1. CASE UNCHANGED vars
  <2>1. UNCHANGED <<versions, call, calls, deployments, template, widget, clock>>
    BY <1>1 DEF vars, tables
  <2>2. VersionsFit' /\ DeploymentsFit' /\ RowsFit'
    BY <2>1, SameVersions, SameDeployments DEF VersionsInv, RowsFit
  <2>3. CallsFit'
    BY <2>1, SameCalls DEF VersionsInv, CallsFit
  <2>4. QED
    BY <2>2, <2>3 DEF VersionsInv
<1>2. CASE Next
  BY <1>2, EditVersionsFits, EditDeploymentsFits, PublishFits, EditWidgetsFits
  DEF Next, Staff
<1>3. QED
  BY <1>1, <1>2

LEMMA VersionsAlways == Spec => []VersionsInv
BY VersionsStart, VersionsStep, PTL DEF Spec

\* Every row and call keeps its type, a version is deployed to an application
\* once, and only a version that is there is deployed.
THEOREM VersionsTypeCorrect == Spec => []VersionsTypeOK
<1>1. VersionsInv => VersionsTypeOK
  BY InvImplies
<1>2. QED
  BY <1>1, VersionsAlways, PTL

\* However publications and edits race, the versions of a template are numbered
\* 1, 2, 3 ... in the order they were inserted.
THEOREM VersionsAreNumbered == Spec => []VersionsNumbered
<1>1. VersionsInv => VersionsNumbered
  BY InvImplies
<1>2. QED
  BY <1>1, VersionsAlways, PTL

(***************************************************************************)
(* How many versions are live.                                             *)
(***************************************************************************)
\* A row that counts among the live ones.
Counted(d) == Live(d) /\ d.published

LiveRows(t, app) ==
  {d \in deployments : Live(d) /\ d.published /\ d.app = app /\ d.version[1] = t}

LiveKeys(t, app) == {Key(d) : d \in LiveRows(t, app)}

\* The publications of t to app whose updateMany has read its rows.
Publishers(t, app) ==
  {e \in Editors : /\ call[e].step \in {"found", "cleared"}
                   /\ call[e].version[1] = t
                   /\ call[e].app = app}

\* What is dark, or e's own, once e has committed.
Covers(e) == call[e].rows \cup {<<call[e].version, call[e].app>>}

Uncovered(t, app, S) == LiveKeys(t, app) \ UNION {Covers(e) : e \in S}

\* Whichever of the publications under way commit, what they leave live of the
\* others' and what they publish is no more than there are editors.
LiveCounted ==
  \A t \in Templates, app \in Apps :
    /\ IsFiniteSet(LiveKeys(t, app))
    /\ \A S \in SUBSET Publishers(t, app) :
         Cardinality(Uncovered(t, app, S)) + Cardinality(S) =< Cardinality(Editors)

LEMMA SomeEditors ==
  /\ Cardinality(Editors) \in Nat
  /\ \A S \in SUBSET Editors :
       IsFiniteSet(S) /\ Cardinality(S) \in Nat /\ Cardinality(S) =< Cardinality(Editors)
BY VersionsAssumption, FS_CardinalityType, FS_Subset

LEMMA AtMostOne ==
  ASSUME NEW x, NEW T \in SUBSET {x}
  PROVE  IsFiniteSet(T) /\ Cardinality(T) \in Nat /\ Cardinality(T) =< 1
<1>1. IsFiniteSet({x}) /\ Cardinality({x}) = 1
  BY FS_Singleton
<1>2. QED
  BY <1>1, FS_Subset, FS_CardinalityType

LEMMA AtMostOneMore ==
  ASSUME NEW T, NEW x, NEW U \in SUBSET (T \cup {x}), IsFiniteSet(T)
  PROVE  /\ IsFiniteSet(U)
         /\ Cardinality(U) \in Nat /\ Cardinality(T) \in Nat
         /\ Cardinality(U) =< Cardinality(T) + 1
<1>1. Cardinality(T) \in Nat
  BY FS_CardinalityType
<1>2. IsFiniteSet(T \cup {x}) /\ Cardinality(T \cup {x}) =< Cardinality(T) + 1
  <2>1. CASE x \in T
    BY <1>1, <2>1, T \cup {x} = T
  <2>2. CASE x \notin T
    <3>1. IsFiniteSet(T \cup {x})
      BY FS_AddElement
    <3>2. Cardinality(T \cup {x}) = Cardinality(T) + 1
      BY <2>2, FS_AddElement
    <3>3. QED
      BY <1>1, <3>1, <3>2
  <2>3. QED
    BY <2>1, <2>2
<1>3. /\ Cardinality(T \cup {x}) \in Nat
      /\ IsFiniteSet(U) /\ Cardinality(U) \in Nat
      /\ Cardinality(U) =< Cardinality(T \cup {x})
  BY <1>2, FS_Subset, FS_CardinalityType
<1>4. QED
  BY <1>1, <1>2, <1>3

LEMMA UncoveredFinite ==
  ASSUME LiveCounted, NEW t \in Templates, NEW app \in Apps, NEW S
  PROVE  IsFiniteSet(Uncovered(t, app, S)) /\ Cardinality(Uncovered(t, app, S)) \in Nat
<1>1. IsFiniteSet(LiveKeys(t, app)) /\ Uncovered(t, app, S) \in SUBSET LiveKeys(t, app)
  BY DEF LiveCounted, Uncovered
<1>2. QED
  BY <1>1, FS_Subset, FS_CardinalityType

\* A step that lights nothing, and leaves to each publication that goes on what
\* it will darken of what is still live.
LEMMA ShrinkKeepsCount ==
  ASSUME LiveCounted,
         \A t \in Templates, app \in Apps :
           /\ LiveKeys(t, app)' \subseteq LiveKeys(t, app)
           /\ Publishers(t, app)' \subseteq Publishers(t, app)
           /\ \A e \in Publishers(t, app)' :
                LiveKeys(t, app)' \cap Covers(e) \subseteq Covers(e)'
  PROVE  LiveCounted'
<1> SUFFICES ASSUME NEW t \in Templates, NEW app \in Apps
             PROVE  /\ IsFiniteSet(LiveKeys(t, app)')
                    /\ \A S \in SUBSET Publishers(t, app)' :
                         Cardinality(Uncovered(t, app, S)') + Cardinality(S)
                           =< Cardinality(Editors)
  BY DEF LiveCounted
<1>1. IsFiniteSet(LiveKeys(t, app)')
  BY FS_Subset DEF LiveCounted
<1>2. ASSUME NEW S \in SUBSET Publishers(t, app)'
      PROVE  Cardinality(Uncovered(t, app, S)') + Cardinality(S) =< Cardinality(Editors)
  <2>1. S \in SUBSET Publishers(t, app) /\ S \in SUBSET Editors
    BY DEF Publishers
  <2>2. Uncovered(t, app, S)' \in SUBSET Uncovered(t, app, S)
    BY DEF Uncovered
  <2>3. /\ Cardinality(Uncovered(t, app, S)') =< Cardinality(Uncovered(t, app, S))
        /\ Cardinality(Uncovered(t, app, S)') \in Nat
        /\ Cardinality(Uncovered(t, app, S)) \in Nat
    BY <2>2, UncoveredFinite, FS_Subset, FS_CardinalityType
  <2>4. Cardinality(Uncovered(t, app, S)) + Cardinality(S) =< Cardinality(Editors)
    BY <2>1 DEF LiveCounted
  <2>5. QED
    BY <2>1, <2>3, <2>4, SomeEditors
<1>3. QED
  BY <1>1, <1>2

\* The same for the steps of calls that do not publish.
LEMMA OthersKeepCount ==
  ASSUME LiveCounted,
         \A e \in Editors :
           call'[e] = call[e] \/ call'[e].step \notin {"found", "cleared"},
         \A d \in deployments' : Counted(d) => d \in deployments
  PROVE  LiveCounted'
<1>1. ASSUME NEW t \in Templates, NEW app \in Apps
      PROVE  /\ LiveKeys(t, app)' \subseteq LiveKeys(t, app)
             /\ Publishers(t, app)' \subseteq Publishers(t, app)
             /\ \A e \in Publishers(t, app)' : Covers(e)' = Covers(e)
  <2>1. LiveRows(t, app)' \subseteq LiveRows(t, app)
    BY DEF LiveRows, Counted, Live
  <2>2. LiveKeys(t, app)' \subseteq LiveKeys(t, app)
    BY <2>1 DEF LiveKeys, Key
  <2>3. QED
    BY <2>2 DEF Publishers, Covers
<1>2. QED
  BY <1>1, ShrinkKeepsCount

LEMMA EditVersionsKeepsCount ==
  ASSUME VersionsInv, LiveCounted, NEW e \in Editors, EditVersions(e)
  PROVE  LiveCounted'
<1>1. call \in [Editors -> Call]
  BY DEF VersionsInv, CallsFit
<1>2. deployments' = deployments
  BY DEF EditVersions, ReadForVersion, CreateVersion, ReadForEdit, CaptureEdit, SaveTemplate,
         RemoveTemplate, tables
<1>3. call' = call \/ \E to : /\ to.step \in {"version", "capture", "save", "idle"}
                              /\ Goes(e, to)
  <2>1. CASE \E t \in Templates, content \in Contents : ReadForVersion(e, t, content)
    BY <2>1 DEF ReadForVersion
  <2>2. CASE CreateVersion(e)
    BY <2>2 DEF CreateVersion, Continues, Idle
  <2>3. CASE \E t \in Templates, fields \in Contents \cup {Unsaid},
                status \in TemplateStatus \cup {Unsaid} : ReadForEdit(e, t, fields, status)
    BY <2>3 DEF ReadForEdit
  <2>4. CASE CaptureEdit(e)
    BY <2>4 DEF CaptureEdit, Continues, Idle
  <2>5. CASE SaveTemplate(e)
    BY <2>5 DEF SaveTemplate, Continues, Idle
  <2>6. CASE \E t \in Templates : RemoveTemplate(e, t)
    BY <2>6 DEF RemoveTemplate
  <2>7. QED
    BY <2>1, <2>2, <2>3, <2>4, <2>5, <2>6 DEF EditVersions
<1>4. \A x \in Editors : call'[x] = call[x] \/ call'[x].step \notin {"found", "cleared"}
  BY <1>1, <1>3 DEF Goes
<1>5. QED
  BY <1>2, <1>4, OthersKeepCount

LEMMA EditDeploymentsKeepsCount ==
  ASSUME VersionsInv, LiveCounted, NEW e \in Editors, EditDeployments(e)
  PROVE  LiveCounted'
<1>1. call \in [Editors -> Call]
  BY DEF VersionsInv, CallsFit
<1> DEFINE Quiet == call' = call \/ \E to : to.step \in {"deploy", "rollback", "idle"} /\ Goes(e, to)
           Dark  == \A d \in deployments' : Counted(d) => d \in deployments
<1>2. CASE \E v \in Rows, app \in Apps, active \in BOOLEAN : ReadForDeploy(e, v, app, active)
  <2>1. Quiet
    BY <1>2 DEF ReadForDeploy
  <2>2. Dark
    BY <1>2 DEF ReadForDeploy, tables
  <2>3. QED
    BY <1>1, <2>1, <2>2, OthersKeepCount DEF Goes
<1>3. CASE Deploy(e)
  <2>1. Quiet
    BY <1>3 DEF Deploy, Continues, Idle
  <2>2. Dark
    BY <1>3 DEF Deploy, Counted
  <2>3. QED
    BY <1>1, <2>1, <2>2, OthersKeepCount DEF Goes
<1>4. CASE \E d \in deployments, status \in DeploymentStatus, active \in BOOLEAN :
             UpdateDeployment(e, d, status, active)
  <2>1. PICK d \in deployments, status \in DeploymentStatus, active \in BOOLEAN :
          UpdateDeployment(e, d, status, active)
    BY <1>4
  <2> DEFINE new == [d EXCEPT !.status = status, !.active = active, !.published = FALSE]
  <2>2. deployments' = (deployments \ {d}) \cup {new}
    BY <2>1 DEF UpdateDeployment
  <2>3. ~new.published
    BY DEF VersionsInv, DeploymentsFit, Deployment
  <2>4. Dark
    <3> HIDE DEF new
    <3>1. QED
      BY <2>2, <2>3 DEF Counted
  <2>5. QED
    BY <2>1, <2>4, OthersKeepCount DEF UpdateDeployment
<1>5. CASE \E d \in deployments : ReadForRollback(e, d)
  <2>1. Quiet
    BY <1>5 DEF ReadForRollback
  <2>2. Dark
    BY <1>5 DEF ReadForRollback, tables
  <2>3. QED
    BY <1>1, <2>1, <2>2, OthersKeepCount DEF Goes
<1>6. CASE RollBack(e)
  <2> DEFINE Off(d) == [d EXCEPT !.status = "ROLLED_BACK", !.active = FALSE]
             To(d)  == IF Key(d) = call[e].key THEN Off(d) ELSE d
  <2>0. Goes(e, Idle) /\ Idle.step = "idle"
    BY <1>6 DEF RollBack, Continues, Idle
  <2>1. Quiet
    BY <2>0
  <2>2. deployments' = {To(d) : d \in deployments}
    BY <1>6 DEF RollBack
  <2>3. \A d \in deployments : ~Live(Off(d))
    BY DEF VersionsInv, DeploymentsFit, Deployment, Live
  <2>4. \A d \in deployments : To(d) = d \/ ~Live(To(d))
    BY <2>3
  <2>5. Dark
    <3> HIDE DEF To
    <3>1. QED
      BY <2>2, <2>4 DEF Counted
  <2>6. QED
    BY <1>1, <2>1, <2>5, OthersKeepCount DEF Goes
<1>7. CASE \E d \in deployments : RemoveDeployment(e, d)
  BY <1>7, OthersKeepCount DEF RemoveDeployment
<1>8. QED
  BY <1>2, <1>3, <1>4, <1>5, <1>6, <1>7 DEF EditDeployments

LEMMA EditWidgetsKeepsCount ==
  ASSUME VersionsInv, LiveCounted, NEW e \in Editors, EditWidgets(e)
  PROVE  LiveCounted'
<1>1. call \in [Editors -> Call]
  BY DEF VersionsInv, CallsFit
<1>2. deployments' = deployments
  BY DEF EditWidgets, ReadForEnable, ReadForDisable, SetEnabled, UpdateWidget, ArchiveWidget,
         tables
<1>3. call' = call \/ \E to : to.step \in {"enable", "idle"} /\ Goes(e, to)
  <2>1. CASE \E w \in Widgets : ReadForEnable(e, w) \/ ReadForDisable(e, w)
    BY <2>1 DEF ReadForEnable, ReadForDisable
  <2>2. CASE SetEnabled(e)
    <3>1. Goes(e, Idle) /\ Idle.step = "idle"
      BY <2>2 DEF SetEnabled, Continues, Idle
    <3>2. QED
      BY <3>1
  <2>3. CASE \E w \in Widgets, status \in WidgetStatus \cup {Unsaid}, t \in Templates :
               UpdateWidget(e, w, status, t)
    BY <2>3 DEF UpdateWidget
  <2>4. CASE \E w \in Widgets : ArchiveWidget(e, w)
    BY <2>4 DEF ArchiveWidget
  <2>5. QED
    BY <2>1, <2>2, <2>3, <2>4 DEF EditWidgets
<1>4. \A x \in Editors : call'[x] = call[x] \/ call'[x].step \notin {"found", "cleared"}
  BY <1>1, <1>3 DEF Goes
<1>5. QED
  BY <1>2, <1>4, OthersKeepCount

LEMMA FindSupersededKeepsCount ==
  ASSUME VersionsInv, LiveCounted, NEW e \in Editors, FindSuperseded(e)
  PROVE  LiveCounted'
<1> DEFINE c  == call[e]
           to == [c EXCEPT !.step = "found", !.rows = Superseded(c.version, c.app)]
<1>1. c.step = "publish" /\ Goes(e, to) /\ deployments' = deployments
  BY DEF FindSuperseded, Continues, tables
<1>2. c \in Publishing /\ call \in [Editors -> Call]
  BY <1>1, PublishingFits DEF VersionsInv, CallsFit
<1>3. /\ to.step = "found" /\ to.version = c.version /\ to.app = c.app
      /\ to.rows = Superseded(c.version, c.app)
  <2> DEFINE rows == Superseded(c.version, c.app)
  <2> HIDE DEF rows
  <2>1. QED
    BY <1>2 DEF Publishing, rows
<1>4. call'[e] = to /\ \A x \in Editors \ {e} : call'[x] = call[x]
  <2> HIDE DEF to
  <2>1. QED
    BY <1>1, <1>2 DEF Goes
<1> HIDE DEF to
<1> SUFFICES ASSUME NEW t \in Templates, NEW app \in Apps
             PROVE  /\ IsFiniteSet(LiveKeys(t, app)')
                    /\ \A S \in SUBSET Publishers(t, app)' :
                         Cardinality(Uncovered(t, app, S)') + Cardinality(S)
                           =< Cardinality(Editors)
  BY DEF LiveCounted
<1>5. LiveKeys(t, app)' = LiveKeys(t, app)
  BY <1>1 DEF LiveKeys, LiveRows, Live, Key
<1>6. ASSUME NEW S \in SUBSET Publishers(t, app)'
      PROVE  Cardinality(Uncovered(t, app, S)') + Cardinality(S) =< Cardinality(Editors)
  <2>1. CASE e \in S
    <3>1. c.version[1] = t /\ c.app = app
      BY <1>3, <1>4, <2>1 DEF Publishers
    <3>2. LiveKeys(t, app) \subseteq Covers(e)'
      <4> SUFFICES ASSUME NEW d \in LiveRows(t, app)
                   PROVE  Key(d) \in Superseded(c.version, c.app) \cup {<<c.version, c.app>>}
        BY <1>3, <1>4 DEF LiveKeys, Covers
      <4>1. CASE d.version = c.version
        BY <3>1, <4>1 DEF LiveRows, Key
      <4>2. CASE d.version # c.version
        BY <3>1, <4>2 DEF LiveRows, Superseded, Live
      <4>3. QED
        BY <4>1, <4>2
    <3>3. Uncovered(t, app, S)' = {}
      BY <1>5, <2>1, <3>2 DEF Uncovered
    <3>4. QED
      BY <3>3, SomeEditors, FS_EmptySet DEF Publishers
  <2>2. CASE e \notin S
    <3>1. S \in SUBSET Publishers(t, app) /\ \A x \in S : Covers(x)' = Covers(x)
      BY <1>4, <2>2 DEF Publishers, Covers
    <3>2. Uncovered(t, app, S)' = Uncovered(t, app, S)
      BY <1>5, <3>1 DEF Uncovered
    <3>3. QED
      BY <3>1, <3>2 DEF LiveCounted
  <2>3. QED
    BY <2>1, <2>2
<1>7. QED
  BY <1>5, <1>6 DEF LiveCounted

\* What updateMany no longer matches is not live any more.
LEMMA DeactivateKeepsCount ==
  ASSUME VersionsInv, LiveCounted, NEW e \in Editors, Deactivate(e)
  PROVE  LiveCounted'
<1> DEFINE c    == call[e]
           rows == c.rows \cap Superseded(c.version, c.app)
           to   == [c EXCEPT !.step = "cleared", !.rows = rows]
<1>1. c.step = "found" /\ deployments' = deployments
  BY DEF Deactivate, tables
<1>2. c \in Publishing /\ call \in [Editors -> Call]
  BY <1>1, PublishingFits DEF VersionsInv, CallsFit
<1>3. Goes(e, to)
  BY <1>2 DEF Deactivate, Continues, Publishing
<1>4. /\ to.step = "cleared" /\ to.version = c.version /\ to.app = c.app
      /\ to.rows = rows
  <2> HIDE DEF rows
  <2>1. QED
    BY <1>2 DEF Publishing
<1>5. call'[e] = to /\ \A x \in Editors \ {e} : call'[x] = call[x]
  <2> HIDE DEF to
  <2>1. QED
    BY <1>2, <1>3 DEF Goes
<1> HIDE DEF to
<1>6. ASSUME NEW t \in Templates, NEW app \in Apps
      PROVE  /\ LiveKeys(t, app)' = LiveKeys(t, app)
             /\ Publishers(t, app)' \subseteq Publishers(t, app)
             /\ \A x \in Publishers(t, app)' :
                  LiveKeys(t, app)' \cap Covers(x) \subseteq Covers(x)'
  <2>1. LiveKeys(t, app)' = LiveKeys(t, app)
    BY <1>1 DEF LiveKeys, LiveRows, Live, Key
  <2>2. Publishers(t, app)' \subseteq Publishers(t, app)
    BY <1>1, <1>4, <1>5 DEF Publishers
  <2>3. ASSUME NEW x \in Publishers(t, app)'
        PROVE  LiveKeys(t, app)' \cap Covers(x) \subseteq Covers(x)'
    <3>1. CASE x # e
      BY <1>5, <3>1 DEF Covers, Publishers
    <3>2. CASE x = e
      <4>1. c.version[1] = t /\ c.app = app
        BY <1>4, <1>5, <3>2 DEF Publishers
      <4>2. Covers(x)' = rows \cup {<<c.version, c.app>>}
        BY <1>4, <1>5, <3>2 DEF Covers
      <4>3. ASSUME NEW d \in LiveRows(t, app), Key(d) \in c.rows
            PROVE  Key(d) \in rows \cup {<<c.version, c.app>>}
        <5>1. CASE d.version = c.version
          BY <4>1, <5>1 DEF LiveRows, Key
        <5>2. CASE d.version # c.version
          BY <4>1, <4>3, <5>2 DEF LiveRows, Superseded, Live
        <5>3. QED
          BY <5>1, <5>2
      <4>4. QED
        <5> HIDE DEF rows
        <5>1. QED
          BY <2>1, <3>2, <4>2, <4>3 DEF Covers, LiveKeys
    <3>3. QED
      BY <3>1, <3>2
  <2>4. QED
    BY <2>1, <2>2, <2>3
<1>7. QED
  BY <1>6, ShrinkKeepsCount
\* The commit of f leaves live what no other publication covers, less what f
\* covered, and its own key.
LEMMA CommitPublishKeepsCount ==
  ASSUME VersionsInv, LiveCounted, NEW f \in Editors, CommitPublish(f)
  PROVE  LiveCounted'
<1> DEFINE c    == call[f]
           key  == <<c.version, c.app>>
           new  == [version |-> c.version, app |-> c.app, status |-> "DEPLOYED",
                    active |-> TRUE, at |-> Stamp, published |-> TRUE]
           rest == {Darkened(d, c.rows) : d \in {x \in deployments : Key(x) # key}}
<1>1. /\ c.step = "cleared" /\ Goes(f, Idle)
      /\ deployments' = rest \cup {new}
  BY DEF CommitPublish, Continues
<1>2. call \in [Editors -> Call]
  BY DEF VersionsInv, CallsFit
<1>3. /\ call'[f].step = "idle"
      /\ \A x \in Editors \ {f} : call'[x] = call[x]
  BY <1>1, <1>2 DEF Goes, Idle
<1>4. new.version = c.version /\ new.app = c.app /\ Key(new) = key
  BY DEF Key
<1>5. \A d \in deployments :
        Live(Darkened(d, c.rows)) => Darkened(d, c.rows) = d /\ Key(d) \notin c.rows
  <2> SUFFICES ASSUME NEW d \in deployments, Live(Darkened(d, c.rows))
               PROVE  Darkened(d, c.rows) = d /\ Key(d) \notin c.rows
    OBVIOUS
  <2>1. ~Live([d EXCEPT !.active = FALSE])
    BY DEF Live, VersionsInv, DeploymentsFit, Deployment
  <2>2. QED
    BY <2>1 DEF Darkened
<1>6. \A d \in deployments' : Live(d) => d = new \/ (d \in deployments /\ Key(d) \notin c.rows)
  <2> HIDE DEF new, key
  <2>1. QED
    BY <1>1, <1>5
<1> HIDE DEF new, rest
<1> SUFFICES ASSUME NEW t \in Templates, NEW app \in Apps
             PROVE  /\ IsFiniteSet(LiveKeys(t, app)')
                    /\ \A S \in SUBSET Publishers(t, app)' :
                         Cardinality(Uncovered(t, app, S)') + Cardinality(S)
                           =< Cardinality(Editors)
  BY DEF LiveCounted
<1>7. \A S \in SUBSET Publishers(t, app)' :
        /\ S \in SUBSET Publishers(t, app) /\ S \in SUBSET Editors /\ f \notin S
        /\ \A x \in S : Covers(x)' = Covers(x)
  BY <1>3 DEF Publishers, Covers
<1>8. CASE c.version[1] = t /\ c.app = app
  <2>1. ASSUME NEW k \in LiveKeys(t, app)'
        PROVE  k = key \/ (k \in LiveKeys(t, app) /\ k \notin c.rows)
    <3>1. PICK d \in deployments' : k = Key(d) /\ Live(d) /\ d.published /\ d.app = app
                                    /\ d.version[1] = t
      BY DEF LiveKeys, LiveRows, Live, Key
    <3>2. CASE d = new
      BY <1>4, <3>1, <3>2
    <3>3. CASE d # new
      BY <1>6, <3>1, <3>3 DEF LiveKeys, LiveRows
    <3>4. QED
      BY <3>2, <3>3
  <2>2. IsFiniteSet(LiveKeys(t, app)')
    <3>1. LiveKeys(t, app)' \in SUBSET (LiveKeys(t, app) \cup {key})
      BY <2>1
    <3>2. IsFiniteSet(LiveKeys(t, app))
      BY DEF LiveCounted
    <3>3. QED
      <4> HIDE DEF key
      <4>1. QED
        BY <3>1, <3>2, AtMostOneMore
  <2>3. ASSUME NEW S \in SUBSET Publishers(t, app)'
        PROVE  Cardinality(Uncovered(t, app, S)') + Cardinality(S) =< Cardinality(Editors)
    <3> DEFINE T == S \cup {f}
    <3>1. T \in SUBSET Publishers(t, app) /\ S \in SUBSET Editors /\ f \notin S
      BY <1>1, <1>7, <1>8 DEF Publishers
    <3>2. Cardinality(T) = Cardinality(S) + 1 /\ Cardinality(S) \in Nat
      BY <3>1, SomeEditors, FS_AddElement
    <3>3. Uncovered(t, app, S)' \in SUBSET (Uncovered(t, app, T) \cup {key})
      <4> SUFFICES ASSUME NEW k \in Uncovered(t, app, S)', k # key
                   PROVE  k \in Uncovered(t, app, T)
        OBVIOUS
      <4>1. k \in LiveKeys(t, app) /\ k \notin Covers(f)
        BY <2>1 DEF Uncovered, Covers
      <4>2. \A x \in S : k \notin Covers(x)
        BY <1>7 DEF Uncovered
      <4>3. QED
        BY <4>1, <4>2 DEF Uncovered
    <3>4. /\ Cardinality(Uncovered(t, app, S)') =< Cardinality(Uncovered(t, app, T)) + 1
          /\ Cardinality(Uncovered(t, app, S)') \in Nat
          /\ Cardinality(Uncovered(t, app, T)) \in Nat
      <4> HIDE DEF key, T
      <4>1. IsFiniteSet(Uncovered(t, app, T))
        BY UncoveredFinite
      <4>2. QED
        BY <3>3, <4>1, AtMostOneMore
    <3>5. Cardinality(Uncovered(t, app, T)) + Cardinality(T) =< Cardinality(Editors)
      BY <3>1 DEF LiveCounted
    <3>6. QED
      BY <3>2, <3>4, <3>5, SomeEditors
  <2>4. QED
    BY <2>2, <2>3
<1>9. CASE ~(c.version[1] = t /\ c.app = app)
  <2>1. LiveKeys(t, app)' \in SUBSET LiveKeys(t, app)
    <3> SUFFICES ASSUME NEW k \in LiveKeys(t, app)' PROVE k \in LiveKeys(t, app)
      OBVIOUS
    <3>1. PICK d \in deployments' : k = Key(d) /\ Live(d) /\ d.published /\ d.app = app
                                    /\ d.version[1] = t
      BY DEF LiveKeys, LiveRows, Live, Key
    <3>2. d # new
      BY <1>4, <1>9, <3>1
    <3>3. QED
      BY <1>6, <3>1, <3>2 DEF LiveKeys, LiveRows
  <2>2. IsFiniteSet(LiveKeys(t, app)')
    BY <2>1, FS_Subset DEF LiveCounted
  <2>3. ASSUME NEW S \in SUBSET Publishers(t, app)'
        PROVE  Cardinality(Uncovered(t, app, S)') + Cardinality(S) =< Cardinality(Editors)
    <3>1. Uncovered(t, app, S)' \in SUBSET Uncovered(t, app, S)
      BY <1>7, <2>1 DEF Uncovered
    <3>2. /\ Cardinality(Uncovered(t, app, S)') =< Cardinality(Uncovered(t, app, S))
          /\ Cardinality(Uncovered(t, app, S)') \in Nat
          /\ Cardinality(Uncovered(t, app, S)) \in Nat
      BY <3>1, UncoveredFinite, FS_Subset, FS_CardinalityType
    <3>3. Cardinality(Uncovered(t, app, S)) + Cardinality(S) =< Cardinality(Editors)
      BY <1>7 DEF LiveCounted
    <3>4. QED
      BY <1>7, <3>2, <3>3, SomeEditors
  <2>4. QED
    BY <2>2, <2>3
<1>10. QED
  BY <1>8, <1>9

LEMMA PublishKeepsCount ==
  ASSUME VersionsInv, LiveCounted, NEW e \in Editors, Publish(e)
  PROVE  LiveCounted'
<1>1. call \in [Editors -> Call]
  BY DEF VersionsInv, CallsFit
<1>2. CASE \E w \in Widgets, v \in Rows : ReadForPublish(e, w, v)
  <2>1. deployments' = deployments /\ \E to : to.step = "publish" /\ Goes(e, to)
    BY <1>2 DEF ReadForPublish, tables
  <2>2. QED
    BY <1>1, <2>1, OthersKeepCount DEF Goes
<1>3. CASE RollbackPublish(e)
  <2>1. deployments' = deployments /\ Goes(e, Idle) /\ Idle.step = "idle"
    BY <1>3 DEF RollbackPublish, tables, Idle
  <2>2. QED
    BY <1>1, <2>1, OthersKeepCount DEF Goes
<1>4. QED
  BY <1>2, <1>3, FindSupersededKeepsCount, DeactivateKeepsCount, CommitPublishKeepsCount
  DEF Publish

\* At the start a template has one version, and nobody publishes.
LEMMA CountStarts ==
  ASSUME Editors # {}, Init
  PROVE  LiveCounted
<1> SUFFICES ASSUME NEW t \in Templates, NEW app \in Apps
             PROVE  /\ IsFiniteSet(LiveKeys(t, app))
                    /\ \A S \in SUBSET Publishers(t, app) :
                         Cardinality(Uncovered(t, app, S)) + Cardinality(S)
                           =< Cardinality(Editors)
  BY DEF LiveCounted
<1>1. LiveKeys(t, app) \in SUBSET {<< <<t, 1>>, app >>}
  <2>1. CASE ~StartsLive
    BY <2>1 DEF Init, LiveKeys, LiveRows
  <2>2. CASE StartsLive
    <3> DEFINE row(w) == [version |-> <<widget[w].template, 1>>, app |-> widget[w].app,
                          status |-> "DEPLOYED", active |-> TRUE, at |-> 0, published |-> TRUE]
    <3>1. deployments = {row(w) : w \in Widgets}
      BY <2>2 DEF Init
    <3>2. \A w \in Widgets : row(w).version[1] = t /\ row(w).app = app
                               => Key(row(w)) = << <<t, 1>>, app >>
      BY DEF Key
    <3>3. QED
      <4> HIDE DEF row
      <4>1. QED
        BY <3>1, <3>2 DEF LiveKeys, LiveRows
  <2>3. QED
    BY <2>1, <2>2
<1>2. IsFiniteSet(LiveKeys(t, app))
  BY <1>1, AtMostOne
<1>3. Publishers(t, app) = {}
  BY DEF Init, Publishers, Idle
<1>4. Cardinality(Uncovered(t, app, {})) \in Nat /\ Cardinality(Uncovered(t, app, {})) =< 1
  <2>1. Uncovered(t, app, {}) \in SUBSET {<< <<t, 1>>, app >>}
    BY <1>1 DEF Uncovered
  <2>2. QED
    BY <2>1, AtMostOne
<1>5. Cardinality(Editors) >= 1
  BY VersionsAssumption, SomeEditors, FS_EmptySet
<1>6. QED
  BY <1>2, <1>3, <1>4, <1>5, SomeEditors, FS_EmptySet

LEMMA CountStep ==
  ASSUME VersionsInv, LiveCounted, [Next]_vars
  PROVE  LiveCounted'
<1>1. CASE UNCHANGED vars
  BY <1>1, OthersKeepCount DEF vars, tables
<1>2. CASE Next
  BY <1>2, EditVersionsKeepsCount, EditDeploymentsKeepsCount, PublishKeepsCount,
     EditWidgetsKeepsCount DEF Next, Staff
<1>3. QED
  BY <1>1, <1>2

\* One row per key: the live rows are no more than their keys.
LEMMA CountImplies ==
  ASSUME VersionsInv, LiveCounted
  PROVE  LiveWithinEditors
<1> SUFFICES ASSUME NEW t \in Templates, NEW app \in Apps
             PROVE  Cardinality(LiveRows(t, app)) =< Cardinality(Editors)
  BY DEF LiveWithinEditors, LiveRows
<1> DEFINE K == [d \in LiveRows(t, app) |-> Key(d)]
<1>1. K \in Injection(LiveRows(t, app), LiveKeys(t, app))
  <2>1. \A d, x \in LiveRows(t, app) : Key(d) = Key(x) => d = x
    BY DEF LiveRows, VersionsInv, DeploymentsFit
  <2>2. K \in [LiveRows(t, app) -> LiveKeys(t, app)]
    BY DEF LiveKeys
  <2>3. QED
    BY <2>1, <2>2 DEF Injection, IsInjective
<1>2. IsFiniteSet(LiveKeys(t, app))
  BY DEF LiveCounted
<1>3. Cardinality(LiveRows(t, app)) =< Cardinality(LiveKeys(t, app))
  BY <1>1, <1>2, FS_Injection
<1>4. IsFiniteSet(LiveRows(t, app))
  BY <1>1, <1>2, FS_Injection
<1>5. Uncovered(t, app, {}) = LiveKeys(t, app)
  BY DEF Uncovered
<1>6. Cardinality(LiveKeys(t, app)) + Cardinality({}) =< Cardinality(Editors)
  BY <1>5 DEF LiveCounted
<1>7. QED
  BY <1>2, <1>3, <1>4, <1>6, FS_EmptySet, FS_CardinalityType, SomeEditors

\* Over any sequence of publishing, rolling back and deploying, the published
\* versions of a template that are live on an application are never more than
\* there are members of staff at work.  (With nobody at work there may be the one
\* the system starts with.)
THEOREM LiveStaysWithinEditors ==
  ASSUME Editors # {}
  PROVE  Spec => []LiveWithinEditors
<1>1. Init => VersionsInv /\ LiveCounted
  BY VersionsStart, CountStarts
<1>2. VersionsInv /\ LiveCounted /\ [Next]_vars => (VersionsInv /\ LiveCounted)'
  BY VersionsStep, CountStep
<1>3. VersionsInv /\ LiveCounted => LiveWithinEditors
  BY CountImplies
<1>4. QED
  BY <1>1, <1>2, <1>3, PTL DEF Spec

------------------------------------------------------------------------------
(***************************************************************************)
(* Consents that are recorded and withdrawn: ConsentRecording.             *)
(***************************************************************************)

Visit == {Idle} \cup Form \cup Submission \cup Withdrawal \cup Insertion

(***************************************************************************)
(* The inductive invariant.                                                *)
(***************************************************************************)
\* A submission that writes has a version; one that creates a record does so
\* for a purpose it has before it, and that was chosen.
VisitsFit ==
  /\ visit \in [Visitors -> Visit]
  /\ \A c \in Visitors :
       /\ visit[c].step \in {"resolved", "loop", "create"} => visit[c].version # {}
       /\ visit[c].step = "create" => visit[c].purpose \in visit[c].todo \cap visit[c].chosen

HistoryFits ==
  /\ visits \in 0 .. MaxVisits
  /\ said \in [Consent -> SUBSET BOOLEAN]
  /\ handled \subseteq Consent

RecordsFit == records \in Seq(Record)

RecordingInv == VersionsInv /\ RecordsFit /\ VisitsFit /\ HistoryFits

LEMMA RecordingInvImplies == RecordingInv => RecordingTypeOK
BY InvImplies DEF RecordingInv, RecordsFit, VisitsFit, HistoryFits, RecordingTypeOK, Visit

\* What a call of a visitor carries.
LEMMA VisitFields ==
  ASSUME NEW v \in Visit
  PROVE  /\ v.step = "form" => v \in Form
         /\ v.step \in {"unresolved", "resolved", "loop", "create"} => v \in Submission
         /\ v.step = "withdraw" => v \in Withdrawal
         /\ v.step = "insert" => v \in Insertion
BY DEF Visit, Idle, Form, Submission, Withdrawal, Insertion

LEMMA VisitIs ==
  ASSUME RecordingInv, NEW c \in Visitors
  PROVE  /\ visit[c] \in Visit
         /\ visit[c].step = "form" => visit[c] \in Form
         /\ visit[c].step \in {"unresolved", "resolved", "loop", "create"}
              => visit[c] \in Submission
         /\ visit[c].step = "withdraw" => visit[c] \in Withdrawal
         /\ visit[c].step = "insert" => visit[c] \in Insertion
<1>1. visit[c] \in Visit
  BY DEF RecordingInv, VisitsFit
<1>2. QED
  BY <1>1, VisitFields

LEMMA IdleFits == Idle \in Visit /\ Idle.step = "idle"
BY DEF Visit, Idle

\* Staff's steps, and visitors' steps, which leave their tables alone.
LEMMA VersionsGoOn ==
  ASSUME VersionsInv, [RecordingNext]_allVars
  PROVE  VersionsInv'
<1>1. [Next]_vars
  BY DEF RecordingNext, allVars, SubmitForm, LoadForm, Submit, ResolveVersion, Refuse,
         RecordCombined, BeginSeparate, FindStanding, RevokeUnchosen, CreateRecord, LoopFails,
         WithdrawConsent, FindWidget, Withdraw, Client, CheckDeployment, Insert, UpdateRecord,
         Keeps, Next
<1>2. QED
  BY <1>1, VersionsStep

LEMMA ProceedsFits ==
  ASSUME RecordingInv, NEW c \in Visitors, NEW to \in Visit, Proceeds(c, to),
         to.step \in {"resolved", "loop", "create"} => to.version # {},
         to.step = "create" => to.purpose \in to.todo \cap to.chosen
  PROVE  VisitsFit'
<1>1. visit \in [Visitors -> Visit] /\ visit' = [visit EXCEPT ![c] = to]
  BY DEF RecordingInv, VisitsFit, Proceeds
<1>2. visit' \in [Visitors -> Visit] /\ visit'[c] = to
      /\ \A x \in Visitors \ {c} : visit'[x] = visit[x]
  BY <1>1
<1>3. \A x \in Visitors :
       /\ visit'[x].step \in {"resolved", "loop", "create"} => visit'[x].version # {}
       /\ visit'[x].step = "create" => visit'[x].purpose \in visit'[x].todo \cap visit'[x].chosen
  BY <1>2 DEF RecordingInv, VisitsFit
<1>4. QED
  BY <1>2, <1>3 DEF VisitsFit

LEMMA ProceedsIdle ==
  ASSUME RecordingInv, NEW c \in Visitors, Proceeds(c, Idle)
  PROVE  VisitsFit'
BY IdleFits, ProceedsFits

LEMMA ArrivesCounts ==
  ASSUME RecordingInv, NEW c, NEW route, Arrives(c, route)
  PROVE  visits' \in 0 .. MaxVisits
BY RecordingAssumption DEF Arrives, RecordingInv, HistoryFits

LEMMA ServedFits ==
  ASSUME RecordingInv, NEW id, NEW w \in ServedWidgets(id)
  PROVE  /\ w \in Widgets
         /\ widget[w].app \in Apps /\ widget[w].template \in Templates
BY DEF ServedWidgets, RecordingInv, VersionsInv, RowsFit

LEMMA VersionsOfRows ==
  ASSUME RecordingInv, NEW rows \in SUBSET deployments
  PROVE  /\ Versions(rows) \subseteq VersionId
         /\ \A v \in Versions(rows) : Exists(v) /\ versions[v[1]][v[2]].content \in Contents
<1>1. \A d \in rows : d.version \in VersionId /\ Exists(d.version)
  BY DEF RecordingInv, VersionsInv, DeploymentsFit, Deployment
<1>2. ASSUME NEW v \in VersionId, Exists(v)
      PROVE  versions[v[1]][v[2]].content \in Contents
  <2>1. v[1] \in Templates /\ v[2] \in DOMAIN versions[v[1]]
    BY <1>2 DEF VersionId, Exists
  <2>2. versions[v[1]] \in Seq(VersionRow)
    BY <2>1 DEF RecordingInv, VersionsInv, VersionsFit
  <2>3. versions[v[1]][v[2]] \in VersionRow
    BY <2>1, <2>2
  <2>4. QED
    BY <2>3 DEF VersionRow
<1>3. QED
  BY <1>1, <1>2 DEF Versions

LEMMA OneOfFits ==
  ASSUME NEW set, NEW V, set \subseteq V, NEW x \in OneOf(set)
  PROVE  x \in SUBSET V
BY DEF OneOf

LEMMA FormContentsFit ==
  ASSUME RecordingInv, NEW w \in Widgets, NEW content \in FormContents(w)
  PROVE  content \in Contents
<1>1. Displayed(w) \in SUBSET deployments
  BY DEF Displayed, Newest, LiveOn
<1>2. CASE Displayed(w) = {}
  BY <1>2 DEF FormContents, RecordingInv, VersionsInv, RowsFit
<1>3. CASE Displayed(w) # {}
  BY <1>1, <1>3, VersionsOfRows DEF FormContents
<1>4. QED
  BY <1>2, <1>3

Fits == RecordsFit /\ VisitsFit /\ HistoryFits

(***************************************************************************)
(* A form is loaded and submitted.                                         *)
(***************************************************************************)
LEMMA LoadFormFits ==
  ASSUME RecordingInv, NEW c \in Visitors, NEW id \in Apps \cup Widgets, LoadForm(c, id)
  PROVE  Fits'
<1>1. PICK w \in ServedWidgets(id) : \E shown \in OneOf(Versions(Displayed(w))) :
        Proceeds(c, [step |-> "form", id |-> id, shown |-> shown])
  BY DEF LoadForm
<1>2. PICK shown \in OneOf(Versions(Displayed(w))) :
        Proceeds(c, [step |-> "form", id |-> id, shown |-> shown])
  BY <1>1
<1> DEFINE to == [step |-> "form", id |-> id, shown |-> shown]
<1>3. Versions(Displayed(w)) \subseteq VersionId
  BY VersionsOfRows DEF Displayed, Newest, LiveOn
<1>4. shown \in SUBSET VersionId
  BY <1>2, <1>3, OneOfFits
<1>5. to \in Visit /\ to.step = "form"
  <2>1. to \in Form
    BY <1>4 DEF Form
  <2>2. QED
    BY <2>1 DEF Visit
<1>6. VisitsFit'
  <2> HIDE DEF to
  <2>1. Proceeds(c, to)
    BY <1>2 DEF to
  <2>2. QED
    BY <1>5, <2>1, ProceedsFits
<1>7. visits' \in 0 .. MaxVisits /\ UNCHANGED <<records, said, handled>>
  BY ArrivesCounts DEF LoadForm, Keeps
<1>8. QED
  BY <1>6, <1>7 DEF Fits, RecordingInv, RecordsFit, HistoryFits

LEMMA SubmitFits ==
  ASSUME RecordingInv, NEW c \in Visitors, NEW subject \in Subjects,
         NEW chosen \in SUBSET Purposes, Submit(c, subject, chosen)
  PROVE  Fits'
<1> DEFINE f == visit[c]
           to(w, content, version) ==
             [step     |-> IF version = {} THEN "unresolved" ELSE "resolved",
              template |-> widget[w].template, app |-> widget[w].app,
              subject  |-> subject, content |-> content, chosen |-> chosen,
              version  |-> version, shown |-> f.shown,
              todo     |-> {}, purpose |-> NoPurpose]
<1>1. f.step = "form" /\ UNCHANGED <<records, visits, said, handled>>
  BY DEF Submit, Keeps
<1>2. f \in Form
  BY <1>1, VisitIs
<1>3. CASE Proceeds(c, Idle)
  BY <1>1, <1>3, ProceedsIdle DEF Fits, RecordingInv, RecordsFit, HistoryFits
<1>4. CASE \E w \in ServedWidgets(f.id) :
           \E content \in FormContents(w), version \in OneOf(Versions(InForce(widget[w].app))) :
             Proceeds(c, to(w, content, version))
  <2>1. PICK w \in ServedWidgets(f.id) :
             \E content \in FormContents(w), version \in OneOf(Versions(InForce(widget[w].app))) :
               Proceeds(c, to(w, content, version))
    BY <1>4
  <2>2. PICK content \in FormContents(w), version \in OneOf(Versions(InForce(widget[w].app))) :
               Proceeds(c, to(w, content, version))
    BY <2>1
  <2>3. w \in Widgets /\ widget[w].app \in Apps /\ widget[w].template \in Templates
    BY ServedFits
  <2>4. content \in Contents
    BY <2>3, FormContentsFit
  <2>5. version \in SUBSET VersionId
    <3>1. InForce(widget[w].app) \in SUBSET deployments
      BY DEF InForce, Newest, LiveOn
    <3>2. Versions(InForce(widget[w].app)) \subseteq VersionId
      BY <3>1, VersionsOfRows
    <3>3. QED
      BY <3>2, OneOfFits
  <2>6. to(w, content, version) \in Submission
    BY <1>2, <2>3, <2>4, <2>5 DEF Submission, Form
  <2>7. /\ to(w, content, version).step # "create"
        /\ to(w, content, version).step \in {"resolved", "loop", "create"}
             => to(w, content, version).version # {}
    OBVIOUS
  <2>8. VisitsFit'
    <3> HIDE DEF to
    <3>1. to(w, content, version) \in Visit
      BY <2>6 DEF Visit
    <3>2. QED
      BY <2>2, <2>7, <3>1, ProceedsFits
  <2>9. QED
    BY <1>1, <2>8 DEF Fits, RecordingInv, RecordsFit, HistoryFits
<1>5. QED
  BY <1>3, <1>4 DEF Submit

LEMMA ResolveVersionFits ==
  ASSUME RecordingInv, NEW c \in Visitors, ResolveVersion(c)
  PROVE  Fits'
<1> DEFINE s     == visit[c]
           to(i) == [s EXCEPT !.step = "resolved", !.version = {<<s.template, i>>}]
<1>1. s.step = "unresolved" /\ UNCHANGED <<records, visits, said, handled>>
  BY DEF ResolveVersion, Keeps
<1>2. s \in Submission /\ s.template \in Templates
  BY <1>1, VisitIs DEF Submission
<1>3. CASE Proceeds(c, Idle)
  BY <1>1, <1>3, ProceedsIdle DEF Fits, RecordingInv, RecordsFit, HistoryFits
<1>4. CASE \E i \in DOMAIN versions[s.template] : Proceeds(c, to(i))
  <2>1. PICK i \in DOMAIN versions[s.template] : Proceeds(c, to(i))
    BY <1>4
  <2>2. versions[s.template] \in Seq(VersionRow)
    BY <1>2 DEF RecordingInv, VersionsInv, VersionsFit
  <2>3. i \in Nat \ {0}
    BY <2>2
  <2> DEFINE ids == {<<s.template, i>>}
  <2>4. ids \in SUBSET VersionId /\ ids # {}
    BY <1>2, <2>3 DEF VersionId
  <2>5. to(i) \in Submission /\ to(i).step = "resolved" /\ to(i).version = ids
    <3> HIDE DEF ids
    <3>1. to(i) = [s EXCEPT !.step = "resolved", !.version = ids]
      BY DEF ids
    <3>2. QED
      BY <1>2, <2>4, <3>1 DEF Submission
  <2>6. VisitsFit'
    <3> HIDE DEF to, ids
    <3>1. to(i) \in Visit
      BY <2>5 DEF Visit
    <3>2. QED
      BY <2>1, <2>4, <2>5, <3>1, ProceedsFits
  <2>7. QED
    BY <1>1, <2>6 DEF Fits, RecordingInv, RecordsFit, HistoryFits
<1>5. QED
  BY <1>3, <1>4 DEF ResolveVersion

LEMMA RefuseFits ==
  ASSUME RecordingInv, NEW c \in Visitors, Refuse(c)
  PROVE  Fits'
<1>1. Proceeds(c, Idle) /\ UNCHANGED <<records, visits, said, handled>>
  BY DEF Refuse, Keeps
<1>2. QED
  BY <1>1, ProceedsIdle DEF Fits, RecordingInv, RecordsFit, HistoryFits

(***************************************************************************)
(* Records are written.                                                    *)
(***************************************************************************)
LEMMA GrantedFits ==
  ASSUME NEW s \in Submission, s.version # {}, NEW p \in Purposes \cup {NoPurpose}
  PROVE  /\ Granted(s, p) \in Record
         /\ ConsentOf(Granted(s, p)) = <<s.app, s.subject, p>>
         /\ Granted(s, p).status = "GRANTED"
<1>1. (CHOOSE v \in s.version : TRUE) \in VersionId
  BY DEF Submission
<1>2. QED
  BY <1>1 DEF Granted, Record, ConsentOf, Submission

LEMMA RecordCombinedFits ==
  ASSUME RecordingInv, NEW c \in Visitors, RecordCombined(c)
  PROVE  Fits'
<1> DEFINE row == Granted(visit[c], NoPurpose)
<1>1. /\ visit[c].step = "resolved" /\ records' = Append(records, row)
      /\ Proceeds(c, Idle) /\ UNCHANGED <<visits, said, handled>>
  BY DEF RecordCombined, Keeps
<1>2. visit[c] \in Submission /\ visit[c].version # {}
  BY <1>1, VisitIs DEF RecordingInv, VisitsFit
<1>3. row \in Record
  BY <1>2, GrantedFits
<1>4. RecordsFit'
  <2> HIDE DEF row
  <2>1. QED
    BY <1>1, <1>3 DEF RecordingInv, RecordsFit
<1>5. QED
  BY <1>1, <1>4, ProceedsIdle DEF Fits, RecordingInv, HistoryFits

\* Says adds an answer to those of the calls that are at it.
LEMMA SaysFits ==
  ASSUME RecordingInv, NEW c, NEW k \in Consent, NEW yes \in BOOLEAN
  PROVE  Says(c, k, yes) \in SUBSET BOOLEAN /\ yes \in Says(c, k, yes)
<1>1. said[k] \in SUBSET BOOLEAN
  BY DEF RecordingInv, HistoryFits
<1>2. QED
  BY <1>1 DEF Says

LEMMA BeginSeparateFits ==
  ASSUME RecordingInv, NEW c \in Visitors, BeginSeparate(c)
  PROVE  Fits'
<1> DEFINE s  == visit[c]
           to == [s EXCEPT !.step = "loop", !.todo = PurposesOf[s.template]]
<1>1. /\ s.step = "resolved" /\ Proceeds(c, to) /\ UNCHANGED <<records, visits, handled>>
  BY DEF BeginSeparate, Keeps
<1>2. s \in Submission /\ s.version # {}
  BY <1>1, VisitIs DEF RecordingInv, VisitsFit
<1>3. PurposesOf[s.template] \in SUBSET Purposes
  BY <1>2, RecordingAssumption DEF Submission
<1>4. to \in Submission /\ to.step = "loop" /\ to.version = s.version
  BY <1>2, <1>3 DEF Submission
<1>5. VisitsFit'
  <2> HIDE DEF to
  <2>1. to \in Visit
    BY <1>4 DEF Visit
  <2>2. QED
    BY <1>1, <1>2, <1>4, <2>1, ProceedsFits
<1>6. said' \in [Consent -> SUBSET BOOLEAN]
  <2>1. \A k \in Consent : (k[3] \in s.chosen) \in BOOLEAN
    OBVIOUS
  <2>2. \A k \in Consent : Says(c, k, k[3] \in s.chosen) \in SUBSET BOOLEAN
    BY <2>1, SaysFits
  <2>3. \A k \in Consent : said[k] \in SUBSET BOOLEAN
    BY DEF RecordingInv, HistoryFits
  <2>4. said' = [k \in Consent |->
           IF \E p \in PurposesOf[s.template] : k = <<s.app, s.subject, p>>
           THEN Says(c, k, k[3] \in s.chosen) ELSE said[k]]
    BY DEF BeginSeparate
  <2>5. QED
    BY <2>2, <2>3, <2>4
<1>7. QED
  BY <1>1, <1>5, <1>6 DEF Fits, RecordingInv, RecordsFit, HistoryFits

(***************************************************************************)
(* Purpose by purpose.                                                     *)
(***************************************************************************)
LEMMA NextPurposeIs ==
  ASSUME NEW s \in Submission, s.version # {}, NEW p
  PROVE  /\ NextPurpose(s, p) \in Visit
         /\ NextPurpose(s, p).step \in {"idle", "loop"}
         /\ NextPurpose(s, p).step = "idle" => s.todo \ {p} = {}
         /\ NextPurpose(s, p).step = "loop" =>
              /\ NextPurpose(s, p).version # {}
              /\ NextPurpose(s, p).todo = s.todo \ {p}
              /\ NextPurpose(s, p).app = s.app
              /\ NextPurpose(s, p).subject = s.subject
              /\ NextPurpose(s, p).chosen = s.chosen
<1> DEFINE rest == s.todo \ {p}
           to   == [s EXCEPT !.step = "loop", !.todo = rest, !.purpose = NoPurpose]
<1>1. CASE rest = {}
  BY <1>1, IdleFits DEF NextPurpose
<1>2. CASE rest # {}
  <2>1. NextPurpose(s, p) = to
    BY <1>2 DEF NextPurpose
  <2>2. rest \in SUBSET Purposes
    BY DEF Submission
  <2>3. /\ to \in Submission /\ to.step = "loop" /\ to.version = s.version
        /\ to.todo = rest /\ to.app = s.app /\ to.subject = s.subject /\ to.chosen = s.chosen
    <3> HIDE DEF rest
    <3>1. QED
      BY <2>2 DEF Submission
  <2>4. QED
    <3> HIDE DEF to
    <3>1. QED
      BY <1>2, <2>1, <2>3 DEF Visit
<1>3. QED
  BY <1>1, <1>2

LEMMA NextPurposeFits ==
  ASSUME RecordingInv, NEW c \in Visitors, visit[c].step \in {"loop", "create"}, NEW p,
         Proceeds(c, NextPurpose(visit[c], p))
  PROVE  VisitsFit'
<1>1. visit[c] \in Submission /\ visit[c].version # {}
  BY VisitIs DEF RecordingInv, VisitsFit
<1>2. QED
  BY <1>1, NextPurposeIs, ProceedsFits

LEMMA FindStandingFits ==
  ASSUME RecordingInv, NEW c \in Visitors, NEW p \in Purposes, FindStanding(c, p)
  PROVE  Fits'
<1> DEFINE s  == visit[c]
           to == [s EXCEPT !.step = "create", !.purpose = p]
<1>1. s.step = "loop" /\ p \in s.todo \cap s.chosen /\ UNCHANGED <<records, visits, said, handled>>
  BY DEF FindStanding, Keeps
<1>2. s \in Submission /\ s.version # {}
  BY <1>1, VisitIs DEF RecordingInv, VisitsFit
<1>3. CASE Proceeds(c, NextPurpose(s, p))
  BY <1>1, <1>3, NextPurposeFits DEF Fits, RecordingInv, RecordsFit, HistoryFits
<1>4. CASE Proceeds(c, to)
  <2>1. /\ to \in Submission /\ to.step = "create" /\ to.purpose = p /\ to.version = s.version
        /\ to.todo = s.todo /\ to.chosen = s.chosen
    BY <1>2 DEF Submission
  <2>2. VisitsFit'
    <3> HIDE DEF to
    <3>1. to \in Visit
      BY <2>1 DEF Visit
    <3>2. QED
      BY <1>1, <1>2, <1>4, <2>1, <3>1, ProceedsFits
  <2>3. QED
    BY <1>1, <2>2 DEF Fits, RecordingInv, RecordsFit, HistoryFits
<1>5. QED
  BY <1>3, <1>4 DEF FindStanding

LEMMA CreateRecordFits ==
  ASSUME RecordingInv, NEW c \in Visitors, CreateRecord(c)
  PROVE  Fits'
<1> DEFINE row == Granted(visit[c], visit[c].purpose)
<1>1. /\ visit[c].step = "create" /\ records' = Append(records, row)
      /\ Proceeds(c, NextPurpose(visit[c], visit[c].purpose))
      /\ UNCHANGED <<visits, said, handled>>
  BY DEF CreateRecord, Keeps
<1>2. visit[c] \in Submission /\ visit[c].version # {}
  BY <1>1, VisitIs DEF RecordingInv, VisitsFit
<1>3. row \in Record
  BY <1>2, GrantedFits DEF Submission
<1>4. RecordsFit'
  <2> HIDE DEF row
  <2>1. QED
    BY <1>1, <1>3 DEF RecordingInv, RecordsFit
<1>5. VisitsFit'
  BY <1>1, NextPurposeFits
<1>6. QED
  BY <1>1, <1>4, <1>5 DEF Fits, RecordingInv, HistoryFits

\* What a statement that revokes does to the rows of a consent.
LEMMA RevokedIs ==
  ASSUME RecordingInv, NEW keys, records' = Revoked(keys)
  PROVE  /\ RecordsFit'
         /\ \A k : RowsOf(k)' = RowsOf(k)
         /\ \A k \in keys : Standing(k)' = {}
         /\ \A k : k \notin keys => Standing(k)' = Standing(k)
         /\ \A i \in DOMAIN records : i \notin UNION {Standing(k) : k \in keys}
              => records'[i] = records[i]
<1> DEFINE hit == UNION {Standing(k) : k \in keys}
           n   == Len(records)
<1>1. n \in Nat /\ DOMAIN records = 1 .. n /\ \A i \in 1 .. n : records[i] \in Record
  BY DEF RecordingInv, RecordsFit
<1>2. /\ DOMAIN records' = 1 .. n
      /\ \A i \in 1 .. n : records'[i] = IF i \in hit THEN [records[i] EXCEPT !.status = "REVOKED"]
                                        ELSE records[i]
      /\ records' = [i \in 1 .. n |-> records'[i]]
  BY <1>1 DEF Revoked
<1>3. \A r \in Record : /\ [r EXCEPT !.status = "REVOKED"] \in Record
                        /\ ConsentOf([r EXCEPT !.status = "REVOKED"]) = ConsentOf(r)
                        /\ [r EXCEPT !.status = "REVOKED"].status = "REVOKED"
  BY DEF Record, ConsentOf
<1> HIDE DEF hit, n
<1>4. \A i \in 1 .. n : /\ records'[i] \in Record
                        /\ ConsentOf(records'[i]) = ConsentOf(records[i])
                        /\ records'[i].status = IF i \in hit THEN "REVOKED" ELSE records[i].status
  BY <1>1, <1>2, <1>3
<1>5. RecordsFit'
  <2>1. records' \in [1 .. n -> Record]
    BY <1>2, <1>4
  <2>2. QED
    BY <1>1, <2>1, SeqDef DEF RecordsFit
<1>6. \A k : RowsOf(k)' = RowsOf(k)
  BY <1>1, <1>2, <1>4 DEF RowsOf, ConsentOf
<1>7. \A k \in keys : \A i \in Standing(k) : i \in hit
  BY DEF hit
<1>8. \A k : k \notin keys => \A i \in RowsOf(k) : i \notin hit
  BY DEF hit, Standing, RowsOf
<1>9. \A k : \A i \in RowsOf(k) : i \in 1 .. n
  BY <1>1 DEF RowsOf
<1>10. \A k : Standing(k)' = {i \in RowsOf(k) : records'[i].status = "GRANTED"}
  BY <1>6 DEF Standing
<1>11. \A k \in keys : Standing(k)' = {}
  BY <1>4, <1>7, <1>9, <1>10 DEF Standing
<1>12. \A k : k \notin keys => Standing(k)' = Standing(k)
  BY <1>4, <1>8, <1>9, <1>10 DEF Standing
<1>13. QED
  BY <1>1, <1>2, <1>5, <1>6, <1>11, <1>12 DEF hit

LEMMA RevokeUnchosenFits ==
  ASSUME RecordingInv, NEW c \in Visitors, NEW p \in Purposes, RevokeUnchosen(c, p)
  PROVE  Fits'
<1>1. /\ visit[c].step = "loop"
      /\ records' = Revoked({<<visit[c].app, visit[c].subject, p>>})
      /\ Proceeds(c, NextPurpose(visit[c], p)) /\ UNCHANGED <<visits, said, handled>>
  BY DEF RevokeUnchosen, Keeps
<1>2. RecordsFit'
  BY <1>1, RevokedIs
<1>3. VisitsFit'
  BY <1>1, NextPurposeFits
<1>4. QED
  BY <1>1, <1>2, <1>3 DEF Fits, RecordingInv, HistoryFits

LEMMA LoopFailsFits ==
  ASSUME RecordingInv, NEW c \in Visitors, LoopFails(c)
  PROVE  Fits'
<1>1. Proceeds(c, Idle) /\ UNCHANGED <<records, visits, handled>>
  BY DEF LoopFails, Keeps
<1>2. said' \in [Consent -> SUBSET BOOLEAN]
  BY DEF LoopFails, RecordingInv, HistoryFits
<1>3. QED
  BY <1>1, <1>2, ProceedsIdle DEF Fits, RecordingInv, RecordsFit, HistoryFits

(***************************************************************************)
(* Withdrawals and clients of the API.                                     *)
(***************************************************************************)
LEMMA FindWidgetFits ==
  ASSUME RecordingInv, NEW c \in Visitors, NEW id \in Apps \cup Widgets,
         NEW subject \in Subjects, NEW named \in SUBSET Purposes,
         FindWidget(c, id, subject, named)
  PROVE  Fits'
<1> DEFINE to(w, scope) == [step |-> "withdraw", app |-> widget[w].app,
                            subject |-> subject, scope |-> scope]
<1>1. PICK w \in ServedWidgets(id) : \E scope \in Scopes(w, named) : Proceeds(c, to(w, scope))
  BY DEF FindWidget
<1>2. PICK scope \in Scopes(w, named) : Proceeds(c, to(w, scope))
  BY <1>1
<1>3. w \in Widgets /\ widget[w].app \in Apps
  BY ServedFits
<1>4. scope \in SUBSET (Purposes \cup {NoPurpose})
  BY DEF Scopes
<1>5. to(w, scope) \in Visit /\ to(w, scope).step = "withdraw"
  <2>1. to(w, scope) \in Withdrawal
    BY <1>3, <1>4 DEF Withdrawal
  <2>2. QED
    BY <2>1 DEF Visit
<1>6. VisitsFit'
  <2> HIDE DEF to
  <2>1. QED
    BY <1>2, <1>5, ProceedsFits
<1>7. visits' \in 0 .. MaxVisits /\ UNCHANGED <<records, said, handled>>
  BY ArrivesCounts DEF FindWidget, Keeps
<1>8. QED
  BY <1>6, <1>7 DEF Fits, RecordingInv, RecordsFit, HistoryFits

LEMMA WithdrawFits ==
  ASSUME RecordingInv, NEW c \in Visitors, Withdraw(c)
  PROVE  Fits'
<1> DEFINE keys == {<<visit[c].app, visit[c].subject, p>> : p \in visit[c].scope}
<1>1. /\ records' = Revoked(keys) /\ Proceeds(c, Idle) /\ UNCHANGED <<visits, handled>>
      /\ said' = [k \in Consent |-> IF k \in keys THEN Says(c, k, FALSE) ELSE said[k]]
  BY DEF Withdraw, Keeps
<1>2. \A k \in Consent : Says(c, k, FALSE) \in SUBSET BOOLEAN /\ said[k] \in SUBSET BOOLEAN
  BY SaysFits DEF RecordingInv, HistoryFits
<1>3. said' \in [Consent -> SUBSET BOOLEAN]
  <2> HIDE DEF keys
  <2>1. QED
    BY <1>1, <1>2
<1>4. RecordsFit'
  <2> HIDE DEF keys
  <2>1. QED
    BY <1>1, RevokedIs
<1>5. QED
  BY <1>1, <1>3, <1>4, ProceedsIdle DEF Fits, RecordingInv, HistoryFits

LEMMA CheckDeploymentFits ==
  ASSUME RecordingInv, NEW c \in Visitors, NEW d \in deployments, NEW subject \in Subjects,
         NEW purpose \in Purposes \cup {NoPurpose}, NEW status \in {"GRANTED", "REVOKED"},
         CheckDeployment(c, d, subject, purpose, status)
  PROVE  Fits'
<1> DEFINE row == [app |-> d.app, subject |-> subject, purpose |-> purpose,
                   version |-> d.version, status |-> status, shown |-> {}]
           to  == [step |-> "insert", row |-> row]
<1>1. Proceeds(c, to)
  BY DEF CheckDeployment
<1>2. d \in Deployment
  BY DEF RecordingInv, VersionsInv, DeploymentsFit
<1>3. row \in Record
  BY <1>2 DEF Deployment, Record
<1>4. to \in Visit /\ to.step = "insert"
  <2> HIDE DEF row
  <2>1. to \in Insertion
    BY <1>3 DEF Insertion
  <2>2. QED
    BY <2>1 DEF Visit
<1>5. VisitsFit'
  <2> HIDE DEF to
  <2>1. QED
    BY <1>1, <1>4, ProceedsFits
<1>6. visits' \in 0 .. MaxVisits /\ UNCHANGED <<records, said, handled>>
  BY ArrivesCounts DEF CheckDeployment, Keeps
<1>7. QED
  BY <1>5, <1>6 DEF Fits, RecordingInv, RecordsFit, HistoryFits

LEMMA InsertFits ==
  ASSUME RecordingInv, NEW c \in Visitors, Insert(c)
  PROVE  Fits'
<1> DEFINE row == visit[c].row
<1>1. /\ visit[c].step = "insert" /\ records' = Append(records, row) /\ Proceeds(c, Idle)
      /\ handled' = handled \cup ({ConsentOf(row)} \cap Consent) /\ UNCHANGED <<visits, said>>
  BY DEF Insert, Keeps
<1>2. row \in Record
  BY <1>1, VisitIs DEF Insertion
<1>3. RecordsFit' /\ HistoryFits'
  <2> HIDE DEF row
  <2>1. QED
    BY <1>1, <1>2 DEF RecordingInv, RecordsFit, HistoryFits
<1>4. QED
  BY <1>1, <1>3, ProceedsIdle DEF Fits

\* A client's update writes one status.
LEMMA UpdateRecordIs ==
  ASSUME RecordingInv, NEW i \in DOMAIN records, NEW status \in {"GRANTED", "REVOKED"},
         records' = [records EXCEPT ![i].status = status]
  PROVE  /\ RecordsFit'
         /\ \A k : RowsOf(k)' = RowsOf(k)
         /\ \A k : k # ConsentOf(records[i]) => Standing(k)' = Standing(k)
<1> DEFINE n == Len(records)
<1>1. n \in Nat /\ DOMAIN records = 1 .. n /\ \A j \in 1 .. n : records[j] \in Record
  BY DEF RecordingInv, RecordsFit
<1>2. \A r \in Record : /\ [r EXCEPT !.status = status] \in Record
                        /\ ConsentOf([r EXCEPT !.status = status]) = ConsentOf(r)
  BY DEF Record, ConsentOf
<1>3. /\ DOMAIN records' = 1 .. n
      /\ records'[i] = [records[i] EXCEPT !.status = status]
      /\ \A j \in 1 .. n : j # i => records'[j] = records[j]
      /\ records' = [j \in 1 .. n |-> records'[j]]
  <2> HIDE DEF n
  <2>1. QED
    BY <1>1
<1> HIDE DEF n
<1>4. \A j \in 1 .. n : /\ records'[j] \in Record
                        /\ ConsentOf(records'[j]) = ConsentOf(records[j])
  BY <1>1, <1>2, <1>3
<1>5. RecordsFit'
  <2>1. records' \in [1 .. n -> Record]
    BY <1>3, <1>4
  <2>2. QED
    BY <1>1, <2>1, SeqDef DEF RecordsFit
<1>6. \A k : RowsOf(k)' = RowsOf(k)
  BY <1>1, <1>3, <1>4 DEF RowsOf, ConsentOf
<1>7. \A k : k # ConsentOf(records[i]) => Standing(k)' = Standing(k)
  BY <1>1, <1>3, <1>4, <1>6 DEF Standing, RowsOf
<1>8. QED
  BY <1>5, <1>6, <1>7

LEMMA UpdateRecordFits ==
  ASSUME RecordingInv, NEW c \in Visitors, NEW i \in DOMAIN records,
         NEW status \in {"GRANTED", "REVOKED"}, UpdateRecord(c, i, status)
  PROVE  Fits'
<1>1. /\ records' = [records EXCEPT ![i].status = status]
      /\ handled' = handled \cup ({ConsentOf(records[i])} \cap Consent)
      /\ UNCHANGED <<visit, said>>
  BY DEF UpdateRecord, Keeps
<1>2. RecordsFit'
  BY <1>1, UpdateRecordIs
<1>3. visits' \in 0 .. MaxVisits
  BY ArrivesCounts DEF UpdateRecord
<1>4. HistoryFits'
  BY <1>1, <1>3 DEF RecordingInv, HistoryFits
<1>5. VisitsFit'
  BY <1>1 DEF RecordingInv, VisitsFit
<1>6. QED
  BY <1>2, <1>4, <1>5 DEF Fits

(***************************************************************************)
(* The types.                                                              *)
(***************************************************************************)
LEMMA RecordingStarts == RecordingInit => RecordingInv
<1> SUFFICES ASSUME RecordingInit PROVE RecordingInv
  OBVIOUS
<1>1. VersionsInv
  BY VersionsStart DEF RecordingInit
<1>2. RecordsFit
  BY DEF RecordingInit, RecordsFit
<1>3. VisitsFit
  BY IdleFits DEF RecordingInit, VisitsFit
<1>4. HistoryFits
  BY RecordingAssumption DEF RecordingInit, HistoryFits
<1>5. QED
  BY <1>1, <1>2, <1>3, <1>4 DEF RecordingInv

LEMMA RecordingStep == RecordingInv /\ [RecordingNext]_allVars => RecordingInv'
<1> SUFFICES ASSUME RecordingInv, [RecordingNext]_allVars PROVE RecordingInv'
  OBVIOUS
<1>1. VersionsInv'
  BY VersionsGoOn DEF RecordingInv
<1>2. CASE UNCHANGED recordVars
  BY <1>1, <1>2 DEF RecordingInv, recordVars, RecordsFit, VisitsFit, HistoryFits
<1>3. ASSUME NEW c \in Visitors, SubmitForm(c)
      PROVE  Fits'
  BY <1>3, LoadFormFits, SubmitFits, ResolveVersionFits, RefuseFits, RecordCombinedFits,
     BeginSeparateFits, FindStandingFits, RevokeUnchosenFits, CreateRecordFits, LoopFailsFits
  DEF SubmitForm
<1>4. ASSUME NEW c \in Visitors, WithdrawConsent(c)
      PROVE  Fits'
  BY <1>4, FindWidgetFits, WithdrawFits DEF WithdrawConsent
<1>5. ASSUME NEW c \in Visitors, Client(c)
      PROVE  Fits'
  BY <1>5, CheckDeploymentFits, InsertFits, UpdateRecordFits DEF Client
<1>6. QED
  BY <1>1, <1>2, <1>3, <1>4, <1>5 DEF RecordingNext, allVars, RecordingInv, Fits

LEMMA RecordingAlways == RecordingSpec => []RecordingInv
BY RecordingStarts, RecordingStep, PTL DEF RecordingSpec

\* Every record, call and answer keeps its type, on top of the versions' own.
THEOREM RecordingTypeCorrect == RecordingSpec => []RecordingTypeOK
<1>1. RecordingInv => RecordingTypeOK
  BY RecordingInvImplies
<1>2. QED
  BY <1>1, RecordingAlways, PTL

(***************************************************************************)
(* What a step does to one consent: its rows, who is about to write one,   *)
(* and whose answer it waits for.                                          *)
(***************************************************************************)
Creators(k) ==
  {c \in Visitors : /\ visit[c].step = "create"
                    /\ k = <<visit[c].app, visit[c].subject, visit[c].purpose>>}

Waits(c, k) ==
  /\ visit[c].step \in {"loop", "create"}
  /\ \E p \in visit[c].todo : k = <<visit[c].app, visit[c].subject, p>>

\* The answer of a submission that is under way is among those said.
Answered ==
  \A c \in Visitors, k \in Consent : Waits(c, k) =>
    /\ k[3] \in visit[c].chosen => TRUE \in said[k]
    /\ k[3] \notin visit[c].chosen => FALSE \in said[k]

Same(k)    == RowsOf(k)' = RowsOf(k) /\ Standing(k)' = Standing(k)
Cleared(k) == RowsOf(k)' = RowsOf(k) /\ Standing(k)' = {}
Added(k)   == /\ RowsOf(k)' = RowsOf(k) \cup {Len(records) + 1}
              /\ Standing(k)' = Standing(k) \cup {Len(records) + 1}

RowsGo(k) ==
  \/ Same(k) /\ Creators(k)' \subseteq Creators(k)
  \/ Cleared(k)
  \/ Added(k) /\ \E c \in Creators(k) : Creators(k)' \subseteq Creators(k) \ {c}

AnswerGoes(k) ==
  \/ \E c \in Visitors : Waits(c, k)'
  \/ Same(k) /\ said'[k] = said[k] /\ \A c \in Visitors : ~Waits(c, k)
  \/ said'[k] = BOOLEAN
  \/ Standing(k)' # {} /\ TRUE \in said'[k]
  \/ Standing(k)' = {} /\ FALSE \in said'[k]

GoOn == Answered' /\ \A k \in Consent \ handled' : RowsGo(k) /\ AnswerGoes(k)

LEMMA AppendedIs ==
  ASSUME RecordingInv, NEW row \in Record, records' = Append(records, row)
  PROVE  /\ \A k : k # ConsentOf(row) => Same(k)
         /\ row.status = "GRANTED" => Added(ConsentOf(row))
<1> DEFINE n == Len(records)
<1>1. n \in Nat /\ DOMAIN records = 1 .. n
  BY DEF RecordingInv, RecordsFit
<1>2. /\ DOMAIN records' = 1 .. n + 1
      /\ records'[n + 1] = row
      /\ \A i \in 1 .. n : records'[i] = records[i]
  BY DEF RecordingInv, RecordsFit
<1>3. \A i \in 1 .. n + 1 : i \in 1 .. n \/ i = n + 1
  BY <1>1
<1>4. n + 1 \in 1 .. n + 1 /\ \A i \in 1 .. n : i \in 1 .. n + 1
  BY <1>1
<1> HIDE DEF n
<1>5. \A k : k # ConsentOf(row) => RowsOf(k)' = RowsOf(k)
  BY <1>1, <1>2, <1>3, <1>4 DEF RowsOf, ConsentOf
<1>6. \A k : k # ConsentOf(row) => Standing(k)' = Standing(k)
  BY <1>1, <1>2, <1>5 DEF Standing, RowsOf
<1>7. ASSUME row.status = "GRANTED"
      PROVE  Added(ConsentOf(row))
  <2> DEFINE k == ConsentOf(row)
  <2>1. RowsOf(k)' = {i \in 1 .. n + 1 : ConsentOf(records'[i]) = k}
    BY <1>2 DEF RowsOf, ConsentOf
  <2>2. RowsOf(k) = {i \in 1 .. n : ConsentOf(records[i]) = k}
    BY <1>1 DEF RowsOf
  <2>3. Standing(k)' = {i \in RowsOf(k)' : records'[i].status = "GRANTED"}
    BY DEF Standing
  <2> HIDE DEF k
  <2>4. RowsOf(k)' = RowsOf(k) \cup {n + 1}
    BY <1>2, <1>3, <1>4, <2>1, <2>2 DEF k
  <2>5. \A i \in RowsOf(k) : records'[i] = records[i]
    BY <1>2, <2>2
  <2>6. Standing(k)' = Standing(k) \cup {n + 1}
    BY <1>2, <1>7, <2>3, <2>4, <2>5 DEF Standing
  <2>7. QED
    BY <2>4, <2>6 DEF Added, n, k
<1>8. QED
  BY <1>5, <1>6, <1>7 DEF Same

\* Steps that leave the rows, the answers and the loops alone.
LEMMA QuietGoesOn ==
  ASSUME RecordingInv, Answered, said' = said,
         \A k \in Consent \ handled' : Same(k),
         \A x \in Visitors :
           \/ visit'[x] = visit[x]
           \/ visit[x].step \notin {"loop", "create"} /\ visit'[x].step \notin {"loop", "create"}
  PROVE  GoOn
<1>1. \A x \in Visitors, k \in Consent : Waits(x, k)' <=> Waits(x, k)
  BY DEF Waits
<1>2. \A x \in Visitors, k \in Consent : Waits(x, k) => visit'[x] = visit[x]
  BY DEF Waits
<1>3. Answered'
  BY <1>1, <1>2 DEF Answered
<1>4. \A k \in Consent \ handled' : Creators(k)' \subseteq Creators(k)
  BY DEF Creators
<1>5. \A k \in Consent \ handled' : AnswerGoes(k)
  BY <1>1 DEF AnswerGoes
<1>6. QED
  BY <1>3, <1>4, <1>5 DEF GoOn, RowsGo

LEMMA ProceedsOne ==
  ASSUME RecordingInv, NEW c \in Visitors, NEW to, Proceeds(c, to)
  PROVE  visit'[c] = to /\ \A x \in Visitors \ {c} : visit'[x] = visit[x]
BY DEF Proceeds, RecordingInv, VisitsFit

LEMMA QuietSubmits ==
  ASSUME RecordingInv, Answered, NEW c \in Visitors,
         \/ \E id \in Apps \cup Widgets : LoadForm(c, id)
         \/ \E subject \in Subjects, chosen \in SUBSET Purposes : Submit(c, subject, chosen)
         \/ ResolveVersion(c)
         \/ Refuse(c)
         \/ RecordCombined(c)
  PROVE  GoOn
<1> DEFINE Quiet == /\ visit[c].step \notin {"loop", "create"}
                    /\ \E to : to.step \notin {"loop", "create"} /\ Proceeds(c, to)
<1>1. said' = said /\ handled' = handled
  BY DEF LoadForm, Submit, ResolveVersion, Refuse, RecordCombined, Keeps
<1>2. Quiet
  <2>1. CASE \E id \in Apps \cup Widgets : LoadForm(c, id)
    BY <2>1, IdleFits DEF LoadForm, Arrives
  <2>2. CASE \E subject \in Subjects, chosen \in SUBSET Purposes : Submit(c, subject, chosen)
    <3>1. PICK subject \in Subjects, chosen \in SUBSET Purposes : Submit(c, subject, chosen)
      BY <2>2
    <3>2. visit[c].step = "form"
      BY <3>1 DEF Submit
    <3>3. CASE Proceeds(c, Idle)
      BY <3>2, <3>3, IdleFits
    <3>4. CASE ~Proceeds(c, Idle)
      <4>1. PICK w \in ServedWidgets(visit[c].id) :
              \E content \in FormContents(w), version \in OneOf(Versions(InForce(widget[w].app))) :
                Proceeds(c,
                 [step     |-> IF version = {} THEN "unresolved" ELSE "resolved",
                  template |-> widget[w].template, app |-> widget[w].app,
                  subject  |-> subject, content |-> content, chosen |-> chosen,
                  version  |-> version, shown |-> visit[c].shown,
                  todo     |-> {}, purpose |-> NoPurpose])
        BY <3>1, <3>4 DEF Submit
      <4>2. QED
        BY <3>2, <4>1
    <3>5. QED
      BY <3>3, <3>4
  <2>3. CASE ResolveVersion(c)
    <3>1. visit[c] \in Submission /\ visit[c].step = "unresolved"
      BY <2>3, VisitIs DEF ResolveVersion
    <3>2. \A v : [visit[c] EXCEPT !.step = "resolved", !.version = v].step = "resolved"
      BY <3>1 DEF Submission
    <3>3. QED
      BY <2>3, <3>1, <3>2, IdleFits DEF ResolveVersion
  <2>4. CASE Refuse(c) \/ RecordCombined(c)
    BY <2>4, IdleFits DEF Refuse, RecordCombined
  <2>5. QED
    BY <2>1, <2>2, <2>3, <2>4
<1>3. \A k \in Consent \ handled' : Same(k)
  <2>1. CASE UNCHANGED records
    BY <2>1 DEF Same, RowsOf, Standing, ConsentOf
  <2>2. CASE RecordCombined(c)
    <3> DEFINE row == Granted(visit[c], NoPurpose)
    <3>1. visit[c] \in Submission /\ visit[c].version # {} /\ records' = Append(records, row)
      BY <2>2, VisitIs DEF RecordCombined, RecordingInv, VisitsFit
    <3>2. row \in Record /\ ConsentOf(row) = <<visit[c].app, visit[c].subject, NoPurpose>>
      BY <3>1, GrantedFits
    <3>3. \A k \in Consent : k # ConsentOf(row)
      BY <3>2, RecordingAssumption DEF Consent
    <3>4. QED
      <4> HIDE DEF row
      <4>1. QED
        BY <3>1, <3>2, <3>3, AppendedIs
  <2>3. QED
    BY <2>1, <2>2 DEF LoadForm, Submit, ResolveVersion, Refuse, Keeps
<1>4. QED
  BY <1>1, <1>2, <1>3, ProceedsOne, QuietGoesOn

LEMMA QuietClients ==
  ASSUME RecordingInv, Answered, NEW c \in Visitors,
         \/ \E id \in Apps \cup Widgets, subject \in Subjects, named \in SUBSET Purposes :
              FindWidget(c, id, subject, named)
         \/ Client(c)
  PROVE  GoOn
<1> DEFINE Quiet == \/ visit' = visit
                    \/ /\ visit[c].step \notin {"loop", "create"}
                       /\ \E to : to.step \notin {"loop", "create"} /\ Proceeds(c, to)
           Still == \A k \in Consent \ handled' : Same(k)
<1>1. CASE \E id \in Apps \cup Widgets, subject \in Subjects, named \in SUBSET Purposes :
              FindWidget(c, id, subject, named)
  <2>1. Quiet /\ said' = said
    BY <1>1, IdleFits DEF FindWidget, Arrives, Keeps
  <2>2. Still
    BY <1>1 DEF FindWidget, Keeps, Same, RowsOf, Standing, ConsentOf
  <2>3. QED
    BY <2>1, <2>2, ProceedsOne, QuietGoesOn
<1>2. CASE \E d \in deployments, subject \in Subjects, purpose \in Purposes \cup {NoPurpose},
              status \in {"GRANTED", "REVOKED"} : CheckDeployment(c, d, subject, purpose, status)
  <2>1. Quiet /\ said' = said
    BY <1>2, IdleFits DEF CheckDeployment, Arrives, Keeps
  <2>2. Still
    BY <1>2 DEF CheckDeployment, Keeps, Same, RowsOf, Standing, ConsentOf
  <2>3. QED
    BY <2>1, <2>2, ProceedsOne, QuietGoesOn
<1>3. CASE Insert(c)
  <2>1. Quiet /\ said' = said
    BY <1>3, IdleFits DEF Insert, Keeps
  <2> DEFINE row == visit[c].row
  <2>2. /\ visit[c].step = "insert" /\ records' = Append(records, row)
        /\ handled' = handled \cup ({ConsentOf(row)} \cap Consent)
    BY <1>3 DEF Insert
  <2>3. row \in Record
    BY <2>2, VisitIs DEF Insertion
  <2>4. Still
    <3> HIDE DEF row
    <3>1. QED
      BY <2>2, <2>3, AppendedIs
  <2>5. QED
    BY <2>1, <2>4, ProceedsOne, QuietGoesOn
<1>4. CASE \E i \in DOMAIN records, status \in {"GRANTED", "REVOKED"} : UpdateRecord(c, i, status)
  <2>1. PICK i \in DOMAIN records, status \in {"GRANTED", "REVOKED"} : UpdateRecord(c, i, status)
    BY <1>4
  <2>2. Quiet /\ said' = said
    BY <2>1 DEF UpdateRecord, Keeps
  <2>3. /\ records' = [records EXCEPT ![i].status = status]
        /\ handled' = handled \cup ({ConsentOf(records[i])} \cap Consent)
    BY <2>1 DEF UpdateRecord
  <2>4. Still
    BY <2>3, UpdateRecordIs DEF Same
  <2>5. QED
    BY <2>2, <2>4, ProceedsOne, QuietGoesOn
<1>5. QED
  BY <1>1, <1>2, <1>3, <1>4 DEF Client

LEMMA StaffGoOn ==
  ASSUME RecordingInv, Answered, UNCHANGED recordVars
  PROVE  GoOn
<1>1. \A k : Same(k)
  BY DEF recordVars, Same, RowsOf, Standing, ConsentOf
<1>2. QED
  BY <1>1, QuietGoesOn DEF recordVars

(***************************************************************************)
(* The steps of the loop.                                                  *)
(***************************************************************************)
\* A purpose is done with: the call still waits for its others.
LEMMA NextPurposeWaits ==
  ASSUME RecordingInv, NEW c \in Visitors, visit[c].step \in {"loop", "create"}, NEW p,
         Proceeds(c, NextPurpose(visit[c], p))
  PROVE  /\ \A k : Waits(c, k)' => Waits(c, k) /\ visit'[c].chosen = visit[c].chosen
         /\ \A k : Waits(c, k) /\ k # <<visit[c].app, visit[c].subject, p>> => Waits(c, k)'
         /\ visit'[c].step # "create"
<1> DEFINE s == visit[c]
           n == NextPurpose(s, p)
<1>1. s \in Submission /\ s.version # {}
  BY VisitIs DEF RecordingInv, VisitsFit
<1>2. visit'[c] = n
  BY ProceedsOne
<1>3. /\ n.step \in {"idle", "loop"}
      /\ n.step = "idle" => s.todo \ {p} = {}
      /\ n.step = "loop" =>
           /\ n.todo = s.todo \ {p} /\ n.app = s.app /\ n.subject = s.subject
           /\ n.chosen = s.chosen
  BY <1>1, NextPurposeIs
<1> HIDE DEF n
<1>4. \A k : Waits(c, k)' => Waits(c, k) /\ visit'[c].chosen = visit[c].chosen
  BY <1>2, <1>3 DEF Waits
<1>5. ASSUME NEW k, Waits(c, k), k # <<s.app, s.subject, p>>
      PROVE  Waits(c, k)'
  <2>1. PICK q \in s.todo : k = <<s.app, s.subject, q>>
    BY <1>5 DEF Waits
  <2>2. q \in s.todo \ {p}
    BY <1>5, <2>1
  <2>3. n.step = "loop"
    BY <1>3, <2>2
  <2>4. QED
    BY <1>2, <1>3, <2>1, <2>2, <2>3 DEF Waits
<1>6. QED
  BY <1>2, <1>3, <1>4, <1>5

\* It is done with when the table says what the call was to say.
LEMMA PurposeDone ==
  ASSUME RecordingInv, Answered, NEW c \in Visitors, visit[c].step \in {"loop", "create"},
         NEW p \in visit[c].todo, Proceeds(c, NextPurpose(visit[c], p)),
         said' = said, handled' = handled,
         NEW key, key = <<visit[c].app, visit[c].subject, p>>,
         \A k : k # key => Same(k),
         p \in visit[c].chosen => Standing(key)' # {},
         p \notin visit[c].chosen => Standing(key)' = {}
  PROVE  /\ Answered'
         /\ \A k \in Consent \ handled' : AnswerGoes(k)
         /\ \A k : Creators(k)' \subseteq Creators(k) \ {c}
<1>1. \A x \in Visitors \ {c} : visit'[x] = visit[x]
  BY ProceedsOne
<1>2. \A x \in Visitors \ {c}, k \in Consent : Waits(x, k)' <=> Waits(x, k)
  BY <1>1 DEF Waits
<1>3. /\ \A k : Waits(c, k)' => Waits(c, k) /\ visit'[c].chosen = visit[c].chosen
      /\ \A k : Waits(c, k) /\ k # key => Waits(c, k)'
      /\ visit'[c].step # "create"
  BY NextPurposeWaits
<1>4. Answered'
  <2> SUFFICES ASSUME NEW x \in Visitors, NEW k \in Consent, Waits(x, k)'
               PROVE  /\ k[3] \in visit'[x].chosen => TRUE \in said[k]
                      /\ k[3] \notin visit'[x].chosen => FALSE \in said[k]
    BY DEF Answered
  <2>1. Waits(x, k) /\ visit'[x].chosen = visit[x].chosen
    BY <1>1, <1>2, <1>3
  <2>2. QED
    BY <2>1 DEF Answered
<1>5. ASSUME NEW k \in Consent
      PROVE  AnswerGoes(k)
  <2>1. CASE k = key
    <3>1. Waits(c, k) /\ k[3] = p
      BY <2>1 DEF Waits
    <3>2. CASE p \in visit[c].chosen
      BY <2>1, <3>1, <3>2 DEF AnswerGoes, Answered
    <3>3. CASE p \notin visit[c].chosen
      BY <2>1, <3>1, <3>3 DEF AnswerGoes, Answered
    <3>4. QED
      BY <3>2, <3>3
  <2>2. CASE k # key
    <3>1. CASE \E x \in Visitors : Waits(x, k)
      BY <1>2, <1>3, <2>2, <3>1 DEF AnswerGoes
    <3>2. CASE \A x \in Visitors : ~Waits(x, k)
      BY <2>2, <3>2 DEF AnswerGoes
    <3>3. QED
      BY <3>1, <3>2
  <2>3. QED
    BY <2>1, <2>2
<1>6. \A k : Creators(k)' \subseteq Creators(k) \ {c}
  BY <1>1, <1>3 DEF Creators
<1>7. QED
  BY <1>4, <1>5, <1>6

LEMMA FindStandingGoesOn ==
  ASSUME RecordingInv, Answered, NEW c \in Visitors, NEW p \in Purposes, FindStanding(c, p)
  PROVE  GoOn
<1> DEFINE s  == visit[c]
           to == [s EXCEPT !.step = "create", !.purpose = p]
<1>0. PICK key : key = <<s.app, s.subject, p>>
  OBVIOUS
<1>1. /\ s.step = "loop" /\ p \in s.todo /\ p \in s.chosen
      /\ UNCHANGED <<records, said, handled>>
  BY DEF FindStanding, Keeps
<1>2. s \in Submission
  BY <1>1, VisitIs
<1>3. \A k : Same(k)
  BY <1>1 DEF Same, RowsOf, Standing, ConsentOf
<1>4. CASE Standing(key) # {} /\ Proceeds(c, NextPurpose(s, p))
  <2>1. /\ Answered'
        /\ \A k \in Consent \ handled' : AnswerGoes(k)
        /\ \A k : Creators(k)' \subseteq Creators(k) \ {c}
    <3>1. Standing(key)' # {}
      BY <1>3, <1>4 DEF Same
    <3>2. QED
      BY <1>0, <1>1, <1>3, <1>4, <3>1, PurposeDone
  <2>2. QED
    BY <1>3, <2>1 DEF GoOn, RowsGo
<1>5. CASE Standing(key) = {} /\ Proceeds(c, to)
  <2>1. /\ to.step = "create" /\ to.purpose = p /\ to.todo = s.todo /\ to.chosen = s.chosen
        /\ to.app = s.app /\ to.subject = s.subject
    BY <1>2 DEF Submission
  <2>2. visit'[c] = to /\ \A x \in Visitors \ {c} : visit'[x] = visit[x]
    <3> HIDE DEF to
    <3>1. QED
      BY <1>5, ProceedsOne
  <2> HIDE DEF to
  <2>3. \A x \in Visitors, k \in Consent :
          /\ Waits(x, k)' <=> Waits(x, k)
          /\ Waits(x, k) => visit'[x].chosen = visit[x].chosen
    BY <1>1, <2>1, <2>2 DEF Waits
  <2>4. Answered'
    BY <1>1, <2>3 DEF Answered
  <2>5. \A k \in Consent : AnswerGoes(k)
    BY <1>1, <1>3, <2>3 DEF AnswerGoes
  <2>6. \A k : k # key => Creators(k)' \subseteq Creators(k)
    BY <1>0, <2>1, <2>2 DEF Creators
  <2>7. Cleared(key)
    BY <1>3, <1>5 DEF Cleared, Same
  <2>8. QED
    BY <1>3, <2>4, <2>5, <2>6, <2>7 DEF GoOn, RowsGo
<1>6. QED
  BY <1>0, <1>4, <1>5 DEF FindStanding

LEMMA CreateRecordGoesOn ==
  ASSUME RecordingInv, Answered, NEW c \in Visitors, CreateRecord(c)
  PROVE  GoOn
<1> DEFINE s == visit[c]
<1>0. PICK p, key, row : p = s.purpose /\ key = <<s.app, s.subject, p>> /\ row = Granted(s, p)
  OBVIOUS
<1>1. /\ s.step = "create" /\ records' = Append(records, row)
      /\ Proceeds(c, NextPurpose(s, p))
      /\ UNCHANGED <<said, handled>>
  BY <1>0 DEF CreateRecord, Keeps
<1>2. /\ s \in Submission /\ s.version # {} /\ p \in s.todo /\ p \in s.chosen
      /\ p \in Purposes \cup {NoPurpose}
  BY <1>0, <1>1, VisitIs DEF RecordingInv, VisitsFit, Submission
<1>3. row \in Record /\ ConsentOf(row) = key /\ row.status = "GRANTED"
  BY <1>0, <1>2, GrantedFits
<1>4. Added(key) /\ \A k : k # key => Same(k)
  BY <1>1, <1>3, AppendedIs
<1>5. /\ Answered'
      /\ \A k \in Consent \ handled' : AnswerGoes(k)
      /\ \A k : Creators(k)' \subseteq Creators(k) \ {c}
  <2>1. Standing(key)' # {}
    BY <1>4 DEF Added
  <2>2. QED
    BY <1>0, <1>1, <1>2, <1>4, <2>1, PurposeDone
<1>6. c \in Creators(key)
  BY <1>0, <1>1 DEF Creators
<1>7. QED
  BY <1>4, <1>5, <1>6 DEF GoOn, RowsGo

LEMMA RevokeUnchosenGoesOn ==
  ASSUME RecordingInv, Answered, NEW c \in Visitors, NEW p \in Purposes, RevokeUnchosen(c, p)
  PROVE  GoOn
<1> DEFINE s == visit[c]
<1>0. PICK key : key = <<s.app, s.subject, p>>
  OBVIOUS
<1>1. /\ s.step = "loop" /\ p \in s.todo /\ p \notin s.chosen
      /\ records' = Revoked({key})
      /\ Proceeds(c, NextPurpose(s, p)) /\ UNCHANGED <<said, handled>>
  BY <1>0 DEF RevokeUnchosen, Keeps
<1>3. Cleared(key) /\ \A k : k # key => Same(k)
  BY <1>1, RevokedIs DEF Cleared, Same
<1>4. /\ Answered'
      /\ \A k \in Consent \ handled' : AnswerGoes(k)
      /\ \A k : Creators(k)' \subseteq Creators(k) \ {c}
  <2>1. Standing(key)' = {}
    BY <1>3 DEF Cleared
  <2>2. QED
    BY <1>0, <1>1, <1>3, <2>1, PurposeDone
<1>5. QED
  BY <1>3, <1>4 DEF GoOn, RowsGo

LEMMA LoopFailsGoesOn ==
  ASSUME RecordingInv, Answered, NEW c \in Visitors, LoopFails(c)
  PROVE  GoOn
<1>1. /\ visit[c].step \in {"loop", "create"} /\ UNCHANGED <<records, handled>>
      /\ Proceeds(c, Idle)
      /\ said' = [k \in Consent |->
           IF \E p \in visit[c].todo : k = <<visit[c].app, visit[c].subject, p>>
           THEN BOOLEAN ELSE said[k]]
  BY DEF LoopFails, Keeps
<1>2. \A k \in Consent : said'[k] = IF Waits(c, k) THEN BOOLEAN ELSE said[k]
  BY <1>1 DEF Waits
<1>3. visit'[c].step = "idle" /\ \A x \in Visitors \ {c} : visit'[x] = visit[x]
  BY <1>1, IdleFits, ProceedsOne
<1>4. \A x \in Visitors \ {c}, k \in Consent : Waits(x, k)' <=> Waits(x, k)
  BY <1>3 DEF Waits
<1>5. \A k \in Consent : ~Waits(c, k)'
  BY <1>3 DEF Waits
<1>6. Answered'
  <2> SUFFICES ASSUME NEW x \in Visitors, NEW k \in Consent, Waits(x, k)'
               PROVE  /\ k[3] \in visit'[x].chosen => TRUE \in said'[k]
                      /\ k[3] \notin visit'[x].chosen => FALSE \in said'[k]
    BY DEF Answered
  <2>1. x # c /\ Waits(x, k) /\ visit'[x] = visit[x]
    BY <1>3, <1>4, <1>5
  <2>2. QED
    BY <1>2, <2>1 DEF Answered
<1>7. \A k : Same(k)
  BY <1>1 DEF Same, RowsOf, Standing, ConsentOf
<1>8. \A k \in Consent : AnswerGoes(k)
  BY <1>2, <1>4, <1>7 DEF AnswerGoes
<1>9. \A k \in Consent : Creators(k)' \subseteq Creators(k)
  BY <1>3 DEF Creators
<1>10. QED
  BY <1>6, <1>7, <1>8, <1>9 DEF GoOn, RowsGo

\* What is said beside calls that wait adds to what they say.
LEMMA SaysBeside ==
  ASSUME RecordingInv, NEW c \in Visitors, NEW k \in Consent, NEW x \in Visitors \ {c},
         Waits(x, k), NEW yes
  PROVE  said[k] \subseteq Says(c, k, yes)
<1>1. Pending(c, k)
  BY DEF Waits, Pending
<1>2. QED
  BY <1>1 DEF Says

LEMMA BeginSeparateGoesOn ==
  ASSUME RecordingInv, Answered, NEW c \in Visitors, BeginSeparate(c)
  PROVE  GoOn
<1> DEFINE s      == visit[c]
           to     == [s EXCEPT !.step = "loop", !.todo = PurposesOf[s.template]]
           Hit(k) == \E p \in PurposesOf[s.template] : k = <<s.app, s.subject, p>>
<1>1. /\ s.step = "resolved" /\ Proceeds(c, to) /\ UNCHANGED <<records, handled>>
      /\ said' = [k \in Consent |-> IF Hit(k) THEN Says(c, k, k[3] \in s.chosen) ELSE said[k]]
  BY DEF BeginSeparate, Keeps
<1>2. s \in Submission
  BY <1>1, VisitIs
<1>3. /\ to.step = "loop" /\ to.todo = PurposesOf[s.template] /\ to.chosen = s.chosen
      /\ to.app = s.app /\ to.subject = s.subject
  BY <1>2 DEF Submission
<1>4. visit'[c] = to /\ \A x \in Visitors \ {c} : visit'[x] = visit[x]
  <2> HIDE DEF to
  <2>1. QED
    BY <1>1, ProceedsOne
<1>5. \A k \in Consent : Waits(c, k)' <=> Hit(k)
  <2> HIDE DEF to
  <2>1. QED
    BY <1>3, <1>4 DEF Waits
<1>6. \A x \in Visitors \ {c}, k \in Consent : Waits(x, k)' <=> Waits(x, k)
  BY <1>4 DEF Waits
<1>7. \A k \in Consent : ~Waits(c, k)
  BY <1>1 DEF Waits
<1>8. ASSUME NEW k \in Consent, Hit(k)
      PROVE  /\ k[3] \in s.chosen => TRUE \in said'[k]
             /\ k[3] \notin s.chosen => FALSE \in said'[k]
  <2>1. said'[k] = Says(c, k, k[3] \in s.chosen)
    BY <1>1, <1>8
  <2>2. CASE k[3] \in s.chosen
    <3>1. (k[3] \in s.chosen) = TRUE
      BY <2>2
    <3>2. said'[k] = Says(c, k, TRUE)
      BY <2>1, <3>1
    <3>3. QED
      BY <2>2, <3>2, SaysFits
  <2>3. CASE k[3] \notin s.chosen
    <3>1. (k[3] \in s.chosen) = FALSE
      BY <2>3
    <3>2. said'[k] = Says(c, k, FALSE)
      BY <2>1, <3>1
    <3>3. QED
      BY <2>3, <3>2, SaysFits
  <2>4. QED
    BY <2>2, <2>3
<1>9. \A x \in Visitors \ {c}, k \in Consent : Waits(x, k) => said[k] \subseteq said'[k]
  BY <1>1, SaysBeside
<1> HIDE DEF to, Hit
<1>10. Answered'
  <2> SUFFICES ASSUME NEW x \in Visitors, NEW k \in Consent, Waits(x, k)'
               PROVE  /\ k[3] \in visit'[x].chosen => TRUE \in said'[k]
                      /\ k[3] \notin visit'[x].chosen => FALSE \in said'[k]
    BY DEF Answered
  <2>1. CASE x = c
    BY <1>3, <1>4, <1>5, <1>8, <2>1
  <2>2. CASE x # c
    BY <1>4, <1>6, <1>9, <2>2 DEF Answered
  <2>3. QED
    BY <2>1, <2>2
<1>11. \A k : Same(k)
  BY <1>1 DEF Same, RowsOf, Standing, ConsentOf
<1>12. ASSUME NEW k \in Consent
       PROVE  AnswerGoes(k)
  <2>1. CASE Hit(k)
    BY <1>5, <2>1 DEF AnswerGoes
  <2>2. CASE ~Hit(k)
    BY <1>1, <1>6, <1>7, <1>11, <2>2 DEF AnswerGoes
  <2>3. QED
    BY <2>1, <2>2
<1>13. \A k \in Consent : Creators(k)' \subseteq Creators(k)
  BY <1>3, <1>4 DEF Creators
<1>14. QED
  BY <1>10, <1>11, <1>12, <1>13 DEF GoOn, RowsGo

LEMMA WithdrawGoesOn ==
  ASSUME RecordingInv, Answered, NEW c \in Visitors, Withdraw(c)
  PROVE  GoOn
<1>0. PICK keys : keys = {<<visit[c].app, visit[c].subject, p>> : p \in visit[c].scope}
  OBVIOUS
<1>1. /\ visit[c].step = "withdraw" /\ records' = Revoked(keys) /\ Proceeds(c, Idle)
      /\ handled' = handled
      /\ said' = [k \in Consent |-> IF k \in keys THEN Says(c, k, FALSE) ELSE said[k]]
  BY <1>0 DEF Withdraw, Keeps
<1>2. visit'[c].step = "idle" /\ \A x \in Visitors \ {c} : visit'[x] = visit[x]
  BY <1>1, IdleFits, ProceedsOne
<1>3. \A x \in Visitors, k \in Consent : Waits(x, k)' <=> x # c /\ Waits(x, k)
  BY <1>2 DEF Waits
<1>4. \A k \in Consent : ~Waits(c, k)
  BY <1>1 DEF Waits
<1>5. \A x \in Visitors \ {c}, k \in Consent : Waits(x, k) => said[k] \subseteq said'[k]
  BY <1>1, SaysBeside
<1>6. Answered'
  <2> SUFFICES ASSUME NEW x \in Visitors, NEW k \in Consent, Waits(x, k)'
               PROVE  /\ k[3] \in visit'[x].chosen => TRUE \in said'[k]
                      /\ k[3] \notin visit'[x].chosen => FALSE \in said'[k]
    BY DEF Answered
  <2>1. QED
    BY <1>2, <1>3, <1>5 DEF Answered
<1>7. /\ \A k \in keys : Cleared(k)
      /\ \A k : k \notin keys => Same(k)
  BY <1>1, RevokedIs DEF Cleared, Same
<1>8. ASSUME NEW k \in Consent
      PROVE  AnswerGoes(k)
  <2>1. CASE k \in keys
    <3>1. FALSE \in said'[k]
      BY <1>1, <2>1, SaysFits
    <3>2. QED
      BY <1>7, <2>1, <3>1 DEF AnswerGoes, Cleared
  <2>2. CASE k \notin keys
    BY <1>1, <1>3, <1>4, <1>7, <2>2 DEF AnswerGoes
  <2>3. QED
    BY <2>1, <2>2
<1>9. \A k \in Consent : Creators(k)' \subseteq Creators(k)
  BY <1>2 DEF Creators
<1>10. QED
  BY <1>6, <1>7, <1>8, <1>9 DEF GoOn, RowsGo

LEMMA EveryStepGoesOn ==
  ASSUME RecordingInv, Answered, [RecordingNext]_allVars
  PROVE  GoOn
<1>1. CASE UNCHANGED recordVars
  BY <1>1, StaffGoOn
<1>2. ASSUME NEW c \in Visitors, SubmitForm(c)
      PROVE  GoOn
  BY <1>2, QuietSubmits, BeginSeparateGoesOn, FindStandingGoesOn, RevokeUnchosenGoesOn,
     CreateRecordGoesOn, LoopFailsGoesOn DEF SubmitForm
<1>3. ASSUME NEW c \in Visitors, WithdrawConsent(c)
      PROVE  GoOn
  BY <1>3, QuietClients, WithdrawGoesOn DEF WithdrawConsent
<1>4. ASSUME NEW c \in Visitors, Client(c)
      PROVE  GoOn
  BY <1>4, QuietClients
<1>5. QED
  BY <1>1, <1>2, <1>3, <1>4 DEF RecordingNext, allVars

(***************************************************************************)
(* What is kept.                                                           *)
(***************************************************************************)
\* A consent's newest record stands, if any does.
NewestTells ==
  \A k \in Consent \ handled : RowsOf(k) # {} =>
    \E m \in RowsOf(k) : /\ \A i \in RowsOf(k) : i =< m
                         /\ Standing(k) # {} => m \in Standing(k)

\* The records that stand, and those about to be created, are no more than
\* the calls.
StandingCounted ==
  \A k \in Consent \ handled :
    /\ IsFiniteSet(Standing(k))
    /\ Cardinality(Standing(k)) + Cardinality(Creators(k)) =< Cardinality(Visitors)

ConsentsInv ==
  RecordingInv /\ Answered /\ NewestTells /\ StandingCounted /\ AnswersAreKept

LEMMA HandledGrows ==
  ASSUME [RecordingNext]_allVars
  PROVE  handled \subseteq handled'
BY DEF RecordingNext, allVars, recordVars, SubmitForm, LoadForm, Submit, ResolveVersion, Refuse,
       RecordCombined, BeginSeparate, FindStanding, RevokeUnchosen, CreateRecord, LoopFails,
       WithdrawConsent, FindWidget, Withdraw, Client, CheckDeployment, Insert, UpdateRecord, Keeps

LEMMA SomeVisitors ==
  /\ Cardinality(Visitors) \in Nat
  /\ \A S \in SUBSET Visitors :
       IsFiniteSet(S) /\ Cardinality(S) \in Nat /\ Cardinality(S) =< Cardinality(Visitors)
BY RecordingAssumption, FS_CardinalityType, FS_Subset

LEMMA NewestGoesOn ==
  ASSUME RecordingInv, NewestTells, handled \subseteq handled',
         \A k \in Consent \ handled' : RowsGo(k)
  PROVE  NewestTells'
<1> DEFINE n == Len(records)
<1>1. n \in Nat /\ \A k : \A i \in RowsOf(k) : i \in 1 .. n
  BY DEF RecordingInv, RecordsFit, RowsOf
<1>2. SUFFICES ASSUME NEW k \in Consent \ handled', RowsOf(k)' # {}
               PROVE  \E m \in RowsOf(k)' : /\ \A i \in RowsOf(k)' : i =< m
                                            /\ Standing(k)' # {} => m \in Standing(k)'
  BY DEF NewestTells
<1>3. k \in Consent \ handled /\ RowsGo(k)
  OBVIOUS
<1>4. CASE Same(k) \/ Cleared(k)
  BY <1>2, <1>3, <1>4 DEF Same, Cleared, NewestTells
<1>5. CASE Added(k)
  <2> HIDE DEF n
  <2>1. RowsOf(k)' = RowsOf(k) \cup {n + 1} /\ n + 1 \in Standing(k)'
    BY <1>5 DEF Added, n
  <2>2. \A i \in RowsOf(k) \cup {n + 1} : i =< n + 1
    BY <1>1
  <2>3. QED
    BY <2>1, <2>2
<1>6. QED
  BY <1>3, <1>4, <1>5 DEF RowsGo

LEMMA CountGoesOn ==
  ASSUME RecordingInv, StandingCounted, handled \subseteq handled',
         \A k \in Consent \ handled' : RowsGo(k)
  PROVE  StandingCounted'
<1> SUFFICES ASSUME NEW k \in Consent \ handled'
             PROVE  /\ IsFiniteSet(Standing(k)')
                    /\ Cardinality(Standing(k)') + Cardinality(Creators(k)')
                         =< Cardinality(Visitors)
  BY DEF StandingCounted
<1>1. /\ IsFiniteSet(Standing(k)) /\ RowsGo(k)
      /\ Cardinality(Standing(k)) + Cardinality(Creators(k)) =< Cardinality(Visitors)
  BY DEF StandingCounted
<1>2. Creators(k) \in SUBSET Visitors /\ Creators(k)' \in SUBSET Visitors
  BY DEF Creators
<1>3. /\ IsFiniteSet(Creators(k)) /\ Cardinality(Creators(k)) \in Nat
      /\ Cardinality(Creators(k)') \in Nat
      /\ Cardinality(Creators(k)') =< Cardinality(Visitors)
      /\ Cardinality(Standing(k)) \in Nat /\ Cardinality(Visitors) \in Nat
  BY <1>1, <1>2, SomeVisitors, FS_CardinalityType
<1>4. CASE Same(k) /\ Creators(k)' \subseteq Creators(k)
  <2>1. Cardinality(Creators(k)') =< Cardinality(Creators(k))
    BY <1>3, <1>4, FS_Subset
  <2>2. QED
    BY <1>1, <1>3, <1>4, <2>1 DEF Same
<1>5. CASE Cleared(k)
  BY <1>3, <1>5, FS_EmptySet DEF Cleared
<1>6. CASE Added(k) /\ \E c \in Creators(k) : Creators(k)' \subseteq Creators(k) \ {c}
  <2>1. PICK c \in Creators(k) : Creators(k)' \subseteq Creators(k) \ {c}
    BY <1>6
  <2>2. /\ IsFiniteSet(Creators(k) \ {c})
        /\ Cardinality(Creators(k) \ {c}) = Cardinality(Creators(k)) - 1
    BY <1>3, FS_RemoveElement
  <2>3. Cardinality(Creators(k)') =< Cardinality(Creators(k)) - 1
    BY <2>1, <2>2, FS_Subset
  <2>4. /\ IsFiniteSet(Standing(k)') /\ Cardinality(Standing(k)') \in Nat
        /\ Cardinality(Standing(k)') =< Cardinality(Standing(k)) + 1
    <3>1. Standing(k)' \in SUBSET (Standing(k) \cup {Len(records) + 1})
      BY <1>6 DEF Added
    <3>2. QED
      BY <1>1, <3>1, AtMostOneMore
  <2>5. QED
    BY <1>1, <1>3, <2>3, <2>4
<1>7. QED
  BY <1>1, <1>4, <1>5, <1>6 DEF RowsGo

LEMMA WaitsIs ==
  ASSUME RecordingInv, NEW k, NEW c \in Visitors
  PROVE  Waits(c, k) <=> \E p \in Purposes :
           /\ visit[c].step \in {"loop", "create"}
           /\ p \in visit[c].todo
           /\ k = <<visit[c].app, visit[c].subject, p>>
<1>1. visit[c].step \in {"loop", "create"} => visit[c].todo \subseteq Purposes
  BY VisitIs DEF Submission
<1>2. QED
  BY <1>1 DEF Waits

LEMMA AnswersGoOn ==
  ASSUME RecordingInv, RecordingInv', AnswersAreKept, handled \subseteq handled',
         \A k \in Consent \ handled' : AnswerGoes(k)
  PROVE  AnswersAreKept'
<1> SUFFICES ASSUME NEW k \in Consent \ handled', \A c \in Visitors : ~Waits(c, k)'
             PROVE  (Standing(k)' # {} <=> TRUE \in said'[k]) \/ said'[k] = BOOLEAN
  <2>1. \A k \in Consent, c \in Visitors :
          Waits(c, k)' => \E p \in Purposes :
             /\ visit'[c].step \in {"loop", "create"}
             /\ p \in visit'[c].todo
             /\ k = <<visit'[c].app, visit'[c].subject, p>>
    <3>1. \A c \in Visitors : visit'[c].step \in {"loop", "create"}
                                => visit'[c].todo \subseteq Purposes
      <4>1. \A c \in Visitors : visit'[c] \in Visit
        BY DEF RecordingInv, VisitsFit
      <4>2. QED
        BY <4>1, VisitFields DEF Submission
    <3>2. QED
      BY <3>1 DEF Waits
  <2>2. QED
    BY <2>1 DEF AnswersAreKept
<1>1. k \in Consent \ handled /\ AnswerGoes(k) /\ said'[k] \subseteq BOOLEAN
  BY DEF RecordingInv, HistoryFits
<1>2. CASE Same(k) /\ said'[k] = said[k] /\ \A c \in Visitors : ~Waits(c, k)
  <2>1. (Standing(k) # {} <=> TRUE \in said[k]) \/ said[k] = BOOLEAN
    BY <1>1, <1>2, WaitsIs DEF AnswersAreKept
  <2>2. QED
    BY <1>2, <2>1 DEF Same
<1>3. CASE Standing(k)' # {} /\ TRUE \in said'[k]
  BY <1>3
<1>4. CASE Standing(k)' = {} /\ FALSE \in said'[k]
  <2>1. CASE TRUE \in said'[k]
    BY <1>1, <1>4, <2>1
  <2>2. CASE TRUE \notin said'[k]
    BY <1>4, <2>2
  <2>3. QED
    BY <2>1, <2>2
<1>5. QED
  BY <1>1, <1>2, <1>3, <1>4 DEF AnswerGoes

LEMMA ConsentsStart == RecordingInit => ConsentsInv
<1> SUFFICES ASSUME RecordingInit PROVE ConsentsInv
  OBVIOUS
<1>1. RecordingInv
  BY RecordingStarts
<1>2. \A k : RowsOf(k) = {} /\ Standing(k) = {}
  BY DEF RecordingInit, RowsOf, Standing
<1>3. \A c \in Visitors : visit[c].step = "idle"
  BY DEF RecordingInit, Idle
<1>4. \A k : Creators(k) = {} /\ \A c \in Visitors : ~Waits(c, k)
  BY <1>3 DEF Creators, Waits
<1>5. Answered /\ NewestTells
  BY <1>2, <1>4 DEF Answered, NewestTells
<1>6. StandingCounted
  BY <1>2, <1>4, FS_EmptySet, SomeVisitors DEF StandingCounted
<1>7. \A k \in Consent : said[k] = {FALSE}
  BY DEF RecordingInit
<1>8. AnswersAreKept
  BY <1>2, <1>7 DEF AnswersAreKept
<1>9. QED
  BY <1>1, <1>5, <1>6, <1>8 DEF ConsentsInv

LEMMA ConsentsStep == ConsentsInv /\ [RecordingNext]_allVars => ConsentsInv'
<1> SUFFICES ASSUME ConsentsInv, [RecordingNext]_allVars PROVE ConsentsInv'
  OBVIOUS
<1>1. RecordingInv' /\ GoOn /\ handled \subseteq handled'
  BY RecordingStep, EveryStepGoesOn, HandledGrows DEF ConsentsInv
<1>2. QED
  BY <1>1, NewestGoesOn, CountGoesOn, AnswersGoOn DEF ConsentsInv, GoOn

LEMMA ConsentsAlways == RecordingSpec => []ConsentsInv
BY ConsentsStart, ConsentsStep, PTL DEF RecordingSpec

\* However submissions race, and whatever they leave, a purpose is reported
\* GRANTED exactly when some record of it stands.
THEOREM StatusStaysTrue == RecordingSpec => []StatusIsTruth
<1>1. ConsentsInv => StatusIsTruth
  <2> SUFFICES ASSUME ConsentsInv, NEW k \in Consent \ handled
               PROVE  PurposeStatus(k) = "GRANTED" <=> Standing(k) # {}
    BY DEF StatusIsTruth
  <2>1. CASE RowsOf(k) = {}
    BY <2>1 DEF PurposeStatus, Standing
  <2>2. CASE RowsOf(k) # {}
    <3>1. PICK m \in RowsOf(k) : /\ \A i \in RowsOf(k) : i =< m
                                 /\ Standing(k) # {} => m \in Standing(k)
      BY <2>2 DEF ConsentsInv, NewestTells
    <3>2. RowsOf(k) \subseteq Nat
      BY DEF RowsOf, ConsentsInv, RecordingInv, RecordsFit
    <3>3. Max(RowsOf(k)) \in RowsOf(k) /\ \A i \in RowsOf(k) : Max(RowsOf(k)) >= i
      BY <3>1, <3>2 DEF Max
    <3>4. Max(RowsOf(k)) = m
      BY <3>1, <3>2, <3>3
    <3>5. QED
      BY <2>2, <3>1, <3>4 DEF PurposeStatus, Standing
  <2>3. QED
    BY <2>1, <2>2
<1>2. QED
  BY <1>1, ConsentsAlways, PTL

\* No more records of one consent stand than calls are in flight at a time.
THEOREM StandingStaysWithinCalls == RecordingSpec => []StandingWithinCalls
<1>1. ConsentsInv => StandingWithinCalls
  <2> SUFFICES ASSUME ConsentsInv, NEW k \in Consent \ handled
               PROVE  Cardinality(Standing(k)) =< Cardinality(Visitors)
    BY DEF StandingWithinCalls
  <2>1. /\ IsFiniteSet(Standing(k))
        /\ Cardinality(Standing(k)) + Cardinality(Creators(k)) =< Cardinality(Visitors)
    BY DEF ConsentsInv, StandingCounted
  <2>2. Creators(k) \in SUBSET Visitors
    BY DEF Creators
  <2>3. QED
    BY <2>1, <2>2, SomeVisitors, FS_CardinalityType
<1>2. QED
  BY <1>1, ConsentsAlways, PTL

\* When no submission has a purpose before it any more, the table holds an
\* answer that one of the last ones gave.
THEOREM AnswersStayKept == RecordingSpec => []AnswersAreKept
<1>1. ConsentsInv => AnswersAreKept
  BY DEF ConsentsInv
<1>2. QED
  BY <1>1, ConsentsAlways, PTL
=============================================================================
