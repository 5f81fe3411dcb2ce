-------------------------- MODULE ConsentRecording ---------------------------
(***************************************************************************)
(* What visitors do with the widgets of ConsentVersions: they load a form, *)
(* submit it, and withdraw; ConsentWidgetService finds the widget and the  *)
(* version in force and writes ConsentRecord rows, one for each purpose    *)
(* when consents are separate, statement by statement.  Clients of the API *)
(* write records too.                                                      *)
(***************************************************************************)
EXTENDS ConsentVersions

CONSTANTS
  Visitors,       \* calls in flight at a time
  Subjects,       \* who consents: the hash of an email or phone
  Purposes,       \* the purposes of all templates
  NoPurpose,      \* purposeId null: one consent for all purposes
  PurposesOf,     \* PurposesOf[t]: the purposes of template t
  VisitRoutes,    \* the calls visitors and clients make
  MaxVisits       \* bound: those calls

ASSUME RecordingAssumption ==
  /\ IsFiniteSet(Visitors)
  /\ NoPurpose \notin Purposes
  /\ PurposesOf \in [Templates -> SUBSET Purposes]
  /\ MaxVisits \in Nat

VARIABLES
  records,    \* the ConsentRecord rows in order of grantedAt
  visit,      \* visit[c]: the call c has in flight
  visits,     \* those calls so far
  said,       \* history: what the submissions that are under way, or else the
              \* last one, said of a purpose of a subject on an application
  handled     \* history: the consents that clients of the API wrote to

recordVars == <<records, visit, visits, said, handled>>
allVars == <<vars, recordVars>>

Consent == Apps \X Subjects \X Purposes
Record  == [app : Apps, subject : Subjects, purpose : Purposes \cup {NoPurpose},
            version : VersionId, status : {"GRANTED", "REVOKED"}, shown : SUBSET VersionId]
ConsentOf(r) == <<r.app, r.subject, r.purpose>>

Form       == [step : {"form"}, id : Apps \cup Widgets, shown : SUBSET VersionId]
Submission == [step : {"unresolved", "resolved", "loop", "create"}, template : Templates,
               app : Apps, subject : Subjects, content : Contents, chosen : SUBSET Purposes,
               version : SUBSET VersionId, shown : SUBSET VersionId,
               todo : SUBSET Purposes, purpose : Purposes \cup {NoPurpose}]
Withdrawal == [step : {"withdraw"}, app : Apps, subject : Subjects,
               scope : SUBSET (Purposes \cup {NoPurpose})]
Insertion  == [step : {"insert"}, row : Record]

RecordingTypeOK ==
  /\ VersionsTypeOK
  /\ records \in Seq(Record)
  /\ visit \in [Visitors -> {Idle} \cup Form \cup Submission \cup Withdrawal \cup Insertion]
  /\ visits \in 0 .. MaxVisits
  /\ said \in [Consent -> SUBSET BOOLEAN]
  /\ handled \subseteq Consent

RecordingInit ==
  /\ Init
  /\ records = <<>>
  /\ visit = [c \in Visitors |-> Idle]
  /\ visits = 0
  /\ said = [k \in Consent |-> {FALSE}]
  /\ handled = {}

------------------------------------------------------------------------------
(* The widget and the version in force.                                    *)

Active(w) == widget[w].status = "WIDGET_ACTIVE"

\* getPublicWidgetConfig: by the widget's id, else the one of the application
\* that was written last.
ServedWidgets(id) ==
  IF id \in Widgets /\ Active(id) THEN {id}
  ELSE {w \in Widgets :
          /\ Active(w)
          /\ widget[w].app = id
          /\ \A x \in Widgets : Active(x) /\ widget[x].app = id
                                  => widget[x].touched =< widget[w].touched}

Newest(rows) == {d \in rows : \A x \in rows : x.at =< d.at}

LiveOn(app) == {d \in deployments : Live(d) /\ d.app = app}

\* The deployment whose content the form is made from: of the widget's template.
Displayed(w) ==
  Newest({d \in LiveOn(widget[w].app) : d.version[1] = widget[w].template})

\* The one that resolveConsentVersion takes: the application's newest, of
\* whichever template.
InForce(app) == Newest(LiveOn(app))

Versions(rows) == {d.version : d \in rows}

\* The content of one of several equally new deployments, or the template's own.
FormContents(w) ==
  IF Displayed(w) = {} THEN {template[widget[w].template].fields}
  ELSE {versions[v[1]][v[2]].content : v \in Versions(Displayed(w))}

\* At most one of a set, none only when it is empty.
OneOf(set) == IF set = {} THEN {{}} ELSE {{x} : x \in set}

------------------------------------------------------------------------------
(* Calls.                                                                  *)

Arrives(c, route) ==
  /\ route \in VisitRoutes
  /\ visit[c] = Idle
  /\ visits < MaxVisits
  /\ visits' = visits + 1

Proceeds(c, to) == visit' = [visit EXCEPT ![c] = to]

Keeps(part) == UNCHANGED <<vars, part>>

\* The visitor's browser loads the form; the route names a widget or an
\* application.
LoadForm(c, id) ==
  /\ Arrives(c, "submit")
  /\ \E w \in ServedWidgets(id) : \E shown \in OneOf(Versions(Displayed(w))) :
       Proceeds(c, [step |-> "form", id |-> id, shown |-> shown])
  /\ Keeps(<<records, said, handled>>)

\* recordPublicConsent: the widget and the deployments are read again.
Submit(c, subject, chosen) ==
  LET f == visit[c] IN
  /\ f.step = "form"
  /\ IF ServedWidgets(f.id) = {}
     THEN Proceeds(c, Idle)
     ELSE \E w \in ServedWidgets(f.id) :
          \E content \in FormContents(w), version \in OneOf(Versions(InForce(widget[w].app))) :
            Proceeds(c,
                 [step     |-> IF version = {} THEN "unresolved" ELSE "resolved",
                  template |-> widget[w].template, app |-> widget[w].app,
                  subject  |-> subject, content |-> content, chosen |-> chosen,
                  version  |-> version, shown |-> f.shown,
                  todo     |-> {}, purpose |-> NoPurpose])
  /\ Keeps(<<records, visits, said, handled>>)

\* Nothing is deployed: the highest version of the template, none of which is
\* ever archived.
ResolveVersion(c) ==
  LET s == visit[c] IN
  /\ s.step = "unresolved"
  /\ IF versions[s.template] = <<>>
     THEN Proceeds(c, Idle)
     ELSE \E i \in DOMAIN versions[s.template] :
            /\ versions[s.template][i].number = Highest(s.template)
            /\ Proceeds(c, [s EXCEPT !.step = "resolved", !.version = {<<s.template, i>>}])
  /\ Keeps(<<records, visits, said, handled>>)

\* No guardian, no verified code, or no verified Aadhaar number.
Refuse(c) ==
  /\ visit[c].step = "resolved"
  /\ Proceeds(c, Idle)
  /\ Keeps(<<records, visits, said, handled>>)

Granted(s, p) ==
  [app |-> s.app, subject |-> s.subject, purpose |-> p, status |-> "GRANTED",
   version |-> CHOOSE v \in s.version : TRUE, shown |-> s.shown]

Separate(s) == s.content = "separate" /\ PurposesOf[s.template] # {}

\* recordCombinedConsent inserts, whatever is on record already.
RecordCombined(c) ==
  LET s == visit[c] IN
  /\ s.step = "resolved"
  /\ ~Separate(s)
  /\ records' = Append(records, Granted(s, NoPurpose))
  /\ Proceeds(c, Idle)
  /\ Keeps(<<visits, said, handled>>)

------------------------------------------------------------------------------
(* recordSeparatePurposeConsents: each purpose in turn, in the order the   *)
(* template's purposes come.                                               *)

\* Another call has yet to come to this consent.
Pending(c, k) == \E x \in Visitors \ {c} :
  /\ visit[x].step \in {"loop", "create"}
  /\ \E p \in visit[x].todo : k = <<visit[x].app, visit[x].subject, p>>

\* c has its say: alone, or beside the others who are still at it.
Says(c, k, yes) == IF Pending(c, k) THEN said[k] \cup {yes} ELSE {yes}

BeginSeparate(c) ==
  LET s == visit[c] IN
  /\ s.step = "resolved"
  /\ Separate(s)
  /\ Proceeds(c, [s EXCEPT !.step = "loop", !.todo = PurposesOf[s.template]])
  /\ said' = [k \in Consent |->
       IF \E p \in PurposesOf[s.template] : k = <<s.app, s.subject, p>>
       THEN Says(c, k, k[3] \in s.chosen) ELSE said[k]]
  /\ Keeps(<<records, visits, handled>>)

\* Mutant: the loop returns where it should continue.
NextPurposeNone(s, p) == Idle

NextPurpose(s, p) ==
  IF s.todo \ {p} = {} THEN Idle
  ELSE [s EXCEPT !.step = "loop", !.todo = @ \ {p}, !.purpose = NoPurpose]

RowsOf(k) == {i \in DOMAIN records : ConsentOf(records[i]) = k}
Standing(k) == {i \in RowsOf(k) : records[i].status = "GRANTED"}

\* Mutant: no look for a consent that stands.
FindNothing(c, p) ==
  LET s == visit[c] IN
  /\ s.step = "loop"
  /\ p \in s.todo \cap s.chosen
  /\ Proceeds(c, [s EXCEPT !.step = "create", !.purpose = p])
  /\ Keeps(<<records, visits, said, handled>>)

\* findFirst: a consent that stands is kept as it is, and no row is written.
FindStanding(c, p) ==
  LET s == visit[c] IN
  /\ s.step = "loop"
  /\ p \in s.todo \cap s.chosen
  /\ IF Standing(<<s.app, s.subject, p>>) # {}
     THEN Proceeds(c, NextPurpose(s, p))
     ELSE Proceeds(c, [s EXCEPT !.step = "create", !.purpose = p])
  /\ Keeps(<<records, visits, said, handled>>)

CreateRecord(c) ==
  LET s == visit[c] IN
  /\ s.step = "create"
  /\ records' = Append(records, Granted(s, s.purpose))
  /\ Proceeds(c, NextPurpose(s, s.purpose))
  /\ Keeps(<<visits, said, handled>>)

\* Mutant: one row is updated, where several may stand.
RevokedNewest(keys) ==
  [i \in DOMAIN records |->
     IF \E k \in keys : Standing(k) # {} /\ i = Max(Standing(k))
     THEN [records[i] EXCEPT !.status = "REVOKED"] ELSE records[i]]

\* Mutant: a status the enum does not have.
RevokedWithdrawn(keys) ==
  [i \in DOMAIN records |->
     IF i \in UNION {Standing(k) : k \in keys}
     THEN [records[i] EXCEPT !.status = "WITHDRAWN"] ELSE records[i]]

\* updateMany of the rows that stand, in one statement.
Revoked(keys) ==
  [i \in DOMAIN records |->
     IF i \in UNION {Standing(k) : k \in keys}
     THEN [records[i] EXCEPT !.status = "REVOKED"] ELSE records[i]]

\* A purpose that was not chosen is revoked.
RevokeUnchosen(c, p) ==
  LET s == visit[c] IN
  /\ s.step = "loop"
  /\ p \in s.todo \ s.chosen
  /\ records' = Revoked({<<s.app, s.subject, p>>})
  /\ Proceeds(c, NextPurpose(s, p))
  /\ Keeps(<<visits, said, handled>>)

\* A statement fails: what was written stays, the other purposes are not
\* reached, and either answer may be the one on record.
LoopFails(c) ==
  LET s == visit[c] IN
  /\ s.step \in {"loop", "create"}
  /\ Proceeds(c, Idle)
  /\ said' = [k \in Consent |->
       IF \E p \in s.todo : k = <<s.app, s.subject, p>> THEN BOOLEAN ELSE said[k]]
  /\ Keeps(<<records, visits, handled>>)

------------------------------------------------------------------------------
(* withdrawConsent.                                                        *)

\* The purposes named, or every one, or the consent that has none, by the form
\* the widget shows now.
Scopes(w, named) ==
  IF named # {} THEN {PurposesOf[widget[w].template] \cap named}
  ELSE {IF content = "separate" THEN Purposes ELSE {NoPurpose} : content \in FormContents(w)}

FindWidget(c, id, subject, named) ==
  /\ Arrives(c, "withdraw")
  /\ \E w \in ServedWidgets(id) : \E scope \in Scopes(w, named) \ {{}} :
       Proceeds(c, [step |-> "withdraw", app |-> widget[w].app,
                    subject |-> subject, scope |-> scope])
  /\ Keeps(<<records, said, handled>>)

Withdraw(c) ==
  LET w == visit[c]
      keys == {<<w.app, w.subject, p>> : p \in w.scope}
  IN
  /\ w.step = "withdraw"
  /\ records' = Revoked(keys)
  /\ Proceeds(c, Idle)
  /\ said' = [k \in Consent |-> IF k \in keys THEN Says(c, k, FALSE) ELSE said[k]]
  /\ Keeps(<<visits, handled>>)

------------------------------------------------------------------------------
(* ConsentRecordsService: create and update by clients of the API.         *)

\* The deployment must be active; its status is not looked at.
CheckDeployment(c, d, subject, purpose, status) ==
  /\ Arrives(c, "create")
  /\ d.active
  /\ Proceeds(c, [step |-> "insert", row |->
       [app |-> d.app, subject |-> subject, purpose |-> purpose,
        version |-> d.version, status |-> status, shown |-> {}]])
  /\ Keeps(<<records, said, handled>>)

Insert(c) ==
  LET row == visit[c].row IN
  /\ visit[c].step = "insert"
  /\ records' = Append(records, row)
  /\ Proceeds(c, Idle)
  /\ handled' = handled \cup ({ConsentOf(row)} \cap Consent)
  /\ Keeps(<<visits, said>>)

UpdateRecord(c, i, status) ==
  /\ Arrives(c, "update")
  /\ records' = [records EXCEPT ![i].status = status]
  /\ handled' = handled \cup ({ConsentOf(records[i])} \cap Consent)
  /\ Keeps(<<visit, said>>)

------------------------------------------------------------------------------
SubmitForm(c) ==
  \/ \E id \in Apps \cup Widgets : LoadForm(c, id)
  \/ \E subject \in Subjects, chosen \in SUBSET Purposes : Submit(c, subject, chosen)
  \/ ResolveVersion(c)
  \/ Refuse(c)
  \/ RecordCombined(c)
  \/ BeginSeparate(c)
  \/ \E p \in Purposes : FindStanding(c, p) \/ RevokeUnchosen(c, p)
  \/ CreateRecord(c)
  \/ LoopFails(c)

WithdrawConsent(c) ==
  \/ \E id \in Apps \cup Widgets, subject \in Subjects, named \in SUBSET Purposes :
       FindWidget(c, id, subject, named)
  \/ Withdraw(c)

Client(c) ==
  \/ \E d \in deployments, subject \in Subjects, purpose \in Purposes \cup {NoPurpose},
        status \in {"GRANTED", "REVOKED"} : CheckDeployment(c, d, subject, purpose, status)
  \/ Insert(c)
  \/ \E i \in DOMAIN records, status \in {"GRANTED", "REVOKED"} : UpdateRecord(c, i, status)

RecordingNext ==
  \/ Staff /\ UNCHANGED recordVars
  \/ \E c \in Visitors : SubmitForm(c) \/ WithdrawConsent(c) \/ Client(c)

RecordingSpec == RecordingInit /\ [][RecordingNext]_allVars

------------------------------------------------------------------------------
(* Properties.                                                             *)

\* checkConsentStatus reports of a purpose the status of its newest record.
PurposeStatus(k) == IF RowsOf(k) = {} THEN "NONE" ELSE records[Max(RowsOf(k))].status

\* What the visitor is told is true: a purpose is reported GRANTED exactly when
\* some record of it stands, though racing submissions leave several.  (Clients
\* of the API may revoke one of several, or insert a revoked one.)
StatusIsTruth ==
  \A k \in Consent \ handled : PurposeStatus(k) = "GRANTED" <=> Standing(k) # {}

\* findFirst, then create: no more records of one consent stand than there are
\* calls in flight at a time.
StandingWithinCalls ==
  \A k \in Consent \ handled : Cardinality(Standing(k)) =< Cardinality(Visitors)

\* When no submission has this purpose before it any more, the table holds an
\* answer that one of the last ones gave: submissions that agree are not undone
\* by the way their statements interleave, nor by a withdrawal among them.
AnswersAreKept ==
  \A k \in Consent \ handled :
    \/ Standing(k) # {} <=> TRUE \in said[k]
    \/ said[k] = BOOLEAN
    \/ \E c \in Visitors : \E p \in Purposes :
         /\ visit[c].step \in {"loop", "create"}
         /\ p \in visit[c].todo
         /\ k = <<visit[c].app, visit[c].subject, p>>

\* resolveConsentVersion: 'Prefer the version deployed to this widget's app
\* (matches widget UI)'.  The version on record is the one the form showed.
RecordMatchesWidget ==
  \A i \in DOMAIN records : records[i].shown # {} => records[i].version \in records[i].shown
=============================================================================
