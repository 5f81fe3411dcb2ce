------------------------------ MODULE CaseFile ------------------------------
(***************************************************************************)
(* What surrounds a rights request: the notes, attachments and evidence in *)
(* its file, each with an entry in its trail; the workflow template and    *)
(* the SLA rules that its intake looks up; and the grievances, which are   *)
(* numbered like requests but without a pool or a transaction.  These do   *)
(* not touch each other: one of them is followed at a time.                *)
(***************************************************************************)
EXTENDS Naturals, Sequences, FiniteSets

CONSTANTS
  Staff,          \* calls in flight at a time
  MaxEvents,      \* bound: calls
  MaxOutages      \* bound: crashes, or failures of the database

ASSUME CaseFileAssumption ==
  /\ IsFiniteSet(Staff)
  /\ {MaxEvents, MaxOutages} \subseteq Nat

VARIABLES
  followed,     \* what is followed
  work,         \* work[s]: the call in flight for s
  events,       \* calls so far
  outages,      \* crashes and failures so far
  file,         \* rows in the file, entries in the trail, objects in the store
  steps,        \* a template: whether there is one, its WorkflowTemplateStep rows, and
                \* whether the last edit of it brought none
  intakes,      \* the steps that intakes were given, save where there was no template
  rules,        \* which of the two SLA rules that fit are active
  grievances    \* the Grievance rows in the order they were made

calmVars == <<followed, work, events, outages>>
caseFileVars == <<calmVars, file, steps, intakes, rules, grievances>>

Parts == {"file", "template", "rule", "grievances"}
Sources == {"DB_SPECIFIC", "DB_GENERAL", "BUILT_IN_DEFAULT"}
GrievanceStatus == {"OPEN", "IN_PROGRESS", "ESCALATED", "RESOLVED"}

\* A step carries the number of the edit that made it; an edit makes two, or none.
StepRow == (1 .. MaxEvents) \X {1, 2}
BuiltIn == {<<0, 1>>, <<0, 2>>}

Free == [at |-> "free"]
Work ==
  {Free}
  \cup [at : {"upload", "write", "trail"}]
  \cup [at : {"edit"}, edit : 1 .. MaxEvents, empty : BOOLEAN, found : BOOLEAN]
  \cup [at : {"fill"}, edit : 1 .. MaxEvents, empty : BOOLEAN, gone : SUBSET StepRow]
  \cup [at : {"find", "steps"}]
  \cup [at : {"specific", "general"}, since : Nat]
  \cup [at : {"ruled"}, since : Nat, source : Sources, failed : BOOLEAN]
  \cup [at : {"insert"}, number : Nat \ {0}]
  \cup [at : {"escalate", "comment"}, grievance : Nat \ {0}]

CaseFileTypeOK ==
  /\ followed \in Parts
  /\ work \in [Staff -> Work]
  /\ events \in 0 .. MaxEvents
  /\ outages \in 0 .. MaxOutages
  /\ file \in [rows : Nat, entries : Nat, stored : Nat, lost : Nat]
  /\ steps \in [made : BOOLEAN, rows : SUBSET StepRow, bare : BOOLEAN]
  /\ intakes \subseteq [given : SUBSET (StepRow \cup BuiltIn), failed : BOOLEAN, bare : BOOLEAN]
  /\ rules \in [active : SUBSET {"DB_SPECIFIC", "DB_GENERAL"}, changes : Nat]
  /\ grievances \in Seq([number : Nat \ {0}, status : GrievanceStatus, comments : Nat])

CaseFileInit ==
  /\ followed \in Parts
  /\ work = [s \in Staff |-> Free]
  /\ events = 0
  /\ outages = 0
  /\ file = [rows |-> 0, entries |-> 0, stored |-> 0, lost |-> 0]
  /\ steps = [made |-> FALSE, rows |-> {}, bare |-> FALSE]
  /\ intakes = {}
  /\ rules \in [active : SUBSET (IF followed = "rule" THEN {"DB_SPECIFIC", "DB_GENERAL"} ELSE {}),
                changes : {0}]
  /\ grievances = <<>>

------------------------------------------------------------------------------
Takes(s, part, to) ==
  /\ followed = part
  /\ work[s] = Free
  /\ events < MaxEvents
  /\ events' = events + 1
  /\ work' = [work EXCEPT ![s] = to]
  /\ UNCHANGED <<followed, outages>>

Does(s, at, to) ==
  /\ work[s].at = at
  /\ work' = [work EXCEPT ![s] = to]
  /\ UNCHANGED <<followed, events, outages>>

At(at) == [at |-> at]

\* A statement fails, and the call with it.
Fails(s, at) ==
  /\ work[s].at = at
  /\ outages < MaxOutages
  /\ outages' = outages + 1
  /\ work' = [work EXCEPT ![s] = Free]
  /\ UNCHANGED <<followed, events>>

------------------------------------------------------------------------------
(* The file.  The request is looked up first; none is ever deleted.        *)

ApartFromFile == UNCHANGED <<steps, intakes, rules, grievances>>

\* assign, addNote, addAttachment and verifyEvidence write a row and then an entry
\* of the trail; addEvidence stores the object before, when there is one.
Assign(s)         == Takes(s, "file", At("write")) /\ UNCHANGED file /\ ApartFromFile
AddNote(s)        == Takes(s, "file", At("write")) /\ UNCHANGED file /\ ApartFromFile
AddAttachment(s)  == Takes(s, "file", At("write")) /\ UNCHANGED file /\ ApartFromFile
VerifyEvidence(s) == Takes(s, "file", At("write")) /\ UNCHANGED file /\ ApartFromFile
AddEvidence(s)    == Takes(s, "file", At("upload")) /\ UNCHANGED file /\ ApartFromFile

StoreEvidence(s) ==
  /\ Does(s, "upload", At("write"))
  /\ file' = [file EXCEPT !.stored = @ + 1]
  /\ ApartFromFile

WriteFileRow(s) ==
  /\ Does(s, "write", At("trail"))
  /\ file' = [file EXCEPT !.rows = @ + 1]
  /\ ApartFromFile

WriteTrail(s) ==
  /\ Does(s, "trail", Free)
  /\ file' = [file EXCEPT !.entries = @ + 1]
  /\ ApartFromFile

\* The entry fails, and the call is answered with an error: the row stays.
LoseTrail(s) ==
  /\ Fails(s, "trail")
  /\ file' = [file EXCEPT !.lost = @ + 1]
  /\ ApartFromFile

\* The store or the row fails, and with it the call; an object stays where it is.
RefuseFileRow(s) ==
  /\ \E at \in {"upload", "write"} : Fails(s, at)
  /\ UNCHANGED file
  /\ ApartFromFile

------------------------------------------------------------------------------
(* The workflow template.                                                  *)

ApartFromTemplate == UNCHANGED <<file, rules, grievances>>

\* upsertTemplate reads whether there is a template; its list of steps may be empty ...
ReadForUpsert(s, empty) ==
  /\ Takes(s, "template", [at |-> "edit", edit |-> events + 1, empty |-> empty,
                           found |-> steps.made])
  /\ UNCHANGED <<steps, intakes>>
  /\ ApartFromTemplate

NewSteps(w) == IF w.empty THEN {} ELSE {w.edit} \X {1, 2}

\* ... and makes one with its steps; if there is one by now, the unique key fails it ...
CreateTemplate(s) ==
  /\ work[s].at = "edit" /\ ~work[s].found
  /\ Does(s, "edit", Free)
  /\ steps' = IF steps.made THEN steps
              ELSE [made |-> TRUE, rows |-> NewSteps(work[s]), bare |-> work[s].empty]
  /\ UNCHANGED intakes
  /\ ApartFromTemplate

\* Mutant: others see that they are deleted.
WhileDeletingSeen(rows) == {}

WhileDeleting(rows) == rows

\* ... or deletes the steps it sees, in a transaction, so that others still see them ...
DeleteSteps(s) ==
  /\ work[s].at = "edit" /\ work[s].found
  /\ Does(s, "edit", [at |-> "fill", edit |-> work[s].edit, empty |-> work[s].empty,
                      gone |-> steps.rows])
  /\ steps' = [steps EXCEPT !.rows = WhileDeleting(@)]
  /\ UNCHANGED intakes
  /\ ApartFromTemplate

\* ... and commits with the new ones; the steps of another edit that committed after
\* this one looked are still there.
FillSteps(s) ==
  /\ Does(s, "fill", Free)
  /\ steps' = [steps EXCEPT !.rows = (@ \ work[s].gone) \cup NewSteps(work[s]),
                            !.bare = work[s].empty]
  /\ UNCHANGED intakes
  /\ ApartFromTemplate

\* getTemplate finds the template, and its steps in a query of its own ...
LookUpTemplate(s) ==
  /\ Takes(s, "template", At("find"))
  /\ UNCHANGED <<steps, intakes>>
  /\ ApartFromTemplate

FindTemplate(s) ==
  /\ Does(s, "find", IF steps.made THEN At("steps") ELSE Free)
  /\ UNCHANGED <<steps, intakes>>
  /\ ApartFromTemplate

\* ... and answers with those built in where there are none ...
FindSteps(s) ==
  /\ Does(s, "steps", Free)
  /\ intakes' = intakes \cup
       {[given |-> IF steps.rows = {} THEN BuiltIn ELSE steps.rows,
         failed |-> FALSE, bare |-> steps.bare]}
  /\ UNCHANGED steps
  /\ ApartFromTemplate

\* ... or where a query fails, which is caught: getTemplate must never throw.
TemplateQueryFails(s) ==
  /\ \E at \in {"find", "steps"} : Fails(s, at)
  /\ intakes' = intakes \cup {[given |-> BuiltIn, failed |-> TRUE, bare |-> steps.bare]}
  /\ UNCHANGED steps
  /\ ApartFromTemplate

\* An edit that fails is rolled back; a crash ends lookups too.
AbandonTemplate(s) ==
  /\ \E at \in {"edit", "fill", "find", "steps"} : Fails(s, at)
  /\ UNCHANGED <<steps, intakes>>
  /\ ApartFromTemplate

------------------------------------------------------------------------------
(* The SLA rule.                                                           *)

ApartFromRules == UNCHANGED <<file, steps, intakes, grievances>>

\* SlaRulesService: a rule is made, changed or removed.
ToggleRule(rule) ==
  /\ followed = "rule"
  /\ events < MaxEvents
  /\ events' = events + 1
  /\ rules' = [active |-> IF rule \in rules.active THEN rules.active \ {rule}
                          ELSE rules.active \cup {rule},
               changes |-> rules.changes + 1]
  /\ UNCHANGED <<followed, work, outages>>
  /\ ApartFromRules

LookUpRule(s) ==
  /\ Takes(s, "rule", [at |-> "specific", since |-> rules.changes])
  /\ UNCHANGED rules
  /\ ApartFromRules

Ruled(s, source, failed) ==
  [at |-> "ruled", since |-> work[s].since, source |-> source, failed |-> failed]

\* The rule for the type of the request ...
AskSpecific(s) ==
  /\ Does(s, "specific", IF "DB_SPECIFIC" \in rules.active THEN Ruled(s, "DB_SPECIFIC", FALSE)
                         ELSE [work[s] EXCEPT !.at = "general"])
  /\ UNCHANGED rules
  /\ ApartFromRules

\* ... or else the one for the regulation, or else what is built in.
AskGeneral(s) ==
  /\ Does(s, "general", Ruled(s, IF "DB_GENERAL" \in rules.active THEN "DB_GENERAL"
                                 ELSE "BUILT_IN_DEFAULT", FALSE))
  /\ UNCHANGED rules
  /\ ApartFromRules

\* A query that fails is caught: getRule must never throw.
RuleQueryFails(s) ==
  /\ work[s].at \in {"specific", "general"}
  /\ outages < MaxOutages
  /\ outages' = outages + 1
  /\ work' = [work EXCEPT ![s] = Ruled(s, "BUILT_IN_DEFAULT", TRUE)]
  /\ UNCHANGED <<followed, events, rules>>
  /\ ApartFromRules

TakeRule(s) ==
  /\ Does(s, "ruled", Free)
  /\ UNCHANGED rules
  /\ ApartFromRules

------------------------------------------------------------------------------
(* Grievances.                                                             *)

ApartFromGrievances == UNCHANGED <<file, steps, intakes, rules>>

\* create counts the grievances of the year ...
CountGrievances(s) ==
  /\ Takes(s, "grievances", [at |-> "insert", number |-> Len(grievances) + 1])
  /\ UNCHANGED grievances
  /\ ApartFromGrievances

\* Mutant: the case number has no unique key.
TakenNever(number) == FALSE

Taken(number) == \E i \in DOMAIN grievances : grievances[i].number = number

\* ... and the insert fails if another call has taken the number meanwhile.
InsertGrievance(s) ==
  LET number == work[s].number IN
  /\ Does(s, "insert", Free)
  /\ grievances' = IF Taken(number) THEN grievances
       ELSE Append(grievances, [number |-> number, status |-> "OPEN", comments |-> 0])
  /\ ApartFromGrievances

\* update writes any status: no table of transitions is consulted.
UpdateGrievance(s, i, status) ==
  /\ Takes(s, "grievances", Free)
  /\ grievances' = [grievances EXCEPT ![i].status = status]
  /\ ApartFromGrievances

\* addComment: the comment, and the time of the grievance.
AddComment(s, i) ==
  /\ Takes(s, "grievances", [at |-> "comment", grievance |-> i])
  /\ UNCHANGED grievances
  /\ ApartFromGrievances

\* escalate refuses a grievance that is escalated or resolved ...
ReadForEscalation(s, i) ==
  /\ grievances[i].status \notin {"ESCALATED", "RESOLVED"}
  /\ Takes(s, "grievances", [at |-> "escalate", grievance |-> i])
  /\ UNCHANGED grievances
  /\ ApartFromGrievances

\* ... escalates it, whatever it is by now ...
EscalateGrievance(s) ==
  /\ Does(s, "escalate", [work[s] EXCEPT !.at = "comment"])
  /\ grievances' = [grievances EXCEPT ![work[s].grievance].status = "ESCALATED"]
  /\ ApartFromGrievances

\* ... and comments on it.
WriteComment(s) ==
  /\ Does(s, "comment", Free)
  /\ grievances' = [grievances EXCEPT ![work[s].grievance].comments = @ + 1]
  /\ ApartFromGrievances

GrievanceCallFails(s) ==
  /\ \E at \in {"insert", "escalate", "comment"} : Fails(s, at)
  /\ UNCHANGED grievances
  /\ ApartFromGrievances

------------------------------------------------------------------------------
OfFile(s) ==
  \/ Assign(s) \/ AddNote(s) \/ AddAttachment(s) \/ VerifyEvidence(s) \/ AddEvidence(s)
  \/ StoreEvidence(s) \/ WriteFileRow(s) \/ WriteTrail(s) \/ LoseTrail(s) \/ RefuseFileRow(s)

OfTemplate(s) ==
  \/ \E empty \in BOOLEAN : ReadForUpsert(s, empty)
  \/ CreateTemplate(s) \/ DeleteSteps(s) \/ FillSteps(s)
  \/ LookUpTemplate(s) \/ FindTemplate(s) \/ FindSteps(s) \/ TemplateQueryFails(s)
  \/ AbandonTemplate(s)

OfRule(s) ==
  \/ LookUpRule(s) \/ AskSpecific(s) \/ AskGeneral(s) \/ RuleQueryFails(s) \/ TakeRule(s)

OfGrievances(s) ==
  \/ CountGrievances(s) \/ InsertGrievance(s)
  \/ \E i \in DOMAIN grievances :
       \/ \E status \in GrievanceStatus : UpdateGrievance(s, i, status)
       \/ AddComment(s, i) \/ ReadForEscalation(s, i)
  \/ EscalateGrievance(s) \/ WriteComment(s) \/ GrievanceCallFails(s)

CaseFileNext ==
  \/ \E s \in Staff : OfFile(s) \/ OfTemplate(s) \/ OfRule(s) \/ OfGrievances(s)
  \/ \E rule \in {"DB_SPECIFIC", "DB_GENERAL"} : ToggleRule(rule)

CaseFileSpec == CaseFileInit /\ [][CaseFileNext]_caseFileVars

------------------------------------------------------------------------------
(* Properties.                                                             *)

InTrail == {s \in Staff : work[s].at = "trail"}

\* A row of the file and its entry in the trail are two statements: still the
\* trail lacks an entry only for a call between the two or one that failed
\* there, and never tells of a row that was not written.
FileAccounts ==
  file.rows = file.entries + file.lost + Cardinality(InTrail)

\* upsertTemplate deletes the steps of a template and writes new ones in one
\* transaction, getTemplate reads them in two queries without one: an intake is
\* given the steps of edits as a whole, and of no more edits than there can be in
\* flight.  Where there is a template it is given the built-in steps only because
\* a query failed or the last edit to commit before the query brought no steps,
\* never because an edit was under way.
TemplateWhole ==
  \A intake \in intakes :
    LET edits == {row[1] : row \in intake.given} IN
    IF intake.given = BuiltIn
    THEN intake.failed \/ intake.bare
    ELSE intake.given = edits \X {1, 2} /\ Cardinality(edits) =< Cardinality(Staff)

\* getRule asks for the rules one after the other: if no rule changed meanwhile
\* and no query failed, it answers with the most specific one that is active.
LookupIsMostSpecific ==
  \A s \in Staff :
    work[s].at = "ruled" /\ ~work[s].failed /\ work[s].since = rules.changes =>
      work[s].source = IF "DB_SPECIFIC" \in rules.active THEN "DB_SPECIFIC"
                       ELSE IF "DB_GENERAL" \in rules.active THEN "DB_GENERAL"
                       ELSE "BUILT_IN_DEFAULT"

\* A grievance is numbered by a count that other calls make stale: the numbers
\* run without gap or duplicate all the same, since the insert of a number that
\* is taken fails and no grievance is ever deleted.
GrievancesNumbered ==
  \A i \in DOMAIN grievances : grievances[i].number = i

\* What intake looks up while the tables it looks into are edited.
LookupsHold == TemplateWhole /\ LookupIsMostSpecific

\* What the file of a case and the list of the grievances keep although rows, entries
\* and numbers are written one statement at a time.
RecordsHold == FileAccounts /\ GrievancesNumbered
=============================================================================
