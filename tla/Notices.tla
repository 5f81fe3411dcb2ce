------------------------------ MODULE Notices ------------------------------
(***************************************************************************)
(* One notice: its versions, the pages that show it and the visitors'      *)
(* acknowledgements; and the languages notices come in, one of which is    *)
(* the default.  An edit writes the text, the version row and the current  *)
(* version in three statements without a transaction, and pages are served *)
(* in between.                                                             *)
(***************************************************************************)
EXTENDS Naturals, FiniteSets, Functions

CONSTANTS
  Authors,     \* edits of the notice in flight at a time
  Texts,       \* what a notice may say
  Linguists,   \* changes of the languages in flight at a time
  Languages,   \* names of rows of NoticeLanguage
  MaxEdits,    \* bound: edits
  MaxAborts,   \* bound: edits that break off
  MaxVisits,   \* bound: scripts that are served
  MaxSettings  \* bound: changes of the languages

ASSUME NoticesAssumption ==
  /\ IsFiniteSet(Authors) /\ IsFiniteSet(Linguists) /\ IsFiniteSet(Languages)
  /\ {MaxEdits, MaxAborts, MaxVisits, MaxSettings} \subseteq Nat

VARIABLES
  notice,      \* the Notice row
  versions,    \* versions[n]: the text of the NoticeVersion row n
  edit,        \* edit[a]: the edit in flight for a
  edits,       \* edits so far
  aborts,      \* edits that broke off: the process stopped, or a statement failed
  overlapped,  \* two edits have been in flight at once
  visitor,     \* what the page of a visitor knows and shows
  visits,      \* scripts served so far
  acknowledged, \* acknowledgements on their way
  ack,         \* the last NoticeAcknowledgement row that was made
  ofVisit,     \* a row names the visit
  languageIs,  \* languageIs[l]: the NoticeLanguage row l
  setting,     \* setting[s]: the transaction in flight for s
  settings     \* transactions so far

editVars == <<notice, versions, edit, edits, aborts, overlapped>>
visitVars == <<visitor, visits, acknowledged, ack, ofVisit>>
languageVars == <<languageIs, setting, settings>>
noticesVars == <<editVars, visitVars, languageVars>>

NoNotice == [version |-> 0]
Notice == {NoNotice} \cup [version : Nat \ {0}, text : Texts]

NoEdit == [step |-> "idle"]
Edit ==
  {NoEdit} \cup [step : {"created"}, text : Texts]
  \cup [step : {"read", "written", "numbered"}, from : Nat, text : Texts,
        writes : BOOLEAN, old : Texts]

\* What a page was served: the text, the version then, and whether no edit was in flight.
Notified == [text : Texts, version : Nat \ {0}, settled : BOOLEAN]
Nothing == [at |-> "away"]
PageStates == {Nothing} \cup [at : {"loaded", "shown", "client"}, notice : Notified]
Sent == [notice : Notified, visit : BOOLEAN]
NoAck == [version |-> 0]
Ack == {NoAck} \cup [version : Nat \ {0}, seen : Notified]

NoSetting == [step |-> "idle"]
Setting ==
  {NoSetting} \cup [step : {"add", "set", "keep"}, own : Languages, clears : SUBSET Languages, default : BOOLEAN]

NoticesTypeOK ==
  /\ notice \in Notice
  /\ DOMAIN versions \subseteq 1 .. MaxEdits + 1 /\ Range(versions) \subseteq Texts
  /\ edit \in [Authors -> Edit]
  /\ edits \in 0 .. MaxEdits
  /\ aborts \in 0 .. MaxAborts
  /\ overlapped \in BOOLEAN
  /\ visitor \in PageStates
  /\ visits \in 0 .. MaxVisits
  /\ acknowledged \subseteq Sent
  /\ ack \in Ack
  /\ ofVisit \in BOOLEAN
  /\ languageIs \in [Languages -> {"none", "plain", "default"}]
  /\ setting \in [Linguists -> Setting]
  /\ settings \in 0 .. MaxSettings

NoticesInit ==
  /\ notice = NoNotice
  /\ versions = << >>
  /\ edit = [a \in Authors |-> NoEdit]
  /\ edits = 0 /\ aborts = 0
  /\ overlapped = FALSE
  /\ visitor = Nothing
  /\ visits = 0
  /\ acknowledged = {}
  /\ ack = NoAck
  /\ ofVisit = FALSE
  /\ languageIs = [l \in Languages |-> "none"]
  /\ setting = [s \in Linguists |-> NoSetting]
  /\ settings = 0

------------------------------------------------------------------------------
(* Editing.                                                                *)

EditGoes(a, to) ==
  /\ edit' = [edit EXCEPT ![a] = to]
  /\ UNCHANGED <<visitVars, languageVars>>

EditBegins(a, to) ==
  /\ edit[a] = NoEdit
  /\ edits < MaxEdits
  /\ edits' = edits + 1
  /\ overlapped' = (overlapped \/ \E b \in Authors : edit[b] # NoEdit)
  /\ EditGoes(a, to)
  /\ UNCHANGED aborts

EditContinues(a, step, to) ==
  /\ edit[a].step = step
  /\ EditGoes(a, to)
  /\ UNCHANGED <<edits, aborts, overlapped>>

\* The notice is made ...
CreateNotice(a) ==
  /\ notice = NoNotice
  /\ \E text \in Texts :
       /\ notice' = [version |-> 1, text |-> text]
       /\ EditBegins(a, [step |-> "created", text |-> text])
  /\ UNCHANGED versions

WithVersion(n, text) == [m \in DOMAIN versions \cup {n} |-> IF m = n THEN text ELSE versions[m]]

\* ... and its first version after it.
SnapshotFirst(a) ==
  /\ EditContinues(a, "created", NoEdit)
  /\ versions' = WithVersion(1, edit[a].text)
  /\ UNCHANGED notice

\* An edit reads the notice ...
ReadNotice(a) ==
  /\ notice # NoNotice
  /\ \E text \in Texts, writes \in BOOLEAN :
       EditBegins(a, [step |-> "read", from |-> notice.version, text |-> text,
                      writes |-> writes, old |-> notice.text])
  /\ UNCHANGED <<notice, versions>>

\* ... and makes a version if it brings a text that is not the one it read.
IsNew(e) == e.writes /\ e.text # e.old

\* All that the edit brings is written.  The status is left out: it only says whether
\* pages are served with the notice, which they need not be.
WriteNotice(a) ==
  LET e == edit[a] IN
  /\ EditContinues(a, "read", IF IsNew(e) THEN [e EXCEPT !.step = "written"] ELSE NoEdit)
  /\ notice' = [notice EXCEPT !.text = IF e.writes THEN e.text ELSE @]
  /\ UNCHANGED versions

\* Mutant: the version holds the text that was read.
SnapshotOfRead(e) == e.old

\* What the version holds: the text as it was written.
SnapshotOf(e) == e.text

\* The version after the one that was read: there may be one of that number already,
\* and the key on (noticeId, version) makes the call fail.
SnapshotNext(a) ==
  LET e == edit[a]
      next == e.from + 1
  IN
  /\ e.step = "written"
  /\ IF next \in DOMAIN versions
     THEN /\ edit' = [edit EXCEPT ![a] = NoEdit]
          /\ UNCHANGED versions
     ELSE /\ edit' = [edit EXCEPT ![a].step = "numbered"]
          /\ versions' = WithVersion(next, SnapshotOf(e))
  /\ UNCHANGED <<notice, edits, aborts, overlapped, visitVars, languageVars>>

\* The current version is set last.
NumberNotice(a) ==
  /\ EditContinues(a, "numbered", NoEdit)
  /\ notice' = [notice EXCEPT !.version = edit[a].from + 1]
  /\ UNCHANGED versions

\* The process stops, or a statement fails, between two statements of an edit.
BreakOff(a) ==
  /\ edit[a] # NoEdit
  /\ aborts < MaxAborts
  /\ aborts' = aborts + 1
  /\ EditGoes(a, NoEdit)
  /\ UNCHANGED <<notice, versions, edits, overlapped>>

EditsNotice(a) ==
  \/ CreateNotice(a) \/ SnapshotFirst(a)
  \/ ReadNotice(a) \/ WriteNotice(a) \/ SnapshotNext(a) \/ NumberNotice(a)
  \/ BreakOff(a)

------------------------------------------------------------------------------
(* Visiting.                                                               *)

EditsInFlight == {a \in Authors : edit[a] # NoEdit}

Served(at) ==
  /\ visitor = Nothing
  /\ visits < MaxVisits
  /\ notice # NoNotice
  /\ visits' = visits + 1
  /\ visitor' = [at |-> at,
                 notice |-> [text |-> notice.text, version |-> notice.version, settled |-> EditsInFlight = {}]]
  /\ UNCHANGED <<acknowledged, ack, ofVisit, editVars, languageVars>>

\* The script carries the notices as they are when it is served ...
ServeScript == Served("loaded")

\* ... and a client with pages of its own asks for a notice by its type: a translation
\* says the same, and one that fails leaves the text as it is.
ServeByType == Served("client")

\* The page shows the notice, if it shows none yet ...
ShowByType ==
  /\ visitor.at = "loaded"
  /\ visitor' = [visitor EXCEPT !.at = "shown"]
  /\ UNCHANGED <<visits, acknowledged, ack, ofVisit, editVars, languageVars>>

\* ... the visitor closes it ...
CloseNotice ==
  /\ visitor.at = "shown"
  /\ visitor' = [visitor EXCEPT !.at = "loaded"]
  /\ UNCHANGED <<visits, acknowledged, ack, ofVisit, editVars, languageVars>>

Acknowledges(visit) ==
  /\ acknowledged' = acknowledged \cup {[notice |-> visitor.notice, visit |-> visit]}
  /\ UNCHANGED <<visits, ack, ofVisit, editVars, languageVars>>

\* ... or reads on, which is posted, but not waited for.
ReadNow ==
  /\ visitor.at = "shown"
  /\ visitor' = [visitor EXCEPT !.at = "loaded"]
  /\ Acknowledges(FALSE)

\* A client with pages of its own may name the visit, and report how long it has lasted.
ReportVisit ==
  /\ visitor.at = "client"
  /\ Acknowledges(TRUE)
  /\ UNCHANGED visitor

\* The visitor leaves the page; what was posted arrives or is lost.
LeavePage ==
  /\ visitor # Nothing
  /\ visitor' = Nothing
  /\ UNCHANGED <<visits, acknowledged, ack, ofVisit, editVars, languageVars>>

\* The version is not posted: it is the one that is current when the post arrives.
\* Of a visit only the first post makes a row; the others update its duration.
RecordNoticeAcknowledgement ==
  /\ \E post \in acknowledged :
       /\ acknowledged' = acknowledged \ {post}
       /\ ofVisit' = (ofVisit \/ post.visit)
       /\ ack' = IF post.visit /\ ofVisit
                 THEN ack ELSE [version |-> notice.version, seen |-> post.notice]
  /\ UNCHANGED <<visitor, visits, editVars, languageVars>>

Visits ==
  \/ ServeScript \/ ServeByType \/ ShowByType \/ CloseNotice \/ ReadNow \/ ReportVisit \/ LeavePage
  \/ RecordNoticeAcknowledgement

------------------------------------------------------------------------------
(* Languages.  A transaction that makes its language the default first takes *)
(* the default from those its statement sees; a row it has locked waits for *)
(* its end, so its effects show all at once, but its snapshot may be old.  *)

SettingBegins(s, to) ==
  /\ setting[s] = NoSetting
  /\ settings < MaxSettings
  /\ settings' = settings + 1
  /\ setting' = [setting EXCEPT ![s] = to]
  /\ UNCHANGED <<languageIs, editVars, visitVars>>

SettingEnds(s, step) ==
  /\ setting[s].step = step
  /\ setting' = [setting EXCEPT ![s] = NoSetting]
  /\ UNCHANGED <<settings, editVars, visitVars>>

Offered == {l \in Languages : languageIs[l] # "none"}
Defaults == {l \in Languages : languageIs[l] = "default"}
LosesDefault(default) == IF default THEN Offered ELSE {}

\* The rows as s leaves them: its own is the default or not as it is to be, and an update
\* that does not say keeps it as it is.
LanguagesAfter(s) ==
  LET set == setting[s] IN
  [l \in Languages |->
     IF l = set.own
     THEN IF set.step = "keep" THEN languageIs[l] ELSE IF set.default THEN "default" ELSE "plain"
     ELSE IF l \in set.clears /\ languageIs[l] = "default" THEN "plain" ELSE languageIs[l]]

BeginLanguage(s) ==
  \E l \in Languages, default \in BOOLEAN :
    /\ languageIs[l] = "none"
    /\ \A t \in Linguists \ {s} : setting[t] # NoSetting => setting[t].own # l
    /\ SettingBegins(s, [step |-> "add", own |-> l, clears |-> LosesDefault(default), default |-> default])

CreateLanguage(s) ==
  /\ SettingEnds(s, "add")
  /\ languageIs' = LanguagesAfter(s)

BeginUpdate(s) ==
  \E l \in Offered, step \in {"set", "keep"}, default \in BOOLEAN :
    /\ step = "keep" => ~default
    /\ SettingBegins(s, [step |-> step, own |-> l, clears |-> LosesDefault(default), default |-> default])

\* The language may have been deleted since: then all is rolled back.
UpdateLanguage(s) ==
  /\ \E step \in {"set", "keep"} : SettingEnds(s, step)
  /\ languageIs' = IF languageIs[setting[s].own] = "none" THEN languageIs ELSE LanguagesAfter(s)

\* Nothing makes another language the default when the default is deleted.
DeleteLanguage ==
  \E l \in Offered :
    /\ languageIs' = [languageIs EXCEPT ![l] = "none"]
    /\ settings < MaxSettings
    /\ settings' = settings + 1
    /\ UNCHANGED <<setting, editVars, visitVars>>

SetsLanguages ==
  \/ \E s \in Linguists :
       BeginLanguage(s) \/ CreateLanguage(s) \/ BeginUpdate(s) \/ UpdateLanguage(s)
  \/ DeleteLanguage

------------------------------------------------------------------------------
NoticeNext == Visits \/ \E a \in Authors : EditsNotice(a)

NoticesSpec == NoticesInit /\ [][NoticeNext \/ SetsLanguages]_noticesVars

------------------------------------------------------------------------------
(* Properties.                                                             *)

\* The versions run from 1 to the current one: only the first may be missing, when the
\* creation broke off or is not over, and only the one after the current
\* version may be there too, when its edit broke off or is not over.
VersionsNumbered ==
  notice # NoNotice =>
    /\ 2 .. notice.version \subseteq DOMAIN versions
    /\ DOMAIN versions \subseteq 1 .. notice.version + 1
    /\ EditsInFlight = {} /\ aborts = 0 => DOMAIN versions = 1 .. notice.version

\* When edits do not overlap and none breaks off, the current version is the text.
TextIsVersioned ==
  EditsInFlight = {} /\ aborts = 0 /\ ~overlapped /\ notice # NoNotice =>
    versions[notice.version] = notice.text

\* An acknowledgement names a version that was current no earlier than the page was
\* served, and if it names the one that was current then, and edits neither
\* overlap, break off nor ran while the page was served, it is the text the
\* visitor saw.
AcknowledgedIsShown ==
  ack # NoAck =>
    /\ ack.version >= ack.seen.version
    /\ ack.version = ack.seen.version /\ ack.seen.settled /\ aborts = 0 /\ ~overlapped
         => versions[ack.version] = ack.seen.text

\* However changes of the languages interleave, no more languages are the default than
\* there are changes in flight at a time.
DefaultsWithinCalls == Cardinality(Defaults) =< Cardinality(Linguists)

\* What the notices keep although no edit is a transaction.
NoticesHold ==
  /\ VersionsNumbered
  /\ TextIsVersioned
  /\ AcknowledgedIsShown
  /\ DefaultsWithinCalls
=============================================================================
