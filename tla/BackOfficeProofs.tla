-------------------------- MODULE BackOfficeProofs --------------------------
(***************************************************************************)
(* Theorems about the logs, the case file, the reports and the dashboards, *)
(* for any calls, rows, staff, runs, requests, grievances and bounds.      *)
(***************************************************************************)
EXTENDS AuditTrail, CaseFile, Reports, Dashboards, FiniteSetTheorems, SequenceTheorems, TLAPS

------------------------------------------------------------------------------
(***************************************************************************)
(* The logs: AuditTrail.                                                   *)
(***************************************************************************)

\* The calls made are calls there are.
LoggedCallFits(c) ==
  trail[c] # Unmade =>
    <<trail[c].url, trail[c].method>> \in Routes /\ trail[c].url \in {table, "auth/login"}

\* What a call has done, from how far it is.
StepTells(c) ==
  /\ trail[c].step \in {"own", "mirror", "audit", "name", "system", "dropped"} => trail[c].changed
  /\ trail[c].step \in {"snapshot", "handle"} => ~trail[c].changed
  /\ trail[c].step \in {"name", "system"} => Entries(c) # {}
  /\ trail[c].step = "passed" /\ trail[c].changed => Mirrors(c) # {}

\* The entry of a call is written when it has been answered, once.
EntryTells(c) ==
  /\ \A i \in Entries(c) :
       /\ trail[c].step \in {"name", "system", "passed", "dropped", "lost"}
       /\ trail[c].changed
       /\ auditLog[i].names = DetailsOf(c)
  /\ \A i, j \in Entries(c) : i = j

\* It is mirrored last of all, once.
MirrorTells(c) ==
  /\ Mirrors(c) # {} => trail[c].step = "passed" /\ Entries(c) # {}
  /\ \A i, j \in Mirrors(c) : i = j

CallTells(c) == LoggedCallFits(c) /\ StepTells(c) /\ EntryTells(c) /\ MirrorTells(c)

\* A role is removed by one call, and its id is not given out again.
Removed(c) ==
  trail[c] # Unmade /\ trail[c].url = "roles" /\ trail[c].method = "DELETE" /\ trail[c].changed
RowsUsed == \A r \in Rows : row[r] # 0 => r \in used
RemovedStay ==
  \A c \in Calls : Removed(c) => row[trail[c].row] = 0 /\ trail[c].row \in used
RemovedByOne ==
  \A c, d \in Calls : Removed(c) /\ Removed(d) /\ trail[c].row = trail[d].row => c = d

RemovalsTell == RowsUsed /\ RemovedStay /\ RemovedByOne

TrailInv ==
  /\ AuditTrailTypeOK
  /\ \A c \in Calls : CallTells(c)
  /\ RemovalsTell

LEMMA TrailStarts ==
  ASSUME AuditTrailInit PROVE TrailInv
<1>1. \A c \in Calls : Unmade.step = "unmade" /\ trail[c] = Unmade
  BY DEF AuditTrailInit, Unmade
<1>2. AuditTrailTypeOK
  BY AuditTrailAssumption DEF AuditTrailInit, AuditTrailTypeOK, Call
<1>3. \A c \in Calls : Entries(c) = {} /\ Mirrors(c) = {}
  BY DEF AuditTrailInit, Entries, Mirrors
<1>4. \A c \in Calls : CallTells(c)
  BY <1>1, <1>3 DEF CallTells, LoggedCallFits, StepTells, EntryTells, MirrorTells
<1>5. RemovalsTell
  BY <1>1 DEF AuditTrailInit, RemovalsTell, RowsUsed, RemovedStay, RemovedByOne, Removed
<1>6. QED
  BY <1>2, <1>4, <1>5 DEF TrailInv

MadeCalls == Call \ {Unmade}
Steps == {"snapshot", "handle", "own", "mirror", "audit", "name", "system", "passed", "dropped",
          "failed", "lost"}

LEMMA CallMade ==
  ASSUME AuditTrailTypeOK, NEW c \in Calls, trail[c].step # "unmade"
  PROVE  /\ trail[c] \in [step : Steps, method : Methods, url : Urls, row : Rows, old : Nat,
                          changed : BOOLEAN]
         /\ trail[c] # Unmade
BY DEF AuditTrailTypeOK, Call, Unmade, Steps

\* What a call goes by but for its step.
SameCall(c) ==
  /\ trail'[c].method = trail[c].method /\ trail'[c].url = trail[c].url
  /\ trail'[c].row = trail[c].row /\ trail'[c].changed = trail[c].changed
  /\ trail[c] # Unmade /\ trail'[c] # Unmade

LEMMA CallMoves ==
  ASSUME AuditTrailTypeOK, NEW c \in Calls, trail[c].step # "unmade", NEW to \in Steps, Moves(c, to)
  PROVE  /\ trail' \in [Calls -> Call]
         /\ SameCall(c) /\ trail'[c].old = trail[c].old /\ trail'[c].step = to
         /\ \A d \in Calls \ {c} : trail'[d] = trail[d]
<1>1. trail[c] \in [step : Steps, method : Methods, url : Urls, row : Rows, old : Nat,
                    changed : BOOLEAN]
      /\ trail[c] # Unmade
  BY CallMade
<1>2. trail' = [trail EXCEPT ![c] = [trail[c] EXCEPT !.step = to]]
  BY DEF Moves
<1>3. PICK new : new = [trail[c] EXCEPT !.step = to]
  OBVIOUS
<1>4. /\ new \in [step : Steps, method : Methods, url : Urls, row : Rows, old : Nat,
                  changed : BOOLEAN]
      /\ new.step = to /\ new.method = trail[c].method /\ new.url = trail[c].url
      /\ new.row = trail[c].row /\ new.old = trail[c].old /\ new.changed = trail[c].changed
  BY <1>1, <1>3
<1>5. new \in Call /\ new # Unmade
  BY <1>4 DEF Call, Unmade, Steps
<1>6. trail \in [Calls -> Call] /\ trail' = [trail EXCEPT ![c] = new]
  BY <1>2, <1>3 DEF AuditTrailTypeOK
<1>7. trail' \in [Calls -> Call] /\ trail'[c] = new /\ \A d \in Calls \ {c} : trail'[d] = trail[d]
  BY <1>5, <1>6
<1>8. QED
  BY <1>1, <1>4, <1>5, <1>7 DEF SameCall

\* A call that neither moves nor has anything written.
LEMMA OtherTells ==
  ASSUME NEW d \in Calls, CallTells(d), trail'[d] = trail[d], table' = table,
         Entries(d)' = Entries(d), \A i \in Entries(d) : auditLog'[i] = auditLog[i],
         Mirrors(d)' = Mirrors(d)
  PROVE  CallTells(d)'
BY DEF CallTells, LoggedCallFits, StepTells, EntryTells, MirrorTells, DetailsOf

LEMMA RemovalsKeep ==
  ASSUME TrailInv, UNCHANGED <<table, row, used>>,
         \A d \in Calls : trail'[d] = trail[d] \/ SameCall(d) \/ ~Removed(d)'
  PROVE  RemovalsTell'
<1>1. \A d \in Calls : Removed(d)' => Removed(d) /\ trail'[d].row = trail[d].row
  BY DEF Removed, SameCall
<1>2. QED
  BY <1>1 DEF TrailInv, RemovalsTell, RowsUsed, RemovedStay, RemovedByOne

\* Logs that stay as they are.
LEMMA LogsSame ==
  ASSUME UNCHANGED <<auditLog, systemLog>>
  PROVE  \A d \in Calls : Entries(d)' = Entries(d) /\ Mirrors(d)' = Mirrors(d)
BY DEF Entries, Mirrors

\* A step of a call that writes nothing.
LEMMA TrailQuietKeeps ==
  ASSUME TrailInv, NEW c \in Calls, trail[c].step # "unmade", NEW to \in Steps, Moves(c, to),
         UNCHANGED <<table, row, used, auditLog, systemLog, stops>>,
         Entries(c) # {} => to \in {"name", "system", "passed", "dropped", "lost"},
         Mirrors(c) # {} => to = "passed",
         to \in {"own", "mirror", "audit", "name", "system", "dropped"} => trail[c].changed,
         to \notin {"snapshot", "handle"},
         to \in {"name", "system"} => Entries(c) # {},
         to = "passed" => ~trail[c].changed
  PROVE  TrailInv'
<1>1. AuditTrailTypeOK
  BY DEF TrailInv
<1>2. /\ trail' \in [Calls -> Call] /\ SameCall(c) /\ trail'[c].old = trail[c].old
      /\ trail'[c].step = to /\ \A d \in Calls \ {c} : trail'[d] = trail[d]
  BY <1>1, CallMoves
<1>3. AuditTrailTypeOK'
  BY <1>1, <1>2 DEF AuditTrailTypeOK
<1>4. \A d \in Calls : Entries(d)' = Entries(d) /\ Mirrors(d)' = Mirrors(d)
  BY LogsSame
<1>5. \A d \in Calls \ {c} : CallTells(d)'
  BY <1>2, <1>4, OtherTells DEF TrailInv
<1>6. LoggedCallFits(c) /\ StepTells(c) /\ EntryTells(c) /\ MirrorTells(c)
  BY DEF TrailInv, CallTells
<1>7. LoggedCallFits(c)' /\ StepTells(c)'
  BY <1>2, <1>4, <1>6 DEF LoggedCallFits, StepTells, SameCall
<1>8. EntryTells(c)' /\ MirrorTells(c)'
  BY <1>2, <1>4, <1>6 DEF EntryTells, MirrorTells, SameCall, DetailsOf
<1>9. RemovalsTell'
  BY <1>2, RemovalsKeep
<1>10. QED
  BY <1>3, <1>5, <1>7, <1>8, <1>9 DEF TrailInv, CallTells

\* An entry of the audit log.
LEMMA AuditAppends ==
  ASSUME AuditTrailTypeOK, NEW logged \in AuditRow, auditLog' = Append(auditLog, logged)
  PROVE  /\ auditLog' \in Seq(AuditRow)
         /\ \A d \in Calls :
              /\ \A i \in Entries(d) : auditLog'[i] = auditLog[i]
              /\ logged.call # d \/ logged.by # "interceptor" => Entries(d)' = Entries(d)
              /\ logged.call = d /\ logged.by = "interceptor" =>
                   /\ Entries(d)' = Entries(d) \cup {Len(auditLog) + 1}
                   /\ auditLog'[Len(auditLog) + 1] = logged
<1>1. auditLog \in Seq(AuditRow)
  BY DEF AuditTrailTypeOK
<1>2. /\ auditLog' \in Seq(AuditRow) /\ Len(auditLog') = Len(auditLog) + 1
      /\ \A i \in 1 .. Len(auditLog) : auditLog'[i] = auditLog[i]
      /\ auditLog'[Len(auditLog) + 1] = logged /\ Len(auditLog) \in Nat
      /\ DOMAIN auditLog = 1 .. Len(auditLog) /\ DOMAIN auditLog' = 1 .. Len(auditLog')
  BY <1>1, AppendProperties
<1>3. DOMAIN auditLog' = DOMAIN auditLog \cup {Len(auditLog) + 1}
      /\ Len(auditLog) + 1 \notin DOMAIN auditLog
      /\ \A i \in DOMAIN auditLog : auditLog'[i] = auditLog[i]
  BY <1>2
<1>4. QED
  BY <1>2, <1>3 DEF Entries

\* An entry of the system log.
LEMMA SystemAppends ==
  ASSUME AuditTrailTypeOK, NEW logged \in SystemRow, systemLog' = Append(systemLog, logged)
  PROVE  /\ systemLog' \in Seq(SystemRow)
         /\ \A d \in Calls :
              /\ logged.call # d \/ logged.by # "interceptor" => Mirrors(d)' = Mirrors(d)
              /\ logged.call = d /\ logged.by = "interceptor" =>
                   Mirrors(d)' = Mirrors(d) \cup {Len(systemLog) + 1}
<1>1. systemLog \in Seq(SystemRow)
  BY DEF AuditTrailTypeOK
<1>2. /\ systemLog' \in Seq(SystemRow) /\ Len(systemLog') = Len(systemLog) + 1
      /\ \A i \in 1 .. Len(systemLog) : systemLog'[i] = systemLog[i]
      /\ systemLog'[Len(systemLog) + 1] = logged /\ Len(systemLog) \in Nat
      /\ DOMAIN systemLog = 1 .. Len(systemLog) /\ DOMAIN systemLog' = 1 .. Len(systemLog')
  BY <1>1, AppendProperties
<1>3. DOMAIN systemLog' = DOMAIN systemLog \cup {Len(systemLog) + 1}
      /\ Len(systemLog) + 1 \notin DOMAIN systemLog
      /\ \A i \in DOMAIN systemLog : systemLog'[i] = systemLog[i]
  BY <1>2
<1>4. QED
  BY <1>2, <1>3 DEF Mirrors

LEMMA AuditEntryFits ==
  ASSUME AuditTrailTypeOK, NEW c \in Calls, trail[c].step # "unmade",
         NEW by \in {"interceptor", "service"}
  PROVE  AuditEntry(c, by) \in AuditRow
BY CallMade DEF AuditEntry, AuditRow, CategoryOf, SeverityOf, DetailsOf

LEMMA SystemEntryFits ==
  ASSUME AuditTrailTypeOK, NEW c \in Calls, trail[c].step # "unmade",
         NEW by \in {"interceptor", "service"}
  PROVE  SystemEntry(c, by) \in SystemRow
BY CallMade DEF SystemEntry, SystemRow, SystemCategoryOf, ActionOf, LabelByMethod, TargetOf, Methods

\* What the tables of the rows and the logs are after a step of one call that writes.
LEMMA WritesKeep ==
  ASSUME TrailInv, NEW c \in Calls, trail[c].step # "unmade", NEW to \in Steps, Moves(c, to),
         UNCHANGED <<table, row, used, stops>>,
         auditLog' \in Seq(AuditRow), systemLog' \in Seq(SystemRow),
         \A d \in Calls : \A i \in Entries(d) : auditLog'[i] = auditLog[i],
         \A d \in Calls \ {c} : Entries(d)' = Entries(d) /\ Mirrors(d)' = Mirrors(d),
         StepTells(c)' /\ EntryTells(c)' /\ MirrorTells(c)'
  PROVE  TrailInv'
<1>1. AuditTrailTypeOK
  BY DEF TrailInv
<1>2. /\ trail' \in [Calls -> Call] /\ SameCall(c)
      /\ \A d \in Calls \ {c} : trail'[d] = trail[d]
  BY <1>1, CallMoves
<1>3. AuditTrailTypeOK'
  BY <1>1, <1>2 DEF AuditTrailTypeOK
<1>4. \A d \in Calls \ {c} : CallTells(d)'
  BY <1>2, OtherTells DEF TrailInv
<1>5. LoggedCallFits(c)'
  BY <1>2 DEF TrailInv, CallTells, LoggedCallFits, SameCall
<1>6. RemovalsTell'
  BY <1>2, RemovalsKeep
<1>7. QED
  BY <1>3, <1>4, <1>5, <1>6 DEF TrailInv, CallTells

LEMMA WriteOwnAuditKeeps ==
  ASSUME TrailInv, NEW c \in Calls, WriteOwnAudit(c)
  PROVE  TrailInv'
<1>1. AuditTrailTypeOK /\ CallTells(c) /\ trail[c].step = "own"
  BY DEF TrailInv, WriteOwnAudit
<1>2. Entries(c) = {} /\ Mirrors(c) = {} /\ trail[c].changed
  BY <1>1 DEF CallTells, StepTells, EntryTells, MirrorTells
<1>3. CASE UNCHANGED auditLog /\ Moves(c, "failed")
  <2>1. "failed" \in Steps
    BY DEF Steps
  <2>2. UNCHANGED <<table, row, used, auditLog, systemLog, stops>>
    BY <1>3 DEF WriteOwnAudit
  <2>3. QED
    BY <1>1, <1>2, <1>3, <2>1, <2>2, TrailQuietKeeps
<1>4. CASE auditLog' = Append(auditLog, AuditEntry(c, "service")) /\ Moves(c, "mirror")
  <2>1. PICK logged \in AuditRow : logged = AuditEntry(c, "service")
    BY <1>1, AuditEntryFits
  <2>2. logged.by = "service"
    BY <2>1 DEF AuditEntry
  <2>3. /\ auditLog' \in Seq(AuditRow)
        /\ \A d \in Calls : Entries(d)' = Entries(d) /\ \A i \in Entries(d) : auditLog'[i] = auditLog[i]
    BY <1>1, <1>4, <2>1, <2>2, AuditAppends
  <2>4. UNCHANGED <<table, row, used, systemLog, stops>>
    BY DEF WriteOwnAudit
  <2>5. \A d \in Calls : Mirrors(d)' = Mirrors(d)
    BY <2>4 DEF Mirrors
  <2>6. "mirror" \in Steps
    BY DEF Steps
  <2>7. trail'[c].step = "mirror" /\ SameCall(c)
    BY <1>1, <1>4, <2>6, CallMoves
  <2>8. StepTells(c)' /\ EntryTells(c)' /\ MirrorTells(c)'
    BY <1>2, <2>3, <2>5, <2>7 DEF StepTells, EntryTells, MirrorTells, SameCall
  <2>9. systemLog' \in Seq(SystemRow)
    BY <1>1, <2>4 DEF AuditTrailTypeOK
  <2>10. QED
    BY <1>1, <1>4, <2>3, <2>4, <2>5, <2>6, <2>8, <2>9, WritesKeep
<1>5. QED
  BY <1>3, <1>4 DEF WriteOwnAudit

LEMMA MirrorOwnKeeps ==
  ASSUME TrailInv, NEW c \in Calls, MirrorOwn(c)
  PROVE  TrailInv'
<1>1. AuditTrailTypeOK /\ CallTells(c) /\ trail[c].step = "mirror"
  BY DEF TrailInv, MirrorOwn
<1>2. Entries(c) = {} /\ Mirrors(c) = {} /\ trail[c].changed
  BY <1>1 DEF CallTells, StepTells, EntryTells, MirrorTells
<1>3. Moves(c, "audit") /\ "audit" \in Steps /\ UNCHANGED <<table, row, used, auditLog, stops>>
  BY DEF MirrorOwn, Steps
<1>4. systemLog' \in Seq(SystemRow) /\ \A d \in Calls : Mirrors(d)' = Mirrors(d)
  <2>1. CASE systemLog' = systemLog
    BY <1>1, <2>1 DEF Mirrors, AuditTrailTypeOK
  <2>2. CASE systemLog' = Append(systemLog, SystemEntry(c, "service"))
    <3>1. PICK logged \in SystemRow : logged = SystemEntry(c, "service")
      BY <1>1, SystemEntryFits
    <3>2. logged.by = "service"
      BY <3>1 DEF SystemEntry
    <3>3. QED
      BY <1>1, <2>2, <3>1, <3>2, SystemAppends
  <2>3. QED
    BY <2>1, <2>2 DEF MirrorOwn
<1>5. \A d \in Calls : Entries(d)' = Entries(d) /\ \A i \in Entries(d) : auditLog'[i] = auditLog[i]
  BY <1>3 DEF Entries
<1>6. trail'[c].step = "audit" /\ SameCall(c)
  BY <1>1, <1>3, CallMoves
<1>7. StepTells(c)' /\ EntryTells(c)' /\ MirrorTells(c)'
  BY <1>2, <1>4, <1>5, <1>6 DEF StepTells, EntryTells, MirrorTells, SameCall
<1>8. auditLog' \in Seq(AuditRow)
  BY <1>1, <1>3 DEF AuditTrailTypeOK
<1>9. QED
  BY <1>1, <1>3, <1>4, <1>5, <1>7, <1>8, WritesKeep

LEMMA WriteAuditKeeps ==
  ASSUME TrailInv, NEW c \in Calls, WriteAudit(c)
  PROVE  TrailInv'
<1>1. AuditTrailTypeOK /\ CallTells(c) /\ trail[c].step = "audit"
  BY DEF TrailInv, WriteAudit
<1>2. Entries(c) = {} /\ Mirrors(c) = {} /\ trail[c].changed
  BY <1>1 DEF CallTells, StepTells, EntryTells, MirrorTells
<1>3. CASE UNCHANGED auditLog /\ Moves(c, "dropped")
  <2>1. "dropped" \in Steps
    BY DEF Steps
  <2>2. UNCHANGED <<table, row, used, auditLog, systemLog, stops>>
    BY <1>3 DEF WriteAudit
  <2>3. QED
    BY <1>1, <1>2, <1>3, <2>1, <2>2, TrailQuietKeeps
<1>4. CASE auditLog' = Append(auditLog, AuditEntry(c, "interceptor")) /\ Moves(c, "name")
  <2>1. PICK logged \in AuditRow : logged = AuditEntry(c, "interceptor")
    BY <1>1, AuditEntryFits
  <2>2. logged.by = "interceptor" /\ logged.call = c /\ logged.names = DetailsOf(c)
    BY <2>1 DEF AuditEntry
  <2>3. PICK last : last = Len(auditLog) + 1
    OBVIOUS
  <2>4. /\ auditLog' \in Seq(AuditRow)
        /\ \A d \in Calls : \A i \in Entries(d) : auditLog'[i] = auditLog[i]
        /\ \A d \in Calls \ {c} : Entries(d)' = Entries(d)
        /\ Entries(c)' = {last} /\ auditLog'[last] = logged
    BY <1>1, <1>2, <1>4, <2>1, <2>2, <2>3, AuditAppends
  <2>5. UNCHANGED <<table, row, used, systemLog, stops>>
    BY DEF WriteAudit
  <2>6. \A d \in Calls : Mirrors(d)' = Mirrors(d)
    BY <2>5 DEF Mirrors
  <2>7. "name" \in Steps
    BY DEF Steps
  <2>8. trail'[c].step = "name" /\ SameCall(c) /\ trail'[c].old = trail[c].old
    BY <1>1, <1>4, <2>7, CallMoves
  <2>9. DetailsOf(c)' = DetailsOf(c)
    BY <2>8 DEF DetailsOf, SameCall
  <2>10. StepTells(c)' /\ EntryTells(c)' /\ MirrorTells(c)'
    BY <1>2, <2>2, <2>4, <2>6, <2>8, <2>9 DEF StepTells, EntryTells, MirrorTells, SameCall
  <2>11. systemLog' \in Seq(SystemRow)
    BY <1>1, <2>5 DEF AuditTrailTypeOK
  <2>12. QED
    BY <1>1, <1>4, <2>4, <2>5, <2>6, <2>7, <2>10, <2>11, WritesKeep
<1>5. QED
  BY <1>3, <1>4 DEF WriteAudit

LEMMA WriteSystemKeeps ==
  ASSUME TrailInv, NEW c \in Calls, WriteSystem(c)
  PROVE  TrailInv'
<1>1. AuditTrailTypeOK /\ CallTells(c) /\ trail[c].step = "system"
  BY DEF TrailInv, WriteSystem
<1>2. Entries(c) # {} /\ Mirrors(c) = {} /\ trail[c].changed /\ EntryTells(c)
  BY <1>1 DEF CallTells, StepTells, EntryTells, MirrorTells
<1>3. CASE UNCHANGED systemLog /\ Moves(c, "dropped")
  <2>1. "dropped" \in Steps
    BY DEF Steps
  <2>2. UNCHANGED <<table, row, used, auditLog, systemLog, stops>>
    BY <1>3 DEF WriteSystem
  <2>3. QED
    BY <1>1, <1>2, <1>3, <2>1, <2>2, TrailQuietKeeps
<1>4. CASE systemLog' = Append(systemLog, SystemEntry(c, "interceptor")) /\ Moves(c, "passed")
  <2>1. PICK logged \in SystemRow : logged = SystemEntry(c, "interceptor")
    BY <1>1, SystemEntryFits
  <2>2. logged.by = "interceptor" /\ logged.call = c
    BY <2>1 DEF SystemEntry
  <2>3. PICK last : last = Len(systemLog) + 1
    OBVIOUS
  <2>4. /\ systemLog' \in Seq(SystemRow)
        /\ \A d \in Calls \ {c} : Mirrors(d)' = Mirrors(d)
        /\ Mirrors(c)' = {last}
    BY <1>1, <1>2, <1>4, <2>1, <2>2, <2>3, SystemAppends
  <2>5. UNCHANGED <<table, row, used, auditLog, stops>>
    BY DEF WriteSystem
  <2>6. \A d \in Calls : Entries(d)' = Entries(d) /\ \A i \in Entries(d) : auditLog'[i] = auditLog[i]
    BY <2>5 DEF Entries
  <2>7. "passed" \in Steps
    BY DEF Steps
  <2>8. trail'[c].step = "passed" /\ SameCall(c) /\ trail'[c].old = trail[c].old
    BY <1>1, <1>4, <2>7, CallMoves
  <2>9. DetailsOf(c)' = DetailsOf(c)
    BY <2>8 DEF DetailsOf, SameCall
  <2>10. StepTells(c)' /\ EntryTells(c)' /\ MirrorTells(c)'
    BY <1>2, <2>4, <2>6, <2>8, <2>9 DEF StepTells, EntryTells, MirrorTells, SameCall
  <2>11. auditLog' \in Seq(AuditRow)
    BY <1>1, <2>5 DEF AuditTrailTypeOK
  <2>12. QED
    BY <1>1, <1>4, <2>4, <2>5, <2>6, <2>7, <2>10, <2>11, WritesKeep
<1>5. QED
  BY <1>3, <1>4 DEF WriteSystem

LEMMA QuietCallsKeep ==
  ASSUME TrailInv, NEW c \in Calls, Refuse(c) \/ PassGet(c) \/ ReadUserName(c)
  PROVE  TrailInv'
<1>1. CallTells(c)
  BY DEF TrailInv
<1>2. CASE Refuse(c) \/ PassGet(c)
  <2>1. PICK to \in {"failed", "passed"} : Moves(c, to)
    BY <1>2 DEF Refuse, PassGet, AfterFailure
  <2>2. trail[c].step = "handle" /\ UNCHANGED <<table, row, used, auditLog, systemLog, stops>>
    BY <1>2 DEF Refuse, PassGet
  <2>3. Entries(c) = {} /\ Mirrors(c) = {} /\ ~trail[c].changed
    BY <1>1, <2>2 DEF CallTells, StepTells, EntryTells, MirrorTells
  <2>4. to \in Steps
    BY DEF Steps
  <2>5. QED
    BY <2>1, <2>2, <2>3, <2>4, TrailQuietKeeps
<1>3. CASE ReadUserName(c)
  <2>1. PICK to \in {"system", "dropped"} : Moves(c, to)
    BY <1>3 DEF ReadUserName
  <2>2. trail[c].step = "name" /\ UNCHANGED <<table, row, used, auditLog, systemLog, stops>>
    BY <1>3 DEF ReadUserName
  <2>3. Entries(c) # {} /\ Mirrors(c) = {} /\ trail[c].changed
    BY <1>1, <2>2 DEF CallTells, StepTells, MirrorTells
  <2>4. to \in Steps
    BY DEF Steps
  <2>5. QED
    BY <2>1, <2>2, <2>3, <2>4, TrailQuietKeeps
<1>4. QED
  BY <1>2, <1>3

\* A call that has not been handled yet is seen for the first time, or has read its row.
LEMMA BeforeKeeps ==
  ASSUME TrailInv, NEW c \in Calls, trail[c].step \in {"unmade", "snapshot"},
         NEW new \in [step : {"snapshot", "handle"}, method : Methods, url : Urls, row : Rows,
                      old : Nat, changed : {FALSE}],
         <<new.url, new.method>> \in Routes, new.url \in {table, "auth/login"},
         trail' = [trail EXCEPT ![c] = new],
         UNCHANGED <<table, row, used, auditLog, systemLog, stops>>
  PROVE  TrailInv'
<1>1. AuditTrailTypeOK /\ CallTells(c)
  BY DEF TrailInv
<1>2. new \in Call /\ new # Unmade
  <2>1. new \in [step : Steps, method : Methods, url : Urls, row : Rows, old : Nat,
                 changed : BOOLEAN]
    BY DEF Steps
  <2>2. new.step # "unmade"
    OBVIOUS
  <2>3. QED
    BY <2>1, <2>2 DEF Call, Unmade, Steps
<1>3. trail' \in [Calls -> Call] /\ trail'[c] = new /\ \A d \in Calls \ {c} : trail'[d] = trail[d]
  BY <1>1, <1>2 DEF AuditTrailTypeOK
<1>4. AuditTrailTypeOK'
  BY <1>1, <1>3 DEF AuditTrailTypeOK
<1>5. Entries(c) = {} /\ Mirrors(c) = {}
  BY <1>1 DEF CallTells, EntryTells, MirrorTells
<1>6. \A d \in Calls : Entries(d)' = Entries(d) /\ Mirrors(d)' = Mirrors(d)
  BY LogsSame
<1>7. \A d \in Calls \ {c} : CallTells(d)'
  BY <1>3, <1>6, OtherTells DEF TrailInv
<1>8. LoggedCallFits(c)' /\ StepTells(c)' /\ EntryTells(c)' /\ MirrorTells(c)'
  BY <1>3, <1>5, <1>6 DEF LoggedCallFits, StepTells, EntryTells, MirrorTells
<1>9. RemovalsTell'
  <2>1. ~Removed(c)'
    BY <1>3 DEF Removed
  <2>2. QED
    BY <1>3, <2>1, RemovalsKeep
<1>10. QED
  BY <1>4, <1>7, <1>8, <1>9 DEF TrailInv, CallTells

LEMMA ReceiveKeeps ==
  ASSUME TrailInv, NEW c \in Calls, NEW route \in Routes, NEW r \in Rows,
         Receive(c, route[1], route[2], r)
  PROVE  TrailInv'
<1>1. route[1] \in Urls /\ route[2] \in Methods /\ route = <<route[1], route[2]>>
  BY DEF Routes, Urls, Methods
<1>2. PICK new : /\ trail' = [trail EXCEPT ![c] = new]
                 /\ new = [step |-> IF Snapshots(route[2], route[1]) THEN "snapshot" ELSE "handle",
                           method |-> route[2], url |-> route[1], row |-> r, old |-> 0,
                           changed |-> FALSE]
  BY DEF Receive
<1>3. /\ new \in [step : {"snapshot", "handle"}, method : Methods, url : Urls, row : Rows,
                  old : Nat, changed : {FALSE}]
      /\ <<new.url, new.method>> \in Routes
  BY <1>1, <1>2
<1>4. new.url \in {table, "auth/login"} /\ trail[c].step = "unmade"
  BY <1>2 DEF Receive, Unmade
<1>5. UNCHANGED <<table, row, used, auditLog, systemLog, stops>>
  BY DEF Receive
<1>6. QED
  BY <1>2, <1>3, <1>4, <1>5, BeforeKeeps

LEMMA TakeSnapshotKeeps ==
  ASSUME TrailInv, NEW c \in Calls, TakeSnapshot(c)
  PROVE  TrailInv'
<1>1. trail[c].step = "snapshot" /\ AuditTrailTypeOK /\ CallTells(c)
  BY DEF TakeSnapshot, TrailInv
<1>2. trail[c] \in [step : Steps, method : Methods, url : Urls, row : Rows, old : Nat,
                    changed : BOOLEAN]
      /\ trail[c] # Unmade
  BY <1>1, CallMade
<1>3. PICK old \in Nat : trail' = [trail EXCEPT ![c].step = "handle", ![c].old = old]
  BY <1>1, <1>2 DEF TakeSnapshot, AuditTrailTypeOK
<1>4. PICK new : new = [trail[c] EXCEPT !.step = "handle", !.old = old]
  OBVIOUS
<1>5. trail' = [trail EXCEPT ![c] = new]
  BY <1>1, <1>3, <1>4 DEF AuditTrailTypeOK
<1>6. ~trail[c].changed
  BY <1>1 DEF CallTells, StepTells
<1>7. /\ new \in [step : {"snapshot", "handle"}, method : Methods, url : Urls, row : Rows,
                  old : Nat, changed : {FALSE}]
      /\ new.url = trail[c].url /\ new.method = trail[c].method
  <2>1. trail[c].changed = FALSE
    BY <1>2, <1>6
  <2>2. QED
    BY <1>2, <1>4, <2>1
<1>8. <<new.url, new.method>> \in Routes /\ new.url \in {table, "auth/login"}
  BY <1>1, <1>2, <1>7 DEF CallTells, LoggedCallFits
<1>9. UNCHANGED <<table, row, used, auditLog, systemLog, stops>>
  BY DEF TakeSnapshot
<1>10. QED
  BY <1>1, <1>5, <1>7, <1>8, <1>9, BeforeKeeps

\* What the handler does to the rows.
LEMMA HandleRows ==
  ASSUME TrailInv, NEW c \in Calls, Handle(c)
  PROVE  /\ row' \in [Rows -> Nat] /\ used' \subseteq Rows /\ RowsUsed'
         /\ \A d \in Calls : Removed(d) =>
              /\ row'[trail[d].row] = 0 /\ trail[d].row \in used'
              /\ trail[c].url = "roles" /\ trail[c].method = "DELETE" => trail[d].row # trail[c].row
         /\ trail[c].url = "roles" /\ trail[c].method = "DELETE" =>
              row'[trail[c].row] = 0 /\ trail[c].row \in used'
<1>1. trail[c].step = "handle" /\ AuditTrailTypeOK /\ CallTells(c) /\ RowsUsed /\ RemovedStay
  BY DEF Handle, TrailInv, RemovalsTell
<1>2. trail[c] \in [step : Steps, method : Methods, url : Urls, row : Rows, old : Nat,
                    changed : BOOLEAN]
      /\ trail[c] # Unmade
  BY <1>1, CallMade
<1>3. \A d \in Calls : Removed(d) => trail[d].row \in Rows
  BY <1>1 DEF AuditTrailTypeOK, Call, Removed
<1>4. row \in [Rows -> Nat] /\ used \subseteq Rows /\ trail[c].row \in Rows
  BY <1>1, <1>2 DEF AuditTrailTypeOK
<1>5. Handles(trail[c]) /\ row' = AfterHandler(trail[c])
      /\ used' = IF trail[c].method = "POST" /\ trail[c].url # "auth/login"
                 THEN used \cup {trail[c].row} ELSE used
  BY DEF Handle
<1>6. CASE trail[c].url = "auth/login"
  <2>1. row' = row /\ used' = used
    BY <1>5, <1>6 DEF AfterHandler
  <2>2. QED
    BY <1>1, <1>4, <1>6, <2>1 DEF RowsUsed, RemovedStay
<1>7. CASE trail[c].url # "auth/login" /\ trail[c].method = "POST"
  <2>1. trail[c].row \notin used /\ used' = used \cup {trail[c].row}
    BY <1>5, <1>7 DEF Handles
  <2>2. row' = [row EXCEPT ![trail[c].row] = @ + 1]
    BY <1>5, <1>7 DEF AfterHandler, Deletes
  <2>3. QED
    BY <1>1, <1>3, <1>4, <1>7, <2>1, <2>2 DEF RowsUsed, RemovedStay
<1>8. CASE trail[c].url # "auth/login" /\ trail[c].method # "POST"
  <2>1. row[trail[c].row] # 0 /\ used' = used /\ trail[c].row \in used
    BY <1>1, <1>4, <1>5, <1>8 DEF Handles, RowsUsed
  <2>2. row' = [row EXCEPT ![trail[c].row] = IF Deletes(trail[c]) THEN 0 ELSE @ + 1]
    BY <1>5, <1>8 DEF AfterHandler
  <2>3. trail[c].url = "roles" /\ trail[c].method = "DELETE" => Deletes(trail[c])
    BY DEF Deletes
  <2>4. \A d \in Calls : Removed(d) => row[trail[d].row] = 0 /\ trail[d].row \in used
    BY <1>1 DEF RemovedStay
  <2>5. QED
    BY <1>1, <1>3, <1>4, <2>1, <2>2, <2>3, <2>4 DEF RowsUsed
<1>9. QED
  BY <1>6, <1>7, <1>8

LEMMA HandleKeeps ==
  ASSUME TrailInv, NEW c \in Calls, Handle(c)
  PROVE  TrailInv'
<1>1. trail[c].step = "handle" /\ AuditTrailTypeOK /\ CallTells(c)
  BY DEF Handle, TrailInv
<1>2. trail[c] \in [step : Steps, method : Methods, url : Urls, row : Rows, old : Nat,
                    changed : BOOLEAN]
      /\ trail[c] # Unmade
  BY <1>1, CallMade
<1>3. PICK new : new = [trail[c] EXCEPT !.changed = TRUE,
                                        !.step = IF trail[c].url = "auth/login" THEN "own" ELSE "audit"]
  OBVIOUS
<1>4. trail' = [trail EXCEPT ![c] = new] /\ UNCHANGED <<table, auditLog, systemLog, stops>>
  BY <1>1, <1>3 DEF Handle, AuditTrailTypeOK
<1>5. /\ new.step \in {"own", "audit"} /\ new.changed /\ new.old = trail[c].old
      /\ new.method = trail[c].method /\ new.url = trail[c].url /\ new.row = trail[c].row
      /\ new \in [step : Steps, method : Methods, url : Urls, row : Rows, old : Nat,
                  changed : BOOLEAN]
  BY <1>2, <1>3 DEF Steps
<1>6. new \in Call /\ new # Unmade
  BY <1>5 DEF Call, Unmade, Steps
<1>7. trail' \in [Calls -> Call] /\ trail'[c] = new /\ \A d \in Calls \ {c} : trail'[d] = trail[d]
  BY <1>1, <1>4, <1>6 DEF AuditTrailTypeOK
<1>8. AuditTrailTypeOK'
  BY <1>1, <1>4, <1>7, HandleRows DEF AuditTrailTypeOK
<1>9. Entries(c) = {} /\ Mirrors(c) = {}
  BY <1>1 DEF CallTells, EntryTells, MirrorTells
<1>10. \A d \in Calls : Entries(d)' = Entries(d) /\ Mirrors(d)' = Mirrors(d)
  BY <1>4, LogsSame
<1>11. \A d \in Calls \ {c} : CallTells(d)'
  BY <1>4, <1>7, <1>10, OtherTells DEF TrailInv
<1>12. LoggedCallFits(c)
  BY <1>1 DEF CallTells
<1>13. CallTells(c)'
  BY <1>2, <1>4, <1>5, <1>6, <1>7, <1>9, <1>10, <1>12
     DEF CallTells, LoggedCallFits, StepTells, EntryTells, MirrorTells
<1>14. RemovalsTell'
  <2>1. \A d \in Calls \ {c} : /\ Removed(d)' <=> Removed(d)
                               /\ trail'[d].row = trail[d].row
    BY <1>7 DEF Removed
  <2>2. Removed(c)' => trail[c].url = "roles" /\ trail[c].method = "DELETE"
    BY <1>5, <1>7 DEF Removed
  <2>3. trail'[c].row = trail[c].row
    BY <1>5, <1>7
  <2>4. RowsUsed' /\ RemovedStay'
    BY <2>1, <2>2, <2>3, HandleRows DEF RemovedStay
  <2>5. RemovedByOne
    BY DEF TrailInv, RemovalsTell
  <2>6. RemovedByOne'
    BY <2>1, <2>2, <2>3, <2>5, HandleRows DEF RemovedByOne
  <2>7. QED
    BY <2>4, <2>6 DEF RemovalsTell
<1>15. QED
  BY <1>8, <1>11, <1>13, <1>14 DEF TrailInv

\* The calls in flight go, and what they have written stays.
LEMMA ServerStopsKeeps ==
  ASSUME TrailInv, ServerStops
  PROVE  TrailInv'
<1>1. AuditTrailTypeOK /\ UNCHANGED <<table, row, used, auditLog, systemLog>>
      /\ stops' \in 0 .. MaxStops
  BY AuditTrailAssumption DEF TrailInv, ServerStops, AuditTrailTypeOK
<1>2. ASSUME NEW c \in Calls
      PROVE  /\ trail'[c] \in Call
             /\ trail'[c] = trail[c] \/ SameCall(c)
             /\ CallTells(c)'
  <2>1. CASE ~InFlight(c)
    <3>1. trail'[c] = trail[c]
      BY <2>1 DEF ServerStops
    <3>2. Entries(c)' = Entries(c) /\ Mirrors(c)' = Mirrors(c) /\ \A i \in Entries(c) : auditLog'[i] = auditLog[i]
      BY <1>1, LogsSame
    <3>3. QED
      BY <1>1, <3>1, <3>2, OtherTells DEF TrailInv, AuditTrailTypeOK
  <2>2. CASE InFlight(c)
    <3>1. trail[c].step # "unmade" /\ trail[c].step # "passed"
      BY <2>2 DEF InFlight
    <3>2. trail[c] \in [step : Steps, method : Methods, url : Urls, row : Rows, old : Nat,
                        changed : BOOLEAN]
          /\ trail[c] # Unmade
      BY <1>1, <3>1, CallMade
    <3>3. trail'[c] = [trail[c] EXCEPT !.step = "lost"]
      BY <2>2 DEF ServerStops
    <3>4. /\ trail'[c].step = "lost" /\ trail'[c].old = trail[c].old
          /\ trail'[c].method = trail[c].method /\ trail'[c].url = trail[c].url
          /\ trail'[c].row = trail[c].row /\ trail'[c].changed = trail[c].changed
          /\ trail'[c] \in [step : Steps, method : Methods, url : Urls, row : Rows, old : Nat,
                            changed : BOOLEAN]
      BY <3>2, <3>3 DEF Steps
    <3>5. trail'[c] \in Call /\ SameCall(c)
      BY <3>2, <3>4 DEF Call, Unmade, Steps, SameCall
    <3>6. LoggedCallFits(c) /\ EntryTells(c) /\ MirrorTells(c)
      BY DEF TrailInv, CallTells
    <3>7. Entries(c)' = Entries(c) /\ Mirrors(c)' = Mirrors(c)
      BY <1>1, LogsSame
    <3>8. CallTells(c)'
      BY <1>1, <3>1, <3>4, <3>5, <3>6, <3>7
         DEF CallTells, LoggedCallFits, StepTells, EntryTells, MirrorTells, DetailsOf, SameCall
    <3>9. QED
      BY <3>5, <3>8
  <2>3. QED
    BY <2>1, <2>2
<1>3. trail' \in [Calls -> Call]
  <2>1. DOMAIN trail' = Calls /\ trail' = [c \in Calls |-> trail'[c]]
    BY DEF ServerStops
  <2>2. QED
    BY <1>2, <2>1
<1>4. AuditTrailTypeOK'
  BY <1>1, <1>3 DEF AuditTrailTypeOK
<1>5. RemovalsTell'
  BY <1>1, <1>2, RemovalsKeep
<1>6. QED
  BY <1>2, <1>4, <1>5 DEF TrailInv

LEMMA TrailStep ==
  ASSUME TrailInv, [AuditTrailNext]_auditTrailVars PROVE TrailInv'
<1>1. CASE UNCHANGED auditTrailVars
  <2>1. UNCHANGED <<table, row, used, trail, auditLog, systemLog, stops>>
    BY <1>1 DEF auditTrailVars
  <2>2. AuditTrailTypeOK'
    BY <2>1 DEF TrailInv, AuditTrailTypeOK
  <2>3. \A d \in Calls : CallTells(d)'
    BY <2>1, LogsSame, OtherTells DEF TrailInv
  <2>4. RemovalsTell'
    BY <2>1, RemovalsKeep
  <2>5. QED
    BY <2>2, <2>3, <2>4 DEF TrailInv
<1>2. QED
  BY <1>1, ReceiveKeeps, TakeSnapshotKeeps, HandleKeeps, QuietCallsKeep, WriteOwnAuditKeeps,
     MirrorOwnKeeps, WriteAuditKeeps, WriteSystemKeeps, ServerStopsKeeps DEF AuditTrailNext

\* At most one member.
LEMMA AtMostOne ==
  ASSUME NEW S, \A i, j \in S : i = j
  PROVE  (S = {} /\ Cardinality(S) = 0) \/ (S # {} /\ Cardinality(S) = 1)
<1>1. CASE S = {}
  BY <1>1, FS_EmptySet
<1>2. CASE S # {}
  <2>1. PICK i \in S : S = {i}
    BY <1>2
  <2>2. QED
    BY <2>1, FS_Singleton
<1>3. QED
  BY <1>1, <1>2

LEMMA TrailHolds ==
  ASSUME TrailInv PROVE LogsHold
<1>1. TrailAccounts
  <2>1. SUFFICES ASSUME NEW c \in Calls
                 PROVE  /\ Cardinality(Entries(c)) =< 1
                        /\ Cardinality(Mirrors(c)) =< Cardinality(Entries(c))
                        /\ Entries(c) # {} => trail[c].changed
                        /\ trail[c].step = "passed" /\ trail[c].changed => Mirrors(c) # {}
    BY DEF TrailAccounts
  <2>2. StepTells(c) /\ EntryTells(c) /\ MirrorTells(c)
    BY DEF TrailInv, CallTells
  <2>3. PICK E, M : E = Entries(c) /\ M = Mirrors(c)
    OBVIOUS
  <2>4. (E = {} /\ Cardinality(E) = 0) \/ (E # {} /\ Cardinality(E) = 1)
    BY <2>2, <2>3, AtMostOne DEF EntryTells
  <2>5. (M = {} /\ Cardinality(M) = 0) \/ (M # {} /\ Cardinality(M) = 1)
    BY <2>2, <2>3, AtMostOne DEF MirrorTells
  <2>6. M # {} => E # {}
    BY <2>2, <2>3 DEF MirrorTells
  <2>7. Cardinality(E) =< 1 /\ Cardinality(M) =< Cardinality(E)
    BY <2>4, <2>5, <2>6
  <2>8. QED
    BY <2>2, <2>3, <2>7 DEF StepTells, EntryTells
<1>2. RemovedOnce
  <2>1. SUFFICES ASSUME NEW c \in Calls, NEW d \in Calls, NEW i \in Entries(c), NEW j \in Entries(d),
                        table = "roles", auditLog[i].names # 0, auditLog[j].names # 0,
                        trail[c].row = trail[d].row
                 PROVE  c = d
    BY DEF RemovedOnce
  <2>2. ASSUME NEW e \in Calls, NEW k \in Entries(e), auditLog[k].names # 0
        PROVE  Removed(e)
    <3>1. EntryTells(e) /\ LoggedCallFits(e)
      BY DEF TrailInv, CallTells
    <3>2. /\ trail[e].step \in {"name", "system", "passed", "dropped", "lost"}
          /\ trail[e].changed /\ auditLog[k].names = DetailsOf(e)
      BY <3>1 DEF EntryTells
    <3>3. trail[e] # Unmade
      BY <3>2 DEF Unmade
    <3>4. trail[e].url \in {"users", "roles"} /\ trail[e].method = "DELETE"
      BY <2>2, <3>2 DEF DetailsOf
    <3>5. trail[e].url = "roles"
      BY <2>1, <3>1, <3>3, <3>4 DEF LoggedCallFits
    <3>6. QED
      BY <3>2, <3>3, <3>4, <3>5 DEF Removed
  <2>3. Removed(c) /\ Removed(d)
    BY <2>1, <2>2
  <2>4. QED
    BY <2>1, <2>3 DEF TrailInv, RemovalsTell, RemovedByOne
<1>3. QED
  BY <1>1, <1>2 DEF LogsHold

\* Whatever overlaps, fails and is lost: an entry tells of what has happened, once in
\* each log, and of a role that is removed one entry tells.
THEOREM LogsStayTrue == AuditTrailSpec => [](AuditTrailTypeOK /\ LogsHold)
<1>1. AuditTrailInit => TrailInv
  BY TrailStarts
<1>2. TrailInv /\ [AuditTrailNext]_auditTrailVars => TrailInv'
  BY TrailStep
<1>3. TrailInv => AuditTrailTypeOK /\ LogsHold
  BY TrailHolds DEF TrailInv
<1>4. QED
  BY <1>1, <1>2, <1>3, PTL DEF AuditTrailSpec

------------------------------------------------------------------------------
(***************************************************************************)
(* The case file: CaseFile.                                                *)
(***************************************************************************)

EditsOf(given) == {r[1] : r \in given}
Whole(given) == given = EditsOf(given) \X {1, 2}

\* What a call goes by is still so, or can be told to be old.
WorkFits(s) ==
  /\ work[s].at = "steps" => steps.made
  /\ work[s].at = "fill" => Whole(work[s].gone)
  /\ work[s].at = "insert" => work[s].number =< Len(grievances) + 1
  /\ work[s].at \in {"escalate", "comment"} => work[s].grievance =< Len(grievances)
  /\ work[s].at \in {"specific", "general", "ruled"} => work[s].since =< rules.changes
  /\ work[s].at = "general" /\ work[s].since = rules.changes => "DB_SPECIFIC" \notin rules.active

StepsWhole == Whole(steps.rows) /\ (steps.made /\ ~steps.bare => steps.rows # {})

\* The edits whose steps stand are of different members of the staff: one that has
\* looked at the steps to replace them saw those of its edits before.
OwnedBy(owner) ==
  /\ \A e, f \in EditsOf(steps.rows) : owner[e] = owner[f] => e = f
  /\ \A e \in EditsOf(steps.rows) :
       work[owner[e]].at = "fill" => {e} \X {1, 2} \subseteq work[owner[e]].gone
Owned == \E owner \in [EditsOf(steps.rows) -> Staff] : OwnedBy(owner)

CaseFileInv ==
  /\ CaseFileTypeOK
  /\ \A s \in Staff : WorkFits(s)
  /\ StepsWhole
  /\ Owned
  /\ TemplateWhole
  /\ LookupIsMostSpecific
  /\ FileAccounts
  /\ GrievancesNumbered

GrievanceRow == [number : Nat \ {0}, status : GrievanceStatus, comments : Nat]
StepsRecord == [made : BOOLEAN, rows : SUBSET StepRow, bare : BOOLEAN]
Intake == [given : SUBSET (StepRow \cup BuiltIn), failed : BOOLEAN, bare : BOOLEAN]

LEMMA CaseFileStarts ==
  ASSUME CaseFileInit PROVE CaseFileInv
<1>1. \A s \in Staff : work[s] = Free /\ work[s].at = "free"
  BY DEF CaseFileInit, Free
<1>2. CaseFileTypeOK
  <2>1. 0 \in 0 .. MaxEvents /\ 0 \in 0 .. MaxOutages
    BY CaseFileAssumption
  <2>2. rules \in [active : SUBSET {"DB_SPECIFIC", "DB_GENERAL"}, changes : Nat]
    BY DEF CaseFileInit
  <2>3. QED
    BY <2>1, <2>2 DEF CaseFileInit, CaseFileTypeOK, Work
<1>3. steps.rows = {} /\ ~steps.made /\ intakes = {} /\ grievances = <<>>
  BY DEF CaseFileInit
<1>4. EditsOf(steps.rows) = {}
  BY <1>3 DEF EditsOf
<1>5. StepsWhole /\ TemplateWhole /\ GrievancesNumbered
  BY <1>3, <1>4 DEF StepsWhole, Whole, TemplateWhole, GrievancesNumbered
<1>6. Owned
  <2>1. PICK owner : owner = [e \in EditsOf(steps.rows) |-> CHOOSE t \in Staff : TRUE]
    OBVIOUS
  <2>2. owner \in [EditsOf(steps.rows) -> Staff]
    BY <1>4, <2>1
  <2>3. QED
    BY <1>4, <2>2 DEF Owned, OwnedBy
<1>7. FileAccounts
  <2>1. InTrail = {}
    BY <1>1 DEF InTrail
  <2>2. QED
    BY <2>1, FS_EmptySet DEF CaseFileInit, FileAccounts
<1>8. (\A s \in Staff : WorkFits(s)) /\ LookupIsMostSpecific
  BY <1>1 DEF WorkFits, LookupIsMostSpecific
<1>9. QED
  BY <1>2, <1>5, <1>6, <1>7, <1>8 DEF CaseFileInv

LEMMA WorkMoves ==
  ASSUME CaseFileTypeOK, NEW s \in Staff, NEW to \in Work, work' = [work EXCEPT ![s] = to]
  PROVE  /\ work' \in [Staff -> Work] /\ work'[s] = to
         /\ \A t \in Staff \ {s} : work'[t] = work[t]
BY DEF CaseFileTypeOK

\* The calls of others still fit.
LEMMA OthersFit ==
  ASSUME NEW t \in Staff, WorkFits(t), work'[t] = work[t], steps.made => steps'.made,
         Len(grievances) \in Nat, Len(grievances') \in Nat, Len(grievances) =< Len(grievances'),
         CaseFileTypeOK, rules' = rules
  PROVE  WorkFits(t)'
<1>1. work[t] \in Work
  BY DEF CaseFileTypeOK
<1>2. work[t].at = "insert" => work[t].number \in Nat
  BY <1>1 DEF Work, Free
<1>3. work[t].at \in {"escalate", "comment"} => work[t].grievance \in Nat
  BY <1>1 DEF Work, Free
<1>4. QED
  BY <1>2, <1>3 DEF WorkFits

\* Nobody's edit is undone by a call that leaves the steps alone.
LEMMA OwnedStays ==
  ASSUME Owned, StepsWhole, steps'.rows = steps.rows,
         \A t \in Staff : work'[t] = work[t] \/ work'[t].at # "fill"
                          \/ work'[t].gone = steps.rows
  PROVE  Owned'
<1>1. PICK kept : kept = steps.rows
  OBVIOUS
<1>2. PICK owner \in [EditsOf(kept) -> Staff] : OwnedBy(owner)
  BY <1>1 DEF Owned
<1>3. EditsOf(steps.rows)' = EditsOf(kept)
  BY <1>1 DEF EditsOf
<1>4. \A e \in EditsOf(kept) :
        work'[owner[e]].at = "fill" => {e} \X {1, 2} \subseteq work'[owner[e]].gone
  <2>1. SUFFICES ASSUME NEW e \in EditsOf(kept), work'[owner[e]].at = "fill"
                 PROVE  {e} \X {1, 2} \subseteq work'[owner[e]].gone
    OBVIOUS
  <2>2. owner[e] \in Staff
    BY <1>2
  <2>3. CASE work'[owner[e]] = work[owner[e]]
    BY <1>1, <1>2, <2>1, <2>3 DEF OwnedBy
  <2>4. CASE work'[owner[e]].gone = kept
    <3>1. Whole(kept)
      BY <1>1 DEF StepsWhole
    <3>2. QED
      BY <2>4, <3>1 DEF Whole
  <2>5. QED
    BY <1>1, <2>1, <2>2, <2>3, <2>4
<1>5. QED
  BY <1>1, <1>2, <1>3, <1>4 DEF Owned, OwnedBy

LEMMA TrailStays ==
  ASSUME NEW s \in Staff, FileAccounts, work[s].at # "trail", work'[s].at # "trail",
         \A t \in Staff \ {s} : work'[t] = work[t],
         file'.rows = file.rows, file'.entries = file.entries, file'.lost = file.lost
  PROVE  FileAccounts'
<1>1. InTrail' = InTrail
  BY DEF InTrail
<1>2. QED
  BY <1>1 DEF FileAccounts

LEMMA CaseFileQuiet ==
  ASSUME CaseFileInv, NEW s \in Staff, NEW to \in Work, work' = [work EXCEPT ![s] = to],
         to.at \notin {"fill", "trail", "ruled"}, work[s].at # "trail",
         events' \in 0 .. MaxEvents, outages' \in 0 .. MaxOutages,
         UNCHANGED <<followed, steps, intakes, rules>>,
         file' \in [rows : Nat, entries : Nat, stored : Nat, lost : Nat],
         file'.rows = file.rows, file'.entries = file.entries, file'.lost = file.lost,
         grievances' \in Seq(GrievanceRow), Len(grievances) =< Len(grievances'),
         GrievancesNumbered', WorkFits(s)'
  PROVE  CaseFileInv'
<1>1. CaseFileTypeOK
  BY DEF CaseFileInv
<1>2. /\ work' \in [Staff -> Work] /\ work'[s] = to
      /\ \A t \in Staff \ {s} : work'[t] = work[t]
  BY <1>1, WorkMoves
<1>3. CaseFileTypeOK'
  BY <1>1, <1>2 DEF CaseFileTypeOK, GrievanceRow
<1>4. Len(grievances) \in Nat /\ Len(grievances') \in Nat
  BY <1>1 DEF CaseFileTypeOK
<1>5. \A t \in Staff : WorkFits(t)'
  BY <1>1, <1>2, <1>4, OthersFit DEF CaseFileInv
<1>6. StepsWhole' /\ TemplateWhole'
  BY DEF CaseFileInv, StepsWhole, Whole, EditsOf, TemplateWhole
<1>7. Owned'
  BY <1>2, OwnedStays DEF CaseFileInv
<1>8. LookupIsMostSpecific'
  BY <1>2 DEF CaseFileInv, LookupIsMostSpecific
<1>9. FileAccounts'
  BY <1>2, TrailStays DEF CaseFileInv
<1>10. QED
  BY <1>3, <1>5, <1>6, <1>7, <1>8, <1>9 DEF CaseFileInv

LEMMA TakesCalm ==
  ASSUME CaseFileTypeOK, NEW s \in Staff, NEW piece, NEW to, Takes(s, piece, to)
  PROVE  /\ work[s] = Free /\ work[s].at = "free" /\ work' = [work EXCEPT ![s] = to]
         /\ events + 1 \in 1 .. MaxEvents
         /\ events' \in 0 .. MaxEvents /\ outages' \in 0 .. MaxOutages /\ followed' = followed
BY CaseFileAssumption DEF CaseFileTypeOK, Takes, Free

LEMMA DoesCalm ==
  ASSUME CaseFileTypeOK, NEW s \in Staff, NEW at, NEW to, Does(s, at, to)
  PROVE  /\ work[s].at = at /\ work' = [work EXCEPT ![s] = to]
         /\ events' \in 0 .. MaxEvents /\ outages' \in 0 .. MaxOutages /\ followed' = followed
BY DEF CaseFileTypeOK, Does

LEMMA FailsCalm ==
  ASSUME CaseFileTypeOK, NEW s \in Staff, NEW at, Fails(s, at)
  PROVE  /\ work[s].at = at /\ work' = [work EXCEPT ![s] = Free]
         /\ events' \in 0 .. MaxEvents /\ outages' \in 0 .. MaxOutages /\ followed' = followed
BY CaseFileAssumption DEF CaseFileTypeOK, Fails

LEMMA PlainWork ==
  /\ Free \in Work /\ Free.at = "free"
  /\ \A at \in {"upload", "write", "trail", "find", "steps"} : At(at) \in Work /\ At(at).at = at
BY DEF Work, Free, At

LEMMA FileBumps ==
  ASSUME NEW old \in [rows : Nat, entries : Nat, stored : Nat, lost : Nat], NEW new,
         new \in {[old EXCEPT !.stored = @ + 1], [old EXCEPT !.rows = @ + 1],
                 [old EXCEPT !.entries = @ + 1], [old EXCEPT !.lost = @ + 1]}
  PROVE  /\ new \in [rows : Nat, entries : Nat, stored : Nat, lost : Nat]
         /\ new = [old EXCEPT !.stored = @ + 1] =>
              new.rows = old.rows /\ new.entries = old.entries /\ new.lost = old.lost
         /\ new = [old EXCEPT !.rows = @ + 1] =>
              new.rows = old.rows + 1 /\ new.entries + new.lost = old.entries + old.lost
         /\ new \in {[old EXCEPT !.entries = @ + 1], [old EXCEPT !.lost = @ + 1]} =>
              new.rows = old.rows /\ new.entries + new.lost = old.entries + old.lost + 1
<1>1. CASE new = [old EXCEPT !.stored = @ + 1]
  BY <1>1
<1>2. CASE new = [old EXCEPT !.rows = @ + 1]
  BY <1>2
<1>3. CASE new = [old EXCEPT !.entries = @ + 1]
  BY <1>3
<1>4. CASE new = [old EXCEPT !.lost = @ + 1]
  BY <1>4
<1>5. QED
  BY <1>1, <1>2, <1>3, <1>4

\* A step of a call that changes nothing but where the call is.
LEMMA PlainSteps ==
  ASSUME CaseFileInv, NEW s \in Staff, NEW to \in Work, work' = [work EXCEPT ![s] = to],
         to.at \notin {"fill", "trail", "ruled"}, work[s].at # "trail",
         events' \in 0 .. MaxEvents, outages' \in 0 .. MaxOutages,
         UNCHANGED <<followed, file, steps, intakes, rules, grievances>>, WorkFits(s)'
  PROVE  CaseFileInv'
<1>1. CaseFileTypeOK /\ GrievancesNumbered
  BY DEF CaseFileInv
<1>2. file' \in [rows : Nat, entries : Nat, stored : Nat, lost : Nat]
      /\ grievances' \in Seq(GrievanceRow) /\ Len(grievances) =< Len(grievances')
  BY <1>1 DEF CaseFileTypeOK, GrievanceRow
<1>3. GrievancesNumbered'
  BY <1>1 DEF GrievancesNumbered
<1>4. QED
  BY <1>2, <1>3, CaseFileQuiet

\* A call that is over, or has only begun to write.
LEMMA FreeFits ==
  ASSUME CaseFileTypeOK, NEW s \in Staff, NEW to \in Work, work' = [work EXCEPT ![s] = to],
         to.at \in {"free", "upload", "write", "trail", "edit", "find"}
  PROVE  WorkFits(s)'
BY WorkMoves DEF WorkFits

LEMMA FileStepsKeep ==
  ASSUME CaseFileInv, NEW s \in Staff,
         \/ Assign(s) \/ AddNote(s) \/ AddAttachment(s) \/ VerifyEvidence(s) \/ AddEvidence(s)
         \/ RefuseFileRow(s)
  PROVE  CaseFileInv'
<1>1. CaseFileTypeOK
  BY DEF CaseFileInv
<1>2. PICK to \in Work :
        /\ to.at \in {"upload", "write", "free"} /\ work' = [work EXCEPT ![s] = to]
        /\ work[s].at # "trail" /\ followed' = followed
        /\ events' \in 0 .. MaxEvents /\ outages' \in 0 .. MaxOutages
  <2>1. CASE Assign(s) \/ AddNote(s) \/ AddAttachment(s) \/ VerifyEvidence(s) \/ AddEvidence(s)
    <3>1. PICK at \in {"upload", "write"} : Takes(s, "file", At(at))
      BY <2>1 DEF Assign, AddNote, AddAttachment, VerifyEvidence, AddEvidence
    <3>2. QED
      BY <1>1, <3>1, TakesCalm, PlainWork
  <2>2. CASE RefuseFileRow(s)
    <3>1. PICK at \in {"upload", "write"} : Fails(s, at)
      BY <2>2 DEF RefuseFileRow
    <3>2. QED
      BY <1>1, <3>1, FailsCalm, PlainWork
  <2>3. QED
    BY <2>1, <2>2
<1>3. UNCHANGED <<file, steps, intakes, rules, grievances>>
  BY DEF Assign, AddNote, AddAttachment, VerifyEvidence, AddEvidence, RefuseFileRow, ApartFromFile
<1>4. WorkFits(s)'
  BY <1>1, <1>2, FreeFits
<1>5. QED
  BY <1>2, <1>3, <1>4, PlainSteps

LEMMA StoreKeeps ==
  ASSUME CaseFileInv, NEW s \in Staff, StoreEvidence(s)
  PROVE  CaseFileInv'
<1>1. CaseFileTypeOK /\ GrievancesNumbered
  BY DEF CaseFileInv
<1>2. Does(s, "upload", At("write")) /\ UNCHANGED <<steps, intakes, rules, grievances>>
  BY DEF StoreEvidence, ApartFromFile
<1>3. PICK to \in Work : to = At("write") /\ to.at = "write"
  BY PlainWork
<1>4. /\ work' = [work EXCEPT ![s] = to] /\ work[s].at # "trail" /\ followed' = followed
      /\ events' \in 0 .. MaxEvents /\ outages' \in 0 .. MaxOutages
  BY <1>1, <1>2, <1>3, DoesCalm
<1>5. /\ file' \in [rows : Nat, entries : Nat, stored : Nat, lost : Nat]
      /\ file'.rows = file.rows /\ file'.entries = file.entries /\ file'.lost = file.lost
  <2>1. file \in [rows : Nat, entries : Nat, stored : Nat, lost : Nat]
        /\ file' = [file EXCEPT !.stored = @ + 1]
    BY <1>1 DEF StoreEvidence, CaseFileTypeOK
  <2>2. QED
    BY <2>1, FileBumps
<1>6. grievances' \in Seq(GrievanceRow) /\ Len(grievances) =< Len(grievances')
  BY <1>1, <1>2 DEF CaseFileTypeOK, GrievanceRow
<1>7. GrievancesNumbered'
  BY <1>1, <1>2 DEF GrievancesNumbered
<1>8. WorkFits(s)'
  BY <1>1, <1>3, <1>4, FreeFits
<1>9. QED
  BY <1>2, <1>3, <1>4, <1>5, <1>6, <1>7, <1>8, CaseFileQuiet

\* A row and its entry are two steps; between them the call is counted.
LEMMA FileRowKeeps ==
  ASSUME CaseFileInv, NEW s \in Staff, WriteFileRow(s) \/ WriteTrail(s) \/ LoseTrail(s)
  PROVE  CaseFileInv'
<1>1. CaseFileTypeOK /\ GrievancesNumbered /\ FileAccounts
  BY DEF CaseFileInv
<1>2. PICK to \in Work :
        /\ work' = [work EXCEPT ![s] = to] /\ followed' = followed
        /\ events' \in 0 .. MaxEvents /\ outages' \in 0 .. MaxOutages
        /\ \/ to.at = "trail" /\ work[s].at = "write"
              /\ file' = [file EXCEPT !.rows = @ + 1]
           \/ to.at = "free" /\ work[s].at = "trail"
              /\ file' \in {[file EXCEPT !.entries = @ + 1], [file EXCEPT !.lost = @ + 1]}
  <2>1. CASE WriteFileRow(s)
    <3>1. Does(s, "write", At("trail")) /\ file' = [file EXCEPT !.rows = @ + 1]
      BY <2>1 DEF WriteFileRow
    <3>2. QED
      BY <1>1, <3>1, DoesCalm, PlainWork
  <2>2. CASE WriteTrail(s)
    <3>1. Does(s, "trail", Free) /\ file' = [file EXCEPT !.entries = @ + 1]
      BY <2>2 DEF WriteTrail
    <3>2. QED
      BY <1>1, <3>1, DoesCalm, PlainWork
  <2>3. CASE LoseTrail(s)
    <3>1. Fails(s, "trail") /\ file' = [file EXCEPT !.lost = @ + 1]
      BY <2>3 DEF LoseTrail
    <3>2. QED
      BY <1>1, <3>1, FailsCalm, PlainWork
  <2>4. QED
    BY <2>1, <2>2, <2>3
<1>3. UNCHANGED <<steps, intakes, rules, grievances>>
  BY DEF WriteFileRow, WriteTrail, LoseTrail, ApartFromFile
<1>4. /\ work' \in [Staff -> Work] /\ work'[s] = to
      /\ \A t \in Staff \ {s} : work'[t] = work[t]
  BY <1>1, <1>2, WorkMoves
<1>5. WorkFits(s)'
  BY <1>1, <1>2, FreeFits
<1>6. /\ file' \in [rows : Nat, entries : Nat, stored : Nat, lost : Nat]
      /\ \/ /\ to.at = "trail" /\ file'.rows = file.rows + 1
            /\ file'.entries + file'.lost = file.entries + file.lost
         \/ /\ to.at = "free" /\ file'.rows = file.rows
            /\ file'.entries + file'.lost = file.entries + file.lost + 1
  <2>1. file \in [rows : Nat, entries : Nat, stored : Nat, lost : Nat]
    BY <1>1 DEF CaseFileTypeOK
  <2>2. QED
    BY <1>2, <2>1, FileBumps
<1>7. CaseFileTypeOK'
  BY <1>1, <1>2, <1>3, <1>4, <1>6 DEF CaseFileTypeOK
<1>8. \A t \in Staff : WorkFits(t)'
  <2>1. Len(grievances) \in Nat /\ Len(grievances') = Len(grievances)
    BY <1>1, <1>3 DEF CaseFileTypeOK
  <2>2. QED
    BY <1>1, <1>3, <1>4, <1>5, <2>1, OthersFit DEF CaseFileInv
<1>9. StepsWhole' /\ TemplateWhole' /\ GrievancesNumbered'
  BY <1>1, <1>3 DEF CaseFileInv, StepsWhole, Whole, EditsOf, TemplateWhole, GrievancesNumbered
<1>10. Owned'
  BY <1>2, <1>3, <1>4, OwnedStays DEF CaseFileInv
<1>11. LookupIsMostSpecific'
  BY <1>2, <1>3, <1>4 DEF CaseFileInv, LookupIsMostSpecific
<1>12. FileAccounts'
  <2>1. PICK before, after : before = InTrail /\ after = InTrail'
    OBVIOUS
  <2>2. before \subseteq Staff
    BY <2>1 DEF InTrail
  <2>3. IsFiniteSet(before)
    BY <2>2, CaseFileAssumption, FS_Subset
  <2>4. Cardinality(before) \in Nat
    BY <2>3, FS_CardinalityType
  <2>5. file.rows = file.entries + file.lost + Cardinality(before)
        /\ file.rows \in Nat /\ file.entries \in Nat /\ file.lost \in Nat
        /\ file'.rows \in Nat /\ file'.entries \in Nat /\ file'.lost \in Nat
    BY <1>1, <1>6, <2>1 DEF FileAccounts, CaseFileTypeOK
  <2>6. CASE to.at = "trail"
    <3>1. after = before \cup {s} /\ s \notin before
      BY <1>2, <1>4, <2>1, <2>6 DEF InTrail
    <3>2. Cardinality(after) = Cardinality(before) + 1
      BY <2>3, <3>1, FS_AddElement
    <3>3. QED
      BY <1>6, <2>1, <2>4, <2>5, <2>6, <3>2 DEF FileAccounts
  <2>7. CASE to.at = "free"
    <3>1. after = before \ {s} /\ s \in before
      BY <1>2, <1>4, <2>1, <2>7 DEF InTrail
    <3>2. Cardinality(after) = Cardinality(before) - 1
      BY <2>3, <3>1, FS_RemoveElement
    <3>3. QED
      BY <1>6, <2>1, <2>4, <2>5, <2>7, <3>2 DEF FileAccounts
  <2>8. QED
    BY <1>2, <2>6, <2>7
<1>13. QED
  BY <1>7, <1>8, <1>9, <1>10, <1>11, <1>12 DEF CaseFileInv

LEMMA GrievanceKeepsNumber ==
  ASSUME CaseFileTypeOK, GrievancesNumbered, NEW i \in DOMAIN grievances,
         NEW new \in GrievanceRow, new.number = grievances[i].number,
         grievances' = [grievances EXCEPT ![i] = new]
  PROVE  /\ grievances' \in Seq(GrievanceRow) /\ Len(grievances') = Len(grievances)
         /\ GrievancesNumbered'
<1>1. grievances \in Seq(GrievanceRow)
  BY DEF CaseFileTypeOK, GrievanceRow
<1>2. grievances' \in Seq(GrievanceRow) /\ Len(grievances') = Len(grievances)
  BY <1>1, ExceptSeq
<1>3. GrievancesNumbered'
  BY <1>1 DEF GrievancesNumbered
<1>4. QED
  BY <1>2, <1>3

LEMMA GrievanceIs ==
  ASSUME CaseFileTypeOK, NEW i \in DOMAIN grievances
  PROVE  grievances[i] \in GrievanceRow
<1>1. grievances \in Seq(GrievanceRow)
  BY DEF CaseFileTypeOK, GrievanceRow
<1>2. QED
  BY <1>1

\* The grievance a call is about is on the list.
LEMMA GrievanceOf ==
  ASSUME CaseFileInv, NEW s \in Staff, work[s].at \in {"escalate", "comment"}
  PROVE  work[s].grievance \in DOMAIN grievances /\ work[s].grievance \in Nat \ {0}
<1>1. CaseFileTypeOK /\ WorkFits(s)
  BY DEF CaseFileInv
<1>2. work[s] \in Work
  BY <1>1 DEF CaseFileTypeOK
<1>3. work[s].grievance \in Nat \ {0}
  BY <1>2 DEF Work, Free
<1>4. Len(grievances) \in Nat /\ DOMAIN grievances = 1 .. Len(grievances)
  BY <1>1 DEF CaseFileTypeOK
<1>5. QED
  BY <1>1, <1>3, <1>4 DEF WorkFits

LEMMA GrievanceBegins ==
  ASSUME CaseFileInv, NEW s \in Staff,
         \/ CountGrievances(s)
         \/ \E i \in DOMAIN grievances : AddComment(s, i) \/ ReadForEscalation(s, i)
         \/ GrievanceCallFails(s)
  PROVE  CaseFileInv'
<1>1. CaseFileTypeOK
  BY DEF CaseFileInv
<1>2. Len(grievances) \in Nat /\ DOMAIN grievances = 1 .. Len(grievances)
  BY <1>1 DEF CaseFileTypeOK
<1>3. UNCHANGED <<file, steps, intakes, rules, grievances>>
  BY DEF CountGrievances, AddComment, ReadForEscalation, GrievanceCallFails, ApartFromGrievances
<1>4. CASE CountGrievances(s)
  <2>1. PICK to : /\ Takes(s, "grievances", to)
                  /\ to = [at |-> "insert", number |-> Len(grievances) + 1]
    BY <1>4 DEF CountGrievances
  <2>2. to.at = "insert" /\ to.number = Len(grievances) + 1
    BY <2>1
  <2>3. to \in Work
    BY <1>2, <2>1 DEF Work
  <2>4. /\ work[s].at = "free" /\ work' = [work EXCEPT ![s] = to]
        /\ events' \in 0 .. MaxEvents /\ outages' \in 0 .. MaxOutages /\ followed' = followed
    BY <1>1, <2>1, TakesCalm
  <2>5. work'[s] = to
    BY <1>1, <2>3, <2>4, WorkMoves
  <2>6. WorkFits(s)'
    BY <1>2, <1>3, <2>2, <2>5 DEF WorkFits
  <2>7. QED
    BY <1>3, <2>2, <2>3, <2>4, <2>6, PlainSteps
<1>5. CASE \E i \in DOMAIN grievances : AddComment(s, i) \/ ReadForEscalation(s, i)
  <2>0. PICK i \in DOMAIN grievances, at \in {"comment", "escalate"} :
          Takes(s, "grievances", [at |-> at, grievance |-> i])
    BY <1>5 DEF AddComment, ReadForEscalation
  <2>1. PICK to : Takes(s, "grievances", to) /\ to = [at |-> at, grievance |-> i]
    BY <2>0
  <2>2. to.at = at /\ to.grievance = i
    BY <2>1
  <2>3. to \in Work
    BY <1>2, <2>1 DEF Work
  <2>4. /\ work[s].at = "free" /\ work' = [work EXCEPT ![s] = to]
        /\ events' \in 0 .. MaxEvents /\ outages' \in 0 .. MaxOutages /\ followed' = followed
    BY <1>1, <2>1, TakesCalm
  <2>5. work'[s] = to
    BY <1>1, <2>3, <2>4, WorkMoves
  <2>6. WorkFits(s)'
    BY <1>2, <1>3, <2>2, <2>5 DEF WorkFits
  <2>7. QED
    BY <1>3, <2>2, <2>3, <2>4, <2>6, PlainSteps
<1>6. CASE GrievanceCallFails(s)
  <2>1. PICK at \in {"insert", "escalate", "comment"} : Fails(s, at)
    BY <1>6 DEF GrievanceCallFails
  <2>2. /\ work[s].at # "trail" /\ work' = [work EXCEPT ![s] = Free]
        /\ events' \in 0 .. MaxEvents /\ outages' \in 0 .. MaxOutages /\ followed' = followed
    BY <1>1, <2>1, FailsCalm
  <2>3. WorkFits(s)'
    BY <1>1, <2>2, PlainWork, FreeFits
  <2>4. QED
    BY <1>3, <2>2, <2>3, PlainWork, PlainSteps
<1>7. QED
  BY <1>4, <1>5, <1>6

\* The count a call has taken can only have become too low; then the number is taken.
LEMMA InsertKeeps ==
  ASSUME CaseFileInv, NEW s \in Staff, InsertGrievance(s)
  PROVE  CaseFileInv'
<1>1. CaseFileTypeOK /\ WorkFits(s) /\ GrievancesNumbered
  BY DEF CaseFileInv
<1>2. grievances \in Seq(GrievanceRow) /\ Len(grievances) \in Nat
      /\ DOMAIN grievances = 1 .. Len(grievances)
  BY <1>1 DEF CaseFileTypeOK, GrievanceRow
<1>3. PICK number : /\ number = work[s].number /\ Does(s, "insert", Free)
                    /\ grievances' = IF Taken(number) THEN grievances
                         ELSE Append(grievances, [number |-> number, status |-> "OPEN", comments |-> 0])
  BY DEF InsertGrievance
<1>4. /\ work[s].at = "insert" /\ work' = [work EXCEPT ![s] = Free]
      /\ events' \in 0 .. MaxEvents /\ outages' \in 0 .. MaxOutages /\ followed' = followed
  BY <1>1, <1>3, DoesCalm
<1>5. number \in Nat \ {0} /\ number =< Len(grievances) + 1
  <2>1. work[s] \in Work
    BY <1>1 DEF CaseFileTypeOK
  <2>2. work[s].number \in Nat \ {0}
    BY <1>4, <2>1 DEF Work, Free
  <2>3. QED
    BY <1>1, <1>3, <1>4, <2>2 DEF WorkFits
<1>6. /\ grievances' \in Seq(GrievanceRow) /\ Len(grievances) =< Len(grievances')
      /\ GrievancesNumbered'
  <2>1. CASE Taken(number)
    BY <1>1, <1>2, <1>3, <2>1 DEF GrievancesNumbered
  <2>2. CASE ~Taken(number)
    <3>1. number = Len(grievances) + 1
      BY <1>1, <1>2, <1>5, <2>2 DEF Taken, GrievancesNumbered
    <3>2. PICK new \in GrievanceRow : new = [number |-> number, status |-> "OPEN", comments |-> 0]
      BY <1>5 DEF GrievanceRow, GrievanceStatus
    <3>3. grievances' = Append(grievances, new) /\ new.number = Len(grievances) + 1
      BY <1>3, <2>2, <3>1, <3>2
    <3>4. /\ grievances' \in Seq(GrievanceRow) /\ Len(grievances') = Len(grievances) + 1
          /\ \A i \in 1 .. Len(grievances) : grievances'[i] = grievances[i]
          /\ grievances'[Len(grievances) + 1] = new
          /\ DOMAIN grievances' = 1 .. Len(grievances')
      BY <1>2, <3>3, AppendProperties
    <3>5. GrievancesNumbered'
      BY <1>1, <1>2, <3>3, <3>4 DEF GrievancesNumbered
    <3>6. QED
      BY <1>2, <3>4, <3>5
  <2>3. QED
    BY <2>1, <2>2
<1>7. UNCHANGED <<file, steps, intakes, rules>>
  BY DEF InsertGrievance, ApartFromGrievances
<1>8. WorkFits(s)'
  BY <1>1, <1>4, PlainWork, FreeFits
<1>9. file' \in [rows : Nat, entries : Nat, stored : Nat, lost : Nat]
  BY <1>1, <1>7 DEF CaseFileTypeOK
<1>10. QED
  BY <1>4, <1>6, <1>7, <1>8, <1>9, PlainWork, CaseFileQuiet

\* A grievance is written to under the number it has.
LEMMA GrievanceWrites ==
  ASSUME CaseFileInv, NEW s \in Staff,
         \/ \E i \in DOMAIN grievances, status \in GrievanceStatus : UpdateGrievance(s, i, status)
         \/ EscalateGrievance(s) \/ WriteComment(s)
  PROVE  CaseFileInv'
<1>1. CaseFileTypeOK /\ GrievancesNumbered
  BY DEF CaseFileInv
<1>2. UNCHANGED <<file, steps, intakes, rules>>
  BY DEF UpdateGrievance, EscalateGrievance, WriteComment, ApartFromGrievances
<1>3. PICK i \in DOMAIN grievances, new \in GrievanceRow, to \in Work :
        /\ new.number = grievances[i].number /\ grievances' = [grievances EXCEPT ![i] = new]
        /\ to.at \in {"free", "comment"} /\ (to.at = "comment" => to.grievance = i)
        /\ work' = [work EXCEPT ![s] = to] /\ work[s].at # "trail"
        /\ events' \in 0 .. MaxEvents /\ outages' \in 0 .. MaxOutages /\ followed' = followed
  <2>1. CASE \E i \in DOMAIN grievances, status \in GrievanceStatus : UpdateGrievance(s, i, status)
    <3>1. PICK i \in DOMAIN grievances, status \in GrievanceStatus :
            /\ Takes(s, "grievances", Free)
            /\ grievances' = [grievances EXCEPT ![i].status = status]
      BY <2>1 DEF UpdateGrievance
    <3>2. PICK new : new = [grievances[i] EXCEPT !.status = status]
      OBVIOUS
    <3>3. new \in GrievanceRow /\ new.number = grievances[i].number
      BY <1>1, <3>2, GrievanceIs DEF GrievanceRow
    <3>4. grievances' = [grievances EXCEPT ![i] = new]
      BY <3>1, <3>2
    <3>5. /\ work' = [work EXCEPT ![s] = Free] /\ work[s].at # "trail"
          /\ events' \in 0 .. MaxEvents /\ outages' \in 0 .. MaxOutages /\ followed' = followed
      BY <1>1, <3>1, TakesCalm
    <3>6. QED
      BY <3>3, <3>4, <3>5, PlainWork
  <2>2. CASE EscalateGrievance(s)
    <3>1. PICK i, to : /\ i = work[s].grievance /\ to = [work[s] EXCEPT !.at = "comment"]
                       /\ Does(s, "escalate", to)
                       /\ grievances' = [grievances EXCEPT ![i].status = "ESCALATED"]
      BY <2>2 DEF EscalateGrievance
    <3>2. /\ work' = [work EXCEPT ![s] = to] /\ work[s].at = "escalate"
          /\ events' \in 0 .. MaxEvents /\ outages' \in 0 .. MaxOutages /\ followed' = followed
      BY <1>1, <3>1, DoesCalm
    <3>3. i \in DOMAIN grievances
      BY <3>1, <3>2, GrievanceOf
    <3>4. to \in Work /\ to.at = "comment" /\ to.grievance = i
      <4>1. work[s] \in Work
        BY <1>1 DEF CaseFileTypeOK
      <4>2. work[s] \in [at : {"escalate", "comment"}, grievance : Nat \ {0}]
        BY <3>2, <4>1 DEF Work, Free
      <4>3. to \in [at : {"escalate", "comment"}, grievance : Nat \ {0}]
            /\ to.at = "comment" /\ to.grievance = i
        BY <3>1, <4>2
      <4>4. QED
        BY <4>3 DEF Work
    <3>5. PICK new : new = [grievances[i] EXCEPT !.status = "ESCALATED"]
      OBVIOUS
    <3>6. new \in GrievanceRow /\ new.number = grievances[i].number
      BY <1>1, <3>3, <3>5, GrievanceIs DEF GrievanceRow, GrievanceStatus
    <3>7. grievances' = [grievances EXCEPT ![i] = new]
      BY <3>1, <3>5
    <3>8. QED
      BY <3>2, <3>3, <3>4, <3>6, <3>7
  <2>3. CASE WriteComment(s)
    <3>1. PICK i : /\ i = work[s].grievance /\ Does(s, "comment", Free)
                   /\ grievances' = [grievances EXCEPT ![i].comments = @ + 1]
      BY <2>3 DEF WriteComment
    <3>2. /\ work' = [work EXCEPT ![s] = Free] /\ work[s].at = "comment"
          /\ events' \in 0 .. MaxEvents /\ outages' \in 0 .. MaxOutages /\ followed' = followed
      BY <1>1, <3>1, DoesCalm
    <3>3. i \in DOMAIN grievances
      BY <3>1, <3>2, GrievanceOf
    <3>4. PICK new : new = [grievances[i] EXCEPT !.comments = @ + 1]
      OBVIOUS
    <3>5. new \in GrievanceRow /\ new.number = grievances[i].number
      BY <1>1, <3>3, <3>4, GrievanceIs DEF GrievanceRow
    <3>6. grievances' = [grievances EXCEPT ![i] = new]
      BY <3>1, <3>4
    <3>7. QED
      BY <3>2, <3>3, <3>5, <3>6, PlainWork
  <2>4. QED
    BY <2>1, <2>2, <2>3
<1>4. /\ grievances' \in Seq(GrievanceRow) /\ Len(grievances') = Len(grievances)
      /\ GrievancesNumbered'
  BY <1>1, <1>3, GrievanceKeepsNumber
<1>5. work'[s] = to
  BY <1>1, <1>3, WorkMoves
<1>6. Len(grievances) \in Nat /\ DOMAIN grievances = 1 .. Len(grievances)
  BY <1>1 DEF CaseFileTypeOK
<1>7. WorkFits(s)'
  BY <1>3, <1>4, <1>5, <1>6 DEF WorkFits
<1>8. file' \in [rows : Nat, entries : Nat, stored : Nat, lost : Nat]
  BY <1>1, <1>2 DEF CaseFileTypeOK
<1>9. to.at \notin {"fill", "trail", "ruled"}
  BY <1>3
<1>10. file'.rows = file.rows /\ file'.entries = file.entries /\ file'.lost = file.lost
       /\ Len(grievances) =< Len(grievances')
  BY <1>2, <1>4, <1>6
<1>11. UNCHANGED <<followed, steps, intakes, rules>>
  BY <1>2, <1>3
<1>12. QED
  BY <1>3, <1>4, <1>7, <1>8, <1>9, <1>10, <1>11, CaseFileQuiet

\* A step of a lookup; an answer is the most specific rule unless a rule changed since.
LEMMA LookupSteps ==
  ASSUME CaseFileInv, NEW s \in Staff, NEW to \in Work, work' = [work EXCEPT ![s] = to],
         to.at \in {"free", "specific", "general", "ruled"}, work[s].at # "trail",
         events' \in 0 .. MaxEvents, outages' \in 0 .. MaxOutages,
         UNCHANGED <<followed, file, steps, intakes, rules, grievances>>,
         to.at # "free" => to.since =< rules.changes,
         to.at = "general" /\ to.since = rules.changes => "DB_SPECIFIC" \notin rules.active,
         to.at = "ruled" /\ ~to.failed /\ to.since = rules.changes =>
           to.source = IF "DB_SPECIFIC" \in rules.active THEN "DB_SPECIFIC"
                       ELSE IF "DB_GENERAL" \in rules.active THEN "DB_GENERAL"
                       ELSE "BUILT_IN_DEFAULT"
  PROVE  CaseFileInv'
<1>1. CaseFileTypeOK
  BY DEF CaseFileInv
<1>2. /\ work' \in [Staff -> Work] /\ work'[s] = to
      /\ \A t \in Staff \ {s} : work'[t] = work[t]
  BY <1>1, WorkMoves
<1>3. CaseFileTypeOK'
  BY <1>1, <1>2 DEF CaseFileTypeOK
<1>4. Len(grievances) \in Nat /\ Len(grievances') = Len(grievances)
  BY <1>1 DEF CaseFileTypeOK
<1>5. WorkFits(s)'
  BY <1>2 DEF WorkFits
<1>6. \A t \in Staff : WorkFits(t)'
  BY <1>1, <1>2, <1>4, <1>5, OthersFit DEF CaseFileInv
<1>7. StepsWhole' /\ TemplateWhole' /\ GrievancesNumbered'
  BY DEF CaseFileInv, StepsWhole, Whole, EditsOf, TemplateWhole, GrievancesNumbered
<1>8. Owned'
  BY <1>2, OwnedStays DEF CaseFileInv
<1>9. LookupIsMostSpecific'
  BY <1>2 DEF CaseFileInv, LookupIsMostSpecific
<1>10. FileAccounts'
  BY <1>2, TrailStays DEF CaseFileInv
<1>11. QED
  BY <1>3, <1>6, <1>7, <1>8, <1>9, <1>10 DEF CaseFileInv

LEMMA RuledIs ==
  ASSUME NEW s, work[s].since \in Nat, NEW source \in Sources, NEW failed \in BOOLEAN
  PROVE  /\ Ruled(s, source, failed) \in Work
         /\ Ruled(s, source, failed).at = "ruled"
         /\ Ruled(s, source, failed).since = work[s].since
         /\ Ruled(s, source, failed).source = source
         /\ Ruled(s, source, failed).failed = failed
BY DEF Ruled, Work

LEMMA LookupKeeps ==
  ASSUME CaseFileInv, NEW s \in Staff,
         LookUpRule(s) \/ AskSpecific(s) \/ AskGeneral(s) \/ RuleQueryFails(s) \/ TakeRule(s)
  PROVE  CaseFileInv'
<1>1. CaseFileTypeOK /\ WorkFits(s)
  BY DEF CaseFileInv
<1>2. UNCHANGED <<file, steps, intakes, rules, grievances>>
  BY DEF LookUpRule, AskSpecific, AskGeneral, RuleQueryFails, TakeRule, ApartFromRules
<1>3. work[s] \in Work /\ rules.changes \in Nat
  BY <1>1 DEF CaseFileTypeOK
<1>4. work[s].at \in {"specific", "general"} =>
        /\ work[s] \in [at : {"specific", "general"}, since : Nat]
        /\ work[s].since =< rules.changes
  BY <1>1, <1>3 DEF Work, Free, WorkFits
<1>5. CASE LookUpRule(s)
  <2>1. PICK to : Takes(s, "rule", to) /\ to = [at |-> "specific", since |-> rules.changes]
    BY <1>5 DEF LookUpRule
  <2>2. to \in Work /\ to.at = "specific" /\ to.since = rules.changes
    BY <1>3, <2>1 DEF Work
  <2>3. /\ work[s].at = "free" /\ work' = [work EXCEPT ![s] = to]
        /\ events' \in 0 .. MaxEvents /\ outages' \in 0 .. MaxOutages /\ followed' = followed
    BY <1>1, <2>1, TakesCalm
  <2>4. to.since =< rules.changes /\ to.at \notin {"free", "general", "ruled"}
    BY <1>3, <2>2
  <2>5. UNCHANGED <<followed, file, steps, intakes, rules, grievances>>
    BY <1>2, <2>3
  <2>6. QED
    BY <2>2, <2>3, <2>4, <2>5, LookupSteps
<1>6. CASE AskSpecific(s)
  <2>1. PICK to : /\ Does(s, "specific", to)
                  /\ to = IF "DB_SPECIFIC" \in rules.active THEN Ruled(s, "DB_SPECIFIC", FALSE)
                          ELSE [work[s] EXCEPT !.at = "general"]
    BY <1>6 DEF AskSpecific
  <2>2. /\ work[s].at = "specific" /\ work' = [work EXCEPT ![s] = to]
        /\ events' \in 0 .. MaxEvents /\ outages' \in 0 .. MaxOutages /\ followed' = followed
    BY <1>1, <2>1, DoesCalm
  <2>3. CASE "DB_SPECIFIC" \in rules.active
    <3>1. /\ to \in Work /\ to.at = "ruled" /\ to.since = work[s].since
          /\ to.source = "DB_SPECIFIC"
      BY <1>4, <2>1, <2>2, <2>3, RuledIs DEF Sources
    <3>2. QED
      BY <1>2, <1>4, <2>2, <2>3, <3>1, LookupSteps
  <2>4. CASE "DB_SPECIFIC" \notin rules.active
    <3>1. to \in [at : {"specific", "general"}, since : Nat] /\ to.at = "general"
          /\ to.since = work[s].since
      BY <1>4, <2>1, <2>2, <2>4
    <3>2. to \in Work
      BY <3>1 DEF Work
    <3>3. QED
      BY <1>2, <1>4, <2>2, <2>4, <3>1, <3>2, LookupSteps
  <2>5. QED
    BY <2>3, <2>4
<1>7. CASE AskGeneral(s)
  <2>1. PICK source, to :
          /\ Does(s, "general", to) /\ to = Ruled(s, source, FALSE)
          /\ source = IF "DB_GENERAL" \in rules.active THEN "DB_GENERAL" ELSE "BUILT_IN_DEFAULT"
    BY <1>7 DEF AskGeneral
  <2>2. /\ work[s].at = "general" /\ work' = [work EXCEPT ![s] = to]
        /\ events' \in 0 .. MaxEvents /\ outages' \in 0 .. MaxOutages /\ followed' = followed
    BY <1>1, <2>1, DoesCalm
  <2>3. /\ to \in Work /\ to.at = "ruled" /\ to.since = work[s].since /\ to.source = source
    <3>1. source \in Sources
      BY <2>1 DEF Sources
    <3>2. work[s].since \in Nat
      BY <1>4, <2>2
    <3>3. QED
      BY <2>1, <3>1, <3>2, RuledIs
  <2>4. to.since = rules.changes => "DB_SPECIFIC" \notin rules.active
    BY <1>1, <2>2, <2>3 DEF WorkFits
  <2>5. QED
    BY <1>2, <1>4, <2>1, <2>2, <2>3, <2>4, LookupSteps
<1>8. CASE RuleQueryFails(s)
  <2>1. PICK to : to = Ruled(s, "BUILT_IN_DEFAULT", TRUE) /\ work' = [work EXCEPT ![s] = to]
    BY <1>8 DEF RuleQueryFails
  <2>2. /\ work[s].at \in {"specific", "general"} /\ followed' = followed
        /\ events' \in 0 .. MaxEvents /\ outages' \in 0 .. MaxOutages
    BY <1>1, <1>8, CaseFileAssumption DEF RuleQueryFails, CaseFileTypeOK
  <2>3. to \in Work /\ to.at = "ruled" /\ to.since = work[s].since /\ to.failed
    BY <1>4, <2>1, <2>2, RuledIs DEF Sources
  <2>4. QED
    BY <1>2, <1>4, <2>1, <2>2, <2>3, LookupSteps
<1>9. CASE TakeRule(s)
  <2>1. /\ work[s].at = "ruled" /\ work' = [work EXCEPT ![s] = Free]
        /\ events' \in 0 .. MaxEvents /\ outages' \in 0 .. MaxOutages /\ followed' = followed
    BY <1>1, <1>9, DoesCalm DEF TakeRule
  <2>2. QED
    BY <1>2, <2>1, PlainWork, LookupSteps
<1>10. QED
  BY <1>5, <1>6, <1>7, <1>8, <1>9

\* A rule that is changed makes every lookup that has begun an old one.
LEMMA ToggleKeeps ==
  ASSUME CaseFileInv, NEW rule \in {"DB_SPECIFIC", "DB_GENERAL"}, ToggleRule(rule)
  PROVE  CaseFileInv'
<1>1. CaseFileTypeOK
  BY DEF CaseFileInv
<1>2. UNCHANGED <<followed, work, outages, file, steps, intakes, grievances>>
  BY DEF ToggleRule, ApartFromRules
<1>3. events' \in 0 .. MaxEvents
  BY <1>1, CaseFileAssumption DEF ToggleRule, CaseFileTypeOK
<1>4. rules.changes \in Nat /\ rules.active \subseteq {"DB_SPECIFIC", "DB_GENERAL"}
  BY <1>1 DEF CaseFileTypeOK
<1>5. /\ rules' \in [active : SUBSET {"DB_SPECIFIC", "DB_GENERAL"}, changes : Nat]
      /\ rules'.changes = rules.changes + 1
  <2>1. PICK active : rules' = [active |-> active, changes |-> rules.changes + 1]
                      /\ active \subseteq {"DB_SPECIFIC", "DB_GENERAL"}
    BY <1>4 DEF ToggleRule
  <2>2. QED
    BY <1>4, <2>1
<1>6. CaseFileTypeOK'
  BY <1>1, <1>2, <1>3, <1>5 DEF CaseFileTypeOK
<1>7. \A t \in Staff : work[t].at \in {"specific", "general", "ruled"} =>
        work[t].since \in Nat /\ work[t].since < rules'.changes
  <2>1. SUFFICES ASSUME NEW t \in Staff, work[t].at \in {"specific", "general", "ruled"}
                 PROVE  work[t].since \in Nat /\ work[t].since < rules'.changes
    OBVIOUS
  <2>2. work[t] \in Work /\ WorkFits(t)
    BY <1>1 DEF CaseFileInv, CaseFileTypeOK
  <2>3. work[t].since \in Nat
    BY <2>1, <2>2 DEF Work, Free
  <2>4. QED
    BY <1>4, <1>5, <2>1, <2>2, <2>3 DEF WorkFits
<1>8. \A t \in Staff : WorkFits(t)'
  BY <1>2, <1>5, <1>7 DEF CaseFileInv, WorkFits
<1>9. LookupIsMostSpecific'
  BY <1>2, <1>5, <1>7 DEF LookupIsMostSpecific
<1>10. StepsWhole' /\ TemplateWhole' /\ GrievancesNumbered' /\ FileAccounts'
  BY <1>2 DEF CaseFileInv, StepsWhole, Whole, EditsOf, TemplateWhole, GrievancesNumbered,
              FileAccounts, InTrail
<1>11. Owned'
  BY <1>2, OwnedStays DEF CaseFileInv
<1>12. QED
  BY <1>6, <1>8, <1>9, <1>10, <1>11 DEF CaseFileInv

\* An upsert and a lookup begin, or a call about the template ends in failure.
LEMMA TemplateBegins ==
  ASSUME CaseFileInv, NEW s \in Staff,
         \/ \E empty \in BOOLEAN : ReadForUpsert(s, empty)
         \/ LookUpTemplate(s) \/ FindTemplate(s) \/ AbandonTemplate(s)
  PROVE  CaseFileInv'
<1>1. CaseFileTypeOK
  BY DEF CaseFileInv
<1>2. UNCHANGED <<file, steps, intakes, rules, grievances>>
  BY DEF ReadForUpsert, LookUpTemplate, FindTemplate, AbandonTemplate, ApartFromTemplate
<1>3. CASE \E empty \in BOOLEAN : ReadForUpsert(s, empty)
  <2>1. PICK to : /\ Takes(s, "template", to)
                  /\ \E empty \in BOOLEAN :
                       to = [at |-> "edit", edit |-> events + 1, empty |-> empty,
                             found |-> steps.made]
    BY <1>3 DEF ReadForUpsert
  <2>2. /\ work[s].at = "free" /\ work' = [work EXCEPT ![s] = to]
        /\ events + 1 \in 1 .. MaxEvents
        /\ events' \in 0 .. MaxEvents /\ outages' \in 0 .. MaxOutages /\ followed' = followed
    BY <1>1, <2>1, TakesCalm
  <2>3. to \in Work /\ to.at = "edit"
    <3>1. steps.made \in BOOLEAN
      BY <1>1 DEF CaseFileTypeOK
    <3>2. QED
      BY <2>1, <2>2, <3>1 DEF Work
  <2>4. WorkFits(s)'
    BY <1>1, <2>2, <2>3, FreeFits
  <2>5. QED
    BY <1>2, <2>2, <2>3, <2>4, PlainSteps
<1>4. CASE LookUpTemplate(s)
  <2>1. /\ work[s].at = "free" /\ work' = [work EXCEPT ![s] = At("find")]
        /\ events' \in 0 .. MaxEvents /\ outages' \in 0 .. MaxOutages /\ followed' = followed
    BY <1>1, <1>4, TakesCalm DEF LookUpTemplate
  <2>2. WorkFits(s)'
    BY <1>1, <2>1, PlainWork, FreeFits
  <2>3. QED
    BY <1>2, <2>1, <2>2, PlainWork, PlainSteps
<1>5. CASE FindTemplate(s)
  <2>1. PICK to : Does(s, "find", to) /\ to = IF steps.made THEN At("steps") ELSE Free
    BY <1>5 DEF FindTemplate
  <2>2. /\ work[s].at = "find" /\ work' = [work EXCEPT ![s] = to]
        /\ events' \in 0 .. MaxEvents /\ outages' \in 0 .. MaxOutages /\ followed' = followed
    BY <1>1, <2>1, DoesCalm
  <2>3. to \in Work /\ to.at \in {"steps", "free"} /\ (to.at = "steps" => steps.made)
    BY <2>1, PlainWork
  <2>4. work'[s] = to
    BY <1>1, <2>2, <2>3, WorkMoves
  <2>5. WorkFits(s)'
    BY <1>2, <2>3, <2>4 DEF WorkFits
  <2>6. QED
    BY <1>2, <2>2, <2>3, <2>5, PlainSteps
<1>6. CASE AbandonTemplate(s)
  <2>1. PICK at \in {"edit", "fill", "find", "steps"} : Fails(s, at)
    BY <1>6 DEF AbandonTemplate
  <2>2. /\ work[s].at # "trail" /\ work' = [work EXCEPT ![s] = Free]
        /\ events' \in 0 .. MaxEvents /\ outages' \in 0 .. MaxOutages /\ followed' = followed
    BY <1>1, <2>1, FailsCalm
  <2>3. WorkFits(s)'
    BY <1>1, <2>2, PlainWork, FreeFits
  <2>4. QED
    BY <1>2, <2>2, <2>3, PlainWork, PlainSteps
<1>7. QED
  BY <1>3, <1>4, <1>5, <1>6

\* What every step of an edit leaves of the invariant.
LEMMA EditSteps ==
  ASSUME CaseFileInv, NEW s \in Staff, NEW to \in Work, work' = [work EXCEPT ![s] = to],
         to.at \in {"free", "fill"}, work[s].at # "trail",
         to.at = "fill" => Whole(to.gone),
         events' \in 0 .. MaxEvents, outages' \in 0 .. MaxOutages,
         UNCHANGED <<followed, file, intakes, rules, grievances>>,
         steps' \in StepsRecord, steps.made => steps'.made,
         StepsWhole', Owned'
  PROVE  CaseFileInv'
<1>1. CaseFileTypeOK
  BY DEF CaseFileInv
<1>2. /\ work' \in [Staff -> Work] /\ work'[s] = to
      /\ \A t \in Staff \ {s} : work'[t] = work[t]
  BY <1>1, WorkMoves
<1>3. CaseFileTypeOK'
  BY <1>1, <1>2 DEF CaseFileTypeOK, StepsRecord
<1>4. Len(grievances) \in Nat /\ Len(grievances') = Len(grievances)
  BY <1>1 DEF CaseFileTypeOK
<1>5. WorkFits(s)'
  <2>1. Whole(work'[s].gone) <=> Whole(to.gone)
    BY <1>2
  <2>2. QED
    BY <1>2, <2>1 DEF WorkFits, Whole, EditsOf
<1>6. \A t \in Staff : WorkFits(t)'
  BY <1>1, <1>2, <1>4, <1>5, OthersFit DEF CaseFileInv
<1>7. TemplateWhole' /\ GrievancesNumbered'
  BY DEF CaseFileInv, TemplateWhole, GrievancesNumbered
<1>8. LookupIsMostSpecific'
  BY <1>2 DEF CaseFileInv, LookupIsMostSpecific
<1>9. FileAccounts'
  BY <1>2, TrailStays DEF CaseFileInv
<1>10. QED
  BY <1>3, <1>6, <1>7, <1>8, <1>9 DEF CaseFileInv

LEMMA NewStepsWhole ==
  ASSUME NEW w, w.edit \in 1 .. MaxEvents, w.empty \in BOOLEAN
  PROVE  /\ NewSteps(w) \subseteq StepRow /\ (~w.empty => NewSteps(w) # {})
         /\ EditsOf(NewSteps(w)) = (IF w.empty THEN {} ELSE {w.edit}) /\ Whole(NewSteps(w))
<1>1. CASE w.empty
  <2>1. NewSteps(w) = {} /\ EditsOf(NewSteps(w)) = {}
    BY <1>1 DEF NewSteps, EditsOf
  <2>2. QED
    BY <1>1, <2>1 DEF Whole
<1>2. CASE ~w.empty
  <2>1. NewSteps(w) = {w.edit} \X {1, 2}
    BY <1>2 DEF NewSteps
  <2>2. <<w.edit, 1>> \in NewSteps(w) /\ \A r \in NewSteps(w) : r[1] = w.edit
    BY <2>1
  <2>3. EditsOf(NewSteps(w)) = {w.edit}
    BY <2>2 DEF EditsOf
  <2>4. QED
    BY <1>2, <2>1, <2>2, <2>3 DEF StepRow, Whole
<1>3. QED
  BY <1>1, <1>2

LEMMA EditOf ==
  ASSUME CaseFileTypeOK, NEW s \in Staff
  PROVE  /\ work[s].at \in {"edit", "fill"} =>
              work[s].edit \in 1 .. MaxEvents /\ work[s].empty \in BOOLEAN
         /\ work[s].at = "fill" => work[s].gone \subseteq StepRow
<1>1. work[s] \in Work
  BY DEF CaseFileTypeOK
<1>2. QED
  BY <1>1 DEF Work, Free

LEMMA CreateKeeps ==
  ASSUME CaseFileInv, NEW s \in Staff, CreateTemplate(s)
  PROVE  CaseFileInv'
<1>1. CaseFileTypeOK /\ StepsWhole
  BY DEF CaseFileInv
<1>2. UNCHANGED <<file, intakes, rules, grievances>>
  BY DEF CreateTemplate, ApartFromTemplate
<1>3. /\ work[s].at = "edit" /\ work' = [work EXCEPT ![s] = Free]
      /\ events' \in 0 .. MaxEvents /\ outages' \in 0 .. MaxOutages /\ followed' = followed
  BY <1>1, DoesCalm DEF CreateTemplate
<1>4. /\ work'[s] = Free /\ \A t \in Staff \ {s} : work'[t] = work[t]
  BY <1>1, <1>3, PlainWork, WorkMoves
<1>5. PICK w : w = work[s]
  OBVIOUS
<1>6. w.edit \in 1 .. MaxEvents /\ w.empty \in BOOLEAN
  BY <1>1, <1>3, <1>5, EditOf
<1>7. steps' = IF steps.made THEN steps
               ELSE [made |-> TRUE, rows |-> NewSteps(w), bare |-> w.empty]
  BY <1>5 DEF CreateTemplate
<1>8. CASE steps.made
  <2>1. UNCHANGED <<followed, file, steps, intakes, rules, grievances>>
    BY <1>2, <1>3, <1>7, <1>8
  <2>2. WorkFits(s)'
    BY <1>1, <1>3, PlainWork, FreeFits
  <2>3. QED
    BY <1>3, <2>1, <2>2, PlainWork, PlainSteps
<1>9. CASE ~steps.made
  <2>1. PICK made, of : made = NewSteps(w) /\ of = IF w.empty THEN {} ELSE {w.edit}
    OBVIOUS
  <2>2. steps' = [made |-> TRUE, rows |-> made, bare |-> w.empty]
    BY <1>7, <1>9, <2>1
  <2>3. /\ made \subseteq StepRow /\ (~w.empty => made # {})
        /\ EditsOf(made) = of /\ Whole(made)
    BY <1>6, <2>1, NewStepsWhole
  <2>4. /\ steps' \in StepsRecord
        /\ steps'.made /\ steps'.rows = made /\ steps'.bare = w.empty
    BY <1>6, <2>2, <2>3 DEF StepsRecord
  <2>5. StepsWhole'
    BY <2>3, <2>4 DEF StepsWhole, Whole, EditsOf
  <2>6. Owned'
    <3>1. EditsOf(steps.rows)' = of
      BY <2>3, <2>4 DEF EditsOf
    <3>2. PICK owner : owner = [e \in of |-> s]
      OBVIOUS
    <3>3. owner \in [of -> Staff] /\ \A e \in of : owner[e] = s
      BY <3>2
    <3>4. work'[s].at # "fill"
      BY <1>4, PlainWork
    <3>5. \A e, f \in of : e = f
      BY <2>1
    <3>6. QED
      BY <3>1, <3>3, <3>4, <3>5 DEF Owned, OwnedBy
  <2>7. QED
    BY <1>2, <1>3, <2>4, <2>5, <2>6, PlainWork, EditSteps
<1>10. QED
  BY <1>8, <1>9

\* Others still see the steps that a transaction deletes, and it has seen its own.
LEMMA DeleteKeeps ==
  ASSUME CaseFileInv, NEW s \in Staff, DeleteSteps(s)
  PROVE  CaseFileInv'
<1>1. CaseFileTypeOK /\ StepsWhole /\ Owned
  BY DEF CaseFileInv
<1>2. UNCHANGED <<file, intakes, rules, grievances>>
  BY DEF DeleteSteps, ApartFromTemplate
<1>3. steps \in StepsRecord
  BY <1>1 DEF CaseFileTypeOK, StepsRecord
<1>4. steps' = steps
  BY <1>3 DEF DeleteSteps, WhileDeleting, StepsRecord
<1>5. PICK to : /\ Does(s, "edit", to)
                /\ to = [at |-> "fill", edit |-> work[s].edit, empty |-> work[s].empty,
                         gone |-> steps.rows]
  BY DEF DeleteSteps
<1>6. /\ work[s].at = "edit" /\ work' = [work EXCEPT ![s] = to]
      /\ events' \in 0 .. MaxEvents /\ outages' \in 0 .. MaxOutages /\ followed' = followed
  BY <1>1, <1>5, DoesCalm
<1>7. to \in Work /\ to.at = "fill" /\ to.gone = steps.rows
  BY <1>1, <1>3, <1>5, <1>6, EditOf DEF Work, StepsRecord
<1>8. /\ work'[s] = to /\ \A t \in Staff \ {s} : work'[t] = work[t]
  BY <1>1, <1>6, <1>7, WorkMoves
<1>9. Owned'
  BY <1>1, <1>4, <1>7, <1>8, OwnedStays
<1>10. StepsWhole' /\ Whole(to.gone)
  BY <1>1, <1>4, <1>7 DEF StepsWhole
<1>11. QED
  BY <1>2, <1>3, <1>4, <1>6, <1>7, <1>9, <1>10, EditSteps

\* The edits that stand are of the steps, less those the transaction has seen.
LEMMA WholeChanges ==
  ASSUME NEW kept, NEW gone, NEW new, NEW after, Whole(kept), Whole(gone), Whole(new),
         after = (kept \ gone) \cup new
  PROVE  /\ EditsOf(after) = (EditsOf(kept) \ EditsOf(gone)) \cup EditsOf(new)
         /\ Whole(after)
<1>1. \A e, k : <<e, k>> \in kept <=> e \in EditsOf(kept) /\ k \in {1, 2}
  BY DEF Whole
<1>2. \A e, k : <<e, k>> \in gone <=> e \in EditsOf(gone) /\ k \in {1, 2}
  BY DEF Whole
<1>3. \A e, k : <<e, k>> \in new <=> e \in EditsOf(new) /\ k \in {1, 2}
  BY DEF Whole
<1>4. \A r \in after : r = <<r[1], r[2]>>
  BY DEF Whole
<1>5. PICK standing : standing = (EditsOf(kept) \ EditsOf(gone)) \cup EditsOf(new)
  OBVIOUS
<1>6. \A e, k : <<e, k>> \in after <=> e \in standing /\ k \in {1, 2}
  BY <1>1, <1>2, <1>3, <1>5
<1>7. after = standing \X {1, 2}
  BY <1>4, <1>6
<1>8. EditsOf(after) = standing
  <2>1. \A e \in standing : <<e, 1>> \in after /\ <<e, 1>>[1] = e
    BY <1>6
  <2>2. \A r \in after : r[1] \in standing
    BY <1>7
  <2>3. QED
    BY <2>1, <2>2 DEF EditsOf
<1>9. QED
  BY <1>5, <1>7, <1>8 DEF Whole

\* The new steps are of the one that fills; of its earlier edits none stands, and those
\* of others that stand it has not touched.
LEMMA FillKeeps ==
  ASSUME CaseFileInv, NEW s \in Staff, FillSteps(s)
  PROVE  CaseFileInv'
<1>1. CaseFileTypeOK /\ StepsWhole /\ WorkFits(s) /\ Owned
  BY DEF CaseFileInv
<1>2. UNCHANGED <<file, intakes, rules, grievances>>
  BY DEF FillSteps, ApartFromTemplate
<1>3. /\ work[s].at = "fill" /\ work' = [work EXCEPT ![s] = Free]
      /\ events' \in 0 .. MaxEvents /\ outages' \in 0 .. MaxOutages /\ followed' = followed
  BY <1>1, DoesCalm DEF FillSteps
<1>4. /\ work'[s] = Free /\ \A t \in Staff \ {s} : work'[t] = work[t]
  BY <1>1, <1>3, PlainWork, WorkMoves
<1>5. PICK w, n, gone, kept, new, after :
        /\ w = work[s] /\ n = w.edit /\ gone = w.gone /\ kept = steps.rows
        /\ new = NewSteps(w) /\ after = (kept \ gone) \cup new
  OBVIOUS
<1>6. /\ n \in 1 .. MaxEvents /\ w.empty \in BOOLEAN /\ Whole(gone) /\ Whole(kept)
      /\ new \subseteq StepRow /\ (~w.empty => new # {}) /\ Whole(new)
      /\ EditsOf(new) \subseteq {n}
  <2>1. w.edit \in 1 .. MaxEvents /\ w.empty \in BOOLEAN /\ Whole(gone) /\ Whole(kept)
    BY <1>1, <1>3, <1>5, EditOf DEF WorkFits, StepsWhole
  <2>2. QED
    BY <1>5, <2>1, NewStepsWhole
<1>7. EditsOf(after) = (EditsOf(kept) \ EditsOf(gone)) \cup EditsOf(new) /\ Whole(after)
  BY <1>5, <1>6, WholeChanges
<1>8. /\ steps' \in StepsRecord
      /\ steps'.made = steps.made /\ steps'.rows = after /\ steps'.bare = w.empty
      /\ ~w.empty => after # {}
  <2>1. steps \in StepsRecord
    BY <1>1 DEF CaseFileTypeOK, StepsRecord
  <2>2. after \subseteq StepRow /\ (~w.empty => after # {})
    BY <1>5, <1>6, <2>1 DEF StepsRecord
  <2>3. steps' = [steps EXCEPT !.rows = after, !.bare = w.empty]
    BY <1>5, <2>1 DEF FillSteps
  <2>4. QED
    BY <1>6, <2>1, <2>2, <2>3 DEF StepsRecord
<1>9. StepsWhole'
  BY <1>7, <1>8 DEF StepsWhole, Whole, EditsOf
<1>10. Owned'
  <2>1. PICK owner \in [EditsOf(kept) -> Staff] : OwnedBy(owner)
    BY <1>1, <1>5 DEF Owned
  <2>2. PICK next : next = [e \in EditsOf(after) |-> IF e = n THEN s ELSE owner[e]]
    OBVIOUS
  <2>3. \A e \in EditsOf(after) : e = n \/ (e \in EditsOf(kept) /\ e \notin EditsOf(gone))
    BY <1>6, <1>7
  <2>4. \A e \in EditsOf(after) :
          /\ e = n => next[e] = s
          /\ e # n => next[e] = owner[e] /\ owner[e] \in Staff
    BY <2>1, <2>2, <2>3
  <2>5. next \in [EditsOf(after) -> Staff]
    BY <2>2, <2>4
  <2>6. \A e \in EditsOf(kept) \ EditsOf(gone) : owner[e] # s
    <3>1. SUFFICES ASSUME NEW e \in EditsOf(kept), owner[e] = s PROVE e \in EditsOf(gone)
      OBVIOUS
    <3>2. {e} \X {1, 2} \subseteq gone
      BY <1>3, <1>5, <2>1, <3>1 DEF OwnedBy
    <3>3. <<e, 1>> \in gone /\ <<e, 1>>[1] = e
      BY <3>2
    <3>4. QED
      BY <3>3 DEF EditsOf
  <2>7. EditsOf(steps.rows)' = EditsOf(after)
    BY <1>8 DEF EditsOf
  <2>8. \A e, f \in EditsOf(after) : next[e] = next[f] => e = f
    <3>1. \A e, f \in EditsOf(kept) : owner[e] = owner[f] => e = f
      BY <1>5, <2>1 DEF OwnedBy
    <3>2. PICK before, seen, now :
            before = EditsOf(kept) /\ seen = EditsOf(gone) /\ now = EditsOf(after)
      OBVIOUS
    <3>3. QED
      BY <2>3, <2>4, <2>6, <3>1, <3>2
  <2>9. \A e \in EditsOf(after) :
          work'[next[e]].at = "fill" => {e} \X {1, 2} \subseteq work'[next[e]].gone
    <3>1. SUFFICES ASSUME NEW e \in EditsOf(after), work'[next[e]].at = "fill"
                   PROVE  {e} \X {1, 2} \subseteq work'[next[e]].gone
      OBVIOUS
    <3>2. e # n
      BY <1>4, <2>4, <3>1, PlainWork
    <3>3. next[e] = owner[e] /\ owner[e] \in Staff \ {s} /\ e \in EditsOf(kept)
      BY <2>3, <2>4, <2>6, <3>2
    <3>4. work'[next[e]] = work[owner[e]]
      BY <1>4, <3>3
    <3>5. QED
      BY <1>5, <2>1, <3>1, <3>3, <3>4 DEF OwnedBy
  <2>10. QED
    BY <2>5, <2>7, <2>8, <2>9 DEF Owned, OwnedBy
<1>11. QED
  BY <1>2, <1>3, <1>8, <1>9, <1>10, PlainWork, EditSteps

\* An intake that is told something that is true of it.
IntakeTold(intake) ==
  IF intake.given = BuiltIn
  THEN intake.failed \/ intake.bare
  ELSE Whole(intake.given) /\ Cardinality(EditsOf(intake.given)) =< Cardinality(Staff)

LEMMA IntakeKeeps ==
  ASSUME CaseFileInv, NEW s \in Staff, NEW intake \in Intake, IntakeTold(intake),
         work[s].at \in {"find", "steps"}, work' = [work EXCEPT ![s] = Free],
         events' \in 0 .. MaxEvents, outages' \in 0 .. MaxOutages,
         UNCHANGED <<followed, file, steps, rules, grievances>>,
         intakes' = intakes \cup {intake}
  PROVE  CaseFileInv'
<1>1. CaseFileTypeOK /\ StepsWhole /\ Owned /\ TemplateWhole /\ GrievancesNumbered
  BY DEF CaseFileInv
<1>2. /\ work' \in [Staff -> Work] /\ work'[s] = Free
      /\ \A t \in Staff \ {s} : work'[t] = work[t]
  BY <1>1, PlainWork, WorkMoves
<1>3. TemplateWhole'
  <2>1. \A given \in intakes : IntakeTold(given)
    BY <1>1 DEF TemplateWhole, IntakeTold, Whole, EditsOf
  <2>2. \A given \in intakes' : IntakeTold(given)
    BY <2>1
  <2>3. QED
    BY <2>2 DEF TemplateWhole, IntakeTold, Whole, EditsOf
<1>4. CaseFileTypeOK'
  BY <1>1, <1>2 DEF CaseFileTypeOK, Intake
<1>5. WorkFits(s)'
  BY <1>1, PlainWork, FreeFits
<1>6. \A t \in Staff : WorkFits(t)'
  <2>1. Len(grievances) \in Nat /\ Len(grievances') = Len(grievances)
    BY <1>1 DEF CaseFileTypeOK
  <2>2. QED
    BY <1>1, <1>2, <1>5, <2>1, OthersFit DEF CaseFileInv
<1>7. StepsWhole' /\ GrievancesNumbered'
  BY <1>1 DEF StepsWhole, Whole, EditsOf, GrievancesNumbered
<1>8. Owned'
  <2>1. \A t \in Staff : work'[t] = work[t] \/ work'[t].at # "fill"
    BY <1>2, PlainWork
  <2>2. QED
    BY <1>1, <2>1, OwnedStays
<1>9. LookupIsMostSpecific'
  <2>1. work'[s].at # "ruled"
    BY <1>2, PlainWork
  <2>2. QED
    BY <1>2, <2>1 DEF CaseFileInv, LookupIsMostSpecific
<1>10. FileAccounts'
  <2>1. work[s].at # "trail" /\ work'[s].at # "trail"
    BY <1>2, PlainWork
  <2>2. QED
    BY <1>2, <2>1, TrailStays DEF CaseFileInv
<1>11. QED
  BY <1>3, <1>4, <1>6, <1>7, <1>8, <1>9, <1>10 DEF CaseFileInv

\* An intake that found the template finds the steps of it, though in a second query,
\* unless the last edit brought none.
LEMMA FindStepsKeeps ==
  ASSUME CaseFileInv, NEW s \in Staff, FindSteps(s)
  PROVE  CaseFileInv'
<1>1. CaseFileTypeOK /\ StepsWhole /\ WorkFits(s) /\ Owned
  BY DEF CaseFileInv
<1>2. UNCHANGED <<file, steps, rules, grievances>>
  BY DEF FindSteps, ApartFromTemplate
<1>3. /\ work[s].at = "steps" /\ work' = [work EXCEPT ![s] = Free]
      /\ events' \in 0 .. MaxEvents /\ outages' \in 0 .. MaxOutages /\ followed' = followed
  BY <1>1, DoesCalm DEF FindSteps
<1>4. PICK kept, bare : kept = steps.rows /\ bare = steps.bare
  OBVIOUS
<1>5. Whole(kept) /\ kept \subseteq StepRow /\ bare \in BOOLEAN /\ (~bare => kept # {})
  BY <1>1, <1>3, <1>4 DEF StepsWhole, WorkFits, CaseFileTypeOK
<1>6. PICK intake :
        /\ intakes' = intakes \cup {intake}
        /\ intake = [given |-> IF kept = {} THEN BuiltIn ELSE kept, failed |-> FALSE,
                     bare |-> bare]
  BY <1>4 DEF FindSteps
<1>7. Cardinality(EditsOf(kept)) =< Cardinality(Staff)
  <2>1. PICK owner \in [EditsOf(kept) -> Staff] : OwnedBy(owner)
    BY <1>1, <1>4 DEF Owned
  <2>2. owner \in Injection(EditsOf(kept), Staff)
    BY <1>4, <2>1 DEF OwnedBy, Injection, IsInjective
  <2>3. QED
    BY <2>2, CaseFileAssumption, FS_Injection
<1>8. intake \in Intake
  BY <1>5, <1>6 DEF Intake
<1>9. IntakeTold(intake)
  <2>1. CASE kept = {}
    BY <1>5, <1>6, <2>1 DEF IntakeTold
  <2>2. CASE kept # {}
    <3>1. BuiltIn # kept
      <4>1. <<0, 1>> \notin StepRow
        BY CaseFileAssumption DEF StepRow
      <4>2. QED
        BY <1>5, <4>1 DEF BuiltIn
    <3>2. intake.given = kept
      BY <1>6, <2>2
    <3>3. QED
      BY <1>5, <1>7, <3>1, <3>2 DEF IntakeTold
  <2>3. QED
    BY <2>1, <2>2
<1>10. QED
  BY <1>2, <1>3, <1>6, <1>8, <1>9, IntakeKeeps

\* An intake whose query failed is given the steps that are built in.
LEMMA TemplateQueryFailsKeeps ==
  ASSUME CaseFileInv, NEW s \in Staff, TemplateQueryFails(s)
  PROVE  CaseFileInv'
<1>1. CaseFileTypeOK
  BY DEF CaseFileInv
<1>2. PICK at \in {"find", "steps"} : Fails(s, at)
  BY DEF TemplateQueryFails
<1>3. /\ work[s].at \in {"find", "steps"} /\ work' = [work EXCEPT ![s] = Free]
      /\ events' \in 0 .. MaxEvents /\ outages' \in 0 .. MaxOutages /\ followed' = followed
  BY <1>1, <1>2, FailsCalm
<1>4. UNCHANGED <<file, steps, rules, grievances>>
  BY DEF TemplateQueryFails, ApartFromTemplate
<1>5. PICK intake : /\ intakes' = intakes \cup {intake}
                    /\ intake = [given |-> BuiltIn, failed |-> TRUE, bare |-> steps.bare]
  BY DEF TemplateQueryFails
<1>6. intake \in Intake /\ IntakeTold(intake)
  <2>1. steps.bare \in BOOLEAN
    BY <1>1 DEF CaseFileTypeOK
  <2>2. QED
    BY <1>5, <2>1 DEF Intake, IntakeTold
<1>7. QED
  BY <1>3, <1>4, <1>5, <1>6, IntakeKeeps

LEMMA CaseFileStep ==
  CaseFileInv /\ [CaseFileNext]_caseFileVars => CaseFileInv'
<1>1. SUFFICES ASSUME CaseFileInv, [CaseFileNext]_caseFileVars PROVE CaseFileInv'
  OBVIOUS
<1>2. CASE \E s \in Staff : OfFile(s) \/ OfTemplate(s) \/ OfRule(s) \/ OfGrievances(s)
  <2>1. PICK s \in Staff : OfFile(s) \/ OfTemplate(s) \/ OfRule(s) \/ OfGrievances(s)
    BY <1>2
  <2>2. CASE OfFile(s)
    BY <1>1, <2>2, FileStepsKeep, StoreKeeps, FileRowKeeps DEF OfFile
  <2>3. CASE OfTemplate(s)
    BY <1>1, <2>3, TemplateBegins, CreateKeeps, DeleteKeeps, FillKeeps, FindStepsKeeps,
       TemplateQueryFailsKeeps DEF OfTemplate
  <2>4. CASE OfRule(s)
    BY <1>1, <2>4, LookupKeeps DEF OfRule
  <2>5. CASE OfGrievances(s)
    BY <1>1, <2>5, GrievanceBegins, InsertKeeps, GrievanceWrites DEF OfGrievances
  <2>6. QED
    BY <2>1, <2>2, <2>3, <2>4, <2>5
<1>3. CASE \E rule \in {"DB_SPECIFIC", "DB_GENERAL"} : ToggleRule(rule)
  BY <1>1, <1>3, ToggleKeeps
<1>4. CASE UNCHANGED caseFileVars
  <2>1. UNCHANGED <<followed, work, events, outages, file, steps, intakes, rules, grievances>>
    BY <1>4 DEF caseFileVars, calmVars
  <2>2. CaseFileTypeOK' /\ (\A t \in Staff : WorkFits(t)')
    BY <1>1, <2>1 DEF CaseFileInv, CaseFileTypeOK, WorkFits, Whole, EditsOf
  <2>3. StepsWhole' /\ TemplateWhole' /\ GrievancesNumbered' /\ FileAccounts'
        /\ LookupIsMostSpecific'
    BY <1>1, <2>1 DEF CaseFileInv, StepsWhole, Whole, EditsOf, TemplateWhole, GrievancesNumbered,
                      FileAccounts, InTrail, LookupIsMostSpecific
  <2>4. Owned'
    BY <1>1, <2>1, OwnedStays DEF CaseFileInv
  <2>5. QED
    BY <2>2, <2>3, <2>4 DEF CaseFileInv
<1>5. QED
  BY <1>1, <1>2, <1>3, <1>4 DEF CaseFileNext

\* Whatever is edited while an intake looks it up: the steps it finds are those of whole
\* edits, no more of them than there are members of staff, and it is given the built-in
\* ones in their place only because a query failed or the last edit brought none; a
\* look-up of a rule that no edit fell into names the most specific rule there is.
THEOREM LookupsStayTrue == CaseFileSpec => [](CaseFileTypeOK /\ LookupsHold)
<1>1. CaseFileInit => CaseFileInv
  BY CaseFileStarts
<1>2. CaseFileInv => CaseFileTypeOK /\ LookupsHold
  BY DEF CaseFileInv, LookupsHold
<1>3. QED
  BY <1>1, <1>2, CaseFileStep, PTL DEF CaseFileSpec

\* However the calls on the files of cases and on grievances interleave and fail: a row
\* of a file lacks its entry in the trail only for a call that is between the two or
\* failed there, and grievances are numbered without gap or duplicate.
THEOREM RecordsStayTrue == CaseFileSpec => []RecordsHold
<1>1. CaseFileInit => CaseFileInv
  BY CaseFileStarts
<1>2. CaseFileInv => RecordsHold
  BY DEF CaseFileInv, RecordsHold
<1>3. QED
  BY <1>1, <1>2, CaseFileStep, PTL DEF CaseFileSpec

------------------------------------------------------------------------------
(***************************************************************************)
(* Reports.                                                                *)
(***************************************************************************)

\* Which steps a run comes to depends on what was ordered.
RunsFit ==
  \A r \in Runs :
    /\ run[r] \in {"upload", "announce"} => ordered = "DSAR_EXPORT"
    /\ run[r] = "write" => ordered # "DSAR_EXPORT"
    /\ run[r] = "receipt" <=> ordered = "RECEIPT" /\ Working(r)
    /\ run[r] = "announce" => export
    /\ run[r] = "complete" /\ ordered = "DSAR_EXPORT" => export

ExportKept ==
  /\ reportRow.path => export
  /\ ordered = "DSAR_EXPORT" /\ letters > 0 => export

\* A run that has yet to write the row for the last time.
Unwritten == {"mark", "gather", "upload", "announce", "write", "complete", "fail"}
Awaited ==
  ordered # "RECEIPT" /\ reportRow.status \in {"RPT_PENDING", "RPT_PROCESSING"} =>
    \/ reportJob \in {"due", "waiting"}
    \/ \E r \in Runs : run[r] \in Unwritten
    \/ troubles > 0

\* The steps before the letter a run may send, and the runs past it.
Ahead ==
  IF ordered = "DSAR_EXPORT" THEN {"unmade", "mark", "gather", "upload", "announce"}
  ELSE {"unmade", "mark", "gather", "write", "complete", "deliver", "receipt"}
Past == {r \in Runs : run[r] \notin Ahead}
LettersCounted == letters =< Cardinality(Past)

ReportsInv ==
  /\ ReportsTypeOK
  /\ RunsFit
  /\ ExportKept
  /\ Awaited
  /\ LettersCounted

LEMMA RowIs ==
  ASSUME ReportsTypeOK
  PROVE  reportRow.status \in ReportStatus /\ reportRow.path \in BOOLEAN
BY DEF ReportsTypeOK

LEMMA ReportsStart ==
  ASSUME ReportsInit PROVE ReportsInv
<1>1. ReportsTypeOK
  <2>1. 0 \in 0 .. MaxTroubles
    BY ReportsAssumption
  <2>2. QED
    BY <2>1 DEF ReportsInit, ReportsTypeOK, Orders, ReportStatus, RunSteps
<1>2. RunsFit /\ ExportKept /\ Awaited
  BY DEF ReportsInit, RunsFit, ExportKept, Awaited, Working, Made
<1>3. Past = {}
  BY DEF ReportsInit, Past, Ahead
<1>4. LettersCounted
  BY <1>3, FS_EmptySet DEF ReportsInit, LettersCounted
<1>5. QED
  BY <1>1, <1>2, <1>4 DEF ReportsInv

LEMMA PastFinite == IsFiniteSet(Past)
<1>1. Past \subseteq Runs
  BY DEF Past
<1>2. QED
  BY <1>1, ReportsAssumption, FS_Subset

\* A run sends its letter on the step that takes it past the letter, if at all.
LEMMA LettersKeep ==
  ASSUME ReportsTypeOK, LettersCounted, NEW r \in Runs, NEW to \in RunSteps,
         run' = [run EXCEPT ![r] = to], ordered' = ordered,
         run[r] \in Ahead \/ to \notin Ahead,
         letters' = letters \/ (letters' = letters + 1 /\ run[r] \in Ahead /\ to \notin Ahead)
  PROVE  LettersCounted'
<1>1. letters \in Nat
  BY DEF ReportsTypeOK
<1>2. run'[r] = to /\ (\A q \in Runs \ {r} : run'[q] = run[q]) /\ (Ahead' = Ahead)
  BY DEF ReportsTypeOK, Ahead
<1>3. PICK before, after : before = Past /\ after = Past'
  OBVIOUS
<1>4. IsFiniteSet(before) /\ Cardinality(before) \in Nat /\ letters =< Cardinality(before)
  BY <1>3, PastFinite, FS_CardinalityType DEF LettersCounted
<1>5. CASE run[r] \in Ahead /\ to \notin Ahead
  <2>1. after = before \cup {r} /\ r \notin before
    BY <1>2, <1>3, <1>5 DEF Past
  <2>2. Cardinality(after) = Cardinality(before) + 1
    BY <1>4, <2>1, FS_AddElement
  <2>3. QED
    BY <1>1, <1>3, <1>4, <2>2 DEF LettersCounted
<1>6. CASE ~(run[r] \in Ahead /\ to \notin Ahead)
  <2>1. after = before /\ letters' = letters
    BY <1>2, <1>3, <1>6 DEF Past
  <2>2. QED
    BY <1>3, <1>4, <2>1 DEF LettersCounted
<1>7. QED
  BY <1>5, <1>6

LEMMA RunMoves ==
  ASSUME ReportsTypeOK, NEW r \in Runs, NEW from, NEW to \in RunSteps, Advances(r, from, to)
  PROVE  /\ run' \in [Runs -> RunSteps] /\ run[r] = from /\ run'[r] = to
         /\ run' = [run EXCEPT ![r] = to]
         /\ \A q \in Runs \ {r} : run'[q] = run[q]
         /\ ordered' = ordered
BY DEF ReportsTypeOK, Advances

\* A step of a run that stays before its last write, and leaves the row alone.
LEMMA QuietRuns ==
  ASSUME ReportsInv, NEW r \in Runs, NEW from \in Unwritten, NEW to \in Unwritten,
         Advances(r, from, to), UNCHANGED <<reportRow, reportJob, troubles>>,
         export' \in BOOLEAN, tempFile' \in BOOLEAN, export => export',
         RunsFit', from \in Ahead \/ to \notin Ahead,
         \/ letters' = letters
         \/ letters' = letters + 1 /\ from \in Ahead /\ to \notin Ahead
              /\ (ordered = "DSAR_EXPORT" => export')
  PROVE  ReportsInv'
<1>1. ReportsTypeOK /\ ExportKept /\ Awaited /\ LettersCounted
  BY DEF ReportsInv
<1>2. to \in RunSteps
  BY DEF Unwritten, RunSteps
<1>3. /\ run' \in [Runs -> RunSteps] /\ run[r] = from /\ run'[r] = to
      /\ run' = [run EXCEPT ![r] = to]
      /\ \A q \in Runs \ {r} : run'[q] = run[q]
      /\ ordered' = ordered
  BY <1>1, <1>2, RunMoves
<1>4. ReportsTypeOK'
  BY <1>1, <1>3 DEF ReportsTypeOK
<1>5. ExportKept'
  BY <1>1, <1>3 DEF ExportKept, ReportsTypeOK
<1>6. Awaited'
  BY <1>1, <1>3 DEF Awaited
<1>7. QED
  BY <1>1, <1>2, <1>3, <1>4, <1>5, <1>6, LettersKeep DEF ReportsInv

LEMMA GatherKeeps ==
  ASSUME ReportsInv, NEW r \in Runs, Gather(r) \/ GenerationFails(r)
  PROVE  ReportsInv'
<1>1. ReportsTypeOK /\ RunsFit
  BY DEF ReportsInv
<1>2. PICK from \in {"gather", "upload", "write"}, to \in {"write", "upload", "fail"} :
        /\ Advances(r, from, to)
        /\ to = "write" => from = "gather" /\ ordered # "DSAR_EXPORT"
        /\ to = "upload" => from = "gather" /\ ordered = "DSAR_EXPORT"
  <2>1. CASE Gather(r)
    <3>1. PICK to : /\ Advances(r, "gather", to)
                    /\ to = IF ordered # "DSAR_EXPORT" THEN "write"
                            ELSE IF RowStands THEN "upload" ELSE "fail"
      BY <2>1 DEF Gather
    <3>2. \/ ordered # "DSAR_EXPORT" /\ to = "write"
          \/ ordered = "DSAR_EXPORT" /\ to \in {"upload", "fail"}
      BY <3>1
    <3>3. QED
      BY <3>1, <3>2
  <2>2. CASE GenerationFails(r)
    BY <2>2 DEF GenerationFails
  <2>3. QED
    BY <2>1, <2>2
<1>3. UNCHANGED <<reportRow, reportJob, export, tempFile, letters, troubles>>
  BY DEF Gather, GenerationFails, Outputs
<1>4. from \in Unwritten /\ to \in Unwritten /\ to \in RunSteps
  BY DEF Unwritten, RunSteps
<1>5. /\ run[r] = from /\ run'[r] = to /\ ordered' = ordered
      /\ \A q \in Runs \ {r} : run'[q] = run[q]
  BY <1>1, <1>2, <1>4, RunMoves
<1>6. RunsFit'
  BY <1>1, <1>2, <1>3, <1>5 DEF RunsFit, Working, Made
<1>7. from \in Ahead \/ to \notin Ahead
  BY <1>1, <1>2, <1>5 DEF RunsFit, Ahead
<1>8. export \in BOOLEAN /\ tempFile \in BOOLEAN
  BY <1>1 DEF ReportsTypeOK
<1>9. QED
  BY <1>2, <1>3, <1>4, <1>6, <1>7, <1>8, QuietRuns

LEMMA GenerateKeeps ==
  ASSUME ReportsInv, NEW r \in Runs, Upload(r) \/ Announce(r) \/ WriteFile(r)
  PROVE  ReportsInv'
<1>1. ReportsTypeOK /\ RunsFit
  BY DEF ReportsInv
<1>2. PICK from \in {"upload", "announce", "write"}, to \in {"announce", "complete"} :
        /\ Advances(r, from, to)
        /\ to = "announce" <=> from = "upload"
        /\ from = "upload" => export'
        /\ from # "upload" => export' = export
        /\ letters' = letters \/ (letters' = letters + 1 /\ from = "announce")
  BY DEF Upload, Announce, WriteFile, Letter
<1>3. export' \in BOOLEAN /\ tempFile' \in BOOLEAN /\ (export => export')
      /\ UNCHANGED <<reportRow, reportJob, troubles>>
  BY <1>1 DEF ReportsTypeOK, Upload, Announce, WriteFile
<1>4. from \in Unwritten /\ to \in Unwritten /\ to \in RunSteps
  BY DEF Unwritten, RunSteps
<1>5. /\ run[r] = from /\ run'[r] = to /\ ordered' = ordered
      /\ \A q \in Runs \ {r} : run'[q] = run[q]
  BY <1>1, <1>2, <1>4, RunMoves
<1>6. RunsFit'
  BY <1>1, <1>2, <1>3, <1>5 DEF RunsFit, Working, Made
<1>7. from \in Ahead /\ (from = "announce" => to \notin Ahead /\ export')
  BY <1>1, <1>2, <1>3, <1>5 DEF RunsFit, Ahead
<1>8. QED
  BY <1>2, <1>3, <1>4, <1>6, <1>7, QuietRuns

LEMMA MarkKeeps ==
  ASSUME ReportsInv, NEW r \in Runs, MarkProcessing(r)
  PROVE  ReportsInv'
<1>1. ReportsTypeOK /\ RunsFit /\ ExportKept /\ Awaited /\ LettersCounted
  BY DEF ReportsInv
<1>2. PICK to \in {"gather", "fail"} : Advances(r, "mark", to)
  BY DEF MarkProcessing, WritesRow
<1>3. UNCHANGED <<reportJob, export, tempFile, letters, troubles>>
  BY DEF MarkProcessing, WritesRow, Outputs
<1>4. to \in RunSteps /\ to \in Unwritten
  BY DEF RunSteps, Unwritten
<1>5. /\ run' \in [Runs -> RunSteps] /\ run[r] = "mark" /\ run'[r] = to
      /\ run' = [run EXCEPT ![r] = to]
      /\ \A q \in Runs \ {r} : run'[q] = run[q]
      /\ ordered' = ordered
  BY <1>1, <1>2, <1>4, RunMoves
<1>6. reportRow' \in [status : ReportStatus, path : BOOLEAN] /\ reportRow'.path = reportRow.path
  BY <1>1, RowIs DEF MarkProcessing, WritesRow, ReportStatus, ReportsTypeOK
<1>7. ReportsTypeOK'
  BY <1>1, <1>3, <1>5, <1>6 DEF ReportsTypeOK
<1>8. RunsFit' /\ ExportKept' /\ Awaited'
  BY <1>1, <1>3, <1>4, <1>5, <1>6 DEF RunsFit, Working, Made, ExportKept, Awaited
<1>9. "mark" \in Ahead
  BY DEF Ahead
<1>10. QED
  BY <1>1, <1>3, <1>4, <1>5, <1>7, <1>8, <1>9, LettersKeep DEF ReportsInv

LEMMA CompleteKeeps ==
  ASSUME ReportsInv, NEW r \in Runs, CompleteReport(r)
  PROVE  ReportsInv'
<1>1. ReportsTypeOK /\ RunsFit /\ ExportKept /\ Awaited /\ LettersCounted
  BY DEF ReportsInv
<1>2. /\ Advances(r, "complete", IF RowStands THEN "deliver" ELSE "fail")
      /\ reportRow' = IF RowStands THEN [status |-> "RPT_COMPLETED", path |-> StoredPath]
                      ELSE reportRow
      /\ UNCHANGED <<reportJob, export, tempFile, letters, troubles>>
  BY DEF CompleteReport, WritesRow, Outputs
<1>3. PICK to \in {"deliver", "fail"} :
        Advances(r, "complete", to) /\ to = IF RowStands THEN "deliver" ELSE "fail"
  BY <1>2
<1>4. to \in RunSteps
  BY DEF RunSteps
<1>5. /\ run' \in [Runs -> RunSteps] /\ run[r] = "complete" /\ run'[r] = to
      /\ run' = [run EXCEPT ![r] = to]
      /\ \A q \in Runs \ {r} : run'[q] = run[q]
      /\ ordered' = ordered
  BY <1>1, <1>3, <1>4, RunMoves
<1>6. /\ reportRow' \in [status : ReportStatus, path : BOOLEAN]
      /\ reportRow'.path => reportRow.path \/ ordered = "DSAR_EXPORT"
      /\ to = "deliver" => reportRow'.status = "RPT_COMPLETED"
      /\ to = "fail" => reportRow' = reportRow
  BY <1>1, <1>2, <1>3 DEF ReportStatus, ReportsTypeOK, StoredPath
<1>7. ReportsTypeOK'
  BY <1>1, <1>2, <1>5, <1>6 DEF ReportsTypeOK
<1>8. RunsFit' /\ ExportKept'
  BY <1>1, <1>2, <1>5, <1>6 DEF RunsFit, Working, Made, ExportKept
<1>9. Awaited'
  BY <1>1, <1>2, <1>5, <1>6 DEF Awaited, Unwritten
<1>10. "complete" \in Ahead \/ to \notin Ahead
  BY <1>3 DEF Ahead
<1>11. QED
  BY <1>1, <1>2, <1>4, <1>5, <1>7, <1>8, <1>9, <1>10, LettersKeep DEF ReportsInv

\* A run that has written its row has nothing to add to it.
LEMMA AfterwardsKeeps ==
  ASSUME ReportsInv, NEW r \in Runs, Deliver(r) \/ RemoveFile(r) \/ SendReceipt(r)
  PROVE  ReportsInv'
<1>1. ReportsTypeOK /\ RunsFit /\ ExportKept /\ Awaited /\ LettersCounted
  BY DEF ReportsInv
<1>2. PICK from \in {"deliver", "clean", "receipt"}, to \in {"clean", "over"} :
        /\ Advances(r, from, to)
        /\ from = "deliver" <=> to = "clean"
        /\ \/ letters' = letters
           \/ letters' = letters + 1 /\ from = "deliver" /\ ordered = "COMPLIANCE"
           \/ letters' = letters + 1 /\ from = "receipt"
        /\ reportJob' = reportJob \/ EndsJob(r)
  BY DEF Deliver, RemoveFile, SendReceipt, Letter, MailsReport
<1>3. UNCHANGED <<reportRow, export, troubles>> /\ tempFile' \in BOOLEAN
  BY <1>1 DEF Deliver, RemoveFile, SendReceipt, ReportsTypeOK
<1>4. to \in RunSteps
  BY DEF RunSteps
<1>5. /\ run' \in [Runs -> RunSteps] /\ run[r] = from /\ run'[r] = to
      /\ run' = [run EXCEPT ![r] = to]
      /\ \A q \in Runs \ {r} : run'[q] = run[q]
      /\ ordered' = ordered
  BY <1>1, <1>2, <1>4, RunMoves
<1>6. /\ reportJob' \in {"none", "due", "waiting", "ended"} \cup Runs
      /\ reportJob \in {"due", "waiting"} => reportJob' = reportJob
  BY <1>1, <1>2, ReportsAssumption DEF EndsJob, ReportsTypeOK
<1>7. ReportsTypeOK'
  BY <1>1, <1>2, <1>3, <1>5, <1>6 DEF ReportsTypeOK
<1>8. RunsFit'
  BY <1>1, <1>2, <1>3, <1>5 DEF RunsFit, Working, Made
<1>9. ExportKept'
  BY <1>1, <1>2, <1>3, <1>5 DEF ExportKept, RunsFit
<1>10. Awaited'
  BY <1>1, <1>2, <1>3, <1>5, <1>6 DEF Awaited, Unwritten
<1>11. /\ from \in Ahead \/ to \notin Ahead
       /\ letters' = letters + 1 => from \in Ahead /\ to \notin Ahead
  BY <1>1, <1>2, <1>5 DEF Ahead, RunsFit, ReportsTypeOK
<1>12. QED
  BY <1>1, <1>2, <1>4, <1>5, <1>7, <1>8, <1>9, <1>10, <1>11, LettersKeep DEF ReportsInv

LEMMA FailKeeps ==
  ASSUME ReportsInv, NEW r \in Runs, FailRun(r) \/ WriteFails(r)
  PROVE  ReportsInv'
<1>1. ReportsTypeOK /\ RunsFit /\ ExportKept /\ Awaited /\ LettersCounted
  BY DEF ReportsInv
<1>2. PICK from \in {"mark", "complete", "fail", "receipt"}, to \in {"fail", "over"} :
        /\ Advances(r, from, to)
        /\ to = "fail" => from \in {"mark", "complete"}
        /\ to = "over" => from \in {"fail", "receipt"}
        /\ reportJob' = reportJob \/ EndsJob(r)
  BY DEF FailRun, WriteFails
<1>3. UNCHANGED <<export, tempFile, letters>> /\ troubles' \in 0 .. MaxTroubles
      /\ troubles' >= troubles
  BY <1>1, ReportsAssumption DEF FailRun, WriteFails, ReportsTypeOK, Outputs
<1>4. to \in RunSteps
  BY DEF RunSteps
<1>5. /\ run' \in [Runs -> RunSteps] /\ run[r] = from /\ run'[r] = to
      /\ run' = [run EXCEPT ![r] = to]
      /\ \A q \in Runs \ {r} : run'[q] = run[q]
      /\ ordered' = ordered
  BY <1>1, <1>2, <1>4, RunMoves
<1>6. /\ reportJob' \in {"none", "due", "waiting", "ended"} \cup Runs
      /\ reportJob \in {"due", "waiting"} => reportJob' = reportJob
  BY <1>1, <1>2, ReportsAssumption DEF EndsJob, ReportsTypeOK
<1>7. /\ reportRow' \in [status : ReportStatus, path : BOOLEAN]
      /\ reportRow'.path = reportRow.path
      /\ \/ troubles' > 0
         \/ reportRow'.status \notin {"RPT_PENDING", "RPT_PROCESSING"}
  <2>1. CASE FailRun(r)
    <3>1. reportRow' = IF RowStands THEN [reportRow EXCEPT !.status = "RPT_FAILED"] ELSE reportRow
      BY <2>1 DEF FailRun, FailedRow
    <3>2. CASE RowStands
      BY <1>1, <3>1, <3>2 DEF ReportsTypeOK, ReportStatus
    <3>3. CASE ~RowStands
      BY <1>1, <3>1, <3>3 DEF ReportsTypeOK, RowStands
    <3>4. QED
      BY <3>2, <3>3
  <2>2. CASE WriteFails(r)
    BY <1>1, <2>2, ReportsAssumption DEF WriteFails, ReportsTypeOK
  <2>3. QED
    BY <2>1, <2>2
<1>8. ReportsTypeOK'
  BY <1>1, <1>3, <1>5, <1>6, <1>7 DEF ReportsTypeOK
<1>9. RunsFit'
  BY <1>1, <1>2, <1>3, <1>5 DEF RunsFit, Working, Made
<1>10. ExportKept' /\ Awaited'
  BY <1>1, <1>3, <1>5, <1>7 DEF ExportKept, Awaited
<1>11. from \in Ahead \/ to \notin Ahead
  BY <1>1, <1>2, <1>5 DEF Ahead, RunsFit
<1>12. QED
  BY <1>1, <1>3, <1>4, <1>5, <1>8, <1>9, <1>10, <1>11, LettersKeep DEF ReportsInv

LEMMA StartRunKeeps ==
  ASSUME ReportsInv, NEW r \in Runs, StartRun(r)
  PROVE  ReportsInv'
<1>1. ReportsTypeOK /\ RunsFit /\ ExportKept /\ Awaited /\ LettersCounted
  BY DEF ReportsInv
<1>2. PICK to \in {"receipt", "mark"} :
        /\ Advances(r, "unmade", to) /\ (to = "receipt" <=> ordered = "RECEIPT")
  BY DEF StartRun
<1>3. UNCHANGED <<reportRow, export, tempFile, letters, troubles>> /\ reportJob' = r
  BY DEF StartRun, Outputs
<1>4. to \in RunSteps
  BY DEF RunSteps
<1>5. /\ run' \in [Runs -> RunSteps] /\ run[r] = "unmade" /\ run'[r] = to
      /\ run' = [run EXCEPT ![r] = to]
      /\ \A q \in Runs \ {r} : run'[q] = run[q]
      /\ ordered' = ordered
  BY <1>1, <1>2, <1>4, RunMoves
<1>6. ReportsTypeOK'
  BY <1>1, <1>3, <1>5 DEF ReportsTypeOK
<1>7. RunsFit' /\ ExportKept'
  BY <1>1, <1>2, <1>3, <1>5 DEF RunsFit, Working, Made, ExportKept
<1>8. Awaited'
  BY <1>2, <1>5 DEF Awaited, Unwritten
<1>9. "unmade" \in Ahead
  BY DEF Ahead
<1>10. QED
  BY <1>1, <1>3, <1>4, <1>5, <1>6, <1>7, <1>8, <1>9, LettersKeep DEF ReportsInv

\* The steps that are no run's: no run moves, and no letter is sent.
LEMMA RowKeeps ==
  ASSUME ReportsInv, OrderReport \/ QueueReport \/ DeleteReport \/ JobStalls \/ UNCHANGED reportsVars
  PROVE  ReportsInv'
<1>1. ReportsTypeOK /\ RunsFit /\ ExportKept /\ Awaited /\ LettersCounted
  BY DEF ReportsInv
<1>2. UNCHANGED <<ordered, run, export, tempFile, letters>>
  BY DEF OrderReport, QueueReport, DeleteReport, JobStalls, reportsVars, Outputs
<1>3. /\ reportRow' \in [status : ReportStatus, path : BOOLEAN]
      /\ reportRow'.path => reportRow.path
      /\ reportJob' \in {"none", "due", "waiting", "ended"} \cup Runs
      /\ troubles' \in 0 .. MaxTroubles /\ troubles' >= troubles
      /\ \/ reportJob' \in {"due", "waiting"}
         \/ reportRow'.status \notin {"RPT_PENDING", "RPT_PROCESSING"}
         \/ reportRow' = reportRow /\ reportJob' = reportJob
         \/ troubles' > 0
  <2>1. CASE OrderReport
    BY <1>1, <2>1, ReportsAssumption DEF OrderReport, ReportsTypeOK, ReportStatus
  <2>2. CASE QueueReport
    BY <1>1, <2>2, ReportsAssumption DEF QueueReport, ReportsTypeOK
  <2>3. CASE DeleteReport
    BY <1>1, <2>3, ReportsAssumption DEF DeleteReport, ReportsTypeOK, ReportStatus
  <2>4. CASE JobStalls \/ UNCHANGED reportsVars
    BY <1>1, <2>4, ReportsAssumption DEF JobStalls, reportsVars, ReportsTypeOK
  <2>5. QED
    BY <2>1, <2>2, <2>3, <2>4
<1>4. ReportsTypeOK'
  BY <1>1, <1>2, <1>3 DEF ReportsTypeOK
<1>5. RunsFit' /\ ExportKept'
  BY <1>1, <1>2, <1>3 DEF RunsFit, Working, Made, ExportKept
<1>6. Awaited'
  BY <1>1, <1>2, <1>3 DEF Awaited, ReportsTypeOK
<1>7. LettersCounted'
  <2>1. Past' = Past
    BY <1>2 DEF Past, Ahead
  <2>2. QED
    BY <1>1, <1>2, <2>1 DEF LettersCounted
<1>8. QED
  BY <1>4, <1>5, <1>6, <1>7 DEF ReportsInv

LEMMA StopKeeps ==
  ASSUME ReportsInv, ReportServerStops
  PROVE  ReportsInv'
<1>1. ReportsTypeOK /\ RunsFit /\ ExportKept /\ Awaited /\ LettersCounted
  BY DEF ReportsInv
<1>2. /\ UNCHANGED <<ordered, reportRow, export, tempFile, letters>>
      /\ run' \in [Runs -> RunSteps]
      /\ \A r \in Runs : run'[r] = IF run[r] = "unmade" THEN "unmade" ELSE "over"
  BY DEF ReportServerStops, Outputs, RunSteps
<1>3. troubles' > 0 /\ troubles' \in 0 .. MaxTroubles
  BY <1>1, ReportsAssumption DEF ReportServerStops, ReportsTypeOK
<1>4. reportJob' \in {"none", "due", "waiting", "ended"} \cup Runs
  BY <1>1 DEF ReportServerStops, ReportsTypeOK
<1>5. ReportsTypeOK'
  BY <1>1, <1>2, <1>3, <1>4 DEF ReportsTypeOK
<1>6. RunsFit' /\ ExportKept' /\ Awaited'
  BY <1>1, <1>2, <1>3 DEF RunsFit, Working, Made, ExportKept, Awaited
<1>7. LettersCounted'
  <2>1. Past \subseteq Past'
    BY <1>2 DEF Past, Ahead
  <2>2. PICK before, after : before = Past /\ after = Past'
    OBVIOUS
  <2>3. IsFiniteSet(after)
    <3>1. after \subseteq Runs
      BY <2>2 DEF Past
    <3>2. QED
      BY <3>1, ReportsAssumption, FS_Subset
  <2>4. before \subseteq after
    BY <2>1, <2>2
  <2>5. IsFiniteSet(before) /\ Cardinality(before) =< Cardinality(after)
    BY <2>3, <2>4, FS_Subset
  <2>6. Cardinality(before) \in Nat /\ Cardinality(after) \in Nat
    BY <2>3, <2>5, FS_CardinalityType
  <2>7. letters \in Nat /\ letters' = letters /\ letters =< Cardinality(before)
    BY <1>1, <1>2, <2>2 DEF LettersCounted, ReportsTypeOK
  <2>8. QED
    BY <2>2, <2>5, <2>6, <2>7 DEF LettersCounted
<1>8. QED
  BY <1>5, <1>6, <1>7 DEF ReportsInv

LEMMA ReportsStep ==
  ASSUME ReportsInv, [ReportsNext]_reportsVars PROVE ReportsInv'
BY RowKeeps, StopKeeps, StartRunKeeps, MarkKeeps, GatherKeeps, GenerateKeeps, CompleteKeeps,
   AfterwardsKeeps, FailKeeps DEF ReportsNext

LEMMA ReportsMean ==
  ASSUME ReportsInv PROVE ReportsHold
<1>1. DownloadHasExport
  BY DEF ReportsInv, ExportKept, DownloadHasExport, Downloadable
<1>2. ReportSettles
  BY DEF ReportsInv, Awaited, Unwritten, ReportSettles, Working, Made
<1>3. LettersWithinRuns
  <2>1. PICK made, past : made = {r \in Runs : Made(r)} /\ past = Past
    OBVIOUS
  <2>2. past \subseteq made /\ made \subseteq Runs
    BY <2>1 DEF Past, Ahead, Made
  <2>3. IsFiniteSet(made)
    BY <2>2, ReportsAssumption, FS_Subset
  <2>4. IsFiniteSet(past) /\ Cardinality(past) =< Cardinality(made)
    BY <2>2, <2>3, FS_Subset
  <2>5. Cardinality(past) \in Nat /\ Cardinality(made) \in Nat
    BY <2>3, <2>4, FS_CardinalityType
  <2>6. letters \in Nat /\ letters =< Cardinality(past)
    BY <2>1 DEF ReportsInv, LettersCounted, ReportsTypeOK
  <2>7. QED
    BY <2>1, <2>4, <2>5, <2>6 DEF LettersWithinRuns
<1>4. QED
  BY <1>1, <1>2, <1>3 DEF ReportsHold

\* However runs of a job overlap, fail and are repeated, and whenever the row goes: a
\* download has its object, an unfinished row has somebody to finish it, and there
\* is one letter for a run at most.
THEOREM ReportsStayTrue == ReportsSpec => [](ReportsTypeOK /\ ReportsHold)
<1>1. ReportsInit => ReportsInv
  BY ReportsStart
<1>2. ReportsInv /\ [ReportsNext]_reportsVars => ReportsInv'
  BY ReportsStep
<1>3. ReportsInv => ReportsTypeOK /\ ReportsHold
  BY ReportsMean DEF ReportsInv
<1>4. QED
  BY <1>1, <1>2, <1>3, PTL DEF ReportsSpec

------------------------------------------------------------------------------
(***************************************************************************)
(* Dashboards, lists and usage: Dashboards.                                *)
(***************************************************************************)

ReportTypes ==
  /\ caseIs \in [Cases -> CaseStates]
  /\ grievanceIs \in [Grievances -> GrievanceStates]
  /\ report \in Report
  /\ answers \in [accepted : Nat, other : Nat]

ListTypes == listing \in Listing /\ rows \in 0 .. MaxRows

UsageTypes ==
  /\ consent \in [status : {"none", "GRANTED", "REVOKED"}, by : {"widget", "client"},
                  own : {"due", "written", "lost"}, backfilled : Nat]
  /\ sync \in [Syncs -> {"idle", "listed", "missing"}]
  /\ syncs \in 0 .. MaxSyncs

AllGrievances == Cardinality(Grievances) - GrievancesIn({"none"})
Since == changes - report.since
Known(q) == q \notin report.left

\* How far the count of a query has moved since it was answered.
Moved(q, now) == IF Known(q) THEN now - report.got[q] ELSE 0

\* Every change adds a request or opens or closes one.
MetricsFit ==
  report.kind = "metrics" =>
    /\ Moved("total", AllCases) >= 0
    /\ Moved("total", AllCases) + Moved("byStatus", Closed) =< Since
    /\ Moved("total", AllCases) - Moved("byStatus", Closed) =< Since
    /\ Known("ofPriority") => AllCases - report.got["ofPriority"] =< Since
    /\ Known("late") =>
         Known("ofPriority") /\ report.got["late"] - report.got["ofPriority"] =< Since

\* What was counted before the totals is no more than there is in all.
KpisFit ==
  report.kind = "kpis" =>
    /\ Known("breached") => report.got["breached"] =< AllCases
    /\ Known("total") => Known("breached") /\ report.got["breached"] =< report.got["total"]
    /\ Known("open") => report.got["open"] =< AllGrievances
    /\ Known("totalGrievances") =>
         Known("open") /\ report.got["open"] =< report.got["totalGrievances"]

CookiesFit ==
  report.kind = "cookies" =>
    /\ Known("logs") => answers.accepted + answers.other - report.got["logs"] =< Since
    /\ Known("accepted") => Known("logs") /\ report.got["accepted"] - report.got["logs"] =< Since

FiguresFit ==
  /\ ReportTypes
  /\ report.kind \in {"metrics", "kpis", "cookies"} => report.since =< changes
  /\ MetricsFit
  /\ KpisFit
  /\ CookiesFit

\* How many of the newest rows the pages that are read reach over.
Reached == (IF listing.listed THEN listing.page ELSE listing.page - 1) * listing.take

\* A row that was there at the start and is not seen yet is older than all that are.
PagesFit ==
  /\ ListTypes
  /\ listing.page > 0 =>
       /\ listing.first =< rows
       /\ rows =< MaxRows - MaxChanges + changes
       /\ listing.counted => listing.first =< listing.total
       /\ \A n \in 1 .. listing.first : n \notin listing.seen => n =< rows - Reached
       /\ listing.over =>
            listing.counted /\ listing.listed /\ listing.page * listing.take >= listing.total

Missing == {s \in Syncs : sync[s] = "missing"}

\* A backfill that is to make a row has found none, and others make theirs before it.
UsageFits == UsageTypes /\ consent.backfilled + Cardinality(Missing) =< Cardinality(Syncs)

DashboardsInv == changes \in 0 .. MaxChanges /\ FiguresFit /\ PagesFit /\ UsageFits

------------------------------------------------------------------------------
(* Counts.                                                                 *)

LEMMA CountOf ==
  ASSUME NEW states
  PROVE  CasesIn(states) \in Nat /\ GrievancesIn(states) \in Nat
<1>1. /\ {k \in Cases : caseIs[k] \in states} \in SUBSET Cases
      /\ {g \in Grievances : grievanceIs[g] \in states} \in SUBSET Grievances
  OBVIOUS
<1>2. /\ IsFiniteSet({k \in Cases : caseIs[k] \in states})
      /\ IsFiniteSet({g \in Grievances : grievanceIs[g] \in states})
  BY <1>1, DashboardsAssumption, FS_Subset
<1>3. QED
  BY <1>2, FS_CardinalityType DEF CasesIn, GrievancesIn

\* Of what is not left out, a part is counted.
LEMMA PartOfAll ==
  ASSUME NEW all, IsFiniteSet(all), NEW none, NEW some, none \subseteq all, some \subseteq all,
         none \cap some = {}
  PROVE  /\ Cardinality(all) \in Nat /\ Cardinality(none) \in Nat /\ Cardinality(some) \in Nat
         /\ Cardinality(some) =< Cardinality(all) - Cardinality(none)
<1>1. IsFiniteSet(none) /\ IsFiniteSet(some)
  BY FS_Subset
<1>2. Cardinality(all) \in Nat /\ Cardinality(none) \in Nat /\ Cardinality(some) \in Nat
  BY <1>1, FS_CardinalityType
<1>3. Cardinality(none \cup some) = Cardinality(none) + Cardinality(some)
  <2>1. /\ Cardinality(none \cup some) =
             Cardinality(none) + Cardinality(some) - Cardinality(none \cap some)
    BY <1>1, FS_Union
  <2>2. Cardinality(none \cap some) = 0
    BY FS_EmptySet
  <2>3. QED
    BY <1>2, <2>1, <2>2
<1>4. Cardinality(none \cup some) =< Cardinality(all)
  <2>1. none \cup some \in SUBSET all
    OBVIOUS
  <2>2. QED
    BY <2>1, FS_Subset
<1>5. QED
  BY <1>2, <1>3, <1>4

LEMMA CaseCounts ==
  /\ AllCases \in Nat /\ Overdue \in Nat /\ Closed \in Nat /\ AllGrievances \in Nat
  /\ Overdue =< AllCases /\ Closed =< AllCases /\ Pending \in Nat
  /\ GrievancesIn({"open"}) =< AllGrievances
<1>1. PICK none, late, closed :
        /\ none = {k \in Cases : caseIs[k] \in {"none"}}
        /\ late = {k \in Cases : caseIs[k] \in {"overdue"}}
        /\ closed = {k \in Cases : caseIs[k] \in {"COMPLETED", "REJECTED"}}
  OBVIOUS
<1>2. /\ none \subseteq Cases /\ late \subseteq Cases /\ closed \subseteq Cases
      /\ none \cap late = {} /\ none \cap closed = {}
  BY <1>1
<1>3. Cardinality(late) \in Nat /\ Cardinality(late) =< Cardinality(Cases) - Cardinality(none)
      /\ Cardinality(Cases) \in Nat /\ Cardinality(none) \in Nat
  BY <1>2, DashboardsAssumption, PartOfAll
<1>4. Cardinality(closed) \in Nat /\ Cardinality(closed) =< Cardinality(Cases) - Cardinality(none)
  BY <1>2, DashboardsAssumption, PartOfAll
<1>5. /\ AllCases = Cardinality(Cases) - Cardinality(none)
      /\ Overdue = Cardinality(late) /\ Closed = Cardinality(closed)
  BY <1>1 DEF AllCases, Overdue, Closed, CasesIn
<1>6. PICK unfiled, open :
        /\ unfiled = {g \in Grievances : grievanceIs[g] \in {"none"}}
        /\ open = {g \in Grievances : grievanceIs[g] \in {"open"}}
  OBVIOUS
<1>7. /\ unfiled \subseteq Grievances /\ open \subseteq Grievances /\ unfiled \cap open = {}
  BY <1>6
<1>8. /\ Cardinality(open) \in Nat
      /\ Cardinality(open) =< Cardinality(Grievances) - Cardinality(unfiled)
      /\ Cardinality(Grievances) \in Nat /\ Cardinality(unfiled) \in Nat
  BY <1>7, DashboardsAssumption, PartOfAll
<1>9. /\ AllGrievances = Cardinality(Grievances) - Cardinality(unfiled)
      /\ GrievancesIn({"open"}) = Cardinality(open)
  BY <1>6 DEF AllGrievances, GrievancesIn
<1>10. QED
  BY <1>3, <1>4, <1>5, <1>8, <1>9 DEF Pending

\* A count moves with the one thing that changes.
LEMMA CountMoves ==
  ASSUME NEW S, IsFiniteSet(S), NEW k \in S, NEW was, NEW is, was \subseteq S, is \subseteq S,
         \A j \in S \ {k} : j \in is <=> j \in was
  PROVE  /\ Cardinality(was) \in Nat /\ Cardinality(is) \in Nat
         /\ (k \in was <=> k \in is) => Cardinality(is) = Cardinality(was)
         /\ k \notin was /\ k \in is => Cardinality(is) = Cardinality(was) + 1
         /\ k \in was /\ k \notin is => Cardinality(is) = Cardinality(was) - 1
<1>1. IsFiniteSet(was) /\ IsFiniteSet(is)
  BY FS_Subset
<1>2. Cardinality(was) \in Nat /\ Cardinality(is) \in Nat
  BY <1>1, FS_CardinalityType
<1>3. (k \in was <=> k \in is) => is = was
  OBVIOUS
<1>4. k \notin was /\ k \in is => Cardinality(is) = Cardinality(was) + 1
  <2>1. k \in is => is = was \cup {k}
    OBVIOUS
  <2>2. QED
    BY <1>1, <2>1, FS_AddElement
<1>5. k \in was /\ k \notin is => Cardinality(is) = Cardinality(was) - 1
  <2>1. k \notin is => is = was \ {k}
    OBVIOUS
  <2>2. QED
    BY <1>1, <2>1, FS_RemoveElement
<1>6. QED
  BY <1>2, <1>3, <1>4, <1>5

LEMMA CaseMoves ==
  ASSUME ReportTypes, NEW k \in Cases, NEW to \in CaseStates,
         caseIs' = [caseIs EXCEPT ![k] = to], NEW states
  PROVE  /\ CasesIn(states) \in Nat /\ CasesIn(states)' \in Nat
         /\ (caseIs[k] \in states <=> to \in states) => CasesIn(states)' = CasesIn(states)
         /\ caseIs[k] \notin states /\ to \in states => CasesIn(states)' = CasesIn(states) + 1
         /\ caseIs[k] \in states /\ to \notin states => CasesIn(states)' = CasesIn(states) - 1
<1>1. PICK was, is : /\ was = {j \in Cases : caseIs[j] \in states}
                     /\ is = {j \in Cases : caseIs'[j] \in states}
  OBVIOUS
<1>2. caseIs'[k] = to /\ \A j \in Cases \ {k} : caseIs'[j] = caseIs[j]
  BY DEF ReportTypes
<1>3. /\ was \subseteq Cases /\ is \subseteq Cases /\ \A j \in Cases \ {k} : j \in is <=> j \in was
      /\ k \in was <=> caseIs[k] \in states
      /\ k \in is <=> to \in states
  BY <1>1, <1>2
<1>4. /\ Cardinality(was) \in Nat /\ Cardinality(is) \in Nat
      /\ (k \in was <=> k \in is) => Cardinality(is) = Cardinality(was)
      /\ k \notin was /\ k \in is => Cardinality(is) = Cardinality(was) + 1
      /\ k \in was /\ k \notin is => Cardinality(is) = Cardinality(was) - 1
  BY <1>3, DashboardsAssumption, CountMoves
<1>5. CasesIn(states) = Cardinality(was) /\ CasesIn(states)' = Cardinality(is)
  BY <1>1 DEF CasesIn
<1>6. QED
  BY <1>3, <1>4, <1>5

LEMMA GrievanceMoves ==
  ASSUME ReportTypes, NEW k \in Grievances, NEW to \in GrievanceStates,
         grievanceIs' = [grievanceIs EXCEPT ![k] = to], NEW states
  PROVE  /\ GrievancesIn(states) \in Nat /\ GrievancesIn(states)' \in Nat
         /\ (grievanceIs[k] \in states <=> to \in states) =>
              GrievancesIn(states)' = GrievancesIn(states)
         /\ grievanceIs[k] \notin states /\ to \in states =>
              GrievancesIn(states)' = GrievancesIn(states) + 1
         /\ grievanceIs[k] \in states /\ to \notin states =>
              GrievancesIn(states)' = GrievancesIn(states) - 1
<1>1. PICK was, is : /\ was = {j \in Grievances : grievanceIs[j] \in states}
                     /\ is = {j \in Grievances : grievanceIs'[j] \in states}
  OBVIOUS
<1>2. grievanceIs'[k] = to /\ \A j \in Grievances \ {k} : grievanceIs'[j] = grievanceIs[j]
  BY DEF ReportTypes
<1>3. /\ was \subseteq Grievances /\ is \subseteq Grievances
      /\ \A j \in Grievances \ {k} : j \in is <=> j \in was
      /\ k \in was <=> grievanceIs[k] \in states
      /\ k \in is <=> to \in states
  BY <1>1, <1>2
<1>4. /\ Cardinality(was) \in Nat /\ Cardinality(is) \in Nat
      /\ (k \in was <=> k \in is) => Cardinality(is) = Cardinality(was)
      /\ k \notin was /\ k \in is => Cardinality(is) = Cardinality(was) + 1
      /\ k \in was /\ k \notin is => Cardinality(is) = Cardinality(was) - 1
  BY <1>3, DashboardsAssumption, CountMoves
<1>5. GrievancesIn(states) = Cardinality(was) /\ GrievancesIn(states)' = Cardinality(is)
  BY <1>1 DEF GrievancesIn
<1>6. QED
  BY <1>3, <1>4, <1>5

------------------------------------------------------------------------------
(* Figures.                                                                *)

LEMMA ReportIs ==
  ASSUME ReportTypes, report.kind \in {"metrics", "kpis", "cookies"}
  PROVE  /\ report \in [kind : {"metrics", "kpis", "cookies"}, left : SUBSET Queries,
                        got : [Queries -> Nat], since : Nat]
         /\ report.left \subseteq Queries /\ report.since \in Nat
         /\ \A q \in Queries : report.got[q] \in Nat
<1>1. report \in Report
  BY DEF ReportTypes
<1>2. report \in [kind : {"metrics", "kpis", "cookies"}, left : SUBSET Queries,
                  got : [Queries -> Nat], since : Nat]
  BY <1>1 DEF Report, NoReport
<1>3. QED
  BY <1>2

\* A reader that has just come knows nothing.
LEMMA GathersKeeps ==
  ASSUME DashboardsInv, StartMetrics \/ StartKpis \/ StartCookieMetrics
  PROVE  FiguresFit'
<1>1. ReportTypes /\ changes \in Nat
  BY DashboardsAssumption DEF DashboardsInv, FiguresFit
<1>2. PICK kind \in {"metrics", "kpis", "cookies"}, queries \in SUBSET Queries :
        /\ Gathers(kind, queries)
        /\ kind = "metrics" => {"total", "byStatus", "ofPriority", "late"} \subseteq queries
        /\ kind = "kpis" => {"breached", "total", "open", "totalGrievances"} \subseteq queries
        /\ kind = "cookies" => {"logs", "accepted"} \subseteq queries
  <2>1. CASE StartMetrics
    BY <2>1 DEF StartMetrics, Queries
  <2>2. CASE StartKpis
    BY <2>2 DEF StartKpis, Queries
  <2>3. CASE StartCookieMetrics
    BY <2>3 DEF StartCookieMetrics, Queries
  <2>4. QED
    BY <2>1, <2>2, <2>3
<1>3. PICK new : new = [kind |-> kind, left |-> queries, got |-> [q \in Queries |-> 0],
                        since |-> changes]
  OBVIOUS
<1>4. report' = new /\ changes' = changes
  BY <1>2, <1>3 DEF Gathers
<1>5. /\ new \in [kind : {"metrics", "kpis", "cookies"}, left : SUBSET Queries,
                  got : [Queries -> Nat], since : Nat]
      /\ new.kind = kind /\ new.left = queries /\ new.since = changes
  BY <1>1, <1>3
<1>6. ReportTypes'
  <2>1. report' \in Report
    BY <1>4, <1>5 DEF Report
  <2>2. caseIs' \in [Cases -> CaseStates]
    <3>1. caseIs' = caseIs \/ caseIs' \in [Cases -> {"none", "open", "overdue"}]
      BY DEF StartMetrics, StartKpis, StartCookieMetrics
    <3>2. QED
      BY <1>1, <3>1 DEF ReportTypes, CaseStates
  <2>3. grievanceIs' \in [Grievances -> GrievanceStates]
    BY <1>1 DEF StartMetrics, StartKpis, StartCookieMetrics, ReportTypes
  <2>4. answers' \in [accepted : Nat, other : Nat]
    <3>1. answers' = answers \/ answers' \in [accepted : 0 .. MaxRows, other : 0 .. MaxRows]
      BY DEF StartMetrics, StartKpis, StartCookieMetrics
    <3>2. 0 .. MaxRows \subseteq Nat
      BY DashboardsAssumption
    <3>3. QED
      BY <1>1, <3>1, <3>2 DEF ReportTypes
  <2>5. QED
    BY <2>1, <2>2, <2>3, <2>4 DEF ReportTypes
<1>7. \A q \in queries : q \in report'.left
  BY <1>4, <1>5
<1>8. MetricsFit'
  <2>1. SUFFICES ASSUME kind = "metrics" PROVE MetricsFit'
    BY <1>4, <1>5 DEF MetricsFit
  <2>2. {"total", "byStatus", "ofPriority", "late"} \subseteq report'.left
    BY <1>2, <1>7, <2>1
  <2>3. Moved("total", AllCases)' = 0 /\ Moved("byStatus", Closed)' = 0
    BY <2>2 DEF Moved, Known
  <2>4. Since' = 0
    BY <1>1, <1>4, <1>5 DEF Since
  <2>5. QED
    BY <2>2, <2>3, <2>4 DEF MetricsFit, Known
<1>9. KpisFit'
  <2>1. SUFFICES ASSUME kind = "kpis" PROVE KpisFit'
    BY <1>4, <1>5 DEF KpisFit
  <2>2. {"breached", "total", "open", "totalGrievances"} \subseteq report'.left
    BY <1>2, <1>7, <2>1
  <2>3. QED
    BY <2>2 DEF KpisFit, Known
<1>10. CookiesFit'
  <2>1. SUFFICES ASSUME kind = "cookies" PROVE CookiesFit'
    BY <1>4, <1>5 DEF CookiesFit
  <2>2. {"logs", "accepted"} \subseteq report'.left
    BY <1>2, <1>7, <2>1
  <2>3. QED
    BY <2>2 DEF CookiesFit, Known
<1>11. report'.since =< changes'
  BY <1>1, <1>4, <1>5
<1>12. QED
  BY <1>6, <1>8, <1>9, <1>10, <1>11 DEF FiguresFit

LEMMA ValueIs ==
  ASSUME ReportTypes, NEW q \in Queries
  PROVE  /\ Value(q) \in Nat
         /\ q \in {"total", "ofPriority"} => Value(q) = AllCases
         /\ q = "byStatus" => Value(q) = Closed
         /\ q \in {"breached", "late"} => Value(q) = Overdue
         /\ q = "open" => Value(q) = GrievancesIn({"open"})
         /\ q = "totalGrievances" => Value(q) = AllGrievances
         /\ q = "logs" => Value(q) = answers.accepted + answers.other
         /\ q = "accepted" => Value(q) = answers.accepted
<1>1. answers.accepted \in Nat /\ answers.other \in Nat
  BY DEF ReportTypes
<1>2. GrievancesIn({"open"}) \in Nat
  BY CountOf
<1>3. CASE q \in {"total", "byStatus", "breached", "ofPriority", "late"}
  BY <1>3, CaseCounts DEF Value
<1>4. CASE q \in {"pending", "open", "totalGrievances"}
  BY <1>2, <1>4, CaseCounts DEF Value, AllGrievances
<1>5. CASE q \in {"logs", "accepted"}
  BY <1>1, <1>5 DEF Value
<1>6. QED
  BY <1>3, <1>4, <1>5 DEF Queries

LEMMA AnswerIs ==
  ASSUME NEW old \in [kind : {"metrics", "kpis", "cookies"}, left : SUBSET Queries,
                      got : [Queries -> Nat], since : Nat],
         NEW q \in Queries, NEW value \in Nat, NEW new,
         new = [old EXCEPT !.left = @ \ {q}, !.got[q] = value]
  PROVE  /\ new \in [kind : {"metrics", "kpis", "cookies"}, left : SUBSET Queries,
                     got : [Queries -> Nat], since : Nat]
         /\ new.kind = old.kind /\ new.since = old.since /\ new.left = old.left \ {q}
         /\ new.got[q] = value
         /\ \A r \in Queries \ {q} : new.got[r] = old.got[r]
<1>1. old.got \in [Queries -> Nat]
  OBVIOUS
<1>2. PICK got : got = [old.got EXCEPT ![q] = value]
  OBVIOUS
<1>3. /\ got \in [Queries -> Nat] /\ got[q] = value
      /\ \A r \in Queries \ {q} : got[r] = old.got[r]
  BY <1>1, <1>2
<1>4. PICK left : left = old.left \ {q}
  OBVIOUS
<1>5. new = [old EXCEPT !.left = left, !.got = got]
  BY <1>2, <1>4
<1>6. left \in SUBSET Queries
  BY <1>4
<1>7. /\ new \in [kind : {"metrics", "kpis", "cookies"}, left : SUBSET Queries,
                  got : [Queries -> Nat], since : Nat]
      /\ new.kind = old.kind /\ new.since = old.since /\ new.left = left /\ new.got = got
  BY <1>3, <1>5, <1>6
<1>8. QED
  BY <1>3, <1>4, <1>7

\* An answer is what the tables hold now; the queries it waited for were answered before.
LEMMA AnswerKeeps ==
  ASSUME DashboardsInv, AnswerQuery
  PROVE  FiguresFit'
<1>1. ReportTypes /\ MetricsFit /\ KpisFit /\ CookiesFit /\ changes \in Nat
      /\ (report.kind \in {"metrics", "kpis", "cookies"} => report.since =< changes)
  BY DashboardsAssumption DEF DashboardsInv, FiguresFit
<1>2. PICK q \in report.left :
        /\ WaitsFor(report.kind, q) \cap report.left = {}
        /\ report' = [report EXCEPT !.left = @ \ {q}, !.got[q] = Value(q)]
  BY DEF AnswerQuery
<1>3. report.kind \in {"metrics", "kpis", "cookies"}
      /\ UNCHANGED <<caseIs, grievanceIs, answers, changes>>
  BY DEF AnswerQuery
<1>4. /\ report \in [kind : {"metrics", "kpis", "cookies"}, left : SUBSET Queries,
                     got : [Queries -> Nat], since : Nat]
      /\ report.left \subseteq Queries /\ report.since \in Nat
      /\ \A r \in Queries : report.got[r] \in Nat
  BY <1>1, <1>3, ReportIs
<1>5. q \in Queries /\ Value(q) \in Nat
  BY <1>1, <1>2, <1>4, ValueIs
<1>6. PICK value, new : value = Value(q) /\ new = report'
  OBVIOUS
<1>7. /\ new \in [kind : {"metrics", "kpis", "cookies"}, left : SUBSET Queries,
                  got : [Queries -> Nat], since : Nat]
      /\ new.kind = report.kind /\ new.since = report.since /\ new.left = report.left \ {q}
      /\ new.got[q] = value
      /\ \A r \in Queries \ {q} : new.got[r] = report.got[r]
  BY <1>2, <1>4, <1>5, <1>6, AnswerIs
<1>8. ReportTypes'
  <2>1. report' \in Report
    BY <1>6, <1>7 DEF Report
  <2>2. QED
    BY <1>1, <1>3, <2>1 DEF ReportTypes
<1>9. /\ AllCases' = AllCases /\ Closed' = Closed /\ AllGrievances' = AllGrievances
      /\ Since' = Since
  BY <1>3, <1>6, <1>7
     DEF AllCases, Closed, CasesIn, AllGrievances, GrievancesIn, Since
<1>10. Since \in Nat /\ Since >= 0
  BY <1>1, <1>3, <1>4 DEF Since
<1>11. /\ AllCases \in Nat /\ Overdue \in Nat /\ Closed \in Nat /\ AllGrievances \in Nat
       /\ Overdue =< AllCases /\ GrievancesIn({"open"}) =< AllGrievances
       /\ answers.accepted \in Nat /\ answers.other \in Nat
  BY <1>1, CaseCounts DEF ReportTypes
<1>12. \A r \in Queries : Known(r)' <=> Known(r) \/ r = q
  BY <1>6, <1>7 DEF Known
<1>13. /\ q = "late" => Known("ofPriority")
       /\ report.kind = "kpis" /\ q = "total" => Known("breached")
       /\ q = "totalGrievances" => Known("open")
       /\ q = "accepted" => Known("logs")
  <2>1. q = "late" => "ofPriority" \in WaitsFor(report.kind, q)
    BY DEF WaitsFor
  <2>2. report.kind = "kpis" /\ q = "total" => "breached" \in WaitsFor(report.kind, q)
    BY DEF WaitsFor
  <2>3. q = "totalGrievances" => "open" \in WaitsFor(report.kind, q)
    BY DEF WaitsFor
  <2>4. q = "accepted" => "logs" \in WaitsFor(report.kind, q)
    BY DEF WaitsFor
  <2>5. QED
    BY <1>2, <2>1, <2>2, <2>3, <2>4 DEF Known
<1>14. MetricsFit'
  <2>1. SUFFICES ASSUME report.kind = "metrics" PROVE MetricsFit'
    BY <1>6, <1>7 DEF MetricsFit
  <2>2. {"total", "byStatus", "ofPriority", "late"} \subseteq Queries
    BY DEF Queries
  <2>3. /\ Moved("total", AllCases)' = IF q = "total" THEN 0 ELSE Moved("total", AllCases)
        /\ Moved("byStatus", Closed)' = IF q = "byStatus" THEN 0 ELSE Moved("byStatus", Closed)
    <3>1. value = IF q = "total" THEN AllCases ELSE IF q = "byStatus" THEN Closed ELSE value
      BY <1>1, <1>5, <1>6, ValueIs
    <3>2. QED
      BY <1>6, <1>7, <1>9, <1>11, <1>12, <2>2, <3>1 DEF Moved
  <2>4. Moved("total", AllCases) \in Int /\ Moved("byStatus", Closed) \in Int
    BY <1>4, <1>11, <2>2 DEF Moved
  <2>5. /\ Moved("total", AllCases) >= 0
        /\ Moved("total", AllCases) + Moved("byStatus", Closed) =< Since
        /\ Moved("total", AllCases) - Moved("byStatus", Closed) =< Since
    BY <1>1, <2>1 DEF MetricsFit
  <2>6. /\ Moved("total", AllCases)' >= 0
        /\ Moved("total", AllCases)' + Moved("byStatus", Closed)' =< Since'
        /\ Moved("total", AllCases)' - Moved("byStatus", Closed)' =< Since'
    <3>1. PICK a, b, c, d, n : /\ a = Moved("total", AllCases) /\ b = Moved("byStatus", Closed)
                               /\ c = Moved("total", AllCases)' /\ d = Moved("byStatus", Closed)'
                               /\ n = Since
      OBVIOUS
    <3>2. a \in Int /\ b \in Int /\ n \in Nat /\ a >= 0 /\ a + b =< n /\ a - b =< n
      BY <1>10, <2>4, <2>5, <3>1
    <3>3. (c = a \/ c = 0) /\ (d = b \/ d = 0) /\ (c = a \/ d = b)
      BY <2>3, <3>1
    <3>4. c >= 0 /\ c + d =< n /\ c - d =< n
      BY <3>2, <3>3
    <3>5. QED
      BY <1>9, <3>1, <3>4
  <2>7. Known("ofPriority")' => AllCases' - report'.got["ofPriority"] =< Since'
    <3>1. CASE q = "ofPriority"
      <4>1. new.got["ofPriority"] = AllCases
        BY <1>1, <1>5, <1>6, <1>7, <3>1, ValueIs
      <4>2. QED
        BY <1>6, <1>9, <1>10, <1>11, <4>1
    <3>2. CASE q # "ofPriority"
      BY <1>1, <1>6, <1>7, <1>9, <1>12, <2>1, <2>2, <3>2 DEF MetricsFit
    <3>3. QED
      BY <3>1, <3>2
  <2>8. Known("late")' =>
          Known("ofPriority")' /\ report'.got["late"] - report'.got["ofPriority"] =< Since'
    <3>1. CASE q = "late"
      <4>1. new.got["late"] = Overdue /\ new.got["ofPriority"] = report.got["ofPriority"]
        BY <1>1, <1>5, <1>6, <1>7, <2>2, <3>1, ValueIs
      <4>2. Known("ofPriority") /\ AllCases - report.got["ofPriority"] =< Since
        BY <1>1, <1>13, <2>1, <3>1 DEF MetricsFit
      <4>3. report.got["ofPriority"] \in Nat
        BY <1>4, <2>2
      <4>4. QED
        BY <1>6, <1>9, <1>10, <1>11, <1>12, <2>2, <4>1, <4>2, <4>3
    <3>2. CASE q # "late"
      <4>1. Known("late") =>
              Known("ofPriority") /\ report.got["late"] - report.got["ofPriority"] =< Since
        BY <1>1, <2>1 DEF MetricsFit
      <4>2. Known("ofPriority") => q # "ofPriority"
        BY <1>2 DEF Known
      <4>3. QED
        BY <1>6, <1>7, <1>9, <1>12, <2>2, <3>2, <4>1, <4>2
    <3>3. QED
      BY <3>1, <3>2
  <2>9. QED
    BY <2>6, <2>7, <2>8 DEF MetricsFit
<1>15. KpisFit'
  <2>1. SUFFICES ASSUME report.kind = "kpis" PROVE KpisFit'
    BY <1>6, <1>7 DEF KpisFit
  <2>2. {"breached", "total", "open", "totalGrievances"} \subseteq Queries
    BY DEF Queries
  <2>3. /\ Known("breached") => report.got["breached"] =< AllCases /\ q # "breached"
        /\ Known("total") => Known("breached") /\ report.got["breached"] =< report.got["total"]
        /\ Known("open") => report.got["open"] =< AllGrievances /\ q # "open"
        /\ Known("totalGrievances") =>
             Known("open") /\ report.got["open"] =< report.got["totalGrievances"]
        /\ Known("total") => q # "total"
        /\ Known("totalGrievances") => q # "totalGrievances"
    BY <1>1, <1>2, <2>1 DEF KpisFit, Known
  <2>4. /\ q = "breached" => value = Overdue
        /\ q = "total" => value = AllCases
        /\ q = "open" => value = GrievancesIn({"open"})
        /\ q = "totalGrievances" => value = AllGrievances
    BY <1>1, <1>5, <1>6, ValueIs
  <2>5. Known("breached")' => report'.got["breached"] =< AllCases'
    BY <1>6, <1>7, <1>9, <1>11, <1>12, <2>2, <2>3, <2>4
  <2>6. Known("total")' => Known("breached")' /\ report'.got["breached"] =< report'.got["total"]
    BY <1>6, <1>7, <1>12, <1>13, <2>1, <2>2, <2>3, <2>4
  <2>7. Known("open")' => report'.got["open"] =< AllGrievances'
    BY <1>6, <1>7, <1>9, <1>11, <1>12, <2>2, <2>3, <2>4
  <2>8. Known("totalGrievances")' =>
          Known("open")' /\ report'.got["open"] =< report'.got["totalGrievances"]
    BY <1>6, <1>7, <1>12, <1>13, <2>2, <2>3, <2>4
  <2>9. QED
    BY <2>5, <2>6, <2>7, <2>8 DEF KpisFit
<1>16. CookiesFit'
  <2>1. SUFFICES ASSUME report.kind = "cookies" PROVE CookiesFit'
    BY <1>6, <1>7 DEF CookiesFit
  <2>2. {"logs", "accepted"} \subseteq Queries
    BY DEF Queries
  <2>3. /\ Known("logs") =>
             answers.accepted + answers.other - report.got["logs"] =< Since /\ q # "logs"
        /\ Known("accepted") =>
             /\ Known("logs") /\ q # "accepted"
             /\ report.got["accepted"] - report.got["logs"] =< Since
    BY <1>1, <1>2, <2>1 DEF CookiesFit, Known
  <2>4. /\ q = "logs" => value = answers.accepted + answers.other
        /\ q = "accepted" => value = answers.accepted
    BY <1>1, <1>5, <1>6, ValueIs
  <2>5. report.got["logs"] \in Nat
    BY <1>4, <2>2
  <2>6. Known("logs")' => answers'.accepted + answers'.other - report'.got["logs"] =< Since'
    BY <1>3, <1>6, <1>7, <1>9, <1>10, <1>11, <1>12, <2>2, <2>3, <2>4
  <2>7. Known("accepted")' =>
          Known("logs")' /\ report'.got["accepted"] - report'.got["logs"] =< Since'
    BY <1>6, <1>7, <1>9, <1>10, <1>11, <1>12, <1>13, <2>2, <2>3, <2>4, <2>5
  <2>8. QED
    BY <2>6, <2>7 DEF CookiesFit
<1>17. report'.kind \in {"metrics", "kpis", "cookies"} => report'.since =< changes'
  BY <1>1, <1>3, <1>6, <1>7
<1>18. QED
  BY <1>8, <1>14, <1>15, <1>16, <1>17 DEF FiguresFit

LEMMA CaseChangeCounts ==
  ASSUME ReportTypes, NEW k \in Cases, CaseChanges(k)
  PROVE  /\ caseIs' \in [Cases -> CaseStates]
         /\ \/ AllCases' = AllCases + 1 /\ Closed' = Closed
            \/ AllCases' = AllCases /\ Closed' \in {Closed - 1, Closed, Closed + 1}
<1>1. PICK to \in CaseStates :
        /\ <<caseIs[k], to>> \in
             {<<"none", "open">>, <<"open", "overdue">>, <<"overdue", "open">>}
             \cup {"open", "overdue"} \X {"COMPLETED", "REJECTED"}
             \cup {"COMPLETED", "REJECTED"} \X {"open"}
        /\ caseIs' = [caseIs EXCEPT ![k] = to]
  BY DEF CaseChanges
<1>2. PICK from : from = caseIs[k]
  OBVIOUS
<1>3. \/ from = "none" /\ to = "open"
      \/ from \in {"open", "overdue"} /\ to \in {"open", "overdue"}
      \/ from \in {"open", "overdue"} /\ to \in {"COMPLETED", "REJECTED"}
      \/ from \in {"COMPLETED", "REJECTED"} /\ to = "open"
  BY <1>1, <1>2
<1>4. /\ CasesIn({"none"}) \in Nat /\ CasesIn({"none"})' \in Nat
      /\ (from \in {"none"} <=> to \in {"none"}) => CasesIn({"none"})' = CasesIn({"none"})
      /\ from \in {"none"} /\ to \notin {"none"} => CasesIn({"none"})' = CasesIn({"none"}) - 1
  BY <1>1, <1>2, CaseMoves
<1>5. /\ Closed \in Nat /\ Closed' \in Nat
      /\ (from \in {"COMPLETED", "REJECTED"} <=> to \in {"COMPLETED", "REJECTED"}) => Closed' = Closed
      /\ from \notin {"COMPLETED", "REJECTED"} /\ to \in {"COMPLETED", "REJECTED"} =>
           Closed' = Closed + 1
      /\ from \in {"COMPLETED", "REJECTED"} /\ to \notin {"COMPLETED", "REJECTED"} =>
           Closed' = Closed - 1
  BY <1>1, <1>2, CaseMoves DEF Closed
<1>6. Cardinality(Cases) \in Nat
  BY DashboardsAssumption, FS_CardinalityType
<1>7. caseIs' \in [Cases -> CaseStates]
  BY <1>1 DEF ReportTypes
<1>8. AllCases = Cardinality(Cases) - CasesIn({"none"})
      /\ AllCases' = Cardinality(Cases) - CasesIn({"none"})'
  BY DEF AllCases
<1>9. CASE from = "none" /\ to = "open"
  BY <1>4, <1>5, <1>6, <1>7, <1>8, <1>9
<1>10. CASE from # "none" /\ to # "none"
  <2>1. AllCases' = AllCases
    BY <1>4, <1>8, <1>10
  <2>2. Closed' \in {Closed - 1, Closed, Closed + 1}
    BY <1>5
  <2>3. QED
    BY <1>7, <2>1, <2>2
<1>11. QED
  BY <1>3, <1>9, <1>10

LEMMA GrievanceChangeCounts ==
  ASSUME ReportTypes, NEW g \in Grievances, GrievanceChanges(g)
  PROVE  grievanceIs' \in [Grievances -> GrievanceStates] /\ AllGrievances =< AllGrievances'
<1>1. PICK to \in {"open", "RESOLVED"} : grievanceIs' = [grievanceIs EXCEPT ![g] = to]
  BY DEF GrievanceChanges
<1>2. to \in GrievanceStates /\ to \notin {"none"}
  BY <1>1 DEF GrievanceStates
<1>3. /\ GrievancesIn({"none"}) \in Nat /\ GrievancesIn({"none"})' \in Nat
      /\ grievanceIs[g] \notin {"none"} => GrievancesIn({"none"})' = GrievancesIn({"none"})
      /\ grievanceIs[g] \in {"none"} => GrievancesIn({"none"})' = GrievancesIn({"none"}) - 1
  BY <1>1, <1>2, GrievanceMoves
<1>4. Cardinality(Grievances) \in Nat
  BY DashboardsAssumption, FS_CardinalityType
<1>5. /\ AllGrievances = Cardinality(Grievances) - GrievancesIn({"none"})
      /\ AllGrievances' = Cardinality(Grievances) - GrievancesIn({"none"})'
  BY DEF AllGrievances
<1>6. grievanceIs' \in [Grievances -> GrievanceStates]
  BY <1>1, <1>2 DEF ReportTypes
<1>7. QED
  BY <1>3, <1>4, <1>5, <1>6

LEMMA AnswerLoggedCounts ==
  ASSUME ReportTypes, AnswerLogged
  PROVE  /\ answers' \in [accepted : Nat, other : Nat]
         /\ answers'.accepted + answers'.other = answers.accepted + answers.other + 1
<1>1. PICK kind \in {"accepted", "other"} : answers' = [answers EXCEPT ![kind] = @ + 1]
  BY DEF AnswerLogged
<1>2. answers \in [accepted : Nat, other : Nat]
  BY DEF ReportTypes
<1>3. CASE kind = "accepted"
  <2>1. answers' = [answers EXCEPT !.accepted = @ + 1]
    BY <1>1, <1>3
  <2>2. QED
    BY <1>2, <2>1
<1>4. CASE kind = "other"
  <2>1. answers' = [answers EXCEPT !.other = @ + 1]
    BY <1>1, <1>4
  <2>2. QED
    BY <1>2, <2>1
<1>5. QED
  BY <1>1, <1>3, <1>4

\* A change moves one count by one, and is itself counted.
LEMMA TablesChangeKeeps ==
  ASSUME DashboardsInv, ReportedTablesChange
  PROVE  FiguresFit' /\ changes' \in 0 .. MaxChanges
<1>1. ReportTypes /\ MetricsFit /\ KpisFit /\ CookiesFit /\ changes \in 0 .. MaxChanges
      /\ (report.kind \in {"metrics", "kpis", "cookies"} => report.since =< changes)
  BY DEF DashboardsInv, FiguresFit
<1>2. changes' = changes + 1 /\ changes < MaxChanges
  BY DEF ReportedTablesChange
<1>3. changes \in Nat /\ changes' \in 0 .. MaxChanges
  BY <1>1, <1>2, DashboardsAssumption
<1>4. report.kind \in {"metrics", "kpis", "cookies"} /\ report' = report
  BY DEF ReportedTablesChange, CaseChanges, GrievanceChanges, AnswerLogged
<1>5. report.since \in Nat /\ \A q \in Queries : report.got[q] \in Nat
  BY <1>1, <1>4, ReportIs
<1>6. Since \in Nat /\ Since' = Since + 1
  BY <1>1, <1>2, <1>3, <1>4, <1>5 DEF Since
<1>7. /\ AllCases \in Nat /\ Closed \in Nat /\ AllGrievances \in Nat
      /\ answers.accepted \in Nat /\ answers.other \in Nat
  BY <1>1, CaseCounts DEF ReportTypes
<1>8. /\ ReportTypes'
      /\ report.kind \in {"metrics", "kpis"} =>
           \/ AllCases' = AllCases + 1 /\ Closed' = Closed
           \/ AllCases' = AllCases /\ Closed' \in {Closed - 1, Closed, Closed + 1}
      /\ AllGrievances =< AllGrievances'
      /\ answers'.accepted + answers'.other =< answers.accepted + answers.other + 1
  <2>1. CASE \E k \in Cases : CaseChanges(k)
    <3>1. PICK k \in Cases : CaseChanges(k)
      BY <2>1
    <3>2. UNCHANGED <<grievanceIs, answers, report>>
      BY <3>1 DEF CaseChanges
    <3>3. AllGrievances' = AllGrievances
      BY <3>2 DEF AllGrievances, GrievancesIn
    <3>4. caseIs' \in [Cases -> CaseStates]
          /\ \/ AllCases' = AllCases + 1 /\ Closed' = Closed
             \/ AllCases' = AllCases /\ Closed' \in {Closed - 1, Closed, Closed + 1}
      BY <1>1, <3>1, CaseChangeCounts
    <3>5. ReportTypes'
      BY <1>1, <3>2, <3>4 DEF ReportTypes
    <3>6. QED
      BY <1>7, <3>2, <3>3, <3>4, <3>5
  <2>2. CASE \E g \in Grievances : GrievanceChanges(g)
    <3>1. PICK g \in Grievances : GrievanceChanges(g)
      BY <2>2
    <3>2. UNCHANGED <<caseIs, answers, report>>
      BY <3>1 DEF GrievanceChanges
    <3>3. AllCases' = AllCases /\ Closed' = Closed
      BY <3>2 DEF AllCases, Closed, CasesIn
    <3>4. grievanceIs' \in [Grievances -> GrievanceStates] /\ AllGrievances =< AllGrievances'
      BY <1>1, <3>1, GrievanceChangeCounts
    <3>5. ReportTypes'
      BY <1>1, <3>2, <3>4 DEF ReportTypes
    <3>6. QED
      BY <1>7, <3>2, <3>3, <3>4, <3>5
  <2>3. CASE report.kind = "cookies" /\ AnswerLogged
    <3>1. UNCHANGED <<caseIs, grievanceIs, report>>
      BY <2>3 DEF AnswerLogged
    <3>2. AllGrievances' = AllGrievances
      BY <3>1 DEF AllGrievances, GrievancesIn
    <3>3. /\ answers' \in [accepted : Nat, other : Nat]
          /\ answers'.accepted + answers'.other = answers.accepted + answers.other + 1
      BY <1>1, <2>3, AnswerLoggedCounts
    <3>4. ReportTypes'
      BY <1>1, <3>1, <3>3 DEF ReportTypes
    <3>5. QED
      BY <1>7, <2>3, <3>2, <3>3, <3>4
  <2>4. QED
    BY <2>1, <2>2, <2>3 DEF ReportedTablesChange
<1>9. \A q : Known(q)' <=> Known(q)
  BY <1>4 DEF Known
<1>10. {"total", "byStatus", "ofPriority", "late", "breached", "open", "logs", "accepted"}
         \subseteq Queries
  BY DEF Queries
<1>11. MetricsFit'
  <2>1. SUFFICES ASSUME report.kind = "metrics" PROVE MetricsFit'
    BY <1>4 DEF MetricsFit
  <2>2. PICK a, b, c, d, n : /\ a = Moved("total", AllCases) /\ b = Moved("byStatus", Closed)
                             /\ c = Moved("total", AllCases)' /\ d = Moved("byStatus", Closed)'
                             /\ n = Since
    OBVIOUS
  <2>3. a \in Int /\ b \in Int /\ n \in Nat /\ a >= 0 /\ a + b =< n /\ a - b =< n
    BY <1>1, <1>5, <1>6, <1>7, <1>10, <2>1, <2>2 DEF MetricsFit, Moved
  <2>4. \/ (c = a \/ c = a + 1) /\ d = b
        \/ c = a /\ d \in {b - 1, b, b + 1}
    BY <1>4, <1>5, <1>7, <1>8, <1>9, <1>10, <2>1, <2>2 DEF Moved
  <2>5. c >= 0 /\ c + d =< n + 1 /\ c - d =< n + 1
    BY <2>3, <2>4
  <2>6. Known("ofPriority") => AllCases' - report.got["ofPriority"] =< Since + 1
    BY <1>1, <1>5, <1>6, <1>7, <1>8, <1>10, <2>1 DEF MetricsFit
  <2>7. Known("late") =>
          Known("ofPriority") /\ report.got["late"] - report.got["ofPriority"] =< Since + 1
    BY <1>1, <1>5, <1>6, <1>10, <2>1 DEF MetricsFit
  <2>8. QED
    BY <1>4, <1>6, <1>9, <2>2, <2>5, <2>6, <2>7 DEF MetricsFit
<1>12. KpisFit'
  <2>1. SUFFICES ASSUME report.kind = "kpis" PROVE KpisFit'
    BY <1>4 DEF KpisFit
  <2>2. AllCases' \in Nat /\ AllCases =< AllCases' /\ AllGrievances' >= AllGrievances
    BY <1>7, <1>8, <2>1
  <2>3. AllGrievances' \in Int
    <3>1. Cardinality(Grievances) \in Nat /\ GrievancesIn({"none"})' \in Nat
      <4>1. PICK unfiled : unfiled = {g \in Grievances : grievanceIs'[g] \in {"none"}}
        OBVIOUS
      <4>2. unfiled \in SUBSET Grievances
        BY <4>1
      <4>3. IsFiniteSet(unfiled)
        BY <4>2, DashboardsAssumption, FS_Subset
      <4>4. QED
        BY <4>1, <4>3, DashboardsAssumption, FS_CardinalityType DEF GrievancesIn
    <3>2. QED
      BY <3>1 DEF AllGrievances
  <2>4. Known("breached") => report.got["breached"] =< AllCases'
    BY <1>1, <1>5, <1>7, <1>10, <2>1, <2>2 DEF KpisFit
  <2>5. Known("open") => report.got["open"] =< AllGrievances'
    BY <1>1, <1>5, <1>7, <1>10, <2>1, <2>2, <2>3 DEF KpisFit
  <2>6. QED
    BY <1>1, <1>4, <1>9, <2>1, <2>4, <2>5 DEF KpisFit
<1>13. CookiesFit'
  <2>1. SUFFICES ASSUME report.kind = "cookies" PROVE CookiesFit'
    BY <1>4 DEF CookiesFit
  <2>2. answers'.accepted \in Nat /\ answers'.other \in Nat
    BY <1>8 DEF ReportTypes
  <2>3. Known("logs") => answers'.accepted + answers'.other - report.got["logs"] =< Since + 1
    BY <1>1, <1>5, <1>6, <1>7, <1>8, <1>10, <2>1, <2>2 DEF CookiesFit
  <2>4. Known("accepted") =>
          Known("logs") /\ report.got["accepted"] - report.got["logs"] =< Since + 1
    BY <1>1, <1>5, <1>6, <1>10, <2>1 DEF CookiesFit
  <2>5. QED
    BY <1>4, <1>6, <1>9, <2>3, <2>4 DEF CookiesFit
<1>14. report'.kind \in {"metrics", "kpis", "cookies"} => report'.since =< changes'
  BY <1>1, <1>2, <1>3, <1>4, <1>5
<1>15. QED
  BY <1>3, <1>8, <1>11, <1>12, <1>13, <1>14 DEF FiguresFit

\* Trends, analytics and weeks are counted from the calendar.
LEMMA CalendarKeeps ==
  ASSUME DashboardsInv,
         \/ \E month \in 0 .. 11, day \in 1 .. 31 : StartTrends(month, day)
         \/ \E month \in 0 .. 11 : StartAnalytics(month)
         \/ \E age \in 0 .. 28 : StartWeeks(age)
  PROVE  FiguresFit'
<1>1. ReportTypes
  BY DEF DashboardsInv, FiguresFit
<1>2. UNCHANGED <<caseIs, grievanceIs, answers>>
  BY DEF StartTrends, StartAnalytics, StartWeeks
<1>3. report' \in Report /\ report'.kind \in {"trends", "analytics", "weeks"}
  BY DEF StartTrends, StartAnalytics, StartWeeks, Report
<1>4. ReportTypes'
  BY <1>1, <1>2, <1>3 DEF ReportTypes
<1>5. QED
  BY <1>3, <1>4 DEF FiguresFit, MetricsFit, KpisFit, CookiesFit

\* Figures are not disturbed by those who read lists or the usage table.
LEMMA FiguresRest ==
  ASSUME DashboardsInv, UNCHANGED reportVars,
         changes' = changes \/ (changes' = changes + 1 /\ changes < MaxChanges)
  PROVE  FiguresFit' /\ changes' \in 0 .. MaxChanges
<1>1. ReportTypes /\ MetricsFit /\ KpisFit /\ CookiesFit /\ changes \in 0 .. MaxChanges
      /\ (report.kind \in {"metrics", "kpis", "cookies"} => report.since =< changes)
  BY DEF DashboardsInv, FiguresFit
<1>2. UNCHANGED <<caseIs, grievanceIs, answers, report>>
  BY DEF reportVars
<1>3. changes \in Nat /\ changes' \in 0 .. MaxChanges /\ changes =< changes' /\ changes' \in Nat
  BY <1>1, DashboardsAssumption
<1>4. ReportTypes'
  BY <1>1, <1>2 DEF ReportTypes
<1>5. /\ AllCases' = AllCases /\ Closed' = Closed /\ AllGrievances' = AllGrievances
      /\ \A q : Known(q)' <=> Known(q)
      /\ Moved("total", AllCases)' = Moved("total", AllCases)
      /\ Moved("byStatus", Closed)' = Moved("byStatus", Closed)
  BY <1>2 DEF AllCases, Closed, CasesIn, AllGrievances, GrievancesIn, Known, Moved
<1>6. CASE report.kind \notin {"metrics", "kpis", "cookies"}
  BY <1>2, <1>3, <1>4, <1>6 DEF FiguresFit, MetricsFit, KpisFit, CookiesFit
<1>7. CASE report.kind \in {"metrics", "kpis", "cookies"}
  <2>1. report.since \in Nat /\ \A q \in Queries : report.got[q] \in Nat
    BY <1>1, <1>7, ReportIs
  <2>2. Since \in Int /\ Since' \in Int /\ Since =< Since'
    BY <1>2, <1>3, <2>1 DEF Since
  <2>3. {"total", "byStatus", "ofPriority", "late", "logs", "accepted"} \subseteq Queries
    BY DEF Queries
  <2>4. /\ AllCases \in Nat /\ Closed \in Nat
        /\ answers.accepted \in Nat /\ answers.other \in Nat
    BY <1>1, CaseCounts DEF ReportTypes
  <2>5. Moved("total", AllCases) \in Int /\ Moved("byStatus", Closed) \in Int
    BY <2>1, <2>3, <2>4 DEF Moved
  <2>6. MetricsFit'
    BY <1>1, <1>2, <1>5, <2>1, <2>2, <2>3, <2>4, <2>5 DEF MetricsFit
  <2>7. KpisFit'
    BY <1>1, <1>2, <1>5 DEF KpisFit
  <2>8. CookiesFit'
    BY <1>1, <1>2, <1>5, <2>1, <2>2, <2>3, <2>4 DEF CookiesFit
  <2>9. report'.since =< changes'
    BY <1>1, <1>2, <1>3, <1>7, <2>1
  <2>10. QED
    BY <1>3, <1>4, <2>6, <2>7, <2>8, <2>9 DEF FiguresFit
<1>8. QED
  BY <1>6, <1>7

------------------------------------------------------------------------------
(* Lists.                                                                  *)

ListingRecords ==
  [page : Nat, take : Nat \ {0}, total : Nat, counted : BOOLEAN, listed : BOOLEAN,
   seen : SUBSET Nat, first : Nat, over : BOOLEAN]

LEMMA ListingIs ==
  ASSUME ListTypes, listing.page > 0
  PROVE  /\ listing \in ListingRecords
         /\ listing.page \in Nat \ {0} /\ listing.take \in Nat \ {0} /\ listing.total \in Nat
         /\ listing.first \in Nat /\ listing.seen \subseteq Nat
         /\ listing.counted \in BOOLEAN /\ listing.listed \in BOOLEAN /\ listing.over \in BOOLEAN
<1>1. listing \in Listing
  BY DEF ListTypes
<1>2. listing \in ListingRecords
  BY <1>1 DEF Listing, NoListing, ListingRecords
<1>3. QED
  BY <1>2 DEF ListingRecords

\* So many pages are so many rows.
LEMMA PageRows ==
  ASSUME NEW p \in Nat, NEW t \in Nat
  PROVE  /\ (p - 1) * t \in Int /\ p * t \in Int
         /\ (p - 1) * t + t = p * t /\ ((p + 1) - 1) * t = p * t
<1>1. (p - 1) * t = p * t - 1 * t
  OBVIOUS
<1>2. p * t \in Int
  OBVIOUS
<1>3. QED
  BY <1>1, <1>2

LEMMA ReachedIs ==
  ASSUME ListTypes, listing.page > 0
  PROVE  /\ Reached \in Int
         /\ ~listing.listed => Reached = Skipped(listing.page, listing.take)
         /\ listing.listed => Reached = listing.page * listing.take
         /\ listing.page * listing.take \in Int
         /\ Skipped(listing.page, listing.take) \in Int
         /\ Skipped(listing.page, listing.take) + listing.take = listing.page * listing.take
<1>1. listing.page \in Nat /\ listing.take \in Nat
  BY ListingIs
<1>2. /\ (listing.page - 1) * listing.take \in Int /\ listing.page * listing.take \in Int
      /\ (listing.page - 1) * listing.take + listing.take = listing.page * listing.take
  BY <1>1, PageRows
<1>3. QED
  BY <1>2 DEF Reached, Skipped

\* A client that asks for the first page.
LEMMA ListsKeeps ==
  ASSUME DashboardsInv, NEW take \in Nat \ {0}, Lists(take)
  PROVE  PagesFit'
<1>1. PICK n \in 1 .. MaxRows - MaxChanges :
        /\ rows' = n
        /\ listing' = [page |-> 1, take |-> take, total |-> 0, counted |-> FALSE,
                       listed |-> FALSE, seen |-> {}, first |-> n, over |-> FALSE]
  BY DEF Lists
<1>2. changes \in 0 .. MaxChanges /\ changes' = changes
  BY DEF DashboardsInv, Lists
<1>3. MaxRows \in Nat /\ MaxChanges \in Nat
  BY DashboardsAssumption
<1>4. n \in Nat /\ n \in 0 .. MaxRows /\ n =< MaxRows - MaxChanges + changes
  BY <1>1, <1>2, <1>3
<1>5. listing' \in ListingRecords
  BY <1>1, <1>4 DEF ListingRecords
<1>6. /\ listing'.page = 1 /\ listing'.take = take /\ listing'.first = n /\ ~listing'.counted
      /\ ~listing'.listed /\ ~listing'.over
  BY <1>1
<1>7. ListTypes'
  BY <1>1, <1>4, <1>5 DEF ListTypes, Listing, ListingRecords
<1>8. Reached' = 0
  <2>1. (1 - 1) * take = 0
    OBVIOUS
  <2>2. QED
    BY <1>6, <2>1 DEF Reached
<1>9. \A m \in 1 .. listing'.first : m =< rows' - Reached'
  BY <1>1, <1>4, <1>6, <1>8
<1>10. QED
  BY <1>1, <1>2, <1>4, <1>6, <1>7, <1>9 DEF PagesFit

LEMMA CountRowsKeeps ==
  ASSUME DashboardsInv, CountRows
  PROVE  PagesFit'
<1>1. /\ PagesFit /\ ListTypes /\ Reading /\ ~listing.over /\ listing.page > 0
      /\ UNCHANGED <<rows, changes>>
  BY DEF DashboardsInv, PagesFit, CountRows, Reading
<1>2. listing \in ListingRecords /\ rows \in Nat /\ listing.first \in Nat
  BY <1>1, ListingIs, DashboardsAssumption DEF ListTypes
<1>3. listing' = [listing EXCEPT !.counted = TRUE, !.total = rows]
  BY DEF CountRows
<1>4. /\ listing' \in ListingRecords
      /\ listing'.page = listing.page /\ listing'.take = listing.take
      /\ listing'.first = listing.first /\ listing'.seen = listing.seen
      /\ listing'.listed = listing.listed /\ listing'.over = listing.over
      /\ listing'.counted /\ listing'.total = rows
  BY <1>2, <1>3 DEF ListingRecords
<1>5. ListTypes'
  BY <1>1, <1>4 DEF ListTypes, Listing, ListingRecords
<1>6. Reached' = Reached
  BY <1>4 DEF Reached
<1>7. QED
  BY <1>1, <1>4, <1>5, <1>6 DEF PagesFit

\* The rows of the page are the newest of those that were not reached yet.
LEMMA ReadRowsKeeps ==
  ASSUME DashboardsInv, ReadRows
  PROVE  PagesFit'
<1>1. /\ PagesFit /\ ListTypes /\ ~listing.over /\ ~listing.listed /\ listing.page > 0
      /\ UNCHANGED <<rows, changes>>
  BY DEF DashboardsInv, PagesFit, ReadRows, Reading
<1>2. /\ listing \in ListingRecords /\ rows \in Nat /\ listing.first \in Nat
      /\ listing.take \in Nat /\ listing.seen \subseteq Nat
  BY <1>1, ListingIs, DashboardsAssumption DEF ListTypes
<1>3. PICK skip : skip = Skipped(listing.page, listing.take)
  OBVIOUS
<1>4. PICK span : span = {n \in 1 .. rows : rows - n >= skip /\ rows - n < skip + listing.take}
  OBVIOUS
<1>5. listing' = [listing EXCEPT !.listed = TRUE, !.seen = @ \cup span]
  BY <1>3, <1>4 DEF ReadRows
<1>6. span \subseteq Nat
  BY <1>2, <1>4
<1>7. /\ listing' \in ListingRecords
      /\ listing'.page = listing.page /\ listing'.take = listing.take
      /\ listing'.first = listing.first /\ listing'.seen = listing.seen \cup span
      /\ listing'.counted = listing.counted /\ listing'.total = listing.total
      /\ listing'.listed /\ listing'.over = listing.over
  BY <1>2, <1>5, <1>6 DEF ListingRecords
<1>8. ListTypes'
  BY <1>1, <1>7 DEF ListTypes, Listing, ListingRecords
<1>9. Reached = skip /\ skip \in Int /\ listing.page * listing.take = skip + listing.take
  BY <1>1, <1>3, ReachedIs
<1>10. Reached' = skip + listing.take
  BY <1>7, <1>9 DEF Reached
<1>11. ASSUME NEW n \in 1 .. listing.first, n \notin listing.seen \cup span
       PROVE  n =< rows - Reached'
  <2>1. n =< rows - skip
    BY <1>1, <1>9, <1>11 DEF PagesFit
  <2>2. n \in 1 .. rows
    BY <1>1, <1>2 DEF PagesFit
  <2>3. rows - n >= skip
    BY <1>2, <1>9, <2>1, <2>2
  <2>4. ~(rows - n < skip + listing.take)
    BY <1>4, <1>11, <2>2, <2>3
  <2>5. QED
    BY <1>2, <1>9, <1>10, <2>2, <2>4
<1>12. QED
  BY <1>1, <1>7, <1>8, <1>11 DEF PagesFit

LEMMA TurnPageKeeps ==
  ASSUME DashboardsInv, TurnPage
  PROVE  PagesFit'
<1>1. /\ PagesFit /\ ListTypes /\ ~listing.over /\ listing.listed /\ listing.counted
      /\ listing.page > 0 /\ UNCHANGED <<rows, changes>>
  BY DEF DashboardsInv, PagesFit, TurnPage, Reading
<1>2. listing \in ListingRecords /\ listing.page \in Nat /\ listing.take \in Nat
  BY <1>1, ListingIs
<1>3. Reached = listing.page * listing.take
  BY <1>1, ReachedIs
<1>4. CASE listing.page * listing.take >= listing.total
  <2>1. listing' = [listing EXCEPT !.over = TRUE]
    BY <1>4 DEF TurnPage
  <2>2. /\ listing' \in ListingRecords
        /\ listing'.page = listing.page /\ listing'.take = listing.take
        /\ listing'.first = listing.first /\ listing'.seen = listing.seen
        /\ listing'.counted = listing.counted /\ listing'.total = listing.total
        /\ listing'.listed = listing.listed
    BY <1>2, <2>1 DEF ListingRecords
  <2>3. ListTypes'
    BY <1>1, <2>2 DEF ListTypes, Listing, ListingRecords
  <2>4. Reached' = Reached
    BY <2>2 DEF Reached
  <2>5. QED
    BY <1>1, <1>4, <2>2, <2>3, <2>4 DEF PagesFit
<1>5. CASE ~(listing.page * listing.take >= listing.total)
  <2>1. PICK next : next = listing.page + 1
    OBVIOUS
  <2>2. next \in Nat
    BY <1>2, <2>1
  <2>3. listing' = [listing EXCEPT !.page = next, !.counted = FALSE, !.listed = FALSE]
    BY <1>5, <2>1 DEF TurnPage
  <2>4. /\ listing' \in ListingRecords
        /\ listing'.page = next /\ listing'.take = listing.take
        /\ listing'.first = listing.first /\ listing'.seen = listing.seen
        /\ ~listing'.counted /\ ~listing'.listed /\ listing'.over = listing.over
    BY <1>2, <2>3, <2>2 DEF ListingRecords
  <2>5. ListTypes'
    BY <1>1, <2>4 DEF ListTypes, Listing, ListingRecords
  <2>6. Reached' = Reached
    <3>1. ((listing.page + 1) - 1) * listing.take = listing.page * listing.take
      BY <1>2, PageRows
    <3>2. QED
      BY <1>3, <2>4, <2>1, <3>1 DEF Reached
  <2>7. QED
    BY <1>1, <1>2, <2>4, <2>5, <2>6, <2>1 DEF PagesFit
<1>6. QED
  BY <1>4, <1>5

LEMMA TableGrowsKeeps ==
  ASSUME DashboardsInv, ListedTableGrows
  PROVE  PagesFit'
<1>1. /\ PagesFit /\ ListTypes /\ listing.page > 0 /\ listing' = listing /\ rows' = rows + 1
      /\ changes < MaxChanges /\ changes' = changes + 1 /\ changes \in 0 .. MaxChanges
  BY DEF DashboardsInv, PagesFit, ListedTableGrows, Reading
<1>2. rows \in Nat /\ listing.first \in Nat /\ listing.page \in Nat /\ Reached \in Int
      /\ MaxRows \in Nat /\ MaxChanges \in Nat
  BY <1>1, ListingIs, ReachedIs, DashboardsAssumption DEF ListTypes
<1>3. listing.first =< rows' /\ rows' =< MaxRows - MaxChanges + changes' /\ rows' \in 0 .. MaxRows
  BY <1>1, <1>2 DEF PagesFit
<1>4. ListTypes'
  BY <1>1, <1>3 DEF ListTypes
<1>5. Reached' = Reached
  BY <1>1 DEF Reached
<1>6. ASSUME NEW n \in 1 .. listing.first, n \notin listing.seen
      PROVE  n =< rows' - Reached'
  <2>1. n =< rows - Reached
    BY <1>1, <1>6 DEF PagesFit
  <2>2. QED
    BY <1>1, <1>2, <1>5, <2>1
<1>7. QED
  BY <1>1, <1>3, <1>4, <1>6 DEF PagesFit

\* Lists are not disturbed by those who read figures or the usage table.
LEMMA PagesRest ==
  ASSUME DashboardsInv, UNCHANGED listVars, changes' \in {changes, changes + 1}
  PROVE  PagesFit'
<1>1. PagesFit /\ ListTypes /\ listing' = listing /\ rows' = rows /\ changes \in 0 .. MaxChanges
  BY DEF DashboardsInv, PagesFit, listVars
<1>2. MaxRows \in Nat /\ MaxChanges \in Nat /\ rows \in Nat
  BY <1>1, DashboardsAssumption DEF ListTypes
<1>3. ListTypes' /\ Reached' = Reached
  BY <1>1 DEF ListTypes, Reached
<1>4. rows =< MaxRows - MaxChanges + changes => rows =< MaxRows - MaxChanges + changes'
  <2>1. PICK c, d : c = changes /\ d = changes'
    OBVIOUS
  <2>2. c \in Nat /\ (d = c \/ d = c + 1)
    BY <1>1, <2>1
  <2>3. rows =< MaxRows - MaxChanges + c => rows =< MaxRows - MaxChanges + d
    BY <1>2, <2>2
  <2>4. QED
    BY <2>1, <2>3
<1>5. QED
  BY <1>1, <1>3, <1>4 DEF PagesFit

------------------------------------------------------------------------------
(* The usage table.                                                        *)

LEMMA MissingIs == Missing \subseteq Syncs /\ IsFiniteSet(Missing) /\ Cardinality(Missing) \in Nat
                   /\ Cardinality(Syncs) \in Nat /\ Cardinality(Missing) =< Cardinality(Syncs)
<1>1. Missing \in SUBSET Syncs
  BY DEF Missing
<1>2. IsFiniteSet(Missing) /\ Cardinality(Missing) =< Cardinality(Syncs)
  BY <1>1, DashboardsAssumption, FS_Subset
<1>3. QED
  BY <1>1, <1>2, DashboardsAssumption, FS_CardinalityType

\* A consent is recorded, or withdrawn, or its own row is written: no row is backfilled.
LEMMA ConsentKeeps ==
  ASSUME DashboardsInv, RecordConsent \/ WriteUsage \/ RevokeConsent
  PROVE  UsageFits'
<1>1. UsageTypes /\ UsageFits
  BY DEF DashboardsInv, UsageFits
<1>2. UNCHANGED <<sync, syncs>>
  BY DEF RecordConsent, WriteUsage, RevokeConsent
<1>3. PICK status \in {"none", "GRANTED", "REVOKED"}, own \in {"due", "written", "lost"} :
        consent' = [consent EXCEPT !.status = status, !.own = own]
  <2>1. consent.status \in {"none", "GRANTED", "REVOKED"}
        /\ consent.own \in {"due", "written", "lost"}
    BY <1>1 DEF UsageTypes
  <2>2. CASE RecordConsent
    <3>1. consent' = [consent EXCEPT !.status = "GRANTED", !.own = consent.own]
      BY <1>1, <2>2 DEF RecordConsent, UsageTypes
    <3>2. QED
      BY <2>1, <3>1
  <2>3. CASE WriteUsage
    <3>1. PICK new \in {"written", "lost"} : consent' = [consent EXCEPT !.own = new]
      BY <2>3 DEF WriteUsage
    <3>2. consent' = [consent EXCEPT !.status = consent.status, !.own = new]
      BY <1>1, <3>1 DEF UsageTypes
    <3>3. QED
      BY <2>1, <3>2
  <2>4. CASE RevokeConsent
    <3>1. consent' = [consent EXCEPT !.status = "REVOKED", !.own = consent.own]
      BY <1>1, <2>4 DEF RevokeConsent, UsageTypes
    <3>2. QED
      BY <2>1, <3>1
  <2>5. QED
    BY <2>2, <2>3, <2>4
<1>4. /\ consent' \in [status : {"none", "GRANTED", "REVOKED"}, by : {"widget", "client"},
                       own : {"due", "written", "lost"}, backfilled : Nat]
      /\ consent'.backfilled = consent.backfilled
  BY <1>1, <1>3 DEF UsageTypes
<1>5. UsageTypes' /\ Missing' = Missing
  BY <1>1, <1>2, <1>4 DEF UsageTypes, Missing
<1>6. QED
  BY <1>1, <1>4, <1>5 DEF UsageFits

\* A backfill of which nothing is missing takes no place.
LEMMA ListConsentsKeeps ==
  ASSUME DashboardsInv, NEW s \in Syncs, ListConsents(s)
  PROVE  UsageFits'
<1>1. UsageTypes /\ UsageFits
  BY DEF DashboardsInv, UsageFits
<1>2. /\ sync[s] = "idle" /\ sync' = [sync EXCEPT ![s] = "listed"] /\ consent' = consent
      /\ syncs < MaxSyncs /\ syncs' = syncs + 1
  BY DEF ListConsents
<1>3. syncs' \in 0 .. MaxSyncs
  BY <1>1, <1>2, DashboardsAssumption DEF UsageTypes
<1>4. sync' \in [Syncs -> {"idle", "listed", "missing"}]
  BY <1>1, <1>2 DEF UsageTypes
<1>5. Missing' = Missing
  BY <1>1, <1>2 DEF Missing, UsageTypes
<1>6. QED
  BY <1>1, <1>2, <1>3, <1>4, <1>5 DEF UsageFits, UsageTypes

\* A row is missing only as long as none is backfilled.
LEMMA FindUsageKeeps ==
  ASSUME DashboardsInv, NEW s \in Syncs, FindUsage(s)
  PROVE  UsageFits'
<1>1. UsageTypes /\ UsageFits
  BY DEF DashboardsInv, UsageFits
<1>2. /\ sync[s] = "listed"
      /\ sync' = [sync EXCEPT ![s] = IF AccountedFor THEN "idle" ELSE "missing"]
      /\ consent' = consent /\ syncs' = syncs
  BY DEF FindUsage
<1>3. sync' \in [Syncs -> {"idle", "listed", "missing"}]
  BY <1>1, <1>2 DEF UsageTypes
<1>4. UsageTypes'
  BY <1>1, <1>2, <1>3 DEF UsageTypes
<1>5. CASE AccountedFor
  <2>1. Missing' = Missing
    BY <1>1, <1>2, <1>5 DEF Missing, UsageTypes
  <2>2. QED
    BY <1>1, <1>2, <1>4, <2>1 DEF UsageFits
<1>6. CASE ~AccountedFor
  <2>1. consent.backfilled = 0
    BY <1>1, <1>6 DEF AccountedFor, UsageTypes
  <2>2. Missing' \in SUBSET Syncs
    BY DEF Missing
  <2>3. Cardinality(Missing') =< Cardinality(Syncs) /\ IsFiniteSet(Missing')
    BY <2>2, DashboardsAssumption, FS_Subset
  <2>4. Cardinality(Missing') \in Nat /\ Cardinality(Missing)' = Cardinality(Missing')
    BY <2>3, FS_CardinalityType
  <2>5. QED
    BY <1>2, <1>4, <2>1, <2>3, <2>4 DEF UsageFits
<1>7. QED
  BY <1>5, <1>6

\* The row that was missing is made.
LEMMA BackfillKeeps ==
  ASSUME DashboardsInv, NEW s \in Syncs, BackfillUsage(s)
  PROVE  UsageFits'
<1>1. UsageTypes /\ UsageFits
  BY DEF DashboardsInv, UsageFits
<1>2. /\ sync[s] = "missing" /\ sync' = [sync EXCEPT ![s] = "idle"]
      /\ consent' = [consent EXCEPT !.backfilled = @ + 1] /\ syncs' = syncs
  BY DEF BackfillUsage
<1>3. sync' \in [Syncs -> {"idle", "listed", "missing"}]
  BY <1>1, <1>2 DEF UsageTypes
<1>4. /\ consent' \in [status : {"none", "GRANTED", "REVOKED"}, by : {"widget", "client"},
                       own : {"due", "written", "lost"}, backfilled : Nat]
      /\ consent'.backfilled = consent.backfilled + 1 /\ consent.backfilled \in Nat
  BY <1>1, <1>2 DEF UsageTypes
<1>5. PICK was, is : was = Missing /\ is = Missing'
  OBVIOUS
<1>6. /\ was \subseteq Syncs /\ is \subseteq Syncs /\ s \in was /\ s \notin is
      /\ \A r \in Syncs \ {s} : r \in is <=> r \in was
  BY <1>1, <1>2, <1>5 DEF Missing, UsageTypes
<1>7. /\ Cardinality(was) \in Nat /\ Cardinality(is) \in Nat
      /\ Cardinality(is) = Cardinality(was) - 1
  BY <1>6, DashboardsAssumption, CountMoves
<1>8. Cardinality(Missing)' = Cardinality(is) /\ Cardinality(Missing) = Cardinality(was)
  BY <1>5
<1>9. UsageTypes'
  BY <1>1, <1>2, <1>3, <1>4 DEF UsageTypes
<1>10. consent'.backfilled + Cardinality(Missing)' = consent.backfilled + Cardinality(Missing)
  BY <1>4, <1>7, <1>8
<1>11. QED
  BY <1>1, <1>9, <1>10 DEF UsageFits

\* The usage table is not disturbed by those who read figures or lists.
LEMMA UsageRest ==
  ASSUME DashboardsInv, UNCHANGED usageVars
  PROVE  UsageFits'
BY DEF DashboardsInv, usageVars, UsageFits, UsageTypes, Missing

------------------------------------------------------------------------------
(* The invariant.                                                          *)

LEMMA DashboardsStart == DashboardsInit => DashboardsInv
<1> SUFFICES ASSUME DashboardsInit PROVE DashboardsInv
  OBVIOUS
<1>1. MaxChanges \in Nat /\ MaxRows \in Nat /\ MaxSyncs \in Nat
  BY DashboardsAssumption
<1>2. changes \in 0 .. MaxChanges /\ rows \in 0 .. MaxRows /\ syncs \in 0 .. MaxSyncs
  BY <1>1 DEF DashboardsInit
<1>3. FiguresFit
  <2>1. report \in Report /\ report.kind = "none"
    BY DEF DashboardsInit, NoReport, Report
  <2>2. ReportTypes
    BY <2>1 DEF DashboardsInit, ReportTypes, CaseStates, GrievanceStates
  <2>3. QED
    BY <2>1, <2>2 DEF FiguresFit, MetricsFit, KpisFit, CookiesFit
<1>4. PagesFit
  BY <1>2 DEF DashboardsInit, PagesFit, ListTypes, Listing, NoListing
<1>5. UsageFits
  <2>1. Missing = {}
    BY DEF DashboardsInit, Missing
  <2>2. Cardinality(Missing) = 0 /\ Cardinality(Syncs) \in Nat
    BY <2>1, FS_EmptySet, DashboardsAssumption, FS_CardinalityType
  <2>3. /\ consent \in [status : {"none"}, by : {"widget", "client"}, own : {"due"},
                        backfilled : {0}]
        /\ sync = [s \in Syncs |-> "idle"]
    BY DEF DashboardsInit
  <2>4. /\ consent \in [status : {"none", "GRANTED", "REVOKED"}, by : {"widget", "client"},
                        own : {"due", "written", "lost"}, backfilled : Nat]
        /\ consent.backfilled = 0
    BY <2>3
  <2>5. sync \in [Syncs -> {"idle", "listed", "missing"}]
    BY <2>3
  <2>6. QED
    BY <1>2, <2>2, <2>4, <2>5 DEF UsageFits, UsageTypes
<1>6. QED
  BY <1>2, <1>3, <1>4, <1>5 DEF DashboardsInv

LEMMA FiguresStep ==
  ASSUME DashboardsInv, Figures
  PROVE  DashboardsInv'
<1>1. changes \in 0 .. MaxChanges
  BY DEF DashboardsInv
<1>2. UNCHANGED <<listVars, usageVars>>
  BY DEF Figures, StartMetrics, StartKpis, StartCookieMetrics, Gathers, AnswerQuery, StartTrends,
         StartAnalytics, StartWeeks, ReportedTablesChange
<1>3. UsageFits'
  BY <1>2, UsageRest
<1>4. CASE ReportedTablesChange
  <2>1. changes' \in {changes, changes + 1}
    BY <1>4 DEF ReportedTablesChange
  <2>2. PagesFit'
    BY <1>2, <2>1, PagesRest
  <2>3. FiguresFit' /\ changes' \in 0 .. MaxChanges
    BY <1>4, TablesChangeKeeps
  <2>4. QED
    BY <1>3, <2>2, <2>3 DEF DashboardsInv
<1>5. CASE ~ReportedTablesChange
  <2>1. changes' = changes
    BY <1>5 DEF Figures, StartMetrics, StartKpis, StartCookieMetrics, Gathers, AnswerQuery,
                StartTrends, StartAnalytics, StartWeeks
  <2>2. PagesFit'
    BY <1>2, <2>1, PagesRest
  <2>3. CASE StartMetrics \/ StartKpis \/ StartCookieMetrics
    BY <1>1, <1>3, <2>1, <2>2, <2>3, GathersKeeps DEF DashboardsInv
  <2>4. CASE AnswerQuery
    BY <1>1, <1>3, <2>1, <2>2, <2>4, AnswerKeeps DEF DashboardsInv
  <2>5. CASE \/ \E month \in 0 .. 11, day \in 1 .. 31 : StartTrends(month, day)
             \/ \E month \in 0 .. 11 : StartAnalytics(month)
             \/ \E age \in 0 .. 28 : StartWeeks(age)
    <3>1. FiguresFit'
      BY <2>5, CalendarKeeps
    <3>2. QED
      BY <1>1, <1>3, <2>1, <2>2, <3>1 DEF DashboardsInv
  <2>6. QED
    BY <1>5, <2>3, <2>4, <2>5 DEF Figures
<1>6. QED
  BY <1>4, <1>5

LEMMA ByPagesStep ==
  ASSUME DashboardsInv, ByPages
  PROVE  DashboardsInv'
<1>1. changes \in 0 .. MaxChanges
  BY DEF DashboardsInv
<1>2. /\ UNCHANGED <<reportVars, usageVars>>
      /\ \/ (\E take \in {1, 2, 3} : Lists(take)) /\ changes' = changes
         \/ CountRows /\ changes' = changes
         \/ ReadRows /\ changes' = changes
         \/ TurnPage /\ changes' = changes
         \/ ListedTableGrows /\ changes' = changes + 1 /\ changes < MaxChanges
  BY DEF ByPages, ListRights, ListAuditLogs, ListSystemLogs, ListUsage, ListConsentRecords,
         ListGrievances, ListUsers, ListAcknowledgements, Lists, CountRows, ReadRows, TurnPage,
         ListedTableGrows
<1>3. UsageFits' /\ FiguresFit' /\ changes' \in 0 .. MaxChanges
  <2>1. changes' = changes \/ (changes' = changes + 1 /\ changes < MaxChanges)
    BY <1>2
  <2>2. QED
    BY <1>2, <2>1, UsageRest, FiguresRest
<1>4. PagesFit'
  <2>1. CASE \E take \in {1, 2, 3} : Lists(take)
    <3>1. PICK take \in {1, 2, 3} : Lists(take)
      BY <2>1
    <3>2. take \in Nat \ {0}
      OBVIOUS
    <3>3. QED
      BY <3>1, <3>2, ListsKeeps
  <2>2. CASE CountRows
    BY <2>2, CountRowsKeeps
  <2>3. CASE ReadRows
    BY <2>3, ReadRowsKeeps
  <2>4. CASE TurnPage
    BY <2>4, TurnPageKeeps
  <2>5. CASE ListedTableGrows
    BY <2>5, TableGrowsKeeps
  <2>6. QED
    BY <1>2, <2>1, <2>2, <2>3, <2>4, <2>5
<1>5. QED
  BY <1>3, <1>4 DEF DashboardsInv

LEMMA UsageStep ==
  ASSUME DashboardsInv, Usage
  PROVE  DashboardsInv'
<1>1. /\ UNCHANGED <<reportVars, listVars>> /\ changes' = changes
      /\ changes \in 0 .. MaxChanges
  BY DEF DashboardsInv, Usage, RecordConsent, WriteUsage, RevokeConsent, ListConsents, FindUsage,
         BackfillUsage
<1>2. FiguresFit' /\ PagesFit'
  BY <1>1, FiguresRest, PagesRest
<1>3. UsageFits'
  <2>1. CASE RecordConsent \/ WriteUsage \/ RevokeConsent
    BY <2>1, ConsentKeeps
  <2>2. CASE \E s \in Syncs : ListConsents(s) \/ FindUsage(s) \/ BackfillUsage(s)
    BY <2>2, ListConsentsKeeps, FindUsageKeeps, BackfillKeeps
  <2>3. QED
    BY <2>1, <2>2 DEF Usage
<1>4. QED
  BY <1>1, <1>2, <1>3 DEF DashboardsInv

LEMMA DashboardsStep == DashboardsInv /\ [DashboardsNext]_dashboardVars => DashboardsInv'
<1> SUFFICES ASSUME DashboardsInv, [DashboardsNext]_dashboardVars PROVE DashboardsInv'
  OBVIOUS
<1>1. CASE DashboardsNext
  BY <1>1, FiguresStep, ByPagesStep, UsageStep DEF DashboardsNext
<1>2. CASE UNCHANGED dashboardVars
  <2>1. /\ UNCHANGED reportVars /\ UNCHANGED listVars /\ UNCHANGED usageVars /\ changes' = changes
        /\ changes \in 0 .. MaxChanges
    BY <1>2 DEF dashboardVars, DashboardsInv
  <2>2. QED
    BY <2>1, FiguresRest, PagesRest, UsageRest DEF DashboardsInv
<1>3. QED
  BY <1>1, <1>2

------------------------------------------------------------------------------
(* What the invariant tells.                                               *)

LEMMA ShareIs ==
  ASSUME NEW bad \in Nat, NEW all \in Nat, bad =< all
  PROVE  Share(bad, all) \in 0 .. 100
<1>1. CASE all = 0
  BY <1>1 DEF Share
<1>2. CASE all # 0
  <2>1. PICK n : n = (all - bad) * 100
    OBVIOUS
  <2>2. n \in Nat /\ n =< all * 100
    BY <2>1
  <2>3. PICK d : d = n \div all
    OBVIOUS
  <2>4. d \in Int /\ all * d =< n /\ n < all * (d + 1)
    BY <1>2, <2>2, <2>3
  <2>5. 0 =< d
    BY <1>2, <2>2, <2>4
  <2>6. d =< 100
    BY <1>2, <2>2, <2>4
  <2>7. QED
    BY <1>2, <2>1, <2>3, <2>4, <2>5, <2>6 DEF Share
<1>3. QED
  BY <1>1, <1>2

LEMMA MonthsAreShown ==
  ASSUME NEW month \in 0 .. 11, NEW day \in 1 .. 31, NEW i \in MonthsBack
  PROVE  (month - i) % 12 \in MonthsShown(month, day) \/ day > DaysIn((month - i) % 12)
<1>1. PICK m : m = (month - i) % 12
  OBVIOUS
<1>2. DaysIn(m) \in Int
  BY DEF DaysIn
<1>3. CASE day =< DaysIn(m)
  <2>1. MonthBefore(month, day, i) = m
    BY <1>1, <1>3 DEF MonthBefore
  <2>2. MonthBefore(month, day, i) \in MonthsShown(month, day)
    BY DEF MonthsShown
  <2>3. QED
    BY <1>1, <2>1, <2>2
<1>4. CASE ~(day =< DaysIn(m))
  BY <1>1, <1>2, <1>4
<1>5. QED
  BY <1>3, <1>4

LEMMA MonthsAreAnalysed ==
  ASSUME NEW month \in 0 .. 11
  PROVE  MonthsAnalysed(month) = 0 .. 11
<1>1. ASSUME NEW i \in 0 .. 11 PROVE (month - 11 + i) % 12 \in 0 .. 11
  OBVIOUS
<1>2. ASSUME NEW m \in 0 .. 11 PROVE m \in MonthsAnalysed(month)
  <2>1. CASE m =< month
    <3>1. PICK i : i = m - month + 11
      OBVIOUS
    <3>2. i \in 0 .. 11 /\ month - 11 + i = m
      BY <2>1, <3>1
    <3>3. m % 12 = m
      OBVIOUS
    <3>4. QED
      BY <3>2, <3>3 DEF MonthsAnalysed
  <2>2. CASE m > month
    <3>1. PICK i : i = m - month - 1
      OBVIOUS
    <3>2. i \in 0 .. 11 /\ month - 11 + i = m - 12
      BY <2>2, <3>1
    <3>3. (m - 12) % 12 = m
      OBVIOUS
    <3>4. QED
      BY <3>2, <3>3 DEF MonthsAnalysed
  <2>3. QED
    BY <2>1, <2>2
<1>3. QED
  BY <1>1, <1>2 DEF MonthsAnalysed

LEMMA WeeksCount ==
  ASSUME NEW age \in 0 .. 28
  PROVE  Cardinality(WeeksOf(age)) = IF age \in {7, 14, 21} THEN 2 ELSE 1
<1>1. CASE age \in {7, 14, 21}
  <2>1. PICK w \in 0 .. 2 : age = 7 * (w + 1)
    BY <1>1
  <2>2. WeeksOf(age) = {w} \cup {w + 1}
    BY <2>1 DEF WeeksOf
  <2>3. w + 1 \notin {w}
    BY <2>1
  <2>4. /\ IsFiniteSet({w}) /\ Cardinality({w}) = 1
    BY FS_Singleton
  <2>5. Cardinality({w} \cup {w + 1}) = 1 + 1
    BY <2>3, <2>4, FS_AddElement
  <2>6. QED
    BY <1>1, <2>2, <2>5
<1>2. CASE age \notin {7, 14, 21}
  <2>1. PICK w \in 0 .. 3 : age >= 7 * w /\ age =< 7 * (w + 1)
    <3>1. \/ age >= 7 * 0 /\ age =< 7 * (0 + 1)
          \/ age >= 7 * 1 /\ age =< 7 * (1 + 1)
          \/ age >= 7 * 2 /\ age =< 7 * (2 + 1)
          \/ age >= 7 * 3 /\ age =< 7 * (3 + 1)
      OBVIOUS
    <3>2. QED
      BY <3>1
  <2>2. WeeksOf(age) = {w}
    BY <1>2, <2>1 DEF WeeksOf
  <2>3. QED
    BY <1>2, <2>2, FS_Singleton
<1>3. QED
  BY <1>1, <1>2

LEMMA DashboardsTold ==
  ASSUME DashboardsInv
  PROVE  DashboardsTypeOK /\ FiguresHold
<1>1. /\ ReportTypes /\ MetricsFit /\ KpisFit /\ CookiesFit /\ PagesFit /\ ListTypes
      /\ UsageFits /\ UsageTypes /\ changes \in 0 .. MaxChanges
  BY DEF DashboardsInv, FiguresFit, PagesFit, UsageFits
<1>2. DashboardsTypeOK
  BY <1>1 DEF DashboardsTypeOK, ReportTypes, ListTypes, UsageTypes
<1>3. changes \in Nat
  BY <1>1, DashboardsAssumption
<1>4. ASSUME report.kind \in {"metrics", "kpis", "cookies"}
      PROVE  Since \in Int /\ \A q \in Queries : report.got[q] \in Nat
  BY <1>1, <1>3, <1>4, ReportIs DEF Since
<1>5. {"total", "byStatus", "breached", "ofPriority", "late", "open", "totalGrievances", "logs",
       "accepted"} \subseteq Queries
  BY DEF Queries
<1>6. PendingWithinChanges
  <2>1. SUFFICES ASSUME report.kind = "metrics", report.left = {}
                 PROVE  LET off == PendingOf(report.got) - Pending IN
                        off =< Since /\ -off =< Since
    BY DEF PendingWithinChanges, Gathered, Since
  <2>2. PICK t, c, all, closed, n :
          /\ t = report.got["total"] /\ c = report.got["byStatus"]
          /\ all = AllCases /\ closed = Closed /\ n = Since
    OBVIOUS
  <2>3. t \in Nat /\ c \in Nat /\ all \in Nat /\ closed \in Nat /\ n \in Int
    BY <1>1, <1>4, <1>5, <2>1, <2>2, CaseCounts
  <2>4. Moved("total", AllCases) = all - t /\ Moved("byStatus", Closed) = closed - c
    BY <2>1, <2>2 DEF Moved, Known
  <2>5. /\ all - t >= 0 /\ (all - t) + (closed - c) =< n /\ (all - t) - (closed - c) =< n
    BY <1>1, <2>1, <2>2, <2>4 DEF MetricsFit
  <2>6. PendingOf(report.got) = t - c /\ Pending = all - closed
    BY <2>2 DEF PendingOf, Pending
  <2>7. (t - c) - (all - closed) =< n /\ -((t - c) - (all - closed)) =< n
    BY <2>3, <2>5
  <2>8. QED
    BY <2>2, <2>6, <2>7
<1>7. ScoresInRange
  <2>1. SUFFICES ASSUME report.kind = "kpis", report.left = {}
                 PROVE  /\ Share(report.got["breached"], report.got["total"]) \in 0 .. 100
                        /\ Share(report.got["open"], report.got["totalGrievances"]) \in 0 .. 100
    BY DEF ScoresInRange, Gathered
  <2>2. /\ report.got["breached"] =< report.got["total"]
        /\ report.got["open"] =< report.got["totalGrievances"]
    BY <1>1, <2>1 DEF KpisFit, Known
  <2>3. QED
    BY <1>4, <1>5, <2>1, <2>2, ShareIs
<1>8. RatesWithinChanges
  <2>1. ASSUME Gathered("metrics")
        PROVE  report.got["late"] - report.got["ofPriority"] =< changes - report.since
    BY <1>1, <2>1 DEF Gathered, MetricsFit, Known, Since
  <2>2. ASSUME Gathered("cookies")
        PROVE  report.got["accepted"] - report.got["logs"] =< changes - report.since
    BY <1>1, <2>2 DEF Gathered, CookiesFit, Known, Since
  <2>3. QED
    BY <2>1, <2>2 DEF RatesWithinChanges
<1>9. TrendsCover
  <2>1. report \in Report
    BY <1>1 DEF ReportTypes
  <2>2. report.kind = "trends" => report.month \in 0 .. 11 /\ report.day \in 1 .. 31
    BY <2>1 DEF Report, NoReport
  <2>3. report.kind = "analytics" => report.month \in 0 .. 11
    BY <2>1 DEF Report, NoReport
  <2>4. report.kind = "weeks" => report.age \in 0 .. 28
    BY <2>1 DEF Report, NoReport
  <2>5. QED
    BY <2>2, <2>3, <2>4, MonthsAreShown, MonthsAreAnalysed, WeeksCount DEF TrendsCover
<1>10. PagesMissWithinGrowth
  <2>1. SUFFICES ASSUME listing.page > 0, listing.over
                 PROVE  Cardinality((1 .. listing.first) \ listing.seen) =< rows - listing.first
    BY DEF PagesMissWithinGrowth
  <2>2. /\ rows \in Nat /\ listing.first \in Nat /\ listing.total \in Nat
        /\ listing.page * listing.take \in Int
    BY <1>1, <2>1, ListingIs, ReachedIs, DashboardsAssumption DEF ListTypes
  <2>3. /\ listing.first =< rows /\ listing.first =< listing.total
        /\ listing.listed /\ listing.page * listing.take >= listing.total
        /\ \A n \in 1 .. listing.first : n \notin listing.seen => n =< rows - Reached
    BY <1>1, <2>1 DEF PagesFit
  <2>4. Reached = listing.page * listing.take
    BY <1>1, <2>1, <2>3, ReachedIs
  <2>5. PICK more : more = rows - listing.first
    OBVIOUS
  <2>6. more \in Nat
    BY <2>2, <2>3, <2>5
  <2>7. ASSUME NEW n \in (1 .. listing.first) \ listing.seen
        PROVE  n \in 1 .. more
    <3>1. n \in Nat /\ n >= 1 /\ n =< rows - Reached
      BY <2>2, <2>3, <2>7
    <3>2. QED
      BY <2>2, <2>3, <2>4, <2>5, <3>1
  <2>8. (1 .. listing.first) \ listing.seen \in SUBSET (1 .. more)
    BY <2>7
  <2>9. IsFiniteSet(1 .. more) /\ Cardinality(1 .. more) = more
    <3>1. IsFiniteSet(1 .. more) /\ Cardinality(1 .. more) = (IF 1 > more THEN 0 ELSE more - 1 + 1)
      BY <2>6, FS_Interval
    <3>2. QED
      BY <2>6, <3>1
  <2>10. QED
    BY <2>5, <2>8, <2>9, FS_Subset
<1>11. UsageWithinSyncs
  BY <1>1, MissingIs DEF UsageFits, UsageTypes, UsageWithinSyncs
<1>12. QED
  BY <1>2, <1>6, <1>7, <1>8, <1>9, <1>10, <1>11 DEF FiguresHold

\* The figures, the lists and the usage table are off by no more than the tables changed
\* while they were read, in every state: for any number of requests, grievances, rows,
\* changes and backfills.
THEOREM FiguresStayTrue == DashboardsSpec => [](DashboardsTypeOK /\ FiguresHold)
<1>1. DashboardsSpec => []DashboardsInv
  BY DashboardsStart, DashboardsStep, PTL DEF DashboardsSpec
<1>2. DashboardsInv => DashboardsTypeOK /\ FiguresHold
  BY DashboardsTold
<1>3. QED
  BY <1>1, <1>2, PTL
=============================================================================
