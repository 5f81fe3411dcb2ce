----------------------------- MODULE AuditTrail -----------------------------
(***************************************************************************)
(* What the interceptor around every handler leaves in the two logs.  It   *)
(* reads the row before the handler runs, and writes the audit log and     *)
(* then the system log after the caller has been answered, each in a       *)
(* statement that may fail in silence.                                     *)
(***************************************************************************)
EXTENDS Naturals, Sequences, FiniteSets

CONSTANTS
  Calls,          \* calls of the API, each made once
  Rows,           \* ids of rows
  MaxStops        \* bound: crashes of the server

ASSUME AuditTrailAssumption ==
  /\ IsFiniteSet(Calls) /\ IsFiniteSet(Rows)
  /\ MaxStops \in Nat

VARIABLES
  table,       \* the table whose rows are followed
  row,         \* row[r]: the version of the row; 0 for none
  used,        \* ids that have been given out
  trail,       \* trail[c]: the call, and how far it is
  auditLog,    \* the AuditLog rows, oldest first
  systemLog,   \* the SystemLog rows
  stops        \* crashes so far

auditTrailVars == <<table, row, used, trail, auditLog, systemLog, stops>>

Methods == {"GET", "POST", "PUT", "DELETE"}

\* Kinds of URL the tables of the interceptor tell apart.
Urls == {"users", "roles", "rights/requests", "consent-records", "auth/login"}

\* The calls there are: requests and consents are never deleted.
Routes == {"users", "roles"} \X {"POST", "PUT", "DELETE"}
          \cup {"rights/requests", "consent-records"} \X {"POST", "PUT"}
          \cup {<<"users", "GET">>, <<"auth/login", "POST">>}

Unmade == [step |-> "unmade"]
Call ==
  {Unmade} \cup
  [step : {"snapshot", "handle", "own", "mirror", "audit", "name", "system", "passed", "dropped",
           "failed", "lost"},
   method : Methods, url : Urls, row : Rows, old : Nat, changed : BOOLEAN]

AuditRow == [call : Calls, by : {"interceptor", "service"}, method : Methods,
             category : {"SECURITY", "PROFILE", "ROLE", "API"},
             severity : {"INFO", "WARNING"}, names : Nat]
SystemRow == [call : Calls, by : {"interceptor", "service"}, category : {"LOG_CONSENT", "LOG_RIGHTS", "LOG_SECURITY"},
              action : {"Created", "Submitted", "Updated", "Deleted", "Login"}, target : Nat]

AuditTrailTypeOK ==
  /\ table \in Urls \ {"auth/login"}
  /\ row \in [Rows -> Nat]
  /\ used \subseteq Rows
  /\ trail \in [Calls -> Call]
  /\ auditLog \in Seq(AuditRow)
  /\ systemLog \in Seq(SystemRow)
  /\ stops \in 0 .. MaxStops

AuditTrailInit ==
  /\ table \in Urls \ {"auth/login"}
  /\ \E first \in Rows : row = [r \in Rows |-> IF r = first THEN 1 ELSE 0] /\ used = {first}
  /\ trail = [c \in Calls |-> Unmade]
  /\ auditLog = <<>>
  /\ systemLog = <<>>
  /\ stops = 0

------------------------------------------------------------------------------
(* The tables of the interceptor.                                          *)

\* Only the calls that may write.
Intercepted(method) == method # "GET"

\* The Prisma model the URL is taken for: consent-records gives the name
\* consent-record, which no model has.
HasModel(url) == url \in {"users", "roles", "rights/requests"}

\* Whether the row is read before the handler, by the id the URL ends with.
Snapshots(method, url) == method \in {"PUT", "DELETE"} /\ HasModel(url)

CategoryOf(url) ==
  CASE url = "auth/login" -> "SECURITY"
    [] url = "users"      -> "PROFILE"
    [] url = "roles"      -> "ROLE"
    [] OTHER              -> "API"

SeverityOf(method) == IF method = "DELETE" THEN "WARNING" ELSE "INFO"

SystemCategoryOf(url) ==
  CASE url = "consent-records" -> "LOG_CONSENT"
    [] url = "rights/requests" -> "LOG_RIGHTS"
    [] OTHER                   -> "LOG_SECURITY"

LabelByMethod(method, created) ==
  CASE method = "POST" -> created [] method = "PUT" -> "Updated" [] OTHER -> "Deleted"

ActionOf(method, url) ==
  IF url = "auth/login" THEN "Login"
  ELSE LabelByMethod(method, IF url = "rights/requests" THEN "Submitted" ELSE "Created")

\* The details name the row as it was read when a user or a role is removed;
\* otherwise they are made of the body, which does not matter here.
DetailsOf(c) ==
  IF trail[c].url \in {"users", "roles"} /\ trail[c].method = "DELETE" THEN trail[c].old ELSE 0

\* The target is described by the row as it was read, or else by the body.
TargetOf(c) == trail[c].old

------------------------------------------------------------------------------
(* A call.                                                                 *)

Moves(c, step) == trail' = [trail EXCEPT ![c].step = step]

Receive(c, url, method, r) ==
  /\ trail[c] = Unmade
  /\ url \in {table, "auth/login"}
  /\ trail' = [trail EXCEPT ![c] =
       [step |-> IF Snapshots(method, url) THEN "snapshot" ELSE "handle",
        method |-> method, url |-> url, row |-> r, old |-> 0, changed |-> FALSE]]
  /\ UNCHANGED <<table, row, used, auditLog, systemLog, stops>>

\* A read that fails is ignored, like one that finds nothing.
TakeSnapshot(c) ==
  /\ trail[c].step = "snapshot"
  /\ \E old \in {0, row[trail[c].row]} :
       trail' = [trail EXCEPT ![c].step = "handle", ![c].old = old]
  /\ UNCHANGED <<table, row, used, auditLog, systemLog, stops>>

\* update and delete of a row that is gone throw; create makes a row under an id
\* of its own.  The session a login makes is left out here.
Handles(t) ==
  \/ t.url = "auth/login"
  \/ t.method = "POST" /\ t.row \notin used
  \/ t.method \in {"PUT", "DELETE"} /\ row[t.row] # 0

\* A user is removed by a mark in the row.
Deletes(t) == t.method = "DELETE" /\ t.url # "users"

AfterHandler(t) ==
  IF t.url = "auth/login" THEN row
  ELSE [row EXCEPT ![t.row] = IF Deletes(t) THEN 0 ELSE @ + 1]

Handle(c) ==
  LET t == trail[c] IN
  /\ t.step = "handle"
  /\ Handles(t)
  /\ row' = AfterHandler(t)
  /\ used' = IF t.method = "POST" /\ t.url # "auth/login" THEN used \cup {t.row} ELSE used
  /\ trail' = [trail EXCEPT ![c].changed = TRUE,
                            ![c].step = IF t.url = "auth/login" THEN "own" ELSE "audit"]
  /\ UNCHANGED <<table, auditLog, systemLog, stops>>

\* Mutant: also a call that failed is logged.
AfterFailureLogged(method) == IF Intercepted(method) THEN "audit" ELSE "passed"

\* tap sees answers only: the error passes it by.
AfterFailure(method) == "failed"

\* The call is refused, or throws.
Refuse(c) ==
  /\ trail[c].step = "handle"
  /\ Intercepted(trail[c].method)
  /\ Moves(c, AfterFailure(trail[c].method))
  /\ UNCHANGED <<table, row, used, auditLog, systemLog, stops>>

\* A GET is answered and leaves nothing.
PassGet(c) ==
  /\ trail[c].step = "handle"
  /\ ~Intercepted(trail[c].method)
  /\ Moves(c, "passed")
  /\ UNCHANGED <<table, row, used, auditLog, systemLog, stops>>

AuditEntry(c, by) ==
  [call |-> c, by |-> by, method |-> trail[c].method, category |-> CategoryOf(trail[c].url),
   severity |-> SeverityOf(trail[c].method), names |-> IF by = "service" THEN 0 ELSE DetailsOf(c)]

\* login writes an entry of its own, AuditLogsService.create: the call fails if that
\* does, although the login has been recorded in the user's row ...
WriteOwnAudit(c) ==
  /\ trail[c].step = "own"
  /\ \/ auditLog' = Append(auditLog, AuditEntry(c, "service")) /\ Moves(c, "mirror")
     \/ UNCHANGED auditLog /\ Moves(c, "failed")
  /\ UNCHANGED <<table, row, used, systemLog, stops>>

SystemEntry(c, by) ==
  [call |-> c, by |-> by, category |-> SystemCategoryOf(trail[c].url),
   action |-> ActionOf(trail[c].method, trail[c].url), target |-> TargetOf(c)]

\* ... and mirrors it in the system log: if that fails, the call goes on.
MirrorOwn(c) ==
  /\ trail[c].step = "mirror"
  /\ systemLog' \in {systemLog, Append(systemLog, SystemEntry(c, "service"))}
  /\ Moves(c, "audit")
  /\ UNCHANGED <<table, row, used, auditLog, stops>>

\* The caller has its answer by now.
WriteAudit(c) ==
  /\ trail[c].step = "audit"
  /\ \/ auditLog' = Append(auditLog, AuditEntry(c, "interceptor")) /\ Moves(c, "name")
     \/ UNCHANGED auditLog /\ Moves(c, "dropped")
  /\ UNCHANGED <<table, row, used, systemLog, stops>>

\* The name of the user is looked up for the system log.
ReadUserName(c) ==
  /\ trail[c].step = "name"
  /\ \E step \in {"system", "dropped"} : Moves(c, step)
  /\ UNCHANGED <<table, row, used, auditLog, systemLog, stops>>

WriteSystem(c) ==
  /\ trail[c].step = "system"
  /\ \/ systemLog' = Append(systemLog, SystemEntry(c, "interceptor")) /\ Moves(c, "passed")
     \/ UNCHANGED systemLog /\ Moves(c, "dropped")
  /\ UNCHANGED <<table, row, used, auditLog, stops>>

InFlight(c) == trail[c].step \notin {"unmade", "passed", "dropped", "failed", "lost"}

\* The server stops: the calls in flight go, the entries still to be written too.
ServerStops ==
  /\ stops < MaxStops
  /\ stops' = stops + 1
  /\ trail' = [c \in Calls |-> IF InFlight(c) THEN [trail[c] EXCEPT !.step = "lost"] ELSE trail[c]]
  /\ UNCHANGED <<table, row, used, auditLog, systemLog>>

AuditTrailNext ==
  \/ \E c \in Calls :
       \/ \E route \in Routes, r \in Rows : Receive(c, route[1], route[2], r)
       \/ TakeSnapshot(c)
       \/ Handle(c) \/ Refuse(c) \/ PassGet(c)
       \/ WriteOwnAudit(c) \/ MirrorOwn(c) \/ WriteAudit(c)
       \/ ReadUserName(c) \/ WriteSystem(c)
  \/ ServerStops

AuditTrailSpec == AuditTrailInit /\ [][AuditTrailNext]_auditTrailVars

------------------------------------------------------------------------------
(* Properties.                                                             *)

Entries(c) == {i \in DOMAIN auditLog : auditLog[i].call = c /\ auditLog[i].by = "interceptor"}
Mirrors(c) == {i \in DOMAIN systemLog : systemLog[i].call = c /\ systemLog[i].by = "interceptor"}

\* Entries are written by nobody's order, after the answer, and each write may
\* fail alone or be lost in a crash: still nothing is in the logs that did not
\* happen, nothing twice, nothing in the system log that the audit log lacks;
\* and what happened is in both unless a write failed or the server stopped.
TrailAccounts ==
  \A c \in Calls :
    /\ Cardinality(Entries(c)) =< 1
    /\ Cardinality(Mirrors(c)) =< Cardinality(Entries(c))
    /\ Entries(c) # {} => trail[c].changed
    /\ trail[c].step = "passed" /\ trail[c].changed => Mirrors(c) # {}

\* Callers that remove one role at the same time read the same row before their
\* handlers run: only one entry of the log tells of the removal of it.
RemovedOnce ==
  \A c, d \in Calls :
    \A i \in Entries(c), j \in Entries(d) :
      /\ table = "roles"
      /\ auditLog[i].names # 0 /\ auditLog[j].names # 0
      /\ trail[c].row = trail[d].row
      => c = d

\* What the two logs tell of calls that overlap, fail and are lost, and of rows that
\* are gone by the time the entry is written.
LogsHold == TrailAccounts /\ RemovedOnce
=============================================================================
