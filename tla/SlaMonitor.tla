----------------------------- MODULE SlaMonitor ------------------------------
(***************************************************************************)
(* The SLA monitor, a repeatable BullMQ job, at work among the calls of    *)
(* RightsRequests.  A run notes the time, reads the overdue rows, and then *)
(* for each of them mails an alert and afterwards writes the row by its    *)
(* id; then it does the same for the rows whose deadline is near.  What it *)
(* writes rests on the list it read, not on the row as it is by then.      *)
(***************************************************************************)
EXTENDS RightsRequests, FiniteSets

CONSTANTS
  NearBreach,        \* the 72 hours, in ticks of the clock
  MaxUnsent          \* bound: the mails that fail

Nobody == "nobody"       \* no alert of this run is half done

ASSUME NearBreachAssumption == /\ NearBreach \in Nat
                               /\ MaxUnsent \in Nat
                               /\ Nobody \notin Requests

VARIABLES
  monitor,      \* the run in progress
  alertSent,    \* the rows with slaAlertSent
  nearSent,     \* the rows with nearBreachAlertSent
  breached,     \* the rows with slaBreached
  alerts,       \* alerts[k][r]: mails of kind k sent about r
  unsent        \* the <<k, r>> for which a mail of kind k about r failed

slaVars == <<monitor, alertSent, nearSent, breached, alerts, unsent>>
allVars == <<vars, slaVars>>

Kind   == {"breach", "near"}
NoRun  == [step |-> "idle"]
Runs   == [step : Kind, at : Nat, todo : SUBSET Requests,
           current : Requests \union {Nobody}]

SlaTypeOK ==
  /\ monitor \in {NoRun} \union Runs
  /\ alertSent \subseteq Requests
  /\ nearSent \subseteq Requests
  /\ breached \subseteq Requests
  /\ alerts \in [Kind -> [Requests -> Nat]]
  /\ unsent \subseteq Kind \X Requests

\* The types of the rows, the calls and the monitor among them.
MonitoredTypeOK == TypeOK /\ SlaTypeOK

SlaInit ==
  /\ Init
  /\ monitor = NoRun
  /\ alertSent = {}
  /\ nearSent = {}
  /\ breached = {}
  /\ alerts = [k \in Kind |-> [r \in Requests |-> 0]]
  /\ unsent = {}

\* The part both queries share: an open case whose clock runs.
OnTheClock(r) ==
  /\ row[r].status \notin Terminal
  /\ row[r].pausedAt = NoTime
  /\ row[r].due # NoTime

Overdue(r) == OnTheClock(r) /\ row[r].due <= now

\* Mutant: the query, without its condition on slaAlertSent.
NewlyBreachedUnfiltered == {r \in Requests : Overdue(r)}

\* Mutant: the query, with the flag of the other alert.
NewlyBreachedWrongFlag == {r \in Requests : Overdue(r) /\ r \notin nearSent}

NewlyBreached == {r \in Requests : Overdue(r) /\ r \notin alertSent}

\* Mutant: the windows are reckoned from the wrong side of the present.
RunTimeEarlier == now - NearBreach

RunTime == now

FindBreached ==
  /\ monitor = NoRun
  /\ monitor' = [step |-> "breach", at |-> RunTime, current |-> Nobody,
                 todo |-> NewlyBreached]
  /\ UNCHANGED <<alertSent, nearSent, breached, alerts, unsent>>

Between(kind) ==
  monitor.step = kind /\ monitor.current = Nobody

FindNearBreach ==
  /\ Between("breach")
  /\ monitor.todo = {}
  /\ monitor' = [monitor EXCEPT !.step = "near", !.todo =
                   {r \in Requests : /\ OnTheClock(r)
                                     /\ monitor.at < row[r].due
                                     /\ row[r].due <= monitor.at + NearBreach
                                     /\ r \notin nearSent}]
  /\ UNCHANGED <<alertSent, nearSent, breached, alerts, unsent>>

\* Mutant: alerts that are switched off.
MailNothing(k, r) == UNCHANGED <<alerts, unsent>>

\* sendSLABreachAlert.  A mail that fails is caught and answered with false,
\* which sendAlert ignores: the run goes on the same way.
Mail(k, r) ==
  \/ /\ alerts' = [alerts EXCEPT ![k][r] = @ + 1]
     /\ UNCHANGED unsent
  \/ /\ Cardinality(unsent) < MaxUnsent
     /\ unsent' = unsent \union {<<k, r>>}
     /\ UNCHANGED alerts

SendAlert(r) ==
  /\ \E k \in Kind :
       /\ Between(k)
       /\ Mail(k, r)
  /\ r \in monitor.todo
  /\ monitor' = [monitor EXCEPT !.current = r, !.todo = @ \ {r}]
  /\ UNCHANGED <<alertSent, nearSent, breached>>

\* The update that follows the alert, by id alone.
RecordAlert ==
  /\ monitor.step \in Kind
  /\ monitor.current # Nobody
  /\ ~Locked(monitor.current)
  /\ LET r == monitor.current
     IN  IF monitor.step = "breach"
         THEN /\ alertSent' = alertSent \union {r}
              /\ breached' = breached \union {r}
              /\ UNCHANGED nearSent
         ELSE /\ nearSent' = nearSent \union {r}
              /\ UNCHANGED <<alertSent, breached>>
  /\ monitor' = [monitor EXCEPT !.current = Nobody]
  /\ UNCHANGED <<alerts, unsent>>

EndRun ==
  /\ Between("near")
  /\ monitor.todo = {}
  /\ monitor' = NoRun
  /\ UNCHANGED <<alertSent, nearSent, breached, alerts, unsent>>

MonitorStep ==
  \/ FindBreached \/ FindNearBreach \/ RecordAlert \/ EndRun
  \/ \E r \in Requests : SendAlert(r)

\* A database error ends the run alone.  It is counted with the crashes.
RunFails ==
  /\ monitor # NoRun
  /\ crashes < MaxCrashes
  /\ crashes' = crashes + 1
  /\ monitor' = NoRun
  /\ UNCHANGED <<caseVars, clerk, jobVars, workerVars, now,
                 alertSent, nearSent, breached, alerts, unsent>>

\* A crash also ends the run; the rows it has not written stay unmarked.
CrashInRun ==
  /\ Crash
  /\ monitor' = NoRun
  /\ UNCHANGED <<alertSent, nearSent, breached, alerts, unsent>>

SlaNext ==
  \/ Running /\ UNCHANGED slaVars
  \/ MonitorStep /\ UNCHANGED vars
  \/ CrashInRun
  \/ RunFails

SlaSpec == SlaInit /\ [][SlaNext]_allVars

\* The job is repeated every fifteen minutes and a run is carried through; a
\* transaction ends, and row locks are granted in turn.
SlaFairSpec ==
  /\ SlaSpec
  /\ WF_allVars(MonitorStep /\ UNCHANGED vars)
  /\ SF_allVars(RecordAlert /\ UNCHANGED vars)
  /\ \A c \in Clerks :
       WF_allVars((Rollback(c) \/ Commit(c)) /\ UNCHANGED slaVars)

(***************************************************************************)
(* Properties.                                                             *)
(***************************************************************************)
\* Nobody is alerted twice about the same row, save when the run died between
\* the mail and the update that marks the row: once more per crash or error.
AlertedOnce ==
  \A k \in Kind : \A r \in Requests : alerts[k][r] <= 1 + crashes

Tried(k, r) == alerts[k][r] > 0 \/ <<k, r>> \in unsent

\* A row is marked only after its alert was tried, whatever happened to the
\* row and the run in between: a marked row that nobody was alerted about is
\* one whose mail failed.  The mark of the alert and of the breach agree.
MarkedWasTried ==
  /\ breached = alertSent
  /\ \A r \in alertSent : Tried("breach", r)
  /\ \A r \in nearSent  : Tried("near", r)

\* An open case that is and stays overdue with a running clock is marked: no
\* call, crash or other row keeps the monitor from it.
OverdueIsMarked ==
  \A r \in Requests : Overdue(r) ~> (r \in breached \/ ~Overdue(r))
=============================================================================
