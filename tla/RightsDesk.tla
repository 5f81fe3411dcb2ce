----------------------------- MODULE RightsDesk ------------------------------
(***************************************************************************)
(* RightsRequests without the worker: either the clerks race, or one of    *)
(* them works alone, with more routes, more time and crashes.  What the    *)
(* calls keep one at a time, and lose when they race, is stated here.      *)
(***************************************************************************)
EXTENDS RightsRequests

VARIABLE desk       \* the clerks at work

deskVars == <<vars, desk>>

Alone == \E c \in Clerks : desk = {c}

\* updateStatus has every target, so that it stands for the quick actions that do
\* nothing of their own.
RaceRoutes == {"updateStatus", "approve", "requestMoreInfo"}
RaceTime == 1

RaceStep ==
  /\ \A c \in Clerks : clerk'[c] # NoCall => clerk'[c].route \in RaceRoutes
  /\ \A r \in Requests : ~Update(r)
  /\ now' <= RaceTime
  /\ crashes' = 0

DeskInit == Init /\ desk \in SUBSET Clerks \ {{}}

Seated ==
  /\ \A c \in Clerks \ desk : clerk'[c] = NoCall
  /\ Alone \/ RaceStep
  /\ UNCHANGED desk

\* Next as far as nothing is queued for the worker.
DeskNext ==
  \/ \E c \in Clerks :
       \/ \E r \in Requests, call \in Calls : Read(c, r, call) /\ Seated
       \/ Resume(c) /\ Seated
       \/ ResumeThrows(c) /\ Seated
       \/ BeginTransaction(c) /\ Seated
       \/ Rollback(c) /\ Seated
       \/ Commit(c) /\ Seated
  \/ \E r \in Requests : Update(r) /\ Seated
  \/ Tick /\ Seated
  \/ Crash /\ Seated

DeskSpec == DeskInit /\ [][DeskNext]_deskVars

\* As long as no two calls are in flight at a time, an open case that is not on hold
\* has a running SLA clock, also over a crash between the resume write of a call
\* and its transaction.
ClockRunsAlone == Alone => OpenClockRuns

\* And then every change of the status follows STATUS_TRANSITIONS.
ValidatedAlone == [][Alone => ValidatedMove]_deskVars
=============================================================================
