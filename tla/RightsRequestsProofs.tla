------------------------ MODULE RightsRequestsProofs ------------------------
(***************************************************************************)
(* Theorems about RightsRequests, about its clerks at work without the     *)
(* worker (RightsDesk), and about the alerts (SlaMonitor), for any number  *)
(* of requests and clerks, any routes in use, and any bounds.              *)
(***************************************************************************)
EXTENDS RightsDesk, SlaMonitor, SequenceTheorems, TLAPS

(***************************************************************************)
(* The table of transitions.                                               *)
(***************************************************************************)
\* The table relates statuses.
LEMMA AllowedInStatus ==
  ASSUME NEW s, NEW t, Allowed(s, t)
  PROVE  s \in Status /\ t \in Status
BY DEF Allowed, StatusTransitions, Status

\* A case gets into hand only from the identity check or from in hand.
LEMMA IntoHand ==
  ASSUME NEW s, NEW t \in InHand, Allowed(s, t)
  PROVE  s \in InHand \union {"IN_VERIFICATION"}
BY DEF Allowed, StatusTransitions, InHand

\* Nothing leads back to RECEIVED.
LEMMA NotBackToReceived ==
  ASSUME NEW s
  PROVE  ~Allowed(s, "RECEIVED")
BY DEF Allowed, StatusTransitions

\* ACTION_TAKEN is entered from review or from escalation.
LEMMA IntoAction ==
  ASSUME NEW s, Allowed(s, "ACTION_TAKEN")
  PROVE  s \in {"IN_REVIEW", "ESCALATED"}
BY DEF Allowed, StatusTransitions

(***************************************************************************)
(* Type correctness.                                                       *)
(***************************************************************************)
LEMMA InitTypeOK == Init => TypeOK
<1> SUFFICES ASSUME Init
             PROVE  TypeOK
  OBVIOUS
<1>1. row \in [Requests -> Row]
  <2>1. ASSUME NEW r \in Requests
        PROVE  row[r] \in Row
    <3>1. row[r] \in [status : InitialStatuses, type : Types,
                     due : DueDates \union {NoTime}, pausedAt : {NoTime},
                     closed : {FALSE}]
      BY DEF Init
    <3>2. DueDates \union {NoTime} \subseteq Int
      BY ParametersAssumption DEF NoTime
    <3>3. InitialStatuses \subseteq Status
      BY ParametersAssumption
    <3>4. QED
      BY <3>1, <3>2, <3>3 DEF Row
  <2>2. QED
    BY <2>1 DEF Init
<1>2. visited \in [Requests -> SUBSET Status]
  BY <1>1 DEF Init, Row
<1>3. QED
  BY <1>1, <1>2 DEF Init, TypeOK

\* What Enter keeps of the type invariant.
LEMMA EnterType ==
  ASSUME TypeOK, NEW r \in Requests, NEW newRow \in Row, Enter(r, newRow)
  PROVE  /\ row' \in [Requests -> Row]
         /\ visited' \in [Requests -> SUBSET Status]
BY DEF TypeOK, Enter, Row

\* What Enqueue keeps of the type invariant.
LEMMA EnqueueType ==
  ASSUME TypeOK, NEW r \in Requests, NEW name \in JobName, Enqueue(r, name)
  PROVE  /\ queue' \in Seq(Job)
         /\ ordered' \in [Requests -> SUBSET JobName]
<1>1. [req |-> r, name |-> name, stalls |-> 0] \in Job
  BY DEF Job
<1>2. QED
  BY <1>1, AppendProperties DEF TypeOK, Enqueue

\* A call that is in flight is a record with a copy of a row.
LEMMA InFlightType ==
  ASSUME TypeOK, NEW c \in Clerks, clerk[c].pc \in {"read", "tx"}
  PROVE  /\ clerk[c] \in InFlight
         /\ clerk[c].req \in Requests
         /\ clerk[c].snap \in Row
         /\ clerk[c].target \in Status
         /\ row[clerk[c].req] \in Row
BY DEF TypeOK, NoCall, InFlight

\* A worker that is not idle holds a job.
LEMMA BusyType ==
  ASSUME TypeOK, worker.step # "idle"
  PROVE  worker \in Busy /\ worker.job \in Job /\ worker.job.req \in Requests
BY DEF TypeOK, NoJob, Busy, Job

LEMMA NextTypeOK == TypeOK /\ [Next]_vars => TypeOK'
<1> SUFFICES ASSUME TypeOK, [Next]_vars
             PROVE  TypeOK'
  OBVIOUS
<1> USE DEF caseVars, jobVars, workerVars, clockVars
<1>1. ASSUME NEW c \in Clerks, NEW r \in Requests, NEW call \in Calls,
             Read(c, r, call)
      PROVE  TypeOK'
  <2>1. call[1] \in AllRoutes /\ call[2] \in Status
    BY DEF Calls, UpdateStatus, Approve, Reject, Escalate, RequestMoreInfo,
           PartialFulfil, AllRoutes, Status
  <2>2. [pc |-> "read", route |-> call[1], target |-> call[2],
         req |-> r, snap |-> row[r]] \in InFlight
    BY <2>1 DEF TypeOK, InFlight
  <2>3. QED
    BY <1>1, <2>2 DEF Read, TypeOK
<1>2. ASSUME NEW c \in Clerks, Resume(c)
      PROVE  TypeOK'
  <2> DEFINE snap == clerk[c].snap
             due  == ResumedDue(c)
  <2>1. clerk[c] \in InFlight /\ clerk[c].req \in Requests /\ snap \in Row
        /\ row[clerk[c].req] \in Row
    BY <1>2, InFlightType DEF Resume
  <2>2. due \in Int
    BY <1>2, <2>1 DEF Resume, NeedsResume, ResumedDue, Row, TypeOK
  <2>3. row' \in [Requests -> Row] /\ visited' \in [Requests -> SUBSET Status]
    <3>1. [row[clerk[c].req] EXCEPT !.due = due, !.pausedAt = NoTime] \in Row
      BY <2>1, <2>2 DEF Row
    <3>2. QED
      BY <1>2, <2>1, <3>1, EnterType DEF Resume
  <2>4. clerk' \in [Clerks -> {NoCall} \union InFlight]
    <3>1. [snap EXCEPT !.due = due, !.pausedAt = NoTime] \in Row
      BY <2>1, <2>2 DEF Row
    <3>2. [clerk[c] EXCEPT !.snap = [snap EXCEPT !.due = due, !.pausedAt = NoTime]]
            \in InFlight
      BY <2>1, <3>1 DEF InFlight
    <3>3. clerk' = [clerk EXCEPT ![c] = [clerk[c] EXCEPT
                      !.snap = [snap EXCEPT !.due = due, !.pausedAt = NoTime]]]
      BY <1>2, <2>1 DEF Resume, TypeOK, InFlight, Row
    <3>4. QED
      BY <3>2, <3>3 DEF TypeOK
  <2>5. QED
    BY <1>2, <2>3, <2>4 DEF Resume, TypeOK
<1>3. ASSUME NEW c \in Clerks, ResumeThrows(c)
      PROVE  TypeOK'
  BY <1>3 DEF ResumeThrows, Finish, TypeOK
<1>4. ASSUME NEW c \in Clerks, BeginTransaction(c)
      PROVE  TypeOK'
  <2>1. clerk[c] \in InFlight /\ clerk[c].req \in Requests
    BY <1>4, InFlightType DEF BeginTransaction, Ready
  <2>2. clerk' \in [Clerks -> {NoCall} \union InFlight]
    BY <1>4, <2>1 DEF BeginTransaction, TypeOK, InFlight
  <2>3. queue' \in Seq(Job) /\ ordered' \in [Requests -> SUBSET JobName]
    <3>1. CASE UNCHANGED jobVars
      BY <3>1 DEF TypeOK
    <3>2. CASE Enqueue(clerk[c].req, "process-erasure")
      BY <3>2, <2>1, EnqueueType DEF JobName
    <3>3. CASE /\ ordered' = [ordered EXCEPT ![clerk[c].req] = @ \union {"dsar-pack"}]
               /\ UNCHANGED queue
      BY <3>3, <2>1 DEF TypeOK, JobName
    <3>4. QED
      BY <1>4, <3>1, <3>2, <3>3 DEF BeginTransaction
  <2>4. QED
    BY <1>4, <2>2, <2>3 DEF BeginTransaction, TypeOK
<1>5. ASSUME NEW c \in Clerks, Rollback(c)
      PROVE  TypeOK'
  BY <1>5 DEF Rollback, Finish, TypeOK
<1>6. ASSUME NEW c \in Clerks, Commit(c)
      PROVE  TypeOK'
  <2>1. clerk[c].req \in Requests /\ clerk[c].target \in Status
        /\ row[clerk[c].req] \in Row
    BY <1>6, InFlightType DEF Commit
  <2>2. PICK pause \in BOOLEAN :
          Enter(clerk[c].req, [row[clerk[c].req] EXCEPT
                 !.status = clerk[c].target,
                 !.closed = @ \/ Closes(clerk[c].target),
                 !.pausedAt = IF pause THEN PausedAt ELSE @])
    BY <1>6 DEF Commit
  <2>3. row' \in [Requests -> Row] /\ visited' \in [Requests -> SUBSET Status]
    BY <2>1, <2>2, EnterType DEF Row, TypeOK, Closes, PausedAt
  <2>4. QED
    BY <1>6, <2>3 DEF Commit, Finish, TypeOK
<1>7. ASSUME NEW r \in Requests, GenerateExtract(r)
      PROVE  TypeOK'
  BY <1>7, EnqueueType DEF GenerateExtract, TypeOK, JobName
<1>8. ASSUME NEW r \in Requests, Update(r)
      PROVE  TypeOK'
  <2>1. PICK type \in Types, due \in DueDates \union {row[r].due} :
          Enter(r, [row[r] EXCEPT !.type = type, !.due = due])
    BY <1>8 DEF Update
  <2>2. row[r] \in Row /\ due \in Int
    BY ParametersAssumption DEF TypeOK, Row
  <2>3. [row[r] EXCEPT !.type = type, !.due = due] \in Row
    BY <2>2 DEF Row
  <2>4. row' \in [Requests -> Row] /\ visited' \in [Requests -> SUBSET Status]
    BY <2>1, <2>3, EnterType
  <2>5. QED
    BY <1>8, <2>4 DEF Update, TypeOK
<1>9. CASE TakeJob
  <2>1. Head(queue) \in Job /\ Tail(queue) \in Seq(Job)
    BY <1>9, HeadTailProperties DEF TakeJob, TypeOK
  <2>2. QED
    BY <1>9, <2>1 DEF TakeJob, TypeOK, Busy
<1>10. CASE ScrubConsents \/ ScrubGrievances \/ SendErasureConfirmation
  <2>1. worker \in Busy /\ worker.job.req \in Requests
    BY <1>10, BusyType
       DEF ScrubConsents, ScrubGrievances, Scrub, SendErasureConfirmation
  <2>2. QED
    BY <1>10, <2>1
       DEF ScrubConsents, ScrubGrievances, Scrub, SendErasureConfirmation,
           TypeOK, Busy, Tables
<1>11. CASE CloseErased
  <2>1. worker.job.req \in Requests /\ row[worker.job.req] \in Row
    BY <1>11, BusyType DEF CloseErased, TypeOK
  <2>2. [row[worker.job.req] EXCEPT !.status = "COMPLETED", !.closed = TRUE] \in Row
    BY <2>1 DEF Row, Status
  <2>3. row' \in [Requests -> Row] /\ visited' \in [Requests -> SUBSET Status]
    BY <1>11, <2>1, <2>2, EnterType DEF CloseErased
  <2>4. QED
    BY <1>11, <2>3 DEF CloseErased, TypeOK
<1>12. CASE JobFails
  <2>1. worker.job.req \in Requests
    BY <1>12 DEF JobFails, TypeOK, Busy, Job
  <2>2. QED
    BY <1>12, <2>1 DEF JobFails, TypeOK
<1>13. CASE Tick
  BY <1>13 DEF Tick, TypeOK
<1>14. CASE Crash
  <2>1. CASE worker = NoJob
    BY <1>14, <2>1 DEF Crash, TypeOK
  <2>2. CASE worker # NoJob
    <3>1. worker \in Busy /\ worker.job \in Job /\ worker.job.req \in Requests
      BY <2>2 DEF TypeOK, Busy, Job
    <3>2. <<[worker.job EXCEPT !.stalls = 1]>> \o queue \in Seq(Job)
      <4>1. [worker.job EXCEPT !.stalls = 1] \in Job
        BY <3>1 DEF Job
      <4>2. <<[worker.job EXCEPT !.stalls = 1]>> \in Seq(Job)
        BY <4>1
      <4>3. QED
        BY <4>2, ConcatProperties DEF TypeOK
    <3>3. queue' \in Seq(Job) /\ failed' \subseteq Requests
      BY <1>14, <2>2, <3>1, <3>2 DEF Crash, TypeOK
    <3>4. QED
      BY <1>14, <3>3 DEF Crash, TypeOK
  <2>3. QED
    BY <2>1, <2>2
<1>15. CASE UNCHANGED vars
  BY <1>15 DEF vars, TypeOK
<1>16. QED
  BY <1>1, <1>2, <1>3, <1>4, <1>5, <1>6, <1>7, <1>8, <1>9, <1>10, <1>11,
     <1>12, <1>13, <1>14, <1>15 DEF Next, Running, CallStep, WorkerStep

\* The rows, calls, jobs and histories keep their types.
THEOREM TypeCorrect == Spec => []TypeOK
BY InitTypeOK, NextTypeOK, PTL DEF Spec

(***************************************************************************)
(* The service implements RightsLifecycle.  A stale copy is harmless to    *)
(* that promise because a row never forgets: the status a call has read,   *)
(* however long ago, is one the row has been in.                           *)
(***************************************************************************)
CopiesAreVisited ==
  /\ \A r \in Requests : row[r].status \in visited[r]
  /\ \A c \in Clerks :
       clerk[c].pc \in {"read", "tx"} =>
         /\ clerk[c].snap.status \in visited[clerk[c].req]
         /\ Allowed(clerk[c].snap.status, clerk[c].target)

\* Entering a status adds it to the history of the row and of no other.
LEMMA EnterVisited ==
  ASSUME TypeOK, CopiesAreVisited, NEW r \in Requests, NEW newRow \in Row,
         Enter(r, newRow)
  PROVE  /\ \A q \in Requests : /\ visited[q] \subseteq visited'[q]
                               /\ row'[q].status \in visited'[q]
BY DEF TypeOK, CopiesAreVisited, Enter

\* An idle call has no copy, and stays so until it reads.
LEMMA CallsKeep ==
  ASSUME TypeOK, CopiesAreVisited,
         \A q \in Requests : visited[q] \subseteq visited'[q],
         \A q \in Requests : row'[q].status \in visited'[q],
         \A c \in Clerks :
           \/ clerk'[c].pc \notin {"read", "tx"}
           \/ /\ clerk[c].pc \in {"read", "tx"}
              /\ clerk'[c].req = clerk[c].req
              /\ clerk'[c].target = clerk[c].target
              /\ clerk'[c].snap.status = clerk[c].snap.status
  PROVE  CopiesAreVisited'
<1>1. ASSUME NEW c \in Clerks, clerk'[c].pc \in {"read", "tx"}
      PROVE  /\ clerk'[c].snap.status \in visited'[clerk'[c].req]
             /\ Allowed(clerk'[c].snap.status, clerk'[c].target)
  <2>1. /\ clerk[c].pc \in {"read", "tx"}
        /\ clerk'[c].req = clerk[c].req
        /\ clerk'[c].target = clerk[c].target
        /\ clerk'[c].snap.status = clerk[c].snap.status
    BY <1>1
  <2>2. clerk[c].req \in Requests
    BY <2>1, InFlightType
  <2>3. /\ clerk[c].snap.status \in visited[clerk[c].req]
        /\ Allowed(clerk[c].snap.status, clerk[c].target)
    BY <2>1 DEF CopiesAreVisited
  <2>4. QED
    BY <2>1, <2>2, <2>3
<1>2. QED
  BY <1>1 DEF CopiesAreVisited

LEMMA NextCopies ==
  TypeOK /\ CopiesAreVisited /\ [Next]_vars => CopiesAreVisited'
<1> SUFFICES ASSUME TypeOK, CopiesAreVisited, [Next]_vars
             PROVE  CopiesAreVisited'
  OBVIOUS
<1> USE DEF caseVars, jobVars, workerVars, clockVars
<1>0. \A q \in Requests : row[q].status \in visited[q]
  BY DEF CopiesAreVisited
<1>1. ASSUME NEW c \in Clerks, NEW r \in Requests, NEW call \in Calls,
             Read(c, r, call)
      PROVE  CopiesAreVisited'
  <2>1. clerk'[c].req = r /\ clerk'[c].snap = row[r]
        /\ clerk'[c].target = call[2]
    BY <1>1 DEF Read, TypeOK
  <2>2. \A d \in Clerks : d # c => clerk'[d] = clerk[d]
    BY <1>1 DEF Read, TypeOK
  <2>3. Allowed(row[r].status, call[2]) /\ UNCHANGED caseVars
    BY <1>1 DEF Read
  <2>4. QED
    BY <2>1, <2>2, <2>3 DEF CopiesAreVisited
<1>2. ASSUME NEW c \in Clerks, Resume(c)
      PROVE  CopiesAreVisited'
  <2> DEFINE snap == clerk[c].snap
             due  == ResumedDue(c)
  <2>1. clerk[c] \in InFlight /\ clerk[c].req \in Requests /\ snap \in Row
        /\ row[clerk[c].req] \in Row /\ due \in Int
    BY <1>2, InFlightType DEF Resume, NeedsResume, ResumedDue, Row, TypeOK
  <2>2. [row[clerk[c].req] EXCEPT !.due = due, !.pausedAt = NoTime] \in Row
    BY <2>1 DEF Row
  <2>3. \A q \in Requests : visited[q] \subseteq visited'[q]
                          /\ row'[q].status \in visited'[q]
    BY <1>2, <2>1, <2>2, EnterVisited DEF Resume
  <2>4. /\ clerk[c].pc \in {"read", "tx"}
        /\ clerk'[c].req = clerk[c].req
        /\ clerk'[c].target = clerk[c].target
        /\ clerk'[c].snap.status = clerk[c].snap.status
        /\ \A d \in Clerks : d # c => clerk'[d] = clerk[d]
    BY <1>2, <2>1 DEF Resume, TypeOK, InFlight, Row
  <2>5. \A d \in Clerks :
           \/ clerk'[d].pc \notin {"read", "tx"}
           \/ /\ clerk[d].pc \in {"read", "tx"}
              /\ clerk'[d].req = clerk[d].req
              /\ clerk'[d].target = clerk[d].target
              /\ clerk'[d].snap.status = clerk[d].snap.status
    BY <2>4
  <2>6. QED
    BY <2>3, <2>5, CallsKeep
<1>3. ASSUME NEW c \in Clerks, BeginTransaction(c)
      PROVE  CopiesAreVisited'
  <2>1. clerk[c] \in InFlight /\ clerk[c].pc \in {"read", "tx"}
    BY <1>3, InFlightType DEF BeginTransaction, Ready
  <2>2. \A d \in Clerks :
           \/ clerk'[d].pc \notin {"read", "tx"}
           \/ /\ clerk[d].pc \in {"read", "tx"}
              /\ clerk'[d].req = clerk[d].req
              /\ clerk'[d].target = clerk[d].target
              /\ clerk'[d].snap.status = clerk[d].snap.status
    BY <1>3, <2>1 DEF BeginTransaction, TypeOK, InFlight
  <2>3. QED
    BY <1>0, <1>3, <2>2, CallsKeep DEF BeginTransaction
<1>4. ASSUME NEW c \in Clerks, UNCHANGED caseVars, Finish(c)
      PROVE  CopiesAreVisited'
  <2>1. \A d \in Clerks : clerk'[d] = clerk[d] \/ clerk'[d] = NoCall
    BY <1>4 DEF Finish, TypeOK
  <2>2. QED
    BY <1>0, <1>4, <2>1, CallsKeep DEF NoCall
<1>5. ASSUME NEW c \in Clerks, Commit(c)
      PROVE  CopiesAreVisited'
  <2>1. clerk[c].req \in Requests /\ clerk[c].target \in Status
        /\ row[clerk[c].req] \in Row
    BY <1>5, InFlightType DEF Commit
  <2>2. PICK pause \in BOOLEAN :
          Enter(clerk[c].req, [row[clerk[c].req] EXCEPT
                 !.status = clerk[c].target,
                 !.closed = @ \/ Closes(clerk[c].target),
                 !.pausedAt = IF pause THEN PausedAt ELSE @])
    BY <1>5 DEF Commit
  <2>3. \A q \in Requests : visited[q] \subseteq visited'[q]
                          /\ row'[q].status \in visited'[q]
    BY <2>1, <2>2, EnterVisited DEF Row, TypeOK, Closes, PausedAt
  <2>4. \A d \in Clerks : clerk'[d] = clerk[d] \/ clerk'[d] = NoCall
    BY <1>5 DEF Commit, Finish, TypeOK
  <2>5. QED
    BY <2>3, <2>4, CallsKeep DEF NoCall
<1>6. ASSUME NEW r \in Requests, Update(r)
      PROVE  CopiesAreVisited'
  <2>1. PICK type \in Types, due \in DueDates \union {row[r].due} :
          Enter(r, [row[r] EXCEPT !.type = type, !.due = due])
    BY <1>6 DEF Update
  <2>2. row[r] \in Row /\ due \in Int
    BY ParametersAssumption DEF TypeOK, Row
  <2>3. [row[r] EXCEPT !.type = type, !.due = due] \in Row
    BY <2>2 DEF Row
  <2>4. \A q \in Requests : visited[q] \subseteq visited'[q]
                          /\ row'[q].status \in visited'[q]
    BY <2>1, <2>3, EnterVisited
  <2>5. QED
    BY <1>6, <2>4, CallsKeep DEF Update
<1>7. CASE CloseErased
  <2>1. worker.job.req \in Requests /\ row[worker.job.req] \in Row
    BY <1>7, BusyType DEF CloseErased, TypeOK
  <2>2. [row[worker.job.req] EXCEPT !.status = "COMPLETED", !.closed = TRUE] \in Row
    BY <2>1 DEF Row, Status
  <2>3. \A q \in Requests : visited[q] \subseteq visited'[q]
                          /\ row'[q].status \in visited'[q]
    BY <1>7, <2>1, <2>2, EnterVisited DEF CloseErased
  <2>4. QED
    BY <1>7, <2>3, CallsKeep DEF CloseErased
<1>8. CASE UNCHANGED <<caseVars, clerk>>
  BY <1>8 DEF CopiesAreVisited
<1>9. CASE Crash
  BY <1>9, <1>0, CallsKeep DEF Crash, NoCall
<1>10. ASSUME NEW r \in Requests, GenerateExtract(r)
       PROVE  UNCHANGED <<caseVars, clerk>>
  BY <1>10 DEF GenerateExtract
<1>11. ASSUME \/ TakeJob \/ ScrubConsents \/ ScrubGrievances
              \/ SendErasureConfirmation \/ JobFails \/ Tick \/ UNCHANGED vars
       PROVE  UNCHANGED <<caseVars, clerk>>
  BY <1>11 DEF TakeJob, ScrubConsents, ScrubGrievances, Scrub,
               SendErasureConfirmation, JobFails, Tick, vars
<1>12. ASSUME NEW c \in Clerks, ResumeThrows(c) \/ Rollback(c)
       PROVE  UNCHANGED caseVars /\ Finish(c)
  BY <1>12 DEF ResumeThrows, Rollback
<1>13. QED
  BY <1>1, <1>2, <1>3, <1>4, <1>5, <1>6, <1>7, <1>8, <1>9, <1>10, <1>11, <1>12
     DEF Next, Running, CallStep, WorkerStep

LEMMA InitCopies == Init => CopiesAreVisited
BY DEF Init, CopiesAreVisited, NoCall

(***************************************************************************)
(* Every step of the service is a step of RightsLifecycle, or none.        *)
(***************************************************************************)
\* The jobs the erasure worker takes, by name.
ErasureJobs == {"process-erasure", "generate-dsar-extract"}

\* A job that waits or is held was queued on behalf of its request.
JobsAreOrdered ==
  /\ \A i \in DOMAIN queue : queue[i].name \in ErasureJobs \cap ordered[queue[i].req]
  /\ worker.step # "idle" =>
       worker.job.name \in ErasureJobs \cap ordered[worker.job.req]

\* What waits on the queue is a job about some request.
LEMMA QueuedType ==
  ASSUME TypeOK, NEW i \in DOMAIN queue
  PROVE  queue[i] \in Job /\ queue[i].req \in Requests
<1>1. queue \in Seq(Job) /\ i \in 1 .. Len(queue)
  BY DEF TypeOK
<1>2. queue[i] \in Job
  BY <1>1, ElementOfSeq
<1>3. QED
  BY <1>2 DEF Job

\* Queueing keeps what was queued before.
LEMMA EnqueueOrdered ==
  ASSUME TypeOK, JobsAreOrdered, UNCHANGED worker,
         NEW r \in Requests, NEW name \in ErasureJobs, Enqueue(r, name)
  PROVE  JobsAreOrdered'
<1> DEFINE job == [req |-> r, name |-> name, stalls |-> 0]
<1>1. \A q \in Requests : ordered[q] \subseteq ordered'[q]
  BY DEF Enqueue, TypeOK
<1>2. name \in ordered'[r]
  BY DEF Enqueue, TypeOK
<1>3. ASSUME NEW i \in DOMAIN queue'
      PROVE  queue'[i].name \in ErasureJobs \cap ordered'[queue'[i].req]
  <2>1. job \in Job /\ queue \in Seq(Job) /\ queue' = Append(queue, job)
    BY DEF Job, JobName, ErasureJobs, Enqueue, TypeOK
  <2>2. CASE i = Len(queue) + 1
    BY <1>2, <2>1, <2>2
  <2>3. CASE i # Len(queue) + 1
    <3>1. i \in DOMAIN queue /\ queue'[i] = queue[i]
      BY <2>1, <2>3
    <3>2. queue[i].req \in Requests
      BY <3>1, QueuedType
    <3>3. QED
      BY <1>1, <3>1, <3>2 DEF JobsAreOrdered
  <2>4. QED
    BY <2>2, <2>3
<1>4. worker'.step # "idle" =>
        worker'.job.name \in ErasureJobs \cap ordered'[worker'.job.req]
  BY <1>1, BusyType DEF JobsAreOrdered
<1>5. QED
  BY <1>3, <1>4 DEF JobsAreOrdered

LEMMA NextOrdered == TypeOK /\ JobsAreOrdered /\ [Next]_vars => JobsAreOrdered'
<1> SUFFICES ASSUME TypeOK, JobsAreOrdered, [Next]_vars
             PROVE  JobsAreOrdered'
  OBVIOUS
<1> USE DEF caseVars, jobVars, workerVars, clockVars
<1>1. CASE UNCHANGED <<queue, ordered, worker>>
  BY <1>1 DEF JobsAreOrdered
<1>2. ASSUME NEW c \in Clerks, BeginTransaction(c)
      PROVE  JobsAreOrdered'
  <2>1. clerk[c].req \in Requests /\ UNCHANGED worker
    BY <1>2, InFlightType DEF BeginTransaction, Ready
  <2>2. CASE Enqueue(clerk[c].req, "process-erasure")
    BY <2>1, <2>2, EnqueueOrdered DEF ErasureJobs
  <2>3. CASE /\ ordered' = [ordered EXCEPT ![clerk[c].req] = @ \union {"dsar-pack"}]
             /\ UNCHANGED queue
    <3>1. \A q \in Requests : ordered[q] \subseteq ordered'[q]
      BY <2>1, <2>3 DEF TypeOK
    <3>2. \A i \in DOMAIN queue : queue[i].req \in Requests
      BY QueuedType
    <3>3. QED
      BY <2>1, <2>3, <3>1, <3>2, BusyType DEF JobsAreOrdered
  <2>4. CASE UNCHANGED jobVars
    BY <2>1, <2>4 DEF JobsAreOrdered
  <2>5. QED
    BY <1>2, <2>2, <2>3, <2>4 DEF BeginTransaction
<1>3. ASSUME NEW r \in Requests, GenerateExtract(r)
      PROVE  JobsAreOrdered'
  BY <1>3, EnqueueOrdered DEF GenerateExtract, ErasureJobs
<1>4. CASE TakeJob
  <2>1. queue \in Seq(Job) /\ queue # <<>>
    BY <1>4 DEF TakeJob, TypeOK
  <2>2. 1 \in DOMAIN queue /\ Head(queue) = queue[1]
    BY <2>1
  <2>3. \A i \in DOMAIN Tail(queue) :
          i + 1 \in DOMAIN queue /\ Tail(queue)[i] = queue[i + 1]
    BY <2>1
  <2>4. queue' = Tail(queue) /\ ordered' = ordered
        /\ worker'.job = Head(queue)
    BY <1>4 DEF TakeJob
  <2>5. QED
    BY <2>2, <2>3, <2>4 DEF JobsAreOrdered
<1>5. CASE ScrubConsents \/ ScrubGrievances \/ SendErasureConfirmation
  <2>1. worker.step # "idle" /\ worker'.job = worker.job
        /\ UNCHANGED jobVars
    BY <1>5 DEF ScrubConsents, ScrubGrievances, Scrub, SendErasureConfirmation,
                TypeOK, NoJob, Busy
  <2>2. QED
    BY <2>1 DEF JobsAreOrdered
<1>6. CASE CloseErased \/ JobFails
  BY <1>6 DEF CloseErased, JobFails, JobsAreOrdered, NoJob
<1>7. CASE Crash
  <2>1. worker' = NoJob /\ UNCHANGED ordered
    BY <1>7 DEF Crash
  <2>2. CASE UNCHANGED queue
    BY <2>1, <2>2 DEF JobsAreOrdered, NoJob
  <2>3. CASE queue' # queue
    <3> DEFINE job == [worker.job EXCEPT !.stalls = 1]
    <3>1. worker # NoJob /\ queue' = <<job>> \o queue
      BY <1>7, <2>3 DEF Crash
    <3>2. worker \in Busy /\ worker.job \in Job
      BY <3>1 DEF TypeOK, Busy
    <3>3. job.name = worker.job.name /\ job.req = worker.job.req /\ job \in Job
      BY <3>2 DEF Job
    <3>4. job.name \in ErasureJobs \cap ordered[job.req]
      BY <3>2, <3>3 DEF JobsAreOrdered, Busy
    <3>5. ASSUME NEW i \in DOMAIN queue'
          PROVE  queue'[i].name \in ErasureJobs \cap ordered[queue'[i].req]
      <4>1. queue \in Seq(Job)
        BY DEF TypeOK
      <4>2. CASE i = 1
        <5>1. queue'[1] = job
          BY <3>1, <3>3, <4>1
        <5>2. QED
          BY <3>4, <4>2, <5>1
      <4>3. CASE i # 1
        <5>1. i - 1 \in DOMAIN queue /\ queue'[i] = queue[i - 1]
          BY <3>1, <4>1, <4>3
        <5>2. QED
          BY <5>1 DEF JobsAreOrdered
      <4>4. QED
        BY <4>2, <4>3
    <3>6. QED
      BY <2>1, <3>5 DEF JobsAreOrdered, NoJob
  <2>4. QED
    BY <2>2, <2>3
<1>8. ASSUME NEW c \in Clerks,
             \/ \E r \in Requests, call \in Calls : Read(c, r, call)
             \/ Resume(c) \/ ResumeThrows(c) \/ Rollback(c) \/ Commit(c)
      PROVE  UNCHANGED <<queue, ordered, worker>>
  BY <1>8 DEF Read, Resume, ResumeThrows, Rollback, Commit
<1>9. ASSUME \/ \E r \in Requests : Update(r)
             \/ Tick \/ UNCHANGED vars
      PROVE  UNCHANGED <<queue, ordered, worker>>
  BY <1>9 DEF Update, Tick, vars
<1>10. QED
  BY <1>1, <1>2, <1>3, <1>4, <1>5, <1>6, <1>7, <1>8, <1>9
     DEF Next, Running, CallStep, WorkerStep

\* What RightsLifecycle sees of a state.
LEMMA SameTable ==
  /\ \A s, t : Allowed(s, t) <=> Lifecycle!Allowed(s, t)
  /\ Status = Lifecycle!Status
BY DEF Allowed, Lifecycle!Allowed, StatusTransitions,
       Lifecycle!StatusTransitions, Status, Lifecycle!Status

\* Entering a status is what it is to RightsLifecycle.
LEMMA EnterMaps ==
  ASSUME TypeOK, NEW r \in Requests, NEW newRow \in Row, Enter(r, newRow)
  PROVE  Lifecycle!Enter(r, newRow.status)
BY DEF TypeOK, Enter, Lifecycle!Enter

\* Writing a row and leaving its status changes nothing RightsLifecycle sees.
LEMMA EnterStutters ==
  ASSUME TypeOK, CopiesAreVisited, NEW r \in Requests, NEW newRow \in Row,
         Enter(r, newRow), newRow.status = row[r].status, UNCHANGED ordered
  PROVE  UNCHANGED Lifecycle!vars
<1>1. \A q \in Requests : row'[q].status = row[q].status
  BY DEF TypeOK, Enter
<1>2. visited' = visited
  BY DEF TypeOK, Enter, CopiesAreVisited
<1>3. QED
  BY <1>1, <1>2 DEF Lifecycle!vars

\* Queueing a job of the erasure queue is a step of RightsLifecycle.
LEMMA EnqueueMaps ==
  ASSUME TypeOK, UNCHANGED caseVars, NEW r \in Requests,
         NEW name \in ErasureJobs, Enqueue(r, name)
  PROVE  Lifecycle!QueueErasure(r)
<1>1. ordered' = [ordered EXCEPT ![r] = @ \union {name}]
  BY DEF Enqueue
<1>2. \A q \in Requests : ordered'[q] = IF q = r THEN ordered[q] \union {name}
                                                ELSE ordered[q]
  BY <1>1 DEF TypeOK
<1>3. {q \in Requests : ordered'[q] \cap ErasureJobs # {}}
        = {q \in Requests : ordered[q] \cap ErasureJobs # {}} \union {r}
  BY <1>2
<1>4. QED
  BY <1>3 DEF Lifecycle!QueueErasure, ErasureJobs, caseVars

LEMMA LifecycleStep ==
  TypeOK /\ CopiesAreVisited /\ JobsAreOrdered /\ [Next]_vars
    => [Lifecycle!Next]_(Lifecycle!vars)
<1> SUFFICES ASSUME TypeOK, CopiesAreVisited, JobsAreOrdered, [Next]_vars
             PROVE  [Lifecycle!Next]_(Lifecycle!vars)
  OBVIOUS
<1> USE DEF caseVars, jobVars, workerVars, clockVars
<1>1. CASE UNCHANGED <<row, visited, ordered>>
  BY <1>1 DEF Lifecycle!vars
<1>2. ASSUME NEW c \in Clerks, Resume(c)
      PROVE  UNCHANGED Lifecycle!vars
  <2>1. clerk[c] \in InFlight /\ clerk[c].req \in Requests
        /\ row[clerk[c].req] \in Row /\ ResumedDue(c) \in Int
    BY <1>2, InFlightType DEF Resume, NeedsResume, ResumedDue, Row, TypeOK
  <2> DEFINE newRow == [row[clerk[c].req] EXCEPT !.due = ResumedDue(c),
                                                 !.pausedAt = NoTime]
  <2>2. newRow \in Row /\ newRow.status = row[clerk[c].req].status
    BY <2>1 DEF Row
  <2>3. Enter(clerk[c].req, newRow) /\ UNCHANGED ordered
    BY <1>2 DEF Resume
  <2>4. QED
    BY <2>1, <2>2, <2>3, EnterStutters
<1>3. ASSUME NEW c \in Clerks, BeginTransaction(c)
      PROVE  [Lifecycle!Next]_(Lifecycle!vars)
  <2>1. clerk[c].req \in Requests /\ UNCHANGED <<row, visited>>
    BY <1>3, InFlightType DEF BeginTransaction, Ready
  <2>2. CASE Enqueue(clerk[c].req, "process-erasure")
    BY <2>1, <2>2, EnqueueMaps DEF ErasureJobs, Lifecycle!Next
  <2>3. CASE ordered' = [ordered EXCEPT ![clerk[c].req] = @ \union {"dsar-pack"}]
    <3>1. \A q \in Requests : ordered'[q] \cap ErasureJobs = ordered[q] \cap ErasureJobs
      BY <2>1, <2>3 DEF TypeOK, ErasureJobs
    <3>2. QED
      BY <2>1, <3>1 DEF Lifecycle!vars, ErasureJobs
  <2>4. CASE UNCHANGED ordered
    BY <2>1, <2>4, <1>1
  <2>5. QED
    BY <1>3, <2>2, <2>3, <2>4 DEF BeginTransaction
<1>4. ASSUME NEW c \in Clerks, Commit(c)
      PROVE  Lifecycle!Next
  <2>1. /\ clerk[c].req \in Requests /\ clerk[c].target \in Status
        /\ row[clerk[c].req] \in Row
        /\ clerk[c].snap.status \in visited[clerk[c].req]
        /\ Allowed(clerk[c].snap.status, clerk[c].target)
    BY <1>4, InFlightType DEF Commit, CopiesAreVisited
  <2>2. PICK pause \in BOOLEAN :
          Enter(clerk[c].req, [row[clerk[c].req] EXCEPT
                 !.status = clerk[c].target,
                 !.closed = @ \/ Closes(clerk[c].target),
                 !.pausedAt = IF pause THEN PausedAt ELSE @])
    BY <1>4 DEF Commit
  <2> DEFINE newRow == [row[clerk[c].req] EXCEPT
                 !.status = clerk[c].target,
                 !.closed = @ \/ Closes(clerk[c].target),
                 !.pausedAt = IF pause THEN PausedAt ELSE @]
  <2>3. newRow \in Row /\ newRow.status = clerk[c].target
    BY <2>1 DEF Row, TypeOK, Closes, PausedAt
  <2>4. Lifecycle!Enter(clerk[c].req, clerk[c].target)
    <3>1. Enter(clerk[c].req, newRow)
      BY <2>2
    <3> HIDE DEF newRow
    <3>2. Lifecycle!Enter(clerk[c].req, newRow.status)
      BY <2>1, <2>3, <3>1, EnterMaps DEF Enter, Lifecycle!Enter
    <3>3. QED
      BY <2>3, <3>2 DEF Lifecycle!Enter
  <2>5. UNCHANGED ordered
    BY <1>4 DEF Commit
  <2>6. Lifecycle!Move(clerk[c].req, clerk[c].target)
    BY <2>1, <2>4, <2>5, SameTable DEF Lifecycle!Move
  <2>7. clerk[c].target \in Lifecycle!Status
    BY <2>1, SameTable
  <2>8. \E r \in Requests : \E t \in Lifecycle!Status : Lifecycle!Move(r, t)
    <3> HIDE DEF newRow
    <3>1. QED
      BY <2>1, <2>6, <2>7 DEF Lifecycle!Move, Lifecycle!Enter
  <2>9. QED
    BY <2>8 DEF Lifecycle!Next
<1>5. ASSUME NEW r \in Requests, GenerateExtract(r)
      PROVE  Lifecycle!Next
  BY <1>5, EnqueueMaps DEF GenerateExtract, ErasureJobs, Lifecycle!Next
<1>6. ASSUME NEW r \in Requests, Update(r)
      PROVE  UNCHANGED Lifecycle!vars
  <2>1. PICK type \in Types, due \in DueDates \union {row[r].due} :
          Enter(r, [row[r] EXCEPT !.type = type, !.due = due])
    BY <1>6 DEF Update
  <2>2. row[r] \in Row /\ due \in Int
    BY ParametersAssumption DEF TypeOK, Row
  <2> DEFINE newRow == [row[r] EXCEPT !.type = type, !.due = due]
  <2>3. newRow \in Row /\ newRow.status = row[r].status
    BY <2>2 DEF Row
  <2>4. UNCHANGED ordered
    BY <1>6 DEF Update
  <2>5. QED
    BY <2>1, <2>3, <2>4, EnterStutters
<1>7. CASE CloseErased
  <2> DEFINE r == worker.job.req
  <2>1. r \in Requests /\ row[r] \in Row /\ worker.step # "idle"
    BY <1>7, BusyType DEF CloseErased, TypeOK
  <2> DEFINE newRow == [row[r] EXCEPT !.status = "COMPLETED", !.closed = TRUE]
  <2>2. newRow \in Row /\ newRow.status = "COMPLETED"
    BY <2>1 DEF Row, Status
  <2>3. Lifecycle!Enter(r, "COMPLETED") /\ UNCHANGED ordered
    BY <1>7, <2>1, <2>2, EnterMaps DEF CloseErased
  <2>4. ordered[r] \cap ErasureJobs # {}
    BY <2>1 DEF JobsAreOrdered
  <2>5. Lifecycle!CloseErased(r)
    BY <2>1, <2>3, <2>4 DEF Lifecycle!CloseErased, ErasureJobs
  <2>6. \E q \in Requests : Lifecycle!CloseErased(q)
    <3> HIDE DEF newRow, r
    <3>1. QED
      BY <2>1, <2>5 DEF Lifecycle!CloseErased, Lifecycle!Enter
  <2>7. QED
    BY <2>6 DEF Lifecycle!Next
<1>8. ASSUME NEW c \in Clerks,
             \/ \E r \in Requests, call \in Calls : Read(c, r, call)
             \/ ResumeThrows(c) \/ Rollback(c)
      PROVE  UNCHANGED <<row, visited, ordered>>
  BY <1>8 DEF Read, ResumeThrows, Rollback
<1>9. ASSUME \/ TakeJob \/ ScrubConsents \/ ScrubGrievances
             \/ SendErasureConfirmation \/ JobFails \/ Tick \/ Crash
             \/ UNCHANGED vars
      PROVE  UNCHANGED <<row, visited, ordered>>
  BY <1>9 DEF TakeJob, ScrubConsents, ScrubGrievances, Scrub,
              SendErasureConfirmation, JobFails, Tick, Crash, vars
<1>10. QED
  BY <1>1, <1>2, <1>3, <1>4, <1>5, <1>6, <1>7, <1>8, <1>9
     DEF Next, Running, CallStep, WorkerStep

LEMMA InitLifecycle == Init => Lifecycle!Init /\ JobsAreOrdered
<1> SUFFICES ASSUME Init
             PROVE  Lifecycle!Init /\ JobsAreOrdered
  OBVIOUS
<1>1. [r \in Requests |-> row[r].status] \in [Requests -> InitialStatuses]
  BY DEF Init
<1>2. visited = [r \in Requests |-> {[q \in Requests |-> row[q].status][r]}]
  BY DEF Init
<1>3. {r \in Requests :
         ordered[r] \cap {"process-erasure", "generate-dsar-extract"} # {}} = {}
  BY DEF Init
<1>4. JobsAreOrdered
  BY DEF Init, JobsAreOrdered, NoJob
<1>5. QED
  BY <1>1, <1>2, <1>3, <1>4 DEF Lifecycle!Init

\* Whatever calls race, a row moves only to a successor of a status it has
\* had, and is completed out of turn only by an erasure job queued for it.
THEOREM ImplementsLifecycle == Spec => LifecycleSpec
<1>1. Init => Lifecycle!Init /\ TypeOK /\ CopiesAreVisited /\ JobsAreOrdered
  BY InitTypeOK, InitCopies, InitLifecycle
<1>2. TypeOK /\ CopiesAreVisited /\ JobsAreOrdered /\ [Next]_vars
        => /\ TypeOK' /\ CopiesAreVisited' /\ JobsAreOrdered'
           /\ [Lifecycle!Next]_(Lifecycle!vars)
  BY NextTypeOK, NextCopies, NextOrdered, LifecycleStep
<1>3. QED
  BY <1>1, <1>2, PTL DEF Spec, LifecycleSpec, Lifecycle!Spec

(***************************************************************************)
(* Nobody has an unidentified requester's case in hand.  This follows from *)
(* RightsLifecycle alone: along the table, and from any status a row has   *)
(* had, the identity check comes first.                                    *)
(***************************************************************************)
LEMMA VerifiedStep ==
  ASSUME TypeOK, VerifiedFirst, [Lifecycle!Next]_(Lifecycle!vars)
  PROVE  VerifiedFirst'
<1>1. CASE UNCHANGED Lifecycle!vars
  BY <1>1 DEF Lifecycle!vars, VerifiedFirst
<1>2. ASSUME NEW r \in Requests, NEW t, Lifecycle!Enter(r, t),
             t \notin InHand \union {"RECEIVED"}
      PROVE  VerifiedFirst'
  BY <1>2 DEF VerifiedFirst, Lifecycle!Enter, TypeOK
<1>3. ASSUME NEW r \in Requests, NEW t \in Status, Lifecycle!Move(r, t)
      PROVE  VerifiedFirst'
  <2>1. visited' = [visited EXCEPT ![r] = @ \union {t}]
    BY <1>3 DEF Lifecycle!Move, Lifecycle!Enter
  <2>2. PICK s \in visited[r] : Allowed(s, t)
    BY <1>3, SameTable DEF Lifecycle!Move
  <2>3. t # "RECEIVED"
    BY <2>2, NotBackToReceived
  <2>4. CASE t \notin InHand
    BY <1>2, <1>3, <2>3, <2>4 DEF Lifecycle!Move
  <2>5. CASE t \in InHand
    <3>1. s \in InHand \union {"IN_VERIFICATION"}
      BY <2>2, <2>5, IntoHand
    <3>2. "RECEIVED" \in visited[r] => "IN_VERIFICATION" \in visited[r]
      BY <2>2, <3>1 DEF VerifiedFirst
    <3>3. QED
      BY <2>1, <2>3, <3>2 DEF VerifiedFirst, TypeOK
  <2>6. QED
    BY <2>4, <2>5
<1>4. ASSUME NEW r \in Requests, Lifecycle!QueueErasure(r)
      PROVE  VerifiedFirst'
  BY <1>4 DEF Lifecycle!QueueErasure, VerifiedFirst
<1>5. ASSUME NEW r \in Requests, Lifecycle!CloseErased(r)
      PROVE  VerifiedFirst'
  BY <1>2, <1>5 DEF Lifecycle!CloseErased, InHand
<1>6. QED
  BY <1>1, <1>3, <1>4, <1>5, SameTable DEF Lifecycle!Next

\* A request that was found RECEIVED is taken in hand only after
\* IN_VERIFICATION, whichever calls race and whatever the worker completes.
THEOREM VerificationComesFirst == Spec => []VerifiedFirst
<1>1. Init => VerifiedFirst
  BY DEF Init, VerifiedFirst, InHand
<1>2. Init => TypeOK /\ CopiesAreVisited /\ JobsAreOrdered
  BY InitTypeOK, InitCopies, InitLifecycle
<1>3. TypeOK /\ CopiesAreVisited /\ JobsAreOrdered /\ VerifiedFirst /\ [Next]_vars
        => TypeOK' /\ CopiesAreVisited' /\ JobsAreOrdered' /\ VerifiedFirst'
  BY NextTypeOK, NextCopies, NextOrdered, LifecycleStep, VerifiedStep
<1>4. QED
  BY <1>1, <1>2, <1>3, PTL DEF Spec

(***************************************************************************)
(* Nothing is done for a request that was not reviewed.                    *)
(***************************************************************************)
\* What is fulfilled follows a review, and what is scrubbed was queued.
ReviewedFirst ==
  /\ \A r \in Requests :
       ordered[r] \cap {"process-erasure", "dsar-pack"} # {}
         => visited[r] \cap {"IN_REVIEW", "ESCALATED"} # {}
  /\ \A r \in Requests :
       scrubbed[r] # {} => ordered[r] \cap ErasureJobs # {}

\* Histories only grow.
LEMMA HistoriesGrow ==
  ASSUME TypeOK, CopiesAreVisited, JobsAreOrdered, [Next]_vars
  PROVE  \A r \in Requests : visited[r] \subseteq visited'[r]
<1>1. [Lifecycle!Next]_(Lifecycle!vars)
  BY LifecycleStep
<1>2. ASSUME NEW q \in Requests, NEW t, Lifecycle!Enter(q, t)
      PROVE  \A r \in Requests : visited[r] \subseteq visited'[r]
  BY <1>2 DEF Lifecycle!Enter, TypeOK
<1>3. ASSUME NEW q \in Requests, Lifecycle!QueueErasure(q)
      PROVE  \A r \in Requests : visited[r] \subseteq visited'[r]
  BY <1>3 DEF Lifecycle!QueueErasure
<1>4. QED
  BY <1>1, <1>2, <1>3
     DEF Lifecycle!Next, Lifecycle!vars, Lifecycle!Move, Lifecycle!CloseErased

LEMMA NextReviewed ==
  TypeOK /\ CopiesAreVisited /\ JobsAreOrdered /\ ReviewedFirst /\ [Next]_vars
    => ReviewedFirst'
<1> SUFFICES ASSUME TypeOK, CopiesAreVisited, JobsAreOrdered, ReviewedFirst,
                    [Next]_vars
             PROVE  ReviewedFirst'
  OBVIOUS
<1> USE DEF caseVars, jobVars, workerVars, clockVars
<1>1. \A r \in Requests : visited[r] \subseteq visited'[r]
  BY HistoriesGrow
<1>2. CASE UNCHANGED <<ordered, scrubbed>>
  BY <1>1, <1>2 DEF ReviewedFirst
<1>3. ASSUME NEW c \in Clerks, BeginTransaction(c)
      PROVE  ReviewedFirst'
  <2> DEFINE r == clerk[c].req
  <2>1. r \in Requests /\ clerk[c].pc = "read"
    BY <1>3, InFlightType DEF BeginTransaction, Ready
  <2>2. UNCHANGED <<visited, scrubbed>>
    BY <1>3 DEF BeginTransaction
  <2>3. CASE UNCHANGED ordered
    BY <1>2, <2>2, <2>3
  <2>4. ASSUME NEW job \in JobName, Fulfils(c, job),
               ordered' = [ordered EXCEPT ![r] = @ \union {job}]
        PROVE  ReviewedFirst'
    <3>1. clerk[c].snap.status \in visited[r] \cap {"IN_REVIEW", "ESCALATED"}
      BY <2>1, <2>4, IntoAction DEF CopiesAreVisited, Fulfils
    <3>2. \A q \in Requests : ordered[q] \subseteq ordered'[q]
                              /\ (q # r => ordered'[q] = ordered[q])
      BY <2>4 DEF TypeOK
    <3>3. QED
      BY <2>2, <3>1, <3>2 DEF ReviewedFirst
  <2>5. QED
    BY <1>3, <2>3, <2>4 DEF BeginTransaction, Enqueue, JobName
<1>4. ASSUME NEW r \in Requests, GenerateExtract(r)
      PROVE  ReviewedFirst'
  <2>1. ordered' = [ordered EXCEPT ![r] = @ \union {"generate-dsar-extract"}]
        /\ UNCHANGED <<visited, scrubbed>>
    BY <1>4 DEF GenerateExtract, Enqueue
  <2>2. \A q \in Requests :
          ordered[q] \subseteq ordered'[q]
          /\ ordered'[q] \subseteq ordered[q] \union {"generate-dsar-extract"}
    BY <2>1 DEF TypeOK
  <2>3. QED
    BY <2>1, <2>2 DEF ReviewedFirst
<1>5. CASE ScrubConsents \/ ScrubGrievances
  <2> DEFINE r == worker.job.req
  <2>1. r \in Requests /\ worker.step # "idle"
    BY <1>5, BusyType DEF ScrubConsents, ScrubGrievances, Scrub
  <2>2. ordered[r] \cap ErasureJobs # {}
    BY <2>1 DEF JobsAreOrdered
  <2>3. /\ \A q \in Requests : q # r => scrubbed'[q] = scrubbed[q]
        /\ UNCHANGED <<visited, ordered>>
    BY <1>5 DEF ScrubConsents, ScrubGrievances, Scrub, TypeOK
  <2>4. QED
    BY <2>2, <2>3 DEF ReviewedFirst
<1>6. ASSUME NEW c \in Clerks,
             \/ \E r \in Requests, call \in Calls : Read(c, r, call)
             \/ Resume(c) \/ ResumeThrows(c) \/ Rollback(c) \/ Commit(c)
      PROVE  UNCHANGED <<ordered, scrubbed>>
  BY <1>6 DEF Read, Resume, ResumeThrows, Rollback, Commit
<1>7. ASSUME \/ \E r \in Requests : Update(r)
             \/ TakeJob \/ SendErasureConfirmation \/ CloseErased \/ JobFails
             \/ Tick \/ Crash \/ UNCHANGED vars
      PROVE  UNCHANGED <<ordered, scrubbed>>
  BY <1>7 DEF Update, TakeJob, SendErasureConfirmation, CloseErased, JobFails,
              Tick, Crash, vars
<1>8. QED
  BY <1>2, <1>3, <1>4, <1>5, <1>6, <1>7 DEF Next, Running, CallStep, WorkerStep

\* Personal data is anonymised, and a data pack made, only after a review, or
\* because an extract was asked for.
THEOREM ReviewComesFirst == Spec => []NothingDoneUnreviewed
<1>1. Init => ReviewedFirst /\ TypeOK /\ CopiesAreVisited /\ JobsAreOrdered
  <2>1. Init => ReviewedFirst
    BY DEF Init, ReviewedFirst
  <2>2. QED
    BY <2>1, InitTypeOK, InitCopies, InitLifecycle
<1>2. ReviewedFirst => NothingDoneUnreviewed
  BY DEF ReviewedFirst, NothingDoneUnreviewed, ErasureJobs
<1>3. TypeOK /\ CopiesAreVisited /\ JobsAreOrdered /\ ReviewedFirst /\ [Next]_vars
        => TypeOK' /\ CopiesAreVisited' /\ JobsAreOrdered' /\ ReviewedFirst'
  BY NextTypeOK, NextCopies, NextOrdered, NextReviewed
<1>4. QED
  BY <1>1, <1>2, <1>3, PTL DEF Spec

(***************************************************************************)
(* What a row carries with its status: closedAt and the SLA clock.         *)
(***************************************************************************)
\* Entering a row replaces it and no other.
LEMMA EnterRow ==
  ASSUME TypeOK, NEW r \in Requests, NEW newRow \in Row, Enter(r, newRow)
  PROVE  \A q \in Requests : row'[q] = IF q = r THEN newRow ELSE row[q]
BY DEF TypeOK, Enter

\* The writes of a row, and what each of them makes of it.
LEMMA RowWrites ==
  ASSUME TypeOK, [Next]_vars, row' # row
  PROVE  \E r \in Requests, new \in Row :
           /\ Enter(r, new)
           /\ \/ \E c \in Clerks :
                   /\ Resume(c) /\ r = clerk[c].req
                   /\ new.due = ResumedDue(c) /\ new.pausedAt = NoTime
                   /\ new.status = row[r].status /\ new.closed = row[r].closed
              \/ \E c \in Clerks :
                   /\ Commit(c)
                   /\ new.due = row[r].due
                   /\ new.pausedAt \in {row[r].pausedAt, now}
                   /\ new.status \in Terminal => new.closed
              \/ /\ UNCHANGED <<clerk, now>>
                 /\ new.due \in DueDates \union {row[r].due}
                 /\ new.pausedAt = row[r].pausedAt
                 /\ \/ new.status = row[r].status /\ new.closed = row[r].closed
                    \/ new.closed
<1> USE DEF caseVars, jobVars, workerVars, clockVars
<1>1. ASSUME NEW c \in Clerks, Resume(c)
      PROVE  \E r \in Requests, new \in Row :
               /\ Enter(r, new)
               /\ Resume(c) /\ r = clerk[c].req
               /\ new.due = ResumedDue(c) /\ new.pausedAt = NoTime
               /\ new.status = row[r].status /\ new.closed = row[r].closed
  <2>1. clerk[c] \in InFlight /\ clerk[c].req \in Requests
        /\ row[clerk[c].req] \in Row /\ ResumedDue(c) \in Int
    BY <1>1, InFlightType DEF Resume, NeedsResume, ResumedDue, Row, TypeOK
  <2> DEFINE new == [row[clerk[c].req] EXCEPT !.due = ResumedDue(c),
                                              !.pausedAt = NoTime]
  <2>2. new \in Row
    BY <2>1 DEF Row
  <2>3. new.due = ResumedDue(c) /\ new.pausedAt = NoTime
        /\ new.status = row[clerk[c].req].status
        /\ new.closed = row[clerk[c].req].closed
    BY <2>1 DEF Row
  <2>4. Enter(clerk[c].req, new)
    BY <1>1 DEF Resume
  <2>5. QED
    <3> HIDE DEF new
    <3>1. QED
      BY <1>1, <2>1, <2>2, <2>3, <2>4 DEF Enter
<1>2. ASSUME NEW c \in Clerks, Commit(c)
      PROVE  \E r \in Requests, new \in Row :
               /\ Enter(r, new)
               /\ Commit(c)
               /\ new.due = row[r].due
               /\ new.pausedAt \in {row[r].pausedAt, now}
               /\ new.status \in Terminal => new.closed
  <2>1. clerk[c].req \in Requests /\ clerk[c].target \in Status
        /\ row[clerk[c].req] \in Row
    BY <1>2, InFlightType DEF Commit
  <2> DEFINE new(pause) == [row[clerk[c].req] EXCEPT
                 !.status = clerk[c].target,
                 !.closed = @ \/ Closes(clerk[c].target),
                 !.pausedAt = IF pause THEN PausedAt ELSE @]
  <2>2. PICK pause \in BOOLEAN : Enter(clerk[c].req, new(pause))
    BY <1>2 DEF Commit
  <2>3. new(pause) \in Row
    BY <2>1 DEF Row, TypeOK, Closes, PausedAt
  <2>4. /\ new(pause).due = row[clerk[c].req].due
        /\ new(pause).pausedAt \in {row[clerk[c].req].pausedAt, now}
        /\ new(pause).status \in Terminal => new(pause).closed
    BY <2>1 DEF Row, Closes, PausedAt
  <2>5. QED
    <3> HIDE DEF new
    <3>1. QED
      BY <1>2, <2>1, <2>2, <2>3, <2>4 DEF Enter
<1>3. ASSUME NEW q \in Requests, Update(q)
      PROVE  \E r \in Requests, new \in Row :
               /\ Enter(r, new)
               /\ UNCHANGED <<clerk, now>>
               /\ new.due \in DueDates \union {row[r].due}
               /\ new.pausedAt = row[r].pausedAt
               /\ new.status = row[r].status /\ new.closed = row[r].closed
  <2>1. PICK type \in Types, due \in DueDates \union {row[q].due} :
          Enter(q, [row[q] EXCEPT !.type = type, !.due = due])
    BY <1>3 DEF Update
  <2>2. row[q] \in Row /\ due \in Int
    BY ParametersAssumption DEF TypeOK, Row
  <2> DEFINE new == [row[q] EXCEPT !.type = type, !.due = due]
  <2>3. new \in Row /\ new.due = due /\ new.pausedAt = row[q].pausedAt
        /\ new.status = row[q].status /\ new.closed = row[q].closed
    BY <2>2 DEF Row
  <2>4. UNCHANGED <<clerk, now>> /\ Enter(q, new)
    BY <1>3, <2>1 DEF Update
  <2>5. QED
    <3> HIDE DEF new
    <3>1. QED
      BY <2>3, <2>4 DEF Enter
<1>4. ASSUME CloseErased
      PROVE  \E r \in Requests, new \in Row :
               /\ Enter(r, new)
               /\ UNCHANGED <<clerk, now>>
               /\ new.due = row[r].due /\ new.pausedAt = row[r].pausedAt
               /\ new.closed
  <2> DEFINE r == worker.job.req
             new == [row[r] EXCEPT !.status = "COMPLETED", !.closed = TRUE]
  <2>1. r \in Requests /\ row[r] \in Row
    BY <1>4, BusyType DEF CloseErased, TypeOK
  <2>2. new \in Row /\ new.due = row[r].due
        /\ new.pausedAt = row[r].pausedAt /\ new.closed
    BY <2>1 DEF Row, Status
  <2>3. UNCHANGED <<clerk, now>> /\ Enter(r, new)
    BY <1>4 DEF CloseErased
  <2>4. QED
    <3> HIDE DEF new
    <3>1. QED
      BY <2>1, <2>2, <2>3 DEF Enter
<1>5. ASSUME \/ \E c \in Clerks : \/ \E r \in Requests, call \in Calls : Read(c, r, call)
                                  \/ ResumeThrows(c) \/ Rollback(c)
                                  \/ BeginTransaction(c)
             \/ \E r \in Requests : GenerateExtract(r)
             \/ TakeJob \/ ScrubConsents \/ ScrubGrievances
             \/ SendErasureConfirmation \/ JobFails \/ Tick \/ Crash
             \/ UNCHANGED vars
      PROVE  UNCHANGED row
  BY <1>5 DEF Read, ResumeThrows, Rollback, BeginTransaction, GenerateExtract,
              TakeJob, ScrubConsents, ScrubGrievances, Scrub,
              SendErasureConfirmation, JobFails, Tick, Crash, vars
<1>6. CASE \E c \in Clerks : Resume(c)
  BY <1>1, <1>6
<1>7. CASE \E c \in Clerks : Commit(c)
  BY <1>2, <1>7
<1>8. CASE \E q \in Requests : Update(q)
  BY <1>3, <1>8
<1>9. CASE CloseErased
  BY <1>4, <1>9
<1>10. QED
  BY <1>5, <1>6, <1>7, <1>8, <1>9 DEF Next, Running, CallStep, WorkerStep

LEMMA NextClosed == TypeOK /\ TerminalIsClosed /\ [Next]_vars => TerminalIsClosed'
<1> SUFFICES ASSUME TypeOK, TerminalIsClosed, [Next]_vars
             PROVE  TerminalIsClosed'
  OBVIOUS
<1>1. CASE row' = row
  BY <1>1 DEF TerminalIsClosed
<1>2. CASE row' # row
  <2>1. PICK r \in Requests, new \in Row :
          /\ Enter(r, new)
          /\ \/ new.status \in Terminal => new.closed
             \/ new.status = row[r].status /\ new.closed = row[r].closed
    BY <1>2, RowWrites
  <2>2. \A q \in Requests : row'[q] = IF q = r THEN new ELSE row[q]
    BY <2>1, EnterRow
  <2>3. QED
    BY <2>1, <2>2 DEF TerminalIsClosed
<1>3. QED
  BY <1>1, <1>2

\* A case in a status that ends it has its closing date.
THEOREM EndedIsClosed == Spec => []TerminalIsClosed
<1>1. Init => TerminalIsClosed
  BY ParametersAssumption DEF Init, TerminalIsClosed
<1>2. QED
  BY <1>1, InitTypeOK, NextTypeOK, NextClosed, PTL DEF Spec

(***************************************************************************)
(* Deadlines.  The invariant speaks of the copies too: a copy that is      *)
(* resumed late still counts from the pause it was read with, and a clock  *)
(* that is stopped has put the deadline off only up to that pause.         *)
(***************************************************************************)
\* A row, or a copy of one, as seen at time t.
Clocked(due, paused, t) ==
  /\ paused <= t
  /\ due # NoTime =>
       \E d \in DueDates :
         d <= due /\ due <= d + (IF paused = NoTime THEN t ELSE paused)

ClocksBounded ==
  /\ \A r \in Requests : Clocked(row[r].due, row[r].pausedAt, now)
  /\ \A c \in Clerks :
       clerk[c].pc \in {"read", "tx"} =>
         Clocked(clerk[c].snap.due, clerk[c].snap.pausedAt, now)

LEMMA DueDatesAreNatural == DueDates \subseteq Nat
BY ParametersAssumption

\* Time does no harm.
LEMMA ClockedLater ==
  ASSUME NEW due \in Int, NEW paused \in Nat \union {NoTime}, NEW t \in Nat,
         Clocked(due, paused, t)
  PROVE  Clocked(due, paused, t + 1)
BY DueDatesAreNatural DEF Clocked, NoTime

\* To resume is to put the deadline off by the length of the pause.
LEMMA ClockedResumed ==
  ASSUME NEW due \in Int, NEW paused \in Nat, NEW t \in Nat,
         due # NoTime, Clocked(due, paused, t)
  PROVE  Clocked(due + (t - paused), NoTime, t)
BY DueDatesAreNatural DEF Clocked, NoTime

\* To stop the clock, or to stop it again, is to count up to now.
LEMMA ClockedPaused ==
  ASSUME NEW due \in Int, NEW paused \in Nat \union {NoTime}, NEW t \in Nat,
         Clocked(due, paused, t)
  PROVE  Clocked(due, t, t)
BY DueDatesAreNatural DEF Clocked, NoTime

\* A deadline that is given starts afresh.
LEMMA ClockedGiven ==
  ASSUME NEW due \in DueDates, NEW paused \in Nat \union {NoTime}, NEW t \in Nat,
         paused <= t
  PROVE  Clocked(due, paused, t)
BY DueDatesAreNatural DEF Clocked, NoTime

\* The due date a resuming call computes.
LEMMA ResumedIsClocked ==
  ASSUME TypeOK, ClocksBounded, NEW c \in Clerks, Resume(c)
  PROVE  Clocked(ResumedDue(c), NoTime, now)
<1>1. /\ clerk[c].snap \in Row /\ clerk[c].pc = "read"
      /\ clerk[c].snap.pausedAt # NoTime /\ clerk[c].snap.due # NoTime
  BY InFlightType DEF Resume, NeedsResume
<1>2. clerk[c].snap.due \in Int /\ clerk[c].snap.pausedAt \in Nat
  BY <1>1 DEF Row
<1>3. Clocked(clerk[c].snap.due, clerk[c].snap.pausedAt, now)
  BY <1>1 DEF ClocksBounded
<1>4. QED
  BY <1>1, <1>2, <1>3, ClockedResumed DEF TypeOK, ResumedDue

\* The rows keep their bounds.
LEMMA NextRowClocks ==
  ASSUME TypeOK, ClocksBounded, [Next]_vars
  PROVE  \A r \in Requests : Clocked(row'[r].due, row'[r].pausedAt, now')
<1>1. now \in Nat /\ \A r \in Requests : /\ row[r].due \in Int
                                        /\ row[r].pausedAt \in Nat \union {NoTime}
  BY DEF TypeOK, Row
<1>2. CASE row' = row
  <2>1. now' = now \/ now' = now + 1
    BY DEF Next, Running, CallStep, WorkerStep, Read, Resume, ResumeThrows,
           BeginTransaction, Rollback, Commit, GenerateExtract, Update, TakeJob,
           ScrubConsents, ScrubGrievances, Scrub, SendErasureConfirmation,
           CloseErased, JobFails, Tick, Crash, clockVars, vars
  <2>2. QED
    BY <1>1, <1>2, <2>1, ClockedLater DEF ClocksBounded
<1>3. CASE row' # row
  <2>1. PICK r \in Requests, new \in Row :
          /\ Enter(r, new)
          /\ \/ \E c \in Clerks :
                  /\ Resume(c) /\ now' = now
                  /\ new.due = ResumedDue(c) /\ new.pausedAt = NoTime
             \/ /\ now' = now
                /\ new.due = row[r].due
                /\ new.pausedAt \in {row[r].pausedAt, now}
             \/ /\ now' = now
                /\ new.due \in DueDates \union {row[r].due}
                /\ new.pausedAt = row[r].pausedAt
    <3>1. \A c \in Clerks : Resume(c) \/ Commit(c) => now' = now
      BY DEF Resume, Commit, clockVars
    <3>2. QED
      BY <1>3, <3>1, RowWrites
  <2>2. \A q \in Requests : row'[q] = IF q = r THEN new ELSE row[q]
    BY <2>1, EnterRow
  <2>3. Clocked(row[r].due, row[r].pausedAt, now) /\ row[r].pausedAt <= now
    BY DEF ClocksBounded, Clocked
  <2>4. now' = now /\ Clocked(new.due, new.pausedAt, now)
    <3>1. CASE \E c \in Clerks :
                  /\ Resume(c) /\ now' = now
                  /\ new.due = ResumedDue(c) /\ new.pausedAt = NoTime
      BY <3>1, ResumedIsClocked
    <3>2. CASE /\ now' = now
               /\ new.due = row[r].due
               /\ new.pausedAt \in {row[r].pausedAt, now}
      BY <1>1, <2>3, <3>2, ClockedPaused
    <3>3. CASE /\ now' = now
               /\ new.due \in DueDates \union {row[r].due}
               /\ new.pausedAt = row[r].pausedAt
      BY <1>1, <2>3, <3>3, ClockedGiven
    <3>4. QED
      BY <2>1, <3>1, <3>2, <3>3
  <2>5. QED
    BY <2>2, <2>4 DEF ClocksBounded
<1>4. QED
  BY <1>2, <1>3

\* The copies keep theirs.
LEMMA NextCopyClocks ==
  ASSUME TypeOK, ClocksBounded, [Next]_vars, NEW d \in Clerks,
         clerk'[d].pc \in {"read", "tx"}
  PROVE  Clocked(clerk'[d].snap.due, clerk'[d].snap.pausedAt, now')
<1> USE DEF caseVars, jobVars, workerVars, clockVars
<1>1. now \in Nat
  BY DEF TypeOK
<1>2. CASE now' = now /\ clerk'[d] = clerk[d]
  BY <1>2 DEF ClocksBounded
<1>3. ASSUME NEW c \in Clerks, NEW r \in Requests, NEW call \in Calls,
             Read(c, r, call), d = c
      PROVE  clerk'[d].snap = row[r] /\ now' = now
  BY <1>3 DEF Read, TypeOK
<1>4. ASSUME NEW c \in Clerks, Resume(c), d = c
      PROVE  /\ clerk'[d].snap.due = ResumedDue(c)
             /\ clerk'[d].snap.pausedAt = NoTime
             /\ now' = now
  <2>1. clerk[c] \in InFlight
    BY <1>4, InFlightType DEF Resume
  <2>2. QED
    BY <1>4, <2>1 DEF Resume, TypeOK, InFlight, Row
<1>5. ASSUME NEW c \in Clerks, BeginTransaction(c), d = c
      PROVE  clerk'[d].snap = clerk[d].snap /\ clerk[d].pc = "read" /\ now' = now
  <2>1. clerk[c] \in InFlight
    BY <1>5, InFlightType DEF BeginTransaction, Ready
  <2>2. QED
    BY <1>5, <2>1 DEF BeginTransaction, Ready, TypeOK, InFlight
<1>6. ASSUME NEW c \in Clerks,
             \/ \E r \in Requests, call \in Calls : Read(c, r, call)
             \/ Resume(c) \/ BeginTransaction(c),
             d # c
      PROVE  clerk'[d] = clerk[d] /\ now' = now
  BY <1>6 DEF Read, Resume, BeginTransaction, TypeOK
<1>7. ASSUME NEW c \in Clerks, ResumeThrows(c) \/ Rollback(c) \/ Commit(c)
      PROVE  clerk'[d] = clerk[d] /\ now' = now
  <2>1. clerk' = [clerk EXCEPT ![c] = NoCall] /\ now' = now
    BY <1>7 DEF ResumeThrows, Rollback, Commit, Finish
  <2>2. CASE d = c
    <3>1. clerk'[d] = NoCall
      BY <2>1, <2>2 DEF TypeOK
    <3>2. QED
      BY <3>1 DEF NoCall
  <2>3. CASE d # c
    BY <2>1, <2>3 DEF TypeOK
  <2>4. QED
    BY <2>2, <2>3
<1>8. CASE Tick
  <2>1. clerk[d].snap \in Row /\ clerk[d].pc \in {"read", "tx"}
    BY <1>8, InFlightType DEF Tick
  <2>2. clerk[d].snap.due \in Int /\ clerk[d].snap.pausedAt \in Nat \union {NoTime}
    BY <2>1 DEF Row
  <2>3. now' = now + 1 /\ clerk' = clerk
    BY <1>8 DEF Tick
  <2>4. QED
    BY <1>1, <2>1, <2>2, <2>3, ClockedLater DEF ClocksBounded
<1>9. CASE Crash
  BY <1>9 DEF Crash, NoCall
<1>10. ASSUME \/ \E r \in Requests : GenerateExtract(r) \/ Update(r)
              \/ TakeJob \/ ScrubConsents \/ ScrubGrievances
              \/ SendErasureConfirmation \/ CloseErased \/ JobFails
              \/ UNCHANGED vars
       PROVE  clerk'[d] = clerk[d] /\ now' = now
  BY <1>10 DEF GenerateExtract, Update, TakeJob, ScrubConsents, ScrubGrievances,
               Scrub, SendErasureConfirmation, CloseErased, JobFails, vars
<1>11. ASSUME NEW c \in Clerks, NEW r \in Requests, NEW call \in Calls,
              Read(c, r, call)
       PROVE  Clocked(clerk'[d].snap.due, clerk'[d].snap.pausedAt, now')
  BY <1>2, <1>3, <1>6, <1>11 DEF ClocksBounded
<1>12. ASSUME NEW c \in Clerks, Resume(c)
       PROVE  Clocked(clerk'[d].snap.due, clerk'[d].snap.pausedAt, now')
  BY <1>2, <1>4, <1>6, <1>12, ResumedIsClocked
<1>13. ASSUME NEW c \in Clerks, BeginTransaction(c)
       PROVE  Clocked(clerk'[d].snap.due, clerk'[d].snap.pausedAt, now')
  BY <1>2, <1>5, <1>6, <1>13 DEF ClocksBounded
<1>14. QED
  BY <1>2, <1>7, <1>8, <1>9, <1>10, <1>11, <1>12, <1>13
     DEF Next, Running, CallStep, WorkerStep

\* No deadline is put off by more than the time gone by, however many calls
\* resume the same pause from copies of their own.
THEOREM DeadlinesHold == Spec => []DeadlineBound
<1>1. Init => ClocksBounded
  <2> SUFFICES ASSUME Init
               PROVE  ClocksBounded
    OBVIOUS
  <2>1. ASSUME NEW r \in Requests
        PROVE  Clocked(row[r].due, row[r].pausedAt, now)
    <3>1. row[r].due \in DueDates \union {NoTime} /\ row[r].pausedAt = NoTime
          /\ now = 0
      BY DEF Init
    <3>2. CASE row[r].due = NoTime
      BY <3>1, <3>2 DEF Clocked, NoTime
    <3>3. CASE row[r].due \in DueDates
      <4>1. row[r].pausedAt \in Nat \union {NoTime} /\ row[r].pausedAt <= now
            /\ now \in Nat
        BY <3>1 DEF NoTime
      <4>2. QED
        BY <3>3, <4>1, ClockedGiven
    <3>4. QED
      BY <3>1, <3>2, <3>3
  <2>2. QED
    BY <2>1 DEF Init, ClocksBounded, NoCall
<1>2. TypeOK /\ ClocksBounded /\ [Next]_vars => ClocksBounded'
  <2> SUFFICES ASSUME TypeOK, ClocksBounded, [Next]_vars
               PROVE  ClocksBounded'
    OBVIOUS
  <2>1. QED
    BY NextRowClocks, NextCopyClocks DEF ClocksBounded
<1>3. TypeOK /\ ClocksBounded => DeadlineBound
  <2> SUFFICES ASSUME TypeOK, ClocksBounded, NEW r \in Requests,
                      row[r].due # NoTime
               PROVE  \E d \in DueDates : d <= row[r].due /\ row[r].due <= d + now
    BY DEF DeadlineBound
  <2>1. now \in Nat /\ row[r].due \in Int /\ row[r].pausedAt \in Nat \union {NoTime}
    BY DEF TypeOK, Row
  <2>2. Clocked(row[r].due, row[r].pausedAt, now)
    BY DEF ClocksBounded
  <2>3. QED
    BY <2>1, <2>2, DueDatesAreNatural DEF Clocked, NoTime
<1>4. QED
  BY <1>1, <1>2, <1>3, InitTypeOK, NextTypeOK, PTL DEF Spec

(***************************************************************************)
(* The requester hears of an erasure that is done.                         *)
(***************************************************************************)
\* How far the worker has come with its job is how far the data is scrubbed.
WorkerAtStep ==
  /\ worker.step = "grievances" => "consents" \in scrubbed[worker.job.req]
  /\ worker.step = "confirm" => scrubbed[worker.job.req] = Tables

LEMMA NextConfirmed ==
  TypeOK /\ WorkerAtStep /\ ConfirmedIsScrubbed /\ [Next]_vars
    => WorkerAtStep' /\ ConfirmedIsScrubbed'
<1> SUFFICES ASSUME TypeOK, WorkerAtStep, ConfirmedIsScrubbed, [Next]_vars
             PROVE  WorkerAtStep' /\ ConfirmedIsScrubbed'
  OBVIOUS
<1> USE DEF caseVars, jobVars, workerVars, clockVars
<1>1. CASE UNCHANGED <<worker, scrubbed, confirmed>>
  BY <1>1 DEF WorkerAtStep, ConfirmedIsScrubbed
<1>2. CASE UNCHANGED <<scrubbed, confirmed>> /\ worker'.step \in {"idle", "consents"}
  BY <1>2 DEF WorkerAtStep, ConfirmedIsScrubbed
<1>3. ASSUME NEW table \in Tables, NEW next, Scrub(table, next)
      PROVE  /\ worker'.step = next /\ worker'.job = worker.job
             /\ table \in scrubbed'[worker.job.req]
             /\ \A q \in Requests : scrubbed[q] \subseteq scrubbed'[q]
             /\ \A q \in Requests : scrubbed'[q] \subseteq Tables
             /\ confirmed' = confirmed
  <2>1. worker \in Busy /\ worker.job.req \in Requests
    BY <1>3, BusyType DEF Scrub, Tables
  <2>2. QED
    BY <1>3, <2>1 DEF Scrub, Busy, TypeOK
<1>4. CASE ScrubConsents
  <2>1. Scrub("consents", "grievances")
    BY <1>4 DEF ScrubConsents
  <2>2. QED
    BY <1>3, <2>1 DEF WorkerAtStep, ConfirmedIsScrubbed, Tables, TypeOK
<1>5. CASE ScrubGrievances
  <2>1. Scrub("grievances", "confirm")
    BY <1>5 DEF ScrubGrievances
  <2>2. worker.step = "grievances" /\ worker.job.req \in Requests
    BY <2>1, BusyType DEF Scrub
  <2>3. "consents" \in scrubbed[worker.job.req]
    BY <2>2 DEF WorkerAtStep
  <2>4. scrubbed'[worker.job.req] = Tables /\ worker'.step = "confirm"
        /\ worker'.job = worker.job
    BY <1>3, <2>1, <2>2, <2>3 DEF Tables
  <2>5. \A r \in confirmed' : scrubbed'[r] = Tables
    BY <1>3, <2>1 DEF ConfirmedIsScrubbed, Tables, TypeOK
  <2>6. QED
    BY <2>4, <2>5 DEF WorkerAtStep, ConfirmedIsScrubbed
<1>6. CASE SendErasureConfirmation
  <2>1. worker \in Busy /\ worker.step = "confirm"
    BY <1>6, BusyType DEF SendErasureConfirmation
  <2>2. scrubbed[worker.job.req] = Tables /\ UNCHANGED scrubbed
        /\ worker'.step = "close"
    BY <1>6, <2>1 DEF SendErasureConfirmation, WorkerAtStep, Busy
  <2>3. confirmed' \subseteq confirmed \union {worker.job.req}
    BY <1>6 DEF SendErasureConfirmation
  <2>4. QED
    BY <2>2, <2>3 DEF WorkerAtStep, ConfirmedIsScrubbed
<1>7. ASSUME TakeJob \/ CloseErased \/ JobFails \/ Crash
      PROVE  UNCHANGED <<scrubbed, confirmed>> /\ worker'.step \in {"idle", "consents"}
  BY <1>7 DEF TakeJob, CloseErased, JobFails, Crash, NoJob
<1>8. ASSUME \/ \E c \in Clerks :
                  \/ \E r \in Requests, call \in Calls : Read(c, r, call)
                  \/ Resume(c) \/ ResumeThrows(c) \/ BeginTransaction(c)
                  \/ Rollback(c) \/ Commit(c)
             \/ \E r \in Requests : GenerateExtract(r) \/ Update(r)
             \/ Tick \/ UNCHANGED vars
      PROVE  UNCHANGED <<worker, scrubbed, confirmed>>
  BY <1>8 DEF Read, Resume, ResumeThrows, BeginTransaction, Rollback, Commit,
              GenerateExtract, Update, Tick, vars
<1>9. QED
  BY <1>1, <1>2, <1>4, <1>5, <1>6, <1>7, <1>8
     DEF Next, Running, CallStep, WorkerStep

\* The confirmation of an erasure goes out after both tables are scrubbed,
\* also by the worker that takes the job over after a crash.
THEOREM ConfirmedErasureIsDone == Spec => []ConfirmedIsScrubbed
<1>1. Init => TypeOK /\ WorkerAtStep /\ ConfirmedIsScrubbed
  <2>1. Init => WorkerAtStep /\ ConfirmedIsScrubbed
    BY DEF Init, WorkerAtStep, ConfirmedIsScrubbed, NoJob
  <2>2. QED
    BY <2>1, InitTypeOK
<1>2. QED
  BY <1>1, NextTypeOK, NextConfirmed, PTL DEF Spec

(***************************************************************************)
(* One clerk alone: what a call has read is what the row still says, but   *)
(* for the type and the due date, which an update may change.              *)
(***************************************************************************)
CopiesAreFresh ==
  \A c \in Clerks : clerk[c].pc \in {"read", "tx"} =>
    /\ c \in desk
    /\ clerk[c].snap.status = row[clerk[c].req].status
    /\ clerk[c].snap.pausedAt = row[clerk[c].req].pausedAt
    /\ Allowed(clerk[c].snap.status, clerk[c].target)
    /\ <<clerk[c].route, clerk[c].target>> \in Calls
    /\ clerk[c].pc = "tx" => ~NeedsResume(c)

AloneInv == Alone => CopiesAreFresh /\ OpenClockRuns

\* A held case is taken up again by updateStatus alone, or rejected, and put on
\* hold by requestMoreInfo.
LEMMA CallsLead ==
  ASSUME NEW route, NEW target, <<route, target>> \in Calls
  PROVE  /\ target = "IN_REVIEW" => route = "updateStatus"
         /\ route = "requestMoreInfo" => target = "ON_HOLD"
BY DEF Calls, UpdateStatus, Approve, Reject, Escalate, RequestMoreInfo, PartialFulfil

LEMMA FromHold ==
  ASSUME NEW s \in Terminal \union {"ON_HOLD"}, NEW t, Allowed(s, t)
  PROVE  s = "ON_HOLD" /\ t \in {"IN_REVIEW", "REJECTED"}
BY DEF Allowed, StatusTransitions, Terminal

LEMMA DeskIsNext ==
  ASSUME [DeskNext]_deskVars
  PROVE  [Next]_vars /\ desk' = desk
BY DEF DeskNext, deskVars, Seated, Next, Running, CallStep

\* The clerk at the desk, whose calls follow one another, and what a step does to
\* the copies of the others: they have none.
LEMMA AloneStep ==
  ASSUME TypeOK, AloneInv, Alone, [DeskNext]_deskVars
  PROVE  CopiesAreFresh' /\ OpenClockRuns' /\ ValidatedMove
<1> USE DEF caseVars, jobVars, workerVars, clockVars
<1>1. CopiesAreFresh /\ OpenClockRuns /\ desk' = desk
  BY DeskIsNext DEF AloneInv
<1>2. PICK me \in Clerks : desk = {me}
  BY DEF Alone
<1>3. \A c \in Clerks \ {me} : clerk[c].pc \notin {"read", "tx"}
  BY <1>1, <1>2 DEF CopiesAreFresh
<1>4. \A c \in Clerks : clerk[c] = NoCall => clerk[c].pc = "idle"
  BY DEF NoCall
<1>5. ASSUME UNCHANGED row, \A c \in Clerks : clerk'[c] = clerk[c] \/ clerk'[c] = NoCall
      PROVE  CopiesAreFresh' /\ OpenClockRuns' /\ ValidatedMove
  <2>1. \A c \in Clerks : clerk'[c].pc \in {"read", "tx"} => clerk'[c] = clerk[c]
    BY <1>5 DEF NoCall
  <2>2. \A c \in Clerks : clerk'[c] = clerk[c] => (NeedsResume(c)' <=> NeedsResume(c))
    BY DEF NeedsResume
  <2>3. QED
    BY <1>1, <1>5, <2>1, <2>2 DEF CopiesAreFresh, OpenClockRuns, ValidatedMove
<1>6. ASSUME NEW c \in Clerks, NEW r \in Requests, NEW call \in Calls, Read(c, r, call), Seated
      PROVE  CopiesAreFresh' /\ OpenClockRuns' /\ ValidatedMove
  <2>1. /\ clerk' = [clerk EXCEPT ![c] =
              [pc |-> "read", route |-> call[1], target |-> call[2], req |-> r, snap |-> row[r]]]
        /\ Allowed(row[r].status, call[2]) /\ row' = row
    BY <1>6 DEF Read
  <2>2. /\ clerk'[c].pc = "read" /\ clerk'[c].route = call[1] /\ clerk'[c].target = call[2]
        /\ clerk'[c].req = r /\ clerk'[c].snap = row[r]
        /\ \A d \in Clerks \ {c} : clerk'[d] = clerk[d]
    BY <2>1 DEF TypeOK
  <2>3. c = me
    <3>1. clerk'[c] # NoCall
      BY <2>2 DEF NoCall
    <3>2. QED
      BY <1>2, <1>6, <3>1 DEF Seated
  <2>4. <<call[1], call[2]>> \in Calls
    BY DEF Calls, UpdateStatus, Approve, Reject, Escalate, RequestMoreInfo, PartialFulfil
  <2>5. CopiesAreFresh'
    BY <1>1, <1>2, <1>3, <2>1, <2>2, <2>3, <2>4 DEF CopiesAreFresh
  <2>6. QED
    BY <1>1, <2>1, <2>5 DEF OpenClockRuns, ValidatedMove
<1>7. ASSUME NEW c \in Clerks, Resume(c)
      PROVE  CopiesAreFresh' /\ OpenClockRuns' /\ ValidatedMove
  <2> DEFINE snap == clerk[c].snap
             due  == ResumedDue(c)
  <2>1. c = me /\ clerk[c] \in InFlight /\ clerk[c].req \in Requests /\ snap \in Row
        /\ row[clerk[c].req] \in Row /\ clerk[c].pc = "read"
    BY <1>3, <1>7, InFlightType DEF Resume
  <2>2. PICK r, new : /\ r = clerk[c].req /\ new = [row[r] EXCEPT !.due = due, !.pausedAt = NoTime]
                      /\ Enter(r, new)
    BY <1>7 DEF Resume
  <2>3. due \in Int
    BY <1>7, <2>1 DEF Resume, NeedsResume, ResumedDue, Row, TypeOK
  <2>4. new \in Row /\ new.status = row[r].status /\ new.pausedAt = NoTime
    BY <2>1, <2>2, <2>3 DEF Row
  <2>5. \A q \in Requests : row'[q] = IF q = r THEN new ELSE row[q]
    BY <2>1, <2>2, <2>4, EnterRow
  <2>6. /\ clerk'[c].pc = "read" /\ clerk'[c].req = r /\ clerk'[c].target = clerk[c].target
        /\ clerk'[c].route = clerk[c].route
        /\ clerk'[c].snap.status = snap.status /\ clerk'[c].snap.pausedAt = NoTime
        /\ \A d \in Clerks \ {c} : clerk'[d] = clerk[d]
    BY <1>7, <2>1, <2>2 DEF Resume, TypeOK, InFlight, Row
  <2>7. CopiesAreFresh'
    <3>1. /\ c \in desk' /\ snap.status = row[r].status
          /\ Allowed(snap.status, clerk[c].target)
          /\ <<clerk[c].route, clerk[c].target>> \in Calls
      BY <1>1, <2>1, <2>2 DEF CopiesAreFresh
    <3>2. \A d \in Clerks : clerk'[d].pc \in {"read", "tx"} => d = c
      BY <1>3, <2>1, <2>6
    <3>3. row'[r].status = row[r].status /\ row'[r].pausedAt = NoTime
      BY <2>1, <2>2, <2>4, <2>5
    <3>4. QED
      BY <2>2, <2>6, <3>1, <3>2, <3>3 DEF CopiesAreFresh
  <2>8. QED
    BY <1>1, <2>4, <2>5, <2>7 DEF OpenClockRuns, ValidatedMove
<1>8. ASSUME NEW c \in Clerks, BeginTransaction(c)
      PROVE  CopiesAreFresh' /\ OpenClockRuns' /\ ValidatedMove
  <2>1. c = me /\ clerk[c] \in InFlight /\ clerk[c].pc = "read" /\ ~NeedsResume(c) /\ row' = row
    BY <1>3, <1>8, InFlightType DEF BeginTransaction, Ready
  <2>2. /\ clerk'[c].req = clerk[c].req /\ clerk'[c].target = clerk[c].target
        /\ clerk'[c].route = clerk[c].route /\ clerk'[c].snap = clerk[c].snap
        /\ \A d \in Clerks \ {c} : clerk'[d] = clerk[d]
    BY <1>8, <2>1 DEF BeginTransaction, TypeOK, InFlight
  <2>3. NeedsResume(c)' <=> NeedsResume(c)
    BY <2>2 DEF NeedsResume
  <2>4. CopiesAreFresh'
    BY <1>1, <1>2, <1>3, <2>1, <2>2, <2>3 DEF CopiesAreFresh
  <2>5. QED
    BY <1>1, <2>1, <2>4 DEF OpenClockRuns, ValidatedMove
<1>9. ASSUME NEW c \in Clerks, Commit(c)
      PROVE  CopiesAreFresh' /\ OpenClockRuns' /\ ValidatedMove
  <2>1. c = me /\ clerk[c].req \in Requests /\ clerk[c].target \in Status
        /\ row[clerk[c].req] \in Row /\ clerk[c].pc = "tx"
    BY <1>3, <1>9, InFlightType DEF Commit
  <2>2. PICK pause \in BOOLEAN :
          /\ pause => clerk[c].route = "requestMoreInfo"
          /\ Enter(clerk[c].req, [row[clerk[c].req] EXCEPT
                 !.status = clerk[c].target,
                 !.closed = @ \/ Closes(clerk[c].target),
                 !.pausedAt = IF pause THEN PausedAt ELSE @])
    BY <1>9 DEF Commit
  <2>3. PICK r, new : /\ r = clerk[c].req /\ Enter(r, new)
                      /\ new = [row[r] EXCEPT !.status = clerk[c].target,
                                  !.closed = @ \/ Closes(clerk[c].target),
                                  !.pausedAt = IF pause THEN PausedAt ELSE @]
    BY <2>2
  <2>4. /\ new \in Row /\ new.status = clerk[c].target
        /\ new.pausedAt = IF pause THEN PausedAt ELSE row[r].pausedAt
    BY <2>1, <2>3 DEF Row, TypeOK, Closes, PausedAt
  <2>5. \A q \in Requests : row'[q] = IF q = r THEN new ELSE row[q]
    BY <2>1, <2>3, <2>4, EnterRow
  <2>6. /\ clerk[c].snap.status = row[r].status /\ clerk[c].snap.pausedAt = row[r].pausedAt
        /\ Allowed(row[r].status, clerk[c].target)
        /\ <<clerk[c].route, clerk[c].target>> \in Calls
        /\ ~NeedsResume(c)
    BY <1>1, <2>1, <2>3 DEF CopiesAreFresh
  <2>7. new.pausedAt # NoTime => new.status \in Terminal \union {"ON_HOLD"}
    <3>1. CASE pause
      BY <2>2, <2>4, <2>6, <3>1, CallsLead
    <3>2. CASE ~pause
      <4>1. SUFFICES ASSUME row[r].pausedAt # NoTime
                     PROVE  clerk[c].target \in Terminal
        BY <2>4, <3>2
      <4>2. row[r].status \in Terminal \union {"ON_HOLD"}
        BY <1>1, <2>1, <2>3, <4>1 DEF OpenClockRuns
      <4>3. row[r].status = "ON_HOLD" /\ clerk[c].target \in {"IN_REVIEW", "REJECTED"}
        BY <2>6, <4>2, FromHold
      <4>4. clerk[c].target # "IN_REVIEW"
        BY <2>6, <4>1, <4>3, CallsLead DEF NeedsResume
      <4>5. QED
        BY <4>3, <4>4 DEF Terminal
    <3>3. QED
      BY <3>1, <3>2
  <2>8. \A d \in Clerks : clerk'[d].pc \notin {"read", "tx"}
    BY <1>3, <1>9, <2>1 DEF Commit, Finish, TypeOK, NoCall
  <2>9. QED
    BY <1>1, <2>4, <2>5, <2>6, <2>7, <2>8 DEF CopiesAreFresh, OpenClockRuns, ValidatedMove
<1>10. ASSUME NEW r \in Requests, Update(r)
       PROVE  CopiesAreFresh' /\ OpenClockRuns' /\ ValidatedMove
  <2>1. PICK type \in Types, due \in DueDates \union {row[r].due} :
          Enter(r, [row[r] EXCEPT !.type = type, !.due = due])
    BY <1>10 DEF Update
  <2>2. PICK new : new = [row[r] EXCEPT !.type = type, !.due = due]
    OBVIOUS
  <2>3. row[r] \in Row /\ due \in Int /\ clerk' = clerk
    BY <1>10, ParametersAssumption DEF TypeOK, Row, Update
  <2>4. new \in Row /\ new.status = row[r].status /\ new.pausedAt = row[r].pausedAt
    BY <2>2, <2>3 DEF Row
  <2>5. \A q \in Requests : /\ row'[q].status = row[q].status
                            /\ row'[q].pausedAt = row[q].pausedAt
    BY <2>1, <2>2, <2>4, EnterRow
  <2>6. \A c \in Clerks : clerk[c].pc \in {"read", "tx"} => clerk[c].req \in Requests
    BY InFlightType
  <2>7. \A c \in Clerks : NeedsResume(c)' <=> NeedsResume(c)
    BY <2>3 DEF NeedsResume
  <2>8. CopiesAreFresh'
    BY <1>1, <2>3, <2>5, <2>6, <2>7 DEF CopiesAreFresh
  <2>9. QED
    BY <1>1, <2>5, <2>8 DEF OpenClockRuns, ValidatedMove
<1>11. ASSUME NEW c \in Clerks, ResumeThrows(c) \/ Rollback(c)
       PROVE  CopiesAreFresh' /\ OpenClockRuns' /\ ValidatedMove
  BY <1>5, <1>11 DEF ResumeThrows, Rollback, Finish, TypeOK
<1>12. CASE Tick \/ Crash \/ UNCHANGED deskVars
  BY <1>5, <1>12 DEF Tick, Crash, deskVars, vars
<1>13. QED
  BY <1>6, <1>7, <1>8, <1>9, <1>10, <1>11, <1>12 DEF DeskNext

LEMMA AloneStays ==
  ASSUME [DeskNext]_deskVars
  PROVE  Alone' <=> Alone
BY DeskIsNext DEF Alone

LEMMA DeskStep ==
  ASSUME TypeOK, AloneInv, [DeskNext]_deskVars
  PROVE  (TypeOK /\ AloneInv)' /\ (Alone => ValidatedMove)
BY DeskIsNext, NextTypeOK, AloneStep, AloneStays DEF AloneInv

LEMMA DeskStarts == DeskInit => TypeOK /\ AloneInv
<1> SUFFICES ASSUME DeskInit PROVE TypeOK /\ AloneInv
  OBVIOUS
<1>1. TypeOK
  BY InitTypeOK DEF DeskInit
<1>2. OpenClockRuns
  BY DEF DeskInit, Init, OpenClockRuns
<1>3. CopiesAreFresh
  BY DEF DeskInit, Init, NoCall, CopiesAreFresh
<1>4. QED
  BY <1>1, <1>2, <1>3 DEF AloneInv

\* As long as no two calls are in flight at a time, an open case that is not on
\* hold has a running SLA clock.
THEOREM ClockRunsForOne == DeskSpec => []ClockRunsAlone
<1>1. DeskInit => TypeOK /\ AloneInv
  BY DeskStarts
<1>2. TypeOK /\ AloneInv /\ [DeskNext]_deskVars => (TypeOK /\ AloneInv)'
  BY DeskStep
<1>3. AloneInv => ClockRunsAlone
  BY DEF AloneInv, ClockRunsAlone
<1>4. QED
  BY <1>1, <1>2, <1>3, PTL DEF DeskSpec

\* And every change of the status then follows STATUS_TRANSITIONS.
THEOREM MovesValidatedForOne == DeskSpec => ValidatedAlone
<1>1. DeskInit => TypeOK /\ AloneInv
  BY DeskStarts
<1>2. TypeOK /\ AloneInv /\ [DeskNext]_deskVars => (TypeOK /\ AloneInv)'
  BY DeskStep
<1>3. TypeOK /\ AloneInv /\ [DeskNext]_deskVars => [Alone => ValidatedMove]_deskVars
  BY DeskStep
<1>4. QED
  BY <1>1, <1>2, <1>3, PTL DEF DeskSpec, ValidatedAlone

------------------------------------------------------------------------------
(***************************************************************************)
(* The alerts about requests that are late: SlaMonitor.                    *)
(***************************************************************************)

(***************************************************************************)
(* Type correctness.                                                       *)
(***************************************************************************)
\* The calls, the worker and the clock take no part in crashes.
LEMMA RunningKeepsCrashes == Running => crashes' = crashes
<1> SUFFICES ASSUME Running
             PROVE  crashes' = crashes
  OBVIOUS
<1> USE DEF clockVars
<1>1. ASSUME NEW c \in Clerks, CallStep(c)
      PROVE  crashes' = crashes
  <2>1. CASE \E r \in Requests, call \in Calls : Read(c, r, call)
    BY <2>1 DEF Read
  <2>2. CASE Resume(c) \/ ResumeThrows(c)
    BY <2>2 DEF Resume, ResumeThrows
  <2>3. CASE BeginTransaction(c) \/ Rollback(c) \/ Commit(c)
    BY <2>3 DEF BeginTransaction, Rollback, Commit
  <2>4. QED
    BY <1>1, <2>1, <2>2, <2>3 DEF CallStep
<1>2. ASSUME NEW r \in Requests, GenerateExtract(r) \/ Update(r)
      PROVE  crashes' = crashes
  BY <1>2 DEF GenerateExtract, Update
<1>3. CASE WorkerStep
  BY <1>3 DEF WorkerStep, TakeJob, ScrubConsents, ScrubGrievances, Scrub,
              SendErasureConfirmation, CloseErased
<1>4. CASE JobFails \/ Tick
  BY <1>4 DEF JobFails, Tick
<1>5. QED
  BY <1>1, <1>2, <1>3, <1>4 DEF Running

\* A run in progress is a record of a list and an alert.
LEMMA RunType ==
  ASSUME SlaTypeOK, monitor.step \in Kind
  PROVE  monitor \in Runs
BY DEF SlaTypeOK, NoRun, Kind

\* A crash, a failed run, or no crash at all.
LEMMA CrashesGrow ==
  ASSUME TypeOK, [SlaNext]_allVars
  PROVE  crashes' \in Nat /\ crashes' >= crashes
<1>1. CASE Running
  BY <1>1, RunningKeepsCrashes DEF TypeOK
<1>2. CASE UNCHANGED vars
  BY <1>2 DEF vars, TypeOK
<1>3. CASE CrashInRun
  BY <1>3 DEF CrashInRun, Crash, TypeOK
<1>4. CASE RunFails
  BY <1>4 DEF RunFails, TypeOK
<1>5. QED
  BY <1>1, <1>2, <1>3, <1>4 DEF SlaNext, allVars

\* What the monitor adds leaves the rows, the calls and the worker well typed.
LEMMA SlaKeepsTypeOK == TypeOK /\ [SlaNext]_allVars => TypeOK'
<1> SUFFICES ASSUME TypeOK, [SlaNext]_allVars
             PROVE  TypeOK'
  OBVIOUS
<1>1. CASE [Next]_vars
  BY <1>1, NextTypeOK
<1>2. CASE RunFails
  <2>1. crashes' \in Nat
    BY CrashesGrow
  <2>2. QED
    BY <1>2, <2>1 DEF RunFails, TypeOK, caseVars, jobVars, workerVars
<1>3. QED
  BY <1>1, <1>2 DEF SlaNext, CrashInRun, Next, allVars

LEMMA NextSlaTypeOK == TypeOK /\ SlaTypeOK /\ [SlaNext]_allVars => SlaTypeOK'
<1> SUFFICES ASSUME TypeOK, SlaTypeOK, [SlaNext]_allVars
             PROVE  SlaTypeOK'
  OBVIOUS
<1>1. CASE FindBreached
  <2>1. monitor' \in Runs
    BY <1>1 DEF FindBreached, RunTime, NewlyBreached, Runs, Kind, TypeOK
  <2>2. QED
    BY <1>1, <2>1 DEF FindBreached, SlaTypeOK
<1>2. CASE FindNearBreach
  <2>1. monitor \in Runs
    BY <1>2, RunType DEF FindNearBreach, Between, Kind
  <2>2. monitor' \in Runs
    BY <1>2, <2>1 DEF FindNearBreach, Runs, Kind
  <2>3. QED
    BY <1>2, <2>2 DEF FindNearBreach, SlaTypeOK
<1>3. ASSUME NEW r \in Requests, SendAlert(r)
      PROVE  SlaTypeOK'
  <2>1. PICK k \in Kind : Between(k) /\ Mail(k, r)
    BY <1>3 DEF SendAlert
  <2>2. monitor \in Runs
    BY <2>1, RunType DEF Between
  <2>3. monitor' \in Runs
    BY <1>3, <2>2 DEF SendAlert, Runs
  <2>4. alerts' \in [Kind -> [Requests -> Nat]] /\ unsent' \subseteq Kind \X Requests
    BY <2>1 DEF Mail, SlaTypeOK
  <2>5. QED
    BY <1>3, <2>3, <2>4 DEF SendAlert, SlaTypeOK
<1>4. CASE RecordAlert
  <2>1. monitor \in Runs
    BY <1>4, RunType DEF RecordAlert
  <2>2. monitor.current \in Requests /\ monitor' \in Runs
    BY <1>4, <2>1 DEF RecordAlert, Runs
  <2>3. QED
    BY <1>4, <2>2 DEF RecordAlert, SlaTypeOK
<1>5. CASE EndRun \/ CrashInRun \/ RunFails
  BY <1>5 DEF EndRun, CrashInRun, RunFails, SlaTypeOK
<1>6. CASE UNCHANGED slaVars
  BY <1>6 DEF slaVars, SlaTypeOK
<1>7. QED
  BY <1>1, <1>2, <1>3, <1>4, <1>5, <1>6 DEF SlaNext, MonitorStep, allVars

(***************************************************************************)
(* The argument.  A run holds at most one alert that was tried and has yet *)
(* to be recorded, and lists no row that is marked.  So a row that has     *)
(* been mailed about more often than there were crashes is marked, or it   *)
(* is the one in hand.                                                     *)
(***************************************************************************)
Marked(k)    == IF k = "breach" THEN alertSent ELSE nearSent
HalfDone(k, r) == monitor.step = k /\ monitor.current = r

\* A run lists rows that are unmarked and not in hand.
ListedAreUnmarked ==
  monitor.step \in Kind =>
    \A r \in monitor.todo : r \notin Marked(monitor.step) /\ r # monitor.current

\* Every alert beyond one for each crash has been recorded, or is in hand.
AlertsAccountedFor ==
  \A k \in Kind : \A r \in Requests :
    /\ alerts[k][r] <= 1 + crashes
    /\ r \in Marked(k) \/ HalfDone(k, r) \/ alerts[k][r] <= crashes

\* What is marked or in hand has been mailed, or its mail failed.
MailedFirst ==
  /\ alertSent = breached
  /\ \A k \in Kind : \A r \in Requests :
       r \in Marked(k) \/ HalfDone(k, r) => Tried(k, r)

SlaInv == TypeOK /\ SlaTypeOK /\ ListedAreUnmarked /\ AlertsAccountedFor /\ MailedFirst

LEMMA InitSlaInv == SlaInit => SlaInv
<1> SUFFICES ASSUME SlaInit
             PROVE  SlaInv
  OBVIOUS
<1>1. TypeOK
  BY InitTypeOK DEF SlaInit
<1>2. SlaTypeOK
  BY DEF SlaInit, SlaTypeOK
<1>3. monitor.step \notin Kind
  BY DEF SlaInit, NoRun, Kind
<1>4. \A k \in Kind : \A r \in Requests : alerts[k][r] = 0 /\ r \notin Marked(k)
  BY DEF SlaInit, Marked
<1>5. crashes = 0
  BY DEF SlaInit, Init
<1>6. AlertsAccountedFor
  BY <1>4, <1>5 DEF AlertsAccountedFor
<1>7. MailedFirst
  BY <1>3, <1>4 DEF MailedFirst, HalfDone, SlaInit
<1>8. QED
  BY <1>1, <1>2, <1>3, <1>6, <1>7 DEF SlaInv, ListedAreUnmarked

\* A step that mails and records nothing, and takes no alert in hand.
LEMMA NothingMailed ==
  ASSUME SlaInv, [SlaNext]_allVars,
         UNCHANGED <<alertSent, nearSent, breached, alerts, unsent>>,
         \A k \in Kind, r \in Requests : HalfDone(k, r)' => HalfDone(k, r),
         crashes' > crashes \/ \A k \in Kind, r \in Requests : HalfDone(k, r) => HalfDone(k, r)'
  PROVE  AlertsAccountedFor' /\ MailedFirst'
<1>1. crashes \in Nat /\ crashes' \in Nat /\ crashes' >= crashes
  BY CrashesGrow DEF SlaInv, TypeOK
<1>2. ASSUME NEW k \in Kind, NEW r \in Requests
      PROVE  /\ alerts'[k][r] <= 1 + crashes'
             /\ r \in Marked(k)' \/ HalfDone(k, r)' \/ alerts'[k][r] <= crashes'
             /\ r \in Marked(k)' \/ HalfDone(k, r)' => Tried(k, r)'
  <2>1. /\ alerts'[k][r] = alerts[k][r] /\ alerts[k][r] \in Nat
        /\ Marked(k)' = Marked(k) /\ Tried(k, r)' = Tried(k, r)
    BY DEF SlaInv, SlaTypeOK, Marked, Tried
  <2>2. /\ alerts[k][r] <= 1 + crashes
        /\ r \in Marked(k) \/ HalfDone(k, r) \/ alerts[k][r] <= crashes
        /\ r \in Marked(k) \/ HalfDone(k, r) => Tried(k, r)
    BY DEF SlaInv, AlertsAccountedFor, MailedFirst
  <2>3. CASE crashes' > crashes
    <3>1. alerts[k][r] <= crashes'
      BY <1>1, <2>1, <2>2, <2>3
    <3>2. alerts'[k][r] <= 1 + crashes'
      BY <1>1, <2>1, <3>1
    <3>3. QED
      BY <2>1, <2>2, <3>1, <3>2
  <2>4. CASE HalfDone(k, r) => HalfDone(k, r)'
    <3>1. alerts'[k][r] <= 1 + crashes'
      BY <1>1, <2>1, <2>2
    <3>2. alerts[k][r] <= crashes => alerts'[k][r] <= crashes'
      BY <1>1, <2>1
    <3>3. QED
      BY <2>1, <2>2, <2>4, <3>1, <3>2
  <2>5. QED
    BY <2>3, <2>4
<1>3. QED
  BY <1>2 DEF AlertsAccountedFor, MailedFirst, SlaInv

LEMMA NextSlaInv == SlaInv /\ [SlaNext]_allVars => SlaInv'
<1> SUFFICES ASSUME SlaInv, [SlaNext]_allVars
             PROVE  SlaInv'
  OBVIOUS
<1>1. TypeOK' /\ SlaTypeOK'
  BY SlaKeepsTypeOK, NextSlaTypeOK DEF SlaInv
<1>2. CASE FindBreached
  <2>1. UNCHANGED <<alertSent, nearSent, breached, alerts, unsent>>
        /\ monitor'.step = "breach" /\ monitor'.current = Nobody
        /\ monitor'.todo = NewlyBreached /\ monitor.step = "idle"
    BY <1>2 DEF FindBreached, NoRun
  <2>2. ListedAreUnmarked'
    BY <2>1, NearBreachAssumption DEF ListedAreUnmarked, Marked, NewlyBreached
  <2>3. \A k \in Kind, r \in Requests : ~HalfDone(k, r) /\ ~HalfDone(k, r)'
    BY <2>1, NearBreachAssumption DEF HalfDone, Kind
  <2>4. QED
    BY <1>1, <2>1, <2>2, <2>3, NothingMailed DEF SlaInv
<1>3. CASE FindNearBreach
  <2>1. monitor \in Runs /\ monitor.current = Nobody
    BY <1>3, RunType DEF FindNearBreach, Between, Kind, SlaInv
  <2>2. UNCHANGED <<alertSent, nearSent, breached, alerts, unsent>>
        /\ monitor'.step = "near" /\ monitor'.current = Nobody
        /\ monitor'.todo \subseteq Requests \ nearSent
    BY <1>3, <2>1 DEF FindNearBreach, Runs
  <2>3. ListedAreUnmarked'
    BY <2>2, NearBreachAssumption DEF ListedAreUnmarked, Marked
  <2>4. \A k \in Kind, r \in Requests : ~HalfDone(k, r) /\ ~HalfDone(k, r)'
    BY <2>1, <2>2, NearBreachAssumption DEF HalfDone
  <2>5. QED
    BY <1>1, <2>2, <2>3, <2>4, NothingMailed DEF SlaInv
<1>4. ASSUME NEW r \in Requests, SendAlert(r)
      PROVE  SlaInv'
  <2>1. PICK k \in Kind : Between(k) /\ Mail(k, r)
    BY <1>4 DEF SendAlert
  <2>2. monitor \in Runs /\ monitor.step = k /\ monitor.current = Nobody
    BY <2>1, RunType DEF Between, SlaInv
  <2>3. monitor'.step = k /\ monitor'.current = r /\ monitor'.todo = monitor.todo \ {r}
        /\ r \in monitor.todo /\ UNCHANGED <<alertSent, nearSent, breached>>
    BY <1>4, <2>2 DEF SendAlert, Runs
  <2>4. crashes \in Nat /\ crashes' = crashes
    <3>1. monitor' # monitor
      BY <2>2, <2>3, NearBreachAssumption
    <3>2. CASE UNCHANGED vars
      BY <3>2 DEF vars, SlaInv, TypeOK
    <3>3. CASE CrashInRun \/ RunFails
      BY <2>3, <3>3 DEF CrashInRun, RunFails, NoRun, Kind
    <3>4. QED
      BY <3>1, <3>2, <3>3 DEF SlaNext, slaVars, allVars
  <2>5. ListedAreUnmarked'
    BY <2>2, <2>3 DEF ListedAreUnmarked, Marked, SlaInv
  <2>6. /\ alerts \in [Kind -> [Requests -> Nat]]
        /\ \/ alerts' = [alerts EXCEPT ![k][r] = @ + 1] /\ unsent' = unsent
           \/ alerts' = alerts /\ unsent' = unsent \union {<<k, r>>}
    BY <2>1 DEF Mail, SlaInv, SlaTypeOK
  <2>7. alerts[k][r] <= crashes
    <3>1. r \notin Marked(k)
      BY <2>2, <2>3 DEF SlaInv, ListedAreUnmarked
    <3>2. ~HalfDone(k, r)
      BY <2>2, NearBreachAssumption DEF HalfDone
    <3>3. QED
      BY <3>1, <3>2 DEF SlaInv, AlertsAccountedFor
  <2>8. ASSUME NEW l \in Kind, NEW q \in Requests
        PROVE  /\ alerts'[l][q] <= 1 + crashes'
               /\ q \in Marked(l)' \/ HalfDone(l, q)' \/ alerts'[l][q] <= crashes'
               /\ q \in Marked(l)' \/ HalfDone(l, q)' => Tried(l, q)'
    <3>1. Marked(l)' = Marked(l) /\ ~HalfDone(l, q)
      BY <2>2, <2>3, NearBreachAssumption DEF Marked, HalfDone
    <3>2. CASE l = k /\ q = r
      <4>1. /\ alerts[k][r] \in Nat
            /\ \/ alerts'[l][q] = alerts[k][r] + 1
               \/ alerts'[l][q] = alerts[k][r] /\ <<l, q>> \in unsent'
        BY <2>6, <3>2
      <4>2. HalfDone(l, q)'
        BY <2>3, <3>2 DEF HalfDone
      <4>3. alerts'[l][q] <= 1 + crashes' /\ Tried(l, q)'
        BY <2>4, <2>7, <4>1 DEF Tried
      <4>4. QED
        BY <4>2, <4>3
    <3>3. CASE ~(l = k /\ q = r)
      <4>1. /\ alerts'[l][q] = alerts[l][q] /\ ~HalfDone(l, q)'
            /\ Tried(l, q) => Tried(l, q)'
        BY <2>3, <2>6, <3>3 DEF HalfDone, Tried
      <4>2. QED
        BY <2>4, <3>1, <4>1 DEF SlaInv, AlertsAccountedFor, MailedFirst
    <3>4. QED
      BY <3>2, <3>3
  <2>9. AlertsAccountedFor' /\ MailedFirst'
    BY <2>3, <2>8 DEF AlertsAccountedFor, MailedFirst, SlaInv
  <2>10. QED
    BY <1>1, <2>5, <2>9 DEF SlaInv
<1>5. CASE RecordAlert
  <2> DEFINE k == monitor.step
             r == monitor.current
  <2>1. monitor \in Runs /\ r \in Requests /\ k \in Kind
    BY <1>5, RunType DEF RecordAlert, Runs, SlaInv
  <2>2. monitor'.step = k /\ monitor'.current = Nobody /\ monitor'.todo = monitor.todo
        /\ alerts' = alerts /\ unsent' = unsent
    BY <1>5, <2>1 DEF RecordAlert, Runs
  <2>3. \A l \in Kind : Marked(l)' = IF l = k THEN Marked(l) \union {r} ELSE Marked(l)
    BY <1>5, <2>1 DEF RecordAlert, Marked, Kind
  <2>4. alertSent' = breached'
    BY <1>5 DEF RecordAlert, SlaInv, MailedFirst
  <2>5. ListedAreUnmarked'
    <3>1. Marked(monitor.step)' = Marked(k) \union {r}
      BY <1>5, <2>1, <2>2 DEF RecordAlert, Marked, Kind
    <3>2. ASSUME NEW q \in monitor.todo
          PROVE  q \notin Marked(k) \union {r} /\ q # Nobody
      <4>1. q \in Requests
        BY <2>1 DEF Runs
      <4>2. QED
        BY <2>1, <4>1, NearBreachAssumption DEF SlaInv, ListedAreUnmarked
    <3>3. QED
      BY <2>2, <3>1, <3>2 DEF ListedAreUnmarked
  <2>6. ASSUME NEW l \in Kind, NEW q \in Requests
        PROVE  /\ alerts'[l][q] <= 1 + crashes'
               /\ q \in Marked(l)' \/ HalfDone(l, q)' \/ alerts'[l][q] <= crashes'
               /\ q \in Marked(l)' \/ HalfDone(l, q)' => Tried(l, q)'
    <3>1. alerts[l][q] \in Nat /\ crashes \in Nat /\ crashes' \in Nat /\ crashes' >= crashes
      BY CrashesGrow DEF SlaInv, SlaTypeOK, TypeOK
    <3>2. q \in Marked(l)' <=> q \in Marked(l) \/ HalfDone(l, q)
      BY <2>3 DEF HalfDone
    <3>3. ~HalfDone(l, q)'
      BY <2>2, NearBreachAssumption DEF HalfDone
    <3>4. /\ alerts[l][q] <= 1 + crashes
          /\ q \in Marked(l) \/ HalfDone(l, q) \/ alerts[l][q] <= crashes
          /\ q \in Marked(l) \/ HalfDone(l, q) => Tried(l, q)
      BY DEF SlaInv, AlertsAccountedFor, MailedFirst
    <3>5. alerts'[l][q] <= 1 + crashes' /\ (alerts[l][q] <= crashes => alerts'[l][q] <= crashes')
      BY <2>2, <3>1, <3>4
    <3>6. Tried(l, q)' = Tried(l, q)
      BY <2>2 DEF Tried
    <3>7. QED
      BY <2>2, <3>2, <3>3, <3>4, <3>5, <3>6
  <2>7. AlertsAccountedFor' /\ MailedFirst'
    BY <2>4, <2>6 DEF AlertsAccountedFor, MailedFirst
  <2>8. QED
    BY <1>1, <2>5, <2>7 DEF SlaInv
<1>6. CASE EndRun
  <2>1. monitor.current = Nobody /\ monitor' = NoRun
        /\ UNCHANGED <<alertSent, nearSent, breached, alerts, unsent>>
    BY <1>6 DEF EndRun, Between
  <2>2. \A k \in Kind, r \in Requests : ~HalfDone(k, r) /\ ~HalfDone(k, r)'
    BY <2>1, NearBreachAssumption DEF HalfDone, NoRun, Kind
  <2>3. ListedAreUnmarked'
    BY <2>1 DEF ListedAreUnmarked, NoRun, Kind
  <2>4. QED
    BY <1>1, <2>1, <2>2, <2>3, NothingMailed DEF SlaInv
<1>7. CASE CrashInRun \/ RunFails
  <2>1. monitor' = NoRun /\ crashes' > crashes
        /\ UNCHANGED <<alertSent, nearSent, breached, alerts, unsent>>
    BY <1>7 DEF CrashInRun, Crash, RunFails, SlaInv, TypeOK
  <2>2. \A k \in Kind, r \in Requests : ~HalfDone(k, r)'
    BY <2>1 DEF HalfDone, NoRun, Kind
  <2>3. ListedAreUnmarked'
    BY <2>1 DEF ListedAreUnmarked, NoRun, Kind
  <2>4. QED
    BY <1>1, <2>1, <2>2, <2>3, NothingMailed DEF SlaInv
<1>8. CASE UNCHANGED slaVars
  <2>1. UNCHANGED <<monitor, alertSent, nearSent, breached, alerts, unsent>>
    BY <1>8 DEF slaVars
  <2>2. \A k \in Kind, r \in Requests : HalfDone(k, r)' <=> HalfDone(k, r)
    BY <2>1 DEF HalfDone
  <2>3. ListedAreUnmarked'
    BY <2>1 DEF ListedAreUnmarked, Marked, SlaInv
  <2>4. QED
    BY <1>1, <2>1, <2>2, <2>3, NothingMailed DEF SlaInv
<1>9. QED
  BY <1>2, <1>3, <1>4, <1>5, <1>6, <1>7, <1>8 DEF SlaNext, MonitorStep, allVars

LEMMA SlaInvariant == SlaSpec => []SlaInv
BY InitSlaInv, NextSlaInv, PTL DEF SlaSpec

(***************************************************************************)
(* Theorems.                                                               *)
(***************************************************************************)
\* The rows and the calls, and the marks, alerts and runs of the monitor beside them,
\* keep their types.
THEOREM SlaTypeCorrect == SlaSpec => []MonitoredTypeOK
<1>1. SlaInv => MonitoredTypeOK
  BY DEF SlaInv, MonitoredTypeOK
<1>2. QED
  BY <1>1, SlaInvariant, PTL

\* Nobody is alerted twice about a row, save once more per crash or failed run:
\* monitorRightsRequests mails first and marks the row afterwards.
THEOREM AlertsAreNotRepeated == SlaSpec => []AlertedOnce
<1>1. SlaInv => AlertedOnce
  BY DEF SlaInv, AlertsAccountedFor, AlertedOnce
<1>2. QED
  BY <1>1, SlaInvariant, PTL

\* A row is marked as breached, or as near it, only after its alert was mailed
\* or its mail failed: monitorRightsRequests ignores what sendAlert comes to.
THEOREM MarksFollowAlerts == SlaSpec => []MarkedWasTried
<1>1. ASSUME SlaInv
      PROVE  MarkedWasTried
  <2>1. alertSent \subseteq Requests /\ nearSent \subseteq Requests
    BY <1>1 DEF SlaInv, SlaTypeOK
  <2>2. \A r \in Requests :
          /\ r \in alertSent => Tried("breach", r)
          /\ r \in nearSent => Tried("near", r)
    BY <1>1 DEF SlaInv, MailedFirst, Marked, Kind
  <2>3. QED
    BY <1>1, <2>1, <2>2 DEF SlaInv, MailedFirst, MarkedWasTried
<1>2. QED
  BY <1>1, SlaInvariant, PTL
=============================================================================
