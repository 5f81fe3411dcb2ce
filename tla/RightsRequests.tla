--------------------------- MODULE RightsRequests ----------------------------
(***************************************************************************)
(* The life of a rights request: the status-changing calls of              *)
(* RightsRequestsService and the worker of the 'erasure' queue.            *)
(*                                                                         *)
(* A call is three things that happen at different times.  findOne reads   *)
(* the row on its own; the transition is validated against that copy; and  *)
(* a transaction then updates the row by its id alone, with no condition   *)
(* on the status.  Between the first and the last any other call, the      *)
(* worker or the SLA monitor may write the same row.  Inside a transaction *)
(* the row is locked by its first statement, but the erasure job and the   *)
(* data-pack report are queued before the commit and are not undone by a   *)
(* rollback.                                                               *)
(***************************************************************************)
EXTENDS Integers, Sequences, RightsStatus

CONSTANTS
  Requests,         \* the rights requests on file
  Clerks,           \* callers of the controller, one call in flight each
  Routes,           \* the status-changing routes the clerks use
  Types,            \* request types that occur
  InitialStatuses,  \* the statuses the rows are found in
  DueDates,         \* the due dates a row is found with or is given
  MaxTime,          \* bound: the clock stops here
  MaxQueue,         \* bound: length of the erasure queue
  MaxCrashes        \* bound: crashes of the server process

AllRoutes == {"updateStatus", "approve", "reject", "escalate",
              "requestMoreInfo", "partialFulfil", "generateExtract", "update"}

ASSUME ParametersAssumption ==
  /\ Routes \subseteq AllRoutes
  /\ Types \subseteq {"ACCESS", "ERASURE", "OTHER"}
  /\ InitialStatuses \subseteq Status \ Terminal
  /\ DueDates \subseteq Nat
  /\ MaxTime \in Nat
  /\ MaxQueue \in Nat
  /\ MaxCrashes \in Nat

NoTime == -1        \* a timestamp column that is NULL

VARIABLES
  row,        \* row[r]: the RightsRequest row of r
  clerk,      \* clerk[c]: the call c has in flight
  queue,      \* the waiting jobs of the 'erasure' queue, oldest first
  worker,     \* the ErasureProcessor and the job it holds
  failed,     \* the requests an erasure job has failed for, for good
  scrubbed,   \* scrubbed[r]: the tables anonymised for the requester of r
  confirmed,  \* the requests whose requester was told of the erasure
  now,        \* the clock
  crashes,    \* crashes so far
  visited,    \* history: the statuses each row has been committed in
  ordered     \* history: ordered[r], the jobs ever queued on behalf of r

vars == <<row, clerk, queue, worker, failed, scrubbed, confirmed, now,
          crashes, visited, ordered>>
caseVars   == <<row, visited>>
jobVars    == <<queue, ordered>>
workerVars == <<worker, failed, scrubbed, confirmed>>
clockVars  == <<now, crashes>>

(***************************************************************************)
(* Types.                                                                  *)
(***************************************************************************)
JobName == {"process-erasure", "generate-dsar-extract", "dsar-pack"}
Tables  == {"consents", "grievances"}

Row == [status : Status, type : Types, due : Int,
        pausedAt : Nat \union {NoTime}, closed : BOOLEAN]

Job == [req : Requests, name : JobName, stalls : Nat]

NoCall   == [pc |-> "idle"]
InFlight == [pc : {"read", "tx"}, route : AllRoutes, target : Status,
             req : Requests, snap : Row]

NoJob == [step |-> "idle"]
Busy  == [step : {"consents", "grievances", "confirm", "close"}, job : Job]

TypeOK ==
  /\ row \in [Requests -> Row]
  /\ clerk \in [Clerks -> {NoCall} \union InFlight]
  /\ queue \in Seq(Job)
  /\ worker \in {NoJob} \union Busy
  /\ failed \subseteq Requests
  /\ scrubbed \in [Requests -> SUBSET Tables]
  /\ confirmed \subseteq Requests
  /\ now \in Nat
  /\ crashes \in Nat
  /\ visited \in [Requests -> SUBSET Status]
  /\ ordered \in [Requests -> SUBSET JobName]

Init ==
  /\ row \in [Requests -> [status : InitialStatuses, type : Types,
                           due : DueDates \union {NoTime},
                           pausedAt : {NoTime}, closed : {FALSE}]]
  /\ clerk = [c \in Clerks |-> NoCall]
  /\ queue = <<>>
  /\ worker = NoJob
  /\ failed = {}
  /\ scrubbed = [r \in Requests |-> {}]
  /\ confirmed = {}
  /\ now = 0
  /\ crashes = 0
  /\ visited = [r \in Requests |-> {row[r].status}]
  /\ ordered = [r \in Requests |-> {}]

(***************************************************************************)
(* Calls.                                                                  *)
(***************************************************************************)
\* What a status-changing call asks for, as the route and the status it
\* leads to: the quick actions each have one, PUT /status names its own.
UpdateStatus    == {"updateStatus"} \X Status
Approve         == {<<"approve", "ACTION_TAKEN">>}
Reject          == {<<"reject", "REJECTED">>}
Escalate        == {<<"escalate", "ESCALATED">>}
RequestMoreInfo == {<<"requestMoreInfo", "ON_HOLD">>}
PartialFulfil   == {<<"partialFulfil", "PARTIAL_FULFILMENT">>}

Calls == UpdateStatus \union Approve \union Reject \union Escalate
           \union RequestMoreInfo \union PartialFulfil

\* An open transaction holds the lock of the row it has updated.
Locked(r) == \E c \in Clerks : clerk[c].pc = "tx" /\ clerk[c].req = r

Enter(r, newRow) ==
  /\ row' = [row EXCEPT ![r] = newRow]
  /\ visited' = [visited EXCEPT ![r] = @ \union {newRow.status}]

Enqueue(r, name) ==
  /\ Len(queue) < MaxQueue
  /\ queue' = Append(queue, [req |-> r, name |-> name, stalls |-> 0])
  /\ ordered' = [ordered EXCEPT ![r] = @ \union {name}]

Finish(c) == clerk' = [clerk EXCEPT ![c] = NoCall]

\* Mutant: a copy of the row, and no look at the table of transitions.
ReadUnchecked(c, r, call) ==
  /\ clerk[c] = NoCall
  /\ call[1] \in Routes
  /\ clerk' = [clerk EXCEPT ![c] =
                 [pc |-> "read", route |-> call[1], target |-> call[2],
                  req |-> r, snap |-> row[r]]]
  /\ UNCHANGED <<caseVars, jobVars, workerVars, clockVars>>

\* findOne and the validation of the move against the copy it returns, which
\* is all the rest of the call goes by.  A call the table does not allow is
\* answered 400 here and changes nothing.
Read(c, r, call) ==
  /\ clerk[c] = NoCall
  /\ call[1] \in Routes
  /\ Allowed(row[r].status, call[2])
  /\ clerk' = [clerk EXCEPT ![c] =
                 [pc |-> "read", route |-> call[1], target |-> call[2],
                  req |-> r, snap |-> row[r]]]
  /\ UNCHANGED <<caseVars, jobVars, workerVars, clockVars>>

\* Mutant: the two statuses of the resume, the wrong way round.
NeedsResumeSwapped(c) ==
  /\ clerk[c].route = "updateStatus"
  /\ clerk[c].target = "ON_HOLD"
  /\ clerk[c].snap.status = "IN_REVIEW"
  /\ clerk[c].snap.pausedAt # NoTime

\* updateStatus restarts the SLA clock before it does anything else.
NeedsResume(c) ==
  /\ clerk[c].route = "updateStatus"
  /\ clerk[c].target = "IN_REVIEW"
  /\ clerk[c].snap.status = "ON_HOLD"
  /\ clerk[c].snap.pausedAt # NoTime

\* Mutant: the row is incremented, not overwritten from the copy.
ResumedDueIncremented(c) ==
  row[clerk[c].req].due + (now - clerk[c].snap.pausedAt)

\* The new due date is computed from the copy that was read.
ResumedDue(c) ==
  clerk[c].snap.due + (now - clerk[c].snap.pausedAt)

\* The resume write, outside any transaction.
Resume(c) ==
  LET r   == clerk[c].req
      due == ResumedDue(c)
  IN  /\ clerk[c].pc = "read"
      /\ NeedsResume(c)
      /\ clerk[c].snap.due # NoTime
      /\ ~Locked(r)
      /\ Enter(r, [row[r] EXCEPT !.due = due, !.pausedAt = NoTime])
      /\ clerk' = [clerk EXCEPT ![c].snap.due = due,
                                ![c].snap.pausedAt = NoTime]
      /\ UNCHANGED <<jobVars, workerVars, clockVars>>

\* 500: request.dueDate.getTime() on a row without a due date.
ResumeThrows(c) ==
  /\ clerk[c].pc = "read"
  /\ NeedsResume(c)
  /\ clerk[c].snap.due = NoTime
  /\ Finish(c)
  /\ UNCHANGED <<caseVars, jobVars, workerVars, clockVars>>

\* Mutant: the fulfilment is queued whatever the status that is entered.
FulfilsAnyMove(c, job) ==
  <<clerk[c].snap.type, job>> \in {<<"ERASURE", "process-erasure">>,
                                  <<"ACCESS", "dsar-pack">>}

\* Entering ACTION_TAKEN (updateStatus, approve) queues the fulfilment.
Fulfils(c, job) ==
  /\ clerk[c].target = "ACTION_TAKEN"
  /\ <<clerk[c].snap.type, job>> \in {<<"ERASURE", "process-erasure">>,
                                     <<"ACCESS", "dsar-pack">>}

\* The call has the copy it needs and the row is free.
Ready(c) ==
  /\ clerk[c].pc = "read"
  /\ ~NeedsResume(c)
  /\ ~Locked(clerk[c].req)

\* The transaction up to its commit: the row is updated and locked, and the
\* fulfilment job is queued (a data pack goes to the 'reports' queue).  In
\* approve, but not in updateStatus, a queue that fails is ignored.
BeginTransaction(c) ==
  /\ Ready(c)
  /\ clerk' = [clerk EXCEPT ![c].pc = "tx"]
  /\ \/ /\ (\A job \in JobName : ~Fulfils(c, job)) \/ clerk[c].route = "approve"
        /\ UNCHANGED jobVars
     \/ /\ Fulfils(c, "process-erasure")
        /\ Enqueue(clerk[c].req, "process-erasure")
     \/ /\ Fulfils(c, "dsar-pack")
        /\ ordered' = [ordered EXCEPT ![clerk[c].req] = @ \union {"dsar-pack"}]
        /\ UNCHANGED queue
  /\ UNCHANGED <<caseVars, workerVars, clockVars>>

\* A call that ends without effect on the row: the database fails it, the
\* queue throws in updateStatus, the commit fails, or the transaction outlasts
\* its five seconds, which it may spend waiting for the lock.
Rollback(c) ==
  /\ clerk[c].pc \in {"read", "tx"}
  /\ Finish(c)
  /\ UNCHANGED <<caseVars, jobVars, workerVars, clockVars>>

\* requestMoreInfo stops the SLA clock at the present moment.
PausedAt == now

\* closedAt is set by the moves that end the case.
Closes(t) == t \in Terminal

\* The commit.  requestMoreInfo sets slaPausedAt when the SLA rule in force
\* pauses the clock, which is data the model leaves open.
Commit(c) ==
  LET r == clerk[c].req
      t == clerk[c].target
  IN  /\ clerk[c].pc = "tx"
      /\ \E pause \in BOOLEAN :
           /\ pause => clerk[c].route = "requestMoreInfo"
           /\ Enter(r, [row[r] EXCEPT
                          !.status = t,
                          !.closed = @ \/ Closes(t),
                          !.pausedAt = IF pause THEN PausedAt ELSE @])
      /\ Finish(c)
      /\ UNCHANGED <<jobVars, workerVars, clockVars>>

\* generateExtract: whatever the status of the request.  Its only guard is
\* on the type, so reading and queueing are one step.
GenerateExtract(r) ==
  /\ "generateExtract" \in Routes
  /\ row[r].type \in {"ACCESS", "ERASURE"}
  /\ Enqueue(r, "generate-dsar-extract")
  /\ UNCHANGED <<caseVars, clerk, workerVars, clockVars>>

\* PUT /requests/:id writes the type and the due date it is given, and never
\* looks at the status.
Update(r) ==
  /\ "update" \in Routes
  /\ ~Locked(r)
  /\ \E type \in Types, due \in DueDates \union {row[r].due} :
       Enter(r, [row[r] EXCEPT !.type = type, !.due = due])
  /\ UNCHANGED <<clerk, jobVars, workerVars, clockVars>>

(***************************************************************************)
(* The erasure worker.  Whatever the name of the job, it anonymises the    *)
(* consent records, then the grievances of the requester, tells them, and  *)
(* closes the request.                                                     *)
(***************************************************************************)
TakeJob ==
  /\ worker = NoJob
  /\ queue # <<>>
  /\ worker' = [step |-> "consents", job |-> Head(queue)]
  /\ queue' = Tail(queue)
  /\ UNCHANGED <<caseVars, clerk, ordered, failed, scrubbed, confirmed,
                 clockVars>>

Scrub(table, next) ==
  /\ worker.step = table
  /\ scrubbed' = [scrubbed EXCEPT ![worker.job.req] = @ \union {table}]
  /\ worker' = [worker EXCEPT !.step = next]
  /\ UNCHANGED <<caseVars, clerk, jobVars, failed, confirmed, clockVars>>

\* Mutant: the grievances are passed over.
ScrubConsentsOnly == Scrub("consents", "confirm")

ScrubConsents   == Scrub("consents", "grievances")
ScrubGrievances == Scrub("grievances", "confirm")

SendErasureConfirmation ==
  /\ worker.step = "confirm"
  /\ \/ confirmed' = confirmed \union {worker.job.req}
     \/ UNCHANGED confirmed          \* a mail that fails is only logged
  /\ worker' = [worker EXCEPT !.step = "close"]
  /\ UNCHANGED <<caseVars, clerk, jobVars, failed, scrubbed, clockVars>>

\* Mutant: the worker sets the status and no date.
CloseErasedUndated ==
  /\ worker.step = "close"
  /\ ~Locked(worker.job.req)
  /\ Enter(worker.job.req, [row[worker.job.req] EXCEPT !.status = "COMPLETED"])
  /\ worker' = NoJob
  /\ UNCHANGED <<clerk, jobVars, failed, scrubbed, confirmed, clockVars>>

\* Mutant: the worker reports the action and leaves the closing to a clerk.
CloseErasedAsActionTaken ==
  /\ worker.step = "close"
  /\ ~Locked(worker.job.req)
  /\ Enter(worker.job.req, [row[worker.job.req] EXCEPT !.status = "ACTION_TAKEN"])
  /\ worker' = NoJob
  /\ UNCHANGED <<clerk, jobVars, failed, scrubbed, confirmed, clockVars>>

CloseErased ==
  /\ worker.step = "close"
  /\ LET r == worker.job.req
     IN  /\ ~Locked(r)
         /\ Enter(r, [row[r] EXCEPT !.status = "COMPLETED", !.closed = TRUE])
  /\ worker' = NoJob
  /\ UNCHANGED <<clerk, jobVars, failed, scrubbed, confirmed, clockVars>>

\* Mutant: the error is logged and the job counts as done.
JobFailsSilently ==
  /\ worker # NoJob
  /\ worker' = NoJob
  /\ UNCHANGED <<caseVars, clerk, jobVars, failed, scrubbed, confirmed, clockVars>>

\* A database error: the job has one attempt and is not retried.
JobFails ==
  /\ worker # NoJob
  /\ failed' = failed \union {worker.job.req}
  /\ worker' = NoJob
  /\ UNCHANGED <<caseVars, clerk, jobVars, scrubbed, confirmed, clockVars>>

WorkerStep ==
  TakeJob \/ ScrubConsents \/ ScrubGrievances \/ SendErasureConfirmation
  \/ CloseErased

\* The server process dies: open transactions roll back, calls are lost, and
\* BullMQ gives the stalled job to the next worker, once.
Crash ==
  /\ crashes < MaxCrashes
  /\ crashes' = crashes + 1
  /\ clerk' = [c \in Clerks |-> NoCall]
  /\ worker' = NoJob
  /\ IF worker = NoJob
     THEN UNCHANGED <<queue, failed>>
     ELSE IF worker.job.stalls = 0
          THEN /\ queue' = <<[worker.job EXCEPT !.stalls = 1]>> \o queue
               /\ UNCHANGED failed
          ELSE /\ failed' = failed \union {worker.job.req}
               /\ UNCHANGED queue
  /\ UNCHANGED <<caseVars, ordered, scrubbed, confirmed, now>>

Tick ==
  /\ now < MaxTime
  /\ now' = now + 1
  /\ UNCHANGED <<caseVars, clerk, jobVars, workerVars, crashes>>

(***************************************************************************)
(* The specification.                                                      *)
(***************************************************************************)
CallStep(c) ==
  \/ \E r \in Requests, call \in Calls : Read(c, r, call)
  \/ Resume(c) \/ ResumeThrows(c)
  \/ BeginTransaction(c) \/ Rollback(c) \/ Commit(c)

Running ==
  \/ \E c \in Clerks : CallStep(c)
  \/ \E r \in Requests : GenerateExtract(r) \/ Update(r)
  \/ WorkerStep
  \/ JobFails
  \/ Tick

Next == Running \/ Crash

Spec == Init /\ [][Next]_vars

\* The worker goes on as long as it has jobs, a call in flight ends, for a
\* transaction commits or times out, and row locks are granted in turn, so the
\* closing write is not passed over for ever.  Nothing makes a clerk call.
Fairness ==
  /\ WF_vars(TakeJob \/ ScrubConsents \/ ScrubGrievances
             \/ SendErasureConfirmation)
  /\ SF_vars(CloseErased)
  /\ \A c \in Clerks : WF_vars(Rollback(c) \/ Commit(c))

FairSpec == Spec /\ Fairness

(***************************************************************************)
(* Safety, for any number of clerks.                                       *)
(***************************************************************************)
\* A request that came in as RECEIVED is in nobody's hands before its
\* identity check: STATUS_TRANSITIONS leads into review only from there, and
\* the unconditional updates of racing calls open no other way.
VerifiedFirst ==
  \A r \in Requests :
    "RECEIVED" \in visited[r] /\ visited[r] \cap InHand # {}
      => "IN_VERIFICATION" \in visited[r]

\* No consent record or grievance is anonymised, and no data pack made, for a
\* request that never was in review (or escalated from it), unless somebody
\* asked generate-extract for it: updateStatus and approve queue their jobs
\* before the commit, so a job may outlive the transaction that queued it.
NothingDoneUnreviewed ==
  \A r \in Requests :
    \/ visited[r] \cap {"IN_REVIEW", "ESCALATED"} # {}
    \/ "generate-dsar-extract" \in ordered[r] /\ "dsar-pack" \notin ordered[r]
    \/ scrubbed[r] = {} /\ "dsar-pack" \notin ordered[r]

\* The requester is told of the erasure only when both tables are scrubbed,
\* also when the job was started again after a crash.
ConfirmedIsScrubbed ==
  \A r \in confirmed : scrubbed[r] = Tables

\* Whatever writer ends a case stamps closedAt with it.
TerminalIsClosed ==
  \A r \in Requests : row[r].status \in Terminal => row[r].closed

\* A deadline is one that was given, put off by no more than the time gone
\* by: two calls resuming the same pause from stale copies do not add up.
DeadlineBound ==
  \A r \in Requests :
    row[r].due # NoTime =>
      \E d \in DueDates : d <= row[r].due /\ row[r].due <= d + now

\* The service as a whole keeps the promise of RightsLifecycle.
Lifecycle ==
  INSTANCE RightsLifecycle WITH
    status <- [r \in Requests |-> row[r].status],
    erasureQueued <-
      {r \in Requests :
         ordered[r] \cap {"process-erasure", "generate-dsar-extract"} # {}}

LifecycleSpec == Lifecycle!Spec

(***************************************************************************)
(* Properties the calls have one at a time and lose when they race.        *)
(***************************************************************************)
\* Every status change follows STATUS_TRANSITIONS.
ValidatedMove ==
  \A r \in Requests :
    row'[r].status # row[r].status => Allowed(row[r].status, row'[r].status)

\* A case that is open and not on hold has a running SLA clock: the SLA
\* monitor skips every row whose slaPausedAt is set.
OpenClockRuns ==
  \A r \in Requests :
    row[r].pausedAt # NoTime => row[r].status \in Terminal \union {"ON_HOLD"}

(***************************************************************************)
(* A statement of the code that does not hold.                             *)
(***************************************************************************)
\* A request for which only an extract was asked keeps its data.
ExtractErasesNothing ==
  \A r \in Requests :
    ordered[r] \subseteq {"generate-dsar-extract"} => scrubbed[r] = {}

(***************************************************************************)
(* Liveness.                                                               *)
(***************************************************************************)
\* A job on the erasure queue is carried out to the end, unless it fails: it
\* survives one crash of the worker that holds it.
QueuedErasureSettles ==
  \A r \in Requests :
    (\E i \in DOMAIN queue : queue[i].req = r)
      ~> \/ scrubbed[r] = Tables /\ row[r].status = "COMPLETED"
         \/ r \in failed
=============================================================================
