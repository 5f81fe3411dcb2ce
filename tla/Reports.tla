------------------------------- MODULE Reports -------------------------------
(***************************************************************************)
(* Work done after the answer: a report, or the receipt of a consent, is   *)
(* ordered by a row and then a job in a queue.  The processor writes the   *)
(* row at its start and at its end, and between the two it stores a file   *)
(* and mails somebody.  The row may be deleted meanwhile, the server may   *)
(* stop, and a queue that takes a job for stalled runs it once more.       *)
(***************************************************************************)
EXTENDS Naturals, FiniteSets

CONSTANTS
  Runs,          \* runs of the processor: one and the reruns
  MaxTroubles    \* bound: crashes of the server and failures of the database

ASSUME ReportsAssumption ==
  /\ IsFiniteSet(Runs)
  /\ Runs \cap {"none", "due", "waiting", "ended"} = {}
  /\ MaxTroubles \in Nat

VARIABLES
  ordered,     \* what the row orders
  reportRow,   \* the GeneratedReport row
  reportJob,   \* its job: where it is, or the run that holds its lock
  run,         \* run[r]: how far the run r is
  export,      \* the export is in the store
  tempFile,    \* the file of the report is in the temporary directory
  letters,     \* letters sent
  troubles     \* crashes and failures so far

reportsVars == <<ordered, reportRow, reportJob, run, export, tempFile, letters, troubles>>

\* DSAR_EXPORT, the COMPLIANCE report of a website that is mailed, any other
\* report, and a consent receipt.
Orders == {"DSAR_EXPORT", "COMPLIANCE", "OTHER", "RECEIPT"}
ReportStatus == {"none", "RPT_PENDING", "RPT_PROCESSING", "RPT_COMPLETED", "RPT_FAILED", "deleted"}
RunSteps == {"unmade", "mark", "gather", "upload", "announce", "write", "complete", "deliver",
             "clean", "receipt", "fail", "over"}

ReportsTypeOK ==
  /\ ordered \in Orders
  /\ reportRow \in [status : ReportStatus, path : BOOLEAN]
  /\ reportJob \in {"none", "due", "waiting", "ended"} \cup Runs
  /\ run \in [Runs -> RunSteps]
  /\ export \in BOOLEAN
  /\ tempFile \in BOOLEAN
  /\ letters \in Nat
  /\ troubles \in 0 .. MaxTroubles

ReportsInit ==
  /\ ordered \in Orders
  /\ reportRow = [status |-> "none", path |-> FALSE]
  /\ reportJob = "none"
  /\ run = [r \in Runs |-> "unmade"]
  /\ export = FALSE
  /\ tempFile = FALSE
  /\ letters = 0
  /\ troubles = 0

------------------------------------------------------------------------------
(* Ordering, reading and deleting.                                         *)

Outputs == <<export, tempFile, letters>>
RowStands == reportRow.status \notin {"none", "deleted"}

\* ReportsService.create, and ConsentRecordsService.create: the row first ...
OrderReport ==
  /\ reportRow.status = "none"
  /\ reportRow' = [reportRow EXCEPT !.status = "RPT_PENDING"]
  /\ reportJob' = "due"
  /\ UNCHANGED <<ordered, run, Outputs, troubles>>

\* ... then the job.  The queue may fail, and the call is answered with an error.
QueueReport ==
  /\ reportJob = "due"
  /\ \/ reportJob' = "waiting" /\ UNCHANGED troubles
     \/ /\ troubles < MaxTroubles
        /\ troubles' = troubles + 1
        /\ reportJob' = "none"
  /\ UNCHANGED <<ordered, reportRow, run, Outputs>>

\* Whatever its status; consent records are never deleted.
DeleteReport ==
  /\ ordered # "RECEIPT"
  /\ RowStands
  /\ reportRow' = [status |-> "deleted", path |-> FALSE]
  /\ UNCHANGED <<ordered, reportJob, run, Outputs, troubles>>

\* What download asks before it hands out a link to the object.
Downloadable == reportRow.status = "RPT_COMPLETED" /\ reportRow.path

------------------------------------------------------------------------------
(* The processor.                                                          *)

Advances(r, from, to) ==
  /\ run[r] = from
  /\ run' = [run EXCEPT ![r] = to]
  /\ UNCHANGED ordered

\* A run ends; its job too, unless another run has taken it over.
EndsJob(r) == reportJob' = IF reportJob = r THEN "ended" ELSE reportJob

StartRun(r) ==
  /\ reportJob = "waiting"
  /\ Advances(r, "unmade", IF ordered = "RECEIPT" THEN "receipt" ELSE "mark")
  /\ reportJob' = r
  /\ UNCHANGED <<reportRow, Outputs, troubles>>

\* A write by id: it throws if the row is gone.
WritesRow(r, from, status, path, to) ==
  /\ Advances(r, from, IF RowStands THEN to ELSE "fail")
  /\ reportRow' = IF RowStands THEN [status |-> status, path |-> path] ELSE reportRow
  /\ UNCHANGED <<reportJob, Outputs, troubles>>

MarkProcessing(r) == WritesRow(r, "mark", "RPT_PROCESSING", reportRow.path, "gather")

\* The row is read again.  An export needs its parameters; without them the other
\* reports are not that of a website, and are written all the same.
Gather(r) ==
  /\ Advances(r, "gather", IF ordered # "DSAR_EXPORT" THEN "write"
                           ELSE IF RowStands THEN "upload" ELSE "fail")
  /\ UNCHANGED <<reportRow, reportJob, Outputs, troubles>>

\* The parameters name no address or no website, or the store refuses the object.
GenerationFails(r) ==
  /\ \E from \in {"gather", "upload", "write"} : Advances(r, from, "fail")
  /\ UNCHANGED <<reportRow, reportJob, Outputs, troubles>>

Upload(r) ==
  /\ Advances(r, "upload", "announce")
  /\ export' = TRUE
  /\ UNCHANGED <<reportRow, reportJob, tempFile, letters, troubles>>

\* A letter may fail to go: the result is not looked at.
Letter == letters' \in {letters, letters + 1}

Announce(r) ==
  /\ Advances(r, "announce", "complete")
  /\ Letter
  /\ UNCHANGED <<reportRow, reportJob, export, tempFile, troubles>>

WriteFile(r) ==
  /\ Advances(r, "write", "complete")
  /\ tempFile' = TRUE
  /\ UNCHANGED <<reportRow, reportJob, export, letters, troubles>>

\* filePath: only an export is in the store; the other files stay local.
StoredPath == ordered = "DSAR_EXPORT"

CompleteReport(r) == WritesRow(r, "complete", "RPT_COMPLETED", StoredPath, "deliver")

MailsReport == ordered = "COMPLIANCE" /\ tempFile

Deliver(r) ==
  /\ Advances(r, "deliver", "clean")
  /\ IF MailsReport THEN Letter ELSE UNCHANGED letters
  /\ UNCHANGED <<reportRow, reportJob, export, tempFile, troubles>>

\* The file is one for all runs of the report.
RemoveFile(r) ==
  /\ Advances(r, "clean", "over")
  /\ tempFile' = FALSE
  /\ EndsJob(r)
  /\ UNCHANGED <<reportRow, export, letters, troubles>>

\* ConsentReceiptProcessor: the record is read, and the receipt mailed.
SendReceipt(r) ==
  /\ Advances(r, "receipt", "over")
  /\ Letter
  /\ EndsJob(r)
  /\ UNCHANGED <<reportRow, export, tempFile, troubles>>

\* Mutant: the error is only logged.
FailedRowLogged(row) == row

FailedRow(row) == IF RowStands THEN [row EXCEPT !.status = "RPT_FAILED"] ELSE row

\* What went wrong is written to the row, if it is still there.
FailRun(r) ==
  /\ Advances(r, "fail", "over")
  /\ reportRow' = FailedRow(reportRow)
  /\ EndsJob(r)
  /\ UNCHANGED <<Outputs, troubles>>

\* The database refuses a write: that of the status makes the run fail, and that of
\* the failure goes unwritten.
WriteFails(r) ==
  /\ \/ \E from \in {"mark", "complete"} : Advances(r, from, "fail") /\ UNCHANGED reportJob
     \/ \E from \in {"fail", "receipt"} : Advances(r, from, "over") /\ EndsJob(r)
  /\ troubles < MaxTroubles
  /\ troubles' = troubles + 1
  /\ UNCHANGED <<reportRow, Outputs>>

\* Another run can be made of a job.
RunsLeft == \E r \in Runs : run[r] = "unmade"

\* The lock of a run expires while it works: the job is taken up once more.
JobStalls ==
  /\ reportJob \in Runs
  /\ RunsLeft
  /\ reportJob' = "waiting"
  /\ UNCHANGED <<ordered, reportRow, run, Outputs, troubles>>

\* The server stops; the job it held is found stalled.
ReportServerStops ==
  /\ troubles < MaxTroubles
  /\ troubles' = troubles + 1
  /\ run' = [r \in Runs |-> IF run[r] = "unmade" THEN "unmade" ELSE "over"]
  /\ reportJob' = CASE reportJob = "due" -> "none"
                    [] reportJob \in Runs -> IF RunsLeft THEN "waiting" ELSE "ended"
                    [] OTHER -> reportJob
  /\ UNCHANGED <<ordered, reportRow, Outputs>>

ReportsNext ==
  \/ OrderReport \/ QueueReport \/ DeleteReport
  \/ \E r \in Runs :
       \/ StartRun(r) \/ MarkProcessing(r) \/ Gather(r) \/ GenerationFails(r)
       \/ Upload(r) \/ Announce(r) \/ WriteFile(r)
       \/ CompleteReport(r) \/ Deliver(r) \/ RemoveFile(r)
       \/ SendReceipt(r)
       \/ FailRun(r) \/ WriteFails(r)
  \/ JobStalls \/ ReportServerStops

ReportsSpec == ReportsInit /\ [][ReportsNext]_reportsVars

------------------------------------------------------------------------------
(* Properties.                                                             *)

Made(r) == run[r] # "unmade"
Working(r) == Made(r) /\ run[r] # "over"

\* A download is answered only with an object that is in the store, and nobody is
\* mailed about an export that is not there: the processor uploads before it writes
\* the path, and a row may be deleted, fail and be completed by another run.
DownloadHasExport ==
  /\ Downloadable => export
  /\ ordered = "DSAR_EXPORT" /\ letters > 0 => export

\* A row that waits or is being processed has a job or a run that will end it, unless
\* a crash or a failure of the database came between: a deletion, or a second
\* run of the job beside the first, never leaves it unfinished.
ReportSettles ==
  ordered # "RECEIPT" /\ reportRow.status \in {"RPT_PENDING", "RPT_PROCESSING"} =>
    \/ reportJob \in {"due", "waiting"}
    \/ \E r \in Runs : Working(r)
    \/ troubles > 0

\* However runs overlap, fail and are repeated, nobody gets more letters than there
\* were runs of the job.
LettersWithinRuns ==
  letters =< Cardinality({r \in Runs : Made(r)})

\* What a report and its letters keep although runs overlap and the row may go.
ReportsHold == DownloadHasExport /\ ReportSettles /\ LettersWithinRuns
=============================================================================
