----------------------------- MODULE CookieScans -----------------------------
(***************************************************************************)
(* Cookie scans of the registered websites: the calls of                   *)
(* CookiesManagementService that ask for a scan, the hourly scheduler, the *)
(* 'cookie-scanner' queue and its processor.                               *)
(*                                                                         *)
(* The status of a website is written by all three and read by the         *)
(* scheduler, which passes over a website that is PENDING or IN_PROGRESS.  *)
(* A caller and the scheduler write PENDING after they have put the job on *)
(* the queue, so the job may be ahead of them; a website may be deleted,   *)
(* scanned twice at a time, or left by a process that dies.                *)
(***************************************************************************)
EXTENDS Integers, Sequences, FiniteSets

CONSTANTS
  Sites,          \* the websites that exist or come to exist
  Callers,        \* callers of the controller, one call in flight each
  InitialStatuses,\* the statuses the websites are found in, UNBORN included
  Periods,        \* the scan frequencies that occur, in ticks of the clock
  Concurrency,    \* scans the processor works on at a time
  Attempts,       \* attempts a job has
  Window,         \* the websites one run of the scheduler looks at
  KeepCompleted,  \* completed jobs the queue keeps
  KeepFailed,     \* failed jobs the queue keeps
  MaxManual,      \* bound: scans asked for by callers
  MaxTime,        \* bound: the clock stops here
  MaxCrashes      \* bound: crashes of the server, and last words lost

ScanStatus == {"PENDING", "IN_PROGRESS", "COMPLETED", "FAILED"}

ASSUME ScanAssumption ==
  /\ IsFiniteSet(Sites)
  /\ InitialStatuses \subseteq {"UNBORN", "FAILED"}
  /\ Periods \subseteq Nat \ {0}
  /\ Concurrency \in Nat \ {0}
  /\ Attempts \in Nat \ {0}
  /\ Window \in Nat
  /\ KeepCompleted \in Nat \ {0}
  /\ KeepFailed \in Nat \ {0}
  /\ MaxManual \in Nat
  /\ MaxTime \in Nat
  /\ MaxCrashes \in Nat

NoTime == -1        \* a website that was never scanned

VARIABLES
  site,       \* site[w]: the ScannedWebsite row of w
  listed,     \* listed[w]: CookieInventory rows of one cookie of w
  job,        \* job[id]: what the queue and the processor know of a job
  kept,       \* kept[o]: the ids of the jobs that ended in o and are kept
  call,       \* call[c]: the call c has in flight
  manuals,    \* scans asked for by callers so far
  cron,       \* the scheduler's run
  now,        \* the clock
  crashes,    \* crashes and lost words so far
  abandoned   \* history: websites whose scan ended without a last word

vars == <<site, listed, job, kept, call, manuals, cron, now, crashes, abandoned>>
siteVars  == <<site, listed, abandoned>>
queueVars == <<job, kept>>
callVars  == <<call, manuals>>
clockVars == <<now, crashes>>

Row == [status : ScanStatus \union {"UNBORN", "GONE"},
        lastScan : Nat \union {NoTime}, period : Periods]

\* The scheduled job of a website has one id, a caller's job one of its own.
JobId        == Sites \X (0 .. MaxManual)
Scheduled(w) == <<w, 0>>
SiteOf(id)   == id[1]

Stages   == {"mark", "crawl", "store", "save", "report"}
Outcomes == {"completed", "failed"}
Unsettled == {"waiting", "delayed", "stalled"} \union Stages

Job   == [state : {"none"} \union Unsettled \union Outcomes,
          tries : Nat, stalls : Nat]
NoJob == [state |-> "none", tries |-> 0, stalls |-> 0]

NoCall   == [step |-> "idle"]
InFlight == [step : {"add", "pend"}, op : {"create", "edit", "start"},
             site : Sites]

NoRun  == [step |-> "idle"]
CronRun == [step : {"next"}, todo : SUBSET Sites]
             \union [step : {"pend"}, todo : SUBSET Sites, site : Sites]

ScanTypeOK ==
  /\ site \in [Sites -> Row]
  /\ listed \in [Sites -> Nat]
  /\ job \in [JobId -> Job]
  /\ kept \in [Outcomes -> Seq(JobId)]
  /\ call \in [Callers -> {NoCall} \union InFlight]
  /\ manuals \in 0 .. MaxManual
  /\ cron \in {NoRun} \union CronRun
  /\ now \in Nat
  /\ crashes \in Nat
  /\ abandoned \subseteq Sites

Init ==
  /\ site \in [Sites -> [status : InitialStatuses, lastScan : {NoTime},
                         period : Periods]]
  /\ listed = [w \in Sites |-> 0]
  /\ job = [id \in JobId |-> NoJob]
  /\ kept = [o \in Outcomes |-> <<>>]
  /\ call = [c \in Callers |-> NoCall]
  /\ manuals = 0
  /\ cron = NoRun
  /\ now = 0
  /\ crashes = 0
  /\ abandoned = {}

Exists(w) == site[w].status \in ScanStatus

(***************************************************************************)
(* The queue.                                                              *)
(***************************************************************************)
\* queue.add: an id that the queue still knows, in whatever state, is not
\* added again.
Added(id) ==
  IF job[id].state = "none"
  THEN [job EXCEPT ![id] = [NoJob EXCEPT !.state = "waiting"]]
  ELSE job

Keep == [completed |-> KeepCompleted, failed |-> KeepFailed]

\* A job ends with outcome o; the oldest of those kept beyond the limit goes.
Settle(id, o) ==
  LET all  == Append(kept[o], id)
      over == Len(all) > Keep[o]
  IN  /\ kept' = [kept EXCEPT ![o] = IF over THEN Tail(all) ELSE all]
      /\ job' = [j \in JobId |->
                   IF over /\ j = Head(all) THEN NoJob
                   ELSE IF j = id THEN [job[j] EXCEPT !.state = o]
                   ELSE job[j]]

Goto(id, stage) ==
  /\ job' = [job EXCEPT ![id].state = stage]
  /\ UNCHANGED kept

\* An attempt failed: it is repeated after a pause, or it was the last.
Retry(id) ==
  IF job[id].tries + 1 < Attempts
  THEN /\ job' = [job EXCEPT ![id].state = "delayed", ![id].tries = @ + 1]
       /\ UNCHANGED kept
  ELSE Settle(id, "failed")

BackoffOver(id) ==
  /\ job[id].state = "delayed"
  /\ Goto(id, "waiting")
  /\ UNCHANGED <<siteVars, callVars, cron, clockVars>>

Active == {id \in JobId : job[id].state \in Stages}

(***************************************************************************)
(* The callers.                                                            *)
(***************************************************************************)
EndCall(c) == call' = [call EXCEPT ![c] = NoCall]

Ask(c, op, w) ==
  /\ call[c] = NoCall
  /\ manuals < MaxManual
  /\ manuals' = manuals + 1
  /\ call' = [call EXCEPT ![c] = [step |-> "add", op |-> op, site |-> w]]

\* createWebsite: the row is PENDING by default.
CreateWebsite(c, w) ==
  /\ site[w].status = "UNBORN"
  /\ Ask(c, "create", w)
  /\ site' = [site EXCEPT ![w].status = "PENDING"]
  /\ UNCHANGED <<listed, abandoned, queueVars, cron, clockVars>>

\* updateWebsite, up to the queue: the frequency may be another.
UpdateWebsite(c, w) ==
  /\ Exists(w)
  /\ Ask(c, "edit", w)
  /\ \E p \in Periods : site' = [site EXCEPT ![w].period = p]
  /\ UNCHANGED <<listed, abandoned, queueVars, cron, clockVars>>

StartScan(c, w) ==
  /\ Exists(w)
  /\ Ask(c, "start", w)
  /\ UNCHANGED <<siteVars, queueVars, cron, clockVars>>

\* A scan asked for by a caller gets a job of its own, and only createWebsite
\* ends with it.
AddManual(c) ==
  /\ call[c].step = "add"
  /\ \E n \in 1 .. manuals :
       /\ \A w \in Sites : job[<<w, n>>].state = "none"
       /\ job' = Added(<<call[c].site, n>>)
  /\ UNCHANGED kept
  /\ IF call[c].op = "create" THEN EndCall(c)
     ELSE call' = [call EXCEPT ![c].step = "pend"]
  /\ UNCHANGED <<siteVars, manuals, cron, clockVars>>

\* The update that follows, of a row that may have been deleted.
PendManual(c) ==
  LET w == call[c].site
  IN  /\ call[c].step = "pend"
      /\ IF Exists(w)
         THEN site' = [site EXCEPT ![w].status = "PENDING", ![w].lastScan = now]
         ELSE UNCHANGED site
      /\ EndCall(c)
      /\ UNCHANGED <<listed, abandoned, queueVars, manuals, cron, clockVars>>

\* The queue or the database fails the call.
CallFails(c) ==
  /\ call[c] # NoCall
  /\ EndCall(c)
  /\ UNCHANGED <<siteVars, queueVars, manuals, cron, clockVars>>

\* Mutant: one row of the inventory goes with the website.
DeleteWebsiteOneRow(w) ==
  /\ Exists(w)
  /\ site' = [site EXCEPT ![w].status = "GONE", ![w].lastScan = NoTime]
  /\ listed' = [listed EXCEPT ![w] = @ - 1]
  /\ UNCHANGED <<abandoned, queueVars, callVars, cron, clockVars>>

\* The rows of the inventory go with the website.
DeleteWebsite(w) ==
  /\ Exists(w)
  /\ site' = [site EXCEPT ![w].status = "GONE", ![w].lastScan = NoTime]
  /\ listed' = [listed EXCEPT ![w] = 0]
  /\ UNCHANGED <<abandoned, queueVars, callVars, cron, clockVars>>

(***************************************************************************)
(* The scheduler.                                                          *)
(***************************************************************************)
\* The websites the query may return, by the age of the last scan; in
\* ascending order Postgres has NULL last.
Idle(w) == Exists(w) /\ site[w].status \notin {"IN_PROGRESS", "PENDING"}

ScannedLater(v, w) ==
  /\ site[w].lastScan # NoTime
  /\ site[v].lastScan = NoTime \/ site[w].lastScan < site[v].lastScan

Fetched(W) ==
  LET idle == {w \in Sites : Idle(w)}
  IN  /\ W \subseteq idle
      /\ Cardinality(W) =
           IF Cardinality(idle) < Window THEN Cardinality(idle) ELSE Window
      /\ \A w \in W, v \in idle \ W : ~ScannedLater(w, v)

Due(w) ==
  \/ site[w].lastScan = NoTime
  \/ now - site[w].lastScan >= site[w].period

\* handleCron: the list of the run is read once.
HandleCron ==
  /\ cron = NoRun
  /\ \E W \in SUBSET Sites :
       /\ Fetched(W)
       /\ \E w \in W : Due(w)      \* a run with nothing to do leaves no trace
       /\ cron' = [step |-> "next", todo |-> {w \in W : Due(w)}]
  /\ UNCHANGED <<siteVars, queueVars, callVars, clockVars>>

\* triggerScan, up to the queue.
TriggerScan(w) ==
  /\ cron.step = "next"
  /\ w \in cron.todo
  /\ job' = Added(Scheduled(w))
  /\ cron' = [step |-> "pend", todo |-> cron.todo \ {w}, site |-> w]
  /\ UNCHANGED <<siteVars, kept, callVars, clockVars>>

\* A queue that fails is logged, and the next website has its turn.
TriggerFails(w) ==
  /\ cron.step = "next"
  /\ w \in cron.todo
  /\ cron' = [cron EXCEPT !.todo = @ \ {w}]
  /\ UNCHANGED <<siteVars, queueVars, callVars, clockVars>>

\* The update after it; it throws, and is logged, when the row is gone.
PendScheduled ==
  /\ cron.step = "pend"
  /\ IF Exists(cron.site)
     THEN site' = [site EXCEPT ![cron.site].status = "PENDING"]
     ELSE UNCHANGED site
  /\ cron' = [step |-> "next", todo |-> cron.todo]
  /\ UNCHANGED <<listed, abandoned, queueVars, callVars, clockVars>>

EndCron ==
  /\ cron.step = "next"
  /\ cron.todo = {}
  /\ cron' = NoRun
  /\ UNCHANGED <<siteVars, queueVars, callVars, clockVars>>

(***************************************************************************)
(* The processor.                                                          *)
(***************************************************************************)
\* A caller's scan goes first.  The website is looked up outside the try: if
\* it is gone the attempt fails and nothing is written.
TakeJob(id) ==
  /\ job[id].state = "waiting"
  /\ Cardinality(Active) < Concurrency
  /\ id[2] = 0 => \A j \in JobId : job[j].state = "waiting" => j[2] = 0
  /\ IF Exists(SiteOf(id)) THEN Goto(id, "mark") ELSE Retry(id)
  /\ UNCHANGED <<siteVars, callVars, cron, clockVars>>

\* A step of the scan that writes the row fails if the row is gone.
Write(id, stage, newRow, next) ==
  /\ job[id].state = stage
  /\ IF Exists(SiteOf(id))
     THEN /\ site' = [site EXCEPT ![SiteOf(id)] = newRow]
          /\ next
     ELSE /\ UNCHANGED site
          /\ Retry(id)
  /\ UNCHANGED <<abandoned, callVars, cron, clockVars>>

MarkInProgress(id) ==
  /\ Write(id, "mark", [site[SiteOf(id)] EXCEPT !.status = "IN_PROGRESS"],
           Goto(id, "crawl"))
  /\ UNCHANGED listed

\* Mutant: the row is looked for under another domain.
ListedElsewhere(w) == FALSE

\* findFirst of a cookie in the inventory: one that is there is updated, for
\* another a row is made in a second step.
Listed(w) == listed[w] > 0

\* The crawl, which ends early when the website is deleted or the time is up.
\* After it a website that is gone is ABORTED, which is a success to the
\* queue, and for another the cookies are looked up.
CrawlPages(id) ==
  /\ job[id].state = "crawl"
  /\ IF ~Exists(SiteOf(id)) THEN Settle(id, "completed")
     ELSE Goto(id, IF Listed(SiteOf(id)) THEN "save" ELSE "store")
  /\ UNCHANGED <<siteVars, callVars, cron, clockVars>>

StoreCookie(id) ==
  /\ Write(id, "store", site[SiteOf(id)], Goto(id, "save"))
  /\ listed' = [listed EXCEPT
                  ![SiteOf(id)] = IF Exists(SiteOf(id)) THEN @ + 1 ELSE @]

\* Mutant: the results are saved and the status is forgotten.
SaveResultsOnly(id) ==
  /\ Write(id, "save", [site[SiteOf(id)] EXCEPT !.lastScan = now],
           Goto(id, "report"))
  /\ UNCHANGED listed

SaveResults(id) ==
  /\ Write(id, "save", [site[SiteOf(id)] EXCEPT !.status = "COMPLETED",
                                                !.lastScan = now],
           Goto(id, "report"))
  /\ UNCHANGED listed

\* The compliance report is stored with the row and mailed.
ReportCompliance(id) ==
  /\ Write(id, "report", site[SiteOf(id)], Settle(id, "completed"))
  /\ UNCHANGED listed

\* Mutant: the error is left to the queue.
ScanThrowsUncaught(id) ==
  /\ job[id].state \in Stages
  /\ Retry(id)
  /\ UNCHANGED <<siteVars, callVars, cron, clockVars>>

\* The scan throws: the row is set to FAILED, unless that fails as well, and
\* the queue has the attempt back.
ScanThrows(id) ==
  LET w == SiteOf(id)
  IN  /\ job[id].state \in Stages
      /\ \/ /\ site' = IF Exists(w)
                        THEN [site EXCEPT ![w].status = "FAILED"] ELSE site
            /\ UNCHANGED <<abandoned, crashes>>
         \/ /\ crashes < MaxCrashes
            /\ crashes' = crashes + 1
            /\ abandoned' = abandoned \union {w}
            /\ UNCHANGED site
      /\ Retry(id)
      /\ UNCHANGED <<listed, callVars, cron, now>>

\* The server process dies: the calls and the run of the scheduler are lost.
Crash ==
  /\ crashes < MaxCrashes
  /\ crashes' = crashes + 1
  /\ job' = [id \in JobId |->
               IF id \in Active THEN [job[id] EXCEPT !.state = "stalled"]
               ELSE job[id]]
  /\ call' = [c \in Callers |-> NoCall]
  /\ cron' = NoRun
  /\ UNCHANGED <<siteVars, kept, manuals, now>>

\* The queue finds a job whose worker is gone: it is given out once more, and
\* the second time it has failed, without another call of the processor.
Reclaim(id) ==
  /\ job[id].state = "stalled"
  /\ IF job[id].stalls = 0
     THEN /\ job' = [job EXCEPT ![id].state = "waiting", ![id].stalls = 1]
          /\ UNCHANGED <<kept, abandoned>>
     ELSE /\ Settle(id, "failed")
          /\ abandoned' = abandoned \union {SiteOf(id)}
  /\ UNCHANGED <<site, listed, callVars, cron, clockVars>>

Tick ==
  /\ now < MaxTime
  /\ now' = now + 1
  /\ UNCHANGED <<siteVars, queueVars, callVars, cron, crashes>>

(***************************************************************************)
(* The specification.                                                      *)
(***************************************************************************)
CallStep(c) ==
  \/ \E w \in Sites : CreateWebsite(c, w) \/ UpdateWebsite(c, w) \/ StartScan(c, w)
  \/ AddManual(c) \/ PendManual(c) \/ CallFails(c)

CronStep ==
  \/ HandleCron \/ PendScheduled \/ EndCron
  \/ \E w \in Sites : TriggerScan(w) \/ TriggerFails(w)

ScanStep(id) ==
  \/ MarkInProgress(id) \/ CrawlPages(id) \/ StoreCookie(id)
  \/ SaveResults(id) \/ ReportCompliance(id) \/ ScanThrows(id)

JobStep(id) == TakeJob(id) \/ ScanStep(id) \/ BackoffOver(id) \/ Reclaim(id)

Next ==
  \/ \E c \in Callers : CallStep(c)
  \/ \E w \in Sites : DeleteWebsite(w)
  \/ CronStep
  \/ \E id \in JobId : JobStep(id)
  \/ Crash
  \/ Tick

Spec == Init /\ [][Next]_vars

\* A scan has a budget of time, after which it ends; a pause ends and a lost
\* worker is found out; the queue hands out the jobs of one priority in their
\* order, so a job that waits is not passed over for ever.
FairSpec == Spec /\ \A id \in JobId : SF_vars(JobStep(id))

\* The scheduler comes every hour, the queue does not fail it for ever, and
\* time passes.
HourlySpec ==
  /\ FairSpec
  /\ WF_vars(CronStep)
  /\ \A w \in Sites : SF_vars(TriggerScan(w))
  /\ WF_vars(Tick)

(***************************************************************************)
(* Properties.                                                             *)
(***************************************************************************)
\* The scheduler never looks at a website that is IN_PROGRESS, so one that is
\* must have a job that will still write it, whichever scans of it overlap,
\* throw or are taken up again; save when the last word of a scan was lost.
ScanningIsWatched ==
  \A w \in Sites :
    site[w].status = "IN_PROGRESS" =>
      \/ \E id \in JobId :
           SiteOf(id) = w /\ job[id].state \in Unsettled \ {"report"}
      \/ w \in abandoned

\* Scans of one website that overlap look a cookie up before any of them has
\* stored it, but no cookie is listed more often than scans run at a time.
ListedWithinConcurrency ==
  \A w \in Sites : listed[w] <= Concurrency

\* A website does not stay IN_PROGRESS.
ScanEnds ==
  \A w \in Sites :
    site[w].status = "IN_PROGRESS"
      ~> (site[w].status # "IN_PROGRESS" \/ w \in abandoned)

(***************************************************************************)
(* A statement of the code that does not hold.                             *)
(***************************************************************************)
\* A website whose scheduled scan failed, and that is due, is scanned again.
FailedIsScannedAgain ==
  \A w \in Sites :
    (job[Scheduled(w)].state = "failed" /\ site[w].status = "FAILED" /\ Due(w))
      ~> (site[w].status \notin {"FAILED", "PENDING"})
=============================================================================
