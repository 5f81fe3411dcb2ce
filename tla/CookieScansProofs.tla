-------------------------- MODULE CookieScansProofs --------------------------
(***************************************************************************)
(* Theorems about CookieScans, for any websites, callers, frequencies and  *)
(* limits.                                                                 *)
(***************************************************************************)
EXTENDS CookieScans, SequenceTheorems, FiniteSetTheorems, TLAPS

(***************************************************************************)
(* The queue.                                                              *)
(***************************************************************************)
\* The jobs the queue keeps have ended, each of them once.
KeptHaveEnded ==
  \A o \in Outcomes :
    /\ \A i \in 1 .. Len(kept[o]) : job[kept[o][i]].state = o
    /\ \A i, k \in 1 .. Len(kept[o]) : kept[o][i] = kept[o][k] => i = k

\* A step of job id does nothing to the other jobs that are at work.
LeavesOthers(id) ==
  \A j \in JobId \ {id} :
    job[j].state \in Unsettled \/ job'[j].state \in Unsettled
      => job'[j] = job[j]

\* A queue that keeps its types and what is kept in it.
QueueFits ==
  /\ job \in [JobId -> Job]
  /\ kept \in [Outcomes -> Seq(JobId)]
  /\ KeptHaveEnded

LEMMA JobSetState ==
  ASSUME NEW rec \in Job,
         NEW st \in {"none"} \union Unsettled \union Outcomes
  PROVE  [rec EXCEPT !.state = st] \in Job
BY DEF Job

\* Moving a job that is at work from one such state to another.
LEMMA GotoEffect ==
  ASSUME QueueFits, NEW id \in JobId, job[id].state \in Unsettled,
         NEW stage \in Unsettled, Goto(id, stage)
  PROVE  /\ QueueFits'
         /\ job'[id].state = stage
         /\ LeavesOthers(id)
<1>1. job' = [job EXCEPT ![id] = [job[id] EXCEPT !.state = stage]] /\ kept' = kept
  BY DEF Goto, QueueFits, Job
<1>2. [job[id] EXCEPT !.state = stage] \in Job
  BY JobSetState DEF QueueFits
<1>3. job' \in [JobId -> Job]
  BY <1>1, <1>2 DEF QueueFits
<1>4. job'[id].state = stage
  BY <1>1 DEF QueueFits, Job
<1>5. \A j \in JobId \ {id} : job'[j] = job[j]
  BY <1>1 DEF QueueFits
<1>6. KeptHaveEnded'
  <2> SUFFICES ASSUME NEW o \in Outcomes, NEW i \in 1 .. Len(kept[o])
               PROVE  job'[kept[o][i]].state = o
    BY <1>1 DEF KeptHaveEnded, QueueFits
  <2>1. kept[o][i] \in JobId /\ job[kept[o][i]].state = o
    BY ElementOfSeq DEF QueueFits, KeptHaveEnded
  <2>2. kept[o][i] # id
    BY <2>1 DEF Outcomes, Unsettled, Stages
  <2>3. QED
    BY <1>5, <2>1, <2>2
<1>7. QED
  BY <1>1, <1>3, <1>4, <1>5, <1>6 DEF QueueFits, LeavesOthers

\* A job that ends may push another that has ended out of the queue.
LEMMA SettleEffect ==
  ASSUME QueueFits, NEW id \in JobId, job[id].state \in Unsettled,
         NEW out \in Outcomes, Settle(id, out)
  PROVE  /\ QueueFits'
         /\ job'[id].state = out
         /\ LeavesOthers(id)
<1> DEFINE all  == Append(kept[out], id)
           over == Len(all) > Keep[out]
<1>0. kept[out] \in Seq(JobId) /\ all \in Seq(JobId)
      /\ Len(all) = Len(kept[out]) + 1 /\ Len(kept[out]) \in Nat
      /\ all[Len(kept[out]) + 1] = id
      /\ \A i \in 1 .. Len(kept[out]) : all[i] = kept[out][i]
  BY DEF QueueFits
<1>1. Keep[out] \in Nat /\ Keep[out] > 0
  BY ScanAssumption DEF Keep, Outcomes
<1>2. kept' = [kept EXCEPT ![out] = IF over THEN Tail(all) ELSE all]
  BY DEF Settle
<1>3. \A j \in JobId :
        job'[j] = IF over /\ j = Head(all) THEN NoJob
                  ELSE IF j = id THEN [job[j] EXCEPT !.state = out] ELSE job[j]
  BY DEF Settle
<1>4. \A i \in 1 .. Len(kept[out]) :
        kept[out][i] \in JobId /\ kept[out][i] # id /\ job[kept[out][i]].state = out
  BY ElementOfSeq DEF QueueFits, KeptHaveEnded, Outcomes, Unsettled, Stages
<1>5. over => /\ Len(kept[out]) > 0
              /\ Head(all) = kept[out][1]
              /\ Head(all) \in JobId /\ Head(all) # id
              /\ job[Head(all)].state = out
  <2> SUFFICES ASSUME over
               PROVE  /\ Len(kept[out]) > 0
                      /\ Head(all) = kept[out][1]
                      /\ Head(all) \in JobId /\ Head(all) # id
                      /\ job[Head(all)].state = out
    OBVIOUS
  <2>1. Len(kept[out]) > 0
    BY <1>0, <1>1
  <2>2. Head(all) = kept[out][1]
    BY <1>0, <2>1
  <2>3. QED
    BY <1>0, <1>4, <2>1, <2>2
<1>6. job'[id] = [job[id] EXCEPT !.state = out] /\ job'[id].state = out
  BY <1>3, <1>5 DEF QueueFits, Job
<1>7. \A j \in JobId \ {id} :
        job'[j] = job[j] \/ (job[j].state \in Outcomes /\ job'[j] = NoJob)
  BY <1>3, <1>5
<1>8. job' \in [JobId -> Job]
  <2>1. NoJob \in Job
    BY DEF NoJob, Job
  <2>2. [job[id] EXCEPT !.state = out] \in Job
    BY JobSetState DEF QueueFits
  <2>3. \A j \in JobId : job'[j] \in Job
    BY <1>6, <1>7, <2>1, <2>2 DEF QueueFits
  <2>4. QED
    BY <2>3 DEF Settle
<1>9. kept' \in [Outcomes -> Seq(JobId)]
  <2>1. over => Tail(all) \in Seq(JobId)
    BY <1>0, <1>5
  <2>2. QED
    BY <1>0, <1>2, <2>1 DEF QueueFits
<1>10. LeavesOthers(id)
  BY <1>7 DEF LeavesOthers, NoJob, Outcomes, Unsettled, Stages
<1>11. KeptHaveEnded'
  <2> SUFFICES ASSUME NEW o \in Outcomes
               PROVE  /\ \A i \in 1 .. Len(kept'[o]) : job'[kept'[o][i]].state = o
                      /\ \A i, k \in 1 .. Len(kept'[o]) :
                           kept'[o][i] = kept'[o][k] => i = k
    BY DEF KeptHaveEnded
  <2>1. CASE o # out
    <3>1. kept'[o] = kept[o]
      BY <1>2, <2>1 DEF QueueFits
    <3>2. ASSUME NEW i \in 1 .. Len(kept[o])
          PROVE  job'[kept[o][i]].state = o
      <4>1. kept[o][i] \in JobId /\ job[kept[o][i]].state = o
        BY ElementOfSeq DEF QueueFits, KeptHaveEnded
      <4>2. kept[o][i] # id /\ ~(over /\ kept[o][i] = Head(all))
        BY <1>5, <2>1, <4>1 DEF Outcomes, Unsettled, Stages
      <4>3. QED
        BY <1>3, <4>1, <4>2
    <3>3. QED
      BY <3>1, <3>2 DEF QueueFits, KeptHaveEnded
  <2>2. CASE o = out
    <3>1. \A i, k \in 1 .. Len(all) : all[i] = all[k] => i = k
      BY <1>0, <1>4 DEF QueueFits, KeptHaveEnded
    <3>2. \A i \in 1 .. Len(all) : all[i] \in JobId /\ (all[i] = id \/ job[all[i]].state = out)
      BY <1>0, <1>4
    <3>3. CASE over
      <4>1. kept'[o] = Tail(all) /\ Len(Tail(all)) = Len(kept[out])
            /\ \A i \in 1 .. Len(kept[out]) : Tail(all)[i] = all[i + 1]
        BY <1>0, <1>2, <1>5, <2>2, <3>3 DEF QueueFits
      <4>2. ASSUME NEW i \in 1 .. Len(kept[out])
            PROVE  job'[all[i + 1]].state = out
        <5>1. i + 1 \in 1 .. Len(all) /\ 1 \in 1 .. Len(all) /\ i + 1 # 1
          BY <1>0
        <5>2. all[i + 1] # Head(all)
          BY <3>1, <5>1, <1>0
        <5>3. QED
          BY <1>3, <1>6, <3>2, <5>1, <5>2
      <4>3. \A i \in 1 .. Len(kept'[o]) : /\ i \in 1 .. Len(kept[out])
                                         /\ i + 1 \in 1 .. Len(all)
                                         /\ kept'[o][i] = all[i + 1]
        BY <1>0, <4>1
      <4>4. \A i \in 1 .. Len(kept'[o]) : job'[kept'[o][i]].state = o
        BY <2>2, <4>2, <4>3
      <4>5. ASSUME NEW i \in 1 .. Len(kept'[o]), NEW k \in 1 .. Len(kept'[o]),
                   kept'[o][i] = kept'[o][k]
            PROVE  i = k
        <5>1. i + 1 = k + 1
          BY <3>1, <4>3, <4>5
        <5>2. QED
          BY <1>0, <4>3, <5>1
      <4>6. QED
        BY <4>4, <4>5
    <3>4. CASE ~over
      <4>1. kept'[o] = all
        BY <1>2, <2>2, <3>4 DEF QueueFits
      <4>2. \A i \in 1 .. Len(all) : job'[all[i]].state = out
        BY <1>3, <1>6, <3>2, <3>4
      <4>3. QED
        BY <2>2, <3>1, <4>1, <4>2
    <3>5. QED
      BY <3>3, <3>4
  <2>3. QED
    BY <2>1, <2>2
<1>12. QED
  BY <1>6, <1>8, <1>9, <1>10, <1>11 DEF QueueFits

\* A failed attempt ends the job or sends it to wait.
LEMMA RetryEffect ==
  ASSUME QueueFits, NEW id \in JobId, job[id].state \in Unsettled, Retry(id)
  PROVE  /\ QueueFits'
         /\ job'[id].state \in {"delayed", "failed"}
         /\ LeavesOthers(id)
<1>1. CASE job[id].tries + 1 < Attempts
  <2>1. job' = [job EXCEPT ![id] = [job[id] EXCEPT !.state = "delayed",
                                                   !.tries = @ + 1]]
        /\ kept' = kept
    BY <1>1 DEF Retry, QueueFits, Job
  <2>2. [job[id] EXCEPT !.state = "delayed", !.tries = @ + 1] \in Job
    <3>1. job[id] \in Job /\ job[id].tries + 1 \in Nat
      BY DEF QueueFits, Job
    <3>2. "delayed" \in {"none"} \union Unsettled \union Outcomes
      BY DEF Unsettled
    <3>3. QED
      BY <3>1, <3>2 DEF Job
  <2>3. job' \in [JobId -> Job]
    BY <2>1, <2>2 DEF QueueFits
  <2>4. job'[id].state = "delayed"
    BY <2>1 DEF QueueFits, Job
  <2>5. \A j \in JobId \ {id} : job'[j] = job[j]
    BY <2>1 DEF QueueFits
  <2>6. KeptHaveEnded'
    <3> SUFFICES ASSUME NEW o \in Outcomes, NEW i \in 1 .. Len(kept[o])
                 PROVE  job'[kept[o][i]].state = o
      BY <2>1 DEF KeptHaveEnded, QueueFits
    <3>1. kept[o][i] \in JobId /\ job[kept[o][i]].state = o
      BY ElementOfSeq DEF QueueFits, KeptHaveEnded
    <3>2. kept[o][i] # id
      BY <3>1 DEF Outcomes, Unsettled, Stages
    <3>3. QED
      BY <2>5, <3>1, <3>2
  <2>7. QED
    BY <2>1, <2>3, <2>4, <2>5, <2>6 DEF QueueFits, LeavesOthers
<1>2. CASE ~(job[id].tries + 1 < Attempts)
  <2>1. Settle(id, "failed")
    BY <1>2 DEF Retry
  <2>2. QED
    BY <2>1, SettleEffect DEF Outcomes
<1>3. QED
  BY <1>1, <1>2

\* A new job waits; an id that is known stays as it is.
LEMMA AddEffect ==
  ASSUME QueueFits, NEW id \in JobId, job' = Added(id), kept' = kept
  PROVE  /\ QueueFits'
         /\ job'[id] = job[id] \/ job'[id].state = "waiting"
         /\ job[id].state # "none" => job'[id] = job[id]
         /\ LeavesOthers(id)
<1>1. CASE job[id].state # "none"
  <2>1. job' = job
    BY <1>1 DEF Added
  <2>2. QED
    BY <2>1 DEF QueueFits, LeavesOthers, KeptHaveEnded
<1>2. CASE job[id].state = "none"
  <2> DEFINE new == [NoJob EXCEPT !.state = "waiting"]
  <2>1. job' = [job EXCEPT ![id] = new]
    BY <1>2 DEF Added
  <2>2. new \in Job /\ new.state = "waiting"
    BY DEF NoJob, Job, Unsettled
  <2>3. job' \in [JobId -> Job] /\ job'[id] = new
        /\ \A j \in JobId \ {id} : job'[j] = job[j]
    BY <2>1, <2>2 DEF QueueFits
  <2>4. KeptHaveEnded'
    <3> SUFFICES ASSUME NEW o \in Outcomes, NEW i \in 1 .. Len(kept[o])
                 PROVE  job'[kept[o][i]].state = o
      BY DEF KeptHaveEnded, QueueFits
    <3>1. kept[o][i] \in JobId /\ job[kept[o][i]].state = o
      BY ElementOfSeq DEF QueueFits, KeptHaveEnded
    <3>2. kept[o][i] # id
      BY <1>2, <3>1 DEF Outcomes
    <3>3. QED
      BY <2>3, <3>1, <3>2
  <2>5. QED
    BY <1>2, <2>2, <2>3, <2>4 DEF QueueFits, LeavesOthers
<1>3. QED
  BY <1>1, <1>2

(***************************************************************************)
(* What the steps of the processor do to the queue.                        *)
(***************************************************************************)
\* The stages are states of a job that is at work.
LEMMA AtWork ==
  /\ Stages \subseteq Unsettled
  /\ "waiting" \in Unsettled /\ "stalled" \in Unsettled /\ "delayed" \in Unsettled
BY DEF Stages, Unsettled

\* Every step of a job leaves the queue in order and the other jobs alone.
LEMMA JobStepEffect ==
  ASSUME QueueFits, NEW id \in JobId, JobStep(id)
  PROVE  QueueFits' /\ LeavesOthers(id) /\ job[id].state \in Unsettled
<1>1. CASE TakeJob(id)
  <2>1. job[id].state \in Unsettled
    BY <1>1, AtWork DEF TakeJob
  <2>2. Goto(id, "mark") \/ Retry(id)
    BY <1>1 DEF TakeJob
  <2>3. QED
    BY <2>1, <2>2, AtWork, GotoEffect, RetryEffect DEF Stages
<1>2. CASE BackoffOver(id)
  BY <1>2, AtWork, GotoEffect DEF BackoffOver
<1>3. CASE Reclaim(id)
  <2>1. job[id].state \in Unsettled
    BY <1>3, AtWork DEF Reclaim
  <2>2. CASE job[id].stalls = 0
    <3>1. job' = [job EXCEPT ![id] = [job[id] EXCEPT !.state = "waiting",
                                                     !.stalls = 1]]
          /\ kept' = kept
      BY <1>3, <2>2 DEF Reclaim, QueueFits, Job
    <3>2. [job[id] EXCEPT !.state = "waiting", !.stalls = 1] \in Job
      <4>1. job[id] \in Job /\ 1 \in Nat
        BY DEF QueueFits
      <4>2. "waiting" \in {"none"} \union Unsettled \union Outcomes
        BY AtWork
      <4>3. QED
        BY <4>1, <4>2 DEF Job
    <3>3. job' \in [JobId -> Job] /\ \A j \in JobId \ {id} : job'[j] = job[j]
      BY <3>1, <3>2 DEF QueueFits
    <3>4. KeptHaveEnded'
      <4> SUFFICES ASSUME NEW o \in Outcomes, NEW i \in 1 .. Len(kept[o])
                   PROVE  job'[kept[o][i]].state = o
        BY <3>1 DEF KeptHaveEnded, QueueFits
      <4>1. kept[o][i] \in JobId /\ job[kept[o][i]].state = o
        BY ElementOfSeq DEF QueueFits, KeptHaveEnded
      <4>2. kept[o][i] # id
        BY <2>1, <4>1 DEF Outcomes, Unsettled, Stages
      <4>3. QED
        BY <3>3, <4>1, <4>2
    <3>5. QED
      BY <2>1, <3>1, <3>3, <3>4 DEF QueueFits, LeavesOthers
  <2>3. CASE job[id].stalls # 0
    <3>1. Settle(id, "failed")
      BY <1>3, <2>3 DEF Reclaim
    <3>2. QED
      BY <2>1, <3>1, SettleEffect DEF Outcomes
  <2>4. QED
    BY <2>2, <2>3
<1>4. CASE ScanStep(id)
  <2>1. job[id].state \in Stages
    BY <1>4 DEF ScanStep, MarkInProgress, CrawlPages, StoreCookie, SaveResults,
                ReportCompliance, ScanThrows, Write, Stages
  <2>2. \/ \E stage \in Stages : Goto(id, stage)
        \/ Settle(id, "completed")
        \/ Retry(id)
    <3>1. CASE MarkInProgress(id)
      BY <3>1 DEF MarkInProgress, Write, Stages
    <3>2. CASE CrawlPages(id)
      BY <3>2 DEF CrawlPages, Stages
    <3>3. CASE StoreCookie(id)
      BY <3>3 DEF StoreCookie, Write, Stages
    <3>4. CASE SaveResults(id)
      BY <3>4 DEF SaveResults, Write, Stages
    <3>5. CASE ReportCompliance(id)
      BY <3>5 DEF ReportCompliance, Write
    <3>6. CASE ScanThrows(id)
      BY <3>6 DEF ScanThrows
    <3>7. QED
      BY <1>4, <3>1, <3>2, <3>3, <3>4, <3>5, <3>6 DEF ScanStep
  <2>3. QED
    BY <2>1, <2>2, AtWork, GotoEffect, SettleEffect, RetryEffect DEF Outcomes
<1>5. QED
  BY <1>1, <1>2, <1>3, <1>4 DEF JobStep

(***************************************************************************)
(* Type correctness.                                                       *)
(***************************************************************************)
\* The inductive invariant for the types.
ScanInv == ScanTypeOK /\ KeptHaveEnded

LEMMA InitScanInv == Init => ScanInv
<1> SUFFICES ASSUME Init PROVE ScanInv
  OBVIOUS
<1>1. site \in [Sites -> Row]
  <2> DEFINE First == [status : InitialStatuses, lastScan : {NoTime}, period : Periods]
  <2>1. \A r \in First : r \in Row
    BY ScanAssumption DEF Row, ScanStatus
  <2>2. site \in [Sites -> First]
    BY DEF Init
  <2> HIDE DEF First
  <2>3. QED
    BY <2>1, <2>2
<1>2. NoJob \in Job
  BY DEF NoJob, Job
<1>3. kept \in [Outcomes -> Seq(JobId)] /\ \A o \in Outcomes : Len(kept[o]) = 0
  BY DEF Init
<1>4. KeptHaveEnded
  BY <1>3 DEF KeptHaveEnded
<1>5. manuals \in 0 .. MaxManual
  BY ScanAssumption DEF Init
<1>6. QED
  BY <1>1, <1>2, <1>3, <1>4, <1>5 DEF Init, ScanInv, ScanTypeOK

\* A row whose status is written is a row,
LEMMA StatusWritten ==
  ASSUME NEW rec \in Row, NEW st \in ScanStatus \union {"UNBORN", "GONE"}
  PROVE  [rec EXCEPT !.status = st] \in Row
BY DEF Row

\* and so is one whose status and last scan are.
LEMMA RowWritten ==
  ASSUME NEW rec \in Row, NEW st \in ScanStatus \union {"UNBORN", "GONE"},
         NEW t \in Nat \union {NoTime}
  PROVE  [rec EXCEPT !.status = st, !.lastScan = t] \in Row
BY DEF Row

\* The steps of a job keep the rows and the history what they are.
LEMMA JobStepType ==
  ASSUME ScanInv, NEW id \in JobId, JobStep(id)
  PROVE  ScanInv'
<1>1. QueueFits
  BY DEF QueueFits, ScanInv, ScanTypeOK
<1>2. QueueFits'
  BY <1>1, JobStepEffect
<1>3. /\ SiteOf(id) \in Sites
      /\ site[SiteOf(id)] \in Row
      /\ now \in Nat
  BY DEF SiteOf, JobId, ScanInv, ScanTypeOK
<1>4. /\ UNCHANGED <<call, manuals, cron, now>>
      /\ site' \in [Sites -> Row]
      /\ listed' \in [Sites -> Nat]
      /\ abandoned' \subseteq Sites
      /\ crashes' \in Nat
  <2> USE DEF siteVars, queueVars, callVars, clockVars
  <2>1. CASE TakeJob(id) \/ BackoffOver(id) \/ CrawlPages(id) \/ Reclaim(id)
    BY <1>3, <2>1 DEF TakeJob, BackoffOver, CrawlPages, Reclaim, ScanInv, ScanTypeOK
  <2>2. CASE MarkInProgress(id)
    <3>1. [site[SiteOf(id)] EXCEPT !.status = "IN_PROGRESS"] \in Row
      BY <1>3, StatusWritten DEF ScanStatus
    <3>2. QED
      BY <1>3, <2>2, <3>1 DEF MarkInProgress, Write, ScanInv, ScanTypeOK
  <2>3. CASE StoreCookie(id)
    <3>1. listed[SiteOf(id)] + 1 \in Nat
      BY <1>3 DEF ScanInv, ScanTypeOK
    <3>2. QED
      BY <1>3, <2>3, <3>1 DEF StoreCookie, Write, ScanInv, ScanTypeOK
  <2>4. CASE SaveResults(id)
    <3>1. [site[SiteOf(id)] EXCEPT !.status = "COMPLETED", !.lastScan = now] \in Row
      BY <1>3, RowWritten DEF ScanStatus
    <3>2. QED
      BY <1>3, <2>4, <3>1 DEF SaveResults, Write, ScanInv, ScanTypeOK
  <2>5. CASE ReportCompliance(id)
    BY <1>3, <2>5 DEF ReportCompliance, Write, ScanInv, ScanTypeOK
  <2>6. CASE ScanThrows(id)
    <3>1. [site[SiteOf(id)] EXCEPT !.status = "FAILED"] \in Row
      BY <1>3, StatusWritten DEF ScanStatus
    <3>2. site' \in [Sites -> Row]
      BY <1>3, <2>6, <3>1 DEF ScanThrows, ScanInv, ScanTypeOK
    <3>3. QED
      BY <1>3, <2>6, <3>2 DEF ScanThrows, ScanInv, ScanTypeOK
  <2>7. QED
    BY <2>1, <2>2, <2>3, <2>4, <2>5, <2>6 DEF JobStep, ScanStep
<1>5. QED
  BY <1>2, <1>4 DEF QueueFits, ScanInv, ScanTypeOK

\* So do the callers.
LEMMA CallStepType ==
  ASSUME ScanInv, NEW c \in Callers, CallStep(c)
  PROVE  ScanInv'
<1> USE DEF siteVars, queueVars, callVars, clockVars
<1>1. ASSUME NEW w \in Sites,
             CreateWebsite(c, w) \/ UpdateWebsite(c, w) \/ StartScan(c, w)
      PROVE  ScanInv'
  <2>1. /\ manuals' \in 0 .. MaxManual
        /\ call' \in [Callers -> {NoCall} \union InFlight]
    <3>1. PICK op \in {"create", "edit", "start"} : Ask(c, op, w)
      BY <1>1 DEF CreateWebsite, UpdateWebsite, StartScan
    <3>2. [step |-> "add", op |-> op, site |-> w] \in InFlight
      BY DEF InFlight
    <3>3. QED
      BY <3>1, <3>2, ScanAssumption DEF Ask, ScanInv, ScanTypeOK
  <2>2. site' \in [Sites -> Row]
    <3>1. CASE CreateWebsite(c, w)
      <4>1. [site[w] EXCEPT !.status = "PENDING"] \in Row
        BY StatusWritten DEF ScanStatus, ScanInv, ScanTypeOK
      <4>2. QED
        BY <3>1, <4>1 DEF CreateWebsite, ScanInv, ScanTypeOK
    <3>2. CASE UpdateWebsite(c, w)
      <4>1. PICK p \in Periods : site' = [site EXCEPT ![w].period = p]
        BY <3>2 DEF UpdateWebsite
      <4>2. [site[w] EXCEPT !.period = p] \in Row
        BY DEF Row, ScanInv, ScanTypeOK
      <4>3. QED
        BY <4>1, <4>2 DEF ScanInv, ScanTypeOK
    <3>3. CASE StartScan(c, w)
      BY <3>3 DEF StartScan, ScanInv, ScanTypeOK
    <3>4. QED
      BY <1>1, <3>1, <3>2, <3>3
  <2>3. UNCHANGED <<listed, abandoned, job, kept, cron, now, crashes>>
    BY <1>1 DEF CreateWebsite, UpdateWebsite, StartScan
  <2>4. QED
    BY <2>1, <2>2, <2>3 DEF ScanInv, ScanTypeOK, KeptHaveEnded
<1>2. CASE AddManual(c)
  <2>1. call[c] \in InFlight
    BY <1>2 DEF AddManual, ScanInv, ScanTypeOK, NoCall
  <2>2. PICK n \in 1 .. manuals : job' = Added(<<call[c].site, n>>)
    BY <1>2 DEF AddManual
  <2>3. <<call[c].site, n>> \in JobId
    BY <2>1, ScanAssumption DEF InFlight, JobId, ScanInv, ScanTypeOK
  <2>4. QueueFits'
    <3>1. QueueFits /\ kept' = kept
      BY <1>2 DEF AddManual, QueueFits, ScanInv, ScanTypeOK
    <3>2. QED
      BY <2>2, <2>3, <3>1, AddEffect
  <2>5. call' \in [Callers -> {NoCall} \union InFlight]
    <3>1. [call[c] EXCEPT !.step = "pend"] \in InFlight
      BY <2>1 DEF InFlight
    <3>2. QED
      BY <1>2, <3>1 DEF AddManual, EndCall, ScanInv, ScanTypeOK
  <2>6. QED
    BY <1>2, <2>4, <2>5 DEF AddManual, QueueFits, ScanInv, ScanTypeOK
<1>3. CASE PendManual(c)
  <2>1. call[c] \in InFlight /\ call[c].site \in Sites
    BY <1>3 DEF PendManual, ScanInv, ScanTypeOK, NoCall, InFlight
  <2>2. [site[call[c].site] EXCEPT !.status = "PENDING", !.lastScan = now] \in Row
    BY <2>1, RowWritten DEF ScanStatus, ScanInv, ScanTypeOK
  <2>3. site' \in [Sites -> Row]
    BY <1>3, <2>1, <2>2 DEF PendManual, ScanInv, ScanTypeOK
  <2>4. call' \in [Callers -> {NoCall} \union InFlight]
    BY <1>3 DEF PendManual, EndCall, ScanInv, ScanTypeOK
  <2>5. QED
    BY <1>3, <2>3, <2>4 DEF PendManual, ScanInv, ScanTypeOK, KeptHaveEnded
<1>4. CASE CallFails(c)
  BY <1>4 DEF CallFails, EndCall, ScanInv, ScanTypeOK, KeptHaveEnded
<1>5. QED
  BY <1>1, <1>2, <1>3, <1>4 DEF CallStep

\* So does the scheduler.
LEMMA CronStepType ==
  ASSUME ScanInv, CronStep
  PROVE  ScanInv'
<1> USE DEF siteVars, queueVars, callVars, clockVars
<1>1. CASE HandleCron
  <2>1. PICK W \in SUBSET Sites : cron' = [step |-> "next", todo |-> {w \in W : Due(w)}]
    BY <1>1 DEF HandleCron
  <2>2. cron' \in CronRun
    BY <2>1 DEF CronRun
  <2>3. QED
    BY <1>1, <2>2 DEF HandleCron, ScanInv, ScanTypeOK, KeptHaveEnded
<1>2. ASSUME cron.step \in {"next", "pend"}
      PROVE  /\ cron.todo \subseteq Sites
             /\ cron.step = "pend" => cron.site \in Sites
             /\ cron.step = "next" => cron = [step |-> "next", todo |-> cron.todo]
  BY <1>2 DEF CronRun, NoRun, ScanInv, ScanTypeOK
<1>3. ASSUME NEW w \in Sites, TriggerScan(w)
      PROVE  ScanInv'
  <2>1. Scheduled(w) \in JobId
    BY ScanAssumption DEF Scheduled, JobId
  <2>2. QueueFits'
    <3>1. QueueFits /\ kept' = kept /\ job' = Added(Scheduled(w))
      BY <1>3 DEF TriggerScan, QueueFits, ScanInv, ScanTypeOK
    <3>2. QED
      BY <2>1, <3>1, AddEffect
  <2>3. cron' \in CronRun
    BY <1>2, <1>3 DEF TriggerScan, CronRun
  <2>4. QED
    BY <1>3, <2>2, <2>3 DEF TriggerScan, QueueFits, ScanInv, ScanTypeOK
<1>4. ASSUME NEW w \in Sites, TriggerFails(w)
      PROVE  ScanInv'
  <2>1. cron' = [step |-> "next", todo |-> cron.todo \ {w}]
    BY <1>2, <1>4 DEF TriggerFails
  <2>2. cron' \in CronRun
    BY <1>2, <1>4, <2>1 DEF TriggerFails, CronRun
  <2>3. QED
    BY <1>4, <2>2 DEF TriggerFails, ScanInv, ScanTypeOK, KeptHaveEnded
<1>5. CASE PendScheduled
  <2>1. cron.site \in Sites /\ cron' \in CronRun
    BY <1>2, <1>5 DEF PendScheduled, CronRun
  <2>2. [site[cron.site] EXCEPT !.status = "PENDING"] \in Row
    BY <2>1, StatusWritten DEF ScanStatus, ScanInv, ScanTypeOK
  <2>3. site' \in [Sites -> Row]
    BY <1>5, <2>1, <2>2 DEF PendScheduled, ScanInv, ScanTypeOK
  <2>4. QED
    BY <1>5, <2>1, <2>3 DEF PendScheduled, ScanInv, ScanTypeOK, KeptHaveEnded
<1>6. CASE EndCron
  BY <1>6 DEF EndCron, ScanInv, ScanTypeOK, KeptHaveEnded
<1>7. QED
  BY <1>1, <1>3, <1>4, <1>5, <1>6 DEF CronStep

\* Every step keeps the invariant.
LEMMA NextScanInv == ScanInv /\ [Next]_vars => ScanInv'
<1> SUFFICES ASSUME ScanInv, [Next]_vars PROVE ScanInv'
  OBVIOUS
<1> USE DEF siteVars, queueVars, callVars, clockVars
<1>1. CASE \E c \in Callers : CallStep(c)
  BY <1>1, CallStepType
<1>2. ASSUME NEW w \in Sites, DeleteWebsite(w)
      PROVE  ScanInv'
  <2>1. [site[w] EXCEPT !.status = "GONE", !.lastScan = NoTime] \in Row
    BY RowWritten DEF ScanInv, ScanTypeOK
  <2>2. site' \in [Sites -> Row] /\ listed' \in [Sites -> Nat]
    BY <1>2, <2>1 DEF DeleteWebsite, ScanInv, ScanTypeOK
  <2>3. QED
    BY <1>2, <2>2 DEF DeleteWebsite, ScanInv, ScanTypeOK, KeptHaveEnded
<1>3. CASE CronStep
  BY <1>3, CronStepType
<1>4. CASE \E id \in JobId : JobStep(id)
  BY <1>4, JobStepType
<1>5. CASE Crash
  <2>1. \A id \in JobId : job'[id] \in Job
    BY <1>5, JobSetState, AtWork DEF Crash, ScanInv, ScanTypeOK
  <2>2. job' \in [JobId -> Job]
    BY <1>5, <2>1 DEF Crash
  <2>3. \A id \in JobId : job[id].state \in Outcomes => job'[id] = job[id]
    BY <1>5 DEF Crash, Active, Stages, Outcomes
  <2>4. KeptHaveEnded'
    <3>1. kept' = kept
      BY <1>5 DEF Crash
    <3>2. \A o \in Outcomes : \A i \in 1 .. Len(kept[o]) :
            kept[o][i] \in JobId /\ job[kept[o][i]].state = o
      BY ElementOfSeq DEF ScanInv, ScanTypeOK, KeptHaveEnded
    <3>3. QED
      BY <2>3, <3>1, <3>2 DEF KeptHaveEnded, ScanInv
  <2>5. call' \in [Callers -> {NoCall} \union InFlight] /\ crashes' \in Nat
    BY <1>5 DEF Crash, ScanInv, ScanTypeOK
  <2>6. QED
    BY <1>5, <2>2, <2>4, <2>5 DEF Crash, ScanInv, ScanTypeOK
<1>6. CASE Tick
  BY <1>6 DEF Tick, ScanInv, ScanTypeOK, KeptHaveEnded
<1>7. CASE UNCHANGED vars
  BY <1>7 DEF vars, ScanInv, ScanTypeOK, KeptHaveEnded
<1>8. QED
  BY <1>1, <1>2, <1>3, <1>4, <1>5, <1>6, <1>7 DEF Next

\* The variables keep their types, and the queue keeps only jobs that have
\* ended: no id is given out twice while a job of that id is at work.
THEOREM ScanTypeCorrect == Spec => [](ScanTypeOK /\ KeptHaveEnded)
<1>1. Init => ScanInv
  BY InitScanInv
<1>2. ScanInv /\ [Next]_vars => ScanInv'
  BY NextScanInv
<1>3. ScanInv => ScanTypeOK /\ KeptHaveEnded
  BY DEF ScanInv
<1>4. QED
  BY <1>1, <1>2, <1>3, PTL DEF Spec

(***************************************************************************)
(* A website that is IN_PROGRESS has a job that will write it.             *)
(***************************************************************************)
Watching(id) == job[id].state \in Unsettled \ {"report"}

\* Only the mark puts a website IN_PROGRESS, and its job goes on to crawl.
LEMMA MarkedIsWatched ==
  ASSUME ScanInv, NEW id \in JobId, JobStep(id), NEW w \in Sites,
         site[w].status # "IN_PROGRESS", site'[w].status = "IN_PROGRESS"
  PROVE  SiteOf(id) = w /\ Watching(id)'
<1>1. SiteOf(id) \in Sites
  BY DEF SiteOf, JobId
<1>2. CASE MarkInProgress(id)
  <2>1. Exists(SiteOf(id)) /\ SiteOf(id) = w
    BY <1>1, <1>2 DEF MarkInProgress, Write, ScanInv, ScanTypeOK
  <2>2. Goto(id, "crawl") /\ job[id].state = "mark"
    BY <1>2, <2>1 DEF MarkInProgress, Write
  <2>3. job'[id].state = "crawl"
    BY <2>2, GotoEffect, AtWork DEF Stages, QueueFits, ScanInv, ScanTypeOK
  <2>4. QED
    BY <2>1, <2>3, AtWork DEF Watching, Stages
<1>3. CASE StoreCookie(id) \/ ReportCompliance(id)
  BY <1>1, <1>3 DEF StoreCookie, ReportCompliance, Write, ScanInv, ScanTypeOK
<1>4. CASE SaveResults(id)
  BY <1>1, <1>4 DEF SaveResults, Write, ScanInv, ScanTypeOK, Row
<1>5. CASE ScanThrows(id)
  BY <1>1, <1>5 DEF ScanThrows, ScanInv, ScanTypeOK, Row
<1>6. CASE TakeJob(id) \/ CrawlPages(id) \/ BackoffOver(id) \/ Reclaim(id)
  BY <1>6 DEF TakeJob, CrawlPages, BackoffOver, Reclaim, siteVars
<1>7. QED
  BY <1>2, <1>3, <1>4, <1>5, <1>6 DEF JobStep, ScanStep

\* A job that watches over its website goes on to, or writes it, or its last
\* word is lost.
LEMMA WatchIsKept ==
  ASSUME ScanInv, NEW id \in JobId, JobStep(id), Watching(id),
         site[SiteOf(id)].status = "IN_PROGRESS",
         site'[SiteOf(id)].status = "IN_PROGRESS"
  PROVE  Watching(id)' \/ SiteOf(id) \in abandoned'
<1> DEFINE w == SiteOf(id)
<1>1. w \in Sites /\ Exists(w)
  BY DEF SiteOf, JobId, Exists, ScanStatus
<1>2. QueueFits /\ job[id].state \in Unsettled
  BY DEF QueueFits, Watching, ScanInv, ScanTypeOK
<1>3. ASSUME NEW stage \in Unsettled \ {"report"}, Goto(id, stage)
      PROVE  Watching(id)'
  BY <1>2, <1>3, GotoEffect DEF Watching
<1>4. CASE TakeJob(id) \/ BackoffOver(id)
  <2>1. Goto(id, "mark") \/ Goto(id, "waiting")
    BY <1>1, <1>4 DEF TakeJob, BackoffOver
  <2>2. QED
    BY <1>3, <2>1, AtWork DEF Stages
<1>5. CASE Reclaim(id)
  <2>1. CASE job[id].stalls = 0
    <3>1. job' = [job EXCEPT ![id] = [job[id] EXCEPT !.state = "waiting", !.stalls = 1]]
      BY <1>5, <2>1, <1>2 DEF Reclaim, QueueFits, Job
    <3>2. job'[id].state = "waiting"
      BY <1>2, <3>1 DEF QueueFits, Job
    <3>3. QED
      BY <3>2, AtWork DEF Watching
  <2>2. QED
    BY <1>5, <2>1 DEF Reclaim
<1>6. CASE MarkInProgress(id) \/ StoreCookie(id)
  <2>1. Goto(id, "crawl") \/ Goto(id, "save")
    BY <1>1, <1>6 DEF MarkInProgress, StoreCookie, Write
  <2>2. QED
    BY <1>3, <2>1, AtWork DEF Stages
<1>7. CASE CrawlPages(id)
  <2>1. Goto(id, "save") \/ Goto(id, "store")
    BY <1>1, <1>7 DEF CrawlPages
  <2>2. QED
    BY <1>3, <2>1, AtWork DEF Stages
<1>8. CASE SaveResults(id)
  <2>1. site'[w].status = "COMPLETED"
    BY <1>1, <1>8 DEF SaveResults, Write, ScanInv, ScanTypeOK, Row
  <2>2. QED
    BY <2>1
<1>9. CASE ReportCompliance(id)
  BY <1>9 DEF ReportCompliance, Write, Watching
<1>10. CASE ScanThrows(id)
  <2>1. CASE site' = [site EXCEPT ![w].status = "FAILED"]
    BY <1>1, <2>1 DEF ScanInv, ScanTypeOK, Row
  <2>2. CASE abandoned' = abandoned \union {w}
    BY <2>2
  <2>3. QED
    BY <1>1, <1>10, <2>1, <2>2 DEF ScanThrows
<1>11. QED
  BY <1>4, <1>5, <1>6, <1>7, <1>8, <1>9, <1>10 DEF JobStep, ScanStep

\* A step that makes no website IN_PROGRESS and takes no job away.
LEMMA NothingLost ==
  ASSUME ScanningIsWatched,
         \A w \in Sites : site'[w].status = "IN_PROGRESS"
                            => site[w].status = "IN_PROGRESS",
         \A id \in JobId : Watching(id) => Watching(id)',
         abandoned \subseteq abandoned'
  PROVE  ScanningIsWatched'
BY DEF ScanningIsWatched, Watching

\* No step leaves a website IN_PROGRESS without such a job.
LEMMA NextWatched ==
  ScanInv /\ ScanningIsWatched /\ [Next]_vars => ScanningIsWatched'
<1> SUFFICES ASSUME ScanInv, ScanningIsWatched, [Next]_vars
             PROVE  ScanningIsWatched'
  OBVIOUS
<1> USE DEF siteVars, queueVars, callVars, clockVars
<1>0. QueueFits /\ site \in [Sites -> Row]
  BY DEF QueueFits, ScanInv, ScanTypeOK
<1>1. ASSUME NEW id \in JobId, job' = Added(id), kept' = kept
      PROVE  \A j \in JobId : Watching(j) => Watching(j)'
  BY <1>0, <1>1, AddEffect DEF Watching, LeavesOthers, Unsettled, Stages
<1>2. ASSUME NEW c \in Callers, CallStep(c)
      PROVE  ScanningIsWatched'
  <2>1. CASE \E w \in Sites : CreateWebsite(c, w) \/ UpdateWebsite(c, w) \/ StartScan(c, w)
    <3>1. PICK w \in Sites : CreateWebsite(c, w) \/ UpdateWebsite(c, w) \/ StartScan(c, w)
      BY <2>1
    <3>2. UNCHANGED <<job, abandoned>>
      BY <3>1 DEF CreateWebsite, UpdateWebsite, StartScan
    <3>3. \/ site' = [site EXCEPT ![w].status = "PENDING"]
          \/ \E p \in Periods : site' = [site EXCEPT ![w].period = p]
          \/ site' = site
      BY <3>1 DEF CreateWebsite, UpdateWebsite, StartScan
    <3>4. \A v \in Sites : site'[v].status = "IN_PROGRESS" => site[v].status = "IN_PROGRESS"
      BY <1>0, <3>3 DEF Row
    <3>5. QED
      BY <3>2, <3>4, NothingLost DEF Watching
  <2>2. CASE AddManual(c)
    <3>1. PICK n \in 1 .. manuals : job' = Added(<<call[c].site, n>>)
      BY <2>2 DEF AddManual
    <3>2. <<call[c].site, n>> \in JobId
      BY <2>2, ScanAssumption DEF AddManual, JobId, NoCall, InFlight, ScanInv, ScanTypeOK
    <3>3. QED
      BY <1>1, <2>2, <3>1, <3>2, NothingLost DEF AddManual
  <2>3. CASE PendManual(c)
    <3>1. \A v \in Sites : site'[v].status = "IN_PROGRESS" => site[v].status = "IN_PROGRESS"
      BY <1>0, <2>3 DEF PendManual, Row
    <3>2. QED
      BY <2>3, <3>1, NothingLost DEF PendManual, Watching
  <2>4. CASE CallFails(c)
    BY <2>4, NothingLost DEF CallFails, Watching
  <2>5. QED
    BY <1>2, <2>1, <2>2, <2>3, <2>4 DEF CallStep
<1>3. ASSUME NEW w \in Sites, DeleteWebsite(w)
      PROVE  ScanningIsWatched'
  <2>1. \A v \in Sites : site'[v].status = "IN_PROGRESS" => site[v].status = "IN_PROGRESS"
    BY <1>0, <1>3 DEF DeleteWebsite, Row
  <2>2. QED
    BY <1>3, <2>1, NothingLost DEF DeleteWebsite, Watching
<1>4. CASE CronStep
  <2>1. ASSUME NEW w \in Sites, TriggerScan(w)
        PROVE  ScanningIsWatched'
    <3>1. Scheduled(w) \in JobId
      BY ScanAssumption DEF Scheduled, JobId
    <3>2. QED
      BY <1>1, <2>1, <3>1, NothingLost DEF TriggerScan
  <2>2. CASE PendScheduled
    <3>1. \A v \in Sites : site'[v].status = "IN_PROGRESS" => site[v].status = "IN_PROGRESS"
      BY <1>0, <2>2 DEF PendScheduled, Row
    <3>2. QED
      BY <2>2, <3>1, NothingLost DEF PendScheduled, Watching
  <2>3. CASE HandleCron \/ EndCron \/ \E w \in Sites : TriggerFails(w)
    BY <2>3, NothingLost DEF HandleCron, EndCron, TriggerFails, Watching
  <2>4. QED
    BY <1>4, <2>1, <2>2, <2>3 DEF CronStep
<1>5. ASSUME NEW id \in JobId, JobStep(id)
      PROVE  ScanningIsWatched'
  <2> SUFFICES ASSUME NEW w \in Sites, site'[w].status = "IN_PROGRESS", w \notin abandoned'
               PROVE  \E j \in JobId : SiteOf(j) = w /\ Watching(j)'
    BY DEF ScanningIsWatched, Watching
  <2>1. abandoned \subseteq abandoned'
    BY <1>5 DEF JobStep, ScanStep, TakeJob, MarkInProgress, CrawlPages, StoreCookie,
                SaveResults, ReportCompliance, ScanThrows, BackoffOver, Reclaim, Write
  <2>2. CASE site[w].status # "IN_PROGRESS"
    BY <1>5, <2>2, MarkedIsWatched
  <2>3. CASE site[w].status = "IN_PROGRESS"
    <3>1. PICK j \in JobId : SiteOf(j) = w /\ Watching(j)
      BY <2>1, <2>3 DEF ScanningIsWatched, Watching
    <3>2. CASE j = id
      BY <1>5, <2>3, <3>1, <3>2, WatchIsKept
    <3>3. CASE j # id
      <4>1. job'[j] = job[j]
        BY <1>0, <1>5, <3>1, <3>3, JobStepEffect DEF LeavesOthers, Watching
      <4>2. QED
        BY <3>1, <4>1 DEF Watching
    <3>4. QED
      BY <3>2, <3>3
  <2>4. QED
    BY <2>2, <2>3
<1>6. CASE Crash
  <2>1. \A id \in JobId : job'[id].state = job[id].state \/ job'[id].state = "stalled"
    BY <1>0, <1>6 DEF Crash, QueueFits, Job
  <2>2. \A id \in JobId : Watching(id) => Watching(id)'
    BY <2>1, AtWork DEF Watching
  <2>3. QED
    BY <1>6, <2>2, NothingLost DEF Crash
<1>7. CASE Tick \/ UNCHANGED vars
  BY <1>7, NothingLost DEF Tick, vars, Watching
<1>8. QED
  BY <1>2, <1>3, <1>4, <1>5, <1>6, <1>7 DEF Next

\* Whatever callers, the scheduler, overlapping scans and crashes do, a website
\* that is IN_PROGRESS has a job that has yet to write its status, unless the
\* last word of a scan of it was lost.
THEOREM ScanningWatched == Spec => []ScanningIsWatched
<1>1. Init => ScanInv /\ ScanningIsWatched
  <2>1. Init => ScanningIsWatched
    BY ScanAssumption DEF Init, ScanningIsWatched
  <2>2. QED
    BY <2>1, InitScanInv
<1>2. ScanInv /\ ScanningIsWatched /\ [Next]_vars => (ScanInv /\ ScanningIsWatched)'
  BY NextScanInv, NextWatched
<1>3. QED
  BY <1>1, <1>2, PTL DEF Spec

(***************************************************************************)
(* The rows of the inventory.                                              *)
(***************************************************************************)
\* The scans that did not find the cookie and have yet to make a row for it.
Storing(w) == {id \in JobId : SiteOf(id) = w /\ job[id].state = "store"}

\* A row that is made, or yet to be made, is due to a scan that ran when there
\* was none.
RowsAreScans ==
  /\ Cardinality(Active) <= Concurrency
  /\ \A w \in Sites : listed[w] + Cardinality(Storing(w)) <= Concurrency

LEMMA JobsAreFinite ==
  /\ IsFiniteSet(JobId)
  /\ IsFiniteSet(Active) /\ Cardinality(Active) \in Nat
  /\ \A w : IsFiniteSet(Storing(w)) /\ Cardinality(Storing(w)) \in Nat
<1>1. IsFiniteSet(JobId)
  <2>1. IsFiniteSet(0 .. MaxManual) /\ IsFiniteSet(Sites)
    BY ScanAssumption, FS_Interval
  <2>2. IsFiniteSet(Sites \X (0 .. MaxManual))
    BY <2>1, FS_Product, Zenon
  <2>3. QED
    BY <2>2 DEF JobId
<1>2. Active \subseteq JobId /\ \A w : Storing(w) \subseteq JobId
  BY DEF Active, Storing
<1>3. \A S \in SUBSET JobId : IsFiniteSet(S) /\ Cardinality(S) \in Nat
  BY <1>1, FS_Subset, FS_CardinalityType
<1>4. QED
  BY <1>1, <1>2, <1>3

\* A part of a finite set has no more elements.
LEMMA FewerJobs ==
  ASSUME NEW S \in SUBSET JobId, NEW T \in SUBSET S
  PROVE  Cardinality(T) <= Cardinality(S)
BY JobsAreFinite, FS_Subset

\* A step after which no more jobs are at work, or yet to store, than before.
LEMMA NoMoreWork ==
  ASSUME ScanInv, ScanInv', RowsAreScans,
         \A w \in Sites : listed'[w] <= listed[w],
         \A id \in JobId : job'[id].state \in Stages => job[id].state \in Stages,
         \A id \in JobId : job'[id].state = "store" => job[id].state = "store"
  PROVE  RowsAreScans'
<1>1. Active' \subseteq Active /\ Active \in SUBSET JobId
  BY DEF Active
<1>2. \A w \in Sites : Storing(w)' \subseteq Storing(w) /\ Storing(w) \in SUBSET JobId
  BY DEF Storing
<1>3. Cardinality(Active') <= Cardinality(Active)
      /\ Cardinality(Active') \in Nat /\ Cardinality(Active) \in Nat
  <2>1. IsFiniteSet(Active)
    BY JobsAreFinite
  <2>2. QED
    BY <1>1, <2>1, FS_Subset, FS_CardinalityType
<1>4. ASSUME NEW w \in Sites
      PROVE  listed'[w] + Cardinality(Storing(w)') <= Concurrency
  <2>1. IsFiniteSet(Storing(w)) /\ Storing(w)' \subseteq Storing(w)
    BY <1>2, JobsAreFinite
  <2>2. Cardinality(Storing(w)') <= Cardinality(Storing(w))
        /\ Cardinality(Storing(w)') \in Nat /\ Cardinality(Storing(w)) \in Nat
    BY <2>1, FS_Subset, FS_CardinalityType
  <2>3. listed[w] \in Nat /\ listed'[w] \in Nat
    BY DEF ScanInv, ScanTypeOK
  <2>4. listed[w] + Cardinality(Storing(w)) <= Concurrency
    BY DEF RowsAreScans
  <2>5. QED
    BY <2>2, <2>3, <2>4, ScanAssumption
<1>5. Cardinality(Active') <= Concurrency
  BY <1>3, ScanAssumption DEF RowsAreScans
<1>6. QED
  BY <1>4, <1>5 DEF RowsAreScans

\* So is every step of a job that neither takes it nor sends it to store.
LEMMA JobStepRows ==
  ASSUME ScanInv, ScanInv', RowsAreScans, NEW id \in JobId, JobStep(id)
  PROVE  RowsAreScans'
<1> USE DEF siteVars, queueVars, callVars, clockVars
<1> DEFINE w == SiteOf(id)
<1>0. QueueFits /\ w \in Sites /\ listed \in [Sites -> Nat]
  BY DEF SiteOf, JobId, QueueFits, ScanInv, ScanTypeOK
<1>1. LeavesOthers(id) /\ job[id].state \in Unsettled
  BY <1>0, JobStepEffect
<1>2. \A j \in JobId \ {id} :
        /\ job'[j].state \in Stages => job[j].state \in Stages
        /\ job'[j].state = "store" => job[j].state = "store"
  BY <1>1, AtWork DEF LeavesOthers, Stages
<1>3. ASSUME Retry(id)
      PROVE  job'[id].state \notin Stages
  BY <1>0, <1>1, <1>3, RetryEffect DEF Stages
<1>4. ASSUME NEW st \in Unsettled, Goto(id, st)
      PROVE  job'[id].state = st
  BY <1>0, <1>1, <1>4, GotoEffect
<1>5. ASSUME NEW o \in Outcomes, Settle(id, o)
      PROVE  job'[id].state \notin Stages
  BY <1>0, <1>1, <1>5, SettleEffect DEF Stages, Outcomes
<1>6. ASSUME job'[id].state \in Stages => job[id].state \in Stages,
             job'[id].state # "store", listed' = listed
      PROVE  RowsAreScans'
  BY <1>0, <1>2, <1>6, NoMoreWork
<1>7. CASE TakeJob(id)
  <2>1. Cardinality(Active) < Concurrency /\ listed' = listed
    BY <1>7 DEF TakeJob
  <2>2. job'[id].state # "store"
    BY <1>3, <1>4, <1>7, AtWork DEF TakeJob, Stages
  <2>3. Active' \subseteq Active \union {id}
    BY <1>2 DEF Active
  <2>4. Cardinality(Active') <= Concurrency
    <3>1. IsFiniteSet(Active \union {id})
          /\ Cardinality(Active \union {id}) <= Cardinality(Active) + 1
          /\ Cardinality(Active) \in Nat
      <4>1. IsFiniteSet(Active) /\ Cardinality(Active) \in Nat
        BY JobsAreFinite
      <4>2. IsFiniteSet(Active \cup {id})
            /\ Cardinality(Active \cup {id}) =
                 IF id \in Active THEN Cardinality(Active) ELSE Cardinality(Active) + 1
        BY <4>1, FS_AddElement, Zenon
      <4>3. QED
        BY <4>1, <4>2
    <3>2. Cardinality(Active') <= Cardinality(Active \union {id})
          /\ Cardinality(Active') \in Nat /\ Cardinality(Active \union {id}) \in Nat
      BY <2>3, <3>1, FS_Subset, FS_CardinalityType
    <3>3. QED
      BY <2>1, <3>1, <3>2, ScanAssumption
  <2>5. ASSUME NEW v \in Sites
        PROVE  listed'[v] + Cardinality(Storing(v)') <= Concurrency
    <3>1. Storing(v)' \subseteq Storing(v)
      BY <1>2, <2>2 DEF Storing
    <3>2. Cardinality(Storing(v)') <= Cardinality(Storing(v))
          /\ Cardinality(Storing(v)') \in Nat /\ Cardinality(Storing(v)) \in Nat
      BY <3>1, JobsAreFinite, FS_Subset, FS_CardinalityType
    <3>3. QED
      BY <1>0, <2>1, <3>2, ScanAssumption DEF RowsAreScans
  <2>6. QED
    BY <2>4, <2>5 DEF RowsAreScans
<1>8. CASE BackoffOver(id) \/ Reclaim(id)
  <2>1. CASE BackoffOver(id)
    BY <1>4, <1>6, <2>1, AtWork DEF BackoffOver, Stages
  <2>2. CASE Reclaim(id)
    <3>1. CASE job[id].stalls = 0
      <4>1. job' = [job EXCEPT ![id] = [job[id] EXCEPT !.state = "waiting", !.stalls = 1]]
        BY <1>0, <2>2, <3>1 DEF Reclaim, QueueFits, Job
      <4>2. job'[id].state = "waiting"
        BY <1>0, <4>1 DEF QueueFits, Job
      <4>3. QED
        BY <1>6, <2>2, <4>2 DEF Reclaim, Stages
    <3>2. CASE job[id].stalls # 0
      BY <1>5, <1>6, <2>2, <3>2 DEF Reclaim, Outcomes, Stages
    <3>3. QED
      BY <3>1, <3>2
  <2>3. QED
    BY <1>8, <2>1, <2>2
<1>9. CASE MarkInProgress(id) \/ SaveResults(id) \/ ReportCompliance(id) \/ ScanThrows(id)
  <2>1. job[id].state \in Stages /\ listed' = listed
    BY <1>9 DEF MarkInProgress, SaveResults, ReportCompliance, ScanThrows, Write, Stages
  <2>2. Goto(id, "crawl") \/ Goto(id, "report") \/ Settle(id, "completed") \/ Retry(id)
    BY <1>9 DEF MarkInProgress, SaveResults, ReportCompliance, ScanThrows, Write
  <2>3. job'[id].state # "store"
    BY <1>3, <1>4, <1>5, <2>2, AtWork DEF Stages, Outcomes
  <2>4. QED
    BY <1>6, <2>1, <2>3
<1>10. CASE StoreCookie(id)
  <2>1. job[id].state = "store" /\ job[id].state \in Stages
    BY <1>10 DEF StoreCookie, Write, Stages
  <2>2. job'[id].state # "store"
    <3>1. Goto(id, "save") \/ Retry(id)
      BY <1>10 DEF StoreCookie, Write
    <3>2. QED
      BY <1>3, <1>4, <3>1, AtWork DEF Stages
  <2>3. listed' = [listed EXCEPT ![w] = IF Exists(w) THEN @ + 1 ELSE @]
    BY <1>10 DEF StoreCookie
  <2>4. ASSUME NEW v \in Sites
        PROVE  listed'[v] + Cardinality(Storing(v)') <= Concurrency
    <3>1. Storing(v)' \subseteq Storing(v) \ {id}
      BY <1>2, <2>2 DEF Storing
    <3>2. v = w => id \in Storing(v)
      BY <2>1 DEF Storing
    <3>3. IsFiniteSet(Storing(v)) /\ Cardinality(Storing(v)) \in Nat
      BY JobsAreFinite
    <3>4. IsFiniteSet(Storing(v) \ {id})
          /\ Cardinality(Storing(v) \ {id}) =
               IF id \in Storing(v) THEN Cardinality(Storing(v)) - 1
               ELSE Cardinality(Storing(v))
      BY <3>3, FS_RemoveElement
    <3>5. Cardinality(Storing(v)') <= Cardinality(Storing(v) \ {id})
          /\ Cardinality(Storing(v)') \in Nat /\ Cardinality(Storing(v) \ {id}) \in Nat
      BY <3>1, <3>4, FS_Subset, FS_CardinalityType
    <3>6. listed'[v] <= IF v = w THEN listed[v] + 1 ELSE listed[v]
      BY <1>0, <2>3
    <3>7. listed[v] \in Nat /\ listed'[v] \in Nat
      BY DEF ScanInv, ScanTypeOK
    <3>8. listed[v] + Cardinality(Storing(v)) <= Concurrency
      BY DEF RowsAreScans
    <3>9. QED
      BY <3>2, <3>3, <3>4, <3>5, <3>6, <3>7, <3>8, ScanAssumption
  <2>5. Active' \subseteq Active
    BY <1>2, <2>1 DEF Active
  <2>6. Cardinality(Active') <= Concurrency
    <3>1. Cardinality(Active') <= Cardinality(Active)
          /\ Cardinality(Active') \in Nat /\ Cardinality(Active) \in Nat
      BY <2>5, JobsAreFinite, FS_Subset, FS_CardinalityType
    <3>2. QED
      BY <3>1, ScanAssumption DEF RowsAreScans
  <2>7. QED
    BY <2>4, <2>6 DEF RowsAreScans
<1>11. CASE CrawlPages(id)
  <2>1. job[id].state \in Stages /\ listed' = listed
    BY <1>11 DEF CrawlPages, Stages
  <2>2. CASE job'[id].state # "store"
    BY <1>6, <2>1, <2>2
  <2>3. CASE job'[id].state = "store"
    <3>1. listed[w] = 0
      <4>1. ~Listed(w)
        BY <1>4, <1>5, <1>11, <2>3, AtWork DEF CrawlPages, Stages, Outcomes
      <4>2. QED
        BY <1>0, <4>1 DEF Listed
    <3>2. Active' \subseteq Active
      BY <1>2, <2>1 DEF Active
    <3>3. IsFiniteSet(Active) /\ Cardinality(Active) \in Nat
      BY JobsAreFinite
    <3>4. Cardinality(Active') <= Concurrency /\ Cardinality(Active') \in Nat
          /\ IsFiniteSet(Active')
      <4>1. Cardinality(Active') <= Cardinality(Active)
            /\ Cardinality(Active') \in Nat /\ IsFiniteSet(Active')
        BY <3>2, <3>3, FS_Subset, FS_CardinalityType
      <4>2. QED
        BY <3>3, <4>1, ScanAssumption DEF RowsAreScans
    <3>5. ASSUME NEW v \in Sites
          PROVE  listed'[v] + Cardinality(Storing(v)') <= Concurrency
      <4>1. CASE v = w
        <5>1. Storing(v)' \subseteq Active'
          BY DEF Storing, Active, Stages
        <5>2. Cardinality(Storing(v)') <= Cardinality(Active')
              /\ Cardinality(Storing(v)') \in Nat
          BY <5>1, <3>4, FS_Subset, FS_CardinalityType
        <5>3. QED
          BY <2>1, <3>1, <3>4, <4>1, <5>2, ScanAssumption
      <4>2. CASE v # w
        <5>1. Storing(v)' \subseteq Storing(v)
          BY <1>2, <4>2 DEF Storing
        <5>2. Cardinality(Storing(v)') <= Cardinality(Storing(v))
              /\ Cardinality(Storing(v)') \in Nat /\ Cardinality(Storing(v)) \in Nat
          BY <5>1, JobsAreFinite, FS_Subset, FS_CardinalityType
        <5>3. QED
          BY <1>0, <2>1, <5>2, ScanAssumption DEF RowsAreScans
      <4>3. QED
        BY <4>1, <4>2
    <3>6. QED
      BY <3>4, <3>5 DEF RowsAreScans
  <2>4. QED
    BY <2>2, <2>3
<1>12. QED
  BY <1>7, <1>8, <1>9, <1>10, <1>11 DEF JobStep, ScanStep

\* Every step keeps the rows within the scans.
LEMMA NextRows ==
  ScanInv /\ RowsAreScans /\ [Next]_vars => RowsAreScans'
<1> SUFFICES ASSUME ScanInv, RowsAreScans, [Next]_vars
             PROVE  RowsAreScans'
  OBVIOUS
<1> USE DEF siteVars, queueVars, callVars, clockVars
<1>0. ScanInv' /\ QueueFits /\ listed \in [Sites -> Nat]
  BY NextScanInv DEF QueueFits, ScanInv, ScanTypeOK
<1>1. ASSUME job' = job, \A w \in Sites : listed'[w] <= listed[w]
      PROVE  RowsAreScans'
  BY <1>0, <1>1, NoMoreWork
<1>2. ASSUME NEW id \in JobId, job' = Added(id), kept' = kept, listed' = listed
      PROVE  RowsAreScans'
  <2>1. \A j \in JobId : job'[j].state # job[j].state => job'[j].state = "waiting"
    BY <1>0, <1>2, AddEffect DEF Added, QueueFits, NoJob
  <2>2. QED
    BY <1>0, <1>2, <2>1, NoMoreWork DEF Stages
<1>3. ASSUME NEW c \in Callers, CallStep(c)
      PROVE  RowsAreScans'
  <2>1. CASE AddManual(c)
    <3>1. PICK n \in 1 .. manuals : job' = Added(<<call[c].site, n>>)
      BY <2>1 DEF AddManual
    <3>2. <<call[c].site, n>> \in JobId
      BY <2>1, ScanAssumption DEF AddManual, JobId, NoCall, InFlight, ScanInv, ScanTypeOK
    <3>3. kept' = kept /\ listed' = listed
      BY <2>1 DEF AddManual
    <3>4. QED
      BY <1>2, <3>1, <3>2, <3>3
  <2>2. CASE ~AddManual(c)
    <3>1. job' = job /\ listed' = listed
      BY <1>3, <2>2 DEF CallStep, CreateWebsite, UpdateWebsite, StartScan, PendManual, CallFails
    <3>2. QED
      BY <1>0, <1>1, <3>1
  <2>3. QED
    BY <2>1, <2>2
<1>4. ASSUME NEW w \in Sites, DeleteWebsite(w)
      PROVE  RowsAreScans'
  <2>1. job' = job /\ listed' = [listed EXCEPT ![w] = 0]
    BY <1>4 DEF DeleteWebsite
  <2>2. QED
    BY <1>0, <1>1, <2>1
<1>5. CASE CronStep
  <2>1. ASSUME NEW w \in Sites, TriggerScan(w)
        PROVE  RowsAreScans'
    <3>1. Scheduled(w) \in JobId
      BY ScanAssumption DEF Scheduled, JobId
    <3>2. QED
      BY <1>2, <2>1, <3>1 DEF TriggerScan
  <2>2. CASE HandleCron \/ PendScheduled \/ EndCron \/ \E w \in Sites : TriggerFails(w)
    <3>1. job' = job /\ listed' = listed
      BY <2>2 DEF HandleCron, PendScheduled, EndCron, TriggerFails
    <3>2. QED
      BY <1>0, <1>1, <3>1
  <2>3. QED
    BY <1>5, <2>1, <2>2 DEF CronStep
<1>6. CASE \E id \in JobId : JobStep(id)
  BY <1>0, <1>6, JobStepRows
<1>7. CASE Crash
  <2>1. \A id \in JobId : job'[id].state = job[id].state \/ job'[id].state = "stalled"
    BY <1>0, <1>7 DEF Crash, QueueFits, Job
  <2>2. listed' = listed
    BY <1>7 DEF Crash
  <2>3. QED
    BY <1>0, <2>1, <2>2, NoMoreWork DEF Stages
<1>8. CASE Tick \/ UNCHANGED vars
  <2>1. job' = job /\ listed' = listed
    BY <1>8 DEF Tick, vars
  <2>2. QED
    BY <1>0, <1>1, <2>1
<1>9. QED
  BY <1>3, <1>4, <1>5, <1>6, <1>7, <1>8 DEF Next

\* However many scans of a website are asked for, and however they overlap,
\* throw and are repeated, a cookie of it is listed no more often than scans
\* run at a time.
THEOREM ListingBounded == Spec => []ListedWithinConcurrency
<1>1. Init => ScanInv /\ RowsAreScans
  <2> SUFFICES ASSUME Init PROVE RowsAreScans
    BY InitScanInv
  <2>1. \A id \in JobId : job[id].state = "none"
    BY DEF Init, NoJob
  <2>2. Active = {} /\ \A w \in Sites : Storing(w) = {}
    BY <2>1 DEF Active, Storing, Stages
  <2>3. \A w \in Sites : listed[w] = 0
    BY DEF Init
  <2>4. QED
    BY <2>2, <2>3, FS_EmptySet, ScanAssumption DEF RowsAreScans
<1>2. ScanInv /\ RowsAreScans /\ [Next]_vars => (ScanInv /\ RowsAreScans)'
  BY NextScanInv, NextRows
<1>3. ScanInv /\ RowsAreScans => ListedWithinConcurrency
  <2> SUFFICES ASSUME ScanInv, RowsAreScans, NEW w \in Sites
               PROVE  listed[w] <= Concurrency
    BY DEF ListedWithinConcurrency
  <2>1. listed[w] \in Nat /\ Cardinality(Storing(w)) \in Nat
    BY JobsAreFinite DEF ScanInv, ScanTypeOK
  <2>2. QED
    BY <2>1, ScanAssumption DEF RowsAreScans
<1>4. QED
  BY <1>1, <1>2, <1>3, PTL DEF Spec
=============================================================================
