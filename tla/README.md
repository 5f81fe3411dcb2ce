# A TLA+ model of the consent management backend

The repository is a NestJS server: controllers call services, services keep
their state in Postgres through one Prisma client (a bounded pool of `pg`
connections, isolation level READ COMMITTED), slow work goes over BullMQ queues
on Redis to processors in the same process, one-time codes live in a cache, and
a mailer tells people what happened. Almost every operation is *read a row,
decide, await, write by id*. What is hard about the program is therefore seldom
in one function and nearly always in two of them at once.

This directory specifies that behaviour. Paths below are relative to the
repository's `src/` (the TypeScript package). `PROJECT.json` maps each definition
to its lines.

1. [Inventory](#1-inventory)
2. [Plan](#2-plan)
3. [Modules and the code they model](#3-modules-and-the-code-they-model)
4. [Runs, bounds and fairness](#4-runs-bounds-and-fairness)
5. [What is proved](#5-what-is-proved)
6. [Where the code and its own words part](#6-where-the-code-and-its-own-words-part)
7. [What is not modelled, and assumptions](#7-what-is-not-modelled-and-assumptions)

## 1. Inventory

| component | state | operations | talks to | what is hard | what makes it correct |
|---|---|---|---|---|---|
| **Rights requests, status machine** (`rights-requests/rights-requests.service.ts`) | `RightsRequest` rows: status, type, dueDate, slaPausedAt, closedAt | updateStatus, approve, reject, escalate, requestMoreInfo, partialFulfil, generateExtract, update | erasure and reports queues, mailer, audit log, SLA rules | a transition is checked against a copy and written by id; jobs are queued before the commit; the SLA clock is resumed outside the transaction | no request is handled before identity check and review, ended cases are closed, the deadline is put off by the pause and no more, nothing is erased that was not decided |
| **Rights requests, intake** (`create`) | the row, its case number, workflow steps, audit row | create | pool, mailer, workflow templates | nested queries inside a transaction use other connections of the same pool; numbers by count | every call is answered; whoever got a confirmation has a case |
| **Case file**: assignment, notes, evidence, attachments | one row each, plus an entry in the trail of the case | assign, add, verify | storage | the row and its entry are two statements | the trail lacks an entry only for a call that is between the two or failed there |
| **Erasure worker** (`erasure.processor.ts`) | the job in hand; anonymised consent records and grievances | process | queue, mailer, request rows | crash between steps, re-delivery of a stalled job, a row that has moved on | confirmed only when both tables are scrubbed; a queued job settles |
| **SLA monitor** (`sla-monitor.processor.ts`) | slaBreached, slaAlertSent, nearBreachAlertSent | a run every fifteen minutes | mailer, request rows | acts on a list read earlier; mail, then mark, whether the mail went out or not | one alert a row; a mark only after a mail that was at least tried; no overdue open row is forgotten |
| **SLA rules, workflow templates** (`rights-requests/sla-rule.service.ts`, `workflow-template.service.ts`) | rules and templates of a tenant with their steps | look-up: tenant and type, regulation, built-in; upsert, toggle | used by create and requestMoreInfo | one query after the other, fallbacks on failure and on an empty list; a template edited while it is read | the most specific rule wins; an intake gets the whole of an edit, and the built-in steps only where a query failed or an edit brought none |
| **Reports** (`reports/`) | GeneratedReport rows, the job, the export in the store, the temporary file | create, download, delete, process | reports queue, storage, mailer | a row deleted or a job run twice while it is processed; a failure between file, mail and row | a download finds its export; a report ends COMPLETED or FAILED |
| **Consent verification** (`consent-widget/consent-otp.service.ts`, `consent-parental.service.ts`, `aadhaar/`), and the script of the widget in the page | cache entries with hash, attempts, expiry; a verified mark; the variables of the script | send, verify, assertVerified; fill in, ask for a code, answer it, submit, switch the language, close and reopen | cache, mailer | get-then-set on a cache; a resend racing an answer; the form edited after the code was answered; answers that come in any order | a consent recorded as verified was confirmed by the address it is recorded under |
| **Consent widget** (`consent-widget/consent-widget.service.ts`, public controller) | `ConsentWidgetConfig` rows; `ConsentRecord` rows | create, publish, enable, disable, edit, archive; serve a form, record, withdraw, report | deployments, records, verification | forms and submissions resolve the version by different rules; the purposes of a submission are written one by one; find, then create | what a visitor is told of a consent is what the table says; an answer is not lost; the record names the version that was shown |
| **Consent templates, versions, deployments** | templates with status and fields, numbered versions, deployments with status and isActive | publish a version, edit, archive; deploy, update, roll back, remove | records, widget | next number by read; publishers that do not see each other's rows; the template is written after its version | numbers without gap or duplicate; live versions few |
| **Consent records**, receipts (`consent-records/`) | records GRANTED or REVOKED, receipts | create, update, receipt job | receipts queue, usage records | deployment checked before the record is written; receipt made after an erasure | a record's deployment was active |
| **Cookie scans** (`cookies-management/scanner-scheduler.service.ts`, `cookie-scanner.processor.ts`, `cookies-management.service.ts`) | website status and lastScan, scan jobs with ids, retries | schedule hourly, start, edit, delete, process | scan queue, reports, mailer | job ids kept after completion; PENDING written after the add; deletion while scanning | a website that is PENDING gets its scan |
| **Cookie banner** (`cookies-management/cookie-banner-public.controller.ts`) | the answer in the browser's storage, posts on their way, `CookieConsentLog` rows | load, ask the status, answer, withdraw; record | website rows | posts nobody waits for, logged in any order; pages that share a storage or only an address | no withdrawal that is logged late takes away a consent given after it |
| Cookie classification, compliance reports | cookie inventory | classification, rendering | scans | text rules and layout | - |
| **Authentication, sessions** (`auth/`, `sessions/`) | sessions with a refresh token and isCurrentSession, reset codes and attempts on the user row | login, refresh, logout, forgot, verify, reset, change, second factor | audit log, mailer | list-then-end-then-create; check-then-update; counters read and written back; password and sessions changed in two statements; a password compared with a row read earlier | the limit on sessions is passed by no more than the calls in flight; a session that has ended is not current again; a reset ends the sessions of the old password, and logins that had compared it leave no more than the calls in flight |
| **Users, roles, invitations** | user and role rows with permissions, PENDING invitations | create, update, delete, invite | auth, mailer | read, delete the permissions, write the new ones, without a transaction; check, then create | an Admin keeps its flags on USER_SETUP unless an update names others; nobody is made a user with a role that manages users |
| **Notices** | the notice, its versions, acknowledgements, languages | create, update, serve, acknowledge; create, update and delete a language | public controller and script | three statements an edit; pages served in between; one default cleared and another set | versions run from 1 to the current one; an acknowledgement names a version no older than the page |
| **Grievances** | rows with a status and case number | create, update, comment, escalate | mailer | numbers by count, without a transaction | numbers without gap or duplicate |
| Notifications | none | send one mail | mailer | a failed mail is a `false` that callers may ignore | - |
| Integrations, API keys, public intake, webhooks | configuration rows | CRUD, test, guard | rights intake | - | - |
| **Audit interceptor**, audit and system logs | log rows | around every handler: snapshot, handler, answer, entry, mirror | every controller | written after the answer by nobody's order; each write may fail in silence; the row may be gone | nothing is logged that did not happen, nothing twice, nothing in the system log that the audit log lacks |
| **Dashboard, analytics, lists** | none; usage rows | counts and shares by several queries, months and weeks of a trend, pages of a list, the backfill of usage rows | every table | each answer is put together from queries that see different tables | a figure is off by no more than the changes made meanwhile |
| Encryption, security, translation, settings, purposes, categories, third parties, retention | configuration rows or none | CRUD, pure functions | - | - | - |

Components with a bold name are modelled, in whole or, where `PROJECT.json` says so,
in part. `PROJECT.json` "hazards" lists, line by line, what can go wrong in the code
and which properties watch it.

## 2. Plan

Order, by what a mistake costs: first what may erase or lose a person's data or
miss a statutory deadline, then what decides whether a consent counts, then who
may act at all, then the scans and the rest.

| # | module | components | abstract specification | to prove |
|---|---|---|---|---|
| 1 | `RightsStatus`, `RightsLifecycle`, `RightsRequests`, `RightsDesk` | status machine and erasure worker, composed over the rows and the queue; the calls by themselves | `RightsLifecycle` | type, safety, implementation, `ClockRunsAlone`, `ValidatedAlone` (**done**) |
| 2 | `SlaMonitor`, which extends `RightsRequests` | the monitor on the same rows | - | type, `AlertedOnce`, `MarkedWasTried` (**done**) |
| 3 | `RightsIntake` | create and the pool | - | type, nothing is filed, numbers apart (**done**) |
| 4 | `CookieScans` | scheduler, queue, processor, deletion | - | type, both invariants (**done**) |
| 5 | `ConsentVersions` | templates, versions, deployments, widgets | - | type, numbering, `LiveWithinEditors` (**done**) |
| 6 | `ConsentRecording`, which extends `ConsentVersions` | forms, submissions, withdrawals, records | - | type, `StatusIsTruth`, `StandingWithinCalls`, `AnswersAreKept` (**done**) |
| 7 | `Accounts`, `Access` | the user, its sessions and codes; roles, users, invitations | - | type, `SessionsBounded`, `EndedForGood`, `ResetEndsSessions`; type, `AccessHolds` (**done**) |
| 8 | `WidgetPage` | the script in the page and the verification over the cache | - | type, `RecordedIsVerified` (**done**) |
| 9 | `Reports`, `CaseFile` | report and receipt rows and their processors; files of a case, look-ups of intake, grievances | - | types, `ReportsHold`, `LookupsHold`, `RecordsHold` (**done**) |
| 10 | `AuditTrail`, `Dashboards` | the two logs; what figures and lists tell | - | types, `LogsHold`, `FiguresHold` (**done**) |
| 11 | `CookieBanner`, `Notices` | banner, storage and log; versions, pages, acknowledgements, languages | - | types, `StoredConsentStands`, `NoticesHold` (**done**) |

Each group of the core gets one run that passes and, where the code contradicts its
own words, one run that shows it; rows 7 to 11, whose components share no rows
with each other, are checked together by `services`, and the banner by `visitors`,
beside the consents of forms. Parameters are constants with
named assumptions, an operation is one action (or one action per await that
matters), and no module reaches a RECURSIVE operator.

All rows are written and checked, and every invariant and action property of a
passing run is a theorem. What is left to TLC is liveness (end of section 5). Worth
doing next: a promise for the sessions and for the reports in the manner of
`RightsLifecycle`, with the theorem that `Accounts` and `Reports` implement it.

## 3. Modules and the code they model

### RightsStatus

The enum `RightsRequestStatus` (`prisma/schema.prisma`) and the table
`STATUS_TRANSITIONS` with its look-up (`Allowed`). Two sets are named: `Terminal`
(no successors) and `InHand` (work is done on the request).

### RightsRequests

State: `row[r]` is the row of request `r` (the columns the handlers decide by),
`queue` the waiting jobs of the `erasure` queue, `worker` the processor and the
job it holds, `scrubbed[r]` the tables anonymised for the requester, `confirmed`
who was told so, `failed` the jobs that failed for good, `now` the clock.
`clerk[c]` is the call that caller `c` has in flight. `visited` and `ordered` are
histories and influence nothing.

A call is cut where other code can run between its awaits and a reader could
tell the difference:

| action | code |
|---|---|
| `Read(c, r, call)` | `findOne` and the check of `STATUS_TRANSITIONS`; the copy is `clerk[c].snap`. The route is one of updateStatus and the five quick actions, each with its target |
| `Resume`, `ResumeThrows` | in updateStatus, leaving ON_HOLD for IN_REVIEW: dueDate and slaPausedAt written from the copy, before and outside the transaction; a row without dueDate throws |
| `BeginTransaction` | the update inside `$transaction`, which takes the row lock, and the jobs queued inside the callback |
| `Commit`, `Rollback` | the end of the transaction; a rollback does not take queued jobs back |
| `GenerateExtract`, `Update` | the two calls that look at no status |
| `TakeJob`, `ScrubConsents`, `ScrubGrievances`, `SendErasureConfirmation`, `CloseErased` | `ErasureProcessor.process`, one action a statement; it never reads the name of the job |
| `JobFails` | a database error; the jobs are added with one attempt |
| `Crash` | the process dies: calls and transactions are lost, the stalled job is given out again once (BullMQ's default `maxStalledCount`) and then failed |

The update inside a transaction is shown to others only by `Commit`
(READ COMMITTED), and until then `Locked(r)` keeps other writers of the row
waiting. Audit rows, mails to the requester and formatting change nothing the
properties speak of and are left out.

### RightsDesk

Extends `RightsRequests` and leaves the worker out: `desk` is the set of clerks at
work, who either race over the routes of `RaceRoutes` or are one alone (`Alone`), with
all routes, more time and crashes. It states what the calls keep one at a time and lose
when they race. `MCRightsRequests` only adds the symmetry of the clerks.

### RightsLifecycle

The promise of the status machine to the rest of the program, weaker than the
table because the code is: a request moves only to a successor of *some* status
it has had, and only a request with a queued erasure is completed out of turn.
`RightsRequests!LifecycleSpec` is the refinement, with
`status <- row[r].status` and `erasureQueued` the requests for which an erasure or
extract job was ever ordered.

### SlaMonitor

Extends `RightsRequests`, so that the calls and the monitor write the same rows.
A run is `FindBreached` (first query), then `SendAlert` and `RecordAlert` for each
row of the list, `FindNearBreach` and the same again, `EndRun`. `monitor.todo` is
the list as it was read. `Mail` may fail, up to `MaxUnsent` times: `sendSLABreachAlert` catches the
error and answers `false`, `sendAlert` does not look at the answer, and the row is marked
all the same; the history `unsent` remembers of whom. `RunFails` is an exception that ends the run, and
`CrashInRun` a crash of the server that takes calls, worker and run with it. Once
a row of a list has been mailed about it is marked by id whatever it has become.

### RightsIntake

`create`: `Count` takes the number, `Begin` a connection for the transaction,
`Insert` the row under the unique index, `Notify` the template query (a second
connection), steps, audit row and mails, `FindOne` the query the callback returns
(again a second connection), `TimeOut` Prisma's limits on waiting and on the
transaction. `Connection` counts the pool.

### CookieScans

Three writers of one column. `site[w]` is the row of website `w` (`UNBORN` before
it exists, `GONE` after it was deleted), `job[id]` what BullMQ knows of a job,
`kept` the ended jobs it keeps, `call[c]` and `cron` the calls and the hourly run
between the job they added and the PENDING they write after it, `listed[w]` the
rows of the inventory for one cookie of `w`. `abandoned` is a history: websites
of which the last word of a scan was lost.

| action | code |
|---|---|
| `CreateWebsite`, `UpdateWebsite`, `StartScan`, then `AddManual`, `PendManual` | the three methods that ask for a scan: row, then job with an id of its own, then PENDING and lastScan (createWebsite relies on the column's default and ends with the job) |
| `CallFails` | the queue or the database throws; what was done stays |
| `DeleteWebsite` | `deleteWebsite`; the inventory goes with the row (`onDelete: Cascade`) |
| `HandleCron`, `EndCron` | `handleCron`: one query for the list, `Fetched` with its order (NULL last) and limit, `Due` decided on the copies |
| `TriggerScan`, `PendScheduled`, `TriggerFails` | `triggerScan`: the job, then PENDING; its catch |
| `Added`, `Settle`, `Retry`, `BackoffOver`, `Reclaim` | BullMQ: an id that is known is not added; ended jobs are kept up to a limit; attempts and pauses; a stalled job is given out again once |
| `TakeJob` | the website is looked up outside the `try`: if it is gone the attempt fails without a write |
| `MarkInProgress`, `CrawlPages`, `StoreCookie`, `SaveResults`, `ReportCompliance` | the `try` of `process`. `CrawlPages` ends with the last look at the website and the look-up of the cookie, `StoreCookie` is the row made for it |
| `ScanThrows` | any statement of the `try` throws: FAILED is written, or that fails too, and the error goes back to the queue |

The crawl of the pages is one step: it changes no shared state. One cookie per
website is followed, since each is looked up and stored on its own.

### ConsentVersions

What decides which text a visitor consents to. `template[t]` is status and
wizardFields, `versions[t]` the version rows of `t` in the order of insertion,
`deployments` the rows with their key (version, application), `widget[w]` the
configuration row, `clock` the last time stored in deployedAt or updatedAt,
`call[e]` what editor `e` has read. Of a content only what the server decides by is
kept: one consent for all purposes, or one for each.

| action | code |
|---|---|
| `ReadForVersion`, `CreateVersion` | `ConsentVersionsService.create`: template and last version, then the transaction; the unique index fails the later of two equal numbers |
| `ReadForEdit`, `CaptureEdit`, `SaveTemplate`, `RemoveTemplate` | `ConsentTemplatesService.update` (a version first when the template read is PUBLISHED, then the row, outside a transaction), `remove` |
| `ReadForDeploy`, `Deploy`, `UpdateDeployment`, `ReadForRollback`, `RollBack`, `RemoveDeployment` | `ConsentDeploymentsService` |
| `ReadForPublish`, `FindSuperseded`, `Deactivate`, `CommitPublish`, `RollbackPublish` | `publishAndActivate`: the reads; the `updateMany` under READ COMMITTED, which sees the rows committed when it starts, waits for locked ones and looks at those again; the upsert, the widget and the commit |
| `ReadForEnable`, `ReadForDisable`, `SetEnabled`, `UpdateWidget`, `ArchiveWidget` | `setEnabled`, `update` and `remove` of the widget service |

`published` in a deployment is a history: the row was last made live by
`publishAndActivate` and not by hand.

### ConsentRecording

Extends `ConsentVersions`. `records` are the `ConsentRecord` rows in order of
grantedAt, `visit[c]` a visitor's or client's call in flight.

| action | code |
|---|---|
| `LoadForm` | `getWidgetConfig`: `ServedWidgets` (by id, else the application's widget that was written last), `Displayed` (newest live deployment of the widget's template) |
| `Submit`, `ResolveVersion`, `Refuse` | `recordPublicConsent` up to the writes: the widget again, `InForce` (newest live deployment of the application), the fallback to the highest version, the verifications, which may fail |
| `RecordCombined` | `recordCombinedConsent` |
| `BeginSeparate`, `FindStanding`, `CreateRecord`, `RevokeUnchosen`, `LoopFails` | `recordSeparatePurposeConsents`, a purpose and a statement at a time |
| `FindWidget`, `Withdraw` | `withdrawConsent` |
| `CheckDeployment`, `Insert`, `UpdateRecord` | `ConsentRecordsService.create` and `update` |

Histories: `said[k]` holds the answers that the submissions now under way, or else
the last one, gave of consent `k` (a purpose of a subject on an application), and
`handled` the consents that clients of the API wrote to, of which the properties of
the widget's records do not speak. `shown` in a record is the version the form
was made from.

### Accounts

One user and its sessions. A session carries two passwords: `checked`, which its login
compared with the row it had read, and `since`, which the account had when the session was
made; a login that overlaps a reset makes them differ. `user` is the row (status, roles, password, the reset
code with its attempts, the second factor), `sessions` the rows in the order of
loginTime, `request[c]` what a call has read. `excused` is a history: passwords
whose sessions a later password left alone, by design (an administrator's, a
change) or over a crash.

| action | code |
|---|---|
| `ReadForLogin`, `ListSessions`, `EndOldest`, `OpenSession` | `login`: the checks; the list of current sessions; the ones beyond the limit ended; the new row |
| `ReadForRefresh`, `Renew`, `SignOut`, `RemoveSession` | `refresh` (found by its token, written by id), `logout`, `sessions.remove` |
| `ReadForCode`, `WriteCode`, `CodeExpires`, `ReadWrongAnswer`, `WriteAttempts` | `forgotPassword`, `verifyResetOtp`: attempts read and written back |
| `ReadForReset`, `ResetPassword`, `EndSessions` | `resetPassword`: password, then sessions |
| `ReadForChange`, `ChangePassword`, `GenerateMfaSecret`, `ReadForMfa`, `EnableMfa`, `ResetMfa` | the user's own calls |
| `UpdateStatus`, `RemoveUser`, `DropRoles`, `UpdateUser`, `OverwritePassword` | `UsersService`; `remove` only disables |
| `ServerCrashes` | the calls in flight are lost between two statements |

### Access

`role` with its permissions, a user made with it, the pending invitations of one
address. Of the permissions, `modules` are those it has one on, and `flags` the flags of the
one on USER_SETUP, the only module whose flags these calls look at: `Grants` is the guard's
test of a flag, `CanManage` the test of `ensureRolesDoNotGrantUserSetup` for any of create,
edit, configure and admin, so that a role that may only view users does not manage them.
`ReadRole`, `ClearPermissions`, `WriteRole` are the three statements of `roles.update`; the
write is one statement that fails as a whole on the unique key of role and module.
`AllowedPermissions` keeps the permission on USER_SETUP that an Admin has if the update names
none; an update that names one replaces it, and an Admin given only *view* there no longer
manages users. `CheckRoles`, `CheckAddress`, `CreateUser` and `CheckInvitation`,
`CreateInvitation` are the two calls that check first. `ActBreaks` ends a call between two
statements.

Three histories: `names`, all the names the role has had; `given`, the flags it was made
with and those that updates named since; and `wroteBare`, set when an update is *written*
that had read the role while it had no permission on USER_SETUP. `AdminKeepsUserSetup` says that
the flags are always among `given`: nobody loses the management of users by an update that
did not mention it. The exceptions, an update between its two statements, one that
broke off there, and `wroteBare`, are real losses in the code, and a reader of the property
should take them as such.

### WidgetPage

The script in a visitor's page and the public endpoints it calls. `page` holds the
script's variables and the form, `fetch[f]` a request with what it carried and how
far the server is, `entry` and `mark` the two cache keys of an address, `aadhaar` its
transactions and mark, `records` the consents made with what they say of the
verification. `confirmed` is a history.

| action | code |
|---|---|
| `EnterAge`, `EnterEmail`, `Remove`, `Reopen`, `Hide`, `SwitchToDefault` | the visitor and the script's timers |
| `SendOtp`, `VerifyOtp`, `InitiateAadhaar`, `ConfirmAadhaar`, `Submit`, `SwitchLanguage` | the fetches, with the script's own checks |
| `StoreCode`, `DropMark`, `CompareCode`, `CountWrong`, `SetMark`, `DeleteCode` | `sendOtp` and `verifyOtp`, a command of the cache at a time |
| `OpenTransaction`, `CompareAadhaar`, `CloseTransaction` | `AadhaarService` |
| `MakeRecord` | the checks of `recordPublicConsent` on marks and age, and what it records |
| `Forget`, `Hear`, `Lose` | an entry reaches its time to live; the answer arrives, in any order, or never |

A wrong answer is written back with a new time to live and may overwrite a newer
code; the buttons for a code stay disabled once one was right; a change of the
address alone does not reset the page's `otpVerified`; a language may be recorded
that is not the one shown. All of these are in the model, and the property holds in
spite of them because the server looks at the mark of the address it records.

### CaseFile

Four parts, one followed at a time (`followed`): the file of a case
(`WriteFileRow`, then `WriteTrail`, which may be lost; `StoreEvidence` first for
evidence); the workflow template (`ReadForUpsert`, `DeleteSteps` and `FillSteps` in a
transaction, with a list of steps that may be empty; `FindTemplate` and `FindSteps` of an
intake without one, and `TemplateQueryFails`, since `getTemplate` catches an error of either
query and answers with the built-in steps); the SLA rules
(`AskSpecific`, `AskGeneral`, `TakeRule`, with `ToggleRule` in between and a failure that
falls back); and the grievances (`CountGrievances`, `InsertGrievance` under the unique
number, update, comment, escalation). Two racing edits of a template leave both
sets of steps, which is why `TemplateWhole` bounds the edits an intake may get. Of an intake
that was given the built-in steps although there is a template, `intakes` records whether a
query `failed` and whether the last edit to commit was `bare`, that is, without steps: those
are the two cases in which the code answers so, and the property says there is no third.

### Reports

A row, its job, and the runs of the processor: `StartRun`, `MarkProcessing`, `Gather`,
`Upload`, `Announce` or `WriteFile`, `CompleteReport`, `Deliver`, `RemoveFile`; for a receipt
`SendReceipt`. `FailRun` writes RPT_FAILED, which itself fails when the row is gone.
`JobStalls` gives a job out again beside the run that still holds it, and
`ReportServerStops` is a crash. A standard report is completed without a path, so
`Downloadable` is false of it.

### AuditTrail

`trail[c]` is a call inside the interceptor: `Receive`, `TakeSnapshot` (PUT, PATCH and
DELETE of a known model with an id), `Handle` or `Refuse`, and after the answer
`WriteAudit`, `ReadUserName`, `WriteSystem`; `WriteOwnAudit` and `MirrorOwn` are the entries a
handler writes itself. Any of the writes may fail in silence. Categories, severities
and labels are computed from the url as the code does, since the entries differ by
them.

### Dashboards

One reader at a time, and tables that change while its queries are answered in any
order: `StartMetrics`, `StartKpis`, `StartCookieMetrics` send the queries, `AnswerQuery` fills
one in, `StartTrends`, `StartWeeks`, `StartAnalytics` compute the months and weeks (`setMonth`
on the 29th to 31st passes over a short month), `CountRows`, `ReadRows`, `TurnPage` are a
paginated list, `ListConsents`, `FindUsage`, `BackfillUsage` the backfill of usage rows beside
the call that recorded the consent. The trend by regulation of the analytics is
always zero in the code and has no definition.

### CookieBanner

Pages of visitors behind one address, who share a status on the server; or tabs of
one browser, who share the storage too (`tabs`). `LoadPage`, `ResolveVisitor`, `AskStatus`,
`HearStatus` are `checkConsent`; `SetConsent` the three buttons (storage, post, fading
banner), which are not told apart since nothing is decided by which it was;
`WithdrawStored`, `PostWithdrawal`, `ShowAgain` the withdrawal; `RecordPublicConsent` the server, which logs posts in any order, or loses one. `local[p]` is the post whose consent the
storage holds.

A page that loads asks the server and drops its consent if the *last entry of the log*
is a withdrawal, and the log is written in the order the location look-ups return. So a
withdrawal that is logged late takes away a consent given after it. What keeps that from
happening is only the order of the script: the storage is emptied, the withdrawal posted,
and the banner shown again when the server has answered. `StoredConsentStands` says how far this
reaches: within a browser such a withdrawal is last only if the consent was given `during` it
(the banner was open in another tab, still fading, or opened by `showBanner`), or
if the page had `left` it: it was loaded anew or its connection broke before the answer.
Both exceptions happen in the code. Not claimed, since the code does not provide it:
anything about the order of a withdrawal and the consent it withdraws, whose post may
still be on its way, or about a withdrawal from another browser behind the address.

### Notices

`CreateNotice`, `SnapshotFirst`, and `ReadNotice`, `WriteNotice`, `SnapshotNext`, `NumberNotice` are the
statements of `create` and `update`; `BreakOff` stops an edit between two.
`ServeScript`, `ShowByType`, `ReadNow`, `ReportVisit` are the page and
`RecordNoticeAcknowledgement` the server, which names the version that is current when
the report arrives. `BeginLanguage`, `CreateLanguage`, `BeginUpdate`, `UpdateLanguage`,
`DeleteLanguage` are the languages and their one default; an update may also set isDefault to
false, which clears no other and may leave none. An edit that broke off
after its version row makes every later versioned edit fail on the key while the
text still changes, which is what `overlapped` and `aborts` in the properties are for.

### MCServices, MCVisitors

`MCVisitors` composes `ConsentRecording` and `CookieBanner`, `MCServices` the other eight:
`Access`, `Accounts`, `AuditTrail`, `CaseFile`, `Dashboards`, `Notices`, `Reports`, `WidgetPage`.
In each they share no rows, so the variable `part` picks the component that moves in a
behaviour (the languages of notices count as one), and the others rest in one of their
initial states. The state space is the sum and not the product. That each of the eight
still behaves as it does by itself is a theorem, `EachBehavesByItself`; of the two it is
read off the two moves of `VisitorsNext`. `MCErasure` does the same for `rights_erasure`: it instantiates `RightsRequests` with
the actions its configuration can take, so that a run never names an action that its
constants switch off.

### Mutants

An operator whose comment begins with "Mutant:" is a plausible bug in the
definition that follows it (a dropped guard, a swapped flag, a missing step).
No specification uses it: `PROJECT.json` "mutants" says which property must fail
once it takes the definition's place, which shows that the property depends on
the code and not on the shape of the model.

## 4. Runs, bounds and fairness

| run | configuration | asks |
|---|---|---|
| `rights_race` | one request, two callers, all targets, one tick, no queue, no crash; or one caller alone, all seven status and edit routes, three ticks, two crashes | What do two racing calls keep? Identity check comes first, a deadline is put off by no more than the time gone by, `RightsLifecycle` is implemented. What holds only for calls one at a time: the table of transitions (`ValidatedAlone`), and a running clock of an open case that is not on hold (`ClockRunsAlone`), over a crash between the resume and its transaction |
| `rights_erasure` | one request, one caller, the worker, extracts, one crash, fairness | Nothing is erased unreviewed, nobody is told too early, a case the worker closes has its date and was queued (`TerminalIsClosed`, `LifecycleSpec`, whatever the clerk has done to it meanwhile), and every queued job settles |
| `sla_alerts` | two requests, one caller, two ticks, one crash or failed run, one mail that fails, fairness | One alert a row and crash; a marked row was mailed about, or its mail failed; overdue rows are marked in the end |
| `intake_pool` | three calls, two connections, fairness | Every call is answered although all may hold one connection and wait for another |
| `cookie_scans` | one website, found FAILED or not yet created, a caller's scan and the scheduled one, two workers, two attempts, a tick, two crashes or lost writes, fairness | Is a website that is IN_PROGRESS always watched by a job, and does it leave that status? How often can overlapping scans list a cookie? |
| `consent_versions` | one published template with a live version and a widget, two editors, all twelve calls, four of them | Are versions numbered without gap or duplicate however `create` and the edit of a published template race? Is each version deployed to an application once? How many versions can racing publications leave live? |
| `visitors` | two components, each alone (`part`): one template with two purposes, one subject, two calls at a time and three in all (submit, withdraw, and a client's create and update), an editor who publishes or rolls back; two pages with the banner, tabs of one browser or not, two loads and two posts that are lost or logged in any order | Is what a visitor is told true? How many records of one consent can stand? Does the table end with an answer somebody gave last? When can a withdrawal that is logged late take away a consent? |
| `services` | eight components, each alone (`part`): three sessions and two callers; two calls in the interceptor; two members of staff on a case file; a reader beside three changes; two authors, three languages; two runs of a report; two fetches of a page; a role, seeded or not yet made, with the flags *view* and *edit* and two clerks, three calls; one crash or failure each | Do the sessions stay bounded and ended, also when a login overlaps a reset, is a recorded verification real, do the logs tell what happened, how far off can figures be, what does an intake look up when queries fail, does a report settle, are notices numbered, does an Admin keep its flags on USER_SETUP and is nobody made a user with a role that manages users? |
| `extract_erases`, `intake_confirmed`, `scan_never_comes`, `record_matches_widget` | as small as the case | each refutes one statement of the repository, see section 6 |

Why the bounds are enough for what they ask. Every hazard of section 1 in these
components is a matter of two actors on one row, so one request and two callers
reach it; requests do not interact except through the queue and the monitor's
list, which is why `sla_alerts` has two. In
`rights_race` the racing callers use three routes (`RaceRoutes`): updateStatus has every
target, so it stands for the quick actions that do nothing of their own, and the two
that do (approve ignores a failing queue, requestMoreInfo stops the clock) are there;
a caller alone has all of them. One tick suffices for a pause to
be counted twice, which is what `DeadlineBound` excludes; with `DueDates = {1}` and
the row's NULL both branches of the resume occur. The erasure run has a queue of
length one: with one request a longer queue repeats the same job, and the proof
covers any length. `MaxTime`, `MaxQueue` and `MaxCrashes` are bounds in guards and
the only ones; the theorems hold for every value of them. Runs switch the
deadlock check off where calls, jobs and ticks may all be used up, which is a
state the bounds make; `sla_alerts` keeps it on, since the monitor never stops.

`cookie_scans` has one website because scans of different websites share only
the workers and the limits on kept jobs, and keeping one job of each kind with
two in play makes the oldest one go. Two jobs of one website (a caller's and the
scheduled one) are the least that overlap; with `Concurrency = 2` both may look the
cookie up before either stores it. `KeepFailed = 1` stands for 100 and `Attempts = 2`
for 3. `Window = 1` takes the one website; the limit of 25 matters only with more
websites than that. The proofs hold for every value.

`consent_versions`: the hazards are of two editors on one template, and a race takes
one call of each; four calls let both race twice, or one publish a version that
the other two calls publish again or roll back. A second template, application or
widget would share nothing with the first but the application's newest
deployment, which is the subject of `record_matches_widget`. `visitors`: three visits
with two in flight are a submission that others overtake, before and after; a
single publication or roll back changes the form or the version in between. Each
template starts with combined or separate consents, so both forms and a
withdrawal after the form has changed occur. A statement of the loop may fail at
any purpose. Of the banner the hazard is a withdrawal and a consent, which are the two
posts, and a load that asks for the status, before which the first page has to be
loaded, which are the two loads.

`services`: in each component the hazard is two actors, or an actor and a crash or a
failure, and each has two of the actors and one of the latter. Sessions start at
the limit of three, so that the next login ends one and two that overlap pass it;
three calls are two that overlap and one that follows. One wrong answer reaches the
limit of attempts, a second is the one that must not count. A reader sees three
changes while its queries are out, and a list of up to seven rows has more
than one page. Two addresses are the visitor's and the guardian's; three fetches are
a code, its answer and the submission, and since marks may stand from an earlier page
that is enough for a submission to overtake either. Three edits by two authors, of two
texts, let one break off and the others meet what it left. In the run a template
asks for exactly one of a code, a guardian's code and Aadhaar; the proof covers every
combination.

Of a role, *edit* stands for the four flags that manage users and *view* for the rest, since
no call tells those of a kind apart; two clerks overlap and a third call precedes or follows
them. The run has no module besides USER_SETUP: permissions on others are carried along
and their one effect, a write that fails because another update has brought the same module,
USER_SETUP has too.

`rights_race` uses symmetry of the callers, `visitors` of calls, subjects and
purposes; they check safety only. `services` uses none: with so many variables a state costs
more to permute than the smaller state space saves.

Fairness. `RightsRequests!Fairness`: the worker's steps are weakly fair (BullMQ
hands out waiting jobs and a processor's awaits return), the closing write is
strongly fair because it waits for a row lock that Postgres grants in the order
of arrival, and a call in flight ends, for a transaction commits or is rolled
back after five seconds. Nothing is assumed about clerks making calls, about
`JobFails` or about `Crash`. `SlaMonitor!SlaFairSpec`: the monitor is repeated every
fifteen minutes and its run is carried through; its write waits for row locks in
turn. `RightsIntake!FairSpec`: each call runs on, where running on includes
Prisma's timeouts. `CookieScans!FairSpec`: the steps of each job are strongly fair,
as BullMQ hands out the jobs of one priority in order, callers' scans are
finite in number, a crawl has a budget of time, a pause ends, and a stalled job
is found. `HourlySpec`, for the run that refutes, adds the hourly scheduler, a
queue that does not fail it for ever, and time; the assumption makes the
counterexample stronger. Without the timeouts of Prisma the calls deadlock on the pool: that is
the mutant of `EveryCallAnswered`.

`QueuedErasureSettles` says *done or failed for good*: nothing in the code looks
at a failed job again.

## 5. What is proved

Eight modules hold the proofs. Each theorem is for every value of the constants that
meets the named assumptions of its module. Hardly a property is inductive as it
stands; the strengthenings are named in italics.

### Rights requests, the desk and the monitor: `RightsRequestsProofs`

For any number of requests, callers, due dates,
ticks, jobs and crashes, from `ParametersAssumption` alone:

| theorem | property |
|---|---|
| `TypeCorrect` | `TypeOK` |
| `ImplementsLifecycle` | `LifecycleSpec`: initial states map to initial states, every step to a step or a stutter |
| `VerificationComesFirst` | `VerifiedFirst` |
| `ReviewComesFirst` | `NothingDoneUnreviewed` |
| `EndedIsClosed` | `TerminalIsClosed` |
| `DeadlinesHold` | `DeadlineBound` |
| `ConfirmedErasureIsDone` | `ConfirmedIsScrubbed` |

None of these is inductive by itself. The strengthenings, each with one lemma
per group of actions:

- *CopiesAreVisited*: the status in a caller's copy is one the row has been
  committed in, and the copy's status leads to the call's target. It is what is
  left of the validation once the row may have moved on, and it is exactly why
  `RightsLifecycle` speaks of a status the request *has had*.
- *JobsAreOrdered*: the job in hand and every waiting job is in `ordered` of its
  request, so that `CloseErased` maps to a step of the abstract specification.
- *ReviewedFirst*: a call that leads to ACTION_TAKEN has read a reviewed status, and every
  queued job belongs to a reviewed request or was an extract.
- *ClocksBounded*: a due date, in a row or in a copy, lies between a given due
  date `d` and `d` plus the time at which the copy was paused or `now`. Two copies of the same
  pause each bring the same due date and cannot add up, since the write
  overwrites and does not increment.
- *WorkerAtStep*: which tables are scrubbed is a function of the step the worker
  is at. It survives a crash because a job that is given out again starts from
  the first step and scrubbing only adds.

Of the calls alone (`RightsDesk`), from the same assumption:

| theorem | property |
|---|---|
| `ClockRunsForOne` | `ClockRunsAlone` |
| `MovesValidatedForOne` | `ValidatedAlone` |

Neither is true of two callers, so the invariant (*AloneInv*) speaks of a desk with one
clerk: what the clerk has read is still what the row says, but for type and due date
(*CopiesAreFresh*), and an open case that is not on hold has a running clock. A
resume that crashed before its transaction is a row on hold with a running clock,
which the second conjunct allows.

Of the monitor, for any requests, clerks and bounds, from
`ParametersAssumption` and `NearBreachAssumption`:

| theorem | property |
|---|---|
| `SlaTypeCorrect` | `MonitoredTypeOK`: `TypeOK` and `SlaTypeOK` |
| `AlertsAreNotRepeated` | `AlertedOnce` |
| `MarksFollowAlerts` | `MarkedWasTried` |

The list of a run is older than what the run does, and still no listed row is marked
(*ListedAreUnmarked*): only the run marks, and it takes a row off the list when it
mails. So a row that was mailed about more often than the server crashed or a run
failed is marked or is the one in hand (*AlertsAccountedFor*), and what is marked or
in hand was mailed about, or the mail failed (*MailedFirst*). The steps of the calls and the worker leave all of
this alone, which is what the type theorem of `RightsRequests` is used for.

### Intake: `RightsIntakeProofs`

For any calls and connections, from the assumption of `RightsIntake`:

| theorem | states |
|---|---|
| `IntakeTypeCorrect` | `TypeOK` |
| `NothingIsEverFiled` | `NothingIsFiled`: no call puts a request on file |
| `NumbersStayApart` | `NumbersHeldOnce`: of the calls that counted the same rows one holds the number in an open transaction |

The second says for every number of calls and every pool what the run
`intake_confirmed` finds on a small one: the query that ends the callback runs on another
connection and does not see the row. It is no consequence of the pool being
exhausted. The three are inductive together (*IntakeInv*).

### Cookie scans: `CookieScansProofs`

For any websites, callers, frequencies, limits,
crashes and ticks, from `ScanAssumption` alone:

| theorem | property |
|---|---|
| `ScanTypeCorrect` | `ScanTypeOK`, and that the queue keeps only jobs that have ended, each once |
| `ScanningWatched` | `ScanningIsWatched` |
| `ListingBounded` | `ListedWithinConcurrency` |

Type correctness needs *KeptHaveEnded*: only then does dropping the oldest kept
job (`Settle`) never drop one that is at work, and only then do the steps of one
job leave every other job alone (`JobStepEffect`), on which the other two rest.
`ScanningIsWatched` is then inductive. `ListedWithinConcurrency` needs *RowsAreScans*:
the rows of a cookie and the scans that have yet to make one are together no
more than the scans that may run, since each of them looked the cookie up when
there was none.

### Consents: `ConsentsProofs`

For any templates, widgets, applications, editors
and calls, from `VersionsAssumption` and `StartAssumption`:

| theorem | property |
|---|---|
| `VersionsTypeCorrect` | `VersionsTypeOK`, which includes both keys: one deployment of a version to an application, and only of a version that is there |
| `VersionsAreNumbered` | `VersionsNumbered` |

The two are inductive only together and with *CallsKnow*: the number a call has
read is at most the next one, and the version it has read is there still.
`NextNumberFits` shows that the numbers of a template are 1 .. n, so that the highest is n;
`InsertedFits`, that a number of at most n + 1 which the unique index lets in is
n + 1. This is where the index matters: without it two calls insert the same number.

| theorem | property |
|---|---|
| `LiveStaysWithinEditors` | `LiveWithinEditors` |

This one has a further hypothesis, that there is an editor: with nobody at work the one live row
the system starts with exceeds no editors. An update that reads the live rows and then
writes does not see what another publication is about to add, so the count of
live rows is not inductive. *LiveCounted* is: for *every* set S of
publications whose `updateMany` has read its rows, the live rows that none of S is about
to switch off and S together are no more than the editors. It has to be said of every
S because any of them may commit first; a commit takes its publication out of S, adds
its row and switches off the rows it had read.

Of forms and submissions, for any subjects, purposes and visitors, with
`RecordingAssumption`:

| theorem | property |
|---|---|
| `RecordingTypeCorrect` | `RecordingTypeOK` |
| `StatusStaysTrue` | `StatusIsTruth` |
| `StandingStaysWithinCalls` | `StandingWithinCalls` |
| `AnswersStayKept` | `AnswersAreKept` |

They share one invariant. *Answered*: what a submission still has before it is among
what was said of that consent. *NewestTells*: if any record of a consent stands, the
newest does. `StatusIsTruth` follows from that, since the
status is taken from the newest record; it would fail if a loop revoked the newest
of several and left the others. *StandingCounted*: the records that
stand and the submissions about to create one (`Creators`) are together no more than the
visitors, since each of the latter found none. A statement of the loop leaves the
records of a consent as they are, clears them or adds one (`Same`, `Cleared`, `Added`); the
three cases are lemmas, and each statement is shown to be one of them for every consent.

### Accounts and access: `AccountsProofs`

Of sessions and codes, for any callers, limits and crashes, from
`AccountsAssumption`:

| theorem | property |
|---|---|
| `AccountsTypeCorrect` | `AccountsTypeOK`, with the wrong answers within their limit |
| `SessionsEndForGood` | `EndedForGood` |
| `ResetsEndSessions` | `ResetEndsSessions` |
| `SessionsStayBounded` | `SessionsBounded` |

A session never began under a password yet to come (*SessionsFit*), and a wrong answer
about to be written back is within the limit (*RequestsFit*). The first half of
`ResetEndsSessions`, that no session made under the earlier password is current, is
inductive with these (*RowsAreEnded*). The second half, about logins that had compared the
earlier password, is a count: when no sessions wait to be ended, the current sessions of
such a password and the logins under way that compared one are together fewer than the
callers (*StaleCounted*), since whoever ended the sessions last is not one of those logins. It needs
that nobody has compared a password yet to come (*ComparedFit*), so that a fresh one is
stale for nobody. Every step leaves an ended session ended
(`SessionsFall`). The bound on sessions is the deep one. For *every* set S of logins that
have a list and something in it left to end, the current sessions on none of their
lists, the logins about to open one, and S together are no more than the limit less
one plus the callers (*SessionsCounted*). It has to be said of every S because the
lists differ and overlap: a login that has ended what it listed leaves S, and by
`OldestLeave` the sessions it does not end are no more than the limit less one.

Of roles, users and invitations, for any clerks, modules and bounds, from
`AccessAssumption`:

| theorem | property |
|---|---|
| `AccessTypeCorrect` | `AccessTypeOK` |
| `AccessIsKept` | `AccessHolds`: `AdminKeepsUserSetup`, `HeldRoleDoesNotManage`, `InvitedWithinCalls` |

While no call broke off and no update was written that had read a bare role, a role that
was always Admin has flags of `given` on USER_SETUP, or has no permissions at all and an update
that has deleted them is yet to write; and every update in flight that keeps the name and
brings permissions brings such flags, or has read a bare role (*AdminFits*):
`RolesService.update` keeps what the role has when it is read, or takes what it is given, which
is then in `given`. A role never called Admin is given USER_SETUP by no update in flight, so what
`ensureRolesDoNotGrantUserSetup` found is still true when the user is made (*OtherFits*). The seeded
roles have permissions on USER_SETUP, so the latter speaks of the flags and not of the row. The invitations
that are there and those about to be made are together no more than the calls
(*InvitationsCounted*): each of the latter found none.

### What a visitor does: `VisitorProofs`

Of the page and the verification, for any addresses, fetches and limits, from
`WidgetAssumption`:

| theorem | property |
|---|---|
| `WidgetTypeCorrect` | `WidgetTypeOK`, with the wrong answers within their limit |
| `RecordedAreVerified` | `RecordedIsVerified` |

The invariant: a mark stands only for an address that answered, a request that is
about to mark or to clear has such a recipient, and a submission of a template that
asks for a guardian carries an age. The last part is needed: the server alone
takes an empty age for a minor's and records it as the guardian's, and it is the page
that never sends one.

Of the cookie banner, for any pages, visitors and posts, from its assumption:

| theorem | property |
|---|---|
| `ConsentsStand` | `StoredConsentStands`, with the types |

What is on its way or lost was posted (*PostsKnown*), what a storage holds is the post of a
consent (*StorageKnown*), a row of the log is of a post and says what the post says
(*LogMatches*), and what was posted and is neither on its way nor lost has a row (*AllLogged*).
The order comes from the page. It has one withdrawal in hand at a time
(*OneWithdrawal*), and a withdrawal on its way is awaited by the page that posted it or was
left (*WaitedFor*). So when the consent in a storage was not given `during` a withdrawal, no
withdrawal of its browser is in hand, and each that was not left has been logged before
it, or was lost (*ConsentsFollow*): one that begins later empties the storage first.

Of notices, for any authors, texts, pages, visits and languages:

| theorem | property |
|---|---|
| `NoticesStayTrue` | `NoticesHold`: `VersionsNumbered`, `TextIsVersioned`, `AcknowledgedIsShown`, `DefaultsWithinCalls`; with the types |

The edits are the hard part, since an edit is three statements and may break off after
each. The rows run from 1 to the current version, or to the next (*RowsRun*); a row
that is missing or ahead is owed by an edit in flight, unless one broke off
(*RowsOwed*); a version and the edits about to write one are no more than the edits
begun (*VersionsCounted*); and while edits did not overlap and none broke off, the text
an edit goes by is the text of the version it read (*TextFits*, *EditsTidy*). A page
knows a version that was current, and its text when nothing went wrong (*SeenFits*). The
languages need an owner for each default (*DefaultsOwned*): each was set by a call of its
own, and a call about to set another has it among those it clears, so by
`FS_Injection` there are no more defaults than calls.

### Logs, files, reports and figures: `BackOfficeProofs`

Each from the assumption of its module, for any number of calls, members of staff, runs,
rows and changes:

| theorem | property |
|---|---|
| `LogsStayTrue` | `LogsHold`, with the types |
| `LookupsStayTrue`, `RecordsStayTrue` | `LookupsHold`, `RecordsHold`, with the types |
| `ReportsStayTrue` | `ReportsHold`, with the types |
| `FiguresStayTrue` | `FiguresHold`, with the types |

*Logs.* Each call accounts for its own rows (*CallTells*): what its entry says is what it
did (*EntryTells*), and its mirror is a copy of it (*MirrorTells*). That a removal is
told by one entry relates two calls and needs that ids are not given out
again (*RemovalsTell*): two calls that both removed a row would have found it twice.

*Case file.* A look-up of rules and the row and entry of a file are inductive once the
steps of a call are typed (*WorkFits*). The templates are not: racing edits leave steps of
several, and `TemplateWhole` bounds them by the staff. *Owned* gives each edit
whose steps stand an owner among the staff, no two the same, such that a transaction of
the owner's that is under way will take the earlier edit's steps away. A member of
staff can thus have left the steps of one edit only, and `FS_Injection` counts them.

*Reports.* `DownloadHasExport` needs that the path is written after the export is stored,
by whichever run (*ExportKept*, *RunsFit*); that an unfinished row has a job or a run that
has yet to write it, unless something failed, is *Awaited*; and the letters are counted by the runs past
the letter (*LettersCounted*).

*Figures.* While queries are out, each count has moved by no more than the changes made
since (*FiguresFit*). A row of a list that was there at the start and has not been seen
is older than all the pages have reached (*PagesFit*): rows are only added, and at the
newest end, so a page may show a row twice and skips none. Rows made by backfills and
the backfills about to make one are no more than the backfills (*UsageFits*).

### The components together: `ServicesProofs`

| theorem | states |
|---|---|
| `EachBehavesByItself` | a behaviour of `ServicesSpec` is a behaviour of each of the eight specifications |
| `ServicesTypeCorrect` | `ServicesTypeOK` |
| `ServicesKeepTheirWord` | all that the run `services` checks |

A step moves one component and leaves the variables of the others alone, so it is a
step or a stutter of each; the rest follows from the theorems above.

### What is not proved

Liveness cannot be proved with these tools (`ENABLED` and fairness are out of reach), so
`QueuedErasureSettles`, `OverdueIsMarked`, `EveryCallAnswered` and `ScanEnds` are
model-checked only. Every invariant and every action property of a passing run is a
theorem, with no bound on the constants beyond the named assumptions; TLC evaluates those
on every run.

Proving changed two things in the models that TLC had not shown. The arms of a
CASE in `Reports!Gather` overlapped and TLC took the first; they are exclusive now, in the
order of the code. And the runs of a report must differ from the words that stand
for the state of its job, which `ReportsAssumption` now says.

All proofs are by SMT and Zenon, with the temporal steps by PTL.

## 6. Where the code and its own words part

| run | the repository says | the run shows |
|---|---|---|
| `extract_erases` | `rights-requests.controller.ts:156`: "Trigger automated data extraction job" | the job goes to the erasure queue, whose processor anonymises the data |
| `intake_confirmed` | `rights-requests.service.spec.ts:51`: "should successfully create a new rights request" | the callback ends with a query on another connection that cannot see the uncommitted row: NotFoundException rolls the case back after the mail went out. The unit test uses one mock for both clients |
| `scan_never_comes` | `scanner-scheduler.service.ts:97-100`: lastScan is not set any more because "if the scan failed, the website wouldn't be re-scanned until the next frequency interval" | the failed job is kept under the same id, so the next `add` is ignored; the website is set to PENDING all the same and the scheduler passes it over from then on |
| `record_matches_widget` | `consent-widget.service.ts:426`: "Prefer the version deployed to this widget's app (matches widget UI)" | with two widgets of one application on two templates, the form is made from the newest live deployment of the widget's own template and the record names the newest of the application, of the other template |

Met while modelling and not the subject of a run: two calls on a rights request
that read the same status both pass the "validated state machine" of
`rights-requests.controller.ts:80`, and a hold that races an approval leaves an open
case with a stopped clock, which is why `ClockRunsAlone` and `ValidatedAlone` speak of one caller;
`publishAndActivate` brings an archived widget back, and `setEnabled` may, though it
refuses with "Archived widgets cannot be re-enabled" (a widget archived between
its look and its write); a withdrawal after the form has changed from combined to
separate consents leaves the combined one GRANTED and answers "No active consent
found"; a held request without due
date (the seeded ones, `prisma/seed.ts`) cannot be resumed, `ResumeThrows`; the
monitor marks a row by a list read earlier, so a row resolved meanwhile is
marked too; an alert that could not be mailed is recorded as sent; a request
approved while the queue was down stays in ACTION_TAKEN with no job. In the components
around the core: `recordPublicConsent` records GRANTED for a visitor who rejected all,
and the script's callback of an intercepted form runs after an error as after a
consent; a template edited twice at once keeps both sets of steps; a standard report
completes without a file, so its download always answers not found; the look-up "user
exists" of an invitation compares an address with a column encrypted under a random
salt and finds nobody; the dashboard's trends lack a short month on the last days of
a long one; the system log says "Consent Granted (Public Widget)" of every public
submission; the records of consents get no snapshot in the audit log, as the model is
looked up by a name Prisma does not have; the backfill looks for the
usage row of a record without a purpose under "General", while the API made it under
the title of the template: such a consent gets a second row.

## 7. What is not modelled, and assumptions

- One server process with one worker per queue, as the application is started;
  `Crash` takes all of it down. Postgres, Redis and their durability are taken as
  given: a committed row and a queued job survive.
- The content of rows, mails, audit entries and files; encryption; the wording
  of errors. Lookups of SLA rules are left open: `Commit` of a hold may or may not
  pause the clock.
- A stalled job is one whose process died. BullMQ may also take a job for
  stalled when its lock is not renewed in time; the crawl awaits throughout, so
  the renewal is not held up. Two websites of one tenant have different URLs and
  the URL of a website is not edited while a cookie of it is followed.
- A query with its nested includes is one read: what Prisma splits into several
  statements is taken together. A stored time is taken at the commit.
- Consents: the column `separateConsents` of a template is not kept apart from the
  fields; a template that has it set is one whose contents all say *separate*. A
  version's content is taken to parse. Purposes of a template, and the name and the
  id of a purpose, do not change. Updates that move a deployment or a record to
  another version or application, usage rows (a failure of theirs is caught),
  receipts and the verification of codes are left out; a submission may be refused
  for lack of one at will. Widgets and templates exist from the start. Equal
  times of several initial deployments stand for any order among them.
- The grievance half of the monitor is a placeholder in the code.
- Services: the scripts are modelled by the variables their functions share, without
  layout and translation; the inline form of the widget, `renderInline`, is left out.
  How addresses and codes are hashed is left out; two different codes are different.
  The status of a notice gates what is served and is left out. Changes of a request's
  priority while `getMetrics` counts are left out.
- Components without a bold name in section 1, for the reasons in `PROJECT.json`: rendering,
  page automation, text rules, pure functions of data, guards that only forward, and
  CRUD of one statement have no behaviour of the kind a model checker finds. Parts
  of modelled components that are left out are named in `PROJECT.json` with the component.
