# OneMDR in TLA+

A verification project for OneMDR, a managed-detection platform with a NestJS
backend and a Next.js console: TLA+ modules for the parts whose correctness
depends on the order in which requests, cron jobs, failures, restarts and a
user's clicks happen, TLC runs over small instances, and TLAPS proofs for every
value of the constants.

The state of the backend is in PostgreSQL (through Prisma) and in two external
services, Supabase Auth and the customers' SIEMs. The NestJS handlers keep nothing
between requests except one flag of the hunt scheduler, and almost none of them
uses a transaction: a handler is a sequence of database and network calls, and
between any two of them another request, a cron job or a crash may come. The
modules of the backend are therefore written at the grain of one call per action.
What a handler read before an `await` is kept in the state of the call (`view`,
`reviewer`, `inviter`, `actor`, `call`), and what it writes later is written "by
id", as the code does.

The console has the same shape, turned round. A page keeps copies of rows in its
state: a list, the row open in a panel, a form. A handler is an async function
over these copies; between its awaits the user presses what is still enabled, and
other analysts write the table.

## 1. Inventory

| Component | State | Operations | Interacts with | What makes it hard | What makes it correct |
|---|---|---|---|---|---|
| Shared secrets, `secrets/` | `shared_secrets` rows | create, view, peek, revoke, nightly cleanup | recipients without an account, cron | check on a stale copy, crash between stamp and answer, expiry boundary | nobody gets content of an unburned row; nothing is lost silently; everything is erased |
| Hunt schedules, `hunts/` | `th_schedules`, `th_schedule_runs`, missions, the flag `running` | minute cron, manual trigger, schedule CRUD | integrations (SIEM queries), missions | overlapping ticks, failures half-way, restarts, changes during a run | runs are owned, missions accounted for, due schedules get run, at the times their expression names |
| Tenant requests, `tenant-requests/` | `tenant_requests`, `tenants`, owners in `users`, Supabase users | submit, approve, reject | Supabase invitation | two reviewers, re-application, transaction followed by remote calls | an approval means a tenant and an owner who can log in |
| Tenant administration, `admin/` | `tenants`, `users`, Supabase metadata | invite, deactivate, license, suspend, reactivate, create | Supabase | count-then-insert, metadata copied to another system | seats, logins and metadata agree with the rows |
| Second factor, `auth/` | `mfaEnabled`, `mfaSecret`, backup codes | setup, enable, disable, challenge | user's authenticator | read, verify, then write by id; two updates | what is enabled can be passed |
| SIEM integrations, `integrations/` | `integrations`, `siem_deployments`, remote rules and search jobs | test, deploy, undeploy, change, remove, search, history sync | seven SIEM products | late answers, ignored errors, overlapping writes, polling | a rule in the SIEM is one the database knows; every call ends |
| Registers: `soc/`, `detections/`, `hunts/` | tables whose rows carry a reference the code makes | create, duplicate, import, switch, delete | none | next reference read before the insert, string order, loops of inserts | references are free and dense, a creation fails only for a reason |
| Threat models, `threat-models/` and their page | models, components, flows, threats; the page's copy | CRUD, generation, the page's handlers | none | read-then-create without a unique key, lost updates, patched copies | a rule has one threat, scores are products, updates keep each other, the copy is the model |
| Console pages, `(dashboard)/`, `(admin)/` | each page's list, panel, form, filter, locks | the handlers of eighteen pages, one of which keeps the lists of three tables | backend | awaits, reloads out of order, patches by hand, locks across failures | copies agree with the server, decisions are made on true copies, no lock stays |
| Audit trail, `audit/` | `audit_logs` | event listener | every emitting handler | asynchronous, failures swallowed | every mutating event is recorded |
| Session handling, `frontend/src/lib`, `store` | session store | restore, refresh, sign out | Supabase client, API | concurrent 401s, late restore | the store shows the last session |
| Guards, JWT strategy, configuration, health, error filter | none that lasts | request checks | | | |

PROJECT.json lists each of these with what is modelled, and every hazard at its
line with the properties that watch it.

## 2. Modules

| Module | Models | Run by |
|---|---|---|
| `SharedSecrets` | `secrets.service.ts` | `MCSharedSecrets` |
| `OneTimeSecret` | abstract specification: what the service promises of a secret | refined by `SharedSecrets` |
| `HuntScheduler` | `hunt-scheduler.service.ts` and the schedule half of `hunts.service.ts` | `MCHuntScheduler` |
| `CronExpressions` | `cronNextRun` and the frequencies of the schedule dialog, with the standard meaning of an expression; operators only | `CronNextRun` |
| `CronNextRun` | one schedule that is created, changed and executed as time passes | itself |
| `TenantRequests` | `tenant-requests.service.ts` and `createTenant` of `admin.service.ts`, with `SupabaseAdminService.inviteUser` | `MCTenantRequests` |
| `TenantUsers` | users and license of one tenant in `admin.service.ts`, with the Supabase calls | `MCTenantUsers` |
| `MfaLifecycle` | the second factor in `auth.service.ts` | `MCMfaLifecycle` |
| `SiemIntegration` | one integration and one detection in `integrations.service.ts`, with the SIEM | `MCSiemIntegration` |
| `Registers` | every table with references of its own: `soc`, `detections`, `hunts` | `MCRegisters` |
| `StrideRules` | the catalogue of threats, `stride-rules.ts` | used by `ThreatModels` |
| `ThreatModels` | `threat-models.service.ts` and the page of one model | `MCThreatModels` |
| `PageScripts` | the handlers of eighteen pages as scripts of steps; the log sources and the deployments of `detections/page.tsx`, whose rows are of other tables, stand as pages of their own | used by `ConsolePages` |
| `ConsolePages` | a browser that runs the scripts against a server | `MCConsolePages` |
| `SharedSecretsProofs`, `HuntSchedulerProofs`, `TenantRequestsProofs`, `SiemIntegrationProofs`, `RegistersProofs`, `ThreatModelsProofs`, `ConsolePagesProofs` | theorems about the module they name | `tlapm` |
| `AccountProofs` | theorems about `TenantUsers` and `MfaLifecycle`: what a tenant's accounts keep | `tlapm` |

Conventions. An action is named after the operation and its step (`ViewRead`,
`ViewCheck`, `ViewBurn`, `ViewOpen` are `viewSecret`). `...Fails` is a call that
throws, or a process that dies, at that point: what was written stays, the rest
does not happen. Operators named `...Mut...` are faulty variants of the definition
they stand before; they are used only to see that a property notices them. A
variable or set commented *history* is not in the program: it remembers something
so that a property can speak of it. Guards of the code that refuse a request appear
as enabling conditions, since a refused request changes nothing. `IInv` at the end
of a module (`MfaIInv` in `MfaLifecycle`) is the strengthening its proof module shows
inductive.

### SharedSecrets

A row goes unborn, drafted (expiry computed, insert pending), stored, deleted or
aborted. Views, peeks and revocations are requests with their own copy of what
they read: `sawViewed`, `sawRevoked`. The cryptography is abstracted: content can
be had from a row and the right passphrase, or not at all. Time is a bounded
counter. The acknowledgement of the `viewedAt` update may be lost after the
update took effect, and the process may die with every request in flight.

`OneTimeSecret` says what is promised: a secret is live until it is burned, a
reader may take hold of it while it is live, and whoever is given the content took
hold of it before and gets it only once it is burned. `KeepsPromise` maps the
detailed state onto it (`Status`, `Holders`, `Given`).

### HuntScheduler, CronExpressions and CronNextRun

A schedule is *due* or not, which is all `HuntScheduler` asks of `nextRunAt`;
writing `nextRunAt` starts a new occurrence, numbered in `occ`. Ticks and triggers
execute the same `executeScheduleRun`, one database call per action, each of which
may throw into the catch block, whose two updates may throw as well. A query that
fails counts no results, as in the code. The list of due schedules is a snapshot,
including whether the integration was connected. A user changes the expression and
with it `nextRunAt` (`UpdateCron`), or blanks the one and leaves the other
(`UpdateBlank`): `updateSchedule` writes what is not `undefined` and computes what is
not empty.

`CronExpressions` has the arithmetic: minutes since a Sunday midnight, on a clock that
is not put forward or back, with `Number()` of a field that is no number as the
code has it. The DTOs take any string, so a field may be negative or missing; only
fractions, infinities and numbers beyond a date's reach are left out. `cronNextRun` is what the function answers, `NextFiring` what the
expression means. In `CronNextRun` creating, changing and executing a schedule write
the former.

### TenantRequests and TenantUsers

`approve` uses the request's uuid for the tenant, so one id names request, tenant
and owner; `createTenant` draws a new uuid, an id that is never a request, and goes on
like `approve`. It refuses the address of an existing user, and of the users the
module knows the owners; `approve` does not look at them. The transaction is one action; the invitation (`inviteUserByEmail`,
`updateUserById`) and the update of `supabaseUid` are three more. Supabase is
external: an address has at most one login, an invitation creates it or answers
the one there is, or fails. `TenantUsers` follows one tenant after its creation;
a user is named by the address, unique within the tenant. Suspension is one
action, because the value written on a stale check could only be the one already
there. In both modules reviewers, applicants, inviters, removers and license
editors are calls in flight.

### MfaLifecycle

One user, several windows. Each generated secret names its set of backup codes. A
user can type codes of a secret once its QR code was answered (`shown`), so
`Verify` is enabled when the stored secret is one of these.

### SiemIntegration

One detection on one integration. The platforms differ in how a rule is named in
the SIEM (`RuleKey`, `RuleId`), whether a second push replaces, adds or conflicts
(`Conflict`), and what a removal asks for (`Named`); the module keeps these
differences and leaves out the wording of rules. A request to the SIEM may be taken and not answered, answered without a
name, refused or lost; each carries a timeout in the code, so each ends. `leaks`
is history: the reasons for which a rule may be in the SIEM and not in the row.
The search of a job is a bounded loop of polls; the history sync lists jobs and
counts those that triggered; `jobs` holds how many runs there were and which of them
triggered.

### Registers

One behaviour is about one of seven tables. Changes, requests, incidents and
custom detections take the number of rows plus one; missions, playbooks and
schedules take one more than the greatest reference *as a string*, which after
the padding runs out is no longer the greatest number. Only the width matters, so
a number has two digits of base two in the run. A custom detection is switched on
by a second insert; a spreadsheet is a loop of both in which a failing row is
skipped and, if its first insert was done, not counted. Its cells are text: a number
in a text column throws before the row's `try` (`detections.service.ts:463`) and ends
the import there, which is left out. `excuse` is history: what an honest failure of a
creation can be blamed on.

### StrideRules and ThreatModels

The catalogue is translated row by row, with the fields the generation reads:
STRIDE class, technique, likelihood and impact, and for flows the condition on the
context. `ThreatModels` has one model, every call that changes it and the page of
that model. A generation makes three queries and one insert; the page reloads
after it, and after adding a flow, and otherwise patches its copy. Calls with
`page = TRUE` are the page's, the others come from other analysts. `covered`,
`overlapped` and `agrees` are history.

### PageScripts and ConsolePages

A handler of a page is a script: a sequence of awaited calls (`put`, `remove`,
`reload`, `fetch`, ...) and of what is done between them (`patchIf`, `dropRow`,
`close`, `free`, ...). `PageScripts` says for each page what buttons it offers,
when, under which lock, and with which script and catch; `ConsolePages` has what
is common: a press runs the script to its first await, an answer or an error on
to the next, with filters, the panel, the locks (`busy`), and a table that others
write. A call in flight is the `run` it goes through, the place `at` where it waits,
and what the handler closed over when it began: the row, the filter, the selection.
A step is one update of the page's state, told apart by what it does to the list
(`ListAfter`), the panel (`SelAfter`), the locks (`BusyAfter`) and the dialogs; a
`fetchIf` is settled at the press (`Begun`), since the `selected` it tests is the one
of the render it was pressed in. Rows
have a state, such as a status or a switch, which is what lists are filtered by.
Dialogs that ask for confirmation are part of the button; a dialog whose contents
do not depend on a row is taken to be always at hand, which offers more than the
page does. `hist.stale` and `hist.doubt` are history: since the list, or the
panel, was last loaded something happened after which a copy may lag (a write of
somebody else, a failed call, an overlap of handlers); `hist.lag` has the rows of
the list of which the page's own handlers failed to tell it, and `hist.doubt` says it
of the panel too. The properties speak of the rest, and section 4 lists these handlers.

The detections page keeps three copies of one table: the library's list, the panel and
the proposals, which take the list's place (`proposals`). The tabs choose between the
two views and close the panel, "View Proposals" leaves it open; the proposals are loaded
when their view appears, the library only when its filter changes or a handler reloads
it. A load of proposals answers any of the rows that are off: which of them match the
log sources is not kept, and nothing is claimed of the proposals' own list. An import
makes rows and switches them on one by one, and the page reloads if any were counted;
an import that counted none changes nothing the page shows and is taken for an error.

## 3. Runs

| Run | Instance | Shows |
|---|---|---|
| `secrets_all` | 1 secret, 2 recipients, 1 peek, 1 revocation, 2 passphrases, expiry at 1, clock to 2 | all safety properties, the refinement, erasure in the end |
| `secrets_once` | 2 recipients | **violated**: both get the content |
| `hunts_runs` | 1 schedule, 2 ticks, 1 trigger, 2 runs, 2 expressions, 1 restart, 1 change, to a blank expression too, either half at a time | runs and missions agree, overlap is prevented, `nextRunAt` follows the expression |
| `hunts_progress` | 2 schedules, 1 tick, fairness | every due schedule is attempted |
| `cron_offered` | the dialog's six frequencies, half an hour at a time for ten days | **violated**: a frequency on offer is refused |
| `requests_safety` | 3 ids, 2 addresses, 2 applicants, 2 reviewers or creators | approvals, tenants, owners and logins agree; a second tenant of an address comes of an overlap or an approval |
| `users_all` | owner and 2 users, 2 inviters, 1 remover, 2 license updates, 2 types, limits 1 and 2, either seats or types at a time | the overrun of the limit is bounded; logins and metadata agree when all is quiet; deactivation is final |
| `mfa_usable` | 3 windows, 4 generated secrets | an enabled second factor can be passed |
| `siem_rules` | 5 platforms, 2 calls, 2 hosts, 2 names, 3 pushes, 2 polls | a deployed rule runs, no rule is forgotten without a reason, counts do not exceed, calls end |
| `registers_refs` | 7 tables, 2 calls, base 2, padding of 2 digits, first playbook 2, 3 rows a spreadsheet, numbers to 5 | references are dense and free; a creation fails only for a reason |
| `threats_edits` | 2 components, 1 flow, 3 calls, 2 at a time | scores, one threat per rule, complete generations, kept updates, the page's copy |
| `pages_handlers` | 18 pages (20 with log sources and deployments), 2 rows, 2 handlers at a time, 3 events | lists, panels, decisions and locks of the pages |

**Why the bounds are enough.** Every property but the liveness ones is about one
row and at most two calls that touch it, or (`SeatsBounded`) about one limit and
the calls that race for it; two calls of each kind give every overlap of two
handlers, and a third participant (a cleanup, a license update, a deactivation, a
restart) comes on top. The clock of `secrets_all` reaches the instant before,
at and after the expiry. Three request ids allow an address to be rejected, apply
again and be decided again while another address is under way. `hunts_progress`
has two schedules because the question is whether the failure of one starves the
other.

Two instances are too large as a whole and are cut by a constraint into the parts
that can interact. `OccurrencesOrChanges`: ticks, runs and restarts over an
unchanged schedule, or one run under a change of the schedule. `SeatsOrLogins`:
two addresses compete for the seats of a tenant that keeps its type, by invitations
that end once Supabase knows the address, or the type changes under one invited
address.

Numbers of the code are made small where only their order counts. `registers_refs`
has base 2 and limit 4 for 10 and 10000, first 2 for the first playbook 100, lots
of 3 for spreadsheets of up to 500 rows: a number can outgrow the padding and a lot
can fail at its first, middle and last row. `siem_rules` polls twice for thirty
times and lists one job for fifty: a job can end before, between and after the
polls. `threats_edits` has components of the type MONITORING, which has one rule,
so that a lost or doubled threat shows at once. `pages_handlers` has two of the four
statuses of missions and support cases, filters that show all or one state, and
three events, which is a press during a press during a foreign write, or the proposals
loaded, one of them enabled and its switch pressed in the library. The half
hour steps of `cron_offered` meet every hour the dialog offers.

What the theorems prove holds without these bounds.

**Deadlock.** `CHECK_DEADLOCK FALSE` is used where the system really comes to rest:
with every request decided (`TenantRequests`), every secret used up
(`MfaLifecycle`), the integration removed and its bounds reached
(`SiemIntegration`), no call left (`ThreatModels`, `ConsolePages`).

**Symmetry** is declared only in runs that check invariants and action properties.
`CallsEnd` is an action property: every step of a call decreases what it has left.

**Fairness.** `EveryRowErased` assumes that time passes and that the nightly
cleanup runs again and again: `@Cron` fires it as long as the service is up.
`DueIsAttempted` assumes that the minute cron fires (weak fairness of a tick's and
a run's next step: each awaited call answers or throws in the end) and that
`getDueSchedules` does not throw for ever (strong fairness of `ReadDue`); nothing
is assumed of users, of integrations, or of any single run succeeding.

## 4. What the code does not keep

Two runs end in a violation. Each is a disagreement between the code and what its
own text says.

1. **A one-time secret can be seen twice** (`secrets_once`). `viewSecret` checks
   its copy of the row and then stamps `viewedAt` by id. The interface says the
   link burns after the recipient views it. What does hold is `KeepsPromise`: only
   requests that had read the row unburned get the content.
2. **A frequency on offer is refused** (`cron_offered`). `cronNextRun` takes `Number`
   of the hour field; of `0 */6 * * *`, which the dialog offers as "Every 6 hours",
   it makes an invalid date, and the schedule is not written. In the same function
   the weekly branch never answers today, even before the hour
   (`hunts.service.ts:669`).

Others are in the exceptions the properties had to be given, and in the histories
that record them:

- A blank cron expression is stored and the time of the old one kept
  (`hunts.service.ts:465`, `470`): the schedule goes on at that time once more, and
  then at what `cronNextRun` makes of nothing (`Blank` in `NextRunFollowsCron`). And of
  a negative hour `cronNextRun` answers a time gone by, at which a schedule is due
  again at once (`NegativeHourIsPast`).
- A failed hunt run leaves `nextRunAt` in the past and repeats its missions at the
  next tick (`MissionsAccounted` excuses FAILED runs).
- A rejection written on a stale check can overwrite an approval; the address may
  then apply again and get a second tenant (`rejected` in `ApprovalMeansTenant`).
- `createTenant` checks the address some awaits before it inserts the owner, and
  `approve` does not check it: one address may get two tenants, of which only one can
  store its login (`hurried`).
- The user limit is checked on a count taken before the insert; `SeatsBounded` shows
  by how much it can be overrun.
- A license update during an invitation leaves the new user with the old tenant
  type (`mixed`). A user deactivated during the invitation keeps a login (`hasty`).
- A setup or a disabling that overlaps `enableMfa` leaves the second factor enabled
  with a secret nobody confirmed, or with none (`raced`), and no operation of the
  service then gets the user out.
- A rule runs on in the SIEM, unknown to the database, after a late answer, a failed
  re-deployment, an overlap, or a change of the integration (`leaks`). On Elastic the
  undeployment asks for a `rule_id` with the id and never matches; Chronicle and
  Defender are not asked at all.
- After a deletion, counted references collide for ever; after HNT-10000 no mission,
  playbook or schedule can be created (`NextRefFree` says that nothing else does it).
- Overlapping generations double a threat; overlapping updates of one threat take
  each other back.
- The documents page leaves its panel on the old pin (`docs/page.tsx:134`). The
  detections page sends the opposite of its copy and leaves the panel out of a bulk
  toggle, after which the panel's own switch also patches the list wrongly
  (`detections/page.tsx:420`, `447`).
- A proposal that is enabled is dropped from the proposals and from nothing else
  (`detections/page.tsx:332`). One user, with no failure and no overlap, then finds it
  off in the library, whose switch sends the opposite of that (`hist.lag` in
  `ListIsServer` and `DecidesOnTruth`); and off in the panel, if "View Proposals" left
  it open (`1871`, `hist.doubt` in `PanelIsRow`).
- The list of deployments stays when a copy or a new detection takes the place of the
  open one (`detections/page.tsx:524`, `577`): it then shows another detection's rows.

Not in any run, seen while reading: the on-call view counts days from 0 and the
roster from 1; the detail page of a tenant discards license edits that were not saved
when it reloads; a save that answers after its form was reopened for another row
closes that form; messages of a channel that was left can land in the next one.

## 5. Proofs

Eight modules prove theorems for any number of rows, calls, platforms, statuses and
any bounds. The only assumptions are the named ones of the modules on their constants
(`SecretsAssumption`, `SchedulerAssumption`, `RequestsAssumption`, `UsersAssumption`,
`MfaAssumption`, `SiemAssumption`, `RegistersAssumption`, `ThreatModelsAssumption`,
`ConsoleAssumption`), which TLC evaluates in the runs. Of these, `UsersAssumption` asks for finitely many
users and inviters, which the bound of `SeatsBounded` counts.

| Theorems | Property |
|---|---|
| `SharedSecretsProofs`: `TypeCorrect`, `StampPrecedesOpening`, `NothingLostSilently`, `PeekIsTruthful`, `BurningIsFinal`, `Implements` | `TypeOK`, `BurnedBeforeOpened`, `NoSilentLoss`, `PeekNeverLies`, `BurnIsForever`, `KeepsPromise` |
| `HuntSchedulerProofs`: `Owned`, `Accounted`, `RunOnce`, `CronFollowed` | `RunsOwned`, `MissionsAccounted`, `OccurrenceRunOnce`, `NextRunFollowsCron` |
| `HuntSchedulerProofs`: `NextIsLater`, `NegativeHourIsPast`, `NextIsFiring`, `WeeklySkipsToday`, `OneRefused` | the answers of `cronNextRun`, below |
| `TenantRequestsProofs`: `ApprovedHasTenant`, `OnlyRejectedGo`, `OwnerHasLogin`, `OneTenant`, `LoginStays` | `ApprovalMeansTenant`, `OnlyRejectedRemoved`, `OwnerLogsIn`, `OneTenantPerAddress`, `LoginIsKept` |
| `AccountProofs`: `SeatsAreBounded`, `LoginsMatch`, `LoginsGone`, `DeactivatedForGood` | `SeatsBounded`, `LoginMatchesTenant`, `DeactivatedLoginGone`, `DeactivationIsFinal` |
| `AccountProofs`: `Usable` | `EnabledIsUsable` |
| `SiemIntegrationProofs`: `DeployedRuns`, `NothingLost`, `CountsHold`, `EveryCallEnds` | `DeployedIsRunning`, `NothingForgotten`, `NeverOvercounts`, `CallsEnd` |
| `RegistersProofs`: `TypeCorrectness`, `Density`, `NextFree`, `Success` | `TypeOK`, `RefsAreDense`, `NextRefFree`, `CreationSucceeds` |
| `ThreatModelsProofs`: `ScoreCorrect`, `OneThreat`, `GenerationCovers`, `PageShowsModel`, `UpdatesKeep` | `ScoreIsProduct`, `OneThreatPerRule`, `GenerationComplete`, `PageIsModel`, `UpdatesKeepOthers` |
| `ConsolePagesProofs`: `ListShowsServer`, `PanelShowsRow`, `DecisionsHold`, `LocksGivenBack` | `ListIsServer`, `PanelIsRow`, `DecidesOnTruth`, `NoLockLeft` |

Each theorem of a property rests on one inductive invariant, `IInv`, and is shown action by action. What
the properties lack in every module is what a call's copy says of the row now.

**SharedSecrets.** `BurnedBeforeOpened` and `PeekNeverLies` are not inductive: the
step that opens a secret, or reports it burned, acts on a copy. A row
never loses a stamp or a revocation, hence a peek's copy that saw
one is right for ever (`PeeksGrounded`). A view request past the check holds a
born secret and the right phrase, and once past the stamp its row is stamped
(`ViewsGrounded`). Every mark has its author: a stamped row was stamped by some
view of it, a revoked one by some revocation, and a deleted row was viewed,
revoked or expired (`MarksGrounded`). A revocation about to write found a stored
row (`RevokesGrounded`), and a row that is not born carries no marks
(`UnbornUnmarked`). `Implements` uses the same invariant: each action maps to a step
of `OneTimeSecret` or leaves `Status`, `Holders` and `Given` unchanged.

**HuntScheduler.** Each tick and trigger has one run in hand, nobody else's, and its
step says what the run's row and mission are by then (`InHand`, `RunsGrounded`). For
`OccurrenceRunOnce` the flag must be shown to keep a second tick out (`OneTick`): what
is left of the one list names a schedule once and only occurrences no counted run is
of (`PendingGrounded`), and a counted run's occurrence is over or in the hands of a
tick (`OccurrencesGrounded`). What a run carries to its last write is computed from the
expression it read, which is the schedule's unless a user changed it since (`raced`);
`CronFollowed` excepts that, and the blank expression.

**CronExpressions.** `NextIsLater` is what `HuntScheduler` takes of `cronNextRun`: of
an expression without a negative number, whatever else its fields, the answer is a later
time, or a date the database refuses, so writing it makes a schedule not due. That a
negative number must be excepted is `NegativeHourIsPast`; `HuntScheduler` is about the
expressions of the former. The other three say of all times what
`cron_offered` sees in ten days, and how far its violation reaches. For an expression of
an hour or of a day the answer is the next firing, and so for one of a week except on
the day it names (`NextIsFiring`); on that day it is the next firing after today's
(`WeeklySkipsToday`); and of what the dialog offers, "Every 6 hours" is all that is
refused, whatever the time (`OneRefused`). A firing is a day and a minute of it
(`FiresAt`, `TodayParts`); the answer is shown to fire, and no time between to do so
(`FirstFiring`). Expressions with lists, ranges, steps, a date or a number out of its
field's range are not of these three kinds, and of them only `NextIsLater` says
anything; the dialog offers none but the one it refuses.

**TenantRequests.** A rejection leaves its mark (`RequestsGrounded`), and an applicant about
to remove a request holds a rejected one (`ApplicantsGrounded`). A reviewer past the
transaction has a tenant, and past the metadata an address that names one
(`ReviewersGrounded`); the metadata of an address names a tenant made for it
(`LoginsGrounded`), and an owner without a login is in the hands of a reviewer
(`BeingInvited`). An address `createTenant` has checked has no owner but one inserted
since (`ChecksGrounded`), which is what `OneTenantPerAddress` needs of the last step.

**TenantUsers.** `SeatsBounded` is a count, and not inductive: an invitation past its own
count will take a seat whatever the license says by then. `SeatsHeld` counts the
active users and the invitations past their count together, against the greatest
limit there was. The others are by what each call in flight knows of its user
(`InvitersGrounded`, `RemoversGrounded`, `EditorsGrounded`) and by when logins and
types agree (`LoginsGrounded`, `TypesGrounded`).

**MfaLifecycle.** A setup works on a secret of its own that nobody has been shown
(`SetupsOwn`), and what was verified had been shown (`VerifiedShown`). As long as
nothing raced, a call's copy is right, a shown secret is stored with its own codes,
and an enabled one was confirmed (`Undisturbed`).

**SiemIntegration.** Unless there was a race, one call writes the row at a time
(`OneWriter`), and what it carries is what it read or what the SIEM gave it
(`Carries`). Then the row names a rule that runs (`RuleBehindRow`), and every rule is
the row's or in the hands of the writer (`RowBehindRule`). The runs that triggered are
a set that only grows; so a count a sync read off some of them, which it may write long
after, is never more than there are by then (`CountInv`). `CallsEnd` needs no
strengthening but the type: `StepsLeft` decreases.

**Registers.** Between its read and its insert a call's number is at most one more
than what the table holds (`CallInv`), since nothing is deleted; so an insert
fills the next gap or collides, and never leaves one.

**ThreatModels.** A call holds a row with its score, and, unless it was told of a
change, the row as it still is (`Holds`); the references it read are of all threats but
those of generations that it overlaps. Every inserting call has a number of its own
that no row carries yet (`NumbersFresh`), so an insert changes no row that is there.
For `GenerationComplete`, a generation that was told of no addition read no less than
there is, and the references it found are still there (`SawAll`): what its one insert
leaves out was covered before, and what others delete in between is no longer asked of
it. For `PageIsModel`, as long as the page's handlers did not overlap and no other
analyst wrote, the copy is the model or will be once the answer under way is applied
(`CopyFollows`). A deleted component takes its flows with it on the server and not in
the copy; that the copy can never be joined to them again is that ids are drawn once
(`FlowsGrounded`) and that only the page's own calls are applied to it (`PageCalls`).

**ConsolePages.** The proof has two halves. `PagesDisciplined` is about `PageScripts`
alone: on each of the pages, every script makes its one write first (`Ordered`); then
it reloads, or it patches the list by one step that says what the write did
(`KeepsList`), and mends the panel by one step that fits the write (`KeepsPanel`); its
catch touches no copy (`Recovers`), and a lock it takes is given back by the script and
by its catch. Some buttons need more: one that decides on a row stands where the row's
copy is true, and one without a row does nothing to a row (`Disciplines`). The other
half is about any pages that keep to this, and never looks at a script. A call that
waits has a place in the script of some button (`Known`), and a lock is in the hands of
a call with a `free` ahead of it and in its catch (`LocksHeld`). While a copy is not in
doubt there is one call at most (`Sole`). Then the list shows the table, or it will once
the rest of the script has run (`ListInv`, `WillShow`), and so for the panel
(`PanelInv`, `WillFollow`), both but for the rows the history names: what the properties lack is what stands between the answer of
a call and the reload or the patch. A press is made on what is shown, so what a handler
decides on is still so until the server answers (`Decided`). That the steps between two
awaits do to each part of the page what the one step among them does is an induction on
the run; the theorems of the library take a predicate, so `SetInduction` derives from
the well-foundedness of the naturals the form the provers can use, about a set. TLC has
checked `IInv` on the instance of `pages_handlers`.

**Only model-checked.** `EveryRowErased` and `DueIsAttempted`, since liveness under
fairness is out of the prover's reach. What a recursive definition computes can be
proved only where the induction is over a set, as above.

## 6. Not modelled

Text, layout and logging; cryptography and TOTP arithmetic; listings and
dashboards, which only read; who is allowed to call an operation (the guards); clocks
that are put forward or back. The audit events the handlers emit change no state that
handlers read, and a failed insert of one is swallowed by design. The session store and
the retry after a 401 meet inside the Supabase client, whose order of events the
repository does not fix; a call that fails for it is a call that fails in
`ConsolePages`. Of the pages: dashboards, settings, billing, the on-call view and those
that only read or redirect; the category filter of the documents page. On the server,
documents, roster, channels, support cases, evidence, IOCs and profile are single
writes by id with no condition that could be stale: their pages are modelled, and
the write is one step there.

## 7. Plan

1. `Tenants`, composing `TenantUsers` with `TenantRequests` over one Supabase, where
   one address may belong to two tenants.
2. An abstract specification of a deployment, refined by `SiemIntegration` where no
   reason of `leaks` applies; of the next reference, refined by `Registers`.
3. Theorems: the refinements of the second item.
4. Session handling, once the order of the Supabase client's events is fixed by a test.
