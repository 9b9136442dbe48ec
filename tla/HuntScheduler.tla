---------------------------- MODULE HuntScheduler ----------------------------
(***************************************************************************)
(* Scheduled threat hunts: hunts/hunt-scheduler.service.ts (the cron) and  *)
(* the schedule half of hunts/hunts.service.ts (the runs).                 *)
(*                                                                         *)
(* A cron tick and a manual trigger both execute executeScheduleRun, one   *)
(* database call per action; any call may throw (the database, a colliding *)
(* mission ref, a row deleted meanwhile).  Time is abstracted to what the  *)
(* code reads of it: a schedule is due or not.  Writing nextRunAt makes it *)
(* not due, and it may become due again at any moment after; at once where *)
(* cronNextRun answers a time that has passed (CronExpressions).           *)
(*                                                                         *)
(* Each write of nextRunAt starts a new occurrence of the schedule,        *)
(* numbered in "occ".                                                      *)
(***************************************************************************)
EXTENDS Naturals, FiniteSets

CONSTANTS
  Schedules,   \* rows of th_schedules
  Ticks,       \* calls of checkDueSchedules that may be in flight at once
  Triggers,    \* manual triggers that may be in flight at once
  Runs,        \* bound: rows of th_schedule_runs
  Crons,       \* cron expressions
  Blank,       \* the empty string, which the DTOs take for one
  None,        \* no schedule, no run, no cron
  MaxCrashes,  \* bound: restarts of the process
  MaxUpdates   \* bound: changes of a cron expression

ASSUME SchedulerAssumption ==
  /\ Ticks \cap Triggers = {}
  /\ None \notin Schedules \cup Runs \cup Crons
  /\ Blank \in Crons
  /\ MaxCrashes \in Nat /\ MaxUpdates \in Nat

Actors == Ticks \cup Triggers

VARIABLES
  sched,      \* the schedules
  run,        \* the runs, each with the mission it created
  connected,  \* the Splunk integration has status CONNECTED
  running,    \* HuntSchedulerService.running
  actor,      \* where each tick and trigger stands in its code
  pending,    \* of each tick: the snapshots of due schedules left to execute
  abandoned,  \* history: runs whose executor crashed, or failed in its catch block
  raced,      \* history: schedules whose cron changed under a computed nextRunAt
  crashes, updates

vars == <<sched, run, connected, running, actor, pending, abandoned, raced, crashes, updates>>

books == <<abandoned, raced, crashes, updates>>

-----------------------------------------------------------------------------
\* "plan" is history: the cron expression nextRunAt was computed from
Schedule == [exists: BOOLEAN, enabled: BOOLEAN, due: BOOLEAN, auto: BOOLEAN,
             cron: Crons, plan: Crons, occ: Nat]

\* what getDueSchedules returned of one schedule
Snapshot == [s: Schedules, auto: BOOLEAN, connected: BOOLEAN, occ: Nat]

Completed == {"SUCCESS", "NO_RESULTS"}

\* "auto", "byCron", "occ" are history; "linked" is missionId # null
Run == [status: {"unused", "RUNNING", "FAILED", "deleted"} \cup Completed,
        s: Schedules \cup {None}, occ: Nat, byCron: BOOLEAN, auto: BOOLEAN,
        mission: {"none", "made", "deleted"}, linked: BOOLEAN]

Steps == {"query", "mission", "evidence", "finish", "readCron", "reschedule",
          "failRun", "failSchedule"}

Actor == [at: {"idle", "read", "loop", "start"} \cup Steps, s: Schedules \cup {None},
          run: Runs \cup {None}, auto: BOOLEAN, occ: Nat, hit: BOOLEAN,
          cron: Crons \cup {None}]

Idle == [at |-> "idle", s |-> None, run |-> None, auto |-> FALSE, occ |-> 0,
         hit |-> FALSE, cron |-> None]

Due(s) == sched[s].exists /\ sched[s].enabled /\ sched[s].due

Init ==
  /\ \E cron \in [Schedules -> Crons]:
       sched = [s \in Schedules |-> [exists |-> FALSE, enabled |-> TRUE, due |-> FALSE, auto |-> TRUE,
                                     cron |-> cron[s], plan |-> cron[s], occ |-> 0]]
  /\ run = [r \in Runs |-> [status |-> "unused", s |-> None, occ |-> 0, byCron |-> FALSE,
                            auto |-> FALSE, mission |-> "none", linked |-> FALSE]]
  /\ connected \in BOOLEAN
  /\ running = FALSE
  /\ actor = [a \in Actors |-> Idle]
  /\ pending = [t \in Ticks |-> {}]
  /\ abandoned = {} /\ raced = {} /\ crashes = 0 /\ updates = 0

-----------------------------------------------------------------------------
(* The users' operations on schedules, and the world around.               *)

\* createSchedule, its validations and its insert; of any expression, the empty
\* one included, nextRunAt is computed
CreateSchedule(s, cron, enabled, auto) ==
  /\ ~sched[s].exists /\ sched[s].occ = 0      \* a fresh uuid
  /\ sched' = [sched EXCEPT ![s] = [exists |-> TRUE, enabled |-> enabled, due |-> FALSE,
                                    auto |-> auto, cron |-> cron, plan |-> cron, occ |-> 1]]
  /\ UNCHANGED <<run, connected, running, actor, pending, books>>

\* updateSchedule without a cron expression leaves nextRunAt alone
UpdateFlags(s, enabled, auto) ==
  /\ sched[s].exists
  /\ sched' = [sched EXCEPT ![s] = [@ EXCEPT !.enabled = enabled, !.auto = auto]]
  /\ UNCHANGED <<run, connected, running, actor, pending, books>>

\* mutant of UpdateCron: nextRunAt is left as it was
UpdateCronMutKeepsNextRun(s, cron) ==
  /\ sched[s].exists /\ updates < MaxUpdates /\ cron # Blank
  /\ updates' = updates + 1
  /\ sched' = [sched EXCEPT ![s].cron = cron]
  /\ UNCHANGED <<run, connected, running, actor, pending, abandoned, raced, crashes>>

\* a run is between the read of the expression and the write of its next time
Rescheduling(s) == \E a \in Actors: actor[a].at = "reschedule" /\ actor[a].s = s

\* updateSchedule with one writes the expression and its next time together
UpdateCron(s, cron) ==
  /\ sched[s].exists /\ updates < MaxUpdates /\ cron # Blank
  /\ updates' = updates + 1
  /\ sched' = [sched EXCEPT ![s] = [@ EXCEPT !.cron = cron, !.plan = cron, !.due = FALSE,
                                             !.occ = sched[s].occ + 1]]
  /\ raced' = IF Rescheduling(s) THEN raced \cup {s} ELSE raced
  /\ UNCHANGED <<run, connected, running, actor, pending, abandoned, crashes>>

\* with the empty string it writes that (it is given) and leaves nextRunAt (it is
\* not true)
UpdateBlank(s) ==
  /\ sched[s].exists /\ updates < MaxUpdates
  /\ updates' = updates + 1
  /\ sched' = [sched EXCEPT ![s].cron = Blank]
  /\ raced' = IF Rescheduling(s) THEN raced \cup {s} ELSE raced
  /\ UNCHANGED <<run, connected, running, actor, pending, abandoned, crashes>>

\* deleteSchedule: the foreign key cascades to the runs, not to the missions
DeleteSchedule(s) ==
  /\ sched[s].exists
  /\ sched' = [sched EXCEPT ![s].exists = FALSE]
  /\ run' = [r \in Runs |-> IF run[r].s = s THEN [run[r] EXCEPT !.status = "deleted"] ELSE run[r]]
  /\ UNCHANGED <<connected, running, actor, pending, books>>

\* remove, of hunts.service.ts: a user deletes the mission of a run
DeleteMission(r) ==
  /\ run[r].mission = "made"
  /\ run' = [run EXCEPT ![r].mission = "deleted"]
  /\ UNCHANGED <<sched, connected, running, actor, pending, books>>

BecomeDue(s) ==
  /\ sched[s].exists /\ ~sched[s].due
  /\ sched' = [sched EXCEPT ![s].due = TRUE]
  /\ UNCHANGED <<run, connected, running, actor, pending, books>>

IntegrationChanges ==
  /\ connected' = ~connected
  /\ UNCHANGED <<sched, run, running, actor, pending, books>>

-----------------------------------------------------------------------------
(* checkDueSchedules.                                                      *)

\* mutant of TickBegins: the overlap is not prevented
TickBeginsMutOverlaps(t) ==
  /\ actor[t].at = "idle"
  /\ running' = TRUE
  /\ actor' = [actor EXCEPT ![t].at = "read"]
  /\ UNCHANGED <<sched, run, connected, pending, books>>

\* a tick that finds the flag up returns at once
TickBegins(t) ==
  /\ actor[t].at = "idle" /\ ~running
  /\ running' = TRUE
  /\ actor' = [actor EXCEPT ![t].at = "read"]
  /\ UNCHANGED <<sched, run, connected, pending, books>>

DueSnapshots ==
  {[s |-> s, auto |-> sched[s].auto, connected |-> connected, occ |-> sched[s].occ]:
     s \in {x \in Schedules: Due(x)}}

ReadDue(t) ==
  /\ actor[t].at = "read"
  /\ pending' = [pending EXCEPT ![t] = DueSnapshots]
  /\ actor' = [actor EXCEPT ![t].at = "loop"]
  /\ UNCHANGED <<sched, run, connected, running, books>>

\* getDueSchedules throws: the tick goes on with an empty list
ReadDueFails(t) ==
  /\ actor[t].at = "read"
  /\ actor' = [actor EXCEPT ![t].at = "loop"]
  /\ UNCHANGED <<sched, run, connected, running, pending, books>>

\* the next schedule of the list; its integration is judged by the snapshot
TickExecutes(t, d) ==
  /\ actor[t].at = "loop"
  /\ pending' = [pending EXCEPT ![t] = @ \ {d}]
  /\ actor' = IF d.connected
              THEN [actor EXCEPT ![t] = [Idle EXCEPT !.at = "start", !.s = d.s, !.auto = d.auto,
                                                     !.occ = d.occ]]
              ELSE actor
  /\ UNCHANGED <<sched, run, connected, running, books>>

\* mutant of TickEnds: the early return on an empty list misses the finally
TickEndsMutKeepsFlag(t) ==
  /\ actor[t].at = "loop" /\ pending[t] = {}
  /\ actor' = [actor EXCEPT ![t] = Idle]
  /\ UNCHANGED <<sched, run, connected, running, pending, books>>

TickEnds(t) ==
  /\ actor[t].at = "loop" /\ pending[t] = {}
  /\ running' = FALSE
  /\ actor' = [actor EXCEPT ![t] = Idle]
  /\ UNCHANGED <<sched, run, connected, pending, books>>

\* triggerSchedule: reads the schedule, whether due and enabled or not
Trigger(m, s) ==
  /\ actor[m].at = "idle" /\ sched[s].exists
  /\ actor' = [actor EXCEPT ![m] = [Idle EXCEPT !.at = "start", !.s = s, !.auto = sched[s].auto,
                                                !.occ = sched[s].occ]]
  /\ UNCHANGED <<sched, run, connected, running, pending, books>>

-----------------------------------------------------------------------------
(* executeScheduleRun.                                                     *)

Goes(a, at) == actor' = [actor EXCEPT ![a].at = at]

\* back to the caller: the tick's loop, which logs an error and goes on
Returns(a) ==
  actor' = [actor EXCEPT ![a] = IF a \in Ticks THEN [Idle EXCEPT !.at = "loop"] ELSE Idle]

\* before the try: a failure leaves no run behind
Start(a, r) ==
  /\ actor[a].at = "start" /\ sched[actor[a].s].exists /\ run[r].status = "unused"
  /\ run' = [run EXCEPT ![r] = [status |-> "RUNNING", s |-> actor[a].s, occ |-> actor[a].occ,
                                byCron |-> a \in Ticks, auto |-> actor[a].auto,
                                mission |-> "none", linked |-> FALSE]]
  /\ actor' = [actor EXCEPT ![a] = [@ EXCEPT !.at = "query", !.run = r]]
  /\ UNCHANGED <<sched, connected, running, pending, books>>

StartFails(a) ==
  /\ actor[a].at = "start"
  /\ Returns(a)
  /\ UNCHANGED <<sched, run, connected, running, pending, books>>

\* the queries, each in a try of its own: a failed one counts 0.  "hit" is
\* totalResults >= minResultCount
Query(a, hit) ==
  /\ actor[a].at = "query"
  /\ actor' = [actor EXCEPT ![a] = [@ EXCEPT !.at = IF actor[a].auto /\ hit THEN "mission"
                                                    ELSE "finish",
                                             !.hit = hit]]
  /\ UNCHANGED <<sched, run, connected, running, pending, books>>

MakeMission(a) ==
  /\ actor[a].at = "mission"
  /\ run' = [run EXCEPT ![actor[a].run].mission = "made"]
  /\ Goes(a, "evidence")
  /\ UNCHANGED <<sched, connected, running, pending, books>>

\* the findings reference the mission: a deleted one makes their insert throw
AttachEvidence(a) ==
  /\ actor[a].at = "evidence" /\ run[actor[a].run].mission = "made"
  /\ Goes(a, "finish")
  /\ UNCHANGED <<sched, run, connected, running, pending, books>>

\* mutant of FinishRun: the created mission is not recorded in the run
FinishRunMutUnlinked(a) ==
  /\ actor[a].at = "finish" /\ run[actor[a].run].status # "deleted"
  /\ run' = [run EXCEPT ![actor[a].run].status = IF actor[a].hit THEN "SUCCESS" ELSE "NO_RESULTS"]
  /\ Goes(a, "readCron")
  /\ UNCHANGED <<sched, connected, running, pending, books>>

FinishRun(a) ==
  /\ actor[a].at = "finish" /\ run[actor[a].run].status # "deleted"
  /\ run' = [run EXCEPT ![actor[a].run] =
               [@ EXCEPT !.status = IF actor[a].hit THEN "SUCCESS" ELSE "NO_RESULTS",
                         !.linked = actor[a].hit /\ actor[a].auto]]
  /\ Goes(a, "readCron")
  /\ UNCHANGED <<sched, connected, running, pending, books>>

\* the cron expression is read afresh, and the next time computed from it
ReadCron(a) ==
  /\ actor[a].at = "readCron" /\ sched[actor[a].s].exists
  /\ actor' = [actor EXCEPT ![a] = [@ EXCEPT !.at = "reschedule", !.cron = sched[actor[a].s].cron]]
  /\ UNCHANGED <<sched, run, connected, running, pending, books>>

Reschedule(a) ==
  /\ actor[a].at = "reschedule" /\ sched[actor[a].s].exists
  /\ sched' = [sched EXCEPT ![actor[a].s] = [@ EXCEPT !.due = FALSE, !.plan = actor[a].cron,
                                                      !.occ = sched[actor[a].s].occ + 1]]
  /\ Returns(a)
  /\ UNCHANGED <<run, connected, running, pending, books>>

\* anything in the try throws
Throws(a) ==
  /\ actor[a].at \in {"mission", "evidence", "finish", "readCron", "reschedule"}
  /\ Goes(a, "failRun")
  /\ UNCHANGED <<sched, run, connected, running, pending, books>>

\* mutant of FailRun: the catch block forgets the run
FailRunMutForgets(a) ==
  /\ actor[a].at = "failRun"
  /\ Goes(a, "failSchedule")
  /\ UNCHANGED <<sched, run, connected, running, pending, books>>

\* the catch block: the run, then the schedule, whose nextRunAt stays as it was
FailRun(a) ==
  /\ actor[a].at = "failRun" /\ run[actor[a].run].status # "deleted"
  /\ run' = [run EXCEPT ![actor[a].run].status = "FAILED"]
  /\ Goes(a, "failSchedule")
  /\ UNCHANGED <<sched, connected, running, pending, books>>

FailSchedule(a) ==
  /\ actor[a].at = "failSchedule" /\ sched[actor[a].s].exists
  /\ Returns(a)                                   \* lastRunStatus is not modelled
  /\ UNCHANGED <<sched, run, connected, running, pending, books>>

\* the catch block throws itself
CatchThrows(a) ==
  /\ actor[a].at \in {"failRun", "failSchedule"}
  /\ abandoned' = abandoned \cup {actor[a].run}
  /\ Returns(a)
  /\ UNCHANGED <<sched, run, connected, running, pending, raced, crashes, updates>>

\* the process restarts: handlers, list and flag are gone, the rows stay
Crash ==
  /\ crashes < MaxCrashes
  /\ crashes' = crashes + 1
  /\ running' = FALSE
  /\ actor' = [a \in Actors |-> Idle]
  /\ pending' = [t \in Ticks |-> {}]
  /\ abandoned' = abandoned \cup ({actor[a].run: a \in Actors} \ {None})
  /\ UNCHANGED <<sched, run, connected, raced, updates>>

-----------------------------------------------------------------------------
ScheduleStep(s) ==
  \/ \E cron \in Crons, enabled, auto \in BOOLEAN: CreateSchedule(s, cron, enabled, auto)
  \/ \E enabled, auto \in BOOLEAN: UpdateFlags(s, enabled, auto)
  \/ (\E cron \in Crons: UpdateCron(s, cron)) \/ UpdateBlank(s)
  \/ DeleteSchedule(s) \/ BecomeDue(s)

TickStep(t) ==
  \/ TickBegins(t) \/ ReadDue(t) \/ ReadDueFails(t) \/ TickEnds(t)
  \/ \E d \in pending[t]: TickExecutes(t, d)

RunStep(a) ==
  \/ \E r \in Runs: Start(a, r)
  \/ StartFails(a)
  \/ \E hit \in BOOLEAN: Query(a, hit)
  \/ MakeMission(a) \/ AttachEvidence(a) \/ FinishRun(a) \/ ReadCron(a) \/ Reschedule(a)
  \/ Throws(a) \/ FailRun(a) \/ FailSchedule(a) \/ CatchThrows(a)

Next ==
  \/ \E s \in Schedules: ScheduleStep(s)
  \/ \E r \in Runs: DeleteMission(r)
  \/ IntegrationChanges
  \/ \E t \in Ticks: TickStep(t)
  \/ \E m \in Triggers, s \in Schedules: Trigger(m, s)
  \/ \E a \in Actors: RunStep(a)
  \/ Crash

Spec == Init /\ [][Next]_vars

(* The cron fires every minute and the process runs on: a tick and a run   *)
(* take their next step, and the database does not refuse getDueSchedules  *)
(* for ever.                                                               *)
FairSpec ==
  /\ Spec
  /\ \A t \in Ticks: WF_vars(TickStep(t)) /\ SF_vars(ReadDue(t))
  /\ \A a \in Actors: WF_vars(RunStep(a))

-----------------------------------------------------------------------------
(* Properties.                                                             *)

TypeOK ==
  /\ sched \in [Schedules -> Schedule]
  /\ run \in [Runs -> Run]
  /\ connected \in BOOLEAN /\ running \in BOOLEAN
  /\ actor \in [Actors -> Actor]
  /\ pending \in [Ticks -> SUBSET Snapshot]
  /\ abandoned \subseteq Runs /\ raced \subseteq Schedules
  /\ crashes \in 0..MaxCrashes /\ updates \in 0..MaxUpdates

\* A run shown as RUNNING is being executed: only a restart, or a failure inside
\* the catch block of executeScheduleRun, leaves one behind for ever.
RunsOwned ==
  \A r \in Runs: run[r].status = "RUNNING" =>
    r \in abandoned \/ \E a \in Actors: actor[a].run = r

\* A mission created by a run is linked from it, unless the run failed or was
\* deleted; a run that ended well has the mission it announces, and a run without
\* results has none.
MissionsAccounted ==
  \A r \in Runs:
    /\ run[r].mission # "none" =>
         run[r].linked \/ run[r].status \in {"RUNNING", "FAILED", "deleted"}
    /\ run[r].status = "SUCCESS" /\ run[r].auto => run[r].linked
    /\ run[r].linked => run[r].mission # "none"
    /\ run[r].status = "NO_RESULTS" => run[r].mission = "none"

\* The cron completes an occurrence of a schedule once ("prevent overlap"): two
\* completed cron runs of one occurrence mean that one was cut off before it wrote
\* nextRunAt.
OccurrenceRunOnce ==
  \A q, r \in Runs:
    /\ run[q].byCron /\ run[q].status \in Completed
    /\ run[r].byCron /\ run[r].status \in Completed
    /\ run[q].s = run[r].s /\ run[q].occ = run[r].occ
    => q = r \/ {q, r} \cap abandoned # {}

\* nextRunAt is computed from the cron expression the schedule has, except when a
\* user changed that between the read and the write at the end of a run, or blanked
\* it: updateSchedule (hunts.service.ts:465, 470) then keeps the time of the old one.
NextRunFollowsCron ==
  \A s \in Schedules: sched[s].plan # sched[s].cron => s \in raced \/ sched[s].cron = Blank

\* A due schedule whose integration is connected is executed, however often other
\* schedules fail or the list cannot be read: the flag that prevents overlap is
\* never left up, and one schedule's failure does not end the loop over the others.
Attempted(s) == \E t \in Ticks: actor[t].at = "start" /\ actor[t].s = s

DueIsAttempted ==
  \A s \in Schedules: (Due(s) /\ connected) ~> (Attempted(s) \/ ~Due(s) \/ ~connected)

-----------------------------------------------------------------------------
(* The strengthening that is inductive.                                    *)

\* whoever is at a schedule or a run is at one that was there, nobody else's run
ActorsGrounded ==
  /\ \A s \in Schedules: sched[s].exists => sched[s].occ # 0
  /\ \A a \in Actors:
       /\ actor[a].at \in Steps \cup {"start"} =>
            actor[a].s \in Schedules /\ sched[actor[a].s].occ # 0 /\ actor[a].occ <= sched[actor[a].s].occ
       /\ actor[a].at \in Steps => actor[a].run \in Runs
       /\ actor[a].at \notin Steps => actor[a].run = None
       /\ \A b \in Actors \ {a}: actor[b].run = actor[a].run => actor[a].run = None
       /\ actor[a].at = "reschedule" =>
            actor[a].cron \in Crons /\ (actor[a].cron = sched[actor[a].s].cron \/ actor[a].s \in raced)

\* how far the executor is says what its run is like, unless that was deleted
InHand(a, r) ==
  /\ r.status # "unused"
  /\ r.s = actor[a].s /\ r.occ = actor[a].occ /\ r.auto = actor[a].auto /\ r.byCron = (a \in Ticks)
  /\ actor[a].at \in {"query", "mission", "evidence", "finish"} => r.status \in {"RUNNING", "deleted"}
  /\ actor[a].at \in {"query", "mission"} => r.mission = "none"
  /\ actor[a].at \in {"mission", "evidence"} => actor[a].hit /\ actor[a].auto
  /\ actor[a].at = "evidence" => r.mission # "none"
  /\ actor[a].at = "finish" => (r.mission # "none" <=> actor[a].hit /\ actor[a].auto)
  /\ actor[a].at \in {"query", "mission", "evidence", "finish"} => ~r.linked
  /\ actor[a].at \in {"readCron", "reschedule"} => r.status \in Completed \cup {"deleted"}
  /\ actor[a].at = "failSchedule" => r.status \in {"FAILED", "deleted"}

RunsGrounded ==
  /\ \A a \in Actors: actor[a].at \in Steps => InHand(a, run[actor[a].run])
  /\ \A r \in Runs: run[r].status # "unused" => run[r].s \in Schedules

\* the flag is up while a tick is under way, and only one tick has a list
OneTick ==
  \A t \in Ticks:
    /\ actor[t].at # "idle" => running /\ \A u \in Ticks \ {t}: actor[u].at = "idle"
    /\ actor[t].at \in {"idle", "read"} => pending[t] = {}

\* a cron run that counts for its occurrence
Counts(r) == run[r].byCron /\ run[r].status \in Completed \cup {"RUNNING"} /\ r \notin abandoned
Fresh(s, occ) == \A r \in Runs: Counts(r) => ~(run[r].s = s /\ run[r].occ = occ)

\* what a tick has yet to execute has not been run, and the list names a schedule once
PendingGrounded ==
  \A t \in Ticks:
    /\ actor[t].at = "start" => Fresh(actor[t].s, actor[t].occ)
    /\ \A d \in pending[t]:
         /\ sched[d.s].occ # 0 /\ d.occ <= sched[d.s].occ /\ Fresh(d.s, d.occ)
         /\ actor[t].at \in Steps \cup {"start"} => actor[t].s # d.s
         /\ \A e \in pending[t]: e.s = d.s => e = d

\* a run of an occurrence is in the hands of a tick, or the occurrence is over
OccurrencesGrounded ==
  \A r \in Runs: Counts(r) =>
    /\ run[r].occ < sched[run[r].s].occ \/ \E t \in Ticks: actor[t].run = r
    /\ \A q \in Runs: Counts(q) /\ run[q].s = run[r].s /\ run[q].occ = run[r].occ => q = r

IInv ==
  /\ TypeOK /\ ActorsGrounded /\ RunsGrounded /\ RunsOwned /\ MissionsAccounted
  /\ NextRunFollowsCron /\ OneTick /\ PendingGrounded /\ OccurrencesGrounded

=============================================================================
