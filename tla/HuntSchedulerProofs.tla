-------------------------- MODULE HuntSchedulerProofs --------------------------
(***************************************************************************)
(* Proofs about HuntScheduler, for any number of schedules, ticks,         *)
(* triggers, runs, restarts and changes, and about the times cronNextRun   *)
(* puts a schedule's runs at.                                              *)
(***************************************************************************)
EXTENDS HuntScheduler, CronExpressions, TLAPS

\* The invariant holds initially.
LEMMA Initially == Init => IInv
<1> SUFFICES ASSUME Init PROVE IInv
  OBVIOUS
<1>1. TypeOK
  <2>1. PICK cron \in [Schedules -> Crons]:
          sched = [s \in Schedules |-> [exists |-> FALSE, enabled |-> TRUE, due |-> FALSE, auto |-> TRUE,
                                        cron |-> cron[s], plan |-> cron[s], occ |-> 0]]
    BY DEF Init
  <2>2. sched \in [Schedules -> Schedule]
    BY <2>1 DEF Schedule
  <2>3. run \in [Runs -> Run]
    BY DEF Init, Run
  <2>4. actor \in [Actors -> Actor]
    BY DEF Init, Idle, Actor
  <2>5. /\ connected \in BOOLEAN /\ running \in BOOLEAN /\ pending \in [Ticks -> SUBSET Snapshot]
        /\ abandoned \subseteq Runs /\ raced \subseteq Schedules
    BY DEF Init
  <2>6. crashes \in 0..MaxCrashes /\ updates \in 0..MaxUpdates
    BY SchedulerAssumption DEF Init
  <2>7. QED
    BY <2>2, <2>3, <2>4, <2>5, <2>6 DEF TypeOK
<1>2. ActorsGrounded
  BY DEF Init, Idle, ActorsGrounded, Steps
<1>3. RunsGrounded /\ RunsOwned /\ MissionsAccounted
  BY DEF Init, Idle, RunsGrounded, RunsOwned, MissionsAccounted, Steps
<1>4. NextRunFollowsCron /\ OneTick
  BY DEF Init, Idle, Actors, NextRunFollowsCron, OneTick
<1>5. PendingGrounded /\ OccurrencesGrounded
  BY DEF Init, Idle, Actors, PendingGrounded, OccurrencesGrounded, Counts
<1>6. QED
  BY <1>1, <1>2, <1>3, <1>4, <1>5 DEF IInv

\* The records stay records whatever field a step sets.
LEMMA ScheduleFields ==
  ASSUME NEW x \in Schedule
  PROVE  /\ \A b \in BOOLEAN: [x EXCEPT !.exists = b] \in Schedule
         /\ \A b \in BOOLEAN: [x EXCEPT !.enabled = b] \in Schedule
         /\ \A b \in BOOLEAN: [x EXCEPT !.due = b] \in Schedule
         /\ \A b \in BOOLEAN: [x EXCEPT !.auto = b] \in Schedule
         /\ \A k \in Crons: [x EXCEPT !.cron = k] \in Schedule
         /\ \A k \in Crons: [x EXCEPT !.plan = k] \in Schedule
         /\ \A n \in Nat: [x EXCEPT !.occ = n] \in Schedule
<1>1. ASSUME NEW b \in BOOLEAN
      PROVE  [x EXCEPT !.exists = b] \in Schedule /\ [x EXCEPT !.enabled = b] \in Schedule
  BY DEF Schedule
<1>2. ASSUME NEW b \in BOOLEAN
      PROVE  [x EXCEPT !.due = b] \in Schedule /\ [x EXCEPT !.auto = b] \in Schedule
  BY DEF Schedule
<1>3. ASSUME NEW k \in Crons
      PROVE  [x EXCEPT !.cron = k] \in Schedule /\ [x EXCEPT !.plan = k] \in Schedule
  BY DEF Schedule
<1>4. ASSUME NEW n \in Nat PROVE [x EXCEPT !.occ = n] \in Schedule
  BY DEF Schedule
<1>5. QED
  BY <1>1, <1>2, <1>3, <1>4

\* What an update of a schedule writes is a schedule.
LEMMA NewSchedule ==
  ASSUME NEW x \in Schedule
  PROVE  /\ \A e, b \in BOOLEAN: [x EXCEPT !.enabled = e, !.auto = b] \in Schedule
         /\ \A k \in Crons: [x EXCEPT !.cron = k, !.plan = k, !.due = FALSE, !.occ = x.occ + 1] \in Schedule
         /\ \A k \in Crons: [x EXCEPT !.due = FALSE, !.plan = k, !.occ = x.occ + 1] \in Schedule
         /\ [x EXCEPT !.exists = FALSE] \in Schedule
         /\ [x EXCEPT !.due = TRUE] \in Schedule
<1>1. x.occ + 1 \in Nat
  BY DEF Schedule
<1>2. ASSUME NEW e \in BOOLEAN, NEW b \in BOOLEAN
      PROVE  [x EXCEPT !.enabled = e, !.auto = b] \in Schedule
  BY ScheduleFields
<1>3. ASSUME NEW k \in Crons
      PROVE  [x EXCEPT !.cron = k, !.plan = k, !.due = FALSE, !.occ = x.occ + 1] \in Schedule
  <2>1. [x EXCEPT !.cron = k, !.plan = k] \in Schedule
    BY ScheduleFields
  <2>2. [x EXCEPT !.cron = k, !.plan = k, !.due = FALSE] \in Schedule
    BY <2>1, ScheduleFields
  <2>3. QED
    BY <1>1, <2>2, ScheduleFields
<1>4. ASSUME NEW k \in Crons
      PROVE  [x EXCEPT !.due = FALSE, !.plan = k, !.occ = x.occ + 1] \in Schedule
  <2>1. [x EXCEPT !.due = FALSE, !.plan = k] \in Schedule
    BY ScheduleFields
  <2>2. QED
    BY <1>1, <2>1, ScheduleFields
<1>5. QED
  BY <1>2, <1>3, <1>4, ScheduleFields

\* What an update of a run writes is a run.
LEMMA NewRun ==
  ASSUME NEW x \in Run
  PROVE  /\ \A st \in {"RUNNING", "FAILED", "deleted"} \cup Completed: [x EXCEPT !.status = st] \in Run
         /\ \A m \in {"made", "deleted"}: [x EXCEPT !.mission = m] \in Run
         /\ \A st \in {"RUNNING", "FAILED", "deleted"} \cup Completed, b \in BOOLEAN:
              [x EXCEPT !.status = st, !.linked = b] \in Run
<1>1. ASSUME NEW st \in {"RUNNING", "FAILED", "deleted"} \cup Completed
      PROVE  [x EXCEPT !.status = st] \in Run
  BY DEF Run
<1>2. ASSUME NEW m \in {"made", "deleted"} PROVE [x EXCEPT !.mission = m] \in Run
  BY DEF Run
<1>3. ASSUME NEW y \in Run, NEW b \in BOOLEAN PROVE [y EXCEPT !.linked = b] \in Run
  BY DEF Run
<1>4. QED
  BY <1>1, <1>2, <1>3

\* An executor that goes on, with what it read, is an executor.
LEMMA ActorFields ==
  ASSUME NEW x \in Actor
  PROVE  /\ \A p \in Steps \cup {"read", "loop", "start"}: [x EXCEPT !.at = p] \in Actor
         /\ \A h \in BOOLEAN: [x EXCEPT !.hit = h] \in Actor
         /\ \A h \in BOOLEAN: [x EXCEPT !.auto = h] \in Actor
         /\ \A r \in Runs: [x EXCEPT !.run = r] \in Actor
         /\ \A k \in Crons: [x EXCEPT !.cron = k] \in Actor
         /\ \A z \in Schedules: [x EXCEPT !.s = z] \in Actor
         /\ \A n \in Nat: [x EXCEPT !.occ = n] \in Actor
<1>1. ASSUME NEW p \in Steps \cup {"read", "loop", "start"} PROVE [x EXCEPT !.at = p] \in Actor
  BY DEF Actor
<1>2. ASSUME NEW h \in BOOLEAN
      PROVE  [x EXCEPT !.hit = h] \in Actor /\ [x EXCEPT !.auto = h] \in Actor
  BY DEF Actor
<1>3. ASSUME NEW r \in Runs PROVE [x EXCEPT !.run = r] \in Actor
  BY DEF Actor
<1>4. ASSUME NEW k \in Crons PROVE [x EXCEPT !.cron = k] \in Actor
  BY DEF Actor
<1>5. ASSUME NEW z \in Schedules PROVE [x EXCEPT !.s = z] \in Actor
  BY DEF Actor
<1>6. ASSUME NEW n \in Nat PROVE [x EXCEPT !.occ = n] \in Actor
  BY DEF Actor
<1>7. QED
  BY <1>1, <1>2, <1>3, <1>4, <1>5, <1>6

\* So is one that has nothing to do, or has its list to go on with.
LEMMA Resting == Idle \in Actor /\ [Idle EXCEPT !.at = "loop"] \in Actor
BY DEF Actor, Idle, Steps

\* An executor that returns to its caller holds nothing any more.
LEMMA Returned ==
  ASSUME TypeOK, NEW a \in Actors, Returns(a)
  PROVE  /\ actor'[a].at \in {"idle", "loop"} /\ actor'[a].run = None
         /\ a \in Ticks => actor'[a].at = "loop"
         /\ \A b \in Actors \ {a}: actor'[b] = actor[b]
         /\ actor' \in [Actors -> Actor]
<1>1. actor \in [Actors -> Actor]
  BY DEF TypeOK
<1>2. QED
  BY <1>1, Resting DEF Returns, Idle

\* What Reschedule and UpdateCron do to a schedule.
LEMMA Rescheduled ==
  ASSUME TypeOK, ActorsGrounded, NEW a \in Actors, Reschedule(a)
  PROVE  /\ actor[a].s \in Schedules /\ actor[a].cron \in Crons
         /\ sched' \in [Schedules -> Schedule]
         /\ sched'[actor[a].s].exists = sched[actor[a].s].exists
         /\ sched'[actor[a].s].cron = sched[actor[a].s].cron
         /\ sched'[actor[a].s].plan = actor[a].cron
         /\ sched'[actor[a].s].occ = sched[actor[a].s].occ + 1
         /\ \A z \in Schedules \ {actor[a].s}: sched'[z] = sched[z]
<1>1. actor[a].s \in Schedules /\ actor[a].cron \in Crons
  BY DEF Reschedule, ActorsGrounded, Steps
<1> DEFINE z == actor[a].s
<1>2. sched[z] \in Schedule /\ sched \in [Schedules -> Schedule]
  BY <1>1 DEF TypeOK
<1>3. sched' = [sched EXCEPT ![z] = [sched[z] EXCEPT !.due = FALSE, !.plan = actor[a].cron, !.occ = sched[z].occ + 1]]
  BY DEF Reschedule
<1>4. [sched[z] EXCEPT !.due = FALSE, !.plan = actor[a].cron, !.occ = sched[z].occ + 1] \in Schedule
  BY <1>1, <1>2, NewSchedule
<1> HIDE DEF z
<1>5. sched'[z] = [sched[z] EXCEPT !.due = FALSE, !.plan = actor[a].cron, !.occ = sched[z].occ + 1]
  BY <1>1, <1>2, <1>3 DEF z
<1>6. /\ sched'[z].exists = sched[z].exists /\ sched'[z].cron = sched[z].cron
      /\ sched'[z].plan = actor[a].cron /\ sched'[z].occ = sched[z].occ + 1
  BY <1>5
<1>7. QED
  BY <1>1, <1>2, <1>3, <1>4 DEF z

\* A change of the expression plans anew, and begins the next occurrence.
LEMMA Updated ==
  ASSUME TypeOK, NEW s \in Schedules, NEW cron \in Crons, UpdateCron(s, cron)
  PROVE  /\ sched' \in [Schedules -> Schedule]
         /\ sched'[s].exists = sched[s].exists
         /\ sched'[s].cron = cron /\ sched'[s].plan = cron
         /\ sched'[s].occ = sched[s].occ + 1
         /\ \A z \in Schedules \ {s}: sched'[z] = sched[z]
<1>1. sched[s] \in Schedule /\ sched \in [Schedules -> Schedule]
  BY DEF TypeOK
<1> DEFINE x == [sched[s] EXCEPT !.cron = cron, !.plan = cron, !.due = FALSE, !.occ = sched[s].occ + 1]
<1>2. sched' = [sched EXCEPT ![s] = x]
  BY DEF UpdateCron
<1>3. x \in Schedule
  BY <1>1, NewSchedule
<1>4. x.exists = sched[s].exists /\ x.cron = cron /\ x.plan = cron /\ x.occ = sched[s].occ + 1
  BY <1>1
<1> HIDE DEF x
<1>5. QED
  BY <1>1, <1>2, <1>3, <1>4

\* A blank expression is all that changes of the schedule.
LEMMA Blanked ==
  ASSUME TypeOK, NEW s \in Schedules, UpdateBlank(s)
  PROVE  /\ sched' \in [Schedules -> Schedule]
         /\ sched'[s].cron = Blank
         /\ \A z \in Schedules: /\ sched'[z].exists = sched[z].exists /\ sched'[z].enabled = sched[z].enabled
                               /\ sched'[z].due = sched[z].due /\ sched'[z].occ = sched[z].occ
                               /\ sched'[z].plan = sched[z].plan
         /\ \A z \in Schedules \ {s}: sched'[z] = sched[z]
<1>1. sched[s] \in Schedule /\ sched \in [Schedules -> Schedule]
  BY DEF TypeOK
<1> DEFINE x == [sched[s] EXCEPT !.cron = Blank]
<1>2. sched' = [sched EXCEPT ![s] = x]
  BY <1>1 DEF UpdateBlank
<1>3. x \in Schedule
  BY <1>1, ScheduleFields, SchedulerAssumption
<1>4. /\ x.exists = sched[s].exists /\ x.enabled = sched[s].enabled /\ x.due = sched[s].due
      /\ x.occ = sched[s].occ /\ x.plan = sched[s].plan /\ x.cron = Blank
  BY <1>1 DEF Schedule
<1> HIDE DEF x
<1>5. sched'[s] = x /\ \A z \in Schedules \ {s}: sched'[z] = sched[z]
  BY <1>1, <1>2
<1>6. sched' \in [Schedules -> Schedule]
  BY <1>1, <1>2, <1>3
<1>7. QED
  BY <1>4, <1>5, <1>6

\* Every step keeps TypeOK.
LEMMA Step_TypeOK == IInv /\ [Next]_vars => TypeOK'
<1> SUFFICES ASSUME IInv, [Next]_vars PROVE TypeOK'
  OBVIOUS
<1>t. /\ TypeOK /\ ActorsGrounded /\ RunsGrounded /\ RunsOwned /\ MissionsAccounted
      /\ NextRunFollowsCron /\ OneTick /\ PendingGrounded /\ OccurrencesGrounded
  BY DEF IInv
<1> USE SchedulerAssumption DEF books, Actors
<1>1. ASSUME NEW s \in Schedules, NEW cron \in Crons, NEW enabled \in BOOLEAN,
             NEW auto \in BOOLEAN, CreateSchedule(s, cron, enabled, auto)
      PROVE  TypeOK'
  BY <1>t, <1>1 DEF CreateSchedule, TypeOK, Schedule
<1>2. ASSUME NEW s \in Schedules, NEW enabled \in BOOLEAN, NEW auto \in BOOLEAN, UpdateFlags(s,
             enabled, auto)
      PROVE  TypeOK'
  <2>a. sched[s] \in Schedule /\ sched \in [Schedules -> Schedule]
    BY <1>t DEF TypeOK
  <2>b. [sched[s] EXCEPT !.enabled = enabled, !.auto = auto] \in Schedule
    BY <2>a, NewSchedule
  <2>1. sched' \in [Schedules -> Schedule]
    BY <1>2, <2>a, <2>b DEF UpdateFlags
  <2>2. QED
    BY <1>t, <1>2, <2>1 DEF UpdateFlags, TypeOK
<1>3. ASSUME NEW s \in Schedules, NEW cron \in Crons, UpdateCron(s, cron) PROVE TypeOK'
  <2>1. sched' \in [Schedules -> Schedule]
    BY <1>t, <1>3, Updated
  <2>2. updates' \in 0..MaxUpdates
    BY <1>t, <1>3 DEF UpdateCron, TypeOK
  <2>3. raced' \subseteq Schedules
    BY <1>t, <1>3 DEF UpdateCron, TypeOK
  <2>4. QED
    BY <1>t, <1>3, <2>1 DEF UpdateCron, TypeOK
<1>4. ASSUME NEW s \in Schedules, DeleteSchedule(s) PROVE TypeOK'
  <2>a. sched[s] \in Schedule /\ sched \in [Schedules -> Schedule]
    BY <1>t DEF TypeOK
  <2>b. [sched[s] EXCEPT !.exists = FALSE] \in Schedule
    BY <2>a, NewSchedule
  <2>1. sched' \in [Schedules -> Schedule]
    BY <1>4, <2>a, <2>b DEF DeleteSchedule
  <2>2. ASSUME NEW r \in Runs PROVE [run[r] EXCEPT !.status = "deleted"] \in Run /\ run[r] \in Run
    BY <1>t, NewRun DEF TypeOK
  <2>3. run' \in [Runs -> Run]
    BY <1>4, <2>2 DEF DeleteSchedule
  <2>4. QED
    BY <1>t, <1>4, <2>1, <2>3 DEF DeleteSchedule, TypeOK
<1>5. ASSUME NEW s \in Schedules, BecomeDue(s) PROVE TypeOK'
  <2>a. sched[s] \in Schedule /\ sched \in [Schedules -> Schedule]
    BY <1>t DEF TypeOK
  <2>b. [sched[s] EXCEPT !.due = TRUE] \in Schedule
    BY <2>a, NewSchedule
  <2>1. sched' \in [Schedules -> Schedule]
    BY <1>5, <2>a, <2>b DEF BecomeDue
  <2>2. QED
    BY <1>t, <1>5, <2>1 DEF BecomeDue, TypeOK
<1>6. ASSUME NEW r \in Runs, DeleteMission(r) PROVE TypeOK'
  <2>a. run[r] \in Run /\ run \in [Runs -> Run]
    BY <1>t DEF TypeOK
  <2>b. [run[r] EXCEPT !.mission = "deleted"] \in Run
    BY <2>a, NewRun
  <2>1. run' \in [Runs -> Run]
    BY <1>6, <2>a, <2>b DEF DeleteMission
  <2>2. QED
    BY <1>t, <1>6, <2>1 DEF DeleteMission, TypeOK
<1>7. ASSUME IntegrationChanges PROVE TypeOK'
  BY <1>t, <1>7 DEF IntegrationChanges, TypeOK
<1>8. ASSUME NEW t \in Ticks, TickBegins(t) PROVE TypeOK'
  <2>a. actor[t] \in Actor /\ actor \in [Actors -> Actor]
    BY <1>t DEF TypeOK
  <2>b. [actor[t] EXCEPT !.at = "read"] \in Actor
    BY <2>a, ActorFields
  <2>1. actor' \in [Actors -> Actor]
    BY <1>8, <2>a, <2>b DEF TickBegins
  <2>2. QED
    BY <1>t, <1>8, <2>1 DEF TickBegins, TypeOK
<1>9. ASSUME NEW t \in Ticks, ReadDue(t) PROVE TypeOK'
  <2>a. actor[t] \in Actor /\ actor \in [Actors -> Actor]
    BY <1>t DEF TypeOK
  <2>b. [actor[t] EXCEPT !.at = "loop"] \in Actor
    BY <2>a, ActorFields
  <2>1. actor' \in [Actors -> Actor]
    BY <1>9, <2>a, <2>b DEF ReadDue
  <2>2. DueSnapshots \subseteq Snapshot
    BY <1>t DEF DueSnapshots, Snapshot, TypeOK, Schedule
  <2>3. QED
    BY <1>t, <1>9, <2>1, <2>2 DEF ReadDue, TypeOK
<1>10. ASSUME NEW t \in Ticks, ReadDueFails(t) PROVE TypeOK'
  BY <1>t, <1>10 DEF ReadDueFails, TypeOK, Actor
<1>11. ASSUME NEW t \in Ticks, TickEnds(t) PROVE TypeOK'
  BY <1>t, <1>11
    DEF TickEnds, Idle, ActorsGrounded, TypeOK, Schedule, Snapshot, Run, Actor, Completed, Steps
<1>12. ASSUME NEW t \in Ticks, NEW d \in pending[t], TickExecutes(t, d) PROVE TypeOK'
  <2>1. d.s \in Schedules /\ d.auto \in BOOLEAN /\ d.occ \in Nat
    BY <1>t DEF TypeOK, Snapshot
  <2>2. [Idle EXCEPT !.at = "start", !.s = d.s, !.auto = d.auto, !.occ = d.occ] \in Actor
    <3>1. [Idle EXCEPT !.at = "start"] \in Actor
      BY Resting, ActorFields
    <3>2. [Idle EXCEPT !.at = "start", !.s = d.s] \in Actor
      BY <2>1, <3>1, ActorFields
    <3>3. [Idle EXCEPT !.at = "start", !.s = d.s, !.auto = d.auto] \in Actor
      BY <2>1, <3>2, ActorFields
    <3>4. QED
      BY <2>1, <3>3, ActorFields
  <2>3. actor' \in [Actors -> Actor]
    BY <1>t, <1>12, <2>2 DEF TickExecutes, TypeOK
  <2>4. QED
    BY <1>t, <1>12, <2>3 DEF TickExecutes, TypeOK
<1>13. ASSUME NEW m \in Triggers, NEW s \in Schedules, Trigger(m, s) PROVE TypeOK'
  BY <1>t, <1>13
    DEF Trigger, Idle, ActorsGrounded, TypeOK, Schedule, Snapshot, Run, Actor, Completed, Steps
<1>14. ASSUME NEW a \in Actors, NEW r \in Runs, Start(a, r) PROVE TypeOK'
  <2>1. actor[a] \in Actor /\ actor[a].s \in Schedules /\ actor[a].occ \in Nat /\ actor[a].auto \in BOOLEAN
    BY <1>t, <1>14 DEF Start, ActorsGrounded, TypeOK, Actor
  <2>2. [actor[a] EXCEPT !.at = "query", !.run = r] \in Actor
    <3>1. [actor[a] EXCEPT !.at = "query"] \in Actor
      BY <2>1, ActorFields DEF Steps
    <3>2. QED
      BY <3>1, ActorFields
  <2>3. actor' \in [Actors -> Actor]
    BY <1>t, <1>14, <2>2 DEF Start, TypeOK
  <2>4. run' \in [Runs -> Run]
    BY <1>t, <1>14, <2>1 DEF Start, TypeOK, Run
  <2>5. QED
    BY <1>t, <1>14, <2>3, <2>4 DEF Start, TypeOK
<1>15. ASSUME NEW a \in Actors, StartFails(a) PROVE TypeOK'
  BY <1>t, <1>15
    DEF StartFails, Returns, Idle, ActorsGrounded, TypeOK, Schedule, Snapshot, Run, Actor,
        Completed, Steps
<1>16. ASSUME NEW a \in Actors, NEW hit \in BOOLEAN, Query(a, hit) PROVE TypeOK'
  <2>1. actor[a] \in Actor
    BY <1>t DEF TypeOK
  <2>2. [actor[a] EXCEPT !.at = IF actor[a].auto /\ hit THEN "mission" ELSE "finish", !.hit = hit] \in Actor
    BY <2>1 DEF Actor, Steps
  <2>3. actor' \in [Actors -> Actor]
    BY <1>t, <1>16, <2>2 DEF Query, TypeOK
  <2>4. QED
    BY <1>t, <1>16, <2>3 DEF Query, TypeOK
<1>17. ASSUME NEW a \in Actors, MakeMission(a) PROVE TypeOK'
  <2>1. actor[a] \in Actor /\ actor[a].run \in Runs
    BY <1>t, <1>17 DEF MakeMission, ActorsGrounded, TypeOK, Steps
  <2>a. actor \in [Actors -> Actor] /\ run \in [Runs -> Run] /\ run[actor[a].run] \in Run
    BY <1>t, <2>1 DEF TypeOK
  <2>b. [actor[a] EXCEPT !.at = "evidence"] \in Actor
    BY <2>1, ActorFields DEF Steps
  <2>c. [run[actor[a].run] EXCEPT !.mission = "made"] \in Run
    BY <2>a, NewRun
  <2>2. actor' \in [Actors -> Actor]
    BY <1>17, <2>a, <2>b DEF MakeMission, Goes
  <2>3. run' \in [Runs -> Run]
    BY <1>17, <2>1, <2>a, <2>c DEF MakeMission
  <2>4. QED
    BY <1>t, <1>17, <2>2, <2>3 DEF MakeMission, TypeOK
<1>18. ASSUME NEW a \in Actors, AttachEvidence(a) PROVE TypeOK'
  BY <1>t, <1>18 DEF AttachEvidence, Goes, TypeOK, Actor, Steps
<1>19. ASSUME NEW a \in Actors, FinishRun(a) PROVE TypeOK'
  <2>1. actor[a] \in Actor /\ actor[a].run \in Runs
    BY <1>t, <1>19 DEF FinishRun, ActorsGrounded, TypeOK, Steps
  <2>a. actor \in [Actors -> Actor] /\ run \in [Runs -> Run] /\ run[actor[a].run] \in Run
        /\ actor[a].hit \in BOOLEAN /\ actor[a].auto \in BOOLEAN
    BY <1>t, <2>1 DEF TypeOK, Actor
  <2>b. [actor[a] EXCEPT !.at = "readCron"] \in Actor
    BY <2>1, ActorFields DEF Steps
  <2> DEFINE st == IF actor[a].hit THEN "SUCCESS" ELSE "NO_RESULTS"
             b == actor[a].hit /\ actor[a].auto
  <2>c. st \in {"RUNNING", "FAILED", "deleted"} \cup Completed /\ b \in BOOLEAN
    BY DEF Completed
  <2>d. run' = [run EXCEPT ![actor[a].run] = [run[actor[a].run] EXCEPT !.status = st, !.linked = b]]
    BY <1>19 DEF FinishRun
  <2> HIDE DEF st, b
  <2>e. [run[actor[a].run] EXCEPT !.status = st, !.linked = b] \in Run
    BY <2>a, <2>c, NewRun
  <2>2. actor' \in [Actors -> Actor]
    BY <1>19, <2>a, <2>b DEF FinishRun, Goes
  <2>3. run' \in [Runs -> Run]
    BY <2>1, <2>a, <2>d, <2>e
  <2>4. QED
    BY <1>t, <1>19, <2>2, <2>3 DEF FinishRun, TypeOK
<1>20. ASSUME NEW a \in Actors, ReadCron(a) PROVE TypeOK'
  <2>1. actor[a] \in Actor /\ sched[actor[a].s].cron \in Crons
    BY <1>t, <1>20 DEF ReadCron, ActorsGrounded, TypeOK, Steps, Schedule
  <2>2. [actor[a] EXCEPT !.at = "reschedule", !.cron = sched[actor[a].s].cron] \in Actor
    BY <2>1 DEF Actor, Steps
  <2>3. QED
    BY <1>t, <1>20, <2>2 DEF ReadCron, TypeOK
<1>21. ASSUME NEW a \in Actors, Reschedule(a) PROVE TypeOK'
  BY <1>t, <1>21, Rescheduled, Returned DEF Reschedule, TypeOK
<1>22. ASSUME NEW a \in Actors, Throws(a) PROVE TypeOK'
  BY <1>t, <1>22 DEF Throws, Goes, TypeOK, Actor, Steps
<1>23. ASSUME NEW a \in Actors, FailRun(a) PROVE TypeOK'
  <2>1. actor[a] \in Actor /\ actor[a].run \in Runs
    BY <1>t, <1>23 DEF FailRun, ActorsGrounded, TypeOK, Steps
  <2>a. actor \in [Actors -> Actor] /\ run \in [Runs -> Run] /\ run[actor[a].run] \in Run
    BY <1>t, <2>1 DEF TypeOK
  <2>b. [actor[a] EXCEPT !.at = "failSchedule"] \in Actor
    BY <2>1, ActorFields DEF Steps
  <2>c. [run[actor[a].run] EXCEPT !.status = "FAILED"] \in Run
    BY <2>a, NewRun
  <2>2. actor' \in [Actors -> Actor]
    BY <1>23, <2>a, <2>b DEF FailRun, Goes
  <2>3. run' \in [Runs -> Run]
    BY <1>23, <2>1, <2>a, <2>c DEF FailRun
  <2>4. QED
    BY <1>t, <1>23, <2>2, <2>3 DEF FailRun, TypeOK
<1>24. ASSUME NEW a \in Actors, FailSchedule(a) PROVE TypeOK'
  BY <1>t, <1>24
    DEF FailSchedule, Returns, Idle, ActorsGrounded, TypeOK, Schedule, Snapshot, Run, Actor,
        Completed, Steps
<1>25. ASSUME NEW a \in Actors, CatchThrows(a) PROVE TypeOK'
  BY <1>t, <1>25
    DEF CatchThrows, Returns, Idle, ActorsGrounded, TypeOK, Schedule, Snapshot, Run, Actor,
        Completed, Steps
<1>26. ASSUME Crash PROVE TypeOK'
  <2>1. actor' \in [Actors -> Actor] /\ pending' \in [Ticks -> SUBSET Snapshot]
    BY <1>26, Resting DEF Crash
  <2>2. abandoned' \subseteq Runs
    BY <1>t, <1>26 DEF Crash, TypeOK, Actor
  <2>a. crashes' \in 0..MaxCrashes
    BY <1>t, <1>26 DEF Crash, TypeOK
  <2>3. QED
    BY <1>t, <1>26, <2>1, <2>2, <2>a DEF Crash, TypeOK
<1>27. ASSUME UNCHANGED vars PROVE TypeOK'
  BY <1>t, <1>27 DEF vars, TypeOK
<1>28. ASSUME NEW s \in Schedules, UpdateBlank(s) PROVE TypeOK'
  <2>1. sched' \in [Schedules -> Schedule]
    BY <1>t, <1>28, Blanked
  <2>2. updates' \in 0..MaxUpdates /\ raced' \subseteq Schedules
    BY <1>t, <1>28 DEF UpdateBlank, TypeOK
  <2>3. QED
    BY <1>t, <1>28, <2>1, <2>2 DEF UpdateBlank, TypeOK
<1>29. QED
  BY <1>1, <1>2, <1>3, <1>4, <1>5, <1>6, <1>7, <1>8, <1>9, <1>10, <1>11, <1>12, <1>13, <1>14,
     <1>15, <1>16, <1>17, <1>18, <1>19, <1>20, <1>21, <1>22, <1>23, <1>24, <1>25, <1>26, <1>27,
     <1>28
    DEF Next, ScheduleStep, TickStep, RunStep

\* Every step keeps ActorsGrounded.
LEMMA Step_ActorsGrounded == IInv /\ [Next]_vars => ActorsGrounded'
<1> SUFFICES ASSUME IInv, [Next]_vars PROVE ActorsGrounded'
  OBVIOUS
<1>t. /\ TypeOK /\ ActorsGrounded /\ RunsGrounded /\ RunsOwned /\ MissionsAccounted
      /\ NextRunFollowsCron /\ OneTick /\ PendingGrounded /\ OccurrencesGrounded
  BY DEF IInv
<1> USE SchedulerAssumption DEF books, Actors
<1>1. ASSUME NEW s \in Schedules, NEW cron \in Crons, NEW enabled \in BOOLEAN,
             NEW auto \in BOOLEAN, CreateSchedule(s, cron, enabled, auto)
      PROVE  ActorsGrounded'
  BY <1>t, <1>1 DEF CreateSchedule, ActorsGrounded, Steps
<1>2. ASSUME NEW s \in Schedules, NEW enabled \in BOOLEAN, NEW auto \in BOOLEAN, UpdateFlags(s,
             enabled, auto)
      PROVE  ActorsGrounded'
  BY <1>t, <1>2 DEF UpdateFlags, ActorsGrounded
<1>3. ASSUME NEW s \in Schedules, NEW cron \in Crons, UpdateCron(s, cron) PROVE ActorsGrounded'
  <2>1. /\ \A z \in Schedules: sched[z].occ \in Nat /\ sched'[z].occ \in Nat
        /\ \A z \in Schedules: sched[z].occ <= sched'[z].occ
        /\ sched'[s].occ # 0 /\ sched'[s].cron = cron
        /\ \A z \in Schedules \ {s}: sched'[z] = sched[z]
    BY <1>t, <1>3, Updated DEF TypeOK, Schedule
  <2>2. /\ UNCHANGED actor /\ raced \subseteq raced'
        /\ \A a \in Actors: actor[a].at = "reschedule" /\ actor[a].s = s => s \in raced'
    BY <1>3 DEF UpdateCron, Rescheduling
  <2>3. \A a \in Actors: actor[a].occ \in Nat
    BY <1>t DEF TypeOK, Actor
  <2>4. QED
    BY <1>t, <2>1, <2>2, <2>3 DEF ActorsGrounded, Steps
<1>4. ASSUME NEW s \in Schedules, DeleteSchedule(s) PROVE ActorsGrounded'
  BY <1>t, <1>4 DEF DeleteSchedule, ActorsGrounded
<1>5. ASSUME NEW s \in Schedules, BecomeDue(s) PROVE ActorsGrounded'
  BY <1>t, <1>5 DEF BecomeDue, ActorsGrounded
<1>6. ASSUME NEW r \in Runs, DeleteMission(r) PROVE ActorsGrounded'
  BY <1>t, <1>6 DEF DeleteMission, ActorsGrounded
<1>7. ASSUME IntegrationChanges PROVE ActorsGrounded'
  BY <1>t, <1>7 DEF IntegrationChanges, ActorsGrounded
<1>8. ASSUME NEW t \in Ticks, TickBegins(t) PROVE ActorsGrounded'
  BY <1>t, <1>8 DEF TickBegins, ActorsGrounded, Steps
<1>9. ASSUME NEW t \in Ticks, ReadDue(t) PROVE ActorsGrounded'
  BY <1>t, <1>9 DEF ReadDue, ActorsGrounded, Steps
<1>10. ASSUME NEW t \in Ticks, ReadDueFails(t) PROVE ActorsGrounded'
  BY <1>t, <1>10 DEF ReadDueFails, ActorsGrounded, Steps
<1>11. ASSUME NEW t \in Ticks, TickEnds(t) PROVE ActorsGrounded'
  BY <1>t, <1>11 DEF TickEnds, Idle, ActorsGrounded, Steps
<1>12. ASSUME NEW t \in Ticks, NEW d \in pending[t], TickExecutes(t, d) PROVE ActorsGrounded'
  BY <1>t, <1>12 DEF TickExecutes, Idle, ActorsGrounded, PendingGrounded, TypeOK, Snapshot, Steps
<1>13. ASSUME NEW m \in Triggers, NEW s \in Schedules, Trigger(m, s) PROVE ActorsGrounded'
  BY <1>t, <1>13 DEF Trigger, Idle, ActorsGrounded, TypeOK, Schedule, Steps
<1>14. ASSUME NEW a \in Actors, NEW r \in Runs, Start(a, r) PROVE ActorsGrounded'
  BY <1>t, <1>14 DEF Start, ActorsGrounded, RunsGrounded, InHand, Steps
<1>15. ASSUME NEW a \in Actors, StartFails(a) PROVE ActorsGrounded'
  BY <1>t, <1>15 DEF StartFails, Returns, Idle, ActorsGrounded, Steps
<1>16. ASSUME NEW a \in Actors, NEW hit \in BOOLEAN, Query(a, hit) PROVE ActorsGrounded'
  BY <1>t, <1>16 DEF Query, ActorsGrounded, Steps
<1>17. ASSUME NEW a \in Actors, MakeMission(a) PROVE ActorsGrounded'
  BY <1>t, <1>17 DEF MakeMission, Goes, ActorsGrounded, Steps
<1>18. ASSUME NEW a \in Actors, AttachEvidence(a) PROVE ActorsGrounded'
  BY <1>t, <1>18 DEF AttachEvidence, Goes, ActorsGrounded, Steps
<1>19. ASSUME NEW a \in Actors, FinishRun(a) PROVE ActorsGrounded'
  BY <1>t, <1>19 DEF FinishRun, Goes, ActorsGrounded, Steps
<1>20. ASSUME NEW a \in Actors, ReadCron(a) PROVE ActorsGrounded'
  BY <1>t, <1>20 DEF ReadCron, ActorsGrounded, TypeOK, Schedule, Steps
<1>21. ASSUME NEW a \in Actors, Reschedule(a) PROVE ActorsGrounded'
  <2> DEFINE s == actor[a].s
  <2>1. /\ s \in Schedules
        /\ \A z \in Schedules: sched[z].occ \in Nat /\ sched'[z].occ \in Nat
        /\ \A z \in Schedules: sched[z].occ <= sched'[z].occ /\ sched'[z].cron = sched[z].cron
        /\ sched'[s].occ # 0
        /\ \A z \in Schedules \ {s}: sched'[z] = sched[z]
    <3>1. /\ s \in Schedules /\ sched \in [Schedules -> Schedule] /\ sched' \in [Schedules -> Schedule]
          /\ sched'[s].cron = sched[s].cron /\ sched'[s].occ = sched[s].occ + 1
          /\ \A z \in Schedules \ {s}: sched'[z] = sched[z]
      BY <1>t, <1>21, Rescheduled DEF TypeOK
    <3> HIDE DEF s
    <3>2. \A z \in Schedules: sched[z].occ \in Nat /\ sched'[z].occ \in Nat
      BY <3>1 DEF Schedule
    <3>3. sched[s].occ <= sched'[s].occ /\ sched'[s].occ # 0
      BY <3>1, <3>2
    <3>4. \A z \in Schedules: sched[z].occ <= sched[z].occ
      BY <3>2
    <3>5. QED
      BY <3>1, <3>2
  <2>2. UNCHANGED raced
    BY <1>21 DEF Reschedule
  <2>3. \A b \in Actors: actor[b].occ \in Nat
    BY <1>t DEF TypeOK, Actor
  <2>4. /\ actor'[a].at \in {"idle", "loop"} /\ actor'[a].run = None
        /\ \A b \in Actors \ {a}: actor'[b] = actor[b]
    BY <1>t, <1>21, Returned DEF Reschedule
  <2> HIDE DEF s
  <2>5. QED
    BY <1>t, <2>1, <2>2, <2>3, <2>4 DEF ActorsGrounded, Steps
<1>22. ASSUME NEW a \in Actors, Throws(a) PROVE ActorsGrounded'
  BY <1>t, <1>22 DEF Throws, Goes, ActorsGrounded, Steps
<1>23. ASSUME NEW a \in Actors, FailRun(a) PROVE ActorsGrounded'
  BY <1>t, <1>23 DEF FailRun, Goes, ActorsGrounded, Steps
<1>24. ASSUME NEW a \in Actors, FailSchedule(a) PROVE ActorsGrounded'
  BY <1>t, <1>24 DEF FailSchedule, Returns, Idle, ActorsGrounded, Steps
<1>25. ASSUME NEW a \in Actors, CatchThrows(a) PROVE ActorsGrounded'
  BY <1>t, <1>25 DEF CatchThrows, Returns, Idle, ActorsGrounded, Steps
<1>26. ASSUME Crash PROVE ActorsGrounded'
  BY <1>t, <1>26 DEF Crash, Idle, ActorsGrounded, Steps
<1>27. ASSUME UNCHANGED vars PROVE ActorsGrounded'
  BY <1>t, <1>27 DEF vars, ActorsGrounded
<1>28. ASSUME NEW s \in Schedules, UpdateBlank(s) PROVE ActorsGrounded'
  <2>1. /\ \A z \in Schedules: sched'[z].exists = sched[z].exists /\ sched'[z].occ = sched[z].occ
        /\ \A z \in Schedules \ {s}: sched'[z] = sched[z]
    BY <1>t, <1>28, Blanked
  <2>2. /\ UNCHANGED actor /\ raced \subseteq raced'
        /\ \A a \in Actors: actor[a].at = "reschedule" /\ actor[a].s = s => s \in raced'
    BY <1>28 DEF UpdateBlank, Rescheduling
  <2>3. QED
    BY <1>t, <2>1, <2>2 DEF ActorsGrounded, Steps
<1>29. QED
  BY <1>1, <1>2, <1>3, <1>4, <1>5, <1>6, <1>7, <1>8, <1>9, <1>10, <1>11, <1>12, <1>13, <1>14,
     <1>15, <1>16, <1>17, <1>18, <1>19, <1>20, <1>21, <1>22, <1>23, <1>24, <1>25, <1>26, <1>27,
     <1>28
    DEF Next, ScheduleStep, TickStep, RunStep

\* Every step keeps RunsGrounded.
LEMMA Step_RunsGrounded == IInv /\ [Next]_vars => RunsGrounded'
<1> SUFFICES ASSUME IInv, [Next]_vars PROVE RunsGrounded'
  OBVIOUS
<1>t. /\ TypeOK /\ ActorsGrounded /\ RunsGrounded /\ RunsOwned /\ MissionsAccounted
      /\ NextRunFollowsCron /\ OneTick /\ PendingGrounded /\ OccurrencesGrounded
  BY DEF IInv
<1> USE SchedulerAssumption DEF books, Actors
<1>1. ASSUME NEW s \in Schedules, NEW cron \in Crons, NEW enabled \in BOOLEAN,
             NEW auto \in BOOLEAN, CreateSchedule(s, cron, enabled, auto)
      PROVE  RunsGrounded'
  BY <1>t, <1>1 DEF CreateSchedule, RunsGrounded, InHand
<1>2. ASSUME NEW s \in Schedules, NEW enabled \in BOOLEAN, NEW auto \in BOOLEAN, UpdateFlags(s,
             enabled, auto)
      PROVE  RunsGrounded'
  BY <1>t, <1>2 DEF UpdateFlags, RunsGrounded, InHand
<1>3. ASSUME NEW s \in Schedules, NEW cron \in Crons, UpdateCron(s, cron) PROVE RunsGrounded'
  BY <1>t, <1>3 DEF UpdateCron, RunsGrounded, InHand, ActorsGrounded
<1>4. ASSUME NEW s \in Schedules, DeleteSchedule(s) PROVE RunsGrounded'
  BY <1>t, <1>4 DEF DeleteSchedule, RunsGrounded, InHand, ActorsGrounded
<1>5. ASSUME NEW s \in Schedules, BecomeDue(s) PROVE RunsGrounded'
  BY <1>t, <1>5 DEF BecomeDue, RunsGrounded, InHand
<1>6. ASSUME NEW r \in Runs, DeleteMission(r) PROVE RunsGrounded'
  BY <1>t, <1>6 DEF DeleteMission, RunsGrounded, InHand, ActorsGrounded
<1>7. ASSUME IntegrationChanges PROVE RunsGrounded'
  BY <1>t, <1>7 DEF IntegrationChanges, RunsGrounded, InHand
<1>8. ASSUME NEW t \in Ticks, TickBegins(t) PROVE RunsGrounded'
  BY <1>t, <1>8 DEF TickBegins, RunsGrounded, InHand, Steps
<1>9. ASSUME NEW t \in Ticks, ReadDue(t) PROVE RunsGrounded'
  BY <1>t, <1>9 DEF ReadDue, RunsGrounded, InHand, Steps
<1>10. ASSUME NEW t \in Ticks, ReadDueFails(t) PROVE RunsGrounded'
  BY <1>t, <1>10 DEF ReadDueFails, RunsGrounded, InHand, Steps
<1>11. ASSUME NEW t \in Ticks, TickEnds(t) PROVE RunsGrounded'
  <2>1. /\ actor'[t].at \notin Steps
        /\ \A b \in Actors \ {t}: actor'[b] = actor[b]
    BY <1>t, <1>11 DEF TickEnds, Idle, Steps, TypeOK
  <2>2. UNCHANGED run
    BY <1>11 DEF TickEnds
  <2>3. QED
    BY <1>t, <2>1, <2>2 DEF RunsGrounded, InHand
<1>12. ASSUME NEW t \in Ticks, NEW d \in pending[t], TickExecutes(t, d) PROVE RunsGrounded'
  BY <1>t, <1>12 DEF TickExecutes, RunsGrounded, InHand, Steps
<1>13. ASSUME NEW m \in Triggers, NEW s \in Schedules, Trigger(m, s) PROVE RunsGrounded'
  BY <1>t, <1>13 DEF Trigger, RunsGrounded, InHand, Steps
<1>14. ASSUME NEW a \in Actors, NEW r \in Runs, Start(a, r) PROVE RunsGrounded'
  BY <1>t, <1>14 DEF Start, RunsGrounded, InHand, ActorsGrounded, TypeOK
<1>15. ASSUME NEW a \in Actors, StartFails(a) PROVE RunsGrounded'
  <2>1. /\ actor'[a].at \notin Steps
        /\ \A b \in Actors \ {a}: actor'[b] = actor[b]
    BY <1>t, <1>15, Returned DEF StartFails, Steps
  <2>2. UNCHANGED run
    BY <1>15 DEF StartFails
  <2>3. QED
    BY <1>t, <2>1, <2>2 DEF RunsGrounded, InHand
<1>16. ASSUME NEW a \in Actors, NEW hit \in BOOLEAN, Query(a, hit) PROVE RunsGrounded'
  BY <1>t, <1>16 DEF Query, RunsGrounded, InHand, Steps
<1>17. ASSUME NEW a \in Actors, MakeMission(a) PROVE RunsGrounded'
  <2> DEFINE r == actor[a].run
  <2>1. r \in Runs /\ run[r] \in Run /\ InHand(a, run[r])
    BY <1>t, <1>17 DEF MakeMission, ActorsGrounded, RunsGrounded, Steps, TypeOK
  <2>2. /\ run'[r] = [run[r] EXCEPT !.mission = "made"]
        /\ \A q \in Runs \ {r}: run'[q] = run[q]
    BY <1>t, <1>17, <2>1 DEF MakeMission, TypeOK
  <2>3. /\ actor'[a] = [actor[a] EXCEPT !.at = "evidence"] /\ actor[a] \in Actor
        /\ \A b \in Actors \ {a}: actor'[b] = actor[b]
    BY <1>t, <1>17 DEF MakeMission, Goes, TypeOK
  <2>4. ASSUME NEW b \in Actors \ {a}, actor'[b].at \in Steps PROVE InHand(b, run[actor[b].run])'
    <3>1. actor[b].run \in Runs \ {r} /\ InHand(b, run[actor[b].run])
      BY <1>t, <2>3, <2>4 DEF ActorsGrounded, RunsGrounded
    <3>2. QED
      BY <2>2, <2>3, <3>1 DEF InHand
  <2>5. InHand(a, run[r])'
    BY <1>17, <2>1, <2>2, <2>3 DEF MakeMission, InHand, Run
  <2>6. QED
    BY <1>t, <2>1, <2>2, <2>4, <2>5 DEF RunsGrounded, Run, Actor
<1>18. ASSUME NEW a \in Actors, AttachEvidence(a) PROVE RunsGrounded'
  BY <1>t, <1>18 DEF AttachEvidence, Goes, RunsGrounded, InHand, Steps
<1>19. ASSUME NEW a \in Actors, FinishRun(a) PROVE RunsGrounded'
  <2> DEFINE r == actor[a].run
  <2>1. r \in Runs /\ run[r] \in Run /\ InHand(a, run[r])
    BY <1>t, <1>19 DEF FinishRun, ActorsGrounded, RunsGrounded, Steps, TypeOK
  <2>2. /\ run'[r] = [run[r] EXCEPT !.status = IF actor[a].hit THEN "SUCCESS" ELSE "NO_RESULTS",
                                    !.linked = actor[a].hit /\ actor[a].auto]
        /\ \A q \in Runs \ {r}: run'[q] = run[q]
    BY <1>t, <1>19, <2>1 DEF FinishRun, TypeOK
  <2>3. /\ actor'[a] = [actor[a] EXCEPT !.at = "readCron"] /\ actor[a] \in Actor
        /\ \A b \in Actors \ {a}: actor'[b] = actor[b]
    BY <1>t, <1>19 DEF FinishRun, Goes, TypeOK
  <2>4. ASSUME NEW b \in Actors \ {a}, actor'[b].at \in Steps PROVE InHand(b, run[actor[b].run])'
    <3>1. actor[b].run \in Runs \ {r} /\ InHand(b, run[actor[b].run])
      BY <1>t, <2>3, <2>4 DEF ActorsGrounded, RunsGrounded
    <3>2. QED
      BY <2>2, <2>3, <3>1 DEF InHand
  <2>5. InHand(a, run[r])' /\ actor'[a].run = r
    <3>1. run[r].status = "RUNNING" /\ (run[r].mission # "none" <=> actor[a].hit /\ actor[a].auto)
      BY <1>19, <2>1 DEF FinishRun, InHand
    <3>2. /\ run'[r].status \in Completed
          /\ \A f \in {"s", "occ", "auto", "byCron", "mission"}: run'[r][f] = run[r][f]
          /\ actor'[a].at = "readCron"
          /\ \A f \in {"s", "occ", "auto", "run"}: actor'[a][f] = actor[a][f]
      BY <2>1, <2>2, <2>3 DEF Run, Completed, Actor
    <3>3. QED
      BY <2>1, <3>1, <3>2 DEF InHand, Completed
  <2>6. ASSUME NEW q \in Runs, run'[q].status # "unused" PROVE run'[q].s \in Schedules
    <3>1. run[q].status # "unused" /\ run'[q].s = run[q].s
      BY <2>1, <2>2, <2>6, ZenonT(60) DEF InHand, Run
    <3>2. QED
      BY <1>t, <3>1 DEF RunsGrounded
  <2>7. QED
    BY <2>4, <2>5, <2>6 DEF RunsGrounded
<1>20. ASSUME NEW a \in Actors, ReadCron(a) PROVE RunsGrounded'
  BY <1>t, <1>20 DEF ReadCron, RunsGrounded, InHand, Steps
<1>21. ASSUME NEW a \in Actors, Reschedule(a) PROVE RunsGrounded'
  <2>1. /\ actor'[a].at \notin Steps
        /\ \A b \in Actors \ {a}: actor'[b] = actor[b]
    BY <1>t, <1>21, Returned DEF Reschedule, Steps
  <2>2. UNCHANGED run
    BY <1>21 DEF Reschedule
  <2>3. QED
    BY <1>t, <2>1, <2>2 DEF RunsGrounded, InHand
<1>22. ASSUME NEW a \in Actors, Throws(a) PROVE RunsGrounded'
  BY <1>t, <1>22 DEF Throws, Goes, RunsGrounded, InHand, Steps
<1>23. ASSUME NEW a \in Actors, FailRun(a) PROVE RunsGrounded'
  <2> DEFINE r == actor[a].run
  <2>1. r \in Runs /\ run[r] \in Run /\ InHand(a, run[r])
    BY <1>t, <1>23 DEF FailRun, ActorsGrounded, RunsGrounded, Steps, TypeOK
  <2>2. /\ run'[r] = [run[r] EXCEPT !.status = "FAILED"]
        /\ \A q \in Runs \ {r}: run'[q] = run[q]
    BY <1>t, <1>23, <2>1 DEF FailRun, TypeOK
  <2>3. /\ actor'[a] = [actor[a] EXCEPT !.at = "failSchedule"] /\ actor[a] \in Actor
        /\ \A b \in Actors \ {a}: actor'[b] = actor[b]
    BY <1>t, <1>23 DEF FailRun, Goes, TypeOK
  <2>4. ASSUME NEW b \in Actors \ {a}, actor'[b].at \in Steps PROVE InHand(b, run[actor[b].run])'
    <3>1. actor[b].run \in Runs \ {r} /\ InHand(b, run[actor[b].run])
      BY <1>t, <2>3, <2>4 DEF ActorsGrounded, RunsGrounded
    <3>2. QED
      BY <2>2, <2>3, <3>1 DEF InHand
  <2>5. InHand(a, run[r])' /\ actor'[a].run = r
    BY <1>23, <2>1, <2>2, <2>3 DEF FailRun, InHand, Run, Completed, Actor
  <2>6. ASSUME NEW q \in Runs, run'[q].status # "unused" PROVE run'[q].s \in Schedules
    <3>1. run[q].status # "unused" /\ run'[q].s = run[q].s
      BY <2>1, <2>2, <2>6 DEF InHand, Run
    <3>2. QED
      BY <1>t, <3>1 DEF RunsGrounded
  <2>7. QED
    BY <2>4, <2>5, <2>6 DEF RunsGrounded
<1>24. ASSUME NEW a \in Actors, FailSchedule(a) PROVE RunsGrounded'
  <2>1. /\ actor'[a].at \notin Steps
        /\ \A b \in Actors \ {a}: actor'[b] = actor[b]
    BY <1>t, <1>24, Returned DEF FailSchedule, Steps
  <2>2. UNCHANGED run
    BY <1>24 DEF FailSchedule
  <2>3. QED
    BY <1>t, <2>1, <2>2 DEF RunsGrounded, InHand
<1>25. ASSUME NEW a \in Actors, CatchThrows(a) PROVE RunsGrounded'
  <2>1. /\ actor'[a].at \notin Steps
        /\ \A b \in Actors \ {a}: actor'[b] = actor[b]
    BY <1>t, <1>25, Returned DEF CatchThrows, Steps
  <2>2. UNCHANGED run
    BY <1>25 DEF CatchThrows
  <2>3. QED
    BY <1>t, <2>1, <2>2 DEF RunsGrounded, InHand
<1>26. ASSUME Crash PROVE RunsGrounded'
  BY <1>t, <1>26 DEF Crash, Idle, RunsGrounded, Steps
<1>27. ASSUME UNCHANGED vars PROVE RunsGrounded'
  BY <1>t, <1>27 DEF vars, RunsGrounded, InHand
<1>28. ASSUME NEW s \in Schedules, UpdateBlank(s) PROVE RunsGrounded'
  BY <1>t, <1>28 DEF UpdateBlank, RunsGrounded, InHand, ActorsGrounded
<1>29. QED
  BY <1>1, <1>2, <1>3, <1>4, <1>5, <1>6, <1>7, <1>8, <1>9, <1>10, <1>11, <1>12, <1>13, <1>14,
     <1>15, <1>16, <1>17, <1>18, <1>19, <1>20, <1>21, <1>22, <1>23, <1>24, <1>25, <1>26, <1>27,
     <1>28
    DEF Next, ScheduleStep, TickStep, RunStep

\* Every step keeps RunsOwned.
LEMMA Step_RunsOwned == IInv /\ [Next]_vars => RunsOwned'
<1> SUFFICES ASSUME IInv, [Next]_vars PROVE RunsOwned'
  OBVIOUS
<1>t. /\ TypeOK /\ ActorsGrounded /\ RunsGrounded /\ RunsOwned /\ MissionsAccounted
      /\ NextRunFollowsCron /\ OneTick /\ PendingGrounded /\ OccurrencesGrounded
  BY DEF IInv
<1> USE SchedulerAssumption DEF books, Actors
<1>1. ASSUME NEW s \in Schedules, NEW cron \in Crons, NEW enabled \in BOOLEAN,
             NEW auto \in BOOLEAN, CreateSchedule(s, cron, enabled, auto)
      PROVE  RunsOwned'
  BY <1>t, <1>1 DEF CreateSchedule, RunsOwned
<1>2. ASSUME NEW s \in Schedules, NEW enabled \in BOOLEAN, NEW auto \in BOOLEAN, UpdateFlags(s,
             enabled, auto)
      PROVE  RunsOwned'
  BY <1>t, <1>2 DEF UpdateFlags, RunsOwned
<1>3. ASSUME NEW s \in Schedules, NEW cron \in Crons, UpdateCron(s, cron) PROVE RunsOwned'
  BY <1>t, <1>3 DEF UpdateCron, RunsOwned
<1>4. ASSUME NEW s \in Schedules, DeleteSchedule(s) PROVE RunsOwned'
  BY <1>t, <1>4 DEF DeleteSchedule, RunsOwned
<1>5. ASSUME NEW s \in Schedules, BecomeDue(s) PROVE RunsOwned'
  BY <1>t, <1>5 DEF BecomeDue, RunsOwned
<1>6. ASSUME NEW r \in Runs, DeleteMission(r) PROVE RunsOwned'
  BY <1>t, <1>6 DEF DeleteMission, RunsOwned
<1>7. ASSUME IntegrationChanges PROVE RunsOwned'
  BY <1>t, <1>7 DEF IntegrationChanges, RunsOwned
<1>8. ASSUME NEW t \in Ticks, TickBegins(t) PROVE RunsOwned'
  BY <1>t, <1>8 DEF TickBegins, RunsOwned
<1>9. ASSUME NEW t \in Ticks, ReadDue(t) PROVE RunsOwned'
  BY <1>t, <1>9 DEF ReadDue, RunsOwned
<1>10. ASSUME NEW t \in Ticks, ReadDueFails(t) PROVE RunsOwned'
  BY <1>t, <1>10 DEF ReadDueFails, RunsOwned
<1>11. ASSUME NEW t \in Ticks, TickEnds(t) PROVE RunsOwned'
  BY <1>t, <1>11 DEF TickEnds, RunsOwned, ActorsGrounded, Steps
<1>12. ASSUME NEW t \in Ticks, NEW d \in pending[t], TickExecutes(t, d) PROVE RunsOwned'
  BY <1>t, <1>12 DEF TickExecutes, RunsOwned, ActorsGrounded, Steps
<1>13. ASSUME NEW m \in Triggers, NEW s \in Schedules, Trigger(m, s) PROVE RunsOwned'
  BY <1>t, <1>13 DEF Trigger, RunsOwned, ActorsGrounded, Steps
<1>14. ASSUME NEW a \in Actors, NEW r \in Runs, Start(a, r) PROVE RunsOwned'
  BY <1>t, <1>14 DEF Start, RunsOwned, ActorsGrounded, TypeOK, Steps
<1>15. ASSUME NEW a \in Actors, StartFails(a) PROVE RunsOwned'
  BY <1>t, <1>15 DEF StartFails, Returns, RunsOwned, ActorsGrounded, Steps
<1>16. ASSUME NEW a \in Actors, NEW hit \in BOOLEAN, Query(a, hit) PROVE RunsOwned'
  BY <1>t, <1>16 DEF Query, RunsOwned
<1>17. ASSUME NEW a \in Actors, MakeMission(a) PROVE RunsOwned'
  BY <1>t, <1>17 DEF MakeMission, Goes, RunsOwned
<1>18. ASSUME NEW a \in Actors, AttachEvidence(a) PROVE RunsOwned'
  BY <1>t, <1>18 DEF AttachEvidence, Goes, RunsOwned
<1>19. ASSUME NEW a \in Actors, FinishRun(a) PROVE RunsOwned'
  BY <1>t, <1>19 DEF FinishRun, Goes, RunsOwned
<1>20. ASSUME NEW a \in Actors, ReadCron(a) PROVE RunsOwned'
  BY <1>t, <1>20 DEF ReadCron, RunsOwned
<1>21. ASSUME NEW a \in Actors, Reschedule(a) PROVE RunsOwned'
  BY <1>t, <1>21 DEF Reschedule, Returns, RunsOwned, RunsGrounded, InHand, Completed, Steps
<1>22. ASSUME NEW a \in Actors, Throws(a) PROVE RunsOwned'
  BY <1>t, <1>22 DEF Throws, Goes, RunsOwned
<1>23. ASSUME NEW a \in Actors, FailRun(a) PROVE RunsOwned'
  BY <1>t, <1>23 DEF FailRun, Goes, RunsOwned
<1>24. ASSUME NEW a \in Actors, FailSchedule(a) PROVE RunsOwned'
  BY <1>t, <1>24 DEF FailSchedule, Returns, RunsOwned, RunsGrounded, InHand, Steps
<1>25. ASSUME NEW a \in Actors, CatchThrows(a) PROVE RunsOwned'
  BY <1>t, <1>25 DEF CatchThrows, Returns, RunsOwned
<1>26. ASSUME Crash PROVE RunsOwned'
  BY <1>t, <1>26 DEF Crash, RunsOwned
<1>27. ASSUME UNCHANGED vars PROVE RunsOwned'
  BY <1>t, <1>27 DEF vars, RunsOwned
<1>28. ASSUME NEW s \in Schedules, UpdateBlank(s) PROVE RunsOwned'
  BY <1>t, <1>28 DEF UpdateBlank, RunsOwned
<1>29. QED
  BY <1>1, <1>2, <1>3, <1>4, <1>5, <1>6, <1>7, <1>8, <1>9, <1>10, <1>11, <1>12, <1>13, <1>14,
     <1>15, <1>16, <1>17, <1>18, <1>19, <1>20, <1>21, <1>22, <1>23, <1>24, <1>25, <1>26, <1>27,
     <1>28
    DEF Next, ScheduleStep, TickStep, RunStep

\* Every step keeps MissionsAccounted.
LEMMA Step_MissionsAccounted == IInv /\ [Next]_vars => MissionsAccounted'
<1> SUFFICES ASSUME IInv, [Next]_vars PROVE MissionsAccounted'
  OBVIOUS
<1>t. /\ TypeOK /\ ActorsGrounded /\ RunsGrounded /\ RunsOwned /\ MissionsAccounted
      /\ NextRunFollowsCron /\ OneTick /\ PendingGrounded /\ OccurrencesGrounded
  BY DEF IInv
<1> USE SchedulerAssumption DEF books, Actors
<1>1. ASSUME NEW s \in Schedules, NEW cron \in Crons, NEW enabled \in BOOLEAN,
             NEW auto \in BOOLEAN, CreateSchedule(s, cron, enabled, auto)
      PROVE  MissionsAccounted'
  BY <1>t, <1>1 DEF CreateSchedule, MissionsAccounted
<1>2. ASSUME NEW s \in Schedules, NEW enabled \in BOOLEAN, NEW auto \in BOOLEAN, UpdateFlags(s,
             enabled, auto)
      PROVE  MissionsAccounted'
  BY <1>t, <1>2 DEF UpdateFlags, MissionsAccounted
<1>3. ASSUME NEW s \in Schedules, NEW cron \in Crons, UpdateCron(s, cron) PROVE MissionsAccounted'
  BY <1>t, <1>3 DEF UpdateCron, MissionsAccounted
<1>4. ASSUME NEW s \in Schedules, DeleteSchedule(s) PROVE MissionsAccounted'
  BY <1>t, <1>4 DEF DeleteSchedule, MissionsAccounted
<1>5. ASSUME NEW s \in Schedules, BecomeDue(s) PROVE MissionsAccounted'
  BY <1>t, <1>5 DEF BecomeDue, MissionsAccounted
<1>6. ASSUME NEW r \in Runs, DeleteMission(r) PROVE MissionsAccounted'
  BY <1>t, <1>6 DEF DeleteMission, MissionsAccounted
<1>7. ASSUME IntegrationChanges PROVE MissionsAccounted'
  BY <1>t, <1>7 DEF IntegrationChanges, MissionsAccounted
<1>8. ASSUME NEW t \in Ticks, TickBegins(t) PROVE MissionsAccounted'
  BY <1>t, <1>8 DEF TickBegins, MissionsAccounted
<1>9. ASSUME NEW t \in Ticks, ReadDue(t) PROVE MissionsAccounted'
  BY <1>t, <1>9 DEF ReadDue, MissionsAccounted
<1>10. ASSUME NEW t \in Ticks, ReadDueFails(t) PROVE MissionsAccounted'
  BY <1>t, <1>10 DEF ReadDueFails, MissionsAccounted
<1>11. ASSUME NEW t \in Ticks, TickEnds(t) PROVE MissionsAccounted'
  BY <1>t, <1>11 DEF TickEnds, MissionsAccounted
<1>12. ASSUME NEW t \in Ticks, NEW d \in pending[t], TickExecutes(t, d) PROVE MissionsAccounted'
  BY <1>t, <1>12 DEF TickExecutes, MissionsAccounted
<1>13. ASSUME NEW m \in Triggers, NEW s \in Schedules, Trigger(m, s) PROVE MissionsAccounted'
  BY <1>t, <1>13 DEF Trigger, MissionsAccounted
<1>14. ASSUME NEW a \in Actors, NEW r \in Runs, Start(a, r) PROVE MissionsAccounted'
  BY <1>t, <1>14 DEF Start, MissionsAccounted
<1>15. ASSUME NEW a \in Actors, StartFails(a) PROVE MissionsAccounted'
  BY <1>t, <1>15 DEF StartFails, MissionsAccounted
<1>16. ASSUME NEW a \in Actors, NEW hit \in BOOLEAN, Query(a, hit) PROVE MissionsAccounted'
  BY <1>t, <1>16 DEF Query, MissionsAccounted
<1>17. ASSUME NEW a \in Actors, MakeMission(a) PROVE MissionsAccounted'
  BY <1>t, <1>17 DEF MakeMission, MissionsAccounted, RunsGrounded, InHand, ActorsGrounded
<1>18. ASSUME NEW a \in Actors, AttachEvidence(a) PROVE MissionsAccounted'
  BY <1>t, <1>18 DEF AttachEvidence, MissionsAccounted
<1>19. ASSUME NEW a \in Actors, FinishRun(a) PROVE MissionsAccounted'
  BY <1>t, <1>19 DEF FinishRun, MissionsAccounted, RunsGrounded, InHand, TypeOK, Actor
<1>20. ASSUME NEW a \in Actors, ReadCron(a) PROVE MissionsAccounted'
  BY <1>t, <1>20 DEF ReadCron, MissionsAccounted
<1>21. ASSUME NEW a \in Actors, Reschedule(a) PROVE MissionsAccounted'
  BY <1>t, <1>21 DEF Reschedule, MissionsAccounted
<1>22. ASSUME NEW a \in Actors, Throws(a) PROVE MissionsAccounted'
  BY <1>t, <1>22 DEF Throws, MissionsAccounted
<1>23. ASSUME NEW a \in Actors, FailRun(a) PROVE MissionsAccounted'
  BY <1>t, <1>23 DEF FailRun, MissionsAccounted
<1>24. ASSUME NEW a \in Actors, FailSchedule(a) PROVE MissionsAccounted'
  BY <1>t, <1>24 DEF FailSchedule, MissionsAccounted
<1>25. ASSUME NEW a \in Actors, CatchThrows(a) PROVE MissionsAccounted'
  BY <1>t, <1>25 DEF CatchThrows, MissionsAccounted
<1>26. ASSUME Crash PROVE MissionsAccounted'
  BY <1>t, <1>26 DEF Crash, MissionsAccounted
<1>27. ASSUME UNCHANGED vars PROVE MissionsAccounted'
  BY <1>t, <1>27 DEF vars, MissionsAccounted
<1>28. ASSUME NEW s \in Schedules, UpdateBlank(s) PROVE MissionsAccounted'
  BY <1>t, <1>28 DEF UpdateBlank, MissionsAccounted
<1>29. QED
  BY <1>1, <1>2, <1>3, <1>4, <1>5, <1>6, <1>7, <1>8, <1>9, <1>10, <1>11, <1>12, <1>13, <1>14,
     <1>15, <1>16, <1>17, <1>18, <1>19, <1>20, <1>21, <1>22, <1>23, <1>24, <1>25, <1>26, <1>27,
     <1>28
    DEF Next, ScheduleStep, TickStep, RunStep

\* Every step keeps NextRunFollowsCron.
LEMMA Step_NextRunFollowsCron == IInv /\ [Next]_vars => NextRunFollowsCron'
<1> SUFFICES ASSUME IInv, [Next]_vars PROVE NextRunFollowsCron'
  OBVIOUS
<1>t. /\ TypeOK /\ ActorsGrounded /\ RunsGrounded /\ RunsOwned /\ MissionsAccounted
      /\ NextRunFollowsCron /\ OneTick /\ PendingGrounded /\ OccurrencesGrounded
  BY DEF IInv
<1> USE SchedulerAssumption DEF books, Actors
<1>1. ASSUME NEW s \in Schedules, NEW cron \in Crons, NEW enabled \in BOOLEAN,
             NEW auto \in BOOLEAN, CreateSchedule(s, cron, enabled, auto)
      PROVE  NextRunFollowsCron'
  BY <1>t, <1>1 DEF CreateSchedule, NextRunFollowsCron
<1>2. ASSUME NEW s \in Schedules, NEW enabled \in BOOLEAN, NEW auto \in BOOLEAN, UpdateFlags(s,
             enabled, auto)
      PROVE  NextRunFollowsCron'
  BY <1>t, <1>2 DEF UpdateFlags, NextRunFollowsCron
<1>3. ASSUME NEW s \in Schedules, NEW cron \in Crons, UpdateCron(s, cron)
      PROVE  NextRunFollowsCron'
  BY <1>t, <1>3 DEF UpdateCron, NextRunFollowsCron
<1>4. ASSUME NEW s \in Schedules, DeleteSchedule(s) PROVE NextRunFollowsCron'
  BY <1>t, <1>4 DEF DeleteSchedule, NextRunFollowsCron
<1>5. ASSUME NEW s \in Schedules, BecomeDue(s) PROVE NextRunFollowsCron'
  BY <1>t, <1>5 DEF BecomeDue, NextRunFollowsCron
<1>6. ASSUME NEW r \in Runs, DeleteMission(r) PROVE NextRunFollowsCron'
  BY <1>t, <1>6 DEF DeleteMission, NextRunFollowsCron
<1>7. ASSUME IntegrationChanges PROVE NextRunFollowsCron'
  BY <1>t, <1>7 DEF IntegrationChanges, NextRunFollowsCron
<1>8. ASSUME NEW t \in Ticks, TickBegins(t) PROVE NextRunFollowsCron'
  BY <1>t, <1>8 DEF TickBegins, NextRunFollowsCron
<1>9. ASSUME NEW t \in Ticks, ReadDue(t) PROVE NextRunFollowsCron'
  BY <1>t, <1>9 DEF ReadDue, NextRunFollowsCron
<1>10. ASSUME NEW t \in Ticks, ReadDueFails(t) PROVE NextRunFollowsCron'
  BY <1>t, <1>10 DEF ReadDueFails, NextRunFollowsCron
<1>11. ASSUME NEW t \in Ticks, TickEnds(t) PROVE NextRunFollowsCron'
  BY <1>t, <1>11 DEF TickEnds, NextRunFollowsCron
<1>12. ASSUME NEW t \in Ticks, NEW d \in pending[t], TickExecutes(t, d) PROVE NextRunFollowsCron'
  BY <1>t, <1>12 DEF TickExecutes, NextRunFollowsCron
<1>13. ASSUME NEW m \in Triggers, NEW s \in Schedules, Trigger(m, s) PROVE NextRunFollowsCron'
  BY <1>t, <1>13 DEF Trigger, NextRunFollowsCron
<1>14. ASSUME NEW a \in Actors, NEW r \in Runs, Start(a, r) PROVE NextRunFollowsCron'
  BY <1>t, <1>14 DEF Start, NextRunFollowsCron
<1>15. ASSUME NEW a \in Actors, StartFails(a) PROVE NextRunFollowsCron'
  BY <1>t, <1>15 DEF StartFails, NextRunFollowsCron
<1>16. ASSUME NEW a \in Actors, NEW hit \in BOOLEAN, Query(a, hit) PROVE NextRunFollowsCron'
  BY <1>t, <1>16 DEF Query, NextRunFollowsCron
<1>17. ASSUME NEW a \in Actors, MakeMission(a) PROVE NextRunFollowsCron'
  BY <1>t, <1>17 DEF MakeMission, NextRunFollowsCron
<1>18. ASSUME NEW a \in Actors, AttachEvidence(a) PROVE NextRunFollowsCron'
  BY <1>t, <1>18 DEF AttachEvidence, NextRunFollowsCron
<1>19. ASSUME NEW a \in Actors, FinishRun(a) PROVE NextRunFollowsCron'
  BY <1>t, <1>19 DEF FinishRun, NextRunFollowsCron
<1>20. ASSUME NEW a \in Actors, ReadCron(a) PROVE NextRunFollowsCron'
  BY <1>t, <1>20 DEF ReadCron, NextRunFollowsCron
<1>21. ASSUME NEW a \in Actors, Reschedule(a) PROVE NextRunFollowsCron'
  BY <1>t, <1>21 DEF Reschedule, NextRunFollowsCron, ActorsGrounded
<1>22. ASSUME NEW a \in Actors, Throws(a) PROVE NextRunFollowsCron'
  BY <1>t, <1>22 DEF Throws, NextRunFollowsCron
<1>23. ASSUME NEW a \in Actors, FailRun(a) PROVE NextRunFollowsCron'
  BY <1>t, <1>23 DEF FailRun, NextRunFollowsCron
<1>24. ASSUME NEW a \in Actors, FailSchedule(a) PROVE NextRunFollowsCron'
  BY <1>t, <1>24 DEF FailSchedule, NextRunFollowsCron
<1>25. ASSUME NEW a \in Actors, CatchThrows(a) PROVE NextRunFollowsCron'
  BY <1>t, <1>25 DEF CatchThrows, NextRunFollowsCron
<1>26. ASSUME Crash PROVE NextRunFollowsCron'
  BY <1>t, <1>26 DEF Crash, NextRunFollowsCron
<1>27. ASSUME UNCHANGED vars PROVE NextRunFollowsCron'
  BY <1>t, <1>27 DEF vars, NextRunFollowsCron
<1>28. ASSUME NEW s \in Schedules, UpdateBlank(s) PROVE NextRunFollowsCron'
  <2>1. sched'[s].cron = Blank /\ \A z \in Schedules \ {s}: sched'[z] = sched[z]
    BY <1>t, <1>28, Blanked
  <2>2. raced \subseteq raced'
    BY <1>28 DEF UpdateBlank
  <2>3. QED
    BY <1>t, <2>1, <2>2 DEF NextRunFollowsCron
<1>29. QED
  BY <1>1, <1>2, <1>3, <1>4, <1>5, <1>6, <1>7, <1>8, <1>9, <1>10, <1>11, <1>12, <1>13, <1>14,
     <1>15, <1>16, <1>17, <1>18, <1>19, <1>20, <1>21, <1>22, <1>23, <1>24, <1>25, <1>26, <1>27,
     <1>28
    DEF Next, ScheduleStep, TickStep, RunStep

\* Every step keeps OneTick.
LEMMA Step_OneTick == IInv /\ [Next]_vars => OneTick'
<1> SUFFICES ASSUME IInv, [Next]_vars PROVE OneTick'
  OBVIOUS
<1>t. /\ TypeOK /\ ActorsGrounded /\ RunsGrounded /\ RunsOwned /\ MissionsAccounted
      /\ NextRunFollowsCron /\ OneTick /\ PendingGrounded /\ OccurrencesGrounded
  BY DEF IInv
<1> USE SchedulerAssumption DEF books, Actors
<1>1. ASSUME NEW s \in Schedules, NEW cron \in Crons, NEW enabled \in BOOLEAN,
             NEW auto \in BOOLEAN, CreateSchedule(s, cron, enabled, auto)
      PROVE  OneTick'
  BY <1>t, <1>1 DEF CreateSchedule, OneTick
<1>2. ASSUME NEW s \in Schedules, NEW enabled \in BOOLEAN, NEW auto \in BOOLEAN, UpdateFlags(s,
             enabled, auto)
      PROVE  OneTick'
  BY <1>t, <1>2 DEF UpdateFlags, OneTick
<1>3. ASSUME NEW s \in Schedules, NEW cron \in Crons, UpdateCron(s, cron) PROVE OneTick'
  BY <1>t, <1>3 DEF UpdateCron, OneTick
<1>4. ASSUME NEW s \in Schedules, DeleteSchedule(s) PROVE OneTick'
  BY <1>t, <1>4 DEF DeleteSchedule, OneTick
<1>5. ASSUME NEW s \in Schedules, BecomeDue(s) PROVE OneTick'
  BY <1>t, <1>5 DEF BecomeDue, OneTick
<1>6. ASSUME NEW r \in Runs, DeleteMission(r) PROVE OneTick'
  BY <1>t, <1>6 DEF DeleteMission, OneTick
<1>7. ASSUME IntegrationChanges PROVE OneTick'
  BY <1>t, <1>7 DEF IntegrationChanges, OneTick
<1>8. ASSUME NEW t \in Ticks, TickBegins(t) PROVE OneTick'
  BY <1>t, <1>8 DEF TickBegins, OneTick
<1>9. ASSUME NEW t \in Ticks, ReadDue(t) PROVE OneTick'
  BY <1>t, <1>9 DEF ReadDue, OneTick, TypeOK
<1>10. ASSUME NEW t \in Ticks, ReadDueFails(t) PROVE OneTick'
  BY <1>t, <1>10 DEF ReadDueFails, OneTick
<1>11. ASSUME NEW t \in Ticks, TickEnds(t) PROVE OneTick'
  BY <1>t, <1>11 DEF TickEnds, Idle, OneTick, TypeOK
<1>12. ASSUME NEW t \in Ticks, NEW d \in pending[t], TickExecutes(t, d) PROVE OneTick'
  BY <1>t, <1>12 DEF TickExecutes, OneTick
<1>13. ASSUME NEW m \in Triggers, NEW s \in Schedules, Trigger(m, s) PROVE OneTick'
  BY <1>t, <1>13 DEF Trigger, OneTick
<1>14. ASSUME NEW a \in Actors, NEW r \in Runs, Start(a, r) PROVE OneTick'
  BY <1>t, <1>14 DEF Start, OneTick
<1>15. ASSUME NEW a \in Actors, StartFails(a) PROVE OneTick'
  BY <1>t, <1>15 DEF StartFails, Returns, OneTick
<1>16. ASSUME NEW a \in Actors, NEW hit \in BOOLEAN, Query(a, hit) PROVE OneTick'
  BY <1>t, <1>16 DEF Query, OneTick
<1>17. ASSUME NEW a \in Actors, MakeMission(a) PROVE OneTick'
  BY <1>t, <1>17 DEF MakeMission, Goes, OneTick
<1>18. ASSUME NEW a \in Actors, AttachEvidence(a) PROVE OneTick'
  BY <1>t, <1>18 DEF AttachEvidence, Goes, OneTick
<1>19. ASSUME NEW a \in Actors, FinishRun(a) PROVE OneTick'
  BY <1>t, <1>19 DEF FinishRun, Goes, OneTick
<1>20. ASSUME NEW a \in Actors, ReadCron(a) PROVE OneTick'
  BY <1>t, <1>20 DEF ReadCron, OneTick
<1>21. ASSUME NEW a \in Actors, Reschedule(a) PROVE OneTick'
  BY <1>t, <1>21 DEF Reschedule, Returns, OneTick
<1>22. ASSUME NEW a \in Actors, Throws(a) PROVE OneTick'
  BY <1>t, <1>22 DEF Throws, Goes, OneTick
<1>23. ASSUME NEW a \in Actors, FailRun(a) PROVE OneTick'
  BY <1>t, <1>23 DEF FailRun, Goes, OneTick
<1>24. ASSUME NEW a \in Actors, FailSchedule(a) PROVE OneTick'
  BY <1>t, <1>24 DEF FailSchedule, Returns, OneTick
<1>25. ASSUME NEW a \in Actors, CatchThrows(a) PROVE OneTick'
  BY <1>t, <1>25 DEF CatchThrows, Returns, OneTick
<1>26. ASSUME Crash PROVE OneTick'
  BY <1>26 DEF Crash, Idle, OneTick
<1>27. ASSUME UNCHANGED vars PROVE OneTick'
  BY <1>t, <1>27 DEF vars, OneTick
<1>28. ASSUME NEW s \in Schedules, UpdateBlank(s) PROVE OneTick'
  BY <1>t, <1>28 DEF UpdateBlank, OneTick
<1>29. QED
  BY <1>1, <1>2, <1>3, <1>4, <1>5, <1>6, <1>7, <1>8, <1>9, <1>10, <1>11, <1>12, <1>13, <1>14,
     <1>15, <1>16, <1>17, <1>18, <1>19, <1>20, <1>21, <1>22, <1>23, <1>24, <1>25, <1>26, <1>27,
     <1>28
    DEF Next, ScheduleStep, TickStep, RunStep

\* Every step keeps PendingGrounded.
LEMMA Step_PendingGrounded == IInv /\ [Next]_vars => PendingGrounded'
<1> SUFFICES ASSUME IInv, [Next]_vars PROVE PendingGrounded'
  OBVIOUS
<1>t. /\ TypeOK /\ ActorsGrounded /\ RunsGrounded /\ RunsOwned /\ MissionsAccounted
      /\ NextRunFollowsCron /\ OneTick /\ PendingGrounded /\ OccurrencesGrounded
  BY DEF IInv
<1> USE SchedulerAssumption DEF books, Actors
<1>1. ASSUME NEW s \in Schedules, NEW cron \in Crons, NEW enabled \in BOOLEAN,
             NEW auto \in BOOLEAN, CreateSchedule(s, cron, enabled, auto)
      PROVE  PendingGrounded'
  BY <1>t, <1>1 DEF CreateSchedule, PendingGrounded, Counts, Fresh
<1>2. ASSUME NEW s \in Schedules, NEW enabled \in BOOLEAN, NEW auto \in BOOLEAN, UpdateFlags(s,
             enabled, auto)
      PROVE  PendingGrounded'
  BY <1>t, <1>2 DEF UpdateFlags, PendingGrounded, Counts, Fresh
<1>3. ASSUME NEW s \in Schedules, NEW cron \in Crons, UpdateCron(s, cron) PROVE PendingGrounded'
  <2>1. /\ \A z \in Schedules: sched[z].occ \in Nat /\ sched'[z].occ \in Nat
        /\ \A z \in Schedules: sched[z].occ <= sched'[z].occ
        /\ sched'[s].occ # 0
    BY <1>t, <1>3, Updated DEF TypeOK, Schedule
  <2>2. UNCHANGED <<actor, pending, run, abandoned>>
    BY <1>3 DEF UpdateCron
  <2>3. \A t \in Ticks: \A d \in pending[t]: d.s \in Schedules /\ d.occ \in Nat
    BY <1>t DEF TypeOK, Snapshot
  <2>4. \A z \in Schedules: sched[z].occ # 0 => sched'[z].occ # 0
    BY <2>1
  <2>5. QED
    BY <1>t, <2>1, <2>2, <2>3 DEF PendingGrounded, Fresh, Counts
<1>4. ASSUME NEW s \in Schedules, DeleteSchedule(s) PROVE PendingGrounded'
  BY <1>t, <1>4 DEF DeleteSchedule, PendingGrounded, Counts, Fresh, Completed
<1>5. ASSUME NEW s \in Schedules, BecomeDue(s) PROVE PendingGrounded'
  BY <1>t, <1>5 DEF BecomeDue, PendingGrounded, Counts, Fresh
<1>6. ASSUME NEW r \in Runs, DeleteMission(r) PROVE PendingGrounded'
  BY <1>t, <1>6 DEF DeleteMission, PendingGrounded, Counts, Fresh
<1>7. ASSUME IntegrationChanges PROVE PendingGrounded'
  BY <1>t, <1>7 DEF IntegrationChanges, PendingGrounded, Counts, Fresh
<1>8. ASSUME NEW t \in Ticks, TickBegins(t) PROVE PendingGrounded'
  BY <1>t, <1>8 DEF TickBegins, PendingGrounded, Counts, Fresh, Steps
<1>9. ASSUME NEW t \in Ticks, ReadDue(t) PROVE PendingGrounded'
  <2>1. /\ actor'[t].at = "loop" /\ pending'[t] = DueSnapshots
        /\ \A u \in Ticks \ {t}: actor'[u] = actor[u] /\ pending'[u] = pending[u]
        /\ UNCHANGED <<sched, run, abandoned>>
    BY <1>t, <1>9 DEF ReadDue, TypeOK
  <2>2. \A u \in Ticks: actor[u].run = None
    BY <1>t, <1>9 DEF ReadDue, OneTick, ActorsGrounded, Steps
  <2>3. ASSUME NEW z \in Schedules PROVE Fresh(z, sched[z].occ)
    <3> SUFFICES ASSUME NEW r \in Runs, Counts(r), run[r].s = z, run[r].occ = sched[z].occ
                 PROVE  FALSE
      BY DEF Fresh
    <3>1. run[r].occ < sched[z].occ
      BY <1>t, <2>2 DEF OccurrencesGrounded
    <3>2. QED
      BY <1>t, <3>1 DEF TypeOK, Schedule
  <2>4. ASSUME NEW d \in DueSnapshots
        PROVE  /\ d.s \in Schedules /\ d.occ = sched[d.s].occ /\ sched[d.s].occ # 0 /\ Fresh(d.s, d.occ)
               /\ \A e \in DueSnapshots: e.s = d.s => e = d
    BY <1>t, <2>3 DEF DueSnapshots, Due, ActorsGrounded
  <2>5. \A z \in Schedules: sched[z].occ <= sched[z].occ
    BY <1>t DEF TypeOK, Schedule
  <2>6. QED
    BY <1>t, <2>1, <2>4, <2>5 DEF PendingGrounded, Fresh, Counts, Steps
<1>10. ASSUME NEW t \in Ticks, ReadDueFails(t) PROVE PendingGrounded'
  BY <1>t, <1>10 DEF ReadDueFails, PendingGrounded, Counts, Fresh, Steps
<1>11. ASSUME NEW t \in Ticks, TickEnds(t) PROVE PendingGrounded'
  BY <1>t, <1>11 DEF TickEnds, Idle, PendingGrounded, OneTick
<1>12. ASSUME NEW t \in Ticks, NEW d \in pending[t], TickExecutes(t, d) PROVE PendingGrounded'
  BY <1>t, <1>12 DEF TickExecutes, PendingGrounded, Counts, Fresh, TypeOK
<1>13. ASSUME NEW m \in Triggers, NEW s \in Schedules, Trigger(m, s) PROVE PendingGrounded'
  BY <1>t, <1>13 DEF Trigger, PendingGrounded, Counts, Fresh
<1>14. ASSUME NEW a \in Actors, NEW r \in Runs, Start(a, r) PROVE PendingGrounded'
  <2>1. /\ actor[a].at = "start" /\ actor'[a].at = "query" /\ actor'[a].s = actor[a].s
        /\ \A b \in Actors \ {a}: actor'[b] = actor[b]
        /\ UNCHANGED <<sched, pending, abandoned>>
    BY <1>t, <1>14 DEF Start, TypeOK
  <2>2. /\ run'[r].s = actor[a].s /\ run'[r].occ = actor[a].occ /\ run'[r].byCron = (a \in Ticks)
        /\ \A q \in Runs \ {r}: run'[q] = run[q]
    BY <1>t, <1>14 DEF Start, TypeOK
  <2>n. ASSUME NEW s, NEW occ, Fresh(s, occ), a \in Ticks => actor[a].s # s
        PROVE  Fresh(s, occ)'
    <3> SUFFICES ASSUME NEW q \in Runs, Counts(q)', run'[q].s = s, run'[q].occ = occ PROVE FALSE
      BY DEF Fresh
    <3>1. CASE q = r
      BY <2>2, <2>n, <3>1 DEF Counts
    <3>2. CASE q # r
      <4>1. run'[q] = run[q]
        BY <2>2, <3>2
      <4>2. QED
        BY <2>1, <2>n, <4>1 DEF Fresh, Counts
    <3>3. QED
      BY <3>1, <3>2
  <2>3. ASSUME NEW t \in Ticks, NEW d \in pending[t] PROVE Fresh(d.s, d.occ)'
    <3>1. a \in Ticks => a = t /\ actor[a].s # d.s
      BY <1>t, <2>1 DEF OneTick, PendingGrounded
    <3>2. Fresh(d.s, d.occ)
      BY <1>t DEF PendingGrounded
    <3>3. QED
      BY <2>n, <3>1, <3>2
  <2>4. ASSUME NEW t \in Ticks, actor'[t].at = "start" PROVE Fresh(actor[t].s, actor[t].occ)'
    <3>1. t # a /\ actor[t].at = "start" /\ Fresh(actor[t].s, actor[t].occ) /\ actor'[t] = actor[t]
      BY <1>t, <2>1, <2>4 DEF PendingGrounded
    <3>2. a \notin Ticks
      BY <1>t, <2>1, <3>1 DEF OneTick
    <3>3. QED
      BY <2>n, <3>1, <3>2
  <2>5. QED
    BY <1>t, <2>1, <2>3, <2>4 DEF PendingGrounded
<1>15. ASSUME NEW a \in Actors, StartFails(a) PROVE PendingGrounded'
  BY <1>t, <1>15 DEF StartFails, Returns, PendingGrounded, Counts, Fresh, Steps
<1>16. ASSUME NEW a \in Actors, NEW hit \in BOOLEAN, Query(a, hit) PROVE PendingGrounded'
  BY <1>t, <1>16 DEF Query, PendingGrounded, OccurrencesGrounded, Counts, Fresh, Steps
<1>17. ASSUME NEW a \in Actors, MakeMission(a) PROVE PendingGrounded'
  BY <1>t, <1>17 DEF MakeMission, Goes, PendingGrounded, OneTick, Counts, Fresh, Steps
<1>18. ASSUME NEW a \in Actors, AttachEvidence(a) PROVE PendingGrounded'
  BY <1>t, <1>18 DEF AttachEvidence, Goes, PendingGrounded, Counts, Fresh, Steps
<1>19. ASSUME NEW a \in Actors, FinishRun(a) PROVE PendingGrounded'
  BY <1>t, <1>19 DEF FinishRun, Goes, PendingGrounded, Counts, Fresh, RunsGrounded, InHand, Steps
<1>20. ASSUME NEW a \in Actors, ReadCron(a) PROVE PendingGrounded'
  BY <1>t, <1>20 DEF ReadCron, PendingGrounded, OccurrencesGrounded, Counts, Fresh, Steps
<1>21. ASSUME NEW a \in Actors, Reschedule(a) PROVE PendingGrounded'
  <2>1. /\ \A z \in Schedules: sched[z].occ \in Nat /\ sched'[z].occ \in Nat
        /\ \A z \in Schedules: sched[z].occ <= sched'[z].occ
        /\ \A z \in Schedules: sched[z].occ # 0 => sched'[z].occ # 0
    BY <1>t, <1>21, Rescheduled DEF TypeOK, Schedule
  <2>2. UNCHANGED <<pending, run, abandoned>>
    BY <1>21 DEF Reschedule
  <2>3. \A t \in Ticks: \A d \in pending[t]: d.s \in Schedules /\ d.occ \in Nat
    BY <1>t DEF TypeOK, Snapshot
  <2>4. /\ actor'[a].at \in {"idle", "loop"}
        /\ \A b \in Actors \ {a}: actor'[b] = actor[b]
    BY <1>t, <1>21, Returned DEF Reschedule
  <2>5. QED
    BY <1>t, <2>1, <2>2, <2>3, <2>4 DEF PendingGrounded, Fresh, Counts, Steps
<1>22. ASSUME NEW a \in Actors, Throws(a) PROVE PendingGrounded'
  BY <1>t, <1>22 DEF Throws, Goes, PendingGrounded, Counts, Fresh, Steps
<1>23. ASSUME NEW a \in Actors, FailRun(a) PROVE PendingGrounded'
  BY <1>t, <1>23
    DEF FailRun, Goes, PendingGrounded, Counts, Fresh, RunsGrounded, InHand, TypeOK, Run, Actor
<1>24. ASSUME NEW a \in Actors, FailSchedule(a) PROVE PendingGrounded'
  BY <1>t, <1>24 DEF FailSchedule, Returns, PendingGrounded, Counts, Fresh, Steps
<1>25. ASSUME NEW a \in Actors, CatchThrows(a) PROVE PendingGrounded'
  BY <1>t, <1>25 DEF CatchThrows, Returns, PendingGrounded, Counts, Fresh, Steps
<1>26. ASSUME Crash PROVE PendingGrounded'
  BY <1>26 DEF Crash, Idle, PendingGrounded
<1>27. ASSUME UNCHANGED vars PROVE PendingGrounded'
  BY <1>t, <1>27 DEF vars, PendingGrounded, Counts, Fresh
<1>28. ASSUME NEW s \in Schedules, UpdateBlank(s) PROVE PendingGrounded'
  <2>1. \A z \in Schedules: sched'[z].occ = sched[z].occ
    BY <1>t, <1>28, Blanked
  <2>2. UNCHANGED <<actor, pending, run, abandoned>>
    BY <1>28 DEF UpdateBlank
  <2>3. \A t \in Ticks: \A d \in pending[t]: d.s \in Schedules
    BY <1>t DEF TypeOK, Snapshot
  <2>4. QED
    BY <1>t, <2>1, <2>2, <2>3 DEF PendingGrounded, Fresh, Counts
<1>29. QED
  BY <1>1, <1>2, <1>3, <1>4, <1>5, <1>6, <1>7, <1>8, <1>9, <1>10, <1>11, <1>12, <1>13, <1>14,
     <1>15, <1>16, <1>17, <1>18, <1>19, <1>20, <1>21, <1>22, <1>23, <1>24, <1>25, <1>26, <1>27,
     <1>28
    DEF Next, ScheduleStep, TickStep, RunStep

\* Every step keeps OccurrencesGrounded.
LEMMA Step_OccurrencesGrounded == IInv /\ [Next]_vars => OccurrencesGrounded'
<1> SUFFICES ASSUME IInv, [Next]_vars PROVE OccurrencesGrounded'
  OBVIOUS
<1>t. /\ TypeOK /\ ActorsGrounded /\ RunsGrounded /\ RunsOwned /\ MissionsAccounted
      /\ NextRunFollowsCron /\ OneTick /\ PendingGrounded /\ OccurrencesGrounded
  BY DEF IInv
<1> USE SchedulerAssumption DEF books, Actors
<1>1. ASSUME NEW s \in Schedules, NEW cron \in Crons, NEW enabled \in BOOLEAN,
             NEW auto \in BOOLEAN, CreateSchedule(s, cron, enabled, auto)
      PROVE  OccurrencesGrounded'
  BY <1>t, <1>1 DEF CreateSchedule, OccurrencesGrounded, Counts, TypeOK, Run
<1>2. ASSUME NEW s \in Schedules, NEW enabled \in BOOLEAN, NEW auto \in BOOLEAN, UpdateFlags(s,
             enabled, auto)
      PROVE  OccurrencesGrounded'
  BY <1>t, <1>2 DEF UpdateFlags, OccurrencesGrounded, Counts
<1>3. ASSUME NEW s \in Schedules, NEW cron \in Crons, UpdateCron(s, cron)
      PROVE  OccurrencesGrounded'
  <2>1. \A z \in Schedules: sched[z].occ \in Nat /\ sched'[z].occ \in Nat /\ sched[z].occ <= sched'[z].occ
    BY <1>t, <1>3, Updated DEF TypeOK, Schedule
  <2>2. UNCHANGED <<actor, run, abandoned>>
    BY <1>3 DEF UpdateCron
  <2>3. \A r \in Runs: run[r].occ \in Nat /\ (Counts(r) => run[r].s \in Schedules)
    BY <1>t DEF TypeOK, Run, RunsGrounded, Counts, Completed
  <2>4. QED
    BY <1>t, <2>1, <2>2, <2>3 DEF OccurrencesGrounded, Counts
<1>4. ASSUME NEW s \in Schedules, DeleteSchedule(s) PROVE OccurrencesGrounded'
  BY <1>t, <1>4 DEF DeleteSchedule, OccurrencesGrounded, Counts, Completed
<1>5. ASSUME NEW s \in Schedules, BecomeDue(s) PROVE OccurrencesGrounded'
  BY <1>t, <1>5 DEF BecomeDue, OccurrencesGrounded, Counts
<1>6. ASSUME NEW r \in Runs, DeleteMission(r) PROVE OccurrencesGrounded'
  BY <1>t, <1>6 DEF DeleteMission, OccurrencesGrounded, Counts
<1>7. ASSUME IntegrationChanges PROVE OccurrencesGrounded'
  BY <1>t, <1>7 DEF IntegrationChanges, OccurrencesGrounded, Counts
<1>8. ASSUME NEW t \in Ticks, TickBegins(t) PROVE OccurrencesGrounded'
  BY <1>t, <1>8 DEF TickBegins, OccurrencesGrounded, Counts
<1>9. ASSUME NEW t \in Ticks, ReadDue(t) PROVE OccurrencesGrounded'
  BY <1>t, <1>9 DEF ReadDue, OccurrencesGrounded, Counts
<1>10. ASSUME NEW t \in Ticks, ReadDueFails(t) PROVE OccurrencesGrounded'
  BY <1>t, <1>10 DEF ReadDueFails, OccurrencesGrounded, Counts
<1>11. ASSUME NEW t \in Ticks, TickEnds(t) PROVE OccurrencesGrounded'
  BY <1>t, <1>11 DEF TickEnds, OneTick, OccurrencesGrounded, Counts, ActorsGrounded, Steps
<1>12. ASSUME NEW t \in Ticks, NEW d \in pending[t], TickExecutes(t, d) PROVE OccurrencesGrounded'
  BY <1>t, <1>12 DEF TickExecutes, OccurrencesGrounded, Counts, ActorsGrounded, Steps
<1>13. ASSUME NEW m \in Triggers, NEW s \in Schedules, Trigger(m, s) PROVE OccurrencesGrounded'
  BY <1>t, <1>13 DEF Trigger, OccurrencesGrounded, Counts
<1>14. ASSUME NEW a \in Actors, NEW r \in Runs, Start(a, r) PROVE OccurrencesGrounded'
  <2>1. /\ actor[a].at = "start" /\ actor[a].run = None /\ actor'[a].run = r
        /\ \A b \in Actors \ {a}: actor'[b] = actor[b]
        /\ UNCHANGED <<sched, abandoned>>
    BY <1>t, <1>14 DEF Start, TypeOK, ActorsGrounded, Steps
  <2>2. /\ run'[r].s = actor[a].s /\ run'[r].occ = actor[a].occ /\ run'[r].byCron = (a \in Ticks)
        /\ \A q \in Runs \ {r}: run'[q] = run[q]
    BY <1>t, <1>14 DEF Start, TypeOK
  <2>3. a \in Ticks => Fresh(actor[a].s, actor[a].occ)
    BY <1>t, <2>1 DEF PendingGrounded
  <2>4. ASSUME NEW q \in Runs \ {r}, Counts(q)'
        PROVE  /\ Counts(q) /\ run'[q] = run[q] /\ q # None
               /\ run'[q].occ < sched'[run'[q].s].occ \/ \E t \in Ticks: actor'[t].run = q
    <3>1. Counts(q) /\ run'[q] = run[q] /\ q # None
      BY <2>1, <2>2, <2>4 DEF Counts
    <3>2. QED
      BY <1>t, <2>1, <3>1 DEF OccurrencesGrounded
  <2>5. ASSUME Counts(r)'
        PROVE  a \in Ticks /\ \A q \in Runs \ {r}: Counts(q)' => ~(run'[q].s = run'[r].s /\ run'[q].occ = run'[r].occ)
    <3>1. a \in Ticks
      BY <2>2, <2>5 DEF Counts
    <3>2. QED
      BY <2>2, <2>3, <2>4, <3>1 DEF Fresh
  <2>6. QED
    BY <1>t, <2>1, <2>4, <2>5 DEF OccurrencesGrounded
<1>15. ASSUME NEW a \in Actors, StartFails(a) PROVE OccurrencesGrounded'
  BY <1>t, <1>15 DEF StartFails, Returns, OccurrencesGrounded, Counts, ActorsGrounded, Steps
<1>16. ASSUME NEW a \in Actors, NEW hit \in BOOLEAN, Query(a, hit) PROVE OccurrencesGrounded'
  BY <1>t, <1>16 DEF Query, OccurrencesGrounded, Counts
<1>17. ASSUME NEW a \in Actors, MakeMission(a) PROVE OccurrencesGrounded'
  <2> DEFINE r == actor[a].run
  <2>1. r \in Runs /\ run[r] \in Run /\ InHand(a, run[r])
    BY <1>t, <1>17 DEF MakeMission, ActorsGrounded, RunsGrounded, Steps, TypeOK
  <2>2. /\ run'[r].s = run[r].s /\ run'[r].occ = run[r].occ /\ run'[r].byCron = run[r].byCron
        /\ run'[r].status = run[r].status \/ run[r].status = "RUNNING"
        /\ \A q \in Runs \ {r}: run'[q] = run[q]
    BY <1>17 DEF MakeMission
  <2>3. /\ \A b \in Actors: actor'[b].run = actor[b].run
        /\ UNCHANGED <<sched, abandoned>>
    BY <1>17 DEF MakeMission, Goes
  <2>4. \A q \in Runs: /\ run'[q].s = run[q].s /\ run'[q].occ = run[q].occ
                       /\ Counts(q)' => Counts(q)
    BY <2>2, <2>3 DEF Counts
  <2> HIDE DEF r
  <2>5. ASSUME NEW q \in Runs, Counts(q)'
        PROVE  /\ run'[q].occ < sched'[run'[q].s].occ \/ \E t \in Ticks: actor'[t].run = q
               /\ \A x \in Runs: Counts(x)' /\ run'[x].s = run'[q].s /\ run'[x].occ = run'[q].occ => x = q
    <3>1. Counts(q) /\ sched' = sched
      BY <2>3, <2>4, <2>5
    <3>2. run[q].occ < sched[run[q].s].occ \/ \E t \in Ticks: actor[t].run = q
      BY <1>t, <3>1 DEF OccurrencesGrounded
    <3>3. run'[q].occ < sched'[run'[q].s].occ \/ \E t \in Ticks: actor'[t].run = q
      BY <2>3, <2>4, <3>2
    <3>4. \A x \in Runs: Counts(x) /\ run[x].s = run[q].s /\ run[x].occ = run[q].occ => x = q
      BY <1>t, <3>1 DEF OccurrencesGrounded
    <3>5. QED
      BY <2>4, <3>3, <3>4
  <2>6. QED
    BY <2>5 DEF OccurrencesGrounded
<1>18. ASSUME NEW a \in Actors, AttachEvidence(a) PROVE OccurrencesGrounded'
  BY <1>t, <1>18 DEF AttachEvidence, Goes, OccurrencesGrounded, Counts
<1>19. ASSUME NEW a \in Actors, FinishRun(a) PROVE OccurrencesGrounded'
  <2> DEFINE r == actor[a].run
  <2>1. r \in Runs /\ run[r] \in Run /\ InHand(a, run[r])
    BY <1>t, <1>19 DEF FinishRun, ActorsGrounded, RunsGrounded, Steps, TypeOK
  <2>2. /\ run'[r].s = run[r].s /\ run'[r].occ = run[r].occ /\ run'[r].byCron = run[r].byCron
        /\ run'[r].status = run[r].status \/ run[r].status = "RUNNING"
        /\ \A q \in Runs \ {r}: run'[q] = run[q]
    BY <1>19, <2>1 DEF FinishRun, InHand
  <2>3. /\ \A b \in Actors: actor'[b].run = actor[b].run
        /\ UNCHANGED <<sched, abandoned>>
    BY <1>19 DEF FinishRun, Goes
  <2>4. \A q \in Runs: /\ run'[q].s = run[q].s /\ run'[q].occ = run[q].occ
                       /\ Counts(q)' => Counts(q)
    BY <2>2, <2>3 DEF Counts
  <2> HIDE DEF r
  <2>5. ASSUME NEW q \in Runs, Counts(q)'
        PROVE  /\ run'[q].occ < sched'[run'[q].s].occ \/ \E t \in Ticks: actor'[t].run = q
               /\ \A x \in Runs: Counts(x)' /\ run'[x].s = run'[q].s /\ run'[x].occ = run'[q].occ => x = q
    <3>1. Counts(q) /\ sched' = sched
      BY <2>3, <2>4, <2>5
    <3>2. run[q].occ < sched[run[q].s].occ \/ \E t \in Ticks: actor[t].run = q
      BY <1>t, <3>1 DEF OccurrencesGrounded
    <3>3. run'[q].occ < sched'[run'[q].s].occ \/ \E t \in Ticks: actor'[t].run = q
      BY <2>3, <2>4, <3>2
    <3>4. \A x \in Runs: Counts(x) /\ run[x].s = run[q].s /\ run[x].occ = run[q].occ => x = q
      BY <1>t, <3>1 DEF OccurrencesGrounded
    <3>5. QED
      BY <2>4, <3>3, <3>4
  <2>6. QED
    BY <2>5 DEF OccurrencesGrounded
<1>20. ASSUME NEW a \in Actors, ReadCron(a) PROVE OccurrencesGrounded'
  BY <1>t, <1>20 DEF ReadCron, OccurrencesGrounded, Counts
<1>21. ASSUME NEW a \in Actors, Reschedule(a) PROVE OccurrencesGrounded'
  <2> DEFINE s == actor[a].s
  <2>1. \A z \in Schedules: sched[z].occ \in Nat /\ sched'[z].occ \in Nat /\ sched[z].occ <= sched'[z].occ
    BY <1>t, <1>21, Rescheduled DEF TypeOK, Schedule
  <2>2. s \in Schedules /\ sched[s].occ < sched'[s].occ
    BY <1>t, <1>21, Rescheduled DEF TypeOK, Schedule
  <2>3. UNCHANGED <<run, abandoned>> /\ \A b \in Actors \ {a}: actor'[b] = actor[b]
    BY <1>t, <1>21, Returned DEF Reschedule
  <2>4. \A r \in Runs: run[r].occ \in Nat /\ (Counts(r) => run[r].s \in Schedules)
    BY <1>t DEF TypeOK, Run, RunsGrounded, Counts, Completed
  <2>5. run[actor[a].run].s = s /\ run[actor[a].run].occ <= sched[s].occ
    BY <1>t, <1>21 DEF Reschedule, RunsGrounded, ActorsGrounded, InHand, Steps
  <2> HIDE DEF s
  <2>6. ASSUME NEW r \in Runs, Counts(r)
        PROVE  run[r].occ < sched'[run[r].s].occ \/ \E t \in Ticks: actor'[t].run = r
    <3>1. CASE run[r].occ < sched[run[r].s].occ
      BY <2>1, <2>4, <2>6, <3>1
    <3>2. CASE actor[a].run = r
      BY <2>1, <2>2, <2>4, <2>5, <3>2
    <3>3. CASE \E t \in Ticks \ {a}: actor[t].run = r
      BY <2>3, <3>3
    <3>4. QED
      BY <1>t, <2>6, <3>1, <3>2, <3>3 DEF OccurrencesGrounded
  <2>7. QED
    BY <1>t, <2>3, <2>6 DEF OccurrencesGrounded, Counts
<1>22. ASSUME NEW a \in Actors, Throws(a) PROVE OccurrencesGrounded'
  BY <1>t, <1>22 DEF Throws, Goes, OccurrencesGrounded, Counts
<1>23. ASSUME NEW a \in Actors, FailRun(a) PROVE OccurrencesGrounded'
  BY <1>t, <1>23
    DEF FailRun, Goes, PendingGrounded, OccurrencesGrounded, Counts, RunsGrounded, InHand,
        TypeOK, Run, Actor
<1>24. ASSUME NEW a \in Actors, FailSchedule(a) PROVE OccurrencesGrounded'
  BY <1>t, <1>24
    DEF FailSchedule, Returns, OccurrencesGrounded, Counts, RunsGrounded, InHand, Completed,
        Steps
<1>25. ASSUME NEW a \in Actors, CatchThrows(a) PROVE OccurrencesGrounded'
  BY <1>t, <1>25 DEF CatchThrows, Returns, OccurrencesGrounded, Counts
<1>26. ASSUME Crash PROVE OccurrencesGrounded'
  BY <1>t, <1>26 DEF Crash, OccurrencesGrounded, Counts
<1>27. ASSUME UNCHANGED vars PROVE OccurrencesGrounded'
  BY <1>t, <1>27 DEF vars, OccurrencesGrounded, Counts
<1>28. ASSUME NEW s \in Schedules, UpdateBlank(s) PROVE OccurrencesGrounded'
  <2>1. \A z \in Schedules: sched'[z].occ = sched[z].occ
    BY <1>t, <1>28, Blanked
  <2>2. UNCHANGED <<actor, run, abandoned>>
    BY <1>28 DEF UpdateBlank
  <2>3. \A r \in Runs: Counts(r) => run[r].s \in Schedules
    BY <1>t DEF TypeOK, Run, RunsGrounded, Counts, Completed
  <2>4. QED
    BY <1>t, <2>1, <2>2, <2>3 DEF OccurrencesGrounded, Counts
<1>29. QED
  BY <1>1, <1>2, <1>3, <1>4, <1>5, <1>6, <1>7, <1>8, <1>9, <1>10, <1>11, <1>12, <1>13, <1>14,
     <1>15, <1>16, <1>17, <1>18, <1>19, <1>20, <1>21, <1>22, <1>23, <1>24, <1>25, <1>26, <1>27,
     <1>28
    DEF Next, ScheduleStep, TickStep, RunStep

\* Every step keeps the invariant.
LEMMA Step_IInv == IInv /\ [Next]_vars => IInv'
BY Step_TypeOK, Step_ActorsGrounded, Step_RunsGrounded, Step_RunsOwned, Step_MissionsAccounted,
   Step_NextRunFollowsCron, Step_OneTick, Step_PendingGrounded, Step_OccurrencesGrounded
  DEF IInv

\* The strengthening holds in every state.
THEOREM Invariance == Spec => []IInv
BY Initially, Step_IInv, PTL DEF Spec

\* The rows, the flag and the calls are what the schema and the handlers say, always.
THEOREM TypeCorrect == Spec => []TypeOK
<1>1. IInv => TypeOK
  BY DEF IInv
<1>2. QED
  BY Invariance, <1>1, PTL

\* A run shown as RUNNING is in somebody's hands, or was abandoned by a restart or a
\* failure inside the catch block of executeScheduleRun.
THEOREM Owned == Spec => []RunsOwned
<1>1. IInv => RunsOwned
  BY DEF IInv
<1>2. QED
  BY Invariance, <1>1, PTL

\* Whatever fails on the way, a mission is linked from the run that made it unless that
\* run failed or was deleted, and a successful run has its mission.
THEOREM Accounted == Spec => []MissionsAccounted
<1>1. IInv => MissionsAccounted
  BY DEF IInv
<1>2. QED
  BY Invariance, <1>1, PTL

\* The flag of checkDueSchedules and its one list at a time keep the cron from completing
\* an occurrence twice.
THEOREM RunOnce == Spec => []OccurrenceRunOnce
<1>1. IInv => OccurrenceRunOnce
  BY DEF IInv, OccurrencesGrounded, Counts, OccurrenceRunOnce
<1>2. QED
  BY Invariance, <1>1, PTL

\* nextRunAt is computed from the expression the schedule has, unless a user changed that
\* between the read and the write at the end of a run, or blanked it.
THEOREM CronFollowed == Spec => []NextRunFollowsCron
<1>1. IInv => NextRunFollowsCron
  BY DEF IInv
<1>2. QED
  BY Invariance, <1>1, PTL

------------------------------------------------------------------------------
(* When a schedule runs next: cronNextRun, for every time.                 *)

(* The expressions the function may be given: any fields, and any number   *)
(* of them.  Only a client of its own sends a negative number.             *)
Field == [kind: {"any", "at", "every"}, n: Int]
Texts == [parts: Nat, min: Field, hour: Field, dom: Field, month: Field, dow: Field]
NoneNegative(e) == e.min.n >= 0 /\ e.hour.n >= 0 /\ e.dow.n >= 0

\* A time is a day and a minute of it, an hour and a minute of it.
LEMMA Parts ==
  ASSUME NEW t \in Nat
  PROVE  /\ t \div Day \in Nat /\ t % Day \in 0 .. (Day - 1) /\ t = Day * (t \div Day) + (t % Day)
         /\ Midnight(t) = Day * (t \div Day) /\ Midnight(t) \in Nat
         /\ t % Hour \in 0 .. (Hour - 1) /\ t - (t % Hour) \in Nat
         /\ WeekDay(t) \in 0 .. 6
BY DEF Day, Hour, Midnight, WeekDay

\* A day and a minute of it are those of their time.
LEMMA Whole ==
  ASSUME NEW d \in Nat, NEW m \in 0 .. (Day - 1)
  PROVE  (Day * d + m) \div Day = d /\ (Day * d + m) % Day = m
BY DEF Day, Hour

\* The minute of a day has the hour and the minute it is made of.
LEMMA Clock ==
  ASSUME NEW h \in 0 .. 23, NEW n \in 0 .. 59
  PROVE  h * Hour + n \in 0 .. (Day - 1) /\ (h * Hour + n) \div Hour = h /\ (h * Hour + n) % Hour = n
BY DEF Day, Hour

\* The minute of the hour is that of the minute of the day.
LEMMA MinuteOfDay ==
  ASSUME NEW t \in Nat
  PROVE  (t % Day) % Hour = t % Hour /\ t % Day = ((t % Day) \div Hour) * Hour + (t % Hour)
BY DEF Day, Hour

\* A week ahead at most, and never today.
LEMMA Ahead ==
  ASSUME NEW e \in Texts, NoneNegative(e), NEW t \in Nat
  PROVE  DaysAhead(e, t) \in 1 .. 7
<1>1. e.dow.n \in Nat /\ WeekDay(t) \in 0 .. 6
  <2>1. e.dow \in Field
    BY DEF Texts
  <2>2. e.dow.n \in Nat
    BY <2>1 DEF Field, NoneNegative
  <2>3. QED
    BY <2>2, Parts
<1>2. PICK x \in Nat: x = e.dow.n + 7 - WeekDay(t)
  BY <1>1
<1>3. Remainder(x, 7) = x % 7 /\ x % 7 \in 0 .. 6
  BY DEF Remainder
<1>4. QED
  BY <1>2, <1>3 DEF DaysAhead

\* Of an expression without a negative number, whatever else it is, cronNextRun answers a
\* time to come, or a date the database refuses.
THEOREM NextIsLater ==
  ASSUME NEW e \in Texts, NoneNegative(e), NEW t \in Nat
  PROVE  cronNextRun(e, t) = Invalid \/ (cronNextRun(e, t) \in Nat /\ cronNextRun(e, t) > t)
<1>1. e.hour.n \in Nat /\ e.min.n \in Nat
  BY DEF Texts, Field, NoneNegative
<1>2. Today(e, t) \in Nat /\ Today(e, t) >= Midnight(t)
  <2>1. e.hour.n * Hour \in Nat
    BY <1>1 DEF Hour
  <2>2. PICK m \in Nat: m = e.hour.n * Hour
    BY <2>1
  <2>3. Midnight(t) \in Nat
    BY Parts
  <2>4. Today(e, t) = Midnight(t) + m + e.min.n
    BY <2>2 DEF Today
  <2>5. QED
    BY <1>1, <2>3, <2>4
<1>3. t < Midnight(t) + Day
  BY Parts DEF Day, Hour
<1>4. Daily(e, t) = Invalid \/ (Daily(e, t) \in Nat /\ Daily(e, t) > t)
  BY <1>2, <1>3, Parts DEF Daily, Day, Hour
<1>5. Weekly(e, t) = Invalid \/ (Weekly(e, t) \in Nat /\ Weekly(e, t) > t)
  <2>1. DaysAhead(e, t) * Day \in Nat /\ DaysAhead(e, t) * Day >= Day
    BY Ahead DEF Day, Hour
  <2>2. QED
    BY <1>2, <1>3, <2>1, Parts DEF Weekly, Day, Hour
<1>6. Hourly(e, t) \in Nat /\ Hourly(e, t) > t
  <2>1. PICK m \in Nat: m = IF Fixed(e.min) THEN e.min.n ELSE 0
    BY <1>1
  <2>2. PICK r \in Nat: r = t - (t % Hour)
    BY Parts
  <2>3. r + Hour > t
    BY <2>2 DEF Hour
  <2>4. Hourly(e, t) = IF r + m <= t THEN r + m + Hour ELSE r + m
    BY <2>1, <2>2 DEF Hourly
  <2>5. QED
    BY <2>1, <2>2, <2>3, <2>4 DEF Hour
<1>7. t + Hour \in Nat /\ t + Hour > t
  BY DEF Hour
<1>8. FromParts(e, t) = Invalid \/ (FromParts(e, t) \in Nat /\ FromParts(e, t) > t)
  BY <1>4, <1>5, <1>6, <1>7 DEF FromParts
<1>9. QED
  BY <1>7, <1>8 DEF cronNextRun

\* A negative number does: of a daily expression whose hour lies more than a day before
\* midnight the answer has gone by, and the schedule is due again at every tick.
THEOREM NegativeHourIsPast ==
  ASSUME NEW n \in 0 .. 59, NEW h \in Nat, h >= 25, NEW t \in Nat
  PROVE  /\ Expression(At(n), At(-h), Any) \in Texts
         /\ cronNextRun(Expression(At(n), At(-h), Any), t) < t
<1> DEFINE e == Expression(At(n), At(-h), Any)
<1>1. /\ e \in Texts /\ e.parts = 5 /\ e.min.n = n /\ e.hour.n = -h
      /\ Fixed(e.min) /\ Fixed(e.hour) /\ Given(e.min) /\ Given(e.hour) /\ ~Given(e.dow) /\ Undated(e)
  BY DEF Expression, At, Any, Texts, Field, Fixed, Given, Undated
<1> HIDE DEF e
<1>2. cronNextRun(e, t) = Daily(e, t)
  BY <1>1 DEF cronNextRun, FromParts
<1>3. PICK day \in Nat: day = Midnight(t) /\ day <= t
  BY Parts DEF Day, Hour
<1>4. Today(e, t) = day - h * Hour + n
  BY <1>1, <1>3 DEF Today, Hour
<1>5. Today(e, t) + Day < t /\ Today(e, t) <= t
  BY <1>3, <1>4 DEF Day, Hour
<1>6. QED
  BY <1>1, <1>2, <1>5 DEF Daily, e

(* Expressions the function understands: of an hour, of a day, of a week.  *)
Number(field, S) == Fixed(field) /\ field.n \in S
OfHour(e) ==
  e.parts = 5 /\ Number(e.min, 0 .. 59) /\ e.hour = Any /\ Undated(e) /\ e.dow = Any
OfDay(e) ==
  /\ e.parts = 5 /\ Undated(e)
  /\ Number(e.min, 0 .. 59) /\ Number(e.hour, 0 .. 23) /\ e.dow = Any
OfWeek(e) ==
  /\ e.parts = 5 /\ Undated(e)
  /\ Number(e.min, 0 .. 59) /\ Number(e.hour, 0 .. 23) /\ Number(e.dow, 0 .. 6)

\* A daily or weekly expression names a minute of the day, within a natural number of minutes.
LEMMA ClockFields ==
  ASSUME NEW e, OfDay(e) \/ OfWeek(e)
  PROVE  /\ e.hour.n \in 0 .. 23 /\ e.min.n \in 0 .. 59
         /\ e.hour.n * Hour \in Nat /\ e.min.n \in Nat /\ e.hour.n * Hour + e.min.n \in 0 .. (Day - 1)
<1>1. e.hour.n \in 0 .. 23 /\ e.min.n \in 0 .. 59
  BY DEF OfDay, OfWeek, Number
<1>2. e.hour.n * Hour \in Nat /\ e.min.n \in Nat
  BY <1>1 DEF Hour
<1>3. QED
  BY <1>1, <1>2, Clock, Zenon

\* A number names itself.
LEMMA AtNames ==
  ASSUME NEW field, Fixed(field), NEW value
  PROVE  Names(field, value) <=> value = field.n
BY DEF Names, Fixed

\* The firings of a daily or weekly expression are at its minute of a day.
LEMMA FiresAt ==
  ASSUME NEW e, OfDay(e) \/ OfWeek(e), NEW d \in Nat, NEW m \in 0 .. (Day - 1)
  PROVE  Fires(e, Day * d + m) <=> /\ m = e.hour.n * Hour + e.min.n
                                   /\ OfWeek(e) => d % 7 = e.dow.n
<1>1. e.hour.n \in 0 .. 23 /\ e.min.n \in 0 .. 59 /\ e.hour.kind = "at" /\ e.min.kind = "at"
  BY DEF OfDay, OfWeek, Number, Fixed
<1> DEFINE u == Day * d + m
<1>2. u \in Nat
  BY DEF Day, Hour
<1>3. u \div Day = d /\ u % Day = m
  BY Whole
<1> HIDE DEF u
<1>4. m % Hour = u % Hour
  BY <1>2, <1>3, MinuteOfDay
<1>a. m = (m \div Hour) * Hour + (u % Hour)
  BY <1>2, <1>3, MinuteOfDay
<1>5. Names(e.min, u % Hour) <=> u % Hour = e.min.n
  BY <1>1, AtNames DEF Fixed
<1>6. Names(e.hour, m \div Hour) <=> m \div Hour = e.hour.n
  BY <1>1, AtNames DEF Fixed
<1>7. Names(e.dow, d % 7) <=> (OfWeek(e) => d % 7 = e.dow.n)
  <2>1. CASE OfWeek(e)
    BY <2>1, AtNames DEF OfWeek, Number
  <2>2. CASE ~OfWeek(e)
    BY <2>2 DEF OfDay, Any, Names
  <2>3. QED
    BY <2>1, <2>2
<1>8. m = e.hour.n * Hour + e.min.n <=> (m \div Hour = e.hour.n /\ u % Hour = e.min.n)
  <2>1. ASSUME m = e.hour.n * Hour + e.min.n
        PROVE  m \div Hour = e.hour.n /\ u % Hour = e.min.n
    <3>1. m \div Hour = e.hour.n /\ m % Hour = e.min.n
      BY <1>1, <2>1, Clock, Zenon
    <3>2. QED
      BY <1>4, <3>1, Zenon
  <2>2. ASSUME m \div Hour = e.hour.n, u % Hour = e.min.n
        PROVE  m = e.hour.n * Hour + e.min.n
    BY <1>a, <2>2, Zenon
  <2>3. QED
    BY <2>1, <2>2
<1>9. Fires(e, u) <=> (Names(e.min, u % Hour) /\ Names(e.hour, m \div Hour) /\ Names(e.dow, d % 7))
  BY <1>3 DEF Fires, WeekDay
<1>10. QED
  BY <1>5, <1>6, <1>7, <1>8, <1>9 DEF u

\* What fires, and is the first to do so, is the next firing.
LEMMA FirstFiring ==
  ASSUME NEW e, NEW t \in Nat, NEW next \in Nat, t < next, next <= t + Week, Fires(e, next),
         \A u \in Nat: t < u /\ u < next => ~Fires(e, u)
  PROVE  NextFiring(e, t) = next
<1> DEFINE S == {u \in (t + 1) .. (t + Week): Fires(e, u)}
<1>1. next \in S /\ \A u \in S: next <= u
  BY DEF Week, Day, Hour
<1>2. \A u \in S: u \in Nat
  OBVIOUS
<1> HIDE DEF S
<1>3. \A x \in S: (\A y \in S: x <= y) => x = next
  BY <1>1, <1>2
<1>4. Min(S) = next
  BY <1>1, <1>3 DEF Min
<1>5. QED
  BY <1>4 DEF NextFiring, S

\* A firing is its day and the minute the expression names.
LEMMA FiringDay ==
  ASSUME NEW e, OfDay(e) \/ OfWeek(e), NEW u \in Nat
  PROVE  Fires(e, u) <=> /\ u = Day * (u \div Day) + e.hour.n * Hour + e.min.n
                         /\ OfWeek(e) => (u \div Day) % 7 = e.dow.n
<1>1. PICK d \in Nat, m \in 0 .. (Day - 1): d = u \div Day /\ m = u % Day /\ u = Day * d + m
  BY Parts
<1>2. PICK a \in Nat: a = e.hour.n * Hour + e.min.n
  <2>1. e.hour.n * Hour + e.min.n \in 0 .. (Day - 1)
    BY ClockFields
  <2>2. QED
    BY <2>1
<1>3. Fires(e, u) <=> m = a /\ (OfWeek(e) => d % 7 = e.dow.n)
  BY <1>1, <1>2, FiresAt
<1>4. u = Day * d + a <=> m = a
  BY <1>1, <1>2 DEF Day, Hour
<1>5. Day * d + e.hour.n * Hour + e.min.n = Day * d + a
  <2>1. PICK h \in Nat, n \in Nat: h = e.hour.n * Hour /\ n = e.min.n
    BY ClockFields
  <2>2. h + n = a
    BY <1>2, <2>1
  <2>3. QED
    BY <2>1, <2>2 DEF Day, Hour
<1>6. QED
  BY <1>1, <1>3, <1>4, <1>5

\* A daily or weekly expression names one minute of the day, the one Today is at, and fires
\* then on the days it names.
LEMMA TodayParts ==
  ASSUME NEW e, OfDay(e) \/ OfWeek(e), NEW t \in Nat
  PROVE  \E a \in 0 .. (Day - 1):
           /\ a = e.hour.n * Hour + e.min.n /\ Today(e, t) = Day * (t \div Day) + a
           /\ \A u \in Nat: Fires(e, u) <=> /\ u = Day * (u \div Day) + a
                                            /\ OfWeek(e) => (u \div Day) % 7 = e.dow.n
<1>1. PICK a \in 0 .. (Day - 1): a = e.hour.n * Hour + e.min.n
  BY ClockFields
<1>2. PICK h \in Nat, n \in Nat: h = e.hour.n * Hour /\ n = e.min.n
  BY ClockFields
<1>3. a = h + n
  BY <1>1, <1>2
<1>4. Today(e, t) = Day * (t \div Day) + a
  <2>1. PICK d \in Nat: d = Day * (t \div Day) /\ Midnight(t) = d
    BY Parts
  <2>2. QED
    BY <1>2, <1>3, <2>1 DEF Today
<1>5. \A u \in Nat: Fires(e, u) <=> /\ u = Day * (u \div Day) + a
                                    /\ OfWeek(e) => (u \div Day) % 7 = e.dow.n
  <2>1. SUFFICES ASSUME NEW u \in Nat
                 PROVE  Fires(e, u) <=> /\ u = Day * (u \div Day) + a
                                        /\ OfWeek(e) => (u \div Day) % 7 = e.dow.n
    OBVIOUS
  <2>2. PICK d \in Nat: d = Day * (u \div Day)
    BY Parts
  <2>3. d + h + n = d + a
    BY <1>3, <2>2
  <2>4. QED
    BY <1>2, <2>2, <2>3, FiringDay
<1>6. QED
  BY <1>1, <1>4, <1>5

\* A daily expression is run at its next firing.
LEMMA DailyIsNext ==
  ASSUME NEW e, OfDay(e), NEW t \in Nat
  PROVE  cronNextRun(e, t) \in Nat /\ cronNextRun(e, t) = NextFiring(e, t)
<1>1. PICK a \in 0 .. (Day - 1):
        /\ Today(e, t) = Day * (t \div Day) + a
        /\ \A u \in Nat: Fires(e, u) <=> u = Day * (u \div Day) + a /\ (OfWeek(e) => (u \div Day) % 7 = e.dow.n)
  BY TodayParts
<1>2. ~OfWeek(e)
  BY DEF OfDay, OfWeek, Number, Fixed, Any
<1>3. PICK d \in Nat, m \in 0 .. (Day - 1): d = t \div Day /\ t = Day * d + m
  BY Parts
<1>4. cronNextRun(e, t) = IF Day * d + a <= t THEN Day * d + a + Day ELSE Day * d + a
  <2>1. /\ Given(e.min) /\ Given(e.hour) /\ ~Given(e.dow) /\ Fixed(e.min) /\ Fixed(e.hour) /\ Undated(e)
        /\ e.parts = 5
    BY DEF OfDay, Number, Fixed, Given, Any
  <2>2. cronNextRun(e, t) = Daily(e, t)
    BY <2>1 DEF cronNextRun, FromParts
  <2>3. QED
    BY <1>1, <1>3, <2>1, <2>2 DEF Daily
<1>5. PICK k \in Nat: k = (IF Day * d + a <= t THEN d + 1 ELSE d) /\ cronNextRun(e, t) = Day * k + a
  BY <1>4 DEF Day, Hour
<1>6. t < Day * k + a /\ Day * k + a <= t + Week /\ Day * k + a \in Nat
  BY <1>3, <1>5 DEF Day, Hour, Week
<1>7. Fires(e, Day * k + a)
  BY <1>1, <1>2, <1>6, Whole
<1>8. ASSUME NEW u \in Nat, t < u, u < Day * k + a PROVE ~Fires(e, u)
  <2>1. PICK j \in Nat: j = u \div Day
    BY Parts
  <2>2. u # Day * j + a
    BY <1>3, <1>5, <1>8 DEF Day, Hour
  <2>3. QED
    BY <1>1, <2>1, <2>2
<1>9. QED
  BY <1>5, <1>6, <1>7, <1>8, FirstFiring

\* The days of a week apart: which of them are the day of the week asked for.
LEMMA DaysOfWeek ==
  ASSUME NEW d \in Nat, NEW n \in 0 .. 6, NEW ahead \in 1 .. 7,
         ahead = IF (n + 7 - (d % 7)) % 7 # 0 THEN (n + 7 - (d % 7)) % 7 ELSE 7
  PROVE  /\ (d + ahead) % 7 = n
         /\ \A j \in Nat: d < j /\ j < d + ahead => j % 7 # n
         /\ ahead = 7 <=> d % 7 = n
OBVIOUS

\* A weekly expression is run at a firing, and at most today's is passed over.
LEMMA WeeklyFires ==
  ASSUME NEW e, OfWeek(e), NEW t \in Nat
  PROVE  /\ cronNextRun(e, t) \in Nat /\ Fires(e, cronNextRun(e, t))
         /\ Today(e, t) \in Nat /\ Midnight(t) <= Today(e, t) /\ Today(e, t) < Midnight(t) + Day
         /\ cronNextRun(e, t) >= Midnight(t) + Day /\ cronNextRun(e, t) <= Today(e, t) + Week
         /\ \A u \in Nat: Midnight(t) <= u /\ u < cronNextRun(e, t) /\ Fires(e, u)
              => u = Today(e, t) /\ e.dow.n = WeekDay(t)
         /\ e.dow.n # WeekDay(t) => cronNextRun(e, t) <= Today(e, t) + 6 * Day
<1>1. PICK a \in 0 .. (Day - 1):
        /\ Today(e, t) = Day * (t \div Day) + a
        /\ \A u \in Nat: Fires(e, u) <=> u = Day * (u \div Day) + a /\ (OfWeek(e) => (u \div Day) % 7 = e.dow.n)
  BY TodayParts
<1>2. PICK d \in Nat: d = t \div Day /\ Midnight(t) = Day * d
  BY Parts
<1>3. PICK n \in 0 .. 6: n = e.dow.n
  BY DEF OfWeek, Number
<1>4. PICK ahead \in 1 .. 7: /\ ahead = IF (n + 7 - (d % 7)) % 7 # 0 THEN (n + 7 - (d % 7)) % 7 ELSE 7
                             /\ DaysAhead(e, t) = ahead
  <2>1. PICK x \in 0 .. 6: x = (n + 7 - (d % 7)) % 7
    OBVIOUS
  <2>a. Remainder(n + 7 - (d % 7), 7) = x
    BY <2>1 DEF Remainder
  <2>2. DaysAhead(e, t) = IF x # 0 THEN x ELSE 7
    BY <1>2, <1>3, <2>a DEF DaysAhead, WeekDay, OfWeek, Number
  <2>3. QED
    BY <2>1, <2>2
<1>5. cronNextRun(e, t) = Today(e, t) + ahead * Day
  <2>1. /\ Given(e.min) /\ Given(e.hour) /\ Given(e.dow) /\ Fixed(e.min) /\ Fixed(e.hour) /\ Undated(e)
        /\ e.parts = 5
    BY DEF OfWeek, Number, Fixed, Given
  <2>2. cronNextRun(e, t) = Weekly(e, t)
    BY <2>1 DEF cronNextRun, FromParts
  <2>3. QED
    BY <1>4, <2>1, <2>2 DEF Weekly
<1>6. PICK next \in Nat: next = Day * (d + ahead) + a /\ cronNextRun(e, t) = next
  BY <1>1, <1>2, <1>5 DEF Day, Hour
<1>7. /\ (d + ahead) % 7 = n
      /\ \A j \in Nat: d < j /\ j < d + ahead => j % 7 # n
      /\ ahead = 7 <=> d % 7 = n
  BY <1>4, DaysOfWeek, ZenonT(60)
<1>8. Fires(e, next)
  <2>1. PICK k \in Nat: k = d + ahead
    OBVIOUS
  <2>2. next \div Day = k
    BY <1>6, <2>1, Whole
  <2>3. QED
    BY <1>1, <1>3, <1>6, <1>7, <2>1, <2>2
<1>9. ASSUME NEW u \in Nat, Midnight(t) <= u, u < next, Fires(e, u)
      PROVE  u = Today(e, t) /\ n = d % 7
  <2>1. PICK j \in Nat: j = u \div Day /\ u = Day * j + a /\ j % 7 = n
    BY <1>1, <1>3, <1>9, Parts
  <2>2. d <= j /\ j < d + ahead
    BY <1>2, <1>6, <1>9, <2>1 DEF Day, Hour
  <2>3. j = d
    BY <1>7, <2>1, <2>2
  <2>4. QED
    BY <1>1, <1>2, <2>1, <2>3
<1>10. /\ Today(e, t) \in Nat /\ Midnight(t) <= Today(e, t) /\ Today(e, t) < Midnight(t) + Day
       /\ next >= Midnight(t) + Day /\ next <= Today(e, t) + Week
       /\ ahead # 7 => next <= Today(e, t) + 6 * Day
  BY <1>1, <1>2, <1>6 DEF Day, Hour, Week
<1>11. WeekDay(t) = d % 7
  BY <1>2 DEF WeekDay
<1>12. QED
  BY <1>3, <1>6, <1>7, <1>8, <1>9, <1>10, <1>11

\* An hourly expression is run at its next firing.
LEMMA HourlyIsNext ==
  ASSUME NEW e, OfHour(e), NEW t \in Nat
  PROVE  cronNextRun(e, t) \in Nat /\ cronNextRun(e, t) = NextFiring(e, t)
<1>1. PICK n \in 0 .. 59: n = e.min.n /\ Fixed(e.min)
  BY DEF OfHour, Number
<1>2. PICK r \in Nat: r = t - (t % Hour)
  BY Parts
<1>3. r % Hour = 0 /\ r <= t /\ t < r + Hour
  BY <1>2 DEF Hour
<1>4. cronNextRun(e, t) = IF r + n <= t THEN r + n + Hour ELSE r + n
  <2>1. ~Given(e.hour) /\ ~Given(e.dow) /\ Undated(e) /\ e.parts = 5
    BY DEF OfHour, Given, Any
  <2>2. cronNextRun(e, t) = Hourly(e, t)
    BY <2>1 DEF cronNextRun, FromParts, Undated
  <2>3. QED
    BY <1>1, <1>2, <2>2 DEF Hourly
<1>5. \A u \in Nat: Fires(e, u) <=> u % Hour = n
  BY <1>1 DEF Fires, Names, OfHour, Any, Fixed
<1>6. PICK next \in Nat: next = (IF r + n <= t THEN r + n + Hour ELSE r + n) /\ cronNextRun(e, t) = next
  BY <1>4 DEF Hour
<1>7. t < next /\ next <= t + Week /\ next % Hour = n
  BY <1>3, <1>6 DEF Hour, Day, Week
<1>8. \A u \in Nat: t < u /\ u < next => u % Hour # n
  BY <1>3, <1>6 DEF Hour
<1>9. QED
  BY <1>5, <1>6, <1>7, <1>8, FirstFiring

\* cronNextRun answers the next firing of an expression of an hour, of a day, or of a week
\* on any day but the one it names.
THEOREM NextIsFiring ==
  ASSUME NEW e, NEW t \in Nat, OfHour(e) \/ OfDay(e) \/ (OfWeek(e) /\ e.dow.n # WeekDay(t))
  PROVE  cronNextRun(e, t) \in Nat /\ cronNextRun(e, t) = NextFiring(e, t)
<1>1. CASE OfWeek(e) /\ e.dow.n # WeekDay(t)
  <2>1. PICK next \in Nat: next = cronNextRun(e, t)
    BY <1>1, WeeklyFires
  <2>2. PICK day \in Nat: day = Midnight(t) /\ day <= t /\ t < day + Day
    BY Parts DEF Day, Hour
  <2>3. t < next /\ next <= t + Week
    <3>1. PICK today \in Nat: today = Today(e, t)
      BY <1>1, WeeklyFires
    <3>2. next >= day + Day /\ next <= today + 6 * Day /\ today < day + Day
      BY <1>1, <2>1, <2>2, <3>1, WeeklyFires
    <3>3. QED
      BY <2>2, <3>2 DEF Day, Hour, Week
  <2>4. Fires(e, next) /\ \A u \in Nat: t < u /\ u < next => ~Fires(e, u)
    BY <1>1, <2>1, <2>2, WeeklyFires
  <2>5. QED
    BY <2>1, <2>3, <2>4, FirstFiring
<1>2. QED
  BY <1>1, HourlyIsNext, DailyIsNext

\* On the day it names a weekly expression is put off by a week, even before its hour: its
\* run today is passed over, and only that one.
THEOREM WeeklySkipsToday ==
  ASSUME NEW e, NEW t \in Nat, OfWeek(e), e.dow.n = WeekDay(t)
  PROVE  cronNextRun(e, t) = NextFiring(e, IF Today(e, t) > t THEN Today(e, t) ELSE t)
<1>1. PICK next \in Nat, today \in Nat, day \in Nat:
        /\ next = cronNextRun(e, t) /\ today = Today(e, t) /\ day = Midnight(t)
        /\ next >= day + Day /\ next <= today + Week /\ today < day + Day /\ day <= today
  BY WeeklyFires, Parts
<1>2. day <= t /\ t < day + Day
  BY <1>1, Parts DEF Day, Hour
<1>3. PICK s \in Nat: s = IF Today(e, t) > t THEN Today(e, t) ELSE t
  BY <1>1
<1>4. s < next /\ next <= s + Week /\ day <= s /\ today <= s
  BY <1>1, <1>2, <1>3 DEF Day, Hour, Week
<1>5. Fires(e, next) /\ \A u \in Nat: s < u /\ u < next => ~Fires(e, u)
  <2>1. Fires(e, next) /\ \A u \in Nat: day <= u /\ u < next /\ Fires(e, u) => u = today
    BY <1>1, WeeklyFires
  <2>2. QED
    BY <1>4, <2>1
<1>6. NextFiring(e, s) = next
  BY <1>4, <1>5, FirstFiring
<1>7. QED
  BY <1>1, <1>3, <1>6

\* Of the frequencies the dialog offers, one alone is refused, at whatever time; the others
\* are of an hour, of a day or of a week.
THEOREM OneRefused ==
  ASSUME NEW e \in COMMON_CRONS, NEW t \in Nat, Invalid \notin Nat
  PROVE  /\ cronNextRun(e, t) = Invalid <=> e.hour = Every(6)
         /\ e.hour # Every(6) => OfHour(e) \/ OfDay(e) \/ OfWeek(e)
<1>1. \A n \in 0 .. 59: Number(At(n), 0 .. 59) /\ At(n) # Any /\ At(n) # Every(6)
  BY DEF Number, Fixed, At, Any, Every
<1>2. \/ e.hour = Every(6) /\ Undated(e) /\ Given(e.hour) /\ Given(e.min) /\ ~Given(e.dow) /\ ~Fixed(e.hour)
      \/ e.hour # Every(6) /\ (OfHour(e) \/ OfDay(e) \/ OfWeek(e))
  BY DEF COMMON_CRONS, Expression, At, Any, Every, OfHour, OfDay, OfWeek, Number, Fixed, Given, Undated
<1>a. e.parts = 5
  BY DEF COMMON_CRONS, Expression
<1>3. CASE e.hour = Every(6)
  BY <1>2, <1>3, <1>a DEF cronNextRun, FromParts, Daily
<1>4. CASE e.hour # Every(6)
  <2>1. cronNextRun(e, t) \in Nat
    BY <1>2, <1>4, HourlyIsNext, DailyIsNext, WeeklyFires
  <2>2. QED
    BY <1>2, <1>4, <2>1
<1>5. QED
  BY <1>3, <1>4
=============================================================================
