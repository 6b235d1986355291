----------------------------- MODULE Schedules -----------------------------
(***************************************************************************)
(* One schedule: its row, the job scheduler that BullMQ keeps for it, the  *)
(* jobs that fire it, and the calls of the API that change it.             *)
(*                                                                         *)
(* A call writes the row first and tells the queue afterwards, in calls    *)
(* that may fail: create and update report a failed registration to their  *)
(* caller, an unregistration that fails is swallowed. The processor        *)
(* creates the task in one transaction and notes the firing in another; a  *)
(* job that throws or whose worker dies in between is delivered again.     *)
(***************************************************************************)
EXTENDS Naturals, Sequences, FiniteSets

CONSTANTS
  Caller,     \* concurrent API calls
  MaxJobs,    \* bound: jobs that are queued
  MaxChanges, \* bound: calls that write the row
  MaxFaults   \* bound: failures of the queue, the database or the worker

VARIABLES
  schedule,  \* the row: exists, enabled, cron (changes of the expression)
  timer,     \* the job scheduler: registered, cron
  caller,    \* calls of the API: stage, what they still have to do
  job,       \* fire jobs: manual, stage, attempt, what the delivery saw,
             \* and history: tasks made, failed deliveries, a stray task
  changes, faults,
  overlap,   \* history: two writing calls were in progress at once
  failed     \* history: a call on the queue failed

scheduleVars == <<schedule, timer, caller, job, changes, faults, overlap, failed>>

Idle == [stage |-> "idle", enable |-> FALSE]
attempts == 3   \* DEFAULT_JOB_OPTIONS.attempts

ScheduleInit ==
  /\ schedule = [exists |-> FALSE, enabled |-> FALSE, cron |-> 0]
  /\ timer = [registered |-> FALSE, cron |-> 0]
  /\ caller = [c \in Caller |-> Idle]
  /\ job = <<>>
  /\ changes = 0 /\ faults = 0
  /\ overlap = FALSE /\ failed = FALSE

-----------------------------------------------------------------------------
Busy == {c \in Caller : caller[c].stage # "idle"}

begin(c, stage, enable) ==
  /\ caller[c].stage = "idle" /\ changes < MaxChanges
  /\ changes' = changes + 1
  /\ caller' = [caller EXCEPT ![c] = [stage |-> stage, enable |-> enable]]
  /\ overlap' = (overlap \/ Busy # {})

\* A schedule that is created disabled is not registered.
create(c, enabled) ==
  /\ ~schedule.exists
  /\ schedule' = [exists |-> TRUE, enabled |-> enabled, cron |-> 1]
  /\ begin(c, IF enabled THEN "register" ELSE "idle", enabled)
  /\ UNCHANGED <<timer, job, faults, failed>>

update_noQueue(c, enabled, newCron) ==
  /\ schedule.exists
  /\ schedule' = [schedule EXCEPT !.enabled = enabled,
                                  !.cron = IF newCron THEN @ + 1 ELSE @]
  /\ begin(c, IF enabled THEN "idle" ELSE "unregister", enabled)
  /\ UNCHANGED <<timer, job, faults, failed>>

\* The row after an update; the queue is told according to what it returned.
update(c, enabled, newCron) ==
  /\ schedule.exists
  /\ schedule' = [schedule EXCEPT !.enabled = enabled,
                                  !.cron = IF newCron THEN @ + 1 ELSE @]
  /\ begin(c, IF enabled THEN "register" ELSE "unregister", enabled)
  /\ UNCHANGED <<timer, job, faults, failed>>

\* remove looks for the row, tells the queue, and deletes the row last.
remove(c) ==
  /\ schedule.exists
  /\ begin(c, "removing", FALSE)
  /\ UNCHANGED <<schedule, timer, job, faults, failed>>

\* register reads the row again, and upserts what it reads. A row that is gone
\* by then, or a queue that cannot be reached, fails the call.
register(c) ==
  /\ caller[c].stage = "register"
  /\ \/ /\ schedule.exists
        /\ timer' = [registered |-> TRUE, cron |-> schedule.cron]
        /\ UNCHANGED <<faults, failed>>
     \/ ~schedule.exists /\ UNCHANGED <<timer, faults, failed>>
     \/ /\ faults < MaxFaults /\ faults' = faults + 1
        /\ failed' = TRUE
        /\ UNCHANGED timer
  /\ caller' = [caller EXCEPT ![c] = Idle]
  /\ UNCHANGED <<schedule, job, changes, overlap>>

unregister(c) ==
  /\ caller[c].stage \in {"unregister", "removing"}
  /\ \/ timer' = [timer EXCEPT !.registered = FALSE] /\ UNCHANGED <<faults, failed>>
     \/ /\ faults < MaxFaults /\ faults' = faults + 1
        /\ failed' = TRUE
        /\ UNCHANGED timer
  /\ caller' = [caller EXCEPT ![c].stage =
                  IF caller[c].stage = "removing" THEN "delete" ELSE "idle"]
  /\ UNCHANGED <<schedule, job, changes, overlap>>

delete(c) ==
  /\ caller[c].stage = "delete"
  /\ schedule' = [schedule EXCEPT !.exists = FALSE, !.enabled = FALSE]
  /\ caller' = [caller EXCEPT ![c] = Idle]
  /\ UNCHANGED <<timer, job, changes, faults, overlap, failed>>

-----------------------------------------------------------------------------
queueJob(manual) ==
  /\ Len(job) < MaxJobs
  /\ job' = Append(job, [manual |-> manual, stage |-> "queued", attempt |-> 0,
                         saw |-> FALSE, stray |-> FALSE, tasks |-> 0,
                         faults |-> 0])
  /\ UNCHANGED <<schedule, timer, caller, changes, faults, overlap, failed>>

\* The cron time comes, with whatever the queue has registered.
CronFires == timer.registered /\ queueJob(FALSE)
runNow == schedule.exists /\ queueJob(TRUE)

wanted_always(j) == schedule.exists
\* The schedule exists, and is enabled or fired by hand.
wanted(j) == schedule.exists /\ (schedule.enabled \/ job[j].manual)

others == <<schedule, timer, caller, changes, overlap, failed>>
Working == {j \in DOMAIN job : job[j].stage \in {"read", "created"}}

\* The processor takes one job at a time and reads the schedule.
Fire(j) ==
  /\ job[j].stage = "queued" /\ Working = {}
  /\ job' = [job EXCEPT ![j].stage = IF wanted(j) THEN "read" ELSE "skipped",
                        ![j].attempt = @ + 1, ![j].saw = schedule.enabled]
  /\ UNCHANGED <<faults, others>>

\* The faulty variant retries a transaction that had been committed.
CreateFromSchedule_twice(j) ==
  /\ job[j].stage = "read"
  /\ job' = [job EXCEPT ![j].stage = "created", ![j].tasks = @ + 2]
  /\ UNCHANGED <<faults, others>>

CreateFromSchedule(j) ==
  /\ job[j].stage = "read"
  /\ job' = [job EXCEPT ![j].stage = "created", ![j].tasks = @ + 1,
                        ![j].stray = @ \/ ~(job[j].saw \/ job[j].manual)]
  /\ UNCHANGED <<faults, others>>

again_always(j) == "queued"

again(j) == IF job[j].attempt < attempts THEN "queued" ELSE "failed"

\* lastRunAt and nextRunAt; the update throws when the row has gone, and the
\* job is delivered again.
NoteFiring(j) ==
  /\ job[j].stage = "created"
  /\ job' = [job EXCEPT ![j].stage = IF schedule.exists THEN "done" ELSE again(j),
                        ![j].faults = IF schedule.exists THEN @ ELSE @ + 1]
  /\ UNCHANGED <<faults, others>>

\* The worker dies, or the database fails it.
FireFails(j) ==
  /\ job[j].stage \in {"read", "created"} /\ faults < MaxFaults
  /\ faults' = faults + 1
  /\ job' = [job EXCEPT ![j].stage = again(j), ![j].faults = @ + 1]
  /\ UNCHANGED others

ScheduleNext ==
  \/ \E c \in Caller :
       \/ \E enabled \in BOOLEAN : \/ create(c, enabled)
                                   \/ \E newCron \in BOOLEAN : update(c, enabled, newCron)
       \/ remove(c) \/ register(c) \/ unregister(c) \/ delete(c)
  \/ CronFires \/ runNow
  \/ \E j \in DOMAIN job : \/ Fire(j) \/ CreateFromSchedule(j)
                           \/ NoteFiring(j) \/ FireFails(j)

-----------------------------------------------------------------------------
ScheduleTypeOK ==
  /\ schedule \in [exists : BOOLEAN, enabled : BOOLEAN, cron : Nat]
  /\ timer \in [registered : BOOLEAN, cron : Nat]
  /\ \A j \in DOMAIN job : /\ job[j].attempt <= attempts
                           /\ job[j].stage \in {"queued", "read", "created", "done",
                                                "skipped", "failed"}

\* The row and the queue are two stores without a transaction. When no call is
\* in progress they agree, unless two calls overlapped or the queue failed one:
\* an enabled schedule has a timer with its cron expression, and no other
\* schedule has one.
TimerFollowsRow ==
  Busy = {} /\ ~overlap /\ ~failed =>
    /\ timer.registered <=> schedule.enabled
    /\ timer.registered => timer.cron = schedule.cron

\* A timer or a job that outlives its schedule is harmless: only a firing that
\* saw the schedule enabled, or was asked for by a person, makes a task.
StaleTimersAreHarmless ==
  \A j \in DOMAIN job : ~job[j].stray

\* A firing makes one task. It makes another only for each delivery that failed
\* after it had begun, and never more than the three deliveries of a job.
TasksPerFiring ==
  \A j \in DOMAIN job : /\ job[j].tasks <= 1 + job[j].faults
                        /\ job[j].tasks <= attempts
=============================================================================
