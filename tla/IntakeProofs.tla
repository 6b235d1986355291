---------------------------- MODULE IntakeProofs ----------------------------
(***************************************************************************)
(* Proofs about the parts of MCTaskIntake, for every number of callers,    *)
(* workers and people and every bound.                                     *)
(***************************************************************************)
EXTENDS MCTaskIntake, FiniteSetTheorems, WellFoundedInduction, TLAPS

-----------------------------------------------------------------------------
(***************************************************************************)
(* Schedules. Of calls that do not overlap one is in progress at most: it  *)
(* has written the row that the queue will be told of. A job has made no   *)
(* more tasks than its deliveries, of which all but the last have failed.  *)
(***************************************************************************)
JobRecord == [manual : BOOLEAN, stage : {"queued", "read", "created", "done", "skipped",
                                         "failed"},
              attempt : Nat, saw : BOOLEAN, stray : BOOLEAN, tasks : Nat, faults : Nat]
CallRecord == [stage : {"idle", "register", "unregister", "removing", "delete"},
               enable : BOOLEAN]

ScheduleTypes ==
  /\ schedule \in [exists : BOOLEAN, enabled : BOOLEAN, cron : Nat]
  /\ timer \in [registered : BOOLEAN, cron : Nat]
  /\ caller \in [Caller -> CallRecord] /\ job \in Seq(JobRecord)
  /\ overlap \in BOOLEAN /\ failed \in BOOLEAN

Agreed == /\ timer.registered <=> schedule.enabled
          /\ timer.registered => timer.cron = schedule.cron

TimerInv ==
  /\ schedule.enabled => schedule.exists
  /\ ~overlap /\ ~failed =>
       /\ S!Busy = {} => Agreed
       /\ \A c, d \in S!Busy : c = d
       /\ \A c \in Caller : /\ caller[c].stage = "register" => schedule.enabled
                            /\ caller[c].stage = "unregister" => ~schedule.enabled
                            /\ caller[c].stage = "delete" => ~timer.registered

JobInv(j) ==
  /\ j.attempt <= S!attempts /\ j.tasks <= j.attempt
  /\ j.tasks <= IF j.stage \in {"created", "done"} THEN 1 + j.faults ELSE j.faults
  /\ j.stage = "queued" => j.attempt < S!attempts
  /\ j.stage = "read" => j.tasks < j.attempt /\ (j.saw \/ j.manual)
  /\ ~j.stray

ScheduleInv ==
  ScheduleTypes /\ TimerInv /\ \A j \in DOMAIN job : JobInv(job[j])

LEMMA ScheduleInit == S!ScheduleInit => ScheduleInv
<1> SUFFICES ASSUME S!ScheduleInit PROVE ScheduleInv OBVIOUS
<1>1. ScheduleTypes
  <2>1. schedule \in [exists : BOOLEAN, enabled : BOOLEAN, cron : Nat]
    BY DEF S!ScheduleInit
  <2>2. timer \in [registered : BOOLEAN, cron : Nat] BY DEF S!ScheduleInit
  <2>3. caller \in [Caller -> CallRecord] BY DEF S!ScheduleInit, S!Idle, CallRecord
  <2>4. job \in Seq(JobRecord) BY DEF S!ScheduleInit
  <2> QED BY <2>1, <2>2, <2>3, <2>4 DEF S!ScheduleInit, ScheduleTypes
<1>2. TimerInv BY DEF S!ScheduleInit, TimerInv, Agreed, S!Busy, S!Idle
<1>3. job = <<>> BY DEF S!ScheduleInit
<1> QED BY <1>1, <1>2, <1>3 DEF ScheduleInv

\* A call that begins alone leaves the jobs alone and overlaps nobody.
LEMMA Begins ==
  ASSUME ScheduleInv, NEW c \in Caller, NEW enable \in BOOLEAN,
         NEW stage \in {"idle", "register", "unregister", "removing"},
         S!begin(c, stage, enable)
  PROVE  /\ caller' \in [Caller -> CallRecord] /\ overlap' \in BOOLEAN
         /\ ~overlap' => /\ ~overlap /\ S!Busy = {}
                         /\ \A d \in S!Busy' : d = c
                         /\ stage = "idle" => S!Busy' = {}
                         /\ \A d \in Caller : caller'[d].stage = IF d = c THEN stage ELSE "idle"
BY DEF S!begin, ScheduleInv, ScheduleTypes, S!Busy, CallRecord

LEMMA KeepsJobs ==
  ASSUME ScheduleInv, UNCHANGED job
  PROVE  \A j \in DOMAIN job' : JobInv(job[j])'
BY DEF ScheduleInv, JobInv, S!attempts

LEMMA KeepsCalls ==
  ASSUME ScheduleInv, NEW c \in Caller
  PROVE  /\ \A enabled \in BOOLEAN : S!create(c, enabled) => ScheduleInv'
         /\ \A enabled, newCron \in BOOLEAN : S!update(c, enabled, newCron) => ScheduleInv'
         /\ S!remove(c) => ScheduleInv'
         /\ S!register(c) => ScheduleInv'
         /\ S!unregister(c) => ScheduleInv'
         /\ S!delete(c) => ScheduleInv'
<1> USE DEF S!Idle, CallRecord
<1>1. ASSUME NEW enabled \in BOOLEAN, S!create(c, enabled) PROVE ScheduleInv'
  <2>1. S!begin(c, IF enabled THEN "register" ELSE "idle", enabled) BY <1>1 DEF S!create
  <2>2. ScheduleTypes' BY <1>1, <2>1, Begins DEF S!create, ScheduleInv, ScheduleTypes
  <2>3. TimerInv' BY <1>1, <2>1, Begins DEF S!create, ScheduleInv, ScheduleTypes, TimerInv, Agreed, S!Busy
  <2> QED BY <1>1, <2>2, <2>3, KeepsJobs DEF S!create, ScheduleInv
<1>2. ASSUME NEW enabled \in BOOLEAN, NEW newCron \in BOOLEAN, S!update(c, enabled, newCron)
      PROVE  ScheduleInv'
  <2>1. S!begin(c, IF enabled THEN "register" ELSE "unregister", enabled) BY <1>2 DEF S!update
  <2>0. schedule' \in [exists : BOOLEAN, enabled : BOOLEAN, cron : Nat]
    <3>1. schedule.cron \in Nat /\ schedule.cron + 1 \in Nat
      BY DEF ScheduleInv, ScheduleTypes
    <3>2. PICK n \in Nat : schedule' = [schedule EXCEPT !.enabled = enabled, !.cron = n]
      BY <1>2, <3>1 DEF S!update
    <3> QED BY <3>2 DEF ScheduleInv, ScheduleTypes
  <2>2. ScheduleTypes' BY <1>2, <2>0, <2>1, Begins DEF S!update, ScheduleInv, ScheduleTypes
  <2>3. TimerInv' BY <1>2, <2>1, Begins DEF S!update, ScheduleInv, ScheduleTypes, TimerInv, Agreed, S!Busy
  <2> QED BY <1>2, <2>2, <2>3, KeepsJobs DEF S!update, ScheduleInv
<1>3. CASE S!remove(c)
  <2>1. S!begin(c, "removing", FALSE) BY <1>3 DEF S!remove
  <2>2. ScheduleTypes' BY <1>3, <2>1, Begins DEF S!remove, ScheduleInv, ScheduleTypes
  <2>3. TimerInv' BY <1>3, <2>1, Begins DEF S!remove, ScheduleInv, ScheduleTypes, TimerInv, Agreed, S!Busy
  <2> QED BY <1>3, <2>2, <2>3, KeepsJobs DEF S!remove, ScheduleInv
<1>4. CASE S!register(c)
  <2>0. timer' \in [registered : BOOLEAN, cron : Nat]
    <3>1. CASE UNCHANGED timer BY <3>1 DEF ScheduleInv, ScheduleTypes
    <3>2. CASE timer' = [registered |-> TRUE, cron |-> schedule.cron]
      BY <3>2 DEF ScheduleInv, ScheduleTypes
    <3> QED BY <1>4, <3>1, <3>2 DEF S!register
  <2>2. ScheduleTypes' BY <1>4, <2>0 DEF S!register, ScheduleInv, ScheduleTypes
  <2>3. TimerInv' BY <1>4 DEF S!register, ScheduleInv, ScheduleTypes, TimerInv, Agreed, S!Busy
  <2> QED BY <1>4, <2>2, <2>3, KeepsJobs DEF S!register, ScheduleInv
<1>5. CASE S!unregister(c)
  <2>2. ScheduleTypes' BY <1>5 DEF S!unregister, ScheduleInv, ScheduleTypes
  <2>3. TimerInv' BY <1>5 DEF S!unregister, ScheduleInv, ScheduleTypes, TimerInv, Agreed, S!Busy
  <2> QED BY <1>5, <2>2, <2>3, KeepsJobs DEF S!unregister, ScheduleInv
<1>6. CASE S!delete(c)
  <2>2. ScheduleTypes' BY <1>6 DEF S!delete, ScheduleInv, ScheduleTypes
  <2>3. TimerInv' BY <1>6 DEF S!delete, ScheduleInv, ScheduleTypes, TimerInv, Agreed, S!Busy
  <2> QED BY <1>6, <2>2, <2>3, KeepsJobs DEF S!delete, ScheduleInv
<1> QED BY <1>1, <1>2, <1>3, <1>4, <1>5, <1>6

\* A step of one job leaves the row, the timer, the calls and other jobs alone.
LEMMA OneJob ==
  ASSUME ScheduleInv, UNCHANGED S!others, NEW j \in DOMAIN job, NEW r \in JobRecord,
         job' = [job EXCEPT ![j] = r], JobInv(r)
  PROVE  ScheduleInv'
<1>1. ScheduleTypes' BY DEF S!others, ScheduleInv, ScheduleTypes
<1>2. TimerInv' BY DEF S!others, ScheduleInv, TimerInv, Agreed, S!Busy
<1>3. \A k \in DOMAIN job' : JobInv(job'[k]) BY DEF ScheduleInv, ScheduleTypes
<1> QED BY <1>1, <1>2, <1>3 DEF ScheduleInv, JobInv, S!attempts

LEMMA KeepsFirings ==
  ASSUME ScheduleInv, NEW j \in DOMAIN job
  PROVE  /\ S!Fire(j) => ScheduleInv'
         /\ S!CreateFromSchedule(j) => ScheduleInv'
         /\ S!NoteFiring(j) => ScheduleInv'
         /\ S!FireFails(j) => ScheduleInv'
<1> DEFINE r == job'[j]
<1>1. job[j] \in JobRecord /\ JobInv(job[j]) BY DEF ScheduleInv, ScheduleTypes
<1>2. schedule.enabled \in BOOLEAN BY DEF ScheduleInv, ScheduleTypes
<1>3. CASE S!Fire(j)
  <2>1. job' = [job EXCEPT ![j] = r] /\ UNCHANGED S!others BY <1>3 DEF S!Fire
  <2>2. PICK s \in {"read", "skipped"} :
          /\ r = [job[j] EXCEPT !.stage = s, !.attempt = job[j].attempt + 1,
                              !.saw = schedule.enabled]
          /\ s = "read" => schedule.enabled \/ job[j].manual
    BY <1>3 DEF S!Fire, S!wanted
  <2>3. job[j].attempt + 1 \in Nat /\ job[j].stage = "queued" BY <1>1, <1>3 DEF JobRecord, S!Fire
  <2> HIDE DEF r
  <2>4. r \in JobRecord BY <1>1, <1>2, <2>2, <2>3 DEF JobRecord
  <2>5. JobInv(r) BY <1>1, <1>2, <2>2, <2>3 DEF JobRecord, JobInv, S!attempts
  <2> QED BY <2>1, <2>4, <2>5, OneJob
<1>4. CASE S!CreateFromSchedule(j)
  <2>1. job' = [job EXCEPT ![j] = r] /\ UNCHANGED S!others BY <1>4 DEF S!CreateFromSchedule
  <2>2. r \in JobRecord /\ JobInv(r)
    BY <1>1, <1>4 DEF S!CreateFromSchedule, JobRecord, JobInv, S!attempts
  <2> QED BY <2>1, <2>2, OneJob
<1>5. CASE S!NoteFiring(j)
  <2>1. job' = [job EXCEPT ![j] = r] /\ UNCHANGED S!others BY <1>5 DEF S!NoteFiring
  <2>2. \/ r = [job[j] EXCEPT !.stage = "done", !.faults = job[j].faults]
        \/ r = [job[j] EXCEPT !.stage = S!again(j), !.faults = job[j].faults + 1]
    BY <1>5 DEF S!NoteFiring
  <2>3. /\ job[j].faults \in Nat /\ job[j].faults + 1 \in Nat
        /\ job[j].stage \in {"read", "created"}
        /\ S!again(j) \in {"queued", "failed"}
        /\ S!again(j) = "queued" => job[j].attempt < S!attempts
    BY <1>1, <1>5 DEF JobRecord, S!NoteFiring, S!again
  <2> HIDE DEF r
  <2>4. r \in JobRecord BY <1>1, <2>2, <2>3 DEF JobRecord
  <2>5. JobInv(r)
    <3>1. CASE r = [job[j] EXCEPT !.stage = "done", !.faults = job[j].faults]
      BY <1>1, <2>3, <3>1 DEF JobRecord, JobInv, S!attempts
    <3>2. CASE r = [job[j] EXCEPT !.stage = S!again(j), !.faults = job[j].faults + 1]
      BY <1>1, <2>3, <3>2 DEF JobRecord, JobInv, S!attempts
    <3> QED BY <2>2, <3>1, <3>2
  <2> QED BY <2>1, <2>4, <2>5, OneJob
<1>6. CASE S!FireFails(j)
  <2>1. job' = [job EXCEPT ![j] = r] /\ UNCHANGED S!others BY <1>6 DEF S!FireFails
  <2>2. r = [job[j] EXCEPT !.stage = S!again(j), !.faults = job[j].faults + 1]
    BY <1>6 DEF S!FireFails
  <2>3. /\ job[j].faults \in Nat /\ job[j].faults + 1 \in Nat
        /\ job[j].stage \in {"read", "created"}
        /\ S!again(j) \in {"queued", "failed"}
        /\ S!again(j) = "queued" => job[j].attempt < S!attempts
    BY <1>1, <1>6 DEF JobRecord, S!FireFails, S!again
  <2> HIDE DEF r
  <2>4. r \in JobRecord BY <1>1, <2>2, <2>3 DEF JobRecord
  <2>5. JobInv(r) BY <1>1, <2>2, <2>3 DEF JobRecord, JobInv, S!attempts
  <2> QED BY <2>1, <2>4, <2>5, OneJob
<1> QED BY <1>3, <1>4, <1>5, <1>6

LEMMA KeepsQueue ==
  ASSUME ScheduleInv, NEW manual \in BOOLEAN, S!queueJob(manual)
  PROVE  ScheduleInv'
<1> DEFINE r == [manual |-> manual, stage |-> "queued", attempt |-> 0, saw |-> FALSE,
                 stray |-> FALSE, tasks |-> 0, faults |-> 0]
<1>1. job' = Append(job, r) /\ UNCHANGED <<schedule, timer, caller, overlap, failed>>
  BY DEF S!queueJob
<1>2. r \in JobRecord /\ JobInv(r) BY DEF JobRecord, JobInv, S!attempts
<1> HIDE DEF r
<1>3. ScheduleTypes' BY <1>1, <1>2 DEF ScheduleInv, ScheduleTypes
<1>4. TimerInv' BY <1>1 DEF ScheduleInv, TimerInv, Agreed, S!Busy
<1>5. \A k \in DOMAIN job' : JobInv(job'[k]) BY <1>1, <1>2 DEF ScheduleInv, ScheduleTypes
<1> QED BY <1>3, <1>4, <1>5 DEF ScheduleInv, JobInv, S!attempts

LEMMA ScheduleNext == ASSUME ScheduleInv, [S!ScheduleNext]_planned PROVE ScheduleInv'
<1>1. CASE UNCHANGED planned
  BY <1>1 DEF planned, ScheduleInv, ScheduleTypes, TimerInv, Agreed, S!Busy, JobInv, S!attempts
<1>2. CASE S!CronFires \/ S!runNow BY <1>2, KeepsQueue DEF S!CronFires, S!runNow
<1>3. CASE S!ScheduleNext /\ ~(S!CronFires \/ S!runNow)
  BY <1>3, KeepsCalls, KeepsFirings DEF S!ScheduleNext
<1> QED BY <1>1, <1>2, <1>3
-----------------------------------------------------------------------------
(***************************************************************************)
(* The inbox.  While no two workers were about to ask at once the one that *)
(* is has found no pending approval. A person who claims an approval read  *)
(* it from the rows; one who approves has counted every blocking finding   *)
(* but the ones that came since.                                           *)
(***************************************************************************)
PersonRecord == [at : {"idle", "claim", "approve", "record"}, id : Nat,
                 decision : {"none"} \cup I!Decisions]
ApprovalRecord == [status : {"PENDING"} \cup I!Decisions, decided : Nat]

InboxTypes ==
  /\ waiting \in {"WORKING", "NEEDS_HUMAN_REVIEW", "APPROVED", "FAILED"}
  /\ attempts \in Seq(I!Active \cup {"FAILED", "CANCELLED"})
  /\ Len(attempts) \in 1..MaxRuns
  /\ approvals \in Seq(ApprovalRecord)
  /\ findings \in Seq({"OPEN", "FIXING", "RESOLVED"})
  /\ parker \in [Worker -> {"idle", "look", "create"}]
  /\ page \in [Person -> SUBSET (DOMAIN approvals)]
  /\ person \in [Person -> PersonRecord]
  /\ unseen \in [Person -> SUBSET Nat]
  /\ moved \in BOOLEAN /\ both \in BOOLEAN /\ blind \in BOOLEAN

AskInv ==
  ~both => /\ \A a, b \in I!pending : a = b
           /\ \A w \in Worker : parker[w] = "create" =>
                /\ I!pending = {}
                /\ \A v \in Worker : parker[v] = "create" => v = w

AnswerInv ==
  /\ I!DecisionsAreMadeOnce
  /\ \A p \in Person : person[p].at = "claim" => /\ person[p].id \in DOMAIN approvals
                                                /\ person[p].decision \in I!Decisions

ShownInv ==
  attempts[Len(attempts)] = "WAITING_FOR_HUMAN" /\ ~moved => waiting = "NEEDS_HUMAN_REVIEW"

CountInv ==
  /\ \A p \in Person : person[p].at = "approve" => I!blocking \subseteq unseen[p]
  /\ ~blind

InboxInv == InboxTypes /\ AskInv /\ AnswerInv /\ ShownInv /\ CountInv

LEMMA InboxInit == ASSUME I!InboxInit PROVE InboxInv
<1>1. InboxTypes
  <2>1. person \in [Person -> PersonRecord] BY DEF I!InboxInit, I!idle, PersonRecord
  <2>2. approvals = <<>> /\ findings = <<>> /\ attempts = <<"RUNNING">> BY DEF I!InboxInit
  <2>3. /\ approvals \in Seq(ApprovalRecord) /\ findings \in Seq({"OPEN", "FIXING", "RESOLVED"})
        /\ attempts \in Seq(I!Active \cup {"FAILED", "CANCELLED"}) /\ Len(attempts) = 1
    BY <2>2 DEF I!Active, I!Live
  <2>4. Len(attempts) \in 1..MaxRuns BY <2>3, InboxAssumption
  <2> QED BY <2>1, <2>3, <2>4 DEF I!InboxInit, InboxTypes
<1>2. AskInv BY DEF I!InboxInit, AskInv, I!pending
<1>3. AnswerInv BY DEF I!InboxInit, AnswerInv, I!DecisionsAreMadeOnce, I!idle
<1>4. ShownInv BY DEF I!InboxInit, ShownInv
<1>5. CountInv BY DEF I!InboxInit, CountInv, I!idle
<1> QED BY <1>1, <1>2, <1>3, <1>4, <1>5 DEF InboxInv

\* The run that ends ends the other active runs: none of them waits.
LEMMA Finishes ==
  ASSUME InboxInv, NEW r \in DOMAIN attempts,
         NEW status \in {"WAITING_FOR_HUMAN", "FAILED"},
         NEW to \in {"NEEDS_HUMAN_REVIEW", "FAILED"},
         I!finishWorkflow(r, status, to), status = "WAITING_FOR_HUMAN" => to = "NEEDS_HUMAN_REVIEW"
  PROVE  /\ waiting' = to /\ moved' = FALSE /\ ShownInv'
         /\ attempts' \in Seq(I!Active \cup {"FAILED", "CANCELLED"})
         /\ Len(attempts') \in 1..MaxRuns
<1> DEFINE R == I!Active \cup {"FAILED", "CANCELLED"}
<1>1. attempts \in Seq(R) /\ Len(attempts) \in 1..MaxRuns BY DEF InboxInv, InboxTypes
<1>2. /\ attempts' = [i \in DOMAIN attempts |-> IF i = r THEN status
                        ELSE IF attempts[i] \in I!Active THEN "CANCELLED" ELSE attempts[i]]
      /\ waiting' = to /\ moved' = FALSE
  BY DEF I!finishWorkflow
<1>3. status \in R /\ "CANCELLED" \in R BY DEF I!Active
<1> HIDE DEF R
<1>4. attempts' \in [1..Len(attempts) -> R] BY <1>1, <1>2, <1>3
<1>5. attempts' \in Seq(R) /\ Len(attempts') = Len(attempts) BY <1>1, <1>4
<1>6. Len(attempts) \in DOMAIN attempts BY <1>1
<1>7. ShownInv' BY <1>2, <1>5, <1>6 DEF ShownInv, I!Active
<1> QED BY <1>1, <1>2, <1>5, <1>7 DEF R

LEMMA KeepsPark ==
  ASSUME InboxInv, NEW w \in Worker, NEW r \in DOMAIN attempts, I!Park(w, r)
  PROVE  InboxInv'
<1>1. I!finishWorkflow(r, "WAITING_FOR_HUMAN", "NEEDS_HUMAN_REVIEW") BY DEF I!Park
<1>2. InboxTypes' BY <1>1, Finishes DEF I!Park, InboxInv, InboxTypes
<1>3. AskInv' BY DEF I!Park, InboxInv, InboxTypes, AskInv, I!pending
<1>4. AnswerInv' BY DEF I!Park, InboxInv, AnswerInv, I!DecisionsAreMadeOnce
<1>5. CountInv' BY DEF I!Park, InboxInv, CountInv, I!blocking
<1> QED BY <1>1, <1>2, <1>3, <1>4, <1>5, Finishes DEF InboxInv

LEMMA KeepsFail ==
  ASSUME InboxInv, NEW r \in DOMAIN attempts, I!Fail(r)
  PROVE  InboxInv'
<1>1. I!finishWorkflow(r, "FAILED", "FAILED") BY DEF I!Fail
<1>2. InboxTypes' BY <1>1, Finishes DEF I!Fail, InboxInv, InboxTypes
<1>3. AskInv' BY DEF I!Fail, InboxInv, InboxTypes, AskInv, I!pending
<1>4. AnswerInv' BY DEF I!Fail, InboxInv, AnswerInv, I!DecisionsAreMadeOnce
<1>5. CountInv' BY DEF I!Fail, InboxInv, CountInv, I!blocking
<1> QED BY <1>1, <1>2, <1>3, <1>4, <1>5, Finishes DEF InboxInv

LEMMA KeepsAsking ==
  ASSUME InboxInv, NEW w \in Worker
  PROVE  /\ I!lookup(w) => InboxInv'
         /\ I!requestApproval(w) => InboxInv'
         /\ I!Dies(w) => InboxInv'
<1>1. CASE I!lookup(w)
  <2>1. InboxTypes' BY <1>1 DEF I!lookup, InboxInv, InboxTypes
  <2>2. AskInv' BY <1>1 DEF I!lookup, InboxInv, InboxTypes, AskInv, I!pending
  <2>3. AnswerInv' BY <1>1 DEF I!lookup, InboxInv, AnswerInv, I!DecisionsAreMadeOnce
  <2>4. ShownInv' BY <1>1 DEF I!lookup, InboxInv, ShownInv
  <2>5. CountInv' BY <1>1 DEF I!lookup, InboxInv, CountInv, I!blocking
  <2> QED BY <2>1, <2>2, <2>3, <2>4, <2>5 DEF InboxInv
<1>2. CASE I!requestApproval(w)
  <2> DEFINE r == [status |-> "PENDING", decided |-> 0]
  <2>1. InboxTypes'
    <3>1. r \in ApprovalRecord BY DEF ApprovalRecord
    <3>2. approvals \in Seq(ApprovalRecord) BY DEF InboxInv, InboxTypes
    <3>3. approvals' = Append(approvals, r) BY <1>2 DEF I!requestApproval
    <3> HIDE DEF r
    <3>4. approvals' \in Seq(ApprovalRecord) /\ DOMAIN approvals \subseteq DOMAIN approvals'
      BY <3>1, <3>2, <3>3
    <3> QED BY <1>2, <3>4 DEF I!requestApproval, InboxInv, InboxTypes
  <2>2. AskInv' BY <1>2 DEF I!requestApproval, InboxInv, InboxTypes, AskInv, I!pending
  <2>3. AnswerInv'
    BY <1>2 DEF I!requestApproval, InboxInv, InboxTypes, AnswerInv, I!DecisionsAreMadeOnce
  <2>4. ShownInv' BY <1>2 DEF I!requestApproval, InboxInv, ShownInv
  <2>5. CountInv' BY <1>2 DEF I!requestApproval, InboxInv, CountInv, I!blocking
  <2> QED BY <2>1, <2>2, <2>3, <2>4, <2>5 DEF InboxInv
<1>3. CASE I!Dies(w)
  <2>1. InboxTypes' BY <1>3 DEF I!Dies, InboxInv, InboxTypes
  <2>2. AskInv' BY <1>3 DEF I!Dies, InboxInv, InboxTypes, AskInv, I!pending
  <2>3. AnswerInv' BY <1>3 DEF I!Dies, InboxInv, AnswerInv, I!DecisionsAreMadeOnce
  <2>4. ShownInv' BY <1>3 DEF I!Dies, InboxInv, ShownInv
  <2>5. CountInv' BY <1>3 DEF I!Dies, InboxInv, CountInv, I!blocking
  <2> QED BY <2>1, <2>2, <2>3, <2>4, <2>5 DEF InboxInv
<1> QED BY <1>1, <1>2, <1>3

\* A finding that is new is one of the unseen; one that moves does not come back.
LEMMA KeepsFindings ==
  ASSUME InboxInv
  PROVE  /\ I!OpenFinding => InboxInv'
         /\ \A f \in DOMAIN findings : I!MoveFinding(f) => InboxInv'
<1> DEFINE F == {"OPEN", "FIXING", "RESOLVED"}
<1>0. findings \in Seq(F) BY DEF InboxInv, InboxTypes
<1>1. CASE I!OpenFinding
  <2>1. findings' \in Seq(F) BY <1>0, <1>1 DEF I!OpenFinding
  <2>2. InboxTypes' BY <1>0, <1>1, <2>1 DEF I!OpenFinding, InboxInv, InboxTypes
  <2>3. AskInv' BY <1>1 DEF I!OpenFinding, InboxInv, AskInv, I!pending
  <2>4. AnswerInv' BY <1>1 DEF I!OpenFinding, InboxInv, AnswerInv, I!DecisionsAreMadeOnce
  <2>5. ShownInv' BY <1>1 DEF I!OpenFinding, InboxInv, ShownInv
  <2>6. CountInv' BY <1>0, <1>1 DEF I!OpenFinding, InboxInv, InboxTypes, CountInv, I!blocking
  <2> QED BY <2>2, <2>3, <2>4, <2>5, <2>6 DEF InboxInv
<1>2. ASSUME NEW f \in DOMAIN findings, I!MoveFinding(f) PROVE InboxInv'
  <2>1. findings' \in Seq(F) BY <1>0, <1>2 DEF I!MoveFinding
  <2>2. InboxTypes' BY <1>0, <1>2, <2>1 DEF I!MoveFinding, InboxInv, InboxTypes
  <2>3. AskInv' BY <1>2 DEF I!MoveFinding, InboxInv, AskInv, I!pending
  <2>4. AnswerInv' BY <1>2 DEF I!MoveFinding, InboxInv, AnswerInv, I!DecisionsAreMadeOnce
  <2>5. ShownInv' BY <1>2 DEF I!MoveFinding, InboxInv, ShownInv
  <2>6. CountInv' BY <1>0, <1>2 DEF I!MoveFinding, InboxInv, InboxTypes, CountInv, I!blocking
  <2> QED BY <2>2, <2>3, <2>4, <2>5, <2>6 DEF InboxInv
<1> QED BY <1>1, <1>2

\* What one person's request does to the record of it.
LEMMA Goes ==
  ASSUME InboxTypes, NEW p \in Person, NEW at \in {"idle", "claim", "approve", "record"},
         NEW id \in Nat, NEW d \in {"none"} \cup I!Decisions, I!goto(p, at, id, d)
  PROVE  /\ person' \in [Person -> PersonRecord]
         /\ person'[p] = [at |-> at, id |-> id, decision |-> d]
         /\ \A q \in Person \ {p} : person'[q] = person[q]
BY DEF InboxTypes, I!goto, PersonRecord

LEMMA KeepsAnswers ==
  ASSUME InboxInv, NEW p \in Person
  PROVE  /\ I!Poll(p) => InboxInv'
         /\ \A a \in DOMAIN approvals, d \in I!Decisions : I!decide(p, a, d) => InboxInv'
         /\ I!claim(p) => InboxInv'
<1>0. InboxTypes /\ approvals \in Seq(ApprovalRecord) BY DEF InboxInv, InboxTypes
<1>1. CASE I!Poll(p)
  <2>0. page' \in [Person -> SUBSET (DOMAIN approvals)]
    <3>1. {i[2] : i \in {j \in I!list : j[1] = "APPROVAL"}} \subseteq DOMAIN approvals
      BY DEF I!list, I!pending
    <3> QED BY <1>0, <1>1, <3>1 DEF I!Poll, InboxTypes
  <2>1. InboxTypes' BY <1>1, <2>0 DEF I!Poll, InboxInv, InboxTypes
  <2>2. AskInv' BY <1>1 DEF I!Poll, InboxInv, AskInv, I!pending
  <2>3. AnswerInv' BY <1>1 DEF I!Poll, InboxInv, AnswerInv, I!DecisionsAreMadeOnce
  <2>4. ShownInv' BY <1>1 DEF I!Poll, InboxInv, ShownInv
  <2>5. CountInv' BY <1>1 DEF I!Poll, InboxInv, CountInv, I!blocking
  <2> QED BY <2>1, <2>2, <2>3, <2>4, <2>5 DEF InboxInv
<1>2. ASSUME NEW a \in DOMAIN approvals, NEW d \in I!Decisions, I!decide(p, a, d)
      PROVE  InboxInv'
  <2>0. I!goto(p, "claim", a, d) /\ a \in Nat BY <1>0, <1>2 DEF I!decide
  <2>a. /\ person' \in [Person -> PersonRecord]
        /\ person'[p] = [at |-> "claim", id |-> a, decision |-> d]
        /\ \A q \in Person \ {p} : person'[q] = person[q]
    BY <1>0, <2>0, Goes
  <2>1. InboxTypes' BY <1>2, <2>a DEF I!decide, InboxInv, InboxTypes
  <2>2. AskInv' BY <1>2 DEF I!decide, InboxInv, AskInv, I!pending
  <2>3. AnswerInv' BY <1>2, <2>a DEF I!decide, InboxInv, AnswerInv, I!DecisionsAreMadeOnce
  <2>4. ShownInv' BY <1>2 DEF I!decide, InboxInv, ShownInv
  <2>5. CountInv' BY <1>2, <2>a DEF I!decide, InboxInv, CountInv, I!blocking
  <2> QED BY <2>1, <2>2, <2>3, <2>4, <2>5 DEF InboxInv
<1>3. CASE I!claim(p)
  <2> DEFINE a == person[p].id
             d == person[p].decision
  <2>0. I!goto(p, "idle", 0, "none") BY <1>3 DEF I!claim
  <2>a. /\ person' \in [Person -> PersonRecord]
        /\ person'[p] = [at |-> "idle", id |-> 0, decision |-> "none"]
        /\ \A q \in Person \ {p} : person'[q] = person[q]
    BY <1>0, <2>0, Goes
  <2>b. a \in DOMAIN approvals /\ d \in I!Decisions BY <1>3 DEF I!claim, InboxInv, AnswerInv
  <2>c. \/ UNCHANGED approvals
        \/ /\ approvals[a].status = "PENDING" /\ approvals[a].decided = 0
           /\ \E r \in ApprovalRecord :
                /\ r.status = d /\ r.decided = 1 /\ approvals' = [approvals EXCEPT ![a] = r]
    <3>1. CASE ~I!claimable(a) BY <1>3, <3>1 DEF I!claim
    <3>2. CASE I!claimable(a)
      <4> DEFINE r == approvals'[a]
      <4>1. /\ approvals[a] \in ApprovalRecord /\ approvals[a].status = "PENDING"
            /\ approvals[a].decided = 0
        BY <1>0, <2>b, <3>2 DEF I!claimable, InboxInv, AnswerInv, I!DecisionsAreMadeOnce
      <4>2. approvals' = [approvals EXCEPT ![a].status = d, ![a].decided = @ + 1]
        BY <1>3, <3>2 DEF I!claim
      <4>3. approvals' = [approvals EXCEPT ![a] = r] BY <1>0, <2>b, <4>2
      <4>4. 0 + 1 \in Nat /\ 0 + 1 = 1 OBVIOUS
      <4>5. r = [approvals[a] EXCEPT !.status = d, !.decided = 0 + 1]
        BY <1>0, <2>b, <4>1, <4>2
      <4>6. r \in ApprovalRecord /\ r.status = d /\ r.decided = 1
        BY <2>b, <4>1, <4>4, <4>5 DEF ApprovalRecord
      <4> QED BY <4>1, <4>3, <4>6
    <3> QED BY <3>1, <3>2
  <2> HIDE DEF a, d
  <2>d. approvals' \in Seq(ApprovalRecord) /\ DOMAIN approvals' = DOMAIN approvals
    BY <1>0, <2>b, <2>c DEF ApprovalRecord
  <2>1. InboxTypes' BY <1>3, <2>a, <2>d DEF I!claim, InboxInv, InboxTypes
  <2>e. I!pending' \subseteq I!pending
    BY <1>0, <2>b, <2>c, <2>d DEF I!pending, I!Decisions
  <2>2. AskInv' BY <1>3, <2>e DEF I!claim, InboxInv, AskInv
  <2>3. AnswerInv'
    <3>1. I!DecisionsAreMadeOnce'
      BY <1>0, <2>b, <2>c, <2>d DEF InboxInv, AnswerInv, I!DecisionsAreMadeOnce, I!Decisions
    <3>2. \A q \in Person : person[q].at = "claim" => /\ person[q].id \in DOMAIN approvals
                                                     /\ person[q].decision \in I!Decisions
      BY DEF InboxInv, AnswerInv
    <3>3. \A q \in Person : person'[q].at = "claim" => person'[q] = person[q]
      BY <2>a
    <3> QED BY <2>d, <3>1, <3>2, <3>3 DEF AnswerInv
  <2>4. ShownInv' BY <1>3 DEF I!claim, InboxInv, ShownInv
  <2>5. CountInv' BY <1>3, <2>a DEF I!claim, InboxInv, CountInv, I!blocking
  <2> QED BY <2>1, <2>2, <2>3, <2>4, <2>5 DEF InboxInv
<1> QED BY <1>1, <1>2, <1>3

LEMMA KeepsApproval ==
  ASSUME InboxInv, NEW p \in Person
  PROVE  /\ I!approve(p) => InboxInv'
         /\ I!transition(p) => InboxInv'
         /\ I!recordApproval(p) => InboxInv'
<1>0. InboxTypes /\ approvals \in Seq(ApprovalRecord) BY DEF InboxInv, InboxTypes
<1>1. CASE I!approve(p)
  <2>0. I!goto(p, "approve", 0, "none") BY <1>1 DEF I!approve
  <2>a. /\ person' \in [Person -> PersonRecord]
        /\ person'[p] = [at |-> "approve", id |-> 0, decision |-> "none"]
        /\ \A q \in Person \ {p} : person'[q] = person[q]
    BY <1>0, <2>0, Goes
  <2>1. InboxTypes' BY <1>1, <2>a DEF I!approve, InboxInv, InboxTypes
  <2>2. AskInv' BY <1>1 DEF I!approve, InboxInv, AskInv, I!pending
  <2>3. AnswerInv' BY <1>1, <2>a DEF I!approve, InboxInv, AnswerInv, I!DecisionsAreMadeOnce
  <2>4. ShownInv' BY <1>1 DEF I!approve, InboxInv, ShownInv
  <2>5. CountInv'
    BY <1>1, <2>a DEF I!approve, InboxInv, InboxTypes, CountInv, I!counted, I!blocking
  <2> QED BY <2>1, <2>2, <2>3, <2>4, <2>5 DEF InboxInv
<1>2. CASE I!transition(p)
  <2>0. I!goto(p, "record", 0, "none") \/ I!goto(p, "idle", 0, "none") BY <1>2 DEF I!transition
  <2>a. /\ person' \in [Person -> PersonRecord]
        /\ person'[p].at \in {"record", "idle"}
        /\ \A q \in Person \ {p} : person'[q] = person[q]
    <3>1. CASE I!goto(p, "record", 0, "none")
      BY <1>0, <3>1 DEF I!goto, InboxTypes, PersonRecord
    <3>2. CASE I!goto(p, "idle", 0, "none")
      BY <1>0, <3>2 DEF I!goto, InboxTypes, PersonRecord
    <3> QED BY <2>0, <3>1, <3>2
  <2>b. /\ ~blind' /\ blind' \in BOOLEAN /\ moved' \in BOOLEAN
        /\ waiting' \in {waiting, "APPROVED"} /\ (waiting' # waiting => moved')
        /\ moved => moved'
    BY <1>2 DEF I!transition, InboxInv, InboxTypes, CountInv
  <2>1. InboxTypes' BY <1>2, <2>a, <2>b DEF I!transition, InboxInv, InboxTypes
  <2>2. AskInv' BY <1>2 DEF I!transition, InboxInv, AskInv, I!pending
  <2>3. AnswerInv' BY <1>2, <2>a DEF I!transition, InboxInv, AnswerInv, I!DecisionsAreMadeOnce
  <2>4. ShownInv' BY <1>2, <2>b DEF I!transition, InboxInv, ShownInv
  <2>5. CountInv' BY <1>2, <2>a, <2>b DEF I!transition, InboxInv, CountInv, I!blocking
  <2> QED BY <2>1, <2>2, <2>3, <2>4, <2>5 DEF InboxInv
<1>3. CASE I!recordApproval(p)
  <2> DEFINE r == [status |-> "APPROVED", decided |-> 1]
  <2>0. I!goto(p, "idle", 0, "none") BY <1>3 DEF I!recordApproval
  <2>a. /\ person' \in [Person -> PersonRecord]
        /\ person'[p].at = "idle"
        /\ \A q \in Person \ {p} : person'[q] = person[q]
    BY <1>0, <2>0 DEF I!goto, InboxTypes, PersonRecord
  <2>b. r \in ApprovalRecord /\ approvals' = Append(approvals, r)
    BY <1>3 DEF I!recordApproval, ApprovalRecord, I!Decisions
  <2>c. r.status = "APPROVED" /\ r.decided = 1 OBVIOUS
  <2> HIDE DEF r
  <2>d. approvals' \in Seq(ApprovalRecord) /\ DOMAIN approvals \subseteq DOMAIN approvals'
    BY <1>0, <2>b
  <2>1. InboxTypes' BY <1>3, <2>a, <2>d DEF I!recordApproval, InboxInv, InboxTypes
  <2>e. I!pending' = I!pending BY <1>0, <2>b, <2>c, <2>d DEF I!pending
  <2>2. AskInv' BY <1>3, <2>e DEF I!recordApproval, InboxInv, AskInv
  <2>3. AnswerInv'
    BY <1>0, <1>3, <2>a, <2>b, <2>c, <2>d
    DEF I!recordApproval, InboxInv, AnswerInv, I!DecisionsAreMadeOnce
  <2>4. ShownInv' BY <1>3 DEF I!recordApproval, InboxInv, ShownInv
  <2>5. CountInv' BY <1>3, <2>a DEF I!recordApproval, InboxInv, CountInv, I!blocking
  <2> QED BY <2>1, <2>2, <2>3, <2>4, <2>5 DEF InboxInv
<1> QED BY <1>1, <1>2, <1>3

LEMMA KeepsStart ==
  ASSUME InboxInv, NEW force \in BOOLEAN, I!startRun(force)
  PROVE  InboxInv'
<1> DEFINE R == I!Active \cup {"FAILED", "CANCELLED"}
<1>1. attempts \in Seq(R) /\ Len(attempts) < MaxRuns /\ MaxRuns \in Nat /\ "RUNNING" \in R
  BY InboxAssumption DEF InboxInv, InboxTypes, I!startRun, I!Active, I!Live
<1>2. attempts' = Append(attempts, "RUNNING") BY DEF I!startRun
<1> HIDE DEF R
<1>3. attempts' \in Seq(R) /\ Len(attempts') \in 1..MaxRuns BY <1>1, <1>2
<1>4. InboxTypes' BY <1>3 DEF I!startRun, InboxInv, InboxTypes, R
<1>5. AskInv' BY DEF I!startRun, InboxInv, AskInv, I!pending
<1>6. AnswerInv' BY DEF I!startRun, InboxInv, AnswerInv, I!DecisionsAreMadeOnce
<1>7. ShownInv' BY DEF I!startRun, ShownInv
<1>8. CountInv' BY DEF I!startRun, InboxInv, CountInv, I!blocking
<1> QED BY <1>4, <1>5, <1>6, <1>7, <1>8 DEF InboxInv

LEMMA InboxNext == ASSUME InboxInv, [I!InboxNext]_asking PROVE InboxInv'
<1>1. CASE UNCHANGED asking
  BY <1>1 DEF asking, InboxInv, InboxTypes, AskInv, AnswerInv, ShownInv, CountInv, I!pending,
              I!DecisionsAreMadeOnce, I!blocking
<1>2. CASE I!InboxNext
  BY <1>2, KeepsPark, KeepsFail, KeepsAsking, KeepsFindings, KeepsAnswers, KeepsApproval,
     KeepsStart
  DEF I!InboxNext
<1> QED BY <1>1, <1>2

-----------------------------------------------------------------------------
(***************************************************************************)
(* Both parts in the composition.                                          *)
(***************************************************************************)
LEMMA Invariance == MCSpec => [](ScheduleInv /\ InboxInv)
<1>1. MCInit => ScheduleInv /\ InboxInv BY ScheduleInit, InboxInit DEF MCInit
<1>2. ScheduleInv /\ InboxInv /\ [MCNext]_MCvars => ScheduleInv' /\ InboxInv'
  <2>1. [MCNext]_MCvars => [S!ScheduleNext]_planned /\ [I!InboxNext]_asking
    BY DEF MCNext, MCvars
  <2> QED BY <2>1, ScheduleNext, InboxNext
<1> QED BY <1>1, <1>2, PTL DEF MCSpec

(***************************************************************************)
(* Rows and job schedulers agree once calls that did not overlap are over, *)
(* what outlives a schedule makes no tasks, and a firing makes one task    *)
(* and one more per failed delivery (schedules.service.ts, the schedule    *)
(* processor); for any number of callers, jobs and failures.               *)
(***************************************************************************)
THEOREM SchedulesFire == MCSpec => []SchedulesFireAsSet
<1>1. ScheduleInv => SchedulesFireAsSet
  <2> SUFFICES ASSUME ScheduleInv PROVE SchedulesFireAsSet OBVIOUS
  <2>1. S!TimerFollowsRow BY DEF ScheduleInv, TimerInv, Agreed, S!TimerFollowsRow
  <2>2. ASSUME NEW j \in DOMAIN job
        PROVE  /\ job[j].attempt <= S!attempts /\ ~job[j].stray
               /\ job[j].stage \in {"queued", "read", "created", "done", "skipped", "failed"}
               /\ job[j].tasks <= 1 + job[j].faults /\ job[j].tasks <= S!attempts
    <3>1. job[j] \in JobRecord /\ JobInv(job[j]) BY DEF ScheduleInv, ScheduleTypes
    <3> QED BY <3>1 DEF JobRecord, JobInv, S!attempts
  <2>3. schedule \in [exists : BOOLEAN, enabled : BOOLEAN, cron : Nat]
        /\ timer \in [registered : BOOLEAN, cron : Nat]
    BY DEF ScheduleInv, ScheduleTypes
  <2> QED BY <2>1, <2>2, <2>3
      DEF SchedulesFireAsSet, S!ScheduleTypeOK, S!StaleTimersAreHarmless, S!TasksPerFiring
<1> QED BY <1>1, Invariance, PTL

(***************************************************************************)
(* A task has one pending approval unless two workers asked at once, an    *)
(* approval is decided once, what waits for a person is in the inbox and   *)
(* no approval passes over a finding its author could have seen            *)
(* (requestApproval, ApprovalsService.decide, InboxService.list,           *)
(* TasksService.approve); for any number of workers, people and findings.  *)
(***************************************************************************)
THEOREM PeopleAnswerOnce == MCSpec => []PeopleAreAskedOnce
<1>1. InboxInv => PeopleAreAskedOnce
  <2> SUFFICES ASSUME InboxInv PROVE PeopleAreAskedOnce OBVIOUS
  <2>1. I!TypeOK
    <3> DEFINE R == I!Active \cup {"FAILED", "CANCELLED"}
    <3>1. attempts \in [1..Len(attempts) -> R] /\ Len(attempts) \in 0..MaxRuns
      BY InboxAssumption DEF InboxInv, InboxTypes
    <3>2. attempts \in I!BoundedSeq(R, MaxRuns) BY <3>1 DEF I!BoundedSeq, I!SeqOf
    <3>3. \A a \in DOMAIN approvals : approvals[a] \in ApprovalRecord
      BY DEF InboxInv, InboxTypes
    <3>4. \A f \in DOMAIN findings : findings[f] \in {"OPEN", "FIXING", "RESOLVED"}
      BY DEF InboxInv, InboxTypes
    <3> QED BY <3>2, <3>3, <3>4 DEF I!TypeOK, InboxInv, InboxTypes, ApprovalRecord
  <2>2. I!OnePendingApproval
    <3>0. \A T : I!Cardinality(T) = Cardinality(T) BY DEF I!Cardinality, Cardinality
    <3>1. CASE both BY <3>1 DEF I!OnePendingApproval
    <3>2. CASE ~both
      <4>1. \A a, b \in I!pending : a = b BY <3>2 DEF InboxInv, AskInv
      <4>2. CASE I!pending = {} BY <3>0, <4>2, FS_EmptySet DEF I!OnePendingApproval
      <4>3. ASSUME NEW a \in I!pending PROVE I!OnePendingApproval
        <5>1. I!pending = {a} BY <4>1, <4>3
        <5>2. Cardinality({a}) = 1 BY FS_Singleton
        <5> QED BY <3>0, <5>1, <5>2 DEF I!OnePendingApproval
      <4> QED BY <4>2, <4>3
    <3> QED BY <3>1, <3>2
  <2>3. I!WaitingWorkIsShown
    BY DEF InboxInv, ShownInv, I!WaitingWorkIsShown, I!list, I!Last
  <2>4. I!DecisionsAreMadeOnce /\ I!ApprovalsSawTheFindings
    BY DEF InboxInv, AnswerInv, CountInv, I!ApprovalsSawTheFindings
  <2> QED BY <2>1, <2>2, <2>3, <2>4 DEF PeopleAreAskedOnce
<1> QED BY <1>1, Invariance, PTL

-----------------------------------------------------------------------------
(***************************************************************************)
(* Creation. Numbers are given in ascending order; a key in the table has  *)
(* its task, one that is being inserted is not there yet and no other call *)
(* inserts it; an answer tells the truth. The dialog holds the key of the  *)
(* one attempt it does not know the outcome of, and waits for a call of it *)
(* or of the start of the task it was told.                                *)
(***************************************************************************)
\* The project's sequence is not behind its tasks.
InOrder == Body # {} /\ \A n \in FirstTasks : n <= FirstSequence

Reply == [status : {"none", "ok", "refused", "error", "running"}, id : Nat]
Call == [kind : {"create", "run"}, key : Nat, body : Body, task : Nat, stage : Stages,
         attempt : Nat, answer : Reply]
Dialog == [open : BOOLEAN, form : Body, key : Nat, body : Body, submitLocked : BOOLEAN,
           startLocked : BOOLEAN, ambiguous : BOOLEAN, created : Nat, startError : BOOLEAN,
           waiting : Nat, shows : Nat]
TaskRow == [number : Nat, key : Nat, body : Body, closed : BOOLEAN]
CreationRow == [key : Nat, task : Nat, hash : Body, replays : Nat]
RunRow == [task : Nat, status : {"active", "ended"}, queued : BOOLEAN, by : Nat]

IntakeTypes ==
  /\ dialog \in Dialog /\ calls \in Seq(Call) /\ sequence \in Nat
  /\ tasks \subseteq TaskRow /\ requests \in Seq(CreationRow) /\ runs \in Seq(RunRow)
  /\ published \in Seq(Nat) /\ outcome \in Seq({"live", "created", "refused", "discarded"})

\* A task of a number, of a key, and of an attempt the dialog has been told of.
isTask(n, k, b) == \E t \in tasks : t.number = n /\ t.key = k /\ t.body = b
told(n) == \E t \in tasks : t.number = n /\ t.key \in DOMAIN outcome /\ outcome[t.key] = "created"

Numbers ==
  /\ ~collided
  /\ \A t \in tasks : t.number <= sequence /\ (t.key # DirectKey => t.number # 0)
  /\ \A s, t \in tasks : s.number = t.number => s = t

Requests ==
  /\ \A q \in DOMAIN requests : /\ requests[q].key \in DOMAIN outcome
                                /\ isTask(requests[q].task, requests[q].key, requests[q].hash)
  /\ \A p, q \in DOMAIN requests : requests[p].key = requests[q].key => p = q
  /\ \A t \in tasks : t.key # DirectKey =>
       \E q \in DOMAIN requests : requests[q].key = t.key /\ requests[q].task = t.number

Announced ==
  /\ \A i, j \in DOMAIN published : published[i] = published[j] => i = j
  /\ \A i \in DOMAIN published : taken(published[i])

CreateInv(c) ==
  /\ c.key \in DOMAIN outcome /\ c.stage # "enqueue" /\ c.answer.status # "running"
  /\ c.stage = "open" => ~exists(c.key)
  /\ c.stage = "committed" =>
       \E q \in DOMAIN requests : /\ requests[q].key = c.key /\ requests[q].hash = c.body
                                  /\ \A i \in DOMAIN published : published[i] # requests[q].task
  /\ c.answer.status = "ok" => isTask(c.answer.id, c.key, c.body)

StartInv(c) ==
  /\ c.key = 0 /\ told(c.task) /\ c.stage \in {"arrived", "enqueue", "answered", "dead"}
  /\ c.answer.status \in {"ok", "running"} =>
       c.answer.id \in DOMAIN runs /\ runs[c.answer.id].task = c.task

CallInv(c) ==
  /\ c.answer.status = "none" <=> c.stage # "answered"
  /\ IF c.kind = "create" THEN CreateInv(c) ELSE StartInv(c)

Calls ==
  /\ \A c \in DOMAIN calls : CallInv(calls[c])
  /\ \A c, d \in DOMAIN calls :
       (/\ calls[c].stage \in {"open", "committed"} /\ calls[d].stage = calls[c].stage
        /\ calls[c].key = calls[d].key) => c = d

Started ==
  /\ \A r \in DOMAIN runs : /\ told(runs[r].task) /\ runs[r].by \in DOMAIN calls
                            /\ calls[runs[r].by].task = runs[r].task
  /\ \A r, s \in DOMAIN runs :
       runs[r].task = runs[s].task /\ runs[r].status = "active" /\ runs[s].status = "active"
       => r = s

Attempts ==
  /\ dialog.key # 0 <=> dialog.submitLocked \/ dialog.ambiguous
  /\ dialog.key \in 0..Len(outcome)
  /\ \A k \in DOMAIN outcome : outcome[k] = "live" <=> dialog.key = k

Waits ==
  /\ dialog.waiting \in 0..Len(calls)
  /\ dialog.submitLocked \/ dialog.startLocked => dialog.waiting # 0
  /\ dialog.waiting # 0 =>
       IF calls[dialog.waiting].kind = "create"
       THEN /\ dialog.submitLocked /\ ~dialog.startLocked
            /\ calls[dialog.waiting].key = dialog.key
       ELSE /\ dialog.startLocked /\ ~dialog.submitLocked
            /\ calls[dialog.waiting].task = dialog.created

Tells ==
  /\ dialog.created # 0 => dialog.key = 0 /\ told(dialog.created)
  /\ dialog.created # 0 /\ dialog.waiting = 0 => dialog.startError
  /\ dialog.startLocked => dialog.created # 0
  /\ dialog.shows \in 0..Len(runs)

DialogInv == /\ IntakeTypes /\ Numbers /\ Requests /\ Announced /\ Calls /\ Started
             /\ Attempts /\ Waits /\ Tells

LEMMA DialogInit == ASSUME InOrder, Init PROVE DialogInv
<1>1. Fresh \in Dialog
  BY DEF InOrder, Fresh, Dialog
<1>2. Fresh.body \in Body
  BY <1>1 DEF Dialog
<1>3. tasks \subseteq TaskRow
  <2>1. ASSUME NEW n \in FirstTasks
        PROVE  [number |-> n, key |-> DirectKey, body |-> Fresh.body, closed |-> FALSE] \in TaskRow
    BY <1>2, IntakeAssumption DEF TaskRow, DirectKey
  <2> QED BY <2>1 DEF Init
<1>4. IntakeTypes
  BY <1>1, <1>3, IntakeAssumption DEF Init, IntakeTypes
<1>5. Numbers
  <2>1. \A t \in tasks : t.number \in FirstTasks /\
          t = [number |-> t.number, key |-> DirectKey, body |-> Fresh.body, closed |-> FALSE]
    BY DEF Init
  <2>2. \A t \in tasks : t.number <= sequence /\ t.key = DirectKey
    BY <2>1 DEF Init, InOrder
  <2>3. \A s, t \in tasks : s.number = t.number => s = t
    BY <2>1
  <2> QED BY <2>2, <2>3 DEF Numbers, Init
<1>6. Requests /\ Announced /\ Calls /\ Started
  BY DEF Init, Requests, Announced, Calls, Started, DirectKey
<1>7. Attempts /\ Waits /\ Tells
  BY DEF Init, Attempts, Waits, Tells, Fresh
<1> QED BY <1>4, <1>5, <1>6, <1>7 DEF DialogInv

-----------------------------------------------------------------------------
(***************************************************************************)
(* Nothing the invariant relies on is ever taken back: tasks, keys in the  *)
(* table, the runs of a task, what the dialog has been told.               *)
(***************************************************************************)
Kept ==
  /\ \A t \in tasks : \E u \in tasks' :
       u.number = t.number /\ u.key = t.key /\ u.body = t.body
  /\ \A q \in DOMAIN requests :
       /\ q \in DOMAIN requests' /\ requests'[q].key = requests[q].key
       /\ requests'[q].task = requests[q].task /\ requests'[q].hash = requests[q].hash
  /\ \A k \in DOMAIN outcome :
       k \in DOMAIN outcome' /\ (outcome[k] = "created" => outcome'[k] = "created")
  /\ \A r \in DOMAIN runs : r \in DOMAIN runs' /\ runs'[r].task = runs[r].task

LEMMA TasksKept ==
  ASSUME Kept, NEW n, NEW k, NEW b
  PROVE  /\ isTask(n, k, b) => isTask(n, k, b)'
         /\ told(n) => told(n)'
         /\ taken(n) => taken(n)'
<1>1. \A t \in tasks : \E u \in tasks' :
        u.number = t.number /\ u.key = t.key /\ u.body = t.body
  BY DEF Kept
<1>2. isTask(n, k, b) => isTask(n, k, b)'
  BY <1>1 DEF isTask
<1>3. told(n) => told(n)'
  BY <1>1 DEF told, Kept
<1>4. taken(n) => taken(n)'
  BY <1>1 DEF taken
<1> QED BY <1>2, <1>3, <1>4

unsaid(k) == \E q \in DOMAIN requests :
  /\ requests[q].key = k.key /\ requests[q].hash = k.body
  /\ \A i \in DOMAIN published : published[i] # requests[q].task

LEMMA CallKept ==
  ASSUME Kept, NEW k, CallInv(k),
         k.stage = "open" => ~exists(k.key)',
         k.stage = "committed" => unsaid(k)'
  PROVE  CallInv(k)'
<1>1. isTask(k.answer.id, k.key, k.body) => isTask(k.answer.id, k.key, k.body)'
  BY TasksKept
<1>2. told(k.task) => told(k.task)'
  BY TasksKept
<1>3. CASE k.kind = "create"
  <2>1. CreateInv(k) BY <1>3 DEF CallInv
  <2>2. k.key \in DOMAIN outcome' BY <2>1 DEF CreateInv, Kept
  <2>3. CreateInv(k)' BY <2>1, <2>2, <1>1 DEF CreateInv, unsaid
  <2> QED BY <1>3, <2>3 DEF CallInv
<1>4. CASE k.kind # "create"
  <2>1. StartInv(k) BY <1>4 DEF CallInv
  <2>2. StartInv(k)' BY <2>1, <1>2 DEF StartInv, Kept
  <2> QED BY <1>4, <2>2 DEF CallInv
<1> QED BY <1>3, <1>4

\* Where no key is inserted and nothing announced the calls stay as they are.
LEMMA CallsQuiet ==
  ASSUME Kept, NEW k, CallInv(k), DOMAIN requests' = DOMAIN requests, UNCHANGED published
  PROVE  CallInv(k)'
<1>1. k.stage = "open" => k.kind = "create"
  BY DEF CallInv, StartInv
<1>2. k.stage = "open" => ~exists(k.key)'
  BY <1>1 DEF CallInv, CreateInv, exists, Kept
<1>3. k.stage = "committed" => k.kind = "create"
  BY DEF CallInv, StartInv
<1>4. k.stage = "committed" => unsaid(k)
  BY <1>3 DEF CallInv, CreateInv, unsaid
<1>5. k.stage = "committed" => unsaid(k)'
  BY <1>4 DEF unsaid, Kept
<1> QED BY <1>2, <1>5, CallKept

\* What a changed call, with the others as they were, leaves of the invariant.
LEMMA CallChanges ==
  ASSUME DialogInv, Kept, NEW c \in DOMAIN calls, NEW r \in Call,
         calls' = [calls EXCEPT ![c] = r],
         r.kind = calls[c].kind, r.key = calls[c].key, r.task = calls[c].task,
         CallInv(r)', \A d \in DOMAIN calls : \A k : d # c /\ k = calls[d] => CallInv(k)',
         r.stage \in {"open", "committed"} =>
           \A d \in DOMAIN calls : calls[d].stage = r.stage /\ calls[d].key = r.key => d = c
  PROVE  /\ calls' \in Seq(Call) /\ DOMAIN calls' = DOMAIN calls
         /\ \A d \in DOMAIN calls : calls'[d].task = calls[d].task
         /\ Calls' /\ (UNCHANGED dialog => Waits')
<1> USE DEF DialogInv
<1>1. calls' \in Seq(Call) /\ DOMAIN calls' = DOMAIN calls /\ Len(calls') = Len(calls)
  BY DEF IntakeTypes
<1>2. \A d \in DOMAIN calls : calls'[d] = IF d = c THEN r ELSE calls[d]
  BY DEF IntakeTypes
<1>3. Calls'
  <2>1. \A d, e \in DOMAIN calls' :
          (/\ calls'[d].stage \in {"open", "committed"} /\ calls'[e].stage = calls'[d].stage
           /\ calls'[d].key = calls'[e].key) => d = e
    BY <1>1, <1>2 DEF Calls
  <2>2. \A d \in DOMAIN calls' : CallInv(calls[d])'
    BY <1>1, <1>2
  <2> QED BY <2>1, <2>2 DEF Calls
<1>4. UNCHANGED dialog => Waits'
  BY <1>1, <1>2 DEF Waits, IntakeTypes
<1> QED BY <1>1, <1>2, <1>3, <1>4

(***************************************************************************)
(* Most steps of the API change one call, or answer it: what has to be     *)
(* shown is the invariant of that call.                                    *)
(***************************************************************************)
LEMMA CallStep ==
  ASSUME DialogInv, NEW c \in DOMAIN calls, NEW r \in Call,
         calls' = [calls EXCEPT ![c] = r],
         r.kind = calls[c].kind, r.key = calls[c].key, r.task = calls[c].task,
         CallInv(r),
         r.stage \in {"open", "committed"} =>
           \A d \in DOMAIN calls : calls[d].stage = r.stage /\ calls[d].key = r.key => d = c,
         requests' \in Seq(CreationRow), DOMAIN requests' = DOMAIN requests, Kept,
         UNCHANGED <<dialog, sequence, tasks, runs, published, outcome, collided>>
  PROVE  DialogInv'
<1> USE DEF DialogInv
<1>1. CallInv(r)' /\ \A d \in DOMAIN calls : \A k : k = calls[d] => CallInv(k)'
  BY CallsQuiet DEF Calls
<1>2. /\ calls' \in Seq(Call) /\ DOMAIN calls' = DOMAIN calls /\ Calls' /\ Waits'
      /\ \A d \in DOMAIN calls : calls'[d].task = calls[d].task
  BY <1>1, CallChanges
<1>3. IntakeTypes'
  BY <1>2 DEF IntakeTypes
<1>4. Numbers' /\ Announced' /\ Attempts' /\ Tells'
  BY DEF Numbers, Announced, Attempts, Tells, told, taken
<1>5. Requests'
  BY DEF Requests, isTask, Kept
<1>6. Started'
  BY <1>2 DEF Started, told
<1> QED BY <1>2, <1>3, <1>4, <1>5, <1>6

LEMMA CallTypes ==
  ASSUME DialogInv, NEW c \in DOMAIN calls
  PROVE  calls[c] \in Call /\ CallInv(calls[c])
BY DEF DialogInv, IntakeTypes, Calls

LEMMA MoveStep ==
  ASSUME DialogInv, NEW c \in DOMAIN calls, NEW s \in Stages \ {"answered", "committed"},
         calls[c].stage # "answered", move(c, s), calls[c].kind = "create", s # "enqueue",
         s = "open" => insertable(calls[c].key),
         UNCHANGED <<dialog, sequence, tasks, requests, runs, published, outcome, collided>>
  PROVE  DialogInv'
<1> DEFINE r == [calls[c] EXCEPT !.stage = s]
<1>1. calls[c] \in Call /\ CallInv(calls[c])
  BY CallTypes
<1>2. r \in Call /\ r.kind = "create" /\ r.key = calls[c].key /\ r.task = calls[c].task
      /\ r.stage = s /\ r.answer = calls[c].answer /\ r.body = calls[c].body
  BY <1>1 DEF Call
<1>3. calls' = [calls EXCEPT ![c] = r]
  BY DEF move
<1>4. CallInv(r)
  BY <1>1, <1>2 DEF CallInv, CreateInv, insertable
<1>5. \A d \in DOMAIN calls :
        r.stage \in {"open", "committed"} /\ calls[d].stage = r.stage /\ calls[d].key = r.key
        => d = c
  BY <1>2 DEF insertable
<1>6. requests' \in Seq(CreationRow) /\ DOMAIN requests' = DOMAIN requests
  BY DEF DialogInv, IntakeTypes
<1>7. Kept
  BY DEF Kept
<1> HIDE DEF r
<1> QED BY <1>2, <1>3, <1>4, <1>5, <1>6, <1>7, CallStep

LEMMA AnswerStep ==
  ASSUME DialogInv, NEW c \in DOMAIN calls, NEW a \in Reply, a.status # "none", reply(c, a),
         IF calls[c].kind = "create"
         THEN /\ a.status # "running"
              /\ a.status = "ok" => isTask(a.id, calls[c].key, calls[c].body)
         ELSE a.status \in {"ok", "running"} =>
                a.id \in DOMAIN runs /\ runs[a.id].task = calls[c].task,
         requests' \in Seq(CreationRow), DOMAIN requests' = DOMAIN requests, Kept,
         UNCHANGED <<dialog, sequence, tasks, runs, published, outcome, collided>>
  PROVE  DialogInv'
<1> DEFINE r == [calls[c] EXCEPT !.stage = "answered", !.answer = a]
<1>1. calls[c] \in Call /\ CallInv(calls[c])
  BY CallTypes
<1>2. r \in Call /\ r.kind = calls[c].kind /\ r.key = calls[c].key /\ r.task = calls[c].task
      /\ r.stage = "answered" /\ r.answer = a /\ r.body = calls[c].body
  BY <1>1 DEF Call, Stages
<1>3. calls' = [calls EXCEPT ![c] = r]
  BY DEF reply
<1>4. CallInv(r)
  BY <1>1, <1>2 DEF CallInv, CreateInv, StartInv
<1> HIDE DEF r
<1> QED BY <1>2, <1>3, <1>4, CallStep

LEMMA Answers ==
  ASSUME NEW s \in {"ok", "refused", "error", "running", "lost"}, NEW n \in Nat
  PROVE  /\ Answer(s, n).status = s /\ Answer(s, n).id = n
         /\ s # "lost" => Answer(s, n) \in Reply
BY DEF Answer, Reply

\* A call that is refused, or whose transaction fails, leaves no trace.
LEMMA RefusedStep ==
  ASSUME DialogInv, NEW c \in DOMAIN calls, NEW s \in {"refused", "error"},
         reply(c, Answer(s, 0)),
         UNCHANGED <<dialog, sequence, tasks, requests, runs, published, outcome, collided>>
  PROVE  DialogInv'
<1>1. Answer(s, 0) \in Reply /\ Answer(s, 0).status = s
  BY Answers
<1>2. requests' \in Seq(CreationRow) /\ DOMAIN requests' = DOMAIN requests
  BY DEF DialogInv, IntakeTypes
<1>3. Kept
  BY DEF Kept
<1> QED BY <1>1, <1>2, <1>3, AnswerStep

LEMMA TheRow ==
  ASSUME DialogInv, NEW k, exists(k)
  PROVE  /\ row(k) \in DOMAIN requests /\ requests[row(k)].key = k
         /\ requests[row(k)] \in CreationRow
         /\ isTask(requests[row(k)].task, k, requests[row(k)].hash)
         /\ \A q \in DOMAIN requests : requests[q].key = k => q = row(k)
<1>1. row(k) \in DOMAIN requests /\ requests[row(k)].key = k
  BY DEF exists, row
<1> QED BY <1>1 DEF DialogInv, IntakeTypes, Requests

LEMMA ReplayStep ==
  ASSUME DialogInv, NEW c \in DOMAIN calls, calls[c].kind = "create", exists(calls[c].key),
         replayTaskCreation(c),
         UNCHANGED <<dialog, sequence, tasks, runs, published, outcome, collided>>
  PROVE  DialogInv'
<1> DEFINE q == row(calls[c].key)
<1>1. q \in DOMAIN requests /\ requests[q] \in CreationRow
      /\ isTask(requests[q].task, calls[c].key, requests[q].hash)
  BY TheRow
<1>2. CASE requests[q].hash # calls[c].body
  BY <1>2, RefusedStep DEF replayTaskCreation
<1>3. CASE requests[q].hash = calls[c].body
  <2>1. requests' = [requests EXCEPT ![q].replays = @ + 1]
        /\ reply(c, Answer("ok", requests[q].task))
    BY <1>3 DEF replayTaskCreation
  <2>2. requests' \in Seq(CreationRow) /\ DOMAIN requests' = DOMAIN requests
    <3>1. [requests[q] EXCEPT !.replays = @ + 1] \in CreationRow
      BY <1>1 DEF CreationRow
    <3>2. requests \in Seq(CreationRow)
      BY DEF DialogInv, IntakeTypes
    <3> QED BY <1>1, <2>1, <3>1, <3>2
  <2>3. \A p \in DOMAIN requests : /\ requests'[p].key = requests[p].key
                                   /\ requests'[p].task = requests[p].task
                                   /\ requests'[p].hash = requests[p].hash
    BY <1>1, <2>1 DEF DialogInv, IntakeTypes, CreationRow
  <2>4. Kept
    BY <2>2, <2>3 DEF Kept
  <2>5. requests[q].task \in Nat
    BY <1>1 DEF CreationRow
  <2>6. Answer("ok", requests[q].task) \in Reply /\ Answer("ok", requests[q].task).status = "ok"
        /\ Answer("ok", requests[q].task).id = requests[q].task
    BY <2>5, Answers
  <2> HIDE DEF q
  <2> QED BY <1>1, <1>3, <2>1, <2>2, <2>4, <2>6, AnswerStep
<1> QED BY <1>2, <1>3

-----------------------------------------------------------------------------
(* The steps of the API that write tables. *)

LEMMA StartedKept ==
  ASSUME DialogInv, Kept, runs' = runs, DOMAIN calls' = DOMAIN calls,
         \A d \in DOMAIN calls : calls'[d].task = calls[d].task
  PROVE  Started'
<1>1. \A r \in DOMAIN runs : told(runs[r].task)'
  BY TasksKept DEF DialogInv, Started
<1> QED BY <1>1 DEF DialogInv, Started

LEMMA TellsKept ==
  ASSUME DialogInv, Kept, UNCHANGED dialog, Len(runs') >= Len(runs), Len(runs') \in Nat
  PROVE  Tells'
<1>1. dialog.created # 0 => told(dialog.created)'
  BY TasksKept DEF DialogInv, Tells
<1> QED BY <1>1 DEF DialogInv, Tells, IntakeTypes

LEMMA PublishStep == ASSUME DialogInv, NEW c, Publish(c) PROVE DialogInv'
<1> USE DEF DialogInv
<1> DEFINE q == row(calls[c].key)  n == requests[q].task
           r == [calls[c] EXCEPT !.stage = "answered", !.answer = Answer("ok", n)]
<1>1. c \in DOMAIN calls /\ calls[c] \in Call /\ CallInv(calls[c]) /\ calls[c].stage = "committed"
  BY CallTypes DEF Publish, At
<1>2. calls[c].kind = "create" /\ CreateInv(calls[c]) /\ calls[c].answer.status = "none"
  BY <1>1 DEF CallInv, StartInv
<1>3. unsaid(calls[c]) /\ exists(calls[c].key)
  BY <1>1, <1>2 DEF CreateInv, unsaid, exists
<1>4. /\ q \in DOMAIN requests /\ n \in Nat /\ isTask(n, calls[c].key, calls[c].body)
      /\ \A i \in DOMAIN published : published[i] # n
  <2>1. /\ q \in DOMAIN requests /\ requests[q] \in CreationRow
        /\ isTask(n, calls[c].key, requests[q].hash)
        /\ \A p \in DOMAIN requests : requests[p].key = calls[c].key => p = q
    BY <1>3, TheRow
  <2>2. PICK p \in DOMAIN requests :
          /\ requests[p].key = calls[c].key /\ requests[p].hash = calls[c].body
          /\ \A i \in DOMAIN published : published[i] # requests[p].task
    BY <1>3 DEF unsaid
  <2>3. p = q BY <2>1, <2>2
  <2>4. n \in Nat BY <2>1 DEF CreationRow
  <2> HIDE DEF q
  <2> QED BY <2>1, <2>2, <2>3, <2>4
<1>5. published' = Append(published, n) /\ calls' = [calls EXCEPT ![c] = r]
  BY DEF Publish, reply
<1>6. Answer("ok", n) \in Reply /\ Answer("ok", n).status = "ok" /\ Answer("ok", n).id = n
  BY <1>4, Answers
<1>7. r \in Call /\ r.kind = "create" /\ r.key = calls[c].key /\ r.task = calls[c].task
      /\ r.stage = "answered" /\ r.answer = Answer("ok", n) /\ r.body = calls[c].body
  BY <1>1, <1>2, <1>6 DEF Call, Stages
<1>8. Kept
  BY DEF Publish, Kept, client
<1>9. UNCHANGED <<dialog, outcome, sequence, tasks, requests, runs, collided>>
  BY DEF Publish, client
<1> HIDE DEF r
<1>10. PICK x \in Call : x = r
  BY <1>7
<1>11. CallInv(x)'
  <2>1. CallInv(x) BY <1>2, <1>4, <1>6, <1>7, <1>10 DEF CallInv, CreateInv
  <2> QED BY <1>7, <1>8, <1>10, <2>1, CallKept
<1>12. ASSUME NEW d \in DOMAIN calls, NEW k, d # c, k = calls[d] PROVE CallInv(k)'
  <2>1. CallInv(k) BY <1>12 DEF Calls
  <2>2. k.stage = "open" => ~exists(k.key)'
    BY <1>9, <2>1 DEF CallInv, CreateInv, StartInv, exists
  <2>3. ASSUME k.stage = "committed" PROVE unsaid(k)'
    <3>1. k.key # calls[c].key BY <1>1, <1>12, <2>3 DEF Calls
    <3>2. PICK p \in DOMAIN requests :
            /\ requests[p].key = k.key /\ requests[p].hash = k.body
            /\ \A i \in DOMAIN published : published[i] # requests[p].task
      BY <2>1, <2>3 DEF CallInv, CreateInv, StartInv
    <3>3. isTask(requests[p].task, k.key, k.body) BY <3>2 DEF Requests
    <3>4. requests[p].task # n BY <1>4, <3>1, <3>3 DEF Numbers, isTask
    <3>5. \A i \in DOMAIN published' : published'[i] # requests[p].task
      <4>1. published \in Seq(Nat) BY DEF IntakeTypes
      <4> QED BY <1>4, <1>5, <3>2, <3>4, <4>1
    <3> QED BY <1>9, <3>2, <3>5 DEF unsaid
  <2> QED BY <1>8, <2>1, <2>2, <2>3, CallKept
<1>13. /\ calls' \in Seq(Call) /\ DOMAIN calls' = DOMAIN calls /\ Calls' /\ Waits'
       /\ \A d \in DOMAIN calls : calls'[d].task = calls[d].task
  <2>1. calls' = [calls EXCEPT ![c] = x] /\ x.stage \notin {"open", "committed"}
        /\ x.kind = calls[c].kind /\ x.key = calls[c].key /\ x.task = calls[c].task
    BY <1>2, <1>5, <1>7, <1>10
  <2>2. \A d \in DOMAIN calls : \A k : d # c /\ k = calls[d] => CallInv(k)'
    BY <1>12
  <2> QED BY <1>1, <1>8, <1>9, <1>11, <2>1, <2>2, CallChanges
<1>14. published' \in Seq(Nat) /\ Announced'
  <2>1. published \in Seq(Nat) BY DEF IntakeTypes
  <2>2. published' \in Seq(Nat) BY <1>4, <1>5, <2>1
  <2>3. \A i \in DOMAIN published' :
          \/ published'[i] = n /\ i = Len(published) + 1
          \/ i \in DOMAIN published /\ published'[i] = published[i]
    BY <1>4, <1>5, <2>1
  <2>4. taken(n) BY <1>4 DEF isTask, taken
  <2>5. \A i \in DOMAIN published' : taken(published'[i])
    BY <2>3, <2>4 DEF Announced
  <2>6. \A k : taken(k)' <=> taken(k) BY <1>9 DEF taken
  <2>7. \A i, j \in DOMAIN published' : published'[i] = published'[j] => i = j
    BY <1>4, <2>3 DEF Announced
  <2>8. \A i \in DOMAIN published' : taken(published[i])'
    BY <2>5, <2>6
  <2> QED BY <2>2, <2>7, <2>8 DEF Announced
<1>15. IntakeTypes'
  BY <1>9, <1>13, <1>14 DEF IntakeTypes
<1>16. Numbers' /\ Requests' /\ Attempts' /\ Tells'
  BY <1>9 DEF Numbers, Requests, Attempts, Tells, told, isTask
<1>17. Started'
  BY <1>8, <1>9, <1>13, StartedKept
<1> QED BY <1>9, <1>13, <1>14, <1>15, <1>16, <1>17

LEMMA CreateStep ==
  ASSUME DialogInv, NEW c, createTaskInTransaction(c) PROVE DialogInv'
<1> USE DEF DialogInv
<1> DEFINE r == [calls[c] EXCEPT !.stage = "committed"]
           t == [number |-> nextKey, key |-> calls[c].key, body |-> calls[c].body,
                 closed |-> FALSE]
           q == [key |-> calls[c].key, task |-> nextKey, hash |-> calls[c].body, replays |-> 0]
<1>1. c \in DOMAIN calls /\ calls[c] \in Call /\ CallInv(calls[c]) /\ calls[c].stage = "open"
  BY CallTypes DEF createTaskInTransaction, At
<1>2. calls[c].kind = "create" /\ CreateInv(calls[c]) /\ calls[c].answer.status = "none"
      /\ ~exists(calls[c].key) /\ calls[c].key \in DOMAIN outcome /\ calls[c].key \in Nat
      /\ calls[c].key # DirectKey
  <2>1. calls[c].kind = "create" /\ calls[c].answer.status = "none" /\ CreateInv(calls[c])
    BY <1>1 DEF CallInv, StartInv
  <2>2. ~exists(calls[c].key) /\ calls[c].key \in DOMAIN outcome
    BY <1>1, <2>1 DEF CreateInv
  <2>3. outcome \in Seq({"live", "created", "refused", "discarded"})
    BY DEF IntakeTypes
  <2>4. \A k \in DOMAIN outcome : k \in Nat /\ k # 0
    BY <2>3
  <2> QED BY <2>1, <2>2, <2>4 DEF DirectKey
<1>3. /\ nextKey \in Nat /\ nextKey # 0 /\ ~taken(nextKey)
      /\ \A u \in tasks : u.number \in Nat /\ u.number < nextKey
  <2>1. \A u \in tasks : u.number \in Nat /\ u.number <= sequence
    BY DEF IntakeTypes, TaskRow, Numbers
  <2> QED BY <2>1 DEF nextKey, taken, IntakeTypes
<1>4. /\ sequence' = nextKey /\ tasks' = tasks \cup {t} /\ requests' = Append(requests, q)
      /\ calls' = [calls EXCEPT ![c] = r]
      /\ UNCHANGED <<dialog, outcome, runs, published, collided>>
  BY <1>3 DEF createTaskInTransaction, createTask, move, client
<1>5. r \in Call /\ r.kind = "create" /\ r.key = calls[c].key /\ r.task = calls[c].task
      /\ r.stage = "committed" /\ r.answer = calls[c].answer /\ r.body = calls[c].body
  BY <1>1, <1>2 DEF Call, Stages
<1>6. t \in TaskRow /\ t.number = nextKey /\ t.key = calls[c].key /\ t.body = calls[c].body
  BY <1>1, <1>3 DEF TaskRow, Call
<1>7. q \in CreationRow /\ q.key = calls[c].key /\ q.task = nextKey /\ q.hash = calls[c].body
  BY <1>1, <1>3 DEF CreationRow, Call
<1> HIDE DEF r, t, q
<1> DEFINE m == Len(requests) + 1
<1>8. /\ requests' \in Seq(CreationRow) /\ m \in DOMAIN requests' /\ requests'[m] = q
      /\ DOMAIN requests \subseteq DOMAIN requests' /\ m \notin DOMAIN requests
      /\ \A p \in DOMAIN requests' : p = m \/ p \in DOMAIN requests
      /\ \A p \in DOMAIN requests : requests'[p] = requests[p]
  <2>1. requests \in Seq(CreationRow) BY DEF IntakeTypes
  <2> QED BY <1>4, <1>7, <2>1
<1> HIDE DEF m
<1>9. Kept
  BY <1>4, <1>8 DEF Kept
<1>10. PICK x \in Call : x = r
  BY <1>5
<1>11. CallInv(x)'
  <2>1. \A i \in DOMAIN published : taken(published[i])
    BY DEF Announced
  <2>2. \A i \in DOMAIN published : published[i] # nextKey
    BY <1>3, <2>1
  <2>3. unsaid(x)'
    BY <1>4, <1>5, <1>7, <1>8, <1>10, <2>2 DEF unsaid
  <2>4. x.key \in DOMAIN outcome'
    BY <1>2, <1>4, <1>5, <1>10
  <2>5. x.kind = "create" /\ x.stage = "committed" /\ x.answer.status = "none"
    BY <1>2, <1>5, <1>10
  <2>6. CreateInv(x)'
    BY <2>3, <2>4, <2>5 DEF CreateInv, unsaid
  <2> QED BY <2>5, <2>6 DEF CallInv
<1>12. ASSUME NEW d \in DOMAIN calls, NEW k, d # c, k = calls[d] PROVE CallInv(k)'
  <2>1. CallInv(k) BY <1>12 DEF Calls
  <2>2. ASSUME k.stage = "open" PROVE ~exists(k.key)'
    <3>1. k.key # calls[c].key BY <1>1, <1>12, <2>2 DEF Calls
    <3>2. ~exists(k.key) BY <2>1, <2>2 DEF CallInv, CreateInv, StartInv
    <3> QED BY <1>7, <1>8, <3>1, <3>2 DEF exists
  <2>3. ASSUME k.stage = "committed" PROVE unsaid(k)'
    <3>1. unsaid(k) BY <2>1, <2>3 DEF CallInv, CreateInv, StartInv, unsaid
    <3> QED BY <1>4, <1>8, <3>1 DEF unsaid
  <2> QED BY <1>9, <2>1, <2>2, <2>3, CallKept
<1>13. /\ calls' \in Seq(Call) /\ DOMAIN calls' = DOMAIN calls /\ Calls' /\ Waits'
       /\ \A d \in DOMAIN calls : calls'[d].task = calls[d].task
  <2>1. calls' = [calls EXCEPT ![c] = x]
        /\ x.kind = calls[c].kind /\ x.key = calls[c].key /\ x.task = calls[c].task
    BY <1>2, <1>4, <1>5, <1>10
  <2>2. \A d \in DOMAIN calls : \A k : d # c /\ k = calls[d] => CallInv(k)'
    BY <1>12
  <2>3. \A d \in DOMAIN calls : calls[d].stage = "committed" => exists(calls[d].key)
    BY DEF Calls, CallInv, CreateInv, StartInv, exists
  <2>4. x.stage \in {"open", "committed"} =>
          \A d \in DOMAIN calls : calls[d].stage = x.stage /\ calls[d].key = x.key => d = c
    BY <1>2, <1>5, <1>10, <2>3
  <2> QED BY <1>1, <1>4, <1>9, <1>11, <2>1, <2>2, <2>4, CallChanges
<1>14. IntakeTypes'
  BY <1>3, <1>4, <1>6, <1>8, <1>13 DEF IntakeTypes
<1>15. Numbers'
  BY <1>3, <1>4, <1>6 DEF Numbers
<1>16. Requests'
  <2>1. \A p \in DOMAIN requests' :
          /\ requests'[p].key \in DOMAIN outcome'
          /\ \E u \in tasks' : /\ u.number = requests'[p].task /\ u.key = requests'[p].key
                               /\ u.body = requests'[p].hash
    <3>1. t \in tasks' BY <1>4
    <3>2. requests'[m].key \in DOMAIN outcome' BY <1>2, <1>4, <1>7, <1>8
    <3> QED BY <1>4, <1>6, <1>7, <1>8, <3>1, <3>2 DEF Requests, isTask
  <2>2. \A p, p2 \in DOMAIN requests' : requests'[p].key = requests'[p2].key => p = p2
    BY <1>2, <1>7, <1>8 DEF Requests, exists
  <2>3. \A u \in tasks' : u.key # DirectKey =>
          \E p \in DOMAIN requests' : requests'[p].key = u.key /\ requests'[p].task = u.number
    BY <1>4, <1>6, <1>7, <1>8 DEF Requests
  <2> QED BY <2>1, <2>2, <2>3 DEF Requests, isTask
<1>17. Announced'
  <2>1. \A n : taken(n) => taken(n)' BY <1>4 DEF taken
  <2>2. \A i \in DOMAIN published : taken(published[i])' BY <1>4, <2>1 DEF Announced
  <2> QED BY <1>4, <2>2 DEF Announced
<1>18. Attempts' BY <1>4 DEF Attempts
<1>19. Started' BY <1>4, <1>9, <1>13, StartedKept
<1>20. Tells' BY <1>4, <1>9, TellsKept DEF IntakeTypes
<1> QED BY <1>13, <1>14, <1>15, <1>16, <1>17, <1>18, <1>19, <1>20

LEMMA StartStep == ASSUME DialogInv, NEW c, StartTransaction(c) PROVE DialogInv'
<1> USE DEF DialogInv
<1> DEFINE r == [calls[c] EXCEPT !.stage = "enqueue"]
           n == calls[c].task
           v == [task |-> n, status |-> "active", queued |-> FALSE, by |-> c]
           m == Len(runs) + 1
<1>1. c \in DOMAIN calls /\ calls[c] \in Call /\ CallInv(calls[c]) /\ calls[c].stage = "arrived"
      /\ calls[c].kind = "run" /\ StartInv(calls[c]) /\ calls[c].answer.status = "none"
  BY CallTypes DEF StartTransaction, At, CallInv
<1>2. UNCHANGED <<dialog, outcome, sequence, tasks, requests, published, collided>>
  BY DEF StartTransaction, client
<1>3. CASE reply(c, Answer("refused", 0)) /\ UNCHANGED runs
  BY <1>1, <1>2, <1>3, RefusedStep
<1>4. ASSUME NEW a \in blocks(n), reply(c, Answer("running", a)), UNCHANGED runs
      PROVE  DialogInv'
  <2>1. a \in DOMAIN runs /\ runs[a].task = n /\ a \in Nat
    BY <1>4 DEF blocks, activeRuns, IntakeTypes
  <2>2. Answer("running", a) \in Reply /\ Answer("running", a).status = "running"
        /\ Answer("running", a).id = a
    BY <2>1, Answers
  <2>3. requests' \in Seq(CreationRow) /\ DOMAIN requests' = DOMAIN requests
    BY <1>2 DEF IntakeTypes
  <2>4. Kept
    BY <1>2, <1>4 DEF Kept
  <2> QED BY <1>1, <1>2, <1>4, <2>1, <2>2, <2>3, <2>4, AnswerStep
<1>5. ASSUME blocks(n) = {}, runs' = Append(runs, v), move(c, "enqueue")
      PROVE  DialogInv'
  <2>1. r \in Call /\ r.kind = "run" /\ r.key = calls[c].key /\ r.task = calls[c].task
        /\ r.stage = "enqueue" /\ r.answer = calls[c].answer /\ r.body = calls[c].body
    BY <1>1 DEF Call, Stages
  <2>2. v \in RunRow /\ v.task = n /\ v.by = c
    <3>1. c \in Nat /\ n \in Nat BY <1>1 DEF IntakeTypes, Call
    <3> QED BY <3>1 DEF RunRow
  <2>3. calls' = [calls EXCEPT ![c] = r]
    BY <1>5 DEF move
  <2> HIDE DEF r, v
  <2>4. /\ runs' \in Seq(RunRow) /\ m \in DOMAIN runs' /\ runs'[m] = v
        /\ Len(runs') \in Nat /\ Len(runs') >= Len(runs)
        /\ DOMAIN runs \subseteq DOMAIN runs' /\ m \notin DOMAIN runs
        /\ \A p \in DOMAIN runs' : p = m \/ p \in DOMAIN runs
        /\ \A p \in DOMAIN runs : runs'[p] = runs[p]
    <3>1. runs \in Seq(RunRow) BY DEF IntakeTypes
    <3> QED BY <1>5, <2>2, <3>1
  <2> HIDE DEF m
  <2>5. Kept
    BY <1>2, <2>4 DEF Kept
  <2>6. PICK x \in Call : x = r
    BY <2>1
  <2>7. DOMAIN requests' = DOMAIN requests
    BY <1>2
  <2>8. CallInv(x)'
    <3>1. CallInv(x)
      BY <1>1, <2>1, <2>6 DEF CallInv, StartInv
    <3> QED BY <1>2, <2>5, <2>7, <3>1, CallsQuiet
  <2>9. \A d \in DOMAIN calls : \A k : d # c /\ k = calls[d] => CallInv(k)'
    BY <1>2, <2>5, <2>7, CallsQuiet DEF Calls
  <2>10. /\ calls' \in Seq(Call) /\ DOMAIN calls' = DOMAIN calls /\ Calls' /\ Waits'
         /\ \A d \in DOMAIN calls : calls'[d].task = calls[d].task
    <3>1. calls' = [calls EXCEPT ![c] = x] /\ x.stage \notin {"open", "committed"}
          /\ x.kind = calls[c].kind /\ x.key = calls[c].key /\ x.task = calls[c].task
      BY <1>1, <2>1, <2>3, <2>6
    <3> QED BY <1>1, <1>2, <2>5, <2>8, <2>9, <3>1, CallChanges
  <2>11. IntakeTypes'
    BY <1>2, <2>4, <2>10 DEF IntakeTypes
  <2>12. Numbers' /\ Requests' /\ Announced' /\ Attempts'
    BY <1>2 DEF Numbers, Requests, Announced, Attempts, isTask, taken
  <2>13. Tells'
    BY <1>2, <2>4, <2>5, TellsKept
  <2>14. Started'
    <3>1. \A p \in DOMAIN runs' : /\ told(runs'[p].task) /\ runs'[p].by \in DOMAIN calls
                                  /\ calls[runs'[p].by].task = runs'[p].task
      BY <1>1, <2>2, <2>4 DEF Started, StartInv
    <3>2. \A k : told(k)' <=> told(k)
      BY <1>2 DEF told
    <3>3. \A p \in DOMAIN runs' : told(runs[p].task)'
      BY <3>1, <3>2
    <3>4. \A p \in DOMAIN runs : runs[p].task = n => runs[p].status # "active"
      BY <1>5 DEF blocks, activeRuns
    <3>5. \A p, s \in DOMAIN runs' :
            (/\ runs'[p].task = runs'[s].task
             /\ runs'[p].status = "active" /\ runs'[s].status = "active") => p = s
      BY <2>2, <2>4, <3>4 DEF Started
    <3>6. \A p \in DOMAIN runs' : /\ runs'[p].by \in DOMAIN calls'
                                  /\ calls'[runs'[p].by].task = runs'[p].task
      BY <2>10, <3>1
    <3> QED BY <3>3, <3>5, <3>6 DEF Started
  <2> QED BY <1>2, <2>10, <2>11, <2>12, <2>13, <2>14
<1> QED BY <1>3, <1>4, <1>5 DEF StartTransaction

LEMMA EnqueueStep == ASSUME DialogInv, NEW c, Enqueue(c) PROVE DialogInv'
<1> USE DEF DialogInv
<1>1. c \in DOMAIN calls /\ calls[c] \in Call /\ CallInv(calls[c]) /\ calls[c].stage = "enqueue"
      /\ calls[c].kind # "create" /\ StartInv(calls[c])
  BY CallTypes DEF Enqueue, At, CallInv, CreateInv
<1>2. UNCHANGED <<dialog, outcome, sequence, tasks, requests, published, collided>>
  BY DEF Enqueue, client
<1>3. PICK p \in DOMAIN runs :
        /\ runs[p].by = c
        /\ \/ runs' = [runs EXCEPT ![p].queued = TRUE] /\ reply(c, Answer("ok", p))
           \/ runs' = [runs EXCEPT ![p].status = "ended"] /\ reply(c, Answer("error", 0))
  BY DEF Enqueue
<1>4. runs \in Seq(RunRow) /\ runs[p] \in RunRow /\ p \in Nat /\ runs[p].task = calls[c].task
  BY <1>3 DEF IntakeTypes, Started
<1>5. /\ runs' \in Seq(RunRow) /\ DOMAIN runs' = DOMAIN runs /\ Len(runs') = Len(runs)
      /\ \A s \in DOMAIN runs : /\ runs'[s].task = runs[s].task /\ runs'[s].by = runs[s].by
                                /\ runs'[s].status = "active" => runs[s].status = "active"
  <2>1. /\ [runs[p] EXCEPT !.queued = TRUE] \in RunRow
        /\ [runs[p] EXCEPT !.status = "ended"] \in RunRow
    BY <1>4 DEF RunRow
  <2>2. PICK v \in RunRow : /\ runs' = [runs EXCEPT ![p] = v]
                            /\ v.task = runs[p].task /\ v.by = runs[p].by
                            /\ v.status = "active" => runs[p].status = "active"
    BY <1>3, <1>4, <2>1 DEF RunRow
  <2> QED BY <1>4, <2>2
<1>6. PICK a \in Reply : /\ reply(c, a) /\ a.status \in {"ok", "error"}
                         /\ a.status = "ok" => a.id = p
  BY <1>3, <1>4, Answers
<1> DEFINE r == [calls[c] EXCEPT !.stage = "answered", !.answer = a]
<1>7. r \in Call /\ r.kind = calls[c].kind /\ r.key = calls[c].key /\ r.task = calls[c].task
      /\ r.stage = "answered" /\ r.answer = a /\ r.body = calls[c].body
  BY <1>1, <1>6 DEF Call, Stages
<1>8. calls' = [calls EXCEPT ![c] = r]
  BY <1>6 DEF reply
<1> HIDE DEF r
<1>9. Kept
  BY <1>2, <1>5 DEF Kept
<1>10. PICK x \in Call : x = r
  BY <1>7
<1>11. DOMAIN requests' = DOMAIN requests
  BY <1>2
<1>12. CallInv(x)'
  <2>1. CallInv(x)
    BY <1>1, <1>3, <1>4, <1>6, <1>7, <1>10 DEF CallInv, StartInv
  <2> QED BY <1>2, <1>9, <1>11, <2>1, CallsQuiet
<1>13. \A d \in DOMAIN calls : \A k : d # c /\ k = calls[d] => CallInv(k)'
  BY <1>2, <1>9, <1>11, CallsQuiet DEF Calls
<1>14. /\ calls' \in Seq(Call) /\ DOMAIN calls' = DOMAIN calls /\ Calls' /\ Waits'
       /\ \A d \in DOMAIN calls : calls'[d].task = calls[d].task
  <2>1. calls' = [calls EXCEPT ![c] = x] /\ x.stage \notin {"open", "committed"}
        /\ x.kind = calls[c].kind /\ x.key = calls[c].key /\ x.task = calls[c].task
    BY <1>7, <1>8, <1>10
  <2> QED BY <1>1, <1>2, <1>9, <1>12, <1>13, <2>1, CallChanges
<1>15. IntakeTypes'
  BY <1>2, <1>5, <1>14 DEF IntakeTypes
<1>16. Numbers' /\ Requests' /\ Announced' /\ Attempts'
  BY <1>2 DEF Numbers, Requests, Announced, Attempts, isTask, taken
<1>17. Tells'
  <2>1. Len(runs') \in Nat BY <1>5
  <2> QED BY <1>2, <1>5, <1>9, <2>1, TellsKept
<1>18. Started'
  <2>1. \A k : told(k)' <=> told(k)
    BY <1>2 DEF told
  <2>2. \A s \in DOMAIN runs' : told(runs'[s].task)
    BY <1>5 DEF Started
  <2>3. \A s \in DOMAIN runs' : told(runs[s].task)'
    BY <2>1, <2>2
  <2>4. \A s \in DOMAIN runs' : /\ runs'[s].by \in DOMAIN calls'
                                /\ calls'[runs'[s].by].task = runs'[s].task
    BY <1>5, <1>14 DEF Started
  <2>5. \A s, u \in DOMAIN runs' :
          (/\ runs'[s].task = runs'[u].task
           /\ runs'[s].status = "active" /\ runs'[u].status = "active") => s = u
    BY <1>5 DEF Started
  <2> QED BY <2>3, <2>4, <2>5 DEF Started
<1> QED BY <1>2, <1>14, <1>15, <1>16, <1>17, <1>18

\* The worker ends a run, and with it perhaps its task.
LEMMA RunEndsStep == ASSUME DialogInv, RunEnds PROVE DialogInv'
<1> USE DEF DialogInv
<1>1. UNCHANGED <<dialog, outcome, calls, sequence, requests, published, collided>>
  BY DEF RunEnds, client
<1>2. PICK p \in DOMAIN runs, closed \in BOOLEAN :
        /\ runs' = [runs EXCEPT ![p].status = "ended"]
        /\ tasks' = {IF t.number = runs[p].task THEN [t EXCEPT !.closed = closed]
                     ELSE t : t \in tasks}
  BY DEF RunEnds
<1>3. /\ runs' \in Seq(RunRow) /\ DOMAIN runs' = DOMAIN runs /\ Len(runs') = Len(runs)
      /\ \A s \in DOMAIN runs : /\ runs'[s].task = runs[s].task /\ runs'[s].by = runs[s].by
                                /\ runs'[s].status = "active" => runs[s].status = "active"
  <2>1. runs \in Seq(RunRow) /\ runs[p] \in RunRow
    BY DEF IntakeTypes
  <2>2. PICK v \in RunRow : /\ runs' = [runs EXCEPT ![p] = v] /\ v.status # "active"
                            /\ v.task = runs[p].task /\ v.by = runs[p].by
    <3>1. [runs[p] EXCEPT !.status = "ended"] \in RunRow
      BY <2>1 DEF RunRow
    <3> QED BY <1>2, <2>1, <3>1 DEF RunRow
  <2> QED BY <2>1, <2>2
<1> DEFINE f(t) == IF t.number = runs[p].task THEN [t EXCEPT !.closed = closed] ELSE t
<1>4. \A t \in tasks : /\ f(t) \in TaskRow /\ f(t).number = t.number /\ f(t).key = t.key
                       /\ f(t).body = t.body
  <2>1. tasks \subseteq TaskRow BY DEF IntakeTypes
  <2> QED BY <2>1 DEF TaskRow
<1>5. tasks' = {f(t) : t \in tasks}
  BY <1>2
<1> HIDE DEF f
<1>6. Kept
  BY <1>1, <1>3, <1>4, <1>5 DEF Kept
<1>7. IntakeTypes'
  BY <1>1, <1>3, <1>4, <1>5 DEF IntakeTypes
<1>8. Numbers'
  BY <1>1, <1>4, <1>5 DEF Numbers
<1>9. Requests'
  <2>1. \A q \in DOMAIN requests :
          isTask(requests[q].task, requests[q].key, requests[q].hash)'
    BY <1>1, <1>6, TasksKept DEF Requests
  <2>2. \A u \in tasks' : u.key # DirectKey =>
          \E q \in DOMAIN requests : requests[q].key = u.key /\ requests[q].task = u.number
    BY <1>4, <1>5 DEF Requests
  <2> QED BY <1>1, <2>1, <2>2 DEF Requests
<1>10. Announced'
  <2>1. \A i \in DOMAIN published : taken(published[i])'
    BY <1>1, <1>6, TasksKept DEF Announced
  <2> QED BY <1>1, <2>1 DEF Announced
<1>11. Calls'
  <2>1. \A d \in DOMAIN calls : \A k : k = calls[d] => CallInv(k)'
    BY <1>1, <1>6, CallsQuiet DEF Calls
  <2> QED BY <1>1, <2>1 DEF Calls
<1>12. Started'
  <2>1. \A s \in DOMAIN runs : told(runs[s].task)'
    <3>1. \A s \in DOMAIN runs : \A n : n = runs[s].task => told(n)'
      BY <1>6, TasksKept DEF Started
    <3> QED BY <1>3, <3>1
  <2>2. \A s, u \in DOMAIN runs' :
          (/\ runs'[s].task = runs'[u].task
           /\ runs'[s].status = "active" /\ runs'[u].status = "active") => s = u
    BY <1>3 DEF Started
  <2>3. \A s \in DOMAIN runs' : /\ runs'[s].by \in DOMAIN calls'
                                /\ calls'[runs'[s].by].task = runs'[s].task
    BY <1>1, <1>3 DEF Started
  <2> QED BY <1>3, <2>1, <2>2, <2>3 DEF Started
<1>13. Attempts' /\ Waits'
  BY <1>1 DEF Attempts, Waits
<1>14. Tells'
  <2>1. Len(runs') \in Nat BY <1>3
  <2> QED BY <1>1, <1>3, <1>6, <2>1, TellsKept
<1> QED BY <1>7, <1>8, <1>9, <1>10, <1>11, <1>12, <1>13, <1>14

\* A client without a key.
LEMMA DirectStep == ASSUME DialogInv, CreateDirect PROVE DialogInv'
<1> USE DEF DialogInv
<1> DEFINE t == [number |-> nextKey, key |-> DirectKey, body |-> Fresh.body, closed |-> FALSE]
<1>1. UNCHANGED <<dialog, outcome, calls, requests, runs>>
  BY DEF CreateDirect, client
<1>2. nextKey \in Nat /\ ~taken(nextKey) /\ \A u \in tasks : u.number \in Nat /\ u.number < nextKey
  <2>1. \A u \in tasks : u.number \in Nat /\ u.number <= sequence
    BY DEF IntakeTypes, TaskRow, Numbers
  <2> QED BY <2>1 DEF nextKey, taken, IntakeTypes
<1>3. /\ sequence' = nextKey /\ tasks' = tasks \cup {t}
      /\ published' = Append(published, nextKey) /\ UNCHANGED collided
  BY <1>2 DEF CreateDirect, createTask
<1>4. t \in TaskRow /\ t.number = nextKey /\ t.key = 0
  <2>1. Fresh.body \in Body
    BY DEF Fresh, IntakeTypes, Dialog
  <2> QED BY <1>2, <2>1 DEF TaskRow, DirectKey
<1> HIDE DEF t
<1>5. Kept
  BY <1>1, <1>3 DEF Kept
<1>6. /\ published' \in Seq(Nat)
      /\ \A i \in DOMAIN published' :
           \/ published'[i] = nextKey /\ i = Len(published) + 1
           \/ i \in DOMAIN published /\ published'[i] = published[i]
  <2>1. published \in Seq(Nat) BY DEF IntakeTypes
  <2> QED BY <1>2, <1>3, <2>1
<1>7. IntakeTypes'
  BY <1>1, <1>2, <1>3, <1>4, <1>6 DEF IntakeTypes
<1>8. Numbers'
  BY <1>2, <1>3, <1>4 DEF Numbers, DirectKey
<1>9. Requests'
  <2>1. \A q \in DOMAIN requests :
          isTask(requests[q].task, requests[q].key, requests[q].hash)'
    BY <1>1, <1>5, TasksKept DEF Requests
  <2>2. \A u \in tasks' : u.key # DirectKey =>
          \E q \in DOMAIN requests : requests[q].key = u.key /\ requests[q].task = u.number
    BY <1>3, <1>4 DEF Requests, DirectKey
  <2> QED BY <1>1, <2>1, <2>2 DEF Requests
<1>10. Announced'
  <2>1. \A i \in DOMAIN published : taken(published[i]) /\ published[i] # nextKey
    BY <1>2 DEF Announced
  <2>2. \A i, j \in DOMAIN published' : published'[i] = published'[j] => i = j
    BY <1>6, <2>1 DEF Announced
  <2>3. \A i \in DOMAIN published' : \E u \in tasks' : u.number = published'[i]
    BY <1>3, <1>4, <1>6, <2>1 DEF taken
  <2> QED BY <2>2, <2>3 DEF Announced, taken
<1>11. Calls'
  <2>1. ASSUME NEW d \in DOMAIN calls, NEW k, k = calls[d] PROVE CallInv(k)'
    <3>1. CallInv(k) BY <2>1 DEF Calls
    <3>2. k.stage = "open" => ~exists(k.key)'
      BY <1>1, <3>1 DEF CallInv, CreateInv, StartInv, exists
    <3>3. ASSUME k.stage = "committed" PROVE unsaid(k)'
      <4>1. PICK p \in DOMAIN requests :
              /\ requests[p].key = k.key /\ requests[p].hash = k.body
              /\ \A i \in DOMAIN published : published[i] # requests[p].task
        BY <3>1, <3>3 DEF CallInv, CreateInv, StartInv
      <4>2. requests[p].task # nextKey
        BY <1>2 DEF Requests, isTask
      <4>3. \A i \in DOMAIN published' : published'[i] # requests[p].task
        BY <1>6, <4>1, <4>2
      <4> QED BY <1>1, <4>1, <4>3 DEF unsaid
    <3> QED BY <1>5, <3>1, <3>2, <3>3, CallKept
  <2>2. \A d \in DOMAIN calls : \A k : k = calls[d] => CallInv(k)'
    BY <2>1
  <2> QED BY <1>1, <2>2 DEF Calls
<1>12. Started'
  BY <1>1, <1>5, StartedKept
<1>13. Attempts' /\ Waits'
  BY <1>1 DEF Attempts, Waits
<1>14. Tells'
  <2>1. Len(runs') \in Nat BY <1>1 DEF IntakeTypes
  <2> QED BY <1>1, <1>5, <2>1, TellsKept
<1> QED BY <1>7, <1>8, <1>9, <1>10, <1>11, <1>12, <1>13, <1>14

\* A process that dies takes its calls with it.
LEMMA CrashStep == ASSUME DialogInv, Crash PROVE DialogInv'
<1> USE DEF DialogInv
<1>1. UNCHANGED <<dialog, outcome, sequence, tasks, requests, runs, published, collided>>
  BY DEF Crash, client
<1> DEFINE f(c) == IF calls[c].stage = "answered" THEN calls[c]
                   ELSE [calls[c] EXCEPT !.stage = "dead"]
<1>2. calls' = [c \in DOMAIN calls |-> f(c)]
  BY DEF Crash
<1>3. \A c \in DOMAIN calls :
        /\ f(c) \in Call /\ f(c).kind = calls[c].kind /\ f(c).key = calls[c].key
        /\ f(c).task = calls[c].task /\ f(c).body = calls[c].body
        /\ f(c).answer = calls[c].answer /\ f(c).stage \in {"answered", "dead"}
        /\ f(c).stage = "answered" <=> calls[c].stage = "answered"
  <2>1. \A c \in DOMAIN calls : calls[c] \in Call
    BY DEF IntakeTypes
  <2> QED BY <2>1 DEF Call, Stages
<1> HIDE DEF f
<1>4. calls' \in Seq(Call) /\ DOMAIN calls' = DOMAIN calls /\ Len(calls') = Len(calls)
  BY SMTT(20), <1>2, <1>3 DEF IntakeTypes
<1>5. Kept
  BY <1>1 DEF Kept
<1>6. IntakeTypes'
  BY <1>1, <1>4 DEF IntakeTypes
<1>7. Numbers' /\ Requests' /\ Announced' /\ Attempts' /\ Tells'
  BY <1>1 DEF Numbers, Requests, Announced, Attempts, Tells, isTask, told, taken
<1>8. Calls'
  <2>1. ASSUME NEW c \in DOMAIN calls, NEW k, k = f(c) PROVE CallInv(k)'
    <3>1. CallInv(calls[c]) BY DEF Calls
    <3>2. CallInv(k) BY <1>3, <2>1, <3>1 DEF CallInv, CreateInv, StartInv
    <3> QED BY <1>1, <1>5, <3>2, CallsQuiet
  <2>2. \A c \in DOMAIN calls : \A k : k = calls'[c] => CallInv(k)'
    BY <1>2, <2>1
  <2>3. \A c \in DOMAIN calls' : CallInv(calls[c])'
    BY <1>4, <2>2
  <2>4. \A c \in DOMAIN calls' : calls'[c].stage \notin {"open", "committed"}
    BY <1>2, <1>3, <1>4
  <2> QED BY <2>3, <2>4 DEF Calls
<1>9. Started'
  BY <1>1, <1>2, <1>3, <1>4, <1>5, StartedKept
<1>10. Waits'
  BY <1>1, <1>2, <1>3, <1>4 DEF Waits, IntakeTypes
<1> QED BY <1>6, <1>7, <1>8, <1>9, <1>10

LEMMA ServerStep ==
  ASSUME DialogInv, NEW c, Server(c) \/ Unauthorized(c) \/ Abort(c) PROVE DialogInv'
<1>1. CASE Replay(c)
  <2>1. c \in DOMAIN calls /\ calls[c].stage = "arrived" /\ calls[c].kind = "create"
    BY <1>1 DEF Replay, At
  <2>2. UNCHANGED <<dialog, sequence, tasks, runs, published, outcome, collided>>
    BY <1>1 DEF Replay, client
  <2>3. CASE exists(calls[c].key)
    BY <1>1, <2>1, <2>2, <2>3, ReplayStep DEF Replay
  <2>4. CASE ~exists(calls[c].key)
    <3>1. move(c, "validate") /\ UNCHANGED requests
      BY <1>1, <2>4 DEF Replay
    <3>2. "validate" \in Stages \ {"answered", "committed"}
      BY DEF Stages
    <3> QED BY <2>1, <2>2, <3>1, <3>2, MoveStep
  <2> QED BY <2>3, <2>4
<1>2. CASE validateTaskReferences(c)
  <2>1. c \in DOMAIN calls /\ calls[c].stage = "validate" /\ CallInv(calls[c])
    BY <1>2, CallTypes DEF validateTaskReferences, At
  <2>2. calls[c].kind = "create"
    BY <2>1 DEF CallInv, StartInv
  <2>3. UNCHANGED <<dialog, sequence, tasks, requests, runs, published, outcome, collided>>
    BY <1>2 DEF validateTaskReferences, client, api
  <2>4. "insert" \in Stages \ {"answered", "committed"}
    BY DEF Stages
  <2>5. CASE move(c, "insert")
    BY <2>1, <2>2, <2>3, <2>4, <2>5, MoveStep
  <2>6. CASE reply(c, Answer("refused", 0))
    BY <2>1, <2>3, <2>6, RefusedStep
  <2> QED BY <1>2, <2>5, <2>6 DEF validateTaskReferences
<1>3. CASE InsertRequest(c)
  <2>1. c \in DOMAIN calls /\ calls[c].stage = "insert" /\ CallInv(calls[c])
    BY <1>3, CallTypes DEF InsertRequest, At
  <2>2. calls[c].kind = "create"
    BY <2>1 DEF CallInv, StartInv
  <2>3. UNCHANGED <<dialog, sequence, tasks, runs, published, outcome, collided>>
    BY <1>3 DEF InsertRequest, client
  <2>4. "open" \in Stages \ {"answered", "committed"}
    BY DEF Stages
  <2>5. CASE insertable(calls[c].key) /\ move(c, "open") /\ UNCHANGED requests
    BY <2>1, <2>2, <2>3, <2>4, <2>5, MoveStep
  <2>6. CASE exists(calls[c].key) /\ replayTaskCreation(c)
    BY <2>1, <2>2, <2>3, <2>6, ReplayStep
  <2> QED BY <1>3, <2>5, <2>6 DEF InsertRequest
<1>4. CASE createTaskInTransaction(c) BY <1>4, CreateStep
<1>5. CASE Publish(c) BY <1>5, PublishStep
<1>6. CASE StartTransaction(c) BY <1>6, StartStep
<1>7. CASE Enqueue(c) BY <1>7, EnqueueStep
<1>8. CASE Unauthorized(c) \/ Abort(c)
  BY <1>8, RefusedStep DEF Unauthorized, Abort, At, client, api
<1> QED BY <1>1, <1>2, <1>3, <1>4, <1>5, <1>6, <1>7, <1>8 DEF Server

-----------------------------------------------------------------------------
(* The steps of the dialog. *)

\* The tables do not move; what the dialog says of itself has to be shown.
LEMMA DialogStep ==
  ASSUME DialogInv, UNCHANGED <<calls, api>>, dialog' \in Dialog, Kept,
         outcome' \in Seq({"live", "created", "refused", "discarded"}),
         Attempts', Waits', Tells'
  PROVE  DialogInv'
<1> USE DEF DialogInv, api
<1>1. IntakeTypes' BY DEF IntakeTypes
<1>2. Numbers' /\ Announced' BY DEF Numbers, Announced, taken
<1>3. Requests' BY DEF Requests, isTask, Kept
<1>4. Calls'
  <2>1. \A d \in DOMAIN calls : \A k : k = calls[d] => CallInv(k)'
    BY CallsQuiet DEF Calls
  <2> QED BY <2>1 DEF Calls
<1>5. Started' BY StartedKept
<1> QED BY <1>1, <1>2, <1>3, <1>4, <1>5

\* A call of the dialog is on its way.
LEMMA SendStep ==
  ASSUME DialogInv, UNCHANGED api, dialog' \in Dialog, Kept,
         outcome' \in Seq({"live", "created", "refused", "discarded"}),
         NEW kind \in {"create", "run"}, NEW key \in Nat, NEW body \in Body, NEW n \in Nat,
         send(kind, key, body, n),
         IF kind = "create" THEN key \in DOMAIN outcome' ELSE key = 0 /\ told(n)',
         Attempts', Tells', dialog'.waiting = Len(calls) + 1,
         IF kind = "create"
         THEN dialog'.submitLocked /\ ~dialog'.startLocked /\ key = dialog'.key
         ELSE dialog'.startLocked /\ ~dialog'.submitLocked /\ n = dialog'.created
  PROVE  DialogInv'
<1> USE DEF DialogInv, api
<1> DEFINE r == [kind |-> kind, key |-> key, body |-> body, task |-> n, stage |-> "arrived",
                 attempt |-> 1, answer |-> NoAnswer]
           m == Len(calls) + 1
<1>1. r \in Call /\ r.kind = kind /\ r.key = key /\ r.task = n /\ r.stage = "arrived"
      /\ r.answer.status = "none"
  BY DEF Call, Reply, NoAnswer, Stages
<1>2. calls' = Append(calls, r)
  BY DEF send
<1> HIDE DEF r
<1>3. /\ calls' \in Seq(Call) /\ Len(calls') = m /\ m \in Nat /\ m \in DOMAIN calls' /\ m # 0
      /\ calls'[m] = r
      /\ DOMAIN calls \subseteq DOMAIN calls' /\ m \notin DOMAIN calls
      /\ \A d \in DOMAIN calls' : d = m \/ d \in DOMAIN calls
      /\ \A d \in DOMAIN calls : calls'[d] = calls[d]
  <2>1. calls \in Seq(Call) BY DEF IntakeTypes
  <2> QED BY <1>1, <1>2, <2>1
<1>4. dialog'.waiting = m
  OBVIOUS
<1> HIDE DEF m
<1>5. IntakeTypes' BY <1>3 DEF IntakeTypes
<1>6. Numbers' /\ Announced' BY DEF Numbers, Announced, taken
<1>7. Requests' BY DEF Requests, isTask, Kept
<1>8. Calls'
  <2>1. \A d \in DOMAIN calls : \A k : k = calls[d] => CallInv(k)'
    BY CallsQuiet DEF Calls
  <2>2. \A k : k = r => CallInv(k)'
    BY <1>1 DEF CallInv, CreateInv, StartInv
  <2>3. \A d \in DOMAIN calls' : \A k : k = calls'[d] => CallInv(k)'
    BY <1>3, <2>1, <2>2
  <2>4. \A d \in DOMAIN calls' : CallInv(calls[d])'
    BY <2>3
  <2>5. \A c, d \in DOMAIN calls' :
          (/\ calls'[c].stage \in {"open", "committed"} /\ calls'[d].stage = calls'[c].stage
           /\ calls'[c].key = calls'[d].key) => c = d
    BY <1>1, <1>3 DEF Calls
  <2> QED BY <2>4, <2>5 DEF Calls
<1>9. Started'
  <2>1. \A s \in DOMAIN runs : told(runs[s].task)'
    BY TasksKept DEF Started
  <2> QED BY <1>3, <2>1 DEF Started
<1>10. Waits'
  <2>1. calls'[dialog'.waiting] = r BY <1>3, <1>4
  <2>2. dialog'.waiting \in 0..Len(calls') BY <1>3, <1>4
  <2>3. dialog'.waiting # 0 BY <1>3, <1>4
  <2> QED BY <1>1, <2>1, <2>2, <2>3 DEF Waits
<1> QED BY <1>5, <1>6, <1>7, <1>8, <1>9, <1>10

\* What the dialog knows of itself, without the tables.
LEMMA DialogKnows ==
  ASSUME DialogInv
  PROVE  /\ dialog \in Dialog /\ Len(outcome) \in Nat /\ Len(calls) \in Nat /\ Len(runs) \in Nat
         /\ outcome \in Seq({"live", "created", "refused", "discarded"})
         /\ DOMAIN outcome = 1..Len(outcome) /\ DOMAIN calls = 1..Len(calls)
         /\ DOMAIN runs = 1..Len(runs)
BY DEF DialogInv, IntakeTypes

LEMMA ToldStays ==
  ASSUME DialogInv, Kept, dialog.created # 0
  PROVE  told(dialog.created) /\ \A n : n = dialog.created => told(n)'
BY TasksKept DEF DialogInv, Tells

LEMMA UserStep == ASSUME DialogInv, User PROVE DialogInv'
<1> USE DEF DialogInv
<1>0. /\ dialog \in Dialog /\ Len(outcome) \in Nat /\ Len(calls) \in Nat /\ Len(runs) \in Nat
      /\ outcome \in Seq({"live", "created", "refused", "discarded"})
      /\ DOMAIN outcome = 1..Len(outcome) /\ DOMAIN calls = 1..Len(calls)
      /\ DOMAIN runs = 1..Len(runs)
  BY DialogKnows
<1>1. ASSUME UNCHANGED <<calls, outcome, api>>, dialog' \in Dialog, dialog'.open,
             UNCHANGED <<dialog.key, dialog.submitLocked, dialog.startLocked, dialog.ambiguous,
                         dialog.created, dialog.startError, dialog.waiting>>,
             dialog'.shows \in {0, dialog.shows}
      PROVE  DialogInv'
  <2>1. Kept BY <1>1 DEF Kept, api
  <2>2. Attempts' BY <1>1 DEF Attempts
  <2>3. Waits' BY <1>1 DEF Waits
  <2>4. Tells' BY <1>1 DEF Tells, told, api
  <2> QED BY <1>0, <1>1, <2>1, <2>2, <2>3, <2>4, DialogStep
<1>2. CASE OpenDialog
  <2>1. UNCHANGED <<calls, outcome, api>> /\ dialog' = [dialog EXCEPT !.open = TRUE, !.shows = 0]
    BY <1>2 DEF OpenDialog
  <2>2. dialog' \in Dialog /\ dialog'.open /\ dialog'.shows = 0
        /\ UNCHANGED <<dialog.key, dialog.submitLocked, dialog.startLocked, dialog.ambiguous,
                       dialog.created, dialog.startError, dialog.waiting>>
    BY <1>0, <2>1 DEF Dialog
  <2> QED BY <1>1, <2>1, <2>2
<1>3. ASSUME NEW b \in Body, EditForm(b) PROVE DialogInv'
  <2>1. UNCHANGED <<calls, outcome, api>> /\ dialog' = [dialog EXCEPT !.form = b] /\ dialog.open
    BY <1>3 DEF EditForm
  <2>2. dialog' \in Dialog /\ dialog'.open /\ dialog'.shows = dialog.shows
        /\ UNCHANGED <<dialog.key, dialog.submitLocked, dialog.startLocked, dialog.ambiguous,
                       dialog.created, dialog.startError, dialog.waiting>>
    BY <1>0, <2>1 DEF Dialog
  <2> QED BY <1>1, <2>1, <2>2
<1>4. CASE submit /\ dialog.key = 0
  <2> DEFINE k == Len(outcome) + 1
  <2>1. /\ dialog.open /\ ~dialog.submitLocked /\ dialog.created = 0 /\ UNCHANGED api
        /\ outcome' = Append(outcome, "live") /\ send("create", k, dialog.form, 0)
        /\ dialog' = [dialog EXCEPT !.key = k, !.body = dialog.form, !.ambiguous = FALSE,
                        !.submitLocked = TRUE, !.waiting = Len(calls) + 1]
    BY <1>0, <1>4 DEF submit, Dialog
  <2>2. k \in Nat /\ k # 0 /\ k \notin DOMAIN outcome
    BY <1>0
  <2>3. /\ outcome' \in Seq({"live", "created", "refused", "discarded"})
        /\ Len(outcome') = k /\ k \in DOMAIN outcome' /\ outcome'[k] = "live"
        /\ DOMAIN outcome \subseteq DOMAIN outcome'
        /\ \A j \in DOMAIN outcome' : j = k \/ j \in DOMAIN outcome
        /\ \A j \in DOMAIN outcome : outcome'[j] = outcome[j]
    BY <1>0, <2>1
  <2> HIDE DEF k
  <2>4. dialog' \in Dialog
    <3>1. dialog.form \in Body /\ Len(calls) + 1 \in Nat
      BY <1>0 DEF Dialog
    <3> QED BY <1>0, <2>1, <2>2, <3>1 DEF Dialog
  <2>10. /\ dialog'.key = k /\ dialog'.submitLocked
        /\ dialog'.waiting = Len(calls) + 1 /\ ~dialog'.ambiguous
        /\ dialog'.created = 0 /\ dialog'.shows = dialog.shows
        /\ dialog'.startLocked = dialog.startLocked
    BY <1>0, <2>1 DEF Dialog
  <2>5. ~dialog'.startLocked
    BY <2>1, <2>10 DEF Tells
  <2>6. Kept
    BY <2>1, <2>3 DEF Kept, api
  <2>7. Attempts'
    BY <1>4, <2>2, <2>3, <2>10 DEF Attempts
  <2>8. Tells'
    BY <2>1, <2>5, <2>10 DEF Tells, api
  <2>9. dialog.form \in Body
    BY <1>0 DEF Dialog
  <2> QED BY <2>1, <2>2, <2>3, <2>4, <2>5, <2>6, <2>7, <2>8, <2>9, <2>10, SendStep
<1>5. CASE submit /\ dialog.key # 0
  <2>1. /\ dialog.open /\ ~dialog.submitLocked /\ dialog.created = 0 /\ UNCHANGED api
        /\ outcome' = outcome /\ send("create", dialog.key, dialog.body, 0)
        /\ dialog' = [dialog EXCEPT !.key = @, !.body = @, !.ambiguous = @,
                        !.submitLocked = TRUE, !.waiting = Len(calls) + 1]
    BY <1>0, <1>5 DEF submit, Dialog
  <2>9. Len(calls) + 1 \in Nat
    BY <1>0
  <2>2. /\ dialog' \in Dialog /\ dialog'.key = dialog.key /\ dialog'.submitLocked
        /\ dialog'.waiting = Len(calls) + 1 /\ dialog'.ambiguous = dialog.ambiguous
        /\ dialog'.created = 0 /\ dialog'.shows = dialog.shows
        /\ dialog'.startLocked = dialog.startLocked
    BY <1>0, <2>1, <2>9 DEF Dialog
  <2>3. ~dialog'.startLocked
    BY <2>1, <2>2 DEF Tells
  <2>4. Kept
    BY <2>1 DEF Kept, api
  <2>5. Attempts'
    BY <1>5, <2>1, <2>2 DEF Attempts
  <2>6. Tells'
    BY <2>1, <2>2, <2>3 DEF Tells, api
  <2>7. dialog.body \in Body /\ dialog.key \in Nat /\ dialog.key \in DOMAIN outcome'
    BY <1>0, <1>5, <2>1 DEF Dialog, Attempts
  <2>8. outcome' \in Seq({"live", "created", "refused", "discarded"})
    BY <1>0, <2>1
  <2> QED BY <2>1, <2>2, <2>3, <2>4, <2>5, <2>6, <2>7, <2>8, SendStep
<1>6. CASE RetryStart
  <2>1. PICK n : n = dialog.created
    OBVIOUS
  <2>2. /\ dialog.created # 0 /\ ~dialog.startLocked /\ UNCHANGED <<outcome, api>>
        /\ send("run", 0, dialog.body, n)
        /\ dialog' = [dialog EXCEPT !.startLocked = TRUE, !.startError = FALSE,
                                    !.waiting = Len(calls) + 1]
    BY <1>6, <2>1 DEF RetryStart, startWorkflow
  <2>10. Len(calls) + 1 \in Nat
    BY <1>0
  <2>3. /\ dialog' \in Dialog /\ dialog'.key = dialog.key /\ dialog'.startLocked
        /\ dialog'.waiting = Len(calls) + 1 /\ dialog'.ambiguous = dialog.ambiguous
        /\ dialog'.created = dialog.created /\ dialog'.shows = dialog.shows
        /\ dialog'.submitLocked = dialog.submitLocked /\ dialog'.open = dialog.open
    BY <1>0, <2>2, <2>10 DEF Dialog
  <2>4. ~dialog'.submitLocked
    BY <2>2, <2>3 DEF Attempts, Tells
  <2>5. Kept
    BY <2>2 DEF Kept, api
  <2>6. Attempts'
    BY <2>2, <2>3 DEF Attempts
  <2>7. Tells'
    BY <1>0, <2>2, <2>3 DEF Tells, api, told
  <2>8. dialog.body \in Body /\ n \in Nat /\ told(n)'
    BY <1>0, <2>1, <2>2, <2>5, ToldStays DEF Dialog
  <2>9. outcome' \in Seq({"live", "created", "refused", "discarded"})
    BY <1>0, <2>2
  <2> QED BY <2>1, <2>2, <2>3, <2>4, <2>5, <2>6, <2>7, <2>8, <2>9, SendStep
<1>7. CASE discardCreateAttempt
  <2>1. /\ dialog.ambiguous /\ ~dialog.submitLocked /\ UNCHANGED <<calls, api>>
        /\ dialog' = [dialog EXCEPT !.key = 0, !.ambiguous = FALSE]
        /\ outcome' = [outcome EXCEPT ![dialog.key] = "discarded"]
    BY <1>7 DEF discardCreateAttempt
  <2>2. /\ dialog' \in Dialog /\ dialog'.key = 0 /\ ~dialog'.ambiguous /\ ~dialog'.submitLocked
        /\ UNCHANGED <<dialog.startLocked, dialog.waiting, dialog.created, dialog.shows,
                       dialog.startError, dialog.open>>
    BY <1>0, <2>1 DEF Dialog
  <2>3. dialog.key \in DOMAIN outcome /\ outcome[dialog.key] = "live"
    BY <1>0, <2>1 DEF Attempts
  <2>4. /\ outcome' \in Seq({"live", "created", "refused", "discarded"})
        /\ DOMAIN outcome' = DOMAIN outcome /\ Len(outcome') = Len(outcome)
        /\ \A j \in DOMAIN outcome :
             outcome'[j] = IF j = dialog.key THEN "discarded" ELSE outcome[j]
    BY <1>0, <2>1, <2>3
  <2>5. Kept
    BY <2>1, <2>3, <2>4 DEF Kept, api
  <2>6. Attempts'
    BY <1>0, <2>2, <2>4 DEF Attempts
  <2>7. Waits'
    BY <2>1, <2>2 DEF Waits
  <2>8. Tells'
    BY <1>0, <2>1, <2>2, <2>5, ToldStays DEF Tells, api
  <2> QED BY <2>1, <2>2, <2>4, <2>5, <2>6, <2>7, <2>8, DialogStep
<1>8. CASE handleOpenChange
  <2>1. /\ ~dialog.ambiguous /\ ~dialog.submitLocked /\ UNCHANGED <<calls, outcome, api>>
        /\ dialog' = Fresh
    BY <1>8 DEF handleOpenChange
  <2>2. /\ dialog' \in Dialog /\ dialog'.key = 0 /\ ~dialog'.ambiguous /\ ~dialog'.submitLocked
        /\ ~dialog'.startLocked /\ dialog'.waiting = 0 /\ dialog'.created = 0 /\ dialog'.shows = 0
    BY <1>0, <2>1 DEF Fresh, Dialog
  <2>3. Kept
    BY <2>1 DEF Kept, api
  <2>4. Attempts'
    BY <1>0, <2>1, <2>2 DEF Attempts
  <2>5. Waits' /\ Tells'
    BY <1>0, <2>1, <2>2 DEF Waits, Tells, api
  <2> QED BY <1>0, <2>1, <2>2, <2>3, <2>4, <2>5, DialogStep
<1> QED BY <1>2, <1>3, <1>4, <1>5, <1>6, <1>7, <1>8 DEF User

\* The dialog learns what became of its call, or takes it for lost.
Heard(c, a) ==
  /\ a.id \in Nat /\ a.status \in {"ok", "refused", "error", "running", "lost"}
  /\ c.kind = "create" /\ a.status = "ok" => isTask(a.id, c.key, c.body)
  /\ c.kind = "run" /\ a.status \in {"ok", "running"} => a.id \in DOMAIN runs

LEMMA SettleStep ==
  ASSUME DialogInv, dialog.waiting # 0, NEW a, Heard(calls[dialog.waiting], a),
         settle(calls[dialog.waiting], a)
  PROVE  DialogInv'
<1> USE DEF DialogInv
<1>0. /\ dialog \in Dialog /\ Len(outcome) \in Nat /\ Len(calls) \in Nat /\ Len(runs) \in Nat
      /\ outcome \in Seq({"live", "created", "refused", "discarded"})
      /\ DOMAIN outcome = 1..Len(outcome) /\ DOMAIN calls = 1..Len(calls)
      /\ DOMAIN runs = 1..Len(runs)
  BY DialogKnows
<1> DEFINE c == calls[dialog.waiting]
<1>1. dialog.waiting \in DOMAIN calls /\ c \in Call /\ CallInv(c)
  BY <1>0, CallTypes DEF Waits
<1>2. UNCHANGED api
  BY DEF settle
<1>3. CASE c.kind = "run"
  <2>1. dialog.startLocked /\ ~dialog.submitLocked /\ dialog.created # 0 /\ dialog.key = 0
    BY <1>3 DEF Waits, Tells
  <2>2. StartSettled(a)
    BY <1>3 DEF settle
  <2>3. Kept
    BY <1>2, <2>2 DEF Kept, StartSettled, api
  <2>4. CASE a.status \in {"ok", "running"}
    <3>1. dialog' = show(a.id) /\ UNCHANGED <<calls, outcome>> /\ a.id \in 1..Len(runs)
      BY <1>0, <1>3, <2>2, <2>4 DEF StartSettled, Heard
    <3>2. /\ dialog' \in Dialog /\ dialog'.key = 0 /\ ~dialog'.ambiguous
          /\ ~dialog'.submitLocked /\ ~dialog'.startLocked /\ dialog'.waiting = 0
          /\ dialog'.created = 0 /\ dialog'.shows = a.id
      <4>1. Fresh \in Dialog /\ Fresh.key = 0 /\ ~Fresh.ambiguous /\ ~Fresh.submitLocked
            /\ ~Fresh.startLocked /\ Fresh.waiting = 0 /\ Fresh.created = 0
        BY <1>0 DEF Fresh, Dialog
      <4> QED BY SMTT(20), <1>0, <3>1, <4>1 DEF show, Dialog
    <3>3. Attempts'
      BY <1>0, <2>1, <3>1, <3>2 DEF Attempts
    <3>4. Waits' /\ Tells'
      BY <1>0, <1>2, <3>1, <3>2 DEF Waits, Tells, api
    <3> QED BY <1>0, <1>2, <2>3, <3>1, <3>2, <3>3, <3>4, DialogStep
  <2>5. CASE a.status \notin {"ok", "running"}
    <3>1. /\ dialog' = [dialog EXCEPT !.startLocked = FALSE, !.startError = TRUE, !.waiting = 0]
          /\ UNCHANGED <<calls, outcome>>
      BY <2>2, <2>5 DEF StartSettled
    <3>2. /\ dialog' \in Dialog /\ dialog'.key = 0 /\ dialog'.ambiguous = dialog.ambiguous
          /\ ~dialog'.submitLocked /\ ~dialog'.startLocked /\ dialog'.waiting = 0
          /\ dialog'.created = dialog.created /\ dialog'.shows = dialog.shows /\ dialog'.startError
      BY <1>0, <2>1, <3>1 DEF Dialog
    <3>3. Attempts'
      BY <2>1, <3>1, <3>2 DEF Attempts
    <3>4. Waits' /\ Tells'
      BY <1>0, <1>2, <2>1, <3>1, <3>2 DEF Waits, Tells, api, told
    <3> QED BY <1>0, <1>2, <2>3, <3>1, <3>2, <3>3, <3>4, DialogStep
  <2> QED BY <2>4, <2>5
<1>4. CASE c.kind = "create"
  <2>1. /\ dialog.submitLocked /\ ~dialog.startLocked /\ c.key = dialog.key
        /\ dialog.key \in DOMAIN outcome /\ dialog.key # 0 /\ dialog.created = 0
        /\ outcome[dialog.key] = "live"
    BY <1>0, <1>1, <1>4 DEF Waits, Attempts, Tells
  <2>2. CASE a.status = "ok"
    <3> DEFINE n == a.id
    <3>1. CreateSucceeded(n)
      BY <1>4, <2>2 DEF settle
    <3>2. /\ outcome' = [outcome EXCEPT ![dialog.key] = "created"]
          /\ \E b : b = dialog.body /\ send("run", 0, b, n)
      BY <1>0, <3>1 DEF CreateSucceeded, startWorkflow, Dialog
    <3>3. PICK b : b = dialog.body /\ send("run", 0, b, n)
      BY <3>2
    <3>4. n \in Nat /\ isTask(n, dialog.key, c.body) /\ b \in Body
      BY <1>0, <1>4, <2>1, <2>2, <3>3 DEF Heard, Dialog
    <3>5. n # 0
      BY <2>1, <3>4 DEF Numbers, isTask, DirectKey
    <3>6. Len(calls) + 1 \in Nat
      BY <1>0
    <3>7. /\ dialog' \in Dialog /\ dialog'.key = 0 /\ ~dialog'.ambiguous
          /\ ~dialog'.submitLocked /\ dialog'.startLocked /\ dialog'.waiting = Len(calls) + 1
          /\ dialog'.created = n /\ dialog'.shows = dialog.shows
      BY <1>0, <3>1, <3>4, <3>6 DEF CreateSucceeded, startWorkflow, Dialog
    <3>8. /\ outcome' \in Seq({"live", "created", "refused", "discarded"})
          /\ DOMAIN outcome' = DOMAIN outcome /\ Len(outcome') = Len(outcome)
          /\ \A j \in DOMAIN outcome :
               outcome'[j] = IF j = dialog.key THEN "created" ELSE outcome[j]
      BY <1>0, <2>1, <3>2
    <3>9. Kept
      BY <1>2, <2>1, <3>8 DEF Kept, api
    <3>10. told(n)'
      BY <1>2, <2>1, <3>4, <3>8 DEF isTask, told, api
    <3>11. Attempts'
      BY <1>0, <3>7, <3>8 DEF Attempts
    <3>12. Tells'
      BY <1>0, <1>2, <3>5, <3>6, <3>7, <3>10 DEF Tells, api
    <3> HIDE DEF n
    <3>13. 0 \in Nat /\ "run" \in {"create", "run"} /\ "run" # "create"
      OBVIOUS
    <3> QED BY <1>2, <3>3, <3>4, <3>7, <3>8, <3>9, <3>10, <3>11, <3>12, <3>13, SendStep
  <2>3. CASE a.status # "ok"
    <3> DEFINE definitive == a.status = "refused"
    <3>1. CreateFailed(a)
      BY <1>4, <2>3 DEF settle
    <3>2. /\ UNCHANGED calls
          /\ dialog' = [dialog EXCEPT !.submitLocked = FALSE, !.waiting = 0,
                          !.key = IF definitive THEN 0 ELSE @, !.ambiguous = ~definitive]
          /\ outcome' = IF definitive THEN [outcome EXCEPT ![dialog.key] = "refused"] ELSE outcome
      BY <3>1 DEF CreateFailed, isDefinitiveCreateFailure
    <3>3. /\ dialog' \in Dialog /\ dialog'.key = (IF definitive THEN 0 ELSE dialog.key)
          /\ dialog'.ambiguous = ~definitive
          /\ ~dialog'.submitLocked /\ ~dialog'.startLocked /\ dialog'.waiting = 0
          /\ dialog'.created = 0 /\ dialog'.shows = dialog.shows
      BY <1>0, <2>1, <3>2 DEF Dialog
    <3>4. /\ outcome' \in Seq({"live", "created", "refused", "discarded"})
          /\ DOMAIN outcome' = DOMAIN outcome /\ Len(outcome') = Len(outcome)
          /\ \A j \in DOMAIN outcome :
               outcome'[j] = IF j = dialog.key /\ definitive THEN "refused" ELSE outcome[j]
      <4>1. CASE definitive
        <5>1. outcome' = [outcome EXCEPT ![dialog.key] = "refused"]
          BY <3>2, <4>1
        <5> QED BY <1>0, <2>1, <4>1, <5>1
      <4>2. CASE ~definitive
        BY <1>0, <3>2, <4>2
      <4> QED BY <4>1, <4>2
    <3> HIDE DEF definitive
    <3>5. Kept
      BY <1>2, <2>1, <3>4 DEF Kept, api
    <3>6. Attempts'
      <4>1. \A k \in DOMAIN outcome : outcome[k] = "live" <=> dialog.key = k
        BY DEF Attempts
      <4>2. \A k \in DOMAIN outcome' : outcome'[k] = "live" <=> dialog'.key = k
        BY <1>0, <2>1, <3>3, <3>4, <4>1
      <4>3. (dialog'.key # 0 <=> dialog'.submitLocked \/ dialog'.ambiguous)
            /\ dialog'.key \in 0..Len(outcome')
        <5>1. dialog.key \in 0..Len(outcome)
          BY DEF Attempts
        <5>2. CASE definitive
          <6>1. dialog'.key = 0 /\ ~dialog'.ambiguous /\ ~dialog'.submitLocked
            BY <3>3, <5>2
          <6>2. 0 \in 0..Len(outcome')
            BY <1>0, <3>4
          <6> QED BY <6>1, <6>2
        <5>3. CASE ~definitive
          BY <2>1, <3>3, <3>4, <5>1, <5>3
        <5> QED BY <5>2, <5>3
      <4> QED BY <4>2, <4>3 DEF Attempts
    <3>7. Waits' /\ Tells'
      BY <1>0, <1>2, <3>2, <3>3 DEF Waits, Tells, api
    <3> QED BY <1>2, <3>2, <3>3, <3>4, <3>5, <3>6, <3>7, DialogStep
  <2> QED BY <2>2, <2>3
<1> QED BY <1>1, <1>3, <1>4 DEF Call

LEMMA DialogNext == ASSUME DialogInv, [Next]_vars PROVE DialogInv'
<1>1. CASE User BY <1>1, UserStep
<1>2. CASE Receive
  <2>1. dialog.waiting # 0 /\ calls[dialog.waiting].stage = "answered"
        /\ settle(calls[dialog.waiting], calls[dialog.waiting].answer)
    BY <1>2 DEF Receive
  <2>2. dialog.waiting \in DOMAIN calls
    BY <2>1, DialogKnows DEF DialogInv, Waits
  <2>3. calls[dialog.waiting] \in Call /\ CallInv(calls[dialog.waiting])
    BY <2>2, CallTypes
  <2>4. PICK a : a = calls[dialog.waiting].answer
    OBVIOUS
  <2>5. Heard(calls[dialog.waiting], a)
    BY <2>1, <2>3, <2>4 DEF Heard, Call, Reply, CallInv, CreateInv, StartInv
  <2> QED BY <2>1, <2>4, <2>5, SettleStep
<1>3. CASE Lose
  <2>1. PICK a : a = Answer("lost", 0)
    OBVIOUS
  <2>2. Heard(calls[dialog.waiting], a)
    BY <2>1 DEF Heard, Answer
  <2> QED BY <1>3, <2>1, <2>2, SettleStep DEF Lose
<1>4. ASSUME NEW c \in 1..MaxCalls, Server(c) \/ Unauthorized(c) \/ Abort(c) PROVE DialogInv'
  BY <1>4, ServerStep
<1>5. CASE CreateDirect BY <1>5, DirectStep
<1>6. CASE Crash BY <1>6, CrashStep
<1>7. CASE RunEnds BY <1>7, RunEndsStep
<1>8. CASE UNCHANGED vars
  <2>1. UNCHANGED <<calls, api, outcome, dialog>>
    BY <1>8 DEF vars, api
  <2>2. Kept
    BY <2>1 DEF Kept, api
  <2>3. dialog' \in Dialog /\ outcome' \in Seq({"live", "created", "refused", "discarded"})
        /\ Attempts' /\ Waits' /\ Tells'
    BY <2>1 DEF DialogInv, IntakeTypes, Attempts, Waits, Tells, told, api
  <2> QED BY <2>1, <2>2, <2>3, DialogStep
<1> QED BY <1>1, <1>2, <1>3, <1>4, <1>5, <1>6, <1>7, <1>8 DEF Next

LEMMA DialogSafe == ASSUME DialogInv PROVE CreationIsSafe
<1> USE DEF DialogInv
<1>0. /\ dialog \in Dialog /\ Len(outcome) \in Nat /\ Len(calls) \in Nat /\ Len(runs) \in Nat
      /\ outcome \in Seq({"live", "created", "refused", "discarded"})
      /\ DOMAIN outcome = 1..Len(outcome) /\ DOMAIN calls = 1..Len(calls)
      /\ DOMAIN runs = 1..Len(runs)
  BY DialogKnows
<1>1. TypeOK
  <2>1. ASSUME NEW c \in DOMAIN calls
        PROVE  /\ calls[c].stage \in Stages /\ calls[c].key \in 0..Len(outcome)
               /\ calls[c].answer.status = "none" <=> calls[c].stage # "answered"
    <3>1. calls[c] \in Call /\ CallInv(calls[c])
      BY CallTypes
    <3>2. /\ calls[c].stage \in Stages
          /\ calls[c].answer.status = "none" <=> calls[c].stage # "answered"
      BY <3>1 DEF Call, CallInv
    <3>3. calls[c].key \in DOMAIN outcome \/ calls[c].key = 0
      BY <3>1 DEF CallInv, CreateInv, StartInv
    <3> QED BY <1>0, <3>2, <3>3
  <2>2. \A q \in DOMAIN requests : requests[q].key \in DOMAIN outcome /\ taken(requests[q].task)
    BY DEF Requests, isTask, taken
  <2>3. \A r \in DOMAIN runs : taken(runs[r].task)
    BY DEF Started, told, taken
  <2>4. dialog \in [open : BOOLEAN, form : Body, key : Nat, body : Body,
                    submitLocked : BOOLEAN, startLocked : BOOLEAN,
                    ambiguous : BOOLEAN, created : Nat, startError : BOOLEAN,
                    waiting : 0..Len(calls), shows : 0..Len(runs)]
    BY <1>0 DEF Dialog, Waits, Tells
  <2> QED BY <2>1, <2>2, <2>3, <2>4 DEF TypeOK, Attempts
<1>2. OneTaskPerKey
  <2>1. \A s, t \in tasks : s.key = t.key /\ s.key # DirectKey => s = t
    BY DEF Requests, Numbers
  <2>2. ASSUME NEW c \in DOMAIN calls, calls[c].kind = "create", calls[c].answer.status = "ok"
        PROVE  isTask(calls[c].answer.id, calls[c].key, calls[c].body)
    BY <2>2 DEF Calls, CallInv, CreateInv
  <2> QED BY <2>1, <2>2 DEF OneTaskPerKey, isTask
<1>3. UnknownTasksStayInReach
  BY DEF UnknownTasksStayInReach, Requests, Attempts
<1>4. RetriedStartsShareOneRun
  <2>1. ASSUME NEW n PROVE Cardinality(activeRuns(n)) <= 1
    <3>1. \A r, s \in activeRuns(n) : r = s
      BY DEF activeRuns, Started
    <3>2. CASE activeRuns(n) = {}
      BY <3>2, FS_EmptySet
    <3>3. ASSUME NEW r \in activeRuns(n) PROVE Cardinality(activeRuns(n)) <= 1
      <4>1. activeRuns(n) = {r} BY <3>1, <3>3
      <4> QED BY <4>1, FS_Singleton
    <3> QED BY <3>2, <3>3
  <2>2. dialog.shows # 0 => told(runs[dialog.shows].task)
    BY <1>0 DEF Tells, Started
  <2> QED BY <1>0, <2>1, <2>2 DEF RetriedStartsShareOneRun, told, DirectKey
<1>5. CreationIsAnnouncedOnce
  BY DEF CreationIsAnnouncedOnce, Announced
<1>6. NumbersNeverCollide
  BY DEF NumbersNeverCollide, Numbers
<1>7. LocksFollowCalls
  <2>1. dialog.waiting # 0 => calls[dialog.waiting].kind \in {"create", "run"}
    <3>1. dialog.waiting # 0 => dialog.waiting \in DOMAIN calls
      BY <1>0 DEF Waits
    <3>2. dialog.waiting # 0 => calls[dialog.waiting] \in Call
      BY <3>1, CallTypes
    <3> QED BY <3>2 DEF Call
  <2> QED BY <2>1 DEF LocksFollowCalls, Waits, Tells
<1> QED BY <1>1, <1>2, <1>3, <1>4, <1>5, <1>6, <1>7 DEF CreationIsSafe

(***************************************************************************)
(* CreationIsSafe (new-task-dialog.tsx, TasksService.create): an           *)
(* idempotency key makes one task whatever answers are lost, a task that   *)
(* may exist stays in the dialog's reach, retried starts share one run and *)
(* no number collides, for any number of calls, clients, bodies and        *)
(* crashes, in a project whose sequence is not behind its tasks.           *)
(***************************************************************************)
THEOREM CreationsAreSafe == ASSUME InOrder PROVE MCSpec => []CreationIsSafe
<1>1. MCInit => DialogInv
  BY DialogInit DEF MCInit
<1>2. ASSUME DialogInv, [MCNext]_MCvars PROVE DialogInv'
  <2>1. [Next]_vars
    BY <1>2 DEF MCNext, MCvars
  <2> QED BY <1>2, <2>1, DialogNext
<1>3. DialogInv => CreationIsSafe
  BY DialogSafe
<1> QED BY <1>1, <1>2, <1>3, PTL DEF MCSpec

-----------------------------------------------------------------------------
(***************************************************************************)
(* Dependencies (TaskGraph). reach is a walk of as many turns as there are *)
(* edges and the traversal of a plan one of as many turns as it has tasks: *)
(* both are unrolled into a sequence of states, and what they end in is    *)
(* told by least elements of sets of numbers.                              *)
(***************************************************************************)
LEMMA Least ==
  ASSUME NEW K \in SUBSET Nat, K # {}
  PROVE  \E m \in K : \A n \in K : m <= n
<1> DEFINE R == {ss \in Nat \X Nat : ss[1] < ss[2]}
<1>1. IsWellFoundedOn(R, Nat)
  BY NatLessThanWellFounded DEF OpToRel
<1>2. \E m \in K : \A n \in K : ~ (<<n, m>> \in R)
  <2> HIDE DEF R
  <2> QED BY <1>1, WFMin, Zenon
<1>3. PICK m \in K : \A n \in K : ~ (<<n, m>> \in R) BY <1>2
<1>4. ASSUME NEW n \in K PROVE m <= n
  <2>1. n \in Nat /\ m \in Nat OBVIOUS
  <2>2. <<n, m>> \notin R BY <1>3
  <2>3. <<n, m>>[1] = n /\ <<n, m>>[2] = m OBVIOUS
  <2>4. <<n, m>> \in Nat \X Nat BY <2>1
  <2>5. ~(n < m) BY <2>2, <2>3, <2>4
  <2> QED BY <2>1, <2>5
<1> QED BY <1>4

\* A recursion over 0..n whose values stay in a set has a solution: of those
\* that have none up to m, take the least m.
Turns(x0, step, n, f) == [k \in 0..n |-> IF k = 0 THEN x0 ELSE step[f[k - 1]]]

LEMMA Unrolls ==
  ASSUME NEW X, NEW x0 \in X, NEW step \in [X -> X], NEW n \in Nat
  PROVE  \E f \in [0..n -> X] : f = Turns(x0, step, n, f)
<1> USE DEF Turns
<1> DEFINE Eq(f, m) == f = [k \in 0..m |-> IF k = 0 THEN x0 ELSE step[f[k - 1]]]
           Bad == {m \in 0..n : ~\E f \in [0..m -> X] : Eq(f, m)}
<1>1. SUFFICES ASSUME Bad # {} PROVE FALSE
  <2>1. n \notin Bad BY <1>1
  <2> QED BY <2>1
<1>2. PICK m \in Bad : \A k \in Bad : m <= k
  <2>1. Bad \in SUBSET Nat OBVIOUS
  <2> HIDE DEF Bad
  <2> QED BY <1>1, <2>1, Least
<1>3. CASE m = 0
  <2> DEFINE f == [k \in 0..0 |-> x0]
  <2>1. f \in [0..0 -> X] /\ Eq(f, 0) OBVIOUS
  <2> QED BY <1>3, <2>1
<1>4. CASE m # 0
  <2>1. m \in Nat /\ m > 0 /\ m - 1 \in 0..n /\ m - 1 < m BY <1>4
  <2>2. m - 1 \notin Bad
    <3>1. m - 1 \in Bad => m <= m - 1 BY <1>2
    <3> QED BY ONLY <2>1, <3>1
  <2>3. PICK g \in [0..(m - 1) -> X] : Eq(g, m - 1) BY <2>1, <2>2
  <2> DEFINE h == [k \in 0..m |-> IF k = m THEN step[g[m - 1]] ELSE g[k]]
  <2>4. h \in [0..m -> X]
    <3>1. \A k \in 0..m : k # m => g[k] \in X BY <2>1
    <3>2. step[g[m - 1]] \in X BY <2>1
    <3> QED BY <3>1, <3>2
  <2>5. ASSUME NEW k \in 0..m PROVE h[k] = IF k = 0 THEN x0 ELSE step[h[k - 1]]
    <3>1. CASE k = m
      <4>1. m - 1 # m /\ m - 1 \in 0..m BY <2>1
      <4>2. h[m - 1] = g[m - 1] BY <4>1
      <4> QED BY <2>1, <3>1, <4>2
    <3>2. CASE k # m
      <4>1. k \in 0..(m - 1) /\ (k # 0 => k - 1 \in 0..m /\ k - 1 # m) BY <2>1, <3>2
      <4>2. g[k] = IF k = 0 THEN x0 ELSE step[g[k - 1]] BY <2>3, <4>1
      <4>3. h[k] = g[k] /\ (k # 0 => h[k - 1] = g[k - 1]) BY <3>2, <4>1
      <4> QED BY <4>2, <4>3
    <3> QED BY <3>1, <3>2
  <2>6. Eq(h, m)
    <3> HIDE DEF h
    <3> QED BY <2>4, <2>5
  <2> QED BY <2>4, <2>6
<1> QED BY <1>3, <1>4

\* Where the edges that leave a set of tasks lead.
Heads(E, K) == {e.to : e \in {x \in E : x.from \in K}}
\* No edge leaves it.
Shut(E, K) == \A e \in E : e.from \in K => e.to \in K

Near(E, v, near) ==
  [n \in 0..Cardinality(E) |->
     IF n = 0 THEN {v}
     ELSE LET last == near[n - 1]
          IN last \cup {e.to : e \in {x \in E : x.from \in last}}]

LEMMA NearExists ==
  ASSUME NEW E, IsFiniteSet(E), NEW v
  PROVE  \E near : near = Near(E, v, near)
<1> DEFINE X == SUBSET ({v} \cup {e.to : e \in E})
           step == [K \in X |-> K \cup Heads(E, K)]
<1>0. PICK n : n = Cardinality(E) OBVIOUS
<1>1. {v} \in X /\ step \in [X -> X] /\ n \in Nat
  BY <1>0, FS_CardinalityType DEF Heads
<1>2. PICK f \in [0..n -> X] : f = [k \in 0..n |-> IF k = 0 THEN {v} ELSE step[f[k - 1]]]
  <2>1. PICK Y, st : Y = X /\ st = step OBVIOUS
  <2>2. {v} \in Y /\ st \in [Y -> Y] BY <1>1, <2>1
  <2>3. \E f \in [0..n -> Y] : f = Turns({v}, st, n, f)
    BY ONLY <1>1, <2>2, Unrolls
  <2> HIDE DEF X, step
  <2> QED BY <2>1, <2>3 DEF Turns
<1>3. \A k \in 0..n : k # 0 => f[k - 1] \in X
  <2> SUFFICES ASSUME NEW k \in 0..n, k # 0 PROVE f[k - 1] \in X OBVIOUS
  <2>1. k - 1 \in 0..n BY <1>1
  <2> HIDE DEF X
  <2> QED BY <2>1
<1>4. \A k \in 0..n : k # 0 => step[f[k - 1]] = f[k - 1] \cup Heads(E, f[k - 1])
  <2> HIDE DEF X
  <2> QED BY <1>3
<1>5. \A k \in 0..n : f[k] = Near(E, v, f)[k]
  <2> HIDE DEF X, step
  <2>1. \A k \in 0..n : f[k] = IF k = 0 THEN {v} ELSE f[k - 1] \cup Heads(E, f[k - 1])
    BY <1>2, <1>4
  <2> QED BY <1>0, <2>1 DEF Near, Heads
<1>6. f = Near(E, v, f)
  <2>1. Near(E, v, f) = [k \in 0..n |-> Near(E, v, f)[k]] BY <1>0 DEF Near
  <2>2. f = [k \in 0..n |-> f[k]] OBVIOUS
  <2> QED BY ONLY <1>5, <2>1, <2>2
<1> QED BY <1>6

\* The walk behind reach, turn by turn.
WalksFrom(E, v, f) ==
  /\ f[0] = {v} /\ G!reach(E, v) = f[Cardinality(E)]
  /\ \A k \in 1..Cardinality(E) : f[k] = f[k - 1] \cup Heads(E, f[k - 1])

LEMMA ReachIsNear ==
  ASSUME NEW E, IsFiniteSet(E), NEW v
  PROVE  \E f : WalksFrom(E, v, f)
<1> DEFINE w == CHOOSE near : near = Near(E, v, near)
<1>1. w = Near(E, v, w) BY NearExists
<1>2. G!reach(E, v) = w[Cardinality(E)] BY DEF G!reach, Near, G!Cardinality, Cardinality
<1>3. Cardinality(E) \in Nat BY FS_CardinalityType
<1> HIDE DEF w
<1>4. w[0] = {v} BY <1>1, <1>3 DEF Near
<1>5. ASSUME NEW k \in 1..Cardinality(E)
      PROVE  w[k] = w[k - 1] \cup Heads(E, w[k - 1])
  <2>1. k \in 0..Cardinality(E) /\ k # 0 BY <1>3
  <2>2. w[k] = Near(E, v, w)[k] BY <1>1
  <2> QED BY <2>1, <2>2 DEF Near, Heads
<1> QED BY <1>2, <1>4, <1>5 DEF WalksFrom

\* reach is the least set around a task that no edge leaves: either no edge
\* leaves what was reached by turn k, or each turn so far reached the end of
\* one more edge.
LEMMA ReachIsLeast ==
  ASSUME NEW E, IsFiniteSet(E), NEW v
  PROVE  /\ v \in G!reach(E, v) /\ Shut(E, G!reach(E, v))
         /\ \A K : v \in K /\ Shut(E, K) => G!reach(E, v) \subseteq K
<1>01. PICK f : WalksFrom(E, v, f)
  BY ReachIsNear
<1>1. /\ f[0] = {v} /\ G!reach(E, v) = f[Cardinality(E)]
      /\ \A k \in 1..Cardinality(E) : f[k] = f[k - 1] \cup Heads(E, f[k - 1])
  BY <1>01 DEF WalksFrom
<1>0. PICK n \in Nat : n = Cardinality(E) BY FS_CardinalityType
<1> DEFINE Out(k) == {e \in E : e.to \notin f[k]}
<1>2. \A k \in 0..n : IsFiniteSet(Out(k)) /\ Cardinality(Out(k)) \in Nat
  BY FS_Subset, FS_CardinalityType
<1>3. v \in f[n]
  <2> DEFINE Bad == {k \in 0..n : v \notin f[k]}
  <2>1. SUFFICES ASSUME Bad # {} PROVE FALSE
    <3>1. n \notin Bad BY <2>1
    <3> QED BY <3>1
  <2>2. PICK k \in Bad : \A j \in Bad : k <= j
    <3>1. Bad \in SUBSET Nat OBVIOUS
    <3> HIDE DEF Bad
    <3> QED BY <2>1, <3>1, Least
  <2>3. k # 0 BY <1>1
  <2>4. k - 1 \in 0..n /\ k \in 1..n /\ ~(k <= k - 1) BY <2>3
  <2>5. v \in f[k - 1] BY <2>2, <2>4
  <2> QED BY <1>0, <1>1, <2>4, <2>5
<1>4. Shut(E, f[n])
  <2> DEFINE Bad == {k \in 0..n : ~(Shut(E, f[k]) \/ Cardinality(Out(k)) <= n - k)}
  <2>1. CASE Bad = {}
    <3>1. Shut(E, f[n]) \/ Cardinality(Out(n)) <= n - n BY <2>1
    <3>2. CASE Cardinality(Out(n)) <= n - n
      <4>1. IsFiniteSet(Out(n)) /\ Cardinality(Out(n)) \in Nat BY <1>2
      <4> HIDE DEF Out
      <4>2. Cardinality(Out(n)) = 0 BY <3>2, <4>1
      <4>3. Out(n) = {} BY ONLY <4>1, <4>2, FS_EmptySet
      <4> QED BY <4>3 DEF Shut, Out
    <3> QED BY <3>1, <3>2
  <2>2. CASE Bad # {}
    <3>1. PICK k \in Bad : \A j \in Bad : k <= j
      <4>1. Bad \in SUBSET Nat OBVIOUS
      <4> HIDE DEF Bad
      <4> QED BY <2>2, <4>1, Least
    <3>2. k # 0
      <4>1. IsFiniteSet(Out(0)) /\ Cardinality(Out(0)) <= Cardinality(E) BY FS_Subset
      <4>2. k = 0 => Cardinality(Out(k)) <= n - k
        <5> HIDE DEF Out
        <5> QED BY <1>0, <4>1
      <4> QED BY <4>2
    <3>3. k - 1 \in 0..n /\ k \in 1..n /\ ~(k <= k - 1) BY <3>2
    <3>4. f[k] = f[k - 1] \cup Heads(E, f[k - 1]) BY <1>0, <1>1, <3>3
    <3>5. Shut(E, f[k - 1]) \/ Cardinality(Out(k - 1)) <= n - (k - 1) BY <3>1, <3>3
    <3>6. CASE Shut(E, f[k - 1])
      <4>1. f[k] = f[k - 1] BY <3>4, <3>6 DEF Shut, Heads
      <4> QED BY <3>6, <4>1
    <3>7. CASE ~Shut(E, f[k - 1])
      <4>1. PICK e \in E : e.from \in f[k - 1] /\ e.to \notin f[k - 1] BY <3>7 DEF Shut
      <4>2. e.to \in f[k] BY <3>4, <4>1 DEF Heads
      <4>3. e \in Out(k - 1) /\ Out(k) \subseteq Out(k - 1) \ {e} BY <3>4, <4>1, <4>2
      <4>4. IsFiniteSet(Out(k - 1)) /\ Cardinality(Out(k - 1)) \in Nat
            /\ Cardinality(Out(k)) \in Nat
        BY <1>2, <3>3
      <4> HIDE DEF Out
      <4>5. IsFiniteSet(Out(k - 1) \ {e})
            /\ Cardinality(Out(k - 1) \ {e}) = Cardinality(Out(k - 1)) - 1
        BY ONLY <4>3, <4>4, FS_RemoveElement
      <4>6. Cardinality(Out(k)) <= Cardinality(Out(k - 1) \ {e})
        BY ONLY <4>3, <4>5, FS_Subset
      <4>7. Cardinality(Out(k)) <= n - k
        BY ONLY <3>3, <3>5, <3>7, <4>4, <4>5, <4>6, n \in Nat
      <4> QED BY <4>7
    <3> QED BY <3>6, <3>7
  <2> QED BY <2>1, <2>2
<1>5. ASSUME NEW K, v \in K, Shut(E, K) PROVE f[n] \subseteq K
  <2> DEFINE Bad == {k \in 0..n : ~(f[k] \subseteq K)}
  <2>1. SUFFICES ASSUME Bad # {} PROVE FALSE
    <3>1. n \notin Bad BY <2>1
    <3> QED BY <3>1
  <2>2. PICK k \in Bad : \A j \in Bad : k <= j
    <3>1. Bad \in SUBSET Nat OBVIOUS
    <3> HIDE DEF Bad
    <3> QED BY <2>1, <3>1, Least
  <2>3. k # 0 BY <1>1, <1>5
  <2>4. k - 1 \in 0..n /\ k \in 1..n /\ ~(k <= k - 1) BY <2>3
  <2>5. f[k - 1] \subseteq K BY <2>2, <2>4
  <2>6. f[k] = f[k - 1] \cup Heads(E, f[k - 1]) BY <1>0, <1>1, <2>4
  <2> QED BY <1>5, <2>5, <2>6 DEF Shut, Heads
<1> QED BY <1>0, <1>1, <1>3, <1>4, <1>5

\* Acyclic: every edge can be told apart by a set that no edge leaves, which
\* holds its end and not its start.
Parts(E, K, e) == Shut(E, K) /\ e.to \in K /\ e.from \notin K

LEMMA AcyclicIsParted ==
  ASSUME NEW E, IsFiniteSet(E)
  PROVE  G!Acyclic(E) <=> \A e \in E : \E K : Parts(E, K, e)
<1>1. ASSUME NEW e \in E
      PROVE  e.from \notin G!reach(E, e.to) <=> \E K : Parts(E, K, e)
  <2>1. /\ e.to \in G!reach(E, e.to) /\ Shut(E, G!reach(E, e.to))
        /\ \A K : e.to \in K /\ Shut(E, K) => G!reach(E, e.to) \subseteq K
    BY ReachIsLeast
  <2>2. ASSUME e.from \notin G!reach(E, e.to) PROVE Parts(E, G!reach(E, e.to), e)
    BY <2>1, <2>2 DEF Parts
  <2>3. ASSUME NEW K, Parts(E, K, e) PROVE e.from \notin G!reach(E, e.to)
    BY <2>1, <2>3 DEF Parts
  <2> QED BY <2>2, <2>3
<1> QED BY <1>1 DEF G!Acyclic

\* An edge to where its start cannot be reached from closes no cycle.
LEMMA OneEdgeMore ==
  ASSUME NEW E, IsFiniteSet(E), G!Acyclic(E), NEW n, n.from \notin G!reach(E, n.to)
  PROVE  G!Acyclic(E \cup {n}) /\ IsFiniteSet(E \cup {n})
<1> DEFINE R == G!reach(E, n.to)
<1>1. IsFiniteSet(E \cup {n}) BY FS_AddElement
<1>2. /\ n.to \in R /\ Shut(E, R) BY ReachIsLeast
<1>3. Parts(E \cup {n}, R, n) BY <1>2 DEF Parts, Shut
<1>4. ASSUME NEW e \in E PROVE \E K : Parts(E \cup {n}, K, e)
  <2> DEFINE Q == G!reach(E, e.to)
  <2>1. /\ e.to \in Q /\ Shut(E, Q) /\ e.from \notin Q
        /\ \A K : e.to \in K /\ Shut(E, K) => Q \subseteq K
    BY ReachIsLeast DEF G!Acyclic
  <2>2. CASE n.from \notin Q
    <3>1. Parts(E \cup {n}, Q, e) BY <2>1, <2>2 DEF Parts, Shut
    <3> QED BY <3>1
  <2>3. CASE n.from \in Q
    <3>1. e.from \notin R
      <4>1. SUFFICES ASSUME e.from \in R PROVE FALSE OBVIOUS
      <4>2. e.to \in R BY <1>2, <4>1 DEF Shut
      <4>3. Q \subseteq R BY <1>2, <2>1, <4>2
      <4> QED BY <2>3, <4>3
    <3>2. Parts(E \cup {n}, Q \cup R, e) BY <1>2, <2>1, <3>1 DEF Parts, Shut
    <3> QED BY <3>2
  <2> QED BY <2>2, <2>3
<1> HIDE DEF R
<1>5. \A e \in E \cup {n} : \E K : Parts(E \cup {n}, K, e) BY <1>3, <1>4
<1> QED BY <1>1, <1>5, AcyclicIsParted

\* Edges that start outside of T, where the others are, and that can be told
\* apart close no cycle.
LEMMA EdgesBeside ==
  ASSUME NEW E, IsFiniteSet(E), G!Acyclic(E), NEW F, IsFiniteSet(F),
         NEW T, \A e \in E : e.from \in T /\ e.to \in T,
         \A e \in F : e.from \notin T /\ \E K : Parts(E \cup F, K, e)
  PROVE  G!Acyclic(E \cup F) /\ IsFiniteSet(E \cup F)
<1>1. IsFiniteSet(E \cup F) BY FS_Union
<1>2. ASSUME NEW e \in E PROVE \E K : Parts(E \cup F, K, e)
  <2> DEFINE Q == G!reach(E, e.to)
  <2>1. /\ e.to \in Q /\ Shut(E, Q) /\ e.from \notin Q
        /\ \A K : e.to \in K /\ Shut(E, K) => Q \subseteq K
    BY ReachIsLeast DEF G!Acyclic
  <2>2. Shut(E, T) BY DEF Shut
  <2>3. Q \subseteq T BY <2>1, <2>2
  <2>4. Parts(E \cup F, Q, e) BY <2>1, <2>3 DEF Parts, Shut
  <2> QED BY <2>4
<1>3. \A e \in E \cup F : \E K : Parts(E \cup F, K, e) BY <1>2
<1> QED BY <1>1, <1>3, AcyclicIsParted

\* The edges of a plan.
PlanEdge(off, i, j) == [from |-> off + i, to |-> off + j, type |-> G!NoWish.type]

LEMMA EdgesOfPlan ==
  ASSUME NEW n \in Nat, NEW m \in Nat, NEW d \in [1..n -> SUBSET (1..m)], NEW off \in Nat
  PROVE  /\ IsFiniteSet(G!planEdges(d, off))
         /\ \A i \in 1..n : \A j \in d[i] : PlanEdge(off, i, j) \in G!planEdges(d, off)
         /\ \A e \in G!planEdges(d, off) : \E i \in 1..n : \E j \in d[i] : e = PlanEdge(off, i, j)
<1>1. G!planEdges(d, off) = UNION {{PlanEdge(off, i, j) : j \in d[i]} : i \in 1..n}
  BY DEF G!planEdges, PlanEdge
<1> HIDE DEF PlanEdge
<1>2. /\ \A i \in 1..n : \A j \in d[i] : PlanEdge(off, i, j) \in G!planEdges(d, off)
      /\ \A e \in G!planEdges(d, off) : \E i \in 1..n : \E j \in d[i] : e = PlanEdge(off, i, j)
  BY <1>1
<1>3. IsFiniteSet(G!planEdges(d, off))
  <2> DEFINE P == {x \in (1..n) \X (1..m) : x[2] \in d[x[1]]}
             f == [x \in P |-> PlanEdge(off, x[1], x[2])]
  <2>1. IsFiniteSet((1..n) \X (1..m))
    <3>1. IsFiniteSet(1..n) /\ IsFiniteSet(1..m) BY FS_Interval
    <3> QED BY <3>1, FS_Product
  <2>2. IsFiniteSet(P) BY <2>1, FS_Subset
  <2>3. \A e \in G!planEdges(d, off) : \E x \in P : f[x] = e
    <3>1. ASSUME NEW i \in 1..n, NEW j \in d[i] PROVE \E x \in P : f[x] = PlanEdge(off, i, j)
      <4>1. <<i, j>> \in (1..n) \X (1..m) /\ <<i, j>>[1] = i /\ <<i, j>>[2] = j OBVIOUS
      <4>2. <<i, j>> \in P BY <4>1
      <4>3. f[<<i, j>>] = PlanEdge(off, i, j) BY <4>1, <4>2
      <4> QED BY <4>2, <4>3
    <3> HIDE DEF P, f
    <3> QED BY <1>2, <3>1
  <2>4. \A x \in P : f[x] \in G!planEdges(d, off) BY <1>2
  <2>5. f \in Surjection(P, G!planEdges(d, off))
    <3>1. f \in [P -> G!planEdges(d, off)]
      <4>1. f = [x \in P |-> f[x]] OBVIOUS
      <4> HIDE DEF f, P
      <4> QED BY <2>4, <4>1
    <3> HIDE DEF f, P
    <3> QED BY <2>3, <3>1 DEF Surjection
  <2> HIDE DEF P, f
  <2> QED BY <2>2, <2>5, FS_Surjection
<1> QED BY <1>2, <1>3

\* A plan without cycles brings none into the project, whose tasks are 1..off.
LEMMA PlanBeside ==
  ASSUME NEW n \in Nat, NEW d \in [1..n -> SUBSET (1..n)], G!Acyclic(G!planEdges(d, 0)),
         NEW off \in Nat, NEW E, IsFiniteSet(E), G!Acyclic(E),
         \A e \in E : e.from \in 1..off /\ e.to \in 1..off
  PROVE  /\ G!Acyclic(E \cup G!planEdges(d, off))
         /\ IsFiniteSet(E \cup G!planEdges(d, off))
<1> DEFINE A == G!planEdges(d, 0)
           F == G!planEdges(d, off)
<1>1. /\ IsFiniteSet(A) /\ IsFiniteSet(F)
      /\ \A i \in 1..n : \A j \in d[i] : PlanEdge(0, i, j) \in A
      /\ \A e \in F : \E i \in 1..n : \E j \in d[i] : e = PlanEdge(off, i, j)
  BY EdgesOfPlan
<1>2. \A e \in A : \E K : Parts(A, K, e) BY <1>1, AcyclicIsParted
<1>3. \A i, j : \A o \in Nat :
        PlanEdge(o, i, j).from = o + i /\ PlanEdge(o, i, j).to = o + j
  BY DEF PlanEdge
<1>a. \A i \in 1..n : \A j \in 1..n :
        PlanEdge(0, i, j).from = i /\ PlanEdge(0, i, j).to = j
  BY DEF PlanEdge
<1>4. \A i \in 1..n : d[i] \subseteq 1..n OBVIOUS
<1> HIDE DEF A, F
<1>5. ASSUME NEW e \in F PROVE e.from \notin 1..off /\ \E K : Parts(E \cup F, K, e)
  <2>0. PICK i \in 1..n : \E j \in d[i] : e = PlanEdge(off, i, j) BY <1>1
  <2>1. PICK j \in d[i] : e = PlanEdge(off, i, j) BY <2>0
  <2>2. j \in 1..n /\ e.from = off + i /\ e.to = off + j BY <1>3, <1>4, <2>1
  <2>a. PlanEdge(0, i, j) \in A BY <1>1
  <2>3. PICK K : Parts(A, K, PlanEdge(0, i, j)) BY <1>2, <2>a
  <2>b. PlanEdge(0, i, j).from = i /\ PlanEdge(0, i, j).to = j BY <1>a, <2>2
  <2>4. Shut(A, K) /\ j \in K /\ i \notin K BY <2>3, <2>b DEF Parts
  <2> DEFINE Q == {off + k : k \in (1..n) \cap K}
  <2>5. \A k \in 1..n : off + k \in Q <=> k \in K OBVIOUS
  <2>6. \A q \in Q : q \notin 1..off OBVIOUS
  <2> HIDE DEF Q
  <2>7. ASSUME NEW x \in F, x.from \in Q PROVE x.to \in Q
    <3>0. PICK g \in 1..n : \E h \in d[g] : x = PlanEdge(off, g, h) BY <1>1
    <3>1. PICK h \in d[g] : x = PlanEdge(off, g, h) BY <3>0
    <3>2. h \in 1..n /\ x.from = off + g /\ x.to = off + h BY <1>3, <1>4, <3>1
    <3>3. g \in K BY <2>5, <2>7, <3>2
    <3>4. PlanEdge(0, g, h) \in A /\ PlanEdge(0, g, h).from = g /\ PlanEdge(0, g, h).to = h
      BY <1>1, <1>a, <3>2
    <3>5. h \in K BY <2>4, <3>3, <3>4 DEF Shut
    <3> QED BY <2>5, <3>2, <3>5
  <2>8. \A x \in E : x.from \notin Q BY <2>6
  <2>9. Parts(E \cup F, Q, e) BY <2>2, <2>4, <2>5, <2>7, <2>8 DEF Parts, Shut
  <2>10. e.from \notin 1..off BY <2>2
  <2> QED BY <2>9, <2>10
<1>6. PICK T : T = 1..off OBVIOUS
<1>7. /\ \A e \in E : e.from \in T /\ e.to \in T
      /\ \A e \in F : e.from \notin T /\ \E K : Parts(E \cup F, K, e)
  BY <1>5, <1>6
<1>8. G!Acyclic(E \cup F) /\ IsFiniteSet(E \cup F) BY <1>1, <1>7, EdgesBeside
<1> QED BY <1>8 DEF F

(***************************************************************************)
(* The traversal of a plan. After k visits those that are ready or visited *)
(* are those whose dependencies were visited, what remains of a task are   *)
(* its dependencies that were not, and a visited task can be told apart    *)
(* from its dependencies.                                                  *)
(***************************************************************************)
Down(d, K) == \A i \in K : d[i] \subseteq K

VisitState(n) == [waiting : SUBSET (1..n), visited : SUBSET (1..n), length : Nat,
                  remaining : [1..n -> Nat]]

Visits(n, d, k, s) ==
  /\ s \in VisitState(n)
  /\ s.waiting \cap s.visited = {}
  /\ s.waiting \cup s.visited = {i \in 1..n : d[i] \subseteq s.visited}
  /\ s.length = Cardinality(s.waiting \cup s.visited)
  /\ \A i \in 1..n : s.remaining[i] = Cardinality(d[i] \ s.visited)
  /\ \A i \in s.visited : \E K \in SUBSET (1..n) : Down(d, K) /\ d[i] \subseteq K /\ i \notin K
  /\ s.waiting = {} \/ Cardinality(s.visited) = k

LEMMA PlacesFinite ==
  ASSUME NEW n \in Nat, NEW K \in SUBSET (1..n)
  PROVE  IsFiniteSet(K) /\ Cardinality(K) \in Nat
<1>1. IsFiniteSet(1..n) BY FS_Interval
<1>2. IsFiniteSet(K) BY <1>1, FS_Subset
<1> QED BY <1>2, FS_CardinalityType

LEMMA SameCardinality == \A K : G!Cardinality(K) = Cardinality(K)
BY DEF G!Cardinality, Cardinality

LEMMA VisitNext ==
  ASSUME NEW n \in Nat, NEW d \in [1..n -> SUBSET (1..n)], \A i \in 1..n : i \notin d[i],
         NEW k \in Nat, NEW s, Visits(n, d, k, s)
  PROVE  Visits(n, d, k + 1, G!visitNext(d, s))
<1>1. CASE s.waiting = {}
  <2>1. G!visitNext(d, s) = s BY <1>1 DEF G!visitNext
  <2> QED BY <1>1, <2>1 DEF Visits
<1>2. CASE s.waiting # {}
  <2> DEFINE next == CHOOSE i \in s.waiting : TRUE
             dependents == {i \in 1..n : next \in d[i]}
             left == [i \in 1..n |-> IF i \in dependents THEN s.remaining[i] - 1
                                    ELSE s.remaining[i]]
             new == {i \in dependents : left[i] = 0}
             v == s.visited \cup {next}
             w == (s.waiting \ {next}) \cup new
             u == G!visitNext(d, s)
  <2>0. DOMAIN d = 1..n OBVIOUS
  <2>1. u = [waiting |-> w, visited |-> v, length |-> s.length + Cardinality(new),
             remaining |-> left]
    BY <1>2, <2>0, SameCardinality DEF G!visitNext
  <2>2. next \in s.waiting BY <1>2
  <2>3. /\ s.waiting \in SUBSET (1..n) /\ s.visited \in SUBSET (1..n) /\ s.length \in Nat
        /\ s.remaining \in [1..n -> Nat]
    BY DEF Visits, VisitState
  <2>4. next \in 1..n /\ next \notin s.visited /\ d[next] \subseteq s.visited
    BY <2>2, <2>3 DEF Visits
  <2> HIDE DEF next
  <2>5. ASSUME NEW i \in 1..n PROVE left[i] \in Nat /\ left[i] = Cardinality(d[i] \ v)
    <3>1. IsFiniteSet(d[i] \ s.visited) /\ s.remaining[i] = Cardinality(d[i] \ s.visited)
          /\ IsFiniteSet(d[i] \ v) /\ Cardinality(d[i] \ v) \in Nat
      <4>1. d[i] \ s.visited \in SUBSET (1..n) /\ d[i] \ v \in SUBSET (1..n) OBVIOUS
      <4> QED BY <4>1, PlacesFinite DEF Visits
    <3>2. CASE i \in dependents
      <4>1. next \in d[i] \ s.visited /\ d[i] \ v = (d[i] \ s.visited) \ {next} BY <2>4, <3>2
      <4>2. Cardinality((d[i] \ s.visited) \ {next}) = Cardinality(d[i] \ s.visited) - 1
        BY ONLY <3>1, <4>1, FS_RemoveElement
      <4>3. left[i] = s.remaining[i] - 1 BY <3>2
      <4> HIDE DEF left, v
      <4> QED BY <3>1, <4>1, <4>2, <4>3
    <3>3. CASE i \notin dependents
      <4>1. d[i] \ v = d[i] \ s.visited BY <3>3
      <4>2. left[i] = s.remaining[i] BY <3>3
      <4> HIDE DEF left, v
      <4> QED BY <3>1, <4>1, <4>2
    <3> QED BY <3>2, <3>3
  <2>6. \A i \in 1..n : left[i] = 0 <=> d[i] \subseteq v
    <3>1. ASSUME NEW i \in 1..n PROVE left[i] = 0 <=> d[i] \subseteq v
      <4>1. d[i] \ v \in SUBSET (1..n) OBVIOUS
      <4>2. IsFiniteSet(d[i] \ v) BY <4>1, PlacesFinite
      <4>3. Cardinality(d[i] \ v) = 0 <=> d[i] \ v = {} BY ONLY <4>2, FS_EmptySet
      <4> HIDE DEF left, v
      <4> QED BY <2>5, <4>3
    <3> QED BY <3>1
  <2>7. new = {i \in dependents : d[i] \subseteq v} BY <2>6
  <2>8. \A i \in 1..n : i \in s.waiting \cup s.visited <=> d[i] \subseteq s.visited
    BY DEF Visits
  <2>9. w \cap v = {}
    <3>1. s.waiting \cap s.visited = {} BY DEF Visits
    <3>2. \A i \in new : i # next /\ i \notin s.visited
      BY <2>4, <2>8
    <3> HIDE DEF new
    <3> QED BY <3>1, <3>2
  <2>10. w \cup v = {i \in 1..n : d[i] \subseteq v}
    <3>1. ASSUME NEW i \in 1..n PROVE i \in w \cup v <=> d[i] \subseteq v
      <4>1. CASE i \in dependents BY <2>2, <2>4, <2>7, <2>8, <4>1
      <4>2. CASE i \notin dependents
        <5>1. i \notin new BY <4>2
        <5>2. d[i] \subseteq v <=> d[i] \subseteq s.visited BY <4>2
        <5> HIDE DEF new
        <5> QED BY <2>2, <2>8, <5>1, <5>2
      <4> QED BY <4>1, <4>2
    <3>2. w \cup v \subseteq 1..n BY <2>3, <2>4
    <3> HIDE DEF w, v
    <3> QED BY <3>1, <3>2
  <2>11. s.length + Cardinality(new) = Cardinality(w \cup v) /\ Cardinality(new) \in Nat
    <3> DEFINE o == s.waiting \cup s.visited
    <3>1. w \cup v = o \cup new BY <2>2
    <3>2. o \cap new = {} BY <2>4, <2>8
    <3>3. IsFiniteSet(o) /\ IsFiniteSet(new) /\ Cardinality(o) \in Nat
          /\ Cardinality(new) \in Nat
      <4>1. o \in SUBSET (1..n) /\ new \in SUBSET (1..n) BY <2>3
      <4> HIDE DEF o, new
      <4> QED BY <4>1, PlacesFinite
    <3>4. s.length = Cardinality(o) BY DEF Visits
    <3> HIDE DEF o, new, w, v
    <3>5. Cardinality(o \cup new) = Cardinality(o) + Cardinality(new) - Cardinality(o \cap new)
      BY ONLY <3>3, FS_Union
    <3>6. Cardinality(o \cap new) = 0
      <4>1. IsFiniteSet(o \cap new) BY <3>2, FS_EmptySet
      <4> QED BY ONLY <3>2, <4>1, FS_EmptySet
    <3>7. Cardinality(w \cup v) = Cardinality(o \cup new) BY ONLY <3>1
    <3>8. Cardinality(o \cup new) = Cardinality(o) + Cardinality(new)
      BY ONLY <3>3, <3>5, <3>6
    <3> QED BY ONLY <3>3, <3>4, <3>7, <3>8
  <2>12. \A i \in v : \E K \in SUBSET (1..n) : Down(d, K) /\ d[i] \subseteq K /\ i \notin K
    <3>1. Down(d, s.visited) BY <2>3, <2>8 DEF Down
    <3> QED BY <2>3, <2>4, <3>1 DEF Visits
  <2>13. Cardinality(v) = k + 1
    <3>1. IsFiniteSet(s.visited) /\ Cardinality(s.visited) = k
      BY <1>2, <2>3, PlacesFinite DEF Visits
    <3> QED BY ONLY <2>4, <3>1, FS_AddElement
  <2>14. w \in SUBSET (1..n) /\ v \in SUBSET (1..n) /\ left \in [1..n -> Nat]
    <3>1. w \in SUBSET (1..n) /\ v \in SUBSET (1..n) BY <2>3, <2>4
    <3> HIDE DEF new, w, v
    <3> QED BY <2>5, <3>1
  <2> HIDE DEF w, v, new, left, u
  <2>15. u \in VisitState(n) BY <2>1, <2>3, <2>11, <2>14 DEF VisitState
  <2>16. u.waiting = w /\ u.visited = v /\ u.length = s.length + Cardinality(new)
         /\ u.remaining = left
    BY <2>1
  <2>17. Visits(n, d, k + 1, u)
    BY <2>5, <2>9, <2>10, <2>11, <2>12, <2>13, <2>15, <2>16 DEF Visits
  <2> QED BY <2>17 DEF u
<1> QED BY <1>1, <1>2

First(d) ==
  LET first == {i \in DOMAIN d : d[i] = {}}
  IN [waiting |-> first, visited |-> {}, length |-> Cardinality(first),
      remaining |-> [i \in DOMAIN d |-> Cardinality(d[i])]]

VisitOf(d, visit) ==
  [k \in 0..Len(d) |-> IF k = 0 THEN First(d) ELSE G!visitNext(d, visit[k - 1])]

LEMMA VisitFirst ==
  ASSUME NEW n \in Nat, NEW d \in [1..n -> SUBSET (1..n)]
  PROVE  Visits(n, d, 0, First(d))
<1> DEFINE s == First(d)
<1>1. \A i \in 1..n : Cardinality(d[i]) \in Nat /\ d[i] \ {} = d[i] BY PlacesFinite
<1>a. DOMAIN d = 1..n OBVIOUS
<1>2. /\ s.waiting = {i \in 1..n : d[i] = {}} /\ s.visited = {}
      /\ s.length = Cardinality({i \in 1..n : d[i] = {}})
      /\ s.remaining = [i \in 1..n |-> Cardinality(d[i])]
      /\ s = [waiting |-> s.waiting, visited |-> s.visited, length |-> s.length,
              remaining |-> s.remaining]
  BY <1>a DEF First
<1>3. {i \in 1..n : d[i] = {}} \in SUBSET (1..n) OBVIOUS
<1>4. s.length \in Nat BY <1>2, <1>3, PlacesFinite
<1> HIDE DEF s
<1>5. s \in VisitState(n) BY <1>1, <1>2, <1>3, <1>4 DEF VisitState
<1>6. Cardinality(s.visited) = 0 BY <1>2, FS_EmptySet
<1>7. s.waiting \cup s.visited = {i \in 1..n : d[i] \subseteq s.visited}
      /\ s.waiting \cup s.visited = {i \in 1..n : d[i] = {}}
  BY <1>2
<1>8. \A i \in 1..n : s.remaining[i] = Cardinality(d[i] \ s.visited) BY <1>1, <1>2
<1>9. Visits(n, d, 0, s) BY <1>2, <1>5, <1>6, <1>7, <1>8 DEF Visits
<1> QED BY <1>9 DEF s

LEMMA TraversalRuns ==
  ASSUME NEW n \in Nat, NEW d \in [1..n -> SUBSET (1..n)], \A i \in 1..n : i \notin d[i]
  PROVE  \E s : Visits(n, d, n, s) /\ G!traversal(d) = s.length
<1> DEFINE X == {s \in VisitState(n) : \E k \in Nat : Visits(n, d, k, s)}
           step == [s \in X |-> G!visitNext(d, s)]
<1>1. First(d) \in X BY VisitFirst DEF Visits
<1>2. ASSUME NEW s \in X PROVE G!visitNext(d, s) \in X
  <2>1. PICK k \in Nat : Visits(n, d, k, s) OBVIOUS
  <2>2. Visits(n, d, k + 1, G!visitNext(d, s)) BY <2>1, VisitNext
  <2> QED BY <2>2 DEF Visits
<1>3. step \in [X -> X]
  <2> HIDE DEF X
  <2> QED BY <1>2
<1>4. PICK f \in [0..n -> X] :
        \A k \in 0..n : f[k] = IF k = 0 THEN First(d) ELSE step[f[k - 1]]
  <2>1. PICK Y, st : Y = X /\ st = step OBVIOUS
  <2>2. First(d) \in Y /\ st \in [Y -> Y] BY <1>1, <1>3, <2>1
  <2>3. \E f \in [0..n -> Y] : f = Turns(First(d), st, n, f)
    BY ONLY <2>2, n \in Nat, Unrolls
  <2> HIDE DEF X, step
  <2> QED BY <2>1, <2>3 DEF Turns
<1>5. ASSUME NEW k \in 0..n
      PROVE  f[k] = IF k = 0 THEN First(d) ELSE G!visitNext(d, f[k - 1])
  <2>1. k # 0 => k - 1 \in 0..n OBVIOUS
  <2> HIDE DEF X
  <2> QED BY <1>4, <2>1
<1>a. DOMAIN d = 1..n /\ Len(d) = n OBVIOUS
<1>6. f = VisitOf(d, f)
  <2>1. f = [k \in 0..n |-> f[k]] OBVIOUS
  <2> HIDE DEF X
  <2> QED BY <1>5, <1>a, <2>1 DEF VisitOf
<1> DEFINE w == CHOOSE visit : visit = VisitOf(d, visit)
<1>7. w = VisitOf(d, w) BY <1>6
<1>8. G!traversal(d) = w[n].length
  <2>1. G!traversal(d) = w[Len(d)].length
    BY DEF G!traversal, VisitOf, First, G!Cardinality, Cardinality
  <2> QED BY <1>a, <2>1
<1> HIDE DEF w
<1>9. w[0] = First(d) /\ \A k \in 1..n : w[k] = G!visitNext(d, w[k - 1])
  <2>1. 0 \in 0..n /\ \A k \in 1..n : k \in 0..n /\ k # 0 OBVIOUS
  <2> QED BY <1>7, <1>a, <2>1 DEF VisitOf
<1>10. Visits(n, d, n, w[n])
  <2> DEFINE Bad == {k \in 0..n : ~Visits(n, d, k, w[k])}
  <2>1. SUFFICES ASSUME Bad # {} PROVE FALSE
    <3>1. n \notin Bad BY <2>1
    <3> QED BY <3>1
  <2>2. PICK k \in Bad : \A j \in Bad : k <= j
    <3>1. Bad \in SUBSET Nat OBVIOUS
    <3> HIDE DEF Bad
    <3> QED BY <2>1, <3>1, Least
  <2>3. k # 0 BY <1>9, VisitFirst
  <2>4. k - 1 \in 0..n /\ k - 1 \in Nat /\ k \in 1..n /\ ~(k <= k - 1) /\ (k - 1) + 1 = k
    BY <2>3
  <2>5. Visits(n, d, k - 1, w[k - 1]) BY <2>2, <2>4
  <2>6. Visits(n, d, (k - 1) + 1, G!visitNext(d, w[k - 1])) BY <2>4, <2>5, VisitNext
  <2> QED BY <1>9, <2>4, <2>6
<1> QED BY <1>8, <1>10

\* The traversal counts all the tasks of a plan if and only if the plan has no
\* cycle. Of the tasks it does not visit each depends on another one of them;
\* the one that reaches the fewest tasks would reach more than its dependency.
LEMMA TraversalCounts ==
  ASSUME NEW n \in Nat, NEW d \in [1..n -> SUBSET (1..n)], \A i \in 1..n : i \notin d[i]
  PROVE  G!traversal(d) = n <=> G!Acyclic(G!planEdges(d, 0))
<1> DEFINE A == G!planEdges(d, 0)
<1>1. PICK s : Visits(n, d, n, s) /\ G!traversal(d) = s.length BY TraversalRuns
<1>2. /\ s.waiting \in SUBSET (1..n) /\ s.visited \in SUBSET (1..n)
      /\ s.length = Cardinality(s.waiting \cup s.visited)
      /\ \A i \in 1..n : i \in s.waiting \cup s.visited <=> d[i] \subseteq s.visited
      /\ s.waiting = {} \/ Cardinality(s.visited) = n
      /\ \A i \in s.visited : \E K \in SUBSET (1..n) : Down(d, K) /\ d[i] \subseteq K /\ i \notin K
      /\ s.waiting \cap s.visited = {}
  BY <1>1 DEF Visits, VisitState
<1>3. IsFiniteSet(1..n) /\ Cardinality(1..n) = n
  BY FS_Interval
<1>4. /\ IsFiniteSet(A)
      /\ \A i \in 1..n : \A j \in d[i] : PlanEdge(0, i, j) \in A
      /\ \A e \in A : \E i \in 1..n : \E j \in d[i] : e = PlanEdge(0, i, j)
  BY EdgesOfPlan
<1>5. \A i \in 1..n : \A j \in 1..n : PlanEdge(0, i, j).from = i /\ PlanEdge(0, i, j).to = j
  BY DEF PlanEdge
<1>6. \A i \in 1..n : d[i] \subseteq 1..n OBVIOUS
<1> HIDE DEF A
<1>7. ASSUME NEW K \in SUBSET (1..n) PROVE Shut(A, K) <=> Down(d, K)
  <2>1. ASSUME Shut(A, K), NEW i \in K, NEW j \in d[i] PROVE j \in K
    <3>1. i \in 1..n /\ j \in 1..n BY <1>6
    <3> QED BY <1>4, <1>5, <2>1, <3>1 DEF Shut
  <2>2. ASSUME Down(d, K), NEW e \in A, e.from \in K PROVE e.to \in K
    <3>1. PICK i \in 1..n : \E j \in d[i] : e = PlanEdge(0, i, j) BY <1>4
    <3>2. PICK j \in d[i] : e = PlanEdge(0, i, j) BY <3>1
    <3>3. e.from = i /\ e.to = j BY <1>5, <1>6, <3>2
    <3> QED BY <2>2, <3>3 DEF Down
  <2> QED BY <2>1, <2>2 DEF Shut, Down
<1>8. ASSUME s.length = n PROVE G!Acyclic(A)
  <2>1. s.waiting \cup s.visited = 1..n
    <3>1. s.waiting \cup s.visited \in SUBSET (1..n) BY <1>2
    <3>2. Cardinality(1..n) = Cardinality(s.waiting \cup s.visited) BY <1>2, <1>3, <1>8
    <3> QED BY ONLY <1>3, <3>1, <3>2, FS_Subset
  <2>2. ASSUME NEW i \in 1..n
        PROVE  \E K \in SUBSET (1..n) : Down(d, K) /\ d[i] \subseteq K /\ i \notin K
    <3>1. CASE i \in s.visited BY <1>2, <3>1
    <3>2. CASE i \in s.waiting
      <4>1. Down(d, s.visited) BY <1>2, <2>1 DEF Down
      <4>2. d[i] \subseteq s.visited /\ i \notin s.visited BY <1>2, <2>1, <3>2
      <4> QED BY <1>2, <4>1, <4>2
    <3> QED BY <2>1, <3>1, <3>2
  <2>3. ASSUME NEW e \in A PROVE \E K : Parts(A, K, e)
    <3>1. PICK i \in 1..n : \E j \in d[i] : e = PlanEdge(0, i, j) BY <1>4
    <3>2. PICK j \in d[i] : e = PlanEdge(0, i, j) BY <3>1
    <3>3. e.from = i /\ e.to = j BY <1>5, <1>6, <3>2
    <3>4. PICK K \in SUBSET (1..n) : Down(d, K) /\ d[i] \subseteq K /\ i \notin K BY <2>2
    <3> QED BY <1>7, <3>3, <3>4 DEF Parts
  <2> QED BY <1>4, <2>3, AcyclicIsParted
<1>9. ASSUME G!Acyclic(A) PROVE s.length = n
  <2>1. CASE 1..n \subseteq s.visited
    <3>1. s.waiting \cup s.visited = 1..n BY <1>2, <2>1
    <3> QED BY <1>2, <1>3, <3>1
  <2>2. CASE ~(1..n \subseteq s.visited)
    <3> DEFINE C == (1..n) \ s.visited
    <3>1. s.waiting = {}
      <4>1. s.visited # 1..n BY <2>2
      <4>2. Cardinality(s.visited) # Cardinality(1..n) BY ONLY <1>2, <1>3, <4>1, FS_Subset
      <4> QED BY <1>2, <1>3, <4>2
    <3>2. \A i \in C : \E j \in d[i] : j \in C BY <1>2, <1>6, <3>1
    <3>3. \A i \in 1..n : /\ i \in G!reach(A, i) /\ Shut(A, G!reach(A, i))
                          /\ \A K : i \in K /\ Shut(A, K) => G!reach(A, i) \subseteq K
      BY <1>4, ReachIsLeast
    <3>4. Shut(A, 1..n) BY <1>6, <1>7 DEF Down
    <3>5. \A i \in 1..n : IsFiniteSet(G!reach(A, i)) /\ Cardinality(G!reach(A, i)) \in Nat
      <4>1. \A i \in 1..n : G!reach(A, i) \in SUBSET (1..n) BY <3>3, <3>4
      <4> QED BY <4>1, PlacesFinite
    <3> DEFINE M == {Cardinality(G!reach(A, i)) : i \in C}
    <3>6. PICK m \in M : \A k \in M : m <= k
      <4>1. M \in SUBSET Nat BY <3>5
      <4>2. M # {} BY <2>2
      <4> HIDE DEF M
      <4> QED BY <4>1, <4>2, Least
    <3>7. PICK i \in C : \A k \in C : Cardinality(G!reach(A, i)) <= Cardinality(G!reach(A, k))
      BY <3>6
    <3>8. PICK j \in d[i] : j \in C BY <3>2
    <3>9. PlanEdge(0, i, j) \in A /\ PlanEdge(0, i, j).from = i /\ PlanEdge(0, i, j).to = j
      BY <1>4, <1>5, <3>8
    <3>10. j \in G!reach(A, i) BY <3>3, <3>9 DEF Shut
    <3>11. i \notin G!reach(A, j) BY <1>9, <3>9 DEF G!Acyclic
    <3>12. i \in G!reach(A, i) /\ G!reach(A, j) \subseteq G!reach(A, i) \ {i}
      BY <3>3, <3>8, <3>10, <3>11
    <3> DEFINE R == G!reach(A, i)
               Q == G!reach(A, j)
    <3>13. IsFiniteSet(R) /\ Cardinality(R) \in Nat /\ Cardinality(Q) \in Nat
           /\ Cardinality(R) <= Cardinality(Q)
      BY <3>5, <3>7, <3>8
    <3>14. i \in R /\ Q \in SUBSET (R \ {i}) BY <3>12
    <3> HIDE DEF R, Q, C, M
    <3>15. IsFiniteSet(R \ {i}) /\ Cardinality(R \ {i}) = Cardinality(R) - 1
      BY ONLY <3>13, <3>14, FS_RemoveElement
    <3>16. Cardinality(Q) <= Cardinality(R \ {i}) BY ONLY <3>14, <3>15, FS_Subset
    <3>17. FALSE BY ONLY <3>13, <3>15, <3>16
    <3> QED BY <3>17
  <2> QED BY <2>1, <2>2
<1> QED BY <1>1, <1>8, <1>9 DEF A

(***************************************************************************)
(* The inductive invariant of the dependencies: besides the acyclicity,    *)
(* the row is held by the one request that has checked, for which the      *)
(* check still holds.                                                      *)
(***************************************************************************)
AdderRecord == [stage : {"idle", "asked", "locked", "checked"}, from : Nat, to : Nat,
                type : EdgeType]

GraphTypes ==
  /\ task \in Nat /\ adder \in [Adder -> AdderRecord] /\ holder \in Adder \cup {G!Nobody}
  /\ edge \subseteq [from : G!Tasks, to : G!Tasks, type : EdgeType]

Asked(a) == adder[a].stage # "idle" => adder[a].from \in G!Tasks /\ adder[a].to \in G!Tasks

Checked(a) ==
  /\ adder[a].stage \in {"locked", "checked"} => holder = a
  /\ adder[a].stage = "checked" => adder[a].from \notin G!reach(edge, adder[a].to)

Judged == \E n \in Nat : \E d \in [1..n -> SUBSET (1..(n + 1))] :
            plan = [tasks |-> d, accepted |-> G!plannerOutputSchema(d), stored |-> FALSE]

PlanInv == plan = G!NoPlan \/ plan = G!Settled \/ Judged

EdgeInv == IsFiniteSet(edge) /\ G!Acyclic(edge)

GraphInv == /\ GraphTypes /\ EdgeInv /\ PlanInv
            /\ \A a \in Adder : Asked(a) /\ Checked(a)

LEMMA Wish ==
  /\ G!NoWish \in AdderRecord /\ G!NoWish.stage = "idle" /\ G!NoWish.type \in EdgeType
  /\ G!Nobody \notin Adder
<1>1. (CHOOSE t \in EdgeType : TRUE) \in EdgeType BY GraphAssumption
<1> QED BY <1>1, GraphAssumption DEF G!NoWish, AdderRecord, G!Nobody

\* What the schema of the planner's output lets through.
LEMMA SchemaIsRight ==
  ASSUME NEW n \in Nat, NEW d \in [1..n -> SUBSET (1..(n + 1))]
  PROVE  /\ G!plannerOutputSchema(d) <=> G!validReferences(d) /\ G!Acyclic(G!planEdges(d, 0))
         /\ G!validReferences(d) =>
              d \in [1..n -> SUBSET (1..n)] /\ \A i \in 1..n : i \notin d[i]
         /\ Len(d) = n
<1>1. DOMAIN d = 1..n /\ Len(d) = n OBVIOUS
<1>2. ASSUME G!validReferences(d)
      PROVE  d \in [1..n -> SUBSET (1..n)] /\ \A i \in 1..n : i \notin d[i]
  <2>1. \A i \in 1..n : i \notin d[i] /\ d[i] \subseteq 1..n
    BY <1>1, <1>2 DEF G!validReferences
  <2> QED BY <2>1
<1>3. ASSUME G!validReferences(d)
      PROVE  G!traversal(d) = n <=> G!Acyclic(G!planEdges(d, 0))
  BY <1>2, <1>3, TraversalCounts
<1> QED BY <1>1, <1>2, <1>3 DEF G!plannerOutputSchema

LEMMA NoEdges == IsFiniteSet({}) /\ G!Acyclic({})
BY FS_EmptySet DEF G!Acyclic

LEMMA GraphInitial == MCInit => GraphInv
<1> SUFFICES ASSUME MCInit PROVE GraphInv OBVIOUS
<1>1. /\ task = 1 /\ edge = {} /\ adder = [a \in Adder |-> G!NoWish] /\ holder = G!Nobody
      /\ plan = G!NoPlan
  BY DEF MCInit, G!GraphInit
<1>2. GraphTypes BY <1>1, Wish DEF GraphTypes
<1>3. \A a \in Adder : Asked(a) /\ Checked(a) BY <1>1, Wish DEF Asked, Checked
<1> QED BY <1>1, <1>2, <1>3, NoEdges DEF GraphInv, EdgeInv, PlanInv

\* The steps of a request leave the tasks and the plan alone.
LEMMA AdderSteps ==
  ASSUME GraphInv, NEW a \in Adder, UNCHANGED <<task, plan>>,
         NEW rec \in AdderRecord, adder' = [adder EXCEPT ![a] = rec],
         holder' \in Adder \cup {G!Nobody},
         edge' \subseteq [from : G!Tasks, to : G!Tasks, type : EdgeType],
         EdgeInv', Asked(a)', Checked(a)',
         \A b \in Adder \ {a} : adder[b].stage \in {"locked", "checked"} =>
                                  holder' = b /\ edge' = edge
  PROVE  GraphInv'
<1>1. GraphTypes' BY DEF GraphInv, GraphTypes, G!Tasks
<1>2. PlanInv' BY DEF GraphInv, PlanInv, Judged
<1>3. \A b \in Adder \ {a} : adder'[b] = adder[b] BY DEF GraphInv, GraphTypes
<1>4. ASSUME NEW b \in Adder \ {a} PROVE Asked(b)' /\ Checked(b)'
  <2>1. Asked(b) /\ Checked(b) BY DEF GraphInv
  <2>2. Asked(b)' BY <1>3, <2>1 DEF Asked, G!Tasks
  <2>3. Checked(b)' BY <1>3, <2>1 DEF Checked
  <2> QED BY <2>2, <2>3
<1> QED BY <1>1, <1>2, <1>4 DEF GraphInv

LEMMA AskStep ==
  ASSUME GraphInv, NEW a \in Adder, NEW from \in G!Tasks, NEW to \in G!Tasks,
         NEW type \in EdgeType, G!Ask(a, from, to, type)
  PROVE  GraphInv'
<1> DEFINE rec == [stage |-> "asked", from |-> from, to |-> to, type |-> type]
<1>1. /\ adder' = [adder EXCEPT ![a] = rec] /\ UNCHANGED <<task, edge, holder, plan>>
      /\ rec \in AdderRecord
  BY DEF G!Ask, AdderRecord, G!Tasks, GraphInv, GraphTypes
<1>2. adder'[a] = rec BY <1>1 DEF GraphInv, GraphTypes
<1>3. Asked(a)' /\ Checked(a)' BY <1>1, <1>2 DEF Asked, Checked, G!Tasks
<1>4. EdgeInv' BY <1>1 DEF GraphInv, EdgeInv
<1>5. \A b \in Adder \ {a} : adder[b].stage \in {"locked", "checked"} =>
                               holder' = b /\ edge' = edge
  BY <1>1 DEF GraphInv, Checked
<1>6. /\ holder' \in Adder \cup {G!Nobody}
      /\ edge' \subseteq [from : G!Tasks, to : G!Tasks, type : EdgeType]
  BY <1>1 DEF GraphInv, GraphTypes
<1>7. UNCHANGED <<task, plan>> BY <1>1
<1> HIDE DEF rec
<1> QED BY <1>1, <1>3, <1>4, <1>5, <1>6, <1>7, AdderSteps

\* Nobody has checked while the row is free.
LEMMA FreeRow ==
  ASSUME GraphInv, G!free
  PROVE  \A b \in Adder : adder[b].stage \notin {"locked", "checked"}
BY Wish DEF GraphInv, Checked, G!free

LEMMA LockStep ==
  ASSUME GraphInv, NEW a \in Adder, G!lockProject(a)
  PROVE  GraphInv'
<1> DEFINE rec == [adder[a] EXCEPT !.stage = "locked"]
<1>1. /\ adder' = [adder EXCEPT ![a] = rec] /\ UNCHANGED <<task, edge, plan>>
      /\ holder' = a /\ adder[a].stage = "asked" /\ G!free
  BY DEF G!lockProject
<1>2. adder[a] \in AdderRecord BY DEF GraphInv, GraphTypes
<1>3. rec \in AdderRecord /\ rec.stage = "locked" /\ rec.from = adder[a].from
      /\ rec.to = adder[a].to
  BY <1>2 DEF AdderRecord
<1> HIDE DEF rec
<1>4. adder'[a] = rec BY <1>1 DEF GraphInv, GraphTypes
<1>5. Asked(a)' /\ Checked(a)'
  BY <1>1, <1>3, <1>4 DEF GraphInv, Asked, Checked, G!Tasks
<1>6. EdgeInv' BY <1>1 DEF GraphInv, EdgeInv
<1>7. \A b \in Adder \ {a} : adder[b].stage \in {"locked", "checked"} =>
                               holder' = b /\ edge' = edge
  BY <1>1, FreeRow
<1>8. /\ holder' \in Adder \cup {G!Nobody}
      /\ edge' \subseteq [from : G!Tasks, to : G!Tasks, type : EdgeType]
  BY <1>1 DEF GraphInv, GraphTypes
<1>9. UNCHANGED <<task, plan>> BY <1>1
<1> QED BY <1>1, <1>3, <1>5, <1>6, <1>7, <1>8, <1>9, AdderSteps

LEMMA CheckStep ==
  ASSUME GraphInv, NEW a \in Adder, G!Check(a)
  PROVE  GraphInv'
<1>1. UNCHANGED <<task, edge, plan>> /\ adder[a].stage = "locked" BY DEF G!Check
<1>2. adder[a] \in AdderRecord BY DEF GraphInv, GraphTypes
<1>3. holder = a /\ \A b \in Adder \ {a} : adder[b].stage \notin {"locked", "checked"}
  BY <1>1 DEF GraphInv, Checked
<1>4. EdgeInv' BY <1>1 DEF GraphInv, EdgeInv
<1>5. edge' \subseteq [from : G!Tasks, to : G!Tasks, type : EdgeType]
  BY <1>1 DEF GraphInv, GraphTypes
<1>6. UNCHANGED <<task, plan>> BY <1>1
<1>7. CASE G!refusal(adder[a]) = "none"
  <2> DEFINE rec == [adder[a] EXCEPT !.stage = "checked"]
  <2>1. adder' = [adder EXCEPT ![a] = rec] /\ holder' = holder BY <1>7 DEF G!Check
  <2>2. rec \in AdderRecord /\ rec.stage = "checked" /\ rec.from = adder[a].from
        /\ rec.to = adder[a].to
    BY <1>2 DEF AdderRecord
  <2>3. adder[a].from \notin G!reach(edge, adder[a].to)
    BY <1>7 DEF G!refusal, G!wouldCycle
  <2> HIDE DEF rec
  <2>4. adder'[a] = rec BY <2>1 DEF GraphInv, GraphTypes
  <2>5. Asked(a)' /\ Checked(a)'
    BY <1>1, <1>3, <2>1, <2>2, <2>3, <2>4 DEF GraphInv, Asked, Checked, G!Tasks
  <2>6. holder' \in Adder \cup {G!Nobody} BY <1>3, <2>1
  <2>7. \A b \in Adder \ {a} : adder[b].stage \in {"locked", "checked"} =>
                                 holder' = b /\ edge' = edge
    BY <1>3
  <2> QED BY <1>4, <1>5, <1>6, <2>1, <2>2, <2>5, <2>6, <2>7, AdderSteps
<1>8. CASE G!refusal(adder[a]) # "none"
  <2> DEFINE rec == G!NoWish
  <2>1. adder' = [adder EXCEPT ![a] = rec] /\ holder' = G!Nobody
    BY <1>3, <1>8 DEF G!Check, G!release
  <2>2. rec \in AdderRecord /\ rec.stage = "idle" BY Wish
  <2> HIDE DEF rec
  <2>4. adder'[a] = rec BY <2>1 DEF GraphInv, GraphTypes
  <2>5. Asked(a)' /\ Checked(a)' BY <2>2, <2>4 DEF Asked, Checked
  <2>6. holder' \in Adder \cup {G!Nobody} BY <2>1
  <2>7. \A b \in Adder \ {a} : adder[b].stage \in {"locked", "checked"} =>
                                 holder' = b /\ edge' = edge
    BY <1>3
  <2> QED BY <1>4, <1>5, <1>6, <2>1, <2>2, <2>5, <2>6, <2>7, AdderSteps
<1> QED BY <1>7, <1>8

LEMMA InsertStep ==
  ASSUME GraphInv, NEW a \in Adder, G!Insert(a)
  PROVE  GraphInv'
<1> DEFINE n == [from |-> adder[a].from, to |-> adder[a].to, type |-> adder[a].type]
           rec == G!NoWish
<1>1. /\ edge' = edge \cup {n} /\ adder' = [adder EXCEPT ![a] = rec]
      /\ UNCHANGED <<task, plan>> /\ adder[a].stage = "checked"
  BY DEF G!Insert
<1>2. adder[a] \in AdderRecord BY DEF GraphInv, GraphTypes
<1>3. /\ holder = a /\ \A b \in Adder \ {a} : adder[b].stage \notin {"locked", "checked"}
      /\ adder[a].from \notin G!reach(edge, adder[a].to)
      /\ adder[a].from \in G!Tasks /\ adder[a].to \in G!Tasks
  BY <1>1 DEF GraphInv, Checked, Asked
<1>4. holder' = G!Nobody BY <1>3 DEF G!Insert, G!release
<1>5. n.from \notin G!reach(edge, n.to) /\ n \in [from : G!Tasks, to : G!Tasks, type : EdgeType]
  BY <1>2, <1>3 DEF AdderRecord
<1>6. rec \in AdderRecord /\ rec.stage = "idle" BY Wish
<1> HIDE DEF n, rec
<1>7. EdgeInv'
  <2>1. IsFiniteSet(edge) /\ G!Acyclic(edge) BY DEF GraphInv, EdgeInv
  <2>2. G!Acyclic(edge \cup {n}) /\ IsFiniteSet(edge \cup {n}) BY <1>5, <2>1, OneEdgeMore
  <2> QED BY <1>1, <2>2 DEF EdgeInv
<1>8. adder'[a] = rec BY <1>1 DEF GraphInv, GraphTypes
<1>9. Asked(a)' /\ Checked(a)' BY <1>6, <1>8 DEF Asked, Checked
<1>10. edge' \subseteq [from : G!Tasks, to : G!Tasks, type : EdgeType]
  BY <1>1, <1>5 DEF GraphInv, GraphTypes
<1>11. holder' \in Adder \cup {G!Nobody} BY <1>4
<1>12. \A b \in Adder \ {a} : adder[b].stage \in {"locked", "checked"} =>
                                holder' = b /\ edge' = edge
  BY <1>3
<1>13. UNCHANGED <<task, plan>> BY <1>1
<1> QED BY <1>1, <1>6, <1>7, <1>9, <1>10, <1>11, <1>12, <1>13, AdderSteps

\* New tasks and their edges, while the row is free.
LEMMA NewTasks ==
  ASSUME GraphInv, G!free, NEW k \in Nat, task' = task + k, UNCHANGED <<adder, holder>>,
         PlanInv', EdgeInv', NEW F, edge' = edge \cup F,
         F \subseteq [from : 1..(task + k), to : 1..(task + k), type : EdgeType]
  PROVE  GraphInv'
<1>1. G!Tasks \subseteq 1..(task + k) /\ G!Tasks' = 1..(task + k) /\ task + k \in Nat
  BY DEF GraphInv, GraphTypes, G!Tasks
<1>2. edge' \subseteq [from : 1..(task + k), to : 1..(task + k), type : EdgeType]
  <2>1. edge \subseteq [from : 1..(task + k), to : 1..(task + k), type : EdgeType]
    BY <1>1 DEF GraphInv, GraphTypes
  <2> QED BY <2>1
<1>3. GraphTypes' BY <1>1, <1>2 DEF GraphInv, GraphTypes
<1>4. \A b \in Adder : Asked(b)' BY <1>1 DEF GraphInv, Asked
<1>5. \A b \in Adder : Checked(b)' BY FreeRow DEF Checked
<1> QED BY <1>3, <1>4, <1>5 DEF GraphInv

LEMMA CreateTaskStep ==
  ASSUME GraphInv, NEW on \in SUBSET G!Tasks, G!CreateTask(on)
  PROVE  GraphInv'
<1> DEFINE F == {[from |-> task + 1, to |-> t, type |-> G!NoWish.type] : t \in on}
<1>1. /\ G!free /\ task' = task + 1 /\ edge' = edge \cup F /\ UNCHANGED <<adder, holder, plan>>
      /\ task \in Nat
  BY DEF G!CreateTask, GraphInv, GraphTypes
<1>2. /\ \A e \in F : e.from = task + 1 /\ e.to \in G!Tasks
      /\ F \subseteq [from : 1..(task + 1), to : 1..(task + 1), type : EdgeType]
  <2>1. ASSUME NEW e \in F
        PROVE  /\ e.from = task + 1 /\ e.to \in G!Tasks
               /\ e \in [from : 1..(task + 1), to : 1..(task + 1), type : EdgeType]
    <3>1. PICK t \in on : e = [from |-> task + 1, to |-> t, type |-> G!NoWish.type] OBVIOUS
    <3>2. t \in 1..task /\ task + 1 \in 1..(task + 1) BY <1>1 DEF G!Tasks
    <3>3. t \in 1..(task + 1) BY <1>1, <3>2
    <3> QED BY <3>1, <3>2, <3>3, Wish DEF G!Tasks
  <2> HIDE DEF F
  <2> QED BY <2>1
<1>3. IsFiniteSet(F)
  <2> DEFINE f == [t \in on |-> [from |-> task + 1, to |-> t, type |-> G!NoWish.type]]
  <2>1. IsFiniteSet(on)
    <3>1. IsFiniteSet(G!Tasks) BY <1>1, FS_Interval DEF G!Tasks
    <3> QED BY <3>1, FS_Subset
  <2>2. f \in Surjection(on, F) BY DEF Surjection
  <2> HIDE DEF f, F
  <2> QED BY <2>1, <2>2, FS_Surjection
<1> HIDE DEF F
<1>4. /\ IsFiniteSet(edge) /\ G!Acyclic(edge)
      /\ \A e \in edge : e.from \in G!Tasks /\ e.to \in G!Tasks
  BY DEF GraphInv, EdgeInv, GraphTypes
<1>5. task + 1 \notin G!Tasks BY <1>1 DEF G!Tasks
<1>6. PICK T : T = G!Tasks OBVIOUS
<1>7. ASSUME NEW e \in F PROVE e.from \notin T /\ \E K : Parts(edge \cup F, K, e)
  <2>1. Parts(edge \cup F, T, e) BY <1>2, <1>4, <1>5, <1>6 DEF Parts, Shut
  <2> QED BY <2>1 DEF Parts
<1>8. EdgeInv'
  <2>1. \A e \in edge : e.from \in T /\ e.to \in T BY <1>4, <1>6
  <2>2. \A e \in F : e.from \notin T /\ \E K : Parts(edge \cup F, K, e) BY <1>7
  <2>3. G!Acyclic(edge \cup F) /\ IsFiniteSet(edge \cup F)
    BY <1>3, <1>4, <2>1, <2>2, EdgesBeside
  <2> QED BY <1>1, <2>3 DEF EdgeInv
<1>9. PlanInv' BY <1>1 DEF GraphInv, PlanInv, Judged
<1>10. 1 \in Nat OBVIOUS
<1>11. UNCHANGED <<adder, holder>> BY <1>1
<1> QED BY <1>1, <1>2, <1>8, <1>9, <1>10, <1>11, NewTasks

LEMMA JudgeStep ==
  ASSUME GraphInv, G!Judge
  PROVE  GraphInv'
<1>1. UNCHANGED <<task, edge, adder, holder>> BY DEF G!Judge
<1>2. PICK d \in G!Plans :
        plan' = [tasks |-> d, accepted |-> G!plannerOutputSchema(d), stored |-> FALSE]
  BY DEF G!Judge
<1>3. PICK n \in PlanSizes : d \in [1..n -> SUBSET (1..(n + 1))] BY DEF G!Plans
<1>4. n \in Nat BY GraphAssumption
<1>5. PlanInv' BY <1>2, <1>3, <1>4 DEF PlanInv, Judged
<1>6. GraphTypes' /\ EdgeInv' BY <1>1 DEF GraphInv, GraphTypes, EdgeInv, G!Tasks
<1>7. \A a \in Adder : Asked(a)' /\ Checked(a)' BY <1>1 DEF GraphInv, Asked, Checked, G!Tasks
<1> QED BY <1>5, <1>6, <1>7 DEF GraphInv

LEMMA MaterializeStep ==
  ASSUME GraphInv, G!Materialize
  PROVE  GraphInv'
<1>1. /\ G!free /\ plan # G!NoPlan /\ ~plan.stored /\ plan.accepted /\ plan' = G!Settled
      /\ UNCHANGED <<adder, holder>>
      /\ task' = task + Len(plan.tasks) /\ edge' = edge \cup G!planEdges(plan.tasks, task)
  BY DEF G!Materialize
<1>2. PICK n \in Nat : \E d \in [1..n -> SUBSET (1..(n + 1))] :
        plan = [tasks |-> d, accepted |-> G!plannerOutputSchema(d), stored |-> FALSE]
  <2>1. G!Settled.stored = TRUE BY DEF G!Settled, G!NoPlan
  <2> QED BY <1>1, <2>1 DEF GraphInv, PlanInv, Judged
<1>3. PICK d \in [1..n -> SUBSET (1..(n + 1))] :
        plan = [tasks |-> d, accepted |-> G!plannerOutputSchema(d), stored |-> FALSE]
  BY <1>2
<1>4. plan.tasks = d /\ G!plannerOutputSchema(d) BY <1>1, <1>3
<1>5. d \in [1..n -> SUBSET (1..n)] /\ G!Acyclic(G!planEdges(d, 0)) /\ Len(d) = n
  BY <1>4, SchemaIsRight
<1> DEFINE F == G!planEdges(d, task)
<1>6. task \in Nat /\ IsFiniteSet(edge) /\ G!Acyclic(edge)
  BY DEF GraphInv, GraphTypes, EdgeInv
<1>7. \A e \in edge : e.from \in 1..task /\ e.to \in 1..task
  BY DEF GraphInv, GraphTypes, G!Tasks
<1>8. G!Acyclic(edge \cup F) /\ IsFiniteSet(edge \cup F)
  BY <1>5, <1>6, <1>7, PlanBeside
<1>9. \A e \in F : \E i \in 1..n : \E j \in d[i] : e = PlanEdge(task, i, j)
  BY <1>5, <1>6, EdgesOfPlan
<1> HIDE DEF F
<1>10. F \subseteq [from : 1..(task + n), to : 1..(task + n), type : EdgeType]
  <2>1. ASSUME NEW e \in F
        PROVE  e \in [from : 1..(task + n), to : 1..(task + n), type : EdgeType]
    <3>1. PICK i \in 1..n : \E j \in d[i] : e = PlanEdge(task, i, j) BY <1>9
    <3>2. PICK j \in d[i] : e = PlanEdge(task, i, j) BY <3>1
    <3>3. j \in 1..n BY <1>5
    <3>4. task + i \in 1..(task + n) /\ task + j \in 1..(task + n) BY <1>6, <3>3
    <3> QED BY <3>2, <3>4, Wish DEF PlanEdge
  <2> QED BY <2>1
<1>11. EdgeInv' /\ edge' = edge \cup F /\ task' = task + n
  BY <1>1, <1>4, <1>5, <1>8 DEF EdgeInv, F
<1>12. PlanInv' BY <1>1 DEF PlanInv
<1>13. UNCHANGED <<adder, holder>> BY <1>1
<1> QED BY <1>1, <1>10, <1>11, <1>12, <1>13, NewTasks

LEMMA GraphSteps == GraphInv /\ [MCNext]_MCvars => GraphInv'
<1> SUFFICES ASSUME GraphInv, [MCNext]_MCvars PROVE GraphInv' OBVIOUS
<1>1. CASE UNCHANGED <<task, edge, adder, holder, plan>>
  <2>1. GraphTypes' /\ EdgeInv' /\ PlanInv'
    BY <1>1 DEF GraphInv, GraphTypes, EdgeInv, PlanInv, Judged, G!Tasks
  <2>2. \A a \in Adder : Asked(a)' /\ Checked(a)' BY <1>1 DEF GraphInv, Asked, Checked, G!Tasks
  <2> QED BY <2>1, <2>2 DEF GraphInv
<1>2. CASE G!GraphNext
  <2>1. ASSUME NEW a \in Adder, NEW from \in G!Tasks, NEW to \in G!Tasks, NEW type \in EdgeType,
               G!Ask(a, from, to, type)
        PROVE  GraphInv'
    BY <2>1, AskStep
  <2>2. ASSUME NEW a \in Adder, G!lockProject(a) PROVE GraphInv' BY <2>2, LockStep
  <2>3. ASSUME NEW a \in Adder, G!Check(a) PROVE GraphInv' BY <2>3, CheckStep
  <2>4. ASSUME NEW a \in Adder, G!Insert(a) PROVE GraphInv' BY <2>4, InsertStep
  <2>5. ASSUME NEW on \in SUBSET G!Tasks, G!CreateTask(on) PROVE GraphInv'
    BY <2>5, CreateTaskStep
  <2> QED BY <1>2, <2>1, <2>2, <2>3, <2>4, <2>5, JudgeStep, MaterializeStep DEF G!GraphNext
<1> QED BY <1>1, <1>2 DEF MCNext, MCvars, graph

(***************************************************************************)
(* No task waits for itself, and a plan is accepted exactly if its         *)
(* dependencies are places of it without a cycle                           *)
(* (task-dependencies.service.ts, TasksService.createTaskInTransaction,    *)
(* plannerOutputSchema); for any number of requests that run side by side, *)
(* of tasks and of kinds, and for plans of any size.                       *)
(***************************************************************************)
THEOREM DependenciesHold == MCSpec => []DependenciesAreSound
<1>1. MCInit => GraphInv BY GraphInitial
<1>2. GraphInv => DependenciesAreSound
  <2> SUFFICES ASSUME GraphInv PROVE DependenciesAreSound OBVIOUS
  <2>1. G!GraphTypeOK BY DEF G!GraphTypeOK, GraphInv, GraphTypes, AdderRecord
  <2>2. G!DependenciesAreAcyclic BY DEF G!DependenciesAreAcyclic, GraphInv, EdgeInv
  <2>3. G!PlansAreJudgedRight
    <3>1. CASE plan = G!NoPlan \/ plan = G!Settled
      <4>1. plan.tasks = <<>> /\ plan.accepted = TRUE BY <3>1 DEF G!NoPlan, G!Settled
      <4>2. G!planEdges(<<>>, 0) = {} BY DEF G!planEdges
      <4>3. G!validReferences(<<>>) BY DEF G!validReferences
      <4> QED BY <4>1, <4>2, <4>3, NoEdges DEF G!PlansAreJudgedRight
    <3>2. CASE Judged
      <4>1. PICK n \in Nat : \E d \in [1..n -> SUBSET (1..(n + 1))] :
              plan = [tasks |-> d, accepted |-> G!plannerOutputSchema(d), stored |-> FALSE]
        BY <3>2 DEF Judged
      <4>2. PICK d \in [1..n -> SUBSET (1..(n + 1))] :
              plan = [tasks |-> d, accepted |-> G!plannerOutputSchema(d), stored |-> FALSE]
        BY <4>1
      <4>3. plan.tasks = d /\ plan.accepted = G!plannerOutputSchema(d) BY <4>2
      <4> QED BY <4>3, SchemaIsRight DEF G!PlansAreJudgedRight
    <3> QED BY <3>1, <3>2 DEF GraphInv, PlanInv
  <2> QED BY <2>1, <2>2, <2>3 DEF DependenciesAreSound
<1> QED BY <1>1, <1>2, GraphSteps, PTL DEF MCSpec
=============================================================================
