----------------------------- MODULE TaskIntake -----------------------------
(***************************************************************************)
(* How a task comes in: the new-task dialog of the web application, the    *)
(* network between it and the API, and TasksService.create with its        *)
(* idempotency record; then the start of the task's workflow, which the    *)
(* dialog asks for as soon as it knows the task.                           *)
(*                                                                         *)
(* A call may be answered late or never: the dialog may take it for lost   *)
(* at any time while the API goes on with it, so two calls of one dialog   *)
(* can be in the API at once. Each await of the API is a step of its own;  *)
(* a transaction that holds the project row to its end is one step.        *)
(*                                                                         *)
(* A task is known by the number in its key. Idempotency keys are random   *)
(* UUIDs: each new attempt of the dialog gets the next number. op_word     *)
(* next to op is a faulty variant of op.                                   *)
(***************************************************************************)
EXTENDS Naturals, Sequences, FiniteSets

CONSTANTS
  Body,          \* contents of the form
  FirstSequence, \* taskSequence of the project at the start
  FirstTasks,    \* numbers of the tasks the project has at the start
  MaxCalls,      \* bound: HTTP calls of the dialog
  MaxDirect,     \* bound: creations by clients that send no key
  MaxCrashes     \* bound: deaths of the API process

ASSUME IntakeAssumption ==
  /\ FirstSequence \in Nat /\ FirstTasks \subseteq Nat /\ IsFiniteSet(FirstTasks)
  /\ MaxCalls \in Nat /\ MaxDirect \in Nat /\ MaxCrashes \in Nat

VARIABLES
  dialog,    \* NewTaskDialog: its state and refs
  calls,     \* the dialog's HTTP calls, in the order they were sent
  sequence,  \* projects.taskSequence
  tasks,     \* tasks of the project: number, idempotency key, body, closed
  requests,  \* task_creation_requests by key: hash, task, replayCount
  runs,      \* workflow_runs, in the order of creation: task, status, queued
  published, \* TASK_CREATED events, in order
  outcome,   \* history: how the dialog let go of each of its attempts
  collided,  \* history: a creation gave up on a key that was taken
  direct, crashes

vars == <<dialog, calls, sequence, tasks, requests, runs, published, outcome,
          collided, direct, crashes>>

Stages == {"arrived", "validate", "insert", "open", "committed", "enqueue",
           "answered", "dead"}
NoAnswer == [status |-> "none", id |-> 0]
Answer(status, id) == [status |-> status, id |-> id]
Fresh == [open |-> FALSE, form |-> CHOOSE b \in Body : TRUE, key |-> 0,
          body |-> CHOOSE b \in Body : TRUE, submitLocked |-> FALSE,
          startLocked |-> FALSE, ambiguous |-> FALSE, created |-> 0,
          startError |-> FALSE, waiting |-> 0, shows |-> 0]
DirectKey == 0

Init ==
  /\ dialog = Fresh
  /\ calls = <<>> /\ runs = <<>> /\ requests = <<>> /\ outcome = <<>>
  /\ sequence = FirstSequence
  /\ tasks = {[number |-> n, key |-> DirectKey, body |-> Fresh.body,
               closed |-> FALSE] : n \in FirstTasks}
  /\ published = <<>> /\ collided = FALSE
  /\ direct = 0 /\ crashes = 0

-----------------------------------------------------------------------------
(***************************************************************************)
(* The dialog. outcome[k] tells how attempt k ended: live, created (the    *)
(* dialog was told its task), refused, or discarded by the user.           *)
(***************************************************************************)

api == <<sequence, tasks, requests, runs, published, collided, direct, crashes>>

send(kind, key, body, task) ==
  /\ Len(calls) < MaxCalls
  /\ calls' = Append(calls, [kind |-> kind, key |-> key, body |-> body,
                             task |-> task, stage |-> "arrived", attempt |-> 1,
                             answer |-> NoAnswer])

OpenDialog ==
  /\ ~dialog.open
  /\ dialog' = [dialog EXCEPT !.open = TRUE, !.shows = 0]
  /\ UNCHANGED <<calls, outcome, api>>

\* The fields are only closed while an outcome is unknown: a form may be
\* edited while its call is under way.
EditForm(b) ==
  /\ dialog.open /\ dialog.created = 0 /\ ~dialog.ambiguous
  /\ dialog' = [dialog EXCEPT !.form = b]
  /\ UNCHANGED <<calls, outcome, api>>

\* A kept attempt is sent again as it was, whatever the form shows now.
submit ==
  /\ dialog.open /\ ~dialog.submitLocked /\ dialog.created = 0
  /\ LET new == dialog.key = 0
         key == IF new THEN Len(outcome) + 1 ELSE dialog.key
         body == IF new THEN dialog.form ELSE dialog.body
     IN /\ dialog' = [dialog EXCEPT !.key = key, !.body = body,
                        !.ambiguous = @ /\ ~new, !.submitLocked = TRUE,
                        !.waiting = Len(calls) + 1]
        /\ outcome' = IF new THEN Append(outcome, "live") ELSE outcome
        /\ send("create", key, body, 0)
  /\ UNCHANGED api

startWorkflow(task, d) ==
  /\ ~d.startLocked
  /\ send("run", 0, d.body, task)
  /\ dialog' = [d EXCEPT !.startLocked = TRUE, !.startError = FALSE,
                         !.waiting = Len(calls) + 1]

RetryStart ==
  /\ dialog.open /\ dialog.created # 0 /\ dialog.startError
  /\ startWorkflow(dialog.created, dialog)
  /\ UNCHANGED <<outcome, api>>

discardCreateAttempt_keepsKey ==
  /\ dialog.open /\ dialog.ambiguous /\ ~dialog.submitLocked
  /\ dialog' = [dialog EXCEPT !.ambiguous = FALSE]
  /\ outcome' = [outcome EXCEPT ![dialog.key] = "discarded"]
  /\ UNCHANGED <<calls, api>>

discardCreateAttempt ==
  /\ dialog.open /\ dialog.ambiguous /\ ~dialog.submitLocked
  /\ dialog' = [dialog EXCEPT !.key = 0, !.ambiguous = FALSE]
  /\ outcome' = [outcome EXCEPT ![dialog.key] = "discarded"]
  /\ UNCHANGED <<calls, api>>

\* Closing is refused while something is unknown or under way; it and the
\* opening of a page reset the dialog.
handleOpenChange ==
  /\ dialog.open /\ ~dialog.ambiguous
  /\ ~dialog.submitLocked /\ ~dialog.startLocked
  /\ dialog' = Fresh
  /\ UNCHANGED <<calls, outcome, api>>

\* The run the dialog takes the user to.
show(run) == [Fresh EXCEPT !.shows = run]

isDefinitiveCreateFailure_any(answer) == TRUE

\* A status from 400 to 499 other than 408. Lost calls have status 0.
isDefinitiveCreateFailure(answer) == answer.status = "refused"

CreateSucceeded(task) ==
  /\ outcome' = [outcome EXCEPT ![dialog.key] = "created"]
  /\ LET d == [dialog EXCEPT !.submitLocked = FALSE, !.key = 0, !.ambiguous = FALSE,
                             !.created = task, !.waiting = 0]
     IN startWorkflow(task, d)

\* The faulty variant keeps the submit button locked.
CreateFailed_locked(answer) ==
  LET definitive == isDefinitiveCreateFailure(answer)
  IN /\ dialog' = [dialog EXCEPT !.waiting = 0, !.key = IF definitive THEN 0 ELSE @,
                     !.ambiguous = ~definitive]
     /\ outcome' = IF answer.status = "refused"
                   THEN [outcome EXCEPT ![dialog.key] = "refused"] ELSE outcome
     /\ UNCHANGED calls

CreateFailed(answer) ==
  LET definitive == isDefinitiveCreateFailure(answer)
  IN /\ dialog' = [dialog EXCEPT !.submitLocked = FALSE, !.waiting = 0,
                     !.key = IF definitive THEN 0 ELSE @,
                     !.ambiguous = ~definitive]
     /\ outcome' = IF answer.status = "refused"
                   THEN [outcome EXCEPT ![dialog.key] = "refused"] ELSE outcome
     /\ UNCHANGED calls

\* A start refused because a run is in progress leads to that run.
StartSettled(answer) ==
  /\ dialog' = IF answer.status \in {"ok", "running"} THEN show(answer.id)
               ELSE [dialog EXCEPT !.startLocked = FALSE, !.startError = TRUE,
                                   !.waiting = 0]
  /\ UNCHANGED <<calls, outcome>>

settle(call, answer) ==
  /\ IF call.kind = "run" THEN StartSettled(answer)
     ELSE IF answer.status = "ok" THEN CreateSucceeded(answer.id)
     ELSE CreateFailed(answer)
  /\ UNCHANGED api

Receive ==
  /\ dialog.waiting # 0 /\ calls[dialog.waiting].stage = "answered"
  /\ settle(calls[dialog.waiting], calls[dialog.waiting].answer)

\* fetch fails, or a proxy answers in the API's place.
Lose ==
  /\ dialog.waiting # 0
  /\ settle(calls[dialog.waiting], Answer("lost", 0))

-----------------------------------------------------------------------------
(***************************************************************************)
(* The API. c is a call that the API is working on.                        *)
(***************************************************************************)

client == <<dialog, outcome>>
At(c, stage) == c \in DOMAIN calls /\ calls[c].stage = stage
move(c, stage) == calls' = [calls EXCEPT ![c].stage = stage]
reply(c, answer) == calls' = [calls EXCEPT ![c].stage = "answered", ![c].answer = answer]

exists(key) == \E q \in DOMAIN requests : requests[q].key = key
row(key) == CHOOSE q \in DOMAIN requests : requests[q].key = key

\* The guard of every route: an expired session is refused with 401.
Unauthorized(c) ==
  /\ At(c, "arrived")
  /\ reply(c, Answer("refused", 0))
  /\ UNCHANGED <<client, api>>

\* The answer to a key that is in the table. A key of another request is a
\* conflict; a replay is counted.
replayTaskCreation(c) ==
  LET call == calls[c]
      q == row(call.key)
  IN IF requests[q].hash # call.body
     THEN reply(c, Answer("refused", 0)) /\ UNCHANGED requests
     ELSE /\ requests' = [requests EXCEPT ![q].replays = @ + 1]
          /\ reply(c, Answer("ok", requests[q].task))

\* The faulty variant treats a replay like a creation.
Replay_announces(c) ==
  /\ At(c, "arrived") /\ calls[c].kind = "create"
  /\ IF exists(calls[c].key)
     THEN replayTaskCreation(c) /\
          published' = Append(published, requests[row(calls[c].key)].task)
     ELSE move(c, "validate") /\ UNCHANGED <<requests, published>>
  /\ UNCHANGED <<client, sequence, tasks, runs, collided, direct, crashes>>

Replay(c) ==
  /\ At(c, "arrived") /\ calls[c].kind = "create"
  /\ IF exists(calls[c].key) THEN replayTaskCreation(c)
     ELSE move(c, "validate") /\ UNCHANGED requests
  /\ UNCHANGED <<client, sequence, tasks, runs, published, collided, direct, crashes>>

\* A repository, epic, feature, parent, agent or dependency may have gone
\* since the form was filled in.
validateTaskReferences(c) ==
  /\ At(c, "validate")
  /\ \/ move(c, "insert")
     \/ reply(c, Answer("refused", 0))
  /\ UNCHANGED <<client, api>>

insertable_twice(key) == TRUE

\* The unique index on the key: the insert waits for an open transaction
\* that has inserted the same key.
insertable(key) ==
  /\ ~exists(key)
  /\ \A c \in DOMAIN calls : calls[c].stage = "open" => calls[c].key # key

InsertRequest(c) ==
  /\ At(c, "insert")
  /\ \/ /\ insertable(calls[c].key)
        /\ move(c, "open") /\ UNCHANGED requests
     \/ /\ exists(calls[c].key)
        /\ replayTaskCreation(c)
  /\ UNCHANGED <<client, sequence, tasks, runs, published, collided, direct, crashes>>

nextKey == sequence + 1
taken(n) == \E t \in tasks : t.number = n

createTask_rolledBack(key, body) ==
  /\ sequence' = sequence
  /\ tasks' = tasks \cup {[number |-> nextKey, key |-> key, body |-> body,
                           closed |-> FALSE]}

createTask(key, body) ==
  /\ sequence' = nextKey
  /\ tasks' = tasks \cup {[number |-> nextKey, key |-> key, body |-> body,
                           closed |-> FALSE]}

\* The rest of the transaction. A number that is taken rolls it back, the
\* increment of the sequence included, and it is tried three times.
createTaskInTransaction(c) ==
  /\ At(c, "open")
  /\ IF ~taken(nextKey)
     THEN /\ createTask(calls[c].key, calls[c].body)
          /\ requests' = Append(requests, [key |-> calls[c].key, task |-> nextKey,
                                           hash |-> calls[c].body, replays |-> 0])
          /\ move(c, "committed")
          /\ UNCHANGED collided
     ELSE /\ IF calls[c].attempt < 3
             THEN /\ calls' = [calls EXCEPT ![c].stage = "insert", ![c].attempt = @ + 1]
                  /\ UNCHANGED collided
             ELSE reply(c, Answer("refused", 0)) /\ collided' = TRUE
          /\ UNCHANGED <<sequence, tasks, requests>>
  /\ UNCHANGED <<client, runs, published, direct, crashes>>

\* The database fails the transaction.
Abort(c) ==
  /\ At(c, "open")
  /\ reply(c, Answer("error", 0))
  /\ UNCHANGED <<client, api>>

\* After the commit: the event, then the answer.
Publish(c) ==
  /\ At(c, "committed")
  /\ LET task == requests[row(calls[c].key)].task
     IN /\ published' = Append(published, task)
        /\ reply(c, Answer("ok", task))
  /\ UNCHANGED <<client, sequence, tasks, requests, runs, collided, direct, crashes>>

\* retryOnUniqueViolation around the same transaction, for clients without a
\* key. All three attempts see the same sequence.
CreateDirect ==
  /\ direct < MaxDirect
  /\ direct' = direct + 1
  /\ IF taken(nextKey)
     THEN collided' = TRUE /\ UNCHANGED <<sequence, tasks, published>>
     ELSE /\ createTask(DirectKey, Fresh.body)
          /\ published' = Append(published, nextKey)
          /\ UNCHANGED collided
  /\ UNCHANGED <<client, calls, requests, runs, crashes>>

activeRuns(task) == {r \in DOMAIN runs : runs[r].task = task /\ runs[r].status = "active"}

blocks_none(task) == {}
\* The run that makes an unforced start a conflict.
blocks(task) == activeRuns(task)

\* The transaction of startWorkflow, on the locked task row. closed: the task
\* has ended or has no attempts left.
StartTransaction(c) ==
  /\ At(c, "arrived") /\ calls[c].kind = "run"
  /\ LET task == calls[c].task
         closed == \E t \in tasks : t.number = task /\ t.closed
     IN IF closed THEN reply(c, Answer("refused", 0)) /\ UNCHANGED runs
        ELSE IF blocks(task) # {}
        THEN \E r \in blocks(task) : reply(c, Answer("running", r)) /\ UNCHANGED runs
        ELSE /\ runs' = Append(runs, [task |-> task, status |-> "active",
                                      queued |-> FALSE, by |-> c])
             /\ move(c, "enqueue")
  /\ UNCHANGED <<client, sequence, tasks, requests, published, collided, direct, crashes>>

\* orchestrator.start; a run that could not be queued is failed again.
Enqueue(c) ==
  /\ At(c, "enqueue")
  /\ \E r \in DOMAIN runs :
       /\ runs[r].by = c
       /\ \/ /\ runs' = [runs EXCEPT ![r].queued = TRUE]
             /\ reply(c, Answer("ok", r))
          \/ /\ runs' = [runs EXCEPT ![r].status = "ended"]
             /\ reply(c, Answer("error", 0))
  /\ UNCHANGED <<client, sequence, tasks, requests, published, collided, direct, crashes>>

\* The process dies: its calls end unanswered, its open transactions roll back.
Crash ==
  /\ crashes < MaxCrashes
  /\ crashes' = crashes + 1
  /\ calls' = [c \in DOMAIN calls |->
                 IF calls[c].stage = "answered" THEN calls[c]
                 ELSE [calls[c] EXCEPT !.stage = "dead"]]
  /\ UNCHANGED <<client, sequence, tasks, requests, runs, published, collided, direct>>

\* The worker ends a run; it may leave the task closed to further starts.
RunEnds ==
  /\ \E r \in DOMAIN runs, closed \in BOOLEAN :
       /\ runs[r].status = "active" /\ runs[r].queued
       /\ runs' = [runs EXCEPT ![r].status = "ended"]
       /\ tasks' = {IF t.number = runs[r].task THEN [t EXCEPT !.closed = closed]
                    ELSE t : t \in tasks}
  /\ UNCHANGED <<client, calls, sequence, requests, published, collided, direct, crashes>>

-----------------------------------------------------------------------------
User ==
  \/ OpenDialog \/ \E b \in Body : EditForm(b)
  \/ submit \/ RetryStart \/ discardCreateAttempt \/ handleOpenChange

Server(c) ==
  \/ Replay(c) \/ validateTaskReferences(c) \/ InsertRequest(c)
  \/ createTaskInTransaction(c) \/ Publish(c) \/ StartTransaction(c) \/ Enqueue(c)

Next ==
  \/ User \/ Receive \/ Lose
  \/ \E c \in 1..MaxCalls : Server(c) \/ Unauthorized(c) \/ Abort(c)
  \/ CreateDirect \/ Crash \/ RunEnds

Spec == Init /\ [][Next]_vars

-----------------------------------------------------------------------------
(***************************************************************************)
(* Properties.                                                             *)
(***************************************************************************)

TypeOK ==
  /\ dialog \in [open : BOOLEAN, form : Body, key : Nat, body : Body,
                 submitLocked : BOOLEAN, startLocked : BOOLEAN,
                 ambiguous : BOOLEAN, created : Nat, startError : BOOLEAN,
                 waiting : 0..Len(calls), shows : 0..Len(runs)]
  /\ \A c \in DOMAIN calls : /\ calls[c].stage \in Stages
                             /\ calls[c].key \in 0..Len(outcome)
                             /\ calls[c].answer.status = "none" <=> calls[c].stage # "answered"
  /\ \A q \in DOMAIN requests : requests[q].key \in DOMAIN outcome /\ taken(requests[q].task)
  /\ \A r \in DOMAIN runs : taken(runs[r].task)
  /\ dialog.key # 0 <=> dialog.submitLocked \/ dialog.ambiguous

\* "Repeating the same create request after an ambiguous response returns one
\* task, not a duplicate" (TODO.md, API-001): whatever calls with one key were
\* sent, lost or overlapped, there is at most one task of that key, and every
\* answer of success names it and what the dialog asked for.
OneTaskPerKey ==
  /\ \A s, t \in tasks : s.key = t.key /\ s.key # DirectKey => s = t
  /\ \A c \in DOMAIN calls :
       calls[c].kind = "create" /\ calls[c].answer.status = "ok" =>
         \E t \in tasks : /\ t.number = calls[c].answer.id
                          /\ t.key = calls[c].key /\ t.body = calls[c].body

\* A task the dialog has not been told of stays within reach of its retry: the
\* dialog still holds the key, unless the API refused a call with it or the
\* user discarded it. (A refusal of the retry does not tell what became of the
\* first call, so "refused" is not "never created".)
UnknownTasksStayInReach ==
  \A t \in tasks : t.key # DirectKey /\ outcome[t.key] = "live" => dialog.key = t.key

\* Starting is retried after lost answers too, without an idempotency key: the
\* task still has at most one run in progress, and the run the dialog takes the
\* user to is one of the task it created.
RetriedStartsShareOneRun ==
  /\ \A t \in tasks : Cardinality(activeRuns(t.number)) <= 1
  /\ dialog.shows # 0 =>
       \E t \in tasks : /\ t.number = runs[dialog.shows].task
                        /\ t.key # DirectKey /\ outcome[t.key] = "created"

\* "Idempotent replays return before this point and never republish
\* TASK_CREATED" (tasks.service.ts:435): no task is announced twice, and none
\* before it exists.
CreationIsAnnouncedOnce ==
  /\ \A i, j \in DOMAIN published : published[i] = published[j] => i = j
  /\ \A i \in DOMAIN published : taken(published[i])

\* In a project whose sequence is not behind its tasks no creation fails on
\* the number of another, however creations, rollbacks and crashes mix.
NumbersNeverCollide ==
  ~collided /\ \A s, t \in tasks : s.number = t.number => s = t

\* Retrying "re-reads the (already incremented) sequence, so the second attempt
\* succeeds" (helpers.ts:36): a creation never gives up on a taken number.
KeyRetriesSucceed == ~collided

\* The dialog never locks itself up: a lock is held only while a call is under
\* way whose answer or loss releases it, so what is shut can be opened again by
\* a retry, a discard or the user.
LocksFollowCalls ==
  /\ dialog.submitLocked => dialog.waiting # 0 /\ calls[dialog.waiting].kind = "create"
  /\ dialog.startLocked => dialog.waiting # 0 /\ calls[dialog.waiting].kind = "run"
  /\ dialog.open /\ dialog.waiting = 0 /\ dialog.created # 0 => dialog.startError
=============================================================================
