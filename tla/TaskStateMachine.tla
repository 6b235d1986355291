-------------------------- MODULE TaskStateMachine --------------------------
(***************************************************************************)
(* The task state machine of packages/workflow: the table of legal task    *)
(* transitions and the operations of class StateMachine that read it.      *)
(* Every operation takes the table as its first argument, because the code *)
(* is generic in it; taskTransitions is the table the product uses.        *)
(*                                                                         *)
(* A table maps a state to the SEQUENCE of its successors: path() explores *)
(* them in that order, so the order decides which shortest route is taken. *)
(*                                                                         *)
(* Here and in the other modules, op_word is a faulty variant of op that   *)
(* no module uses: PROJECT.json names the property that refutes it.        *)
(***************************************************************************)
EXTENDS Naturals, Sequences, FiniteSets, SequencesExt

\* The rows of the table for a review and for a blocked task.
afterReview_unapproved ==
  <<"APPROVED", "PR_READY", "CHANGES_REQUESTED", "FAILED", "CANCELLED",
    "NEEDS_HUMAN_REVIEW">>
afterReview ==
  <<"APPROVED", "CHANGES_REQUESTED", "FAILED", "CANCELLED",
    "NEEDS_HUMAN_REVIEW">>
afterBlocked_forgotten == <<"CANCELLED">>
afterBlocked == <<"BACKLOG", "PLANNING", "QUEUED", "CANCELLED">>

taskTransitions ==
  [BACKLOG |-> <<"PLANNING", "QUEUED", "BLOCKED", "CANCELLED">>,
   PLANNING |-> <<"PLAN_READY", "FAILED", "BLOCKED", "CANCELLED",
                  "NEEDS_HUMAN_REVIEW">>,
   PLAN_READY |-> <<"QUEUED", "BACKLOG", "BLOCKED", "CANCELLED",
                    "NEEDS_HUMAN_REVIEW">>,
   QUEUED |-> <<"IMPLEMENTING", "BLOCKED", "CANCELLED", "FAILED">>,
   IMPLEMENTING |-> <<"IMPLEMENTATION_READY", "FAILED", "BLOCKED", "CANCELLED",
                      "NEEDS_HUMAN_REVIEW">>,
   IMPLEMENTATION_READY |-> <<"TESTING", "BLOCKED", "CANCELLED", "FAILED">>,
   TESTING |-> <<"TEST_FAILED", "REVIEWING", "FAILED", "CANCELLED">>,
   TEST_FAILED |-> <<"FIXING", "NEEDS_HUMAN_REVIEW", "BLOCKED", "CANCELLED",
                     "FAILED">>,
   REVIEWING |-> afterReview,
   CHANGES_REQUESTED |-> <<"FIXING", "NEEDS_HUMAN_REVIEW", "BLOCKED",
                           "CANCELLED">>,
   FIXING |-> <<"IMPLEMENTATION_READY", "TESTING", "FAILED", "CANCELLED",
                "NEEDS_HUMAN_REVIEW">>,
   APPROVED |-> <<"PR_READY", "COMPLETED", "CANCELLED">>,
   PR_READY |-> <<"PR_CREATED", "FAILED", "CANCELLED">>,
   PR_CREATED |-> <<"MERGED", "CHANGES_REQUESTED", "CANCELLED", "FAILED">>,
   MERGED |-> <<"COMPLETED">>,
   COMPLETED |-> <<>>,
   BLOCKED |-> afterBlocked,
   FAILED |-> <<"BACKLOG", "QUEUED", "PLANNING", "NEEDS_HUMAN_REVIEW",
                "CANCELLED">>,
   CANCELLED |-> <<>>,
   NEEDS_HUMAN_REVIEW |-> <<"FIXING", "APPROVED", "QUEUED", "BACKLOG",
                            "BLOCKED", "CANCELLED">>]

TaskStatus == DOMAIN taskTransitions

terminal == {"COMPLETED", "CANCELLED"}

\* Statuses in which "an agent or check is currently doing something".
ACTIVE_TASK_STATUSES ==
  {"PLANNING", "QUEUED", "IMPLEMENTING", "TESTING", "REVIEWING", "FIXING",
   "PR_READY"}

\* Statuses that need a person; the API lets exactly these be retried.
HUMAN_ATTENTION_STATUSES ==
  {"NEEDS_HUMAN_REVIEW", "CHANGES_REQUESTED", "TEST_FAILED", "BLOCKED",
   "FAILED"}

\* The Kanban columns, in board order, each with the statuses it shows.
BOARD_COLUMNS ==
  << [id |-> "backlog",           statuses |-> {"BACKLOG"}],
     [id |-> "planned",           statuses |-> {"PLANNING", "PLAN_READY"}],
     [id |-> "queued",            statuses |-> {"QUEUED"}],
     [id |-> "in-progress",       statuses |-> {"IMPLEMENTING",
                                                "IMPLEMENTATION_READY"}],
     [id |-> "testing",           statuses |-> {"TESTING", "TEST_FAILED"}],
     [id |-> "review",            statuses |-> {"REVIEWING",
                                                "NEEDS_HUMAN_REVIEW"}],
     [id |-> "changes-requested", statuses |-> {"CHANGES_REQUESTED", "FIXING"}],
     [id |-> "approved",          statuses |-> {"APPROVED", "PR_READY",
                                                "PR_CREATED", "MERGED"}],
     [id |-> "completed",         statuses |-> {"COMPLETED"}],
     [id |-> "blocked",           statuses |-> {"BLOCKED", "FAILED",
                                                "CANCELLED"}] >>

\* The first column that lists the status, "backlog" when none does.
columnForStatus_byFirst(status) ==
  LET hits == SelectSeq(BOARD_COLUMNS, LAMBDA c : status \notin c.statuses)
  IN  IF hits = <<>> THEN "backlog" ELSE hits[1].id
columnForStatus(status) ==
  LET hits == SelectSeq(BOARD_COLUMNS, LAMBDA c : status \in c.statuses)
  IN  IF hits = <<>> THEN "backlog" ELSE hits[1].id

-----------------------------------------------------------------------------
(***************************************************************************)
(* class StateMachine.                                                     *)
(***************************************************************************)
nextStates(table, from) == IF from \in DOMAIN table THEN table[from] ELSE <<>>

can(table, from, to) ==
  /\ from # to
  /\ \E i \in DOMAIN nextStates(table, from) : nextStates(table, from)[i] = to

deadEnds(table, terminals) ==
  {s \in DOMAIN table \ terminals : nextStates(table, s) = <<>>}

(***************************************************************************)
(* path(from, to): breadth-first search. A search state holds the queue of *)
(* trails, the states seen, and the answer (the empty trail until found:   *)
(* the code's null). The table has finitely many states and each enters    *)
(* the queue at most once, so one dequeue per state exhausts the queue.    *)
(***************************************************************************)
visit_depthFirst(trail, to, search, candidate) ==
  IF search.found # <<>> \/ candidate \in search.seen
  THEN search
  ELSE IF candidate = to
  THEN [search EXCEPT !.found = Append(trail, candidate)]
  ELSE [search EXCEPT !.seen  = @ \cup {candidate},
                      !.queue = << Append(trail, candidate) >> \o @]

visit(trail, to, search, candidate) ==
  IF search.found # <<>> \/ candidate \in search.seen
  THEN search
  ELSE IF candidate = to
  THEN [search EXCEPT !.found = Append(trail, candidate)]
  ELSE [search EXCEPT !.seen  = @ \cup {candidate},
                      !.queue = Append(@, Append(trail, candidate))]

dequeue_backwards(table, to, search) ==
  IF search.queue = <<>> \/ search.found # <<>>
  THEN search
  ELSE LET trail == Head(search.queue)
       IN  FoldLeft(LAMBDA s, c : visit(trail, to, s, c),
                    [search EXCEPT !.queue = Tail(@)],
                    Reverse(nextStates(table, Last(trail))))

dequeue(table, to, search) ==
  IF search.queue = <<>> \/ search.found # <<>>
  THEN search
  ELSE LET trail == Head(search.queue)
       IN  FoldLeft(LAMBDA s, c : visit(trail, to, s, c),
                    [search EXCEPT !.queue = Tail(@)],
                    nextStates(table, Last(trail)))

path(table, from, to) ==
  LET search[n \in Nat] ==
        IF n = 0
        THEN [queue |-> << <<from>> >>, seen |-> {from}, found |-> <<>>]
        ELSE dequeue(table, to, search[n - 1])
  IN  IF from = to THEN <<from>> ELSE search[Cardinality(DOMAIN table)].found
=============================================================================
