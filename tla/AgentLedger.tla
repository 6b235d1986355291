---------------------------- MODULE AgentLedger ----------------------------
(***************************************************************************)
(* What the agent executor promises the workflow and the budget of a task, *)
(* whatever happens between its statements: an agent run starts only while *)
(* the task is open, ends once, its caller learns how it ended, and the    *)
(* task is charged its cost once or, after a crash, never. AgentExecution  *)
(* implements it.                                                          *)
(***************************************************************************)
EXTENDS Naturals

CONSTANT Agent   \* agent runs of one task

VARIABLES
  closed,    \* the task is cancelled
  status,    \* agent run -> the status of its row
  cost,      \* agent run -> what its row says it cost
  due,       \* agent runs that have ended by an answer and are not charged yet
  total,     \* what the task was charged
  outcome    \* agent run -> what its caller was told
ledger == <<closed, status, cost, due, total, outcome>>

Final == {"SUCCEEDED", "FAILED", "BUDGET_EXCEEDED", "CANCELLED"}

Init ==
  /\ closed = FALSE /\ due = {} /\ total = 0
  /\ status = [a \in Agent |-> "NONE"] /\ cost = [a \in Agent |-> 0]
  /\ outcome = [a \in Agent |-> "NONE"]

\* The caller is told what the row says, once.
tell(a) ==
  /\ outcome[a] = "NONE" /\ status'[a] \in Final
  /\ outcome' = [outcome EXCEPT ![a] = status'[a]]

\* A run starts while the task is open, or is turned away.
Start(a) ==
  /\ status[a] = "NONE" /\ ~closed
  /\ status' = [status EXCEPT ![a] = "RUNNING"]
  /\ UNCHANGED <<closed, cost, due, total, outcome>>

TurnAway(a) ==
  /\ status[a] = "NONE"
  /\ status'[a] \in {"CANCELLED", "BUDGET_EXCEEDED"}
  /\ status' = [status EXCEPT ![a] = status'[a]]
  /\ tell(a)
  /\ UNCHANGED <<closed, cost, due, total>>

\* Its own answer ends it, while the task is open.
Settle(a) ==
  /\ status[a] = "RUNNING" /\ ~closed
  /\ status'[a] \in Final /\ status' = [status EXCEPT ![a] = status'[a]]
  /\ cost'[a] \in Nat /\ cost' = [cost EXCEPT ![a] = cost'[a]]
  /\ due' = due \cup {a}
  /\ UNCHANGED <<closed, total, outcome>>

\* Runs are stopped, without cost, with the task or without it.
Stop(S) ==
  /\ \A a \in S : status[a] = "RUNNING"
  /\ status' = [a \in Agent |-> IF a \in S THEN "CANCELLED" ELSE status[a]]
  /\ closed' \in {closed, TRUE}
  /\ UNCHANGED <<cost, due, total, outcome>>

\* The cost on the row, no more and no less, and only once.
Charge(a) ==
  /\ a \in due /\ due' = due \ {a}
  /\ total' = total + cost[a]
  /\ UNCHANGED <<closed, status, cost>> /\ tell(a)

\* Nothing to charge, or the process died.
Forgo(a) ==
  /\ a \in due /\ due' = due \ {a}
  /\ UNCHANGED <<closed, status, cost, total>>
  /\ UNCHANGED outcome \/ tell(a)

\* Somebody else has ended the run.
Tell(a) == tell(a) /\ a \notin due /\ UNCHANGED <<closed, status, cost, due, total>>

Next ==
  \/ \E a \in Agent : \/ Start(a) \/ TurnAway(a) \/ Settle(a) \/ Charge(a)
                      \/ Forgo(a) \/ Tell(a)
  \/ \E S \in SUBSET Agent : Stop(S)

Spec == Init /\ [][Next]_ledger
=============================================================================
