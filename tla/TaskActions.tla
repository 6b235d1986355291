---------------------------- MODULE TaskActions ----------------------------
(***************************************************************************)
(* The action bar of the task page and the guards of the API it calls:     *)
(* which buttons a status offers, and which of them the API accepts. Both  *)
(* are written by hand, beside the one table they are meant to follow.     *)
(* Active runs, attempts and findings are other reasons to refuse.         *)
(***************************************************************************)
EXTENDS TaskStateMachine

Action == {"plan", "run", "review", "tests", "approve", "pr", "retry", "cancel"}

\* task.allowedTransitions.
allowed(s) == ToSet(nextStates(taskTransitions, s))

isTerminal_never(s) == FALSE
isTerminal(s) == s \in {"COMPLETED", "CANCELLED"}

offered(s) ==
  {"review", "tests"}
    \cup {a \in {"plan"}    : "PLANNING" \in allowed(s) \/ s = "PLANNING"}
    \cup {a \in {"run"}     : allowed(s) \cap {"QUEUED", "IMPLEMENTING"} # {} \/ s = "PLAN_READY"}
    \cup {a \in {"approve"} : "APPROVED" \in allowed(s)}
    \cup {a \in {"pr"}      : s = "APPROVED"}
    \cup {a \in {"retry"}   : s \in {"FAILED", "NEEDS_HUMAN_REVIEW", "TEST_FAILED"}}
    \cup {a \in {"cancel"}  : ~isTerminal(s)}

\* startWorkflow; retry, which walks the task to QUEUED; approve; and
\* cancelWithWorkflows, which repeats a cancellation.
starts(s) == s \notin terminal
retries(s) == /\ s \in HUMAN_ATTENTION_STATUSES
              /\ path(taskTransitions, s, "QUEUED") # <<>>
cancels(s) == s = "CANCELLED" \/ can(taskTransitions, s, "CANCELLED")

accepted(s) ==
  {"review", "tests"}
    \cup {a \in {"plan", "run", "pr"} : starts(s)}
    \cup {a \in {"approve"} : can(taskTransitions, s, "APPROVED")}
    \cup {a \in {"retry"}   : retries(s)}
    \cup {a \in {"cancel"}  : cancels(s)}
=============================================================================
