------------------------ MODULE MCTaskStateMachine ------------------------
(***************************************************************************)
(* Checks the operators of TaskStateMachine on two families of inputs:     *)
(* small tables (all successor lists over three states, lists of up to two *)
(* over four), against a reference definition of "first shortest route";   *)
(* and the product's own table, against what the rest of the code relies   *)
(* on. The table is chosen first, then one query is answered.              *)
(***************************************************************************)
EXTENDS TaskActions, FiniteSets, TLC

VARIABLES table, query, answer
vars == <<table, query, answer>>

NoQuery == <<>>

\* Every ordered successor list over three states, in every combination; and
\* every list of at most two others over four states, the smallest tables in
\* which one state is reached by two routes that are both shortest.
Lists(S, n) == {l \in BoundedSeq(S, n) : IsInjective(l)}
SmallStates == {"a", "b", "c"}
SmallTables == [SmallStates -> Lists(SmallStates, 3)]
ForkStates == SmallStates \cup {"d"}
ForkTables ==
  {t \in [ForkStates -> Lists(ForkStates, 2)] :
     \A s \in ForkStates : s \notin ToSet(t[s])}

AllTables == SmallTables \cup ForkTables \cup {taskTransitions}
product == table = taskTransitions

Init == /\ table \in AllTables
        /\ query = NoQuery
        /\ answer = <<>>

\* Ask for one route. The answer is a function of the table and the query.
Ask(from, to) ==
  /\ query = NoQuery
  /\ query' = <<from, to>>
  /\ answer' = path(table, from, to)
  /\ UNCHANGED table

Next == \E from, to \in DOMAIN table : Ask(from, to)

Spec == Init /\ [][Next]_vars

-----------------------------------------------------------------------------
(***************************************************************************)
(* Reference definitions.                                                  *)
(***************************************************************************)
IsWalk(w) == \A i \in 1..(Len(w) - 1) : can(table, w[i], w[i + 1])

Reach1(S) == S \cup UNION {ToSet(nextStates(table, s)) : s \in S}

\* Layer[n]: the states within n moves of `from`.
Layer(from, n) ==
  LET L[k \in Nat] == IF k = 0 THEN {from} ELSE Reach1(L[k - 1]) IN L[n]

Distance(from, to) ==
  CHOOSE n \in 0..Cardinality(DOMAIN table) :
    /\ to \in Layer(from, n)
    /\ n = 0 \/ to \notin Layer(from, n - 1)

Reachable(from, to) == to \in Layer(from, Cardinality(DOMAIN table))

Position(from, to) ==
  CHOOSE i \in DOMAIN nextStates(table, from) : nextStates(table, from)[i] = to

\* u comes before w in the order in which successors are listed.
Before(u, w) ==
  \E i \in 2..Len(w) :
    /\ SubSeq(u, 1, i - 1) = SubSeq(w, 1, i - 1)
    /\ Position(u[i - 1], u[i]) < Position(w[i - 1], w[i])

Walks(from, to, len) ==
  {w \in [1..len -> DOMAIN table] : w[1] = from /\ w[len] = to /\ IsWalk(w)}

(***************************************************************************)
(* path() returns null exactly when the target is unreachable; otherwise a *)
(* legal route, as short as any, from the first state to the last.         *)
(***************************************************************************)
PathIsShortestRoute ==
  query # NoQuery =>
    LET from == query[1]
        to   == query[2]
    IN  IF Reachable(from, to)
        THEN /\ answer # <<>>
             /\ Head(answer) = from /\ Last(answer) = to
             /\ IsWalk(answer)
             /\ Len(answer) = Distance(from, to) + 1
        ELSE answer = <<>>

(***************************************************************************)
(* Among the shortest routes path() returns the first one in successor     *)
(* order: this decides which statuses a task is dragged through.           *)
(***************************************************************************)
PathIsFirstInOrder ==
  (~product /\ query # NoQuery /\ answer # <<>>) =>
    \A w \in Walks(query[1], query[2], Len(answer)) :
      w # answer => Before(answer, w)

-----------------------------------------------------------------------------
(***************************************************************************)
(* What the services rely on in the product's table.                       *)
(***************************************************************************)

(***************************************************************************)
(* finishWorkflow parks a run with NEEDS_HUMAN_REVIEW and fails one with   *)
(* FAILED; both walk path() inside the transaction that closes the run and *)
(* throw when there is none. From every status a task can have while a     *)
(* workflow is active, short of the delivered ones, the route must exist.  *)
(***************************************************************************)
EngineCanAlwaysPark ==
  /\ product /\ query # NoQuery
  /\ query[1] \notin terminal \cup {"MERGED"}
  /\ query[2] \in {"NEEDS_HUMAN_REVIEW", "FAILED", "CANCELLED"}
  => answer # <<>>

(***************************************************************************)
(* No route delivers a task around the approval: from every status before  *)
(* delivery, the route path() takes to a delivered status passes APPROVED. *)
(***************************************************************************)
Delivered == {"PR_READY", "PR_CREATED", "MERGED", "COMPLETED"}
DeliveryPassesApproval ==
  /\ product /\ query # NoQuery
  /\ query[1] \notin Delivered
  /\ query[2] \in Delivered
  /\ answer # <<>>
  => "APPROVED" \in ToSet(answer)

(***************************************************************************)
(* The board shows every status in exactly one column and the machine has  *)
(* no non-terminal dead end; a terminal status is never left.              *)
(***************************************************************************)
BoardAndTableAgree ==
  product =>
    /\ deadEnds(table, terminal) = {}
    /\ \A s \in DOMAIN table :
         /\ Cardinality({i \in DOMAIN BOARD_COLUMNS :
                           s \in BOARD_COLUMNS[i].statuses}) = 1
         /\ \E i \in DOMAIN BOARD_COLUMNS :
              /\ BOARD_COLUMNS[i].id = columnForStatus(s)
              /\ s \in BOARD_COLUMNS[i].statuses
    /\ (query # NoQuery /\ query[1] \in terminal /\ query[1] # query[2])
         => answer = <<>>

(***************************************************************************)
(* "Buttons reflect what the state machine actually allows, so the UI      *)
(* can't offer a move the API will reject" (task-actions.tsx:34), except   *)
(* that a MERGED task offers a cancellation its table does not have.       *)
(***************************************************************************)
OfferedActionsAreAccepted ==
  product => \A s \in TaskStatus :
               offered(s) \subseteq accepted(s) \cup {a \in {"cancel"} : s = "MERGED"}
=============================================================================
