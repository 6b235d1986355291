-------------------------- MODULE MCWorkflowEngine --------------------------
(***************************************************************************)
(* Small instances of WorkflowEngine: one run whose queue duplicates jobs, *)
(* whose processes die and whose statements fail; two runs of a task,      *)
(* started by force, with a job the queue redelivers; and two runs one of  *)
(* which a retry may start, with a process that dies. The constants of the *)
(* module are those of the second.                                         *)
(***************************************************************************)
EXTENDS WorkflowEngine, SmallWorkflow, TLC

CONSTANT FirstRun   \* what may be started of Run when there is one run
VARIABLE part

One == INSTANCE WorkflowEngine
         WITH Moves <- MayBlock, Decisions <- Guarded,
              ForceOption <- {FALSE}, HumanTargets <- {"BACKLOG"},
              MaxJobs <- 2, MaxCrashes <- 1, MaxStalls <- 1, MaxFaults <- 1
Again == INSTANCE WorkflowEngine WITH MaxStalls <- 0, MaxCrashes <- 1

MCvars == <<part, vars>>
MCInit == part \in {"one", "two", "again"} /\ Init
MCNext == /\ UNCHANGED part
          /\ \/ /\ part = "one" /\ One!Next
                /\ \A r \in Run \ FirstRun : runs'[r].status = "NONE"
                /\ UNCHANGED retry
             \/ part = "two" /\ Next /\ UNCHANGED retry
             \/ part = "again" /\ Again!Next
MCSpec == MCInit /\ [][MCNext]_MCvars

Symmetry == Permutations(Worker) \cup Permutations(Run)
=============================================================================
