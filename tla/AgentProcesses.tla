--------------------------- MODULE AgentProcesses ---------------------------
(***************************************************************************)
(* One agent run as the SDK carries it out on the host: the provider       *)
(* (packages/agent-sdk), the host runtime it executes in and the command   *)
(* runner that owns the child process. Cancellation reaches the run twice, *)
(* through the provider's mark and controller and through the session of   *)
(* the runtime; the timeout, the SIGKILL after it, the exit of the child   *)
(* and a shutdown of the worker race with it. A step is what one turn of   *)
(* the event loop does; time passes in Tick.                               *)
(*                                                                         *)
(* call      where startRun is: "idle", "files", "running", "decoding",    *)
(*           "asleep" (mock), "done"                                       *)
(* answer    what it returned or threw                                     *)
(* marked    runId \in provider.cancelled                                  *)
(* session   of the runtime: "none", "open", "aborted"                     *)
(* host      state of the runtime                                          *)
(* child     the process: "none", "alive", "deaf" (ignores SIGTERM),       *)
(*           "gone"; the timer and abort flags of its command              *)
(* now       how long it has run                                           *)
(* asked     when cancelRun was first called: "no", "before" the command   *)
(*           ran, "during", "after"                                        *)
(***************************************************************************)
EXTENDS Integers

CONSTANTS
  Provider,   \* kinds of provider: "cli", "mock"
  Timeout,    \* timeoutMs of the run
  KillDelay,  \* from SIGTERM to SIGKILL
  MaxWait     \* bound on time

VARIABLES kind, call, answer, marked, session, host, child, timedOut, aborted,
          now, asked

apVars == <<kind, call, answer, marked, session, host, child, timedOut, aborted,
            now, asked>>

Init == /\ kind \in Provider
        /\ call = "idle" /\ answer = "none" /\ marked = FALSE
        /\ session = "none" /\ host = "running" /\ child = "none"
        /\ timedOut = FALSE /\ aborted = FALSE /\ now = 0
        /\ asked = "no"

running == child \in {"alive", "deaf"}

return(r) == call' = "done" /\ answer' = r
-----------------------------------------------------------------------------
(* The runtime around the run. *)

\* The executor prepares a runtime for providers that start processes.
prepare ==
  /\ call = "idle" /\ session = "none" /\ kind = "cli" /\ host = "running"
  /\ session' = "open"
  /\ UNCHANGED <<kind, call, answer, marked, host, child, timedOut, aborted,
                 now, asked>>

\* startRun: a directory for the transport files first.
startRun ==
  /\ call = "idle"
  /\ kind = "cli" => session # "none"
  /\ call' = IF kind = "mock" THEN "asleep" ELSE "files"
  /\ UNCHANGED <<kind, answer, marked, session, host, child, timedOut, aborted,
                 now, asked>>

\* An abort of the controller sends SIGTERM, which a deaf child ignores.
onAbort == aborted' = (aborted \/ running)

\* provider.cancelRun and runtime.cancel, in one turn. They may come at any
\* time; one call stands for all, they repeat each other.
cancelRun ==
  /\ asked = "no"
  /\ asked' = IF running THEN "during"
              ELSE IF call \in {"idle", "files", "asleep"} THEN "before"
              ELSE "after"
  /\ marked' = TRUE
  /\ session' = IF session = "open" THEN "aborted" ELSE session
  /\ onAbort
  /\ UNCHANGED <<kind, call, answer, host, child, timedOut, now>>

\* release aborts and forgets the session, also one whose run is over.
release ==
  /\ session # "none" /\ call = "done"
  /\ session' = "none" /\ onAbort
  /\ UNCHANGED <<kind, call, answer, marked, host, child, timedOut, now,
                 asked>>

Shutdown ==
  /\ host = "running" /\ host' = "shutting-down"
  /\ UNCHANGED <<kind, call, answer, marked, session, child, timedOut, aborted,
                 now, asked>>

Closed_unaborted ==
  /\ host = "shutting-down" /\ host' = "closed"
  /\ session' = "none"
  /\ UNCHANGED <<kind, call, answer, marked, child, timedOut, aborted, 
                 now, asked>>

\* A turn later every session is aborted and forgotten.
Closed ==
  /\ host = "shutting-down" /\ host' = "closed"
  /\ session' = "none"
  /\ IF session = "none" THEN UNCHANGED aborted ELSE onAbort
  /\ UNCHANGED <<kind, call, answer, marked, child, timedOut, now, asked>>
-----------------------------------------------------------------------------
(* invoke: the provider's mark, the runtime's checks, the child. *)

MarkedBefore ==
  /\ call = "files" /\ marked
  /\ marked' = FALSE /\ return("CANCELLED")
  /\ UNCHANGED <<kind, session, host, child, timedOut, aborted, now, asked>>

\* The runtime is closing, or the session is gone.
Refused ==
  /\ call = "files" /\ ~marked
  /\ host # "running" \/ session = "none"
  /\ return("FAILED")
  /\ UNCHANGED <<kind, marked, session, host, child, timedOut, aborted, 
                 now, asked>>

\* A session that is aborted already kills the child it has just spawned.
Spawn ==
  /\ call = "files" /\ ~marked /\ host = "running" /\ session # "none"
  /\ child' \in {"alive", "deaf"}
  /\ call' = "running" /\ now' = 0
  /\ aborted' = (session = "aborted")
  /\ UNCHANGED <<kind, answer, marked, session, host, timedOut, asked>>

\* What the catch clause of invoke makes of a rejected command.
caught_leaky(error) ==
  /\ marked' = IF error = "AbortError" THEN marked ELSE FALSE
  /\ return(CASE marked \/ error = "AbortError"            -> "CANCELLED"
              [] ~marked /\ error = "CommandTimeoutError" -> "TIMED_OUT"
              [] OTHER                                    -> "FAILED")
caught_errorOnly(error) ==
  /\ marked' = FALSE
  /\ return(CASE error = "AbortError"          -> "CANCELLED"
              [] error = "CommandTimeoutError" -> "TIMED_OUT"
              [] OTHER                         -> "FAILED")

\* Taking the mark comes first: it is consumed whatever the error is.
caught(error) ==
  /\ marked' = FALSE
  /\ return(CASE marked \/ error = "AbortError"            -> "CANCELLED"
              [] ~marked /\ error = "CommandTimeoutError" -> "TIMED_OUT"
              [] OTHER                                    -> "FAILED")

\* The child could not be started or its pipe broke.
SpawnError ==
  /\ running /\ child' = "gone"
  /\ caught("Error")
  /\ UNCHANGED <<kind, session, host, timedOut, aborted, now, asked>>

\* finish: the timeout has precedence over the abort, both over the exit code.
Exit(code) ==
  /\ running /\ child' = "gone"
  /\ CASE timedOut -> caught("CommandTimeoutError")
       [] ~timedOut /\ aborted -> caught("AbortError")
       [] OTHER -> /\ UNCHANGED marked
                   /\ IF code = 0 THEN call' = "decoding" /\ UNCHANGED answer
                      ELSE return("FAILED")
  /\ UNCHANGED <<kind, session, host, timedOut, aborted, now, asked>>

TimesOut ==
  /\ running /\ ~timedOut /\ now = Timeout
  /\ timedOut' = TRUE
  /\ UNCHANGED <<kind, call, answer, marked, session, host, child, aborted,
                 now, asked>>

\* The timeout's second signal no child survives.
killDue_never == FALSE
killDue == timedOut /\ now = Timeout + KillDelay

Killed ==
  /\ running /\ killDue /\ child' = "gone"
  /\ caught("CommandTimeoutError")
  /\ UNCHANGED <<kind, session, host, timedOut, aborted, now, asked>>

\* Output that cannot be read or does not fit the role is thrown; a run that
\* spent more than its budget returns no output.
Decoded ==
  /\ call = "decoding"
  /\ \E r \in {"SUCCEEDED", "BUDGET_EXCEEDED", "INVALID"} : return(r)
  /\ UNCHANGED <<kind, marked, session, host, child, timedOut, aborted, 
                 now, asked>>

\* The mock provider: a mark found after its sleep cancels.
MockWakes ==
  /\ call = "asleep"
  /\ IF marked THEN marked' = FALSE /\ return("CANCELLED")
     ELSE /\ \/ return("FAILED")
             \/ call' = "decoding" /\ UNCHANGED answer
          /\ UNCHANGED marked
  /\ UNCHANGED <<kind, session, host, child, timedOut, aborted, now, asked>>

Tick ==
  /\ running /\ now < MaxWait
  /\ now = Timeout => timedOut
  /\ ~killDue
  /\ now' = now + 1
  /\ UNCHANGED <<kind, call, answer, marked, session, host, child, timedOut,
                 aborted, asked>>

Next == \/ prepare \/ startRun \/ cancelRun \/ release \/ Shutdown \/ Closed
        \/ MarkedBefore \/ Refused \/ Spawn \/ SpawnError \/ Exit(0) \/ Exit(1)
        \/ TimesOut \/ Killed \/ Decoded \/ MockWakes \/ Tick

\* The event loop goes on and timers fire; a child need not end by itself.
Turns == MarkedBefore \/ Refused \/ Spawn \/ TimesOut \/ Killed \/ Decoded
         \/ MockWakes \/ Tick

Spec == Init /\ [][Next]_apVars /\ WF_apVars(Turns)
-----------------------------------------------------------------------------
\* Types of the call, the child and the clock.
TypeOK ==
  /\ kind \in {"cli", "mock"}
  /\ call \in {"idle", "files", "running", "decoding", "asleep", "done"}
  /\ answer \in {"none", "SUCCEEDED", "FAILED", "CANCELLED", "TIMED_OUT",
                 "BUDGET_EXCEEDED", "INVALID"}
  /\ session \in {"none", "open", "aborted"}
  /\ host \in {"running", "shutting-down", "closed"}
  /\ child \in {"none", "alive", "deaf", "gone"}
  /\ marked \in BOOLEAN /\ timedOut \in BOOLEAN /\ aborted \in BOOLEAN
  /\ now \in 0..MaxWait /\ asked \in {"no", "before", "during", "after"}
  /\ running <=> call = "running"

\* A run cancelled before or while its command runs ends as CANCELLED, be it
\* that the command fails, times out, is killed or succeeds at that moment, or
\* that the worker shuts down.
CancelledRunsEndCancelled ==
  call = "done" /\ asked \in {"before", "during"}
    => answer = "CANCELLED"

\* A mark outlives its run only if it came when the command was over: nothing
\* is left that would cancel a later call with the same id.
MarksAreConsumed == call = "done" /\ marked => asked = "after"

\* No command survives its timeout by more than the delay of SIGKILL, deaf to
\* SIGTERM or not, cancelled or not.
CommandsAreBounded == running => now <= Timeout + KillDelay

\* A runtime that closed has told every child to end.
NoChildAfterShutdown == host = "closed" /\ running => aborted

\* A started run ends, whatever its process does.
RunsEnd == call \in {"files", "running", "decoding", "asleep"} ~> call = "done"
=============================================================================
