---------------------------- MODULE PullRequests ----------------------------
(***************************************************************************)
(* How finished work reaches GitHub and what comes back: the PREPARE_PR    *)
(* step (openPullRequest of the worker's git manager, over the GitHub      *)
(* client), the delivery gate of COMPLETE, and the webhooks by which       *)
(* GitHub reports pull requests and pushes. Runs overlap and are repeated, *)
(* answers get lost, webhooks are lost, repeated and reordered, and their  *)
(* handlers fail and die.                                                  *)
(*                                                                         *)
(* One task and its repository, which is LOCAL or on GITHUB; one that was  *)
(* LOCAL once may hold a placeholder of the task. (A task that has a pull  *)
(* request row cannot be moved to another repository.)                     *)
(*                                                                         *)
(* home        provider of the repository                                  *)
(* commits     commits of the task's branch; head: how many GitHub has     *)
(* hist[n]     the states pull request n went through on GitHub            *)
(* rows        the pull_requests rows: number (0: null), linked to the     *)
(*             task or not, local, status                                  *)
(* stored[n]   which state of hist[n] was last written to a row, and       *)
(*             whether an older one ever followed a newer one              *)
(* pushed      the flag of the git_branches row                            *)
(* delivery[w] a run in PREPARE_PR or COMPLETE, with what it has read      *)
(* done        runs COMPLETE let through, with the gate's evidence         *)
(* event       webhook deliveries: what they report and the webhook_events *)
(*             row; `applied` counts its transactions, `stale` once taken  *)
(*             for abandoned                                               *)
(* handler[h]  an API request that handles one of them                     *)
(***************************************************************************)
EXTENDS Integers, Sequences, FiniteSets

CONSTANTS
  Deliverer,     \* workers
  Handler,       \* concurrent webhook requests
  MaxDeliveries, \* runs of the task
  MaxAttempts,   \* attempts of PREPARE_PR per run
  MaxChanges,    \* changes of a pull request on GitHub
  MaxEvents,     \* webhook deliveries followed
  MaxReceipts    \* arrivals of any of them

VARIABLES
  home, commits, head, hist, rows, stored, pushed, delivery, deliveries,
  done, event, handler, receipts

prVars == <<home, commits, head, hist, rows, stored, pushed, delivery,
            deliveries, done, event, handler, receipts>>

remote == <<head, hist>>
table == <<rows, stored>>
worker == <<delivery, deliveries, commits, done>>
intake == <<handler, receipts>>

Remote == [open : BOOLEAN, merged : BOOLEAN, draft : BOOLEAN]
Opened == [open |-> TRUE, merged |-> FALSE, draft |-> FALSE]
NoRun == [pc |-> "idle", commit |-> 0, tries |-> 0,
            own |-> FALSE, number |-> 0, ver |-> 0, byNumber |-> 0, byTask |-> 0]
Free == [pc |-> "idle", ev |-> 0, seen |-> "none"]

linkedRow(n, local, status) ==
  [number |-> n, linked |-> TRUE, local |-> local, status |-> status]

PrInit ==
  /\ home \in {"LOCAL", "GITHUB"}
  /\ rows \in {<<>>, <<linkedRow(0, TRUE, "OPEN")>>}
  /\ commits = 0 /\ head = 0 /\ hist = <<>> /\ stored = <<>> /\ pushed = FALSE
  /\ delivery = [w \in Deliverer |-> NoRun] /\ deliveries = 0 /\ done = {}
  /\ event = <<>> /\ handler = [h \in Handler |-> Free] /\ receipts = 0

\* Merged before closed before draft, in the worker as in the webhook.
statusOf(pull) ==
  IF pull.merged THEN "MERGED" ELSE IF ~pull.open THEN "CLOSED"
  ELSE IF pull.draft THEN "DRAFT" ELSE "OPEN"

now(n) == hist[n][Len(hist[n])]
openPulls == {n \in DOMAIN hist : now(n).open}
firstOf(S) == IF S = {} THEN 0 ELSE CHOOSE i \in S : \A j \in S : i <= j
rowOf(n) == firstOf({i \in DOMAIN rows : rows[i].number = n})
report(k, n, v) ==
  event' = IF Len(event) = MaxEvents THEN event
           ELSE Append(event, [kind |-> k, number |-> n, ver |-> v,
                               status |-> "none", applied |-> 0,
                               stale |-> FALSE])
-----------------------------------------------------------------------------
(* GitHub, with one branch of interest. *)

\* Somebody merges, closes or reopens the pull request or changes its draft
\* state; GitHub has one open pull request per branch, and merged is final.
Change(n) ==
  /\ Len(hist[n]) <= MaxChanges
  /\ ~now(n).merged
  /\ \E pull \in Remote :
       /\ pull # now(n)
       /\ pull.merged => ~pull.open
       /\ pull.open => openPulls \subseteq {n}
       /\ hist' = [hist EXCEPT ![n] = Append(@, pull)]
       /\ report("pull_request", n, Len(hist[n]) + 1)
  /\ UNCHANGED <<home, table, pushed, head, worker, intake>>
-----------------------------------------------------------------------------
(* Runs of the task. *)

at(w, pc) == delivery[w].pc = pc
goto(w, pc) == delivery' = [delivery EXCEPT ![w].pc = pc]

\* A run commits approved work (or none) and comes to PREPARE_PR. The commit
\* is on the branch of the task, which overlapping runs share.
Approved(w) ==
  /\ at(w, "idle") /\ deliveries < MaxDeliveries
  /\ deliveries' = deliveries + 1
  /\ \E more \in {0, 1} :
       /\ commits' = commits + more
       /\ delivery' = [delivery EXCEPT
            ![w] = [NoRun EXCEPT !.pc = "prepare",
                                   !.commit = commits + more]]
  /\ UNCHANGED <<home, remote, table, pushed, done, event, intake>>

\* An error of the step: it is retried, and at last skipped, as PREPARE_PR is
\* optional.
failed(w) ==
  delivery' = [delivery EXCEPT
    ![w].tries = @ + 1,
    ![w].pc = IF delivery[w].tries + 1 < MaxAttempts THEN "prepare"
              ELSE "complete"]

\* A LOCAL repository gets a placeholder row, once per task.
openPlaceholder(w) ==
  /\ at(w, "prepare") /\ home = "LOCAL"
  /\ IF \E i \in DOMAIN rows : rows[i].linked /\ rows[i].local
     THEN goto(w, "complete") ELSE goto(w, "placeholder")
  /\ UNCHANGED <<home, commits, remote, table, pushed, deliveries, done,
                 event, intake>>

createPlaceholder(w) ==
  /\ at(w, "placeholder") /\ goto(w, "complete")
  /\ rows' = Append(rows, linkedRow(0, TRUE, "OPEN"))
  /\ UNCHANGED <<home, commits, remote, stored, pushed, deliveries, done,
                 event, intake>>

closePlaceholders_never(w) ==
  /\ at(w, "prepare") /\ home = "GITHUB" /\ goto(w, "push")
  /\ UNCHANGED <<home, commits, remote, pushed, deliveries, done,
                 event, intake, table>>

\* Before anything goes to GitHub the task's open placeholders are closed.
closePlaceholders(w) ==
  /\ at(w, "prepare") /\ home = "GITHUB" /\ goto(w, "push")
  /\ rows' = [i \in DOMAIN rows |->
                IF rows[i].linked /\ rows[i].local
                THEN [rows[i] EXCEPT !.status = "CLOSED"] ELSE rows[i]]
  /\ UNCHANGED <<home, commits, remote, stored, pushed, deliveries, done,
                 event, intake>>

\* No token, a refused push, or an answer that never came: the branch may
\* have arrived all the same.
PushFails(w) ==
  /\ at(w, "push") /\ failed(w)
  /\ head' \in {head, commits}
  /\ UNCHANGED <<home, commits, hist, table, pushed, deliveries,
                 done, event, intake>>

push_unchecked(w) ==
  /\ at(w, "push") /\ goto(w, "mark")
  /\ head' \in {head, commits} /\ UNCHANGED event
  /\ UNCHANGED <<home, commits, hist, table, pushed, deliveries,
                 done, intake>>

\* The branch as it is by now goes to GitHub, which reports the push.
push(w) ==
  /\ at(w, "push") /\ goto(w, "mark")
  /\ head' = commits
  /\ IF head' # head THEN report("push", 0, 0) ELSE UNCHANGED event
  /\ UNCHANGED <<home, commits, hist, table, pushed, deliveries,
                 done, intake>>

markPushed(w) ==
  /\ at(w, "mark") /\ goto(w, "find")
  /\ pushed' = TRUE
  /\ UNCHANGED <<home, commits, remote, table, deliveries, done,
                 event, intake>>

\* The client: an open pull request of the branch is taken, in the state it
\* is in, else one is created; 422 means somebody was faster, then it is
\* looked for again. A request may be carried out although its answer is lost.
found(w, n) ==
  delivery' = [delivery EXCEPT ![w].pc = "lookup", ![w].number = n,
                               ![w].ver = Len(hist[n])]

createOrFindPullRequest(w) ==
  /\ at(w, "find")
  /\ IF openPulls = {} THEN goto(w, "create")
     ELSE found(w, firstOf(openPulls))
  /\ UNCHANGED <<home, commits, remote, table, pushed, deliveries,
                 done, event, intake>>

createPull(w) ==
  /\ at(w, "create")
  /\ \/ /\ openPulls = {}
        /\ hist' = Append(hist, <<Opened>>)
        /\ stored' = Append(stored, [ver |-> 0, ooo |-> FALSE])
        /\ report("pull_request", Len(hist'), 1)
        /\ \/ delivery' = [delivery EXCEPT ![w].pc = "lookup",
                                           ![w].number = Len(hist'),
                                           ![w].ver = 1]
           \/ failed(w)
     \/ openPulls # {} /\ goto(w, "refind") /\ UNCHANGED <<hist, stored, event>>
  /\ UNCHANGED <<home, commits, head, rows, pushed, deliveries,
                 done, intake>>

refind(w) ==
  /\ at(w, "refind")
  /\ IF openPulls = {} THEN failed(w) ELSE found(w, firstOf(openPulls))
  /\ UNCHANGED <<home, commits, remote, table, pushed, deliveries,
                 done, event, intake>>

RequestFails(w) ==
  /\ delivery[w].pc \in {"find", "create", "refind"} /\ failed(w)
  /\ UNCHANGED <<home, commits, remote, table, pushed, deliveries,
                 done, event, intake>>

\* The row of the number is taken; without one, any row of the task.
lookup(w) ==
  /\ at(w, "lookup")
  /\ delivery' = [delivery EXCEPT
       ![w].pc = "record", ![w].byNumber = rowOf(delivery[w].number),
       ![w].byTask = IF rowOf(delivery[w].number) # 0 THEN 0
                     ELSE firstOf({i \in DOMAIN rows : rows[i].linked})]
  /\ UNCHANGED <<home, commits, remote, table, pushed, deliveries,
                 done, event, intake>>

written_keepsLocal(row, n, ver) ==
  [row EXCEPT !.number = n, !.status = statusOf(hist[n][ver])]

\* Writing state `ver` of the request into a row.
written(row, n, ver) ==
  [row EXCEPT !.number = n, !.local = FALSE, !.status = statusOf(hist[n][ver])]
stores(n, ver) ==
  stored' = [stored EXCEPT ![n] = [ver |-> ver, ooo |-> stored[n].ooo \/ ver < stored[n].ver]]

\* The row is written. Numbers are unique, so a webhook that was faster makes
\* the write fail.
record(w) ==
  LET d == delivery[w]
      i == IF d.byNumber # 0 THEN d.byNumber ELSE d.byTask
      new == IF i = 0
             THEN linkedRow(d.number, FALSE, statusOf(hist[d.number][d.ver]))
             ELSE [written(rows[i], d.number, d.ver) EXCEPT !.linked = TRUE]
      clash == rowOf(d.number) \notin {0, i}
  IN /\ at(w, "record")
     /\ IF clash THEN failed(w) /\ UNCHANGED table
        ELSE /\ delivery' = [delivery EXCEPT ![w].pc = "complete",
                                             ![w].own = TRUE]
             /\ rows' = IF i = 0 THEN Append(rows, new)
                        ELSE [rows EXCEPT ![i] = new]
             /\ stores(d.number, d.ver)
     /\ UNCHANGED <<home, commits, remote, pushed, deliveries,
                    done, event, intake>>

githubDeliveryComplete_anyRow(w) ==
  home = "GITHUB" => (\E i \in DOMAIN rows : rows[i].linked)

\* The delivery gate reads rows and the branch's flag.
githubDeliveryComplete(w) ==
  home = "GITHUB" =>
    /\ \E i \in DOMAIN rows :
         rows[i].linked /\ ~rows[i].local /\ rows[i].number # 0
    /\ pushed

\* A run that does not pass COMPLETE fails; either way it ends.
complete(w) ==
  /\ at(w, "complete")
  /\ delivery' = [delivery EXCEPT ![w] = NoRun]
  /\ done' = IF githubDeliveryComplete(w)
             THEN done \cup {[own |-> delivery[w].own,
                              commit |-> delivery[w].commit, head |-> head,
                              pulls |-> Len(hist)]}
             ELSE done
  /\ UNCHANGED <<home, commits, remote, table, pushed, deliveries,
                 event, intake>>

\* A worker dies: its step is done again by the worker that takes over.
Die(w) ==
  /\ delivery[w].pc \notin {"idle", "complete"} /\ failed(w)
  /\ UNCHANGED <<home, commits, remote, table, pushed, deliveries,
                 done, event, intake>>
-----------------------------------------------------------------------------
(* Webhooks. *)

\* A delivery comes in; whether a RECEIVED row counts as abandoned is a
\* matter of its age. Everything else that has a row is a duplicate.
receiveGitHub(h, e) ==
  /\ handler[h].pc = "idle" /\ receipts < MaxReceipts
  /\ receipts' = receipts + 1
  /\ \E next \in {"create", "claim"} :
       /\ next = "create" <=> event[e].status = "none"
       /\ next = "claim" => event[e].status \in {"FAILED", "RECEIVED"}
       /\ handler' = [handler EXCEPT ![h] = [pc |-> next, ev |-> e,
                                             seen |-> event[e].status]]
       /\ event' = [event EXCEPT ![e].stale =
                      @ \/ (next = "claim" /\ event[e].status = "RECEIVED")]
  /\ UNCHANGED <<home, remote, table, pushed, worker>>

receipt(h) == event[handler[h].ev]
setReceipt(h, status) == event' = [event EXCEPT ![handler[h].ev].status = status]
rest(h) == handler' = [handler EXCEPT ![h] = Free]

\* The row is unique by delivery id: the second creation is a duplicate.
createEvent(h) ==
  /\ handler[h].pc = "create"
  /\ IF receipt(h).status = "none"
     THEN /\ setReceipt(h, "RECEIVED")
          /\ handler' = [handler EXCEPT ![h].pc = "process"]
     ELSE rest(h) /\ UNCHANGED event
  /\ UNCHANGED <<home, remote, table, pushed, worker, receipts>>

claim_unconditional(h) ==
  /\ handler[h].pc = "claim"
  /\ setReceipt(h, "RECEIVED")
  /\ handler' = [handler EXCEPT ![h].pc = "process"]
  /\ UNCHANGED <<home, remote, table, pushed, worker, receipts>>

\* A retry claims the row if its status is still the one it saw. For an
\* abandoned row that status is RECEIVED, before and after.
claim(h) ==
  /\ handler[h].pc = "claim"
  /\ IF receipt(h).status = handler[h].seen
     THEN /\ setReceipt(h, "RECEIVED")
          /\ handler' = [handler EXCEPT ![h].pc = "process"]
     ELSE rest(h) /\ UNCHANGED event
  /\ UNCHANGED <<home, remote, table, pushed, worker, receipts>>

syncPullRequest_createOnly(n, ver) ==
  IF rowOf(n) # 0 THEN UNCHANGED table
  ELSE /\ rows' = Append(rows, [linkedRow(n, FALSE, statusOf(hist[n][ver]))
                                  EXCEPT !.linked = FALSE])
       /\ stores(n, ver)

\* The row of that repository and number is created or written over.
syncPullRequest(n, ver) ==
  /\ rows' = IF rowOf(n) # 0
             THEN [rows EXCEPT ![rowOf(n)] = written(@, n, ver)]
             ELSE Append(rows, [linkedRow(n, FALSE, statusOf(hist[n][ver]))
                                  EXCEPT !.linked = FALSE])
  /\ stores(n, ver)

\* One transaction: what the delivery reports, and its row.
processGitHubEvent(h) ==
  LET e == receipt(h)
  IN /\ handler[h].pc = "process" /\ rest(h)
     /\ event' = [event EXCEPT ![handler[h].ev].status = "PROCESSED",
                               ![handler[h].ev].applied = @ + 1]
     /\ \/ e.kind = "pull_request" /\ syncPullRequest(e.number, e.ver)
           /\ UNCHANGED pushed
        \/ e.kind = "push" /\ pushed' = TRUE /\ UNCHANGED table
     /\ UNCHANGED <<home, remote, worker, receipts>>

\* The transaction is rolled back and the row marked FAILED, over whatever it
\* says by then; or the handler dies, or that last write fails too.
ProcessingFails(h) ==
  /\ handler[h].pc \in {"process", "create", "claim"} /\ rest(h)
  /\ \/ handler[h].pc = "process" /\ setReceipt(h, "FAILED")
     \/ UNCHANGED event
  /\ UNCHANGED <<home, remote, table, pushed, worker, receipts>>
-----------------------------------------------------------------------------
PrNext ==
  \/ \E n \in DOMAIN hist : Change(n)
  \/ \E w \in Deliverer :
       \/ Approved(w) \/ openPlaceholder(w) \/ createPlaceholder(w)
       \/ closePlaceholders(w) \/ PushFails(w) \/ push(w) \/ markPushed(w)
       \/ createOrFindPullRequest(w) \/ createPull(w) \/ refind(w)
       \/ RequestFails(w) \/ lookup(w) \/ record(w) \/ complete(w) \/ Die(w)
  \/ \E h \in Handler :
       \/ \E e \in DOMAIN event : receiveGitHub(h, e)
       \/ createEvent(h) \/ claim(h) \/ processGitHubEvent(h)
       \/ ProcessingFails(h)

PrSpec == PrInit /\ [][PrNext]_prVars
-----------------------------------------------------------------------------
(* Properties *)

Status == {"OPEN", "DRAFT", "CLOSED", "MERGED"}

\* Types of the delivery's state. A GitHub row has a number GitHub gave, a
\* placeholder has none, and no two rows share a number.
PrTypeOK ==
  /\ home \in {"LOCAL", "GITHUB"}
  /\ head \in 0..commits /\ commits \in 0..MaxDeliveries /\ pushed \in BOOLEAN
  /\ \A n \in DOMAIN hist : \A i \in DOMAIN hist[n] : hist[n][i] \in Remote
  /\ \A i \in DOMAIN rows :
       /\ rows[i].status \in Status
       /\ IF rows[i].local THEN rows[i].number = 0
          ELSE rows[i].number \in DOMAIN hist
       /\ \A j \in DOMAIN rows :
            i # j => (rows[i].number # rows[j].number \/ rows[i].number = 0)
  /\ \A e \in DOMAIN event :
       event[e].status \in {"none", "RECEIVED", "FAILED", "PROCESSED"}
  /\ deliveries \in 0..MaxDeliveries /\ receipts \in 0..MaxReceipts

\* A run of a GitHub task that COMPLETE let through has a pull request on
\* GitHub, opened by a run of the task, and a branch there; if its own
\* PREPARE_PR succeeded, the branch has all it had committed
\* (githubDeliveryComplete). A run whose PREPARE_PR failed to the end may pass
\* on what an earlier run delivered.
CompletionsAreDelivered ==
  \A d \in done :
    home = "GITHUB" =>
      /\ d.pulls > 0
      /\ d.own => d.head >= d.commit

\* Once a pull request was delivered, and with no run under way, no open
\* placeholder could be taken for it (openPullRequest).
PlaceholdersClose ==
  (/\ \E d \in done : d.own
   /\ \A w \in Deliverer : at(w, "idle"))
    => \A i \in DOMAIN rows : rows[i].local => rows[i].status # "OPEN"

\* A webhook delivery takes effect once however often it arrives, unless
\* somebody took it for abandoned: the claim of such a row does not exclude
\* a second one, nor the handler it was taken from.
AppliedOnceUnlessAbandoned ==
  \A e \in DOMAIN event : event[e].applied > 1 => event[e].stale

settled(n) ==
  /\ \A e \in DOMAIN event : event[e].number = n => event[e].status = "PROCESSED"
  /\ \E e \in DOMAIN event : event[e].number = n /\ event[e].ver = Len(hist[n])

\* Once every report on a pull request has taken effect, the row of its
\* number has the state GitHub has, unless an older state was written after a
\* newer one: by a webhook out of order, a repeated one, or a delivery that
\* had read the request before (syncPullRequest).
StatusFollowsGitHub ==
  \A n \in DOMAIN hist :
    (settled(n) /\ rowOf(n) # 0 /\ ~stored[n].ooo)
      => rows[rowOf(n)].status = statusOf(now(n))
=============================================================================
