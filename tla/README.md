# Formal models of gitea-manager

TLA+ models of gitea-manager, the TLC runs that check them on small instances,
and TLAPS proofs that most of their safety properties hold for every value of the
constants. `PROJECT.json` lists the runs, the mutants that show each property
can be broken by a plausible bug, the source lines each definition translates,
the hazards of the code, and the theorems.

    tlc -workers 2 -config ReviewQueueSafety.cfg MCReviewQueue   # model check
    tlapm ReviewQueue_proofs.tla                                 # check proofs

## 1. Inventory of the system

gitea-manager is a Flask application (`backend/app.py`) with a Vue frontend and
a few side processes. Its database is SQLite. The parts that keep state of their
own and do more than one thing at a time:

| component | state | operations | what is hard | what makes it correct |
|---|---|---|---|---|
| **review job queue** `ai_review/store.py` | tables `jobs`, `pr_state`, `settings`, `repositories` | enqueue (webhook, scan, rerun), claim, heartbeat, finish, edits, archive | lease takeovers, delayed webhooks, edits at any moment | serial execution, verdicts final and true, bounded interruptions |
| **review worker** `worker.py`, `batch_worker.py` | its position in `process()`, file locks `execution-<job>` and `publish-...` | lock, capture, run a unit, publish, fail, reconcile | crash anywhere; the old and the new process overlap in a restart; slow worker whose lease ran out | nothing of a lost job is continued; cancelled means stopped |
| **publication** `publish.py`, `issue_publication.py`, `gitea.py` | `review_issue_operations` (queued, started, done, unknown), Gitea's Reviews | freeze, read back, mark, POST, record | lost reply, request that takes effect late, push between check and POST | at most one Review per job, Reviews in the order of the generations |
| **cancellation** `cancellation.py` | `cancel_requested_*`, status `cancelling` | request, confirm | races with claim, publication and sweep | nothing is published after it, and it is confirmed |
| **batch plan** `batch_store.py`, `batch_flow.py`, `batch_plan.py`, `batch_counter.py` | `review_batch_plans`, `_units`, `_attempts` | save, refutations, split, retry, authorise | unknown attempts, crash between steps, budget arithmetic | one model call per session; calls within what was authorised; nothing published while a unit is open |
| **model gateway** `broker.py` | `review_native_calls`, `jobs.model_calls`, capabilities | call | a session outlives the lease of its job | calls only for the current session of an active job |
| **native session** `native_review.py`, `session_events.py`, `review-runtime/` | session columns of `jobs`, `review_session_events`, the executor's sessions | prepare, submit, events, inspect, ACK, stop | duplicate and lost events, crash between submit and POST | contiguous events, a result is persisted before it is acknowledged |
| **issue lifecycle and comment edits** `issue_lifecycle.py`, `issue_checks.py`, `issue_publication.py` | `review_issues`, `_comments`, `_checks`, `_operations` | reconcile, check, edit comments | late edits of an older generation, people editing | no human text is overwritten, the newest state wins |
| **feedback** `feedback.py` | `review_feedback_events` | receive, retry | delivered twice, processed beside a publication | idempotent answers |
| **progress** `progress.py`, `progress_state.py` | one comment per PR | sync | lost replies | one comment |
| **webhook binding, removal** `webhook_binding.py`, `repository_removal.py` | binding rows | bind, remove | partial failure | removal can be resumed |
| **SVN migration** `svn_migration/` | runs, items, checkpoints | preflight, claim, create, push, pause, cancel, resume | lost replies of creations and of the push, restart | adopt only what bears the marker, never force |
| **schedules** `services/schedule_runner.py` | `scheduled_tasks` | claim, run, finish | a crash leaves `running` | one run at a time, and again after a crash |
| **integration outbox** `services/integration_outbox_service.py` | `integration_outbox` | emit in the transaction, read by cursor | rollback | an event exactly when its change is committed |
| **branch policies** `services/policy_*.py` | batches, results | preview, apply, recover | uncertain applications | no result says applied or not when unknown |
| **merge approval** `approval/`, `gitea-compat/` | rules in Gitea, hook | evaluate | two implementations (Python and Go) | the same answer |
| **backup, restore, disaster** `services/backup_*`, `restore_*`, `disaster_*` | tasks, files on hosts | long command sequences | crash between two | a restore is undone or completed |
| **mirrors, commit gate, statistics, alerts** | tables of their own | polling, reports | – | – |
| **access** `access/`, `auth.py` | accounts, grants, sessions | login, scope checks | cached decisions | – |
| routes, frontend, installers, scripts | – | – | – | – |

How they interact. The routes and the webhook write `jobs` through
`Store.enqueue`. The worker process loops: claim a job and process it, reconcile
one unknown publication, scan repositories; a second thread confirms
cancellations. `process()` prepares the workspace, executes one unit of the
batch plan per claim in the executor container (which calls the model through
the broker and reports events back over HTTP), and puts the job back into the
queue until the plan is done; the last claim publishes. All of them share the
SQLite file, in transactions that begin with `BEGIN IMMEDIATE`, and the two
families of `flock` locks. Gitea is reached over HTTP; the answer of a write may
be lost while the write takes effect.

## 2. Plan

1. `ReviewQueue` **(done)** – queue, worker, publication, reconciliation and
   cancellation; its proofs `ReviewQueue_proofs`, `ReviewQueueOrder_proofs`.
2. `ReviewLedger` **(done)** – what the queue promises the readers of a PR, in an
   abstract module that `ReviewQueue` implements by a refinement mapping; checked,
   and proved in `ReviewLedger_proofs` from the invariants of 1.
3. `BatchPlan` **(done)** – one job: plan, units, attempts, sessions, the
   broker's budget, crash and recovery of an attempt; `BatchPlan_proofs`.
4. `NativeSession` **(done)** – events, result, release and cancellation between
   `session_events.py` and the executor; `CommentSync` **(done)** – edits of the
   comments of earlier generations; their proofs in `NativeSession_proofs` and
   `CommentSync_proofs`.
5. `SvnMigration` **(done)** – runs, intents, uncertain outcomes, reservations and
   the exclusion of backups; `SvnMigration_proofs`.
6. `SessionContract` **(done)** – what manager and executor promise each other about
   the sessions of a job, an abstract module that `NativeSession` implements from
   one side and `BatchPlan` from the other; proved in both, and its consequences in
   `SessionContract_proofs`.
7. `Feedback`, `Schedule` with the outbox, `PolicyBatch`, the approval rules as a
   function compared with its Go twin, then the recovery of a restore.

Bounds are of two actors and two items each, and the proofs remove them. The
theorems after each module are its type correctness and its central safety
invariants and, for the ledger and the contract, the refinement.

## 3. ReviewQueue

### State and actions

| variable | code |
|---|---|
| `status`, `owner`, `leased`, `attempts`, `started`, `asked`, `snap` | the columns of `jobs`; `leased` is `lease >= now`, `snap` the head in `jobs.snapshot` |
| `ident` | number, generation, the two revisions and the manual flag a job is created with |
| `todo` | units of the plan not yet done (each is a claim of its own) |
| `op` | the create row of `review_issue_operations` |
| `prState`, `conf`, `repo` | `pr_state`, `settings`, `repositories` |
| `pull`, `net`, `remote` | Gitea: head and state of the PR, create requests under way, Reviews that exist |
| `session` | the executor: the session of the job's unit, none, live or over |
| `pc`, `held` | where a worker is in `process()`, and with which job |

Every `BEGIN IMMEDIATE` transaction is one action, with everything it changes:
`Claim` is the sweep of the lapsed jobs and the claim in one step, as in
`Store.claim`. Between two actions of a worker anything may happen. The guard
`Active(w)` is `Store._active`, `VersionHolds(w)` is `assert_version`.

| actions | code |
|---|---|
| `Webhook`, `Scan`, `Rerun` (`Enqueue`, `EnqueueClosed`) | `Store.enqueue` and its callers; a webhook names any version the PR ever had, as deliveries are late |
| `SaveConfig`, `SaveRepo`, `ArchiveRepo`, `Continue` | the operator's edits, `batch_store.control` |
| `RequestCancel`, `ReconcileCancel` | `cancellation.py` |
| `Claim`, `Sweep`, `LeaseLapses`, `Crash` | `Store.claim`, a missed heartbeat, the end of a process |
| `Enter`, `Prepare`, `StartSession`, `FinishUnit`, `Pause`, `Return` | `worker.process`, `batch_worker._process`, the start of a session in `native_review.execute` |
| `EndSession` | a session completes, fails, or is aborted |
| `Lock`, `Mark`, `StartOperation`, `Post`, `Receive`, `Unlock`, `Succeed` | `issue_publication.publish`, in the order of its commits |
| `Land`, `Lost` | what becomes of a request at Gitea |
| `GoStale`, `FailPublishing`, `FailRunning` | the handlers of `Stale` and of other errors |
| `Reconcile`, `ConfirmUnpublished` | `worker.reconcile_unknown`, the administrator's confirmation |

Choices a reader should know:

* One repository, and by default one PR: jobs of different PRs meet only in the
  serial claim, which `SingleExecution` covers for all PRs in the proof.
* The deployment runs one worker; two workers in the runs are the overlap of the
  old and the new process in a restart, and the takeover of a lease.
* New jobs always have `batch_protocol = 1`, so the path through
  `batch_worker` is the one modelled.
* `awaiting_cost`, `budget_paused` and `incomplete` are the one status `waiting`:
  all statements of this module treat them alike.
* `refresh_pr` after a publication has the effect of `Scan`, which may happen then.
* Time is abstract: a lease is valid or not, debounce and backoff are the freedom
  not to act.
* `ConfirmUnpublished` requires that the request has ended: this is what the
  administrator vouches for, and the code cannot know it. Under this assumption
  nothing can overtake the reading of Gitea, so that the reading and the update
  (`worker.py:414-440`) are one step. A late request that the administrator did
  not know of would make the verdict false; no property covers that hazard.
* A confirmed cancellation needs the receipt of the executor
  (`execution_stopped is True`) besides the execution lock: `Stopped` is that the
  session is not live and nobody is inside `process()`. The executor's own
  reasons for the receipt are section 5.
* `Guarded` is the authorization service (`AI_REVIEW_AUTHORIZATION_URL`, set by
  every compose file). With it each read of Gitea is refused for a repository that
  is disabled or archived (`MayRead`), so a publication that is unknown then stays
  so. The liveness run
  has `Guarded = TRUE`; the safety runs have `FALSE`, which only allows more steps, and
  the proofs hold for both.

### The abstract ledger

`ReviewLedger` has no worker, lease, lock or operation row: a job has a verdict
(absent, open, published, dropped) and one request (unsent, armed, sent, visible,
spent). A job is registered with the newest generation of its PR and replaces
open jobs whose Review does not exist and cannot come to exist; the right to send
its request is taken only when every older job of the PR has its verdict, and at
most once; it is published when its Review is visible, or when it had nothing to
send. `LedgerSpec` in `ReviewQueue` states the refinement:

| ledger | queue |
|---|---|
| `verdict[j]` | `Verdict(j)`: absent, published (`succeeded`), dropped (`failed`, `superseded`, `cancelled`), else open |
| `request[j]` | `Request(j)`: visible or sent by `remote` and `net`; armed while a worker is at `sending`; spent when `op` is `started` and none of these; else unsent; a second request would be `repeated`, which the ledger does not know |
| `Register`, `Drop` | `Enqueue`; the end of open jobs by an edit, a sweep, a cancellation or a settlement |
| `Arm`, `Send`, `Disarm` | `StartOperation`; `Post`; a crash or an error between the two |
| `Land`, `Lose` | `Land`, `Lost` |
| `Publish` | `Succeed`, `Reconcile` |

It says more than the single invariants: they bound each job, the ledger orders
the requests of the PR and ties every verdict to what its own request became,
in every step.

### Runs

| run | instance | states | shows |
|---|---|---|---|
| `queue_safety` | 2 jobs, 1 PR, 2 workers, 2 attempts, 1 unit, 2 generations, 1 crash | 1 593 758 | all safety properties and the refinement of the ledger, under takeover, crash, lost and late requests, cancellation, reconciliation |
| `queue_settings` | 2 jobs, 1 worker, 2 heads, 1 edit | 2 381 662 | the refinement of the ledger, and with it verdict, order and finality, while pushes, edits and the archiving fall into a publication |
| `queue_liveness` | 2 jobs, 1 worker, 1 attempt, 1 unit, 1 crash | 156 722 | cancellations are confirmed, no job executes for ever, settleable publications are settled while their repository may be read |
| `queue_lapse` | 1 worker, 1 generation | small | finding 1 |
| `queue_cancelled_version` | 1 worker, 2 heads | small | finding 2 |

The properties, in words: the queue is serial (`SingleExecution`);
interruptions are bounded (`BoundedInterruptions`); one Review per job at most
(`AtMostOneReview`); a verdict tells the truth about Gitea (`VerdictTruthful`) and
is final (`TerminalStable`); nothing of a cancelled job is published
(`CancelledNeverPublishes`) and cancelled means stopped, in the worker and at the
executor (`CancelMeansStopped`); no
job of a PR runs beside an unknown publication (`NoWorkBesideUnknown`); no older
Review is sent or appears after a newer one was begun (`ReviewsInOrder`).

Why the bounds are enough: every conflict in the code is between a job and the
one that replaces it (two jobs, two generations of one PR), between two workers
over one job, or between a publication and one edit or push. One unit makes a
job pass through the queue between execution and publication; one crash and
any number of lapsed leases produce each recovery path; two attempts let the
limit be reached by a first and a second interruption. `MaxGen`, `MaxHead`,
`MaxSaves`, `MaxCrashes` are the only bounds. Since they end the environment's
actions, a finished system has nothing to do, hence `CHECK_DEADLOCK FALSE`.
The safety runs use the symmetry of the jobs and of the workers, which no action
tells apart; the liveness run uses none. The proofs remove the bounds.

Fairness (`FairSpec`): a worker in `process()` goes on (weak), some worker polls
(weak), the cancellation thread runs every second and the session it asks to abort
ends (weak; section 5 checks that), requests under way end (weak; the client has
timeouts), and the lease of a job no worker holds runs out (weak).
`reconcile_unknown` serves the due job that has waited longest, once per
iteration, so a reconciliation that is possible again and again is reached
(strong). Nothing is assumed of operators, webhooks, pushes or crashes. The
fairness of the loop leaves out two pauses of the code, maintenance and an
executor that stays unavailable (`worker.py:476-485`): while they last nothing is
claimed.

### Findings

1. `queue_lapse`: a lapsed lease raises the same `Stale` as a replaced version,
   and the handler finishes the job as `superseded` (shown as an expired version).
   The documentation says a lapsed lease waits for its recovery. If the handler
   runs before the sweep, the job is over, and no scan queues it again, as the
   signature of its version is unchanged.
2. `queue_cancelled_version`: a cancellation is bound to the version a webhook
   names, and a late webhook for an older version passes. The job it creates
   captures the newest head, which is the one that was cancelled.

### Proofs

Only assumption: `ConstantsOK`. `ReviewQueue_proofs` and
`ReviewQueueOrder_proofs` prove every safety property of the passing runs as
`Spec => []P` or `Spec => [][A]_vars`, for any sets of jobs, PRs and workers and
any bounds. None of them is inductive alone; the argument climbs:

1. `TypeOK`.
2. `Custody` – what the locks give: one worker at most inside `process()` of a
   job, one publisher per PR, and a job that is held was started. Hence, with the
   receipt in `Stopped`, `CancelMeansStopped`.
3. `Writer` and `Written` – for each position of a publisher, and for each status
   of a job nobody publishes, what `op`, `net` and `remote` can be: a queued row
   means nothing was sent; a started row at most one request; only the
   publisher's own position `sending` allows it to be sent. Hence
   `AtMostOneReview`, `VerdictTruthful`, `CancelledNeverPublishes`.
4. `Counted` – `attempts` and the sweep; hence `BoundedInterruptions`.
5. `Order` – the generation of a job is at most that of its PR, two jobs of a PR
   have different ones, a replaceable job has the current one, and every older job
   of one that was started has ended. Hence `ReviewsInOrder`, `NoWorkBesideUnknown`.

6. `QueueImplementsLedger` (`ReviewLedger_proofs`) – `Spec => LedgerSpec`. Under 1,
   2, 3 and 5 each step is a step of the ledger or a stutter: `StoreLedger` shows it
   at once for everything the store does to statuses (what it ends has no
   request), `BodyLedger` for the worker, `StopLedger` for crashes,
   `RequestLedger` and `SettleLedger` for Gitea and the reconciliation. `Order`
   is what makes `StartOperation` an `Arm`.

`SingleExecution` and `TerminalStable` follow from the guards of `Claim` and
`Finish` with 1 and 2. Liveness (`CancelConfirmed`, `ExecutionEnds`,
`UnknownSettles`) stays with TLC, as TLAPS does not prove `ENABLED` and fairness
here, and so do the two runs that end in a violation.

## 4. BatchPlan

One job under the lock of its worker: what `ReviewQueue` folds into "a unit is
done" is spelled out here.

| variable | code |
|---|---|
| `status`, `pc` | `jobs.status`; where the worker is in `batch_worker._process`, `_execute_unit`, `native_review.execute` |
| `units`, `att` | `review_batch_units` and `review_batch_attempts`, each attempt with its one session at the executor: what was sent (`net`), whether it runs, has announced its end, or has set its status (`exec`), how it ended (`end`, `outcome`), its model calls, whether the record of its end is written (`kept`), whether the executor was told to forget it (`released`) |
| `plan` | the call limits of `review_batch_plans`, whether the refutations are planned, the confirmation |
| `session` | the session columns of `jobs`, which the worker and the session's events both write, and the last end its events told (`told`) |
| `cap`, `calls` | the capability of the broker; `jobs.model_calls` |
| `checks` | `review_issue_checks` |

| actions | code |
|---|---|
| `SavePlan`, `AwaitCost`, `PauseBudget`, `SplitUnit`, `StartUnit`, `Return`, `GiveUp` | `batch_worker._process` from the claim to the attempt, `adjust_output` |
| `TooLate`, `Execute`, `MarkSubmitted`, `Post`, `Authorize`, `Poll...`, `InspectOpen` | `native_review.execute` and `inspect_result`, one action per transaction or request |
| `Receive`, `Acknowledge`, `AckUnknown`, `Parse...`, `Fail` | `_execute_unit` after the session; `Fail` is its exception handler with everything it writes |
| `SaveRefutations`, `StartCheck`, `FinishCheck`, `HistoryBroken`, `YieldUnit`, `Publish` | the end of `_process`, `issue_checks.py` |
| `Deliver`, `EndSession`, `Withdraw`, `SetStatus`, `PersistEnd`, `ExecutorCrash`, `Report`, `Call` | the executor, `session_events.receive`, `Broker.call` |
| `Confirm`, `Continue`, `Retry` | `batch_store.control` |
| `Crash`, `Sweep`, `Abandon`, `Expire` | the end of the worker, the sweep of `Store.claim`, `_active` of a worker that lost the job, the deadline |

Choices: the sizes of units and groups stand for the data that is cut; a model
answer is good, has wrong references, ran out of output, or is otherwise unusable.
A capability is `fresh` for the token issued last and `stale` for any before. The
end of a session takes three steps, as in `SessionRun.run`: it is announced
(`EndSession`), set as the status (`SetStatus`), recorded (`PersistEnd`). Between
the first two, an abort by the watch thread or by the manager's request at the
deadline, with the job active, still turns a completion into `aborted` with a
second terminal event (`Withdraw`), and `Report` then tells both to the manager in
their order. A record that cannot be written after a settled completion is left to
section 5 (`FailRecord`). A job that is waiting is waiting for one of three
reasons that the operator's actions tell apart.

| run | instance | states | shows |
|---|---|---|---|
| `batch_recovery` | one unit or one that can be cut in two, at most one group, 2 checks, 2 sessions, 3 faults | 1 592 968 | one call per session, one session at a time, results persisted before they are released, the session columns are those of the unit, only complete plans are published; the refinement of `SessionContract` |
| `batch_budget` | 1 unit, 2 groups, 3 sessions, no fault | small | finding 3 |
| `batch_lost_end` | 1 unit, 2 sessions, 1 fault | small | finding 4 |

Two sessions are the one that is in doubt and the one that must not be started
beside it. Three faults are needed, for example, for a lapsed lease, a lost
restart of the executor and a passed deadline in one attempt. No liveness is
claimed, since a job that waits for its operator may wait for ever.

`BatchPlan_proofs` proves all properties of `batch_recovery` for every plan,
every set of groups and earlier issues and every bound, from `PlanConstantsOK`.
The inductive invariant `IInv` adds to the types:

* `Data`, about the units and attempts alone: each attempt is consistent in itself
  (a stored result is of a completed session whose status is set, a released one
  is stored, a settled attempt has a reported end); all attempts but the last are
  settled; an unsettled one is for the first open unit; a unit is done exactly
  when its last attempt is, and unless the very last attempt is done some unit is
  open (`LastOK`).
* `SessionOK`: a final status in the session columns is the end of the latest
  session, or the completion it announced before it was aborted. This is what
  makes `Fail` sound: without it a status left by an earlier session would let a
  unit be retried beside a running one.
* `PlaceOK`: wherever the worker handles a session, that session's attempt is
  unsettled, and at the acknowledgement its result is stored and completed.
* `PlanOK` and `PublishedOK`: without a plan there are no attempts, and a
  published plan stays complete.

The steps fall into four kinds, with one lemma for each: those that keep unit,
state, end and result of every attempt (`Held`), those that settle the current
one (`CurrentSettled`), those that change the units (`UnitsChanged`) and the one
that begins an attempt (`AttemptAdded`). `Next1` and `Latest` are chosen with
`CHOOSE`; `MinExists` and `MaxExists` (from well-foundedness of the natural
numbers) show that what they choose exists.

Two theorems are about the budget, and no run checks them (TLC finds both true
in the instance of `batch_recovery`). `CallsStayAuthorized`: the counted calls stay
below what was authorised, and that below the limit of the plan, although splits,
refutations and retries move the limit. `CallsAreAccounted`: the counter is the
number of sessions that called plus at most one for each check begun, so that no
crash or takeover repeats a call or loses its count. They need `IInv`, and that
nothing is authorised before there is a plan. They do not say that the limit is
large enough: finding 3 shows that it is not.

`PlanKeepsContract` is the refinement of section 8. It adds `AskedOK` (what
left for the executor was marked as submitted before) and `OverOK` (before a
session begins, every earlier one is lost or recorded) to `IInv`
(`OverInvariance`). The same two give `SessionsInTurn`: an earlier session may have
announced its end and not set its status when the manager already prepares the
next one, so it is `OverOK`, not the manager's knowledge, that keeps two sessions
from running at once.

Findings:

3. `batch_budget`: `save_refutations` takes the larger of the old limit and a
   recomputed one that knows nothing of retries, so calls that retries used up
   are missing for the refutations of a plan the operator confirmed.
4. `batch_lost_end`: the session column is also written by the session's own
   events. If its end was announced and the executor restarts before it writes
   the record, the lost session counts as failed, not as unknown.

## 5. NativeSession

One session between the manager and the executor, which `BatchPlan` treats as
"runs, ended, gone". The events are the lines of a log; a completed session ends
with the line `completed`, which carries the digest of the result.

| variable | code |
|---|---|
| `job`, `start`, `stored`, `got` | manager: `jobs.status`, the one `POST /execute`, `review_session_events`, the persisted result |
| `place`, `status`, `cancel`, `final`, `orphan`, `draft` | executor's memory: the thread of `SessionRun.run`, its fields, a child process that outlives a restart, the record being written |
| `reporter` | `EventReporter`: thread, closed, the batch on its way, the acknowledged seq |
| `binding`, `log`, `ackFile`, `spool`, `result`, `record` | executor's files, which a restart keeps |
| `net` | reports under way |

`Emit` to `FailRecord` are the steps of `SessionRun.run`, with the announcement of
the end, the status, the closing of the reporter and the record as separate steps,
because the reporter, a cancellation and a restart fall between them. `SendBatch`,
`StopReporter`, `DeliverBatch`, `GiveUpBatch` are `EventReporter._run` with
`session_events.receive`; `Restart` is the start of the executor with
`recover_event_spools`; `Reported`, `Collect`, `Release` are `GET` and `ack`;
`RequestCancel`, `Abort`, `ConfirmCancel` the cancellation thread and
`NativeSessions.abort`. `Interrupt` is `SessionRun.abort` without a cancellation:
by the watch thread (deadline, changed binary, failed model request) and by the
manager at its deadline, on a job that stays active. Either kind of abort, once a
completion was announced and before its status is set, ends the log with a second
terminal line (`AbortCompleted`).

One run, `native_session` (3 events before the end, batches of 2, 3 faults;
247 459 states): batches of two over a log of up to four lines give a log that
needs two reports, a report that is repeated and one that overlaps.
Fairness: the threads of the executor go on, the worker that marked a session
goes on to its request, the confirmation of cancellations is tried every second
(all weak); restarts are bounded. `CancelConfirmed` is checked under it.

Proved in `NativeSession_proofs`, for every batch size, log and number of
faults: `TypeOK`, `StoredIsPrefix`, `ResultHasItsLog`, `AnnouncedResultExists`,
`CancelledStaysStopped`. The invariants: `Written` (types, `EndInLog`: an
announced end is a line of the log, `Acknowledged`: stored lines are those of
the log, everything acknowledged in memory, file, record or draft is stored,
nothing under way is beyond the log); `Halted` (a cancelled session has its file
of cancellation, which stops a late start); `Saved` (the result is on disk before
its line); `Ended` (a status `completed`, in memory, draft or record, belongs to a
log that ends there and does not grow any more). `ResultHasItsLog` needs all of
them: the record may be older than the reporter's last answer.
`SessionKeepsContract` (section 8) needs `Bound` besides: nothing of a session
exists before its binding, an orphan outlives its thread, and a session still at
work has announced no end.

Seen while modelling, and left without a run: the record of the end is built
before the reporter's thread has ended and can replace a newer one
(`native_session.py:344-352`, `:563-577`), which delays the collection of a
result until the next inspection; the spool can be removed while the file of
the acknowledged seq is still being written (`:312-320`, `:362-365`).

## 6. CommentSync

The status block of one comment that each later review of a PR rewrites with a
`PATCH`, which Gitea cannot make conditional.

| variable | code |
|---|---|
| `body`, `writer`, `net` | Gitea: the comment, whose write it shows, requests under way |
| `last`, `op` | `review_issue_comments.last_body`, `review_issue_operations` |
| `job`, `pc`, `seen`, `mine` | the review that publishes, its place in `sync_comments`, the body it read, `op['state']` in its memory |
| `raced` | a person changed the comment between a read and its write |

Every transaction and every request of `sync_comments` is an action, and `Fail`
is its exception handler. `Crash` executes the review again from its persisted
results; `NextReview` is the next holder of the publication lock. A text stands
for a status block, and an edit by a person for any body that is none of them.

| run | instance | states | shows |
|---|---|---|---|
| `comment_sync` | 3 reviews, 3 texts, 3 faults | 2 312 886 | a person's edit survives every write that was prepared before it, what is done has landed, and an earlier status comes back only by a write given up as a conflict |
| `comment_late_patch` | 2 reviews, 3 texts, 2 faults | small | finding 5 |

Three reviews: one whose write is in doubt, one that gives it up, one that
relies on it; three texts let all of them differ.
Proved in `CommentSync_proofs` for any number of reviews, texts and faults: the
four properties of the run. `EditKept` rests on `ConfirmedText` (a body that
confirmed an earlier write is a text) and `EditSeen` (a request under way, or
about to be, was compared with a text, so an edit made since is a race).
`DoneHasLanded` and `OverwriteOnlyAfterConflict` rest on `LateInv`, whose core is
`PassedSettled`: a write still under way that a later one passed was given up as
a conflict, or is done because another write showed the same text. The comment
may then show the text of a request that has not arrived; `Shown` says that such
a text was given up before, and it is carried from the comment to what a review
has read (`ShownOK`) and what it relies on when it starts (`ChangedOK`). No
liveness: a conflict is left to a person.

5. Finding of `comment_late_patch`: a write whose answer was lost is `unknown`
   until it is seen; executed again after a crash it becomes `conflict`, the next
   review no longer waits for it, and the late `PATCH` overwrites the newer status.

Also seen: a crash between marking an earlier operation done and updating
`last_body` (`issue_publication.py:194-197`) leaves the comment in conflict for
all later reviews: the status freezes, no text is lost.

## 7. SvnMigration

The queue of migration runs into one Gitea instance.

| variable | code |
|---|---|
| `status`, `control`, `item`, `owner` | `svn_migration_runs`, `_items` (with `repository_intent` and `repository_id`), `svn_reservations` |
| `worker` | the worker process: step, run, position, pending exception |
| `remote`, `created`, `late` | Gitea: the repository at each target with the run whose mark it bears, the ids given out, POSTs and pushes that were cut off and may still arrive |
| `lock`, `backup`, `maintenance` | the file lock and the `backups` row of `target_guard`, `guard_task`; `upgrade_maintenance.active()` |
| `revived`, `unseen` | history: runs put back after a cancellation; targets others changed since the run last looked |

| actions | code |
|---|---|
| `CreateRun`, `Pause`, `Resume`, `Cancel` | `service.py` |
| `Pick`, `Refused`, `Claim` | `step`, `target_guard`, the start of `execute` |
| `BeginItem`, `LookForRepository`, `PostRepository`, `ReadRefs`, `Push`, `VerifyItem`, `Recheck`, `Finish` | `migrate_item` and `execute`; each is a `check_tick` with one call to Gitea and its commit |
| `TakePause`, `Interrupted`, `Fails`, `Handle` | `check_tick`, the errors, the handler of `execute` as one step |
| `Crash`, `Start` | the end of the process, `main` |
| `AcceptBackup` to `RecoverBackup` | `guards.py`, `backup_recovery.recover_pending` |
| `Stranger`, `Arrive`, `Maintain` | other people, late requests, upgrades |

Choices: one instance; the content of a converted repository is the name of its
source, and the conversion, its checkpoints on disk and the creation of a group
(which repeats the intent and the mark of the repository) are left out; a stranger
never uses a run's mark.

A write that is cut off has no effect, or is left behind in `late` and may arrive
at any time (`Leaves`, `Arrive`): a POST without an answer, a POST or push whose
worker is killed, and a push that `check_tick`, a timeout or a signal stops. The
child of a push has a session of its own (`engine.py:48-49`), so it outlives a
killed worker, and goes on without the lock of the instance. The next start kills
it (`reap_processes`), but what Gitea has received it carries out, so `late`
stays. What arrives is what Gitea accepts: a POST where there is no repository, a
push where there are no refs.

One run, `svn_migration` (two batches that share a source and a target, two items
and one, 1 fault, 2 requests of control, 1 stranger, 1 backup; 1 207 092 states).
Each conflict is between the two runs, or between a run and one other actor; one
fault at any step leaves each kind of half-done write. Fairness: the worker
process runs and is started again after a crash, and an upgrade ends (weak both);
late requests have none. Under it `RunningEnds`: from any running run on, a time
comes when none is running, which needs the start of the worker to look at what
the last one left.

Proved in `SvnMigration_proofs` for any number of batches and items: all six
safety properties. The invariants: `Engaged` (the worker's place against the
status of its run: a claimed run stays `running`, a picked one may have become
paused or cancelled), `Reserved` (with `revived` for the exceptions),
`RemoteOK` (ids are given out once, so a repository that is gone never comes
back as the same), `ItemOK` (no id from the future), `ControlsOK` and `LocksOK`
(who holds the file lock), and `LookedAtAll` (what the last pass has looked at
is still there or changed by others). `RunningEnds` is model-checked only.

`BackupExcluded` is about the runs, as `target_guard` is: from the acceptance of a
backup to its end or recovery, no run is running or uncertain. It does not say that
nothing is written: a request left behind by a run that was then cancelled, or put
back to `queued` by an upgrade, is no obstacle to a backup and may arrive during it
(TLC reaches such a state). The code knows of such a request in the checkpoints
(`repository_intent`, `push_intent`) and does not look at them there.

`WritesAreGuardedAlways` is an action property that no run checks (TLC finds it
true in the instance of `svn_migration`). Whatever changes at a target is a
stranger's; or a step of a running run that has the lock of the instance, no
backup, maintenance or cancellation against it, and both source and target
reserved (but for `revived`); or the arrival of a request left behind, and what is
left behind was sent by such a run. A late request is the one write that nothing
guards when it takes effect; `TakenOverIsOwn` and `ContentKept` say what becomes
of it.

Seen while modelling, and stated as the exception `revived`: the handler of a
refused claim writes `queued` whatever the run has become since it was picked
(`worker.py:356`), so a run cancelled in that moment comes back without
reservations. Likewise a pause or cancellation requested just before an upgrade
begins is forgotten; a refused backup keeps its row until its recovery; a run
whose target is busy is picked again before all others; and `ReadRefs` and
`Push` do not compare the id of the repository, which only the verification does.

## 8. SessionContract

The promise at the boundary of sections 4 and 5, without requests, threads, files
or workers: sessions are asked for one after the other and only after a reported
end of all before (`Ask`); one begins once and beside no other (`Begin`); it
announces a completion and has made its result, or fails, or its end is unclear
(`Complete`, `Miss`). An announced completion is settled (`Settle`), or an abort
of whatever origin takes it back and it is a failure (`Withdraw`); when the
session is over it is one of the two (`Stop`). The manager takes the result of a
settled completion in custody before the executor may drop it (`Accept`,
`Release`). A cancellation is confirmed only when nothing runs, and then nothing
can begin (`ConfirmCancel`). `ContractSpec` of either module states the
refinement, which `native_session` and `batch_recovery` check and two theorems
prove.

| contract | `NativeSession` (one session) | `BatchPlan` (all sessions of a job) |
|---|---|---|
| `asked` | the request was marked or sent (`start`) | earlier attempts, and the latest once it is submitted |
| `run` | running until `Stopped`, absent without a binding | running until its end is recorded or the executor lost it |
| `end` | the last line of the log, a completion `announced` until the status is set | `end` of the attempt, a completion `announced` until the status is set, unknown as unclear |
| `custody` | made with its line, accepted in `got`, released with the file | made at completion, accepted in `raw`, then `released` |
| `cancel` | active, cancelling, cancelled | none: a cancelled job leaves the plan (`ReviewQueue`) |
| `Begin` | `DeliverStart` | `Deliver` |
| `Complete`, `Miss` | `AnnounceCompleted`; `AnnounceError` | `EndSession` |
| `Settle`, `Withdraw` | `SetStatus`; `AbortCompleted` | `SetStatus`; `Withdraw` |
| `Stop` | the steps after which nothing of it runs any more | `PersistEnd`, `ExecutorCrash` |
| `Accept`, `Release` | `Collect`, `Release` | `Receive`; `Acknowledge`, `AckUnknown` |

Everything else in the two modules is a stutter of the contract: reports and
their repetition, restarts that lose nothing the contract sees, takeovers,
polls. In `NativeSession` the difficult step is `Collect`, which must find a
completed end behind a record that may be stale; in `BatchPlan` it is `Deliver`,
since a request may arrive late, twice, or after a restart of the executor.

What the contract comes to is proved once, in `SessionContract_proofs`, from its
own inductive invariant: one session runs (`OneRuns`), what is asked for had a
reported end of all before it (`AskedInTurn`), a confirmed cancellation is real
(`ConfirmedStopped`), and as action properties that a result in custody stays that
of a completed session (`AcceptedStays`) and that settled ends are final
(`EndsAreFinal`). The theorems `EndsAndResultsStay` of the two modules carry the
action properties over to them, through the refinement and an instance of the
proofs with the same mapping.

What they do not say: that the end the manager was told first is the last. A
worker that reads the announced completion in `jobs.session_status` (at the
deadline, or when the session is missing) settles its unit as failed, and whether
the session then ends as completed or as aborted, that is right. A result is taken
only behind a status that is set, which no abort changes.

## 9. What is proved and what is only checked

| | proved by TLAPS | TLC only |
|---|---|---|
| ReviewQueue | all safety properties and the refinement of the ledger | liveness, the two divergences |
| BatchPlan | all safety properties of the passing run, the refinement of the contract, the budget of calls | the two divergences |
| NativeSession | all safety properties and the refinement of the contract | `CancelConfirmed` |
| SessionContract | its invariants and action properties | – |
| CommentSync | all safety properties of the passing run | the divergence |
| SvnMigration | all safety properties, and `WritesAreGuarded` | `RunningEnds` |

Liveness stays with TLC, since TLAPS does not treat `ENABLED` and fairness here.
The proofs assume only the named assumptions on constants, which TLC evaluates.
The bounds (`MaxFaults` and the like) are variables' guards in the models and
arbitrary natural numbers in the proofs.

How the modules fit together: in `ReviewQueue` a unit has a session that is none,
live or over, and is done in one step when it is over; `BatchPlan` opens the unit
and `NativeSession` the session. What the last two owe each other is
`SessionContract`, which both implement. Their other shared facts are stated in
each on its own terms: a unit is done only by a persisted result (`ResultKept`),
which is taken only with its log (`ResultHasItsLog`), and a cancellation is
confirmed only when the session has stopped (`CancelMeansStopped`,
`CancelledStaysStopped`). `CommentSync` runs under the publication lock of
`ReviewQueue`, which is why its reviews publish one at a time.

## 10. Not modelled

`PROJECT.json` names every component and the reason.

* **Feedback** (`feedback.py`): events retried by their due time. It needs
  `CommentSync`'s comment and the lifecycle of the issues, and comes next.
* **Schedule** (`schedule_runner.py`, `integration_outbox_service.py`): a claim
  in one conditional update and a task that a crash leaves `running`; the outbox
  writes in the transaction of its change, which SQLite makes atomic.
* **PolicyBatch** (`policy_*.py`): a batch with intents and uncertain results of
  the same shape as `SvnMigration`.
* The approval rules and their Go twin: pure functions over the rules of a
  branch, to be compared over bounded inputs.
* Backup, restore and disaster recovery: long sequences of commands on other
  hosts; only the exclusion of backups and migrations is modelled.
* Mirrors, commit gate, statistics, alerts, progress comments: derived views or
  calls in a fixed order.
* Diff, anchors, prompts, evidence, tokens: pure text work below the
  abstraction, where a snapshot is the number of its head.
* Model transport, ssh, docker, installers, frontend: I/O or outside the system.
