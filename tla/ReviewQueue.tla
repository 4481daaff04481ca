----------------------------- MODULE ReviewQueue -----------------------------
(***************************************************************************)
(* The AI review job queue: the SQLite tables jobs, pr_state, settings and *)
(* repositories (backend/ai_review/store.py), the worker loop that claims  *)
(* and executes jobs (worker.py, batch_worker.py), the publication of the  *)
(* result as ONE Gitea Review (publish.py, issue_publication.py), the      *)
(* reconciliation of writes whose result is unknown, and cancellation      *)
(* (cancellation.py).                                                      *)
(*                                                                         *)
(* Every BEGIN IMMEDIATE transaction of the store is one action.  A worker *)
(* is sequential: pc[w] says how far its call of process() has come and    *)
(* held[w] which job it works on.  A worker can be arbitrarily slow, lose  *)
(* its lease, or crash between any two actions; the request it sent to     *)
(* Gitea outlives it.  Time is abstract: a lease is valid (leased[j]) or   *)
(* has run out.  awaiting_cost, budget_paused and incomplete are treated   *)
(* alike by every statement modelled here and are the one status           *)
(* "waiting"; no code sets the status recovering any more.                 *)
(***************************************************************************)
EXTENDS Naturals, FiniteSets

CONSTANTS
    Jobs,          \* rows the jobs table may come to hold
    PRs,           \* pull requests of the one configured repository
    Workers,       \* worker processes (a restart overlaps the old process)
    Nobody,        \* the empty owner, and the job of an idle worker
    AttemptLimit,  \* interruptions after which a job is given up (3 in claim)
    Units,         \* execution units of a plan, each its own claim
    MaxGen,        \* bound: generations of one PR
    MaxHead,       \* bound: pushed code versions of one PR
    MaxSaves,      \* bound: configuration and repository edits
    MaxCrashes,    \* bound: crashes of workers
    Guarded        \* AI_REVIEW_AUTHORIZATION_URL is set, as every compose file does

ASSUME ConstantsOK ==
    /\ AttemptLimit \in Nat \ {0}
    /\ Units \in Nat /\ MaxGen \in Nat /\ MaxHead \in Nat \ {0}
    /\ MaxSaves \in Nat /\ MaxCrashes \in Nat
    /\ Guarded \in BOOLEAN
    /\ PRs # {} /\ Nobody \notin Workers /\ Nobody \notin Jobs

VARIABLES
    status,    \* jobs.status
    ident,     \* jobs.(number, generation, config_revision, repo_revision, manual)
    owner,     \* jobs.owner
    leased,    \* jobs.lease >= now
    attempts,  \* jobs.attempts
    started,   \* jobs.started_at IS NOT NULL
    asked,     \* jobs.cancel_requested_at IS NOT NULL
    todo,      \* units of the job's plan not yet done
    snap,      \* head of jobs.snapshot, 0 before it is captured
    op,        \* state of the job's create row in review_issue_operations
    prState,   \* pr_state.(generation, signature)
    conf,      \* settings.(enabled, execution_revision)
    repo,      \* repositories.(enabled, revision, access_archived)
    pull,      \* Gitea: head version of the PR and whether it is open
    net,       \* Gitea: create requests of the job still under way
    remote,    \* Gitea: Reviews of the job that exist
    session,   \* executor: the session of the job's unit, none, live or over
    pc,        \* position of a worker in process()
    held,      \* the job of that call
    crashes    \* crashes so far

dbVars == <<status, ident, owner, leased, attempts, started, asked, todo, snap, op, prState, conf, repo>>
outside == <<pull, net, remote, session>>
workers == <<pc, held>>
vars == <<dbVars, outside, workers, crashes>>

Executing == {"running", "publishing"}
Replaceable == {"queued", "running", "waiting"}
Terminal == {"succeeded", "failed", "superseded", "cancelled"}
Statuses == Executing \cup Replaceable \cup Terminal
              \cup {"absent", "publish_unknown", "cancelling"}

(* Positions inside process(): Body holds the file lock execution-<job>,   *)
(* Publication also the lock of the PR's publication.                      *)
Publication == {"locked", "marked", "sending", "sent", "recorded"}
Body == {"inside", "ready", "published", "leaving"} \cup Publication
Pcs == {"idle", "claimed"} \cup Body

Versions == 0 .. MaxHead
Signature == [version : Versions, exec : Nat, rev : Nat, closed : BOOLEAN]
NoSignature == [version |-> 0, exec |-> 0, rev |-> 0, closed |-> FALSE]
NoIdent == [pr |-> CHOOSE p \in PRs : TRUE, gen |-> 0, exec |-> 0, rev |-> 0, manual |-> FALSE]

(***************************************************************************)
(* Helpers.                                                                *)
(***************************************************************************)
SamePR(j, k) == ident[j].pr = ident[k].pr
Mine(w) == ident[held[w]].pr
Leave(w) == pc' = [pc EXCEPT ![w] = "leaving"]
Goto(w, place) == pc' = [pc EXCEPT ![w] = place]

(* Store._active: the worker still owns an executing job of the current    *)
(* generation, with a valid lease and the settings it was created under.   *)
Active(w) ==
    LET j == held[w] IN
    /\ owner[j] = w
    /\ status[j] \in Executing
    /\ leased[j]
    /\ ident[j].gen = prState[ident[j].pr].gen
    /\ repo.enabled /\ conf.enabled
    /\ ident[j].exec = conf.exec
    /\ ident[j].rev = repo.rev

(* assert_version: the PR is open and its head is the one of the snapshot. *)
VersionHolds(w) == pull[Mine(w)].open /\ pull[Mine(w)].head = snap[held[w]]

(* The two file locks (fcntl.flock), released when their process ends.     *)
ExecutionLocked(j) == \E w \in Workers : pc[w] \in Body /\ held[w] = j
PublicationLocked(p) == \E w \in Workers : pc[w] \in Publication /\ Mine(w) = p

(* Jobs of S that something newer replaces become superseded.              *)
Superseding(S) ==
    [j \in Jobs |-> IF j \in S /\ status[j] \in Replaceable THEN "superseded" ELSE status[j]]

Init ==
    /\ status = [j \in Jobs |-> "absent"]
    /\ ident = [j \in Jobs |-> NoIdent]
    /\ owner = [j \in Jobs |-> Nobody]
    /\ leased = [j \in Jobs |-> FALSE]
    /\ attempts = [j \in Jobs |-> 0]
    /\ started = [j \in Jobs |-> FALSE]
    /\ asked = [j \in Jobs |-> FALSE]
    /\ todo = [j \in Jobs |-> Units]
    /\ snap = [j \in Jobs |-> 0]
    /\ op = [j \in Jobs |-> "none"]
    /\ prState = [p \in PRs |-> [gen |-> 0, sig |-> NoSignature]]
    /\ conf = [enabled |-> TRUE, exec |-> 0]
    /\ repo = [enabled |-> TRUE, rev |-> 0, archived |-> FALSE]
    /\ pull = [p \in PRs |-> [head |-> 1, open |-> TRUE]]
    /\ net = [j \in Jobs |-> 0]
    /\ remote = [j \in Jobs |-> 0]
    /\ session = [j \in Jobs |-> "none"]
    /\ pc = [w \in Workers |-> "idle"]
    /\ held = [w \in Workers |-> Nobody]
    /\ crashes = 0

-----------------------------------------------------------------------------
(***************************************************************************)
(* Gitea's pull requests.                                                  *)
(***************************************************************************)
Push(p) ==
    /\ pull[p].open /\ pull[p].head < MaxHead
    /\ pull' = [pull EXCEPT ![p].head = @ + 1]
    /\ UNCHANGED <<dbVars, net, remote, session, workers, crashes>>

OpenOrClose(p) ==
    /\ prState[p].gen > 0 /\ prState[p].gen < MaxGen
    /\ pull' = [pull EXCEPT ![p].open = ~@]
    /\ UNCHANGED <<dbVars, net, remote, session, workers, crashes>>

(***************************************************************************)
(* Store.enqueue.  A webhook names the version its event was about, which  *)
(* need not be the latest: deliveries are delayed and reordered.  The      *)
(* background scan and refresh_pr name the version they read.  The dropped *)
(* calls (known delivery id, executor unavailable) change nothing.         *)
(***************************************************************************)
SignatureOf(v, closed) ==
    [version |-> v, exec |-> conf.exec, rev |-> repo.rev, closed |-> closed]

CancelledGeneration(p, v) ==
    /\ \E j \in Jobs : ident[j].pr = p /\ ident[j].gen = prState[p].gen /\ asked[j]
    /\ prState[p].sig.version = v

Accepted(p, v, closed, manual) ==
    /\ conf.enabled /\ repo.enabled
    /\ prState[p].gen > 0 =>
         \/ manual
         \/ /\ prState[p].sig # SignatureOf(v, closed)
            /\ closed \/ ~CancelledGeneration(p, v)

NewGeneration(p, v, closed) ==
    /\ prState[p].gen < MaxGen
    /\ prState' = [prState EXCEPT ![p] = [gen |-> @.gen + 1, sig |-> SignatureOf(v, closed)]]

Enqueue(p, v, manual) ==
    /\ Accepted(p, v, FALSE, manual)
    /\ NewGeneration(p, v, FALSE)
    /\ \E j \in Jobs :
         /\ status[j] = "absent"
         /\ status' = [Superseding({k \in Jobs : ident[k].pr = p}) EXCEPT ![j] = "queued"]
         /\ ident' = [ident EXCEPT ![j] = [pr |-> p, gen |-> prState[p].gen + 1, exec |-> conf.exec,
                                          rev |-> repo.rev, manual |-> manual]]
    /\ UNCHANGED <<owner, leased, attempts, started, asked, todo, snap, op, conf, repo,
                   outside, workers, crashes>>

EnqueueClosed(p, v) ==
    /\ Accepted(p, v, TRUE, FALSE)
    /\ NewGeneration(p, v, TRUE)
    /\ status' = Superseding({k \in Jobs : ident[k].pr = p})
    /\ UNCHANGED <<ident, owner, leased, attempts, started, asked, todo, snap, op, conf, repo,
                   outside, workers, crashes>>

Webhook(p) == \E v \in 1 .. pull[p].head : Enqueue(p, v, FALSE) \/ (~pull[p].open /\ EnqueueClosed(p, v))
Scan(p) == IF pull[p].open THEN Enqueue(p, pull[p].head, FALSE) ELSE EnqueueClosed(p, 0)
Rerun(p) == pull[p].open /\ Enqueue(p, pull[p].head, TRUE)

(***************************************************************************)
(* Store.save_config (a change beyond the time fields), save_repo (edit)   *)
(* and archive_repo.  A job that is already publishing is left to itself   *)
(* by the first two and becomes publish_unknown by the third.              *)
(***************************************************************************)
SaveConfig(enabled) ==
    /\ conf.exec + repo.rev < MaxSaves
    /\ conf' = [enabled |-> enabled, exec |-> conf.exec + 1]
    /\ status' = Superseding(Jobs)
    /\ UNCHANGED <<ident, owner, leased, attempts, started, asked, todo, snap, op, prState, repo,
                   outside, workers, crashes>>

SaveRepo(enabled) ==
    /\ ~repo.archived /\ conf.exec + repo.rev < MaxSaves
    /\ repo' = [enabled |-> enabled, rev |-> repo.rev + 1, archived |-> repo.archived]
    /\ status' = Superseding(Jobs)
    /\ UNCHANGED <<ident, owner, leased, attempts, started, asked, todo, snap, op, prState, conf,
                   outside, workers, crashes>>

(* Mutant: an archived publication counts as superseded.                   *)
ArchivedForgettingWrites(j) ==
    IF status[j] \in Executing \cup {"queued"} THEN "superseded" ELSE status[j]

ArchivedStatus(j) ==
    CASE status[j] = "publishing" -> "publish_unknown"
      [] status[j] \in {"queued", "running"} -> "superseded"
      [] OTHER -> status[j]

ArchiveRepo ==
    /\ ~repo.archived
    /\ repo' = [repo EXCEPT !.enabled = FALSE, !.archived = TRUE]
    /\ status' = [j \in Jobs |-> ArchivedStatus(j)]
    /\ UNCHANGED <<ident, owner, leased, attempts, started, asked, todo, snap, op, prState, conf,
                   outside, workers, crashes>>

(***************************************************************************)
(* batch_store.control: an operator confirms the cost, grants more budget  *)
(* or retries a failed unit of a waiting job of the current generation.    *)
(***************************************************************************)
Continue(j) ==
    /\ status[j] = "waiting"
    /\ ident[j].gen = prState[ident[j].pr].gen
    /\ repo.enabled /\ conf.enabled /\ ident[j].rev = repo.rev
    /\ status' = [status EXCEPT ![j] = "queued"]
    /\ owner' = [owner EXCEPT ![j] = Nobody]
    /\ leased' = [leased EXCEPT ![j] = FALSE]
    /\ UNCHANGED <<ident, attempts, started, asked, todo, snap, op, prState, conf, repo,
                   outside, workers, crashes>>

(***************************************************************************)
(* cancellation.request_cancel.  A job that no worker ever claimed is      *)
(* cancelled at once; any other is cancelling until reconcile_cancel has   *)
(* the executor's receipt that its session does not run (execution_stopped *)
(* is True; a 404 or a timeout is none) and the job's execution lock.      *)
(***************************************************************************)
NeverStarted(j) ==
    status[j] = "queued" /\ owner[j] = Nobody /\ session[j] = "none" /\ ~started[j]

(* Mutant: a job may be cancelled while it publishes.                      *)
CancellableWhilePublishing(j) == status[j] \in Replaceable \cup {"publishing"}
Cancellable(j) == status[j] \in Replaceable

RequestCancel(j) ==
    /\ Cancellable(j)
    /\ status' = [status EXCEPT ![j] = IF NeverStarted(j) THEN "cancelled" ELSE "cancelling"]
    /\ asked' = [asked EXCEPT ![j] = TRUE]
    /\ leased' = [leased EXCEPT ![j] = FALSE]
    /\ UNCHANGED <<ident, owner, attempts, started, todo, snap, op, prState, conf, repo,
                   outside, workers, crashes>>

(* Mutants: the executor's receipt alone proves the stop; cancellations    *)
(* of a repository that was switched off are not looked at.                *)
StoppedByReceipt(j) == session[j] # "live"
StoppedWhileEnabled(j) == repo.enabled /\ session[j] # "live" /\ ~ExecutionLocked(j)
Stopped(j) == session[j] # "live" /\ ~ExecutionLocked(j)

ReconcileCancel(j) ==
    /\ status[j] = "cancelling"
    /\ Stopped(j)
    /\ status' = [status EXCEPT ![j] = "cancelled"]
    /\ leased' = [leased EXCEPT ![j] = FALSE]
    /\ UNCHANGED <<ident, owner, attempts, started, asked, todo, snap, op, prState, conf, repo,
                   outside, workers, crashes>>

-----------------------------------------------------------------------------
(***************************************************************************)
(* Leases, crashes, and the requests under way at Gitea.                   *)
(***************************************************************************)
(* 90 seconds pass without a successful heartbeat.                         *)
LeaseLapses(j) ==
    /\ leased[j] /\ status[j] \in Executing
    /\ leased' = [leased EXCEPT ![j] = FALSE]
    /\ UNCHANGED <<status, ident, owner, attempts, started, asked, todo, snap, op, prState, conf, repo,
                   outside, workers, crashes>>

Orphaned(j) == \A w \in Workers : held[w] # j

Crash(w) ==
    /\ pc[w] # "idle" /\ crashes < MaxCrashes
    /\ pc' = [pc EXCEPT ![w] = "idle"]
    /\ held' = [held EXCEPT ![w] = Nobody]
    /\ crashes' = crashes + 1
    /\ UNCHANGED <<dbVars, outside>>

(* A create request takes effect, or never will.                           *)
Land(j) ==
    /\ net[j] > 0
    /\ net' = [net EXCEPT ![j] = @ - 1]
    /\ remote' = [remote EXCEPT ![j] = @ + 1]
    /\ UNCHANGED <<dbVars, pull, session, workers, crashes>>

Lost(j) ==
    /\ net[j] > 0
    /\ net' = [net EXCEPT ![j] = @ - 1]
    /\ UNCHANGED <<dbVars, pull, remote, session, workers, crashes>>

(* The executor's session ends: it completed or failed, or its deadline or *)
(* the abort request of the cancellation thread stopped it.                *)
EndSession(j) ==
    /\ session[j] = "live"
    /\ session' = [session EXCEPT ![j] = "over"]
    /\ UNCHANGED <<dbVars, pull, net, remote, workers, crashes>>

-----------------------------------------------------------------------------
(***************************************************************************)
(* Store.claim: first give up what an interrupted worker left, then take   *)
(* one queued job if nothing is executing or being cancelled.  The sweep   *)
(* is committed also when no job is taken: a queued job may still have to  *)
(* wait (debounce_seconds), only one that was swept now is due at once.    *)
(***************************************************************************)
(* Mutant: only running jobs are swept.                                    *)
LapsedRunning(j) == status[j] = "running" /\ ~leased[j]
Lapsed(j) == status[j] \in Executing /\ ~leased[j]

(* Mutant: one interruption too many.                                      *)
SweptLate(j) ==
    IF ~Lapsed(j) THEN status[j]
    ELSE IF status[j] = "publishing" THEN "publish_unknown"
    ELSE IF attempts[j] > AttemptLimit THEN "failed"
    ELSE "queued"

(* Mutant: an interrupted publication is simply started over.              *)
SweptRequeued(j) ==
    IF ~Lapsed(j) THEN status[j]
    ELSE IF attempts[j] >= AttemptLimit THEN "failed"
    ELSE "queued"

Swept(j) ==
    IF ~Lapsed(j) THEN status[j]
    ELSE IF status[j] = "publishing" THEN "publish_unknown"
    ELSE IF attempts[j] >= AttemptLimit THEN "failed"
    ELSE "queued"

SweptStatus == [j \in Jobs |-> Swept(j)]
SweptOwner == [j \in Jobs |-> IF Lapsed(j) /\ Swept(j) # "failed" THEN Nobody ELSE owner[j]]

(* Mutant: claims while another worker holds a valid lease.                *)
MayClaimInParallel == conf.enabled /\ \A j \in Jobs : status[j] # "cancelling"

MayClaim ==
    /\ conf.enabled
    /\ \A j \in Jobs : status[j] # "cancelling" /\ ~(status[j] \in Executing /\ leased[j])

(* Mutant: an unknown publication of the PR is no obstacle.                *)
ClaimableBesideUnknown(j) == Swept(j) = "queued"

Claimable(j) ==
    /\ Swept(j) = "queued"
    /\ \A k \in Jobs : SamePR(j, k) => Swept(k) # "publish_unknown"

Claim(w, j) ==
    /\ pc[w] = "idle"
    /\ MayClaim /\ Claimable(j)
    /\ status' = [SweptStatus EXCEPT ![j] = "running"]
    /\ owner' = [SweptOwner EXCEPT ![j] = w]
    /\ leased' = [leased EXCEPT ![j] = TRUE]
    /\ attempts' = [attempts EXCEPT ![j] = @ + 1]
    /\ started' = [started EXCEPT ![j] = TRUE]
    /\ Goto(w, "claimed")
    /\ held' = [held EXCEPT ![w] = j]
    /\ UNCHANGED <<ident, asked, todo, snap, op, prState, conf, repo, outside, crashes>>

Sweep(w) ==
    /\ pc[w] = "idle"
    /\ \E j \in Jobs : Lapsed(j)
    /\ ~(MayClaim /\ \E j \in Jobs : Lapsed(j) /\ Claimable(j))
    /\ status' = SweptStatus
    /\ owner' = SweptOwner
    /\ UNCHANGED <<ident, leased, attempts, started, asked, todo, snap, op, prState, conf, repo,
                   outside, workers, crashes>>

(***************************************************************************)
(* worker.process: wait for the execution lock, then check again that the  *)
(* job is still this worker's.                                             *)
(***************************************************************************)
Enter(w) ==
    /\ pc[w] = "claimed"
    /\ ~ExecutionLocked(held[w])
    /\ IF Active(w) THEN Goto(w, "inside") /\ UNCHANGED held
       ELSE Goto(w, "idle") /\ held' = [held EXCEPT ![w] = Nobody]
    /\ UNCHANGED <<dbVars, outside, crashes>>

(* Capture the snapshot on the first claim; on every claim compare it with *)
(* the open PR.  Storing a snapshot binds its version to the generation.   *)
Prepare(w) ==
    LET j == held[w] IN
    /\ pc[w] = "inside" /\ Active(w)
    /\ pull[Mine(w)].open
    /\ snap[j] \in {0, pull[Mine(w)].head}
    /\ IF snap[j] = 0
       THEN /\ snap' = [snap EXCEPT ![j] = pull[Mine(w)].head]
            /\ prState' = [prState EXCEPT ![Mine(w)].sig =
                 [version |-> pull[Mine(w)].head, exec |-> ident[j].exec, rev |-> ident[j].rev,
                  closed |-> FALSE]]
       ELSE UNCHANGED <<snap, prState>>
    /\ Goto(w, "ready")
    /\ UNCHANGED <<status, ident, owner, leased, attempts, started, asked, todo, op, conf, repo,
                   outside, held, crashes>>

(* batch_store.transition.                                                 *)
Transition(w, state) ==
    LET j == held[w] IN
    /\ Active(w)
    /\ status' = [status EXCEPT ![j] = state]
    /\ owner' = [owner EXCEPT ![j] = Nobody]
    /\ leased' = [leased EXCEPT ![j] = FALSE]
    /\ attempts' = [attempts EXCEPT ![j] = 0]
    /\ Leave(w)
    /\ UNCHANGED <<ident, started, asked, snap, op, prState, conf, repo, pull, net, remote, held, crashes>>

(* The attempt is recorded with its session before the executor is asked;  *)
(* a request that arrives after a confirmed cancellation is refused there. *)
StartSession(w) ==
    LET j == held[w] IN
    /\ pc[w] = "ready" /\ todo[j] > 0
    /\ Active(w) /\ session[j] = "none"
    /\ session' = [session EXCEPT ![j] = "live"]
    /\ UNCHANGED <<dbVars, pull, net, remote, workers, crashes>>

(* Mutant: a unit of a finished plan is executed once more.                *)
FinishUnitAgain(w) ==
    /\ pc[w] = "ready"
    /\ todo' = [todo EXCEPT ![held[w]] = @ - 1]
    /\ session' = [session EXCEPT ![held[w]] = "none"]
    /\ Transition(w, "queued")

(* One unit of the plan is done; the job goes back to the queue.           *)
FinishUnit(w) ==
    /\ pc[w] = "ready" /\ todo[held[w]] > 0
    /\ session[held[w]] = "over"
    /\ session' = [session EXCEPT ![held[w]] = "none"]
    /\ todo' = [todo EXCEPT ![held[w]] = @ - 1]
    /\ Transition(w, "queued")

(* The cost needs a confirmation, the budget is spent, maintenance began,  *)
(* or the unit failed: _process's handler for a job that is still running. *)
(* The next attempt of a unit whose session ended is a new session; one    *)
(* that may still run is taken up again.                                   *)
Pause(w) ==
    /\ pc[w] \in {"inside", "ready", "locked"}
    /\ status[held[w]] = "running"
    /\ session' = [session EXCEPT ![held[w]] = IF @ = "over" THEN "none" ELSE @]
    /\ UNCHANGED todo
    /\ Transition(w, "waiting")

-----------------------------------------------------------------------------
(***************************************************************************)
(* Publication.  issue_publication.publish takes the PR's lock, freezes    *)
(* the create row, looks for the Review among those Gitea already has, and *)
(* only then commits status publishing, the row started, and the request.  *)
(***************************************************************************)
Lock(w, findings) ==
    LET j == held[w] IN
    /\ pc[w] = "ready" /\ todo[j] = 0
    /\ VersionHolds(w) /\ Active(w)
    /\ ~PublicationLocked(Mine(w))
    /\ op' = IF findings /\ op[j] = "none" THEN [op EXCEPT ![j] = "queued"] ELSE op
    /\ Goto(w, "locked")
    /\ UNCHANGED <<status, ident, owner, leased, attempts, started, asked, todo, snap, prState, conf, repo,
                   outside, held, crashes>>

(* No Review of the job exists, none was asked for: announce the write.    *)
Mark(w) ==
    LET j == held[w] IN
    /\ pc[w] = "locked"
    /\ op[j] = "queued" /\ remote[j] = 0
    /\ VersionHolds(w) /\ Active(w)
    /\ status' = [status EXCEPT ![j] = "publishing"]
    /\ Goto(w, "marked")
    /\ UNCHANGED <<ident, owner, leased, attempts, started, asked, todo, snap, op, prState, conf, repo,
                   outside, held, crashes>>

StartOperation(w) ==
    /\ pc[w] = "marked"
    /\ op' = [op EXCEPT ![held[w]] = "started"]
    /\ Goto(w, "sending")
    /\ UNCHANGED <<status, ident, owner, leased, attempts, started, asked, todo, snap, prState, conf, repo,
                   outside, held, crashes>>

(* Mutant: a request whose response was lost is sent again.                *)
PostAgain(w) ==
    /\ pc[w] \in {"sending", "sent"}
    /\ net' = [net EXCEPT ![held[w]] = @ + 1]
    /\ Goto(w, "sent")
    /\ UNCHANGED <<dbVars, pull, remote, session, held, crashes>>

(* The client checks Active once more before it sends; the check may be    *)
(* outdated when the request leaves, so it is no guard here.               *)
Post(w) ==
    /\ pc[w] = "sending"
    /\ net' = [net EXCEPT ![held[w]] = @ + 1]
    /\ Goto(w, "sent")
    /\ UNCHANGED <<dbVars, pull, remote, session, held, crashes>>

(* The response, or the matching Review found before any write, is checked *)
(* and its receipt stored, whatever became of the job meanwhile.           *)
Receive(w) ==
    LET j == held[w] IN
    /\ \/ pc[w] = "sent"
       \/ pc[w] = "locked" /\ op[j] # "none"
    /\ remote[j] = 1
    /\ op' = [op EXCEPT ![j] = "done"]
    /\ Goto(w, "recorded")
    /\ UNCHANGED <<status, ident, owner, leased, attempts, started, asked, todo, snap, prState, conf, repo,
                   outside, held, crashes>>

(* The last version check and the reference, then the lock is released.    *)
Unlock(w) ==
    /\ \/ pc[w] = "recorded"
       \/ pc[w] = "locked" /\ op[held[w]] = "none"
    /\ VersionHolds(w) /\ Active(w)
    /\ Goto(w, "published")
    /\ UNCHANGED <<dbVars, outside, held, crashes>>

(* Mutant: finish overwrites whatever became of the row.                   *)
FinishAnyRow(w, state) ==
    /\ status' = [status EXCEPT ![held[w]] = state]
    /\ leased' = [leased EXCEPT ![held[w]] = FALSE]
    /\ Leave(w)
    /\ UNCHANGED <<ident, owner, attempts, started, asked, todo, snap, op, prState, conf, repo,
                   outside, held, crashes>>

(* Store.finish: only an executing row that is still this worker's.        *)
Finish(w, state) ==
    LET j == held[w] IN
    /\ IF owner[j] = w /\ status[j] \in Executing
       THEN /\ status' = [status EXCEPT ![j] = state]
            /\ leased' = [leased EXCEPT ![j] = FALSE]
       ELSE UNCHANGED <<status, leased>>
    /\ Leave(w)
    /\ UNCHANGED <<ident, owner, attempts, started, asked, todo, snap, op, prState, conf, repo,
                   outside, held, crashes>>

Succeed(w) == pc[w] = "published" /\ Finish(w, "succeeded")

(* Stale: the job is no longer this worker's, or the PR moved on.          *)
GoStale(w) ==
    /\ pc[w] \in Body \ {"leaving", "published"}
    /\ \/ ~Active(w)
       \/ pc[w] = "inside" /\ ~pull[Mine(w)].open
       \/ pc[w] = "inside" /\ snap[held[w]] # 0 /\ ~VersionHolds(w)
       \/ pc[w] \in {"ready", "locked", "recorded"} /\ ~VersionHolds(w)
    /\ Finish(w, IF status[held[w]] = "publishing" THEN "publish_unknown" ELSE "superseded")

(* Any other error once the write is announced, or a job whose publication *)
(* cannot be told: _finish_failure records the diagnostic first, and that  *)
(* update raises, leaving the row alone, when the job is not active.       *)
FailPublishing(w) ==
    /\ \/ pc[w] \in {"marked", "sending", "sent", "recorded"}
       \/ pc[w] = "locked" /\ op[held[w]] # "none"
    /\ IF Active(w) THEN Finish(w, "publish_unknown")
       ELSE Leave(w) /\ UNCHANGED <<dbVars, outside, held, crashes>>

(* The handler of a running job fails the same way when it is not active.  *)
FailRunning(w) ==
    /\ pc[w] \in {"inside", "ready", "locked"}
    /\ ~Active(w)
    /\ Leave(w)
    /\ UNCHANGED <<dbVars, outside, held, crashes>>

Return(w) ==
    /\ pc[w] = "leaving"
    /\ pc' = [pc EXCEPT ![w] = "idle"]
    /\ held' = [held EXCEPT ![w] = Nobody]
    /\ UNCHANGED <<dbVars, outside, crashes>>

(* Mutants: the publisher may still be at work; a row whose owner lost its *)
(* lease is left to that owner.                                            *)
SettlingUnlocked(j) == status[j] = "publish_unknown"
SettlingUnowned(j) ==
    status[j] = "publish_unknown" /\ ~PublicationLocked(ident[j].pr) /\ owner[j] = Nobody

(* Unknown publications are settled under the lock of the PR.              *)
Settling(j) == status[j] = "publish_unknown" /\ ~PublicationLocked(ident[j].pr)

(* Every read of Gitea first asks the manager's authorization service,     *)
(* which refuses a repository that is disabled or archived.  Without its   *)
(* URL the services ask nobody.                                            *)
MayRead == Guarded => repo.enabled

(***************************************************************************)
(* worker.reconcile_unknown, between two claims and under the PR's lock:   *)
(* read what Gitea has and settle the job, or leave it publish_unknown.    *)
(* A row still queued proves that nothing was sent, but it is looked at    *)
(* only after the pages of Gitea were read.                                *)
(***************************************************************************)
Reconcile(w, j) ==
    /\ pc[w] = "idle"
    /\ Settling(j) /\ MayRead
    /\ \/ op[j] = "queued" /\ status' = [status EXCEPT ![j] = "failed"] /\ UNCHANGED op
       \/ /\ op[j] \in {"started", "done"} /\ remote[j] = 1
          /\ status' = [status EXCEPT ![j] = "succeeded"]
          /\ op' = [op EXCEPT ![j] = "done"]
    /\ leased' = [leased EXCEPT ![j] = FALSE]
    /\ UNCHANGED <<ident, owner, attempts, started, asked, todo, snap, prState, conf, repo,
                   outside, workers, crashes>>

(* worker.confirm_unpublished.  The administrator vouches for net[j] = 0:  *)
(* the original request has ended.  That is taken on trust, and it is why  *)
(* reading Gitea and updating the row are one step here: no request of the *)
(* job is left that could arrive in between, and none starts under the     *)
(* lock.  Where the administrator errs, this model says nothing.           *)
ConfirmUnpublished(j) ==
    /\ Settling(j) /\ MayRead
    /\ net[j] = 0 /\ remote[j] = 0
    /\ status' = [status EXCEPT ![j] = "failed"]
    /\ leased' = [leased EXCEPT ![j] = FALSE]
    /\ UNCHANGED <<ident, owner, attempts, started, asked, todo, snap, op, prState, conf, repo,
                   outside, workers, crashes>>

-----------------------------------------------------------------------------
InBody(w) ==
    \/ Prepare(w) \/ StartSession(w) \/ FinishUnit(w) \/ Pause(w)
    \/ \E findings \in BOOLEAN : Lock(w, findings)
    \/ Mark(w) \/ StartOperation(w) \/ Post(w) \/ Receive(w) \/ Unlock(w) \/ Succeed(w)
    \/ GoStale(w) \/ FailPublishing(w) \/ FailRunning(w)

Process(w) == Enter(w) \/ InBody(w) \/ Return(w)

Poll(w) == Sweep(w) \/ \E j \in Jobs : Claim(w, j)

Operators ==
    \/ \E p \in PRs : Rerun(p)
    \/ \E enabled \in BOOLEAN : SaveConfig(enabled) \/ SaveRepo(enabled)
    \/ ArchiveRepo
    \/ \E j \in Jobs : Continue(j) \/ RequestCancel(j) \/ ConfirmUnpublished(j)

Environment ==
    \/ \E p \in PRs : Push(p) \/ OpenOrClose(p) \/ Webhook(p) \/ Scan(p)
    \/ \E j \in Jobs : LeaseLapses(j) \/ Land(j) \/ Lost(j) \/ EndSession(j)
    \/ \E w \in Workers : Crash(w)

Next ==
    \/ \E w \in Workers : Poll(w) \/ Process(w)
    \/ \E w \in Workers, j \in Jobs : Reconcile(w, j)
    \/ \E j \in Jobs : ReconcileCancel(j)
    \/ Operators \/ Environment

Spec == Init /\ [][Next]_vars

(***************************************************************************)
(* Fairness: the worker loop and process() keep running while they can,    *)
(* reconcile_unknown runs once per iteration of the loop and serves the    *)
(* due job that waited longest (so no enabled reconciliation is passed     *)
(* over for ever), the cancellation thread asks every second to abort the  *)
(* session and to confirm, the lease of a job nobody works on runs out,    *)
(* and every request ends.  This leaves out maintenance and an executor    *)
(* that stays unavailable: while they last the loop only waits.            *)
(***************************************************************************)
Fairness ==
    /\ \A w \in Workers : WF_vars(Process(w))
    /\ WF_vars(\E w \in Workers : Poll(w))
    /\ \A j \in Jobs :
         /\ SF_vars(\E w \in Workers : Reconcile(w, j))
         /\ WF_vars(ReconcileCancel(j))
         /\ WF_vars(status[j] = "cancelling" /\ EndSession(j))
         /\ WF_vars(Orphaned(j) /\ LeaseLapses(j))
         /\ WF_vars(Land(j) \/ Lost(j))

FairSpec == Spec /\ Fairness

-----------------------------------------------------------------------------
(* Every variable keeps the type its column or field has.                  *)
TypeOK ==
    /\ status \in [Jobs -> Statuses]
    /\ ident \in [Jobs -> [pr : PRs, gen : Nat, exec : Nat, rev : Nat, manual : BOOLEAN]]
    /\ owner \in [Jobs -> Workers \cup {Nobody}]
    /\ leased \in [Jobs -> BOOLEAN]
    /\ attempts \in [Jobs -> Nat]
    /\ started \in [Jobs -> BOOLEAN]
    /\ asked \in [Jobs -> BOOLEAN]
    /\ todo \in [Jobs -> Nat]
    /\ snap \in [Jobs -> Nat]
    /\ op \in [Jobs -> {"none", "queued", "started", "done"}]
    /\ prState \in [PRs -> [gen : Nat, sig : Signature]]
    /\ conf \in [enabled : BOOLEAN, exec : Nat]
    /\ repo \in [enabled : BOOLEAN, rev : Nat, archived : BOOLEAN]
    /\ pull \in [PRs -> [head : Versions, open : BOOLEAN]]
    /\ net \in [Jobs -> Nat]
    /\ remote \in [Jobs -> Nat]
    /\ session \in [Jobs -> {"none", "live", "over"}]
    /\ pc \in [Workers -> Pcs]
    /\ held \in [Workers -> Jobs \cup {Nobody}]
    /\ \A w \in Workers : pc[w] = "idle" <=> held[w] = Nobody
    /\ crashes \in Nat

(* The queue is serial: at most one job executes under a valid lease, over *)
(* all PRs and workers (store.claim and the leases it hands out).          *)
SingleExecution ==
    \A j, k \in Jobs :
        /\ status[j] \in Executing /\ leased[j]
        /\ status[k] \in Executing /\ leased[k]
        => j = k

(* Interruptions of a job are counted: claim gives it up rather than start *)
(* it once more than AttemptLimit times without any progress.              *)
BoundedInterruptions == \A j \in Jobs : attempts[j] <= AttemptLimit

(* Whatever crashes, lost replies, lease takeovers and recoveries happen,  *)
(* the create request of a job is sent at most once, so Gitea never shows  *)
(* two Reviews of one job.                                                 *)
AtMostOneReview == \A j \in Jobs : net[j] + remote[j] <= 1

(* The verdict shown to users is the truth about Gitea: a succeeded job    *)
(* has its Review (or had nothing to publish), and a job that ended any    *)
(* other way has none and can no longer get one.                           *)
VerdictTruthful ==
    \A j \in Jobs :
        /\ status[j] = "succeeded" => op[j] \in {"none", "done"} /\ (op[j] = "done" => remote[j] = 1)
        /\ status[j] \in {"failed", "superseded", "cancelled"} => net[j] = 0 /\ remote[j] = 0

(* Once a cancellation is accepted nothing of the job reaches Gitea, and   *)
(* the request is never forgotten or overwritten by the worker it stops.   *)
CancelledNeverPublishes ==
    \A j \in Jobs : asked[j] =>
        /\ net[j] = 0 /\ remote[j] = 0
        /\ status[j] \in {"cancelling", "cancelled"}

(* cancelled means stopped: no worker is still inside process() with the   *)
(* job and no session of it runs at the executor, so its workspace may be  *)
(* removed (reconcile_cancel's cleanup).                                   *)
CancelMeansStopped ==
    \A j \in Jobs : status[j] = "cancelled" => session[j] # "live" /\ ~ExecutionLocked(j)

(* While the publication of a job is unknown, no other job of its PR is    *)
(* executed: a second Review could contradict the one that may exist.      *)
NoWorkBesideUnknown ==
    \A j, k \in Jobs :
        status[j] = "publish_unknown" /\ j # k /\ SamePR(j, k) =>
            ~(status[k] \in Executing /\ leased[k])

(* A request for an older generation is never sent, and never takes        *)
(* effect, after a newer generation of the PR has begun to publish.        *)
ReviewsInOrder ==
    [][\A j \in Jobs :
         net'[j] > net[j] \/ remote'[j] > remote[j] =>
           \A k \in Jobs : SamePR(j, k) /\ ident[k].gen > ident[j].gen
                            => op[k] \notin {"started", "done"}]_vars

(* A verdict is final: no late worker, sweep, edit or cancellation changes *)
(* the status of a job that has ended.                                     *)
TerminalStable ==
    [][\A j \in Jobs : status[j] \in Terminal => status'[j] = status[j]]_vars

(* A cancellation that was accepted is eventually confirmed.               *)
CancelConfirmed == \A j \in Jobs : status[j] = "cancelling" ~> status[j] = "cancelled"

(* No job stays in an executing status for ever: its worker finishes, or   *)
(* its lease runs out and a claim gives it up.                             *)
ExecutionEnds == \A j \in Jobs : status[j] \in Executing ~> status[j] \notin Executing

(* An unknown publication that Gitea's answer can settle (the Review is    *)
(* there, or nothing was ever sent and its publisher is gone) is settled   *)
(* without an administrator, whoever owned the row and even while reviews  *)
(* are switched off in the settings, unless its repository is disabled or  *)
(* archived before that: the manager then refuses to read Gitea for it.    *)
Settleable(j) ==
    /\ status[j] = "publish_unknown"
    /\ remote[j] = 1 \/ (op[j] = "queued" /\ ~PublicationLocked(ident[j].pr))

UnknownSettles ==
    \A j \in Jobs : Settleable(j) /\ MayRead ~> status[j] # "publish_unknown" \/ ~MayRead

(***************************************************************************)
(* The queue implements the ledger of ReviewLedger: whatever workers,      *)
(* leases, crashes and edits do, the readers of a PR see jobs registered   *)
(* in the order of their generations, each with one request and one        *)
(* verdict that fits it.                                                   *)
(***************************************************************************)
Ended == {"failed", "superseded", "cancelled"}

Verdict(j) ==
    IF status[j] = "absent" THEN "absent"
    ELSE IF status[j] = "succeeded" THEN "published"
    ELSE IF status[j] \in Ended THEN "dropped"
    ELSE "open"

Sending(j) == \E w \in Workers : pc[w] = "sending" /\ held[w] = j

Request(j) ==
    IF net[j] + remote[j] > 1 THEN "repeated"
    ELSE IF remote[j] = 1 THEN "visible"
    ELSE IF net[j] = 1 THEN "sent"
    ELSE IF Sending(j) THEN "armed"
    ELSE IF op[j] \in {"started", "done"} THEN "spent"
    ELSE "unsent"

Ledger == INSTANCE ReviewLedger WITH
    verdict <- [j \in Jobs |-> Verdict(j)],
    request <- [j \in Jobs |-> Request(j)],
    pr <- [j \in Jobs |-> ident[j].pr],
    gen <- [j \in Jobs |-> ident[j].gen],
    Generations <- 1 .. MaxGen

LedgerSpec == Ledger!Spec

(***************************************************************************)
(* Two promises of the documentation that the code does not keep.          *)
(***************************************************************************)
(* "superseded" is shown as an expired version: a job is put there only    *)
(* when something newer replaced it.  A lapsed lease is an interruption    *)
(* that waits for its recovery instead.                                    *)
Replaced(j) ==
    \/ ident[j].gen # prState[ident[j].pr].gen
    \/ ident[j].exec # conf.exec \/ ~conf.enabled
    \/ ident[j].rev # repo.rev \/ ~repo.enabled
    \/ ~pull[ident[j].pr].open \/ pull[ident[j].pr].head # snap[j]

SupersededOnlyWhenReplaced ==
    [][\A j \in Jobs : status[j] # "superseded" /\ status'[j] = "superseded"
                        => Replaced(j) \/ Replaced(j)']_vars

(* A cancellation binds the code version: no automatic job of a later      *)
(* generation reviews the version whose review an operator cancelled.      *)
CancelledVersionStays ==
    \A j, k \in Jobs :
        /\ SamePR(j, k) /\ ident[j].gen < ident[k].gen
        /\ asked[j] /\ snap[j] # 0 /\ ~ident[k].manual
        => snap[k] # snap[j]
==============================================================================
