---------------------------- MODULE SvnMigration ----------------------------
(***************************************************************************)
(* Migration runs from SVN repositories into one Gitea instance            *)
(* (backend/svn_migration/worker.py, service.py, guards.py).               *)
(*                                                                         *)
(* One worker process carries out the queued runs one after another.  The  *)
(* web process creates runs, reserves their sources and targets, and       *)
(* pauses, resumes and cancels them.  A backup of the instance and a run   *)
(* exclude each other by a file lock, which a killed process loses, and by *)
(* rows of the database, which it does not.  Other people use the instance *)
(* meanwhile.  A POST without answer may still arrive, and so may a push:  *)
(* git is a child in a session of its own, which outlives a killed worker, *)
(* and a child that is killed may have sent all it had to send.            *)
(*                                                                         *)
(* An action of the worker is a check_tick followed by one call to Gitea   *)
(* and the commit that records its answer.  The contents of a converted    *)
(* repository are the name of its source.                                  *)
(***************************************************************************)
EXTENDS Naturals, Sequences, FiniteSets

CONSTANTS
    Items,        \* for each run the sequence of its [source, target]
    MaxFaults,    \* bound: crashes, stops, lost or late answers, failed calls
    MaxControls,  \* bound: requests to pause, resume, cancel; maintenance
    MaxStrangers, \* bound: changes other people make at the targets
    MaxBackups    \* bound: backups of the instance

ASSUME MigrationConstantsOK ==
    /\ MaxFaults \in Nat /\ MaxControls \in Nat /\ MaxStrangers \in Nat
    /\ MaxBackups \in Nat
    /\ Len(Items) \in Nat /\ DOMAIN Items = 1..Len(Items)
    /\ \A r \in DOMAIN Items :
         /\ Len(Items[r]) \in Nat \ {0} /\ DOMAIN Items[r] = 1..Len(Items[r])
         /\ \A i \in DOMAIN Items[r] : Items[r][i].source \notin {"none", "other"}
         /\ \A i, j \in DOMAIN Items[r] : i # j =>
              /\ Items[r][i].source # Items[r][j].source
              /\ Items[r][i].target # Items[r][j].target

Runs == DOMAIN Items
Positions(r) == DOMAIN Items[r]
TargetOf(r, i) == Items[r][i].target
Targets == UNION {{TargetOf(r, i) : i \in Positions(r)} : r \in Runs}
Keys(r) == UNION {{<<"source", Items[r][i].source>>, <<"target", TargetOf(r, i)>>}
                  : i \in Positions(r)}
AllKeys == UNION {Keys(r) : r \in Runs}
Requests == UNION {[kind : {"post", "push"}, run : {r}, pos : Positions(r)] : r \in Runs}

Live == {"queued", "running", "paused", "uncertain"}
Ended == {"partial", "failed", "cancelled"}

VARIABLES
    status,      \* svn_migration_runs.status
    control,     \* svn_migration_runs.control
    owner,       \* svn_reservations: key -> run, 0 for none
    item,        \* svn_migration_items: status, repository_intent, repository_id
    remote,      \* the repository at each target, or Nothing
    created,     \* repositories ever created at the instance
    late,        \* requests whose sender was cut off and which may still arrive
    worker,      \* the worker: step, run, position and pending exception
    lock,        \* the file lock of the instance
    backup,      \* the backups row of the instance
    maintenance, \* services.upgrade_maintenance.active()
    revived,     \* runs that a refused claim put back after their cancellation
    unseen,      \* <<run, target>> changed by others since the run last looked
    faults, controls, strangers, backups

runVars == <<status, control, owner, item, revived>>
giteaVars == <<remote, created, late, unseen>>
guardVars == <<lock, backup, backups>>
vars == <<runVars, giteaVars, guardVars, worker, maintenance,
          faults, controls, strangers>>

Nothing == [id |-> 0, by |-> 0, refs |-> "none"]
Idle == [at |-> "idle", run |-> 0, pos |-> 0, error |-> "none"]
Fault == faults < MaxFaults /\ faults' = faults + 1
Control == controls < MaxControls /\ controls' = controls + 1

Init ==
    /\ status = [r \in Runs |-> "new"] /\ control = [r \in Runs |-> "none"]
    /\ owner = [k \in AllKeys |-> 0]
    /\ item = [r \in Runs |-> [i \in Positions(r) |->
                 [status |-> "pending", intent |-> FALSE, repo |-> 0]]]
    /\ remote = [t \in Targets |-> Nothing] /\ created = 0 /\ late = {}
    /\ worker = Idle /\ lock = "free" /\ backup = "none" /\ maintenance = FALSE
    /\ revived = {} /\ unseen = {}
    /\ faults = 0 /\ controls = 0 /\ strangers = 0 /\ backups = 0

-----------------------------------------------------------------------------
(* The web process.                                                        *)

(* create_run: the run, its items and all its reservations, or nothing.    *)
CreateRun(r) ==
    /\ status[r] = "new" /\ \A k \in Keys(r) : owner[k] = 0
    /\ status' = [status EXCEPT ![r] = "queued"]
    /\ owner' = [k \in AllKeys |-> IF k \in Keys(r) THEN r ELSE owner[k]]
    /\ UNCHANGED <<control, item, revived, giteaVars, guardVars, worker,
                   maintenance, faults, controls, strangers>>

ControlRun(r) ==
    /\ Control
    /\ UNCHANGED <<item, giteaVars, guardVars, worker, maintenance, faults, strangers>>

Pause(r) ==
    /\ ControlRun(r)
    /\ \/ status[r] = "queued" /\ status' = [status EXCEPT ![r] = "paused"]
          /\ UNCHANGED control
       \/ status[r] = "running" /\ control' = [control EXCEPT ![r] = "pause"]
          /\ UNCHANGED status
    /\ UNCHANGED <<owner, revived>>

(* Mutant: the run goes on with the reservations it still has.             *)
ResumeUnreserved(r) ==
    /\ ControlRun(r)
    /\ status[r] \in Ended \cup {"paused", "uncertain"}
    /\ \A k \in Keys(r) : owner[k] \in {0, r}
    /\ revived' = revived \ {r}
    /\ status' = [status EXCEPT ![r] = "queued"]
    /\ control' = [control EXCEPT ![r] = "none"]
    /\ UNCHANGED owner

(* resume and reconcile: what the run released is reserved again.          *)
Resume(r) ==
    /\ ControlRun(r)
    /\ status[r] \in Ended \cup {"paused", "uncertain"}
    /\ \A k \in Keys(r) : owner[k] \in {0, r}
    /\ owner' = [k \in AllKeys |-> IF k \in Keys(r) THEN r ELSE owner[k]]
    /\ revived' = revived \ {r}
    /\ status' = [status EXCEPT ![r] = "queued"]
    /\ control' = [control EXCEPT ![r] = "none"]

(* release_reservations *)
Release(r) == owner' = [k \in AllKeys |-> IF owner[k] = r THEN 0 ELSE owner[k]]

Cancel(r) ==
    /\ ControlRun(r) /\ status[r] \in Live
    /\ \/ /\ status[r] = "running"
          /\ control' = [control EXCEPT ![r] = "cancel"]
          /\ UNCHANGED <<status, owner, revived>>
       \/ /\ status[r] # "running"
          /\ status' = [status EXCEPT ![r] = "cancelled"]
          /\ control' = [control EXCEPT ![r] = "none"]
          /\ Release(r) /\ revived' = revived \ {r}

Web == \E r \in Runs : CreateRun(r) \/ Pause(r) \/ Resume(r) \/ Cancel(r)

-----------------------------------------------------------------------------
(* The worker takes a run.                                                 *)

(* step: the first queued run, read without a lock.                        *)
Pick ==
    /\ worker = Idle /\ ~maintenance
    /\ \E r \in Runs :
         /\ status[r] = "queued" /\ \A q \in Runs : q < r => status[q] # "queued"
         /\ worker' = [Idle EXCEPT !.at = "picked", !.run = r]
    /\ UNCHANGED <<runVars, giteaVars, guardVars, maintenance, faults, controls, strangers>>

(* Mutant: the handler runs inside target_guard.                           *)
RaiseHolding(kind) ==
    /\ worker' = [worker EXCEPT !.at = "raised", !.error = kind]
    /\ UNCHANGED lock

(* An exception leaves target_guard before its handler runs.               *)
Raise(kind) ==
    /\ worker' = [worker EXCEPT !.at = "raised", !.error = kind]
    /\ lock' = IF lock = "worker" THEN "free" ELSE lock

(* Mutant: an interrupted backup does not keep the run out.                *)
BackupBusyRunning == backup \in {"accepted", "working"}

(* A backup that is running or whose recovery is pending.                  *)
BackupBusy == backup # "none"

(* target_guard refuses.                                                   *)
Refused ==
    /\ worker.at = "picked" /\ (lock # "free" \/ BackupBusy)
    /\ Raise("busy")
    /\ UNCHANGED <<runVars, giteaVars, backup, backups, maintenance, faults, controls, strangers>>

(* target_guard lets it in and the run is claimed, or was changed since.   *)
Claim ==
    /\ worker.at = "picked" /\ lock = "free" /\ ~BackupBusy
    /\ \/ /\ status[worker.run] = "queued"
          /\ status' = [status EXCEPT ![worker.run] = "running"]
          /\ lock' = "worker"
          /\ worker' = [worker EXCEPT !.at = "item", !.pos = 1]
       \/ /\ status[worker.run] # "queued"
          /\ worker' = Idle /\ UNCHANGED <<status, lock>>
    /\ UNCHANGED <<control, owner, item, revived, giteaVars, backup, backups,
                   maintenance, faults, controls, strangers>>

-----------------------------------------------------------------------------
(* The worker migrates the items of its run.                               *)
run == worker.run
pos == worker.pos
Entry == item[run][pos]
Target == TargetOf(run, pos)
Content(r, i) == Items[r][i].source
There == remote[Target]

Working == {"item", "look", "post", "refs", "push", "verify", "recheck", "finish"}

(* check_tick: maintenance first, then the cancellation.                   *)
Ticked == ~maintenance /\ control[run] # "cancel"

At(step) == worker.at = step /\ Ticked
Go(step) == worker' = [worker EXCEPT !.at = step] /\ UNCHANGED lock
Note(entry) == item' = [item EXCEPT ![run][pos] = entry]
StillThere(r, i) ==
    /\ remote[TargetOf(r, i)].id = item[r][i].repo /\ item[r][i].repo # 0
    /\ remote[TargetOf(r, i)].refs = Content(r, i)
Step(step) ==
    /\ At(step)
    /\ UNCHANGED <<owner, revived, backup, backups, maintenance, controls, strangers>>
OnlyHere == UNCHANGED <<status, control, giteaVars, faults>>

NextItem ==
    /\ UNCHANGED lock
    /\ worker' = IF pos < Len(Items[run]) THEN [worker EXCEPT !.at = "item", !.pos = pos + 1]
                 ELSE [worker EXCEPT !.at = "recheck", !.pos = 1]

(* Between two items a pause takes effect.                                 *)
TakePause ==
    /\ Step("item") /\ control[run] = "pause"
    /\ status' = [status EXCEPT ![run] = "paused"]
    /\ control' = [control EXCEPT ![run] = "none"]
    /\ worker' = Idle /\ lock' = "free"
    /\ UNCHANGED <<item, giteaVars, faults>>

(* migrate_item: a finished item is looked at again, any other converted.  *)
BeginItem ==
    /\ Step("item") /\ control[run] # "pause" /\ OnlyHere
    /\ \/ Entry.status = "success" /\ StillThere(run, pos) /\ NextItem /\ UNCHANGED item
       \/ Entry.status = "success" /\ ~StillThere(run, pos)
          /\ \E kind \in {"uncertain", "failed"} : Raise(kind) /\ UNCHANGED item
       \/ Entry.status # "success" /\ Note([Entry EXCEPT !.status = "running"]) /\ Go("look")

(* Mutant: a repository found after the intent was noted is taken over.    *)
OwnWorkByIntent == Entry.repo = 0 /\ Entry.intent

(* A repository with the mark of this run that the run meant to create.    *)
OwnWork == Entry.repo = 0 /\ Entry.intent /\ There.by = run

LookForRepository ==
    /\ Step("look") /\ OnlyHere
    /\ \/ There # Nothing /\ OwnWork /\ Note([Entry EXCEPT !.repo = There.id]) /\ Go("refs")
       \/ There # Nothing /\ Entry.repo = There.id /\ Go("refs") /\ UNCHANGED item
       \/ There = Nothing /\ Entry.repo = 0 /\ Note([Entry EXCEPT !.intent = TRUE]) /\ Go("post")
       \/ There = Nothing /\ Entry.repo # 0 /\ Raise("uncertain") /\ UNCHANGED item
       \/ There # Nothing /\ ~OwnWork /\ Entry.repo # There.id
          /\ Raise("uncertain") /\ UNCHANGED item

(* A repository created by a run or, for 0, by somebody else.              *)
Create(t, by, refs) ==
    /\ remote[t] = Nothing /\ created' = created + 1
    /\ remote' = [remote EXCEPT ![t] = [id |-> created + 1, by |-> by, refs |-> refs]]

(* What is being sent when the worker is cut off may have no effect or     *)
(* may still arrive, at once or much later.                                *)
Leaves(kinds) ==
    /\ UNCHANGED <<remote, created, unseen>>
    /\ \/ UNCHANGED late
       \/ worker.at \in kinds
          /\ late' = late \cup {[kind |-> worker.at, run |-> run, pos |-> pos]}

(* POST of the repository: answered, refused, or without an answer.        *)
PostRepository ==
    /\ Step("post") /\ UNCHANGED <<status, control>>
    /\ \/ /\ Create(Target, run, "none") /\ Note([Entry EXCEPT !.repo = created + 1]) /\ Go("refs")
          /\ UNCHANGED <<late, unseen, faults>>
       \/ There # Nothing /\ Raise("failed") /\ UNCHANGED <<item, giteaVars, faults>>
       \/ Fault /\ Raise("uncertain") /\ Leaves({"post"}) /\ UNCHANGED item

(* ls-remote: only an empty repository is pushed to.                       *)
ReadRefs ==
    /\ Step("refs") /\ OnlyHere /\ UNCHANGED item
    /\ \/ There # Nothing /\ There.refs = Content(run, pos) /\ Go("verify")
       \/ There # Nothing /\ There.refs = "none" /\ Go("push")
       \/ There # Nothing /\ There.refs \notin {"none", Content(run, pos)} /\ Raise("uncertain")
       \/ There = Nothing /\ Raise("failed")

(* Mutant: git push --force.                                               *)
PushForced ==
    /\ Step("push") /\ UNCHANGED <<status, control, item, created, late, unseen, faults>>
    /\ \/ /\ There # Nothing
          /\ remote' = [remote EXCEPT ![Target].refs = Content(run, pos)] /\ Go("verify")
       \/ There = Nothing /\ Raise("failed") /\ UNCHANGED remote

(* git push --atomic of refs the repository does not have.  A push cut off *)
(* is in Interrupted, Fails and Crash.                                     *)
Push ==
    /\ Step("push") /\ UNCHANGED <<status, control, item, created, late, unseen, faults>>
    /\ \/ /\ There # Nothing /\ There.refs \in {"none", Content(run, pos)}
          /\ remote' = [remote EXCEPT ![Target].refs = Content(run, pos)]
          /\ Go("verify")
       \/ There = Nothing /\ Raise("failed") /\ UNCHANGED remote
       \/ There.refs \notin {"none", Content(run, pos)} /\ Raise("uncertain") /\ UNCHANGED remote

(* Refs, clone, identity and refs once more; then the item is a success.   *)
VerifyItem ==
    /\ Step("verify") /\ OnlyHere
    /\ \/ StillThere(run, pos) /\ Note([Entry EXCEPT !.status = "success"]) /\ NextItem
       \/ ~StillThere(run, pos) /\ UNCHANGED item
          /\ \E kind \in {"uncertain", "failed"} : Raise(kind)

(* Mutant: the loop over the finished items at the end looks at nothing.   *)
RecheckNothing ==
    /\ Step("recheck") /\ UNCHANGED <<status, control, item, remote, created, late, faults>>
    /\ unseen' = unseen \ {<<run, Target>>} /\ UNCHANGED lock
    /\ worker' = IF pos < Len(Items[run]) THEN [worker EXCEPT !.pos = pos + 1]
                 ELSE [worker EXCEPT !.at = "finish"]

(* At the end of the batch every item is compared with Gitea again.        *)
Recheck ==
    /\ Step("recheck") /\ UNCHANGED <<status, control, item, remote, created, late, faults>>
    /\ \/ /\ StillThere(run, pos)
          /\ unseen' = unseen \ {<<run, Target>>} /\ UNCHANGED lock
          /\ worker' = IF pos < Len(Items[run]) THEN [worker EXCEPT !.pos = pos + 1]
                       ELSE [worker EXCEPT !.at = "finish"]
       \/ /\ ~StillThere(run, pos) /\ UNCHANGED unseen
          /\ \E kind \in {"uncertain", "failed"} : Raise(kind)

Finish ==
    /\ At("finish")
    /\ status' = [status EXCEPT ![run] = "success"]
    /\ Release(run) /\ revived' = revived \ {run}
    /\ worker' = Idle /\ lock' = "free"
    /\ UNCHANGED <<control, item, giteaVars, backup, backups, maintenance,
                   faults, controls, strangers>>

(* check_tick inside any call raises; the child that pushes is killed.     *)
Interrupted ==
    /\ worker.at \in Working /\ ~Ticked
    /\ Raise(IF maintenance THEN "maintenance" ELSE "cancelled") /\ Leaves({"push"})
    /\ UNCHANGED <<runVars, backup, backups, maintenance, faults, controls, strangers>>

(* A call fails, the source changed or the person who started the run lost *)
(* the right to; a PATCH without an answer is uncertain, and so is a push  *)
(* after which the refs are not seen; SIGTERM (STOP) raises Cancelled.     *)
Fails ==
    /\ worker.at \in Working /\ Fault
    /\ \E kind \in {"failed", "uncertain", "cancelled"} : Raise(kind)
    /\ Leaves({"push"})
    /\ UNCHANGED <<runVars, backup, backups, maintenance, controls, strangers>>

-----------------------------------------------------------------------------
(* The handler of execute.                                                 *)
SomeSuccess == \E i \in Positions(run) : item[run][i].status = "success"

EndStatus ==
    CASE worker.error = "cancelled" -> "cancelled"
      [] worker.error = "uncertain" -> "uncertain"
      [] worker.error \in {"busy", "maintenance"} -> "queued"
      [] OTHER -> IF SomeSuccess THEN "partial" ELSE "failed"

(* The status is written whatever the run has become; a busy instance puts *)
(* even a run back that was cancelled after Pick.                          *)
Handle ==
    /\ worker.at = "raised" /\ worker' = Idle
    /\ status' = [status EXCEPT ![run] = EndStatus]
    /\ control' = [control EXCEPT ![run] = "none"]
    /\ item' = IF pos > 0 /\ Entry.status # "success"
               THEN [item EXCEPT ![run][pos].status =
                       IF EndStatus = "uncertain" THEN "uncertain" ELSE "failed"]
               ELSE item
    /\ IF EndStatus \in Ended THEN Release(run) ELSE UNCHANGED owner
    /\ revived' = IF EndStatus \in Ended THEN revived \ {run}
                  ELSE IF status[run] = "cancelled" THEN revived \cup {run} ELSE revived
    /\ UNCHANGED <<giteaVars, guardVars, maintenance, faults, controls, strangers>>

(* The process is killed: the lock is gone, the rows are not, and what it  *)
(* was sending goes on without the lock.                                   *)
Crash ==
    /\ worker.at \notin {"idle", "down"} /\ Fault
    /\ worker' = [Idle EXCEPT !.at = "down"]
    /\ lock' = IF lock = "worker" THEN "free" ELSE lock
    /\ Leaves({"post", "push"})
    /\ UNCHANGED <<runVars, backup, backups, maintenance, controls, strangers>>

(* Mutant: the start of the worker looks at no run.                        *)
StartForgetful ==
    /\ worker.at = "down" /\ ~maintenance /\ worker' = Idle /\ UNCHANGED status
    /\ UNCHANGED <<control, owner, item, revived, giteaVars, guardVars, maintenance,
                   faults, controls, strangers>>

(* main: the only worker takes its lock, kills the children of the last    *)
(* one, and a run left running is uncertain.  A push of a killed child can *)
(* be complete at Gitea, which carries it out: it stays in "late".         *)
Start ==
    /\ worker.at = "down" /\ ~maintenance /\ worker' = Idle
    /\ status' = [r \in Runs |-> IF status[r] = "running" THEN "uncertain" ELSE status[r]]
    /\ UNCHANGED <<control, owner, item, revived, giteaVars, guardVars, maintenance,
                   faults, controls, strangers>>

Migrate ==
    \/ TakePause \/ BeginItem \/ LookForRepository \/ PostRepository \/ ReadRefs
    \/ Push \/ VerifyItem \/ Recheck \/ Finish
Worker == Pick \/ Refused \/ Claim \/ Migrate \/ Interrupted \/ Fails \/ Handle \/ Start

-----------------------------------------------------------------------------
(* Backups of the instance.                                                *)
Guarded ==
    UNCHANGED <<runVars, giteaVars, worker, maintenance, faults, controls, strangers>>
HalfDone == \E r \in Runs : status[r] \in {"running", "paused", "uncertain"}

(* The route creates the row under the guard and starts a thread.          *)
AcceptBackup ==
    /\ backup = "none" /\ lock = "free" /\ ~HalfDone /\ backups < MaxBackups
    /\ backup' = "accepted" /\ backups' = backups + 1 /\ UNCHANGED lock /\ Guarded

(* The thread enters the guard, is refused by a half-done run, or waits    *)
(* for the lock too long.  A refused backup keeps recovery_pending.        *)
StartBackup ==
    /\ backup = "accepted" /\ lock = "free" /\ ~HalfDone
    /\ backup' = "working" /\ lock' = "backup" /\ UNCHANGED backups /\ Guarded
RefuseBackup ==
    /\ backup = "accepted" /\ (lock # "free" \/ HalfDone)
    /\ backup' = "pending" /\ UNCHANGED <<lock, backups>> /\ Guarded
EndBackup ==
    /\ backup = "working" /\ backup' = "none" /\ lock' = "free"
    /\ UNCHANGED backups /\ Guarded

(* The web process is killed; recover_pending later settles what it left.  *)
CrashBackup ==
    /\ backup \in {"accepted", "working"} /\ Fault /\ backup' = "pending"
    /\ lock' = IF lock = "backup" THEN "free" ELSE lock
    /\ UNCHANGED <<runVars, giteaVars, worker, maintenance, backups, controls, strangers>>
RecoverBackup ==
    /\ backup = "pending" /\ backup' = "none" /\ UNCHANGED <<lock, backups>> /\ Guarded

Backup == AcceptBackup \/ StartBackup \/ RefuseBackup \/ EndBackup \/ CrashBackup \/ RecoverBackup

-----------------------------------------------------------------------------
(* Other people at Gitea, late requests, and maintenance.                  *)
Touch(t) ==
    /\ strangers < MaxStrangers /\ strangers' = strangers + 1
    /\ unseen' = unseen \cup {<<r, t>> : r \in Runs}
    /\ UNCHANGED <<runVars, late, guardVars, worker, maintenance, faults, controls>>

Stranger ==
    \E t \in Targets :
       /\ Touch(t)
       /\ \/ \E refs \in {"none", "other"} : Create(t, 0, refs)
          \/ /\ remote[t] # Nothing /\ remote[t].refs # "other" /\ UNCHANGED created
             /\ remote' = [remote EXCEPT ![t].refs = "other"]
          \/ /\ remote[t] # Nothing /\ UNCHANGED created
             /\ remote' = [remote EXCEPT ![t] = Nothing]

(* A request left behind arrives, if ever: there is no fairness for it.    *)
Arrive ==
    \E l \in late :
       /\ late' = late \ {l}
       /\ LET t == TargetOf(l.run, l.pos) IN
            \/ l.kind = "post" /\ Create(t, l.run, "none")
            \/ /\ l.kind = "push" /\ remote[t] # Nothing /\ remote[t].refs = "none"
               /\ remote' = [remote EXCEPT ![t].refs = Content(l.run, l.pos)]
               /\ UNCHANGED created
            \/ /\ (l.kind = "post") = (remote[t] # Nothing) \/ remote[t].refs # "none"
               /\ UNCHANGED <<remote, created>>
       /\ UNCHANGED <<runVars, unseen, guardVars, worker, maintenance,
                      faults, controls, strangers>>

Maintain ==
    /\ \/ ~maintenance /\ Control
       \/ maintenance /\ UNCHANGED controls
    /\ maintenance' = ~maintenance
    /\ UNCHANGED <<runVars, giteaVars, guardVars, worker, faults, strangers>>
EndMaintenance == maintenance /\ Maintain

Next == Web \/ Worker \/ Crash \/ Backup \/ Stranger \/ Arrive \/ Maintain

Spec == Init /\ [][Next]_vars

(* The worker runs and is started again after a crash, an upgrade ends.    *)
FairSpec == Spec /\ WF_vars(Worker) /\ WF_vars(EndMaintenance)

-----------------------------------------------------------------------------
(* Every variable has its type, and the worker has the lock of the         *)
(* instance exactly while it migrates (with target_guard in execute).      *)
Repository == [id : Nat \ {0}, by : {0} \cup Runs,
               refs : {"none", "other"} \cup UNION {{Content(r, i) : i \in Positions(r)} : r \in Runs}]
TypeOK ==
    /\ status \in [Runs -> Live \cup Ended \cup {"new", "success"}]
    /\ control \in [Runs -> {"none", "pause", "cancel"}]
    /\ owner \in [AllKeys -> {0} \cup Runs]
    /\ \A r \in Runs : item[r] \in [Positions(r) ->
         [status : {"pending", "running", "success", "uncertain", "failed"},
          intent : BOOLEAN, repo : 0..created]]
    /\ \A t \in Targets : remote[t] = Nothing \/ remote[t] \in Repository
    /\ late \subseteq Requests /\ unseen \subseteq Runs \X Targets
    /\ worker.at \in Working \cup {"idle", "down", "picked", "raised"}
    /\ backup \in {"none", "accepted", "working", "pending"}
    /\ lock \in {"free", "worker", "backup"} /\ (lock = "worker" <=> worker.at \in Working)

(* No two batches work on one source or one target: a live run holds every *)
(* reservation it was created with, and one that is no longer live holds   *)
(* none.  The only exceptions are the runs in "revived": the handler of a  *)
(* refused claim writes "queued" over a cancellation (execute, line 356).  *)
ReservationsFollowRuns ==
    \A r \in Runs :
       /\ status[r] \in Live /\ r \notin revived => \A k \in Keys(r) : owner[k] = r
       /\ status[r] \notin Live => \A k \in Keys(r) : owner[k] # r

(* From the moment a backup is accepted until it, or the recovery of an    *)
(* interrupted one, has ended, no run is running, nor is one waiting for   *)
(* its doubtful write to be looked at, though a kill frees the lock of     *)
(* either side.  A request left behind by a run that was cancelled or put  *)
(* back to "queued" is no obstacle to a backup and may arrive during it:   *)
(* target_guard asks for the status of the runs only.                      *)
BackupExcluded ==
    backup # "none" => \A r \in Runs : status[r] \notin {"running", "uncertain"}

(* A run takes a repository over only if it created it itself, however     *)
(* often it was interrupted between the intent, the POST and its answer.   *)
TakenOverIsOwn ==
    \A r \in Runs : \A i \in Positions(r) :
       item[r][i].repo # 0 /\ remote[TargetOf(r, i)].id = item[r][i].repo
         => remote[TargetOf(r, i)].by = r

(* Neither a step of the worker nor a push that it left behind replaces    *)
(* content: refs once in a repository stay, whoever pushed them since the  *)
(* worker looked.                                                          *)
ContentKept ==
    [][strangers' = strangers =>
         \A t \in Targets : remote[t].refs # "none" => remote'[t] = remote[t]]_vars

(* The run in hand is running and nothing may disturb its item at i: the   *)
(* worker has the lock of the instance, there is no backup, and source and *)
(* target are reserved for it (but for "revived" runs).                    *)
Entitled(i) ==
    /\ status[run] = "running" /\ lock = "worker" /\ backup = "none"
    /\ i \in Positions(run)
    /\ run \notin revived => /\ owner[<<"target", TargetOf(run, i)>>] = run
                             /\ owner[<<"source", Content(run, i)>>] = run

(* The step is the arrival of request l at target t.                       *)
Arrives(l, t) ==
    /\ t = TargetOf(l.run, l.pos)
    /\ \/ l.kind = "post" /\ remote[t] = Nothing /\ remote'[t].by = l.run
       \/ l.kind = "push" /\ remote'[t] = [remote[t] EXCEPT !.refs = Content(l.run, l.pos)]

(* What changes at a target is the work of a stranger, a step of the       *)
(* worker in an entitled run that is neither cancelled nor stopped by      *)
(* maintenance, or the request of a run that was entitled when it sent it  *)
(* and was cut off: such a request holds no lock when it arrives.          *)
WritesAreGuarded ==
    [][/\ \A l \in late' \ late : l.run = run /\ Entitled(l.pos)
       /\ strangers' = strangers =>
            \A t \in Targets : remote'[t] # remote[t] =>
               \/ \E l \in late \ late' : Arrives(l, t)
               \/ Ticked /\ \E i \in Positions(run) : t = TargetOf(run, i) /\ Entitled(i)]_vars

(* A run that succeeded left every repository as converted, unless others  *)
(* changed it after the run's last look at the end of the batch.           *)
SuccessWasSeen ==
    \A r \in Runs : status[r] = "success" =>
       \A i \in Positions(r) : StillThere(r, i) \/ <<r, TargetOf(r, i)>> \in unseen

(* A running run ends, also when its worker is killed at any step: a time  *)
(* comes when none is running.                                             *)
RunningEnds ==
    (\E r \in Runs : status[r] = "running") ~> (\A r \in Runs : status[r] # "running")
=============================================================================
