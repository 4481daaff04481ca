------------------------ MODULE SvnMigration_proofs ------------------------
(***************************************************************************)
(* Proofs about the migration runs of an instance, for any runs with any   *)
(* sources and targets, and any number of faults, requests, strangers and  *)
(* backups.  The invariant is layered:                                     *)
(*                                                                         *)
(*   Engaged       what the worker has in hand and the status of that run; *)
(*   Reserved      who holds which source and target;                      *)
(*   BackupExcluded, and TypeOK with what is known of repositories.        *)
(***************************************************************************)
EXTENDS SvnMigration, TLAPS

USE MigrationConstantsOK DEF MigrationConstantsOK

Statuses == Live \cup Ended \cup {"new", "success"}
Steps == Working \cup {"idle", "down", "picked", "raised"}
Errors == {"none", "busy", "maintenance", "cancelled", "uncertain", "failed"}
WorkerType == [at : Steps, run : {0} \cup Runs, pos : Nat, error : Errors]

(* What a run that the worker has read, and not claimed, may have become.  *)
Unclaimed == {"queued", "paused", "cancelled"}

(* A worker that migrates is at an item of a running run; an exception is  *)
(* either a refusal before the claim or about an item of a running run.    *)
Engaged ==
    /\ worker \in WorkerType
    /\ status \in [Runs -> Statuses]
    /\ worker.at \in Working =>
         worker.run \in Runs /\ worker.pos \in Positions(worker.run) /\ status[worker.run] = "running"
    /\ worker.at = "picked" =>
         worker.run \in Runs /\ worker.pos = 0 /\ status[worker.run] \in Unclaimed
    /\ worker.at = "raised" =>
         /\ worker.run \in Runs
         /\ \/ worker.pos = 0 /\ worker.error = "busy" /\ status[worker.run] \in Unclaimed
            \/ worker.pos \in Positions(worker.run) /\ status[worker.run] = "running"

(* A step inside a run: the worker goes on, or it leaves with an exception.*)
Advances ==
    /\ worker' \in WorkerType /\ worker'.run = worker.run
    /\ \/ worker'.at \in Working /\ worker'.pos \in Positions(worker.run) /\ lock' = lock
       \/ /\ worker'.at = "raised" /\ worker'.pos = worker.pos
          /\ lock' = IF lock = "worker" THEN "free" ELSE lock

InRun == BeginItem \/ LookForRepository \/ PostRepository \/ ReadRefs \/ Push \/ VerifyItem
         \/ Recheck \/ Interrupted \/ Fails

-----------------------------------------------------------------------------
(***************************************************************************)
(* The worker and the run it has in hand.                                  *)
(***************************************************************************)
LEMMA FirstPosition == \A r \in Runs : 1 \in Positions(r) /\ Positions(r) \subseteq Nat \ {0}
  BY DEF Runs, Positions

LEMMA GoAdvances ==
    ASSUME Engaged, worker.at \in Working, NEW s \in Working, Go(s)
    PROVE  Advances
  BY DEF Engaged, Go, Advances, WorkerType, Steps

LEMMA RaiseAdvances ==
    ASSUME Engaged, worker.at \in Working, NEW kind \in Errors, Raise(kind)
    PROVE  Advances
  BY DEF Engaged, Raise, Advances, WorkerType, Steps

LEMMA NextItemAdvances ==
    ASSUME Engaged, worker.at \in Working, NextItem
    PROVE  Advances
<1>1. worker \in WorkerType /\ worker.run \in Runs /\ worker.pos \in Positions(worker.run)
  BY DEF Engaged
<1>2. CASE pos < Len(Items[run])
  <2>1. pos + 1 \in Positions(worker.run) /\ pos + 1 \in Nat
    BY <1>1, <1>2 DEF Runs, Positions, run, pos
  <2>2. worker' = [worker EXCEPT !.at = "item", !.pos = pos + 1] /\ lock' = lock
    BY <1>2 DEF NextItem
  <2>3. worker' \in WorkerType /\ worker'.run = worker.run /\ worker'.at = "item" /\ worker'.pos = pos + 1
    BY <1>1, <2>1, <2>2 DEF WorkerType, Steps, Working
  <2> QED BY <2>1, <2>2, <2>3 DEF Advances, Working
<1>3. CASE ~(pos < Len(Items[run]))
  <2>1. worker' = [worker EXCEPT !.at = "recheck", !.pos = 1] /\ lock' = lock
    BY <1>3 DEF NextItem
  <2>2. worker' \in WorkerType /\ worker'.run = worker.run /\ worker'.at = "recheck" /\ worker'.pos = 1
    BY <1>1, <2>1 DEF WorkerType, Steps, Working
  <2> QED BY <1>1, <2>1, <2>2, FirstPosition DEF Advances, Working
<1> QED BY <1>2, <1>3

LEMMA RecheckAdvances ==
    ASSUME Engaged, worker.at = "recheck", Recheck
    PROVE  Advances
<1>1. worker \in WorkerType /\ worker.run \in Runs /\ worker.pos \in Positions(worker.run)
  BY DEF Engaged, Working
<1>2. CASE /\ UNCHANGED lock
           /\ worker' = IF pos < Len(Items[run]) THEN [worker EXCEPT !.pos = pos + 1]
                        ELSE [worker EXCEPT !.at = "finish"]
  <2>1. CASE pos < Len(Items[run])
    <3>1. pos + 1 \in Positions(worker.run) /\ pos + 1 \in Nat
      BY <1>1, <2>1 DEF Runs, Positions, run, pos
    <3>2. worker' = [worker EXCEPT !.pos = pos + 1]
      BY <1>2, <2>1
    <3>3. worker' \in WorkerType /\ worker'.run = worker.run /\ worker'.at = worker.at /\ worker'.pos = pos + 1
      BY <1>1, <3>1, <3>2 DEF WorkerType
    <3> QED BY <1>2, <3>1, <3>3 DEF Advances, Working
  <2>2. CASE ~(pos < Len(Items[run]))
    <3>1. worker' = [worker EXCEPT !.at = "finish"]
      BY <1>2, <2>2
    <3>2. worker' \in WorkerType /\ worker'.run = worker.run /\ worker'.at = "finish" /\ worker'.pos = worker.pos
      BY <1>1, <3>1 DEF WorkerType, Steps, Working
    <3> QED BY <1>1, <1>2, <3>2 DEF Advances, Working
  <2> QED BY <2>1, <2>2
<1>3. CASE \E kind \in {"uncertain", "failed"} : Raise(kind)
  BY <1>3, RaiseAdvances DEF Errors, Working
<1> QED BY <1>2, <1>3 DEF Recheck

(* No step inside a run changes a status, a reservation or a backup.       *)
LEMMA InRunAdvances ==
    ASSUME Engaged, InRun
    PROVE  /\ worker.at \in Working /\ Advances
           /\ UNCHANGED <<status, owner, revived, backup, backups>>
<1>1. CASE BeginItem
  <2>1. worker.at = "item" /\ worker.at \in Working
    BY <1>1 DEF BeginItem, Step, At, Working
  <2>2. NextItem \/ Go("look") \/ \E kind \in {"uncertain", "failed"} : Raise(kind)
    BY <1>1 DEF BeginItem
  <2>3. Advances
    BY <2>1, <2>2, NextItemAdvances, GoAdvances, RaiseAdvances DEF Errors, Working
  <2> QED BY <1>1, <2>1, <2>3 DEF BeginItem, Step, OnlyHere
<1>2. CASE LookForRepository
  <2>1. worker.at = "look" /\ worker.at \in Working
    BY <1>2 DEF LookForRepository, Step, At, Working
  <2>2. Go("refs") \/ Go("post") \/ Raise("uncertain")
    BY <1>2 DEF LookForRepository
  <2>3. Advances
    BY <2>1, <2>2, GoAdvances, RaiseAdvances DEF Errors, Working
  <2> QED BY <1>2, <2>1, <2>3 DEF LookForRepository, Step, OnlyHere
<1>3. CASE PostRepository
  <2>1. worker.at = "post" /\ worker.at \in Working
    BY <1>3 DEF PostRepository, Step, At, Working
  <2>2. Go("refs") \/ Raise("failed") \/ Raise("uncertain")
    BY <1>3 DEF PostRepository
  <2>3. Advances
    BY <2>1, <2>2, GoAdvances, RaiseAdvances DEF Errors, Working
  <2> QED BY <1>3, <2>1, <2>3 DEF PostRepository, Step
<1>4. CASE ReadRefs
  <2>1. worker.at = "refs" /\ worker.at \in Working
    BY <1>4 DEF ReadRefs, Step, At, Working
  <2>2. Go("verify") \/ Go("push") \/ Raise("failed") \/ Raise("uncertain")
    BY <1>4 DEF ReadRefs
  <2>3. Advances
    BY <2>1, <2>2, GoAdvances, RaiseAdvances DEF Errors, Working
  <2> QED BY <1>4, <2>1, <2>3 DEF ReadRefs, Step, OnlyHere
<1>5. CASE Push
  <2>1. worker.at = "push" /\ worker.at \in Working
    BY <1>5 DEF Push, Step, At, Working
  <2>2. Go("verify") \/ Raise("failed") \/ Raise("uncertain")
    BY <1>5 DEF Push
  <2>3. Advances
    BY <2>1, <2>2, GoAdvances, RaiseAdvances DEF Errors, Working
  <2> QED BY <1>5, <2>1, <2>3 DEF Push, Step
<1>6. CASE VerifyItem
  <2>1. worker.at = "verify" /\ worker.at \in Working
    BY <1>6 DEF VerifyItem, Step, At, Working
  <2>2. NextItem \/ \E kind \in {"uncertain", "failed"} : Raise(kind)
    BY <1>6 DEF VerifyItem
  <2>3. Advances
    BY <2>1, <2>2, NextItemAdvances, RaiseAdvances DEF Errors
  <2> QED BY <1>6, <2>1, <2>3 DEF VerifyItem, Step, OnlyHere
<1>7. CASE Recheck
  <2>1. worker.at = "recheck" /\ worker.at \in Working
    BY <1>7 DEF Recheck, Step, At, Working
  <2> QED BY <1>7, <2>1, RecheckAdvances DEF Recheck, Step
<1>8. CASE Interrupted
  <2>1. Raise("maintenance") \/ Raise("cancelled")
    BY <1>8 DEF Interrupted
  <2>2. worker.at \in Working
    BY <1>8 DEF Interrupted
  <2>3. Advances
    BY <2>1, <2>2, RaiseAdvances DEF Errors
  <2> QED BY <1>8, <2>2, <2>3 DEF Interrupted, runVars
<1>9. CASE Fails
  <2>1. worker.at \in Working
    BY <1>9 DEF Fails
  <2>2. Advances
    BY <1>9, <2>1, RaiseAdvances DEF Fails, Errors
  <2> QED BY <1>9, <2>1, <2>2 DEF Fails, runVars
<1> QED BY <1>1, <1>2, <1>3, <1>4, <1>5, <1>6, <1>7, <1>8, <1>9 DEF InRun

LEMMA IdleType == Idle \in WorkerType /\ [Idle EXCEPT !.at = "down"] \in WorkerType
                  /\ Idle.at = "idle" /\ [Idle EXCEPT !.at = "down"].at = "down"
  BY DEF Idle, WorkerType, Steps, Errors

LEMMA EndStatusType == EndStatus \in {"cancelled", "uncertain", "queued", "partial", "failed"}
  BY DEF EndStatus

(* The steps of the system, with those inside a run taken together.        *)
LEMMA StepCases ==
    ASSUME [Next]_vars
    PROVE  \/ \E r \in Runs : CreateRun(r) \/ Pause(r) \/ Resume(r) \/ Cancel(r)
           \/ Pick \/ Refused \/ Claim \/ TakePause \/ InRun \/ Finish \/ Handle
           \/ Start \/ Crash \/ Backup \/ Stranger \/ Arrive \/ Maintain \/ UNCHANGED vars
  BY DEF Next, Web, Worker, Migrate, InRun

LEMMA EngagedNext == Engaged /\ [Next]_vars => Engaged'
<1> SUFFICES ASSUME Engaged, [Next]_vars PROVE Engaged'
  OBVIOUS
<1> USE DEF Statuses, Live, Ended
<1>1. ASSUME NEW r \in Runs, CreateRun(r) PROVE Engaged'
  BY <1>1 DEF CreateRun, Engaged, Unclaimed
<1>2. ASSUME NEW r \in Runs, Pause(r) PROVE Engaged'
  BY <1>2 DEF Pause, ControlRun, Engaged, Unclaimed
<1>3. ASSUME NEW r \in Runs, Resume(r) PROVE Engaged'
  BY <1>3 DEF Resume, ControlRun, Engaged, Unclaimed
<1>4. ASSUME NEW r \in Runs, Cancel(r) PROVE Engaged'
  BY <1>4 DEF Cancel, ControlRun, Engaged, Unclaimed
<1>5. CASE Pick
  <2>1. PICK r \in Runs : status[r] = "queued" /\ worker' = [Idle EXCEPT !.at = "picked", !.run = r]
    BY <1>5 DEF Pick
  <2>2. /\ worker' \in WorkerType /\ worker'.at = "picked" /\ worker'.run = r /\ worker'.pos = 0
    BY <2>1 DEF Idle, WorkerType, Steps, Errors
  <2> QED BY <1>5, <2>1, <2>2 DEF Pick, runVars, Engaged, Unclaimed, Working
<1>6. CASE Refused
  <2>1. worker' \in WorkerType /\ worker'.at = "raised" /\ worker'.run = worker.run
        /\ worker'.pos = worker.pos /\ worker'.error = "busy"
    BY <1>6 DEF Refused, Raise, Engaged, WorkerType, Steps, Errors
  <2> QED BY <1>6, <2>1 DEF Refused, runVars, Engaged, Unclaimed, Working
<1>7. CASE Claim
  <2>1. CASE status[worker.run] = "queued" /\ status' = [status EXCEPT ![worker.run] = "running"]
             /\ worker' = [worker EXCEPT !.at = "item", !.pos = 1]
    <3>1. worker.run \in Runs
      BY <1>7 DEF Claim, Engaged
    <3>2. worker' \in WorkerType /\ worker'.at = "item" /\ worker'.run = worker.run /\ worker'.pos = 1
      BY <2>1 DEF Engaged, WorkerType, Steps, Working
    <3> QED BY <2>1, <3>1, <3>2, FirstPosition DEF Engaged, Unclaimed, Working
  <2>2. CASE worker' = Idle /\ UNCHANGED status
    BY <2>2, IdleType DEF Engaged, Working
  <2> QED BY <1>7, <2>1, <2>2 DEF Claim
<1>8. CASE TakePause
  BY <1>8, IdleType DEF TakePause, Step, Engaged, Working
<1>9. CASE InRun
  BY <1>9, InRunAdvances DEF Advances, Engaged, Working
<1>10. CASE Finish
  BY <1>10, IdleType DEF Finish, Engaged, Working
<1>11. CASE Handle
  BY <1>11, IdleType, EndStatusType DEF Handle, Engaged, Working
<1>12. CASE Start
  BY <1>12, IdleType DEF Start, Engaged, Working
<1>13. CASE Crash
  BY <1>13, IdleType DEF Crash, runVars, Engaged, Working
<1>14. CASE Backup
  BY <1>14 DEF Backup, AcceptBackup, StartBackup, RefuseBackup, EndBackup, CrashBackup, RecoverBackup,
     Guarded, runVars, Engaged
<1>15. CASE Stranger
  BY <1>15 DEF Stranger, Touch, runVars, Engaged
<1>16. CASE Arrive
  BY <1>16 DEF Arrive, runVars, Engaged
<1>17. CASE Maintain
  BY <1>17 DEF Maintain, runVars, Engaged
<1>18. CASE UNCHANGED vars
  BY <1>18 DEF vars, runVars, Engaged
<1> QED
  BY <1>1, <1>2, <1>3, <1>4, <1>5, <1>6, <1>7, <1>8, <1>9, <1>10, <1>11, <1>12, <1>13, <1>14,
     <1>15, <1>16, <1>17, <1>18, StepCases

LEMMA EngagedInit == Init => Engaged
  BY IdleType DEF Init, Engaged, Statuses, Working

LEMMA AlwaysEngaged == Spec => []Engaged
  BY EngagedInit, EngagedNext, PTL DEF Spec

-----------------------------------------------------------------------------
(***************************************************************************)
(* Reservations.                                                           *)
(***************************************************************************)
Reserved ==
    /\ owner = [k \in AllKeys |-> owner[k]]
    /\ ReservationsFollowRuns

LEMMA KeysAreKeys == \A r \in Runs : Keys(r) \subseteq AllKeys
  BY DEF AllKeys

(* A run that is or becomes live takes all its keys, none of which is      *)
(* another run's.                                                          *)
LEMMA TakesKeys ==
    ASSUME Reserved, NEW r \in Runs, status'[r] = "queued",
           \A q \in Runs : q # r => status'[q] = status[q] /\ (q \in revived <=> q \in revived'),
           owner' = [k \in AllKeys |-> IF k \in Keys(r) THEN r ELSE owner[k]],
           \A k \in Keys(r) : owner[k] \in {0, r}
    PROVE  Reserved'
<1>0. \A q \in Runs : q # 0
  BY DEF Runs
<1>1. ASSUME NEW q \in Runs, NEW k \in Keys(q), status'[q] \in Live, q \notin revived'
      PROVE  owner'[k] = q
  <2>1. k \in AllKeys
    BY KeysAreKeys
  <2>2. CASE q = r
    BY <2>1, <2>2
  <2>3. CASE q # r
    <3>1. owner[k] = q
      BY <1>1, <2>3 DEF Reserved, ReservationsFollowRuns
    <3>2. k \notin Keys(r)
      BY <1>0, <2>3, <3>1
    <3> QED BY <2>1, <3>1, <3>2
  <2> QED BY <2>2, <2>3
<1>2. ASSUME NEW q \in Runs, NEW k \in Keys(q), status'[q] \notin Live
      PROVE  owner'[k] # q
  <2>1. q # r
    BY <1>2 DEF Live
  <2>2. k \in AllKeys /\ owner[k] # q
    BY <1>2, <2>1, KeysAreKeys DEF Reserved, ReservationsFollowRuns
  <2> QED BY <2>1, <2>2
<1>3. owner' = [k \in AllKeys |-> owner'[k]]
  OBVIOUS
<1> QED BY <1>1, <1>2, <1>3 DEF Reserved, ReservationsFollowRuns

LEMMA ReservedNext == Engaged /\ Reserved /\ [Next]_vars => Reserved'
<1> SUFFICES ASSUME Engaged, Reserved, [Next]_vars PROVE Reserved'
  OBVIOUS
<1> USE KeysAreKeys DEF Live, Ended
<1>0. \A r \in Runs : r # 0
  BY DEF Runs
<1>1. ASSUME NEW r \in Runs, CreateRun(r) PROVE Reserved'
  <2>1. /\ status'[r] = "queued" /\ UNCHANGED revived
        /\ \A q \in Runs : q # r => status'[q] = status[q]
    BY <1>1 DEF CreateRun, Engaged
  <2>2. /\ owner' = [k \in AllKeys |-> IF k \in Keys(r) THEN r ELSE owner[k]]
        /\ \A k \in Keys(r) : owner[k] \in {0, r}
    BY <1>1 DEF CreateRun
  <2> QED BY <2>1, <2>2, TakesKeys
<1>2. ASSUME NEW r \in Runs, Pause(r) PROVE Reserved'
  <2>1. UNCHANGED <<owner, revived>>
    BY <1>2 DEF Pause
  <2>2. \A q \in Runs : status'[q] \in Live <=> status[q] \in Live
    BY <1>2 DEF Pause, Engaged
  <2> QED BY <2>1, <2>2 DEF Reserved, ReservationsFollowRuns
<1>3. ASSUME NEW r \in Runs, Resume(r) PROVE Reserved'
  <2>1. /\ status'[r] = "queued" /\ revived' = revived \ {r}
        /\ \A q \in Runs : q # r => status'[q] = status[q]
    BY <1>3 DEF Resume, Engaged
  <2>2. /\ owner' = [k \in AllKeys |-> IF k \in Keys(r) THEN r ELSE owner[k]]
        /\ \A k \in Keys(r) : owner[k] \in {0, r}
    BY <1>3 DEF Resume
  <2>3. \A q \in Runs : q # r => (q \in revived <=> q \in revived')
    BY <2>1
  <2> QED BY <2>1, <2>2, <2>3, TakesKeys
<1>4. ASSUME NEW r \in Runs, Cancel(r) PROVE Reserved'
  <2>1. CASE UNCHANGED <<status, owner, revived>>
    BY <2>1 DEF Reserved, ReservationsFollowRuns
  <2>2. CASE /\ status' = [status EXCEPT ![r] = "cancelled"] /\ revived' = revived \ {r}
             /\ owner' = [k \in AllKeys |-> IF owner[k] = r THEN 0 ELSE owner[k]]
    BY <1>0, <2>2 DEF Engaged, Reserved, ReservationsFollowRuns
  <2> QED BY <1>4, <2>1, <2>2 DEF Cancel, Release
<1>5. CASE Pick
  BY <1>5 DEF Pick, runVars, Reserved, ReservationsFollowRuns
<1>6. CASE Refused
  BY <1>6 DEF Refused, runVars, Reserved, ReservationsFollowRuns
<1>7. CASE Claim
  BY <1>7 DEF Claim, Engaged, Reserved, ReservationsFollowRuns
<1>8. CASE TakePause
  BY <1>8 DEF TakePause, Step, At, Working, run, Engaged, Reserved, ReservationsFollowRuns
<1>9. CASE InRun
  BY <1>9, InRunAdvances DEF Reserved, ReservationsFollowRuns
<1>10. CASE Finish
  BY <1>0, <1>10 DEF Finish, At, Working, run, Release, Engaged, Reserved, ReservationsFollowRuns
<1>11. CASE Handle
  <2>1. /\ worker.run \in Runs /\ status' = [status EXCEPT ![worker.run] = EndStatus]
        /\ status[worker.run] \in Unclaimed \cup {"running"}
    BY <1>11 DEF Handle, run, Engaged
  <2>2. CASE EndStatus \in Ended
    <3>1. /\ owner' = [k \in AllKeys |-> IF owner[k] = worker.run THEN 0 ELSE owner[k]]
          /\ revived' = revived \ {worker.run}
      BY <1>11, <2>2 DEF Handle, Release, run
    <3> QED BY <1>0, <2>1, <2>2, <3>1 DEF Engaged, Reserved, ReservationsFollowRuns
  <2>3. CASE EndStatus \notin Ended
    <3>1. /\ owner' = owner /\ EndStatus \in Live
          /\ revived' = IF status[worker.run] = "cancelled" THEN revived \cup {worker.run} ELSE revived
      BY <1>11, <2>3, EndStatusType DEF Handle, run
    <3> QED BY <2>1, <3>1 DEF Engaged, Reserved, ReservationsFollowRuns, Unclaimed
  <2> QED BY <2>2, <2>3
<1>12. CASE Start
  BY <1>12 DEF Start, Engaged, Reserved, ReservationsFollowRuns
<1>13. CASE Crash
  BY <1>13 DEF Crash, runVars, Reserved, ReservationsFollowRuns
<1>14. CASE Backup
  BY <1>14 DEF Backup, AcceptBackup, StartBackup, RefuseBackup, EndBackup, CrashBackup, RecoverBackup,
     Guarded, runVars, Reserved, ReservationsFollowRuns
<1>15. CASE Stranger
  BY <1>15 DEF Stranger, Touch, runVars, Reserved, ReservationsFollowRuns
<1>16. CASE Arrive
  BY <1>16 DEF Arrive, runVars, Reserved, ReservationsFollowRuns
<1>17. CASE Maintain
  BY <1>17 DEF Maintain, runVars, Reserved, ReservationsFollowRuns
<1>18. CASE UNCHANGED vars
  BY <1>18 DEF vars, runVars, Reserved, ReservationsFollowRuns
<1> QED
  BY <1>1, <1>2, <1>3, <1>4, <1>5, <1>6, <1>7, <1>8, <1>9, <1>10, <1>11, <1>12, <1>13, <1>14,
     <1>15, <1>16, <1>17, <1>18, StepCases

LEMMA AlwaysReserved == Spec => []Reserved
<1>1. Init => Reserved
  BY KeysAreKeys DEF Init, Reserved, ReservationsFollowRuns, Live, Runs
<1> QED BY <1>1, ReservedNext, AlwaysEngaged, PTL DEF Spec

(* No two batches work on one source or target, for any batches.           *)
THEOREM ReservationsCorrect == Spec => []ReservationsFollowRuns
<1>1. Reserved => ReservationsFollowRuns
  BY DEF Reserved
<1> QED BY <1>1, AlwaysReserved, PTL

-----------------------------------------------------------------------------
(***************************************************************************)
(* A backup and a run.                                                     *)
(***************************************************************************)
LEMMA BackupExcludedNext == Engaged /\ BackupExcluded /\ [Next]_vars => BackupExcluded'
<1> SUFFICES ASSUME Engaged, BackupExcluded, [Next]_vars PROVE BackupExcluded'
  OBVIOUS
<1>1. ASSUME NEW r \in Runs, CreateRun(r) PROVE BackupExcluded'
  BY <1>1 DEF CreateRun, guardVars, Engaged, BackupExcluded
<1>2. ASSUME NEW r \in Runs, Pause(r) PROVE BackupExcluded'
  BY <1>2 DEF Pause, ControlRun, guardVars, Engaged, BackupExcluded
<1>3. ASSUME NEW r \in Runs, Resume(r) PROVE BackupExcluded'
  BY <1>3 DEF Resume, ControlRun, guardVars, Engaged, BackupExcluded
<1>4. ASSUME NEW r \in Runs, Cancel(r) PROVE BackupExcluded'
  BY <1>4 DEF Cancel, ControlRun, guardVars, Engaged, BackupExcluded
<1>5. CASE Pick
  BY <1>5 DEF Pick, runVars, guardVars, BackupExcluded
<1>6. CASE Refused
  BY <1>6 DEF Refused, runVars, BackupExcluded
<1>7. CASE Claim
  BY <1>7 DEF Claim, BackupBusy, BackupExcluded
<1>8. CASE TakePause
  BY <1>8 DEF TakePause, Step, Engaged, BackupExcluded
<1>9. CASE InRun
  BY <1>9, InRunAdvances DEF BackupExcluded
<1>10. CASE Finish
  BY <1>10 DEF Finish, Engaged, BackupExcluded
<1>11. CASE Handle
  <2>1. EndStatus # "running" /\ (EndStatus = "uncertain" => worker.error = "uncertain")
    BY DEF EndStatus
  <2>2. EndStatus = "uncertain" => worker.run \in Runs /\ status[worker.run] = "running"
    BY <1>11, <2>1 DEF Handle, Engaged
  <2> QED BY <1>11, <2>1, <2>2 DEF Handle, run, guardVars, Engaged, BackupExcluded
<1>12. CASE Start
  BY <1>12 DEF Start, guardVars, Engaged, BackupExcluded
<1>13. CASE Crash
  BY <1>13 DEF Crash, runVars, BackupExcluded
<1>14. CASE Backup
  BY <1>14 DEF Backup, AcceptBackup, StartBackup, RefuseBackup, EndBackup, CrashBackup, RecoverBackup,
     Guarded, HalfDone, runVars, BackupExcluded
<1>15. CASE Stranger
  BY <1>15 DEF Stranger, Touch, runVars, guardVars, BackupExcluded
<1>16. CASE Arrive
  BY <1>16 DEF Arrive, runVars, guardVars, BackupExcluded
<1>17. CASE Maintain
  BY <1>17 DEF Maintain, runVars, guardVars, BackupExcluded
<1>18. CASE UNCHANGED vars
  BY <1>18 DEF vars, runVars, guardVars, BackupExcluded
<1> QED
  BY <1>1, <1>2, <1>3, <1>4, <1>5, <1>6, <1>7, <1>8, <1>9, <1>10, <1>11, <1>12, <1>13, <1>14,
     <1>15, <1>16, <1>17, <1>18, StepCases

(* From its acceptance to the end of its recovery a backup meets no run    *)
(* that is running or whose doubtful write nobody has looked at.           *)
THEOREM BackupCorrect == Spec => []BackupExcluded
<1>1. Init => BackupExcluded
  BY DEF Init, BackupExcluded
<1> QED BY <1>1, BackupExcludedNext, AlwaysEngaged, PTL DEF Spec

-----------------------------------------------------------------------------
(***************************************************************************)
(* The repositories at the targets.                                        *)
(***************************************************************************)
RemoteOK ==
    /\ remote = [t \in Targets |-> remote[t]]
    /\ \A t \in Targets : remote[t] = Nothing \/ remote[t] \in Repository
    /\ created \in Nat /\ \A t \in Targets : remote[t].id <= created
    /\ late \subseteq Requests

LEMMA RequestType ==
    /\ \A l \in Requests : l.kind \in {"post", "push"} /\ l.run \in Runs /\ l.pos \in Positions(l.run)
    /\ \A r \in Runs : \A i \in Positions(r) : \A k \in {"post", "push"} :
         [kind |-> k, run |-> r, pos |-> i] \in Requests
  BY DEF Requests

(* What the worker was sending is a request of the item it works on.       *)
LEMMA LeavesRequest ==
    ASSUME Engaged, RemoteOK, NEW kinds \in SUBSET {"post", "push"}, Leaves(kinds)
    PROVE  /\ UNCHANGED <<remote, created, unseen>> /\ late' \subseteq Requests
           /\ \A l \in late' \ late :
                worker.at \in Working /\ l.run = worker.run /\ l.pos = worker.pos
<1>1. CASE UNCHANGED late
  BY <1>1 DEF Leaves, RemoteOK
<1>2. CASE worker.at \in kinds /\ late' = late \cup {[kind |-> worker.at, run |-> run, pos |-> pos]}
  <2>1. worker.at \in Working /\ worker.run \in Runs /\ worker.pos \in Positions(worker.run)
    BY <1>2 DEF Engaged, Working
  <2>2. [kind |-> worker.at, run |-> worker.run, pos |-> worker.pos] \in Requests
    BY <1>2, <2>1, RequestType
  <2> QED BY <1>2, <2>1, <2>2 DEF Leaves, RemoteOK, run, pos
<1> QED BY <1>1, <1>2 DEF Leaves

LEMMA TargetInTargets ==
    ASSUME NEW r \in Runs, NEW i \in Positions(r)
    PROVE  TargetOf(r, i) \in Targets
  BY DEF Targets

LEMMA CreateRemote ==
    ASSUME RemoteOK, NEW t \in Targets, NEW by \in {0} \cup Runs, NEW refs \in {"none", "other"},
           Create(t, by, refs), late' \subseteq Requests
    PROVE  RemoteOK'
<1>1. [id |-> created + 1, by |-> by, refs |-> refs] \in Repository
  BY DEF Repository, RemoteOK
<1>2. /\ remote' = [remote EXCEPT ![t] = [id |-> created + 1, by |-> by, refs |-> refs]]
      /\ created' = created + 1
  BY DEF Create
<1>3. \A s \in Targets : remote'[s] = remote[s] \/ remote'[s] = [id |-> created + 1, by |-> by, refs |-> refs]
  BY <1>2 DEF RemoteOK
<1>4. \A s \in Targets : remote[s].id \in Nat
  BY DEF RemoteOK, Repository, Nothing
<1> QED BY <1>1, <1>2, <1>3, <1>4 DEF RemoteOK

(* Pushing to a repository leaves it the repository it was.                *)
LEMMA EditRemote ==
    ASSUME RemoteOK, NEW t \in Targets, remote[t] # Nothing,
           NEW refs, [id : Nat \ {0}, by : {0} \cup Runs, refs : {refs}] \subseteq Repository,
           remote' = [remote EXCEPT ![t].refs = refs],
           UNCHANGED created, late' \subseteq Requests
    PROVE  RemoteOK'
<1> DEFINE new == [remote[t] EXCEPT !.refs = refs]
<1>1. new \in Repository /\ new.id = remote[t].id
  BY DEF RemoteOK, Repository
<1>2. remote' = [remote EXCEPT ![t] = new]
  OBVIOUS
<1> HIDE DEF new
<1>3. \A s \in Targets : \/ remote'[s] = remote[s]
                         \/ remote'[s] \in Repository /\ remote'[s].id = remote[s].id
  BY <1>1, <1>2 DEF RemoteOK
<1>4. remote' = [s \in Targets |-> remote'[s]]
  BY <1>2 DEF RemoteOK
<1>5. /\ \A s \in Targets : remote'[s] = Nothing \/ remote'[s] \in Repository
      /\ \A s \in Targets : remote'[s].id <= created
  BY <1>3 DEF RemoteOK
<1> QED BY <1>4, <1>5 DEF RemoteOK

LEMMA PushRemote ==
    ASSUME RemoteOK, NEW r \in Runs, NEW i \in Positions(r), remote[TargetOf(r, i)] # Nothing,
           remote' = [remote EXCEPT ![TargetOf(r, i)].refs = Content(r, i)],
           UNCHANGED created, late' \subseteq Requests
    PROVE  RemoteOK'
<1>1. TargetOf(r, i) \in Targets
  BY TargetInTargets
<1>2. [id : Nat \ {0}, by : {0} \cup Runs, refs : {Content(r, i)}] \subseteq Repository
  BY DEF Repository
<1> QED BY <1>1, <1>2, EditRemote DEF RemoteOK

(* A step inside a run creates a repository or pushes to one, and leaves a *)
(* request behind when it is cut off.                                      *)
LEMMA InRunRemote ==
    ASSUME Engaged, RemoteOK, InRun
    PROVE  /\ \/ UNCHANGED <<remote, created>>
              \/ Create(TargetOf(worker.run, worker.pos), worker.run, "none") /\ UNCHANGED late
              \/ /\ remote[TargetOf(worker.run, worker.pos)] # Nothing
                 /\ remote[TargetOf(worker.run, worker.pos)].refs \in {"none", Content(worker.run, worker.pos)}
                 /\ remote' = [remote EXCEPT ![TargetOf(worker.run, worker.pos)].refs = Content(worker.run, worker.pos)]
                 /\ UNCHANGED <<created, late>>
           /\ late' \subseteq Requests
           /\ \A l \in late' \ late : l.run = worker.run /\ l.pos = worker.pos
<1>0. late \subseteq Requests
  BY DEF RemoteOK
<1>1. CASE BeginItem \/ LookForRepository \/ ReadRefs \/ VerifyItem \/ Recheck
  BY <1>0, <1>1 DEF BeginItem, LookForRepository, ReadRefs, VerifyItem, Recheck, OnlyHere, giteaVars
<1>2. CASE Interrupted \/ Fails
  <2>1. Leaves({"push"})
    BY <1>2 DEF Interrupted, Fails
  <2> QED BY <2>1, LeavesRequest
<1>3. CASE PostRepository
  <2>1. CASE Leaves({"post"})
    BY <2>1, LeavesRequest
  <2>2. CASE ~Leaves({"post"})
    BY <1>0, <1>3, <2>2 DEF PostRepository, giteaVars, Target, run, pos
  <2> QED BY <2>1, <2>2
<1>4. CASE Push
  BY <1>0, <1>4 DEF Push, There, Target, run, pos
<1> QED BY <1>1, <1>2, <1>3, <1>4 DEF InRun

(* What the arrival of a request does to the repositories.                 *)
Comes(l) ==
    \/ l.kind = "post" /\ Create(TargetOf(l.run, l.pos), l.run, "none")
    \/ /\ l.kind = "push" /\ remote[TargetOf(l.run, l.pos)] # Nothing
       /\ remote[TargetOf(l.run, l.pos)].refs = "none" /\ UNCHANGED created
       /\ remote' = [remote EXCEPT ![TargetOf(l.run, l.pos)].refs = Content(l.run, l.pos)]
    \/ UNCHANGED <<remote, created>>

LEMMA ArriveComes ==
    ASSUME Arrive
    PROVE  \E l \in late : late' = late \ {l} /\ Comes(l)
  BY DEF Arrive, Comes

LEMMA RemoteNext == Engaged /\ RemoteOK /\ [Next]_vars => RemoteOK'
<1> SUFFICES ASSUME Engaged, RemoteOK, [Next]_vars PROVE RemoteOK'
  OBVIOUS
<1>1. CASE \E r \in Runs : CreateRun(r) \/ Pause(r) \/ Resume(r) \/ Cancel(r)
  BY <1>1 DEF CreateRun, Pause, Resume, Cancel, ControlRun, giteaVars, RemoteOK
<1>2. CASE Pick \/ Refused \/ Claim \/ TakePause \/ Finish \/ Handle \/ Start
  BY <1>2 DEF Pick, Refused, Claim, TakePause, Finish, Handle, Start, giteaVars, RemoteOK
<1>8. CASE Crash
  BY <1>8, LeavesRequest DEF Crash, RemoteOK
<1>3. CASE InRun
  <2>1. /\ worker.run \in Runs /\ worker.pos \in Positions(worker.run)
        /\ TargetOf(worker.run, worker.pos) \in Targets /\ late' \subseteq Requests
    BY <1>3, InRunAdvances, InRunRemote, TargetInTargets DEF Engaged
  <2>2. CASE UNCHANGED <<remote, created>>
    BY <2>1, <2>2 DEF RemoteOK
  <2>4. CASE Create(TargetOf(worker.run, worker.pos), worker.run, "none")
    BY <2>1, <2>4, CreateRemote DEF RemoteOK
  <2>5. CASE /\ remote[TargetOf(worker.run, worker.pos)] # Nothing
             /\ remote' = [remote EXCEPT ![TargetOf(worker.run, worker.pos)].refs =
                             Content(worker.run, worker.pos)]
             /\ UNCHANGED created
    BY <2>1, <2>5, PushRemote
  <2> QED BY <1>3, <2>2, <2>4, <2>5, InRunRemote
<1>4. CASE Backup
  BY <1>4 DEF Backup, AcceptBackup, StartBackup, RefuseBackup, EndBackup, CrashBackup, RecoverBackup,
     Guarded, giteaVars, RemoteOK
<1>5. CASE Stranger
  <2>1. PICK t \in Targets :
          \/ \E refs \in {"none", "other"} : Create(t, 0, refs)
          \/ /\ remote[t] # Nothing /\ UNCHANGED created
             /\ remote' = [remote EXCEPT ![t].refs = "other"]
          \/ UNCHANGED created /\ remote' = [remote EXCEPT ![t] = Nothing]
    BY <1>5 DEF Stranger
  <2>2. late' = late /\ late \subseteq Requests
    BY <1>5 DEF Stranger, Touch, RemoteOK
  <2>3. CASE \E refs \in {"none", "other"} : Create(t, 0, refs)
    BY <2>2, <2>3, CreateRemote
  <2>4. CASE /\ remote[t] # Nothing /\ UNCHANGED created
             /\ remote' = [remote EXCEPT ![t].refs = "other"]
    <3>1. [id : Nat \ {0}, by : {0} \cup Runs, refs : {"other"}] \subseteq Repository
      BY DEF Repository
    <3> QED BY <2>2, <2>4, <3>1, EditRemote
  <2>5. CASE UNCHANGED created /\ remote' = [remote EXCEPT ![t] = Nothing]
    BY <2>2, <2>5 DEF RemoteOK, Nothing
  <2> QED BY <2>1, <2>3, <2>4, <2>5
<1>6. CASE Arrive
  <2>1. PICK l \in late : late' = late \ {l} /\ Comes(l)
    BY <1>6, ArriveComes
  <2>2. /\ l.run \in Runs /\ l.pos \in Positions(l.run) /\ TargetOf(l.run, l.pos) \in Targets
        /\ late' \subseteq Requests
    BY <2>1, RequestType, TargetInTargets DEF RemoteOK
  <2>3. CASE Create(TargetOf(l.run, l.pos), l.run, "none")
    BY <2>2, <2>3, CreateRemote
  <2>4. CASE UNCHANGED <<remote, created>>
    BY <2>2, <2>4 DEF RemoteOK
  <2>5. CASE /\ remote[TargetOf(l.run, l.pos)] # Nothing /\ UNCHANGED created
             /\ remote' = [remote EXCEPT ![TargetOf(l.run, l.pos)].refs = Content(l.run, l.pos)]
    BY <2>2, <2>5, PushRemote
  <2> QED BY <2>1, <2>3, <2>4, <2>5 DEF Comes
<1>7. CASE Maintain \/ UNCHANGED vars
  BY <1>7 DEF Maintain, vars, giteaVars, RemoteOK
<1> QED BY <1>1, <1>2, <1>3, <1>4, <1>5, <1>6, <1>7, <1>8, StepCases

LEMMA AlwaysRemote == Spec => []RemoteOK
<1>1. Init => RemoteOK
  BY DEF Init, RemoteOK, Nothing
<1> QED BY <1>1, RemoteNext, AlwaysEngaged, PTL DEF Spec

Counted == strangers \in Nat

LEMMA AlwaysCounted == Spec => []Counted
<1>1. Counted /\ [Next]_vars => Counted'
  <2> SUFFICES ASSUME strangers \in Nat, [Next]_vars, ~(UNCHANGED strangers) PROVE strangers' \in Nat
    BY DEF Counted
  <2>1. CASE Stranger
    BY <2>1 DEF Stranger, Touch
  <2>2. CASE InRun
    BY <2>2 DEF InRun, BeginItem, LookForRepository, PostRepository, ReadRefs, Push, VerifyItem,
       Recheck, Step, Interrupted, Fails
  <2>3. CASE \E r \in Runs : CreateRun(r) \/ Pause(r) \/ Resume(r) \/ Cancel(r)
    BY <2>3 DEF CreateRun, Pause, Resume, Cancel, ControlRun
  <2>4. CASE Pick \/ Refused \/ Claim \/ TakePause \/ Finish \/ Handle \/ Start \/ Crash
    BY <2>4 DEF Pick, Refused, Claim, TakePause, Step, Finish, Handle, Start, Crash
  <2>5. CASE Backup \/ Arrive \/ Maintain \/ UNCHANGED vars
    BY <2>5 DEF Backup, AcceptBackup, StartBackup, RefuseBackup, EndBackup, CrashBackup, RecoverBackup,
       Guarded, Arrive, Maintain, vars
  <2> QED BY <2>1, <2>2, <2>3, <2>4, <2>5, StepCases
<1>2. Init => Counted
  BY DEF Init, Counted
<1> QED BY <1>1, <1>2, PTL DEF Spec

(* A push changes no content, and no repository into another one.          *)
LEMMA PushKeeps ==
    ASSUME RemoteOK, NEW t \in Targets, NEW r \in Runs, NEW i \in Positions(r),
           remote[TargetOf(r, i)] # Nothing, remote[TargetOf(r, i)].refs \in {"none", Content(r, i)},
           remote' = [remote EXCEPT ![TargetOf(r, i)].refs = Content(r, i)]
    PROVE  /\ remote'[t].id = remote[t].id /\ remote'[t].by = remote[t].by
           /\ remote'[t] = remote[t] \/ remote[t].refs = "none"
<1>0. TargetOf(r, i) \in Targets
  BY TargetInTargets
<1>1. CASE TargetOf(r, i) = t
  <2>1. remote[t] \in Repository
    BY <1>0, <1>1 DEF RemoteOK
  <2>2. remote'[t] = [remote[t] EXCEPT !.refs = Content(r, i)]
    BY <1>0, <1>1 DEF RemoteOK
  <2>3. remote[t].refs = Content(r, i) => [remote[t] EXCEPT !.refs = Content(r, i)] = remote[t]
    BY <2>1 DEF Repository
  <2> QED BY <1>1, <2>1, <2>2, <2>3 DEF Repository
<1>2. CASE TargetOf(r, i) # t
  BY <1>0, <1>2 DEF RemoteOK
<1> QED BY <1>1, <1>2

LEMMA ContentStep ==
    Engaged /\ RemoteOK /\ Counted /\ [Next]_vars =>
      [strangers' = strangers =>
         \A t \in Targets : remote[t].refs # "none" => remote'[t] = remote[t]]_vars
<1> SUFFICES ASSUME Engaged, RemoteOK, strangers \in Nat, [Next]_vars, strangers' = strangers,
                    NEW t \in Targets, remote[t].refs # "none"
             PROVE  remote'[t] = remote[t]
  BY DEF Counted
<1>0. ASSUME NEW s \in Targets, NEW by, NEW refs, Create(s, by, refs) PROVE remote'[t] = remote[t]
  BY <1>0 DEF Create, Nothing, RemoteOK
<1>1. CASE \E r \in Runs : CreateRun(r) \/ Pause(r) \/ Resume(r) \/ Cancel(r)
  BY <1>1 DEF CreateRun, Pause, Resume, Cancel, ControlRun, giteaVars
<1>2. CASE Pick \/ Refused \/ Claim \/ TakePause \/ Finish \/ Handle \/ Start \/ Crash
  BY <1>2 DEF Pick, Refused, Claim, TakePause, Finish, Handle, Start, Crash, Leaves, giteaVars
<1>3. CASE InRun
  <2>1. /\ worker.run \in Runs /\ worker.pos \in Positions(worker.run)
        /\ TargetOf(worker.run, worker.pos) \in Targets
    BY <1>3, InRunAdvances, TargetInTargets DEF Engaged
  <2>2. CASE UNCHANGED remote
    BY <2>2
  <2>3. CASE Create(TargetOf(worker.run, worker.pos), worker.run, "none")
    BY <1>0, <2>1, <2>3
  <2>4. CASE /\ remote[TargetOf(worker.run, worker.pos)] # Nothing
             /\ remote[TargetOf(worker.run, worker.pos)].refs \in {"none", Content(worker.run, worker.pos)}
             /\ remote' = [remote EXCEPT ![TargetOf(worker.run, worker.pos)].refs =
                             Content(worker.run, worker.pos)]
    BY <2>1, <2>4, PushKeeps
  <2> QED BY <1>3, <2>2, <2>3, <2>4, InRunRemote
<1>4. CASE Backup
  BY <1>4 DEF Backup, AcceptBackup, StartBackup, RefuseBackup, EndBackup, CrashBackup, RecoverBackup,
     Guarded, giteaVars
<1>5. CASE Stranger
  BY <1>5 DEF Stranger, Touch
<1>6. CASE Arrive
  <2>1. PICK l \in late : Comes(l)
    BY <1>6, ArriveComes
  <2>2. l.run \in Runs /\ l.pos \in Positions(l.run) /\ TargetOf(l.run, l.pos) \in Targets
    BY <2>1, RequestType, TargetInTargets DEF RemoteOK
  <2>3. CASE Create(TargetOf(l.run, l.pos), l.run, "none")
    BY <1>0, <2>2, <2>3
  <2>4. CASE /\ remote[TargetOf(l.run, l.pos)] # Nothing
             /\ remote[TargetOf(l.run, l.pos)].refs = "none"
             /\ remote' = [remote EXCEPT ![TargetOf(l.run, l.pos)].refs = Content(l.run, l.pos)]
    BY <2>2, <2>4, PushKeeps
  <2> QED BY <2>1, <2>3, <2>4 DEF Comes
<1>7. CASE Maintain \/ UNCHANGED vars
  BY <1>7 DEF Maintain, vars, giteaVars
<1> QED BY <1>1, <1>2, <1>3, <1>4, <1>5, <1>6, <1>7, StepCases

(* No step of the worker and no late push replaces content, whoever else   *)
(* is at work.                                                             *)
THEOREM ContentCorrect == Spec => ContentKept
  BY ContentStep, AlwaysEngaged, AlwaysRemote, AlwaysCounted, PTL DEF Spec, ContentKept

-----------------------------------------------------------------------------
(***************************************************************************)
(* What a step may do to a repository: leave it, replace an empty one, or  *)
(* be the change of a stranger, which every run has yet to see.            *)
(***************************************************************************)
NotSeen(t) == \A r \in Runs : <<r, t>> \in unseen'

LEMMA CreatedGrows ==
    ASSUME Engaged, RemoteOK, [Next]_vars
    PROVE  created' = created \/ created' = created + 1
<1>1. CASE InRun
  BY <1>1, InRunRemote DEF Create
<1>2. CASE Stranger \/ Arrive
  BY <1>2, ArriveComes DEF Stranger, Comes, Create
<1>3. CASE \E r \in Runs : CreateRun(r) \/ Pause(r) \/ Resume(r) \/ Cancel(r)
  BY <1>3 DEF CreateRun, Pause, Resume, Cancel, ControlRun, giteaVars
<1>4. CASE Pick \/ Refused \/ Claim \/ TakePause \/ Finish \/ Handle \/ Start \/ Crash
  BY <1>4 DEF Pick, Refused, Claim, TakePause, Finish, Handle, Start, Crash, Leaves, giteaVars
<1>5. CASE Backup \/ Maintain \/ UNCHANGED vars
  BY <1>5 DEF Backup, AcceptBackup, StartBackup, RefuseBackup, EndBackup, CrashBackup,
     RecoverBackup, Guarded, Maintain, vars, giteaVars
<1> QED BY <1>1, <1>2, <1>3, <1>4, <1>5, StepCases

LEMMA RemoteSteps ==
    ASSUME Engaged, RemoteOK, [Next]_vars, NEW t \in Targets
    PROVE  /\ \/ remote'[t].id \in {0, created + 1}
              \/ remote'[t].id = remote[t].id /\ remote'[t].by = remote[t].by
           /\ remote'[t] = remote[t] \/ remote[t].refs = "none" \/ NotSeen(t)
<1>0. ASSUME NEW s \in Targets, NEW by, NEW refs, Create(s, by, refs)
      PROVE  /\ created' = created + 1
             /\ remote'[t] = remote[t] \/ (remote'[t].id = created + 1 /\ remote[t].refs = "none")
  <2>1. /\ created' = created + 1 /\ remote[s].refs = "none"
        /\ remote' = [remote EXCEPT ![s] = [id |-> created + 1, by |-> by, refs |-> refs]]
    BY <1>0 DEF Create, Nothing
  <2>2. CASE t = s
    BY <2>1, <2>2 DEF RemoteOK
  <2>3. CASE t # s
    <3> DEFINE v == [id |-> created + 1, by |-> by, refs |-> refs]
    <3>1. remote' = [remote EXCEPT ![s] = v]
      BY <2>1
    <3> HIDE DEF v
    <3>2. remote'[t] = remote[t]
      BY <2>3, <3>1 DEF RemoteOK
    <3> QED BY <2>1, <3>2
  <2> QED BY <2>1, <2>2, <2>3
<1>1. CASE UNCHANGED <<remote, created>>
  BY <1>1
<1>2. CASE InRun
  <2>1. /\ worker.run \in Runs /\ worker.pos \in Positions(worker.run)
        /\ TargetOf(worker.run, worker.pos) \in Targets
    BY <1>2, InRunAdvances, TargetInTargets DEF Engaged
  <2>2. CASE Create(TargetOf(worker.run, worker.pos), worker.run, "none")
    BY <1>0, <2>1, <2>2
  <2>3. CASE /\ remote[TargetOf(worker.run, worker.pos)] # Nothing
             /\ remote[TargetOf(worker.run, worker.pos)].refs \in {"none", Content(worker.run, worker.pos)}
             /\ remote' = [remote EXCEPT ![TargetOf(worker.run, worker.pos)].refs =
                             Content(worker.run, worker.pos)]
    BY <2>1, <2>3, PushKeeps
  <2> QED BY <1>1, <1>2, <2>2, <2>3, InRunRemote
<1>3. CASE Stranger
  <2>1. PICK s \in Targets :
          /\ unseen' = unseen \cup {<<r, s>> : r \in Runs}
          /\ \/ \E refs \in {"none", "other"} : Create(s, 0, refs)
             \/ /\ remote[s] # Nothing /\ UNCHANGED created
                /\ remote' = [remote EXCEPT ![s].refs = "other"]
             \/ UNCHANGED created /\ remote' = [remote EXCEPT ![s] = Nothing]
    BY <1>3 DEF Stranger, Touch
  <2>2. NotSeen(s)
    BY <2>1 DEF NotSeen
  <2>3. CASE \E refs \in {"none", "other"} : Create(s, 0, refs)
    BY <1>0, <2>3
  <2>4. CASE /\ remote[s] # Nothing /\ UNCHANGED created
             /\ remote' = [remote EXCEPT ![s].refs = "other"]
    BY <2>2, <2>4 DEF RemoteOK, Repository
  <2>5. CASE UNCHANGED created /\ remote' = [remote EXCEPT ![s] = Nothing]
    BY <2>2, <2>5 DEF RemoteOK, Nothing
  <2> QED BY <2>1, <2>3, <2>4, <2>5
<1>4. CASE Arrive
  <2>1. PICK l \in late : Comes(l)
    BY <1>4, ArriveComes
  <2>2. l.run \in Runs /\ l.pos \in Positions(l.run) /\ TargetOf(l.run, l.pos) \in Targets
    BY <2>1, RequestType, TargetInTargets DEF RemoteOK
  <2>3. CASE Create(TargetOf(l.run, l.pos), l.run, "none")
    BY <1>0, <2>2, <2>3
  <2>4. CASE /\ remote[TargetOf(l.run, l.pos)] # Nothing
             /\ remote[TargetOf(l.run, l.pos)].refs = "none"
             /\ remote' = [remote EXCEPT ![TargetOf(l.run, l.pos)].refs = Content(l.run, l.pos)]
    BY <2>2, <2>4, PushKeeps
  <2> QED BY <1>1, <2>1, <2>3, <2>4 DEF Comes
<1>5. CASE \E r \in Runs : CreateRun(r) \/ Pause(r) \/ Resume(r) \/ Cancel(r)
  BY <1>1, <1>5 DEF CreateRun, Pause, Resume, Cancel, ControlRun, giteaVars
<1>6. CASE Pick \/ Refused \/ Claim \/ TakePause \/ Finish \/ Handle \/ Start \/ Crash
  BY <1>1, <1>6 DEF Pick, Refused, Claim, TakePause, Finish, Handle, Start, Crash, Leaves, giteaVars
<1>7. CASE Backup \/ Maintain \/ UNCHANGED vars
  BY <1>1, <1>7 DEF Backup, AcceptBackup, StartBackup, RefuseBackup, EndBackup, CrashBackup,
     RecoverBackup, Guarded, Maintain, vars, giteaVars
<1> QED BY <1>2, <1>3, <1>4, <1>5, <1>6, <1>7, StepCases

-----------------------------------------------------------------------------
(***************************************************************************)
(* The entries of the runs.                                                *)
(***************************************************************************)
EntryType == [status : {"pending", "running", "success", "uncertain", "failed"},
              intent : BOOLEAN, repo : 0..created]
ItemOK ==
    /\ item = [r \in Runs |-> item[r]]
    /\ \A r \in Runs : item[r] \in [Positions(r) -> EntryType]

LEMMA EntryFields ==
    ASSUME created \in Nat, created' \in Nat, created <= created', NEW e \in EntryType
    PROVE  /\ e \in EntryType' /\ e.repo \in 0..created
           /\ \A s \in {"running", "success", "uncertain", "failed"} :
                /\ [e EXCEPT !.status = s] \in EntryType'
                /\ [e EXCEPT !.status = s].repo = e.repo
           /\ [e EXCEPT !.intent = TRUE] \in EntryType'
           /\ [e EXCEPT !.intent = TRUE].repo = e.repo
           /\ \A k \in 0..created' : /\ [e EXCEPT !.repo = k] \in EntryType'
                                     /\ [e EXCEPT !.repo = k].repo = k
<1>1. e \in EntryType' /\ e.repo \in 0..created
  BY DEF EntryType
<1>2. ASSUME NEW s \in {"running", "success", "uncertain", "failed"}
      PROVE  /\ [e EXCEPT !.status = s] \in EntryType'
             /\ [e EXCEPT !.status = s].repo = e.repo
  BY <1>1 DEF EntryType
<1>3. [e EXCEPT !.intent = TRUE] \in EntryType' /\ [e EXCEPT !.intent = TRUE].repo = e.repo
  BY <1>1 DEF EntryType
<1>4. ASSUME NEW k \in 0..created'
      PROVE  [e EXCEPT !.repo = k] \in EntryType' /\ [e EXCEPT !.repo = k].repo = k
  BY <1>1, <1>4 DEF EntryType
<1> QED BY <1>1, <1>2, <1>3, <1>4

LEMMA EntryUpdate ==
    ASSUME ItemOK, NEW r \in Runs, NEW i \in Positions(r), NEW e,
           item' = [item EXCEPT ![r][i] = e]
    PROVE  /\ item' = [q \in Runs |-> item'[q]]
           /\ item'[r][i] = e
           /\ \A q \in Runs : \A j \in Positions(q) :
                ~(q = r /\ j = i) => item'[q][j] = item[q][j]
           /\ \A q \in Runs : item'[q] = [j \in Positions(q) |-> item'[q][j]]
  BY DEF ItemOK

(* What a step inside a run writes into the entry it works on.             *)
Noted(r, i) ==
    \/ item' = [item EXCEPT ![r][i] = [item[r][i] EXCEPT !.status = "running"]]
    \/ item' = [item EXCEPT ![r][i] = [item[r][i] EXCEPT !.intent = TRUE]]
    \/ item' = [item EXCEPT ![r][i] = [item[r][i] EXCEPT !.status = "success"]]
    \/ /\ item' = [item EXCEPT ![r][i] = [item[r][i] EXCEPT !.repo = remote[TargetOf(r, i)].id]]
       /\ remote[TargetOf(r, i)].by = r /\ UNCHANGED remote
    \/ /\ item' = [item EXCEPT ![r][i] = [item[r][i] EXCEPT !.repo = created + 1]]
       /\ Create(TargetOf(r, i), r, "none")

LEMMA InRunItem ==
    ASSUME InRun
    PROVE  \/ UNCHANGED item
           \/ worker.at \notin {"recheck", "finish"} /\ Noted(worker.run, worker.pos)
<1>1. CASE BeginItem
  BY <1>1 DEF BeginItem, Step, At, Note, Entry, run, pos, Noted
<1>2. CASE LookForRepository
  <2>1. worker.at = "look" /\ UNCHANGED remote
    BY <1>2 DEF LookForRepository, Step, At, OnlyHere, giteaVars
  <2>2. \/ UNCHANGED item
        \/ OwnWork /\ Note([Entry EXCEPT !.repo = There.id])
        \/ Note([Entry EXCEPT !.intent = TRUE])
    BY <1>2 DEF LookForRepository
  <2> QED BY <2>1, <2>2 DEF OwnWork, Note, Entry, There, Target, run, pos, Noted
<1>3. CASE PostRepository
  <2>1. worker.at = "post"
    BY <1>3 DEF PostRepository, Step, At
  <2>2. \/ UNCHANGED item
        \/ Create(Target, run, "none") /\ Note([Entry EXCEPT !.repo = created + 1])
    BY <1>3 DEF PostRepository
  <2> QED BY <2>1, <2>2 DEF Note, Entry, Target, run, pos, Noted
<1>4. CASE ReadRefs \/ Push \/ Recheck
  BY <1>4 DEF ReadRefs, Push, Recheck
<1>5. CASE VerifyItem
  BY <1>5 DEF VerifyItem, Step, At, Note, Entry, run, pos, Noted
<1>6. CASE Interrupted \/ Fails
  BY <1>6 DEF Interrupted, Fails, runVars
<1> QED BY <1>1, <1>2, <1>3, <1>4, <1>5, <1>6 DEF InRun

LEMMA EntryWritten ==
    ASSUME ItemOK, created \in Nat, created' \in Nat, created <= created',
           NEW r \in Runs, NEW i \in Positions(r), NEW e \in EntryType',
           item' = [item EXCEPT ![r][i] = e]
    PROVE  /\ ItemOK' /\ item'[r][i].repo = e.repo
           /\ \A q \in Runs : \A j \in Positions(q) :
                ~(q = r /\ j = i) => item'[q][j].repo = item[q][j].repo
           /\ \A q \in Runs : q # r => item'[q] = item[q]
<1>1. /\ item' = [q \in Runs |-> item'[q]]
      /\ item'[r][i] = e
      /\ \A q \in Runs : \A j \in Positions(q) : ~(q = r /\ j = i) => item'[q][j] = item[q][j]
      /\ \A q \in Runs : item'[q] = [j \in Positions(q) |-> item'[q][j]]
  BY EntryUpdate
<1>2. \A q \in Runs : \A j \in Positions(q) : item[q][j] \in EntryType'
  <2> SUFFICES ASSUME NEW q \in Runs, NEW j \in Positions(q) PROVE item[q][j] \in EntryType'
    OBVIOUS
  <2>1. item[q][j] \in EntryType
    BY DEF ItemOK
  <2> QED BY <2>1, EntryFields
<1>3. \A q \in Runs : \A j \in Positions(q) : item'[q][j] \in EntryType'
  BY <1>1, <1>2
<1>4. \A q \in Runs : item'[q] \in [Positions(q) -> EntryType']
  BY <1>1, <1>3
<1>5. \A q \in Runs : q # r => item'[q] = item[q]
  BY DEF ItemOK
<1> QED BY <1>1, <1>4, <1>5 DEF ItemOK

(* What any step writes: only the run that the worker has in hand changes, *)
(* and it gets the id of a repository that it created.                     *)
LEMMA ItemSteps ==
    ASSUME Engaged, RemoteOK, ItemOK, [Next]_vars
    PROVE  /\ ItemOK'
           /\ \A r \in Runs : \A i \in Positions(r) :
                \/ item'[r][i].repo = item[r][i].repo
                \/ /\ item'[r][i].repo = remote[TargetOf(r, i)].id
                   /\ remote[TargetOf(r, i)].by = r /\ UNCHANGED remote
                \/ item'[r][i].repo = created + 1 /\ remote'[TargetOf(r, i)].by = r
           /\ \A r \in Runs :
                \/ item'[r] = item[r]
                \/ r = worker.run /\ worker.at \in (Working \ {"recheck", "finish"}) \cup {"raised"}
<1>0. created \in Nat /\ created' \in Nat /\ created <= created'
  BY CreatedGrows, RemoteNext DEF RemoteOK
<1>1. CASE UNCHANGED item
  <2>1. \A r \in Runs : item[r] \in [Positions(r) -> EntryType']
    BY <1>0, EntryFields DEF ItemOK
  <2> QED BY <1>1, <2>1 DEF ItemOK
<1>3. CASE InRun /\ ~(UNCHANGED item)
  <2> DEFINE r == worker.run
             i == worker.pos
  <2>1. /\ r \in Runs /\ i \in Positions(r) /\ TargetOf(r, i) \in Targets
        /\ worker.at \in Working \ {"recheck", "finish"} /\ Noted(r, i)
    BY <1>3, InRunAdvances, InRunItem, TargetInTargets DEF Engaged
  <2>2. item[r][i] \in EntryType /\ remote[TargetOf(r, i)].id \in 0..created
    BY <2>1 DEF ItemOK, RemoteOK, Repository, Nothing
  <2> DEFINE running == [item[r][i] EXCEPT !.status = "running"]
             intended == [item[r][i] EXCEPT !.intent = TRUE]
             success == [item[r][i] EXCEPT !.status = "success"]
             found == [item[r][i] EXCEPT !.repo = remote[TargetOf(r, i)].id]
             new == [item[r][i] EXCEPT !.repo = created + 1]
  <2>3. /\ running \in EntryType' /\ running.repo = item[r][i].repo
        /\ intended \in EntryType' /\ intended.repo = item[r][i].repo
        /\ success \in EntryType' /\ success.repo = item[r][i].repo
    BY <1>0, <2>2, EntryFields
  <2>4. found \in EntryType' /\ found.repo = remote[TargetOf(r, i)].id
    <3>1. remote[TargetOf(r, i)].id \in 0..created'
      BY <1>0, <2>2
    <3> QED BY <1>0, <2>2, <3>1, EntryFields
  <2>5. created' = created + 1 => new \in EntryType' /\ new.repo = created + 1
    <3>1. created' = created + 1 => created + 1 \in 0..created'
      BY <1>0
    <3> QED BY <1>0, <2>2, <3>1, EntryFields
  <2> HIDE DEF running, intended, success, found, new
  <2>6. CASE \/ item' = [item EXCEPT ![r][i] = running]
             \/ item' = [item EXCEPT ![r][i] = intended]
             \/ item' = [item EXCEPT ![r][i] = success]
    BY <1>0, <2>1, <2>3, <2>6, EntryWritten
  <2>7. CASE /\ item' = [item EXCEPT ![r][i] = found]
             /\ remote[TargetOf(r, i)].by = r /\ UNCHANGED remote
    <3>1. /\ ItemOK' /\ item'[r][i].repo = remote[TargetOf(r, i)].id
          /\ \A q \in Runs : \A j \in Positions(q) :
               ~(q = r /\ j = i) => item'[q][j].repo = item[q][j].repo
          /\ \A q \in Runs : q # r => item'[q] = item[q]
      <4>1. item' = [item EXCEPT ![r][i] = found] /\ found \in EntryType'
        BY <2>4, <2>7
      <4>2. /\ ItemOK' /\ item'[r][i].repo = found.repo
            /\ \A q \in Runs : \A j \in Positions(q) :
                 ~(q = r /\ j = i) => item'[q][j].repo = item[q][j].repo
            /\ \A q \in Runs : q # r => item'[q] = item[q]
        BY <1>0, <2>1, <4>1, EntryWritten
      <4> QED BY <2>4, <4>2
    <3> QED BY <2>1, <2>7, <3>1
  <2>8. CASE item' = [item EXCEPT ![r][i] = new] /\ Create(TargetOf(r, i), r, "none")
    <3>1. created' = created + 1 /\ remote'[TargetOf(r, i)].by = r
      BY <2>1, <2>8 DEF Create, RemoteOK
    <3>2. new \in EntryType' /\ new.repo = created + 1 /\ item' = [item EXCEPT ![r][i] = new]
      BY <2>5, <2>8, <3>1
    <3>3. /\ ItemOK' /\ item'[r][i].repo = new.repo
          /\ \A q \in Runs : \A j \in Positions(q) :
               ~(q = r /\ j = i) => item'[q][j].repo = item[q][j].repo
          /\ \A q \in Runs : q # r => item'[q] = item[q]
      BY <1>0, <2>1, <3>2, EntryWritten
    <3> QED BY <2>1, <3>1, <3>2, <3>3
  <2> QED BY <2>1, <2>6, <2>7, <2>8 DEF Noted, running, intended, success, found, new
<1>4. CASE Handle /\ ~(UNCHANGED item)
  <2> DEFINE r == worker.run
             i == worker.pos
             s == IF EndStatus = "uncertain" THEN "uncertain" ELSE "failed"
  <2>1. r \in Runs /\ i \in Positions(r) /\ worker.at = "raised"
    BY <1>4 DEF Handle, Engaged, pos
  <2>2. item' = [item EXCEPT ![r][i] = [item[r][i] EXCEPT !.status = s]]
    BY <1>4, <2>1 DEF Handle, run, pos, ItemOK
  <2>3. item[r][i] \in EntryType
    BY <2>1 DEF ItemOK
  <2>4. /\ [item[r][i] EXCEPT !.status = s] \in EntryType'
        /\ [item[r][i] EXCEPT !.status = s].repo = item[r][i].repo
    <3>1. s \in {"uncertain", "failed"}
      OBVIOUS
    <3> HIDE DEF s
    <3> QED BY <1>0, <2>3, <3>1, EntryFields
  <2> DEFINE e == [item[r][i] EXCEPT !.status = s]
  <2>5. item' = [item EXCEPT ![r][i] = e] /\ e \in EntryType' /\ e.repo = item[r][i].repo
    BY <2>2, <2>4
  <2> HIDE DEF e
  <2>6. /\ ItemOK' /\ item'[r][i].repo = e.repo
        /\ \A q \in Runs : \A j \in Positions(q) :
             ~(q = r /\ j = i) => item'[q][j].repo = item[q][j].repo
        /\ \A q \in Runs : q # r => item'[q] = item[q]
    BY <1>0, <2>1, <2>5, EntryWritten
  <2> QED BY <2>1, <2>5, <2>6
<1>5. CASE \E r \in Runs : CreateRun(r) \/ Pause(r) \/ Resume(r) \/ Cancel(r)
  BY <1>1, <1>5 DEF CreateRun, Pause, Resume, Cancel, ControlRun
<1>6. CASE Pick \/ Refused \/ Claim \/ TakePause \/ Finish \/ Start \/ Crash
  BY <1>1, <1>6 DEF Pick, Refused, Claim, TakePause, Finish, Start, Crash, runVars
<1>7. CASE Backup \/ Stranger \/ Arrive \/ Maintain \/ UNCHANGED vars
  BY <1>1, <1>7 DEF Backup, AcceptBackup, StartBackup, RefuseBackup, EndBackup, CrashBackup,
     RecoverBackup, Guarded, Stranger, Touch, Arrive, Maintain, vars, runVars
<1> QED BY <1>1, <1>3, <1>4, <1>5, <1>6, <1>7, StepCases

LEMMA AlwaysItems == Spec => []ItemOK
<1>1. Init => ItemOK
  BY DEF Init, ItemOK, EntryType
<1>2. Engaged /\ RemoteOK /\ ItemOK /\ [Next]_vars => ItemOK'
  BY ItemSteps
<1> QED BY <1>1, <1>2, AlwaysEngaged, AlwaysRemote, PTL DEF Spec

-----------------------------------------------------------------------------
(***************************************************************************)
(* The rest of the types.                                                  *)
(***************************************************************************)
ControlsOK ==
    /\ control \in [Runs -> {"none", "pause", "cancel"}]
    /\ owner \in [AllKeys -> {0} \cup Runs]
    /\ unseen \subseteq Runs \X Targets
LocksOK ==
    /\ backup \in {"none", "accepted", "working", "pending"}
    /\ lock \in {"free", "worker", "backup"} /\ (lock = "worker" <=> worker.at \in Working)
    /\ backup = "working" <=> lock = "backup"

LEMMA InRunControls == InRun => UNCHANGED control /\ unseen' \subseteq unseen
<1>1. CASE BeginItem \/ LookForRepository \/ ReadRefs \/ VerifyItem
  BY <1>1 DEF BeginItem, LookForRepository, ReadRefs, VerifyItem, OnlyHere, giteaVars
<1>2. CASE PostRepository \/ Push \/ Recheck
  BY <1>2 DEF PostRepository, Push, Recheck, Leaves, giteaVars
<1>3. CASE Interrupted \/ Fails
  BY <1>3 DEF Interrupted, Fails, Leaves, runVars
<1> QED BY <1>1, <1>2, <1>3 DEF InRun

LEMMA ControlsNext == Engaged /\ ControlsOK /\ [Next]_vars => ControlsOK'
<1> SUFFICES ASSUME Engaged, ControlsOK, [Next]_vars PROVE ControlsOK'
  OBVIOUS
<1>1. ASSUME NEW r \in Runs, CreateRun(r) PROVE ControlsOK'
  BY <1>1 DEF CreateRun, giteaVars, ControlsOK
<1>2. ASSUME NEW r \in Runs, Pause(r) PROVE ControlsOK'
  BY <1>2 DEF Pause, ControlRun, giteaVars, ControlsOK
<1>3. ASSUME NEW r \in Runs, Resume(r) PROVE ControlsOK'
  BY <1>3 DEF Resume, ControlRun, giteaVars, ControlsOK
<1>4. ASSUME NEW r \in Runs, Cancel(r) PROVE ControlsOK'
  BY <1>4 DEF Cancel, ControlRun, Release, giteaVars, ControlsOK
<1>5. CASE Pick \/ Refused \/ Claim \/ TakePause \/ Finish \/ Handle \/ Start \/ Crash
  BY <1>5 DEF Pick, Refused, Claim, TakePause, Step, Finish, Handle, Release, Start, Crash,
     Leaves, runVars, giteaVars, ControlsOK
<1>6. CASE InRun
  BY <1>6, InRunAdvances, InRunControls DEF ControlsOK
<1>7. CASE Stranger
  BY <1>7 DEF Stranger, Touch, runVars, ControlsOK
<1>8. CASE Backup \/ Arrive \/ Maintain \/ UNCHANGED vars
  BY <1>8 DEF Backup, AcceptBackup, StartBackup, RefuseBackup, EndBackup, CrashBackup,
     RecoverBackup, Guarded, Arrive, Maintain, vars, runVars, giteaVars, ControlsOK
<1> QED BY <1>1, <1>2, <1>3, <1>4, <1>5, <1>6, <1>7, <1>8, StepCases

LEMMA LocksNext == Engaged /\ LocksOK /\ [Next]_vars => LocksOK'
<1> SUFFICES ASSUME Engaged, LocksOK, [Next]_vars PROVE LocksOK'
  OBVIOUS
<1>1. CASE \E r \in Runs : CreateRun(r) \/ Pause(r) \/ Resume(r) \/ Cancel(r)
  BY <1>1 DEF CreateRun, Pause, Resume, Cancel, ControlRun, guardVars, LocksOK
<1>2. CASE Pick
  <2>1. worker.at = "idle" /\ worker'.at = "picked" /\ UNCHANGED <<lock, backup>>
    BY <1>2 DEF Pick, Idle, guardVars
  <2> QED BY <2>1 DEF Working, LocksOK
<1>3. CASE Refused
  BY <1>3 DEF Refused, Raise, Engaged, WorkerType, Working, LocksOK
<1>4. CASE Claim
  <2>1. worker.at = "picked" /\ lock = "free" /\ UNCHANGED backup
    BY <1>4 DEF Claim
  <2>2. \/ worker'.at = "item" /\ lock' = "worker"
        \/ worker'.at = "idle" /\ lock' = "free"
    <3>1. CASE worker' = [worker EXCEPT !.at = "item", !.pos = 1] /\ lock' = "worker"
      BY <3>1 DEF Engaged, WorkerType
    <3>2. CASE worker' = Idle /\ UNCHANGED lock
      BY <1>4, <3>2, IdleType DEF Claim
    <3> QED BY <1>4, <3>1, <3>2 DEF Claim
  <2> QED BY <2>1, <2>2 DEF Working, LocksOK
<1>5. CASE TakePause
  <2>1. worker.at = "item" /\ worker' = Idle /\ lock' = "free" /\ UNCHANGED backup
    BY <1>5 DEF TakePause, Step, At
  <2> QED BY <2>1, IdleType DEF Working, LocksOK
<1>6. CASE InRun
  BY <1>6, InRunAdvances DEF Advances, Working, LocksOK
<1>7. CASE Finish
  <2>1. worker.at = "finish" /\ worker' = Idle /\ lock' = "free" /\ UNCHANGED backup
    BY <1>7 DEF Finish, At
  <2> QED BY <2>1, IdleType DEF Working, LocksOK
<1>8. CASE Handle
  BY <1>8 DEF Handle, Idle, Working, guardVars, LocksOK
<1>9. CASE Start
  BY <1>9 DEF Start, Idle, Working, guardVars, LocksOK
<1>10. CASE Crash
  BY <1>10 DEF Crash, Idle, Working, LocksOK
<1>11. CASE Backup
  <2>1. UNCHANGED worker
    BY <1>11 DEF Backup, AcceptBackup, StartBackup, RefuseBackup, EndBackup, CrashBackup, RecoverBackup,
       Guarded
  <2>2. \/ backup' \in {"none", "accepted", "pending"} /\ backup # "working" /\ UNCHANGED lock
        \/ backup' = "working" /\ lock = "free" /\ lock' = "backup"
        \/ backup = "working" /\ backup' = "none" /\ lock' = "free"
        \/ backup' = "pending" /\ lock' = IF lock = "backup" THEN "free" ELSE lock
    BY <1>11 DEF Backup, AcceptBackup, StartBackup, RefuseBackup, EndBackup, CrashBackup, RecoverBackup
  <2> QED BY <2>1, <2>2 DEF LocksOK, Working
<1>12. CASE Stranger \/ Arrive \/ Maintain \/ UNCHANGED vars
  BY <1>12 DEF Stranger, Touch, Arrive, Maintain, vars, guardVars, LocksOK
<1> QED
  BY <1>1, <1>2, <1>3, <1>4, <1>5, <1>6, <1>7, <1>8, <1>9, <1>10, <1>11, <1>12, StepCases

LEMMA AlwaysControlled == Spec => [](ControlsOK /\ LocksOK)
<1>1. Init => ControlsOK /\ LocksOK
  BY DEF Init, ControlsOK, LocksOK, Idle, Working
<1>2. Engaged /\ ControlsOK /\ LocksOK /\ [Next]_vars => (ControlsOK /\ LocksOK)'
  BY ControlsNext, LocksNext
<1> QED BY <1>1, <1>2, AlwaysEngaged, PTL DEF Spec

(* Every variable has its type, and the worker has the lock of the         *)
(* instance exactly while it migrates.                                     *)
THEOREM TypeCorrect == Spec => []TypeOK
<1>1. Engaged /\ RemoteOK /\ ItemOK /\ ControlsOK /\ LocksOK => TypeOK
  <2> SUFFICES ASSUME Engaged, RemoteOK, ItemOK, ControlsOK, LocksOK PROVE TypeOK
    OBVIOUS
  <2>1. worker.at \in Working \cup {"idle", "down", "picked", "raised"}
    BY DEF Engaged, WorkerType, Steps
  <2>2. /\ status \in [Runs -> Live \cup Ended \cup {"new", "success"}]
        /\ late \subseteq Requests
        /\ \A t \in Targets : remote[t] = Nothing \/ remote[t] \in Repository
    BY DEF Engaged, Statuses, RemoteOK
  <2>3. \A r \in Runs : item[r] \in [Positions(r) ->
         [status : {"pending", "running", "success", "uncertain", "failed"},
          intent : BOOLEAN, repo : 0..created]]
    BY DEF ItemOK, EntryType
  <2> QED BY <2>1, <2>2, <2>3 DEF ControlsOK, LocksOK, TypeOK
<1> QED BY <1>1, AlwaysEngaged, AlwaysRemote, AlwaysItems, AlwaysControlled, PTL

-----------------------------------------------------------------------------
(***************************************************************************)
(* A repository that a run has taken for its own.                          *)
(***************************************************************************)
LEMMA TakenOverNext ==
    Engaged /\ RemoteOK /\ ItemOK /\ TakenOverIsOwn /\ [Next]_vars => TakenOverIsOwn'
<1> SUFFICES ASSUME Engaged, RemoteOK, ItemOK, TakenOverIsOwn, [Next]_vars,
                    NEW r \in Runs, NEW i \in Positions(r),
                    item'[r][i].repo # 0, remote'[TargetOf(r, i)].id = item'[r][i].repo
             PROVE  remote'[TargetOf(r, i)].by = r
  BY DEF TakenOverIsOwn
<1>1. TargetOf(r, i) \in Targets /\ created \in Nat
  BY TargetInTargets DEF RemoteOK
<1>2. item[r][i].repo \in 0..created
  BY DEF ItemOK, EntryType
<1>3. CASE item'[r][i].repo = item[r][i].repo
  <2>1. /\ remote'[TargetOf(r, i)].id = remote[TargetOf(r, i)].id
        /\ remote'[TargetOf(r, i)].by = remote[TargetOf(r, i)].by
    BY <1>1, <1>2, <1>3, RemoteSteps
  <2> QED BY <1>3, <2>1 DEF TakenOverIsOwn
<1>4. CASE remote[TargetOf(r, i)].by = r /\ UNCHANGED remote
  BY <1>4
<1>5. CASE remote'[TargetOf(r, i)].by = r
  BY <1>5
<1> QED BY <1>3, <1>4, <1>5, ItemSteps

(* A run takes over only what it created itself, however often it was      *)
(* interrupted, for any targets that runs share.                           *)
THEOREM TakenOverCorrect == Spec => []TakenOverIsOwn
<1>1. Init => TakenOverIsOwn
  BY DEF Init, TakenOverIsOwn
<1> QED BY <1>1, TakenOverNext, AlwaysEngaged, AlwaysRemote, AlwaysItems, PTL DEF Spec

-----------------------------------------------------------------------------
(***************************************************************************)
(* What a run has looked at stays as it was, or a stranger has changed it. *)
(***************************************************************************)
Looked(r, i) == StillThere(r, i) \/ <<r, TargetOf(r, i)>> \in unseen
LookedBy(i) == worker.at = "finish" \/ (worker.at = "recheck" /\ i < worker.pos)
LookedAtAll ==
    /\ SuccessWasSeen
    /\ \A r \in Runs : worker.run = r =>
         \A i \in Positions(r) : LookedBy(i) => Looked(r, i)

(* Only the look at a repository itself takes it off the list.             *)
LEMMA UnseenSteps ==
    ASSUME Engaged, [Next]_vars, NEW r \in Runs, NEW i \in Positions(r),
           <<r, TargetOf(r, i)>> \in unseen
    PROVE  \/ <<r, TargetOf(r, i)>> \in unseen'
           \/ StillThere(r, i) /\ UNCHANGED <<item, remote>>
<1>1. CASE unseen \subseteq unseen'
  BY <1>1
<1>2. CASE Recheck
  <2>1. worker.run \in Runs /\ worker.pos \in Positions(worker.run) /\ UNCHANGED <<item, remote>>
    BY <1>2 DEF Recheck, Step, At, Engaged, Working
  <2>2. CASE UNCHANGED unseen
    BY <2>2
  <2>3. CASE /\ StillThere(worker.run, worker.pos)
             /\ unseen' = unseen \ {<<worker.run, TargetOf(worker.run, worker.pos)>>}
    <3>1. CASE r = worker.run /\ i = worker.pos
      BY <2>1, <2>3, <3>1
    <3>2. CASE ~(r = worker.run /\ i = worker.pos)
      <4>1. <<r, TargetOf(r, i)>> # <<worker.run, TargetOf(worker.run, worker.pos)>>
        BY <2>1, <3>2 DEF Runs, Positions, TargetOf
      <4> QED BY <2>3, <4>1
    <3> QED BY <3>1, <3>2
  <2> QED BY <1>2, <2>2, <2>3 DEF Recheck, Target, run, pos
<1>3. CASE Stranger
  BY <1>1, <1>3 DEF Stranger, Touch
<1>4. CASE InRun /\ ~Recheck
  BY <1>1, <1>4 DEF InRun, BeginItem, LookForRepository, ReadRefs, VerifyItem, OnlyHere, PostRepository,
     Push, Interrupted, Fails, Leaves, giteaVars
<1>5. CASE \E q \in Runs : CreateRun(q) \/ Pause(q) \/ Resume(q) \/ Cancel(q)
  BY <1>1, <1>5 DEF CreateRun, Pause, Resume, Cancel, ControlRun, giteaVars
<1>6. CASE Pick \/ Refused \/ Claim \/ TakePause \/ Finish \/ Handle \/ Start \/ Crash
  BY <1>1, <1>6 DEF Pick, Refused, Claim, TakePause, Finish, Handle, Start, Crash, Leaves, giteaVars
<1>7. CASE Backup \/ Arrive \/ Maintain \/ UNCHANGED vars
  BY <1>1, <1>7 DEF Backup, AcceptBackup, StartBackup, RefuseBackup, EndBackup, CrashBackup,
     RecoverBackup, Guarded, Arrive, Maintain, vars, giteaVars
<1> QED BY <1>2, <1>3, <1>4, <1>5, <1>6, <1>7, StepCases

LEMMA LookedKept ==
    ASSUME Engaged, RemoteOK, ItemOK, [Next]_vars, NEW r \in Runs, NEW i \in Positions(r),
           Looked(r, i), item'[r] = item[r]
    PROVE  Looked(r, i)'
<1>1. TargetOf(r, i) \in Targets /\ Content(r, i) # "none"
  BY TargetInTargets DEF Content, Runs, Positions
<1>2. CASE <<r, TargetOf(r, i)>> \in unseen
  BY <1>2, UnseenSteps DEF Looked, StillThere
<1>3. CASE StillThere(r, i)
  <2>1. remote'[TargetOf(r, i)] = remote[TargetOf(r, i)] \/ <<r, TargetOf(r, i)>> \in unseen'
    BY <1>1, <1>3, RemoteSteps DEF StillThere, NotSeen
  <2> QED BY <1>3, <2>1 DEF Looked, StillThere
<1> QED BY <1>2, <1>3 DEF Looked

LEMMA SuccessOnlyAtFinish ==
    ASSUME Engaged, [Next]_vars, NEW r \in Runs, status'[r] = "success", status[r] # "success"
    PROVE  Finish /\ r = worker.run
<1>1. CASE Finish
  BY <1>1 DEF Finish, run, Engaged
<1>2. CASE \E q \in Runs : CreateRun(q) \/ Pause(q) \/ Resume(q) \/ Cancel(q)
  BY <1>2 DEF CreateRun, Pause, Resume, Cancel, ControlRun, Engaged
<1>3. CASE Pick \/ Refused \/ Claim \/ TakePause \/ Start \/ Crash
  BY <1>3 DEF Pick, Refused, Claim, TakePause, Start, Crash, runVars, Engaged
<1>4. CASE Handle
  BY <1>4, EndStatusType DEF Handle, Engaged
<1>5. CASE InRun
  BY <1>5, InRunAdvances
<1>6. CASE Backup \/ Stranger \/ Arrive \/ Maintain \/ UNCHANGED vars
  BY <1>6 DEF Backup, AcceptBackup, StartBackup, RefuseBackup, EndBackup, CrashBackup,
     RecoverBackup, Guarded, Stranger, Touch, Arrive, Maintain, vars, runVars
<1> QED BY <1>1, <1>2, <1>3, <1>4, <1>5, <1>6, StepCases

(* How the worker comes to the look at the end of the batch, and on in it. *)
LooksOn ==
    /\ worker.at = "recheck" /\ worker'.run = worker.run
    /\ StillThere(worker.run, worker.pos) /\ UNCHANGED <<item, remote>>
    /\ \/ worker'.at = "recheck" /\ worker'.pos = worker.pos + 1
       \/ worker'.at = "finish" /\ ~(worker.pos < Len(Items[worker.run]))

LEMMA RecheckSteps ==
    ASSUME Engaged, [Next]_vars, worker'.at \in {"recheck", "finish"}
    PROVE  \/ worker' = worker
           \/ worker'.at = "recheck" /\ worker'.pos = 1
           \/ LooksOn
<1>0. worker \in WorkerType
  BY DEF Engaged
<1>1. CASE \E q \in Runs : CreateRun(q) \/ Pause(q) \/ Resume(q) \/ Cancel(q)
  BY <1>1 DEF CreateRun, Pause, Resume, Cancel, ControlRun
<1>2. CASE Pick \/ Claim \/ TakePause \/ Finish \/ Handle \/ Start \/ Crash
  <2>1. worker' = Idle \/ worker'.at \in {"picked", "item", "down"}
    BY <1>0, <1>2 DEF Pick, Claim, TakePause, Finish, Handle, Start, Crash, Idle, WorkerType
  <2> QED BY <2>1, IdleType
<1>3. ASSUME NEW kind, Raise(kind) PROVE FALSE
  BY <1>0, <1>3 DEF Raise, WorkerType
<1>4. ASSUME NEW s \in {"look", "post", "refs", "push", "verify"}, Go(s) PROVE FALSE
  BY <1>0, <1>4 DEF Go, WorkerType
<1>5. ASSUME NextItem PROVE worker'.at = "recheck" /\ worker'.pos = 1
  BY <1>0, <1>5 DEF NextItem, WorkerType
<1>6. CASE Refused
  BY <1>3, <1>6 DEF Refused
<1>7. CASE BeginItem
  <2>1. NextItem \/ Go("look") \/ \E kind \in {"uncertain", "failed"} : Raise(kind)
    BY <1>7 DEF BeginItem
  <2> QED BY <1>3, <1>4, <1>5, <2>1
<1>8. CASE LookForRepository
  BY <1>3, <1>4, <1>8 DEF LookForRepository
<1>9. CASE PostRepository
  BY <1>3, <1>4, <1>9 DEF PostRepository
<1>10. CASE ReadRefs
  BY <1>3, <1>4, <1>10 DEF ReadRefs
<1>11. CASE Push
  BY <1>3, <1>4, <1>11 DEF Push
<1>12. CASE VerifyItem
  <2>1. NextItem \/ \E kind \in {"uncertain", "failed"} : Raise(kind)
    BY <1>12 DEF VerifyItem
  <2> QED BY <1>3, <1>5, <2>1
<1>13. CASE Recheck
  <2>1. worker.at = "recheck" /\ UNCHANGED <<item, remote>>
    BY <1>13 DEF Recheck, Step, At
  <2>2. /\ StillThere(worker.run, worker.pos)
        /\ worker' = IF pos < Len(Items[run]) THEN [worker EXCEPT !.pos = pos + 1]
                     ELSE [worker EXCEPT !.at = "finish"]
    BY <1>3, <1>13 DEF Recheck, run, pos
  <2> QED BY <1>0, <2>1, <2>2 DEF LooksOn, WorkerType, run, pos
<1>14. CASE Interrupted \/ Fails
  BY <1>3, <1>14 DEF Interrupted, Fails
<1>15. CASE Backup \/ Stranger \/ Arrive \/ Maintain \/ UNCHANGED vars
  BY <1>15 DEF Backup, AcceptBackup, StartBackup, RefuseBackup, EndBackup, CrashBackup,
     RecoverBackup, Guarded, Stranger, Touch, Arrive, Maintain, vars
<1> QED
  BY <1>1, <1>2, <1>6, <1>7, <1>8, <1>9, <1>10, <1>11, <1>12, <1>13, <1>14, <1>15, StepCases DEF InRun

LEMMA LookedNext == Engaged /\ RemoteOK /\ ItemOK /\ LookedAtAll /\ [Next]_vars => LookedAtAll'
<1> SUFFICES ASSUME Engaged, RemoteOK, ItemOK, LookedAtAll, [Next]_vars PROVE LookedAtAll'
  OBVIOUS
<1>1. ASSUME NEW r \in Runs, \A i \in Positions(r) : Looked(r, i), item'[r] = item[r]
      PROVE  \A i \in Positions(r) : Looked(r, i)'
  BY <1>1, LookedKept
<1>2. ASSUME NEW r \in Runs, status'[r] = "success", NEW i \in Positions(r)
      PROVE  Looked(r, i)'
  <2>1. CASE status[r] = "success"
    <3>1. item'[r] = item[r]
      BY <2>1, ItemSteps DEF Engaged, Unclaimed
    <3>2. Looked(r, i)
      BY <2>1 DEF LookedAtAll, SuccessWasSeen, Looked
    <3> QED BY <3>1, <3>2, LookedKept
  <2>2. CASE status[r] # "success"
    <3>1. Finish /\ r = worker.run
      BY <1>2, <2>2, SuccessOnlyAtFinish
    <3>2. worker.at = "finish" /\ UNCHANGED item
      BY <3>1 DEF Finish, At
    <3>3. Looked(r, i)
      BY <1>2, <3>1, <3>2 DEF LookedAtAll, LookedBy
    <3> QED BY <3>2, <3>3, LookedKept
  <2> QED BY <2>1, <2>2
<1>3. SuccessWasSeen'
  BY <1>2 DEF SuccessWasSeen, Looked, StillThere
<1>4. ASSUME NEW r \in Runs, worker'.run = r, NEW i \in Positions(r), LookedBy(i)'
      PROVE  Looked(r, i)'
  <2>0. worker'.at \in {"recheck", "finish"}
    BY <1>4 DEF LookedBy
  <2>1. CASE worker' = worker
    <3>1. item'[r] = item[r]
      BY <1>4, <2>0, <2>1, ItemSteps DEF Engaged, Working
    <3>2. Looked(r, i)
      BY <1>4, <2>1 DEF LookedAtAll, LookedBy
    <3> QED BY <3>1, <3>2, LookedKept
  <2>2. CASE worker'.at = "recheck" /\ worker'.pos = 1
    BY <1>4, <2>2 DEF LookedBy, Runs, Positions
  <2>3. CASE LooksOn
    <3>1. worker.run = r /\ worker.pos \in Positions(r) /\ UNCHANGED item
      BY <1>4, <2>3 DEF LooksOn, Engaged, Working
    <3>2. i < worker.pos \/ i = worker.pos
      <4>1. i \in 1..Len(Items[r]) /\ worker.pos \in 1..Len(Items[r]) /\ Len(Items[r]) \in Nat
        BY <1>4, <3>1, MigrationConstantsOK DEF Runs, Positions
      <4>2. CASE worker'.at = "recheck" /\ worker'.pos = worker.pos + 1
        BY <1>4, <4>1, <4>2 DEF LookedBy
      <4>3. CASE worker'.at = "finish" /\ ~(worker.pos < Len(Items[worker.run]))
        BY <3>1, <4>1, <4>3
      <4> QED BY <2>3, <4>2, <4>3 DEF LooksOn
    <3>3. Looked(r, i)
      BY <1>4, <2>3, <3>1, <3>2 DEF LooksOn, LookedAtAll, LookedBy, Looked
    <3> QED BY <3>1, <3>3, LookedKept
  <2> QED BY <2>0, <2>1, <2>2, <2>3, RecheckSteps
<1>5. (\A r \in Runs : worker.run = r => \A i \in Positions(r) : LookedBy(i) => Looked(r, i))'
  BY <1>4
<1> QED BY <1>3, <1>5 DEF LookedAtAll

(* A run that succeeded left every repository as converted, unless others  *)
(* changed it after the run's last look: for batches of any length.        *)
THEOREM SuccessCorrect == Spec => []SuccessWasSeen
<1>1. Init => LookedAtAll
  BY DEF Init, LookedAtAll, LookedBy, SuccessWasSeen, Idle
<1>2. LookedAtAll => SuccessWasSeen
  BY DEF LookedAtAll
<1> QED BY <1>1, <1>2, LookedNext, AlwaysEngaged, AlwaysRemote, AlwaysItems, PTL DEF Spec

-----------------------------------------------------------------------------
(***************************************************************************)
(* Who writes to the instance, and what it holds while it does.            *)
(***************************************************************************)
LEMMA InRunEntitled ==
    ASSUME Engaged, Reserved, BackupExcluded, LocksOK, worker.at \in Working
    PROVE  run \in Runs /\ pos \in Positions(run) /\ Entitled(pos)
<1>1. run \in Runs /\ pos \in Positions(run) /\ status[run] = "running" /\ lock = "worker"
  BY DEF Engaged, LocksOK, run, pos
<1>2. backup = "none"
  BY <1>1 DEF BackupExcluded
<1>3. <<"target", TargetOf(run, pos)>> \in Keys(run) /\ <<"source", Content(run, pos)>> \in Keys(run)
  BY <1>1 DEF Keys, Content
<1>4. run \notin revived => /\ owner[<<"target", TargetOf(run, pos)>>] = run
                           /\ owner[<<"source", Content(run, pos)>>] = run
  BY <1>1, <1>3 DEF Reserved, ReservationsFollowRuns, Live
<1> QED BY <1>1, <1>2, <1>4 DEF Entitled

(* A step inside a run that changes a repository is one of the two writes. *)
LEMMA InRunWrites ==
    ASSUME Engaged, RemoteOK, InRun, NEW t \in Targets, remote'[t] # remote[t]
    PROVE  Ticked /\ t = TargetOf(run, pos)
<1>1. PostRepository \/ Push
  BY DEF InRun, BeginItem, LookForRepository, ReadRefs, VerifyItem, Recheck, OnlyHere,
         Interrupted, Fails, Leaves, giteaVars
<1>2. Ticked
  BY <1>1 DEF PostRepository, Push, Step, At
<1>3. CASE Create(TargetOf(run, pos), run, "none")
  BY <1>2, <1>3 DEF Create, RemoteOK
<1>4. CASE remote' = [remote EXCEPT ![TargetOf(run, pos)].refs = Content(run, pos)]
  BY <1>2, <1>4 DEF RemoteOK
<1> QED BY <1>3, <1>4, InRunRemote DEF run, pos

LEMMA LateWrites ==
    ASSUME RemoteOK, Arrive, NEW t \in Targets, remote'[t] # remote[t]
    PROVE  \E l \in late \ late' : Arrives(l, t)
<1>1. PICK l \in late : late' = late \ {l} /\ Comes(l)
  BY ArriveComes
<1>2. TargetOf(l.run, l.pos) \in Targets /\ l \in late \ late'
  BY <1>1, RequestType, TargetInTargets DEF RemoteOK
<1>3. CASE l.kind = "post" /\ Create(TargetOf(l.run, l.pos), l.run, "none")
  <2>1. t = TargetOf(l.run, l.pos) /\ remote[t] = Nothing /\ remote'[t].by = l.run
    BY <1>2, <1>3 DEF Create, RemoteOK
  <2> QED BY <1>2, <1>3, <2>1 DEF Arrives
<1>4. CASE /\ l.kind = "push"
           /\ remote' = [remote EXCEPT ![TargetOf(l.run, l.pos)].refs = Content(l.run, l.pos)]
  <2>1. t = TargetOf(l.run, l.pos)
    BY <1>2, <1>4 DEF RemoteOK
  <2>2. remote'[t] = [remote[t] EXCEPT !.refs = Content(l.run, l.pos)]
    BY <1>4, <2>1 DEF RemoteOK
  <2> QED BY <1>2, <1>4, <2>1, <2>2 DEF Arrives
<1> QED BY <1>1, <1>3, <1>4 DEF Comes

LEMMA GuardedStep ==
    ASSUME Engaged, Reserved, BackupExcluded, RemoteOK, Counted, LocksOK, [Next]_vars,
           strangers' = strangers, NEW t \in Targets, remote'[t] # remote[t]
    PROVE  \/ \E l \in late \ late' : Arrives(l, t)
           \/ Ticked /\ \E i \in Positions(run) : t = TargetOf(run, i) /\ Entitled(i)
<1>1. CASE \E r \in Runs : CreateRun(r) \/ Pause(r) \/ Resume(r) \/ Cancel(r)
  BY <1>1 DEF CreateRun, Pause, Resume, Cancel, ControlRun, giteaVars
<1>2. CASE Pick \/ Refused \/ Claim \/ TakePause \/ Finish \/ Handle \/ Start \/ Crash
  BY <1>2 DEF Pick, Refused, Claim, TakePause, Finish, Handle, Start, Crash, Leaves, giteaVars
<1>3. CASE InRun
  <2>1. worker.at \in Working
    BY <1>3, InRunAdvances
  <2> QED BY <1>3, <2>1, InRunWrites, InRunEntitled
<1>4. CASE Backup
  BY <1>4 DEF Backup, AcceptBackup, StartBackup, RefuseBackup, EndBackup, CrashBackup, RecoverBackup,
     Guarded, giteaVars
<1>5. CASE Stranger
  BY <1>5 DEF Stranger, Touch, Counted
<1>6. CASE Arrive
  BY <1>6, LateWrites
<1>7. CASE Maintain \/ UNCHANGED vars
  BY <1>7 DEF Maintain, vars, giteaVars
<1> QED BY <1>1, <1>2, <1>3, <1>4, <1>5, <1>6, <1>7, StepCases

(* A request is left behind only by a run that was entitled to send it.    *)
LEMMA LeftByEntitled ==
    ASSUME Engaged, Reserved, BackupExcluded, RemoteOK, LocksOK, [Next]_vars,
           NEW l \in late' \ late
    PROVE  l.run = run /\ Entitled(l.pos)
<1>1. CASE \E r \in Runs : CreateRun(r) \/ Pause(r) \/ Resume(r) \/ Cancel(r)
  BY <1>1 DEF CreateRun, Pause, Resume, Cancel, ControlRun, giteaVars
<1>2. CASE Pick \/ Refused \/ Claim \/ TakePause \/ Finish \/ Handle \/ Start
  BY <1>2 DEF Pick, Refused, Claim, TakePause, Finish, Handle, Start, giteaVars
<1>3. CASE InRun
  <2>1. worker.at \in Working /\ l.run = worker.run /\ l.pos = worker.pos
    BY <1>3, InRunAdvances, InRunRemote
  <2> QED BY <2>1, InRunEntitled DEF run, pos
<1>4. CASE Crash
  <2>1. worker.at \in Working /\ l.run = worker.run /\ l.pos = worker.pos
    BY <1>4, LeavesRequest DEF Crash
  <2> QED BY <2>1, InRunEntitled DEF run, pos
<1>5. CASE Backup
  BY <1>5 DEF Backup, AcceptBackup, StartBackup, RefuseBackup, EndBackup, CrashBackup, RecoverBackup,
     Guarded, giteaVars
<1>6. CASE Stranger \/ Arrive
  BY <1>6, ArriveComes DEF Stranger, Touch
<1>7. CASE Maintain \/ UNCHANGED vars
  BY <1>7 DEF Maintain, vars, giteaVars
<1> QED BY <1>1, <1>2, <1>3, <1>4, <1>5, <1>6, <1>7, StepCases

(* Whoever is killed, refused, paused or upgraded in between: the worker   *)
(* writes, or sends what arrives after it was cut off, in a running run    *)
(* that holds the lock of the instance and its own reservations            *)
(* (worker.py: target_guard, check_tick).                                  *)
THEOREM WritesAreGuardedAlways == Spec => WritesAreGuarded
<1>1. ASSUME Engaged, Reserved, BackupExcluded, RemoteOK, Counted, LocksOK, [Next]_vars
      PROVE  [/\ \A l \in late' \ late : l.run = run /\ Entitled(l.pos)
              /\ strangers' = strangers =>
                   \A t \in Targets : remote'[t] # remote[t] =>
                      \/ \E l \in late \ late' : Arrives(l, t)
                      \/ Ticked /\ \E i \in Positions(run) : t = TargetOf(run, i) /\ Entitled(i)]_vars
  BY <1>1, GuardedStep, LeftByEntitled
<1> QED BY <1>1, AlwaysEngaged, AlwaysReserved, BackupCorrect, AlwaysRemote, AlwaysCounted,
           AlwaysControlled, PTL DEF Spec, WritesAreGuarded
=============================================================================
