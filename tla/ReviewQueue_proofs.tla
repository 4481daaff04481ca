------------------------- MODULE ReviewQueue_proofs -------------------------
(***************************************************************************)
(* Proofs about ReviewQueue, for any sets of jobs, PRs and workers, any    *)
(* attempt limit and any bounds.  The inductive invariant is layered:      *)
(*                                                                         *)
(*   TypeOK    the types;                                                  *)
(*   Custody   who may touch a job: one worker inside it, one publisher    *)
(*             per PR, and a job that is touched was claimed before;       *)
(*   Writes    how far the write of a job's Review has come, seen from the *)
(*             publisher, the operation row, Gitea and the status.         *)
(*                                                                         *)
(* Each layer is preserved by every step given the layers above it.        *)
(* ReviewQueueOrder_proofs continues with attempts, generations and        *)
(* cancellation.                                                           *)
(***************************************************************************)
EXTENDS ReviewQueue, TLAPS

-----------------------------------------------------------------------------
(***************************************************************************)
(* Types.                                                                  *)
(***************************************************************************)
LEMMA TypeInit == Init => TypeOK
  <1>1. (CHOOSE p \in PRs : TRUE) \in PRs
    BY ConstantsOK
  <1> QED
    BY <1>1, ConstantsOK DEF Init, TypeOK, Statuses, NoIdent, NoSignature, Signature, Versions, Pcs

(* Updating the field sig of one entry keeps the type of pr_state.         *)
LEMMA FieldUpdate ==
  ASSUME NEW P, NEW S, NEW f \in [P -> [gen : Nat, sig : S]], NEW p \in P, NEW x \in S
  PROVE  [f EXCEPT ![p].sig = x] \in [P -> [gen : Nat, sig : S]]
  OBVIOUS

(* A worker inside process() works on a job.                               *)
LEMMA HeldJob == TypeOK => \A w \in Workers : pc[w] # "idle" => held[w] \in Jobs
  BY DEF TypeOK

LEMMA TypeFinish ==
  ASSUME TypeOK, NEW w \in Workers, NEW state \in Statuses, pc[w] # "idle", Finish(w, state)
  PROVE  TypeOK'
  <1>1. held[w] \in Jobs
    BY HeldJob
  <1>2. status' \in [Jobs -> Statuses] /\ leased' \in [Jobs -> BOOLEAN]
    <2>1. CASE owner[held[w]] = w /\ status[held[w]] \in Executing
      <3>1. status' = [status EXCEPT ![held[w]] = state] /\ leased' = [leased EXCEPT ![held[w]] = FALSE]
        BY <2>1 DEF Finish
      <3> QED
        BY <1>1, <3>1 DEF TypeOK
    <2>2. CASE ~(owner[held[w]] = w /\ status[held[w]] \in Executing)
      BY <2>2 DEF TypeOK, Finish
    <2> QED
      BY <2>1, <2>2
  <1>3. pc' \in [Workers -> Pcs] /\ \A v \in Workers : pc'[v] = "idle" <=> held'[v] = Nobody
    BY DEF TypeOK, Finish, Leave, Pcs, Body
  <1> QED
    BY <1>2, <1>3 DEF TypeOK, Finish, outside

LEMMA TypeTransition ==
  ASSUME TypeOK, NEW w \in Workers, NEW state \in Statuses, pc[w] # "idle", Transition(w, state),
         todo' \in [Jobs -> Nat], session' \in [Jobs -> {"none", "live", "over"}]
  PROVE  TypeOK'
  <1>1. held[w] \in Jobs
    BY HeldJob
  <1>2. pc' \in [Workers -> Pcs] /\ \A v \in Workers : pc'[v] = "idle" <=> held'[v] = Nobody
    BY DEF TypeOK, Transition, Leave, Pcs, Body
  <1> QED
    BY <1>1, <1>2 DEF TypeOK, Transition, outside

LEMMA TypeLeave ==
  ASSUME TypeOK, NEW w \in Workers, pc[w] # "idle", Leave(w), UNCHANGED <<dbVars, outside, held, crashes>>
  PROVE  TypeOK'
  <1>1. pc' \in [Workers -> Pcs] /\ \A v \in Workers : pc'[v] = "idle" <=> held'[v] = Nobody
    BY DEF TypeOK, Leave, Pcs, Body
  <1> QED
    BY <1>1 DEF TypeOK, dbVars, outside

LEMMA TypeNext == TypeOK /\ [Next]_vars => TypeOK'
  <1> SUFFICES ASSUME TypeOK, [Next]_vars PROVE TypeOK'
    OBVIOUS
  <1> USE ConstantsOK DEF ConstantsOK
  <1>a. CASE UNCHANGED vars
    BY <1>a DEF TypeOK, vars, dbVars, outside, workers
  <1>1. ASSUME NEW p \in PRs, Push(p) PROVE TypeOK'
    <2>1. pull[p].head + 1 \in Versions
      BY <1>1 DEF TypeOK, Push, Versions
    <2>2. pull' \in [PRs -> [head : Versions, open : BOOLEAN]]
      BY <1>1, <2>1 DEF TypeOK, Push
    <2> QED
      BY <1>1, <2>1, <2>2 DEF TypeOK, Push, dbVars, workers
  <1>2. ASSUME NEW p \in PRs, OpenOrClose(p) PROVE TypeOK'
    <2>1. pull' \in [PRs -> [head : Versions, open : BOOLEAN]]
      BY <1>2, ZenonT(40) DEF TypeOK, OpenOrClose
    <2> QED
      BY <1>2, <2>1 DEF TypeOK, OpenOrClose, dbVars, workers
  <1>3. ASSUME NEW p \in PRs, NEW v \in Versions, NEW manual \in BOOLEAN, Enqueue(p, v, manual) PROVE TypeOK'
    BY <1>3 DEF TypeOK, Enqueue, NewGeneration, SignatureOf, Signature, Superseding, outside, workers, Statuses, Terminal, Replaceable
  <1>4. ASSUME NEW p \in PRs, NEW v \in Versions, EnqueueClosed(p, v) PROVE TypeOK'
    BY <1>4 DEF TypeOK, EnqueueClosed, NewGeneration, SignatureOf, Signature, Superseding, outside, workers, Statuses, Terminal
  <1>5. ASSUME NEW enabled \in BOOLEAN, SaveConfig(enabled) PROVE TypeOK'
    BY <1>5 DEF TypeOK, SaveConfig, Superseding, outside, workers, Statuses, Terminal
  <1>6. ASSUME NEW enabled \in BOOLEAN, SaveRepo(enabled) PROVE TypeOK'
    BY <1>6 DEF TypeOK, SaveRepo, Superseding, outside, workers, Statuses, Terminal
  <1>7. CASE ArchiveRepo
    BY <1>7 DEF TypeOK, ArchiveRepo, ArchivedStatus, outside, workers, Statuses, Terminal
  <1>8. ASSUME NEW j \in Jobs, Continue(j) PROVE TypeOK'
    BY <1>8 DEF TypeOK, Continue, outside, workers, Statuses, Replaceable
  <1>9. ASSUME NEW j \in Jobs, RequestCancel(j) PROVE TypeOK'
    BY <1>9 DEF TypeOK, RequestCancel, outside, workers, Statuses, Terminal
  <1>10. ASSUME NEW j \in Jobs, ReconcileCancel(j) PROVE TypeOK'
    BY <1>10 DEF TypeOK, ReconcileCancel, outside, workers, Statuses, Terminal
  <1>11. ASSUME NEW j \in Jobs, LeaseLapses(j) PROVE TypeOK'
    BY <1>11 DEF TypeOK, LeaseLapses, outside, workers
  <1>12. ASSUME NEW w \in Workers, Crash(w) PROVE TypeOK'
    BY <1>12 DEF TypeOK, Crash, dbVars, outside, Pcs
  <1>13. ASSUME NEW j \in Jobs, Land(j) PROVE TypeOK'
    BY <1>13 DEF TypeOK, Land, dbVars, workers
  <1>14. ASSUME NEW j \in Jobs, Lost(j) PROVE TypeOK'
    BY <1>14 DEF TypeOK, Lost, dbVars, workers
  <1>15. SweptStatus \in [Jobs -> Statuses] /\ SweptOwner \in [Jobs -> Workers \cup {Nobody}]
    BY DEF TypeOK, SweptStatus, SweptOwner, Swept, Statuses, Replaceable, Terminal
  <1>16. ASSUME NEW w \in Workers, NEW j \in Jobs, Claim(w, j) PROVE TypeOK'
    <2>1. status' \in [Jobs -> Statuses] /\ owner' \in [Jobs -> Workers \cup {Nobody}]
      BY <1>15, <1>16 DEF Claim, Statuses, Executing
    <2>2. /\ pc' \in [Workers -> Pcs] /\ held' \in [Workers -> Jobs \cup {Nobody}]
          /\ \A v \in Workers : pc'[v] = "idle" <=> held'[v] = Nobody
      BY <1>16 DEF Claim, Goto, Pcs, TypeOK
    <2> QED
      BY <1>16, <2>1, <2>2 DEF TypeOK, Claim, outside
  <1>17. ASSUME NEW w \in Workers, Sweep(w) PROVE TypeOK'
    BY <1>15, <1>17 DEF TypeOK, Sweep, outside, workers
  <1>18. ASSUME NEW w \in Workers, Enter(w) PROVE TypeOK'
    BY <1>18, ZenonT(40) DEF TypeOK, Enter, Goto, dbVars, outside, Pcs, Body
  <1>19. ASSUME NEW w \in Workers, Prepare(w) PROVE TypeOK'
    <2>1. held[w] \in Jobs /\ Mine(w) \in PRs
      BY <1>19, HeldJob DEF Prepare, TypeOK, Mine
    <2>2. pull[Mine(w)].head \in Versions
      BY <2>1 DEF TypeOK
    <2>3. snap' \in [Jobs -> Nat]
      <3>1. pull[Mine(w)].head \in Nat
        BY <2>2 DEF Versions
      <3>2. snap \in [Jobs -> Nat]
        BY DEF TypeOK
      <3> QED
        BY <1>19, <2>1, <3>1, <3>2 DEF Prepare
    <2>4. prState' \in [PRs -> [gen : Nat, sig : Signature]]
      <3> DEFINE bound == [version |-> pull[Mine(w)].head, exec |-> ident[held[w]].exec,
                           rev |-> ident[held[w]].rev, closed |-> FALSE]
      <3>1. bound \in Signature
        BY <2>1, <2>2 DEF TypeOK, Signature
      <3>2. prState' = prState \/ prState' = [prState EXCEPT ![Mine(w)].sig = bound]
        BY <1>19 DEF Prepare
      <3>3. CASE prState' = [prState EXCEPT ![Mine(w)].sig = bound]
        <4> HIDE DEF bound
        <4>1. prState \in [PRs -> [gen : Nat, sig : Signature]]
          BY DEF TypeOK
        <4> QED
          BY <2>1, <3>1, <3>3, <4>1, FieldUpdate
      <3> QED
        BY <3>2, <3>3 DEF TypeOK
    <2>5. pc' \in [Workers -> Pcs] /\ \A v \in Workers : pc'[v] = "idle" <=> held'[v] = Nobody
      BY <1>19 DEF TypeOK, Prepare, Goto, Pcs, Body
    <2> QED
      BY <1>19, <2>3, <2>4, <2>5 DEF TypeOK, Prepare, outside
  <1>20. ASSUME NEW w \in Workers, FinishUnit(w) PROVE TypeOK'
    <2>1. held[w] \in Jobs
      BY <1>20, HeldJob DEF FinishUnit
    <2>2. todo' \in [Jobs -> Nat] /\ session' \in [Jobs -> {"none", "live", "over"}]
      BY <1>20, <2>1 DEF TypeOK, FinishUnit
    <2> QED
      BY <1>20, <2>2, TypeTransition DEF FinishUnit, Statuses, Replaceable
  <1>21. ASSUME NEW w \in Workers, Pause(w) PROVE TypeOK'
    <2>1. session' \in [Jobs -> {"none", "live", "over"}] /\ todo' \in [Jobs -> Nat]
      BY <1>21, HeldJob DEF Pause, TypeOK
    <2> QED
      BY <1>21, <2>1, TypeTransition DEF Pause, Statuses, Replaceable
  <1>22. ASSUME NEW w \in Workers, NEW findings \in BOOLEAN, Lock(w, findings) PROVE TypeOK'
    BY <1>22, HeldJob DEF TypeOK, Lock, Goto, outside, Pcs, Body, Publication
  <1>23. ASSUME NEW w \in Workers, Mark(w) PROVE TypeOK'
    BY <1>23, HeldJob DEF TypeOK, Mark, Goto, outside, Pcs, Body, Publication, Statuses, Executing
  <1>24. ASSUME NEW w \in Workers, StartOperation(w) PROVE TypeOK'
    BY <1>24, HeldJob DEF TypeOK, StartOperation, Goto, outside, Pcs, Body, Publication
  <1>25. ASSUME NEW w \in Workers, Post(w) PROVE TypeOK'
    BY <1>25, HeldJob DEF TypeOK, Post, Goto, dbVars, Pcs, Body, Publication
  <1>26. ASSUME NEW w \in Workers, Receive(w) PROVE TypeOK'
    BY <1>26, HeldJob DEF TypeOK, Receive, Goto, outside, Pcs, Body, Publication
  <1>27. ASSUME NEW w \in Workers, Unlock(w) PROVE TypeOK'
    BY <1>27, HeldJob DEF TypeOK, Unlock, Goto, dbVars, outside, Pcs, Body
  <1>28. ASSUME NEW w \in Workers, Succeed(w) PROVE TypeOK'
    BY <1>28, TypeFinish DEF Succeed, Statuses, Terminal
  <1>29. ASSUME NEW w \in Workers, GoStale(w) PROVE TypeOK'
    <2>1. pc[w] # "idle"
      BY <1>29 DEF GoStale, Body, Publication
    <2> QED
      BY <1>29, <2>1, TypeFinish DEF GoStale, Statuses, Terminal
  <1>30. ASSUME NEW w \in Workers, FailPublishing(w) PROVE TypeOK'
    BY <1>30, TypeFinish, TypeLeave DEF FailPublishing, Statuses
  <1>31. ASSUME NEW w \in Workers, FailRunning(w) PROVE TypeOK'
    BY <1>31, TypeLeave DEF FailRunning
  <1>32. ASSUME NEW w \in Workers, Return(w) PROVE TypeOK'
    BY <1>32 DEF TypeOK, Return, dbVars, outside, Pcs
  <1>33. ASSUME NEW w \in Workers, NEW j \in Jobs, Reconcile(w, j) PROVE TypeOK'
    BY <1>33, ZenonT(40) DEF TypeOK, Reconcile, outside, workers, Statuses, Terminal
  <1>34. ASSUME NEW j \in Jobs, ConfirmUnpublished(j) PROVE TypeOK'
    BY <1>34 DEF TypeOK, ConfirmUnpublished, outside, workers, Statuses, Terminal
  <1>35. ASSUME NEW p \in PRs, Webhook(p) \/ Scan(p) \/ Rerun(p) PROVE TypeOK'
    <2>1. 1 .. pull[p].head \subseteq Versions /\ pull[p].head \in Versions /\ 0 \in Versions
      BY DEF TypeOK, Versions
    <2> QED
      BY <1>3, <1>4, <1>35, <2>1 DEF Webhook, Scan, Rerun
  <1>36. ASSUME NEW w \in Workers, StartSession(w) PROVE TypeOK'
    BY <1>36, HeldJob DEF TypeOK, StartSession, dbVars, workers
  <1>37. ASSUME NEW j \in Jobs, EndSession(j) PROVE TypeOK'
    BY <1>37 DEF TypeOK, EndSession, dbVars, workers
  <1> QED
    BY <1>a, <1>1, <1>2, <1>5, <1>6, <1>7, <1>8, <1>9, <1>10, <1>11, <1>12, <1>13, <1>14, <1>16, <1>17,
       <1>18, <1>19, <1>20, <1>21, <1>22, <1>23, <1>24, <1>25, <1>26, <1>27, <1>28, <1>29, <1>30, <1>31,
       <1>32, <1>33, <1>34, <1>35, <1>36, <1>37
       DEF Next, Poll, Process, InBody, Operators, Environment

(* Every variable keeps its type in every reachable state.                 *)
THEOREM TypeCorrect == Spec => []TypeOK
  BY TypeInit, TypeNext, PTL DEF Spec

-----------------------------------------------------------------------------
(***************************************************************************)
(* One executing job.                                                      *)
(***************************************************************************)
Live(j) == status[j] \in Executing /\ leased[j]

(* A job comes to execute under a valid lease only by a claim.             *)
LEMMA LeaseByClaim ==
  ASSUME TypeOK, [Next]_vars, NEW j \in Jobs, Live(j)'
  PROVE  Live(j) \/ \E w \in Workers : Claim(w, j)
  <1> SUFFICES ASSUME \A w \in Workers : ~Claim(w, j) PROVE Live(j)
    OBVIOUS
  <1> USE DEF Live, Executing
  <1>1. CASE UNCHANGED <<status, leased>>
    BY <1>1
  <1>2. ASSUME NEW S, status' = Superseding(S) PROVE status'[j] = status[j] \/ status'[j] = "superseded"
    BY <1>2 DEF Superseding
  <1>3. ASSUME NEW p \in PRs, NEW v, NEW manual, Enqueue(p, v, manual) PROVE Live(j)
    BY <1>3 DEF Enqueue, Superseding, TypeOK
  <1>4. ASSUME NEW p \in PRs, NEW v, EnqueueClosed(p, v) PROVE Live(j)
    BY <1>2, <1>4 DEF EnqueueClosed
  <1>5. ASSUME NEW enabled, SaveConfig(enabled) \/ SaveRepo(enabled) PROVE Live(j)
    BY <1>2, <1>5 DEF SaveConfig, SaveRepo
  <1>6. CASE ArchiveRepo
    BY <1>6 DEF ArchiveRepo, ArchivedStatus
  <1>7. ASSUME NEW k \in Jobs, Continue(k) \/ RequestCancel(k) \/ ReconcileCancel(k) \/ ConfirmUnpublished(k)
        PROVE  Live(j)
    <2>1. leased' = [leased EXCEPT ![k] = FALSE] /\ \E state : status' = [status EXCEPT ![k] = state]
      BY <1>7 DEF Continue, RequestCancel, ReconcileCancel, ConfirmUnpublished
    <2> QED
      BY <2>1 DEF TypeOK
  <1>8. ASSUME NEW k \in Jobs, LeaseLapses(k) PROVE Live(j)
    BY <1>8 DEF TypeOK, LeaseLapses
  <1>9. ASSUME NEW w \in Workers, NEW k \in Jobs, Reconcile(w, k) PROVE Live(j)
    BY <1>9 DEF TypeOK, Reconcile
  <1>10. ASSUME status'[j] = Swept(j), leased'[j] = leased[j] PROVE Live(j)
    BY <1>10 DEF Swept, Lapsed
  <1>11. ASSUME NEW w \in Workers, NEW k \in Jobs, Claim(w, k) PROVE Live(j)
    <2>1. j # k
      BY <1>11
    <2>2. status'[j] = Swept(j) /\ leased'[j] = leased[j]
      BY <1>11, <2>1 DEF Claim, SweptStatus, TypeOK
    <2> QED
      BY <1>10, <2>2
  <1>12. ASSUME NEW w \in Workers, Sweep(w) PROVE Live(j)
    BY <1>10, <1>12 DEF Sweep, SweptStatus
  <1>13. ASSUME NEW w \in Workers, NEW state, Transition(w, state) PROVE Live(j)
    BY <1>13 DEF TypeOK, Transition
  <1>14. ASSUME NEW w \in Workers, NEW state, Finish(w, state) PROVE Live(j)
    <2>1. \/ UNCHANGED <<status, leased>>
          \/ /\ leased' = [leased EXCEPT ![held[w]] = FALSE]
             /\ status' = [status EXCEPT ![held[w]] = state]
      BY <1>14 DEF Finish
    <2> QED
      BY <1>1, <2>1 DEF TypeOK
  <1>15. ASSUME NEW w \in Workers, Mark(w) PROVE Live(j)
    BY <1>15 DEF TypeOK, Mark, Active
  <1>16. ASSUME NEW w \in Workers, InBody(w) PROVE Live(j)
    <2>1. CASE Prepare(w) \/ StartSession(w) \/ (\E findings \in BOOLEAN : Lock(w, findings)) \/ StartOperation(w) \/ Post(w)
               \/ Receive(w) \/ Unlock(w) \/ FailRunning(w)
      BY <1>1, <2>1 DEF Prepare, StartSession, Lock, StartOperation, Post, Receive, Unlock, FailRunning, dbVars
    <2>2. CASE FinishUnit(w) \/ Pause(w)
      BY <1>13, <2>2 DEF FinishUnit, Pause
    <2>3. CASE Succeed(w) \/ GoStale(w) \/ FailPublishing(w)
      BY <1>1, <1>14, <2>3 DEF Succeed, GoStale, FailPublishing, dbVars
    <2> QED
      BY <1>15, <1>16, <2>1, <2>2, <2>3 DEF InBody
  <1>17. ASSUME NEW p \in PRs, Push(p) \/ OpenOrClose(p) PROVE Live(j)
    BY <1>1, <1>17 DEF Push, OpenOrClose, dbVars
  <1>18. ASSUME NEW k \in Jobs, Land(k) \/ Lost(k) \/ EndSession(k) PROVE Live(j)
    BY <1>1, <1>18 DEF Land, Lost, EndSession, dbVars
  <1>19. ASSUME NEW w \in Workers, Crash(w) \/ Enter(w) \/ Return(w) PROVE Live(j)
    BY <1>1, <1>19 DEF Crash, Enter, Return, dbVars
  <1>20. CASE UNCHANGED vars
    BY <1>1, <1>20 DEF vars, dbVars
  <1> QED
    BY <1>3, <1>4, <1>5, <1>6, <1>7, <1>8, <1>9, <1>11, <1>12, <1>16, <1>17, <1>18, <1>19, <1>20
       DEF Next, Poll, Process, Operators, Environment, Webhook, Scan, Rerun

LEMMA SerialNext == TypeOK /\ SingleExecution /\ [Next]_vars => SingleExecution'
  <1> SUFFICES ASSUME TypeOK, SingleExecution, [Next]_vars, NEW j \in Jobs, NEW k \in Jobs,
                      Live(j)', Live(k)', j # k
               PROVE  FALSE
    BY DEF SingleExecution, Live
  <1>1. ASSUME NEW a \in Jobs, NEW b \in Jobs, a # b, NEW w \in Workers, Claim(w, a), Live(b)' PROVE FALSE
    <2>1. status'[b] = Swept(b) /\ leased'[b] = leased[b]
      BY <1>1 DEF Claim, SweptStatus, TypeOK
    <2>2. Live(b)
      BY <1>1, <2>1 DEF Swept, Lapsed, Live, Executing
    <2> QED
      BY <1>1, <2>2 DEF Claim, MayClaim, Live
  <1>2. Live(j) /\ Live(k)
    BY <1>1, LeaseByClaim
  <1> QED
    BY <1>2 DEF SingleExecution, Live

(* At most one job executes under a valid lease, over all PRs, workers and *)
(* restarts (Store.claim).                                                 *)
THEOREM SerialExecution == Spec => []SingleExecution
  <1>1. Init => SingleExecution
    BY DEF Init, SingleExecution
  <1> QED
    BY <1>1, TypeCorrect, SerialNext, PTL DEF Spec

-----------------------------------------------------------------------------
(***************************************************************************)
(* Custody.  The locks exclude other workers, and only a job that was      *)
(* claimed is worked on, executed or written about.                        *)
(***************************************************************************)
OneInside ==
    \A v, w \in Workers : v # w /\ pc[v] \in Body /\ pc[w] \in Body => held[v] # held[w]

OnePublisher ==
    \A v, w \in Workers : v # w /\ pc[v] \in Publication /\ pc[w] \in Publication => Mine(v) # Mine(w)

HeldStarted == \A w \in Workers : held[w] # Nobody => started[held[w]]

StartedExists ==
    \A j \in Jobs :
        /\ started[j] => status[j] # "absent"
        /\ status[j] \in {"running", "publishing", "publish_unknown"} => started[j]
        /\ op[j] # "none" => started[j]

Custody == OneInside /\ OnePublisher /\ HeldStarted /\ StartedExists

(* started_at is never cleared, so a held job stays started.               *)
LEMMA HeldNext ==
  ASSUME TypeOK, Custody, [Next]_vars
  PROVE  HeldStarted' /\ OneInside'
  <1> USE DEF HeldStarted, OneInside, Custody, TypeOK, Body, Publication
  <1>1. CASE UNCHANGED <<pc, held, started>>
    BY <1>1
  <1>2. ASSUME NEW w \in Workers, NEW place \in Body, pc[w] \in Body, Goto(w, place), UNCHANGED <<held, started>>
        PROVE  HeldStarted' /\ OneInside'
    BY <1>2 DEF Goto
  <1>3. ASSUME NEW w \in Workers, NEW j \in Jobs, Claim(w, j) PROVE HeldStarted' /\ OneInside'
    BY <1>3, ConstantsOK DEF Claim, Goto, ConstantsOK
  <1>4. ASSUME NEW w \in Workers, pc[w] # "idle", pc' = [pc EXCEPT ![w] = "idle"],
               held' = [held EXCEPT ![w] = Nobody], UNCHANGED started
        PROVE  HeldStarted' /\ OneInside'
    BY <1>4
  <1>5. ASSUME NEW w \in Workers, Crash(w) \/ Return(w) PROVE HeldStarted' /\ OneInside'
    BY <1>4, <1>5 DEF Crash, Return, dbVars
  <1>6. ASSUME NEW w \in Workers, Enter(w) PROVE HeldStarted' /\ OneInside'
    <2>1. CASE Active(w)
      <3>1. \A v \in Workers : pc[v] \in Body => held[v] # held[w]
        BY <1>6 DEF Enter, ExecutionLocked
      <3>2. pc' = [pc EXCEPT ![w] = "inside"] /\ held' = held /\ started' = started
        BY <1>6, <2>1 DEF Enter, Goto, dbVars
      <3> QED
        BY <3>1, <3>2
    <2>2. CASE ~Active(w)
      BY <1>4, <1>6, <2>2 DEF Enter, Goto, dbVars
    <2> QED
      BY <2>1, <2>2
  <1>7. ASSUME NEW w \in Workers, InBody(w) PROVE HeldStarted' /\ OneInside'
    <2>1. \E place \in Body : pc[w] \in Body /\ Goto(w, place) /\ UNCHANGED <<held, started>>
      <3>1. CASE Prepare(w) \/ StartOperation(w) \/ Post(w) \/ Receive(w) \/ Unlock(w)
        BY <3>1 DEF Prepare, StartOperation, Post, Receive, Unlock, dbVars
      <3>2. CASE FinishUnit(w) \/ Pause(w) \/ FailRunning(w)
        BY <3>2 DEF FinishUnit, Pause, FailRunning, Transition, Leave, Goto, dbVars
      <3>3. CASE Mark(w) \/ \E findings \in BOOLEAN : Lock(w, findings)
        BY <3>3 DEF Mark, Lock
      <3>4. CASE Succeed(w) \/ GoStale(w) \/ FailPublishing(w)
        BY <3>4 DEF Succeed, GoStale, FailPublishing, Finish, Leave, Goto, dbVars
      <3>5. CASE StartSession(w)
        <4>1. pc = [pc EXCEPT ![w] = "ready"]
          BY <1>1, <3>5 DEF StartSession
        <4> QED
          BY <3>5, <4>1 DEF StartSession, Goto, Body, dbVars, workers
      <3> QED
        BY <1>7, <3>1, <3>2, <3>3, <3>4, <3>5 DEF InBody
    <2> QED
      BY <1>2, <2>1
  <1>8. CASE UNCHANGED vars
    BY <1>1, <1>8 DEF vars, dbVars, workers
  <1>9. ASSUME NEW p \in PRs, Push(p) \/ OpenOrClose(p) \/ Webhook(p) \/ Scan(p) \/ Rerun(p)
        PROVE  HeldStarted' /\ OneInside'
    BY <1>1, <1>9 DEF Push, OpenOrClose, Webhook, Scan, Rerun, Enqueue, EnqueueClosed, dbVars, workers
  <1>10. ASSUME NEW j \in Jobs, LeaseLapses(j) \/ Land(j) \/ Lost(j) \/ EndSession(j) \/ Continue(j) \/ RequestCancel(j)
                                \/ ReconcileCancel(j) \/ ConfirmUnpublished(j)
         PROVE  HeldStarted' /\ OneInside'
    BY <1>1, <1>10 DEF LeaseLapses, Land, Lost, EndSession, Continue, RequestCancel, ReconcileCancel, ConfirmUnpublished,
                       dbVars, workers
  <1>11. ASSUME NEW enabled, SaveConfig(enabled) \/ SaveRepo(enabled) \/ ArchiveRepo
         PROVE  HeldStarted' /\ OneInside'
    BY <1>1, <1>11 DEF SaveConfig, SaveRepo, ArchiveRepo, workers
  <1>12. ASSUME NEW w \in Workers, Sweep(w) \/ \E j \in Jobs : Reconcile(w, j) PROVE HeldStarted' /\ OneInside'
    BY <1>1, <1>12 DEF Sweep, Reconcile, workers
  <1> QED
    BY <1>3, <1>5, <1>6, <1>7, <1>8, <1>9, <1>10, <1>11, <1>12
       DEF Next, Poll, Process, Operators, Environment

(* The PR of a held job never changes, so the PR's lock stays exclusive.   *)
LEMMA PublisherNext ==
  ASSUME TypeOK, Custody, [Next]_vars
  PROVE  OnePublisher'
  <1> USE DEF OnePublisher, Custody, TypeOK, Publication, Mine
  <1>1. CASE UNCHANGED <<pc, held, ident>>
    BY <1>1
  <1>2. ASSUME NEW p \in PRs, NEW v, NEW manual, Enqueue(p, v, manual) PROVE OnePublisher'
    <2>1. \A w \in Workers : pc[w] \in Publication => held[w] \in Jobs /\ status[held[w]] # "absent"
      BY DEF HeldStarted, StartedExists
    <2>2. \A j \in Jobs : status[j] # "absent" => ident'[j] = ident[j]
      BY <1>2 DEF Enqueue
    <2>3. pc' = pc /\ held' = held
      BY <1>2 DEF Enqueue, workers
    <2> QED
      BY <2>1, <2>2, <2>3
  <1>3. ASSUME \A v \in Workers : pc'[v] \in Publication => pc[v] \in Publication /\ held'[v] = held[v],
               ident' = ident
        PROVE  OnePublisher'
    BY <1>3
  <1>4. ASSUME NEW w \in Workers, NEW findings \in BOOLEAN, Lock(w, findings) PROVE OnePublisher'
    <2>1. \A v \in Workers : pc[v] \in Publication => Mine(v) # Mine(w)
      BY <1>4 DEF Lock, PublicationLocked
    <2>2. pc' = [pc EXCEPT ![w] = "locked"] /\ held' = held /\ ident' = ident
      BY <1>4 DEF Lock, Goto
    <2> QED
      BY <2>1, <2>2
  <1>5. ASSUME NEW w \in Workers, InBody(w) PROVE OnePublisher'
    <2>1. CASE Prepare(w) \/ StartSession(w) \/ StartOperation(w) \/ Post(w) \/ Receive(w) \/ Unlock(w) \/ Mark(w)
      BY <1>3, <2>1 DEF Prepare, StartSession, StartOperation, Post, Receive, Unlock, Mark, Goto, dbVars, workers
    <2>2. CASE FinishUnit(w) \/ Pause(w) \/ FailRunning(w)
      BY <1>3, <2>2 DEF FinishUnit, Pause, FailRunning, Transition, Leave, dbVars
    <2>3. CASE Succeed(w) \/ GoStale(w) \/ FailPublishing(w)
      BY <1>3, <2>3 DEF Succeed, GoStale, FailPublishing, Finish, Leave, dbVars
    <2> QED
      BY <1>4, <1>5, <2>1, <2>2, <2>3 DEF InBody
  <1>6. ASSUME NEW w \in Workers, Crash(w) \/ Return(w) \/ Enter(w) \/ \E j \in Jobs : Claim(w, j) PROVE OnePublisher'
    BY <1>3, <1>6 DEF Crash, Return, Enter, Claim, Goto, dbVars
  <1>7. CASE UNCHANGED vars
    BY <1>1, <1>7 DEF vars, dbVars, workers
  <1>8. ASSUME NEW p \in PRs, Push(p) \/ OpenOrClose(p) \/ Webhook(p) \/ Scan(p) \/ Rerun(p)
        PROVE  OnePublisher'
    BY <1>1, <1>2, <1>8 DEF Push, OpenOrClose, Webhook, Scan, Rerun, EnqueueClosed, dbVars, workers
  <1>9. ASSUME NEW j \in Jobs, LeaseLapses(j) \/ Land(j) \/ Lost(j) \/ EndSession(j) \/ Continue(j) \/ RequestCancel(j)
                               \/ ReconcileCancel(j) \/ ConfirmUnpublished(j)
        PROVE  OnePublisher'
    BY <1>1, <1>9 DEF LeaseLapses, Land, Lost, EndSession, Continue, RequestCancel, ReconcileCancel, ConfirmUnpublished,
                       dbVars, workers
  <1>10. ASSUME NEW enabled, SaveConfig(enabled) \/ SaveRepo(enabled) \/ ArchiveRepo
         PROVE  OnePublisher'
    BY <1>1, <1>10 DEF SaveConfig, SaveRepo, ArchiveRepo, workers
  <1>11. ASSUME NEW w \in Workers, Sweep(w) \/ \E j \in Jobs : Reconcile(w, j) PROVE OnePublisher'
    BY <1>1, <1>11 DEF Sweep, Reconcile, workers
  <1> QED
    BY <1>5, <1>6, <1>7, <1>8, <1>9, <1>10, <1>11
       DEF Next, Poll, Process, Operators, Environment

(* A verdict is final.                                                     *)
LEMMA FinalNext ==
  ASSUME TypeOK, [Next]_vars, NEW j \in Jobs, status[j] \in Terminal
  PROVE  status'[j] = status[j]
  <1> USE DEF Terminal
  <1>1. CASE status' = status
    BY <1>1
  <1>2. ASSUME NEW S, status' = Superseding(S) PROVE status'[j] = status[j]
    BY <1>2 DEF Superseding, Replaceable
  <1>3. ASSUME NEW p \in PRs, NEW v, NEW manual, Enqueue(p, v, manual) PROVE status'[j] = status[j]
    BY <1>3 DEF Enqueue, Superseding, Replaceable, TypeOK
  <1>4. ASSUME NEW p \in PRs, Push(p) \/ OpenOrClose(p) \/ Webhook(p) \/ Scan(p) \/ Rerun(p)
        PROVE  status'[j] = status[j]
    BY <1>1, <1>2, <1>3, <1>4 DEF Push, OpenOrClose, Webhook, Scan, Rerun, EnqueueClosed, dbVars
  <1>5. ASSUME NEW enabled, SaveConfig(enabled) \/ SaveRepo(enabled) PROVE status'[j] = status[j]
    BY <1>2, <1>5 DEF SaveConfig, SaveRepo
  <1>6. CASE ArchiveRepo
    BY <1>6 DEF ArchiveRepo, ArchivedStatus
  <1>7. ASSUME NEW k \in Jobs, NEW state, status[k] \notin Terminal, status' = [status EXCEPT ![k] = state]
        PROVE  status'[j] = status[j]
    BY <1>7 DEF TypeOK
  <1>8. ASSUME NEW k \in Jobs, Continue(k) \/ RequestCancel(k) \/ ReconcileCancel(k) \/ ConfirmUnpublished(k)
                               \/ \E w \in Workers : Reconcile(w, k)
        PROVE  status'[j] = status[j]
    <2>1. status[k] \notin Terminal
      BY <1>8 DEF Continue, RequestCancel, Cancellable, ReconcileCancel, ConfirmUnpublished, Reconcile, Settling, Replaceable
    <2>2. \E state : status' = [status EXCEPT ![k] = state]
      BY <1>8 DEF Continue, RequestCancel, ReconcileCancel, ConfirmUnpublished, Reconcile
    <2> QED
      BY <1>7, <2>1, <2>2
  <1>9. Swept(j) = status[j]
    BY DEF Swept, Lapsed, Executing
  <1>10. ASSUME NEW w \in Workers, NEW k \in Jobs, Claim(w, k) PROVE status'[j] = status[j]
    BY <1>9, <1>10 DEF Claim, Claimable, SweptStatus, TypeOK
  <1>11. ASSUME NEW w \in Workers, Sweep(w) PROVE status'[j] = status[j]
    BY <1>9, <1>11 DEF Sweep, SweptStatus
  <1>12. ASSUME NEW w \in Workers, NEW state, Transition(w, state) PROVE status'[j] = status[j]
    BY <1>12 DEF Transition, Active, Executing, TypeOK
  <1>13. ASSUME NEW w \in Workers, NEW state, Finish(w, state) PROVE status'[j] = status[j]
    BY <1>13 DEF Finish, Executing, TypeOK
  <1>14. ASSUME NEW w \in Workers, InBody(w) PROVE status'[j] = status[j]
    <2>1. CASE Prepare(w) \/ StartSession(w) \/ (\E findings \in BOOLEAN : Lock(w, findings)) \/ StartOperation(w) \/ Post(w)
               \/ Receive(w) \/ Unlock(w) \/ FailRunning(w)
      BY <1>1, <2>1 DEF Prepare, StartSession, Lock, StartOperation, Post, Receive, Unlock, FailRunning, dbVars
    <2>2. CASE FinishUnit(w) \/ Pause(w)
      BY <1>12, <2>2 DEF FinishUnit, Pause
    <2>3. CASE Succeed(w) \/ GoStale(w) \/ FailPublishing(w)
      BY <1>1, <1>13, <2>3 DEF Succeed, GoStale, FailPublishing, dbVars
    <2>4. CASE Mark(w)
      BY <2>4 DEF Mark, Active, Executing, TypeOK
    <2> QED
      BY <1>14, <2>1, <2>2, <2>3, <2>4 DEF InBody
  <1>15. ASSUME NEW k \in Jobs, LeaseLapses(k) \/ Land(k) \/ Lost(k) \/ EndSession(k) PROVE status'[j] = status[j]
    BY <1>1, <1>15 DEF LeaseLapses, Land, Lost, EndSession, dbVars
  <1>16. ASSUME NEW w \in Workers, Crash(w) \/ Enter(w) \/ Return(w) PROVE status'[j] = status[j]
    BY <1>1, <1>16 DEF Crash, Enter, Return, dbVars
  <1>17. CASE UNCHANGED vars
    BY <1>1, <1>17 DEF vars, dbVars
  <1> QED
    BY <1>4, <1>5, <1>6, <1>8, <1>10, <1>11, <1>14, <1>15, <1>16, <1>17
       DEF Next, Poll, Process, Operators, Environment

(* No late worker, sweep, edit, cancellation or recovery changes the       *)
(* status of a job that has ended.                                         *)
THEOREM VerdictsAreFinal == Spec => TerminalStable
  <1>1. TypeOK /\ [Next]_vars => [\A j \in Jobs : status[j] \in Terminal => status'[j] = status[j]]_vars
    BY FinalNext
  <1> QED
    BY <1>1, TypeCorrect, PTL DEF Spec, TerminalStable

(* Statuses and operations move only for jobs that were claimed.           *)
LEMMA StartedNext ==
  ASSUME TypeOK, Custody, [Next]_vars
  PROVE  StartedExists'
  <1> USE DEF StartedExists, Custody, TypeOK
  <1>1. ASSUME op' = op, started' = started,
               \A j \in Jobs : /\ status'[j] = "absent" => status[j] = "absent"
                               /\ status'[j] \in {"running", "publishing", "publish_unknown"} => started[j]
        PROVE  StartedExists'
    BY <1>1
  <1>2. CASE UNCHANGED <<op, started, status>>
    BY <1>2
  <1>3. ASSUME NEW S, UNCHANGED <<op, started>>, status' = Superseding(S) PROVE StartedExists'
    BY <1>3 DEF Superseding, Replaceable
  <1>4. ASSUME NEW p \in PRs, NEW v, NEW manual, Enqueue(p, v, manual) PROVE StartedExists'
    <2>1. \A j \in Jobs : status'[j] \in {status[j], "queued", "superseded"}
      BY <1>4 DEF Enqueue, Superseding
    <2>2. op' = op /\ started' = started
      BY <1>4 DEF Enqueue
    <2> QED
      BY <1>1, <2>1, <2>2
  <1>5. ASSUME NEW p \in PRs, Push(p) \/ OpenOrClose(p) \/ Webhook(p) \/ Scan(p) \/ Rerun(p)
        PROVE  StartedExists'
    BY <1>2, <1>3, <1>4, <1>5 DEF Push, OpenOrClose, Webhook, Scan, Rerun, EnqueueClosed, dbVars
  <1>6. ASSUME NEW enabled, SaveConfig(enabled) \/ SaveRepo(enabled) PROVE StartedExists'
    BY <1>3, <1>6 DEF SaveConfig, SaveRepo
  <1>7. CASE ArchiveRepo
    BY <1>1, <1>7 DEF ArchiveRepo, ArchivedStatus
  <1>8. ASSUME NEW k \in Jobs, NEW state, state \notin {"absent", "running", "publishing", "publish_unknown"},
               status' = [status EXCEPT ![k] = state], UNCHANGED <<op, started>>
        PROVE  StartedExists'
    BY <1>8
  <1>9. ASSUME NEW k \in Jobs, Continue(k) \/ RequestCancel(k) \/ ReconcileCancel(k) \/ ConfirmUnpublished(k)
        PROVE  StartedExists'
    <2>1. CASE Continue(k) \/ ReconcileCancel(k) \/ ConfirmUnpublished(k)
      BY <1>8, <2>1 DEF Continue, ReconcileCancel, ConfirmUnpublished
    <2>2. CASE RequestCancel(k)
      BY <1>8, <2>2 DEF RequestCancel
    <2> QED
      BY <1>9, <2>1, <2>2
  <1>10. ASSUME NEW w \in Workers, NEW k \in Jobs, Reconcile(w, k) PROVE StartedExists'
    BY <1>10 DEF Reconcile, Settling
  <1>11. \A j \in Jobs : /\ Swept(j) = "absent" => status[j] = "absent"
                         /\ Swept(j) \in {"running", "publishing", "publish_unknown"} => started[j]
    BY DEF Swept, Lapsed, Executing
  <1>12. ASSUME NEW w \in Workers, NEW k \in Jobs, Claim(w, k) PROVE StartedExists'
    <2>1. \A j \in Jobs : status'[j] = IF j = k THEN "running" ELSE Swept(j)
      BY <1>12 DEF Claim, SweptStatus
    <2>2. \A j \in Jobs : started'[j] = IF j = k THEN TRUE ELSE started[j]
      BY <1>12 DEF Claim
    <2>3. op' = op
      BY <1>12 DEF Claim
    <2> QED
      BY <1>11, <2>1, <2>2, <2>3
  <1>13. ASSUME NEW w \in Workers, Sweep(w) PROVE StartedExists'
    BY <1>1, <1>11, <1>13 DEF Sweep, SweptStatus
  <1>14. ASSUME NEW w \in Workers, NEW state, state \notin {"absent", "running", "publishing", "publish_unknown"},
                Transition(w, state)
         PROVE  StartedExists'
    BY <1>14 DEF Transition
  <1>15. ASSUME NEW w \in Workers, NEW state, state # "absent", Finish(w, state) PROVE StartedExists'
    BY <1>15 DEF Finish, Executing
  <1>16. ASSUME NEW w \in Workers, InBody(w) PROVE StartedExists'
    <2>1. CASE Prepare(w) \/ StartSession(w) \/ Post(w) \/ Unlock(w) \/ FailRunning(w)
      BY <1>2, <2>1 DEF Prepare, StartSession, Post, Unlock, FailRunning, dbVars
    <2>2. CASE FinishUnit(w) \/ Pause(w)
      BY <1>14, <2>2 DEF FinishUnit, Pause
    <2>3. CASE Succeed(w) \/ GoStale(w) \/ FailPublishing(w)
      BY <1>2, <1>15, <2>3 DEF Succeed, GoStale, FailPublishing, dbVars
    <2>4. CASE Mark(w)
      BY <2>4 DEF Mark, Active, Executing
    <2>5. CASE StartOperation(w) \/ Receive(w) \/ \E findings \in BOOLEAN : Lock(w, findings)
      <3>1. pc[w] # "idle" /\ held[w] \in Jobs /\ started[held[w]]
        BY <2>5, HeldJob, ConstantsOK DEF StartOperation, Receive, Lock, HeldStarted, ConstantsOK
      <3>2. UNCHANGED <<status, started>> /\ \E x : op' = op \/ op' = [op EXCEPT ![held[w]] = x]
        BY <2>5 DEF StartOperation, Receive, Lock
      <3> QED
        BY <3>1, <3>2
    <2> QED
      BY <1>16, <2>1, <2>2, <2>3, <2>4, <2>5 DEF InBody
  <1>17. ASSUME NEW k \in Jobs, LeaseLapses(k) \/ Land(k) \/ Lost(k) \/ EndSession(k) PROVE StartedExists'
    BY <1>2, <1>17 DEF LeaseLapses, Land, Lost, EndSession, dbVars
  <1>18. ASSUME NEW w \in Workers, Crash(w) \/ Enter(w) \/ Return(w) PROVE StartedExists'
    BY <1>2, <1>18 DEF Crash, Enter, Return, dbVars
  <1>19. CASE UNCHANGED vars
    BY <1>2, <1>19 DEF vars, dbVars
  <1> QED
    BY <1>5, <1>6, <1>7, <1>9, <1>10, <1>12, <1>13, <1>16, <1>17, <1>18, <1>19
       DEF Next, Poll, Process, Operators, Environment

(* The execution lock admits one worker, the PR's lock one publisher, and  *)
(* what is touched was claimed.                                            *)
THEOREM CustodyKept == Spec => []Custody
  <1>1. Init => Custody
    BY DEF Init, Custody, OneInside, OnePublisher, HeldStarted, StartedExists, Body, Publication
  <1>2. TypeOK /\ Custody /\ [Next]_vars => Custody'
    BY HeldNext, PublisherNext, StartedNext DEF Custody
  <1> QED
    BY <1>1, <1>2, TypeCorrect, PTL DEF Spec

-----------------------------------------------------------------------------
(***************************************************************************)
(* Writes.  Where a publisher is determines how far the operation row and  *)
(* Gitea can be, and each of them what the status can be.                  *)
(***************************************************************************)
Unsettled == {"publishing", "publish_unknown"}

Writer(w) ==
    LET j == held[w] IN
    /\ pc[w] \in {"inside", "ready"} \/ (pc[w] = "claimed" /\ owner[j] = w) => status[j] # "publishing"
    /\ pc[w] = "marked" => op[j] = "queued" /\ status[j] \in Unsettled
    /\ pc[w] = "sending" => op[j] = "started" /\ status[j] \in Unsettled /\ net[j] = 0 /\ remote[j] = 0
    /\ pc[w] = "recorded" => op[j] = "done"
    /\ pc[w] = "published" => op[j] \in {"none", "done"}

Written(j) ==
    /\ op[j] \in {"none", "queued"} => net[j] = 0 /\ remote[j] = 0
    /\ op[j] = "done" => remote[j] = 1
    /\ net[j] + remote[j] <= 1
    /\ op[j] \in {"started", "done"} => status[j] \in Unsettled \cup {"succeeded", "failed"}
    /\ status[j] = "failed" => net[j] = 0 /\ remote[j] = 0
    /\ status[j] = "succeeded" => op[j] \in {"none", "done"}
    /\ asked[j] => status[j] \in {"cancelling", "cancelled"}

Writes == (\A w \in Workers : Writer(w)) /\ (\A j \in Jobs : Written(j))

(* How the store's own transactions may change a status.                   *)
Unwritten == {"absent", "queued", "running", "waiting"}
Moves(a, b) ==
    \/ b = a
    \/ a \in Unwritten /\ b \in {"queued", "running", "waiting", "failed", "superseded", "cancelling", "cancelled"}
    \/ a = "cancelling" /\ b = "cancelled"
    \/ a = "publishing" /\ b = "publish_unknown"

StoreStep ==
    /\ UNCHANGED <<op, net, remote>>
    /\ \A j \in Jobs : /\ Moves(status[j], status'[j])
                       /\ asked'[j] => asked[j] \/ status'[j] \in {"cancelling", "cancelled"}

LEMMA StoreStepWritten ==
  ASSUME TypeOK, Writes, StoreStep, NEW j \in Jobs
  PROVE  Written(j)'
  <1>1. Written(j)
    BY DEF Writes
  <1> QED
    BY <1>1 DEF StoreStep, Moves, Unwritten, Written, Unsettled, TypeOK

LEMMA StoreStepWrites ==
  ASSUME TypeOK, Writes, StoreStep, UNCHANGED <<pc, held>>, \A j \in Jobs : owner'[j] \in {owner[j], Nobody}
  PROVE  Writes'
  <1>1. ASSUME NEW w \in Workers PROVE Writer(w)'
    <2>1. CASE pc[w] = "idle"
      BY <2>1 DEF Writer
    <2>2. CASE pc[w] # "idle"
      <3>1. held[w] \in Jobs /\ Writer(w) /\ w # Nobody
        BY <2>2, HeldJob, ConstantsOK DEF Writes, ConstantsOK
      <3>2. Moves(status[held[w]], status'[held[w]])
        BY <3>1 DEF StoreStep
      <3> QED
        BY <3>1, <3>2 DEF StoreStep, Moves, Writer, Unsettled, Unwritten
    <2> QED
      BY <2>1, <2>2
  <1> QED
    BY <1>1, StoreStepWritten DEF Writes

LEMMA SupersedingMoves ==
  ASSUME TypeOK, NEW S, NEW j \in Jobs
  PROVE  Moves(status[j], Superseding(S)[j])
  BY DEF Superseding, Moves, Replaceable, Unwritten

LEMMA SweptMoves ==
  ASSUME TypeOK, NEW j \in Jobs
  PROVE  Moves(status[j], Swept(j))
  BY DEF Swept, Lapsed, Moves, Unwritten, Executing

(* Edits, deliveries and operators: everything that is not a worker.       *)
ByTheStore ==
    \/ \E p \in PRs : Push(p) \/ OpenOrClose(p) \/ Webhook(p) \/ Scan(p) \/ Rerun(p)
    \/ \E enabled \in BOOLEAN : SaveConfig(enabled) \/ SaveRepo(enabled)
    \/ ArchiveRepo
    \/ \E j \in Jobs : Continue(j) \/ RequestCancel(j) \/ ReconcileCancel(j) \/ LeaseLapses(j) \/ EndSession(j)
    \/ \E w \in Workers : Sweep(w)
    \/ UNCHANGED vars

StoreFrame == StoreStep /\ UNCHANGED <<pc, held>> /\ \A j \in Jobs : owner'[j] \in {owner[j], Nobody}

LEMMA StoreSteps ==
  ASSUME TypeOK, ByTheStore
  PROVE  StoreFrame
  <1> USE DEF StoreFrame
  <1>1. ASSUME status' = status, asked' = asked, owner' = owner, UNCHANGED <<op, net, remote, pc, held>>
        PROVE  StoreFrame
    BY <1>1 DEF StoreStep, Moves
  <1>2. ASSUME NEW S, status' = Superseding(S), asked' = asked, owner' = owner, UNCHANGED <<op, net, remote, pc, held>>
        PROVE  StoreFrame
    BY <1>2, SupersedingMoves DEF StoreStep
  <1>3. ASSUME NEW p \in PRs, NEW v, NEW manual, Enqueue(p, v, manual) PROVE StoreFrame
    <2>1. PICK k \in Jobs : status[k] = "absent" /\
              status' = [Superseding({i \in Jobs : ident[i].pr = p}) EXCEPT ![k] = "queued"]
      BY <1>3 DEF Enqueue
    <2>2. \A j \in Jobs : Moves(status[j], status'[j])
      BY <2>1, SupersedingMoves DEF Superseding, Moves, Unwritten
    <2> QED
      BY <1>3, <2>2 DEF StoreStep, Enqueue, outside, workers
  <1>4. ASSUME NEW p \in PRs, Push(p) \/ OpenOrClose(p) \/ Webhook(p) \/ Scan(p) \/ Rerun(p)
        PROVE  StoreFrame
    BY <1>1, <1>2, <1>3, <1>4 DEF Push, OpenOrClose, Webhook, Scan, Rerun, EnqueueClosed, dbVars, outside, workers
  <1>5. ASSUME NEW enabled, SaveConfig(enabled) \/ SaveRepo(enabled) PROVE StoreFrame
    BY <1>2, <1>5 DEF SaveConfig, SaveRepo, outside, workers
  <1>6. CASE ArchiveRepo
    <2>1. \A j \in Jobs : Moves(status[j], status'[j])
      BY <1>6 DEF ArchiveRepo, ArchivedStatus, Moves, Unwritten
    <2> QED
      BY <1>6, <2>1 DEF StoreStep, ArchiveRepo, outside, workers
  <1>7. ASSUME NEW k \in Jobs, Continue(k) \/ RequestCancel(k) \/ ReconcileCancel(k) PROVE StoreFrame
    <2>1. \A j \in Jobs : Moves(status[j], status'[j])
      BY <1>7 DEF Continue, RequestCancel, Cancellable, ReconcileCancel, Moves, Unwritten, Replaceable, TypeOK
    <2>2. \A j \in Jobs : asked'[j] => asked[j] \/ status'[j] \in {"cancelling", "cancelled"}
      BY <1>7 DEF Continue, RequestCancel, ReconcileCancel, TypeOK
    <2>3. \A j \in Jobs : owner'[j] \in {owner[j], Nobody}
      BY <1>7 DEF Continue, RequestCancel, ReconcileCancel, TypeOK
    <2>4. UNCHANGED <<op, net, remote, pc, held>>
      BY <1>7 DEF Continue, RequestCancel, ReconcileCancel, outside, workers
    <2> QED
      BY <2>1, <2>2, <2>3, <2>4 DEF StoreStep
  <1>8. ASSUME NEW j \in Jobs, LeaseLapses(j) PROVE StoreFrame
    BY <1>1, <1>8 DEF LeaseLapses, outside, workers
  <1>11. ASSUME NEW j \in Jobs, EndSession(j) PROVE StoreFrame
    BY <1>1, <1>11 DEF EndSession, dbVars, workers
  <1>9. ASSUME NEW w \in Workers, Sweep(w) PROVE StoreFrame
    <2>1. \A j \in Jobs : Moves(status[j], status'[j]) /\ owner'[j] \in {owner[j], Nobody}
      BY <1>9, SweptMoves DEF Sweep, SweptStatus, SweptOwner
    <2> QED
      BY <1>9, <2>1 DEF StoreStep, Sweep, outside, workers
  <1>10. CASE UNCHANGED vars
    BY <1>1, <1>10 DEF vars, dbVars, outside, workers
  <1> QED
    BY <1>4, <1>5, <1>6, <1>7, <1>8, <1>9, <1>10, <1>11 DEF ByTheStore

LEMMA StoreWrites == TypeOK /\ Writes /\ ByTheStore => Writes'
  BY StoreSteps, StoreStepWrites DEF StoreFrame

(* Claims, the end of a call, requests at Gitea, and the settlement.       *)
LEMMA ClaimSteps ==
  ASSUME TypeOK, NEW w \in Workers, NEW j \in Jobs, Claim(w, j)
  PROVE  StoreStep
  <1>1. status' = [SweptStatus EXCEPT ![j] = "running"] /\ Swept(j) = "queued"
    BY DEF Claim, Claimable
  <1>2. \A i \in Jobs : Moves(status[i], status'[i])
    <2>1. Moves(status[j], "running")
      BY <1>1, SweptMoves DEF Moves, Swept, Unwritten
    <2> QED
      BY <1>1, <2>1, SweptMoves DEF SweptStatus
  <1> QED
    BY <1>2 DEF StoreStep, Claim, outside

LEMMA ClaimWrites ==
  ASSUME TypeOK, Writes, NEW w \in Workers, NEW j \in Jobs, Claim(w, j)
  PROVE  Writes'
  <1>1. status' = [SweptStatus EXCEPT ![j] = "running"] /\ Swept(j) = "queued"
    BY DEF Claim, Claimable
  <1>2. StoreStep
    BY ClaimSteps
  <1>3. ASSUME NEW v \in Workers PROVE Writer(v)'
    <2>1. CASE v = w
      <3>1. pc'[w] = "claimed" /\ held'[w] = j /\ status'[j] = "running"
        BY <1>1 DEF Claim, Goto, TypeOK, SweptStatus
      <3> QED
        BY <2>1, <3>1 DEF Writer
    <2>2. CASE v # w /\ pc[v] = "idle"
      BY <2>2 DEF Writer, Claim, Goto
    <2>3. CASE v # w /\ pc[v] # "idle"
      <3>1. /\ held[v] \in Jobs /\ Writer(v) /\ v # Nobody /\ pc'[v] = pc[v] /\ held'[v] = held[v]
            /\ UNCHANGED <<op, net, remote>>
        BY <2>3, HeldJob, ConstantsOK DEF Writes, Claim, Goto, ConstantsOK, outside
      <3>2. Moves(status[held[v]], status'[held[v]])
        BY <1>2, <3>1 DEF StoreStep
      <3>3. owner'[held[v]] = v => owner[held[v]] = v
        BY <2>3, <3>1 DEF Claim, SweptOwner, TypeOK
      <3> QED
        BY <3>1, <3>2, <3>3 DEF Moves, Writer, Unsettled, Unwritten
    <2> QED
      BY <2>1, <2>2, <2>3
  <1> QED
    BY <1>2, <1>3, StoreStepWritten DEF Writes

LEMMA EndWrites ==
  ASSUME TypeOK, Writes, NEW w \in Workers, Crash(w) \/ Return(w) \/ Enter(w)
  PROVE  Writes'
  <1>1. UNCHANGED <<status, owner, op, net, remote, asked>>
    BY DEF Crash, Return, Enter, dbVars, outside
  <1>2. ASSUME NEW v \in Workers PROVE Writer(v)'
    <2>1. CASE v # w
      <3>1. pc'[v] = pc[v] /\ held'[v] = held[v]
        BY <2>1 DEF Crash, Return, Enter, Goto, TypeOK
      <3>2. Writer(v)
        BY DEF Writes
      <3> QED
        BY <1>1, <3>1, <3>2 DEF Writer
    <2>2. CASE v = w /\ pc'[w] = "idle"
      BY <2>2 DEF Writer
    <2>3. CASE v = w /\ pc'[w] # "idle"
      <3>1. pc'[w] = "inside" /\ held'[w] = held[w] /\ owner[held[w]] = w /\ pc[w] = "claimed"
        BY <2>3 DEF Crash, Return, Enter, Goto, Active, TypeOK
      <3>2. status[held[w]] # "publishing"
        BY <3>1 DEF Writes, Writer
      <3> QED
        BY <1>1, <2>3, <3>1, <3>2 DEF Writer
    <2> QED
      BY <2>1, <2>2, <2>3
  <1> QED
    BY <1>1, <1>2 DEF Writes, Written

LEMMA RequestWrites ==
  ASSUME TypeOK, Writes, NEW j \in Jobs, Land(j) \/ Lost(j)
  PROVE  Writes'
  <1>1. UNCHANGED <<status, owner, op, asked, pc, held>>
    BY DEF Land, Lost, dbVars, workers
  <1>2. /\ net[j] = 1 /\ remote[j] = 0
        /\ net'[j] = 0 /\ remote'[j] \in {0, 1}
        /\ op[j] = "started" /\ status[j] \in Unsettled
    BY DEF Writes, Written, Land, Lost, TypeOK, Unsettled
  <1>3. \A i \in Jobs \ {j} : net'[i] = net[i] /\ remote'[i] = remote[i]
    BY DEF Land, Lost, TypeOK
  <1>4. ASSUME NEW v \in Workers PROVE Writer(v)'
    BY <1>1, <1>2, <1>3, HeldJob DEF Writes, Writer
  <1>5. ASSUME NEW i \in Jobs PROVE Written(i)'
    BY <1>1, <1>2, <1>3 DEF Writes, Written, Unsettled
  <1> QED
    BY <1>4, <1>5 DEF Writes

(* A publisher of the PR would hold its lock.                              *)
LEMMA SettleWrites ==
  ASSUME TypeOK, Writes, NEW j \in Jobs, ConfirmUnpublished(j) \/ \E w \in Workers : Reconcile(w, j)
  PROVE  Writes'
  <1>1. /\ UNCHANGED <<owner, asked, net, remote, pc, held>>
        /\ \A i \in Jobs \ {j} : status'[i] = status[i] /\ op'[i] = op[i]
    BY DEF ConfirmUnpublished, Reconcile, outside, workers, TypeOK
  <1>2. /\ status[j] = "publish_unknown"
        /\ \A w \in Workers : pc[w] \in Publication => held[w] # j
    BY DEF ConfirmUnpublished, Reconcile, Settling, PublicationLocked, Mine
  <1>3. \/ status'[j] = "failed" /\ op'[j] = op[j] /\ net[j] = 0 /\ remote[j] = 0
        \/ status'[j] = "succeeded" /\ op[j] \in {"started", "done"} /\ op'[j] = "done" /\ remote[j] = 1
    BY DEF ConfirmUnpublished, Reconcile, TypeOK, Writes, Written
  <1>4. ASSUME NEW w \in Workers PROVE Writer(w)'
    <2>1. CASE pc[w] = "idle"
      BY <1>1, <2>1 DEF Writer
    <2>2. CASE pc[w] # "idle" /\ held[w] # j
      <3>1. held[w] \in Jobs /\ Writer(w)
        BY <2>2, HeldJob DEF Writes
      <3> QED
        BY <1>1, <2>2, <3>1 DEF Writer
    <2>3. CASE pc[w] # "idle" /\ held[w] = j
      <3>1. Writer(w) /\ pc[w] \notin {"marked", "sending", "recorded"}
        BY <1>2, <2>3 DEF Writes, Publication
      <3> QED
        BY <1>1, <1>3, <2>3, <3>1 DEF Writer
    <2> QED
      BY <2>1, <2>2, <2>3
  <1>5. ASSUME NEW i \in Jobs PROVE Written(i)'
    <2>1. Written(i)
      BY DEF Writes
    <2>2. CASE i # j
      BY <1>1, <2>1, <2>2 DEF Written
    <2>3. CASE i = j
      BY <1>1, <1>2, <1>3, <2>1, <2>3 DEF Written, Unsettled, TypeOK
    <2> QED
      BY <2>2, <2>3
  <1> QED
    BY <1>4, <1>5 DEF Writes

(* A worker inside a job touches nothing of another job or worker.         *)
LEMMA BodyFrame ==
  ASSUME TypeOK, NEW w \in Workers, InBody(w)
  PROVE  /\ pc[w] \in Body /\ held[w] \in Jobs
         /\ UNCHANGED <<held, asked, remote, started, ident>>
         /\ \A v \in Workers \ {w} : pc'[v] = pc[v]
         /\ \A j \in Jobs \ {held[w]} : /\ status'[j] = status[j] /\ op'[j] = op[j]
                                        /\ net'[j] = net[j] /\ owner'[j] = owner[j]
         /\ owner'[held[w]] \in {owner[held[w]], Nobody}
  <1> USE DEF TypeOK, outside, dbVars, workers, Goto, Leave
  <1>1. CASE Prepare(w) \/ StartSession(w) \/ Post(w) \/ Unlock(w) \/ FailRunning(w)
    BY <1>1, HeldJob DEF Prepare, StartSession, Post, Unlock, FailRunning, Body, Publication
  <1>2. CASE FinishUnit(w)
    BY <1>2, HeldJob DEF FinishUnit, Transition, Body
  <1>3. CASE Pause(w)
    BY <1>3, HeldJob DEF Pause, Transition, Body, Publication
  <1>4. CASE Mark(w) \/ StartOperation(w)
    BY <1>4, HeldJob DEF Mark, StartOperation, Body, Publication
  <1>5. CASE Receive(w) \/ \E findings \in BOOLEAN : Lock(w, findings)
    BY <1>5, HeldJob DEF Receive, Lock, Body, Publication
  <1>6. ASSUME NEW state, pc[w] \in Body, Finish(w, state)
        PROVE  /\ held[w] \in Jobs
               /\ UNCHANGED <<held, asked, remote, started, ident, op, net, owner>>
               /\ \A v \in Workers \ {w} : pc'[v] = pc[v]
               /\ \A j \in Jobs \ {held[w]} : status'[j] = status[j]
    BY <1>6, HeldJob DEF Finish, Body, Publication
  <1>7. CASE Succeed(w) \/ GoStale(w)
    <2>1. pc[w] \in Body
      BY <1>7 DEF Succeed, GoStale, Body
    <2>2. \E state : Finish(w, state)
      BY <1>7 DEF Succeed, GoStale
    <2> QED
      BY <1>6, <2>1, <2>2
  <1>8. CASE FailPublishing(w)
    <2>1. pc[w] \in Body
      BY <1>8 DEF FailPublishing, Body, Publication
    <2>2. CASE Active(w)
      BY <1>6, <1>8, <2>1, <2>2 DEF FailPublishing
    <2>3. CASE ~Active(w)
      BY <1>8, <2>1, <2>3, HeldJob DEF FailPublishing, Body, Publication
    <2> QED
      BY <2>2, <2>3
  <1> QED
    BY <1>1, <1>2, <1>3, <1>4, <1>5, <1>7, <1>8 DEF InBody

(* What a worker inside a job does to that job.                            *)
LEMMA BodyJob ==
  ASSUME TypeOK, Custody, Writes, NEW w \in Workers, InBody(w)
  PROVE  /\ Writer(w)' /\ Written(held[w])'
         /\ status'[held[w]] = "publishing" => status[held[w]] = "publishing" \/ owner[held[w]] = w
  <1> DEFINE j == held[w]
  <1>1. /\ pc[w] \in Body /\ j \in Jobs /\ held' = held /\ Writer(w) /\ Written(j)
        /\ asked' = asked /\ remote' = remote
    BY BodyFrame DEF Writes
  <1> USE <1>1 DEF TypeOK
  <1>2. CASE Prepare(w) \/ StartSession(w) \/ Unlock(w) \/ FailRunning(w)
    <2>1. UNCHANGED <<status, op, net, owner>>
      BY <1>2 DEF workers, Prepare, StartSession, Unlock, FailRunning, dbVars, outside
    <2>2. \/ pc[w] \in {"inside", "ready"} /\ pc'[w] = "ready"
          \/ pc[w] \in {"recorded", "locked"} /\ pc'[w] = "published" /\ (pc[w] = "locked" => op[j] = "none")
          \/ pc'[w] = "leaving"
      BY <1>2 DEF Prepare, StartSession, Unlock, FailRunning, Goto, Leave, workers
    <2> QED
      BY <2>1, <2>2 DEF Writer, Written
  <1>3. CASE FinishUnit(w) \/ Pause(w)
    <2>1. /\ status[j] = "running" /\ status'[j] \in {"queued", "waiting"} /\ pc'[w] = "leaving"
          /\ UNCHANGED <<op, net>>
      BY <1>3 DEF FinishUnit, Pause, Transition, Active, Executing, Writer, Leave, outside
    <2> QED
      BY <2>1 DEF Writer, Written, Unsettled
  <1>4. ASSUME NEW findings \in BOOLEAN, Lock(w, findings) PROVE Writer(w)' /\ Written(j)' /\ status' = status
    <2>1. /\ UNCHANGED <<status, net, owner>> /\ pc'[w] = "locked"
          /\ op'[j] = op[j] \/ (op[j] = "none" /\ op'[j] = "queued")
          /\ status[j] \in Executing
      BY <1>4 DEF Lock, Goto, outside, Active
    <2> QED
      BY <2>1 DEF Writer, Written, Executing
  <1>5. CASE Mark(w)
    <2>1. /\ status'[j] = "publishing" /\ pc'[w] = "marked" /\ op[j] = "queued" /\ UNCHANGED <<op, net, owner>>
          /\ owner[j] = w /\ status[j] \in Executing
      BY <1>5 DEF Mark, Goto, outside, Active
    <2> QED
      BY <2>1 DEF Writer, Written, Unsettled, Executing
  <1>6. CASE StartOperation(w)
    <2>1. /\ op'[j] = "started" /\ pc'[w] = "sending" /\ UNCHANGED <<status, net, owner>>
          /\ pc[w] = "marked"
      BY <1>6 DEF StartOperation, Goto, outside
    <2> QED
      BY <2>1 DEF Writer, Written, Unsettled
  <1>7. CASE Post(w)
    <2>1. /\ net'[j] = net[j] + 1 /\ pc'[w] = "sent" /\ UNCHANGED <<status, op, owner>> /\ pc[w] = "sending"
      BY <1>7 DEF Post, Goto, dbVars
    <2> QED
      BY <2>1 DEF Writer, Written, Unsettled
  <1>8. CASE Receive(w)
    <2>1. /\ op'[j] = "done" /\ pc'[w] = "recorded" /\ UNCHANGED <<status, net, owner>> /\ remote[j] = 1
      BY <1>8 DEF Receive, Goto, outside
    <2>2. op[j] \in {"started", "done"}
      BY <2>1 DEF Written
    <2> QED
      BY <2>1, <2>2 DEF Writer, Written
  <1>9. ASSUME NEW state \in {"succeeded", "publish_unknown", "superseded"}, Finish(w, state),
               state = "succeeded" => op[j] \in {"none", "done"},
               state = "superseded" => status[j] # "publishing"
        PROVE  Writer(w)' /\ Written(j)' /\ (status'[j] = "publishing" => status[j] = "publishing")
    <2>1. /\ UNCHANGED <<op, net, owner>> /\ pc'[w] = "leaving"
          /\ status'[j] = status[j] \/ (status[j] \in Executing /\ status'[j] = state)
      BY <1>9 DEF Finish, Leave, outside
    <2>2. CASE status'[j] = status[j]
      BY <2>1, <2>2 DEF Writer, Written
    <2>3. CASE status[j] \in Executing /\ status'[j] = state
      <3>1. Writer(w)'
        BY <2>1 DEF Writer
      <3>2. ~asked[j]
        BY <2>3 DEF Written, Executing
      <3>3. /\ op'[j] = op[j] /\ net'[j] = net[j] /\ remote'[j] = remote[j] /\ ~asked'[j]
            /\ status'[j] = state
        BY <2>1, <2>3, <3>2
      <3>4. /\ op[j] \in {"started", "done"} => status[j] = "publishing"
            /\ op[j] \in {"none", "queued"} => net[j] = 0 /\ remote[j] = 0
            /\ op[j] = "done" => remote[j] = 1
            /\ net[j] + remote[j] <= 1
        BY <2>3 DEF Written, Unsettled, Executing
      <3>5. state = "superseded" => Written(j)'
        BY <1>9, <3>3, <3>4 DEF Written
      <3>6. state \in {"succeeded", "publish_unknown"} => Written(j)'
        BY <1>9, <3>3, <3>4 DEF Written, Unsettled
      <3>7. Written(j)'
        BY <1>9, <3>5, <3>6
      <3> QED
        BY <1>9, <2>3, <3>1, <3>3, <3>7
    <2> QED
      BY <2>1, <2>2, <2>3
  <1>10. CASE Succeed(w)
    BY <1>9, <1>10 DEF Succeed, Writer
  <1>11. CASE GoStale(w)
    BY <1>9, <1>11 DEF GoStale
  <1>12. CASE FailPublishing(w)
    <2>1. CASE Active(w)
      BY <1>9, <1>12, <2>1 DEF FailPublishing
    <2>2. CASE ~Active(w)
      <3>1. UNCHANGED <<status, op, net, owner>> /\ pc'[w] = "leaving"
        BY <1>12, <2>2 DEF FailPublishing, dbVars, outside, Leave
      <3> QED
        BY <3>1 DEF Writer, Written
    <2> QED
      BY <2>1, <2>2
  <1> QED
    BY <1>2, <1>3, <1>4, <1>5, <1>6, <1>7, <1>8, <1>10, <1>11, <1>12 DEF InBody

LEMMA BodyWrites ==
  ASSUME TypeOK, Custody, Writes, NEW w \in Workers, InBody(w)
  PROVE  Writes'
  <1>1. ASSUME NEW v \in Workers, v # w PROVE Writer(v)'
    <2>1. pc'[v] = pc[v] /\ held' = held /\ remote' = remote /\ Writer(v)
      BY <1>1, BodyFrame DEF Writes
    <2>2. CASE pc[v] = "idle"
      BY <2>1, <2>2 DEF Writer
    <2>3. CASE pc[v] # "idle" /\ held[v] # held[w]
      <3>1. held[v] \in Jobs
        BY <2>3, HeldJob
      <3>2. /\ status'[held[v]] = status[held[v]] /\ op'[held[v]] = op[held[v]]
            /\ net'[held[v]] = net[held[v]] /\ owner'[held[v]] = owner[held[v]]
        BY <2>3, <3>1, BodyFrame
      <3> QED
        BY <2>1, <3>2 DEF Writer
    <2>4. CASE pc[v] # "idle" /\ held[v] = held[w]
      <3>1. pc[v] = "claimed"
        <4>1. pc[v] \notin Body
          BY <1>1, <2>4, BodyFrame DEF Custody, OneInside
        <4> QED
          BY <2>4, <4>1 DEF TypeOK, Pcs
      <3>2. owner'[held[v]] = v => owner[held[v]] = v
        BY <2>4, BodyFrame, ConstantsOK DEF ConstantsOK
      <3>3. status'[held[v]] = "publishing" => status[held[v]] = "publishing" \/ owner[held[v]] = w
        BY <2>4, BodyJob
      <3> QED
        BY <1>1, <2>1, <3>1, <3>2, <3>3 DEF Writer
    <2> QED
      BY <2>2, <2>3, <2>4
  <1>2. ASSUME NEW j \in Jobs, j # held[w] PROVE Written(j)'
    <2>1. Written(j)
      BY DEF Writes
    <2> QED
      BY <1>2, <2>1, BodyFrame DEF Written
  <1> QED
    BY <1>1, <1>2, BodyFrame, BodyJob DEF Writes

LEMMA WritesNext == TypeOK /\ Custody /\ Writes /\ [Next]_vars => Writes'
  <1> SUFFICES ASSUME TypeOK, Custody, Writes, [Next]_vars PROVE Writes'
    OBVIOUS
  <1>1. ASSUME NEW w \in Workers, Poll(w) \/ Process(w) PROVE Writes'
    BY <1>1, ClaimWrites, StoreWrites, EndWrites, BodyWrites DEF Poll, Process, ByTheStore
  <1>2. ASSUME NEW j \in Jobs, ReconcileCancel(j) \/ \E w \in Workers : Reconcile(w, j) PROVE Writes'
    BY <1>2, StoreWrites, SettleWrites DEF ByTheStore
  <1>3. CASE Operators
    BY <1>3, StoreWrites, SettleWrites DEF Operators, ByTheStore
  <1>4. CASE Environment
    BY <1>4, StoreWrites, RequestWrites, EndWrites DEF Environment, ByTheStore
  <1>5. CASE UNCHANGED vars
    BY <1>5, StoreWrites DEF ByTheStore
  <1> QED
    BY <1>1, <1>2, <1>3, <1>4, <1>5 DEF Next

(* Publisher, operation row, Gitea and status never disagree about how far *)
(* the write of a job's Review has come.                                   *)
THEOREM WritesKept == Spec => []Writes
  <1>1. Init => Writes
    BY DEF Init, Writes, Writer, Written
  <1> QED
    BY <1>1, WritesNext, CustodyKept, TypeCorrect, PTL DEF Spec

(* Whatever crashes, lost replies, lease takeovers and recoveries happen,  *)
(* a job's Review is created at most once.                                 *)
THEOREM NeverTwice == Spec => []AtMostOneReview
  <1>1. Writes => AtMostOneReview
    BY DEF Writes, Written, AtMostOneReview
  <1> QED
    BY <1>1, WritesKept, PTL

(* A final status tells the truth about what Gitea shows, for good.        *)
THEOREM VerdictsAreTrue == Spec => []VerdictTruthful
  <1>1. TypeOK /\ Writes => VerdictTruthful
    <2> SUFFICES ASSUME TypeOK, Writes, NEW j \in Jobs
                 PROVE  /\ status[j] = "succeeded" => op[j] \in {"none", "done"} /\ (op[j] = "done" => remote[j] = 1)
                        /\ status[j] \in {"failed", "superseded", "cancelled"} => net[j] = 0 /\ remote[j] = 0
      BY DEF VerdictTruthful
    <2>1. Written(j) /\ op[j] \in {"none", "queued", "started", "done"}
      BY DEF Writes, TypeOK
    <2> QED
      BY <2>1 DEF Written, Unsettled
  <1> QED
    BY <1>1, TypeCorrect, WritesKept, PTL

(* Nothing of a job reaches Gitea once its cancellation was accepted.      *)
THEOREM CancelledStaysSilent == Spec => []CancelledNeverPublishes
  <1>1. TypeOK /\ Writes => CancelledNeverPublishes
    <2> SUFFICES ASSUME TypeOK, Writes, NEW j \in Jobs, asked[j]
                 PROVE  net[j] = 0 /\ remote[j] = 0 /\ status[j] \in {"cancelling", "cancelled"}
      BY DEF CancelledNeverPublishes
    <2>1. Written(j) /\ op[j] \in {"none", "queued", "started", "done"}
      BY DEF Writes, TypeOK
    <2> QED
      BY <2>1 DEF Written, Unsettled
  <1> QED
    BY <1>1, TypeCorrect, WritesKept, PTL
=============================================================================
