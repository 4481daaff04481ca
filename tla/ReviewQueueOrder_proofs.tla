---------------------- MODULE ReviewQueueOrder_proofs ----------------------
(***************************************************************************)
(* Proofs about ReviewQueue, continued: what depends on the order in which *)
(* jobs are created, claimed and ended.  Almost every step is quiet: it    *)
(* neither creates a generation nor claims, and what it puts back into the *)
(* queue is current and has attempts left.  Only the enqueue steps and     *)
(* Claim need an argument of their own.                                    *)
(***************************************************************************)
EXTENDS ReviewQueue_proofs

Current(j) == ident[j].gen = prState[ident[j].pr].gen
Resting == {"absent", "queued", "waiting"}

Quiet ==
    /\ UNCHANGED <<ident, started>>
    /\ \A p \in PRs : prState'[p].gen = prState[p].gen
    /\ \A j \in Jobs :
         /\ status[j] = "absent" => status'[j] = "absent"
         /\ status'[j] \in Replaceable => status[j] \in Replaceable \/ Current(j)
         /\ attempts'[j] \in {attempts[j], 0}
         /\ status'[j] \in Resting => status[j] \in Resting \/ attempts[j] < AttemptLimit \/ attempts'[j] = 0

(* A step of a worker inside a job is quiet: a job goes back to the queue  *)
(* only while it is active, hence current, and with its attempts reset.    *)
LEMMA BodyQuiet ==
  ASSUME TypeOK, NEW w \in Workers, InBody(w)
  PROVE  Quiet
  <1> USE DEF Quiet, TypeOK, Replaceable, Resting
  <1>1. held[w] \in Jobs
    BY BodyFrame
  <1>2. CASE UNCHANGED <<ident, started, prState, status, attempts>>
    BY <1>2
  <1>3. ASSUME NEW state, state \notin Resting \cup Replaceable, UNCHANGED <<ident, started, prState, attempts>>,
               status[held[w]] \in Executing, status' = [status EXCEPT ![held[w]] = state]
        PROVE  Quiet
    BY <1>1, <1>3 DEF Executing
  <1>4. ASSUME NEW state \in {"queued", "waiting"}, Transition(w, state) PROVE Quiet
    <2>1. Current(held[w]) /\ status[held[w]] \in Executing
      BY <1>4 DEF Transition, Active, Current
    <2>2. /\ UNCHANGED <<ident, started, prState>>
          /\ status' = [status EXCEPT ![held[w]] = state]
          /\ attempts' = [attempts EXCEPT ![held[w]] = 0]
      BY <1>4 DEF Transition
    <2> QED
      BY <1>1, <1>4, <2>1, <2>2 DEF Executing
  <1>5. ASSUME NEW state \in {"succeeded", "publish_unknown", "superseded"}, Finish(w, state) PROVE Quiet
    <2>1. UNCHANGED <<ident, started, prState, attempts>>
      BY <1>5 DEF Finish
    <2>2. status' = status
          \/ (status[held[w]] \in Executing /\ status' = [status EXCEPT ![held[w]] = state])
      BY <1>5 DEF Finish
    <2> QED
      BY <1>2, <1>3, <2>1, <2>2
  <1>6. CASE Prepare(w)
    <2>1. UNCHANGED <<ident, started, status, attempts>>
      BY <1>6 DEF Prepare
    <2>2. \A p \in PRs : prState'[p].gen = prState[p].gen
      <3>1. CASE prState' = prState
        BY <3>1
      <3>2. CASE \E x : prState' = [prState EXCEPT ![Mine(w)].sig = x]
        BY <1>1, <3>2 DEF Mine
      <3> QED
        BY <1>6, <3>1, <3>2 DEF Prepare
    <2> QED
      BY <2>1, <2>2
  <1>7. CASE FinishUnit(w) \/ Pause(w)
    BY <1>4, <1>7 DEF FinishUnit, Pause
  <1>11. CASE StartSession(w)
    BY <1>2, <1>11 DEF StartSession, dbVars
  <1>8. CASE (\E findings \in BOOLEAN : Lock(w, findings)) \/ StartOperation(w) \/ Post(w) \/ Receive(w)
             \/ Unlock(w) \/ FailRunning(w)
    BY <1>2, <1>8 DEF Lock, StartOperation, Post, Receive, Unlock, FailRunning, dbVars
  <1>9. CASE Mark(w)
    BY <1>3, <1>9 DEF Mark, Active
  <1>10. CASE Succeed(w) \/ GoStale(w) \/ FailPublishing(w)
    <2>1. CASE FailPublishing(w) /\ ~Active(w)
      BY <1>2, <2>1 DEF FailPublishing, dbVars
    <2> QED
      BY <1>5, <1>10, <2>1 DEF Succeed, GoStale, FailPublishing
  <1> QED
    BY <1>6, <1>7, <1>8, <1>9, <1>10, <1>11 DEF InBody

(* So is every step but an enqueue and a claim.                            *)
LEMMA QuietSteps ==
  ASSUME TypeOK, [Next]_vars
  PROVE  \/ Quiet
         \/ \E p \in PRs : \E v, manual : Enqueue(p, v, manual)
         \/ \E p \in PRs : \E v : EnqueueClosed(p, v)
         \/ \E w \in Workers, j \in Jobs : Claim(w, j)
  <1> USE DEF Quiet, TypeOK, Replaceable, Resting
  <1>1. CASE UNCHANGED <<ident, started, prState, status, attempts>>
    BY <1>1
  <1>2. ASSUME NEW S, status' = Superseding(S), UNCHANGED <<ident, started, prState, attempts>> PROVE Quiet
    BY <1>2 DEF Superseding
  <1>3. ASSUME NEW k \in Jobs, status[k] # "absent", NEW state, state \notin Resting \cup Replaceable,
               UNCHANGED <<ident, started, prState, attempts>>, status' = [status EXCEPT ![k] = state]
        PROVE  Quiet
    BY <1>3
  <1>4. ASSUME NEW enabled, SaveConfig(enabled) \/ SaveRepo(enabled) PROVE Quiet
    BY <1>2, <1>4 DEF SaveConfig, SaveRepo
  <1>5. CASE ArchiveRepo
    BY <1>5 DEF ArchiveRepo, ArchivedStatus
  <1>6. ASSUME NEW k \in Jobs, Continue(k) PROVE Quiet
    BY <1>6 DEF Continue
  <1>7. ASSUME NEW k \in Jobs, RequestCancel(k) \/ ReconcileCancel(k) \/ ConfirmUnpublished(k)
                               \/ \E w \in Workers : Reconcile(w, k)
        PROVE  Quiet
    <2>1. \E state \in {"cancelled", "cancelling", "failed", "succeeded"} : status' = [status EXCEPT ![k] = state]
      BY <1>7 DEF RequestCancel, ReconcileCancel, ConfirmUnpublished, Reconcile
    <2>2. UNCHANGED <<ident, started, prState, attempts>>
      BY <1>7 DEF RequestCancel, ReconcileCancel, ConfirmUnpublished, Reconcile
    <2>3. status[k] # "absent"
      BY <1>7 DEF RequestCancel, Cancellable, ReconcileCancel, ConfirmUnpublished, Reconcile, Settling
    <2> QED
      BY <1>3, <2>1, <2>2, <2>3
  <1>8. ASSUME NEW w \in Workers, Sweep(w) PROVE Quiet
    <2>1. \A j \in Jobs : status'[j] = Swept(j)
      BY <1>8 DEF Sweep, SweptStatus
    <2>2. UNCHANGED <<ident, started, prState, attempts>>
      BY <1>8 DEF Sweep
    <2>3. \A j \in Jobs : Swept(j) \in Replaceable \cup Resting =>
             status[j] = Swept(j)
             \/ (status[j] = "running" /\ Swept(j) = "queued" /\ ~(attempts[j] >= AttemptLimit))
      BY DEF Swept, Lapsed, Executing
    <2>5. \A j \in Jobs : status[j] = "absent" => Swept(j) = "absent"
      BY DEF Swept, Lapsed, Executing
    <2>4. \A j \in Jobs : ~(attempts[j] >= AttemptLimit) => attempts[j] < AttemptLimit
      BY ConstantsOK DEF ConstantsOK
    <2> QED
      BY <2>1, <2>2, <2>3, <2>4, <2>5
  <1>9. ASSUME NEW p \in PRs, Push(p) \/ OpenOrClose(p) PROVE Quiet
    BY <1>1, <1>9 DEF Push, OpenOrClose, dbVars
  <1>10. ASSUME NEW k \in Jobs, LeaseLapses(k) \/ Land(k) \/ Lost(k) \/ EndSession(k) PROVE Quiet
    BY <1>1, <1>10 DEF LeaseLapses, Land, Lost, EndSession, dbVars
  <1>11. ASSUME NEW w \in Workers, Crash(w) \/ Enter(w) \/ Return(w) PROVE Quiet
    BY <1>1, <1>11 DEF Crash, Enter, Return, dbVars
  <1>12. CASE UNCHANGED vars
    BY <1>1, <1>12 DEF vars, dbVars
  <1> QED
    BY <1>4, <1>5, <1>6, <1>7, <1>8, <1>9, <1>10, <1>11, <1>12, BodyQuiet
       DEF Next, Poll, Process, Operators, Environment, Webhook, Scan, Rerun

-----------------------------------------------------------------------------
(***************************************************************************)
(* Attempts.                                                               *)
(***************************************************************************)
Counted ==
    \A j \in Jobs : /\ attempts[j] <= AttemptLimit
                    /\ status[j] \in Resting => attempts[j] < AttemptLimit

(* A claim counts one interruption more for a job that had one to spare.   *)
LEMMA CountedNext ==
  ASSUME TypeOK, Counted, [Next]_vars
  PROVE  Counted'
  <1> USE ConstantsOK DEF Counted, Resting, TypeOK, ConstantsOK
  <1>1. CASE Quiet
    <2> SUFFICES ASSUME NEW j \in Jobs
                 PROVE  attempts'[j] <= AttemptLimit /\ (status'[j] \in Resting => attempts'[j] < AttemptLimit)
      OBVIOUS
    <2>1. attempts'[j] \in {attempts[j], 0}
      BY <1>1 DEF Quiet
    <2>2. status'[j] \in Resting => status[j] \in Resting \/ attempts[j] < AttemptLimit \/ attempts'[j] = 0
      BY <1>1 DEF Quiet
    <2> QED
      BY <2>1, <2>2
  <1>2. ASSUME NEW p \in PRs, NEW v, NEW manual, Enqueue(p, v, manual) PROVE Counted'
    <2>1. PICK k \in Jobs : status[k] = "absent" /\
              status' = [Superseding({i \in Jobs : ident[i].pr = p}) EXCEPT ![k] = "queued"]
      BY <1>2 DEF Enqueue
    <2>2. \A j \in Jobs : status'[j] \in Resting => status[j] \in Resting
      BY <2>1 DEF Superseding
    <2> QED
      BY <1>2, <2>2 DEF Enqueue
  <1>3. ASSUME NEW p \in PRs, NEW v, EnqueueClosed(p, v) PROVE Counted'
    <2>1. \A j \in Jobs : status'[j] \in Resting => status[j] \in Resting
      BY <1>3 DEF EnqueueClosed, Superseding
    <2> QED
      BY <1>3, <2>1 DEF EnqueueClosed
  <1>4. ASSUME NEW w \in Workers, NEW k \in Jobs, Claim(w, k) PROVE Counted'
    <2>1. \A j \in Jobs : Swept(j) \in Resting => attempts[j] < AttemptLimit
      BY DEF Swept, Lapsed, Executing
    <2>2. attempts[k] < AttemptLimit
      BY <1>4, <2>1 DEF Claim, Claimable
    <2>3. attempts' = [attempts EXCEPT ![k] = @ + 1]
      BY <1>4 DEF Claim
    <2>4. \A j \in Jobs : status'[j] = IF j = k THEN "running" ELSE Swept(j)
      BY <1>4 DEF Claim, SweptStatus
    <2> QED
      BY <2>1, <2>2, <2>3, <2>4
  <1> QED
    BY <1>1, <1>2, <1>3, <1>4, QuietSteps

(* claim gives a job up rather than start it once more than AttemptLimit   *)
(* times without progress.                                                 *)
THEOREM InterruptionsAreBounded == Spec => []BoundedInterruptions
  <1>1. Init => Counted
    BY ConstantsOK DEF Init, Counted, ConstantsOK
  <1>2. Counted => BoundedInterruptions
    BY DEF Counted, BoundedInterruptions
  <1> QED
    BY <1>1, <1>2, CountedNext, TypeCorrect, PTL DEF Spec

-----------------------------------------------------------------------------
(***************************************************************************)
(* Order: only the newest generation of a PR waits or runs, and all older  *)
(* ones have ended for good before a newer one is claimed.                 *)
(***************************************************************************)
Order ==
    /\ \A j \in Jobs : status[j] # "absent" => ident[j].gen <= prState[ident[j].pr].gen
    /\ \A j \in Jobs : status[j] \in Replaceable => Current(j)
    /\ \A j, k \in Jobs :
         j # k /\ status[j] # "absent" /\ status[k] # "absent" /\ SamePR(j, k) => ident[j].gen # ident[k].gen
    /\ \A j, k \in Jobs :
         status[j] # "absent" /\ started[k] /\ SamePR(j, k) /\ ident[j].gen < ident[k].gen
           => status[j] \in Terminal

LEMMA OrderQuiet ==
  ASSUME TypeOK, Order, Quiet, [Next]_vars
  PROVE  Order'
  <1>1. ident' = ident /\ started' = started
    BY DEF Quiet
  <1>2. \A j \in Jobs : prState'[ident[j].pr].gen = prState[ident[j].pr].gen
    BY DEF Quiet, TypeOK
  <1>3. \A j \in Jobs : /\ status[j] = "absent" => status'[j] = "absent"
                        /\ status'[j] \in Replaceable => status[j] \in Replaceable \/ Current(j)
    BY DEF Quiet
  <1>4. \A j \in Jobs : status[j] \in Terminal => status'[j] \in Terminal
    BY FinalNext
  <1> QED
    BY <1>1, <1>2, <1>3, <1>4 DEF Order, Current, SamePR

(* A new generation replaces everything of its PR that waits or runs.      *)
LEMMA OrderEnqueue ==
  ASSUME TypeOK, Custody, Order, [Next]_vars, NEW p \in PRs, NEW v, NEW manual, Enqueue(p, v, manual)
  PROVE  Order'
  <1>1. PICK n \in Jobs :
          /\ status[n] = "absent"
          /\ status' = [Superseding({k \in Jobs : ident[k].pr = p}) EXCEPT ![n] = "queued"]
          /\ ident' = [ident EXCEPT ![n] = [pr |-> p, gen |-> prState[p].gen + 1, exec |-> conf.exec,
                                            rev |-> repo.rev, manual |-> manual]]
    BY DEF Enqueue
  <1>2. /\ prState'[p].gen = prState[p].gen + 1
        /\ \A q \in PRs \ {p} : prState'[q].gen = prState[q].gen
    BY DEF Enqueue, NewGeneration, TypeOK
  <1>3. /\ ident'[n].pr = p /\ ident'[n].gen = prState[p].gen + 1
        /\ \A j \in Jobs \ {n} : ident'[j] = ident[j]
    BY <1>1 DEF TypeOK
  <1>4. /\ status'[n] = "queued" /\ started' = started /\ ~started[n]
        /\ \A j \in Jobs \ {n} : /\ status[j] = "absent" => status'[j] = "absent"
                                 /\ status'[j] \in Replaceable => status[j] \in Replaceable /\ ident[j].pr # p
    BY <1>1 DEF Superseding, Enqueue, Replaceable, TypeOK, Custody, StartedExists
  <1>5. \A j \in Jobs : status[j] \in Terminal => status'[j] \in Terminal
    BY FinalNext
  <1>6. \A j \in Jobs : status[j] # "absent" => ident[j].gen <= prState[ident[j].pr].gen
    BY DEF Order
  <1>7. \A j \in Jobs : ident[j].pr \in PRs /\ ident[j].gen \in Nat /\ prState[ident[j].pr].gen \in Nat
    BY DEF TypeOK
  <1>8. prState[p].gen \in Nat
    BY DEF TypeOK
  <1>9. \A j \in Jobs : status'[j] # "absent" => ident'[j].gen <= prState'[ident'[j].pr].gen
    BY <1>2, <1>3, <1>4, <1>6, <1>7, <1>8
  <1>10. \A j \in Jobs : status'[j] \in Replaceable => Current(j)'
    BY <1>2, <1>3, <1>4, <1>7, <1>8 DEF Order, Current
  <1>11. \A j, k \in Jobs : j # k /\ status'[j] # "absent" /\ status'[k] # "absent" /\ SamePR(j, k)'
                              => ident'[j].gen # ident'[k].gen
    BY <1>3, <1>4, <1>6, <1>7, <1>8 DEF Order, SamePR
  <1>12. ASSUME NEW j \in Jobs, NEW k \in Jobs, status'[j] # "absent", started'[k], SamePR(j, k)',
                ident'[j].gen < ident'[k].gen
         PROVE  status'[j] \in Terminal
    <2>1. k # n /\ started[k] /\ status[k] # "absent"
      BY <1>4, <1>12 DEF Custody, StartedExists
    <2>2. j # n
      BY <1>3, <1>6, <1>7, <1>8, <1>12, <2>1 DEF SamePR
    <2> QED
      BY <1>3, <1>4, <1>5, <1>12, <2>1, <2>2 DEF Order, SamePR
  <1> QED
    BY <1>9, <1>10, <1>11, <1>12 DEF Order

LEMMA OrderClosed ==
  ASSUME TypeOK, Custody, Order, [Next]_vars, NEW p \in PRs, NEW v, EnqueueClosed(p, v)
  PROVE  Order'
  <1>1. /\ prState'[p].gen = prState[p].gen + 1
        /\ \A q \in PRs \ {p} : prState'[q].gen = prState[q].gen
    BY DEF EnqueueClosed, NewGeneration, TypeOK
  <1>2. ident' = ident /\ started' = started
    BY DEF EnqueueClosed
  <1>3. \A j \in Jobs : /\ status[j] = "absent" => status'[j] = "absent"
                        /\ status'[j] \in Replaceable => status[j] \in Replaceable /\ ident[j].pr # p
    BY DEF EnqueueClosed, Superseding, Replaceable
  <1>4. \A j \in Jobs : status[j] \in Terminal => status'[j] \in Terminal
    BY FinalNext
  <1>5. \A j \in Jobs : ident[j].pr \in PRs /\ ident[j].gen \in Nat /\ prState[ident[j].pr].gen \in Nat
    BY DEF TypeOK
  <1> QED
    BY <1>1, <1>2, <1>3, <1>4, <1>5 DEF Order, Current, SamePR

(* A claim finds every older job of the PR ended: what waits or runs is    *)
(* current, and a publication or a cancellation under way forbids it.      *)
LEMMA OrderClaim ==
  ASSUME TypeOK, Order, [Next]_vars, NEW w \in Workers, NEW n \in Jobs, Claim(w, n)
  PROVE  Order'
  <1>1. /\ ident' = ident /\ prState' = prState
        /\ \A j \in Jobs : started'[j] = IF j = n THEN TRUE ELSE started[j]
        /\ \A j \in Jobs : status'[j] = IF j = n THEN "running" ELSE Swept(j)
    BY DEF Claim, SweptStatus, TypeOK
  <1>2. Swept(n) = "queued" /\ \A j \in Jobs : SamePR(n, j) => Swept(j) # "publish_unknown"
    BY DEF Claim, Claimable
  <1>3. \A j \in Jobs : status[j] # "cancelling" /\ ~(status[j] \in Executing /\ leased[j])
    BY DEF Claim, MayClaim
  <1>4. \A j \in Jobs : /\ status[j] = "absent" => Swept(j) = "absent"
                        /\ Swept(j) \in Replaceable => status[j] \in Replaceable
    BY DEF Swept, Lapsed, Executing, Replaceable
  <1>5. \A j \in Jobs : status[j] \in Terminal => status'[j] \in Terminal
    BY FinalNext
  <1>6. ASSUME NEW j \in Jobs, j # n, status[j] # "absent", SamePR(n, j), ident[j].gen < ident[n].gen
        PROVE  status[j] \in Terminal
    <2>1. status[n] \in Replaceable
      BY <1>2, <1>4 DEF Replaceable
    <2>2. status[j] \notin Replaceable
      BY <1>6, <2>1 DEF Order, Current, SamePR, TypeOK
    <2>3. status[j] # "publish_unknown" /\ status[j] # "publishing"
      BY <1>2, <1>3, <1>6 DEF Swept, Lapsed, Executing
    <2> QED
      BY <1>3, <1>6, <2>2, <2>3 DEF TypeOK, Statuses, Executing, Replaceable, Terminal
  <1>7. \A j \in Jobs : status'[j] # "absent" => status[j] # "absent"
    BY <1>1, <1>2, <1>4
  <1>8. \A j \in Jobs : status'[j] \in Replaceable => status[j] \in Replaceable
    BY <1>1, <1>2, <1>4 DEF Replaceable
  <1>9. ASSUME NEW j \in Jobs, NEW k \in Jobs, status'[j] # "absent", started'[k], SamePR(j, k),
               ident[j].gen < ident[k].gen
        PROVE  status'[j] \in Terminal
    <2>1. CASE k = n
      <3>1. j # n
        BY <1>9, <2>1 DEF TypeOK
      <3> QED
        BY <1>5, <1>6, <1>7, <1>9, <2>1, <3>1 DEF SamePR
    <2>2. CASE k # n
      BY <1>1, <1>5, <1>7, <1>9, <2>2 DEF Order
    <2> QED
      BY <2>1, <2>2
  <1> QED
    BY <1>1, <1>7, <1>8, <1>9 DEF Order, Current, SamePR

(* Only the newest generation of a PR waits or runs, and a job is claimed  *)
(* only when every older job of its PR has ended for good.                 *)
THEOREM OrderKept == Spec => []Order
  <1>1. Init => Order
    BY DEF Init, Order, Replaceable
  <1>2. TypeOK /\ Custody /\ Order /\ [Next]_vars => Order'
    BY QuietSteps, OrderQuiet, OrderEnqueue, OrderClosed, OrderClaim
  <1> QED
    BY <1>1, <1>2, CustodyKept, TypeCorrect, PTL DEF Spec

(* While the publication of a job is unknown no other job of its PR is     *)
(* executed, with or without a lease.                                      *)
THEOREM UnknownStopsThePR == Spec => []NoWorkBesideUnknown
  <1>1. TypeOK /\ Custody /\ Order => NoWorkBesideUnknown
    <2> SUFFICES ASSUME TypeOK, Custody, Order, NEW j \in Jobs, NEW k \in Jobs,
                        status[j] = "publish_unknown", j # k, SamePR(j, k), status[k] \in Executing
                 PROVE  FALSE
      BY DEF NoWorkBesideUnknown
    <2>1. started[j] /\ started[k] /\ SamePR(k, j)
      BY DEF Custody, StartedExists, Executing, SamePR
    <2>2. ident[j].gen # ident[k].gen
      BY DEF Order, Executing
    <2>3. ident[j].gen \in Nat /\ ident[k].gen \in Nat
      BY DEF TypeOK
    <2>4. ident[j].gen < ident[k].gen \/ ident[k].gen < ident[j].gen
      BY <2>2, <2>3
    <2> QED
      BY <2>1, <2>4 DEF Order, Executing, Terminal
  <1> QED
    BY <1>1, TypeCorrect, CustodyKept, OrderKept, PTL

(* Requests are sent by Post and take effect by Land, and by nothing else. *)
LEMMA WriteSteps ==
  ASSUME TypeOK, [Next]_vars, NEW j \in Jobs, net'[j] > net[j] \/ remote'[j] > remote[j]
  PROVE  Land(j) \/ \E w \in Workers : Post(w) /\ held[w] = j
  <1> USE DEF TypeOK
  <1>1. CASE net' = net /\ remote' = remote
    BY <1>1
  <1>2. ASSUME NEW w \in Workers, Post(w) PROVE held[w] = j
    <2>1. held[w] \in Jobs /\ net' = [net EXCEPT ![held[w]] = @ + 1] /\ remote' = remote
      BY <1>2, HeldJob DEF Post
    <2>2. ~(remote'[j] > remote[j]) /\ net[j] \in Nat
      BY <2>1
    <2>3. held[w] # j => net'[j] = net[j]
      BY <2>1
    <2> QED
      BY <2>2, <2>3
  <1>3. ASSUME NEW k \in Jobs, Land(k) PROVE j = k
    BY <1>3 DEF Land
  <1>4. ASSUME NEW k \in Jobs, Lost(k) PROVE FALSE
    BY <1>4 DEF Lost
  <1>5. ASSUME NEW w \in Workers, InBody(w) PROVE Post(w) \/ (net' = net /\ remote' = remote)
    <2>1. CASE Prepare(w) \/ StartSession(w) \/ FinishUnit(w) \/ Pause(w) \/ \E findings \in BOOLEAN : Lock(w, findings)
      BY <2>1 DEF Prepare, StartSession, FinishUnit, Pause, Transition, Lock, outside
    <2>2. CASE Mark(w) \/ StartOperation(w) \/ Receive(w) \/ Unlock(w) \/ FailRunning(w)
      BY <2>2 DEF Mark, StartOperation, Receive, Unlock, FailRunning, outside
    <2>3. CASE Succeed(w) \/ GoStale(w) \/ FailPublishing(w)
      BY <2>3 DEF Succeed, GoStale, FailPublishing, Finish, outside
    <2> QED
      BY <1>5, <2>1, <2>2, <2>3 DEF InBody
  <1>6. ASSUME NEW w \in Workers, Poll(w) \/ Enter(w) \/ Return(w) \/ Crash(w) \/ \E k \in Jobs : Reconcile(w, k)
        PROVE  net' = net /\ remote' = remote
    BY <1>6 DEF Poll, Sweep, Claim, Enter, Return, Crash, Reconcile, outside
  <1>7. CASE Operators \/ \E k \in Jobs : ReconcileCancel(k)
    BY <1>1, <1>7 DEF Operators, Rerun, Enqueue, SaveConfig, SaveRepo, ArchiveRepo, Continue, RequestCancel,
                      ConfirmUnpublished, ReconcileCancel, outside
  <1>8. ASSUME NEW p \in PRs, Push(p) \/ OpenOrClose(p) \/ Webhook(p) \/ Scan(p) PROVE net' = net /\ remote' = remote
    BY <1>8 DEF Push, OpenOrClose, Webhook, Scan, Enqueue, EnqueueClosed, outside
  <1>9. ASSUME NEW k \in Jobs, LeaseLapses(k) \/ EndSession(k) PROVE net' = net /\ remote' = remote
    BY <1>9 DEF LeaseLapses, EndSession, outside
  <1>10. CASE UNCHANGED vars
    BY <1>1, <1>10 DEF vars, outside
  <1> QED
    BY <1>1, <1>2, <1>3, <1>4, <1>5, <1>6, <1>7, <1>8, <1>9, <1>10 DEF Next, Process, Environment

(* A request for an older generation is never sent, and never takes        *)
(* effect, after a newer generation of the PR has begun to publish.        *)
THEOREM ReviewsStayInOrder == Spec => ReviewsInOrder
  <1>1. TypeOK /\ Custody /\ Writes /\ Order /\ [Next]_vars =>
          [\A j \in Jobs :
             net'[j] > net[j] \/ remote'[j] > remote[j] =>
               \A k \in Jobs : SamePR(j, k) /\ ident[k].gen > ident[j].gen
                                => op[k] \notin {"started", "done"}]_vars
    <2> SUFFICES ASSUME TypeOK, Custody, Writes, Order, [Next]_vars, NEW j \in Jobs, NEW k \in Jobs,
                        net'[j] > net[j] \/ remote'[j] > remote[j],
                        SamePR(j, k), ident[k].gen > ident[j].gen, op[k] \in {"started", "done"}
                 PROVE  FALSE
      OBVIOUS
    <2>1. status[j] \in Unsettled
      <3>1. CASE Land(j)
        <4>1. net[j] > 0 /\ net[j] \in Nat /\ remote[j] \in Nat
                /\ op[j] \in {"none", "queued", "started", "done"} /\ Written(j)
          BY <3>1 DEF Land, Writes, TypeOK
        <4> QED
          BY <4>1 DEF Written, Unsettled
      <3>2. ASSUME NEW w \in Workers, Post(w), held[w] = j PROVE status[j] \in Unsettled
        BY <3>2 DEF Post, Writes, Writer
      <3> QED
        BY <3>1, <3>2, WriteSteps
    <2>2. started[k]
      BY DEF Custody, StartedExists
    <2>3. ident[j].gen < ident[k].gen
      BY DEF TypeOK
    <2> QED
      BY <2>1, <2>2, <2>3 DEF Order, Unsettled, Terminal
  <1> QED
    BY <1>1, TypeCorrect, CustodyKept, WritesKept, OrderKept, PTL DEF Spec, ReviewsInOrder

-----------------------------------------------------------------------------
(***************************************************************************)
(* Cancellation.                                                           *)
(***************************************************************************)
(* A worker inside a job never cancels it.                                 *)
LEMMA BodyCancels ==
  ASSUME TypeOK, NEW w \in Workers, InBody(w), NEW j \in Jobs, status'[j] = "cancelled"
  PROVE  status[j] = "cancelled"
  <1> USE DEF TypeOK
  <1>1. CASE status' = status
    BY <1>1
  <1>2. ASSUME NEW state, state # "cancelled", status' = [status EXCEPT ![held[w]] = state]
        PROVE  status[j] = "cancelled"
    BY <1>2
  <1>3. CASE Prepare(w) \/ StartSession(w) \/ (\E findings \in BOOLEAN : Lock(w, findings)) \/ StartOperation(w) \/ Post(w)
             \/ Receive(w) \/ Unlock(w) \/ FailRunning(w)
    BY <1>1, <1>3 DEF Prepare, StartSession, Lock, StartOperation, Post, Receive, Unlock, FailRunning, dbVars
  <1>4. CASE FinishUnit(w) \/ Pause(w) \/ Mark(w)
    BY <1>2, <1>4 DEF FinishUnit, Pause, Mark, Transition
  <1>5. CASE Succeed(w) \/ GoStale(w) \/ FailPublishing(w)
    BY <1>1, <1>2, <1>5 DEF Succeed, GoStale, FailPublishing, Finish, dbVars
  <1> QED
    BY <1>3, <1>4, <1>5 DEF InBody

(* cancelled means stopped has two halves: no worker is inside the job, ... *)
Unlocked == \A j \in Jobs : status[j] = "cancelled" => ~ExecutionLocked(j)

LEMMA LockedNext ==
  ASSUME TypeOK, Custody, Unlocked, [Next]_vars
  PROVE  Unlocked'
  <1> USE DEF TypeOK, Unlocked, ExecutionLocked
  <1>1. ASSUME \A j \in Jobs : status'[j] = "cancelled" => status[j] = "cancelled",
               \A w \in Workers : pc'[w] \in Body => pc[w] \in Body /\ held'[w] = held[w]
        PROVE  Unlocked'
    BY <1>1
  <1>2. ASSUME UNCHANGED <<status, pc, held>> PROVE Unlocked'
    BY <1>2
  <1>3. ASSUME UNCHANGED <<pc, held>>, NEW S, status' = Superseding(S) PROVE Unlocked'
    BY <1>3 DEF Superseding
  <1>4. ASSUME NEW p \in PRs, Push(p) \/ OpenOrClose(p) \/ Webhook(p) \/ Scan(p) \/ Rerun(p)
        PROVE  Unlocked'
    <2>1. CASE Push(p) \/ OpenOrClose(p)
      BY <1>2, <2>1 DEF Push, OpenOrClose, dbVars, workers
    <2>2. ASSUME NEW v, EnqueueClosed(p, v) PROVE Unlocked'
      BY <1>3, <2>2 DEF EnqueueClosed, workers
    <2>3. ASSUME NEW v, NEW manual, Enqueue(p, v, manual) PROVE Unlocked'
      <3>1. \A j \in Jobs : status'[j] = "cancelled" => status[j] = "cancelled"
        BY <2>3 DEF Enqueue, Superseding
      <3> QED
        BY <1>1, <2>3, <3>1 DEF Enqueue, workers
    <2> QED
      BY <1>4, <2>1, <2>2, <2>3 DEF Webhook, Scan, Rerun
  <1>5. ASSUME NEW enabled, SaveConfig(enabled) \/ SaveRepo(enabled) PROVE Unlocked'
    BY <1>3, <1>5 DEF SaveConfig, SaveRepo, workers
  <1>6. CASE ArchiveRepo
    BY <1>1, <1>6 DEF ArchiveRepo, ArchivedStatus, workers
  <1>7. ASSUME NEW j \in Jobs, Continue(j) \/ ConfirmUnpublished(j) \/ \E w \in Workers : Reconcile(w, j)
        PROVE  Unlocked'
    BY <1>1, <1>7 DEF Continue, ConfirmUnpublished, Reconcile, workers
  <1>8. ASSUME NEW j \in Jobs, RequestCancel(j) \/ ReconcileCancel(j) PROVE Unlocked'
    <2>1. status' = [status EXCEPT ![j] = "cancelling"] \/ status' = [status EXCEPT ![j] = "cancelled"]
      BY <1>8 DEF RequestCancel, ReconcileCancel
    <2>2. status'[j] = "cancelled" => ~ExecutionLocked(j)
      <3>1. CASE ReconcileCancel(j)
        BY <3>1 DEF ReconcileCancel, Stopped
      <3>2. CASE RequestCancel(j)
        BY <3>2, ConstantsOK DEF RequestCancel, NeverStarted, Custody, HeldStarted, ConstantsOK
      <3> QED
        BY <1>8, <3>1, <3>2
    <2>3. pc' = pc /\ held' = held
      BY <1>8 DEF RequestCancel, ReconcileCancel, workers
    <2> QED
      BY <2>1, <2>2, <2>3
  <1>9. ASSUME NEW w \in Workers, InBody(w) PROVE Unlocked'
    BY <1>1, <1>9, BodyCancels, BodyFrame
  <1>10. \A j \in Jobs : Swept(j) = "cancelled" => status[j] = "cancelled"
    BY DEF Swept
  <1>11. ASSUME NEW w \in Workers, NEW j \in Jobs, Claim(w, j) PROVE Unlocked'
    <2>1. \A i \in Jobs : status'[i] = "cancelled" => status[i] = "cancelled"
      BY <1>10, <1>11 DEF Claim, SweptStatus
    <2>2. \A v \in Workers : pc'[v] \in Body => pc[v] \in Body /\ held'[v] = held[v]
      BY <1>11 DEF Claim, Goto, Body, Publication
    <2> QED
      BY <1>1, <2>1, <2>2
  <1>12. ASSUME NEW w \in Workers, Sweep(w) PROVE Unlocked'
    BY <1>1, <1>10, <1>12 DEF Sweep, SweptStatus, workers
  <1>13. ASSUME NEW w \in Workers, Enter(w) PROVE Unlocked'
    <2>1. CASE Active(w)
      <3>1. /\ UNCHANGED <<status, held>> /\ pc' = [pc EXCEPT ![w] = "inside"]
            /\ status[held[w]] # "cancelled"
        BY <1>13, <2>1 DEF Enter, Goto, Active, Executing, dbVars
      <3> QED
        BY <3>1
    <2>2. CASE ~Active(w)
      BY <1>1, <1>13, <2>2 DEF Enter, Goto, dbVars, Body, Publication
    <2> QED
      BY <2>1, <2>2
  <1>14. ASSUME NEW w \in Workers, Return(w) \/ Crash(w) PROVE Unlocked'
    BY <1>1, <1>14 DEF Return, Crash, dbVars, Body, Publication
  <1>15. ASSUME NEW j \in Jobs, LeaseLapses(j) \/ Land(j) \/ Lost(j) \/ EndSession(j) PROVE Unlocked'
    BY <1>2, <1>15 DEF LeaseLapses, Land, Lost, EndSession, dbVars, workers
  <1>16. CASE UNCHANGED vars
    BY <1>2, <1>16 DEF vars, dbVars, workers
  <1> QED
    BY <1>4, <1>5, <1>6, <1>7, <1>8, <1>9, <1>11, <1>12, <1>13, <1>14, <1>15, <1>16
       DEF Next, Poll, Process, Operators, Environment

(* ... and no session of it runs: the status is reached only by the two    *)
(* steps of a cancellation, which look at the session, ...                 *)
LEMMA CancelledBy ==
  ASSUME TypeOK, [Next]_vars, NEW j \in Jobs, status'[j] = "cancelled", status[j] # "cancelled"
  PROVE  RequestCancel(j) \/ ReconcileCancel(j)
  <1> USE DEF TypeOK
  <1> SUFFICES ASSUME ~RequestCancel(j), ~ReconcileCancel(j) PROVE FALSE
    OBVIOUS
  <1>1. CASE status' = status
    BY <1>1
  <1>2. ASSUME NEW S, status' = Superseding(S) PROVE FALSE
    BY <1>2 DEF Superseding
  <1>3. ASSUME NEW p \in PRs, NEW v, NEW manual, Enqueue(p, v, manual) PROVE FALSE
    BY <1>3 DEF Enqueue, Superseding
  <1>4. ASSUME NEW p \in PRs, NEW v, EnqueueClosed(p, v) PROVE FALSE
    BY <1>2, <1>4 DEF EnqueueClosed
  <1>5. ASSUME NEW enabled, SaveConfig(enabled) \/ SaveRepo(enabled) PROVE FALSE
    BY <1>2, <1>5 DEF SaveConfig, SaveRepo
  <1>6. CASE ArchiveRepo
    BY <1>6 DEF ArchiveRepo, ArchivedStatus
  <1>7. ASSUME NEW k \in Jobs, \/ Continue(k) \/ ConfirmUnpublished(k) \/ RequestCancel(k) \/ ReconcileCancel(k)
                               \/ \E w \in Workers : Reconcile(w, k)
        PROVE  FALSE
    <2>1. CASE k = j
      BY <1>7, <2>1 DEF Continue, ConfirmUnpublished, Reconcile
    <2>2. CASE k # j
      BY <1>7, <2>2 DEF Continue, ConfirmUnpublished, Reconcile, RequestCancel, ReconcileCancel
    <2> QED
      BY <2>1, <2>2
  <1>8. ASSUME NEW w \in Workers, Sweep(w) \/ \E k \in Jobs : Claim(w, k) PROVE FALSE
    <2>1. SweptStatus \in [Jobs -> {Swept(k) : k \in Jobs}] /\ SweptStatus[j] # "cancelled"
      BY DEF SweptStatus, Swept
    <2>2. CASE Sweep(w)
      BY <2>1, <2>2 DEF Sweep
    <2>3. ASSUME NEW k \in Jobs, Claim(w, k) PROVE FALSE
      <3>1. status' = [SweptStatus EXCEPT ![k] = "running"]
        BY <2>3 DEF Claim
      <3> HIDE DEF SweptStatus
      <3> QED
        BY <2>1, <3>1
    <2> QED
      BY <1>8, <2>2, <2>3
  <1>9. ASSUME NEW w \in Workers, InBody(w) PROVE FALSE
    BY <1>9, BodyCancels
  <1>10. ASSUME NEW w \in Workers, Enter(w) \/ Return(w) \/ Crash(w) PROVE FALSE
    BY <1>1, <1>10 DEF Enter, Return, Crash, dbVars
  <1>11. ASSUME NEW p \in PRs, Push(p) \/ OpenOrClose(p) PROVE FALSE
    BY <1>1, <1>11 DEF Push, OpenOrClose, dbVars
  <1>12. ASSUME NEW k \in Jobs, LeaseLapses(k) \/ Land(k) \/ Lost(k) \/ EndSession(k) PROVE FALSE
    BY <1>1, <1>12 DEF LeaseLapses, Land, Lost, EndSession, dbVars
  <1>13. CASE UNCHANGED vars
    BY <1>1, <1>13 DEF vars, dbVars
  <1> QED
    BY <1>3, <1>4, <1>5, <1>6, <1>7, <1>8, <1>9, <1>10, <1>11, <1>12, <1>13
       DEF Next, Poll, Process, Operators, Environment, Webhook, Scan, Rerun

(* ... and a session starts only for a worker whose job still executes.    *)
LEMMA LiveBy ==
  ASSUME TypeOK, [Next]_vars, NEW j \in Jobs, session'[j] = "live", session[j] # "live"
  PROVE  status'[j] \in Executing
  <1> USE DEF TypeOK
  <1>1. CASE session' = session
    BY <1>1
  <1>2. ASSUME NEW k \in Jobs, NEW s, s # "live", session' = [session EXCEPT ![k] = s] PROVE FALSE
    BY <1>2
  <1>3. ASSUME NEW w \in Workers, StartSession(w) PROVE status'[j] \in Executing
    <2>1. held[w] \in Jobs
      BY <1>3, HeldJob DEF StartSession
    <2>2. held[w] = j
      BY <1>3, <2>1 DEF StartSession
    <2> QED
      BY <1>3, <2>2 DEF StartSession, Active, dbVars
  <1>4. ASSUME NEW w \in Workers, FinishUnit(w) \/ Pause(w) PROVE FALSE
    <2>1. held[w] \in Jobs
      BY <1>4, HeldJob DEF FinishUnit, Pause
    <2>2. \E s : s # "live" /\ (session' = session \/ session' = [session EXCEPT ![held[w]] = s])
      <3>1. CASE FinishUnit(w)
        BY <3>1 DEF FinishUnit
      <3>2. CASE Pause(w)
        <4>1. session' = [session EXCEPT ![held[w]] = IF @ = "over" THEN "none" ELSE @]
          BY <3>2 DEF Pause
        <4>2. CASE session[held[w]] = "over"
          BY <4>1, <4>2
        <4>3. CASE session[held[w]] # "over"
          BY <2>1, <4>1, <4>3
        <4> QED
          BY <4>2, <4>3
      <3> QED
        BY <1>4, <3>1, <3>2
    <2> QED
      BY <1>1, <1>2, <2>1, <2>2
  <1>5. ASSUME NEW w \in Workers, InBody(w), ~StartSession(w), ~FinishUnit(w), ~Pause(w)
        PROVE  session' = session
    BY <1>5 DEF InBody, Prepare, Lock, Mark, StartOperation, Post, Receive, Unlock, Succeed, GoStale,
                FailPublishing, FailRunning, Finish, outside
  <1>6. ASSUME NEW k \in Jobs, EndSession(k) PROVE FALSE
    BY <1>2, <1>6 DEF EndSession
  <1>7. ASSUME NEW w \in Workers, Poll(w) \/ Enter(w) \/ Return(w) \/ Crash(w) \/ \E k \in Jobs : Reconcile(w, k)
        PROVE  session' = session
    BY <1>7 DEF Poll, Sweep, Claim, Enter, Return, Crash, Reconcile, outside
  <1>8. CASE Operators \/ \E k \in Jobs : ReconcileCancel(k)
    BY <1>1, <1>8 DEF Operators, Rerun, Enqueue, SaveConfig, SaveRepo, ArchiveRepo, Continue, RequestCancel,
                      ConfirmUnpublished, ReconcileCancel, outside
  <1>9. ASSUME NEW p \in PRs, Push(p) \/ OpenOrClose(p) \/ Webhook(p) \/ Scan(p) PROVE session' = session
    BY <1>9 DEF Push, OpenOrClose, Webhook, Scan, Enqueue, EnqueueClosed, outside
  <1>10. ASSUME NEW k \in Jobs, LeaseLapses(k) \/ Land(k) \/ Lost(k) PROVE session' = session
    BY <1>10 DEF LeaseLapses, Land, Lost, outside
  <1>11. CASE UNCHANGED vars
    BY <1>1, <1>11 DEF vars, outside
  <1> QED
    BY <1>1, <1>3, <1>4, <1>5, <1>6, <1>7, <1>8, <1>9, <1>10, <1>11
       DEF Next, Process, Environment

LEMMA CancelNext ==
  ASSUME TypeOK, Custody, CancelMeansStopped, [Next]_vars
  PROVE  CancelMeansStopped'
  <1>1. Unlocked'
    BY LockedNext DEF CancelMeansStopped, Unlocked
  <1>2. ASSUME NEW j \in Jobs, status'[j] = "cancelled" PROVE session'[j] # "live"
    <2>1. CASE status[j] = "cancelled"
      BY <1>2, <2>1, LiveBy DEF CancelMeansStopped, Executing
    <2>2. CASE status[j] # "cancelled"
      <3>1. RequestCancel(j) \/ ReconcileCancel(j)
        BY <1>2, <2>2, CancelledBy
      <3>2. session' = session
        BY <3>1 DEF RequestCancel, ReconcileCancel, outside
      <3>3. session[j] # "live"
        <4>1. CASE RequestCancel(j)
          BY <1>2, <4>1 DEF RequestCancel, NeverStarted, TypeOK
        <4>2. CASE ReconcileCancel(j)
          BY <4>2 DEF ReconcileCancel, Stopped
        <4> QED
          BY <3>1, <4>1, <4>2
      <3> QED
        BY <3>2, <3>3
    <2> QED
      BY <2>1, <2>2
  <1> QED
    BY <1>1, <1>2 DEF CancelMeansStopped, Unlocked

(* A job shown as cancelled has no worker inside it any more, and no       *)
(* session that runs.                                                      *)
THEOREM CancelledHasStopped == Spec => []CancelMeansStopped
  <1>1. Init => CancelMeansStopped
    BY DEF Init, CancelMeansStopped
  <1> QED
    BY <1>1, CancelNext, CustodyKept, TypeCorrect, PTL DEF Spec
=============================================================================
