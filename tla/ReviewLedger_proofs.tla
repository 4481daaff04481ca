------------------------ MODULE ReviewLedger_proofs ------------------------
(***************************************************************************)
(* ReviewQueue implements ReviewLedger: every step of the queue is a step  *)
(* of the ledger or a stutter, under the mapping of ReviewQueue.  The      *)
(* invariants of ReviewQueue_proofs and ReviewQueueOrder_proofs say what   *)
(* the mapped request of a job is where its verdict changes.               *)
(***************************************************************************)
EXTENDS ReviewQueueOrder_proofs

LStep == [Ledger!Next]_(Ledger!vars)

(* Steps of the ledger, in terms of the mapped verdicts and requests.      *)
Unwriting == {"unsent", "spent"}

LEMMA LedgerDrop ==
  ASSUME ident' = ident,
         \A j \in Jobs : Request(j)' = Request(j),
         \A j \in Jobs : \/ Verdict(j)' = Verdict(j)
                         \/ Verdict(j) = "open" /\ Verdict(j)' = "dropped" /\ Request(j) \in Unwriting
  PROVE  LStep
  <1> DEFINE S == {j \in Jobs : Verdict(j)' # Verdict(j)}
  <1>1. S \subseteq Ledger!Droppable
    BY DEF Ledger!Droppable, Unwriting
  <1>2. [j \in Jobs |-> Verdict(j)'] = Ledger!Dropping(S)
    BY DEF Ledger!Dropping
  <1>3. Ledger!Drop(S)
    BY <1>1, <1>2 DEF Ledger!Drop
  <1>4. S \in SUBSET Jobs
    OBVIOUS
  <1> QED
    BY <1>3, <1>4 DEF LStep, Ledger!Next

LEMMA LedgerBecomes ==
  ASSUME NEW j \in Jobs, ident' = ident, \A k \in Jobs : Verdict(k)' = Verdict(k),
         \A k \in Jobs \ {j} : Request(k)' = Request(k),
         \/ Request(j) = "armed" /\ Request(j)' \in {"sent", "spent"}
         \/ Request(j) = "sent" /\ Request(j)' \in {"visible", "spent"}
         \/ /\ Request(j) = "unsent" /\ Request(j)' = "armed" /\ Verdict(j) = "open"
            /\ \A k \in Jobs : Verdict(k) # "absent" /\ SamePR(k, j) /\ ident[k].gen < ident[j].gen
                                => Verdict(k) # "open"
  PROVE  LStep
  <1>1. Ledger!Becomes(j, Request(j), Request(j)')
    BY DEF Ledger!Becomes
  <1>2. Ledger!Send(j) \/ Ledger!Disarm(j) \/ Ledger!Land(j) \/ Ledger!Lose(j) \/ Ledger!Arm(j)
    BY <1>1 DEF Ledger!Send, Ledger!Disarm, Ledger!Land, Ledger!Lose, Ledger!Arm, Ledger!Older, SamePR
  <1> QED
    BY <1>2 DEF LStep, Ledger!Next

LEMMA LedgerPublish ==
  ASSUME NEW j \in Jobs, ident' = ident, \A k \in Jobs : Request(k)' = Request(k),
         \A k \in Jobs \ {j} : Verdict(k)' = Verdict(k),
         Verdict(j) = "open", Verdict(j)' = "published", Request(j) \in {"visible", "unsent"}
  PROVE  LStep
  <1>1. Ledger!Publish(j)
    BY DEF Ledger!Publish
  <1> QED
    BY <1>1 DEF LStep, Ledger!Next

LEMMA LedgerRegister ==
  ASSUME NEW n \in Jobs, NEW p \in PRs, NEW g \in 1 .. MaxGen,
         ident'[n].pr = p, ident'[n].gen = g, \A k \in Jobs \ {n} : ident'[k] = ident[k],
         \A k \in Jobs : Request(k)' = Request(k),
         \A k \in Jobs : Verdict(k) # "absent" /\ ident[k].pr = p => ident[k].gen < g,
         Verdict(n) = "absent", Verdict(n)' = "open",
         \A k \in Jobs \ {n} :
            \/ Verdict(k)' = Verdict(k)
            \/ Verdict(k) = "open" /\ Verdict(k)' = "dropped" /\ Request(k) \in Unwriting
  PROVE  LStep
  <1>1. PICK S \in SUBSET Jobs : S = {k \in Jobs \ {n} : Verdict(k)' # Verdict(k)}
    OBVIOUS
  <1>2. S \subseteq Ledger!Droppable
    BY <1>1 DEF Ledger!Droppable, Unwriting
  <1>3. [k \in Jobs |-> Verdict(k)'] = [Ledger!Dropping(S) EXCEPT ![n] = "open"]
    BY <1>1 DEF Ledger!Dropping
  <1>4. /\ [k \in Jobs |-> ident'[k].pr] = [[k \in Jobs |-> ident[k].pr] EXCEPT ![n] = p]
        /\ [k \in Jobs |-> ident'[k].gen] = [[k \in Jobs |-> ident[k].gen] EXCEPT ![n] = g]
    OBVIOUS
  <1>5. Ledger!Register(n, p, g, S)
    BY <1>2, <1>3, <1>4 DEF Ledger!Register
  <1> QED
    BY <1>5 DEF LStep, Ledger!Next

(* Only sender, operation row and Gitea make up the request of a job.      *)
LEMMA SameRequest ==
  ASSUME NEW j \in Jobs, net'[j] = net[j], remote'[j] = remote[j],
         op'[j] \in {"started", "done"} <=> op[j] \in {"started", "done"},
         Sending(j)' <=> Sending(j)
  PROVE  Request(j)' = Request(j)
  BY DEF Request

LEMMA SameSending ==
  ASSUME UNCHANGED <<pc, held>>, NEW j \in Jobs
  PROVE  Sending(j)' <=> Sending(j)
  BY DEF Sending

(* A job that is neither publishing nor was given up while it might have   *)
(* been has sent nothing.                                                  *)
LEMMA NotWritten ==
  ASSUME TypeOK, Writes, NEW j \in Jobs, op[j] \in {"none", "queued"}
  PROVE  Request(j) = "unsent"
  <1>1. ~Sending(j)
    BY DEF Sending, Writes, Writer
  <1>2. net[j] = 0 /\ remote[j] = 0
    BY DEF Writes, Written
  <1> QED
    BY <1>1, <1>2 DEF Request

LEMMA UnwrittenRequest ==
  ASSUME TypeOK, Writes, NEW j \in Jobs, status[j] \in Unwritten \cup {"cancelling"}
  PROVE  Request(j) = "unsent"
  <1>1. Written(j) /\ op[j] \in {"none", "queued", "started", "done"}
    BY DEF TypeOK, Writes
  <1>2. op[j] \in {"none", "queued"}
    BY <1>1 DEF Written, Unsettled, Unwritten
  <1> QED
    BY <1>2, NotWritten

(* Where a worker that sends can be told from the position of one worker.  *)
LEMMA SendingAlone ==
  ASSUME TypeOK, Custody, NEW w \in Workers, pc[w] \in Body
  PROVE  Sending(held[w]) <=> pc[w] = "sending"
  BY DEF Sending, Custody, OneInside, Body, Publication

-----------------------------------------------------------------------------
(* What the store does to the statuses replaces or cancels unwritten jobs. *)
LEMMA StoreLedger ==
  ASSUME TypeOK, Writes, StoreStep, ident' = ident,
         \A j \in Jobs : status[j] = "absent" => status'[j] = "absent",
         \A j \in Jobs : Sending(j)' <=> Sending(j)
  PROVE  LStep
  <1>1. \A j \in Jobs : Request(j)' = Request(j)
    BY SameRequest DEF StoreStep
  <1>2. ASSUME NEW j \in Jobs
        PROVE  \/ Verdict(j)' = Verdict(j)
               \/ Verdict(j) = "open" /\ Verdict(j)' = "dropped" /\ Request(j) \in Unwriting
    <2>1. Moves(status[j], status'[j]) /\ (status[j] = "absent" => status'[j] = "absent")
      BY DEF StoreStep
    <2>2. CASE status[j] \in Unwritten \cup {"cancelling"}
      BY <2>1, <2>2, UnwrittenRequest DEF Moves, Unwritten, Verdict, Ended, Unwriting
    <2>3. CASE status[j] \notin Unwritten \cup {"cancelling"}
      BY <2>1, <2>3 DEF Moves, Unwritten, Verdict, Ended
    <2> QED
      BY <2>2, <2>3
  <1> QED
    BY <1>1, <1>2, LedgerDrop

LEMMA EnqueueLedger ==
  ASSUME TypeOK, Writes, Order, ByTheStore, NEW p \in PRs, NEW v, NEW manual, Enqueue(p, v, manual)
  PROVE  LStep
  <1>1. PICK n \in Jobs :
          /\ status[n] = "absent"
          /\ status' = [Superseding({k \in Jobs : ident[k].pr = p}) EXCEPT ![n] = "queued"]
          /\ ident' = [ident EXCEPT ![n] = [pr |-> p, gen |-> prState[p].gen + 1, exec |-> conf.exec,
                                            rev |-> repo.rev, manual |-> manual]]
    BY DEF Enqueue
  <1> DEFINE g == prState[p].gen + 1
  <1>2. g \in 1 .. MaxGen /\ prState[p].gen \in Nat
    BY ConstantsOK DEF Enqueue, NewGeneration, TypeOK, ConstantsOK
  <1>3. ident'[n].pr = p /\ ident'[n].gen = g /\ \A k \in Jobs \ {n} : ident'[k] = ident[k]
    BY <1>1 DEF TypeOK
  <1>4. \A k \in Jobs : Request(k)' = Request(k)
    BY SameRequest, SameSending DEF Enqueue, outside, workers
  <1>5. \A k \in Jobs : Verdict(k) # "absent" /\ ident[k].pr = p => ident[k].gen < g
    <2>1. ASSUME NEW k \in Jobs, Verdict(k) # "absent", ident[k].pr = p PROVE ident[k].gen < g
      <3>1. status[k] # "absent" /\ ident[k].gen \in Nat
        BY <2>1 DEF Verdict, TypeOK
      <3>2. ident[k].gen <= prState[p].gen
        BY <2>1, <3>1 DEF Order
      <3> QED
        BY <1>2, <3>1, <3>2
    <2> QED
      BY <2>1
  <1>6. Verdict(n) = "absent" /\ Verdict(n)' = "open"
    BY <1>1 DEF Verdict, Ended, Superseding
  <1>7. ASSUME NEW k \in Jobs \ {n}
        PROVE  \/ Verdict(k)' = Verdict(k)
               \/ Verdict(k) = "open" /\ Verdict(k)' = "dropped" /\ Request(k) \in Unwriting
    <2>1. status'[k] = status[k] \/ (status[k] \in Replaceable /\ status'[k] = "superseded")
      BY <1>1 DEF Superseding
    <2>2. CASE status[k] \in Replaceable /\ status'[k] = "superseded"
      BY <2>2, UnwrittenRequest DEF Replaceable, Unwritten, Verdict, Ended, Unwriting
    <2> QED
      BY <2>1, <2>2 DEF Verdict
  <1> HIDE DEF g
  <1> QED
    BY <1>2, <1>3, <1>4, <1>5, <1>6, <1>7, LedgerRegister

LEMMA ClaimLedger ==
  ASSUME TypeOK, Writes, NEW w \in Workers, NEW j \in Jobs, Claim(w, j)
  PROVE  LStep
  <1>1. StoreStep /\ ident' = ident
    BY ClaimSteps DEF Claim
  <1>2. \A k \in Jobs : status[k] = "absent" => status'[k] = "absent"
    <2>1. \A k \in Jobs : status'[k] = IF k = j THEN "running" ELSE Swept(k)
      BY DEF Claim, SweptStatus
    <2>2. Swept(j) = "queued" /\ \A k \in Jobs : status[k] = "absent" => Swept(k) = "absent"
      BY DEF Claim, Claimable, Swept, Lapsed, Executing
    <2> QED
      BY <2>1, <2>2
  <1>3. \A k \in Jobs : Sending(k)' <=> Sending(k)
    BY DEF Claim, Goto, Sending, TypeOK
  <1> QED
    BY <1>1, <1>2, <1>3, StoreLedger

LEMMA ByTheStoreLedger ==
  ASSUME TypeOK, Writes, Order, [Next]_vars, ByTheStore
  PROVE  LStep
  <1>1. StoreStep /\ \A j \in Jobs : Sending(j)' <=> Sending(j)
    BY StoreSteps, SameSending DEF StoreFrame
  <1>2. CASE Quiet
    BY <1>1, <1>2, StoreLedger DEF Quiet
  <1>3. ASSUME NEW p \in PRs, NEW v, EnqueueClosed(p, v) PROVE LStep
    <2>1. ident' = ident /\ \A j \in Jobs : status[j] = "absent" => status'[j] = "absent"
      BY <1>3 DEF EnqueueClosed, Superseding, Replaceable
    <2> QED
      BY <1>1, <2>1, StoreLedger
  <1> QED
    BY <1>2, <1>3, EnqueueLedger, ClaimLedger, QuietSteps

-----------------------------------------------------------------------------
(* A call that ends outside the moment of sending changes nothing that a   *)
(* reader sees; one that crashes there leaves its request unsent for good. *)
LEMMA StopLedger ==
  ASSUME TypeOK, Custody, Writes, NEW w \in Workers, Crash(w) \/ Return(w) \/ Enter(w)
  PROVE  LStep
  <1>1. UNCHANGED <<status, ident, op, net, remote>>
    BY DEF Crash, Return, Enter, dbVars, outside
  <1>2. PICK j \in Jobs : j = held[w] /\ pc[w] # "idle"
    BY HeldJob DEF Crash, Return, Enter
  <1>3. /\ \A v \in Workers \ {w} : pc'[v] = pc[v] /\ held'[v] = held[v]
        /\ pc'[w] # "sending"
    BY DEF Crash, Return, Enter, Goto, TypeOK
  <1>4. \A k \in Jobs : Verdict(k)' = Verdict(k)
    BY <1>1 DEF Verdict
  <1>5. \A k \in Jobs \ {j} : Request(k)' = Request(k)
    <2>1. \A k \in Jobs \ {j} : Sending(k)' <=> Sending(k)
      BY <1>2, <1>3 DEF Sending
    <2> QED
      BY <1>1, <2>1, SameRequest
  <1>6. CASE pc[w] # "sending"
    <2>1. Sending(j)' <=> Sending(j)
      BY <1>3, <1>6 DEF Sending
    <2>2. Request(j)' = Request(j)
      BY <1>1, <2>1, SameRequest
    <2> QED
      BY <1>1, <1>4, <1>5, <2>2, LedgerDrop
  <1>7. CASE pc[w] = "sending"
    <2>1. op[j] = "started" /\ net[j] = 0 /\ remote[j] = 0
      BY <1>2, <1>7 DEF Writes, Writer
    <2>2. Sending(j)
      BY <1>2, <1>7 DEF Sending
    <2>3. ~Sending(j)'
      BY <1>2, <1>3, <1>7 DEF Sending, Custody, OneInside, Body, Publication
    <2>4. Request(j) = "armed" /\ Request(j)' = "spent"
      BY <1>1, <2>1, <2>2, <2>3 DEF Request
    <2> QED
      BY <1>1, <1>4, <1>5, <2>4, LedgerBecomes
  <1> QED
    BY <1>6, <1>7

(* Only a request that was sent takes effect or is lost.                   *)
LEMMA RequestLedger ==
  ASSUME TypeOK, Writes, NEW j \in Jobs, Land(j) \/ Lost(j)
  PROVE  LStep
  <1>1. UNCHANGED <<status, ident, op, pc, held>>
    BY DEF Land, Lost, dbVars, workers
  <1>2. /\ net[j] = 1 /\ remote[j] = 0 /\ net'[j] = 0 /\ remote'[j] \in {0, 1}
        /\ op[j] = "started"
    BY DEF Writes, Written, Land, Lost, TypeOK
  <1>3. \A k \in Jobs \ {j} : net'[k] = net[k] /\ remote'[k] = remote[k]
    BY DEF Land, Lost, TypeOK
  <1>4. \A k \in Jobs : Verdict(k)' = Verdict(k)
    BY <1>1 DEF Verdict
  <1>5. \A k \in Jobs \ {j} : Request(k)' = Request(k)
    BY <1>1, <1>3, SameSending, SameRequest
  <1>6. ~Sending(j) /\ ~Sending(j)'
    BY <1>1, <1>2 DEF Sending, Writes, Writer
  <1>7. Request(j) = "sent" /\ Request(j)' \in {"visible", "spent"}
    BY <1>1, <1>2, <1>6 DEF Request
  <1> QED
    BY <1>1, <1>4, <1>5, <1>7, LedgerBecomes

(* An unknown publication is settled with what Gitea shows.                *)
LEMMA SettleLedger ==
  ASSUME TypeOK, Writes, NEW j \in Jobs, ConfirmUnpublished(j) \/ \E w \in Workers : Reconcile(w, j)
  PROVE  LStep
  <1>1. /\ UNCHANGED <<ident, net, remote, pc, held>>
        /\ \A k \in Jobs \ {j} : status'[k] = status[k] /\ op'[k] = op[k]
    BY DEF ConfirmUnpublished, Reconcile, outside, workers, TypeOK
  <1>2. /\ status[j] = "publish_unknown"
        /\ \A w \in Workers : pc[w] \in Publication => held[w] # j
    BY DEF ConfirmUnpublished, Reconcile, Settling, PublicationLocked, Mine
  <1>3. \/ status'[j] = "failed" /\ op'[j] = op[j] /\ net[j] = 0 /\ remote[j] = 0
        \/ /\ status'[j] = "succeeded" /\ op[j] \in {"started", "done"} /\ op'[j] = "done"
           /\ remote[j] = 1 /\ net[j] = 0
    BY DEF ConfirmUnpublished, Reconcile, TypeOK, Writes, Written
  <1>4. ~Sending(j)
    BY <1>2 DEF Sending, Publication
  <1>5. \A k \in Jobs : Request(k)' = Request(k)
    <2>1. \A k \in Jobs : op'[k] \in {"started", "done"} <=> op[k] \in {"started", "done"}
      BY <1>1, <1>3
    <2> QED
      BY <1>1, <2>1, SameSending, SameRequest
  <1>6. \A k \in Jobs \ {j} : Verdict(k)' = Verdict(k)
    BY <1>1 DEF Verdict
  <1>7. CASE status'[j] = "failed"
    <2>1. Verdict(j) = "open" /\ Verdict(j)' = "dropped" /\ Request(j) \in Unwriting
      BY <1>2, <1>3, <1>4, <1>7 DEF Verdict, Ended, Request, Unwriting
    <2> QED
      BY <1>1, <1>5, <1>6, <2>1, LedgerDrop
  <1>8. CASE status'[j] = "succeeded"
    <2>1. Verdict(j) = "open" /\ Verdict(j)' = "published" /\ Request(j) = "visible"
      BY <1>2, <1>3, <1>8 DEF Verdict, Ended, Request
    <2> QED
      BY <1>1, <1>5, <1>6, <2>1, LedgerPublish
  <1> QED
    BY <1>3, <1>7, <1>8

-----------------------------------------------------------------------------
(* What a step of a worker inside a job leaves alone, and where the sender *)
(* of that job is.                                                         *)
LEMMA BodyOthers ==
  ASSUME TypeOK, Custody, NEW w \in Workers, InBody(w), NEW j \in Jobs, j = held[w]
  PROVE  /\ ident' = ident
         /\ \A k \in Jobs \ {j} : Verdict(k)' = Verdict(k) /\ Request(k)' = Request(k)
         /\ Sending(j) <=> pc[w] = "sending"
         /\ Sending(j)' <=> pc'[w] = "sending"
  <1>1. /\ pc[w] \in Body /\ UNCHANGED <<held, remote, ident>>
        /\ \A v \in Workers \ {w} : pc'[v] = pc[v]
        /\ \A k \in Jobs \ {j} : status'[k] = status[k] /\ op'[k] = op[k] /\ net'[k] = net[k]
    BY BodyFrame
  <1>2. \A k \in Jobs \ {j} : Sending(k)' <=> Sending(k)
    BY <1>1 DEF Sending
  <1>3. \A v \in Workers \ {w} : pc[v] = "sending" => held[v] # j
    BY <1>1 DEF Custody, OneInside, Body, Publication
  <1>4. (Sending(j) <=> pc[w] = "sending") /\ (Sending(j)' <=> pc'[w] = "sending")
    BY <1>1, <1>3 DEF Sending
  <1>5. \A k \in Jobs \ {j} : Verdict(k)' = Verdict(k) /\ Request(k)' = Request(k)
    BY <1>1, <1>2, SameRequest DEF Verdict
  <1> QED
    BY <1>1, <1>4, <1>5

(* The end of a call: Finish with a state that fits, or no change at all.  *)
LEMMA FinishLedger ==
  ASSUME TypeOK, Custody, Writes, NEW w \in Workers, InBody(w), pc[w] # "published",
         \/ \E state \in {"publish_unknown", "superseded"} :
              Finish(w, state) /\ (state = "superseded" => status[held[w]] # "publishing")
         \/ Leave(w) /\ UNCHANGED <<dbVars, outside, held>>
  PROVE  LStep
  <1>1. PICK j \in Jobs : j = held[w]
    BY BodyFrame
  <1>2. /\ UNCHANGED <<op, net, remote>> /\ pc'[w] = "leaving"
        /\ \/ status'[j] = status[j]
           \/ status[j] \in Executing /\ status'[j] = "publish_unknown"
           \/ status[j] = "running" /\ status'[j] = "superseded"
    BY <1>1, BodyFrame DEF Finish, Leave, TypeOK, Executing, outside, dbVars
  <1>3. \/ Verdict(j)' = Verdict(j)
        \/ /\ Verdict(j) = "open" /\ Verdict(j)' = "dropped" /\ op[j] \in {"none", "queued"}
           /\ pc[w] # "sending"
    <2>1. CASE status[j] = "running" /\ status'[j] = "superseded"
      <3>1. Written(j) /\ Writer(w) /\ op[j] \in {"none", "queued", "started", "done"}
        BY DEF Writes, TypeOK
      <3> QED
        BY <1>1, <2>1, <3>1 DEF Written, Writer, Unsettled, Verdict, Ended
    <2>2. CASE ~(status[j] = "running" /\ status'[j] = "superseded")
      BY <1>2, <2>2 DEF Verdict, Ended, Executing
    <2> QED
      BY <2>1, <2>2
  <1>4. CASE pc[w] # "sending"
    <2>1. Request(j)' = Request(j)
      BY <1>1, <1>2, <1>4, BodyOthers, SameRequest
    <2>2. op[j] \in {"none", "queued"} => Request(j) \in Unwriting
      BY NotWritten DEF Unwriting
    <2> QED
      BY <1>1, <1>3, <2>1, <2>2, BodyOthers, LedgerDrop
  <1>5. CASE pc[w] = "sending"
    <2>1. op[j] = "started" /\ net[j] = 0 /\ remote[j] = 0
      BY <1>1, <1>5 DEF Writes, Writer
    <2>2. Sending(j) /\ ~Sending(j)'
      BY <1>1, <1>2, <1>5, BodyOthers
    <2>3. Request(j) = "armed" /\ Request(j)' = "spent"
      BY <1>2, <2>1, <2>2 DEF Request
    <2> QED
      BY <1>1, <1>3, <1>5, <2>3, BodyOthers, LedgerBecomes
  <1> QED
    BY <1>4, <1>5

(* A step that neither sends nor ends the call is invisible.               *)
LEMMA InnerLedger ==
  ASSUME TypeOK, Custody, Writes, NEW w \in Workers, InBody(w),
         \/ Prepare(w) \/ StartSession(w) \/ FinishUnit(w) \/ Pause(w) \/ \E findings \in BOOLEAN : Lock(w, findings)
         \/ Mark(w) \/ Receive(w) \/ Unlock(w)
  PROVE  LStep
  <1>1. PICK j \in Jobs : j = held[w]
    BY BodyFrame
  <1>2. pc[w] # "sending" /\ pc'[w] # "sending"
    BY DEF Prepare, StartSession, FinishUnit, Pause, Transition, Lock, Mark, Receive, Unlock, Leave, Goto, workers, TypeOK
  <1>3. net' = net /\ remote' = remote
    BY DEF Prepare, StartSession, FinishUnit, Pause, Transition, Lock, Mark, Receive, Unlock, outside
  <1>4. Verdict(j)' = Verdict(j)
    <2>1. CASE FinishUnit(w) \/ Pause(w)
      BY <1>1, <2>1 DEF FinishUnit, Pause, Transition, Active, Executing, Verdict, Ended, TypeOK
    <2>2. CASE Mark(w)
      BY <1>1, <2>2 DEF Mark, Active, Executing, Verdict, Ended, TypeOK
    <2>3. CASE Prepare(w) \/ StartSession(w) \/ Receive(w) \/ Unlock(w) \/ \E findings \in BOOLEAN : Lock(w, findings)
      BY <2>3 DEF Prepare, StartSession, Receive, Unlock, Lock, dbVars, Verdict
    <2> QED
      BY <2>1, <2>2, <2>3
  <1>5. Request(j)' = Request(j)
    <2>1. CASE Receive(w)
      <3>1. remote[j] = 1 /\ net[j] = 0
        BY <1>1, <2>1 DEF Receive, Writes, Written, TypeOK
      <3> QED
        BY <1>3, <3>1 DEF Request
    <2>2. CASE ~Receive(w)
      <3>1. op'[j] \in {"started", "done"} <=> op[j] \in {"started", "done"}
        BY <1>1, <2>2 DEF Prepare, StartSession, FinishUnit, Pause, Transition, Lock, Mark, Unlock, dbVars, TypeOK
      <3> QED
        BY <1>1, <1>2, <1>3, <3>1, BodyOthers, SameRequest
    <2> QED
      BY <2>1, <2>2
  <1> QED
    BY <1>1, <1>4, <1>5, BodyOthers, LedgerDrop

LEMMA BodyLedger ==
  ASSUME TypeOK, Custody, Writes, Order, NEW w \in Workers, InBody(w)
  PROVE  LStep
  <1>1. PICK j \in Jobs : j = held[w]
    BY BodyFrame
  <1>2. CASE StartOperation(w)
    <2>1. /\ op[j] = "queued" /\ op'[j] = "started" /\ status'[j] = status[j] /\ status[j] \in Unsettled
          /\ net'[j] = 0 /\ remote'[j] = 0 /\ net[j] = 0 /\ remote[j] = 0
          /\ pc[w] = "marked" /\ pc'[w] = "sending"
      BY <1>1, <1>2 DEF StartOperation, Goto, Writes, Writer, Written, TypeOK, outside
    <2>2. Request(j) = "unsent" /\ Request(j)' = "armed"
      BY <1>1, <2>1, BodyOthers DEF Request
    <2>3. Verdict(j) = "open" /\ Verdict(j)' = Verdict(j)
      BY <2>1 DEF Verdict, Ended, Unsettled
    <2>4. ASSUME NEW k \in Jobs, Verdict(k) # "absent", SamePR(k, j), ident[k].gen < ident[j].gen
          PROVE  Verdict(k) # "open"
      <3>1. started[j] /\ status[k] # "absent"
        BY <1>1, <2>4, ConstantsOK DEF Custody, HeldStarted, Verdict, ConstantsOK
      <3>2. status[k] \in Terminal
        BY <2>4, <3>1 DEF Order
      <3> QED
        BY <3>2 DEF Terminal, Verdict, Ended
    <2> QED
      BY <1>1, <2>2, <2>3, <2>4, BodyOthers, LedgerBecomes
  <1>3. CASE Post(w)
    <2>1. /\ op[j] = "started" /\ op' = op /\ status' = status /\ remote[j] = 0 /\ remote' = remote
          /\ net[j] = 0 /\ net'[j] = 1 /\ pc[w] = "sending"
      BY <1>1, <1>3 DEF Post, Goto, Writes, Writer, TypeOK, dbVars
    <2>2. Request(j) = "armed" /\ Request(j)' = "sent"
      BY <1>1, <2>1, BodyOthers DEF Request
    <2>3. Verdict(j)' = Verdict(j)
      BY <2>1 DEF Verdict
    <2> QED
      BY <1>1, <2>2, <2>3, BodyOthers, LedgerBecomes
  <1>4. CASE Succeed(w)
    <2>1. /\ UNCHANGED <<op, net, remote>> /\ pc[w] = "published" /\ pc'[w] = "leaving"
          /\ op[j] \in {"none", "done"} /\ Written(j)
          /\ status'[j] = status[j] \/ (status[j] \in Executing /\ status'[j] = "succeeded")
      BY <1>1, <1>4 DEF Succeed, Finish, Leave, Writes, Writer, TypeOK, outside
    <2>2. Request(j)' = Request(j)
      BY <1>1, <2>1, BodyOthers, SameRequest
    <2>3. CASE status'[j] = status[j]
      <3>1. Verdict(j)' = Verdict(j)
        BY <2>3 DEF Verdict
      <3> QED
        BY <1>1, <2>2, <3>1, BodyOthers, LedgerDrop
    <2>4. CASE status[j] \in Executing /\ status'[j] = "succeeded"
      <3>1. Verdict(j) = "open" /\ Verdict(j)' = "published"
        BY <2>4 DEF Verdict, Ended, Executing
      <3>2. net[j] \in Nat /\ remote[j] \in Nat
        BY DEF TypeOK
      <3>3. Request(j) \in {"visible", "unsent"}
        BY <1>1, <2>1, <3>2, BodyOthers DEF Written, Request
      <3> QED
        BY <1>1, <2>2, <3>1, <3>3, BodyOthers, LedgerPublish
    <2> QED
      BY <2>1, <2>3, <2>4
  <1>5. CASE GoStale(w) \/ FailPublishing(w) \/ FailRunning(w)
    <2>1. pc[w] # "published"
      BY <1>5 DEF GoStale, FailPublishing, FailRunning
    <2>2. \/ \E state \in {"publish_unknown", "superseded"} :
               Finish(w, state) /\ (state = "superseded" => status[held[w]] # "publishing")
          \/ Leave(w) /\ UNCHANGED <<dbVars, outside, held>>
      BY <1>5 DEF GoStale, FailPublishing, FailRunning
    <2> QED
      BY <2>1, <2>2, FinishLedger
  <1> QED
    BY <1>2, <1>3, <1>4, <1>5, InnerLedger DEF InBody

-----------------------------------------------------------------------------
LEMMA LedgerInit == TypeOK /\ Init => Ledger!Init
  <1> SUFFICES ASSUME TypeOK, Init PROVE Ledger!Init
    OBVIOUS
  <1>1. \A j \in Jobs : Verdict(j) = "absent" /\ Request(j) = "unsent"
    BY DEF Init, Verdict, Request, Sending
  <1>2. \A j \in Jobs : ident[j].gen = 0 /\ ident[j].pr \in PRs
    BY DEF Init, TypeOK, NoIdent
  <1> QED
    BY <1>1, <1>2 DEF Ledger!Init

LEMMA LedgerNext == TypeOK /\ Custody /\ Writes /\ Order /\ [Next]_vars => LStep
  <1> SUFFICES ASSUME TypeOK, Custody, Writes, Order, [Next]_vars PROVE LStep
    OBVIOUS
  <1>1. CASE ByTheStore
    BY <1>1, ByTheStoreLedger
  <1>2. ASSUME NEW w \in Workers, Poll(w) \/ Process(w) PROVE LStep
    BY <1>1, <1>2, ClaimLedger, StopLedger, BodyLedger DEF Poll, Process, ByTheStore
  <1>3. ASSUME NEW j \in Jobs, ReconcileCancel(j) \/ \E w \in Workers : Reconcile(w, j) PROVE LStep
    BY <1>1, <1>3, SettleLedger DEF ByTheStore
  <1>4. CASE Operators
    BY <1>1, <1>4, SettleLedger DEF Operators, ByTheStore
  <1>5. CASE Environment
    BY <1>1, <1>5, RequestLedger, StopLedger DEF Environment, ByTheStore
  <1>6. CASE UNCHANGED vars
    BY <1>1, <1>6 DEF ByTheStore
  <1> QED
    BY <1>2, <1>3, <1>4, <1>5, <1>6 DEF Next

(* The queue implements its ledger: behind workers, leases, locks, crashes *)
(* and recoveries, a PR's readers see jobs in the order of generations,    *)
(* each with at most one request, sent only after every older job has its  *)
(* verdict, and one verdict that fits what became of the request.          *)
THEOREM QueueImplementsLedger == Spec => LedgerSpec
  <1>1. Init => Ledger!Init
    BY TypeInit, LedgerInit
  <1>2. TypeOK /\ Custody /\ Writes /\ Order /\ [Next]_vars => [Ledger!Next]_(Ledger!vars)
    BY LedgerNext DEF LStep
  <1> QED
    BY <1>1, <1>2, TypeCorrect, CustodyKept, WritesKept, OrderKept, PTL DEF Spec, LedgerSpec, Ledger!Spec
=============================================================================
