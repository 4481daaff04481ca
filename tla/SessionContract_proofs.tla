----------------------- MODULE SessionContract_proofs -----------------------
(***************************************************************************)
(* What the contract about sessions promises, for any set of sessions.     *)
(* NativeSession_proofs and BatchPlan_proofs show that the executor's and  *)
(* the worker's side keep the contract.                                    *)
(***************************************************************************)
EXTENDS SessionContract, TLAPS

Types ==
    /\ asked \subseteq Sessions
    /\ run \in [Sessions -> {"absent", "running", "over"}]
    /\ end \in [Sessions -> {"none", "announced", "completed", "failed", "unclear"}]
    /\ custody \in [Sessions -> {"none", "made", "accepted", "released"}]
    /\ cancel \in {"none", "requested", "confirmed"}

(* A result in any custody is that of a completed session, one the manager *)
(* took that of a settled completion.  A session ends only after it began, *)
(* which it does only when it was asked for, and a completion is open only *)
(* while it runs.                                                          *)
Progress ==
    \A s \in Sessions :
      /\ custody[s] # "none" <=> end[s] \in {"announced", "completed"}
      /\ end[s] = "announced" => custody[s] = "made" /\ run[s] = "running"
      /\ end[s] # "none" => run[s] # "absent"
      /\ run[s] = "running" => s \in asked

CInv == Types /\ Progress /\ OneRuns /\ AskedInTurn /\ ConfirmedStopped

LEMMA CInit == Init => CInv
  BY DEF Init, CInv, Types, Progress, OneRuns, AskedInTurn, ConfirmedStopped

LEMMA AskStep ==
    ASSUME CInv, NEW s \in Sessions, Ask(s)
    PROVE  CInv'
  BY DEF CInv, Types, Progress, OneRuns, AskedInTurn, ConfirmedStopped, Ask

LEMMA BeginStep ==
    ASSUME CInv, NEW s \in Sessions, Begin(s)
    PROVE  CInv'
<1>1. /\ Types /\ Progress /\ OneRuns /\ AskedInTurn /\ ConfirmedStopped
      /\ s \in asked /\ run[s] = "absent" /\ \A t \in Sessions : run[t] # "running"
      /\ run' = [run EXCEPT ![s] = "running"] /\ UNCHANGED <<asked, end, custody, cancel>>
  BY DEF CInv, Begin
<1>2. Types' /\ Progress'
  BY <1>1 DEF Types, Progress
<1>3. OneRuns'
  BY <1>1 DEF Types, OneRuns
<1>4. AskedInTurn' /\ ConfirmedStopped'
  BY <1>1 DEF Types, AskedInTurn, ConfirmedStopped
<1> QED BY <1>2, <1>3, <1>4 DEF CInv

(* How a running session ends, and what becomes of an announced end.       *)
LEMMA EndStep ==
    ASSUME CInv, NEW s \in Sessions, Complete(s) \/ Miss(s) \/ Settle(s) \/ Withdraw(s)
    PROVE  CInv'
<1>1. /\ Types /\ Progress /\ OneRuns /\ AskedInTurn /\ ConfirmedStopped
      /\ run[s] = "running" /\ UNCHANGED <<asked, run, cancel>>
  BY DEF CInv, Progress, Complete, Miss, Settle, Withdraw
<1>2. CASE Complete(s)
  <2>1. Types' /\ Progress'
    BY <1>1, <1>2 DEF Types, Progress, Complete
  <2>2. AskedInTurn'
    BY <1>1, <1>2 DEF Types, AskedInTurn, Complete, Known, Reported
  <2> QED BY <1>1, <2>1, <2>2 DEF CInv, OneRuns, ConfirmedStopped
<1>3. CASE Miss(s)
  <2>1. PICK e \in {"failed", "unclear"} : end' = [end EXCEPT ![s] = e]
    BY <1>3 DEF Miss
  <2>2. end[s] = "none" /\ custody' = custody
    BY <1>3 DEF Miss
  <2>3. Types' /\ Progress'
    BY <1>1, <2>1, <2>2 DEF Types, Progress
  <2>4. AskedInTurn'
    BY <1>1, <2>1, <2>2 DEF Types, AskedInTurn, Known, Reported
  <2> QED BY <1>1, <2>3, <2>4 DEF CInv, OneRuns, ConfirmedStopped
<1>4. CASE Settle(s)
  <2>1. Types' /\ Progress'
    BY <1>1, <1>4 DEF Types, Progress, Settle
  <2>2. AskedInTurn'
    BY <1>1, <1>4 DEF Types, AskedInTurn, Settle, Known, Reported
  <2> QED BY <1>1, <2>1, <2>2 DEF CInv, OneRuns, ConfirmedStopped
<1>5. CASE Withdraw(s)
  <2>1. Types' /\ Progress'
    BY <1>1, <1>5 DEF Types, Progress, Withdraw
  <2>2. AskedInTurn'
    BY <1>1, <1>5 DEF Types, AskedInTurn, Withdraw, Known, Reported
  <2> QED BY <1>1, <2>1, <2>2 DEF CInv, OneRuns, ConfirmedStopped
<1> QED BY <1>2, <1>3, <1>4, <1>5

LEMMA StopStep ==
    ASSUME CInv, NEW s \in Sessions, Stop(s)
    PROVE  CInv'
<1>1. /\ Types /\ Progress /\ OneRuns /\ AskedInTurn /\ ConfirmedStopped
      /\ run[s] = "running" /\ run' = [run EXCEPT ![s] = "over"]
      /\ end' = [end EXCEPT ![s] = Settled(end[s])] /\ UNCHANGED <<asked, custody, cancel>>
  BY DEF CInv, Stop
<1>2. Settled(end[s]) \in {"none", "completed", "failed", "unclear"}
  BY <1>1 DEF Types, Settled
<1>3. Types' /\ Progress'
  BY <1>1, <1>2 DEF Types, Progress, Settled
<1>4. AskedInTurn'
  BY <1>1 DEF Types, AskedInTurn, Settled, Known, Reported
<1> QED BY <1>1, <1>3, <1>4 DEF CInv, Types, OneRuns, ConfirmedStopped

LEMMA CustodyStep ==
    ASSUME CInv, NEW s \in Sessions, Accept(s) \/ Release(s)
    PROVE  CInv'
<1>1. /\ Types /\ Progress /\ OneRuns /\ AskedInTurn /\ ConfirmedStopped
      /\ custody[s] # "none" /\ end[s] # "announced" /\ UNCHANGED <<asked, run, end, cancel>>
  BY DEF CInv, Progress, Accept, Release
<1>2. PICK c \in {"accepted", "released"} : custody' = [custody EXCEPT ![s] = c]
  BY DEF Accept, Release
<1>3. Types' /\ Progress'
  BY <1>1, <1>2 DEF Types, Progress
<1> QED BY <1>1, <1>3 DEF CInv, OneRuns, AskedInTurn, ConfirmedStopped

LEMMA CancelStep ==
    ASSUME CInv, RequestCancel \/ ConfirmCancel
    PROVE  CInv'
  BY DEF CInv, Types, Progress, OneRuns, AskedInTurn, ConfirmedStopped, RequestCancel,
         ConfirmCancel

LEMMA CNext == CInv /\ [Next]_vars => CInv'
<1> SUFFICES ASSUME CInv, [Next]_vars PROVE CInv'
  OBVIOUS
<1>1. CASE UNCHANGED vars
  BY <1>1 DEF vars, CInv, Types, Progress, OneRuns, AskedInTurn, ConfirmedStopped
<1>2. CASE Next
  BY <1>2, AskStep, BeginStep, EndStep, StopStep, CustodyStep, CancelStep DEF Next
<1> QED BY <1>1, <1>2

(* The inductive invariant of the contract.                                *)
THEOREM ContractInvariance == Spec => []CInv
  BY CInit, CNext, PTL DEF Spec

(* However often sessions are asked for, lost and asked for again, one of  *)
(* the job runs (native_session.py: one run at a time).                    *)
THEOREM OneSessionRuns == Spec => []OneRuns
<1>1. CInv => OneRuns
  BY DEF CInv
<1> QED BY <1>1, ContractInvariance, PTL

(* A session is asked for only after reported ends                         *)
(* (docs/review-batching.md).                                              *)
THEOREM SessionsAskedInTurn == Spec => []AskedInTurn
<1>1. CInv => AskedInTurn
  BY DEF CInv
<1> QED BY <1>1, ContractInvariance, PTL

(* A confirmed cancellation means that nothing runs, for good              *)
(* (docs/ai-review-cancellation.md).                                       *)
THEOREM ConfirmationIsReal == Spec => []ConfirmedStopped
<1>1. CInv => ConfirmedStopped
  BY DEF CInv
<1> QED BY <1>1, ContractInvariance, PTL

(* A result in custody is never taken back.                                *)
THEOREM CustodyIsFinal == Spec => AcceptedStays
<1>1. ASSUME CInv, Next, NEW s \in Sessions, custody[s] \in {"accepted", "released"}
      PROVE  /\ end[s] = "completed" /\ end'[s] = "completed"
             /\ custody'[s] \in {"accepted", "released"}
  <2>1. Types /\ end[s] = "completed"
    BY <1>1 DEF CInv, Progress
  <2>2. CASE \E t \in Sessions : Ask(t) \/ Begin(t)
    BY <1>1, <2>1, <2>2 DEF Ask, Begin
  <2>3. CASE \E t \in Sessions : Complete(t) \/ Miss(t) \/ Settle(t) \/ Withdraw(t)
    <3>1. PICK t \in Sessions : Complete(t) \/ Miss(t) \/ Settle(t) \/ Withdraw(t)
      BY <2>3
    <3>2. t # s
      BY <1>1, <2>1, <3>1 DEF Complete, Miss, Settle, Withdraw
    <3>3. end'[s] = end[s] /\ custody'[s] = custody[s]
      BY <2>1, <3>1, <3>2 DEF Types, Complete, Miss, Settle, Withdraw
    <3> QED BY <1>1, <2>1, <3>3
  <2>4. CASE \E t \in Sessions : Stop(t)
    BY <1>1, <2>1, <2>4 DEF Types, Stop, Settled
  <2>5. CASE \E t \in Sessions : Accept(t) \/ Release(t)
    BY <1>1, <2>1, <2>5 DEF Types, Accept, Release
  <2>6. CASE RequestCancel \/ ConfirmCancel
    BY <1>1, <2>1, <2>6 DEF RequestCancel, ConfirmCancel
  <2> QED BY <1>1, <2>2, <2>3, <2>4, <2>5, <2>6 DEF Next
<1>2. CInv /\ [Next]_vars => [\A s \in Sessions : custody[s] \in {"accepted", "released"} =>
          /\ end[s] = "completed" /\ end'[s] = "completed"
          /\ custody'[s] \in {"accepted", "released"}]_vars
  BY <1>1
<1> QED BY <1>2, ContractInvariance, PTL DEF Spec, AcceptedStays

(* Nothing that is over runs again, and only an announced completion can   *)
(* still change, until its session is over.                                *)
THEOREM KnownEndsAreFinal == Spec => EndsAreFinal
<1>1. ASSUME CInv, Next, NEW s \in Sessions
      PROVE  /\ run[s] = "over" => run'[s] = "over"
             /\ end[s] \in Known => end'[s] = end[s]
             /\ end[s] = "announced" => end'[s] \in Reported
  <2>1. Types /\ Progress
    BY <1>1 DEF CInv
  <2>2. CASE \E t \in Sessions : Ask(t) \/ Accept(t) \/ Release(t)
    BY <2>2 DEF Ask, Accept, Release, Reported
  <2>3. CASE \E t \in Sessions : Begin(t)
    BY <2>1, <2>3 DEF Types, Begin, Reported
  <2>4. CASE \E t \in Sessions : Stop(t)
    BY <2>1, <2>4 DEF Types, Stop, Settled, Known, Reported
  <2>5. CASE \E t \in Sessions : Complete(t) \/ Miss(t) \/ Settle(t) \/ Withdraw(t)
    BY <2>1, <2>5 DEF Types, Complete, Miss, Settle, Withdraw, Known, Reported
  <2>6. CASE RequestCancel \/ ConfirmCancel
    BY <2>1, <2>6 DEF Types, RequestCancel, ConfirmCancel, Reported
  <2> QED BY <1>1, <2>2, <2>3, <2>4, <2>5, <2>6 DEF Next
<1>2. ASSUME CInv', NEW s \in Sessions
      PROVE  run'[s] = "over" => end'[s] # "announced"
  BY <1>2 DEF CInv, Progress
<1>3. CInv /\ CInv' /\ [Next]_vars => [\A s \in Sessions :
          /\ run[s] = "over" => run'[s] = "over"
          /\ end[s] \in Known => end'[s] = end[s]
          /\ end[s] = "announced" => end'[s] \in Reported
          /\ run'[s] = "over" => end'[s] # "announced"]_vars
  BY <1>1, <1>2
<1> QED BY <1>3, ContractInvariance, PTL DEF Spec, EndsAreFinal
=============================================================================
