------------------------------ MODULE BatchPlan ------------------------------
(***************************************************************************)
(* How one review job is executed: its batch plan, the units of the plan,  *)
(* the attempts at a unit, the executor's session of each attempt, the     *)
(* broker that counts the model calls, and the operator who authorises     *)
(* calls and retries units (backend/ai_review/batch_store.py,              *)
(* batch_worker.py, native_review.py, broker.py, issue_checks.py).         *)
(*                                                                         *)
(* A session is never prompted twice, so what became of it must be known   *)
(* before its unit is tried again.  The worker can crash or lose its lease *)
(* at any step, requests to the executor can arrive late or get lost, the  *)
(* executor can lose a running session, and the deadline of a session can  *)
(* pass at any time.  The queue around the job (generations, publication,  *)
(* cancellation, the limit of attempts) is the module ReviewQueue.  Plans  *)
(* are those of the flow versions in use (diff-batches-v3,                 *)
(* batch_flow_version >= 4).                                               *)
(***************************************************************************)
EXTENDS Naturals, Sequences, FiniteSets

CONSTANTS
    InitialUnits,  \* sequences of [kind, size] the planner may come up with
    Groupings,     \* sequences of candidate counts: the refutation groups
    Checks,        \* historical issues to check again
    AutoCalls,     \* config batch_auto_calls
    MaxSessions,   \* bound: attempts in all
    MaxFaults      \* bound: faults and lapsed leases

ASSUME PlanConstantsOK ==
    /\ \A u \in InitialUnits : u \in Seq([kind : {"primary", "association"}, size : Nat])
    /\ \A g \in Groupings : g \in Seq(Nat)
    /\ IsFiniteSet(Checks)
    /\ AutoCalls \in Nat /\ MaxSessions \in Nat /\ MaxFaults \in Nat

VARIABLES
    status,     \* jobs.status
    pc,         \* where the worker is in process() of the job
    units,      \* review_batch_units (not the history ones), by position
    att,        \* review_batch_attempts with the session of each, by age
    plan,       \* review_batch_plans.(max, base, refuted) and authorisation
    session,    \* jobs.(session_status, session_submitted_at, deadline passed) and events
    cap,        \* the capability last issued can still be used
    checks,     \* review_issue_checks.state
    calls,      \* jobs.model_calls
    faults      \* faults so far

vars == <<status, pc, units, att, plan, session, cap, checks, calls, faults>>

Waiting == {"awaiting_cost", "budget_paused", "incomplete"}
Ended == {"completed", "failed", "aborted", "unknown"}   \* terminal states of the executor
Known == {"completed", "failed", "aborted"}              \* those that are a known outcome
NoSession == [status |-> "none", submitted |-> FALSE, expired |-> FALSE, told |-> "none"]

Cur == Len(att)                                     \* jobs.session_id
Latest(u) == LET S == {s \in DOMAIN att : att[s].unit = u}
             IN IF S = {} THEN 0 ELSE CHOOSE s \in S : \A t \in S : t <= s
LatestState(u) == IF Latest(u) = 0 THEN "none" ELSE att[Latest(u)].state
Tries(u) == Cardinality({s \in DOMAIN att : att[s].unit = u})
Open == {u \in DOMAIN units : units[u].state \notin {"done", "replaced"}}
Next1 == CHOOSE u \in Open : \A v \in Open : u <= v        \* pending[0]
Live(s) == att[s].exec \in {"running", "announced"}   \* GET reports it as running
Edit(s, attempt) == att' = [att EXCEPT ![s] = attempt]
NewUnit(kind, size, depth) == [kind |-> kind, size |-> size, depth |-> depth, state |-> "pending"]

Init ==
    /\ status = "queued" /\ pc = "idle"
    /\ units = <<>> /\ att = <<>>
    /\ plan = [saved |-> FALSE, max |-> 0, base |-> 0, refuted |-> FALSE,
               authorized |-> 0, approved |-> FALSE]
    /\ session = NoSession /\ cap = FALSE
    /\ checks = [h \in Checks |-> "queued"]
    /\ calls = 0 /\ faults = 0

-----------------------------------------------------------------------------
(***************************************************************************)
(* The worker holds the job: every transaction of process() begins with    *)
(* _active.  Transition puts the job down and deletes its capability.      *)
(***************************************************************************)
At(place) == pc = place /\ status = "running"
Goto(place) == pc' = place
Fault == faults < MaxFaults /\ faults' = faults + 1

Transition(to) ==
    /\ status' = to /\ pc' = "idle" /\ cap' = FALSE

Claim ==
    /\ status = "queued" /\ pc = "idle"
    /\ status' = "running" /\ Goto("deciding")
    /\ UNCHANGED <<units, att, plan, session, cap, checks, calls, faults>>

SavePlan ==
    /\ At("deciding") /\ ~plan.saved
    /\ \E first \in InitialUnits :
         LET max == 4 * Len(first) + Cardinality(Checks) IN
         /\ units' = [i \in DOMAIN first |-> NewUnit(first[i].kind, first[i].size, 0)]
         /\ plan' = [plan EXCEPT !.saved = TRUE, !.max = max,
                                 !.base = Len(first) + Cardinality(Checks),
                                 !.authorized = IF max <= AutoCalls THEN max ELSE 0]
    /\ UNCHANGED <<status, pc, att, session, cap, checks, calls, faults>>

(* The gates at the start of every claim.                                  *)
Authorized == plan.authorized >= plan.max
Deciding == At("deciding") /\ plan.saved /\ Authorized

AwaitCost ==
    /\ At("deciding") /\ plan.saved /\ ~Authorized
    /\ Transition("awaiting_cost")
    /\ UNCHANGED <<units, att, plan, session, checks, calls, faults>>

(* Less than a minute of the execution budget is left, or an upgrade begins. *)
PauseBudget ==
    /\ Deciding /\ Fault
    /\ Transition("budget_paused")
    /\ UNCHANGED <<units, att, plan, session, checks, calls>>

(***************************************************************************)
(* adjust_output: a unit whose attempt ran out of output is replaced by    *)
(* its parts, with two calls for each; its failed attempt is kept.         *)
(***************************************************************************)
Exhausted(u) == LatestState(u) = "failed" /\ att[Latest(u)].outcome = "length"
Splittable(u) ==
    /\ units[u].state = "failed" /\ Exhausted(u)
    /\ units[u].depth < 2
    /\ units[u].kind \in {"association", "refutation"} /\ units[u].size > 1

Halves(n) == <<n \div 2, n - n \div 2>>
(* An association is cut along its pairs of files, or in two if it has one. *)
Cuts(u) == {Halves(units[u].size)}
           \cup (IF units[u].kind = "association" THEN {[i \in 1..units[u].size |-> 1]} ELSE {})

Split(u) ==
    \E cut \in Cuts(u) :
      /\ units' = [units EXCEPT ![u].state = "replaced"]
                  \o [i \in DOMAIN cut |-> NewUnit(units[u].kind, cut[i], units[u].depth + 1)]
      /\ plan' = [plan EXCEPT !.max = @ + 2 * Len(cut),
                              !.base = IF units[u].kind = "association" THEN @ + Len(cut) - 1 ELSE @]

SplitUnit ==
    /\ Deciding \/ At("failed")
    /\ Open # {} /\ Splittable(Next1)
    /\ Split(Next1) /\ Goto("returned")
    /\ UNCHANGED <<status, att, session, cap, checks, calls, faults>>

(* Nothing to split, or parts that do not fit either; or any other error.  *)
GiveUp ==
    /\ \/ At("failed") /\ UNCHANGED faults
       \/ Deciding /\ Open # {} /\ units[Next1].state = "failed" /\ UNCHANGED faults
       \/ At("deciding") /\ Fault
    /\ Transition("incomplete")
    /\ UNCHANGED <<units, att, plan, session, checks, calls>>

Return ==
    /\ At("returned")
    /\ Transition("queued")
    /\ UNCHANGED <<units, att, plan, session, checks, calls, faults>>

(***************************************************************************)
(* _new_attempt: the unit's latest attempt is taken up again unless it is  *)
(* known to have failed; then _execute_unit goes where that one stands.    *)
(***************************************************************************)
NewAttempt(u) ==
    /\ LatestState(u) \in {"none", "failed"}
    /\ Len(att) < MaxSessions
    /\ att' = Append(att, [unit |-> u, state |-> "prepared", raw |-> FALSE, exec |-> "absent",
                           end |-> "none", outcome |-> "none", calls |-> 0, net |-> "none", token |-> "none",
                           kept |-> FALSE, released |-> FALSE])
    /\ session' = [NoSession EXCEPT !.status = "prepared"]
    /\ units' = [units EXCEPT ![u].state = "running"]
    /\ Goto("execute")

ResumeAttempt(u) ==
    /\ LatestState(u) \notin {"none", "failed"}
    /\ Goto(IF att[Latest(u)].raw THEN "ack"
            ELSE IF \/ LatestState(u) = "unknown"
                    \/ session.submitted /\ session.expired THEN "inspect"
            ELSE "execute")
    /\ UNCHANGED <<att, session, units>>

StartUnit ==
    /\ Deciding /\ Open # {} /\ units[Next1].state # "failed"
    /\ NewAttempt(Next1) \/ ResumeAttempt(Next1)
    /\ UNCHANGED <<status, plan, cap, checks, calls, faults>>

-----------------------------------------------------------------------------
(***************************************************************************)
(* native_review.execute: a new capability, then the one POST of the       *)
(* session, or the renewed authorisation of one submitted before.          *)
(***************************************************************************)
Settle(attemptState, unitState) ==
    /\ Edit(Cur, [att[Cur] EXCEPT !.state = attemptState])
    /\ units' = [units EXCEPT ![att[Cur].unit].state = unitState]

(* Mutant: a session the executor lost track of counts as ended.           *)
KnownEndOrUnknown(reported) == reported \in Ended
KnownEnd(reported) == reported \in Known

(* The handler of a ReviewError in _execute_unit, with the status the      *)
(* session has by then: what is not known to have ended is unknown.        *)
Fail(reported) ==
    /\ IF KnownEnd(reported) THEN Settle("failed", "failed") ELSE Settle("unknown", "unknown")
    /\ session' = [session EXCEPT !.status = reported]
    /\ Goto("failed")
    /\ UNCHANGED <<status, plan, cap, checks, calls>>

Stale(a) == [s \in DOMAIN a |-> [a[s] EXCEPT !.net = IF @ = "fresh" THEN "stale" ELSE @,
                                             !.token = IF @ = "fresh" THEN "stale" ELSE @]]

TooLate ==
    /\ At("execute") /\ session.expired
    /\ Fail(session.status) /\ UNCHANGED faults

Execute ==
    /\ At("execute") /\ ~session.expired
    /\ cap' = TRUE /\ att' = Stale(att)
    /\ Goto(IF session.submitted THEN "authorize" ELSE "submit")
    /\ UNCHANGED <<status, units, plan, session, checks, calls, faults>>

MarkSubmitted ==
    /\ At("submit") /\ ~session.submitted
    /\ session' = [session EXCEPT !.submitted = TRUE, !.status = "submitted"]
    /\ Goto("post")
    /\ UNCHANGED <<status, units, att, plan, cap, checks, calls, faults>>

(* The request leaves whether or not the worker still holds the job, and   *)
(* its answer is not waited for: lost, late or accepted, the session is    *)
(* looked up from now on.                                                  *)
Post ==
    /\ pc = "post"
    /\ Edit(Cur, [att[Cur] EXCEPT !.net = IF cap THEN "fresh" ELSE "stale"])
    /\ Goto("poll")
    /\ UNCHANGED <<status, units, plan, session, cap, checks, calls, faults>>

(* The executor answers at once that it did not start the session.         *)
PostRefused ==
    /\ At("post")
    /\ Fail(session.status) /\ Fault

Authorize ==
    /\ At("authorize")
    /\ \/ /\ att[Cur].exec = "running"
          /\ Edit(Cur, [att[Cur] EXCEPT !.token = "fresh"])
          /\ Goto("poll")
          /\ UNCHANGED <<units, session>>
       \/ /\ Goto("poll")                      \* both requests lost, or 409 of an ended session
          /\ UNCHANGED <<units, att, session>>
    /\ UNCHANGED <<status, plan, cap, checks, calls, faults>>

AuthorizeRefused ==
    /\ At("authorize") /\ att[Cur].exec # "ended"
    /\ Fail(session.status) /\ Fault

(***************************************************************************)
(* The loop of execute: GET until the session has ended or time is up.     *)
(* A completed result counts only with its complete event log.             *)
(***************************************************************************)
PollRunning ==
    /\ At("poll") /\ Live(Cur)
    /\ session.status # "running"
    /\ session' = [session EXCEPT !.status = "running"]
    /\ UNCHANGED <<status, pc, units, att, plan, cap, checks, calls, faults>>

PollCompleted ==
    /\ At("poll") \/ At("inspect")
    /\ att[Cur].exec = "ended" /\ att[Cur].end = "completed" /\ session.told = "completed"
    /\ session' = [session EXCEPT !.status = "completed"]
    /\ Goto("receive")
    /\ UNCHANGED <<status, units, att, plan, cap, checks, calls, faults>>

(* The session ended without a usable result, or its log stays incomplete. *)
PollEnded ==
    /\ At("poll") \/ At("inspect")
    /\ att[Cur].exec = "ended" /\ ~(att[Cur].end = "completed" /\ session.told = "completed")
    /\ Fail(att[Cur].end) /\ UNCHANGED faults

(* Mutant: the absence of a session is stored as its status.             *)
PollMissingStored ==
    /\ At("poll") \/ At("inspect")
    /\ att[Cur].exec \in {"absent", "gone"}
    /\ Fail(att[Cur].exec) /\ UNCHANGED faults

PollMissing ==
    /\ At("poll") \/ At("inspect")
    /\ att[Cur].exec \in {"absent", "gone"}
    /\ Fail(session.status) /\ UNCHANGED faults

(* inspect_result asks once: still running, or no answer.                  *)
InspectOpen ==
    /\ At("inspect")
    /\ \/ Fail(session.status) /\ Fault
       \/ Live(Cur) /\ Fail("running") /\ UNCHANGED faults

(* The deadline: the session is asked to stop, and fails with the status   *)
(* it has by now; the request may come too late, or withdraw an announced  *)
(* completion (Withdraw).                                                  *)
PollExpired ==
    /\ At("poll") /\ session.expired
    /\ Fail(session.status) /\ UNCHANGED faults

-----------------------------------------------------------------------------
(***************************************************************************)
(* The result: persisted, then acknowledged, then parsed.                  *)
(***************************************************************************)
(* Mutant: the result is acknowledged before it is persisted.            *)
ReceiveInMemory ==
    /\ At("receive")
    /\ Edit(Cur, [att[Cur] EXCEPT !.state = "received"])
    /\ Goto("ack")
    /\ UNCHANGED <<status, units, plan, session, cap, checks, calls, faults>>

Receive ==
    /\ At("receive")
    /\ Edit(Cur, [att[Cur] EXCEPT !.raw = TRUE, !.state = "received"])
    /\ Goto("ack")
    /\ UNCHANGED <<status, units, plan, session, cap, checks, calls, faults>>

Acknowledge ==
    /\ At("ack")
    /\ att[Cur].kept
    /\ Edit(Cur, [att[Cur] EXCEPT !.released = TRUE])
    /\ Goto("parse")
    /\ UNCHANGED <<status, units, plan, session, cap, checks, calls, faults>>

(* The answer is lost, the process is not seen to stop, or the executor    *)
(* does not know the session any more: unknown, and the executor may or    *)
(* may not have forgotten the result.                                      *)
AckUnknown ==
    /\ At("ack")
    /\ \E r \in {att[Cur].released, att[Cur].exec # "gone"} :
         Edit(Cur, [att[Cur] EXCEPT !.released = @ \/ r, !.state = "unknown"])
    /\ units' = [units EXCEPT ![att[Cur].unit].state = "unknown"]
    /\ IF att[Cur].exec = "gone" THEN UNCHANGED faults ELSE Fault
    /\ Goto("failed")
    /\ UNCHANGED <<status, plan, session, cap, checks, calls>>

Parse ==
    /\ At("parse") /\ att[Cur].outcome = "good"
    /\ Settle("done", "done")
    /\ session' = [session EXCEPT !.status = "completed"]
    /\ Goto("returned")
    /\ UNCHANGED <<status, plan, cap, checks, calls, faults>>

(* Wrong references at the first attempt: one correction, by itself.       *)
Correctable == /\ att[Cur].outcome = "reference" /\ Tries(att[Cur].unit) = 1
               /\ session.status = "completed"
ParseReference ==
    /\ At("parse") /\ Correctable
    /\ Settle("failed", "pending") /\ Goto("returned")
    /\ UNCHANGED <<status, plan, session, cap, checks, calls, faults>>

ParseInvalid ==
    /\ At("parse") /\ att[Cur].outcome # "good" /\ ~Correctable
    /\ Fail(session.status) /\ UNCHANGED faults

-----------------------------------------------------------------------------
(***************************************************************************)
(* After the units: the refutations are planned once, then every earlier   *)
(* issue is checked, one per claim, and then the result is published.      *)
(***************************************************************************)
AllDone == Deciding /\ Open = {}
Larger(m, n) == IF m > n THEN m ELSE n

SaveRefutations ==
    /\ AllDone /\ ~plan.refuted
    /\ \E groups \in Groupings :
         /\ units' = units \o [i \in DOMAIN groups |-> NewUnit("refutation", groups[i], 0)]
         /\ plan' = [plan EXCEPT !.refuted = TRUE,
               !.max = Larger(@, 2 * (plan.base - Cardinality(Checks) + Len(groups)) + Cardinality(Checks))]
    /\ Goto("returned")
    /\ UNCHANGED <<status, att, session, cap, checks, calls, faults>>

BeginHistory ==
    /\ AllDone /\ plan.refuted
    /\ Goto("history")
    /\ UNCHANGED <<status, units, att, plan, session, cap, checks, calls, faults>>

Unchecked == {h \in Checks : checks[h] = "queued"}
Broken == {h \in Checks : checks[h] \in {"started", "failed"}}

(* The claim of the one request for an issue counts the call.              *)
StartCheck ==
    /\ At("history") /\ Broken = {} /\ calls < plan.authorized
    /\ \E h \in Unchecked : checks' = [checks EXCEPT ![h] = "started"]
    /\ calls' = calls + 1
    /\ Goto("checking")
    /\ UNCHANGED <<status, units, att, plan, session, cap, faults>>

(* Without historical evidence nothing is asked.                           *)
SkipCheck ==
    /\ At("history") /\ Broken = {}
    /\ \E h \in Unchecked : checks' = [checks EXCEPT ![h] = "done"]
    /\ Goto("checked")
    /\ UNCHANGED <<status, units, att, plan, session, cap, calls, faults>>

(* An error before the call, the used up calls included.                   *)
FailCheck ==
    /\ At("history") /\ Broken = {}
    /\ \E h \in Unchecked : checks' = [checks EXCEPT ![h] = "failed"]
    /\ IF calls < plan.authorized THEN Fault ELSE UNCHANGED faults
    /\ Goto("failed")
    /\ UNCHANGED <<status, units, att, plan, session, cap, calls>>

(* The answer of the check under way.                                      *)
FinishCheck ==
    /\ At("checking")
    /\ \E h \in Broken, ok \in BOOLEAN :
         /\ checks[h] = "started"
         /\ checks' = [checks EXCEPT ![h] = IF ok THEN "done" ELSE "failed"]
         /\ Goto(IF ok THEN "checked" ELSE "failed")
    /\ UNCHANGED <<status, units, att, plan, session, cap, calls, faults>>

(* A check that was started or failed earlier ends the job as incomplete.  *)
HistoryBroken ==
    /\ At("history") /\ Broken # {}
    /\ Transition("incomplete")
    /\ UNCHANGED <<units, att, plan, session, checks, calls, faults>>

YieldUnit ==
    /\ At("checked") /\ Unchecked # {}
    /\ Transition("queued")
    /\ UNCHANGED <<units, att, plan, session, checks, calls, faults>>

(* Publisher.publish reads the plan again before it writes anything.       *)
Complete == /\ plan.saved /\ Open = {}
            /\ \A h \in Checks : checks[h] = "done"
(* Mutant: the publication follows the first check.                      *)
PublishAfterCheck ==
    /\ At("history") \/ At("checked")
    /\ Broken = {}
    /\ Transition("published")
    /\ UNCHANGED <<units, att, plan, session, checks, calls, faults>>

Publish ==
    /\ At("history") \/ At("checked")
    /\ Unchecked = {} /\ Broken = {} /\ Complete
    /\ Transition("published")
    /\ UNCHANGED <<units, att, plan, session, checks, calls, faults>>

-----------------------------------------------------------------------------
(***************************************************************************)
(* The executor, its event reports, and the broker of the model calls.     *)
(***************************************************************************)
Started == {t \in DOMAIN att : att[t].exec # "absent"}
(* Mutant: a session starts although the one before has not been recorded. *)
MayStartUnrecorded(s) == s \notin Started

(* A request starts its session unless it exists, or the record of the end *)
(* of the one before is missing.                                           *)
MayStart(s) == /\ s \notin Started
               /\ \A t \in Started : (\A v \in Started : v <= t) => att[t].kept
Deliver(s) ==
    /\ att[s].net # "none"
    /\ IF MayStart(s)
       THEN Edit(s, [att[s] EXCEPT !.net = "none", !.exec = "running", !.token = att[s].net])
       ELSE Edit(s, [att[s] EXCEPT !.net = "none"])
    /\ UNCHANGED <<status, pc, units, plan, session, cap, checks, calls, faults>>

LoseRequest(s) ==
    /\ att[s].net # "none" /\ Fault
    /\ Edit(s, [att[s] EXCEPT !.net = "none"])
    /\ UNCHANGED <<status, pc, units, plan, session, cap, checks, calls>>

(* The run announces its end to the manager and makes no call any more.    *)
(* An abort before counts among the failures.                              *)
EndSession(s) ==
    /\ att[s].exec = "running"
    /\ \E end \in Ended \ {"aborted"}, outcome \in {"good", "reference", "length", "other"} :
         /\ outcome \in {"good", "reference"} => end = "completed"
         /\ (outcome # "other" \/ end = "completed") => att[s].calls > 0
         /\ Edit(s, [att[s] EXCEPT !.exec = "announced", !.token = "none",
                                    !.end = end, !.outcome = outcome])
         /\ IF end = "unknown" THEN Fault ELSE UNCHANGED faults
    /\ UNCHANGED <<status, pc, units, plan, session, cap, checks, calls>>

(* An abort after the announcement: by the executor's watch or the request *)
(* of the manager at the deadline, or when the model or the binary fails.  *)
(* A second terminal event replaces the completion.                        *)
Withdraw(s) ==
    /\ att[s].exec = "announced" /\ att[s].end = "completed"
    /\ \E outcome \in {"length", "other"} :
         Edit(s, [att[s] EXCEPT !.end = "aborted", !.outcome = outcome])
    /\ IF s = Cur /\ session.expired THEN UNCHANGED faults ELSE Fault
    /\ UNCHANGED <<status, pc, units, plan, session, cap, checks, calls>>

SetStatus(s) ==
    /\ att[s].exec = "announced"
    /\ Edit(s, [att[s] EXCEPT !.exec = "ended"])
    /\ UNCHANGED <<status, pc, units, plan, session, cap, checks, calls, faults>>

(* The end is reported first and recorded last (SessionRun.run).           *)
PersistEnd(s) ==
    /\ att[s].exec = "ended" /\ ~att[s].kept
    /\ Edit(s, [att[s] EXCEPT !.kept = TRUE])
    /\ UNCHANGED <<status, pc, units, plan, session, cap, checks, calls, faults>>

(* The executor restarts: sessions without a record of their end are gone, *)
(* but what they had to report is still sent.                              *)
ExecutorCrash(s) ==
    /\ att[s].exec \in {"running", "announced", "ended"} /\ ~att[s].kept /\ Fault
    /\ Edit(s, [att[s] EXCEPT !.exec = "gone", !.token = "none"])
    /\ UNCHANGED <<status, pc, units, plan, session, cap, checks, calls>>

(* Events of the current session reach the job, in their order; those of   *)
(* an earlier one are refused.  Each sets the status of the job's session; *)
(* a withdrawn completion was announced before it was aborted.             *)
Told(event) == session' = [session EXCEPT !.status = event, !.told = event]
Report(s) ==
    /\ s = Cur /\ session.submitted
    /\ \/ /\ att[s].exec # "absent" /\ session.told = "none"
          /\ Told("running")
       \/ /\ session.told = "running" /\ att[s].end # "none"
          /\ Told(IF att[s].end = "aborted" THEN "completed" ELSE att[s].end)
       \/ /\ session.told = "completed" /\ att[s].end = "aborted"
          /\ Told("aborted")
    /\ UNCHANGED <<status, pc, units, att, plan, cap, checks, calls, faults>>

(* Mutant: only the capability limits the calls of a session.              *)
MayCallAgain(s) == cap /\ att[s].token = "fresh" /\ s = Cur

(* The transaction that admits a model call and counts it.                 *)
MayCall(s) == cap /\ att[s].token = "fresh" /\ s = Cur /\ att[s].calls = 0
Call(s) ==
    /\ att[s].exec = "running" /\ status = "running" /\ MayCall(s)
    /\ calls < plan.authorized /\ Authorized
    /\ Edit(s, [att[s] EXCEPT !.calls = @ + 1])
    /\ calls' = calls + 1 /\ cap' = FALSE
    /\ UNCHANGED <<status, pc, units, plan, session, checks, faults>>

Expire ==
    /\ session.status # "none" /\ ~session.expired /\ Fault
    /\ session' = [session EXCEPT !.expired = TRUE]
    /\ UNCHANGED <<status, pc, units, att, plan, cap, checks, calls>>

-----------------------------------------------------------------------------
(***************************************************************************)
(* The operator: confirmation of the calls, continuation, retry of a unit. *)
(***************************************************************************)
Confirm ==
    /\ plan.saved /\ status \in {"awaiting_cost", "queued"}
    /\ ~(plan.approved /\ Authorized)
    /\ plan' = [plan EXCEPT !.authorized = plan.max, !.approved = TRUE]
    /\ status' = "queued"
    /\ UNCHANGED <<pc, units, att, session, cap, checks, calls, faults>>

Continue ==
    /\ plan.saved /\ status \in Waiting
    /\ status' = IF Authorized THEN "queued" ELSE "awaiting_cost"
    /\ UNCHANGED <<pc, units, att, plan, session, cap, checks, calls, faults>>

(* Mutant: a finished unit may be retried.                               *)
RetriableDone(u) == units[u].state \in {"failed", "done"}
Retriable(u) == units[u].state = "failed" /\ LatestState(u) = "failed"
Retry(u) ==
    /\ status \in Waiting /\ Retriable(u)
    /\ plan' = [plan EXCEPT !.max = @ + 1]
    /\ units' = [units EXCEPT ![u].state = "pending"]
    /\ status' = IF plan.authorized >= plan.max + 1 THEN "queued" ELSE "awaiting_cost"
    /\ UNCHANGED <<pc, att, session, cap, checks, calls, faults>>

-----------------------------------------------------------------------------
(***************************************************************************)
(* The worker process ends, or its lease runs out and the job is swept.    *)
(***************************************************************************)
Crash ==
    /\ pc # "idle" /\ Fault
    /\ Goto("idle")
    /\ UNCHANGED <<status, units, att, plan, session, cap, checks, calls>>

Sweep ==
    /\ status = "running"
    /\ IF pc = "idle" THEN UNCHANGED faults ELSE Fault
    /\ status' = "queued" /\ cap' = FALSE
    /\ UNCHANGED <<pc, units, att, plan, session, checks, calls>>

(* A worker whose job was swept fails _active at its next transaction.     *)
Abandon ==
    /\ pc # "idle" /\ status # "running"
    /\ Goto("idle")
    /\ UNCHANGED <<status, units, att, plan, session, cap, checks, calls, faults>>

Worker ==
    \/ Claim \/ SavePlan \/ AwaitCost \/ PauseBudget \/ SplitUnit \/ GiveUp \/ Return
    \/ StartUnit \/ TooLate \/ Execute \/ MarkSubmitted \/ Post \/ PostRefused
    \/ Authorize \/ AuthorizeRefused
    \/ PollRunning \/ PollCompleted \/ PollEnded \/ PollMissing \/ PollExpired \/ InspectOpen
    \/ Receive \/ Acknowledge \/ AckUnknown \/ Parse \/ ParseReference \/ ParseInvalid
    \/ SaveRefutations \/ BeginHistory \/ StartCheck \/ SkipCheck \/ FailCheck \/ FinishCheck
    \/ HistoryBroken \/ YieldUnit \/ Publish \/ Abandon

Remote ==
    \E s \in DOMAIN att :
       Deliver(s) \/ LoseRequest(s) \/ EndSession(s) \/ Withdraw(s) \/ SetStatus(s)
       \/ PersistEnd(s) \/ ExecutorCrash(s) \/ Report(s) \/ Call(s)

Operator == Confirm \/ Continue \/ \E u \in DOMAIN units : Retry(u)

Next == Worker \/ Remote \/ Operator \/ Expire \/ Crash \/ Sweep

Spec == Init /\ [][Next]_vars

-----------------------------------------------------------------------------
UnitStates == {"pending", "running", "done", "failed", "unknown", "replaced"}
AttemptStates == {"prepared", "received", "done", "failed", "unknown"}
Places == {"idle", "deciding", "failed", "returned", "execute", "submit", "post", "authorize",
           "poll", "inspect", "receive", "ack", "parse", "history", "checking", "checked"}

(* Every variable keeps its type.                                          *)
TypeOK ==
    /\ status \in {"queued", "running", "published"} \cup Waiting
    /\ pc \in Places
    /\ units \in Seq([kind : {"primary", "association", "refutation"}, size : Nat,
                       depth : Nat, state : UnitStates])
    /\ att \in Seq([unit : Nat, state : AttemptStates, raw : BOOLEAN,
                     exec : {"absent", "running", "announced", "ended", "gone"}, end : {"none"} \cup Ended,
                     outcome : {"none", "good", "reference", "length", "other"}, calls : Nat,
                     net : {"none", "fresh", "stale"}, token : {"none", "fresh", "stale"}, kept : BOOLEAN, released : BOOLEAN])
    /\ plan \in [saved : BOOLEAN, max : Nat, base : Nat, refuted : BOOLEAN,
                  authorized : Nat, approved : BOOLEAN]
    /\ session \in [status : {"none", "prepared", "submitted", "running"} \cup Ended,
                     submitted : BOOLEAN, expired : BOOLEAN, told : {"none", "running"} \cup Ended]
    /\ cap \in BOOLEAN
    /\ checks \in [Checks -> {"queued", "started", "done", "failed"}]
    /\ calls \in Nat /\ faults \in 0..MaxFaults

(* A session calls the model once, however often its job is taken over and *)
(* its capability renewed (broker.py: a second call of a session is        *)
(* refused, and the capability admits one).                                *)
OneCallPerSession == \A s \in DOMAIN att : att[s].calls <= 1

(* While a session may prompt the model, start or still be asked to start, *)
(* no later one is prepared: a unit is tried again only after a reported   *)
(* end, and the next session does not start before that end is settled.    *)
OneSessionAtATime ==
    /\ \A s \in DOMAIN att : s < Cur => att[s].end \in Known /\ att[s].exec # "running"
    /\ Cardinality({s \in DOMAIN att : Live(s)}) <= 1

(* The executor is told to forget a result only when it is persisted, and  *)
(* a unit is done only by the accepted result of its latest session, which *)
(* really completed.                                                       *)
ResultKept ==
    /\ \A s \in DOMAIN att : att[s].released => att[s].raw
    /\ \A u \in DOMAIN units : units[u].state = "done" =>
          \E s \in DOMAIN att : /\ s = Latest(u) /\ att[s].state = "done"
                                /\ att[s].raw /\ att[s].end = "completed" /\ att[s].outcome = "good"

(* The session columns of the job are those of the attempt being executed: *)
(* no unit is resumed with the deadline, status or result of another one.  *)
SessionRowFits ==
    (status = "running" /\ pc \in {"execute", "submit", "post", "authorize", "poll",
                                    "inspect", "receive", "ack", "parse"})
        => /\ Open # {} /\ Latest(Next1) = Cur
           /\ pc \in {"ack", "parse"} => att[Cur].raw /\ att[Cur].end = "completed"

(* What is published is complete: every unit done or replaced by others,   *)
(* the refutations planned, every earlier issue checked, and no session    *)
(* of the job left running.                                                *)
PublishedComplete ==
    status = "published" =>
        /\ plan.refuted /\ Complete
        /\ \A s \in DOMAIN att : att[s].end \in Known /\ ~Live(s)

(* An attempt is found to have failed only while the executor still knows  *)
(* its session; one it lost is unknown and is not retried                  *)
(* (docs/review-batching.md).                                              *)
LostIsUnknown ==
    [][\A s \in DOMAIN att : (att'[s].state = "failed" /\ att[s].state # "failed")
                             => att[s].exec \in {"announced", "ended"}]_vars

(* The model is called no more often than the operator, or the automatic   *)
(* limit, has authorised, and no more is authorised than the plan allows   *)
(* (batch_store.py: authorize; broker.py and batch_flow.py count a call    *)
(* before they make it).                                                   *)
CallsAuthorized == calls <= plan.authorized /\ plan.authorized <= plan.max

(* Each call that was counted is the one call of a session, or the one     *)
(* request for an earlier issue that was begun: none is repeated, and the  *)
(* counter misses none.                                                    *)
Callers == {s \in DOMAIN att : att[s].calls > 0}
Begun == {h \in Checks : checks[h] # "queued"}
CallsAccounted ==
    /\ Cardinality(Callers) <= calls
    /\ calls <= Cardinality(Callers) + Cardinality(Begun)

(* A confirmed limit covers what the plan may still ask: one call and one   *)
(* correction for each unit not begun, one call for each issue not checked *)
(* (docs/review-evidence-references.md: the limit contains these calls).   *)
LimitCoversPlan ==
    (plan.refuted /\ status = "queued" /\ Authorized) =>
        plan.authorized >= calls + 2 * Cardinality({u \in Open : Tries(u) = 0}) + Cardinality(Unchecked)
-----------------------------------------------------------------------------
(***************************************************************************)
(* The sessions of the job as SessionContract sees them: one runs until    *)
(* its end is recorded or the executor lost it, an announced completion is *)
(* open until the status is set, and the result of a completed session is  *)
(* there until it is released.                                             *)
(***************************************************************************)
RunSeen(s) ==
    IF s \notin DOMAIN att \/ att[s].exec = "absent" THEN "absent"
    ELSE IF att[s].exec = "gone" \/ att[s].kept THEN "over" ELSE "running"
EndSeen(s) ==
    IF s \notin DOMAIN att THEN "none"
    ELSE CASE att[s].end = "completed" ->
                IF att[s].exec = "announced" THEN "announced" ELSE "completed"
           [] att[s].end = "aborted" -> "failed"
           [] att[s].end = "unknown" -> "unclear"
           [] OTHER -> att[s].end
CustodySeen(s) ==
    IF s \notin DOMAIN att \/ att[s].end # "completed" THEN "none"
    ELSE IF att[s].released THEN "released"
    ELSE IF att[s].raw THEN "accepted" ELSE "made"

AskedSeen == {s \in DOMAIN att : s < Cur \/ session.submitted}

Contract == INSTANCE SessionContract WITH
    Sessions <- 1..MaxSessions,
    asked <- AskedSeen,
    run <- [s \in 1..MaxSessions |-> RunSeen(s)],
    end <- [s \in 1..MaxSessions |-> EndSeen(s)],
    custody <- [s \in 1..MaxSessions |-> CustodySeen(s)],
    cancel <- "none"

(* The worker keeps the contract in every step, with the crashes, lost     *)
(* requests, aborts and retries of this module: it asks for a session only *)
(* after a reported end of the ones before, none runs beside another, a    *)
(* result is taken only when its completion can be withdrawn no more, and  *)
(* none is made to forget a result that is not persisted.                  *)
ContractSpec == Contract!Spec
=============================================================================
