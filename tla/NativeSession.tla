--------------------------- MODULE NativeSession ---------------------------
(***************************************************************************)
(* One native session between the manager and the executor: its late or    *)
(* repeated start, the event log the executor writes and reports in        *)
(* batches, the end of the session, the result that is collected and then  *)
(* released, and the cancellation (review-runtime/native_session.py,       *)
(* executor.py; backend/ai_review/session_events.py, native_review.py,     *)
(* cancellation.py).                                                       *)
(*                                                                         *)
(* The executor keeps the files of a session over a restart, not its       *)
(* threads; a child process may outlive a restart.  A request of either    *)
(* side may take effect although its answer is lost, and later than the    *)
(* sender waits.                                                           *)
(***************************************************************************)
EXTENDS Naturals, Sequences, FiniteSets

CONSTANTS
    BatchLimit,    \* events in one report (50)
    MaxWork,       \* bound: events before the end
    MaxFaults      \* bound: restarts, lost or late answers

ASSUME SessionConstantsOK ==
    BatchLimit \in Nat \ {0} /\ MaxWork \in Nat /\ MaxFaults \in Nat

VARIABLES
    job,        \* jobs.status at the manager: active, cancelling, cancelled
    start,      \* the one POST /execute: unsent, marked, sent, done
    stored,     \* review_session_events, by seq
    got,        \* the result is persisted in its attempt
    place,      \* where SessionRun.run is; none: no such thread
    status,     \* SessionRun.status
    cancel,     \* SessionRun.cancel_requested
    final,      \* SessionRun.final_event_seq, 0 for none
    orphan,     \* a child process without a SessionRun
    reporter,   \* EventReporter: thread, closed, upto (batch being sent), acked
    binding,    \* bindings/<job>.<session>.json: none, bound, cancelled
    log,        \* the lines of the event file
    ackFile,    \* the file of the acknowledged seq
    spool,      \* the spool directory exists
    result,     \* results/<session>.json exists
    record,     \* sessions/<session>.json
    draft,      \* the record being written
    net,        \* reports under way: [from, to]
    faults

executor == <<place, status, cancel, final, orphan, draft>>
files == <<binding, log, ackFile, spool, result, record>>
manager == <<job, start, stored, got>>
vars == <<manager, executor, reporter, files, net, faults>>

EndKinds == {"completed", "failed", "aborted", "unknown"}
NoRecord == [there |-> FALSE, status |-> "none", final |-> 0, acked |-> 0,
             closed |-> FALSE, available |-> FALSE]
NoReporter == [thread |-> "dead", closed |-> TRUE, upto |-> 0, acked |-> 0]
Fault == faults < MaxFaults /\ faults' = faults + 1

InMemory == place \notin {"none", "done"}          \* NativeSessions.sessions
Stopped == place \in {"none", "unsaved", "done"} /\ ~orphan
Drained == reporter.acked = Len(log)                \* the queue is empty

Init ==
    /\ job = "active" /\ start = "unsent" /\ stored = <<>> /\ got = FALSE
    /\ place = "none" /\ status = "none" /\ cancel = FALSE /\ final = 0
    /\ orphan = FALSE /\ draft = NoRecord
    /\ reporter = NoReporter
    /\ binding = "none" /\ log = <<>> /\ ackFile = 0 /\ spool = FALSE
    /\ result = FALSE /\ record = NoRecord
    /\ net = {} /\ faults = 0

-----------------------------------------------------------------------------
(***************************************************************************)
(* Start.  The manager marks the session as submitted while it holds the   *)
(* job; the request itself may leave and arrive at any time after.         *)
(***************************************************************************)
MarkSubmitted ==
    /\ job = "active" /\ start = "unsent"
    /\ start' = "marked"
    /\ UNCHANGED <<job, stored, got, executor, reporter, files, net, faults>>

SendStart ==
    /\ start = "marked"
    /\ start' = "sent"
    /\ UNCHANGED <<job, stored, got, executor, reporter, files, net, faults>>

(* Mutant: the file of a cancelled binding does not stop a late start.     *)
MayBindLate == binding \in {"none", "cancelled"}

(* NativeSessions.execute: no new run for a session that is bound or       *)
(* cancelled.                                                              *)
MayBind == binding = "none"
DeliverStart ==
    /\ start = "sent" /\ start' = "done"
    /\ IF MayBind
       THEN /\ binding' = "bound" /\ place' = "running" /\ status' = "running"
            /\ reporter' = [thread |-> "idle", closed |-> FALSE, upto |-> 0, acked |-> 0]
            /\ spool' = TRUE
       ELSE UNCHANGED <<binding, place, status, reporter, spool>>
    /\ UNCHANGED <<job, stored, got, cancel, final, orphan, draft,
                   log, ackFile, result, record, net, faults>>

(* The worker crashes before its request, or the request is lost.          *)
LoseStart ==
    /\ start \in {"marked", "sent"} /\ Fault
    /\ start' = "done"
    /\ UNCHANGED <<job, stored, got, executor, reporter, files, net>>

-----------------------------------------------------------------------------
(***************************************************************************)
(* SessionRun.run.  Events are written to the file before they are sent;   *)
(* the terminal event is the last one, and no other is taken after it.     *)
(***************************************************************************)
Emit ==
    /\ place \in {"running", "saved"} /\ Len(log) < MaxWork
    /\ log' = Append(log, "work")
    /\ UNCHANGED <<manager, executor, reporter, binding, ackFile, spool, result, record, net, faults>>

(* Mutant: the end is given the number of the event after it.              *)
EmitTerminalNextSeq(kind) ==
    /\ log' = Append(log, kind) /\ final' = Len(log) + 2

EmitTerminal(kind) ==
    /\ log' = Append(log, kind) /\ final' = Len(log) + 1

(* Mutant: the end is announced first and the result saved afterwards.     *)
SaveResultLate ==
    /\ place = "running"
    /\ place' = "saved"
    /\ UNCHANGED <<manager, status, cancel, final, orphan, draft, reporter, files, net, faults>>

SaveResult ==
    /\ place = "running"
    /\ result' = TRUE /\ place' = "saved"
    /\ UNCHANGED <<manager, status, cancel, final, orphan, draft, reporter,
                   binding, log, ackFile, spool, record, net, faults>>

AnnounceCompleted ==
    /\ place = "saved"
    /\ EmitTerminal("completed") /\ place' = "announced"
    /\ UNCHANGED <<manager, status, cancel, orphan, draft, reporter,
                   binding, ackFile, spool, result, record, net, faults>>

(* Any error ends the run; a cancelled or interrupted one is aborted.      *)
AnnounceError ==
    /\ place = "running"
    /\ \E kind \in EndKinds \ {"completed"} :
         (cancel => kind = "aborted") /\ EmitTerminal(kind)
    /\ place' = "announced"
    /\ UNCHANGED <<manager, status, cancel, orphan, draft, reporter,
                   binding, ackFile, spool, result, record, net, faults>>

(* An abort between the announcement and the status is still obeyed, with  *)
(* a second terminal event, whoever asked for it.                          *)
AbortCompleted ==
    /\ place = "announced" /\ log[final] = "completed" /\ cancel
    /\ EmitTerminal("aborted")
    /\ UNCHANGED <<manager, place, status, cancel, orphan, draft, reporter,
                   binding, ackFile, spool, result, record, net, faults>>

(* SessionRun.abort for any other reason than the cancellation of the job, *)
(* which may be active: the watch thread at the deadline, at a changed     *)
(* binary and at a failure of the model, and the manager's POST at its     *)
(* deadline or without an authorisation, which names no job and leaves the *)
(* binding as it is.                                                       *)
Interrupt ==
    /\ InMemory /\ ~Stopped /\ ~cancel
    /\ cancel' = TRUE
    /\ status' = IF status \in EndKinds THEN status ELSE "aborting"
    /\ UNCHANGED <<manager, place, final, orphan, draft, reporter, files, net, faults>>

SetStatus ==
    /\ place = "announced" /\ ~(log[final] = "completed" /\ cancel)
    /\ status' = log[final] /\ place' = "closing"
    /\ UNCHANGED <<manager, cancel, final, orphan, draft, reporter, files, net, faults>>

(* reporter.close waits a while for the queue and for the thread.          *)
CloseReporter ==
    /\ place = "closing"
    /\ reporter' = [reporter EXCEPT !.closed = TRUE]
    /\ place' = "closed"
    /\ UNCHANGED <<manager, status, cancel, final, orphan, draft, files, net, faults>>

(* close ends by removing the spool of an empty queue; _persist_terminal   *)
(* builds the record and writes it.                                        *)
BuildRecord ==
    /\ place = "closed"
    /\ spool' = (spool /\ ~Drained)
    /\ draft' = [there |-> TRUE, status |-> status, final |-> final, acked |-> reporter.acked,
                 closed |-> reporter.thread = "dead" /\ Drained, available |-> result]
    /\ place' = "writing"
    /\ UNCHANGED <<manager, status, cancel, final, orphan, reporter,
                   binding, log, ackFile, result, record, net, faults>>

WriteRecord ==
    /\ place = "writing"
    /\ record' = draft /\ draft' = NoRecord /\ place' = "done"
    /\ UNCHANGED <<manager, status, cancel, final, orphan, reporter,
                   binding, log, ackFile, spool, result, net, faults>>

(* The record cannot be written: the run stays in memory, with no result   *)
(* that would be accepted.                                                 *)
FailRecord ==
    /\ place = "writing" /\ Fault
    /\ status' = "unknown" /\ draft' = NoRecord /\ place' = "unsaved"
    /\ UNCHANGED <<manager, cancel, final, orphan, reporter, files, net>>

-----------------------------------------------------------------------------
(***************************************************************************)
(* EventReporter._run: one batch at a time, again until it is acknowledged *)
(* or the reporter is closed.                                              *)
(***************************************************************************)
SendBatch ==
    /\ reporter.thread = "idle" /\ ~Drained
    /\ LET upto == IF reporter.acked + BatchLimit < Len(log)
                   THEN reporter.acked + BatchLimit ELSE Len(log)
       IN /\ reporter' = [reporter EXCEPT !.thread = "sending", !.upto = upto]
          /\ net' = net \cup {[from |-> reporter.acked + 1, to |-> upto]}
    /\ UNCHANGED <<manager, executor, files, faults>>

(* The thread ends: it completes the record, if there is one, and removes  *)
(* the spool when everything was acknowledged.                             *)
EndThread ==
    /\ reporter' = [reporter EXCEPT !.thread = "dead", !.upto = 0]
    /\ record' = IF record.there
                 THEN [record EXCEPT !.acked = reporter.acked, !.closed = reporter.closed /\ Drained]
                 ELSE record
    /\ spool' = (spool /\ ~(reporter.closed /\ Drained))

StopReporter ==
    /\ reporter.thread = "idle" /\ reporter.closed /\ Drained
    /\ EndThread
    /\ UNCHANGED <<manager, executor, binding, log, ackFile, result, net, faults>>

(* session_events.receive: events are stored in their order; those stored  *)
(* before must be the same.                                                *)
Extended(b) == IF b.to > Len(stored)
               THEN stored \o SubSeq(log, Len(stored) + 1, b.to) ELSE stored
Receivable(b) == b.from <= Len(stored) + 1

Awaited(b) == Receivable(b) /\ reporter.thread = "sending" /\ reporter.upto = b.to

(* The receiver commits the batch; its answer may be lost.                 *)
DeliverBatch(b) ==
    /\ b \in net /\ net' = net \ {b}
    /\ stored' = IF Receivable(b) THEN Extended(b) ELSE stored
    /\ \/ /\ Awaited(b)
          /\ reporter' = [reporter EXCEPT !.thread = "idle", !.upto = 0, !.acked = b.to]
          /\ ackFile' = b.to
          /\ UNCHANGED faults
       \/ /\ IF Awaited(b) THEN Fault ELSE UNCHANGED faults
          /\ UNCHANGED <<reporter, ackFile>>
    /\ UNCHANGED <<job, start, got, executor, binding, log, spool, result, record>>

LoseBatch(b) ==
    /\ b \in net /\ Fault
    /\ net' = net \ {b}
    /\ UNCHANGED <<manager, executor, reporter, files>>

(* Mutant: a batch that got no answer in time counts as delivered.         *)
GiveUpBatchAcknowledged ==
    /\ reporter.thread = "sending"
    /\ reporter' = [reporter EXCEPT !.thread = "idle", !.upto = 0, !.acked = reporter.upto]
    /\ Fault
    /\ UNCHANGED <<manager, executor, files, net>>

(* No answer in time, whatever became of the request.  The thread ends if  *)
(* the reporter is closed or its deadline has passed.                      *)
GiveUpBatch ==
    /\ reporter.thread = "sending"
    /\ IF [from |-> reporter.acked + 1, to |-> reporter.upto] \in net THEN Fault ELSE UNCHANGED faults
    /\ \/ EndThread
       \/ /\ ~reporter.closed
          /\ reporter' = [reporter EXCEPT !.thread = "idle", !.upto = 0]
          /\ UNCHANGED <<record, spool>>
    /\ UNCHANGED <<manager, executor, binding, log, ackFile, result, net>>

(***************************************************************************)
(* The executor restarts.  recover_event_spools reports once more what the *)
(* files of the spool have; the run is lost.                               *)
(***************************************************************************)
Restart ==
    /\ Fault
    /\ place' = IF place = "done" THEN "done" ELSE "none"
    /\ status' = "none" /\ cancel' = FALSE /\ final' = 0 /\ draft' = NoRecord
    /\ orphan' \in IF place \in {"running", "saved", "announced", "closing"} THEN BOOLEAN ELSE {orphan}
    /\ reporter' = IF spool THEN [thread |-> "idle", closed |-> TRUE, upto |-> 0, acked |-> ackFile]
                   ELSE NoReporter
    /\ UNCHANGED <<manager, files, net>>

-----------------------------------------------------------------------------
(***************************************************************************)
(* The manager collects the result and releases it.                        *)
(***************************************************************************)
(* GET /sessions/<id>: from the run in memory, or from its record.         *)
Reported ==
    IF InMemory
    THEN [status |-> status, final |-> final, acked |-> reporter.acked,
          closed |-> reporter.closed /\ reporter.thread = "dead", result |-> result]
    ELSE [status |-> record.status, final |-> record.final, acked |-> record.acked,
          closed |-> record.closed, result |-> record.available /\ result]

LogComplete == Reported.final > 0 /\ Reported.acked >= Reported.final /\ Reported.closed

(* Mutant: a completed session is collected whatever its log.              *)
CollectableEarly == Reported.status = "completed" /\ Reported.result

(* The log is complete on both sides and its last event is the completion  *)
(* with the digest of this result.                                         *)
Collectable ==
    /\ Reported.status = "completed" /\ Reported.result /\ LogComplete
    /\ Len(stored) >= Reported.final /\ stored[Reported.final] = "completed"
Collect ==
    /\ job = "active" /\ ~got /\ Collectable
    /\ got' = TRUE
    /\ UNCHANGED <<job, start, stored, executor, reporter, files, net, faults>>

(* Mutant: the release does not wait for the manager to have the result.   *)
ReleasableUnaccepted == LogComplete

Releasable == got /\ LogComplete
Release ==
    /\ Releasable /\ result
    /\ result' = FALSE /\ record' = [record EXCEPT !.available = FALSE]
    /\ UNCHANGED <<manager, executor, reporter, binding, log, ackFile, spool, net, faults>>

-----------------------------------------------------------------------------
(***************************************************************************)
(* Cancellation: requested, persisted by the executor, and confirmed only  *)
(* when nothing runs.                                                      *)
(***************************************************************************)
RequestCancel ==
    /\ job = "active"
    /\ job' = "cancelling"
    /\ UNCHANGED <<start, stored, got, executor, reporter, files, net, faults>>

(* The worker has left the job: its execution lock is free.                *)
WorkerGone == start # "marked"

(* Mutant: a child process that outlived a restart is not looked for.      *)
AbortRun ==
    /\ job = "cancelling" /\ ~(binding = "cancelled" /\ cancel) /\ InMemory /\ ~Stopped
    /\ binding' = "cancelled" /\ cancel' = TRUE
    /\ status' = IF status \in EndKinds THEN status ELSE "aborting"
    /\ UNCHANGED <<manager, place, final, orphan, draft, reporter,
                   log, ackFile, spool, result, record, net, faults>>

(* NativeSessions.abort: the intention is persisted, then the run in       *)
(* memory is stopped; without one, child processes are looked for.         *)
Abort ==
    /\ job = "cancelling" /\ ~(binding = "cancelled" /\ cancel) /\ ~Stopped
    /\ binding' = "cancelled"
    /\ IF InMemory
       THEN /\ cancel' = TRUE
            /\ status' = IF status \in EndKinds THEN status ELSE "aborting"
            /\ UNCHANGED orphan
       ELSE orphan' = FALSE /\ UNCHANGED <<cancel, status>>
    /\ UNCHANGED <<manager, place, final, draft, reporter,
                   log, ackFile, spool, result, record, net, faults>>

ConfirmCancel ==
    /\ job = "cancelling" /\ Stopped /\ WorkerGone
    /\ binding' = "cancelled"
    /\ job' = "cancelled"
    /\ UNCHANGED <<start, stored, got, executor, reporter,
                   log, ackFile, spool, result, record, net, faults>>

-----------------------------------------------------------------------------
Run == SaveResult \/ AnnounceCompleted \/ AnnounceError \/ AbortCompleted \/ SetStatus
       \/ CloseReporter \/ BuildRecord \/ WriteRecord \/ FailRecord
Report == SendBatch \/ StopReporter \/ GiveUpBatch \/ \E b \in net : DeliverBatch(b)
Cancel == Abort \/ ConfirmCancel

Next ==
    \/ MarkSubmitted \/ SendStart \/ DeliverStart \/ LoseStart \/ Emit \/ Run \/ Report
    \/ \E b \in net : LoseBatch(b)
    \/ Interrupt \/ Restart \/ Collect \/ Release \/ RequestCancel \/ Cancel

Spec == Init /\ [][Next]_vars

(***************************************************************************)
(* The threads of the executor go on, a worker that marked a session goes  *)
(* on to its request, and the confirmation of cancellations is tried every *)
(* second.                                                                 *)
(***************************************************************************)
FairSpec == Spec /\ WF_vars(Run) /\ WF_vars(Report) /\ WF_vars(SendStart)
                 /\ WF_vars(Cancel)

-----------------------------------------------------------------------------
Places == {"none", "running", "saved", "announced", "closing", "closed", "writing",
           "unsaved", "done"}
RecordType == [there : BOOLEAN, status : {"none"} \cup EndKinds, final : Nat, acked : Nat,
               closed : BOOLEAN, available : BOOLEAN]

(* Every variable keeps its type.                                          *)
TypeOK ==
    /\ job \in {"active", "cancelling", "cancelled"}
    /\ start \in {"unsent", "marked", "sent", "done"}
    /\ stored \in Seq({"work"} \cup EndKinds) /\ log \in Seq({"work"} \cup EndKinds)
    /\ got \in BOOLEAN /\ cancel \in BOOLEAN /\ orphan \in BOOLEAN
    /\ spool \in BOOLEAN /\ result \in BOOLEAN
    /\ place \in Places
    /\ status \in {"none", "running", "aborting"} \cup EndKinds
    /\ final \in 0..Len(log) /\ ackFile \in 0..Len(log)
    /\ reporter \in [thread : {"idle", "sending", "dead"}, closed : BOOLEAN, upto : Nat, acked : Nat]
    /\ binding \in {"none", "bound", "cancelled"}
    /\ record \in RecordType /\ draft \in RecordType
    /\ net \subseteq [from : Nat, to : Nat]
    /\ faults \in 0..MaxFaults

(* The manager has a prefix of what the executor wrote, whatever is lost,  *)
(* late, sent again or cut off by a restart; and what the executor takes   *)
(* for acknowledged is stored.                                             *)
StoredIsPrefix ==
    /\ Len(stored) <= Len(log) /\ stored = SubSeq(log, 1, Len(stored))
    /\ reporter.acked <= Len(stored) /\ ackFile <= Len(stored) /\ record.acked <= Len(stored)

(* A result is accepted only with its whole log, which ends with the       *)
(* completion that names it.                                               *)
ResultHasItsLog ==
    got => /\ stored = log /\ stored # <<>> /\ stored[Len(stored)] = "completed"

(* A session announced as completed has its result on disk until the       *)
(* manager has persisted it.                                               *)
AnnouncedResultExists ==
    (\E i \in DOMAIN log : log[i] = "completed") => result \/ got

(* A cancellation is confirmed only when nothing of the session runs, and  *)
(* no late request starts it afterwards.                                   *)
CancelledStaysStopped == job = "cancelled" => Stopped

(* A cancellation is confirmed at last, through restarts and lost answers. *)
CancelConfirmed == (job = "cancelling") ~> (job = "cancelled")
-----------------------------------------------------------------------------
(***************************************************************************)
(* The session as SessionContract sees it: it runs while anything of it    *)
(* may, its end is the last line of the log, open while the run has not    *)
(* set its status, and its result is there once it was announced.  A       *)
(* record that cannot be written afterwards makes the status unknown and   *)
(* leaves the log as it is: the end stands, and nothing more is taken.     *)
(***************************************************************************)
EndOf(e) == CASE e = "completed" -> IF place = "announced" THEN "announced" ELSE "completed"
              [] e \in {"failed", "aborted"} -> "failed"
              [] e = "unknown" -> "unclear"
              [] OTHER -> "none"
EndSeen == IF log = <<>> THEN "none" ELSE EndOf(log[Len(log)])
RunSeen == IF ~Stopped THEN "running" ELSE IF binding = "none" THEN "absent" ELSE "over"
CustodySeen ==
    IF got THEN IF result THEN "accepted" ELSE "released"
    ELSE IF result /\ EndSeen \in {"announced", "completed"} THEN "made" ELSE "none"

AskedSeen == IF start = "unsent" THEN {} ELSE {1}
CancelSeen == CASE job = "active" -> "none" [] job = "cancelling" -> "requested"
                [] OTHER -> "confirmed"

Contract == INSTANCE SessionContract WITH
    Sessions <- {1},
    asked <- AskedSeen,
    run <- [s \in {1} |-> RunSeen],
    end <- [s \in {1} |-> EndSeen],
    custody <- [s \in {1} |-> CustodySeen],
    cancel <- CancelSeen

(* The executor and the manager keep the contract, whatever is lost, late, *)
(* repeated or restarted: the session runs at most once, its result exists *)
(* when it is announced and is not given up before the manager has it, and *)
(* an announced completion is taken back only before it is settled, by an  *)
(* abort that the log then ends with.                                      *)
ContractSpec == Contract!Spec
=============================================================================
