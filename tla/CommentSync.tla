---------------------------- MODULE CommentSync ----------------------------
(***************************************************************************)
(* The status block of one published comment, rewritten by every later     *)
(* review of its PR (backend/ai_review/issue_publication.py).              *)
(*                                                                         *)
(* Gitea has no conditional write.  Before a PATCH the comment is read and *)
(* compared with the last body known, and every write of an earlier review *)
(* whose outcome is open must first be seen on the comment: it might still *)
(* arrive.  The operations are rows of the database; the reviews of a PR   *)
(* publish one at a time, in their order, under a file lock (the module    *)
(* ReviewQueue).  A review that is interrupted publishes again.            *)
(***************************************************************************)
EXTENDS Naturals, FiniteSets

CONSTANTS
    LastJob,     \* the reviews of the PR are 1..LastJob, by generation
    Texts,       \* status texts a review may want
    MaxFaults    \* bound: crashes, lost or late answers, failed reads

ASSUME SyncConstantsOK ==
    /\ LastJob \in Nat \ {0} /\ MaxFaults \in Nat
    /\ Texts # {} /\ Texts \cap {"edited", "deleted"} = {}

Jobs == 1..LastJob

VARIABLES
    body,        \* the comment at Gitea: a text, "edited" or "deleted"
    writer,      \* the review whose PATCH took effect last, 0 for none
    last,        \* review_issue_comments.last_body
    op,          \* review_issue_operations, one per review
    net,         \* PATCH requests under way, by review
    job,         \* the review that may publish
    pc,          \* where it is in sync_comments
    seen,        \* the body it read
    mine,        \* op['state'] in its memory
    raced,       \* a person changed the comment while some PATCH was being
                 \* prepared or under way
    faults

vars == <<body, writer, last, op, net, job, pc, seen, mine, raced, faults>>

Fault == faults < MaxFaults /\ faults' = faults + 1

Init ==
    /\ body \in Texts /\ last = body /\ writer = 0
    /\ op \in [Jobs -> {[state |-> "none", before |-> body, want |-> t] : t \in Texts}]
    /\ net = {} /\ job = 1 /\ pc = "idle" /\ seen = body /\ mine = "none"
    /\ raced = FALSE /\ faults = 0

(* change_operation for a review.                                          *)
Mark(j, state) == op' = [op EXCEPT ![j].state = state]

(* Mutant: the review that failed keeps its hold of the operation.         *)
FailHolding ==
    /\ Mark(job, IF mine = "started" THEN "unknown" ELSE "conflict")
    /\ pc' = "left"
    /\ UNCHANGED <<body, writer, last, net, job, seen, mine, raced>>

(* An exception: a write that began is unknown, any other is a conflict.   *)
Fail ==
    /\ Mark(job, IF mine = "started" THEN "unknown" ELSE "conflict")
    /\ pc' = "left" /\ mine' = "none"
    /\ UNCHANGED <<body, writer, last, net, job, seen, raced>>

-----------------------------------------------------------------------------
(* The operation is recorded once, with the text of that moment.           *)
Open ==
    /\ pc = "idle" /\ op[job].state # "done"
    /\ op' = IF op[job].state = "none"
             THEN [op EXCEPT ![job].state = "queued", ![job].before = last] ELSE op
    /\ mine' = op'[job].state
    /\ pc' = "opened"
    /\ UNCHANGED <<body, writer, last, net, job, seen, raced, faults>>

Read ==
    /\ pc = "opened" /\ body # "deleted"
    /\ seen' = body /\ pc' = "read"
    /\ UNCHANGED <<body, writer, last, op, net, job, mine, raced, faults>>

ReadDeleted ==
    /\ pc = "opened" /\ body = "deleted"
    /\ Fail /\ UNCHANGED faults

ReadFails ==
    /\ pc = "opened" /\ Fault /\ Fail

(* Mutant: writes of earlier reviews are not waited for.                   *)
PendingNone == {}

(* Writes of other reviews whose outcome is open.                          *)
Pending == {j \in Jobs \ {job} : op[j].state \in {"started", "unknown"}}

ConfirmEarlier ==
    /\ pc = "read"
    /\ \E j \in Pending : op[j].want = seen /\ Mark(j, "done")
    /\ pc' = "confirmed"
    /\ UNCHANGED <<body, writer, last, net, job, seen, mine, raced, faults>>

NoteEarlier ==
    /\ pc = "confirmed"
    /\ last' = seen /\ pc' = "noted"
    /\ UNCHANGED <<body, writer, op, net, job, seen, mine, raced, faults>>

Rebase ==
    /\ pc = "noted"
    /\ op' = IF mine = "queued" THEN [op EXCEPT ![job].before = seen] ELSE op
    /\ pc' = "read"
    /\ UNCHANGED <<body, writer, last, net, job, seen, mine, raced, faults>>

EarlierOpen ==
    /\ pc = "read" /\ \E j \in Pending : op[j].want # seen
    /\ Fail /\ UNCHANGED faults

-----------------------------------------------------------------------------
Checked == pc = "read" /\ Pending = {}

AlreadyThere ==
    /\ Checked /\ seen = op[job].want
    /\ pc' = "written"
    /\ UNCHANGED <<body, writer, last, op, net, job, seen, mine, raced, faults>>

(* Mutant: the comment is written whatever stands there.                   *)
WritableAlways == mine = "queued"

(* Only over the body known, and only by a review that has not written.    *)
Writable == seen = op[job].before /\ mine = "queued"

Refuse ==
    /\ Checked /\ seen # op[job].want /\ ~Writable
    /\ Fail /\ UNCHANGED faults

(* assert_version failed or the review is no longer active.                *)
Outdated ==
    /\ pc \in {"opened", "read"}
    /\ pc' = "left" /\ mine' = "none"
    /\ UNCHANGED <<body, writer, last, op, net, job, seen, raced, faults>>

Start ==
    /\ Checked /\ seen # op[job].want /\ Writable
    /\ Mark(job, "started") /\ mine' = "started"
    /\ pc' = "started"
    /\ UNCHANGED <<body, writer, last, net, job, seen, raced, faults>>

Send ==
    /\ pc = "started"
    /\ net' = net \cup {job} /\ pc' = "sent"
    /\ UNCHANGED <<body, writer, last, op, job, seen, mine, raced, faults>>

Land(j) ==
    /\ j \in net /\ net' = net \ {j}
    /\ IF body = "deleted" THEN UNCHANGED <<body, writer, raced>>
       ELSE body' = op[j].want /\ writer' = j /\ raced' = FALSE
    /\ UNCHANGED <<last, op, job, pc, seen, mine, faults>>

Lose(j) ==
    /\ j \in net /\ Fault /\ net' = net \ {j}
    /\ UNCHANGED <<body, writer, last, op, job, pc, seen, mine, raced>>

(* The answer is there and the comment is read back.                       *)
ReadBack ==
    /\ pc = "sent" /\ job \notin net
    /\ IF body = op[job].want
       THEN pc' = "written" /\ UNCHANGED <<body, writer, last, op, net, job, seen, mine, raced, faults>>
       ELSE Fail /\ UNCHANGED faults

(* No answer: the request may still be on its way.                         *)
NoAnswer ==
    /\ pc = "sent" /\ Fault /\ Fail

NoteWritten ==
    /\ pc = "written"
    /\ last' = op[job].want /\ pc' = "saved"
    /\ UNCHANGED <<body, writer, op, net, job, seen, mine, raced, faults>>

(* Mutant: a write is done as soon as it is sent.                          *)
FinishSent ==
    /\ pc \in {"sent", "saved"}
    /\ Mark(job, "done") /\ pc' = "final"
    /\ UNCHANGED <<body, writer, last, net, job, seen, mine, raced, faults>>

Finish ==
    /\ pc = "saved"
    /\ Mark(job, "done") /\ pc' = "final"
    /\ UNCHANGED <<body, writer, last, net, job, seen, mine, raced, faults>>

(* The last check of the version: an error takes the operation back.       *)
Leave ==
    /\ pc = "final"
    /\ \/ Fault /\ Fail
       \/ /\ pc' = "left" /\ mine' = "none"
          /\ UNCHANGED <<body, writer, last, op, net, job, seen, raced, faults>>

-----------------------------------------------------------------------------
(* The worker ends, in this comment or in a later one of its review; the    *)
(* review is then executed again from its persisted results.               *)
Crash ==
    /\ pc # "idle" /\ Fault
    /\ pc' = "idle" /\ mine' = "none"
    /\ UNCHANGED <<body, writer, last, op, net, job, seen, raced>>

(* The next review publishes when the lock is free.                        *)
NextReview ==
    /\ pc \in {"idle", "left"} /\ job < LastJob
    /\ job' = job + 1 /\ pc' = "idle"
    /\ UNCHANGED <<body, writer, last, op, net, seen, mine, raced, faults>>

Person ==
    /\ body \in Texts
    /\ body' \in {"edited", "deleted"}
    /\ raced' = (net # {} \/ pc \in {"read", "confirmed", "noted", "started", "sent"})
    /\ UNCHANGED <<writer, last, op, net, job, pc, seen, mine, faults>>

-----------------------------------------------------------------------------
Sync == Open \/ Read \/ ReadDeleted \/ ReadFails \/ ConfirmEarlier \/ NoteEarlier \/ Rebase
        \/ EarlierOpen \/ AlreadyThere \/ Refuse \/ Outdated \/ Start \/ Send \/ ReadBack
        \/ NoAnswer \/ NoteWritten \/ Finish \/ Leave

Next == Sync \/ (\E j \in Jobs : Land(j) \/ Lose(j)) \/ Crash \/ NextReview \/ Person

Spec == Init /\ [][Next]_vars

-----------------------------------------------------------------------------
States == {"none", "queued", "started", "unknown", "conflict", "done"}

(* Every variable keeps its type; a review holds no operation when idle.   *)
TypeOK ==
    /\ body \in Texts \cup {"edited", "deleted"}
    /\ writer \in 0..LastJob /\ job \in Jobs /\ faults \in 0..MaxFaults
    /\ last \in Texts /\ seen \in Texts \cup {"edited"}
    /\ op \in [Jobs -> [state : States, before : Texts, want : Texts]]
    /\ net \subseteq Jobs /\ raced \in BOOLEAN
    /\ pc \in {"idle", "opened", "read", "confirmed", "noted", "started", "sent", "written",
               "saved", "final", "left"}
    /\ mine \in States \ {"done"} /\ (pc \in {"idle", "left"} <=> mine = "none")

(* What is recorded as done has taken effect: no request of it is still    *)
(* under way, unless the same text had been given up as a conflict before. *)
DoneHasLanded ==
    \A j \in Jobs : (op[j].state = "done" /\ j \in net) =>
        \E k \in Jobs \ {j} : op[k].state = "conflict" /\ op[k].want = op[j].want

(* A change by a person is overwritten only if some write was under way or *)
(* being prepared when it was made (docs/review-issue-lifecycle.md: an     *)
(* edit before the synchronisation is protected, a simultaneous one is     *)
(* not).  "raced" holds for every later write, until one lands.            *)
EditKept == [][(body = "edited" /\ body' \in Texts) => raced]_vars

(* An earlier review replaces the status of a later one at most by a text  *)
(* that was given up as a conflict: every other open write is waited for.  *)
(* After a conflict, whose text may return by any late PATCH, it says no   *)
(* more than that the text is that one.                                    *)
OverwriteOnlyAfterConflict ==
    [][(writer' < writer /\ body' # body) =>
          \E j \in Jobs : op[j].state = "conflict" /\ op[j].want = body']_vars

(* No write of an earlier review takes effect over that of a later one     *)
(* (issue_publication.py: an open write of an earlier generation must be   *)
(* confirmed first, or a late PATCH could overwrite the new status).       *)
NewerStateStays == [][writer' < writer => body' = body]_vars
=============================================================================
