------------------------- MODULE CommentSync_proofs -------------------------
(***************************************************************************)
(* Proofs about the status of a published comment, for any number of       *)
(* reviews, any texts and any number of faults.                            *)
(***************************************************************************)
EXTENDS CommentSync, TLAPS

USE SyncConstantsOK DEF SyncConstantsOK

Op == [state : States, before : Texts, want : Texts]

(* A body that confirmed an earlier write is one of the texts.             *)
ConfirmedText == pc \in {"confirmed", "noted"} => seen \in Texts

LEMMA MarkType ==
    ASSUME TypeOK, NEW j \in Jobs, NEW s \in States, Mark(j, s)
    PROVE  op' \in [Jobs -> Op]
  BY DEF TypeOK, Mark, Op, States

LEMMA FailType ==
    ASSUME TypeOK, Fail, faults' \in 0..MaxFaults
    PROVE  TypeOK'
<1>1. (IF mine = "started" THEN "unknown" ELSE "conflict") \in States
  BY DEF States
<1>2. op' \in [Jobs -> Op]
  BY <1>1, MarkType DEF Fail, TypeOK
<1> QED BY <1>2 DEF Fail, TypeOK, States, Op

LEMMA TypeNext == TypeOK /\ ConfirmedText /\ [Next]_vars => TypeOK'
<1> SUFFICES ASSUME TypeOK, ConfirmedText, [Next]_vars PROVE TypeOK'
  OBVIOUS
<1>1. CASE Open
  <2>1. op[job] \in Op /\ job \in Jobs /\ last \in Texts
    BY DEF TypeOK, Op
  <2>2. op' \in [Jobs -> Op]
    BY <1>1, <2>1 DEF Open, TypeOK, Op, States
  <2>3. mine' \in States \ {"none", "done"}
    BY <1>1, <2>1 DEF Open, TypeOK, Op, States
  <2> QED BY <1>1, <2>2, <2>3 DEF Open, TypeOK, Op
<1>2. CASE Read
  BY <1>2 DEF Read, TypeOK, States
<1>3. CASE ReadDeleted
  BY <1>3, FailType DEF ReadDeleted, TypeOK, States
<1>4. CASE ReadFails
  BY <1>4, FailType DEF ReadFails, Fault, TypeOK, States
<1>5. CASE ConfirmEarlier
  <2>1. op' \in [Jobs -> Op]
    BY <1>5, MarkType DEF ConfirmEarlier, Pending, States
  <2> QED BY <1>5, <2>1 DEF ConfirmEarlier, TypeOK, Op
<1>6. CASE NoteEarlier
  BY <1>6 DEF NoteEarlier, TypeOK, ConfirmedText
<1>7. CASE Rebase
  <2>1. op' \in [Jobs -> Op]
    BY <1>7 DEF Rebase, TypeOK, ConfirmedText, Op
  <2> QED BY <1>7, <2>1 DEF Rebase, TypeOK, Op
<1>8. CASE EarlierOpen
  BY <1>8, FailType DEF EarlierOpen, TypeOK, States
<1>9. CASE AlreadyThere
  BY <1>9 DEF AlreadyThere, TypeOK, States, Checked
<1>10. CASE Refuse
  BY <1>10, FailType DEF Refuse, TypeOK, States
<1>11. CASE Outdated
  BY <1>11 DEF Outdated, TypeOK, States
<1>12. CASE Start
  <2>1. op' \in [Jobs -> Op]
    BY <1>12, MarkType DEF Start, States, TypeOK
  <2> QED BY <1>12, <2>1 DEF Start, Checked, TypeOK, Op, States
<1>13. CASE Send
  BY <1>13 DEF Send, TypeOK, States
<1>14. CASE ReadBack
  BY <1>14, FailType DEF ReadBack, TypeOK, States
<1>15. CASE NoAnswer
  BY <1>15, FailType DEF NoAnswer, Fault, TypeOK, States
<1>16. CASE NoteWritten
  <2>1. op[job].want \in Texts
    BY DEF TypeOK
  <2> QED BY <1>16, <2>1 DEF NoteWritten, TypeOK
<1>17. CASE Finish
  <2>1. op' \in [Jobs -> Op]
    BY <1>17, MarkType DEF Finish, States, TypeOK
  <2> QED BY <1>17, <2>1 DEF Finish, TypeOK, Op
<1>18. CASE Leave
  BY <1>18, FailType DEF Leave, Fault, TypeOK, States
<1>19. CASE Crash
  BY <1>19 DEF Crash, Fault, TypeOK, States
<1>20. CASE NextReview
  BY <1>20 DEF NextReview, TypeOK, States, Jobs
<1>21. CASE Person
  <2>1. raced' \in BOOLEAN
    BY <1>21 DEF Person
  <2> QED BY <1>21, <2>1 DEF Person, TypeOK
<1>22. ASSUME NEW j \in Jobs, Land(j) PROVE TypeOK'
  <2>1. op[j].want \in Texts /\ (IF body = "deleted" THEN UNCHANGED <<body, writer, raced>>
       ELSE body' = op[j].want /\ writer' = j /\ raced' = FALSE)
    BY <1>22 DEF Land, TypeOK
  <2>2. body' \in Texts \cup {"edited", "deleted"} /\ writer' \in 0..LastJob
    BY <2>1 DEF TypeOK, Jobs
  <2>3. raced' \in BOOLEAN
    BY <2>1 DEF TypeOK
  <2> QED BY <1>22, <2>2, <2>3 DEF Land, TypeOK
<1>23. ASSUME NEW j \in Jobs, Lose(j) PROVE TypeOK'
  BY <1>23 DEF Lose, Fault, TypeOK, States
<1>24. CASE UNCHANGED vars
  BY <1>24 DEF vars, TypeOK, States
<1> QED
  BY <1>1, <1>2, <1>3, <1>4, <1>5, <1>6, <1>7, <1>8, <1>9, <1>10, <1>11, <1>12, <1>13,
    <1>14, <1>15, <1>16, <1>17, <1>18, <1>19, <1>20, <1>21, <1>22, <1>23, <1>24 DEF Next, Sync

LEMMA ConfirmedTextNext == TypeOK /\ ConfirmedText /\ [Next]_vars => ConfirmedText'
<1> SUFFICES ASSUME TypeOK, ConfirmedText, [Next]_vars PROVE ConfirmedText'
  OBVIOUS
<1>1. CASE Open
  BY <1>1 DEF Open, ConfirmedText
<1>2. CASE Read
  BY <1>2 DEF Read, ConfirmedText
<1>3. CASE ReadDeleted
  BY <1>3 DEF ReadDeleted, ConfirmedText, Fail
<1>4. CASE ReadFails
  BY <1>4 DEF ReadFails, Fault, ConfirmedText, Fail
<1>5. CASE ConfirmEarlier
  <2>1. PICK j \in Pending : op[j].want = seen
    BY <1>5 DEF ConfirmEarlier
  <2>2. seen \in Texts
    BY <2>1 DEF TypeOK, Pending
  <2> QED BY <1>5, <2>2 DEF ConfirmEarlier, ConfirmedText
<1>6. CASE NoteEarlier
  BY <1>6 DEF NoteEarlier, ConfirmedText
<1>7. CASE Rebase
  BY <1>7 DEF Rebase, ConfirmedText
<1>8. CASE EarlierOpen
  BY <1>8 DEF EarlierOpen, ConfirmedText, Fail
<1>9. CASE AlreadyThere
  BY <1>9 DEF AlreadyThere, ConfirmedText
<1>10. CASE Refuse
  BY <1>10 DEF Refuse, ConfirmedText, Fail
<1>11. CASE Outdated
  BY <1>11 DEF Outdated, ConfirmedText
<1>12. CASE Start
  BY <1>12 DEF Start, Mark, ConfirmedText
<1>13. CASE Send
  BY <1>13 DEF Send, ConfirmedText
<1>14. CASE ReadBack
  BY <1>14 DEF ReadBack, ConfirmedText, Fail
<1>15. CASE NoAnswer
  BY <1>15 DEF NoAnswer, Fault, ConfirmedText, Fail
<1>16. CASE NoteWritten
  BY <1>16 DEF NoteWritten, ConfirmedText
<1>17. CASE Finish
  BY <1>17 DEF Finish, Mark, ConfirmedText
<1>18. CASE Leave
  BY <1>18 DEF Leave, Fault, ConfirmedText, Fail
<1>19. CASE Crash
  BY <1>19 DEF Crash, Fault, ConfirmedText
<1>20. CASE NextReview
  BY <1>20 DEF NextReview, ConfirmedText
<1>21. CASE Person
  BY <1>21 DEF Person, ConfirmedText
<1>22. ASSUME NEW j \in Jobs, Land(j) PROVE ConfirmedText'
  BY <1>22 DEF Land, ConfirmedText
<1>23. ASSUME NEW j \in Jobs, Lose(j) PROVE ConfirmedText'
  BY <1>23 DEF Lose, Fault, ConfirmedText
<1>24. CASE UNCHANGED vars
  BY <1>24 DEF vars, ConfirmedText
<1> QED
  BY <1>1, <1>2, <1>3, <1>4, <1>5, <1>6, <1>7, <1>8, <1>9, <1>10, <1>11, <1>12, <1>13,
    <1>14, <1>15, <1>16, <1>17, <1>18, <1>19, <1>20, <1>21, <1>22, <1>23, <1>24 DEF Next, Sync

LEMMA TypeInit == Init => TypeOK /\ ConfirmedText
<1> SUFFICES ASSUME Init PROVE TypeOK /\ ConfirmedText
  OBVIOUS
<1>1. op \in [Jobs -> [state : States, before : Texts, want : Texts]]
  BY DEF Init, States
<1>2. /\ body \in Texts /\ last = body /\ writer = 0 /\ net = {} /\ job = 1 /\ pc = "idle"
      /\ seen = body /\ mine = "none" /\ raced = FALSE /\ faults = 0
  BY DEF Init
<1>3. raced \in BOOLEAN
  BY <1>2
<1>4. 1 \in Jobs /\ 0 \in 0..LastJob /\ 0 \in 0..MaxFaults
  BY DEF Jobs
<1>5. /\ pc \in {"idle", "opened", "read", "confirmed", "noted", "started", "sent", "written",
                 "saved", "final", "left"}
      /\ mine \in States \ {"done"} /\ (pc \in {"idle", "left"} <=> mine = "none")
  BY <1>2 DEF States
<1> QED BY <1>1, <1>2, <1>3, <1>4, <1>5 DEF TypeOK, ConfirmedText

LEMMA Typed == Spec => [](TypeOK /\ ConfirmedText)
<1>1. TypeOK /\ ConfirmedText /\ [Next]_vars => (TypeOK /\ ConfirmedText)'
  BY TypeNext, ConfirmedTextNext
<1> QED BY <1>1, TypeInit, PTL DEF Spec

(* Every variable keeps its type, for any number of reviews.               *)
THEOREM TypeCorrect == Spec => []TypeOK
  BY Typed, PTL

-----------------------------------------------------------------------------
(***************************************************************************)
(* A comment that a person edited while nothing was about to be written:   *)
(* nothing is under way, and the next read sees the edit.                  *)
(***************************************************************************)
EditSeen ==
    body = "edited" /\ ~raced =>
        /\ net = {} /\ pc \notin {"confirmed", "noted", "started", "sent"}
        /\ pc = "read" => seen = "edited"

LEMMA EditSeenNext == TypeOK /\ EditSeen /\ [Next]_vars => EditSeen'
<1> SUFFICES ASSUME TypeOK, EditSeen, [Next]_vars PROVE EditSeen'
  OBVIOUS
<1>1. CASE Open
  BY <1>1 DEF Open, EditSeen
<1>2. CASE Read
  BY <1>2 DEF Read, EditSeen
<1>3. CASE ReadDeleted
  BY <1>3 DEF ReadDeleted, EditSeen, Fail
<1>4. CASE ReadFails
  BY <1>4 DEF ReadFails, Fault, EditSeen, Fail
<1>5. CASE ConfirmEarlier
  <2>1. PICK j \in Pending : op[j].want = seen
    BY <1>5 DEF ConfirmEarlier
  <2>2. seen # "edited"
    BY <2>1 DEF TypeOK, Pending
  <2> QED BY <1>5, <2>2 DEF ConfirmEarlier, EditSeen
<1>6. CASE NoteEarlier
  BY <1>6 DEF NoteEarlier, EditSeen
<1>7. CASE Rebase
  BY <1>7 DEF Rebase, EditSeen
<1>8. CASE EarlierOpen
  BY <1>8 DEF EarlierOpen, EditSeen, Fail
<1>9. CASE AlreadyThere
  BY <1>9 DEF AlreadyThere, EditSeen
<1>10. CASE Refuse
  BY <1>10 DEF Refuse, EditSeen, Fail
<1>11. CASE Outdated
  BY <1>11 DEF Outdated, EditSeen
<1>12. CASE Start
  <2>1. seen # "edited"
    BY <1>12 DEF Start, Writable, TypeOK
  <2> QED BY <1>12, <2>1 DEF Start, Checked, EditSeen
<1>13. CASE Send
  BY <1>13 DEF Send, EditSeen
<1>14. CASE ReadBack
  BY <1>14 DEF ReadBack, EditSeen, Fail
<1>15. CASE NoAnswer
  BY <1>15 DEF NoAnswer, Fault, EditSeen, Fail
<1>16. CASE NoteWritten
  BY <1>16 DEF NoteWritten, EditSeen
<1>17. CASE Finish
  BY <1>17 DEF Finish, Mark, EditSeen
<1>18. CASE Leave
  BY <1>18 DEF Leave, Fault, EditSeen, Fail
<1>19. CASE Crash
  BY <1>19 DEF Crash, Fault, EditSeen
<1>20. CASE NextReview
  BY <1>20 DEF NextReview, EditSeen
<1>21. CASE Person
  BY <1>21 DEF Person, EditSeen
<1>22. ASSUME NEW j \in Jobs, Land(j) PROVE EditSeen'
  <2>1. body' = "edited" => body = "deleted" /\ body' = body
    BY <1>22 DEF Land, TypeOK
  <2> QED BY <2>1 DEF EditSeen
<1>23. ASSUME NEW j \in Jobs, Lose(j) PROVE EditSeen'
  BY <1>23 DEF Lose, Fault, EditSeen
<1>24. CASE UNCHANGED vars
  BY <1>24 DEF vars, EditSeen
<1> QED
  BY <1>1, <1>2, <1>3, <1>4, <1>5, <1>6, <1>7, <1>8, <1>9, <1>10, <1>11, <1>12, <1>13,
    <1>14, <1>15, <1>16, <1>17, <1>18, <1>19, <1>20, <1>21, <1>22, <1>23, <1>24 DEF Next, Sync

LEMMA EditStep ==
    TypeOK /\ EditSeen /\ [Next]_vars =>
        [(body = "edited" /\ body' \in Texts) => raced]_vars
<1> SUFFICES ASSUME TypeOK, EditSeen, [Next]_vars, body = "edited", body' \in Texts PROVE raced
  BY DEF TypeOK
<1>1. CASE Open
  BY <1>1 DEF Open
<1>2. CASE Read
  BY <1>2 DEF Read
<1>3. CASE ReadDeleted
  BY <1>3 DEF ReadDeleted, Fail
<1>4. CASE ReadFails
  BY <1>4 DEF ReadFails, Fault, Fail
<1>5. CASE ConfirmEarlier
  BY <1>5 DEF ConfirmEarlier, Mark
<1>6. CASE NoteEarlier
  BY <1>6 DEF NoteEarlier
<1>7. CASE Rebase
  BY <1>7 DEF Rebase
<1>8. CASE EarlierOpen
  BY <1>8 DEF EarlierOpen, Fail
<1>9. CASE AlreadyThere
  BY <1>9 DEF AlreadyThere
<1>10. CASE Refuse
  BY <1>10 DEF Refuse, Fail
<1>11. CASE Outdated
  BY <1>11 DEF Outdated
<1>12. CASE Start
  BY <1>12 DEF Start, Mark
<1>13. CASE Send
  BY <1>13 DEF Send
<1>14. CASE ReadBack
  BY <1>14 DEF ReadBack, Fail
<1>15. CASE NoAnswer
  BY <1>15 DEF NoAnswer, Fault, Fail
<1>16. CASE NoteWritten
  BY <1>16 DEF NoteWritten
<1>17. CASE Finish
  BY <1>17 DEF Finish, Mark
<1>18. CASE Leave
  BY <1>18 DEF Leave, Fault, Fail
<1>19. CASE Crash
  BY <1>19 DEF Crash, Fault
<1>20. CASE NextReview
  BY <1>20 DEF NextReview
<1>21. CASE Person
  BY <1>21 DEF Person
<1>22. ASSUME NEW j \in Jobs, Land(j) PROVE raced
  BY <1>22 DEF Land, EditSeen
<1>23. ASSUME NEW j \in Jobs, Lose(j) PROVE raced
  BY <1>23 DEF Lose
<1>24. CASE UNCHANGED vars
  BY <1>24 DEF vars
<1> QED
  BY <1>1, <1>2, <1>3, <1>4, <1>5, <1>6, <1>7, <1>8, <1>9, <1>10, <1>11, <1>12, <1>13,
    <1>14, <1>15, <1>16, <1>17, <1>18, <1>19, <1>20, <1>21, <1>22, <1>23, <1>24 DEF Next, Sync

(* A person's edit is overwritten only if it was made after the read of    *)
(* that write, for any number of reviews, texts and faults.                *)
THEOREM EditCorrect == Spec => EditKept
<1>1. Init => EditSeen
  BY DEF Init, EditSeen
<1> QED BY <1>1, EditSeenNext, EditStep, TypeCorrect, PTL DEF Spec, EditKept

-----------------------------------------------------------------------------
(***************************************************************************)
(* Writes that are still under way.  When a review begins to write, every  *)
(* earlier write whose request is still under way was given up as a        *)
(* conflict, or is done because another one showed the same text; so a     *)
(* text that arrives late is one that was given up.                        *)
(***************************************************************************)
(* A review before j that gave up the same text as a conflict.             *)
GivenUp(j) == \E k \in Jobs : k < j /\ op[k].state = "conflict" /\ op[k].want = op[j].want

InOrder ==
    /\ writer <= job
    /\ \A j \in Jobs : j > job => op[j].state = "none"
    /\ \A j \in net : op[j].state \in {"started", "unknown", "conflict", "done"}
Holding ==
    /\ mine = "queued" /\ pc # "final" => op[job].state = "queued"
    /\ pc = "started" => op[job].state = "started" /\ job \notin net
(* A write under way that a later one passed was given up or is done.      *)
PassedSettled ==
    \A j \in net : (j < writer \/ (\E w \in net : j < w) \/ (pc = "started" /\ j # job))
                     => op[j].state \in {"conflict", "done"}
DoneGivenUp == \A j \in net : op[j].state = "done" => GivenUp(j)
(* The comment shows a text whose own write is still under way.            *)
Shown(text) ==
    \A j \in net : text = op[j].want /\ (j = job \/ op[j].state # "conflict") => GivenUp(j)
Reading == pc \in {"read", "confirmed", "noted"}
ShownOK ==
    /\ Shown(body)
    /\ Reading => Shown(seen)
    /\ pc \in {"written", "saved"} /\ job \in net => GivenUp(job)
(* The comment came to show the text wanted only after it was read.        *)
ChangedOK ==
    body = op[job].want =>
        /\ Reading /\ mine = "queued" /\ seen # body =>
             GivenUp(job) \/ \E k \in Pending : op[k].want = body
        /\ pc = "started" => GivenUp(job)

LateInv == /\ TypeOK /\ InOrder /\ Holding /\ PassedSettled /\ DoneGivenUp
           /\ ShownOK /\ ChangedOK

(* How a step may change the operations: those of other reviews only from  *)
(* open to done, and the wanted texts never.                               *)
OthersKept ==
    /\ \A j \in Jobs : op'[j].want = op[j].want
    /\ \A j \in Jobs \ {job} : \/ op'[j].state = op[j].state
                               \/ op[j].state \in {"started", "unknown"} /\ op'[j].state = "done"

LEMMA MarkState ==
    ASSUME TypeOK, NEW j \in Jobs, NEW s \in States, Mark(j, s)
    PROVE  /\ op'[j].state = s
           /\ \A k \in Jobs : op'[k].want = op[k].want
           /\ \A k \in Jobs \ {j} : op'[k] = op[k]
<1>1. op \in [Jobs -> Op]
  BY DEF TypeOK, Op
<1>2. op' = [op EXCEPT ![j] = [op[j] EXCEPT !.state = s]]
  BY DEF Mark
<1>3. /\ [op[j] EXCEPT !.state = s].state = s
      /\ [op[j] EXCEPT !.state = s].want = op[j].want
  BY <1>1 DEF Op
<1> QED BY <1>1, <1>2, <1>3

FailStep ==
    ReadDeleted \/ ReadFails \/ EarlierOpen \/ Refuse \/ NoAnswer
    \/ (ReadBack /\ Fail) \/ (Leave /\ Fail)

(* The steps that leave the operations, but for what Rebase remembers.     *)
QuietStep ==
    \/ Read \/ NoteEarlier \/ Rebase \/ AlreadyThere \/ Outdated \/ Send \/ NoteWritten
    \/ (ReadBack /\ op' = op) \/ (Leave /\ op' = op) \/ Crash \/ NextReview \/ Person
    \/ \E j \in Jobs : Land(j) \/ Lose(j)

LEMMA LateSteps ==
    Next => QuietStep \/ FailStep \/ Open \/ ConfirmEarlier \/ Start \/ Finish
  BY DEF Next, Sync, QuietStep, FailStep, ReadBack, Leave

LEMMA FailState ==
    ASSUME TypeOK, FailStep
    PROVE  /\ op'[job].state \in {"unknown", "conflict"} /\ pc' = "left" /\ mine' = "none"
           /\ op'[job].want = op[job].want
           /\ \A k \in Jobs \ {job} : op'[k] = op[k]
           /\ UNCHANGED <<body, writer, net, job, seen>>
<1>1. Fail
  BY DEF FailStep, ReadDeleted, ReadFails, EarlierOpen, Refuse, NoAnswer
<1>2. PICK s \in {"unknown", "conflict"} : Mark(job, s)
  BY <1>1 DEF Fail
<1>3. job \in Jobs /\ s \in States
  BY DEF TypeOK, States
<1> QED BY <1>1, <1>2, <1>3, MarkState DEF Fail

LEMMA OpenState ==
    ASSUME TypeOK, Open
    PROVE  /\ op'[job].state = (IF op[job].state = "none" THEN "queued" ELSE op[job].state)
           /\ op'[job].want = op[job].want /\ mine' = op'[job].state
           /\ \A k \in Jobs \ {job} : op'[k] = op[k]
           /\ pc' = "opened" /\ UNCHANGED <<body, writer, net, job, seen>>
<1>1. op \in [Jobs -> Op] /\ job \in Jobs
  BY DEF TypeOK, Op
<1>2. CASE op[job].state = "none"
  <2> DEFINE r == [op[job] EXCEPT !.state = "queued", !.before = last]
  <2>1. op' = [op EXCEPT ![job] = r]
    BY <1>2 DEF Open
  <2>2. r.state = "queued" /\ r.want = op[job].want
    BY <1>1 DEF Op
  <2> HIDE DEF r
  <2> QED BY <1>1, <1>2, <2>1, <2>2 DEF Open
<1>3. CASE op[job].state # "none"
  BY <1>3 DEF Open
<1> QED BY <1>2, <1>3

LEMMA QuietState ==
    ASSUME TypeOK, QuietStep
    PROVE  \A j \in Jobs : op'[j].want = op[j].want /\ op'[j].state = op[j].state
<1>1. CASE Rebase
  <2>1. op \in [Jobs -> Op] /\ job \in Jobs
    BY DEF TypeOK, Op
  <2>2. CASE op' = [op EXCEPT ![job].before = seen]
    <3> DEFINE r == [op[job] EXCEPT !.before = seen]
    <3>1. op' = [op EXCEPT ![job] = r]
      BY <2>2
    <3>2. r.state = op[job].state /\ r.want = op[job].want
      BY <2>1 DEF Op
    <3> HIDE DEF r
    <3> QED BY <2>1, <3>1, <3>2
  <2> QED BY <1>1, <2>2 DEF Rebase
<1>2. CASE ~Rebase
  BY <1>2 DEF QuietStep, Read, NoteEarlier, AlreadyThere, Outdated, Send, NoteWritten,
     Crash, NextReview, Person, Land, Lose
<1> QED BY <1>1, <1>2

LEMMA OthersStep ==
    ASSUME TypeOK, Next
    PROVE  OthersKept
<1>1. CASE QuietStep
  BY <1>1, QuietState DEF OthersKept
<1>2. CASE FailStep
  BY <1>2, FailState DEF OthersKept, TypeOK
<1>3. CASE Open
  BY <1>3, OpenState DEF OthersKept, TypeOK
<1>4. CASE ConfirmEarlier
  <2>1. PICK j \in Pending : Mark(j, "done")
    BY <1>4 DEF ConfirmEarlier
  <2> QED BY <2>1, MarkState DEF OthersKept, Pending, States
<1>5. CASE Start
  <2>1. Mark(job, "started") /\ job \in Jobs /\ "started" \in States
    BY <1>5 DEF Start, TypeOK, States
  <2> QED BY <2>1, MarkState DEF OthersKept
<1>6. CASE Finish
  <2>1. Mark(job, "done") /\ job \in Jobs /\ "done" \in States
    BY <1>6 DEF Finish, TypeOK, States
  <2> QED BY <2>1, MarkState DEF OthersKept
<1> QED BY <1>1, <1>2, <1>3, <1>4, <1>5, <1>6, LateSteps

(* What was given up before the review that publishes stays given up.      *)
LEMMA GivenUpStays ==
    ASSUME TypeOK, OthersKept, NEW j \in Jobs, j <= job, GivenUp(j)
    PROVE  GivenUp(j)'
<1>1. PICK k \in Jobs : k < j /\ op[k].state = "conflict" /\ op[k].want = op[j].want
  BY DEF GivenUp
<1>2. k # job /\ job \in Nat /\ j \in Nat /\ k \in Nat
  BY <1>1 DEF TypeOK, Jobs
<1>3. op'[k].state = "conflict" /\ op'[k].want = op'[j].want
  BY <1>1, <1>2 DEF OthersKept
<1> QED BY <1>1, <1>3 DEF GivenUp

(* Which writes are under way, whose turn it is, and who wrote last.       *)
LEMMA NetStep ==
    ASSUME TypeOK, Next
    PROVE  /\ net' \subseteq net \cup {job}
           /\ job \in net \/ job \notin net' \/ Send
           /\ \/ job' = job
              \/ /\ job' = job + 1 /\ pc' = "idle"
                 /\ UNCHANGED <<net, writer, body>>
           /\ (body' = body /\ writer' = writer) \/ Person \/ \E k \in net : Land(k)
<1>1. CASE QuietStep
  BY <1>1 DEF QuietStep, Read, NoteEarlier, Rebase, AlreadyThere, Outdated, Send, NoteWritten,
     ReadBack, Fail, Leave, Crash, NextReview, Person, Land, Lose
<1>2. CASE FailStep
  BY <1>2, FailState
<1>3. CASE Open \/ ConfirmEarlier \/ Start \/ Finish
  BY <1>3 DEF Open, ConfirmEarlier, Start, Finish
<1> QED BY <1>1, <1>2, <1>3, LateSteps

LEMMA UnderWay ==
    ASSUME TypeOK, InOrder, NEW j \in net
    PROVE  j \in Jobs /\ j \in Nat /\ job \in Nat /\ j <= job /\ op[j].state # "none"
  BY DEF TypeOK, InOrder, Jobs

(* The state of the review that publishes, after each kind of step.        *)
LEMMA OwnState ==
    ASSUME TypeOK, Next
    PROVE  \/ op'[job].state = op[job].state
           \/ op'[job].state \in {"unknown", "conflict"} /\ pc' = "left" /\ mine' = "none"
           \/ op[job].state = "none" /\ op'[job].state = "queued"
           \/ Start /\ op'[job].state = "started"
           \/ Finish /\ op'[job].state = "done"
<1>0. job \in Jobs
  BY DEF TypeOK
<1>1. CASE QuietStep
  BY <1>0, <1>1, QuietState
<1>2. CASE FailStep
  BY <1>2, FailState
<1>3. CASE Open
  BY <1>3, OpenState
<1>4. CASE ConfirmEarlier
  <2>1. PICK j \in Pending : Mark(j, "done")
    BY <1>4 DEF ConfirmEarlier
  <2> QED BY <1>0, <2>1, MarkState DEF Pending, States
<1>5. CASE Start
  <2>1. Mark(job, "started") /\ "started" \in States
    BY <1>5 DEF Start, States
  <2> QED BY <1>0, <1>5, <2>1, MarkState
<1>6. CASE Finish
  <2>1. Mark(job, "done") /\ "done" \in States
    BY <1>6 DEF Finish, States
  <2> QED BY <1>0, <1>6, <2>1, MarkState
<1> QED BY <1>1, <1>2, <1>3, <1>4, <1>5, <1>6, LateSteps

LEMMA HoldingStep ==
    ASSUME LateInv, Next
    PROVE  Holding'
<1>0. TypeOK /\ Holding /\ InOrder /\ job \in Jobs
  BY DEF LateInv, TypeOK
<1>1. CASE FailStep
  BY <1>0, <1>1, FailState DEF Holding
<1>2. CASE Open
  BY <1>0, <1>2, OpenState DEF Holding
<1>3. CASE ConfirmEarlier
  <2>1. PICK j \in Pending : Mark(j, "done")
    BY <1>3 DEF ConfirmEarlier
  <2>2. op'[job].state = op[job].state
    BY <1>0, <2>1, MarkState DEF Pending, States
  <2> QED BY <1>0, <1>3, <2>2 DEF ConfirmEarlier, Holding
<1>4. CASE Start
  <2>1. op'[job].state = "started"
    <3>1. Mark(job, "started") /\ "started" \in States
      BY <1>4 DEF Start, States
    <3> QED BY <1>0, <3>1, MarkState
  <2>2. op[job].state = "queued"
    BY <1>0, <1>4 DEF Start, Checked, Writable, Holding
  <2>3. job \notin net
    BY <1>0, <2>2 DEF InOrder
  <2> QED BY <1>4, <2>1, <2>3 DEF Start, Holding
<1>5. CASE Finish
  BY <1>5 DEF Finish, Holding
<1>6. CASE QuietStep
  <2>1. op'[job].state = op[job].state
    BY <1>0, <1>6, QuietState
  <2>2. CASE NextReview
    BY <1>0, <2>2 DEF NextReview, Holding, TypeOK
  <2>3. CASE Read \/ NoteEarlier \/ Rebase
    BY <1>0, <2>1, <2>3 DEF Read, NoteEarlier, Rebase, Holding
  <2>6. CASE AlreadyThere \/ Send \/ NoteWritten
    BY <1>0, <2>1, <2>6 DEF AlreadyThere, Checked, Send, NoteWritten, Holding
  <2>7. CASE ReadBack
    BY <1>0, <2>1, <2>7 DEF ReadBack, Fail, Holding
  <2>4. CASE Outdated \/ Leave \/ Crash
    BY <2>4 DEF Outdated, Leave, Fail, Crash, Holding
  <2>5. CASE Person \/ \E j \in Jobs : Land(j) \/ Lose(j)
    BY <1>0, <2>1, <2>5 DEF Person, Land, Lose, Holding
  <2> QED BY <1>6, <2>2, <2>3, <2>4, <2>5, <2>6, <2>7 DEF QuietStep
<1> QED BY <1>1, <1>2, <1>3, <1>4, <1>5, <1>6, <1>0, LateSteps

LEMMA InOrderStep ==
    ASSUME LateInv, Next
    PROVE  InOrder'
<1>0. TypeOK /\ InOrder /\ job \in Jobs /\ job \in Nat /\ OthersKept /\ job <= job'
      /\ job' \in Nat
  BY NetStep, OthersStep DEF LateInv, TypeOK, Jobs
<1>1. writer' <= job'
  <2>1. CASE writer' = writer
    BY <1>0, <2>1 DEF InOrder, TypeOK
  <2>2. ASSUME NEW k \in net, Land(k) PROVE writer' <= job'
    <3>1. writer' = writer \/ writer' = k
      BY <2>2 DEF Land
    <3>2. k <= job /\ k \in Nat
      BY <1>0, UnderWay
    <3> QED BY <1>0, <2>1, <3>1, <3>2
  <2>3. Person => writer' = writer
    BY DEF Person
  <2> QED BY <1>0, <2>1, <2>2, <2>3, NetStep
<1>2. ASSUME NEW j \in Jobs, j > job' PROVE op'[j].state = "none"
  <2>1. j > job /\ j # job
    BY <1>0, <1>2 DEF Jobs
  <2> QED BY <1>0, <2>1 DEF InOrder, OthersKept
<1>3. ASSUME NEW j \in net'
      PROVE  op'[j].state \in {"started", "unknown", "conflict", "done"}
  <2>1. CASE j \in net /\ j # job
    <3>1. j \in Jobs \ {job} /\ op[j].state \in {"started", "unknown", "conflict", "done"}
      BY <1>0, <2>1 DEF TypeOK, InOrder
    <3> QED BY <1>0, <3>1 DEF OthersKept
  <2>2. CASE j \in net /\ j = job
    <3>1. op[job].state \in {"started", "unknown", "conflict", "done"}
      BY <1>0, <2>2 DEF InOrder
    <3> QED BY <1>0, <2>2, <3>1, OwnState
  <2>3. CASE j \notin net
    <3>1. j = job /\ Send
      BY <1>0, <2>3, NetStep
    <3>2. op[job].state = "started"
      BY <3>1 DEF Send, LateInv, Holding
    <3> QED BY <1>0, <3>1, <3>2, QuietState DEF QuietStep
  <2> QED BY <2>1, <2>2, <2>3
<1> QED BY <1>1, <1>2, <1>3 DEF InOrder

LEMMA PassedStep ==
    ASSUME LateInv, Next
    PROVE  PassedSettled'
<1>0. TypeOK /\ InOrder /\ InOrder' /\ OthersKept /\ job \in Nat /\ writer \in Nat
      /\ net' \subseteq Jobs /\ net \subseteq Jobs
  <2>1. TypeOK /\ InOrder /\ InOrder' /\ OthersKept /\ job \in Jobs
    BY InOrderStep, OthersStep DEF LateInv, TypeOK
  <2>2. net' \subseteq net \cup {job}
    BY <2>1, NetStep
  <2> QED BY <2>1, <2>2 DEF TypeOK, Jobs
<1> SUFFICES ASSUME NEW j \in net',
                    j < writer' \/ (\E w \in net' : j < w) \/ (pc' = "started" /\ j # job')
             PROVE  op'[j].state \in {"conflict", "done"}
  BY DEF PassedSettled
<1>1. ASSUME j \in net, j # job, op[j].state \in {"conflict", "done"}
      PROVE  op'[j].state \in {"conflict", "done"}
  BY <1>0, <1>1 DEF OthersKept
<1>2. ASSUME j \in net, j < writer \/ (\E w \in net : j < w) \/ (pc = "started" /\ j # job)
      PROVE  op'[j].state \in {"conflict", "done"}
  <2>1. j \in Nat /\ j # job
    BY <1>0, <1>2, UnderWay DEF Jobs, InOrder
  <2>2. op[j].state \in {"conflict", "done"}
    BY <1>2 DEF LateInv, PassedSettled
  <2> QED BY <1>1, <1>2, <2>1, <2>2
<1>3. j \in net
  <2> SUFFICES ASSUME j \notin net PROVE FALSE
    OBVIOUS
  <2>1. j = job /\ Send
    BY <1>0, NetStep
  <2>2. writer' = writer /\ job' = job /\ pc' = "sent" /\ net' = net \cup {job}
    BY <2>1 DEF Send
  <2>3. PICK w \in net' : j < w
    BY <1>0, <2>1, <2>2 DEF InOrder
  <2> QED BY <1>0, <2>1, <2>2, <2>3, UnderWay
<1>4. CASE j < writer'
  <2>1. writer' = writer \/ writer' \in net
    BY <1>0, NetStep DEF Person, Land
  <2> QED BY <1>2, <1>3, <1>4, <2>1
<1>5. CASE \E w \in net' : j < w
  <2>1. PICK w \in net' : j < w
    BY <1>5
  <2>2. CASE w \in net
    BY <1>2, <1>3, <2>1, <2>2
  <2>3. CASE w \notin net
    <3>1. w = job /\ Send /\ j # job
      BY <1>0, <2>1, <2>3, NetStep DEF Jobs
    <3> QED BY <1>2, <1>3, <3>1 DEF Send
  <2> QED BY <2>2, <2>3
<1>6. CASE pc' = "started" /\ j # job'
  <2>1. job' = job
    BY <1>0, <1>6, NetStep
  <2>2. CASE pc = "started"
    BY <1>2, <1>3, <1>6, <2>1, <2>2
  <2>3. CASE pc # "started"
    <3>1. Start
      BY <1>6, <2>3 DEF Next, Sync, Open, Read, ReadDeleted, ReadFails, ConfirmEarlier,
         NoteEarlier, Rebase, EarlierOpen, AlreadyThere, Refuse, Outdated, Send, ReadBack,
         NoAnswer, NoteWritten, Finish, Leave, Fail, Land, Lose, Crash, NextReview, Person
    <3>2. j \notin Pending
      BY <3>1 DEF Start, Checked
    <3>3. op[j].state \in {"conflict", "done"}
      BY <1>0, <1>3, <1>6, <2>1, <3>2 DEF Pending, InOrder
    <3> QED BY <1>1, <1>3, <1>6, <2>1, <3>3
  <2> QED BY <2>2, <2>3
<1> QED BY <1>4, <1>5, <1>6


(* A text that was given up, or whose write is done, before review j: j    *)
(* was given up too if it wants the same text.                             *)
LEMMA SettledGivenUp ==
    ASSUME LateInv, NEW k \in net, NEW j \in Jobs, k < j, op[k].want = op[j].want,
           op[k].state \in {"conflict", "done"}
    PROVE  GivenUp(j)
<1>0. k \in Jobs /\ k \in Nat /\ j \in Nat
  BY DEF LateInv, TypeOK, Jobs
<1>1. CASE op[k].state = "conflict"
  BY <1>0, <1>1 DEF GivenUp
<1>2. CASE op[k].state = "done"
  <2>1. PICK m \in Jobs : m < k /\ op[m].state = "conflict" /\ op[m].want = op[k].want
    BY <1>2 DEF LateInv, DoneGivenUp, GivenUp
  <2>2. m < j
    BY <1>0, <2>1 DEF Jobs
  <2> QED BY <2>1, <2>2 DEF GivenUp
<1> QED BY <1>1, <1>2

LEMMA DoneStep ==
    ASSUME LateInv, Next
    PROVE  DoneGivenUp'
<1>0. TypeOK /\ InOrder /\ OthersKept /\ job \in Jobs
  BY OthersStep DEF LateInv, TypeOK
<1> SUFFICES ASSUME NEW j \in net', op'[j].state = "done" PROVE GivenUp(j)'
  BY DEF DoneGivenUp
<1>1. j \in net
  <2> SUFFICES ASSUME j \notin net PROVE FALSE
    OBVIOUS
  <2>1. j = job /\ Send
    BY <1>0, NetStep
  <2>2. op[job].state = "started"
    BY <2>1 DEF Send, LateInv, Holding
  <2> QED BY <1>0, <2>1, <2>2, QuietState DEF QuietStep
<1>2. j \in Jobs /\ j <= job
  BY <1>0, <1>1, UnderWay
<1>3. GivenUp(j)
  <2>1. CASE op[j].state = "done"
    BY <1>1, <2>1 DEF LateInv, DoneGivenUp
  <2>2. CASE QuietStep
    BY <1>0, <1>2, <2>1, <2>2, QuietState
  <2>3. CASE FailStep
    <3>1. op'[job].state # "done"
      BY <1>0, <2>3, FailState
    <3> QED BY <1>0, <1>2, <2>1, <2>3, <3>1, FailState
  <2>4. CASE Open
    <3>1. op'[j].state = op[j].state \/ op'[j].state = "queued"
      BY <1>0, <1>2, <2>4, OpenState
    <3> QED BY <2>1, <3>1
  <2>5. CASE ConfirmEarlier
    <3>1. PICK k \in Pending : op[k].want = seen /\ Mark(k, "done")
      BY <2>5 DEF ConfirmEarlier
    <3>2. CASE j # k
      <4>1. op'[j] = op[j]
        BY <1>0, <1>2, <3>1, <3>2, MarkState DEF Pending, States
      <4> QED BY <2>1, <4>1
    <3>3. CASE j = k
      <4>1. Shown(seen)
        BY <2>5 DEF ConfirmEarlier, LateInv, ShownOK, Reading
      <4>2. op[j].want = seen /\ op[j].state # "conflict"
        BY <3>1, <3>3 DEF Pending
      <4> QED BY <1>1, <4>1, <4>2 DEF Shown
    <3> QED BY <3>2, <3>3
  <2>6. CASE Start
    <3>1. Mark(job, "started") /\ "started" \in States
      BY <2>6 DEF Start, States
    <3>2. op'[job].state = "started" /\ (j # job => op'[j] = op[j])
      BY <1>0, <1>2, <3>1, MarkState
    <3> QED BY <2>1, <3>2
  <2>7. CASE Finish
    <3>1. Mark(job, "done") /\ "done" \in States /\ pc = "saved"
      BY <2>7 DEF Finish, States
    <3>2. j # job => op'[j] = op[j]
      BY <1>0, <1>2, <3>1, MarkState
    <3>3. j = job => GivenUp(j)
      BY <1>1, <3>1 DEF LateInv, ShownOK
    <3> QED BY <2>1, <3>2, <3>3
  <2> QED BY <2>2, <2>3, <2>4, <2>5, <2>6, <2>7, LateSteps
<1> QED BY <1>0, <1>2, <1>3, GivenUpStays

(* What shows a text goes on to do so, when no new write is sent.          *)
ShownNext(text) ==
    \A j \in net' : text = op'[j].want /\ (j = job' \/ op'[j].state # "conflict")
                      => GivenUp(j)'

LEMMA ShownStays ==
    ASSUME LateInv, Next, NEW text, Shown(text),
           Send => (text = op[job].want => GivenUp(job))
    PROVE  ShownNext(text)
<1>0. TypeOK /\ InOrder /\ OthersKept /\ job \in Jobs /\ job \in Nat /\ job <= job
  BY OthersStep DEF LateInv, TypeOK, Jobs
<1> SUFFICES ASSUME NEW j \in net', text = op'[j].want, j = job' \/ op'[j].state # "conflict"
             PROVE  GivenUp(j)'
  BY DEF ShownNext
<1>1. CASE j \in net
  <2>1. j \in Jobs /\ j \in Nat /\ j <= job
    BY <1>0, <1>1, UnderWay
  <2>2. j = job \/ op[j].state # "conflict"
    <3>1. CASE j # job
      <4>1. j # job'
        BY <1>0, <2>1, <3>1, NetStep
      <4> QED BY <1>0, <2>1, <3>1, <4>1 DEF OthersKept
    <3> QED BY <3>1
  <2>3. text = op[j].want
    BY <1>0, <2>1 DEF OthersKept
  <2>4. GivenUp(j)
    BY <1>1, <2>2, <2>3 DEF Shown
  <2> QED BY <1>0, <2>1, <2>4, GivenUpStays
<1>2. CASE j \notin net
  <2>1. j = job /\ Send
    BY <1>0, <1>2, NetStep
  <2>2. GivenUp(j)
    BY <1>0, <2>1 DEF OthersKept
  <2> QED BY <1>0, <2>1, <2>2, GivenUpStays
<1> QED BY <1>1, <1>2

(* Where a review reads, and where it holds that its text is written.      *)
LEMMA ReadingStep ==
    ASSUME TypeOK, Next, Reading'
    PROVE  \/ Read
           \/ /\ Reading /\ UNCHANGED <<seen, mine, job>> /\ ~Send
              /\ QuietStep \/ ConfirmEarlier
<1>1. CASE QuietStep
  BY <1>1 DEF QuietStep, Read, NoteEarlier, Rebase, AlreadyThere, Outdated, Send, NoteWritten,
     ReadBack, Fail, Leave, Crash, NextReview, Person, Land, Lose, Reading
<1>2. CASE FailStep
  BY <1>2, FailState DEF Reading
<1>3. CASE Open \/ Start \/ Finish
  BY <1>3 DEF Open, Start, Finish, Reading
<1>4. CASE ConfirmEarlier
  BY <1>4 DEF ConfirmEarlier, Send, Reading
<1> QED BY <1>1, <1>2, <1>3, <1>4, LateSteps

LEMMA WrittenStep ==
    ASSUME TypeOK, Next, pc' \in {"written", "saved"}
    PROVE  /\ job' = job /\ ~Send
           /\ AlreadyThere \/ (ReadBack /\ job \notin net) \/ pc \in {"written", "saved"}
<1>1. CASE QuietStep
  BY <1>1 DEF QuietStep, Read, NoteEarlier, Rebase, AlreadyThere, Outdated, Send, NoteWritten,
     ReadBack, Fail, Leave, Crash, NextReview, Person, Land, Lose
<1>2. CASE FailStep
  BY <1>2, FailState
<1>3. CASE Open \/ ConfirmEarlier \/ Start \/ Finish
  BY <1>3 DEF Open, ConfirmEarlier, Start, Finish
<1> QED BY <1>1, <1>2, <1>3, LateSteps

LEMMA StartedStep ==
    ASSUME TypeOK, Next, pc' = "started"
    PROVE  job' = job /\ (Start \/ (pc = "started" /\ QuietStep))
<1>1. CASE QuietStep
  BY <1>1 DEF QuietStep, Read, NoteEarlier, Rebase, AlreadyThere, Outdated, Send, NoteWritten,
     ReadBack, Fail, Leave, Crash, NextReview, Person, Land, Lose
<1>2. CASE FailStep
  BY <1>2, FailState
<1>3. CASE Open \/ ConfirmEarlier \/ Start \/ Finish
  BY <1>3 DEF Open, ConfirmEarlier, Start, Finish
<1> QED BY <1>1, <1>2, <1>3, LateSteps

LEMMA ShownStep ==
    ASSUME LateInv, Next
    PROVE  ShownOK'
<1>0. TypeOK /\ InOrder /\ OthersKept /\ job \in Jobs /\ Shown(body)
  BY OthersStep DEF LateInv, TypeOK, ShownOK
<1>1. Send => (body = op[job].want => GivenUp(job))
  BY DEF Send, LateInv, ChangedOK
<1>2. Shown(body)'
  <2>1. CASE body' = body
    <3>1. ShownNext(body)
      BY <1>0, <1>1, ShownStays
    <3> QED BY <2>1, <3>1 DEF ShownNext, Shown
  <2>2. CASE Person
    <3>1. body' \notin Texts /\ net' = net /\ op' = op
      BY <2>2 DEF Person
    <3>2. \A j \in net' : op'[j].want \in Texts
      BY <1>0, <3>1 DEF TypeOK
    <3> QED BY <3>1, <3>2 DEF Shown
  <2>3. ASSUME NEW k \in net, Land(k), body' # body PROVE Shown(body)'
    <3>1. body' = op[k].want /\ net' = net \ {k} /\ op' = op /\ job' = job
      BY <2>3 DEF Land
    <3> SUFFICES ASSUME NEW j \in net, j # k, op[k].want = op[j].want,
                        j = job \/ op[j].state # "conflict"
                 PROVE  GivenUp(j)
      BY <3>1 DEF Shown, GivenUp
    <3>2. /\ j \in Jobs /\ j \in Nat /\ j <= job /\ job \in Nat
          /\ k \in Jobs /\ k \in Nat /\ k <= job
      BY <1>0, UnderWay
    <3>3. CASE j < k
      <4>1. op[j].state \in {"conflict", "done"}
        BY <3>3 DEF LateInv, PassedSettled
      <4>2. op[j].state = "done"
        BY <3>2, <3>3, <4>1
      <4> QED BY <4>2 DEF LateInv, DoneGivenUp
    <3>4. CASE k < j
      <4>1. op[k].state \in {"conflict", "done"}
        BY <3>4 DEF LateInv, PassedSettled
      <4> QED BY <3>2, <3>4, <4>1, SettledGivenUp
    <3> QED BY <3>2, <3>3, <3>4
  <2> QED BY <1>0, <2>1, <2>2, <2>3, NetStep
<1>3. ASSUME Reading' PROVE Shown(seen)'
  <2>1. CASE Read
    <3>1. ShownNext(body)
      BY <1>0, <1>1, ShownStays
    <3>2. seen' = body
      BY <2>1 DEF Read
    <3> QED BY <3>1, <3>2 DEF ShownNext, Shown
  <2>2. CASE Reading /\ seen' = seen /\ ~Send
    <3>1. Shown(seen)
      BY <2>2 DEF LateInv, ShownOK
    <3>2. ShownNext(seen)
      BY <2>2, <3>1, ShownStays
    <3> QED BY <2>2, <3>2 DEF ShownNext, Shown
  <2> QED BY <1>0, <1>3, <2>1, <2>2, ReadingStep
<1>4. ASSUME pc' \in {"written", "saved"}, job' \in net' PROVE (GivenUp(job))'
  <2>1. job' = job /\ job \in net
    BY <1>0, <1>4, WrittenStep, NetStep
  <2>2. CASE AlreadyThere
    <3>1. Shown(seen) /\ seen = op[job].want
      BY <2>2 DEF AlreadyThere, Checked, LateInv, ShownOK, Reading
    <3>2. GivenUp(job)
      BY <2>1, <3>1 DEF Shown
    <3> QED BY <1>0, <2>1, <3>2, GivenUpStays, UnderWay
  <2>3. CASE pc \in {"written", "saved"}
    <3>1. GivenUp(job)
      BY <2>1, <2>3 DEF LateInv, ShownOK
    <3> QED BY <1>0, <2>1, <3>1, GivenUpStays, UnderWay
  <2> QED BY <1>0, <1>4, <2>1, <2>2, <2>3, WrittenStep
<1> QED BY <1>2, <1>3, <1>4 DEF ShownOK

(* An open write of another review stays open, but for the one confirmed.  *)
LEMMA PendingStays ==
    ASSUME TypeOK, job' = job, QuietStep \/ ConfirmEarlier, NEW k \in Pending,
           ConfirmEarlier => op[k].want # seen
    PROVE  k \in Pending' /\ op'[k].want = op[k].want
<1>1. CASE QuietStep
  BY <1>1, QuietState DEF Pending
<1>2. CASE ConfirmEarlier
  <2>1. PICK m \in Pending : op[m].want = seen /\ Mark(m, "done")
    BY <1>2 DEF ConfirmEarlier
  <2>2. op'[k] = op[k]
    BY <1>2, <2>1, MarkState DEF Pending, States
  <2> QED BY <2>2 DEF Pending
<1> QED BY <1>1, <1>2

LEMMA ChangedStep ==
    ASSUME LateInv, Next
    PROVE  ChangedOK'
<1>0. TypeOK /\ InOrder /\ OthersKept /\ job \in Jobs /\ job \in Nat
  BY OthersStep DEF LateInv, TypeOK, Jobs
<1> SUFFICES ASSUME body' = op'[job'].want
             PROVE  /\ Reading' /\ mine' = "queued" /\ seen' # body' =>
                         (GivenUp(job))' \/ \E k \in Pending' : op'[k].want = body'
                    /\ pc' = "started" => (GivenUp(job))'
  BY DEF ChangedOK
<1>1. ASSUME Reading', mine' = "queued", seen' # body'
      PROVE  (GivenUp(job))' \/ \E k \in Pending' : op'[k].want = body'
  <2>1. CASE Read
    BY <1>1, <2>1 DEF Read
  <2>2. CASE /\ Reading /\ UNCHANGED <<seen, mine, job>>
             /\ QuietStep \/ ConfirmEarlier
    <3>1. op'[job].want = op[job].want /\ body' \in Texts
      BY <1>0, <2>2 DEF OthersKept, TypeOK
    <3>2. CASE GivenUp(job)
      BY <1>0, <2>2, <3>2, GivenUpStays
    <3>3. ASSUME NEW k \in Pending, op[k].want = body'
          PROVE  \E m \in Pending' : op'[m].want = body'
      BY <1>0, <1>1, <2>2, <3>3, PendingStays
    <3>4. CASE body' = body
      <4>1. GivenUp(job) \/ \E k \in Pending : op[k].want = body
        BY <1>1, <2>2, <3>1, <3>4 DEF LateInv, ChangedOK
      <4> QED BY <3>2, <3>3, <3>4, <4>1
    <3>5. ASSUME NEW k \in net, Land(k), body' # body
          PROVE  GivenUp(job) \/ \E m \in Pending : op[m].want = body'
      <4>1. body' = op[k].want
        BY <3>5 DEF Land
      <4>2. op[job].state = "queued"
        BY <1>1, <2>2 DEF LateInv, Holding, Reading
      <4>3. /\ k \in Jobs /\ k # job /\ k < job
            /\ op[k].state \in {"started", "unknown", "conflict", "done"}
        BY <1>0, <4>2, UnderWay DEF InOrder
      <4>4. CASE op[k].state \in {"started", "unknown"}
        BY <4>1, <4>3, <4>4 DEF Pending
      <4>5. CASE op[k].state \in {"conflict", "done"}
        BY <1>0, <2>2, <3>1, <4>1, <4>3, <4>5, SettledGivenUp
      <4> QED BY <4>3, <4>4, <4>5
    <3>6. ~Person
      BY <3>1 DEF Person
    <3> QED BY <1>0, <3>2, <3>3, <3>4, <3>5, <3>6, NetStep
  <2> QED BY <1>0, <1>1, <2>1, <2>2, ReadingStep
<1>2. ASSUME pc' = "started" PROVE (GivenUp(job))'
  <2>1. job' = job /\ op'[job].want = op[job].want /\ body' \in Texts
    BY <1>0, <1>2, StartedStep DEF OthersKept, TypeOK
  <2>2. GivenUp(job)
    <3>1. CASE Start
      <4>1. body' = body /\ seen # body /\ mine = "queued" /\ Pending = {} /\ pc = "read"
        BY <2>1, <3>1 DEF Start, Checked, Writable
      <4> QED BY <2>1, <4>1 DEF LateInv, ChangedOK, Reading
    <3>2. CASE pc = "started" /\ body' = body
      BY <2>1, <3>2 DEF LateInv, ChangedOK
    <3>3. ASSUME pc = "started", NEW k \in net, Land(k), body' # body PROVE GivenUp(job)
      <4>1. body' = op[k].want
        BY <3>3 DEF Land
      <4>2. k # job
        BY <3>3 DEF LateInv, Holding
      <4>3. op[k].state \in {"conflict", "done"}
        BY <3>3, <4>2 DEF LateInv, PassedSettled
      <4>4. k < job
        BY <1>0, <4>2, UnderWay
      <4> QED BY <1>0, <2>1, <4>1, <4>3, <4>4, SettledGivenUp
    <3>4. ~Person
      BY <2>1 DEF Person
    <3> QED BY <1>0, <1>2, <3>1, <3>2, <3>3, <3>4, StartedStep, NetStep
  <2> QED BY <1>0, <2>1, <2>2, GivenUpStays
<1> QED BY <1>1, <1>2

LEMMA LateNext == LateInv /\ ConfirmedText /\ [Next]_vars => LateInv'
<1> SUFFICES ASSUME LateInv, ConfirmedText, [Next]_vars PROVE LateInv'
  OBVIOUS
<1>1. TypeOK'
  BY TypeNext DEF LateInv
<1>2. CASE Next
  BY <1>1, <1>2, InOrderStep, HoldingStep, PassedStep, DoneStep, ShownStep, ChangedStep
     DEF LateInv
<1>3. CASE UNCHANGED vars
  <2>1. /\ InOrder' /\ Holding'
    BY <1>3 DEF vars, LateInv, InOrder, Holding
  <2>2. PassedSettled' /\ DoneGivenUp'
    BY <1>3 DEF vars, LateInv, PassedSettled, DoneGivenUp, GivenUp
  <2>3. ShownOK' /\ ChangedOK'
    BY <1>3 DEF vars, LateInv, ShownOK, Shown, Reading, ChangedOK, Pending, GivenUp
  <2> QED BY <1>1, <2>1, <2>2, <2>3 DEF LateInv
<1> QED BY <1>2, <1>3

LEMMA LateInit == Init => LateInv
<1> SUFFICES ASSUME Init PROVE LateInv
  OBVIOUS
<1>1. /\ net = {} /\ writer = 0 /\ job = 1 /\ pc = "idle" /\ mine = "none"
      /\ \A j \in Jobs : op[j].state = "none"
  BY DEF Init
<1> QED BY <1>1, TypeInit DEF LateInv, InOrder, Holding, PassedSettled, DoneGivenUp, ShownOK,
           Shown, Reading, ChangedOK, Jobs

LEMMA LateAlways == Spec => []LateInv
  BY Typed, LateInit, LateNext, PTL DEF Spec

(* A write recorded as done has no request under way, unless the same text *)
(* was given up as a conflict, for any number of reviews and any faults.   *)
THEOREM DoneCorrect == Spec => []DoneHasLanded
<1>1. LateInv => DoneHasLanded
  <2> SUFFICES ASSUME LateInv, NEW j \in Jobs, op[j].state = "done", j \in net
               PROVE  \E k \in Jobs \ {j} : op[k].state = "conflict" /\ op[k].want = op[j].want
    BY DEF DoneHasLanded
  <2>1. PICK k \in Jobs : k < j /\ op[k].state = "conflict" /\ op[k].want = op[j].want
    BY DEF LateInv, DoneGivenUp, GivenUp
  <2>2. k # j
    BY <2>1 DEF Jobs
  <2> QED BY <2>1, <2>2
<1> QED BY <1>1, LateAlways, PTL

(* The status of a later review is replaced by that of an earlier one at   *)
(* most by a text given up as a conflict, for any number of reviews.       *)
THEOREM OverwriteCorrect == Spec => OverwriteOnlyAfterConflict
<1>1. LateInv /\ [Next]_vars =>
        [(writer' < writer /\ body' # body) =>
            \E j \in Jobs : op[j].state = "conflict" /\ op[j].want = body']_vars
  <2> SUFFICES ASSUME LateInv, Next, writer' < writer, body' # body
               PROVE  \E j \in Jobs : op[j].state = "conflict" /\ op[j].want = body'
    BY DEF vars
  <2>1. PICK k \in net : Land(k)
    <3>1. TypeOK /\ writer \in Nat
      BY DEF LateInv, TypeOK
    <3>2. ~Person
      BY <3>1 DEF Person
    <3> QED BY <3>1, <3>2, NetStep
  <2>2. body' = op[k].want /\ writer' = k /\ k \in Jobs
    BY <2>1 DEF Land, LateInv, TypeOK
  <2>3. op[k].state \in {"conflict", "done"}
    BY <2>2 DEF LateInv, PassedSettled
  <2>4. CASE op[k].state = "done"
    BY <2>2, <2>4 DEF LateInv, DoneGivenUp, GivenUp
  <2> QED BY <2>2, <2>3, <2>4
<1> QED BY <1>1, LateAlways, PTL DEF Spec, OverwriteOnlyAfterConflict
=============================================================================
