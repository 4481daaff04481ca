------------------------ MODULE NativeSession_proofs ------------------------
(***************************************************************************)
(* Proofs about one native session, for every batch size and every bound   *)
(* on events and faults.                                                   *)
(***************************************************************************)
EXTENDS NativeSession, TLAPS

Line == {"work"} \cup EndKinds

-----------------------------------------------------------------------------
(* What one more line of the log is, and what two logs in a row are.       *)
LEMMA AppendLine ==
    ASSUME NEW s \in Seq(Line), NEW e \in Line
    PROVE  /\ Append(s, e) \in Seq(Line)
           /\ Len(Append(s, e)) = Len(s) + 1
           /\ Append(s, e)[Len(s) + 1] = e
           /\ \A i \in 1..Len(s) : Append(s, e)[i] = s[i]
  OBVIOUS

LEMMA ExtendByLog ==
    ASSUME NEW s \in Seq(Line), NEW t \in Seq(Line), NEW n \in Nat,
           Len(s) < n, n <= Len(t)
    PROVE  /\ s \o SubSeq(t, Len(s) + 1, n) \in Seq(Line)
           /\ Len(s \o SubSeq(t, Len(s) + 1, n)) = n
           /\ \A i \in 1..Len(s) : (s \o SubSeq(t, Len(s) + 1, n))[i] = s[i]
           /\ \A i \in Len(s) + 1..n : (s \o SubSeq(t, Len(s) + 1, n))[i] = t[i]
<1> DEFINE piece == SubSeq(t, Len(s) + 1, n)
<1>1. /\ piece \in Seq(Line) /\ Len(piece) = n - Len(s)
      /\ \A i \in 1..n - Len(s) : piece[i] = t[Len(s) + i]
  OBVIOUS
<1>2. Len(s \o piece) = n /\ s \o piece \in Seq(Line)
  BY <1>1
<1>3. \A i \in 1..Len(s) : (s \o piece)[i] = s[i]
  BY <1>1
<1>4. \A i \in Len(s) + 1..n : (s \o piece)[i] = t[i]
  <2> SUFFICES ASSUME NEW i \in Len(s) + 1..n PROVE (s \o piece)[i] = t[i]
    OBVIOUS
  <2>1. (s \o piece)[i] = piece[i - Len(s)]
    BY <1>1
  <2>2. i - Len(s) \in 1..n - Len(s) /\ Len(s) + (i - Len(s)) = i
    OBVIOUS
  <2> QED BY <2>1, <2>2, <1>1
<1> QED BY <1>2, <1>3, <1>4

LEMMA PrefixIsSubSeq ==
    ASSUME NEW s \in Seq(Line), NEW t \in Seq(Line), Len(s) <= Len(t),
           \A i \in 1..Len(s) : s[i] = t[i]
    PROVE  s = SubSeq(t, 1, Len(s))
<1>1. /\ SubSeq(t, 1, Len(s)) \in Seq(Line) /\ Len(SubSeq(t, 1, Len(s))) = Len(s)
      /\ \A i \in 1..Len(s) : SubSeq(t, 1, Len(s))[i] = t[i]
  OBVIOUS
<1> QED BY <1>1

-----------------------------------------------------------------------------
(***************************************************************************)
(* Types, in three parts: the records, the logs and the rest.              *)
(***************************************************************************)
ReporterType == [thread : {"idle", "sending", "dead"}, closed : BOOLEAN, upto : Nat, acked : Nat]

RecordsOK == reporter \in ReporterType /\ record \in RecordType /\ draft \in RecordType
LogsOK ==
    /\ stored \in Seq(Line) /\ log \in Seq(Line)
    /\ final \in 0..Len(log) /\ ackFile \in 0..Len(log)
FlagsOK ==
    /\ job \in {"active", "cancelling", "cancelled"}
    /\ start \in {"unsent", "marked", "sent", "done"}
    /\ got \in BOOLEAN /\ cancel \in BOOLEAN /\ orphan \in BOOLEAN
    /\ spool \in BOOLEAN /\ result \in BOOLEAN
    /\ place \in Places
    /\ status \in {"none", "running", "aborting"} \cup EndKinds
    /\ binding \in {"none", "bound", "cancelled"}
    /\ faults \in 0..MaxFaults
NetOK == net \subseteq [from : Nat, to : Nat]
(* The end that was announced is a line of the log, and it becomes the     *)
(* status.                                                                 *)
EndInLog ==
    /\ place = "announced" => final \in 1..Len(log) /\ log[final] \in EndKinds
    /\ place \in {"closing", "closed", "writing"} => status \in EndKinds

(* What is acknowledged is stored, what is stored or under way was written.*)
Acknowledged ==
    /\ Len(stored) <= Len(log)
    /\ \A i \in 1..Len(stored) : stored[i] = log[i]
    /\ reporter.acked <= Len(stored) /\ ackFile <= Len(stored)
    /\ record.acked <= Len(stored) /\ draft.acked <= Len(stored)
    /\ \A b \in net : b.to <= Len(log)

LEMMA TypeParts == TypeOK <=> RecordsOK /\ LogsOK /\ FlagsOK /\ NetOK
  BY DEF TypeOK, RecordsOK, LogsOK, FlagsOK, NetOK, ReporterType, Line

LEMMA NewRecord ==
    ASSUME NEW s \in {"none"} \cup EndKinds, NEW m \in Nat, NEW n \in Nat,
           NEW a \in BOOLEAN, NEW c \in BOOLEAN, NEW d \in BOOLEAN
    PROVE  [there |-> a, status |-> s, final |-> m, acked |-> n,
            closed |-> c, available |-> d] \in RecordType
  BY DEF RecordType

LEMMA NewReporter ==
    ASSUME NEW t \in {"idle", "sending", "dead"}, NEW c \in BOOLEAN, NEW m \in Nat, NEW n \in Nat
    PROVE  [thread |-> t, closed |-> c, upto |-> m, acked |-> n] \in ReporterType
  BY DEF ReporterType

(* The last event of the batch that the reporter sends next.               *)
BatchEnd == IF reporter.acked + BatchLimit < Len(log)
            THEN reporter.acked + BatchLimit ELSE Len(log)

LEMMA SentBatch ==
    ASSUME TypeOK
    PROVE  /\ [reporter EXCEPT !.thread = "sending", !.upto = BatchEnd] \in ReporterType
           /\ BatchEnd \in Nat /\ BatchEnd <= Len(log)
           /\ [from |-> reporter.acked + 1, to |-> BatchEnd] \in [from : Nat, to : Nat]
<1>1. reporter \in ReporterType /\ Len(log) \in Nat /\ BatchLimit \in Nat
  BY SessionConstantsOK DEF TypeOK, ReporterType, SessionConstantsOK
<1>2. BatchEnd \in Nat /\ BatchEnd <= Len(log)
  BY <1>1 DEF BatchEnd, ReporterType
<1>3. \A n \in Nat : [reporter EXCEPT !.thread = "sending", !.upto = n] \in ReporterType
  BY <1>1 DEF ReporterType
<1>4. \A m, n \in Nat : [from |-> m + 1, to |-> n] \in [from : Nat, to : Nat]
  OBVIOUS
<1>5. reporter.acked \in Nat
  BY <1>1 DEF ReporterType
<1> QED BY <1>2, <1>3, <1>4, <1>5

LEMMA ThreadEnds ==
    ASSUME TypeOK, EndThread
    PROVE  reporter' \in ReporterType /\ record' \in RecordType
<1>1. reporter \in ReporterType /\ record \in RecordType /\ reporter.acked \in Nat
  BY DEF TypeOK, ReporterType
<1>2. reporter' \in ReporterType
  BY <1>1 DEF EndThread, ReporterType
<1>3. \A n \in Nat, c \in BOOLEAN : [record EXCEPT !.acked = n, !.closed = c] \in RecordType
  BY <1>1 DEF RecordType
<1>4. (reporter.closed /\ Drained) \in BOOLEAN
  OBVIOUS
<1> QED BY <1>1, <1>2, <1>3, <1>4 DEF EndThread

(* What a batch that arrives makes of the events stored.                   *)
LEMMA BatchStored ==
    ASSUME TypeOK, Acknowledged, NEW b \in net, DeliverBatch(b)
    PROVE  /\ stored' \in Seq(Line)
           /\ Len(stored) <= Len(stored') /\ Len(stored') <= Len(log)
           /\ \A i \in 1..Len(stored') : stored'[i] = log[i]
           /\ Receivable(b) => b.to <= Len(stored')
<1>1. /\ stored \in Seq(Line) /\ log \in Seq(Line) /\ b.to \in Nat /\ b.to <= Len(log)
      /\ Len(stored) <= Len(log) /\ \A i \in 1..Len(stored) : stored[i] = log[i]
  BY DEF TypeOK, Acknowledged, Line
<1>2. CASE Receivable(b) /\ b.to > Len(stored)
  <2>1. stored' = stored \o SubSeq(log, Len(stored) + 1, b.to)
    BY <1>2 DEF DeliverBatch, Extended
  <2>2. /\ stored' \in Seq(Line) /\ Len(stored') = b.to
        /\ \A i \in 1..Len(stored) : stored'[i] = stored[i]
        /\ \A i \in Len(stored) + 1..b.to : stored'[i] = log[i]
    <3>1. stored \in Seq(Line) /\ log \in Seq(Line) /\ b.to \in Nat
          /\ Len(stored) < b.to /\ b.to <= Len(log)
      BY <1>1, <1>2
    <3> QED BY <2>1, <3>1, ExtendByLog
  <2>3. ASSUME NEW i \in 1..Len(stored') PROVE stored'[i] = log[i]
    <3>1. i \in 1..Len(stored) \/ i \in Len(stored) + 1..b.to
      BY <1>1, <2>2, <2>3
    <3> QED BY <1>1, <2>2, <3>1
  <2>4. Len(stored) <= b.to /\ b.to <= Len(log)
    BY <1>1, <1>2
  <2> QED BY <2>2, <2>3, <2>4
<1>3. CASE ~(Receivable(b) /\ b.to > Len(stored))
  <2>1. stored' = stored
    BY <1>3 DEF DeliverBatch, Extended
  <2> QED BY <1>1, <1>3, <2>1
<1> QED BY <1>2, <1>3

LEMMA FlagsNext == FlagsOK /\ EndInLog /\ [Next]_vars => FlagsOK'
<1> SUFFICES ASSUME FlagsOK, EndInLog, [Next]_vars PROVE FlagsOK'
  OBVIOUS
<1> USE SessionConstantsOK DEF SessionConstantsOK
<1>1. CASE Emit \/ AbortCompleted \/ SendBatch
  BY <1>1 DEF Emit, AbortCompleted, SendBatch, executor, files, manager, FlagsOK, Places,
    EndKinds
<1>2. CASE MarkSubmitted
  BY <1>2 DEF MarkSubmitted, executor, files, FlagsOK, Places, EndKinds
<1>3. CASE SendStart
  BY <1>3 DEF SendStart, executor, files, FlagsOK, Places, EndKinds
<1>4. CASE DeliverStart
  <2>1. CASE MayBind
    BY <1>4, <2>1 DEF DeliverStart, FlagsOK, Places, EndKinds
  <2>2. CASE ~MayBind
    BY <1>4, <2>2 DEF DeliverStart, FlagsOK, Places, EndKinds
  <2> QED BY <2>1, <2>2
<1>5. CASE LoseStart
  BY <1>5 DEF LoseStart, executor, files, FlagsOK, Places, EndKinds, Fault
<1>6. CASE SaveResult
  BY <1>6 DEF SaveResult, manager, FlagsOK, Places, EndKinds
<1>7. CASE AnnounceCompleted
  BY <1>7 DEF AnnounceCompleted, manager, FlagsOK, Places, EndKinds
<1>8. CASE AnnounceError
  BY <1>8 DEF AnnounceError, manager, FlagsOK, Places, EndKinds
<1>9. CASE SetStatus
  BY <1>9 DEF SetStatus, manager, files, FlagsOK, Places, EndKinds, EndInLog
<1>10. CASE CloseReporter
  BY <1>10 DEF CloseReporter, manager, files, FlagsOK, Places, EndKinds
<1>11. CASE BuildRecord
  BY <1>11 DEF BuildRecord, manager, FlagsOK, Places, EndKinds
<1>12. CASE WriteRecord
  BY <1>12 DEF WriteRecord, manager, FlagsOK, Places, EndKinds
<1>13. CASE FailRecord
  BY <1>13 DEF FailRecord, manager, files, FlagsOK, Places, EndKinds, Fault
<1>14. CASE StopReporter
  BY <1>14 DEF StopReporter, manager, executor, FlagsOK, Places, EndKinds, EndThread
<1>15. CASE GiveUpBatch
  <2>1. spool' \in BOOLEAN
    BY <1>15 DEF GiveUpBatch, EndThread, FlagsOK
  <2>2. faults' \in 0..MaxFaults
    BY <1>15 DEF GiveUpBatch, Fault, FlagsOK
  <2> QED BY <1>15, <2>1, <2>2 DEF GiveUpBatch, manager, executor, FlagsOK
<1>16. ASSUME NEW b \in net, DeliverBatch(b) PROVE FlagsOK'
  BY <1>16 DEF DeliverBatch, executor, FlagsOK, Places, EndKinds, Fault
<1>17. ASSUME NEW b \in net, LoseBatch(b) PROVE FlagsOK'
  BY <1>17 DEF LoseBatch, manager, executor, files, FlagsOK, Places, EndKinds, Fault
<1>18. CASE Restart
  <2>1. place' \in Places
    BY <1>18 DEF Restart, FlagsOK, Places
  <2>2. orphan' \in BOOLEAN
    BY <1>18 DEF Restart, FlagsOK
  <2>3. status' \in {"none", "running", "aborting"} \cup EndKinds /\ cancel' \in BOOLEAN
    BY <1>18 DEF Restart
  <2>4. faults' \in 0..MaxFaults
    BY <1>18 DEF Restart, Fault, FlagsOK
  <2>5. UNCHANGED <<job, start, got, spool, result, binding>>
    BY <1>18 DEF Restart, manager, files
  <2> QED BY <2>1, <2>2, <2>3, <2>4, <2>5 DEF FlagsOK
<1>19. CASE Collect
  BY <1>19 DEF Collect, executor, files, FlagsOK, Places, EndKinds
<1>20. CASE Release
  <2>1. /\ result' = FALSE
        /\ UNCHANGED <<job, start, got, cancel, orphan, spool, place, status, binding, faults>>
    BY <1>20 DEF Release, manager, executor
  <2> QED BY <2>1 DEF FlagsOK
<1>21. CASE RequestCancel
  BY <1>21 DEF RequestCancel, executor, files, FlagsOK, Places, EndKinds
<1>22. CASE Abort
  <2>1. CASE InMemory
    BY <1>22, <2>1 DEF Abort, manager, FlagsOK, EndKinds
  <2>2. CASE ~InMemory
    BY <1>22, <2>2 DEF Abort, manager, FlagsOK
  <2> QED BY <2>1, <2>2
<1>23. CASE ConfirmCancel
  BY <1>23 DEF ConfirmCancel, executor, FlagsOK, Places, EndKinds
<1>24. CASE UNCHANGED vars
  BY <1>24 DEF vars, manager, executor, files, FlagsOK, Places, EndKinds
<1>25. CASE Interrupt
  BY <1>25 DEF Interrupt, manager, files, FlagsOK, EndKinds
<1> QED
  BY <1>1, <1>2, <1>3, <1>4, <1>5, <1>6, <1>7, <1>8, <1>9, <1>10, <1>11, <1>12, <1>13,
    <1>14, <1>15, <1>16, <1>17, <1>18, <1>19, <1>20, <1>21, <1>22, <1>23, <1>24, <1>25 DEF Next, Run, Report, Cancel

LEMMA RecordsNext == TypeOK /\ EndInLog /\ [Next]_vars => RecordsOK'
<1> SUFFICES ASSUME TypeOK, EndInLog, [Next]_vars PROVE RecordsOK'
  OBVIOUS
<1>1. CASE MarkSubmitted \/ SendStart \/ LoseStart \/ Emit \/ SaveResult
             \/ AnnounceCompleted \/ AnnounceError \/ AbortCompleted \/ SetStatus
             \/ Collect \/ RequestCancel \/ Interrupt \/ Abort \/ ConfirmCancel
  BY <1>1 DEF MarkSubmitted, SendStart, LoseStart, Emit, SaveResult, AnnounceCompleted,
    AnnounceError, AbortCompleted, SetStatus, Collect, RequestCancel, Interrupt, Abort, ConfirmCancel,
    executor, files, manager, TypeOK, RecordsOK, ReporterType
<1>2. CASE DeliverStart
  <2>1. reporter' \in ReporterType
    <3>1. CASE MayBind
      BY <1>2, <3>1, NewReporter DEF DeliverStart
    <3>2. CASE ~MayBind
      BY <1>2, <3>2 DEF DeliverStart, TypeOK, ReporterType
    <3> QED BY <3>1, <3>2
  <2> QED BY <1>2, <2>1 DEF DeliverStart, TypeOK, RecordsOK
<1>3. CASE CloseReporter
  BY <1>3 DEF CloseReporter, manager, files, TypeOK, RecordsOK, ReporterType
<1>4. CASE BuildRecord
  <2>1. status \in EndKinds
    BY <1>4 DEF BuildRecord, EndInLog
  <2>2. (reporter.thread = "dead" /\ Drained) \in BOOLEAN /\ reporter.acked \in Nat /\ final \in Nat
    BY DEF TypeOK
  <2>3. draft' \in RecordType
    BY <1>4, <2>1, <2>2, NewRecord DEF BuildRecord, TypeOK
  <2> QED BY <1>4, <2>3 DEF BuildRecord, TypeOK, RecordsOK, ReporterType
<1>5. CASE WriteRecord
  BY <1>5 DEF WriteRecord, manager, TypeOK, RecordsOK, ReporterType, NoRecord, RecordType
<1>6. CASE FailRecord
  BY <1>6 DEF FailRecord, files, manager, TypeOK, RecordsOK, ReporterType, NoRecord, RecordType
<1>7. CASE SendBatch
  <2>1. reporter' = [reporter EXCEPT !.thread = "sending", !.upto = BatchEnd]
    BY <1>7 DEF SendBatch, BatchEnd
  <2> QED BY <1>7, <2>1, SentBatch DEF SendBatch, executor, files, TypeOK, RecordsOK
<1>8. CASE StopReporter
  BY <1>8, ThreadEnds DEF StopReporter, executor, TypeOK, RecordsOK
<1>9. CASE GiveUpBatch
  <2>1. CASE EndThread
    BY <1>9, <2>1, ThreadEnds DEF GiveUpBatch, executor, TypeOK, RecordsOK
  <2>2. CASE reporter' = [reporter EXCEPT !.thread = "idle", !.upto = 0] /\ UNCHANGED record
    BY <1>9, <2>2 DEF GiveUpBatch, executor, TypeOK, RecordsOK, ReporterType
  <2> QED BY <1>9, <2>1, <2>2 DEF GiveUpBatch
<1>10. ASSUME NEW b \in net, DeliverBatch(b) PROVE RecordsOK'
  <2>1. reporter' \in ReporterType
    <3>1. /\ reporter \in ReporterType /\ b.to \in Nat
          /\ \A n \in Nat : [reporter EXCEPT !.thread = "idle", !.upto = 0, !.acked = n] \in ReporterType
      BY DEF TypeOK, ReporterType
    <3> QED BY <1>10, <3>1 DEF DeliverBatch
  <2> QED BY <1>10, <2>1 DEF DeliverBatch, executor, TypeOK, RecordsOK
<1>11. ASSUME NEW b \in net, LoseBatch(b) PROVE RecordsOK'
  BY <1>11 DEF LoseBatch, manager, executor, files, TypeOK, RecordsOK, ReporterType
<1>12. CASE Restart
  <2>1. NoReporter \in ReporterType /\ NoRecord \in RecordType
    BY NewReporter, NewRecord DEF NoReporter, NoRecord
  <2>2. ackFile \in Nat
    BY DEF TypeOK
  <2>3. reporter' \in ReporterType
    BY <1>12, <2>1, <2>2, NewReporter DEF Restart
  <2> QED BY <1>12, <2>1, <2>3 DEF Restart, files, TypeOK, RecordsOK
<1>13. CASE Release
  <2>1. [record EXCEPT !.available = FALSE] \in RecordType
    BY DEF TypeOK, RecordType
  <2> QED BY <1>13, <2>1 DEF Release, executor, TypeOK, RecordsOK, ReporterType
<1>14. CASE UNCHANGED vars
  BY <1>14 DEF vars, manager, executor, files, TypeOK, RecordsOK, ReporterType
<1> QED
  BY <1>1, <1>2, <1>3, <1>4, <1>5, <1>6, <1>7, <1>8, <1>9, <1>10, <1>11, <1>12, <1>13, <1>14 DEF Next, Run, Report, Cancel

LEMMA LogsNext == TypeOK /\ Acknowledged /\ [Next]_vars => LogsOK'
<1> SUFFICES ASSUME TypeOK, Acknowledged, [Next]_vars PROVE LogsOK'
  OBVIOUS
<1>1. CASE MarkSubmitted \/ SendStart \/ DeliverStart \/ LoseStart \/ SaveResult
             \/ SetStatus \/ CloseReporter \/ BuildRecord \/ WriteRecord \/ FailRecord
             \/ SendBatch \/ StopReporter \/ GiveUpBatch \/ Collect \/ Release
             \/ RequestCancel \/ Interrupt \/ Abort \/ ConfirmCancel
  BY <1>1 DEF MarkSubmitted, SendStart, DeliverStart, LoseStart, SaveResult, SetStatus,
    CloseReporter, BuildRecord, WriteRecord, FailRecord, SendBatch, StopReporter,
    GiveUpBatch, Collect, Release, RequestCancel, Interrupt, Abort, ConfirmCancel, executor, files,
    manager, TypeOK, LogsOK, Line, EndKinds
<1>2. CASE Emit
  BY <1>2 DEF Emit, manager, executor, TypeOK, LogsOK, Line, EndKinds
<1>3. CASE AnnounceCompleted
  BY <1>3 DEF AnnounceCompleted, manager, TypeOK, LogsOK, Line, EndKinds, EmitTerminal
<1>4. CASE AnnounceError
  BY <1>4 DEF AnnounceError, manager, TypeOK, LogsOK, Line, EndKinds, EmitTerminal
<1>5. CASE AbortCompleted
  BY <1>5 DEF AbortCompleted, manager, TypeOK, LogsOK, Line, EndKinds, EmitTerminal
<1>6. ASSUME NEW b \in net, DeliverBatch(b) PROVE LogsOK'
  <2>1. stored' \in Seq(Line)
    BY <1>6, BatchStored
  <2>2. ackFile' \in 0..Len(log)
    BY <1>6 DEF DeliverBatch, Acknowledged, TypeOK
  <2> QED BY <1>6, <2>1, <2>2 DEF DeliverBatch, executor, TypeOK, LogsOK, Line
<1>7. ASSUME NEW b \in net, LoseBatch(b) PROVE LogsOK'
  BY <1>7 DEF LoseBatch, manager, executor, files, TypeOK, LogsOK, Line, EndKinds
<1>8. CASE Restart
  BY <1>8 DEF Restart, manager, files, TypeOK, LogsOK, Line, EndKinds
<1>9. CASE UNCHANGED vars
  BY <1>9 DEF vars, manager, executor, files, TypeOK, LogsOK, Line, EndKinds
<1> QED
  BY <1>1, <1>2, <1>3, <1>4, <1>5, <1>6, <1>7, <1>8, <1>9 DEF Next, Run, Report, Cancel

LEMMA NetNext == TypeOK /\ [Next]_vars => NetOK'
<1> SUFFICES ASSUME TypeOK, [Next]_vars PROVE NetOK'
  OBVIOUS
<1>1. CASE MarkSubmitted \/ SendStart \/ DeliverStart \/ LoseStart \/ Emit \/ SaveResult
             \/ AnnounceCompleted \/ AnnounceError \/ AbortCompleted \/ SetStatus
             \/ CloseReporter \/ BuildRecord \/ WriteRecord \/ FailRecord \/ StopReporter
             \/ GiveUpBatch \/ Restart \/ Collect \/ Release \/ RequestCancel \/ Interrupt \/ Abort
             \/ ConfirmCancel
  BY <1>1 DEF MarkSubmitted, SendStart, DeliverStart, LoseStart, Emit, SaveResult,
    AnnounceCompleted, AnnounceError, AbortCompleted, SetStatus, CloseReporter,
    BuildRecord, WriteRecord, FailRecord, StopReporter, GiveUpBatch, Restart, Collect,
    Release, RequestCancel, Interrupt, Abort, ConfirmCancel, executor, files, manager, TypeOK, NetOK
<1>2. CASE SendBatch
  <2>1. [from |-> reporter.acked + 1, to |-> BatchEnd] \in [from : Nat, to : Nat]
    BY SentBatch
  <2> QED BY <1>2, <2>1 DEF SendBatch, BatchEnd, TypeOK, NetOK
<1>3. ASSUME NEW b \in net, DeliverBatch(b) PROVE NetOK'
  BY <1>3 DEF DeliverBatch, TypeOK, NetOK
<1>4. ASSUME NEW b \in net, LoseBatch(b) PROVE NetOK'
  BY <1>4 DEF LoseBatch, TypeOK, NetOK
<1>5. CASE UNCHANGED vars
  BY <1>5 DEF vars, manager, executor, files, TypeOK, NetOK
<1> QED
  BY <1>1, <1>2, <1>3, <1>4, <1>5 DEF Next, Run, Report, Cancel

LEMMA EndInLogNext == LogsOK /\ EndInLog /\ [Next]_vars => EndInLog'
<1> SUFFICES ASSUME LogsOK, EndInLog, [Next]_vars PROVE EndInLog'
  OBVIOUS
<1>1. CASE MarkSubmitted \/ SendStart \/ LoseStart \/ SendBatch \/ StopReporter
             \/ GiveUpBatch \/ Collect \/ Release \/ RequestCancel \/ ConfirmCancel
  BY <1>1 DEF MarkSubmitted, SendStart, LoseStart, SendBatch, StopReporter, GiveUpBatch,
    Collect, Release, RequestCancel, ConfirmCancel, executor, files, manager, LogsOK,
    EndInLog
<1>2. CASE DeliverStart
  BY <1>2 DEF DeliverStart, LogsOK, EndInLog
<1>3. CASE Emit
  BY <1>3 DEF Emit, manager, executor, LogsOK, EndInLog, Line
<1>4. CASE SaveResult
  BY <1>4 DEF SaveResult, manager, LogsOK, EndInLog
<1>5. CASE AnnounceCompleted
  BY <1>5 DEF AnnounceCompleted, manager, LogsOK, EndInLog, EmitTerminal, Line, EndKinds
<1>6. CASE AnnounceError
  BY <1>6 DEF AnnounceError, manager, LogsOK, EndInLog, EmitTerminal, Line, EndKinds
<1>7. CASE AbortCompleted
  BY <1>7 DEF AbortCompleted, manager, LogsOK, EndInLog, EmitTerminal, Line, EndKinds
<1>8. CASE SetStatus
  BY <1>8 DEF SetStatus, manager, files, LogsOK, EndInLog
<1>9. CASE CloseReporter
  BY <1>9 DEF CloseReporter, manager, files, LogsOK, EndInLog
<1>10. CASE BuildRecord
  BY <1>10 DEF BuildRecord, manager, LogsOK, EndInLog
<1>11. CASE WriteRecord
  BY <1>11 DEF WriteRecord, manager, LogsOK, EndInLog
<1>12. CASE FailRecord
  BY <1>12 DEF FailRecord, manager, files, LogsOK, EndInLog
<1>13. ASSUME NEW b \in net, DeliverBatch(b) PROVE EndInLog'
  BY <1>13 DEF DeliverBatch, executor, LogsOK, EndInLog
<1>14. ASSUME NEW b \in net, LoseBatch(b) PROVE EndInLog'
  BY <1>14 DEF LoseBatch, manager, executor, files, LogsOK, EndInLog
<1>15. CASE Restart
  BY <1>15 DEF Restart, manager, files, LogsOK, EndInLog
<1>16. CASE Interrupt \/ Abort
  BY <1>16 DEF Interrupt, Abort, manager, files, LogsOK, EndInLog
<1>17. CASE UNCHANGED vars
  BY <1>17 DEF vars, manager, executor, files, LogsOK, EndInLog
<1> QED
  BY <1>1, <1>2, <1>3, <1>4, <1>5, <1>6, <1>7, <1>8, <1>9, <1>10, <1>11, <1>12, <1>13,
    <1>14, <1>15, <1>16, <1>17 DEF Next, Run, Report, Cancel

-----------------------------------------------------------------------------
(***************************************************************************)
(* What is acknowledged is stored, and what is stored was written.         *)
(***************************************************************************)
(* One more line changes nothing that was acknowledged.                    *)
LEMMA LongerLog ==
    ASSUME TypeOK, Acknowledged, NEW e \in Line, log' = Append(log, e),
           UNCHANGED <<stored, reporter, ackFile, record, draft, net>>
    PROVE  Acknowledged'
<1>1. log \in Seq(Line) /\ stored \in Seq(Line) /\ net \subseteq [from : Nat, to : Nat]
  BY DEF TypeOK, Line
<1>2. Len(log') = Len(log) + 1 /\ \A i \in 1..Len(log) : log'[i] = log[i]
  BY <1>1, AppendLine
<1> QED BY <1>1, <1>2 DEF Acknowledged

LEMMA ThreadEndsAcknowledged ==
    ASSUME TypeOK, Acknowledged, EndThread
    PROVE  reporter'.acked <= Len(stored) /\ record'.acked <= Len(stored)
<1>1. /\ reporter'.acked = reporter.acked
      /\ record'.acked = IF record.there THEN reporter.acked ELSE record.acked
  BY DEF EndThread, TypeOK, RecordType
<1> QED BY <1>1 DEF Acknowledged

LEMMA AcknowledgedNext == TypeOK /\ EndInLog /\ Acknowledged /\ [Next]_vars => Acknowledged'
<1> SUFFICES ASSUME TypeOK, EndInLog, Acknowledged, [Next]_vars PROVE Acknowledged'
  OBVIOUS
<1>1. CASE MarkSubmitted \/ SendStart \/ LoseStart \/ SaveResult \/ SetStatus \/ Collect
             \/ RequestCancel \/ Interrupt \/ Abort \/ ConfirmCancel
  BY <1>1 DEF MarkSubmitted, SendStart, LoseStart, SaveResult, SetStatus, Collect,
    RequestCancel, Interrupt, Abort, ConfirmCancel, executor, files, manager, Acknowledged
<1>2. CASE DeliverStart
  <2>1. reporter'.acked <= Len(stored)
    BY <1>2 DEF DeliverStart, Acknowledged, TypeOK
  <2> QED BY <1>2, <2>1 DEF DeliverStart, Acknowledged
<1>3. CASE Emit
  BY <1>3, LongerLog DEF Emit, executor, files, manager, Line, EndKinds
<1>4. CASE AnnounceCompleted
  BY <1>4, LongerLog DEF AnnounceCompleted, EmitTerminal, executor, files, manager, Line, EndKinds
<1>5. CASE AnnounceError
  BY <1>5, LongerLog DEF AnnounceError, EmitTerminal, executor, files, manager, Line, EndKinds
<1>6. CASE AbortCompleted
  BY <1>6, LongerLog DEF AbortCompleted, EmitTerminal, executor, files, manager, Line, EndKinds
<1>7. CASE CloseReporter
  BY <1>7 DEF CloseReporter, manager, files, Acknowledged, TypeOK
<1>8. CASE BuildRecord
  BY <1>8 DEF BuildRecord, manager, Acknowledged
<1>9. CASE WriteRecord
  BY <1>9 DEF WriteRecord, manager, Acknowledged, NoRecord, TypeOK
<1>10. CASE FailRecord
  BY <1>10 DEF FailRecord, manager, files, Acknowledged, NoRecord, TypeOK
<1>11. CASE SendBatch
  <2>1. reporter'.acked = reporter.acked
    BY <1>11 DEF SendBatch, TypeOK
  <2>2. net' = net \cup {[from |-> reporter.acked + 1, to |-> BatchEnd]}
    BY <1>11 DEF SendBatch, BatchEnd
  <2>3. UNCHANGED <<stored, log, ackFile, record, draft>>
    BY <1>11 DEF SendBatch, manager, executor, files
  <2> QED BY <2>1, <2>2, <2>3, SentBatch DEF Acknowledged
<1>12. CASE StopReporter
  BY <1>12, ThreadEndsAcknowledged DEF StopReporter, manager, executor, Acknowledged
<1>13. CASE GiveUpBatch
  <2>1. reporter'.acked <= Len(stored) /\ record'.acked <= Len(stored)
    <3>1. CASE EndThread
      BY <3>1, ThreadEndsAcknowledged
    <3>2. CASE reporter' = [reporter EXCEPT !.thread = "idle", !.upto = 0] /\ UNCHANGED record
      BY <3>2 DEF Acknowledged, TypeOK
    <3> QED BY <1>13, <3>1, <3>2 DEF GiveUpBatch
  <2> QED BY <1>13, <2>1 DEF GiveUpBatch, manager, executor, Acknowledged
<1>14. ASSUME NEW b \in net, DeliverBatch(b) PROVE Acknowledged'
  <2>1. /\ Len(stored) <= Len(stored') /\ Len(stored') <= Len(log)
        /\ \A i \in 1..Len(stored') : stored'[i] = log[i]
        /\ Receivable(b) => b.to <= Len(stored')
    BY <1>14, BatchStored
  <2>2. UNCHANGED <<log, record, draft>> /\ net' \subseteq net
    BY <1>14 DEF DeliverBatch, executor
  <2>3. Len(stored) \in Nat /\ Len(stored') \in Nat /\ b.to \in Nat
    BY <1>14, BatchStored DEF TypeOK
  <2>4. reporter'.acked <= Len(stored') /\ ackFile' <= Len(stored')
    <3>1. CASE Receivable(b) /\ reporter'.acked = b.to /\ ackFile' = b.to
      BY <2>1, <3>1
    <3>2. CASE UNCHANGED <<reporter, ackFile>>
      BY <2>1, <2>3, <3>2 DEF Acknowledged, TypeOK
    <3> QED BY <1>14, <3>1, <3>2 DEF DeliverBatch, Awaited, TypeOK
  <2>5. record'.acked <= Len(stored') /\ draft'.acked <= Len(stored')
    BY <2>1, <2>2, <2>3 DEF Acknowledged, TypeOK, RecordType
  <2> QED BY <2>1, <2>2, <2>4, <2>5 DEF Acknowledged
<1>15. ASSUME NEW b \in net, LoseBatch(b) PROVE Acknowledged'
  BY <1>15 DEF LoseBatch, manager, executor, files, Acknowledged
<1>16. CASE Restart
  BY <1>16 DEF Restart, manager, files, NoReporter, NoRecord, Acknowledged, TypeOK
<1>17. CASE Release
  BY <1>17 DEF Release, manager, executor, Acknowledged, TypeOK, RecordType
<1>18. CASE UNCHANGED vars
  BY <1>18 DEF vars, manager, executor, files, Acknowledged
<1> QED
  BY <1>1, <1>2, <1>3, <1>4, <1>5, <1>6, <1>7, <1>8, <1>9, <1>10, <1>11, <1>12, <1>13,
    <1>14, <1>15, <1>16, <1>17, <1>18 DEF Next, Run, Report, Cancel

-----------------------------------------------------------------------------
Written == TypeOK /\ EndInLog /\ Acknowledged

LEMMA WrittenInit == Init => Written
<1> SUFFICES ASSUME Init PROVE Written
  OBVIOUS
<1>1. FlagsOK
  <2>1. /\ job = "active" /\ start = "unsent" /\ got = FALSE /\ cancel = FALSE /\ orphan = FALSE
        /\ spool = FALSE /\ result = FALSE /\ place = "none" /\ status = "none"
        /\ binding = "none" /\ faults = 0
    BY DEF Init
  <2>2. place \in Places /\ faults \in 0..MaxFaults
    BY <2>1, SessionConstantsOK DEF Places, SessionConstantsOK
  <2> QED BY <2>1, <2>2 DEF FlagsOK
<1>2. RecordsOK
  BY NewRecord, NewReporter DEF Init, RecordsOK, NoRecord, NoReporter
<1>3. LogsOK /\ NetOK
  BY DEF Init, LogsOK, NetOK
<1>4. EndInLog /\ Acknowledged
  BY DEF Init, EndInLog, Acknowledged, NoRecord, NoReporter
<1> QED BY <1>1, <1>2, <1>3, <1>4, TypeParts DEF Written

LEMMA WrittenNext == Written /\ [Next]_vars => Written'
<1> SUFFICES ASSUME Written, [Next]_vars PROVE Written'
  OBVIOUS
<1>1. TypeOK'
  BY TypeParts, FlagsNext, RecordsNext, LogsNext, NetNext DEF Written, TypeOK, RecordsOK, LogsOK,
     FlagsOK, NetOK, ReporterType, Line
<1>2. EndInLog' /\ Acknowledged'
  BY TypeParts, EndInLogNext, AcknowledgedNext DEF Written
<1> QED BY <1>1, <1>2 DEF Written

LEMMA AlwaysWritten == Spec => []Written
  BY WrittenInit, WrittenNext, PTL DEF Spec

(* Every variable keeps its type, whatever is lost, late or cut off.       *)
THEOREM TypeCorrect == Spec => []TypeOK
<1>1. Written => TypeOK
  BY DEF Written
<1> QED BY <1>1, AlwaysWritten, PTL

(* The manager has a prefix of what the executor wrote, and what the       *)
(* executor takes for acknowledged is stored: for every size of a batch,   *)
(* every length of the log and any number of faults.                       *)
THEOREM StoredCorrect == Spec => []StoredIsPrefix
<1>1. Written => StoredIsPrefix
  <2> SUFFICES ASSUME Written PROVE StoredIsPrefix
    OBVIOUS
  <2>1. stored = SubSeq(log, 1, Len(stored))
    BY PrefixIsSubSeq DEF Written, TypeOK, Acknowledged, Line
  <2> QED BY <2>1 DEF Written, Acknowledged, StoredIsPrefix
<1> QED BY <1>1, AlwaysWritten, PTL


-----------------------------------------------------------------------------
(***************************************************************************)
(* A confirmed cancellation: the file of the binding is what stops a late  *)
(* start, and nothing that runs is left for a restart to leave behind.     *)
(***************************************************************************)
Halted == job = "cancelled" => Stopped /\ binding = "cancelled"

LEMMA HaltedNext == TypeOK /\ Halted /\ [Next]_vars => Halted'
<1> SUFFICES ASSUME TypeOK, Halted, [Next]_vars PROVE Halted'
  OBVIOUS
<1>1. CASE MarkSubmitted \/ SendStart \/ LoseStart \/ Emit \/ AbortCompleted \/ SendBatch
             \/ StopReporter \/ GiveUpBatch \/ Collect \/ Release
  BY <1>1 DEF MarkSubmitted, SendStart, LoseStart, Emit, AbortCompleted, SendBatch,
    StopReporter, GiveUpBatch, Collect, Release, executor, files, manager, Halted, Stopped
<1>2. CASE DeliverStart
  BY <1>2 DEF DeliverStart, Halted, Stopped, MayBind
<1>3. CASE SaveResult
  BY <1>3 DEF SaveResult, manager, Halted, Stopped
<1>4. CASE AnnounceCompleted
  BY <1>4 DEF AnnounceCompleted, manager, Halted, Stopped
<1>5. CASE AnnounceError
  BY <1>5 DEF AnnounceError, manager, Halted, Stopped
<1>6. CASE SetStatus
  BY <1>6 DEF SetStatus, manager, files, Halted, Stopped
<1>7. CASE CloseReporter
  BY <1>7 DEF CloseReporter, manager, files, Halted, Stopped
<1>8. CASE BuildRecord
  BY <1>8 DEF BuildRecord, manager, Halted, Stopped
<1>9. CASE WriteRecord
  BY <1>9 DEF WriteRecord, manager, Halted, Stopped
<1>10. CASE FailRecord
  BY <1>10 DEF FailRecord, manager, files, Halted, Stopped
<1>11. ASSUME NEW b \in net, DeliverBatch(b) PROVE Halted'
  BY <1>11 DEF DeliverBatch, executor, Halted, Stopped
<1>12. ASSUME NEW b \in net, LoseBatch(b) PROVE Halted'
  BY <1>12 DEF LoseBatch, manager, executor, files, Halted, Stopped
<1>13. CASE Restart
  <2>1. job = "cancelled" => place' \in {"none", "done"} /\ orphan' = orphan
    BY <1>13 DEF Restart, Halted, Stopped
  <2> QED BY <1>13, <2>1 DEF Restart, manager, files, Halted, Stopped
<1>14. CASE RequestCancel
  BY <1>14 DEF RequestCancel, executor, files, Halted, Stopped
<1>15. CASE Interrupt \/ Abort
  BY <1>15 DEF Interrupt, Abort, manager, files, Halted, Stopped
<1>16. CASE ConfirmCancel
  BY <1>16 DEF ConfirmCancel, executor, Halted, Stopped
<1>17. CASE UNCHANGED vars
  BY <1>17 DEF vars, manager, executor, files, Halted, Stopped
<1> QED
  BY <1>1, <1>2, <1>3, <1>4, <1>5, <1>6, <1>7, <1>8, <1>9, <1>10, <1>11, <1>12, <1>13,
    <1>14, <1>15, <1>16, <1>17 DEF Next, Run, Report, Cancel

(* No late request starts a session whose cancellation was confirmed.      *)
THEOREM CancelledCorrect == Spec => []CancelledStaysStopped
<1>1. Init => Halted
  BY DEF Init, Halted
<1>2. TypeOK /\ Halted /\ [Next]_vars => Halted'
  BY HaltedNext
<1>3. Halted => CancelledStaysStopped
  BY DEF Halted, CancelledStaysStopped
<1> QED BY <1>1, <1>2, <1>3, TypeCorrect, PTL DEF Spec

-----------------------------------------------------------------------------
(***************************************************************************)
(* The result is on disk before its completion is announced, and stays     *)
(* there until the manager has it.                                         *)
(***************************************************************************)
Saved ==
    /\ place = "saved" => result \/ got
    /\ \A i \in 1..Len(log) : log[i] = "completed" => result \/ got

LEMMA LineKeepsSaved ==
    ASSUME TypeOK, Saved, NEW e \in Line, log' = Append(log, e), UNCHANGED <<result, got>>,
           e = "completed" => result \/ got, place' = "saved" => place = "saved"
    PROVE  Saved'
<1>1. log \in Seq(Line)
  BY DEF TypeOK, Line
<1>2. /\ Len(log') = Len(log) + 1 /\ log'[Len(log) + 1] = e
      /\ \A i \in 1..Len(log) : log'[i] = log[i]
  BY <1>1, AppendLine
<1>3. \A i \in 1..Len(log') : i \in 1..Len(log) \/ i = Len(log) + 1
  BY <1>1, <1>2
<1> QED BY <1>2, <1>3 DEF Saved

LEMMA SavedNext == TypeOK /\ Saved /\ [Next]_vars => Saved'
<1> SUFFICES ASSUME TypeOK, Saved, [Next]_vars PROVE Saved'
  OBVIOUS
<1>1. CASE MarkSubmitted \/ SendStart \/ LoseStart \/ SendBatch \/ StopReporter
             \/ GiveUpBatch \/ RequestCancel \/ Interrupt \/ Abort \/ ConfirmCancel
  BY <1>1 DEF MarkSubmitted, SendStart, LoseStart, SendBatch, StopReporter, GiveUpBatch,
    RequestCancel, Interrupt, Abort, ConfirmCancel, executor, files, manager, Saved
<1>2. CASE DeliverStart
  BY <1>2 DEF DeliverStart, Saved
<1>3. CASE Emit
  BY <1>3, LineKeepsSaved DEF Emit, executor, manager, Saved, Line, EndKinds
<1>4. CASE SaveResult
  BY <1>4 DEF SaveResult, manager, Saved
<1>5. CASE AnnounceCompleted
  BY <1>5, LineKeepsSaved DEF AnnounceCompleted, EmitTerminal, executor, manager, Saved, Line, EndKinds
<1>6. CASE AnnounceError
  BY <1>6, LineKeepsSaved DEF AnnounceError, EmitTerminal, executor, manager, Saved, Line, EndKinds
<1>7. CASE AbortCompleted
  BY <1>7, LineKeepsSaved DEF AbortCompleted, EmitTerminal, executor, manager, Saved, Line, EndKinds
<1>8. CASE SetStatus
  BY <1>8 DEF SetStatus, manager, files, Saved
<1>9. CASE CloseReporter
  BY <1>9 DEF CloseReporter, manager, files, Saved
<1>10. CASE BuildRecord
  BY <1>10 DEF BuildRecord, manager, Saved
<1>11. CASE WriteRecord
  BY <1>11 DEF WriteRecord, manager, Saved
<1>12. CASE FailRecord
  BY <1>12 DEF FailRecord, manager, files, Saved
<1>13. ASSUME NEW b \in net, DeliverBatch(b) PROVE Saved'
  BY <1>13 DEF DeliverBatch, executor, Saved
<1>14. ASSUME NEW b \in net, LoseBatch(b) PROVE Saved'
  BY <1>14 DEF LoseBatch, manager, executor, files, Saved
<1>15. CASE Restart
  BY <1>15 DEF Restart, manager, files, Saved
<1>16. CASE Collect
  BY <1>16 DEF Collect, executor, files, Saved
<1>17. CASE Release
  BY <1>17 DEF Release, manager, executor, Saved, Releasable
<1>18. CASE UNCHANGED vars
  BY <1>18 DEF vars, manager, executor, files, Saved
<1> QED
  BY <1>1, <1>2, <1>3, <1>4, <1>5, <1>6, <1>7, <1>8, <1>9, <1>10, <1>11, <1>12, <1>13,
    <1>14, <1>15, <1>16, <1>17, <1>18 DEF Next, Run, Report, Cancel

(* A session announced as completed has its result on disk until the       *)
(* manager has persisted it.                                               *)
THEOREM AnnouncedCorrect == Spec => []AnnouncedResultExists
<1>1. Init => Saved
  BY DEF Init, Saved
<1>2. TypeOK /\ Saved /\ [Next]_vars => Saved'
  BY SavedNext
<1>3. TypeOK /\ Saved => AnnouncedResultExists
  BY DEF TypeOK, Saved, AnnouncedResultExists
<1> QED BY <1>1, <1>2, <1>3, TypeCorrect, PTL DEF Spec

-----------------------------------------------------------------------------
(***************************************************************************)
(* The completion that a result is accepted with is the last line of the   *)
(* log, and no line follows it.                                            *)
(***************************************************************************)
EndsCompleted == Len(log) > 0 /\ log[Len(log)] = "completed"
Ended ==
    /\ place = "announced" => final = Len(log)
    /\ status = "completed" =>
         \/ place \in {"closing", "closed", "writing"} /\ final = Len(log) /\ EndsCompleted
         \/ place = "done"
    /\ draft.status = "completed" => place = "writing" /\ draft.final = Len(log) /\ EndsCompleted
    /\ record.status = "completed" => place = "done" /\ record.final = Len(log) /\ EndsCompleted
    /\ place # "none" => binding # "none"
    /\ got => /\ place \notin {"running", "saved", "announced"} /\ binding # "none"
              /\ stored = log /\ EndsCompleted

LEMMA LineEnds ==
    ASSUME Written, Ended, NEW e \in Line, log' = Append(log, e), final' = Len(log) + 1,
           place \in {"running", "saved", "announced"}, place' = "announced",
           UNCHANGED <<status, draft, record, binding, got, stored>>
    PROVE  Ended'
<1>1. Len(log') = Len(log) + 1
  BY AppendLine DEF Written, TypeOK, Line
<1>2. /\ status # "completed" /\ draft.status # "completed" /\ record.status # "completed"
      /\ ~got /\ binding # "none"
  BY DEF Ended
<1> QED BY <1>1, <1>2 DEF Ended

LEMMA ThreadKeepsEnd ==
    ASSUME TypeOK, EndThread \/ UNCHANGED record
    PROVE  record'.status = record.status /\ record'.final = record.final
  BY DEF TypeOK, RecordType, EndThread

LEMMA EndedNext == Written /\ Ended /\ [Next]_vars => Ended'
<1> SUFFICES ASSUME Written, Ended, [Next]_vars PROVE Ended'
  OBVIOUS
<1>1. CASE MarkSubmitted \/ SendStart \/ LoseStart \/ SendBatch \/ RequestCancel
  BY <1>1 DEF MarkSubmitted, SendStart, LoseStart, SendBatch, RequestCancel, executor,
    files, manager, Ended, EndsCompleted
<1>2. CASE DeliverStart
  <2>1. CASE MayBind
    BY <1>2, <2>1 DEF DeliverStart, MayBind, Ended, EndsCompleted
  <2>2. CASE ~MayBind
    BY <1>2, <2>2 DEF DeliverStart, Ended, EndsCompleted
  <2> QED BY <2>1, <2>2
<1>3. CASE Emit
  BY <1>3 DEF Emit, manager, executor, Ended, EndsCompleted
<1>4. CASE SaveResult
  BY <1>4 DEF SaveResult, manager, Ended, EndsCompleted
<1>5. CASE AnnounceCompleted
  BY <1>5, LineEnds DEF AnnounceCompleted, EmitTerminal, manager, Line, EndKinds
<1>6. CASE AnnounceError
  BY <1>6, LineEnds DEF AnnounceError, EmitTerminal, manager, Line, EndKinds
<1>7. CASE AbortCompleted
  BY <1>7, LineEnds DEF AbortCompleted, EmitTerminal, manager, Line, EndKinds
<1>8. CASE SetStatus
  <2>1. final = Len(log) /\ Len(log) \in Nat /\ Len(log) > 0 /\ status' = log[final] /\ place' = "closing"
    BY <1>8 DEF SetStatus, Ended, Written, EndInLog, TypeOK
  <2>2. UNCHANGED <<final, draft, record, binding, got, stored, log>>
    BY <1>8 DEF SetStatus, manager, files
  <2>3. place = "announced"
    BY <1>8 DEF SetStatus
  <2> QED BY <2>1, <2>2, <2>3 DEF Ended, EndsCompleted
<1>9. CASE CloseReporter
  BY <1>9 DEF CloseReporter, manager, files, Ended, EndsCompleted
<1>10. CASE BuildRecord
  BY <1>10 DEF BuildRecord, manager, Ended, EndsCompleted
<1>11. CASE WriteRecord
  <2>1. NoRecord.status = "none"
    BY DEF NoRecord
  <2> QED BY <1>11, <2>1 DEF WriteRecord, manager, Ended, EndsCompleted
<1>12. CASE FailRecord
  <2>1. NoRecord.status = "none"
    BY DEF NoRecord
  <2> QED BY <1>12, <2>1 DEF FailRecord, manager, files, Ended, EndsCompleted
<1>13. CASE StopReporter
  BY <1>13, ThreadKeepsEnd DEF StopReporter, manager, executor, Written, Ended, EndsCompleted
<1>14. CASE GiveUpBatch
  <2>1. record'.status = record.status /\ record'.final = record.final
    BY <1>14, ThreadKeepsEnd DEF GiveUpBatch, Written
  <2> QED BY <1>14, <2>1 DEF GiveUpBatch, manager, executor, Ended, EndsCompleted
<1>15. ASSUME NEW b \in net, DeliverBatch(b) PROVE Ended'
  <2>1. got => stored' = stored
    BY <1>15 DEF DeliverBatch, Extended, Ended, Written, Acknowledged, TypeOK
  <2> QED BY <1>15, <2>1 DEF DeliverBatch, executor, Ended, EndsCompleted
<1>16. ASSUME NEW b \in net, LoseBatch(b) PROVE Ended'
  BY <1>16 DEF LoseBatch, manager, executor, files, Ended, EndsCompleted
<1>17. CASE Restart
  <2>1. NoRecord.status = "none"
    BY DEF NoRecord
  <2>2. /\ place' = IF place = "done" THEN "done" ELSE "none"
        /\ status' = "none" /\ draft' = NoRecord
        /\ UNCHANGED <<record, binding, got, stored, log>>
    BY <1>17 DEF Restart, manager, files
  <2> QED BY <2>1, <2>2 DEF Ended, EndsCompleted
<1>18. CASE Collect
  <2>1. Reported.status = "completed" /\ Reported.final <= Len(stored)
    BY <1>18 DEF Collect, Collectable
  <2>2. /\ place \notin {"none", "running", "saved", "announced"}
        /\ Reported.final = Len(log) /\ EndsCompleted
    <3>1. CASE InMemory
      BY <2>1, <3>1 DEF Reported, InMemory, Ended
    <3>2. CASE ~InMemory
      BY <2>1, <3>2 DEF Reported, Ended
    <3> QED BY <3>1, <3>2
  <2>3. stored = log
    <3>1. stored = SubSeq(log, 1, Len(stored)) /\ Len(stored) = Len(log)
      BY <2>1, <2>2, PrefixIsSubSeq DEF Written, TypeOK, Acknowledged, Line
    <3> QED BY <3>1 DEF Written, TypeOK
  <2> QED BY <1>18, <2>2, <2>3 DEF Collect, executor, files, Ended, EndsCompleted
<1>19. CASE Release
  BY <1>19 DEF Release, manager, executor, Ended, EndsCompleted
<1>20. CASE Interrupt \/ Abort
  BY <1>20 DEF Interrupt, Abort, manager, files, Ended, EndsCompleted
<1>21. CASE ConfirmCancel
  BY <1>21 DEF ConfirmCancel, executor, Ended, EndsCompleted
<1>22. CASE UNCHANGED vars
  BY <1>22 DEF vars, manager, executor, files, Ended, EndsCompleted
<1> QED
  BY <1>1, <1>2, <1>3, <1>4, <1>5, <1>6, <1>7, <1>8, <1>9, <1>10, <1>11, <1>12, <1>13,
    <1>14, <1>15, <1>16, <1>17, <1>18, <1>19, <1>20, <1>21, <1>22 DEF Next, Run, Report, Cancel

(* A result is accepted only with its whole log, which ends with the       *)
(* completion that names it.                                               *)
THEOREM ResultCorrect == Spec => []ResultHasItsLog
<1>1. Init => Ended
  BY DEF Init, Ended, NoRecord
<1>2. Written /\ Ended /\ [Next]_vars => Ended'
  BY EndedNext
<1>3. Written /\ Ended => ResultHasItsLog
  BY DEF Written, TypeOK, Ended, EndsCompleted, ResultHasItsLog
<1> QED BY <1>1, <1>2, <1>3, AlwaysWritten, PTL DEF Spec

-----------------------------------------------------------------------------
(***************************************************************************)
(* NativeSession implements SessionContract for its one session.  First    *)
(* the steps of the contract, in terms of what it sees of the session.     *)
(***************************************************************************)
CStep == [Contract!Next]_(Contract!vars)

LEMMA SeenChange ==
    ASSUME NEW a, NEW b
    PROVE  [[s \in {1} |-> a] EXCEPT ![1] = b] = [s \in {1} |-> b]
  OBVIOUS

LEMMA SameSeen ==
    ASSUME UNCHANGED <<AskedSeen, RunSeen, EndSeen, CustodySeen, CancelSeen>>
    PROVE  CStep
  BY DEF CStep, Contract!vars

LEMMA AskSeen ==
    ASSUME AskedSeen = {}, AskedSeen' = {1}, CancelSeen = "none",
           UNCHANGED <<RunSeen, EndSeen, CustodySeen, CancelSeen>>
    PROVE  CStep
<1>1. Contract!Ask(1)
  BY DEF Contract!Ask
<1> QED BY <1>1 DEF CStep, Contract!Next

LEMMA BeginSeen ==
    ASSUME AskedSeen = {1}, RunSeen = "absent", RunSeen' = "running",
           UNCHANGED <<AskedSeen, EndSeen, CustodySeen, CancelSeen>>
    PROVE  CStep
<1>1. Contract!Begin(1)
  BY SeenChange DEF Contract!Begin
<1> QED BY <1>1 DEF CStep, Contract!Next

LEMMA CompleteSeen ==
    ASSUME RunSeen = "running", EndSeen = "none", EndSeen' = "announced", CustodySeen' = "made",
           UNCHANGED <<AskedSeen, RunSeen, CancelSeen>>
    PROVE  CStep
<1>1. Contract!Complete(1)
  BY SeenChange DEF Contract!Complete
<1> QED BY <1>1 DEF CStep, Contract!Next

LEMMA MissSeen ==
    ASSUME RunSeen = "running", EndSeen = "none", EndSeen' \in {"failed", "unclear"},
           UNCHANGED <<AskedSeen, RunSeen, CustodySeen, CancelSeen>>
    PROVE  CStep
<1>1. Contract!Miss(1)
  BY SeenChange DEF Contract!Miss
<1> QED BY <1>1 DEF CStep, Contract!Next

LEMMA SettleSeen ==
    ASSUME EndSeen = "announced", EndSeen' = "completed",
           UNCHANGED <<AskedSeen, RunSeen, CustodySeen, CancelSeen>>
    PROVE  CStep
<1>1. Contract!Settle(1)
  BY SeenChange DEF Contract!Settle
<1> QED BY <1>1 DEF CStep, Contract!Next

LEMMA WithdrawSeen ==
    ASSUME RunSeen = "running", EndSeen = "announced", EndSeen' = "failed", CustodySeen' = "none",
           UNCHANGED <<AskedSeen, RunSeen, CancelSeen>>
    PROVE  CStep
<1>1. Contract!Withdraw(1)
  BY SeenChange DEF Contract!Withdraw
<1> QED BY <1>1 DEF CStep, Contract!Next

LEMMA StopSeen ==
    ASSUME RunSeen = "running", RunSeen' = "over",
           EndSeen' = (IF EndSeen = "announced" THEN "completed" ELSE EndSeen),
           UNCHANGED <<AskedSeen, CustodySeen, CancelSeen>>
    PROVE  CStep
<1>1. Contract!Stop(1)
  BY SeenChange DEF Contract!Stop, Contract!Settled
<1> QED BY <1>1 DEF CStep, Contract!Next

LEMMA AcceptSeen ==
    ASSUME CustodySeen = "made", EndSeen = "completed", CancelSeen = "none",
           CustodySeen' = "accepted", UNCHANGED <<AskedSeen, RunSeen, EndSeen, CancelSeen>>
    PROVE  CStep
<1>1. Contract!Accept(1)
  BY SeenChange DEF Contract!Accept
<1> QED BY <1>1 DEF CStep, Contract!Next

LEMMA ReleaseSeen ==
    ASSUME CustodySeen = "accepted", CustodySeen' = "released",
           UNCHANGED <<AskedSeen, RunSeen, EndSeen, CancelSeen>>
    PROVE  CStep
<1>1. Contract!Release(1)
  BY SeenChange DEF Contract!Release
<1> QED BY <1>1 DEF CStep, Contract!Next

LEMMA CancelsSeen ==
    ASSUME UNCHANGED <<AskedSeen, EndSeen, CustodySeen>>,
           \/ CancelSeen = "none" /\ CancelSeen' = "requested" /\ UNCHANGED RunSeen
           \/ CancelSeen = "requested" /\ CancelSeen' = "confirmed"
              /\ RunSeen # "running" /\ RunSeen' = "over"
    PROVE  CStep
<1>1. Contract!RequestCancel \/ Contract!ConfirmCancel
  BY DEF Contract!RequestCancel, Contract!ConfirmCancel
<1> QED BY <1>1 DEF CStep, Contract!Next

(* What each part that the contract sees depends on.                       *)
LEMMA SeenFrom ==
    /\ start' = start => AskedSeen' = AskedSeen
    /\ job' = job => CancelSeen' = CancelSeen
    /\ UNCHANGED <<log, place>> => EndSeen' = EndSeen
    /\ log' = log /\ place # "announced" /\ place' # "announced" =>
          EndSeen' = EndSeen /\ EndSeen # "announced"
    /\ UNCHANGED <<place, orphan, binding>> => RunSeen' = RunSeen
    /\ UNCHANGED <<got, result, EndSeen>> => CustodySeen' = CustodySeen
  BY DEF AskedSeen, CancelSeen, EndSeen, EndOf, RunSeen, Stopped, CustodySeen

(* Leaving the announcement settles a completion, and nothing else.        *)
LEMMA LeavesAnnounced ==
    ASSUME log' = log, place = "announced", place' # "announced", UNCHANGED <<got, result>>
    PROVE  /\ EndSeen' = (IF EndSeen = "announced" THEN "completed" ELSE EndSeen)
           /\ CustodySeen' = CustodySeen
<1>1. EndSeen' = (IF EndSeen = "announced" THEN "completed" ELSE EndSeen)
  BY DEF EndSeen, EndOf
<1> QED BY <1>1 DEF CustodySeen

(* The end that the contract sees after one more line.                     *)
LEMMA EndAfter ==
    ASSUME log \in Seq(Line), NEW e \in Line, log' = Append(log, e)
    PROVE  EndSeen' = EndOf(e)'
<1>1. Len(log') = Len(log) + 1 /\ log'[Len(log) + 1] = e /\ log' \in Seq(Line) /\ Len(log) \in Nat
  BY AppendLine
<1>2. log' # <<>> /\ log'[Len(log')] = e
  BY <1>1
<1> QED BY <1>2 DEF EndSeen, EndOf

-----------------------------------------------------------------------------
(***************************************************************************)
(* A session that is not bound never ran; what runs has not come to its    *)
(* end, and a run that has not set its status reports none.                *)
(***************************************************************************)
Bound ==
    /\ binding = "none" => place = "none" /\ ~orphan /\ log = <<>>
    /\ orphan => place = "none"
    /\ place \in {"running", "saved"} => EndSeen = "none"
    /\ place \in {"running", "saved", "announced"} => status \in {"running", "aborting"}

LEMMA BoundNext == TypeOK /\ Bound /\ [Next]_vars => Bound'
<1> SUFFICES ASSUME TypeOK, Bound, [Next]_vars PROVE Bound'
  OBVIOUS
<1>1. CASE MarkSubmitted \/ SendStart \/ LoseStart \/ SendBatch \/ StopReporter
             \/ GiveUpBatch \/ Collect \/ Release \/ RequestCancel
  BY <1>1, SeenFrom DEF MarkSubmitted, SendStart, LoseStart, SendBatch, StopReporter, GiveUpBatch,
    Collect, Release, RequestCancel, executor, files, manager, Bound
<1>2. CASE DeliverStart
  BY <1>2, SeenFrom DEF DeliverStart, MayBind, Bound, EndSeen
<1>3. CASE Emit
  <2>1. EndSeen' = "none"
    BY <1>3, EndAfter DEF Emit, TypeOK, Line, EndOf
  <2> QED BY <1>3, <2>1 DEF Emit, manager, executor, Bound
<1>4. CASE SaveResult
  BY <1>4, SeenFrom DEF SaveResult, manager, Bound
<1>5. CASE AnnounceCompleted \/ AnnounceError \/ AbortCompleted
  BY <1>5 DEF AnnounceCompleted, AnnounceError, AbortCompleted, manager, Bound
<1>6. CASE SetStatus \/ CloseReporter \/ BuildRecord \/ WriteRecord \/ FailRecord
  BY <1>6 DEF SetStatus, CloseReporter, BuildRecord, WriteRecord, FailRecord, manager, files, Bound
<1>7. ASSUME NEW b \in net, DeliverBatch(b) \/ LoseBatch(b) PROVE Bound'
  BY <1>7, SeenFrom DEF DeliverBatch, LoseBatch, manager, executor, files, Bound
<1>8. CASE Restart
  BY <1>8 DEF Restart, manager, files, Bound
<1>9. CASE Interrupt \/ Abort
  BY <1>9, SeenFrom DEF Interrupt, Abort, manager, files, Bound, Stopped
<1>10. CASE ConfirmCancel
  BY <1>10, SeenFrom DEF ConfirmCancel, executor, Bound
<1>11. CASE UNCHANGED vars
  BY <1>11, SeenFrom DEF vars, manager, executor, files, Bound
<1> QED
  BY <1>1, <1>2, <1>3, <1>4, <1>5, <1>6, <1>7, <1>8, <1>9, <1>10, <1>11
     DEF Next, Run, Report, Cancel

(* All that the steps of the contract rest on.                             *)
Sound == Written /\ Ended /\ Saved /\ Halted /\ Bound

LEMMA AlwaysSound == Spec => []Sound
<1>1. Init => Ended /\ Saved /\ Halted /\ Bound
  BY DEF Init, Ended, NoRecord, Saved, Halted, Bound
<1>2. Written /\ Ended /\ [Next]_vars => Ended'
  BY EndedNext
<1>3. Written => TypeOK
  BY DEF Written
<1> QED
  BY <1>1, <1>2, <1>3, AlwaysWritten, SavedNext, HaltedNext, BoundNext, PTL DEF Spec, Sound

-----------------------------------------------------------------------------
LEMMA ContractNext == Sound /\ [Next]_vars => CStep
<1> SUFFICES ASSUME Sound, [Next]_vars PROVE CStep
  OBVIOUS
<1> USE SeenFrom
<1>0. TypeOK /\ log \in Seq(Line)
  BY DEF Sound, Written, TypeOK, Line
<1>1. CASE MarkSubmitted
  BY <1>1, AskSeen DEF MarkSubmitted, executor, files, AskedSeen, CancelSeen
<1>2. CASE SendStart \/ LoseStart
  <2>1. AskedSeen' = AskedSeen
    BY <1>2 DEF SendStart, LoseStart, AskedSeen
  <2> QED BY <1>2, <2>1, SameSeen DEF SendStart, LoseStart, executor, files
<1>3. CASE DeliverStart
  <2>1. AskedSeen = {1} /\ AskedSeen' = {1} /\ UNCHANGED <<EndSeen, CustodySeen, CancelSeen>>
    BY <1>3 DEF DeliverStart, AskedSeen, MayBind, Sound, Bound
  <2>2. CASE MayBind
    <3>1. RunSeen = "absent" /\ RunSeen' = "running"
      BY <1>3, <2>2 DEF DeliverStart, MayBind, Sound, Bound, RunSeen, Stopped
    <3> QED BY <2>1, <3>1, BeginSeen
  <2>3. CASE ~MayBind
    BY <1>3, <2>1, <2>3, SameSeen DEF DeliverStart
  <2> QED BY <2>2, <2>3
<1>4. CASE Emit
  <2>1. EndSeen = "none" /\ EndSeen' = "none"
    BY <1>0, <1>4, EndAfter DEF Emit, Sound, Bound, Line, EndOf
  <2> QED BY <1>4, <2>1, SameSeen DEF Emit, manager, executor
<1>5. CASE SaveResult
  <2>1. EndSeen = "none" /\ EndSeen' = "none" /\ ~got /\ ~got'
    BY <1>5 DEF SaveResult, manager, Sound, Bound, Ended
  <2>2. CustodySeen' = CustodySeen
    BY <2>1 DEF CustodySeen
  <2>3. RunSeen' = RunSeen
    BY <1>5 DEF SaveResult, RunSeen, Stopped
  <2> QED BY <1>5, <2>1, <2>2, <2>3, SameSeen DEF SaveResult, manager
<1>6. CASE AnnounceCompleted
  <2>1. EndSeen = "none" /\ EndSeen' = "announced"
    BY <1>0, <1>6, EndAfter DEF AnnounceCompleted, EmitTerminal, Sound, Bound, Line, EndKinds, EndOf
  <2>2. ~got' /\ result'
    BY <1>6 DEF AnnounceCompleted, manager, Sound, Ended, Saved
  <2>3. CustodySeen' = "made"
    BY <2>1, <2>2 DEF CustodySeen
  <2>4. RunSeen = "running" /\ RunSeen' = "running"
    BY <1>6 DEF AnnounceCompleted, RunSeen, Stopped
  <2> QED BY <1>6, <2>1, <2>3, <2>4, CompleteSeen DEF AnnounceCompleted, manager
<1>7. CASE AnnounceError
  <2>1. EndSeen = "none" /\ EndSeen' \in {"failed", "unclear"}
    BY <1>0, <1>7, EndAfter DEF AnnounceError, EmitTerminal, Sound, Bound, Line, EndKinds, EndOf
  <2>2. CustodySeen' = CustodySeen
    BY <1>7, <2>1 DEF AnnounceError, manager, CustodySeen
  <2>3. RunSeen = "running" /\ RunSeen' = "running"
    BY <1>7 DEF AnnounceError, RunSeen, Stopped
  <2> QED BY <1>7, <2>1, <2>2, <2>3, MissSeen DEF AnnounceError, manager
<1>8. CASE AbortCompleted
  <2>1. EndSeen = "announced"
    BY <1>0, <1>8 DEF AbortCompleted, Sound, Written, EndInLog, Ended, EndSeen, EndOf
  <2>2. EndSeen' = "failed"
    BY <1>0, <1>8, EndAfter DEF AbortCompleted, EmitTerminal, Line, EndKinds, EndOf
  <2>3. ~got /\ result
    BY <1>0, <1>8 DEF AbortCompleted, Sound, Written, EndInLog, Ended, Saved
  <2>4. CustodySeen' = "none"
    BY <1>8, <2>1, <2>2, <2>3 DEF AbortCompleted, manager, CustodySeen
  <2>5. RunSeen = "running" /\ RunSeen' = "running"
    BY <1>8 DEF AbortCompleted, RunSeen, Stopped
  <2> QED BY <1>8, <2>1, <2>2, <2>4, <2>5, WithdrawSeen DEF AbortCompleted, manager
<1>9. CASE SetStatus \/ CloseReporter \/ BuildRecord \/ Interrupt
  <2>1. RunSeen' = RunSeen
    BY <1>9 DEF SetStatus, CloseReporter, BuildRecord, Interrupt, files, RunSeen, Stopped
  <2>2. CASE SetStatus
    <3>1. /\ EndSeen' = (IF EndSeen = "announced" THEN "completed" ELSE EndSeen)
          /\ CustodySeen' = CustodySeen
      BY <2>2, LeavesAnnounced DEF SetStatus, manager, files
    <3> QED BY <2>1, <2>2, <3>1, SettleSeen, SameSeen DEF SetStatus, manager
  <2>3. CASE CloseReporter \/ BuildRecord \/ Interrupt
    BY <2>1, <2>3, SameSeen DEF CloseReporter, BuildRecord, Interrupt, manager, files
  <2> QED BY <1>9, <2>2, <2>3
<1>10. CASE WriteRecord \/ FailRecord
  <2>1. RunSeen = "running" /\ RunSeen' = "over"
    BY <1>10 DEF WriteRecord, FailRecord, files, Sound, Bound, RunSeen, Stopped
  <2>2. EndSeen' = EndSeen /\ EndSeen # "announced"
    BY <1>10 DEF WriteRecord, FailRecord, files
  <2> QED BY <1>10, <2>1, <2>2, StopSeen DEF WriteRecord, FailRecord, manager, files
<1>11. CASE SendBatch \/ StopReporter \/ GiveUpBatch
  BY <1>11, SameSeen DEF SendBatch, StopReporter, GiveUpBatch, manager, executor, files
<1>12. ASSUME NEW b \in net, DeliverBatch(b) \/ LoseBatch(b) PROVE CStep
  BY <1>12, SameSeen DEF DeliverBatch, LoseBatch, manager, executor, files
<1>13. CASE Restart
  <2>1. UNCHANGED <<AskedSeen, CancelSeen>> /\ UNCHANGED <<log, got, result>>
    BY <1>13 DEF Restart, manager, files
  <2>0. /\ EndSeen' = (IF EndSeen = "announced" THEN "completed" ELSE EndSeen)
        /\ CustodySeen' = CustodySeen
    <3>1. place' # "announced"
      BY <1>13 DEF Restart
    <3>2. CASE place = "announced"
      BY <2>1, <3>1, <3>2, LeavesAnnounced
    <3>3. CASE place # "announced"
      BY <2>1, <3>1, <3>3
    <3> QED BY <3>2, <3>3
  <2>2. RunSeen' = RunSeen \/ (RunSeen = "running" /\ RunSeen' = "over")
    <3>1. Stopped => Stopped'
      BY <1>13 DEF Restart, Stopped
    <3>2. binding' = binding /\ (binding = "none" => Stopped)
      BY <1>13 DEF Restart, files, Sound, Bound, Stopped
    <3> QED BY <3>1, <3>2 DEF RunSeen
  <2> QED BY <2>0, <2>1, <2>2, SameSeen, SettleSeen, StopSeen
<1>14. CASE Collect
  <2>1. EndSeen = "completed"
    <3>1. got'
      BY <1>14 DEF Collect
    <3>2. Ended'
      BY EndedNext DEF Sound
    <3>3. EndsCompleted
      BY <1>14, <3>1, <3>2 DEF Ended, EndsCompleted, Collect, files
    <3>4. place # "announced"
      BY <1>14 DEF Collect, Collectable, Reported, InMemory, Sound, Bound
    <3> QED BY <1>0, <3>3, <3>4 DEF EndsCompleted, EndSeen, EndOf
  <2>2. result /\ ~got
    BY <1>14 DEF Collect, Collectable, Reported
  <2>3. CustodySeen = "made" /\ CustodySeen' = "accepted"
    BY <1>14, <2>1, <2>2 DEF Collect, files, CustodySeen
  <2>4. CancelSeen = "none"
    BY <1>14 DEF Collect, CancelSeen
  <2> QED BY <1>14, <2>1, <2>3, <2>4, AcceptSeen DEF Collect, executor, files
<1>15. CASE Release
  <2>1. CustodySeen = "accepted" /\ CustodySeen' = "released"
    BY <1>15 DEF Release, Releasable, manager, CustodySeen
  <2> QED BY <1>15, <2>1, ReleaseSeen DEF Release, manager, executor
<1>16. CASE RequestCancel
  <2>1. CancelSeen = "none" /\ CancelSeen' = "requested"
    BY <1>16 DEF RequestCancel, CancelSeen
  <2> QED BY <1>16, <2>1, CancelsSeen DEF RequestCancel, executor, files
<1>17. CASE Abort
  <2>1. UNCHANGED <<AskedSeen, EndSeen, CustodySeen, CancelSeen>>
    BY <1>17 DEF Abort, manager
  <2>3. RunSeen' = "over" => EndSeen # "announced"
    BY <1>17 DEF Abort, RunSeen, Stopped, EndSeen, EndOf
  <2>2. RunSeen' = RunSeen \/ (RunSeen = "running" /\ RunSeen' = "over")
    BY <1>17 DEF Abort, RunSeen
  <2> QED BY <2>1, <2>2, <2>3, SameSeen, StopSeen
<1>18. CASE ConfirmCancel
  <2>1. CancelSeen = "requested" /\ CancelSeen' = "confirmed"
    BY <1>18 DEF ConfirmCancel, CancelSeen
  <2>2. RunSeen # "running" /\ RunSeen' = "over"
    BY <1>18 DEF ConfirmCancel, executor, RunSeen, Stopped
  <2> QED BY <1>18, <2>1, <2>2, CancelsSeen DEF ConfirmCancel, executor
<1>19. CASE UNCHANGED vars
  BY <1>19, SameSeen DEF vars, manager, executor, files
<1> QED
  BY <1>1, <1>2, <1>3, <1>4, <1>5, <1>6, <1>7, <1>8, <1>9, <1>10, <1>11, <1>12, <1>13,
    <1>14, <1>15, <1>16, <1>17, <1>18, <1>19 DEF Next, Run, Report, Cancel

LEMMA ContractInit == Init => Contract!Init
<1> SUFFICES ASSUME Init PROVE Contract!Init
  OBVIOUS
<1>1. RunSeen = "absent" /\ EndSeen = "none" /\ CustodySeen = "none"
  BY DEF Init, RunSeen, Stopped, EndSeen, CustodySeen
<1>2. AskedSeen = {} /\ CancelSeen = "none"
  BY DEF Init, AskedSeen, CancelSeen
<1> QED BY <1>1, <1>2 DEF Contract!Init

(* One session keeps the contract between manager and executor: behind     *)
(* batches, restarts, lost answers and late requests it begins at most     *)
(* once and only when asked for, its result exists when the end says so    *)
(* and is not given up before the manager has it, a completion is taken    *)
(* back only while it is announced and not settled, by an abort of         *)
(* whatever origin, and a confirmed cancellation leaves nothing running.   *)
THEOREM SessionKeepsContract == Spec => ContractSpec
<1>1. Init => Contract!Init
  BY ContractInit
<1>2. Sound /\ [Next]_vars => [Contract!Next]_(Contract!vars)
  BY ContractNext DEF CStep
<1> QED BY <1>1, <1>2, AlwaysSound, PTL DEF Spec, ContractSpec, Contract!Spec

-----------------------------------------------------------------------------
(***************************************************************************)
(* What the contract promises (SessionContract_proofs) therefore holds of  *)
(* this side of it.                                                        *)
(***************************************************************************)
Promise == INSTANCE SessionContract_proofs WITH
    Sessions <- {1},
    asked <- AskedSeen,
    run <- [s \in {1} |-> RunSeen],
    end <- [s \in {1} |-> EndSeen],
    custody <- [s \in {1} |-> CustodySeen],
    cancel <- CancelSeen

LEMMA ContractPromised == Spec => Promise!Spec
<1>1. Contract!Init => Promise!Init
  BY DEF Contract!Init, Promise!Init
<1>2. [Contract!Next]_(Contract!vars) => [Promise!Next]_(Promise!vars)
  BY DEF Contract!Next, Promise!Next, Contract!Ask, Promise!Ask, Contract!Begin, Promise!Begin,
         Contract!Complete, Promise!Complete, Contract!Miss, Promise!Miss, Contract!Withdraw,
         Promise!Withdraw, Contract!Settle, Promise!Settle, Contract!Settled, Promise!Settled,
         Contract!Stop, Promise!Stop, Contract!Accept, Promise!Accept,
         Contract!Release, Promise!Release, Contract!RequestCancel, Promise!RequestCancel,
         Contract!ConfirmCancel, Promise!ConfirmCancel, Contract!Known, Promise!Known,
         Contract!Reported, Promise!Reported,
         Contract!vars, Promise!vars
<1>3. ContractSpec => Promise!Spec
  BY <1>1, <1>2, PTL DEF ContractSpec, Contract!Spec, Promise!Spec
<1> QED BY <1>3, SessionKeepsContract, PTL

(* Once the manager has a result, no cancellation, restart or late report  *)
(* makes the log of its session end otherwise; a session that is over does *)
(* not run again; a settled end is never revised, by an abort of the       *)
(* watch thread, the manager's deadline or a cancellation, and an          *)
(* announced one is settled or failed when the session is over.            *)
THEOREM EndsAndResultsStay == Spec => Promise!AcceptedStays /\ Promise!EndsAreFinal
  BY ContractPromised, Promise!CustodyIsFinal, Promise!KnownEndsAreFinal, PTL
=============================================================================
