-------------------------- MODULE BatchPlan_proofs --------------------------
(***************************************************************************)
(* Proofs about the batch plan of one review job, for every plan, every    *)
(* set of refutation groups and earlier issues, and every bound on         *)
(* attempts and faults.                                                    *)
(***************************************************************************)
EXTENDS BatchPlan, FiniteSetTheorems, WellFoundedInduction, TLAPS

Unit == [kind : {"primary", "association", "refutation"}, size : Nat,
         depth : Nat, state : UnitStates]
PlannedUnit == [kind : {"primary", "association"}, size : Nat]
Attempt == [unit : Nat, state : AttemptStates, raw : BOOLEAN,
            exec : {"absent", "running", "announced", "ended", "gone"}, end : {"none"} \cup Ended,
            outcome : {"none", "good", "reference", "length", "other"}, calls : Nat,
            net : {"none", "fresh", "stale"}, token : {"none", "fresh", "stale"},
            kept : BOOLEAN, released : BOOLEAN]
Plan == [saved : BOOLEAN, max : Nat, base : Nat, refuted : BOOLEAN,
         authorized : Nat, approved : BOOLEAN]
SessionStatus == {"none", "prepared", "submitted", "running"} \cup Ended
Session == [status : SessionStatus, submitted : BOOLEAN, expired : BOOLEAN,
            told : {"none", "running"} \cup Ended]

-----------------------------------------------------------------------------
(***************************************************************************)
(* The inductive invariant.  Data is about the units and attempts alone:   *)
(* each attempt is consistent in itself, all but the last are settled, an  *)
(* unsettled one is for the first open unit, and a unit is done exactly    *)
(* when the last of its attempts is; some unit is open unless the last     *)
(* attempt is done.  The rest ties the job's columns and the worker's      *)
(* place to them.                                                          *)
(***************************************************************************)
Settled == {"failed", "done"}
Unsettled == Cur > 0 /\ att[Cur].state \notin Settled
FirstOpen(u) == u \in Open /\ \A v \in Open : u <= v

Good(a) ==
    /\ a.calls <= 1
    /\ a.end # "none" => a.exec \in {"announced", "ended", "gone"}
    /\ a.exec \in {"announced", "ended"} => a.end # "none"
    /\ a.raw => a.end = "completed" /\ a.exec # "announced"
    /\ a.released => a.raw
    /\ a.state = "done" => a.raw /\ a.outcome = "good"
    /\ a.state \in Settled => a.end \in Known

LastOf(s, u) == att[s].unit = u /\ \A t \in DOMAIN att : att[t].unit = u => t <= s

AttemptsOK ==
    /\ att \in Seq(Attempt)
    /\ \A s \in DOMAIN att : Good(att[s]) /\ att[s].unit \in DOMAIN units
PastOK == \A s \in DOMAIN att : s # Cur => att[s].state \in Settled
FirstOK == Unsettled => FirstOpen(att[Cur].unit)
DoneOK ==
    /\ \A s \in DOMAIN att : att[s].state = "done" => units[att[s].unit].state = "done"
    /\ \A u \in DOMAIN units : units[u].state = "done" =>
          \E s \in DOMAIN att : LastOf(s, u) /\ att[s].state = "done"
LastOK == Cur > 0 /\ att[Cur].state # "done" => Open # {}
Data == units \in Seq(Unit) /\ AttemptsOK /\ PastOK /\ FirstOK /\ DoneOK /\ LastOK

FlagsOK ==
    /\ status \in {"queued", "running", "published"} \cup Waiting
    /\ pc \in Places
    /\ plan \in Plan /\ session \in Session /\ cap \in BOOLEAN
    /\ checks \in [Checks -> {"queued", "started", "done", "failed"}]
    /\ calls \in Nat /\ faults \in 0..MaxFaults

(* A final status of the session column is what the session came to, or    *)
(* the completion it announced before it was aborted.                      *)
ReportedEnd(reported) ==
    reported \in Ended =>
        /\ Cur > 0
        /\ \/ att[Cur].end = reported
           \/ reported = "completed" /\ att[Cur].end = "aborted"
SessionOK == ReportedEnd(session.status)

SessionPlaces == {"execute", "submit", "post", "authorize", "poll", "inspect",
                  "receive", "ack", "parse"}
PlaceOK ==
    /\ pc \in SessionPlaces => Unsettled
    /\ pc \in {"receive", "ack", "parse"} => att[Cur].end = "completed" /\ att[Cur].exec # "announced"
    /\ pc \in {"ack", "parse"} => att[Cur].raw
    /\ pc \in {"history", "checking", "checked"} => plan.refuted
PlanOK == ~plan.saved => units = <<>> /\ att = <<>>
PublishedOK == status = "published" => pc = "idle" /\ plan.refuted /\ Complete

IInv == FlagsOK /\ Data /\ SessionOK /\ PlaceOK /\ PlanOK /\ PublishedOK

LEMMA TypeParts == FlagsOK /\ units \in Seq(Unit) /\ att \in Seq(Attempt) <=> TypeOK
  BY DEF TypeOK, FlagsOK, Unit, Attempt, Plan, Session, SessionStatus

LEMMA Constants ==
    /\ \A u \in InitialUnits : u \in Seq(PlannedUnit)
    /\ \A g \in Groupings : g \in Seq(Nat)
    /\ IsFiniteSet(Checks) /\ Cardinality(Checks) \in Nat
    /\ AutoCalls \in Nat /\ MaxSessions \in Nat /\ MaxFaults \in Nat
  BY PlanConstantsOK, FS_CardinalityType DEF PlanConstantsOK, PlannedUnit

-----------------------------------------------------------------------------
(***************************************************************************)
(* First and last: a set of numbers has a least one, a bounded one a       *)
(* greatest.  They make Next1 and Latest what their names say.             *)
(***************************************************************************)
Smaller == {p \in Nat \X Nat : p[1] < p[2]}

LEMMA MinExists ==
    ASSUME NEW S \in SUBSET Nat, S # {}
    PROVE  \E m \in S : \A k \in S : m <= k
<1>1. IsWellFoundedOn(Smaller, Nat)
  BY NatLessThanWellFounded DEF OpToRel, Smaller
<1>2. PICK m \in S : \A k \in S : ~ (<<k, m>> \in Smaller)
  <2>1. \E m \in S : \A k \in S : ~ (<<k, m>> \in Smaller)
    BY <1>1, WFMin
  <2> QED BY <2>1
<1>3. ASSUME NEW k \in S PROVE m <= k
  <2>1. k \in Nat /\ m \in Nat /\ ~(<<k, m>> \in Smaller)
    BY <1>2
  <2>2. ~(k < m)
    BY <2>1 DEF Smaller
  <2> QED BY <2>1, <2>2
<1> QED BY <1>3

LEMMA MaxExists ==
    ASSUME NEW n \in Nat, NEW S \in SUBSET (1..n), S # {}
    PROVE  \E m \in S : \A k \in S : k <= m
<1> DEFINE T == {i \in 0..n : n - i \in S}
<1>1. T # {}
  <2>1. PICK s \in S : TRUE
    OBVIOUS
  <2>2. n - s \in 0..n /\ n - (n - s) = s
    BY <2>1
  <2> QED BY <2>1, <2>2
<1>2. T \in SUBSET Nat
  OBVIOUS
<1>3. PICK i \in T : \A j \in T : i <= j
  <2> HIDE DEF T
  <2> QED BY <1>1, <1>2, MinExists
<1>4. ASSUME NEW k \in S PROVE k <= n - i
  <2>1. n - k \in 0..n /\ n - (n - k) = k
    OBVIOUS
  <2>2. n - k \in T
    BY <2>1
  <2>3. i <= n - k /\ i \in Nat
    BY <1>3, <2>2
  <2> QED BY <2>3
<1> QED BY <1>3, <1>4

LEMMA FirstOpenUnit ==
    ASSUME units \in Seq(Unit)
    PROVE  /\ Open # {} => FirstOpen(Next1)
           /\ \A u : FirstOpen(u) => Next1 = u
<1>1. Open \in SUBSET Nat
  BY DEF Open
<1>2. ASSUME Open # {} PROVE \E u \in Open : \A v \in Open : u <= v
  BY <1>1, <1>2, MinExists
<1>3. ASSUME NEW u, FirstOpen(u), NEW w \in Open, \A v \in Open : w <= v PROVE w = u
  BY <1>1, <1>3 DEF FirstOpen
<1>4. ASSUME NEW u, FirstOpen(u) PROVE Next1 = u
  <2>1. u \in Open /\ \A v \in Open : u <= v
    BY <1>4 DEF FirstOpen
  <2>2. Next1 \in Open /\ \A v \in Open : Next1 <= v
    BY <2>1 DEF Next1
  <2> QED BY <2>2, <1>3, <1>4
<1>5. ASSUME Open # {} PROVE FirstOpen(Next1)
  <2>1. PICK u \in Open : \A v \in Open : u <= v
    BY <1>2, <1>5
  <2>2. Next1 \in Open /\ \A v \in Open : Next1 <= v
    BY <2>1 DEF Next1
  <2> QED BY <2>2 DEF FirstOpen
<1> QED BY <1>4, <1>5

LEMMA LatestAttempt ==
    ASSUME att \in Seq(Attempt), NEW u
    PROVE  /\ Latest(u) \in {0} \cup DOMAIN att
           /\ Latest(u) # 0 => LastOf(Latest(u), u)
           /\ Latest(u) = 0 => \A s \in DOMAIN att : att[s].unit # u
           /\ \A s \in DOMAIN att : LastOf(s, u) => Latest(u) = s
<1> DEFINE S == {s \in DOMAIN att : att[s].unit = u}
<1>0. Latest(u) = IF S = {} THEN 0 ELSE CHOOSE s \in S : \A t \in S : t <= s
  BY DEF Latest
<1>1. S \in SUBSET (1..Len(att)) /\ Len(att) \in Nat /\ DOMAIN att = 1..Len(att)
  OBVIOUS
<1>2. CASE S = {}
  BY <1>0, <1>1, <1>2 DEF LastOf
<1>3. CASE S # {}
  <2>1. \E s \in S : \A t \in S : t <= s
    <3> HIDE DEF S
    <3> QED BY <1>1, <1>3, MaxExists
  <2>2. Latest(u) \in S /\ \A t \in S : t <= Latest(u)
    <3> HIDE DEF S
    <3> QED BY <1>0, <1>3, <2>1
  <2>3. LastOf(Latest(u), u) /\ Latest(u) # 0
    BY <1>1, <2>2 DEF LastOf
  <2>4. ASSUME NEW s \in DOMAIN att, LastOf(s, u) PROVE Latest(u) = s
    BY <1>1, <2>2, <2>4 DEF LastOf
  <2> QED BY <2>2, <2>3, <2>4
<1> QED BY <1>2, <1>3

-----------------------------------------------------------------------------
(***************************************************************************)
(* What each kind of step makes of the units and attempts.                 *)
(***************************************************************************)
(* Attempts keep their unit and, unless the last one stays unsettled,      *)
(* their state.                                                            *)
Similar(a, b) ==
    /\ b.unit = a.unit /\ Good(b)
    /\ b.state = a.state \/ (a.state \notin Settled /\ b.state \notin Settled)

LEMMA AttemptsSimilar ==
    ASSUME Data, units' = units, att' \in Seq(Attempt), Len(att') = Len(att),
           \A s \in DOMAIN att : Similar(att[s], att'[s])
    PROVE  Data' /\ (Unsettled' <=> Unsettled)
<1>1. /\ DOMAIN att = 1..Len(att) /\ DOMAIN att' = DOMAIN att /\ Cur' = Cur
      /\ Cur > 0 => Cur \in DOMAIN att
  BY DEF Data, AttemptsOK, Cur
<1>2. \A s \in DOMAIN att : /\ att'[s].unit = att[s].unit /\ Good(att'[s])
                            /\ att'[s].state \in Settled <=> att[s].state \in Settled
                            /\ att'[s].state = "done" <=> att[s].state = "done"
  BY DEF Similar, Settled
<1>3. AttemptsOK'
  BY <1>1, <1>2 DEF Data, AttemptsOK
<1>4. PastOK'
  BY <1>1, <1>2 DEF Data, PastOK
<1>5. Unsettled' <=> Unsettled
  BY <1>1, <1>2 DEF Unsettled
<1>6. FirstOK'
  BY <1>1, <1>2, <1>5 DEF Data, FirstOK, Unsettled, FirstOpen, Open
<1>7. \A u : \A s \in DOMAIN att : LastOf(s, u)' <=> LastOf(s, u)
  BY <1>1, <1>2 DEF LastOf
<1>8. DoneOK'
  BY <1>1, <1>2, <1>7 DEF Data, DoneOK
<1>9. LastOK'
  BY <1>1, <1>2 DEF Data, LastOK, Open
<1> QED BY <1>3, <1>4, <1>5, <1>6, <1>8, <1>9 DEF Data

LEMMA OneEdited ==
    ASSUME Data, units' = units, NEW s \in DOMAIN att, NEW a \in Attempt,
           Edit(s, a), Similar(att[s], a)
    PROVE  /\ Data' /\ (Unsettled' <=> Unsettled)
           /\ Len(att') = Len(att) /\ att'[s] = a
           /\ \A t \in DOMAIN att : t # s => att'[t] = att[t]
<1>1. att \in Seq(Attempt) /\ \A t \in DOMAIN att : Similar(att[t], att[t])
  BY DEF Data, AttemptsOK, Similar
<1>2. /\ att' \in Seq(Attempt) /\ Len(att') = Len(att) /\ att'[s] = a
      /\ \A t \in DOMAIN att : t # s => att'[t] = att[t]
  BY <1>1 DEF Edit
<1>3. \A t \in DOMAIN att : Similar(att[t], att'[t])
  BY <1>1, <1>2
<1> QED BY <1>2, <1>3, AttemptsSimilar

LEMMA UnitMarked ==
    ASSUME units \in Seq(Unit), NEW v \in DOMAIN units, NEW to \in UnitStates,
           units' = [units EXCEPT ![v].state = to]
    PROVE  /\ units' \in Seq(Unit) /\ DOMAIN units' = DOMAIN units
           /\ units'[v].state = to
           /\ \A u \in DOMAIN units : u # v => units'[u] = units[u]
<1> DEFINE r == [units[v] EXCEPT !.state = to]
<1>0. units[v] \in Unit
  OBVIOUS
<1>1. r \in Unit /\ r.state = to
  BY <1>0 DEF Unit
<1>2. units' = [units EXCEPT ![v] = r]
  OBVIOUS
<1> HIDE DEF r
<1> QED BY <1>1, <1>2

(* The unsettled attempt gets a new state, and its unit the one that goes  *)
(* with it.                                                                *)
LEMMA CurrentSettled ==
    ASSUME Data, Unsettled, NEW a \in Attempt, NEW to \in UnitStates,
           att' = [att EXCEPT ![Cur] = a],
           units' = [units EXCEPT ![att[Cur].unit].state = to],
           a.unit = att[Cur].unit, Good(a),
           <<a.state, to>> \in {<<"unknown", "unknown">>, <<"failed", "failed">>,
                                <<"failed", "pending">>, <<"done", "done">>}
    PROVE  Data'
<1> DEFINE u0 == att[Cur].unit
<1>1. /\ att \in Seq(Attempt) /\ units \in Seq(Unit)
      /\ Cur \in DOMAIN att /\ Cur = Len(att) /\ DOMAIN att = 1..Len(att)
      /\ \A s \in DOMAIN att : s <= Cur
      /\ u0 \in DOMAIN units
  BY DEF Data, AttemptsOK, Unsettled, Cur
<1>2. /\ att' \in Seq(Attempt) /\ Len(att') = Len(att) /\ att'[Cur] = a
      /\ \A t \in DOMAIN att : t # Cur => att'[t] = att[t]
      /\ DOMAIN att' = DOMAIN att /\ Cur' = Cur
  BY <1>1 DEF Cur
<1>3. /\ units' \in Seq(Unit) /\ DOMAIN units' = DOMAIN units
      /\ units'[u0].state = to
      /\ \A u \in DOMAIN units : u # u0 => units'[u] = units[u]
  BY <1>1, UnitMarked
<1>4. FirstOpen(u0) /\ u0 \in Open /\ units[u0].state # "done"
  BY DEF Data, FirstOK, FirstOpen, Open
<1>5. AttemptsOK'
  BY <1>1, <1>2, <1>3 DEF Data, AttemptsOK
<1>6. PastOK'
  BY <1>1, <1>2 DEF Data, PastOK
<1>7. FirstOK'
  <2> SUFFICES ASSUME Unsettled' PROVE FirstOpen(u0)'
    BY <1>1, <1>2 DEF FirstOK
  <2>1. to = "unknown"
    BY <1>2 DEF Unsettled, Settled
  <2>2. Open' = Open
    BY <2>1, <1>3, <1>4 DEF Open
  <2> QED BY <2>2, <1>1, <1>2, <1>4 DEF FirstOpen
<1>8. \A u : \A s \in DOMAIN att : LastOf(s, u)' <=> LastOf(s, u)
  BY <1>1, <1>2 DEF LastOf
<1>9. DoneOK'
  <2>1. ASSUME NEW s \in DOMAIN att', att'[s].state = "done"
        PROVE  units'[att'[s].unit].state = "done"
    <3>1. CASE s = Cur
      BY <3>1, <2>1, <1>1, <1>2, <1>3
    <3>2. CASE s # Cur
      <4>1. att'[s] = att[s] /\ att[s].unit \in DOMAIN units /\ units[att[s].unit].state = "done"
        BY <3>2, <2>1, <1>2 DEF Data, DoneOK, AttemptsOK
      <4> QED BY <4>1, <1>3, <1>4
    <3> QED BY <3>1, <3>2
  <2>2. ASSUME NEW u \in DOMAIN units', units'[u].state = "done"
        PROVE  \E s \in DOMAIN att' : LastOf(s, u)' /\ att'[s].state = "done"
    <3>1. CASE u = u0
      <4>1. LastOf(Cur, u) /\ a.state = "done"
        BY <3>1, <2>2, <1>1, <1>3 DEF LastOf
      <4> QED BY <4>1, <1>1, <1>2, <1>8
    <3>2. CASE u # u0
      <4>1. PICK s \in DOMAIN att : LastOf(s, u) /\ att[s].state = "done"
        BY <3>2, <2>2, <1>3 DEF Data, DoneOK
      <4>2. s # Cur
        BY <4>1, <3>2 DEF LastOf
      <4> QED BY <4>1, <4>2, <1>2, <1>8
    <3> QED BY <3>1, <3>2
  <2> QED BY <2>1, <2>2 DEF DoneOK
<1>10. LastOK'
  <2> SUFFICES ASSUME a.state # "done" PROVE Open' # {}
    BY <1>1, <1>2 DEF LastOK
  <2>1. to \in {"unknown", "failed", "pending"}
    OBVIOUS
  <2>2. u0 \in Open'
    BY <2>1, <1>1, <1>3 DEF Open
  <2> QED BY <2>2
<1> QED BY <1>3, <1>5, <1>6, <1>7, <1>9, <1>10 DEF Data

(* Units are added, replaced or opened again; none becomes done, some stay *)
(* open, and while an attempt is unsettled the open ones stay the same.    *)
LEMMA UnitsChanged ==
    ASSUME Data, att' = att, units' \in Seq(Unit), DOMAIN units \subseteq DOMAIN units',
           \A u \in DOMAIN units : units'[u].state = "done" <=> units[u].state = "done",
           \A u \in DOMAIN units' : u \notin DOMAIN units => units'[u].state # "done",
           Unsettled => Open' = Open, Open # {} => Open' # {}
    PROVE  Data'
<1>1. AttemptsOK'
  BY DEF Data, AttemptsOK
<1>2. PastOK'
  BY DEF Data, PastOK, Cur
<1>3. FirstOK'
  BY DEF Data, FirstOK, Unsettled, Cur, FirstOpen
<1>4. DoneOK'
  <2>1. \A s, u : LastOf(s, u)' <=> LastOf(s, u)
    BY DEF LastOf
  <2> QED BY <2>1 DEF Data, DoneOK, AttemptsOK
<1>5. LastOK'
  BY DEF Data, LastOK, Cur
<1> QED BY <1>1, <1>2, <1>3, <1>4, <1>5 DEF Data

(* A new attempt at the first open unit, once the ones before are settled. *)
NewRow(u) == [unit |-> u, state |-> "prepared", raw |-> FALSE, exec |-> "absent",
              end |-> "none", outcome |-> "none", calls |-> 0, net |-> "none", token |-> "none",
              kept |-> FALSE, released |-> FALSE]

LEMMA AttemptAdded ==
    ASSUME Data, ~Unsettled, NEW u, FirstOpen(u), att' = Append(att, NewRow(u)),
           units' = [units EXCEPT ![u].state = "running"]
    PROVE  Data' /\ Unsettled' /\ Cur' = Cur + 1 /\ att'[Cur'] = NewRow(u)
<1>1. /\ att \in Seq(Attempt) /\ units \in Seq(Unit) /\ Cur = Len(att)
      /\ DOMAIN att = 1..Len(att) /\ u \in DOMAIN units /\ u \in Nat /\ u \in Open
  BY DEF Data, AttemptsOK, Cur, FirstOpen, Open
<1>2. NewRow(u) \in Attempt /\ Good(NewRow(u))
  BY <1>1 DEF NewRow, Attempt, Good, Settled, AttemptStates, Ended
<1>3. /\ att' \in Seq(Attempt) /\ Len(att') = Len(att) + 1 /\ att'[Len(att) + 1] = NewRow(u)
      /\ \A s \in DOMAIN att : att'[s] = att[s]
      /\ DOMAIN att' = 1..Len(att) + 1 /\ Cur' = Cur + 1
  BY <1>1, <1>2 DEF Cur
<1>4. /\ units' \in Seq(Unit) /\ DOMAIN units' = DOMAIN units /\ units'[u].state = "running"
      /\ \A v \in DOMAIN units : v # u => units'[v] = units[v]
      /\ units[u].state # "done"
  <2>1. "running" \in UnitStates /\ units[u].state # "done"
    BY <1>1 DEF UnitStates, Open
  <2> QED BY <2>1, <1>1, UnitMarked
<1>5. AttemptsOK'
  <2>1. NewRow(u).unit = u
    BY DEF NewRow
  <2>2. ASSUME NEW s \in DOMAIN att' PROVE Good(att'[s]) /\ att'[s].unit \in DOMAIN units
    <3>1. CASE s \in DOMAIN att
      BY <3>1, <1>3 DEF Data, AttemptsOK
    <3>2. CASE s = Len(att) + 1
      BY <3>2, <2>1, <1>1, <1>2, <1>3
    <3> QED BY <3>1, <3>2, <1>1, <1>3
  <2> QED BY <2>2, <1>3, <1>4 DEF AttemptsOK
<1>6. PastOK'
  <2>1. \A s \in DOMAIN att : att[s].state \in Settled
    BY <1>1 DEF Data, PastOK, Unsettled
  <2> QED BY <2>1, <1>1, <1>3 DEF PastOK
<1>7. Unsettled' /\ att'[Cur'] = NewRow(u)
  BY <1>1, <1>3 DEF Unsettled, Settled, NewRow
<1>8. FirstOK'
  <2>1. Open' = Open
    BY <1>1, <1>4 DEF Open
  <2>2. att'[Cur'].unit = u
    <3>1. NewRow(u).unit = u
      BY DEF NewRow
    <3> QED BY <3>1, <1>7
  <2> QED BY <2>1, <2>2 DEF FirstOK, FirstOpen
<1>9. DoneOK'
  <2>1. ASSUME NEW s \in DOMAIN att', att'[s].state = "done"
        PROVE  units'[att'[s].unit].state = "done"
    <3>1. s \in DOMAIN att /\ att'[s] = att[s]
      BY <2>1, <1>1, <1>3 DEF NewRow
    <3>2. att[s].unit \in DOMAIN units /\ units[att[s].unit].state = "done"
      BY <3>1, <2>1 DEF Data, DoneOK, AttemptsOK
    <3> QED BY <3>1, <3>2, <1>4
  <2>2. ASSUME NEW v \in DOMAIN units', units'[v].state = "done"
        PROVE  \E s \in DOMAIN att' : LastOf(s, v)' /\ att'[s].state = "done"
    <3>1. v # u /\ units[v].state = "done" /\ v \in DOMAIN units
      BY <2>2, <1>4
    <3>2. PICK s \in DOMAIN att : LastOf(s, v) /\ att[s].state = "done"
      BY <3>1 DEF Data, DoneOK
    <3>3. LastOf(s, v)'
      BY <3>1, <3>2, <1>1, <1>3 DEF LastOf, NewRow
    <3> QED BY <3>2, <3>3, <1>1, <1>3
  <2> QED BY <2>1, <2>2 DEF DoneOK
<1>10. LastOK'
  <2>1. u \in Open'
    BY <1>1, <1>4 DEF Open
  <2> QED BY <2>1 DEF LastOK
<1> QED BY <1>3, <1>4, <1>5, <1>6, <1>7, <1>8, <1>9, <1>10 DEF Data

-----------------------------------------------------------------------------
(***************************************************************************)
(* The steps that edit one attempt: the worker's own, the executor's and   *)
(* the broker's.  None takes back a settled end or a stored result, and an *)
(* announced end is only replaced by another known one.                    *)
(***************************************************************************)
Later(a, b) ==
    /\ Similar(a, b) /\ (a.raw => b.raw)
    /\ a.end # "none" => \/ b.end = a.end
                         \/ a.exec = "announced" /\ a.end = "completed" /\ b.end = "aborted"
    /\ a.exec \in {"ended", "gone"} => b.exec \in {"ended", "gone"}

LEMMA LaterAttempt ==
    ASSUME NEW a \in Attempt, Good(a),
           NEW net \in {"none", "fresh", "stale"}, NEW token \in {"none", "fresh", "stale"}
    PROVE  /\ [a EXCEPT !.net = net] \in Attempt
           /\ Later(a, [a EXCEPT !.net = net])
           /\ [a EXCEPT !.token = token] \in Attempt
           /\ Later(a, [a EXCEPT !.token = token])
           /\ [a EXCEPT !.net = net, !.token = token] \in Attempt
           /\ Later(a, [a EXCEPT !.net = net, !.token = token])
           /\ [a EXCEPT !.kept = TRUE] \in Attempt
           /\ Later(a, [a EXCEPT !.kept = TRUE])
<1>1. /\ [a EXCEPT !.net = net] \in Attempt
      /\ [a EXCEPT !.token = token] \in Attempt
  BY DEF Attempt
<1>2. /\ [a EXCEPT !.net = net, !.token = token] \in Attempt
      /\ [a EXCEPT !.kept = TRUE] \in Attempt
  BY DEF Attempt
<1>3. Later(a, [a EXCEPT !.net = net])
  BY DEF Later, Similar, Good, Attempt
<1>4. Later(a, [a EXCEPT !.token = token])
  BY DEF Later, Similar, Good, Attempt
<1>5. Later(a, [a EXCEPT !.net = net, !.token = token])
  BY DEF Later, Similar, Good, Attempt
<1>6. Later(a, [a EXCEPT !.kept = TRUE])
  BY DEF Later, Similar, Good, Attempt
<1> QED BY <1>1, <1>2, <1>3, <1>4, <1>5, <1>6

(* The session starts, ends or is lost; it calls the model.                *)
LEMMA LaterSession ==
    ASSUME NEW a \in Attempt, Good(a),
           NEW token \in {"none", "fresh", "stale"}, NEW end \in Ended \ {"aborted"},
           NEW outcome \in {"none", "good", "reference", "length", "other"}
    PROVE  /\ a.exec = "absent" =>
                /\ [a EXCEPT !.net = "none", !.exec = "running", !.token = token] \in Attempt
                /\ Later(a, [a EXCEPT !.net = "none", !.exec = "running", !.token = token])
           /\ a.exec = "running" =>
                /\ [a EXCEPT !.exec = "announced", !.token = "none", !.end = end, !.outcome = outcome] \in Attempt
                /\ Later(a, [a EXCEPT !.exec = "announced", !.token = "none", !.end = end, !.outcome = outcome])
           /\ a.exec = "announced" /\ a.end = "completed" =>
                /\ [a EXCEPT !.end = "aborted", !.outcome = outcome] \in Attempt
                /\ Later(a, [a EXCEPT !.end = "aborted", !.outcome = outcome])
           /\ a.exec = "announced" =>
                /\ [a EXCEPT !.exec = "ended"] \in Attempt
                /\ Later(a, [a EXCEPT !.exec = "ended"])
           /\ a.exec # "absent" =>
                /\ [a EXCEPT !.exec = "gone", !.token = "none"] \in Attempt
                /\ Later(a, [a EXCEPT !.exec = "gone", !.token = "none"])
           /\ a.calls = 0 =>
                /\ [a EXCEPT !.calls = @ + 1] \in Attempt
                /\ Later(a, [a EXCEPT !.calls = @ + 1])
<1>1. /\ a.exec \in {"absent", "running"} => a.end = "none"
      /\ a.end = "none" => ~a.raw /\ a.state \notin Settled
  BY DEF Good, Known, Attempt, Settled
<1>2. ASSUME a.exec = "absent"
      PROVE  /\ [a EXCEPT !.net = "none", !.exec = "running", !.token = token] \in Attempt
             /\ Later(a, [a EXCEPT !.net = "none", !.exec = "running", !.token = token])
  <2>1. [a EXCEPT !.net = "none", !.exec = "running", !.token = token] \in Attempt
    BY DEF Attempt
  <2>2. Later(a, [a EXCEPT !.net = "none", !.exec = "running", !.token = token])
    BY <1>1, <1>2 DEF Later, Similar, Good, Attempt
  <2> QED BY <2>1, <2>2
<1>3. ASSUME a.exec = "running"
      PROVE  /\ [a EXCEPT !.exec = "announced", !.token = "none", !.end = end, !.outcome = outcome] \in Attempt
             /\ Later(a, [a EXCEPT !.exec = "announced", !.token = "none", !.end = end, !.outcome = outcome])
  <2>1. [a EXCEPT !.exec = "announced", !.token = "none", !.end = end, !.outcome = outcome] \in Attempt
    BY DEF Attempt
  <2>2. Later(a, [a EXCEPT !.exec = "announced", !.token = "none", !.end = end, !.outcome = outcome])
    BY <1>1, <1>3 DEF Later, Similar, Good, Attempt, Ended, Settled
  <2> QED BY <2>1, <2>2
<1>4. ASSUME a.exec # "absent"
      PROVE  /\ [a EXCEPT !.exec = "gone", !.token = "none"] \in Attempt
             /\ Later(a, [a EXCEPT !.exec = "gone", !.token = "none"])
  <2>1. [a EXCEPT !.exec = "gone", !.token = "none"] \in Attempt
    BY DEF Attempt
  <2>2. Later(a, [a EXCEPT !.exec = "gone", !.token = "none"])
    BY DEF Later, Similar, Good, Attempt
  <2> QED BY <2>1, <2>2
<1>6. ASSUME a.exec = "announced", a.end = "completed"
      PROVE  /\ [a EXCEPT !.end = "aborted", !.outcome = outcome] \in Attempt
             /\ Later(a, [a EXCEPT !.end = "aborted", !.outcome = outcome])
  <2>1. [a EXCEPT !.end = "aborted", !.outcome = outcome] \in Attempt
    BY DEF Attempt, Ended
  <2>2. Later(a, [a EXCEPT !.end = "aborted", !.outcome = outcome])
    BY <1>6 DEF Later, Similar, Good, Attempt, Settled, Known
  <2> QED BY <2>1, <2>2
<1>7. ASSUME a.exec = "announced"
      PROVE  [a EXCEPT !.exec = "ended"] \in Attempt /\ Later(a, [a EXCEPT !.exec = "ended"])
  <2>1. [a EXCEPT !.exec = "ended"] \in Attempt
    BY DEF Attempt
  <2>2. Later(a, [a EXCEPT !.exec = "ended"])
    BY <1>7 DEF Later, Similar, Good, Attempt
  <2> QED BY <2>1, <2>2
<1>5. ASSUME a.calls = 0
      PROVE  [a EXCEPT !.calls = @ + 1] \in Attempt /\ Later(a, [a EXCEPT !.calls = @ + 1])
  <2>1. [a EXCEPT !.calls = @ + 1] \in Attempt
    BY DEF Attempt
  <2>2. Later(a, [a EXCEPT !.calls = @ + 1])
    BY <1>5 DEF Later, Similar, Good, Attempt
  <2> QED BY <2>1, <2>2
<1> QED BY <1>2, <1>3, <1>4, <1>5, <1>6, <1>7

(* The result is persisted, and the executor told to forget it.            *)
LEMMA LaterResult ==
    ASSUME NEW a \in Attempt, Good(a), a.state \notin Settled, a.end = "completed",
           a.exec # "announced"
    PROVE  /\ [a EXCEPT !.raw = TRUE, !.state = "received"] \in Attempt
           /\ Later(a, [a EXCEPT !.raw = TRUE, !.state = "received"])
           /\ a.raw => /\ [a EXCEPT !.released = TRUE] \in Attempt
                       /\ Later(a, [a EXCEPT !.released = TRUE])
<1>1. [a EXCEPT !.raw = TRUE, !.state = "received"] \in Attempt
  BY DEF Attempt, AttemptStates
<1>2. Later(a, [a EXCEPT !.raw = TRUE, !.state = "received"])
  BY DEF Later, Similar, Good, Attempt, Settled
<1>3. ASSUME a.raw
      PROVE  /\ [a EXCEPT !.released = TRUE] \in Attempt
             /\ Later(a, [a EXCEPT !.released = TRUE])
  <2>1. [a EXCEPT !.released = TRUE] \in Attempt
    BY DEF Attempt
  <2>2. Later(a, [a EXCEPT !.released = TRUE])
    BY <1>3 DEF Later, Similar, Good, Attempt
  <2> QED BY <2>1, <2>2
<1> QED BY <1>1, <1>2, <1>3

(* What all steps leave of the attempts that neither settle nor begin one. *)
Held ==
    /\ Data' /\ units' = units /\ Cur' = Cur /\ (Unsettled' <=> Unsettled)
    /\ \A s \in DOMAIN att : Later(att[s], att'[s])

LEMMA EditHeld ==
    ASSUME Data, units' = units, NEW s \in DOMAIN att, NEW a \in Attempt,
           Edit(s, a), Later(att[s], a)
    PROVE  Held /\ att'[s] = a
<1>1. \A t \in DOMAIN att : Later(att[t], att[t])
  BY DEF Data, AttemptsOK, Later, Similar
<1>2. Similar(att[s], a)
  BY DEF Later
<1>3. /\ Data' /\ (Unsettled' <=> Unsettled)
      /\ Len(att') = Len(att) /\ att'[s] = a
      /\ \A t \in DOMAIN att : t # s => att'[t] = att[t]
  BY <1>2, OneEdited
<1> QED BY <1>1, <1>3 DEF Held, Cur

LEMMA UnchangedHeld ==
    ASSUME Data, UNCHANGED <<units, att>>
    PROVE  Held
<1>1. \A t \in DOMAIN att : Later(att[t], att'[t])
  BY DEF Data, AttemptsOK, Later, Similar
<1>2. Data' /\ Cur' = Cur /\ (Unsettled' <=> Unsettled)
  BY DEF Data, AttemptsOK, PastOK, FirstOK, DoneOK, LastOK, Unsettled, FirstOpen, Open, LastOf, Cur
<1> QED BY <1>1, <1>2 DEF Held

LEMMA CurrentAttempt ==
    ASSUME Data, Cur > 0
    PROVE  Cur \in DOMAIN att /\ att[Cur] \in Attempt /\ Good(att[Cur])
  BY DEF Data, AttemptsOK, Cur

LEMMA ExecuteHeld ==
    ASSUME IInv, Execute
    PROVE  Held
<1>1. att \in Seq(Attempt) /\ \A s \in DOMAIN att : att[s] \in Attempt /\ Good(att[s])
  BY DEF IInv, Data, AttemptsOK
<1>2. att' = [s \in DOMAIN att |-> [att[s] EXCEPT !.net = IF @ = "fresh" THEN "stale" ELSE @,
                                                  !.token = IF @ = "fresh" THEN "stale" ELSE @]]
  BY DEF Execute, Stale
<1>3. ASSUME NEW s \in DOMAIN att
      PROVE  att'[s] \in Attempt /\ Later(att[s], att'[s])
  <2>1. PICK net \in {"none", "fresh", "stale"} :
            net = IF att[s].net = "fresh" THEN "stale" ELSE att[s].net
    BY <1>1 DEF Attempt
  <2>2. PICK token \in {"none", "fresh", "stale"} :
            token = IF att[s].token = "fresh" THEN "stale" ELSE att[s].token
    BY <1>1 DEF Attempt
  <2>3. att'[s] = [att[s] EXCEPT !.net = net, !.token = token]
    BY <1>2, <2>1, <2>2
  <2>4. /\ [att[s] EXCEPT !.net = net, !.token = token] \in Attempt
        /\ Later(att[s], [att[s] EXCEPT !.net = net, !.token = token])
    <3>1. att[s] \in Attempt /\ Good(att[s])
      BY <1>1
    <3> QED BY <3>1, LaterAttempt, Zenon
  <2> QED BY <2>3, <2>4
<1>4. att' \in Seq(Attempt) /\ Len(att') = Len(att)
  <2> DEFINE b(s) == [att[s] EXCEPT !.net = IF @ = "fresh" THEN "stale" ELSE @,
                                    !.token = IF @ = "fresh" THEN "stale" ELSE @]
  <2>1. att' = [s \in DOMAIN att |-> b(s)]
    BY <1>2, Zenon
  <2>2. \A s \in DOMAIN att : b(s) \in Attempt
    <3> HIDE DEF b
    <3>1. \A s \in DOMAIN att : b(s) = att'[s]
      BY <2>1
    <3> QED BY <3>1, <1>3
  <2>3. DOMAIN att = 1..Len(att) /\ Len(att) \in Nat
    BY <1>1
  <2> HIDE DEF b
  <2>4. att' \in [1..Len(att) -> Attempt]
    BY <2>1, <2>2, <2>3
  <2> QED BY <2>3, <2>4
<1>5. \A s \in DOMAIN att : Similar(att[s], att'[s])
  BY <1>3 DEF Later
<1>6. Data /\ units' = units
  BY DEF IInv, Execute
<1>7. Data' /\ (Unsettled' <=> Unsettled)
  BY <1>4, <1>5, <1>6, AttemptsSimilar
<1> QED BY <1>3, <1>4, <1>6, <1>7 DEF Held, Cur

LEMMA PlacedAttempt ==
    ASSUME IInv, pc \in SessionPlaces
    PROVE  /\ Unsettled /\ Cur \in DOMAIN att /\ att[Cur] \in Attempt /\ Good(att[Cur])
           /\ att[Cur].state \notin Settled /\ att[Cur].unit \in DOMAIN units
           /\ FirstOpen(att[Cur].unit)
<1>1. Unsettled /\ Data
  BY DEF IInv, PlaceOK
<1>2. Cur \in DOMAIN att /\ att[Cur] \in Attempt /\ Good(att[Cur])
  BY <1>1, CurrentAttempt DEF Unsettled
<1> QED BY <1>1, <1>2 DEF Unsettled, Data, FirstOK, AttemptsOK

LEMMA WorkerEditsHeld ==
    ASSUME IInv, Post \/ Authorize \/ Receive \/ Acknowledge
    PROVE  /\ Held
           /\ Receive => att'[Cur].raw
<1>1. pc \in SessionPlaces
  BY DEF Post, Authorize, Receive, Acknowledge, At, SessionPlaces
<1>2. /\ Data /\ Cur \in DOMAIN att /\ att[Cur] \in Attempt /\ Good(att[Cur])
      /\ att[Cur].state \notin Settled
  BY <1>1, PlacedAttempt DEF IInv
<1>3. CASE Post
  <2>1. PICK net \in {"none", "fresh", "stale"} : Edit(Cur, [att[Cur] EXCEPT !.net = net])
    BY <1>3 DEF Post
  <2>2. [att[Cur] EXCEPT !.net = net] \in Attempt /\ Later(att[Cur], [att[Cur] EXCEPT !.net = net])
    BY <1>2, LaterAttempt, Zenon
  <2>3. units' = units /\ ~Receive
    BY <1>3 DEF Post, Receive, At
  <2> QED BY <1>2, <2>1, <2>2, <2>3, EditHeld
<1>4. CASE Authorize
  <2>1. ~Receive
    BY <1>4 DEF Authorize, Receive, At
  <2>2. CASE Edit(Cur, [att[Cur] EXCEPT !.token = "fresh"]) /\ units' = units
    <3>1. /\ [att[Cur] EXCEPT !.token = "fresh"] \in Attempt
          /\ Later(att[Cur], [att[Cur] EXCEPT !.token = "fresh"])
      BY <1>2, LaterAttempt, Zenon
    <3> QED BY <1>2, <2>1, <2>2, <3>1, EditHeld
  <2>3. CASE UNCHANGED <<units, att>>
    BY <1>2, <2>1, <2>3, UnchangedHeld
  <2> QED BY <1>4, <2>2, <2>3 DEF Authorize
<1>5. CASE Receive
  <2>1. att[Cur].end = "completed" /\ att[Cur].exec # "announced" /\ units' = units
    BY <1>5 DEF Receive, At, IInv, PlaceOK
  <2>2. Edit(Cur, [att[Cur] EXCEPT !.raw = TRUE, !.state = "received"])
    BY <1>5 DEF Receive
  <2>3. /\ [att[Cur] EXCEPT !.raw = TRUE, !.state = "received"] \in Attempt
        /\ Later(att[Cur], [att[Cur] EXCEPT !.raw = TRUE, !.state = "received"])
    BY <1>2, <2>1, LaterResult
  <2>4. Held /\ att'[Cur] = [att[Cur] EXCEPT !.raw = TRUE, !.state = "received"]
    BY <1>2, <2>1, <2>2, <2>3, EditHeld
  <2> QED BY <1>2, <2>4 DEF Attempt
<1>6. CASE Acknowledge
  <2>1. /\ att[Cur].end = "completed" /\ att[Cur].exec # "announced" /\ att[Cur].raw
        /\ units' = units /\ ~Receive
    BY <1>6 DEF Acknowledge, Receive, At, IInv, PlaceOK
  <2>2. Edit(Cur, [att[Cur] EXCEPT !.released = TRUE])
    BY <1>6 DEF Acknowledge
  <2>3. /\ [att[Cur] EXCEPT !.released = TRUE] \in Attempt
        /\ Later(att[Cur], [att[Cur] EXCEPT !.released = TRUE])
    BY <1>2, <2>1, LaterResult
  <2> QED BY <1>2, <2>1, <2>2, <2>3, EditHeld
<1> QED BY <1>3, <1>4, <1>5, <1>6

LEMMA RemoteHeld ==
    ASSUME IInv, Remote
    PROVE  Held
<1>1. Data /\ \A s \in DOMAIN att : att[s] \in Attempt /\ Good(att[s])
  BY DEF IInv, Data, AttemptsOK
<1>2. PICK s \in DOMAIN att :
         \/ Deliver(s) \/ LoseRequest(s) \/ EndSession(s) \/ Withdraw(s) \/ SetStatus(s)
         \/ PersistEnd(s) \/ ExecutorCrash(s) \/ Report(s) \/ Call(s)
  BY DEF Remote
<1> DEFINE a == att[s]
<1>3. a \in Attempt /\ Good(a)
  BY <1>1
<1> SUFFICES ASSUME ~Report(s)
             PROVE  units' = units /\ \E b \in Attempt : Edit(s, b) /\ Later(a, b)
  <2>1. CASE Report(s)
    BY <2>1, <1>1, UnchangedHeld DEF Report
  <2> HIDE DEF a
  <2> QED BY <2>1, <1>1, EditHeld DEF a
<1>4. units' = units
  BY <1>2 DEF Deliver, LoseRequest, EndSession, Withdraw, SetStatus, PersistEnd, ExecutorCrash, Call
<1>5. CASE Deliver(s)
  <2>1. a.net \in {"none", "fresh", "stale"}
    BY <1>3 DEF Attempt
  <2>2. CASE MayStart(s)
    <3>1. Edit(s, [a EXCEPT !.net = "none", !.exec = "running", !.token = a.net]) /\ a.exec = "absent"
      BY <1>5, <2>2 DEF Deliver, MayStart, Started
    <3>2. /\ [a EXCEPT !.net = "none", !.exec = "running", !.token = a.net] \in Attempt
          /\ Later(a, [a EXCEPT !.net = "none", !.exec = "running", !.token = a.net])
      <4> HIDE DEF a
      <4>1. "unknown" \in Ended \ {"aborted"}
        BY DEF Ended
      <4> QED BY <1>3, <2>1, <3>1, <4>1, LaterSession
    <3> QED BY <1>4, <3>1, <3>2
  <2>3. CASE ~MayStart(s)
    <3>1. Edit(s, [a EXCEPT !.net = "none"])
      BY <1>5, <2>3 DEF Deliver
    <3>2. [a EXCEPT !.net = "none"] \in Attempt /\ Later(a, [a EXCEPT !.net = "none"])
      BY <1>3, LaterAttempt, Zenon
    <3> QED BY <1>4, <3>1, <3>2
  <2> QED BY <2>2, <2>3
<1>6. CASE LoseRequest(s)
  <2>1. Edit(s, [a EXCEPT !.net = "none"])
    BY <1>6 DEF LoseRequest
  <2>2. [a EXCEPT !.net = "none"] \in Attempt /\ Later(a, [a EXCEPT !.net = "none"])
    BY <1>3, LaterAttempt, Zenon
  <2> QED BY <1>4, <2>1, <2>2
<1>7. CASE EndSession(s)
  <2>1. PICK end \in Ended \ {"aborted"}, outcome \in {"good", "reference", "length", "other"} :
           Edit(s, [a EXCEPT !.exec = "announced", !.token = "none", !.end = end, !.outcome = outcome])
    BY <1>7 DEF EndSession
  <2>2. a.exec = "running" /\ outcome \in {"none", "good", "reference", "length", "other"}
    BY <1>7 DEF EndSession
  <2>3. /\ [a EXCEPT !.exec = "announced", !.token = "none", !.end = end, !.outcome = outcome] \in Attempt
        /\ Later(a, [a EXCEPT !.exec = "announced", !.token = "none", !.end = end, !.outcome = outcome])
    <3> HIDE DEF a
    <3> QED BY <1>3, <2>2, LaterSession
  <2> QED BY <1>4, <2>1, <2>3
<1>11. CASE Withdraw(s)
  <2>1. PICK outcome \in {"length", "other"} : Edit(s, [a EXCEPT !.end = "aborted", !.outcome = outcome])
    BY <1>11 DEF Withdraw
  <2>2. a.exec = "announced" /\ a.end = "completed"
    BY <1>11 DEF Withdraw
  <2>3. /\ [a EXCEPT !.end = "aborted", !.outcome = outcome] \in Attempt
        /\ Later(a, [a EXCEPT !.end = "aborted", !.outcome = outcome])
    <3> HIDE DEF a
    <3>1. "unknown" \in Ended \ {"aborted"}
      BY DEF Ended
    <3> QED BY <1>3, <2>2, <3>1, LaterSession
  <2> QED BY <1>4, <2>1, <2>3
<1>12. CASE SetStatus(s)
  <2>1. Edit(s, [a EXCEPT !.exec = "ended"]) /\ a.exec = "announced"
    BY <1>12 DEF SetStatus
  <2>2. [a EXCEPT !.exec = "ended"] \in Attempt /\ Later(a, [a EXCEPT !.exec = "ended"])
    <3> HIDE DEF a
    <3>1. "unknown" \in Ended \ {"aborted"}
      BY DEF Ended
    <3> QED BY <1>3, <2>1, <3>1, LaterSession
  <2> QED BY <1>4, <2>1, <2>2
<1>8. CASE PersistEnd(s)
  <2>1. Edit(s, [a EXCEPT !.kept = TRUE])
    BY <1>8 DEF PersistEnd
  <2>2. [a EXCEPT !.kept = TRUE] \in Attempt /\ Later(a, [a EXCEPT !.kept = TRUE])
    BY <1>3, LaterAttempt, Zenon
  <2> QED BY <1>4, <2>1, <2>2
<1>9. CASE ExecutorCrash(s)
  <2>1. Edit(s, [a EXCEPT !.exec = "gone", !.token = "none"]) /\ a.exec # "absent"
    BY <1>9 DEF ExecutorCrash
  <2>2. /\ [a EXCEPT !.exec = "gone", !.token = "none"] \in Attempt
        /\ Later(a, [a EXCEPT !.exec = "gone", !.token = "none"])
    <3> HIDE DEF a
    <3>1. "unknown" \in Ended \ {"aborted"}
      BY DEF Ended
    <3> QED BY <1>3, <2>1, <3>1, LaterSession
  <2> QED BY <1>4, <2>1, <2>2
<1>10. CASE Call(s)
  <2>1. Edit(s, [a EXCEPT !.calls = @ + 1]) /\ a.calls = 0
    BY <1>10 DEF Call, MayCall
  <2>2. [a EXCEPT !.calls = @ + 1] \in Attempt /\ Later(a, [a EXCEPT !.calls = @ + 1])
    <3> HIDE DEF a
    <3>1. "unknown" \in Ended \ {"aborted"}
      BY DEF Ended
    <3> QED BY <1>3, <2>1, <3>1, LaterSession
  <2> QED BY <1>4, <2>1, <2>2
<1> QED BY <1>2, <1>4, <1>5, <1>6, <1>7, <1>8, <1>9, <1>10, <1>11, <1>12

-----------------------------------------------------------------------------
(***************************************************************************)
(* The steps that settle the attempt, or find it unknown.                  *)
(***************************************************************************)
SameEnd == Cur' = Cur /\ att'[Cur].end = att[Cur].end

LEMMA SettleStep ==
    ASSUME Data, Unsettled, NEW st, NEW to, Settle(st, to),
           <<st, to>> \in {<<"unknown", "unknown">>, <<"failed", "failed">>,
                           <<"failed", "pending">>, <<"done", "done">>},
           st \in Settled => att[Cur].end \in Known,
           st = "done" => att[Cur].raw /\ att[Cur].outcome = "good"
    PROVE  Data' /\ SameEnd
<1> DEFINE a == [att[Cur] EXCEPT !.state = st]
<1>1. Cur \in DOMAIN att /\ att[Cur] \in Attempt /\ Good(att[Cur]) /\ att \in Seq(Attempt)
  BY CurrentAttempt DEF Unsettled, Data, AttemptsOK
<1>2. st \in {"unknown", "failed", "done"} /\ to \in UnitStates
  BY DEF UnitStates
<1>3. a \in Attempt /\ a.unit = att[Cur].unit /\ a.state = st /\ a.end = att[Cur].end
  BY <1>1, <1>2 DEF Attempt, AttemptStates
<1>4. Good(a)
  BY <1>1, <1>2 DEF Good, Attempt, Settled
<1>5. att' = [att EXCEPT ![Cur] = a] /\ units' = [units EXCEPT ![att[Cur].unit].state = to]
  BY DEF Settle, Edit
<1> HIDE DEF a
<1>6. Data'
  BY <1>2, <1>3, <1>4, <1>5, CurrentSettled
<1>7. SameEnd
  BY <1>1, <1>3, <1>5 DEF SameEnd, Cur
<1> QED BY <1>6, <1>7

LEMMA FailStep ==
    ASSUME Data, Unsettled, session \in Session, NEW reported \in SessionStatus,
           reported \in Known => att[Cur].end \in Known, Fail(reported)
    PROVE  /\ Data' /\ SameEnd /\ pc' = "failed"
           /\ session' \in Session /\ session'.status = reported
<1>1. session' \in Session /\ session'.status = reported /\ pc' = "failed"
  BY DEF Fail, Session, Goto
<1>2. CASE reported \in Known
  <2>1. Settle("failed", "failed") /\ att[Cur].end \in Known
    BY <1>2 DEF Fail, KnownEnd
  <2> QED BY <1>1, <2>1, SettleStep
<1>3. CASE reported \notin Known
  <2>1. Settle("unknown", "unknown") /\ "unknown" \notin Settled
    BY <1>3 DEF Fail, KnownEnd, Settled
  <2> QED BY <1>1, <2>1, SettleStep
<1> QED BY <1>2, <1>3

FailAction ==
    \/ TooLate \/ PostRefused \/ AuthorizeRefused \/ PollEnded \/ PollMissing
    \/ PollExpired \/ InspectOpen \/ ParseInvalid

LEMMA FailActions ==
    ASSUME IInv, FailAction
    PROVE  /\ Data' /\ SameEnd /\ Unsettled /\ pc' = "failed" /\ status = "running"
           /\ session' \in Session /\ SessionOK'
           /\ UNCHANGED <<status, plan, cap, checks, calls>>
           /\ (UNCHANGED faults \/ Fault)
<1>1. pc \in SessionPlaces /\ status = "running"
  BY DEF FailAction, TooLate, PostRefused, AuthorizeRefused, PollEnded, PollMissing,
         PollExpired, InspectOpen, ParseInvalid, At, SessionPlaces
<1>2. /\ Unsettled /\ Data /\ session \in Session /\ session.status \in SessionStatus
      /\ Good(att[Cur]) /\ att[Cur] \in Attempt
  BY <1>1, PlacedAttempt DEF IInv, FlagsOK, Session
<1>3. ReportedEnd(session.status)
  BY DEF IInv, SessionOK
<1>4. PICK reported \in SessionStatus : ReportedEnd(reported) /\ Fail(reported)
  <2>1. CASE Fail(session.status)
    BY <1>2, <1>3, <2>1
  <2>2. CASE PollEnded
    <3>1. Fail(att[Cur].end) /\ att[Cur].end \in Ended
      BY <2>2, <1>2 DEF PollEnded, Good, Attempt
    <3> QED BY <3>1, <1>2 DEF SessionStatus, ReportedEnd, Unsettled
  <2>3. CASE Fail("running")
    BY <2>3 DEF SessionStatus, Ended, ReportedEnd
  <2> QED BY <2>1, <2>2, <2>3 DEF FailAction, TooLate, PostRefused, AuthorizeRefused,
             PollMissing, PollExpired, InspectOpen, ParseInvalid
<1>5. Data' /\ SameEnd /\ pc' = "failed" /\ session' \in Session /\ session'.status = reported
  <2>1. reported \in Known => att[Cur].end \in Known
    BY <1>4 DEF ReportedEnd, Known, Ended
  <2> QED BY <1>2, <1>4, <2>1, FailStep
<1>6. SessionOK'
  BY <1>2, <1>4, <1>5 DEF SessionOK, ReportedEnd, SameEnd, Unsettled
<1>7. UNCHANGED <<status, plan, cap, checks, calls>>
  BY <1>4 DEF Fail
<1>8. UNCHANGED faults \/ Fault
  BY DEF FailAction, TooLate, PostRefused, AuthorizeRefused, PollEnded, PollMissing,
         PollExpired, InspectOpen, ParseInvalid
<1> QED BY <1>1, <1>2, <1>5, <1>6, <1>7, <1>8

LEMMA ParseSteps ==
    ASSUME IInv, Parse \/ ParseReference
    PROVE  Data' /\ SameEnd /\ Unsettled
<1>1. pc \in SessionPlaces
  BY DEF Parse, ParseReference, At, SessionPlaces
<1>2. Data /\ Unsettled /\ att[Cur].end \in Known /\ att[Cur].raw
  BY <1>1, PlacedAttempt DEF IInv, PlaceOK, Parse, ParseReference, At, Known
<1>3. CASE Parse
  BY <1>2, <1>3, SettleStep DEF Parse
<1>4. CASE ParseReference
  BY <1>2, <1>4, SettleStep DEF ParseReference
<1> QED BY <1>2, <1>3, <1>4

LEMMA AckUnknownStep ==
    ASSUME IInv, AckUnknown
    PROVE  Data' /\ SameEnd /\ Unsettled
<1>1. pc \in SessionPlaces
  BY DEF AckUnknown, At, SessionPlaces
<1>2. /\ Data /\ Unsettled /\ Cur \in DOMAIN att /\ att[Cur] \in Attempt /\ Good(att[Cur])
      /\ att \in Seq(Attempt)
  BY <1>1, PlacedAttempt DEF IInv, Data, AttemptsOK
<1>3. att[Cur].raw
  BY DEF AckUnknown, At, IInv, PlaceOK
<1>4. PICK r \in {att[Cur].released, att[Cur].exec # "gone"} :
         Edit(Cur, [att[Cur] EXCEPT !.released = @ \/ r, !.state = "unknown"])
  BY DEF AckUnknown
<1> DEFINE a == [att[Cur] EXCEPT !.released = @ \/ r, !.state = "unknown"]
<1>5. r \in BOOLEAN /\ (att[Cur].released \/ r) \in BOOLEAN
  BY <1>2, <1>4 DEF Attempt
<1>6. a \in Attempt /\ a.unit = att[Cur].unit /\ a.state = "unknown" /\ a.end = att[Cur].end
  BY <1>2, <1>5 DEF Attempt, AttemptStates
<1>7. Good(a)
  BY <1>2, <1>3 DEF Good, Attempt, Settled
<1>8. /\ att' = [att EXCEPT ![Cur] = a] /\ "unknown" \in UnitStates
      /\ units' = [units EXCEPT ![att[Cur].unit].state = "unknown"]
  BY <1>4 DEF AckUnknown, Edit, UnitStates
<1> HIDE DEF a
<1>9. Data'
  BY <1>2, <1>6, <1>7, <1>8, CurrentSettled
<1>10. SameEnd
  BY <1>2, <1>6, <1>8 DEF SameEnd, Cur
<1> QED BY <1>2, <1>9, <1>10

-----------------------------------------------------------------------------
(***************************************************************************)
(* The steps that change the units: the plan, the refutations, a split, a  *)
(* retry.                                                                  *)
(***************************************************************************)
LEMMA UnsettledIsLatest ==
    ASSUME Data, Unsettled
    PROVE  Open # {} /\ Next1 = att[Cur].unit /\ Latest(Next1) = Cur
<1>1. Cur \in DOMAIN att /\ att \in Seq(Attempt) /\ FirstOpen(att[Cur].unit)
  BY CurrentAttempt DEF Data, AttemptsOK, FirstOK, Unsettled
<1>2. Next1 = att[Cur].unit /\ Open # {}
  BY <1>1, FirstOpenUnit DEF Data, FirstOpen
<1>3. LastOf(Cur, Next1)
  BY <1>1, <1>2 DEF LastOf, Cur
<1> QED BY <1>1, <1>2, <1>3, LatestAttempt

LEMMA NoneUnsettled ==
    ASSUME Data, Open = {} \/ LatestState(Next1) \in {"none"} \cup Settled
    PROVE  ~Unsettled
<1> SUFFICES ASSUME Unsettled PROVE FALSE
  OBVIOUS
<1>1. Open # {} /\ Latest(Next1) = Cur /\ Cur > 0 /\ att[Cur].state \notin Settled
  BY UnsettledIsLatest DEF Unsettled
<1>2. LatestState(Next1) = att[Cur].state
  BY <1>1 DEF LatestState
<1>3. att[Cur].state # "none"
  BY <1>1, CurrentAttempt DEF Attempt, AttemptStates
<1> QED BY <1>1, <1>2, <1>3

(* A list of new units, all pending, one for each size.                    *)
LEMMA NewUnits ==
    ASSUME NEW kind \in {"primary", "association", "refutation"}, NEW depth \in Nat,
           NEW sizes \in Seq(Nat)
    PROVE  /\ [i \in DOMAIN sizes |-> NewUnit(kind, sizes[i], depth)] \in Seq(Unit)
           /\ \A j \in DOMAIN [i \in DOMAIN sizes |-> NewUnit(kind, sizes[i], depth)] :
                [i \in DOMAIN sizes |-> NewUnit(kind, sizes[i], depth)][j].state = "pending"
<1> DEFINE list == [i \in DOMAIN sizes |-> NewUnit(kind, sizes[i], depth)]
<1>1. \A i \in DOMAIN sizes : sizes[i] \in Nat
  OBVIOUS
<1>2. \A n \in Nat : NewUnit(kind, n, depth) \in Unit /\ NewUnit(kind, n, depth).state = "pending"
  BY DEF NewUnit, Unit, UnitStates
<1>3. \A i \in DOMAIN sizes : list[i] \in Unit /\ list[i].state = "pending"
  BY <1>1, <1>2
<1>4. DOMAIN sizes = 1..Len(sizes) /\ Len(sizes) \in Nat /\ DOMAIN list = DOMAIN sizes
  OBVIOUS
<1>5. list \in [1..Len(sizes) -> Unit]
  <2> HIDE DEF Unit
  <2> QED BY <1>3, <1>4
<1> QED BY <1>3, <1>4, <1>5

LEMMA UnitsAppended ==
    ASSUME NEW s \in Seq(Unit), NEW t \in Seq(Unit)
    PROVE  /\ s \o t \in Seq(Unit) /\ DOMAIN s \subseteq DOMAIN (s \o t)
           /\ \A i \in DOMAIN s : (s \o t)[i] = s[i]
           /\ \A i \in DOMAIN (s \o t) : i \notin DOMAIN s =>
                \E j \in DOMAIN t : (s \o t)[i] = t[j]
           /\ \A j \in DOMAIN t : Len(s) + j \in DOMAIN (s \o t) /\ (s \o t)[Len(s) + j] = t[j]
<1>1. /\ s \o t \in Seq(Unit) /\ DOMAIN s \subseteq DOMAIN (s \o t)
      /\ \A i \in DOMAIN s : (s \o t)[i] = s[i]
  OBVIOUS
<1>2. ASSUME NEW i \in DOMAIN (s \o t), i \notin DOMAIN s
      PROVE  \E j \in DOMAIN t : (s \o t)[i] = t[j]
  <2>1. i - Len(s) \in DOMAIN t /\ (s \o t)[i] = t[i - Len(s)]
    BY <1>2
  <2> QED BY <2>1
<1>3. \A j \in DOMAIN t : Len(s) + j \in DOMAIN (s \o t) /\ (s \o t)[Len(s) + j] = t[j]
  OBVIOUS
<1> QED BY <1>1, <1>2, <1>3

LEMMA SavePlanStep ==
    ASSUME IInv, SavePlan
    PROVE  Data' /\ ~Unsettled'
<1>1. units = <<>> /\ att = <<>> /\ att' = att /\ Data
  BY DEF SavePlan, IInv, PlanOK
<1>2. PICK first \in InitialUnits :
         units' = [i \in DOMAIN first |-> NewUnit(first[i].kind, first[i].size, 0)]
  BY DEF SavePlan
<1>3. first \in Seq(PlannedUnit)
  BY Constants
<1>4. \A i \in DOMAIN first : units'[i] \in Unit /\ units'[i].state = "pending"
  <2>1. \A i \in DOMAIN first : first[i].kind \in {"primary", "association"} /\ first[i].size \in Nat
    <3>1. \A i \in DOMAIN first : first[i] \in PlannedUnit
      BY <1>3
    <3> QED BY <3>1 DEF PlannedUnit
  <2> QED BY <2>1, <1>2 DEF NewUnit, Unit, UnitStates
<1>5. DOMAIN first = 1..Len(first) /\ Len(first) \in Nat /\ DOMAIN units' = DOMAIN first
  BY <1>2, <1>3
<1>6. units' \in [1..Len(first) -> Unit]
  <2> HIDE DEF Unit
  <2> QED BY <1>2, <1>4, <1>5
<1>7. units' \in Seq(Unit)
  BY <1>5, <1>6
<1>8. ~Unsettled /\ ~Unsettled'
  BY <1>1 DEF Unsettled, Cur
<1>9. DOMAIN units = {} /\ Open = {}
  BY <1>1 DEF Open
<1> QED BY <1>1, <1>4, <1>5, <1>7, <1>8, <1>9, UnitsChanged

LEMMA CutSizes ==
    ASSUME units \in Seq(Unit), NEW u \in DOMAIN units, units[u].size > 1, NEW cut \in Cuts(u)
    PROVE  cut \in Seq(Nat) /\ Len(cut) > 0
<1>1. units[u].size \in Nat
  <2>1. units[u] \in Unit
    OBVIOUS
  <2> QED BY <2>1 DEF Unit
<1> DEFINE n == units[u].size
<1>2. n \div 2 \in Nat /\ n - n \div 2 \in Nat
  <2> HIDE DEF n
  <2>1. \A m \in Nat : m \div 2 \in Nat /\ m - m \div 2 \in Nat
    OBVIOUS
  <2>2. n \in Nat
    BY <1>1 DEF n
  <2> QED BY <2>1, <2>2
<1>3. CASE cut = Halves(n)
  BY <1>2, <1>3 DEF Halves
<1>4. CASE cut = [i \in 1..n |-> 1]
  BY <1>1, <1>4
<1> QED BY <1>3, <1>4 DEF Cuts

LEMMA SplitStep ==
    ASSUME IInv, SplitUnit
    PROVE  Data' /\ ~Unsettled /\ ~Unsettled' /\ att' = att /\ plan' \in Plan
           /\ plan' = [plan EXCEPT !.max = plan'.max, !.base = plan'.base]
           /\ plan'.max >= plan.max
<1>1. /\ Data /\ units \in Seq(Unit) /\ att' = att /\ plan \in Plan
      /\ Next1 \in DOMAIN units /\ units[Next1].state = "failed" /\ units[Next1] \in Unit
  <2>1. Data /\ Open # {} /\ units[Next1].state = "failed" /\ att' = att /\ plan \in Plan
    BY DEF SplitUnit, Splittable, IInv, FlagsOK
  <2>2. Next1 \in DOMAIN units
    BY <2>1, FirstOpenUnit DEF Data, FirstOpen, Open
  <2> QED BY <2>1, <2>2 DEF Data
<1>2. ~Unsettled
  BY <1>1, NoneUnsettled DEF SplitUnit, Splittable, Exhausted, Settled
<1> DEFINE u == Next1
           marked == [units EXCEPT ![u].state = "replaced"]
           list(cut) == [i \in DOMAIN cut |-> NewUnit(units[u].kind, cut[i], units[u].depth + 1)]
<1>3. PICK cut \in Cuts(u) :
         /\ units' = marked \o list(cut)
         /\ plan' = [plan EXCEPT !.max = @ + 2 * Len(cut),
                          !.base = IF units[u].kind = "association" THEN @ + Len(cut) - 1 ELSE @]
  BY DEF SplitUnit, Split
<1>4. cut \in Seq(Nat) /\ Len(cut) > 0
  <2>1. units[u].size > 1
    BY DEF SplitUnit, Splittable
  <2> HIDE DEF u
  <2> QED BY <1>1, <1>3, <2>1, CutSizes DEF u
<1>5. /\ marked \in Seq(Unit) /\ DOMAIN marked = DOMAIN units
      /\ \A v \in DOMAIN units : marked[v].state = "done" <=> units[v].state = "done"
  <2>1. /\ [units[u] EXCEPT !.state = "replaced"] \in Unit
        /\ [units[u] EXCEPT !.state = "replaced"].state = "replaced"
    BY <1>1 DEF Unit, UnitStates
  <2>2. \A v \in DOMAIN units : v # u => marked[v] = units[v]
    BY <1>1
  <2>3. marked[u].state = "replaced"
    BY <1>1, <2>1
  <2>4. marked \in Seq(Unit) /\ DOMAIN marked = DOMAIN units
    BY <1>1, <2>1
  <2> QED BY <1>1, <2>2, <2>3, <2>4
<1>6. list(cut) \in Seq(Unit) /\ \A i \in DOMAIN list(cut) : list(cut)[i].state = "pending"
  <2> DEFINE k == units[u].kind
             d == units[u].depth + 1
  <2>1. \A r \in Unit : r.kind \in {"primary", "association", "refutation"} /\ r.depth + 1 \in Nat
    BY DEF Unit
  <2>2. k \in {"primary", "association", "refutation"} /\ d \in Nat
    BY <1>1, <2>1
  <2> HIDE DEF k, d
  <2>3. /\ [i \in DOMAIN cut |-> NewUnit(k, cut[i], d)] \in Seq(Unit)
        /\ \A j \in DOMAIN [i \in DOMAIN cut |-> NewUnit(k, cut[i], d)] :
             [i \in DOMAIN cut |-> NewUnit(k, cut[i], d)][j].state = "pending"
    BY <2>2, <1>4, NewUnits, Zenon
  <2> QED BY <2>3, Zenon DEF k, d
<1>7. /\ units' \in Seq(Unit) /\ DOMAIN units \subseteq DOMAIN units'
      /\ \A v \in DOMAIN units : units'[v].state = "done" <=> units[v].state = "done"
      /\ \A v \in DOMAIN units' : v \notin DOMAIN units => units'[v].state # "done"
      /\ Open' # {}
  <2>2. 1 \in DOMAIN list(cut)
    BY <1>4
  <2> HIDE DEF marked, list
  <2>1. /\ units' \in Seq(Unit) /\ DOMAIN marked \subseteq DOMAIN units'
        /\ \A i \in DOMAIN marked : units'[i] = marked[i]
        /\ \A i \in DOMAIN units' : i \notin DOMAIN marked =>
             \E j \in DOMAIN list(cut) : units'[i] = list(cut)[j]
    BY <1>3, <1>5, <1>6, UnitsAppended
  <2>3. Len(marked) + 1 \in DOMAIN units' /\ units'[Len(marked) + 1].state = "pending"
    BY <1>3, <1>5, <1>6, <2>2, UnitsAppended
  <2>4. Open' # {}
    BY <2>3 DEF Open
  <2> QED BY <2>1, <2>4, <1>5, <1>6
<1>8. Data'
  BY <1>1, <1>2, <1>7, UnitsChanged
<1>9. ~Unsettled'
  BY <1>1, <1>2 DEF Unsettled, Cur
<1>10. /\ plan' \in Plan /\ plan' = [plan EXCEPT !.max = plan'.max, !.base = plan'.base]
       /\ plan'.max >= plan.max
  <2>1. \A m, b \in Nat : [plan EXCEPT !.max = m, !.base = b] \in Plan
    BY <1>1 DEF Plan
  <2>2. /\ plan.max + 2 * Len(cut) \in Nat
        /\ (IF units[u].kind = "association" THEN plan.base + Len(cut) - 1 ELSE plan.base) \in Nat
    BY <1>1, <1>4 DEF Plan
  <2>3. plan' \in Plan
    BY <1>3, <2>1, <2>2
  <2>4. plan' = [plan EXCEPT !.max = plan'.max, !.base = plan'.base]
    BY <1>1, <1>3 DEF Plan
  <2>5. plan'.max = plan.max + 2 * Len(cut) /\ plan.max \in Nat /\ Len(cut) \in Nat
    BY <1>1, <1>3, <1>4 DEF Plan
  <2> QED BY <2>3, <2>4, <2>5
<1> QED BY <1>1, <1>2, <1>8, <1>9, <1>10

LEMMA RefutationsStep ==
    ASSUME IInv, SaveRefutations
    PROVE  Data' /\ ~Unsettled /\ ~Unsettled' /\ att' = att
<1>1. Data /\ units \in Seq(Unit) /\ att' = att /\ Open = {}
  BY DEF SaveRefutations, AllDone, IInv, Data
<1>2. ~Unsettled /\ ~Unsettled'
  <2>1. ~Unsettled
    BY <1>1, NoneUnsettled
  <2> QED BY <1>1, <2>1 DEF Unsettled, Cur
<1> DEFINE list(groups) == [i \in DOMAIN groups |-> NewUnit("refutation", groups[i], 0)]
<1>3. PICK groups \in Groupings : units' = units \o list(groups)
  BY DEF SaveRefutations
<1>4. list(groups) \in Seq(Unit) /\ \A i \in DOMAIN list(groups) : list(groups)[i].state = "pending"
  <2>1. groups \in Seq(Nat)
    BY Constants
  <2>2. "refutation" \in {"primary", "association", "refutation"} /\ 0 \in Nat
    OBVIOUS
  <2> QED BY <2>1, <2>2, NewUnits, Zenon
<1>5. /\ units' \in Seq(Unit) /\ DOMAIN units \subseteq DOMAIN units'
      /\ \A v \in DOMAIN units : units'[v].state = "done" <=> units[v].state = "done"
      /\ \A v \in DOMAIN units' : v \notin DOMAIN units => units'[v].state # "done"
  <2> HIDE DEF list
  <2>1. /\ units' \in Seq(Unit) /\ DOMAIN units \subseteq DOMAIN units'
        /\ \A i \in DOMAIN units : units'[i] = units[i]
        /\ \A i \in DOMAIN units' : i \notin DOMAIN units =>
             \E j \in DOMAIN list(groups) : units'[i] = list(groups)[j]
    BY <1>1, <1>3, <1>4, UnitsAppended
  <2> QED BY <2>1, <1>4
<1> QED BY <1>1, <1>2, <1>5, UnitsChanged

LEMMA RetryStep ==
    ASSUME IInv, NEW u \in DOMAIN units, Retry(u)
    PROVE  Data' /\ att' = att
<1>1. /\ Data /\ units \in Seq(Unit) /\ att' = att /\ units[u].state = "failed"
      /\ units' = [units EXCEPT ![u].state = "pending"] /\ "pending" \in UnitStates
  BY DEF Retry, Retriable, IInv, Data, UnitStates
<1>2. /\ units' \in Seq(Unit) /\ DOMAIN units' = DOMAIN units
      /\ units'[u].state = "pending"
      /\ \A v \in DOMAIN units : v # u => units'[v] = units[v]
  BY <1>1, UnitMarked
<1>3. Open' = Open
  BY <1>1, <1>2 DEF Open
<1> QED BY <1>1, <1>2, <1>3, UnitsChanged

(* The unit that comes next: its attempt is taken up again, or begun.      *)
LEMMA StartUnitStep ==
    ASSUME IInv, StartUnit
    PROVE  \/ /\ NewAttempt(Next1) /\ Data' /\ Unsettled' /\ pc' = "execute"
              /\ Cur' = Cur + 1 /\ att'[Cur'] = NewRow(Next1)
           \/ /\ ResumeAttempt(Next1) /\ Unsettled /\ Latest(Next1) = Cur
              /\ UNCHANGED <<att, session, units>>
<1>1. Data /\ att \in Seq(Attempt) /\ Open # {} /\ FirstOpen(Next1)
  BY FirstOpenUnit DEF StartUnit, IInv, Data, AttemptsOK
<1>2. CASE NewAttempt(Next1)
  <2>1. ~Unsettled
    BY <1>1, <1>2, NoneUnsettled DEF NewAttempt, Settled
  <2>2. /\ att' = Append(att, NewRow(Next1)) /\ pc' = "execute"
        /\ units' = [units EXCEPT ![Next1].state = "running"]
    BY <1>2 DEF NewAttempt, NewRow, Goto
  <2> QED BY <1>1, <1>2, <2>1, <2>2, AttemptAdded
<1>3. CASE ResumeAttempt(Next1)
  <2> DEFINE s == Latest(Next1)
  <2>1. /\ s # 0 /\ s \in DOMAIN att /\ att[s].unit = Next1
        /\ att[s].state \notin {"none", "failed"}
    BY <1>1, <1>3, LatestAttempt DEF ResumeAttempt, LatestState, LastOf
  <2>2. units[Next1].state # "done"
    BY <1>1 DEF FirstOpen, Open
  <2>3. att[s].state # "done"
    BY <1>1, <2>1, <2>2 DEF Data, DoneOK
  <2>4. s = Cur
    BY <1>1, <2>1, <2>3 DEF Data, PastOK, Settled
  <2>5. Unsettled
    BY <1>1, <2>1, <2>3, <2>4 DEF Unsettled, Settled, Cur
  <2> QED BY <1>3, <2>4, <2>5 DEF ResumeAttempt
<1> QED BY <1>2, <1>3 DEF StartUnit

-----------------------------------------------------------------------------
(***************************************************************************)
(* Every step keeps the invariant, one part of it after the other.         *)
(***************************************************************************)
(* The steps that touch neither units nor attempts.                        *)
Quiet ==
    \/ Claim \/ AwaitCost \/ PauseBudget \/ GiveUp \/ Return
    \/ MarkSubmitted \/ PollRunning \/ PollCompleted
    \/ BeginHistory \/ StartCheck \/ SkipCheck \/ FailCheck \/ FinishCheck \/ HistoryBroken
    \/ YieldUnit \/ Publish \/ Abandon \/ Confirm \/ Continue \/ Expire \/ Crash \/ Sweep
Resume == StartUnit /\ ResumeAttempt(Next1)
Begin == StartUnit /\ NewAttempt(Next1)
HeldAction == Quiet \/ Resume \/ Execute \/ Post \/ Authorize \/ Receive \/ Acknowledge \/ Remote
SettleAction == FailAction \/ Parse \/ ParseReference \/ AckUnknown
UnitsAction == SavePlan \/ SplitUnit \/ SaveRefutations \/ \E u \in DOMAIN units : Retry(u)

LEMMA Steps == Next => HeldAction \/ SettleAction \/ UnitsAction \/ Begin
  BY DEF Next, Worker, Operator, HeldAction, SettleAction, UnitsAction, Begin, Resume, Quiet,
         FailAction, StartUnit

LEMMA HeldSteps ==
    ASSUME IInv, HeldAction
    PROVE  Held
<1>1. CASE Quiet
  <2>1. UNCHANGED <<units, att>>
    BY <1>1 DEF Quiet, Claim, AwaitCost, PauseBudget, GiveUp, Return,
         MarkSubmitted, PollRunning, PollCompleted, BeginHistory, StartCheck, SkipCheck,
         FailCheck, FinishCheck, HistoryBroken, YieldUnit, Publish, Abandon, Confirm,
         Continue, Expire, Crash, Sweep
  <2> QED BY <2>1, UnchangedHeld DEF IInv
<1>2. CASE Resume
  BY <1>2, UnchangedHeld DEF IInv, Resume, ResumeAttempt
<1>3. CASE Execute
  BY <1>3, ExecuteHeld
<1>4. CASE Post \/ Authorize \/ Receive \/ Acknowledge
  BY <1>4, WorkerEditsHeld
<1>5. CASE Remote
  BY <1>5, RemoteHeld
<1> QED BY <1>1, <1>2, <1>3, <1>4, <1>5 DEF HeldAction

LEMMA SettleSteps ==
    ASSUME IInv, SettleAction
    PROVE  Data' /\ SameEnd /\ Unsettled
  BY FailActions, ParseSteps, AckUnknownStep DEF SettleAction

LEMMA DataStep ==
    ASSUME IInv, Next
    PROVE  Data'
<1>1. CASE HeldAction
  BY <1>1, HeldSteps DEF Held
<1>2. CASE SettleAction
  BY <1>2, SettleSteps
<1>3. CASE UnitsAction
  BY <1>3, SavePlanStep, SplitStep, RefutationsStep, RetryStep DEF UnitsAction
<1>4. CASE Begin
  <2>1. LatestState(Next1) \in {"none", "failed"} /\ ~ResumeAttempt(Next1)
    BY <1>4 DEF Begin, NewAttempt, ResumeAttempt
  <2> QED BY <1>4, <2>1, StartUnitStep DEF Begin
<1> QED BY <1>1, <1>2, <1>3, <1>4, Steps

(* The end of the current session, when it is held or settled.             *)
LEMMA EndKept ==
    ASSUME IInv, Held \/ SameEnd, Cur > 0
    PROVE  /\ Cur' = Cur
           /\ att[Cur].end # "none" =>
                \/ att'[Cur].end = att[Cur].end
                \/ att[Cur].end = "completed" /\ att'[Cur].end = "aborted"
  BY CurrentAttempt DEF IInv, Held, SameEnd, Later

LEMMA SessionStep ==
    ASSUME IInv, Next
    PROVE  SessionOK'
<1>1. CASE FailAction
  BY <1>1, FailActions
<1>2. CASE Begin
  <2>1. session'.status \notin Ended
    BY <1>2 DEF Begin, NewAttempt, NoSession, Ended
  <2> QED BY <2>1 DEF SessionOK, ReportedEnd
<1>3. CASE PollCompleted
  <2>1. pc \in SessionPlaces /\ att' = att /\ att[Cur].end = "completed"
    BY <1>3 DEF PollCompleted, At, SessionPlaces
  <2>2. session'.status = "completed"
    BY <1>3 DEF PollCompleted, IInv, FlagsOK, Session
  <2> QED BY <2>1, <2>2, PlacedAttempt DEF SessionOK, ReportedEnd, Unsettled, Cur
<1>4. CASE Parse
  <2>1. Unsettled /\ att[Cur].end = "completed"
    BY <1>4, SettleSteps DEF Parse, At, IInv, PlaceOK, SettleAction
  <2>2. session'.status = "completed"
    BY <1>4 DEF Parse, IInv, FlagsOK, Session
  <2>3. SameEnd
    BY <1>4, SettleSteps DEF SettleAction
  <2> QED BY <2>1, <2>2, <2>3 DEF SessionOK, ReportedEnd, Unsettled, SameEnd
<1>5. ASSUME NEW s \in DOMAIN att, Report(s) PROVE SessionOK'
  <2>1. Cur \in DOMAIN att /\ Cur > 0 /\ att' = att /\ att[Cur] \in Attempt
    BY <1>5, CurrentAttempt DEF Report, IInv, Data, AttemptsOK, Cur
  <2>2. session'.status \in Ended =>
           \/ att[Cur].end = session'.status
           \/ session'.status = "completed" /\ att[Cur].end = "aborted"
    BY <1>5 DEF Report, Told, IInv, FlagsOK, Session, Ended
  <2> QED BY <2>1, <2>2 DEF SessionOK, ReportedEnd, Cur
<1>6. CASE MarkSubmitted \/ PollRunning
  <2>1. session'.status \notin Ended
    BY <1>6 DEF MarkSubmitted, PollRunning, Ended, IInv, FlagsOK, Session
  <2> QED BY <2>1 DEF SessionOK, ReportedEnd
<1>7. CASE session'.status = session.status /\ Cur' = Cur /\ att' = att
  BY <1>7 DEF SessionOK, ReportedEnd, IInv
<1>8. CASE session'.status = session.status /\ (Held \/ SameEnd)
  <2>1. session.status \in Ended => att[Cur].end # "none" /\ Cur > 0 /\ ReportedEnd(session.status)
    BY DEF IInv, SessionOK, ReportedEnd, Ended
  <2> QED BY <1>8, <2>1, EndKept DEF SessionOK, ReportedEnd
<1>9. CASE ParseReference \/ AckUnknown
  <2>1. session'.status = session.status
    BY <1>9 DEF ParseReference, AckUnknown
  <2> QED BY <1>8, <1>9, <2>1, SettleSteps DEF SettleAction
<1>10. CASE UnitsAction
  BY <1>7, <1>10 DEF UnitsAction, SavePlan, SplitUnit, SaveRefutations, Retry, Cur
<1>11. CASE Expire
  <2>1. session'.status = session.status
    BY <1>11 DEF Expire, IInv, FlagsOK, Session
  <2> QED BY <1>8, <1>11, <2>1, HeldSteps DEF HeldAction, Quiet
<1>12. CASE HeldAction /\ session' = session
  BY <1>8, <1>12, HeldSteps
<1>13. HeldAction => \/ PollCompleted \/ MarkSubmitted \/ PollRunning \/ Expire
                     \/ (\E s \in DOMAIN att : Report(s)) \/ session' = session
  <2>1. CASE Quiet
    BY <2>1 DEF Quiet, Claim, AwaitCost, PauseBudget, GiveUp, Return,
         BeginHistory, StartCheck, SkipCheck,
         FailCheck, FinishCheck, HistoryBroken, YieldUnit, Publish, Abandon, Confirm,
         Continue, Crash, Sweep
  <2>2. CASE Resume \/ Execute \/ Post \/ Authorize \/ Receive \/ Acknowledge
    BY <2>2 DEF Resume, ResumeAttempt, Execute, Post, Authorize, Receive, Acknowledge
  <2>3. CASE Remote
    BY <2>3 DEF Remote, Deliver, LoseRequest, EndSession, Withdraw, SetStatus,
           PersistEnd, ExecutorCrash, Call
  <2> QED BY <2>1, <2>2, <2>3 DEF HeldAction
<1> QED BY <1>1, <1>2, <1>3, <1>4, <1>5, <1>6, <1>9, <1>10, <1>11, <1>12, <1>13, Steps
        DEF SettleAction

(* The worker's place says what the attempt has come to.                   *)
LEMMA PlaceKept ==
    ASSUME IInv, Held \/ att' = att, pc' = pc, plan'.refuted = plan.refuted
    PROVE  PlaceOK'
<1>1. CASE att' = att
  BY <1>1 DEF IInv, PlaceOK, Unsettled, Cur
<1>2. CASE Held
  <2>1. ASSUME pc \in SessionPlaces
        PROVE  /\ Cur' = Cur /\ Unsettled'
               /\ att[Cur].exec \in {"ended", "gone"} => att'[Cur].exec \in {"ended", "gone"}
               /\ \/ att'[Cur].end = att[Cur].end
                  \/ att[Cur].end = "none" \/ att[Cur].exec = "announced"
               /\ att[Cur].raw => att'[Cur].raw
               /\ att[Cur].end = "completed" /\ att[Cur].exec # "announced"
                    => att[Cur].exec \in {"ended", "gone"}
    BY <1>2, <2>1, PlacedAttempt DEF Held, Later, Good
  <2> QED BY <2>1 DEF IInv, PlaceOK, SessionPlaces
<1> QED BY <1>1, <1>2

LEMMA PlaceFree ==
    ASSUME pc' \in {"idle", "deciding", "failed", "returned"}
    PROVE  PlaceOK'
  BY DEF PlaceOK, SessionPlaces

LEMMA PlaceStep ==
    ASSUME IInv, Next
    PROVE  PlaceOK'
<1>1. CASE Claim \/ AwaitCost \/ PauseBudget \/ SplitUnit \/ GiveUp \/ Return \/ Parse
           \/ ParseReference \/ AckUnknown \/ SaveRefutations \/ FailCheck \/ HistoryBroken
           \/ YieldUnit \/ Publish \/ Abandon \/ Crash
  <2>1. pc' \in {"idle", "deciding", "failed", "returned"}
    BY <1>1 DEF Claim, AwaitCost, PauseBudget, SplitUnit, GiveUp, Return, Parse,
       ParseReference, AckUnknown, SaveRefutations, FailCheck, HistoryBroken,
       YieldUnit, Publish, Abandon, Crash, Transition, Goto
  <2> QED BY <2>1, PlaceFree
<1>2. CASE FailAction
  BY <1>2, FailActions, PlaceFree
<1>3. CASE SavePlan \/ Confirm \/ Continue \/ Expire \/ Sweep \/ PollRunning
           \/ \E u \in DOMAIN units : Retry(u)
  <2>1. att' = att /\ pc' = pc
    BY <1>3 DEF SavePlan, Confirm, Continue, Expire, Sweep, PollRunning, Retry
  <2>2. plan'.refuted = plan.refuted
    BY <1>3 DEF SavePlan, Confirm, Continue, Expire, Sweep, PollRunning, Retry, IInv, FlagsOK, Plan
  <2> QED BY <2>1, <2>2, PlaceKept
<1>4. CASE Remote
  <2>1. pc' = pc /\ plan' = plan
    BY <1>4 DEF Remote, Deliver, LoseRequest, EndSession, Withdraw, SetStatus,
           PersistEnd, ExecutorCrash, Report, Call
  <2> QED BY <1>4, <2>1, RemoteHeld, PlaceKept
<1>5. CASE Execute \/ MarkSubmitted \/ Post \/ Authorize \/ PollCompleted \/ Receive \/ Acknowledge
  <2>1. /\ pc \in SessionPlaces
        /\ pc' \in {"submit", "post", "authorize", "poll", "receive", "ack", "parse"}
        /\ pc' = "receive" => att[Cur].end = "completed" /\ att[Cur].exec = "ended"
        /\ pc' \in {"ack", "parse"} => pc \in {"receive", "ack"}
        /\ pc' = "ack" => Receive
        /\ pc' = "parse" => pc = "ack"
    BY <1>5 DEF Execute, MarkSubmitted, Post, Authorize, PollCompleted, Receive, Acknowledge,
       At, Goto, SessionPlaces
  <2>2. Held /\ Unsettled /\ Cur \in DOMAIN att /\ Good(att[Cur])
    BY <1>5, <2>1, HeldSteps, PlacedAttempt DEF HeldAction, Quiet
  <2>3. Unsettled' /\ Cur' = Cur /\ Later(att[Cur], att'[Cur])
    BY <2>2 DEF Held
  <2>4. pc' \in {"receive", "ack", "parse"} => att'[Cur].end = "completed" /\ att'[Cur].exec # "announced"
    <3>1. pc' \in {"receive", "ack", "parse"} => att[Cur].end = "completed" /\ att[Cur].exec # "announced"
      BY <2>1 DEF IInv, PlaceOK
    <3> QED BY <2>2, <2>3, <3>1 DEF Later, Good
  <2>5. pc' \in {"ack", "parse"} => att'[Cur].raw
    BY <2>1, <2>3, WorkerEditsHeld DEF IInv, PlaceOK, Later
  <2> QED BY <2>1, <2>3, <2>4, <2>5 DEF PlaceOK
<1>6. CASE Begin
  <2>1. ~ResumeAttempt(Next1) /\ StartUnit
    BY <1>6 DEF Begin, NewAttempt, ResumeAttempt
  <2>2. Unsettled' /\ pc' = "execute"
    BY <2>1, StartUnitStep
  <2> QED BY <2>2 DEF PlaceOK
<1>7. CASE Resume
  <2>1. ~NewAttempt(Next1) /\ StartUnit
    BY <1>7 DEF Resume, NewAttempt, ResumeAttempt
  <2>2. Unsettled /\ Latest(Next1) = Cur /\ UNCHANGED <<att, session, units>> /\ ResumeAttempt(Next1)
    BY <2>1, StartUnitStep
  <2>3. pc' \in {"ack", "inspect", "execute"} /\ (pc' = "ack" => att[Cur].raw)
    BY <2>2 DEF ResumeAttempt, Goto
  <2>4. att[Cur].raw => att[Cur].end = "completed" /\ att[Cur].exec # "announced"
    BY <2>2, CurrentAttempt DEF IInv, Good, Unsettled
  <2>5. Unsettled' /\ Cur' = Cur /\ att' = att
    BY <2>2 DEF Unsettled, Cur
  <2> QED BY <2>3, <2>4, <2>5 DEF PlaceOK
<1>8. CASE BeginHistory \/ StartCheck \/ SkipCheck \/ FinishCheck
  <2>1. pc' \in {"history", "checking", "checked", "failed"} /\ plan.refuted /\ plan' = plan
    BY <1>8 DEF BeginHistory, StartCheck, SkipCheck, FinishCheck, Goto, At, IInv, PlaceOK
  <2> QED BY <2>1 DEF PlaceOK, SessionPlaces
<1> QED BY <1>1, <1>2, <1>3, <1>4, <1>5, <1>6, <1>7, <1>8
        DEF Next, Worker, Operator, FailAction, StartUnit, Begin, Resume

(* Without a plan there are no units and no attempts.                      *)
LEMMA PlanStep ==
    ASSUME IInv, Next
    PROVE  PlanOK'
<1> SUFFICES ASSUME ~plan'.saved PROVE units' = <<>> /\ att' = <<>>
  BY DEF PlanOK
<1>1. plan \in Plan /\ Data /\ att \in Seq(Attempt)
  BY DEF IInv, FlagsOK, Data, AttemptsOK
<1>2. /\ ~plan.saved /\ units = <<>> /\ att = <<>> /\ Cur = 0 /\ ~Unsettled /\ Open = {}
      /\ DOMAIN units = {}
  <2>1. plan'.saved = plan.saved \/ SavePlan
    BY <1>1 DEF Plan, Next, Worker, Remote, Operator, Claim, AwaitCost, PauseBudget,
       SplitUnit, Split, GiveUp, Return, StartUnit, TooLate, Execute, MarkSubmitted, Post,
       PostRefused, Authorize, AuthorizeRefused, PollRunning, PollCompleted, PollEnded,
       PollMissing, PollExpired, InspectOpen, Receive, Acknowledge, AckUnknown, Parse,
       ParseReference, ParseInvalid, SaveRefutations, BeginHistory, StartCheck, SkipCheck,
       FailCheck, FinishCheck, HistoryBroken, YieldUnit, Publish, Abandon, Fail,
       Deliver, LoseRequest, EndSession, Withdraw, SetStatus,
              PersistEnd, ExecutorCrash, Report, Call,
       Confirm, Continue, Retry, Expire, Crash, Sweep
  <2>2. SavePlan => plan'.saved
    BY <1>1 DEF SavePlan, Plan
  <2>3. ~plan.saved
    BY <2>1, <2>2
  <2> QED BY <2>3 DEF IInv, PlanOK, Cur, Unsettled, Open
<1>3. CASE HeldAction
  <2>1. units' = units /\ Len(att') = 0 /\ att' \in Seq(Attempt)
    BY <1>2, <1>3, HeldSteps DEF Held, Cur, Data, AttemptsOK
  <2> QED BY <1>2, <2>1
<1>4. CASE SettleAction
  BY <1>2, <1>4, SettleSteps
<1>5. CASE UnitsAction
  BY <1>1, <1>2, <1>5 DEF UnitsAction, SavePlan, SplitUnit, SaveRefutations, AllDone, Deciding, Plan
<1>6. CASE Begin
  BY <1>2, <1>6 DEF Begin, StartUnit
<1> QED BY <1>3, <1>4, <1>5, <1>6, Steps

(* Nothing happens to a published job but what its sessions report.        *)
LEMMA PublishedStep ==
    ASSUME IInv, Next
    PROVE  PublishedOK'
<1> SUFFICES ASSUME status' = "published" PROVE pc' = "idle" /\ plan'.refuted /\ Complete'
  BY DEF PublishedOK
<1>1. CASE Publish
  <2>1. /\ pc' = "idle" /\ plan' = plan /\ units' = units /\ checks' = checks
        /\ Complete /\ plan.refuted
    BY <1>1 DEF Publish, Transition, At, IInv, PlaceOK
  <2> QED BY <2>1 DEF Complete, Open
<1>2. CASE Remote \/ Expire
  <2>1. /\ pc' = pc /\ plan' = plan /\ checks' = checks /\ status' = status
    BY <1>2 DEF Remote, Deliver, LoseRequest, EndSession, Withdraw, SetStatus,
           PersistEnd, ExecutorCrash, Report, Call, Expire
  <2>2. units' = units
    BY <1>2, HeldSteps DEF HeldAction, Quiet, Held
  <2> QED BY <2>1, <2>2 DEF IInv, PublishedOK, Complete, Open
<1>3. CASE status = "published" /\ pc = "idle" /\ ~Remote /\ ~Expire /\ ~Publish
  BY <1>3 DEF Next, Worker, Operator, Claim, SavePlan, AwaitCost, PauseBudget,
       SplitUnit, GiveUp, Return, StartUnit, TooLate, Execute, MarkSubmitted, Post,
       PostRefused, Authorize, AuthorizeRefused, PollRunning, PollCompleted, PollEnded,
       PollMissing, PollExpired, InspectOpen, Receive, Acknowledge, AckUnknown, Parse,
       ParseReference, ParseInvalid, SaveRefutations, AllDone, BeginHistory, StartCheck, SkipCheck,
       FailCheck, FinishCheck, HistoryBroken, YieldUnit, Abandon, Deciding, At,
       Confirm, Continue, Retry, Crash, Sweep, Waiting
<1>4. status = "published" \/ Publish
  BY DEF Next, Worker, Remote, Operator, Claim, SavePlan, AwaitCost, PauseBudget,
       SplitUnit, GiveUp, Return, StartUnit, TooLate, Execute, MarkSubmitted, Post,
       PostRefused, Authorize, AuthorizeRefused, PollRunning, PollCompleted, PollEnded,
       PollMissing, PollExpired, InspectOpen, Receive, Acknowledge, AckUnknown, Parse,
       ParseReference, ParseInvalid, SaveRefutations, BeginHistory, StartCheck, SkipCheck,
       FailCheck, FinishCheck, HistoryBroken, YieldUnit, Abandon, Fail,
       Deliver, LoseRequest, EndSession, Withdraw, SetStatus,
              PersistEnd, ExecutorCrash, Report, Call,
       Confirm, Continue, Retry, Expire, Crash, Sweep, Transition
<1> QED BY <1>1, <1>2, <1>3, <1>4 DEF IInv, PublishedOK

-----------------------------------------------------------------------------
(* The types of the job's columns, one by one.                             *)
LEMMA StatusStep ==
    ASSUME IInv, Next
    PROVE  /\ status' \in {"queued", "running", "published"} \cup Waiting
           /\ pc' \in Places /\ cap' \in BOOLEAN
<1>1. /\ status \in {"queued", "running", "published"} \cup Waiting
      /\ pc \in Places /\ cap \in BOOLEAN
  BY DEF IInv, FlagsOK
<1>2. CASE AwaitCost \/ PauseBudget \/ GiveUp \/ Return \/ HistoryBroken \/ YieldUnit \/ Publish
  <2>1. /\ pc' = "idle" /\ cap' = FALSE
        /\ status' \in {"awaiting_cost", "budget_paused", "incomplete", "queued", "published"}
    BY <1>2 DEF AwaitCost, PauseBudget, GiveUp, Return, HistoryBroken, YieldUnit, Publish, Transition
  <2> QED BY <2>1 DEF Places, Waiting
<1>3. CASE Claim \/ SavePlan \/ SplitUnit \/ SaveRefutations
  BY <1>1, <1>3 DEF Claim, SavePlan, SplitUnit, SaveRefutations, Goto, Places
<1>4. CASE BeginHistory \/ StartCheck \/ SkipCheck \/ FailCheck \/ FinishCheck \/ Abandon
  BY <1>1, <1>4 DEF BeginHistory, StartCheck, SkipCheck, FailCheck, FinishCheck, Abandon,
       Goto, Places
<1>5. CASE StartUnit \/ Execute \/ MarkSubmitted \/ Post \/ Authorize \/ PollRunning
           \/ PollCompleted \/ Receive \/ Acknowledge \/ AckUnknown \/ Parse \/ ParseReference
  BY <1>1, <1>5 DEF StartUnit, NewAttempt, ResumeAttempt, Execute, MarkSubmitted, Post,
       Authorize, PollRunning, PollCompleted, Receive, Acknowledge, AckUnknown, Parse,
       ParseReference, Goto, Places
<1>6. CASE FailAction
  BY <1>1, <1>6, FailActions DEF Places
<1>7. CASE Remote
  BY <1>1, <1>7 DEF Remote, Deliver, LoseRequest, EndSession, Withdraw, SetStatus,
         PersistEnd, ExecutorCrash, Report, Call
<1>8. CASE Operator
  <2>1. status' \in {"queued", "awaiting_cost"} /\ UNCHANGED <<pc, cap>>
    BY <1>8 DEF Operator, Confirm, Continue, Retry
  <2> QED BY <1>1, <2>1 DEF Waiting
<1>9. CASE Expire \/ Crash \/ Sweep
  BY <1>1, <1>9 DEF Expire, Crash, Sweep, Goto, Places
<1> QED BY <1>2, <1>3, <1>4, <1>5, <1>6, <1>7, <1>8, <1>9 DEF Next, Worker, FailAction

LEMMA CostsStep ==
    ASSUME IInv, Next
    PROVE  plan' \in Plan
<1>1. plan \in Plan /\ plan.max \in Nat /\ plan.base \in Nat
  BY DEF IInv, FlagsOK, Plan
<1>2. CASE SavePlan
  <2>1. PICK first \in InitialUnits, max \in Nat :
           /\ max = 4 * Len(first) + Cardinality(Checks)
           /\ plan' = [plan EXCEPT !.saved = TRUE, !.max = max,
                                   !.base = Len(first) + Cardinality(Checks),
                                   !.authorized = IF max <= AutoCalls THEN max ELSE 0]
    <3>1. PICK first \in InitialUnits :
             plan' = [plan EXCEPT !.saved = TRUE, !.max = 4 * Len(first) + Cardinality(Checks),
                        !.base = Len(first) + Cardinality(Checks),
                        !.authorized = IF 4 * Len(first) + Cardinality(Checks) <= AutoCalls
                                       THEN 4 * Len(first) + Cardinality(Checks) ELSE 0]
      BY <1>2 DEF SavePlan
    <3>2. Len(first) \in Nat
      BY Constants
    <3>3. 4 * Len(first) + Cardinality(Checks) \in Nat
      BY <3>2, Constants
    <3> QED BY <3>1, <3>3
  <2>2. Len(first) + Cardinality(Checks) \in Nat
    BY Constants
  <2>3. \A b, a \in Nat : [plan EXCEPT !.saved = TRUE, !.max = max, !.base = b, !.authorized = a] \in Plan
    BY <1>1 DEF Plan
  <2> QED BY <2>1, <2>2, <2>3
<1>3. CASE SplitUnit
  BY <1>3, SplitStep
<1>4. CASE SaveRefutations
  <2>1. PICK groups \in Groupings :
           plan' = [plan EXCEPT !.refuted = TRUE,
              !.max = Larger(@, 2 * (plan.base - Cardinality(Checks) + Len(groups)) + Cardinality(Checks))]
    BY <1>4 DEF SaveRefutations
  <2>2. Len(groups) \in Nat
    BY Constants
  <2>3. 2 * (plan.base - Cardinality(Checks) + Len(groups)) + Cardinality(Checks) \in Int
    BY <1>1, <2>2, Constants
  <2>4. Larger(plan.max, 2 * (plan.base - Cardinality(Checks) + Len(groups)) + Cardinality(Checks)) \in Nat
    BY <1>1, <2>3 DEF Larger
  <2>5. \A m \in Nat : [plan EXCEPT !.refuted = TRUE, !.max = m] \in Plan
    BY <1>1 DEF Plan
  <2> QED BY <2>1, <2>4, <2>5
<1>5. CASE Operator
  <2>1. CASE Confirm
    BY <1>1, <2>1 DEF Confirm, Plan
  <2>2. CASE Continue
    BY <1>1, <2>2 DEF Continue
  <2>3. ASSUME NEW u \in DOMAIN units, Retry(u) PROVE plan' \in Plan
    BY <1>1, <2>3 DEF Retry, Plan
  <2> QED BY <1>5, <2>1, <2>2, <2>3 DEF Operator
<1>6. CASE plan' = plan
  BY <1>1, <1>6
<1>7. Next => SavePlan \/ SplitUnit \/ SaveRefutations \/ Operator \/ plan' = plan
  <2>1. FailAction => plan' = plan
    BY FailActions
  <2>2. Remote => plan' = plan
    BY DEF Remote, Deliver, LoseRequest, EndSession, Withdraw, SetStatus,
           PersistEnd, ExecutorCrash, Report, Call
  <2> QED BY <2>1, <2>2 DEF Next, Worker, FailAction, Claim, AwaitCost, PauseBudget,
       GiveUp, Return, StartUnit, Execute, MarkSubmitted, Post, Authorize, PollRunning,
       PollCompleted, Receive, Acknowledge, AckUnknown, Parse, ParseReference,
       BeginHistory, StartCheck, SkipCheck, FailCheck, FinishCheck, HistoryBroken,
       YieldUnit, Publish, Abandon, Expire, Crash, Sweep
<1> QED BY <1>2, <1>3, <1>4, <1>5, <1>6, <1>7

LEMMA SessionColumns ==
    ASSUME IInv, Next
    PROVE  session' \in Session
<1>1. session \in Session /\ att \in Seq(Attempt) /\ \A s \in DOMAIN att : att[s] \in Attempt
  BY DEF IInv, FlagsOK, Data, AttemptsOK
<1>2. CASE FailAction
  BY <1>2, FailActions
<1>3. CASE Begin
  BY <1>3 DEF Begin, NewAttempt, NoSession, Session, SessionStatus
<1>4. CASE MarkSubmitted \/ PollRunning \/ PollCompleted \/ Parse \/ Expire
  BY <1>1, <1>4 DEF MarkSubmitted, PollRunning, PollCompleted, Parse, Expire, Session,
     SessionStatus, Ended
<1>5. ASSUME NEW s \in DOMAIN att, Report(s) PROVE session' \in Session
  <2>1. att[s].end # "none" => att[s].end \in Ended
    BY <1>1 DEF Attempt
  <2>2. PICK event \in {"running"} \cup Ended : Told(event)
    BY <1>5, <2>1 DEF Report, Ended
  <2> QED BY <1>1, <2>2 DEF Told, Session, SessionStatus
<1>6. CASE session' = session
  BY <1>1, <1>6
<1>7. Next => \/ FailAction \/ Begin \/ MarkSubmitted \/ PollRunning \/ PollCompleted
              \/ Parse \/ Expire \/ session' = session \/ \E s \in DOMAIN att : Report(s)
  <2>1. Remote => session' = session \/ \E s \in DOMAIN att : Report(s)
    BY DEF Remote, Deliver, LoseRequest, EndSession, Withdraw, SetStatus,
           PersistEnd, ExecutorCrash, Call
  <2>2. StartUnit => Begin \/ session' = session
    BY DEF StartUnit, Begin, ResumeAttempt
  <2> QED BY <2>1, <2>2 DEF Next, Worker, Operator, FailAction, Claim, SavePlan, AwaitCost,
       PauseBudget, SplitUnit, GiveUp, Return, Execute, Post, Authorize, Receive,
       Acknowledge, AckUnknown, ParseReference, SaveRefutations,
       BeginHistory, StartCheck, SkipCheck, FailCheck, FinishCheck, HistoryBroken,
       YieldUnit, Publish, Abandon, Crash, Sweep, Confirm, Continue, Retry
<1> QED BY <1>2, <1>3, <1>4, <1>5, <1>6, <1>7

LEMMA CountersStep ==
    ASSUME IInv, Next
    PROVE  /\ checks' \in [Checks -> {"queued", "started", "done", "failed"}]
           /\ calls' \in Nat /\ faults' \in 0..MaxFaults
<1>1. /\ checks \in [Checks -> {"queued", "started", "done", "failed"}]
      /\ calls \in Nat /\ faults \in 0..MaxFaults /\ MaxFaults \in Nat
  BY Constants DEF IInv, FlagsOK
<1>2. Fault => faults' \in 0..MaxFaults
  BY <1>1 DEF Fault
<1>3. CASE StartCheck \/ SkipCheck \/ FailCheck \/ FinishCheck
  <2>1. \E h \in Checks, to \in {"queued", "started", "done", "failed"} :
           checks' = [checks EXCEPT ![h] = to]
    <3>1. CASE StartCheck
      BY <3>1 DEF StartCheck, Unchecked
    <3>2. CASE SkipCheck
      BY <3>2 DEF SkipCheck, Unchecked
    <3>3. CASE FailCheck
      BY <3>3 DEF FailCheck, Unchecked
    <3>4. CASE FinishCheck
      <4>1. PICK h \in Checks, ok \in BOOLEAN :
               checks' = [checks EXCEPT ![h] = IF ok THEN "done" ELSE "failed"]
        BY <3>4 DEF FinishCheck, Broken
      <4> QED BY <4>1
    <3> QED BY <1>3, <3>1, <3>2, <3>3, <3>4
  <2>2. calls' \in Nat /\ (UNCHANGED faults \/ Fault)
    BY <1>1, <1>3 DEF StartCheck, SkipCheck, FailCheck, FinishCheck
  <2> QED BY <1>1, <1>2, <2>1, <2>2
<1>4. CASE FailAction
  BY <1>1, <1>2, <1>4, FailActions
<1>5. CASE Remote
  <2>1. PICK s \in DOMAIN att :
           \/ Deliver(s) \/ LoseRequest(s) \/ EndSession(s) \/ Withdraw(s) \/ SetStatus(s)
           \/ PersistEnd(s) \/ ExecutorCrash(s) \/ Report(s) \/ Call(s)
    BY <1>5 DEF Remote
  <2>2. checks' = checks /\ (UNCHANGED faults \/ Fault)
    BY <2>1 DEF Deliver, LoseRequest, EndSession, Withdraw, SetStatus,
           PersistEnd, ExecutorCrash, Report, Call
  <2>3. calls' \in Nat
    <3>1. calls' = calls \/ calls' = calls + 1
      BY <2>1 DEF Deliver, LoseRequest, EndSession, Withdraw, SetStatus,
             PersistEnd, ExecutorCrash, Report, Call
    <3> QED BY <3>1, <1>1
  <2> QED BY <1>1, <1>2, <2>2, <2>3
<1>6. CASE UNCHANGED <<checks, calls>> /\ (UNCHANGED faults \/ Fault)
  BY <1>1, <1>2, <1>6
<1>7. Next => \/ StartCheck \/ SkipCheck \/ FailCheck \/ FinishCheck \/ FailAction \/ Remote
              \/ (UNCHANGED <<checks, calls>> /\ (UNCHANGED faults \/ Fault))
  BY DEF Next, Worker, Operator, FailAction, Claim, SavePlan, AwaitCost, PauseBudget,
       SplitUnit, GiveUp, Return, StartUnit, Execute, MarkSubmitted, Post, Authorize,
       PollRunning, PollCompleted, Receive, Acknowledge, AckUnknown, Parse, ParseReference,
       SaveRefutations, BeginHistory, HistoryBroken,
       YieldUnit, Publish, Abandon, Expire, Crash, Sweep, Confirm, Continue, Retry
<1> QED BY <1>3, <1>4, <1>5, <1>6, <1>7

LEMMA InitIInv == Init => IInv
<1> SUFFICES ASSUME Init PROVE IInv
  OBVIOUS
<1>1. FlagsOK
  <2>1. 0 \in 0..MaxFaults
    BY Constants
  <2> QED BY <2>1 DEF Init, FlagsOK, Places, Plan, Session, SessionStatus, NoSession
<1>2. units \in Seq(Unit) /\ att \in Seq(Attempt) /\ DOMAIN units = {} /\ DOMAIN att = {} /\ Cur = 0
  BY DEF Init, Cur
<1>3. Data
  BY <1>2 DEF Data, AttemptsOK, PastOK, FirstOK, DoneOK, LastOK, Unsettled
<1>4. SessionOK /\ PlaceOK /\ PlanOK /\ PublishedOK
  BY DEF Init, SessionOK, ReportedEnd, PlaceOK, PlanOK, PublishedOK, NoSession, Ended, SessionPlaces
<1> QED BY <1>1, <1>3, <1>4 DEF IInv

LEMMA StepIInv == IInv /\ [Next]_vars => IInv'
<1> SUFFICES ASSUME IInv, [Next]_vars PROVE IInv'
  OBVIOUS
<1>1. CASE Next
  <2>1. FlagsOK'
    BY <1>1, StatusStep, CostsStep, SessionColumns, CountersStep DEF FlagsOK
  <2> QED BY <1>1, <2>1, DataStep, SessionStep, PlaceStep, PlanStep, PublishedStep DEF IInv
<1>2. CASE UNCHANGED vars
  <2>1. Data'
    BY <1>2, UnchangedHeld DEF Held, IInv, vars
  <2>2. FlagsOK' /\ SessionOK' /\ PlaceOK' /\ PlanOK' /\ PublishedOK'
    BY <1>2 DEF vars, IInv, FlagsOK, SessionOK, ReportedEnd, PlaceOK, PlanOK, PublishedOK, Unsettled, Cur,
       Complete, Open
  <2> QED BY <2>1, <2>2 DEF IInv
<1> QED BY <1>1, <1>2

THEOREM Invariance == Spec => []IInv
  BY InitIInv, StepIInv, PTL DEF Spec

(* Every variable keeps its type.                                          *)
THEOREM TypeCorrect == Spec => []TypeOK
<1>1. IInv => TypeOK
  BY TypeParts DEF IInv, Data, AttemptsOK
<1> QED BY <1>1, Invariance, PTL

(* A session calls the model once, whoever holds its capability and        *)
(* however often the job was taken over (broker.py).                       *)
THEOREM SessionCallsOnce == Spec => []OneCallPerSession
<1>1. IInv => OneCallPerSession
  BY DEF IInv, Data, AttemptsOK, Good, OneCallPerSession
<1> QED BY <1>1, Invariance, PTL

(* A result is persisted before the executor may forget it, and a unit is  *)
(* done by the accepted result of its latest session only.                 *)
THEOREM ResultsAreKept == Spec => []ResultKept
<1>1. ASSUME IInv PROVE ResultKept
  <2>1. /\ att \in Seq(Attempt) /\ \A s \in DOMAIN att : Good(att[s])
        /\ Data
    BY <1>1 DEF IInv, Data, AttemptsOK
  <2>2. \A s \in DOMAIN att : att[s].released => att[s].raw
    BY <2>1 DEF Good
  <2>3. ASSUME NEW u \in DOMAIN units, units[u].state = "done"
        PROVE  \E s \in DOMAIN att : /\ s = Latest(u) /\ att[s].state = "done"
                                     /\ att[s].raw /\ att[s].end = "completed" /\ att[s].outcome = "good"
    <3>1. PICK s \in DOMAIN att : LastOf(s, u) /\ att[s].state = "done"
      BY <2>1, <2>3 DEF Data, DoneOK
    <3>2. Latest(u) = s
      BY <2>1, <3>1, LatestAttempt
    <3>3. att[s].raw /\ att[s].outcome = "good" /\ att[s].end = "completed"
      BY <2>1, <3>1 DEF Good
    <3> QED BY <3>1, <3>2, <3>3
  <2> QED BY <2>2, <2>3 DEF ResultKept
<1> QED BY <1>1, Invariance, PTL

(* The session columns of the job belong to the attempt being executed.    *)
THEOREM ColumnsFit == Spec => []SessionRowFits
<1>1. ASSUME IInv PROVE SessionRowFits
  <2>1. ASSUME pc \in SessionPlaces
        PROVE  /\ Open # {} /\ Latest(Next1) = Cur
               /\ pc \in {"ack", "parse"} => att[Cur].raw /\ att[Cur].end = "completed"
    <3>1. Data /\ Unsettled
      BY <1>1, <2>1 DEF IInv, PlaceOK
    <3>2. Open # {} /\ Latest(Next1) = Cur
      BY <3>1, UnsettledIsLatest
    <3> QED BY <3>2, <1>1 DEF IInv, PlaceOK
  <2> QED BY <2>1 DEF SessionRowFits, SessionPlaces
<1> QED BY <1>1, Invariance, PTL

-----------------------------------------------------------------------------
(***************************************************************************)
(* BatchPlan implements SessionContract for the sessions of the job.       *)
(* First the steps of the contract, in terms of what it sees of them.      *)
(***************************************************************************)
BStep == [Contract!Next]_(Contract!vars)
Numbers == 1..MaxSessions

(* All but session s look the same.                                        *)
OthersSeen(s) ==
    \A t \in Numbers \ {s} : /\ RunSeen(t)' = RunSeen(t) /\ EndSeen(t)' = EndSeen(t)
                             /\ CustodySeen(t)' = CustodySeen(t)

LEMMA SameSeen ==
    ASSUME AskedSeen' = AskedSeen,
           \A t \in Numbers : /\ RunSeen(t)' = RunSeen(t) /\ EndSeen(t)' = EndSeen(t)
                              /\ CustodySeen(t)' = CustodySeen(t)
    PROVE  BStep
  BY DEF BStep, Contract!vars, Numbers

LEMMA AskSeen ==
    ASSUME NEW s \in Numbers, s \notin AskedSeen, AskedSeen' = AskedSeen \cup {s},
           \A t \in Numbers : t < s => EndSeen(t) \in Contract!Reported,
           \A t \in Numbers : /\ RunSeen(t)' = RunSeen(t) /\ EndSeen(t)' = EndSeen(t)
                              /\ CustodySeen(t)' = CustodySeen(t)
    PROVE  BStep
<1>1. Contract!Ask(s)
  BY DEF Contract!Ask, Numbers
<1> QED BY <1>1 DEF BStep, Contract!Next, Numbers

LEMMA RunSeenChanges ==
    ASSUME NEW s \in Numbers, OthersSeen(s), AskedSeen' = AskedSeen,
           CustodySeen(s)' = CustodySeen(s),
           \/ /\ RunSeen(s) = "absent" /\ RunSeen(s)' = "running" /\ s \in AskedSeen
              /\ \A t \in Numbers : RunSeen(t) # "running"
              /\ EndSeen(s)' = EndSeen(s)
           \/ /\ RunSeen(s) = "running" /\ RunSeen(s)' = "over"
              /\ EndSeen(s)' = Contract!Settled(EndSeen(s))
    PROVE  BStep
<1>1. /\ \A t \in Numbers : t # s => RunSeen(t)' = RunSeen(t) /\ EndSeen(t)' = EndSeen(t)
      /\ \A t \in Numbers : CustodySeen(t)' = CustodySeen(t)
  BY DEF OthersSeen
<1>2. /\ [t \in Numbers |-> RunSeen(t)'] = [[t \in Numbers |-> RunSeen(t)] EXCEPT ![s] = RunSeen(s)']
      /\ [t \in Numbers |-> EndSeen(t)'] = [[t \in Numbers |-> EndSeen(t)] EXCEPT ![s] = EndSeen(s)']
  BY <1>1
<1>3. Contract!Begin(s) \/ Contract!Stop(s)
  BY <1>1, <1>2 DEF Contract!Begin, Contract!Stop, Numbers
<1> QED BY <1>3 DEF BStep, Contract!Next, Numbers

LEMMA EndSeenChanges ==
    ASSUME NEW s \in Numbers, OthersSeen(s), AskedSeen' = AskedSeen,
           RunSeen(s) = "running", RunSeen(s)' = "running",
           \/ /\ EndSeen(s) = "none" /\ EndSeen(s)' = "announced" /\ CustodySeen(s)' = "made"
           \/ /\ EndSeen(s) = "none" /\ EndSeen(s)' \in {"failed", "unclear"}
              /\ CustodySeen(s)' = CustodySeen(s)
           \/ /\ EndSeen(s) = "announced" /\ EndSeen(s)' = "completed"
              /\ CustodySeen(s)' = CustodySeen(s)
           \/ /\ EndSeen(s) = "announced" /\ EndSeen(s)' = "failed" /\ CustodySeen(s)' = "none"
    PROVE  BStep
<1>1. /\ \A t \in Numbers : RunSeen(t)' = RunSeen(t)
      /\ \A t \in Numbers : t # s => EndSeen(t)' = EndSeen(t) /\ CustodySeen(t)' = CustodySeen(t)
  BY DEF OthersSeen
<1>2. /\ [t \in Numbers |-> EndSeen(t)'] = [[t \in Numbers |-> EndSeen(t)] EXCEPT ![s] = EndSeen(s)']
      /\ [t \in Numbers |-> CustodySeen(t)']
           = [[t \in Numbers |-> CustodySeen(t)] EXCEPT ![s] = CustodySeen(s)']
  BY <1>1
<1>3. Contract!Complete(s) \/ Contract!Miss(s) \/ Contract!Settle(s) \/ Contract!Withdraw(s)
  <2>1. CASE EndSeen(s) = "none" /\ EndSeen(s)' = "announced" /\ CustodySeen(s)' = "made"
    BY <1>1, <1>2, <2>1 DEF Contract!Complete, Numbers
  <2>2. CASE /\ EndSeen(s) = "none" /\ EndSeen(s)' \in {"failed", "unclear"}
             /\ CustodySeen(s)' = CustodySeen(s)
    BY <1>1, <1>2, <2>2 DEF Contract!Miss, Numbers
  <2>3. CASE /\ EndSeen(s) = "announced" /\ EndSeen(s)' = "completed"
             /\ CustodySeen(s)' = CustodySeen(s)
    BY <1>1, <1>2, <2>3 DEF Contract!Settle, Numbers
  <2>4. CASE EndSeen(s) = "announced" /\ EndSeen(s)' = "failed" /\ CustodySeen(s)' = "none"
    BY <1>1, <1>2, <2>4 DEF Contract!Withdraw, Numbers
  <2> QED BY <2>1, <2>2, <2>3, <2>4
<1> QED BY <1>3 DEF BStep, Contract!Next, Numbers

LEMMA CustodySeenChanges ==
    ASSUME NEW s \in Numbers, OthersSeen(s), AskedSeen' = AskedSeen,
           RunSeen(s)' = RunSeen(s), EndSeen(s)' = EndSeen(s), EndSeen(s) = "completed",
           \/ CustodySeen(s) = "made" /\ CustodySeen(s)' = "accepted"
           \/ CustodySeen(s) = "accepted" /\ CustodySeen(s)' = "released"
    PROVE  BStep
<1>1. /\ \A t \in Numbers : RunSeen(t)' = RunSeen(t) /\ EndSeen(t)' = EndSeen(t)
      /\ \A t \in Numbers : t # s => CustodySeen(t)' = CustodySeen(t)
  BY DEF OthersSeen
<1>2. [t \in Numbers |-> CustodySeen(t)']
        = [[t \in Numbers |-> CustodySeen(t)] EXCEPT ![s] = CustodySeen(s)']
  BY <1>1
<1>3. Contract!Accept(s) \/ Contract!Release(s)
  BY <1>1, <1>2 DEF Contract!Accept, Contract!Release, Numbers
<1> QED BY <1>3 DEF BStep, Contract!Next, Numbers

-----------------------------------------------------------------------------
(***************************************************************************)
(* Two more invariants: a request leaves, or has left, only for a session  *)
(* marked as submitted; and whatever ran before a session that began is    *)
(* recorded or lost.                                                       *)
(***************************************************************************)
AskedOK ==
    /\ Cur <= MaxSessions
    /\ pc = "post" => session.submitted
    /\ Cur > 0 /\ (att[Cur].exec # "absent" \/ att[Cur].net # "none") => session.submitted
OverOK ==
    /\ \A s \in DOMAIN att : att[s].kept => att[s].exec = "ended"
    /\ \A s, t \in DOMAIN att :
          s < t /\ att[t].exec # "absent" => att[s].exec = "gone" \/ att[s].kept

Alike(a, b) == /\ b.exec = a.exec /\ b.end = a.end /\ b.kept = a.kept
               /\ b.raw = a.raw /\ b.released = a.released

(* What the contract sees of the attempts depends on these columns only.   *)
LEMMA AlikeSeen ==
    ASSUME DOMAIN att' = DOMAIN att, NEW s, s \in DOMAIN att => Alike(att[s], att'[s])
    PROVE  /\ RunSeen(s)' = RunSeen(s) /\ EndSeen(s)' = EndSeen(s)
           /\ CustodySeen(s)' = CustodySeen(s)
  BY DEF Alike, RunSeen, EndSeen, CustodySeen

(* Steps that change nothing the contract sees.                            *)
Calm ==
    /\ Cur' = Cur /\ DOMAIN att' = DOMAIN att
    /\ \A s \in DOMAIN att : Alike(att[s], att'[s])
    /\ session'.submitted = session.submitted

LEMMA CalmStep ==
    ASSUME Calm
    PROVE  BStep /\ (OverOK => OverOK')
<1>1. AskedSeen' = AskedSeen
  BY DEF Calm, AskedSeen
<1>2. BStep
  BY <1>1, AlikeSeen, SameSeen DEF Calm
<1>3. OverOK => OverOK'
  BY DEF Calm, OverOK, Alike
<1> QED BY <1>2, <1>3

LEMMA CalmAsked ==
    ASSUME Calm, AskedOK, att \in Seq(Attempt), pc' = "post" => pc = "post",
           Cur > 0 /\ att'[Cur].net # "none" => att[Cur].net # "none" \/ session.submitted
    PROVE  AskedOK'
<1>1. Cur' = Cur /\ session'.submitted = session.submitted
  BY DEF Calm
<1>2. Cur > 0 => att'[Cur].exec = att[Cur].exec
  BY DEF Calm, Alike, Cur
<1> QED BY <1>1, <1>2 DEF AskedOK

LEMMA StillCalm ==
    ASSUME att' = att, session'.submitted = session.submitted
    PROVE  Calm
  BY DEF Calm, Alike, Cur

(* One attempt is edited.                                                  *)
LEMMA EditSeen ==
    ASSUME Data, NEW s \in DOMAIN att, NEW a, Edit(s, a)
    PROVE  /\ DOMAIN att' = DOMAIN att /\ att'[s] = a /\ OthersSeen(s)
           /\ \A t \in DOMAIN att : t # s => att'[t] = att[t]
<1>1. /\ DOMAIN att' = DOMAIN att /\ att'[s] = a
      /\ \A t \in DOMAIN att : t # s => att'[t] = att[t]
  BY DEF Data, AttemptsOK, Edit
<1>2. ASSUME NEW t, t # s
      PROVE  /\ RunSeen(t)' = RunSeen(t) /\ EndSeen(t)' = EndSeen(t)
             /\ CustodySeen(t)' = CustodySeen(t)
  <2>1. t \in DOMAIN att => Alike(att[t], att'[t])
    BY <1>1, <1>2 DEF Alike
  <2> QED BY <1>1, <2>1, AlikeSeen
<1> QED BY <1>1, <1>2 DEF OthersSeen

LEMMA EditCalm ==
    ASSUME Data, NEW s \in DOMAIN att, NEW a, Edit(s, a), Alike(att[s], a),
           Cur' = Cur, session'.submitted = session.submitted
    PROVE  Calm /\ att'[s] = a /\ \A t \in DOMAIN att : t # s => att'[t] = att[t]
<1>1. /\ DOMAIN att' = DOMAIN att /\ att'[s] = a
      /\ \A t \in DOMAIN att : t # s => att'[t] = att[t]
  BY EditSeen
<1>2. \A t \in DOMAIN att : Alike(att[t], att'[t])
  BY <1>1 DEF Alike
<1> QED BY <1>1, <1>2 DEF Calm

(* The columns that no session begins, ends or is released by.             *)
LEMMA AlikeEdits ==
    ASSUME NEW a \in Attempt, NEW st, NEW n, NEW k, NEW c
    PROVE  /\ Alike(a, [a EXCEPT !.state = st]) /\ [a EXCEPT !.state = st].net = a.net
           /\ Alike(a, [a EXCEPT !.net = n]) /\ [a EXCEPT !.net = n].net = n
           /\ Alike(a, [a EXCEPT !.token = k]) /\ [a EXCEPT !.token = k].net = a.net
           /\ Alike(a, [a EXCEPT !.calls = c]) /\ [a EXCEPT !.calls = c].net = a.net
  BY DEF Alike, Attempt

LEMMA PostOnly ==
    ASSUME Next, ~MarkSubmitted, pc' = "post"
    PROVE  pc = "post"
<1>1. CASE Claim \/ SavePlan \/ AwaitCost \/ PauseBudget \/ SplitUnit \/ GiveUp \/ Return
           \/ StartUnit \/ TooLate \/ Execute \/ Post \/ PostRefused \/ Authorize \/ AuthorizeRefused
  BY <1>1 DEF Claim, SavePlan, AwaitCost, PauseBudget, SplitUnit, GiveUp, Return, StartUnit,
       NewAttempt, ResumeAttempt, TooLate, Execute, Post, PostRefused, Authorize,
       AuthorizeRefused, Goto, Transition, Fail
<1>2. CASE PollRunning \/ PollCompleted \/ PollEnded \/ PollMissing \/ PollExpired \/ InspectOpen
           \/ Receive \/ Acknowledge \/ AckUnknown \/ Parse \/ ParseReference \/ ParseInvalid
  BY <1>2 DEF PollRunning, PollCompleted, PollEnded, PollMissing, PollExpired, InspectOpen,
       Receive, Acknowledge, AckUnknown, Parse, ParseReference, ParseInvalid, Goto, Fail
<1>3. CASE SaveRefutations \/ BeginHistory \/ StartCheck \/ SkipCheck \/ FailCheck \/ FinishCheck
           \/ HistoryBroken \/ YieldUnit \/ Publish \/ Abandon
  BY <1>3 DEF SaveRefutations, BeginHistory, StartCheck, SkipCheck, FailCheck, FinishCheck,
       HistoryBroken, YieldUnit, Publish, Abandon, Goto, Transition
<1>4. CASE Remote
  BY <1>4 DEF Remote, Deliver, LoseRequest, EndSession, Withdraw, SetStatus,
         PersistEnd, ExecutorCrash, Report, Call
<1>5. CASE Operator \/ Expire \/ Crash \/ Sweep
  BY <1>5 DEF Operator, Confirm, Continue, Retry, Expire, Crash, Sweep, Goto
<1> QED BY <1>1, <1>2, <1>3, <1>4, <1>5 DEF Next, Worker

-----------------------------------------------------------------------------
(***************************************************************************)
(* Each step: what the contract makes of it, and both invariants.          *)
(***************************************************************************)
Kept == BStep /\ AskedOK' /\ OverOK'

LEMMA CalmKept ==
    ASSUME Calm, AskedOK, OverOK, Data, pc' = "post" => pc = "post",
           Cur > 0 /\ att'[Cur].net # "none" => att[Cur].net # "none" \/ session.submitted
    PROVE  Kept
  BY CalmStep, CalmAsked DEF Kept, Data, AttemptsOK

LEMMA StillKept ==
    ASSUME AskedOK, OverOK, Data, att' = att, session'.submitted = session.submitted,
           pc' = "post" => pc = "post"
    PROVE  Kept
  BY StillCalm, CalmKept

(* Neither attempts nor the submission change.                             *)
StillAction ==
    \/ Quiet /\ ~MarkSubmitted
    \/ Resume \/ UnitsAction \/ \E s \in DOMAIN att : Report(s)

LEMMA StillSteps ==
    ASSUME IInv, StillAction
    PROVE  att' = att /\ session'.submitted = session.submitted
<1>1. session \in Session
  BY DEF IInv, FlagsOK
<1>2. CASE Quiet /\ ~MarkSubmitted
  <2>1. CASE PollRunning \/ PollCompleted \/ Expire
    BY <1>1, <2>1 DEF PollRunning, PollCompleted, Expire, Session
  <2>2. CASE ~(PollRunning \/ PollCompleted \/ Expire)
    BY <1>2, <2>2 DEF Quiet, Claim, AwaitCost, PauseBudget, GiveUp, Return, BeginHistory,
         StartCheck, SkipCheck, FailCheck, FinishCheck, HistoryBroken, YieldUnit, Publish,
         Abandon, Confirm, Continue, Crash, Sweep
  <2> QED BY <2>1, <2>2
<1>3. CASE Resume \/ UnitsAction
  BY <1>3 DEF Resume, ResumeAttempt, UnitsAction, SavePlan, SplitUnit, SaveRefutations, Retry
<1>4. ASSUME NEW s \in DOMAIN att, Report(s)
      PROVE  att' = att /\ session'.submitted = session.submitted
  BY <1>1, <1>4 DEF Report, Told, Session
<1> QED BY <1>2, <1>3, <1>4 DEF StillAction

(* The attempt is settled; its session is what it was.                     *)
LEMMA SettleKept ==
    ASSUME IInv, AskedOK, OverOK, Next, FailAction \/ Parse \/ ParseReference
    PROVE  Kept
<1>1. /\ Data /\ Unsettled /\ Cur' = Cur /\ session \in Session
      /\ Cur \in DOMAIN att /\ att[Cur] \in Attempt
  BY SettleSteps, CurrentAttempt DEF SettleAction, IInv, FlagsOK, SameEnd, Unsettled
<1>2. /\ \E st, to : Settle(st, to)
      /\ session'.submitted = session.submitted /\ pc' # "post"
  <2>1. CASE \E r : Fail(r)
    BY <1>1, <2>1 DEF Fail, Session, Goto
  <2>2. CASE Parse \/ ParseReference
    BY <1>1, <2>2 DEF Parse, ParseReference, Session, Goto
  <2> QED BY <2>1, <2>2 DEF FailAction, TooLate, PostRefused, AuthorizeRefused, PollEnded,
             PollMissing, PollExpired, InspectOpen, ParseInvalid
<1>3. PICK st : Edit(Cur, [att[Cur] EXCEPT !.state = st])
  BY <1>2 DEF Settle
<1>4. Calm /\ att'[Cur].net = att[Cur].net
  <2> DEFINE a == [att[Cur] EXCEPT !.state = st]
  <2>1. Edit(Cur, a) /\ Alike(att[Cur], a) /\ a.net = att[Cur].net
    BY <1>1, <1>3, AlikeEdits
  <2> HIDE DEF a
  <2> QED BY <1>1, <1>2, <2>1, EditCalm
<1> QED BY <1>1, <1>2, <1>4, CalmKept

(* Asking again ages what is under way in every attempt and nothing else.  *)
LEMMA StaleKeeps ==
    ASSUME NEW s \in DOMAIN att, att[s] \in Attempt
    PROVE  /\ Alike(att[s], Stale(att)[s])
           /\ Stale(att)[s].net # "none" => att[s].net # "none"
<1> DEFINE n == IF att[s].net = "fresh" THEN "stale" ELSE att[s].net
           k == IF att[s].token = "fresh" THEN "stale" ELSE att[s].token
<1>1. Stale(att)[s] = [att[s] EXCEPT !.net = n, !.token = k]
  BY DEF Stale
<1>2. n # "none" => att[s].net # "none"
  OBVIOUS
<1> HIDE DEF n, k
<1>3. /\ Alike(att[s], [att[s] EXCEPT !.net = n, !.token = k])
      /\ [att[s] EXCEPT !.net = n, !.token = k].net = n
  BY DEF Alike, Attempt
<1> QED BY <1>1, <1>2, <1>3

LEMMA SendKept ==
    ASSUME IInv, AskedOK, OverOK, Next, Execute \/ Post \/ Authorize
    PROVE  Kept
<1>1. /\ Data /\ Cur \in DOMAIN att /\ \A s \in DOMAIN att : att[s] \in Attempt
      /\ Cur' = Cur /\ session' = session /\ ~MarkSubmitted
  <2>1. pc \in SessionPlaces /\ session' = session /\ ~MarkSubmitted
    BY DEF Execute, Post, Authorize, MarkSubmitted, At, SessionPlaces
  <2> QED BY <2>1, PlacedAttempt, HeldSteps DEF IInv, Data, AttemptsOK, HeldAction, Held
<1>2. CASE Execute
  <2>1. DOMAIN att' = DOMAIN att /\ \A s \in DOMAIN att : att'[s] = Stale(att)[s]
    BY <1>2 DEF Execute, Stale
  <2>2. \A s \in DOMAIN att : Alike(att[s], att'[s])
    BY <1>1, <2>1, StaleKeeps
  <2>3. att'[Cur].net # "none" => att[Cur].net # "none"
    BY <1>1, <2>1, StaleKeeps
  <2>4. Calm
    BY <1>1, <2>1, <2>2 DEF Calm
  <2> QED BY <1>1, <2>3, <2>4, CalmKept, PostOnly
<1>3. CASE Post
  <2>1. \E n : Edit(Cur, [att[Cur] EXCEPT !.net = n])
    BY <1>3 DEF Post
  <2>2. Calm
    BY <1>1, <2>1, AlikeEdits, EditCalm
  <2>3. session.submitted
    BY <1>3 DEF Post, AskedOK
  <2> QED BY <1>1, <2>2, <2>3, CalmKept, PostOnly
<1>4. CASE Authorize
  <2>1. CASE Edit(Cur, [att[Cur] EXCEPT !.token = "fresh"])
    <3>1. Calm /\ att'[Cur].net = att[Cur].net
      <4> DEFINE a == [att[Cur] EXCEPT !.token = "fresh"]
      <4>1. Edit(Cur, a) /\ Alike(att[Cur], a) /\ a.net = att[Cur].net
        BY <1>1, <2>1, AlikeEdits
      <4> HIDE DEF a
      <4> QED BY <1>1, <4>1, EditCalm
    <3> QED BY <1>1, <3>1, CalmKept, PostOnly
  <2>2. CASE att' = att
    BY <1>1, <2>2, StillKept, PostOnly
  <2> QED BY <1>4, <2>1, <2>2 DEF Authorize
<1> QED BY <1>2, <1>3, <1>4

(* The session of the last attempt is asked for.                           *)
LEMMA MarkKept ==
    ASSUME IInv, AskedOK, OverOK, MarkSubmitted
    PROVE  Kept
<1>1. /\ att \in Seq(Attempt) /\ Cur = Len(att) /\ DOMAIN att = 1..Cur /\ Cur \in DOMAIN att
      /\ \A s \in DOMAIN att : Good(att[s]) /\ (s # Cur => att[s].state \in Settled)
      /\ Cur \in Numbers
  <2>1. pc \in SessionPlaces
    BY DEF MarkSubmitted, At, SessionPlaces
  <2> QED BY <2>1, PlacedAttempt, Constants DEF IInv, Data, AttemptsOK, PastOK, Cur, AskedOK, Numbers
<1>2. att' = att /\ ~session.submitted /\ session'.submitted /\ pc' = "post"
  BY DEF MarkSubmitted, Goto, IInv, FlagsOK, Session
<1>3. Cur \notin AskedSeen /\ AskedSeen' = AskedSeen \cup {Cur}
  BY <1>1, <1>2 DEF AskedSeen, Cur
<1>4. \A t \in Numbers : t < Cur => EndSeen(t) \in Contract!Reported
  BY <1>1 DEF EndSeen, Good, Known, Numbers, Contract!Reported, Contract!Known
<1>5. ASSUME NEW t \in Numbers
      PROVE  /\ RunSeen(t)' = RunSeen(t) /\ EndSeen(t)' = EndSeen(t)
             /\ CustodySeen(t)' = CustodySeen(t)
  BY <1>2 DEF RunSeen, EndSeen, CustodySeen
<1>6. BStep
  BY <1>1, <1>3, <1>4, <1>5, AskSeen
<1>7. AskedOK' /\ OverOK'
  BY <1>2 DEF AskedOK, OverOK, Cur
<1> QED BY <1>6, <1>7 DEF Kept

(* A new attempt is prepared; the one before it was asked for.             *)
LEMMA BeginKept ==
    ASSUME IInv, AskedOK, OverOK, Begin
    PROVE  Kept
<1>1. /\ att \in Seq(Attempt) /\ Cur = Len(att) /\ DOMAIN att = 1..Cur /\ Cur \in Nat
      /\ \A s \in DOMAIN att : Good(att[s]) /\ att[s] \in Attempt
      /\ Data
  BY DEF IInv, Data, AttemptsOK, Cur
<1>2. ~Unsettled
  <2>1. LatestState(Next1) \in {"none"} \cup Settled
    BY DEF Begin, NewAttempt, Settled
  <2> QED BY <1>1, <2>1, NoneUnsettled
<1>3. /\ att' = Append(att, NewRow(Next1)) /\ Len(att) < MaxSessions
      /\ session'.submitted = FALSE /\ pc' # "post"
  BY DEF Begin, NewAttempt, NewRow, NoSession, Goto
<1>4. /\ Cur' = Cur + 1 /\ DOMAIN att' = 1..Cur + 1 /\ att'[Cur + 1] = NewRow(Next1)
      /\ \A s \in 1..Cur : att'[s] = att[s]
  BY <1>1, <1>3 DEF Cur
<1>5. Cur > 0 => session.submitted
  <2>1. Cur > 0 => Cur \in DOMAIN att /\ att[Cur].state \in Settled
    BY <1>1, <1>2 DEF Unsettled
  <2>2. Cur > 0 => att[Cur].exec # "absent"
    BY <1>1, <2>1 DEF Good, Known
  <2> QED BY <2>2 DEF AskedOK
<1>6. AskedSeen' = AskedSeen
  <2>1. AskedSeen = 1..Cur
    BY <1>1, <1>5 DEF AskedSeen
  <2>2. AskedSeen' = 1..Cur
    BY <1>1, <1>3, <1>4 DEF AskedSeen
  <2> QED BY <2>1, <2>2
<1>7. ASSUME NEW t \in Numbers
      PROVE  /\ RunSeen(t)' = RunSeen(t) /\ EndSeen(t)' = EndSeen(t)
             /\ CustodySeen(t)' = CustodySeen(t)
  <2>1. CASE t \in 1..Cur
    BY <1>1, <1>4, <2>1 DEF RunSeen, EndSeen, CustodySeen
  <2>2. CASE t = Cur + 1
    BY <1>1, <1>4, <2>2 DEF RunSeen, EndSeen, CustodySeen, NewRow
  <2>3. CASE t \notin 1..Cur + 1
    BY <1>1, <1>4, <2>3 DEF RunSeen, EndSeen, CustodySeen
  <2> QED BY <1>1, <2>1, <2>2, <2>3
<1>8. BStep
  BY <1>6, <1>7, SameSeen
<1>9. AskedOK'
  BY <1>1, <1>3, <1>4, Constants DEF AskedOK, NewRow
<1>10. OverOK'
  <2>1. NewRow(Next1).exec = "absent" /\ ~NewRow(Next1).kept
    BY DEF NewRow
  <2>2. \A s \in DOMAIN att' : s \in DOMAIN att \/ s = Cur + 1
    BY <1>1, <1>4
  <2>3. \A s \in DOMAIN att' : att'[s].kept => att'[s].exec = "ended"
    BY <1>1, <1>4, <2>1, <2>2 DEF OverOK
  <2>4. ASSUME NEW s \in DOMAIN att', NEW t \in DOMAIN att', s < t, att'[t].exec # "absent"
        PROVE  att'[s].exec = "gone" \/ att'[s].kept
    <3>1. t \in DOMAIN att
      BY <1>4, <2>1, <2>2, <2>4
    <3>2. s \in DOMAIN att
      BY <1>1, <1>4, <2>4, <3>1
    <3> QED BY <1>1, <1>4, <2>4, <3>1, <3>2 DEF OverOK
  <2> QED BY <2>3, <2>4 DEF OverOK
<1> QED BY <1>8, <1>9, <1>10 DEF Kept

(* The result is persisted, or one that was persisted is released.         *)
CustodyChanges(b, a) ==
    /\ a.exec = b.exec /\ a.end = b.end /\ a.kept = b.kept /\ a.net = b.net /\ a.raw
    /\ a.released = b.released \/ (b.raw /\ (b.released => a.released))

LEMMA CustodyKept ==
    ASSUME IInv, AskedOK, OverOK, Receive \/ Acknowledge \/ AckUnknown
    PROVE  Kept
<1>0. /\ Data /\ Cur \in DOMAIN att /\ att[Cur] \in Attempt /\ Good(att[Cur])
      /\ att[Cur].end = "completed" /\ att[Cur].exec # "announced"
      /\ DOMAIN att = 1..Cur /\ Cur \in Numbers
  <2>1. pc \in SessionPlaces /\ pc \in {"receive", "ack", "parse"}
    BY DEF Receive, Acknowledge, AckUnknown, At, SessionPlaces
  <2>2. Cur \in DOMAIN att /\ DOMAIN att = 1..Cur /\ Data
    BY <2>1, PlacedAttempt DEF IInv, Data, AttemptsOK, Cur
  <2>3. Cur \in Numbers
    BY <2>2, Constants DEF AskedOK, Numbers, Cur
  <2> QED BY <2>1, <2>2, <2>3, PlacedAttempt DEF IInv, PlaceOK
<1>1. PICK c \in Numbers : c = Cur
  BY <1>0
<1>2. /\ Data /\ c \in DOMAIN att /\ att[c] \in Attempt /\ Good(att[c])
      /\ att[c].end = "completed" /\ att[c].exec # "announced" /\ DOMAIN att = 1..c
      /\ pc = "ack" => att[c].raw
  BY <1>0, <1>1 DEF IInv, PlaceOK
<1>3. PICK a : Edit(c, a) /\ CustodyChanges(att[c], a)
  <2>1. CASE Receive
    <3>1. Edit(c, [att[c] EXCEPT !.raw = TRUE, !.state = "received"])
      BY <1>1, <2>1 DEF Receive
    <3>2. CustodyChanges(att[c], [att[c] EXCEPT !.raw = TRUE, !.state = "received"])
      BY <1>2 DEF CustodyChanges, Attempt
    <3> QED BY <3>1, <3>2
  <2>2. CASE Acknowledge
    <3>1. Edit(c, [att[c] EXCEPT !.released = TRUE]) /\ att[c].raw
      BY <1>1, <1>2, <2>2 DEF Acknowledge, At
    <3>2. CustodyChanges(att[c], [att[c] EXCEPT !.released = TRUE])
      BY <1>2, <3>1 DEF CustodyChanges, Attempt
    <3> QED BY <3>1, <3>2
  <2>3. CASE AckUnknown
    <3>1. PICK r : Edit(c, [att[c] EXCEPT !.released = @ \/ r, !.state = "unknown"])
      BY <1>1, <2>3 DEF AckUnknown
    <3>2. att[c].raw
      BY <1>2, <2>3 DEF AckUnknown, At
    <3>3. CustodyChanges(att[c], [att[c] EXCEPT !.released = @ \/ r, !.state = "unknown"])
      BY <1>2, <3>2 DEF CustodyChanges, Attempt
    <3> QED BY <3>1, <3>3
  <2> QED BY <2>1, <2>2, <2>3
<1>4. /\ DOMAIN att' = DOMAIN att /\ att'[c] = a /\ OthersSeen(c)
      /\ \A t \in DOMAIN att : t # c => att'[t] = att[t]
  BY <1>2, <1>3, EditSeen
<1>5. session' = session /\ pc' # "post" /\ Cur' = Cur
  <2>1. session' = session /\ pc' # "post"
    BY DEF Receive, Acknowledge, AckUnknown, Goto
  <2> QED BY <2>1, HeldSteps, SettleSteps DEF HeldAction, SettleAction, Held, SameEnd
<1>6. AskedSeen' = AskedSeen
  BY <1>4, <1>5 DEF AskedSeen
<1>7. RunSeen(c)' = RunSeen(c) /\ EndSeen(c)' = EndSeen(c) /\ EndSeen(c) = "completed"
  BY <1>2, <1>3, <1>4 DEF RunSeen, EndSeen, CustodyChanges
<1>8. \/ CustodySeen(c)' = CustodySeen(c)
      \/ CustodySeen(c) = "made" /\ CustodySeen(c)' = "accepted"
      \/ CustodySeen(c) = "accepted" /\ CustodySeen(c)' = "released"
  BY <1>2, <1>3, <1>4 DEF CustodySeen, Good, CustodyChanges
<1>9. BStep
  <2>1. CASE CustodySeen(c)' = CustodySeen(c)
    BY <1>6, <1>7, <2>1, <1>4, SameSeen DEF OthersSeen
  <2>2. CASE CustodySeen(c)' # CustodySeen(c)
    BY <1>1, <1>4, <1>6, <1>7, <1>8, <2>2, CustodySeenChanges
  <2> QED BY <2>1, <2>2
<1>10. AskedOK' /\ OverOK'
  <2>1. \A s \in DOMAIN att : att'[s].exec = att[s].exec /\ att'[s].kept = att[s].kept
    BY <1>3, <1>4 DEF CustodyChanges
  <2>2. att'[c].net = att[c].net
    BY <1>3, <1>4 DEF CustodyChanges
  <2> QED BY <1>1, <1>2, <1>4, <1>5, <2>1, <2>2 DEF AskedOK, OverOK
<1> QED BY <1>9, <1>10 DEF Kept

-----------------------------------------------------------------------------
(***************************************************************************)
(* The executor's steps: a session begins, ends, is recorded or lost.      *)
(***************************************************************************)
LEMMA DeliverKept ==
    ASSUME IInv, AskedOK, OverOK, NEW s \in DOMAIN att, Deliver(s), MayStart(s), Cur' = Cur
    PROVE  Kept
<1>1. /\ Data /\ att \in Seq(Attempt) /\ DOMAIN att = 1..Cur /\ Cur \in Nat /\ s \in 1..Cur
      /\ \A t \in DOMAIN att : /\ att[t] \in Attempt /\ Good(att[t])
                               /\ t # Cur => att[t].state \in Settled
  BY DEF IInv, Data, AttemptsOK, PastOK, Cur
<1>2. DOMAIN att \subseteq Numbers
  BY <1>1, Constants DEF AskedOK, Numbers
<1>3. att[s].exec = "absent" /\ att[s].net # "none" /\ s \notin Started
  BY DEF Deliver, MayStart, Started
<1>4. s = Cur /\ session.submitted
  BY <1>1, <1>3 DEF Good, Known, AskedOK
<1>5. \A t \in DOMAIN att : t < s => t \in Started /\ (att[t].exec = "gone" \/ att[t].kept)
  <2> SUFFICES ASSUME NEW t \in DOMAIN att, t < s
               PROVE  t \in Started /\ (att[t].exec = "gone" \/ att[t].kept)
    OBVIOUS
  <2>1. \A v \in DOMAIN att : v < s => v \in Started
    BY <1>1, <1>4 DEF Good, Known, Started
  <2>2. CASE t = s - 1
    <3>1. \A v \in Started : v <= t
      BY <1>1, <1>3, <1>4, <2>2 DEF Started
    <3> QED BY <2>1, <3>1 DEF MayStart
  <2>3. CASE t # s - 1
    <3>1. s - 1 \in DOMAIN att /\ t < s - 1
      BY <1>1, <2>3
    <3>2. att[s - 1].exec # "absent"
      BY <1>1, <2>1, <3>1 DEF Started
    <3>3. att[t].exec = "gone" \/ att[t].kept
      BY <3>1, <3>2 DEF OverOK
    <3> QED BY <2>1, <3>3
  <2> QED BY <2>2, <2>3
<1>6. PICK a \in Attempt : /\ Edit(s, a) /\ a.exec = "running" /\ a.net = "none"
                           /\ a.end = att[s].end /\ a.kept = att[s].kept
                           /\ a.raw = att[s].raw /\ a.released = att[s].released
  <2>1. Edit(s, [att[s] EXCEPT !.net = "none", !.exec = "running", !.token = att[s].net])
    BY DEF Deliver
  <2>2. att[s] \in Attempt
    BY <1>1
  <2>3. [att[s] EXCEPT !.net = "none", !.exec = "running", !.token = att[s].net] \in Attempt
    BY <2>2 DEF Attempt
  <2> QED BY <2>1, <2>2, <2>3 DEF Attempt
<1>7. /\ DOMAIN att' = DOMAIN att /\ att'[s] = a /\ OthersSeen(s)
      /\ \A t \in DOMAIN att : t # s => att'[t] = att[t]
  BY <1>1, <1>6, EditSeen
<1>8. session' = session /\ pc' = pc
  BY DEF Deliver
<1>9. AskedSeen' = AskedSeen /\ s \in AskedSeen
  BY <1>4, <1>7, <1>8 DEF AskedSeen
<1>10. EndSeen(s)' = EndSeen(s) /\ CustodySeen(s)' = CustodySeen(s)
  <2>1. att[s].end = "none" /\ a.end = "none"
    BY <1>1, <1>3, <1>6 DEF Good
  <2> QED BY <1>7, <2>1 DEF EndSeen, CustodySeen
<1>11. RunSeen(s) = "absent" /\ RunSeen(s)' = "running"
  <2>1. ~a.kept
    BY <1>1, <1>3, <1>6 DEF OverOK, Attempt
  <2> QED BY <1>3, <1>6, <1>7, <2>1 DEF RunSeen
<1>12. \A t \in Numbers : RunSeen(t) # "running"
  <2> SUFFICES ASSUME NEW t \in Numbers PROVE RunSeen(t) # "running"
    OBVIOUS
  <2>1. t \in DOMAIN att => t = s \/ t < s
    BY <1>1, <1>4
  <2> QED BY <1>3, <1>5, <2>1 DEF RunSeen
<1>13. BStep
  BY <1>2, <1>7, <1>9, <1>10, <1>11, <1>12, RunSeenChanges
<1>14. AskedOK'
  BY <1>4, <1>8 DEF AskedOK
<1>15. OverOK'
  <2>1. ~a.kept
    BY <1>1, <1>3, <1>6 DEF OverOK, Attempt
  <2>2. \A t \in DOMAIN att' : att'[t].kept => att'[t].exec = "ended"
    BY <1>6, <1>7, <2>1 DEF OverOK
  <2>3. ASSUME NEW t \in DOMAIN att', NEW v \in DOMAIN att', t < v, att'[v].exec # "absent"
        PROVE  att'[t].exec = "gone" \/ att'[t].kept
    <3>1. t < s /\ t # s /\ att'[t] = att[t]
      BY <1>1, <1>4, <1>7, <2>3
    <3> QED BY <1>5, <1>7, <3>1
  <2> QED BY <2>2, <2>3 DEF OverOK
<1> QED BY <1>13, <1>14, <1>15 DEF Kept

(* The end of a session, its withdrawal, its record, and its loss.         *)
RunChanges(b, a) ==
    /\ a.net = b.net /\ a.raw = b.raw /\ a.released = b.released
    /\ \/ /\ b.exec = "running" /\ a.exec = "announced" /\ a.kept = b.kept
          /\ a.end \in Ended \ {"aborted"}
       \/ /\ b.exec = "announced" /\ a.exec = "announced" /\ a.kept = b.kept
          /\ b.end = "completed" /\ a.end = "aborted"
       \/ b.exec = "announced" /\ a.exec = "ended" /\ a.kept = b.kept /\ a.end = b.end
       \/ b.exec = "ended" /\ ~b.kept /\ a.exec = "ended" /\ a.kept /\ a.end = b.end
       \/ /\ b.exec \in {"running", "announced", "ended"} /\ ~b.kept
          /\ a.exec = "gone" /\ ~a.kept /\ a.end = b.end

LEMMA RunEdits ==
    ASSUME NEW s \in DOMAIN att, att[s] \in Attempt,
           \/ EndSession(s) \/ Withdraw(s) \/ SetStatus(s) \/ PersistEnd(s) \/ ExecutorCrash(s)
    PROVE  \E a : Edit(s, a) /\ RunChanges(att[s], a)
<1>1. CASE EndSession(s)
  <2>1. PICK end \in Ended \ {"aborted"}, outcome \in {"good", "reference", "length", "other"} :
           Edit(s, [att[s] EXCEPT !.exec = "announced", !.token = "none", !.end = end, !.outcome = outcome])
    BY <1>1 DEF EndSession
  <2>2. RunChanges(att[s], [att[s] EXCEPT !.exec = "announced", !.token = "none", !.end = end, !.outcome = outcome])
    BY <1>1 DEF EndSession, RunChanges, Attempt
  <2> QED BY <2>1, <2>2
<1>2. CASE Withdraw(s)
  <2>1. PICK outcome \in {"length", "other"} :
           Edit(s, [att[s] EXCEPT !.end = "aborted", !.outcome = outcome])
    BY <1>2 DEF Withdraw
  <2>2. RunChanges(att[s], [att[s] EXCEPT !.end = "aborted", !.outcome = outcome])
    BY <1>2 DEF Withdraw, RunChanges, Attempt
  <2> QED BY <2>1, <2>2
<1>3. CASE SetStatus(s)
  <2>1. RunChanges(att[s], [att[s] EXCEPT !.exec = "ended"])
    BY <1>3 DEF SetStatus, RunChanges, Attempt
  <2> QED BY <1>3, <2>1 DEF SetStatus
<1>4. CASE PersistEnd(s)
  <2>1. RunChanges(att[s], [att[s] EXCEPT !.kept = TRUE])
    BY <1>4 DEF PersistEnd, RunChanges, Attempt
  <2> QED BY <1>4, <2>1 DEF PersistEnd
<1>5. CASE ExecutorCrash(s)
  <2>1. RunChanges(att[s], [att[s] EXCEPT !.exec = "gone", !.token = "none"])
    BY <1>5 DEF ExecutorCrash, RunChanges, Attempt
  <2> QED BY <1>5, <2>1 DEF ExecutorCrash
<1> QED BY <1>1, <1>2, <1>3, <1>4, <1>5

LEMMA RunKept ==
    ASSUME IInv, AskedOK, OverOK, NEW s \in DOMAIN att, Cur' = Cur,
           \/ EndSession(s) \/ Withdraw(s) \/ SetStatus(s) \/ PersistEnd(s) \/ ExecutorCrash(s)
    PROVE  Kept
<1>1. /\ Data /\ att \in Seq(Attempt) /\ DOMAIN att = 1..Cur /\ Cur \in Nat /\ s \in 1..Cur
      /\ att[s] \in Attempt /\ Good(att[s])
  BY DEF IInv, Data, AttemptsOK, Cur
<1>2. s \in Numbers
  BY <1>1, Constants DEF AskedOK, Numbers
<1>3. PICK a : Edit(s, a) /\ RunChanges(att[s], a)
  BY <1>1, RunEdits
<1>4. /\ DOMAIN att' = DOMAIN att /\ att'[s] = a /\ OthersSeen(s)
      /\ \A t \in DOMAIN att : t # s => att'[t] = att[t]
  BY <1>1, <1>3, EditSeen
<1>5. session' = session /\ pc' = pc
  BY DEF EndSession, Withdraw, SetStatus, PersistEnd, ExecutorCrash
<1>6. AskedSeen' = AskedSeen
  BY <1>4, <1>5 DEF AskedSeen
<1>7. att[s].kept => att[s].exec = "ended"
  BY DEF OverOK
<1>8. BStep
  <2>1. CASE /\ att[s].exec \in {"running", "announced"} /\ a.exec \in {"announced", "ended"}
             /\ a.kept = att[s].kept
    <3>1. ~att[s].kept /\ ~att[s].raw /\ ~att[s].released
      BY <1>1, <1>7, <2>1 DEF Good
    <3>2. RunSeen(s) = "running" /\ RunSeen(s)' = "running"
      BY <1>4, <2>1, <3>1 DEF RunSeen
    <3>3. CASE att[s].exec = "running"
      <4>1. att[s].end = "none" /\ a.exec = "announced" /\ a.end \in Ended \ {"aborted"}
        BY <1>1, <1>3, <2>1, <3>3 DEF Good, RunChanges
      <4>2. EndSeen(s) = "none" /\ CustodySeen(s) = "none"
        BY <4>1 DEF EndSeen, CustodySeen
      <4>3. \/ EndSeen(s)' = "announced" /\ CustodySeen(s)' = "made"
            \/ EndSeen(s)' \in {"failed", "unclear"} /\ CustodySeen(s)' = "none"
        BY <1>3, <1>4, <3>1, <4>1 DEF EndSeen, CustodySeen, Ended, RunChanges
      <4> QED BY <1>2, <1>4, <1>6, <3>2, <4>2, <4>3, EndSeenChanges
    <3>4. CASE att[s].exec = "announced" /\ att[s].end = "completed"
      <4>1. EndSeen(s) = "announced" /\ CustodySeen(s) = "made"
        BY <3>1, <3>4 DEF EndSeen, CustodySeen
      <4>2. \/ EndSeen(s)' = "completed" /\ CustodySeen(s)' = "made"
            \/ EndSeen(s)' = "failed" /\ CustodySeen(s)' = "none"
        BY <1>3, <1>4, <2>1, <3>1, <3>4 DEF EndSeen, CustodySeen, RunChanges
      <4> QED BY <1>2, <1>4, <1>6, <3>2, <4>1, <4>2, EndSeenChanges
    <3>5. CASE att[s].exec = "announced" /\ att[s].end # "completed"
      <4>1. a.end = att[s].end
        BY <1>3, <2>1, <3>5 DEF RunChanges
      <4>2. EndSeen(s)' = EndSeen(s) /\ CustodySeen(s)' = CustodySeen(s)
        BY <1>4, <3>5, <4>1 DEF EndSeen, CustodySeen
      <4> QED BY <1>4, <1>6, <3>2, <4>2, SameSeen DEF OthersSeen
    <3> QED BY <2>1, <3>3, <3>4, <3>5
  <2>2. CASE /\ att[s].exec \in {"running", "announced", "ended"} /\ ~att[s].kept
             /\ a.end = att[s].end
             /\ a.exec = "gone" \/ (att[s].exec = "ended" /\ a.exec = "ended" /\ a.kept)
    <3>1. RunSeen(s) = "running" /\ RunSeen(s)' = "over"
      BY <1>4, <2>2 DEF RunSeen
    <3>2. EndSeen(s)' = Contract!Settled(EndSeen(s)) /\ CustodySeen(s)' = CustodySeen(s)
      BY <1>1, <1>3, <1>4, <2>2 DEF EndSeen, CustodySeen, RunChanges, Contract!Settled, Attempt, Ended
    <3> QED BY <1>2, <1>4, <1>6, <3>1, <3>2, RunSeenChanges
  <2> QED BY <1>3, <2>1, <2>2 DEF RunChanges
<1>9. \A t \in DOMAIN att : /\ att'[t].exec # "absent" <=> att[t].exec # "absent"
                            /\ att'[t].net = att[t].net
                            /\ att'[t].kept => att'[t].exec = "ended"
                            /\ att[t].exec = "gone" \/ att[t].kept
                                 => att'[t].exec = "gone" \/ att'[t].kept
  BY <1>3, <1>4, <1>7 DEF OverOK, RunChanges
<1>10. AskedOK' /\ OverOK'
  BY <1>1, <1>4, <1>5, <1>9 DEF AskedOK, OverOK
<1> QED BY <1>8, <1>10 DEF Kept

LEMMA RemoteKept ==
    ASSUME IInv, AskedOK, OverOK, Next, Remote
    PROVE  Kept
<1>1. Cur' = Cur /\ Data /\ \A s \in DOMAIN att : att[s] \in Attempt
  BY HeldSteps DEF HeldAction, Held, IInv, Data, AttemptsOK
<1>2. PICK s \in DOMAIN att :
         \/ Deliver(s) \/ LoseRequest(s) \/ EndSession(s) \/ Withdraw(s) \/ SetStatus(s)
         \/ PersistEnd(s) \/ ExecutorCrash(s) \/ Report(s) \/ Call(s)
  BY DEF Remote
<1>3. pc' = pc
  BY <1>2 DEF Deliver, LoseRequest, EndSession, Withdraw, SetStatus,
         PersistEnd, ExecutorCrash, Report, Call
<1>4. CASE Deliver(s) /\ MayStart(s)
  BY <1>1, <1>4, DeliverKept
<1>5. CASE EndSession(s) \/ Withdraw(s) \/ SetStatus(s) \/ PersistEnd(s) \/ ExecutorCrash(s)
  BY <1>1, <1>5, RunKept
<1>6. CASE Report(s)
  <2>1. att' = att /\ session'.submitted = session.submitted
    BY <1>6, StillSteps DEF StillAction
  <2> QED BY <1>1, <1>3, <2>1, StillKept
<1>7. CASE (Deliver(s) /\ ~MayStart(s)) \/ LoseRequest(s)
  <2>1. Edit(s, [att[s] EXCEPT !.net = "none"]) /\ session' = session
    BY <1>7 DEF Deliver, LoseRequest
  <2>2. Calm /\ att'[s].net = "none" /\ \A t \in DOMAIN att : t # s => att'[t] = att[t]
    <3> DEFINE a == [att[s] EXCEPT !.net = "none"]
    <3>1. Edit(s, a) /\ Alike(att[s], a) /\ a.net = "none"
      BY <1>1, <2>1, AlikeEdits
    <3> HIDE DEF a
    <3> QED BY <1>1, <2>1, <3>1, EditCalm
  <2>3. Cur > 0 => Cur \in DOMAIN att
    BY DEF IInv, Data, AttemptsOK, Cur
  <2>4. Cur > 0 /\ att'[Cur].net # "none" => att[Cur].net # "none"
    BY <2>2, <2>3
  <2> QED BY <1>1, <1>3, <2>2, <2>4, CalmKept
<1>8. CASE Call(s)
  <2>1. (\E c : Edit(s, [att[s] EXCEPT !.calls = c])) /\ session' = session
    BY <1>8 DEF Call
  <2>2. Calm /\ att'[s].net = att[s].net /\ \A t \in DOMAIN att : t # s => att'[t] = att[t]
    <3>1. PICK c : Edit(s, [att[s] EXCEPT !.calls = c])
      BY <2>1
    <3> DEFINE a == [att[s] EXCEPT !.calls = c]
    <3>2. Edit(s, a) /\ Alike(att[s], a) /\ a.net = att[s].net
      BY <1>1, <3>1, AlikeEdits
    <3> HIDE DEF a
    <3> QED BY <1>1, <2>1, <3>2, EditCalm
  <2>3. Cur > 0 => Cur \in DOMAIN att
    BY DEF IInv, Data, AttemptsOK, Cur
  <2>4. Cur > 0 /\ att'[Cur].net # "none" => att[Cur].net # "none"
    BY <2>2, <2>3
  <2> QED BY <1>1, <1>3, <2>2, <2>4, CalmKept
<1> QED BY <1>2, <1>4, <1>5, <1>6, <1>7, <1>8

-----------------------------------------------------------------------------
LEMMA KeptNext ==
    ASSUME IInv, AskedOK, OverOK, [Next]_vars
    PROVE  Kept
<1>1. CASE Next /\ MarkSubmitted
  BY <1>1, MarkKept
<1>2. CASE Next /\ ~MarkSubmitted /\ StillAction
  <2>1. pc' = "post" => pc = "post"
    BY <1>2, PostOnly
  <2>2. Data
    BY DEF IInv
  <2> QED BY <1>2, <2>1, <2>2, StillSteps, StillKept
<1>3. CASE Next /\ (FailAction \/ Parse \/ ParseReference)
  BY <1>3, SettleKept
<1>4. CASE Next /\ (Execute \/ Post \/ Authorize)
  BY <1>4, SendKept
<1>5. CASE Next /\ (Receive \/ Acknowledge \/ AckUnknown)
  BY <1>5, CustodyKept
<1>6. CASE Next /\ Begin
  BY <1>6, BeginKept
<1>7. CASE Next /\ Remote
  BY <1>7, RemoteKept
<1>8. CASE UNCHANGED vars
  <2>1. att' = att /\ session' = session /\ pc' = pc /\ Data
    BY <1>8 DEF vars, IInv
  <2> QED BY <2>1, StillKept
<1>9. Next => \/ MarkSubmitted \/ StillAction \/ FailAction \/ Parse \/ ParseReference
              \/ Execute \/ Post \/ Authorize \/ Receive \/ Acknowledge \/ AckUnknown
              \/ Begin \/ Remote
  BY Steps DEF HeldAction, SettleAction, StillAction
<1> QED BY <1>1, <1>2, <1>3, <1>4, <1>5, <1>6, <1>7, <1>8, <1>9

LEMMA KeptInit == Init => AskedOK /\ OverOK /\ Contract!Init
<1> SUFFICES ASSUME Init PROVE AskedOK /\ OverOK /\ Contract!Init
  OBVIOUS
<1>1. att = <<>> /\ Cur = 0 /\ DOMAIN att = {} /\ pc = "idle"
  BY DEF Init, Cur
<1>2. AskedOK /\ OverOK
  BY <1>1, Constants DEF AskedOK, OverOK
<1>3. AskedSeen = {}
  BY <1>1 DEF AskedSeen
<1>4. \A s : RunSeen(s) = "absent" /\ EndSeen(s) = "none" /\ CustodySeen(s) = "none"
  BY <1>1 DEF RunSeen, EndSeen, CustodySeen
<1> QED BY <1>2, <1>3, <1>4 DEF Contract!Init

LEMMA OverInvariance == Spec => [](IInv /\ AskedOK /\ OverOK)
<1>1. Init => AskedOK /\ OverOK
  BY KeptInit
<1>2. IInv /\ AskedOK /\ OverOK /\ [Next]_vars => AskedOK' /\ OverOK'
  BY KeptNext DEF Kept
<1> QED BY <1>1, <1>2, Invariance, PTL DEF Spec

(* No session is prepared before the end of all others was reported, and   *)
(* none runs beside another (batch_worker.py: an unknown outcome is not    *)
(* tried again; the executor starts none before the last one is recorded). *)
THEOREM SessionsInTurn == Spec => []OneSessionAtATime
<1>1. ASSUME IInv, OverOK PROVE OneSessionAtATime
  <2>1. /\ att \in Seq(Attempt) /\ Cur = Len(att) /\ DOMAIN att = 1..Len(att)
        /\ \A s \in DOMAIN att : Good(att[s]) /\ (s # Cur => att[s].state \in Settled)
    BY <1>1 DEF IInv, Data, AttemptsOK, PastOK, Cur
  <2>2. ASSUME NEW s \in DOMAIN att, s # Cur
        PROVE  att[s].end \in Known /\ att[s].exec \notin {"absent", "running"}
    BY <2>1, <2>2 DEF Good, Known
  <2> DEFINE R == {s \in DOMAIN att : Live(s)}
  <2>3. ASSUME NEW s \in R, NEW t \in R, s < t PROVE FALSE
    <3>1. att[s].exec = "gone" \/ (att[s].kept /\ att[s].exec = "ended")
      BY <1>1, <2>3 DEF OverOK, Live
    <3> QED BY <3>1 DEF Live
  <2>4. R = {} \/ \E s : R = {s}
    <3>1. \A s, t \in R : s = t
      BY <2>1, <2>3
    <3> QED BY <3>1
  <2>5. Cardinality(R) <= 1
    <3> HIDE DEF R
    <3>1. CASE R = {}
      BY <3>1, FS_EmptySet
    <3>2. ASSUME NEW s, R = {s} PROVE Cardinality(R) <= 1
      <4>1. Cardinality({s}) = 1
        BY FS_Singleton
      <4> QED BY <3>2, <4>1
    <3> QED BY <2>4, <3>1, <3>2
  <2> QED BY <2>1, <2>2, <2>5 DEF OneSessionAtATime
<1> QED BY <1>1, OverInvariance, PTL

(* A published plan is complete: every unit and every earlier issue, the   *)
(* refutations planned, and no session left running (publish.py).          *)
THEOREM PublicationComplete == Spec => []PublishedComplete
<1>1. ASSUME IInv, OverOK, status = "published"
      PROVE  /\ plan.refuted /\ Complete
             /\ \A s \in DOMAIN att : att[s].end \in Known /\ ~Live(s)
  <2>1. plan.refuted /\ Complete /\ Open = {} /\ Data
    BY <1>1 DEF IInv, PublishedOK, Complete
  <2>2. ~Unsettled
    BY <2>1, NoneUnsettled
  <2>3. /\ DOMAIN att = 1..Cur /\ Cur \in Nat
        /\ \A s \in DOMAIN att : att[s].state \in Settled /\ Good(att[s])
    BY <2>1, <2>2 DEF Data, PastOK, AttemptsOK, Unsettled, Cur
  <2>4. Cur > 0 => att[Cur].exec \in {"ended", "gone"}
    <3>1. Cur > 0 => Cur \in DOMAIN att /\ att[Cur].state = "done"
      BY <2>1, <2>3 DEF Data, LastOK
    <3> QED BY <2>3, <3>1 DEF Good
  <2>5. ASSUME NEW s \in DOMAIN att, s < Cur PROVE att[s].exec \in {"ended", "gone"}
    BY <1>1, <2>3, <2>4, <2>5 DEF OverOK
  <2> QED BY <2>1, <2>3, <2>4, <2>5 DEF Good, Known, Live
<1>2. IInv /\ OverOK => PublishedComplete
  BY <1>1 DEF PublishedComplete
<1> QED BY <1>2, OverInvariance, PTL

(* The worker keeps the contract about the sessions of a job: through      *)
(* crashes, takeovers, lost or late requests, a lost executor and          *)
(* completions withdrawn by an abort, a session is asked for only after a  *)
(* reported end of all before it, it begins once and beside no other, its  *)
(* result is taken when its completion can be withdrawn no more, and is    *)
(* released after it was taken; for every plan, attempts and faults.       *)
THEOREM PlanKeepsContract == Spec => ContractSpec
<1>1. Init => AskedOK /\ OverOK /\ Contract!Init
  BY KeptInit
<1>2. IInv /\ AskedOK /\ OverOK /\ [Next]_vars
        => AskedOK' /\ OverOK' /\ [Contract!Next]_(Contract!vars)
  BY KeptNext DEF Kept, BStep
<1> QED BY <1>1, <1>2, Invariance, PTL DEF Spec, ContractSpec, Contract!Spec

-----------------------------------------------------------------------------
(***************************************************************************)
(* The budget of calls.  The counter never passes what was authorised,     *)
(* and it is the number of sessions that called plus at most one call for  *)
(* each issue whose check was begun.                                       *)
(***************************************************************************)
BudgetOK ==
    /\ CallsAuthorized /\ CallsAccounted
    /\ ~plan.saved => plan.authorized = 0

SameCalls == DOMAIN att' = DOMAIN att /\ \A s \in DOMAIN att : att'[s].calls = att[s].calls

LEMMA CallsEdited ==
    ASSUME att \in Seq(Attempt), NEW s \in DOMAIN att, NEW a, Edit(s, a), a.calls = att[s].calls
    PROVE  SameCalls
  BY DEF Edit, SameCalls

LEMMA CallsSettled ==
    ASSUME att \in Seq(Attempt), Cur \in DOMAIN att, NEW st, NEW to, Settle(st, to)
    PROVE  SameCalls
<1>1. Edit(Cur, [att[Cur] EXCEPT !.state = st]) /\ att[Cur] \in Attempt
  BY DEF Settle
<1>2. [att[Cur] EXCEPT !.state = st].calls = att[Cur].calls
  BY <1>1 DEF Attempt
<1> QED BY <1>1, <1>2, CallsEdited

(* The worker's steps on a session do not call the model.                  *)
LEMMA WorkerCallsKept ==
    ASSUME IInv, \/ Execute \/ Post \/ Authorize \/ Receive \/ Acknowledge \/ AckUnknown
                 \/ FailAction \/ Parse \/ ParseReference
    PROVE  SameCalls
<1>1. pc \in SessionPlaces
  BY DEF Execute, Post, Authorize, Receive, Acknowledge, AckUnknown, FailAction, Parse,
         ParseReference, TooLate, PostRefused, AuthorizeRefused, PollEnded, PollMissing,
         PollExpired, InspectOpen, ParseInvalid, At, SessionPlaces
<1>2. att \in Seq(Attempt) /\ Cur \in DOMAIN att /\ att[Cur] \in Attempt
      /\ \A s \in DOMAIN att : att[s] \in Attempt
  BY <1>1, PlacedAttempt DEF IInv, Data, AttemptsOK
<1>3. CASE Execute
  <2>1. att' = [s \in DOMAIN att |-> [att[s] EXCEPT !.net = IF @ = "fresh" THEN "stale" ELSE @,
                                                    !.token = IF @ = "fresh" THEN "stale" ELSE @]]
    BY <1>3 DEF Execute, Stale
  <2> QED BY <1>2, <2>1 DEF SameCalls, Attempt
<1>4. CASE Post
  <2>1. PICK net : Edit(Cur, [att[Cur] EXCEPT !.net = net])
    BY <1>4 DEF Post
  <2>2. [att[Cur] EXCEPT !.net = net].calls = att[Cur].calls
    BY <1>2 DEF Attempt
  <2> QED BY <1>2, <2>1, <2>2, CallsEdited
<1>5. CASE Authorize
  <2>1. CASE att' = att
    BY <2>1 DEF SameCalls
  <2>2. CASE Edit(Cur, [att[Cur] EXCEPT !.token = "fresh"])
    <3>1. [att[Cur] EXCEPT !.token = "fresh"].calls = att[Cur].calls
      BY <1>2 DEF Attempt
    <3> QED BY <1>2, <2>2, <3>1, CallsEdited
  <2> QED BY <1>5, <2>1, <2>2 DEF Authorize
<1>6. CASE Receive
  <2>1. Edit(Cur, [att[Cur] EXCEPT !.raw = TRUE, !.state = "received"])
    BY <1>6 DEF Receive
  <2>2. [att[Cur] EXCEPT !.raw = TRUE, !.state = "received"].calls = att[Cur].calls
    BY <1>2 DEF Attempt
  <2> QED BY <1>2, <2>1, <2>2, CallsEdited
<1>7. CASE Acknowledge
  <2>1. Edit(Cur, [att[Cur] EXCEPT !.released = TRUE])
    BY <1>7 DEF Acknowledge
  <2>2. [att[Cur] EXCEPT !.released = TRUE].calls = att[Cur].calls
    BY <1>2 DEF Attempt
  <2> QED BY <1>2, <2>1, <2>2, CallsEdited
<1>8. CASE AckUnknown
  <2>1. PICK r \in {att[Cur].released, att[Cur].exec # "gone"} :
           Edit(Cur, [att[Cur] EXCEPT !.released = @ \/ r, !.state = "unknown"])
    BY <1>8 DEF AckUnknown
  <2>2. [att[Cur] EXCEPT !.released = @ \/ r, !.state = "unknown"].calls = att[Cur].calls
    BY <1>2 DEF Attempt
  <2> QED BY <1>2, <2>1, <2>2, CallsEdited
<1>9. CASE FailAction
  <2>1. \E st, to : Settle(st, to)
    BY <1>9 DEF FailAction, TooLate, PostRefused, AuthorizeRefused, PollEnded, PollMissing,
                PollExpired, InspectOpen, ParseInvalid, Fail
  <2> QED BY <1>2, <2>1, CallsSettled
<1>10. CASE Parse \/ ParseReference
  <2>1. \E st, to : Settle(st, to)
    BY <1>10 DEF Parse, ParseReference
  <2> QED BY <1>2, <2>1, CallsSettled
<1> QED BY <1>3, <1>4, <1>5, <1>6, <1>7, <1>8, <1>9, <1>10

LEMMA RemoteCallsKept ==
    ASSUME IInv, Remote, \A s \in DOMAIN att : ~Call(s)
    PROVE  SameCalls
<1>1. PICK s \in DOMAIN att :
         \/ Deliver(s) \/ LoseRequest(s) \/ EndSession(s) \/ Withdraw(s) \/ SetStatus(s) \/ PersistEnd(s)
         \/ ExecutorCrash(s) \/ Report(s)
  BY DEF Remote
<1>2. att \in Seq(Attempt) /\ att[s] \in Attempt
  BY DEF IInv, Data, AttemptsOK
<1>3. CASE Deliver(s)
  <2>1. CASE Edit(s, [att[s] EXCEPT !.net = "none", !.exec = "running", !.token = att[s].net])
    <3>1. [att[s] EXCEPT !.net = "none", !.exec = "running", !.token = att[s].net].calls
            = att[s].calls
      BY <1>2 DEF Attempt
    <3> QED BY <1>2, <2>1, <3>1, CallsEdited
  <2>2. CASE Edit(s, [att[s] EXCEPT !.net = "none"])
    <3>1. [att[s] EXCEPT !.net = "none"].calls = att[s].calls
      BY <1>2 DEF Attempt
    <3> QED BY <1>2, <2>2, <3>1, CallsEdited
  <2> QED BY <1>3, <2>1, <2>2 DEF Deliver
<1>4. CASE LoseRequest(s)
  <2>1. [att[s] EXCEPT !.net = "none"].calls = att[s].calls
    BY <1>2 DEF Attempt
  <2> QED BY <1>2, <1>4, <2>1, CallsEdited DEF LoseRequest
<1>5. CASE EndSession(s)
  <2>1. PICK end, outcome :
           Edit(s, [att[s] EXCEPT !.exec = "announced", !.token = "none", !.end = end, !.outcome = outcome])
    BY <1>5 DEF EndSession
  <2>2. [att[s] EXCEPT !.exec = "announced", !.token = "none", !.end = end, !.outcome = outcome].calls
          = att[s].calls
    BY <1>2 DEF Attempt
  <2> QED BY <1>2, <2>1, <2>2, CallsEdited
<1>9. CASE Withdraw(s)
  <2>1. PICK outcome : Edit(s, [att[s] EXCEPT !.end = "aborted", !.outcome = outcome])
    BY <1>9 DEF Withdraw
  <2>2. [att[s] EXCEPT !.end = "aborted", !.outcome = outcome].calls = att[s].calls
    BY <1>2 DEF Attempt
  <2> QED BY <1>2, <2>1, <2>2, CallsEdited
<1>10. CASE SetStatus(s)
  <2>1. [att[s] EXCEPT !.exec = "ended"].calls = att[s].calls
    BY <1>2 DEF Attempt
  <2> QED BY <1>2, <1>10, <2>1, CallsEdited DEF SetStatus
<1>6. CASE PersistEnd(s)
  <2>1. [att[s] EXCEPT !.kept = TRUE].calls = att[s].calls
    BY <1>2 DEF Attempt
  <2> QED BY <1>2, <1>6, <2>1, CallsEdited DEF PersistEnd
<1>7. CASE ExecutorCrash(s)
  <2>1. [att[s] EXCEPT !.exec = "gone", !.token = "none"].calls = att[s].calls
    BY <1>2 DEF Attempt
  <2> QED BY <1>2, <1>7, <2>1, CallsEdited DEF ExecutorCrash
<1>8. CASE Report(s)
  BY <1>8 DEF Report, SameCalls
<1> QED BY <1>1, <1>3, <1>4, <1>5, <1>6, <1>7, <1>8, <1>9, <1>10

(* A step leaves the callers as they are, or adds the one that called.     *)
LEMMA CallersChange ==
    ASSUME IInv, Next
    PROVE  \/ Callers' = Callers /\ \A s \in DOMAIN att : ~Call(s)
           \/ \E s \in DOMAIN att : Call(s) /\ s \notin Callers /\ Callers' = Callers \cup {s}
<1>1. att \in Seq(Attempt) /\ \A s \in DOMAIN att : att[s] \in Attempt
  BY DEF IInv, Data, AttemptsOK
<1>2. ASSUME NEW s \in DOMAIN att, Call(s)
      PROVE  s \notin Callers /\ Callers' = Callers \cup {s}
  <2>1. att[s].calls = 0 /\ att' = [att EXCEPT ![s] = [att[s] EXCEPT !.calls = @ + 1]]
    BY <1>2 DEF Call, MayCall, Edit
  <2>2. att'[s].calls = 1
    BY <1>1, <2>1 DEF Attempt
  <2> QED BY <1>1, <2>1, <2>2 DEF Callers
<1>3. SameCalls => Callers' = Callers
  BY DEF SameCalls, Callers
<1>4. ASSUME Begin PROVE Callers' = Callers
  <2>1. Append(att, NewRow(Next1)) = att'
    BY <1>4 DEF Begin, NewAttempt, NewRow
  <2>2. DOMAIN att' = DOMAIN att \cup {Len(att) + 1}
    BY <1>1, <2>1
  <2>3. \A s \in DOMAIN att : att'[s] = att[s]
    BY <1>1, <2>1
  <2>4. att'[Len(att) + 1].calls = 0
    BY <1>1, <2>1 DEF NewRow
  <2>5. \A s : s \in Callers' <=> s \in Callers
    BY <2>2, <2>3, <2>4 DEF Callers
  <2> QED BY <2>5
<1>5. Quiet \/ Resume \/ UnitsAction => SameCalls
  <2>1. Quiet \/ Resume \/ UnitsAction => att' = att
    BY DEF Quiet, Resume, UnitsAction, StartUnit, ResumeAttempt, Claim, AwaitCost, PauseBudget,
           GiveUp, Return, MarkSubmitted, PollRunning, PollCompleted, BeginHistory, StartCheck,
           SkipCheck, FailCheck, FinishCheck, HistoryBroken, YieldUnit, Publish, Abandon,
           Confirm, Continue, Expire, Crash, Sweep, SavePlan, SplitUnit, SaveRefutations, Retry
  <2> QED BY <2>1 DEF SameCalls
<1>6. Next => \/ Quiet \/ Resume \/ UnitsAction \/ Begin \/ Remote
              \/ Execute \/ Post \/ Authorize \/ Receive \/ Acknowledge \/ AckUnknown
              \/ FailAction \/ Parse \/ ParseReference
  BY Steps DEF HeldAction, SettleAction
<1>7. (\A s \in DOMAIN att : ~Call(s)) => Callers' = Callers
  BY <1>3, <1>4, <1>5, <1>6, WorkerCallsKept, RemoteCallsKept
<1> QED BY <1>2, <1>7

(* What a step does to the plan's limits and to the counter.               *)
LEMMA BudgetChanges ==
    ASSUME IInv, Next
    PROVE  \/ SavePlan \/ SplitUnit \/ SaveRefutations \/ Operator
           \/ plan' = plan /\ (StartCheck \/ (\E s \in DOMAIN att : Call(s)) \/ calls' = calls)
<1>1. FailAction => plan' = plan /\ calls' = calls
  BY FailActions
<1>2. Remote => plan' = plan /\ ((\E s \in DOMAIN att : Call(s)) \/ calls' = calls)
  BY DEF Remote, Deliver, LoseRequest, EndSession, Withdraw, SetStatus,
         PersistEnd, ExecutorCrash, Report, Call
<1>3. StartCheck => plan' = plan
  BY DEF StartCheck
<1> QED BY <1>1, <1>2, <1>3 DEF Next, Worker, FailAction, Claim, AwaitCost, PauseBudget,
       GiveUp, Return, StartUnit, Execute, MarkSubmitted, Post, Authorize, PollRunning,
       PollCompleted, Receive, Acknowledge, AckUnknown, Parse, ParseReference,
       BeginHistory, SkipCheck, FailCheck, FinishCheck, HistoryBroken,
       YieldUnit, Publish, Abandon, Expire, Crash, Sweep

LEMMA AuthorizedStep ==
    ASSUME IInv, BudgetOK, Next
    PROVE  CallsAuthorized' /\ (~plan.saved => plan.authorized = 0)'
<1>1. /\ plan \in Plan /\ plan.max \in Nat /\ plan.base \in Nat /\ plan.authorized \in Nat
      /\ plan.saved \in BOOLEAN /\ calls \in Nat
      /\ calls <= plan.authorized /\ plan.authorized <= plan.max
      /\ ~plan.saved => plan.authorized = 0
  BY DEF IInv, FlagsOK, Plan, BudgetOK, CallsAuthorized
<1>2. CASE SavePlan
  <2>1. PICK first, max, base :
           /\ first \in InitialUnits /\ max = 4 * Len(first) + Cardinality(Checks)
           /\ plan' = [plan EXCEPT !.saved = TRUE, !.max = max, !.base = base,
                                   !.authorized = IF max <= AutoCalls THEN max ELSE 0]
    BY <1>2 DEF SavePlan
  <2>2. max \in Nat
    BY <2>1, Constants
  <2>3. /\ plan'.saved /\ plan'.max = max
        /\ plan'.authorized = IF max <= AutoCalls THEN max ELSE 0
    BY <1>1, <2>1 DEF Plan
  <2>4. calls' = 0 /\ ~plan.saved
    BY <1>1, <1>2 DEF SavePlan
  <2> QED BY <2>2, <2>3, <2>4 DEF CallsAuthorized
<1>3. CASE SplitUnit
  <2>1. /\ plan' \in Plan /\ plan'.max >= plan.max
        /\ plan' = [plan EXCEPT !.max = plan'.max, !.base = plan'.base] /\ calls' = calls
    BY <1>3, SplitStep DEF SplitUnit
  <2>2. plan'.authorized = plan.authorized /\ plan'.saved = plan.saved /\ plan'.max \in Nat
    BY <1>1, <2>1 DEF Plan
  <2> QED BY <1>1, <2>1, <2>2 DEF CallsAuthorized
<1>4. CASE SaveRefutations
  <2>1. PICK groups \in Groupings :
           plan' = [plan EXCEPT !.refuted = TRUE,
              !.max = Larger(@, 2 * (plan.base - Cardinality(Checks) + Len(groups)) + Cardinality(Checks))]
    BY <1>4 DEF SaveRefutations
  <2> DEFINE n == 2 * (plan.base - Cardinality(Checks) + Len(groups)) + Cardinality(Checks)
  <2>2. n \in Int
    BY <1>1, Constants
  <2>3. /\ plan'.max = Larger(plan.max, n) /\ plan'.authorized = plan.authorized
        /\ plan'.saved = plan.saved
    BY <1>1, <2>1 DEF Plan
  <2>4. calls' = calls
    BY <1>4 DEF SaveRefutations
  <2> HIDE DEF n
  <2> QED BY <1>1, <2>2, <2>3, <2>4 DEF CallsAuthorized, Larger
<1>5. CASE Operator
  <2>1. CASE Confirm
    <3>1. plan' = [plan EXCEPT !.authorized = plan.max, !.approved = TRUE] /\ calls' = calls
          /\ plan.saved
      BY <2>1 DEF Confirm
    <3>2. plan'.authorized = plan.max /\ plan'.max = plan.max /\ plan'.saved
      BY <1>1, <3>1 DEF Plan
    <3> QED BY <1>1, <3>1, <3>2 DEF CallsAuthorized
  <2>2. CASE Continue
    BY <1>1, <2>2 DEF Continue, CallsAuthorized
  <2>3. ASSUME NEW u \in DOMAIN units, Retry(u)
        PROVE  CallsAuthorized' /\ (~plan.saved => plan.authorized = 0)'
    <3>1. plan' = [plan EXCEPT !.max = @ + 1] /\ calls' = calls
      BY <2>3 DEF Retry
    <3>2. /\ plan'.max = plan.max + 1 /\ plan'.authorized = plan.authorized
          /\ plan'.saved = plan.saved
      BY <1>1, <3>1 DEF Plan
    <3> QED BY <1>1, <3>1, <3>2 DEF CallsAuthorized
  <2> QED BY <1>5, <2>1, <2>2, <2>3 DEF Operator
<1>6. CASE plan' = plan /\ StartCheck
  BY <1>1, <1>6 DEF StartCheck, CallsAuthorized
<1>7. CASE plan' = plan /\ \E s \in DOMAIN att : Call(s)
  BY <1>1, <1>7 DEF Call, CallsAuthorized
<1>8. CASE plan' = plan /\ calls' = calls
  BY <1>1, <1>8 DEF CallsAuthorized
<1> QED BY <1>2, <1>3, <1>4, <1>5, <1>6, <1>7, <1>8, BudgetChanges

(* A check once begun stays begun.                                         *)
LEMMA BegunGrows ==
    ASSUME IInv, Next
    PROVE  /\ Begun \subseteq Begun'
           /\ StartCheck => \E h \in Checks : h \notin Begun /\ Begun' = Begun \cup {h}
<1>1. checks \in [Checks -> {"queued", "started", "done", "failed"}]
  BY DEF IInv, FlagsOK
<1>2. ASSUME StartCheck
      PROVE  \E h \in Checks : h \notin Begun /\ Begun' = Begun \cup {h}
  <2>1. PICK h \in Unchecked : checks' = [checks EXCEPT ![h] = "started"]
    BY <1>2 DEF StartCheck
  <2> QED BY <1>1, <2>1 DEF Unchecked, Begun
<1>3. CASE SkipCheck
  <2>1. PICK h \in Unchecked : checks' = [checks EXCEPT ![h] = "done"]
    BY <1>3 DEF SkipCheck
  <2> QED BY <1>1, <1>3, <2>1 DEF Unchecked, Begun, StartCheck, SkipCheck, Goto
<1>4. CASE FailCheck
  <2>1. PICK h \in Unchecked : checks' = [checks EXCEPT ![h] = "failed"]
    BY <1>4 DEF FailCheck
  <2> QED BY <1>1, <1>4, <2>1 DEF Unchecked, Begun, StartCheck, FailCheck, Goto
<1>5. CASE FinishCheck
  <2>1. PICK h \in Broken, ok \in BOOLEAN :
           checks' = [checks EXCEPT ![h] = IF ok THEN "done" ELSE "failed"]
    BY <1>5 DEF FinishCheck
  <2> QED BY <1>1, <1>5, <2>1 DEF Broken, Begun, StartCheck, FinishCheck, At
<1>6. CASE ~(StartCheck \/ SkipCheck \/ FailCheck \/ FinishCheck)
  <2>1. FailAction => checks' = checks
    BY FailActions
  <2>2. Remote => checks' = checks
    BY DEF Remote, Deliver, LoseRequest, EndSession, Withdraw, SetStatus,
           PersistEnd, ExecutorCrash, Report, Call
  <2>3. checks' = checks
    BY <1>6, <2>1, <2>2 DEF Next, Worker, Operator, FailAction, Claim, SavePlan, AwaitCost,
       PauseBudget, SplitUnit, GiveUp, Return, StartUnit, Execute, MarkSubmitted, Post,
       Authorize, PollRunning, PollCompleted, Receive, Acknowledge, AckUnknown, Parse,
       ParseReference, SaveRefutations, BeginHistory, HistoryBroken,
       YieldUnit, Publish, Abandon, Expire, Crash, Sweep, Confirm, Continue, Retry
  <2> QED BY <1>6, <2>3 DEF Begun
<1> QED BY <1>2, <1>3, <1>4, <1>5, <1>6

LEMMA AccountedStep ==
    ASSUME IInv, BudgetOK, Next
    PROVE  CallsAccounted'
<1>1. /\ IsFiniteSet(Callers) /\ Cardinality(Callers) \in Nat
      /\ IsFiniteSet(Begun') /\ Cardinality(Begun) \in Nat /\ Cardinality(Begun') \in Nat
      /\ IsFiniteSet(Begun) /\ Cardinality(Begun) <= Cardinality(Begun')
  <2>1. DOMAIN att = 1..Len(att) /\ Len(att) \in Nat
    BY DEF IInv, Data, AttemptsOK
  <2>2. IsFiniteSet(DOMAIN att) /\ Callers \subseteq DOMAIN att
    BY <2>1, FS_Interval DEF Callers
  <2>3. IsFiniteSet(Checks) /\ Begun \subseteq Begun' /\ Begun' \subseteq Checks
    BY Constants, BegunGrows DEF Begun
  <2>4. IsFiniteSet(Callers) /\ IsFiniteSet(Begun')
    BY <2>2, <2>3, FS_Subset
  <2> QED BY <2>3, <2>4, FS_Subset, FS_CardinalityType
<1>2. /\ calls \in Nat /\ Cardinality(Callers) <= calls
      /\ calls <= Cardinality(Callers) + Cardinality(Begun)
  BY DEF IInv, FlagsOK, BudgetOK, CallsAccounted
<1>3. CASE Callers' = Callers /\ calls' = calls
  BY <1>1, <1>2, <1>3 DEF CallsAccounted
<1>4. CASE Callers' = Callers /\ StartCheck
  <2>1. Cardinality(Begun') = Cardinality(Begun) + 1
    <3>1. PICK h \in Checks : h \notin Begun /\ Begun' = Begun \cup {h}
      BY <1>4, BegunGrows
    <3> QED BY <1>1, <3>1, FS_AddElement
  <2>2. calls' = calls + 1
    BY <1>4 DEF StartCheck
  <2> QED BY <1>1, <1>2, <1>4, <2>1, <2>2 DEF CallsAccounted
<1>5. ASSUME NEW s \in DOMAIN att, Call(s), s \notin Callers, Callers' = Callers \cup {s}
      PROVE  CallsAccounted'
  <2>1. Cardinality(Callers') = Cardinality(Callers) + 1
    BY <1>1, <1>5, FS_AddElement
  <2>2. calls' = calls + 1
    BY <1>5 DEF Call
  <2> QED BY <1>1, <1>2, <2>1, <2>2 DEF CallsAccounted
<1>6. SavePlan \/ SplitUnit \/ SaveRefutations \/ Operator => calls' = calls
  BY DEF SavePlan, SplitUnit, SaveRefutations, Operator, Confirm, Continue, Retry
<1> QED BY <1>3, <1>4, <1>5, <1>6, CallersChange, BudgetChanges

LEMMA BudgetInit == Init => BudgetOK
<1> SUFFICES ASSUME Init PROVE BudgetOK
  OBVIOUS
<1>1. Callers = {} /\ Begun = {} /\ calls = 0 /\ plan.authorized = 0 /\ plan.max = 0
  BY DEF Init, Callers, Begun
<1> QED BY <1>1, FS_EmptySet DEF BudgetOK, CallsAuthorized, CallsAccounted

LEMMA BudgetStep == IInv /\ BudgetOK /\ [Next]_vars => BudgetOK'
<1>1. CASE IInv /\ BudgetOK /\ Next
  BY <1>1, AuthorizedStep, AccountedStep DEF BudgetOK
<1>2. CASE BudgetOK /\ UNCHANGED vars
  BY <1>2 DEF vars, BudgetOK, CallsAuthorized, CallsAccounted, Callers, Begun
<1> QED BY <1>1, <1>2

LEMMA BudgetKept == Spec => []BudgetOK
  BY BudgetInit, BudgetStep, Invariance, PTL DEF Spec

(* The model is never called more often than was authorised, and never is  *)
(* more authorised than the plan allows, although the limits move with     *)
(* splits, refutations and retries and the calls are counted by two        *)
(* processes (batch_store.py, broker.py, batch_flow.py).                   *)
THEOREM CallsStayAuthorized == Spec => []CallsAuthorized
<1>1. BudgetOK => CallsAuthorized
  BY DEF BudgetOK
<1> QED BY <1>1, BudgetKept, PTL

(* Every counted call is that of one session or of one earlier issue: a    *)
(* crash or a takeover neither repeats a call nor loses the count of one.  *)
THEOREM CallsAreAccounted == Spec => []CallsAccounted
<1>1. BudgetOK => CallsAccounted
  BY DEF BudgetOK
<1> QED BY <1>1, BudgetKept, PTL

-----------------------------------------------------------------------------
(***************************************************************************)
(* What the contract promises (SessionContract_proofs) therefore holds of  *)
(* this side of it.                                                        *)
(***************************************************************************)
Promise == INSTANCE SessionContract_proofs WITH
    Sessions <- 1..MaxSessions,
    asked <- AskedSeen,
    run <- [s \in 1..MaxSessions |-> RunSeen(s)],
    end <- [s \in 1..MaxSessions |-> EndSeen(s)],
    custody <- [s \in 1..MaxSessions |-> CustodySeen(s)],
    cancel <- "none"

LEMMA ContractPromised == Spec => Promise!Spec
<1>1. Contract!Init => Promise!Init
  BY DEF Contract!Init, Promise!Init
<1>2. [Contract!Next]_(Contract!vars) => [Promise!Next]_(Promise!vars)
  BY DEF Contract!Next, Promise!Next, Contract!Ask, Promise!Ask, Contract!Begin, Promise!Begin,
         Contract!Complete, Promise!Complete, Contract!Miss, Promise!Miss, Contract!Withdraw,
         Promise!Withdraw, Contract!Stop, Promise!Stop, Contract!Accept, Promise!Accept,
         Contract!Release, Promise!Release, Contract!RequestCancel, Promise!RequestCancel,
         Contract!ConfirmCancel, Promise!ConfirmCancel, Contract!Settle, Promise!Settle,
         Contract!Known, Promise!Known, Contract!Reported, Promise!Reported,
         Contract!Settled, Promise!Settled,
         Contract!vars, Promise!vars
<1>3. ContractSpec => Promise!Spec
  BY <1>1, <1>2, PTL DEF ContractSpec, Contract!Spec, Promise!Spec
<1> QED BY <1>3, PlanKeepsContract, PTL

(* A settled end of a session is never revised and a persisted result      *)
(* never given up, although a completion may be withdrawn by an abort      *)
(* before it is settled, and the job taken over in the middle of a poll or *)
(* an acknowledgement; and what is asked for next had a reported end of    *)
(* everything before it.                                                   *)
THEOREM EndsAndResultsStay == Spec => Promise!AcceptedStays /\ Promise!EndsAreFinal /\ []Promise!AskedInTurn
  BY ContractPromised, Promise!CustodyIsFinal, Promise!KnownEndsAreFinal, Promise!SessionsAskedInTurn, PTL
=============================================================================
