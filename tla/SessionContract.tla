--------------------------- MODULE SessionContract ---------------------------
(***************************************************************************)
(* What the manager and the executor promise each other about the native   *)
(* sessions of one review job, with no request, thread, file or worker in  *)
(* sight.  NativeSession implements the contract for one session, from the *)
(* executor's side; BatchPlan implements it for all sessions of a job, from *)
(* the worker's side, so that each module relies on no more of the other   *)
(* than this.                                                              *)
(*                                                                         *)
(* Sessions are asked for one after the other, each once, and only when    *)
(* the ones before reported an end.  A session runs at most once and       *)
(* beside no other.  A completion is announced before it is settled: until *)
(* then a deadline, a broken executor or a cancellation may still turn it  *)
(* into a failure.  The result is there once it is announced, is taken     *)
(* only when the completion is settled, and is kept until the manager has  *)
(* it in custody.  A cancellation is confirmed when nothing runs, and then *)
(* nothing runs any more.                                                  *)
(***************************************************************************)
EXTENDS Naturals

CONSTANT Sessions    \* the sessions of the job, numbered by age

VARIABLES
    asked,      \* sessions whose start was asked for
    run,        \* of each session: absent, running, over
    end,        \* how it ended: none, announced, completed, failed, unclear
    custody,    \* its result: none, made, accepted (by the manager), released
    cancel      \* of the job: none, requested, confirmed

vars == <<asked, run, end, custody, cancel>>

Known == {"completed", "failed"}             \* ends nothing changes any more
Reported == Known \cup {"announced"}         \* ends the manager was told of

Init ==
    /\ asked = {} /\ cancel = "none"
    /\ run = [s \in Sessions |-> "absent"]
    /\ end = [s \in Sessions |-> "none"]
    /\ custody = [s \in Sessions |-> "none"]

(* One new session, after all the others reported an end.                  *)
Ask(s) ==
    /\ s \notin asked /\ cancel = "none"
    /\ \A t \in Sessions : t < s => end[t] \in Reported
    /\ asked' = asked \cup {s}
    /\ UNCHANGED <<run, end, custody, cancel>>

Begin(s) ==
    /\ s \in asked /\ run[s] = "absent"
    /\ \A t \in Sessions : run[t] # "running"
    /\ run' = [run EXCEPT ![s] = "running"]
    /\ UNCHANGED <<asked, end, custody, cancel>>

Complete(s) ==
    /\ run[s] = "running" /\ end[s] = "none"
    /\ end' = [end EXCEPT ![s] = "announced"]
    /\ custody' = [custody EXCEPT ![s] = "made"]
    /\ UNCHANGED <<asked, run, cancel>>

(* What an announced completion becomes when it is let be.                 *)
Settled(e) == IF e = "announced" THEN "completed" ELSE e

Settle(s) ==
    /\ end[s] = "announced"
    /\ end' = [end EXCEPT ![s] = "completed"]
    /\ UNCHANGED <<asked, run, custody, cancel>>

Miss(s) ==
    /\ run[s] = "running" /\ end[s] = "none"
    /\ \E e \in {"failed", "unclear"} : end' = [end EXCEPT ![s] = e]
    /\ UNCHANGED <<asked, run, custody, cancel>>

(* A completion that is announced and not settled is taken back.           *)
Withdraw(s) ==
    /\ run[s] = "running" /\ end[s] = "announced"
    /\ end' = [end EXCEPT ![s] = "failed"]
    /\ custody' = [custody EXCEPT ![s] = "none"]
    /\ UNCHANGED <<asked, run, cancel>>

(* Nothing of the session runs any more, whether or not it came to an end; *)
(* nothing is left that could take an announced completion back.           *)
Stop(s) ==
    /\ run[s] = "running"
    /\ run' = [run EXCEPT ![s] = "over"]
    /\ end' = [end EXCEPT ![s] = Settled(end[s])]
    /\ UNCHANGED <<asked, custody, cancel>>

Accept(s) ==
    /\ custody[s] = "made" /\ end[s] = "completed" /\ cancel = "none"
    /\ custody' = [custody EXCEPT ![s] = "accepted"]
    /\ UNCHANGED <<asked, run, end, cancel>>

Release(s) ==
    /\ custody[s] = "accepted"
    /\ custody' = [custody EXCEPT ![s] = "released"]
    /\ UNCHANGED <<asked, run, end, cancel>>

RequestCancel ==
    /\ cancel = "none" /\ cancel' = "requested"
    /\ UNCHANGED <<asked, run, end, custody>>

(* Sessions that never began will not.                                     *)
ConfirmCancel ==
    /\ cancel = "requested" /\ cancel' = "confirmed"
    /\ \A s \in Sessions : run[s] # "running"
    /\ run' = [s \in Sessions |-> "over"]
    /\ UNCHANGED <<asked, end, custody>>

Next ==
    \/ \E s \in Sessions : \/ Ask(s) \/ Begin(s) \/ Complete(s) \/ Settle(s) \/ Withdraw(s)
                           \/ Miss(s) \/ Stop(s) \/ Accept(s) \/ Release(s)
    \/ RequestCancel \/ ConfirmCancel

Spec == Init /\ [][Next]_vars
-----------------------------------------------------------------------------
(* What the contract comes to, for either side of it.                      *)

(* The model works for one session at a time.                              *)
OneRuns == \A s, t \in Sessions : run[s] = "running" /\ run[t] = "running" => s = t

(* While nothing was cancelled, what was asked for had a reported outcome  *)
(* of everything before it: no attempt is repeated on a guess.             *)
AskedInTurn ==
    cancel = "none" => \A s \in asked, t \in Sessions : t < s => end[t] \in Reported

(* A confirmed cancellation: nothing runs, and nothing can begin.          *)
ConfirmedStopped == cancel = "confirmed" => \A s \in Sessions : run[s] = "over"

(* What the manager has in custody came of a completed session, and stays  *)
(* so whatever is cancelled or aborted afterwards.                         *)
AcceptedStays ==
    [][\A s \in Sessions : custody[s] \in {"accepted", "released"} =>
          /\ end[s] = "completed" /\ end'[s] = "completed"
          /\ custody'[s] \in {"accepted", "released"}]_vars

(* A session that is over stays over.  A settled completion and a failure  *)
(* are never revised, and an announced completion only becomes one of      *)
(* them, and is not left open when the session is over.                    *)
EndsAreFinal ==
    [][\A s \in Sessions :
          /\ run[s] = "over" => run'[s] = "over"
          /\ end[s] \in Known => end'[s] = end[s]
          /\ end[s] = "announced" => end'[s] \in Reported
          /\ run'[s] = "over" => end'[s] # "announced"]_vars
=============================================================================
