---------------------------- MODULE ReviewLedger ----------------------------
(***************************************************************************)
(* What the review queue promises to the readers of a pull request, with   *)
(* no worker, lease, lock or operation row in sight.  A job is registered  *)
(* with a new generation of its PR, may write its Review once, and ends    *)
(* with a verdict.  ReviewQueue implements this ledger under the           *)
(* refinement mapping given there.                                         *)
(*                                                                         *)
(* The one request of a job: the right to send it is taken (armed) only    *)
(* when every older job of the PR has its verdict; it is then sent, or     *)
(* never will be (spent); once sent it becomes visible or is lost (spent). *)
(***************************************************************************)
EXTENDS Naturals

CONSTANTS
    Jobs,
    PRs,
    Generations   \* generation numbers, growing for each PR

VARIABLES
    verdict,   \* what is known of the job: absent, open, published, dropped
    request,   \* its create request: unsent, armed, sent, visible, spent
    pr,        \* the pull request of a registered job
    gen        \* its generation

vars == <<verdict, request, pr, gen>>

Init ==
    /\ verdict = [j \in Jobs |-> "absent"]
    /\ request = [j \in Jobs |-> "unsent"]
    /\ pr \in [Jobs -> PRs]
    /\ gen = [j \in Jobs |-> 0]

Older(k, j) == verdict[k] # "absent" /\ pr[k] = pr[j] /\ gen[k] < gen[j]

(* Jobs whose Review does not exist and can no longer come to exist.       *)
Droppable == {j \in Jobs : verdict[j] = "open" /\ request[j] \in {"unsent", "spent"}}

Dropping(S) == [j \in Jobs |-> IF j \in S THEN "dropped" ELSE verdict[j]]

Drop(S) ==
    /\ S \subseteq Droppable
    /\ verdict' = Dropping(S)
    /\ UNCHANGED <<request, pr, gen>>

(* A new generation of the PR replaces jobs of earlier ones.               *)
Register(j, p, g, S) ==
    /\ verdict[j] = "absent"
    /\ \A k \in Jobs : verdict[k] # "absent" /\ pr[k] = p => gen[k] < g
    /\ S \subseteq Droppable
    /\ verdict' = [Dropping(S) EXCEPT ![j] = "open"]
    /\ pr' = [pr EXCEPT ![j] = p]
    /\ gen' = [gen EXCEPT ![j] = g]
    /\ UNCHANGED request

Becomes(j, before, after) ==
    /\ request[j] = before
    /\ request' = [request EXCEPT ![j] = after]
    /\ UNCHANGED <<verdict, pr, gen>>

Arm(j) ==
    /\ verdict[j] = "open"
    /\ \A k \in Jobs : Older(k, j) => verdict[k] # "open"
    /\ Becomes(j, "unsent", "armed")

Send(j) == Becomes(j, "armed", "sent")
Disarm(j) == Becomes(j, "armed", "spent")
Land(j) == Becomes(j, "sent", "visible")
Lose(j) == Becomes(j, "sent", "spent")

(* The Review is there, or the review found nothing to write.              *)
Publish(j) ==
    /\ verdict[j] = "open" /\ request[j] \in {"visible", "unsent"}
    /\ verdict' = [verdict EXCEPT ![j] = "published"]
    /\ UNCHANGED <<request, pr, gen>>

Next ==
    \/ \E S \in SUBSET Jobs : Drop(S)
    \/ \E j \in Jobs, p \in PRs, g \in Generations, S \in SUBSET Jobs : Register(j, p, g, S)
    \/ \E j \in Jobs : Arm(j) \/ Send(j) \/ Disarm(j) \/ Land(j) \/ Lose(j) \/ Publish(j)

Spec == Init /\ [][Next]_vars
=============================================================================
