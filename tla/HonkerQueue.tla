---------------------------- MODULE HonkerQueue ----------------------------
(***************************************************************************)
(* The durable work queue the controller and the agent both build on       *)
(* (honker, a library outside this repository), as queue.ts and localq.py  *)
(* use it.  A queue is the sequence of its undeleted jobs in enqueue       *)
(* order.  A job is                                                        *)
(*                                                                         *)
(*   pending   visible: claim_one may hand it out;                         *)
(*   held      claimed by the process that is working on it;               *)
(*   waiting   invisible for now: given back with a delay (retry), or      *)
(*             claimed by a process that has since gone away, in which     *)
(*             case it reappears when the claim times out.                 *)
(*                                                                         *)
(* Every queue of the system has one consumer, which alone removes jobs,   *)
(* so a job keeps its position while it is held and the position serves    *)
(* as the job's handle.                                                    *)
(***************************************************************************)
EXTENDS Naturals, Sequences, SequencesExt

JobStates == {"pending", "held", "waiting"}

Queue(Item) == Seq([item : Item, st : JobStates])

Enqueue(q, x) == Append(q, [item |-> x, st |-> "pending"])

\* claim_one hands out the oldest visible job.
Claimable(q, i) ==
    /\ i \in DOMAIN q
    /\ q[i].st = "pending"
    /\ \A k \in 1..(i - 1) : q[k].st # "pending"

Claim(q, i) == [q EXCEPT ![i].st = "held"]

\* The claim's holder deletes its job.  If the claim has timed out meanwhile,
\* the job is no longer the holder's and stays.
Ack(q, i) == IF q[i].st = "held" THEN RemoveAt(q, i) ELSE q

\* retry(delay): give the job back, invisible until the delay is over.
Retry(q, i) == IF q[i].st = "held" THEN [q EXCEPT ![i].st = "waiting"] ELSE q

\* The process died or its coroutine was cancelled: whatever it held stays
\* claimed by nobody alive.
Abandon(q) ==
    [i \in DOMAIN q |-> IF q[i].st = "held" THEN [q[i] EXCEPT !.st = "waiting"]
                                           ELSE q[i]]

\* A delay or a dead claim's timeout is over ...
Reappears(q, i) == i \in DOMAIN q /\ q[i].st = "waiting"

\* ... or a claim times out under a holder that is still working.
TimesOut(q, i) == i \in DOMAIN q /\ q[i].st = "held"

Release(q, i) == [q EXCEPT ![i].st = "pending"]

Holds(q, x) == \E i \in DOMAIN q : q[i].item = x
=============================================================================
