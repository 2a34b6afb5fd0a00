---------------------------- MODULE TaskContract ----------------------------
(***************************************************************************)
(* What the two queues, the journal and the protocol between controller    *)
(* and agent promise for a task, without any of them: a task is submitted, *)
(* runs, is answered, and the answer settles it.  It may run again as long *)
(* as it has no answer, and its row is settled once, with its answer.      *)
(* TaskDelivery implements this.                                           *)
(***************************************************************************)
EXTENDS Naturals

CONSTANTS Tasks, Outcomes

VARIABLES
    status,    \* what the controller shows: no row, open, or an outcome
    answer,    \* what the node recorded
    runs,      \* how often the handler was started
    released   \* tasks whose answer the node no longer keeps

cvars == <<status, answer, runs, released>>

Init ==
    /\ status = [t \in Tasks |-> "none"]
    /\ answer = [t \in Tasks |-> "none"]
    /\ runs = [t \in Tasks |-> 0]
    /\ released = {}

Submit(t) ==
    /\ status[t] = "none"
    /\ status' = [status EXCEPT ![t] = "open"]
    /\ UNCHANGED <<answer, runs, released>>

Run(t) ==
    /\ answer[t] = "none"
    /\ runs' = [runs EXCEPT ![t] = @ + 1]
    /\ UNCHANGED <<status, answer, released>>

\* Recording an answer may drop old ones.
Answer(t, out, old) ==
    /\ runs[t] > 0 /\ answer[t] = "none" /\ t \notin old
    /\ answer' = [u \in Tasks |-> IF u = t THEN out ELSE IF u \in old THEN "none" ELSE answer[u]]
    /\ released' = released \cup old
    /\ UNCHANGED <<status, runs>>

Settle(t, out) ==
    /\ status[t] = "open" /\ (answer[t] = out \/ t \in released)
    /\ status' = [status EXCEPT ![t] = out]
    /\ UNCHANGED <<answer, runs, released>>

Next ==
    \E t \in Tasks :
       \/ Submit(t) \/ Run(t)
       \/ \E out \in Outcomes : Settle(t, out) \/ \E old \in SUBSET Tasks : Answer(t, out, old)

Spec == Init /\ [][Next]_cvars
=============================================================================
