---------------------------- MODULE TaskDelivery ----------------------------
(***************************************************************************)
(* The path of a task from the controller to one node and of its result    *)
(* back.                                                                   *)
(*                                                                         *)
(*   enqueueTask -> ctlQ -> drainNode ~~ toAgent ~~> _receiver -> agentQ   *)
(*   -> _task_worker -> journal, outbox -> _outbox_sender ~~ toHub ~~>     *)
(*   handleResult / markTaskReceived -> taskLog, received                  *)
(*                                                                         *)
(* ctlQ, taskLog and received are on the controller's disk; agentQ,        *)
(* outbox and journal on the node's.  Everything else dies with its        *)
(* process.  The hub runs on Node's single thread and drainNode never      *)
(* awaits, so a drain is one step here, which may be cut short after any   *)
(* of its calls by an exception or by the death of the process.  The       *)
(* agent's worker and sender await between their calls: each call is a     *)
(* step.                                                                   *)
(***************************************************************************)
EXTENDS HonkerQueue, FiniteSets

CONSTANTS MaxTasks,     \* how many tasks the controller issues
          MaxFaults,    \* how many faults happen
          FaultKinds,   \* which kinds of fault may happen
          MaxAged,      \* how many journal rows outlive their retention
          Poison,       \* tasks whose stored payload the agent cannot decode
          PromptClose   \* a socket's close event precedes the next hello

Tasks    == 1..MaxTasks
Outcomes == {"ok", "failed"}

ASSUME BoundsAssumption ==
    MaxTasks \in Nat /\ MaxFaults \in Nat /\ MaxAged \in Nat
ASSUME PoisonAssumption == Poison \subseteq Tasks
ASSUME FlagAssumption == PromptClose \in BOOLEAN

(* The faults of the environment:                                          *)
(*   cut      the connection breaks;      flood    the hub's bucket is dry; *)
(*   hub      the controller dies;        agent    the agent dies;         *)
(*   throw    a call on the hub's or the worker's path raises;             *)
(*   send     the sender's ws.send or ack raises;                          *)
(*   claim    the worker's claim_task raises;                              *)
(*   timeout  a claim times out under a holder that is still working.      *)
AllFaults == {"cut", "flood", "hub", "agent", "throw", "send", "claim", "timeout"}
ASSUME FaultAssumption == FaultKinds \subseteq AllFaults

VARIABLES
    issued,     \* tasks 1..issued have been passed to enqueueTask
    taskLog,    \* task_log.state; "none" while there is no row
    received,   \* tasks whose received_at is set
    ctlQ,       \* the honker queue node:<name>
    hubReg,     \* the node's entry in `connections` and its readyState
    lateClose,  \* a superseded socket's close event is still to come
    live,       \* the agent's current socket still reaches the hub
    agentConn,  \* the agent is inside _on_connected
    toAgent,    \* task frames in flight
    toHub,      \* receipt and result frames in flight
    agentQ,     \* the honker queue "tasks"
    outbox,     \* the honker queue "outbox"
    worker,     \* _task_worker: where it is, the job it holds, the result
    sender,     \* _outbox_sender: where it is and the job it holds
    journal,    \* TaskJournal: the result recorded for a task
    oldRows,    \* journal rows older than retain_days
    pruned,     \* history: tasks whose journal row was pruned
    execs,      \* history: how often a task's handler was started
    spent,      \* history: executions that have no journal row (any more)
    faults,     \* faults so far
    aged        \* journal rows aged so far

ctl   == <<issued, taskLog, received, ctlQ>>
net   == <<hubReg, lateClose, live, agentConn>>
node  == <<agentQ, outbox, worker, sender>>
done  == <<journal, oldRows, pruned, execs, spent>>
bound == <<faults, aged>>
vars  == <<ctl, net, toAgent, toHub, node, done, bound>>

Frames ==
    [kind : {"receipt"}, task : Tasks] \cup
    [kind : {"result"}, task : Tasks, out : Outcomes]

\* Wrong variant: a result frame without its verdict.
ResultNoVerdict(t, out) == [kind |-> "result", task |-> t]

Receipt(t)     == [kind |-> "receipt", task |-> t]
Result(t, out) == [kind |-> "result", task |-> t, out |-> out]

IdleWorker == [pc |-> "idle", at |-> 0, out |-> "none"]
IdleSender == [pc |-> "idle", at |-> 0]

Init ==
    /\ issued = 0
    /\ taskLog = [t \in Tasks |-> "none"]
    /\ received = {}
    /\ ctlQ = <<>>
    /\ hubReg = "none" /\ lateClose = FALSE
    /\ live = FALSE /\ agentConn = FALSE
    /\ toAgent = <<>> /\ toHub = <<>>
    /\ agentQ = <<>> /\ outbox = <<>>
    /\ worker = IdleWorker /\ sender = IdleSender
    /\ journal = [t \in Tasks |-> "none"]
    /\ oldRows = {} /\ pruned = {}
    /\ execs = [t \in Tasks |-> 0] /\ spent = [t \in Tasks |-> 0]
    /\ faults = 0 /\ aged = 0

Fault(kind) ==
    /\ kind \in FaultKinds /\ faults < MaxFaults
    /\ faults' = faults + 1
    /\ UNCHANGED aged

-----------------------------------------------------------------------------
(* The network between the two processes.                                  *)

\* A dial whose hello the hub accepts: nobody is registered for the node, or
\* the registered socket is no longer OPEN and is superseded.
Connect ==
    /\ ~agentConn
    /\ hubReg # "open"
    /\ PromptClose => hubReg = "none"
    /\ hubReg' = "open" /\ live' = TRUE /\ agentConn' = TRUE
    /\ lateClose' = (lateClose \/ hubReg = "closing")
    /\ toAgent' = <<>> /\ toHub' = <<>>
    /\ UNCHANGED <<ctl, node, done, bound>>

\* A dial while the hub still believes in the node's previous socket: the hello
\* is refused (4003).  The agent starts its sender before it learns of that, and
\* the hub ignores what an unauthenticated socket sends.
DialRefused ==
    /\ ~agentConn /\ hubReg = "open"
    /\ agentConn' = TRUE
    /\ UNCHANGED <<ctl, hubReg, lateClose, live, toAgent, toHub, node, done, bound>>

\* The connection is cut.  Neither side knows yet; what one of them writes from
\* now on is lost, what already arrived may still be read.
Break ==
    /\ live /\ Fault("cut")
    /\ live' = FALSE
    /\ UNCHANGED <<ctl, hubReg, lateClose, agentConn, toAgent, toHub, node, done>>

\* The liveness sweep terminates a socket that missed its pong.
HubTerminates ==
    /\ hubReg = "open" /\ ~live
    /\ hubReg' = "closing"
    /\ UNCHANGED <<ctl, lateClose, live, agentConn, toAgent, toHub, node, done, bound>>

\* The registered socket's close event: deregisterNode.
HubNoticesClose ==
    /\ hubReg # "none" /\ ~live
    /\ hubReg' = "none" /\ toHub' = <<>>
    /\ UNCHANGED <<ctl, lateClose, live, agentConn, toAgent, node, done, bound>>

\* A superseded socket's close event: deregisterNode removes whatever is
\* registered under the node's name.
LateCloseEvent ==
    /\ lateClose
    /\ lateClose' = FALSE /\ hubReg' = "none"
    /\ UNCHANGED <<ctl, live, agentConn, toAgent, toHub, node, done, bound>>

\* The close handshake the hub began in RateLimited ends.
CloseCompletes ==
    /\ hubReg = "closing" /\ live
    /\ live' = FALSE
    /\ UNCHANGED <<ctl, hubReg, lateClose, agentConn, toAgent, toHub, node, done, bound>>

\* The receiver ends; _on_connected cancels the sender, which leaves the frame
\* it holds claimed.
AgentNoticesClose ==
    /\ agentConn /\ ~live
    /\ agentConn' = FALSE /\ toAgent' = <<>>
    /\ outbox' = Abandon(outbox) /\ sender' = IdleSender
    /\ UNCHANGED <<ctl, hubReg, lateClose, live, toHub, agentQ, worker, done, bound>>
-----------------------------------------------------------------------------
(* The controller.                                                         *)

\* What is left of the hub when its process restarts.
HubForgets ==
    /\ hubReg' = "none" /\ lateClose' = FALSE /\ live' = FALSE
    /\ toHub' = <<>>
    /\ UNCHANGED agentConn

EnqueueTask ==
    LET t == issued + 1 IN
    /\ t \in Tasks
    /\ issued' = t
    /\ ctlQ' = Enqueue(ctlQ, t)
    /\ taskLog' = [taskLog EXCEPT ![t] = "queued"]
    /\ UNCHANGED <<received, net, toAgent, toHub, node, done, bound>>

\* The process dies between the two databases: a job without a row.
EnqueueCrash ==
    LET t == issued + 1 IN
    /\ t \in Tasks
    /\ issued' = t
    /\ ctlQ' = Enqueue(ctlQ, t)
    /\ Fault("hub") /\ HubForgets
    /\ UNCHANGED <<taskLog, received, toAgent, node, done>>

HubCrash ==
    /\ Fault("hub") /\ HubForgets
    /\ UNCHANGED <<ctl, toAgent, node, done>>

\* Wrong variant: without the WHERE clause on the state.
MarkAnyState(log, t, s) == [log EXCEPT ![t] = s]

\* markTaskState: only a row that exists and is not settled is updated.
MarkTaskState(log, t, s) ==
    IF log[t] \in {"queued", "sent"} THEN [log EXCEPT ![t] = s] ELSE log

\* ws.send on the socket drainNode was given.
SendTask(t) == toAgent' = IF live THEN Append(toAgent, t) ELSE toAgent

\* One turn of drainNode's loop.
DrainNode ==
    /\ hubReg = "open"
    /\ \E i \in DOMAIN ctlQ :
         LET t == ctlQ[i].item IN
         /\ Claimable(ctlQ, i)
         /\ SendTask(t)
         /\ ctlQ' = Ack(Claim(ctlQ, i), i)
         /\ taskLog' = MarkTaskState(taskLog, t, "sent")
    /\ UNCHANGED <<issued, received, net, toHub, node, done, bound>>

\* A turn that ends in the catch: send threw, ack threw, or marking did.
DrainNodeThrows ==
    /\ hubReg = "open" /\ Fault("throw")
    /\ \E i \in DOMAIN ctlQ :
         LET t    == ctlQ[i].item
             mine == Claim(ctlQ, i) IN
         /\ Claimable(ctlQ, i)
         /\ \/ UNCHANGED toAgent /\ ctlQ' = Retry(mine, i)
            \/ SendTask(t) /\ ctlQ' = Retry(mine, i)
            \/ SendTask(t) /\ ctlQ' = Ack(mine, i)
    /\ UNCHANGED <<issued, taskLog, received, net, toHub, node, done>>

\* A turn cut short by the death of the process: after the claim, after the
\* send or after the ack.
DrainNodeCrash ==
    /\ hubReg = "open" /\ Fault("hub") /\ HubForgets
    /\ \E i \in DOMAIN ctlQ :
         LET t    == ctlQ[i].item
             mine == Claim(ctlQ, i) IN
         /\ Claimable(ctlQ, i)
         /\ \/ UNCHANGED toAgent /\ ctlQ' = Abandon(mine)
            \/ SendTask(t) /\ ctlQ' = Abandon(mine)
            \/ SendTask(t) /\ ctlQ' = Ack(mine, i)
    /\ UNCHANGED <<issued, taskLog, received, node, done>>

\* markTaskReceived
HandleReceipt ==
    LET f == Head(toHub) IN
    /\ toHub # <<>> /\ f.kind = "receipt"
    /\ toHub' = Tail(toHub)
    /\ received' = IF taskLog[f.task] = "none" THEN received
                                               ELSE received \cup {f.task}
    /\ UNCHANGED <<issued, taskLog, ctlQ, net, toAgent, node, done, bound>>

HandleResult ==
    LET f == Head(toHub) IN
    /\ toHub # <<>> /\ f.kind = "result"
    /\ toHub' = Tail(toHub)
    /\ taskLog' = MarkTaskState(taskLog, f.task, f.out)
    /\ UNCHANGED <<issued, received, ctlQ, net, toAgent, node, done, bound>>

\* The token bucket, which the node's logs and telemetry drain as well, is
\* empty: the frame is dropped and the socket closed (4008).
RateLimited ==
    /\ toHub # <<>> /\ Fault("flood")
    /\ toHub' = Tail(toHub)
    /\ IF hubReg = "open" THEN hubReg' = "closing" /\ UNCHANGED live
                          ELSE live' = FALSE /\ UNCHANGED hubReg
    /\ UNCHANGED <<ctl, lateClose, agentConn, toAgent, node, done>>
-----------------------------------------------------------------------------
(* The agent.                                                              *)

\* The task of the job the worker holds.
Current == agentQ[worker.at].item

\* The worker has started a handler and not yet recorded what it returned.
Unrecorded == worker.pc = "running"

\* The worker is cut off: an unrecorded execution leaves nothing behind.
CutOff ==
    /\ spent' = IF Unrecorded THEN [spent EXCEPT ![Current] = @ + 1] ELSE spent
    /\ UNCHANGED <<journal, oldRows, pruned, execs>>

\* A crash and restart, with the jobs j left in the task queue.
AgentForgets(j) ==
    /\ agentQ' = Abandon(j) /\ outbox' = Abandon(outbox)
    /\ worker' = IdleWorker /\ sender' = IdleSender
    /\ agentConn' = FALSE /\ live' = FALSE /\ toAgent' = <<>>
    /\ UNCHANGED <<hubReg, lateClose, toHub>>

AgentCrash ==
    /\ Fault("agent") /\ AgentForgets(agentQ) /\ CutOff
    /\ UNCHANGED ctl

ReceiveTask ==
    /\ agentConn /\ toAgent # <<>>
    /\ toAgent' = Tail(toAgent)
    /\ agentQ' = Enqueue(agentQ, Head(toAgent))
    /\ outbox' = Enqueue(outbox, Receipt(Head(toAgent)))
    /\ UNCHANGED <<ctl, net, toHub, worker, sender, done, bound>>

\* The agent dies after it persisted a task and before it queued the receipt.
ReceiveTaskCrash ==
    /\ agentConn /\ toAgent # <<>>
    /\ Fault("agent") /\ AgentForgets(Enqueue(agentQ, Head(toAgent))) /\ CutOff
    /\ UNCHANGED ctl

WorkerClaims ==
    /\ worker.pc = "idle"
    /\ \E i \in DOMAIN agentQ :
         /\ Claimable(agentQ, i)
         /\ agentQ' = Claim(agentQ, i)
         /\ worker' = [pc |-> "claimed", at |-> i, out |-> "none"]
    /\ UNCHANGED <<ctl, net, toAgent, toHub, outbox, sender, done, bound>>

\* An undecodable payload is acked away.
WorkerDrops ==
    /\ worker.pc = "claimed" /\ Current \in Poison
    /\ agentQ' = Ack(agentQ, worker.at) /\ worker' = IdleWorker
    /\ UNCHANGED <<ctl, net, toAgent, toHub, outbox, sender, done, bound>>

\* cached_result found a row: replay it.
WorkerReplays ==
    /\ worker.pc = "claimed" /\ Current \notin Poison
    /\ journal[Current] # "none"
    /\ outbox' = Enqueue(outbox, Result(Current, journal[Current]))
    /\ worker' = [worker EXCEPT !.pc = "acking"]
    /\ UNCHANGED <<ctl, net, toAgent, toHub, agentQ, sender, done, bound>>

\* Wrong variant: the journal is not consulted.
WorkerRunsAgain ==
    /\ worker.pc = "claimed" /\ Current \notin Poison
    /\ worker' = [worker EXCEPT !.pc = "running"]
    /\ execs' = [execs EXCEPT ![Current] = @ + 1]
    /\ UNCHANGED <<ctl, net, toAgent, toHub, agentQ, outbox, sender,
                   journal, oldRows, pruned, spent, bound>>

\* No row: dispatcher.handle starts ...
WorkerRuns ==
    /\ worker.pc = "claimed" /\ Current \notin Poison
    /\ journal[Current] = "none"
    /\ worker' = [worker EXCEPT !.pc = "running"]
    /\ execs' = [execs EXCEPT ![Current] = @ + 1]
    /\ UNCHANGED <<ctl, net, toAgent, toHub, agentQ, outbox, sender,
                   journal, oldRows, pruned, spent, bound>>

\* Wrong variant: the result is sent and never recorded.
WorkerSkipsJournal ==
    /\ worker.pc = "running"
    /\ \E out \in Outcomes : worker' = [worker EXCEPT !.pc = "recorded", !.out = out]
    /\ UNCHANGED <<ctl, net, toAgent, toHub, agentQ, outbox, sender, done, bound>>

\* ... and returns a result frame whatever the handler did; record_result
\* inserts the row, then prunes the rows past their retention.
WorkerRecords ==
    /\ worker.pc = "running"
    /\ \E out \in Outcomes :
         LET old == oldRows \ {Current} IN
         /\ worker' = [worker EXCEPT !.pc = "recorded", !.out = out]
         /\ journal' = [t \in Tasks |-> IF t = Current THEN out
                                        ELSE IF t \in old THEN "none"
                                        ELSE journal[t]]
         /\ pruned' = pruned \cup old
         /\ spent' = [t \in Tasks |-> IF t \in old THEN spent[t] + 1 ELSE spent[t]]
         /\ oldRows' = {}
    /\ UNCHANGED <<ctl, net, toAgent, toHub, agentQ, outbox, sender, execs, bound>>

WorkerReports ==
    /\ worker.pc = "recorded"
    /\ outbox' = Enqueue(outbox, Result(Current, worker.out))
    /\ worker' = [worker EXCEPT !.pc = "acking"]
    /\ UNCHANGED <<ctl, net, toAgent, toHub, agentQ, sender, done, bound>>

WorkerAcks ==
    /\ worker.pc = "acking"
    /\ agentQ' = Ack(agentQ, worker.at) /\ worker' = IdleWorker
    /\ UNCHANGED <<ctl, net, toAgent, toHub, outbox, sender, done, bound>>

\* Wrong variant: an exception acks the job.
WorkerGivesUp ==
    /\ worker.pc \in {"claimed", "running", "recorded", "acking"}
    /\ worker.pc = "claimed" => Current \notin Poison
    /\ Fault("throw")
    /\ agentQ' = Ack(agentQ, worker.at) /\ worker' = IdleWorker
    /\ CutOff
    /\ UNCHANGED <<ctl, net, toAgent, toHub, outbox, sender>>

\* Wrong variant: an exception leaves the job claimed.
WorkerKeepsClaim ==
    /\ worker.pc \in {"claimed", "running", "recorded", "acking"}
    /\ Fault("throw")
    /\ worker' = IdleWorker
    /\ CutOff
    /\ UNCHANGED <<ctl, net, toAgent, toHub, agentQ, outbox, sender>>

\* The lookup, the journal write, the outbox write or the ack raises: the job
\* is given back for 30 seconds.
WorkerFails ==
    /\ worker.pc \in {"claimed", "running", "recorded", "acking"}
    /\ worker.pc = "claimed" => Current \notin Poison
    /\ Fault("throw")
    /\ agentQ' = Retry(agentQ, worker.at) /\ worker' = IdleWorker
    /\ CutOff
    /\ UNCHANGED <<ctl, net, toAgent, toHub, outbox, sender>>

\* claim_task raises outside the worker's try: the coroutine ends, and the rest
\* of the agent runs on without it.
WorkerDies ==
    /\ worker.pc = "idle" /\ Fault("claim")
    /\ worker' = [worker EXCEPT !.pc = "dead"]
    /\ UNCHANGED <<ctl, net, toAgent, toHub, agentQ, outbox, sender, done>>

SenderClaims ==
    /\ agentConn /\ sender.pc = "idle"
    /\ \E i \in DOMAIN outbox :
         /\ Claimable(outbox, i)
         /\ outbox' = Claim(outbox, i)
         /\ sender' = [pc |-> "claimed", at |-> i]
    /\ UNCHANGED <<ctl, net, toAgent, toHub, agentQ, worker, done, bound>>

\* A write into a socket that is already cut, or that the hub never accepted,
\* succeeds like any other.
SenderSends ==
    /\ sender.pc = "claimed"
    /\ toHub' = IF live THEN Append(toHub, outbox[sender.at].item) ELSE toHub
    /\ sender' = [sender EXCEPT !.pc = "sent"]
    /\ UNCHANGED <<ctl, net, toAgent, agentQ, outbox, worker, done, bound>>

SenderAcks ==
    /\ sender.pc = "sent"
    /\ outbox' = Ack(outbox, sender.at) /\ sender' = IdleSender
    /\ UNCHANGED <<ctl, net, toAgent, toHub, agentQ, worker, done, bound>>

\* The send or the ack raises: the frame is given back and the connection ends.
SenderFails ==
    /\ sender.pc # "idle"
    /\ IF live THEN Fault("send") ELSE UNCHANGED bound
    /\ outbox' = Retry(outbox, sender.at) /\ sender' = IdleSender
    /\ agentConn' = FALSE /\ live' = FALSE /\ toAgent' = <<>>
    /\ UNCHANGED <<ctl, hubReg, lateClose, toHub, agentQ, worker, done>>
-----------------------------------------------------------------------------
(* Time.                                                                   *)

CtlJobReappears ==
    /\ \E i \in DOMAIN ctlQ : Reappears(ctlQ, i) /\ ctlQ' = Release(ctlQ, i)
    /\ UNCHANGED <<issued, taskLog, received, net, toAgent, toHub, node, done, bound>>

AgentJobReappears ==
    /\ \E i \in DOMAIN agentQ : Reappears(agentQ, i) /\ agentQ' = Release(agentQ, i)
    /\ UNCHANGED <<ctl, net, toAgent, toHub, outbox, worker, sender, done, bound>>

OutboxJobReappears ==
    /\ \E i \in DOMAIN outbox : Reappears(outbox, i) /\ outbox' = Release(outbox, i)
    /\ UNCHANGED <<ctl, net, toAgent, toHub, agentQ, worker, sender, done, bound>>

\* A long-running handler, or a send that blocks, outlives its claim.
ClaimTimesOut ==
    /\ Fault("timeout")
    /\ \/ /\ \E i \in DOMAIN agentQ : TimesOut(agentQ, i) /\ agentQ' = Release(agentQ, i)
          /\ UNCHANGED outbox
       \/ /\ \E i \in DOMAIN outbox : TimesOut(outbox, i) /\ outbox' = Release(outbox, i)
          /\ UNCHANGED agentQ
    /\ UNCHANGED <<ctl, net, toAgent, toHub, worker, sender, done>>

\* A journal row passes its retention.
JournalAges ==
    /\ aged < MaxAged /\ aged' = aged + 1
    /\ \E t \in Tasks :
         /\ journal[t] # "none" /\ t \notin oldRows
         /\ oldRows' = oldRows \cup {t}
    /\ UNCHANGED <<ctl, net, toAgent, toHub, node, journal, pruned, execs, spent, faults>>
-----------------------------------------------------------------------------
Network ==
    \/ Connect \/ DialRefused \/ Break
    \/ HubTerminates \/ HubNoticesClose \/ LateCloseEvent \/ CloseCompletes
    \/ AgentNoticesClose

Controller ==
    \/ EnqueueTask \/ EnqueueCrash \/ HubCrash
    \/ DrainNode \/ DrainNodeThrows \/ DrainNodeCrash
    \/ HandleReceipt \/ HandleResult \/ RateLimited

Worker ==
    \/ WorkerClaims \/ WorkerDrops \/ WorkerReplays \/ WorkerRuns
    \/ WorkerRecords \/ WorkerReports \/ WorkerAcks
    \/ WorkerFails \/ WorkerDies

Sender == SenderClaims \/ SenderSends \/ SenderAcks \/ SenderFails

Time ==
    \/ CtlJobReappears \/ AgentJobReappears \/ OutboxJobReappears
    \/ ClaimTimesOut \/ JournalAges

Next ==
    \/ Network \/ Controller \/ Worker \/ Sender \/ Time
    \/ AgentCrash \/ ReceiveTask \/ ReceiveTaskCrash

Spec == Init /\ [][Next]_vars

(* Fairness.  The hub's timers and message handlers, the agent's reconnect *)
(* loop, worker, sender and receiver, and honker's timeouts keep running;  *)
(* nothing makes a user issue a task or a fault happen.                    *)
WorkerGoesOn ==
    \/ WorkerClaims \/ WorkerDrops \/ WorkerReplays \/ WorkerRuns
    \/ WorkerRecords \/ WorkerReports \/ WorkerAcks
SenderGoesOn == SenderClaims \/ SenderSends \/ SenderAcks

FairSpec ==
    /\ Spec
    /\ WF_vars(Connect) /\ WF_vars(HubNoticesClose) /\ WF_vars(CloseCompletes)
    /\ WF_vars(LateCloseEvent) /\ WF_vars(AgentNoticesClose)
    /\ WF_vars(DrainNode) /\ WF_vars(HandleReceipt \/ HandleResult)
    /\ WF_vars(ReceiveTask)
    /\ WF_vars(WorkerGoesOn) /\ WF_vars(SenderGoesOn)
    /\ WF_vars(CtlJobReappears) /\ WF_vars(AgentJobReappears)
    /\ WF_vars(OutboxJobReappears)
-----------------------------------------------------------------------------
(* Properties.                                                             *)

CtlOK ==
    /\ issued \in 0..MaxTasks
    /\ taskLog \in [Tasks -> {"none", "queued", "sent"} \cup Outcomes]
    /\ received \subseteq Tasks
    /\ ctlQ \in Queue(Tasks)

NetOK ==
    /\ hubReg \in {"none", "open", "closing"}
    /\ lateClose \in BOOLEAN /\ live \in BOOLEAN /\ agentConn \in BOOLEAN

WireOK == toAgent \in Seq(Tasks) /\ toHub \in Seq(Frames)

WorkerOK ==
    /\ agentQ \in Queue(Tasks)
    /\ worker \in [pc : {"idle", "claimed", "running", "recorded", "acking", "dead"},
                   at : Nat, out : Outcomes \cup {"none"}]
    /\ worker.pc \notin {"idle", "dead"} => worker.at \in DOMAIN agentQ
    /\ worker.pc = "recorded" => worker.out \in Outcomes

SenderOK ==
    /\ outbox \in Queue(Frames)
    /\ sender \in [pc : {"idle", "claimed", "sent"}, at : Nat]
    /\ sender.pc # "idle" => sender.at \in DOMAIN outbox

DoneOK ==
    /\ journal \in [Tasks -> Outcomes \cup {"none"}]
    /\ oldRows \subseteq Tasks /\ pruned \subseteq Tasks
    /\ execs \in [Tasks -> Nat] /\ spent \in [Tasks -> Nat]

BoundOK == faults \in 0..MaxFaults /\ aged \in 0..MaxAged

\* Every variable holds a value of its kind, and the worker's and the sender's
\* job handles point at jobs of their queues (client.py acks the job it claimed).
TypeOK ==
    CtlOK /\ NetOK /\ WireOK /\ WorkerOK /\ SenderOK /\ DoneOK /\ BoundOK

\* A frame on its way to the hub.
InTransit(f) == Holds(outbox, f) \/ \E i \in DOMAIN toHub : toHub[i] = f

\* However often a task is redelivered, replayed or reported, the node has one
\* answer for it: every result frame and the settled task_log row agree with the
\* journal (client.py records a result before it reports it, and replays the
\* record).  Only a row pruned after retain_days releases the task.
ResultAgreement ==
    \A t \in Tasks \ pruned :
       /\ \A out \in Outcomes : InTransit(Result(t, out)) => out = journal[t]
       /\ taskLog[t] \in Outcomes => taskLog[t] = journal[t]

\* A receipt means what client.py says it means, that the agent durably holds
\* the task: from the moment a receipt is on its way, the task is queued on the
\* node, has been answered, or was undecodable and dropped.
ReceiptSound ==
    \A t \in Tasks : t \in received \/ InTransit(Receipt(t)) =>
       \/ Holds(agentQ, t) \/ journal[t] # "none"
       \/ t \in pruned \/ t \in Poison

\* A task's handler is started again only when nothing is left of the last time:
\* every start but one was cut off before its result was recorded, or its record
\* was pruned.  Duplicate deliveries, lost acks and expired claims cost nothing.
ExecutionAccounting ==
    \A t \in Tasks :
       execs[t] = spent[t] + IF journal[t] # "none" \/ (Unrecorded /\ Current = t)
                             THEN 1 ELSE 0

\* Why the three hold: the phases of the worker ...
WorkerPhases ==
    /\ worker.pc = "running" => journal[Current] = "none"
    /\ worker.pc = "recorded" => journal[Current] = worker.out
    /\ worker.pc = "acking" => journal[Current] # "none"

\* ... the rows that age are rows of the journal ...
AgedRowsExist == \A t \in oldRows : journal[t] # "none"

\* ... and there is no row for a task not issued yet.
UnissuedHaveNoRow == \A t \in Tasks : t > issued => taskLog[t] = "none"

\* The inductive invariant.
Inv ==
    /\ TypeOK
    /\ ResultAgreement /\ ReceiptSound /\ ExecutionAccounting
    /\ WorkerPhases /\ AgedRowsExist /\ UnissuedHaveNoRow

\* A settled row stays as it is, whatever is redelivered or replayed later.
SettledForever ==
    [][\A t \in Tasks : taskLog[t] \in Outcomes => taskLog'[t] = taskLog[t]]_vars

\* The rows an admin sees, without where the task is on its way.
Status == [t \in Tasks |-> IF taskLog[t] \in {"queued", "sent"} THEN "open" ELSE taskLog[t]]

C == INSTANCE TaskContract WITH status <- Status, answer <- journal, runs <- execs, released <- pruned

\* The whole of it implements the contract: whatever is lost, repeated, delayed or
\* cut off on the way, seen from both ends a task is submitted, runs while it has no
\* answer, is answered, and is settled once, with its answer.
Contract == C!Spec

\* No job is stuck in any of the three queues: once faults cease, the queues
\* drain, whoever held a job, was cancelled or was refused on the way.
EventuallyDrained == <>[](ctlQ = <<>> /\ agentQ = <<>> /\ outbox = <<>>)

\* Every task the controller logs is eventually settled, unless its payload is
\* undecodable.
EveryTaskSettles ==
    \A t \in Tasks \ Poison : taskLog[t] = "queued" ~> taskLog[t] \in Outcomes
=============================================================================
