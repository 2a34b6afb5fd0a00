----------------------------- MODULE MCProgress -----------------------------
(***************************************************************************)
(* What must eventually happen, checked in one run: placements are torn    *)
(* down (PlacementLifecycle), connections that are revoked or dead go, and *)
(* are alerted (HubConnection), tasks settle (TaskDelivery), containers    *)
(* are patched (ContainerRecreate).  The four are not interleaved: part    *)
(* says which of them takes its steps.                                     *)
(***************************************************************************)
EXTENDS PlacementLifecycle

CONSTANTS Sockets, NoSocket, MaxTokens, Graces,              \* HubConnection
          MaxTasks, MaxFaults, MaxAged, Poison, FaultKinds,  \* TaskDelivery
          Labs, NoBox, NoFile                                \* ContainerRecreate

VARIABLES part,
          ready, bound, gone, reg, consumers, row, tokens, timer, alerted,
          issued, taskLog, received, ctlQ, hubReg, lateClose, live, agentConn, toAgent, toHub,
          agentQ, outbox, worker, sender, journal, oldRows, pruned, execs, spent, faults, aged,
          name, old, file, tmp, thread, loop, made, recreates, failed, died, ended, blind

H == INSTANCE HubConnection WITH PromptClose <- TRUE, MayRestart <- FALSE
D == INSTANCE TaskDelivery WITH PromptClose <- TRUE
C == INSTANCE ContainerRecreate WITH
        Failing <- {}, MaxTasks <- 1, MaxFaults <- 0, MaxCrashes <- 0,
        worker <- thread, tasks <- recreates, faults <- failed, crashes <- died

hubVars  == <<ready, bound, gone, reg, consumers, row, tokens, timer, alerted>>
taskVars == <<issued, taskLog, received, ctlQ, hubReg, lateClose, live, agentConn, toAgent, toHub,
              agentQ, outbox, worker, sender, journal, oldRows, pruned, execs, spent, faults, aged>>
dockVars == <<name, old, file, tmp, thread, loop, made, recreates, failed, died, ended, blind>>
allVars  == <<part, vars, hubVars, taskVars, dockVars>>

ProgressInit ==
    /\ part \in {"placement", "hub", "tasks", "patching"}
    /\ Init /\ H!Init /\ D!Init /\ C!Init

ProgressNext ==
    \/ part = "placement" /\ Next /\ UNCHANGED <<part, hubVars, taskVars, dockVars>>
    \/ part = "hub" /\ H!Next /\ UNCHANGED <<part, vars, taskVars, dockVars>>
    \/ part = "tasks" /\ D!Next /\ UNCHANGED <<part, vars, hubVars, dockVars>>
    \/ part = "patching" /\ C!Next /\ UNCHANGED <<part, vars, hubVars, taskVars>>

\* The fairness of each part, as its module's FairSpec has it.
PlacementFair ==
    /\ WF_vars(part = "placement" /\ RunTask)
    /\ WF_vars(part = "placement" /\ HandleResult)
    /\ WF_vars(part = "placement" /\ MailDone)

HubFair ==
    /\ \A s \in Sockets : /\ WF_hubVars(part = "hub" /\ H!CloseEvent(s))
                          /\ WF_hubVars(part = "hub" /\ H!TickRevoked(s))
    /\ WF_hubVars(part = "hub" /\ H!Ping) /\ WF_hubVars(part = "hub" /\ H!Terminate)
    /\ WF_hubVars(part = "hub" /\ H!OfflineTimer)

TasksFair ==
    /\ WF_taskVars(part = "tasks" /\ D!Connect)
    /\ WF_taskVars(part = "tasks" /\ D!HubNoticesClose)
    /\ WF_taskVars(part = "tasks" /\ D!CloseCompletes)
    /\ WF_taskVars(part = "tasks" /\ D!LateCloseEvent)
    /\ WF_taskVars(part = "tasks" /\ D!AgentNoticesClose)
    /\ WF_taskVars(part = "tasks" /\ D!DrainNode)
    /\ WF_taskVars(part = "tasks" /\ (D!HandleReceipt \/ D!HandleResult))
    /\ WF_taskVars(part = "tasks" /\ D!ReceiveTask)
    /\ WF_taskVars(part = "tasks" /\ D!WorkerGoesOn)
    /\ WF_taskVars(part = "tasks" /\ D!SenderGoesOn)
    /\ WF_taskVars(part = "tasks" /\ D!CtlJobReappears)
    /\ WF_taskVars(part = "tasks" /\ D!AgentJobReappears)
    /\ WF_taskVars(part = "tasks" /\ D!OutboxJobReappears)

PatchingFair ==
    /\ WF_dockVars(part = "patching" /\ C!Handler) /\ WF_dockVars(part = "patching" /\ C!PkgUpdateLoop)
    /\ \A l \in Labs : WF_dockVars(part = "patching" /\ C!Age(l))

ProgressSpec ==
    ProgressInit /\ [][ProgressNext]_allVars /\ PlacementFair /\ HubFair /\ TasksFair /\ PatchingFair
-----------------------------------------------------------------------------
\* Connections settle: a revoke drops every open socket of the node, the sweep
\* frees the slot of a peer that vanished without a FIN, and a disconnect is
\* alerted unless the node comes back or is deleted within the grace period
\* (HubConnection).
ConnectionsSettle == H!RevokeDropsSocket /\ H!SlotIsFreed /\ H!DropIsAlerted

\* Every task that can be decoded is eventually settled (TaskDelivery).
EveryTaskSettles == D!EveryTaskSettles

\* A container that runs is patched in the end, however the weekly package loop
\* and the recreates that reset its state overlap (ContainerRecreate).
PatchedInTheEnd == part = "patching" => C!PatchedInTheEnd
=============================================================================
