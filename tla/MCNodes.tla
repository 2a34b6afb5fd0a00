------------------------------- MODULE MCNodes -------------------------------
(***************************************************************************)
(* A node's connection (HubConnection), a lab's placement on a node        *)
(* (PlacementLifecycle), its quotas (Quotas), the recreation of its        *)
(* container (ContainerRecreate), a student's storage (StudentStorage),    *)
(* the groups of nodes (NodeGroups) and the hourly ticker (Schedules),     *)
(* checked in one run.                                                     *)
(* They are not interleaved: part says which of them takes its steps, and  *)
(* under which conditions a placement is looked at:                        *)
(*   hasty    admins start any operation while earlier ones are under way; *)
(*   rows     only members are added and removed hastily, nothing fails    *)
(*            that leaves a node without a container, nobody has an e-mail; *)
(*   overlap  only retry and add are hasty, everybody has an e-mail, and   *)
(*            the controller dies once.                                    *)
(***************************************************************************)
EXTENDS HubConnection

CONSTANTS Students, PI, Nobody, MaxSerial, MaxHastySerial, MaxRowsSerial,
          None, MaxSize, InOrder, MaxOps,                      \* Quotas
          Names, Labels, Tabs, MaxNode, MaxGroup,              \* NodeGroups
          Labs, NoBox, NoFile, Failing, MaxTasks, MaxCrashes,  \* ContainerRecreate
          Files, NoDir, MaxCalls,                              \* StudentStorage
          Hour, DayHours, Intervals, AnchorHour, NightHour, ScrubDays, GapHours,
          MaxDays, MayOverlap, MaxFaults                       \* Schedules

ASSUME PeopleAssumption == PI \in Students /\ Nobody \notin Students /\ IsFiniteSet(Students)
ASSUME SerialAssumption == MaxSerial \in Nat /\ MaxHastySerial \in Nat /\ MaxRowsSerial \in Nat
ASSUME QuotaAssumption == MaxSize \in Nat /\ None \notin Nat /\ None \notin {"fast", "cold", "container"}
ASSUME GroupAssumption == MaxNode \in Nat /\ MaxGroup \in Nat
ASSUME StorageAssumption == \A d \in SUBSET Files : d # NoDir
ASSUME DockAssumption ==
    Labs # {} /\ NoBox \notin [id : Nat, up : BOOLEAN, lists : BOOLEAN, patched : BOOLEAN]

\* Ticks are whole parts of an hour, and hours of a day; scans are hours apart but
\* less than a day (Schedules).
ASSUME ScheduleAssumption ==
    /\ {Hour, DayHours, ScrubDays} \subseteq Nat \ {0} /\ Intervals \subseteq Nat \ {0}
    /\ {AnchorHour, NightHour} \subseteq 0..(DayHours - 1) /\ GapHours \in 1..(DayHours - 1)

VARIABLES part,
          serial, roster, plc, member, queue, results, node, mails, delivered, proven, crashes,
          quota, state, pools, tasks, disk, sent, ops,
          nodeRow, group, lastNode, lastGroup, form, chosen,
          named, old, file, tmp, worker, loop, made, recreates, failed, died, ended, blind,
          dir, dataset, staged, call, written, spoilt, calls, faulty, restarts,
          now, nextTick, interval, lastRun, running, online, lastScrub, lastScan, faults, auto, scans,
          scrubs, quiet

AllOps      == {"create", "retry", "recreate", "destroy", "force", "add", "remove"}
AllFailures == {"plain", "createUp", "createDown", "recreateUp", "recreateGone",
                "destroyHalf", "addSet", "removeHalf"}
OnlyPI      == {PI}

PH == INSTANCE PlacementLifecycle WITH
            WithEmail <- OnlyPI, MaxSerial <- MaxHastySerial, Used <- AllOps, Hasty <- AllOps,
            Failures <- AllFailures, MaxCrashes <- 0
PR == INSTANCE PlacementLifecycle WITH
            WithEmail <- {}, MaxSerial <- MaxRowsSerial, Used <- AllOps \ {"retry"},
            Hasty <- {"add", "remove"}, Failures <- AllFailures \ {"recreateGone"}, MaxCrashes <- 0
PO == INSTANCE PlacementLifecycle WITH
            WithEmail <- Students, Used <- AllOps, Hasty <- {"retry", "add"}, Failures <- AllFailures,
            MaxCrashes <- 1

PoolSizes == {[fast |-> 1, cold |-> 1], [fast |-> 2, cold |-> 1]}

Q == INSTANCE Quotas WITH Pools <- PoolSizes, row <- quota, queue <- tasks
G == INSTANCE NodeGroups WITH node <- nodeRow
S == INSTANCE Schedules
C == INSTANCE ContainerRecreate WITH
            MaxFaults <- 1, name <- named, tasks <- recreates, faults <- failed, crashes <- died
U == INSTANCE StudentStorage WITH faults <- faulty, crashes <- restarts

quotaVars == <<quota, state, pools, tasks, disk, sent, ops>>
groupVars == <<nodeRow, group, lastNode, lastGroup, form, chosen>>
tickVars  == <<now, nextTick, interval, lastRun, running, online, lastScrub, lastScan, faults, auto, scans,
               scrubs, quiet>>
dockVars  == <<named, old, file, tmp, worker, loop, made, recreates, failed, died, ended, blind>>
homeVars  == <<dir, dataset, staged, call, written, spoilt, calls, faulty, restarts>>
placementVars == <<serial, roster, plc, member, queue, results, node, mails, delivered, proven, crashes>>
allVars       == <<part, vars, placementVars, quotaVars, groupVars, tickVars, dockVars, homeVars>>

\* A part that takes no step is in the first of its initial states.
NodesInit ==
    /\ part \in {"hub", "hasty", "rows", "overlap", "quotas", "groups", "ticker", "recreate", "storage"}
    /\ Init /\ PH!Init /\ Q!Init /\ G!Init /\ S!Init /\ C!Init /\ U!Init
    /\ part # "quotas" => quota.cold # None
    /\ part # "ticker" => interval = CHOOSE i \in Intervals : TRUE

NodesNext ==
    \/ part = "hub" /\ Next /\ UNCHANGED <<part, placementVars, quotaVars, groupVars, tickVars, dockVars, homeVars>>
    \/ part = "hasty" /\ PH!Next /\ UNCHANGED <<part, vars, quotaVars, groupVars, tickVars, dockVars, homeVars>>
    \/ part = "rows" /\ PR!Next /\ UNCHANGED <<part, vars, quotaVars, groupVars, tickVars, dockVars, homeVars>>
    \/ part = "overlap" /\ PO!Next /\ UNCHANGED <<part, vars, quotaVars, groupVars, tickVars, dockVars, homeVars>>
    \/ part = "quotas" /\ Q!Next /\ UNCHANGED <<part, vars, placementVars, groupVars, tickVars, dockVars, homeVars>>
    \/ part = "groups" /\ G!Next /\ UNCHANGED <<part, vars, placementVars, quotaVars, tickVars, dockVars, homeVars>>
    \/ part = "ticker" /\ S!Next /\ UNCHANGED <<part, vars, placementVars, quotaVars, groupVars, dockVars, homeVars>>
    \/ part = "recreate" /\ C!Next
         /\ UNCHANGED <<part, vars, placementVars, quotaVars, groupVars, tickVars, homeVars>>
    \/ part = "storage" /\ U!Next
         /\ UNCHANGED <<part, vars, placementVars, quotaVars, groupVars, tickVars, dockVars>>

NodesSpec == NodesInit /\ [][NodesNext]_allVars
-----------------------------------------------------------------------------
\* The variables of the placement have their types, and a row that waits has its
\* task under way, however operations overlap (PlacementLifecycle).
NothingStuck == part = "hasty" => PH!TypeOK /\ PH!NothingStuck

\* An active member has logged in with the latest password (PlacementLifecycle).
ActiveIsProven == part = "hasty" => PH!ActiveIsProven

\* Once nothing is under way, an active placement is on the node as its rows say
\* (PlacementLifecycle).
RowsMatchNode == part = "rows" => PR!RowsMatchNode

\* Only a password that works is mailed or revealed (PlacementLifecycle).
OnlyProvenDelivered == part = "overlap" => PO!OnlyProvenDelivered

\* While mails are awaited, the latest password of an active member is never lost,
\* and no second completion mail is due while one is sent (PlacementLifecycle).
CredentialKept == part = "overlap" => PO!CredentialKept /\ PO!CompletionClaimed

\* The node's quotas are those the row shows (Quotas).
QuotasAgree == part = "quotas" => Q!QuotasAgree

\* A group holds the nodes an admin put into it (NodeGroups).
MembersChosen == part = "groups" => G!MembersChosen

\* The hourly ticker keeps its promises over restarts: a tick leaves no backup
\* overdue, a slot has one scheduled backup, a night has one scan, and scrubs are
\* an interval apart (Schedules).
OnSchedule ==
    part = "ticker" => S!BackupNotLate /\ S!OneBackupPerSlot /\ S!NightlyWork

\* A recreate that stops anywhere leaves the lab one of its containers, and one
\* that fails where it may leaves the old container running (ContainerRecreate).
ContainerKept == part = "recreate" => C!ContainerKept /\ C!RolledBack

\* No file of a student is lost when a promotion stops, and a promotion is all or
\* nothing (StudentStorage).
DataKept == part = "storage" => U!DataKept /\ U!PromotionAtomic

\* A placement that is being torn down is not revived (PlacementLifecycle).
DeletingStays ==
    [][part = "overlap" /\ plc.state = "deleting" => plc'.state \in {"deleting", "none"}]_placementVars
=============================================================================
