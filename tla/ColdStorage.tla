----------------------------- MODULE ColdStorage -----------------------------
(***************************************************************************)
(* Where a lab's cold data lives and who deletes it: nodes that own ZFS    *)
(* cold storage and nodes that mount an owner's over SMB, one lab placed   *)
(* on several of them, one student of the lab, and the removal of that     *)
(* student with all data, which spans the nodes.                           *)
(*                                                                         *)
(* Each node runs its tasks in order, when it is online; a task and the    *)
(* handling of its result are one step here (TaskDelivery separates them). *)
(***************************************************************************)
EXTENDS Naturals, Sequences

CONSTANTS Nodes,
          None,
          MaxOps,      \* how many operations admins start
          Patient,     \* operations admins do not start over earlier ones
          MayFail      \* student.remove may fail

VARIABLES
    node,      \* nodes: row, online, cold_backend, cold_owner_node_id, cold_ready
    place,     \* lab_placements: state, "none" without a row
    enrolled,  \* whether the student is in lab_members
    rows,      \* placements with a placement_members row of the student
    queue,     \* honker: the tasks of each node
    log,       \* task_log: removal and cleanup tasks
    up,        \* nodes whose container runs
    cold,      \* nodes whose cold storage holds a directory of the student
    ops,       \* operations started; ids of removals
    owed       \* history: the latest removal with data and the nodes it is to clean;
               \* none once a task of it failed, a node went or the student came back,
               \* or when a placement that was forced out had tasks left

table == <<node, place, enrolled, rows>>
disk  == <<up, cold>>
vars  == <<table, queue, log, disk, ops, owed>>

NoNode == [row |-> FALSE, online |-> FALSE, backend |-> "local_zfs", owner |-> None,
           ready |-> FALSE]
NoDebt == [r |-> 0, nodes |-> {}]

Init ==
    /\ node = [n \in Nodes |-> NoNode]
    /\ place = [n \in Nodes |-> "none"]
    /\ enrolled = FALSE /\ rows = {}
    /\ queue = [n \in Nodes |-> <<>>] /\ log = {}
    /\ up = {} /\ cold = {}
    /\ ops = 0 /\ owed = NoDebt

Placed == {n \in Nodes : place[n] # "none"}
Local(n) == node[n].backend = "local_zfs"
Store(n) == IF Local(n) THEN n ELSE node[n].owner

\* A task of removal r; r = 0 for every other task.  Cleanup names the nodes
\* whose cold storage is to be cleaned.
Task(kind, r, cleanup) == [kind |-> kind, r |-> r, cleanup |-> cleanup]
Plain(kind) == Task(kind, 0, {})

Waiting(n, kinds) == \E i \in DOMAIN queue[n] : queue[n][i].kind \in kinds
Begin == ops < MaxOps /\ ops' = ops + 1

\* Patience: nobody is added while a removal is under way, no placement is torn
\* down while its lab.create is, and no node takes the name of a deleted one, or
\* another backend, while there are tasks left.
MayAdd        == "add" \in Patient => ~\E n \in Nodes : Waiting(n, {"remove", "cold"})
MayDestroy(n) == "destroy" \in Patient => ~Waiting(n, {"create"})
MayReuse(n)   == "reuse" \in Patient => queue[n] = <<>>

Enqueue(S, t) == queue' = [n \in Nodes |-> IF n \in S THEN Append(queue[n], t) ELSE queue[n]]
-----------------------------------------------------------------------------
(* nodes.ts                                                                *)

ProvisionNode(n) ==
    /\ ~node[n].row /\ MayReuse(n)
    /\ node' = [node EXCEPT ![n] = [NoNode EXCEPT !.row = TRUE]]
    /\ UNCHANGED <<place, enrolled, rows, queue, log, disk, ops, owed>>

\* The hub's view of the node, and ingestColdStorage.
Reports(n, online, ready) ==
    /\ node[n].row
    /\ node' = [node EXCEPT ![n].online = online, ![n].ready = ready]
    /\ UNCHANGED <<place, enrolled, rows, queue, log, disk, ops, owed>>

Clients(n) == {m \in Nodes : node[m].owner = n}

SetNodeColdStorage(n, backend, owner) ==
    /\ node[n].row /\ place[n] = "none" /\ MayReuse(n)
    /\ IF backend = "smb"
       THEN /\ owner \in Nodes \ {n} /\ node[owner].row /\ Local(owner)
            /\ Clients(n) = {}
       ELSE owner = None
    /\ node' = [node EXCEPT ![n].backend = backend, ![n].owner = owner]
    /\ UNCHANGED <<place, enrolled, rows, queue, log, disk, ops, owed>>

\* Wrong variant: the clients of a deleted node keep pointing at it.
DeleteNodeKeepsClients(n, force) ==
    /\ node[n].row
    /\ IF force THEN ~node[n].online ELSE place[n] = "none" /\ Clients(n) = {}
    /\ node' = [node EXCEPT ![n] = NoNode]
    /\ place' = [place EXCEPT ![n] = "none"]
    /\ rows' = rows \ {n}
    /\ log' = {t \in log : t.node # n}
    /\ owed' = NoDebt
    /\ UNCHANGED <<enrolled, queue, disk, ops>>

\* The node's rows in task_log go with it; its honker queue stays.
DeleteNode(n, force) ==
    /\ node[n].row
    /\ IF force THEN ~node[n].online ELSE place[n] = "none" /\ Clients(n) = {}
    /\ node' = [m \in Nodes |->
          CASE m = n                                -> NoNode
            [] m \in Clients(n) /\ m # n            -> [node[m] EXCEPT !.owner = None, !.ready = FALSE]
            [] OTHER                                -> node[m]]
    /\ place' = [place EXCEPT ![n] = "none"]
    /\ rows' = rows \ {n}
    /\ log' = {t \in log : t.node # n}
    /\ owed' = NoDebt
    /\ UNCHANGED <<enrolled, queue, disk, ops>>
-----------------------------------------------------------------------------
(* placements.ts, students.ts                                              *)

\* An SMB client needs an owner that already runs the lab, and a live mount.
CreatePlacement(n) ==
    /\ node[n].row /\ place[n] = "none" /\ Begin
    /\ ~Local(n) => /\ node[n].owner # None /\ node[n].ready
                    /\ place[node[n].owner] = "active"
    /\ place' = [place EXCEPT ![n] = "provisioning"]
    /\ rows' = IF enrolled THEN rows \cup {n} ELSE rows
    /\ queue' = [queue EXCEPT ![n] = @ \o <<Plain("create")>> \o
                                     (IF enrolled THEN <<Plain("add")>> ELSE <<>>)]
    /\ UNCHANGED <<node, enrolled, log, disk, owed>>

\* Wrong variant: an owner is torn down under its clients.
DestroyOwnerToo(n) ==
    /\ place[n] # "none" /\ MayDestroy(n) /\ Begin
    /\ place' = [place EXCEPT ![n] = "deleting"]
    /\ Enqueue({n}, Plain("destroy"))
    /\ UNCHANGED <<node, enrolled, rows, log, disk, owed>>

NoSmbDependents(n) ==
    Local(n) => \A m \in Clients(n) : place[m] \in {"none", "deleting"}

DestroyPlacement(n) ==
    /\ place[n] # "none" /\ MayDestroy(n) /\ Begin
    /\ NoSmbDependents(n)
    /\ place' = [place EXCEPT ![n] = "deleting"]
    /\ Enqueue({n}, Plain("destroy"))
    /\ UNCHANGED <<node, enrolled, rows, log, disk, owed>>

\* Wrong variant: the members' rows are not deleted with the placement.
ForceDeleteKeepsMembers(n) ==
    /\ place[n] # "none" /\ ~node[n].online /\ MayDestroy(n) /\ Begin
    /\ NoSmbDependents(n)
    /\ place' = [place EXCEPT ![n] = "none"]
    /\ Enqueue({n}, Plain("destroy"))
    /\ UNCHANGED <<node, enrolled, rows, log, disk, owed>>

ForceDeletePlacement(n) ==
    /\ place[n] # "none" /\ ~node[n].online /\ MayDestroy(n) /\ Begin
    /\ NoSmbDependents(n)
    /\ place' = [place EXCEPT ![n] = "none"]
    /\ rows' = rows \ {n}
    /\ Enqueue({n}, Plain("destroy"))
    /\ UNCHANGED <<node, enrolled, log, disk, owed>>

\* addStudentToLab
AddStudent ==
    /\ ~enrolled /\ MayAdd /\ Begin
    /\ enrolled' = TRUE /\ rows' = Placed
    /\ Enqueue(Placed, Plain("add"))
    /\ owed' = NoDebt
    /\ UNCHANGED <<node, place, log, disk>>

\* removeStudentFromLab with removeMemberFromPlacement.  With data: one removal
\* id on every placement's task, and the nodes whose own cold storage is to be
\* cleaned when all of them have succeeded.
RemoveStudent(deleteData) ==
    LET r == IF deleteData THEN ops + 1 ELSE 0
        t == Task("remove", r, IF deleteData THEN {n \in Placed : Local(n)} ELSE {}) IN
    /\ enrolled /\ Begin
    /\ enrolled' = FALSE /\ rows' = {}
    /\ Enqueue(Placed, t)
    /\ log' = log \cup {[node |-> n, kind |-> "remove", r |-> r, state |-> "queued"] :
                           n \in IF deleteData THEN Placed ELSE {}}
    /\ owed' = IF \E n \in Nodes \ Placed : queue[n] # <<>> THEN NoDebt
               ELSE [r |-> r, nodes |-> t.cleanup]
    /\ UNCHANGED <<node, place, disk>>
-----------------------------------------------------------------------------
(* The node runs the first task of its queue and handleResult deals with   *)
(* the verdict.                                                            *)

Takes(n, kind) ==
    /\ node[n].row /\ node[n].online
    /\ queue[n] # <<>> /\ Head(queue[n]).kind = kind

Pop(n) == queue' = [queue EXCEPT ![n] = Tail(@)]

\* A lab.create result is applied to the row in whatever state it is.
RunCreate(n) ==
    /\ Takes(n, "create") /\ Pop(n)
    /\ up' = up \cup {n}
    /\ place' = [place EXCEPT ![n] = IF @ = "none" THEN @ ELSE "active"]
    /\ UNCHANGED <<node, enrolled, rows, log, cold, ops, owed>>

\* lab.destroy takes the cold data along where the node owns it.
RunDestroy(n) ==
    /\ Takes(n, "destroy") /\ Pop(n)
    /\ up' = up \ {n}
    /\ cold' = IF Local(n) THEN cold \ {n} ELSE cold
    /\ IF place[n] = "deleting"
       THEN place' = [place EXCEPT ![n] = "none"] /\ rows' = rows \ {n}
       ELSE UNCHANGED <<place, rows>>
    /\ UNCHANGED <<node, enrolled, log, ops, owed>>

\* student.add makes the student's directory in the cold storage the node uses.
RunAdd(n) ==
    /\ Takes(n, "add") /\ Pop(n)
    /\ cold' = IF n \in up /\ Store(n) # None THEN cold \cup {Store(n)} ELSE cold
    /\ UNCHANGED <<table, log, up, ops, owed>>

\* completeStudentRemoval: cleanup is due when every task of the removal that is
\* still in the log succeeded.
Settled(lg, t) == \A u \in lg : u.kind = "remove" /\ u.r = t.r => u.state = "ok"

\* Wrong variant: only the node that answered last is cleaned.
CleanupAtSelf(lg, t, n) == IF t.r # 0 /\ Settled(lg, t) THEN t.cleanup \cap {n} ELSE {}

\* Wrong variant: the first node to answer starts the cleanup.
CleanupTooSoon(lg, t, n) ==
    IF t.r # 0 THEN {m \in t.cleanup : \A u \in lg : u.kind = "cold" => u.r # t.r} ELSE {}

CleanupDue(lg, t, n) ==
    IF t.r # 0 /\ Settled(lg, t)
    THEN {m \in t.cleanup : \A u \in lg : ~(u.kind = "cold" /\ u.r = t.r /\ u.node = m)}
    ELSE {}

\* markTaskState: a row that is gone matches nothing, and nothing follows.
RunRemove(n) ==
    LET t   == Head(queue[n])
        row == [node |-> n, kind |-> "remove", r |-> t.r, state |-> "queued"] IN
    /\ Takes(n, "remove")
    /\ \E ok \in BOOLEAN :
          /\ ok => n \in up
          /\ ~ok => n \notin up \/ MayFail
          /\ IF row \notin log THEN Pop(n) /\ UNCHANGED <<log, owed>>
             ELSE LET lg  == (log \ {row}) \cup {[row EXCEPT !.state = IF ok THEN "ok" ELSE "failed"]}
                      due == IF ok THEN CleanupDue(lg, t, n) ELSE {} IN
                  /\ log' = lg \cup {[node |-> m, kind |-> "cold", r |-> t.r, state |-> "queued"] : m \in due}
                  /\ queue' = [m \in Nodes |->
                        (IF m = n THEN Tail(queue[m]) ELSE queue[m]) \o
                        (IF m \in due THEN <<Task("cold", t.r, {})>> ELSE <<>>)]
                  /\ owed' = IF ok \/ t.r # owed.r THEN owed ELSE NoDebt
    /\ UNCHANGED <<table, disk, ops>>

\* student.delete_cold: an SMB client refuses.
RunCold(n) ==
    LET t   == Head(queue[n])
        row == [node |-> n, kind |-> "cold", r |-> t.r, state |-> "queued"] IN
    /\ Takes(n, "cold") /\ Pop(n)
    /\ cold' = IF Local(n) THEN cold \ {n} ELSE cold
    /\ log' = IF row \notin log THEN log
              ELSE (log \ {row}) \cup {[row EXCEPT !.state = IF Local(n) THEN "ok" ELSE "failed"]}
    /\ owed' = IF Local(n) \/ t.r # owed.r THEN owed ELSE NoDebt
    /\ UNCHANGED <<table, up, ops>>

RunTask(n) == RunCreate(n) \/ RunDestroy(n) \/ RunAdd(n) \/ RunRemove(n) \/ RunCold(n)
-----------------------------------------------------------------------------
Next ==
    \/ \E n \in Nodes :
          \/ ProvisionNode(n) \/ \E b, c \in BOOLEAN : Reports(n, b, c)
          \/ SetNodeColdStorage(n, "local_zfs", None)
          \/ \E o \in Nodes : SetNodeColdStorage(n, "smb", o)
          \/ \E force \in BOOLEAN : DeleteNode(n, force)
          \/ CreatePlacement(n) \/ DestroyPlacement(n) \/ ForceDeletePlacement(n)
          \/ RunTask(n)
    \/ AddStudent \/ \E d \in BOOLEAN : RemoveStudent(d)

Spec == Init /\ [][Next]_vars
-----------------------------------------------------------------------------
TypeOK ==
    /\ node \in [Nodes -> [row : BOOLEAN, online : BOOLEAN, backend : {"local_zfs", "smb"},
                           owner : Nodes \cup {None}, ready : BOOLEAN]]
    /\ place \in [Nodes -> {"none", "provisioning", "active", "deleting"}]
    /\ enrolled \in BOOLEAN /\ rows \subseteq Placed
    /\ queue \in [Nodes -> Seq([kind : {"create", "destroy", "add", "remove", "cold"},
                                r : 0..MaxOps, cleanup : SUBSET Nodes])]
    /\ log \subseteq [node : Nodes, kind : {"remove", "cold"}, r : 1..MaxOps,
                      state : {"queued", "ok", "failed"}]
    /\ up \subseteq Nodes /\ cold \subseteq Nodes
    /\ ops \in 0..MaxOps /\ owed \in [r : 0..MaxOps, nodes : SUBSET Nodes]

\* The owner a client names exists and has storage of its own, whatever was
\* reconfigured and deleted since the client was pointed at it.
OwnersAreLocal ==
    \A n \in Nodes : node[n].owner # None =>
       ~Local(n) /\ node[node[n].owner].row /\ Local(node[n].owner)

\* While a client's placement is in use its owner's is not being torn down.
OwnerOutlivesClients ==
    \A n \in Nodes : place[n] \in {"provisioning", "active"} /\ node[n].owner # None =>
       place[node[n].owner] \in {"provisioning", "active"}

\* Shared cold data is deleted only once every node the student was on has
\* removed the account: while a cleanup waits, no task of its removal has failed
\* or is unanswered (the tasks of a deleted node no longer count).
CleanupIsLast ==
    \A n \in Nodes : \A i \in DOMAIN queue[n] : queue[n][i].kind = "cold" =>
       \A t \in log : t.kind = "remove" /\ t.r = queue[n][i].r => t.state = "ok"

\* A removal of which no task fails or is lost leaves no cold data behind: once
\* nothing is under way, the nodes it was to clean are clean, however its tasks
\* were spread over them and in whichever order they answered.
ColdIsCleaned == (\A n \in Nodes : queue[n] = <<>>) => owed.nodes \cap cold = {}

\* A node that is provisioned starts without the tasks of an earlier node of its
\* name.
CleanSlate ==
    [][\A n \in Nodes : ~node[n].row /\ node'[n].row => queue[n] = <<>>]_vars
=============================================================================
