------------------------------- MODULE Quotas -------------------------------
(***************************************************************************)
(* The storage quotas of one placement: the row an admin changes, the      *)
(* tasks that carry the change to the node, and the ZFS datasets there.    *)
(* A task may fail half-way, the controller may die between the statements *)
(* of a change, and a failed placement may be retried.                     *)
(*                                                                         *)
(* Sizes are small numbers; a task carries None for a tier it leaves alone.*)
(***************************************************************************)
EXTENDS Naturals, Sequences

CONSTANTS None,
          MaxSize,      \* MAX_QUOTA_BYTES
          Pools,        \* what the node may report as pool sizes
          InOrder,      \* the node runs its tasks in the order they were queued
          MaxOps

VARIABLES
    row,      \* lab_placements: fast_quota_bytes, cold_quota_bytes (None for an SMB client)
    state,    \* lab_placements.state
    pools,    \* nodes.pools: the sizes, or None before the first heartbeat
    queue,    \* honker: lab.create and lab.set_quota tasks
    disk,     \* the quotas of the datasets, None without a dataset
    sent,     \* history: tiers whose latest value a task carries or carried out
    ops

vars == <<row, state, pools, queue, disk, sent, ops>>

Tiers == {"fast", "cold"}
Sizes == 1..MaxSize
Smb   == row.cold = None

Task(kind, fast, cold) == [kind |-> kind, fast |-> fast, cold |-> cold]
Carried(t) == {x \in Tiers : t[x] # None}

\* enqueuePlacementCreate: the row as it is; an SMB client's cold quota becomes 0.
Create(r) == Task("create", r.fast, IF r.cold = None THEN 0 ELSE r.cold)

\* A placement that has just been created.
Init ==
    /\ row \in [fast : {1}, cold : {1, None}] /\ state = "provisioning"
    /\ pools = None /\ disk = [x \in Tiers |-> None]
    /\ queue = <<Create(row)>> /\ sent = Tiers /\ ops = 0
-----------------------------------------------------------------------------
Heartbeat(p) ==
    /\ pools # p /\ pools' = p
    /\ UNCHANGED <<row, state, queue, disk, sent, ops>>

\* amountToBytes: a positive amount up to the limit.
AmountToBytes(n) == n \in Sizes

\* No check before the node has reported its pools.
NodePoolCapacityOk(n, x) == pools # None => n <= pools[x]

\* The statements in their order, of which the process may live to run only
\* some: the fast quota, the cold quota, the task.
Statements(f, c) ==
    (IF f # None THEN <<"fast">> ELSE <<>>) \o (IF c # None THEN <<"cold">> ELSE <<>>) \o <<"task">>

Write(f, c, died) ==
    LET all  == Statements(f, c)
        done == {all[i] : i \in 1..IF died = 0 THEN Len(all) ELSE died - 1} IN
    /\ died \in 0..Len(all)
    /\ row' = [fast |-> IF "fast" \in done THEN f ELSE row.fast,
               cold |-> IF "cold" \in done THEN c ELSE row.cold]
    /\ queue' = IF "task" \in done THEN Append(queue, Task("set", f, c)) ELSE queue
    /\ sent' = IF "task" \in done THEN sent \cup (done \cap Tiers) ELSE sent \ done

\* Wrong variant: the cold quota is looked at when the fast one is written.
UpdateChecksLate(f, c, died) ==
    /\ f # None => NodePoolCapacityOk(f, "fast")
    /\ IF c # None /\ ~NodePoolCapacityOk(c, "cold")
       THEN /\ row' = [row EXCEPT !.fast = IF f = None THEN @ ELSE f]
            /\ UNCHANGED <<queue, sent>>
       ELSE Write(f, c, died)

UpdatePlacementQuota(f, c, died) ==
    /\ f # None => NodePoolCapacityOk(f, "fast")
    /\ c # None => NodePoolCapacityOk(c, "cold")
    /\ Write(f, c, died)

\* A field left empty, and the cold field of an SMB client, changes nothing.
SetPlacementQuota(f, c, died) ==
    /\ ops < MaxOps /\ ops' = ops + 1
    /\ f # None => AmountToBytes(f)
    /\ c # None => ~Smb /\ AmountToBytes(c)
    /\ UpdatePlacementQuota(f, c, died)
    /\ UNCHANGED <<state, pools, disk>>

\* lab.create again, with the row's quotas, for a placement that failed.
RetryPlacement(died) ==
    /\ state = "failed" /\ state' = "provisioning"
    /\ ops < MaxOps /\ ops' = ops + 1
    /\ IF died THEN UNCHANGED <<queue, sent>>
       ELSE queue' = Append(queue, Create(row)) /\ sent' = Tiers
    /\ UNCHANGED <<row, pools, disk>>
-----------------------------------------------------------------------------
(* The node.                                                               *)

\* set_quota on each tier the task carries, fast before cold; an SMB client's
\* cold storage is its owner's.  failed: the tier at which it stops, or the
\* container, which lab.create starts last.
Applied(t, failed) ==
    CASE failed = "fast" -> {}
      [] failed = "cold" -> Carried(t) \cap {"fast"}
      [] OTHER           -> Carried(t)

\* create_lab makes the datasets that are missing; set_lab_quota needs them.
RunTask(i, failed) ==
    LET t     == queue[i]
        tiers == Applied(t, failed) \ (IF Smb THEN {"cold"} ELSE {})
        later == UNION {Carried(queue[j]) : j \in (DOMAIN queue) \ 1..i} IN
    /\ i \in DOMAIN queue /\ (InOrder => i = 1)
    /\ failed \in Carried(t) \cup {None} \cup (IF t.kind = "create" THEN {"container"} ELSE {})
    /\ t.kind = "set" => \A x \in tiers : disk[x] # None
    /\ disk' = [x \in Tiers |-> IF x \in tiers THEN t[x] ELSE disk[x]]
    /\ queue' = SubSeq(queue, 1, i - 1) \o SubSeq(queue, i + 1, Len(queue))
    /\ sent' = IF failed = None THEN sent
               ELSE sent \ ((Carried(t) \ Applied(t, failed)) \ later)
    /\ state' = IF t.kind = "set" THEN state ELSE IF failed = None THEN "active" ELSE "failed"
    /\ UNCHANGED <<row, pools, ops>>

Next ==
    \/ \E p \in Pools : Heartbeat(p)
    \/ \E f, c \in 0..MaxSize + 1 \cup {None}, died \in 0..3 : SetPlacementQuota(f, c, died)
    \/ \E died \in BOOLEAN : RetryPlacement(died)
    \/ \E i \in 1..MaxOps + 1, failed \in Tiers \cup {"container", None} : RunTask(i, failed)

Spec == Init /\ [][Next]_vars
-----------------------------------------------------------------------------
\* Once the node has nothing left to do, each tier has the quota the row shows,
\* if the last task that carried the tier did not fail before reaching it and the
\* controller did not die between the row and the task: however partial changes,
\* refused changes, failures and retries followed each other.
QuotasAgree ==
    queue = <<>> => \A x \in sent : (x = "cold" => ~Smb) => disk[x] = row[x]
=============================================================================
