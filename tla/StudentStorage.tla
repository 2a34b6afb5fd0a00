--------------------------- MODULE StudentStorage ---------------------------
(***************************************************************************)
(* A student's storage of one tier on a node (studentops.py): a directory, *)
(* promoted to a dataset of its own when the placement gets a student      *)
(* quota, with a call failing or the agent dying at any point of the       *)
(* promotion.  Contents are sets of files; the dataset, while there is     *)
(* one, is mounted over the directory's path.                              *)
(***************************************************************************)
EXTENDS Naturals

CONSTANTS Files, NoDir, MaxCalls, MaxFaults, MaxCrashes

VARIABLES
    dir,        \* the directory at the student's path
    dataset,    \* the dataset mounted there
    staged,     \* <path>.student-quota-migration
    call,       \* _ensure_user_dataset: where it is, and had_data
    written,    \* history: what the student has written
    spoilt,     \* history: what went wrong so far that has no way back
    calls, faults, crashes

vars == <<dir, dataset, staged, call, written, spoilt, calls, faults, crashes>>

Idle == [pc |-> "idle", hadData |-> FALSE]
View == IF dataset # NoDir THEN dataset ELSE dir

Init ==
    /\ dir = NoDir /\ dataset = NoDir /\ staged = NoDir /\ call = Idle
    /\ written = {} /\ spoilt = {} /\ calls = 0 /\ faults = 0 /\ crashes = 0

At(pc) == call.pc = pc
Go(pc) == call' = [call EXCEPT !.pc = pc]
Fine   == UNCHANGED <<faults, spoilt>>
Fault(spoils) == faults < MaxFaults /\ faults' = faults + 1 /\ spoilt' = spoilt \cup spoils
Owned(d) == IF d = NoDir THEN {} ELSE d
Held     == Owned(dir) \cup Owned(dataset) \cup Owned(staged)

\* Between calls the student writes into the directory the container mounts.
StudentWrites(f) ==
    /\ At("idle") /\ View # NoDir /\ f \notin View
    /\ IF dataset # NoDir THEN dataset' = dataset \cup {f} /\ UNCHANGED dir
       ELSE dir' = dir \cup {f} /\ UNCHANGED dataset
    /\ written' = written \cup {f}
    /\ UNCHANGED <<staged, call, spoilt, calls, faults, crashes>>

\* Without a quota, or with a dataset, the directory is only converged to its
\* owner; otherwise the promotion begins.
Ensure(quota) ==
    /\ At("idle") /\ calls < MaxCalls /\ calls' = calls + 1
    /\ IF dataset # NoDir \/ ~quota
         THEN /\ dir' = IF dataset = NoDir THEN Owned(dir) ELSE dir
              /\ UNCHANGED <<staged, call>>
         ELSE IF staged # NoDir THEN UNCHANGED <<dir, staged, call>>
         ELSE /\ staged' = dir /\ dir' = NoDir
              /\ call' = [pc |-> "create", hadData |-> dir # NoDir]
    /\ UNCHANGED <<dataset, written, spoilt, faults, crashes>>

\* zfs create, the quota and the mount point.
Create ==
    /\ At("create")
    /\ \/ Fine /\ dataset' = {} /\ Go(IF call.hadData THEN "copy" ELSE "own")
       \/ Fault({}) /\ dataset' \in {NoDir, {}} /\ Go("undo")
    /\ UNCHANGED <<dir, staged, written, calls, crashes>>

\* Wrong variant: the outcome of cp is not looked at.
CopyUnchecked ==
    /\ At("copy")
    /\ \/ Fine /\ dataset' = staged /\ Go("own")
       \/ Fault({}) /\ dataset' \in SUBSET staged /\ Go("own")
    /\ UNCHANGED <<dir, staged, written, calls, crashes>>

\* cp -a, which stops early when the quota is too small.
Copy ==
    /\ At("copy")
    /\ \/ Fine /\ dataset' = staged /\ Go("own")
       \/ Fault({}) /\ dataset' \in SUBSET staged /\ Go("undo")
    /\ UNCHANGED <<dir, staged, written, calls, crashes>>

Own ==
    /\ At("own")
    /\ \/ Fine /\ call' = (IF call.hadData THEN [call EXCEPT !.pc = "clean"] ELSE Idle)
       \/ Fault({}) /\ Go("undo")
    /\ UNCHANGED <<dir, dataset, staged, written, calls, crashes>>

\* shutil.rmtree of the staged directory; when it fails half way, the except
\* branch takes what is left for the student's data.
Clean ==
    /\ At("clean")
    /\ \/ Fine /\ staged' = NoDir /\ call' = Idle
       \/ Fault({"rmtree"}) /\ staged' \in (SUBSET staged) \cup {NoDir} /\ Go("undo")
    /\ UNCHANGED <<dir, dataset, written, calls, crashes>>

\* Wrong variant: the staged directory is not put back.
UndoForgets ==
    /\ At("undo") /\ Fine /\ dataset' = NoDir
    /\ call' = Idle
    /\ UNCHANGED <<dir, staged, written, calls, crashes>>

\* The except branch: the dataset goes, unless that fails, and the staged
\* directory is put back.
Undo ==
    /\ At("undo") /\ call' = Idle
    /\ \/ /\ Fine /\ dataset' = NoDir
          /\ IF call.hadData THEN dir' = staged /\ staged' = NoDir ELSE UNCHANGED <<dir, staged>>
       \/ dataset # NoDir /\ Fault({"destroy"}) /\ UNCHANGED <<dir, dataset, staged>>
    /\ UNCHANGED <<written, calls, crashes>>

\* The agent dies, in the middle of cp or rmtree too; the task is handed out
\* again as another call.
AgentRestarts ==
    /\ ~At("idle") /\ crashes < MaxCrashes /\ crashes' = crashes + 1
    /\ spoilt' = spoilt \cup {"crash"} /\ call' = Idle
    /\ dataset' \in (IF At("copy") THEN SUBSET staged ELSE {dataset})
    /\ staged' \in (IF At("clean") THEN (SUBSET staged) \cup {NoDir} ELSE {staged})
    /\ UNCHANGED <<dir, written, calls, faults>>

\* student.remove with its data: what the student kept there is meant to go.
RemoveStudent ==
    /\ At("idle") /\ View # NoDir
    /\ IF dataset # NoDir THEN dataset' = NoDir /\ UNCHANGED dir ELSE dir' = NoDir /\ UNCHANGED dataset
    /\ written' = Owned(staged)
    /\ UNCHANGED <<staged, call, spoilt, calls, faults, crashes>>

Next ==
    \/ \E f \in Files : StudentWrites(f)
    \/ \E quota \in BOOLEAN : Ensure(quota)
    \/ Create \/ Copy \/ Own \/ Clean \/ Undo \/ AgentRestarts \/ RemoveStudent

Spec == Init /\ [][Next]_vars
-----------------------------------------------------------------------------
\* Nothing a student has written is lost, wherever a promotion stops: it is at
\* the student's path or in the staged directory beside it, unless removing the
\* staged directory failed half way.
DataKept == "rmtree" \notin spoilt => written \subseteq Held

\* Promotion is all or nothing: unless the agent died in it or the undoing
\* failed, the student finds everything at the old path after any call that
\* failed, and after any that worked.
PromotionAtomic == spoilt = {} /\ At("idle") => written \subseteq Owned(View) /\ staged = NoDir
=============================================================================
