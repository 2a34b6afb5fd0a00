-------------------------- MODULE ContainerRecreate --------------------------
(***************************************************************************)
(* container.recreate on a node, one action per call of the handler, with  *)
(* the agent dying between any two of them and the task delivered again;   *)
(* and beside it, in a thread of its own, the weekly package loop, which   *)
(* patches the same containers and rewrites the same state file.           *)
(***************************************************************************)
EXTENDS Naturals, FiniteSets

CONSTANTS Labs, NoBox, NoFile,
          Failing,      \* the calls that may fail
          MaxTasks, MaxFaults, MaxCrashes

VARIABLES
    name,       \* the container <lab>-<node> of a lab
    old,        \* the container <lab>-<node>-old, set aside for a rollback
    file,       \* the maintenance state file: age of a lab's last upgrade
    tmp,        \* its temporary file
    worker,     \* the task thread in recreate_container
    loop,       \* the thread of the package loop
    made,       \* containers made so far
    tasks, faults, crashes,
    ended,      \* history: how the last recreate ended
    blind       \* history: labs a failing docker ps has hidden from a recreate

vars == <<name, old, file, tmp, worker, loop, made, tasks, faults, crashes, ended, blind>>
docks == <<name, old, made, blind>>
files == <<file, tmp>>

Ages  == {"never", "zero", "recent", "stale"}
Empty == [l \in Labs |-> "never"]      \* also how a torn file is read

\* lists: the package lists were fetched in it; the image ships without them.
Fresh(id, up) == [id |-> id, up |-> up, lists |-> FALSE, patched |-> FALSE]

TheLab == CHOOSE l \in Labs : TRUE
Idle    == [pc |-> "idle", lab |-> TheLab, hadOld |-> FALSE, was |-> 0, causes |-> {}, data |-> Empty]
Asleep  == [pc |-> "sleep", lab |-> TheLab, todo |-> {}, data |-> Empty]
NoEnd   == [ok |-> TRUE, lab |-> TheLab, was |-> 0, causes |-> {}]

\* The labs were just created (lab.create makes no record).
Init ==
    /\ name = [l \in Labs |-> Fresh(1, TRUE)]
    /\ old = [l \in Labs |-> NoBox]
    /\ file = Empty /\ tmp = NoFile
    /\ worker = Idle /\ loop = Asleep /\ ended = NoEnd /\ blind = {}
    /\ made = 1 /\ tasks = 0 /\ faults = 0 /\ crashes = 0

At(pc) == worker.pc = pc
Go(pc) == worker' = [worker EXCEPT !.pc = pc] /\ UNCHANGED ended

\* The handler returns or raises: dispatcher.handle makes a result of either.
Answer(ok, causes) ==
    /\ worker' = Idle
    /\ ended' = IF ok THEN NoEnd
                ELSE [ok |-> FALSE, lab |-> worker.lab, was |-> worker.was, causes |-> causes]

\* A call fails, here or as part of the step that uses this.
Fault(call) == call \in Failing /\ faults < MaxFaults /\ faults' = faults + 1
Fine == UNCHANGED faults

\* The call fails and the handler goes on with its except branch.
Caught(call, pc) ==
    /\ Fault(call)
    /\ worker' = [worker EXCEPT !.pc = pc, !.causes = @ \cup {call}]
    /\ UNCHANGED ended

\* The call fails outside every try: the handler ends.
Raised(call) == Fault(call) /\ Answer(FALSE, worker.causes \cup {call})

Current == name[worker.lab]
Aside   == old[worker.lab]
PortTaken  == Aside # NoBox /\ Aside.up
SetName(c) == name' = [name EXCEPT ![worker.lab] = c]
SetOld(c)  == old' = [old EXCEPT ![worker.lab] = c]
SameDocks  == UNCHANGED docks
-----------------------------------------------------------------------------
Recreate(l) ==
    /\ At("idle") /\ tasks < MaxTasks /\ tasks' = tasks + 1
    /\ worker' = [Idle EXCEPT !.pc = "check", !.lab = l,
                              !.was = IF name[l] = NoBox THEN 0 ELSE name[l].id]
    /\ ended' = NoEnd /\ UNCHANGED <<docks, files, loop, faults, crashes>>

\* Wrong variant: -old is cleared whether or not there is a container to set aside.
HadOldClearsAlways ==
    /\ worker' = [worker EXCEPT !.pc = IF Current # NoBox THEN "stop" ELSE "clear", !.hadOld = TRUE]
    /\ Fine /\ UNCHANGED <<ended, blind>>

\* had_old = container_exists(name): a docker ps that fails says no.
HadOld ==
    \/ /\ worker' = [worker EXCEPT !.pc = IF Current # NoBox THEN "stop" ELSE "prepare",
                                   !.hadOld = Current # NoBox]
       /\ Fine /\ UNCHANGED <<ended, blind>>
    \/ Caught("ps", "prepare") /\ blind' = blind \cup {worker.lab}

\* Mounts, readiness of the node and the pull of the image come first.
Check ==
    /\ At("check") /\ (HadOld \/ (Raised("pull") /\ UNCHANGED blind))
    /\ UNCHANGED <<name, old, made, files, loop, tasks, crashes>>

\* The result of docker stop is not looked at.
Stop ==
    /\ At("stop")
    /\ \/ Fine /\ SetName([Current EXCEPT !.up = FALSE]) /\ Go("clear")
       \/ Caught("stop", "clear") /\ UNCHANGED name
    /\ UNCHANGED <<old, made, blind, files, loop, tasks, crashes>>

ClearOld ==
    /\ At("clear")
    /\ \/ Fine /\ SetOld(NoBox) /\ Go("rename")
       \/ Aside # NoBox /\ Raised("clear") /\ UNCHANGED old
    /\ UNCHANGED <<name, made, blind, files, loop, tasks, crashes>>

RenameAside ==
    /\ At("rename")
    /\ \/ Fine /\ SetOld(Current) /\ SetName(NoBox) /\ Go("prepare")
       \/ Raised("rename") /\ UNCHANGED <<name, old>>
    /\ UNCHANGED <<made, blind, files, loop, tasks, crashes>>

\* prepare_student_storage for every student.
Prepare ==
    /\ At("prepare")
    /\ ((Fine /\ Go("create")) \/ Caught("prepare", "restore"))
    /\ SameDocks /\ UNCHANGED <<files, loop, tasks, crashes>>

\* docker run: the name is taken, or the port of a container that did not stop,
\* or it fails otherwise, with or without the container made.
Create ==
    /\ At("create")
    /\ \/ /\ Current = NoBox /\ ~PortTaken
          /\ Fine /\ SetName(Fresh(made + 1, TRUE)) /\ Go("ready")
       \/ Current # NoBox /\ Fine /\ Go("remove") /\ UNCHANGED name
       \/ /\ Current = NoBox
          /\ ((PortTaken /\ Fine /\ Go("remove")) \/ Caught("create", "remove"))
          /\ (SetName(Fresh(made + 1, FALSE)) \/ UNCHANGED name)
    /\ made' = made + 1
    /\ UNCHANGED <<old, blind, files, loop, tasks, crashes>>

WaitSshReady ==
    /\ At("ready") /\ ((Fine /\ Go("promote")) \/ Caught("ready", "remove"))
    /\ SameDocks /\ UNCHANGED <<files, loop, tasks, crashes>>

\* Rolling back: the candidate goes, and an error of that is passed over.
RemoveCandidate ==
    /\ At("remove")
    /\ \/ Fine /\ SetName(NoBox) /\ Go("restore")
       \/ Current # NoBox /\ Caught("remove", "restore") /\ UNCHANGED name
    /\ UNCHANGED <<old, made, blind, files, loop, tasks, crashes>>

\* Wrong variant: the container that was set aside stays stopped.
RenameBackStopped ==
    \/ /\ worker.hadOld /\ Aside # NoBox /\ Current = NoBox
       /\ Fine /\ SetName(Aside) /\ SetOld(NoBox) /\ Answer(FALSE, worker.causes)
    \/ /\ ~(worker.hadOld /\ Aside # NoBox)
       /\ Fine /\ Answer(FALSE, worker.causes) /\ UNCHANGED <<name, old>>

\* and the container that was set aside is renamed and started.
RenameBack ==
    \/ /\ worker.hadOld /\ Aside # NoBox
       /\ \/ /\ Current = NoBox /\ Fine
             /\ SetName(Aside) /\ SetOld(NoBox) /\ Go("start")
          \/ Current # NoBox /\ Fine /\ Answer(FALSE, worker.causes) /\ UNCHANGED <<name, old>>
          \/ Raised("restore") /\ UNCHANGED <<name, old>>
    \/ /\ ~(worker.hadOld /\ Aside # NoBox)
       /\ Fine /\ Answer(FALSE, worker.causes) /\ UNCHANGED <<name, old>>

Restore == At("restore") /\ RenameBack /\ UNCHANGED <<made, blind, files, loop, tasks, crashes>>

StartAgain ==
    /\ At("start")
    /\ \/ Fine /\ SetName([Current EXCEPT !.up = TRUE]) /\ Answer(FALSE, worker.causes)
       \/ Raised("start") /\ UNCHANGED name
    /\ UNCHANGED <<old, made, blind, files, loop, tasks, crashes>>

Promote ==
    /\ At("promote")
    /\ \/ Fine /\ old' = (IF worker.hadOld THEN [old EXCEPT ![worker.lab] = NoBox] ELSE old)
          /\ Go("load")
       \/ worker.hadOld /\ Aside # NoBox /\ Raised("promote") /\ UNCHANGED old
    /\ UNCHANGED <<name, made, blind, files, loop, tasks, crashes>>
-----------------------------------------------------------------------------
(* record_apt_upgrade, by either thread: load, write the temporary file,   *)
(* replace.  Both threads use one temporary file and no lock.              *)

\* What is left of two writes into one file: the later one, or nothing readable.
Written(data) == {data} \cup (IF tmp = NoFile THEN {} ELSE {Empty})

MarkLoad ==
    /\ At("load")
    /\ worker' = [worker EXCEPT !.pc = "write", !.data = [file EXCEPT ![worker.lab] = "zero"]]
    /\ SameDocks /\ UNCHANGED <<files, loop, tasks, faults, crashes, ended>>

MarkWrite ==
    /\ At("write") /\ tmp' \in Written(worker.data) /\ Go("replace")
    /\ SameDocks /\ UNCHANGED <<file, loop, tasks, faults, crashes>>

\* os.replace, which raises when the other thread's has taken the file.
MarkReplace ==
    /\ At("replace")
    /\ IF tmp = NoFile THEN Answer(FALSE, worker.causes \cup {"mark"}) /\ UNCHANGED files
       ELSE file' = tmp /\ tmp' = NoFile /\ Answer(TRUE, {})
    /\ SameDocks /\ UNCHANGED <<loop, tasks, faults, crashes>>
-----------------------------------------------------------------------------
LoopGo(pc) == loop' = [loop EXCEPT !.pc = pc]
LoopSkips  == loop' = [Asleep EXCEPT !.pc = "pick", !.todo = loop.todo \ {loop.lab}]
LoopSame   == UNCHANGED <<worker, tasks, crashes, ended>>
Patching   == name[loop.lab]
Runs       == Patching # NoBox /\ Patching.up

LoopWakes ==
    /\ loop.pc = "sleep" /\ loop' = [loop EXCEPT !.pc = "pick", !.todo = Labs]
    /\ SameDocks /\ Fine /\ LoopSame /\ UNCHANGED files

\* Wrong variant: a lab is patched once after it was made.
IsDueOnce(age) == age \in {"never", "zero"}

IsDue(age) == age # "recent"

\* The next lab; when there is none, the loop sleeps.
LoopPicks ==
    /\ loop.pc = "pick"
    /\ \/ \E l \in loop.todo :
             loop' = IF IsDue(file[l]) THEN [loop EXCEPT !.pc = "update", !.lab = l]
                     ELSE [loop EXCEPT !.todo = @ \ {l}]
       \/ loop.todo = {} /\ loop' = Asleep
    /\ SameDocks /\ Fine /\ LoopSame /\ UNCHANGED files

\* apt-get update in the lab's container.
AptUpdate ==
    /\ loop.pc = "update"
    /\ \/ /\ Runs /\ Fine /\ LoopGo("upgrade")
          /\ name' = [name EXCEPT ![loop.lab].lists = TRUE]
       \/ ~Runs /\ Fine /\ LoopSkips /\ UNCHANGED name
       \/ Runs /\ Fault("apt") /\ LoopSkips /\ UNCHANGED name
    /\ LoopSame /\ UNCHANGED <<old, made, blind, files>>

\* apt-get upgrade in what is the lab's container by now: without lists there
\* is nothing to upgrade, which is a success.
AptUpgrade ==
    /\ loop.pc = "upgrade"
    /\ \/ /\ Runs /\ Fine /\ LoopGo("load")
          /\ name' = [name EXCEPT ![loop.lab].patched = @ \/ Patching.lists]
       \/ ~Runs /\ Fine /\ LoopSkips /\ UNCHANGED name
       \/ Runs /\ Fault("apt") /\ LoopSkips /\ UNCHANGED name
    /\ LoopSame /\ UNCHANGED <<old, made, blind, files>>

RecordLoad ==
    /\ loop.pc = "load"
    /\ loop' = [loop EXCEPT !.pc = "write", !.data = [file EXCEPT ![loop.lab] = "recent"]]
    /\ SameDocks /\ Fine /\ LoopSame /\ UNCHANGED files

RecordWrite ==
    /\ loop.pc = "write" /\ tmp' \in Written(loop.data) /\ LoopGo("replace")
    /\ SameDocks /\ Fine /\ LoopSame /\ UNCHANGED file

\* An exception ends the round.
RecordReplace ==
    /\ loop.pc = "replace"
    /\ IF tmp = NoFile THEN loop' = Asleep /\ UNCHANGED files
       ELSE file' = tmp /\ tmp' = NoFile /\ LoopSkips
    /\ SameDocks /\ Fine /\ LoopSame

\* apt_update_interval_s passes, for every copy of the record.
Aged(data, l) == IF data[l] = "recent" THEN [data EXCEPT ![l] = "stale"] ELSE data

Age(l) ==
    /\ file[l] = "recent" /\ file' = Aged(file, l)
    /\ tmp' = IF tmp = NoFile THEN NoFile ELSE Aged(tmp, l)
    /\ worker' = [worker EXCEPT !.data = Aged(@, l)] /\ loop' = [loop EXCEPT !.data = Aged(@, l)]
    /\ SameDocks /\ UNCHANGED <<tasks, faults, crashes, ended>>

\* The agent dies and starts again: an unanswered task is handed out again.
AgentRestarts ==
    /\ crashes < MaxCrashes /\ crashes' = crashes + 1
    /\ worker' = IF At("idle") THEN worker
                 ELSE [worker EXCEPT !.pc = "check", !.hadOld = FALSE, !.causes = {"crash"}]
    /\ loop' = Asleep
    /\ SameDocks /\ UNCHANGED <<files, tasks, faults, ended>>

Handler ==
    \/ Check \/ Stop \/ ClearOld \/ RenameAside \/ Prepare \/ Create \/ WaitSshReady
    \/ RemoveCandidate \/ Restore \/ StartAgain \/ Promote \/ MarkLoad \/ MarkWrite \/ MarkReplace

PkgUpdateLoop ==
    LoopWakes \/ LoopPicks \/ AptUpdate \/ AptUpgrade \/ RecordLoad \/ RecordWrite \/ RecordReplace

Next ==
    \/ \E l \in Labs : Recreate(l) \/ Age(l)
    \/ Handler \/ PkgUpdateLoop \/ AgentRestarts

Spec == Init /\ [][Next]_vars

\* The two threads run, and time passes.
FairSpec == Spec /\ WF_vars(Handler) /\ WF_vars(PkgUpdateLoop) /\ \A l \in Labs : WF_vars(Age(l))
-----------------------------------------------------------------------------
\* A lab that has a container never loses its last one, under its own name or
\* aside, whichever call fails and wherever the agent dies and starts again,
\* as long as docker ps told the handler which containers there are.
ContainerKept == \A l \in Labs \ blind : name[l] # NoBox \/ old[l] # NoBox

Handled == {"prepare", "create", "ready", "pull"}

\* recreate_container "never leaves the lab without a working container on
\* failure": when it fails in a step it expects to fail, the lab has the
\* container it had before, and it runs.
RolledBack ==
    ~ended.ok /\ ended.was # 0 /\ ended.causes \subseteq Handled /\ At("idle") =>
        LET c == name[ended.lab] IN c # NoBox /\ c.id = ended.was /\ c.up

\* However recreates, upgrades and their records overlap, a container that runs
\* is patched in the end.
PatchedInTheEnd == \A l \in Labs : <>[](name[l] # NoBox /\ name[l].up => name[l].patched)
=============================================================================
