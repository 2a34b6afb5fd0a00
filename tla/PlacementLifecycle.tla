------------------------- MODULE PlacementLifecycle -------------------------
(***************************************************************************)
(* One lab on one node: the placement row, its member rows and their       *)
(* credentials on the controller, the container and its accounts on the    *)
(* node, and what connects them: tasks, results and e-mails in flight.     *)
(*                                                                         *)
(* Server Actions and the hub's handlers run to their first await without  *)
(* interruption, so each is one action; an e-mail is awaited, so what      *)
(* follows it is another.  Tasks run, and results arrive, in the order of  *)
(* their queues (TaskDelivery says when that holds).  The handlers match a *)
(* result to rows by lab, node and user name, never by the task that       *)
(* produced it: that is where the interleavings bite.                      *)
(***************************************************************************)
EXTENDS Naturals, FiniteSets, Sequences, SequencesExt

CONSTANTS Students,   \* the people of the lab
          PI,         \* the one with a protected account
          WithEmail,  \* those with an e-mail address
          Nobody,     \* the user of a task about the whole lab
          MaxSerial,  \* how many tasks and rows are made
          Used,       \* the operations admins use
          Hasty,      \* those they issue while earlier ones are under way
          Failures,   \* the ways in which a handler may fail
          MaxCrashes  \* how often the controller dies

Ops == {"create", "retry", "recreate", "destroy", "force", "add", "remove"}

(* A handler that fails has done nothing (plain), or all of its work but   *)
(* the last check:                                                         *)
(*   createUp      container and accounts replaced, usage query failed;    *)
(*   createDown    old container removed, the new one never became ready;  *)
(*   recreateUp    the new container runs, the old one could not be removed; *)
(*   recreateGone  the rollback failed too;                                *)
(*   destroyHalf   container removed, the fast or the cold dataset busy;   *)
(*   addSet        password set, login check failed;                       *)
(*   removeHalf    account removed, its directory not.                     *)
AllFailures == {"plain", "createUp", "createDown", "recreateUp", "recreateGone",
                "destroyHalf", "addSet", "removeHalf"}

ASSUME PeopleAssumption ==
    PI \in Students /\ WithEmail \subseteq Students /\ Nobody \notin Students
ASSUME StudentsFinite == IsFiniteSet(Students)
ASSUME LimitAssumption == MaxSerial \in Nat /\ MaxCrashes \in Nat
ASSUME ChoiceAssumption ==
    Used \subseteq Ops /\ Hasty \subseteq Ops /\ Failures \subseteq AllFailures

VARIABLES
    serial,    \* ids and passwords given out so far
    roster,    \* lab_members
    plc,       \* the lab_placements row: id (0: none), state, completion mail
    member,    \* placement_members: row id (0: none), state, credential_secret
               \* (0: NULL); pw, the password of its latest student.add, is history
    queue,     \* tasks the node has not run
    results,   \* results the hub has not handled
    node,      \* the node: lab dataset, container, account -> password (0: none)
    mails,     \* e-mails being sent
    delivered, \* history: passwords a student was sent or an admin was shown
    proven,    \* history: passwords a successful student.add logged in with
    crashes

ctl  == <<serial, roster, plc, member>>
pipe == <<queue, results>>
hist == <<delivered, proven, crashes>>
vars == <<ctl, pipe, node, mails, hist>>

NoPlc    == [id |-> 0, state |-> "none", mailed |-> "null"]
NoMember == [row |-> 0, state |-> "none", secret |-> 0, pw |-> 0]
NoMembers  == [s \in Students |-> NoMember]
NoAccounts == [s \in Students |-> 0]

Task(kind, s, pw) == [kind |-> kind, s |-> s, pw |-> pw]
LabTask(kind)     == Task(kind, Nobody, 0)

Init ==
    /\ serial = 0 /\ roster = {}
    /\ plc = NoPlc /\ member = NoMembers
    /\ queue = <<>> /\ results = <<>>
    /\ node = [data |-> FALSE, up |-> FALSE, acc |-> NoAccounts]
    /\ mails = {}
    /\ delivered = [s \in Students |-> {}] /\ proven = {} /\ crashes = 0

Quiet == queue = <<>> /\ results = <<>>

\* An operation that is not hasty waits for tasks, results and e-mails.
MayIssue(op) == op \in Used /\ (op \in Hasty \/ (Quiet /\ mails = {}))
-----------------------------------------------------------------------------
(* Server Actions.                                                         *)

\* Members are provisioned in the order of their user names.
Order(S) == SetToSeq(S)
FreshPw(S, s, n) == n + CHOOSE i \in 1..Cardinality(S) : Order(S)[i] = s
AddTasks(S, n) == [i \in 1..Cardinality(S) |-> Task("add", Order(S)[i], n + i)]

Spend(n) == serial + n <= MaxSerial /\ serial' = serial + n

NewMember(pw) == [row |-> pw, state |-> "provisioning", secret |-> pw, pw |-> pw]

CreatePlacement ==
    /\ MayIssue("create") /\ plc.id = 0
    /\ Spend(1 + Cardinality(roster))
    /\ plc' = [id |-> serial + 1, state |-> "provisioning", mailed |-> "null"]
    /\ member' = [s \in Students |-> IF s \in roster
                    THEN NewMember(FreshPw(roster, s, serial + 1)) ELSE NoMember]
    /\ queue' = Append(queue, LabTask("create")) \o AddTasks(roster, serial + 1)
    /\ UNCHANGED <<roster, results, node, mails, hist>>

RetryPlacement ==
    /\ MayIssue("retry") /\ plc.state = "failed"
    /\ Spend(1)
    /\ plc' = [plc EXCEPT !.state = "provisioning"]
    /\ queue' = Append(queue, LabTask("create"))
    /\ UNCHANGED <<roster, member, results, node, mails, hist>>

Members == {s \in Students : member[s].row # 0}

\* Wrong variant: the members of the new container are not provisioned again.
RecreateForgetsMembers ==
    /\ MayIssue("recreate") /\ plc.id # 0
    /\ Spend(1)
    /\ plc' = [plc EXCEPT !.mailed = "null"]
    /\ queue' = Append(queue, LabTask("recreate"))
    /\ UNCHANGED <<roster, member, results, node, mails, hist>>

\* recreatePlacement, with reprovisionPlacementMembers: a new password for every
\* row, whatever is under way for it.
RecreatePlacement ==
    /\ MayIssue("recreate") /\ plc.id # 0
    /\ Spend(1 + Cardinality(Members))
    /\ plc' = [plc EXCEPT !.mailed = "null"]
    /\ member' = [s \in Students |-> IF s \in Members
                    THEN [NewMember(FreshPw(Members, s, serial + 1)) EXCEPT !.row = member[s].row]
                    ELSE NoMember]
    /\ queue' = Append(queue, LabTask("recreate")) \o AddTasks(Members, serial + 1)
    /\ UNCHANGED <<roster, results, node, mails, hist>>

DestroyPlacement ==
    /\ MayIssue("destroy") /\ plc.id # 0
    /\ Spend(1)
    /\ plc' = [plc EXCEPT !.state = "deleting"]
    /\ queue' = Append(queue, LabTask("destroy"))
    /\ UNCHANGED <<roster, member, results, node, mails, hist>>

\* forceDeletePlacement, when the node is offline: the row goes at once and takes
\* its members along, the task stays queued.
ForceDeletePlacement ==
    /\ MayIssue("force") /\ plc.id # 0
    /\ Spend(1)
    /\ plc' = NoPlc /\ member' = NoMembers
    /\ queue' = Append(queue, LabTask("destroy"))
    /\ UNCHANGED <<roster, results, node, mails, hist>>

\* addStudentToLab; for the PI, ensurePiAccess.
AddStudent(s) ==
    /\ MayIssue("add") /\ s \notin roster
    /\ Spend(1)
    /\ roster' = roster \cup {s}
    /\ IF plc.id = 0 THEN UNCHANGED <<member, queue>>
       ELSE /\ member' = [member EXCEPT ![s] = NewMember(serial + 1)]
            /\ queue' = Append(queue, Task("add", s, serial + 1))
    /\ UNCHANGED <<plc, results, node, mails, hist>>

\* removeStudentFromLab
RemoveStudent(s) ==
    /\ MayIssue("remove") /\ s \in roster /\ s # PI
    /\ Spend(1)
    /\ roster' = roster \ {s}
    /\ IF plc.id = 0 THEN UNCHANGED <<member, queue>>
       ELSE /\ member' = [member EXCEPT ![s] = NoMember]
            /\ queue' = Append(queue, Task("remove", s, 0))
    /\ UNCHANGED <<plc, results, node, mails, hist>>

\* consumePlacementCredential
RevealCredential(s) ==
    /\ member[s].state = "active" /\ member[s].secret # 0
    /\ delivered' = [delivered EXCEPT ![s] = @ \cup {member[s].secret}]
    /\ member' = [member EXCEPT ![s].secret = 0]
    /\ UNCHANGED <<serial, roster, plc, pipe, node, mails, proven, crashes>>
-----------------------------------------------------------------------------
(* The node.                                                               *)

\* ensure_container replaces whatever runs; accounts live in the container.
FreshContainer == [data |-> TRUE, up |-> TRUE, acc |-> NoAccounts]
NoContainer    == [node EXCEPT !.up = FALSE, !.acc = NoAccounts]

\* Whether a handler finds what it needs.
CanWork(t) ==
    /\ t.kind = "recreate" => node.data
    /\ t.kind \in {"add", "remove"} => node.up

\* The node after a handler that did its work.
LabCreated         == FreshContainer
ContainerRecreated == FreshContainer
LabDestroyed       == [data |-> FALSE, up |-> FALSE, acc |-> NoAccounts]
StudentAdded(t)    == [node EXCEPT !.acc[t.s] = t.pw]
StudentRemoved(t)  == [node EXCEPT !.acc[t.s] = 0]

After(t) ==
    CASE t.kind = "create"   -> LabCreated
      [] t.kind = "recreate" -> ContainerRecreated
      [] t.kind = "destroy"  -> LabDestroyed
      [] t.kind = "add"      -> StudentAdded(t)
      [] t.kind = "remove"   -> StudentRemoved(t)

\* A handler raises: it has done nothing, made the dataset, or got further.
Partly(t, kind, failure) == t.kind = kind /\ failure \in Failures

Raises(t) ==
    \/ node' = node
    \/ t.kind = "create" /\ node' = [node EXCEPT !.data = TRUE]
    \/ Partly(t, "create", "createDown") /\ node' = [NoContainer EXCEPT !.data = TRUE]
    \/ /\ Partly(t, "recreate", "recreateGone") \/ Partly(t, "destroy", "destroyHalf")
       /\ node' = NoContainer
    \/ /\ \/ Partly(t, "create", "createUp") \/ Partly(t, "recreate", "recreateUp")
          \/ Partly(t, "destroy", "destroyHalf") \/ Partly(t, "add", "addSet")
          \/ Partly(t, "remove", "removeHalf")
       /\ CanWork(t) /\ node' = After(t)

RunTask ==
    LET t == Head(queue) IN
    /\ queue # <<>>
    /\ queue' = Tail(queue)
    /\ \/ /\ CanWork(t) /\ node' = After(t)
          /\ results' = Append(results, [task |-> t, ok |-> TRUE])
          /\ proven' = IF t.kind = "add" THEN proven \cup {t.pw} ELSE proven
       \/ /\ ~CanWork(t) \/ Failures # {}
          /\ Raises(t)
          /\ results' = Append(results, [task |-> t, ok |-> FALSE])
          /\ UNCHANGED proven
    /\ UNCHANGED <<ctl, mails, delivered, crashes>>
-----------------------------------------------------------------------------
(* handleResult.                                                           *)

Handling(kinds) ==
    /\ results # <<>> /\ Head(results).task.kind \in kinds
    /\ results' = Tail(results)
    /\ UNCHANGED <<serial, roster, queue, node, hist>>

\* Wrong variant: a failed lab.create is reported and not recorded.
CreateResultIgnoresFailure ==
    /\ Handling({"create"})
    /\ plc' = IF plc.id # 0 /\ Head(results).ok THEN [plc EXCEPT !.state = "active"] ELSE plc
    /\ UNCHANGED <<member, mails>>

\* markPlacementStateByLabNode: whatever the row's state is by now.
CreateResult ==
    /\ Handling({"create"})
    /\ plc' = IF plc.id = 0 THEN plc
              ELSE [plc EXCEPT !.state = IF Head(results).ok THEN "active" ELSE "failed"]
    /\ UNCHANGED <<member, mails>>

\* Wrong variant: the confirmation leaves the row in place.
DestroyResultKeepsRow ==
    /\ Handling({"destroy"})
    /\ plc' = IF plc.id # 0 THEN [plc EXCEPT !.state = "deleting"] ELSE plc
    /\ UNCHANGED <<member, mails>>

\* Wrong variant: the row goes and its member rows stay.
DestroyResultOrphans ==
    /\ Handling({"destroy"})
    /\ plc' = IF Head(results).ok /\ plc.state = "deleting" THEN NoPlc ELSE plc
    /\ UNCHANGED <<member, mails>>

\* Wrong variant: a failed teardown is marked failed.
DestroyResultFails ==
    /\ Handling({"destroy"})
    /\ IF Head(results).ok THEN plc' = NoPlc /\ member' = NoMembers
       ELSE /\ plc' = IF plc.id = 0 THEN plc ELSE [plc EXCEPT !.state = "failed"]
            /\ UNCHANGED member
    /\ UNCHANGED mails

\* confirmPlacementDestroyed drops a row that is (still) deleting.
DestroyResult ==
    /\ Handling({"destroy"})
    /\ IF Head(results).ok
       THEN IF plc.state = "deleting" THEN plc' = NoPlc /\ member' = NoMembers
                                      ELSE UNCHANGED <<plc, member>>
       ELSE /\ plc' = IF plc.id = 0 THEN plc ELSE [plc EXCEPT !.state = "deleting"]
            /\ UNCHANGED member
    /\ UNCHANGED mails

\* markPlacementMemberState
Marked(s, ok) ==
    IF member[s].row = 0 THEN member
    ELSE [member EXCEPT ![s].state = IF ok THEN "active" ELSE "failed"]

\* deliverPlacementCredential up to its await.
CredentialMails(s, mb) ==
    IF mb[s].state = "active" /\ mb[s].secret # 0 /\ s \in WithEmail
    THEN {[kind |-> "credential", s |-> s, id |-> mb[s].row, pw |-> mb[s].secret]}
    ELSE {}

\* maybeDeliverPlacementCompletion's conditions.
Complete(mb) ==
    /\ plc.state = "active" /\ plc.mailed = "null" /\ PI \in roster
    /\ Members # {} /\ \A s \in Members : mb[s].state = "active"

CompletionMail == [kind |-> "completion", s |-> PI, id |-> plc.id, pw |-> 0]

\* Wrong variant: the credential is mailed without looking at the verdict.
AddResultMailsAnyway ==
    LET t  == Head(results).task
        mb == Marked(t.s, TRUE) IN
    /\ Handling({"add"})
    /\ member' = mb
    /\ mails' = mails \cup CredentialMails(t.s, mb)
    /\ UNCHANGED plc

\* Wrong variant: the completion mail is not claimed before it is sent.
AddResultUnclaimed ==
    LET t  == Head(results).task
        ok == Head(results).ok
        mb == Marked(t.s, ok) IN
    /\ Handling({"add"})
    /\ member' = mb
    /\ mails' = mails \cup (IF ok THEN CredentialMails(t.s, mb) ELSE {})
                      \cup (IF ok /\ Complete(mb) THEN {CompletionMail} ELSE {})
    /\ UNCHANGED plc

AddResult ==
    LET t  == Head(results).task
        ok == Head(results).ok
        mb == Marked(t.s, ok) IN
    /\ Handling({"add"})
    /\ member' = mb
    /\ mails' = mails \cup (IF ok THEN CredentialMails(t.s, mb) ELSE {})
                      \cup (IF ok /\ Complete(mb) THEN {CompletionMail} ELSE {})
    /\ plc' = IF ok /\ Complete(mb) THEN [plc EXCEPT !.mailed = "claimed"] ELSE plc

\* container.recreate and student.remove change no row of the placement.
OtherResult ==
    /\ Handling({"recreate", "remove"})
    /\ UNCHANGED <<plc, member, mails>>
-----------------------------------------------------------------------------
(* After the awaits.                                                       *)

\* Wrong variant: the secret is burned whether or not the mail went out.
CredentialBurned(m) ==
    /\ m \in mails /\ m.kind = "credential"
    /\ mails' = mails \ {m}
    /\ member' = [member EXCEPT ![m.s].secret = IF member[m.s].row = m.id THEN 0 ELSE @]
    /\ UNCHANGED <<serial, roster, plc, pipe, node, hist>>

\* A credential mail went out: the row's secret is burned, whichever it is now.
CredentialMailed(m) ==
    /\ m \in mails /\ m.kind = "credential"
    /\ mails' = mails \ {m}
    /\ delivered' = [delivered EXCEPT ![m.s] = @ \cup {m.pw}]
    /\ member' = [member EXCEPT ![m.s].secret = IF member[m.s].row = m.id THEN 0 ELSE @]
    /\ UNCHANGED <<serial, roster, plc, pipe, node, proven, crashes>>

\* A completion mail went out: remembered on the row, if it is still there.
CompletionMailed(m) ==
    /\ m \in mails /\ m.kind = "completion"
    /\ mails' = mails \ {m}
    /\ plc' = IF plc.id = m.id THEN [plc EXCEPT !.mailed = "sent"] ELSE plc
    /\ UNCHANGED <<serial, roster, member, pipe, node, hist>>

\* A mail could not be sent: only a completion gives its claim back.
MailFails(m) ==
    /\ m \in mails
    /\ mails' = mails \ {m}
    /\ plc' = IF m.kind = "completion" /\ plc.id = m.id
              THEN [plc EXCEPT !.mailed = "null"] ELSE plc
    /\ UNCHANGED <<serial, roster, member, pipe, node, hist>>

\* The controller dies, perhaps right after markTaskState settled a result.
Crash ==
    /\ crashes < MaxCrashes /\ crashes' = crashes + 1
    /\ mails' = {}
    /\ \/ UNCHANGED results
       \/ results # <<>> /\ results' = Tail(results)
    /\ UNCHANGED <<ctl, queue, node, delivered, proven>>
-----------------------------------------------------------------------------
HandleResult == CreateResult \/ DestroyResult \/ AddResult \/ OtherResult

MailDone == \E m \in mails : CredentialMailed(m) \/ CompletionMailed(m) \/ MailFails(m)

Next ==
    \/ CreatePlacement \/ RetryPlacement \/ RecreatePlacement
    \/ DestroyPlacement \/ ForceDeletePlacement
    \/ \E s \in Students : AddStudent(s) \/ RemoveStudent(s) \/ RevealCredential(s)
    \/ RunTask \/ HandleResult \/ MailDone \/ Crash

Spec == Init /\ [][Next]_vars

(* Fairness: the node keeps running tasks, the hub keeps handling results, *)
(* and an e-mail is sent or given up.                                      *)
FairSpec == Spec /\ WF_vars(RunTask) /\ WF_vars(HandleResult) /\ WF_vars(MailDone)
-----------------------------------------------------------------------------
(* Properties.                                                             *)

Numbers == 0..MaxSerial
Tasks   == [kind : {"create", "recreate", "destroy", "add", "remove"},
            s : Students \cup {Nobody}, pw : Numbers]

\* Every variable holds a value of its kind, and only a placement has members.
TypeOK ==
    /\ serial \in Numbers /\ roster \subseteq Students
    /\ plc \in [id : Numbers, mailed : {"null", "claimed", "sent"},
                state : {"none", "provisioning", "active", "failed", "deleting"}]
    /\ plc.id = 0 <=> plc.state = "none"
    /\ member \in [Students -> [row : Numbers, secret : Numbers, pw : Numbers,
                                state : {"none", "provisioning", "active", "failed"}]]
    /\ plc.id = 0 => member = NoMembers
    /\ queue \in Seq(Tasks) /\ results \in Seq([task : Tasks, ok : BOOLEAN])
    /\ node \in [data : BOOLEAN, up : BOOLEAN, acc : [Students -> Numbers]]
    /\ mails \subseteq [kind : {"credential", "completion"}, s : Students,
                        id : Numbers, pw : Numbers]
    /\ delivered \in [Students -> SUBSET Numbers] /\ proven \subseteq Numbers
    /\ crashes \in 0..MaxCrashes

\* Tasks not yet answered, oldest first.
Pipeline == [i \in 1..Len(results) |-> results[i].task] \o queue
Pending(kind, s) == \E i \in DOMAIN Pipeline : Pipeline[i].kind = kind /\ Pipeline[i].s = s

\* A row never waits for nothing: a placement or a member that is provisioning
\* has its task still under way, however operations overlap.
NothingStuck ==
    /\ plc.state = "provisioning" => Pending("create", Nobody)
    /\ \A s \in Students : member[s].state = "provisioning" => Pending("add", s)

\* Once no student.add for a member is under way, the row shows the verdict on
\* its latest password, whatever older tasks and older rows reported meanwhile:
\* an active member has logged in with it.
ActiveIsProven ==
    \A s \in Students :
       member[s].state = "active" /\ ~Pending("add", s) => member[s].pw \in proven

\* Only a password the node has logged in with is mailed or revealed.
OnlyProvenDelivered == \A s \in Students : delivered[s] \subseteq proven

\* The latest password of an active member is never lost: once nothing is under
\* way, it was delivered or can still be revealed.
CredentialKept ==
    Quiet /\ mails = {} =>
       \A s \in Students : member[s].state = "active" =>
          member[s].pw \in delivered[s] \/ member[s].secret = member[s].pw

\* Once nothing is under way, a placement that is shown active has its container
\* and the accounts of its active members, with their latest passwords.
RowsMatchNode ==
    Quiet /\ plc.state = "active" =>
       /\ node.up
       /\ \A s \in Students : member[s].state = "active" => node.acc[s] = member[s].pw

\* A placement that is being torn down stays so until the node confirms.
DeletingStays ==
    [][plc.state = "deleting" => plc'.state \in {"deleting", "none"}]_vars

\* A completion mail is claimed: while it is being sent no second one is due.
CompletionClaimed ==
    \A m \in mails : m.kind = "completion" /\ m.id = plc.id => plc.mailed = "claimed"

\* A teardown that is not obstructed completes: the row goes.
TeardownCompletes == plc.state = "deleting" ~> plc.id = 0
=============================================================================
