------------------------------- MODULE Roster -------------------------------
(***************************************************************************)
(* People and labs on the controller: student records with their Linux     *)
(* UIDs, labs with their PI and roster, the accounts each membership makes *)
(* on the lab's placements, and the two ways of importing a roster.        *)
(*                                                                         *)
(* None of these operations waits for I/O once it has begun to write, so   *)
(* each is one action; the process may die after the membership is written *)
(* and before its accounts are.  Names are handled like e-mail addresses   *)
(* by every operation and are left out.                                    *)
(***************************************************************************)
EXTENDS Naturals, FiniteSets, Sequences

CONSTANTS Users, Labs, Nodes,
          Sids,       \* university ids
          Mails,      \* e-mail addresses
          None,       \* a blank field, NULL
          LastUid,    \* UIDs are 1..LastUid (10000..59999 in the code)
          LastPort,   \* SSH ports are 1..LastPort on every node
          Files,      \* roster files: sequences of rows
          MayDie      \* the controller may die between two writes

VARIABLES
    students,   \* students: user name -> student_id, e-mail, linux_uid (0: no row)
    lab,        \* labs and lab_members
    place,      \* lab_placements: lab -> node -> ssh_port (0: no row)
    acct,       \* placement_members: lab -> node -> user names
    cut,        \* history: accounts that a crash kept from being made
    last        \* history: the import that was just applied

vars == <<students, lab, place, acct, cut, last>>

NoStudent == [sid |-> None, mail |-> None, uid |-> 0]
NoLab     == [live |-> FALSE, pi |-> None, mail |-> None, members |-> {}]
NoImport  == [lab |-> None, file |-> <<>>]

Known(u) == students[u].uid # 0

Init ==
    /\ students = [u \in Users |-> NoStudent]
    /\ lab = [l \in Labs |-> NoLab]
    /\ place = [l \in Labs |-> [n \in Nodes |-> 0]]
    /\ acct = [l \in Labs |-> [n \in Nodes |-> {}]]
    /\ cut = {}
    /\ last = NoImport
-----------------------------------------------------------------------------
(* Allocation: the lowest free UID, the lowest port free on the node.      *)

FreeUids == 1..LastUid \ {students[u].uid : u \in Users}

\* The k-th account created in one transaction gets the k-th lowest free UID.
NthFree(k) == CHOOSE x \in FreeUids : Cardinality({y \in FreeUids : y <= x}) = k

FreePorts(n) == 1..LastPort \ {place[l][n] : l \in Labs}
NextSshPort(n) == CHOOSE p \in FreePorts(n) : \A q \in FreePorts(n) : p <= q

\* Every new member gets an account on every placement of the lab, one at a time:
\* a process that dies on the way has made some of them.
Placed(l) == {n \in Nodes : place[l][n] # 0}

Missing(l, users) == {a \in {l} \X Placed(l) \X users : a[3] \notin acct[l][a[2]]}

Provision(l, users) ==
    \E lost \in SUBSET Missing(l, users) :
       LET made == Missing(l, users) \ lost IN
       /\ lost = {} \/ MayDie
       /\ acct' = [acct EXCEPT ![l] = [n \in Nodes |-> acct[l][n] \cup {u \in users : <<l, n, u>> \in made}]]
       /\ cut' = (cut \ made) \cup lost
-----------------------------------------------------------------------------
(* students.ts                                                             *)

\* findOrCreateStudent: by student_id, then by user name, else a new row.
Match(in) ==
    IF in.sid # None /\ \E u \in Users : students[u].sid = in.sid
    THEN CHOOSE u \in Users : students[u].sid = in.sid
    ELSE in.user

WithRecord(in) ==
    IF Known(Match(in)) THEN students
    ELSE [students EXCEPT ![in.user] = [sid |-> in.sid, mail |-> in.mail, uid |-> NthFree(1)]]

CanRecord(in) == Known(Match(in)) \/ FreeUids # {}

Inputs == [user : Users, sid : Sids \cup {None}, mail : Mails \cup {None}]

\* Wrong variant: a known student takes on the student_id of the form.
AddStudentAdoptsSid(l, in) ==
    LET u == Match(in) IN
    /\ lab[l].live /\ CanRecord(in) /\ u \notin lab[l].members
    /\ students' = [WithRecord(in) EXCEPT ![u].sid = in.sid]
    /\ lab' = [lab EXCEPT ![l].members = @ \cup {u}]
    /\ Provision(l, {u})
    /\ last' = NoImport
    /\ UNCHANGED place

AddStudentToLab(l, in) ==
    LET u == Match(in) IN
    /\ lab[l].live /\ CanRecord(in) /\ u \notin lab[l].members
    /\ students' = WithRecord(in)
    /\ lab' = [lab EXCEPT ![l].members = @ \cup {u}]
    /\ Provision(l, {u})
    /\ last' = NoImport
    /\ UNCHANGED place

\* ensurePiAccess.  The record is made before the PI is compared: a refusal
\* leaves it behind.
PiInputs == {in \in Inputs : in.sid = None}

EnsurePiAccess(l, in) ==
    /\ lab[l].live /\ CanRecord(in)
    /\ IF lab[l].pi \notin {None, in.user}
       THEN students' = WithRecord(in) /\ UNCHANGED <<lab, acct, cut>>
       ELSE /\ students' = [WithRecord(in) EXCEPT ![in.user].mail = in.mail]
            /\ lab' = [lab EXCEPT ![l].pi = in.user, ![l].mail = in.mail,
                                  ![l].members = @ \cup {in.user}]
            /\ Provision(l, {in.user})
    /\ last' = NoImport
    /\ UNCHANGED place

\* Wrong variant: the PI may be removed like everybody else.
RemovePiToo(l, u) ==
    /\ lab[l].live /\ u \in lab[l].members
    /\ lab' = [lab EXCEPT ![l].members = @ \ {u}]
    /\ acct' = [acct EXCEPT ![l] = [n \in Nodes |-> @[n] \ {u}]]
    /\ cut' = {a \in cut : ~(a[1] = l /\ a[3] = u)}
    /\ last' = NoImport
    /\ UNCHANGED <<students, place>>

RemoveStudentFromLab(l, u) ==
    /\ lab[l].live /\ u # lab[l].pi /\ u \in lab[l].members
    /\ lab' = [lab EXCEPT ![l].members = @ \ {u}]
    /\ acct' = [acct EXCEPT ![l] = [n \in Nodes |-> @[n] \ {u}]]
    /\ cut' = {a \in cut : ~(a[1] = l /\ a[3] = u)}
    /\ last' = NoImport
    /\ UNCHANGED <<students, place>>

\* validateImportRows and importStudentsAction: the rows that pass are added one
\* after the other, each as AddStudentToLab; a row that throws is skipped.  A
\* user name counts once per file, even when its first row was refused; the form
\* may also want an e-mail, which leaves some rows out.
AcceptedRows(f) ==
    {i \in DOMAIN f : f[i].user \in Users /\ \A j \in 1..(i - 1) : f[j].user # f[i].user}
-----------------------------------------------------------------------------
(* labs.ts and the actions on labs.                                        *)

\* copyMembers: the members of another lab who are not members yet.
CopiedMembers(from, members) == lab[from].members \ members

\* createLabAction: createLab, then ensurePiAccess if the form names the PI's
\* account, then copyMembers.  Without a UID left for the PI the lab stays, empty.
PiForms == [user : Users \cup {None}, sid : {None}, mail : Mails \cup {None}]

CreateLab(l, from, in) ==
    LET pi == {in.user} \ {None}
        ok == \A u \in pi : CanRecord(in) IN
    /\ ~lab[l].live
    /\ students' = IF pi # {} /\ ok THEN [WithRecord(in) EXCEPT ![in.user].mail = in.mail]
                                    ELSE students
    /\ lab' = [lab EXCEPT ![l] =
          [live |-> TRUE, pi |-> IF ok THEN in.user ELSE None, mail |-> in.mail,
           members |-> IF ok THEN pi \cup CopiedMembers(from, pi) ELSE {}]]
    /\ last' = NoImport
    /\ UNCHANGED <<place, acct, cut>>

UpdateLabMeta(l, mail) ==
    /\ lab[l].live
    /\ lab' = [lab EXCEPT ![l].mail = mail]
    /\ last' = NoImport
    /\ UNCHANGED <<students, place, acct, cut>>

\* createPlacement, with the roster as it stands.
CreatePlacement(l, n) ==
    /\ lab[l].live /\ place[l][n] = 0 /\ FreePorts(n) # {}
    /\ place' = [place EXCEPT ![l][n] = NextSshPort(n)]
    /\ acct' = [acct EXCEPT ![l][n] = lab[l].members]
    /\ last' = NoImport
    /\ UNCHANGED <<students, lab, cut>>

\* A placement row goes, confirmed or forced, and its member rows with it.
PlacementGone(l, n) ==
    /\ place[l][n] # 0
    /\ place' = [place EXCEPT ![l][n] = 0]
    /\ acct' = [acct EXCEPT ![l][n] = {}]
    /\ cut' = {a \in cut : ~(a[1] = l /\ a[2] = n)}
    /\ last' = NoImport
    /\ UNCHANGED <<students, lab>>

\* Deleting a lab drops the students nobody else has, unless the foreign key of a
\* lab they are PI of forbids it.
Orphans(l) == {u \in lab[l].members : \A m \in Labs \ {l} : u \notin lab[m].members}
IsPi(l, u) == \E m \in Labs \ {l} : lab[m].pi = u

\* destroyLab: the placements of offline nodes are purged when it is forced, the
\* others are torn down (PlacementGone), and the lab goes once there is none left.
DestroyLab(l, purged) ==
    /\ lab[l].live /\ purged \subseteq Placed(l)
    /\ place' = [place EXCEPT ![l] = [n \in Nodes |-> IF n \in purged THEN 0 ELSE @[n]]]
    /\ acct' = [acct EXCEPT ![l] = [n \in Nodes |-> IF n \in purged THEN {} ELSE @[n]]]
    /\ cut' = {a \in cut : ~(a[1] = l /\ a[2] \in purged)}
    /\ IF purged # Placed(l) THEN UNCHANGED <<lab, students>>
       ELSE /\ lab' = [lab EXCEPT ![l] = NoLab]
            /\ \E gone \in SUBSET Orphans(l) :
                  /\ \A u \in gone : ~IsPi(l, u)
                  /\ (\A u \in Orphans(l) : ~IsPi(l, u)) => gone = Orphans(l)
                  /\ students' = [u \in Users |-> IF u \in gone THEN NoStudent ELSE students[u]]
    /\ last' = NoImport
-----------------------------------------------------------------------------
(* labimport.ts: a file is a sequence of rows [role, user, sid, mail].     *)

\* Phase A, the fields of a row; a user name outside Users is blank or malformed.
ValidRow(r) == r.user \in Users /\ (r.role = "pi" => r.mail # None)

PiRows(f) == {i \in DOMAIN f : f[i].role = "pi"}
Batch(f)  == {f[i].user : i \in DOMAIN f}

\* Phases B and C: a user's field is the first that is not blank.
Of(f, u) == {i \in DOMAIN f : f[i].user = u}
FirstSaid(f, S, field) ==
    LET said == {i \in S : f[i][field] # None} IN
    IF said = {} THEN None ELSE f[CHOOSE i \in said : \A j \in said : i <= j][field]

BatchSid(f, u)  == FirstSaid(f, Of(f, u), "sid")
BatchMail(f, u) == FirstSaid(f, Of(f, u), "mail")
PiUser(f)       == FirstSaid(f, PiRows(f), "user")
PiMail(f)       == FirstSaid(f, PiRows(f), "mail")

\* Two PIs, or two ids for one user name.
RowsDisagree(f) ==
    \/ \E i, j \in PiRows(f) : f[i].user # f[j].user \/ f[i].mail # f[j].mail
    \/ \E i, j \in DOMAIN f : /\ f[i].user = f[j].user /\ f[i].sid # f[j].sid
                              /\ None \notin {f[i].sid, f[j].sid}

\* Wrong variant: ids are compared with the database and not with each other.
SidsDisagreeOutside(f) ==
    \E u \in Batch(f) : LET sid == BatchSid(f, u) IN
       /\ sid # None
       /\ \/ \E v \in Users \ {u} : students[v].sid = sid
          \/ students[u].sid \notin {None, sid}

\* Phase C2: an id is used by two user names, or a user name has another id.
SidsDisagree(f) ==
    \E u \in Batch(f) : LET sid == BatchSid(f, u) IN
       /\ sid # None
       /\ \/ \E v \in Batch(f) \ {u} : BatchSid(f, v) = sid
          \/ \E v \in Users \ {u} : students[v].sid = sid
          \/ students[u].sid \notin {None, sid}

PlanOk(f) ==
    /\ \A i \in DOMAIN f : ValidRow(f[i])
    /\ ~RowsDisagree(f) /\ ~SidsDisagree(f)

ToCreate(f) == {u \in Batch(f) : ~Known(u)}
ToAdd(l, f) == {u \in Batch(f) : u \notin lab[l].members}

\* A known student's fields: a blank changes nothing, an id is only ever filled in.
NewSid(f, u)  == IF students[u].sid = None THEN BatchSid(f, u) ELSE students[u].sid
NewMail(f, u) == IF BatchMail(f, u) = None THEN students[u].mail ELSE BatchMail(f, u)
ToUpdate(f) == {u \in Batch(f) : /\ Known(u)
                                 /\ \/ NewSid(f, u) # students[u].sid
                                    \/ NewMail(f, u) # students[u].mail}

\* Wrong variant: a PI row is always a change.
PiChangesAlways(l, f) == PiRows(f) # {}

PiChanges(l, f) ==
    \/ PiUser(f) \notin {None, lab[l].pi}
    \/ PiMail(f) \notin {None, lab[l].mail}

\* Users are created in the order in which the file first names them.
FirstRow(f, u) == CHOOSE i \in Of(f, u) : \A j \in Of(f, u) : i <= j
CreatedAs(f, u) == Cardinality({v \in ToCreate(f) : FirstRow(f, v) <= FirstRow(f, u)})

\* Wrong variant: the memberships are written and the accounts forgotten.
ImportUnprovisioned(l, f) ==
    /\ lab[l].live /\ PlanOk(f) /\ Cardinality(ToCreate(f)) <= Cardinality(FreeUids)
    /\ students' = [u \in Users |->
          IF u \in ToCreate(f)
          THEN [sid |-> BatchSid(f, u), mail |-> BatchMail(f, u), uid |-> NthFree(CreatedAs(f, u))]
          ELSE students[u]]
    /\ lab' = [lab EXCEPT ![l].members = @ \cup ToAdd(l, f)]
    /\ last' = NoImport
    /\ UNCHANGED <<place, acct, cut>>

\* applyRosterImport: one transaction, then the accounts of the new members.
ApplyRosterImport(l, f) ==
    /\ lab[l].live /\ PlanOk(f) /\ Cardinality(ToCreate(f)) <= Cardinality(FreeUids)
    /\ students' = [u \in Users |->
          CASE u \in ToCreate(f) -> [sid |-> BatchSid(f, u), mail |-> BatchMail(f, u),
                                     uid |-> NthFree(CreatedAs(f, u))]
            [] u \in ToUpdate(f) -> [students[u] EXCEPT !.sid = NewSid(f, u), !.mail = NewMail(f, u)]
            [] OTHER             -> students[u]]
    /\ lab' = [lab EXCEPT ![l].pi   = IF PiUser(f) = None THEN @ ELSE PiUser(f),
                          ![l].mail = IF PiMail(f) = None THEN @ ELSE PiMail(f),
                          ![l].members = @ \cup ToAdd(l, f)]
    /\ Provision(l, ToAdd(l, f))
    /\ last' = [lab |-> l, file |-> f]
    /\ UNCHANGED place
-----------------------------------------------------------------------------
ImportStudents(l, f) ==
    \E i \in AcceptedRows(f) :
       AddStudentToLab(l, [user |-> f[i].user, sid |-> f[i].sid, mail |-> f[i].mail])

Next ==
    \E l \in Labs :
       \/ \E in \in Inputs : AddStudentToLab(l, in)
       \/ \E in \in PiInputs : EnsurePiAccess(l, in)
       \/ \E u \in Users : RemoveStudentFromLab(l, u)
       \/ \E m \in Labs, in \in PiForms : CreateLab(l, m, in)
       \/ \E m \in Mails \cup {None} : UpdateLabMeta(l, m)
       \/ \E n \in Nodes : CreatePlacement(l, n) \/ PlacementGone(l, n)
       \/ \E purged \in SUBSET Placed(l) : DestroyLab(l, purged)
       \/ \E f \in Files : ApplyRosterImport(l, f)
       \/ \E f \in Files : ImportStudents(l, f)

Spec == Init /\ [][Next]_vars
-----------------------------------------------------------------------------
TypeOK ==
    /\ students \in [Users -> [sid : Sids \cup {None}, mail : Mails \cup {None}, uid : 0..LastUid]]
    /\ lab \in [Labs -> [live : BOOLEAN, pi : Users \cup {None}, mail : Mails \cup {None},
                         members : SUBSET Users]]
    /\ place \in [Labs -> [Nodes -> 0..LastPort]]
    /\ acct \in [Labs -> [Nodes -> SUBSET Users]]
    /\ cut \subseteq Labs \X Nodes \X Users

\* A lab's PI is one of its members, whoever imported, removed or destroyed what:
\* the foreign key never stands in the way of dropping the students nobody has.
PiIsMember ==
    \A l \in Labs : lab[l].pi # None => lab[l].pi \in lab[l].members

\* No two students share a UID or a student_id, no two placements of a node a
\* port, and members have records: a plan that is ok never runs into a UNIQUE
\* constraint when it is committed.
KeysUnique ==
    /\ \A u, v \in Users : u # v => /\ Known(u) => students[u].uid # students[v].uid
                                    /\ students[u].sid # None => students[u].sid # students[v].sid
    /\ \A l, m \in Labs, n \in Nodes : l # m /\ place[l][n] # 0 => place[l][n] # place[m][n]
    /\ \A l \in Labs : \A u \in lab[l].members : Known(u)

\* Importing the same file again changes nothing.
ImportIdempotent ==
    last # NoImport =>
       /\ PlanOk(last.file)
       /\ ToCreate(last.file) = {} /\ ToUpdate(last.file) = {}
       /\ ToAdd(last.lab, last.file) = {} /\ ~PiChanges(last.lab, last.file)

\* Whatever was added, imported, copied, removed or placed in which order, a
\* placement has the accounts of the lab's members and nobody else's, but for
\* those a crash cut off.
AccessMatchesRoster ==
    \A l \in Labs, n \in Nodes :
       acct[l][n] = IF place[l][n] = 0 THEN {}
                    ELSE {u \in lab[l].members : <<l, n, u>> \notin cut}

\* While a student is enrolled somewhere, UID and student_id stay what they are.
IdentityKept ==
    [][\A u \in Users :
          (\E l \in Labs : u \in lab[l].members) /\ (\E l \in Labs : u \in lab'[l].members) =>
             /\ students'[u].uid = students[u].uid
             /\ students[u].sid # None => students'[u].sid = students[u].sid]_vars
=============================================================================
