------------------------------ MODULE MCFleet ------------------------------
(***************************************************************************)
(* Four parts of the system that concern labs and their nodes, checked in  *)
(* one run: the roster, cold storage, storage numbers and the idle-GPU     *)
(* governor.  They share no state, so they are not interleaved: part says  *)
(* which of them takes its steps, and the others stay as they began.       *)
(***************************************************************************)
EXTENDS Integers, Sequences, TLC

CONSTANTS None, u1, u2, i1, i2, m1,
          Labs, LastUid, LastPort,                       \* Roster
          Nodes, MaxOps, Patient,                        \* ColdStorage
          MaxLevel, Threshold, SampleGap, PiGap, StudentGap, ScanGrace, Keep,
          MaxTelemetryTime, MaxChanges,                  \* Telemetry
          Pids, IdleFor, Grace, Window, MaxGpuTime, MaxBirths, MaxSaves, MaxFaults   \* GpuPolicy

\* What the proofs take of the constants: bounds that are numbers, and a value for
\* none that is no node, no number, no process and no entry of the killer's.
ASSUME RosterAssumption == LastUid \in Nat /\ LastPort \in Nat
ASSUME ColdAssumption == MaxOps \in Nat /\ None \notin Nodes
ASSUME TelemetryAssumption ==
    /\ MaxTelemetryTime \in Nat \ {0} /\ {MaxLevel, Threshold, ScanGrace} \subseteq Nat
    /\ {SampleGap, PiGap, StudentGap} \subseteq Nat \ {0}
    /\ Keep \in Nat /\ PiGap <= Keep   \* six hours, and at least a day
    /\ None \notin [val : Nat, ts : Nat] /\ None \notin [began : Nat, task : Nat]
    /\ None \notin [lab : Nat, stu : Nat \cup {None}, began : Nat]
ASSUME GpuAssumption ==
    /\ MaxGpuTime \in Nat \ {0} /\ MaxBirths \in Nat /\ IdleFor \in Nat /\ Grace \in Nat
    /\ None \notin Nat
    /\ None \notin [id : Nat, idle : BOOLEAN, managed : BOOLEAN]
    /\ None \notin [since : Nat, warned : Nat \cup {None}]

VARIABLES part, now,
          students, lab, place, acct, cut, last,
          node, coldPlace, enrolled, members, queue, log, up, cold, ops, owed,
          cache, scan, beat, placed, member, email, sample, warned, scannedAt, task, changes, shown,
          proc, births, setting, tasks, policy, state, loop, outbox, mailed, reach, kills, saves, faults, seen

Stu(u, sid, mail) == [role |-> "student", user |-> u, sid |-> sid, mail |-> mail]
Pi(u, sid, mail)  == [role |-> "pi", user |-> u, sid |-> sid, mail |-> mail]

\* Files that take the import through each of its phases.
RosterFiles == {
    <<Stu(u1, None, None), Stu(u2, i1, None)>>,
    <<Stu(u2, None, m1), Pi(u2, i2, m1), Stu(u1, None, None)>>,  \* merged rows
    <<Stu(u1, i1, None), Stu(u2, i1, None)>>,                    \* a shared id
    <<Stu(u1, i1, None), Stu(u1, i2, None)>>,                    \* two ids
    <<Pi(u1, None, m1), Pi(u2, None, m1)>>,                      \* two PIs
    <<Pi(u2, i1, None)>>,                                        \* a PI without e-mail
    <<Stu(None, i1, m1), Stu(u1, None, None)>> }                 \* no user name

RosterUsers == {u1, u2}
RosterSids  == {i1, i2}
RosterMails == {m1}
RosterNodes == {CHOOSE n \in Nodes : TRUE}
LabSymmetry == Permutations(Labs)

R == INSTANCE Roster WITH Users <- RosterUsers, Sids <- RosterSids, Mails <- RosterMails,
                          Nodes <- RosterNodes, Files <- RosterFiles, MayDie <- TRUE
C == INSTANCE ColdStorage WITH place <- coldPlace, rows <- members, MayFail <- TRUE
T == INSTANCE Telemetry WITH seen <- shown, MaxTime <- MaxTelemetryTime
G == INSTANCE GpuPolicy WITH rows <- kills, MaxTime <- MaxGpuTime, MayReuse <- FALSE

rosterVars == <<students, lab, place, acct, cut, last>>
coldVars   == <<node, coldPlace, enrolled, members, queue, log, up, cold, ops, owed>>
telVars    == <<cache, scan, beat, placed, member, email, sample, warned, scannedAt, task, changes, shown>>
gpuVars    == <<proc, births, setting, tasks, policy, state, loop, outbox, mailed, reach, kills, saves,
                faults, seen>>
vars       == <<part, now, rosterVars, coldVars, telVars, gpuVars>>

Init ==
    /\ part \in {"roster", "cold", "telemetry", "gpu"}
    /\ R!Init /\ C!Init /\ T!Init /\ G!Init
    /\ part # "telemetry" => email

Next ==
    \/ part = "roster" /\ R!Next /\ UNCHANGED <<part, now, coldVars, telVars, gpuVars>>
    \/ part = "cold" /\ C!Next /\ UNCHANGED <<part, now, rosterVars, telVars, gpuVars>>
    \/ part = "telemetry" /\ T!Next /\ UNCHANGED <<part, rosterVars, coldVars, gpuVars>>
    \/ part = "gpu" /\ G!Next /\ UNCHANGED <<part, rosterVars, coldVars, telVars>>

Spec == Init /\ [][Next]_vars
-----------------------------------------------------------------------------
\* The roster stays sound through imports, re-adds and crashes (Roster): its
\* variables have their types; a lab's PI is one of its members; no two students
\* share a UID or a university id and no two labs a port; a file imported twice
\* changes nothing the second time; accounts are where the roster says, but for
\* the ones a crash cut off.
RosterSound ==
    part = "roster" =>
        R!TypeOK /\ R!PiIsMember /\ R!KeysUnique /\ R!ImportIdempotent /\ R!AccessMatchesRoster

\* A student keeps the university id and the UID once given (Roster).
IdentityKept == R!IdentityKept

\* Shared cold storage is safe (ColdStorage): its variables have their types; the
\* owner of a client's storage has storage of its own; an owner's placement is not
\* torn down under a client's; cold data is deleted after the last account is
\* removed, and a removal with data leaves none behind.
ColdDataSafe ==
    part = "cold" =>
        C!TypeOK /\ C!OwnersAreLocal /\ C!OwnerOutlivesClients /\ C!CleanupIsLast /\ C!ColdIsCleaned

\* Storage numbers reach people (Telemetry): the variables have their types; the
\* page shows what the last heartbeat said, and the numbers of a scan once it
\* stops waiting for it; PIs are mailed in time and not too often; a student over
\* the limit is warned in time.
StorageReported ==
    part = "telemetry" =>
        T!TypeOK /\ T!ShownIsReported /\ T!ScanShowsUp /\ T!PiMailsPaced /\ T!StudentIsWarned

\* The idle-GPU governor is fair (GpuPolicy): its variables have their types; a
\* process is killed only after a warning and a grace period, and the one killed is
\* the one looked at; students hear of warnings and kills, but not twice in a
\* window; every kill is recorded; the policy in force is the one in the settings.
GpuGoverned ==
    part = "gpu" =>
        /\ G!TypeOK /\ G!WarnedBeforeKilled /\ G!KillsWhatItSaw
        /\ G!StudentTold /\ G!KillsRecorded /\ G!PolicyInForce
=============================================================================
