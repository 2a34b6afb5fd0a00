------------------------------ MODULE Backups ------------------------------
(***************************************************************************)
(* Backups of the controller's database on a WebDAV target, their          *)
(* retention, and the restore of one: staged by an admin, swapped in when  *)
(* the controller starts, migrated to the schema of the code.              *)
(*                                                                         *)
(* Every request to the target is a wait; the process may die in any of    *)
(* them and between the steps of starting.  What the target keeps of an    *)
(* upload that failed is up to the target.                                 *)
(***************************************************************************)
EXTENDS Naturals, FiniteSets

CONSTANTS Jobs,         \* backups that may be under way at once: the ticker's and an admin's
          None,
          Keep,         \* backupKeepRecent, -Weekly, -Monthly, -Yearly
          Span,         \* stamps per week, month and year
          Leftovers,    \* what a failed PUT may leave: "nothing", "part", "empty"
          Keys,         \* values of BACKUP_KEY; None: not set
          MaxStamp, MaxSchema, MaxCrashes

VARIABLES
    proc,      \* "up", or how far the start has come: "down", "unlogged", "open"
    main,      \* the database file: how it came to be and its schema
    wal,       \* the -wal file holds commits of the database last in use
    staged,    \* the .restore file
    store,     \* the target: stamp -> blob
    job,       \* the backups in progress
    code,      \* the schema version of the code that runs
    key,       \* BACKUP_KEY of the process
    clock, crashes,
    sent       \* history: the stamps that ever came to the target

disk == <<main, wal, staged>>
env  == <<code, key, clock, crashes>>
vars == <<proc, disk, store, job, env, sent>>

NoJob == [step |-> "idle", stamp |-> 0, blob |-> None, doomed |-> {}]
Whole(schema) == [state |-> "whole", schema |-> schema]

Init ==
    /\ proc = "up" /\ main = Whole(1) /\ wal = FALSE /\ staged = None
    /\ store = [s \in {} |-> None]
    /\ job = [j \in Jobs |-> NoJob]
    /\ code = 1 /\ key \in Keys
    /\ clock = 0 /\ crashes = 0
    /\ sent = {}

Stamps == DOMAIN store
-----------------------------------------------------------------------------
(* selectKeep: the newest few, and the newest of each of the most recent   *)
(* weeks, months and years.                                                *)

\* Wrong variant: the oldest backup of a bucket stands for it.
PerBucketOldest(S, len, count) ==
    {s \in S : /\ ~\E t \in S : t < s /\ t \div len = s \div len
               /\ Cardinality({t \div len : t \in {u \in S : u \div len > s \div len}}) < count}

PerBucket(S, len, count) ==
    {s \in S : /\ ~\E t \in S : t > s /\ t \div len = s \div len
               /\ Cardinality({t \div len : t \in {u \in S : u \div len > s \div len}}) < count}

SelectKeep(S) ==
    {s \in S : Cardinality({t \in S : t > s}) < Keep.recent}
       \cup PerBucket(S, Span.week, Keep.weekly)
       \cup PerBucket(S, Span.month, Keep.monthly)
       \cup PerBucket(S, Span.year, Keep.yearly)
-----------------------------------------------------------------------------
(* backupAll and backupNow, one step per request.                          *)

\* MKCOL, its errors ignored; then the snapshot is taken and encrypted with the
\* key.  What it holds is what main is until the process ends.
BackupBegin(j) ==
    /\ proc = "up" /\ job[j] = NoJob /\ clock < MaxStamp
    /\ clock' = clock + 1
    /\ job' = [job EXCEPT ![j] = [NoJob EXCEPT !.step = "put", !.stamp = clock + 1]]
    /\ UNCHANGED <<proc, disk, store, code, key, crashes, sent>>

\* An envelope under the key of the process; without one the bytes as they are.
MaybeEncryptBackup(db) == [state |-> db.state, schema |-> db.schema, size |-> "full", key |-> key]
Snapshot == MaybeEncryptBackup(main)

\* The names on the target, none when the request fails.
List(ok) == IF ok THEN Stamps ELSE {}

\* PUT of the stamped file.  recordRun writes the database when a run has ended.
PutOk(j) ==
    /\ job[j].step = "put"
    /\ store' = [s \in Stamps \cup {job[j].stamp} |->
                    IF s = job[j].stamp THEN Snapshot ELSE store[s]]
    /\ sent' = sent \cup {job[j].stamp}
    /\ job' = [job EXCEPT ![j].step = "latest"]
    /\ UNCHANGED <<proc, disk, env>>

RunEnds(j) == job' = [job EXCEPT ![j] = NoJob] /\ wal' = TRUE

PutFails(j) ==
    /\ job[j].step = "put"
    /\ \E left \in Leftovers :
          store' = IF left = "nothing" THEN store
                   ELSE [s \in Stamps \cup {job[j].stamp} |->
                            IF s = job[j].stamp THEN [Snapshot EXCEPT !.size = left] ELSE store[s]]
    /\ sent' = sent \cup DOMAIN store'
    /\ RunEnds(j)
    /\ UNCHANGED <<proc, main, staged, env>>

\* PUT of controller-latest.db, which nothing reads back.
PutLatest(j, ok) ==
    /\ job[j].step = "latest"
    /\ IF ok THEN job' = [job EXCEPT ![j].step = "list"] /\ UNCHANGED wal ELSE RunEnds(j)
    /\ UNCHANGED <<proc, main, staged, store, env, sent>>

\* pruneBackups.
ListForPrune(j, ok) ==
    /\ job[j].step = "list"
    /\ job' = [job EXCEPT ![j].step = "prune",
                          ![j].doomed = List(ok) \ SelectKeep(List(ok))]
    /\ UNCHANGED <<proc, disk, store, env, sent>>

\* DELETE, one after the other; a refusal goes unnoticed, an error ends the run.
DeleteOne(j, done) ==
    \E s \in job[j].doomed :
       /\ job[j].step = "prune"
       /\ store' = IF done THEN [t \in Stamps \ {s} |-> store[t]] ELSE store
       /\ \/ job' = [job EXCEPT ![j].doomed = @ \ {s}] /\ UNCHANGED wal
          \/ ~done /\ RunEnds(j)
       /\ UNCHANGED <<proc, main, staged, env, sent>>

BackupEnd(j) ==
    /\ job[j].step = "prune" /\ job[j].doomed = {}
    /\ RunEnds(j)
    /\ UNCHANGED <<proc, main, staged, store, env, sent>>
-----------------------------------------------------------------------------
(* stageRestore: the name must be listed, the blob must decrypt.           *)

\* Wrong variant: a blob that does not decrypt is taken for a plain one.
DecryptsLeniently(b) == TRUE

\* isEncryptedBackup: a blob too short for the magic is not an envelope, and is
\* returned as it is.  An envelope needs its key and all of its bytes.
Enveloped(b) == b.key # None /\ b.size # "empty"
DecryptBackup(b) == Enveloped(b) => b.key = key /\ b.size = "full"

\* What the bytes are when SQLite opens them: an empty file is an empty database.
Decoded(b) ==
    CASE b.size = "empty"           -> [state |-> "blank", schema |-> 0]
      [] b.size = "full" /\ (b.key = None \/ b.key = key) -> [state |-> b.state, schema |-> b.schema]
      [] OTHER                      -> [state |-> "garbage", schema |-> b.schema]

StageRestore(s) ==
    /\ proc = "up" /\ s \in List(TRUE)
    /\ DecryptBackup(store[s])
    /\ staged' = Decoded(store[s])
    /\ UNCHANGED <<proc, main, wal, store, job, env, sent>>
-----------------------------------------------------------------------------
(* Running, stopping and starting.                                         *)

Write == proc = "up" /\ wal' = TRUE /\ UNCHANGED <<proc, main, staged, store, job, env, sent>>

Checkpoint == proc = "up" /\ wal' = FALSE /\ UNCHANGED <<proc, main, staged, store, job, env, sent>>

\* The process ends, by a restart or a crash, at any point; the next one may run
\* newer code, or have another BACKUP_KEY.
Stops ==
    /\ proc # "down" /\ crashes < MaxCrashes
    /\ proc' = "down" /\ crashes' = crashes + 1
    /\ job' = [j \in Jobs |-> NoJob]
    /\ code' \in code..MaxSchema /\ key' \in Keys
    /\ UNCHANGED <<disk, store, clock, sent>>

\* Wrong variant: the log of the old database is left where it is.
LeaveWal ==
    /\ proc = "down" /\ staged # None
    /\ proc' = "unlogged"
    /\ UNCHANGED <<disk, store, job, env, sent>>

\* applyStagedRestore removes the -wal and -shm files, then renames.
RemoveWal ==
    /\ proc = "down" /\ staged # None
    /\ proc' = "unlogged" /\ wal' = FALSE
    /\ main' = IF wal THEN [main EXCEPT !.state = "behind"] ELSE main
    /\ UNCHANGED <<staged, store, job, env, sent>>

RenameStaged ==
    /\ proc = "unlogged"
    /\ proc' = "open" /\ staged' = None
    /\ main' = IF wal THEN [staged EXCEPT !.state = "mixed"] ELSE staged
    /\ UNCHANGED <<wal, store, job, env, sent>>

\* Without one the database is opened, and its log with it.
OpenPlain ==
    /\ proc = "down" /\ staged = None
    /\ proc' = "open"
    /\ UNCHANGED <<disk, store, job, env, sent>>

\* migrate: each migration and its row in _migrations are one transaction.
\* Garbage does not open, and an unknown newer schema is left alone.
Migrate ==
    /\ proc = "open" /\ main.state # "garbage" /\ main.schema < code
    /\ main' = [main EXCEPT !.schema = @ + 1]
    /\ UNCHANGED <<proc, wal, staged, store, job, env, sent>>

Started ==
    /\ proc = "open" /\ main.state # "garbage" /\ main.schema >= code
    /\ proc' = "up"
    /\ UNCHANGED <<disk, store, job, env, sent>>

Next ==
    \/ \E j \in Jobs :
          \/ BackupBegin(j) \/ PutOk(j) \/ PutFails(j) \/ BackupEnd(j)
          \/ \E ok \in BOOLEAN : PutLatest(j, ok) \/ ListForPrune(j, ok) \/ DeleteOne(j, ok)
    \/ \E s \in Stamps : StageRestore(s)
    \/ Write \/ Checkpoint \/ Stops \/ RemoveWal \/ RenameStaged \/ OpenPlain
    \/ Migrate \/ Started

Spec == Init /\ [][Next]_vars
-----------------------------------------------------------------------------
TypeOK ==
    /\ proc \in {"up", "down", "unlogged", "open"}
    /\ main \in [state : {"whole", "behind", "mixed", "blank", "garbage"}, schema : 0..MaxSchema]
    /\ proc = "unlogged" => staged # None
    /\ Stamps \subseteq 1..MaxStamp /\ code \in 1..MaxSchema

\* The newest backup of the bucket that has exactly n newer ones, if there is one.
NewestOf(S, len, n) ==
    {s \in S : /\ s = CHOOSE t \in S : t \div len = s \div len /\ \A u \in S : u \div len = s \div len => u <= t
               /\ n = Cardinality({u \div len : u \in S} \cap ((s \div len + 1)..MaxStamp))}

\* Whatever runs and prunes overlap, fail or are cut short, the newest of all
\* backups that ever came to the target are there, and the newest of the last
\* weeks, months and years that have one: pruning a little at a time deletes
\* nothing that pruning once would keep.
RetentionHolds ==
    /\ \A n \in 1..Keep.recent   : NewestOf(sent, 1, n - 1) \subseteq Stamps
    /\ \A n \in 1..Keep.weekly   : NewestOf(sent, Span.week, n - 1) \subseteq Stamps
    /\ \A n \in 1..Keep.monthly  : NewestOf(sent, Span.month, n - 1) \subseteq Stamps
    /\ \A n \in 1..Keep.yearly   : NewestOf(sent, Span.year, n - 1) \subseteq Stamps

\* The controller never runs on a database that lost its last commits, is not a
\* database, or has an older schema, wherever a restore or a start was cut short.
RunsOnWholeDatabase ==
    proc = "up" => main.state = "whole" /\ main.schema >= code

\* A truncated backup fails to restore: it is never staged.
TruncatedNeverStaged == staged # None => staged.state = "whole"
=============================================================================
