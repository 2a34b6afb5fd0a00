------------------------------ MODULE Upgrades ------------------------------
(***************************************************************************)
(* The database of the controller across upgrades (db.ts): a database an   *)
(* earlier release left behind, or a restored backup of one, is brought to *)
(* the present release at boot, one migration per transaction, and the     *)
(* process may die at any point of it.                                     *)
(*                                                                         *)
(* Of the 26 migrations the ones that look at or change data are modelled  *)
(* by what they do; the others only add tables or columns.                 *)
(***************************************************************************)
EXTENDS Naturals, Sequences, FiniteSets, Functions, FiniteSetsExt

CONSTANTS NoRow,
          UidCount,    \* how many UIDs there are (50,000 in the code)
          MaxId,       \* students ever added
          MaxOps       \* operations while the controller runs

VARIABLES
    proc,     \* "down", "migrating" or "running"
    data,     \* the committed database
    copy,     \* a backup of it
    ops       \* operations so far

vars == <<proc, data, copy, ops>>

MIGRATIONS ==
    <<"0001_init", "0002_scrub", "0003_admin_session_state", "0004_node_tokens", "0005_oldfile_schedule",
      "0006_node_alias_announcements", "0007_usage_scan_time", "0008_drop_oldfiles",
      "0009_redesign_placements", "0010_node_cold_storage", "0011_node_hmac_tokens",
      "0012_task_durability", "0013_gpu_placement", "0014_normalize_emails",
      "0015_deferred_student_credentials", "0016_node_groups", "0017_announcement_templates",
      "0018_universal_email_signature", "0019_plain_text_email_signature", "0020_student_linux_uid",
      "0021_gpu_event_forensics", "0022_system_intro_template", "0023_placement_student_quotas",
      "0024_pi_access_and_completion", "0025_gpu_snapshot_process_details",
      "0026_student_quota_alerts">>

Latest == Len(MIGRATIONS)
Number(id) == CHOOSE k \in 1..Latest : MIGRATIONS[k] = id

\* Whether release number k (the first k migrations) is past migration id.
Past(k, id) == k >= Number(id)

Uids      == 1..UidCount
LoginNames == {"ann", "Ann", "bob"}
Normal(m) == IF m = "Ann" THEN "ann" ELSE m
Seeded    == {[sort |-> 0, name |-> "Scheduled maintenance"], [sort |-> 1, name |-> "Storage cleanup request"]}
Intro     == "System introduction"
BuiltIn   == {t.name : t \in Seeded} \cup {Intro}

\* A database, with two things remembered about its admins: the built-in
\* templates they deleted and the signature they chose last.
Empty ==
    [applied   |-> 0,          \* _migrations: a prefix of the list
     legacy    |-> FALSE,      \* rows of node-pinned labs, nodes or students
     admins    |-> {},         \* admins.email
     templates |-> {},         \* announcement_templates
     body      |-> NoRow,      \* settings: a saved e-mail body
     html      |-> NoRow,      \* settings: emailSignatureHtml
     text      |-> NoRow,      \* settings: emailSignatureText
     uid       |-> <<>>,       \* students: id to linux_uid, NoRow before it exists
     nextId    |-> 1,          \* students: AUTOINCREMENT
     deleted   |-> {},
     chosen    |-> NoRow]

Students(d) == DOMAIN d.uid

\* What earlier releases may have left.
LeftBy(k) ==
    {d \in [applied   : {k},
            legacy    : IF Past(k, "0009_redesign_placements") THEN {FALSE} ELSE BOOLEAN,
            admins    : IF Past(k, "0014_normalize_emails") THEN {{}, {"ann", "bob"}}
                        ELSE {{}, {"Ann", "bob"}, {"ann", "Ann"}},
            templates : IF Past(k, "0017_announcement_templates")
                        THEN {Seeded, {t \in Seeded : t.sort = 1}, Seeded \cup {[sort |-> 2, name |-> "own"]}}
                        ELSE {{}},
            body      : {NoRow, "invalid", "plain"} \cup
                        IF Past(k, "0018_universal_email_signature") THEN {} ELSE {"footed"},
            html      : IF Past(k, "0018_universal_email_signature") THEN {NoRow, "invalid", "custom"}
                        ELSE {NoRow},
            text      : {NoRow},
            uid       : {[i \in 1..n |-> NoRow] : n \in IF Past(k, "0009_redesign_placements")
                                                        THEN {0, 2, UidCount + 1} ELSE {0}},
            nextId    : 1..UidCount + 2,
            deleted   : SUBSET BuiltIn,
            chosen    : {NoRow, "custom"}] :
        /\ d.nextId = Cardinality(Students(d)) + 1
        /\ d.deleted = {t.name : t \in IF d.templates = {} THEN {} ELSE Seeded \ d.templates}
        /\ d.chosen = (IF d.html = "custom" THEN "custom" ELSE NoRow)}

\* A new deployment, or a database of the release before the redesign, before
\* the e-mail addresses were normalised, or before the UIDs.
Releases == {8, 13, 18}

Init ==
    /\ proc = "down" /\ ops = 0
    /\ data \in {Empty} \cup UNION {LeftBy(k) : k \in Releases}
    /\ copy = data
-----------------------------------------------------------------------------
(* The migrations that look at data: when they do not throw, and what they *)
(* leave.                                                                  *)

LogicalLabs(d) == ~d.legacy

\* Wrong variant: a row whose new address is taken is left as it is.
NormalizeWherePossible(d) ==
    [ok |-> TRUE, db |-> [d EXCEPT !.admins =
        {IF Normal(m) \in d.admins THEN m ELSE Normal(m) : m \in d.admins}]]

\* Addresses that differ in case only are a UNIQUE violation.
NormalizeEmails(d) ==
    [ok |-> Cardinality({Normal(m) : m \in d.admins}) = Cardinality(d.admins),
     db |-> [d EXCEPT !.admins = {Normal(m) : m \in @}]]

SeedTemplates(d) == [d EXCEPT !.templates = @ \cup Seeded]

\* COALESCE(MAX(sort), -1) + 1.
NextSort(d) == IF d.templates = {} THEN 0 ELSE Max({t.sort : t \in d.templates}) + 1

AddTemplate(d, name) == d.templates \cup {[sort |-> NextSort(d), name |-> name]}

\* A body that is not a JSON string is left alone.
StripSignature(d) == [d EXCEPT !.body = IF @ = "footed" THEN "plain" ELSE @]

\* Wrong variant: the text is written from the default, and the row deleted.
SignatureDropped(d) == [d EXCEPT !.html = NoRow]

PlainTextSignature(d) ==
    [d EXCEPT !.text = IF d.html = "custom" /\ @ = NoRow THEN "custom" ELSE @,
              !.html = NoRow]

\* Wrong variant: the size of the range is not looked at.
StudentUidsUnchecked(d) ==
    [ok |-> TRUE,
     db |-> [d EXCEPT !.uid =
        [i \in Students(d) |-> Cardinality({j \in Students(d) : j <= i})]]]

StudentUids(d) ==
    [ok |-> Cardinality(Students(d)) <= UidCount,
     db |-> [d EXCEPT !.uid =
        [i \in Students(d) |-> Cardinality({j \in Students(d) : j <= i})]]]

IntroTemplate(d) == [d EXCEPT !.templates = AddTemplate(d, Intro)]

Plain(d) == [ok |-> TRUE, db |-> d]

\* One migration inside its transaction.
Run(id, d) ==
    CASE id = "0009_redesign_placements"    -> [ok |-> LogicalLabs(d), db |-> d]
      [] id = "0014_normalize_emails"           -> NormalizeEmails(d)
      [] id = "0017_announcement_templates"     -> Plain(SeedTemplates(d))
      [] id = "0018_universal_email_signature"  -> Plain(StripSignature(d))
      [] id = "0019_plain_text_email_signature" -> Plain(PlainTextSignature(d))
      [] id = "0020_student_linux_uid"          -> StudentUids(d)
      [] id = "0022_system_intro_template"      -> Plain(IntroTemplate(d))
      [] OTHER                                  -> Plain(d)
-----------------------------------------------------------------------------
Boot ==
    /\ proc = "down" /\ proc' = "migrating"
    /\ UNCHANGED <<data, copy, ops>>

Pending(d) == d.applied < Latest

\* Wrong variant: the row in _migrations is a transaction of its own, and the
\* process may die before it.
MigrateTwice ==
    /\ proc = "migrating" /\ Pending(data)
    /\ LET r == Run(MIGRATIONS[data.applied + 1], data) IN
       IF r.ok
       THEN \/ data' = [r.db EXCEPT !.applied = @ + 1] /\ UNCHANGED proc
            \/ data' = r.db /\ proc' = "down"
       ELSE proc' = "down" /\ UNCHANGED data
    /\ UNCHANGED <<copy, ops>>

\* migrate: the next migration commits with its row in _migrations, or throws,
\* and the server does not come up.
Migrate ==
    /\ proc = "migrating" /\ Pending(data)
    /\ LET r == Run(MIGRATIONS[data.applied + 1], data) IN
       IF r.ok
       THEN data' = [r.db EXCEPT !.applied = @ + 1] /\ UNCHANGED proc
       ELSE proc' = "down" /\ UNCHANGED data
    /\ UNCHANGED <<copy, ops>>

Serve ==
    /\ proc = "migrating" /\ ~Pending(data)
    /\ proc' = "running"
    /\ UNCHANGED <<data, copy, ops>>

\* A transaction that had not committed is rolled back.
Crash ==
    /\ proc # "down" /\ proc' = "down"
    /\ UNCHANGED <<data, copy, ops>>

\* What the errors ask the operator for: the old rows exported and deleted, one
\* of two accounts with the same address deleted.
Repair ==
    /\ proc = "down"
    /\ \/ data.legacy /\ data' = [data EXCEPT !.legacy = FALSE]
       \/ ~NormalizeEmails(data).ok /\ data' = [data EXCEPT !.admins = @ \ {"Ann"}]
    /\ UNCHANGED <<proc, copy, ops>>

\* A staged backup takes the place of the database before it is opened.
Restore ==
    /\ proc = "down" /\ data # copy
    /\ data' = copy
    /\ UNCHANGED <<proc, copy, ops>>
-----------------------------------------------------------------------------
(* The running controller.                                                 *)

Op(d) == /\ proc = "running" /\ ops < MaxOps /\ ops' = ops + 1
         /\ data' = d
         /\ UNCHANGED <<proc, copy>>

RunBackup ==
    /\ proc = "running" /\ copy # data
    /\ copy' = data
    /\ UNCHANGED <<proc, data, ops>>

Signup(m) == Normal(m) \notin data.admins /\ Op([data EXCEPT !.admins = @ \cup {Normal(m)}])

\* The lowest UID that no student has.
AddStudent ==
    LET free == Uids \ Range(data.uid)
        id   == data.nextId IN
    /\ id <= MaxId /\ free # {}
    /\ Op([data EXCEPT !.nextId = id + 1,
                       !.uid = [i \in Students(data) \cup {id} |->
                                   IF i = id THEN Min(free) ELSE data.uid[i]]])

DeleteStudent(i) ==
    /\ i \in Students(data)
    /\ Op([data EXCEPT !.uid = [j \in Students(data) \ {i} |-> data.uid[j]]])

\* After all the others.
CreateTemplate ==
    /\ \A t \in data.templates : t.name # "own"
    /\ Op([data EXCEPT !.templates = AddTemplate(data, "own")])

DeleteTemplate(t) ==
    Op([data EXCEPT !.templates = @ \ {t}, !.deleted = @ \cup (BuiltIn \cap {t.name})])

SaveSignature == Op([data EXCEPT !.text = "typed", !.chosen = "typed"])

Next ==
    \/ Boot \/ Migrate \/ Serve \/ Crash \/ Repair \/ Restore \/ RunBackup
    \/ \E m \in LoginNames : Signup(m)
    \/ AddStudent \/ \E i \in 1..MaxId : DeleteStudent(i)
    \/ CreateTemplate \/ \E t \in data.templates : DeleteTemplate(t)
    \/ SaveSignature

Spec == Init /\ [][Next]_vars
-----------------------------------------------------------------------------
\* A controller that serves has one normalised address per admin, so that each
\* can log in, whatever spellings earlier releases stored.
LoginsWork == proc = "running" => \A m \in data.admins : Normal(m) = m

\* Every student of a controller that serves has a UID of its own, and no UID
\* changes once given, however often the upgrade is interrupted and begun again.
\* Only a restore brings another database.
UidsKept ==
    [][/\ proc' = "running" =>
             /\ \A i \in Students(data') : data'.uid[i] \in Uids
             /\ \A i, j \in Students(data') : data'.uid[i] = data'.uid[j] => i = j
       /\ data' # copy =>
             \A i \in Students(data) \cap Students(data') :
                data.uid[i] # NoRow => data'.uid[i] = data.uid[i]]_vars

\* A built-in template is there once, no two are in one place, and one that an
\* admin deleted does not come back with the next boot or upgrade.
TemplatesStayDeleted ==
    /\ \A t \in data.templates : t.name \notin data.deleted
    /\ \A t, u \in data.templates : t # u => t.sort # u.sort /\ (t.name = u.name => t.name \notin BuiltIn)

\* The signature an admin chose survives the change of format, also when the
\* upgrade is interrupted between the two migrations that touch it, and no saved
\* body carries a signature of its own.
SignatureKept ==
    proc = "running" => data.html = NoRow /\ data.text = data.chosen /\ data.body # "footed"
=============================================================================
