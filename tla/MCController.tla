---------------------------- MODULE MCController ----------------------------
(***************************************************************************)
(* Nine parts of the controller that share no state, checked in one run:   *)
(* part says which of them takes its steps, the others stay as they began. *)
(***************************************************************************)
EXTENDS Integers, Sequences, FiniteSets

CONSTANTS None,
          Browsers, Mails, MaxAdmins, MaxBumps,                          \* Access
          Ips, Parts, Burst, IdleTicks, MaxBuckets, MaxLimitTime,        \* RateLimit
          Jobs, Leftovers, Keys, Keep, Span,
          MaxStamp, MaxSchema, MaxCrashes,                               \* Backups
          MaxServer, Passwords, NoRow, MaxRank, MaxOps,                  \* MailServers
          Windows, LogCaps,
          MaxAlertTime, MaxLogs, MaxLogSize, MaxRaised, MaxAlertFaults,  \* Alerts
          People, Admins, Spellings, NoSend, MaxSends, MaxChanges,       \* Announcements
          Ttl, MaxEntries, MaxFlashTime, MaxPuts,                        \* FlashStore
          UidCount, MaxId, MaxRunOps                                     \* Upgrades

VARIABLES part,
          admins, cookie, req, bumps, ran,
          buckets, now, passed,
          proc, main, wal, staged, store, job, code, key, clock, crashes, sent,
          row, old, secret, mail, given, turned, dropped, took, ops,
          logs, lastLog, caps, enabled, window, anybody, state, flying, tally, disturbed,
          students, pis, smtp, send, rows, serial, changes, got, rowless,
          flashes, password, puts, made, seen, since,
          server, data, copy, done,
          table, rest, field, cells, records, inQuotes, parsed

KeepSmall == [recent |-> 1, weekly |-> 2, monthly |-> 1, yearly |-> 0]
SpanSmall == [week |-> 2, month |-> 4, year |-> 6]
CapsSmall == {[days |-> 1, entries |-> 2, bytes |-> 0], [days |-> 0, entries |-> 2, bytes |-> 3]}

\* Roster files of two columns, some rows short.
FirstCells == {<<>>, <<"x">>, <<"X">>, <<" ", "x">>, <<"\"", ",">>}
LastCells  == {<<>>, <<"x">>, <<"x", "\"", "\n">>}
CsvRows    == {<<a>> : a \in FirstCells} \cup {<<a, b>> : a \in FirstCells, b \in LastCells}
CsvTables  == {<<h, a, b>> : h \in {<<<<"u">>, <<"m">>>>, <<<<"m">>, <<"u">>>>}, a \in CsvRows, b \in CsvRows}

\* Counts of rows and of logouts (Access).
ASSUME ControllerAssumption == MaxAdmins \in Nat /\ MaxBumps \in Nat

A == INSTANCE Access
L == INSTANCE RateLimit WITH MaxTime <- MaxLimitTime
B == INSTANCE Backups
M == INSTANCE MailServers WITH key <- secret
W == INSTANCE Alerts WITH CapChoices <- LogCaps, MaxTime <- MaxAlertTime, MaxFaults <- MaxAlertFaults,
                          admins <- anybody, faults <- disturbed
N == INSTANCE Announcements
F == INSTANCE FlashStore WITH MaxTime <- MaxFlashTime, store <- flashes, secret <- password
U == INSTANCE Upgrades WITH MaxOps <- MaxRunOps, proc <- server, ops <- done
V == INSTANCE CsvImport WITH Tables <- CsvTables, row <- cells, done <- parsed

\* There are finitely many people, and none sending is no announcement (Announcements).
ASSUME PeopleAssumption ==
    /\ IsFiniteSet(People) /\ IsFiniteSet(Spellings)
    /\ LET Copy == [to : N!Addresses, via : {"any"}] IN
       NoSend \notin [id : Nat, to : SUBSET Copy, todo : SUBSET Copy, sent : Nat, skipped : BOOLEAN]

\* Counts, and lengths of time in backups (Backups).
ASSUME BackupAssumption ==
    /\ MaxStamp \in Nat /\ MaxSchema \in Nat \ {0}
    /\ Keep \in [recent : Nat, weekly : Nat, monthly : Nat, yearly : Nat]
    /\ Span \in [week : Nat \ {0}, month : Nat \ {0}, year : Nat \ {0}]

\* Counts, caps, and no entry is not an entry (Alerts).
ASSUME AlertAssumption ==
    /\ MaxAlertTime \in Nat /\ MaxLogs \in Nat /\ MaxLogSize \in Nat /\ MaxRaised \in Nat
    /\ LogCaps \subseteq [days : Nat, entries : Nat, bytes : Nat]
    /\ None \notin [last : Nat, suppressed : Nat]

\* A setting or a UID that is not there is none (Upgrades).
ASSUME UpgradeAssumption ==
    UidCount \in Nat /\ NoRow \notin Nat /\ NoRow \notin {"invalid", "custom", "typed", "plain", "footed"}

\* There is an old server at least, and no list is not a list (MailServers).
ASSUME MailAssumption ==
    /\ MaxServer \in Nat \ {0} /\ MaxRank \in Nat
    /\ LET Password == [key : Keys \cup {M!Plain}, val : Passwords \cup {M!Unset}] IN
       \A D \in SUBSET M!Servers :
          NoRow \notin [D -> [rank : Nat \ {0}, pass : Password, usable : BOOLEAN]]

\* Entries live for a while, and the store holds one (FlashStore).
ASSUME FlashAssumption == Ttl \in Nat /\ MaxEntries \in Nat \ {0}

\* A bucket that is idle for as long as it takes to be dropped is full (RateLimit).
ASSUME LimitAssumption ==
    /\ Parts \in Nat /\ Burst \in Nat \ {0} /\ IdleTicks \in Nat
    /\ MaxBuckets \in Nat /\ MaxLimitTime \in Nat
    /\ Burst * Parts <= IdleTicks + 1

accessVars == <<admins, cookie, req, bumps, ran>>
limitVars  == <<buckets, passed>>
backupVars == <<proc, main, wal, staged, store, job, code, key, clock, crashes, sent>>
mailVars   == <<row, old, secret, mail, given, turned, dropped, took, ops>>
alertVars  == <<logs, lastLog, caps, enabled, window, anybody, state, flying, tally, disturbed>>
annVars    == <<students, pis, smtp, send, rows, serial, changes, got, rowless>>
flashVars  == <<flashes, password, puts, made, seen, since>>
upVars     == <<server, data, copy, done>>
csvVars    == <<table, rest, field, cells, records, inQuotes, parsed>>
newVars    == <<flashVars, upVars, csvVars>>
vars       == <<part, now, accessVars, limitVars, backupVars, mailVars, alertVars, annVars,
                newVars>>

First(X) == CHOOSE x \in X : TRUE

\* A part that takes no step is in the first of its initial states.
Init ==
    /\ part \in {"access", "limit", "backups", "mail", "alerts", "announcements", "flash",
                "upgrades", "csv"}
    /\ A!Init /\ L!Init /\ F!Init
    /\ B!Init /\ (part # "backups" => key = First(Keys))
    /\ M!Init /\ (part # "mail" => secret = First(Keys) /\ old = NoRow)
    /\ W!Init /\ (part # "alerts" => caps = First(LogCaps) /\ window = First(Windows))
    /\ N!Init /\ (part # "announcements" => smtp)
    /\ U!Init /\ (part # "upgrades" => data = U!Empty)
    /\ IF part = "csv" THEN V!Init
       ELSE /\ table = <<>> /\ rest = <<>> /\ field = <<>> /\ cells = <<>> /\ records = <<>>
            /\ inQuotes = FALSE /\ parsed = FALSE

Next ==
    \/ /\ part = "access" /\ A!Next
       /\ UNCHANGED <<part, now, limitVars, backupVars, mailVars, alertVars, annVars, newVars>>
    \/ /\ part = "limit" /\ L!Next
       /\ UNCHANGED <<part, accessVars, backupVars, mailVars, alertVars, annVars, newVars>>
    \/ /\ part = "backups" /\ B!Next
       /\ UNCHANGED <<part, now, accessVars, limitVars, mailVars, alertVars, annVars, newVars>>
    \/ /\ part = "mail" /\ M!Next
       /\ UNCHANGED <<part, now, accessVars, limitVars, backupVars, alertVars, annVars, newVars>>
    \/ /\ part = "alerts" /\ W!Next
       /\ UNCHANGED <<part, accessVars, limitVars, backupVars, mailVars, annVars, newVars>>
    \/ /\ part = "announcements" /\ N!Next
       /\ UNCHANGED <<part, now, accessVars, limitVars, backupVars, mailVars, alertVars, newVars>>
    \/ /\ part = "flash" /\ F!Next
       /\ UNCHANGED <<part, accessVars, limitVars, backupVars, mailVars, alertVars, annVars, upVars, csvVars>>
    \/ /\ part = "upgrades" /\ U!Next
       /\ UNCHANGED <<part, now, accessVars, limitVars, backupVars, mailVars, alertVars, annVars,
                      flashVars, csvVars>>
    \/ /\ part = "csv" /\ V!Next
       /\ UNCHANGED <<part, now, accessVars, limitVars, backupVars, mailVars, alertVars, annVars,
                      flashVars, upVars>>

Spec == Init /\ [][Next]_vars
-----------------------------------------------------------------------------
\* Sessions are sound although bcrypt is awaited (Access): the variables have
\* their types; signups that overlap make one admin per address; a session works
\* until its admin is disabled or logged out; no action runs on a revoked one.
SessionsSound ==
    /\ [](part = "access" => A!TypeOK /\ A!MailsUnique /\ A!FreshSessionsWork)
    /\ A!RevokedStaysOut

\* The buckets have their types and stay within their limit, and a key passes no
\* more often than burst and refill allow (RateLimit).
Throttled == part = "limit" => L!TypeOK /\ L!Throttled

\* A backup can be relied upon (Backups): the variables have their types; pruning
\* keeps what the retention settings promise while jobs overlap; the controller
\* runs on a whole database only, wherever it died; a truncated backup is not
\* restored.
BackupsRestore ==
    part = "backups" =>
        B!TypeOK /\ B!RetentionHolds /\ B!RunsOnWholeDatabase /\ B!TruncatedNeverStaged

\* Mail servers do as they were told (MailServers): the variables have their
\* types; a server signs in with the password last typed for it; a deleted server
\* is not used again; what a mail is reported to be is what became of it.
MailServersKept ==
    part = "mail" => M!TypeOK /\ M!PasswordsKept /\ M!DeletedStaysOut /\ M!MailAccounted

\* Alerts and logs are accounted for (Alerts): the variables have their types, no
\* alert is dropped silently, and rotation keeps the newest rows the caps allow.
LogsAndAlerts ==
    /\ [](part = "alerts" => W!TypeOK /\ W!AlertsAccounted)
    /\ [][part = "alerts" => W!Rotation]_<<now, alertVars>>

\* Announcements are told truly (Announcements): the variables have their types, a
\* person gets one copy, and the history says what became of each.
AnnouncementsTrue == part = "announcements" => N!TypeOK /\ N!OneCopyEach /\ N!HistoryTrue

\* A secret is shown once, in time, and a fresh one waits for its page (FlashStore).
ShownOnce == part = "flash" => F!ShownOnce /\ F!FlashWaits

\* An upgrade that is cut off, repeated or run on an older restored database keeps
\* what people rely on (Upgrades): every admin can log in, a template that was
\* deleted stays deleted, the signature survives, students keep their UIDs.
UpgradeKeeps ==
    /\ [](part = "upgrades" => U!LoginsWork /\ U!TemplatesStayDeleted /\ U!SignatureKept)
    /\ U!UidsKept

\* A roster file is read as it was written, and the server accepts what the
\* preview showed (CsvImport).
RosterFilesRead == part = "csv" => V!ReadAsWritten /\ V!ServerAgrees
=============================================================================
