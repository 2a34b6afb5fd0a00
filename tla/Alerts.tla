-------------------------------- MODULE Alerts --------------------------------
(***************************************************************************)
(* The log table with its rotation (maintenance.ts) and the alerts that    *)
(* are mailed to the admins, at most one per key and window (alerts.ts).   *)
(*                                                                         *)
(* One key is followed.  Its occurrences are log lines at or above the     *)
(* alert level, failed tasks and nodes gone offline, which all come to     *)
(* alertAdmins.  A log line has its id, which is its place in the order of *)
(* arrival, its time, which is the node's and may lag, and its size.       *)
(***************************************************************************)
EXTENDS Integers, FiniteSets

CONSTANTS Windows,     \* values of alertDedupMinutes
          CapChoices,  \* values of the three log caps, as records; 0 is no cap
          None,
                MaxTime, MaxLogs, MaxLogSize, MaxRaised, MaxFaults   \* bounds

VARIABLES
    now,
    logs,      \* rows of logs: id, ts and size
    lastLog,   \* AUTOINCREMENT of logs
    caps,      \* logRetentionDays, logMaxEntries, logMaxSizeMb
    enabled, window,
    admins,    \* whether anybody registered
    state,     \* the key's entry of the module's map: lastSent and suppressed, or None
    flying,    \* the alert mails being sent: the occurrence that sent it, and how many it reports
    tally,     \* history: occurrences raised, told to somebody, and lost
    faults

settings == <<caps, enabled, window, admins>>
alerts   == <<state, flying, tally>>
table    == <<logs, lastLog>>
vars     == <<now, table, settings, alerts, faults>>

Init ==
    /\ now = 0 /\ logs = {} /\ lastLog = 0
    /\ caps \in CapChoices /\ enabled = TRUE /\ window \in Windows /\ admins = FALSE
    /\ state = None /\ flying = {}
    /\ tally = [raised |-> 0, told |-> 0, lost |-> 0]
    /\ faults = 0
-----------------------------------------------------------------------------
\* Wrong variant: what falls into the window is dropped.
AlertAdminsForgets ==
    IF ~enabled THEN UNCHANGED alerts
    ELSE IF state # None /\ now - state.last < window
    THEN /\ tally' = [tally EXCEPT !.raised = @ + 1]
         /\ UNCHANGED <<state, flying>>
    ELSE LET n == 1 + (IF state = None THEN 0 ELSE state.suppressed) IN
         /\ state' = [last |-> now, suppressed |-> 0]
         /\ flying' = IF admins THEN flying \cup {[no |-> tally.raised + 1, n |-> n]} ELSE flying
         /\ tally' = [tally EXCEPT !.raised = @ + 1, !.lost = IF admins THEN @ ELSE @ + n]

\* alertAdmins: within the window the occurrence is counted; else the entry starts
\* anew before the mail, which reports the count, is on its way.
AlertAdmins ==
    IF ~enabled THEN UNCHANGED alerts
    ELSE IF state # None /\ now - state.last < window
    THEN /\ state' = [state EXCEPT !.suppressed = @ + 1]
         /\ tally' = [tally EXCEPT !.raised = @ + 1]
         /\ UNCHANGED flying
    ELSE LET n == 1 + (IF state = None THEN 0 ELSE state.suppressed) IN
         /\ state' = [last |-> now, suppressed |-> 0]
         /\ flying' = IF admins THEN flying \cup {[no |-> tally.raised + 1, n |-> n]} ELSE flying
         /\ tally' = [tally EXCEPT !.raised = @ + 1, !.lost = IF admins THEN @ ELSE @ + n]

\* handleLog: the row, then maybeAlertOnLog.
HandleLog(lag, size, loud) ==
    /\ lastLog < MaxLogs /\ lag <= now /\ (loud => tally.raised < MaxRaised)
    /\ lastLog' = lastLog + 1
    /\ logs' = logs \cup {[id |-> lastLog + 1, ts |-> now - lag, size |-> size]}
    /\ IF loud THEN AlertAdmins ELSE UNCHANGED alerts
    /\ UNCHANGED <<now, settings, faults>>

\* alertNodeOffline, alertTaskFailed and ingestScrub.
AlertRaised ==
    /\ tally.raised < MaxRaised
    /\ AlertAdmins
    /\ UNCHANGED <<now, table, settings, faults>>

MailEnds(m, sent) ==
    /\ m \in flying
    /\ flying' = flying \ {m}
    /\ tally' = IF sent THEN [tally EXCEPT !.told = @ + m.n] ELSE [tally EXCEPT !.lost = @ + m.n]
    /\ UNCHANGED <<now, table, settings, state, faults>>
-----------------------------------------------------------------------------
Bytes(rows) == {p \in rows \X (1..MaxLogSize) : p[2] <= p[1].size}
Size(rows)  == Cardinality(Bytes(rows))

Since(rows, r) == {q \in rows : q.id >= r.id}

\* Wrong variant: the cap counts from the row before.
CapEntriesShort(rows, c) ==
    IF c.entries > 0 THEN {r \in rows : Cardinality(Since(rows, r)) < c.entries} ELSE rows

\* Each cap keeps the newest rows: by time, by their number, by their size.
CapAge(rows, c)     == IF c.days > 0 THEN {r \in rows : r.ts + c.days >= now} ELSE rows
CapEntries(rows, c) == IF c.entries > 0 THEN {r \in rows : Cardinality(Since(rows, r)) <= c.entries} ELSE rows
CapSize(rows, c)    == IF c.bytes > 0 THEN {r \in rows : Size(Since(rows, r)) <= c.bytes} ELSE rows

\* pruneLogs: one cap after the other.
PruneLogs(c) == CapSize(CapEntries(CapAge(logs, c), c), c)

\* The hourly tick.
PruneOldData ==
    /\ logs # {}
    /\ logs' = PruneLogs(caps)
    /\ UNCHANGED <<now, lastLog, settings, alerts, faults>>

\* saveAlertSettingsAction ends with a prune of its own.
SaveAlertSettings(on, w, c) ==
    /\ faults < MaxFaults /\ faults' = faults + 1
    /\ enabled' = on /\ window' = w /\ caps' = c
    /\ logs' = PruneLogs(c)
    /\ UNCHANGED <<now, lastLog, admins, alerts>>

ClearLogs ==
    /\ logs # {}
    /\ logs' = {}
    /\ UNCHANGED <<now, lastLog, settings, alerts, faults>>

\* The first admin signs up.
AdminRegisters ==
    /\ ~admins /\ admins' = TRUE
    /\ UNCHANGED <<now, table, caps, enabled, window, alerts, faults>>

\* The occurrences that wait for the window to pass, and those that mails report.
Waiting  == IF state = None THEN 0 ELSE state.suppressed
Reported(mails) == Cardinality({p \in mails \X (1..MaxRaised) : p[2] <= p[1].n})

\* A restart forgets the map and the mails.
Restart ==
    /\ faults < MaxFaults /\ faults' = faults + 1
    /\ state' = None /\ flying' = {}
    /\ tally' = [tally EXCEPT !.lost = @ + Waiting + Reported(flying)]
    /\ UNCHANGED <<now, table, settings>>

Pass ==
    /\ now < MaxTime /\ now' = now + 1
    /\ UNCHANGED <<table, settings, alerts, faults>>

Next ==
    \/ \E lag \in 0..1, size \in 1..MaxLogSize, loud \in BOOLEAN : HandleLog(lag, size, loud)
    \/ AlertRaised \/ \E m \in flying, ok \in BOOLEAN : MailEnds(m, ok)
    \/ PruneOldData \/ ClearLogs
    \/ \E on \in BOOLEAN, w \in Windows, c \in CapChoices : SaveAlertSettings(on, w, c)
    \/ AdminRegisters \/ Restart \/ Pass

Spec == Init /\ [][Next]_vars
-----------------------------------------------------------------------------
TypeOK ==
    /\ now \in 0..MaxTime /\ window \in Windows /\ caps \in CapChoices
    /\ lastLog \in 0..MaxLogs
    /\ logs \subseteq [id : 1..lastLog, ts : 0..now, size : 1..MaxLogSize]
    /\ \A r, q \in logs : r.id = q.id => r = q
    /\ state = None \/ (state.last \in 0..now /\ state.suppressed \in 0..MaxRaised)
    /\ flying \subseteq [no : 1..tally.raised, n : 1..MaxRaised]
    /\ \A m, k \in flying : m.no = k.no => m = k

\* No occurrence is dropped silently: whatever windows, settings and mails overlap,
\* each one that was raised was told to an admin, waits in the count or in a mail,
\* or went with a mail that failed, with nobody to mail, or with a restart.
AlertsAccounted ==
    tally.raised = tally.told + tally.lost + Waiting + Reported(flying)

Within(rows, c) ==
    (c.entries > 0 => Cardinality(rows) <= c.entries) /\ (c.bytes > 0 => Size(rows) <= c.bytes)

Rotates == PruneOldData \/ \E on \in BOOLEAN, w \in Windows : SaveAlertSettings(on, w, caps')

Rotation ==
    /\ Rotates =>
          LET young == {r \in logs : caps'.days > 0 => r.ts + caps'.days >= now} IN
          /\ Within(logs', caps') /\ logs' \subseteq young
          /\ \A r \in young \ logs' : /\ \A q \in logs' : r.id < q.id
                                      /\ ~Within(Since(young, r), caps')
    /\ Rotates \/ ClearLogs \/ logs \subseteq logs'

\* Rotation is newest-wins and removes no more than it must: the rows left are
\* the newest of those young enough, within both caps, and one more of them would
\* break a cap; nothing but a rotation and the button that clears removes rows.
RotationExact == [][Rotation]_vars
=============================================================================
