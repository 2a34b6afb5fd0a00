------------------------------ MODULE Telemetry ------------------------------
(***************************************************************************)
(* Storage numbers of one lab on one node, from the agent's caches through *)
(* the heartbeat into the controller's tables (ingest.ts), the quota mails *)
(* they cause, and what the Stats page makes of them (stats.ts).           *)
(*                                                                         *)
(* One lab-level number, refreshed by the agent every few minutes, and one *)
(* student's number, measured by scans, which run one at a time.  Numbers  *)
(* are levels against one quota.  The agent's clock is the controller's.   *)
(***************************************************************************)
EXTENDS Integers

CONSTANTS MaxLevel, Threshold,   \* quotaAlertPct, studentQuotaAlertPct
          SampleGap,             \* STORAGE_SAMPLE_MIN_INTERVAL_MS
          PiGap, StudentGap,     \* QUOTA_ALERT_DEDUP_MS, STUDENT_QUOTA_ALERT_DEDUP_MS
          ScanGrace,             \* SCAN_INGEST_GRACE_MS
          Keep,                  \* logRetentionDays
          None,
          MaxTime, MaxChanges    \* bounds

VARIABLES
    now,
    cache,     \* agent: the lab-level number, and the student's with its scan's begin
    scan,      \* agent: the scan in progress: its begin, and the task it is for
    beat,      \* agent: the heartbeat being collected
    placed, member, email,   \* controller: the placement, the membership, the student's address
    sample,    \* controller: the latest storage_samples, lab-level and the student's
    warned,    \* controller: the latest quota_alerts and student_quota_alerts
    scannedAt, \* controller: usage_scanned_at
    task,      \* controller: the latest usage.scan of the lab
    changes,
    seen       \* history: see below

agent == <<cache, scan, beat>>
world == <<placed, member, email>>
ctl   == <<sample, warned, scannedAt>>
vars  == <<now, agent, world, ctl, task, changes, seen>>

Levels == 0..MaxLevel

\* last: when the last heartbeat was ingested; on: since the placement is there; lab,
\* stu: what it said; began: when its collection began; done: when the scan in the
\* cache ended; labOver, stuOver: since when every heartbeat asked for a mail; pi, mail:
\* the last mail to the PI and to the student; gap: between the last two PI mails
Unseen == [last |-> 0, on |-> FALSE, lab |-> 0, stu |-> None, began |-> 0, done |-> 0,
           labOver |-> None, stuOver |-> None, gap |-> PiGap, pi |-> None, mail |-> None]

Init ==
    /\ now = 1
    /\ cache = [lab |-> 0, stu |-> None, at |-> None] /\ scan = None /\ beat = None
    /\ placed = TRUE /\ member = TRUE /\ email \in BOOLEAN
    /\ sample = [lab |-> None, stu |-> None] /\ warned = [pi |-> None, stu |-> None]
    /\ scannedAt = None /\ task = [state |-> "none", created |-> 0]
    /\ changes = 0 /\ seen = Unseen

Change == changes < MaxChanges /\ changes' = changes + 1
-----------------------------------------------------------------------------
(* The agent.                                                              *)

RefreshLabUsage(v) ==
    /\ v # cache.lab /\ Change
    /\ cache' = [cache EXCEPT !.lab = v]
    /\ UNCHANGED <<now, scan, beat, world, ctl, task, seen>>

\* The task's handler and the daily loop hold one lock.
ScanBegins(forTask) ==
    /\ scan = None
    /\ IF forTask THEN task.state = "queued" /\ task' = [task EXCEPT !.state = "sent"] /\ UNCHANGED changes
                  ELSE Change /\ UNCHANGED task
    /\ scan' = [began |-> now, task |-> IF forTask THEN task.created ELSE 0]
    /\ UNCHANGED <<now, cache, beat, world, ctl, seen>>

\* A scan that fails leaves the cache, and its task is reported ok all the same.
ScanEnds(v, ok) ==
    /\ scan # None
    /\ cache' = IF ok THEN [cache EXCEPT !.stu = v, !.at = scan.began] ELSE cache
    /\ seen' = IF ok THEN [seen EXCEPT !.done = now] ELSE seen
    /\ task' = IF task.created = scan.task /\ task.state = "sent" THEN [task EXCEPT !.state = "ok"] ELSE task
    /\ scan' = None
    /\ UNCHANGED <<now, beat, world, ctl, changes>>

\* collect_heartbeat reads the numbers first, and the times of the scans last.
CollectHeartbeat ==
    /\ beat = None /\ seen.last < now   \* one per interval
    /\ beat' = [lab |-> cache.lab, stu |-> cache.stu, began |-> now]
    /\ UNCHANGED <<now, cache, scan, world, ctl, task, changes, seen>>
-----------------------------------------------------------------------------
(* ingestTelemetry.                                                        *)

\* Wrong variant: a scan's numbers are held back like the lab's.
ShouldSampleThrottled(old, v, scanDerived) == old = None \/ now - old.ts >= SampleGap

\* A number that every heartbeat repeats is stored once per interval, a scan's as
\* soon as it is another.
ShouldSample(old, v, scanDerived) ==
    \/ old = None \/ now - old.ts >= SampleGap
    \/ scanDerived /\ old.val # v

\* Wrong variant: the window starts anew with every heartbeat over the threshold.
AlertDueSliding(last, gap) == last = None \/ now - last = gap

AlertDue(last, gap) == last = None \/ now - last >= gap

\* Wrong variant: the row is written before the address is looked up.
StudentAlertDueAnyway == AlertDue(warned.stu, StudentGap)

StudentAlertDue == AlertDue(warned.stu, StudentGap) /\ email

\* A PI is alerted at the threshold, a student above it; a student without an
\* address leaves no row, so that the next sample tries again.
IngestStorage ==
    LET lab == placed /\ ShouldSample(sample.lab, beat.lab, FALSE)
        stu == placed /\ member /\ beat.stu # None /\ ShouldSample(sample.stu, beat.stu, TRUE)
        pi  == lab /\ beat.lab >= Threshold /\ AlertDue(warned.pi, PiGap)
        own == stu /\ beat.stu > Threshold /\ StudentAlertDue IN
    /\ sample' = [lab |-> IF lab THEN [val |-> beat.lab, ts |-> now] ELSE sample.lab,
                  stu |-> IF stu THEN [val |-> beat.stu, ts |-> now] ELSE sample.stu]
    /\ warned' = [pi |-> IF pi THEN now ELSE warned.pi, stu |-> IF own THEN now ELSE warned.stu]
    /\ seen' = [last |-> now, on |-> placed, lab |-> beat.lab, stu |-> beat.stu, began |-> beat.began, done |-> seen.done,
                labOver |-> IF ~placed \/ beat.lab < Threshold THEN None
                            ELSE IF seen.labOver = None THEN now ELSE seen.labOver,
                stuOver |-> IF ~placed \/ ~member \/ ~email \/ beat.stu = None \/ beat.stu <= Threshold THEN None
                            ELSE IF seen.stuOver = None THEN now ELSE seen.stuOver,
                gap |-> IF pi /\ seen.pi # None THEN now - seen.pi ELSE seen.gap,
                pi |-> IF pi THEN now ELSE seen.pi,
                mail |-> IF own /\ email THEN now ELSE seen.mail]

\* The time of the last scan only moves forward.
IngestScanTime ==
    scannedAt' = IF placed /\ cache.at # None /\ (scannedAt = None \/ scannedAt < cache.at)
                 THEN cache.at ELSE scannedAt

Heartbeat ==
    /\ beat # None
    /\ IngestStorage /\ IngestScanTime
    /\ beat' = None
    /\ UNCHANGED <<now, cache, scan, world, task, changes>>

\* The connection is gone before the heartbeat is: telemetry is not kept.
HeartbeatLost ==
    /\ beat # None /\ Change /\ beat' = None
    /\ UNCHANGED <<now, cache, scan, world, ctl, task, seen>>
-----------------------------------------------------------------------------
\* usageScanAction, refreshAllAction and the nightly schedule.
UsageScan ==
    /\ placed /\ task.created < now /\ Change
    /\ task' = [state |-> "queued", created |-> now]
    /\ UNCHANGED <<now, agent, world, ctl, seen>>

\* Removing a placement takes its rows along.
PlacementChanges ==
    /\ Change /\ placed' = ~placed
    /\ sample' = [lab |-> None, stu |-> None] /\ warned' = [pi |-> None, stu |-> None]
    /\ scannedAt' = None
    /\ seen' = [seen EXCEPT !.labOver = None, !.stuOver = None, !.on = FALSE,
                           !.gap = PiGap, !.pi = None, !.mail = None]
    /\ UNCHANGED <<now, agent, member, email, task>>

MembershipChanges ==
    /\ Change /\ member' = ~member /\ seen' = [seen EXCEPT !.stuOver = None, !.stu = None]
    /\ UNCHANGED <<now, agent, placed, email, ctl, task>>

EmailChanges ==
    /\ Change /\ email' = ~email /\ seen' = [seen EXCEPT !.stuOver = None]
    /\ UNCHANGED <<now, agent, placed, member, ctl, task>>

\* pruneOldData removes quota alerts with the logs.
PruneOldData ==
    /\ warned.pi # None /\ now - warned.pi > Keep
    /\ warned' = [warned EXCEPT !.pi = None]
    /\ UNCHANGED <<now, agent, world, sample, scannedAt, task, changes, seen>>

Pass ==
    /\ now < MaxTime /\ now' = now + 1
    /\ UNCHANGED <<agent, world, ctl, task, changes, seen>>

Next ==
    \/ \E v \in Levels : RefreshLabUsage(v) \/ \E ok \in BOOLEAN : ScanEnds(v, ok)
    \/ \E f \in BOOLEAN : ScanBegins(f)
    \/ CollectHeartbeat \/ Heartbeat \/ HeartbeatLost
    \/ UsageScan \/ PlacementChanges \/ MembershipChanges \/ EmailChanges
    \/ PruneOldData \/ Pass

Spec == Init /\ [][Next]_vars
-----------------------------------------------------------------------------
\* Wrong variant: a task that is done ends the wait.
ScanPendingTask == task.state \in {"queued", "sent"}

\* isScanPending, which the page polls on.
ScanPending ==
    \/ task.state \in {"queued", "sent"}
    \/ task.state = "ok" /\ (scannedAt = None \/ scannedAt < task.created) /\ now - task.created < ScanGrace

\* latestSamples: what the page finds of a series of samples.
Cell(s) == IF s = None THEN [used |-> None, ts |-> None] ELSE [used |-> s.val, ts |-> s.ts]

\* buildStats, for the lab that is placed: the page's row of it.
BuildStats == [live |-> Cell(sample.lab).used, liveUpdatedAt |-> Cell(sample.lab).ts,
               student |-> IF member THEN Cell(sample.stu).used ELSE None,
               usageScannedAt |-> scannedAt, scanPending |-> ScanPending]

Stamp == (1..MaxTime) \cup {None}

TypeOK ==
    /\ now \in 1..MaxTime /\ cache.lab \in Levels
    /\ sample.lab = None \/ (sample.lab.val \in Levels /\ sample.lab.ts \in 1..now)
    /\ sample.stu = None \/ (sample.stu.val \in Levels /\ sample.stu.ts \in 1..now)
    /\ warned.pi \in Stamp /\ warned.stu \in Stamp /\ scannedAt \in Stamp
    /\ task.state \in {"none", "queued", "sent", "ok"}

\* After a heartbeat the page shows the student's number it carried, and a number
\* of the lab that is younger than the interval.
ShownIsReported ==
    placed /\ seen.on =>
       /\ seen.last - BuildStats.liveUpdatedAt < SampleGap
       /\ BuildStats.liveUpdatedAt = seen.last => BuildStats.live = seen.lab
       /\ member /\ seen.stu # None => BuildStats.student = seen.stu

\* A PI is not mailed about a pool twice within the window, though heartbeats,
\* samples and the pruning of old alerts go their own ways; and a lab that stays
\* over the threshold is mailed about, at the latest an interval after it should.
PiMailsPaced ==
    /\ seen.gap >= PiGap
    /\ placed /\ seen.labOver # None /\ seen.last - seen.labOver >= SampleGap =>
          seen.pi # None /\ seen.last - seen.pi < PiGap + SampleGap

\* A student who has an address and stays over the limit is warned in time, also
\* when the address was added after the first sample over it.
StudentIsWarned ==
    seen.stuOver # None /\ seen.last - seen.stuOver >= SampleGap =>
       seen.mail # None /\ seen.last - seen.mail < StudentGap + SampleGap

\* When the page stops waiting for a scan it asked for, within the time it waits at
\* most, it shows a number measured since; only a heartbeat that was being collected
\* while the scan ended may show the old one, until the next.
ScanShowsUp ==
    /\ placed /\ member /\ seen.stu # None
    /\ task.state = "ok" /\ ~BuildStats.scanPending /\ now - task.created < ScanGrace
    => \/ BuildStats.student = cache.stu /\ cache.at >= task.created
       \/ seen.began <= seen.done
=============================================================================
