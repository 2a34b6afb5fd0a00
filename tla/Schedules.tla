------------------------------ MODULE Schedules ------------------------------
(***************************************************************************)
(* The hourly ticker of the controller (maintenance.ts) and what it starts *)
(* when: backups on a grid that is anchored at a time of day, scrubs and   *)
(* usage scans in one hour of the day.  The ticker begins anew with every  *)
(* start of the process, an hour after it.                                 *)
(*                                                                         *)
(* Time is the wall clock of the configured time zones, in units of which  *)
(* Hour make an hour; daylight saving is left out, and a tick is on time.  *)
(***************************************************************************)
EXTENDS Integers, FiniteSets

CONSTANTS Hour, DayHours,
          Intervals,       \* values of backupIntervalHours
          AnchorHour,      \* backupAnchorHour
          NightHour,       \* scrubHour, usageScanHour
          ScrubDays,       \* scrubIntervalDays
          GapHours,        \* USAGE_SCAN_MIN_GAP_MS
          MaxDays,         \* bound: how long the clock runs
          MayOverlap,      \* a backup may begin while another is in progress
          MaxFaults        \* restarts, buttons pressed, settings saved, times the node goes offline

VARIABLES
    now, nextTick,
    interval,    \* backupIntervalHours
    lastRun,     \* backupLastRun
    running,     \* the stamps of the backups in progress
    online, lastScrub, lastScan,
    faults,
    auto,        \* history: the last two backups the ticker started that ran to an end,
                 \* none of them under another interval
    scans,       \* history: when scans were started
    scrubs,      \* history: when scrubs were started by the ticker
    quiet        \* history: since when there was no restart, no change of the interval, and
                 \* the node was online

backup == <<interval, lastRun, running, auto>>
night  == <<lastScrub, lastScan, scans, scrubs>>
vars   == <<now, nextTick, backup, online, night, faults, quiet>>

Day   == DayHours * Hour
Never == 0     \* long before the clock begins

Init ==
    /\ now = 2 * ScrubDays * Day /\ nextTick = now + Hour
    /\ interval \in Intervals
    /\ lastRun = Never /\ running = {} /\ auto = <<Never, Never>>
    /\ online = TRUE /\ lastScrub = Never /\ lastScan = Never
    /\ scans = {} /\ scrubs = {}
    /\ faults = 0 /\ quiet = now
-----------------------------------------------------------------------------
\* backupGrid: the anchor of the day it is.
Anchor(t) == (t \div Day) * Day + AnchorHour * Hour

\* Wrong variant: the slot of the last run counts again.
SlotFrom(ref, t) ==
    LET step == interval * Hour IN Anchor(t) + ((ref - Anchor(t)) \div step) * step

\* Wrong variant: the slot after the next.
SlotSkips(ref, t) ==
    LET step == interval * Hour IN Anchor(t) + ((ref - Anchor(t)) \div step + 2) * step

\* slotAfter: the first slot after ref on today's grid.
SlotAfter(ref, t) ==
    LET step == interval * Hour IN Anchor(t) + ((ref - Anchor(t)) \div step + 1) * step

BackupDue(t) == t >= SlotAfter(lastRun, t)

HourOf(t) == (t % Day) \div Hour

\* Wrong variant: the gap is as long as a day.
ScanDueDaily(t) == HourOf(t) = NightHour /\ online /\ t - lastScan > Day

ScanDue(t) == HourOf(t) = NightHour /\ online /\ t - lastScan >= GapHours * Hour

ScrubDue(t) == HourOf(t) = NightHour /\ online /\ t - lastScrub >= ScrubDays * Day

\* startMaintenance's tick: scrubs, scans, then a backup, which is not awaited.
Tick ==
    /\ now = nextTick /\ (running = {} \/ MayOverlap)
    /\ nextTick' = now + Hour
    /\ IF ScrubDue(now) THEN lastScrub' = now /\ scrubs' = scrubs \cup {now}
                        ELSE UNCHANGED <<lastScrub, scrubs>>
    /\ IF ScanDue(now)  THEN lastScan' = now /\ scans' = scans \cup {now}
                        ELSE UNCHANGED <<lastScan, scans>>
    /\ IF BackupDue(now) THEN running' = running \cup {now} /\ auto' = <<auto[2], now>>
                         ELSE UNCHANGED <<running, auto>>
    /\ UNCHANGED <<now, interval, lastRun, online, faults, quiet>>

\* backupAll, once backupNow has ended, well or not.
RecordRun(s) ==
    /\ s \in running
    /\ running' = running \ {s}
    /\ lastRun' = s
    /\ UNCHANGED <<now, nextTick, interval, auto, online, night, faults, quiet>>

\* The admins' buttons.
BackupNow ==
    /\ faults < MaxFaults /\ now \notin running /\ (running = {} \/ MayOverlap)
    /\ running' = running \cup {now} /\ faults' = faults + 1
    /\ UNCHANGED <<now, nextTick, interval, lastRun, auto, online, night, quiet>>

ScrubNow ==
    /\ online /\ faults < MaxFaults
    /\ lastScrub' = now /\ faults' = faults + 1
    /\ UNCHANGED <<now, nextTick, backup, online, lastScan, scans, scrubs, quiet>>

\* saveScheduleAction, of which the interval is modelled.
SaveSchedule(i) ==
    /\ i # interval /\ faults < MaxFaults
    /\ interval' = i /\ faults' = faults + 1
    /\ auto' = <<Never, Never>> /\ quiet' = now
    /\ UNCHANGED <<now, nextTick, lastRun, running, online, night>>

\* A restart loses the backups in progress with their records.
Restart ==
    /\ faults < MaxFaults /\ faults' = faults + 1
    /\ nextTick' = now + Hour /\ running' = {} /\ quiet' = now
    /\ auto' = IF auto[2] \in running THEN <<Never, Never>> ELSE auto
    /\ UNCHANGED <<now, interval, lastRun, online, night>>

NodeFlips ==
    /\ online => faults < MaxFaults
    /\ faults' = IF online THEN faults + 1 ELSE faults
    /\ online' = ~online /\ quiet' = now
    /\ UNCHANGED <<now, nextTick, backup, night>>

\* A backup takes less than an hour: its requests time out.
Pass ==
    /\ now < nextTick /\ now < (2 * ScrubDays + MaxDays) * Day
    /\ \A s \in running : now + 1 - s < Hour
    /\ now' = now + 1
    /\ UNCHANGED <<nextTick, backup, online, night, faults, quiet>>

Next ==
    \/ Tick \/ \E s \in running : RecordRun(s)
    \/ BackupNow \/ ScrubNow \/ \E i \in Intervals : SaveSchedule(i)
    \/ Restart \/ NodeFlips \/ Pass

Spec == Init /\ [][Next]_vars
-----------------------------------------------------------------------------
TypeOK ==
    /\ now \in Nat /\ now <= nextTick /\ nextTick <= now + Hour
    /\ interval \in Intervals
    /\ lastRun \in 0..now /\ running \subseteq 0..now /\ Cardinality(running) <= 2
    /\ lastScrub \in 0..now /\ lastScan \in 0..now

\* After a tick the last backup is less than an interval old, whatever ticks were
\* missed before it and whoever started or lost a backup in between.
BackupNotLate ==
    (now + Hour = nextTick /\ quiet # now) =>
       (running # {} \/ now - lastRun < interval * Hour)

\* The last slot of t's day that is not after t.
LatestSlot(t) ==
    LET step == interval * Hour IN Anchor(t) + ((t - Anchor(t)) \div step) * step

\* The ticker starts one backup per slot: between two of them lies a slot of the
\* later one's day, also when the earlier one failed.
OneBackupPerSlot == auto[1] # Never => auto[1] < LatestSlot(auto[2])

\* A night during which the process ran and the node was online has its scan, and
\* only one; a night never has two, and scheduled scrubs are an interval apart,
\* and from a scrub an admin started.
NightlyWork ==
    LET Starts == {d * Day + NightHour * Hour : d \in 0..(now \div Day)}
        In(S, s) == {t \in S : t >= s /\ t < s + Hour} IN
    /\ \A s \in Starts : Cardinality(In(scans, s)) <= 1
    /\ \A s \in Starts : online /\ quiet < s /\ s + Hour <= now => In(scans, s) # {}
    /\ \A s, t \in scrubs : s < t => t - s >= ScrubDays * Day
=============================================================================
