------------------------------ MODULE GpuPolicy ------------------------------
(***************************************************************************)
(* The idle-GPU governor of one node: the policy on its way from the       *)
(* settings to the agent, the killer's state per PID (gpu/killer.py), the  *)
(* loop that looks, decides and kills (client.py _gpu_loop), and what the  *)
(* hub makes of the events (hub.ts handleEvent, emailGpuEvent).            *)
(*                                                                         *)
(* All processes belong to one student.  A process holds VRAM all its life *)
(* and is idle or busy when looked at; its identity is its start time.     *)
(* One unit of time is one interval of the loop.                           *)
(***************************************************************************)
EXTENDS Integers, Sequences, FiniteSets

CONSTANTS Pids, None,
          IdleFor, Grace,        \* idle_minutes, grace_minutes
          Window,                \* GPU_MAIL_WINDOW_MS
          MayReuse,              \* a PID the killer tracks is given to another process between two looks
          MaxTime, MaxBirths, MaxSaves, MaxFaults   \* bounds

VARIABLES
    now,
    proc,     \* the node's processes: the start time, whether idle, whether in a lab's container
    births,
    setting,  \* controller: the policy in the settings
    tasks,    \* controller to agent: gpu.policy.update, in order
    policy,   \* agent: the policy in force, in memory
    state,    \* agent: GpuKiller._state
    loop,     \* agent: waiting, a listing to evaluate, or decisions to carry out
    outbox,   \* agent: events to send, kept on disk
    mailed,   \* controller: gpuMailState
    reach,    \* controller: the student is in a lab of this node and has an address
    rows,     \* controller: gpu_events of kills
    saves, faults,
    seen      \* history: see Unseen

host  == <<proc, births>>
agent == <<policy, state, loop>>
hub   == <<mailed, reach, rows>>
vars  == <<now, host, setting, tasks, agent, outbox, hub, saves, faults, seen>>

Off   == [enabled |-> FALSE, immediate |-> FALSE, exempt |-> FALSE]
Policies == {Off, [Off EXCEPT !.enabled = TRUE], [Off EXCEPT !.enabled = TRUE, !.immediate = TRUE],
             [Off EXCEPT !.enabled = TRUE, !.exempt = TRUE]}
States == {"warned", "killed"}
Waiting == [at |-> "waiting", last |-> 0]

\* idle: since when every look found the process idle; warn: when it was warned;
\* unfair: a kill nobody announced; wrong: a kill of a process that was not looked
\* at, or is not a lab's; mail: when the student was last mailed; untold: an event the
\* student should have heard of; early: a mail within the window; kills: whose rows
\* are not deleted; forgot: the agent restarted since it was given a policy
Unseen == [idle |-> [i \in 1..MaxBirths |-> None], warn |-> [i \in 1..MaxBirths |-> None],
           unfair |-> FALSE, wrong |-> FALSE, mail |-> [s \in States |-> None],
           untold |-> FALSE, early |-> FALSE, kills |-> 0, forgot |-> FALSE]

Init ==
    /\ now = 1 /\ proc = [p \in Pids |-> None] /\ births = 0
    /\ setting = Off /\ tasks = <<>> /\ policy = Off
    /\ state = [p \in Pids |-> None] /\ loop = Waiting /\ outbox = <<>>
    /\ mailed = [s \in States |-> None] /\ reach = TRUE /\ rows = 0
    /\ saves = 0 /\ faults = 0 /\ seen = Unseen
-----------------------------------------------------------------------------
(* Processes.                                                              *)

Start(p, managed) ==
    /\ proc[p] = None /\ births < MaxBirths
    /\ MayReuse \/ (state[p] = None /\ ~(loop.at = "listed" /\ p \in DOMAIN loop.procs))
    /\ births' = births + 1
    /\ proc' = [proc EXCEPT ![p] = [id |-> births + 1, idle |-> TRUE, managed |-> managed]]
    /\ UNCHANGED <<now, setting, tasks, agent, outbox, hub, saves, faults, seen>>

Exit(p) ==
    /\ proc[p] # None /\ proc' = [proc EXCEPT ![p] = None]
    /\ UNCHANGED <<now, births, setting, tasks, agent, outbox, hub, saves, faults, seen>>

Work(p) ==
    /\ proc[p] # None /\ proc' = [proc EXCEPT ![p].idle = ~@]
    /\ UNCHANGED <<now, births, setting, tasks, agent, outbox, hub, saves, faults, seen>>
-----------------------------------------------------------------------------
(* The policy.                                                             *)

\* Wrong variant: what is pushed is the policy before the change.
BroadcastOld(new) == Append(tasks, setting)

BroadcastGpuPolicy(new) == Append(tasks, new)

SaveGpuPolicy(new) ==
    /\ saves < MaxSaves /\ saves' = saves + 1
    /\ setting' = new /\ tasks' = BroadcastGpuPolicy(new)
    /\ UNCHANGED <<now, host, agent, outbox, hub, faults, seen>>

UpdatePolicy ==
    /\ tasks # <<>> /\ policy' = Head(tasks) /\ tasks' = Tail(tasks)
    /\ seen' = [seen EXCEPT !.forgot = FALSE]
    /\ UNCHANGED <<now, host, setting, state, loop, outbox, hub, saves, faults>>

\* The policy and the killer's state are in memory only.
AgentRestarts ==
    /\ faults < MaxFaults /\ faults' = faults + 1
    /\ policy' = Off /\ state' = [p \in Pids |-> None] /\ loop' = Waiting
    /\ seen' = [seen EXCEPT !.forgot = TRUE]
    /\ UNCHANGED <<now, host, setting, tasks, outbox, hub, saves>>
-----------------------------------------------------------------------------
(* _gpu_loop.                                                              *)

Listed == {p \in Pids : proc[p] # None}

\* A disabled policy is not evaluated: the state stays as it is.
ListGpuProcesses ==
    /\ loop.at = "waiting" /\ loop.last < now /\ policy.enabled
    /\ loop' = [at |-> "listed", policy |-> policy, procs |-> [p \in Listed |-> proc[p]]]
    /\ UNCHANGED <<now, host, setting, tasks, policy, state, outbox, hub, saves, faults, seen>>

\* Wrong variant: a process that works keeps its timer.
TrackedThroughWork(q, pol) == q.managed /\ ~pol.exempt

Tracked(q, pol) == q.managed /\ ~pol.exempt /\ q.idle

\* What evaluate does with a listed process: its new state, and the decision.
Verdict(p, q, pol) ==
    LET st   == IF state[p] = None THEN [since |-> now, warned |-> None] ELSE state[p]
        none == [st |-> st, act |-> "none"] IN
    CASE ~Tracked(q, pol) -> [st |-> None, act |-> "none"]
      [] Tracked(q, pol) /\ pol.immediate -> [st |-> None, act |-> "kill"]
      [] Tracked(q, pol) /\ ~pol.immediate /\ st.warned = None ->
            IF now - st.since >= IdleFor THEN [st |-> [st EXCEPT !.warned = now], act |-> "warn"] ELSE none
      [] OTHER -> IF now - st.warned >= Grace THEN [st |-> None, act |-> "kill"] ELSE none

\* One decision is carried out at a time; a PID that is gone is forgotten.
Evaluate ==
    /\ loop.at = "listed"
    /\ LET q == loop.procs
           v == [p \in DOMAIN q |-> Verdict(p, q[p], loop.policy)]
           ids == {q[p].id : p \in DOMAIN q}
           look(i) == CHOOSE p \in DOMAIN q : q[p].id = i
           idle == [i \in 1..MaxBirths |-> IF i \notin ids \/ ~q[look(i)].idle THEN None
                                           ELSE IF seen.idle[i] = None THEN now ELSE seen.idle[i]] IN
       /\ state' = [p \in Pids |-> IF p \in DOMAIN q THEN v[p].st ELSE None]
       /\ loop' = [at |-> "acting", time |-> now, now |-> loop.policy.immediate,
                   todo |-> {[pid |-> p, act |-> v[p].act, q |-> q[p]] :
                                p \in {r \in DOMAIN q : v[r].act # "none"}}]
       /\ seen' = [seen EXCEPT !.idle = idle,
                               !.warn = [i \in 1..MaxBirths |-> IF idle[i] = None THEN None ELSE seen.warn[i]]]
    /\ UNCHANGED <<now, host, setting, tasks, policy, outbox, hub, saves, faults>>

\* Wrong variant: the PID is signalled whoever has it now.
KillPidBlind(d) == proc[d.pid] # None

KillPid(d) == proc[d.pid] # None /\ proc[d.pid].id = d.q.id

\* Announced: by a warning a grace period ago that came after an idle period, idle all along.
Announced(i) ==
    /\ seen.idle[i] # None /\ seen.warn[i] # None
    /\ seen.warn[i] - seen.idle[i] >= IdleFor /\ loop.time - seen.warn[i] >= Grace

Act(d) ==
    /\ loop.at = "acting" /\ d \in loop.todo
    /\ loop' = [loop EXCEPT !.todo = @ \ {d}]
    /\ \/ /\ d.act = "warn" /\ outbox' = Append(outbox, "warned")
          /\ seen' = [seen EXCEPT !.warn[d.q.id] = loop.time]
          /\ UNCHANGED proc
       \/ /\ d.act = "kill" /\ KillPid(d)
          /\ proc' = [proc EXCEPT ![d.pid] = None]
          /\ outbox' = Append(outbox, "killed")
          /\ seen' = [seen EXCEPT !.unfair = @ \/ ~(loop.now \/ Announced(proc[d.pid].id)),
                                  !.wrong = @ \/ proc[d.pid].id # d.q.id \/ ~proc[d.pid].managed,
                                  !.kills = @ + 1]
       \/ /\ d.act = "kill" /\ ~KillPid(d)
          /\ UNCHANGED <<proc, outbox, seen>>
    /\ UNCHANGED <<now, births, setting, tasks, policy, state, hub, saves, faults>>

Sleep ==
    /\ loop.at = "acting" /\ loop.todo = {}
    /\ loop' = [Waiting EXCEPT !.last = now]
    /\ UNCHANGED <<now, host, setting, tasks, policy, state, outbox, hub, saves, faults, seen>>
-----------------------------------------------------------------------------
(* The hub.                                                                *)

\* Wrong variant: one throttle for warnings and kills.
ThrottledTogether(s) == \E t \in States : mailed[t] # None /\ now - mailed[t] < Window

Throttled(s) == mailed[s] # None /\ now - mailed[s] < Window

\* Wrong variant: only an event the student is mailed about is recorded.
RecordIfMailed(s) == rows + (IF s = "killed" /\ reach /\ ~Throttled(s) THEN 1 ELSE 0)

Record(s) == rows + (IF s = "killed" THEN 1 ELSE 0)

Recently(s) == seen.mail[s] # None /\ now - seen.mail[s] < Window

\* handleEvent and emailGpuEvent.  The agent sends an event again when it did not
\* get to acknowledge it.
HandleEvent(again) ==
    /\ outbox # <<>>
    /\ IF again THEN faults < MaxFaults /\ faults' = faults + 1 /\ UNCHANGED outbox
                ELSE outbox' = Tail(outbox) /\ UNCHANGED faults
    /\ LET s    == Head(outbox)
           send == reach /\ ~Throttled(s) IN
       /\ rows' = Record(s)
       /\ mailed' = IF send THEN [mailed EXCEPT ![s] = now] ELSE mailed
       /\ seen' = [seen EXCEPT !.mail[s] = IF send THEN now ELSE @,
                               !.early = @ \/ (send /\ Recently(s)),
                               !.untold = @ \/ (reach /\ ~send /\ ~Recently(s))]
    /\ UNCHANGED <<now, host, setting, tasks, agent, reach, saves>>

\* The throttle is in memory: a restart may mail again.
ControllerRestarts ==
    /\ faults < MaxFaults /\ faults' = faults + 1
    /\ mailed' = [s \in States |-> None] /\ seen' = [seen EXCEPT !.mail = mailed']
    /\ UNCHANGED <<now, host, setting, tasks, agent, outbox, reach, rows, saves>>

ClearGpuEvents ==
    /\ rows > 0 /\ rows' = 0
    /\ seen' = [seen EXCEPT !.kills = IF @ > rows THEN @ - rows ELSE 0]
    /\ UNCHANGED <<now, host, setting, tasks, agent, outbox, mailed, reach, saves, faults>>

DeleteGpuEvent ==
    /\ rows > 0 /\ rows' = rows - 1 /\ seen' = [seen EXCEPT !.kills = IF @ > 0 THEN @ - 1 ELSE 0]
    /\ UNCHANGED <<now, host, setting, tasks, agent, outbox, mailed, reach, saves, faults>>

\* Leaving the lab, or losing the address.
ReachEnds ==
    /\ reach /\ faults < MaxFaults /\ faults' = faults + 1 /\ reach' = FALSE
    /\ UNCHANGED <<now, host, setting, tasks, agent, outbox, mailed, rows, saves, seen>>

Pass ==
    /\ now < MaxTime /\ now' = now + 1
    /\ UNCHANGED <<host, setting, tasks, agent, outbox, hub, saves, faults, seen>>

Next ==
    \/ \E p \in Pids : Exit(p) \/ Work(p) \/ \E m \in BOOLEAN : Start(p, m)
    \/ \E new \in Policies \ {setting} : SaveGpuPolicy(new)
    \/ UpdatePolicy \/ AgentRestarts
    \/ ListGpuProcesses \/ Evaluate \/ Sleep
    \/ loop.at = "acting" /\ \E d \in loop.todo : Act(d)
    \/ \E again \in BOOLEAN : HandleEvent(again)
    \/ ControllerRestarts \/ ClearGpuEvents \/ DeleteGpuEvent \/ ReachEnds
    \/ Pass

Spec == Init /\ [][Next]_vars
-----------------------------------------------------------------------------
TypeOK ==
    /\ now \in 1..MaxTime /\ births \in 0..MaxBirths
    /\ \A p \in Pids : /\ proc[p] = None \/ proc[p].id \in 1..births
                       /\ state[p] = None \/ (state[p].since \in 1..now /\ state[p].warned \in (1..now) \cup {None})
    /\ {setting, policy} \subseteq Policies /\ tasks \in Seq(Policies)
    /\ loop.at \in {"waiting", "listed", "acting"} /\ outbox \in Seq(States)
    /\ rows \in Nat /\ reach \in BOOLEAN

\* Unless the policy says immediate, a process is killed only after it was itself
\* found idle for the idle period, then warned, and then found idle at every look of
\* a grace period.
WarnedBeforeKilled == ~seen.unfair

\* The process that is killed is the one that was looked at, and a lab's, though it
\* may exit and its PID go to another while the decision is being carried out.
KillsWhatItSaw == ~seen.wrong

\* A student who can be reached is mailed about every kind of event, but not twice
\* within the window, whatever is sent again and in whatever order it arrives.
StudentTold == ~seen.untold /\ ~seen.early

KillsToTell(q) == Cardinality({i \in DOMAIN q : q[i] = "killed"})

\* Every kill is on the GPU page or on its way there until an admin deletes it, also
\* when no mail is due and when the agent restarts.
KillsRecorded == seen.kills <= rows + KillsToTell(outbox)

\* An agent with no policy waiting for it has the one in the settings, unless it
\* restarted since: the policy is then off until the settings are saved again.
PolicyInForce == tasks = <<>> /\ ~seen.forgot => policy = setting
=============================================================================
