----------------------------- MODULE FleetProofs -----------------------------
(***************************************************************************)
(* Proofs about the other parts of MCFleet, for every value of their       *)
(* constants: the idle-GPU governor, the roster, and storage numbers.      *)
(***************************************************************************)
EXTENDS ColdStorageProofs, FiniteSetTheorems, SequenceTheorems

-----------------------------------------------------------------------------
(***************************************************************************)
(* The idle-GPU governor.  What the history says of a process is followed  *)
(* from the look at it to the signal: the killer's state for a PID is      *)
(* about the process that has the PID, or had it last.                     *)
(***************************************************************************)
Times     == 1..MaxGpuTime
Procs     == [id : 1..MaxBirths, idle : BOOLEAN, managed : BOOLEAN]
Tracks    == [since : Times, warned : Times \cup {None}]
Rules     == [enabled : BOOLEAN, immediate : BOOLEAN, exempt : BOOLEAN]
Decisions == [pid : Pids, act : {"warn", "kill"}, q : Procs]
Carrying  == [at : {"acting"}, time : Times, now : BOOLEAN, todo : SUBSET Decisions]
Seen      == [idle : [1..MaxBirths -> Times \cup {None}], warn : [1..MaxBirths -> Times \cup {None}],
              unfair : BOOLEAN, wrong : BOOLEAN, mail : [{"warned", "killed"} -> Times \cup {None}],
              untold : BOOLEAN, early : BOOLEAN, kills : Nat, forgot : BOOLEAN]

\* The processes, and what the killer knows of them.
HostTyped ==
    /\ now \in Times /\ births \in 0..MaxBirths
    /\ proc \in [Pids -> Procs \cup {None}]
    /\ \A p \in Pids : proc[p] # None => proc[p].id <= births
    /\ state \in [Pids -> Tracks \cup {None}]
    /\ \A p \in Pids : state[p] # None =>
          state[p].since <= now /\ (state[p].warned # None => state[p].warned <= now)
    /\ seen.idle \in [1..MaxBirths -> Times \cup {None}]
    /\ \A i \in 1..MaxBirths : seen.idle[i] # None => seen.idle[i] <= now

\* The loop: what it has listed, or decided.
LoopTyped ==
    /\ loop.at \in {"waiting", "listed", "acting"}
    /\ loop.at = "listed" =>
          /\ loop.policy \in Rules /\ DOMAIN loop.procs \subseteq Pids
          /\ \A p \in DOMAIN loop.procs : loop.procs[p] \in Procs /\ loop.procs[p].id <= births
    /\ loop.at = "acting" =>
          loop \in Carrying /\ loop.time <= now /\ \A d \in loop.todo : d.q.id <= births

\* The controller's side, and the history.
HubTyped ==
    /\ setting \in G!Policies /\ policy \in G!Policies /\ tasks \in Seq(G!Policies)
    /\ outbox \in Seq({"warned", "killed"})
    /\ mailed \in [{"warned", "killed"} -> Times \cup {None}] /\ reach \in BOOLEAN /\ kills \in Nat
    /\ seen \in Seen

\* What the killer notes of process i under a PID: since when it is idle, and when it
\* was warned, or is about to be.
Noted(p, i) ==
    /\ seen.idle[i] # None /\ seen.idle[i] <= state[p].since
    /\ state[p].warned # None =>
          /\ state[p].warned - state[p].since >= IdleFor
          /\ \/ seen.warn[i] = state[p].warned
             \/ /\ loop.at = "acting" /\ loop.time = state[p].warned
                /\ \E d \in loop.todo : d.act = "warn" /\ d.q.id = i

\* Two processes have two identities, and the killer's state is about the process that
\* has the PID.
Identified ==
    /\ \A p, r \in Pids : proc[p] # None /\ proc[r] # None /\ proc[p].id = proc[r].id => p = r
    /\ \A p \in Pids : state[p] # None /\ proc[p] # None => Noted(p, proc[p].id)

\* A listing is of the processes that are still there, or are gone.
ListingTrue ==
    loop.at = "listed" => \A p \in DOMAIN loop.procs :
       /\ \A r \in Pids : proc[r] # None /\ proc[r].id = loop.procs[p].id =>
             r = p /\ proc[r].managed = loop.procs[p].managed
       /\ proc[p] # None => proc[p].id = loop.procs[p].id
       /\ \A r \in DOMAIN loop.procs : loop.procs[r].id = loop.procs[p].id => r = p
       /\ state[p] # None => Noted(p, loop.procs[p].id)

\* A decision to kill is announced, or needs no announcement; a process is warned when
\* the killer says so.
DecisionsFair ==
    loop.at = "acting" => \A d \in loop.todo :
       /\ \A r \in Pids : proc[r] # None /\ proc[r].id = d.q.id =>
             /\ proc[r].managed
             /\ d.act = "warn" /\ state[r] # None => state[r].warned = loop.time
       /\ d.act = "kill" /\ ~loop.now => G!Announced(d.q.id)
       /\ \A e \in loop.todo : e.q.id = d.q.id => e = d

\* The mail the student had is the mail the throttle remembers.
MailsKnown == seen.mail = mailed

\* The last policy on its way is the one in the settings.
LastPolicy ==
    IF tasks = <<>> THEN seen.forgot \/ policy = setting ELSE tasks[Len(tasks)] = setting

GpuInv ==
    /\ HostTyped /\ LoopTyped /\ HubTyped
    /\ Identified /\ ListingTrue /\ DecisionsFair /\ ~seen.unfair /\ ~seen.wrong
    /\ MailsKnown /\ ~seen.untold /\ ~seen.early /\ G!KillsRecorded /\ LastPolicy

\* The values that stand for none are none of these.
LEMMA NoneOther ==
    /\ MaxGpuTime \in Nat /\ MaxBirths \in Nat /\ IdleFor \in Nat /\ Grace \in Nat /\ 1 \in Times
    /\ Times \subseteq Nat /\ None \notin Nat /\ None \notin Times /\ None \notin Procs /\ None \notin Tracks
<1> USE GpuAssumption
<1>1. Times \subseteq Nat /\ 1..MaxBirths \subseteq Nat /\ 1 \in Times
  BY DEF Times
<1>2. Procs \subseteq [id : Nat, idle : BOOLEAN, managed : BOOLEAN]
  BY <1>1 DEF Procs
<1>3. Tracks \subseteq [since : Nat, warned : Nat \cup {None}]
  BY <1>1 DEF Tracks
<1> QED  BY <1>1, <1>2, <1>3

\* The policies are records of three flags.
LEMMA PoliciesAre == G!Policies \subseteq Rules /\ G!Off \in G!Policies
<1>1. G!Off \in Rules
  BY DEF G!Off, Rules
<1>2. \A r \in Rules : /\ [r EXCEPT !.enabled = TRUE] \in Rules
                       /\ [r EXCEPT !.enabled = TRUE, !.immediate = TRUE] \in Rules
                       /\ [r EXCEPT !.enabled = TRUE, !.exempt = TRUE] \in Rules
  BY DEF Rules
<1>3. \A x \in G!Policies : \/ x = G!Off
                            \/ x = [G!Off EXCEPT !.enabled = TRUE]
                            \/ x = [G!Off EXCEPT !.enabled = TRUE, !.immediate = TRUE]
                            \/ x = [G!Off EXCEPT !.enabled = TRUE, !.exempt = TRUE]
  BY DEF G!Policies
<1>4. G!Off \in G!Policies
  BY DEF G!Policies
<1> QED  BY <1>1, <1>2, <1>3, <1>4

\* What evaluate makes of a listed process.
LEMMA VerdictIs ==
    ASSUME HostTyped, NEW p \in Pids, NEW q \in Procs, NEW pol \in Rules
    PROVE  LET v == G!Verdict(p, q, pol) IN
           /\ v.act \in {"none", "warn", "kill"}
           /\ v.st # None =>
                 /\ v.st \in Tracks /\ v.st.since <= now /\ q.idle /\ q.managed
                 /\ v.st.since = IF state[p] = None THEN now ELSE state[p].since
                 /\ v.st.warned # None =>
                       \/ v.act = "warn" /\ v.st.warned = now /\ now - v.st.since >= IdleFor
                       \/ state[p] # None /\ state[p].warned # None /\ v.st.warned = state[p].warned
           /\ v.act # "none" => q.managed
           /\ v.act = "warn" /\ v.st # None => v.st.warned = now
           /\ v.act = "kill" /\ ~pol.immediate =>
                 /\ q.idle /\ state[p] # None /\ state[p].warned # None
                 /\ now - state[p].warned >= Grace
<1> DEFINE st == IF state[p] = None THEN [since |-> now, warned |-> None] ELSE state[p]
           v  == G!Verdict(p, q, pol)
<1>1. now \in Times /\ Times \subseteq Nat /\ None \notin Times /\ None \notin Tracks
  BY NoneOther DEF HostTyped
<1>2. state[p] # None => /\ state[p] \in Tracks /\ state[p].since <= now
                         /\ state[p].warned # None => state[p].warned <= now
  BY DEF HostTyped
<1>3. /\ st \in Tracks /\ st.since <= now /\ st.since = IF state[p] = None THEN now ELSE state[p].since
      /\ st.warned # None => state[p] # None /\ state[p].warned # None /\ st.warned = state[p].warned
      /\ st # None /\ st.warned \in Times \cup {None} /\ st.since \in Times
  BY <1>1, <1>2 DEF Tracks
<1>4. v = CASE ~G!Tracked(q, pol) -> [st |-> None, act |-> "none"]
            [] G!Tracked(q, pol) /\ pol.immediate -> [st |-> None, act |-> "kill"]
            [] G!Tracked(q, pol) /\ ~pol.immediate /\ st.warned = None ->
                  IF now - st.since >= IdleFor THEN [st |-> [st EXCEPT !.warned = now], act |-> "warn"]
                                               ELSE [st |-> st, act |-> "none"]
            [] OTHER -> IF now - st.warned >= Grace THEN [st |-> None, act |-> "kill"]
                                                    ELSE [st |-> st, act |-> "none"]
  BY DEF G!Verdict
<1>5. [st EXCEPT !.warned = now] \in Tracks /\ [st EXCEPT !.warned = now].since = st.since
      /\ [st EXCEPT !.warned = now].warned = now
  BY <1>1, <1>3 DEF Tracks
<1>6. G!Tracked(q, pol) => q.idle /\ q.managed
  BY DEF G!Tracked
<1> HIDE DEF v, st
<1>7. CASE ~G!Tracked(q, pol)
  <2>1. v = [st |-> None, act |-> "none"]
    BY <1>4, <1>7
  <2> QED  BY <2>1 DEF v
<1>8. CASE G!Tracked(q, pol) /\ pol.immediate
  <2>1. v = [st |-> None, act |-> "kill"]
    BY <1>4, <1>8
  <2> QED  BY <1>6, <1>8, <2>1 DEF v
<1>9. CASE G!Tracked(q, pol) /\ ~pol.immediate /\ st.warned = None
  <2>1. v = IF now - st.since >= IdleFor THEN [st |-> [st EXCEPT !.warned = now], act |-> "warn"]
                                               ELSE [st |-> st, act |-> "none"]
    BY <1>4, <1>9
  <2>2. CASE now - st.since >= IdleFor
    <3>1. v.st = [st EXCEPT !.warned = now] /\ v.act = "warn"
      BY <2>1, <2>2
    <3> QED  BY <1>3, <1>5, <1>6, <1>9, <2>2, <3>1 DEF v
  <2>3. CASE ~(now - st.since >= IdleFor)
    <3>1. v.st = st /\ v.act = "none"
      BY <2>1, <2>3
    <3> QED  BY <1>3, <1>6, <1>9, <3>1 DEF v
  <2> QED  BY <2>2, <2>3
<1>10. CASE G!Tracked(q, pol) /\ ~pol.immediate /\ st.warned # None
  <2>1. v = IF now - st.warned >= Grace THEN [st |-> None, act |-> "kill"] ELSE [st |-> st, act |-> "none"]
    BY <1>4, <1>10
  <2>2. CASE now - st.warned >= Grace
    <3>1. v.st = None /\ v.act = "kill"
      BY <2>1, <2>2
    <3> QED  BY <1>3, <1>6, <1>10, <2>2, <3>1 DEF v
  <2>3. CASE ~(now - st.warned >= Grace)
    <3>1. v.st = st /\ v.act = "none"
      BY <2>1, <2>3
    <3> QED  BY <1>3, <1>6, <1>10, <3>1 DEF v
  <2> QED  BY <2>2, <2>3
<1> QED  BY <1>7, <1>8, <1>9, <1>10

\* A process that is listed once is the one its identity looks up.
LEMMA LooksUp ==
    ASSUME NEW q, NEW p \in DOMAIN q, \A r \in DOMAIN q : q[r].id = q[p].id => r = p
    PROVE  (CHOOSE r \in DOMAIN q : q[r].id = q[p].id) = p
  OBVIOUS

HostFair == HostTyped /\ LoopTyped /\ Identified /\ ListingTrue /\ DecisionsFair

\* What the controller does, and time, leaves the agent's view as it is.
LEMMA HostSame ==
    ASSUME HostFair, UNCHANGED <<births, proc, state, loop>>, now' \in {now, now + 1}, now' \in Times,
           seen'.idle = seen.idle, seen'.warn = seen.warn
    PROVE  HostFair'
<1>1. now \in Nat /\ now <= now' /\ \A x \in Nat : x <= now => x <= now'
  BY NoneOther DEF HostFair, HostTyped
<1>2. HostTyped'
  <2>1. \A p \in Pids : state[p] # None => /\ state[p].since \in Nat
                                           /\ state[p].warned # None => state[p].warned \in Nat
    BY NoneOther DEF HostFair, HostTyped, Tracks
  <2>2. \A i \in 1..MaxBirths : seen.idle[i] # None => seen.idle[i] \in Nat
    BY NoneOther DEF HostFair, HostTyped
  <2> QED  BY <1>1, <2>1, <2>2 DEF HostFair, HostTyped
<1>3. LoopTyped'
  <2>1. loop.at = "acting" => loop.time \in Nat
    BY NoneOther DEF HostFair, LoopTyped, Carrying
  <2> QED  BY <1>1, <2>1 DEF HostFair, LoopTyped
<1>4. Identified' /\ ListingTrue'
  BY DEF HostFair, Identified, ListingTrue, Noted
<1>5. DecisionsFair'
  BY DEF HostFair, DecisionsFair, G!Announced
<1> QED  BY <1>2, <1>3, <1>4, <1>5 DEF HostFair

\* A process starts under a PID that the killer does not know.
LEMMA ProcessStarts ==
    ASSUME HostFair, NEW p \in Pids, NEW m \in BOOLEAN, G!Start(p, m)
    PROVE  HostFair'
<1>1. /\ proc[p] = None /\ births < MaxBirths /\ births' = births + 1
      /\ state[p] = None /\ ~(loop.at = "listed" /\ p \in DOMAIN loop.procs)
      /\ proc' = [proc EXCEPT ![p] = [id |-> births + 1, idle |-> TRUE, managed |-> m]]
      /\ UNCHANGED <<now, state, loop, seen>>
  BY DEF G!Start, G!agent
<1>2. /\ MaxBirths \in Nat /\ births \in 0..MaxBirths /\ proc \in [Pids -> Procs \cup {None}]
      /\ \A r \in Pids : proc[r] # None => proc[r].id <= births
      /\ None \notin Procs
  BY NoneOther DEF HostFair, HostTyped
<1>3. PICK b \in Procs : b = [id |-> births + 1, idle |-> TRUE, managed |-> m]
  <2>1. births + 1 \in 1..MaxBirths
    BY <1>1, <1>2
  <2>2. [id |-> births + 1, idle |-> TRUE, managed |-> m] \in Procs
    BY <2>1 DEF Procs
  <2> QED  BY <2>2
<1>4. /\ proc'[p] = b /\ b.id = births + 1 /\ \A r \in Pids : r # p => proc'[r] = proc[r]
      /\ proc' \in [Pids -> Procs \cup {None}] /\ births' \in 0..MaxBirths
  BY <1>1, <1>2, <1>3
<1>5. \A r \in Pids : proc[r] # None => proc[r].id \in Nat /\ proc[r].id <= births /\ proc[r].id < births'
  BY <1>1, <1>2 DEF Procs
<1>6. HostTyped'
  <2>1. \A r \in Pids : proc'[r] # None => proc'[r].id <= births'
    BY <1>1, <1>2, <1>4, <1>5
  <2> QED  BY <1>1, <1>4, <2>1 DEF HostFair, HostTyped
<1>7. LoopTyped'
  <2>1. loop.at = "listed" => \A r \in DOMAIN loop.procs :
           loop.procs[r] \in Procs /\ loop.procs[r].id <= births' /\ loop.procs[r].id # births'
    BY <1>1, <1>2 DEF HostFair, LoopTyped, Procs
  <2>2. loop.at = "acting" => \A d \in loop.todo : d.q.id <= births'
    BY <1>1, <1>2 DEF HostFair, LoopTyped, Carrying, Decisions, Procs
  <2> QED  BY <1>1, <2>1, <2>2 DEF HostFair, LoopTyped
<1>8. Identified'
  <2>0. \A r \in Pids : \A i : Noted(r, i) => Noted(r, i)'
    BY <1>1 DEF Noted
  <2>1. \A r \in Pids : \A i : state[r] # None /\ proc'[r] # None /\ i = proc'[r].id => Noted(r, i)
    BY <1>1, <1>4 DEF HostFair, Identified
  <2>2. \A r, s \in Pids : proc'[r] # None /\ proc'[s] # None /\ proc'[r].id = proc'[s].id => r = s
    BY <1>1, <1>4, <1>5 DEF HostFair, Identified
  <2>3. \A r \in Pids : \A i : state'[r] # None /\ proc'[r] # None /\ i = proc'[r].id => Noted(r, i)'
    BY <1>1, <2>0, <2>1
  <2> QED  BY <2>2, <2>3 DEF Identified, Noted
<1>9. ListingTrue'
  <2> SUFFICES ASSUME loop.at = "listed", NEW r \in DOMAIN loop.procs
               PROVE  /\ \A s \in Pids : proc'[s] # None /\ proc'[s].id = loop.procs[r].id =>
                            s = r /\ proc'[s].managed = loop.procs[r].managed
                      /\ proc'[r] # None => proc'[r].id = loop.procs[r].id
                      /\ \A s \in DOMAIN loop.procs : loop.procs[s].id = loop.procs[r].id => s = r
                      /\ state[r] # None => Noted(r, loop.procs[r].id)
    BY <1>1 DEF ListingTrue, Noted
  <2>1. r \in Pids /\ loop.procs[r].id # births + 1 /\ r # p
    BY <1>1, <1>2 DEF HostFair, LoopTyped, Procs
  <2> QED  BY <1>1, <1>4, <2>1 DEF HostFair, ListingTrue
<1>10. DecisionsFair'
  <2>1. loop.at = "acting" => \A d \in loop.todo : d.q.id # births + 1
    BY <1>1, <1>2 DEF HostFair, LoopTyped, Carrying, Decisions, Procs
  <2> QED  BY <1>1, <1>4, <2>1 DEF HostFair, DecisionsFair, G!Announced
<1> QED  BY <1>6, <1>7, <1>8, <1>9, <1>10 DEF HostFair

\* A process exits, or begins or stops to work.
LEMMA ProcessMoves ==
    ASSUME HostFair, NEW p \in Pids, G!Exit(p) \/ G!Work(p)
    PROVE  HostFair'
<1>1. /\ UNCHANGED <<now, births, state, loop, seen>> /\ proc[p] # None
  BY DEF G!Exit, G!Work, G!agent
<1>2. proc \in [Pids -> Procs \cup {None}] /\ None \notin Procs
  BY NoneOther DEF HostFair, HostTyped
<1>3. PICK b \in Procs \cup {None} :
         proc' = [proc EXCEPT ![p] = b] /\ (b # None => b.id = proc[p].id /\ b.managed = proc[p].managed)
  <2>1. CASE G!Exit(p)
    BY <2>1 DEF G!Exit
  <2>2. CASE G!Work(p)
    <3> DEFINE b == [proc[p] EXCEPT !.idle = ~proc[p].idle]
    <3>1. proc[p] \in Procs
      BY <1>1, <1>2
    <3>2. b \in Procs /\ b.id = proc[p].id /\ b.managed = proc[p].managed
      BY <3>1 DEF Procs
    <3>3. proc' = [proc EXCEPT ![p] = b]
      BY <1>2, <2>2 DEF G!Work
    <3> QED  BY <3>2, <3>3
  <2> QED  BY <2>1, <2>2
<1>4. /\ proc' \in [Pids -> Procs \cup {None}]
      /\ \A r \in Pids : proc'[r] # None =>
            proc[r] # None /\ proc'[r].id = proc[r].id /\ proc'[r].managed = proc[r].managed
  BY <1>1, <1>2, <1>3
<1>5. HostTyped'
  BY <1>1, <1>4 DEF HostFair, HostTyped
<1>6. LoopTyped'
  BY <1>1 DEF HostFair, LoopTyped
<1>7. Identified'
  <2>1. \A r \in Pids : \A i : Noted(r, i) => Noted(r, i)'
    BY <1>1 DEF Noted
  <2>2. \A r \in Pids : \A i : state[r] # None /\ proc'[r] # None /\ i = proc'[r].id => Noted(r, i)
    BY <1>1, <1>4 DEF HostFair, Identified
  <2>3. \A r \in Pids : \A i : state'[r] # None /\ proc'[r] # None /\ i = proc'[r].id => Noted(r, i)'
    BY <1>1, <2>1, <2>2
  <2>4. \A r, s \in Pids : proc'[r] # None /\ proc'[s] # None /\ proc'[r].id = proc'[s].id => r = s
    BY <1>4 DEF HostFair, Identified
  <2> QED  BY <2>3, <2>4 DEF Identified, Noted
<1>8. ListingTrue'
  <2> SUFFICES ASSUME loop.at = "listed", NEW r \in DOMAIN loop.procs
               PROVE  /\ \A s \in Pids : proc'[s] # None /\ proc'[s].id = loop.procs[r].id =>
                            s = r /\ proc'[s].managed = loop.procs[r].managed
                      /\ proc'[r] # None => proc'[r].id = loop.procs[r].id
                      /\ \A s \in DOMAIN loop.procs : loop.procs[s].id = loop.procs[r].id => s = r
                      /\ state[r] # None => Noted(r, loop.procs[r].id)
    BY <1>1 DEF ListingTrue, Noted
  <2>1. r \in Pids
    BY DEF HostFair, LoopTyped
  <2> QED  BY <1>4, <2>1 DEF HostFair, ListingTrue
<1>9. DecisionsFair'
  BY <1>1, <1>4 DEF HostFair, DecisionsFair, G!Announced
<1> QED  BY <1>5, <1>6, <1>7, <1>8, <1>9 DEF HostFair

\* The loop lists the processes, sleeps after the last decision, or begins again.
LEMMA LoopMoves ==
    ASSUME HostFair, policy \in Rules, G!ListGpuProcesses \/ G!Sleep \/ G!AgentRestarts
    PROVE  HostFair'
<1>1. /\ UNCHANGED <<now, births, proc>> /\ seen'.idle = seen.idle /\ seen'.warn = seen.warn
      /\ loop'.at \in {"waiting", "listed"}
  <2>1. CASE G!ListGpuProcesses
    BY <2>1 DEF G!ListGpuProcesses, G!host
  <2>2. CASE G!Sleep
    BY <2>2 DEF G!Sleep, G!host, G!Waiting
  <2>3. CASE G!AgentRestarts
    BY <2>3 DEF G!AgentRestarts, G!host, G!Waiting
  <2> QED  BY <2>1, <2>2, <2>3
<1>2. proc \in [Pids -> Procs \cup {None}] /\ None \notin Tracks /\ \A p \in Pids : proc[p] # None => proc[p].id <= births
  BY NoneOther DEF HostFair, HostTyped
<1>3. CASE G!AgentRestarts
  <2>1. state' = [p \in Pids |-> None] /\ loop'.at = "waiting"
    BY <1>3 DEF G!AgentRestarts, G!Waiting
  <2>2. HostTyped'
    BY <1>1, <2>1 DEF HostFair, HostTyped
  <2>3. LoopTyped' /\ ListingTrue' /\ DecisionsFair'
    BY <2>1 DEF LoopTyped, ListingTrue, DecisionsFair
  <2>4. Identified'
    BY <1>1, <2>1 DEF HostFair, Identified
  <2> QED  BY <2>2, <2>3, <2>4 DEF HostFair
<1>4. CASE G!Sleep
  <2>1. state' = state /\ loop'.at = "waiting" /\ loop.todo = {}
    BY <1>4 DEF G!Sleep, G!Waiting
  <2>2. HostTyped'
    BY <1>1, <2>1 DEF HostFair, HostTyped
  <2>3. LoopTyped' /\ ListingTrue' /\ DecisionsFair'
    BY <2>1 DEF LoopTyped, ListingTrue, DecisionsFair
  <2>4. \A r \in Pids : \A i : Noted(r, i) => Noted(r, i)'
    BY <1>1, <2>1 DEF Noted
  <2>5. \A r \in Pids : \A i : state'[r] # None /\ proc'[r] # None /\ i = proc'[r].id => Noted(r, i)'
    BY <1>1, <2>1, <2>4 DEF HostFair, Identified
  <2>6. Identified'
    BY <1>1, <2>1, <2>5 DEF HostFair, Identified, Noted
  <2> QED  BY <2>2, <2>3, <2>6 DEF HostFair
<1>5. CASE G!ListGpuProcesses
  <2>1. /\ state' = state /\ loop'.at = "listed" /\ loop'.policy = policy /\ loop.at = "waiting"
        /\ loop'.procs = [p \in G!Listed |-> proc[p]]
    BY <1>5 DEF G!ListGpuProcesses
  <2>2. /\ DOMAIN loop'.procs = G!Listed
        /\ \A p \in G!Listed : p \in Pids /\ proc[p] # None /\ loop'.procs[p] = proc[p] /\ proc[p] \in Procs
    BY <1>2, <2>1 DEF G!Listed
  <2>3. HostTyped'
    BY <1>1, <2>1 DEF HostFair, HostTyped
  <2>4. LoopTyped'
    BY <1>1, <1>2, <2>1, <2>2 DEF LoopTyped
  <2>5. DecisionsFair'
    BY <2>1 DEF DecisionsFair
  <2>6. \A r \in Pids : \A i : Noted(r, i) => Noted(r, i)'
    BY <1>1, <2>1 DEF Noted
  <2>7. \A r \in Pids : \A i : state'[r] # None /\ proc'[r] # None /\ i = proc'[r].id => Noted(r, i)'
    BY <1>1, <2>1, <2>6 DEF HostFair, Identified
  <2>8. Identified'
    BY <1>1, <2>1, <2>7 DEF HostFair, Identified, Noted
  <2>9. ListingTrue'
    <3>1. \A p \in DOMAIN loop'.procs :
             /\ \A r \in Pids : proc'[r] # None /\ proc'[r].id = loop'.procs[p].id =>
                   r = p /\ proc'[r].managed = loop'.procs[p].managed
             /\ proc'[p] # None => proc'[p].id = loop'.procs[p].id
             /\ \A r \in DOMAIN loop'.procs : loop'.procs[r].id = loop'.procs[p].id => r = p
      BY <1>1, <2>2 DEF HostFair, Identified
    <3>2. \A p \in DOMAIN loop'.procs : \A i : state'[p] # None /\ i = loop'.procs[p].id => Noted(p, i)'
      BY <1>1, <2>2, <2>7
    <3> QED  BY <3>1, <3>2 DEF ListingTrue, Noted
  <2> QED  BY <2>3, <2>4, <2>5, <2>8, <2>9 DEF HostFair
<1> QED  BY <1>3, <1>4, <1>5

\* What evaluate makes of the listing, PID by PID.
LEMMA Evaluated ==
    ASSUME HostFair, seen \in Seen, G!Evaluate
    PROVE  LET q == loop.procs
               v(p) == G!Verdict(p, q[p], loop.policy) IN
           /\ loop.at = "listed" /\ UNCHANGED <<now, births, proc>>
           /\ \A p \in Pids : state'[p] = IF p \in DOMAIN q THEN v(p).st ELSE None
           /\ state' = [p \in Pids |-> state'[p]]
           /\ loop'.at = "acting" /\ loop'.time = now /\ loop'.now = loop.policy.immediate
           /\ loop' = [at |-> "acting", time |-> loop'.time, now |-> loop'.now, todo |-> loop'.todo]
           /\ \A d \in loop'.todo : /\ d.pid \in DOMAIN q /\ d.act # "none"
                                    /\ d = [pid |-> d.pid, act |-> v(d.pid).act, q |-> q[d.pid]]
           /\ \A p \in DOMAIN q : v(p).act # "none" => [pid |-> p, act |-> v(p).act, q |-> q[p]] \in loop'.todo
           /\ seen' \in Seen
           /\ \A p \in DOMAIN q : q[p].id \in 1..MaxBirths =>
                 seen'.idle[q[p].id] = IF ~q[p].idle THEN None
                                       ELSE IF seen.idle[q[p].id] = None THEN now ELSE seen.idle[q[p].id]
           /\ \A i \in 1..MaxBirths : /\ seen'.warn[i] = IF seen'.idle[i] = None THEN None ELSE seen.warn[i]
                                     /\ seen'.idle[i] \in {None, now, seen.idle[i]}
           /\ seen'.unfair = seen.unfair /\ seen'.wrong = seen.wrong /\ seen'.mail = seen.mail
           /\ seen'.untold = seen.untold /\ seen'.early = seen.early /\ seen'.kills = seen.kills
           /\ seen'.forgot = seen.forgot
<1> DEFINE q == loop.procs
           v(p) == G!Verdict(p, q[p], loop.policy)
           ids == {q[p].id : p \in DOMAIN q}
           look(i) == CHOOSE p \in DOMAIN q : q[p].id = i
           idle == [i \in 1..MaxBirths |-> IF i \notin ids \/ ~q[look(i)].idle THEN None
                                           ELSE IF seen.idle[i] = None THEN now ELSE seen.idle[i]]
           warn == [i \in 1..MaxBirths |-> IF idle[i] = None THEN None ELSE seen.warn[i]]
<1>1. /\ loop.at = "listed" /\ UNCHANGED <<now, births, proc>>
      /\ state' = [p \in Pids |-> IF p \in DOMAIN q THEN v(p).st ELSE None]
      /\ loop' = [at |-> "acting", time |-> now, now |-> loop.policy.immediate,
                   todo |-> {[pid |-> p, act |-> v(p).act, q |-> q[p]] :
                                p \in {r \in DOMAIN q : v(r).act # "none"}}]
      /\ seen' = [seen EXCEPT !.idle = idle, !.warn = warn]
  <2> DEFINE w == [p \in DOMAIN q |-> G!Verdict(p, q[p], loop.policy)]
  <2>1. \A p \in DOMAIN q : w[p] = v(p)
    OBVIOUS
  <2>2. /\ loop.at = "listed" /\ UNCHANGED <<now, births, proc>>
        /\ state' = [p \in Pids |-> IF p \in DOMAIN q THEN w[p].st ELSE None]
        /\ loop' = [at |-> "acting", time |-> now, now |-> loop.policy.immediate,
                     todo |-> {[pid |-> p, act |-> w[p].act, q |-> q[p]] :
                                  p \in {r \in DOMAIN q : w[r].act # "none"}}]
        /\ seen' = [seen EXCEPT !.idle = idle, !.warn = warn]
    BY DEF G!Evaluate, G!host
  <2> HIDE DEF w, v, q
  <2>3. {r \in DOMAIN q : w[r].act # "none"} = {r \in DOMAIN q : v(r).act # "none"}
    BY <2>1
  <2>4. {[pid |-> p, act |-> w[p].act, q |-> q[p]] : p \in {r \in DOMAIN q : w[r].act # "none"}}
          = {[pid |-> p, act |-> v(p).act, q |-> q[p]] : p \in {r \in DOMAIN q : v(r).act # "none"}}
    BY <2>1, <2>3
  <2>5. [p \in Pids |-> IF p \in DOMAIN q THEN w[p].st ELSE None] = [p \in Pids |-> IF p \in DOMAIN q THEN v(p).st ELSE None]
    BY <2>1
  <2> QED  BY <2>2, <2>4, <2>5
<1>2. now \in Times /\ \A p \in DOMAIN q : \A r \in DOMAIN q : q[r].id = q[p].id => r = p
  BY <1>1 DEF HostFair, HostTyped, ListingTrue
<1>3. \A p \in DOMAIN q : look(q[p].id) = p
  BY <1>2, LooksUp
<1> HIDE DEF look, v
<1>4. idle \in [1..MaxBirths -> Times \cup {None}] /\ warn \in [1..MaxBirths -> Times \cup {None}]
  BY <1>2 DEF Seen
<1>5. \A p \in DOMAIN q : q[p].id \in 1..MaxBirths =>
         idle[q[p].id] = IF ~q[p].idle THEN None
                         ELSE IF seen.idle[q[p].id] = None THEN now ELSE seen.idle[q[p].id]
  BY <1>3
<1>6. \A i \in 1..MaxBirths : /\ warn[i] = IF idle[i] = None THEN None ELSE seen.warn[i]
                             /\ idle[i] \in {None, now, seen.idle[i]}
  OBVIOUS
<1> HIDE DEF idle, warn
<1>7. seen' \in Seen /\ seen'.idle = idle /\ seen'.warn = warn
      /\ seen'.unfair = seen.unfair /\ seen'.wrong = seen.wrong /\ seen'.mail = seen.mail
      /\ seen'.untold = seen.untold /\ seen'.early = seen.early /\ seen'.kills = seen.kills
      /\ seen'.forgot = seen.forgot
  BY <1>1, <1>4 DEF Seen
<1>8. /\ \A d \in loop'.todo : /\ d.pid \in DOMAIN q /\ d.act # "none"
                               /\ d = [pid |-> d.pid, act |-> v(d.pid).act, q |-> q[d.pid]]
      /\ \A p \in DOMAIN q : v(p).act # "none" => [pid |-> p, act |-> v(p).act, q |-> q[p]] \in loop'.todo
  BY <1>1
<1>9. /\ loop'.at = "acting" /\ loop'.time = now /\ loop'.now = loop.policy.immediate
      /\ loop' = [at |-> "acting", time |-> loop'.time, now |-> loop'.now, todo |-> loop'.todo]
  BY <1>1
<1>10. /\ \A p \in Pids : state'[p] = IF p \in DOMAIN q THEN v(p).st ELSE None
       /\ state' = [p \in Pids |-> state'[p]]
  BY <1>1
<1> QED  BY <1>1, <1>5, <1>6, <1>7, <1>8, <1>9, <1>10 DEF v

\* A look at the processes: what is noted of each, and what is decided.
LEMMA LookIsFair ==
    ASSUME HostFair, seen \in Seen, G!Evaluate
    PROVE  HostFair' /\ seen' \in Seen /\ seen'.unfair = seen.unfair /\ seen'.wrong = seen.wrong
<1> DEFINE q == loop.procs
           v(p) == G!Verdict(p, q[p], loop.policy)
<1>1. /\ loop.at = "listed" /\ UNCHANGED <<now, births, proc>>
      /\ \A p \in Pids : state'[p] = IF p \in DOMAIN q THEN v(p).st ELSE None
      /\ state' = [p \in Pids |-> state'[p]]
      /\ loop'.at = "acting" /\ loop'.time = now /\ loop'.now = loop.policy.immediate
      /\ loop' = [at |-> "acting", time |-> loop'.time, now |-> loop'.now, todo |-> loop'.todo]
      /\ \A d \in loop'.todo : /\ d.pid \in DOMAIN q /\ d.act # "none"
                               /\ d = [pid |-> d.pid, act |-> v(d.pid).act, q |-> q[d.pid]]
      /\ \A p \in DOMAIN q : v(p).act # "none" => [pid |-> p, act |-> v(p).act, q |-> q[p]] \in loop'.todo
      /\ seen' \in Seen
      /\ \A p \in DOMAIN q : q[p].id \in 1..MaxBirths =>
            seen'.idle[q[p].id] = IF ~q[p].idle THEN None
                                  ELSE IF seen.idle[q[p].id] = None THEN now ELSE seen.idle[q[p].id]
      /\ \A i \in 1..MaxBirths : seen'.warn[i] = IF seen'.idle[i] = None THEN None ELSE seen.warn[i]
      /\ seen'.unfair = seen.unfair /\ seen'.wrong = seen.wrong
  BY Evaluated
<1>0. \A i \in 1..MaxBirths : seen'.idle[i] # None => seen'.idle[i] <= now
  <2>1. \A i \in 1..MaxBirths : seen'.idle[i] \in {None, now, seen.idle[i]}
    BY Evaluated
  <2>2. now <= now /\ \A i \in 1..MaxBirths : seen.idle[i] # None => seen.idle[i] <= now
    BY NoneOther DEF HostFair, HostTyped, Times
  <2> QED  BY <2>1, <2>2
<1>2. /\ now \in Times /\ now \in Nat /\ Times \subseteq Nat /\ None \notin Times /\ None \notin Tracks /\ loop.policy \in Rules
      /\ \A p \in DOMAIN q : p \in Pids /\ q[p] \in Procs /\ q[p].id <= births /\ q[p].id \in 1..MaxBirths
      /\ \A p \in DOMAIN q : \A r \in DOMAIN q : q[r].id = q[p].id => r = p
      /\ seen.idle \in [1..MaxBirths -> Times \cup {None}] /\ seen.warn \in [1..MaxBirths -> Times \cup {None}]
      /\ \A i \in 1..MaxBirths : seen.idle[i] # None => seen.idle[i] <= now
  BY <1>1, NoneOther DEF HostFair, HostTyped, LoopTyped, ListingTrue, Procs, Seen
<1>3. \A p \in DOMAIN q :
           /\ v(p).act \in {"none", "warn", "kill"}
           /\ v(p).st # None =>
                 /\ v(p).st \in Tracks /\ v(p).st.since <= now /\ q[p].idle /\ q[p].managed
                 /\ v(p).st.since = IF state[p] = None THEN now ELSE state[p].since
                 /\ v(p).st.warned # None =>
                       \/ v(p).act = "warn" /\ v(p).st.warned = now /\ now - v(p).st.since >= IdleFor
                       \/ state[p] # None /\ state[p].warned # None /\ v(p).st.warned = state[p].warned
           /\ v(p).act # "none" => q[p].managed
           /\ v(p).act = "warn" /\ v(p).st # None => v(p).st.warned = now
           /\ v(p).act = "kill" /\ ~loop.policy.immediate =>
                 /\ q[p].idle /\ state[p] # None /\ state[p].warned # None
                 /\ now - state[p].warned >= Grace
  BY <1>2, VerdictIs DEF HostFair
<1> HIDE DEF v
<1>4. \A p \in DOMAIN q : state[p] # None =>
         /\ state[p] \in Tracks /\ state[p].since \in Nat /\ state[p].since <= now
         /\ state[p].warned # None => state[p].warned \in Nat /\ state[p].warned <= now
         /\ Noted(p, q[p].id)
  BY <1>1, <1>2 DEF HostFair, HostTyped, ListingTrue, Tracks
<1>5. \A p \in DOMAIN q : state[p] # None =>
         /\ seen.idle[q[p].id] # None /\ seen.idle[q[p].id] <= state[p].since
         /\ state[p].warned # None =>
               state[p].warned - state[p].since >= IdleFor /\ seen.warn[q[p].id] = state[p].warned
  BY <1>1, <1>4 DEF Noted
<1>6. HostTyped'
  <2>1. \A p \in Pids : state'[p] \in Tracks \cup {None}
    BY <1>1, <1>3
  <2>2. state' \in [Pids -> Tracks \cup {None}]
    BY <1>1, <2>1
  <2>3. \A p \in Pids : state'[p] # None =>
          state'[p].since <= now /\ (state'[p].warned # None => state'[p].warned <= now)
    BY <1>1, <1>2, <1>3, <1>4
  <2>4. seen'.idle \in [1..MaxBirths -> Times \cup {None}]
    BY <1>1 DEF Seen
  <2> QED  BY <1>0, <1>1, <2>2, <2>3, <2>4 DEF HostFair, HostTyped
<1>7. LoopTyped'
  <2>1. \A d \in loop'.todo : d \in Decisions /\ d.q.id <= births
    BY <1>1, <1>2, <1>3 DEF Decisions
  <2>2. loop' \in Carrying
    BY <1>1, <1>2, <2>1 DEF Carrying, Rules
  <2> QED  BY <1>1, <1>2, <2>1, <2>2 DEF LoopTyped
<1>8. ListingTrue'
  BY <1>1 DEF ListingTrue
<1>9. ASSUME NEW p \in DOMAIN q, v(p).st # None
      PROVE  seen'.idle[q[p].id] # None /\ seen'.idle[q[p].id] <= v(p).st.since
  <2>1. /\ q[p].idle /\ q[p].id \in 1..MaxBirths
        /\ v(p).st.since = IF state[p] = None THEN now ELSE state[p].since
    BY <1>2, <1>3, <1>9
  <2>2. seen'.idle[q[p].id] = IF seen.idle[q[p].id] = None THEN now ELSE seen.idle[q[p].id]
    BY <1>1, <2>1
  <2>3. CASE state[p] = None
    BY <1>2, <2>1, <2>2, <2>3
  <2>4. CASE state[p] # None
    BY <1>2, <1>5, <2>1, <2>2, <2>4
  <2> QED  BY <2>3, <2>4
<1>10. ASSUME NEW p \in DOMAIN q, state'[p] # None
       PROVE  \A i : i = q[p].id => Noted(p, i)'
  <2>1. state'[p] = v(p).st /\ v(p).st # None /\ q[p].id \in 1..MaxBirths
    BY <1>1, <1>2, <1>10
  <2>2. seen'.idle[q[p].id] # None /\ seen'.idle[q[p].id] <= state'[p].since
        /\ seen'.warn[q[p].id] = seen.warn[q[p].id]
    BY <1>1, <1>9, <2>1
  <2>3. ASSUME state'[p].warned # None
        PROVE  /\ state'[p].warned - state'[p].since >= IdleFor
               /\ \/ seen'.warn[q[p].id] = state'[p].warned
                  \/ /\ loop'.at = "acting" /\ loop'.time = state'[p].warned
                     /\ \E d \in loop'.todo : d.act = "warn" /\ d.q.id = q[p].id
    <3>1. CASE v(p).act = "warn" /\ v(p).st.warned = now /\ now - v(p).st.since >= IdleFor
      <4>1. [pid |-> p, act |-> v(p).act, q |-> q[p]] \in loop'.todo
        BY <1>1, <3>1
      <4>2. \E d \in loop'.todo : d.act = "warn" /\ d.q.id = q[p].id
        BY <3>1, <4>1
      <4> QED  BY <1>1, <2>1, <3>1, <4>2
    <3>2. CASE state[p] # None /\ state[p].warned # None /\ v(p).st.warned = state[p].warned
      BY <1>3, <1>5, <2>1, <2>2, <3>2
    <3> QED  BY <1>3, <2>1, <2>3, <3>1, <3>2
  <2> QED  BY <2>2, <2>3 DEF Noted
<1>11. Identified'
  <2>1. \A p \in Pids : \A i : state'[p] # None /\ proc'[p] # None /\ i = proc'[p].id => Noted(p, i)'
    <3> SUFFICES ASSUME NEW p \in Pids, state'[p] # None, proc'[p] # None
                 PROVE  \A i : i = proc'[p].id => Noted(p, i)'
      OBVIOUS
    <3>1. p \in DOMAIN q
      BY <1>1
    <3>2. proc'[p].id = q[p].id
      BY <1>1, <3>1 DEF HostFair, ListingTrue
    <3> QED  BY <1>10, <3>1, <3>2
  <2> QED  BY <1>1, <2>1 DEF HostFair, Identified, Noted
<1>12. DecisionsFair'
  <2> SUFFICES ASSUME NEW d \in loop'.todo
               PROVE  /\ \A r \in Pids : proc'[r] # None /\ proc'[r].id = d.q.id =>
                            /\ proc'[r].managed
                            /\ d.act = "warn" /\ state'[r] # None => state'[r].warned = loop'.time
                      /\ d.act = "kill" /\ ~loop'.now => G!Announced(d.q.id)'
                      /\ \A e \in loop'.todo : e.q.id = d.q.id => e = d
    BY DEF DecisionsFair
  <2>1. PICK p \in DOMAIN q : d = [pid |-> p, act |-> v(p).act, q |-> q[p]] /\ v(p).act # "none"
    BY <1>1
  <2>2. \A r \in Pids : proc'[r] # None /\ proc'[r].id = d.q.id =>
                            /\ proc'[r].managed
                            /\ d.act = "warn" /\ state'[r] # None => state'[r].warned = loop'.time
    <3>1. \A r \in Pids : proc[r] # None /\ proc[r].id = q[p].id => r = p /\ proc[r].managed = q[p].managed
      BY <1>1 DEF HostFair, ListingTrue
    <3>2. q[p].managed /\ (v(p).act = "warn" /\ v(p).st # None => v(p).st.warned = now)
      BY <1>3, <2>1
    <3>3. d.act = v(p).act /\ d.q = q[p] /\ p \in Pids
      BY <1>2, <2>1
    <3>4. state'[p] = v(p).st /\ loop'.time = now /\ proc' = proc
      BY <1>1, <3>3
    <3> SUFFICES ASSUME NEW r \in Pids, proc[r] # None, proc[r].id = q[p].id
                 PROVE  proc[r].managed /\ (d.act = "warn" /\ state'[r] # None => state'[r].warned = now)
      BY <3>3, <3>4
    <3>5. r = p /\ proc[r].managed = q[p].managed
      BY <3>1
    <3> QED  BY <3>2, <3>3, <3>4, <3>5
  <2>3. ASSUME d.act = "kill", ~loop'.now
        PROVE  G!Announced(d.q.id)'
    <3>1. /\ q[p].idle /\ state[p] # None /\ state[p].warned # None /\ now - state[p].warned >= Grace
          /\ q[p].id \in 1..MaxBirths
      BY <1>1, <1>2, <1>3, <2>1, <2>3
    <3>2. /\ seen.idle[q[p].id] # None /\ seen.idle[q[p].id] <= state[p].since
          /\ state[p].warned - state[p].since >= IdleFor /\ seen.warn[q[p].id] = state[p].warned
      BY <1>5, <3>1
    <3>3. seen'.idle[q[p].id] = seen.idle[q[p].id] /\ seen'.warn[q[p].id] = state[p].warned
      BY <1>1, <3>1, <3>2
    <3>4. state[p].since \in Nat /\ state[p].warned \in Nat /\ seen.idle[q[p].id] \in Nat /\ now \in Nat
          /\ IdleFor \in Nat
      BY <1>2, <1>4, <3>1, <3>2, NoneOther
    <3>5. state[p].warned - seen.idle[q[p].id] >= IdleFor
      BY <3>2, <3>4
    <3>6. d.q.id = q[p].id
      BY <2>1
    <3>7. /\ loop'.time = now /\ now - seen'.warn[q[p].id] >= Grace
          /\ seen'.idle[q[p].id] # None /\ seen'.warn[q[p].id] # None
          /\ seen'.warn[q[p].id] - seen'.idle[q[p].id] >= IdleFor
      BY <1>1, <3>1, <3>2, <3>3, <3>5
    <3> QED  BY <3>6, <3>7 DEF G!Announced
  <2>4. \A e \in loop'.todo : e.q.id = d.q.id => e = d
    BY <1>1, <1>2, <2>1
  <2> QED  BY <2>2, <2>3, <2>4
<1> QED  BY <1>1, <1>6, <1>7, <1>8, <1>11, <1>12 DEF HostFair

\* A decision is carried out: the student is warned, or the process that was looked at
\* is killed, if it is still there.
LEMMA DecisionIsFair ==
    ASSUME HostFair, seen \in Seen, ~seen.unfair, ~seen.wrong, loop.at = "acting", NEW d \in loop.todo, G!Act(d)
    PROVE  /\ HostFair' /\ seen' \in Seen /\ ~seen'.unfair /\ ~seen'.wrong
           /\ seen'.mail = seen.mail /\ seen'.untold = seen.untold /\ seen'.early = seen.early
           /\ seen'.forgot = seen.forgot
           /\ \/ outbox' = Append(outbox, "warned") /\ seen'.kills = seen.kills
              \/ outbox' = Append(outbox, "killed") /\ seen'.kills = seen.kills + 1
              \/ outbox' = outbox /\ seen'.kills = seen.kills
<1>1. /\ UNCHANGED <<now, births, state>> /\ loop' = [loop EXCEPT !.todo = @ \ {d}]
      /\ loop \in Carrying /\ d \in Decisions /\ loop.todo \subseteq Decisions /\ loop.time \in Times
      /\ \A e \in loop.todo : e.q.id <= births
      /\ d.pid \in Pids /\ d.q \in Procs /\ d.q.id \in 1..MaxBirths
      /\ proc \in [Pids -> Procs \cup {None}] /\ None \notin Procs
  BY NoneOther DEF G!Act, HostFair, LoopTyped, HostTyped, Carrying, Decisions, Procs
<1>2. /\ loop' \in Carrying /\ loop'.at = "acting" /\ loop'.time = loop.time /\ loop'.now = loop.now
      /\ loop'.todo = loop.todo \ {d}
  BY <1>1 DEF Carrying
<1>3. LoopTyped'
  BY <1>1, <1>2 DEF HostFair, LoopTyped
<1>4. ListingTrue'
  BY <1>2 DEF ListingTrue
<1>5. \A e \in loop.todo :
       /\ \A r \in Pids : proc[r] # None /\ proc[r].id = e.q.id =>
             /\ proc[r].managed
             /\ e.act = "warn" /\ state[r] # None => state[r].warned = loop.time
       /\ e.act = "kill" /\ ~loop.now => G!Announced(e.q.id)
       /\ \A f \in loop.todo : f.q.id = e.q.id => f = e
  BY DEF HostFair, DecisionsFair
<1>6. /\ \A p, r \in Pids : proc[p] # None /\ proc[r] # None /\ proc[p].id = proc[r].id => p = r
      /\ \A p \in Pids : state[p] # None /\ proc[p] # None => Noted(p, proc[p].id)
  BY DEF HostFair, Identified
<1>7. CASE d.act = "warn" /\ outbox' = Append(outbox, "warned") /\ proc' = proc
           /\ seen' = [seen EXCEPT !.warn[d.q.id] = loop.time]
  <2>1. /\ seen' \in Seen /\ seen'.warn = [seen.warn EXCEPT ![d.q.id] = loop.time]
        /\ seen'.idle = seen.idle /\ seen'.unfair = seen.unfair /\ seen'.wrong = seen.wrong
        /\ seen'.mail = seen.mail /\ seen'.untold = seen.untold /\ seen'.early = seen.early
        /\ seen'.forgot = seen.forgot /\ seen'.kills = seen.kills
    BY <1>1, <1>7 DEF Seen
  <2>2. /\ seen'.warn[d.q.id] = loop.time
        /\ \A i \in 1..MaxBirths : i # d.q.id => seen'.warn[i] = seen.warn[i]
    BY <1>1, <2>1 DEF Seen
  <2>3. HostTyped'
    BY <1>1, <1>7, <2>1 DEF HostFair, HostTyped
  <2>4. ASSUME NEW p \in Pids, NEW i \in 1..MaxBirths, state[p] # None, proc[p] # None, proc[p].id = i
        PROVE  Noted(p, i)'
    <3>1. Noted(p, i)
      BY <1>6, <2>4
    <3>2. CASE i = d.q.id
      BY <1>1, <1>5, <1>7, <2>1, <2>2, <2>4, <3>1, <3>2 DEF Noted
    <3>3. CASE i # d.q.id
      <4>1. \A e \in loop.todo : e.q.id = i => e \in loop'.todo
        BY <1>2, <3>3
      <4>2. seen'.warn[i] = seen.warn[i]
        BY <2>2, <3>3
      <4> QED  BY <1>1, <1>2, <2>1, <3>1, <4>1, <4>2 DEF Noted
    <3> QED  BY <3>2, <3>3
  <2>5. Identified'
    <3>1. \A p \in Pids : \A i : state'[p] # None /\ proc'[p] # None /\ i = proc'[p].id => Noted(p, i)'
      BY <1>1, <1>7, <2>4 DEF Procs
    <3> QED  BY <1>6, <1>7, <3>1 DEF Identified, Noted
  <2>6. DecisionsFair'
    <3> SUFFICES ASSUME NEW e \in loop'.todo
                 PROVE  /\ \A r \in Pids : proc'[r] # None /\ proc'[r].id = e.q.id =>
                              /\ proc'[r].managed
                              /\ e.act = "warn" /\ state'[r] # None => state'[r].warned = loop'.time
                        /\ e.act = "kill" /\ ~loop'.now => G!Announced(e.q.id)'
                        /\ \A f \in loop'.todo : f.q.id = e.q.id => f = e
      BY DEF DecisionsFair
    <3>1. e \in loop.todo /\ e.q.id # d.q.id /\ e.q.id \in 1..MaxBirths
      BY <1>1, <1>2, <1>5 DEF Decisions, Procs
    <3>2. G!Announced(e.q.id) => G!Announced(e.q.id)'
      BY <1>2, <2>1, <2>2, <3>1 DEF G!Announced
    <3> QED  BY <1>1, <1>2, <1>5, <1>7, <3>1, <3>2
  <2> QED  BY <1>3, <1>4, <1>7, <2>1, <2>3, <2>5, <2>6 DEF HostFair
\* A kill, or the signal that finds nobody.
<1>8. ASSUME d.act = "kill", seen'.idle = seen.idle, seen'.warn = seen.warn, proc' \in [Pids -> Procs \cup {None}],
             \A p \in Pids : proc'[p] # None => proc'[p] = proc[p]
      PROVE  HostFair'
  <2>1. HostTyped'
    BY <1>1, <1>8 DEF HostFair, HostTyped
  <2>2. ASSUME NEW p \in Pids, NEW i, state[p] # None, proc'[p] # None, proc'[p].id = i
        PROVE  Noted(p, i)'
    <3>1. Noted(p, i)
      BY <1>6, <1>8, <2>2
    <3>2. \A e \in loop.todo : e.act = "warn" => e \in loop'.todo
      BY <1>2, <1>8
    <3> QED  BY <1>1, <1>2, <1>8, <3>1, <3>2 DEF Noted
  <2>3. Identified'
    <3>1. \A p \in Pids : \A i : state'[p] # None /\ proc'[p] # None /\ i = proc'[p].id => Noted(p, i)'
      BY <1>1, <2>2
    <3> QED  BY <1>6, <1>8, <3>1 DEF Identified, Noted
  <2>4. DecisionsFair'
    <3> SUFFICES ASSUME NEW e \in loop'.todo
                 PROVE  /\ \A r \in Pids : proc'[r] # None /\ proc'[r].id = e.q.id =>
                              /\ proc'[r].managed
                              /\ e.act = "warn" /\ state'[r] # None => state'[r].warned = loop'.time
                        /\ e.act = "kill" /\ ~loop'.now => G!Announced(e.q.id)'
                        /\ \A f \in loop'.todo : f.q.id = e.q.id => f = e
      BY DEF DecisionsFair
    <3>1. e \in loop.todo
      BY <1>2
    <3>2. G!Announced(e.q.id) => G!Announced(e.q.id)'
      BY <1>2, <1>8 DEF G!Announced
    <3> QED  BY <1>1, <1>2, <1>5, <1>8, <3>1, <3>2
  <2> QED  BY <1>3, <1>4, <2>1, <2>3, <2>4 DEF HostFair
<1>9. CASE /\ d.act = "kill" /\ G!KillPid(d) /\ proc' = [proc EXCEPT ![d.pid] = None]
           /\ outbox' = Append(outbox, "killed")
           /\ seen' = [seen EXCEPT !.unfair = @ \/ ~(loop.now \/ G!Announced(proc[d.pid].id)),
                                  !.wrong = @ \/ proc[d.pid].id # d.q.id \/ ~proc[d.pid].managed,
                                  !.kills = @ + 1]
  <2> DEFINE x == seen.unfair \/ ~(loop.now \/ G!Announced(proc[d.pid].id))
             y == seen.wrong \/ proc[d.pid].id # d.q.id \/ ~proc[d.pid].managed
  <2>1. proc[d.pid] # None /\ proc[d.pid].id = d.q.id
    BY <1>9 DEF G!KillPid
  <2>2. proc[d.pid].managed /\ (loop.now \/ G!Announced(d.q.id))
    BY <1>1, <1>5, <1>9, <2>1
  <2>3. x = FALSE /\ y = FALSE
    BY <2>1, <2>2
  <2>4. seen' = [seen EXCEPT !.unfair = x, !.wrong = y, !.kills = seen.kills + 1]
    BY <1>9
  <2> HIDE DEF x, y
  <2>5. seen' = [seen EXCEPT !.unfair = FALSE, !.wrong = FALSE, !.kills = seen.kills + 1]
    BY <2>3, <2>4
  <2> DEFINE k == seen.kills + 1
  <2>6. k \in Nat /\ seen' = [seen EXCEPT !.unfair = FALSE, !.wrong = FALSE, !.kills = k]
    BY <2>5 DEF Seen
  <2> HIDE DEF k
  <2>7. seen' \in Seen
    BY <2>6 DEF Seen
  <2>8. /\ seen'.unfair = FALSE /\ seen'.wrong = FALSE
        /\ seen'.idle = seen.idle /\ seen'.warn = seen.warn
        /\ seen'.mail = seen.mail /\ seen'.untold = seen.untold /\ seen'.early = seen.early
        /\ seen'.forgot = seen.forgot /\ seen'.kills = k
    BY <2>6 DEF Seen
  <2>9. /\ seen' \in Seen /\ ~seen'.unfair /\ ~seen'.wrong
        /\ seen'.idle = seen.idle /\ seen'.warn = seen.warn
        /\ seen'.mail = seen.mail /\ seen'.untold = seen.untold /\ seen'.early = seen.early
        /\ seen'.forgot = seen.forgot /\ seen'.kills = seen.kills + 1
    BY <2>7, <2>8 DEF k
  <2>10. proc' \in [Pids -> Procs \cup {None}] /\ \A p \in Pids : proc'[p] # None => proc'[p] = proc[p]
    BY <1>1, <1>9
  <2>11. HostFair'
    BY <1>8, <1>9, <2>9, <2>10
  <2> QED  BY <1>9, <2>9, <2>11
<1>10. CASE d.act = "kill" /\ UNCHANGED <<proc, outbox, seen>>
  <2>1. HostFair'
    BY <1>1, <1>8, <1>10
  <2> QED  BY <1>10, <2>1
<1> QED  BY <1>7, <1>9, <1>10 DEF G!Act

\* The kills a queue of events tells of.
LEMMA KillsTold ==
    ASSUME NEW V, NEW q \in Seq(V), NEW e \in V
    PROVE  /\ G!KillsToTell(q) \in Nat
           /\ G!KillsToTell(Append(q, e)) = G!KillsToTell(q) + (IF e = "killed" THEN 1 ELSE 0)
           /\ q # <<>> => /\ G!KillsToTell(Tail(q)) \in Nat
                          /\ G!KillsToTell(q) = G!KillsToTell(Tail(q)) + (IF Head(q) = "killed" THEN 1 ELSE 0)
<1> DEFINE Told(x) == {i \in DOMAIN x : x[i] = "killed"}
<1>1. /\ DOMAIN q = 1..Len(q) /\ Len(q) \in Nat
      /\ DOMAIN Append(q, e) = 1..(Len(q) + 1)
      /\ Append(q, e)[Len(q) + 1] = e
      /\ \A i \in 1..Len(q) : Append(q, e)[i] = q[i]
  BY Appended
<1>2. IsFiniteSet(Told(q)) /\ Cardinality(Told(q)) \in Nat
  <2>1. IsFiniteSet(1..Len(q))
    <3>1. 1 \in Int /\ Len(q) \in Int
      BY <1>1
    <3> QED  BY <3>1, FS_Interval
  <2>2. Told(q) \in SUBSET (1..Len(q))
    BY <1>1
  <2>3. IsFiniteSet(Told(q))
    BY <2>1, <2>2, FS_Subset
  <2> QED  BY <2>3, FS_CardinalityType
<1>3. Cardinality(Told(Append(q, e))) = Cardinality(Told(q)) + (IF e = "killed" THEN 1 ELSE 0)
  <2>0. \A i \in 1..(Len(q) + 1) : i \in 1..Len(q) \/ i = Len(q) + 1
    BY <1>1
  <2>1. Len(q) + 1 \notin Told(q) /\ 1..Len(q) \subseteq 1..(Len(q) + 1) /\ Len(q) + 1 \in 1..(Len(q) + 1)
    BY <1>1
  <2>2. Told(Append(q, e)) = IF e = "killed" THEN Told(q) \cup {Len(q) + 1} ELSE Told(q)
    BY <1>1, <2>0, <2>1
  <2> HIDE DEF Told
  <2>3. Cardinality(Told(q) \cup {Len(q) + 1}) = Cardinality(Told(q)) + 1
    BY <1>2, <2>1, FS_AddElement
  <2> QED  BY <1>2, <2>2, <2>3
<1>4. ASSUME q # <<>>
      PROVE  /\ Cardinality(Told(Tail(q))) \in Nat
             /\ Cardinality(Told(q)) = Cardinality(Told(Tail(q))) + (IF Head(q) = "killed" THEN 1 ELSE 0)
  <2> DEFINE New == Told(Tail(q))
             Old == Told(q) \ {1}
             f == [i \in Old |-> i - 1]
  <2>1. /\ Len(q) \in Nat \ {0} /\ Head(q) = q[1]
        /\ DOMAIN Tail(q) = 1..(Len(q) - 1)
        /\ \A i \in 1..(Len(q) - 1) : Tail(q)[i] = q[i + 1]
    BY <1>4, Rest
  <2>2. \A i \in Old : i \in 2..Len(q) /\ q[i] = "killed"
    BY <1>1
  <2>3. \A i \in Old : i \in Int /\ i - 1 \in New
    <3> SUFFICES ASSUME NEW i \in Old
                 PROVE  i \in Int /\ i - 1 \in New
      OBVIOUS
    <3>1. i \in Int /\ i - 1 \in 1..(Len(q) - 1) /\ (i - 1) + 1 = i /\ q[i] = "killed"
      BY <2>1, <2>2
    <3> QED  BY <2>1, <3>1
  <2>4. \A j \in New : j + 1 \in Old /\ (j + 1) - 1 = j
    <3> SUFFICES ASSUME NEW j \in New
                 PROVE  j + 1 \in Old /\ (j + 1) - 1 = j
      OBVIOUS
    <3>1. j \in 1..(Len(q) - 1) /\ q[j + 1] = "killed"
      BY <2>1
    <3> QED  BY <1>1, <2>1, <3>1
  <2>5. IsFiniteSet(Old) /\ Cardinality(Old) = IF 1 \in Told(q) THEN Cardinality(Told(q)) - 1 ELSE Cardinality(Told(q))
    BY <1>2, FS_RemoveElement
  <2>6. 1 \in Told(q) <=> Head(q) = "killed"
    BY <1>1, <2>1
  <2> HIDE DEF New, Old
  <2>7. f \in [Old -> New] /\ \A j \in New : \E i \in Old : f[i] = j
    BY <2>3, <2>4
  <2>8. f \in Surjection(Old, New)
    BY <2>7 DEF Surjection
  <2>9. \A i, j \in Old : f[i] = f[j] => i = j
    BY <2>3
  <2>10. f \in Injection(Old, New)
    BY <2>7, <2>9 DEF Injection, IsInjective
  <2> HIDE DEF f
  <2>11. Cardinality(New) = Cardinality(Old)
    BY <2>5, <2>8, <2>10, FS_Surjection
  <2>12. Cardinality(Old) \in Nat
    BY <2>5, FS_CardinalityType
  <2> HIDE DEF Told
  <2> QED  BY <1>2, <2>5, <2>6, <2>11, <2>12 DEF New
<1>5. \A x : G!KillsToTell(x) = Cardinality(Told(x))
  BY DEF G!KillsToTell, G!Cardinality, Cardinality
<1> HIDE DEF Told
<1> QED  BY <1>2, <1>3, <1>4, <1>5

HubInv == HubTyped /\ MailsKnown /\ ~seen.untold /\ ~seen.early /\ G!KillsRecorded /\ LastPolicy

\* What the agent does adds events to its queue, a kill for every kill; when it
\* restarts it has no policy.
LEMMA HubKept ==
    ASSUME HubInv, UNCHANGED <<setting, tasks, mailed, reach, kills>>, seen' \in Seen,
           \/ policy' = policy /\ seen'.forgot = seen.forgot
           \/ policy' = G!Off /\ seen'.forgot,
           seen'.mail = seen.mail, seen'.untold = seen.untold, seen'.early = seen.early,
           \/ outbox' = Append(outbox, "warned") /\ seen'.kills = seen.kills
           \/ outbox' = Append(outbox, "killed") /\ seen'.kills = seen.kills + 1
           \/ outbox' = outbox /\ seen'.kills = seen.kills
    PROVE  HubInv'
<1>1. /\ outbox \in Seq({"warned", "killed"}) /\ kills \in Nat /\ seen.kills \in Nat
      /\ seen.kills <= kills + G!KillsToTell(outbox)
  BY DEF HubInv, HubTyped, G!KillsRecorded, Seen
<1>2. \A e \in {"warned", "killed"} :
         /\ Append(outbox, e) \in Seq({"warned", "killed"}) /\ G!KillsToTell(outbox) \in Nat
         /\ G!KillsToTell(Append(outbox, e)) = G!KillsToTell(outbox) + (IF e = "killed" THEN 1 ELSE 0)
  BY <1>1, Appended, KillsTold
<1>3. /\ Append(outbox, "warned") \in Seq({"warned", "killed"}) /\ Append(outbox, "killed") \in Seq({"warned", "killed"})
      /\ G!KillsToTell(outbox) \in Nat
      /\ G!KillsToTell(Append(outbox, "warned")) = G!KillsToTell(outbox)
      /\ G!KillsToTell(Append(outbox, "killed")) = G!KillsToTell(outbox) + 1
  BY <1>2
<1>4. outbox' \in Seq({"warned", "killed"}) /\ seen'.kills <= kills + G!KillsToTell(outbox')
  <2>1. CASE outbox' = Append(outbox, "warned") /\ seen'.kills = seen.kills
    BY <1>1, <1>3, <2>1
  <2>2. CASE outbox' = Append(outbox, "killed") /\ seen'.kills = seen.kills + 1
    BY <1>1, <1>3, <2>2
  <2>3. CASE outbox' = outbox /\ seen'.kills = seen.kills
    BY <1>1, <2>3
  <2> QED  BY <2>1, <2>2, <2>3
<1>5. G!KillsRecorded'
  BY <1>4 DEF G!KillsRecorded, G!KillsToTell
<1>6. HubTyped' /\ MailsKnown' /\ LastPolicy' /\ ~seen'.untold /\ ~seen'.early
  BY <1>4, PoliciesAre DEF HubInv, HubTyped, MailsKnown, LastPolicy
<1> QED  BY <1>5, <1>6 DEF HubInv

\* A new policy is pushed, or put in force.
LEMMA PolicyMoves ==
    ASSUME HubInv, G!UpdatePolicy \/ \E new \in G!Policies \ {setting} : G!SaveGpuPolicy(new)
    PROVE  HubInv' /\ UNCHANGED <<now, births, proc, state, loop>> /\ seen'.idle = seen.idle /\ seen'.warn = seen.warn
           /\ seen'.unfair = seen.unfair /\ seen'.wrong = seen.wrong
<1>1. /\ setting \in G!Policies /\ policy \in G!Policies /\ tasks \in Seq(G!Policies) /\ seen \in Seen
  BY DEF HubInv, HubTyped
<1>2. CASE G!UpdatePolicy
  <2>1. /\ tasks # <<>> /\ policy' = Head(tasks) /\ tasks' = Tail(tasks)
        /\ UNCHANGED <<now, births, proc, setting, state, loop, outbox, mailed, reach, kills>>
        /\ seen' = [seen EXCEPT !.forgot = FALSE]
    BY <1>2 DEF G!UpdatePolicy, G!host, G!hub
  <2>2. /\ seen' \in Seen /\ seen'.idle = seen.idle /\ seen'.warn = seen.warn
        /\ seen'.unfair = seen.unfair /\ seen'.wrong = seen.wrong /\ seen'.mail = seen.mail
        /\ seen'.untold = seen.untold /\ seen'.early = seen.early /\ seen'.kills = seen.kills
    BY <1>1, <2>1 DEF Seen
  <2>3. /\ Len(tasks) \in Nat \ {0} /\ Head(tasks) = tasks[1] /\ tasks[1] \in G!Policies
        /\ Tail(tasks) \in Seq(G!Policies) /\ DOMAIN Tail(tasks) = 1..(Len(tasks) - 1)
        /\ \A i \in 1..(Len(tasks) - 1) : Tail(tasks)[i] = tasks[i + 1]
        /\ Len(Tail(tasks)) = Len(tasks) - 1
    BY <1>1, <2>1, Rest, HeadTailProperties
  <2>4. LastPolicy'
    <3>1. tasks[Len(tasks)] = setting
      BY <2>1 DEF HubInv, LastPolicy
    <3>2. CASE Len(tasks) = 1
      BY <2>1, <2>3, <3>1, <3>2, EmptySeq DEF LastPolicy
    <3>3. CASE Len(tasks) # 1
      <4>1. Len(tasks) - 1 \in 1..(Len(tasks) - 1) /\ (Len(tasks) - 1) + 1 = Len(tasks)
        BY <2>3, <3>3
      <4>2. Tail(tasks)[Len(Tail(tasks))] = setting
        BY <2>3, <3>1, <4>1
      <4>3. Tail(tasks) # <<>>
        <5>1. Len(Tail(tasks)) # 0
          BY <2>3, <3>3
        <5>2. Len(<<>>) = 0
          BY EmptySeq
        <5> QED  BY <5>1, <5>2, Zenon
      <4> QED  BY <2>1, <4>2, <4>3 DEF LastPolicy
    <3> QED  BY <3>2, <3>3
  <2>5. HubTyped'
    BY <1>1, <2>1, <2>2, <2>3 DEF HubInv, HubTyped
  <2>6. MailsKnown' /\ G!KillsRecorded' /\ ~seen'.untold /\ ~seen'.early
    BY <2>1, <2>2 DEF HubInv, MailsKnown, G!KillsRecorded, G!KillsToTell
  <2> QED  BY <2>1, <2>2, <2>4, <2>5, <2>6 DEF HubInv
<1>3. ASSUME NEW new \in G!Policies \ {setting}, G!SaveGpuPolicy(new)
      PROVE  HubInv' /\ UNCHANGED <<now, births, proc, state, loop, seen>>
  <2>1. /\ setting' = new /\ tasks' = Append(tasks, new)
        /\ UNCHANGED <<now, births, proc, policy, state, loop, outbox, mailed, reach, kills, seen>>
    BY <1>3 DEF G!SaveGpuPolicy, G!BroadcastGpuPolicy, G!host, G!hub, G!agent
  <2>2. /\ Append(tasks, new) \in Seq(G!Policies) /\ Len(Append(tasks, new)) = Len(tasks) + 1
        /\ Append(tasks, new)[Len(tasks) + 1] = new /\ Len(tasks) \in Nat
    BY <1>1, AppendProperties, LenProperties
  <2>3. Append(tasks, new) # <<>>
    BY <2>2, EmptySeq
  <2>4. LastPolicy'
    BY <2>1, <2>2, <2>3 DEF LastPolicy
  <2>5. HubTyped'
    BY <1>1, <2>1, <2>2 DEF HubInv, HubTyped
  <2>6. MailsKnown' /\ G!KillsRecorded' /\ ~seen'.untold /\ ~seen'.early
    BY <2>1 DEF HubInv, MailsKnown, G!KillsRecorded, G!KillsToTell
  <2> QED  BY <2>1, <2>4, <2>5, <2>6 DEF HubInv
<1> QED  BY <1>2, <1>3

\* The hub handles an event, which may come again: it is recorded, and mailed unless
\* one of its kind was within the window.
LEMMA EventHandled ==
    ASSUME HubInv, now \in Times, NEW again \in BOOLEAN, G!HandleEvent(again)
    PROVE  HubInv' /\ UNCHANGED <<now, births, proc, state, loop>> /\ seen'.idle = seen.idle /\ seen'.warn = seen.warn
           /\ seen'.unfair = seen.unfair /\ seen'.wrong = seen.wrong
<1>1. /\ outbox \in Seq({"warned", "killed"}) /\ kills \in Nat /\ seen \in Seen /\ seen.kills \in Nat
      /\ mailed \in [{"warned", "killed"} -> Times \cup {None}] /\ seen.mail = mailed
      /\ seen.untold = FALSE /\ seen.early = FALSE /\ seen.kills <= kills + G!KillsToTell(outbox)
  BY DEF HubInv, HubTyped, MailsKnown, G!KillsRecorded, Seen
<1>2. PICK s \in {"warned", "killed"} :
         /\ outbox # <<>> /\ s = Head(outbox)
         /\ outbox' = outbox \/ outbox' = Tail(outbox)
         /\ kills' = kills + (IF s = "killed" THEN 1 ELSE 0)
         /\ LET send == reach /\ ~G!Throttled(s) IN
            /\ mailed' = IF send THEN [mailed EXCEPT ![s] = now] ELSE mailed
            /\ seen' = [seen EXCEPT !.mail[s] = IF send THEN now ELSE @,
                                    !.early = @ \/ (send /\ G!Recently(s)),
                                    !.untold = @ \/ (reach /\ ~send /\ ~G!Recently(s))]
         /\ UNCHANGED <<now, births, proc, setting, tasks, policy, state, loop, reach>>
  <2>1. outbox # <<>> /\ Head(outbox) \in {"warned", "killed"}
    BY <1>1, Rest DEF G!HandleEvent
  <2> QED  BY <2>1 DEF G!HandleEvent, G!Record, G!host, G!agent
<1>3. G!Throttled(s) <=> G!Recently(s)
  BY <1>1 DEF G!Throttled, G!Recently
<1>4. PICK m \in [{"warned", "killed"} -> Times \cup {None}] :
         mailed' = m /\ seen' = [seen EXCEPT !.mail = m, !.early = FALSE, !.untold = FALSE]
  <2> DEFINE send == reach /\ ~G!Throttled(s)
             m == IF send THEN [mailed EXCEPT ![s] = now] ELSE mailed
             a == seen.early \/ (send /\ G!Recently(s))
             b == seen.untold \/ (reach /\ ~send /\ ~G!Recently(s))
             k == [seen.mail EXCEPT ![s] = IF send THEN now ELSE seen.mail[s]]
  <2>1. a = FALSE /\ b = FALSE
    BY <1>1, <1>3
  <2>2. m \in [{"warned", "killed"} -> Times \cup {None}]
    BY <1>1
  <2>3. k = m
    <3>1. CASE send
      BY <1>1, <3>1
    <3>2. CASE ~send
      BY <1>1, <3>2
    <3> QED  BY <3>1, <3>2
  <2>4. mailed' = m /\ seen' = [seen EXCEPT !.mail = k, !.early = a, !.untold = b]
    BY <1>2
  <2> HIDE DEF a, b, k, m
  <2> QED  BY <2>1, <2>2, <2>3, <2>4
<1>5. seen' \in Seen
  BY <1>1, <1>4 DEF Seen
<1>6. /\ seen'.mail = m /\ seen'.early = FALSE /\ seen'.untold = FALSE
      /\ seen'.idle = seen.idle /\ seen'.warn = seen.warn /\ seen'.unfair = seen.unfair
      /\ seen'.wrong = seen.wrong /\ seen'.kills = seen.kills /\ seen'.forgot = seen.forgot
  BY <1>1, <1>4 DEF Seen
<1>7. outbox' \in Seq({"warned", "killed"}) /\ kills' \in Nat /\ seen'.kills <= kills' + G!KillsToTell(outbox')
  <2>1. /\ Tail(outbox) \in Seq({"warned", "killed"}) /\ G!KillsToTell(Tail(outbox)) \in Nat
        /\ G!KillsToTell(outbox) \in Nat
        /\ G!KillsToTell(outbox) = G!KillsToTell(Tail(outbox)) + (IF s = "killed" THEN 1 ELSE 0)
    BY <1>1, <1>2, KillsTold, Rest
  <2>2. CASE outbox' = outbox
    BY <1>1, <1>2, <1>6, <2>1, <2>2
  <2>3. CASE outbox' = Tail(outbox)
    BY <1>1, <1>2, <1>6, <2>1, <2>3
  <2> QED  BY <1>2, <2>2, <2>3
<1>8. G!KillsRecorded'
  BY <1>7 DEF G!KillsRecorded, G!KillsToTell
<1>9. HubTyped' /\ MailsKnown' /\ LastPolicy'
  BY <1>2, <1>4, <1>5, <1>6, <1>7 DEF HubInv, HubTyped, MailsKnown, LastPolicy
<1> QED  BY <1>2, <1>6, <1>8, <1>9 DEF HubInv

\* The controller restarts, admins delete events, the student leaves, time passes.
LEMMA HubMoves ==
    ASSUME HubInv, G!ControllerRestarts \/ G!ClearGpuEvents \/ G!DeleteGpuEvent \/ G!ReachEnds \/ G!Pass
    PROVE  HubInv' /\ UNCHANGED <<births, proc, state, loop>> /\ seen'.idle = seen.idle /\ seen'.warn = seen.warn
           /\ seen'.unfair = seen.unfair /\ seen'.wrong = seen.wrong
           /\ (now' = now \/ (now < MaxGpuTime /\ now' = now + 1))
<1>1. /\ kills \in Nat /\ seen \in Seen /\ seen.kills \in Nat
      /\ seen.kills <= kills + G!KillsToTell(outbox) /\ outbox \in Seq({"warned", "killed"})
  BY DEF HubInv, HubTyped, G!KillsRecorded, Seen
<1>2. G!KillsToTell(outbox) \in Nat
  <2>1. "warned" \in {"warned", "killed"}
    OBVIOUS
  <2> QED  BY <1>1, <2>1, KillsTold
<1>3. CASE G!ReachEnds \/ G!Pass
  <2>1. /\ UNCHANGED <<births, proc, state, loop, setting, tasks, policy, outbox, mailed, kills, seen>>
        /\ reach' \in {reach, FALSE} /\ (now' = now \/ (now < MaxGpuTime /\ now' = now + 1))
    BY <1>3 DEF G!ReachEnds, G!Pass, G!host, G!agent, G!hub
  <2>2. HubTyped' /\ MailsKnown' /\ LastPolicy' /\ G!KillsRecorded'
    BY <2>1 DEF HubInv, HubTyped, MailsKnown, LastPolicy, G!KillsRecorded, G!KillsToTell
  <2> QED  BY <2>1, <2>2 DEF HubInv
<1>4. CASE G!ControllerRestarts
  <2>1. /\ UNCHANGED <<now, births, proc, state, loop, setting, tasks, policy, outbox, reach, kills>>
        /\ mailed' = [s \in {"warned", "killed"} |-> None] /\ seen' = [seen EXCEPT !.mail = mailed']
    BY <1>4 DEF G!ControllerRestarts, G!States, G!host, G!agent
  <2>2. mailed' \in [{"warned", "killed"} -> Times \cup {None}]
    BY <2>1
  <2>3. seen' \in Seen
    BY <1>1, <2>1, <2>2 DEF Seen
  <2>4. /\ seen'.mail = mailed' /\ seen'.early = seen.early /\ seen'.untold = seen.untold
        /\ seen'.idle = seen.idle /\ seen'.warn = seen.warn /\ seen'.unfair = seen.unfair
        /\ seen'.wrong = seen.wrong /\ seen'.kills = seen.kills /\ seen'.forgot = seen.forgot
    BY <1>1, <2>1 DEF Seen
  <2>5. HubTyped' /\ MailsKnown' /\ LastPolicy' /\ G!KillsRecorded'
    BY <2>1, <2>2, <2>3, <2>4 DEF HubInv, HubTyped, MailsKnown, LastPolicy, G!KillsRecorded, G!KillsToTell
  <2> QED  BY <2>1, <2>4, <2>5 DEF HubInv
<1>5. CASE G!ClearGpuEvents \/ G!DeleteGpuEvent
  <2>1. /\ UNCHANGED <<now, births, proc, state, loop, setting, tasks, policy, outbox, mailed, reach>>
        /\ kills > 0
    BY <1>5 DEF G!ClearGpuEvents, G!DeleteGpuEvent, G!host, G!agent
  <2>2. PICK k \in Nat :
           /\ seen' = [seen EXCEPT !.kills = k] /\ kills' \in Nat
           /\ k <= kills' + G!KillsToTell(outbox)
    <3>1. CASE G!ClearGpuEvents
      <4> DEFINE k == IF seen.kills > kills THEN seen.kills - kills ELSE 0
      <4>1. kills' = 0 /\ seen' = [seen EXCEPT !.kills = k]
        BY <3>1 DEF G!ClearGpuEvents
      <4>2. k \in Nat /\ k <= 0 + G!KillsToTell(outbox)
        BY <1>1, <1>2
      <4> QED  BY <4>1, <4>2
    <3>2. CASE G!DeleteGpuEvent
      <4> DEFINE k == IF seen.kills > 0 THEN seen.kills - 1 ELSE 0
      <4>1. kills' = kills - 1 /\ kills > 0 /\ seen' = [seen EXCEPT !.kills = k]
        BY <3>2 DEF G!DeleteGpuEvent
      <4>2. k \in Nat /\ kills' \in Nat /\ k <= kills' + G!KillsToTell(outbox)
        BY <1>1, <1>2, <4>1
      <4> QED  BY <4>1, <4>2
    <3> QED  BY <1>5, <3>1, <3>2
  <2>3. seen' \in Seen
    BY <1>1, <2>2 DEF Seen
  <2>4. /\ seen'.mail = seen.mail /\ seen'.early = seen.early /\ seen'.untold = seen.untold
        /\ seen'.idle = seen.idle /\ seen'.warn = seen.warn /\ seen'.unfair = seen.unfair
        /\ seen'.wrong = seen.wrong /\ seen'.kills = k /\ seen'.forgot = seen.forgot
    BY <1>1, <2>2 DEF Seen
  <2>5. HubTyped' /\ MailsKnown' /\ LastPolicy'
    BY <2>1, <2>2, <2>3, <2>4 DEF HubInv, HubTyped, MailsKnown, LastPolicy
  <2>6. G!KillsRecorded'
    BY <2>1, <2>2, <2>4 DEF G!KillsRecorded, G!KillsToTell
  <2> QED  BY <2>1, <2>4, <2>5, <2>6 DEF HubInv
<1> QED  BY <1>3, <1>4, <1>5

\* A step of the governor keeps what it knows.
LEMMA GpuStep ==
    ASSUME GpuInv, G!Next
    PROVE  GpuInv'
<1>1. /\ HostFair /\ HubInv /\ ~seen.unfair /\ ~seen.wrong /\ seen \in Seen /\ now \in Times /\ now \in Nat
      /\ policy \in Rules
  BY NoneOther, PoliciesAre DEF GpuInv, HostFair, HubInv, HubTyped, HostTyped
<1>2. SUFFICES HostFair' /\ HubInv' /\ ~seen'.unfair /\ ~seen'.wrong
  BY DEF GpuInv, HostFair, HubInv
<1>3. ASSUME NEW p \in Pids, G!Exit(p) \/ G!Work(p) \/ \E m \in BOOLEAN : G!Start(p, m)
      PROVE  HostFair' /\ HubInv' /\ ~seen'.unfair /\ ~seen'.wrong
  <2>1. UNCHANGED <<setting, tasks, policy, outbox, mailed, reach, kills, seen>>
    BY <1>3 DEF G!Exit, G!Work, G!Start, G!agent, G!hub
  <2>2. HubInv'
    BY <1>1, <2>1, HubKept
  <2>3. HostFair'
    BY <1>1, <1>3, ProcessMoves, ProcessStarts
  <2> QED  BY <1>1, <2>1, <2>2, <2>3
<1>4. CASE G!ListGpuProcesses \/ G!Sleep \/ G!AgentRestarts
  <2>1. /\ UNCHANGED <<setting, tasks, outbox, mailed, reach, kills>>
        /\ \/ policy' = policy /\ seen' = seen
           \/ policy' = G!Off /\ seen' = [seen EXCEPT !.forgot = TRUE]
    BY <1>4 DEF G!ListGpuProcesses, G!Sleep, G!AgentRestarts, G!hub
  <2>2. /\ seen' \in Seen /\ seen'.mail = seen.mail /\ seen'.untold = seen.untold /\ seen'.early = seen.early
        /\ seen'.kills = seen.kills /\ seen'.unfair = seen.unfair /\ seen'.wrong = seen.wrong
        /\ \/ policy' = policy /\ seen'.forgot = seen.forgot
           \/ policy' = G!Off /\ seen'.forgot
    BY <1>1, <2>1 DEF Seen
  <2>3. HubInv'
    BY <1>1, <2>1, <2>2, HubKept
  <2>4. HostFair'
    BY <1>1, <1>4, LoopMoves
  <2> QED  BY <1>1, <2>2, <2>3, <2>4
<1>5. CASE G!Evaluate
  <2>1. UNCHANGED <<setting, tasks, policy, outbox, mailed, reach, kills>>
    BY <1>5 DEF G!Evaluate, G!hub
  <2>2. HostFair' /\ seen' \in Seen /\ seen'.unfair = seen.unfair /\ seen'.wrong = seen.wrong
    BY <1>1, <1>5, LookIsFair
  <2>3. /\ seen'.mail = seen.mail /\ seen'.untold = seen.untold /\ seen'.early = seen.early
        /\ seen'.kills = seen.kills /\ seen'.forgot = seen.forgot
    BY <1>1, <1>5, Evaluated
  <2>4. HubInv'
    BY <1>1, <2>1, <2>2, <2>3, HubKept
  <2> QED  BY <1>1, <2>2, <2>4
<1>6. ASSUME loop.at = "acting", NEW d \in loop.todo, G!Act(d)
      PROVE  HostFair' /\ HubInv' /\ ~seen'.unfair /\ ~seen'.wrong
  <2>1. UNCHANGED <<setting, tasks, policy, mailed, reach, kills>>
    BY <1>6 DEF G!Act, G!hub
  <2>2. /\ HostFair' /\ seen' \in Seen /\ ~seen'.unfair /\ ~seen'.wrong
        /\ seen'.mail = seen.mail /\ seen'.untold = seen.untold /\ seen'.early = seen.early
        /\ seen'.forgot = seen.forgot
        /\ \/ outbox' = Append(outbox, "warned") /\ seen'.kills = seen.kills
           \/ outbox' = Append(outbox, "killed") /\ seen'.kills = seen.kills + 1
           \/ outbox' = outbox /\ seen'.kills = seen.kills
    BY <1>1, <1>6, DecisionIsFair
  <2>3. HubInv'
    BY <1>1, <2>1, <2>2, HubKept
  <2> QED  BY <2>2, <2>3
<1>7. CASE G!UpdatePolicy \/ \E new \in G!Policies \ {setting} : G!SaveGpuPolicy(new)
  <2>1. HubInv' /\ UNCHANGED <<now, births, proc, state, loop>> /\ seen'.idle = seen.idle /\ seen'.warn = seen.warn
        /\ seen'.unfair = seen.unfair /\ seen'.wrong = seen.wrong
    BY <1>1, <1>7, PolicyMoves
  <2>2. HostFair'
    BY <1>1, <2>1, HostSame
  <2> QED  BY <1>1, <2>1, <2>2
<1>8. ASSUME NEW again \in BOOLEAN, G!HandleEvent(again)
      PROVE  HostFair' /\ HubInv' /\ ~seen'.unfair /\ ~seen'.wrong
  <2>1. HubInv' /\ UNCHANGED <<now, births, proc, state, loop>> /\ seen'.idle = seen.idle /\ seen'.warn = seen.warn
        /\ seen'.unfair = seen.unfair /\ seen'.wrong = seen.wrong
    BY <1>1, <1>8, EventHandled
  <2>2. HostFair'
    BY <1>1, <2>1, HostSame
  <2> QED  BY <1>1, <2>1, <2>2
<1>9. CASE G!ControllerRestarts \/ G!ClearGpuEvents \/ G!DeleteGpuEvent \/ G!ReachEnds \/ G!Pass
  <2>1. /\ HubInv' /\ UNCHANGED <<births, proc, state, loop>> /\ seen'.idle = seen.idle /\ seen'.warn = seen.warn
        /\ seen'.unfair = seen.unfair /\ seen'.wrong = seen.wrong
        /\ (now' = now \/ (now < MaxGpuTime /\ now' = now + 1))
    BY <1>1, <1>9, HubMoves
  <2>2. now' \in Times /\ now' \in {now, now + 1}
    BY <1>1, <2>1, NoneOther DEF Times
  <2>3. HostFair'
    BY <1>1, <2>1, <2>2, HostSame
  <2> QED  BY <1>1, <2>1, <2>3
<1> QED  BY <1>3, <1>4, <1>5, <1>6, <1>7, <1>8, <1>9 DEF G!Next

\* No process has started, and no policy has been given.
LEMMA GpuBegins ==
    ASSUME G!Init
    PROVE  GpuInv
<1>1. /\ now = 1 /\ proc = [p \in Pids |-> None] /\ births = 0
      /\ setting = G!Off /\ tasks = <<>> /\ policy = G!Off
      /\ state = [p \in Pids |-> None] /\ loop = G!Waiting /\ outbox = <<>>
      /\ mailed = [s \in {"warned", "killed"} |-> None] /\ reach = TRUE /\ kills = 0
      /\ seen = G!Unseen
  BY DEF G!Init, G!States
<1>2. /\ seen \in Seen /\ seen.idle = [i \in 1..MaxBirths |-> None] /\ seen.mail = mailed
      /\ ~seen.unfair /\ ~seen.wrong /\ ~seen.untold /\ ~seen.early /\ seen.kills = 0
  BY <1>1 DEF G!Unseen, G!States, Seen
<1>3. loop.at = "waiting"
  BY <1>1 DEF G!Waiting
<1>4. HostTyped
  BY <1>1, <1>2, NoneOther DEF HostTyped
<1>5. LoopTyped /\ ListingTrue /\ DecisionsFair
  BY <1>3 DEF LoopTyped, ListingTrue, DecisionsFair
<1>6. Identified
  BY <1>1 DEF Identified
<1>7. <<>> \in Seq(G!Policies) /\ outbox \in Seq({"warned", "killed"})
  BY <1>1, EmptySeq
<1>8. HubTyped
  BY <1>1, <1>2, <1>7, PoliciesAre DEF HubTyped
<1>9. G!KillsRecorded
  <2>1. "killed" \in {"warned", "killed"}
    OBVIOUS
  <2>2. G!KillsToTell(outbox) \in Nat
    BY <1>7, <2>1, KillsTold
  <2> QED  BY <1>1, <1>2, <2>2 DEF G!KillsRecorded
<1>10. MailsKnown /\ LastPolicy
  BY <1>1, <1>2 DEF MailsKnown, LastPolicy
<1> QED  BY <1>2, <1>4, <1>5, <1>6, <1>8, <1>9, <1>10 DEF GpuInv

\* What the invariant says of the governor.
LEMMA GpuHolds ==
    ASSUME GpuInv
    PROVE  /\ G!TypeOK /\ G!WarnedBeforeKilled /\ G!KillsWhatItSaw
           /\ G!StudentTold /\ G!KillsRecorded /\ G!PolicyInForce
<1>1. G!WarnedBeforeKilled /\ G!KillsWhatItSaw /\ G!StudentTold /\ G!KillsRecorded
  BY DEF GpuInv, G!WarnedBeforeKilled, G!KillsWhatItSaw, G!StudentTold
<1>2. G!PolicyInForce
  BY DEF GpuInv, LastPolicy, G!PolicyInForce
<1>3. G!TypeOK
  <2>1. now \in 1..MaxGpuTime /\ births \in 0..MaxBirths
    BY DEF GpuInv, HostTyped, Times
  <2>2. ASSUME NEW p \in Pids
        PROVE  /\ proc[p] = None \/ proc[p].id \in 1..births
               /\ state[p] = None \/ (state[p].since \in 1..now /\ state[p].warned \in (1..now) \cup {None})
    <3>1. proc[p] # None => proc[p] \in Procs /\ proc[p].id <= births
      BY DEF GpuInv, HostTyped
    <3>2. proc[p] # None => proc[p].id \in 1..births
      BY <2>1, <3>1, NoneOther DEF Procs
    <3>3. state[p] # None => /\ state[p] \in Tracks /\ state[p].since <= now
                             /\ (state[p].warned # None => state[p].warned <= now)
      BY DEF GpuInv, HostTyped
    <3>4. state[p] # None => state[p].since \in Times /\ state[p].warned \in Times \cup {None}
      BY <3>3 DEF Tracks
    <3>5. \A t \in Times : t <= now => t \in 1..now
      BY <2>1, NoneOther DEF Times
    <3> QED  BY <3>2, <3>3, <3>4, <3>5
  <2>3. {setting, policy} \subseteq G!Policies /\ tasks \in Seq(G!Policies)
        /\ outbox \in Seq(G!States) /\ kills \in Nat /\ reach \in BOOLEAN
    BY DEF GpuInv, HubTyped, G!States
  <2>4. loop.at \in {"waiting", "listed", "acting"}
    BY DEF GpuInv, LoopTyped
  <2> QED  BY <2>1, <2>2, <2>3, <2>4 DEF G!TypeOK
<1> QED  BY <1>1, <1>2, <1>3

\* The idle-GPU governor is fair: a process is killed only after it was itself found
\* idle, warned, and found idle for the grace period, and the one that is killed is
\* the one looked at; students hear of every kind of event and not twice in a window;
\* every kill is recorded; an agent with no policy on its way has the one in the
\* settings unless it restarted.
THEOREM GpuIsGoverned == Spec => []GpuGoverned
<1> DEFINE I == part = "gpu" => GpuInv
<1>1. Init => I
  BY GpuBegins DEF Init
<1>2. I /\ [Next]_vars => I'
  <2> SUFFICES ASSUME I, [Next]_vars, part' = "gpu"
               PROVE  GpuInv'
    OBVIOUS
  <2>1. CASE part = "gpu" /\ G!Next
    BY <2>1, GpuStep
  <2>2. CASE part = "gpu" /\ UNCHANGED <<now, gpuVars>>
    <3>1. GpuInv
      BY <2>2
    <3>2. /\ proc' = proc /\ births' = births /\ setting' = setting /\ tasks' = tasks /\ policy' = policy
          /\ state' = state /\ loop' = loop /\ outbox' = outbox /\ mailed' = mailed /\ reach' = reach
          /\ kills' = kills /\ saves' = saves /\ faults' = faults /\ seen' = seen /\ now' = now
      BY <2>2 DEF gpuVars
    <3>3. HostTyped' /\ LoopTyped' /\ HubTyped'
      BY <3>1, <3>2 DEF GpuInv, HostTyped, LoopTyped, HubTyped
    <3>4. Identified' /\ ListingTrue' /\ DecisionsFair'
      BY <3>1, <3>2 DEF GpuInv, Identified, Noted, ListingTrue, DecisionsFair, G!Announced
    <3>5. MailsKnown' /\ LastPolicy' /\ G!KillsRecorded'
      BY <3>1, <3>2 DEF GpuInv, MailsKnown, LastPolicy, G!KillsRecorded, G!KillsToTell
    <3> QED  BY <3>1, <3>2, <3>3, <3>4, <3>5 DEF GpuInv
  <2> QED  BY <2>1, <2>2 DEF Next, vars
<1>3. I => GpuGoverned
  BY GpuHolds DEF GpuGoverned
<1> QED  BY <1>1, <1>2, <1>3, PTL DEF Spec
-----------------------------------------------------------------------------
(***************************************************************************)
(* The lowest free UID, the k-th lowest, the first row of a file: finite   *)
(* sets of numbers and the rank of a number in them.                       *)
(***************************************************************************)

\* The numbers of a set that are not above x.
UpTo(F, x) == {y \in F : y <= x}

\* A number has a rank, and no two have the same.
LEMMA RankIs ==
    ASSUME NEW F, F \subseteq Nat, IsFiniteSet(F), NEW x \in F
    PROVE  /\ Cardinality(UpTo(F, x)) \in 1..Cardinality(F) /\ Cardinality(F) \in Nat
           /\ \A z \in F : Cardinality(UpTo(F, z)) = Cardinality(UpTo(F, x)) => z = x
<1>1. \A z \in F : /\ UpTo(F, z) \in SUBSET F /\ z \in UpTo(F, z)
                   /\ IsFiniteSet(UpTo(F, z)) /\ Cardinality(UpTo(F, z)) \in Nat
                   /\ Cardinality(UpTo(F, z)) <= Cardinality(F)
  <2> SUFFICES ASSUME NEW z \in F
               PROVE  /\ UpTo(F, z) \in SUBSET F /\ z \in UpTo(F, z)
                      /\ IsFiniteSet(UpTo(F, z)) /\ Cardinality(UpTo(F, z)) \in Nat
                      /\ Cardinality(UpTo(F, z)) <= Cardinality(F)
    OBVIOUS
  <2>1. UpTo(F, z) \in SUBSET F /\ z \in UpTo(F, z)
    BY DEF UpTo
  <2>2. IsFiniteSet(UpTo(F, z)) /\ Cardinality(UpTo(F, z)) <= Cardinality(F)
    BY <2>1, FS_Subset
  <2> QED  BY <2>1, <2>2, FS_CardinalityType
<1>2. Cardinality(F) \in Nat
  BY FS_CardinalityType
<1>3. Cardinality(UpTo(F, x)) # 0
  <2>1. UpTo(F, x) # {}
    BY <1>1
  <2> QED  BY <1>1, <2>1, FS_EmptySet
<1>4. ASSUME NEW a \in F, NEW b \in F, a < b
      PROVE  Cardinality(UpTo(F, a)) # Cardinality(UpTo(F, b))
  <2>1. UpTo(F, a) \in SUBSET UpTo(F, b) /\ b \notin UpTo(F, a)
    <3>1. a \in Nat /\ b \in Nat /\ ~(b <= a) /\ \A y \in F : y \in Nat /\ (y <= a => y <= b)
      BY <1>4
    <3> QED  BY <3>1 DEF UpTo
  <2>2. UpTo(F, a) # UpTo(F, b) /\ IsFiniteSet(UpTo(F, b))
    BY <1>1, <2>1
  <2> QED  BY <2>1, <2>2, FS_Subset
<1>5. \A z \in F : z # x => z < x \/ x < z
  OBVIOUS
<1> QED  BY <1>1, <1>2, <1>3, <1>4, <1>5

\* Every rank is some number's.
LEMMA RankTaken ==
    ASSUME NEW F, F \subseteq Nat, IsFiniteSet(F), NEW k \in 1..Cardinality(F)
    PROVE  \E x \in F : Cardinality(UpTo(F, x)) = k
<1> DEFINE n == Cardinality(F)
           rank == [x \in F |-> Cardinality(UpTo(F, x))]
<1>1. n \in Nat
  BY FS_CardinalityType
<1>2. \A x \in F : rank[x] = Cardinality(UpTo(F, x)) /\ rank[x] \in 1..n /\ \A z \in F : rank[z] = rank[x] => z = x
  BY RankIs
<1>3. rank \in [F -> 1..n]
  BY <1>2
<1>4. IsFiniteSet(1..n) /\ Cardinality(1..n) = n
  <2>1. n \in Int /\ 1 \in Int
    BY <1>1
  <2>2. IsFiniteSet(1..n) /\ Cardinality(1..n) = IF 1 > n THEN 0 ELSE n - 1 + 1
    BY <2>1, FS_Interval
  <2> HIDE DEF n
  <2> QED  BY <1>1, <2>2
<1> HIDE DEF rank
<1>5. rank \in Injection(F, 1..n)
  BY <1>2, <1>3 DEF Injection, IsInjective
<1>6. rank \in Surjection(F, 1..n)
  BY <1>4, <1>5, FS_Injection
<1>7. \E x \in F : rank[x] = k
  BY <1>6 DEF Surjection
<1> QED  BY <1>2, <1>7

\* A set of numbers that is not empty has a least one.
LEMMA LeastIs ==
    ASSUME NEW F, F \subseteq Nat, IsFiniteSet(F), F # {}
    PROVE  \E x \in F : \A y \in F : x <= y
<1>1. Cardinality(F) \in Nat /\ Cardinality(F) # 0
  BY FS_CardinalityType, FS_EmptySet
<1>2. 1 \in 1..Cardinality(F)
  BY <1>1
<1>3. PICK x \in F : Cardinality(UpTo(F, x)) = 1
  BY <1>2, RankTaken
<1>4. \A y \in F : ~(y < x)
  <2> SUFFICES ASSUME NEW y \in F, y < x
               PROVE  FALSE
    OBVIOUS
  <2>0. y \in Nat /\ x \in Nat /\ y # x /\ \A z \in F : z \in Nat /\ (z <= y => z <= x)
    OBVIOUS
  <2>1. Cardinality(UpTo(F, y)) \in 1..Cardinality(F) /\ Cardinality(UpTo(F, y)) # 1
    <3>1. Cardinality(UpTo(F, y)) \in 1..Cardinality(F)
      BY RankIs
    <3>2. \A z \in F : Cardinality(UpTo(F, z)) = Cardinality(UpTo(F, x)) => z = x
      BY RankIs
    <3> QED  BY <1>3, <2>0, <3>1, <3>2
  <2>2. UpTo(F, y) \in SUBSET UpTo(F, x) /\ UpTo(F, x) \in SUBSET F
    BY <2>0 DEF UpTo
  <2>3. Cardinality(UpTo(F, y)) <= Cardinality(UpTo(F, x))
    <3>1. IsFiniteSet(UpTo(F, x))
      BY <2>2, FS_Subset
    <3> QED  BY <2>2, <3>1, FS_Subset
  <2> QED  BY <1>1, <1>3, <2>1, <2>3
<1> QED  BY <1>4

-----------------------------------------------------------------------------
(***************************************************************************)
(* People.                                                                 *)
(***************************************************************************)
StudentRows == [sid : RosterSids \cup {None}, mail : RosterMails \cup {None}, uid : 0..LastUid]

\* Records: UIDs and university ids are unique, and who has no record has no id.
PeopleFine(s) ==
    /\ s \in [RosterUsers -> StudentRows]
    /\ \A u, v \in RosterUsers : u # v => /\ s[u].uid # 0 => s[u].uid # s[v].uid
                                          /\ s[u].sid # None => s[u].sid # s[v].sid
    /\ \A u \in RosterUsers : s[u].uid = 0 => s[u].sid = None

\* Who has a record keeps the UID, and the university id once there is one.
Keeps(s, t) ==
    \A u \in RosterUsers : s[u].uid # 0 =>
       t[u].uid = s[u].uid /\ (s[u].sid # None => t[u].sid = s[u].sid)

\* A free UID is a number and nobody's.
LEMMA FreeAre ==
    /\ R!FreeUids \subseteq 1..LastUid /\ R!FreeUids \subseteq Nat /\ 1..LastUid \subseteq 0..LastUid
    /\ IsFiniteSet(R!FreeUids) /\ Cardinality(R!FreeUids) \in Nat
    /\ \A u \in RosterUsers : students[u].uid \notin R!FreeUids
<1> USE RosterAssumption
<1>1. R!FreeUids \in SUBSET (1..LastUid) /\ \A u \in RosterUsers : students[u].uid \notin R!FreeUids
  BY DEF R!FreeUids
<1>2. IsFiniteSet(1..LastUid)
  <2>1. 1 \in Int /\ LastUid \in Int
    OBVIOUS
  <2> QED  BY <2>1, FS_Interval
<1>3. IsFiniteSet(R!FreeUids)
  BY <1>1, <1>2, FS_Subset
<1>4. 1..LastUid \subseteq 0..LastUid
  OBVIOUS
<1> QED  BY <1>1, <1>3, <1>4, FS_CardinalityType

\* The k-th free UID is there as long as k are free.
LEMMA NthFreeIs ==
    ASSUME NEW k \in 1..Cardinality(R!FreeUids)
    PROVE  /\ R!NthFree(k) \in R!FreeUids /\ Cardinality(UpTo(R!FreeUids, R!NthFree(k))) = k
           /\ R!NthFree(k) \in 1..LastUid /\ \A u \in RosterUsers : students[u].uid # R!NthFree(k)
<1>1. \E x \in R!FreeUids : Cardinality(UpTo(R!FreeUids, x)) = k
  BY FreeAre, RankTaken
<1>2. R!NthFree(k) = CHOOSE x \in R!FreeUids : Cardinality({y \in R!FreeUids : y <= x}) = k
  BY DEF R!NthFree, R!Cardinality, Cardinality
<1>3. R!NthFree(k) = CHOOSE x \in R!FreeUids : Cardinality(UpTo(R!FreeUids, x)) = k
  BY <1>2 DEF UpTo
<1>4. R!NthFree(k) \in R!FreeUids /\ Cardinality(UpTo(R!FreeUids, R!NthFree(k))) = k
  BY <1>1, <1>3
<1> QED  BY <1>4, FreeAre

\* findOrCreateStudent: the record of a student is there, or a new one takes a free
\* UID, and nobody else's is touched.
LEMMA Recorded ==
    ASSUME PeopleFine(students), NEW in \in R!Inputs, R!CanRecord(in)
    PROVE  /\ PeopleFine(R!WithRecord(in)) /\ Keeps(students, R!WithRecord(in))
           /\ R!Match(in) \in RosterUsers /\ R!WithRecord(in)[R!Match(in)].uid # 0
           /\ in.sid = None => R!Match(in) = in.user
<1>1. in.user \in RosterUsers /\ in.sid \in RosterSids \cup {None} /\ in.mail \in RosterMails \cup {None}
  BY DEF R!Inputs
<1>2. /\ R!Match(in) \in RosterUsers
      /\ in.sid # None /\ (\E u \in RosterUsers : students[u].sid = in.sid) => students[R!Match(in)].sid = in.sid
      /\ ~(in.sid # None /\ \E u \in RosterUsers : students[u].sid = in.sid) => R!Match(in) = in.user
  BY <1>1 DEF R!Match
<1>3. CASE R!Known(R!Match(in))
  <2>1. R!WithRecord(in) = students
    BY <1>3 DEF R!WithRecord
  <2> QED  BY <1>2, <1>3, <2>1 DEF R!Known, Keeps
<1>4. CASE ~R!Known(R!Match(in))
  <2>1. students[R!Match(in)].uid = 0 /\ students[R!Match(in)].sid = None
    BY <1>2, <1>4 DEF R!Known, PeopleFine
  <2>2. R!Match(in) = in.user /\ (in.sid # None => \A u \in RosterUsers : students[u].sid # in.sid)
    BY <1>2, <2>1
  <2>3. Cardinality(R!FreeUids) # 0
    BY <1>4, FreeAre, FS_EmptySet DEF R!CanRecord
  <2>4. 1 \in 1..Cardinality(R!FreeUids)
    BY <2>3, FreeAre
  <2> DEFINE id == R!NthFree(1)
             new == [sid |-> in.sid, mail |-> in.mail, uid |-> id]
  <2>5. id \in 1..LastUid /\ \A u \in RosterUsers : students[u].uid # id
    BY <2>4, NthFreeIs
  <2>6. R!WithRecord(in) = [students EXCEPT ![in.user] = new]
    BY <1>4 DEF R!WithRecord
  <2> HIDE DEF id
  <2>7. id # 0 /\ id \in 0..LastUid
    BY <2>5, RosterAssumption
  <2>8. new \in StudentRows /\ new.uid = id /\ new.sid = in.sid
    BY <1>1, <2>7 DEF StudentRows
  <2> HIDE DEF new
  <2>9. /\ R!WithRecord(in) \in [RosterUsers -> StudentRows] /\ R!WithRecord(in)[in.user] = new
        /\ \A u \in RosterUsers : u # in.user => R!WithRecord(in)[u] = students[u]
    BY <1>1, <2>6, <2>8 DEF PeopleFine
  <2>10. PeopleFine(R!WithRecord(in))
    BY <1>1, <2>2, <2>5, <2>7, <2>8, <2>9 DEF PeopleFine
  <2>11. Keeps(students, R!WithRecord(in))
    BY <2>1, <2>2, <2>9 DEF Keeps
  <2> QED  BY <1>2, <2>2, <2>7, <2>8, <2>9, <2>10, <2>11
<1> QED  BY <1>3, <1>4

\* An address is changed.
LEMMA Remailed ==
    ASSUME NEW s, PeopleFine(s), NEW u \in RosterUsers, NEW m \in RosterMails \cup {None}
    PROVE  /\ PeopleFine([s EXCEPT ![u].mail = m])
           /\ \A v \in RosterUsers : /\ [s EXCEPT ![u].mail = m][v].uid = s[v].uid
                                     /\ [s EXCEPT ![u].mail = m][v].sid = s[v].sid
<1> DEFINE row == [s[u] EXCEPT !.mail = m]
           t == [s EXCEPT ![u].mail = m]
<1>1. s \in [RosterUsers -> StudentRows]
  BY DEF PeopleFine
<1>2. row \in StudentRows /\ row.uid = s[u].uid /\ row.sid = s[u].sid
  BY <1>1 DEF StudentRows
<1>3. t = [s EXCEPT ![u] = row]
  BY <1>1
<1> HIDE DEF row
<1>4. t \in [RosterUsers -> StudentRows]
  BY <1>1, <1>2, <1>3
<1>5. \A v \in RosterUsers : t[v].uid = s[v].uid /\ t[v].sid = s[v].sid
  BY <1>1, <1>2, <1>3
<1> HIDE DEF t
<1>6. PeopleFine(t)
  BY <1>4, <1>5 DEF PeopleFine
<1> QED  BY <1>5, <1>6 DEF t

\* Students nobody has any more are dropped.
LEMMA Dropped ==
    ASSUME PeopleFine(students), NEW gone \in SUBSET RosterUsers
    PROVE  LET t == [u \in RosterUsers |-> IF u \in gone THEN R!NoStudent ELSE students[u]] IN
           /\ PeopleFine(t) /\ \A u \in RosterUsers \ gone : t[u] = students[u]
<1> DEFINE t == [u \in RosterUsers |-> IF u \in gone THEN R!NoStudent ELSE students[u]]
<1>1. R!NoStudent \in StudentRows /\ R!NoStudent.uid = 0 /\ R!NoStudent.sid = None
  BY RosterAssumption DEF R!NoStudent, StudentRows
<1>2. \A u \in RosterUsers : t[u] = IF u \in gone THEN R!NoStudent ELSE students[u]
  OBVIOUS
<1>3. t \in [RosterUsers -> StudentRows]
  BY <1>1 DEF PeopleFine
<1> HIDE DEF t
<1>4. PeopleFine(t)
  BY <1>1, <1>2, <1>3 DEF PeopleFine
<1>5. \A u \in RosterUsers \ gone : t[u] = students[u]
  BY <1>2
<1> QED  BY <1>4, <1>5 DEF t
-----------------------------------------------------------------------------
(***************************************************************************)
(* Roster files: what a row says, and what an import makes of the records. *)
(***************************************************************************)
RosterRows == [role : {"student", "pi"}, user : RosterUsers \cup {None},
               sid : RosterSids \cup {None}, mail : RosterMails \cup {None}]

\* The files that are imported are such rows.
LEMMA FilesAre == RosterFiles \subseteq Seq(RosterRows)
<1> DEFINE Us == RosterUsers \cup {None}
           Is == RosterSids \cup {None}
           Ms == RosterMails \cup {None}
<1>1. {u1, u2, None} \subseteq Us /\ {i1, i2, None} \subseteq Is /\ {m1, None} \subseteq Ms
  BY DEF RosterUsers, RosterSids, RosterMails
<1> HIDE DEF Us, Is, Ms
<1>2. \A u \in Us, i \in Is, m \in Ms :
         Stu(u, i, m) \in [role : {"student", "pi"}, user : Us, sid : Is, mail : Ms]
  BY DEF Stu
<1>3. \A u \in Us, i \in Is, m \in Ms :
         Pi(u, i, m) \in [role : {"student", "pi"}, user : Us, sid : Is, mail : Ms]
  BY DEF Pi
<1>4. \A a, b, c \in RosterRows : <<a>> \in Seq(RosterRows) /\ <<a, b>> \in Seq(RosterRows) /\ <<a, b, c>> \in Seq(RosterRows)
  OBVIOUS
<1>5. \A u \in {u1, u2, None}, i \in {i1, i2, None}, m \in {m1, None} : Stu(u, i, m) \in RosterRows /\ Pi(u, i, m) \in RosterRows
  BY <1>1, <1>2, <1>3 DEF RosterRows, Us, Is, Ms
<1>6. /\ Stu(u1, None, None) \in RosterRows /\ Stu(u2, i1, None) \in RosterRows
      /\ Stu(u2, None, m1) \in RosterRows /\ Pi(u2, i2, m1) \in RosterRows
      /\ Stu(u1, i1, None) \in RosterRows /\ Stu(u1, i2, None) \in RosterRows
      /\ Pi(u1, None, m1) \in RosterRows /\ Pi(u2, None, m1) \in RosterRows
      /\ Pi(u2, i1, None) \in RosterRows /\ Stu(None, i1, m1) \in RosterRows
  BY <1>5
<1> QED  BY <1>4, <1>6 DEF RosterFiles

\* A field that is said is what a row says.
LEMMA SaidByRow ==
    ASSUME NEW f \in Seq(RosterRows), NEW S \in SUBSET DOMAIN f, NEW field,
           R!FirstSaid(f, S, field) # None
    PROVE  \E i \in S : R!FirstSaid(f, S, field) = f[i][field]
<1> DEFINE said == {i \in S : f[i][field] # None}
<1>1. R!FirstSaid(f, S, field) = IF said = {} THEN None ELSE f[CHOOSE i \in said : \A j \in said : i <= j][field]
  BY DEF R!FirstSaid
<1>2. DOMAIN f = 1..Len(f) /\ Len(f) \in Nat
  BY LenProperties
<1>3. IsFiniteSet(1..Len(f))
  <2>1. 1 \in Int /\ Len(f) \in Int
    BY <1>2
  <2> QED  BY <2>1, FS_Interval
<1>4. said \in SUBSET (1..Len(f)) /\ said \subseteq Nat
  BY <1>2
<1>5. IsFiniteSet(said)
  BY <1>3, <1>4, FS_Subset
<1>6. said # {}
  BY <1>1
<1>7. said \subseteq S
  OBVIOUS
<1> HIDE DEF said
<1>8. (CHOOSE i \in said : \A j \in said : i <= j) \in said
  BY <1>4, <1>5, <1>6, LeastIs
<1> QED  BY <1>1, <1>6, <1>7, <1>8

\* What a file says of a student and of the PI.
LEMMA SaidAre ==
    ASSUME NEW f \in Seq(RosterRows), R!PlanOk(f)
    PROVE  /\ R!Batch(f) \subseteq RosterUsers
           /\ \A u : R!BatchSid(f, u) \in RosterSids \cup {None} /\ R!BatchMail(f, u) \in RosterMails \cup {None}
           /\ R!PiUser(f) \in R!Batch(f) \cup {None} /\ R!PiMail(f) \in RosterMails \cup {None}
<1>1. \A i \in DOMAIN f : f[i] \in RosterRows
  BY ElementOfSeq, LenProperties
<1>2. \A i \in DOMAIN f : /\ f[i].user \in RosterUsers /\ f[i].sid \in RosterSids \cup {None}
                          /\ f[i].mail \in RosterMails \cup {None}
  BY <1>1 DEF RosterRows, R!PlanOk, R!ValidRow
<1>3. R!Batch(f) \subseteq RosterUsers /\ \A i \in DOMAIN f : f[i].user \in R!Batch(f)
  BY <1>2 DEF R!Batch
<1>4. \A u : R!Of(f, u) \in SUBSET DOMAIN f
  BY DEF R!Of
<1>5. R!PiRows(f) \in SUBSET DOMAIN f
  BY DEF R!PiRows
<1>6. ASSUME NEW u
      PROVE  R!BatchSid(f, u) \in RosterSids \cup {None} /\ R!BatchMail(f, u) \in RosterMails \cup {None}
  <2>1. R!BatchSid(f, u) # None => \E i \in R!Of(f, u) : R!BatchSid(f, u) = f[i].sid
    BY <1>4, SaidByRow DEF R!BatchSid
  <2>2. R!BatchMail(f, u) # None => \E i \in R!Of(f, u) : R!BatchMail(f, u) = f[i].mail
    BY <1>4, SaidByRow DEF R!BatchMail
  <2> QED  BY <1>2, <1>4, <2>1, <2>2
<1>7. R!PiUser(f) # None => \E i \in R!PiRows(f) : R!PiUser(f) = f[i].user
  BY <1>5, SaidByRow DEF R!PiUser
<1>8. R!PiMail(f) # None => \E i \in R!PiRows(f) : R!PiMail(f) = f[i].mail
  BY <1>5, SaidByRow DEF R!PiMail
<1> QED  BY <1>2, <1>3, <1>5, <1>6, <1>7, <1>8

\* Users are numbered in the order in which the file first names them, from one.
LEMMA CreatedAre ==
    ASSUME NEW f \in Seq(RosterRows), R!PlanOk(f)
    PROVE  /\ R!ToCreate(f) \subseteq RosterUsers
           /\ \A u \in R!ToCreate(f) : R!CreatedAs(f, u) \in 1..R!Cardinality(R!ToCreate(f))
           /\ \A u, v \in R!ToCreate(f) : R!CreatedAs(f, u) = R!CreatedAs(f, v) => u = v
           /\ R!Cardinality(R!ToCreate(f)) = Cardinality(R!ToCreate(f)) /\ Cardinality(R!ToCreate(f)) \in Nat
<1> DEFINE X == R!ToCreate(f)
           By(u) == {v \in X : R!FirstRow(f, v) <= R!FirstRow(f, u)}
<1>1. DOMAIN f = 1..Len(f) /\ Len(f) \in Nat
  BY LenProperties
<1>2. X \subseteq RosterUsers /\ X \subseteq R!Batch(f)
  BY SaidAre DEF R!ToCreate
<1>3. \A u \in R!Batch(f) : R!FirstRow(f, u) \in Nat /\ f[R!FirstRow(f, u)].user = u
  <2> SUFFICES ASSUME NEW u \in R!Batch(f)
               PROVE  R!FirstRow(f, u) \in Nat /\ f[R!FirstRow(f, u)].user = u
    OBVIOUS
  <2>1. R!Of(f, u) \in SUBSET (1..Len(f)) /\ R!Of(f, u) # {} /\ \A i \in R!Of(f, u) : f[i].user = u
    BY <1>1 DEF R!Of, R!Batch
  <2>2. 1 \in Int /\ Len(f) \in Int /\ R!Of(f, u) \subseteq Nat
    BY <1>1, <2>1
  <2>3. IsFiniteSet(1..Len(f))
    BY <2>2, FS_Interval
  <2>4. IsFiniteSet(R!Of(f, u))
    BY <2>1, <2>3, FS_Subset
  <2>5. (CHOOSE i \in R!Of(f, u) : \A j \in R!Of(f, u) : i <= j) \in R!Of(f, u)
    BY <2>1, <2>2, <2>4, LeastIs
  <2> QED  BY <2>1, <2>2, <2>5 DEF R!FirstRow
<1>4. \A u, v \in X : R!FirstRow(f, u) = R!FirstRow(f, v) => u = v
  BY <1>2, <1>3
<1>5. IsFiniteSet(X) /\ Cardinality(X) \in Nat
  <2>1. IsFiniteSet({u1} \cup {u2})
    BY FS_Singleton, FS_AddElement
  <2>2. X \in SUBSET ({u1} \cup {u2})
    BY <1>2 DEF RosterUsers
  <2>3. IsFiniteSet(X)
    BY <2>1, <2>2, FS_Subset
  <2> QED  BY <2>3, FS_CardinalityType
<1>6. \A u \in X : /\ By(u) \in SUBSET X /\ u \in By(u) /\ IsFiniteSet(By(u))
                   /\ Cardinality(By(u)) \in Nat \ {0} /\ Cardinality(By(u)) <= Cardinality(X)
  <2> SUFFICES ASSUME NEW u \in X
               PROVE  /\ By(u) \in SUBSET X /\ u \in By(u) /\ IsFiniteSet(By(u))
                      /\ Cardinality(By(u)) \in Nat \ {0} /\ Cardinality(By(u)) <= Cardinality(X)
    OBVIOUS
  <2>1. By(u) \in SUBSET X /\ u \in By(u)
    BY <1>2, <1>3
  <2> HIDE DEF By, X
  <2>2. IsFiniteSet(By(u)) /\ Cardinality(By(u)) <= Cardinality(X)
    BY <1>5, <2>1, FS_Subset
  <2>3. Cardinality(By(u)) \in Nat
    BY <2>2, FS_CardinalityType
  <2>4. Cardinality(By(u)) # 0
    BY <2>1, <2>2, FS_EmptySet
  <2> QED  BY <2>1, <2>2, <2>3, <2>4
<1>7. ASSUME NEW u \in X, NEW v \in X, R!FirstRow(f, u) < R!FirstRow(f, v)
      PROVE  Cardinality(By(u)) # Cardinality(By(v))
  <2>1. By(u) \in SUBSET By(v) /\ v \notin By(u)
    <3>1. /\ R!FirstRow(f, u) \in Nat /\ R!FirstRow(f, v) \in Nat
          /\ ~(R!FirstRow(f, v) <= R!FirstRow(f, u))
          /\ \A w \in X : R!FirstRow(f, w) \in Nat /\ (R!FirstRow(f, w) <= R!FirstRow(f, u) => R!FirstRow(f, w) <= R!FirstRow(f, v))
      BY <1>2, <1>3, <1>7
    <3> QED  BY <3>1
  <2>2. By(u) # By(v) /\ IsFiniteSet(By(v))
    BY <1>6, <2>1
  <2> HIDE DEF By
  <2> QED  BY <2>1, <2>2, FS_Subset
<1>8. \A u, v \in X : u # v => R!FirstRow(f, u) < R!FirstRow(f, v) \/ R!FirstRow(f, v) < R!FirstRow(f, u)
  BY <1>2, <1>3, <1>4
<1>9. \A u : R!CreatedAs(f, u) = Cardinality(By(u))
  BY DEF R!CreatedAs, R!Cardinality, Cardinality
<1>10. R!Cardinality(X) = Cardinality(X)
  BY DEF R!Cardinality, Cardinality
<1> HIDE DEF By
<1>11. \A u \in X : R!CreatedAs(f, u) \in 1..Cardinality(X)
  BY <1>5, <1>6, <1>9
<1>12. \A u, v \in X : R!CreatedAs(f, u) = R!CreatedAs(f, v) => u = v
  BY <1>7, <1>8, <1>9
<1> QED  BY <1>2, <1>5, <1>10, <1>11, <1>12

\* What a plan that is ok says of an id: no two user names have it, and nobody's is
\* another.
LEMMA IdsAgree ==
    ASSUME NEW f, R!PlanOk(f), NEW u \in R!Batch(f), R!BatchSid(f, u) # None
    PROVE  /\ \A v \in R!Batch(f) \ {u} : R!BatchSid(f, v) # R!BatchSid(f, u)
           /\ \A v \in RosterUsers \ {u} : students[v].sid # R!BatchSid(f, u)
           /\ students[u].sid \in {None, R!BatchSid(f, u)}
  BY DEF R!PlanOk, R!SidsDisagree

\* A created student's UID is free, and no two get the same.
LEMMA NewUids ==
    ASSUME NEW f \in Seq(RosterRows), R!PlanOk(f),
           R!Cardinality(R!ToCreate(f)) <= R!Cardinality(R!FreeUids)
    PROVE  /\ \A u \in R!ToCreate(f) : /\ R!NthFree(R!CreatedAs(f, u)) \in 1..LastUid
                                       /\ \A v \in RosterUsers : students[v].uid # R!NthFree(R!CreatedAs(f, u))
           /\ \A u, v \in R!ToCreate(f) : R!NthFree(R!CreatedAs(f, u)) = R!NthFree(R!CreatedAs(f, v)) => u = v
<1>1. /\ Cardinality(R!ToCreate(f)) \in Nat /\ Cardinality(R!FreeUids) \in Nat
      /\ Cardinality(R!ToCreate(f)) <= Cardinality(R!FreeUids)
  <2>1. R!Cardinality(R!FreeUids) = Cardinality(R!FreeUids)
    BY DEF R!Cardinality, Cardinality
  <2> QED  BY <2>1, CreatedAre, FreeAre
<1>2. \A k \in 1..Cardinality(R!ToCreate(f)) : k \in 1..Cardinality(R!FreeUids)
  BY <1>1
<1>3. \A u \in R!ToCreate(f) : R!CreatedAs(f, u) \in 1..Cardinality(R!FreeUids)
  BY <1>2, CreatedAre
<1>4. \A u \in R!ToCreate(f) :
         /\ R!NthFree(R!CreatedAs(f, u)) \in 1..LastUid
         /\ Cardinality(UpTo(R!FreeUids, R!NthFree(R!CreatedAs(f, u)))) = R!CreatedAs(f, u)
         /\ \A v \in RosterUsers : students[v].uid # R!NthFree(R!CreatedAs(f, u))
  BY <1>3, NthFreeIs
<1>5. \A u, v \in R!ToCreate(f) : R!CreatedAs(f, u) = R!CreatedAs(f, v) => u = v
  BY CreatedAre
<1> QED  BY <1>4, <1>5

\* The rows an import writes.
LEMMA ImportWrites ==
    ASSUME PeopleFine(students), NEW l \in Labs, NEW f \in Seq(RosterRows), R!ApplyRosterImport(l, f)
    PROVE  /\ students' \in [RosterUsers -> StudentRows]
           /\ \A u \in R!ToCreate(f) : /\ students'[u].sid = R!BatchSid(f, u) /\ students'[u].mail = R!BatchMail(f, u)
                                       /\ students'[u].uid = R!NthFree(R!CreatedAs(f, u))
           /\ \A u \in R!ToUpdate(f) : /\ students'[u].sid = R!NewSid(f, u) /\ students'[u].mail = R!NewMail(f, u)
                                       /\ students'[u].uid = students[u].uid
           /\ \A u \in RosterUsers : u \notin R!ToCreate(f) /\ u \notin R!ToUpdate(f) => students'[u] = students[u]
<1> DEFINE t == students'
<1>1. /\ R!PlanOk(f) /\ R!Cardinality(R!ToCreate(f)) <= R!Cardinality(R!FreeUids)
      /\ t = [u \in RosterUsers |->
              CASE u \in R!ToCreate(f) -> [sid |-> R!BatchSid(f, u), mail |-> R!BatchMail(f, u),
                                           uid |-> R!NthFree(R!CreatedAs(f, u))]
                [] u \in R!ToUpdate(f) -> [students[u] EXCEPT !.sid = R!NewSid(f, u), !.mail = R!NewMail(f, u)]
                [] OTHER               -> students[u]]
  BY DEF R!ApplyRosterImport
<1> HIDE DEF t
<1>2. 1..LastUid \subseteq 0..LastUid
  BY FreeAre
<1>3. /\ R!Batch(f) \subseteq RosterUsers
      /\ \A u : R!BatchSid(f, u) \in RosterSids \cup {None} /\ R!BatchMail(f, u) \in RosterMails \cup {None}
      /\ students \in [RosterUsers -> StudentRows]
  BY <1>1, SaidAre DEF PeopleFine
<1>4. /\ \A u \in R!ToCreate(f) : u \in RosterUsers /\ u \notin R!ToUpdate(f)
      /\ \A u \in R!ToUpdate(f) : u \in RosterUsers
  BY <1>3 DEF R!ToCreate, R!ToUpdate
<1>5. ASSUME NEW u \in R!ToCreate(f)
      PROVE  /\ t[u].sid = R!BatchSid(f, u) /\ t[u].mail = R!BatchMail(f, u)
             /\ t[u].uid = R!NthFree(R!CreatedAs(f, u)) /\ t[u] \in StudentRows
  <2> DEFINE id == R!NthFree(R!CreatedAs(f, u))
  <2>1. t[u] = [sid |-> R!BatchSid(f, u), mail |-> R!BatchMail(f, u), uid |-> id]
    BY <1>4, <1>1
  <2>2. id \in 1..LastUid
    BY <1>1, NewUids
  <2> HIDE DEF id
  <2>3. \A a \in RosterSids \cup {None}, b \in RosterMails \cup {None}, c \in 1..LastUid :
           LET row == [sid |-> a, mail |-> b, uid |-> c] IN
           row \in StudentRows /\ row.sid = a /\ row.mail = b /\ row.uid = c
    BY <1>2 DEF StudentRows
  <2>4. LET row == [sid |-> R!BatchSid(f, u), mail |-> R!BatchMail(f, u), uid |-> id] IN
        row \in StudentRows /\ row.sid = R!BatchSid(f, u) /\ row.mail = R!BatchMail(f, u) /\ row.uid = id
    BY <1>3, <2>2, <2>3, Zenon
  <2>5. t[u].sid = R!BatchSid(f, u) /\ t[u].mail = R!BatchMail(f, u) /\ t[u].uid = id /\ t[u] \in StudentRows
    BY <2>1, <2>4, Zenon
  <2> QED  BY <2>5 DEF id
<1>6. ASSUME NEW u \in R!ToUpdate(f)
      PROVE  /\ t[u].sid = R!NewSid(f, u) /\ t[u].mail = R!NewMail(f, u)
             /\ t[u].uid = students[u].uid /\ t[u] \in StudentRows
  <2> DEFINE i == R!NewSid(f, u)
             m == R!NewMail(f, u)
  <2>1. t[u] = [students[u] EXCEPT !.sid = i, !.mail = m]
    BY <1>4, <1>1
  <2>2. students[u] \in StudentRows /\ students[u].sid \in RosterSids \cup {None} /\ students[u].mail \in RosterMails \cup {None}
    BY <1>3, <1>4 DEF StudentRows
  <2>3. i \in RosterSids \cup {None} /\ m \in RosterMails \cup {None}
    BY <1>3, <2>2 DEF R!NewSid, R!NewMail
  <2> HIDE DEF i, m
  <2>4. [students[u] EXCEPT !.sid = i, !.mail = m] \in StudentRows
    BY <2>2, <2>3 DEF StudentRows
  <2>5. t[u].sid = i /\ t[u].mail = m /\ t[u].uid = students[u].uid
    BY <2>1, <2>2 DEF StudentRows
  <2> QED  BY <2>1, <2>4, <2>5 DEF i, m
<1>7. \A u \in RosterUsers : u \notin R!ToCreate(f) /\ u \notin R!ToUpdate(f) => t[u] = students[u]
  BY <1>1
<1>8. \A u \in RosterUsers : t[u] \in StudentRows
  BY <1>3, <1>5, <1>6, <1>7
<1>9. t \in [RosterUsers -> StudentRows]
  BY <1>8, <1>1
<1> QED  BY <1>5, <1>6, <1>7, <1>9 DEF t

\* The records an import leaves.
LEMMA Imported ==
    ASSUME PeopleFine(students), NEW f \in Seq(RosterRows), R!PlanOk(f),
           R!Cardinality(R!ToCreate(f)) <= R!Cardinality(R!FreeUids),
           NEW t, t \in [RosterUsers -> StudentRows],
           \A u \in R!ToCreate(f) : /\ t[u].sid = R!BatchSid(f, u) /\ t[u].mail = R!BatchMail(f, u)
                                    /\ t[u].uid = R!NthFree(R!CreatedAs(f, u)),
           \A u \in R!ToUpdate(f) : /\ t[u].sid = R!NewSid(f, u) /\ t[u].mail = R!NewMail(f, u)
                                    /\ t[u].uid = students[u].uid,
           \A u \in RosterUsers : u \notin R!ToCreate(f) /\ u \notin R!ToUpdate(f) => t[u] = students[u]
    PROVE  /\ PeopleFine(t) /\ Keeps(students, t)
           /\ \A u \in R!Batch(f) : t[u].uid # 0
           /\ \A u \in RosterUsers : t[u].sid = IF u \in R!Batch(f) /\ R!BatchSid(f, u) # None THEN R!BatchSid(f, u)
                                                ELSE students[u].sid
           /\ \A u \in R!Batch(f) : R!BatchMail(f, u) # None => t[u].mail = R!BatchMail(f, u)
<1> DEFINE B == R!Batch(f)
           C0 == R!ToCreate(f)
           id(u) == R!NthFree(R!CreatedAs(f, u))
<1>1. B \subseteq RosterUsers
  BY SaidAre
<1>2. /\ \A u, v \in RosterUsers : u # v => /\ students[u].uid # 0 => students[u].uid # students[v].uid
                                            /\ students[u].sid # None => students[u].sid # students[v].sid
      /\ \A u \in RosterUsers : students[u].uid = 0 => students[u].sid = None
  BY DEF PeopleFine
<1>3. /\ \A u \in C0 : u \in B /\ students[u].uid = 0
      /\ \A u \in B : u \in C0 \/ students[u].uid # 0
      /\ \A u \in R!ToUpdate(f) : u \in B /\ students[u].uid # 0
      /\ \A u \in B : u \notin C0 /\ u \notin R!ToUpdate(f) =>
            R!NewSid(f, u) = students[u].sid /\ R!NewMail(f, u) = students[u].mail
  BY DEF R!ToCreate, R!ToUpdate, R!Known
<1>4. /\ \A u \in C0 : id(u) \in 1..LastUid /\ \A v \in RosterUsers : students[v].uid # id(u)
      /\ \A u, v \in C0 : id(u) = id(v) => u = v
  BY NewUids
<1>5. \A u \in B : R!BatchSid(f, u) # None =>
          /\ \A v \in B \ {u} : R!BatchSid(f, v) # R!BatchSid(f, u)
          /\ \A v \in RosterUsers \ {u} : students[v].sid # R!BatchSid(f, u)
          /\ students[u].sid \in {None, R!BatchSid(f, u)}
  BY IdsAgree
<1>6. \A u \in RosterUsers : t[u].uid = IF u \in C0 THEN id(u) ELSE students[u].uid
  OBVIOUS
<1>7. ASSUME NEW u \in RosterUsers
      PROVE  t[u].sid = IF u \in B /\ R!BatchSid(f, u) # None THEN R!BatchSid(f, u) ELSE students[u].sid
  <2>1. CASE u \in C0
    <3>1. t[u].sid = R!BatchSid(f, u) /\ u \in B /\ students[u].sid = None
      BY <1>2, <1>3, <2>1
    <3> QED  BY <3>1
  <2>2. CASE u \in R!ToUpdate(f)
    <3>1. /\ t[u].sid = IF students[u].sid = None THEN R!BatchSid(f, u) ELSE students[u].sid
          /\ u \in B
      BY <1>3, <2>2 DEF R!NewSid
    <3> QED  BY <1>5, <3>1
  <2>3. CASE u \notin C0 /\ u \notin R!ToUpdate(f)
    <3>1. t[u].sid = students[u].sid /\ (u \in B => R!NewSid(f, u) = students[u].sid)
      BY <1>3, <2>3
    <3>2. R!NewSid(f, u) = IF students[u].sid = None THEN R!BatchSid(f, u) ELSE students[u].sid
      BY DEF R!NewSid
    <3> QED  BY <1>5, <3>1, <3>2
  <2> QED  BY <2>1, <2>2, <2>3
<1>8. ASSUME NEW u \in B, R!BatchMail(f, u) # None
      PROVE  t[u].mail = R!BatchMail(f, u)
  <2>1. R!NewMail(f, u) = R!BatchMail(f, u)
    BY <1>8 DEF R!NewMail
  <2> QED  BY <1>1, <1>3, <2>1
<1> HIDE DEF B, C0, id
<1>9. \A u \in C0 : id(u) # 0 /\ id(u) \in Nat
  BY <1>4, RosterAssumption
<1>10. \A u \in B : t[u].uid # 0
  BY <1>1, <1>3, <1>6, <1>9
<1>11. ASSUME NEW u \in RosterUsers, NEW v \in RosterUsers, u # v, t[u].uid # 0
       PROVE  t[u].uid # t[v].uid
  <2>1. u \in C0 => t[u].uid = id(u) /\ students[v].uid # id(u)
    BY <1>4, <1>6
  <2>2. v \in C0 => t[v].uid = id(v) /\ students[u].uid # id(v)
    BY <1>4, <1>6
  <2>3. u \notin C0 => t[u].uid = students[u].uid
    BY <1>6
  <2>4. v \notin C0 => t[v].uid = students[v].uid
    BY <1>6
  <2>5. u \in C0 /\ v \in C0 => id(u) # id(v)
    BY <1>4, <1>11
  <2> QED  BY <1>2, <1>11, <2>1, <2>2, <2>3, <2>4, <2>5
<1>12. ASSUME NEW u \in RosterUsers, NEW v \in RosterUsers, u # v, t[u].sid # None
       PROVE  t[u].sid # t[v].sid
  <2>1. CASE u \in B /\ R!BatchSid(f, u) # None
    BY <1>5, <1>7, <1>12, <2>1
  <2>2. CASE ~(u \in B /\ R!BatchSid(f, u) # None)
    BY <1>2, <1>5, <1>7, <1>12, <2>2
  <2> QED  BY <2>1, <2>2
<1>13. \A u \in RosterUsers : t[u].uid = 0 => t[u].sid = None
  BY <1>2, <1>3, <1>6, <1>7, <1>10
<1>14. Keeps(students, t)
  <2> SUFFICES ASSUME NEW u \in RosterUsers, students[u].uid # 0
               PROVE  t[u].uid = students[u].uid /\ (students[u].sid # None => t[u].sid = students[u].sid)
    BY DEF Keeps
  <2>1. t[u].uid = students[u].uid
    BY <1>3, <1>6
  <2>2. students[u].sid # None => t[u].sid = students[u].sid
    BY <1>5, <1>7
  <2> QED  BY <2>1, <2>2
<1>15. PeopleFine(t)
  BY <1>11, <1>12, <1>13 DEF PeopleFine
<1> QED  BY <1>7, <1>8, <1>10, <1>14, <1>15 DEF B

\* The same file makes no other record when it is imported again.
LEMMA ImportedOnce ==
    ASSUME NEW f \in Seq(RosterRows), R!PlanOk(f),
           \A u \in R!Batch(f) : students'[u].uid # 0,
           \A u \in RosterUsers : students'[u].sid = IF u \in R!Batch(f) /\ R!BatchSid(f, u) # None THEN R!BatchSid(f, u)
                                                     ELSE students[u].sid,
           \A u \in R!Batch(f) : R!BatchMail(f, u) # None => students'[u].mail = R!BatchMail(f, u)
    PROVE  R!PlanOk(f)' /\ R!ToCreate(f)' = {} /\ R!ToUpdate(f)' = {}
<1>1. R!Batch(f) \subseteq RosterUsers
  BY SaidAre
<1>2. R!ToCreate(f)' = {}
  BY DEF R!ToCreate, R!Known, R!Batch
<1>3. \A u \in R!Batch(f) : R!NewSid(f, u)' = students'[u].sid /\ R!NewMail(f, u)' = students'[u].mail
  <2>1. \A u \in R!Batch(f) : /\ R!NewSid(f, u)' = IF students'[u].sid = None THEN R!BatchSid(f, u) ELSE students'[u].sid
                              /\ R!NewMail(f, u)' = IF R!BatchMail(f, u) = None THEN students'[u].mail ELSE R!BatchMail(f, u)
    BY DEF R!NewSid, R!NewMail, R!BatchSid, R!BatchMail
  <2> QED  BY <1>1, <2>1
<1>4. R!ToUpdate(f)' = {}
  BY <1>3 DEF R!ToUpdate, R!Batch
<1>5. R!PlanOk(f)'
  <2>1. (\A i \in DOMAIN f : R!ValidRow(f[i])) /\ ~R!RowsDisagree(f)
    BY DEF R!PlanOk
  <2>2. \A u \in R!Batch(f) : R!BatchSid(f, u) # None =>
          /\ \A v \in R!Batch(f) \ {u} : R!BatchSid(f, v) # R!BatchSid(f, u)
          /\ \A v \in RosterUsers \ {u} : students[v].sid # R!BatchSid(f, u)
          /\ students[u].sid \in {None, R!BatchSid(f, u)}
    BY IdsAgree
  <2>3. \A u \in R!Batch(f) : R!BatchSid(f, u) # None =>
          /\ \A v \in RosterUsers \ {u} : students'[v].sid # R!BatchSid(f, u)
          /\ students'[u].sid \in {None, R!BatchSid(f, u)}
    BY <1>1, <2>2
  <2>4. ~R!SidsDisagree(f)'
    BY <2>2, <2>3 DEF R!SidsDisagree, R!Batch, R!BatchSid
  <2> QED  BY <2>1, <2>4 DEF R!PlanOk, R!ValidRow, R!RowsDisagree, R!PiRows
<1> QED  BY <1>2, <1>4, <1>5
-----------------------------------------------------------------------------
(***************************************************************************)
(* Labs, placements and accounts.                                          *)
(***************************************************************************)
LabRows == [live : BOOLEAN, pi : RosterUsers \cup {None}, mail : RosterMails \cup {None},
            members : SUBSET RosterUsers]

\* A PI is a member, and members have records.
LabsFine ==
    /\ lab \in [Labs -> LabRows]
    /\ \A l \in Labs : /\ lab[l].pi # None => lab[l].pi \in lab[l].members
                       /\ \A u \in lab[l].members : students[u].uid # 0

\* Only a live lab is placed, and no two labs share a port of a node.
PlacesFine ==
    /\ place \in [Labs -> [RosterNodes -> 0..LastPort]]
    /\ \A l, m \in Labs, n \in RosterNodes : l # m /\ place[l][n] # 0 => place[l][n] # place[m][n]
    /\ \A l \in Labs, n \in RosterNodes : place[l][n] # 0 => lab[l].live

\* The members have accounts where the lab is placed, but for those a crash cut off;
\* and only there has a crash cut any off.
AccountsFine ==
    /\ acct \in [Labs -> [RosterNodes -> SUBSET RosterUsers]]
    /\ cut \subseteq Labs \X RosterNodes \X RosterUsers
    /\ R!AccessMatchesRoster
    /\ \A l \in Labs, n \in RosterNodes, u \in RosterUsers : <<l, n, u>> \in cut => place[l][n] # 0

RosterInv == PeopleFine(students) /\ LabsFine /\ PlacesFine /\ AccountsFine /\ R!ImportIdempotent

\* A lab's row is written.
LEMMA LabWritten ==
    ASSUME LabsFine, Keeps(students, students'), NEW l \in Labs, NEW row \in LabRows,
           lab' = [lab EXCEPT ![l] = row],
           row.pi # None => row.pi \in row.members,
           \A u \in row.members : students'[u].uid # 0 \/ \E m \in Labs : u \in lab[m].members
    PROVE  /\ LabsFine' /\ lab'[l] = row /\ \A m \in Labs : m # l => lab'[m] = lab[m]
<1>1. lab \in [Labs -> LabRows] /\ \A m \in Labs : lab[m] \in LabRows
  BY DEF LabsFine
<1>2. lab' \in [Labs -> LabRows] /\ lab'[l] = row /\ \A m \in Labs : m # l => lab'[m] = lab[m]
  BY <1>1
<1>3. \A m \in Labs : lab[m].members \subseteq RosterUsers
  BY <1>1 DEF LabRows
<1>4. \A m \in Labs : \A u \in lab[m].members : students'[u].uid # 0
  BY <1>3 DEF LabsFine, Keeps
<1>5. \A m \in Labs : /\ lab'[m].pi # None => lab'[m].pi \in lab'[m].members
                      /\ \A u \in lab'[m].members : students'[u].uid # 0
  <2> SUFFICES ASSUME NEW m \in Labs
               PROVE  /\ lab'[m].pi # None => lab'[m].pi \in lab'[m].members
                      /\ \A u \in lab'[m].members : students'[u].uid # 0
    OBVIOUS
  <2>1. CASE m = l
    BY <1>2, <1>4, <2>1
  <2>2. CASE m # l
    BY <1>2, <1>4, <2>2 DEF LabsFine
  <2> QED  BY <2>1, <2>2
<1> QED  BY <1>2, <1>5 DEF LabsFine

\* Who has an account is a member whose account no crash cut off.
LEMMA AccountsAt ==
    ASSUME AccountsFine, NEW m \in Labs, NEW k \in RosterNodes
    PROVE  /\ place[m][k] = 0 => acct[m][k] = {}
           /\ place[m][k] # 0 => \A u : u \in acct[m][k] <=> u \in lab[m].members /\ <<m, k, u>> \notin cut
<1>1. acct[m][k] = IF place[m][k] = 0 THEN {} ELSE {u \in lab[m].members : <<m, k, u>> \notin cut}
  BY DEF AccountsFine, R!AccessMatchesRoster
<1> QED  BY <1>1

\* New members get their accounts, or a crash cuts some of them off.
LEMMA Provisioned ==
    ASSUME AccountsFine, NEW l \in Labs, NEW x \in SUBSET RosterUsers, R!Provision(l, x), place' = place,
           lab'[l].members = lab[l].members \cup x, \A m \in Labs : m # l => lab'[m] = lab[m],
           lab[l].members \subseteq RosterUsers
    PROVE  AccountsFine'
<1> DEFINE new == R!Missing(l, x)
<1>1. PICK lost \in SUBSET new :
         /\ acct' = [acct EXCEPT ![l] = [n \in RosterNodes |->
                        acct[l][n] \cup {u \in x : <<l, n, u>> \in new \ lost}]]
         /\ cut' = (cut \ (new \ lost)) \cup lost
  BY DEF R!Provision
<1>2. \A n \in RosterNodes : n \in R!Placed(l) <=> place[l][n] # 0
  BY DEF R!Placed
<1>3. new \subseteq {l} \X RosterNodes \X x
  BY DEF R!Placed, R!Missing
<1>4. \A n \in RosterNodes, u \in RosterUsers : <<l, n, u>> \in new <=> place[l][n] # 0 /\ u \in x /\ u \notin acct[l][n]
  BY <1>2 DEF R!Missing
<1>5. \A m \in Labs, n \in RosterNodes, u \in RosterUsers : m # l => <<m, n, u>> \notin new
  BY <1>3
<1> HIDE DEF new
<1>6. /\ acct \in [Labs -> [RosterNodes -> SUBSET RosterUsers]]
      /\ cut \subseteq Labs \X RosterNodes \X RosterUsers
      /\ \A m \in Labs, n \in RosterNodes :
            acct[m][n] = IF place[m][n] = 0 THEN {} ELSE {u \in lab[m].members : <<m, n, u>> \notin cut}
      /\ \A m \in Labs, n \in RosterNodes, u \in RosterUsers : <<m, n, u>> \in cut => place[m][n] # 0
  BY DEF AccountsFine, R!AccessMatchesRoster
<1>7. /\ \A m \in Labs : m # l => acct'[m] = acct[m]
      /\ \A n \in RosterNodes : acct'[l][n] = acct[l][n] \cup {u \in x : <<l, n, u>> \in new \ lost}
      /\ acct' \in [Labs -> [RosterNodes -> SUBSET RosterUsers]]
  <2> DEFINE g == [n \in RosterNodes |-> acct[l][n] \cup {u \in x : <<l, n, u>> \in new \ lost}]
  <2>1. g \in [RosterNodes -> SUBSET RosterUsers]
    BY <1>6
  <2>2. \A n \in RosterNodes : g[n] = acct[l][n] \cup {u \in x : <<l, n, u>> \in new \ lost}
    OBVIOUS
  <2>3. acct' = [acct EXCEPT ![l] = g]
    BY <1>1
  <2> HIDE DEF g
  <2> QED  BY <1>6, <2>1, <2>2, <2>3
<1>8. cut' \subseteq Labs \X RosterNodes \X RosterUsers
  <2>1. new \subseteq Labs \X RosterNodes \X RosterUsers
    BY <1>3
  <2> QED  BY <1>1, <1>6, <2>1
<1>9. \A m \in Labs, n \in RosterNodes, u \in RosterUsers : <<m, n, u>> \in cut' => place'[m][n] # 0
  <2> SUFFICES ASSUME NEW m \in Labs, NEW n \in RosterNodes, NEW u \in RosterUsers, <<m, n, u>> \in cut'
               PROVE  place[m][n] # 0
    OBVIOUS
  <2>1. <<m, n, u>> \in cut \/ <<m, n, u>> \in new
    BY <1>1
  <2>2. CASE m = l
    BY <1>4, <1>6, <2>1, <2>2
  <2>3. CASE m # l
    BY <1>5, <1>6, <2>1, <2>3
  <2> QED  BY <2>2, <2>3
<1>10. ASSUME NEW m \in Labs, NEW n \in RosterNodes
       PROVE  acct'[m][n] = IF place'[m][n] = 0 THEN {} ELSE {u \in lab'[m].members : <<m, n, u>> \notin cut'}
  <2>1. CASE m # l
    <3>1. \A u \in RosterUsers : <<m, n, u>> \in cut' <=> <<m, n, u>> \in cut
      BY <1>1, <1>5, <2>1
    <3>2. acct'[m][n] = acct[m][n] /\ lab'[m] = lab[m]
      BY <1>7, <2>1
    <3>3. \A u : <<m, n, u>> \in cut => u \in RosterUsers
      BY <1>6
    <3>4. \A u : <<m, n, u>> \in cut' => u \in RosterUsers
      BY <1>8
    <3>5. acct[m][n] = IF place[m][n] = 0 THEN {} ELSE {u \in lab[m].members : <<m, n, u>> \notin cut}
      BY <1>6
    <3>6. {u \in lab[m].members : <<m, n, u>> \notin cut} = {u \in lab[m].members : <<m, n, u>> \notin cut'}
      BY <3>1, <3>3, <3>4
    <3> QED  BY <3>2, <3>5, <3>6
  <2>2. CASE m = l
    <3>1. CASE place[l][n] = 0
      <4>1. \A u \in x : <<l, n, u>> \notin new
        BY <1>4, <3>1
      <4>2. acct[l][n] = {}
        BY <3>1, AccountsAt
      <4>3. acct'[l][n] = {}
        BY <1>7, <4>1, <4>2
      <4> QED  BY <2>2, <3>1, <4>3
    <3>2. CASE place[l][n] # 0
      <4>1. \A u \in RosterUsers : u \in acct[l][n] <=> u \in lab[l].members /\ <<l, n, u>> \notin cut
        BY <3>2, AccountsAt
      <4>2. \A u \in RosterUsers : u \in acct'[l][n] <=>
               u \in acct[l][n] \/ (u \in x /\ u \notin acct[l][n] /\ <<l, n, u>> \notin lost)
        BY <1>4, <1>7, <3>2
      <4>3. \A u \in RosterUsers : <<l, n, u>> \in cut' <=>
               \/ <<l, n, u>> \in lost
               \/ <<l, n, u>> \in cut /\ ~(u \in x /\ u \notin acct[l][n])
        BY <1>1, <1>4, <3>2
      <4>4. \A u \in RosterUsers : <<l, n, u>> \in lost => u \in x /\ u \notin acct[l][n]
        BY <1>4
      <4>5. \A u \in RosterUsers : u \in acct'[l][n] <=> u \in lab[l].members \cup x /\ <<l, n, u>> \notin cut'
        BY <4>1, <4>2, <4>3, <4>4
      <4>6. acct'[l][n] \subseteq RosterUsers /\ lab'[l].members \subseteq RosterUsers
        BY <1>7
      <4> QED  BY <2>2, <3>2, <4>5, <4>6
    <3> QED  BY <3>1, <3>2
  <2> QED  BY <2>1, <2>2
<1> QED  BY <1>7, <1>8, <1>9, <1>10 DEF AccountsFine, R!AccessMatchesRoster
-----------------------------------------------------------------------------
(***************************************************************************)
(* The steps.                                                              *)
(***************************************************************************)

\* Placements that stay are as good as they were.
LEMMA PlacesStay ==
    ASSUME PlacesFine, place' = place, \A l \in Labs : lab[l].live => lab'[l].live
    PROVE  PlacesFine'
  BY DEF PlacesFine

\* Accounts stay right as long as no placed lab's roster changes.
LEMMA AccountsStay ==
    ASSUME AccountsFine, acct' = acct, cut' = cut, place' = place,
           \A l \in Labs, n \in RosterNodes : place[l][n] # 0 => lab'[l].members = lab[l].members
    PROVE  AccountsFine'
<1>1. /\ acct' \in [Labs -> [RosterNodes -> SUBSET RosterUsers]]
      /\ cut' \subseteq Labs \X RosterNodes \X RosterUsers
      /\ \A l \in Labs, n \in RosterNodes, u \in RosterUsers : <<l, n, u>> \in cut' => place'[l][n] # 0
  BY DEF AccountsFine
<1>2. ASSUME NEW l \in Labs, NEW n \in RosterNodes
      PROVE  acct'[l][n] = IF place'[l][n] = 0 THEN {} ELSE {u \in lab'[l].members : <<l, n, u>> \notin cut'}
  <2>1. acct[l][n] = IF place[l][n] = 0 THEN {} ELSE {u \in lab[l].members : <<l, n, u>> \notin cut}
    BY DEF AccountsFine, R!AccessMatchesRoster
  <2> QED  BY <2>1
<1> QED  BY <1>1, <1>2 DEF AccountsFine, R!AccessMatchesRoster

\* A member is added, with a record that is there or is made.
LEMMA StudentAdded ==
    ASSUME RosterInv, NEW l \in Labs, NEW in \in R!Inputs, R!AddStudentToLab(l, in)
    PROVE  RosterInv' /\ Keeps(students, students')
<1> DEFINE u == R!Match(in)
           x == lab[l].members \cup {u}
<1>1. /\ lab[l].live /\ R!CanRecord(in) /\ students' = R!WithRecord(in)
      /\ lab' = [lab EXCEPT ![l].members = x] /\ R!Provision(l, {u})
      /\ place' = place /\ last' = R!NoImport
  BY DEF R!AddStudentToLab
<1>2. PeopleFine(students) /\ LabsFine /\ PlacesFine /\ AccountsFine /\ lab \in [Labs -> LabRows]
  BY DEF RosterInv, LabsFine
<1>3. PeopleFine(students') /\ Keeps(students, students') /\ u \in RosterUsers /\ students'[u].uid # 0
  BY <1>1, <1>2, Recorded
<1> HIDE DEF u
<1>4. lab[l].members \in SUBSET RosterUsers /\ x \in SUBSET RosterUsers
  BY <1>2, <1>3 DEF LabRows
<1>5. PICK row \in LabRows : lab' = [lab EXCEPT ![l] = row] /\ row.live = lab[l].live /\ row.pi = lab[l].pi /\ row.members = x
  <2> HIDE DEF x
  <2> DEFINE r == [lab[l] EXCEPT !.members = x]
  <2>1. r \in LabRows /\ r.live = lab[l].live /\ r.pi = lab[l].pi /\ r.members = x
    BY <1>2, <1>4 DEF LabRows
  <2>2. lab' = [lab EXCEPT ![l] = r]
    BY <1>1
  <2> HIDE DEF r
  <2> QED  BY <2>1, <2>2
<1>6. LabsFine' /\ lab'[l] = row /\ \A m \in Labs : m # l => lab'[m] = lab[m]
  <2>1. row.pi # None => row.pi \in row.members
    BY <1>2, <1>5 DEF LabsFine
  <2>2. \A v \in row.members : students'[v].uid # 0 \/ \E m \in Labs : v \in lab[m].members
    BY <1>3, <1>5
  <2> QED  BY <1>2, <1>3, <1>5, <2>1, <2>2, LabWritten
<1>7. PlacesFine'
  <2>1. \A m \in Labs : lab[m].live => lab'[m].live
    BY <1>1, <1>5, <1>6
  <2> QED  BY <1>1, <1>2, <2>1, PlacesStay
<1>8. AccountsFine'
  <2>1. {u} \in SUBSET RosterUsers /\ lab'[l].members = lab[l].members \cup {u}
    BY <1>3, <1>5, <1>6
  <2> QED  BY <1>1, <1>2, <1>4, <1>6, <2>1, Provisioned
<1>9. R!ImportIdempotent'
  BY <1>1 DEF R!ImportIdempotent, R!NoImport
<1> QED  BY <1>3, <1>6, <1>7, <1>8, <1>9 DEF RosterInv

\* The PI's record is made, and the PI becomes a member, unless the lab has another.
LEMMA PiAdded ==
    ASSUME RosterInv, NEW l \in Labs, NEW in \in R!PiInputs, R!EnsurePiAccess(l, in)
    PROVE  RosterInv' /\ Keeps(students, students')
<1> DEFINE u == in.user
           x == lab[l].members \cup {u}
           s == R!WithRecord(in)
<1>1. /\ lab[l].live /\ R!CanRecord(in) /\ place' = place /\ last' = R!NoImport
      /\ IF lab[l].pi \notin {None, u}
         THEN students' = s /\ UNCHANGED <<lab, acct, cut>>
         ELSE /\ students' = [s EXCEPT ![u].mail = in.mail]
              /\ lab' = [lab EXCEPT ![l].pi = u, ![l].mail = in.mail, ![l].members = x]
              /\ R!Provision(l, {u})
  BY DEF R!EnsurePiAccess
<1>2. /\ PeopleFine(students) /\ LabsFine /\ PlacesFine /\ AccountsFine /\ lab \in [Labs -> LabRows]
      /\ in \in R!Inputs /\ in.sid = None /\ u \in RosterUsers /\ in.mail \in RosterMails \cup {None}
  BY DEF RosterInv, LabsFine, R!PiInputs, R!Inputs
<1>3. PeopleFine(s) /\ Keeps(students, s) /\ s[u].uid # 0
  <2>1. R!Match(in) = u /\ PeopleFine(s) /\ Keeps(students, s) /\ s[R!Match(in)].uid # 0
    BY <1>1, <1>2, Recorded
  <2> QED  BY <2>1
<1>4. R!ImportIdempotent'
  BY <1>1 DEF R!ImportIdempotent, R!NoImport
<1> HIDE DEF s, u
<1>5. CASE lab[l].pi \notin {None, u}
  <2>1. students' = s /\ UNCHANGED <<lab, acct, cut, place>>
    BY <1>1, <1>5
  <2>2. LabsFine'
    <3>1. \A m \in Labs : \A v \in lab[m].members : v \in RosterUsers
      BY <1>2 DEF LabRows
    <3> QED  BY <1>2, <1>3, <2>1, <3>1 DEF LabsFine, Keeps
  <2>3. PlacesFine'
    BY <1>2, <2>1 DEF PlacesFine
  <2>4. AccountsFine'
    BY <1>2, <2>1, AccountsStay
  <2> QED  BY <1>3, <1>4, <2>1, <2>2, <2>3, <2>4 DEF RosterInv
<1>6. CASE lab[l].pi \in {None, u}
  <2>1. /\ students' = [s EXCEPT ![u].mail = in.mail] /\ R!Provision(l, {u})
        /\ lab' = [lab EXCEPT ![l].pi = u, ![l].mail = in.mail, ![l].members = x]
    BY <1>1, <1>6
  <2>2. /\ PeopleFine([s EXCEPT ![u].mail = in.mail])
        /\ \A v \in RosterUsers : /\ [s EXCEPT ![u].mail = in.mail][v].uid = s[v].uid
                                  /\ [s EXCEPT ![u].mail = in.mail][v].sid = s[v].sid
    BY <1>2, <1>3, Remailed
  <2>3. PeopleFine(students') /\ \A v \in RosterUsers : students'[v].uid = s[v].uid /\ students'[v].sid = s[v].sid
    BY <2>1, <2>2
  <2>4. Keeps(students, students') /\ students'[u].uid # 0
    BY <1>2, <1>3, <2>3 DEF Keeps
  <2>5. lab[l].members \in SUBSET RosterUsers /\ x \in SUBSET RosterUsers /\ u \in RosterUsers \cup {None}
    BY <1>2 DEF LabRows
  <2>6. PICK row \in LabRows : lab' = [lab EXCEPT ![l] = row] /\ row.live = lab[l].live /\ row.pi = u /\ row.members = x
    <3> HIDE DEF x
    <3> DEFINE r1 == [lab[l] EXCEPT !.pi = u]
               r2 == [r1 EXCEPT !.mail = in.mail]
               r3 == [r2 EXCEPT !.members = x]
    <3>1. lab' = [lab EXCEPT ![l] = r3]
      BY <2>1
    <3>2. r1 \in LabRows /\ r1.live = lab[l].live /\ r1.pi = u
      BY <1>2, <2>5 DEF LabRows
    <3> HIDE DEF r1
    <3>3. r2 \in LabRows /\ r2.live = lab[l].live /\ r2.pi = u
      BY <1>2, <3>2 DEF LabRows
    <3> HIDE DEF r2
    <3>4. r3 \in LabRows /\ r3.live = lab[l].live /\ r3.pi = u /\ r3.members = x
      BY <2>5, <3>3 DEF LabRows
    <3> HIDE DEF r3
    <3> QED  BY <3>1, <3>4
  <2>7. LabsFine' /\ lab'[l] = row /\ \A m \in Labs : m # l => lab'[m] = lab[m]
    <3>1. row.pi # None => row.pi \in row.members
      BY <2>6
    <3>2. \A v \in row.members : students'[v].uid # 0 \/ \E m \in Labs : v \in lab[m].members
      BY <2>4, <2>6
    <3> QED  BY <1>2, <2>4, <2>6, <3>1, <3>2, LabWritten
  <2>8. PlacesFine'
    <3>1. \A m \in Labs : lab[m].live => lab'[m].live
      BY <1>1, <2>6, <2>7
    <3> QED  BY <1>1, <1>2, <3>1, PlacesStay
  <2>9. AccountsFine'
    <3>1. {u} \in SUBSET RosterUsers /\ lab'[l].members = lab[l].members \cup {u}
      BY <1>2, <2>6, <2>7
    <3> QED  BY <1>1, <1>2, <2>1, <2>5, <2>7, <3>1, Provisioned
  <2> QED  BY <1>4, <2>3, <2>4, <2>7, <2>8, <2>9 DEF RosterInv
<1> QED  BY <1>5, <1>6

\* A member who is not the PI is removed, with all accounts.
LEMMA StudentRemoved ==
    ASSUME RosterInv, NEW l \in Labs, NEW u \in RosterUsers, R!RemoveStudentFromLab(l, u)
    PROVE  RosterInv' /\ Keeps(students, students')
<1> DEFINE x == lab[l].members \ {u}
           g == [n \in RosterNodes |-> acct[l][n] \ {u}]
<1>1. /\ lab[l].live /\ u # lab[l].pi /\ lab' = [lab EXCEPT ![l].members = x]
      /\ acct' = [acct EXCEPT ![l] = g]
      /\ cut' = {a \in cut : ~(a[1] = l /\ a[3] = u)}
      /\ students' = students /\ place' = place /\ last' = R!NoImport
  BY DEF R!RemoveStudentFromLab
<1>2. /\ PeopleFine(students) /\ LabsFine /\ PlacesFine /\ lab \in [Labs -> LabRows] /\ Keeps(students, students')
      /\ acct \in [Labs -> [RosterNodes -> SUBSET RosterUsers]]
      /\ cut \subseteq Labs \X RosterNodes \X RosterUsers
      /\ \A m \in Labs, n \in RosterNodes :
            acct[m][n] = IF place[m][n] = 0 THEN {} ELSE {v \in lab[m].members : <<m, n, v>> \notin cut}
      /\ \A m \in Labs, n \in RosterNodes, v \in RosterUsers : <<m, n, v>> \in cut => place[m][n] # 0
  BY <1>1 DEF RosterInv, LabsFine, AccountsFine, R!AccessMatchesRoster, Keeps
<1>3. lab[l].members \in SUBSET RosterUsers /\ x \in SUBSET RosterUsers
  BY <1>2 DEF LabRows
<1>4. PICK row \in LabRows : lab' = [lab EXCEPT ![l] = row] /\ row.live = lab[l].live /\ row.pi = lab[l].pi /\ row.members = x
  <2> HIDE DEF x
  <2> DEFINE r == [lab[l] EXCEPT !.members = x]
  <2>1. r \in LabRows /\ r.live = lab[l].live /\ r.pi = lab[l].pi /\ r.members = x
    BY <1>2, <1>3 DEF LabRows
  <2>2. lab' = [lab EXCEPT ![l] = r]
    BY <1>1
  <2> HIDE DEF r
  <2> QED  BY <2>1, <2>2
<1>5. LabsFine' /\ lab'[l] = row /\ \A m \in Labs : m # l => lab'[m] = lab[m]
  <2>1. row.pi # None => row.pi \in row.members
    BY <1>1, <1>2, <1>4 DEF LabsFine
  <2>2. \A v \in row.members : students'[v].uid # 0 \/ \E m \in Labs : v \in lab[m].members
    BY <1>4
  <2> QED  BY <1>2, <1>4, <2>1, <2>2, LabWritten
<1>6. PlacesFine'
  <2>1. \A m \in Labs : lab[m].live => lab'[m].live
    BY <1>4, <1>5
  <2> QED  BY <1>1, <1>2, <2>1, PlacesStay
<1>7. /\ \A m \in Labs : m # l => acct'[m] = acct[m]
      /\ \A n \in RosterNodes : acct'[l][n] = acct[l][n] \ {u}
      /\ acct' \in [Labs -> [RosterNodes -> SUBSET RosterUsers]]
  <2>1. g \in [RosterNodes -> SUBSET RosterUsers] /\ \A n \in RosterNodes : g[n] = acct[l][n] \ {u}
    BY <1>2
  <2> HIDE DEF g
  <2> QED  BY <1>1, <1>2, <2>1
<1>8. /\ cut' \subseteq cut
      /\ \A m \in Labs, n \in RosterNodes, v \in RosterUsers :
            <<m, n, v>> \in cut' <=> <<m, n, v>> \in cut /\ ~(m = l /\ v = u)
  BY <1>1
<1>9. ASSUME NEW m \in Labs, NEW n \in RosterNodes
      PROVE  acct'[m][n] = IF place'[m][n] = 0 THEN {} ELSE {v \in lab'[m].members : <<m, n, v>> \notin cut'}
  <2>1. acct[m][n] = IF place[m][n] = 0 THEN {} ELSE {v \in lab[m].members : <<m, n, v>> \notin cut}
    BY <1>2
  <2>2. lab[m].members \subseteq RosterUsers /\ lab'[m].members = (IF m = l THEN lab[m].members \ {u} ELSE lab[m].members)
    BY <1>2, <1>4, <1>5 DEF LabRows
  <2>3. acct'[m][n] = IF m = l THEN acct[m][n] \ {u} ELSE acct[m][n]
    BY <1>7
  <2>4. \A v \in RosterUsers : <<m, n, v>> \in cut' <=> <<m, n, v>> \in cut /\ ~(m = l /\ v = u)
    BY <1>8
  <2>5. CASE m = l
    <3>1. \A v \in RosterUsers : v \in lab'[m].members <=> v \in lab[m].members /\ v # u
      BY <2>2, <2>5
    <3>2. place[m][n] # 0 => \A v \in RosterUsers : v \in acct'[m][n] <=> v \in lab[m].members /\ v # u /\ <<m, n, v>> \notin cut
      BY <2>1, <2>3, <2>5
    <3>3. \A v \in RosterUsers : <<m, n, v>> \in cut' <=> <<m, n, v>> \in cut /\ v # u
      BY <2>4, <2>5
    <3>4. place[m][n] # 0 => \A v \in RosterUsers : v \in acct'[m][n] <=> v \in lab'[m].members /\ <<m, n, v>> \notin cut'
      BY <3>1, <3>2, <3>3
    <3>5. acct'[m][n] \subseteq RosterUsers /\ lab'[m].members \subseteq RosterUsers
      BY <1>7, <2>2
    <3>6. place[m][n] = 0 => acct'[m][n] = {}
      BY <2>1, <2>3
    <3> QED  BY <1>1, <3>4, <3>5, <3>6
  <2>6. CASE m # l
    BY <1>1, <2>1, <2>2, <2>3, <2>4, <2>6
  <2> QED  BY <2>5, <2>6
<1>10. AccountsFine'
  <2>1. \A m \in Labs, n \in RosterNodes, v \in RosterUsers : <<m, n, v>> \in cut' => place'[m][n] # 0
    BY <1>1, <1>2, <1>8
  <2>2. cut' \subseteq Labs \X RosterNodes \X RosterUsers
    BY <1>2, <1>8
  <2> QED  BY <1>7, <1>9, <2>1, <2>2 DEF AccountsFine, R!AccessMatchesRoster
<1>11. R!ImportIdempotent'
  BY <1>1 DEF R!ImportIdempotent, R!NoImport
<1> QED  BY <1>1, <1>2, <1>5, <1>6, <1>10, <1>11 DEF RosterInv

\* Only a lab's address changes.
LEMMA MetaUpdated ==
    ASSUME RosterInv, NEW l \in Labs, NEW m \in RosterMails \cup {None}, R!UpdateLabMeta(l, m)
    PROVE  RosterInv' /\ Keeps(students, students')
<1>1. /\ lab' = [lab EXCEPT ![l].mail = m] /\ last' = R!NoImport
      /\ students' = students /\ place' = place /\ acct' = acct /\ cut' = cut
  BY DEF R!UpdateLabMeta
<1>2. /\ PeopleFine(students) /\ LabsFine /\ PlacesFine /\ AccountsFine /\ lab \in [Labs -> LabRows]
      /\ Keeps(students, students')
  BY <1>1 DEF RosterInv, LabsFine, Keeps
<1>3. PICK row \in LabRows : /\ lab' = [lab EXCEPT ![l] = row] /\ row.live = lab[l].live /\ row.pi = lab[l].pi
                             /\ row.members = lab[l].members
  <2> DEFINE r == [lab[l] EXCEPT !.mail = m]
  <2>1. r \in LabRows /\ r.live = lab[l].live /\ r.pi = lab[l].pi /\ r.members = lab[l].members
    BY <1>2 DEF LabRows
  <2>2. lab' = [lab EXCEPT ![l] = r]
    BY <1>1
  <2> HIDE DEF r
  <2> QED  BY <2>1, <2>2
<1>4. LabsFine' /\ lab'[l] = row /\ \A k \in Labs : k # l => lab'[k] = lab[k]
  <2>1. row.pi # None => row.pi \in row.members
    BY <1>2, <1>3 DEF LabsFine
  <2>2. \A v \in row.members : students'[v].uid # 0 \/ \E k \in Labs : v \in lab[k].members
    BY <1>3
  <2> QED  BY <1>2, <1>3, <2>1, <2>2, LabWritten
<1>5. PlacesFine'
  <2>1. \A k \in Labs : lab[k].live => lab'[k].live
    BY <1>3, <1>4
  <2> QED  BY <1>1, <1>2, <2>1, PlacesStay
<1>6. AccountsFine'
  <2>1. \A k \in Labs : lab'[k].members = lab[k].members
    BY <1>3, <1>4
  <2> QED  BY <1>1, <1>2, <2>1, AccountsStay
<1>7. R!ImportIdempotent'
  BY <1>1 DEF R!ImportIdempotent, R!NoImport
<1> QED  BY <1>1, <1>2, <1>4, <1>5, <1>6, <1>7 DEF RosterInv

\* A lab is made, with its PI if there is a UID left and with the members of another.
LEMMA LabCreated ==
    ASSUME RosterInv, NEW l \in Labs, NEW from \in Labs, NEW in \in R!PiForms, R!CreateLab(l, from, in)
    PROVE  RosterInv' /\ Keeps(students, students')
<1> DEFINE pi == {in.user} \ {None}
           ok == \A u \in pi : R!CanRecord(in)
           s == R!WithRecord(in)
           p == IF ok THEN in.user ELSE None
           x == IF ok THEN pi \cup (lab[from].members \ pi) ELSE {}
           row == [live |-> TRUE, pi |-> p, mail |-> in.mail, members |-> x]
<1>1. /\ ~lab[l].live /\ place' = place /\ acct' = acct /\ cut' = cut /\ last' = R!NoImport
      /\ students' = IF pi # {} /\ ok THEN [s EXCEPT ![in.user].mail = in.mail] ELSE students
      /\ lab' = [lab EXCEPT ![l] = row]
  BY DEF R!CreateLab, R!CopiedMembers
<1>2. /\ PeopleFine(students) /\ LabsFine /\ PlacesFine /\ AccountsFine /\ lab \in [Labs -> LabRows]
      /\ in.user \in RosterUsers \cup {None} /\ in.sid = None /\ in.mail \in RosterMails \cup {None}
      /\ in.user # None => in \in R!Inputs /\ in.user \in RosterUsers
  BY DEF RosterInv, LabsFine, R!PiForms, R!Inputs
<1>3. /\ PeopleFine(students') /\ Keeps(students, students')
      /\ ok /\ in.user # None => students'[in.user].uid # 0
  <2>1. CASE in.user # None /\ ok
    <3>1. R!CanRecord(in) /\ students' = [s EXCEPT ![in.user].mail = in.mail]
      BY <1>1, <2>1
    <3>2. R!Match(in) = in.user /\ PeopleFine(s) /\ Keeps(students, s) /\ s[R!Match(in)].uid # 0
      BY <1>2, <2>1, <3>1, Recorded
    <3> HIDE DEF s, ok
    <3>3. /\ PeopleFine([s EXCEPT ![in.user].mail = in.mail])
          /\ \A v \in RosterUsers : /\ [s EXCEPT ![in.user].mail = in.mail][v].uid = s[v].uid
                                    /\ [s EXCEPT ![in.user].mail = in.mail][v].sid = s[v].sid
      BY <1>2, <2>1, <3>2, Remailed
    <3>4. PeopleFine(students') /\ \A v \in RosterUsers : students'[v].uid = s[v].uid /\ students'[v].sid = s[v].sid
      BY <3>1, <3>3
    <3> QED  BY <1>2, <2>1, <3>2, <3>4 DEF Keeps
  <2>2. CASE ~(in.user # None /\ ok)
    <3>1. students' = students
      BY <1>1, <2>2
    <3> QED  BY <1>2, <2>2, <3>1 DEF Keeps
  <2> QED  BY <2>1, <2>2
<1>4. /\ p \in RosterUsers \cup {None} /\ x \in SUBSET RosterUsers /\ (p # None => p \in x)
      /\ \A v \in x : (ok /\ v = in.user /\ in.user # None) \/ v \in lab[from].members
  <2>1. lab[from].members \subseteq RosterUsers
    BY <1>2 DEF LabRows
  <2> HIDE DEF ok
  <2> QED  BY <1>2, <2>1
<1> HIDE DEF p, x
<1>5. row \in LabRows /\ row.live = TRUE /\ row.pi = p /\ row.mail = in.mail /\ row.members = x
  BY <1>2, <1>4 DEF LabRows
<1> HIDE DEF row, ok
<1>6. LabsFine' /\ lab'[l] = row /\ \A k \in Labs : k # l => lab'[k] = lab[k]
  <2>1. row.pi # None => row.pi \in row.members
    BY <1>4, <1>5
  <2>2. \A v \in row.members : students'[v].uid # 0 \/ \E k \in Labs : v \in lab[k].members
    BY <1>3, <1>4, <1>5
  <2> QED  BY <1>1, <1>2, <1>3, <1>5, <2>1, <2>2, LabWritten
<1>7. PlacesFine'
  <2>1. \A k \in Labs : lab[k].live => lab'[k].live
    BY <1>1, <1>5, <1>6
  <2> QED  BY <1>1, <1>2, <2>1, PlacesStay
<1>8. AccountsFine'
  <2>1. \A k \in Labs, n \in RosterNodes : place[k][n] # 0 => k # l
    BY <1>1, <1>2 DEF PlacesFine
  <2>2. \A k \in Labs, n \in RosterNodes : place[k][n] # 0 => lab'[k].members = lab[k].members
    BY <1>6, <2>1
  <2> QED  BY <1>1, <1>2, <2>2, AccountsStay
<1>9. R!ImportIdempotent'
  BY <1>1 DEF R!ImportIdempotent, R!NoImport
<1> QED  BY <1>3, <1>6, <1>7, <1>8, <1>9 DEF RosterInv

\* The lowest free port is a port, and no other lab has it.
LEMMA PortIs ==
    ASSUME NEW n \in RosterNodes, R!FreePorts(n) # {}
    PROVE  R!NextSshPort(n) \in 1..LastPort /\ \A l \in Labs : place[l][n] # R!NextSshPort(n)
<1>1. R!FreePorts(n) \subseteq Nat /\ IsFiniteSet(R!FreePorts(n))
  <2>1. R!FreePorts(n) \subseteq 1..LastPort
    BY DEF R!FreePorts
  <2>2. 1 \in Int /\ LastPort \in Int /\ 1..LastPort \subseteq Nat
    BY RosterAssumption
  <2>3. IsFiniteSet(1..LastPort)
    BY <2>2, FS_Interval
  <2> QED  BY <2>1, <2>2, <2>3, FS_Subset
<1>2. R!NextSshPort(n) \in R!FreePorts(n)
  <2> DEFINE S == R!FreePorts(n)
  <2>1. R!NextSshPort(n) = CHOOSE p \in S : \A q \in S : p <= q
    BY DEF R!NextSshPort
  <2> HIDE DEF S
  <2>2. S # {} /\ S \subseteq Nat /\ IsFiniteSet(S)
    BY <1>1 DEF S
  <2>3. \E p \in S : \A q \in S : p <= q
    BY <2>2, LeastIs
  <2>4. R!NextSshPort(n) \in S
    BY <2>1, <2>3
  <2> QED  BY <2>4 DEF S
<1> QED  BY <1>2 DEF R!FreePorts

\* The placed lab gets the accounts of the roster as it stands.
LEMMA PlacementCreated ==
    ASSUME RosterInv, NEW l \in Labs, NEW n \in RosterNodes, R!CreatePlacement(l, n)
    PROVE  RosterInv' /\ Keeps(students, students')
<1> DEFINE port == R!NextSshPort(n)
<1>1. /\ lab[l].live /\ place[l][n] = 0 /\ R!FreePorts(n) # {}
      /\ place' = [place EXCEPT ![l][n] = port] /\ acct' = [acct EXCEPT ![l][n] = lab[l].members]
      /\ cut' = cut /\ lab' = lab /\ students' = students /\ last' = R!NoImport
  BY DEF R!CreatePlacement
<1>2. port \in 1..LastPort /\ \A m \in Labs : place[m][n] # port
  BY <1>1, PortIs
<1> HIDE DEF port
<1>3. port # 0 /\ port \in 0..LastPort
  BY <1>2, RosterAssumption
<1>4. /\ PeopleFine(students) /\ LabsFine /\ PlacesFine /\ AccountsFine
      /\ place \in [Labs -> [RosterNodes -> 0..LastPort]] /\ acct \in [Labs -> [RosterNodes -> SUBSET RosterUsers]]
      /\ lab[l].members \in SUBSET RosterUsers
  BY DEF RosterInv, LabsFine, PlacesFine, AccountsFine, LabRows
<1>5. /\ place' \in [Labs -> [RosterNodes -> 0..LastPort]]
      /\ \A m \in Labs, k \in RosterNodes : place'[m][k] = IF m = l /\ k = n THEN port ELSE place[m][k]
  BY <1>1, <1>3, <1>4
<1>6. /\ acct' \in [Labs -> [RosterNodes -> SUBSET RosterUsers]]
      /\ \A m \in Labs, k \in RosterNodes : acct'[m][k] = IF m = l /\ k = n THEN lab[l].members ELSE acct[m][k]
  BY <1>1, <1>4
<1>7. PlacesFine'
  <2>1. \A m, o \in Labs, k \in RosterNodes : m # o /\ place'[m][k] # 0 => place'[m][k] # place'[o][k]
    <3> SUFFICES ASSUME NEW m \in Labs, NEW o \in Labs, NEW k \in RosterNodes, m # o, place'[m][k] # 0
                 PROVE  place'[m][k] # place'[o][k]
      OBVIOUS
    <3>1. /\ k = n => place[m][k] # port /\ place[o][k] # port
          /\ place[m][k] # 0 => place[m][k] # place[o][k]
      BY <1>2, <1>4 DEF PlacesFine
    <3>2. /\ place'[m][k] = IF m = l /\ k = n THEN port ELSE place[m][k]
          /\ place'[o][k] = IF o = l /\ k = n THEN port ELSE place[o][k]
      BY <1>5
    <3>3. CASE m = l /\ k = n
      BY <3>1, <3>2, <3>3
    <3>4. CASE ~(m = l /\ k = n)
      BY <3>1, <3>2, <3>4
    <3> QED  BY <3>3, <3>4
  <2>2. \A m \in Labs, k \in RosterNodes : place'[m][k] # 0 => lab'[m].live
    BY <1>1, <1>4, <1>5 DEF PlacesFine
  <2> QED  BY <1>5, <2>1, <2>2 DEF PlacesFine
<1>8. AccountsFine'
  <2>1. /\ cut \subseteq Labs \X RosterNodes \X RosterUsers
        /\ \A m \in Labs, k \in RosterNodes, u \in RosterUsers : <<m, k, u>> \in cut => place[m][k] # 0
        /\ \A m \in Labs, k \in RosterNodes :
              acct[m][k] = IF place[m][k] = 0 THEN {} ELSE {u \in lab[m].members : <<m, k, u>> \notin cut}
    BY <1>4 DEF AccountsFine, R!AccessMatchesRoster
  <2>2. \A m \in Labs, k \in RosterNodes, u \in RosterUsers : <<m, k, u>> \in cut' => place'[m][k] # 0
    BY <1>1, <1>3, <1>5, <2>1
  <2>3. ASSUME NEW m \in Labs, NEW k \in RosterNodes
        PROVE  acct'[m][k] = IF place'[m][k] = 0 THEN {} ELSE {u \in lab'[m].members : <<m, k, u>> \notin cut'}
    <3>1. CASE m = l /\ k = n
      <4>1. \A u \in lab[l].members : <<l, n, u>> \notin cut
        BY <1>1, <1>4, <2>1
      <4>2. acct'[m][k] = lab[l].members /\ place'[m][k] = port
        BY <1>5, <1>6, <3>1
      <4> QED  BY <1>1, <1>3, <3>1, <4>1, <4>2
    <3>2. CASE ~(m = l /\ k = n)
      <4>1. acct'[m][k] = acct[m][k] /\ place'[m][k] = place[m][k]
        BY <1>5, <1>6, <3>2
      <4>2. acct[m][k] = IF place[m][k] = 0 THEN {} ELSE {u \in lab[m].members : <<m, k, u>> \notin cut}
        BY <2>1
      <4> QED  BY <1>1, <4>1, <4>2
    <3> QED  BY <3>1, <3>2
  <2> QED  BY <1>1, <1>6, <2>1, <2>2, <2>3 DEF AccountsFine, R!AccessMatchesRoster
<1>9. R!ImportIdempotent'
  BY <1>1 DEF R!ImportIdempotent, R!NoImport
<1>10. LabsFine'
  BY <1>1, <1>4 DEF LabsFine
<1> QED  BY <1>1, <1>4, <1>7, <1>8, <1>9, <1>10 DEF RosterInv, Keeps

\* Placements of a lab go, with their accounts and with what a crash cut off.
LEMMA PlacesDropped ==
    ASSUME PlacesFine, AccountsFine, NEW l \in Labs, NEW purged \in SUBSET RosterNodes,
           place' \in [Labs -> [RosterNodes -> 0..LastPort]], acct' \in [Labs -> [RosterNodes -> SUBSET RosterUsers]],
           \A m \in Labs, k \in RosterNodes : place'[m][k] = IF m = l /\ k \in purged THEN 0 ELSE place[m][k],
           \A m \in Labs, k \in RosterNodes : acct'[m][k] = IF m = l /\ k \in purged THEN {} ELSE acct[m][k],
           cut' \subseteq cut,
           \A m \in Labs, k \in RosterNodes, u \in RosterUsers :
              <<m, k, u>> \in cut' <=> <<m, k, u>> \in cut /\ ~(m = l /\ k \in purged),
           \A m \in Labs, k \in RosterNodes : place'[m][k] # 0 =>
              /\ lab[m].live => lab'[m].live
              /\ lab'[m].members = lab[m].members /\ lab[m].members \subseteq RosterUsers
    PROVE  PlacesFine' /\ AccountsFine'
<1>1. PlacesFine'
  <2>1. \A m, o \in Labs, k \in RosterNodes : m # o /\ place'[m][k] # 0 => place'[m][k] # place'[o][k]
    BY DEF PlacesFine
  <2>2. \A m \in Labs, k \in RosterNodes : place'[m][k] # 0 => lab'[m].live
    BY DEF PlacesFine
  <2> QED  BY <2>1, <2>2 DEF PlacesFine
<1>2. AccountsFine'
  <2>1. /\ cut \subseteq Labs \X RosterNodes \X RosterUsers
        /\ \A m \in Labs, k \in RosterNodes, u \in RosterUsers : <<m, k, u>> \in cut => place[m][k] # 0
        /\ \A m \in Labs, k \in RosterNodes :
              acct[m][k] = IF place[m][k] = 0 THEN {} ELSE {u \in lab[m].members : <<m, k, u>> \notin cut}
    BY DEF AccountsFine, R!AccessMatchesRoster
  <2>2. \A m \in Labs, k \in RosterNodes, u \in RosterUsers : <<m, k, u>> \in cut' => place'[m][k] # 0
    BY <2>1
  <2>3. ASSUME NEW m \in Labs, NEW k \in RosterNodes
        PROVE  acct'[m][k] = IF place'[m][k] = 0 THEN {} ELSE {u \in lab'[m].members : <<m, k, u>> \notin cut'}
    <3>1. CASE m = l /\ k \in purged
      BY <3>1
    <3>2. CASE ~(m = l /\ k \in purged)
      <4>1. acct'[m][k] = acct[m][k] /\ place'[m][k] = place[m][k]
        BY <3>2
      <4>2. /\ place[m][k] = 0 => acct[m][k] = {}
            /\ place[m][k] # 0 => \A u : u \in acct[m][k] <=> u \in lab[m].members /\ <<m, k, u>> \notin cut
        BY AccountsAt
      <4>3. CASE place[m][k] = 0
        BY <4>1, <4>2, <4>3
      <4>4. CASE place[m][k] # 0
        <5>1. lab'[m].members = lab[m].members /\ lab[m].members \subseteq RosterUsers
          BY <4>1, <4>4
        <5>2. \A u \in RosterUsers : <<m, k, u>> \in cut' <=> <<m, k, u>> \in cut
          BY <3>2
        <5>3. \A u : u \in acct'[m][k] <=> u \in lab'[m].members /\ <<m, k, u>> \notin cut'
          BY <4>1, <4>2, <4>4, <5>1, <5>2
        <5> QED  BY <4>1, <4>4, <5>3
      <4> QED  BY <4>3, <4>4
    <3> QED  BY <3>1, <3>2
  <2>4. cut' \subseteq Labs \X RosterNodes \X RosterUsers
    BY <2>1
  <2> QED  BY <2>2, <2>3, <2>4 DEF AccountsFine, R!AccessMatchesRoster
<1> QED  BY <1>1, <1>2

\* A placement goes, with its accounts.
LEMMA PlacementIsGone ==
    ASSUME RosterInv, NEW l \in Labs, NEW n \in RosterNodes, R!PlacementGone(l, n)
    PROVE  RosterInv' /\ Keeps(students, students')
<1>1. /\ place' = [place EXCEPT ![l][n] = 0] /\ acct' = [acct EXCEPT ![l][n] = {}]
      /\ cut' = {a \in cut : ~(a[1] = l /\ a[2] = n)}
      /\ lab' = lab /\ students' = students /\ last' = R!NoImport
  BY DEF R!PlacementGone
<1>2. /\ PeopleFine(students) /\ LabsFine /\ PlacesFine /\ AccountsFine
      /\ place \in [Labs -> [RosterNodes -> 0..LastPort]] /\ acct \in [Labs -> [RosterNodes -> SUBSET RosterUsers]]
      /\ \A m \in Labs : lab[m].members \subseteq RosterUsers
  BY DEF RosterInv, LabsFine, PlacesFine, AccountsFine, LabRows
<1>3. 0 \in 0..LastPort
  BY RosterAssumption
<1>4. /\ place' \in [Labs -> [RosterNodes -> 0..LastPort]]
      /\ \A m \in Labs, k \in RosterNodes : place'[m][k] = IF m = l /\ k \in {n} THEN 0 ELSE place[m][k]
  BY <1>1, <1>2, <1>3
<1>5. /\ acct' \in [Labs -> [RosterNodes -> SUBSET RosterUsers]]
      /\ \A m \in Labs, k \in RosterNodes : acct'[m][k] = IF m = l /\ k \in {n} THEN {} ELSE acct[m][k]
  BY <1>1, <1>2
<1>6. /\ cut' \subseteq cut
      /\ \A m \in Labs, k \in RosterNodes, u \in RosterUsers :
            <<m, k, u>> \in cut' <=> <<m, k, u>> \in cut /\ ~(m = l /\ k \in {n})
  BY <1>1
<1>7. PlacesFine' /\ AccountsFine'
  <2>1. {n} \in SUBSET RosterNodes
    OBVIOUS
  <2>2. \A m \in Labs, k \in RosterNodes : place'[m][k] # 0 =>
           /\ lab[m].live => lab'[m].live
           /\ lab'[m].members = lab[m].members /\ lab[m].members \subseteq RosterUsers
    BY <1>1, <1>2
  <2> QED  BY <1>2, <1>4, <1>5, <1>6, <2>1, <2>2, PlacesDropped
<1>8. R!ImportIdempotent'
  BY <1>1 DEF R!ImportIdempotent, R!NoImport
<1>9. LabsFine'
  BY <1>1, <1>2 DEF LabsFine
<1> QED  BY <1>1, <1>2, <1>7, <1>8, <1>9 DEF RosterInv, Keeps

\* While a student is enrolled somewhere, the UID and the university id stay.
Enrolled(u) == \E l \in Labs : u \in lab[l].members

EnrolledKept ==
    \A u \in RosterUsers : Enrolled(u) /\ Enrolled(u)' =>
       /\ students'[u].uid = students[u].uid
       /\ students[u].sid # None => students'[u].sid = students[u].sid

\* Records are kept, and members have records.
LEMMA KeptSuffices ==
    ASSUME LabsFine, Keeps(students, students')
    PROVE  EnrolledKept
  BY DEF LabsFine, Keeps, Enrolled, EnrolledKept

\* Whatever DestroyLab purges goes from the placements, the accounts and the history.
LEMMA Purged ==
    ASSUME PlacesFine, AccountsFine, NEW l \in Labs, NEW purged, R!DestroyLab(l, purged)
    PROVE  /\ purged \in SUBSET RosterNodes /\ \A k \in RosterNodes : k \in R!Placed(l) <=> place[l][k] # 0
           /\ place' \in [Labs -> [RosterNodes -> 0..LastPort]] /\ acct' \in [Labs -> [RosterNodes -> SUBSET RosterUsers]]
           /\ \A m \in Labs, k \in RosterNodes : place'[m][k] = IF m = l /\ k \in purged THEN 0 ELSE place[m][k]
           /\ \A m \in Labs, k \in RosterNodes : acct'[m][k] = IF m = l /\ k \in purged THEN {} ELSE acct[m][k]
           /\ cut' \subseteq cut
           /\ \A m \in Labs, k \in RosterNodes, u \in RosterUsers :
                 <<m, k, u>> \in cut' <=> <<m, k, u>> \in cut /\ ~(m = l /\ k \in purged)
<1> DEFINE p == [k \in RosterNodes |-> IF k \in purged THEN 0 ELSE place[l][k]]
           g == [k \in RosterNodes |-> IF k \in purged THEN {} ELSE acct[l][k]]
<1>1. /\ purged \subseteq R!Placed(l) /\ place' = [place EXCEPT ![l] = p] /\ acct' = [acct EXCEPT ![l] = g]
      /\ cut' = {a \in cut : ~(a[1] = l /\ a[2] \in purged)}
  BY DEF R!DestroyLab
<1>2. R!Placed(l) \subseteq RosterNodes /\ \A k \in RosterNodes : k \in R!Placed(l) <=> place[l][k] # 0
  BY DEF R!Placed
<1>3. place \in [Labs -> [RosterNodes -> 0..LastPort]] /\ acct \in [Labs -> [RosterNodes -> SUBSET RosterUsers]]
  BY DEF PlacesFine, AccountsFine
<1>4. p \in [RosterNodes -> 0..LastPort] /\ \A k \in RosterNodes : p[k] = IF k \in purged THEN 0 ELSE place[l][k]
  BY <1>3, RosterAssumption
<1>5. g \in [RosterNodes -> SUBSET RosterUsers] /\ \A k \in RosterNodes : g[k] = IF k \in purged THEN {} ELSE acct[l][k]
  BY <1>3
<1> HIDE DEF p, g
<1>6. /\ place' \in [Labs -> [RosterNodes -> 0..LastPort]]
      /\ \A m \in Labs, k \in RosterNodes : place'[m][k] = IF m = l /\ k \in purged THEN 0 ELSE place[m][k]
  BY <1>1, <1>3, <1>4
<1>7. /\ acct' \in [Labs -> [RosterNodes -> SUBSET RosterUsers]]
      /\ \A m \in Labs, k \in RosterNodes : acct'[m][k] = IF m = l /\ k \in purged THEN {} ELSE acct[m][k]
  BY <1>1, <1>3, <1>5
<1>8. /\ cut' \subseteq cut
      /\ \A m \in Labs, k \in RosterNodes, u \in RosterUsers :
            <<m, k, u>> \in cut' <=> <<m, k, u>> \in cut /\ ~(m = l /\ k \in purged)
  BY <1>1
<1> QED  BY <1>1, <1>2, <1>6, <1>7, <1>8

\* A lab goes with the last of its placements, and with it students who are in no
\* other lab.
LEMMA LabDestroyed ==
    ASSUME RosterInv, NEW l \in Labs, NEW purged, R!DestroyLab(l, purged)
    PROVE  RosterInv' /\ EnrolledKept
<1>1. PeopleFine(students) /\ LabsFine /\ PlacesFine /\ AccountsFine /\ lab \in [Labs -> LabRows]
      /\ \A m \in Labs : lab[m].members \subseteq RosterUsers
  BY DEF RosterInv, LabsFine, LabRows
<1>2. last' = R!NoImport
  BY DEF R!DestroyLab
<1>3. R!ImportIdempotent'
  BY <1>2 DEF R!ImportIdempotent, R!NoImport
<1>4. /\ purged \in SUBSET RosterNodes /\ \A k \in RosterNodes : k \in R!Placed(l) <=> place[l][k] # 0
      /\ place' \in [Labs -> [RosterNodes -> 0..LastPort]] /\ acct' \in [Labs -> [RosterNodes -> SUBSET RosterUsers]]
      /\ \A m \in Labs, k \in RosterNodes : place'[m][k] = IF m = l /\ k \in purged THEN 0 ELSE place[m][k]
      /\ \A m \in Labs, k \in RosterNodes : acct'[m][k] = IF m = l /\ k \in purged THEN {} ELSE acct[m][k]
      /\ cut' \subseteq cut
      /\ \A m \in Labs, k \in RosterNodes, u \in RosterUsers :
            <<m, k, u>> \in cut' <=> <<m, k, u>> \in cut /\ ~(m = l /\ k \in purged)
  BY <1>1, Purged
<1>5. CASE purged # R!Placed(l)
  <2>1. lab' = lab /\ students' = students
    BY <1>5 DEF R!DestroyLab
  <2>2. \A m \in Labs, k \in RosterNodes : place'[m][k] # 0 =>
           /\ lab[m].live => lab'[m].live
           /\ lab'[m].members = lab[m].members /\ lab[m].members \subseteq RosterUsers
    BY <1>1, <2>1
  <2>3. PlacesFine' /\ AccountsFine'
    BY <1>1, <1>4, <2>2, PlacesDropped
  <2>4. LabsFine' /\ PeopleFine(students')
    BY <1>1, <2>1 DEF LabsFine
  <2>5. EnrolledKept
    BY <2>1 DEF EnrolledKept
  <2> QED  BY <1>3, <2>3, <2>4, <2>5 DEF RosterInv
<1>6. CASE purged = R!Placed(l)
  <2>1. PICK gone \in SUBSET R!Orphans(l) :
           students' = [u \in RosterUsers |-> IF u \in gone THEN R!NoStudent ELSE students[u]]
    BY <1>6 DEF R!DestroyLab
  <2>2. lab' = [lab EXCEPT ![l] = R!NoLab]
    BY <1>6 DEF R!DestroyLab
  <2>3. /\ R!NoLab \in LabRows /\ R!NoLab.pi = None /\ R!NoLab.members = {}
    BY DEF R!NoLab, LabRows
  <2>4. lab' \in [Labs -> LabRows] /\ lab'[l] = R!NoLab /\ \A m \in Labs : m # l => lab'[m] = lab[m]
    BY <1>1, <2>2, <2>3
  <2>5. gone \in SUBSET RosterUsers /\ \A m \in Labs : m # l => \A u \in lab[m].members : u \notin gone
    BY <1>1, <2>1 DEF R!Orphans
  <2>6. PeopleFine(students') /\ \A u \in RosterUsers \ gone : students'[u] = students[u]
    BY <1>1, <2>1, <2>5, Dropped
  <2>7. \A m \in Labs : \A u \in lab'[m].members :
           m # l /\ u \in lab[m].members /\ u \in RosterUsers \ gone
    BY <1>1, <2>3, <2>4, <2>5
  <2>8. LabsFine'
    <3>1. ASSUME NEW m \in Labs
          PROVE  lab'[m].pi # None => lab'[m].pi \in lab'[m].members
      BY <1>1, <2>3, <2>4 DEF LabsFine
    <3>2. ASSUME NEW m \in Labs, NEW u \in lab'[m].members
          PROVE  students'[u].uid # 0
      BY <1>1, <2>6, <2>7 DEF LabsFine
    <3> QED  BY <2>4, <3>1, <3>2 DEF LabsFine
  <2>9. PlacesFine' /\ AccountsFine'
    <3>1. \A m \in Labs, k \in RosterNodes : place'[m][k] # 0 => m # l
      BY <1>4, <1>6
    <3>2. \A m \in Labs, k \in RosterNodes : place'[m][k] # 0 =>
             /\ lab[m].live => lab'[m].live
             /\ lab'[m].members = lab[m].members /\ lab[m].members \subseteq RosterUsers
      BY <1>1, <2>4, <3>1
    <3> QED  BY <1>1, <1>4, <3>2, PlacesDropped
  <2>10. EnrolledKept
    <3>1. \A u \in RosterUsers : Enrolled(u)' => u \notin gone
      BY <2>7 DEF Enrolled
    <3> QED  BY <2>6, <3>1 DEF EnrolledKept
  <2> QED  BY <1>3, <2>6, <2>8, <2>9, <2>10 DEF RosterInv
<1> QED  BY <1>5, <1>6

\* What the import of a file does to the lab's row.
LEMMA ImportsLab ==
    ASSUME LabsFine, NEW l \in Labs, NEW f \in Seq(RosterRows), R!ApplyRosterImport(l, f)
    PROVE  \E row \in LabRows :
              /\ lab' = [lab EXCEPT ![l] = row] /\ row.live = lab[l].live
              /\ row.pi = IF R!PiUser(f) = None THEN lab[l].pi ELSE R!PiUser(f)
              /\ row.mail = IF R!PiMail(f) = None THEN lab[l].mail ELSE R!PiMail(f)
              /\ row.members = lab[l].members \cup R!ToAdd(l, f)
<1> DEFINE p == IF R!PiUser(f) = None THEN lab[l].pi ELSE R!PiUser(f)
           m == IF R!PiMail(f) = None THEN lab[l].mail ELSE R!PiMail(f)
           x == lab[l].members \cup R!ToAdd(l, f)
           r1 == [lab[l] EXCEPT !.pi = p]
           r2 == [r1 EXCEPT !.mail = m]
           r3 == [r2 EXCEPT !.members = x]
<1>1. lab \in [Labs -> LabRows] /\ lab[l] \in LabRows
  BY DEF LabsFine
<1>2. R!PlanOk(f) /\ R!ToAdd(l, f) \subseteq R!Batch(f)
  BY DEF R!ApplyRosterImport, R!ToAdd
<1>3. p \in RosterUsers \cup {None} /\ m \in RosterMails \cup {None} /\ x \in SUBSET RosterUsers
  BY <1>1, <1>2, SaidAre DEF LabRows
<1>4. lab' = [lab EXCEPT ![l] = r3]
  BY <1>1 DEF R!ApplyRosterImport, LabRows
<1> HIDE DEF p, m, x
<1>5. r1 \in LabRows /\ r1.live = lab[l].live /\ r1.pi = p
  BY <1>1, <1>3 DEF LabRows
<1> HIDE DEF r1
<1>6. r2 \in LabRows /\ r2.live = lab[l].live /\ r2.pi = p /\ r2.mail = m
  BY <1>3, <1>5 DEF LabRows
<1> HIDE DEF r2
<1>7. r3 \in LabRows /\ r3.live = lab[l].live /\ r3.pi = p /\ r3.mail = m /\ r3.members = x
  BY <1>3, <1>6 DEF LabRows
<1> HIDE DEF r3
<1> QED  BY <1>4, <1>7 DEF p, m, x

\* A roster file is imported: everybody in it has a record and is a member, and
\* importing it again would change nothing.
LEMMA RosterImported ==
    ASSUME RosterInv, NEW l \in Labs, NEW f \in RosterFiles, R!ApplyRosterImport(l, f)
    PROVE  RosterInv' /\ Keeps(students, students')
<1> DEFINE x == R!ToAdd(l, f)
<1>1. f \in Seq(RosterRows)
  BY FilesAre
<1>2. /\ R!PlanOk(f) /\ R!Cardinality(R!ToCreate(f)) <= R!Cardinality(R!FreeUids)
      /\ R!Provision(l, x) /\ last' = [lab |-> l, file |-> f] /\ place' = place
  BY DEF R!ApplyRosterImport
<1>3. /\ PeopleFine(students) /\ LabsFine /\ PlacesFine /\ AccountsFine
      /\ \A m \in Labs : lab[m].members \subseteq RosterUsers
  BY DEF RosterInv, LabsFine, LabRows
<1>4. /\ R!Batch(f) \subseteq RosterUsers /\ R!PiUser(f) \in R!Batch(f) \cup {None}
      /\ x = {u \in R!Batch(f) : u \notin lab[l].members}
  BY <1>1, <1>2, SaidAre DEF R!ToAdd
<1>5. /\ PeopleFine(students') /\ Keeps(students, students')
      /\ \A u \in R!Batch(f) : students'[u].uid # 0
      /\ \A u \in RosterUsers : students'[u].sid = IF u \in R!Batch(f) /\ R!BatchSid(f, u) # None THEN R!BatchSid(f, u)
                                                   ELSE students[u].sid
      /\ \A u \in R!Batch(f) : R!BatchMail(f, u) # None => students'[u].mail = R!BatchMail(f, u)
  <2>1. /\ students' \in [RosterUsers -> StudentRows]
        /\ \A u \in R!ToCreate(f) : /\ students'[u].sid = R!BatchSid(f, u) /\ students'[u].mail = R!BatchMail(f, u)
                                    /\ students'[u].uid = R!NthFree(R!CreatedAs(f, u))
        /\ \A u \in R!ToUpdate(f) : /\ students'[u].sid = R!NewSid(f, u) /\ students'[u].mail = R!NewMail(f, u)
                                    /\ students'[u].uid = students[u].uid
        /\ \A u \in RosterUsers : u \notin R!ToCreate(f) /\ u \notin R!ToUpdate(f) => students'[u] = students[u]
    BY <1>1, <1>3, ImportWrites
  <2> QED  BY <1>1, <1>2, <1>3, <2>1, Imported
<1>6. R!PlanOk(f)' /\ R!ToCreate(f)' = {} /\ R!ToUpdate(f)' = {}
  BY <1>1, <1>2, <1>5, ImportedOnce
<1>7. PICK row \in LabRows :
              /\ lab' = [lab EXCEPT ![l] = row] /\ row.live = lab[l].live
              /\ row.pi = IF R!PiUser(f) = None THEN lab[l].pi ELSE R!PiUser(f)
              /\ row.mail = IF R!PiMail(f) = None THEN lab[l].mail ELSE R!PiMail(f)
              /\ row.members = lab[l].members \cup x
  BY <1>1, <1>3, ImportsLab
<1> HIDE DEF x
<1>8. LabsFine' /\ lab'[l] = row /\ \A m \in Labs : m # l => lab'[m] = lab[m]
  <2>1. row.pi # None => row.pi \in row.members
    BY <1>3, <1>4, <1>7 DEF LabsFine
  <2>2. \A v \in row.members : students'[v].uid # 0 \/ \E m \in Labs : v \in lab[m].members
    BY <1>4, <1>5, <1>7
  <2> QED  BY <1>3, <1>5, <1>7, <2>1, <2>2, LabWritten
<1>9. PlacesFine'
  <2>1. \A m \in Labs : lab[m].live => lab'[m].live
    BY <1>7, <1>8
  <2> QED  BY <1>2, <1>3, <2>1, PlacesStay
<1>10. AccountsFine'
  <2>1. x \in SUBSET RosterUsers /\ lab'[l].members = lab[l].members \cup x
    BY <1>4, <1>7, <1>8
  <2> QED  BY <1>2, <1>3, <1>8, <2>1, Provisioned
<1>11. R!ImportIdempotent'
  <2>1. last'.lab = l /\ last'.file = f
    BY <1>2
  <2>2. R!ToAdd(l, f)' = {}
    <3>1. \A u \in R!Batch(f) : u \in lab'[l].members
      BY <1>4, <1>7, <1>8
    <3> QED  BY <3>1 DEF R!ToAdd, R!Batch
  <2>3. ~R!PiChanges(l, f)'
    BY <1>7, <1>8 DEF R!PiChanges, R!PiUser, R!PiMail
  <2> QED  BY <1>6, <2>1, <2>2, <2>3 DEF R!ImportIdempotent
<1> QED  BY <1>5, <1>8, <1>9, <1>10, <1>11 DEF RosterInv

\* A row of an import of students is one student added.
LEMMA StudentsImported ==
    ASSUME RosterInv, NEW l \in Labs, NEW f \in RosterFiles, R!ImportStudents(l, f)
    PROVE  RosterInv' /\ Keeps(students, students')
<1>1. PICK i \in R!AcceptedRows(f) :
         R!AddStudentToLab(l, [user |-> f[i].user, sid |-> f[i].sid, mail |-> f[i].mail])
  BY DEF R!ImportStudents
<1>2. f \in Seq(RosterRows) /\ i \in DOMAIN f /\ f[i].user \in RosterUsers
  BY <1>1, FilesAre DEF R!AcceptedRows
<1>3. f[i] \in RosterRows
  BY <1>2, ElementOfSeq, LenProperties
<1>4. [user |-> f[i].user, sid |-> f[i].sid, mail |-> f[i].mail] \in R!Inputs
  BY <1>2, <1>3 DEF R!Inputs, RosterRows
<1> QED  BY <1>1, <1>4, StudentAdded

\* No people and no labs at first.
LEMMA RosterBegins == R!Init => RosterInv
<1> SUFFICES ASSUME R!Init PROVE RosterInv
  OBVIOUS
<1>1. /\ students = [u \in RosterUsers |-> R!NoStudent] /\ lab = [l \in Labs |-> R!NoLab]
      /\ place = [l \in Labs |-> [n \in RosterNodes |-> 0]] /\ acct = [l \in Labs |-> [n \in RosterNodes |-> {}]]
      /\ cut = {} /\ last = R!NoImport
  BY DEF R!Init
<1>2. /\ R!NoStudent \in StudentRows /\ R!NoStudent.uid = 0 /\ R!NoStudent.sid = None
      /\ R!NoLab \in LabRows /\ R!NoLab.pi = None /\ R!NoLab.members = {} /\ 0 \in 0..LastPort
  BY RosterAssumption DEF R!NoStudent, StudentRows, R!NoLab, LabRows
<1>3. PeopleFine(students)
  BY <1>1, <1>2 DEF PeopleFine
<1>4. LabsFine
  BY <1>1, <1>2 DEF LabsFine
<1>5. PlacesFine
  BY <1>1, <1>2 DEF PlacesFine
<1>6. AccountsFine
  BY <1>1, <1>2 DEF AccountsFine, R!AccessMatchesRoster
<1>7. R!ImportIdempotent
  BY <1>1 DEF R!ImportIdempotent
<1> QED  BY <1>3, <1>4, <1>5, <1>6, <1>7 DEF RosterInv

\* Every operation keeps the invariant and the identity of the enrolled.
LEMMA RosterStep == RosterInv /\ R!Next => RosterInv' /\ EnrolledKept
<1> SUFFICES ASSUME RosterInv, R!Next PROVE RosterInv' /\ EnrolledKept
  OBVIOUS
<1>1. PICK l \in Labs :
       \/ \E in \in R!Inputs : R!AddStudentToLab(l, in)
       \/ \E in \in R!PiInputs : R!EnsurePiAccess(l, in)
       \/ \E u \in RosterUsers : R!RemoveStudentFromLab(l, u)
       \/ \E m \in Labs, in \in R!PiForms : R!CreateLab(l, m, in)
       \/ \E m \in RosterMails \cup {None} : R!UpdateLabMeta(l, m)
       \/ \E n \in RosterNodes : R!CreatePlacement(l, n) \/ R!PlacementGone(l, n)
       \/ \E purged \in SUBSET R!Placed(l) : R!DestroyLab(l, purged)
       \/ \E f \in RosterFiles : R!ApplyRosterImport(l, f)
       \/ \E f \in RosterFiles : R!ImportStudents(l, f)
  BY DEF R!Next
<1>2. RosterInv' /\ Keeps(students, students') => RosterInv' /\ EnrolledKept
  BY KeptSuffices DEF RosterInv
<1>3. CASE \E in \in R!Inputs : R!AddStudentToLab(l, in)
  BY <1>2, <1>3, StudentAdded
<1>4. CASE \E in \in R!PiInputs : R!EnsurePiAccess(l, in)
  BY <1>2, <1>4, PiAdded
<1>5. CASE \E u \in RosterUsers : R!RemoveStudentFromLab(l, u)
  BY <1>2, <1>5, StudentRemoved
<1>6. CASE \E m \in Labs, in \in R!PiForms : R!CreateLab(l, m, in)
  BY <1>2, <1>6, LabCreated
<1>7. CASE \E m \in RosterMails \cup {None} : R!UpdateLabMeta(l, m)
  BY <1>2, <1>7, MetaUpdated
<1>8. CASE \E n \in RosterNodes : R!CreatePlacement(l, n) \/ R!PlacementGone(l, n)
  BY <1>2, <1>8, PlacementCreated, PlacementIsGone
<1>9. CASE \E purged \in SUBSET R!Placed(l) : R!DestroyLab(l, purged)
  BY <1>9, LabDestroyed
<1>10. CASE \E f \in RosterFiles : R!ApplyRosterImport(l, f)
  BY <1>2, <1>10, RosterImported
<1>11. CASE \E f \in RosterFiles : R!ImportStudents(l, f)
  BY <1>2, <1>11, StudentsImported
<1> QED  BY <1>1, <1>3, <1>4, <1>5, <1>6, <1>7, <1>8, <1>9, <1>10, <1>11

\* What the invariant says of the roster.
LEMMA RosterHolds ==
    ASSUME RosterInv
    PROVE  R!TypeOK /\ R!PiIsMember /\ R!KeysUnique /\ R!ImportIdempotent /\ R!AccessMatchesRoster
<1>1. R!TypeOK
  BY DEF RosterInv, PeopleFine, StudentRows, LabsFine, LabRows, PlacesFine, AccountsFine, R!TypeOK
<1>2. R!PiIsMember /\ R!ImportIdempotent /\ R!AccessMatchesRoster
  BY DEF RosterInv, LabsFine, AccountsFine, R!PiIsMember
<1>3. R!KeysUnique
  BY DEF RosterInv, PeopleFine, LabsFine, PlacesFine, R!KeysUnique, R!Known
<1> QED  BY <1>1, <1>2, <1>3

\* A file that would change nothing changes nothing as long as nothing else changes.
LEMMA ImportStays ==
    ASSUME R!ImportIdempotent, students' = students, lab' = lab, last' = last
    PROVE  R!ImportIdempotent'
<1> SUFFICES ASSUME last # R!NoImport
             PROVE  /\ R!PlanOk(last.file)'
                    /\ R!ToCreate(last.file)' = {} /\ R!ToUpdate(last.file)' = {}
                    /\ R!ToAdd(last.lab, last.file)' = {} /\ ~R!PiChanges(last.lab, last.file)'
  BY DEF R!ImportIdempotent
<1>1. R!PlanOk(last.file)' = R!PlanOk(last.file)
  BY DEF R!PlanOk, R!SidsDisagree
<1>2. R!ToCreate(last.file)' = R!ToCreate(last.file)
  BY DEF R!ToCreate, R!Known
<1>3. R!ToUpdate(last.file)' = R!ToUpdate(last.file)
  BY DEF R!ToUpdate, R!Known, R!NewSid, R!NewMail
<1>4. /\ R!ToAdd(last.lab, last.file)' = R!ToAdd(last.lab, last.file)
      /\ R!PiChanges(last.lab, last.file)' = R!PiChanges(last.lab, last.file)
  BY DEF R!ToAdd, R!PiChanges
<1> QED  BY <1>1, <1>2, <1>3, <1>4 DEF R!ImportIdempotent

\* While it is the roster's turn its invariant holds, and otherwise nothing of it moves.
LEMMA RosterRuns ==
    /\ Init => (part = "roster" => RosterInv)
    /\ (part = "roster" => RosterInv) /\ [Next]_vars => (part = "roster" => RosterInv)'
    /\ (part = "roster" => RosterInv) /\ [Next]_vars => (UNCHANGED rosterVars \/ EnrolledKept)
<1>1. Init => (part = "roster" => RosterInv)
  BY RosterBegins DEF Init
<1>2. ASSUME part = "roster" => RosterInv, [Next]_vars
      PROVE  (part = "roster" => RosterInv)' /\ (UNCHANGED rosterVars \/ EnrolledKept)
  <2>1. CASE part = "roster" /\ R!Next
    BY <1>2, <2>1, RosterStep
  <2>2. CASE part' = part /\ UNCHANGED rosterVars
    <3>1. ASSUME RosterInv
          PROVE  RosterInv'
      <4>1. students' = students /\ lab' = lab /\ place' = place /\ acct' = acct /\ cut' = cut /\ last' = last
        BY <2>2 DEF rosterVars
      <4>2. PeopleFine(students)' /\ LabsFine'
        BY <3>1, <4>1 DEF RosterInv, PeopleFine, LabsFine
      <4>3. PlacesFine'
        BY <3>1, <4>1 DEF RosterInv, PlacesFine
      <4>4. AccountsFine'
        BY <3>1, <4>1, AccountsStay DEF RosterInv
      <4>5. R!ImportIdempotent'
        BY <3>1, <4>1, ImportStays DEF RosterInv
      <4> QED  BY <4>2, <4>3, <4>4, <4>5 DEF RosterInv
    <3> QED  BY <1>2, <2>2, <3>1
  <2> QED  BY <1>2, <2>1, <2>2 DEF Next, vars, gpuVars
<1> QED  BY <1>1, <1>2

\* The roster is sound: whatever was added, imported, copied, removed, placed or
\* destroyed in which order, and whenever the controller died, a lab's PI is a member,
\* UIDs, university ids and ports are nobody else's, members have records, placements
\* have the members' accounts but for those a crash cut off, and a file imported twice
\* changes nothing the second time.
THEOREM RosterIsSound == Spec => []RosterSound
<1> DEFINE I == part = "roster" => RosterInv
<1>1. I => RosterSound
  BY RosterHolds DEF RosterSound
<1> QED  BY <1>1, RosterRuns, PTL DEF Spec

\* A student who is enrolled before and after a step keeps the UID, and the university
\* id once there is one.
THEOREM IdentityIsKept == Spec => IdentityKept
<1> DEFINE I == part = "roster" => RosterInv
<1>1. UNCHANGED rosterVars \/ EnrolledKept =>
        [\A u \in RosterUsers :
          (\E l \in Labs : u \in lab[l].members) /\ (\E l \in Labs : u \in lab'[l].members) =>
             /\ students'[u].uid = students[u].uid
             /\ students[u].sid # None => students'[u].sid = students[u].sid]_(R!vars)
  BY DEF rosterVars, R!vars, EnrolledKept, Enrolled
<1> QED  BY <1>1, RosterRuns, PTL DEF Spec, IdentityKept, R!IdentityKept
-----------------------------------------------------------------------------
(***************************************************************************)
(* Storage numbers.  What the heartbeats said is followed through the      *)
(* tables: the page's number and the mails are compared with the history.  *)
(***************************************************************************)
Ticks   == 1..MaxTelemetryTime
Sizes   == 0..MaxLevel
Samples == [val : Sizes, ts : Ticks]
Scans   == [began : Ticks, task : 0..MaxTelemetryTime]
Beats   == [lab : Sizes, stu : Sizes \cup {None}, began : Ticks]
Shows   == [last : 0..MaxTelemetryTime, on : BOOLEAN, lab : Sizes, stu : Sizes \cup {None},
            began : 0..MaxTelemetryTime, done : 0..MaxTelemetryTime, labOver : Ticks \cup {None},
            stuOver : Ticks \cup {None}, gap : Nat, pi : Ticks \cup {None}, mail : Ticks \cup {None}]

TelTyped ==
    /\ now \in Ticks /\ placed \in BOOLEAN /\ member \in BOOLEAN /\ email \in BOOLEAN
    /\ cache \in [lab : Sizes, stu : Sizes \cup {None}, at : Ticks \cup {None}]
    /\ scan \in Scans \cup {None} /\ beat \in Beats \cup {None}
    /\ sample \in [lab : Samples \cup {None}, stu : Samples \cup {None}]
    /\ warned \in [pi : Ticks \cup {None}, stu : Ticks \cup {None}]
    /\ scannedAt \in Ticks \cup {None} /\ shown \in Shows
    /\ task \in [state : {"none", "queued", "sent", "ok"}, created : 0..MaxTelemetryTime]

\* Times: heartbeats are ingested in the order of their collection, samples and mails
\* are not younger than the last of them, and scans follow one another.
TelOrdered ==
    /\ shown.last <= now /\ shown.began <= shown.last /\ shown.done <= now
    /\ beat # None => shown.last < beat.began /\ beat.began <= now
    /\ sample.lab # None => sample.lab.ts <= shown.last
    /\ sample.stu # None => sample.stu.ts <= shown.last
    /\ shown.pi # None => shown.pi <= shown.last
    /\ shown.mail # None => shown.mail <= shown.last
    /\ scan # None => scan.began <= now /\ (cache.at # None => cache.at <= scan.began)
    /\ cache.at # None => cache.at <= now
    /\ scannedAt # None => placed /\ shown.on /\ cache.at # None /\ scannedAt <= cache.at

\* A number is the cache's unless a scan ended since it was collected.
TelFresh ==
    /\ beat # None /\ shown.done < beat.began => beat.stu = cache.stu
    /\ shown.stu # None /\ shown.done < shown.began => shown.stu = cache.stu

\* What is stored is what the last heartbeat said.
TelStored ==
    shown.on /\ placed =>
       /\ sample.lab # None /\ shown.last - sample.lab.ts < SampleGap
       /\ sample.lab.ts = shown.last => sample.lab.val = shown.lab
       /\ member /\ shown.stu # None => sample.stu # None /\ sample.stu.val = shown.stu

\* The sample that was stored over the threshold was mailed about, or follows a mail
\* closely; what is pruned is older than that.
TelWarned ==
    /\ shown.gap >= PiGap
    /\ warned.pi # None => warned.pi = shown.pi
    /\ warned.pi = None /\ shown.pi # None => now - shown.pi >= PiGap
    /\ warned.stu = shown.mail
    /\ shown.labOver # None =>
          /\ placed /\ shown.on /\ shown.labOver <= shown.last
          /\ sample.lab.ts >= shown.labOver => shown.pi # None /\ sample.lab.ts - shown.pi < PiGap
    /\ shown.stuOver # None =>
          /\ shown.stuOver <= shown.last /\ sample.stu # None /\ shown.last - sample.stu.ts < SampleGap
          /\ sample.stu.ts >= shown.stuOver => shown.mail # None /\ sample.stu.ts - shown.mail < StudentGap

TelInv == TelTyped /\ TelOrdered /\ TelFresh /\ TelStored /\ TelWarned

\* Samples, scans and heartbeats are no more none than numbers are.
LEMMA NoneNumber ==
    /\ None \notin Nat /\ None \notin Ticks /\ None \notin Sizes /\ Ticks \subseteq Nat /\ Sizes \subseteq Nat
    /\ None \notin Samples /\ None \notin Scans /\ None \notin Beats
    /\ 1 \in Ticks /\ 0 \in Sizes /\ 0 \in 0..MaxTelemetryTime /\ Ticks \subseteq 0..MaxTelemetryTime
    /\ 0..MaxTelemetryTime \subseteq Nat
    /\ SampleGap \in Nat \ {0} /\ PiGap \in Nat \ {0} /\ StudentGap \in Nat \ {0} /\ Keep \in Nat /\ PiGap <= Keep
<1>1. /\ Ticks \subseteq Nat /\ Sizes \subseteq Nat /\ Ticks \subseteq 0..MaxTelemetryTime
      /\ 0..MaxTelemetryTime \subseteq Nat /\ 1 \in Ticks /\ 0 \in Sizes /\ 0 \in 0..MaxTelemetryTime
  BY TelemetryAssumption DEF Ticks, Sizes
<1>2. None \notin Nat
  BY GpuAssumption
<1>3. Samples \subseteq [val : Nat, ts : Nat] /\ Scans \subseteq [began : Nat, task : Nat]
  BY <1>1 DEF Samples, Scans
<1>4. Beats \subseteq [lab : Nat, stu : Nat \cup {None}, began : Nat]
  BY <1>1 DEF Beats
<1> QED  BY <1>1, <1>2, <1>3, <1>4, TelemetryAssumption

\* One placement, nothing stored.
LEMMA TelBegins == T!Init => TelInv
<1> SUFFICES ASSUME T!Init PROVE TelInv
  OBVIOUS
<1>1. /\ now = 1 /\ cache = [lab |-> 0, stu |-> None, at |-> None] /\ scan = None /\ beat = None
      /\ placed = TRUE /\ member = TRUE /\ email \in BOOLEAN
      /\ sample = [lab |-> None, stu |-> None] /\ warned = [pi |-> None, stu |-> None]
      /\ scannedAt = None /\ task = [state |-> "none", created |-> 0]
      /\ shown = [last |-> 0, on |-> FALSE, lab |-> 0, stu |-> None, began |-> 0, done |-> 0,
                  labOver |-> None, stuOver |-> None, gap |-> PiGap, pi |-> None, mail |-> None]
  BY DEF T!Init, T!Unseen
<1>2. TelTyped
  BY <1>1, NoneNumber DEF TelTyped, Shows
<1>3. TelOrdered /\ TelFresh
  BY <1>1, NoneNumber DEF TelOrdered, TelFresh
<1>4. TelStored /\ TelWarned
  BY <1>1, NoneNumber DEF TelStored, TelWarned
<1> QED  BY <1>2, <1>3, <1>4 DEF TelInv

\* What the invariant says of the reports.
LEMMA TelHolds ==
    ASSUME TelInv
    PROVE  T!TypeOK /\ T!ShownIsReported /\ T!ScanShowsUp /\ T!PiMailsPaced /\ T!StudentIsWarned
<1>1. /\ now \in Ticks /\ now \in Nat /\ shown.last \in Nat /\ shown.began \in Nat /\ shown.done \in Nat /\ shown.gap \in Nat
      /\ sample.lab # None => sample.lab.ts \in Nat /\ sample.lab.ts \in Ticks /\ sample.lab.val \in Sizes
      /\ sample.stu # None => sample.stu.ts \in Nat /\ sample.stu.ts \in Ticks /\ sample.stu.val \in Sizes
      /\ shown.labOver # None => shown.labOver \in Nat
      /\ shown.stuOver # None => shown.stuOver \in Nat
      /\ shown.pi # None => shown.pi \in Nat
      /\ shown.mail # None => shown.mail \in Nat
      /\ cache.at # None => cache.at \in Nat
      /\ scannedAt # None => scannedAt \in Nat
      /\ task.created \in Nat
  BY NoneNumber DEF TelInv, TelTyped, Shows, Samples
<1>2. T!TypeOK
  <2>1. now \in 1..MaxTelemetryTime /\ cache.lab \in T!Levels
    BY DEF TelInv, TelTyped, Ticks, Sizes, T!Levels
  <2>2. \A t \in Ticks : t <= now => t \in 1..now
    BY <1>1, NoneNumber DEF Ticks
  <2>3. /\ sample.lab = None \/ (sample.lab.val \in T!Levels /\ sample.lab.ts \in 1..now)
        /\ sample.stu = None \/ (sample.stu.val \in T!Levels /\ sample.stu.ts \in 1..now)
    BY <1>1, <2>2 DEF TelInv, TelOrdered, Sizes, T!Levels
  <2>4. /\ warned.pi \in T!Stamp /\ warned.stu \in T!Stamp /\ scannedAt \in T!Stamp
        /\ task.state \in {"none", "queued", "sent", "ok"}
    BY DEF TelInv, TelTyped, Ticks, T!Stamp
  <2> QED  BY <2>1, <2>3, <2>4 DEF T!TypeOK
<1>3. T!ShownIsReported
  <2> SUFFICES ASSUME placed, shown.on
               PROVE  /\ shown.last - T!BuildStats.liveUpdatedAt < SampleGap
                      /\ T!BuildStats.liveUpdatedAt = shown.last => T!BuildStats.live = shown.lab
                      /\ member /\ shown.stu # None => T!BuildStats.student = shown.stu
    BY DEF T!ShownIsReported
  <2>1. sample.lab # None /\ T!BuildStats.liveUpdatedAt = sample.lab.ts /\ T!BuildStats.live = sample.lab.val
    BY DEF TelInv, TelStored, T!BuildStats, T!Cell
  <2>2. member /\ sample.stu # None => T!BuildStats.student = sample.stu.val
    BY DEF T!BuildStats, T!Cell
  <2> QED  BY <2>1, <2>2 DEF TelInv, TelStored
<1>4. T!ScanShowsUp
  <2> SUFFICES ASSUME placed, member, shown.stu # None,
                      task.state = "ok" /\ ~T!BuildStats.scanPending /\ now - task.created < ScanGrace
               PROVE  \/ T!BuildStats.student = cache.stu /\ cache.at >= task.created
                      \/ shown.began <= shown.done
    BY DEF T!ScanShowsUp
  <2>1. scannedAt # None /\ ~(scannedAt < task.created)
    BY DEF T!BuildStats, T!ScanPending
  <2>2. shown.on /\ cache.at # None /\ cache.at >= task.created
    BY <1>1, <2>1 DEF TelInv, TelOrdered
  <2>3. sample.stu # None /\ sample.stu.val = shown.stu
    BY <2>2 DEF TelInv, TelStored
  <2>4. T!BuildStats.student = shown.stu
    BY <2>3 DEF T!BuildStats, T!Cell
  <2>5. ~(shown.began <= shown.done) => shown.stu = cache.stu
    BY <1>1 DEF TelInv, TelFresh
  <2> QED  BY <2>2, <2>4, <2>5
<1>5. T!PiMailsPaced
  <2>1. shown.gap >= PiGap
    BY DEF TelInv, TelWarned
  <2>2. ASSUME placed, shown.labOver # None, shown.last - shown.labOver >= SampleGap
        PROVE  shown.pi # None /\ shown.last - shown.pi < PiGap + SampleGap
    <3>1. /\ sample.lab # None /\ shown.last - sample.lab.ts < SampleGap
          /\ sample.lab.ts >= shown.labOver => shown.pi # None /\ sample.lab.ts - shown.pi < PiGap
      BY <2>2 DEF TelInv, TelStored, TelWarned
    <3> QED  BY <1>1, <2>2, <3>1, NoneNumber
  <2> QED  BY <2>1, <2>2 DEF T!PiMailsPaced
<1>6. T!StudentIsWarned
  <2> SUFFICES ASSUME shown.stuOver # None, shown.last - shown.stuOver >= SampleGap
               PROVE  shown.mail # None /\ shown.last - shown.mail < StudentGap + SampleGap
    BY DEF T!StudentIsWarned
  <2>1. /\ sample.stu # None /\ shown.last - sample.stu.ts < SampleGap
        /\ sample.stu.ts >= shown.stuOver => shown.mail # None /\ sample.stu.ts - shown.mail < StudentGap
    BY DEF TelInv, TelWarned
  <2> QED  BY <1>1, <2>1, NoneNumber
<1> QED  BY <1>2, <1>3, <1>4, <1>5, <1>6

\* The agent refreshes the lab's number; the student's is what it was.
LEMMA UsageRefreshed ==
    ASSUME TelInv, NEW v \in T!Levels, T!RefreshLabUsage(v)
    PROVE  TelInv'
<1>1. /\ cache' = [cache EXCEPT !.lab = v]
      /\ UNCHANGED <<now, scan, beat, placed, member, email, sample, warned, scannedAt, task, shown>>
  BY DEF T!RefreshLabUsage, T!world, T!ctl
<1>2. v \in Sizes
  BY DEF T!Levels, Sizes
<1>3. /\ cache' \in [lab : Sizes, stu : Sizes \cup {None}, at : Ticks \cup {None}]
      /\ cache'.stu = cache.stu /\ cache'.at = cache.at
  BY <1>1, <1>2 DEF TelInv, TelTyped
<1>4. TelTyped'
  BY <1>1, <1>3 DEF TelInv, TelTyped
<1>5. TelOrdered' /\ TelFresh'
  BY <1>1, <1>3 DEF TelInv, TelOrdered, TelFresh
<1>6. TelStored' /\ TelWarned'
  BY <1>1 DEF TelInv, TelStored, TelWarned
<1> QED  BY <1>4, <1>5, <1>6 DEF TelInv

\* A scan begins, for a task or by the daily loop; no number changes yet.
LEMMA ScanIsBegun ==
    ASSUME TelInv, NEW forTask \in BOOLEAN, T!ScanBegins(forTask)
    PROVE  TelInv'
<1>1. /\ task' = task \/ task' = [task EXCEPT !.state = "sent"]
      /\ scan' = [began |-> now, task |-> IF forTask THEN task.created ELSE 0]
      /\ UNCHANGED <<now, cache, beat, placed, member, email, sample, warned, scannedAt, shown>>
  BY DEF T!ScanBegins, T!world, T!ctl
<1>2. task' \in [state : {"none", "queued", "sent", "ok"}, created : 0..MaxTelemetryTime]
  BY <1>1 DEF TelInv, TelTyped
<1>3. scan' \in Scans /\ scan'.began = now
  BY <1>1, NoneNumber DEF TelInv, TelTyped, Scans
<1>4. TelTyped'
  BY <1>1, <1>2, <1>3 DEF TelInv, TelTyped
<1>5. now <= now
  BY NoneNumber DEF TelInv, TelTyped
<1>6. TelOrdered' /\ TelFresh'
  BY <1>1, <1>3, <1>5 DEF TelInv, TelOrdered, TelFresh
<1>7. TelStored' /\ TelWarned'
  BY <1>1 DEF TelInv, TelStored, TelWarned
<1> QED  BY <1>4, <1>6, <1>7 DEF TelInv

\* A scan that ends well is the last one to end, later than what is being collected;
\* one that fails leaves the numbers.
LEMMA ScanIsEnded ==
    ASSUME TelInv, NEW v \in T!Levels, NEW ok \in BOOLEAN, T!ScanEnds(v, ok)
    PROVE  TelInv'
<1>1. /\ scan # None
      /\ cache' = IF ok THEN [cache EXCEPT !.stu = v, !.at = scan.began] ELSE cache
      /\ shown' = IF ok THEN [shown EXCEPT !.done = now] ELSE shown
      /\ task' = task \/ task' = [task EXCEPT !.state = "ok"]
      /\ scan' = None
      /\ UNCHANGED <<now, beat, placed, member, email, sample, warned, scannedAt>>
  BY DEF T!ScanEnds, T!world, T!ctl
<1>2. task' \in [state : {"none", "queued", "sent", "ok"}, created : 0..MaxTelemetryTime]
  BY <1>1 DEF TelInv, TelTyped
<1>3. /\ now \in Nat /\ scan.began \in Ticks /\ scan.began \in Nat /\ scan.began <= now /\ v \in Sizes
      /\ cache.at # None => cache.at \in Nat /\ cache.at <= scan.began
      /\ scannedAt # None => scannedAt \in Nat
      /\ shown.began \in Nat /\ shown.last \in Nat /\ shown.began <= now
      /\ beat # None => beat.began \in Nat /\ beat.began <= now
  BY <1>1, NoneNumber DEF TelInv, TelTyped, TelOrdered, Scans, Beats, Shows, T!Levels, Sizes
<1>4. CASE ok
  <2>1. /\ cache' \in [lab : Sizes, stu : Sizes \cup {None}, at : Ticks \cup {None}]
        /\ cache'.stu = v /\ cache'.at = scan.began
    BY <1>1, <1>3, <1>4 DEF TelInv, TelTyped
  <2>2. /\ shown' \in Shows /\ shown'.done = now
        /\ shown'.last = shown.last /\ shown'.on = shown.on /\ shown'.lab = shown.lab /\ shown'.stu = shown.stu
        /\ shown'.began = shown.began /\ shown'.labOver = shown.labOver /\ shown'.stuOver = shown.stuOver
        /\ shown'.gap = shown.gap /\ shown'.pi = shown.pi /\ shown'.mail = shown.mail
    BY <1>1, <1>4, NoneNumber DEF TelInv, TelTyped, Shows
  <2>3. TelTyped'
    BY <1>1, <1>2, <2>1, <2>2 DEF TelInv, TelTyped
  <2>4. TelOrdered'
    <3>1. scannedAt # None => cache.at # None /\ scannedAt <= scan.began
      BY <1>3 DEF TelInv, TelOrdered
    <3>2. scan.began # None /\ now <= now
      BY <1>3, NoneNumber
    <3> QED  BY <1>1, <1>3, <2>1, <2>2, <3>1, <3>2 DEF TelInv, TelOrdered
  <2>5. TelFresh'
    BY <1>1, <1>3, <2>1, <2>2 DEF TelFresh
  <2>6. TelStored' /\ TelWarned'
    BY <1>1, <2>2 DEF TelInv, TelStored, TelWarned
  <2> QED  BY <2>3, <2>4, <2>5, <2>6 DEF TelInv
<1>5. CASE ~ok
  <2>1. cache' = cache /\ shown' = shown
    BY <1>1, <1>5
  <2>2. TelTyped'
    BY <1>1, <1>2, <2>1 DEF TelInv, TelTyped
  <2>3. TelOrdered' /\ TelFresh'
    BY <1>1, <2>1 DEF TelInv, TelOrdered, TelFresh
  <2>4. TelStored' /\ TelWarned'
    BY <1>1, <2>1 DEF TelInv, TelStored, TelWarned
  <2> QED  BY <2>2, <2>3, <2>4 DEF TelInv
<1> QED  BY <1>4, <1>5

\* A heartbeat takes the cache's numbers, as of now.
LEMMA HeartbeatCollected ==
    ASSUME TelInv, T!CollectHeartbeat
    PROVE  TelInv'
<1>1. /\ beat = None /\ shown.last < now
      /\ beat' = [lab |-> cache.lab, stu |-> cache.stu, began |-> now]
      /\ UNCHANGED <<now, cache, scan, placed, member, email, sample, warned, scannedAt, task, shown>>
  BY DEF T!CollectHeartbeat, T!world, T!ctl
<1>2. beat' \in Beats /\ beat'.began = now /\ beat'.stu = cache.stu
  BY <1>1 DEF TelInv, TelTyped, Beats
<1>3. TelTyped'
  BY <1>1, <1>2 DEF TelInv, TelTyped
<1>4. now <= now
  BY NoneNumber DEF TelInv, TelTyped
<1>5. TelOrdered' /\ TelFresh'
  BY <1>1, <1>2, <1>4 DEF TelInv, TelOrdered, TelFresh
<1>6. TelStored' /\ TelWarned'
  BY <1>1 DEF TelInv, TelStored, TelWarned
<1> QED  BY <1>3, <1>5, <1>6 DEF TelInv

\* A heartbeat that is lost and a scan that is asked for leave what is stored.
LEMMA HeartbeatGone ==
    ASSUME TelInv, T!HeartbeatLost \/ T!UsageScan
    PROVE  TelInv'
<1>1. /\ beat' = beat \/ beat' = None
      /\ task' = task \/ task' = [state |-> "queued", created |-> now]
      /\ UNCHANGED <<now, cache, scan, placed, member, email, sample, warned, scannedAt, shown>>
  BY DEF T!HeartbeatLost, T!UsageScan, T!world, T!ctl, T!agent
<1>2. /\ task' \in [state : {"none", "queued", "sent", "ok"}, created : 0..MaxTelemetryTime]
      /\ beat' \in Beats \cup {None} /\ (beat' # None => beat' = beat)
  BY <1>1, NoneNumber DEF TelInv, TelTyped
<1>3. TelTyped'
  BY <1>1, <1>2 DEF TelInv, TelTyped
<1>4. TelOrdered' /\ TelFresh'
  BY <1>1, <1>2 DEF TelInv, TelOrdered, TelFresh
<1>5. TelStored' /\ TelWarned'
  BY <1>1 DEF TelInv, TelStored, TelWarned
<1> QED  BY <1>3, <1>4, <1>5 DEF TelInv

\* An alert that is pruned is older than the window in which it keeps others back.
LEMMA AlertsPruned ==
    ASSUME TelInv, T!PruneOldData
    PROVE  TelInv'
<1>1. /\ warned.pi # None /\ now - warned.pi > Keep
      /\ warned' = [warned EXCEPT !.pi = None]
      /\ UNCHANGED <<now, cache, scan, beat, placed, member, email, sample, scannedAt, task, shown>>
  BY DEF T!PruneOldData, T!world, T!agent
<1>2. warned' \in [pi : Ticks \cup {None}, stu : Ticks \cup {None}] /\ warned'.pi = None /\ warned'.stu = warned.stu
  BY <1>1 DEF TelInv, TelTyped
<1>3. TelTyped'
  BY <1>1, <1>2 DEF TelInv, TelTyped
<1>4. TelOrdered' /\ TelFresh'
  BY <1>1 DEF TelInv, TelOrdered, TelFresh
<1>5. warned.pi = shown.pi /\ now - shown.pi >= PiGap
  <2>1. warned.pi \in Nat /\ now \in Nat /\ warned.pi = shown.pi
    BY <1>1, NoneNumber DEF TelInv, TelTyped, TelWarned
  <2> QED  BY <1>1, <2>1, NoneNumber
<1>6. TelStored' /\ TelWarned'
  BY <1>1, <1>2, <1>5 DEF TelInv, TelStored, TelWarned
<1> QED  BY <1>3, <1>4, <1>6 DEF TelInv

\* Time passes.
LEMMA TimePasses ==
    ASSUME TelInv, T!Pass
    PROVE  TelInv'
<1>1. /\ now < MaxTelemetryTime /\ now' = now + 1
      /\ UNCHANGED <<cache, scan, beat, placed, member, email, sample, warned, scannedAt, task, shown>>
  BY DEF T!Pass, T!world, T!ctl, T!agent
<1>2. /\ now \in Nat /\ now' \in Ticks /\ now <= now' /\ \A x \in Nat : x <= now => x <= now'
      /\ \A x \in Nat : now - x >= PiGap => now' - x >= PiGap
  BY <1>1, NoneNumber, TelemetryAssumption DEF TelInv, TelTyped, Ticks
<1>3. TelTyped'
  BY <1>1, <1>2 DEF TelInv, TelTyped
<1>4. /\ shown.last \in Nat /\ shown.done \in Nat /\ (beat # None => beat.began \in Nat) /\ (scan # None => scan.began \in Nat)
      /\ (cache.at # None => cache.at \in Nat) /\ (shown.pi # None => shown.pi \in Nat)
  BY NoneNumber DEF TelInv, TelTyped, Shows, Beats, Scans
<1>5. TelOrdered' /\ TelFresh'
  BY <1>1, <1>2, <1>4 DEF TelInv, TelOrdered, TelFresh
<1>6. TelStored' /\ TelWarned'
  BY <1>1, <1>2, <1>4 DEF TelInv, TelStored, TelWarned
<1> QED  BY <1>3, <1>5, <1>6 DEF TelInv

\* A placement that comes or goes takes what was stored along.
LEMMA PlacementChanged ==
    ASSUME TelInv, T!PlacementChanges
    PROVE  TelInv'
<1>1. /\ placed' = ~placed /\ sample' = [lab |-> None, stu |-> None] /\ warned' = [pi |-> None, stu |-> None]
      /\ scannedAt' = None
      /\ shown' = [shown EXCEPT !.labOver = None, !.stuOver = None, !.on = FALSE,
                                !.gap = PiGap, !.pi = None, !.mail = None]
      /\ UNCHANGED <<now, cache, scan, beat, member, email, task>>
  BY DEF T!PlacementChanges, T!agent
<1>2. /\ shown' \in Shows /\ shown'.labOver = None /\ shown'.stuOver = None /\ shown'.on = FALSE
      /\ shown'.gap = PiGap /\ shown'.pi = None /\ shown'.mail = None
      /\ shown'.last = shown.last /\ shown'.began = shown.began /\ shown'.done = shown.done /\ shown'.stu = shown.stu
  BY <1>1, NoneNumber DEF TelInv, TelTyped, Shows
<1>3. TelTyped'
  BY <1>1, <1>2 DEF TelInv, TelTyped
<1>4. TelOrdered' /\ TelFresh'
  BY <1>1, <1>2 DEF TelInv, TelOrdered, TelFresh
<1>5. TelStored' /\ TelWarned'
  BY <1>1, <1>2, NoneNumber DEF TelStored, TelWarned
<1> QED  BY <1>3, <1>4, <1>5 DEF TelInv

\* A membership or an address that changes starts the student's wait anew.
LEMMA StudentChanged ==
    ASSUME TelInv, T!MembershipChanges \/ T!EmailChanges
    PROVE  TelInv'
<1> DEFINE Same == /\ shown' \in Shows /\ shown'.stuOver = None
                   /\ shown'.on = shown.on /\ shown'.lab = shown.lab /\ shown'.labOver = shown.labOver
                   /\ shown'.gap = shown.gap /\ shown'.pi = shown.pi /\ shown'.mail = shown.mail
                   /\ shown'.last = shown.last /\ shown'.began = shown.began /\ shown'.done = shown.done
<1>1. /\ member' \in BOOLEAN /\ email' \in BOOLEAN
      /\ shown' = [shown EXCEPT !.stuOver = None, !.stu = None] \/ (shown' = [shown EXCEPT !.stuOver = None] /\ member' = member)
      /\ UNCHANGED <<now, cache, scan, beat, placed, sample, warned, scannedAt, task>>
  <2>1. CASE T!MembershipChanges
    BY <2>1 DEF T!MembershipChanges, T!agent, T!ctl, TelInv, TelTyped
  <2>2. CASE T!EmailChanges
    BY <2>2 DEF T!EmailChanges, T!agent, T!ctl, TelInv, TelTyped
  <2> QED  BY <2>1, <2>2
<1>2. Same /\ (shown'.stu = None \/ (shown'.stu = shown.stu /\ member' = member))
  <2>1. shown \in Shows
    BY DEF TelInv, TelTyped
  <2>2. CASE shown' = [shown EXCEPT !.stuOver = None, !.stu = None]
    BY <2>1, <2>2 DEF Shows
  <2>3. CASE shown' = [shown EXCEPT !.stuOver = None] /\ member' = member
    BY <2>1, <2>3 DEF Shows
  <2> QED  BY <1>1, <2>2, <2>3
<1>3. TelTyped'
  BY <1>1, <1>2 DEF TelInv, TelTyped
<1>4. TelOrdered' /\ TelFresh'
  BY <1>1, <1>2 DEF TelInv, TelOrdered, TelFresh
<1>5. TelStored' /\ TelWarned'
  BY <1>1, <1>2 DEF TelInv, TelStored, TelWarned
<1> QED  BY <1>3, <1>4, <1>5 DEF TelInv

\* A heartbeat is ingested: what it says is stored once an interval, a scan's number
\* when it is another, and mails are due with what is stored.
LEMMA HeartbeatIngested ==
    ASSUME TelInv, T!Heartbeat
    PROVE  TelInv'
<1> DEFINE lab0 == placed /\ T!ShouldSample(sample.lab, beat.lab, FALSE)
           stu0 == placed /\ member /\ beat.stu # None /\ T!ShouldSample(sample.stu, beat.stu, TRUE)
           pi0  == lab0 /\ beat.lab >= Threshold /\ T!AlertDue(warned.pi, PiGap)
           own0 == stu0 /\ beat.stu > Threshold /\ T!StudentAlertDue
           lo == IF ~placed \/ beat.lab < Threshold THEN None ELSE IF shown.labOver = None THEN now ELSE shown.labOver
           so == IF ~placed \/ ~member \/ ~email \/ beat.stu = None \/ beat.stu <= Threshold THEN None
                 ELSE IF shown.stuOver = None THEN now ELSE shown.stuOver
<1>1. /\ beat # None /\ beat' = None /\ UNCHANGED <<now, cache, scan, placed, member, email, task>>
      /\ sample' = [lab |-> IF lab0 THEN [val |-> beat.lab, ts |-> now] ELSE sample.lab,
                    stu |-> IF stu0 THEN [val |-> beat.stu, ts |-> now] ELSE sample.stu]
      /\ warned' = [pi |-> IF pi0 THEN now ELSE warned.pi, stu |-> IF own0 THEN now ELSE warned.stu]
      /\ shown' = [last |-> now, on |-> placed, lab |-> beat.lab, stu |-> beat.stu, began |-> beat.began,
                   done |-> shown.done, labOver |-> lo, stuOver |-> so,
                   gap |-> IF pi0 /\ shown.pi # None THEN now - shown.pi ELSE shown.gap,
                   pi |-> IF pi0 THEN now ELSE shown.pi, mail |-> IF own0 /\ email THEN now ELSE shown.mail]
      /\ scannedAt' = IF placed /\ cache.at # None /\ (scannedAt = None \/ scannedAt < cache.at)
                      THEN cache.at ELSE scannedAt
  BY DEF T!Heartbeat, T!IngestStorage, T!IngestScanTime, T!world
<1>2. /\ lab0 <=> placed /\ (sample.lab = None \/ now - sample.lab.ts >= SampleGap)
      /\ stu0 <=> /\ placed /\ member /\ beat.stu # None
                  /\ sample.stu = None \/ now - sample.stu.ts >= SampleGap \/ sample.stu.val # beat.stu
      /\ pi0 <=> lab0 /\ beat.lab >= Threshold /\ (warned.pi = None \/ now - warned.pi >= PiGap)
      /\ own0 <=> stu0 /\ beat.stu > Threshold /\ email /\ (warned.stu = None \/ now - warned.stu >= StudentGap)
  BY DEF T!ShouldSample, T!AlertDue, T!StudentAlertDue
<1> HIDE DEF lab0, stu0, pi0, own0
<1>3. /\ now \in Ticks /\ now \in Nat /\ beat.lab \in Sizes /\ beat.lab \in Nat /\ beat.stu \in Sizes \cup {None}
      /\ beat.began \in Nat /\ beat.began \in 0..MaxTelemetryTime /\ shown.last \in Nat /\ shown.done \in 0..MaxTelemetryTime
      /\ shown.last < beat.began /\ beat.began <= now
      /\ beat.stu # None => beat.stu \in Nat
      /\ sample.lab # None => sample.lab \in Samples /\ sample.lab.ts \in Nat /\ sample.lab.ts <= shown.last
      /\ sample.stu # None => sample.stu \in Samples /\ sample.stu.ts \in Nat /\ sample.stu.ts <= shown.last
      /\ Threshold \in Nat /\ shown.gap \in Nat
      /\ now # None /\ shown.labOver \in Ticks \cup {None} /\ shown.stuOver \in Ticks \cup {None}
      /\ shown.pi # None => shown.pi \in Nat /\ shown.pi <= shown.last
      /\ shown.mail # None => shown.mail \in Nat /\ shown.mail <= shown.last
      /\ cache.at # None => cache.at \in Ticks /\ cache.at \in Nat
      /\ scannedAt # None => scannedAt \in Ticks /\ scannedAt \in Nat /\ scannedAt <= cache.at
  BY <1>1, NoneNumber, TelemetryAssumption DEF TelInv, TelTyped, TelOrdered, Samples, Beats, Shows
<1>4. /\ lo \in Ticks \cup {None} /\ so \in Ticks \cup {None}
      /\ lo # None => placed /\ beat.lab >= Threshold /\ (lo = now \/ (lo = shown.labOver /\ shown.labOver # None))
      /\ so # None => /\ placed /\ member /\ email /\ beat.stu # None /\ beat.stu > Threshold
                      /\ so = now \/ (so = shown.stuOver /\ shown.stuOver # None)
  BY <1>3
<1> HIDE DEF lo, so
<1>5. /\ sample'.lab = IF lab0 THEN [val |-> beat.lab, ts |-> now] ELSE sample.lab
      /\ sample'.stu = IF stu0 THEN [val |-> beat.stu, ts |-> now] ELSE sample.stu
      /\ sample' = [lab |-> sample'.lab, stu |-> sample'.stu]
      /\ lab0 => sample'.lab \in Samples /\ sample'.lab # None /\ sample'.lab.ts = now /\ sample'.lab.val = beat.lab
      /\ stu0 => sample'.stu \in Samples /\ sample'.stu # None /\ sample'.stu.ts = now /\ sample'.stu.val = beat.stu
      /\ ~lab0 => sample'.lab = sample.lab
      /\ ~stu0 => sample'.stu = sample.stu
  <2>1. \A v \in Sizes : [val |-> v, ts |-> now] \in Samples
    BY <1>3 DEF Samples
  <2>2. stu0 => beat.stu \in Sizes
    BY <1>2, <1>3
  <2> QED  BY <1>1, <1>3, <2>1, <2>2, NoneNumber
<1>6. /\ warned'.pi = (IF pi0 THEN now ELSE warned.pi) /\ warned'.stu = (IF own0 THEN now ELSE warned.stu)
      /\ warned' = [pi |-> warned'.pi, stu |-> warned'.stu]
  BY <1>1
<1>7. /\ shown'.last = now /\ shown'.on = placed /\ shown'.lab = beat.lab /\ shown'.stu = beat.stu
      /\ shown'.began = beat.began /\ shown'.done = shown.done /\ shown'.labOver = lo /\ shown'.stuOver = so
      /\ shown'.gap = IF pi0 /\ shown.pi # None THEN now - shown.pi ELSE shown.gap
      /\ shown'.pi = IF pi0 THEN now ELSE shown.pi
      /\ shown'.mail = IF own0 THEN now ELSE shown.mail
      /\ shown' = [last |-> now, on |-> placed, lab |-> beat.lab, stu |-> beat.stu, began |-> beat.began,
                   done |-> shown.done, labOver |-> lo, stuOver |-> so,
                   gap |-> shown'.gap, pi |-> shown'.pi, mail |-> shown'.mail]
  BY <1>1, <1>2
<1>8. pi0 /\ shown.pi # None => now - shown.pi \in Nat /\ now - shown.pi >= PiGap
  <2>1. shown.pi # None => shown.pi \in Nat /\ shown.pi <= now
    BY <1>3
  <2>2. CASE warned.pi = None
    <3>1. shown.pi # None => now - shown.pi >= PiGap
      BY <2>2 DEF TelInv, TelWarned
    <3> QED  BY <1>3, <2>1, <3>1
  <2>3. CASE warned.pi # None
    <3>1. warned.pi = shown.pi
      BY <2>3 DEF TelInv, TelWarned
    <3> QED  BY <1>2, <1>3, <2>1, <2>3, <3>1
  <2> QED  BY <2>2, <2>3
<1>9. TelTyped'
  <2>1. sample' \in [lab : Samples \cup {None}, stu : Samples \cup {None}]
    BY <1>5 DEF TelInv, TelTyped
  <2>2. warned' \in [pi : Ticks \cup {None}, stu : Ticks \cup {None}]
    BY <1>3, <1>6 DEF TelInv, TelTyped
  <2>3. /\ shown'.gap \in Nat /\ shown'.pi \in Ticks \cup {None} /\ shown'.mail \in Ticks \cup {None}
        /\ now \in 0..MaxTelemetryTime /\ placed \in BOOLEAN
    BY <1>3, <1>7, <1>8, NoneNumber DEF TelInv, TelTyped, Shows
  <2>4. shown' \in Shows
    BY <1>3, <1>4, <1>7, <2>3 DEF Shows
  <2>5. scannedAt' \in Ticks \cup {None}
    BY <1>1, <1>3
  <2> QED  BY <1>1, <2>1, <2>2, <2>4, <2>5 DEF TelInv, TelTyped
<1>10. TelOrdered'
  <2>1. shown'.last <= now /\ shown'.began <= shown'.last /\ shown'.done <= now
    BY <1>3, <1>7 DEF TelInv, TelOrdered
  <2>2. /\ sample'.lab # None => sample'.lab.ts <= now
        /\ sample'.stu # None => sample'.stu.ts <= now
    BY <1>3, <1>5
  <2>3. /\ shown'.pi # None => shown'.pi <= now
        /\ shown'.mail # None => shown'.mail <= now
    BY <1>3, <1>7
  <2>4. scannedAt' # None => placed /\ cache.at # None /\ scannedAt' <= cache.at
    BY <1>1, <1>3 DEF TelInv, TelOrdered
  <2> QED  BY <1>1, <1>7, <2>1, <2>2, <2>3, <2>4 DEF TelInv, TelOrdered
<1>11. TelFresh'
  BY <1>1, <1>7 DEF TelInv, TelFresh
<1>12. placed => sample'.lab # None /\ now - sample'.lab.ts < SampleGap /\ (sample'.lab.ts = now => sample'.lab.val = beat.lab)
  <2>1. CASE lab0
    BY <1>3, <1>5, <2>1, NoneNumber
  <2>2. CASE ~lab0
    BY <1>2, <1>3, <1>5, <2>2, NoneNumber
  <2> QED  BY <2>1, <2>2
<1>13. placed /\ member /\ beat.stu # None =>
          sample'.stu # None /\ now - sample'.stu.ts < SampleGap /\ sample'.stu.val = beat.stu
  <2>1. CASE stu0
    BY <1>3, <1>5, <2>1, NoneNumber
  <2>2. CASE ~stu0
    BY <1>2, <1>3, <1>5, <2>2, NoneNumber
  <2> QED  BY <2>1, <2>2
<1>14. TelStored'
  BY <1>1, <1>7, <1>12, <1>13 DEF TelStored
<1>15. /\ shown'.gap >= PiGap
       /\ warned'.pi # None => warned'.pi = shown'.pi
       /\ warned'.pi = None /\ shown'.pi # None => now - shown'.pi >= PiGap
       /\ warned'.stu = shown'.mail
  BY <1>3, <1>6, <1>7, <1>8 DEF TelInv, TelWarned
<1>16. ASSUME lo # None, sample'.lab.ts >= lo
       PROVE  shown'.pi # None /\ sample'.lab.ts - shown'.pi < PiGap
  <2>1. CASE lab0
    <3>1. CASE pi0
      BY <1>3, <1>5, <1>7, <2>1, <3>1, NoneNumber
    <3>2. CASE ~pi0
      <4>1. warned.pi # None /\ ~(now - warned.pi >= PiGap)
        BY <1>2, <1>4, <1>16, <2>1, <3>2
      <4>2. warned.pi = shown.pi
        BY <4>1 DEF TelInv, TelWarned
      <4> QED  BY <1>3, <1>5, <1>7, <2>1, <3>2, <4>1, <4>2, NoneNumber
    <3> QED  BY <3>1, <3>2
  <2>2. CASE ~lab0
    <3>1. sample'.lab = sample.lab /\ sample.lab # None /\ sample.lab.ts < now
      BY <1>2, <1>3, <1>4, <1>5, <1>16, <2>2
    <3>2. lo = shown.labOver /\ shown.labOver # None
      BY <1>3, <1>4, <1>16, <3>1
    <3>3. shown.pi # None /\ sample.lab.ts - shown.pi < PiGap
      BY <1>16, <3>1, <3>2 DEF TelInv, TelWarned
    <3> QED  BY <1>2, <1>7, <2>2, <3>1, <3>3
  <2> QED  BY <2>1, <2>2
<1>17. ASSUME so # None, sample'.stu.ts >= so
       PROVE  shown'.mail # None /\ sample'.stu.ts - shown'.mail < StudentGap
  <2>1. CASE stu0
    <3>1. CASE own0
      BY <1>3, <1>5, <1>7, <2>1, <3>1, NoneNumber
    <3>2. CASE ~own0
      <4>1. warned.stu # None /\ ~(now - warned.stu >= StudentGap)
        BY <1>2, <1>4, <1>17, <2>1, <3>2
      <4>2. warned.stu = shown.mail
        BY DEF TelInv, TelWarned
      <4> QED  BY <1>3, <1>5, <1>7, <2>1, <3>2, <4>1, <4>2, NoneNumber
    <3> QED  BY <3>1, <3>2
  <2>2. CASE ~stu0
    <3>1. sample'.stu = sample.stu /\ sample.stu # None /\ sample.stu.ts < now
      BY <1>2, <1>3, <1>4, <1>5, <1>17, <2>2
    <3>2. so = shown.stuOver /\ shown.stuOver # None
      BY <1>3, <1>4, <1>17, <3>1
    <3>3. shown.mail # None /\ sample.stu.ts - shown.mail < StudentGap
      BY <1>17, <3>1, <3>2 DEF TelInv, TelWarned
    <3> QED  BY <1>2, <1>7, <2>2, <3>1, <3>3
  <2> QED  BY <2>1, <2>2
<1>18. TelWarned'
  <2>1. /\ lo # None => placed /\ lo <= now
        /\ so # None => so <= now /\ placed /\ member /\ beat.stu # None
    BY <1>3, <1>4, NoneNumber DEF TelInv, TelOrdered, TelWarned
  <2> QED  BY <1>1, <1>7, <1>13, <1>15, <1>16, <1>17, <2>1 DEF TelWarned
<1> QED  BY <1>9, <1>10, <1>11, <1>14, <1>18 DEF TelInv

\* Every step keeps the invariant.
LEMMA TelStep ==
    ASSUME TelInv, T!Next
    PROVE  TelInv'
<1>1. CASE \E v \in T!Levels : T!RefreshLabUsage(v) \/ \E ok \in BOOLEAN : T!ScanEnds(v, ok)
  BY <1>1, UsageRefreshed, ScanIsEnded
<1>2. CASE \E f \in BOOLEAN : T!ScanBegins(f)
  BY <1>2, ScanIsBegun
<1>3. CASE T!CollectHeartbeat
  BY <1>3, HeartbeatCollected
<1>4. CASE T!Heartbeat
  BY <1>4, HeartbeatIngested
<1>5. CASE T!HeartbeatLost \/ T!UsageScan
  BY <1>5, HeartbeatGone
<1>6. CASE T!PlacementChanges
  BY <1>6, PlacementChanged
<1>7. CASE T!MembershipChanges \/ T!EmailChanges
  BY <1>7, StudentChanged
<1>8. CASE T!PruneOldData
  BY <1>8, AlertsPruned
<1>9. CASE T!Pass
  BY <1>9, TimePasses
<1> QED  BY <1>1, <1>2, <1>3, <1>4, <1>5, <1>6, <1>7, <1>8, <1>9 DEF T!Next

\* The page shows what the last heartbeat said, and a scan's number once it stops
\* waiting for the scan; PIs are mailed in time and not too often, whatever is pruned;
\* a student over the limit is warned in time.
THEOREM StorageIsReported == Spec => []StorageReported
<1> DEFINE I == part = "telemetry" => TelInv
<1>1. Init => I
  BY TelBegins DEF Init
<1>2. I /\ [Next]_vars => I'
  <2> SUFFICES ASSUME I, [Next]_vars, part' = "telemetry"
               PROVE  TelInv'
    OBVIOUS
  <2>1. CASE part = "telemetry" /\ T!Next
    BY <2>1, TelStep
  <2>2. CASE part = "telemetry" /\ UNCHANGED <<now, telVars>>
    <3>1. TelInv
      BY <2>2
    <3>2. UNCHANGED <<now, cache, scan, beat, placed, member, email, sample, warned, scannedAt, task, shown>>
      BY <2>2 DEF telVars
    <3> QED  BY <3>1, <3>2 DEF TelInv, TelTyped, TelOrdered, TelFresh, TelStored, TelWarned
  <2> QED  BY <2>1, <2>2 DEF Next, vars
<1>3. I => StorageReported
  BY TelHolds DEF StorageReported
<1> QED  BY <1>1, <1>2, <1>3, PTL DEF Spec
=============================================================================
