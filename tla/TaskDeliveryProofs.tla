------------------------- MODULE TaskDeliveryProofs -------------------------
(***************************************************************************)
(* Proofs about TaskDelivery, for every number of tasks, faults and aged   *)
(* journal rows and every choice of fault kinds and undecodable tasks.     *)
(***************************************************************************)
EXTENDS TaskDelivery, SequenceTheorems, TLAPS

(***************************************************************************)
(* What the queue operations do to the jobs of a queue.                    *)
(***************************************************************************)

\* RemoveAt deletes one element and keeps the others in order.
LEMMA RemoveAtSeq ==
    ASSUME NEW S, NEW q \in Seq(S), NEW i \in 1..Len(q)
    PROVE  /\ RemoveAt(q, i) \in Seq(S)
           /\ Len(RemoveAt(q, i)) = Len(q) - 1
           /\ \A k \in 1..(Len(q) - 1) :
                 RemoveAt(q, i)[k] = IF k < i THEN q[k] ELSE q[k + 1]
<1> DEFINE a == SubSeq(q, 1, i - 1)
           b == SubSeq(q, i + 1, Len(q))
<1>1. Len(q) \in Nat /\ DOMAIN q = 1..Len(q)
  BY LenProperties
<1>2. /\ a \in Seq(S) /\ Len(a) = i - 1
      /\ \A k \in 1..(i - 1) : a[k] = q[k]
  BY <1>1, SubSeqProperties
<1>3. /\ b \in Seq(S) /\ Len(b) = Len(q) - i
      /\ \A k \in 1..(Len(q) - i) : b[k] = q[i + k]
  <2>1. /\ b \in Seq(S)
        /\ Len(b) = IF i + 1 <= Len(q) THEN Len(q) - (i + 1) + 1 ELSE 0
        /\ \A k \in 1..(Len(q) - (i + 1) + 1) : b[k] = q[(i + 1) + k - 1]
    BY <1>1, SubSeqProperties
  <2> HIDE DEF b
  <2>2. Len(q) - (i + 1) + 1 = Len(q) - i
    BY <1>1
  <2>3. \A k \in 1..(Len(q) - i) : (i + 1) + k - 1 = i + k
    BY <1>1
  <2>4. Len(b) = Len(q) - i
    <3>1. \A n \in Nat : \A m \in 1..n :
             (IF m + 1 <= n THEN n - (m + 1) + 1 ELSE 0) = n - m
      OBVIOUS
    <3> QED  BY <1>1, <2>1, <3>1
  <2>5. \A k \in 1..(Len(q) - i) : b[k] = q[i + k]
    BY <2>1, <2>2, <2>3
  <2> QED  BY <2>1, <2>4, <2>5
<1>4. RemoveAt(q, i) = a \o b
  BY DEF RemoveAt
<1> HIDE DEF a, b
<1>5. /\ a \o b \in Seq(S) /\ Len(a \o b) = Len(a) + Len(b)
      /\ \A k \in 1..(Len(a) + Len(b)) :
            (a \o b)[k] = IF k <= Len(a) THEN a[k] ELSE b[k - Len(a)]
  BY <1>2, <1>3, ConcatProperties
<1> QED  BY <1>1, <1>2, <1>3, <1>4, <1>5

\* A queue is a sequence of jobs; anything with jobs at the same positions is one.
LEMMA QueueSeq ==
    ASSUME NEW Item, NEW q \in Queue(Item)
    PROVE  /\ q \in Seq([item : Item, st : JobStates])
           /\ Len(q) \in Nat /\ DOMAIN q = 1..Len(q)
           /\ \A k \in DOMAIN q : q[k] \in [item : Item, st : JobStates]
           /\ \A r \in [DOMAIN q -> [item : Item, st : JobStates]] : r \in Queue(Item)
<1> DEFINE J == [item : Item, st : JobStates]
<1>1. q \in Seq(J) /\ Len(q) \in Nat /\ DOMAIN q = 1..Len(q)
  BY LenProperties DEF Queue
<1>2. \A k \in DOMAIN q : q[k] \in J
  BY <1>1, ElementOfSeq
<1>3. \A r \in [DOMAIN q -> J] : r \in Queue(Item)
  BY <1>1, IsASeq DEF Queue
<1> QED  BY <1>1, <1>2, <1>3

\* Enqueue adds a job for its item at the end.
LEMMA EnqueueQueue ==
    ASSUME NEW Item, NEW q \in Queue(Item), NEW x \in Item
    PROVE  /\ Enqueue(q, x) \in Queue(Item)
           /\ DOMAIN q \subseteq DOMAIN Enqueue(q, x)
           /\ \A k \in DOMAIN q : Enqueue(q, x)[k] = q[k]
           /\ \A y : Holds(Enqueue(q, x), y) <=> (Holds(q, y) \/ y = x)
<1> DEFINE J == [item : Item, st : JobStates]
           j == [item |-> x, st |-> "pending"]
           e == Append(q, j)
<1>1. q \in Seq(J) /\ DOMAIN q = 1..Len(q) /\ Len(q) \in Nat
  BY QueueSeq
<1>2. j \in J /\ j.item = x
  BY DEF JobStates
<1>3. e = Enqueue(q, x)
  BY DEF Enqueue
<1> HIDE DEF J, j
<1>4. /\ e \in Seq(J) /\ Len(e) = Len(q) + 1
      /\ \A k \in 1..Len(q) : e[k] = q[k]
      /\ e[Len(q) + 1] = j
  BY <1>1, <1>2, AppendProperties
<1> HIDE DEF e
<1>5. DOMAIN e = 1..(Len(q) + 1)
  BY <1>4, LenProperties
<1>6. e \in Queue(Item)
  BY <1>4 DEF Queue, J
<1>7. DOMAIN q \subseteq DOMAIN e /\ \A k \in DOMAIN q : e[k] = q[k]
  BY <1>1, <1>4, <1>5
<1>8. ASSUME NEW y
      PROVE  Holds(e, y) <=> (Holds(q, y) \/ y = x)
  BY <1>1, <1>2, <1>4, <1>5 DEF Holds
<1> QED  BY <1>3, <1>6, <1>7, <1>8

\* Abandon changes no item.
LEMMA AbandonQueue ==
    ASSUME NEW Item, NEW q \in Queue(Item)
    PROVE  /\ Abandon(q) \in Queue(Item)
           /\ DOMAIN Abandon(q) = DOMAIN q
           /\ \A k \in DOMAIN q : Abandon(q)[k].item = q[k].item
           /\ \A y : Holds(Abandon(q), y) <=> Holds(q, y)
<1> DEFINE J == [item : Item, st : JobStates]
<1>1. \A k \in DOMAIN q : q[k] \in J
  BY QueueSeq
<1>2. /\ Abandon(q) \in [DOMAIN q -> J]
      /\ \A k \in DOMAIN q : Abandon(q)[k].item = q[k].item
  BY <1>1 DEF Abandon, JobStates
<1>3. Abandon(q) \in Queue(Item)
  BY <1>2, QueueSeq
<1>4. DOMAIN Abandon(q) = DOMAIN q
  BY <1>2
<1>5. \A y : Holds(Abandon(q), y) <=> Holds(q, y)
  BY <1>2, <1>4 DEF Holds
<1> QED  BY <1>2, <1>3, <1>4, <1>5

\* Changing the state of one job changes no item.
LEMMA MarkQueue ==
    ASSUME NEW Item, NEW q \in Queue(Item), NEW i \in DOMAIN q, NEW s \in JobStates
    PROVE  /\ [q EXCEPT ![i].st = s] \in Queue(Item)
           /\ DOMAIN [q EXCEPT ![i].st = s] = DOMAIN q
           /\ \A k \in DOMAIN q : [q EXCEPT ![i].st = s][k].item = q[k].item
           /\ \A y : Holds([q EXCEPT ![i].st = s], y) <=> Holds(q, y)
<1> DEFINE J == [item : Item, st : JobStates]
           r == [q EXCEPT ![i].st = s]
<1>1. \A k \in DOMAIN q : q[k] \in J
  BY QueueSeq
<1>2. r \in [DOMAIN q -> J] /\ \A k \in DOMAIN q : r[k].item = q[k].item
  BY <1>1
<1> HIDE DEF r
<1>3. r \in Queue(Item)
  BY <1>2, QueueSeq
<1>4. DOMAIN r = DOMAIN q
  BY <1>2
<1>5. \A y : Holds(r, y) <=> Holds(q, y)
  BY <1>2, <1>4 DEF Holds
<1> QED  BY <1>2, <1>3, <1>4, <1>5 DEF r

\* Claim, Retry and Release change no item.
LEMMA ClaimQueue ==
    ASSUME NEW Item, NEW q \in Queue(Item), NEW i \in DOMAIN q,
           NEW r, r = Claim(q, i) \/ r = Retry(q, i) \/ r = Release(q, i)
    PROVE  /\ r \in Queue(Item)
           /\ DOMAIN r = DOMAIN q
           /\ \A k \in DOMAIN q : r[k].item = q[k].item
           /\ \A y : Holds(r, y) <=> Holds(q, y)
<1>1. CASE r = [q EXCEPT ![i].st = "held"]
  BY <1>1, MarkQueue DEF JobStates
<1>2. CASE r = [q EXCEPT ![i].st = "waiting"]
  BY <1>2, MarkQueue DEF JobStates
<1>3. CASE r = [q EXCEPT ![i].st = "pending"]
  BY <1>3, MarkQueue DEF JobStates
<1>4. CASE r = q
  BY <1>4
<1> QED  BY <1>1, <1>2, <1>3, <1>4 DEF Claim, Retry, Release

\* Ack removes nothing but the job acknowledged.
LEMMA AckQueue ==
    ASSUME NEW Item, NEW q \in Queue(Item), NEW i \in DOMAIN q
    PROVE  /\ q[i].item \in Item
           /\ Ack(q, i) \in Queue(Item)
           /\ \A y : Holds(Ack(q, i), y) => Holds(q, y)
           /\ \A y : Holds(q, y) /\ y # q[i].item => Holds(Ack(q, i), y)
<1> DEFINE J == [item : Item, st : JobStates]
<1>1. q \in Seq(J) /\ DOMAIN q = 1..Len(q) /\ Len(q) \in Nat
  BY QueueSeq
<1>2. q[i].item \in Item
  BY QueueSeq
<1>3. CASE q[i].st # "held"
  BY <1>2, <1>3 DEF Ack
<1>4. CASE q[i].st = "held"
  <2> DEFINE r == RemoveAt(q, i)
  <2>1. /\ r \in Seq(J) /\ Len(r) = Len(q) - 1
        /\ \A k \in 1..(Len(q) - 1) : r[k] = IF k < i THEN q[k] ELSE q[k + 1]
    BY <1>1, RemoveAtSeq
  <2>2. Ack(q, i) = r
    BY <1>4 DEF Ack
  <2> HIDE DEF r
  <2>3. DOMAIN r = 1..(Len(q) - 1)
    BY <2>1, LenProperties
  <2>4. ASSUME NEW y, Holds(r, y)
        PROVE  Holds(q, y)
    <3>1. PICK k \in 1..(Len(q) - 1) : r[k].item = y
      BY <2>3, <2>4 DEF Holds
    <3>2. k \in DOMAIN q /\ k + 1 \in DOMAIN q
      BY <1>1
    <3>3. r[k] = q[k] \/ r[k] = q[k + 1]
      BY <2>1
    <3> QED  BY <3>1, <3>2, <3>3 DEF Holds
  <2>5. ASSUME NEW y, Holds(q, y), y # q[i].item
        PROVE  Holds(r, y)
    <3>1. PICK k \in 1..Len(q) : q[k].item = y
      BY <1>1, <2>5 DEF Holds
    <3>2. CASE k < i
      <4>1. k \in 1..(Len(q) - 1) /\ r[k] = q[k]
        BY <1>1, <2>1, <3>2
      <4> QED  BY <2>3, <3>1, <4>1 DEF Holds
    <3>3. CASE k > i
      <4>1. k - 1 \in 1..(Len(q) - 1) /\ r[k - 1] = q[(k - 1) + 1] /\ (k - 1) + 1 = k
        BY <1>1, <2>1, <3>3
      <4> QED  BY <2>3, <3>1, <4>1 DEF Holds
    <3>4. k # i
      BY <2>5, <3>1
    <3> QED  BY <1>1, <3>2, <3>3, <3>4
  <2>6. r \in Queue(Item)
    BY <2>1 DEF Queue
  <2> QED  BY <1>2, <2>2, <2>4, <2>5, <2>6
<1> QED  BY <1>3, <1>4
-----------------------------------------------------------------------------
(***************************************************************************)
(* Type correctness.                                                       *)
(***************************************************************************)
LEMMA FrameTypes ==
    ASSUME NEW t \in Tasks
    PROVE  /\ Receipt(t) \in Frames
           /\ \A out \in Outcomes : Result(t, out) \in Frames
BY DEF Frames, Receipt, Result

\* The records of an idle worker and an idle sender.
LEMMA IdleTypes ==
    /\ IdleWorker \in [pc : {"idle", "claimed", "running", "recorded", "acking", "dead"},
                       at : Nat, out : Outcomes \cup {"none"}]
    /\ IdleWorker.pc = "idle"
    /\ IdleSender \in [pc : {"idle", "claimed", "sent"}, at : Nat]
    /\ IdleSender.pc = "idle"
BY DEF IdleWorker, IdleSender

LEMMA InitType == Init => TypeOK
<1> SUFFICES ASSUME Init PROVE TypeOK
  OBVIOUS
<1>1. <<>> \in Queue(Tasks) /\ <<>> \in Queue(Frames)
  BY DEF Queue
<1>2. CtlOK  BY <1>1, BoundsAssumption DEF Init, CtlOK
<1>3. NetOK  BY DEF Init, NetOK
<1>4. WireOK  BY DEF Init, WireOK
<1>5. WorkerOK  BY <1>1, IdleTypes DEF Init, WorkerOK
<1>6. SenderOK  BY <1>1, IdleTypes DEF Init, SenderOK
<1>7. DoneOK  BY DEF Init, DoneOK
<1>8. BoundOK  BY BoundsAssumption DEF Init, BoundOK
<1> QED  BY <1>2, <1>3, <1>4, <1>5, <1>6, <1>7, <1>8 DEF TypeOK

\* What a step leaves alone keeps its type.
LEMMA SameType ==
    ASSUME TypeOK
    PROVE  /\ UNCHANGED ctl => CtlOK'
           /\ UNCHANGED net => NetOK'
           /\ UNCHANGED <<toAgent, toHub>> => WireOK'
           /\ UNCHANGED <<agentQ, worker>> => WorkerOK'
           /\ UNCHANGED <<outbox, sender>> => SenderOK'
           /\ UNCHANGED done => DoneOK'
           /\ UNCHANGED bound => BoundOK'
<1>1. UNCHANGED ctl => CtlOK'  BY DEF TypeOK, CtlOK, ctl
<1>2. UNCHANGED net => NetOK'  BY DEF TypeOK, NetOK, net
<1>3. UNCHANGED <<toAgent, toHub>> => WireOK'  BY DEF TypeOK, WireOK
<1>4. UNCHANGED <<agentQ, worker>> => WorkerOK'  BY DEF TypeOK, WorkerOK
<1>5. UNCHANGED <<outbox, sender>> => SenderOK'  BY DEF TypeOK, SenderOK
<1>6. UNCHANGED done => DoneOK'  BY DEF TypeOK, DoneOK, done
<1>7. UNCHANGED bound => BoundOK'  BY DEF TypeOK, BoundOK, bound
<1> QED  BY <1>1, <1>2, <1>3, <1>4, <1>5, <1>6, <1>7

LEMMA FaultType ==
    ASSUME TypeOK, NEW kind, Fault(kind)
    PROVE  BoundOK'
BY BoundsAssumption DEF TypeOK, BoundOK, Fault

\* What a crash leaves of the hub, of the agent, of the connection.
LEMMA HubForgetsType ==
    ASSUME TypeOK, HubForgets, toAgent' \in Seq(Tasks)
    PROVE  NetOK' /\ WireOK'
<1>1. NetOK'  BY DEF TypeOK, NetOK, HubForgets
<1>2. WireOK'  BY DEF WireOK, HubForgets
<1> QED  BY <1>1, <1>2

LEMMA AgentForgetsType ==
    ASSUME TypeOK, NEW j \in Queue(Tasks), AgentForgets(j)
    PROVE  NetOK' /\ WireOK' /\ WorkerOK' /\ SenderOK'
<1>1. NetOK' /\ WireOK'
  <2>1. NetOK'  BY DEF TypeOK, NetOK, AgentForgets
  <2>2. WireOK'  BY DEF TypeOK, WireOK, AgentForgets
  <2> QED  BY <2>1, <2>2
<1>2. Abandon(j) \in Queue(Tasks)
  BY AbandonQueue
<1>3. WorkerOK'
  BY <1>2, IdleTypes DEF WorkerOK, AgentForgets
<1>4. outbox \in Queue(Frames)
  BY DEF TypeOK, SenderOK
<1>5. Abandon(outbox) \in Queue(Frames)
  BY <1>4, AbandonQueue
<1>6. SenderOK'
  BY <1>5, IdleTypes DEF SenderOK, AgentForgets
<1> QED  BY <1>1, <1>3, <1>6

LEMMA NetworkType == TypeOK /\ Network => TypeOK'
<1> SUFFICES ASSUME TypeOK, Network PROVE TypeOK'
  OBVIOUS
<1>1. CASE Connect
  <2>1. NetOK'  BY <1>1 DEF Connect, TypeOK, NetOK
  <2>2. WireOK'  BY <1>1 DEF Connect, TypeOK, WireOK
  <2> QED  BY <1>1, <2>1, <2>2, SameType DEF Connect, TypeOK, node
<1>2. CASE DialRefused
  <2>1. NetOK'  BY <1>2 DEF DialRefused, TypeOK, NetOK
  <2> QED  BY <1>2, <2>1, SameType DEF DialRefused, TypeOK, node
<1>3. CASE Break
  <2>1. NetOK'  BY <1>3 DEF Break, TypeOK, NetOK
  <2> QED  BY <1>3, <2>1, SameType, FaultType DEF Break, TypeOK, node
<1>4. CASE HubTerminates
  <2>1. NetOK'  BY <1>4 DEF HubTerminates, TypeOK, NetOK
  <2> QED  BY <1>4, <2>1, SameType DEF HubTerminates, TypeOK, node
<1>5. CASE HubNoticesClose
  <2>1. NetOK'  BY <1>5 DEF HubNoticesClose, TypeOK, NetOK
  <2>2. WireOK'  BY <1>5 DEF HubNoticesClose, TypeOK, WireOK
  <2> QED  BY <1>5, <2>1, <2>2, SameType DEF HubNoticesClose, TypeOK, node
<1>6. CASE LateCloseEvent
  <2>1. NetOK'  BY <1>6 DEF LateCloseEvent, TypeOK, NetOK
  <2> QED  BY <1>6, <2>1, SameType DEF LateCloseEvent, TypeOK, node
<1>7. CASE CloseCompletes
  <2>1. NetOK'  BY <1>7 DEF CloseCompletes, TypeOK, NetOK
  <2> QED  BY <1>7, <2>1, SameType DEF CloseCompletes, TypeOK, node
<1>8. CASE AgentNoticesClose
  <2>1. NetOK'  BY <1>8 DEF AgentNoticesClose, TypeOK, NetOK
  <2>2. WireOK'  BY <1>8 DEF AgentNoticesClose, TypeOK, WireOK
  <2>3. outbox \in Queue(Frames)  BY DEF TypeOK, SenderOK
  <2>4. Abandon(outbox) \in Queue(Frames)  BY <2>3, AbandonQueue
  <2>5. SenderOK'  BY <1>8, <2>4, IdleTypes DEF AgentNoticesClose, SenderOK
  <2> QED  BY <1>8, <2>1, <2>2, <2>5, SameType DEF AgentNoticesClose, TypeOK
<1> QED  BY <1>1, <1>2, <1>3, <1>4, <1>5, <1>6, <1>7, <1>8 DEF Network

LEMMA MarkTaskStateType ==
    ASSUME NEW t, NEW st \in {"sent"} \cup Outcomes,
           taskLog \in [Tasks -> {"none", "queued", "sent"} \cup Outcomes]
    PROVE  MarkTaskState(taskLog, t, st) \in [Tasks -> {"none", "queued", "sent"} \cup Outcomes]
BY DEF MarkTaskState

\* The three ways drainNode leaves a job it claimed.
LEMMA DrainQueue ==
    ASSUME NEW q \in Queue(Tasks), NEW i \in DOMAIN q
    PROVE  /\ q[i].item \in Tasks
           /\ Ack(Claim(q, i), i) \in Queue(Tasks)
           /\ Retry(Claim(q, i), i) \in Queue(Tasks)
           /\ Abandon(Claim(q, i)) \in Queue(Tasks)
<1>1. Claim(q, i) \in Queue(Tasks) /\ DOMAIN Claim(q, i) = DOMAIN q
  BY ClaimQueue
<1>2. q[i].item \in Tasks
  BY AckQueue
<1>3. Ack(Claim(q, i), i) \in Queue(Tasks)
  BY <1>1, AckQueue
<1>4. Retry(Claim(q, i), i) \in Queue(Tasks)
  BY <1>1, ClaimQueue
<1>5. Abandon(Claim(q, i)) \in Queue(Tasks)
  BY <1>1, AbandonQueue
<1> QED  BY <1>2, <1>3, <1>4, <1>5

LEMMA ControllerType == TypeOK /\ Controller => TypeOK'
<1> SUFFICES ASSUME TypeOK, Controller PROVE TypeOK'
  OBVIOUS
<1>a. ctlQ \in Queue(Tasks) /\ toAgent \in Seq(Tasks) /\ toHub \in Seq(Frames)
  BY DEF TypeOK, CtlOK, WireOK
<1>b. ASSUME NEW t \in Tasks, SendTask(t) \/ UNCHANGED toAgent
      PROVE  toAgent' \in Seq(Tasks)
  BY <1>a, <1>b DEF SendTask
<1>c. ASSUME toHub # <<>>
      PROVE  Head(toHub) \in Frames /\ Tail(toHub) \in Seq(Frames)
  BY <1>a, <1>c
<1>1. CASE EnqueueTask
  <2>1. Enqueue(ctlQ, issued + 1) \in Queue(Tasks)
    BY <1>1, <1>a, EnqueueQueue DEF EnqueueTask
  <2>2. CtlOK'  BY <1>1, <2>1, BoundsAssumption DEF EnqueueTask, TypeOK, CtlOK, Tasks
  <2> QED  BY <1>1, <2>2, SameType DEF EnqueueTask, TypeOK, node
<1>2. CASE EnqueueCrash
  <2>1. Enqueue(ctlQ, issued + 1) \in Queue(Tasks)
    BY <1>2, <1>a, EnqueueQueue DEF EnqueueCrash
  <2>2. CtlOK'  BY <1>2, <2>1, BoundsAssumption DEF EnqueueCrash, TypeOK, CtlOK, Tasks
  <2> QED  BY <1>2, <1>a, <2>2, SameType, FaultType, HubForgetsType
           DEF EnqueueCrash, TypeOK, node
<1>3. CASE HubCrash
  BY <1>3, <1>a, SameType, FaultType, HubForgetsType DEF HubCrash, TypeOK, node
<1>4. CASE DrainNode
  <2>1. PICK i \in DOMAIN ctlQ :
           /\ SendTask(ctlQ[i].item)
           /\ ctlQ' = Ack(Claim(ctlQ, i), i)
           /\ taskLog' = MarkTaskState(taskLog, ctlQ[i].item, "sent")
    BY <1>4 DEF DrainNode
  <2>2. ctlQ' \in Queue(Tasks) /\ toAgent' \in Seq(Tasks)
    BY <1>a, <1>b, <2>1, DrainQueue
  <2>3. CtlOK'
    BY <1>4, <2>1, <2>2, MarkTaskStateType DEF DrainNode, TypeOK, CtlOK
  <2>4. WireOK'  BY <1>4, <1>a, <2>2 DEF DrainNode, WireOK
  <2> QED  BY <1>4, <2>3, <2>4, SameType DEF DrainNode, TypeOK, node
<1>5. CASE DrainNodeThrows
  <2>1. PICK i \in DOMAIN ctlQ :
           /\ SendTask(ctlQ[i].item) \/ UNCHANGED toAgent
           /\ ctlQ' = Retry(Claim(ctlQ, i), i) \/ ctlQ' = Ack(Claim(ctlQ, i), i)
    BY <1>5 DEF DrainNodeThrows
  <2>2. ctlQ' \in Queue(Tasks) /\ toAgent' \in Seq(Tasks)
    BY <1>a, <1>b, <2>1, DrainQueue
  <2>3. CtlOK'  BY <1>5, <2>2 DEF DrainNodeThrows, TypeOK, CtlOK
  <2>4. WireOK'  BY <1>5, <1>a, <2>2 DEF DrainNodeThrows, WireOK
  <2> QED  BY <1>5, <2>3, <2>4, SameType, FaultType DEF DrainNodeThrows, TypeOK, node
<1>6. CASE DrainNodeCrash
  <2>1. PICK i \in DOMAIN ctlQ :
           /\ SendTask(ctlQ[i].item) \/ UNCHANGED toAgent
           /\ ctlQ' = Abandon(Claim(ctlQ, i)) \/ ctlQ' = Ack(Claim(ctlQ, i), i)
    BY <1>6 DEF DrainNodeCrash
  <2>2. ctlQ' \in Queue(Tasks) /\ toAgent' \in Seq(Tasks)
    BY <1>a, <1>b, <2>1, DrainQueue
  <2>3. CtlOK'  BY <1>6, <2>2 DEF DrainNodeCrash, TypeOK, CtlOK
  <2>4. NetOK' /\ WireOK' /\ BoundOK'
    BY <1>6, <2>2, HubForgetsType, FaultType DEF DrainNodeCrash
  <2> QED  BY <1>6, <2>3, <2>4, SameType DEF DrainNodeCrash, TypeOK, node
<1>7. CASE HandleReceipt
  <2>1. Head(toHub).task \in Tasks  BY <1>7, <1>c DEF HandleReceipt, Frames
  <2>2. CtlOK'  BY <1>7, <2>1 DEF HandleReceipt, TypeOK, CtlOK
  <2>3. WireOK'  BY <1>7, <1>a, <1>c DEF HandleReceipt, WireOK
  <2> QED  BY <1>7, <2>2, <2>3, SameType DEF HandleReceipt, TypeOK, node
<1>8. CASE HandleResult
  <2>1. Head(toHub).out \in Outcomes  BY <1>8, <1>c DEF HandleResult, Frames
  <2>2. CtlOK'
    BY <1>8, <2>1, MarkTaskStateType DEF HandleResult, TypeOK, CtlOK
  <2>3. WireOK'  BY <1>8, <1>a, <1>c DEF HandleResult, WireOK
  <2> QED  BY <1>8, <2>2, <2>3, SameType DEF HandleResult, TypeOK, node
<1>9. CASE RateLimited
  <2>1. NetOK'  BY <1>9 DEF RateLimited, TypeOK, NetOK
  <2>2. WireOK'  BY <1>9, <1>a, <1>c DEF RateLimited, WireOK
  <2> QED  BY <1>9, <2>1, <2>2, SameType, FaultType DEF RateLimited, TypeOK, node
<1> QED  BY <1>1, <1>2, <1>3, <1>4, <1>5, <1>6, <1>7, <1>8, <1>9 DEF Controller

LEMMA WorkerType == TypeOK /\ Worker => TypeOK'
<1> SUFFICES ASSUME TypeOK, Worker PROVE TypeOK'
  OBVIOUS
<1>a. /\ agentQ \in Queue(Tasks) /\ outbox \in Queue(Frames)
      /\ worker.pc \notin {"idle", "dead"} => worker.at \in DOMAIN agentQ
  BY DEF TypeOK, WorkerOK, SenderOK
<1>b. worker.pc \notin {"idle", "dead"} => Current \in Tasks
  BY <1>a, AckQueue DEF Current
<1>c. ASSUME NEW f \in Frames, outbox' = Enqueue(outbox, f), UNCHANGED sender
      PROVE  SenderOK'
  <2>1. /\ Enqueue(outbox, f) \in Queue(Frames)
        /\ DOMAIN outbox \subseteq DOMAIN Enqueue(outbox, f)
    BY <1>a, EnqueueQueue
  <2> QED  BY <1>c, <2>1 DEF TypeOK, SenderOK
<1>1. CASE WorkerClaims
  <2>1. PICK i \in DOMAIN agentQ :
           /\ agentQ' = Claim(agentQ, i)
           /\ worker' = [pc |-> "claimed", at |-> i, out |-> "none"]
    BY <1>1 DEF WorkerClaims
  <2>2. agentQ' \in Queue(Tasks) /\ DOMAIN agentQ' = DOMAIN agentQ
    BY <1>a, <2>1, ClaimQueue
  <2>3. i \in Nat
    BY <1>a, QueueSeq
  <2>4. WorkerOK'  BY <2>1, <2>2, <2>3 DEF WorkerOK
  <2> QED  BY <1>1, <2>4, SameType DEF WorkerClaims, TypeOK
<1>2. CASE WorkerDrops
  <2>1. agentQ' \in Queue(Tasks)
    BY <1>2, <1>a, AckQueue DEF WorkerDrops
  <2>2. WorkerOK'  BY <1>2, <2>1, IdleTypes DEF WorkerDrops, WorkerOK
  <2> QED  BY <1>2, <2>2, SameType DEF WorkerDrops, TypeOK
<1>3. CASE WorkerReplays
  <2>1. Result(Current, journal[Current]) \in Frames
    BY <1>3, <1>b, FrameTypes DEF WorkerReplays, TypeOK, DoneOK
  <2>2. SenderOK'  BY <1>3, <1>c, <2>1 DEF WorkerReplays
  <2>3. WorkerOK'  BY <1>3 DEF WorkerReplays, TypeOK, WorkerOK
  <2> QED  BY <1>3, <2>2, <2>3, SameType DEF WorkerReplays, TypeOK
<1>4. CASE WorkerRuns
  <2>1. WorkerOK'  BY <1>4 DEF WorkerRuns, TypeOK, WorkerOK
  <2>2. DoneOK'  BY <1>4, <1>b DEF WorkerRuns, TypeOK, DoneOK
  <2> QED  BY <1>4, <2>1, <2>2, SameType DEF WorkerRuns, TypeOK
<1>5. CASE WorkerRecords
  <2>1. WorkerOK'  BY <1>5 DEF WorkerRecords, TypeOK, WorkerOK
  <2>2. DoneOK'  BY <1>5, <1>b DEF WorkerRecords, TypeOK, DoneOK
  <2> QED  BY <1>5, <2>1, <2>2, SameType DEF WorkerRecords, TypeOK
<1>6. CASE WorkerReports
  <2>1. Result(Current, worker.out) \in Frames
    BY <1>6, <1>b, FrameTypes DEF WorkerReports, TypeOK, WorkerOK
  <2>2. SenderOK'  BY <1>6, <1>c, <2>1 DEF WorkerReports
  <2>3. WorkerOK'  BY <1>6 DEF WorkerReports, TypeOK, WorkerOK
  <2> QED  BY <1>6, <2>2, <2>3, SameType DEF WorkerReports, TypeOK
<1>7. CASE WorkerAcks
  <2>1. agentQ' \in Queue(Tasks)
    BY <1>7, <1>a, AckQueue DEF WorkerAcks
  <2>2. WorkerOK'  BY <1>7, <2>1, IdleTypes DEF WorkerAcks, WorkerOK
  <2> QED  BY <1>7, <2>2, SameType DEF WorkerAcks, TypeOK
<1>8. CASE WorkerFails
  <2>1. agentQ' \in Queue(Tasks)
    BY <1>8, <1>a, ClaimQueue DEF WorkerFails
  <2>2. WorkerOK'  BY <1>8, <2>1, IdleTypes DEF WorkerFails, WorkerOK
  <2>3. DoneOK'  BY <1>8, <1>b DEF WorkerFails, CutOff, Unrecorded, TypeOK, DoneOK
  <2> QED  BY <1>8, <2>2, <2>3, SameType, FaultType DEF WorkerFails, TypeOK
<1>9. CASE WorkerDies
  <2>1. WorkerOK'  BY <1>9 DEF WorkerDies, TypeOK, WorkerOK
  <2> QED  BY <1>9, <2>1, SameType, FaultType DEF WorkerDies, TypeOK
<1> QED  BY <1>1, <1>2, <1>3, <1>4, <1>5, <1>6, <1>7, <1>8, <1>9 DEF Worker

LEMMA SenderType == TypeOK /\ Sender => TypeOK'
<1> SUFFICES ASSUME TypeOK, Sender PROVE TypeOK'
  OBVIOUS
<1>a. /\ outbox \in Queue(Frames)
      /\ sender.pc # "idle" => sender.at \in DOMAIN outbox
  BY DEF TypeOK, SenderOK
<1>1. CASE SenderClaims
  <2>1. PICK i \in DOMAIN outbox :
           outbox' = Claim(outbox, i) /\ sender' = [pc |-> "claimed", at |-> i]
    BY <1>1 DEF SenderClaims
  <2>2. outbox' \in Queue(Frames) /\ DOMAIN outbox' = DOMAIN outbox
    BY <1>a, <2>1, ClaimQueue
  <2>3. i \in Nat
    BY <1>a, QueueSeq
  <2>4. SenderOK'  BY <2>1, <2>2, <2>3 DEF SenderOK
  <2> QED  BY <1>1, <2>4, SameType DEF SenderClaims, TypeOK
<1>2. CASE SenderSends
  <2>1. outbox[sender.at].item \in Frames
    BY <1>2, <1>a, AckQueue DEF SenderSends
  <2>2. WireOK'  BY <1>2, <2>1 DEF SenderSends, TypeOK, WireOK
  <2>3. SenderOK'  BY <1>2 DEF SenderSends, TypeOK, SenderOK
  <2> QED  BY <1>2, <2>2, <2>3, SameType DEF SenderSends, TypeOK
<1>3. CASE SenderAcks
  <2>1. outbox' \in Queue(Frames)
    BY <1>3, <1>a, AckQueue DEF SenderAcks
  <2>2. SenderOK'  BY <1>3, <2>1, IdleTypes DEF SenderAcks, SenderOK
  <2> QED  BY <1>3, <2>2, SameType DEF SenderAcks, TypeOK
<1>4. CASE SenderFails
  <2>1. outbox' \in Queue(Frames)
    BY <1>4, <1>a, ClaimQueue DEF SenderFails
  <2>2. SenderOK'  BY <1>4, <2>1, IdleTypes DEF SenderFails, SenderOK
  <2>3. NetOK'  BY <1>4 DEF SenderFails, TypeOK, NetOK
  <2>4. WireOK'  BY <1>4 DEF SenderFails, TypeOK, WireOK
  <2>5. BoundOK'  BY <1>4, FaultType, SameType DEF SenderFails
  <2> QED  BY <1>4, <2>2, <2>3, <2>4, <2>5, SameType DEF SenderFails, TypeOK
<1> QED  BY <1>1, <1>2, <1>3, <1>4 DEF Sender

LEMMA TimeType == TypeOK /\ Time => TypeOK'
<1> SUFFICES ASSUME TypeOK, Time PROVE TypeOK'
  OBVIOUS
<1>a. ASSUME NEW i \in DOMAIN agentQ, agentQ' = Release(agentQ, i), UNCHANGED worker
      PROVE  WorkerOK'
  <2>1. agentQ' \in Queue(Tasks) /\ DOMAIN agentQ' = DOMAIN agentQ
    BY <1>a, ClaimQueue DEF TypeOK, WorkerOK
  <2> QED  BY <1>a, <2>1 DEF TypeOK, WorkerOK
<1>b. ASSUME NEW i \in DOMAIN outbox, outbox' = Release(outbox, i), UNCHANGED sender
      PROVE  SenderOK'
  <2>1. outbox' \in Queue(Frames) /\ DOMAIN outbox' = DOMAIN outbox
    BY <1>b, ClaimQueue DEF TypeOK, SenderOK
  <2> QED  BY <1>b, <2>1 DEF TypeOK, SenderOK
<1>1. CASE CtlJobReappears
  <2>1. ctlQ' \in Queue(Tasks)
    BY <1>1, ClaimQueue DEF CtlJobReappears, TypeOK, CtlOK
  <2>2. CtlOK'  BY <1>1, <2>1 DEF CtlJobReappears, TypeOK, CtlOK
  <2> QED  BY <1>1, <2>2, SameType DEF CtlJobReappears, TypeOK, node
<1>2. CASE AgentJobReappears
  BY <1>2, <1>a, SameType DEF AgentJobReappears, TypeOK
<1>3. CASE OutboxJobReappears
  BY <1>3, <1>b, SameType DEF OutboxJobReappears, TypeOK
<1>4. CASE ClaimTimesOut
  BY <1>4, <1>a, <1>b, SameType, FaultType DEF ClaimTimesOut, TypeOK
<1>5. CASE JournalAges
  <2>1. DoneOK'  BY <1>5 DEF JournalAges, TypeOK, DoneOK
  <2>2. BoundOK'  BY <1>5, BoundsAssumption DEF JournalAges, TypeOK, BoundOK
  <2> QED  BY <1>5, <2>1, <2>2, SameType DEF JournalAges, TypeOK, node
<1> QED  BY <1>1, <1>2, <1>3, <1>4, <1>5 DEF Time

LEMMA AgentType ==
    TypeOK /\ (AgentCrash \/ ReceiveTask \/ ReceiveTaskCrash) => TypeOK'
<1> SUFFICES ASSUME TypeOK, AgentCrash \/ ReceiveTask \/ ReceiveTaskCrash PROVE TypeOK'
  OBVIOUS
<1>a. /\ agentQ \in Queue(Tasks) /\ outbox \in Queue(Frames)
      /\ worker.pc \notin {"idle", "dead"} => worker.at \in DOMAIN agentQ
  BY DEF TypeOK, WorkerOK, SenderOK
<1>b. toAgent # <<>> => Head(toAgent) \in Tasks /\ Tail(toAgent) \in Seq(Tasks)
  BY DEF TypeOK, WireOK
<1>c. CutOff => DoneOK'
  <2>1. worker.pc = "running" => Current \in Tasks
    BY <1>a, AckQueue DEF Current
  <2> QED  BY <2>1 DEF CutOff, Unrecorded, TypeOK, DoneOK
<1>d. ASSUME NEW t \in Tasks
      PROVE  /\ Enqueue(agentQ, t) \in Queue(Tasks)
             /\ DOMAIN agentQ \subseteq DOMAIN Enqueue(agentQ, t)
             /\ Enqueue(outbox, Receipt(t)) \in Queue(Frames)
             /\ DOMAIN outbox \subseteq DOMAIN Enqueue(outbox, Receipt(t))
  BY <1>a, EnqueueQueue, FrameTypes
<1>1. CASE AgentCrash
  <2>1. NetOK' /\ WireOK' /\ WorkerOK' /\ SenderOK'
    BY <1>1, <1>a, AgentForgetsType DEF AgentCrash
  <2> QED  BY <1>1, <1>c, <2>1, SameType, FaultType DEF AgentCrash, TypeOK
<1>2. CASE ReceiveTask
  <2>1. WorkerOK'  BY <1>2, <1>b, <1>d DEF ReceiveTask, TypeOK, WorkerOK
  <2>2. SenderOK'  BY <1>2, <1>b, <1>d DEF ReceiveTask, TypeOK, SenderOK
  <2>3. WireOK'  BY <1>2, <1>b DEF ReceiveTask, TypeOK, WireOK
  <2> QED  BY <1>2, <2>1, <2>2, <2>3, SameType DEF ReceiveTask, TypeOK
<1>3. CASE ReceiveTaskCrash
  <2>1. NetOK' /\ WireOK' /\ WorkerOK' /\ SenderOK'
    BY <1>3, <1>b, <1>d, AgentForgetsType DEF ReceiveTaskCrash
  <2> QED  BY <1>3, <1>c, <2>1, SameType, FaultType DEF ReceiveTaskCrash, TypeOK
<1> QED  BY <1>1, <1>2, <1>3

LEMMA NextType == TypeOK /\ [Next]_vars => TypeOK'
<1>1. TypeOK /\ UNCHANGED vars => TypeOK'
  BY SameType DEF vars, node, TypeOK
<1> QED  BY <1>1, NetworkType, ControllerType, WorkerType, SenderType, TimeType,
            AgentType DEF Next

\* Every variable keeps its type, and the worker and the sender never hold a
\* handle to a job their queue does not have.
THEOREM TypeCorrect == Spec => []TypeOK
<1> QED  BY InitType, NextType, PTL DEF Spec
-----------------------------------------------------------------------------
(***************************************************************************)
(* The safety invariants.                                                  *)
(*                                                                         *)
(* Most steps move frames and jobs about without adding any: CalmStep says *)
(* once and for all that such a step preserves the invariant, and Calm is  *)
(* what remains to be shown of each.  The other steps follow one by one.   *)
(***************************************************************************)
Fewer ==
    \A f \in Frames : InTransit(f)' => InTransit(f)

KeepsJobs ==
    \A t \in Tasks : Holds(agentQ, t) => Holds(agentQ, t)'

SameWorker ==
    UNCHANGED worker /\ (worker.pc \notin {"idle", "dead"} => Current' = Current)

NewlySettled ==
    \E t \in Tasks : taskLog'[t] \in Outcomes /\ taskLog'[t] # taskLog[t]

Safe ==
    ResultAgreement /\ ReceiptSound /\ ExecutionAccounting
    /\ WorkerPhases /\ AgedRowsExist

\* Result and receipt frames are different frames.
LEMMA FramesDiffer ==
    /\ \A t, u, out : Receipt(t) # Result(u, out)
    /\ \A t, u : Receipt(t) = Receipt(u) => t = u
    /\ \A t, u, out, res : Result(t, out) = Result(u, res) => t = u /\ out = res
<1>1. ASSUME NEW t, NEW u, NEW out
      PROVE  Receipt(t) # Result(u, out)
  <2>1. Receipt(t).kind = "receipt" /\ Result(u, out).kind = "result"
    BY DEF Receipt, Result
  <2> QED  BY <2>1
<1>2. ASSUME NEW t, NEW u, Receipt(t) = Receipt(u)
      PROVE  t = u
  <2>1. Receipt(t).task = t /\ Receipt(u).task = u
    BY DEF Receipt
  <2> QED  BY <1>2, <2>1
<1>3. ASSUME NEW t, NEW u, NEW out, NEW res, Result(t, out) = Result(u, res)
      PROVE  t = u /\ out = res
  <2>1. /\ Result(t, out).task = t /\ Result(t, out).out = out
        /\ Result(u, res).task = u /\ Result(u, res).out = res
    BY DEF Result
  <2> QED  BY <1>3, <2>1
<1> QED  BY <1>1, <1>2, <1>3

LEMMA CalmStep ==
    ASSUME TypeOK, Safe, Fewer, KeepsJobs, SameWorker, ~NewlySettled,
           UNCHANGED done, received' \subseteq received
    PROVE  Safe'
<1>1. ResultAgreement'
  BY FrameTypes DEF Safe, ResultAgreement, Fewer, NewlySettled, done
<1>2. ReceiptSound'
  BY FrameTypes DEF Safe, ReceiptSound, Fewer, KeepsJobs, done
<1>3. Unrecorded' <=> Unrecorded
  BY DEF Unrecorded, SameWorker
<1>4. Unrecorded => Current' = Current
  BY DEF Unrecorded, SameWorker
<1>5. ExecutionAccounting'
  BY <1>3, <1>4 DEF Safe, ExecutionAccounting, done
<1>6. WorkerPhases'
  BY DEF Safe, WorkerPhases, SameWorker, done
<1>7. AgedRowsExist'
  BY DEF Safe, AgedRowsExist, done
<1> QED  BY <1>1, <1>2, <1>5, <1>6, <1>7 DEF Safe

\* Frames are moved from the outbox to the wire and off the wire.
LEMMA WireMoves ==
    ASSUME TypeOK
    PROVE  /\ UNCHANGED <<outbox, toHub>> => Fewer
           /\ UNCHANGED outbox /\ toHub' = <<>> => Fewer
           /\ UNCHANGED outbox /\ toHub # <<>> /\ toHub' = Tail(toHub) => Fewer
           /\ (\A f : Holds(outbox, f)' => Holds(outbox, f)) /\ UNCHANGED toHub => Fewer
<1>1. UNCHANGED <<outbox, toHub>> => Fewer
  BY DEF Fewer, InTransit
<1>2. UNCHANGED outbox /\ toHub' = <<>> => Fewer
  BY DEF Fewer, InTransit
<1>3. ASSUME UNCHANGED outbox, toHub # <<>>, toHub' = Tail(toHub)
      PROVE  Fewer
  <2>1. toHub \in Seq(Frames)
    BY DEF TypeOK, WireOK
  <2>2. \A i \in DOMAIN Tail(toHub) : i + 1 \in DOMAIN toHub /\ Tail(toHub)[i] = toHub[i + 1]
    BY <1>3, <2>1
  <2> QED  BY <1>3, <2>2 DEF Fewer, InTransit
<1>4. (\A f : Holds(outbox, f)' => Holds(outbox, f)) /\ UNCHANGED toHub => Fewer
  BY DEF Fewer, InTransit
<1> QED  BY <1>1, <1>2, <1>3, <1>4

\* Nothing happens to the agent's queue and worker.
LEMMA AgentUntouched ==
    UNCHANGED <<agentQ, worker>> => KeepsJobs /\ SameWorker
BY DEF KeepsJobs, SameWorker, Current

LEMMA NetworkSafe == TypeOK /\ Safe /\ Network => Safe'
<1> SUFFICES ASSUME TypeOK, Safe, Network PROVE Safe'
  OBVIOUS
<1>1. UNCHANGED <<taskLog, received>> /\ UNCHANGED <<agentQ, worker>> /\ UNCHANGED done
  BY DEF Network, Connect, DialRefused, Break, HubTerminates, HubNoticesClose,
         LateCloseEvent, CloseCompletes, AgentNoticesClose, ctl, node
<1>2. Fewer
  <2>1. CASE AgentNoticesClose
    <3>1. \A f : Holds(Abandon(outbox), f) <=> Holds(outbox, f)
      BY AbandonQueue DEF TypeOK, SenderOK
    <3> QED  BY <2>1, <3>1, WireMoves DEF AgentNoticesClose
  <2>2. CASE ~AgentNoticesClose
    BY <2>2, WireMoves
       DEF Network, Connect, DialRefused, Break, HubTerminates, HubNoticesClose,
           LateCloseEvent, CloseCompletes, node
  <2> QED  BY <2>1, <2>2
<1>3. ~NewlySettled
  BY <1>1 DEF NewlySettled
<1> QED  BY <1>1, <1>2, <1>3, AgentUntouched, CalmStep

\* A row marked "sent" or "queued" is not settled by that.
LEMMA MarkSent ==
    ASSUME TypeOK, NEW t, taskLog' = MarkTaskState(taskLog, t, "sent")
    PROVE  ~NewlySettled
BY DEF MarkTaskState, NewlySettled, Outcomes, TypeOK, CtlOK

LEMMA ControllerSafe == TypeOK /\ Safe /\ Controller => Safe'
<1> SUFFICES ASSUME TypeOK, Safe, Controller PROVE Safe'
  OBVIOUS
<1>0. UNCHANGED <<agentQ, worker>> /\ UNCHANGED done /\ UNCHANGED outbox
  BY DEF Controller, EnqueueTask, EnqueueCrash, HubCrash, DrainNode, DrainNodeThrows,
         DrainNodeCrash, HandleReceipt, HandleResult, RateLimited, node
<1>a. toHub \in Seq(Frames) /\ (toHub # <<>> => Head(toHub) \in Frames)
  BY DEF TypeOK, WireOK
<1>b. \A f : toHub # <<>> /\ Head(toHub) = f => InTransit(f)
  BY <1>a DEF InTransit
<1>1. CASE EnqueueTask
  <2>1. Fewer  BY <1>0, <1>1, WireMoves DEF EnqueueTask
  <2>2. ~NewlySettled
    BY <1>1 DEF EnqueueTask, NewlySettled, Outcomes, TypeOK, CtlOK
  <2> QED  BY <1>0, <1>1, <2>1, <2>2, AgentUntouched, CalmStep DEF EnqueueTask
<1>2. CASE EnqueueCrash \/ HubCrash
  <2>1. Fewer
    BY <1>0, <1>2, WireMoves DEF EnqueueCrash, HubCrash, HubForgets
  <2>2. UNCHANGED <<taskLog, received>>
    BY <1>2 DEF EnqueueCrash, HubCrash, ctl
  <2> QED  BY <1>0, <2>1, <2>2, AgentUntouched, CalmStep DEF NewlySettled
<1>3. CASE DrainNode
  <2>1. Fewer  BY <1>0, <1>3, WireMoves DEF DrainNode
  <2>2. ~NewlySettled  BY <1>3, MarkSent DEF DrainNode
  <2> QED  BY <1>0, <1>3, <2>1, <2>2, AgentUntouched, CalmStep DEF DrainNode
<1>4. CASE DrainNodeThrows \/ DrainNodeCrash
  <2>1. Fewer
    BY <1>0, <1>4, WireMoves DEF DrainNodeThrows, DrainNodeCrash, HubForgets
  <2>2. UNCHANGED <<taskLog, received>>
    BY <1>4 DEF DrainNodeThrows, DrainNodeCrash
  <2> QED  BY <1>0, <2>1, <2>2, AgentUntouched, CalmStep DEF NewlySettled
<1>5. CASE RateLimited
  <2>1. Fewer  BY <1>0, <1>5, WireMoves DEF RateLimited
  <2>2. UNCHANGED <<taskLog, received>>
    BY <1>5 DEF RateLimited, ctl
  <2> QED  BY <1>0, <2>1, <2>2, AgentUntouched, CalmStep DEF NewlySettled
<1>6. CASE HandleReceipt
  <2> DEFINE t == Head(toHub).task
  <2>1. Fewer  BY <1>0, <1>6, WireMoves DEF HandleReceipt
  <2>2. Head(toHub) = Receipt(t) /\ t \in Tasks
    BY <1>6, <1>a DEF HandleReceipt, Frames, Receipt
  <2>3. InTransit(Receipt(t))
    BY <1>6, <1>b, <2>2 DEF HandleReceipt
  <2>4. received' \subseteq received \cup {t} /\ UNCHANGED taskLog
    BY <1>6 DEF HandleReceipt
  <2> HIDE DEF t
  <2>5. ReceiptSound'
    BY <1>0, <2>1, <2>2, <2>3, <2>4, FrameTypes DEF Safe, ReceiptSound, Fewer, done
  <2>6. ResultAgreement'
    BY <1>0, <2>1, <2>4, FrameTypes DEF Safe, ResultAgreement, Fewer, done
  <2> QED  BY <1>0, <2>5, <2>6
           DEF Safe, ExecutionAccounting, WorkerPhases, AgedRowsExist, done,
               Unrecorded, Current
<1>7. CASE HandleResult
  <2> DEFINE t == Head(toHub).task
             r == Head(toHub).out
  <2>1. Fewer  BY <1>0, <1>7, WireMoves DEF HandleResult
  <2>2. Head(toHub) = Result(t, r) /\ t \in Tasks /\ r \in Outcomes
    BY <1>7, <1>a DEF HandleResult, Frames, Result
  <2>3. InTransit(Result(t, r))
    BY <1>7, <1>b, <2>2 DEF HandleResult
  <2>4. taskLog' = MarkTaskState(taskLog, t, r) /\ UNCHANGED received
    BY <1>7 DEF HandleResult
  <2> HIDE DEF t, r
  <2>5. \A u \in Tasks : taskLog'[u] = taskLog[u] \/ (u = t /\ taskLog'[u] = r)
    BY <2>2, <2>4 DEF MarkTaskState, TypeOK, CtlOK
  <2>6. ResultAgreement'
    BY <1>0, <2>1, <2>2, <2>3, <2>5, FrameTypes DEF Safe, ResultAgreement, Fewer, done
  <2>7. ReceiptSound'
    BY <1>0, <2>1, <2>4, FrameTypes DEF Safe, ReceiptSound, Fewer, done
  <2> QED  BY <1>0, <2>6, <2>7
           DEF Safe, ExecutionAccounting, WorkerPhases, AgedRowsExist, done,
               Unrecorded, Current
<1> QED  BY <1>1, <1>2, <1>3, <1>4, <1>5, <1>6, <1>7 DEF Controller

LEMMA SenderSafe == TypeOK /\ Safe /\ Sender => Safe'
<1> SUFFICES ASSUME TypeOK, Safe, Sender PROVE Safe'
  OBVIOUS
<1>0. UNCHANGED <<agentQ, worker>> /\ UNCHANGED done /\ UNCHANGED <<taskLog, received>>
  BY DEF Sender, SenderClaims, SenderSends, SenderAcks, SenderFails, ctl
<1>a. /\ outbox \in Queue(Frames)
      /\ sender.pc # "idle" => sender.at \in DOMAIN outbox
  BY DEF TypeOK, SenderOK
<1>1. Fewer
  <2>1. CASE SenderClaims
    <3>1. \A f : Holds(outbox, f)' => Holds(outbox, f)
      BY <1>a, <2>1, ClaimQueue DEF SenderClaims
    <3> QED  BY <2>1, <3>1, WireMoves DEF SenderClaims
  <2>2. CASE SenderSends
    <3> DEFINE g == outbox[sender.at].item
    <3>1. Holds(outbox, g) /\ g \in Frames
      BY <1>a, <2>2, AckQueue DEF SenderSends, Holds
    <3>2. toHub' = toHub \/ toHub' = Append(toHub, g)
      BY <2>2 DEF SenderSends
    <3> HIDE DEF g
    <3>3. \A i \in DOMAIN toHub' : toHub'[i] = g \/ (i \in DOMAIN toHub /\ toHub'[i] = toHub[i])
      BY <3>1, <3>2 DEF TypeOK, WireOK
    <3> QED  BY <2>2, <3>1, <3>3 DEF SenderSends, Fewer, InTransit
  <2>3. CASE SenderAcks
    <3>1. \A f : Holds(outbox, f)' => Holds(outbox, f)
      BY <1>a, <2>3, AckQueue DEF SenderAcks
    <3> QED  BY <2>3, <3>1, WireMoves DEF SenderAcks
  <2>4. CASE SenderFails
    <3>1. \A f : Holds(outbox, f)' => Holds(outbox, f)
      BY <1>a, <2>4, ClaimQueue DEF SenderFails
    <3> QED  BY <2>4, <3>1, WireMoves DEF SenderFails
  <2> QED  BY <2>1, <2>2, <2>3, <2>4 DEF Sender
<1> QED  BY <1>0, <1>1, AgentUntouched, CalmStep DEF NewlySettled

LEMMA TimeSafe == TypeOK /\ Safe /\ Time => Safe'
<1> SUFFICES ASSUME TypeOK, Safe, Time PROVE Safe'
  OBVIOUS
<1>0. UNCHANGED <<taskLog, received, toHub, worker>>
  BY DEF Time, CtlJobReappears, AgentJobReappears, OutboxJobReappears, ClaimTimesOut,
         JournalAges, ctl, node
<1>a. ASSUME NEW i \in DOMAIN agentQ, agentQ' = Release(agentQ, i)
      PROVE  KeepsJobs /\ SameWorker
  <2>1. /\ \A k \in DOMAIN agentQ : agentQ'[k].item = agentQ[k].item
        /\ \A y : Holds(agentQ, y)' <=> Holds(agentQ, y)
    BY <1>a, ClaimQueue DEF TypeOK, WorkerOK
  <2> QED  BY <1>0, <2>1 DEF KeepsJobs, SameWorker, Current, TypeOK, WorkerOK
<1>b. ASSUME NEW i \in DOMAIN outbox, outbox' = Release(outbox, i)
      PROVE  Fewer
  <2>1. \A f : Holds(outbox, f)' => Holds(outbox, f)
    BY <1>b, ClaimQueue DEF TypeOK, SenderOK
  <2> QED  BY <1>0, <2>1, WireMoves
<1>c. ~NewlySettled
  BY <1>0 DEF NewlySettled
<1>d. UNCHANGED outbox => Fewer
  BY <1>0, WireMoves
<1>e. UNCHANGED agentQ => KeepsJobs /\ SameWorker
  BY <1>0, AgentUntouched
<1>1. CASE CtlJobReappears
  BY <1>0, <1>1, <1>c, <1>d, <1>e, CalmStep DEF CtlJobReappears, node
<1>2. CASE AgentJobReappears
  BY <1>0, <1>2, <1>a, <1>c, <1>d, CalmStep DEF AgentJobReappears
<1>3. CASE OutboxJobReappears
  BY <1>0, <1>3, <1>b, <1>c, <1>e, CalmStep DEF OutboxJobReappears
<1>4. CASE ClaimTimesOut
  BY <1>0, <1>4, <1>a, <1>b, <1>c, <1>d, <1>e, CalmStep DEF ClaimTimesOut
<1>5. CASE JournalAges
  <2>1. UNCHANGED <<journal, pruned, execs, spent, outbox, agentQ>>
    BY <1>5 DEF JournalAges, node
  <2>2. AgedRowsExist'
    BY <1>5 DEF JournalAges, Safe, AgedRowsExist
  <2> QED  BY <1>0, <2>1, <2>2
           DEF Safe, ResultAgreement, ReceiptSound, ExecutionAccounting, WorkerPhases,
               InTransit, Holds, Unrecorded, Current
<1> QED  BY <1>1, <1>2, <1>3, <1>4, <1>5 DEF Time

\* A worker step outside an execution that adds no frame and gives up no job but
\* an answered or undecodable one.
LEMMA BetweenExecutions ==
    ASSUME TypeOK, Safe, Fewer, UNCHANGED <<taskLog, received>>, UNCHANGED done,
           ~Unrecorded, ~Unrecorded', WorkerPhases',
           \A t \in Tasks : Holds(agentQ, t) =>
              Holds(agentQ, t)' \/ journal[t] # "none" \/ t \in Poison
    PROVE  Safe'
<1>1. ResultAgreement'
  BY FrameTypes DEF Safe, ResultAgreement, Fewer, done
<1>2. ReceiptSound'
  BY FrameTypes DEF Safe, ReceiptSound, Fewer, done
<1>3. ExecutionAccounting'
  BY DEF Safe, ExecutionAccounting, done
<1>4. AgedRowsExist'
  BY DEF Safe, AgedRowsExist, done
<1> QED  BY <1>1, <1>2, <1>3, <1>4 DEF Safe

\* An execution that is cut off is accounted for as spent.
LEMMA CutStep ==
    ASSUME TypeOK, Safe, Fewer, KeepsJobs, UNCHANGED <<taskLog, received>>,
           CutOff, worker' = IdleWorker
    PROVE  Safe'
<1>a. UNCHANGED <<journal, oldRows, pruned, execs>>
  BY DEF CutOff
<1>1. ResultAgreement'
  BY <1>a, FrameTypes DEF Safe, ResultAgreement, Fewer
<1>2. ReceiptSound'
  BY <1>a, FrameTypes DEF Safe, ReceiptSound, Fewer, KeepsJobs
<1>3. ~Unrecorded' /\ WorkerPhases'
  BY IdleTypes DEF Unrecorded, WorkerPhases
<1>4. ExecutionAccounting'
  <2>1. CASE Unrecorded
    <3>1. /\ spent' = [spent EXCEPT ![Current] = @ + 1]
          /\ journal[Current] = "none"
      BY <2>1 DEF CutOff, Unrecorded, Safe, WorkerPhases
    <3> QED  BY <1>a, <1>3, <2>1, <3>1 DEF Safe, ExecutionAccounting, TypeOK, DoneOK
  <2>2. CASE ~Unrecorded
    BY <1>a, <1>3, <2>2 DEF Safe, ExecutionAccounting, CutOff
  <2> QED  BY <2>1, <2>2
<1>5. AgedRowsExist'
  BY <1>a DEF Safe, AgedRowsExist
<1> QED  BY <1>1, <1>2, <1>3, <1>4, <1>5 DEF Safe

\* A result enters the outbox only as the journal has it.
LEMMA ReportStep ==
    ASSUME TypeOK, Safe, worker.pc \in {"claimed", "recorded"},
           journal[Current] # "none",
           outbox' = Enqueue(outbox, Result(Current, journal[Current])),
           worker' = [worker EXCEPT !.pc = "acking"],
           UNCHANGED <<taskLog, received, agentQ, toHub>>, UNCHANGED done
    PROVE  Safe'
<1> DEFINE c == Current
           g == Result(c, journal[c])
<1>1. c \in Tasks /\ worker.at \in DOMAIN agentQ
  BY AckQueue DEF Current, TypeOK, WorkerOK
<1>2. journal[c] \in Outcomes
  BY <1>1 DEF TypeOK, DoneOK
<1>3. g \in Frames
  BY <1>1, <1>2, FrameTypes
<1>4. \A f : Holds(outbox, f)' <=> (Holds(outbox, f) \/ f = g)
  BY <1>3, EnqueueQueue DEF TypeOK, SenderOK
<1>5. \A f : InTransit(f)' => InTransit(f) \/ f = g
  BY <1>4 DEF InTransit
<1>6. ResultAgreement'
  <2>1. \A t, out : Result(t, out) = g => t = c /\ out = journal[c]
    BY FramesDiffer
  <2> HIDE DEF g, c
  <2> QED  BY <1>5, <2>1 DEF Safe, ResultAgreement, done
<1>7. ReceiptSound'
  <2>1. \A t : Receipt(t) # g
    BY FramesDiffer
  <2>2. \A t : Holds(agentQ, t)' <=> Holds(agentQ, t)
    BY DEF Holds
  <2> HIDE DEF g, c
  <2> QED  BY <1>5, <2>1, <2>2 DEF Safe, ReceiptSound, done
<1>8. worker'.pc = "acking" /\ worker'.at = worker.at /\ Current' = Current
  BY DEF TypeOK, WorkerOK, Current
<1>9. WorkerPhases'
  BY <1>8 DEF WorkerPhases, done
<1>10. ExecutionAccounting'
  BY <1>8 DEF Safe, ExecutionAccounting, Unrecorded, done
<1>11. AgedRowsExist'
  BY DEF Safe, AgedRowsExist, done
<1> QED  BY <1>6, <1>7, <1>9, <1>10, <1>11 DEF Safe

LEMMA WorkerSafe == TypeOK /\ Safe /\ Worker => Safe'
<1> SUFFICES ASSUME TypeOK, Safe, Worker PROVE Safe'
  OBVIOUS
<1>0. UNCHANGED <<taskLog, received, toHub>>
  BY DEF Worker, WorkerClaims, WorkerDrops, WorkerReplays, WorkerRuns, WorkerRecords,
         WorkerReports, WorkerAcks, WorkerFails, WorkerDies, ctl
<1>a. /\ agentQ \in Queue(Tasks)
      /\ worker.pc \notin {"idle", "dead"} => worker.at \in DOMAIN agentQ /\ Current \in Tasks
  BY AckQueue DEF TypeOK, WorkerOK, Current
<1>b. UNCHANGED outbox => Fewer
  BY <1>0, WireMoves
<1>1. CASE WorkerClaims
  <2>1. KeepsJobs
    BY <1>1, <1>a, ClaimQueue DEF WorkerClaims, KeepsJobs
  <2>2. worker.pc = "idle" /\ worker'.pc = "claimed"
    BY <1>1 DEF WorkerClaims
  <2> QED  BY <1>0, <1>1, <1>b, <2>1, <2>2, BetweenExecutions
           DEF WorkerClaims, KeepsJobs, Unrecorded, WorkerPhases
<1>2. CASE WorkerDrops
  <2>1. \A t \in Tasks : Holds(agentQ, t) => Holds(agentQ, t)' \/ t \in Poison
    BY <1>2, <1>a, AckQueue DEF WorkerDrops, Current
  <2>2. worker.pc = "claimed" /\ worker'.pc = "idle"
    BY <1>2, IdleTypes DEF WorkerDrops
  <2> QED  BY <1>0, <1>2, <1>b, <2>1, <2>2, BetweenExecutions
           DEF WorkerDrops, Unrecorded, WorkerPhases
<1>3. CASE WorkerReplays
  BY <1>0, <1>3, ReportStep DEF WorkerReplays
<1>4. CASE WorkerRuns
  <2>1. /\ worker'.pc = "running" /\ worker'.at = worker.at /\ Current' = Current
        /\ Current \in Tasks /\ journal[Current] = "none"
    BY <1>4, <1>a DEF WorkerRuns, TypeOK, WorkerOK, Current
  <2>2. UNCHANGED <<journal, oldRows, pruned, spent, outbox, agentQ>>
    BY <1>4 DEF WorkerRuns
  <2>3. ResultAgreement' /\ ReceiptSound'
    BY <1>0, <2>2 DEF Safe, ResultAgreement, ReceiptSound, InTransit, Holds
  <2>4. WorkerPhases' /\ AgedRowsExist'
    BY <2>1, <2>2 DEF WorkerPhases, AgedRowsExist, Safe
  <2>5. ~Unrecorded /\ Unrecorded'
    BY <1>4, <2>1 DEF WorkerRuns, Unrecorded
  <2>6. execs' = [execs EXCEPT ![Current] = @ + 1]
    BY <1>4 DEF WorkerRuns
  <2>7. ExecutionAccounting'
    BY <2>1, <2>2, <2>5, <2>6 DEF Safe, ExecutionAccounting, TypeOK, DoneOK
  <2> QED  BY <2>3, <2>4, <2>7 DEF Safe
<1>5. CASE WorkerRecords
  <2> DEFINE old == oldRows \ {Current}
  <2>1. PICK out \in Outcomes :
           /\ worker' = [worker EXCEPT !.pc = "recorded", !.out = out]
           /\ journal' = [t \in Tasks |-> IF t = Current THEN out
                                          ELSE IF t \in old THEN "none"
                                          ELSE journal[t]]
           /\ pruned' = pruned \cup old
           /\ spent' = [t \in Tasks |-> IF t \in old THEN spent[t] + 1 ELSE spent[t]]
           /\ oldRows' = {}
    BY <1>5 DEF WorkerRecords
  <2>2. worker.pc = "running" /\ UNCHANGED <<agentQ, outbox, execs>>
    BY <1>5 DEF WorkerRecords
  <2>3. Current \in Tasks /\ journal[Current] = "none"
    BY <1>a, <2>2 DEF Safe, WorkerPhases
  <2>4. worker'.pc = "recorded" /\ worker'.out = out /\ Current' = Current
    BY <2>1, <2>2 DEF TypeOK, WorkerOK, Current
  <2>5. \A t \in old : journal[t] # "none" /\ t # Current /\ t \in Tasks
    BY DEF Safe, AgedRowsExist, TypeOK, DoneOK
  <2>6. (\A f : InTransit(f)' <=> InTransit(f)) /\ (\A t : Holds(agentQ, t)' <=> Holds(agentQ, t))
    BY <1>0, <2>2 DEF InTransit, Holds
  <2> HIDE DEF old
  <2>7. ResultAgreement'
    <3>1. ASSUME NEW t \in Tasks, t \notin pruned'
          PROVE  /\ \A r \in Outcomes : InTransit(Result(t, r))' => r = journal'[t]
                 /\ taskLog'[t] \in Outcomes => taskLog'[t] = journal'[t]
      <4>1. t \notin pruned /\ t \notin old
        BY <2>1, <3>1
      <4>2. /\ \A r \in Outcomes : InTransit(Result(t, r)) => r = journal[t]
            /\ taskLog[t] \in Outcomes => taskLog[t] = journal[t]
        BY <4>1 DEF Safe, ResultAgreement
      <4>3. CASE t = Current
        BY <1>0, <2>3, <2>6, <4>2, <4>3 DEF Outcomes
      <4>4. CASE t # Current
        BY <1>0, <2>1, <2>6, <4>1, <4>2, <4>4
      <4> QED  BY <4>3, <4>4
    <3> QED  BY <3>1 DEF ResultAgreement
  <2>8. ReceiptSound'
    BY <1>0, <2>1, <2>6 DEF Safe, ReceiptSound, Outcomes
  <2>9. ExecutionAccounting'
    <3>1. ASSUME NEW t \in Tasks
          PROVE  execs'[t] = spent'[t] + IF journal'[t] # "none" \/ (Unrecorded' /\ Current' = t)
                                         THEN 1 ELSE 0
      <4>1. execs[t] = spent[t] + IF journal[t] # "none" \/ (Unrecorded /\ Current = t)
                                  THEN 1 ELSE 0
        BY DEF Safe, ExecutionAccounting
      <4>2. spent[t] \in Nat /\ Unrecorded /\ ~Unrecorded'
        BY <2>2, <2>4 DEF Unrecorded, TypeOK, DoneOK
      <4>3. CASE t = Current
        BY <2>1, <2>2, <2>5, <4>1, <4>2, <4>3 DEF Outcomes
      <4>4. CASE t \in old
        BY <2>1, <2>2, <2>5, <4>1, <4>2, <4>4
      <4>5. CASE t # Current /\ t \notin old
        BY <2>1, <2>2, <4>1, <4>2, <4>5
      <4> QED  BY <4>3, <4>4, <4>5
    <3> QED  BY <3>1 DEF ExecutionAccounting
  <2>10. WorkerPhases' /\ AgedRowsExist'
    BY <2>1, <2>3, <2>4 DEF WorkerPhases, AgedRowsExist
  <2> QED  BY <2>7, <2>8, <2>9, <2>10 DEF Safe
<1>6. CASE WorkerReports
  <2>1. worker.out = journal[Current] /\ journal[Current] # "none"
    BY <1>6 DEF WorkerReports, Safe, WorkerPhases, TypeOK, WorkerOK, Outcomes
  <2> QED  BY <1>0, <1>6, <2>1, ReportStep DEF WorkerReports
<1>7. CASE WorkerAcks
  <2>1. journal[Current] # "none"
    BY <1>7 DEF WorkerAcks, Safe, WorkerPhases
  <2>2. \A t \in Tasks : Holds(agentQ, t) => Holds(agentQ, t)' \/ journal[t] # "none"
    BY <1>7, <1>a, <2>1, AckQueue DEF WorkerAcks, Current
  <2>3. worker.pc = "acking" /\ worker'.pc = "idle"
    BY <1>7, IdleTypes DEF WorkerAcks
  <2> QED  BY <1>0, <1>7, <1>b, <2>2, <2>3, BetweenExecutions
           DEF WorkerAcks, Unrecorded, WorkerPhases
<1>8. CASE WorkerFails
  <2>1. KeepsJobs
    BY <1>8, <1>a, ClaimQueue DEF WorkerFails, KeepsJobs
  <2> QED  BY <1>0, <1>8, <1>b, <2>1, CutStep DEF WorkerFails
<1>9. CASE WorkerDies
  <2>1. worker.pc = "idle" /\ worker'.pc = "dead"
    BY <1>9 DEF WorkerDies, TypeOK, WorkerOK
  <2>2. \A t \in Tasks : Holds(agentQ, t) => Holds(agentQ, t)'
    BY <1>9 DEF WorkerDies, Holds
  <2> QED  BY <1>0, <1>9, <1>b, <2>1, <2>2, BetweenExecutions
           DEF WorkerDies, Unrecorded, WorkerPhases
<1> QED  BY <1>1, <1>2, <1>3, <1>4, <1>5, <1>6, <1>7, <1>8, <1>9 DEF Worker

LEMMA AgentSafe ==
    TypeOK /\ Safe /\ (AgentCrash \/ ReceiveTask \/ ReceiveTaskCrash) => Safe'
<1> SUFFICES ASSUME TypeOK, Safe, AgentCrash \/ ReceiveTask \/ ReceiveTaskCrash
             PROVE  Safe'
  OBVIOUS
<1>0. UNCHANGED <<taskLog, received, toHub>>
  BY DEF AgentCrash, ReceiveTask, ReceiveTaskCrash, AgentForgets, ctl
<1>a. agentQ \in Queue(Tasks) /\ outbox \in Queue(Frames)
  BY DEF TypeOK, WorkerOK, SenderOK
<1>b. toAgent # <<>> => Head(toAgent) \in Tasks
  BY DEF TypeOK, WireOK
<1>c. outbox' = Abandon(outbox) => Fewer
  <2>1. \A f : Holds(Abandon(outbox), f) <=> Holds(outbox, f)
    BY <1>a, AbandonQueue
  <2> QED  BY <1>0, <2>1, WireMoves
<1>1. CASE AgentCrash
  <2>1. KeepsJobs
    BY <1>1, <1>a, AbandonQueue DEF AgentCrash, AgentForgets, KeepsJobs
  <2> QED  BY <1>0, <1>1, <1>c, <2>1, CutStep DEF AgentCrash, AgentForgets
<1>2. CASE ReceiveTaskCrash
  <2> DEFINE q == Enqueue(agentQ, Head(toAgent))
  <2>1. q \in Queue(Tasks) /\ \A t : Holds(agentQ, t) => Holds(q, t)
    BY <1>2, <1>a, <1>b, EnqueueQueue DEF ReceiveTaskCrash
  <2>2. agentQ' = Abandon(q)
    BY <1>2 DEF ReceiveTaskCrash, AgentForgets
  <2> HIDE DEF q
  <2>3. KeepsJobs
    BY <2>1, <2>2, AbandonQueue DEF KeepsJobs
  <2> QED  BY <1>0, <1>2, <1>c, <2>3, CutStep DEF ReceiveTaskCrash, AgentForgets
<1>3. CASE ReceiveTask
  <2> DEFINE h == Head(toAgent)
  <2>1. h \in Tasks /\ Receipt(h) \in Frames
    BY <1>3, <1>b, FrameTypes DEF ReceiveTask
  <2>2. /\ agentQ' = Enqueue(agentQ, h) /\ outbox' = Enqueue(outbox, Receipt(h))
        /\ UNCHANGED worker /\ UNCHANGED done
    BY <1>3 DEF ReceiveTask
  <2> HIDE DEF h
  <2>3. /\ \A t : Holds(agentQ, t)' <=> (Holds(agentQ, t) \/ t = h)
        /\ \A k \in DOMAIN agentQ : agentQ'[k] = agentQ[k]
    BY <1>a, <2>1, <2>2, EnqueueQueue
  <2>4. \A f : Holds(outbox, f)' <=> (Holds(outbox, f) \/ f = Receipt(h))
    BY <1>a, <2>1, <2>2, EnqueueQueue
  <2>5. \A f : InTransit(f)' => InTransit(f) \/ f = Receipt(h)
    BY <1>0, <2>4 DEF InTransit
  <2>6. ResultAgreement'
    <3>1. \A t, out : Result(t, out) # Receipt(h)
      BY FramesDiffer
    <3> QED  BY <1>0, <2>2, <2>5, <3>1 DEF Safe, ResultAgreement, done
  <2>7. ReceiptSound'
    <3>1. \A t : Receipt(t) = Receipt(h) => t = h
      BY FramesDiffer
    <3> QED  BY <1>0, <2>2, <2>3, <2>5, <3>1 DEF Safe, ReceiptSound, done
  <2>8. SameWorker
    BY <2>2, <2>3 DEF SameWorker, Current, TypeOK, WorkerOK
  <2>9. WorkerPhases' /\ AgedRowsExist'
    BY <2>2, <2>8 DEF Safe, WorkerPhases, AgedRowsExist, SameWorker, done
  <2>10. (Unrecorded' <=> Unrecorded) /\ (Unrecorded => Current' = Current)
    BY <2>8 DEF Unrecorded, SameWorker
  <2>11. ExecutionAccounting'
    BY <2>2, <2>10 DEF Safe, ExecutionAccounting, done
  <2> QED  BY <2>6, <2>7, <2>9, <2>11 DEF Safe
<1> QED  BY <1>1, <1>2, <1>3

LEMMA InitSafe == Init => Safe
<1> SUFFICES ASSUME Init PROVE Safe
  OBVIOUS
<1>1. \A f : ~InTransit(f)
  BY DEF Init, InTransit, Holds
<1>2. worker.pc = "idle"
  BY IdleTypes DEF Init
<1>3. ResultAgreement
  BY <1>1 DEF Init, ResultAgreement, Outcomes
<1>4. ReceiptSound
  BY <1>1 DEF Init, ReceiptSound
<1>5. ExecutionAccounting
  BY <1>2 DEF Init, ExecutionAccounting, Unrecorded
<1> QED  BY <1>2, <1>3, <1>4, <1>5 DEF Init, Safe, WorkerPhases, AgedRowsExist

LEMMA NextSafe == TypeOK /\ Safe /\ [Next]_vars => Safe'
<1>1. TypeOK /\ Safe /\ UNCHANGED vars => Safe'
  <2> SUFFICES ASSUME TypeOK, Safe, UNCHANGED vars PROVE Safe'
    OBVIOUS
  <2>1. Fewer /\ ~NewlySettled /\ KeepsJobs /\ SameWorker
    BY WireMoves, AgentUntouched DEF vars, ctl, node, NewlySettled
  <2> QED  BY <2>1, CalmStep DEF vars, ctl
<1> QED  BY <1>1, NetworkSafe, ControllerSafe, WorkerSafe, SenderSafe, TimeSafe,
            AgentSafe DEF Next

\* A task not issued yet has no row, and only HandleResult settles one: the two
\* facts about the task log that SettledForever rests on.
LEMMA LogStep ==
    ASSUME TypeOK, UnissuedHaveNoRow, [Next]_vars
    PROVE  /\ UnissuedHaveNoRow'
           /\ \A t \in Tasks : taskLog[t] \in Outcomes => taskLog'[t] = taskLog[t]
<1>a. taskLog \in [Tasks -> {"none", "queued", "sent"} \cup Outcomes] /\ issued \in Nat
  BY BoundsAssumption DEF TypeOK, CtlOK
<1>b. ASSUME NEW t, NEW s, taskLog' = MarkTaskState(taskLog, t, s)
      PROVE  \A u \in Tasks : taskLog[u] \notin {"queued", "sent"} => taskLog'[u] = taskLog[u]
  BY <1>a, <1>b DEF MarkTaskState
<1>1. CASE UNCHANGED <<issued, taskLog>>
  BY <1>1 DEF UnissuedHaveNoRow
<1>2. CASE EnqueueTask
  BY <1>2, <1>a DEF EnqueueTask, UnissuedHaveNoRow, Outcomes, Tasks
<1>3. CASE EnqueueCrash
  BY <1>3, <1>a DEF EnqueueCrash, UnissuedHaveNoRow, Tasks
<1>4. CASE DrainNode \/ HandleResult
  <2>1. UNCHANGED issued /\ \E t, s : taskLog' = MarkTaskState(taskLog, t, s)
    BY <1>4 DEF DrainNode, HandleResult
  <2> QED  BY <1>b, <2>1 DEF UnissuedHaveNoRow, Outcomes
<1>5. CASE Network
  <2>1. UNCHANGED ctl
    BY <1>5 DEF Network, Connect, DialRefused, Break, HubTerminates, HubNoticesClose,
                LateCloseEvent, CloseCompletes, AgentNoticesClose
  <2> QED  BY <1>1, <2>1 DEF ctl
<1>6. CASE HubCrash \/ DrainNodeThrows \/ DrainNodeCrash \/ HandleReceipt \/ RateLimited
  BY <1>1, <1>6 DEF HubCrash, DrainNodeThrows, DrainNodeCrash, HandleReceipt,
                    RateLimited, ctl
<1>7. CASE Worker \/ Sender
  <2>1. UNCHANGED ctl
    BY <1>7 DEF Worker, WorkerClaims, WorkerDrops, WorkerReplays, WorkerRuns,
                WorkerRecords, WorkerReports, WorkerAcks, WorkerFails, WorkerDies,
                Sender, SenderClaims, SenderSends, SenderAcks, SenderFails
  <2> QED  BY <1>1, <2>1 DEF ctl
<1>8. CASE Time
  BY <1>1, <1>8 DEF Time, CtlJobReappears, AgentJobReappears, OutboxJobReappears,
                    ClaimTimesOut, JournalAges, ctl
<1>9. CASE AgentCrash \/ ReceiveTask \/ ReceiveTaskCrash
  BY <1>1, <1>9 DEF AgentCrash, ReceiveTask, ReceiveTaskCrash, ctl
<1>10. CASE UNCHANGED vars
  BY <1>1, <1>10 DEF vars, ctl
<1> QED  BY <1>2, <1>3, <1>4, <1>5, <1>6, <1>7, <1>8, <1>9, <1>10 DEF Next, Controller

\* The inductive invariant holds throughout.
THEOREM InvHolds == Spec => []Inv
<1>1. Init => Inv
  BY InitType, InitSafe DEF Inv, Safe, UnissuedHaveNoRow, Init
<1>2. Inv /\ [Next]_vars => Inv'
  BY NextType, NextSafe, LogStep DEF Inv, Safe
<1> QED  BY <1>1, <1>2, PTL DEF Spec

\* One answer per task: redelivery, replay and lost acks never make the frames
\* in transit or the settled row disagree with what the agent recorded.
THEOREM ResultsAgree == Spec => []ResultAgreement
<1>1. Inv => ResultAgreement
  BY DEF Inv
<1> QED  BY <1>1, InvHolds, PTL

\* A receipt the hub has or will get is for a task the agent still holds, has
\* answered or could not decode.
THEOREM ReceiptsAreSound == Spec => []ReceiptSound
<1>1. Inv => ReceiptSound
  BY DEF Inv
<1> QED  BY <1>1, InvHolds, PTL

\* Every execution of a task but one was cut off or had its record pruned.
THEOREM ExecutionsAreAccountedFor == Spec => []ExecutionAccounting
<1>1. Inv => ExecutionAccounting
  BY DEF Inv
<1> QED  BY <1>1, InvHolds, PTL

\* No step changes a settled row.
THEOREM SettledRowsStay == Spec => SettledForever
<1>1. Inv /\ [Next]_vars =>
        [\A t \in Tasks : taskLog[t] \in Outcomes => taskLog'[t] = taskLog[t]]_vars
  BY LogStep DEF Inv
<1> QED  BY <1>1, InvHolds, PTL DEF Spec, SettledForever
-----------------------------------------------------------------------------
(* TaskDelivery implements TaskContract.                                   *)

\* What the contract sees changes only with these four variables.
LEMMA ContractStutter ==
    ASSUME UNCHANGED <<taskLog, journal, execs, pruned>>
    PROVE  UNCHANGED C!cvars
<1>1. Status' = Status
  BY DEF Status
<1> QED  BY <1>1 DEF C!cvars

\* An update of one row is an update of what the contract shows of it.
LEMMA StatusOfRow ==
    ASSUME NEW t \in Tasks, NEW s \in {"queued", "sent"} \cup Outcomes,
           taskLog \in [Tasks -> {"none", "queued", "sent"} \cup Outcomes],
           taskLog' = [taskLog EXCEPT ![t] = s]
    PROVE  Status' = [Status EXCEPT ![t] = IF s \in Outcomes THEN s ELSE "open"]
  BY DEF Status, Outcomes

\* EnqueueTask submits.
LEMMA EnqueueSubmits == Inv /\ EnqueueTask => C!Next
<1> SUFFICES ASSUME Inv, EnqueueTask  PROVE C!Next
  OBVIOUS
<1> DEFINE t == issued + 1
<1>1. /\ taskLog \in [Tasks -> {"none", "queued", "sent"} \cup Outcomes]
      /\ issued \in Nat
  BY BoundsAssumption DEF Inv, TypeOK, CtlOK
<1>2. t \in Tasks /\ taskLog' = [taskLog EXCEPT ![t] = "queued"]
  BY DEF EnqueueTask
<1>3. taskLog[t] = "none"
  BY <1>1, <1>2 DEF Inv, UnissuedHaveNoRow
<1>4. Status' = [Status EXCEPT ![t] = "open"]
  BY <1>1, <1>2 DEF Status, Outcomes
<1>5. Status[t] = "none"
  BY <1>2, <1>3 DEF Status
<1>6. C!Submit(t)
  BY <1>4, <1>5 DEF C!Submit, EnqueueTask, done
<1> QED  BY <1>2, <1>6 DEF C!Next

\* A drain only moves a row from queued to sent, which the contract does not see.
LEMMA DrainStutters == Inv /\ DrainNode => UNCHANGED C!cvars
<1> SUFFICES ASSUME Inv, DrainNode  PROVE UNCHANGED C!cvars
  OBVIOUS
<1>1. taskLog \in [Tasks -> {"none", "queued", "sent"} \cup Outcomes]
  BY DEF Inv, TypeOK, CtlOK
<1>2. PICK t : taskLog' = MarkTaskState(taskLog, t, "sent")
  BY DEF DrainNode
<1>3. Status' = Status
  BY <1>1, <1>2 DEF Status, MarkTaskState, Outcomes
<1> QED  BY <1>3 DEF C!cvars, DrainNode, done

\* A result settles an open row with the node's answer, and no other row.
LEMMA ResultSettles == Inv /\ HandleResult => C!Next \/ UNCHANGED C!cvars
<1> SUFFICES ASSUME Inv, HandleResult  PROVE C!Next \/ UNCHANGED C!cvars
  OBVIOUS
<1> DEFINE f == Head(toHub)
<1>1. /\ taskLog \in [Tasks -> {"none", "queued", "sent"} \cup Outcomes]
      /\ toHub \in Seq(Frames)
  BY DEF Inv, TypeOK, CtlOK, WireOK
<1>2. toHub # <<>> /\ f.kind = "result" /\ taskLog' = MarkTaskState(taskLog, f.task, f.out)
  BY DEF HandleResult
<1>3. 1 \in DOMAIN toHub /\ toHub[1] = f /\ f \in Frames
  BY <1>1, <1>2
<1>4. f.task \in Tasks /\ f.out \in Outcomes /\ f = Result(f.task, f.out)
  BY <1>2, <1>3 DEF Frames, Result
<1>5. UNCHANGED <<journal, execs, pruned>>
  BY DEF HandleResult, done
<1>6. CASE taskLog[f.task] \in {"queued", "sent"}
  <2>1. taskLog' = [taskLog EXCEPT ![f.task] = f.out]
    BY <1>2, <1>6 DEF MarkTaskState
  <2>2. Status' = [Status EXCEPT ![f.task] = f.out]
    BY <1>1, <1>4, <2>1, StatusOfRow
  <2>3. Status[f.task] = "open"
    BY <1>4, <1>6 DEF Status
  <2>4. journal[f.task] = f.out \/ f.task \in pruned
    BY <1>3, <1>4 DEF Inv, ResultAgreement, InTransit
  <2>5. C!Settle(f.task, f.out)
    BY <1>5, <2>2, <2>3, <2>4 DEF C!Settle
  <2> QED  BY <1>4, <2>5 DEF C!Next
<1>7. CASE taskLog[f.task] \notin {"queued", "sent"}
  BY <1>2, <1>5, <1>7, ContractStutter DEF MarkTaskState
<1> QED  BY <1>6, <1>7

\* The worker starts a handler only for a task without an answer ...
LEMMA RunRuns == Inv /\ WorkerRuns => C!Next
<1> SUFFICES ASSUME Inv, WorkerRuns  PROVE C!Next
  OBVIOUS
<1>1. agentQ \in Queue(Tasks) /\ worker.at \in DOMAIN agentQ
  BY DEF Inv, TypeOK, WorkerOK, WorkerRuns
<1>2. Current \in Tasks
  BY <1>1, QueueSeq DEF Current
<1>3. UNCHANGED taskLog
  BY DEF WorkerRuns, ctl
<1>4. Status' = Status
  BY <1>3 DEF Status
<1>5. C!Run(Current)
  BY <1>4 DEF C!Run, WorkerRuns
<1> QED  BY <1>2, <1>5 DEF C!Next

\* ... and records an answer only for a task that ran and has none.
LEMMA RecordAnswers == Inv /\ WorkerRecords => C!Next
<1> SUFFICES ASSUME Inv, WorkerRecords  PROVE C!Next
  OBVIOUS
<1> DEFINE old == oldRows \ {Current}
<1>1. agentQ \in Queue(Tasks) /\ worker.at \in DOMAIN agentQ
  BY DEF Inv, TypeOK, WorkerOK, WorkerRecords
<1>2. Current \in Tasks
  BY <1>1, QueueSeq DEF Current
<1>3. Status' = Status /\ UNCHANGED execs
  BY DEF Status, WorkerRecords, ctl
<1>4. journal[Current] = "none" /\ Unrecorded
  BY DEF Inv, WorkerPhases, WorkerRecords, Unrecorded
<1>5. execs[Current] = spent[Current] + 1 /\ spent[Current] \in Nat
  BY <1>2, <1>4 DEF Inv, ExecutionAccounting, TypeOK, DoneOK
<1>6. execs[Current] > 0
  BY <1>5
<1>7. old \in SUBSET Tasks
  BY DEF Inv, TypeOK, DoneOK
<1>8. PICK out \in Outcomes :
        /\ journal' = [u \in Tasks |-> IF u = Current THEN out
                                       ELSE IF u \in old THEN "none" ELSE journal[u]]
        /\ pruned' = pruned \cup old
  BY DEF WorkerRecords
<1>9. C!Answer(Current, out, old)
  BY <1>3, <1>4, <1>6, <1>8 DEF C!Answer
<1> QED  BY <1>2, <1>7, <1>8, <1>9 DEF C!Next

\* Every step is a step of the contract or none.
LEMMA ContractStep == Inv /\ [Next]_vars => [C!Next]_(C!cvars)
<1> SUFFICES ASSUME Inv, [Next]_vars  PROVE C!Next \/ UNCHANGED C!cvars
  OBVIOUS
<1>1. CASE UNCHANGED <<taskLog, journal, execs, pruned>>
  BY <1>1, ContractStutter
<1>2. CASE EnqueueTask
  BY <1>2, EnqueueSubmits
<1>3. CASE DrainNode
  BY <1>3, DrainStutters
<1>4. CASE HandleResult
  BY <1>4, ResultSettles
<1>5. CASE WorkerRuns
  BY <1>5, RunRuns
<1>6. CASE WorkerRecords
  BY <1>6, RecordAnswers
<1>7. CASE Network
  BY <1>1, <1>7 DEF Network, Connect, DialRefused, Break, HubTerminates,
     HubNoticesClose, LateCloseEvent, CloseCompletes, AgentNoticesClose, ctl, done
<1>8. CASE EnqueueCrash \/ HubCrash \/ DrainNodeThrows \/ DrainNodeCrash
           \/ HandleReceipt \/ RateLimited
  BY <1>1, <1>8 DEF EnqueueCrash, HubCrash, DrainNodeThrows, DrainNodeCrash,
     HandleReceipt, RateLimited, ctl, done
<1>9. CASE WorkerClaims \/ WorkerDrops \/ WorkerReplays \/ WorkerReports
           \/ WorkerAcks \/ WorkerFails \/ WorkerDies
  BY <1>1, <1>9 DEF WorkerClaims, WorkerDrops, WorkerReplays, WorkerReports,
     WorkerAcks, WorkerFails, WorkerDies, CutOff, ctl, done
<1>10. CASE Sender
  BY <1>1, <1>10 DEF Sender, SenderClaims, SenderSends, SenderAcks, SenderFails, ctl, done
<1>11. CASE Time
  BY <1>1, <1>11 DEF Time, CtlJobReappears, AgentJobReappears, OutboxJobReappears,
     ClaimTimesOut, JournalAges, ctl, done
<1>12. CASE AgentCrash \/ ReceiveTask \/ ReceiveTaskCrash
  BY <1>1, <1>12 DEF AgentCrash, ReceiveTask, ReceiveTaskCrash, CutOff, ctl, done
<1>13. CASE UNCHANGED vars
  BY <1>1, <1>13 DEF vars, ctl, done
<1> QED
  BY <1>2, <1>3, <1>4, <1>5, <1>6, <1>7, <1>8, <1>9, <1>10, <1>11, <1>12, <1>13
     DEF Next, Controller, Worker

\* The queues, the journal and the protocol between controller and agent keep the
\* contract, for any number of tasks and faults: seen from both ends, a task is
\* submitted, runs while it has no answer, and is settled once, with its answer.
THEOREM ImplementsContract == Spec => Contract
<1>1. Init => C!Init
  BY DEF Init, C!Init, Status
<1>2. Inv /\ [Next]_vars => [C!Next]_(C!cvars)
  BY ContractStep
<1> QED  BY <1>1, <1>2, InvHolds, PTL DEF Spec, Contract, C!Spec
=============================================================================
