--------------------------- MODULE ColdStorageProofs ---------------------------
(***************************************************************************)
(* Proofs about the cold-storage part of MCFleet, for every set of nodes   *)
(* and every number of operations: owners and clients, and what a removal  *)
(* of a student with all data leaves behind on the nodes.                  *)
(***************************************************************************)
EXTENDS MCFleet, SequenceTheorems, TLAPS

-----------------------------------------------------------------------------
(***************************************************************************)
(* Sequences.                                                              *)
(***************************************************************************)

\* A sequence with one more element at its end.
LEMMA Appended ==
    ASSUME NEW V, NEW q \in Seq(V), NEW t \in V
    PROVE  /\ DOMAIN q = 1..Len(q) /\ Len(q) \in Nat
           /\ Append(q, t) \in Seq(V)
           /\ DOMAIN Append(q, t) = 1..(Len(q) + 1)
           /\ Append(q, t)[Len(q) + 1] = t
           /\ \A i \in 1..Len(q) : Append(q, t)[i] = q[i]
  BY AppendProperties, LenProperties

\* A sequence without its first element.
LEMMA Rest ==
    ASSUME NEW V, NEW q \in Seq(V), q # <<>>
    PROVE  /\ DOMAIN q = 1..Len(q) /\ Len(q) \in Nat \ {0}
           /\ Head(q) = q[1] /\ q[1] \in V
           /\ Tail(q) \in Seq(V)
           /\ DOMAIN Tail(q) = 1..(Len(q) - 1)
           /\ \A i \in 1..(Len(q) - 1) : Tail(q)[i] = q[i + 1]
<1>1. DOMAIN q = 1..Len(q) /\ Len(q) \in Nat \ {0}
  BY EmptySeq, LenProperties
<1>2. Tail(q) \in Seq(V) /\ Len(Tail(q)) = Len(q) - 1 /\ \A i \in 1..Len(Tail(q)) : Tail(q)[i] = q[i + 1]
  BY HeadTailProperties
<1>3. DOMAIN Tail(q) = 1..(Len(q) - 1)
  BY <1>2, LenProperties
<1>4. Head(q) = q[1] /\ q[1] \in V
  BY <1>1
<1> QED  BY <1>1, <1>2, <1>3, <1>4

\* The same with the notation for concatenation.
LEMMA OneMore ==
    ASSUME NEW V, NEW q \in Seq(V), NEW t \in V
    PROVE  q \o <<t>> = Append(q, t) /\ q \o <<>> = q
  BY AppendIsConcat, ConcatEmptySeq

\* The elements of a sequence.
Held(q) == {q[i] : i \in DOMAIN q}

\* What a queue holds when a task is put into it or taken from it.
LEMMA HeldAppended ==
    ASSUME NEW V, NEW q \in Seq(V), NEW t \in V
    PROVE  Append(q, t) \in Seq(V) /\ Held(Append(q, t)) = Held(q) \cup {t}
<1>1. /\ DOMAIN q = 1..Len(q) /\ Len(q) \in Nat
      /\ Append(q, t) \in Seq(V)
      /\ DOMAIN Append(q, t) = 1..(Len(q) + 1)
      /\ Append(q, t)[Len(q) + 1] = t
      /\ \A i \in 1..Len(q) : Append(q, t)[i] = q[i]
  BY Appended
<1>2. \A i \in 1..(Len(q) + 1) : i \in 1..Len(q) \/ i = Len(q) + 1
  BY <1>1
<1>3. 1..Len(q) \subseteq 1..(Len(q) + 1) /\ Len(q) + 1 \in 1..(Len(q) + 1)
  BY <1>1
<1>4. Held(Append(q, t)) \subseteq Held(q) \cup {t}
  BY <1>1, <1>2 DEF Held
<1>5. Held(q) \cup {t} \subseteq Held(Append(q, t))
  BY <1>1, <1>3 DEF Held
<1> QED  BY <1>1, <1>4, <1>5

\* A task that is taken was held, and so are those that stay.
LEMMA HeldTail ==
    ASSUME NEW V, NEW q \in Seq(V), q # <<>>
    PROVE  /\ Tail(q) \in Seq(V) /\ Held(Tail(q)) \subseteq Held(q)
           /\ Head(q) \in Held(q) /\ Head(q) \in V
<1>1. /\ DOMAIN q = 1..Len(q) /\ Len(q) \in Nat \ {0}
      /\ Head(q) = q[1] /\ q[1] \in V
      /\ Tail(q) \in Seq(V)
      /\ DOMAIN Tail(q) = 1..(Len(q) - 1)
      /\ \A i \in 1..(Len(q) - 1) : Tail(q)[i] = q[i + 1]
  BY Rest
<1>2. \A i \in 1..(Len(q) - 1) : i + 1 \in 1..Len(q)
  BY <1>1
<1>3. 1 \in 1..Len(q)
  BY <1>1
<1> QED  BY <1>1, <1>2, <1>3 DEF Held

\* The elements are in the set the sequence is over.
LEMMA HeldIn ==
    ASSUME NEW V, NEW q \in Seq(V)
    PROVE  Held(q) \subseteq V
  BY ElementOfSeq, LenProperties DEF Held

-----------------------------------------------------------------------------
(***************************************************************************)
(* Cold storage.  What a removal with data owes is followed through the    *)
(* queues: every task that would make the student's directory again comes  *)
(* before that node's task of the removal, the cleanup is sent when the    *)
(* last of these has succeeded, and until it ran it is in the queue of the *)
(* node it is to clean.                                                    *)
(***************************************************************************)
ColdTasks == [kind : {"create", "destroy", "add", "remove", "cold"}, r : 0..MaxOps, cleanup : SUBSET Nodes]
LogRows   == [node : Nodes, kind : {"remove", "cold"}, r : 1..MaxOps, state : {"queued", "ok", "failed"}]
NodeRows  == [row : BOOLEAN, online : BOOLEAN, backend : {"local_zfs", "smb"},
              owner : Nodes \cup {None}, ready : BOOLEAN]

ColdTyped ==
    /\ node \in [Nodes -> NodeRows]
    /\ coldPlace \in [Nodes -> {"none", "provisioning", "active", "deleting"}]
    /\ enrolled \in BOOLEAN /\ \A n \in members : n \in Nodes /\ coldPlace[n] # "none"
    /\ queue \in [Nodes -> Seq(ColdTasks)]
    /\ log \subseteq LogRows
    /\ up \subseteq Nodes /\ cold \subseteq Nodes
    /\ ops \in 0..MaxOps /\ owed \in [r : 0..MaxOps, nodes : SUBSET Nodes]

\* A node that is not there has no settings, so that one provisioned by its name
\* starts without an owner.
RowsGone == \A n \in Nodes : ~node[n].row => node[n] = C!NoNode

\* No placement that is being torn down has its lab.create still to come.
NotRevived == \A n \in Nodes : coldPlace[n] = "deleting" => \A t \in Held(queue[n]) : t.kind # "create"

\* Removal ids are given out before they are used.
Issued ==
    /\ \A t \in log : t.r <= ops
    /\ \A n \in Nodes : \A t \in Held(queue[n]) : t.r <= ops
    /\ owed.r <= ops

\* Every task of removal r that is in the log has succeeded.
AllOk(r) == \A t \in log : t.kind = "remove" /\ t.r = r => t.state = "ok"

\* The cleanup of a removal is sent, and logged, when all of its tasks succeeded.
SentLast ==
    /\ \A n \in Nodes : \A t \in Held(queue[n]) : t.kind = "cold" => AllOk(t.r)
    /\ \A t \in log : t.kind = "cold" => AllOk(t.r)

Removal(t, r)    == t.kind = "remove" /\ t.r = r
HasRemoval(q, r) == \E i \in DOMAIN q : Removal(q[i], r)
HasCold(q, r)    == \E i \in DOMAIN q : q[i].kind = "cold" /\ q[i].r = r

\* In the queue of a node: one task of the removal, which names the nodes to clean
\* and comes after every task that adds the student.
InQueue(q, r, nodes) ==
    /\ \A i \in DOMAIN q : Removal(q[i], r) => q[i].cleanup = nodes
    /\ \A i, j \in DOMAIN q : Removal(q[i], r) /\ Removal(q[j], r) => i = j
    /\ \A i \in DOMAIN q : q[i].kind = "add" => \E j \in DOMAIN q : j > i /\ Removal(q[j], r)

RemovalRow(n, r, st) == [node |-> n, kind |-> "remove", r |-> r, state |-> st]

Debts ==
    /\ owed.r = 0 => owed.nodes = {}
    /\ owed.r # 0 =>
          /\ ~enrolled
          /\ \A n \in Nodes : RemovalRow(n, owed.r, "failed") \notin log
          /\ \A n \in Nodes : InQueue(queue[n], owed.r, owed.nodes)
          /\ \A n \in Nodes : RemovalRow(n, owed.r, "queued") \in log <=> HasRemoval(queue[n], owed.r)
          /\ AllOk(owed.r) => \A m \in owed.nodes \cap cold : HasCold(queue[m], owed.r)

ColdInv ==
    /\ ColdTyped /\ RowsGone /\ NotRevived /\ C!OwnersAreLocal /\ C!OwnerOutlivesClients
    /\ Issued /\ SentLast /\ Debts

\* A task at the end of a queue that neither adds the student nor is the removal's.
LEMMA QueueGrows ==
    ASSUME NEW V, NEW q \in Seq(V), NEW t \in V, NEW r, NEW nodes, ~Removal(t, r)
    PROVE  LET p == Append(q, t) IN
              /\ t.kind # "add" /\ InQueue(q, r, nodes) => InQueue(p, r, nodes)
              /\ HasRemoval(p, r) <=> HasRemoval(q, r)
              /\ HasCold(q, r) => HasCold(p, r)
              /\ t.kind = "cold" /\ t.r = r => HasCold(p, r)
<1> DEFINE p == Append(q, t)
<1>1. /\ DOMAIN q = 1..Len(q) /\ Len(q) \in Nat
      /\ DOMAIN p = 1..(Len(q) + 1)
      /\ p[Len(q) + 1] = t
      /\ \A i \in 1..Len(q) : p[i] = q[i]
  BY Appended
<1> HIDE DEF p
<1>2. /\ \A i \in DOMAIN p : i \in DOMAIN q \/ i = Len(q) + 1
      /\ \A i \in DOMAIN q : i \in DOMAIN p /\ p[i] = q[i]
      /\ Len(q) + 1 \in DOMAIN p
  BY <1>1
<1>3. \A i \in DOMAIN p : Removal(p[i], r) => i \in DOMAIN q /\ p[i] = q[i]
  BY <1>1, <1>2
<1>4. ASSUME t.kind # "add", InQueue(q, r, nodes)
      PROVE  InQueue(p, r, nodes)
  <2>1. \A i \in DOMAIN p : Removal(p[i], r) => p[i].cleanup = nodes
    BY <1>3, <1>4 DEF InQueue
  <2>2. \A i, j \in DOMAIN p : Removal(p[i], r) /\ Removal(p[j], r) => i = j
    BY <1>3, <1>4 DEF InQueue
  <2>3. ASSUME NEW i \in DOMAIN p, p[i].kind = "add"
        PROVE  \E j \in DOMAIN p : j > i /\ Removal(p[j], r)
    <3>1. i \in DOMAIN q /\ q[i].kind = "add"
      BY <1>1, <1>2, <1>4, <2>3
    <3>2. PICK j \in DOMAIN q : j > i /\ Removal(q[j], r)
      BY <1>4, <3>1 DEF InQueue
    <3> QED  BY <1>2, <3>2
  <2> QED  BY <2>1, <2>2, <2>3 DEF InQueue
<1>5. HasRemoval(p, r) <=> HasRemoval(q, r)
  BY <1>2, <1>3 DEF HasRemoval
<1>6. HasCold(q, r) => HasCold(p, r)
  BY <1>2 DEF HasCold
<1>7. t.kind = "cold" /\ t.r = r => HasCold(p, r)
  BY <1>1, <1>2 DEF HasCold
<1> QED  BY <1>4, <1>5, <1>6, <1>7 DEF p

\* The removal's task at the end of a queue that has none yet: whatever is added
\* to the node is added before it.
LEMMA RemovalSent ==
    ASSUME NEW V, NEW q \in Seq(V), NEW t \in V, NEW r, Removal(t, r), ~HasRemoval(q, r)
    PROVE  InQueue(Append(q, t), r, t.cleanup) /\ HasRemoval(Append(q, t), r)
<1> DEFINE p == Append(q, t)
<1>1. /\ DOMAIN q = 1..Len(q) /\ Len(q) \in Nat
      /\ DOMAIN p = 1..(Len(q) + 1)
      /\ p[Len(q) + 1] = t
      /\ \A i \in 1..Len(q) : p[i] = q[i]
  BY Appended
<1> HIDE DEF p
<1>2. /\ \A i \in DOMAIN p : i \in DOMAIN q \/ i = Len(q) + 1
      /\ \A i \in DOMAIN q : p[i] = q[i] /\ Len(q) + 1 > i
      /\ Len(q) + 1 \in DOMAIN p
  BY <1>1
<1>3. \A i \in DOMAIN p : Removal(p[i], r) => i = Len(q) + 1
  BY <1>1, <1>2 DEF HasRemoval
<1>4. ASSUME NEW i \in DOMAIN p, p[i].kind = "add"
      PROVE  \E j \in DOMAIN p : j > i /\ Removal(p[j], r)
  <2>1. i # Len(q) + 1
    BY <1>1, <1>4 DEF Removal
  <2> QED  BY <1>1, <1>2, <2>1
<1>5. InQueue(p, r, t.cleanup) /\ HasRemoval(p, r)
  BY <1>1, <1>2, <1>3, <1>4 DEF InQueue, HasRemoval
<1> QED  BY <1>5 DEF p

\* An empty queue.
LEMMA QueueEmpty ==
    ASSUME NEW r, NEW nodes
    PROVE  InQueue(<<>>, r, nodes) /\ ~HasRemoval(<<>>, r)
  BY DEF InQueue, HasRemoval

\* The first task is taken.
LEMMA QueueShrinks ==
    ASSUME NEW V, NEW q \in Seq(V), q # <<>>, NEW r, NEW nodes
    PROVE  LET p == Tail(q) IN
              /\ InQueue(q, r, nodes) => InQueue(p, r, nodes)
              /\ ~Removal(Head(q), r) => (HasRemoval(p, r) <=> HasRemoval(q, r))
              /\ Removal(Head(q), r) => HasRemoval(q, r)
              /\ Removal(Head(q), r) /\ InQueue(q, r, nodes) =>
                    ~HasRemoval(p, r) /\ Head(q).cleanup = nodes
              /\ ~(Head(q).kind = "cold" /\ Head(q).r = r) /\ HasCold(q, r) => HasCold(p, r)
              /\ InQueue(q, r, nodes) /\ Head(q).kind = "add" => HasRemoval(q, r)
<1> DEFINE p == Tail(q)
<1>1. /\ DOMAIN q = 1..Len(q) /\ Len(q) \in Nat \ {0}
      /\ Head(q) = q[1]
      /\ DOMAIN p = 1..(Len(q) - 1)
      /\ \A i \in 1..(Len(q) - 1) : p[i] = q[i + 1]
  BY Rest
<1> HIDE DEF p
<1>2. /\ \A i \in DOMAIN p : i \in Int /\ i + 1 \in DOMAIN q /\ p[i] = q[i + 1] /\ i + 1 # 1
      /\ \A i \in DOMAIN q : i \in Int /\ (i # 1 => i - 1 \in DOMAIN p /\ p[i - 1] = q[i])
      /\ 1 \in DOMAIN q
  BY <1>1
<1>3. ASSUME InQueue(q, r, nodes)
      PROVE  InQueue(p, r, nodes)
  <2>1. \A i \in DOMAIN p : Removal(p[i], r) => p[i].cleanup = nodes
    BY <1>2, <1>3 DEF InQueue
  <2>2. ASSUME NEW i \in DOMAIN p, NEW j \in DOMAIN p, Removal(p[i], r), Removal(p[j], r)
        PROVE  i = j
    <3>1. i + 1 = j + 1
      BY <1>2, <1>3, <2>2 DEF InQueue
    <3> QED  BY <1>2, <3>1
  <2>3. ASSUME NEW i \in DOMAIN p, p[i].kind = "add"
        PROVE  \E j \in DOMAIN p : j > i /\ Removal(p[j], r)
    <3>1. PICK j \in DOMAIN q : j > i + 1 /\ Removal(q[j], r)
      BY <1>2, <1>3, <2>3 DEF InQueue
    <3>2. i \in Int /\ j \in Int /\ i >= 1
      BY <1>1, <1>2
    <3>3. j - 1 > i /\ j # 1
      BY <3>1, <3>2
    <3> QED  BY <1>2, <3>1, <3>3
  <2> QED  BY <2>1, <2>2, <2>3 DEF InQueue
<1>4. ~Removal(Head(q), r) => (HasRemoval(p, r) <=> HasRemoval(q, r))
  BY <1>1, <1>2 DEF HasRemoval
<1>5. Removal(Head(q), r) => HasRemoval(q, r)
  BY <1>1, <1>2 DEF HasRemoval
<1>6. ASSUME Removal(Head(q), r), InQueue(q, r, nodes)
      PROVE  ~HasRemoval(p, r) /\ Head(q).cleanup = nodes
  <2>1. \A i \in DOMAIN q : Removal(q[i], r) => i = 1
    BY <1>1, <1>2, <1>6 DEF InQueue
  <2> QED  BY <1>1, <1>2, <1>6, <2>1 DEF HasRemoval, InQueue
<1>7. ~(Head(q).kind = "cold" /\ Head(q).r = r) /\ HasCold(q, r) => HasCold(p, r)
  BY <1>1, <1>2 DEF HasCold
<1>8. InQueue(q, r, nodes) /\ Head(q).kind = "add" => HasRemoval(q, r)
  BY <1>1, <1>2 DEF InQueue, HasRemoval
<1> QED  BY <1>3, <1>4, <1>5, <1>6, <1>7, <1>8 DEF p

\* The types under their names.
LEMMA ColdTypes == C!TypeOK <=> ColdTyped
  BY DEF C!TypeOK, C!Placed, ColdTyped, ColdTasks, LogRows, NodeRows

\* A task is put into the queues of some nodes.
LEMMA Enqueued ==
    ASSUME ColdTyped, NEW X, NEW t \in ColdTasks, C!Enqueue(X, t)
    PROVE  /\ queue' \in [Nodes -> Seq(ColdTasks)]
           /\ \A n \in Nodes : /\ Held(queue'[n]) \subseteq Held(queue[n]) \cup {t}
                               /\ n \in X => queue'[n] = Append(queue[n], t)
                               /\ n \notin X => queue'[n] = queue[n]
<1>1. /\ queue' = [n \in Nodes |-> IF n \in X THEN Append(queue[n], t) ELSE queue[n]]
      /\ \A n \in Nodes : queue[n] \in Seq(ColdTasks)
  BY DEF C!Enqueue, ColdTyped
<1>2. \A n \in Nodes : Append(queue[n], t) \in Seq(ColdTasks) /\ Held(Append(queue[n], t)) = Held(queue[n]) \cup {t}
  BY <1>1, HeldAppended
<1> QED  BY <1>1, <1>2

\* A node's first task leaves its queue.
LEMMA Popped ==
    ASSUME ColdTyped, NEW n \in Nodes, queue[n] # <<>>, C!Pop(n)
    PROVE  /\ queue' \in [Nodes -> Seq(ColdTasks)]
           /\ \A m \in Nodes : /\ Held(queue'[m]) \subseteq Held(queue[m])
                               /\ m # n => queue'[m] = queue[m]
           /\ queue'[n] = Tail(queue[n])
           /\ Head(queue[n]) \in Held(queue[n]) /\ Head(queue[n]) \in ColdTasks
<1>1. /\ queue' = [queue EXCEPT ![n] = Tail(queue[n])]
      /\ queue[n] \in Seq(ColdTasks) /\ queue \in [Nodes -> Seq(ColdTasks)]
  BY DEF C!Pop, ColdTyped
<1>2. /\ Tail(queue[n]) \in Seq(ColdTasks) /\ Held(Tail(queue[n])) \subseteq Held(queue[n])
      /\ Head(queue[n]) \in Held(queue[n]) /\ Head(queue[n]) \in ColdTasks
  BY <1>1, HeldTail
<1> QED  BY <1>1, <1>2

\* A new placement's tasks: its creation, and the student's account.
LEMMA PlacementSent ==
    ASSUME ColdTyped, NEW n \in Nodes, C!CreatePlacement(n)
    PROVE  /\ C!Plain("create") \in ColdTasks /\ C!Plain("add") \in ColdTasks
           /\ queue' \in [Nodes -> Seq(ColdTasks)]
           /\ \A m \in Nodes : /\ Held(queue'[m]) \subseteq Held(queue[m]) \cup {C!Plain("create"), C!Plain("add")}
                               /\ m # n => queue'[m] = queue[m]
           /\ Append(queue[n], C!Plain("create")) \in Seq(ColdTasks)
           /\ queue'[n] = IF enrolled THEN Append(Append(queue[n], C!Plain("create")), C!Plain("add"))
                                      ELSE Append(queue[n], C!Plain("create"))
<1> DEFINE q1 == Append(queue[n], C!Plain("create"))
           q2 == Append(q1, C!Plain("add"))
<1>0. C!Plain("create") \in ColdTasks /\ C!Plain("add") \in ColdTasks
  BY ColdAssumption DEF C!Plain, C!Task, ColdTasks
<1>1. /\ queue' = [queue EXCEPT ![n] = (queue[n] \o <<C!Plain("create")>>) \o
                                          (IF enrolled THEN <<C!Plain("add")>> ELSE <<>>)]
      /\ queue[n] \in Seq(ColdTasks) /\ queue \in [Nodes -> Seq(ColdTasks)]
  BY DEF C!CreatePlacement, ColdTyped
<1>2. queue[n] \o <<C!Plain("create")>> = q1
  BY <1>0, <1>1, OneMore
<1>3. q1 \in Seq(ColdTasks) /\ Held(q1) = Held(queue[n]) \cup {C!Plain("create")}
  BY <1>0, <1>1, HeldAppended
<1> HIDE DEF q1
<1>4. q2 \in Seq(ColdTasks) /\ Held(q2) = Held(q1) \cup {C!Plain("add")}
  BY <1>0, <1>3, HeldAppended
<1>5. q1 \o <<C!Plain("add")>> = q2 /\ q1 \o <<>> = q1
  BY <1>0, <1>3, OneMore
<1> HIDE DEF q2
<1>6. queue' = [queue EXCEPT ![n] = IF enrolled THEN q2 ELSE q1]
  BY <1>1, <1>2, <1>5
<1>7. queue' \in [Nodes -> Seq(ColdTasks)] /\ queue'[n] = IF enrolled THEN q2 ELSE q1
  BY <1>1, <1>3, <1>4, <1>6
<1>8. \A m \in Nodes : /\ Held(queue'[m]) \subseteq Held(queue[m]) \cup {C!Plain("create"), C!Plain("add")}
                       /\ m # n => queue'[m] = queue[m]
  <2>1. \A m \in Nodes : m # n => queue'[m] = queue[m]
    BY <1>1, <1>6
  <2> QED  BY <1>3, <1>4, <1>7, <2>1
<1>9. /\ q1 \in Seq(ColdTasks)
      /\ queue'[n] = IF enrolled THEN q2 ELSE q1
  BY <1>3, <1>7
<1> QED  BY <1>0, <1>7, <1>8, <1>9 DEF q1, q2

\* A placement of one node changes its state: a client's is only in use when its
\* owner's is, and an owner's is only left when no client's is in use.
LEMMA PlaceMoves ==
    ASSUME ColdTyped, C!OwnersAreLocal, C!OwnerOutlivesClients, node' = node, NEW n \in Nodes,
           NEW s \in {"none", "provisioning", "active", "deleting"}, coldPlace' = [coldPlace EXCEPT ![n] = s],
           s \in {"provisioning", "active"} /\ node[n].owner # None =>
              coldPlace[node[n].owner] \in {"provisioning", "active"},
           s \in {"none", "deleting"} =>
              \A m \in Nodes : node[m].owner = n => coldPlace[m] \notin {"provisioning", "active"}
    PROVE  /\ coldPlace' \in [Nodes -> {"none", "provisioning", "active", "deleting"}]
           /\ coldPlace'[n] = s
           /\ \A m \in Nodes : m # n => coldPlace'[m] = coldPlace[m]
           /\ C!OwnerOutlivesClients'
<1>1. /\ coldPlace \in [Nodes -> {"none", "provisioning", "active", "deleting"}]
      /\ node \in [Nodes -> NodeRows]
  BY DEF ColdTyped
<1>2. coldPlace' \in [Nodes -> {"none", "provisioning", "active", "deleting"}]
  BY <1>1
<1>3. coldPlace'[n] = s /\ \A m \in Nodes : m # n => coldPlace'[m] = coldPlace[m]
  BY <1>1
<1>4. ASSUME NEW m \in Nodes, coldPlace'[m] \in {"provisioning", "active"}, node[m].owner # None
      PROVE  coldPlace'[node[m].owner] \in {"provisioning", "active"}
  <2>1. node[m].owner \in Nodes /\ node[m] \in NodeRows
    BY <1>1, <1>4 DEF NodeRows
  <2>2. node[m].owner # m
    BY <1>4, <2>1 DEF C!OwnersAreLocal
  <2>3. CASE m = n
    BY <1>3, <1>4, <2>1, <2>2, <2>3
  <2>4. CASE m # n
    BY <1>3, <1>4, <2>1, <2>4 DEF C!OwnerOutlivesClients
  <2> QED  BY <2>3, <2>4
<1> QED  BY <1>2, <1>3, <1>4 DEF C!OwnerOutlivesClients

ColdMap == ColdTyped /\ RowsGone /\ NotRevived /\ C!OwnersAreLocal /\ C!OwnerOutlivesClients

\* What admins and the hub do to the nodes' rows.
LEMMA NodesChange ==
    ASSUME ColdInv, NEW n \in Nodes,
           \/ C!ProvisionNode(n)
           \/ \E b, c \in BOOLEAN : C!Reports(n, b, c)
           \/ C!SetNodeColdStorage(n, "local_zfs", None)
           \/ \E o \in Nodes : C!SetNodeColdStorage(n, "smb", o)
    PROVE  ColdMap'
<1> USE ColdAssumption
<1> USE DEF ColdInv
<1>1. /\ UNCHANGED <<coldPlace, enrolled, members, queue, log, up, cold, ops, owed>>
      /\ node \in [Nodes -> NodeRows]
  BY DEF C!ProvisionNode, C!Reports, C!SetNodeColdStorage, C!disk, ColdTyped
<1>2. PICK b \in NodeRows :
         /\ node' = [node EXCEPT ![n] = b] /\ b.row
         /\ ~node[n].row => b = [C!NoNode EXCEPT !.row = TRUE]
         /\ node[n].row =>
               \/ b.backend = node[n].backend /\ b.owner = node[n].owner
               \/ coldPlace[n] = "none" /\ b.backend = "local_zfs" /\ b.owner = None
               \/ /\ coldPlace[n] = "none" /\ C!Clients(n) = {} /\ b.backend = "smb"
                  /\ b.owner \in Nodes \ {n} /\ node[b.owner].row /\ C!Local(b.owner)
  <2>1. CASE C!ProvisionNode(n)
    <3> DEFINE b == [C!NoNode EXCEPT !.row = TRUE]
    <3>1. b \in NodeRows
      BY DEF C!NoNode, NodeRows
    <3>2. node' = [node EXCEPT ![n] = b] /\ ~node[n].row /\ b.row
      BY <2>1 DEF C!ProvisionNode, C!NoNode
    <3> QED  BY <3>1, <3>2
  <2>2. CASE \E x, y \in BOOLEAN : C!Reports(n, x, y)
    <3>1. PICK x \in BOOLEAN, y \in BOOLEAN : C!Reports(n, x, y)
      BY <2>2
    <3> DEFINE b == [node[n] EXCEPT !.online = x, !.ready = y]
    <3>2. node[n] \in NodeRows /\ node[n].row
      BY <1>1, <3>1 DEF C!Reports
    <3>3. b \in NodeRows /\ b.row /\ b.backend = node[n].backend /\ b.owner = node[n].owner
      BY <3>2 DEF NodeRows
    <3>4. node' = [node EXCEPT ![n] = b]
      BY <1>1, <3>1, <3>2 DEF C!Reports, NodeRows
    <3> QED  BY <3>2, <3>3, <3>4
  <2>3. ASSUME NEW k \in {"local_zfs", "smb"}, NEW o \in Nodes \cup {None}, C!SetNodeColdStorage(n, k, o)
        PROVE  \E b \in NodeRows : node' = [node EXCEPT ![n] = b] /\ b.row /\ node[n].row
                            /\ coldPlace[n] = "none" /\ b.backend = k /\ b.owner = o
    <3> DEFINE b == [node[n] EXCEPT !.backend = k, !.owner = o]
    <3>2. node[n] \in NodeRows /\ node[n].row /\ coldPlace[n] = "none"
      BY <1>1, <2>3 DEF C!SetNodeColdStorage
    <3>3. b \in NodeRows /\ b.row /\ b.backend = k /\ b.owner = o
      BY <3>2 DEF NodeRows
    <3>4. node' = [node EXCEPT ![n] = b]
      BY <1>1, <2>3, <3>2 DEF C!SetNodeColdStorage, NodeRows
    <3> QED  BY <3>2, <3>3, <3>4
  <2>4. CASE C!SetNodeColdStorage(n, "local_zfs", None)
    BY <2>3, <2>4
  <2>5. CASE \E o \in Nodes : C!SetNodeColdStorage(n, "smb", o)
    <3>1. PICK o \in Nodes : C!SetNodeColdStorage(n, "smb", o)
      BY <2>5
    <3>2. o \in Nodes \ {n} /\ node[o].row /\ C!Local(o) /\ C!Clients(n) = {}
      BY <3>1 DEF C!SetNodeColdStorage
    <3> QED  BY <2>3, <3>1, <3>2
  <2> QED  BY <2>1, <2>2, <2>4, <2>5
<1>3. node' \in [Nodes -> NodeRows] /\ node'[n] = b /\ \A m \in Nodes : m # n => node'[m] = node[m]
  BY <1>1, <1>2
<1>4. ColdTyped'
  BY <1>1, <1>3 DEF ColdTyped
<1>5. RowsGone'
  BY <1>2, <1>3 DEF RowsGone, C!NoNode
<1>6. NotRevived'
  BY <1>1 DEF NotRevived, Held
<1>7. \A m \in Nodes : node[m].owner # None => node[m].owner \in Nodes
  BY <1>1 DEF NodeRows
<1>8. ~node[n].row => b.backend = "local_zfs" /\ b.owner = None
  BY <1>2 DEF C!NoNode
<1>9. C!OwnersAreLocal'
  <2> SUFFICES ASSUME NEW m \in Nodes, node'[m].owner # None
               PROVE  node'[m].backend # "local_zfs" /\ node'[node'[m].owner].row
                      /\ node'[node'[m].owner].backend = "local_zfs"
    BY DEF C!OwnersAreLocal, C!Local
  <2>1. \A k \in Nodes : node[k].owner # None =>
           node[k].backend # "local_zfs" /\ node[node[k].owner].row /\ node[node[k].owner].backend = "local_zfs"
    BY DEF C!OwnersAreLocal, C!Local
  <2>2. CASE m = n
    BY <1>2, <1>3, <1>7, <1>8, <2>1, <2>2 DEF C!Local
  <2>3. CASE m # n
    <3>1. node[m].owner # None /\ node[m].owner \in Nodes /\ node'[m] = node[m]
      BY <1>3, <1>7, <2>3
    <3>2. node[m].owner # n \/ (node[n].row /\ node[m].owner = n /\ C!Clients(n) # {})
      BY <2>1, <3>1 DEF C!Clients
    <3> QED  BY <1>2, <1>3, <2>1, <3>1, <3>2
  <2> QED  BY <2>2, <2>3
<1>10. C!OwnerOutlivesClients'
  <2> SUFFICES ASSUME NEW m \in Nodes, coldPlace[m] \in {"provisioning", "active"}, node'[m].owner # None
               PROVE  coldPlace[node'[m].owner] \in {"provisioning", "active"}
    BY <1>1 DEF C!OwnerOutlivesClients
  <2>1. node'[m].owner = node[m].owner
    BY <1>2, <1>3, <1>8
  <2> QED  BY <2>1 DEF C!OwnerOutlivesClients
<1> QED  BY <1>4, <1>5, <1>6, <1>9, <1>10 DEF ColdMap

\* A node is deleted: those that mounted its storage have no owner any more.
LEMMA NodeGoes ==
    ASSUME ColdInv, NEW n \in Nodes, NEW force \in BOOLEAN, C!DeleteNode(n, force)
    PROVE  ColdMap'
<1> USE ColdAssumption
<1>1. /\ UNCHANGED <<enrolled, queue, up, cold, ops>> /\ owed' = C!NoDebt
      /\ coldPlace' = [coldPlace EXCEPT ![n] = "none"]
      /\ members' = members \ {n} /\ log' \subseteq log
      /\ ColdTyped /\ node \in [Nodes -> NodeRows]
      /\ coldPlace \in [Nodes -> {"none", "provisioning", "active", "deleting"}]
  BY DEF C!DeleteNode, C!disk, ColdInv, ColdTyped
<1>2. \A m \in Nodes : node[m].owner # None =>
         /\ node[m].owner \in Nodes /\ node[m].owner # m
         /\ node[m].backend # "local_zfs" /\ node[node[m].owner].row
         /\ node[node[m].owner].backend = "local_zfs"
  <2> SUFFICES ASSUME NEW m \in Nodes, node[m].owner # None
               PROVE  /\ node[m].owner \in Nodes /\ node[m].owner # m
                      /\ node[m].backend # "local_zfs" /\ node[node[m].owner].row
                      /\ node[node[m].owner].backend = "local_zfs"
    OBVIOUS
  <2>1. node[m].owner \in Nodes
    BY <1>1 DEF NodeRows
  <2> QED  BY <2>1 DEF ColdInv, C!OwnersAreLocal, C!Local
<1>3. \A m \in Nodes :
         /\ m = n => node'[m] = C!NoNode
         /\ m # n /\ node[m].owner = n => node'[m] = [node[m] EXCEPT !.owner = None, !.ready = FALSE]
         /\ m # n /\ node[m].owner # n => node'[m] = node[m]
  BY DEF C!DeleteNode, C!Clients
<1>4. C!NoNode \in NodeRows /\ C!NoNode.owner = None /\ C!NoNode.backend = "local_zfs" /\ ~C!NoNode.row
  BY DEF C!NoNode, NodeRows
<1>5. \A m \in Nodes : m # n /\ node[m].owner = n =>
         /\ node'[m] \in NodeRows /\ node'[m].owner = None
         /\ node'[m].backend = node[m].backend /\ node'[m].row = node[m].row
  <2> SUFFICES ASSUME NEW m \in Nodes, m # n, node[m].owner = n
               PROVE  /\ node'[m] \in NodeRows /\ node'[m].owner = None
                      /\ node'[m].backend = node[m].backend /\ node'[m].row = node[m].row
    OBVIOUS
  <2>1. node'[m] = [node[m] EXCEPT !.owner = None, !.ready = FALSE] /\ node[m] \in NodeRows
    BY <1>1, <1>3
  <2> QED  BY <2>1 DEF NodeRows
<1>6. node' \in [Nodes -> NodeRows]
  <2>1. \A m \in Nodes : node'[m] \in NodeRows
    BY <1>1, <1>3, <1>4, <1>5
  <2>2. node' = [m \in Nodes |-> node'[m]]
    BY DEF C!DeleteNode
  <2> QED  BY <2>1, <2>2
<1>7. ColdTyped'
  <2>1. \A m \in members' : m \in Nodes /\ coldPlace'[m] # "none"
    BY <1>1 DEF ColdTyped
  <2>2. coldPlace' \in [Nodes -> {"none", "provisioning", "active", "deleting"}]
    BY <1>1
  <2>3. owed' \in [r : 0..MaxOps, nodes : SUBSET Nodes]
    BY <1>1 DEF C!NoDebt
  <2> QED  BY <1>1, <1>6, <2>1, <2>2, <2>3 DEF ColdTyped
<1>8. RowsGone'
  <2> SUFFICES ASSUME NEW m \in Nodes, ~node'[m].row
               PROVE  node'[m] = C!NoNode
    BY DEF RowsGone, C!NoNode
  <2>1. \A k \in Nodes : ~node[k].row => node[k] = C!NoNode
    BY DEF ColdInv, RowsGone
  <2>2. CASE m # n /\ node[m].owner = n
    BY <1>1, <1>4, <1>5, <2>1, <2>2, <1>2, ColdAssumption
  <2> QED  BY <1>3, <2>1, <2>2
<1>9. NotRevived'
  BY <1>1 DEF ColdInv, NotRevived, Held
<1>10. C!OwnersAreLocal'
  <2> SUFFICES ASSUME NEW m \in Nodes, node'[m].owner # None
               PROVE  node'[m].backend # "local_zfs" /\ node'[node'[m].owner].row
                      /\ node'[node'[m].owner].backend = "local_zfs"
    BY DEF C!OwnersAreLocal, C!Local
  <2>1. m # n /\ node[m].owner # n /\ node'[m] = node[m]
    BY <1>3, <1>4, <1>5
  <2>2. node[m].owner \in Nodes /\ node[m].owner # n /\ node[node[m].owner].backend = "local_zfs"
    BY <1>2, <2>1
  <2>3. node[node[m].owner].owner = None
    BY <1>2, <2>2
  <2>4. node'[node[m].owner] = node[node[m].owner]
    BY <1>3, <2>2, <2>3, ColdAssumption
  <2> QED  BY <1>2, <2>1, <2>4
<1>11. C!OwnerOutlivesClients'
  <2> SUFFICES ASSUME NEW m \in Nodes, coldPlace'[m] \in {"provisioning", "active"}, node'[m].owner # None
               PROVE  coldPlace'[node'[m].owner] \in {"provisioning", "active"}
    BY DEF C!OwnerOutlivesClients
  <2>1. m # n /\ node[m].owner # n /\ node'[m] = node[m]
    BY <1>3, <1>4, <1>5
  <2>2. coldPlace'[m] = coldPlace[m] /\ node[m].owner \in Nodes /\ coldPlace'[node[m].owner] = coldPlace[node[m].owner]
    BY <1>1, <1>2, <2>1
  <2> QED  BY <2>1, <2>2 DEF ColdInv, C!OwnerOutlivesClients
<1> QED  BY <1>7, <1>8, <1>9, <1>10, <1>11 DEF ColdMap

\* The placement's tasks and its state: what is created, torn down and forced out.
LEMMA PlacementsChange ==
    ASSUME ColdInv, "destroy" \in Patient, NEW n \in Nodes,
           C!CreatePlacement(n) \/ C!DestroyPlacement(n) \/ C!ForceDeletePlacement(n)
    PROVE  ColdMap'
<1> USE ColdAssumption
<1>1. /\ UNCHANGED <<node, enrolled, log, up, cold, owed>> /\ ops' = ops + 1 /\ ops < MaxOps
      /\ ColdTyped /\ RowsGone /\ NotRevived /\ C!OwnersAreLocal /\ C!OwnerOutlivesClients
  BY DEF C!CreatePlacement, C!DestroyPlacement, C!ForceDeletePlacement, C!Begin, C!disk, ColdInv
<1>2. /\ coldPlace \in [Nodes -> {"none", "provisioning", "active", "deleting"}]
      /\ node \in [Nodes -> NodeRows] /\ ops' \in 0..MaxOps
      /\ \A m \in members : m \in Nodes /\ coldPlace[m] # "none"
  BY <1>1 DEF ColdTyped
<1>3. RowsGone' /\ C!OwnersAreLocal'
  BY <1>1 DEF RowsGone, C!OwnersAreLocal, C!Local, C!NoNode
<1>4. CASE C!CreatePlacement(n)
  <2>1. /\ coldPlace' = [coldPlace EXCEPT ![n] = "provisioning"] /\ coldPlace[n] = "none"
        /\ node[n].owner # None => coldPlace[node[n].owner] = "active"
        /\ members' \subseteq members \cup {n}
    BY <1>1, <1>4 DEF C!CreatePlacement, C!OwnersAreLocal, C!Local
  <2>2. /\ coldPlace' \in [Nodes -> {"none", "provisioning", "active", "deleting"}]
        /\ coldPlace'[n] = "provisioning"
        /\ \A m \in Nodes : m # n => coldPlace'[m] = coldPlace[m]
        /\ C!OwnerOutlivesClients'
    BY <1>1, <2>1, PlaceMoves
  <2>3. /\ queue' \in [Nodes -> Seq(ColdTasks)]
        /\ \A m \in Nodes : m # n => queue'[m] = queue[m]
    BY <1>1, <1>4, PlacementSent
  <2>4. NotRevived'
    BY <1>1, <2>2, <2>3 DEF NotRevived
  <2>5. \A m \in members' : m \in Nodes /\ coldPlace'[m] # "none"
    BY <1>2, <2>1, <2>2
  <2>6. ColdTyped'
    BY <1>1, <1>2, <2>2, <2>3, <2>5 DEF ColdTyped
  <2> QED  BY <1>3, <2>2, <2>4, <2>6 DEF ColdMap
<1>5. CASE C!DestroyPlacement(n) \/ C!ForceDeletePlacement(n)
  <2>0. C!Plain("destroy") \in ColdTasks /\ C!Plain("destroy").kind = "destroy"
    BY DEF C!Plain, C!Task, ColdTasks
  <2>1. PICK s \in {"deleting", "none"} :
           /\ coldPlace' = [coldPlace EXCEPT ![n] = s]
           /\ members' \subseteq members /\ (s = "none" => n \notin members')
           /\ C!Enqueue({n}, C!Plain("destroy"))
           /\ C!NoSmbDependents(n) /\ ~C!Waiting(n, {"create"})
    <3>1. CASE C!DestroyPlacement(n)
      BY <3>1, <1>1 DEF C!DestroyPlacement, C!MayDestroy
    <3>2. CASE C!ForceDeletePlacement(n)
      BY <3>2, <1>1 DEF C!ForceDeletePlacement, C!MayDestroy
    <3> QED  BY <1>5, <3>1, <3>2
  <2>2. \A m \in Nodes : node[m].owner = n => coldPlace[m] \notin {"provisioning", "active"}
    <3>1. SUFFICES ASSUME NEW m \in Nodes, node[m].owner = n
                   PROVE  coldPlace[m] \notin {"provisioning", "active"}
      OBVIOUS
    <3>2. C!Local(n) /\ m \in C!Clients(n)
      BY <1>1, <3>1 DEF C!OwnersAreLocal, C!Clients
    <3> QED  BY <2>1, <3>2 DEF C!NoSmbDependents
  <2>3. /\ coldPlace' \in [Nodes -> {"none", "provisioning", "active", "deleting"}]
        /\ coldPlace'[n] = s
        /\ \A m \in Nodes : m # n => coldPlace'[m] = coldPlace[m]
        /\ C!OwnerOutlivesClients'
    BY <1>1, <2>1, <2>2, PlaceMoves
  <2>4. /\ queue' \in [Nodes -> Seq(ColdTasks)]
        /\ \A m \in Nodes : m # n => queue'[m] = queue[m]
        /\ Held(queue'[n]) \subseteq Held(queue[n]) \cup {C!Plain("destroy")}
    <3>1. ColdTyped /\ C!Enqueue({n}, C!Plain("destroy"))
      BY <1>1, <2>1
    <3>2. /\ queue' \in [Nodes -> Seq(ColdTasks)]
          /\ \A m \in Nodes : /\ Held(queue'[m]) \subseteq Held(queue[m]) \cup {C!Plain("destroy")}
                              /\ m \notin {n} => queue'[m] = queue[m]
      BY <2>0, <3>1, Enqueued
    <3> QED  BY <3>2
  <2>5. \A t \in Held(queue[n]) : t.kind # "create"
    BY <2>1 DEF C!Waiting, Held
  <2>6. NotRevived'
    BY <1>1, <2>0, <2>3, <2>4, <2>5 DEF NotRevived
  <2>7. \A m \in members' : m \in Nodes /\ coldPlace'[m] # "none"
    BY <1>2, <2>1, <2>3
  <2>8. ColdTyped'
    BY <1>1, <1>2, <2>3, <2>4, <2>7 DEF ColdTyped
  <2> QED  BY <1>3, <2>3, <2>6, <2>8 DEF ColdMap
<1> QED  BY <1>4, <1>5

\* The student joins the lab, or leaves it.
LEMMA StudentMoves ==
    ASSUME ColdInv, C!AddStudent \/ \E d \in BOOLEAN : C!RemoveStudent(d)
    PROVE  ColdMap'
<1> USE ColdAssumption
<1>1. /\ UNCHANGED <<node, coldPlace, up, cold>> /\ ops' = ops + 1 /\ ops < MaxOps
      /\ ColdTyped /\ RowsGone /\ NotRevived /\ C!OwnersAreLocal /\ C!OwnerOutlivesClients
      /\ enrolled' \in BOOLEAN
  BY DEF C!AddStudent, C!RemoveStudent, C!Begin, C!disk, ColdInv
<1>2. RowsGone' /\ C!OwnersAreLocal' /\ C!OwnerOutlivesClients'
  BY <1>1 DEF RowsGone, C!OwnersAreLocal, C!Local, C!NoNode, C!OwnerOutlivesClients
<1>3. ops' \in 0..MaxOps /\ ops + 1 \in 1..MaxOps
  BY <1>1 DEF ColdTyped
<1>4. PICK t \in ColdTasks : t.kind # "create" /\ C!Enqueue(C!Placed, t)
  <2>1. CASE C!AddStudent
    <3>1. C!Plain("add") \in ColdTasks /\ C!Plain("add").kind # "create"
      BY DEF C!Plain, C!Task, ColdTasks
    <3> QED  BY <2>1, <3>1 DEF C!AddStudent
  <2>2. ASSUME NEW d \in BOOLEAN, C!RemoveStudent(d)
        PROVE  \E t \in ColdTasks : t.kind # "create" /\ C!Enqueue(C!Placed, t)
    <3> DEFINE k == IF d THEN ops + 1 ELSE 0
               nodes == IF d THEN {n \in C!Placed : C!Local(n)} ELSE {}
    <3>1. k \in 0..MaxOps /\ nodes \in SUBSET Nodes
      BY <1>3 DEF C!Placed
    <3>2. C!Enqueue(C!Placed, C!Task("remove", k, nodes))
      BY <2>2 DEF C!RemoveStudent
    <3> HIDE DEF k, nodes
    <3>3. C!Task("remove", k, nodes) \in ColdTasks /\ C!Task("remove", k, nodes).kind # "create"
      BY <3>1 DEF C!Task, ColdTasks
    <3> QED  BY <3>2, <3>3
  <2> QED  BY <2>1, <2>2
<1>5. /\ queue' \in [Nodes -> Seq(ColdTasks)]
      /\ \A n \in Nodes : Held(queue'[n]) \subseteq Held(queue[n]) \cup {t}
  BY <1>1, <1>4, Enqueued
<1>6. NotRevived'
  BY <1>1, <1>4, <1>5 DEF NotRevived
<1>7. /\ log' \subseteq LogRows /\ owed' \in [r : 0..MaxOps, nodes : SUBSET Nodes]
      /\ \A n \in members' : n \in Nodes /\ coldPlace'[n] # "none"
  <2>1. CASE C!AddStudent
    BY <1>1, <2>1 DEF C!AddStudent, C!Placed, C!NoDebt, ColdTyped
  <2>2. ASSUME NEW d \in BOOLEAN, C!RemoveStudent(d)
        PROVE  /\ log' \subseteq LogRows /\ owed' \in [r : 0..MaxOps, nodes : SUBSET Nodes]
               /\ members' = {}
    <3>1. CASE d
      <4>1. log' = log \cup {RemovalRow(n, ops + 1, "queued") : n \in C!Placed}
        BY <2>2, <3>1 DEF C!RemoveStudent, RemovalRow
      <4>2. \A n \in C!Placed : RemovalRow(n, ops + 1, "queued") \in LogRows
        BY <1>3 DEF RemovalRow, LogRows, C!Placed
      <4>3. owed' = C!NoDebt \/ owed' = [r |-> ops + 1, nodes |-> {n \in C!Placed : C!Local(n)}]
        BY <2>2, <3>1 DEF C!RemoveStudent, C!Task
      <4>4. owed' \in [r : 0..MaxOps, nodes : SUBSET Nodes]
        BY <1>3, <4>3 DEF C!NoDebt, C!Placed
      <4>5. members' = {}
        BY <2>2 DEF C!RemoveStudent
      <4> QED  BY <1>1, <4>1, <4>2, <4>4, <4>5 DEF ColdTyped
    <3>2. CASE ~d
      <4>1. log' = log /\ members' = {}
        BY <2>2, <3>2 DEF C!RemoveStudent
      <4>2. owed' = C!NoDebt \/ owed' = [r |-> 0, nodes |-> {}]
        BY <2>2, <3>2 DEF C!RemoveStudent, C!Task
      <4> QED  BY <1>1, <4>1, <4>2 DEF ColdTyped, C!NoDebt
    <3> QED  BY <3>1, <3>2
  <2> QED  BY <2>1, <2>2
<1>8. ColdTyped'
  BY <1>1, <1>3, <1>5, <1>7 DEF ColdTyped
<1> QED  BY <1>2, <1>6, <1>8 DEF ColdMap

\* What answering a removal does to the queues and the log.
Base(m, n) == IF m = n THEN Tail(queue[m]) ELSE queue[m]

LEMMA RemovalRun ==
    ASSUME ColdTyped, NEW n \in Nodes, C!RunRemove(n)
    PROVE  LET t  == Head(queue[n])
               lg(st) == (log \ {RemovalRow(n, t.r, "queued")}) \cup {RemovalRow(n, t.r, st)} IN
           /\ queue[n] # <<>> /\ t.kind = "remove" /\ t \in ColdTasks /\ t \in Held(queue[n])
           /\ \A m \in Nodes : Base(m, n) \in Seq(ColdTasks) /\ Held(Base(m, n)) \subseteq Held(queue[m])
           /\ C!Task("cold", t.r, {}) \in ColdTasks
           /\ \E st \in {"ok", "failed"}, due \in SUBSET Nodes :
                 /\ IF RemovalRow(n, t.r, "queued") \notin log
                    THEN due = {} /\ log' = log /\ owed' = owed
                    ELSE /\ due = IF st = "ok" THEN C!CleanupDue(lg(st), t, n) ELSE {}
                         /\ log' = lg(st) \cup {[node |-> m, kind |-> "cold", r |-> t.r, state |-> "queued"] : m \in due}
                         /\ owed' = IF st = "ok" \/ t.r # owed.r THEN owed ELSE C!NoDebt
                 /\ queue' \in [Nodes -> Seq(ColdTasks)]
                 /\ \A m \in Nodes : queue'[m] = IF m \in due THEN Append(Base(m, n), C!Task("cold", t.r, {}))
                                                              ELSE Base(m, n)
<1> USE ColdAssumption
<1> DEFINE t == Head(queue[n])
           lg(st) == (log \ {RemovalRow(n, t.r, "queued")}) \cup {RemovalRow(n, t.r, st)}
           c == C!Task("cold", t.r, {})
<1>1. queue[n] # <<>> /\ t.kind = "remove"
  BY DEF C!RunRemove, C!Takes
<1>2. \A m \in Nodes : queue[m] \in Seq(ColdTasks)
  BY DEF ColdTyped
<1>3. t \in ColdTasks /\ t \in Held(queue[n]) /\ Tail(queue[n]) \in Seq(ColdTasks) /\ Held(Tail(queue[n])) \subseteq Held(queue[n])
  BY <1>1, <1>2, HeldTail
<1>4. \A m \in Nodes : Base(m, n) \in Seq(ColdTasks) /\ Held(Base(m, n)) \subseteq Held(queue[m])
  BY <1>2, <1>3 DEF Base
<1> HIDE DEF t
<1>5. c \in ColdTasks
  BY <1>3 DEF C!Task, ColdTasks
<1> HIDE DEF c
<1>6. \A m \in Nodes : Append(Base(m, n), c) \in Seq(ColdTasks) /\ Base(m, n) \o <<c>> = Append(Base(m, n), c)
                       /\ Base(m, n) \o <<>> = Base(m, n)
  BY <1>4, <1>5, HeldAppended, OneMore
<1>10. \A x : [RemovalRow(n, t.r, "queued") EXCEPT !.state = x] = RemovalRow(n, t.r, x)
  BY DEF RemovalRow
<1>7. PICK ok \in BOOLEAN :
         IF RemovalRow(n, t.r, "queued") \notin log THEN C!Pop(n) /\ log' = log /\ owed' = owed
         ELSE LET st  == IF ok THEN "ok" ELSE "failed"
                  due == IF ok THEN C!CleanupDue(lg(st), t, n) ELSE {} IN
              /\ log' = lg(st) \cup {[node |-> m, kind |-> "cold", r |-> t.r, state |-> "queued"] : m \in due}
              /\ queue' = [m \in Nodes |-> Base(m, n) \o (IF m \in due THEN <<c>> ELSE <<>>)]
              /\ owed' = IF ok \/ t.r # owed.r THEN owed ELSE C!NoDebt
  <2> DEFINE row == RemovalRow(n, t.r, "queued")
  <2>1. PICK ok \in BOOLEAN :
           IF row \notin log THEN C!Pop(n) /\ UNCHANGED <<log, owed>>
           ELSE LET old == (log \ {row}) \cup {[row EXCEPT !.state = IF ok THEN "ok" ELSE "failed"]}
                    due == IF ok THEN C!CleanupDue(old, t, n) ELSE {} IN
                /\ log' = old \cup {[node |-> m, kind |-> "cold", r |-> t.r, state |-> "queued"] : m \in due}
                /\ queue' = [m \in Nodes |->
                      (IF m = n THEN Tail(queue[m]) ELSE queue[m]) \o
                      (IF m \in due THEN <<C!Task("cold", t.r, {})>> ELSE <<>>)]
                /\ owed' = IF ok \/ t.r # owed.r THEN owed ELSE C!NoDebt
    BY DEF C!RunRemove, RemovalRow, t
  <2>2. (log \ {row}) \cup {[row EXCEPT !.state = IF ok THEN "ok" ELSE "failed"]} = lg(IF ok THEN "ok" ELSE "failed")
    BY <1>10
  <2> HIDE DEF lg
  <2> QED  BY <2>1, <2>2 DEF Base, c
<1>8. CASE RemovalRow(n, t.r, "queued") \notin log
  <2>1. queue' = [queue EXCEPT ![n] = Tail(queue[n])] /\ queue \in [Nodes -> Seq(ColdTasks)]
    BY <1>7, <1>8 DEF C!Pop, ColdTyped
  <2>2. queue' \in [Nodes -> Seq(ColdTasks)] /\ \A m \in Nodes : queue'[m] = Base(m, n)
    BY <1>3, <2>1 DEF Base
  <2>3. LET due == {} IN
        /\ log' = log /\ owed' = owed /\ queue' \in [Nodes -> Seq(ColdTasks)]
        /\ \A m \in Nodes : queue'[m] = IF m \in due THEN Append(Base(m, n), c) ELSE Base(m, n)
    BY <1>7, <1>8, <2>2
  <2>4. "ok" \in {"ok", "failed"} /\ {} \in SUBSET Nodes
    OBVIOUS
  <2> QED  BY <1>1, <1>3, <1>4, <1>5, <1>8, <2>3, <2>4 DEF t, c
<1>9. CASE RemovalRow(n, t.r, "queued") \in log
  <2> DEFINE st  == IF ok THEN "ok" ELSE "failed"
             due == IF ok THEN C!CleanupDue(lg(st), t, n) ELSE {}
  <2>1. /\ log' = lg(st) \cup {[node |-> m, kind |-> "cold", r |-> t.r, state |-> "queued"] : m \in due}
        /\ queue' = [m \in Nodes |-> Base(m, n) \o (IF m \in due THEN <<c>> ELSE <<>>)]
        /\ owed' = IF ok \/ t.r # owed.r THEN owed ELSE C!NoDebt
    BY <1>7, <1>9
  <2>2. /\ queue' \in [Nodes -> Seq(ColdTasks)]
        /\ \A m \in Nodes : queue'[m] = IF m \in due THEN Append(Base(m, n), c) ELSE Base(m, n)
    BY <1>4, <1>6, <2>1
  <2>3. st \in {"ok", "failed"} /\ (ok <=> st = "ok")
    OBVIOUS
  <2>4. due \in SUBSET Nodes
    BY <1>3 DEF C!CleanupDue, ColdTasks
  <2>5. due = IF st = "ok" THEN C!CleanupDue(lg(st), t, n) ELSE {}
    BY <2>3
  <2>6. owed' = IF st = "ok" \/ t.r # owed.r THEN owed ELSE C!NoDebt
    BY <2>1, <2>3
  <2> HIDE DEF st, due
  <2> QED  BY <1>1, <1>3, <1>4, <1>5, <1>9, <2>1, <2>2, <2>3, <2>4, <2>5, <2>6 DEF t, c
<1> QED  BY <1>8, <1>9

\* A node runs its first task.
LEMMA TaskRuns ==
    ASSUME ColdInv, NEW n \in Nodes, C!RunTask(n)
    PROVE  ColdMap'
<1> USE ColdAssumption
<1>1. /\ UNCHANGED <<node, enrolled, ops>>
      /\ ColdTyped /\ RowsGone /\ NotRevived /\ C!OwnersAreLocal /\ C!OwnerOutlivesClients
  BY DEF C!RunTask, C!RunCreate, C!RunDestroy, C!RunAdd, C!RunRemove, C!RunCold, C!table, ColdInv
<1>2. /\ coldPlace \in [Nodes -> {"none", "provisioning", "active", "deleting"}]
      /\ node \in [Nodes -> NodeRows] /\ up \subseteq Nodes /\ cold \subseteq Nodes
      /\ log \subseteq LogRows /\ owed \in [r : 0..MaxOps, nodes : SUBSET Nodes]
      /\ \A m \in members : m \in Nodes /\ coldPlace[m] # "none"
  BY <1>1 DEF ColdTyped
<1>3. RowsGone' /\ C!OwnersAreLocal'
  BY <1>1 DEF RowsGone, C!OwnersAreLocal, C!Local, C!NoNode
<1>4. CASE C!RunCreate(n)
  <2>1. /\ queue' \in [Nodes -> Seq(ColdTasks)]
        /\ \A m \in Nodes : Held(queue'[m]) \subseteq Held(queue[m])
        /\ Head(queue[n]) \in Held(queue[n]) /\ Head(queue[n]).kind = "create"
    BY <1>1, <1>4, Popped DEF C!RunCreate, C!Takes
  <2>2. coldPlace[n] \in {"none", "provisioning", "active"}
    BY <1>1, <1>2, <2>1 DEF NotRevived
  <2>3. PICK s \in {"none", "active"} : coldPlace' = [coldPlace EXCEPT ![n] = s] /\ (s = "none" <=> coldPlace[n] = "none")
    BY <1>2, <1>4 DEF C!RunCreate
  <2>4. /\ s \in {"none", "provisioning", "active", "deleting"}
        /\ s \in {"provisioning", "active"} /\ node[n].owner # None =>
              coldPlace[node[n].owner] \in {"provisioning", "active"}
    BY <1>1, <2>2, <2>3 DEF C!OwnerOutlivesClients
  <2>5. s \in {"none", "deleting"} =>
              \A m \in Nodes : node[m].owner = n => coldPlace[m] \notin {"provisioning", "active"}
    BY <1>1, <2>2, <2>3 DEF C!OwnerOutlivesClients
  <2>6. /\ coldPlace' \in [Nodes -> {"none", "provisioning", "active", "deleting"}]
        /\ coldPlace'[n] = s
        /\ \A m \in Nodes : m # n => coldPlace'[m] = coldPlace[m]
        /\ C!OwnerOutlivesClients'
    BY <1>1, <2>3, <2>4, <2>5, PlaceMoves
  <2>7. NotRevived'
    BY <1>1, <2>1, <2>3, <2>6 DEF NotRevived
  <2>8. /\ UNCHANGED <<members, log, cold, owed>> /\ up' \subseteq Nodes
    BY <1>2, <1>4 DEF C!RunCreate
  <2>9. \A m \in members' : m \in Nodes /\ coldPlace'[m] # "none"
    BY <1>2, <2>3, <2>6, <2>8
  <2>10. ColdTyped'
    BY <1>1, <2>1, <2>6, <2>8, <2>9 DEF ColdTyped
  <2> QED  BY <1>3, <2>6, <2>7, <2>10 DEF ColdMap
<1>5. CASE C!RunDestroy(n)
  <2>1. /\ queue' \in [Nodes -> Seq(ColdTasks)]
        /\ \A m \in Nodes : Held(queue'[m]) \subseteq Held(queue[m])
    BY <1>1, <1>5, Popped DEF C!RunDestroy, C!Takes
  <2>2. /\ UNCHANGED <<log, owed>> /\ up' \subseteq Nodes /\ cold' \subseteq Nodes
    BY <1>2, <1>5 DEF C!RunDestroy
  <2>3. CASE coldPlace[n] = "deleting"
    <3>1. coldPlace' = [coldPlace EXCEPT ![n] = "none"] /\ members' = members \ {n}
      BY <1>5, <2>3 DEF C!RunDestroy
    <3>2. \A m \in Nodes : node[m].owner = n => coldPlace[m] \notin {"provisioning", "active"}
      BY <1>1, <2>3, ColdAssumption DEF C!OwnerOutlivesClients
    <3>3. "none" \in {"none", "provisioning", "active", "deleting"} /\ "none" \notin {"provisioning", "active"}
      OBVIOUS
    <3>4. /\ coldPlace' \in [Nodes -> {"none", "provisioning", "active", "deleting"}]
          /\ coldPlace'[n] = "none"
          /\ \A m \in Nodes : m # n => coldPlace'[m] = coldPlace[m]
          /\ C!OwnerOutlivesClients'
      BY <1>1, <3>1, <3>2, <3>3, PlaceMoves
    <3>5. NotRevived'
      BY <1>1, <2>1, <3>4 DEF NotRevived
    <3>6. \A m \in members' : m \in Nodes /\ coldPlace'[m] # "none"
      BY <1>2, <3>1, <3>4
    <3>7. ColdTyped'
      BY <1>1, <2>1, <2>2, <3>4, <3>6 DEF ColdTyped
    <3> QED  BY <1>3, <3>4, <3>5, <3>7 DEF ColdMap
  <2>4. CASE coldPlace[n] # "deleting"
    <3>1. UNCHANGED <<coldPlace, members>>
      BY <1>5, <2>4 DEF C!RunDestroy
    <3>2. NotRevived' /\ C!OwnerOutlivesClients'
      BY <1>1, <2>1, <3>1 DEF NotRevived, C!OwnerOutlivesClients
    <3>3. ColdTyped'
      BY <1>1, <2>1, <2>2, <3>1 DEF ColdTyped
    <3> QED  BY <1>3, <3>2, <3>3 DEF ColdMap
  <2> QED  BY <2>3, <2>4
<1>6. ASSUME UNCHANGED <<coldPlace, members, up>>,
             queue' \in [Nodes -> Seq(ColdTasks)],
             \A m \in Nodes : \A x \in Held(queue'[m]) : x \in Held(queue[m]) \/ x.kind = "cold",
             log' \subseteq LogRows, cold' \subseteq Nodes, owed' \in [r : 0..MaxOps, nodes : SUBSET Nodes]
      PROVE  ColdMap'
  <2>1. NotRevived' /\ C!OwnerOutlivesClients'
    BY <1>1, <1>6 DEF NotRevived, C!OwnerOutlivesClients
  <2>2. ColdTyped'
    BY <1>1, <1>6 DEF ColdTyped
  <2> QED  BY <1>3, <2>1, <2>2 DEF ColdMap
<1>7. CASE C!RunAdd(n)
  <2>1. /\ queue' \in [Nodes -> Seq(ColdTasks)]
        /\ \A m \in Nodes : Held(queue'[m]) \subseteq Held(queue[m])
    BY <1>1, <1>7, Popped DEF C!RunAdd, C!Takes
  <2>2. UNCHANGED <<coldPlace, members, up, log, owed>> /\ cold' \subseteq cold \cup {C!Store(n)}
        /\ (cold' # cold => C!Store(n) # None)
    BY <1>7 DEF C!RunAdd, C!table
  <2>3. C!Store(n) \in Nodes \cup {None}
    BY <1>2 DEF C!Store, NodeRows
  <2>4. cold' \subseteq Nodes
    BY <1>2, <2>2, <2>3
  <2> QED  BY <1>2, <1>6, <2>1, <2>2, <2>4
<1>8. CASE C!RunCold(n)
  <2>1. /\ queue' \in [Nodes -> Seq(ColdTasks)]
        /\ \A m \in Nodes : Held(queue'[m]) \subseteq Held(queue[m])
    BY <1>1, <1>8, Popped DEF C!RunCold, C!Takes
  <2>2. UNCHANGED <<coldPlace, members, up>> /\ cold' \subseteq cold
    BY <1>8 DEF C!RunCold, C!table
  <2> DEFINE row == [node |-> n, kind |-> "cold", r |-> Head(queue[n]).r, state |-> "queued"]
  <2>3. row \in log => \A x \in {"ok", "failed"} : [row EXCEPT !.state = x] \in LogRows
    BY <1>2 DEF LogRows
  <2>4. log' = log \/ (row \in log /\ \E x \in {"ok", "failed"} : log' = (log \ {row}) \cup {[row EXCEPT !.state = x]})
    BY <1>8 DEF C!RunCold
  <2>5. log' \subseteq LogRows
    BY <1>2, <2>3, <2>4
  <2>6. owed' \in [r : 0..MaxOps, nodes : SUBSET Nodes]
    BY <1>2, <1>8 DEF C!RunCold, C!NoDebt
  <2>7. cold' \subseteq Nodes
    BY <1>2, <2>2
  <2> HIDE DEF row
  <2> QED  BY <1>6, <2>1, <2>2, <2>5, <2>6, <2>7
<1>9. CASE C!RunRemove(n)
  <2> DEFINE t == Head(queue[n])
             lg(st) == (log \ {RemovalRow(n, t.r, "queued")}) \cup {RemovalRow(n, t.r, st)}
             c == C!Task("cold", t.r, {})
  <2>1. /\ queue[n] # <<>> /\ t.kind = "remove" /\ t \in ColdTasks
        /\ \A m \in Nodes : Base(m, n) \in Seq(ColdTasks) /\ Held(Base(m, n)) \subseteq Held(queue[m])
        /\ c \in ColdTasks
    BY <1>1, <1>9, RemovalRun
  <2>2. PICK st \in {"ok", "failed"}, due \in SUBSET Nodes :
                 /\ IF RemovalRow(n, t.r, "queued") \notin log
                    THEN due = {} /\ log' = log /\ owed' = owed
                    ELSE /\ due = IF st = "ok" THEN C!CleanupDue(lg(st), t, n) ELSE {}
                         /\ log' = lg(st) \cup {[node |-> m, kind |-> "cold", r |-> t.r, state |-> "queued"] : m \in due}
                         /\ owed' = IF st = "ok" \/ t.r # owed.r THEN owed ELSE C!NoDebt
                 /\ queue' \in [Nodes -> Seq(ColdTasks)]
                 /\ \A m \in Nodes : queue'[m] = IF m \in due THEN Append(Base(m, n), c) ELSE Base(m, n)
    BY <1>1, <1>9, RemovalRun
  <2>3. UNCHANGED <<coldPlace, members, up, cold>>
    BY <1>9 DEF C!RunRemove, C!table, C!disk
  <2>4. c.kind = "cold"
    BY DEF C!Task
  <2> HIDE DEF c
  <2>5. \A m \in Nodes : Held(Append(Base(m, n), c)) = Held(Base(m, n)) \cup {c}
    BY <2>1, HeldAppended
  <2>6. \A m \in Nodes : \A x \in Held(queue'[m]) : x \in Held(queue[m]) \/ x.kind = "cold"
    BY <2>1, <2>2, <2>4, <2>5
  <2>7. log' \subseteq LogRows
    <3>1. CASE RemovalRow(n, t.r, "queued") \notin log
      BY <1>2, <2>2, <3>1
    <3>2. CASE RemovalRow(n, t.r, "queued") \in log
      <4>1. t.r \in 1..MaxOps
        BY <1>2, <3>2 DEF RemovalRow, LogRows
      <4>2. RemovalRow(n, t.r, st) \in LogRows
            /\ \A m \in due : [node |-> m, kind |-> "cold", r |-> t.r, state |-> "queued"] \in LogRows
        BY <4>1 DEF RemovalRow, LogRows
      <4> QED  BY <1>2, <2>2, <3>2, <4>2
    <3> QED  BY <3>1, <3>2
  <2>8. owed' \in [r : 0..MaxOps, nodes : SUBSET Nodes]
    BY <1>2, <2>2 DEF C!NoDebt
  <2>9. queue' \in [Nodes -> Seq(ColdTasks)]
    BY <2>2
  <2> HIDE DEF t
  <2> QED  BY <1>2, <1>6, <2>3, <2>6, <2>7, <2>8, <2>9
<1> QED  BY <1>4, <1>5, <1>7, <1>8, <1>9 DEF C!RunTask

ColdOwed == Issued /\ SentLast /\ Debts

\* What a step keeps that puts no cleanup into a queue and changes no row of a
\* removal but by deleting it.
LEMMA StillIssued ==
    ASSUME ColdInv, ops' \in {ops, ops + 1}, log' \subseteq log, owed'.r \in 0..ops,
           \A m \in Nodes : \A x \in Held(queue'[m]) :
              x \in Held(queue[m]) \/ (x.kind # "cold" /\ x.r \in 0..ops)
    PROVE  Issued' /\ SentLast'
<1>1. /\ ops \in Nat /\ \A t \in log : t.r \in Nat /\ t.r <= ops
      /\ \A m \in Nodes : \A x \in Held(queue[m]) : x.r \in Nat /\ x.r <= ops
  <2>1. /\ ops \in 0..MaxOps /\ log \subseteq LogRows
        /\ \A m \in Nodes : queue[m] \in Seq(ColdTasks)
    BY DEF ColdInv, ColdTyped
  <2>2. \A m \in Nodes : Held(queue[m]) \subseteq ColdTasks
    BY <2>1, HeldIn
  <2>3. (\A t \in log : t.r <= ops) /\ \A m \in Nodes : \A x \in Held(queue[m]) : x.r <= ops
    BY DEF ColdInv, Issued
  <2>4. (\A t \in LogRows : t.r \in Nat) /\ \A x \in ColdTasks : x.r \in Nat
    BY ColdAssumption DEF LogRows, ColdTasks
  <2> QED  BY <2>1, <2>2, <2>3, <2>4, ColdAssumption
<1>2. Issued'
  <2>1. \A t \in log' : t.r <= ops'
    BY <1>1
  <2>2. \A m \in Nodes : \A x \in Held(queue'[m]) : x.r <= ops'
    BY <1>1
  <2>3. owed'.r <= ops'
    BY <1>1
  <2> QED  BY <2>1, <2>2, <2>3 DEF Issued, Held
<1>3. \A r : AllOk(r) => AllOk(r)'
  BY DEF AllOk
<1>4. /\ \A n \in Nodes : \A x \in Held(queue[n]) : x.kind = "cold" => AllOk(x.r)
      /\ \A x \in log : x.kind = "cold" => AllOk(x.r)
  BY DEF ColdInv, SentLast
<1>5. /\ \A n \in Nodes : \A x \in Held(queue'[n]) : x.kind = "cold" => AllOk(x.r)'
      /\ \A x \in log' : x.kind = "cold" => AllOk(x.r)'
  BY <1>3, <1>4
<1>6. SentLast'
  BY <1>5 DEF SentLast, Held, AllOk
<1> QED  BY <1>2, <1>6

\* A debt that is settled, or forgiven.
LEMMA NothingOwed ==
    ASSUME owed' = C!NoDebt \/ (owed'.r = 0 /\ owed'.nodes = {})
    PROVE  Debts'
  BY DEF Debts, C!NoDebt

\* A step that neither answers a removal nor fills a cold storage.
LEMMA StillOwed ==
    ASSUME Debts, owed.nodes \subseteq Nodes, owed' = owed, enrolled' = enrolled, log' = log, cold' \subseteq cold,
           owed.r # 0 => \A n \in Nodes :
              /\ InQueue(queue'[n], owed.r, owed.nodes)
              /\ HasRemoval(queue'[n], owed.r) <=> HasRemoval(queue[n], owed.r)
              /\ n \in cold' /\ HasCold(queue[n], owed.r) => HasCold(queue'[n], owed.r)
    PROVE  Debts'
<1> SUFFICES ASSUME owed.r # 0
             PROVE  Debts'
  BY DEF Debts
<1>1. /\ ~enrolled
      /\ \A n \in Nodes : RemovalRow(n, owed.r, "failed") \notin log
      /\ \A n \in Nodes : RemovalRow(n, owed.r, "queued") \in log <=> HasRemoval(queue[n], owed.r)
      /\ AllOk(owed.r) => \A m \in owed.nodes \cap cold : HasCold(queue[m], owed.r)
  BY DEF Debts
<1>3. AllOk(owed.r)' <=> AllOk(owed.r)
  BY DEF AllOk
<1>4. /\ ~enrolled'
      /\ \A n \in Nodes : RemovalRow(n, owed.r, "failed") \notin log'
      /\ \A n \in Nodes : InQueue(queue'[n], owed.r, owed.nodes)
      /\ \A n \in Nodes : RemovalRow(n, owed.r, "queued") \in log' <=> HasRemoval(queue'[n], owed.r)
      /\ AllOk(owed.r)' => \A m \in owed.nodes \cap cold' : HasCold(queue'[m], owed.r)
  BY <1>1, <1>3
<1> QED  BY <1>4 DEF Debts, InQueue, HasRemoval, HasCold, RemovalRow, Removal, AllOk

\* What admins and the hub do to nodes.
LEMMA OwedByNodes ==
    ASSUME ColdInv, NEW n \in Nodes,
           \/ C!ProvisionNode(n)
           \/ \E b, c \in BOOLEAN : C!Reports(n, b, c)
           \/ C!SetNodeColdStorage(n, "local_zfs", None)
           \/ \E o \in Nodes : C!SetNodeColdStorage(n, "smb", o)
           \/ \E force \in BOOLEAN : C!DeleteNode(n, force)
    PROVE  ColdOwed'
<1>1. ops \in Nat /\ owed.r \in 0..ops /\ Debts
  BY ColdAssumption DEF ColdInv, Issued, ColdTyped
<1>2. CASE \E force \in BOOLEAN : C!DeleteNode(n, force)
  <2>1. /\ queue' = queue /\ ops' = ops /\ log' \subseteq log /\ owed' = C!NoDebt
        /\ owed'.r \in 0..ops
    <3>1. /\ queue' = queue /\ ops' = ops /\ log' \subseteq log /\ owed' = C!NoDebt
      BY <1>2 DEF C!DeleteNode, C!disk
    <3> QED  BY <1>1, <3>1 DEF C!NoDebt
  <2> QED  BY <2>1, StillIssued, NothingOwed DEF ColdOwed
<1>3. CASE UNCHANGED <<queue, ops, log, owed, enrolled, cold>>
  <2>1. Issued' /\ SentLast'
    BY <1>1, <1>3, StillIssued
  <2>2. Debts'
    BY <1>1, <1>3 DEF Debts, AllOk, RemovalRow, InQueue, HasRemoval, HasCold, Removal
  <2> QED  BY <2>1, <2>2 DEF ColdOwed
<1>4. C!ProvisionNode(n) => UNCHANGED <<queue, ops, log, owed, enrolled, cold>>
  BY DEF C!ProvisionNode, C!disk
<1>5. (\E b, c \in BOOLEAN : C!Reports(n, b, c)) => UNCHANGED <<queue, ops, log, owed, enrolled, cold>>
  BY DEF C!Reports, C!disk
<1>6. \A k, o : C!SetNodeColdStorage(n, k, o) => UNCHANGED <<queue, ops, log, owed, enrolled, cold>>
  BY DEF C!SetNodeColdStorage, C!disk
<1> QED  BY <1>2, <1>3, <1>4, <1>5, <1>6

\* Placements come and go: while a removal is owed nobody is enrolled, so that a
\* new placement is sent no account.
LEMMA OwedByPlacements ==
    ASSUME ColdInv, NEW n \in Nodes,
           C!CreatePlacement(n) \/ C!DestroyPlacement(n) \/ C!ForceDeletePlacement(n)
    PROVE  ColdOwed'
<1>1. ops \in Nat /\ owed.r \in 0..ops /\ Debts /\ ColdTyped /\ owed.nodes \subseteq Nodes
      /\ \A m \in Nodes : queue[m] \in Seq(ColdTasks)
  BY ColdAssumption DEF ColdInv, Issued, ColdTyped
<1>2. /\ UNCHANGED <<enrolled, log, cold, owed>> /\ ops' = ops + 1 /\ owed'.r \in 0..ops
  BY <1>1 DEF C!CreatePlacement, C!DestroyPlacement, C!ForceDeletePlacement, C!Begin, C!disk
<1>3. \A k : C!Plain(k).r = 0 /\ C!Plain(k).kind = k
  BY DEF C!Plain, C!Task
<1>4. owed.r # 0 => ~enrolled /\ \A m \in Nodes : InQueue(queue[m], owed.r, owed.nodes)
  BY <1>1 DEF Debts
<1>5. \A k : k # "remove" => ~Removal(C!Plain(k), owed.r)
  BY <1>3 DEF Removal
<1>6. CASE C!CreatePlacement(n)
  <2>1. /\ C!Plain("create") \in ColdTasks
        /\ \A m \in Nodes : Held(queue'[m]) \subseteq Held(queue[m]) \cup {C!Plain("create"), C!Plain("add")}
        /\ \A m \in Nodes : m # n => queue'[m] = queue[m]
        /\ ~enrolled => queue'[n] = Append(queue[n], C!Plain("create"))
    BY <1>1, <1>6, PlacementSent
  <2>2. \A m \in Nodes : \A x \in Held(queue'[m]) :
           x \in Held(queue[m]) \/ (x.kind # "cold" /\ x.r \in 0..ops)
    BY <1>1, <1>3, <2>1
  <2>3. Issued' /\ SentLast'
    BY <1>2, <2>2, StillIssued
  <2>4. ~Removal(C!Plain("create"), owed.r) /\ C!Plain("create").kind # "add"
    BY <1>3, <1>5
  <2>5. ASSUME owed.r # 0, NEW m \in Nodes
        PROVE  /\ InQueue(queue'[m], owed.r, owed.nodes)
               /\ HasRemoval(queue'[m], owed.r) <=> HasRemoval(queue[m], owed.r)
               /\ HasCold(queue[m], owed.r) => HasCold(queue'[m], owed.r)
    <3>1. CASE m # n
      BY <1>4, <2>1, <2>5, <3>1
    <3>2. CASE m = n
      <4>1. queue'[m] = Append(queue[m], C!Plain("create")) /\ InQueue(queue[m], owed.r, owed.nodes)
        BY <1>4, <2>1, <2>5, <3>2
      <4> QED  BY <1>1, <2>1, <2>4, <4>1, QueueGrows
    <3> QED  BY <3>1, <3>2
  <2>6. Debts'
    BY <1>1, <1>2, <2>5, StillOwed
  <2> QED  BY <2>3, <2>6 DEF ColdOwed
<1>7. CASE C!DestroyPlacement(n) \/ C!ForceDeletePlacement(n)
  <2>0. C!Plain("destroy") \in ColdTasks
    BY ColdAssumption DEF C!Plain, C!Task, ColdTasks
  <2>1. C!Enqueue({n}, C!Plain("destroy"))
    BY <1>7 DEF C!DestroyPlacement, C!ForceDeletePlacement
  <2>2. \A m \in Nodes : /\ Held(queue'[m]) \subseteq Held(queue[m]) \cup {C!Plain("destroy")}
                         /\ m \in {n} => queue'[m] = Append(queue[m], C!Plain("destroy"))
                         /\ m \notin {n} => queue'[m] = queue[m]
    <3> DEFINE X == {n}
               t == C!Plain("destroy")
    <3>1. ColdTyped /\ C!Enqueue(X, t) /\ t \in ColdTasks
      BY <1>1, <2>0, <2>1
    <3> HIDE DEF X, t
    <3>2. \A m \in Nodes : /\ Held(queue'[m]) \subseteq Held(queue[m]) \cup {t}
                           /\ m \in X => queue'[m] = Append(queue[m], t)
                           /\ m \notin X => queue'[m] = queue[m]
      BY <3>1, Enqueued
    <3> QED  BY <3>2 DEF X, t
  <2>3. \A m \in Nodes : \A x \in Held(queue'[m]) :
           x \in Held(queue[m]) \/ (x.kind # "cold" /\ x.r \in 0..ops)
    <3> DEFINE t == C!Plain("destroy")
    <3>1. t.kind # "cold" /\ t.r \in 0..ops
      BY <1>1, <1>3
    <3> HIDE DEF t
    <3>2. \A m \in Nodes : Held(queue'[m]) \subseteq Held(queue[m]) \cup {t}
      BY <2>2 DEF t
    <3> QED  BY <3>1, <3>2
  <2>4. Issued' /\ SentLast'
    BY <1>2, <2>3, StillIssued
  <2>5. ~Removal(C!Plain("destroy"), owed.r) /\ C!Plain("destroy").kind # "add"
    BY <1>3, <1>5
  <2>6. ASSUME owed.r # 0, NEW m \in Nodes
        PROVE  /\ InQueue(queue'[m], owed.r, owed.nodes)
               /\ HasRemoval(queue'[m], owed.r) <=> HasRemoval(queue[m], owed.r)
               /\ HasCold(queue[m], owed.r) => HasCold(queue'[m], owed.r)
    <3>1. CASE m \notin {n}
      BY <1>4, <2>2, <2>6, <3>1
    <3>2. CASE m \in {n}
      <4>1. queue'[m] = Append(queue[m], C!Plain("destroy")) /\ InQueue(queue[m], owed.r, owed.nodes)
        BY <1>4, <2>2, <2>6, <3>2
      <4> QED  BY <1>1, <2>0, <2>5, <4>1, QueueGrows
    <3> QED  BY <3>1, <3>2
  <2>7. Debts'
    BY <1>1, <1>2, <2>6, StillOwed
  <2> QED  BY <2>4, <2>7 DEF ColdOwed
<1> QED  BY <1>6, <1>7

\* The student joins the lab: what a removal owed is void.
LEMMA OwedByAdding ==
    ASSUME ColdInv, C!AddStudent
    PROVE  ColdOwed'
<1>1. ops \in Nat /\ ColdTyped
  BY ColdAssumption DEF ColdInv, ColdTyped
<1>2. ops' = ops + 1 /\ log' = log /\ owed' = C!NoDebt /\ owed'.r \in 0..ops /\ C!Enqueue(C!Placed, C!Plain("add"))
  BY <1>1 DEF C!AddStudent, C!Begin, C!NoDebt
<1>3. C!Plain("add") \in ColdTasks /\ C!Plain("add").kind = "add" /\ C!Plain("add").r = 0
  BY ColdAssumption DEF C!Plain, C!Task, ColdTasks
<1>4. \A m \in Nodes : Held(queue'[m]) \subseteq Held(queue[m]) \cup {C!Plain("add")}
  BY <1>1, <1>2, <1>3, Enqueued
<1>5. \A m \in Nodes : \A x \in Held(queue'[m]) :
         x \in Held(queue[m]) \/ (x.kind # "cold" /\ x.r \in 0..ops)
  BY <1>1, <1>3, <1>4
<1>6. ops' \in {ops, ops + 1} /\ log' \subseteq log
  BY <1>2
<1>7. Issued' /\ SentLast'
  BY <1>2, <1>5, <1>6, StillIssued
<1>8. Debts'
  BY <1>2, NothingOwed
<1> QED  BY <1>7, <1>8 DEF ColdOwed

\* Removal ids are numbers, and no more than the counter.
LEMMA IssuedBefore ==
    ASSUME ColdInv
    PROVE  /\ ops \in Nat /\ owed.r \in 0..ops
           /\ \A t \in log : t.r \in Nat /\ t.r <= ops
           /\ \A m \in Nodes : \A x \in Held(queue[m]) : x.r \in Nat /\ x.r <= ops
<1>1. /\ ops \in 0..MaxOps /\ log \subseteq LogRows /\ owed.r \in 0..MaxOps
      /\ \A m \in Nodes : queue[m] \in Seq(ColdTasks)
  BY DEF ColdInv, ColdTyped
<1>2. \A m \in Nodes : Held(queue[m]) \subseteq ColdTasks
  BY <1>1, HeldIn
<1>3. /\ \A t \in log : t.r <= ops
      /\ \A m \in Nodes : \A x \in Held(queue[m]) : x.r <= ops
      /\ owed.r <= ops
  BY DEF ColdInv, Issued
<1>4. (\A t \in LogRows : t.r \in Nat) /\ \A x \in ColdTasks : x.r \in Nat
  BY ColdAssumption DEF LogRows, ColdTasks
<1>5. ops \in Nat /\ owed.r \in 0..ops
  BY <1>1, <1>3, ColdAssumption
<1> QED  BY <1>1, <1>2, <1>3, <1>4, <1>5

\* A debt after a step.
LEMMA OwedNow ==
    ASSUME NEW r, NEW nodes, owed'.r = r, owed'.nodes = nodes, r # 0, ~enrolled',
           \A n \in Nodes : RemovalRow(n, r, "failed") \notin log',
           \A n \in Nodes : InQueue(queue'[n], r, nodes),
           \A n \in Nodes : RemovalRow(n, r, "queued") \in log' <=> HasRemoval(queue'[n], r),
           (\A t \in log' : t.kind = "remove" /\ t.r = r => t.state = "ok") =>
              \A m \in nodes \cap cold' : HasCold(queue'[m], r)
    PROVE  Debts'
BY DEF Debts, InQueue, HasRemoval, HasCold, RemovalRow, Removal, AllOk

\* The student leaves the lab.  With data, the removal gets an id of its own, and
\* one task on every placement, which comes last.
LEMMA OwedByRemoving ==
    ASSUME ColdInv, NEW d \in BOOLEAN, C!RemoveStudent(d)
    PROVE  ColdOwed'
<1>1. /\ ops \in Nat /\ owed.r \in 0..ops
      /\ \A u \in log : u.r \in Nat /\ u.r <= ops
      /\ \A m \in Nodes : \A x \in Held(queue[m]) : x.r \in Nat /\ x.r <= ops
  BY IssuedBefore
<1>2. /\ ColdTyped /\ log \subseteq LogRows /\ ops < MaxOps /\ MaxOps \in Nat
      /\ \A m \in Nodes : queue[m] \in Seq(ColdTasks)
  BY ColdAssumption DEF ColdInv, ColdTyped, C!RemoveStudent, C!Begin
<1>3. ops' = ops + 1 /\ enrolled' = FALSE /\ cold' = cold
  BY DEF C!RemoveStudent, C!Begin, C!disk
<1>4. CASE ~d
  <2> DEFINE t == C!Task("remove", 0, {})
  <2>1. /\ C!Enqueue(C!Placed, t) /\ log' = log
        /\ owed' = C!NoDebt \/ owed' = [r |-> 0, nodes |-> {}]
    BY <1>4 DEF C!RemoveStudent, C!Task
  <2>2. t \in ColdTasks /\ t.kind = "remove" /\ t.r = 0
    BY ColdAssumption DEF C!Task, ColdTasks
  <2> HIDE DEF t
  <2>3. \A m \in Nodes : Held(queue'[m]) \subseteq Held(queue[m]) \cup {t}
    BY <1>2, <2>1, <2>2, Enqueued
  <2>4. \A m \in Nodes : \A x \in Held(queue'[m]) :
           x \in Held(queue[m]) \/ (x.kind # "cold" /\ x.r \in 0..ops)
    BY <1>1, <2>2, <2>3
  <2>5. ops' \in {ops, ops + 1} /\ log' \subseteq log /\ owed'.r \in 0..ops
    BY <1>1, <1>3, <2>1 DEF C!NoDebt
  <2>6. Issued' /\ SentLast'
    BY <2>4, <2>5, StillIssued
  <2>7. Debts'
    BY <2>1, NothingOwed
  <2> QED  BY <2>6, <2>7 DEF ColdOwed
<1>5. CASE d
  <2> DEFINE r == ops + 1
             X == C!Placed
             nodes == {n \in X : C!Local(n)}
             t == C!Task("remove", r, nodes)
  <2>1. /\ C!Enqueue(X, t)
        /\ log' = log \cup {RemovalRow(n, r, "queued") : n \in X}
        /\ \/ owed' = C!NoDebt
           \/ owed' = [r |-> r, nodes |-> nodes] /\ \A n \in Nodes \ X : queue[n] = <<>>
    BY <1>5 DEF C!RemoveStudent, C!Task, RemovalRow
  <2>2. X \subseteq Nodes /\ nodes \subseteq X
    BY DEF C!Placed
  <2>3. r \in 0..MaxOps /\ r = ops + 1 /\ ops' = r /\ r # 0 /\ r \in Nat
    BY <1>1, <1>2, <1>3
  <2> HIDE DEF r, X, nodes
  <2>4. t \in ColdTasks /\ t.kind = "remove" /\ t.r = r /\ t.cleanup = nodes
    BY <2>2, <2>3 DEF C!Task, ColdTasks
  <2> HIDE DEF t
  <2>5. \A m \in Nodes : /\ Held(queue'[m]) \subseteq Held(queue[m]) \cup {t}
                         /\ m \in X => queue'[m] = Append(queue[m], t)
                         /\ m \notin X => queue'[m] = queue[m]
    BY <1>2, <2>1, <2>4, Enqueued
  <2>6. /\ \A n, st : RemovalRow(n, r, st).kind = "remove" /\ RemovalRow(n, r, st).r = r
                      /\ RemovalRow(n, r, st).state = st /\ RemovalRow(n, r, st).node = n
    BY DEF RemovalRow
  <2>7. Issued'
    <3>1. \A u \in log' : u.r <= ops'
      BY <1>1, <2>1, <2>3, <2>6
    <3>2. \A m \in Nodes : \A x \in Held(queue'[m]) : x.r <= ops'
      BY <1>1, <2>3, <2>4, <2>5
    <3>3. owed'.r <= ops'
      BY <2>1, <2>3 DEF C!NoDebt
    <3> QED  BY <3>1, <3>2, <3>3 DEF Issued, Held
  <2>8. \A k : k # r => (AllOk(k) => AllOk(k)')
    BY <2>1, <2>6 DEF AllOk
  <2>9. SentLast'
    <3>1. /\ \A n \in Nodes : \A x \in Held(queue[n]) : x.kind = "cold" => AllOk(x.r)
          /\ \A x \in log : x.kind = "cold" => AllOk(x.r)
      BY DEF ColdInv, SentLast
    <3>2. ASSUME NEW m \in Nodes, NEW x \in Held(queue'[m]), x.kind = "cold"
          PROVE  AllOk(x.r)'
      <4>1. x \in Held(queue[m])
        BY <2>4, <2>5, <3>2
      <4>2. x.r # r
        BY <1>1, <2>3, <4>1
      <4> QED  BY <2>8, <3>1, <3>2, <4>1, <4>2
    <3>3. ASSUME NEW x \in log', x.kind = "cold"
          PROVE  AllOk(x.r)'
      <4>1. x \in log
        BY <2>1, <2>6, <3>3
      <4>2. x.r # r
        BY <1>1, <2>3, <4>1
      <4> QED  BY <2>8, <3>1, <3>3, <4>1, <4>2
    <3> QED  BY <3>2, <3>3 DEF SentLast, Held, AllOk
  <2>10. CASE owed' = C!NoDebt
    BY <2>7, <2>9, <2>10, NothingOwed DEF ColdOwed
  <2>11. CASE owed' = [r |-> r, nodes |-> nodes] /\ \A n \in Nodes \ X : queue[n] = <<>>
    <3>1. \A m \in Nodes : ~HasRemoval(queue[m], r)
      BY <1>1, <2>3 DEF HasRemoval, Removal, Held
    <3>2. \A m \in X : InQueue(queue'[m], r, nodes) /\ HasRemoval(queue'[m], r)
      <4>1. Removal(t, r)
        BY <2>4 DEF Removal
      <4>2. \A m \in X : InQueue(Append(queue[m], t), r, t.cleanup) /\ HasRemoval(Append(queue[m], t), r)
        BY <1>2, <2>2, <2>4, <3>1, <4>1, RemovalSent
      <4> QED  BY <2>2, <2>4, <2>5, <4>2
    <3>3. \A m \in Nodes \ X : InQueue(queue'[m], r, nodes) /\ ~HasRemoval(queue'[m], r)
      BY <2>5, <2>11, QueueEmpty
    <3>4. \A m \in Nodes : RemovalRow(m, r, "queued") \in log' <=> m \in X
      BY <1>1, <2>1, <2>3, <2>6
    <3>5. \A m \in Nodes : RemovalRow(m, r, "failed") \notin log'
      BY <1>1, <2>1, <2>3, <2>6
    <3>6. (\A u \in log' : u.kind = "remove" /\ u.r = r => u.state = "ok") => nodes = {}
      BY <2>2, <2>6, <3>4
    <3>7. owed'.r = r /\ owed'.nodes = nodes /\ ~enrolled'
      BY <1>3, <2>11
    <3>8. Debts'
      BY <2>3, <3>2, <3>3, <3>4, <3>5, <3>6, <3>7, OwedNow
    <3> QED  BY <2>7, <2>9, <3>8 DEF ColdOwed
  <2> QED  BY <2>1, <2>10, <2>11
<1> QED  BY <1>4, <1>5

\* A task is run that is no removal's: a cleanup cleans its node, and no account is
\* made where all removals have succeeded.
LEMMA OwedByTasks ==
    ASSUME ColdInv, NEW n \in Nodes, C!RunCreate(n) \/ C!RunDestroy(n) \/ C!RunAdd(n) \/ C!RunCold(n)
    PROVE  ColdOwed'
<1> DEFINE t == Head(queue[n])
<1>1. /\ ops \in Nat /\ owed.r \in 0..ops
      /\ \A u \in log : u.r \in Nat /\ u.r <= ops
      /\ \A m \in Nodes : \A x \in Held(queue[m]) : x.r \in Nat /\ x.r <= ops
  BY IssuedBefore
<1>2. /\ ColdTyped /\ log \subseteq LogRows /\ cold \subseteq Nodes /\ owed.nodes \subseteq Nodes /\ Debts
      /\ \A m \in Nodes : queue[m] \in Seq(ColdTasks)
  BY DEF ColdInv, ColdTyped
<1>3. /\ ops' = ops /\ enrolled' = enrolled /\ C!Pop(n) /\ queue[n] # <<>>
      /\ t.kind \in {"create", "destroy", "add", "cold"}
  BY DEF C!RunCreate, C!RunDestroy, C!RunAdd, C!RunCold, C!Takes, C!table
<1>4. /\ \A m \in Nodes : /\ Held(queue'[m]) \subseteq Held(queue[m])
                          /\ m # n => queue'[m] = queue[m]
      /\ queue'[n] = Tail(queue[n]) /\ t \in Held(queue[n])
  BY <1>2, <1>3, Popped
<1>5. ~Removal(t, owed.r)
  BY <1>3 DEF Removal
<1> HIDE DEF t
<1>6. owed.r # 0 =>
         /\ ~enrolled
         /\ \A m \in Nodes : RemovalRow(m, owed.r, "failed") \notin log
         /\ \A m \in Nodes : InQueue(queue[m], owed.r, owed.nodes)
         /\ \A m \in Nodes : RemovalRow(m, owed.r, "queued") \in log <=> HasRemoval(queue[m], owed.r)
         /\ AllOk(owed.r) => \A m \in owed.nodes \cap cold : HasCold(queue[m], owed.r)
  BY <1>2 DEF Debts
<1>7. ASSUME owed.r # 0
      PROVE  /\ InQueue(queue'[n], owed.r, owed.nodes)
             /\ HasRemoval(queue'[n], owed.r) <=> HasRemoval(queue[n], owed.r)
             /\ ~(t.kind = "cold" /\ t.r = owed.r) /\ HasCold(queue[n], owed.r) => HasCold(queue'[n], owed.r)
             /\ t.kind = "add" => HasRemoval(queue[n], owed.r)
  <2>1. InQueue(queue[n], owed.r, owed.nodes) /\ queue[n] \in Seq(ColdTasks)
    BY <1>2, <1>6, <1>7
  <2> QED  BY <1>3, <1>4, <1>5, <2>1, QueueShrinks DEF t
<1>8. \A m \in Nodes : owed.r # 0 =>
         /\ InQueue(queue'[m], owed.r, owed.nodes)
         /\ HasRemoval(queue'[m], owed.r) <=> HasRemoval(queue[m], owed.r)
         /\ (m = n => ~(t.kind = "cold" /\ t.r = owed.r)) /\ HasCold(queue[m], owed.r) => HasCold(queue'[m], owed.r)
  BY <1>4, <1>6, <1>7
<1>9. ASSUME log' = log, owed' = owed
      PROVE  Issued' /\ SentLast'
  BY <1>1, <1>3, <1>4, <1>9, StillIssued
<1>10. CASE C!RunCreate(n) \/ C!RunDestroy(n)
  <2>1. log' = log /\ owed' = owed /\ cold' \subseteq cold /\ t.kind # "cold"
    BY <1>10 DEF C!RunCreate, C!RunDestroy, C!Takes, t
  <2>2. Debts'
    BY <1>2, <1>3, <1>8, <2>1, StillOwed
  <2> QED  BY <1>9, <2>1, <2>2 DEF ColdOwed
<1>11. CASE C!RunAdd(n)
  <2>1. log' = log /\ owed' = owed /\ t.kind = "add"
    BY <1>11 DEF C!RunAdd, C!Takes, t
  <2>2. CASE owed.r = 0
    BY <1>2, <1>9, <2>1, <2>2, NothingOwed DEF Debts, ColdOwed
  <2>3. CASE owed.r # 0
    <3>1. RemovalRow(n, owed.r, "queued") \in log'
      BY <1>6, <1>7, <2>1, <2>3
    <3>2. ~(\A u \in log' : u.kind = "remove" /\ u.r = owed.r => u.state = "ok")
      BY <3>1 DEF RemovalRow
    <3>3. /\ \A m \in Nodes : RemovalRow(m, owed.r, "failed") \notin log'
          /\ \A m \in Nodes : InQueue(queue'[m], owed.r, owed.nodes)
          /\ \A m \in Nodes : RemovalRow(m, owed.r, "queued") \in log' <=> HasRemoval(queue'[m], owed.r)
          /\ ~enrolled' /\ owed'.r = owed.r /\ owed'.nodes = owed.nodes
      BY <1>3, <1>6, <1>8, <2>1, <2>3
    <3>4. Debts'
      BY <2>3, <3>2, <3>3, OwedNow
    <3> QED  BY <1>9, <2>1, <3>4 DEF ColdOwed
  <2> QED  BY <2>2, <2>3
<1>12. CASE C!RunCold(n)
  <2> DEFINE row == [node |-> n, kind |-> "cold", r |-> t.r, state |-> "queued"]
  <2>1. /\ t.kind = "cold"
        /\ cold' = IF C!Local(n) THEN cold \ {n} ELSE cold
        /\ owed' = IF C!Local(n) \/ t.r # owed.r THEN owed ELSE C!NoDebt
    BY <1>12 DEF C!RunCold, C!Takes, t
  <2>2. \A x : [row EXCEPT !.state = x] = [node |-> n, kind |-> "cold", r |-> t.r, state |-> x]
    OBVIOUS
  <2>3. \/ log' = log
        \/ row \in log /\ \E x : log' = (log \ {row}) \cup {[node |-> n, kind |-> "cold", r |-> t.r, state |-> x]}
    BY <1>12, <2>2 DEF C!RunCold, t
  <2>4. /\ \A u \in log' : u \in log \/ (u.kind = "cold" /\ \E v \in log : v.kind = "cold" /\ u.r = v.r)
        /\ \A u \in log : u.kind = "remove" => u \in log'
    BY <2>3
  <2> HIDE DEF row
  <2>5. \A u : u.kind = "remove" => (u \in log' <=> u \in log)
    BY <2>4
  <2>6. \A k : AllOk(k) <=> AllOk(k)'
    BY <2>4 DEF AllOk
  <2>7. Issued'
    <3>1. \A u \in log' : u.r <= ops'
      BY <1>1, <1>3, <2>4
    <3>2. \A m \in Nodes : \A x \in Held(queue'[m]) : x.r <= ops'
      BY <1>1, <1>3, <1>4
    <3>3. owed'.r <= ops'
      BY <1>1, <1>3, <2>1 DEF C!NoDebt
    <3> QED  BY <3>1, <3>2, <3>3 DEF Issued, Held
  <2>8. SentLast'
    <3>1. /\ \A m \in Nodes : \A x \in Held(queue[m]) : x.kind = "cold" => AllOk(x.r)
          /\ \A x \in log : x.kind = "cold" => AllOk(x.r)
      BY DEF ColdInv, SentLast
    <3>2. \A m \in Nodes : \A x \in Held(queue'[m]) : x.kind = "cold" => AllOk(x.r)'
      BY <1>4, <2>6, <3>1
    <3>3. \A x \in log' : x.kind = "cold" => AllOk(x.r)'
      BY <2>4, <2>6, <3>1
    <3> QED  BY <3>2, <3>3 DEF SentLast, Held, AllOk
  <2>9. CASE owed' = C!NoDebt \/ owed.r = 0
    <3>1. owed' = C!NoDebt \/ (owed'.r = 0 /\ owed'.nodes = {})
      BY <1>2, <2>1, <2>9 DEF Debts
    <3> QED  BY <2>7, <2>8, <3>1, NothingOwed DEF ColdOwed
  <2>10. CASE owed' = owed /\ (C!Local(n) \/ t.r # owed.r) /\ owed.r # 0
    <3>1. /\ \A m \in Nodes : RemovalRow(m, owed.r, "failed") \notin log'
          /\ \A m \in Nodes : RemovalRow(m, owed.r, "queued") \in log' <=> HasRemoval(queue'[m], owed.r)
      BY <1>6, <1>8, <2>5, <2>10 DEF RemovalRow
    <3>2. (\A u \in log' : u.kind = "remove" /\ u.r = owed.r => u.state = "ok") => AllOk(owed.r)
      BY <2>4 DEF AllOk
    <3>3. AllOk(owed.r) => \A m \in owed.nodes \cap cold' : HasCold(queue'[m], owed.r)
      BY <1>2, <1>6, <1>8, <2>1, <2>10
    <3>4. ~enrolled' /\ owed'.r = owed.r /\ owed'.nodes = owed.nodes
          /\ \A m \in Nodes : InQueue(queue'[m], owed.r, owed.nodes)
      BY <1>3, <1>6, <1>8, <2>10
    <3>5. Debts'
      BY <2>10, <3>1, <3>2, <3>3, <3>4, OwedNow
    <3> QED  BY <2>7, <2>8, <3>5 DEF ColdOwed
  <2> QED  BY <2>1, <2>9, <2>10
<1> QED  BY <1>10, <1>11, <1>12

\* A node answers its task of a removal.  As long as the task's row was queued no
\* cleanup of the removal had been sent, so that the last answer sends all of it.
LEMMA OwedByAnswer ==
    ASSUME ColdInv, NEW n \in Nodes, C!RunRemove(n)
    PROVE  ColdOwed'
<1> DEFINE t == Head(queue[n])
           lg(st) == (log \ {RemovalRow(n, t.r, "queued")}) \cup {RemovalRow(n, t.r, st)}
           c == C!Task("cold", t.r, {})
           OkNow(k) == \A u \in log' : u.kind = "remove" /\ u.r = k => u.state = "ok"
           Sent(m) == [node |-> m, kind |-> "cold", r |-> t.r, state |-> "queued"]
<1>1. /\ ops \in Nat /\ owed.r \in 0..ops
      /\ \A u \in log : u.r \in Nat /\ u.r <= ops
      /\ \A m \in Nodes : \A x \in Held(queue[m]) : x.r \in Nat /\ x.r <= ops
  BY IssuedBefore
<1>2. /\ ColdTyped /\ log \subseteq LogRows /\ cold \subseteq Nodes /\ owed.nodes \subseteq Nodes /\ Debts
      /\ \A m \in Nodes : queue[m] \in Seq(ColdTasks)
  BY DEF ColdInv, ColdTyped
<1>3. /\ queue[n] # <<>> /\ t.kind = "remove" /\ t \in ColdTasks /\ t \in Held(queue[n])
      /\ \A m \in Nodes : Base(m, n) \in Seq(ColdTasks) /\ Held(Base(m, n)) \subseteq Held(queue[m])
      /\ c \in ColdTasks
  BY <1>2, RemovalRun
<1>4. PICK st \in {"ok", "failed"}, due \in SUBSET Nodes :
                 /\ IF RemovalRow(n, t.r, "queued") \notin log
                    THEN due = {} /\ log' = log /\ owed' = owed
                    ELSE /\ due = IF st = "ok" THEN C!CleanupDue(lg(st), t, n) ELSE {}
                         /\ log' = lg(st) \cup {Sent(m) : m \in due}
                         /\ owed' = IF st = "ok" \/ t.r # owed.r THEN owed ELSE C!NoDebt
                 /\ \A m \in Nodes : queue'[m] = IF m \in due THEN Append(Base(m, n), c) ELSE Base(m, n)
  BY <1>2, RemovalRun
<1>5. ops' = ops /\ enrolled' = enrolled /\ cold' = cold
  BY DEF C!RunRemove, C!table, C!disk
<1>6. c.kind = "cold" /\ c.r = t.r
  BY DEF C!Task
<1>7. /\ \A u \in log : u.kind = "cold" => AllOk(u.r)
      /\ \A m \in Nodes : \A x \in Held(queue[m]) : x.kind = "cold" => AllOk(x.r)
  BY DEF ColdInv, SentLast
<1> HIDE DEF c
<1>8. \A m \in Nodes : Held(Append(Base(m, n), c)) = Held(Base(m, n)) \cup {c}
  BY <1>3, HeldAppended
<1>9. \A m \in Nodes : Held(queue'[m]) \subseteq Held(queue[m]) \cup (IF m \in due THEN {c} ELSE {})
  BY <1>3, <1>4, <1>8
<1>10. owed.r # 0 =>
         /\ ~enrolled
         /\ \A m \in Nodes : RemovalRow(m, owed.r, "failed") \notin log
         /\ \A m \in Nodes : InQueue(queue[m], owed.r, owed.nodes)
         /\ \A m \in Nodes : RemovalRow(m, owed.r, "queued") \in log <=> HasRemoval(queue[m], owed.r)
         /\ AllOk(owed.r) => \A m \in owed.nodes \cap cold : HasCold(queue[m], owed.r)
  BY <1>2 DEF Debts
\* The queues without the cleanup, then with it.
<1>11. ASSUME owed.r # 0, NEW m \in Nodes
       PROVE  /\ InQueue(Base(m, n), owed.r, owed.nodes)
              /\ m # n \/ t.r # owed.r => (HasRemoval(Base(m, n), owed.r) <=> HasRemoval(queue[m], owed.r))
              /\ m = n /\ t.r = owed.r => ~HasRemoval(Base(m, n), owed.r) /\ t.cleanup = owed.nodes
              /\ HasCold(queue[m], owed.r) => HasCold(Base(m, n), owed.r)
  <2>1. InQueue(queue[m], owed.r, owed.nodes) /\ queue[m] \in Seq(ColdTasks)
    BY <1>2, <1>10, <1>11
  <2>2. CASE m # n
    BY <2>1, <2>2 DEF Base
  <2>3. CASE m = n
    <3>1. Removal(t, owed.r) <=> t.r = owed.r
      BY <1>3 DEF Removal
    <3>2. /\ InQueue(Tail(queue[n]), owed.r, owed.nodes)
          /\ ~Removal(t, owed.r) => (HasRemoval(Tail(queue[n]), owed.r) <=> HasRemoval(queue[n], owed.r))
          /\ Removal(t, owed.r) => ~HasRemoval(Tail(queue[n]), owed.r) /\ t.cleanup = owed.nodes
          /\ HasCold(queue[n], owed.r) => HasCold(Tail(queue[n]), owed.r)
      BY <1>3, <2>1, <2>3, QueueShrinks
    <3> QED  BY <2>3, <3>1, <3>2 DEF Base
  <2> QED  BY <2>2, <2>3
<1>12. ASSUME owed.r # 0, NEW m \in Nodes
       PROVE  /\ InQueue(queue'[m], owed.r, owed.nodes)
              /\ HasRemoval(queue'[m], owed.r) <=> HasRemoval(Base(m, n), owed.r)
              /\ HasCold(queue[m], owed.r) => HasCold(queue'[m], owed.r)
              /\ m \in due /\ t.r = owed.r => HasCold(queue'[m], owed.r)
  <2>1. InQueue(Base(m, n), owed.r, owed.nodes) /\ Base(m, n) \in Seq(ColdTasks)
        /\ (HasCold(queue[m], owed.r) => HasCold(Base(m, n), owed.r))
    BY <1>3, <1>11, <1>12
  <2>2. CASE m \notin due
    BY <1>4, <2>1, <2>2
  <2>3. CASE m \in due
    <3>1. queue'[m] = Append(Base(m, n), c)
      BY <1>4, <2>3
    <3>2. ~Removal(c, owed.r)
      BY <1>6 DEF Removal
    <3> QED  BY <1>3, <1>6, <2>1, <3>1, <3>2, QueueGrows
  <2> QED  BY <2>2, <2>3
<1>13. Removal(t, owed.r) => HasRemoval(queue[n], owed.r)
  BY <1>2, <1>3, QueueShrinks
<1>14. CASE RemovalRow(n, t.r, "queued") \notin log
  <2>1. due = {} /\ log' = log /\ owed' = owed
    BY <1>4, <1>14
  <2>2. Issued' /\ SentLast'
    <3>1. ops' \in {ops, ops + 1} /\ log' \subseteq log /\ owed'.r \in 0..ops
      BY <1>1, <1>5, <2>1
    <3>2. \A m \in Nodes : \A x \in Held(queue'[m]) : x \in Held(queue[m])
      BY <1>9, <2>1
    <3> QED  BY <3>1, <3>2, StillIssued
  <2>3. owed.r # 0 => t.r # owed.r
    BY <1>3, <1>10, <1>13, <1>14 DEF Removal
  <2>4. \A m \in Nodes : owed.r # 0 =>
              /\ InQueue(queue'[m], owed.r, owed.nodes)
              /\ HasRemoval(queue'[m], owed.r) <=> HasRemoval(queue[m], owed.r)
              /\ HasCold(queue[m], owed.r) => HasCold(queue'[m], owed.r)
    BY <1>11, <1>12, <2>3
  <2>5. Debts'
    BY <1>2, <1>5, <2>1, <2>4, StillOwed
  <2> QED  BY <2>2, <2>5 DEF ColdOwed
<1>15. CASE RemovalRow(n, t.r, "queued") \in log
  <2>0. \A m, r, s : /\ RemovalRow(m, r, s).node = m /\ RemovalRow(m, r, s).kind = "remove"
                     /\ RemovalRow(m, r, s).r = r /\ RemovalRow(m, r, s).state = s
    BY DEF RemovalRow
  <2>1. /\ due = IF st = "ok" THEN C!CleanupDue(lg(st), t, n) ELSE {}
        /\ log' = lg(st) \cup {Sent(m) : m \in due}
        /\ owed' = IF st = "ok" \/ t.r # owed.r THEN owed ELSE C!NoDebt
    BY <1>4, <1>15
  <2>2. \A m : Sent(m).kind = "cold" /\ Sent(m).r = t.r
    OBVIOUS
  <2> HIDE DEF Sent
  <2>3. ~AllOk(t.r) /\ t.r \in Nat /\ t.r <= ops /\ t.r # 0
    BY <1>1, <1>2, <1>15, <2>0 DEF AllOk, LogRows
  <2>4. /\ \A u \in log : u.kind = "cold" => u.r # t.r
        /\ \A m \in Nodes : \A x \in Held(queue[m]) : x.kind = "cold" => x.r # t.r
    BY <1>7, <2>3
  \* The log after the answer.
  <2>5. \A u \in log' : u \in log \/ u = RemovalRow(n, t.r, st) \/ \E m \in due : u = Sent(m)
    BY <2>1
  <2>6. \A u \in log : u # RemovalRow(n, t.r, "queued") => u \in log'
    BY <2>1
  <2>7. RemovalRow(n, t.r, st) \in log' /\ RemovalRow(n, t.r, "queued") \notin log'
    BY <2>0, <2>1, <2>2
  <2>8. \A k : k # t.r => (AllOk(k) <=> OkNow(k))
    BY <2>0, <2>2, <2>5, <2>6 DEF AllOk
  <2>9. OkNow(t.r) => st = "ok" /\ C!Settled(lg(st), t)
    BY <2>0, <2>1, <2>7 DEF AllOk, C!Settled
  <2>10. st = "ok" /\ C!Settled(lg(st), t) => OkNow(t.r) /\ due = {m \in t.cleanup : TRUE}
    <3>1. ASSUME st = "ok", C!Settled(lg(st), t)
          PROVE  OkNow(t.r)
      BY <2>0, <2>1, <2>2, <3>1 DEF AllOk, C!Settled
    <3>2. ASSUME st = "ok", C!Settled(lg(st), t)
          PROVE  due = {m \in t.cleanup : TRUE}
      <4>1. \A u \in lg(st) : ~(u.kind = "cold" /\ u.r = t.r)
        BY <2>0, <2>4
      <4> QED  BY <2>1, <2>3, <3>2, <4>1 DEF C!CleanupDue
    <3> QED  BY <3>1, <3>2
  <2>11. due # {} => OkNow(t.r)
    <3>1. due # {} => st = "ok" /\ C!Settled(lg(st), t)
      BY <2>1 DEF C!CleanupDue
    <3> QED  BY <2>10, <3>1
  <2> HIDE DEF lg
  <2>12. Issued'
    <3>1. \A u \in log' : u.r <= ops'
      BY <1>1, <1>5, <2>0, <2>2, <2>3, <2>5
    <3>2. \A m \in Nodes : \A x \in Held(queue'[m]) : x.r <= ops'
      BY <1>1, <1>5, <1>6, <1>9, <2>3
    <3>3. owed'.r <= ops'
      BY <1>1, <1>5, <2>1 DEF C!NoDebt
    <3> QED  BY <3>1, <3>2, <3>3 DEF Issued, Held
  <2>13. SentLast'
    <3>1. ASSUME NEW m \in Nodes, NEW x \in Held(queue'[m]), x.kind = "cold"
          PROVE  OkNow(x.r)
      <4>1. CASE x \in Held(queue[m])
        BY <1>7, <2>4, <2>8, <3>1, <4>1
      <4>2. CASE x \notin Held(queue[m])
        BY <1>6, <1>9, <2>11, <3>1, <4>2
      <4> QED  BY <4>1, <4>2
    <3>2. ASSUME NEW x \in log', x.kind = "cold"
          PROVE  OkNow(x.r)
      <4>1. CASE x \in log
        BY <1>7, <2>4, <2>8, <3>2, <4>1
      <4>2. CASE x \notin log
        BY <2>0, <2>2, <2>5, <2>11, <3>2, <4>2
      <4> QED  BY <4>1, <4>2
    <3> QED  BY <3>1, <3>2 DEF SentLast, Held, AllOk
  <2>14. CASE owed.r = 0 \/ (st # "ok" /\ t.r = owed.r)
    <3>1. owed' = C!NoDebt \/ (owed'.r = 0 /\ owed'.nodes = {})
      BY <1>2, <2>1, <2>14 DEF Debts
    <3> QED  BY <2>12, <2>13, <3>1, NothingOwed DEF ColdOwed
  <2>15. CASE owed.r # 0 /\ (st = "ok" \/ t.r # owed.r)
    <3>1. owed'.r = owed.r /\ owed'.nodes = owed.nodes /\ ~enrolled'
          /\ \A m \in Nodes : InQueue(queue'[m], owed.r, owed.nodes)
      BY <1>5, <1>10, <1>12, <2>1, <2>15
    <3>2. \A m \in Nodes : RemovalRow(m, owed.r, "failed") \notin log'
      BY <1>10, <2>0, <2>2, <2>5, <2>15
    <3>3. ASSUME NEW m \in Nodes
          PROVE  RemovalRow(m, owed.r, "queued") \in log' <=> HasRemoval(queue'[m], owed.r)
      <4>1. CASE m = n /\ t.r = owed.r
        BY <1>11, <1>12, <2>7, <2>15, <4>1
      <4>2. CASE m # n \/ t.r # owed.r
        <5>1. RemovalRow(m, owed.r, "queued") # RemovalRow(n, t.r, "queued")
          BY <2>0, <4>2
        <5>2. RemovalRow(m, owed.r, "queued") # RemovalRow(n, t.r, st)
          BY <2>0, <4>2
        <5>3. RemovalRow(m, owed.r, "queued") \in log' <=> RemovalRow(m, owed.r, "queued") \in log
          BY <2>0, <2>2, <2>5, <2>6, <5>1, <5>2
        <5> QED  BY <1>10, <1>11, <1>12, <2>15, <4>2, <5>3
      <4> QED  BY <4>1, <4>2
    <3>4. OkNow(owed.r) => \A m \in owed.nodes \cap cold' : HasCold(queue'[m], owed.r)
      <4>1. CASE t.r # owed.r
        BY <1>2, <1>5, <1>10, <1>12, <2>8, <2>15, <4>1
      <4>2. CASE t.r = owed.r
        <5>1. t.cleanup = owed.nodes
          BY <1>11, <2>15, <4>2
        <5>2. OkNow(owed.r) => due = owed.nodes
          BY <2>9, <2>10, <4>2, <5>1
        <5> QED  BY <1>2, <1>12, <2>15, <4>2, <5>2
      <4> QED  BY <4>1, <4>2
    <3>5. Debts'
      BY <2>15, <3>1, <3>2, <3>3, <3>4, OwedNow
    <3> QED  BY <2>12, <2>13, <3>5 DEF ColdOwed
  <2> QED  BY <2>14, <2>15
<1> QED  BY <1>14, <1>15

\* Every step keeps the invariant.
LEMMA ColdStep ==
    ASSUME ColdInv, "destroy" \in Patient, C!Next
    PROVE  ColdInv'
<1>1. CASE C!AddStudent \/ \E d \in BOOLEAN : C!RemoveStudent(d)
  BY <1>1, StudentMoves, OwedByAdding, OwedByRemoving DEF ColdInv, ColdMap, ColdOwed
<1>2. ASSUME NEW n \in Nodes,
             \/ C!ProvisionNode(n)
             \/ \E b, c \in BOOLEAN : C!Reports(n, b, c)
             \/ C!SetNodeColdStorage(n, "local_zfs", None)
             \/ \E o \in Nodes : C!SetNodeColdStorage(n, "smb", o)
      PROVE  ColdInv'
  BY <1>2, NodesChange, OwedByNodes DEF ColdInv, ColdMap, ColdOwed
<1>3. ASSUME NEW n \in Nodes, NEW force \in BOOLEAN, C!DeleteNode(n, force)
      PROVE  ColdInv'
  BY <1>3, NodeGoes, OwedByNodes DEF ColdInv, ColdMap, ColdOwed
<1>4. ASSUME NEW n \in Nodes, C!CreatePlacement(n) \/ C!DestroyPlacement(n) \/ C!ForceDeletePlacement(n)
      PROVE  ColdInv'
  BY <1>4, PlacementsChange, OwedByPlacements DEF ColdInv, ColdMap, ColdOwed
<1>5. ASSUME NEW n \in Nodes, C!RunTask(n)
      PROVE  ColdInv'
  BY <1>5, TaskRuns, OwedByTasks, OwedByAnswer DEF ColdInv, ColdMap, ColdOwed, C!RunTask
<1> QED  BY <1>1, <1>2, <1>3, <1>4, <1>5 DEF C!Next

\* Nothing is there to begin with.
LEMMA ColdBegins ==
    ASSUME C!Init
    PROVE  ColdInv
<1> USE ColdAssumption
<1>1. /\ node = [n \in Nodes |-> C!NoNode] /\ coldPlace = [n \in Nodes |-> "none"]
      /\ enrolled = FALSE /\ members = {} /\ queue = [n \in Nodes |-> <<>>] /\ log = {}
      /\ up = {} /\ cold = {} /\ ops = 0 /\ owed = C!NoDebt
  BY DEF C!Init
<1>2. <<>> \in Seq(ColdTasks) /\ Held(<<>>) = {}
  BY EmptySeq DEF Held
<1>3. C!NoNode \in NodeRows /\ C!NoNode.owner = None
  BY DEF C!NoNode, NodeRows
<1>4. ColdTyped
  <2>1. node \in [Nodes -> NodeRows] /\ queue \in [Nodes -> Seq(ColdTasks)]
    BY <1>1, <1>2, <1>3
  <2>2. coldPlace \in [Nodes -> {"none", "provisioning", "active", "deleting"}]
    BY <1>1
  <2>3. ops \in 0..MaxOps /\ owed \in [r : 0..MaxOps, nodes : SUBSET Nodes]
    BY <1>1 DEF C!NoDebt
  <2>4. /\ enrolled \in BOOLEAN /\ \A n \in members : n \in Nodes /\ coldPlace[n] # "none"
        /\ log \subseteq LogRows /\ up \subseteq Nodes /\ cold \subseteq Nodes
    BY <1>1
  <2> QED  BY <2>1, <2>2, <2>3, <2>4 DEF ColdTyped
<1>5. RowsGone /\ C!OwnersAreLocal /\ C!OwnerOutlivesClients
  BY <1>1, <1>3 DEF RowsGone, C!OwnersAreLocal, C!OwnerOutlivesClients
<1>6. NotRevived /\ Issued /\ SentLast
  BY <1>1, <1>2 DEF NotRevived, Issued, SentLast, C!NoDebt
<1>7. Debts
  BY <1>1 DEF Debts, C!NoDebt
<1> QED  BY <1>4, <1>5, <1>6, <1>7 DEF ColdInv

\* What the invariant says of the removal: the cleanup is last, and once nothing is
\* under way every node it was to clean is clean.
LEMMA ColdHolds ==
    ASSUME ColdInv
    PROVE  C!TypeOK /\ C!OwnersAreLocal /\ C!OwnerOutlivesClients /\ C!CleanupIsLast /\ C!ColdIsCleaned
<1>1. C!TypeOK
  BY ColdTypes DEF ColdInv
<1>2. C!CleanupIsLast
  BY DEF ColdInv, SentLast, Held, AllOk, C!CleanupIsLast
<1>3. ASSUME \A n \in Nodes : queue[n] = <<>>, NEW m \in owed.nodes \cap cold
      PROVE  FALSE
  <2>1. Debts /\ ColdTyped
    BY DEF ColdInv
  <2>2. owed.r # 0
    BY <1>3, <2>1 DEF Debts
  <2>3. \A n \in Nodes : ~HasRemoval(queue[n], owed.r) /\ ~HasCold(queue[n], owed.r)
    BY <1>3 DEF HasRemoval, HasCold
  <2>4. \A u \in log : u.kind = "remove" /\ u.r = owed.r => u.state = "ok"
    <3> SUFFICES ASSUME NEW u \in log, u.kind = "remove", u.r = owed.r
                 PROVE  u.state = "ok"
      OBVIOUS
    <3>1. u \in LogRows
      BY <2>1 DEF ColdTyped
    <3>2. u = RemovalRow(u.node, owed.r, u.state) /\ u.node \in Nodes /\ u.state \in {"queued", "ok", "failed"}
      BY <3>1 DEF LogRows, RemovalRow
    <3> QED  BY <2>1, <2>2, <2>3, <3>2 DEF Debts
  <2>5. m \in Nodes /\ HasCold(queue[m], owed.r)
    BY <1>3, <2>1, <2>2, <2>4 DEF Debts, ColdTyped, AllOk
  <2> QED  BY <2>3, <2>5
<1>4. C!ColdIsCleaned
  BY <1>3 DEF C!ColdIsCleaned
<1> QED  BY <1>1, <1>2, <1>4 DEF ColdInv

\* Where admins tear a placement down only when its creation has been answered, the
\* shared cold storage is safe: the owner of a client's storage has storage of its
\* own and is not torn down under it, cold data is deleted after the last account is
\* removed, and a removal with data leaves none behind.
THEOREM ColdDataIsSafe == "destroy" \in Patient /\ Spec => []ColdDataSafe
<1> DEFINE I == part = "cold" => ColdInv
<1>1. SUFFICES ASSUME "destroy" \in Patient
               PROVE  Spec => []ColdDataSafe
  OBVIOUS
<1>2. Init => I
  BY ColdBegins DEF Init
<1>3. I /\ [Next]_vars => I'
  <2> SUFFICES ASSUME I, [Next]_vars, part' = "cold"
               PROVE  ColdInv'
    OBVIOUS
  <2>1. CASE part = "cold" /\ C!Next
    BY <1>1, <2>1, ColdStep
  <2>2. CASE part = "cold" /\ UNCHANGED coldVars
    <3>1. ColdInv
      BY <2>2
    <3> QED  BY <2>2, <3>1 DEF coldVars, ColdInv, ColdTyped, RowsGone, NotRevived, C!OwnersAreLocal,
                  C!OwnerOutlivesClients, Issued, SentLast, Debts, AllOk, InQueue, HasRemoval, HasCold,
                  Removal, RemovalRow, C!Local, C!NoNode, Held
  <2> QED  BY <2>1, <2>2 DEF Next, vars
<1>4. I => ColdDataSafe
  BY ColdHolds DEF ColdDataSafe
<1> QED  BY <1>2, <1>3, <1>4, PTL DEF Spec
=============================================================================
