-------------------------- MODULE PlacementProofs --------------------------
(***************************************************************************)
(* Proofs about PlacementLifecycle.                                        *)
(***************************************************************************)
EXTENDS PlacementLifecycle, FiniteSetTheorems, SequenceTheorems, TLAPS

(***************************************************************************)
(* The order in which members are provisioned.                             *)
(***************************************************************************)

\* Order lists every element of a finite set once.
LEMMA OrderLists ==
    ASSUME NEW S, IsFiniteSet(S)
    PROVE  /\ Cardinality(S) \in Nat
           /\ Order(S) \in [1..Cardinality(S) -> S]
           /\ \A i, j \in 1..Cardinality(S) : Order(S)[i] = Order(S)[j] => i = j
           /\ \A s \in S : \E i \in 1..Cardinality(S) : Order(S)[i] = s
<1> DEFINE n == Cardinality(S)
<1>1. n \in Nat /\ ExistsBijection(1..n, S)
  BY FS_CardinalityType
<1>2. \E f \in [1..n -> S] : IsInjective(f)
  BY <1>1 DEF ExistsBijection, Bijection, Injection
<1>3. Order(S) \in [1..n -> S] /\ IsInjective(Order(S))
  BY <1>2 DEF Order, SetToSeq
<1>4. Order(S) \in Injection(1..n, S)
  BY <1>3 DEF Injection
<1>5. IsFiniteSet(1..n) /\ Cardinality(1..n) = n
  BY <1>1, FS_Interval
<1>6. Order(S) \in Surjection(1..n, S)
  BY <1>4, <1>5, FS_Injection
<1>7. \A i, j \in 1..n : Order(S)[i] = Order(S)[j] => i = j
  BY <1>3 DEF IsInjective
<1>8. \A s \in S : \E i \in 1..n : Order(S)[i] = s
  BY <1>6 DEF Surjection
<1> QED  BY <1>1, <1>3, <1>7, <1>8

\* The password of a member is the one its task carries.
LEMMA FreshPasswords ==
    ASSUME NEW S, IsFiniteSet(S), NEW n \in Nat, NEW s \in S
    PROVE  /\ FreshPw(S, s, n) \in (n + 1)..(n + Cardinality(S))
           /\ \A i \in 1..Cardinality(S) : Order(S)[i] = s <=> n + i = FreshPw(S, s, n)
<1> DEFINE k == CHOOSE i \in 1..Cardinality(S) : Order(S)[i] = s
<1>1. /\ Cardinality(S) \in Nat
      /\ \A i, j \in 1..Cardinality(S) : Order(S)[i] = Order(S)[j] => i = j
      /\ \E i \in 1..Cardinality(S) : Order(S)[i] = s
  BY OrderLists
<1>2. k \in 1..Cardinality(S) /\ Order(S)[k] = s
  BY <1>1
<1>3. FreshPw(S, s, n) = n + k
  BY DEF FreshPw
<1> HIDE DEF k
<1> QED  BY <1>1, <1>2, <1>3

\* The tasks for the members of a set, in their order.
LEMMA AddTasksSeq ==
    ASSUME NEW S \in SUBSET Students, NEW n \in Nat, n + Cardinality(S) <= MaxSerial
    PROVE  /\ IsFiniteSet(S) /\ Cardinality(S) \in Nat
           /\ AddTasks(S, n) \in Seq(Tasks) /\ Len(AddTasks(S, n)) = Cardinality(S)
           /\ \A i \in 1..Cardinality(S) :
                 /\ AddTasks(S, n)[i] = Task("add", Order(S)[i], n + i)
                 /\ Order(S)[i] \in S
<1> DEFINE a == AddTasks(S, n)
           c == Cardinality(S)
<1>1. IsFiniteSet(S)
  BY StudentsFinite, FS_Subset
<1>2. c \in Nat /\ Order(S) \in [1..c -> S]
  BY <1>1, OrderLists
<1>3. a = [i \in 1..c |-> Task("add", Order(S)[i], n + i)]
  BY DEF AddTasks
<1>4. \A i \in 1..c : Order(S)[i] \in S /\ Order(S)[i] \in Students
  BY <1>2
<1> HIDE DEF c
<1>5. \A i \in 1..c : n + i \in Numbers
  BY <1>2, LimitAssumption DEF Numbers, c
<1>6. \A i \in 1..c : Task("add", Order(S)[i], n + i) \in Tasks
  BY <1>4, <1>5 DEF Task, Tasks
<1>7. a \in [1..c -> Tasks]
  BY <1>3, <1>6
<1> HIDE DEF a
<1>8. a \in Seq(Tasks) /\ Len(a) = c
  BY <1>2, <1>7, IsASeq
<1> QED  BY <1>1, <1>2, <1>3, <1>4, <1>8 DEF a, c
-----------------------------------------------------------------------------
(***************************************************************************)
(* The pipeline: results to be handled, then tasks to be run.              *)
(***************************************************************************)
Answers == [task : Tasks, ok : BOOLEAN]
PipeOK  == queue \in Seq(Tasks) /\ results \in Seq(Answers)

TasksOf(r, q) == [i \in 1..Len(r) |-> r[i].task] \o q

\* Its elements.
LEMMA TasksOfSeq ==
    ASSUME NEW r \in Seq(Answers), NEW q \in Seq(Tasks)
    PROVE  /\ TasksOf(r, q) \in Seq(Tasks)
           /\ Len(r) \in Nat /\ Len(q) \in Nat
           /\ Len(TasksOf(r, q)) = Len(r) + Len(q)
           /\ DOMAIN TasksOf(r, q) = 1..(Len(r) + Len(q))
           /\ \A i \in 1..Len(r) : TasksOf(r, q)[i] = r[i].task /\ r[i] \in Answers
           /\ \A i \in 1..Len(q) : TasksOf(r, q)[Len(r) + i] = q[i] /\ q[i] \in Tasks
<1> DEFINE a == [i \in 1..Len(r) |-> r[i].task]
<1>1. Len(r) \in Nat /\ Len(q) \in Nat /\ DOMAIN r = 1..Len(r) /\ DOMAIN q = 1..Len(q)
  BY LenProperties
<1>2. (\A i \in 1..Len(r) : r[i] \in Answers) /\ (\A i \in 1..Len(q) : q[i] \in Tasks)
  BY <1>1, ElementOfSeq
<1>3. a \in [1..Len(r) -> Tasks]
  BY <1>2 DEF Answers
<1>4. \A i \in 1..Len(r) : a[i] = r[i].task
  OBVIOUS
<1> HIDE DEF a
<1>5. a \in Seq(Tasks) /\ Len(a) = Len(r)
  BY <1>1, <1>3, IsASeq
<1>6. /\ a \o q \in Seq(Tasks) /\ Len(a \o q) = Len(r) + Len(q)
      /\ \A i \in 1..(Len(r) + Len(q)) :
            (a \o q)[i] = IF i <= Len(r) THEN a[i] ELSE q[i - Len(r)]
  BY <1>5, ConcatProperties
<1>7. DOMAIN (a \o q) = 1..(Len(r) + Len(q))
  BY <1>6, LenProperties
<1>8. \A i \in 1..Len(q) : (a \o q)[Len(r) + i] = q[i]
  <2> TAKE i \in 1..Len(q)
  <2>1. Len(r) + i \in 1..(Len(r) + Len(q)) /\ ~(Len(r) + i <= Len(r)) /\ (Len(r) + i) - Len(r) = i
    BY <1>1
  <2> QED  BY <1>6, <2>1
<1>9. \A i \in 1..Len(r) : (a \o q)[i] = r[i].task
  BY <1>1, <1>4, <1>6
<1>10. TasksOf(r, q) = a \o q
  BY DEF TasksOf, a
<1> QED  BY <1>1, <1>2, <1>6, <1>7, <1>8, <1>9, <1>10

\* The pipeline is read off the results and the queue, before and after a step.
LEMMA PipelineIs == Pipeline = TasksOf(results, queue) /\ Pipeline' = TasksOf(results', queue')
  BY DEF Pipeline, TasksOf

\* The pipeline as a sequence.
LEMMA PipelineSeq ==
    ASSUME PipeOK
    PROVE  /\ Len(Pipeline) \in Nat /\ Len(results) \in Nat /\ Len(queue) \in Nat
           /\ Len(Pipeline) = Len(results) + Len(queue)
           /\ DOMAIN Pipeline = 1..Len(Pipeline)
           /\ DOMAIN results = 1..Len(results) /\ DOMAIN queue = 1..Len(queue)
           /\ \A i \in DOMAIN Pipeline : Pipeline[i] \in Tasks
           /\ \A i \in DOMAIN results :
                 i \in DOMAIN Pipeline /\ Pipeline[i] = results[i].task /\ results[i] \in Answers
           /\ \A i \in DOMAIN queue : Pipeline[Len(results) + i] = queue[i]
<1>1. results \in Seq(Answers) /\ queue \in Seq(Tasks)
  BY DEF PipeOK
<1>2. /\ Pipeline \in Seq(Tasks)
      /\ Len(results) \in Nat /\ Len(queue) \in Nat
      /\ Len(Pipeline) = Len(results) + Len(queue)
      /\ DOMAIN Pipeline = 1..(Len(results) + Len(queue))
      /\ \A i \in 1..Len(results) : Pipeline[i] = results[i].task /\ results[i] \in Answers
      /\ \A i \in 1..Len(queue) : Pipeline[Len(results) + i] = queue[i]
  BY <1>1, TasksOfSeq, PipelineIs
<1>3. DOMAIN results = 1..Len(results) /\ DOMAIN queue = 1..Len(queue)
  BY <1>1, LenProperties
<1>4. \A i \in DOMAIN Pipeline : Pipeline[i] \in Tasks
  BY <1>2, ElementOfSeq
<1> QED  BY <1>2, <1>3, <1>4

\* Issuing tasks extends the pipeline.
LEMMA PipelineIssued ==
    ASSUME PipeOK, NEW t \in Tasks, NEW a \in Seq(Tasks), UNCHANGED results,
           queue' = Append(queue, t) \o a
    PROVE  /\ PipeOK'
           /\ Len(Pipeline') = Len(Pipeline) + 1 + Len(a) /\ Len(a) \in Nat
           /\ DOMAIN Pipeline' = 1..(Len(Pipeline) + 1 + Len(a))
           /\ \A i \in DOMAIN Pipeline : Pipeline'[i] = Pipeline[i]
           /\ Pipeline'[Len(Pipeline) + 1] = t
           /\ \A i \in 1..Len(a) : Pipeline'[Len(Pipeline) + 1 + i] = a[i]
<1>1. /\ Len(queue) \in Nat /\ DOMAIN queue = 1..Len(queue) /\ Len(results) \in Nat
      /\ Len(Pipeline) = Len(results) + Len(queue) /\ DOMAIN Pipeline = 1..Len(Pipeline)
  BY PipelineSeq
<1>2. Len(a) \in Nat
  BY LenProperties
<1> DEFINE q == Append(queue, t)
<1>3. /\ q \in Seq(Tasks) /\ Len(q) = Len(queue) + 1 /\ q[Len(queue) + 1] = t
      /\ \A i \in 1..Len(queue) : q[i] = queue[i]
  BY AppendProperties DEF PipeOK
<1> HIDE DEF q
<1>4. /\ q \o a \in Seq(Tasks) /\ Len(q \o a) = Len(q) + Len(a)
      /\ \A i \in 1..(Len(q) + Len(a)) : (q \o a)[i] = IF i <= Len(q) THEN q[i] ELSE a[i - Len(q)]
  BY <1>3, ConcatProperties
<1>5. queue' = q \o a /\ Len(queue') = Len(queue) + 1 + Len(a)
  BY <1>3, <1>4 DEF q
<1>6. /\ \A i \in 1..Len(queue) : queue'[i] = queue[i]
      /\ queue'[Len(queue) + 1] = t
      /\ \A i \in 1..Len(a) : queue'[Len(queue) + 1 + i] = a[i]
  <2>1. \A i \in 1..Len(queue) : queue'[i] = queue[i]
    BY <1>1, <1>2, <1>3, <1>4, <1>5
  <2>2. queue'[Len(queue) + 1] = t
    BY <1>1, <1>2, <1>3, <1>4, <1>5
  <2>3. ASSUME NEW i \in 1..Len(a)
        PROVE  queue'[Len(queue) + 1 + i] = a[i]
    <3>1. /\ Len(queue) + 1 + i \in 1..(Len(q) + Len(a)) /\ ~(Len(queue) + 1 + i <= Len(q))
          /\ (Len(queue) + 1 + i) - Len(q) = i
      BY <1>1, <1>2, <1>3
    <3> QED  BY <1>4, <1>5, <3>1
  <2> QED  BY <2>1, <2>2, <2>3
<1>7. PipeOK'
  BY <1>4, <1>5 DEF PipeOK
<1>8. /\ Pipeline' \in Seq(Tasks) /\ results' = results
      /\ Len(Pipeline') = Len(results) + Len(queue')
      /\ DOMAIN Pipeline' = 1..(Len(results) + Len(queue'))
      /\ \A i \in 1..Len(results) : Pipeline'[i] = results[i].task
      /\ \A i \in 1..Len(queue') : Pipeline'[Len(results) + i] = queue'[i]
  <2>1. queue' \in Seq(Tasks) /\ results \in Seq(Answers)
    BY <1>4, <1>5 DEF PipeOK
  <2>2. Pipeline' = TasksOf(results, queue')
    BY PipelineIs
  <2> QED  BY <2>1, <2>2, TasksOfSeq
<1>9. /\ \A i \in 1..Len(results) : Pipeline[i] = results[i].task
      /\ \A i \in 1..Len(queue) : Pipeline[Len(results) + i] = queue[i]
  BY PipelineSeq
<1>10. ASSUME NEW i \in DOMAIN Pipeline
       PROVE  Pipeline'[i] = Pipeline[i]
  <2>1. CASE i <= Len(results)
    <3>1. i \in 1..Len(results)
      BY <1>1, <2>1
    <3> QED  BY <1>8, <1>9, <3>1
  <2>2. CASE i > Len(results)
    <3>1. i - Len(results) \in 1..Len(queue) /\ Len(results) + (i - Len(results)) = i
      BY <1>1, <2>2
    <3>2. i - Len(results) \in 1..Len(queue')
      BY <1>1, <1>2, <1>4, <1>5, <3>1
    <3> QED  BY <1>6, <1>8, <1>9, <3>1, <3>2
  <2> QED  BY <1>1, <2>1, <2>2
<1>11. Pipeline'[Len(Pipeline) + 1] = t
  <2>1. Len(queue) + 1 \in 1..Len(queue') /\ Len(results) + (Len(queue) + 1) = Len(Pipeline) + 1
    BY <1>1, <1>2, <1>4, <1>5
  <2> QED  BY <1>6, <1>8, <2>1
<1>12. ASSUME NEW i \in 1..Len(a)
       PROVE  Pipeline'[Len(Pipeline) + 1 + i] = a[i]
  <2>1. /\ Len(queue) + 1 + i \in 1..Len(queue')
        /\ Len(results) + (Len(queue) + 1 + i) = Len(Pipeline) + 1 + i
    BY <1>1, <1>2, <1>4, <1>5
  <2> QED  BY <1>6, <1>8, <2>1
<1>13. Len(Pipeline') = Len(Pipeline) + 1 + Len(a) /\ DOMAIN Pipeline' = 1..(Len(Pipeline) + 1 + Len(a))
  BY <1>1, <1>2, <1>4, <1>5, <1>8
<1> QED  BY <1>2, <1>7, <1>10, <1>11, <1>12, <1>13

\* One task is issued.
LEMMA PipelineIssuedOne ==
    ASSUME PipeOK, NEW t \in Tasks, UNCHANGED results, queue' = Append(queue, t)
    PROVE  /\ PipeOK'
           /\ DOMAIN Pipeline' = 1..(Len(Pipeline) + 1)
           /\ \A i \in DOMAIN Pipeline : Pipeline'[i] = Pipeline[i]
           /\ Pipeline'[Len(Pipeline) + 1] = t
<1>1. Append(queue, t) \in Seq(Tasks)
  BY AppendProperties DEF PipeOK
<1>2. queue' = Append(queue, t) \o << >>
  BY <1>1, ConcatEmptySeq
<1>3. << >> \in Seq(Tasks) /\ Len(<< >>) = 0
  OBVIOUS
<1>4. Len(Pipeline) \in Nat
  BY PipelineSeq
<1>5. Len(Pipeline) + 1 + 0 = Len(Pipeline) + 1
  BY <1>4
<1> QED  BY <1>2, <1>3, <1>5, PipelineIssued

\* Running a task leaves the pipeline as it is.
LEMMA PipelineRun ==
    ASSUME PipeOK, queue # <<>>, NEW b \in BOOLEAN, queue' = Tail(queue),
           results' = Append(results, [task |-> Head(queue), ok |-> b])
    PROVE  /\ PipeOK' /\ Pipeline' = Pipeline
           /\ Head(queue) \in Tasks /\ Head(queue) = queue[1]
           /\ Len(results) + 1 \in DOMAIN Pipeline
           /\ Pipeline[Len(results) + 1] = Head(queue)
           /\ DOMAIN results' = 1..(Len(results) + 1)
           /\ \A i \in DOMAIN results : results'[i] = results[i]
           /\ results'[Len(results) + 1] = [task |-> Head(queue), ok |-> b]
<1> DEFINE x == [task |-> Head(queue), ok |-> b]
<1>1. /\ Len(queue) \in Nat /\ DOMAIN queue = 1..Len(queue) /\ Len(results) \in Nat
      /\ DOMAIN results = 1..Len(results)
      /\ Len(Pipeline) = Len(results) + Len(queue) /\ DOMAIN Pipeline = 1..Len(Pipeline)
      /\ \A i \in 1..Len(results) : Pipeline[i] = results[i].task
      /\ \A i \in 1..Len(queue) : Pipeline[Len(results) + i] = queue[i]
  BY PipelineSeq
<1>2. queue \in Seq(Tasks) /\ results \in Seq(Answers)
  BY DEF PipeOK
<1>3. Len(queue) >= 1 /\ Head(queue) = queue[1]
  BY <1>1, <1>2, EmptySeq
<1>4. /\ Head(queue) \in Tasks /\ Tail(queue) \in Seq(Tasks)
      /\ Len(Tail(queue)) = Len(queue) - 1
      /\ \A i \in 1..Len(Tail(queue)) : Tail(queue)[i] = queue[i + 1]
  BY <1>2, HeadTailProperties
<1>5. x \in Answers
  BY <1>4 DEF Answers
<1> HIDE DEF x
<1>6. /\ results' \in Seq(Answers) /\ Len(results') = Len(results) + 1
      /\ \A i \in 1..Len(results) : results'[i] = results[i]
      /\ results'[Len(results) + 1] = x
  <2>1. results' = Append(results, x)
    BY DEF x
  <2> QED  BY <1>2, <1>5, <2>1, AppendProperties
<1>7. PipeOK'
  BY <1>4, <1>6 DEF PipeOK
<1>8. DOMAIN results' = 1..(Len(results) + 1)
  BY <1>6, LenProperties
<1>9. /\ Pipeline \in Seq(Tasks) /\ Pipeline' \in Seq(Tasks)
      /\ Len(Pipeline') = Len(results') + Len(queue')
      /\ \A i \in 1..Len(results') : Pipeline'[i] = results'[i].task
      /\ \A i \in 1..Len(queue') : Pipeline'[Len(results') + i] = queue'[i]
  <2>1. queue' \in Seq(Tasks)
    BY <1>4
  <2> QED  BY <1>2, <1>6, <2>1, TasksOfSeq, PipelineIs
<1>10. Len(Pipeline') = Len(Pipeline)
  BY <1>1, <1>3, <1>4, <1>6, <1>9
<1>11. ASSUME NEW i \in 1..Len(Pipeline')
       PROVE  Pipeline'[i] = Pipeline[i]
  <2>1. CASE i <= Len(results)
    <3>1. i \in 1..Len(results) /\ i \in 1..Len(results')
      BY <1>1, <1>6, <1>10, <2>1
    <3> QED  BY <1>1, <1>6, <1>9, <3>1
  <2>2. CASE i = Len(results) + 1
    <3>1. i \in 1..Len(results') /\ results'[i] = x
      BY <1>1, <1>6, <2>2
    <3>2. Pipeline[i] = queue[1]
      BY <1>1, <1>3, <2>2
    <3> QED  BY <1>3, <1>9, <3>1, <3>2 DEF x
  <2>3. CASE i > Len(results) + 1
    <3> DEFINE k == i - (Len(results) + 1)
    <3>1. /\ k \in 1..Len(queue') /\ Len(results') + k = i
          /\ k + 1 \in 1..Len(queue) /\ Len(results) + (k + 1) = i
      BY <1>1, <1>3, <1>4, <1>6, <1>10, <2>3
    <3> HIDE DEF k
    <3>2. Pipeline'[i] = queue'[k] /\ Pipeline[i] = queue[k + 1]
      BY <1>1, <1>9, <3>1
    <3> QED  BY <1>4, <3>1, <3>2
  <2> QED  BY <1>1, <1>10, <2>1, <2>2, <2>3
<1>12. Pipeline' = Pipeline
  BY <1>9, <1>10, <1>11, SeqEqual
<1>13. Len(results) + 1 \in DOMAIN Pipeline /\ Pipeline[Len(results) + 1] = Head(queue)
  BY <1>1, <1>3
<1> QED  BY <1>1, <1>3, <1>4, <1>6, <1>7, <1>8, <1>12, <1>13 DEF x

\* Handling a result, or losing it, takes the first task off the pipeline.
LEMMA PipelineHandled ==
    ASSUME PipeOK, results # <<>>, results' = Tail(results), UNCHANGED queue
    PROVE  /\ PipeOK'
           /\ 1 \in DOMAIN results /\ Head(results) = results[1] /\ Head(results) \in Answers
           /\ 1 \in DOMAIN Pipeline /\ Pipeline[1] = Head(results).task
           /\ DOMAIN Pipeline' = 1..(Len(Pipeline) - 1)
           /\ \A i \in DOMAIN Pipeline' : i + 1 \in DOMAIN Pipeline /\ Pipeline'[i] = Pipeline[i + 1]
           /\ DOMAIN results' = 1..(Len(results) - 1)
           /\ \A i \in DOMAIN results' : i + 1 \in DOMAIN results /\ results'[i] = results[i + 1]
<1>1. /\ Len(queue) \in Nat /\ DOMAIN queue = 1..Len(queue) /\ Len(results) \in Nat
      /\ DOMAIN results = 1..Len(results)
      /\ Len(Pipeline) = Len(results) + Len(queue) /\ DOMAIN Pipeline = 1..Len(Pipeline)
      /\ \A i \in 1..Len(results) : Pipeline[i] = results[i].task
      /\ \A i \in 1..Len(queue) : Pipeline[Len(results) + i] = queue[i]
  BY PipelineSeq
<1>2. queue \in Seq(Tasks) /\ results \in Seq(Answers)
  BY DEF PipeOK
<1>3. Len(results) >= 1 /\ Head(results) = results[1]
  BY <1>1, <1>2, EmptySeq
<1>4. /\ Head(results) \in Answers /\ results' \in Seq(Answers)
      /\ Len(results') = Len(results) - 1
      /\ \A i \in 1..Len(results') : results'[i] = results[i + 1]
  BY <1>2, HeadTailProperties
<1>5. PipeOK'
  BY <1>4 DEF PipeOK
<1>6. DOMAIN results' = 1..(Len(results) - 1)
  BY <1>4, LenProperties
<1>7. /\ Len(Pipeline') = Len(results') + Len(queue)
      /\ DOMAIN Pipeline' = 1..(Len(results') + Len(queue))
      /\ \A i \in 1..Len(results') : Pipeline'[i] = results'[i].task
      /\ \A i \in 1..Len(queue) : Pipeline'[Len(results') + i] = queue[i]
  <2>1. Pipeline' = TasksOf(results', queue)
    BY PipelineIs
  <2> QED  BY <1>2, <1>4, <2>1, TasksOfSeq
<1>8. DOMAIN Pipeline' = 1..(Len(Pipeline) - 1)
  BY <1>1, <1>4, <1>7
<1>9. ASSUME NEW i \in DOMAIN Pipeline'
      PROVE  i + 1 \in DOMAIN Pipeline /\ Pipeline'[i] = Pipeline[i + 1]
  <2>0. i + 1 \in DOMAIN Pipeline
    BY <1>1, <1>8
  <2>1. CASE i <= Len(results')
    <3>1. i \in 1..Len(results') /\ i + 1 \in 1..Len(results)
      BY <1>1, <1>4, <1>8, <2>1
    <3> QED  BY <1>1, <1>4, <1>7, <2>0, <3>1
  <2>2. CASE i > Len(results')
    <3> DEFINE k == i - Len(results')
    <3>1. k \in 1..Len(queue) /\ Len(results') + k = i /\ Len(results) + k = i + 1
      BY <1>1, <1>3, <1>4, <1>8, <2>2
    <3> HIDE DEF k
    <3>2. Pipeline'[i] = queue[k] /\ Pipeline[i + 1] = queue[k]
      BY <1>1, <1>7, <3>1
    <3> QED  BY <2>0, <3>2
  <2> QED  BY <1>1, <1>3, <1>4, <1>8, <2>1, <2>2
<1>10. /\ 1 \in DOMAIN results /\ 1 \in DOMAIN Pipeline /\ Pipeline[1] = Head(results).task
       /\ \A i \in DOMAIN results' : i + 1 \in DOMAIN results /\ results'[i] = results[i + 1]
  <2>1. 1 \in DOMAIN results /\ 1 \in DOMAIN Pipeline /\ Pipeline[1] = Head(results).task
    BY <1>1, <1>3
  <2>2. \A i \in DOMAIN results' : i + 1 \in DOMAIN results /\ results'[i] = results[i + 1]
    BY <1>1, <1>4, <1>6
  <2> QED  BY <2>1, <2>2
<1> QED  BY <1>3, <1>4, <1>5, <1>6, <1>8, <1>9, <1>10

\* So does a step that issues, runs and handles nothing.
LEMMA PipelineSame ==
    ASSUME PipeOK, UNCHANGED <<queue, results>>
    PROVE  PipeOK' /\ Pipeline' = Pipeline
  BY DEF PipeOK, Pipeline
-----------------------------------------------------------------------------
(***************************************************************************)
(* The inductive invariants.  A task touches a member when it adds or      *)
(* removes the account.                                                    *)
(***************************************************************************)
Touches(i, s) == Pipeline[i].kind \in {"add", "remove"} /\ Pipeline[i].s = s
LastTouch(i, s) == Touches(i, s) /\ \A j \in DOMAIN Pipeline : Touches(j, s) => j <= i
NoTouch(s) == \A i \in DOMAIN Pipeline : ~Touches(i, s)

\* A member without a row has nothing else either, and an id was given out before.
RowsShaped ==
    /\ \A s \in Students : member[s].row = 0 => member[s] = NoMember
    /\ plc.id <= serial /\ \A s \in Students : member[s].row <= serial

\* Accounts are the students'.
TasksShaped ==
    \A i \in DOMAIN Pipeline : Pipeline[i].kind \in {"add", "remove"} => Pipeline[i].s \in Students

TypeInv == TypeOK /\ RowsShaped /\ TasksShaped

\* The last task that touches a member that has a row sets its latest password.
LatestLast ==
    \A s \in Students : member[s].row # 0 =>
       \/ NoTouch(s)
       \/ \E i \in DOMAIN Pipeline :
             LastTouch(i, s) /\ Pipeline[i].kind = "add" /\ Pipeline[i].pw = member[s].pw

\* A student.add that succeeded has logged in.
OkProven ==
    \A i \in DOMAIN results :
       results[i].ok /\ results[i].task.kind = "add" => results[i].task.pw \in proven

ProvenInv == TypeInv /\ LatestLast /\ OkProven /\ ActiveIsProven

\* Nothing that makes or removes a row overlaps: a member has at most one
\* student.add under way, and waits for it.
OneAdd ==
    /\ \A s \in Students, i \in DOMAIN Pipeline :
          Pipeline[i].kind = "add" /\ Pipeline[i].s = s =>
             /\ s \in roster
             /\ member[s].row # 0 => member[s].state = "provisioning" /\ Pipeline[i].pw = member[s].pw
             /\ \A j \in DOMAIN Pipeline : Pipeline[j].kind = "add" /\ Pipeline[j].s = s => j = i
    /\ \A s \in Students : member[s].row # 0 => s \in roster

\* Where a member's password is.
Placed ==
    \A s \in Students :
       /\ member[s].secret \in {0, member[s].pw}
       /\ member[s].state = "active" =>
             member[s].pw \in proven /\ (member[s].pw \in delivered[s] \/ member[s].secret = member[s].pw)
       /\ member[s].state = "provisioning" =>
             /\ member[s].secret = member[s].pw
             /\ \A m \in mails : m.kind = "credential" /\ m.s = s => m.id # member[s].row

\* A credential mail carries the proven password of its row.
MailsTrue ==
    \A m \in mails : m.kind = "credential" =>
       /\ m.pw \in proven /\ m.id # 0 /\ m.id <= serial
       /\ member[m.s].row = m.id => m.pw = member[m.s].pw

\* A completion mail is about a placement there was.
Completions ==
    \A m \in mails : m.kind = "completion" =>
       m = [kind |-> "completion", s |-> PI, id |-> m.id, pw |-> 0] /\ m.id # 0 /\ m.id <= serial

CredentialInv ==
    /\ TypeInv /\ OneAdd /\ OkProven /\ Placed /\ MailsTrue /\ Completions
    /\ OnlyProvenDelivered /\ CompletionClaimed

\* A teardown does not overlap with the making of a placement.
Teardown ==
    \A i \in DOMAIN Pipeline :
       /\ Pipeline[i].kind = "create" => plc.state # "deleting"
       /\ Pipeline[i].kind = "destroy" => plc.state \in {"deleting", "none"}

LabKinds == {"create", "recreate", "destroy"}

\* A task about the whole lab runs before every other one, and while it is under
\* way the rows wait.
LabFirst ==
    \A i \in DOMAIN Pipeline :
       /\ Pipeline[i].kind \in LabKinds => i = 1
       /\ Pipeline[i].kind \in {"create", "recreate"} => \A s \in Students : member[s].state # "active"
       /\ Pipeline[i].kind = "create" => plc.state = "provisioning"
       /\ Pipeline[i].kind = "destroy" => plc.state \in {"deleting", "none"}

\* The container of an active placement, or of one that will be when its result
\* is handled, runs.
Runs ==
    /\ plc.state = "active" => node.up
    /\ \A i \in DOMAIN results : results[i].task.kind = "create" /\ results[i].ok => node.up

\* So with the accounts.
Accounts ==
    \A s \in Students :
       /\ \A i \in DOMAIN results :
             results[i].ok /\ results[i].task.kind = "add" /\ LastTouch(i, s) =>
                node.acc[s] = results[i].task.pw
       /\ plc.state = "active" /\ member[s].state = "active" /\ NoTouch(s) =>
             node.acc[s] = member[s].pw

RowsInv == TypeInv /\ LatestLast /\ LabFirst /\ Runs /\ Accounts
-----------------------------------------------------------------------------
(***************************************************************************)
(* The types, part by part.                                                *)
(***************************************************************************)
CtlOK == serial \in Numbers /\ roster \subseteq Students

PlcOK ==
    /\ plc \in [id : Numbers, mailed : {"null", "claimed", "sent"},
                state : {"none", "provisioning", "active", "failed", "deleting"}]
    /\ plc.id = 0 <=> plc.state = "none"

MemberRows == [row : Numbers, secret : Numbers, pw : Numbers,
               state : {"none", "provisioning", "active", "failed"}]

MemberOK == member \in [Students -> MemberRows] /\ (plc.id = 0 => member = NoMembers)

NodeOK == node \in [data : BOOLEAN, up : BOOLEAN, acc : [Students -> Numbers]]

Mail   == [kind : {"credential", "completion"}, s : Students, id : Numbers, pw : Numbers]
MailOK == mails \subseteq Mail

HistOK == delivered \in [Students -> SUBSET Numbers] /\ proven \subseteq Numbers /\ crashes \in 0..MaxCrashes

\* The type invariant is the conjunction of its parts.
LEMMA TypeParts ==
    /\ TypeOK <=> CtlOK /\ PlcOK /\ MemberOK /\ PipeOK /\ NodeOK /\ MailOK /\ HistOK
    /\ TypeOK' <=> CtlOK' /\ PlcOK' /\ MemberOK' /\ PipeOK' /\ NodeOK' /\ MailOK' /\ HistOK'
  BY DEF TypeOK, CtlOK, PlcOK, MemberOK, MemberRows, PipeOK, Answers, NodeOK, MailOK, Mail, HistOK

\* The parts a proof starts from.
LEMMA TypeShapes ==
    ASSUME TypeInv
    PROVE  /\ CtlOK /\ PlcOK /\ MemberOK /\ PipeOK /\ NodeOK /\ MailOK /\ HistOK
           /\ RowsShaped /\ TasksShaped
  BY TypeParts DEF TypeInv

\* A number that is spent.
LEMMA Spending ==
    ASSUME TypeInv, NEW n \in Nat, Spend(n)
    PROVE  /\ serial \in Nat /\ serial + n <= MaxSerial /\ serial' = serial + n /\ serial' \in Numbers
           /\ \A k \in 0..(serial + n) : k \in Numbers
  BY TypeShapes, LimitAssumption DEF CtlOK, Numbers, Spend

\* The tasks of createPlacement and recreatePlacement: one for the lab, then one
\* for each member, with the password the row gets.
LEMMA Provisioning ==
    ASSUME TypeInv, NEW S \in SUBSET Students, NEW kind \in {"create", "recreate"},
           Spend(1 + Cardinality(S)), UNCHANGED results,
           queue' = Append(queue, LabTask(kind)) \o AddTasks(S, serial + 1)
    PROVE  /\ serial' \in Numbers /\ serial < serial' /\ serial + 1 \in Numbers /\ PipeOK'
           /\ \A i \in DOMAIN Pipeline : i \in DOMAIN Pipeline' /\ Pipeline'[i] = Pipeline[i]
           /\ \A i \in DOMAIN Pipeline' \ DOMAIN Pipeline :
                 \/ i = Len(Pipeline) + 1 /\ Pipeline'[i] = LabTask(kind)
                 \/ i > Len(Pipeline) + 1
                       /\ \E s \in S : Pipeline'[i] = Task("add", s, FreshPw(S, s, serial + 1))
           /\ Len(Pipeline) + 1 \in DOMAIN Pipeline' /\ Pipeline'[Len(Pipeline) + 1] = LabTask(kind)
           /\ \A s \in S :
                 /\ FreshPw(S, s, serial + 1) \in Numbers
                 /\ serial < FreshPw(S, s, serial + 1) /\ FreshPw(S, s, serial + 1) <= serial'
                 /\ \E i \in DOMAIN Pipeline' :
                       /\ i > Len(Pipeline) /\ Pipeline'[i] = Task("add", s, FreshPw(S, s, serial + 1))
                       /\ \A j \in DOMAIN Pipeline' \ DOMAIN Pipeline :
                             Pipeline'[j].kind = "add" /\ Pipeline'[j].s = s => j = i
<1> DEFINE c == Cardinality(S)
           a == AddTasks(S, serial + 1)
           L == Len(Pipeline)
<1>1. IsFiniteSet(S) /\ c \in Nat
  BY StudentsFinite, FS_Subset, FS_CardinalityType
<1>2. /\ serial \in Nat /\ serial + (1 + c) <= MaxSerial /\ serial' = serial + (1 + c)
      /\ serial' \in Numbers /\ \A k \in 0..(serial + (1 + c)) : k \in Numbers
  BY <1>1, Spending
<1>3. /\ a \in Seq(Tasks) /\ Len(a) = c
      /\ \A i \in 1..c : a[i] = Task("add", Order(S)[i], serial + 1 + i) /\ Order(S)[i] \in S
  <2>1. serial + 1 \in Nat /\ serial + 1 + Cardinality(S) <= MaxSerial
    BY <1>1, <1>2
  <2> QED  BY <2>1, AddTasksSeq
<1>4. LabTask(kind) \in Tasks
  BY LimitAssumption DEF LabTask, Task, Tasks, Numbers
<1>5. PipeOK /\ L \in Nat /\ DOMAIN Pipeline = 1..L
  BY TypeShapes, PipelineSeq
<1> HIDE DEF a, c, L
<1>6. queue' = Append(queue, LabTask(kind)) \o a
  BY DEF a
<1>7. /\ PipeOK' /\ DOMAIN Pipeline' = 1..(L + 1 + c)
      /\ \A i \in DOMAIN Pipeline : Pipeline'[i] = Pipeline[i]
      /\ Pipeline'[L + 1] = LabTask(kind)
      /\ \A i \in 1..c : Pipeline'[L + 1 + i] = a[i]
  BY <1>3, <1>4, <1>5, <1>6, PipelineIssued DEF L
<1>8. \A i \in 1..c : serial + 1 + i = FreshPw(S, Order(S)[i], serial + 1)
  <2> TAKE i \in 1..c
  <2>1. Order(S)[i] \in S /\ serial + 1 \in Nat
    BY <1>2, <1>3
  <2> QED  BY <1>1, <2>1, FreshPasswords DEF c
<1>9. ASSUME NEW i \in DOMAIN Pipeline' \ DOMAIN Pipeline
      PROVE  \/ i = L + 1 /\ Pipeline'[i] = LabTask(kind)
             \/ i > L + 1 /\ \E s \in S : Pipeline'[i] = Task("add", s, FreshPw(S, s, serial + 1))
  <2>1. CASE i = L + 1
    BY <1>7, <2>1
  <2>2. CASE i # L + 1
    <3> DEFINE k == i - (L + 1)
    <3>0. i \in 1..(L + 1 + c) /\ i \notin 1..L
      BY <1>5, <1>7
    <3>1. k \in 1..c /\ L + 1 + k = i /\ i > L + 1
      <4>1. i \in Int /\ i <= L + 1 + c /\ i > L + 1
        BY <1>1, <1>5, <2>2, <3>0
      <4> QED  BY <1>1, <1>5, <4>1
    <3> HIDE DEF k
    <3>2. Pipeline'[i] = Task("add", Order(S)[k], FreshPw(S, Order(S)[k], serial + 1))
      BY <1>3, <1>7, <1>8, <3>1
    <3> QED  BY <1>3, <3>1, <3>2
  <2> QED  BY <2>1, <2>2
<1>10. ASSUME NEW s \in S
       PROVE  /\ FreshPw(S, s, serial + 1) \in Numbers
              /\ serial < FreshPw(S, s, serial + 1) /\ FreshPw(S, s, serial + 1) <= serial'
              /\ \E i \in DOMAIN Pipeline' :
                    /\ i > L /\ Pipeline'[i] = Task("add", s, FreshPw(S, s, serial + 1))
                    /\ \A j \in DOMAIN Pipeline' \ DOMAIN Pipeline :
                          Pipeline'[j].kind = "add" /\ Pipeline'[j].s = s => j = i
  <2>1. FreshPw(S, s, serial + 1) \in (serial + 1 + 1)..(serial + 1 + c)
    BY <1>1, <1>2, FreshPasswords DEF c
  <2>2. /\ FreshPw(S, s, serial + 1) \in Numbers
        /\ serial < FreshPw(S, s, serial + 1) /\ FreshPw(S, s, serial + 1) <= serial'
    BY <1>1, <1>2, <2>1
  <2>3. PICK k \in 1..c : Order(S)[k] = s
    BY <1>1, OrderLists DEF c
  <2>4. \A m \in 1..c : Order(S)[m] = s => m = k
    BY <1>1, <2>3, OrderLists DEF c
  <2>5. Pipeline'[L + 1 + k] = Task("add", s, FreshPw(S, s, serial + 1))
    BY <1>3, <1>7, <1>8, <2>3
  <2>6. L + 1 + k \in DOMAIN Pipeline' /\ L + 1 + k > L
    BY <1>1, <1>5, <1>7
  <2>7. ASSUME NEW j \in DOMAIN Pipeline' \ DOMAIN Pipeline,
               Pipeline'[j].kind = "add", Pipeline'[j].s = s
        PROVE  j = L + 1 + k
    <3>1. j # L + 1
      <4>1. LabTask(kind).kind # "add"
        BY DEF LabTask, Task
      <4> QED  BY <1>7, <2>7, <4>1
    <3> DEFINE m == j - (L + 1)
    <3>2. m \in 1..c /\ L + 1 + m = j
      BY <1>1, <1>5, <1>7, <3>1
    <3> HIDE DEF m
    <3>3. Pipeline'[j].s = Order(S)[m]
      <4>1. Pipeline'[j] = Task("add", Order(S)[m], serial + 1 + m)
        BY <1>3, <1>7, <3>2
      <4> QED  BY <4>1 DEF Task
    <3> QED  BY <2>4, <2>7, <3>2, <3>3
  <2> QED  BY <2>2, <2>5, <2>6, <2>7
<1>11. \A i \in DOMAIN Pipeline : i \in DOMAIN Pipeline'
  BY <1>1, <1>5, <1>7
<1>12. serial < serial' /\ serial + 1 \in Numbers /\ L + 1 \in DOMAIN Pipeline'
  BY <1>1, <1>2, <1>5, <1>7
<1> QED  BY <1>2, <1>7, <1>9, <1>10, <1>11, <1>12 DEF L

\* The initial state is well typed.
LEMMA TypeInit == Init => TypeInv
<1> SUFFICES ASSUME Init
             PROVE  TypeInv
  OBVIOUS
<1>1. 0 \in Numbers
  BY LimitAssumption DEF Numbers
<1>2. queue = <<>> /\ results = <<>> /\ Len(<<>>) = 0
  BY DEF Init
<1>3. PipeOK
  BY <1>2 DEF PipeOK
<1>4. DOMAIN Pipeline = {}
  BY <1>2, <1>3, PipelineSeq
<1>5. CtlOK /\ PlcOK
  BY <1>1 DEF Init, CtlOK, PlcOK, NoPlc
<1>6. NoMember \in MemberRows
  BY <1>1 DEF NoMember, MemberRows
<1>7. MemberOK /\ NodeOK
  BY <1>1, <1>6 DEF Init, MemberOK, NodeOK, NoMembers, NoAccounts
<1>8. MailOK /\ HistOK
  BY LimitAssumption DEF Init, MailOK, HistOK
<1>9. RowsShaped
  BY DEF Init, RowsShaped, NoPlc, NoMembers, NoMember
<1> QED  BY <1>3, <1>4, <1>5, <1>7, <1>8, <1>9, TypeParts DEF TypeInv, TasksShaped

\* createPlacement and recreatePlacement.
LEMMA ProvisionType ==
    ASSUME TypeInv, CreatePlacement \/ RecreatePlacement
    PROVE  TypeInv'
<1> DEFINE S == IF CreatePlacement THEN roster ELSE Members
           kind == IF CreatePlacement THEN "create" ELSE "recreate"
<1>0. /\ CtlOK /\ PlcOK /\ MemberOK /\ PipeOK /\ NodeOK /\ MailOK /\ HistOK
      /\ RowsShaped /\ TasksShaped
  BY TypeShapes
<1>1. S \in SUBSET Students /\ kind \in {"create", "recreate"}
  BY <1>0 DEF CtlOK, Members
<1>2. /\ Spend(1 + Cardinality(S))
      /\ queue' = Append(queue, LabTask(kind)) \o AddTasks(S, serial + 1)
      /\ UNCHANGED <<roster, results, node, mails, hist>>
  BY DEF CreatePlacement, RecreatePlacement
<1> HIDE DEF S, kind
<1>3. /\ serial' \in Numbers /\ serial < serial' /\ serial + 1 \in Numbers /\ PipeOK'
      /\ \A i \in DOMAIN Pipeline : i \in DOMAIN Pipeline' /\ Pipeline'[i] = Pipeline[i]
      /\ \A i \in DOMAIN Pipeline' \ DOMAIN Pipeline :
            \/ Pipeline'[i] = LabTask(kind)
            \/ \E s \in S : Pipeline'[i] = Task("add", s, FreshPw(S, s, serial + 1))
      /\ \A s \in S : /\ FreshPw(S, s, serial + 1) \in Numbers
                      /\ serial < FreshPw(S, s, serial + 1) /\ FreshPw(S, s, serial + 1) <= serial'
  BY <1>1, <1>2, Provisioning
<1>4. CtlOK' /\ NodeOK' /\ MailOK' /\ HistOK'
  BY <1>0, <1>2, <1>3 DEF CtlOK, NodeOK, MailOK, HistOK, hist
<1>5. PlcOK' /\ (plc'.id # 0) /\ plc'.id <= serial'
  <2>1. serial \in Nat /\ serial' \in Nat
    BY <1>0, <1>3, LimitAssumption DEF CtlOK, Numbers
  <2>2. CASE CreatePlacement
    BY <1>0, <1>3, <2>1, <2>2 DEF CreatePlacement, PlcOK
  <2>3. CASE RecreatePlacement
    BY <1>0, <1>3, <2>1, <2>3 DEF RecreatePlacement, PlcOK, RowsShaped, Numbers
  <2> QED  BY <2>2, <2>3
<1>6. ASSUME NEW s \in Students
      PROVE  /\ member'[s] \in MemberRows
             /\ member'[s].row <= serial' /\ (member'[s].row = 0 => member'[s] = NoMember)
  <2> DEFINE f == FreshPw(S, s, serial + 1)
  <2>1. serial \in Nat /\ serial' \in Nat /\ 0 \in Numbers
    BY <1>0, <1>3, LimitAssumption DEF CtlOK, Numbers
  <2>2. member[s] \in MemberRows /\ member[s].row <= serial /\ member[s].row \in Nat
    BY <1>0, LimitAssumption DEF MemberOK, MemberRows, RowsShaped, Numbers
  <2>3. s \in S => f \in Numbers /\ f > serial /\ f <= serial' /\ f \in Nat
    BY <1>3, LimitAssumption DEF Numbers
  <2> HIDE DEF f
  <2>4. CASE s \notin S
    <3>1. member'[s] = NoMember
      BY <2>4 DEF CreatePlacement, RecreatePlacement, S
    <3> QED  BY <2>1, <3>1 DEF NoMember, MemberRows
  <2>5. CASE s \in S /\ CreatePlacement
    <3>1. member'[s] = [row |-> f, state |-> "provisioning", secret |-> f, pw |-> f]
      BY <2>5 DEF CreatePlacement, NewMember, S, f
    <3> QED  BY <2>1, <2>3, <2>5, <3>1 DEF MemberRows
  <2>6. CASE s \in S /\ ~CreatePlacement
    <3>1. member'[s] = [row |-> member[s].row, state |-> "provisioning", secret |-> f, pw |-> f]
      BY <2>6 DEF RecreatePlacement, NewMember, S, f
    <3>2. member[s].row # 0
      BY <2>6 DEF S, Members
    <3> QED  BY <1>3, <2>1, <2>2, <2>3, <2>6, <3>1, <3>2 DEF MemberRows
  <2> QED  BY <2>4, <2>5, <2>6
<1>7. member' \in [Students -> MemberRows]
  <2>1. \E g : member' = [s \in Students |-> g[s]]
    <3>1. DOMAIN member' = Students /\ member' = [s \in Students |-> member'[s]]
      BY DEF CreatePlacement, RecreatePlacement
    <3> QED  BY <3>1
  <2> QED  BY <1>6, <2>1
<1>8. MemberOK' /\ RowsShaped'
  BY <1>5, <1>6, <1>7 DEF MemberOK, RowsShaped
<1>9. TasksShaped'
  <2>1. LabTask(kind).kind \notin {"add", "remove"}
    BY <1>1 DEF LabTask, Task
  <2>2. \A s : Task("add", s, FreshPw(S, s, serial + 1)).s = s
    BY DEF Task
  <2> QED  BY <1>0, <1>1, <1>3, <2>1, <2>2 DEF TasksShaped
<1> QED  BY <1>3, <1>4, <1>5, <1>8, <1>9, TypeParts DEF TypeInv

\* One more task is issued.
LEMMA Issuing ==
    ASSUME TypeInv, NEW t \in Tasks, t.kind \in {"add", "remove"} => t.s \in Students,
           UNCHANGED results, queue' = Append(queue, t)
    PROVE  /\ PipeOK' /\ TasksShaped'
           /\ Len(Pipeline) \in Nat /\ DOMAIN Pipeline = 1..Len(Pipeline)
           /\ DOMAIN Pipeline' = 1..(Len(Pipeline) + 1)
           /\ \A i \in DOMAIN Pipeline : i \in DOMAIN Pipeline' /\ Pipeline'[i] = Pipeline[i]
           /\ \A i \in DOMAIN Pipeline' \ DOMAIN Pipeline : i = Len(Pipeline) + 1 /\ Pipeline'[i] = t
           /\ Len(Pipeline) + 1 \in DOMAIN Pipeline' /\ Pipeline'[Len(Pipeline) + 1] = t
<1>1. PipeOK /\ TasksShaped
  BY TypeShapes
<1>2. Len(Pipeline) \in Nat /\ DOMAIN Pipeline = 1..Len(Pipeline)
  BY <1>1, PipelineSeq
<1>3. /\ PipeOK' /\ DOMAIN Pipeline' = 1..(Len(Pipeline) + 1)
      /\ \A i \in DOMAIN Pipeline : Pipeline'[i] = Pipeline[i]
      /\ Pipeline'[Len(Pipeline) + 1] = t
  BY <1>1, PipelineIssuedOne
<1>4. \A i \in DOMAIN Pipeline : i \in DOMAIN Pipeline'
  BY <1>2, <1>3
<1>5. \A i \in DOMAIN Pipeline' : i \notin DOMAIN Pipeline => i = Len(Pipeline) + 1
  BY <1>2, <1>3
<1>6. TasksShaped'
  BY <1>1, <1>3, <1>5 DEF TasksShaped
<1>7. Len(Pipeline) + 1 \in DOMAIN Pipeline'
  BY <1>2, <1>3
<1> QED  BY <1>2, <1>3, <1>4, <1>5, <1>6, <1>7

\* The tasks that are issued one at a time are tasks.
LEMMA TaskTypes ==
    /\ \A kind \in {"create", "recreate", "destroy"} :
          LabTask(kind) \in Tasks /\ LabTask(kind).kind = kind /\ LabTask(kind).s = Nobody
    /\ \A kind \in {"add", "remove"}, s \in Students, pw \in Numbers :
          /\ Task(kind, s, pw) \in Tasks /\ Task(kind, s, pw).kind = kind
          /\ Task(kind, s, pw).s = s /\ Task(kind, s, pw).pw = pw
<1>1. 0 \in Numbers
  BY LimitAssumption DEF Numbers
<1> QED  BY <1>1 DEF LabTask, Task, Tasks

\* retryPlacement, destroyPlacement and forceDeletePlacement.
LEMMA LabTaskType ==
    ASSUME TypeInv, RetryPlacement \/ DestroyPlacement \/ ForceDeletePlacement
    PROVE  TypeInv'
<1>0. /\ CtlOK /\ PlcOK /\ MemberOK /\ PipeOK /\ NodeOK /\ MailOK /\ HistOK
      /\ RowsShaped /\ TasksShaped
  BY TypeShapes
<1>1. /\ Spend(1) /\ UNCHANGED <<roster, results, node, mails, hist>>
      /\ \E kind \in {"create", "destroy"} : queue' = Append(queue, LabTask(kind))
  BY DEF RetryPlacement, DestroyPlacement, ForceDeletePlacement
<1>2. PipeOK' /\ TasksShaped'
  BY <1>1, Issuing, TaskTypes
<1>3. /\ serial \in Nat /\ serial' = serial + 1 /\ serial' \in Numbers /\ 0 \in Numbers
  BY <1>1, Spending, LimitAssumption DEF Numbers
<1>4. CtlOK' /\ NodeOK' /\ MailOK' /\ HistOK'
  BY <1>0, <1>1, <1>3 DEF CtlOK, NodeOK, MailOK, HistOK, hist
<1>5. \A s \in Students : member[s].row \in Nat /\ member[s].row <= serial
  BY <1>0, LimitAssumption DEF MemberOK, MemberRows, RowsShaped, Numbers
<1>6. plc.id \in Nat /\ plc.id <= serial
  BY <1>0, LimitAssumption DEF PlcOK, RowsShaped, Numbers
<1>7. CASE RetryPlacement \/ DestroyPlacement
  <2>1. PlcOK' /\ plc'.id = plc.id /\ plc.id # 0 /\ UNCHANGED member
    BY <1>0, <1>7 DEF RetryPlacement, DestroyPlacement, PlcOK
  <2>2. MemberOK' /\ RowsShaped'
    BY <1>0, <1>3, <1>5, <1>6, <2>1 DEF MemberOK, RowsShaped
  <2> QED  BY <1>2, <1>4, <2>1, <2>2, TypeParts DEF TypeInv
<1>8. CASE ForceDeletePlacement
  <2>1. plc' = NoPlc /\ member' = NoMembers
    BY <1>8 DEF ForceDeletePlacement
  <2>2. PlcOK' /\ plc'.id = 0
    BY <1>3, <2>1 DEF PlcOK, NoPlc
  <2>3. NoMember \in MemberRows /\ NoMember.row = 0
    BY <1>3 DEF NoMember, MemberRows
  <2>4. MemberOK' /\ RowsShaped'
    BY <1>3, <2>1, <2>2, <2>3 DEF MemberOK, RowsShaped, NoMembers
  <2> QED  BY <1>2, <1>4, <2>2, <2>4, TypeParts DEF TypeInv
<1> QED  BY <1>7, <1>8

\* addStudentToLab and removeStudentFromLab.
LEMMA RosterType ==
    ASSUME TypeInv, NEW s \in Students, AddStudent(s) \/ RemoveStudent(s)
    PROVE  TypeInv'
<1>0. /\ CtlOK /\ PlcOK /\ MemberOK /\ PipeOK /\ NodeOK /\ MailOK /\ HistOK
      /\ RowsShaped /\ TasksShaped
  BY TypeShapes
<1>1. Spend(1) /\ UNCHANGED <<plc, results, node, mails, hist>>
  BY DEF AddStudent, RemoveStudent
<1>2. serial \in Nat /\ serial' = serial + 1 /\ serial' \in Numbers /\ 0 \in Numbers
  BY <1>1, Spending, LimitAssumption DEF Numbers
<1>3. roster' \subseteq Students
  BY <1>0 DEF AddStudent, RemoveStudent, CtlOK
<1>4. CtlOK' /\ PlcOK' /\ NodeOK' /\ MailOK' /\ HistOK'
  BY <1>0, <1>1, <1>2, <1>3 DEF CtlOK, PlcOK, NodeOK, MailOK, HistOK, hist
<1>5. /\ \A p \in Students : member[p].row \in Nat /\ member[p].row <= serial
      /\ plc.id \in Nat /\ plc.id <= serial
  BY <1>0, LimitAssumption DEF MemberOK, MemberRows, PlcOK, RowsShaped, Numbers
<1>6. CASE plc.id = 0
  <2>1. UNCHANGED <<member, queue>>
    BY <1>6 DEF AddStudent, RemoveStudent
  <2>2. PipeOK' /\ TasksShaped'
    BY <1>0, <1>1, <2>1, PipelineSame DEF TasksShaped
  <2>3. MemberOK' /\ RowsShaped'
    BY <1>0, <1>1, <1>2, <1>5, <2>1 DEF MemberOK, RowsShaped
  <2> QED  BY <1>4, <2>2, <2>3, TypeParts DEF TypeInv
<1>7. CASE plc.id # 0
  <2>1. PICK m \in {NewMember(serial + 1), NoMember}, t \in {Task("add", s, serial + 1), Task("remove", s, 0)} :
           member' = [member EXCEPT ![s] = m] /\ queue' = Append(queue, t)
    BY <1>7 DEF AddStudent, RemoveStudent
  <2>2. t \in Tasks /\ t.s \in Students
    BY <1>2, TaskTypes
  <2>3. PipeOK' /\ TasksShaped'
    BY <1>1, <2>1, <2>2, Issuing
  <2>4. /\ m \in MemberRows /\ m.row <= serial' /\ m.row \in Nat /\ (m.row = 0 => m = NoMember)
    BY <1>2 DEF NewMember, NoMember, MemberRows
  <2>5. member' \in [Students -> MemberRows]
    BY <1>0, <2>1, <2>4 DEF MemberOK
  <2>6. \A p \in Students : member'[p] = IF p = s THEN m ELSE member[p]
    BY <1>0, <2>1 DEF MemberOK
  <2>7. MemberOK' /\ RowsShaped'
    BY <1>0, <1>1, <1>2, <1>5, <1>7, <2>4, <2>5, <2>6 DEF MemberOK, RowsShaped
  <2> QED  BY <1>4, <2>3, <2>7, TypeParts DEF TypeInv
<1> QED  BY <1>6, <1>7

\* consumePlacementCredential.
LEMMA RevealType ==
    ASSUME TypeInv, NEW s \in Students, RevealCredential(s)
    PROVE  TypeInv'
<1>0. /\ CtlOK /\ PlcOK /\ MemberOK /\ PipeOK /\ NodeOK /\ MailOK /\ HistOK
      /\ RowsShaped /\ TasksShaped
  BY TypeShapes
<1>1. UNCHANGED <<serial, roster, plc, queue, results, node, mails, proven, crashes>>
  BY DEF RevealCredential, pipe
<1>2. CtlOK' /\ PlcOK' /\ NodeOK' /\ MailOK'
  BY <1>0, <1>1 DEF CtlOK, PlcOK, NodeOK, MailOK
<1>3. PipeOK' /\ TasksShaped'
  BY <1>0, <1>1, PipelineSame DEF TasksShaped
<1>4. /\ member[s] \in MemberRows /\ member[s].state = "active" /\ member[s].secret \in Numbers
      /\ member' = [member EXCEPT ![s].secret = 0] /\ 0 \in Numbers
  BY <1>0, LimitAssumption DEF RevealCredential, MemberOK, MemberRows, Numbers
<1>5. HistOK'
  BY <1>0, <1>1, <1>4 DEF RevealCredential, HistOK
<1>6. /\ member' \in [Students -> MemberRows]
      /\ \A p \in Students : /\ member'[p].row = member[p].row
                             /\ p # s => member'[p] = member[p]
  BY <1>0, <1>4 DEF MemberOK, MemberRows
<1>7. member[s].row # 0
  BY <1>0, <1>4 DEF RowsShaped, NoMember
<1>8. plc.id # 0
  BY <1>0, <1>4 DEF MemberOK, NoMembers, NoMember
<1>9. MemberOK' /\ RowsShaped'
  BY <1>0, <1>1, <1>6, <1>7, <1>8 DEF MemberOK, RowsShaped
<1> QED  BY <1>2, <1>3, <1>5, <1>9, TypeParts DEF TypeInv

\* What a handler makes of the node is a node.
LEMMA NodeTypes ==
    ASSUME NodeOK, NEW t \in Tasks, t.kind \in {"add", "remove"} => t.s \in Students
    PROVE  /\ After(t) \in [data : BOOLEAN, up : BOOLEAN, acc : [Students -> Numbers]]
           /\ Raises(t) => NodeOK'
<1> DEFINE N == [data : BOOLEAN, up : BOOLEAN, acc : [Students -> Numbers]]
<1>1. node \in N /\ 0 \in Numbers /\ t.pw \in Numbers
      /\ t.kind \in {"create", "recreate", "destroy", "add", "remove"}
  BY LimitAssumption DEF NodeOK, Numbers, Tasks
<1>2. NoAccounts \in [Students -> Numbers]
  BY <1>1 DEF NoAccounts
<1>3. LabCreated \in N /\ ContainerRecreated \in N /\ LabDestroyed \in N
  BY <1>2 DEF LabCreated, ContainerRecreated, LabDestroyed, FreshContainer
<1>4. NoContainer \in N /\ [NoContainer EXCEPT !.data = TRUE] \in N /\ [node EXCEPT !.data = TRUE] \in N
  BY <1>1, <1>2 DEF NoContainer
<1>5. StudentAdded(t) \in N /\ StudentRemoved(t) \in N
  BY <1>1 DEF StudentAdded, StudentRemoved
<1>6. After(t) \in N
  BY <1>1, <1>3, <1>5 DEF After
<1>7. Raises(t) => node' \in N
  BY <1>1, <1>4, <1>6 DEF Raises
<1> QED  BY <1>6, <1>7 DEF NodeOK

\* The node runs a task: the pipeline is what it was, and the results end with
\* the answer.
LEMMA Running ==
    ASSUME TypeInv, RunTask
    PROVE  /\ PipeOK' /\ Pipeline' = Pipeline
           /\ Head(queue) \in Tasks
           /\ Head(queue).kind \in {"add", "remove"} => Head(queue).s \in Students
           /\ Len(results) \in Nat /\ DOMAIN results = 1..Len(results)
           /\ Len(results) + 1 \in DOMAIN Pipeline /\ Pipeline[Len(results) + 1] = Head(queue)
           /\ DOMAIN results' = 1..(Len(results) + 1)
           /\ \A i \in DOMAIN results : i \in DOMAIN results' /\ results'[i] = results[i]
           /\ results'[Len(results) + 1].task = Head(queue)
           /\ results'[Len(results) + 1].ok =>
                 /\ CanWork(Head(queue)) /\ node' = After(Head(queue))
                 /\ proven' = IF Head(queue).kind = "add" THEN proven \cup {Head(queue).pw} ELSE proven
           /\ ~results'[Len(results) + 1].ok => Raises(Head(queue)) /\ proven' = proven
<1>0. PipeOK /\ TasksShaped
  BY TypeShapes
<1>1. PICK b \in BOOLEAN :
         /\ queue # <<>> /\ queue' = Tail(queue)
         /\ results' = Append(results, [task |-> Head(queue), ok |-> b])
         /\ b => /\ CanWork(Head(queue)) /\ node' = After(Head(queue))
                 /\ proven' = IF Head(queue).kind = "add" THEN proven \cup {Head(queue).pw} ELSE proven
         /\ ~b => Raises(Head(queue)) /\ proven' = proven
  BY DEF RunTask
<1>2. /\ PipeOK' /\ Pipeline' = Pipeline
      /\ Head(queue) \in Tasks
      /\ Len(results) + 1 \in DOMAIN Pipeline /\ Pipeline[Len(results) + 1] = Head(queue)
      /\ DOMAIN results' = 1..(Len(results) + 1)
      /\ \A i \in DOMAIN results : results'[i] = results[i]
      /\ results'[Len(results) + 1] = [task |-> Head(queue), ok |-> b]
  BY <1>0, <1>1, PipelineRun
<1>3. Len(results) \in Nat /\ DOMAIN results = 1..Len(results)
  BY <1>0, PipelineSeq
<1>4. Head(queue).kind \in {"add", "remove"} => Head(queue).s \in Students
  BY <1>0, <1>2 DEF TasksShaped
<1>5. \A i \in DOMAIN results : i \in DOMAIN results'
  BY <1>2, <1>3
<1>6. results'[Len(results) + 1].task = Head(queue) /\ results'[Len(results) + 1].ok = b
  BY <1>2
<1> QED  BY <1>1, <1>2, <1>3, <1>4, <1>5, <1>6

\* The node runs a task.
LEMMA RunType ==
    ASSUME TypeInv, RunTask
    PROVE  TypeInv'
<1>0. /\ CtlOK /\ PlcOK /\ MemberOK /\ PipeOK /\ NodeOK /\ MailOK /\ HistOK
      /\ RowsShaped /\ TasksShaped
  BY TypeShapes
<1>1. UNCHANGED <<serial, roster, plc, member, mails, delivered, crashes>>
  BY DEF RunTask, ctl
<1>2. PipeOK' /\ TasksShaped'
  BY <1>0, Running DEF TasksShaped
<1>3. NodeOK'
  <2>1. CASE node' = After(Head(queue))
    BY <1>0, <2>1, Running, NodeTypes DEF NodeOK
  <2>2. CASE Raises(Head(queue))
    BY <1>0, <2>2, Running, NodeTypes
  <2> QED  BY <2>1, <2>2, Running
<1>4. HistOK'
  <2>1. proven' \subseteq Numbers
    BY <1>0, Running DEF HistOK, Tasks
  <2> QED  BY <1>0, <1>1, <2>1 DEF HistOK
<1>5. CtlOK' /\ PlcOK' /\ MemberOK' /\ MailOK' /\ RowsShaped'
  BY <1>0, <1>1 DEF CtlOK, PlcOK, MemberOK, MailOK, RowsShaped
<1> QED  BY <1>2, <1>3, <1>4, <1>5, TypeParts DEF TypeInv

\* A result is handled, or lost in a crash.
LEMMA Handles ==
    ASSUME TypeInv, results # <<>>, results' = Tail(results), UNCHANGED queue
    PROVE  /\ PipeOK' /\ TasksShaped'
           /\ Head(results) \in Answers /\ Head(results) = results[1] /\ 1 \in DOMAIN results
           /\ Head(results).task.kind \in {"add", "remove"} => Head(results).task.s \in Students
           /\ Len(Pipeline) \in Nat /\ DOMAIN Pipeline = 1..Len(Pipeline)
           /\ 1 \in DOMAIN Pipeline /\ Pipeline[1] = Head(results).task
           /\ \A i \in DOMAIN Pipeline' : i \in Nat \ {0} /\ i + 1 \in DOMAIN Pipeline /\ Pipeline'[i] = Pipeline[i + 1]
           /\ \A i \in DOMAIN Pipeline : i # 1 => i - 1 \in DOMAIN Pipeline' /\ Pipeline'[i - 1] = Pipeline[i]
           /\ \A i \in DOMAIN results' : i \in Nat /\ i + 1 \in DOMAIN results /\ results'[i] = results[i + 1]
<1>0. PipeOK /\ TasksShaped
  BY TypeShapes
<1>1. /\ PipeOK'
      /\ 1 \in DOMAIN results /\ Head(results) = results[1] /\ Head(results) \in Answers
      /\ 1 \in DOMAIN Pipeline /\ Pipeline[1] = Head(results).task
      /\ DOMAIN Pipeline' = 1..(Len(Pipeline) - 1)
      /\ \A i \in DOMAIN Pipeline' : i + 1 \in DOMAIN Pipeline /\ Pipeline'[i] = Pipeline[i + 1]
      /\ DOMAIN results' = 1..(Len(results) - 1)
      /\ \A i \in DOMAIN results' : i + 1 \in DOMAIN results /\ results'[i] = results[i + 1]
  BY <1>0, PipelineHandled
<1>2. Len(Pipeline) \in Nat /\ DOMAIN Pipeline = 1..Len(Pipeline) /\ Len(results) \in Nat
  BY <1>0, PipelineSeq
<1>3. TasksShaped'
  BY <1>0, <1>1 DEF TasksShaped
<1>4. Head(results).task.kind \in {"add", "remove"} => Head(results).task.s \in Students
  BY <1>0, <1>1 DEF TasksShaped
<1>5. ASSUME NEW i \in DOMAIN Pipeline, i # 1
      PROVE  i - 1 \in DOMAIN Pipeline' /\ Pipeline'[i - 1] = Pipeline[i]
  <2>1. i - 1 \in 1..(Len(Pipeline) - 1) /\ (i - 1) + 1 = i
    BY <1>2, <1>5
  <2> QED  BY <1>1, <2>1
<1>6. (\A i \in DOMAIN Pipeline' : i \in Nat \ {0}) /\ (\A i \in DOMAIN results' : i \in Nat)
  BY <1>1, <1>2
<1> QED  BY <1>1, <1>2, <1>3, <1>4, <1>5, <1>6

\* handleResult.
LEMMA ResultType ==
    ASSUME TypeInv, HandleResult
    PROVE  TypeInv'
<1>0. /\ CtlOK /\ PlcOK /\ MemberOK /\ PipeOK /\ NodeOK /\ MailOK /\ HistOK
      /\ RowsShaped /\ TasksShaped
  BY TypeShapes
<1>1. /\ results # <<>> /\ results' = Tail(results)
      /\ UNCHANGED <<serial, roster, queue, node, hist>>
  BY DEF HandleResult, CreateResult, DestroyResult, AddResult, OtherResult, Handling
<1>2. PipeOK' /\ TasksShaped'
  BY <1>1, Handles
<1>3. CtlOK' /\ NodeOK' /\ HistOK'
  BY <1>0, <1>1 DEF CtlOK, NodeOK, HistOK, hist
<1>4. CASE CreateResult
  <2>1. PlcOK' /\ plc'.id = plc.id /\ UNCHANGED <<member, mails>>
    BY <1>0, <1>4 DEF CreateResult, PlcOK
  <2>2. MemberOK' /\ RowsShaped' /\ MailOK'
    BY <1>0, <1>1, <2>1 DEF MemberOK, RowsShaped, MailOK
  <2> QED  BY <1>2, <1>3, <2>1, <2>2, TypeParts DEF TypeInv
<1>5. CASE DestroyResult
  <2>1. \/ plc' = NoPlc /\ member' = NoMembers
        \/ PlcOK' /\ plc'.id = plc.id /\ UNCHANGED member
    BY <1>0, <1>5 DEF DestroyResult, PlcOK
  <2>2. 0 \in Numbers /\ serial \in Nat
    BY <1>0, LimitAssumption DEF CtlOK, Numbers
  <2>3. NoMember \in MemberRows /\ NoMember.row = 0
    BY <2>2 DEF NoMember, MemberRows
  <2>4. PlcOK' /\ MemberOK' /\ RowsShaped'
    <3>1. CASE plc' = NoPlc /\ member' = NoMembers
      BY <1>1, <2>2, <2>3, <3>1 DEF PlcOK, NoPlc, MemberOK, NoMembers, RowsShaped
    <3>2. CASE PlcOK' /\ plc'.id = plc.id /\ UNCHANGED member
      BY <1>0, <1>1, <3>2 DEF MemberOK, RowsShaped
    <3> QED  BY <2>1, <3>1, <3>2
  <2>5. MailOK'
    BY <1>0, <1>5 DEF DestroyResult, MailOK
  <2> QED  BY <1>2, <1>3, <2>4, <2>5, TypeParts DEF TypeInv
<1>6. CASE AddResult
  <2> DEFINE t  == Head(results).task
             ok == Head(results).ok
             mb == Marked(t.s, ok)
  <2>1. /\ member' = mb /\ t.kind = "add"
        /\ plc' = IF ok /\ Complete(mb) THEN [plc EXCEPT !.mailed = "claimed"] ELSE plc
        /\ mails' = mails \cup (IF ok THEN CredentialMails(t.s, mb) ELSE {})
                          \cup (IF ok /\ Complete(mb) THEN {CompletionMail} ELSE {})
    BY <1>6 DEF AddResult, Handling
  <2>2. t.s \in Students
    BY <1>1, <2>1, Handles
  <2>3. /\ mb \in [Students -> MemberRows]
        /\ \A p \in Students :
              /\ mb[p].row = member[p].row /\ mb[p].secret = member[p].secret /\ mb[p].pw = member[p].pw
              /\ (p # t.s \/ member[p].row = 0) => mb[p] = member[p]
    BY <1>0, <2>2 DEF Marked, MemberOK, MemberRows
  <2>4. plc.id = 0 => mb = member
    BY <1>0, <2>2 DEF Marked, MemberOK, NoMembers, NoMember
  <2> HIDE DEF t, ok, mb
  <2>5. PlcOK' /\ plc'.id = plc.id
    BY <1>0, <2>1 DEF PlcOK
  <2>6. MemberOK' /\ RowsShaped'
    BY <1>0, <1>1, <2>1, <2>3, <2>4, <2>5 DEF MemberOK, RowsShaped
  <2>7. CredentialMails(t.s, mb) \subseteq Mail
    BY <2>2, <2>3 DEF CredentialMails, Mail, MemberRows
  <2>8. CompletionMail \in Mail
    BY <1>0, PeopleAssumption, LimitAssumption DEF CompletionMail, Mail, PlcOK, Numbers
  <2>9. MailOK'
    BY <1>0, <2>1, <2>7, <2>8 DEF MailOK
  <2> QED  BY <1>2, <1>3, <2>5, <2>6, <2>9, TypeParts DEF TypeInv
<1>7. CASE OtherResult
  <2>1. PlcOK' /\ MemberOK' /\ RowsShaped' /\ MailOK'
    BY <1>0, <1>1, <1>7 DEF OtherResult, PlcOK, MemberOK, RowsShaped, MailOK
  <2> QED  BY <1>2, <1>3, <2>1, TypeParts DEF TypeInv
<1> QED  BY <1>4, <1>5, <1>6, <1>7 DEF HandleResult

\* After an e-mail.
LEMMA MailType ==
    ASSUME TypeInv, NEW m \in mails, CredentialMailed(m) \/ CompletionMailed(m) \/ MailFails(m)
    PROVE  TypeInv'
<1>0. /\ CtlOK /\ PlcOK /\ MemberOK /\ PipeOK /\ NodeOK /\ MailOK /\ HistOK
      /\ RowsShaped /\ TasksShaped
  BY TypeShapes
<1>1. UNCHANGED <<serial, roster, queue, results, node, proven, crashes>>
  BY DEF CredentialMailed, CompletionMailed, MailFails, pipe, hist
<1>2. PipeOK' /\ TasksShaped'
  BY <1>0, <1>1, PipelineSame DEF TasksShaped
<1>3. CtlOK' /\ NodeOK' /\ MailOK'
  BY <1>0, <1>1 DEF CtlOK, NodeOK, MailOK, CredentialMailed, CompletionMailed, MailFails
<1>4. m.s \in Students /\ m.pw \in Numbers /\ 0 \in Numbers
  BY <1>0, LimitAssumption DEF MailOK, Mail, Numbers
<1>5. CASE CredentialMailed(m)
  <2>1. HistOK' /\ PlcOK' /\ plc' = plc
    BY <1>0, <1>1, <1>4, <1>5 DEF CredentialMailed, HistOK, PlcOK
  <2>2. /\ member' \in [Students -> MemberRows]
        /\ \A p \in Students : /\ member'[p].row = member[p].row
                               /\ p # m.s \/ member[m.s].row # m.id => member'[p] = member[p]
    BY <1>0, <1>4, <1>5 DEF CredentialMailed, MemberOK, MemberRows
  <2>3. member[m.s].row = 0 => member'[m.s] = NoMember
    BY <1>0, <1>4, <1>5 DEF CredentialMailed, MemberOK, MemberRows, RowsShaped, NoMember
  <2>4. RowsShaped'
    BY <1>0, <1>1, <1>4, <2>1, <2>2, <2>3 DEF RowsShaped
  <2>5. plc.id = 0 => member' = NoMembers
    <3> SUFFICES ASSUME plc.id = 0
                 PROVE  member' = NoMembers
      OBVIOUS
    <3>1. \A p \in Students : member'[p] = NoMember
      BY <1>0, <2>2, <2>4 DEF MemberOK, NoMembers, RowsShaped, NoMember
    <3> QED  BY <2>2, <3>1 DEF NoMembers
  <2>6. MemberOK'
    BY <2>1, <2>2, <2>5 DEF MemberOK
  <2> QED  BY <1>2, <1>3, <2>1, <2>4, <2>6, TypeParts DEF TypeInv
<1>6. CASE CompletionMailed(m) \/ MailFails(m)
  <2>1. PlcOK' /\ plc'.id = plc.id /\ UNCHANGED <<member, delivered>>
    BY <1>0, <1>6 DEF CompletionMailed, MailFails, PlcOK, hist
  <2>2. MemberOK' /\ RowsShaped' /\ HistOK'
    BY <1>0, <1>1, <2>1 DEF MemberOK, RowsShaped, HistOK
  <2> QED  BY <1>2, <1>3, <2>1, <2>2, TypeParts DEF TypeInv
<1> QED  BY <1>5, <1>6

\* The controller dies.
LEMMA CrashType ==
    ASSUME TypeInv, Crash
    PROVE  TypeInv'
<1>0. /\ CtlOK /\ PlcOK /\ MemberOK /\ PipeOK /\ NodeOK /\ MailOK /\ HistOK
      /\ RowsShaped /\ TasksShaped
  BY TypeShapes
<1>1. UNCHANGED <<serial, roster, plc, member, queue, node, delivered, proven>> /\ mails' = {}
  BY DEF Crash, ctl
<1>4. PipeOK' /\ TasksShaped'
  <2>1. CASE UNCHANGED results
    BY <1>0, <1>1, <2>1, PipelineSame DEF TasksShaped
  <2>2. CASE results # <<>> /\ results' = Tail(results)
    BY <1>1, <2>2, Handles
  <2> QED  BY <2>1, <2>2 DEF Crash
<1>5. CtlOK' /\ PlcOK' /\ MemberOK' /\ NodeOK' /\ MailOK' /\ RowsShaped'
  BY <1>0, <1>1 DEF CtlOK, PlcOK, MemberOK, NodeOK, MailOK, RowsShaped
<1>6. HistOK'
  BY <1>0, <1>1, LimitAssumption DEF Crash, HistOK
<1> QED  BY <1>4, <1>5, <1>6, TypeParts DEF TypeInv

\* Every step keeps the types.
LEMMA TypeStep == TypeInv /\ [Next]_vars => TypeInv'
<1> SUFFICES ASSUME TypeInv, [Next]_vars
             PROVE  TypeInv'
  OBVIOUS
<1>1. CASE CreatePlacement \/ RecreatePlacement
  BY <1>1, ProvisionType
<1>2. CASE RetryPlacement \/ DestroyPlacement \/ ForceDeletePlacement
  BY <1>2, LabTaskType
<1>3. ASSUME NEW s \in Students, AddStudent(s) \/ RemoveStudent(s)
      PROVE  TypeInv'
  BY <1>3, RosterType
<1>4. ASSUME NEW s \in Students, RevealCredential(s)
      PROVE  TypeInv'
  BY <1>4, RevealType
<1>5. CASE RunTask
  BY <1>5, RunType
<1>6. CASE HandleResult
  BY <1>6, ResultType
<1>7. CASE MailDone
  BY <1>7, MailType DEF MailDone
<1>8. CASE Crash
  BY <1>8, CrashType
<1>9. CASE UNCHANGED vars
  <2>1. PipeOK /\ TypeOK /\ RowsShaped /\ TasksShaped
    BY TypeShapes DEF TypeInv
  <2>2. UNCHANGED <<serial, roster, plc, member, queue, results, node, mails, delivered, proven, crashes>>
    BY <1>9 DEF vars, ctl, pipe, hist
  <2>3. TypeOK' /\ RowsShaped'
    BY <2>1, <2>2 DEF TypeOK, RowsShaped
  <2>4. TasksShaped'
    BY <2>1, <2>2, PipelineSame DEF TasksShaped
  <2> QED  BY <2>3, <2>4 DEF TypeInv
<1> QED  BY <1>1, <1>2, <1>3, <1>4, <1>5, <1>6, <1>7, <1>8, <1>9 DEF Next

\* Every variable of the placement keeps its kind, ids are given out before they
\* are used, and only a placement has members, however operations, results,
\* e-mails and crashes interleave.
THEOREM PlacementTyped == Spec => []TypeInv
  BY TypeInit, TypeStep, PTL DEF Spec
-----------------------------------------------------------------------------
(***************************************************************************)
(* Nothing waits for a task that is not there.                             *)
(***************************************************************************)
\* What is pending stays so when tasks are added,
LEMMA PendingGrows ==
    ASSUME \A i \in DOMAIN Pipeline : i \in DOMAIN Pipeline' /\ Pipeline'[i] = Pipeline[i],
           NEW kind, NEW s, Pending(kind, s)
    PROVE  Pending(kind, s)'
  BY DEF Pending

\* and when another task's result is handled.
LEMMA PendingStays ==
    ASSUME \A i \in DOMAIN Pipeline : i # 1 => i - 1 \in DOMAIN Pipeline' /\ Pipeline'[i - 1] = Pipeline[i],
           NEW kind, NEW s, Pending(kind, s), ~(Pipeline[1].kind = kind /\ Pipeline[1].s = s)
    PROVE  Pending(kind, s)'
  BY DEF Pending

\* A controller that never dies does not crash.
LEMMA NoCrashes == MaxCrashes = 0 /\ TypeInv => ~Crash
  BY TypeShapes DEF Crash, HistOK

\* Nothing is provisioning at first.
LEMMA StuckInit == Init => NothingStuck
  BY DEF Init, NothingStuck, NoPlc, NoMembers, NoMember

\* No step leaves a row waiting for nothing.
LEMMA StuckStep ==
    ASSUME MaxCrashes = 0, TypeInv, NothingStuck, [Next]_vars
    PROVE  NothingStuck'
<1>0. /\ CtlOK /\ PlcOK /\ MemberOK /\ PipeOK /\ NodeOK /\ MailOK /\ HistOK
      /\ RowsShaped /\ TasksShaped
  BY TypeShapes
<1>1. ASSUME CreatePlacement \/ RecreatePlacement
      PROVE  NothingStuck'
  <2> DEFINE S == IF CreatePlacement THEN roster ELSE Members
             kind == IF CreatePlacement THEN "create" ELSE "recreate"
  <2>1. S \in SUBSET Students /\ kind \in {"create", "recreate"}
    BY <1>0 DEF CtlOK, Members
  <2>2. /\ Spend(1 + Cardinality(S)) /\ UNCHANGED results
        /\ queue' = Append(queue, LabTask(kind)) \o AddTasks(S, serial + 1)
    BY <1>1 DEF CreatePlacement, RecreatePlacement
  <2>3. \A s \in Students : member'[s].state = "provisioning" => s \in S
    BY <1>1 DEF CreatePlacement, RecreatePlacement, NoMember
  <2>4. kind = "create" \/ plc'.state = plc.state
    BY <1>0, <1>1 DEF RecreatePlacement, PlcOK
  <2> HIDE DEF S, kind
  <2>5. /\ \A i \in DOMAIN Pipeline : i \in DOMAIN Pipeline' /\ Pipeline'[i] = Pipeline[i]
        /\ Len(Pipeline) + 1 \in DOMAIN Pipeline' /\ Pipeline'[Len(Pipeline) + 1] = LabTask(kind)
        /\ \A s \in S : \E i \in DOMAIN Pipeline' : Pipeline'[i] = Task("add", s, FreshPw(S, s, serial + 1))
    BY <2>1, <2>2, Provisioning
  <2>6. LabTask(kind).kind = kind /\ LabTask(kind).s = Nobody
    BY DEF LabTask, Task
  <2>7. plc'.state = "provisioning" => Pending("create", Nobody)'
    <3>1. CASE kind = "create"
      BY <2>5, <2>6, <3>1 DEF Pending
    <3>2. CASE plc'.state = plc.state
      BY <2>5, <3>2, PendingGrows DEF NothingStuck
    <3> QED  BY <2>4, <3>1, <3>2
  <2>8. \A s \in S : Pending("add", s)'
    <3>1. \A s, pw : Task("add", s, pw).kind = "add" /\ Task("add", s, pw).s = s
      BY DEF Task
    <3> QED  BY <2>5, <3>1 DEF Pending
  <2> QED  BY <2>3, <2>7, <2>8 DEF NothingStuck
<1>2. ASSUME RetryPlacement \/ DestroyPlacement \/ ForceDeletePlacement
      PROVE  NothingStuck'
  <2>1. PICK kind \in {"create", "destroy"} :
           /\ UNCHANGED results /\ queue' = Append(queue, LabTask(kind))
           /\ RetryPlacement => kind = "create"
    BY <1>2 DEF RetryPlacement, DestroyPlacement, ForceDeletePlacement
  <2>2. LabTask(kind) \in Tasks /\ LabTask(kind).kind = kind /\ LabTask(kind).s = Nobody
    BY TaskTypes
  <2>3. /\ \A i \in DOMAIN Pipeline : i \in DOMAIN Pipeline' /\ Pipeline'[i] = Pipeline[i]
        /\ Len(Pipeline) + 1 \in DOMAIN Pipeline' /\ Pipeline'[Len(Pipeline) + 1] = LabTask(kind)
    BY <2>1, <2>2, Issuing
  <2>4. plc'.state = "provisioning" => RetryPlacement
    BY <1>0, <1>2 DEF DestroyPlacement, ForceDeletePlacement, PlcOK, NoPlc
  <2>5. \A s \in Students : member'[s].state = "provisioning" => member[s].state = "provisioning"
    BY <1>2 DEF RetryPlacement, DestroyPlacement, ForceDeletePlacement, NoMembers, NoMember
  <2>6. \A s \in Students : member'[s].state = "provisioning" => Pending("add", s)'
    BY <2>3, <2>5, PendingGrows DEF NothingStuck
  <2>7. plc'.state = "provisioning" => Pending("create", Nobody)'
    BY <2>1, <2>2, <2>3, <2>4 DEF Pending
  <2> QED  BY <2>6, <2>7 DEF NothingStuck
<1>3. ASSUME NEW s \in Students, AddStudent(s) \/ RemoveStudent(s)
      PROVE  NothingStuck'
  <2>1. UNCHANGED <<plc, results>> /\ Spend(1)
    BY <1>3 DEF AddStudent, RemoveStudent
  <2>2. CASE plc.id = 0
    <3>1. UNCHANGED <<member, queue>>
      BY <1>3, <2>2 DEF AddStudent, RemoveStudent
    <3>2. Pipeline' = Pipeline
      BY <1>0, <2>1, <3>1, PipelineSame
    <3> QED  BY <2>1, <3>1, <3>2, PendingGrows DEF NothingStuck
  <2>3. CASE plc.id # 0
    <3>1. serial + 1 \in Numbers /\ 0 \in Numbers
      BY <2>1, Spending, LimitAssumption DEF Numbers
    <3>2. PICK t \in {Task("add", s, serial + 1), Task("remove", s, 0)} :
             /\ queue' = Append(queue, t)
             /\ AddStudent(s) => t = Task("add", s, serial + 1)
      BY <1>3, <2>3 DEF AddStudent, RemoveStudent
    <3>3. t \in Tasks /\ t.s = s
      BY <3>1, TaskTypes
    <3>4. /\ \A i \in DOMAIN Pipeline : i \in DOMAIN Pipeline' /\ Pipeline'[i] = Pipeline[i]
          /\ Len(Pipeline) + 1 \in DOMAIN Pipeline' /\ Pipeline'[Len(Pipeline) + 1] = t
      BY <2>1, <3>2, <3>3, Issuing
    <3>5. ASSUME NEW p \in Students, member'[p].state = "provisioning"
          PROVE  Pending("add", p)'
      <4>1. CASE p # s
        <5>1. member'[p] = member[p]
          BY <1>0, <1>3, <2>3, <4>1 DEF AddStudent, RemoveStudent, MemberOK
        <5> QED  BY <3>4, <3>5, <5>1, PendingGrows DEF NothingStuck
      <4>2. CASE p = s /\ AddStudent(s)
        <5>1. t.kind = "add"
          BY <3>1, <3>2, <4>2, TaskTypes
        <5> QED  BY <3>3, <3>4, <4>2, <5>1 DEF Pending
      <4>3. CASE p = s /\ RemoveStudent(s)
        BY <1>0, <2>3, <3>5, <4>3 DEF RemoveStudent, MemberOK, NoMember
      <4> QED  BY <1>3, <4>1, <4>2, <4>3
    <3>6. plc'.state = "provisioning" => Pending("create", Nobody)'
      BY <2>1, <3>4, PendingGrows DEF NothingStuck
    <3> QED  BY <3>5, <3>6 DEF NothingStuck
  <2> QED  BY <2>2, <2>3
<1>4. ASSUME NEW s \in Students, RevealCredential(s)
      PROVE  NothingStuck'
  <2>1. UNCHANGED <<plc, queue, results>> /\ Pipeline' = Pipeline
    BY <1>0, <1>4, PipelineSame DEF RevealCredential, pipe
  <2>2. \A p \in Students : member'[p].state = member[p].state
    BY <1>0, <1>4 DEF RevealCredential, MemberOK, MemberRows
  <2> QED  BY <2>1, <2>2, PendingGrows DEF NothingStuck
<1>5. ASSUME RunTask
      PROVE  NothingStuck'
  <2>1. UNCHANGED <<plc, member>> /\ Pipeline' = Pipeline
    BY <1>5, Running DEF RunTask, ctl
  <2> QED  BY <2>1, PendingGrows DEF NothingStuck
<1>6. ASSUME HandleResult
      PROVE  NothingStuck'
  <2> DEFINE t == Head(results).task
  <2>1. results # <<>> /\ results' = Tail(results) /\ UNCHANGED queue
    BY <1>6 DEF HandleResult, CreateResult, DestroyResult, AddResult, OtherResult, Handling
  <2>2. /\ \A i \in DOMAIN Pipeline : i # 1 => i - 1 \in DOMAIN Pipeline' /\ Pipeline'[i - 1] = Pipeline[i]
        /\ Pipeline[1] = t /\ (t.kind \in {"add", "remove"} => t.s \in Students)
    BY <2>1, Handles
  <2>3. plc'.state = "provisioning" => plc.state = "provisioning" /\ t.kind # "create"
    <3>1. CASE CreateResult
      BY <1>0, <3>1 DEF CreateResult, PlcOK
    <3>2. CASE DestroyResult
      BY <1>0, <3>2 DEF DestroyResult, Handling, PlcOK, NoPlc
    <3>3. CASE AddResult
      BY <1>0, <3>3 DEF AddResult, Handling, PlcOK
    <3>4. CASE OtherResult
      BY <3>4 DEF OtherResult, Handling
    <3> QED  BY <1>6, <3>1, <3>2, <3>3, <3>4 DEF HandleResult
  <2>4. ASSUME NEW p \in Students, member'[p].state = "provisioning"
        PROVE  member[p].state = "provisioning" /\ ~(t.kind = "add" /\ t.s = p)
    <3>1. CASE CreateResult \/ OtherResult
      BY <2>4, <3>1 DEF CreateResult, OtherResult, Handling
    <3>2. CASE DestroyResult
      BY <2>4, <3>2 DEF DestroyResult, Handling, NoMembers, NoMember
    <3>3. CASE AddResult
      <4>1. member' = Marked(t.s, Head(results).ok) /\ t.kind = "add" /\ t.s \in Students
        BY <2>2, <3>3 DEF AddResult, Handling
      <4> HIDE DEF t
      <4>2. member[p].row = 0 => member[p].state # "provisioning"
        BY <1>0 DEF RowsShaped, NoMember
      <4> QED  BY <1>0, <2>4, <4>1, <4>2 DEF Marked, MemberOK, MemberRows
    <3> QED  BY <1>6, <3>1, <3>2, <3>3 DEF HandleResult
  <2>5. plc'.state = "provisioning" => Pending("create", Nobody)'
    BY <2>2, <2>3, PendingStays DEF NothingStuck
  <2>6. \A p \in Students : member'[p].state = "provisioning" => Pending("add", p)'
    BY <2>2, <2>4, PendingStays DEF NothingStuck
  <2> QED  BY <2>5, <2>6 DEF NothingStuck
<1>7. ASSUME MailDone
      PROVE  NothingStuck'
  <2>0. PICK m \in mails : CredentialMailed(m) \/ CompletionMailed(m) \/ MailFails(m)
    BY <1>7 DEF MailDone
  <2>1. UNCHANGED <<queue, results>> /\ Pipeline' = Pipeline
    BY <1>0, <2>0, PipelineSame DEF CredentialMailed, CompletionMailed, MailFails, pipe
  <2>2. plc'.state = plc.state
    BY <1>0, <2>0 DEF CredentialMailed, CompletionMailed, MailFails, PlcOK
  <2>3. \A p \in Students : member'[p].state = member[p].state
    BY <1>0, <2>0 DEF CredentialMailed, CompletionMailed, MailFails, MemberOK, MemberRows
  <2> QED  BY <2>1, <2>2, <2>3, PendingGrows DEF NothingStuck
<1>8. ASSUME UNCHANGED vars
      PROVE  NothingStuck'
  <2>1. UNCHANGED <<plc, member, queue, results>> /\ Pipeline' = Pipeline
    BY <1>0, <1>8, PipelineSame DEF vars, ctl, pipe
  <2> QED  BY <2>1, PendingGrows DEF NothingStuck
<1> QED  BY <1>1, <1>2, <1>3, <1>4, <1>5, <1>6, <1>7, <1>8, NoCrashes DEF Next

\* As long as the controller does not die, a placement or a member that is
\* provisioning has its task under way, however the operations overlap.
THEOREM PlacementNotStuck == MaxCrashes = 0 /\ Spec => [](TypeInv /\ NothingStuck)
<1> SUFFICES ASSUME MaxCrashes = 0
             PROVE  Spec => [](TypeInv /\ NothingStuck)
  OBVIOUS
<1>1. Init => TypeInv /\ NothingStuck
  BY TypeInit, StuckInit
<1>2. TypeInv /\ NothingStuck /\ [Next]_vars => (TypeInv /\ NothingStuck)'
  BY TypeStep, StuckStep
<1> QED  BY <1>1, <1>2, PTL DEF Spec
-----------------------------------------------------------------------------
(***************************************************************************)
(* The row shows the verdict on its latest password.                       *)
(***************************************************************************)
\* A member row that is there was there before, with the same password.
RowsKept ==
    \A s \in Students : member'[s].row # 0 => member'[s].row = member[s].row /\ member'[s].pw = member[s].pw

Grows == \A i \in DOMAIN Pipeline : i \in DOMAIN Pipeline' /\ Pipeline'[i] = Pipeline[i]

\* One task was taken off the front.
Shifts ==
    /\ \A i \in DOMAIN Pipeline' : i \in Nat \ {0} /\ i + 1 \in DOMAIN Pipeline /\ Pipeline'[i] = Pipeline[i + 1]
    /\ \A i \in DOMAIN Pipeline : i \in Nat /\ (i # 1 => i - 1 \in DOMAIN Pipeline' /\ Pipeline'[i - 1] = Pipeline[i])

\* No operation but these gives a member a row or a password.
LEMMA RowsKeptBy ==
    ASSUME TypeInv,
           \/ RetryPlacement \/ DestroyPlacement \/ ForceDeletePlacement \/ RunTask \/ HandleResult
           \/ MailDone \/ Crash \/ UNCHANGED vars \/ \E s \in Students : RevealCredential(s)
    PROVE  RowsKept
<1>0. MemberOK /\ TasksShaped /\ MailOK
  BY TypeShapes
<1>1. CASE RetryPlacement \/ DestroyPlacement \/ RunTask \/ Crash \/ UNCHANGED vars
  BY <1>1 DEF RetryPlacement, DestroyPlacement, RunTask, Crash, vars, ctl, RowsKept
<1>2. CASE ForceDeletePlacement
  BY <1>2 DEF ForceDeletePlacement, NoMembers, NoMember, RowsKept
<1>3. CASE HandleResult
  <2>1. CASE CreateResult \/ OtherResult
    BY <2>1 DEF CreateResult, OtherResult, RowsKept
  <2>2. CASE DestroyResult
    BY <2>2 DEF DestroyResult, NoMembers, NoMember, RowsKept
  <2>3. CASE AddResult
    BY <1>0, <2>3 DEF AddResult, Marked, MemberOK, MemberRows, RowsKept
  <2> QED  BY <1>3, <2>1, <2>2, <2>3 DEF HandleResult
<1>4. CASE MailDone
  <2>1. PICK m \in mails : CredentialMailed(m) \/ CompletionMailed(m) \/ MailFails(m)
    BY <1>4 DEF MailDone
  <2> QED  BY <1>0, <2>1 DEF CredentialMailed, CompletionMailed, MailFails, MemberOK, MemberRows, RowsKept
<1>5. CASE \E s \in Students : RevealCredential(s)
  BY <1>0, <1>5 DEF RevealCredential, MemberOK, MemberRows, RowsKept
<1> QED  BY <1>1, <1>2, <1>3, <1>4, <1>5

\* What the steps do to the pipeline.
LEMMA PipelineSteps ==
    ASSUME TypeInv
    PROVE  /\ MailDone \/ RunTask \/ UNCHANGED vars \/ (\E s \in Students : RevealCredential(s)) =>
                 Pipeline' = Pipeline
           /\ HandleResult => Shifts
           /\ Crash => Pipeline' = Pipeline \/ Shifts
           /\ RetryPlacement \/ DestroyPlacement \/ ForceDeletePlacement =>
                 /\ Grows
                 /\ \A i \in DOMAIN Pipeline' \ DOMAIN Pipeline : Pipeline'[i].kind \in {"create", "destroy"}
<1>0. PipeOK
  BY TypeShapes
<1>1. DOMAIN Pipeline = 1..Len(Pipeline) /\ Len(Pipeline) \in Nat
  BY <1>0, PipelineSeq
<1>2. MailDone \/ UNCHANGED vars \/ (\E s \in Students : RevealCredential(s)) => UNCHANGED <<queue, results>>
  BY DEF MailDone, CredentialMailed, CompletionMailed, MailFails, RevealCredential, vars, pipe
<1>3. MailDone \/ RunTask \/ UNCHANGED vars \/ (\E s \in Students : RevealCredential(s)) =>
        Pipeline' = Pipeline
  BY <1>0, <1>2, Running, PipelineSame
<1>4. results # <<>> /\ results' = Tail(results) /\ UNCHANGED queue => Shifts
  BY <1>1, Handles DEF Shifts
<1>5. HandleResult => Shifts
  BY <1>4 DEF HandleResult, CreateResult, DestroyResult, AddResult, OtherResult, Handling
<1>6. Crash => Pipeline' = Pipeline \/ Shifts
  BY <1>0, <1>4, PipelineSame DEF Crash
<1>7. ASSUME RetryPlacement \/ DestroyPlacement \/ ForceDeletePlacement
      PROVE  /\ Grows
             /\ \A i \in DOMAIN Pipeline' \ DOMAIN Pipeline : Pipeline'[i].kind \in {"create", "destroy"}
  <2>1. PICK kind \in {"create", "destroy"} : UNCHANGED results /\ queue' = Append(queue, LabTask(kind))
    BY <1>7 DEF RetryPlacement, DestroyPlacement, ForceDeletePlacement
  <2>2. LabTask(kind) \in Tasks /\ LabTask(kind).kind = kind
    BY TaskTypes
  <2> QED  BY <2>1, <2>2, Issuing DEF Grows
<1> QED  BY <1>3, <1>5, <1>6, <1>7

\* addStudentToLab and removeStudentFromLab issue a task for the student, if there
\* is a placement.
LEMMA RosterSteps ==
    ASSUME TypeInv, NEW s \in Students, AddStudent(s) \/ RemoveStudent(s)
    PROVE  /\ \A p \in Students : p # s => member'[p] = member[p]
           /\ plc.id = 0 => member' = member /\ Pipeline' = Pipeline
           /\ plc.id # 0 =>
                 /\ Grows /\ Len(Pipeline) + 1 \in DOMAIN Pipeline'
                 /\ \A i \in DOMAIN Pipeline' \ DOMAIN Pipeline : i = Len(Pipeline) + 1
                 /\ \A i \in DOMAIN Pipeline : i \in Nat /\ i < Len(Pipeline) + 1
                 /\ AddStudent(s) => /\ Pipeline'[Len(Pipeline) + 1] = Task("add", s, serial + 1)
                                     /\ member'[s] = NewMember(serial + 1)
                 /\ ~AddStudent(s) => /\ Pipeline'[Len(Pipeline) + 1] = Task("remove", s, 0)
                                      /\ member'[s] = NoMember
<1>0. MemberOK /\ PipeOK
  BY TypeShapes
<1>1. UNCHANGED results /\ Spend(1)
  BY DEF AddStudent, RemoveStudent
<1>2. CASE plc.id = 0
  <2>1. UNCHANGED <<member, queue>>
    BY <1>2 DEF AddStudent, RemoveStudent
  <2> QED  BY <1>0, <1>1, <1>2, <2>1, PipelineSame
<1>3. CASE plc.id # 0
  <2>1. serial + 1 \in Numbers /\ 0 \in Numbers
    BY <1>1, Spending, LimitAssumption DEF Numbers
  <2> DEFINE t == IF AddStudent(s) THEN Task("add", s, serial + 1) ELSE Task("remove", s, 0)
             m == IF AddStudent(s) THEN NewMember(serial + 1) ELSE NoMember
  <2>2. queue' = Append(queue, t) /\ member' = [member EXCEPT ![s] = m]
    BY <1>3 DEF AddStudent, RemoveStudent
  <2>3. t \in Tasks /\ t.s = s
    BY <2>1, TaskTypes
  <2> HIDE DEF t, m
  <2>4. /\ Grows /\ Len(Pipeline) + 1 \in DOMAIN Pipeline' /\ Pipeline'[Len(Pipeline) + 1] = t
        /\ \A i \in DOMAIN Pipeline' \ DOMAIN Pipeline : i = Len(Pipeline) + 1
        /\ Len(Pipeline) \in Nat /\ DOMAIN Pipeline = 1..Len(Pipeline)
    BY <1>1, <2>2, <2>3, Issuing DEF Grows
  <2>5. \A i \in DOMAIN Pipeline : i \in Nat /\ i < Len(Pipeline) + 1
    BY <2>4
  <2>6. member'[s] = m /\ \A p \in Students : p # s => member'[p] = member[p]
    BY <1>0, <2>2 DEF MemberOK
  <2> QED  BY <1>3, <2>4, <2>5, <2>6 DEF t, m
<1> QED  BY <1>2, <1>3

\* createPlacement and recreatePlacement start anew for every member.
LEMMA ProvisionSteps ==
    ASSUME TypeInv, CreatePlacement \/ RecreatePlacement
    PROVE  \E S \in SUBSET Students, kind \in {"create", "recreate"} :
              /\ S = IF CreatePlacement THEN roster ELSE Members
              /\ kind = IF CreatePlacement THEN "create" ELSE "recreate"
              /\ serial < serial' /\ Grows
              /\ \A i \in DOMAIN Pipeline : i \in Nat /\ i <= Len(Pipeline)
              /\ Len(Pipeline) + 1 \in DOMAIN Pipeline' /\ Pipeline'[Len(Pipeline) + 1] = LabTask(kind)
              /\ \A i \in DOMAIN Pipeline' \ DOMAIN Pipeline :
                    \/ i = Len(Pipeline) + 1 /\ Pipeline'[i] = LabTask(kind)
                    \/ i > Len(Pipeline) + 1 /\ Pipeline'[i].kind = "add" /\ Pipeline'[i].s \in S
              /\ \A s \in Students \ S : member'[s] = NoMember
              /\ \A s \in S :
                    /\ member'[s].state = "provisioning" /\ member'[s].secret = member'[s].pw
                    /\ member'[s].row = IF kind = "create" THEN member'[s].pw ELSE member[s].row
                    /\ serial < member'[s].pw /\ member'[s].pw <= serial'
                    /\ \E i \in DOMAIN Pipeline' :
                          /\ i > Len(Pipeline) /\ Pipeline'[i] = Task("add", s, member'[s].pw)
                          /\ \A j \in DOMAIN Pipeline' \ DOMAIN Pipeline :
                                Pipeline'[j].kind = "add" /\ Pipeline'[j].s = s => j = i
<1> DEFINE S == IF CreatePlacement THEN roster ELSE Members
           kind == IF CreatePlacement THEN "create" ELSE "recreate"
           f(s) == FreshPw(S, s, serial + 1)
<1>0. CtlOK /\ PipeOK /\ DOMAIN Pipeline = 1..Len(Pipeline) /\ Len(Pipeline) \in Nat
  BY TypeShapes, PipelineSeq
<1>1. S \in SUBSET Students /\ kind \in {"create", "recreate"}
  BY <1>0 DEF CtlOK, Members
<1>2. /\ Spend(1 + Cardinality(S)) /\ UNCHANGED results
      /\ queue' = Append(queue, LabTask(kind)) \o AddTasks(S, serial + 1)
  BY DEF CreatePlacement, RecreatePlacement
<1>3. \A s \in Students \ S : member'[s] = NoMember
  BY DEF CreatePlacement, RecreatePlacement
<1>4. \A s \in S :
         /\ member'[s].state = "provisioning" /\ member'[s].secret = f(s) /\ member'[s].pw = f(s)
         /\ member'[s].row = IF kind = "create" THEN f(s) ELSE member[s].row
  <2>1. CASE CreatePlacement
    BY <1>1, <2>1 DEF CreatePlacement, NewMember
  <2>2. CASE RecreatePlacement /\ ~CreatePlacement
    BY <1>1, <2>2 DEF RecreatePlacement, NewMember
  <2> QED  BY <2>1, <2>2
<1>5. S = (IF CreatePlacement THEN roster ELSE Members) /\ kind = IF CreatePlacement THEN "create" ELSE "recreate"
  OBVIOUS
<1> HIDE DEF S, kind
<1>6. /\ serial < serial' /\ Grows
      /\ Len(Pipeline) + 1 \in DOMAIN Pipeline' /\ Pipeline'[Len(Pipeline) + 1] = LabTask(kind)
      /\ \A i \in DOMAIN Pipeline' \ DOMAIN Pipeline :
            \/ i = Len(Pipeline) + 1 /\ Pipeline'[i] = LabTask(kind)
            \/ i > Len(Pipeline) + 1 /\ \E s \in S : Pipeline'[i] = Task("add", s, f(s))
      /\ \A s \in S :
            /\ serial < f(s) /\ f(s) <= serial'
            /\ \E i \in DOMAIN Pipeline' :
                  /\ i > Len(Pipeline) /\ Pipeline'[i] = Task("add", s, f(s))
                  /\ \A j \in DOMAIN Pipeline' \ DOMAIN Pipeline :
                        Pipeline'[j].kind = "add" /\ Pipeline'[j].s = s => j = i
  BY <1>1, <1>2, Provisioning DEF Grows
<1> HIDE DEF f
<1>7. \A s, pw : Task("add", s, pw).kind = "add" /\ Task("add", s, pw).s = s
  BY DEF Task
<1>8. \A i \in DOMAIN Pipeline : i \in Nat /\ i <= Len(Pipeline)
  BY <1>0
<1>9. \A i \in DOMAIN Pipeline' \ DOMAIN Pipeline :
         \/ i = Len(Pipeline) + 1 /\ Pipeline'[i] = LabTask(kind)
         \/ i > Len(Pipeline) + 1 /\ Pipeline'[i].kind = "add" /\ Pipeline'[i].s \in S
  BY <1>6, <1>7
<1>10. \A s \in S :
          /\ member'[s].state = "provisioning" /\ member'[s].secret = member'[s].pw
          /\ member'[s].row = IF kind = "create" THEN member'[s].pw ELSE member[s].row
          /\ serial < member'[s].pw /\ member'[s].pw <= serial'
          /\ \E i \in DOMAIN Pipeline' :
                /\ i > Len(Pipeline) /\ Pipeline'[i] = Task("add", s, member'[s].pw)
                /\ \A j \in DOMAIN Pipeline' \ DOMAIN Pipeline :
                      Pipeline'[j].kind = "add" /\ Pipeline'[j].s = s => j = i
  BY <1>4, <1>6
<1> QED  BY <1>1, <1>3, <1>5, <1>6, <1>8, <1>9, <1>10

\* The last task of a member stays the last one.
LEMMA LatestKept ==
    ASSUME LatestLast, RowsKept,
           \/ Pipeline' = Pipeline
           \/ Shifts
           \/ Grows /\ \A i \in DOMAIN Pipeline' \ DOMAIN Pipeline : Pipeline'[i].kind \in {"create", "destroy"}
    PROVE  LatestLast'
<1> SUFFICES ASSUME NEW s \in Students, member'[s].row # 0
             PROVE  \/ NoTouch(s)'
                    \/ \E i \in DOMAIN Pipeline' :
                          LastTouch(i, s)' /\ Pipeline'[i].kind = "add" /\ Pipeline'[i].pw = member'[s].pw
  BY DEF LatestLast
<1>1. member[s].row # 0 /\ member'[s].pw = member[s].pw
  BY DEF RowsKept
<1>2. CASE Pipeline' = Pipeline
  BY <1>1, <1>2 DEF LatestLast, NoTouch, LastTouch, Touches
<1>3. CASE Shifts
  <2>1. CASE NoTouch(s)
    BY <1>3, <2>1 DEF NoTouch, Touches, Shifts
  <2>2. ASSUME NEW i \in DOMAIN Pipeline,
               LastTouch(i, s), Pipeline[i].kind = "add", Pipeline[i].pw = member[s].pw
        PROVE  \/ NoTouch(s)'
               \/ \E k \in DOMAIN Pipeline' :
                     LastTouch(k, s)' /\ Pipeline'[k].kind = "add" /\ Pipeline'[k].pw = member'[s].pw
    <3>1. i \in Nat /\ \A j \in DOMAIN Pipeline' : Touches(j, s)' => j + 1 <= i /\ j \in Nat
      BY <1>3, <2>2 DEF LastTouch, Touches, Shifts
    <3>2. CASE i = 1
      <4>1. \A j \in DOMAIN Pipeline' : j \in Nat \ {0}
        BY <1>3 DEF Shifts
      <4> QED  BY <3>1, <3>2, <4>1 DEF NoTouch
    <3>3. CASE i # 1
      <4>1. i - 1 \in DOMAIN Pipeline' /\ Pipeline'[i - 1] = Pipeline[i]
        BY <1>3, <3>3 DEF Shifts
      <4>2. Touches(i - 1, s)'
        BY <2>2, <4>1 DEF LastTouch, Touches
      <4>3. \A j \in DOMAIN Pipeline' : Touches(j, s)' => j <= i - 1
        BY <3>1
      <4> QED  BY <1>1, <2>2, <4>1, <4>2, <4>3 DEF LastTouch
    <3> QED  BY <3>2, <3>3
  <2> QED  BY <1>1, <2>1, <2>2 DEF LatestLast
<1>4. CASE Grows /\ \A i \in DOMAIN Pipeline' \ DOMAIN Pipeline : Pipeline'[i].kind \in {"create", "destroy"}
  <2>1. \A j \in DOMAIN Pipeline' : Touches(j, s)' => j \in DOMAIN Pipeline /\ Touches(j, s)
    BY <1>4 DEF Touches, Grows
  <2>2. CASE NoTouch(s)
    BY <2>1, <2>2 DEF NoTouch
  <2>3. ASSUME NEW i \in DOMAIN Pipeline,
               LastTouch(i, s), Pipeline[i].kind = "add", Pipeline[i].pw = member[s].pw
        PROVE  LastTouch(i, s)' /\ Pipeline'[i] = Pipeline[i] /\ i \in DOMAIN Pipeline'
    BY <1>4, <2>1, <2>3 DEF LastTouch, Touches, Grows
  <2> QED  BY <1>1, <2>2, <2>3 DEF LatestLast
<1> QED  BY <1>2, <1>3, <1>4

\* The last task that touches a member keeps setting its latest password.
LEMMA LatestStep ==
    ASSUME TypeInv, LatestLast, [Next]_vars
    PROVE  LatestLast'
<1>1. ASSUME CreatePlacement \/ RecreatePlacement
      PROVE  LatestLast'
  <2>1. PICK S \in SUBSET Students, kind \in {"create", "recreate"} :
           /\ Grows /\ \A i \in DOMAIN Pipeline : i \in Nat /\ i <= Len(Pipeline)
           /\ \A i \in DOMAIN Pipeline' \ DOMAIN Pipeline :
                 \/ i = Len(Pipeline) + 1 /\ Pipeline'[i] = LabTask(kind)
                 \/ i > Len(Pipeline) + 1 /\ Pipeline'[i].kind = "add" /\ Pipeline'[i].s \in S
           /\ \A s \in Students \ S : member'[s] = NoMember
           /\ \A s \in S :
                 \E i \in DOMAIN Pipeline' :
                    /\ i > Len(Pipeline) /\ Pipeline'[i] = Task("add", s, member'[s].pw)
                    /\ \A j \in DOMAIN Pipeline' \ DOMAIN Pipeline :
                          Pipeline'[j].kind = "add" /\ Pipeline'[j].s = s => j = i
    BY <1>1, ProvisionSteps
  <2>2. ASSUME NEW s \in Students, member'[s].row # 0
        PROVE  \E i \in DOMAIN Pipeline' :
                  LastTouch(i, s)' /\ Pipeline'[i].kind = "add" /\ Pipeline'[i].pw = member'[s].pw
    <3>1. s \in S
      BY <2>1, <2>2 DEF NoMember
    <3>2. PICK i \in DOMAIN Pipeline' :
             /\ i > Len(Pipeline) /\ Pipeline'[i] = Task("add", s, member'[s].pw)
             /\ \A j \in DOMAIN Pipeline' \ DOMAIN Pipeline :
                   Pipeline'[j].kind = "add" /\ Pipeline'[j].s = s => j = i
      BY <2>1, <3>1
    <3>3. Pipeline'[i].kind = "add" /\ Pipeline'[i].s = s /\ Pipeline'[i].pw = member'[s].pw
      BY <3>2 DEF Task
    <3>4. LabTask(kind).kind = kind
      BY DEF LabTask, Task
    <3>5. Len(Pipeline) \in Nat /\ DOMAIN Pipeline' = 1..Len(Pipeline') /\ Len(Pipeline') \in Nat
      <4>1. PipeOK /\ PipeOK'
        BY <1>1, TypeShapes, TypeStep, TypeParts DEF TypeInv
      <4>2. queue' \in Seq(Tasks) /\ results' \in Seq(Answers)
        BY <4>1 DEF PipeOK
      <4>3. Pipeline' \in Seq(Tasks)
        BY <4>2, TasksOfSeq, PipelineIs
      <4> QED  BY <4>1, <4>3, PipelineSeq, LenProperties
    <3>6. ASSUME NEW j \in DOMAIN Pipeline', Touches(j, s)'
          PROVE  j <= i
      <4>1. CASE j \in DOMAIN Pipeline
        BY <2>1, <3>2, <3>5, <4>1
      <4>2. CASE j \notin DOMAIN Pipeline
        <5>1. Pipeline'[j].kind = "add" /\ Pipeline'[j].s = s
          BY <2>1, <3>4, <3>6, <4>2 DEF Touches
        <5> QED  BY <3>2, <3>5, <4>2, <5>1
      <4> QED  BY <4>1, <4>2
    <3>7. LastTouch(i, s)'
      BY <3>3, <3>6 DEF LastTouch, Touches
    <3> QED  BY <3>3, <3>7
  <2> QED  BY <2>2 DEF LatestLast
<1>2. ASSUME NEW s \in Students, AddStudent(s) \/ RemoveStudent(s)
      PROVE  LatestLast'
  <2>1. CASE plc.id = 0
    <3>1. member' = member /\ Pipeline' = Pipeline
      BY <1>2, <2>1, RosterSteps
    <3> QED  BY <3>1 DEF LatestLast, NoTouch, LastTouch, Touches
  <2>2. CASE plc.id # 0
    <3>0. PICK n \in Nat : n = Len(Pipeline) + 1
      BY TypeShapes, PipelineSeq
    <3>1. /\ Grows /\ n \in DOMAIN Pipeline'
          /\ \A i \in DOMAIN Pipeline' \ DOMAIN Pipeline : i = n
          /\ \A i \in DOMAIN Pipeline : i \in Nat /\ i < n
          /\ \A p \in Students : p # s => member'[p] = member[p]
          /\ AddStudent(s) => Pipeline'[n] = Task("add", s, serial + 1) /\ member'[s] = NewMember(serial + 1)
          /\ ~AddStudent(s) => Pipeline'[n] = Task("remove", s, 0) /\ member'[s] = NoMember
      BY <1>2, <2>2, <3>0, RosterSteps
    <3>3. Pipeline'[n].s = s /\ Pipeline'[n].kind \in {"add", "remove"}
      BY <3>1 DEF Task
    <3>4. \A j \in DOMAIN Pipeline' : j <= n
      BY <3>0, <3>1
    <3>5. member'[s].row # 0 =>
             LastTouch(n, s)' /\ Pipeline'[n].kind = "add" /\ Pipeline'[n].pw = member'[s].pw
      <4>1. LastTouch(n, s)'
        BY <3>1, <3>3, <3>4 DEF LastTouch, Touches
      <4> QED  BY <3>1, <4>1 DEF Task, NewMember, NoMember
    <3>6. ASSUME NEW p \in Students, p # s, member'[p].row # 0
          PROVE  \/ NoTouch(p)'
                 \/ \E i \in DOMAIN Pipeline' :
                       LastTouch(i, p)' /\ Pipeline'[i].kind = "add" /\ Pipeline'[i].pw = member'[p].pw
      <4>1. member'[p] = member[p] /\ member[p].row # 0
        BY <3>1, <3>6
      <4>2. \A j \in DOMAIN Pipeline' : Touches(j, p)' => j \in DOMAIN Pipeline /\ Touches(j, p)
        <5> TAKE j \in DOMAIN Pipeline'
        <5>1. CASE j \in DOMAIN Pipeline
          BY <3>1, <5>1 DEF Touches, Grows
        <5>2. CASE j \notin DOMAIN Pipeline
          <6>1. j = n
            BY <3>1, <5>2
          <6> QED  BY <3>3, <3>6, <6>1 DEF Touches
        <5> QED  BY <5>1, <5>2
      <4>3. CASE NoTouch(p)
        BY <4>2, <4>3 DEF NoTouch
      <4>4. ASSUME NEW i \in DOMAIN Pipeline,
                   LastTouch(i, p), Pipeline[i].kind = "add", Pipeline[i].pw = member[p].pw
            PROVE  LastTouch(i, p)' /\ Pipeline'[i] = Pipeline[i] /\ i \in DOMAIN Pipeline'
        BY <3>1, <4>2, <4>4 DEF LastTouch, Touches, Grows
      <4> QED  BY <4>1, <4>3, <4>4 DEF LatestLast
    <3> QED  BY <3>1, <3>5, <3>6 DEF LatestLast
  <2> QED  BY <2>1, <2>2
<1>3. ASSUME \/ RetryPlacement \/ DestroyPlacement \/ ForceDeletePlacement \/ RunTask \/ HandleResult
             \/ MailDone \/ Crash \/ UNCHANGED vars \/ \E s \in Students : RevealCredential(s)
      PROVE  LatestLast'
  <2>1. RowsKept
    BY <1>3, RowsKeptBy
  <2>2. \/ Pipeline' = Pipeline
        \/ Shifts
        \/ Grows /\ \A i \in DOMAIN Pipeline' \ DOMAIN Pipeline : Pipeline'[i].kind \in {"create", "destroy"}
    BY <1>3, PipelineSteps, Zenon
  <2> QED  BY <2>1, <2>2, LatestKept
<1>4. \/ CreatePlacement \/ RecreatePlacement
      \/ \E s \in Students : AddStudent(s) \/ RemoveStudent(s)
      \/ \/ RetryPlacement \/ DestroyPlacement \/ ForceDeletePlacement \/ RunTask \/ HandleResult
         \/ MailDone \/ Crash \/ UNCHANGED vars \/ \E s \in Students : RevealCredential(s)
  BY Zenon DEF Next
<1> QED  BY <1>1, <1>2, <1>3, <1>4

\* The results and what they prove.
LEMMA OkStep ==
    ASSUME TypeInv, OkProven, [Next]_vars
    PROVE  OkProven' /\ proven \subseteq proven'
<1>1. CASE RunTask
  <2>1. /\ Len(results) \in Nat /\ DOMAIN results = 1..Len(results)
        /\ DOMAIN results' = 1..(Len(results) + 1)
        /\ \A i \in DOMAIN results : i \in DOMAIN results' /\ results'[i] = results[i]
        /\ results'[Len(results) + 1].task = Head(queue)
        /\ results'[Len(results) + 1].ok /\ Head(queue).kind = "add" => Head(queue).pw \in proven'
        /\ proven \subseteq proven'
    BY <1>1, Running
  <2>2. ASSUME NEW i \in DOMAIN results', results'[i].ok, results'[i].task.kind = "add"
        PROVE  results'[i].task.pw \in proven'
    <3>1. CASE i \in DOMAIN results
      BY <2>1, <2>2, <3>1 DEF OkProven
    <3>2. CASE i \notin DOMAIN results
      <4>1. i = Len(results) + 1
        BY <2>1, <3>2
      <4> QED  BY <2>1, <2>2, <4>1
    <3> QED  BY <3>1, <3>2
  <2> QED  BY <2>1, <2>2 DEF OkProven
<1>2. CASE results # <<>> /\ results' = Tail(results) /\ UNCHANGED <<queue, proven>>
  BY <1>2, Handles DEF OkProven
<1>3. CASE UNCHANGED <<results, proven>>
  BY <1>3 DEF OkProven
<1>4. CASE HandleResult
  BY <1>2, <1>4 DEF HandleResult, CreateResult, DestroyResult, AddResult, OtherResult, Handling, hist
<1>5. CASE Crash
  BY <1>2, <1>3, <1>5 DEF Crash
<1>6. CASE MailDone
  BY <1>3, <1>6 DEF MailDone, CredentialMailed, CompletionMailed, MailFails, pipe, hist
<1>7. CASE UNCHANGED vars
  BY <1>3, <1>7 DEF vars, pipe, hist
<1>8. CASE CreatePlacement \/ RetryPlacement \/ RecreatePlacement \/ DestroyPlacement \/ ForceDeletePlacement
  BY <1>3, <1>8
     DEF CreatePlacement, RetryPlacement, RecreatePlacement, DestroyPlacement, ForceDeletePlacement, hist
<1>9. CASE \E s \in Students : AddStudent(s) \/ RemoveStudent(s) \/ RevealCredential(s)
  BY <1>3, <1>9 DEF AddStudent, RemoveStudent, RevealCredential, pipe, hist
<1> QED  BY <1>1, <1>4, <1>5, <1>6, <1>7, <1>8, <1>9 DEF Next

\* A member that is active with nothing under way was so before, with the same
\* password.
LEMMA ProvenKept ==
    ASSUME ActiveIsProven, proven \subseteq proven',
           \A s \in Students :
              member'[s].state = "active" /\ ~Pending("add", s)' =>
                 member[s].state = "active" /\ member'[s].pw = member[s].pw /\ ~Pending("add", s)
    PROVE  ActiveIsProven'
  BY DEF ActiveIsProven

\* Nothing is active at first.
LEMMA ProvenInit == Init => ProvenInv
<1> SUFFICES ASSUME Init
             PROVE  ProvenInv
  OBVIOUS
<1>1. TypeInv
  BY TypeInit
<1>2. \A s \in Students : member[s] = NoMember
  BY DEF Init, NoMembers
<1>3. LatestLast /\ ActiveIsProven
  BY <1>2 DEF LatestLast, ActiveIsProven, NoMember
<1>4. DOMAIN results = {}
  BY DEF Init
<1> QED  BY <1>1, <1>3, <1>4 DEF ProvenInv, OkProven

\* Every step keeps the verdicts true.
LEMMA ProvenStep ==
    ASSUME MaxCrashes = 0, ProvenInv, [Next]_vars
    PROVE  ProvenInv'
<1>0. /\ TypeInv /\ LatestLast /\ OkProven /\ ActiveIsProven
      /\ CtlOK /\ PlcOK /\ MemberOK /\ PipeOK /\ RowsShaped
  BY TypeShapes DEF ProvenInv
<1>1. TypeInv' /\ LatestLast' /\ OkProven' /\ proven \subseteq proven'
  BY <1>0, TypeStep, LatestStep, OkStep
<1>2. CASE CreatePlacement \/ RecreatePlacement
  <2>1. PICK S \in SUBSET Students :
           /\ \A s \in Students \ S : member'[s] = NoMember
           /\ \A s \in S : member'[s].state = "provisioning"
    BY <1>0, <1>2, ProvisionSteps
  <2>2. \A s \in Students : member'[s].state # "active"
    BY <2>1 DEF NoMember
  <2> QED  BY <1>1, <2>2 DEF ProvenInv, ActiveIsProven
<1>3. CASE RetryPlacement \/ DestroyPlacement \/ ForceDeletePlacement
  <2>1. Grows
    BY <1>0, <1>3, PipelineSteps
  <2>2. \A s \in Students : member'[s].state = "active" => member'[s] = member[s]
    BY <1>3 DEF RetryPlacement, DestroyPlacement, ForceDeletePlacement, NoMembers, NoMember
  <2> QED  BY <1>0, <1>1, <2>1, <2>2, ProvenKept, PendingGrows DEF ProvenInv, Grows
<1>4. ASSUME NEW s \in Students, AddStudent(s) \/ RemoveStudent(s)
      PROVE  ProvenInv'
  <2>1. Grows
    <3>1. CASE plc.id = 0
      <4>1. Pipeline' = Pipeline
        BY <1>0, <1>4, <3>1, RosterSteps
      <4> QED  BY <4>1 DEF Grows
    <3>2. CASE plc.id # 0
      BY <1>0, <1>4, <3>2, RosterSteps
    <3> QED  BY <3>1, <3>2
  <2>2. \A p \in Students : member'[p].state = "active" => member'[p] = member[p]
    BY <1>0, <1>4, RosterSteps DEF NewMember, NoMember
  <2> QED  BY <1>0, <1>1, <2>1, <2>2, ProvenKept, PendingGrows DEF ProvenInv, Grows
<1>5. CASE MailDone \/ RunTask \/ UNCHANGED vars \/ \E s \in Students : RevealCredential(s)
  <2>1. Pipeline' = Pipeline
    BY <1>0, <1>5, PipelineSteps
  <2>2. \A p \in Students : member'[p].state = member[p].state /\ member'[p].pw = member[p].pw
    <3>1. CASE RunTask \/ UNCHANGED vars
      BY <3>1 DEF RunTask, vars, ctl
    <3>2. CASE \E s \in Students : RevealCredential(s)
      BY <1>0, <3>2 DEF RevealCredential, MemberOK, MemberRows
    <3>3. CASE MailDone
      <4>1. PICK m \in mails : CredentialMailed(m) \/ CompletionMailed(m) \/ MailFails(m)
        BY <3>3 DEF MailDone
      <4> QED  BY <1>0, <4>1 DEF CredentialMailed, CompletionMailed, MailFails, MemberOK, MemberRows
    <3> QED  BY <1>5, <3>1, <3>2, <3>3
  <2> QED  BY <1>0, <1>1, <2>1, <2>2, ProvenKept, PendingGrows DEF ProvenInv
<1>6. CASE HandleResult
  <2>1. PICK t \in Tasks, ok \in BOOLEAN :
           Head(results) = [task |-> t, ok |-> ok] /\ results # <<>> /\ results' = Tail(results) /\ UNCHANGED queue
    <3>1. results # <<>> /\ results' = Tail(results) /\ UNCHANGED queue
      BY <1>6 DEF HandleResult, CreateResult, DestroyResult, AddResult, OtherResult, Handling
    <3>2. Head(results) \in Answers
      BY <1>0, <3>1, Handles
    <3> QED  BY <3>1, <3>2 DEF Answers
  <2>2. /\ results[1] = Head(results) /\ 1 \in DOMAIN results /\ 1 \in DOMAIN Pipeline /\ Pipeline[1] = t
        /\ \A i \in DOMAIN Pipeline : i # 1 => i - 1 \in DOMAIN Pipeline' /\ Pipeline'[i - 1] = Pipeline[i]
        /\ t.kind = "add" => t.s \in Students
    BY <1>0, <2>1, Handles
  <2>3. ASSUME NEW p \in Students, member'[p].state = "active", ~Pending("add", p)'
        PROVE  member'[p].pw \in proven
    <3>1. CASE t.kind = "add" /\ t.s = p
      <4>1. member' = Marked(p, ok)
        BY <1>6, <2>1, <3>1 DEF HandleResult, CreateResult, DestroyResult, AddResult, OtherResult, Handling
      <4>2. member[p].row # 0 /\ ok /\ member'[p].pw = member[p].pw
        BY <1>0, <2>3, <4>1 DEF Marked, MemberOK, MemberRows, RowsShaped, NoMember
      <4>3. Touches(1, p)
        BY <2>2, <3>1 DEF Touches
      <4>4. PICK i \in DOMAIN Pipeline :
               LastTouch(i, p) /\ Pipeline[i].kind = "add" /\ Pipeline[i].pw = member[p].pw
        BY <1>0, <2>2, <4>2, <4>3 DEF LatestLast, NoTouch
      <4>5. i = 1
        BY <2>2, <2>3, <4>4 DEF Pending, LastTouch, Touches
      <4>6. t.pw \in proven
        BY <1>0, <2>1, <2>2, <3>1, <4>2 DEF OkProven
      <4> QED  BY <2>2, <4>2, <4>4, <4>5, <4>6
    <3>2. CASE ~(t.kind = "add" /\ t.s = p)
      <4>1. member'[p] = member[p]
        <5>1. CASE CreateResult \/ OtherResult
          BY <5>1 DEF CreateResult, OtherResult
        <5>2. CASE DestroyResult
          BY <2>3, <5>2 DEF DestroyResult, NoMembers, NoMember
        <5>3. CASE AddResult
          BY <1>0, <2>1, <2>2, <3>2, <5>3 DEF AddResult, Handling, Marked, MemberOK
        <5> QED  BY <1>6, <5>1, <5>2, <5>3 DEF HandleResult
      <4>2. ~Pending("add", p)
        BY <2>2, <2>3, <3>2, PendingStays
      <4> QED  BY <1>0, <2>3, <4>1, <4>2 DEF ActiveIsProven
    <3> QED  BY <3>1, <3>2
  <2> QED  BY <1>1, <2>3 DEF ProvenInv, ActiveIsProven
<1> QED  BY <1>0, <1>2, <1>3, <1>4, <1>5, <1>6, NoCrashes DEF Next

\* As long as the controller does not die, an active member whose tasks are all
\* answered has logged in with its latest password, whatever older tasks and
\* older rows reported meanwhile.
THEOREM PlacementProven == MaxCrashes = 0 /\ Spec => []ActiveIsProven
<1> SUFFICES ASSUME MaxCrashes = 0
             PROVE  Spec => []ActiveIsProven
  OBVIOUS
<1>1. Init => ProvenInv
  BY ProvenInit
<1>2. ProvenInv /\ [Next]_vars => ProvenInv'
  BY ProvenStep
<1>3. ProvenInv => ActiveIsProven
  BY DEF ProvenInv
<1> QED  BY <1>1, <1>2, <1>3, PTL DEF Spec
-----------------------------------------------------------------------------
(***************************************************************************)
(* Credentials.  Rows are made and removed one at a time here: admins wait *)
(* for what is under way, except to retry a placement or to add a student. *)
(***************************************************************************)
Careful == Hasty \subseteq {"retry", "add"}

\* An operation that is not hasty finds nothing under way.
LEMMA CalmSteps ==
    ASSUME Careful, TypeInv,
           \/ CreatePlacement \/ RecreatePlacement \/ DestroyPlacement \/ ForceDeletePlacement
           \/ \E s \in Students : RemoveStudent(s)
    PROVE  DOMAIN Pipeline = {} /\ mails = {} /\ mails' = {} /\ DOMAIN results = {}
           /\ Len(Pipeline) = 0
<1>1. PICK op \in {"create", "recreate", "destroy", "force", "remove"} : MayIssue(op) /\ mails' = mails
  BY DEF CreatePlacement, RecreatePlacement, DestroyPlacement, ForceDeletePlacement, RemoveStudent
<1>2. queue = <<>> /\ results = <<>> /\ mails = {}
  BY <1>1 DEF MayIssue, Careful, Quiet
<1>3. Len(queue) = 0 /\ Len(results) = 0
  BY <1>2
<1>4. /\ Len(Pipeline) = Len(results) + Len(queue) /\ DOMAIN Pipeline = 1..Len(Pipeline)
      /\ DOMAIN results = 1..Len(results)
  BY TypeShapes, PipelineSeq
<1> QED  BY <1>1, <1>2, <1>3, <1>4

\* A step that issues no student.add and gives no row keeps each member's one
\* student.add the one its row waits for.
LEMMA OneAddKept ==
    ASSUME TypeInv, OneAdd, roster \subseteq roster',
           \/ Pipeline' = Pipeline
           \/ Shifts
           \/ Grows /\ \A i \in DOMAIN Pipeline' \ DOMAIN Pipeline : Pipeline'[i].kind # "add",
           \A s \in Students : member'[s].row # 0 =>
              /\ member[s].row # 0 /\ member'[s].pw = member[s].pw
              /\ \/ member'[s].state = member[s].state
                 \/ \A i \in DOMAIN Pipeline' : ~(Pipeline'[i].kind = "add" /\ Pipeline'[i].s = s)
    PROVE  OneAdd'
<1>1. \A s \in Students : member'[s].row # 0 => s \in roster'
  BY DEF OneAdd
<1>2. ASSUME NEW s \in Students, NEW i \in DOMAIN Pipeline', Pipeline'[i].kind = "add", Pipeline'[i].s = s
      PROVE  /\ s \in roster'
             /\ member'[s].row # 0 => member'[s].state = "provisioning" /\ Pipeline'[i].pw = member'[s].pw
             /\ \A j \in DOMAIN Pipeline' : Pipeline'[j].kind = "add" /\ Pipeline'[j].s = s => j = i
  <2>1. ASSUME NEW k \in DOMAIN Pipeline, Pipeline[k] = Pipeline'[i]
        PROVE  /\ s \in roster'
               /\ member'[s].row # 0 => member'[s].state = "provisioning" /\ Pipeline'[i].pw = member'[s].pw
               /\ \A j \in DOMAIN Pipeline : Pipeline[j].kind = "add" /\ Pipeline[j].s = s => j = k
    BY <1>2, <2>1 DEF OneAdd
  <2>2. CASE Pipeline' = Pipeline
    BY <1>2, <2>1, <2>2
  <2>3. CASE Shifts
    <3>1. i \in Nat /\ i + 1 \in DOMAIN Pipeline /\ Pipeline[i + 1] = Pipeline'[i]
      BY <1>2, <2>3 DEF Shifts
    <3>2. ASSUME NEW j \in DOMAIN Pipeline', Pipeline'[j].kind = "add", Pipeline'[j].s = s
          PROVE  j = i
      <4>1. j \in Nat /\ j + 1 \in DOMAIN Pipeline /\ Pipeline[j + 1] = Pipeline'[j]
        BY <2>3, <3>2 DEF Shifts
      <4>2. j + 1 = i + 1
        BY <2>1, <3>1, <3>2, <4>1
      <4> QED  BY <3>1, <4>1, <4>2
    <3> QED  BY <2>1, <3>1, <3>2
  <2>4. CASE Grows /\ \A j \in DOMAIN Pipeline' \ DOMAIN Pipeline : Pipeline'[j].kind # "add"
    <3>1. \A j \in DOMAIN Pipeline' : Pipeline'[j].kind = "add" => j \in DOMAIN Pipeline /\ Pipeline[j] = Pipeline'[j]
      BY <2>4 DEF Grows
    <3> QED  BY <1>2, <2>1, <3>1
  <2> QED  BY <2>2, <2>3, <2>4
<1> QED  BY <1>1, <1>2 DEF OneAdd

\* createPlacement, recreatePlacement: every member starts anew.
LEMMA CredentialProvision ==
    ASSUME Careful, CredentialInv, CreatePlacement \/ RecreatePlacement
    PROVE  OneAdd' /\ Placed'
<1>0. TypeInv /\ CtlOK /\ RowsShaped /\ MemberOK
  BY TypeShapes DEF CredentialInv
<1>1. DOMAIN Pipeline = {} /\ mails' = {} /\ Len(Pipeline) = 0
  BY <1>0, CalmSteps
<1>2. PICK S \in SUBSET Students, kind \in {"create", "recreate"} :
         /\ S = IF CreatePlacement THEN roster ELSE Members
         /\ \A i \in DOMAIN Pipeline' \ DOMAIN Pipeline :
               \/ i = Len(Pipeline) + 1 /\ Pipeline'[i] = LabTask(kind)
               \/ i > Len(Pipeline) + 1 /\ Pipeline'[i].kind = "add" /\ Pipeline'[i].s \in S
         /\ \A s \in Students \ S : member'[s] = NoMember
         /\ \A s \in S :
               /\ member'[s].state = "provisioning" /\ member'[s].secret = member'[s].pw
               /\ \E i \in DOMAIN Pipeline' :
                     /\ Pipeline'[i] = Task("add", s, member'[s].pw)
                     /\ \A j \in DOMAIN Pipeline' \ DOMAIN Pipeline :
                           Pipeline'[j].kind = "add" /\ Pipeline'[j].s = s => j = i
  BY <1>0, ProvisionSteps
<1>3. UNCHANGED <<roster, delivered, proven>> /\ S \subseteq roster
  <2>1. Members \subseteq roster
    BY DEF CredentialInv, OneAdd, Members
  <2> QED  BY <1>2, <2>1 DEF CreatePlacement, RecreatePlacement, hist
<1>4. LabTask(kind).kind # "add"
  BY <1>2 DEF LabTask, Task
<1>5. \A s, pw : Task("add", s, pw).pw = pw
  BY DEF Task
<1>6. ASSUME NEW s \in Students, NEW i \in DOMAIN Pipeline', Pipeline'[i].kind = "add", Pipeline'[i].s = s
      PROVE  /\ s \in S /\ Pipeline'[i].pw = member'[s].pw
             /\ \A j \in DOMAIN Pipeline' : Pipeline'[j].kind = "add" /\ Pipeline'[j].s = s => j = i
  <2>1. s \in S
    BY <1>1, <1>2, <1>4, <1>6
  <2>2. PICK k \in DOMAIN Pipeline' :
           /\ Pipeline'[k] = Task("add", s, member'[s].pw)
           /\ \A j \in DOMAIN Pipeline' \ DOMAIN Pipeline :
                 Pipeline'[j].kind = "add" /\ Pipeline'[j].s = s => j = k
    BY <1>2, <2>1
  <2> QED  BY <1>1, <1>5, <1>6, <2>1, <2>2
<1>7. OneAdd'
  BY <1>2, <1>3, <1>6 DEF OneAdd, NoMember
<1>8. Placed'
  BY <1>1, <1>2 DEF Placed, NoMember
<1> QED  BY <1>7, <1>8

\* addStudentToLab: the student had no row, and no e-mail knows the new one.
LEMMA CredentialAdd ==
    ASSUME CredentialInv, NEW s \in Students, AddStudent(s)
    PROVE  OneAdd' /\ Placed' /\ MailsTrue'
<1>0. TypeInv /\ OneAdd /\ Placed /\ MailsTrue /\ CtlOK /\ MemberOK /\ MailOK
  BY TypeShapes DEF CredentialInv
<1>1. /\ s \notin roster /\ roster' = roster \cup {s} /\ UNCHANGED <<mails, delivered, proven>>
      /\ serial \in Nat /\ serial' = serial + 1
  BY <1>0, Spending DEF AddStudent, hist
<1>2. /\ member[s].row = 0
      /\ \A i \in DOMAIN Pipeline : ~(Pipeline[i].kind = "add" /\ Pipeline[i].s = s)
  BY <1>0, <1>1 DEF OneAdd
<1>3. CASE plc.id = 0
  <2>1. member' = member /\ Pipeline' = Pipeline
    BY <1>0, <1>3, RosterSteps
  <2>2. OneAdd'
    BY <1>0, <1>1, <2>1 DEF OneAdd
  <2>3. Placed'
    BY <1>0, <1>1, <2>1 DEF Placed
  <2>4. MailsTrue'
    <3>1. \A k \in Numbers : k <= serial => k <= serial'
      BY <1>1, LimitAssumption DEF Numbers
    <3> QED  BY <1>0, <1>1, <2>1, <3>1 DEF MailsTrue, MailOK, Mail
  <2> QED  BY <2>2, <2>3, <2>4
<1>4. CASE plc.id # 0
  <2>1. /\ Grows /\ Len(Pipeline) + 1 \in DOMAIN Pipeline'
        /\ \A i \in DOMAIN Pipeline' \ DOMAIN Pipeline : i = Len(Pipeline) + 1
        /\ Pipeline'[Len(Pipeline) + 1] = Task("add", s, serial + 1)
        /\ member'[s] = NewMember(serial + 1)
        /\ \A p \in Students : p # s => member'[p] = member[p]
    BY <1>0, <1>4, RosterSteps
  <2>2. Task("add", s, serial + 1).s = s /\ Task("add", s, serial + 1).pw = serial + 1
    BY DEF Task
  <2>3. /\ member'[s].row = serial + 1 /\ member'[s].pw = serial + 1 /\ member'[s].secret = serial + 1
        /\ member'[s].state = "provisioning"
    BY <2>1 DEF NewMember
  <2>4. ASSUME NEW p \in Students, NEW i \in DOMAIN Pipeline', Pipeline'[i].kind = "add", Pipeline'[i].s = p
        PROVE  /\ p \in roster'
               /\ member'[p].row # 0 => member'[p].state = "provisioning" /\ Pipeline'[i].pw = member'[p].pw
               /\ \A j \in DOMAIN Pipeline' : Pipeline'[j].kind = "add" /\ Pipeline'[j].s = p => j = i
    <3>1. CASE p = s
      <4>1. \A j \in DOMAIN Pipeline' : Pipeline'[j].kind = "add" /\ Pipeline'[j].s = s => j = Len(Pipeline) + 1
        BY <1>2, <2>1 DEF Grows
      <4> QED  BY <1>1, <2>1, <2>2, <2>3, <2>4, <3>1, <4>1
    <3>2. CASE p # s
      <4>1. \A j \in DOMAIN Pipeline' : Pipeline'[j].s = p => j \in DOMAIN Pipeline /\ Pipeline'[j] = Pipeline[j]
        BY <2>1, <2>2, <3>2 DEF Grows
      <4> QED  BY <1>0, <1>1, <2>1, <2>4, <3>2, <4>1 DEF OneAdd
    <3> QED  BY <3>1, <3>2
  <2>5. OneAdd'
    <3>1. \A p \in Students : member'[p].row # 0 => p \in roster'
      BY <1>0, <1>1, <2>1 DEF OneAdd
    <3> QED  BY <2>4, <3>1 DEF OneAdd
  <2>6. \A m \in mails : m.kind = "credential" => m.id # serial + 1 /\ m.id <= serial + 1 /\ m.s \in Students
    <3>1. \A k \in Numbers : k <= serial => k # serial + 1 /\ k <= serial + 1
      BY <1>1, LimitAssumption DEF Numbers
    <3> QED  BY <1>0, <3>1 DEF MailsTrue, MailOK, Mail
  <2>7. Placed'
    BY <1>0, <1>1, <2>1, <2>3, <2>6 DEF Placed
  <2>8. MailsTrue'
    BY <1>0, <1>1, <2>1, <2>3, <2>6 DEF MailsTrue
  <2> QED  BY <2>5, <2>7, <2>8
<1> QED  BY <1>3, <1>4

\* retryPlacement, destroyPlacement, forceDeletePlacement, removeStudentFromLab.
LEMMA CredentialAdmin ==
    ASSUME Careful, CredentialInv,
           \/ RetryPlacement \/ DestroyPlacement \/ ForceDeletePlacement
           \/ \E s \in Students : RemoveStudent(s)
    PROVE  OneAdd' /\ Placed' /\ MailsTrue'
<1>0. TypeInv /\ OneAdd /\ Placed /\ MailsTrue /\ CtlOK /\ MemberOK /\ MailOK
  BY TypeShapes DEF CredentialInv
<1>1. /\ UNCHANGED <<mails, delivered, proven>> /\ Spend(1)
      /\ serial \in Nat /\ serial' = serial + 1
  <2>1. UNCHANGED <<mails, delivered, proven>> /\ Spend(1)
    BY DEF RetryPlacement, DestroyPlacement, ForceDeletePlacement, RemoveStudent, hist
  <2> QED  BY <1>0, <2>1, Spending
<1>2. \A s \in Students : member'[s] = member[s] \/ member'[s] = NoMember
  <2>1. CASE RetryPlacement \/ DestroyPlacement \/ ForceDeletePlacement
    BY <2>1 DEF RetryPlacement, DestroyPlacement, ForceDeletePlacement, NoMembers
  <2>2. CASE \E s \in Students : RemoveStudent(s)
    BY <1>0, <2>2 DEF RemoveStudent, MemberOK
  <2> QED  BY <2>1, <2>2
<1>3. Placed'
  BY <1>0, <1>1, <1>2 DEF Placed, NoMember
<1>4. MailsTrue'
  <2>1. \A k \in Numbers : k <= serial => k <= serial'
    BY <1>1, LimitAssumption DEF Numbers
  <2> QED  BY <1>0, <1>1, <1>2, <2>1 DEF MailsTrue, MailOK, Mail, NoMember
<1>5. CASE RetryPlacement \/ DestroyPlacement \/ ForceDeletePlacement
  <2>1. /\ Grows
        /\ \A i \in DOMAIN Pipeline' \ DOMAIN Pipeline : Pipeline'[i].kind \in {"create", "destroy"}
    BY <1>0, <1>5, PipelineSteps
  <2>2. roster' = roster
    BY <1>5 DEF RetryPlacement, DestroyPlacement, ForceDeletePlacement
  <2>3. OneAdd'
    BY <1>0, <1>2, <2>1, <2>2, OneAddKept DEF NoMember
  <2> QED  BY <1>3, <1>4, <2>3
<1>6. ASSUME NEW s \in Students, RemoveStudent(s)
      PROVE  OneAdd'
  <2>1. DOMAIN Pipeline = {} /\ roster' = roster \ {s}
    BY <1>0, <1>6, CalmSteps DEF RemoveStudent
  <2>2. member'[s].row = 0
    <3>1. CASE plc.id = 0
      BY <1>0, <1>6, <3>1 DEF RemoveStudent, MemberOK, NoMembers, NoMember
    <3>2. CASE plc.id # 0
      BY <1>0, <1>6, <3>2 DEF RemoveStudent, MemberOK, NoMember
    <3> QED  BY <3>1, <3>2
  <2>3. \A i \in DOMAIN Pipeline' : Pipeline'[i].kind # "add"
    <3>1. CASE plc.id = 0
      BY <1>0, <1>6, <2>1, <3>1, RosterSteps
    <3>2. CASE plc.id # 0
      <4>1. ~AddStudent(s)
        BY <1>6 DEF AddStudent, RemoveStudent
      <4>2. /\ \A i \in DOMAIN Pipeline' \ DOMAIN Pipeline : i = Len(Pipeline) + 1
            /\ Pipeline'[Len(Pipeline) + 1] = Task("remove", s, 0)
        BY <1>0, <1>6, <3>2, <4>1, RosterSteps
      <4> QED  BY <2>1, <4>2 DEF Task
    <3> QED  BY <3>1, <3>2
  <2>4. \A p \in Students : member'[p].row # 0 => p \in roster'
    BY <1>0, <1>2, <2>1, <2>2 DEF OneAdd, NoMember
  <2> QED  BY <2>3, <2>4 DEF OneAdd
<1> QED  BY <1>3, <1>4, <1>5, <1>6

\* consumePlacementCredential, the node, a crash.
LEMMA CredentialQuietly ==
    ASSUME CredentialInv, proven \subseteq proven',
           RunTask \/ Crash \/ UNCHANGED vars \/ \E s \in Students : RevealCredential(s)
    PROVE  OneAdd' /\ Placed' /\ MailsTrue' /\ OnlyProvenDelivered'
<1>0. TypeInv /\ OneAdd /\ Placed /\ MailsTrue /\ OnlyProvenDelivered /\ MemberOK /\ MailOK /\ HistOK
  BY TypeShapes DEF CredentialInv
<1>1. CASE RunTask \/ Crash \/ UNCHANGED vars
  <2>1. UNCHANGED <<serial, roster, member, delivered>> /\ mails' \subseteq mails
    BY <1>1 DEF RunTask, Crash, vars, ctl, hist
  <2>2. Pipeline' = Pipeline \/ Shifts
    BY <1>0, <1>1, PipelineSteps
  <2>3. OneAdd'
    BY <1>0, <2>1, <2>2, OneAddKept DEF OneAdd
  <2>4. Placed' /\ MailsTrue' /\ OnlyProvenDelivered'
    BY <1>0, <2>1 DEF Placed, MailsTrue, OnlyProvenDelivered
  <2> QED  BY <2>3, <2>4
<1>2. ASSUME NEW s \in Students, RevealCredential(s)
      PROVE  OneAdd' /\ Placed' /\ MailsTrue' /\ OnlyProvenDelivered'
  <2>1. /\ UNCHANGED <<serial, roster, mails, proven>> /\ Pipeline' = Pipeline
        /\ member[s].state = "active" /\ member[s].secret # 0
    BY <1>0, <1>2, PipelineSteps DEF RevealCredential
  <2>2. /\ delivered'[s] = delivered[s] \cup {member[s].secret}
        /\ \A p \in Students : p # s => delivered'[p] = delivered[p] /\ member'[p] = member[p]
        /\ member'[s].row = member[s].row /\ member'[s].pw = member[s].pw
        /\ member'[s].state = member[s].state /\ member'[s].secret = 0
    BY <1>0, <1>2 DEF RevealCredential, MemberOK, MemberRows, HistOK
  <2>3. member[s].secret = member[s].pw /\ member[s].pw \in proven
    BY <1>0, <2>1 DEF Placed
  <2>4. OneAdd'
    <3>1. \A p \in Students : member'[p].row # 0 =>
             member[p].row # 0 /\ member'[p].pw = member[p].pw /\ member'[p].state = member[p].state
      BY <2>2
    <3> QED  BY <1>0, <2>1, <3>1, OneAddKept
  <2>5. Placed'
    BY <1>0, <2>1, <2>2, <2>3 DEF Placed
  <2>6. MailsTrue' /\ OnlyProvenDelivered'
    BY <1>0, <2>1, <2>2, <2>3 DEF MailsTrue, OnlyProvenDelivered, MailOK, Mail
  <2> QED  BY <2>4, <2>5, <2>6
<1> QED  BY <1>1, <1>2

\* After an e-mail: what it carried was the row's password, if it burns one.
LEMMA CredentialMail ==
    ASSUME CredentialInv, MailDone
    PROVE  OneAdd' /\ Placed' /\ MailsTrue' /\ OnlyProvenDelivered' /\ CompletionClaimed'
<1>0. /\ TypeInv /\ OneAdd /\ Placed /\ MailsTrue /\ OnlyProvenDelivered /\ Completions /\ CompletionClaimed
      /\ MemberOK /\ MailOK /\ HistOK /\ PlcOK
  BY TypeShapes DEF CredentialInv
<1>1. PICK m \in mails : CredentialMailed(m) \/ CompletionMailed(m) \/ MailFails(m)
  BY DEF MailDone
<1>2. /\ UNCHANGED <<serial, roster, proven>> /\ Pipeline' = Pipeline /\ mails' = mails \ {m}
      /\ m.s \in Students /\ m.kind \in {"credential", "completion"}
  BY <1>0, <1>1, PipelineSteps DEF CredentialMailed, CompletionMailed, MailFails, hist, MailOK, Mail
<1>3. CASE CredentialMailed(m)
  <2>1. /\ m.kind = "credential" /\ plc' = plc
        /\ delivered'[m.s] = delivered[m.s] \cup {m.pw}
        /\ \A p \in Students : p # m.s => delivered'[p] = delivered[p] /\ member'[p] = member[p]
        /\ member'[m.s].row = member[m.s].row /\ member'[m.s].pw = member[m.s].pw
        /\ member'[m.s].state = member[m.s].state
        /\ member'[m.s].secret = IF member[m.s].row = m.id THEN 0 ELSE member[m.s].secret
    BY <1>0, <1>2, <1>3 DEF CredentialMailed, MemberOK, MemberRows, HistOK
  <2>2. m.pw \in proven /\ m.id # 0 /\ (member[m.s].row = m.id => m.pw = member[m.s].pw)
    BY <1>0, <2>1 DEF MailsTrue
  <2>3. member[m.s].state = "provisioning" => member[m.s].row # m.id
    BY <1>0, <1>2, <2>1 DEF Placed
  <2>4. OneAdd'
    <3>1. \A p \in Students : member'[p].row # 0 =>
             member[p].row # 0 /\ member'[p].pw = member[p].pw /\ member'[p].state = member[p].state
      BY <2>1
    <3> QED  BY <1>0, <1>2, <3>1, OneAddKept
  <2>5. Placed'
    BY <1>0, <1>2, <2>1, <2>2, <2>3 DEF Placed
  <2>6. MailsTrue' /\ OnlyProvenDelivered'
    BY <1>0, <1>2, <2>1, <2>2 DEF MailsTrue, OnlyProvenDelivered, MailOK, Mail
  <2>7. CompletionClaimed'
    BY <1>0, <1>2, <2>1 DEF CompletionClaimed
  <2> QED  BY <2>4, <2>5, <2>6, <2>7
<1>4. CASE CompletionMailed(m) \/ MailFails(m)
  <2>1. /\ UNCHANGED <<member, delivered>> /\ plc'.id = plc.id
        /\ plc' = plc \/ (m.kind = "completion" /\ plc.id = m.id)
    BY <1>0, <1>4 DEF CompletionMailed, MailFails, hist, PlcOK
  <2>2. OneAdd'
    BY <1>0, <1>2, <2>1, OneAddKept
  <2>3. Placed' /\ MailsTrue' /\ OnlyProvenDelivered'
    BY <1>0, <1>2, <2>1 DEF Placed, MailsTrue, OnlyProvenDelivered
  <2>4. CompletionClaimed'
    <3>1. CASE plc' = plc
      BY <1>0, <1>2, <3>1 DEF CompletionClaimed
    <3>2. CASE m.kind = "completion" /\ plc.id = m.id
      <4>1. \A k \in mails : k.kind = "completion" /\ k.id = plc.id => k = m
        BY <1>0, <3>2 DEF Completions
      <4> QED  BY <1>2, <2>1, <4>1 DEF CompletionClaimed
    <3> QED  BY <2>1, <3>1, <3>2
  <2> QED  BY <2>2, <2>3, <2>4
<1> QED  BY <1>1, <1>3, <1>4

\* handleResult: a student.add that succeeded was the one for the row's password.
LEMMA CredentialResult ==
    ASSUME CredentialInv, HandleResult
    PROVE  OneAdd' /\ Placed' /\ MailsTrue' /\ OnlyProvenDelivered' /\ Completions' /\ CompletionClaimed'
<1>0. /\ TypeInv /\ OneAdd /\ OkProven /\ Placed /\ MailsTrue /\ OnlyProvenDelivered
      /\ Completions /\ CompletionClaimed
      /\ CtlOK /\ MemberOK /\ MailOK /\ HistOK /\ PlcOK /\ RowsShaped
  BY TypeShapes DEF CredentialInv
<1>1. /\ results # <<>> /\ results' = Tail(results)
      /\ UNCHANGED <<serial, roster, queue, delivered, proven>>
  BY DEF HandleResult, CreateResult, DestroyResult, AddResult, OtherResult, Handling, hist
<1>2. Shifts
  BY <1>0, PipelineSteps
<1>3. OnlyProvenDelivered'
  BY <1>0, <1>1 DEF OnlyProvenDelivered
<1>4. CASE CreateResult \/ DestroyResult \/ OtherResult
  <2>1. /\ mails' = mails /\ \A p \in Students : member'[p] = member[p] \/ member'[p] = NoMember
        /\ plc' = NoPlc \/ (plc'.id = plc.id /\ plc'.mailed = plc.mailed)
    <3>1. CASE CreateResult
      BY <1>0, <3>1 DEF CreateResult, PlcOK
    <3>2. CASE DestroyResult
      BY <1>0, <3>2 DEF DestroyResult, NoMembers, PlcOK
    <3>3. CASE OtherResult
      BY <3>3 DEF OtherResult
    <3> QED  BY <1>4, <3>1, <3>2, <3>3
  <2>2. OneAdd'
    <3>1. \A p \in Students : member'[p].row # 0 =>
             member[p].row # 0 /\ member'[p].pw = member[p].pw /\ member'[p].state = member[p].state
      BY <2>1 DEF NoMember
    <3> QED  BY <1>0, <1>1, <1>2, <3>1, OneAddKept
  <2>3. Placed'
    BY <1>0, <1>1, <2>1 DEF Placed, NoMember
  <2>4. MailsTrue'
    BY <1>0, <1>1, <2>1 DEF MailsTrue, NoMember, MailOK, Mail
  <2>5. Completions' /\ CompletionClaimed'
    BY <1>0, <1>1, <2>1 DEF Completions, CompletionClaimed, NoPlc
  <2> QED  BY <1>3, <2>2, <2>3, <2>4, <2>5
<1>5. CASE AddResult
  <2>1. PICK t \in Tasks, ok \in BOOLEAN :
           /\ Head(results) = [task |-> t, ok |-> ok] /\ t.kind = "add" /\ t.s \in Students
           /\ 1 \in DOMAIN Pipeline /\ Pipeline[1] = t /\ results[1] = Head(results) /\ 1 \in DOMAIN results
    <3>1. /\ Head(results) \in Answers /\ Head(results) = results[1] /\ 1 \in DOMAIN results
          /\ Head(results).task.kind \in {"add", "remove"} => Head(results).task.s \in Students
          /\ 1 \in DOMAIN Pipeline /\ Pipeline[1] = Head(results).task
      BY <1>0, <1>1, Handles
    <3>2. Head(results).task.kind = "add"
      BY <1>5 DEF AddResult, Handling
    <3> QED  BY <3>1, <3>2 DEF Answers
  <2> DEFINE s == t.s
             mb == Marked(s, ok)
  <2>2. /\ member' = mb
        /\ plc' = IF ok /\ Complete(mb) THEN [plc EXCEPT !.mailed = "claimed"] ELSE plc
        /\ mails' = mails \cup (IF ok THEN CredentialMails(s, mb) ELSE {})
                          \cup (IF ok /\ Complete(mb) THEN {CompletionMail} ELSE {})
    BY <1>5, <2>1 DEF AddResult
  <2>3. /\ \A p \in Students : p # s => mb[p] = member[p]
        /\ mb[s].row = member[s].row /\ mb[s].secret = member[s].secret /\ mb[s].pw = member[s].pw
        /\ member[s].row = 0 => mb[s] = member[s] /\ mb[s].state = "none"
        /\ member[s].row # 0 => mb[s].state = IF ok THEN "active" ELSE "failed"
    BY <1>0, <2>1 DEF Marked, MemberOK, MemberRows, RowsShaped, NoMember
  <2>4. s \in Students
    BY <2>1
  <2> HIDE DEF mb
  <2>5. member[s].row # 0 =>
           /\ member[s].state = "provisioning" /\ t.pw = member[s].pw /\ member[s].secret = member[s].pw
           /\ ok => member[s].pw \in proven
    <3>1. member[s].row # 0 => member[s].state = "provisioning" /\ t.pw = member[s].pw
      BY <1>0, <2>1, <2>4 DEF OneAdd
    <3>2. ok => t.pw \in proven
      BY <1>0, <2>1 DEF OkProven
    <3> QED  BY <1>0, <2>4, <3>1, <3>2 DEF Placed
  <2>6. \A i \in DOMAIN Pipeline' : ~(Pipeline'[i].kind = "add" /\ Pipeline'[i].s = s)
    <3>1. \A i \in DOMAIN Pipeline : Pipeline[i].kind = "add" /\ Pipeline[i].s = s => i = 1
      BY <1>0, <2>1, <2>4 DEF OneAdd
    <3>2. \A i \in DOMAIN Pipeline' :
             i + 1 \in DOMAIN Pipeline /\ i + 1 # 1 /\ Pipeline'[i] = Pipeline[i + 1]
      BY <1>2 DEF Shifts
    <3> QED  BY <3>1, <3>2
  <2>7. OneAdd'
    <3>1. \A p \in Students : member'[p].row # 0 =>
             /\ member[p].row # 0 /\ member'[p].pw = member[p].pw
             /\ \/ member'[p].state = member[p].state
                \/ \A i \in DOMAIN Pipeline' : ~(Pipeline'[i].kind = "add" /\ Pipeline'[i].s = p)
      BY <2>2, <2>3, <2>6
    <3> QED  BY <1>0, <1>1, <1>2, <3>1, OneAddKept
  <2>8. ASSUME NEW k \in mails', k \notin mails, k.kind = "credential"
        PROVE  /\ k.s = s /\ k.id = member[s].row /\ k.pw = member[s].pw
               /\ member[s].row # 0 /\ k.pw \in proven
    <3>1. ok /\ k \in CredentialMails(s, mb)
      BY <2>2, <2>8 DEF CompletionMail
    <3>2. k.s = s /\ k.id = mb[s].row /\ k.pw = mb[s].secret /\ mb[s].state = "active"
      BY <3>1 DEF CredentialMails
    <3> QED  BY <2>3, <2>5, <3>1, <3>2
  <2>9. \A m \in mails' : m.kind = "completion" => m \in mails \/ (m = CompletionMail /\ Complete(mb) /\ ok)
    BY <2>2 DEF CredentialMails
  <2>10. plc'.id = plc.id /\ (ok /\ Complete(mb) => plc'.mailed = "claimed") /\ (~(ok /\ Complete(mb)) => plc' = plc)
    BY <1>0, <2>2 DEF PlcOK
  <2>11. Placed'
    <3>1. ASSUME NEW p \in Students
          PROVE  /\ member'[p].secret \in {0, member'[p].pw}
                 /\ member'[p].state = "active" =>
                       /\ member'[p].pw \in proven'
                       /\ member'[p].pw \in delivered'[p] \/ member'[p].secret = member'[p].pw
                 /\ member'[p].state = "provisioning" =>
                       /\ member'[p].secret = member'[p].pw
                       /\ \A m \in mails' : m.kind = "credential" /\ m.s = p => m.id # member'[p].row
      <4>1. CASE p = s
        BY <1>0, <1>1, <2>2, <2>3, <2>5, <4>1 DEF Placed
      <4>2. CASE p # s
        BY <1>0, <1>1, <2>2, <2>3, <2>8, <4>2 DEF Placed
      <4> QED  BY <4>1, <4>2
    <3> QED  BY <3>1 DEF Placed
  <2>12. MailsTrue'
    <3>1. ASSUME NEW m \in mails', m.kind = "credential"
          PROVE  /\ m.pw \in proven' /\ m.id # 0 /\ m.id <= serial'
                 /\ member'[m.s].row = m.id => m.pw = member'[m.s].pw
      <4>1. CASE m \in mails
        BY <1>0, <1>1, <2>2, <2>3, <3>1, <4>1 DEF MailsTrue, MailOK, Mail
      <4>2. CASE m \notin mails
        BY <1>0, <1>1, <2>2, <2>3, <2>4, <2>8, <3>1, <4>2 DEF RowsShaped
      <4> QED  BY <4>1, <4>2
    <3> QED  BY <3>1 DEF MailsTrue
  <2>13. Completions' /\ CompletionClaimed'
    <3>1. Complete(mb) => plc.id # 0 /\ plc.mailed = "null"
      BY <1>0 DEF Complete, PlcOK
    <3>2. CompletionMail = [kind |-> "completion", s |-> PI, id |-> CompletionMail.id, pw |-> 0]
          /\ CompletionMail.id = plc.id
      BY DEF CompletionMail
    <3>3. plc.id <= serial' /\ \A m \in mails : m.id <= serial => m.id <= serial'
      BY <1>0, <1>1 DEF RowsShaped
    <3>4. Completions'
      BY <1>0, <1>1, <2>9, <3>1, <3>2, <3>3 DEF Completions
    <3>5. CompletionClaimed'
      BY <1>0, <2>9, <2>10, <3>1 DEF CompletionClaimed
    <3> QED  BY <3>4, <3>5
  <2> QED  BY <1>3, <2>7, <2>11, <2>12, <2>13
<1> QED  BY <1>4, <1>5 DEF HandleResult

\* The credential invariant holds at first.
LEMMA CredentialInit == Init => CredentialInv
<1> SUFFICES ASSUME Init
             PROVE  CredentialInv
  OBVIOUS
<1>1. TypeInv
  BY TypeInit
<1>2. /\ \A s \in Students : member[s] = NoMember /\ delivered[s] = {}
      /\ mails = {} /\ results = <<>> /\ queue = <<>>
  BY DEF Init, NoMembers
<1>3. DOMAIN Pipeline = {} /\ DOMAIN results = {}
  <2>1. Len(results) = 0 /\ Len(queue) = 0
    BY <1>2
  <2> QED  BY <1>1, <2>1, TypeShapes, PipelineSeq
<1>4. OneAdd
  BY <1>2, <1>3 DEF OneAdd, NoMember
<1>5. OkProven /\ MailsTrue /\ Completions /\ CompletionClaimed /\ OnlyProvenDelivered
  BY <1>2, <1>3 DEF OkProven, MailsTrue, Completions, CompletionClaimed, OnlyProvenDelivered
<1>6. Placed
  BY <1>2 DEF Placed, NoMember
<1> QED  BY <1>1, <1>4, <1>5, <1>6 DEF CredentialInv

\* No step but handleResult and the end of an e-mail is about the completion mail.
LEMMA CompletionsKept ==
    ASSUME Careful, CredentialInv, TypeInv',
           \/ CreatePlacement \/ RecreatePlacement \/ RetryPlacement \/ DestroyPlacement
           \/ ForceDeletePlacement \/ RunTask \/ Crash \/ UNCHANGED vars \/ MailDone
           \/ \E s \in Students : AddStudent(s) \/ RemoveStudent(s) \/ RevealCredential(s)
    PROVE  /\ Completions'
           /\ ~MailDone => CompletionClaimed' /\ mails' \subseteq mails
           /\ ~MailDone /\ (\A s \in Students : ~RevealCredential(s)) => delivered' = delivered
<1>0. TypeInv /\ CtlOK /\ PlcOK /\ MailOK /\ CtlOK' /\ Completions /\ CompletionClaimed
  BY TypeShapes, TypeParts DEF CredentialInv, TypeInv
<1>1. mails' \subseteq mails
  BY DEF CreatePlacement, RecreatePlacement, RetryPlacement, DestroyPlacement, ForceDeletePlacement,
         RunTask, Crash, vars, MailDone, CredentialMailed, CompletionMailed, MailFails,
         AddStudent, RemoveStudent, RevealCredential
<1>2. serial \in Nat /\ serial' \in Nat /\ serial <= serial'
  <2>1. CASE CreatePlacement \/ RecreatePlacement
    <3>1. serial < serial'
      BY <1>0, <2>1, ProvisionSteps
    <3> QED  BY <1>0, <3>1 DEF CtlOK, Numbers
  <2>2. CASE \/ RetryPlacement \/ DestroyPlacement \/ ForceDeletePlacement
             \/ \E s \in Students : AddStudent(s) \/ RemoveStudent(s)
    <3>1. Spend(1)
      BY <2>2 DEF RetryPlacement, DestroyPlacement, ForceDeletePlacement, AddStudent, RemoveStudent
    <3> QED  BY <1>0, <3>1, Spending
  <2>3. CASE RunTask \/ Crash \/ UNCHANGED vars \/ MailDone \/ \E s \in Students : RevealCredential(s)
    <3>1. serial' = serial
      BY <2>3 DEF RunTask, Crash, vars, ctl, MailDone, CredentialMailed, CompletionMailed, MailFails,
                  RevealCredential
    <3> QED  BY <1>0, <3>1 DEF CtlOK, Numbers
  <2> QED  BY <2>1, <2>2, <2>3
<1>3. Completions'
  <2>1. \A k \in Numbers : k <= serial => k <= serial'
    BY <1>2, LimitAssumption DEF Numbers
  <2> QED  BY <1>0, <1>1, <2>1 DEF Completions, MailOK, Mail
<1>4. ASSUME ~MailDone
      PROVE  CompletionClaimed'
  <2>1. CASE CreatePlacement \/ RecreatePlacement \/ DestroyPlacement \/ ForceDeletePlacement
    <3>1. mails' = {}
      BY <1>0, <2>1, CalmSteps
    <3> QED  BY <3>1 DEF CompletionClaimed
  <2>2. CASE RetryPlacement
    BY <1>0, <1>1, <2>2 DEF RetryPlacement, PlcOK, CompletionClaimed
  <2>3. CASE \/ RunTask \/ Crash \/ UNCHANGED vars
             \/ \E s \in Students : AddStudent(s) \/ RemoveStudent(s) \/ RevealCredential(s)
    <3>1. plc' = plc
      BY <2>3 DEF RunTask, Crash, vars, ctl, AddStudent, RemoveStudent, RevealCredential
    <3> QED  BY <1>0, <1>1, <3>1 DEF CompletionClaimed
  <2> QED  BY <1>4, <2>1, <2>2, <2>3
<1>5. ~MailDone /\ (\A s \in Students : ~RevealCredential(s)) => delivered' = delivered
  BY DEF CreatePlacement, RecreatePlacement, RetryPlacement, DestroyPlacement, ForceDeletePlacement,
         RunTask, Crash, vars, AddStudent, RemoveStudent, hist
<1> QED  BY <1>1, <1>3, <1>4, <1>5

\* Every step keeps the credential invariant.
LEMMA CredentialStep ==
    ASSUME Careful, CredentialInv, [Next]_vars
    PROVE  CredentialInv'
<1>0. TypeInv /\ OkProven /\ OnlyProvenDelivered
  BY DEF CredentialInv
<1>1. TypeInv' /\ OkProven' /\ proven \subseteq proven'
  BY <1>0, TypeStep, OkStep
<1>2. CASE HandleResult
  BY <1>1, <1>2, CredentialResult DEF CredentialInv
<1>3. CASE MailDone
  BY <1>1, <1>3, CredentialMail, CompletionsKept DEF CredentialInv
<1>4. CASE ~MailDone /\ (RunTask \/ Crash \/ UNCHANGED vars \/ \E s \in Students : RevealCredential(s))
  BY <1>1, <1>4, CredentialQuietly, CompletionsKept DEF CredentialInv
<1>5. CASE /\ ~MailDone /\ \A s \in Students : ~RevealCredential(s)
           /\ \/ CreatePlacement \/ RecreatePlacement \/ RetryPlacement \/ DestroyPlacement
              \/ ForceDeletePlacement \/ \E s \in Students : AddStudent(s) \/ RemoveStudent(s)
  <2>1. Completions' /\ CompletionClaimed' /\ mails' \subseteq mails /\ delivered' = delivered
    BY <1>1, <1>5, CompletionsKept
  <2>2. OnlyProvenDelivered'
    BY <1>0, <1>1, <2>1 DEF OnlyProvenDelivered
  <2>3. OneAdd' /\ Placed' /\ MailsTrue'
    <3>1. CASE CreatePlacement \/ RecreatePlacement
      <4>1. mails' = {}
        BY <1>0, <3>1, CalmSteps
      <4>2. MailsTrue'
        BY <4>1 DEF MailsTrue
      <4> QED  BY <3>1, <4>2, CredentialProvision
    <3>2. CASE RetryPlacement \/ DestroyPlacement \/ ForceDeletePlacement \/ \E s \in Students : RemoveStudent(s)
      BY <3>2, CredentialAdmin
    <3>3. CASE \E s \in Students : AddStudent(s)
      BY <3>3, CredentialAdd
    <3> QED  BY <1>5, <3>1, <3>2, <3>3
  <2> QED  BY <1>1, <2>1, <2>2, <2>3 DEF CredentialInv
<1> QED  BY <1>2, <1>3, <1>4, <1>5 DEF Next

\* With admins that wait for what is under way except to retry a placement or to
\* add a student, and however often the controller dies: only a password the node
\* has logged in with is mailed or shown, the latest password of an active member
\* was delivered or can still be, and a completion mail that is being sent is
\* claimed.
THEOREM PlacementCredentials ==
    Careful /\ Spec => [](OnlyProvenDelivered /\ CredentialKept /\ CompletionClaimed)
<1> SUFFICES ASSUME Careful
             PROVE  Spec => [](OnlyProvenDelivered /\ CredentialKept /\ CompletionClaimed)
  OBVIOUS
<1>1. Init => CredentialInv
  BY CredentialInit
<1>2. CredentialInv /\ [Next]_vars => CredentialInv'
  BY CredentialStep
<1>3. CredentialInv => OnlyProvenDelivered /\ CredentialKept /\ CompletionClaimed
  BY DEF CredentialInv, Placed, CredentialKept
<1> QED  BY <1>1, <1>2, <1>3, PTL DEF Spec
-----------------------------------------------------------------------------
(***************************************************************************)
(* Teardown.                                                               *)
(***************************************************************************)
\* A step keeps the teardown apart from the making of the placement, and does not
\* bring back a placement that is being torn down.
LEMMA TeardownStep ==
    ASSUME Careful, TypeInv, Teardown, [Next]_vars
    PROVE  /\ Teardown'
           /\ plc.state = "deleting" => plc'.state \in {"deleting", "none"}
<1>0. PlcOK /\ PipeOK
  BY TypeShapes
<1>1. CASE CreatePlacement
  <2>1. plc.id = 0 /\ plc'.state = "provisioning"
    BY <1>1 DEF CreatePlacement
  <2>2. DOMAIN Pipeline = {}
    BY <1>1, CalmSteps
  <2>3. \A i \in DOMAIN Pipeline' : Pipeline'[i].kind # "destroy"
    <3>1. PICK kind \in {"create", "recreate"} :
             \A i \in DOMAIN Pipeline' \ DOMAIN Pipeline :
                Pipeline'[i] = LabTask(kind) \/ Pipeline'[i].kind = "add"
      BY <1>1, ProvisionSteps
    <3>2. LabTask(kind).kind = kind
      BY DEF LabTask, Task
    <3> QED  BY <2>2, <3>1, <3>2
  <2> QED  BY <1>0, <2>1, <2>3 DEF Teardown, PlcOK
<1>2. CASE RecreatePlacement
  <2>1. plc'.state = plc.state
    BY <1>0, <1>2 DEF RecreatePlacement, PlcOK
  <2>2. DOMAIN Pipeline = {} /\ ~CreatePlacement
    BY <1>2, CalmSteps DEF CreatePlacement, RecreatePlacement
  <2>3. \A i \in DOMAIN Pipeline' : Pipeline'[i] = LabTask("recreate") \/ Pipeline'[i].kind = "add"
    BY <1>2, <2>2, ProvisionSteps
  <2>4. LabTask("recreate").kind = "recreate"
    BY DEF LabTask, Task
  <2> QED  BY <2>1, <2>3, <2>4 DEF Teardown
<1>3. CASE DestroyPlacement \/ ForceDeletePlacement
  <2>1. plc'.state \in {"deleting", "none"}
    BY <1>0, <1>3 DEF DestroyPlacement, ForceDeletePlacement, PlcOK, NoPlc
  <2>2. DOMAIN Pipeline = {} /\ PipeOK
    BY <1>0, <1>3, CalmSteps
  <2>3. UNCHANGED results /\ queue' = Append(queue, LabTask("destroy"))
    BY <1>3 DEF DestroyPlacement, ForceDeletePlacement
  <2>4. LabTask("destroy") \in Tasks /\ LabTask("destroy").kind = "destroy"
    BY TaskTypes
  <2>5. \A i \in DOMAIN Pipeline' : Pipeline'[i].kind = "destroy"
    BY <2>2, <2>3, <2>4, Issuing
  <2> QED  BY <2>1, <2>5 DEF Teardown
<1>4. CASE RetryPlacement
  <2>1. plc.state = "failed" /\ plc'.state = "provisioning"
    BY <1>0, <1>4 DEF RetryPlacement, PlcOK
  <2>2. UNCHANGED results /\ queue' = Append(queue, LabTask("create"))
    BY <1>4 DEF RetryPlacement
  <2>3. LabTask("create") \in Tasks /\ LabTask("create").kind = "create"
    BY TaskTypes
  <2>4. \A i \in DOMAIN Pipeline' : (i \in DOMAIN Pipeline /\ Pipeline'[i] = Pipeline[i]) \/ Pipeline'[i].kind = "create"
    BY <2>2, <2>3, Issuing
  <2> QED  BY <2>1, <2>4 DEF Teardown
<1>5. CASE plc'.state = plc.state /\ (Pipeline' = Pipeline \/ Shifts)
  BY <1>5 DEF Teardown, Shifts
<1>6. CASE \E s \in Students : AddStudent(s) \/ RemoveStudent(s)
  <2>1. PICK s \in Students : AddStudent(s) \/ RemoveStudent(s)
    BY <1>6
  <2>2. plc' = plc
    BY <2>1 DEF AddStudent, RemoveStudent
  <2>3. CASE plc.id = 0
    BY <1>5, <2>1, <2>2, <2>3, RosterSteps
  <2>4. CASE plc.id # 0
    <3>1. /\ Grows
          /\ \A i \in DOMAIN Pipeline' \ DOMAIN Pipeline :
                Pipeline'[i] \in {Task("add", s, serial + 1), Task("remove", s, 0)}
      BY <2>1, <2>4, RosterSteps
    <3>2. \A i \in DOMAIN Pipeline' :
             (i \in DOMAIN Pipeline /\ Pipeline'[i] = Pipeline[i]) \/ Pipeline'[i].kind \in {"add", "remove"}
      BY <3>1 DEF Task, Grows
    <3> QED  BY <2>2, <3>2 DEF Teardown
  <2> QED  BY <2>3, <2>4
<1>7. CASE CreateResult \/ DestroyResult
  <2>1. Shifts
    BY <1>7, PipelineSteps DEF HandleResult
  <2>2. /\ results # <<>> /\ results' = Tail(results) /\ UNCHANGED queue
        /\ CreateResult => Head(results).task.kind = "create"
        /\ DestroyResult => Head(results).task.kind = "destroy"
    BY <1>7 DEF CreateResult, DestroyResult, Handling
  <2>3. 1 \in DOMAIN Pipeline /\ Pipeline[1] = Head(results).task
    BY <2>2, Handles
  <2>4. CASE CreateResult
    <3>1. plc.state # "deleting"
      BY <2>2, <2>3, <2>4 DEF Teardown
    <3>2. plc'.state # "deleting" /\ (plc.state = "none" => plc' = plc)
      BY <1>0, <2>4, <3>1 DEF CreateResult, PlcOK
    <3> QED  BY <2>1, <3>1, <3>2 DEF Teardown, Shifts
  <2>5. CASE DestroyResult
    <3>1. plc.state \in {"deleting", "none"}
      BY <2>2, <2>3, <2>5 DEF Teardown
    <3>2. plc'.state \in {"deleting", "none"} /\ (plc.state = "none" => plc'.state = "none")
      BY <1>0, <2>5, <3>1 DEF DestroyResult, PlcOK, NoPlc
    <3> QED  BY <2>1, <3>1, <3>2 DEF Teardown, Shifts
  <2> QED  BY <1>7, <2>4, <2>5
<1>8. CASE AddResult \/ OtherResult
  <2>1. plc'.state = plc.state
    BY <1>0, <1>8 DEF AddResult, OtherResult, PlcOK
  <2> QED  BY <1>5, <1>8, <2>1, PipelineSteps DEF HandleResult
<1>9. CASE MailDone \/ RunTask \/ UNCHANGED vars \/ Crash \/ \E s \in Students : RevealCredential(s)
  <2>1. plc'.state = plc.state
    BY <1>0, <1>9 DEF MailDone, CredentialMailed, CompletionMailed, MailFails, PlcOK, RunTask, vars, ctl,
                      Crash, RevealCredential
  <2> QED  BY <1>5, <1>9, <2>1, PipelineSteps
<1> QED  BY <1>1, <1>2, <1>3, <1>4, <1>6, <1>7, <1>8, <1>9 DEF Next, HandleResult

\* There is nothing to tear down at first.
LEMMA TeardownInit == Init => Teardown
<1> SUFFICES ASSUME Init
             PROVE  Teardown
  OBVIOUS
<1>1. TypeInv /\ Len(results) = 0 /\ Len(queue) = 0
  BY TypeInit DEF Init
<1>2. DOMAIN Pipeline = {}
  BY <1>1, TypeShapes, PipelineSeq
<1> QED  BY <1>2 DEF Teardown

\* With the same admins, a placement that is being torn down stays so until the
\* node confirms: no late verdict on an earlier task brings it back.
THEOREM PlacementTornDown == Careful /\ Spec => DeletingStays
<1> SUFFICES ASSUME Careful
             PROVE  Spec => DeletingStays
  OBVIOUS
<1>1. Init => TypeInv /\ Teardown
  BY TypeInit, TeardownInit
<1>2. TypeInv /\ Teardown /\ [Next]_vars =>
         /\ TypeInv' /\ Teardown'
         /\ [plc.state = "deleting" => plc'.state \in {"deleting", "none"}]_vars
  BY TypeStep, TeardownStep
<1> QED  BY <1>1, <1>2, PTL DEF Spec, DeletingStays
-----------------------------------------------------------------------------
(***************************************************************************)
(* Rows and node.  Students come and go while tasks are under way, but the *)
(* container is built, rebuilt and destroyed only when there are none.     *)
(***************************************************************************)
Settled ==
    /\ Hasty \subseteq {"add", "remove"} /\ "retry" \notin Used
    /\ "recreateGone" \notin Failures /\ MaxCrashes = 0

\* An operation on the container finds no task under way.
LEMMA SettledSteps ==
    ASSUME Settled, TypeInv,
           CreatePlacement \/ RecreatePlacement \/ DestroyPlacement \/ ForceDeletePlacement
    PROVE  DOMAIN Pipeline = {} /\ DOMAIN results = {} /\ DOMAIN results' = {} /\ Len(Pipeline) = 0
<1>1. PICK op \in {"create", "recreate", "destroy", "force"} : MayIssue(op) /\ results' = results
  BY DEF CreatePlacement, RecreatePlacement, DestroyPlacement, ForceDeletePlacement
<1>2. queue = <<>> /\ results = <<>>
  BY <1>1 DEF MayIssue, Settled, Quiet
<1>3. Len(queue) = 0 /\ Len(results) = 0
  BY <1>2
<1>4. /\ Len(Pipeline) = Len(results) + Len(queue) /\ DOMAIN Pipeline = 1..Len(Pipeline)
      /\ DOMAIN results = 1..Len(results)
  BY TypeShapes, PipelineSeq
<1> QED  BY <1>1, <1>3, <1>4

\* What a handler does to the container and its accounts.
LEMMA NodeSteps ==
    ASSUME "recreateGone" \notin Failures, NodeOK, NEW t \in Tasks,
           t.kind \in {"add", "remove"} => t.s \in Students,
           (CanWork(t) /\ node' = After(t)) \/ Raises(t)
    PROVE  /\ t.kind = "create" /\ node' = After(t) => node'.up
           /\ t.kind = "recreate" => (node.up => node'.up)
           /\ t.kind \in {"add", "remove"} =>
                 node'.up = node.up /\ \A p \in Students : p # t.s => node'.acc[p] = node.acc[p]
           /\ t.kind = "add" /\ node' = After(t) => node'.acc[t.s] = t.pw
<1>1. t.kind \in {"create", "recreate"} => After(t).up
  BY DEF After, LabCreated, ContainerRecreated, FreshContainer
<1>2. ASSUME t.kind \in {"add", "remove"}
      PROVE  /\ After(t).up = node.up /\ \A p \in Students : p # t.s => After(t).acc[p] = node.acc[p]
             /\ t.kind = "add" => After(t).acc[t.s] = t.pw
  <2>1. CASE t.kind = "add"
    <3>1. After(t) = [node EXCEPT !.acc[t.s] = t.pw]
      BY <2>1 DEF After, StudentAdded
    <3> QED  BY <1>2, <3>1 DEF NodeOK
  <2>2. CASE t.kind = "remove"
    <3>1. After(t) = [node EXCEPT !.acc[t.s] = 0]
      BY <2>2 DEF After, StudentRemoved
    <3> QED  BY <1>2, <2>2, <3>1 DEF NodeOK
  <2> QED  BY <1>2, <2>1, <2>2
<1>3. t.kind = "recreate" /\ Raises(t) => node' = node \/ node' = After(t)
  BY DEF Raises, Partly
<1>4. t.kind \in {"add", "remove"} /\ Raises(t) => node' = node \/ node' = After(t)
  BY DEF Raises, Partly
<1> QED  BY <1>1, <1>2, <1>3, <1>4

\* A step that neither moves the pipeline nor touches the node keeps the rest.
LEMMA RowsQuietly ==
    ASSUME RowsInv, Pipeline' = Pipeline, UNCHANGED <<results, node>>, plc'.state = plc.state,
           \A p \in Students : member'[p].state = member[p].state /\ member'[p].pw = member[p].pw
    PROVE  LabFirst' /\ Runs' /\ Accounts'
<1>0. LabFirst /\ Runs /\ Accounts
  BY DEF RowsInv
<1>1. LabFirst'
  BY <1>0 DEF LabFirst
<1>2. Runs'
  BY <1>0 DEF Runs
<1>3. Accounts'
  BY <1>0 DEF Accounts, LastTouch, NoTouch, Touches
<1> QED  BY <1>1, <1>2, <1>3

\* createPlacement, recreatePlacement, destroyPlacement, forceDeletePlacement: the
\* lab's task is the first one.
LEMMA RowsLab ==
    ASSUME Settled, RowsInv,
           CreatePlacement \/ RecreatePlacement \/ DestroyPlacement \/ ForceDeletePlacement
    PROVE  LabFirst' /\ Runs' /\ Accounts'
<1>0. TypeInv /\ Runs /\ PlcOK /\ PipeOK
  BY TypeShapes DEF RowsInv
<1>1. DOMAIN Pipeline = {} /\ DOMAIN results' = {} /\ Len(Pipeline) = 0
  BY <1>0, SettledSteps
<1>2. CASE CreatePlacement \/ RecreatePlacement
  <2>1. PICK S \in SUBSET Students, kind \in {"create", "recreate"} :
           /\ kind = IF CreatePlacement THEN "create" ELSE "recreate"
           /\ \A i \in DOMAIN Pipeline' \ DOMAIN Pipeline :
                 \/ i = Len(Pipeline) + 1 /\ Pipeline'[i] = LabTask(kind)
                 \/ i > Len(Pipeline) + 1 /\ Pipeline'[i].kind = "add" /\ Pipeline'[i].s \in S
           /\ \A s \in Students \ S : member'[s] = NoMember
           /\ \A s \in S : member'[s].state = "provisioning"
    BY <1>0, <1>2, ProvisionSteps
  <2>2. LabTask(kind).kind = kind
    BY DEF LabTask, Task
  <2>3. \A i \in DOMAIN Pipeline' : (i = 1 /\ Pipeline'[i].kind = kind) \/ Pipeline'[i].kind = "add"
    BY <1>1, <2>1, <2>2
  <2>4. \A s \in Students : member'[s].state # "active"
    BY <2>1 DEF NoMember
  <2>5. /\ CreatePlacement => plc'.state = "provisioning"
        /\ ~CreatePlacement => plc'.state = plc.state
        /\ node' = node
    BY <1>0, <1>2 DEF CreatePlacement, RecreatePlacement, PlcOK
  <2>6. LabFirst'
    BY <2>1, <2>3, <2>4, <2>5 DEF LabFirst, LabKinds
  <2>7. Runs' /\ Accounts'
    BY <1>0, <1>1, <2>4, <2>5 DEF Runs, Accounts
  <2> QED  BY <2>6, <2>7
<1>3. CASE DestroyPlacement \/ ForceDeletePlacement
  <2>1. plc'.state \in {"deleting", "none"}
    BY <1>0, <1>3 DEF DestroyPlacement, ForceDeletePlacement, PlcOK, NoPlc
  <2>2. UNCHANGED results /\ queue' = Append(queue, LabTask("destroy"))
    BY <1>3 DEF DestroyPlacement, ForceDeletePlacement
  <2>3. LabTask("destroy") \in Tasks /\ LabTask("destroy").kind = "destroy"
    BY TaskTypes
  <2>4. \A i \in DOMAIN Pipeline' : i = Len(Pipeline) + 1 /\ Pipeline'[i].kind = "destroy"
    BY <1>0, <1>1, <2>2, <2>3, Issuing
  <2>5. LabFirst'
    BY <1>1, <2>1, <2>4 DEF LabFirst
  <2>6. Runs' /\ Accounts'
    BY <1>1, <2>1 DEF Runs, Accounts
  <2> QED  BY <2>5, <2>6
<1> QED  BY <1>2, <1>3

\* addStudentToLab, removeStudentFromLab.
LEMMA RowsRoster ==
    ASSUME RowsInv, NEW s \in Students, AddStudent(s) \/ RemoveStudent(s)
    PROVE  LabFirst' /\ Runs' /\ Accounts'
<1>0. TypeInv /\ LabFirst /\ Runs /\ Accounts /\ PipeOK
  BY TypeShapes DEF RowsInv
<1>1. UNCHANGED <<plc, results, node>>
  BY DEF AddStudent, RemoveStudent
<1>2. CASE plc.id = 0
  <2>1. member' = member /\ Pipeline' = Pipeline
    BY <1>0, <1>2, RosterSteps
  <2> QED  BY <1>1, <2>1, RowsQuietly
<1>3. CASE plc.id # 0
  <2>1. /\ Grows
        /\ \A i \in DOMAIN Pipeline' \ DOMAIN Pipeline :
              Pipeline'[i] \in {Task("add", s, serial + 1), Task("remove", s, 0)}
        /\ member'[s] \in {NewMember(serial + 1), NoMember}
        /\ \A p \in Students : p # s => member'[p] = member[p]
    BY <1>0, <1>3, RosterSteps
  <2>2. \A i \in DOMAIN Pipeline' :
           (i \in DOMAIN Pipeline /\ Pipeline'[i] = Pipeline[i]) \/ Pipeline'[i].kind \in {"add", "remove"}
    BY <2>1 DEF Task, Grows
  <2>3. \A p \in Students : member'[p].state = "active" => member'[p] = member[p] /\ p # s
    BY <2>1 DEF NewMember, NoMember
  <2>4. LabFirst'
    BY <1>0, <1>1, <2>2, <2>3 DEF LabFirst, LabKinds
  <2>5. Runs'
    BY <1>0, <1>1 DEF Runs
  <2>6. \A p \in Students : (NoTouch(p)' => NoTouch(p)) /\ \A i \in DOMAIN Pipeline : LastTouch(i, p)' => LastTouch(i, p)
    BY <2>1 DEF NoTouch, LastTouch, Touches, Grows
  <2>7. \A i \in DOMAIN results : i \in DOMAIN Pipeline
    BY <1>0, PipelineSeq
  <2>8. Accounts'
    BY <1>0, <1>1, <2>3, <2>6, <2>7 DEF Accounts
  <2> QED  BY <2>4, <2>5, <2>8
<1> QED  BY <1>2, <1>3

\* The node runs a task.
LEMMA RowsRun ==
    ASSUME Settled, RowsInv, RunTask
    PROVE  LabFirst' /\ Runs' /\ Accounts'
<1>0. TypeInv /\ LabFirst /\ Runs /\ Accounts /\ PipeOK /\ NodeOK
  BY TypeShapes DEF RowsInv
<1>1. UNCHANGED <<plc, member>>
  BY DEF RunTask, ctl
<1>2. PICK t \in Tasks, k \in Nat :
         /\ t = Head(queue) /\ k = Len(results) + 1
         /\ Pipeline' = Pipeline /\ (t.kind \in {"add", "remove"} => t.s \in Students)
         /\ k \in DOMAIN Pipeline /\ Pipeline[k] = t
         /\ DOMAIN results = 1..(k - 1) /\ DOMAIN results' = 1..k
         /\ \A i \in DOMAIN results : i \in DOMAIN results' /\ results'[i] = results[i]
         /\ results'[k].task = t
         /\ results'[k].ok => CanWork(t) /\ node' = After(t)
         /\ ~results'[k].ok => Raises(t)
  <2>1. Head(queue) \in Tasks /\ Len(results) + 1 \in Nat /\ (Len(results) + 1) - 1 = Len(results)
    BY <1>0, Running
  <2> QED  BY <1>0, <2>1, Running
<1>3. /\ t.kind = "create" /\ node' = After(t) => node'.up
      /\ t.kind = "recreate" => (node.up => node'.up)
      /\ t.kind \in {"add", "remove"} =>
            node'.up = node.up /\ \A p \in Students : p # t.s => node'.acc[p] = node.acc[p]
      /\ t.kind = "add" /\ node' = After(t) => node'.acc[t.s] = t.pw
  BY <1>0, <1>2, NodeSteps DEF Settled
<1>4. \A i \in DOMAIN results' : i = k \/ (i \in DOMAIN results /\ i < k)
  BY <1>2
<1>5. LabFirst'
  BY <1>0, <1>1, <1>2 DEF LabFirst
<1>6. CASE t.kind \in LabKinds
  <2>1. k = 1 /\ DOMAIN results = {}
    BY <1>0, <1>2, <1>6 DEF LabFirst
  <2>2. \A i \in DOMAIN results' : i = k
    BY <1>4, <2>1
  <2>3. Runs'
    <3>1. CASE t.kind = "create"
      <4>1. plc.state = "provisioning"
        BY <1>0, <1>2, <3>1 DEF LabFirst
      <4> QED  BY <1>1, <1>2, <1>3, <2>2, <3>1, <4>1 DEF Runs
    <3>2. CASE t.kind = "recreate"
      BY <1>0, <1>1, <1>2, <1>3, <2>2, <3>2 DEF Runs
    <3>3. CASE t.kind = "destroy"
      <4>1. plc.state # "active"
        BY <1>0, <1>2, <3>3 DEF LabFirst
      <4> QED  BY <1>1, <1>2, <2>2, <3>3, <4>1 DEF Runs
    <3> QED  BY <1>6, <3>1, <3>2, <3>3 DEF LabKinds
  <2>4. Accounts'
    <3>1. plc.state # "active" \/ \A p \in Students : member[p].state # "active"
      BY <1>0, <1>2, <1>6 DEF LabFirst, LabKinds
    <3> QED  BY <1>1, <1>2, <1>6, <2>2, <3>1 DEF Accounts, LabKinds
  <2> QED  BY <1>5, <2>3, <2>4
<1>7. CASE t.kind \notin LabKinds
  <2>1. t.kind \in {"add", "remove"} /\ t.s \in Students
    BY <1>2, <1>7 DEF LabKinds, Tasks
  <2>2. Touches(k, t.s)
    BY <1>2, <2>1 DEF Touches
  <2>3. Runs'
    BY <1>0, <1>1, <1>2, <1>3, <1>4, <2>1 DEF Runs
  <2>4. ASSUME NEW p \in Students, NEW i \in DOMAIN results', results'[i].ok, results'[i].task.kind = "add", LastTouch(i, p)'
        PROVE  node'.acc[p] = results'[i].task.pw
    <3>1. LastTouch(i, p)
      BY <1>2, <2>4 DEF LastTouch, Touches
    <3>2. CASE i = k
      <4>1. p = t.s
        BY <1>2, <3>1, <3>2 DEF LastTouch, Touches
      <4> QED  BY <1>2, <1>3, <2>4, <3>2, <4>1
    <3>3. CASE i \in DOMAIN results /\ i < k
      <4>1. p # t.s
        <5>1. i \in Nat
          BY <1>2, <3>3
        <5>2. p = t.s => k <= i
          BY <1>2, <2>2, <3>1 DEF LastTouch
        <5> QED  BY <3>3, <5>1, <5>2
      <4> QED  BY <1>0, <1>2, <1>3, <2>1, <2>4, <3>1, <3>3, <4>1 DEF Accounts
    <3> QED  BY <1>4, <3>2, <3>3
  <2>5. ASSUME NEW p \in Students, plc'.state = "active", member'[p].state = "active", NoTouch(p)'
        PROVE  node'.acc[p] = member'[p].pw
    <3>1. NoTouch(p)
      BY <1>2, <2>5 DEF NoTouch, Touches
    <3>2. p # t.s
      BY <1>2, <2>2, <3>1 DEF NoTouch
    <3> QED  BY <1>0, <1>1, <1>3, <2>1, <2>5, <3>1, <3>2 DEF Accounts
  <2>6. Accounts'
    BY <2>4, <2>5 DEF Accounts
  <2> QED  BY <1>5, <2>3, <2>6
<1> QED  BY <1>6, <1>7

\* The last touch of a member stays the last one when a task is taken off.
LEMMA ShiftedTouches ==
    ASSUME Shifts, NEW p \in Students
    PROVE  /\ \A i \in DOMAIN Pipeline' : LastTouch(i, p)' => LastTouch(i + 1, p)
           /\ NoTouch(p)' => \A i \in DOMAIN Pipeline : Touches(i, p) => i = 1
<1>1. ASSUME NEW i \in DOMAIN Pipeline', LastTouch(i, p)'
      PROVE  LastTouch(i + 1, p)
  <2>1. i \in Nat \ {0} /\ i + 1 \in DOMAIN Pipeline /\ Pipeline'[i] = Pipeline[i + 1]
    BY <1>1 DEF Shifts
  <2>2. Touches(i + 1, p)
    BY <1>1, <2>1 DEF LastTouch, Touches
  <2>3. ASSUME NEW j \in DOMAIN Pipeline, Touches(j, p)
        PROVE  j <= i + 1
    <3>1. CASE j = 1
      BY <2>1, <3>1
    <3>2. CASE j # 1
      <4>1. j \in Nat /\ j - 1 \in DOMAIN Pipeline' /\ Pipeline'[j - 1] = Pipeline[j]
        BY <3>2 DEF Shifts
      <4>2. j - 1 <= i
        BY <1>1, <2>3, <4>1 DEF LastTouch, Touches
      <4> QED  BY <2>1, <4>1, <4>2
    <3> QED  BY <3>1, <3>2
  <2> QED  BY <2>2, <2>3 DEF LastTouch
<1>2. ASSUME NoTouch(p)', NEW i \in DOMAIN Pipeline, Touches(i, p)
      PROVE  i = 1
  <2>1. i # 1 => i - 1 \in DOMAIN Pipeline' /\ Pipeline'[i - 1] = Pipeline[i]
    BY DEF Shifts
  <2> QED  BY <1>2, <2>1 DEF NoTouch, Touches
<1> QED  BY <1>1, <1>2

\* handleResult: the verdict is the one on what the node has now.
LEMMA RowsResult ==
    ASSUME RowsInv, HandleResult
    PROVE  LabFirst' /\ Runs' /\ Accounts'
<1>0. /\ TypeInv /\ LatestLast /\ LabFirst /\ Runs /\ Accounts
      /\ PipeOK /\ PlcOK /\ MemberOK /\ RowsShaped
  BY TypeShapes DEF RowsInv
<1>1. results # <<>> /\ results' = Tail(results) /\ UNCHANGED <<queue, node>>
  BY DEF HandleResult, CreateResult, DestroyResult, AddResult, OtherResult, Handling
<1>2. Shifts
  BY <1>0, PipelineSteps
<1>3. PICK t \in Tasks, ok \in BOOLEAN :
         /\ Head(results) = [task |-> t, ok |-> ok]
         /\ 1 \in DOMAIN Pipeline /\ Pipeline[1] = t /\ results[1] = Head(results) /\ 1 \in DOMAIN results
         /\ t.kind \in {"add", "remove"} => t.s \in Students
         /\ \A i \in DOMAIN results' : i \in Nat /\ i + 1 \in DOMAIN results /\ results'[i] = results[i + 1]
  <2>1. Head(results) \in Answers
    BY <1>0, <1>1, Handles
  <2> QED  BY <1>0, <1>1, <2>1, Handles DEF Answers
<1>4. \A i \in DOMAIN Pipeline' : Pipeline'[i].kind \notin LabKinds
  <2> TAKE i \in DOMAIN Pipeline'
  <2>1. i + 1 # 1 /\ i + 1 \in DOMAIN Pipeline /\ Pipeline'[i] = Pipeline[i + 1]
    BY <1>2 DEF Shifts
  <2> QED  BY <1>0, <2>1 DEF LabFirst
<1>5. LabFirst'
  BY <1>4 DEF LabFirst, LabKinds
<1>6. \A i \in DOMAIN results' : i \in DOMAIN Pipeline' /\ results'[i].task = Pipeline'[i]
  <2>1. PipeOK'
    BY <1>0, <1>1, Handles
  <2>2. results' \in Seq(Answers) /\ queue' \in Seq(Tasks)
    BY <2>1 DEF PipeOK
  <2>3. DOMAIN results' = 1..Len(results')
    BY <2>2, LenProperties
  <2>4. /\ Len(results') \in Nat /\ Len(queue') \in Nat
        /\ DOMAIN Pipeline' = 1..(Len(results') + Len(queue'))
        /\ \A i \in 1..Len(results') : Pipeline'[i] = results'[i].task
    BY <2>2, TasksOfSeq, PipelineIs
  <2> QED  BY <2>3, <2>4
<1>7. plc'.state = "active" => node.up
  <2>1. CASE CreateResult
    <3>1. t.kind = "create" /\ plc' = IF plc.id = 0 THEN plc ELSE [plc EXCEPT !.state = IF ok THEN "active" ELSE "failed"]
      BY <1>3, <2>1 DEF CreateResult, Handling
    <3>2. plc'.state = "active" => plc.state = "active" \/ ok
      BY <1>0, <3>1 DEF PlcOK
    <3>3. ok => node.up
      BY <1>0, <1>3, <3>1 DEF Runs
    <3> QED  BY <1>0, <3>2, <3>3 DEF Runs
  <2>2. CASE DestroyResult
    BY <1>0, <2>2 DEF DestroyResult, PlcOK, NoPlc, Runs
  <2>3. CASE AddResult \/ OtherResult
    BY <1>0, <2>3 DEF AddResult, OtherResult, PlcOK, Runs
  <2> QED  BY <2>1, <2>2, <2>3 DEF HandleResult
<1>8. Runs'
  BY <1>1, <1>4, <1>6, <1>7 DEF Runs, LabKinds
<1>9. ASSUME NEW p \in Students, NEW i \in DOMAIN results', results'[i].ok, results'[i].task.kind = "add", LastTouch(i, p)'
      PROVE  node'.acc[p] = results'[i].task.pw
  <2>1. LastTouch(i + 1, p)
    BY <1>2, <1>6, <1>9, ShiftedTouches
  <2> QED  BY <1>0, <1>1, <1>3, <1>9, <2>1 DEF Accounts
<1>10. ASSUME NEW p \in Students, plc'.state = "active", member'[p].state = "active", NoTouch(p)'
       PROVE  node'.acc[p] = member'[p].pw
  <2>1. \A i \in DOMAIN Pipeline : Touches(i, p) => i = 1
    BY <1>2, <1>10, ShiftedTouches
  <2>2. t.kind \notin {"create", "destroy"} /\ plc.state = "active"
    <3>1. CASE CreateResult
      <4>1. t.kind = "create" /\ member' = member
        BY <1>3, <3>1 DEF CreateResult, Handling
      <4> QED  BY <1>0, <1>3, <1>10, <4>1 DEF LabFirst
    <3>2. CASE DestroyResult
      <4>1. t.kind = "destroy"
        BY <1>3, <3>2 DEF DestroyResult, Handling
      <4>2. plc.state \in {"deleting", "none"}
        BY <1>0, <1>3, <4>1 DEF LabFirst
      <4> QED  BY <1>0, <1>10, <3>2, <4>2 DEF DestroyResult, PlcOK, NoPlc
    <3>3. CASE AddResult \/ OtherResult
      <4>1. t.kind \in {"add", "recreate", "remove"}
        BY <1>3, <3>3 DEF AddResult, OtherResult, Handling
      <4>2. plc'.state = plc.state
        BY <1>0, <3>3 DEF AddResult, OtherResult, PlcOK
      <4> QED  BY <1>10, <4>1, <4>2
    <3> QED  BY <3>1, <3>2, <3>3 DEF HandleResult
  <2>3. AddResult \/ OtherResult
    BY <1>3, <2>2 DEF HandleResult, CreateResult, DestroyResult, Handling
  <2>4. CASE Touches(1, p)
    <3>1. t.kind \in {"add", "remove"} /\ t.s = p
      BY <1>3, <2>4 DEF Touches
    <3>2. LastTouch(1, p) /\ ~NoTouch(p)
      BY <1>3, <2>1, <2>4 DEF LastTouch, NoTouch
    <3>3. /\ member[p].row # 0 /\ member'[p].pw = member[p].pw
          /\ t.kind = "add" => ok
      <4>1. CASE AddResult
        <5>1. member' = Marked(p, ok)
          BY <1>3, <3>1, <4>1 DEF AddResult
        <5>2. t.kind = "add"
          BY <1>3, <4>1 DEF AddResult, Handling
        <5> QED  BY <1>0, <1>10, <5>1 DEF Marked, MemberOK, MemberRows, RowsShaped, NoMember
      <4>2. CASE OtherResult
        <5>1. member' = member /\ t.kind # "add"
          BY <1>3, <4>2 DEF OtherResult, Handling
        <5> QED  BY <1>0, <1>10, <5>1 DEF RowsShaped, NoMember
      <4> QED  BY <2>3, <4>1, <4>2
    <3>4. PICK i \in DOMAIN Pipeline :
             LastTouch(i, p) /\ Pipeline[i].kind = "add" /\ Pipeline[i].pw = member[p].pw
      BY <1>0, <3>2, <3>3 DEF LatestLast
    <3>5. i = 1
      BY <2>1, <3>4 DEF LastTouch
    <3>6. node.acc[p] = t.pw
      BY <1>0, <1>3, <3>2, <3>3, <3>4, <3>5 DEF Accounts
    <3> QED  BY <1>1, <1>3, <3>3, <3>4, <3>5, <3>6
  <2>5. CASE ~Touches(1, p)
    <3>1. NoTouch(p)
      BY <2>1, <2>5 DEF NoTouch
    <3>2. member'[p] = member[p]
      <4>1. CASE OtherResult
        BY <4>1 DEF OtherResult
      <4>2. CASE AddResult
        <5>1. member' = Marked(t.s, ok) /\ t.kind = "add"
          BY <1>3, <4>2 DEF AddResult, Handling
        <5>2. t.s # p /\ t.s \in Students
          BY <1>3, <2>5, <5>1 DEF Touches
        <5> QED  BY <1>0, <5>1, <5>2 DEF Marked, MemberOK
      <4> QED  BY <2>3, <4>1, <4>2
    <3> QED  BY <1>0, <1>1, <1>10, <2>2, <3>1, <3>2 DEF Accounts
  <2> QED  BY <2>4, <2>5
<1>11. Accounts'
  BY <1>9, <1>10 DEF Accounts
<1> QED  BY <1>5, <1>8, <1>11

\* Every step keeps the rows in line with the node.
LEMMA RowsStep ==
    ASSUME Settled, RowsInv, [Next]_vars
    PROVE  RowsInv'
<1>0. TypeInv /\ LatestLast /\ PlcOK /\ MemberOK
  BY TypeShapes DEF RowsInv
<1>1. TypeInv' /\ LatestLast'
  BY <1>0, TypeStep, LatestStep
<1>2. CASE CreatePlacement \/ RecreatePlacement \/ DestroyPlacement \/ ForceDeletePlacement
  BY <1>1, <1>2, RowsLab DEF RowsInv
<1>3. CASE \E s \in Students : AddStudent(s) \/ RemoveStudent(s)
  BY <1>1, <1>3, RowsRoster DEF RowsInv
<1>4. CASE RunTask
  BY <1>1, <1>4, RowsRun DEF RowsInv
<1>5. CASE HandleResult
  BY <1>1, <1>5, RowsResult DEF RowsInv
<1>6. CASE MailDone \/ UNCHANGED vars \/ \E s \in Students : RevealCredential(s)
  <2>1. Pipeline' = Pipeline
    BY <1>0, <1>6, PipelineSteps
  <2>2. UNCHANGED <<results, node>> /\ plc'.state = plc.state
    BY <1>0, <1>6 DEF MailDone, CredentialMailed, CompletionMailed, MailFails, PlcOK, vars, ctl, pipe, RevealCredential
  <2>3. \A p \in Students : member'[p].state = member[p].state /\ member'[p].pw = member[p].pw
    <3>1. CASE UNCHANGED vars
      BY <3>1 DEF vars, ctl
    <3>2. CASE \E s \in Students : RevealCredential(s)
      BY <1>0, <3>2 DEF RevealCredential, MemberOK, MemberRows
    <3>3. CASE MailDone
      <4>1. PICK m \in mails : CredentialMailed(m) \/ CompletionMailed(m) \/ MailFails(m)
        BY <3>3 DEF MailDone
      <4> QED  BY <1>0, <4>1 DEF CredentialMailed, CompletionMailed, MailFails, MemberOK, MemberRows
    <3> QED  BY <1>6, <3>1, <3>2, <3>3
  <2> QED  BY <1>1, <2>1, <2>2, <2>3, RowsQuietly DEF RowsInv
<1>7. ~Crash /\ ~RetryPlacement
  BY <1>0, NoCrashes DEF Settled, RetryPlacement, MayIssue
<1> QED  BY <1>2, <1>3, <1>4, <1>5, <1>6, <1>7 DEF Next

\* They are in line at first.
LEMMA RowsInit == Init => RowsInv
<1> SUFFICES ASSUME Init
             PROVE  RowsInv
  OBVIOUS
<1>1. TypeInv /\ Len(results) = 0 /\ Len(queue) = 0
  BY TypeInit DEF Init
<1>2. DOMAIN Pipeline = {} /\ DOMAIN results = {}
  BY <1>1, TypeShapes, PipelineSeq
<1>3. plc.state = "none" /\ \A s \in Students : member[s] = NoMember
  BY DEF Init, NoPlc, NoMembers
<1> QED  BY <1>1, <1>2, <1>3 DEF RowsInv, LatestLast, LabFirst, Runs, Accounts, NoMember

\* When nothing is under way the rows say what the node has.
LEMMA RowsMatch == RowsInv => RowsMatchNode
<1> SUFFICES ASSUME RowsInv, Quiet, plc.state = "active"
             PROVE  node.up /\ \A s \in Students : member[s].state = "active" => node.acc[s] = member[s].pw
  BY DEF RowsMatchNode
<1>1. Len(results) = 0 /\ Len(queue) = 0
  BY DEF Quiet
<1>2. DOMAIN Pipeline = {}
  BY <1>1, TypeShapes, PipelineSeq DEF RowsInv
<1> QED  BY <1>2 DEF RowsInv, Runs, Accounts, NoTouch

\* With admins that build, rebuild and destroy the container only when no task is
\* under way and do not retry, a controller that stays up and a rebuild that can be
\* rolled back: an active placement has, once its tasks are answered, its container
\* and the accounts of its active members with their latest passwords, however
\* students were added and removed meanwhile.
THEOREM PlacementMatches == Settled /\ Spec => []RowsMatchNode
<1> SUFFICES ASSUME Settled
             PROVE  Spec => []RowsMatchNode
  OBVIOUS
<1>1. RowsInv /\ [Next]_vars => RowsInv'
  BY RowsStep
<1> QED  BY <1>1, RowsInit, RowsMatch, PTL DEF Spec
============================================================================
