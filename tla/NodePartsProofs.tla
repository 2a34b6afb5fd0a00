-------------------------- MODULE NodePartsProofs --------------------------
(***************************************************************************)
(* Proofs about the parts of the run of MCNodes beside the placements: the *)
(* groups of nodes, a student's storage, the recreation of a container,    *)
(* the quotas and the hourly ticker.  Each part has an inductive invariant *)
(* of its own; PartSteps says that a step of the run is a step of the part *)
(* it is about.                                                            *)
(***************************************************************************)
EXTENDS MCNodes, SequenceTheorems, FiniteSetTheorems, TLAPS

\* A step of the run is a step of the part that takes its steps.
LEMMA PartSteps ==
    ASSUME [NodesNext]_allVars
    PROVE  /\ part' = part
           /\ part = "hasty" => PH!Next \/ UNCHANGED placementVars
           /\ part = "rows" => PR!Next \/ UNCHANGED placementVars
           /\ part = "overlap" => PO!Next \/ UNCHANGED placementVars
           /\ part = "quotas" => Q!Next \/ UNCHANGED quotaVars
           /\ part = "groups" => G!Next \/ UNCHANGED groupVars
           /\ part = "ticker" => S!Next \/ UNCHANGED tickVars
           /\ part = "recreate" => C!Next \/ UNCHANGED dockVars
           /\ part = "storage" => U!Next \/ UNCHANGED homeVars
  BY DEF NodesNext, allVars

-----------------------------------------------------------------------------
(***************************************************************************)
(* Groups of nodes.  The ids of nodes are not given out again, so a form   *)
(* that is open ticks the nodes its admin saw, or nodes that are gone.     *)
(***************************************************************************)
GroupNames == {G!CleanGroupName(l) : l \in Labels} \cup {G!NoName}
Forms == [group : 0..MaxGroup, ticked : SUBSET (1..MaxNode)]

GroupsTyped ==
    /\ nodeRow \in [1..MaxNode -> Names \cup {G!NoName}]
    /\ group \in [1..MaxGroup -> [name : GroupNames, members : SUBSET (1..MaxNode)]]
    /\ lastNode \in 0..MaxNode /\ lastGroup \in 0..MaxGroup
    /\ form \in [Tabs -> Forms]

\* No id after the last one has a node.
IdsGivenOut == \A i \in 1..MaxNode : nodeRow[i] # G!NoName => i <= lastNode

FormsSeen ==
    \A t \in Tabs : \A i \in form[t].ticked :
       i <= lastNode /\ (nodeRow[i] # G!NoName => <<form[t].group, i, nodeRow[i]>> \in chosen)

GroupsInv == GroupsTyped /\ IdsGivenOut /\ FormsSeen /\ G!MembersChosen

\* Nobody has opened a form at first.
LEMMA GroupsInit == G!Init => GroupsInv
<1> SUFFICES ASSUME G!Init
             PROVE  GroupsInv
  OBVIOUS
<1> USE GroupAssumption
<1>1. GroupsTyped
  BY DEF G!Init, GroupsTyped, GroupNames, Forms, G!NoGroup, G!NoForm
<1>2. IdsGivenOut /\ FormsSeen
  BY DEF G!Init, IdsGivenOut, FormsSeen, G!NoForm
<1>3. G!MembersChosen
  BY DEF G!Init, G!MembersChosen, G!NoGroup
<1> QED  BY <1>1, <1>2, <1>3 DEF GroupsInv

\* A node gets an id that no form and no group knows, and takes its memberships
\* along when it goes.
LEMMA NodesComeAndGo ==
    ASSUME GroupsInv,
           (\E n \in Names : G!ProvisionNode(n)) \/ (\E i \in 1..MaxNode : G!DeleteNode(i))
    PROVE  GroupsInv'
<1> USE GroupAssumption
<1>0. GroupsTyped /\ IdsGivenOut /\ FormsSeen /\ G!MembersChosen
  BY DEF GroupsInv
<1>1. ASSUME NEW n \in Names, G!ProvisionNode(n)
      PROVE  GroupsInv'
  <2>1. /\ lastNode + 1 \in 1..MaxNode /\ lastNode' = lastNode + 1 /\ lastNode \in 0..MaxNode
        /\ nodeRow' = [nodeRow EXCEPT ![lastNode + 1] = n]
        /\ UNCHANGED <<group, lastGroup, form, chosen>>
    BY <1>0, <1>1 DEF G!ProvisionNode, G!NextId, GroupsTyped
  <2>2. GroupsTyped'
    BY <1>0, <2>1 DEF GroupsTyped
  <2>3. \A i \in 1..MaxNode : i # lastNode + 1 => nodeRow'[i] = nodeRow[i]
    BY <1>0, <2>1 DEF GroupsTyped
  <2>4. IdsGivenOut'
    BY <1>0, <2>1, <2>3 DEF IdsGivenOut
  <2>5. FormsSeen'
    <3> SUFFICES ASSUME NEW t \in Tabs, NEW i \in form[t].ticked
                 PROVE  i <= lastNode' /\ (nodeRow'[i] # G!NoName => <<form[t].group, i, nodeRow'[i]>> \in chosen)
      BY <2>1 DEF FormsSeen
    <3>1. i \in 1..MaxNode /\ i <= lastNode
      BY <1>0 DEF GroupsTyped, Forms, FormsSeen
    <3>2. i <= lastNode' /\ i # lastNode + 1
      BY <2>1, <3>1
    <3> QED  BY <1>0, <2>3, <3>1, <3>2 DEF FormsSeen
  <2>6. G!MembersChosen'
    <3> SUFFICES ASSUME NEW g \in 1..MaxGroup, NEW i \in group[g].members
                 PROVE  group[g].name # G!NoName /\ i \in 1..MaxNode /\ nodeRow'[i] # G!NoName /\ <<g, i, nodeRow'[i]>> \in chosen
      BY <2>1 DEF G!MembersChosen, G!Groups, G!Live
    <3>1. group[g].name # G!NoName /\ i \in 1..MaxNode /\ nodeRow[i] # G!NoName /\ <<g, i, nodeRow[i]>> \in chosen
      BY <1>0 DEF G!MembersChosen, G!Groups, G!Live
    <3>2. i # lastNode + 1
      BY <1>0, <2>1, <3>1 DEF IdsGivenOut
    <3> QED  BY <2>3, <3>1, <3>2
  <2> QED  BY <2>2, <2>4, <2>5, <2>6 DEF GroupsInv
<1>2. ASSUME NEW k \in 1..MaxNode, G!DeleteNode(k)
      PROVE  GroupsInv'
  <2>1. /\ nodeRow' = [nodeRow EXCEPT ![k] = G!NoName]
        /\ group' = [g \in 1..MaxGroup |-> [group[g] EXCEPT !.members = @ \ {k}]]
        /\ UNCHANGED <<lastNode, lastGroup, form, chosen>>
    BY <1>2 DEF G!DeleteNode
  <2>2. \A i \in 1..MaxNode : nodeRow'[i] = IF i = k THEN G!NoName ELSE nodeRow[i]
    BY <1>0, <2>1 DEF GroupsTyped
  <2>3. \A g \in 1..MaxGroup : group'[g].name = group[g].name /\ group'[g].members = group[g].members \ {k}
    BY <1>0, <2>1 DEF GroupsTyped
  <2>4. GroupsTyped'
    BY <1>0, <2>1 DEF GroupsTyped
  <2>5. IdsGivenOut'
    BY <1>0, <2>1, <2>2 DEF IdsGivenOut
  <2>6. FormsSeen'
    <3> SUFFICES ASSUME NEW t \in Tabs, NEW i \in form[t].ticked
                 PROVE  i <= lastNode /\ (nodeRow'[i] # G!NoName => <<form[t].group, i, nodeRow'[i]>> \in chosen)
      BY <2>1 DEF FormsSeen
    <3>1. i \in 1..MaxNode
      BY <1>0 DEF GroupsTyped, Forms
    <3>2. nodeRow'[i] # G!NoName => nodeRow'[i] = nodeRow[i]
      BY <2>2, <3>1
    <3> QED  BY <1>0, <3>1, <3>2 DEF FormsSeen
  <2>7. G!MembersChosen'
    BY <1>0, <2>1, <2>2, <2>3 DEF G!MembersChosen, G!Groups, G!Live
  <2> QED  BY <2>4, <2>5, <2>6, <2>7 DEF GroupsInv
<1> QED  BY <1>1, <1>2

\* Groups are made, renamed and deleted.
LEMMA GroupsComeAndGo ==
    ASSUME GroupsInv,
           \/ \E l \in Labels : G!CreateNodeGroup(l)
           \/ \E g \in 1..MaxGroup : G!DeleteNodeGroup(g) \/ \E l \in Labels : G!RenameNodeGroup(g, l)
    PROVE  GroupsInv'
<1> USE GroupAssumption
<1>0. GroupsTyped /\ IdsGivenOut /\ FormsSeen /\ G!MembersChosen
  BY DEF GroupsInv
<1>1. UNCHANGED <<nodeRow, lastNode, form, chosen>>
  BY DEF G!CreateNodeGroup, G!DeleteNodeGroup, G!RenameNodeGroup
<1>2. IdsGivenOut' /\ FormsSeen'
  BY <1>0, <1>1 DEF IdsGivenOut, FormsSeen
<1>3. ASSUME NEW l \in Labels, G!CreateNodeGroup(l)
      PROVE  GroupsTyped' /\ G!MembersChosen'
  <2>1. /\ lastGroup \in 0..MaxGroup /\ lastGroup + 1 \in 1..MaxGroup /\ lastGroup' = lastGroup + 1
        /\ group' = [group EXCEPT ![lastGroup + 1] = [name |-> G!CleanGroupName(l), members |-> {}]]
    BY <1>0, <1>3 DEF G!CreateNodeGroup, GroupsTyped
  <2>2. G!CleanGroupName(l) \in GroupNames
    BY DEF GroupNames
  <2>3. GroupsTyped'
    BY <1>0, <1>1, <2>1, <2>2 DEF GroupsTyped
  <2>4. G!MembersChosen'
    BY <1>0, <1>1, <2>1 DEF G!MembersChosen, G!Groups, G!Live, GroupsTyped
  <2> QED  BY <2>3, <2>4
<1>4. ASSUME NEW g \in 1..MaxGroup, G!DeleteNodeGroup(g)
      PROVE  GroupsTyped' /\ G!MembersChosen'
  <2>1. group' = [group EXCEPT ![g] = G!NoGroup] /\ lastGroup' = lastGroup
    BY <1>4 DEF G!DeleteNodeGroup
  <2>2. G!NoGroup.members = {} /\ G!NoGroup \in [name : GroupNames, members : SUBSET (1..MaxNode)]
    BY DEF G!NoGroup, GroupNames
  <2>3. GroupsTyped'
    BY <1>0, <1>1, <2>1, <2>2 DEF GroupsTyped
  <2>4. G!MembersChosen'
    BY <1>0, <1>1, <2>1, <2>2 DEF G!MembersChosen, G!Groups, G!Live, GroupsTyped
  <2> QED  BY <2>3, <2>4
<1>5. ASSUME NEW g \in 1..MaxGroup, NEW l \in Labels, G!RenameNodeGroup(g, l)
      PROVE  GroupsTyped' /\ G!MembersChosen'
  <2>1. /\ group' = [group EXCEPT ![g].name = G!CleanGroupName(l)] /\ lastGroup' = lastGroup
        /\ G!CleanGroupName(l) # G!NoName
    BY <1>5 DEF G!RenameNodeGroup
  <2>2. G!CleanGroupName(l) \in GroupNames
    BY DEF GroupNames
  <2>3. GroupsTyped'
    BY <1>0, <1>1, <2>1, <2>2 DEF GroupsTyped
  <2>4. \A h \in 1..MaxGroup :
           group'[h].members = group[h].members /\ (group[h].name # G!NoName => group'[h].name # G!NoName)
    BY <1>0, <2>1 DEF GroupsTyped
  <2>5. G!MembersChosen'
    BY <1>0, <1>1, <2>4 DEF G!MembersChosen, G!Groups, G!Live
  <2> QED  BY <2>3, <2>5
<1> QED  BY <1>2, <1>3, <1>4, <1>5 DEF GroupsInv

\* A form is opened, and sent off.
LEMMA FormsComeAndGo ==
    ASSUME GroupsInv,
           \/ \E t \in Tabs, g \in 1..MaxGroup, ticked \in SUBSET G!Live : G!ListNodeGroups(t, g, ticked)
           \/ \E t \in Tabs : G!SetNodeGroupMembers(t)
    PROVE  GroupsInv'
<1> USE GroupAssumption
<1>0. GroupsTyped /\ IdsGivenOut /\ FormsSeen /\ G!MembersChosen
  BY DEF GroupsInv
<1>1. ASSUME NEW t \in Tabs, NEW g \in 1..MaxGroup, NEW ticked \in SUBSET G!Live, G!ListNodeGroups(t, g, ticked)
      PROVE  GroupsInv'
  <2>1. /\ form' = [form EXCEPT ![t] = [group |-> g, ticked |-> ticked]]
        /\ chosen' = chosen \cup {<<g, i, nodeRow[i]>> : i \in ticked}
        /\ UNCHANGED <<nodeRow, group, lastNode, lastGroup>>
    BY <1>1 DEF G!ListNodeGroups
  <2>2. \A i \in ticked : i \in 1..MaxNode /\ nodeRow[i] # G!NoName
    BY DEF G!Live
  <2>3. GroupsTyped'
    <3>1. [group |-> g, ticked |-> ticked] \in Forms
      BY <2>2 DEF Forms
    <3> QED  BY <1>0, <2>1, <3>1 DEF GroupsTyped
  <2>4. IdsGivenOut' /\ G!MembersChosen'
    BY <1>0, <2>1 DEF IdsGivenOut, G!MembersChosen, G!Groups, G!Live
  <2>5. FormsSeen'
    <3>1. ASSUME NEW u \in Tabs, NEW i \in form'[u].ticked
          PROVE  i <= lastNode' /\ (nodeRow'[i] # G!NoName => <<form'[u].group, i, nodeRow'[i]>> \in chosen')
      <4>1. CASE u = t
        <5>1. form'[t] = [group |-> g, ticked |-> ticked]
          BY <1>0, <2>1 DEF GroupsTyped
        <5>2. i \in ticked /\ form'[u].group = g
          BY <3>1, <4>1, <5>1
        <5>3. <<g, i, nodeRow[i]>> \in chosen' /\ i <= lastNode
          BY <1>0, <2>1, <2>2, <5>2 DEF IdsGivenOut
        <5> QED  BY <2>1, <5>2, <5>3
      <4>2. CASE u # t
        <5>1. form'[u] = form[u]
          BY <1>0, <2>1, <4>2 DEF GroupsTyped
        <5> QED  BY <1>0, <2>1, <3>1, <5>1 DEF FormsSeen
      <4> QED  BY <4>1, <4>2
    <3> QED  BY <3>1 DEF FormsSeen
  <2> QED  BY <2>3, <2>4, <2>5 DEF GroupsInv
<1>2. ASSUME NEW t \in Tabs, G!SetNodeGroupMembers(t)
      PROVE  GroupsInv'
  <2>1. /\ form' = [form EXCEPT ![t] = G!NoForm] /\ UNCHANGED <<nodeRow, lastNode, lastGroup, chosen>>
        /\ group' = IF form[t].group \notin G!Groups THEN group
                    ELSE [group EXCEPT ![form[t].group].members = form[t].ticked \cap G!Live]
    BY <1>2 DEF G!SetNodeGroupMembers
  <2>2. G!Live \subseteq 1..MaxNode /\ G!Groups \subseteq 1..MaxGroup
    BY DEF G!Live, G!Groups
  <2>3. G!NoForm \in Forms /\ G!NoForm.ticked = {}
    BY DEF G!NoForm, Forms
  <2>4. GroupsTyped'
    BY <1>0, <2>1, <2>2, <2>3 DEF GroupsTyped
  <2>5. IdsGivenOut' /\ FormsSeen'
    <3>1. \A u \in Tabs : form'[u] = form[u] \/ form'[u].ticked = {}
      BY <1>0, <2>1, <2>3 DEF GroupsTyped
    <3> QED  BY <1>0, <2>1, <3>1 DEF IdsGivenOut, FormsSeen
  <2>6. G!MembersChosen'
    <3>1. CASE form[t].group \notin G!Groups
      BY <1>0, <2>1, <3>1 DEF G!MembersChosen, G!Groups, G!Live
    <3>2. CASE form[t].group \in G!Groups
      <4>1. \A h \in 1..MaxGroup :
               /\ group'[h].name = group[h].name
               /\ group'[h].members = IF h = form[t].group THEN form[t].ticked \cap G!Live ELSE group[h].members
        BY <1>0, <2>1, <2>2, <3>2 DEF GroupsTyped
      <4>2. \A i \in form[t].ticked \cap G!Live : i \in 1..MaxNode /\ nodeRow[i] # G!NoName /\ <<form[t].group, i, nodeRow[i]>> \in chosen
        BY <1>0 DEF FormsSeen, G!Live
      <4> QED  BY <1>0, <2>1, <3>2, <4>1, <4>2 DEF G!MembersChosen, G!Groups, G!Live
    <3> QED  BY <3>1, <3>2
  <2> QED  BY <2>4, <2>5, <2>6 DEF GroupsInv
<1> QED  BY <1>1, <1>2

\* A group holds only nodes that are there and that an admin put into it by this
\* name, for any number of pages, nodes and groups.
THEOREM GroupsHoldTheChosen == NodesSpec => []MembersChosen
<1> DEFINE I == part = "groups" => GroupsInv
<1>1. NodesInit => I
  BY GroupsInit DEF NodesInit
<1>2. I /\ [NodesNext]_allVars => I'
  <2> SUFFICES ASSUME part = "groups", GroupsInv, G!Next \/ UNCHANGED groupVars
               PROVE  GroupsInv'
    BY PartSteps
  <2>1. CASE UNCHANGED groupVars
    BY <2>1 DEF groupVars, GroupsInv, GroupsTyped, IdsGivenOut, FormsSeen, G!MembersChosen, G!Groups, G!Live
  <2>2. CASE G!Next
    BY <2>2, NodesComeAndGo, GroupsComeAndGo, FormsComeAndGo DEF G!Next
  <2> QED  BY <2>1, <2>2
<1>3. I => MembersChosen
  BY DEF GroupsInv, MembersChosen
<1> QED  BY <1>1, <1>2, <1>3, PTL DEF NodesSpec
-----------------------------------------------------------------------------
(***************************************************************************)
(* A student's storage.  While a promotion is under way everything is in   *)
(* the staged directory, until the copy of it is complete.                 *)
(***************************************************************************)
Places == (SUBSET Files) \cup {NoDir}
Steps  == {"idle", "create", "copy", "own", "clean", "undo"}

StorageTyped ==
    /\ dir \in Places /\ dataset \in Places /\ staged \in Places
    /\ call \in [pc : Steps, hadData : BOOLEAN]
    /\ written \in SUBSET Files

\* What is copied is there.
Moved ==
    /\ ((U!At("create") \/ U!At("own")) /\ call.hadData) => staged # NoDir
    /\ U!At("copy") \/ U!At("clean") => call.hadData /\ staged # NoDir

\* What holds at each step of a promotion, as long as no removal of a staged
\* directory has failed half way.
AtIdle   == U!At("idle") => U!DataKept /\ U!PromotionAtomic
Begun    == ~U!At("idle") => dir = NoDir /\ (call.hadData <=> staged # NoDir)
InStaged == ~U!At("idle") => written \subseteq U!Owned(staged)
Copied   == (U!At("own") /\ call.hadData) \/ U!At("clean") => call.hadData /\ dataset = staged
NewHere  == (U!At("create") => dataset = NoDir) /\ (U!At("copy") => call.hadData)

StorageInv == StorageTyped /\ Moved /\ ("rmtree" \notin spoilt => AtIdle /\ Begun /\ InStaged /\ Copied /\ NewHere)

\* What a student's storage holds at first.
LEMMA StorageInit == U!Init => StorageInv
<1> SUFFICES ASSUME U!Init
             PROVE  StorageInv
  OBVIOUS
<1>1. StorageTyped
  BY DEF U!Init, U!Idle, StorageTyped, Places, Steps
<1>2. Moved /\ AtIdle /\ Begun /\ InStaged /\ Copied /\ NewHere
  BY DEF U!Init, U!Idle, Moved, AtIdle, Begun, InStaged, Copied, NewHere, U!At, U!DataKept, U!PromotionAtomic
<1> QED  BY <1>1, <1>2 DEF StorageInv

\* The student writes; the placement is served without a promotion, or one begins.
LEMMA StorageUsed ==
    ASSUME StorageInv,
           (\E f \in Files : U!StudentWrites(f)) \/ (\E q \in BOOLEAN : U!Ensure(q)) \/ U!RemoveStudent
    PROVE  StorageInv'
<1> USE StorageAssumption DEF U!At, U!Owned, U!Held, U!View, U!DataKept, U!PromotionAtomic
<1>0. StorageTyped /\ Moved /\ U!At("idle") /\ spoilt' = spoilt
  BY DEF StorageInv, U!StudentWrites, U!Ensure, U!RemoveStudent
<1>1. ASSUME NEW f \in Files, U!StudentWrites(f)
      PROVE  StorageInv'
  <2>0. call' = call
    BY <1>1 DEF U!StudentWrites
  <2>1. StorageTyped'
    BY <1>0, <1>1 DEF U!StudentWrites, StorageTyped, Places
  <2>2. ASSUME "rmtree" \notin spoilt
        PROVE  AtIdle' /\ Begun' /\ InStaged' /\ Copied' /\ NewHere'
    <3>1. AtIdle'
      BY <1>0, <1>1, <2>2 DEF U!StudentWrites, StorageInv, StorageTyped, Places, AtIdle
    <3> QED  BY <1>0, <2>0, <3>1 DEF Begun, InStaged, Copied, NewHere
  <2> QED  BY <1>0, <2>0, <2>1, <2>2 DEF StorageInv, Moved
<1>2. ASSUME NEW q \in BOOLEAN, U!Ensure(q)
      PROVE  StorageInv'
  <2>1. CASE call' = call /\ dataset' = dataset /\ staged' = staged /\ written' = written
             /\ (dir' = dir \/ (dir = NoDir /\ dir' = {}))
    <3>1. StorageTyped'
      BY <1>0, <2>1 DEF StorageTyped, Places
    <3>2. ASSUME "rmtree" \notin spoilt
          PROVE  AtIdle' /\ Begun' /\ InStaged' /\ Copied' /\ NewHere'
      <4>1. AtIdle'
        BY <1>0, <2>1, <3>2 DEF StorageInv, StorageTyped, Places, AtIdle
      <4> QED  BY <1>0, <2>1, <4>1 DEF Begun, InStaged, Copied, NewHere
    <3>3. Moved'
      BY <1>0, <2>1 DEF Moved
    <3> QED  BY <1>0, <3>1, <3>2, <3>3 DEF StorageInv
  <2>2. CASE /\ dataset = NoDir /\ staged = NoDir /\ dataset' = dataset /\ written' = written
             /\ staged' = dir /\ dir' = NoDir /\ call' = [pc |-> "create", hadData |-> dir # NoDir]
    <3>1. call'.pc = "create" /\ (call'.hadData <=> staged' # NoDir)
      BY <2>2
    <3>2. StorageTyped'
      BY <1>0, <2>2 DEF StorageTyped, Places, Steps
    <3>3. ASSUME "rmtree" \notin spoilt
          PROVE  AtIdle' /\ Begun' /\ InStaged' /\ Copied' /\ NewHere'
      <4>1. InStaged'
        BY <1>0, <2>2, <3>3 DEF StorageInv, AtIdle, InStaged
      <4> QED  BY <2>2, <3>1, <4>1 DEF AtIdle, Begun, Copied, NewHere
    <3>4. Moved'
      BY <2>2, <3>1 DEF Moved
    <3> QED  BY <1>0, <3>2, <3>3, <3>4 DEF StorageInv
  <2>3. dataset' = dataset /\ written' = written
    BY <1>2 DEF U!Ensure
  <2>4. CASE dataset # NoDir \/ ~q
    <3>1. dir' = (IF dataset = NoDir THEN U!Owned(dir) ELSE dir) /\ UNCHANGED <<staged, call>>
      BY <1>2, <2>4 DEF U!Ensure
    <3>2. /\ call' = call /\ dataset' = dataset /\ staged' = staged /\ written' = written
          /\ dir' = dir \/ (dir = NoDir /\ dir' = {})
      BY <2>3, <3>1
    <3> QED  BY <2>1, <3>2
  <2>5. CASE ~(dataset # NoDir \/ ~q)
    <3>1. IF staged # NoDir THEN UNCHANGED <<dir, staged, call>>
          ELSE staged' = dir /\ dir' = NoDir /\ call' = [pc |-> "create", hadData |-> dir # NoDir]
      BY <1>2, <2>5 DEF U!Ensure
    <3>2. CASE staged # NoDir
      BY <2>1, <2>3, <3>1, <3>2
    <3>3. CASE staged = NoDir
      <4>1. dataset = NoDir
        BY <2>5
      <4> QED  BY <2>2, <2>3, <3>1, <3>3, <4>1
    <3> QED  BY <3>2, <3>3
  <2> QED  BY <2>4, <2>5
<1>3. ASSUME U!RemoveStudent
      PROVE  StorageInv'
  <2>0. call' = call
    BY <1>3 DEF U!RemoveStudent
  <2>1. StorageTyped'
    BY <1>0, <1>3 DEF U!RemoveStudent, StorageTyped, Places
  <2>2. ASSUME "rmtree" \notin spoilt
        PROVE  AtIdle' /\ Begun' /\ InStaged' /\ Copied' /\ NewHere'
    <3>1. AtIdle'
      BY <1>0, <1>3, <2>2 DEF U!RemoveStudent, StorageInv, StorageTyped, Places, AtIdle
    <3> QED  BY <1>0, <2>0, <3>1 DEF Begun, InStaged, Copied, NewHere
  <2> QED  BY <1>0, <2>0, <2>1, <2>2 DEF StorageInv, Moved
<1> QED  BY <1>1, <1>2, <1>3

\* A promotion takes a step, or the agent dies in it.
LEMMA StoragePromoted ==
    ASSUME StorageInv,
           U!Create \/ U!Copy \/ U!Own \/ U!Clean \/ U!Undo \/ U!AgentRestarts
    PROVE  StorageInv'
<1> USE StorageAssumption DEF U!At, U!Owned, U!Held, U!View, U!DataKept, U!PromotionAtomic
<1>0. StorageTyped /\ Moved /\ ~U!At("idle") /\ written' = written /\ spoilt \subseteq spoilt'
  BY DEF StorageInv, U!Create, U!Copy, U!Own, U!Clean, U!Undo, U!AgentRestarts, U!Fine, U!Fault
<1>1. StorageTyped'
  <2>1. dir' \in Places /\ dataset' \in Places /\ staged' \in Places
    <3>2. CASE U!Create \/ U!Own
      BY <1>0, <3>2 DEF StorageTyped, Places, U!Create, U!Own
    <3>3. CASE U!Copy
      BY <1>0, <3>3 DEF StorageTyped, Moved, Places, U!Copy
    <3>4. CASE U!Clean
      BY <1>0, <3>4 DEF StorageTyped, Moved, Places, U!Clean
    <3>5. CASE U!Undo
      BY <1>0, <3>5 DEF StorageTyped, Places, U!Undo
    <3>6. CASE U!AgentRestarts
      BY <1>0, <3>6 DEF StorageTyped, Moved, Places, U!AgentRestarts
    <3> QED  BY <3>2, <3>3, <3>4, <3>5, <3>6
  <2>2. call' \in [pc : Steps, hadData : BOOLEAN]
    <3>1. U!Idle \in [pc : Steps, hadData : BOOLEAN]
      BY DEF U!Idle, Steps
    <3>2. \A pc \in Steps : [call EXCEPT !.pc = pc] \in [pc : Steps, hadData : BOOLEAN]
      BY <1>0 DEF StorageTyped
    <3>3. "copy" \in Steps /\ "own" \in Steps /\ "clean" \in Steps /\ "undo" \in Steps
      BY DEF Steps
    <3>4. CASE U!Create
      <4>1. U!Go("copy") \/ U!Go("own") \/ U!Go("undo")
        BY <3>4 DEF U!Create
      <4> QED  BY <3>2, <3>3, <4>1 DEF U!Go
    <3>5. CASE U!Own
      <4>1. call' = [call EXCEPT !.pc = "clean"] \/ call' = U!Idle \/ U!Go("undo")
        BY <3>5 DEF U!Own
      <4> QED  BY <3>1, <3>2, <3>3, <4>1 DEF U!Go
    <3>6. CASE U!Copy
      <4>1. U!Go("own") \/ U!Go("undo")
        BY <3>6 DEF U!Copy
      <4> QED  BY <3>2, <3>3, <4>1 DEF U!Go
    <3>7. CASE U!Clean \/ U!Undo \/ U!AgentRestarts
      <4>1. call' = U!Idle \/ U!Go("undo")
        BY <3>7 DEF U!Clean, U!Undo, U!AgentRestarts
      <4> QED  BY <3>1, <3>2, <3>3, <4>1 DEF U!Go
    <3> QED  BY <3>4, <3>5, <3>6, <3>7
  <2> QED  BY <1>0, <2>1, <2>2 DEF StorageTyped
<1>2. ASSUME "rmtree" \notin spoilt'
      PROVE  AtIdle' /\ Begun' /\ InStaged' /\ Copied' /\ NewHere'
  <2>0. AtIdle /\ Begun /\ InStaged /\ Copied /\ NewHere
    BY <1>0, <1>2 DEF StorageInv
  <2>1. CASE U!Create
    <3>1. /\ call.pc = "create" /\ dir' = dir /\ staged' = staged /\ call'.hadData = call.hadData
          /\ \/ dataset' = {} /\ call'.pc = IF call.hadData THEN "copy" ELSE "own"
             \/ call'.pc = "undo"
      BY <1>0, <2>1 DEF U!Create, U!Go, U!Fine, StorageTyped
    <3> QED  BY <1>0, <2>0, <3>1 DEF AtIdle, Begun, InStaged, Copied, NewHere
  <2>2. CASE U!Copy
    <3>1. /\ call.pc = "copy" /\ dir' = dir /\ staged' = staged /\ call'.hadData = call.hadData
          /\ (dataset' = staged /\ call'.pc = "own") \/ call'.pc = "undo"
      BY <1>0, <2>2 DEF U!Copy, U!Go, U!Fine, StorageTyped
    <3> QED  BY <1>0, <2>0, <3>1 DEF AtIdle, Begun, InStaged, Copied, NewHere
  <2>3. CASE U!Own
    <3>1. /\ call.pc = "own" /\ dir' = dir /\ staged' = staged /\ dataset' = dataset
          /\ \/ call.hadData /\ call'.pc = "clean" /\ call'.hadData = call.hadData
             \/ ~call.hadData /\ call'.pc = "idle"
             \/ call'.pc = "undo" /\ call'.hadData = call.hadData
      BY <1>0, <2>3 DEF U!Own, U!Go, U!Fine, U!Idle, StorageTyped
    <3> QED  BY <1>0, <2>0, <3>1 DEF AtIdle, Begun, InStaged, Copied, NewHere
  <2>4. CASE U!Clean
    <3>1. /\ call.pc = "clean" /\ dir' = dir /\ dataset' = dataset /\ staged' = NoDir /\ call'.pc = "idle"
      BY <1>0, <1>2, <2>4 DEF U!Clean, U!Go, U!Fine, U!Fault, U!Idle, StorageTyped
    <3> QED  BY <1>0, <2>0, <3>1 DEF AtIdle, Begun, InStaged, Copied, NewHere, StorageTyped, Places
  <2>5. CASE U!Undo
    <3>1. /\ call.pc = "undo" /\ call'.pc = "idle"
          /\ \/ dataset' = NoDir /\ call.hadData /\ dir' = staged /\ staged' = NoDir
             \/ dataset' = NoDir /\ ~call.hadData /\ UNCHANGED <<dir, staged>>
             \/ spoilt' # {} /\ UNCHANGED <<dir, staged>>
      BY <1>0, <2>5 DEF U!Undo, U!Fine, U!Fault, U!Idle, StorageTyped
    <3> QED  BY <1>0, <2>0, <3>1 DEF AtIdle, Begun, InStaged, Copied, NewHere
  <2>6. CASE U!AgentRestarts
    <3>1. /\ call'.pc = "idle" /\ dir' = dir /\ spoilt' # {}
          /\ staged' = staged \/ (call.pc = "clean" /\ dataset' = dataset)
      <4>1. call' = U!Idle /\ dir' = dir /\ "crash" \in spoilt'
        BY <2>6 DEF U!AgentRestarts
      <4>2. staged' \in IF call.pc = "clean" THEN (SUBSET staged) \cup {NoDir} ELSE {staged}
        BY <2>6 DEF U!AgentRestarts
      <4>3. dataset' \in IF call.pc = "copy" THEN SUBSET staged ELSE {dataset}
        BY <2>6 DEF U!AgentRestarts
      <4>4. call'.pc = "idle"
        BY <4>1 DEF U!Idle
      <4>5. CASE call.pc = "clean"
        BY <4>1, <4>3, <4>4, <4>5
      <4>6. CASE call.pc # "clean"
        BY <4>1, <4>2, <4>4, <4>6
      <4> QED  BY <4>5, <4>6
    <3> QED  BY <1>0, <2>0, <3>1 DEF AtIdle, Begun, InStaged, Copied, NewHere
  <2> QED  BY <2>1, <2>2, <2>3, <2>4, <2>5, <2>6
<1>3. Moved'
  <2>1. CASE U!Create
    BY <1>0, <2>1 DEF Moved, U!Create, U!Go, StorageTyped
  <2>2. CASE U!Copy
    BY <1>0, <2>2 DEF Moved, U!Copy, U!Go, StorageTyped
  <2>3. CASE U!Own
    BY <1>0, <2>3 DEF Moved, U!Own, U!Go, U!Idle, StorageTyped
  <2>4. CASE U!Clean \/ U!Undo \/ U!AgentRestarts
    <3>1. call'.pc = "idle" \/ call'.pc = "undo"
      BY <1>0, <2>4 DEF U!Clean, U!Undo, U!AgentRestarts, U!Go, U!Idle, StorageTyped
    <3> QED  BY <3>1 DEF Moved
  <2> QED  BY <2>1, <2>2, <2>3, <2>4
<1> QED  BY <1>1, <1>2, <1>3 DEF StorageInv

\* Wherever a promotion stops, no file of a student is lost; and it is all or
\* nothing, for any number of files, calls, faults and crashes.
THEOREM StudentsDataIsKept == NodesSpec => []DataKept
<1> DEFINE I == part = "storage" => StorageInv
<1>1. NodesInit => I
  BY StorageInit DEF NodesInit
<1>2. I /\ [NodesNext]_allVars => I'
  <2> SUFFICES ASSUME part = "storage", StorageInv, U!Next \/ UNCHANGED homeVars
               PROVE  StorageInv'
    BY PartSteps
  <2>1. CASE UNCHANGED homeVars
    BY <2>1 DEF homeVars, StorageInv, StorageTyped, Moved, AtIdle, Begun, InStaged, Copied, NewHere, U!At, U!Owned,
                U!Held, U!View, U!DataKept, U!PromotionAtomic
  <2>2. CASE U!Next
    BY <2>2, StorageUsed, StoragePromoted DEF U!Next
  <2> QED  BY <2>1, <2>2
<1>3. I => DataKept
  <2> SUFFICES ASSUME part = "storage", StorageInv
               PROVE  U!DataKept /\ U!PromotionAtomic
    BY DEF DataKept
  <2>1. "rmtree" \notin spoilt => U!DataKept /\ U!PromotionAtomic
    BY DEF StorageInv, AtIdle, Begun, InStaged, U!DataKept, U!PromotionAtomic, U!Held
  <2> QED  BY <2>1 DEF U!DataKept, U!PromotionAtomic
<1> QED  BY <1>1, <1>2, <1>3, PTL DEF NodesSpec
-----------------------------------------------------------------------------
(***************************************************************************)
(* The recreation of a container.  Which of the two containers of a lab is *)
(* there depends on how far the handler is; how they are left by a failure *)
(* depends on what failed before, of which the run allows one call.        *)
(***************************************************************************)
Boxes    == [id : Nat, up : BOOLEAN, lists : BOOLEAN, patched : BOOLEAN]
Files0   == [Labs -> C!Ages]
Forward  == {"check", "stop", "clear", "rename", "prepare", "create", "ready"}
Marking  == {"promote", "load", "write", "replace"}
Backward == {"remove", "restore", "start"}
Causes   == {"pull", "ps", "stop", "clear", "rename", "prepare", "create", "ready", "remove", "restore",
             "start", "promote", "crash", "mark"}
Loops    == {"sleep", "pick", "update", "upgrade", "load", "write", "replace"}

Points   == {"idle"} \cup Forward \cup Marking \cup Backward

Workers == [pc : Points, lab : Labs, hadOld : BOOLEAN, was : Nat, causes : SUBSET Causes, data : Files0]
Ends    == [ok : BOOLEAN, lab : Labs, was : Nat, causes : SUBSET Causes]

Here   == named[worker.lab]
Beside == old[worker.lab]

DockTyped ==
    /\ named \in [Labs -> Boxes \cup {NoBox}] /\ old \in [Labs -> Boxes \cup {NoBox}]
    /\ worker \in Workers /\ ended \in Ends
    /\ made \in Nat /\ failed \in 0..1

RecordTyped ==
    /\ loop \in [pc : Loops, lab : Labs, todo : SUBSET Labs, data : Files0]
    /\ file \in Files0 /\ tmp \in Files0 \cup {NoFile}

\* Where the lab's last container is while the handler works.
Somewhere ==
    /\ worker.pc \in {"stop", "clear", "rename", "ready", "start"} \cup Marking => Here # NoBox
    /\ worker.lab \notin blind /\ worker.pc \in {"prepare", "create", "ready", "remove", "restore"} =>
          Beside # NoBox

\* Before a call has failed, a lab that is not being worked on is up.
NoFault ==
    failed = 0 =>
       /\ \A l \in Labs : old[l] # NoBox => ~old[l].up
       /\ \A l \in Labs : l # worker.lab \/ worker.pc = "idle" => named[l] # NoBox /\ named[l].up
       /\ worker.pc \notin Backward
       /\ worker.pc = "check" /\ worker.causes = {} => Here # NoBox /\ Here.up
       /\ worker.pc = "stop" => Here # NoBox
       /\ worker.pc \in {"clear", "rename"} => Here # NoBox /\ ~Here.up
       /\ worker.pc \in {"prepare", "create"} => Here = NoBox
       /\ worker.pc \in {"ready"} \cup Marking => Here # NoBox /\ Here.up

\* While only a call has failed that may fail, the container that was there at
\* first is where the handler can take it from.
Trail ==
    worker.pc # "idle" /\ worker.was # 0 /\ worker.causes \subseteq C!Handled =>
       /\ worker.pc \in Backward <=> worker.causes # {}
       /\ worker.causes # {} => failed = 1
       /\ worker.pc \in {"check", "stop", "clear", "rename", "start"} => Here # NoBox /\ Here.id = worker.was
       /\ worker.pc \in {"clear", "rename"} => ~Here.up
       /\ worker.pc \notin {"check", "start"} \cup Marking => worker.hadOld
       /\ worker.pc \in {"prepare", "create", "ready", "remove", "restore"} =>
             Beside # NoBox /\ Beside.id = worker.was
       /\ worker.pc \in {"prepare", "create"} => ~Beside.up
       /\ worker.pc \in {"prepare", "create", "restore"} => Here = NoBox

Ending == (~ended.ok => worker.pc = "idle") /\ C!RolledBack

DockInv == DockTyped /\ RecordTyped /\ C!ContainerKept /\ Somewhere /\ NoFault /\ Trail /\ Ending


\* How a step moves the handler on: it goes on, goes on after a failure, or ends.
Moves(pc) ==
    /\ worker' \in Workers /\ worker'.pc = pc /\ worker'.lab = worker.lab /\ worker'.was = worker.was
    /\ worker'.hadOld = worker.hadOld /\ worker'.causes = worker.causes /\ ended' = ended

Fails(c, pc) ==
    /\ failed = 0 /\ failed' = 1 /\ ended' = ended
    /\ worker' \in Workers /\ worker'.pc = pc /\ worker'.lab = worker.lab /\ worker'.was = worker.was
    /\ worker'.hadOld = worker.hadOld /\ worker'.causes = worker.causes \cup {c}

Stops(cs) ==
    /\ worker' \in Workers /\ worker'.pc = "idle"
    /\ ended' \in Ends /\ ~ended'.ok /\ ended'.lab = worker.lab /\ ended'.was = worker.was /\ ended'.causes = cs

\* The idle handler has its type.
LEMMA IdleTyped == C!Idle \in Workers /\ C!Idle.pc = "idle"
<1>1. C!TheLab \in Labs
  BY DockAssumption DEF C!TheLab
<1>2. C!Empty \in Files0
  BY DEF C!Empty, Files0, C!Ages
<1> QED  BY <1>1, <1>2 DEF C!Idle, Workers, Points

\* What the steps of the handler are put together from.
LEMMA HandlerMoves ==
    ASSUME DockTyped
    PROVE  /\ \A pc \in Points : C!Go(pc) => Moves(pc)
           /\ \A c \in Causes, pc \in Points : C!Caught(c, pc) => Fails(c, pc)
           /\ \A cs \in SUBSET Causes : C!Answer(FALSE, cs) => Stops(cs)
           /\ \A c \in Causes : C!Raised(c) => failed = 0 /\ failed' = 1 /\ Stops(worker.causes \cup {c})
<1>0. worker \in Workers /\ failed \in 0..1
  BY DEF DockTyped
<1>1. ASSUME NEW pc \in Points, C!Go(pc)
      PROVE  Moves(pc)
  BY <1>0, <1>1 DEF C!Go, Moves, Workers
<1>2. ASSUME NEW c \in Causes, NEW pc \in Points, C!Caught(c, pc)
      PROVE  Fails(c, pc)
  <2>1. failed < 1 /\ failed' = failed + 1 /\ ended' = ended
        /\ worker' = [worker EXCEPT !.pc = pc, !.causes = @ \cup {c}]
    BY <1>2 DEF C!Caught, C!Fault
  <2>2. failed = 0 /\ failed' = 1
    BY <1>0, <2>1
  <2>3. worker.causes \cup {c} \in SUBSET Causes
    BY <1>0 DEF Workers
  <2> QED  BY <1>0, <2>1, <2>2, <2>3 DEF Fails, Workers
<1>3. ASSUME NEW cs \in SUBSET Causes, C!Answer(FALSE, cs)
      PROVE  Stops(cs)
  <2>1. worker' = C!Idle /\ ended' = [ok |-> FALSE, lab |-> worker.lab, was |-> worker.was, causes |-> cs]
    BY <1>3 DEF C!Answer
  <2> QED  BY <1>0, <2>1, IdleTyped DEF Stops, Workers, Ends
<1>4. ASSUME NEW c \in Causes, C!Raised(c)
      PROVE  failed = 0 /\ failed' = 1 /\ Stops(worker.causes \cup {c})
  <2>1. failed < 1 /\ failed' = failed + 1 /\ C!Answer(FALSE, worker.causes \cup {c})
    BY <1>4 DEF C!Raised, C!Fault
  <2>2. failed = 0 /\ failed' = 1
    BY <1>0, <2>1
  <2>3. worker.causes \cup {c} \in SUBSET Causes
    BY <1>0 DEF Workers
  <2> QED  BY <1>3, <2>1, <2>2, <2>3
<1> QED  BY <1>1, <1>2, <1>3, <1>4

\* Another thread, or the lapse of time, leaves every container as it is but for
\* its packages.
Beheld ==
    /\ worker' \in Workers /\ worker'.pc = worker.pc /\ worker'.lab = worker.lab /\ worker'.was = worker.was
    /\ worker'.hadOld = worker.hadOld /\ worker'.causes = worker.causes
    /\ ended' = ended /\ old' = old /\ blind' = blind /\ made' = made
    /\ failed' \in 0..1 /\ failed <= failed'
    /\ named' \in [Labs -> Boxes \cup {NoBox}]
    /\ \A l \in Labs : IF named[l] = NoBox THEN named'[l] = NoBox
                       ELSE named'[l] # NoBox /\ named'[l].id = named[l].id /\ named'[l].up = named[l].up

LEMMA BeheldStep ==
    ASSUME DockInv, Beheld, RecordTyped'
    PROVE  DockInv'
<1> USE DockAssumption
<1>0. DockTyped /\ RecordTyped /\ C!ContainerKept /\ Somewhere /\ NoFault /\ Trail /\ Ending
  BY DEF DockInv
<1>1. DockTyped'
  BY <1>0 DEF DockTyped, Beheld
<1>2. C!ContainerKept' /\ Somewhere'
  BY <1>0 DEF C!ContainerKept, Somewhere, Beheld, Here, DockTyped, Workers, Beside
<1>3. NoFault'
  <2> SUFFICES ASSUME failed' = 0
               PROVE  NoFault'
    BY DEF NoFault
  <2>1. failed = 0
    BY <1>0 DEF Beheld, DockTyped
  <2> QED  BY <1>0, <2>1 DEF NoFault, Beheld, Here, DockTyped, Workers, Beside
<1>4. Trail'
  <2>1. failed = 1 => failed' = 1
    BY <1>0 DEF Beheld, DockTyped
  <2> QED  BY <1>0, <2>1 DEF Trail, Beheld, Here, DockTyped, Workers, Beside
<1>5. Ending'
  <2>1. ended.lab \in Labs
    BY <1>0 DEF DockTyped, Ends
  <2> QED  BY <1>0, <2>1 DEF Ending, Beheld, C!RolledBack, C!At
<1> QED  BY <1>1, <1>2, <1>3, <1>4, <1>5 DEF DockInv

\* What a step of the handler does to the two containers of its lab.
Puts(n, o) ==
    /\ named' \in [Labs -> Boxes \cup {NoBox}] /\ old' \in [Labs -> Boxes \cup {NoBox}]
    /\ \A k \in Labs : /\ named'[k] = IF k = worker.lab THEN n ELSE named[k]
                       /\ old'[k] = IF k = worker.lab THEN o ELSE old[k]

\* The containers are set as the handler says.
LEMMA Putting ==
    ASSUME DockTyped, NEW n \in Boxes \cup {NoBox}, NEW o \in Boxes \cup {NoBox},
           named' = [named EXCEPT ![worker.lab] = n] \/ (named' = named /\ n = Here),
           old' = [old EXCEPT ![worker.lab] = o] \/ (old' = old /\ o = Beside)
    PROVE  Puts(n, o)
<1>1. \A k \in Labs : named'[k] = IF k = worker.lab THEN n ELSE named[k]
  BY DEF DockTyped, Workers, Here
<1>2. \A k \in Labs : old'[k] = IF k = worker.lab THEN o ELSE old[k]
  BY DEF DockTyped, Workers, Beside
<1>3. named' \in [Labs -> Boxes \cup {NoBox}] /\ old' \in [Labs -> Boxes \cup {NoBox}]
  BY DEF DockTyped, Workers
<1> QED  BY <1>1, <1>2, <1>3 DEF Puts

\* The containers there are, and a new one, have their types.
LEMMA BoxesTyped ==
    ASSUME DockTyped
    PROVE  /\ Here \in Boxes \cup {NoBox} /\ Beside \in Boxes \cup {NoBox} /\ worker.lab \in Labs
           /\ NoBox \notin Boxes
           /\ Here # NoBox => \A u \in BOOLEAN :
                 /\ [Here EXCEPT !.up = u] \in Boxes /\ [Here EXCEPT !.up = u].up = u
                 /\ [Here EXCEPT !.up = u].id = Here.id
           /\ \A u \in BOOLEAN : C!Fresh(made + 1, u) \in Boxes /\ C!Fresh(made + 1, u).up = u
<1>1. worker.lab \in Labs /\ made + 1 \in Nat
  BY DEF DockTyped, Workers
<1>2. Here \in Boxes \cup {NoBox} /\ Beside \in Boxes \cup {NoBox}
  BY <1>1 DEF DockTyped, Here, Beside
<1>3. \A u \in BOOLEAN : C!Fresh(made + 1, u) \in Boxes /\ C!Fresh(made + 1, u).up = u
  BY <1>1 DEF C!Fresh, Boxes
<1>4. ASSUME Here # NoBox
      PROVE  \A u \in BOOLEAN : /\ [Here EXCEPT !.up = u] \in Boxes /\ [Here EXCEPT !.up = u].up = u
                                /\ [Here EXCEPT !.up = u].id = Here.id
  BY <1>2, <1>4 DEF Boxes
<1> QED  BY <1>1, <1>2, <1>3, <1>4, DockAssumption DEF Boxes


\* The handler looks for the container there is.
LEMMA DockCheck ==
    ASSUME DockInv, C!Check
    PROVE  DockInv'
<1> USE DockAssumption
<1>0. DockTyped /\ RecordTyped /\ C!ContainerKept /\ Somewhere /\ NoFault /\ Trail /\ Ending
  BY DEF DockInv
<1>1. worker.pc = "check" /\ worker \in Workers /\ worker.lab \in Labs /\ failed \in 0..1
  BY <1>0, BoxesTyped DEF C!Check, C!At, DockTyped
<1>2. RecordTyped' /\ made' \in Nat
  BY <1>0 DEF C!Check, C!files, C!docks, C!SameDocks, RecordTyped, DockTyped
<1>3. \/ /\ worker' \in Workers /\ worker'.pc = (IF Here # NoBox THEN "stop" ELSE "prepare")
         /\ worker'.lab = worker.lab /\ worker'.was = worker.was /\ worker'.causes = worker.causes
         /\ worker'.hadOld = (Here # NoBox) /\ ended' = ended
         /\ failed' = failed /\ Puts(Here, Beside) /\ blind' = blind
      \/ Fails("ps", "prepare") /\ Puts(Here, Beside) /\ blind' = blind \cup {worker.lab}
      \/ failed = 0 /\ failed' = 1 /\ Stops(worker.causes \cup {"pull"}) /\ Puts(Here, Beside) /\ blind' = blind
  <2>1. Puts(Here, Beside)
    BY <1>0, BoxesTyped, Putting DEF C!Check
  <2>2. "pull" \in Causes /\ "ps" \in Causes /\ "prepare" \in Points /\ "stop" \in Points
    BY DEF Causes, Points, Forward
  <2>3. CASE C!HadOld
    <3>1. CASE /\ worker' = [worker EXCEPT !.pc = IF Here # NoBox THEN "stop" ELSE "prepare",
                                           !.hadOld = (Here # NoBox)]
               /\ UNCHANGED <<failed, ended, blind>>
      <4>1. (IF Here # NoBox THEN "stop" ELSE "prepare") \in Points /\ (Here # NoBox) \in BOOLEAN
        BY <2>2
      <4> QED  BY <1>1, <2>1, <3>1, <4>1 DEF Workers
    <3>2. CASE C!Caught("ps", "prepare") /\ blind' = blind \cup {worker.lab}
      BY <1>0, <2>1, <2>2, <3>2, HandlerMoves
    <3> QED  BY <2>3, <3>1, <3>2 DEF C!HadOld, C!Current, C!Fine, Here
  <2>4. CASE C!Raised("pull") /\ blind' = blind
    BY <1>0, <2>1, <2>2, <2>4, HandlerMoves
  <2> QED  BY <2>3, <2>4 DEF C!Check
<1>4. CASE /\ worker' \in Workers /\ worker'.pc = (IF Here # NoBox THEN "stop" ELSE "prepare")
           /\ worker'.lab = worker.lab /\ worker'.was = worker.was /\ worker'.causes = worker.causes
           /\ worker'.hadOld = (Here # NoBox) /\ ended' = ended
           /\ failed' = failed /\ Puts(Here, Beside) /\ blind' = blind
  <2>1. DockTyped'
    BY <1>0, <1>1, <1>2, <1>4, BoxesTyped DEF DockTyped, Moves, Fails, Stops, Puts
  <2>2. C!ContainerKept' /\ Somewhere'
    BY <1>0, <1>1, <1>2, <1>4, BoxesTyped DEF C!ContainerKept, Somewhere, Moves, Fails, Stops, Puts, Here, Beside, Marking
  <2>3. NoFault'
    BY <1>0, <1>1, <1>2, <1>4, BoxesTyped DEF NoFault, Moves, Fails, Stops, Puts, Here, Beside, Marking, Backward
  <2>4. Trail'
    BY <1>0, <1>1, <1>2, <1>4, BoxesTyped DEF Trail, C!Handled, Moves, Fails, Stops, Puts, Here, Beside, Backward, Marking, NoFault
  <2>5. Ending'
    BY <1>0, <1>1, <1>2, <1>4, BoxesTyped DEF Ending, Trail, NoFault, C!RolledBack, C!Handled, C!At, Moves, Fails, Stops, Puts, Here, Beside, Backward, Marking
  <2> QED  BY <1>2, <2>1, <2>2, <2>3, <2>4, <2>5 DEF DockInv
<1>5. CASE Fails("ps", "prepare") /\ Puts(Here, Beside) /\ blind' = blind \cup {worker.lab}
  <2>1. DockTyped'
    BY <1>0, <1>1, <1>2, <1>5, BoxesTyped DEF DockTyped, Moves, Fails, Stops, Puts
  <2>2. C!ContainerKept' /\ Somewhere'
    BY <1>0, <1>1, <1>2, <1>5, BoxesTyped DEF C!ContainerKept, Somewhere, Moves, Fails, Stops, Puts, Here, Beside, Marking
  <2>3. NoFault'
    BY <1>0, <1>1, <1>2, <1>5, BoxesTyped DEF NoFault, Moves, Fails, Stops, Puts, Here, Beside, Marking, Backward
  <2>4. Trail'
    <3>1. "ps" \in worker'.causes /\ "ps" \notin C!Handled
      BY <1>5 DEF Fails, C!Handled
    <3> QED  BY <3>1 DEF Trail
  <2>5. Ending'
    BY <1>0, <1>1, <1>2, <1>5, BoxesTyped DEF Ending, Trail, NoFault, C!RolledBack, C!Handled, C!At, Moves, Fails, Stops, Puts, Here, Beside, Backward, Marking
  <2> QED  BY <1>2, <2>1, <2>2, <2>3, <2>4, <2>5 DEF DockInv
<1>6. CASE failed = 0 /\ failed' = 1 /\ Stops(worker.causes \cup {"pull"}) /\ Puts(Here, Beside) /\ blind' = blind
  <2>1. DockTyped'
    BY <1>0, <1>1, <1>2, <1>6, BoxesTyped DEF DockTyped, Moves, Fails, Stops, Puts
  <2>2. C!ContainerKept' /\ Somewhere'
    BY <1>0, <1>1, <1>2, <1>6, BoxesTyped DEF C!ContainerKept, Somewhere, Moves, Fails, Stops, Puts, Here, Beside, Marking
  <2>3. NoFault'
    BY <1>0, <1>1, <1>2, <1>6, BoxesTyped DEF NoFault, Moves, Fails, Stops, Puts, Here, Beside, Marking, Backward
  <2>4. Trail'
    BY <1>0, <1>1, <1>2, <1>6, BoxesTyped DEF Trail, C!Handled, Moves, Fails, Stops, Puts, Here, Beside, Backward, Marking, NoFault
  <2>5. Ending'
    BY <1>0, <1>1, <1>2, <1>6, BoxesTyped DEF Ending, Trail, NoFault, C!RolledBack, C!Handled, C!At, Moves, Fails, Stops, Puts, Here, Beside, Backward, Marking
  <2> QED  BY <1>2, <2>1, <2>2, <2>3, <2>4, <2>5 DEF DockInv
<1> QED  BY <1>3, <1>4, <1>5, <1>6

\* It stops it,
LEMMA DockStop ==
    ASSUME DockInv, C!Stop
    PROVE  DockInv'
<1> USE DockAssumption
<1>0. DockTyped /\ RecordTyped /\ C!ContainerKept /\ Somewhere /\ NoFault /\ Trail /\ Ending
  BY DEF DockInv
<1>1. worker.pc = "stop" /\ worker \in Workers /\ worker.lab \in Labs /\ failed \in 0..1
  BY <1>0, BoxesTyped DEF C!Stop, C!At, DockTyped
<1>2. RecordTyped' /\ made' \in Nat
  BY <1>0 DEF C!Stop, C!files, C!docks, C!SameDocks, RecordTyped, DockTyped
<1>3. \/ failed' = failed /\ Moves("clear") /\ (\E b \in Boxes : ~b.up /\ b.id = Here.id /\ Puts(b, Beside)) /\ blind' = blind
      \/ Fails("stop", "clear") /\ Puts(Here, Beside) /\ blind' = blind
  BY <1>0, <1>1, HandlerMoves, BoxesTyped, Putting
     DEF C!Stop, C!Fine, C!SetName, C!SetOld, C!Current, C!Aside, C!SameDocks, C!docks, Here, Beside,
         Points, Forward, Marking, Backward, Causes, Somewhere, Workers
<1>4. CASE failed' = failed /\ Moves("clear") /\ (\E b \in Boxes : ~b.up /\ b.id = Here.id /\ Puts(b, Beside)) /\ blind' = blind
  <2>1. DockTyped'
    BY <1>0, <1>1, <1>2, <1>4, BoxesTyped DEF DockTyped, Moves, Fails, Stops, Puts
  <2>2. C!ContainerKept' /\ Somewhere'
    BY <1>0, <1>1, <1>2, <1>4, BoxesTyped DEF C!ContainerKept, Somewhere, Moves, Fails, Stops, Puts, Here, Beside, Marking
  <2>3. NoFault'
    BY <1>0, <1>1, <1>2, <1>4, BoxesTyped DEF NoFault, Moves, Fails, Stops, Puts, Here, Beside, Marking, Backward
  <2>4. Trail'
    BY <1>0, <1>1, <1>2, <1>4, BoxesTyped DEF Trail, C!Handled, Moves, Fails, Stops, Puts, Here, Beside, Backward, Marking
  <2>5. Ending'
    BY <1>0, <1>1, <1>2, <1>4, BoxesTyped DEF Ending, Trail, NoFault, C!RolledBack, C!Handled, C!At, Moves, Fails, Stops, Puts, Here, Beside, Backward, Marking
  <2> QED  BY <1>2, <2>1, <2>2, <2>3, <2>4, <2>5 DEF DockInv
<1>5. CASE Fails("stop", "clear") /\ Puts(Here, Beside) /\ blind' = blind
  <2>1. DockTyped'
    BY <1>0, <1>1, <1>2, <1>5, BoxesTyped DEF DockTyped, Moves, Fails, Stops, Puts
  <2>2. C!ContainerKept' /\ Somewhere'
    BY <1>0, <1>1, <1>2, <1>5, BoxesTyped DEF C!ContainerKept, Somewhere, Moves, Fails, Stops, Puts, Here, Beside, Marking
  <2>3. NoFault'
    BY <1>0, <1>1, <1>2, <1>5, BoxesTyped DEF NoFault, Moves, Fails, Stops, Puts, Here, Beside, Marking, Backward
  <2>4. Trail'
    BY <1>0, <1>1, <1>2, <1>5, BoxesTyped DEF Trail, C!Handled, Moves, Fails, Stops, Puts, Here, Beside, Backward, Marking
  <2>5. Ending'
    BY <1>0, <1>1, <1>2, <1>5, BoxesTyped DEF Ending, Trail, NoFault, C!RolledBack, C!Handled, C!At, Moves, Fails, Stops, Puts, Here, Beside, Backward, Marking
  <2> QED  BY <1>2, <2>1, <2>2, <2>3, <2>4, <2>5 DEF DockInv
<1> QED  BY <1>3, <1>4, <1>5

\* clears away one set aside earlier,
LEMMA DockClearOld ==
    ASSUME DockInv, C!ClearOld
    PROVE  DockInv'
<1> USE DockAssumption
<1>0. DockTyped /\ RecordTyped /\ C!ContainerKept /\ Somewhere /\ NoFault /\ Trail /\ Ending
  BY DEF DockInv
<1>1. worker.pc = "clear" /\ worker \in Workers /\ worker.lab \in Labs /\ failed \in 0..1
  BY <1>0, BoxesTyped DEF C!ClearOld, C!At, DockTyped
<1>2. RecordTyped' /\ made' \in Nat
  BY <1>0 DEF C!ClearOld, C!files, C!docks, C!SameDocks, RecordTyped, DockTyped
<1>3. \/ failed' = failed /\ Moves("rename") /\ Puts(Here, NoBox) /\ blind' = blind
      \/ failed = 0 /\ failed' = 1 /\ Stops(worker.causes \cup {"clear"}) /\ Puts(Here, Beside) /\ blind' = blind
  BY <1>0, <1>1, HandlerMoves, BoxesTyped, Putting
     DEF C!ClearOld, C!Fine, C!SetName, C!SetOld, C!Current, C!Aside, C!SameDocks, C!docks, Here, Beside,
         Points, Forward, Marking, Backward, Causes, Somewhere, Workers
<1>4. CASE failed' = failed /\ Moves("rename") /\ Puts(Here, NoBox) /\ blind' = blind
  <2>1. DockTyped'
    BY <1>0, <1>1, <1>2, <1>4, BoxesTyped DEF DockTyped, Moves, Fails, Stops, Puts
  <2>2. C!ContainerKept' /\ Somewhere'
    BY <1>0, <1>1, <1>2, <1>4, BoxesTyped DEF C!ContainerKept, Somewhere, Moves, Fails, Stops, Puts, Here, Beside, Marking
  <2>3. NoFault'
    BY <1>0, <1>1, <1>2, <1>4, BoxesTyped DEF NoFault, Moves, Fails, Stops, Puts, Here, Beside, Marking, Backward
  <2>4. Trail'
    <3>1. worker'.pc = "rename" /\ worker'.lab = worker.lab /\ worker'.was = worker.was /\ worker'.causes = worker.causes
          /\ worker'.hadOld = worker.hadOld
      BY <1>4 DEF Moves
    <3>2. Here' = Here
      BY <1>1, <1>4, <3>1 DEF Puts, Here
    <3> QED  BY <1>0, <1>1, <1>4, <3>1, <3>2 DEF Trail, Backward, Marking
  <2>5. Ending'
    BY <1>0, <1>1, <1>2, <1>4, BoxesTyped DEF Ending, Trail, NoFault, C!RolledBack, C!Handled, C!At, Moves, Fails, Stops, Puts, Here, Beside, Backward, Marking
  <2> QED  BY <1>2, <2>1, <2>2, <2>3, <2>4, <2>5 DEF DockInv
<1>5. CASE failed = 0 /\ failed' = 1 /\ Stops(worker.causes \cup {"clear"}) /\ Puts(Here, Beside) /\ blind' = blind
  <2>1. DockTyped'
    BY <1>0, <1>1, <1>2, <1>5, BoxesTyped DEF DockTyped, Moves, Fails, Stops, Puts
  <2>2. C!ContainerKept' /\ Somewhere'
    BY <1>0, <1>1, <1>2, <1>5, BoxesTyped DEF C!ContainerKept, Somewhere, Moves, Fails, Stops, Puts, Here, Beside, Marking
  <2>3. NoFault'
    BY <1>0, <1>1, <1>2, <1>5, BoxesTyped DEF NoFault, Moves, Fails, Stops, Puts, Here, Beside, Marking, Backward
  <2>4. Trail'
    BY <1>0, <1>1, <1>2, <1>5, BoxesTyped DEF Trail, C!Handled, Moves, Fails, Stops, Puts, Here, Beside, Backward, Marking
  <2>5. Ending'
    BY <1>0, <1>1, <1>2, <1>5, BoxesTyped DEF Ending, Trail, NoFault, C!RolledBack, C!Handled, C!At, Moves, Fails, Stops, Puts, Here, Beside, Backward, Marking
  <2> QED  BY <1>2, <2>1, <2>2, <2>3, <2>4, <2>5 DEF DockInv
<1> QED  BY <1>3, <1>4, <1>5

\* and sets it aside.
LEMMA DockRenameAside ==
    ASSUME DockInv, C!RenameAside
    PROVE  DockInv'
<1> USE DockAssumption
<1>0. DockTyped /\ RecordTyped /\ C!ContainerKept /\ Somewhere /\ NoFault /\ Trail /\ Ending
  BY DEF DockInv
<1>1. worker.pc = "rename" /\ worker \in Workers /\ worker.lab \in Labs /\ failed \in 0..1
  BY <1>0, BoxesTyped DEF C!RenameAside, C!At, DockTyped
<1>2. RecordTyped' /\ made' \in Nat
  BY <1>0 DEF C!RenameAside, C!files, C!docks, C!SameDocks, RecordTyped, DockTyped
<1>3. \/ failed' = failed /\ Moves("prepare") /\ Puts(NoBox, Here) /\ blind' = blind
      \/ failed = 0 /\ failed' = 1 /\ Stops(worker.causes \cup {"rename"}) /\ Puts(Here, Beside) /\ blind' = blind
  BY <1>0, <1>1, HandlerMoves, BoxesTyped, Putting
     DEF C!RenameAside, C!Fine, C!SetName, C!SetOld, C!Current, C!Aside, C!SameDocks, C!docks, Here, Beside,
         Points, Forward, Marking, Backward, Causes, Somewhere, Workers
<1>4. CASE failed' = failed /\ Moves("prepare") /\ Puts(NoBox, Here) /\ blind' = blind
  <2>1. DockTyped'
    BY <1>0, <1>1, <1>2, <1>4, BoxesTyped DEF DockTyped, Moves, Fails, Stops, Puts
  <2>2. C!ContainerKept' /\ Somewhere'
    BY <1>0, <1>1, <1>2, <1>4, BoxesTyped DEF C!ContainerKept, Somewhere, Moves, Fails, Stops, Puts, Here, Beside, Marking
  <2>3. NoFault'
    BY <1>0, <1>1, <1>2, <1>4, BoxesTyped DEF NoFault, Moves, Fails, Stops, Puts, Here, Beside, Marking, Backward
  <2>4. Trail'
    BY <1>0, <1>1, <1>2, <1>4, BoxesTyped DEF Trail, C!Handled, Moves, Fails, Stops, Puts, Here, Beside, Backward, Marking
  <2>5. Ending'
    BY <1>0, <1>1, <1>2, <1>4, BoxesTyped DEF Ending, Trail, NoFault, C!RolledBack, C!Handled, C!At, Moves, Fails, Stops, Puts, Here, Beside, Backward, Marking
  <2> QED  BY <1>2, <2>1, <2>2, <2>3, <2>4, <2>5 DEF DockInv
<1>5. CASE failed = 0 /\ failed' = 1 /\ Stops(worker.causes \cup {"rename"}) /\ Puts(Here, Beside) /\ blind' = blind
  <2>1. DockTyped'
    BY <1>0, <1>1, <1>2, <1>5, BoxesTyped DEF DockTyped, Moves, Fails, Stops, Puts
  <2>2. C!ContainerKept' /\ Somewhere'
    BY <1>0, <1>1, <1>2, <1>5, BoxesTyped DEF C!ContainerKept, Somewhere, Moves, Fails, Stops, Puts, Here, Beside, Marking
  <2>3. NoFault'
    BY <1>0, <1>1, <1>2, <1>5, BoxesTyped DEF NoFault, Moves, Fails, Stops, Puts, Here, Beside, Marking, Backward
  <2>4. Trail'
    BY <1>0, <1>1, <1>2, <1>5, BoxesTyped DEF Trail, C!Handled, Moves, Fails, Stops, Puts, Here, Beside, Backward, Marking
  <2>5. Ending'
    BY <1>0, <1>1, <1>2, <1>5, BoxesTyped DEF Ending, Trail, NoFault, C!RolledBack, C!Handled, C!At, Moves, Fails, Stops, Puts, Here, Beside, Backward, Marking
  <2> QED  BY <1>2, <2>1, <2>2, <2>3, <2>4, <2>5 DEF DockInv
<1> QED  BY <1>3, <1>4, <1>5

\* The students' storage is prepared,
LEMMA DockPrepare ==
    ASSUME DockInv, C!Prepare
    PROVE  DockInv'
<1> USE DockAssumption
<1>0. DockTyped /\ RecordTyped /\ C!ContainerKept /\ Somewhere /\ NoFault /\ Trail /\ Ending
  BY DEF DockInv
<1>1. worker.pc = "prepare" /\ worker \in Workers /\ worker.lab \in Labs /\ failed \in 0..1
  BY <1>0, BoxesTyped DEF C!Prepare, C!At, DockTyped
<1>2. RecordTyped' /\ made' \in Nat
  BY <1>0 DEF C!Prepare, C!files, C!docks, C!SameDocks, RecordTyped, DockTyped
<1>3. \/ failed' = failed /\ Moves("create") /\ Puts(Here, Beside) /\ blind' = blind
      \/ Fails("prepare", "restore") /\ Puts(Here, Beside) /\ blind' = blind
  BY <1>0, <1>1, HandlerMoves, BoxesTyped, Putting
     DEF C!Prepare, C!Fine, C!SetName, C!SetOld, C!Current, C!Aside, C!SameDocks, C!docks, Here, Beside,
         Points, Forward, Marking, Backward, Causes, Somewhere, Workers
<1>4. CASE failed' = failed /\ Moves("create") /\ Puts(Here, Beside) /\ blind' = blind
  <2>1. DockTyped'
    BY <1>0, <1>1, <1>2, <1>4, BoxesTyped DEF DockTyped, Moves, Fails, Stops, Puts
  <2>2. C!ContainerKept' /\ Somewhere'
    BY <1>0, <1>1, <1>2, <1>4, BoxesTyped DEF C!ContainerKept, Somewhere, Moves, Fails, Stops, Puts, Here, Beside, Marking
  <2>3. NoFault'
    BY <1>0, <1>1, <1>2, <1>4, BoxesTyped DEF NoFault, Moves, Fails, Stops, Puts, Here, Beside, Marking, Backward
  <2>4. Trail'
    BY <1>0, <1>1, <1>2, <1>4, BoxesTyped DEF Trail, C!Handled, Moves, Fails, Stops, Puts, Here, Beside, Backward, Marking
  <2>5. Ending'
    BY <1>0, <1>1, <1>2, <1>4, BoxesTyped DEF Ending, Trail, NoFault, C!RolledBack, C!Handled, C!At, Moves, Fails, Stops, Puts, Here, Beside, Backward, Marking
  <2> QED  BY <1>2, <2>1, <2>2, <2>3, <2>4, <2>5 DEF DockInv
<1>5. CASE Fails("prepare", "restore") /\ Puts(Here, Beside) /\ blind' = blind
  <2>1. DockTyped'
    BY <1>0, <1>1, <1>2, <1>5, BoxesTyped DEF DockTyped, Moves, Fails, Stops, Puts
  <2>2. C!ContainerKept' /\ Somewhere'
    BY <1>0, <1>1, <1>2, <1>5, BoxesTyped DEF C!ContainerKept, Somewhere, Moves, Fails, Stops, Puts, Here, Beside, Marking
  <2>3. NoFault'
    BY <1>0, <1>1, <1>2, <1>5, BoxesTyped DEF NoFault, Moves, Fails, Stops, Puts, Here, Beside, Marking, Backward
  <2>4. Trail'
    BY <1>0, <1>1, <1>2, <1>5, BoxesTyped DEF Trail, C!Handled, Moves, Fails, Stops, Puts, Here, Beside, Backward, Marking
  <2>5. Ending'
    BY <1>0, <1>1, <1>2, <1>5, BoxesTyped DEF Ending, Trail, NoFault, C!RolledBack, C!Handled, C!At, Moves, Fails, Stops, Puts, Here, Beside, Backward, Marking
  <2> QED  BY <1>2, <2>1, <2>2, <2>3, <2>4, <2>5 DEF DockInv
<1> QED  BY <1>3, <1>4, <1>5

\* a container made,
LEMMA DockCreate ==
    ASSUME DockInv, C!Create
    PROVE  DockInv'
<1> USE DockAssumption
<1>0. DockTyped /\ RecordTyped /\ C!ContainerKept /\ Somewhere /\ NoFault /\ Trail /\ Ending
  BY DEF DockInv
<1>1. worker.pc = "create" /\ worker \in Workers /\ worker.lab \in Labs /\ failed \in 0..1
  BY <1>0, BoxesTyped DEF C!Create, C!At, DockTyped
<1>2. RecordTyped' /\ made' \in Nat
  BY <1>0 DEF C!Create, C!files, C!docks, C!SameDocks, RecordTyped, DockTyped
<1>3. \/ failed' = failed /\ Here = NoBox /\ Moves("ready") /\ (\E b \in Boxes : b.up /\ Puts(b, Beside)) /\ blind' = blind
      \/ failed' = failed /\ Here # NoBox /\ Moves("remove") /\ Puts(Here, Beside) /\ blind' = blind
      \/ /\ failed' = failed /\ Here = NoBox /\ Beside # NoBox /\ Beside.up /\ Moves("remove")
         /\ (\E b \in Boxes \cup {NoBox} : Puts(b, Beside)) /\ blind' = blind
      \/ Here = NoBox /\ Fails("create", "remove") /\ (\E b \in Boxes \cup {NoBox} : Puts(b, Beside)) /\ blind' = blind
  BY <1>0, <1>1, HandlerMoves, BoxesTyped, Putting
     DEF C!Create, C!PortTaken, C!Fine, C!SetName, C!SetOld, C!Current, C!Aside, C!SameDocks, C!docks, Here, Beside,
         Points, Forward, Marking, Backward, Causes, Somewhere, Workers
<1>4. CASE failed' = failed /\ Here = NoBox /\ Moves("ready") /\ (\E b \in Boxes : b.up /\ Puts(b, Beside)) /\ blind' = blind
  <2>1. DockTyped'
    BY <1>0, <1>1, <1>2, <1>4, BoxesTyped DEF DockTyped, Moves, Fails, Stops, Puts
  <2>2. C!ContainerKept' /\ Somewhere'
    BY <1>0, <1>1, <1>2, <1>4, BoxesTyped DEF C!ContainerKept, Somewhere, Moves, Fails, Stops, Puts, Here, Beside, Marking
  <2>3. NoFault'
    BY <1>0, <1>1, <1>2, <1>4, BoxesTyped DEF NoFault, Moves, Fails, Stops, Puts, Here, Beside, Marking, Backward
  <2>4. Trail'
    BY <1>0, <1>1, <1>2, <1>4, BoxesTyped DEF Trail, C!Handled, Moves, Fails, Stops, Puts, Here, Beside, Backward, Marking
  <2>5. Ending'
    BY <1>0, <1>1, <1>2, <1>4, BoxesTyped DEF Ending, Trail, NoFault, C!RolledBack, C!Handled, C!At, Moves, Fails, Stops, Puts, Here, Beside, Backward, Marking
  <2> QED  BY <1>2, <2>1, <2>2, <2>3, <2>4, <2>5 DEF DockInv
<1>5. CASE failed' = failed /\ Here # NoBox /\ Moves("remove") /\ Puts(Here, Beside) /\ blind' = blind
  <2>1. DockTyped'
    BY <1>0, <1>1, <1>2, <1>5, BoxesTyped DEF DockTyped, Moves, Fails, Stops, Puts
  <2>2. C!ContainerKept' /\ Somewhere'
    BY <1>0, <1>1, <1>2, <1>5, BoxesTyped DEF C!ContainerKept, Somewhere, Moves, Fails, Stops, Puts, Here, Beside, Marking
  <2>3. NoFault'
    BY <1>0, <1>1, <1>2, <1>5, BoxesTyped DEF NoFault, Moves, Fails, Stops, Puts, Here, Beside, Marking, Backward
  <2>4. Trail'
    BY <1>0, <1>1, <1>2, <1>5, BoxesTyped DEF Trail, C!Handled, Moves, Fails, Stops, Puts, Here, Beside, Backward, Marking
  <2>5. Ending'
    BY <1>0, <1>1, <1>2, <1>5, BoxesTyped DEF Ending, Trail, NoFault, C!RolledBack, C!Handled, C!At, Moves, Fails, Stops, Puts, Here, Beside, Backward, Marking
  <2> QED  BY <1>2, <2>1, <2>2, <2>3, <2>4, <2>5 DEF DockInv
<1>6. CASE /\ failed' = failed /\ Here = NoBox /\ Beside # NoBox /\ Beside.up /\ Moves("remove")
           /\ (\E b \in Boxes \cup {NoBox} : Puts(b, Beside)) /\ blind' = blind
  <2>1. DockTyped'
    BY <1>0, <1>1, <1>2, <1>6, BoxesTyped DEF DockTyped, Moves, Fails, Stops, Puts
  <2>2. C!ContainerKept' /\ Somewhere'
    BY <1>0, <1>1, <1>2, <1>6, BoxesTyped DEF C!ContainerKept, Somewhere, Moves, Fails, Stops, Puts, Here, Beside, Marking
  <2>3. NoFault'
    BY <1>0, <1>1, <1>2, <1>6, BoxesTyped DEF NoFault, Moves, Fails, Stops, Puts, Here, Beside, Marking, Backward
  <2>4. Trail'
    BY <1>0, <1>1, <1>2, <1>6, BoxesTyped DEF Trail, C!Handled, Moves, Fails, Stops, Puts, Here, Beside, Backward, Marking
  <2>5. Ending'
    BY <1>0, <1>1, <1>2, <1>6, BoxesTyped DEF Ending, Trail, NoFault, C!RolledBack, C!Handled, C!At, Moves, Fails, Stops, Puts, Here, Beside, Backward, Marking
  <2> QED  BY <1>2, <2>1, <2>2, <2>3, <2>4, <2>5 DEF DockInv
<1>7. CASE Here = NoBox /\ Fails("create", "remove") /\ (\E b \in Boxes \cup {NoBox} : Puts(b, Beside)) /\ blind' = blind
  <2>1. DockTyped'
    BY <1>0, <1>1, <1>2, <1>7, BoxesTyped DEF DockTyped, Moves, Fails, Stops, Puts
  <2>2. C!ContainerKept' /\ Somewhere'
    BY <1>0, <1>1, <1>2, <1>7, BoxesTyped DEF C!ContainerKept, Somewhere, Moves, Fails, Stops, Puts, Here, Beside, Marking
  <2>3. NoFault'
    BY <1>0, <1>1, <1>2, <1>7, BoxesTyped DEF NoFault, Moves, Fails, Stops, Puts, Here, Beside, Marking, Backward
  <2>4. Trail'
    BY <1>0, <1>1, <1>2, <1>7, BoxesTyped DEF Trail, C!Handled, Moves, Fails, Stops, Puts, Here, Beside, Backward, Marking
  <2>5. Ending'
    BY <1>0, <1>1, <1>2, <1>7, BoxesTyped DEF Ending, Trail, NoFault, C!RolledBack, C!Handled, C!At, Moves, Fails, Stops, Puts, Here, Beside, Backward, Marking
  <2> QED  BY <1>2, <2>1, <2>2, <2>3, <2>4, <2>5 DEF DockInv
<1> QED  BY <1>3, <1>4, <1>5, <1>6, <1>7

\* and waited for.
LEMMA DockWaitSshReady ==
    ASSUME DockInv, C!WaitSshReady
    PROVE  DockInv'
<1> USE DockAssumption
<1>0. DockTyped /\ RecordTyped /\ C!ContainerKept /\ Somewhere /\ NoFault /\ Trail /\ Ending
  BY DEF DockInv
<1>1. worker.pc = "ready" /\ worker \in Workers /\ worker.lab \in Labs /\ failed \in 0..1
  BY <1>0, BoxesTyped DEF C!WaitSshReady, C!At, DockTyped
<1>2. RecordTyped' /\ made' \in Nat
  BY <1>0 DEF C!WaitSshReady, C!files, C!docks, C!SameDocks, RecordTyped, DockTyped
<1>3. \/ failed' = failed /\ Moves("promote") /\ Puts(Here, Beside) /\ blind' = blind
      \/ Fails("ready", "remove") /\ Puts(Here, Beside) /\ blind' = blind
  BY <1>0, <1>1, HandlerMoves, BoxesTyped, Putting
     DEF C!WaitSshReady, C!Fine, C!SetName, C!SetOld, C!Current, C!Aside, C!SameDocks, C!docks, Here, Beside,
         Points, Forward, Marking, Backward, Causes, Somewhere, Workers
<1>4. CASE failed' = failed /\ Moves("promote") /\ Puts(Here, Beside) /\ blind' = blind
  <2>1. DockTyped'
    BY <1>0, <1>1, <1>2, <1>4, BoxesTyped DEF DockTyped, Moves, Fails, Stops, Puts
  <2>2. C!ContainerKept' /\ Somewhere'
    BY <1>0, <1>1, <1>2, <1>4, BoxesTyped DEF C!ContainerKept, Somewhere, Moves, Fails, Stops, Puts, Here, Beside, Marking
  <2>3. NoFault'
    BY <1>0, <1>1, <1>2, <1>4, BoxesTyped DEF NoFault, Moves, Fails, Stops, Puts, Here, Beside, Marking, Backward
  <2>4. Trail'
    BY <1>0, <1>1, <1>2, <1>4, BoxesTyped DEF Trail, C!Handled, Moves, Fails, Stops, Puts, Here, Beside, Backward, Marking
  <2>5. Ending'
    BY <1>0, <1>1, <1>2, <1>4, BoxesTyped DEF Ending, Trail, NoFault, C!RolledBack, C!Handled, C!At, Moves, Fails, Stops, Puts, Here, Beside, Backward, Marking
  <2> QED  BY <1>2, <2>1, <2>2, <2>3, <2>4, <2>5 DEF DockInv
<1>5. CASE Fails("ready", "remove") /\ Puts(Here, Beside) /\ blind' = blind
  <2>1. DockTyped'
    BY <1>0, <1>1, <1>2, <1>5, BoxesTyped DEF DockTyped, Moves, Fails, Stops, Puts
  <2>2. C!ContainerKept' /\ Somewhere'
    BY <1>0, <1>1, <1>2, <1>5, BoxesTyped DEF C!ContainerKept, Somewhere, Moves, Fails, Stops, Puts, Here, Beside, Marking
  <2>3. NoFault'
    BY <1>0, <1>1, <1>2, <1>5, BoxesTyped DEF NoFault, Moves, Fails, Stops, Puts, Here, Beside, Marking, Backward
  <2>4. Trail'
    BY <1>0, <1>1, <1>2, <1>5, BoxesTyped DEF Trail, C!Handled, Moves, Fails, Stops, Puts, Here, Beside, Backward, Marking
  <2>5. Ending'
    BY <1>0, <1>1, <1>2, <1>5, BoxesTyped DEF Ending, Trail, NoFault, C!RolledBack, C!Handled, C!At, Moves, Fails, Stops, Puts, Here, Beside, Backward, Marking
  <2> QED  BY <1>2, <2>1, <2>2, <2>3, <2>4, <2>5 DEF DockInv
<1> QED  BY <1>3, <1>4, <1>5

\* Rolling back, the new container is removed,
LEMMA DockRemoveCandidate ==
    ASSUME DockInv, C!RemoveCandidate
    PROVE  DockInv'
<1> USE DockAssumption
<1>0. DockTyped /\ RecordTyped /\ C!ContainerKept /\ Somewhere /\ NoFault /\ Trail /\ Ending
  BY DEF DockInv
<1>1. worker.pc = "remove" /\ worker \in Workers /\ worker.lab \in Labs /\ failed \in 0..1
  BY <1>0, BoxesTyped DEF C!RemoveCandidate, C!At, DockTyped
<1>2. RecordTyped' /\ made' \in Nat
  BY <1>0 DEF C!RemoveCandidate, C!files, C!docks, C!SameDocks, RecordTyped, DockTyped
<1>3. \/ failed' = failed /\ Moves("restore") /\ Puts(NoBox, Beside) /\ blind' = blind
      \/ Fails("remove", "restore") /\ Puts(Here, Beside) /\ blind' = blind
  BY <1>0, <1>1, HandlerMoves, BoxesTyped, Putting
     DEF C!RemoveCandidate, C!Fine, C!SetName, C!SetOld, C!Current, C!Aside, C!SameDocks, C!docks, Here, Beside,
         Points, Forward, Marking, Backward, Causes, Somewhere, Workers
<1>4. CASE failed' = failed /\ Moves("restore") /\ Puts(NoBox, Beside) /\ blind' = blind
  <2>1. DockTyped'
    BY <1>0, <1>1, <1>2, <1>4, BoxesTyped DEF DockTyped, Moves, Fails, Stops, Puts
  <2>2. C!ContainerKept' /\ Somewhere'
    BY <1>0, <1>1, <1>2, <1>4, BoxesTyped DEF C!ContainerKept, Somewhere, Moves, Fails, Stops, Puts, Here, Beside, Marking
  <2>3. NoFault'
    BY <1>0, <1>1, <1>2, <1>4, BoxesTyped DEF NoFault, Moves, Fails, Stops, Puts, Here, Beside, Marking, Backward
  <2>4. Trail'
    BY <1>0, <1>1, <1>2, <1>4, BoxesTyped DEF Trail, C!Handled, Moves, Fails, Stops, Puts, Here, Beside, Backward, Marking
  <2>5. Ending'
    BY <1>0, <1>1, <1>2, <1>4, BoxesTyped DEF Ending, Trail, NoFault, C!RolledBack, C!Handled, C!At, Moves, Fails, Stops, Puts, Here, Beside, Backward, Marking
  <2> QED  BY <1>2, <2>1, <2>2, <2>3, <2>4, <2>5 DEF DockInv
<1>5. CASE Fails("remove", "restore") /\ Puts(Here, Beside) /\ blind' = blind
  <2>1. DockTyped'
    BY <1>0, <1>1, <1>2, <1>5, BoxesTyped DEF DockTyped, Moves, Fails, Stops, Puts
  <2>2. C!ContainerKept' /\ Somewhere'
    BY <1>0, <1>1, <1>2, <1>5, BoxesTyped DEF C!ContainerKept, Somewhere, Moves, Fails, Stops, Puts, Here, Beside, Marking
  <2>3. NoFault'
    BY <1>0, <1>1, <1>2, <1>5, BoxesTyped DEF NoFault, Moves, Fails, Stops, Puts, Here, Beside, Marking, Backward
  <2>4. Trail'
    BY <1>0, <1>1, <1>2, <1>5, BoxesTyped DEF Trail, C!Handled, Moves, Fails, Stops, Puts, Here, Beside, Backward, Marking
  <2>5. Ending'
    BY <1>0, <1>1, <1>2, <1>5, BoxesTyped DEF Ending, Trail, NoFault, C!RolledBack, C!Handled, C!At, Moves, Fails, Stops, Puts, Here, Beside, Backward, Marking
  <2> QED  BY <1>2, <2>1, <2>2, <2>3, <2>4, <2>5 DEF DockInv
<1> QED  BY <1>3, <1>4, <1>5

\* the old one gets its name back
LEMMA DockRestore ==
    ASSUME DockInv, C!Restore
    PROVE  DockInv'
<1> USE DockAssumption
<1>0. DockTyped /\ RecordTyped /\ C!ContainerKept /\ Somewhere /\ NoFault /\ Trail /\ Ending
  BY DEF DockInv
<1>1. worker.pc = "restore" /\ worker \in Workers /\ worker.lab \in Labs /\ failed \in 0..1
  BY <1>0, BoxesTyped DEF C!Restore, C!At, DockTyped
<1>2. RecordTyped' /\ made' \in Nat
  BY <1>0 DEF C!Restore, C!files, C!docks, C!SameDocks, RecordTyped, DockTyped
<1>3. \/ /\ failed' = failed /\ Here = NoBox /\ Beside # NoBox /\ Moves("start")
         /\ Puts(Beside, NoBox) /\ blind' = blind
      \/ failed' = failed /\ Here # NoBox /\ Stops(worker.causes) /\ Puts(Here, Beside) /\ blind' = blind
      \/ failed = 0 /\ failed' = 1 /\ Stops(worker.causes \cup {"restore"}) /\ Puts(Here, Beside) /\ blind' = blind
      \/ /\ ~(worker.hadOld /\ Beside # NoBox)
         /\ failed' = failed /\ Stops(worker.causes) /\ Puts(Here, Beside) /\ blind' = blind
  BY <1>0, <1>1, HandlerMoves, BoxesTyped, Putting
     DEF C!Restore, C!RenameBack, C!Fine, C!SetName, C!SetOld, C!Current, C!Aside, C!SameDocks, C!docks, Here, Beside,
         Points, Forward, Marking, Backward, Causes, Somewhere, Workers
<1>4. CASE /\ failed' = failed /\ Here = NoBox /\ Beside # NoBox /\ Moves("start")
           /\ Puts(Beside, NoBox) /\ blind' = blind
  <2>1. DockTyped'
    BY <1>0, <1>1, <1>2, <1>4, BoxesTyped DEF DockTyped, Moves, Fails, Stops, Puts
  <2>2. C!ContainerKept' /\ Somewhere'
    BY <1>0, <1>1, <1>2, <1>4, BoxesTyped DEF C!ContainerKept, Somewhere, Moves, Fails, Stops, Puts, Here, Beside, Marking
  <2>3. NoFault'
    BY <1>0, <1>1, <1>2, <1>4, BoxesTyped DEF NoFault, Moves, Fails, Stops, Puts, Here, Beside, Marking, Backward
  <2>4. Trail'
    BY <1>0, <1>1, <1>2, <1>4, BoxesTyped DEF Trail, C!Handled, Moves, Fails, Stops, Puts, Here, Beside, Backward, Marking
  <2>5. Ending'
    BY <1>0, <1>1, <1>2, <1>4, BoxesTyped DEF Ending, Trail, NoFault, C!RolledBack, C!Handled, C!At, Moves, Fails, Stops, Puts, Here, Beside, Backward, Marking
  <2> QED  BY <1>2, <2>1, <2>2, <2>3, <2>4, <2>5 DEF DockInv
<1>5. CASE failed' = failed /\ Here # NoBox /\ Stops(worker.causes) /\ Puts(Here, Beside) /\ blind' = blind
  <2>1. DockTyped'
    BY <1>0, <1>1, <1>2, <1>5, BoxesTyped DEF DockTyped, Moves, Fails, Stops, Puts
  <2>2. C!ContainerKept' /\ Somewhere'
    BY <1>0, <1>1, <1>2, <1>5, BoxesTyped DEF C!ContainerKept, Somewhere, Moves, Fails, Stops, Puts, Here, Beside, Marking
  <2>3. NoFault'
    BY <1>0, <1>1, <1>2, <1>5, BoxesTyped DEF NoFault, Moves, Fails, Stops, Puts, Here, Beside, Marking, Backward
  <2>4. Trail'
    BY <1>0, <1>1, <1>2, <1>5, BoxesTyped DEF Trail, C!Handled, Moves, Fails, Stops, Puts, Here, Beside, Backward, Marking
  <2>5. Ending'
    BY <1>0, <1>1, <1>2, <1>5, BoxesTyped DEF Ending, Trail, NoFault, C!RolledBack, C!Handled, C!At, Moves, Fails, Stops, Puts, Here, Beside, Backward, Marking
  <2> QED  BY <1>2, <2>1, <2>2, <2>3, <2>4, <2>5 DEF DockInv
<1>6. CASE failed = 0 /\ failed' = 1 /\ Stops(worker.causes \cup {"restore"}) /\ Puts(Here, Beside) /\ blind' = blind
  <2>1. DockTyped'
    BY <1>0, <1>1, <1>2, <1>6, BoxesTyped DEF DockTyped, Moves, Fails, Stops, Puts
  <2>2. C!ContainerKept' /\ Somewhere'
    BY <1>0, <1>1, <1>2, <1>6, BoxesTyped DEF C!ContainerKept, Somewhere, Moves, Fails, Stops, Puts, Here, Beside, Marking
  <2>3. NoFault'
    BY <1>0, <1>1, <1>2, <1>6, BoxesTyped DEF NoFault, Moves, Fails, Stops, Puts, Here, Beside, Marking, Backward
  <2>4. Trail'
    BY <1>0, <1>1, <1>2, <1>6, BoxesTyped DEF Trail, C!Handled, Moves, Fails, Stops, Puts, Here, Beside, Backward, Marking
  <2>5. Ending'
    BY <1>0, <1>1, <1>2, <1>6, BoxesTyped DEF Ending, Trail, NoFault, C!RolledBack, C!Handled, C!At, Moves, Fails, Stops, Puts, Here, Beside, Backward, Marking
  <2> QED  BY <1>2, <2>1, <2>2, <2>3, <2>4, <2>5 DEF DockInv
<1>7. CASE /\ ~(worker.hadOld /\ Beside # NoBox)
           /\ failed' = failed /\ Stops(worker.causes) /\ Puts(Here, Beside) /\ blind' = blind
  <2>1. DockTyped'
    BY <1>0, <1>1, <1>2, <1>7, BoxesTyped DEF DockTyped, Moves, Fails, Stops, Puts
  <2>2. C!ContainerKept' /\ Somewhere'
    BY <1>0, <1>1, <1>2, <1>7, BoxesTyped DEF C!ContainerKept, Somewhere, Moves, Fails, Stops, Puts, Here, Beside, Marking
  <2>3. NoFault'
    BY <1>0, <1>1, <1>2, <1>7, BoxesTyped DEF NoFault, Moves, Fails, Stops, Puts, Here, Beside, Marking, Backward
  <2>4. Trail'
    BY <1>0, <1>1, <1>2, <1>7, BoxesTyped DEF Trail, C!Handled, Moves, Fails, Stops, Puts, Here, Beside, Backward, Marking
  <2>5. Ending'
    BY <1>0, <1>1, <1>2, <1>7, BoxesTyped DEF Ending, Trail, NoFault, C!RolledBack, C!Handled, C!At, Moves, Fails, Stops, Puts, Here, Beside, Backward, Marking
  <2> QED  BY <1>2, <2>1, <2>2, <2>3, <2>4, <2>5 DEF DockInv
<1> QED  BY <1>3, <1>4, <1>5, <1>6, <1>7

\* and is started.
LEMMA DockStartAgain ==
    ASSUME DockInv, C!StartAgain
    PROVE  DockInv'
<1> USE DockAssumption
<1>0. DockTyped /\ RecordTyped /\ C!ContainerKept /\ Somewhere /\ NoFault /\ Trail /\ Ending
  BY DEF DockInv
<1>1. worker.pc = "start" /\ worker \in Workers /\ worker.lab \in Labs /\ failed \in 0..1
  BY <1>0, BoxesTyped DEF C!StartAgain, C!At, DockTyped
<1>2. RecordTyped' /\ made' \in Nat
  BY <1>0 DEF C!StartAgain, C!files, C!docks, C!SameDocks, RecordTyped, DockTyped
<1>3. \/ failed' = failed /\ Stops(worker.causes) /\ (\E b \in Boxes : b.up /\ b.id = Here.id /\ Puts(b, Beside)) /\ blind' = blind
      \/ failed = 0 /\ failed' = 1 /\ Stops(worker.causes \cup {"start"}) /\ Puts(Here, Beside) /\ blind' = blind
  BY <1>0, <1>1, HandlerMoves, BoxesTyped, Putting
     DEF C!StartAgain, C!Fine, C!SetName, C!SetOld, C!Current, C!Aside, C!SameDocks, C!docks, Here, Beside,
         Points, Forward, Marking, Backward, Causes, Somewhere, Workers
<1>4. CASE failed' = failed /\ Stops(worker.causes) /\ (\E b \in Boxes : b.up /\ b.id = Here.id /\ Puts(b, Beside)) /\ blind' = blind
  <2>1. DockTyped'
    BY <1>0, <1>1, <1>2, <1>4, BoxesTyped DEF DockTyped, Moves, Fails, Stops, Puts
  <2>2. C!ContainerKept' /\ Somewhere'
    BY <1>0, <1>1, <1>2, <1>4, BoxesTyped DEF C!ContainerKept, Somewhere, Moves, Fails, Stops, Puts, Here, Beside, Marking
  <2>3. NoFault'
    BY <1>0, <1>1, <1>2, <1>4, BoxesTyped DEF NoFault, Moves, Fails, Stops, Puts, Here, Beside, Marking, Backward
  <2>4. Trail'
    BY <1>0, <1>1, <1>2, <1>4, BoxesTyped DEF Trail, C!Handled, Moves, Fails, Stops, Puts, Here, Beside, Backward, Marking
  <2>5. Ending'
    BY <1>0, <1>1, <1>2, <1>4, BoxesTyped DEF Ending, Trail, NoFault, C!RolledBack, C!Handled, C!At, Moves, Fails, Stops, Puts, Here, Beside, Backward, Marking
  <2> QED  BY <1>2, <2>1, <2>2, <2>3, <2>4, <2>5 DEF DockInv
<1>5. CASE failed = 0 /\ failed' = 1 /\ Stops(worker.causes \cup {"start"}) /\ Puts(Here, Beside) /\ blind' = blind
  <2>1. DockTyped'
    BY <1>0, <1>1, <1>2, <1>5, BoxesTyped DEF DockTyped, Moves, Fails, Stops, Puts
  <2>2. C!ContainerKept' /\ Somewhere'
    BY <1>0, <1>1, <1>2, <1>5, BoxesTyped DEF C!ContainerKept, Somewhere, Moves, Fails, Stops, Puts, Here, Beside, Marking
  <2>3. NoFault'
    BY <1>0, <1>1, <1>2, <1>5, BoxesTyped DEF NoFault, Moves, Fails, Stops, Puts, Here, Beside, Marking, Backward
  <2>4. Trail'
    BY <1>0, <1>1, <1>2, <1>5, BoxesTyped DEF Trail, C!Handled, Moves, Fails, Stops, Puts, Here, Beside, Backward, Marking
  <2>5. Ending'
    BY <1>0, <1>1, <1>2, <1>5, BoxesTyped DEF Ending, Trail, NoFault, C!RolledBack, C!Handled, C!At, Moves, Fails, Stops, Puts, Here, Beside, Backward, Marking
  <2> QED  BY <1>2, <2>1, <2>2, <2>3, <2>4, <2>5 DEF DockInv
<1> QED  BY <1>3, <1>4, <1>5

\* The old container goes when the new one works,
LEMMA DockPromote ==
    ASSUME DockInv, C!Promote
    PROVE  DockInv'
<1> USE DockAssumption
<1>0. DockTyped /\ RecordTyped /\ C!ContainerKept /\ Somewhere /\ NoFault /\ Trail /\ Ending
  BY DEF DockInv
<1>1. worker.pc = "promote" /\ worker \in Workers /\ worker.lab \in Labs /\ failed \in 0..1
  BY <1>0, BoxesTyped DEF C!Promote, C!At, DockTyped
<1>2. RecordTyped' /\ made' \in Nat
  BY <1>0 DEF C!Promote, C!files, C!docks, C!SameDocks, RecordTyped, DockTyped
<1>3. \/ failed' = failed /\ Moves("load") /\ Puts(Here, IF worker.hadOld THEN NoBox ELSE Beside) /\ blind' = blind
      \/ failed = 0 /\ failed' = 1 /\ Stops(worker.causes \cup {"promote"}) /\ Puts(Here, Beside) /\ blind' = blind
  BY <1>0, <1>1, HandlerMoves, BoxesTyped, Putting
     DEF C!Promote, C!Fine, C!SetName, C!SetOld, C!Current, C!Aside, C!SameDocks, C!docks, Here, Beside,
         Points, Forward, Marking, Backward, Causes, Somewhere, Workers
<1>4. CASE failed' = failed /\ Moves("load") /\ Puts(Here, IF worker.hadOld THEN NoBox ELSE Beside) /\ blind' = blind
  <2>1. DockTyped'
    BY <1>0, <1>1, <1>2, <1>4, BoxesTyped DEF DockTyped, Moves, Fails, Stops, Puts
  <2>2. C!ContainerKept' /\ Somewhere'
    BY <1>0, <1>1, <1>2, <1>4, BoxesTyped DEF C!ContainerKept, Somewhere, Moves, Fails, Stops, Puts, Here, Beside, Marking
  <2>3. NoFault'
    BY <1>0, <1>1, <1>2, <1>4, BoxesTyped DEF NoFault, Moves, Fails, Stops, Puts, Here, Beside, Marking, Backward
  <2>4. Trail'
    BY <1>0, <1>1, <1>2, <1>4, BoxesTyped DEF Trail, C!Handled, Moves, Fails, Stops, Puts, Here, Beside, Backward, Marking
  <2>5. Ending'
    BY <1>0, <1>1, <1>2, <1>4, BoxesTyped DEF Ending, Trail, NoFault, C!RolledBack, C!Handled, C!At, Moves, Fails, Stops, Puts, Here, Beside, Backward, Marking
  <2> QED  BY <1>2, <2>1, <2>2, <2>3, <2>4, <2>5 DEF DockInv
<1>5. CASE failed = 0 /\ failed' = 1 /\ Stops(worker.causes \cup {"promote"}) /\ Puts(Here, Beside) /\ blind' = blind
  <2>1. DockTyped'
    BY <1>0, <1>1, <1>2, <1>5, BoxesTyped DEF DockTyped, Moves, Fails, Stops, Puts
  <2>2. C!ContainerKept' /\ Somewhere'
    BY <1>0, <1>1, <1>2, <1>5, BoxesTyped DEF C!ContainerKept, Somewhere, Moves, Fails, Stops, Puts, Here, Beside, Marking
  <2>3. NoFault'
    BY <1>0, <1>1, <1>2, <1>5, BoxesTyped DEF NoFault, Moves, Fails, Stops, Puts, Here, Beside, Marking, Backward
  <2>4. Trail'
    BY <1>0, <1>1, <1>2, <1>5, BoxesTyped DEF Trail, C!Handled, Moves, Fails, Stops, Puts, Here, Beside, Backward, Marking
  <2>5. Ending'
    BY <1>0, <1>1, <1>2, <1>5, BoxesTyped DEF Ending, Trail, NoFault, C!RolledBack, C!Handled, C!At, Moves, Fails, Stops, Puts, Here, Beside, Backward, Marking
  <2> QED  BY <1>2, <2>1, <2>2, <2>3, <2>4, <2>5 DEF DockInv
<1> QED  BY <1>3, <1>4, <1>5

\* and the upgrade is recorded.
LEMMA DockMarkLoad ==
    ASSUME DockInv, C!MarkLoad
    PROVE  DockInv'
<1> USE DockAssumption
<1>0. DockTyped /\ RecordTyped /\ C!ContainerKept /\ Somewhere /\ NoFault /\ Trail /\ Ending
  BY DEF DockInv
<1>1. worker.pc = "load" /\ worker \in Workers /\ worker.lab \in Labs /\ failed \in 0..1
  BY <1>0, BoxesTyped DEF C!MarkLoad, C!At, DockTyped
<1>2. RecordTyped' /\ made' \in Nat
  BY <1>0 DEF C!MarkLoad, C!files, C!docks, C!SameDocks, RecordTyped, DockTyped
<1>3. \/ failed' = failed /\ Moves("write") /\ Puts(Here, Beside) /\ blind' = blind
  <2>1. Puts(Here, Beside)
    BY <1>0, BoxesTyped, Putting DEF C!MarkLoad, C!SameDocks, C!docks
  <2>2. [file EXCEPT ![worker.lab] = "zero"] \in Files0
    BY <1>0 DEF RecordTyped, Files0, C!Ages
  <2>3. worker' = [worker EXCEPT !.pc = "write", !.data = [file EXCEPT ![worker.lab] = "zero"]]
    BY DEF C!MarkLoad
  <2>4. "write" \in Points
    BY DEF Points, Marking
  <2>5. Moves("write")
    <3>1. ended' = ended
      BY DEF C!MarkLoad
    <3> QED  BY <1>1, <2>2, <2>3, <2>4, <3>1 DEF Moves, Workers
  <2> QED  BY <2>1, <2>5 DEF C!MarkLoad, C!SameDocks, C!docks
<1>4. CASE failed' = failed /\ Moves("write") /\ Puts(Here, Beside) /\ blind' = blind
  <2>1. DockTyped'
    BY <1>0, <1>1, <1>2, <1>4, BoxesTyped DEF DockTyped, Moves, Fails, Stops, Puts
  <2>2. C!ContainerKept' /\ Somewhere'
    BY <1>0, <1>1, <1>2, <1>4, BoxesTyped DEF C!ContainerKept, Somewhere, Moves, Fails, Stops, Puts, Here, Beside, Marking
  <2>3. NoFault'
    BY <1>0, <1>1, <1>2, <1>4, BoxesTyped DEF NoFault, Moves, Fails, Stops, Puts, Here, Beside, Marking, Backward
  <2>4. Trail'
    BY <1>0, <1>1, <1>2, <1>4, BoxesTyped DEF Trail, C!Handled, Moves, Fails, Stops, Puts, Here, Beside, Backward, Marking
  <2>5. Ending'
    BY <1>0, <1>1, <1>2, <1>4, BoxesTyped DEF Ending, Trail, NoFault, C!RolledBack, C!Handled, C!At, Moves, Fails, Stops, Puts, Here, Beside, Backward, Marking
  <2> QED  BY <1>2, <2>1, <2>2, <2>3, <2>4, <2>5 DEF DockInv
<1> QED  BY <1>3, <1>4

\* The record is written
LEMMA DockMarkWrite ==
    ASSUME DockInv, C!MarkWrite
    PROVE  DockInv'
<1> USE DockAssumption
<1>0. DockTyped /\ RecordTyped /\ C!ContainerKept /\ Somewhere /\ NoFault /\ Trail /\ Ending
  BY DEF DockInv
<1>1. worker.pc = "write" /\ worker \in Workers /\ worker.lab \in Labs /\ failed \in 0..1
  BY <1>0, BoxesTyped DEF C!MarkWrite, C!At, DockTyped
<1>2. RecordTyped' /\ made' \in Nat
  BY <1>0 DEF C!MarkWrite, C!files, C!docks, C!SameDocks, RecordTyped, DockTyped, C!Written, Workers, Files0, C!Empty, C!Ages
<1>3. \/ failed' = failed /\ Moves("replace") /\ Puts(Here, Beside) /\ blind' = blind
  BY <1>0, <1>1, HandlerMoves, BoxesTyped, Putting
     DEF C!MarkWrite, C!Fine, C!SetName, C!SetOld, C!Current, C!Aside, C!SameDocks, C!docks, Here, Beside,
         Points, Forward, Marking, Backward, Causes, Somewhere, Workers
<1>4. CASE failed' = failed /\ Moves("replace") /\ Puts(Here, Beside) /\ blind' = blind
  <2>1. DockTyped'
    BY <1>0, <1>1, <1>2, <1>4, BoxesTyped DEF DockTyped, Moves, Fails, Stops, Puts
  <2>2. C!ContainerKept' /\ Somewhere'
    BY <1>0, <1>1, <1>2, <1>4, BoxesTyped DEF C!ContainerKept, Somewhere, Moves, Fails, Stops, Puts, Here, Beside, Marking
  <2>3. NoFault'
    BY <1>0, <1>1, <1>2, <1>4, BoxesTyped DEF NoFault, Moves, Fails, Stops, Puts, Here, Beside, Marking, Backward
  <2>4. Trail'
    BY <1>0, <1>1, <1>2, <1>4, BoxesTyped DEF Trail, C!Handled, Moves, Fails, Stops, Puts, Here, Beside, Backward, Marking
  <2>5. Ending'
    BY <1>0, <1>1, <1>2, <1>4, BoxesTyped DEF Ending, Trail, NoFault, C!RolledBack, C!Handled, C!At, Moves, Fails, Stops, Puts, Here, Beside, Backward, Marking
  <2> QED  BY <1>2, <2>1, <2>2, <2>3, <2>4, <2>5 DEF DockInv
<1> QED  BY <1>3, <1>4

\* and put in place.
LEMMA DockMarkReplace ==
    ASSUME DockInv, C!MarkReplace
    PROVE  DockInv'
<1> USE DockAssumption
<1>0. DockTyped /\ RecordTyped /\ C!ContainerKept /\ Somewhere /\ NoFault /\ Trail /\ Ending
  BY DEF DockInv
<1>1. worker.pc = "replace" /\ worker \in Workers /\ worker.lab \in Labs /\ failed \in 0..1
  BY <1>0, BoxesTyped DEF C!MarkReplace, C!At, DockTyped
<1>2. RecordTyped' /\ made' \in Nat
  BY <1>0 DEF C!MarkReplace, C!files, C!docks, C!SameDocks, RecordTyped, DockTyped, C!Answer
<1>3. \/ failed' = failed /\ Stops(worker.causes \cup {"mark"}) /\ Puts(Here, Beside) /\ blind' = blind
      \/ /\ failed' = failed /\ worker' \in Workers /\ worker'.pc = "idle" /\ ended' \in Ends /\ ended'.ok
         /\ Puts(Here, Beside) /\ blind' = blind
  <2>1. Puts(Here, Beside) /\ failed' = failed /\ blind' = blind
    BY <1>0, BoxesTyped, Putting DEF C!MarkReplace, C!SameDocks, C!docks
  <2>2. worker.causes \cup {"mark"} \in SUBSET Causes
    BY <1>1 DEF Workers, Causes
  <2>3. CASE tmp = NoFile
    BY <1>0, <2>1, <2>2, <2>3, HandlerMoves DEF C!MarkReplace
  <2>4. CASE tmp # NoFile
    <3>1. worker' = C!Idle /\ ended' = C!NoEnd
      BY <2>4 DEF C!MarkReplace, C!Answer
    <3>2. C!TheLab \in Labs
      BY DEF C!TheLab
    <3>3. C!NoEnd \in Ends /\ C!NoEnd.ok
      BY <3>2 DEF C!NoEnd, Ends
    <3> QED  BY <2>1, <3>1, <3>3, IdleTyped
  <2> QED  BY <2>3, <2>4
<1>4. CASE failed' = failed /\ Stops(worker.causes \cup {"mark"}) /\ Puts(Here, Beside) /\ blind' = blind
  <2>1. DockTyped'
    BY <1>0, <1>1, <1>2, <1>4, BoxesTyped DEF DockTyped, Moves, Fails, Stops, Puts
  <2>2. C!ContainerKept' /\ Somewhere'
    BY <1>0, <1>1, <1>2, <1>4, BoxesTyped DEF C!ContainerKept, Somewhere, Moves, Fails, Stops, Puts, Here, Beside, Marking
  <2>3. NoFault'
    BY <1>0, <1>1, <1>2, <1>4, BoxesTyped DEF NoFault, Moves, Fails, Stops, Puts, Here, Beside, Marking, Backward
  <2>4. Trail'
    BY <1>0, <1>1, <1>2, <1>4, BoxesTyped DEF Trail, C!Handled, Moves, Fails, Stops, Puts, Here, Beside, Backward, Marking
  <2>5. Ending'
    BY <1>0, <1>1, <1>2, <1>4, BoxesTyped DEF Ending, Trail, NoFault, C!RolledBack, C!Handled, C!At, Moves, Fails, Stops, Puts, Here, Beside, Backward, Marking
  <2> QED  BY <1>2, <2>1, <2>2, <2>3, <2>4, <2>5 DEF DockInv
<1>5. CASE /\ failed' = failed /\ worker' \in Workers /\ worker'.pc = "idle" /\ ended' \in Ends /\ ended'.ok
           /\ Puts(Here, Beside) /\ blind' = blind
  <2>1. DockTyped'
    BY <1>0, <1>1, <1>2, <1>5, BoxesTyped DEF DockTyped, Moves, Fails, Stops, Puts
  <2>2. C!ContainerKept' /\ Somewhere'
    BY <1>0, <1>1, <1>2, <1>5, BoxesTyped DEF C!ContainerKept, Somewhere, Moves, Fails, Stops, Puts, Here, Beside, Marking
  <2>3. NoFault'
    BY <1>0, <1>1, <1>2, <1>5, BoxesTyped DEF NoFault, Moves, Fails, Stops, Puts, Here, Beside, Marking, Backward
  <2>4. Trail'
    BY <1>0, <1>1, <1>2, <1>5, BoxesTyped DEF Trail, C!Handled, Moves, Fails, Stops, Puts, Here, Beside, Backward, Marking
  <2>5. Ending'
    BY <1>0, <1>1, <1>2, <1>5, BoxesTyped DEF Ending, Trail, NoFault, C!RolledBack, C!Handled, C!At, Moves, Fails, Stops, Puts, Here, Beside, Backward, Marking
  <2> QED  BY <1>2, <2>1, <2>2, <2>3, <2>4, <2>5 DEF DockInv
<1> QED  BY <1>3, <1>4, <1>5

\* The package loop and the lapse of time leave the containers as they are.
LEMMA LoopBeholds ==
    ASSUME DockInv, C!PkgUpdateLoop \/ \E l \in Labs : C!Age(l)
    PROVE  DockInv'
<1> USE DockAssumption
<1>0. DockTyped /\ RecordTyped
  BY DEF DockInv
<1>1. /\ worker \in Workers /\ worker.lab \in Labs /\ failed \in 0..1 /\ NoBox \notin Boxes
      /\ named \in [Labs -> Boxes \cup {NoBox}]
      /\ loop \in [pc : Loops, lab : Labs, todo : SUBSET Labs, data : Files0] /\ loop.lab \in Labs
      /\ loop.data \in Files0 /\ loop.todo \in SUBSET Labs
      /\ file \in Files0 /\ tmp \in Files0 \cup {NoFile}
  BY <1>0, BoxesTyped DEF DockTyped, RecordTyped, Workers
<1>2. C!Asleep \in [pc : Loops, lab : Labs, todo : SUBSET Labs, data : Files0]
  <2>1. C!TheLab \in Labs
    BY DEF C!TheLab
  <2>2. C!Empty \in Files0
    BY DEF C!Empty, Files0, C!Ages
  <2> QED  BY <2>1, <2>2 DEF C!Asleep, Loops
<1>3. ASSUME worker' = worker, ended' = ended, old' = old, blind' = blind, made' = made, named' = named,
             failed' = failed
      PROVE  Beheld
  BY <1>0, <1>1, <1>3 DEF Beheld, DockTyped
<1>4. ASSUME C!LoopWakes \/ C!LoopPicks \/ C!RecordLoad \/ C!RecordWrite \/ C!RecordReplace
      PROVE  Beheld
  BY <1>3, <1>4 DEF C!LoopWakes, C!LoopPicks, C!RecordLoad, C!RecordWrite, C!RecordReplace, C!SameDocks,
        C!docks, C!Fine, C!LoopSame
<1>5. ASSUME C!AptUpdate \/ C!AptUpgrade
      PROVE  Beheld
  <2>1. /\ worker' = worker /\ ended' = ended /\ old' = old /\ blind' = blind /\ made' = made
        /\ failed' = failed \/ (failed < 1 /\ failed' = failed + 1)
    BY <1>5 DEF C!AptUpdate, C!AptUpgrade, C!LoopSame, C!Fine, C!Fault
  <2>2. failed' \in 0..1 /\ failed <= failed'
    BY <1>1, <2>1
  <2>3. \/ named' = named
        \/ /\ named[loop.lab] # NoBox
           /\ named' = [named EXCEPT ![loop.lab].lists = TRUE]
        \/ /\ named[loop.lab] # NoBox
           /\ named' = [named EXCEPT ![loop.lab].patched = @ \/ named[loop.lab].lists]
    BY <1>5 DEF C!AptUpdate, C!AptUpgrade, C!Runs, C!Patching
  <2>4. /\ named' \in [Labs -> Boxes \cup {NoBox}]
        /\ \A l \in Labs : IF named[l] = NoBox THEN named'[l] = NoBox
                           ELSE named'[l] # NoBox /\ named'[l].id = named[l].id /\ named'[l].up = named[l].up
    <3>1. CASE named' = named
      BY <1>1, <3>1
    <3>2. ASSUME NEW b \in Boxes, named[loop.lab] # NoBox, b.id = named[loop.lab].id, b.up = named[loop.lab].up,
                 named' = [named EXCEPT ![loop.lab] = b]
          PROVE  /\ named' \in [Labs -> Boxes \cup {NoBox}]
                 /\ \A l \in Labs : IF named[l] = NoBox THEN named'[l] = NoBox
                       ELSE named'[l] # NoBox /\ named'[l].id = named[l].id /\ named'[l].up = named[l].up
      BY <1>1, <3>2
    <3>3. CASE named[loop.lab] # NoBox /\ named' = [named EXCEPT ![loop.lab].lists = TRUE]
      <4>1. named[loop.lab] \in Boxes
        BY <1>1, <3>3
      <4> DEFINE b == [named[loop.lab] EXCEPT !.lists = TRUE]
      <4>2. b \in Boxes /\ b.id = named[loop.lab].id /\ b.up = named[loop.lab].up
        BY <4>1 DEF Boxes
      <4>3. named' = [named EXCEPT ![loop.lab] = b]
        BY <3>3
      <4> QED  BY <3>2, <3>3, <4>2, <4>3
    <3>4. CASE /\ named[loop.lab] # NoBox
               /\ named' = [named EXCEPT ![loop.lab].patched = @ \/ named[loop.lab].lists]
      <4>1. named[loop.lab] \in Boxes
        BY <1>1, <3>4
      <4> DEFINE p == named[loop.lab].patched \/ named[loop.lab].lists
                 b == [named[loop.lab] EXCEPT !.patched = p]
      <4>2. p \in BOOLEAN
        OBVIOUS
      <4>3. b \in Boxes /\ b.id = named[loop.lab].id /\ b.up = named[loop.lab].up
        <5> HIDE DEF p
        <5> QED  BY <4>1, <4>2 DEF Boxes
      <4>4. named' = [named EXCEPT ![loop.lab] = b]
        BY <3>4
      <4> QED  BY <3>2, <3>4, <4>3, <4>4
    <3> QED  BY <2>3, <3>1, <3>3, <3>4
  <2> QED  BY <1>1, <2>1, <2>2, <2>4 DEF Beheld
<1>6. ASSUME NEW l \in Labs, NEW f \in Files0
      PROVE  C!Aged(f, l) \in Files0
  BY DEF C!Aged, Files0, C!Ages
<1>7. ASSUME NEW l \in Labs, C!Age(l)
      PROVE  Beheld
  <2>1. worker.data \in Files0
    BY <1>1 DEF Workers
  <2>2. C!Aged(worker.data, l) \in Files0
    BY <1>6, <2>1
  <2>3. worker' = [worker EXCEPT !.data = C!Aged(worker.data, l)]
    BY <1>7 DEF C!Age
  <2>4. /\ worker' \in Workers /\ worker'.pc = worker.pc /\ worker'.lab = worker.lab /\ worker'.was = worker.was
        /\ worker'.hadOld = worker.hadOld /\ worker'.causes = worker.causes
    BY <1>1, <2>2, <2>3 DEF Workers
  <2>5. ended' = ended /\ old' = old /\ blind' = blind /\ made' = made /\ named' = named /\ failed' = failed
    BY <1>7 DEF C!Age, C!SameDocks, C!docks
  <2> QED  BY <1>1, <2>4, <2>5 DEF Beheld
<1>8. RecordTyped'
  <2>1. ASSUME NEW l \in Labs, C!Age(l)
        PROVE  RecordTyped'
    <3>1. C!Aged(loop.data, l) \in Files0 /\ C!Aged(file, l) \in Files0 /\ (tmp # NoFile => C!Aged(tmp, l) \in Files0)
      BY <1>1, <1>6
    <3> QED  BY <1>1, <2>1, <3>1 DEF C!Age, RecordTyped
  <2>2. CASE C!LoopWakes
    BY <1>1, <2>2 DEF C!LoopWakes, RecordTyped, Loops, C!files
  <2>3. CASE C!LoopPicks
    <3>1. ASSUME NEW l \in Labs
          PROVE  /\ [loop EXCEPT !.pc = "update", !.lab = l] \in [pc : Loops, lab : Labs, todo : SUBSET Labs, data : Files0]
                 /\ [loop EXCEPT !.todo = loop.todo \ {l}] \in [pc : Loops, lab : Labs, todo : SUBSET Labs, data : Files0]
      BY <1>1 DEF Loops
    <3>2. loop' = C!Asleep \/ \E l \in Labs : \/ loop' = [loop EXCEPT !.pc = "update", !.lab = l]
                                             \/ loop' = [loop EXCEPT !.todo = loop.todo \ {l}]
      BY <1>1, <2>3 DEF C!LoopPicks
    <3>3. loop' \in [pc : Loops, lab : Labs, todo : SUBSET Labs, data : Files0]
      BY <1>2, <3>1, <3>2
    <3> QED  BY <1>1, <2>3, <3>3 DEF C!LoopPicks, RecordTyped, C!files
  <2>4. ASSUME C!LoopSkips
        PROVE  loop' \in [pc : Loops, lab : Labs, todo : SUBSET Labs, data : Files0]
    BY <1>1, <1>2, <2>4 DEF C!LoopSkips, Loops
  <2>5. CASE C!AptUpdate \/ C!AptUpgrade
    BY <1>1, <2>4, <2>5 DEF C!AptUpdate, C!AptUpgrade, C!LoopGo, RecordTyped, Loops, C!files
  <2>6. CASE C!RecordLoad
    <3>1. [file EXCEPT ![loop.lab] = "recent"] \in Files0
      BY <1>1 DEF Files0, C!Ages
    <3> QED  BY <1>1, <2>6, <3>1 DEF C!RecordLoad, RecordTyped, Loops, C!files
  <2>7. CASE C!RecordWrite
    <3>1. C!Empty \in Files0
      BY DEF C!Empty, Files0, C!Ages
    <3> QED  BY <1>1, <2>7, <3>1 DEF C!RecordWrite, C!LoopGo, C!Written, RecordTyped, Loops
  <2>8. CASE C!RecordReplace
    BY <1>1, <1>2, <2>4, <2>8 DEF C!RecordReplace, RecordTyped, C!files
  <2> QED  BY <2>1, <2>2, <2>3, <2>5, <2>6, <2>7, <2>8 DEF C!PkgUpdateLoop
<1>9. Beheld
  BY <1>4, <1>5, <1>7 DEF C!PkgUpdateLoop
<1> QED  BY <1>8, <1>9, BeheldStep

\* A recreate is asked for.
LEMMA DockRecreate ==
    ASSUME DockInv, NEW l \in Labs, C!Recreate(l)
    PROVE  DockInv'
<1> USE DockAssumption
<1>0. DockTyped /\ RecordTyped /\ C!ContainerKept /\ Somewhere /\ NoFault /\ Trail /\ Ending
  BY DEF DockInv
<1>1. worker.pc = "idle" /\ failed \in 0..1 /\ NoBox \notin Boxes /\ named \in [Labs -> Boxes \cup {NoBox}]
  BY <1>0, BoxesTyped DEF C!Recreate, C!At, DockTyped
<1> DEFINE was == IF named[l] = NoBox THEN 0 ELSE named[l].id
<1>2. was \in Nat
  BY <1>1 DEF Boxes
<1>3. /\ worker' \in Workers /\ worker'.pc = "check" /\ worker'.lab = l /\ worker'.was = was /\ worker'.causes = {}
  <2>1. worker' = [C!Idle EXCEPT !.pc = "check", !.lab = l, !.was = was]
    BY DEF C!Recreate
  <2>2. C!Idle.causes = {}
    BY DEF C!Idle
  <2>3. "check" \in Points
    BY DEF Points, Forward
  <2> HIDE DEF was
  <2> QED  BY <1>2, <2>1, <2>2, <2>3, IdleTyped DEF Workers
<1>4. UNCHANGED <<named, old, made, blind, file, tmp, loop, failed>> /\ ended' = C!NoEnd
  BY DEF C!Recreate, C!docks, C!files
<1>5. C!NoEnd \in Ends /\ C!NoEnd.ok
  <2>1. C!TheLab \in Labs
    BY DEF C!TheLab
  <2> QED  BY <2>1 DEF C!NoEnd, Ends
<1>6. DockTyped' /\ RecordTyped'
  BY <1>0, <1>3, <1>4, <1>5 DEF DockTyped, RecordTyped
<1>7. C!ContainerKept' /\ Somewhere'
  BY <1>0, <1>3, <1>4 DEF C!ContainerKept, Somewhere, Marking
<1>8. NoFault'
  BY <1>0, <1>1, <1>3, <1>4 DEF NoFault, Here, Backward, Marking
<1>9. Trail'
  BY <1>0, <1>1, <1>3, <1>4 DEF Trail, Here, Backward, Marking
<1>10. Ending'
  BY <1>4, <1>5 DEF Ending, C!RolledBack
<1> QED  BY <1>6, <1>7, <1>8, <1>9, <1>10 DEF DockInv

\* The agent dies, and takes the task up again.
LEMMA DockRestarts ==
    ASSUME DockInv, C!AgentRestarts
    PROVE  DockInv'
<1> USE DockAssumption
<1>0. DockTyped /\ RecordTyped /\ C!ContainerKept /\ Somewhere /\ NoFault /\ Trail /\ Ending
  BY DEF DockInv
<1>1. worker \in Workers /\ worker.pc \in Points
  BY <1>0 DEF DockTyped, Workers
<1>2. UNCHANGED <<named, old, made, blind, file, tmp, failed, ended>> /\ loop' = C!Asleep
  BY DEF C!AgentRestarts, C!SameDocks, C!docks, C!files
<1>3. C!Asleep \in [pc : Loops, lab : Labs, todo : SUBSET Labs, data : Files0]
  <2>1. C!TheLab \in Labs
    BY DEF C!TheLab
  <2>2. C!Empty \in Files0
    BY DEF C!Empty, Files0, C!Ages
  <2> QED  BY <2>1, <2>2 DEF C!Asleep, Loops
<1>4. RecordTyped'
  BY <1>0, <1>2, <1>3 DEF RecordTyped
<1>5. CASE worker.pc = "idle"
  <2>1. worker' = worker
    BY <1>5 DEF C!AgentRestarts, C!At
  <2>2. Beheld
    BY <1>0, <1>1, <1>2, <2>1 DEF Beheld, DockTyped
  <2> QED  BY <1>4, <2>2, BeheldStep
<1>6. CASE worker.pc # "idle"
  <2>1. worker' = [worker EXCEPT !.pc = "check", !.hadOld = FALSE, !.causes = {"crash"}]
    BY <1>6 DEF C!AgentRestarts, C!At
  <2>2. "check" \in Points /\ {"crash"} \in SUBSET Causes
    BY DEF Points, Forward, Causes
  <2>3. /\ worker' \in Workers /\ worker'.pc = "check" /\ worker'.lab = worker.lab /\ worker'.causes = {"crash"}
    BY <1>1, <2>1, <2>2 DEF Workers
  <2>4. DockTyped'
    BY <1>0, <1>2, <2>3 DEF DockTyped
  <2>5. C!ContainerKept' /\ Somewhere'
    BY <1>0, <1>2, <2>3 DEF C!ContainerKept, Somewhere, Marking
  <2>6. NoFault'
    BY <1>0, <1>2, <1>6, <2>3 DEF NoFault, Backward, Marking
  <2>7. Trail'
    BY <2>3 DEF Trail, C!Handled
  <2>8. Ending'
    BY <1>0, <1>2, <1>6 DEF Ending, C!RolledBack
  <2> QED  BY <1>4, <2>4, <2>5, <2>6, <2>7, <2>8 DEF DockInv
<1> QED  BY <1>5, <1>6

\* The labs were just created.
LEMMA DockInit == C!Init => DockInv
<1> SUFFICES ASSUME C!Init
             PROVE  DockInv
  OBVIOUS
<1> USE DockAssumption
<1>1. C!TheLab \in Labs /\ C!Empty \in Files0
  BY DEF C!TheLab, C!Empty, Files0, C!Ages
<1>2. C!Fresh(1, TRUE) \in Boxes /\ C!Fresh(1, TRUE).up = TRUE /\ NoBox \notin Boxes
  BY DEF C!Fresh, Boxes
<1>3. \A l \in Labs : named[l] = C!Fresh(1, TRUE) /\ old[l] = NoBox
  BY DEF C!Init
<1>4. DockTyped
  <2>1. C!NoEnd \in Ends
    BY <1>1 DEF C!NoEnd, Ends
  <2>2. named \in [Labs -> Boxes \cup {NoBox}] /\ old \in [Labs -> Boxes \cup {NoBox}]
    BY <1>2 DEF C!Init
  <2>3. worker \in Workers /\ ended \in Ends /\ made \in Nat /\ failed \in 0..1
    BY <2>1, IdleTyped DEF C!Init
  <2> QED  BY <2>2, <2>3 DEF DockTyped
<1>5. RecordTyped
  BY <1>1 DEF C!Init, C!Asleep, RecordTyped, Loops
<1>6. worker.pc = "idle" /\ ended.ok
  BY IdleTyped DEF C!Init, C!NoEnd
<1>7. C!ContainerKept /\ Somewhere
  BY <1>2, <1>3, <1>6 DEF C!ContainerKept, Somewhere, Marking
<1>8. NoFault /\ Trail /\ Ending
  BY <1>2, <1>3, <1>6 DEF NoFault, Trail, Ending, C!RolledBack, Backward, Marking
<1> QED  BY <1>4, <1>5, <1>7, <1>8 DEF DockInv

\* A recreate that stops anywhere leaves the lab one of its containers, whichever
\* calls fail and however often the agent dies; and of a recreate in which one
\* call fails that may fail, the old container is left running.
THEOREM ContainersAreKept == NodesSpec => []ContainerKept
<1> DEFINE I == part = "recreate" => DockInv
<1>1. NodesInit => I
  BY DockInit DEF NodesInit
<1>2. I /\ [NodesNext]_allVars => I'
  <2> SUFFICES ASSUME part = "recreate", DockInv, C!Next \/ UNCHANGED dockVars
               PROVE  DockInv'
    BY PartSteps
  <2>1. CASE UNCHANGED dockVars
    <3>1. Beheld /\ RecordTyped'
      BY <2>1, DockAssumption DEF dockVars, DockInv, DockTyped, RecordTyped, Beheld, Boxes
    <3> QED  BY <3>1, BeheldStep
  <2>2. ASSUME C!Handler
        PROVE  DockInv'
    BY <2>2, DockCheck, DockStop, DockClearOld, DockRenameAside, DockPrepare, DockCreate, DockWaitSshReady,
       DockRemoveCandidate, DockRestore, DockStartAgain, DockPromote, DockMarkLoad, DockMarkWrite,
       DockMarkReplace DEF C!Handler
  <2>3. CASE C!Next
    BY <2>2, <2>3, DockRecreate, LoopBeholds, DockRestarts DEF C!Next
  <2> QED  BY <2>1, <2>3
<1>3. I => ContainerKept
  BY DEF DockInv, Ending, ContainerKept
<1> QED  BY <1>1, <1>2, <1>3, PTL DEF NodesSpec
-----------------------------------------------------------------------------
(***************************************************************************)
(* The quotas of a placement: the last task that carries a tier carries    *)
(* what the row shows; when none does, the node has it already.            *)
(***************************************************************************)
Amounts    == Nat \cup {None}
QuotaTasks == [kind : {"create", "set"}, fast : Amounts, cold : Amounts]

QuotaTyped ==
    /\ quota \in [fast : Nat, cold : Amounts]
    /\ tasks \in Seq(QuotaTasks) /\ disk \in [Q!Tiers -> Amounts]
    /\ sent \subseteq Q!Tiers

OnItsWay(x) ==
    \/ disk[x] = quota[x] /\ \A i \in DOMAIN tasks : tasks[i][x] = None
    \/ \E i \in DOMAIN tasks :
          tasks[i][x] # None /\ tasks[i][x] = quota[x] /\ \A j \in DOMAIN tasks : j > i => tasks[j][x] = None

QuotaInv == QuotaTyped /\ \A x \in sent : (x = "cold" => ~Q!Smb) => OnItsWay(x)

\* What a queued task carries for the tiers.
LEMMA QuotaTypes ==
    /\ Q!Tiers = {"fast", "cold"}
    /\ \A t \in QuotaTasks, x \in Q!Tiers : t[x] \in Amounts
    /\ QuotaTyped => /\ \A x \in Q!Tiers : quota[x] \in Amounts /\ disk[x] \in Amounts
                     /\ tasks \in Seq(QuotaTasks) /\ Len(tasks) \in Nat /\ DOMAIN tasks = 1..Len(tasks)
                     /\ \A i \in DOMAIN tasks : tasks[i] \in QuotaTasks
<1>1. Q!Tiers = {"fast", "cold"}
  BY DEF Q!Tiers
<1>2. \A t \in QuotaTasks, x \in Q!Tiers : t[x] \in Amounts
  BY <1>1 DEF QuotaTasks
<1>3. QuotaTyped => \A x \in Q!Tiers : quota[x] \in Amounts /\ disk[x] \in Amounts
  BY <1>1 DEF QuotaTyped, Amounts
<1>4. QuotaTyped => /\ tasks \in Seq(QuotaTasks) /\ Len(tasks) \in Nat /\ DOMAIN tasks = 1..Len(tasks)
                    /\ \A i \in DOMAIN tasks : tasks[i] \in QuotaTasks
  BY DEF QuotaTyped
<1> QED  BY <1>1, <1>2, <1>3, <1>4

\* A task is queued: a tier it carries is on its way, the others are where they were.
LEMMA Queueing ==
    ASSUME QuotaTyped, NEW e \in QuotaTasks, tasks' = Append(tasks, e), disk' = disk, NEW x \in Q!Tiers
    PROVE  /\ tasks' \in Seq(QuotaTasks)
           /\ e[x] # None /\ e[x] = quota'[x] => OnItsWay(x)'
           /\ e[x] = None /\ quota'[x] = quota[x] /\ OnItsWay(x) => OnItsWay(x)'
<1>0. tasks \in Seq(QuotaTasks) /\ Len(tasks) \in Nat /\ DOMAIN tasks = 1..Len(tasks)
  BY QuotaTypes
<1>1. /\ tasks' \in Seq(QuotaTasks) /\ Len(tasks') = Len(tasks) + 1 /\ DOMAIN tasks' = 1..(Len(tasks) + 1)
      /\ tasks'[Len(tasks) + 1] = e /\ \A i \in DOMAIN tasks : tasks'[i] = tasks[i]
  BY <1>0
<1>2. ASSUME e[x] # None, e[x] = quota'[x]
      PROVE  OnItsWay(x)'
  <2>1. Len(tasks) + 1 \in DOMAIN tasks' /\ \A j \in DOMAIN tasks' : ~(j > Len(tasks) + 1)
    BY <1>0, <1>1
  <2> QED  BY <1>1, <1>2, <2>1 DEF OnItsWay
<1>3. ASSUME e[x] = None, quota'[x] = quota[x], OnItsWay(x)
      PROVE  OnItsWay(x)'
  <2>1. \A j \in DOMAIN tasks' : j \in DOMAIN tasks \/ tasks'[j] = e
    BY <1>0, <1>1
  <2>2. \A j \in DOMAIN tasks : j \in DOMAIN tasks'
    BY <1>0, <1>1
  <2>3. CASE disk[x] = quota[x] /\ \A i \in DOMAIN tasks : tasks[i][x] = None
    BY <1>1, <1>3, <2>1, <2>3 DEF OnItsWay
  <2>4. CASE \E i \in DOMAIN tasks :
                tasks[i][x] # None /\ tasks[i][x] = quota[x] /\ \A j \in DOMAIN tasks : j > i => tasks[j][x] = None
    BY <1>1, <1>3, <2>1, <2>2, <2>4 DEF OnItsWay
  <2> QED  BY <1>3, <2>3, <2>4 DEF OnItsWay
<1> QED  BY <1>1, <1>2, <1>3

\* The first task leaves the queue: a tier that only it carried is as it was carried.
LEMMA Running ==
    ASSUME QuotaTyped, tasks # <<>>, tasks' = SubSeq(tasks, 1, 0) \o SubSeq(tasks, 2, Len(tasks)),
           quota' = quota, NEW x \in Q!Tiers, OnItsWay(x)
    PROVE  /\ tasks[1] \in QuotaTasks /\ tasks' \in Seq(QuotaTasks)
           /\ tasks[1][x] = None /\ disk'[x] = disk[x] => OnItsWay(x)'
           /\ tasks[1][x] # None /\ disk'[x] = tasks[1][x] => OnItsWay(x)'
           /\ (\E j \in DOMAIN tasks : j > 1 /\ tasks[j][x] # None) => OnItsWay(x)'
<1>0. /\ tasks \in Seq(QuotaTasks) /\ Len(tasks) \in Nat /\ DOMAIN tasks = 1..Len(tasks) /\ Len(tasks) > 0
      /\ tasks[1] \in QuotaTasks
  BY QuotaTypes
<1>1. tasks' \in Seq(QuotaTasks) /\ Len(tasks') = Len(tasks) - 1 /\ \A i \in 1..(Len(tasks) - 1) : tasks'[i] = tasks[i + 1]
  <2>1. SubSeq(tasks, 1, 0) = <<>>
    BY <1>0
  <2>2. SubSeq(tasks, 2, Len(tasks)) = Tail(tasks)
    BY <1>0
  <2>3. tasks' = Tail(tasks)
    BY <1>0, <2>1, <2>2
  <2> QED  BY <1>0, <2>3
<1>2. DOMAIN tasks' = 1..(Len(tasks) - 1)
  BY <1>0, <1>1
<1>3. ASSUME \A j \in DOMAIN tasks : j > 1 => tasks[j][x] = None
      PROVE  \A j \in DOMAIN tasks' : tasks'[j][x] = None
  BY <1>0, <1>1, <1>2, <1>3
<1>4. ASSUME NEW i \in DOMAIN tasks, i > 1, tasks[i][x] # None, tasks[i][x] = quota[x],
             \A j \in DOMAIN tasks : j > i => tasks[j][x] = None
      PROVE  OnItsWay(x)'
  <2>1. i - 1 \in DOMAIN tasks' /\ tasks'[i - 1] = tasks[i]
    BY <1>0, <1>1, <1>2, <1>4
  <2>2. \A j \in DOMAIN tasks' : j > i - 1 => tasks'[j][x] = None
    BY <1>0, <1>1, <1>2, <1>4
  <2> QED  BY <1>4, <2>1, <2>2 DEF OnItsWay
<1>5. ASSUME \A j \in DOMAIN tasks : j > 1 => tasks[j][x] = None, disk'[x] = quota[x]
      PROVE  OnItsWay(x)'
  BY <1>3, <1>5 DEF OnItsWay
<1>6. CASE disk[x] = quota[x] /\ \A i \in DOMAIN tasks : tasks[i][x] = None
  BY <1>0, <1>1, <1>5, <1>6
<1>7. CASE \E i \in DOMAIN tasks :
              tasks[i][x] # None /\ tasks[i][x] = quota[x] /\ \A j \in DOMAIN tasks : j > i => tasks[j][x] = None
  <2>1. PICK i \in DOMAIN tasks :
              tasks[i][x] # None /\ tasks[i][x] = quota[x] /\ \A j \in DOMAIN tasks : j > i => tasks[j][x] = None
    BY <1>7
  <2>2. CASE i = 1
    BY <1>0, <1>1, <1>5, <2>1, <2>2
  <2>3. CASE i > 1
    BY <1>0, <1>1, <1>4, <2>1, <2>3
  <2> QED  BY <1>0, <2>2, <2>3
<1> QED  BY <1>6, <1>7 DEF OnItsWay

\* A sequence of one element.
LEMMA Singleton ==
    ASSUME NEW V, NEW a \in V
    PROVE  <<a>> \in Seq(V) /\ Len(<<a>>) = 1 /\ <<a>>[1] = a
OBVIOUS

\* A sequence with one more element at its end.
LEMMA OneMore ==
    ASSUME NEW V, NEW s \in Seq(V), NEW b \in V
    PROVE  /\ s \o <<b>> \in Seq(V)
           /\ Len(s \o <<b>>) = Len(s) + 1
           /\ (s \o <<b>>)[Len(s) + 1] = b
           /\ \A i \in 1..Len(s) : (s \o <<b>>)[i] = s[i]
<1>1. s \o <<b>> = Append(s, b)
  BY AppendIsConcat
<1> QED  BY <1>1, AppendProperties

\* Two elements put together.
LEMMA Pair ==
    ASSUME NEW V, NEW a \in V, NEW b \in V
    PROVE  LET s == <<a>> \o <<b>> IN s \in Seq(V) /\ Len(s) = 2 /\ s[1] = a /\ s[2] = b
<1>1. <<a>> \in Seq(V) /\ Len(<<a>>) = 1 /\ <<a>>[1] = a
  BY Singleton
<1> QED  BY <1>1, OneMore

\* Three elements put together.
LEMMA Triple ==
    ASSUME NEW V, NEW a \in V, NEW b \in V, NEW c \in V
    PROVE  LET s == <<a>> \o <<b>> \o <<c>> IN Len(s) = 3 /\ s[1] = a /\ s[2] = b /\ s[3] = c
<1> DEFINE t == <<a>> \o <<b>>
           s == t \o <<c>>
<1>1. t \in Seq(V) /\ Len(t) = 2 /\ t[1] = a /\ t[2] = b
  BY Pair
<1> HIDE DEF t
<1>2. t \in Seq(V)
  BY <1>1
<1>3. /\ Len(s) = Len(t) + 1
      /\ s[Len(t) + 1] = c
      /\ \A i \in 1..Len(t) : s[i] = t[i]
  BY <1>2, OneMore
<1> HIDE DEF s
<1>4. 1 \in 1..Len(t) /\ 2 \in 1..Len(t) /\ Len(t) + 1 = 3
  BY <1>1
<1>5. Len(s) = 3 /\ s[1] = a /\ s[2] = b /\ s[3] = c
  BY <1>1, <1>3, <1>4
<1> QED  BY <1>5 DEF s, t

\* The empty sequence adds nothing.
LEMMA NothingAdded ==
    ASSUME NEW V, NEW a \in V
    PROVE  <<>> \o <<a>> = <<a>> /\ <<>> \o <<>> = <<>> /\ <<a>> \o <<>> = <<a>>
<1>1. <<a>> \in Seq(V) /\ <<>> \in Seq(V)
  BY Singleton
<1> QED  BY <1>1, ConcatEmptySeq

\* The statements of a change: the task comes last, after the tiers it carries.
LEMMA StatementOrder ==
    ASSUME NEW f, NEW c, NEW n \in 0..Len(Q!Statements(f, c))
    PROVE  LET done == {Q!Statements(f, c)[i] : i \in 1..n} IN
              /\ "fast" \in done => f # None
              /\ "cold" \in done => c # None
              /\ "task" \in done => (f # None => "fast" \in done) /\ (c # None => "cold" \in done)
<1> DEFINE all == Q!Statements(f, c)
<1>0. n \in 0..Len(all)
  OBVIOUS
<1>1. CASE f # None /\ c # None
  <2>1. all = <<"fast">> \o <<"cold">> \o <<"task">>
    BY <1>1 DEF Q!Statements
  <2>2. Len(all) = 3 /\ all[1] = "fast" /\ all[2] = "cold" /\ all[3] = "task"
    BY <2>1, Triple
  <2> HIDE DEF all
  <2>3. n \in 0..3 /\ \A i \in 1..n : i = 1 \/ i = 2 \/ i = 3
    BY <1>0, <2>2
  <2>4. 3 \in 1..n => 1 \in 1..n /\ 2 \in 1..n /\ 3 \in 1..n
    BY <2>3
  <2>5. LET done == {all[i] : i \in 1..n} IN
           /\ "fast" \in done => f # None
           /\ "cold" \in done => c # None
           /\ "task" \in done => (f # None => "fast" \in done) /\ (c # None => "cold" \in done)
    BY <1>1, <2>2, <2>3, <2>4
  <2> QED  BY <2>5 DEF all
<1>2. CASE f # None /\ c = None
  <2>0. all = (<<"fast">> \o <<>>) \o <<"task">>
    BY <1>2 DEF Q!Statements
  <2>1. all = <<"fast">> \o <<"task">>
    BY <2>0, NothingAdded
  <2>2. Len(all) = 2 /\ all[1] = "fast" /\ all[2] = "task"
    BY <2>1, Pair
  <2> HIDE DEF all
  <2>3. n \in 0..2 /\ \A i \in 1..n : i = 1 \/ i = 2
    BY <1>0, <2>2
  <2>4. 2 \in 1..n => 1 \in 1..n /\ 2 \in 1..n
    BY <2>3
  <2>5. LET done == {all[i] : i \in 1..n} IN
           /\ "fast" \in done => f # None
           /\ "cold" \in done => c # None
           /\ "task" \in done => (f # None => "fast" \in done) /\ (c # None => "cold" \in done)
    BY <1>2, <2>2, <2>3, <2>4
  <2> QED  BY <2>5 DEF all
<1>3. CASE f = None /\ c # None
  <2>0. all = (<<>> \o <<"cold">>) \o <<"task">>
    BY <1>3 DEF Q!Statements
  <2>1. all = <<"cold">> \o <<"task">>
    BY <2>0, NothingAdded
  <2>2. Len(all) = 2 /\ all[1] = "cold" /\ all[2] = "task"
    BY <2>1, Pair
  <2> HIDE DEF all
  <2>3. n \in 0..2 /\ \A i \in 1..n : i = 1 \/ i = 2
    BY <1>0, <2>2
  <2>4. 2 \in 1..n => 1 \in 1..n /\ 2 \in 1..n
    BY <2>3
  <2>5. LET done == {all[i] : i \in 1..n} IN
           /\ "fast" \in done => f # None
           /\ "cold" \in done => c # None
           /\ "task" \in done => (f # None => "fast" \in done) /\ (c # None => "cold" \in done)
    BY <1>3, <2>2, <2>3, <2>4
  <2> QED  BY <2>5 DEF all
<1>4. CASE f = None /\ c = None
  <2>0. all = (<<>> \o <<>>) \o <<"task">>
    BY <1>4 DEF Q!Statements
  <2>1. all = <<"task">>
    BY <2>0, NothingAdded
  <2>2. Len(all) = 1 /\ all[1] = "task"
    BY <2>1, Singleton
  <2> HIDE DEF all
  <2>3. n \in 0..1 /\ \A i \in 1..n : i = 1
    BY <1>0, <2>2
  <2>4. 1 \in 1..n => 1 \in 1..n
    BY <2>3
  <2>5. LET done == {all[i] : i \in 1..n} IN
           /\ "fast" \in done => f # None
           /\ "cold" \in done => c # None
           /\ "task" \in done => (f # None => "fast" \in done) /\ (c # None => "cold" \in done)
    BY <1>4, <2>2, <2>3, <2>4
  <2> QED  BY <2>5 DEF all
<1> QED  BY <1>1, <1>2, <1>3, <1>4

\* An admin changes quotas, and the process may die half way.
LEMMA QuotaChanged ==
    ASSUME QuotaInv, NEW f \in 0..MaxSize + 1 \cup {None}, NEW c \in 0..MaxSize + 1 \cup {None},
           NEW cut \in 0..3, Q!SetPlacementQuota(f, c, cut)
    PROVE  QuotaInv'
<1> USE QuotaAssumption
<1> DEFINE all  == Q!Statements(f, c)
           done == {all[i] : i \in 1..IF cut = 0 THEN Len(all) ELSE cut - 1}
<1>1. /\ QuotaTyped /\ cut \in 0..Len(all) /\ f \in Amounts /\ c \in Amounts
      /\ c # None => ~Q!Smb
  BY DEF QuotaInv, Q!SetPlacementQuota, Q!UpdatePlacementQuota, Q!Write, Amounts
<1>2. /\ quota' = [fast |-> IF "fast" \in done THEN f ELSE quota.fast,
                   cold |-> IF "cold" \in done THEN c ELSE quota.cold]
      /\ tasks' = IF "task" \in done THEN Append(tasks, Q!Task("set", f, c)) ELSE tasks
      /\ sent' = IF "task" \in done THEN sent \cup (done \cap Q!Tiers) ELSE sent \ done
      /\ disk' = disk
  BY DEF Q!SetPlacementQuota, Q!UpdatePlacementQuota, Q!Write
<1>3. /\ "fast" \in done => f # None
      /\ "cold" \in done => c # None
      /\ "task" \in done => (f # None => "fast" \in done) /\ (c # None => "cold" \in done)
  <2>1. Len(all) \in Nat
    BY DEF Q!Statements
  <2>2. (IF cut = 0 THEN Len(all) ELSE cut - 1) \in 0..Len(all)
    BY <1>1, <2>1
  <2> QED  BY <2>2, StatementOrder
<1> HIDE DEF done
<1>4. \A x \in Q!Tiers : quota'[x] = IF x \in done THEN (IF x = "fast" THEN f ELSE c) ELSE quota[x]
  BY <1>2, QuotaTypes
<1>5. quota' \in [fast : Nat, cold : Amounts] /\ (Q!Smb' <=> Q!Smb)
  BY <1>1, <1>2, <1>3 DEF QuotaTyped, Amounts, Q!Smb
<1>6. CASE "task" \in done
  <2> DEFINE e == Q!Task("set", f, c)
  <2>1. e \in QuotaTasks /\ \A x \in Q!Tiers : e[x] = IF x = "fast" THEN f ELSE c
    BY <1>1, QuotaTypes DEF QuotaTasks, Q!Task
  <2>2. tasks' = Append(tasks, e) /\ sent' = sent \cup (done \cap Q!Tiers)
    BY <1>2, <1>6
  <2> HIDE DEF e
  <2>3. QuotaTyped'
    <3>1. tasks' \in Seq(QuotaTasks)
      BY <1>1, <2>1, <2>2, QuotaTypes
    <3>2. sent' \subseteq Q!Tiers
      BY <1>1, <2>2 DEF QuotaTyped
    <3> QED  BY <1>1, <1>2, <1>5, <3>1, <3>2 DEF QuotaTyped
  <2>4. ASSUME NEW x \in sent', x = "cold" => ~Q!Smb'
        PROVE  OnItsWay(x)'
    <3>1. x \in Q!Tiers /\ (x \in done \/ x \in sent)
      BY <1>1, <2>2, <2>4 DEF QuotaTyped
    <3>2. CASE x \in done
      <4>1. e[x] # None /\ e[x] = quota'[x]
        BY <1>3, <1>4, <2>1, <3>1, <3>2, QuotaTypes
      <4> QED  BY <1>1, <1>2, <2>1, <2>2, <3>1, <4>1, Queueing
    <3>3. CASE x \notin done
      <4>1. e[x] = None
        BY <1>3, <1>6, <2>1, <3>1, <3>3, QuotaTypes
      <4>2. quota'[x] = quota[x] /\ OnItsWay(x)
        BY <1>4, <1>5, <2>4, <3>1, <3>3 DEF QuotaInv
      <4> QED  BY <1>1, <1>2, <2>1, <2>2, <3>1, <4>1, <4>2, Queueing
    <3> QED  BY <3>2, <3>3
  <2> QED  BY <2>3, <2>4 DEF QuotaInv
<1>7. CASE "task" \notin done
  <2>1. tasks' = tasks /\ sent' = sent \ done
    BY <1>2, <1>7
  <2>2. QuotaTyped'
    BY <1>1, <1>2, <1>5, <2>1 DEF QuotaTyped
  <2>3. ASSUME NEW x \in sent', x = "cold" => ~Q!Smb'
        PROVE  OnItsWay(x)'
    <3>1. x \in Q!Tiers /\ x \in sent /\ quota'[x] = quota[x]
      BY <1>1, <1>4, <2>1, <2>3 DEF QuotaTyped
    <3>2. OnItsWay(x)
      BY <1>5, <2>3, <3>1 DEF QuotaInv
    <3> QED  BY <1>2, <2>1, <3>1, <3>2 DEF OnItsWay
  <2> QED  BY <2>2, <2>3 DEF QuotaInv
<1> QED  BY <1>6, <1>7

\* A failed placement is created again.
LEMMA QuotaRetried ==
    ASSUME QuotaInv, NEW cut \in BOOLEAN, Q!RetryPlacement(cut)
    PROVE  QuotaInv'
<1> USE QuotaAssumption
<1>1. QuotaTyped /\ quota' = quota /\ disk' = disk /\ (Q!Smb' <=> Q!Smb)
  BY DEF QuotaInv, Q!RetryPlacement, Q!Smb
<1>2. CASE cut
  <2>1. tasks' = tasks /\ sent' = sent
    BY <1>2 DEF Q!RetryPlacement
  <2> QED  BY <1>1, <2>1 DEF QuotaInv, QuotaTyped, OnItsWay
<1>3. CASE ~cut
  <2> DEFINE e == Q!Create(quota)
  <2>1. tasks' = Append(tasks, e) /\ sent' = Q!Tiers
    BY <1>3 DEF Q!RetryPlacement
  <2>2. e \in QuotaTasks /\ e.fast = quota.fast /\ (~Q!Smb => e.cold = quota.cold)
    BY <1>1 DEF Q!Create, Q!Task, QuotaTasks, QuotaTyped, Amounts, Q!Smb
  <2>3. quota.fast # None /\ (~Q!Smb => quota.cold # None)
    BY <1>1 DEF QuotaTyped, Amounts, Q!Smb
  <2> HIDE DEF e
  <2>4. QuotaTyped'
    BY <1>1, <2>1, <2>2, QuotaTypes DEF QuotaTyped
  <2>5. ASSUME NEW x \in sent', x = "cold" => ~Q!Smb'
        PROVE  OnItsWay(x)'
    <3>1. x \in Q!Tiers
      BY <2>1, <2>5
    <3>2. e[x] # None /\ e[x] = quota'[x]
      BY <1>1, <2>2, <2>3, <2>5, <3>1, QuotaTypes
    <3> QED  BY <1>1, <2>1, <2>2, <3>1, <3>2, Queueing
  <2> QED  BY <2>4, <2>5 DEF QuotaInv
<1> QED  BY <1>2, <1>3

\* The node runs the first task, which may fail at a tier or after them.
LEMMA QuotaRun ==
    ASSUME QuotaInv, InOrder, NEW i \in 1..MaxOps + 1, NEW fault \in Q!Tiers \cup {"container", None},
           Q!RunTask(i, fault)
    PROVE  QuotaInv'
<1> USE QuotaAssumption
<1>1. QuotaTyped /\ quota' = quota /\ (Q!Smb' <=> Q!Smb) /\ i = 1 /\ 1 \in DOMAIN tasks
  BY DEF QuotaInv, Q!RunTask, Q!Smb
<1> DEFINE t     == tasks[1]
           tiers == Q!Applied(t, fault) \ (IF Q!Smb THEN {"cold"} ELSE {})
           later == UNION {Q!Carried(tasks[j]) : j \in (DOMAIN tasks) \ (1..1)}
<1>2. /\ disk' = [x \in Q!Tiers |-> IF x \in tiers THEN t[x] ELSE disk[x]]
      /\ tasks' = SubSeq(tasks, 1, 0) \o SubSeq(tasks, 2, Len(tasks))
      /\ sent' = IF fault = None THEN sent ELSE sent \ ((Q!Carried(t) \ Q!Applied(t, fault)) \ later)
  <2>1. 1 - 1 = 0 /\ 1 + 1 = 2
    OBVIOUS
  <2> QED  BY <1>1, <2>1 DEF Q!RunTask
<1>3. \A x \in Q!Tiers : /\ x \in Q!Carried(t) <=> t[x] # None
                         /\ x \in Q!Applied(t, fault) => x \in Q!Carried(t)
                         /\ fault = None => Q!Applied(t, fault) = Q!Carried(t)
                         /\ x \in later => \E j \in DOMAIN tasks : j > 1 /\ tasks[j][x] # None
  <2>1. \A x \in Q!Tiers : x \in Q!Carried(t) <=> t[x] # None
    BY DEF Q!Carried
  <2>2. Q!Applied(t, fault) \in {{}, Q!Carried(t) \cap {"fast"}, Q!Carried(t)}
    BY QuotaTypes DEF Q!Applied
  <2>3. fault = None => Q!Applied(t, fault) = Q!Carried(t)
    BY DEF Q!Applied
  <2>4. ASSUME NEW x \in Q!Tiers, x \in later
        PROVE  \E j \in DOMAIN tasks : j > 1 /\ tasks[j][x] # None
    <3>1. PICK j \in (DOMAIN tasks) \ (1..1) : x \in Q!Carried(tasks[j])
      BY <2>4
    <3>2. j > 1
      BY <1>1, <3>1, QuotaTypes
    <3> QED  BY <3>1, <3>2 DEF Q!Carried
  <2> QED  BY <2>1, <2>2, <2>3, <2>4
<1>4. tasks # <<>> /\ t \in QuotaTasks
  BY <1>1, QuotaTypes
<1>5. ASSUME NEW x \in sent', x = "cold" => ~Q!Smb'
      PROVE  OnItsWay(x)'
  <2>1. x \in sent /\ x \in Q!Tiers /\ OnItsWay(x)
    BY <1>1, <1>2, <1>5 DEF QuotaInv, QuotaTyped
  <2>2. x \in Q!Applied(t, fault) \/ t[x] = None \/ x \in later
    BY <1>2, <1>3, <1>5, <2>1
  <2>3. CASE x \in Q!Applied(t, fault)
    <3>1. x \in tiers
      BY <1>1, <1>5, <2>3, QuotaTypes
    <3>2. disk'[x] = t[x] /\ t[x] # None
      BY <1>2, <1>3, <2>1, <2>3, <3>1
    <3> QED  BY <1>1, <1>2, <1>4, <2>1, <3>2, Running
  <2>4. CASE t[x] = None
    <3>1. disk'[x] = disk[x]
      BY <1>2, <1>3, <2>1, <2>4
    <3> QED  BY <1>1, <1>2, <1>4, <2>1, <2>4, <3>1, Running
  <2>5. CASE x \in later
    <3>1. \E j \in DOMAIN tasks : j > 1 /\ tasks[j][x] # None
      BY <1>3, <2>1, <2>5
    <3> QED  BY <1>1, <1>2, <1>4, <2>1, <3>1, Running
  <2> QED  BY <2>2, <2>3, <2>4, <2>5
<1>6. QuotaTyped'
  <2>1. \A x \in Q!Tiers : t[x] \in Amounts
    BY <1>4, QuotaTypes
  <2>2. disk' \in [Q!Tiers -> Amounts]
    BY <1>1, <1>2, <2>1 DEF QuotaTyped
  <2>3. tasks' \in Seq(QuotaTasks)
    <3>1. SubSeq(tasks, 1, 0) = <<>> /\ SubSeq(tasks, 2, Len(tasks)) = Tail(tasks)
      BY <1>1, <1>4, QuotaTypes
    <3>2. tasks' = Tail(tasks)
      BY <1>1, <1>2, <1>4, <3>1, QuotaTypes
    <3> QED  BY <1>1, <1>4, <3>2, QuotaTypes
  <2>4. sent' \subseteq Q!Tiers
    BY <1>1, <1>2 DEF QuotaTyped
  <2> QED  BY <1>1, <2>2, <2>3, <2>4 DEF QuotaTyped
<1> QED  BY <1>5, <1>6 DEF QuotaInv

\* A placement that has just been created.
LEMMA QuotaInit == Q!Init => QuotaInv
<1> SUFFICES ASSUME Q!Init
             PROVE  QuotaInv
  OBVIOUS
<1> USE QuotaAssumption
<1>1. quota \in [fast : Nat, cold : Amounts] /\ quota.fast # None /\ (~Q!Smb => quota.cold # None)
  BY DEF Q!Init, Amounts, Q!Smb
<1> DEFINE e == Q!Create(quota)
<1>2. tasks = <<e>> /\ sent = Q!Tiers /\ disk = [x \in Q!Tiers |-> None]
  BY DEF Q!Init
<1>3. e \in QuotaTasks /\ e.fast = quota.fast /\ (~Q!Smb => e.cold = quota.cold)
  BY <1>1 DEF Q!Create, Q!Task, QuotaTasks, Amounts, Q!Smb
<1> HIDE DEF e
<1>4. QuotaTyped
  BY <1>1, <1>2, <1>3 DEF QuotaTyped, Amounts
<1>5. ASSUME NEW x \in sent, x = "cold" => ~Q!Smb
      PROVE  OnItsWay(x)
  <2>1. e[x] # None /\ e[x] = quota[x]
    BY <1>1, <1>2, <1>3, <1>5, QuotaTypes
  <2>2. DOMAIN tasks = {1} /\ tasks[1] = e
    BY <1>2
  <2> QED  BY <2>1, <2>2 DEF OnItsWay
<1> QED  BY <1>4, <1>5 DEF QuotaInv

\* Once a node that runs its tasks in their order has nothing left to do, its
\* quotas are those the row shows, for any number of changes, failures, deaths of
\* the controller and retries.
THEOREM QuotasComeToAgree == InOrder /\ NodesSpec => []QuotasAgree
<1> SUFFICES ASSUME InOrder
             PROVE  NodesSpec => []QuotasAgree
  OBVIOUS
<1> DEFINE I == part = "quotas" => QuotaInv
<1>1. NodesInit => I
  BY QuotaInit DEF NodesInit
<1>2. I /\ [NodesNext]_allVars => I'
  <2> SUFFICES ASSUME part = "quotas", QuotaInv, Q!Next \/ UNCHANGED quotaVars
               PROVE  QuotaInv'
    BY PartSteps
  <2>1. CASE UNCHANGED quotaVars
    BY <2>1 DEF quotaVars, QuotaInv, QuotaTyped, OnItsWay, Q!Smb
  <2>2. ASSUME NEW p \in PoolSizes, Q!Heartbeat(p)
        PROVE  QuotaInv'
    BY <2>2 DEF Q!Heartbeat, QuotaInv, QuotaTyped, OnItsWay, Q!Smb
  <2>3. CASE Q!Next
    BY <2>2, <2>3, QuotaChanged, QuotaRetried, QuotaRun DEF Q!Next
  <2> QED  BY <2>1, <2>3
<1>3. I => QuotasAgree
  <2> SUFFICES ASSUME part = "quotas", QuotaInv, tasks = <<>>, NEW x \in sent, x = "cold" => ~Q!Smb
               PROVE  disk[x] = quota[x]
    BY DEF QuotasAgree, Q!QuotasAgree
  <2>1. OnItsWay(x) /\ DOMAIN tasks = {}
    BY DEF QuotaInv
  <2> QED  BY <2>1 DEF OnItsWay
<1> QED  BY <1>1, <1>2, <1>3, PTL DEF NodesSpec
-----------------------------------------------------------------------------
(***************************************************************************)
(* The hourly ticker.  Products of constants are lengths of time, and only *)
(* the lemmas about slots and nights look into them.                       *)
(***************************************************************************)
Gap      == GapHours * Hour
Night(d) == d * S!Day + NightHour * Hour

\* Hours, days, and the least time between two scans.
LEMMA Lengths ==
    /\ Hour \in Nat \ {0} /\ S!Day \in Nat \ {0} /\ Gap \in Nat
    /\ Hour <= Gap /\ Gap + Hour <= S!Day
    /\ AnchorHour * Hour \in Nat /\ NightHour * Hour \in Nat /\ NightHour * Hour + Hour <= S!Day
    /\ ScrubDays * S!Day \in Nat /\ S!Day <= ScrubDays * S!Day
<1>1. /\ Hour \in Nat \ {0} /\ DayHours \in Nat \ {0} /\ ScrubDays \in Nat \ {0}
      /\ AnchorHour \in Nat /\ NightHour \in Nat /\ NightHour + 1 <= DayHours
      /\ GapHours \in Nat /\ 1 <= GapHours /\ GapHours + 1 <= DayHours
  BY ScheduleAssumption
<1>2. \A a \in Nat, b \in Nat, h \in Nat \ {0} :
         a * h \in Nat /\ (a + 1) * h = a * h + h /\ (a <= b => a * h <= b * h) /\ (0 < a => h <= a * h)
  OBVIOUS
<1>3. S!Day \in Nat \ {0} /\ Gap \in Nat /\ Hour <= Gap
  BY <1>1, <1>2 DEF S!Day, Gap
<1>4. Gap + Hour <= S!Day
  <2>1. (GapHours + 1) * Hour <= DayHours * Hour
    BY <1>1, <1>2
  <2>2. (GapHours + 1) * Hour = GapHours * Hour + Hour
    BY <1>1, <1>2
  <2> QED  BY <2>1, <2>2 DEF S!Day, Gap
<1>5. NightHour * Hour + Hour <= S!Day
  <2>1. (NightHour + 1) * Hour <= DayHours * Hour
    BY <1>1, <1>2
  <2>2. (NightHour + 1) * Hour = NightHour * Hour + Hour
    BY <1>1, <1>2
  <2> QED  BY <2>1, <2>2 DEF S!Day
<1>6. AnchorHour * Hour \in Nat /\ NightHour * Hour \in Nat
  BY <1>1, <1>2
<1>7. ScrubDays * S!Day \in Nat /\ S!Day <= ScrubDays * S!Day
  BY <1>1, <1>2, <1>3
<1> QED  BY <1>1, <1>3, <1>4, <1>5, <1>6, <1>7

\* Division rounds down.
LEMMA Floor ==
    ASSUME NEW x \in Int, NEW s \in Nat \ {0}
    PROVE  x \div s \in Int /\ (x \div s) * s <= x /\ x < (x \div s) * s + s
  BY Z3

\* There is one way to divide with a remainder.
LEMMA Quotient ==
    ASSUME NEW h \in Nat \ {0}, NEW n \in Nat, NEW y \in Nat, n * h <= y, y < n * h + h
    PROVE  y \div h = n
<1> DEFINE q == y \div h
<1>1. q \in Int /\ q * h <= y /\ y < q * h + h
  BY Floor
<1> HIDE DEF q
<1>2. ASSUME q < n  PROVE FALSE
  <2>1. (q + 1) * h <= n * h
    BY <1>1, <1>2
  <2>2. (q + 1) * h = q * h + h
    BY <1>1
  <2> QED  BY <1>1, <2>1, <2>2
<1>3. ASSUME n < q  PROVE FALSE
  <2>1. (n + 1) * h <= q * h
    BY <1>1, <1>3
  <2>2. (n + 1) * h = n * h + h
    OBVIOUS
  <2> QED  BY <1>1, <2>1, <2>2
<1> QED  BY <1>1, <1>2, <1>3 DEF q

\* A multiple is less than a greater one by the factor at least.
LEMMA Products ==
    ASSUME NEW a \in Nat, NEW b \in Nat, NEW s \in Nat \ {0}, a < b
    PROVE  a * s \in Nat /\ b * s \in Nat /\ a * s + s <= b * s
  OBVIOUS

\* The night of a day comes a day before that of the next one.
LEMMA Nights ==
    /\ \A d \in Nat : Night(d) \in Nat
    /\ \A d \in Nat, e \in Nat : d < e => Night(d) + S!Day <= Night(e)
<1>1. S!Day \in Nat \ {0} /\ NightHour * Hour \in Nat
  BY Lengths
<1>2. \A d \in Nat, h \in Nat \ {0} : d * h \in Nat
  OBVIOUS
<1>3. \A d \in Nat, e \in Nat, h \in Nat \ {0} : d < e => d * h + h <= e * h
  BY Products
<1>4. \A d \in Nat : Night(d) \in Nat
  BY <1>1, <1>2 DEF Night
<1>5. ASSUME NEW d \in Nat, NEW e \in Nat, d < e
      PROVE  Night(d) + S!Day <= Night(e)
  <2>1. d * S!Day + S!Day <= e * S!Day
    BY <1>1, <1>3, <1>5
  <2>2. d * S!Day \in Nat /\ e * S!Day \in Nat
    BY <1>1, <1>2
  <2> QED  BY <1>1, <2>1, <2>2 DEF Night
<1> QED  BY <1>4, <1>5

\* The hour of the night of a day is the one that begins with it.
LEMMA NightHours ==
    ASSUME NEW t \in Nat
    PROVE  /\ S!HourOf(t) = NightHour => \E d \in Nat : Night(d) <= t /\ t < Night(d) + Hour
           /\ \A d \in Nat : Night(d) <= t /\ t < Night(d) + Hour => S!HourOf(t) = NightHour
<1> DEFINE D == S!Day
           r == t % D
           d0 == t \div D
<1>1. Hour \in Nat \ {0} /\ D \in Nat \ {0} /\ NightHour * Hour \in Nat /\ NightHour * Hour + Hour <= D
  BY Lengths
<1>2. NightHour \in Nat
  BY ScheduleAssumption
<1> HIDE DEF D
<1>3. d0 \in Nat /\ r \in Nat /\ r < D /\ t = d0 * D + r
  BY <1>1
<1>4. ASSUME NEW q \in Nat, NEW m \in Nat, t = q * D + m, m < D
      PROVE  r = m
  <2>1. ASSUME q < d0  PROVE FALSE
    BY <1>1, <1>3, <1>4, <2>1, Products
  <2>2. ASSUME d0 < q  PROVE FALSE
    BY <1>1, <1>3, <1>4, <2>2, Products
  <2> QED  BY <1>1, <1>3, <1>4, <2>1, <2>2
<1>5. \A q \in Nat : q * D \in Nat
  BY <1>1
<1> HIDE DEF r, d0
<1>6. S!HourOf(t) = r \div Hour
  BY DEF S!HourOf, r, D
<1>7. ASSUME r \div Hour = NightHour
      PROVE  Night(d0) <= t /\ t < Night(d0) + Hour
  <2>0. (r \div Hour) * Hour <= r /\ r < (r \div Hour) * Hour + Hour
    BY <1>1, <1>3, Floor
  <2>1. NightHour * Hour <= r /\ r < NightHour * Hour + Hour
    BY ONLY <1>7, <2>0
  <2>2. Night(d0) = d0 * D + NightHour * Hour
    BY DEF Night, D
  <2> QED  BY <1>1, <1>3, <1>5, <2>1, <2>2
<1>8. ASSUME NEW d \in Nat, Night(d) <= t, t < Night(d) + Hour
      PROVE  r \div Hour = NightHour
  <2>1. Night(d) = d * D + NightHour * Hour
    BY DEF Night, D
  <2>2. PICK m \in Nat : m = t - d * D
    BY <1>1, <1>5, <1>8, <2>1
  <2>3. m < D /\ t = d * D + m /\ NightHour * Hour <= m /\ m < NightHour * Hour + Hour
    BY <1>1, <1>5, <1>8, <2>1, <2>2
  <2>4. r = m
    BY <1>4, <2>3
  <2> QED  BY <1>1, <1>2, <2>3, <2>4, Quotient
<1> QED  BY <1>3, <1>6, <1>7, <1>8

TickTyped ==
    /\ now \in Nat /\ nextTick \in Nat /\ now <= nextTick /\ nextTick <= now + Hour
    /\ S!Day <= now
    /\ interval \in Intervals /\ lastRun \in Nat /\ lastScan \in Nat /\ lastScrub \in Nat /\ quiet \in Nat
    /\ running \subseteq Nat /\ scans \subseteq Nat /\ scrubs \subseteq Nat
    /\ auto \in Nat \X Nat

\* Backups in progress began less than an hour ago.
RunsFine ==
    /\ lastRun <= now
    /\ \A s \in running : s <= now /\ now < s + Hour

\* While backups do not overlap, the last one the ticker started is in progress or
\* recorded, and so is every older one.
SlotsFine ==
    ~MayOverlap =>
       /\ \A s, t \in running : s = t
       /\ \A s \in running : lastRun <= s
       /\ auto[2] \in running \/ auto[2] <= lastRun
       /\ S!OneBackupPerSlot

\* Scans began at night, and a gap apart; a night is over when its last tick is, and
\* has its scan then.
NightsFine ==
    /\ lastScan <= now /\ (lastScan # S!Never => lastScan \in scans)
    /\ quiet <= now
    /\ \A s \in scans : s <= lastScan /\ \E d \in Nat : Night(d) <= s /\ s < Night(d) + Hour
    /\ \A s, t \in scans : s < t => s + Gap <= t
    /\ \A d \in Nat : online /\ quiet < Night(d) /\ Night(d) + Hour <= nextTick =>
          \E t \in scans : Night(d) <= t /\ t < Night(d) + Hour

ScrubsFine ==
    /\ lastScrub <= now
    /\ \A s \in scrubs : s <= lastScrub
    /\ \A s, t \in scrubs : s < t => s + ScrubDays * S!Day <= t

TickInv == TickTyped /\ RunsFine /\ S!BackupNotLate /\ SlotsFine /\ NightsFine /\ ScrubsFine

\* A slot is a whole number of intervals from the anchor: the next one after a backup
\* is within an interval of it, and no later than the last one before now if it is due.
LEMMA Slots ==
    ASSUME interval \in Intervals, NEW ref \in Nat, NEW t \in Nat
    PROVE  /\ S!SlotAfter(ref, t) \in Int /\ S!LatestSlot(t) \in Int
           /\ ref < S!SlotAfter(ref, t) /\ S!SlotAfter(ref, t) <= ref + interval * Hour
           /\ S!SlotAfter(ref, t) <= t => S!SlotAfter(ref, t) <= S!LatestSlot(t)
<1> DEFINE p == interval * Hour
           a == S!Anchor(t)
<1>1. p \in Nat \ {0}
  <2>1. interval \in Nat \ {0} /\ Hour \in Nat \ {0}
    BY Lengths, ScheduleAssumption
  <2>2. \A x \in Nat \ {0}, y \in Nat \ {0} : x * y \in Nat \ {0}
    OBVIOUS
  <2> QED  BY <2>1, <2>2
<1>2. a \in Int
  <2>1. S!Day \in Nat \ {0} /\ AnchorHour * Hour \in Nat
    BY Lengths
  <2>2. t \div S!Day \in Nat
    BY <2>1
  <2>3. \A x \in Nat, y \in Nat : x * y \in Nat
    OBVIOUS
  <2>4. (t \div S!Day) * S!Day \in Nat
    BY <2>1, <2>2, <2>3
  <2> QED  BY <2>1, <2>4 DEF S!Anchor
<1>3. S!SlotAfter(ref, t) = a + ((ref - a) \div p + 1) * p /\ S!LatestSlot(t) = a + ((t - a) \div p) * p
  BY DEF S!SlotAfter, S!LatestSlot
<1> HIDE DEF p, a
<1> DEFINE x == (ref - a) \div p
           y == (t - a) \div p
<1>4. x \in Int /\ x * p <= ref - a /\ ref - a < x * p + p
  BY <1>1, <1>2, Floor
<1>5. y \in Int /\ y * p <= t - a /\ t - a < y * p + p
  BY <1>1, <1>2, Floor
<1> HIDE DEF x, y
<1>6. (x + 1) * p = x * p + p /\ x * p \in Int /\ y * p \in Int
  BY <1>1, <1>4, <1>5
<1>7. S!SlotAfter(ref, t) = a + (x * p + p) /\ S!LatestSlot(t) = a + y * p
  BY <1>3, <1>6 DEF x, y
<1>8. ASSUME a + (x * p + p) <= t
      PROVE  x * p + p <= y * p
  <2>1. (x + 1) * p < (y + 1) * p
    <3>1. (y + 1) * p = y * p + p
      BY <1>1, <1>5
    <3> QED  BY <1>1, <1>2, <1>5, <1>6, <1>8, <3>1
  <2>2. x + 1 <= y
    <3>1. ASSUME NEW i \in Int, NEW j \in Int, i * p < j * p
          PROVE  i < j
      BY <1>1, <3>1
    <3> QED  BY <1>4, <1>5, <2>1, <3>1
  <2>3. \A i \in Int, j \in Int : i <= j => i * p <= j * p
    BY <1>1
  <2> QED  BY <1>4, <1>5, <1>6, <2>2, <2>3
<1>9. p = interval * Hour
  BY DEF p
<1> QED  BY <1>1, <1>2, <1>4, <1>5, <1>6, <1>7, <1>8, <1>9

\* An interval is an hour or more.
LEMMA Intervals1 ==
    ASSUME NEW i \in Intervals
    PROVE  i * Hour \in Nat /\ Hour <= i * Hour
<1>1. i \in Nat \ {0} /\ Hour \in Nat \ {0}
  BY Lengths, ScheduleAssumption
<1>2. \A x \in Nat \ {0}, y \in Nat \ {0} : x * y \in Nat /\ y <= x * y
  OBVIOUS
<1> QED  BY <1>1, <1>2

\* The clock begins two scrub intervals in, with nothing started.
LEMMA TickStarts == S!Init => TickInv
<1> SUFFICES ASSUME S!Init
             PROVE  TickInv
  OBVIOUS
<1> DEFINE D == S!Day
           first == 2 * ScrubDays * S!Day
<1>1. Hour \in Nat \ {0} /\ D \in Nat \ {0} /\ ScrubDays \in Nat \ {0}
  BY Lengths, ScheduleAssumption
<1>2. first \in Nat /\ D <= first
  <2>1. \A x \in Nat \ {0}, y \in Nat \ {0} : 2 * x * y \in Nat /\ y <= 2 * x * y
    OBVIOUS
  <2> QED  BY <1>1, <2>1
<1>3. now = first /\ nextTick = first + Hour
  BY DEF S!Init
<1> HIDE DEF first, D
<1>4. /\ interval \in Intervals /\ lastRun = 0 /\ running = {} /\ auto = <<0, 0>>
      /\ online = TRUE /\ lastScrub = 0 /\ lastScan = 0 /\ scans = {} /\ scrubs = {} /\ quiet = now
  BY DEF S!Init, S!Never
<1>5. TickTyped
  BY <1>1, <1>2, <1>3, <1>4 DEF TickTyped, D
<1>6. RunsFine /\ ScrubsFine
  BY <1>2, <1>3, <1>4 DEF RunsFine, ScrubsFine
<1>7. S!BackupNotLate
  BY <1>4 DEF S!BackupNotLate
<1>8. SlotsFine
  BY <1>4 DEF SlotsFine, S!OneBackupPerSlot, S!Never
<1>9. NightsFine
  <2>1. ASSUME NEW d \in Nat, quiet < Night(d), Night(d) + Hour <= nextTick
        PROVE  FALSE
    BY <1>1, <1>2, <1>3, <1>4, <2>1, Nights
  <2> QED  BY <1>2, <1>3, <1>4, <2>1 DEF NightsFine, S!Never
<1> QED  BY <1>5, <1>6, <1>7, <1>8, <1>9 DEF TickInv

\* A step that is not a tick neither scans nor scrubs; the other parts of the state keep
\* what holds of them if what they are about stays.
LEMMA RestOfNight ==
    ASSUME NightsFine, ScrubsFine, TickTyped, TickTyped',
           UNCHANGED <<lastScan, scans, scrubs>>,
           now <= now', lastScrub <= lastScrub', lastScrub' <= now', quiet' \in {quiet, now'},
           \/ nextTick' = nextTick /\ (online' => online) /\ quiet <= quiet'
           \/ quiet' = now'
    PROVE  NightsFine' /\ ScrubsFine'
<1>1. now \in Nat /\ now' \in Nat /\ lastScan \in Nat /\ quiet \in Nat /\ quiet' \in Nat
      /\ nextTick' \in Nat /\ nextTick' <= now' + Hour /\ nextTick \in Nat
      /\ lastScrub \in Nat /\ lastScrub' \in Nat /\ scrubs \subseteq Nat
  BY DEF TickTyped
<1>2. Hour \in Nat \ {0}
  BY Lengths
<1>3. ScrubsFine'
  BY <1>1 DEF ScrubsFine
<1>4. ASSUME NEW d \in Nat, online', quiet' < Night(d), Night(d) + Hour <= nextTick'
      PROVE  \E t \in scans : Night(d) <= t /\ t < Night(d) + Hour
  <2>1. Night(d) \in Nat
    BY Nights
  <2>2. quiet' # now'
    <3>1. PICK x \in Nat, n \in Nat, k \in Nat, h \in Nat : x = Night(d) /\ n = now' /\ k = nextTick' /\ h = Hour
      BY <1>1, <1>2, <2>1
    <3>2. k <= n + h /\ x + h <= k
      BY <1>1, <1>4, <3>1, Zenon
    <3>3. ~(n < x)
      BY ONLY <3>2, x \in Nat, n \in Nat, k \in Nat, h \in Nat
    <3>4. quiet' < x
      BY <1>4, <3>1, Zenon
    <3> QED  BY <3>1, <3>3, <3>4, Zenon
  <2>3. nextTick' = nextTick /\ online /\ quiet < Night(d)
    BY <1>1, <1>4, <2>1, <2>2
  <2> QED  BY <1>4, <2>3 DEF NightsFine
<1>5. NightsFine'
  <2>1. lastScan' <= now' /\ quiet' <= now' /\ (lastScan' # S!Never => lastScan' \in scans')
    BY <1>1 DEF NightsFine, S!Never
  <2>2. /\ \A s \in scans' : s <= lastScan' /\ \E d \in Nat : Night(d) <= s /\ s < Night(d) + Hour
        /\ \A s, t \in scans' : s < t => s + Gap <= t
    BY DEF NightsFine
  <2> QED  BY <1>4, <2>1, <2>2 DEF NightsFine
<1> QED  BY <1>3, <1>5

\* What the ticker started stays on its slots as long as the interval does.
LEMMA SlotsStay == S!OneBackupPerSlot /\ UNCHANGED <<auto, interval>> => S!OneBackupPerSlot'
  BY DEF S!OneBackupPerSlot, S!LatestSlot, S!Anchor, S!Never

\* A backup that ends is recorded: it began less than an hour ago.
LEMMA RecordRunTicks == ASSUME TickInv, NEW s \in running, S!RecordRun(s)  PROVE TickInv'
<1>1. /\ running' = running \ {s} /\ lastRun' = s
      /\ UNCHANGED <<now, nextTick, interval, auto, online, lastScrub, lastScan, scans, scrubs, faults, quiet>>
  BY DEF S!RecordRun, S!night
<1>2. TickTyped /\ RunsFine /\ SlotsFine /\ NightsFine /\ ScrubsFine
  BY DEF TickInv
<1>3. TickTyped'
  BY <1>1, <1>2 DEF TickTyped
<1>4. RunsFine'
  BY <1>1, <1>2 DEF RunsFine
<1>5. S!BackupNotLate'
  <2>1. PICK x \in Nat, n \in Nat, h \in Nat, p \in Nat : x = s /\ n = now /\ h = Hour /\ p = interval * Hour
    BY <1>2, Lengths, Intervals1 DEF TickTyped
  <2>2. n < x + h /\ h <= p
    BY <1>2, <2>1, Intervals1 DEF TickTyped, RunsFine
  <2>3. n - x < p
    BY ONLY <2>2, x \in Nat, n \in Nat, h \in Nat, p \in Nat
  <2>4. (now - lastRun < interval * Hour)'
    BY <1>1, <2>1, <2>3, Zenon
  <2> QED  BY <2>4 DEF S!BackupNotLate
<1>6. SlotsFine'
  <2> SUFFICES ASSUME ~MayOverlap
               PROVE  SlotsFine'
    BY DEF SlotsFine
  <2>1. running = {s} /\ running' = {}
    BY <1>1, <1>2 DEF SlotsFine
  <2>2. auto'[2] <= lastRun'
    <3>1. auto[2] \in Nat /\ lastRun \in Nat /\ s \in Nat
      BY <1>2 DEF TickTyped
    <3> QED  BY <1>1, <1>2, <2>1, <3>1 DEF SlotsFine
  <2> QED  BY <1>1, <1>2, <2>1, <2>2, SlotsStay DEF SlotsFine
<1>7. NightsFine' /\ ScrubsFine'
  BY <1>1, <1>2, <1>3, RestOfNight DEF TickTyped, ScrubsFine
<1> QED  BY <1>3, <1>4, <1>5, <1>6, <1>7 DEF TickInv

\* A backup that an admin starts is the only one, unless they overlap.
LEMMA BackupNowTicks == ASSUME TickInv, S!BackupNow  PROVE TickInv'
<1>1. /\ running' = running \cup {now} /\ (running = {} \/ MayOverlap)
      /\ UNCHANGED <<now, nextTick, interval, lastRun, auto, online, lastScrub, lastScan, scans, scrubs, quiet>>
  BY DEF S!BackupNow, S!night
<1>2. TickTyped /\ RunsFine /\ SlotsFine /\ NightsFine /\ ScrubsFine
  BY DEF TickInv
<1>3. TickTyped'
  BY <1>1, <1>2 DEF TickTyped
<1>4. RunsFine'
  BY <1>1, <1>2, Lengths DEF RunsFine, TickTyped
<1>5. S!BackupNotLate'
  BY <1>1 DEF S!BackupNotLate
<1>6. SlotsFine'
  BY <1>1, <1>2, SlotsStay DEF SlotsFine, RunsFine
<1>7. NightsFine' /\ ScrubsFine'
  BY <1>1, <1>2, <1>3, RestOfNight DEF TickTyped, ScrubsFine
<1> QED  BY <1>3, <1>4, <1>5, <1>6, <1>7 DEF TickInv

\* A scrub that an admin starts is the last one.
LEMMA ScrubNowTicks == ASSUME TickInv, S!ScrubNow  PROVE TickInv'
<1>1. /\ lastScrub' = now
      /\ UNCHANGED <<now, nextTick, interval, lastRun, running, auto, online, lastScan, scans, scrubs, quiet>>
  BY DEF S!ScrubNow, S!backup
<1>2. TickTyped /\ RunsFine /\ SlotsFine /\ NightsFine /\ ScrubsFine /\ S!BackupNotLate
  BY DEF TickInv
<1>3. TickTyped'
  BY <1>1, <1>2 DEF TickTyped
<1>4. RunsFine'
  BY <1>1, <1>2 DEF RunsFine
<1>5. S!BackupNotLate'
  BY <1>1, <1>2 DEF S!BackupNotLate
<1>6. SlotsFine'
  BY <1>1, <1>2, SlotsStay DEF SlotsFine
<1>7. NightsFine' /\ ScrubsFine'
  BY <1>1, <1>2, <1>3, RestOfNight DEF TickTyped, ScrubsFine
<1> QED  BY <1>3, <1>4, <1>5, <1>6, <1>7 DEF TickInv

\* With another interval the slots begin anew.
LEMMA SaveScheduleTicks == ASSUME TickInv, NEW i \in Intervals, S!SaveSchedule(i)  PROVE TickInv'
<1>1. /\ interval' = i /\ auto' = <<0, 0>> /\ quiet' = now
      /\ UNCHANGED <<now, nextTick, lastRun, running, online, lastScrub, lastScan, scans, scrubs>>
  BY DEF S!SaveSchedule, S!night, S!Never
<1>2. TickTyped /\ RunsFine /\ SlotsFine /\ NightsFine /\ ScrubsFine
  BY DEF TickInv
<1>3. TickTyped'
  BY <1>1, <1>2 DEF TickTyped
<1>4. RunsFine'
  BY <1>1, <1>2 DEF RunsFine
<1>5. S!BackupNotLate'
  BY <1>1 DEF S!BackupNotLate
<1>6. SlotsFine'
  BY <1>1, <1>2 DEF SlotsFine, S!OneBackupPerSlot, S!Never, TickTyped
<1>7. NightsFine' /\ ScrubsFine'
  BY <1>1, <1>2, <1>3, RestOfNight DEF TickTyped, ScrubsFine
<1> QED  BY <1>3, <1>4, <1>5, <1>6, <1>7 DEF TickInv

\* A restart loses the backups in progress.
LEMMA RestartTicks == ASSUME TickInv, S!Restart  PROVE TickInv'
<1>1. /\ nextTick' = now + Hour /\ running' = {} /\ quiet' = now
      /\ auto' = IF auto[2] \in running THEN <<0, 0>> ELSE auto
      /\ UNCHANGED <<now, interval, lastRun, online, lastScrub, lastScan, scans, scrubs>>
  BY DEF S!Restart, S!night, S!Never
<1>2. TickTyped /\ RunsFine /\ SlotsFine /\ NightsFine /\ ScrubsFine
  BY DEF TickInv
<1>3. TickTyped'
  BY <1>1, <1>2, Lengths DEF TickTyped
<1>4. RunsFine'
  BY <1>1, <1>2 DEF RunsFine
<1>5. S!BackupNotLate'
  BY <1>1 DEF S!BackupNotLate
<1>6. SlotsFine'
  <2>1. CASE auto[2] \in running
    BY <1>1, <1>2, <2>1 DEF SlotsFine, S!OneBackupPerSlot, S!Never, TickTyped
  <2>2. CASE auto[2] \notin running
    BY <1>1, <1>2, <2>2, SlotsStay DEF SlotsFine
  <2> QED  BY <2>1, <2>2
<1>7. NightsFine' /\ ScrubsFine'
  BY <1>1, <1>2, <1>3, RestOfNight DEF TickTyped, ScrubsFine
<1> QED  BY <1>3, <1>4, <1>5, <1>6, <1>7 DEF TickInv

\* Nothing is expected of a night in which the node was away.
LEMMA NodeFlipsTicks == ASSUME TickInv, S!NodeFlips  PROVE TickInv'
<1>1. /\ quiet' = now
      /\ UNCHANGED <<now, nextTick, interval, lastRun, running, auto, lastScrub, lastScan, scans, scrubs>>
  BY DEF S!NodeFlips, S!night, S!backup
<1>2. TickTyped /\ RunsFine /\ SlotsFine /\ NightsFine /\ ScrubsFine
  BY DEF TickInv
<1>3. TickTyped'
  BY <1>1, <1>2 DEF TickTyped
<1>4. RunsFine'
  BY <1>1, <1>2 DEF RunsFine
<1>5. S!BackupNotLate'
  BY <1>1 DEF S!BackupNotLate
<1>6. SlotsFine'
  BY <1>1, <1>2, SlotsStay DEF SlotsFine
<1>7. NightsFine' /\ ScrubsFine'
  BY <1>1, <1>2, <1>3, RestOfNight DEF TickTyped, ScrubsFine
<1> QED  BY <1>3, <1>4, <1>5, <1>6, <1>7 DEF TickInv

\* The clock does not run past a tick, nor while a backup is an hour old.
LEMMA PassTicks == ASSUME TickInv, S!Pass  PROVE TickInv'
<1>1. /\ now < nextTick /\ now' = now + 1 /\ \A s \in running : now + 1 - s < Hour
      /\ UNCHANGED <<nextTick, interval, lastRun, running, auto, online, lastScrub, lastScan, scans, scrubs, quiet>>
  BY DEF S!Pass, S!night, S!backup
<1>2. TickTyped /\ RunsFine /\ SlotsFine /\ NightsFine /\ ScrubsFine
  BY DEF TickInv
<1>3. TickTyped'
  BY <1>1, <1>2, Lengths DEF TickTyped
<1>4. RunsFine'
  BY <1>1, <1>2, Lengths DEF RunsFine, TickTyped
<1>5. S!BackupNotLate'
  <2>1. now' + Hour # nextTick'
    BY <1>1, <1>2, Lengths DEF TickTyped
  <2> QED  BY <2>1 DEF S!BackupNotLate
<1>6. SlotsFine'
  BY <1>1, <1>2, SlotsStay DEF SlotsFine
<1>7. NightsFine' /\ ScrubsFine'
  BY <1>1, <1>2, <1>3, RestOfNight DEF TickTyped, ScrubsFine, NightsFine
<1> QED  BY <1>3, <1>4, <1>5, <1>6, <1>7 DEF TickInv

\* A tick in the hour of a night scans, unless that night has its scan already: one
\* of the night before is longer ago than the gap.
LEMMA TickScans ==
    ASSUME TickTyped, NightsFine, NEW d \in Nat, Night(d) <= now, now < Night(d) + Hour, now - lastScan < Gap
    PROVE  lastScan \in scans /\ Night(d) <= lastScan /\ lastScan < Night(d) + Hour
<1> DEFINE D == S!Day
<1>1. /\ now \in Nat /\ lastScan \in Nat /\ lastScan <= now /\ D <= now
      /\ Hour \in Nat /\ 0 < Hour /\ Gap \in Nat /\ D \in Nat /\ Gap + Hour <= D
  BY Lengths DEF TickTyped, NightsFine
<1> HIDE DEF D
<1>2. lastScan \in scans
  <2>1. lastScan # 0
    BY <1>1
  <2> QED  BY <2>1 DEF NightsFine, S!Never
<1>3. PICK e \in Nat : Night(e) <= lastScan /\ lastScan < Night(e) + Hour
  BY <1>2 DEF NightsFine
<1>4. Night(d) \in Nat /\ Night(e) \in Nat
  BY Nights
<1>5. ASSUME e < d  PROVE FALSE
  <2>1. Night(e) + D <= Night(d)
    BY <1>5, Nights DEF D
  <2> QED  BY <1>1, <1>3, <1>4, <2>1
<1>6. ASSUME d < e  PROVE FALSE
  <2>1. Night(d) + D <= Night(e)
    BY <1>6, Nights DEF D
  <2> QED  BY <1>1, <1>3, <1>4, <2>1
<1>7. e = d
  BY <1>5, <1>6
<1> QED  BY <1>2, <1>3, <1>7

\* A tick starts what is due.
LEMMA TickTicks == ASSUME TickInv, S!Tick  PROVE TickInv'
<1>1. /\ now = nextTick /\ nextTick' = now + Hour /\ (running = {} \/ MayOverlap)
      /\ UNCHANGED <<now, interval, lastRun, online, quiet>>
      /\ \/ S!ScrubDue(now) /\ lastScrub' = now /\ scrubs' = scrubs \cup {now}
         \/ UNCHANGED <<lastScrub, scrubs>>
      /\ \/ S!ScanDue(now) /\ lastScan' = now /\ scans' = scans \cup {now}
         \/ ~S!ScanDue(now) /\ UNCHANGED <<lastScan, scans>>
      /\ \/ S!BackupDue(now) /\ running' = running \cup {now} /\ auto' = <<auto[2], now>>
         \/ ~S!BackupDue(now) /\ UNCHANGED <<running, auto>>
  BY DEF S!Tick
<1>2. TickTyped /\ RunsFine /\ SlotsFine /\ NightsFine /\ ScrubsFine
  BY DEF TickInv
<1>3. now \in Nat /\ Hour \in Nat /\ 0 < Hour /\ Gap \in Nat /\ S!Day \in Nat
  BY <1>2, Lengths DEF TickTyped
<1>4. TickTyped'
  <2>1. scans' \subseteq Nat /\ lastScan' \in Nat
    BY <1>1, <1>2 DEF TickTyped
  <2>2. scrubs' \subseteq Nat /\ lastScrub' \in Nat
    BY <1>1, <1>2 DEF TickTyped
  <2>3. running' \subseteq Nat /\ auto' \in Nat \X Nat
    <3>1. running \subseteq Nat /\ auto \in Nat \X Nat
      BY <1>2 DEF TickTyped
    <3>2. auto[2] \in Nat
      BY <3>1
    <3>3. running \cup {now} \subseteq Nat /\ <<auto[2], now>> \in Nat \X Nat
      BY <1>3, <3>1, <3>2
    <3>4. (running' = running \/ running' = running \cup {now}) /\ (auto' = auto \/ auto' = <<auto[2], now>>)
      BY <1>1, Zenon
    <3> QED  BY <3>1, <3>3, <3>4, Zenon
  <2>4. now' \in Nat /\ nextTick' \in Nat /\ now' <= nextTick' /\ nextTick' <= now' + Hour
    BY <1>1, <1>3
  <2>5. S!Day <= now' /\ interval' \in Intervals /\ lastRun' \in Nat /\ quiet' \in Nat
    BY <1>1, <1>2 DEF TickTyped
  <2> QED  BY <2>1, <2>2, <2>3, <2>4, <2>5 DEF TickTyped
<1>5. RunsFine'
  BY <1>1, <1>2, <1>3 DEF RunsFine
<1>6. PICK slot \in Int, last \in Int, n \in Nat, r \in Nat, p \in Nat :
         /\ slot = S!SlotAfter(lastRun, now) /\ last = S!LatestSlot(now)
         /\ n = now /\ r = lastRun /\ p = interval * Hour
         /\ r < slot /\ slot <= r + p /\ (slot <= n => slot <= last)
  <2>1. lastRun \in Nat /\ now \in Nat /\ interval \in Intervals
    BY <1>2 DEF TickTyped
  <2>2. interval * Hour \in Nat
    BY <2>1, Intervals1
  <2>3. /\ S!SlotAfter(lastRun, now) \in Int /\ S!LatestSlot(now) \in Int
        /\ lastRun < S!SlotAfter(lastRun, now) /\ S!SlotAfter(lastRun, now) <= lastRun + interval * Hour
        /\ S!SlotAfter(lastRun, now) <= now => S!SlotAfter(lastRun, now) <= S!LatestSlot(now)
    BY <2>1, Slots
  <2> QED  BY <2>1, <2>2, <2>3, Zenon
<1>7. S!BackupDue(now) <=> n >= slot
  <2>1. n >= slot <=> now >= S!SlotAfter(lastRun, now)
    BY <1>6, Zenon
  <2> QED  BY <2>1 DEF S!BackupDue
<1>8. S!BackupNotLate'
  <2>1. CASE S!BackupDue(now)
    BY <1>1, <2>1 DEF S!BackupNotLate
  <2>2. CASE ~S!BackupDue(now)
    <3>1. n - r < p
      BY <1>6, <1>7, <2>2
    <3>2. (now - lastRun < interval * Hour)'
      BY <1>1, <1>6, <3>1, Zenon
    <3> QED  BY <3>2 DEF S!BackupNotLate
  <2> QED  BY <2>1, <2>2
<1>9. SlotsFine'
  <2> SUFFICES ASSUME ~MayOverlap
               PROVE  SlotsFine'
    BY DEF SlotsFine
  <2>1. running = {} /\ auto[2] <= r /\ auto[2] \in Nat /\ r <= n
    BY <1>1, <1>2, <1>6 DEF SlotsFine, RunsFine, TickTyped
  <2>2. CASE S!BackupDue(now)
    <3>1. running' = {n} /\ auto'[1] = auto[2] /\ auto'[2] = n /\ lastRun' = r
      BY <1>1, <1>6, <2>1, <2>2
    <3>2. auto[2] < last
      BY <1>6, <1>7, <2>1, <2>2
    <3>3. S!LatestSlot(now)' = last
      BY <1>1, <1>6 DEF S!LatestSlot, S!Anchor
    <3>4. S!LatestSlot(auto[2])' = last
      <4>1. auto'[2] = now'
        BY <1>1, <1>6, <3>1
      <4> QED  BY <3>3, <4>1 DEF S!LatestSlot, S!Anchor
    <3>5. S!OneBackupPerSlot'
      BY <3>1, <3>2, <3>4 DEF S!OneBackupPerSlot
    <3> QED  BY <1>6, <2>1, <3>1, <3>5 DEF SlotsFine
  <2>3. CASE ~S!BackupDue(now)
    BY <1>1, <1>2, <2>1, <2>3, SlotsStay DEF SlotsFine
  <2> QED  BY <2>2, <2>3
<1>10. ScrubsFine'
  <2>1. CASE UNCHANGED <<lastScrub, scrubs>>
    BY <1>1, <1>2, <2>1 DEF ScrubsFine
  <2>2. CASE S!ScrubDue(now) /\ lastScrub' = now /\ scrubs' = scrubs \cup {now}
    <3>1. PICK g \in Nat : g = ScrubDays * S!Day
      BY Lengths
    <3>2. now - lastScrub >= g /\ lastScrub \in Nat
      BY <1>2, <2>2, <3>1 DEF S!ScrubDue, TickTyped
    <3>3. /\ \A s \in scrubs : s \in Nat /\ s + g <= now
          /\ \A s, t \in scrubs : s < t => s + g <= t
      BY <1>2, <1>3, <3>1, <3>2 DEF ScrubsFine, TickTyped
    <3> QED  BY <1>1, <1>3, <2>2, <3>1, <3>3 DEF ScrubsFine
  <2> QED  BY <1>1, <2>1, <2>2
<1>11. NightsFine'
  <2>1. /\ lastScan \in Nat /\ lastScan <= now /\ quiet \in Nat /\ scans \subseteq Nat
    BY <1>2 DEF TickTyped, NightsFine
  <2>2. S!ScanDue(now) => lastScan + Gap <= now /\ \E d \in Nat : Night(d) <= now /\ now < Night(d) + Hour
    BY <1>3, <2>1, NightHours DEF S!ScanDue, Gap
  <2>3. /\ lastScan' <= now' /\ (lastScan' # S!Never => lastScan' \in scans') /\ quiet' <= now'
    BY <1>1, <1>2, <1>3 DEF NightsFine, S!Never
  <2>4. \A s \in scans' : s <= lastScan' /\ \E d \in Nat : Night(d) <= s /\ s < Night(d) + Hour
    BY <1>1, <1>2, <1>3, <2>1, <2>2 DEF NightsFine
  <2>5. \A s, t \in scans' : s < t => s + Gap <= t
    BY <1>1, <1>2, <1>3, <2>1, <2>2 DEF NightsFine
  <2>6. ASSUME NEW d \in Nat, online', quiet' < Night(d), Night(d) + Hour <= nextTick'
        PROVE  \E t \in scans' : Night(d) <= t /\ t < Night(d) + Hour
    <3>1. Night(d) \in Nat /\ online /\ quiet < Night(d) /\ Night(d) + Hour <= now + Hour
      BY <1>1, <2>6, Nights
    <3>2. CASE Night(d) + Hour <= now
      <4>1. \E t \in scans : Night(d) <= t /\ t < Night(d) + Hour
        BY <1>1, <1>2, <3>1, <3>2 DEF NightsFine
      <4> QED  BY <1>1, <4>1
    <3>3. CASE now < Night(d) + Hour
      <4>1. Night(d) <= now /\ S!HourOf(now) = NightHour
        BY <1>3, <3>1, <3>3, NightHours
      <4>2. CASE S!ScanDue(now)
        BY <1>1, <3>3, <4>1, <4>2
      <4>3. CASE ~S!ScanDue(now)
        <5>1. now - lastScan < Gap
          BY <1>3, <2>1, <3>1, <4>1, <4>3 DEF S!ScanDue, Gap
        <5> QED  BY <1>1, <1>2, <3>3, <4>1, <4>3, <5>1, TickScans
      <4> QED  BY <4>2, <4>3
    <3> QED  BY <1>3, <3>1, <3>2, <3>3
  <2> QED  BY <2>3, <2>4, <2>5, <2>6 DEF NightsFine
<1> QED  BY <1>4, <1>5, <1>8, <1>9, <1>10, <1>11 DEF TickInv

\* Of two scans a gap apart only one lies in an hour.
LEMMA NightlyWorkDone == TickInv => S!NightlyWork
<1> SUFFICES ASSUME TickInv
             PROVE  S!NightlyWork
  OBVIOUS
<1> DEFINE In(s) == {t \in scans : t >= s /\ t < s + Hour}
<1>1. /\ now \in Nat /\ nextTick \in Nat /\ now <= nextTick /\ scans \subseteq Nat /\ scrubs \subseteq Nat
      /\ Hour \in Nat /\ Gap \in Nat /\ Hour <= Gap /\ ScrubDays * S!Day \in Nat
  BY Lengths DEF TickInv, TickTyped
<1>2. now \div S!Day \in Nat
  BY <1>1, Lengths
<1>3. ASSUME NEW e \in 0..(now \div S!Day)
      PROVE  /\ S!Cardinality(In(Night(e))) <= 1
             /\ online /\ quiet < Night(e) /\ Night(e) + Hour <= now => In(Night(e)) # {}
  <2>1. e \in Nat /\ Night(e) \in Nat
    BY <1>2, Nights
  <2>2. \A s, t \in In(Night(e)) : s = t
    <3> SUFFICES ASSUME NEW s \in In(Night(e)), NEW t \in In(Night(e)), s < t
                 PROVE  FALSE
      BY <1>1
    <3>1. s + Gap <= t
      BY DEF TickInv, NightsFine
    <3> QED  BY <1>1, <2>1, <3>1
  <2>3. S!Cardinality(In(Night(e))) = Cardinality(In(Night(e)))
    BY DEF S!Cardinality, Cardinality
  <2>4. Cardinality(In(Night(e))) <= 1
    <3>1. CASE In(Night(e)) = {}
      BY <3>1, FS_EmptySet
    <3>2. CASE In(Night(e)) # {}
      <4>1. PICK t : In(Night(e)) = {t}
        BY <2>2, <3>2
      <4> QED  BY <4>1, FS_Singleton
    <3> QED  BY <3>1, <3>2
  <2>5. ASSUME online, quiet < Night(e), Night(e) + Hour <= now
        PROVE  In(Night(e)) # {}
    <3>1. Night(e) + Hour <= nextTick
      BY <1>1, <2>1, <2>5
    <3> QED  BY <1>1, <2>1, <2>5, <3>1 DEF TickInv, NightsFine
  <2> QED  BY <2>3, <2>4, <2>5
<1>4. ASSUME NEW s \in scrubs, NEW t \in scrubs, s < t
      PROVE  t - s >= ScrubDays * S!Day
  <2>1. s + ScrubDays * S!Day <= t
    BY <1>4 DEF TickInv, ScrubsFine
  <2> QED  BY <1>1, <2>1
<1> QED  BY <1>3, <1>4 DEF S!NightlyWork, Night

\* The ticker's invariant says what the run checks.
LEMMA TicksKeepTime == ~MayOverlap /\ TickInv => OnSchedule
  BY NightlyWorkDone DEF OnSchedule, TickInv, SlotsFine

\* The property the run checks of the hourly ticker, while a backup begins only when
\* no other is in progress: after a tick no backup is overdue, a slot has one backup that
\* the ticker started, a night during which the process ran has one scan, and scrubs are
\* an interval apart, over restarts, failed backups, and whatever admins start.
THEOREM TicksAreOnSchedule == ~MayOverlap /\ NodesSpec => []OnSchedule
<1> SUFFICES ASSUME ~MayOverlap
             PROVE  NodesSpec => []OnSchedule
  OBVIOUS
<1>1. NodesInit => TickInv
  BY TickStarts DEF NodesInit
<1>2. ASSUME TickInv, [NodesNext]_allVars
      PROVE  TickInv'
  <2>1. CASE UNCHANGED tickVars
    <3>1. UNCHANGED <<now, nextTick, interval, lastRun, running, online, lastScrub, lastScan, auto, scans, scrubs, quiet>>
      BY <2>1 DEF tickVars
    <3> QED  BY <1>2, <3>1 DEF TickInv, TickTyped, RunsFine, SlotsFine, NightsFine, ScrubsFine, S!BackupNotLate,
                               S!OneBackupPerSlot, S!LatestSlot, S!Anchor, S!Never
  <2>2. CASE S!Next
    BY <1>2, <2>2, TickTicks, RecordRunTicks, BackupNowTicks, ScrubNowTicks, SaveScheduleTicks, RestartTicks,
       NodeFlipsTicks, PassTicks DEF S!Next
  <2>3. S!Next \/ UNCHANGED tickVars
    BY <1>2 DEF NodesNext, allVars
  <2> QED  BY <2>1, <2>2, <2>3
<1>3. TickInv => OnSchedule
  BY TicksKeepTime
<1> QED  BY <1>1, <1>2, <1>3, PTL DEF NodesSpec
=============================================================================
