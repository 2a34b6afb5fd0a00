----------------------------- MODULE NodeGroups -----------------------------
(***************************************************************************)
(* Named groups of nodes (nodegroups.ts), changed through forms that an    *)
(* admin opened earlier, while nodes and groups are deleted and made anew. *)
(* Rows are known by AUTOINCREMENT ids.                                    *)
(***************************************************************************)
EXTENDS Naturals, FiniteSets

CONSTANTS Names,       \* names of nodes
          Labels,      \* names of groups as typed; one may clean to nothing
          Tabs,        \* admins' open pages
          MaxNode, MaxGroup

VARIABLES
    node,      \* nodes: id to name, NoName without a row
    group,     \* node_groups and node_group_members: id to name and members
    lastNode,  \* sqlite_sequence
    lastGroup,
    form,      \* per page: the group and the nodes ticked
    chosen     \* history: group, node and the node's name, as an admin saw them

vars == <<node, group, lastNode, lastGroup, form, chosen>>

NoName  == ""
NoGroup == [name |-> NoName, members |-> {}]
NoForm  == [group |-> 0, ticked |-> {}]

Live   == {i \in 1..MaxNode : node[i] # NoName}
Groups == {g \in 1..MaxGroup : group[g].name # NoName}

Init ==
    /\ node = [i \in 1..MaxNode |-> NoName] /\ lastNode = 0
    /\ group = [g \in 1..MaxGroup |-> NoGroup] /\ lastGroup = 0
    /\ form = [t \in Tabs |-> NoForm]
    /\ chosen = {}
-----------------------------------------------------------------------------
\* Wrong variant: the ids of deleted rows are given out again.
NextIdLowest == CHOOSE i \in 1..MaxNode + 1 : i \notin Live /\ \A j \in 1..i - 1 : j \in Live

NextId == lastNode + 1

ProvisionNode(n) ==
    /\ \A i \in Live : node[i] # n
    /\ NextId <= MaxNode
    /\ node' = [node EXCEPT ![NextId] = n] /\ lastNode' = NextId
    /\ UNCHANGED <<group, lastGroup, form, chosen>>

\* The memberships go with the node.
DeleteNode(i) ==
    /\ i \in Live
    /\ node' = [node EXCEPT ![i] = NoName]
    /\ group' = [g \in 1..MaxGroup |-> [group[g] EXCEPT !.members = @ \ {i}]]
    /\ UNCHANGED <<lastNode, lastGroup, form, chosen>>
-----------------------------------------------------------------------------
\* Blanks around and inside a label are cleaned; what is left must not be empty.
CleanGroupName(l) == IF l = " a" THEN "a" ELSE l
Taken(name, g) == \E h \in Groups \ {g} : group[h].name = name

CreateNodeGroup(l) ==
    /\ CleanGroupName(l) # NoName /\ ~Taken(CleanGroupName(l), 0)
    /\ lastGroup < MaxGroup /\ lastGroup' = lastGroup + 1
    /\ group' = [group EXCEPT ![lastGroup + 1] = [name |-> CleanGroupName(l), members |-> {}]]
    /\ UNCHANGED <<node, lastNode, form, chosen>>

RenameNodeGroup(g, l) ==
    /\ g \in Groups
    /\ CleanGroupName(l) # NoName /\ ~Taken(CleanGroupName(l), g)
    /\ group' = [group EXCEPT ![g].name = CleanGroupName(l)]
    /\ UNCHANGED <<node, lastNode, lastGroup, form, chosen>>

DeleteNodeGroup(g) ==
    /\ g \in Groups
    /\ group' = [group EXCEPT ![g] = NoGroup]
    /\ UNCHANGED <<node, lastNode, lastGroup, form, chosen>>

\* The page lists the groups and nodes there are; the admin ticks some.
ListNodeGroups(t, g, ticked) ==
    /\ form[t] = NoForm /\ g \in Groups /\ ticked \subseteq Live
    /\ form' = [form EXCEPT ![t] = [group |-> g, ticked |-> ticked]]
    /\ chosen' = chosen \cup {<<g, i, node[i]>> : i \in ticked}
    /\ UNCHANGED <<node, group, lastNode, lastGroup>>

\* Nodes that are gone are ignored; a group that is gone is an error.
SetNodeGroupMembers(t) ==
    LET f == form[t] IN
    /\ f # NoForm /\ form' = [form EXCEPT ![t] = NoForm]
    /\ group' = IF f.group \notin Groups THEN group
                ELSE [group EXCEPT ![f.group].members = f.ticked \cap Live]
    /\ UNCHANGED <<node, lastNode, lastGroup, chosen>>

Next ==
    \/ \E n \in Names : ProvisionNode(n)
    \/ \E i \in 1..MaxNode : DeleteNode(i)
    \/ \E l \in Labels : CreateNodeGroup(l)
    \/ \E g \in 1..MaxGroup :
          \/ DeleteNodeGroup(g)
          \/ \E l \in Labels : RenameNodeGroup(g, l)
          \/ \E t \in Tabs, ticked \in SUBSET Live : ListNodeGroups(t, g, ticked)
    \/ \E t \in Tabs : SetNodeGroupMembers(t)

Spec == Init /\ [][Next]_vars
-----------------------------------------------------------------------------
\* A group holds only nodes that are there and that an admin put into this group
\* by this name: a form opened before a node or a group was deleted and made anew
\* does not take in its successor.
MembersChosen ==
    \A g \in 1..MaxGroup : \A i \in group[g].members :
       g \in Groups /\ i \in Live /\ <<g, i, node[i]>> \in chosen
=============================================================================
