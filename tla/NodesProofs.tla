---------------------------- MODULE NodesProofs ----------------------------
(***************************************************************************)
(* Proofs about the placements of the run of MCNodes.  What is proved      *)
(* about a placement in PlacementProofs is used three times, for the       *)
(* conditions under which MCNodes looks at one; the definitions of the two *)
(* instances of a module are the same once they are expanded.              *)
(***************************************************************************)
EXTENDS NodePartsProofs

HP == INSTANCE PlacementProofs WITH
            WithEmail <- OnlyPI, MaxSerial <- MaxHastySerial, Used <- AllOps, Hasty <- AllOps,
            Failures <- AllFailures, MaxCrashes <- 0
RP == INSTANCE PlacementProofs WITH
            WithEmail <- {}, MaxSerial <- MaxRowsSerial, Used <- AllOps \ {"retry"},
            Hasty <- {"add", "remove"}, Failures <- AllFailures \ {"recreateGone"}, MaxCrashes <- 0
OP == INSTANCE PlacementProofs WITH
            WithEmail <- Students, Used <- AllOps, Hasty <- {"retry", "add"}, Failures <- AllFailures,
            MaxCrashes <- 1

\* What PlacementProofs assumes of its constants, in the three instances.
LEMMA PlacementConstants ==
    /\ PI \in Students /\ OnlyPI \subseteq Students /\ Nobody \notin Students
    /\ HP!IsFiniteSet(Students) /\ RP!IsFiniteSet(Students) /\ OP!IsFiniteSet(Students)
    /\ MaxSerial \in Nat /\ MaxHastySerial \in Nat /\ MaxRowsSerial \in Nat
    /\ AllOps \subseteq HP!Ops /\ AllFailures \subseteq HP!AllFailures
    /\ AllOps \ {"retry"} \subseteq RP!Ops /\ {"add", "remove"} \subseteq RP!Ops
    /\ AllFailures \ {"recreateGone"} \subseteq RP!AllFailures
    /\ AllOps \subseteq OP!Ops /\ {"retry", "add"} \subseteq OP!Ops /\ AllFailures \subseteq OP!AllFailures
  BY PeopleAssumption, SerialAssumption
     DEF OnlyPI, IsFiniteSet, HP!IsFiniteSet, RP!IsFiniteSet, OP!IsFiniteSet, AllOps, AllFailures,
         HP!Ops, RP!Ops, OP!Ops, HP!AllFailures, RP!AllFailures, OP!AllFailures

\* The placement of part hasty is the one that PlacementProofs is about.
LEMMA HastyInit == PH!Init => HP!Init
  BY DEF PH!Init, HP!Init, PH!NoPlc, HP!NoPlc, PH!NoMembers, HP!NoMembers, PH!NoMember, HP!NoMember,
         PH!NoAccounts, HP!NoAccounts

\* Its steps are the steps that PlacementProofs is about,
LEMMA HastyNext == PH!Next => HP!Next
  BY DEF PH!Next, HP!Next, PH!CreatePlacement, HP!CreatePlacement, PH!RetryPlacement, HP!RetryPlacement,
         PH!RecreatePlacement, HP!RecreatePlacement, PH!DestroyPlacement, HP!DestroyPlacement,
         PH!ForceDeletePlacement, HP!ForceDeletePlacement, PH!AddStudent, HP!AddStudent,
         PH!RemoveStudent, HP!RemoveStudent, PH!RevealCredential, HP!RevealCredential, PH!RunTask,
         HP!RunTask, PH!HandleResult, HP!HandleResult, PH!MailDone, HP!MailDone, PH!Crash, HP!Crash,
         PH!CreateResult, HP!CreateResult, PH!DestroyResult, HP!DestroyResult, PH!AddResult,
         HP!AddResult, PH!OtherResult, HP!OtherResult, PH!CredentialMailed, HP!CredentialMailed,
         PH!CompletionMailed, HP!CompletionMailed, PH!MailFails, HP!MailFails, PH!Handling, HP!Handling,
         PH!Marked, HP!Marked, PH!CredentialMails, HP!CredentialMails, PH!Complete, HP!Complete,
         PH!CompletionMail, HP!CompletionMail, PH!Members, HP!Members, PH!MayIssue, HP!MayIssue,
         PH!Quiet, HP!Quiet, PH!Spend, HP!Spend, PH!NewMember, HP!NewMember, PH!NoMember, HP!NoMember,
         PH!NoMembers, HP!NoMembers, PH!NoPlc, HP!NoPlc, PH!NoAccounts, HP!NoAccounts, PH!FreshPw,
         HP!FreshPw, PH!AddTasks, HP!AddTasks, PH!Order, HP!Order, PH!SetToSeq, HP!SetToSeq,
         PH!IsInjective, HP!IsInjective, PH!Cardinality, HP!Cardinality, PH!Task, HP!Task, PH!LabTask,
         HP!LabTask, PH!CanWork, HP!CanWork, PH!After, HP!After, PH!Raises, HP!Raises, PH!Partly,
         HP!Partly, PH!LabCreated, HP!LabCreated, PH!ContainerRecreated, HP!ContainerRecreated,
         PH!LabDestroyed, HP!LabDestroyed, PH!StudentAdded, HP!StudentAdded, PH!StudentRemoved,
         HP!StudentRemoved, PH!FreshContainer, HP!FreshContainer, PH!NoContainer, HP!NoContainer,
         PH!ctl, HP!ctl, PH!pipe, HP!pipe, PH!hist, HP!hist

\* its variables are unchanged together,
LEMMA HastyVars == UNCHANGED placementVars => UNCHANGED HP!vars
  BY DEF placementVars, HP!vars, HP!ctl, HP!pipe, HP!hist

\* and its properties mean the same.
LEMMA HastySame ==
    /\ HP!TypeOK <=> PH!TypeOK
    /\ HP!NothingStuck <=> PH!NothingStuck
    /\ HP!ActiveIsProven <=> PH!ActiveIsProven
  BY DEF PH!TypeOK, HP!TypeOK, PH!Numbers, HP!Numbers, PH!Tasks, HP!Tasks, PH!NoMembers, HP!NoMembers,
         PH!NoMember, HP!NoMember, PH!NothingStuck, HP!NothingStuck, PH!ActiveIsProven,
         HP!ActiveIsProven, PH!Pending, HP!Pending, PH!Pipeline, HP!Pipeline

\* The placement of part rows is the one that PlacementProofs is about.
LEMMA RowsInit == PH!Init => RP!Init
  BY DEF PH!Init, RP!Init, PH!NoPlc, RP!NoPlc, PH!NoMembers, RP!NoMembers, PH!NoMember, RP!NoMember,
         PH!NoAccounts, RP!NoAccounts

\* Its steps are the steps that PlacementProofs is about,
LEMMA RowsNext == PR!Next => RP!Next
  BY DEF PR!Next, RP!Next, PR!CreatePlacement, RP!CreatePlacement, PR!RetryPlacement, RP!RetryPlacement,
         PR!RecreatePlacement, RP!RecreatePlacement, PR!DestroyPlacement, RP!DestroyPlacement,
         PR!ForceDeletePlacement, RP!ForceDeletePlacement, PR!AddStudent, RP!AddStudent,
         PR!RemoveStudent, RP!RemoveStudent, PR!RevealCredential, RP!RevealCredential, PR!RunTask,
         RP!RunTask, PR!HandleResult, RP!HandleResult, PR!MailDone, RP!MailDone, PR!Crash, RP!Crash,
         PR!CreateResult, RP!CreateResult, PR!DestroyResult, RP!DestroyResult, PR!AddResult,
         RP!AddResult, PR!OtherResult, RP!OtherResult, PR!CredentialMailed, RP!CredentialMailed,
         PR!CompletionMailed, RP!CompletionMailed, PR!MailFails, RP!MailFails, PR!Handling, RP!Handling,
         PR!Marked, RP!Marked, PR!CredentialMails, RP!CredentialMails, PR!Complete, RP!Complete,
         PR!CompletionMail, RP!CompletionMail, PR!Members, RP!Members, PR!MayIssue, RP!MayIssue,
         PR!Quiet, RP!Quiet, PR!Spend, RP!Spend, PR!NewMember, RP!NewMember, PR!NoMember, RP!NoMember,
         PR!NoMembers, RP!NoMembers, PR!NoPlc, RP!NoPlc, PR!NoAccounts, RP!NoAccounts, PR!FreshPw,
         RP!FreshPw, PR!AddTasks, RP!AddTasks, PR!Order, RP!Order, PR!SetToSeq, RP!SetToSeq,
         PR!IsInjective, RP!IsInjective, PR!Cardinality, RP!Cardinality, PR!Task, RP!Task, PR!LabTask,
         RP!LabTask, PR!CanWork, RP!CanWork, PR!After, RP!After, PR!Raises, RP!Raises, PR!Partly,
         RP!Partly, PR!LabCreated, RP!LabCreated, PR!ContainerRecreated, RP!ContainerRecreated,
         PR!LabDestroyed, RP!LabDestroyed, PR!StudentAdded, RP!StudentAdded, PR!StudentRemoved,
         RP!StudentRemoved, PR!FreshContainer, RP!FreshContainer, PR!NoContainer, RP!NoContainer,
         PR!ctl, RP!ctl, PR!pipe, RP!pipe, PR!hist, RP!hist

\* its variables are unchanged together,
LEMMA RowsVars == UNCHANGED placementVars => UNCHANGED RP!vars
  BY DEF placementVars, RP!vars, RP!ctl, RP!pipe, RP!hist

\* and its properties mean the same.
LEMMA RowsSame == RP!RowsMatchNode <=> PR!RowsMatchNode
  BY DEF PR!RowsMatchNode, RP!RowsMatchNode, PR!Quiet, RP!Quiet

\* The placement of part overlap is the one that PlacementProofs is about.
LEMMA OverlapInit == PH!Init => OP!Init
  BY DEF PH!Init, OP!Init, PH!NoPlc, OP!NoPlc, PH!NoMembers, OP!NoMembers, PH!NoMember, OP!NoMember,
         PH!NoAccounts, OP!NoAccounts

\* Its steps are the steps that PlacementProofs is about,
LEMMA OverlapNext == PO!Next => OP!Next
  BY DEF PO!Next, OP!Next, PO!CreatePlacement, OP!CreatePlacement, PO!RetryPlacement, OP!RetryPlacement,
         PO!RecreatePlacement, OP!RecreatePlacement, PO!DestroyPlacement, OP!DestroyPlacement,
         PO!ForceDeletePlacement, OP!ForceDeletePlacement, PO!AddStudent, OP!AddStudent,
         PO!RemoveStudent, OP!RemoveStudent, PO!RevealCredential, OP!RevealCredential, PO!RunTask,
         OP!RunTask, PO!HandleResult, OP!HandleResult, PO!MailDone, OP!MailDone, PO!Crash, OP!Crash,
         PO!CreateResult, OP!CreateResult, PO!DestroyResult, OP!DestroyResult, PO!AddResult,
         OP!AddResult, PO!OtherResult, OP!OtherResult, PO!CredentialMailed, OP!CredentialMailed,
         PO!CompletionMailed, OP!CompletionMailed, PO!MailFails, OP!MailFails, PO!Handling, OP!Handling,
         PO!Marked, OP!Marked, PO!CredentialMails, OP!CredentialMails, PO!Complete, OP!Complete,
         PO!CompletionMail, OP!CompletionMail, PO!Members, OP!Members, PO!MayIssue, OP!MayIssue,
         PO!Quiet, OP!Quiet, PO!Spend, OP!Spend, PO!NewMember, OP!NewMember, PO!NoMember, OP!NoMember,
         PO!NoMembers, OP!NoMembers, PO!NoPlc, OP!NoPlc, PO!NoAccounts, OP!NoAccounts, PO!FreshPw,
         OP!FreshPw, PO!AddTasks, OP!AddTasks, PO!Order, OP!Order, PO!SetToSeq, OP!SetToSeq,
         PO!IsInjective, OP!IsInjective, PO!Cardinality, OP!Cardinality, PO!Task, OP!Task, PO!LabTask,
         OP!LabTask, PO!CanWork, OP!CanWork, PO!After, OP!After, PO!Raises, OP!Raises, PO!Partly,
         OP!Partly, PO!LabCreated, OP!LabCreated, PO!ContainerRecreated, OP!ContainerRecreated,
         PO!LabDestroyed, OP!LabDestroyed, PO!StudentAdded, OP!StudentAdded, PO!StudentRemoved,
         OP!StudentRemoved, PO!FreshContainer, OP!FreshContainer, PO!NoContainer, OP!NoContainer,
         PO!ctl, OP!ctl, PO!pipe, OP!pipe, PO!hist, OP!hist

\* its variables are unchanged together,
LEMMA OverlapVars == UNCHANGED placementVars => UNCHANGED OP!vars
  BY DEF placementVars, OP!vars, OP!ctl, OP!pipe, OP!hist

\* and its properties mean the same.
LEMMA OverlapSame ==
    /\ OP!OnlyProvenDelivered <=> PO!OnlyProvenDelivered
    /\ OP!CredentialKept <=> PO!CredentialKept
    /\ OP!CompletionClaimed <=> PO!CompletionClaimed
  BY DEF PO!OnlyProvenDelivered, OP!OnlyProvenDelivered, PO!CredentialKept, OP!CredentialKept,
         PO!CompletionClaimed, OP!CompletionClaimed, PO!Quiet, OP!Quiet

HastyInv   == part = "hasty" => HP!ProvenInv /\ HP!NothingStuck
RowsInv    == part = "rows" => RP!RowsInv
OverlapInv == part = "overlap" => OP!CredentialInv /\ OP!Teardown

\* Placements in a hurry.
LEMMA HastyStep == HastyInv /\ [NodesNext]_allVars => HastyInv'
<1> SUFFICES ASSUME part = "hasty", HP!ProvenInv, HP!NothingStuck, [NodesNext]_allVars
             PROVE  HP!ProvenInv' /\ HP!NothingStuck'
  BY PartSteps DEF HastyInv
<1>1. HP!Next \/ UNCHANGED HP!vars
  BY PartSteps, HastyNext, HastyVars
<1>2. HP!TypeInv
  BY DEF HP!ProvenInv
<1>3. HP!ProvenInv'
  BY <1>1, PlacementConstants, HP!ProvenStep
<1>4. HP!NothingStuck'
  BY <1>1, <1>2, PlacementConstants, HP!StuckStep
<1> QED  BY <1>3, <1>4

\* Members added and removed in a hurry.
LEMMA RowsStep == RowsInv /\ [NodesNext]_allVars => RowsInv'
<1> SUFFICES ASSUME part = "rows", RP!RowsInv, [NodesNext]_allVars
             PROVE  RP!RowsInv'
  BY PartSteps DEF RowsInv
<1>1. RP!Next \/ UNCHANGED RP!vars
  BY PartSteps, RowsNext, RowsVars
<1>2. RP!Settled
  BY DEF RP!Settled
<1> QED  BY <1>1, <1>2, PlacementConstants, RP!RowsStep

\* Retries, students added in a hurry, and a crash.
LEMMA OverlapStep ==
    OverlapInv /\ [NodesNext]_allVars =>
       OverlapInv' /\ (part = "overlap" /\ plc.state = "deleting" => plc'.state \in {"deleting", "none"})
<1> SUFFICES ASSUME part = "overlap", OP!CredentialInv, OP!Teardown, [NodesNext]_allVars
             PROVE  /\ OP!CredentialInv' /\ OP!Teardown'
                    /\ plc.state = "deleting" => plc'.state \in {"deleting", "none"}
  BY PartSteps DEF OverlapInv
<1>1. OP!Next \/ UNCHANGED OP!vars
  BY PartSteps, OverlapNext, OverlapVars
<1>2. OP!Careful
  BY DEF OP!Careful
<1>3. OP!TypeInv
  BY DEF OP!CredentialInv
<1>4. OP!CredentialInv'
  BY <1>1, <1>2, PlacementConstants, OP!CredentialStep
<1>5. OP!Teardown' /\ (plc.state = "deleting" => plc'.state \in {"deleting", "none"})
  BY <1>1, <1>2, <1>3, PlacementConstants, OP!TeardownStep
<1> QED  BY <1>4, <1>5

PlacementsInv == HastyInv /\ RowsInv /\ OverlapInv

\* The invariants of the three placements hold at first.
LEMMA PlacementsInit == NodesInit => PlacementsInv
<1> SUFFICES ASSUME NodesInit
             PROVE  PlacementsInv
  OBVIOUS
<1>0. HP!Init /\ RP!Init /\ OP!Init
  BY HastyInit, RowsInit, OverlapInit DEF NodesInit
<1>1. HP!ProvenInv
  BY <1>0, PlacementConstants, HP!ProvenInit
<1>2. HP!NothingStuck
  BY <1>0, PlacementConstants, HP!StuckInit
<1>3. RP!RowsInv
  BY <1>0, PlacementConstants, RP!RowsInit
<1>4. OP!CredentialInv
  BY <1>0, PlacementConstants, OP!CredentialInit
<1>5. OP!Teardown
  BY <1>0, PlacementConstants, OP!TeardownInit
<1> QED  BY <1>1, <1>2, <1>3, <1>4, <1>5 DEF PlacementsInv, HastyInv, RowsInv, OverlapInv

\* They hold throughout, and imply what the run checks.
LEMMA PlacementsHold ==
    /\ PlacementsInv /\ [NodesNext]_allVars => PlacementsInv'
    /\ PlacementsInv => NothingStuck /\ ActiveIsProven /\ RowsMatchNode /\ OnlyProvenDelivered /\ CredentialKept
<1>1. PlacementsInv /\ [NodesNext]_allVars => PlacementsInv'
  BY HastyStep, RowsStep, OverlapStep DEF PlacementsInv
<1>2. PlacementsInv => NothingStuck /\ ActiveIsProven
  <2> SUFFICES ASSUME PlacementsInv, part = "hasty"
               PROVE  PH!TypeOK /\ PH!NothingStuck /\ PH!ActiveIsProven
    BY DEF NothingStuck, ActiveIsProven
  <2>1. HP!TypeOK /\ HP!NothingStuck /\ HP!ActiveIsProven
    BY DEF PlacementsInv, HastyInv, HP!ProvenInv, HP!TypeInv
  <2> QED  BY <2>1, HastySame
<1>3. PlacementsInv => RowsMatchNode
  <2> SUFFICES ASSUME PlacementsInv, part = "rows"
               PROVE  PR!RowsMatchNode
    BY DEF RowsMatchNode
  <2>1. RP!RowsMatchNode
    BY PlacementConstants, RP!RowsMatch DEF PlacementsInv, RowsInv
  <2> QED  BY <2>1, RowsSame
<1>4. PlacementsInv => OnlyProvenDelivered /\ CredentialKept
  <2> SUFFICES ASSUME PlacementsInv, part = "overlap"
               PROVE  PO!OnlyProvenDelivered /\ PO!CredentialKept /\ PO!CompletionClaimed
    BY DEF OnlyProvenDelivered, CredentialKept
  <2>1. OP!OnlyProvenDelivered /\ OP!CredentialKept /\ OP!CompletionClaimed
    BY DEF PlacementsInv, OverlapInv, OP!CredentialInv, OP!Placed, OP!CredentialKept
  <2> QED  BY <2>1, OverlapSame
<1> QED  BY <1>1, <1>2, <1>3, <1>4

\* A row that waits has its task under way: for any lab and any number of tasks,
\* however the operations overlap.
THEOREM NothingIsStuck == NodesSpec => []NothingStuck
  BY PlacementsInit, PlacementsHold, PTL DEF NodesSpec

\* An active member whose tasks are answered has logged in with the latest password.
THEOREM ActiveMembersLogIn == NodesSpec => []ActiveIsProven
  BY PlacementsInit, PlacementsHold, PTL DEF NodesSpec

\* Once nothing is under way, an active placement is on the node as its rows say.
THEOREM RowsAgreeWithNode == NodesSpec => []RowsMatchNode
  BY PlacementsInit, PlacementsHold, PTL DEF NodesSpec

\* Only a password the node has logged in with is mailed or revealed.
THEOREM DeliveredPasswordsWork == NodesSpec => []OnlyProvenDelivered
  BY PlacementsInit, PlacementsHold, PTL DEF NodesSpec

\* The latest password of an active member is never lost.
THEOREM CredentialsAreKept == NodesSpec => []CredentialKept
  BY PlacementsInit, PlacementsHold, PTL DEF NodesSpec

\* A placement that is being torn down is not revived.
THEOREM TeardownIsFinal == NodesSpec => DeletingStays
<1>1. PlacementsInv /\ [NodesNext]_allVars =>
         [part = "overlap" /\ plc.state = "deleting" => plc'.state \in {"deleting", "none"}]_placementVars
  BY OverlapStep DEF PlacementsInv
<1> QED  BY <1>1, PlacementsInit, PlacementsHold, PTL DEF NodesSpec, DeletingStays
============================================================================
