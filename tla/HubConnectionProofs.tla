------------------------ MODULE HubConnectionProofs ------------------------
(***************************************************************************)
(* Proofs about HubConnection, for any number of sockets and tokens.       *)
(*                                                                         *)
(* TypeOK /\ ConsumersMatch /\ TokensIssued is inductive as it stands.     *)
(* RegisteredIsOnline is inductive relative to it, and LiveIsRegistered,   *)
(* with SoleSocket, if close events are prompt.                            *)
(***************************************************************************)
EXTENDS HubConnection, TLAPS

Basic == TypeOK /\ ConsumersMatch /\ TokensIssued

OnlineKept == RegisteredIsOnline' /\ (StaleOnline' => StaleOnline \/ Restart)

\* The initial state satisfies every invariant.
LEMMA InitOK == Init => Basic /\ RegisteredIsOnline /\ LiveIsRegistered /\ SoleSocket
  <1> SUFFICES ASSUME Init
               PROVE  Basic /\ RegisteredIsOnline /\ LiveIsRegistered /\ SoleSocket
    OBVIOUS
  <1> USE BoundAssumption, SocketAssumption DEF Init, NoConn, NoRow
  <1>1. SocketsOK
    BY DEF SocketsOK
  <1>2. RegOK
    BY DEF RegOK
  <1>3. RowOK
    BY DEF RowOK
  <1>4. AlertOK
    BY DEF AlertOK
  <1>5. ConsumersMatch /\ TokensIssued
    BY DEF ConsumersMatch, TokensIssued
  <1>6. RegisteredIsOnline /\ LiveIsRegistered /\ SoleSocket
    BY DEF RegisteredIsOnline, LiveIsRegistered, SoleSocket
  <1> QED
    BY <1>1, <1>2, <1>3, <1>4, <1>5, <1>6 DEF Basic, TypeOK

\* deregisterNode keeps the map, the intervals and the row consistent.
LEMMA DeregisterOK ==
  ASSUME Basic, Deregister, tokens' = tokens,
         ready' \in [Sockets -> {"closed", "open", "closing"}],
         bound' \subseteq Sockets, gone' \subseteq Sockets
  PROVE  Basic' /\ OnlineKept
  <1> USE BoundAssumption, SocketAssumption
      DEF Basic, TypeOK, SocketsOK, RegOK, RowOK, AlertOK, Deregister, NoConn
  <1>1. reg'.sock = NoSocket /\ reg'.token = 0 /\ row'.online = FALSE /\ row'.token = row.token
    OBVIOUS
  <1>2. consumers' = {}
    BY DEF ConsumersMatch
  <1>3. AlertOK'
    <2>1. CASE timer' = FALSE
      BY <2>1 DEF AlertOK
    <2>2. CASE timer' = TRUE
      BY <2>2 DEF AlertOK
    <2> QED
      BY <2>1, <2>2
  <1>4. TypeOK'
    <2>1. SocketsOK'
      BY DEF SocketsOK
    <2>2. RegOK'
      BY <1>2 DEF RegOK
    <2>3. RowOK'
      BY DEF RowOK
    <2> QED
      BY <1>3, <2>1, <2>2, <2>3
  <1>5. ConsumersMatch'
    BY <1>1, <1>2 DEF ConsumersMatch
  <1>6. TokensIssued'
    BY <1>1 DEF TokensIssued
  <1>7. OnlineKept
    BY <1>1 DEF OnlineKept, RegisteredIsOnline, StaleOnline
  <1> QED
    BY <1>4, <1>5, <1>6, <1>7

\* A step that only moves sockets keeps the basic invariant.
LEMMA SocketsOnly ==
  ASSUME Basic, SocketsOK', UNCHANGED <<reg, consumers, row, tokens, timer, alerted>>
  PROVE  Basic'
  BY DEF Basic, TypeOK, RegOK, RowOK, AlertOK, ConsumersMatch, TokensIssued

\* Every step keeps the basic invariant.
LEMMA BasicStep == Basic /\ [Next]_vars => Basic'
  <1> SUFFICES ASSUME Basic, [Next]_vars PROVE Basic'
    OBVIOUS
  <1> USE BoundAssumption, SocketAssumption
  <1>1. ASSUME NEW s \in Sockets, SocketStep(s) PROVE Basic'
    <2>1. CASE Open(s)
      BY <2>1, SocketsOnly DEF Open, Basic, TypeOK, SocketsOK
    <2>2. CASE HelloRefused(s)
      BY <2>2, SocketsOnly DEF HelloRefused, Closes, Basic, TypeOK, SocketsOK
    <2>3. CASE Hello(s)
      <3> USE <2>3 DEF Hello, Basic, TypeOK
      <3>1. PICK token \in 1..tokens : reg' = [sock |-> s, token |-> token, alive |-> TRUE]
        OBVIOUS
      <3>2. consumers' = {s}
        BY DEF ConsumersMatch
      <3>3. reg'.sock = s /\ reg'.token = token /\ s # NoSocket
        BY <3>1
      <3>4. TypeOK'
        <4>1. SocketsOK'
          BY DEF SocketsOK
        <4>2. RegOK'
          BY <3>1, <3>2 DEF RegOK, RowOK
        <4>3. RowOK'
          BY DEF RowOK
        <4>4. AlertOK'
          BY DEF AlertOK
        <4> QED
          BY <4>1, <4>2, <4>3, <4>4
      <3>5. ConsumersMatch'
        BY <3>2, <3>3 DEF ConsumersMatch
      <3>6. TokensIssued'
        BY <3>3 DEF TokensIssued
      <3> QED
        BY <3>4, <3>5, <3>6
    <2>4. CASE HelloTimeout(s)
      BY <2>4, SocketsOnly DEF HelloTimeout, Closes, Basic, TypeOK, SocketsOK
    <2>5. CASE Disconnect(s)
      BY <2>5, SocketsOnly DEF Disconnect, Closes, Basic, TypeOK, SocketsOK
    <2>6. CASE PeerVanishes(s)
      BY <2>6, SocketsOnly DEF PeerVanishes, Basic, TypeOK, SocketsOK
    <2>7. CASE ErrorEvent(s)
      BY <2>7, DeregisterOK DEF ErrorEvent, Basic, TypeOK, SocketsOK
    <2>8. CASE CloseEvent(s)
      <3>1. CASE s \in bound
        BY <2>8, <3>1, DeregisterOK DEF CloseEvent, Basic, TypeOK, SocketsOK
      <3>2. CASE s \notin bound
        BY <2>8, <3>2, SocketsOnly DEF CloseEvent, Basic, TypeOK, SocketsOK
      <3> QED
        BY <3>1, <3>2
    <2>9. CASE TickRevoked(s)
      BY <2>9, DeregisterOK DEF TickRevoked, Closes, Basic, TypeOK, SocketsOK
    <2> QED
      BY <1>1, <2>1, <2>2, <2>3, <2>4, <2>5, <2>6, <2>7, <2>8, <2>9 DEF SocketStep
  <1>2. CASE Ping
    BY <1>2
    DEF Ping, Basic, TypeOK, SocketsOK, RegOK, RowOK, AlertOK, ConsumersMatch, TokensIssued
  <1>3. CASE Terminate
    BY <1>3, SocketsOnly DEF Terminate, Closes, Basic, TypeOK, SocketsOK
  <1>4. CASE Pong
    BY <1>4
    DEF Pong, Basic, TypeOK, SocketsOK, RegOK, RowOK, AlertOK, ConsumersMatch, TokensIssued
  <1>5. CASE OfflineTimer
    <2>1. AlertOK'
      BY <1>5 DEF OfflineTimer, AlertOK
    <2>2. UNCHANGED <<ready, bound, gone, reg, consumers, row, tokens>>
      BY <1>5 DEF OfflineTimer
    <2> QED
      BY <2>1, <2>2 DEF Basic, TypeOK, SocketsOK, RegOK, RowOK, ConsumersMatch, TokensIssued
  <1>6. CASE Provision
    BY <1>6
    DEF Provision, Basic, TypeOK, SocketsOK, RegOK, RowOK, AlertOK, ConsumersMatch, TokensIssued
  <1>7. CASE Revoke
    BY <1>7
    DEF Revoke, Basic, TypeOK, SocketsOK, RegOK, RowOK, AlertOK, ConsumersMatch, TokensIssued
  <1>8. CASE DeleteNode
    <2>1. /\ row' = NoRow
          /\ UNCHANGED <<ready, bound, gone, reg, consumers, tokens, timer, alerted>>
      BY <1>8 DEF DeleteNode
    <2>2. RowOK'
      BY <2>1 DEF RowOK, NoRow, Basic, TypeOK
    <2>3. TokensIssued' /\ ConsumersMatch'
      BY <2>1 DEF NoRow, Basic, TypeOK, TokensIssued, ConsumersMatch, RowOK
    <2> QED
      BY <2>1, <2>2, <2>3 DEF Basic, TypeOK, SocketsOK, RegOK, AlertOK
  <1>9. CASE Restart
    <2> USE <1>9 DEF Restart, NoConn, Basic, TypeOK
    <2>1. SocketsOK'
      BY DEF SocketsOK
    <2>2. RegOK'
      BY DEF RegOK
    <2>3. RowOK' /\ AlertOK'
      BY DEF RowOK, AlertOK
    <2>4. ConsumersMatch' /\ TokensIssued'
      BY DEF ConsumersMatch, TokensIssued, RowOK
    <2> QED
      BY <2>1, <2>2, <2>3, <2>4
  <1>10. CASE UNCHANGED vars
    BY <1>10, SocketsOnly DEF vars, Basic, TypeOK, SocketsOK
  <1> QED
    BY <1>1, <1>2, <1>3, <1>4, <1>5, <1>6, <1>7, <1>8, <1>9, <1>10 DEF Next

LEMMA BasicHolds == Spec => []Basic
  BY InitOK, BasicStep, PTL DEF Spec

\* Every variable of the hub keeps a value of its kind.
THEOREM TypeCorrect == Spec => []TypeOK
  <1>1. Basic => TypeOK
    BY DEF Basic
  <1> QED
    BY <1>1, BasicHolds, PTL

\* However hellos, close events, ticks and sweeps interleave, the only interval
\* that runs is the registered connection's: handleHello and deregisterNode
\* never leave one behind.
THEOREM NoLeakedConsumer == Spec => []ConsumersMatch
  <1>1. Basic => ConsumersMatch
    BY DEF Basic
  <1> QED
    BY <1>1, BasicHolds, PTL
-----------------------------------------------------------------------------
\* A step keeps registered connections online and, unless it is a restart, leaves
\* no row online without a connection that was not so before.
LEMMA OnlineStep ==
  ASSUME Basic, RegisteredIsOnline, [Next]_vars
  PROVE  OnlineKept
  <1> USE BoundAssumption, SocketAssumption
  <1>1. ASSUME UNCHANGED <<reg, row>> PROVE OnlineKept
    BY <1>1 DEF OnlineKept, RegisteredIsOnline, StaleOnline, Authorized
  <1>2. ASSUME NEW s \in Sockets, SocketStep(s) PROVE OnlineKept
    <2>1. CASE Open(s) \/ HelloRefused(s) \/ HelloTimeout(s) \/ Disconnect(s) \/ PeerVanishes(s)
      BY <1>1, <2>1 DEF Open, HelloRefused, HelloTimeout, Disconnect, PeerVanishes
    <2>2. CASE Hello(s)
      <3>1. reg'.sock = s
        BY <2>2 DEF Hello
      <3>2. row'.online
        BY <2>2 DEF Hello, Basic, TypeOK, RowOK
      <3> QED
        BY <3>1, <3>2 DEF OnlineKept, RegisteredIsOnline, StaleOnline
    <2>3. CASE ErrorEvent(s)
      BY <2>3, DeregisterOK DEF ErrorEvent, Basic, TypeOK, SocketsOK
    <2>4. CASE CloseEvent(s)
      <3>1. CASE s \in bound
        BY <2>4, <3>1, DeregisterOK DEF CloseEvent, Basic, TypeOK, SocketsOK
      <3>2. CASE s \notin bound
        BY <1>1, <2>4, <3>2 DEF CloseEvent
      <3> QED
        BY <3>1, <3>2
    <2>5. CASE TickRevoked(s)
      BY <2>5, DeregisterOK DEF TickRevoked, Closes, Basic, TypeOK, SocketsOK
    <2> QED
      BY <1>2, <2>1, <2>2, <2>3, <2>4, <2>5 DEF SocketStep
  <1>3. CASE Ping \/ Pong
    BY <1>3 DEF Ping, Pong, OnlineKept, RegisteredIsOnline, StaleOnline, Authorized, Basic, TypeOK, RegOK, RowOK
  <1>4. CASE Terminate \/ OfflineTimer
    BY <1>1, <1>4 DEF Terminate, OfflineTimer
  <1>5. CASE Provision
    BY <1>5
    DEF Provision, OnlineKept, RegisteredIsOnline, StaleOnline, Authorized, Basic, TypeOK, RegOK, RowOK, TokensIssued
  <1>6. CASE Revoke
    BY <1>6 DEF Revoke, OnlineKept, RegisteredIsOnline, StaleOnline, Authorized, Basic, TypeOK, RegOK, RowOK
  <1>7. CASE DeleteNode
    BY <1>7 DEF DeleteNode, NoRow, OnlineKept, RegisteredIsOnline, StaleOnline, Authorized, Basic, TypeOK
  <1>8. CASE Restart
    BY <1>8 DEF Restart, NoConn, OnlineKept, RegisteredIsOnline
  <1>9. CASE UNCHANGED vars
    BY <1>1, <1>9 DEF vars
  <1> QED
    BY <1>2, <1>3, <1>4, <1>5, <1>6, <1>7, <1>8, <1>9 DEF Next

\* nodes.online tells the truth about the hub's map while the controller lives,
\* even when late close events remove the wrong connection, tokens are rotated, or
\* the node is deleted and provisioned again under a live socket; a restart is the
\* one step that leaves a row online without a connection.
THEOREM OnlineIsTrue == Spec => OnlineTruth
  <1>1. Basic /\ RegisteredIsOnline /\ [Next]_vars => RegisteredIsOnline'
    BY OnlineStep DEF OnlineKept
  <1>2. Basic /\ RegisteredIsOnline /\ [Next]_vars =>
          [StaleOnline' => StaleOnline \/ Restart]_vars
    BY OnlineStep DEF OnlineKept
  <1> QED
    BY <1>1, <1>2, InitOK, BasicHolds, PTL DEF Spec, OnlineTruth
-----------------------------------------------------------------------------
Sole == SoleSocket /\ LiveIsRegistered

\* A deregistration caused by the one socket that is not closed yet leaves no
\* open authenticated socket behind.
LEMMA DropOK ==
  ASSUME Basic, Sole, NEW s \in bound, ready[s] # "closed", bound' = bound,
         ready' \in {[ready EXCEPT ![s] = "closing"], [ready EXCEPT ![s] = "closed"]}
  PROVE  Sole' /\ \A z \in bound : ready'[z] # "open"
  BY SocketAssumption DEF Basic, TypeOK, SocketsOK, Sole, SoleSocket,
          LiveIsRegistered, Registered

\* Nothing that leaves the map alone and opens no authenticated socket matters.
LEMMA QuietOK ==
  ASSUME Basic, Sole, bound' \subseteq bound, reg'.sock = reg.sock,
         \A z \in bound' : ready'[z] = ready[z] \/ (ready[z] = "open" /\ ready'[z] = "closing")
  PROVE  Sole'
  BY DEF Basic, TypeOK, SocketsOK, Sole, SoleSocket,
          LiveIsRegistered, Registered

LEMMA SoleStep == PromptClose /\ Basic /\ Sole /\ [Next]_vars => Sole'
  <1> SUFFICES ASSUME PromptClose, Basic, Sole, [Next]_vars PROVE Sole'
    OBVIOUS
  <1>1. ASSUME NEW s \in Sockets, SocketStep(s) PROVE Sole'
    <2>1. CASE Open(s) \/ HelloRefused(s) \/ HelloTimeout(s) \/ Disconnect(s) \/ PeerVanishes(s)
      BY <2>1, QuietOK
      DEF Open, HelloRefused, HelloTimeout, Disconnect, PeerVanishes, Closes, Basic,
          TypeOK, SocketsOK
    <2>2. CASE Hello(s)
      <3>1. \A z \in bound : ready[z] = "closed"
        BY <2>2 DEF Hello
      <3>2. reg'.sock = s /\ bound' = bound \cup {s} /\ ready' = ready
        BY <2>2 DEF Hello
      <3> QED
        BY <3>1, <3>2 DEF Sole, SoleSocket, LiveIsRegistered, Registered
    <2>3. CASE ErrorEvent(s)
      <3>1. s \in bound /\ ready[s] = "closing" /\ ready' = ready /\ bound' = bound
        BY <2>3 DEF ErrorEvent
      <3>2. ready' = [ready EXCEPT ![s] = "closing"]
        BY <3>1 DEF Basic, TypeOK, SocketsOK
      <3> QED
        BY <3>1, <3>2, DropOK
    <2>4. CASE CloseEvent(s)
      <3>1. CASE s \in bound
        BY <2>4, <3>1, DropOK DEF CloseEvent
      <3>2. CASE s \notin bound
        BY <2>4, <3>2, QuietOK DEF CloseEvent, Basic, TypeOK, SocketsOK
      <3> QED
        BY <3>1, <3>2
    <2>5. CASE TickRevoked(s)
      <3>1. ready[s] = "open" /\ bound' = bound /\ ready' = [ready EXCEPT ![s] = "closing"]
        BY <2>5 DEF TickRevoked, Closes, Basic, TypeOK, SocketsOK
      <3>2. CASE s \in bound
        BY <3>1, <3>2, DropOK
      <3>3. CASE s \notin bound
        <4>1. reg.sock = s
          BY <2>5 DEF TickRevoked, Registered
        <4> QED
          BY <3>1, <3>3, <4>1 DEF Basic, TypeOK, SocketsOK, Sole, SoleSocket,
          LiveIsRegistered, Registered
      <3> QED
        BY <3>2, <3>3
    <2> QED
      BY <1>1, <2>1, <2>2, <2>3, <2>4, <2>5 DEF SocketStep
  <1>2. CASE Ping \/ Pong \/ Terminate
    BY <1>2, QuietOK DEF Ping, Pong, Terminate, Closes, Basic, TypeOK, SocketsOK, RegOK
  <1>3. CASE OfflineTimer \/ Provision \/ Revoke \/ DeleteNode
    BY <1>3, QuietOK DEF OfflineTimer, Provision, Revoke, DeleteNode
  <1>4. CASE Restart
    BY <1>4 DEF Restart, Sole, SoleSocket, LiveIsRegistered
  <1>5. CASE UNCHANGED vars
    BY <1>5, QuietOK DEF vars
  <1> QED
    BY <1>1, <1>2, <1>3, <1>4, <1>5 DEF Next

LEMMA SoleHolds == PromptClose /\ Spec => []Sole
  <1>1. SUFFICES ASSUME PromptClose PROVE Spec => []Sole
    OBVIOUS
  <1>2. Basic /\ Sole /\ [Next]_vars => Sole'
    BY <1>1, SoleStep
  <1>3. Init => Sole
    BY InitOK DEF Sole
  <1> QED
    BY <1>2, <1>3, BasicHolds, PTL DEF Spec

\* If close events are prompt, an open authenticated socket is the registered
\* one, across refusals, revocations, sweeps and restarts.
THEOREM LiveSocketsAreRegistered == PromptClose /\ Spec => []LiveIsRegistered
  <1>1. Sole => LiveIsRegistered
    BY DEF Sole
  <1> QED
    BY <1>1, SoleHolds, PTL

\* The step that sends an alert leaves no open authenticated socket.
LEMMA AlertStep ==
  ASSUME PromptClose, Basic, Sole, [Next]_vars, alerted', ~alerted
  PROVE  \A z \in bound : ready'[z] # "open"
  <1> USE SocketAssumption
  <1>1. ASSUME NEW s \in Sockets, SocketStep(s) PROVE \A z \in bound : ready'[z] # "open"
    <2>1. CASE ErrorEvent(s)
      <3>1. s \in bound /\ ready[s] = "closing" /\ ready' = ready /\ bound' = bound
        BY <2>1 DEF ErrorEvent
      <3>2. ready' = [ready EXCEPT ![s] = "closing"]
        BY <3>1 DEF Basic, TypeOK, SocketsOK
      <3> QED
        BY <3>1, <3>2, DropOK
    <2>2. CASE CloseEvent(s)
      <3>1. s \in bound
        BY <2>2 DEF CloseEvent
      <3> QED
        BY <2>2, <3>1, DropOK DEF CloseEvent
    <2>3. CASE TickRevoked(s)
      <3>1. ready[s] = "open" /\ bound' = bound /\ ready' = [ready EXCEPT ![s] = "closing"]
        BY <2>3 DEF TickRevoked, Closes, Basic, TypeOK, SocketsOK
      <3>2. CASE s \in bound
        BY <3>1, <3>2, DropOK
      <3>3. CASE s \notin bound
        <4>1. reg.sock = s
          BY <2>3 DEF TickRevoked, Registered
        <4> QED
          BY <3>1, <3>3, <4>1 DEF Basic, TypeOK, SocketsOK, Sole, SoleSocket,
          LiveIsRegistered, Registered
      <3> QED
        BY <3>2, <3>3
    <2> QED
      BY <1>1, <2>1, <2>2, <2>3
      DEF SocketStep, Open, HelloRefused, Hello, HelloTimeout, Disconnect, PeerVanishes
  <1>2. CASE OfflineTimer
    BY <1>2 DEF OfflineTimer, Basic, TypeOK, SocketsOK, Sole, LiveIsRegistered, Registered
  <1> QED
    BY <1>1, <1>2
    DEF Next, vars, Ping, Terminate, Pong, Provision, Revoke, DeleteNode, Restart

\* With prompt close events admins are never paged about a node that has an
\* open, authenticated socket, whatever the grace window.
THEOREM AlertsAreJustified == PromptClose /\ Spec => AlertJustified
  <1>1. SUFFICES ASSUME PromptClose PROVE Spec => AlertJustified
    OBVIOUS
  <1>2. Basic /\ Sole /\ [Next]_vars =>
          [alerted' /\ ~alerted => \A s \in bound : ready'[s] # "open"]_vars
    BY <1>1, AlertStep
  <1>3. Spec => []Sole
    BY <1>1, SoleHolds
  <1> QED
    BY <1>2, <1>3, BasicHolds, PTL DEF Spec, AlertJustified
=============================================================================
