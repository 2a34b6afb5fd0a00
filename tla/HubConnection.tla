--------------------------- MODULE HubConnection ---------------------------
(***************************************************************************)
(* The hub's side of one node's connections: the `connections` map, the    *)
(* consumer intervals, the handlers of each socket's events, the liveness  *)
(* sweep, the node's row in the allow-list and the offline alert.          *)
(*                                                                         *)
(* Node runs one callback at a time, so a callback is one action.  What    *)
(* interleaves is the order of callbacks: the hello of a new socket, the   *)
(* close or error event of an old one, a consumer tick, a sweep, the       *)
(* offline timer, and the Server Actions that provision, rotate, revoke    *)
(* or delete the node.                                                     *)
(***************************************************************************)
EXTENDS Naturals, FiniteSets

CONSTANTS Sockets,      \* the WebSocket objects that exist at one time
          NoSocket,     \* `connections` has no entry for the node
          MaxTokens,    \* how many tokens are ever issued for the node
          Graces,       \* what nodeOfflineGraceSeconds is set to, from time to time
          PromptClose,  \* a socket's close event precedes the next hello
          MayRestart    \* the controller process may restart

ASSUME SocketAssumption == NoSocket \notin Sockets
ASSUME BoundAssumption  == MaxTokens \in Nat /\ Graces \subseteq Nat /\ Graces # {}
ASSUME FlagAssumption   == PromptClose \in BOOLEAN /\ MayRestart \in BOOLEAN

VARIABLES
    ready,     \* readyState of a socket; a closed one is free to be reused
    bound,     \* sockets whose handler's `node` variable is set
    gone,      \* sockets whose peer has vanished without a FIN
    reg,       \* the node's entry in `connections`: socket, token, isAlive
    consumers, \* sockets whose 400 ms interval is running
    row,       \* the node's row: exists, allowed, token_hash, online
    tokens,    \* tokens issued so far; token k is the k-th
    timer,     \* an offline alert is pending
    alerted    \* history: alerted since the node was last registered

vars == <<ready, bound, gone, reg, consumers, row, tokens, timer, alerted>>

NoConn == [sock |-> NoSocket, token |-> 0, alive |-> FALSE]
NoRow  == [exists |-> FALSE, allowed |-> FALSE, token |-> 0, online |-> FALSE]

Init ==
    /\ ready = [s \in Sockets |-> "closed"]
    /\ bound = {} /\ gone = {}
    /\ reg = NoConn /\ consumers = {}
    /\ row = NoRow /\ tokens = 0
    /\ timer = FALSE /\ alerted = FALSE

\* verifyNodeAuth and nodeStillAuthorized
Authorized(token) == row.exists /\ row.allowed /\ row.token = token

Registered(s) == reg.sock = s

\* Wrong variant: the database row is not updated.
DeregisterQuietly ==
    /\ reg' = NoConn
    /\ consumers' = consumers \ {reg.sock}
    /\ timer' = TRUE
    /\ UNCHANGED <<row, alerted>>

\* Wrong variant: only the first disconnect schedules an alert, a second one
\* just cancels it.
DeregisterCancels ==
    /\ reg' = NoConn
    /\ consumers' = consumers \ {reg.sock}
    /\ row' = [row EXCEPT !.online = FALSE]
    /\ timer' = ~timer
    /\ UNCHANGED alerted

\* Wrong variant: the entry is emptied rather than deleted.
DeregisterHollow ==
    /\ reg' = [sock |-> NoSocket]
    /\ consumers' = consumers \ {reg.sock}
    /\ row' = [row EXCEPT !.online = FALSE]
    /\ timer' = TRUE
    /\ UNCHANGED alerted

\* deregisterNode: drops whatever is registered under the node's name.  With no
\* grace window the alert is sent at once (if there is a row left to name it).
Deregister ==
    /\ reg' = NoConn
    /\ consumers' = consumers \ {reg.sock}
    /\ row' = [row EXCEPT !.online = FALSE]
    /\ \E grace \in Graces :
         IF grace = 0
         THEN timer' = FALSE /\ alerted' = (alerted \/ row.exists)
         ELSE timer' = TRUE /\ UNCHANGED alerted
-----------------------------------------------------------------------------
(* Sockets.                                                                *)

Open(s) ==
    /\ ready[s] = "closed"
    /\ ready' = [ready EXCEPT ![s] = "open"]
    /\ bound' = bound \ {s} /\ gone' = gone \ {s}
    /\ UNCHANGED <<reg, consumers, row, tokens, timer, alerted>>

\* ws.close or ws.terminate, by whichever side: the close event comes later.
Closes(s) == ready' = [ready EXCEPT ![s] = IF @ = "open" THEN "closing" ELSE @]

\* A message of the peer: ws emits those that were on their way when this side
\* began to close, and the handler does not look at readyState.
Speaks(s) == ready[s] # "closed" /\ s \notin gone

\* A hello that does not authenticate, or whose node is connected already, is
\* refused.
HelloRefused(s) ==
    /\ Speaks(s) /\ s \notin bound
    /\ \/ \E token \in 1..tokens : ~Authorized(token)
       \/ reg.sock # NoSocket /\ ready[reg.sock] = "open"
    /\ Closes(s)
    /\ UNCHANGED <<bound, gone, reg, consumers, row, tokens, timer, alerted>>

\* Wrong variant: a newcomer always wins.
HelloSteals(s) ==
    /\ Speaks(s) /\ s \notin bound
    /\ \E token \in 1..tokens :
         /\ Authorized(token)
         /\ reg' = [sock |-> s, token |-> token, alive |-> TRUE]
    /\ consumers' = (consumers \ {reg.sock}) \cup {s}
    /\ bound' = bound \cup {s}
    /\ row' = [row EXCEPT !.online = TRUE]
    /\ timer' = FALSE /\ alerted' = FALSE
    /\ UNCHANGED <<ready, gone, tokens>>

\* Wrong variant: the superseded connection's interval keeps running.
HelloLeaksConsumer(s) ==
    /\ Speaks(s) /\ s \notin bound
    /\ reg.sock # NoSocket => ready[reg.sock] # "open"
    /\ \E token \in 1..tokens :
         /\ Authorized(token)
         /\ reg' = [sock |-> s, token |-> token, alive |-> TRUE]
    /\ consumers' = consumers \cup {s}
    /\ bound' = bound \cup {s}
    /\ row' = [row EXCEPT !.online = TRUE]
    /\ timer' = FALSE /\ alerted' = FALSE
    /\ UNCHANGED <<ready, gone, tokens>>

\* handleHello: a dead or closing connection is superseded, its interval
\* cleared; registerNode cancels the pending alert and marks the node online.
Hello(s) ==
    /\ Speaks(s) /\ s \notin bound
    /\ reg.sock # NoSocket => ready[reg.sock] # "open"
    /\ PromptClose => \A z \in bound : ready[z] = "closed"
    /\ \E token \in 1..tokens :
         /\ Authorized(token)
         /\ reg' = [sock |-> s, token |-> token, alive |-> TRUE]
    /\ consumers' = (consumers \ {reg.sock}) \cup {s}
    /\ bound' = bound \cup {s}
    /\ row' = [row EXCEPT !.online = TRUE]
    /\ timer' = FALSE /\ alerted' = FALSE
    /\ UNCHANGED <<ready, gone, tokens>>

\* No hello within HELLO_DEADLINE_MS.
HelloTimeout(s) ==
    /\ ready[s] = "open" /\ s \notin bound
    /\ Closes(s)
    /\ UNCHANGED <<bound, gone, reg, consumers, row, tokens, timer, alerted>>

\* The agent closes the connection, the hub does for flooding, or TCP reports it
\* broken.
Disconnect(s) ==
    /\ ready[s] = "open"
    /\ Closes(s)
    /\ UNCHANGED <<bound, gone, reg, consumers, row, tokens, timer, alerted>>

\* The peer vanishes and nobody tells the hub.
PeerVanishes(s) ==
    /\ ready[s] = "open" /\ s \notin gone
    /\ gone' = gone \cup {s}
    /\ UNCHANGED <<ready, bound, reg, consumers, row, tokens, timer, alerted>>

\* The "error" event, which precedes the "close" event of a broken socket.
ErrorEvent(s) ==
    /\ ready[s] = "closing" /\ s \in bound
    /\ Deregister
    /\ UNCHANGED <<ready, bound, gone, tokens>>

CloseEvent(s) ==
    /\ ready[s] = "closing"
    /\ ready' = [ready EXCEPT ![s] = "closed"]
    /\ IF s \in bound THEN Deregister
                      ELSE UNCHANGED <<reg, consumers, row, timer, alerted>>
    /\ UNCHANGED <<bound, gone, tokens>>
-----------------------------------------------------------------------------
(* Timers.                                                                 *)

\* Wrong variant: the revoked connection is forgotten but not closed.
TickForgets(s) ==
    /\ s \in consumers /\ ready[s] = "open" /\ Registered(s)
    /\ ~Authorized(reg.token)
    /\ Deregister
    /\ UNCHANGED <<ready, bound, gone, tokens>>

\* drainNode on a connection whose node was revoked, deleted or given another
\* token; an authorized one is fed (TaskDelivery) and nothing changes here.
TickRevoked(s) ==
    /\ s \in consumers /\ ready[s] = "open" /\ Registered(s)
    /\ ~Authorized(reg.token)
    /\ Closes(s)
    /\ Deregister
    /\ UNCHANGED <<bound, gone, tokens>>

\* Wrong variant: the sweep pings and never clears isAlive.
PingForever ==
    /\ reg.sock # NoSocket /\ reg.alive
    /\ UNCHANGED vars

\* The liveness sweep: ping ...
Ping ==
    /\ reg.sock # NoSocket /\ reg.alive
    /\ reg' = [reg EXCEPT !.alive = FALSE]
    /\ UNCHANGED <<ready, bound, gone, consumers, row, tokens, timer, alerted>>

\* ... and terminate a connection that missed its pong.
Terminate ==
    /\ reg.sock # NoSocket /\ ~reg.alive
    /\ Closes(reg.sock)
    /\ UNCHANGED <<bound, gone, reg, consumers, row, tokens, timer, alerted>>

Pong ==
    /\ reg.sock # NoSocket /\ ready[reg.sock] = "open" /\ reg.sock \notin gone
    /\ reg' = [reg EXCEPT !.alive = TRUE]
    /\ UNCHANGED <<ready, bound, gone, consumers, row, tokens, timer, alerted>>

\* The grace window is over.
OfflineTimer ==
    /\ timer
    /\ timer' = FALSE
    /\ alerted' = (alerted \/ (reg.sock = NoSocket /\ row.exists /\ ~row.online))
    /\ UNCHANGED <<ready, bound, gone, reg, consumers, row, tokens>>
-----------------------------------------------------------------------------
(* Server Actions, which reach the hub only through the database, and the  *)
(* restart of the controller.                                              *)

\* provisionNode and rotateNodeToken: a fresh token; online is kept.
Provision ==
    /\ tokens < MaxTokens
    /\ tokens' = tokens + 1
    /\ row' = [exists |-> TRUE, allowed |-> TRUE, token |-> tokens + 1,
               online |-> row.online]
    /\ UNCHANGED <<ready, bound, gone, reg, consumers, timer, alerted>>

Revoke ==
    /\ row.exists
    /\ row' = [row EXCEPT !.allowed = FALSE]
    /\ UNCHANGED <<ready, bound, gone, reg, consumers, tokens, timer, alerted>>

\* deleteNode, for a node without placements.
DeleteNode ==
    /\ row.exists
    /\ row' = NoRow
    /\ UNCHANGED <<ready, bound, gone, reg, consumers, tokens, timer, alerted>>

Restart ==
    /\ MayRestart
    /\ ready' = [s \in Sockets |-> "closed"]
    /\ bound' = {} /\ gone' = {}
    /\ reg' = NoConn /\ consumers' = {}
    /\ timer' = FALSE
    /\ UNCHANGED <<row, tokens, alerted>>
-----------------------------------------------------------------------------
SocketStep(s) ==
    \/ Open(s) \/ HelloRefused(s) \/ Hello(s) \/ HelloTimeout(s) \/ Disconnect(s)
    \/ PeerVanishes(s) \/ ErrorEvent(s) \/ CloseEvent(s) \/ TickRevoked(s)

Next ==
    \/ \E s \in Sockets : SocketStep(s)
    \/ Ping \/ Terminate \/ Pong \/ OfflineTimer
    \/ Provision \/ Revoke \/ DeleteNode \/ Restart

Spec == Init /\ [][Next]_vars

(* Fairness.  A closing socket emits its close event (ws destroys it after *)
(* 30 s at the latest), intervals and timeouts fire.  Nothing makes an     *)
(* agent dial, say hello or answer a ping.                                 *)
FairSpec ==
    /\ Spec
    /\ \A s \in Sockets : WF_vars(CloseEvent(s)) /\ WF_vars(TickRevoked(s))
    /\ WF_vars(Ping) /\ WF_vars(Terminate) /\ WF_vars(OfflineTimer)
-----------------------------------------------------------------------------
(* Properties.                                                             *)

SocketsOK ==
    /\ ready \in [Sockets -> {"closed", "open", "closing"}]
    /\ bound \subseteq Sockets /\ gone \subseteq Sockets

RegOK ==
    /\ reg \in [sock : Sockets \cup {NoSocket}, token : 0..MaxTokens, alive : BOOLEAN]
    /\ consumers \subseteq Sockets

RowOK ==
    /\ row \in [exists : BOOLEAN, allowed : BOOLEAN, token : 0..MaxTokens, online : BOOLEAN]
    /\ tokens \in 0..MaxTokens

AlertOK == timer \in BOOLEAN /\ alerted \in BOOLEAN

\* Every variable holds a value of its kind.
TypeOK == SocketsOK /\ RegOK /\ RowOK /\ AlertOK

\* The only interval that runs is the registered connection's: no superseded or
\* deregistered connection leaves one behind.
ConsumersMatch == consumers = IF reg.sock = NoSocket THEN {} ELSE {reg.sock}

\* Tokens in use are tokens that were issued.
TokensIssued == reg.token \in 0..tokens /\ row.token \in 0..tokens

\* With prompt close events, at most one authenticated socket is not closed yet.
SoleSocket ==
    \A y, z \in bound : ready[y] # "closed" /\ ready[z] # "closed" => y = z

\* An authenticated socket that is open is the registered one, so it is fed,
\* pinged, and dropped when its node is revoked.
LiveIsRegistered ==
    \A s \in bound : ready[s] = "open" => Registered(s)

RegisteredIsOnline == reg.sock # NoSocket /\ Authorized(reg.token) => row.online

StaleOnline == row.online /\ reg.sock = NoSocket

\* nodes.online is the truth about the hub's map of connections.  A registered
\* connection whose token is still good is shown online, and the row turns stale
\* (online without a connection) in no way but a restart of the controller, which
\* forgets the map and keeps the row until the node says hello again.
OnlineTruth ==
    []RegisteredIsOnline /\ [][StaleOnline' => StaleOnline \/ Restart]_vars

\* Admins are told a node is offline only while it has no open, authenticated
\* socket.
AlertJustified ==
    [][alerted' /\ ~alerted => \A s \in bound : ready'[s] # "open"]_vars

\* A revoke, a rotation or a deletion drops every socket of the node.
RevokeDropsSocket ==
    \A s \in Sockets :
       (s \in bound /\ ready[s] = "open" /\ ~row.allowed)
          ~> (ready[s] # "open" \/ row.allowed)

\* A peer that vanished does not keep the node's slot.
SlotIsFreed ==
    \A s \in Sockets : (Registered(s) /\ s \in gone) ~> ~Registered(s)

\* A disconnect is alerted unless the node comes back or is deleted in time.
DropIsAlerted ==
    (reg.sock = NoSocket /\ timer) ~> (alerted \/ reg.sock # NoSocket \/ ~row.exists)
=============================================================================
