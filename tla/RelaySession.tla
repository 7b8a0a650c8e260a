---------------------------- MODULE RelaySession ----------------------------
(***************************************************************************)
(* The relay's connections: agent admission, App pairing, the registry of  *)
(* which connection serves a device, and the forwarding of the App-Agent   *)
(* E2E handshake and of the frames it protects.                            *)
(*                                                                         *)
(* The relay is one Node process: a handler runs to its end before the     *)
(* next frame is looked at, so every handler is one action.  A handler is  *)
(* an operator over the connection the frame arrived on and the frame; it  *)
(* appends what it sends to down.  Next lets any client send anything in   *)
(* any order; PairingSystem composes the same handlers with the programs   *)
(* that really sit at the other ends.                                      *)
(*                                                                         *)
(* sock[c] is "open" exactly while c is in RuntimeTopology.connections.    *)
(* When the relay itself closes a socket it half-closes it ("ending"):     *)
(* WebSocketConnection.handleData goes on dispatching the frames that were *)
(* under way until the client's own close arrives ("closed").              *)
(***************************************************************************)
EXTENDS Wire

VARIABLES
  sock,        \* the socket: "unused", "open", "ending", "closed"
  role,        \* RelayConnection.role
  state,       \* RelayConnection.state
  authState,   \* RelayConnection.authState
  authed,      \* RelayConnection.authenticated
  primary,     \* RuntimeTopology.primaryAgentByDevice
  agents,      \* RuntimeTopology.agentsByDevice
  mobiles,     \* RuntimeTopology.mobilesByDevice
  pending,     \* pendingAuth: the agent connection named in the challenge
  hs,          \* RelayConnection.e2eHandshakeId
  th,          \* RelayConnection.e2eTranscriptHash
  sid,         \* RelayConnection.e2eSessionId
  peer         \* RelayConnection.agentE2EPeers

authVars  == <<role, authState, authed>>
topoVars  == <<primary, agents, mobiles>>
e2eVars   == <<hs, th, sid, peer>>
relayVars == <<sock, role, state, authState, authed, primary, agents, mobiles,
               pending, hs, th, sid, peer>>

SocketStates == {"unused", "open", "ending", "closed"}
Roles == {"unknown", "agent", "mobile"}
E2EStates == {"relay_pairing_verified", "e2e_handshaking", "e2e_ready"}
ConnectionStates ==
  {"socket_connected", "registered_agent", "mobile_connected", "closed"}
    \cup E2EStates
AuthStates == {"none", "pending", "verified", "failed"}

\* An entry of agentE2EPeers.  state "none" stands for no entry.
Peers == [state : {"none", "handshaking", "ready"}, hs : AppConns \cup {None},
          th : AgentConns \cup {None}, sid : AgentConns \cup {None}]
NoPeer == [state |-> "none", hs |-> None, th |-> None, sid |-> None]

RelayTypeOK ==
  /\ sock \in [Conns -> SocketStates]
  /\ role \in [Conns -> Roles]
  /\ state \in [Conns -> ConnectionStates]
  /\ authState \in [Conns -> AuthStates]
  /\ authed \in [Conns -> BOOLEAN]
  /\ primary \in [Devices -> AgentConns \cup {None}]
  /\ agents \in [Devices -> SUBSET AgentConns]
  /\ mobiles \in [Devices -> SUBSET AppConns]
  /\ pending \in [AppConns -> AgentConns \cup {None}]
  /\ hs \in [AppConns -> AppConns \cup {None}]
  /\ th \in [AppConns -> AgentConns \cup {None}]
  /\ sid \in [AppConns -> AgentConns \cup {None}]
  /\ peer \in [AgentConns -> [AppConns -> Peers]]

RelayInit ==
  /\ sock = [c \in Conns |-> "unused"]
  /\ role = [c \in Conns |-> "unknown"]
  /\ state = [c \in Conns |-> "socket_connected"]
  /\ authState = [c \in Conns |-> "none"]
  /\ authed = [c \in Conns |-> FALSE]
  /\ primary = [d \in Devices |-> None]
  /\ agents = [d \in Devices |-> {}]
  /\ mobiles = [d \in Devices |-> {}]
  /\ pending = [m \in AppConns |-> None]
  /\ hs = [m \in AppConns |-> None]
  /\ th = [m \in AppConns |-> None]
  /\ sid = [m \in AppConns |-> None]
  /\ peer = [a \in AgentConns |-> [m \in AppConns |-> NoPeer]]

-----------------------------------------------------------------------------
(* Sending and closing.                                                    *)

\* sendText: a frame for a socket the relay has closed is dropped.
Push(c, msg) ==
  IF sock[c] = "open" THEN [down EXCEPT ![c] = Append(@, msg)] ELSE down

\* The close frame, after whatever is still queued for the clients in S.
PushClose(S) ==
  [c \in Conns |-> IF c \in S /\ sock[c] = "open"
                   THEN Append(down[c], Close) ELSE down[c]]

\* values().next() of the agents a device is left with.
NextAgent(d, S) ==
  LET left == agents[d] \ S
  IN  IF left = {} THEN None ELSE CHOOSE a \in left : TRUE

\* RuntimeTopology.unregister, for every connection of S.
Unregister(S, after) ==
  /\ sock' = [c \in Conns |-> IF c \in S THEN after ELSE sock[c]]
  /\ state' = [c \in Conns |-> IF c \in S THEN "closed" ELSE state[c]]
  /\ pending' = [m \in AppConns |-> IF m \in S THEN None ELSE pending[m]]
  /\ agents' = [d \in Devices |-> agents[d] \ S]
  /\ primary' = [d \in Devices |->
                   IF primary[d] \in S THEN NextAgent(d, S) ELSE primary[d]]
  /\ mobiles' = [d \in Devices |-> mobiles[d] \ S]

\* WebSocketConnection.close by the relay: nothing at all the second time.
CloseSocket(c) ==
  IF sock[c] = "open"
  THEN Unregister({c}, "ending")
  ELSE UNCHANGED <<sock, state, pending, topoVars>>

\* A socket is accepted and registered.
Accept(c) ==
  /\ sock[c] = "unused"
  /\ sock' = [sock EXCEPT ![c] = "open"]
  /\ UNCHANGED <<state, authVars, topoVars, pending, e2eVars, down>>

\* The client's close frame or the socket's own end: the relay forgets it.
SocketEnded(c) ==
  /\ sock[c] \in {"open", "ending"}
  /\ IF sock[c] = "open"
     THEN Unregister({c}, "closed")
     ELSE /\ sock' = [sock EXCEPT ![c] = "closed"]
          /\ UNCHANGED <<state, pending, topoVars>>
  /\ UNCHANGED <<authVars, e2eVars, down>>

\* The relay closes a socket on its own account: a missing pong, a frame that
\* does not parse, an administrator's action on the device or its address.
CloseByRelay(c) ==
  /\ sock[c] = "open"
  /\ Unregister({c}, "ending")
  /\ down' = PushClose({c})
  /\ UNCHANGED <<authVars, e2eVars>>

\* rejectInvalidState: protocol.error to the sender, nothing else.
Reject(c) ==
  /\ down' = Push(c, Plain("protocol.error"))
  /\ UNCHANGED relayVars

-----------------------------------------------------------------------------
(* Agent admission (app-agent/agentAdmission.ts).                          *)

\* The limiter, the guard or the authorization turns the Agent away.
RefuseAgent(a, newAuthState) ==
  /\ CloseSocket(a)
  /\ down' = PushClose({a})
  /\ authState' = [authState EXCEPT ![a] = newAuthState]
  /\ UNCHANGED <<role, authed, e2eVars>>

AgentAuthInit(a) ==
  \/ RefuseAgent(a, authState[a])
  \/ /\ authState[a] = "none"
     /\ authState' = [authState EXCEPT ![a] = "pending"]
     /\ down' = Push(a, Plain("agent.auth.challenge"))
     /\ UNCHANGED <<sock, role, state, authed, topoVars, pending, e2eVars>>

\* Mutant of Superseded: the Apps are left alone.
SupersededAgents(a) == agents[DeviceOf[a]] \ {a}

\* Everything RuntimeTopology.addAgentToDevice closes and unregisters.
Superseded(a) == (agents[DeviceOf[a]] \ {a}) \cup mobiles[DeviceOf[a]]

RegisterAgent(a) ==
  LET d   == DeviceOf[a]
      old == Superseded(a)
  IN  /\ sock' = [c \in Conns |->
                   IF c \in old /\ sock[c] = "open" THEN "ending" ELSE sock[c]]
      /\ state' = [c \in Conns |->
                    IF c = a THEN "registered_agent"
                    ELSE IF c \in old THEN "closed" ELSE state[c]]
      /\ role' = [role EXCEPT ![a] = "agent"]
      /\ authState' = [authState EXCEPT ![a] = "verified"]
      /\ authed' = [authed EXCEPT ![a] = TRUE]
      /\ pending' = [m \in AppConns |-> IF m \in old THEN None ELSE pending[m]]
      /\ agents' = [agents EXCEPT ![d] = {a}]
      /\ primary' = [primary EXCEPT ![d] = a]
      /\ mobiles' = [mobiles EXCEPT ![d] = {}]
      /\ down' = [c \in Conns |->
                   IF sock[c] # "open" \/ c \notin old \cup {a} THEN down[c]
                   ELSE Append(down[c], IF c = a THEN Frame("auth.ok", None, a, None)
                                        ELSE Close)]
      /\ UNCHANGED e2eVars

AgentHello(a) ==
  \/ authState[a] = "verified" /\ UNCHANGED <<relayVars, down>>
  \/ /\ authState[a] = "pending"
     /\ \/ RegisterAgent(a)
        \/ RefuseAgent(a, "pending")
        \/ RefuseAgent(a, "failed")
  \/ authState[a] \in {"none", "failed"} /\ RefuseAgent(a, authState[a])

-----------------------------------------------------------------------------
(* App admission and pairing (appAdmission.ts, authBridge.ts).             *)

AuthFailed(m) == Frame("auth.failed", m, None, None)

\* AppAuthBridge.fail
Fail(c) ==
  /\ authState' = [authState EXCEPT ![c] = "failed"]
  /\ down' = Push(c, AuthFailed(IF c \in AppConns THEN c ELSE None))

RefuseMobile(m) ==
  /\ Fail(m)
  /\ UNCHANGED <<sock, role, state, authed, topoVars, pending, e2eVars>>

ChallengeMobile(m) ==
  LET a == primary[DeviceOf[m]]
  IN  /\ role' = [role EXCEPT ![m] = "mobile"]
      /\ state' = [state EXCEPT ![m] = "mobile_connected"]
      /\ IF a = None
         THEN Fail(m) /\ UNCHANGED pending
         ELSE /\ authState' = [authState EXCEPT ![m] = "pending"]
              /\ pending' = [pending EXCEPT ![m] = a]
              /\ down' = Push(m, Frame("auth.challenge", m, a, m))
      /\ UNCHANGED <<sock, authed, topoVars, e2eVars>>

MobileConnect(m) == RefuseMobile(m) \/ ChallengeMobile(m)

\* ensureEndpoint: an Agent frame on /mobile, or the other way round.
WrongEndpoint(c) ==
  /\ CloseSocket(c)
  /\ down' = PushClose({c})
  /\ UNCHANGED <<authVars, e2eVars>>

\* matchesPending, for the frame's ids and its nonce.
ProofMatches(c, msg) ==
  /\ c \in AppConns
  /\ pending[c] # None
  /\ msg.app = c /\ msg.ref = c /\ msg.agent = pending[c]

\* Mutant of ForwardProof: the proof goes to whichever agent is primary now.
ForwardProofToPrimary(c, msg) ==
  LET a == primary[DeviceOf[c]]
  IN  /\ ProofMatches(c, msg)
      /\ IF a # None
         THEN down' = Push(a, Frame("auth.verify", c, a, c)) /\ UNCHANGED authState
         ELSE Fail(c)
      /\ UNCHANGED <<sock, role, state, authed, topoVars, pending, e2eVars>>

ForwardProof(c, msg) ==
  /\ ProofMatches(c, msg)
  /\ IF primary[DeviceOf[c]] = pending[c]
     THEN /\ down' = Push(pending[c], Frame("auth.verify", c, pending[c], c))
          /\ UNCHANGED authState
     ELSE Fail(c)
  /\ UNCHANGED <<sock, role, state, authed, topoVars, pending, e2eVars>>

\* An expired challenge is forgotten; a clock too far off or a bad signature
\* leaves it in place; no challenge or other ids in the frame fail too.
RefuseProof(c, msg) ==
  /\ Fail(c)
  /\ \/ UNCHANGED pending
     \/ /\ ProofMatches(c, msg)
        /\ pending' = [pending EXCEPT ![c] = None]
  /\ UNCHANGED <<sock, role, state, authed, topoVars, e2eVars>>

\* The limiter blocks the address: auth.failed, then the socket is closed.
BlockProof(c) ==
  /\ CloseSocket(c)
  /\ authState' = [authState EXCEPT ![c] = "failed"]
  /\ down' = IF sock[c] = "open"
             THEN [down EXCEPT ![c] =
                     @ \o <<AuthFailed(IF c \in AppConns THEN c ELSE None), Close>>]
             ELSE down
  /\ UNCHANGED <<role, authed, e2eVars>>

AuthProof(c, msg) == ForwardProof(c, msg) \/ RefuseProof(c, msg) \/ BlockProof(c)

\* The App an auth result is about: live, and of the sender's device.
ResultFor(a, m) ==
  /\ m \in AppConns
  /\ sock[m] = "open" /\ role[m] = "mobile"
  /\ DeviceOf[m] = DeviceOf[a]

AcceptApp(a, m, msg) ==
  /\ authed' = [authed EXCEPT ![m] = TRUE]
  /\ authState' = [authState EXCEPT ![m] = "verified"]
  /\ state' = [state EXCEPT ![m] = "relay_pairing_verified"]
  /\ mobiles' = [mobiles EXCEPT ![DeviceOf[m]] = @ \cup {m}]
  /\ down' = Push(m, msg)
  /\ UNCHANGED <<primary, agents>>

\* handleAuthResult for auth.ok: the challenge is consumed either way.
AuthOk(a, m, msg) ==
  /\ pending' = [pending EXCEPT ![m] = None]
  /\ IF pending[m] # None /\ msg.ref = m /\ msg.agent = a
     THEN AcceptApp(a, m, msg)
     ELSE Fail(m) /\ UNCHANGED <<state, authed, topoVars>>
  /\ UNCHANGED <<sock, role, e2eVars>>

AuthRefused(m, msg) ==
  /\ pending' = [pending EXCEPT ![m] = None]
  /\ authState' = [authState EXCEPT ![m] = "failed"]
  /\ down' = Push(m, msg)
  /\ UNCHANGED <<sock, role, state, authed, topoVars, e2eVars>>

AuthPending(m, msg) ==
  /\ down' = Push(m, msg)
  /\ UNCHANGED relayVars

AuthResult(a, msg) ==
  IF role[a] = "agent" /\ ResultFor(a, msg.app)
  THEN \/ msg.type = "auth.ok" /\ AuthOk(a, msg.app, msg)
       \/ msg.type = "auth.failed" /\ AuthRefused(msg.app, msg)
       \/ msg.type = "auth.pending" /\ AuthPending(msg.app, msg)
  ELSE UNCHANGED <<relayVars, down>>

\* Mutant of ExpirePending: the challenge is forgotten and nobody is told.
ExpirePendingSilently(m) ==
  /\ pending[m] # None
  /\ pending' = [pending EXCEPT ![m] = None]
  /\ UNCHANGED <<sock, state, authVars, topoVars, e2eVars, down>>

\* RelayMaintenance.cleanupExpiredPendingAuth, for one expired challenge.
ExpirePending(m) ==
  /\ pending[m] # None
  /\ IF sock[m] = "open" /\ role[m] = "mobile" /\ ~authed[m]
     THEN /\ Unregister({m}, "ending")
          /\ authState' = [authState EXCEPT ![m] = "failed"]
          /\ down' = [down EXCEPT ![m] = @ \o <<AuthFailed(m), Close>>]
     ELSE /\ pending' = [pending EXCEPT ![m] = None]
          /\ UNCHANGED <<sock, state, authState, topoVars, down>>
  /\ UNCHANGED <<role, authed, e2eVars>>

-----------------------------------------------------------------------------
(* The App-Agent E2E handshake and its frames (relayE2EController.ts).     *)

\* routeMobileToAgent: to whichever agent is primary now, or nowhere.
RouteToAgent(m, msg) ==
  LET a == primary[DeviceOf[m]] IN IF a = None THEN down ELSE Push(a, msg)

\* getMobileByAppConnectionId
MobileOf(a, m) ==
  /\ m \in AppConns
  /\ sock[m] = "open" /\ role[m] = "mobile" /\ DeviceOf[m] = DeviceOf[a]

\* isPairReadyForApp
PairReady(m) ==
  LET a == primary[DeviceOf[m]]
  IN  /\ a # None
      /\ sock[m] = "open" /\ role[m] = "mobile" /\ state[m] = "e2e_ready"
      /\ peer[a][m].state = "ready"
      /\ hs[m] # None /\ hs[m] = peer[a][m].hs
      /\ th[m] # None /\ th[m] = peer[a][m].th

HandshakeInit(c, msg) ==
  IF /\ role[c] = "mobile"
     /\ authed[c] /\ state[c] = "relay_pairing_verified"
     /\ msg.app = c
  THEN /\ hs' = [hs EXCEPT ![c] = msg.ref]
       /\ th' = [th EXCEPT ![c] = None]
       /\ sid' = [sid EXCEPT ![c] = None]
       /\ state' = [state EXCEPT ![c] = "e2e_handshaking"]
       /\ down' = RouteToAgent(c, msg)
       /\ UNCHANGED <<sock, authVars, topoVars, pending, peer>>
  ELSE Reject(c)

HandshakeReply(c, msg) ==
  IF role[c] = "agent" /\ MobileOf(c, msg.app) /\ hs[msg.app] = msg.ref
  THEN /\ peer' = [peer EXCEPT ![c][msg.app] =
                     [state |-> "handshaking", hs |-> msg.ref,
                      th |-> None, sid |-> None]]
       /\ down' = Push(msg.app, msg)
       /\ UNCHANGED <<sock, state, authVars, topoVars, pending, hs, th, sid>>
  ELSE Reject(c)

\* Mutants of MobileReady: the handshake id is kept as the transcript; the
\* frame is passed on only to an agent that is ready already.
MobileReadyKeepsRef(m, msg) ==
  IF state[m] = "e2e_handshaking" /\ msg.app = m /\ msg.ref = hs[m]
  THEN /\ th' = [th EXCEPT ![m] = msg.ref]
       /\ state' = [state EXCEPT ![m] = "e2e_ready"]
       /\ down' = RouteToAgent(m, msg)
       /\ UNCHANGED <<sock, authVars, topoVars, pending, hs, sid, peer>>
  ELSE Reject(m)

MobileReady(m, msg) ==
  IF state[m] = "e2e_handshaking" /\ msg.app = m /\ msg.ref = hs[m]
  THEN /\ th' = [th EXCEPT ![m] = msg.agent]
       /\ state' = [state EXCEPT ![m] = "e2e_ready"]
       /\ down' = RouteToAgent(m, msg)
       /\ UNCHANGED <<sock, authVars, topoVars, pending, hs, sid, peer>>
  ELSE Reject(m)

\* The agent answered this handshake of an App that is still there.
KnowsHandshake(a, msg) ==
  /\ MobileOf(a, msg.app)
  /\ peer[a][msg.app].state # "none" /\ peer[a][msg.app].hs = msg.ref

\* Mutants of AgentReady: the App is told only when it is ready itself; the
\* transcript is not recorded.
AgentReadyHeldBack(a, msg) ==
  IF KnowsHandshake(a, msg)
  THEN /\ peer' = [peer EXCEPT ![a][msg.app] =
                     [state |-> "ready", hs |-> @.hs, th |-> msg.agent, sid |-> @.sid]]
       /\ down' = IF state[msg.app] = "e2e_ready" THEN Push(msg.app, msg) ELSE down
       /\ UNCHANGED <<sock, state, authVars, topoVars, pending, hs, th, sid>>
  ELSE Reject(a)

AgentReady(a, msg) ==
  IF KnowsHandshake(a, msg)
  THEN /\ peer' = [peer EXCEPT ![a][msg.app] =
                     [state |-> "ready", hs |-> @.hs, th |-> msg.agent, sid |-> @.sid]]
       /\ down' = Push(msg.app, msg)
       /\ UNCHANGED <<sock, state, authVars, topoVars, pending, hs, th, sid>>
  ELSE Reject(a)

E2EReady(c, msg) ==
  \/ role[c] = "mobile" /\ MobileReady(c, msg)
  \/ role[c] = "agent" /\ AgentReady(c, msg)
  \/ role[c] = "unknown" /\ Reject(c)

MobileE2EMessage(m, msg) ==
  IF /\ state[m] = "e2e_ready" /\ msg.app = m /\ PairReady(m)
     /\ sid[m] \in {None, msg.agent}
  THEN /\ sid' = [sid EXCEPT ![m] = msg.agent]
       /\ down' = RouteToAgent(m, msg)
       /\ UNCHANGED <<sock, state, authVars, topoVars, pending, hs, th, peer>>
  ELSE Reject(m)

AgentE2EMessage(a, msg) ==
  IF /\ MobileOf(a, msg.app)
     /\ peer[a][msg.app].state = "ready"
     /\ peer[a][msg.app].sid \in {None, msg.agent}
  THEN /\ peer' = [peer EXCEPT ![a][msg.app] =
                     [state |-> @.state, hs |-> @.hs, th |-> @.th, sid |-> msg.agent]]
       /\ down' = Push(msg.app, msg)
       /\ UNCHANGED <<sock, state, authVars, topoVars, pending, hs, th, sid>>
  ELSE Reject(a)

E2EMessage(c, msg) ==
  \/ role[c] = "mobile" /\ MobileE2EMessage(c, msg)
  \/ role[c] = "agent" /\ AgentE2EMessage(c, msg)
  \/ role[c] = "unknown" /\ Reject(c)

\* Mutant of MobileE2EFailed: back to "paired", paired or not.
MobileE2EFailedAlwaysPaired(m, msg) ==
  /\ state' = [state EXCEPT ![m] = "relay_pairing_verified"]
  /\ hs' = [hs EXCEPT ![m] = None]
  /\ th' = [th EXCEPT ![m] = None]
  /\ sid' = [sid EXCEPT ![m] = None]
  /\ down' = RouteToAgent(m, msg)
  /\ UNCHANGED <<sock, authVars, topoVars, pending, peer>>

MobileE2EFailed(m, msg) ==
  /\ state' = [state EXCEPT ![m] = IF authed[m] THEN "relay_pairing_verified" ELSE @]
  /\ hs' = [hs EXCEPT ![m] = None]
  /\ th' = [th EXCEPT ![m] = None]
  /\ sid' = [sid EXCEPT ![m] = None]
  /\ down' = RouteToAgent(m, msg)
  /\ UNCHANGED <<sock, authVars, topoVars, pending, peer>>

AgentE2EFailed(a, msg) ==
  /\ peer' = [peer EXCEPT ![a][msg.app] = NoPeer]
  /\ down' = IF MobileOf(a, msg.app) THEN Push(msg.app, msg) ELSE down
  /\ UNCHANGED <<sock, state, authVars, topoVars, pending, hs, th, sid>>

E2EFailed(c, msg) ==
  \/ role[c] = "mobile" /\ MobileE2EFailed(c, msg)
  \/ role[c] = "agent" /\ msg.app # None /\ AgentE2EFailed(c, msg)
  \/ /\ role[c] = "unknown" \/ (role[c] = "agent" /\ msg.app = None)
     /\ UNCHANGED <<relayVars, down>>

-----------------------------------------------------------------------------
(* RelayServer.handleRawMessage: the handler of each frame.  It has no test *)
(* of the socket: a frame read after the relay closed it is handled too.   *)
Handle(c, msg) ==
  \/ msg.type = "agent.auth.init" /\ c \in AgentConns /\ AgentAuthInit(c)
  \/ msg.type = "agent.hello" /\ c \in AgentConns /\ AgentHello(c)
  \/ msg.type = "mobile.connect" /\ c \in AppConns /\ MobileConnect(c)
  \/ msg.type \in {"agent.auth.init", "agent.hello"} /\ c \in AppConns /\ WrongEndpoint(c)
  \/ msg.type = "mobile.connect" /\ c \in AgentConns /\ WrongEndpoint(c)
  \/ msg.type = "auth.proof" /\ AuthProof(c, msg)
  \/ msg.type \in {"auth.ok", "auth.pending", "auth.failed"} /\ AuthResult(c, msg)
  \/ msg.type = "e2e.handshake.init" /\ HandshakeInit(c, msg)
  \/ msg.type = "e2e.handshake.reply" /\ HandshakeReply(c, msg)
  \/ msg.type = "e2e.ready" /\ E2EReady(c, msg)
  \/ msg.type \in E2EData /\ E2EMessage(c, msg)
  \/ msg.type = "e2e.failed" /\ E2EFailed(c, msg)

\* The frames a client may send, with the ids parseMessageEnvelope insists on;
\* only e2e.failed may leave its App connection out.
ClientFrames ==
  {Plain(t) : t \in {"agent.auth.init", "agent.hello", "mobile.connect"}}
    \cup [type : {"auth.pending", "auth.failed"}, app : AppConns,
          agent : {None}, ref : {None}]
    \cup [type : {"auth.proof", "auth.ok", "e2e.handshake.init",
                  "e2e.handshake.reply", "e2e.ready"} \cup E2EData,
          app : AppConns, agent : AgentConns, ref : AppConns]
    \cup [type : {"e2e.failed"}, app : AppConns \cup {None},
          agent : {None}, ref : {None}]

-----------------------------------------------------------------------------
(* The relay among clients that may send anything.                         *)
Receive(c, msg) == sock[c] \in {"open", "ending"} /\ Handle(c, msg)

\* A client takes the next frame off its socket.
Deliver(c) ==
  /\ down[c] # <<>>
  /\ down' = [down EXCEPT ![c] = Tail(@)]
  /\ UNCHANGED relayVars

RelayNext ==
  \/ \E c \in Conns : \/ Accept(c)
                      \/ SocketEnded(c)
                      \/ CloseByRelay(c)
                      \/ Deliver(c)
                      \/ \E msg \in ClientFrames : Receive(c, msg)
  \/ \E m \in AppConns : ExpirePending(m)

\* up belongs to the clients: the relay's promises hold whatever is in it.
RelaySpec ==
  /\ RelayInit /\ down = [c \in Conns |-> <<>>]
  /\ [][RelayNext]_<<relayVars, down>>

-----------------------------------------------------------------------------
(* What the registry of connections promises, whoever the clients are.     *)

\* A device has at most one agent the relay still listens to, and it is the
\* primary: registering an agent closes every other (addAgentToDevice).
SoleAgent ==
  \A a \in AgentConns :
    role[a] = "agent" /\ sock[a] = "open" => primary[DeviceOf[a]] = a

\* The two indexes of a device's agents agree, and name an agent of that device.
AgentIndex ==
  \A d \in Devices :
    /\ agents[d] = {primary[d]} \ {None}
    /\ primary[d] # None => /\ role[primary[d]] = "agent"
                            /\ state[primary[d]] = "registered_agent"
                            /\ DeviceOf[primary[d]] = d

\* Every authenticated App the relay still listens to is on its device's list,
\* which is what the next agent's registration closes, and nothing else is.
MobileIndex ==
  \A m \in AppConns, d \in Devices :
    m \in mobiles[d] <=> /\ authed[m] /\ sock[m] = "open" /\ DeviceOf[m] = d

\* What the relay knows of a device is one agent, the agents it had accepted, and
\* its Apps, each time the sockets as they are.
Registry == SoleAgent /\ AgentIndex /\ MobileIndex

\* Only an App an agent vouched for takes part in an E2E handshake, whatever
\* frames arrive after the socket was closed.
HandshakeAuthenticated ==
  \A m \in AppConns : state[m] \in E2EStates => authed[m]
=============================================================================
