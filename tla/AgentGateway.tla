---------------------------- MODULE AgentGateway ----------------------------
(***************************************************************************)
(* A Desktop Agent as its relay connection sees it: AgentRelayController,  *)
(* AgentAppSecurityGateway and the part of AppConnectionRegistry the       *)
(* gateway consults.  One process per device id; each time it reconnects   *)
(* it gets a new connection id.  A handler appends what it sends to up and *)
(* leaves down to the composition.                                         *)
(***************************************************************************)
EXTENDS Wire, FiniteSets

CONSTANTS Apps,        \* App installations (app_id and instance_id)
          AppOf,       \* the installation behind an App connection
          AutoApprove  \* appAuthorizationMode = "automatic"

ASSUME AgentAssumption ==
  /\ AppOf \in [AppConns -> Apps]
  /\ None \notin Apps
  /\ AutoApprove \in BOOLEAN

VARIABLES
  cur,       \* AgentRelayController.relay: the connection in use
  agentId,   \* AgentRelayController.agentConnectionId
  trust,     \* TrustedAppStore (on disk): an App's record and its status
  pairing,   \* pendingPairings: the App connection waiting for approval
  seen,      \* AuthReplayCache: nonces already accepted
  known,     \* appIdByConnectionId
  regConn,   \* AppConnectionRegistry: relay_connection_id of an App's record
  regLive,   \* that record is trusted and not disconnected
  e2e,       \* e2ePeers: "none", "handshaking" (not ready), "ready"
  said       \* business messages sent to an App connection so far

agentVars ==
  <<cur, agentId, trust, pairing, seen, known, regConn, regLive, e2e, said>>
admissionVars == <<trust, pairing, seen>>

AgentTypeOK ==
  /\ cur \in [Devices -> AgentConns \cup {None}]
  /\ agentId \in [Devices -> AgentConns \cup {None}]
  /\ trust \in [Devices -> [Apps -> {"none", "active", "revoked"}]]
  /\ pairing \in [Devices -> [Apps -> AppConns \cup {None}]]
  /\ seen \in [AppConns -> BOOLEAN]
  /\ known \in [AppConns -> BOOLEAN]
  /\ regConn \in [Devices -> [Apps -> AppConns \cup {None}]]
  /\ regLive \in [Devices -> [Apps -> BOOLEAN]]
  /\ e2e \in [AppConns -> {"none", "handshaking", "ready"}]
  /\ said \in [AppConns -> 0 .. MaxSend]

AgentInit ==
  /\ cur = [d \in Devices |-> None]
  /\ agentId = [d \in Devices |-> None]
  /\ trust = [d \in Devices |-> [x \in Apps |-> "none"]]
  /\ pairing = [d \in Devices |-> [x \in Apps |-> None]]
  /\ seen = [m \in AppConns |-> FALSE]
  /\ known = [m \in AppConns |-> FALSE]
  /\ regConn = [d \in Devices |-> [x \in Apps |-> None]]
  /\ regLive = [d \in Devices |-> [x \in Apps |-> FALSE]]
  /\ e2e = [m \in AppConns |-> "none"]
  /\ said = [m \in AppConns |-> 0]

\* hasAuthenticatedConnection
Tracked(d, m) == regConn[d][AppOf[m]] = m /\ regLive[d][AppOf[m]]

\* Frames the process sends on the connection it uses now.
Send(d, frames) == up' = [up EXCEPT ![cur[d]] = @ \o frames]
SendAuthFailure(d, m) == Send(d, <<Frame("auth.failed", m, None, None)>>)

\* markGoodbye on the registry's record of m, if m is still its connection.
Goodbye(d, S) ==
  regLive' = [regLive EXCEPT ![d] =
               [x \in Apps |-> regLive[d][x] /\ regConn[d][x] \notin S]]

\* detachSupersededAppConnection, for every connection of S.
Detach(S) ==
  /\ known' = [m \in AppConns |-> known[m] /\ m \notin S]
  /\ e2e' = [m \in AppConns |-> IF m \in S THEN "none" ELSE e2e[m]]

-----------------------------------------------------------------------------
(* The relay connection.                                                   *)

\* connectRelay: the socket is open; the identity is offered.
Connect(d, a) ==
  /\ cur[d] = None
  /\ cur' = [cur EXCEPT ![d] = a]
  /\ agentId' = [agentId EXCEPT ![d] = None]
  /\ up' = [up EXCEPT ![a] = Append(@, Plain("agent.auth.init"))]
  /\ UNCHANGED <<admissionVars, known, regConn, regLive, e2e, said>>

\* handleRelayClose and clearRelayAppConnectionState.  The id of the closed
\* connection stays in agentConnectionId until the next connectRelay.
ConnectionLost(d) ==
  /\ cur' = [cur EXCEPT ![d] = None]
  /\ pairing' = [pairing EXCEPT ![d] = [x \in Apps |-> None]]
  /\ regLive' = [regLive EXCEPT ![d] = [x \in Apps |-> FALSE]]
  /\ known' = [m \in AppConns |-> known[m] /\ DeviceOf[m] # d]
  /\ e2e' = [m \in AppConns |-> IF DeviceOf[m] = d THEN "none" ELSE e2e[m]]
  /\ UNCHANGED <<agentId, trust, seen, regConn, said>>

\* The client's end closes the socket; what it wrote before still goes out.
HangUp(d) ==
  /\ cur[d] # None
  /\ up' = [up EXCEPT ![cur[d]] = Append(@, Close)]
  /\ ConnectionLost(d)

RecvChallenge(d) == Send(d, <<Plain("agent.hello")>>) /\ UNCHANGED agentVars

RecvRelayAuthOk(d, msg) ==
  /\ agentId' = [agentId EXCEPT ![d] = msg.agent]
  /\ UNCHANGED <<cur, admissionVars, known, regConn, regLive, e2e, up, said>>

-----------------------------------------------------------------------------
(* App pairing.                                                            *)

\* authorizeApp: the App's record moves to connection m, the connection it
\* had before is detached, and the relay gets auth.ok.
Authorize(d, m) ==
  LET x   == AppOf[m]
      old == {regConn[d][x]} \ {m, None}
  IN  /\ seen' = [seen EXCEPT ![m] = TRUE]
      /\ regConn' = [regConn EXCEPT ![d][x] = m]
      /\ regLive' = [regLive EXCEPT ![d][x] = TRUE]
      /\ known' = [n \in AppConns |-> IF n = m THEN TRUE ELSE known[n] /\ n \notin old]
      /\ e2e' = [n \in AppConns |-> IF n \in old THEN "none" ELSE e2e[n]]
      /\ Send(d, <<Frame("auth.ok", m, agentId[d], m)>>)
      /\ UNCHANGED <<cur, agentId, said>>

\* The request waits for the administrator; an older request of the same App
\* (same request id) is dropped without an answer.
AskAdministrator(d, m) ==
  /\ pairing' = [pairing EXCEPT ![d][AppOf[m]] = m]
  /\ Send(d, <<Frame("auth.pending", m, None, None)>>)
  /\ UNCHANGED <<cur, agentId, trust, seen, known, regConn, regLive, e2e, said>>

\* handleAuthVerify.  A clock too far off refuses any proof.
RecvAuthVerify(d, msg) ==
  LET m == msg.app
      x == AppOf[m]
  IN  \/ /\ SendAuthFailure(d, m)
         /\ UNCHANGED agentVars
      \/ /\ ~seen[m] /\ agentId[d] # None /\ msg.agent = agentId[d]
         /\ IF trust[d][x] = "active" \/ AutoApprove
            THEN /\ trust' = [trust EXCEPT ![d][x] = "active"]
                 /\ Authorize(d, m)
                 /\ UNCHANGED pairing
            ELSE AskAdministrator(d, m)

\* approvePairing: the App becomes trusted, or the request had just expired.
Approve(d, x) ==
  LET m == pairing[d][x]
  IN  /\ m # None
      /\ pairing' = [pairing EXCEPT ![d][x] = None]
      /\ \/ /\ trust' = [trust EXCEPT ![d][x] = "active"]
            /\ Authorize(d, m)
         \/ /\ SendAuthFailure(d, m)
            /\ UNCHANGED <<cur, agentId, trust, seen, known, regConn, regLive, e2e, said>>

\* rejectPairing, or the request's own timer: approval_rejected / _timeout.
Refuse(d, x) ==
  /\ pairing[d][x] # None
  /\ pairing' = [pairing EXCEPT ![d][x] = None]
  /\ SendAuthFailure(d, pairing[d][x])
  /\ UNCHANGED <<cur, agentId, trust, seen, known, regConn, regLive, e2e, said>>

\* disconnectApp: every connection known to be x's is told and detached, in the
\* order of the map that lists them; first come the frames of the caller.
KnownAs(d, x) == {m \in AppConns : known[m] /\ DeviceOf[m] = d /\ AppOf[m] = x}

\* Mutant of Disconnect: the connections are dropped and not told.
DisconnectSilently(d, x, first) ==
  /\ Detach(KnownAs(d, x))
  /\ IF cur[d] = None \/ first = <<>> THEN UNCHANGED up ELSE Send(d, first)

Disconnect(d, x, first) ==
  LET gone == KnownAs(d, x)
  IN  /\ Detach(gone)
      /\ IF cur[d] = None
         THEN UNCHANGED up
         ELSE \E order \in [1 .. Cardinality(gone) -> gone] :
                /\ \A m \in gone : \E i \in DOMAIN order : order[i] = m
                /\ Send(d, first \o [i \in DOMAIN order |->
                                     Frame("auth.failed", order[i], None, None)])

\* revokeApp: a request of the App that still waits for approval is left alone.
Revoke(d, x) ==
  /\ trust[d][x] = "active"
  /\ trust' = [trust EXCEPT ![d][x] = "revoked"]
  /\ Goodbye(d, KnownAs(d, x))
  /\ Disconnect(d, x, <<>>)
  /\ UNCHANGED <<cur, agentId, pairing, seen, regConn, said>>

\* removeApp: the waiting request is refused too and the record forgotten.
Remove(d, x) ==
  LET m == pairing[d][x]
  IN  /\ trust[d][x] # "none"
      /\ trust' = [trust EXCEPT ![d][x] = "none"]
      /\ pairing' = [pairing EXCEPT ![d][x] = None]
      /\ Disconnect(d, x, IF m = None THEN <<>>
                          ELSE <<Frame("auth.failed", m, None, None)>>)
      /\ regConn' = [regConn EXCEPT ![d][x] = None]
      /\ regLive' = [regLive EXCEPT ![d][x] = FALSE]
      /\ UNCHANGED <<cur, agentId, seen, said>>

-----------------------------------------------------------------------------
(* The E2E session with each App connection.                               *)

\* Mutant of Answerable: any connection of a trusted App will do.
AnswerableByTrust(d, msg) ==
  /\ agentId[d] # None /\ msg.agent = agentId[d]
  /\ trust[d][AppOf[msg.app]] = "active"

\* handleE2EHandshakeInit.  A handshake that is not for a tracked connection
\* of a trusted App, or names another agent connection, gets no answer at
\* all; one that fails to verify gets e2e.failed.
Answerable(d, msg) ==
  /\ Tracked(d, msg.app)
  /\ agentId[d] # None /\ msg.agent = agentId[d]
  /\ trust[d][AppOf[msg.app]] = "active"

RecvHandshakeInit(d, msg) ==
  LET m == msg.app
  IN  IF Answerable(d, msg)
      THEN /\ \/ /\ e2e' = [e2e EXCEPT ![m] = "handshaking"]
                 /\ Send(d, <<Frame("e2e.handshake.reply", m, agentId[d], msg.ref),
                              Frame("e2e.ready", m, agentId[d], msg.ref)>>)
              \/ /\ e2e' = [e2e EXCEPT ![m] = "none"]
                 /\ Send(d, <<Frame("e2e.failed", m, None, None)>>)
           /\ UNCHANGED <<cur, agentId, admissionVars, known, regConn, regLive, said>>
      ELSE UNCHANGED <<agentVars, up>>

FailE2ESession(d, m) ==
  /\ Send(d, <<Frame("e2e.failed", m, None, None)>>)
  /\ Goodbye(d, {m})
  /\ Detach({m})
  /\ UNCHANGED <<cur, agentId, admissionVars, regConn, said>>

\* The session's handshake id and transcript; e2ePeers holds sessions made on
\* the connection in use only, so agentId is the one they were derived with.
OwnSession(d, msg) == msg.ref = msg.app /\ msg.agent = agentId[d]

\* handleE2EReady
RecvE2EReady(d, msg) ==
  CASE e2e[msg.app] = "none" -> UNCHANGED <<agentVars, up>>
    [] e2e[msg.app] # "none" /\ ~OwnSession(d, msg) -> FailE2ESession(d, msg.app)
    [] OTHER -> /\ e2e' = [e2e EXCEPT ![msg.app] = "ready"]
                /\ UNCHANGED <<cur, agentId, admissionVars, known, regConn,
                               regLive, up, said>>

\* handleE2EMessage; app.connection.goodbye ends the registry's trust in the
\* connection (handleConnectionGoodbye).
RecvE2EMessage(d, msg) ==
  CASE e2e[msg.app] # "ready" -> UNCHANGED <<agentVars, up>>
    [] e2e[msg.app] = "ready" /\ ~OwnSession(d, msg) -> FailE2ESession(d, msg.app)
    [] OTHER -> /\ IF msg.type = "e2e.goodbye"
                   THEN Goodbye(d, {msg.app})
                   ELSE UNCHANGED regLive
                /\ UNCHANGED <<cur, agentId, admissionVars, known, regConn, e2e, up, said>>

\* sendToAppByConnectionId: business goes out under E2E to a ready peer only.
CanSendTo(d, m) == cur[d] # None /\ Tracked(d, m) /\ e2e[m] = "ready"

SendBusiness(d, m) ==
  /\ CanSendTo(d, m)
  /\ said[m] < MaxSend
  /\ said' = [said EXCEPT ![m] = @ + 1]
  /\ Send(d, <<Frame("e2e.message", m, agentId[d], m)>>)
  /\ UNCHANGED <<cur, agentId, admissionVars, known, regConn, regLive, e2e>>

\* AgentMessageDispatcher, for the frames of the pairing and the handshake.
AgentHandle(d, msg) ==
  CASE msg.type = "agent.auth.challenge" -> RecvChallenge(d)
    [] msg.type = "auth.ok"              -> RecvRelayAuthOk(d, msg)
    [] msg.type = "auth.verify"          -> RecvAuthVerify(d, msg)
    [] msg.type = "e2e.handshake.init"   -> RecvHandshakeInit(d, msg)
    [] msg.type = "e2e.ready"            -> RecvE2EReady(d, msg)
    [] msg.type \in E2EData              -> RecvE2EMessage(d, msg)
    [] msg.type = "close"                -> ConnectionLost(d) /\ UNCHANGED up
    [] OTHER                             -> UNCHANGED <<agentVars, up>>
=============================================================================
