------------------------- MODULE RelaySession_proofs -------------------------
(***************************************************************************)
(* Theorems about the relay's registry of connections, for any number of   *)
(* connections and devices and any frames its clients may send.            *)
(*                                                                         *)
(* None of the four properties is inductive on its own: which connections  *)
(* registering an agent closes depends on the indexes, and a socket that   *)
(* has just been accepted must not carry a role from before.  IInv joins   *)
(* them with two facts about connections:                                  *)
(*   Endpoints  an agent is on /agent and a mobile on /mobile              *)
(*   Fresh      a connection that is not yet accepted is nobody            *)
(***************************************************************************)
EXTENDS RelaySession, TLAPS

Endpoints ==
  /\ \A c \in Conns : role[c] = "agent" => c \in AgentConns
  /\ \A c \in Conns : role[c] = "mobile" => c \in AppConns

Fresh ==
  \A c \in Conns : sock[c] = "unused" => role[c] = "unknown" /\ ~authed[c]

IInv ==
  /\ RelayTypeOK
  /\ Endpoints
  /\ Fresh
  /\ SoleAgent
  /\ AgentIndex
  /\ MobileIndex
  /\ HandshakeAuthenticated

-----------------------------------------------------------------------------
(* Frames and helpers.                                                     *)

\* The ids of a client's frame are connection ids of the right kind, or absent.
LEMMA FrameIds ==
  ASSUME NEW msg \in ClientFrames
  PROVE  /\ msg.app \in AppConns \cup {None}
         /\ msg.agent \in AgentConns \cup {None}
         /\ msg.ref \in AppConns \cup {None}
BY DEF ClientFrames, Plain, Frame, E2EData

\* A new primary comes from the device's remaining agents.
LEMMA NextAgentIn ==
  ASSUME NEW d \in Devices, NEW S
  PROVE  \/ NextAgent(d, S) = None /\ agents[d] \subseteq S
         \/ NextAgent(d, S) \in agents[d] \ S
BY DEF NextAgent

-----------------------------------------------------------------------------
(* What the steps have in common.                                          *)

\* A step that leaves the sockets, the roles and the indexes alone, and the
\* state of every agent, keeps the invariant if no App enters the handshake
\* without being authenticated.
LEMMA QuietStep ==
  ASSUME IInv, RelayTypeOK',
         UNCHANGED <<sock, role, authed, topoVars>>,
         \A a \in AgentConns : state'[a] = state[a],
         \A m \in AppConns : state'[m] \in E2EStates => authed[m]
  PROVE  IInv'
<1> USE DEF IInv, topoVars
<1>1. Endpoints' /\ Fresh'
  BY DEF Endpoints, Fresh
<1>2. SoleAgent' /\ MobileIndex'
  BY DEF SoleAgent, MobileIndex
<1>3. AgentIndex'
  BY DEF AgentIndex, RelayTypeOK
<1>4. HandshakeAuthenticated'
  BY DEF HandshakeAuthenticated
<1> QED BY <1>1, <1>2, <1>3, <1>4

\* Unregistering connections, as every way of losing a socket does.
LEMMA UnregisterStep ==
  ASSUME IInv, NEW S \in SUBSET Conns, NEW after \in {"ending", "closed"},
         Unregister(S, after),
         authState' \in [Conns -> AuthStates],
         UNCHANGED <<role, authed, e2eVars>>
  PROVE  IInv'
<1> USE DEF IInv, e2eVars
<1> USE WireAssumption DEF Conns
<1>1. RelayTypeOK'
  <2>1. primary' \in [Devices -> AgentConns \cup {None}]
    BY NextAgentIn DEF Unregister, RelayTypeOK
  <2>2. /\ sock' \in [Conns -> SocketStates]
        /\ state' \in [Conns -> ConnectionStates]
        /\ pending' \in [AppConns -> AgentConns \cup {None}]
    BY DEF Unregister, RelayTypeOK, SocketStates, ConnectionStates
  <2>3. /\ agents' \in [Devices -> SUBSET AgentConns]
        /\ mobiles' \in [Devices -> SUBSET AppConns]
    BY DEF Unregister, RelayTypeOK
  <2> QED BY <2>1, <2>2, <2>3 DEF RelayTypeOK
<1>2. Endpoints'
  BY DEF Endpoints
<1>3. Fresh'
  BY DEF Fresh, Unregister
<1>4. \A d \in Devices : IF primary[d] \in S THEN primary'[d] = None
                                             ELSE primary'[d] = primary[d]
  BY NextAgentIn DEF Unregister, AgentIndex, RelayTypeOK
<1>5. SoleAgent'
  BY <1>4 DEF SoleAgent, Unregister, RelayTypeOK
<1>6. AgentIndex'
  BY <1>4 DEF AgentIndex, Unregister, RelayTypeOK
<1>7. MobileIndex'
  BY DEF MobileIndex, Unregister
<1>8. HandshakeAuthenticated'
  BY DEF HandshakeAuthenticated, Unregister, E2EStates
<1> QED BY <1>1, <1>2, <1>3, <1>5, <1>6, <1>7, <1>8

\* The relay closes a socket of its own, or finds it closed already.
LEMMA CloseSocketStep ==
  ASSUME IInv, NEW c \in Conns, CloseSocket(c),
         authState' \in [Conns -> AuthStates],
         UNCHANGED <<role, authed, e2eVars>>
  PROVE  IInv'
<1>1. CASE sock[c] = "open"
  BY <1>1, UnregisterStep DEF CloseSocket
<1>2. CASE sock[c] # "open"
  <2>1. UNCHANGED <<sock, state, pending, topoVars, role, authed, e2eVars>>
    BY <1>2 DEF CloseSocket
  <2>2. RelayTypeOK'
    BY <2>1 DEF IInv, RelayTypeOK, topoVars, e2eVars
  <2>3. \A m \in AppConns : state'[m] \in E2EStates => authed[m]
    BY <2>1 DEF IInv, HandshakeAuthenticated
  <2> QED BY <2>1, <2>2, <2>3, QuietStep
<1> QED BY <1>1, <1>2

-----------------------------------------------------------------------------
(* Agent admission.                                                        *)

LEMMA AcceptStep ==
  ASSUME IInv, NEW c \in Conns, Accept(c)
  PROVE  IInv'
<1> USE DEF IInv, Accept, authVars, topoVars, e2eVars
<1>1. RelayTypeOK'
  BY DEF RelayTypeOK, SocketStates
<1>2. Endpoints' /\ Fresh'
  BY DEF Endpoints, Fresh, RelayTypeOK
<1>3. SoleAgent' /\ AgentIndex'
  BY DEF SoleAgent, AgentIndex, Fresh, RelayTypeOK, Conns
<1>4. MobileIndex' /\ HandshakeAuthenticated'
  BY DEF MobileIndex, HandshakeAuthenticated, Fresh, RelayTypeOK, Conns
<1> QED BY <1>1, <1>2, <1>3, <1>4

\* Registering an agent: every other agent the relay still listens to is on the
\* device's list (SoleAgent, AgentIndex), and so is every App (MobileIndex), so
\* what addAgentToDevice closes is all there is to close.
LEMMA RegisterAgentStep ==
  ASSUME IInv, NEW a \in AgentConns, sock[a] # "unused", RegisterAgent(a)
  PROVE  IInv'
<1> USE DEF IInv, e2eVars
<1> USE WireAssumption DEF Conns
<1> DEFINE d == DeviceOf[a]
           old == Superseded(a)
<1>1. d \in Devices /\ old \subseteq Conns /\ a \notin old
  BY DEF Superseded, RelayTypeOK
<1>2. \A c \in old : DeviceOf[c] = d
  BY DEF Superseded, AgentIndex, MobileIndex, RelayTypeOK
<1>3. /\ sock' = [c \in Conns |->
                    IF c \in old /\ sock[c] = "open" THEN "ending" ELSE sock[c]]
      /\ state' = [c \in Conns |->
                     IF c = a THEN "registered_agent"
                     ELSE IF c \in old THEN "closed" ELSE state[c]]
      /\ role' = [role EXCEPT ![a] = "agent"]
      /\ authState' = [authState EXCEPT ![a] = "verified"]
      /\ authed' = [authed EXCEPT ![a] = TRUE]
      /\ pending' = [m \in AppConns |-> IF m \in old THEN None ELSE pending[m]]
      /\ agents' = [agents EXCEPT ![d] = {a}]
      /\ primary' = [primary EXCEPT ![d] = a]
      /\ mobiles' = [mobiles EXCEPT ![d] = {}]
      /\ UNCHANGED e2eVars
  BY DEF RegisterAgent
<1>4. RelayTypeOK'
  <2>1. sock' \in [Conns -> SocketStates] /\ state' \in [Conns -> ConnectionStates]
    BY <1>3 DEF RelayTypeOK, SocketStates, ConnectionStates
  <2>2. /\ role' \in [Conns -> Roles] /\ authState' \in [Conns -> AuthStates]
        /\ authed' \in [Conns -> BOOLEAN]
    BY <1>3 DEF RelayTypeOK, Roles, AuthStates
  <2>3. /\ primary' \in [Devices -> AgentConns \cup {None}]
        /\ agents' \in [Devices -> SUBSET AgentConns]
        /\ mobiles' \in [Devices -> SUBSET AppConns]
        /\ pending' \in [AppConns -> AgentConns \cup {None}]
    BY <1>1, <1>3 DEF RelayTypeOK
  <2> QED BY <1>3, <2>1, <2>2, <2>3 DEF RelayTypeOK
<1>5. Endpoints' /\ Fresh'
  BY <1>3 DEF Endpoints, Fresh, RelayTypeOK
<1>6. SoleAgent'
  <2> SUFFICES ASSUME NEW b \in AgentConns, role'[b] = "agent", sock'[b] = "open"
               PROVE  primary'[DeviceOf[b]] = b
    BY DEF SoleAgent
  <2>1. CASE b = a
    BY <1>1, <1>3, <2>1 DEF RelayTypeOK
  <2>2. CASE b # a
    <3>1. role[b] = "agent" /\ sock[b] = "open" /\ b \notin old
      BY <1>3, <2>2 DEF RelayTypeOK
    <3>2. primary[DeviceOf[b]] = b
      BY <3>1 DEF SoleAgent
    <3>3. DeviceOf[b] # d
      BY <2>2, <3>1, <3>2 DEF Superseded, AgentIndex
    <3> QED BY <1>3, <3>2, <3>3 DEF RelayTypeOK
  <2> QED BY <2>1, <2>2
<1>7. AgentIndex'
  <2> SUFFICES ASSUME NEW e \in Devices
               PROVE  /\ agents'[e] = {primary'[e]} \ {None}
                      /\ primary'[e] # None => /\ role'[primary'[e]] = "agent"
                                               /\ state'[primary'[e]] = "registered_agent"
                                               /\ DeviceOf[primary'[e]] = e
    BY DEF AgentIndex
  <2>1. CASE e = d
    BY <1>1, <1>3, <2>1 DEF RelayTypeOK
  <2>2. CASE e # d
    <3>1. agents'[e] = agents[e] /\ primary'[e] = primary[e]
      BY <1>1, <1>3, <2>2 DEF RelayTypeOK
    <3>2. primary[e] # None => primary[e] \notin old /\ primary[e] # a
      BY <1>2, <2>2 DEF AgentIndex
    <3> QED BY <1>3, <3>1, <3>2 DEF AgentIndex, RelayTypeOK
  <2> QED BY <2>1, <2>2
<1>8. MobileIndex'
  <2> SUFFICES ASSUME NEW m \in AppConns, NEW e \in Devices
               PROVE  m \in mobiles'[e]
                        <=> authed'[m] /\ sock'[m] = "open" /\ DeviceOf[m] = e
    BY DEF MobileIndex
  <2>1. authed'[m] = authed[m]
    BY <1>3 DEF RelayTypeOK
  <2>2. CASE e = d
    BY <1>1, <1>3, <2>1, <2>2 DEF MobileIndex, Superseded, RelayTypeOK
  <2>3. CASE e # d
    BY <1>2, <1>3, <2>1, <2>3 DEF MobileIndex, RelayTypeOK
  <2> QED BY <2>2, <2>3
<1>9. HandshakeAuthenticated'
  BY <1>3 DEF HandshakeAuthenticated, E2EStates, RelayTypeOK
<1> QED BY <1>4, <1>5, <1>6, <1>7, <1>8, <1>9

LEMMA AgentAuthInitStep ==
  ASSUME IInv, NEW a \in AgentConns, AgentAuthInit(a)
  PROVE  IInv'
<1>1. CASE RefuseAgent(a, authState[a])
  BY <1>1, CloseSocketStep
     DEF RefuseAgent, IInv, RelayTypeOK, AuthStates, Conns
<1>2. CASE ~RefuseAgent(a, authState[a])
  <2>1. /\ authState' = [authState EXCEPT ![a] = "pending"]
        /\ UNCHANGED <<sock, role, state, authed, topoVars, pending, e2eVars>>
    BY <1>2 DEF AgentAuthInit
  <2>2. RelayTypeOK'
    BY <2>1 DEF IInv, RelayTypeOK, topoVars, e2eVars, AuthStates, Conns
  <2> QED BY <2>1, <2>2, QuietStep DEF IInv, HandshakeAuthenticated
<1> QED BY <1>1, <1>2

LEMMA AgentHelloStep ==
  ASSUME IInv, NEW a \in AgentConns, sock[a] # "unused", AgentHello(a)
  PROVE  IInv'
<1>1. CASE RegisterAgent(a)
  BY <1>1, RegisterAgentStep
<1>2. CASE \E s \in {"pending", "failed", authState[a]} : RefuseAgent(a, s)
  BY <1>2, CloseSocketStep DEF RefuseAgent, IInv, RelayTypeOK, AuthStates, Conns
<1>3. CASE UNCHANGED <<relayVars, down>>
  BY <1>3, QuietStep DEF relayVars, IInv, RelayTypeOK, topoVars, HandshakeAuthenticated
<1> QED BY <1>1, <1>2, <1>3 DEF AgentHello

-----------------------------------------------------------------------------
(* App admission and pairing.                                              *)

LEMMA MobileConnectStep ==
  ASSUME IInv, NEW m \in AppConns, sock[m] # "unused", MobileConnect(m)
  PROVE  IInv'
<1> USE WireAssumption DEF Conns
<1>1. CASE RefuseMobile(m)
  <2>1. /\ authState' = [authState EXCEPT ![m] = "failed"]
        /\ UNCHANGED <<sock, role, state, authed, topoVars, pending, e2eVars>>
    BY <1>1 DEF RefuseMobile, Fail
  <2>2. RelayTypeOK'
    BY <2>1 DEF IInv, RelayTypeOK, topoVars, e2eVars, AuthStates
  <2> QED BY <2>1, <2>2, QuietStep DEF IInv, HandshakeAuthenticated
<1>2. CASE ChallengeMobile(m)
  <2>1. /\ role' = [role EXCEPT ![m] = "mobile"]
        /\ state' = [state EXCEPT ![m] = "mobile_connected"]
        /\ UNCHANGED <<sock, authed, topoVars, e2eVars>>
    BY <1>2 DEF ChallengeMobile
  <2>2. /\ pending' \in [AppConns -> AgentConns \cup {None}]
        /\ authState' \in [Conns -> AuthStates]
    <3> DEFINE a == primary[DeviceOf[m]]
    <3>1. /\ a \in AgentConns \cup {None} /\ m \in Conns
          /\ pending \in [AppConns -> AgentConns \cup {None}] /\ authState \in [Conns -> AuthStates]
      BY WireAssumption DEF WireAssumption, IInv, RelayTypeOK, Conns
    <3>2. \/ /\ authState' = [authState EXCEPT ![m] = "failed"] /\ pending' = pending
          \/ /\ authState' = [authState EXCEPT ![m] = "pending"]
             /\ pending' = [pending EXCEPT ![m] = a]
      BY <1>2 DEF ChallengeMobile, Fail
    <3> HIDE DEF a
    <3>3. pending' \in [AppConns -> AgentConns \cup {None}]
      BY <3>1, <3>2
    <3>4. authState' \in [Conns -> AuthStates]
      BY <3>1, <3>2 DEF AuthStates
    <3> QED BY <3>3, <3>4
  <2>3. RelayTypeOK'
    BY <2>1, <2>2 DEF IInv, RelayTypeOK, topoVars, e2eVars, Roles, ConnectionStates
  <2>4. Endpoints' /\ Fresh'
    BY <2>1 DEF IInv, Endpoints, Fresh, RelayTypeOK
  <2>5. SoleAgent' /\ AgentIndex'
    BY <2>1 DEF IInv, SoleAgent, AgentIndex, RelayTypeOK, topoVars
  <2>6. MobileIndex' /\ HandshakeAuthenticated'
    BY <2>1 DEF IInv, MobileIndex, HandshakeAuthenticated, RelayTypeOK, topoVars, E2EStates
  <2> QED BY <2>3, <2>4, <2>5, <2>6 DEF IInv
<1> QED BY <1>1, <1>2 DEF MobileConnect

LEMMA WrongEndpointStep ==
  ASSUME IInv, NEW c \in Conns, WrongEndpoint(c)
  PROVE  IInv'
BY CloseSocketStep DEF WrongEndpoint, IInv, RelayTypeOK, authVars

LEMMA AuthProofStep ==
  ASSUME IInv, NEW c \in Conns, NEW msg \in ClientFrames, AuthProof(c, msg)
  PROVE  IInv'
<1>1. CASE BlockProof(c)
  BY <1>1, CloseSocketStep DEF BlockProof, IInv, RelayTypeOK, AuthStates
<1>2. CASE ForwardProof(c, msg) \/ RefuseProof(c, msg)
  <2>1. UNCHANGED <<sock, role, state, authed, topoVars, e2eVars>>
    BY <1>2 DEF ForwardProof, RefuseProof
  <2>2. authState' \in [Conns -> AuthStates]
    BY <1>2 DEF ForwardProof, RefuseProof, Fail, IInv, RelayTypeOK, AuthStates
  <2>3. pending' \in [AppConns -> AgentConns \cup {None}]
    BY <1>2 DEF ForwardProof, RefuseProof, IInv, RelayTypeOK
  <2>4. RelayTypeOK'
    BY <2>1, <2>2, <2>3 DEF IInv, RelayTypeOK, topoVars, e2eVars
  <2> QED BY <2>1, <2>4, QuietStep, WireAssumption DEF IInv, HandshakeAuthenticated, Conns
<1> QED BY <1>1, <1>2 DEF AuthProof

LEMMA AcceptAppStep ==
  ASSUME IInv, NEW a \in AgentConns, NEW m \in AppConns, ResultFor(a, m), NEW msg,
         AcceptApp(a, m, msg),
         pending' \in [AppConns -> AgentConns \cup {None}],
         UNCHANGED <<sock, role, e2eVars>>
  PROVE  IInv'
<1> USE WireAssumption DEF Conns, IInv, e2eVars
<1>1. /\ authed' = [authed EXCEPT ![m] = TRUE]
      /\ authState' = [authState EXCEPT ![m] = "verified"]
      /\ state' = [state EXCEPT ![m] = "relay_pairing_verified"]
      /\ mobiles' = [mobiles EXCEPT ![DeviceOf[m]] = @ \cup {m}]
      /\ UNCHANGED <<primary, agents>>
  BY DEF AcceptApp
<1>2. RelayTypeOK'
  <2>1. mobiles' \in [Devices -> SUBSET AppConns]
    BY <1>1 DEF RelayTypeOK
  <2> QED BY <1>1, <2>1 DEF RelayTypeOK, AuthStates, ConnectionStates, E2EStates
<1>3. sock[m] = "open" /\ role[m] = "mobile"
  BY DEF ResultFor
<1>4. Endpoints' /\ Fresh'
  BY <1>1, <1>3 DEF Endpoints, Fresh, RelayTypeOK
<1>5. SoleAgent' /\ AgentIndex'
  BY <1>1 DEF SoleAgent, AgentIndex, RelayTypeOK
<1>6. MobileIndex' /\ HandshakeAuthenticated'
  BY <1>1, <1>3 DEF MobileIndex, HandshakeAuthenticated, RelayTypeOK
<1> QED BY <1>2, <1>4, <1>5, <1>6

LEMMA AuthResultStep ==
  ASSUME IInv, NEW c \in Conns, NEW msg \in ClientFrames,
         msg.type \in {"auth.ok", "auth.pending", "auth.failed"}, AuthResult(c, msg)
  PROVE  IInv'
<1> USE WireAssumption DEF Conns
<1> DEFINE m == msg.app
<1>1. CASE UNCHANGED relayVars
  <2>1. UNCHANGED <<sock, role, state, authState, authed, topoVars, pending, e2eVars>>
    BY <1>1 DEF relayVars, topoVars, e2eVars
  <2>2. RelayTypeOK'
    BY <2>1 DEF IInv, RelayTypeOK, topoVars, e2eVars
  <2> QED BY <2>1, <2>2, QuietStep DEF IInv, HandshakeAuthenticated
<1>2. CASE role[c] = "agent" /\ ResultFor(c, m) /\ AuthOk(c, m, msg)
  <2>1. c \in AgentConns /\ m \in AppConns
    BY <1>2 DEF IInv, Endpoints, ResultFor
  <2>2. pending' \in [AppConns -> AgentConns \cup {None}] /\ UNCHANGED <<sock, role, e2eVars>>
    BY <1>2 DEF AuthOk, IInv, RelayTypeOK
  <2>3. CASE AcceptApp(c, m, msg)
    BY <1>2, <2>1, <2>2, <2>3, AcceptAppStep
  <2>4. CASE Fail(m) /\ UNCHANGED <<state, authed, topoVars>>
    <3>1. RelayTypeOK'
      BY <2>1, <2>2, <2>4 DEF Fail, IInv, RelayTypeOK, topoVars, e2eVars, AuthStates
    <3> QED BY <2>2, <2>4, <3>1, QuietStep DEF IInv, HandshakeAuthenticated
  <2> QED BY <1>2, <2>3, <2>4 DEF AuthOk
<1>3. CASE role[c] = "agent" /\ ResultFor(c, m) /\ AuthRefused(m, msg)
  <2>1. m \in AppConns
    BY <1>3 DEF ResultFor
  <2>2. RelayTypeOK'
    BY <1>3, <2>1 DEF AuthRefused, IInv, RelayTypeOK, topoVars, e2eVars, AuthStates
  <2> QED BY <1>3, <2>2, QuietStep DEF AuthRefused, IInv, HandshakeAuthenticated
<1> QED BY <1>1, <1>2, <1>3 DEF AuthResult, AuthPending

LEMMA ExpirePendingStep ==
  ASSUME IInv, NEW m \in AppConns, ExpirePending(m)
  PROVE  IInv'
<1> USE WireAssumption DEF Conns
<1>1. CASE Unregister({m}, "ending") /\ authState' = [authState EXCEPT ![m] = "failed"]
  <2>1. authState' \in [Conns -> AuthStates]
    BY <1>1 DEF IInv, RelayTypeOK, AuthStates
  <2> QED BY <1>1, <2>1, UnregisterStep DEF ExpirePending
<1>2. CASE /\ pending' = [pending EXCEPT ![m] = None]
           /\ UNCHANGED <<sock, state, authState, topoVars, down>>
  <2>1. RelayTypeOK'
    BY <1>2 DEF ExpirePending, IInv, RelayTypeOK, topoVars, e2eVars
  <2> QED BY <1>2, <2>1, QuietStep DEF ExpirePending, IInv, HandshakeAuthenticated
<1> QED BY <1>1, <1>2 DEF ExpirePending

-----------------------------------------------------------------------------
(* The E2E handshake and the frames it protects.                           *)

LEMMA RejectStep ==
  ASSUME IInv, NEW c, Reject(c)
  PROVE  IInv'
<1>1. UNCHANGED <<sock, role, state, authState, authed, topoVars, pending, e2eVars>>
  BY DEF Reject, relayVars, topoVars, e2eVars
<1>2. RelayTypeOK'
  BY <1>1 DEF IInv, RelayTypeOK, topoVars, e2eVars
<1> QED
  BY <1>1, <1>2, QuietStep, WireAssumption DEF IInv, HandshakeAuthenticated, Conns

LEMMA HandshakeInitStep ==
  ASSUME IInv, NEW c \in Conns, NEW msg \in ClientFrames, HandshakeInit(c, msg)
  PROVE  IInv'
<1> USE WireAssumption DEF Conns
<1>1. CASE Reject(c)
  BY <1>1, RejectStep
<1>2. CASE ~Reject(c)
  <2>1. /\ role[c] = "mobile" /\ authed[c]
        /\ hs' = [hs EXCEPT ![c] = msg.ref]
        /\ th' = [th EXCEPT ![c] = None]
        /\ sid' = [sid EXCEPT ![c] = None]
        /\ state' = [state EXCEPT ![c] = "e2e_handshaking"]
        /\ UNCHANGED <<sock, authVars, topoVars, pending, peer>>
    BY <1>2 DEF HandshakeInit
  <2>2. c \in AppConns
    BY <2>1 DEF IInv, Endpoints
  <2>3. RelayTypeOK'
    BY <2>1, <2>2, FrameIds
       DEF IInv, RelayTypeOK, authVars, topoVars, ConnectionStates, E2EStates
  <2> QED BY <2>1, <2>2, <2>3, QuietStep
          DEF IInv, RelayTypeOK, authVars, HandshakeAuthenticated
<1> QED BY <1>1, <1>2

LEMMA HandshakeReplyStep ==
  ASSUME IInv, NEW c \in Conns, NEW msg \in ClientFrames, HandshakeReply(c, msg)
  PROVE  IInv'
<1> USE WireAssumption DEF Conns
<1>1. CASE Reject(c)
  BY <1>1, RejectStep
<1>2. CASE ~Reject(c)
  <2> DEFINE entry == [state |-> "handshaking", hs |-> msg.ref, th |-> None, sid |-> None]
  <2>1. /\ role[c] = "agent" /\ msg.app \in AppConns
        /\ peer' = [peer EXCEPT ![c][msg.app] = entry]
        /\ UNCHANGED <<sock, state, authVars, topoVars, pending, hs, th, sid>>
    BY <1>2 DEF HandshakeReply, MobileOf
  <2>2. c \in AgentConns
    BY <2>1 DEF IInv, Endpoints
  <2>3. entry \in Peers
    BY FrameIds DEF Peers
  <2>4. peer' \in [AgentConns -> [AppConns -> Peers]]
    BY <2>1, <2>2, <2>3 DEF IInv, RelayTypeOK
  <2>5. RelayTypeOK'
    BY <2>1, <2>4 DEF IInv, RelayTypeOK, authVars, topoVars
  <2> QED BY <2>1, <2>5, QuietStep DEF IInv, authVars, HandshakeAuthenticated
<1> QED BY <1>1, <1>2

LEMMA MobileReadyStep ==
  ASSUME IInv, NEW m \in AppConns, NEW msg \in ClientFrames, MobileReady(m, msg)
  PROVE  IInv'
<1> USE WireAssumption DEF Conns
<1>1. CASE Reject(m)
  BY <1>1, RejectStep
<1>2. CASE ~Reject(m)
  <2>1. /\ state[m] = "e2e_handshaking"
        /\ th' = [th EXCEPT ![m] = msg.agent]
        /\ state' = [state EXCEPT ![m] = "e2e_ready"]
        /\ UNCHANGED <<sock, authVars, topoVars, pending, hs, sid, peer>>
    BY <1>2 DEF MobileReady
  <2>2. authed[m]
    BY <2>1 DEF IInv, HandshakeAuthenticated, E2EStates
  <2>3. RelayTypeOK'
    BY <2>1, FrameIds DEF IInv, RelayTypeOK, authVars, topoVars, ConnectionStates, E2EStates
  <2> QED BY <2>1, <2>2, <2>3, QuietStep
          DEF IInv, RelayTypeOK, authVars, HandshakeAuthenticated
<1> QED BY <1>1, <1>2

\* An agent's change to one of its peer entries.
LEMMA PeerStep ==
  ASSUME IInv, NEW a \in AgentConns, NEW m \in AppConns, NEW entry \in Peers,
         peer' = [peer EXCEPT ![a][m] = entry],
         UNCHANGED <<sock, state, authVars, topoVars, pending, hs, th, sid>>
  PROVE  IInv'
<1>1. peer' \in [AgentConns -> [AppConns -> Peers]]
  BY DEF IInv, RelayTypeOK
<1>2. RelayTypeOK'
  BY <1>1 DEF IInv, RelayTypeOK, authVars, topoVars
<1> QED BY <1>2, QuietStep, WireAssumption DEF IInv, authVars, HandshakeAuthenticated, Conns

LEMMA AgentReadyStep ==
  ASSUME IInv, NEW a \in AgentConns, NEW msg \in ClientFrames, AgentReady(a, msg)
  PROVE  IInv'
<1> DEFINE m == msg.app
           entry == [state |-> "ready", hs |-> peer[a][m].hs,
                     th |-> msg.agent, sid |-> peer[a][m].sid]
<1>1. CASE Reject(a)
  BY <1>1, RejectStep
<1>2. CASE ~Reject(a)
  <2>1. /\ m \in AppConns
        /\ peer' = [peer EXCEPT ![a][m] = entry]
        /\ UNCHANGED <<sock, state, authVars, topoVars, pending, hs, th, sid>>
    BY <1>2 DEF AgentReady, KnowsHandshake, MobileOf
  <2>2. entry \in Peers
    BY <2>1, FrameIds DEF IInv, RelayTypeOK, Peers
  <2> HIDE DEF m, entry
  <2> QED BY <2>1, <2>2, PeerStep
<1> QED BY <1>1, <1>2

LEMMA E2EMessageStep ==
  ASSUME IInv, NEW c \in Conns, NEW msg \in ClientFrames, E2EMessage(c, msg)
  PROVE  IInv'
<1> USE WireAssumption DEF Conns
<1>1. CASE Reject(c)
  BY <1>1, RejectStep
<1>2. CASE role[c] = "mobile" /\ MobileE2EMessage(c, msg) /\ ~Reject(c)
  <2>1. c \in AppConns
    BY <1>2 DEF IInv, Endpoints
  <2>2. /\ sid' = [sid EXCEPT ![c] = msg.agent]
        /\ UNCHANGED <<sock, state, authVars, topoVars, pending, hs, th, peer>>
    BY <1>2 DEF MobileE2EMessage
  <2>3. RelayTypeOK'
    BY <2>1, <2>2, FrameIds DEF IInv, RelayTypeOK, authVars, topoVars
  <2> QED BY <2>2, <2>3, QuietStep DEF IInv, authVars, HandshakeAuthenticated
<1>3. CASE role[c] = "agent" /\ AgentE2EMessage(c, msg) /\ ~Reject(c)
  <2> DEFINE m == msg.app
             entry == [state |-> peer[c][m].state, hs |-> peer[c][m].hs,
                       th |-> peer[c][m].th, sid |-> msg.agent]
  <2>1. c \in AgentConns
    BY <1>3 DEF IInv, Endpoints
  <2>2. /\ m \in AppConns
        /\ peer' = [peer EXCEPT ![c][m] = entry]
        /\ UNCHANGED <<sock, state, authVars, topoVars, pending, hs, th, sid>>
    BY <1>3 DEF AgentE2EMessage, MobileOf
  <2>3. entry \in Peers
    BY <2>1, <2>2, FrameIds DEF IInv, RelayTypeOK, Peers
  <2> HIDE DEF m, entry
  <2> QED BY <2>1, <2>2, <2>3, PeerStep
<1> QED BY <1>1, <1>2, <1>3 DEF E2EMessage

LEMMA E2EFailedStep ==
  ASSUME IInv, NEW c \in Conns, NEW msg \in ClientFrames, E2EFailed(c, msg)
  PROVE  IInv'
<1> USE WireAssumption DEF Conns
<1>1. CASE role[c] = "mobile" /\ MobileE2EFailed(c, msg)
  <2>1. c \in AppConns
    BY <1>1 DEF IInv, Endpoints
  <2>2. /\ state' = [state EXCEPT ![c] = IF authed[c] THEN "relay_pairing_verified" ELSE @]
        /\ hs' = [hs EXCEPT ![c] = None]
        /\ th' = [th EXCEPT ![c] = None]
        /\ sid' = [sid EXCEPT ![c] = None]
        /\ UNCHANGED <<sock, authVars, topoVars, pending, peer>>
    BY <1>1 DEF MobileE2EFailed
  <2>3. RelayTypeOK'
    BY <2>1, <2>2 DEF IInv, RelayTypeOK, authVars, topoVars, ConnectionStates, E2EStates
  <2> QED BY <2>1, <2>2, <2>3, QuietStep
          DEF IInv, RelayTypeOK, authVars, HandshakeAuthenticated
<1>2. CASE role[c] = "agent" /\ msg.app # None /\ AgentE2EFailed(c, msg)
  <2>1. c \in AgentConns /\ msg.app \in AppConns
    BY <1>2, FrameIds DEF IInv, Endpoints
  <2>2. NoPeer \in Peers
    BY DEF NoPeer, Peers
  <2> QED BY <1>2, <2>1, <2>2, PeerStep DEF AgentE2EFailed
<1>3. CASE UNCHANGED <<relayVars, down>>
  <2>1. UNCHANGED <<sock, role, state, authState, authed, topoVars, pending, e2eVars>>
    BY <1>3 DEF relayVars, topoVars, e2eVars
  <2>2. RelayTypeOK'
    BY <2>1 DEF IInv, RelayTypeOK, topoVars, e2eVars
  <2> QED BY <2>1, <2>2, QuietStep DEF IInv, HandshakeAuthenticated
<1> QED BY <1>1, <1>2, <1>3 DEF E2EFailed

-----------------------------------------------------------------------------
(* The invariant and what it gives.                                        *)

\* Whatever frame arrives, the handler that answers it keeps the invariant.
LEMMA HandleStep ==
  ASSUME IInv, NEW c \in Conns, sock[c] # "unused", NEW msg \in ClientFrames,
         Handle(c, msg)
  PROVE  IInv'
<1>1. CASE AgentAuthInit(c) /\ c \in AgentConns
  BY <1>1, AgentAuthInitStep
<1>2. CASE AgentHello(c) /\ c \in AgentConns
  BY <1>2, AgentHelloStep
<1>3. CASE MobileConnect(c) /\ c \in AppConns
  BY <1>3, MobileConnectStep
<1>4. CASE WrongEndpoint(c)
  BY <1>4, WrongEndpointStep
<1>5. CASE AuthProof(c, msg)
  BY <1>5, AuthProofStep
<1>6. CASE msg.type \in {"auth.ok", "auth.pending", "auth.failed"} /\ AuthResult(c, msg)
  BY <1>6, AuthResultStep
<1>7. CASE HandshakeInit(c, msg)
  BY <1>7, HandshakeInitStep
<1>8. CASE HandshakeReply(c, msg)
  BY <1>8, HandshakeReplyStep
<1>9. CASE E2EReady(c, msg)
  BY <1>9, MobileReadyStep, AgentReadyStep, RejectStep DEF E2EReady, IInv, Endpoints
<1>10. CASE E2EMessage(c, msg)
  BY <1>10, E2EMessageStep
<1>11. CASE E2EFailed(c, msg)
  BY <1>11, E2EFailedStep
<1> QED BY <1>1, <1>2, <1>3, <1>4, <1>5, <1>6, <1>7, <1>8, <1>9, <1>10, <1>11 DEF Handle

LEMMA InitIInv == RelayInit => IInv
<1> SUFFICES ASSUME RelayInit PROVE IInv
  OBVIOUS
<1> USE WireAssumption DEF RelayInit, Conns
<1>1. RelayTypeOK
  BY DEF RelayTypeOK, SocketStates, Roles, ConnectionStates, AuthStates, Peers, NoPeer
<1>2. Endpoints /\ Fresh /\ SoleAgent /\ AgentIndex
  BY DEF Endpoints, Fresh, SoleAgent, AgentIndex
<1>3. MobileIndex /\ HandshakeAuthenticated
  BY DEF MobileIndex, HandshakeAuthenticated, E2EStates
<1> QED BY <1>1, <1>2, <1>3 DEF IInv

LEMMA NextIInv == IInv /\ [RelayNext]_<<relayVars, down>> => IInv'
<1> SUFFICES ASSUME IInv, [RelayNext]_<<relayVars, down>> PROVE IInv'
  OBVIOUS
<1>1. ASSUME NEW c \in Conns, Accept(c) PROVE IInv'
  BY <1>1, AcceptStep
<1>2. ASSUME NEW c \in Conns, SocketEnded(c) \/ CloseByRelay(c) PROVE IInv'
  <2>1. UNCHANGED <<role, authed, e2eVars, authState>>
    BY <1>2 DEF SocketEnded, CloseByRelay, authVars
  <2>2. CASE \E after \in {"ending", "closed"} : Unregister({c}, after)
    BY <1>2, <2>1, <2>2, UnregisterStep DEF IInv, RelayTypeOK
  <2>3. CASE /\ sock[c] = "ending" /\ sock' = [sock EXCEPT ![c] = "closed"]
             /\ UNCHANGED <<state, pending, topoVars>>
    <3>1. RelayTypeOK'
      BY <2>1, <2>3 DEF IInv, RelayTypeOK, topoVars, e2eVars, SocketStates
    <3>2. Endpoints' /\ Fresh' /\ SoleAgent'
      BY <2>1, <2>3 DEF IInv, RelayTypeOK, Endpoints, Fresh, SoleAgent, topoVars
    <3>3. AgentIndex' /\ HandshakeAuthenticated'
      BY <2>1, <2>3 DEF IInv, RelayTypeOK, AgentIndex, HandshakeAuthenticated, topoVars
    <3>4. MobileIndex'
      BY <2>1, <2>3 DEF IInv, RelayTypeOK, MobileIndex, topoVars, Conns
    <3> QED BY <3>1, <3>2, <3>3, <3>4 DEF IInv
  <2> QED BY <1>2, <2>2, <2>3 DEF SocketEnded, CloseByRelay
<1>3. ASSUME NEW c \in Conns, NEW msg \in ClientFrames, Receive(c, msg) PROVE IInv'
  BY <1>3, HandleStep DEF Receive
<1>4. ASSUME NEW m \in AppConns, ExpirePending(m) PROVE IInv'
  BY <1>4, ExpirePendingStep
<1>5. CASE UNCHANGED relayVars
  <2>1. UNCHANGED <<sock, role, state, authState, authed, topoVars, pending, e2eVars>>
    BY <1>5 DEF relayVars, topoVars, e2eVars
  <2>2. RelayTypeOK'
    BY <2>1 DEF IInv, RelayTypeOK, topoVars, e2eVars
  <2> QED BY <2>1, <2>2, QuietStep, WireAssumption DEF IInv, HandshakeAuthenticated, Conns
<1> QED BY <1>1, <1>2, <1>3, <1>4, <1>5 DEF RelayNext, Deliver

\* The invariant holds throughout: RuntimeTopology, the connections' own fields
\* and the sockets never disagree, for any clients.
THEOREM RegistryInvariant == RelaySpec => []IInv
BY InitIInv, NextIInv, PTL DEF RelaySpec

\* Every field of every connection, and every index, keeps its type.
THEOREM RelayTyped == RelaySpec => []RelayTypeOK
<1>1. IInv => RelayTypeOK
  BY DEF IInv
<1> QED BY <1>1, RegistryInvariant, PTL

\* However agents reconnect and whatever is still under way when they do: the
\* relay listens to one agent per device at most, agentsByDevice and
\* primaryAgentByDevice agree on it, and mobilesByDevice lists exactly the
\* authenticated Apps with an open socket, so that the next agent's registration
\* closes every one of them.
THEOREM RegistryConsistent == RelaySpec => []Registry
<1>1. IInv => Registry
  BY DEF IInv, Registry
<1> QED BY <1>1, RegistryInvariant, PTL

\* No App takes part in an E2E handshake, or has its frames forwarded under
\* one, before an agent vouched for it, late frames included.
THEOREM HandshakeNeedsPairing == RelaySpec => []HandshakeAuthenticated
<1>1. IInv => HandshakeAuthenticated
  BY DEF IInv
<1> QED BY <1>1, RegistryInvariant, PTL
=============================================================================
