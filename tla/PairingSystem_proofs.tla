------------------------ MODULE PairingSystem_proofs ------------------------
(***************************************************************************)
(* Theorems about the relay together with its clients, for any number of   *)
(* devices, installations and connections.                                 *)
(*                                                                         *)
(* The three programs only meet in the frames between them, so the         *)
(* inductive invariant gives each of them an invariant of its own and says *)
(* what a frame on its way may carry:                                      *)
(*   IInv       the relay's registry, from RelaySession_proofs             *)
(*   FramesOK   a client sends only frames the relay parses; an Agent gets *)
(*              frames about Apps of its own device only                   *)
(*   AgentIInv  the Agent's tables agree with each other                   *)
(*   AppIInv    an App that signs, or is further on, knows the agent it    *)
(*              talks to                                                   *)
(* The second part follows one pairing through them: VInv says of every    *)
(* frame of it what is true of the App and the relay while it is under     *)
(* way, so that the auth.ok the relay acts on speaks for the App it        *)
(* challenged.  The third follows one E2E session: BInv says in which      *)
(* order the frames of its two ends stand on the four queues between them, *)
(* so that business never comes before those that read it are ready.  The  *)
(* last adds the upgrade orchestrator.                                     *)
(***************************************************************************)
EXTENDS UpgradeSystem, RelaySession_proofs, FiniteSetTheorems, SequenceTheorems

\* Frames to an Agent that its handlers index their tables with.
AboutApps == {"auth.verify", "e2e.handshake.init", "e2e.ready"} \cup E2EData

FramesFor(c) ==
  {f \in Messages :
     /\ c \in AgentConns /\ f.type \in AboutApps =>
          /\ f.app \in AppConns /\ DeviceOf[f.app] = DeviceOf[c]
          /\ f.agent \in AgentConns /\ f.ref \in AppConns
     /\ c \in AgentConns /\ f.type \in {"auth.ok", "auth.verify"} => f.agent = c
     /\ c \in AppConns /\ f.type = "auth.challenge" => f.agent \in AgentConns}

\* requestP2pReconnect, which UpgradeSystem adds to what an App writes.
Asks == {Frame("app.network.changed", m, None, None) : m \in AppConns}

Sendable == ClientFrames \cup Asks \cup {Close}

UpOK == up \in [Conns -> Seq(Sendable)]

DownOK ==
  /\ down \in [Conns -> Seq(Messages)]
  /\ \A c \in Conns : down[c] \in Seq(FramesFor(c))

\* A connection in use is the device's own, and what the Agent takes for its id.
OwnConnection ==
  \A d \in Devices :
    cur[d] # None => DeviceOf[cur[d]] = d /\ agentId[d] \in {None, cur[d]}

\* A request that waits for approval came over the connection in use.
OpenRequests ==
  \A d \in Devices, x \in Apps :
    pairing[d][x] # None =>
      /\ cur[d] # None /\ agentId[d] # None
      /\ DeviceOf[pairing[d][x]] = d /\ AppOf[pairing[d][x]] = x

\* An App's record names a connection of that App, and a live one is listed.
Records ==
  \A d \in Devices, x \in Apps :
    LET m == regConn[d][x]
    IN  /\ m # None => DeviceOf[m] = d /\ AppOf[m] = x
        /\ regLive[d][x] => m # None /\ known[m]

\* A session belongs to the connection in the record of an active App.
SessionsListed ==
  \A m \in AppConns :
    e2e[m] # "none" =>
      LET d == DeviceOf[m]
          x == AppOf[m]
      IN  /\ trust[d][x] = "active" /\ known[m] /\ regConn[d][x] = m
          /\ cur[d] # None /\ agentId[d] # None

AgentIInv ==
  /\ AgentTypeOK
  /\ OwnConnection
  /\ OpenRequests
  /\ Records
  /\ SessionsListed
  /\ IsFiniteSet({m \in AppConns : known[m]})

AppIInv ==
  /\ AppTypeOK
  /\ \A m \in AppConns : queued[m] <= sent[m]
  /\ \A m \in AppConns :
       phase[m] \notin {"idle", "connected", "closed"} => agentOf[m] # None

PInv == IInv /\ UpOK /\ DownOK /\ AgentIInv /\ AppIInv

-----------------------------------------------------------------------------
(* Frames.                                                                 *)

LEMMA ClientFramesAre ==
  /\ Sendable \subseteq Messages
  /\ \A f \in Sendable :
       f.type \notin {"close", "app.network.changed"} => f \in ClientFrames
BY DEF Sendable, Asks, ClientFrames, Messages, Types, Close, Plain, Frame, E2EData

\* The relay's handlers of this module know nothing of an App that asks.
LEMMA AsksUnhandled ==
  ASSUME NEW c, NEW msg, Handle(c, msg)
  PROVE  msg.type # "app.network.changed"
BY DEF Handle, E2EData

LEMMA NoFrames == <<>> \in Seq(Sendable)
OBVIOUS

\* What the two client programs write.
LEMMA WrittenFrames ==
  ASSUME NEW m \in AppConns, NEW a \in AgentConns, NEW r \in AppConns
  PROVE  /\ Plain("agent.auth.init") \in Sendable
         /\ Plain("agent.hello") \in Sendable
         /\ Plain("mobile.connect") \in Sendable
         /\ Close \in Sendable
         /\ \A t \in {"auth.pending", "auth.failed", "e2e.failed"} :
              Frame(t, m, None, None) \in Sendable
         /\ \A t \in {"auth.proof", "auth.ok", "e2e.handshake.init",
                      "e2e.handshake.reply", "e2e.ready"} \cup E2EData :
              Frame(t, m, a, r) \in Sendable
BY DEF Sendable, ClientFrames, Plain, Frame, E2EData

\* What the relay writes of its own.
LEMMA RelayFrames ==
  ASSUME NEW c \in Conns
  PROVE  /\ Close \in FramesFor(c)
         /\ Plain("protocol.error") \in FramesFor(c)
         /\ Plain("agent.auth.challenge") \in FramesFor(c)
         /\ \A m \in AppConns \cup {None} : AuthFailed(m) \in FramesFor(c)
         /\ c \in AgentConns => Frame("auth.ok", None, c, None) \in FramesFor(c)
         /\ \A a \in AgentConns, m \in AppConns :
              Frame("auth.challenge", m, a, m) \in FramesFor(c)
BY DEF FramesFor, Messages, Types, Close, Plain, Frame, AuthFailed, AboutApps, E2EData

\* What it passes on: anything to an App; to an Agent what concerns an App of
\* its device.
LEMMA PassedFrames ==
  ASSUME NEW msg \in ClientFrames
  PROVE  /\ \A m \in AppConns : msg \in FramesFor(m)
         /\ \A a \in AgentConns :
              \/ /\ msg.type \in {"e2e.handshake.init", "e2e.ready"} \cup E2EData
                 /\ DeviceOf[msg.app] = DeviceOf[a]
              \/ msg.type = "e2e.failed"
              => msg \in FramesFor(a)
<1> USE WireAssumption
<1>1. msg \in Messages /\ msg.type # "auth.challenge"
  BY ClientFramesAre DEF Sendable, ClientFrames, Plain, Frame, E2EData
<1>2. msg.type \in {"e2e.handshake.init", "e2e.ready"} \cup E2EData =>
        /\ msg.app \in AppConns /\ msg.agent \in AgentConns /\ msg.ref \in AppConns
        /\ msg.type # "auth.ok"
  BY DEF ClientFrames, Plain, Frame, E2EData
<1>3. \A m \in AppConns : msg \in FramesFor(m)
  BY <1>1 DEF FramesFor
<1>4. ASSUME NEW a \in AgentConns,
             \/ /\ msg.type \in {"e2e.handshake.init", "e2e.ready"} \cup E2EData
                /\ DeviceOf[msg.app] = DeviceOf[a]
             \/ msg.type = "e2e.failed"
      PROVE  msg \in FramesFor(a)
  BY <1>1, <1>2, <1>4 DEF FramesFor, AboutApps, E2EData
<1> QED BY <1>3, <1>4

-----------------------------------------------------------------------------
(* The relay's handlers send each client frames it is meant to get.        *)

LEMMA PushKeeps ==
  ASSUME DownOK, NEW c \in Conns, NEW f \in FramesFor(c), down' = Push(c, f)
  PROVE  DownOK'
<1>1. f \in Messages
  BY DEF FramesFor
<1>2. \A b \in Conns : down'[b] \in Seq(FramesFor(b))
  BY DEF Push, DownOK
<1>3. down' \in [Conns -> Seq(Messages)]
  BY <1>1 DEF Push, DownOK
<1> QED BY <1>2, <1>3 DEF DownOK, FramesFor

LEMMA PushCloseKeeps ==
  ASSUME DownOK, NEW S, down' = PushClose(S)
  PROVE  DownOK'
<1>1. \A c \in Conns : Close \in FramesFor(c)
  BY RelayFrames
<1>2. Close \in Messages
  BY DEF Close, Plain, Frame, Messages, Types
<1> HIDE DEF Close
<1>3. \A c \in Conns : down'[c] = down[c] \/ down'[c] = Append(down[c], Close)
  BY DEF PushClose
<1>4. down' \in [Conns -> Seq(Messages)]
  BY <1>2 DEF PushClose, DownOK
<1>5. \A c \in Conns : down'[c] \in Seq(FramesFor(c))
  <2> TAKE c \in Conns
  <2>1. down[c] \in Seq(FramesFor(c)) /\ Close \in FramesFor(c)
    BY <1>1 DEF DownOK
  <2>2. Append(down[c], Close) \in Seq(FramesFor(c))
    BY <2>1
  <2> QED BY <1>3, <2>1, <2>2
<1> QED BY <1>4, <1>5 DEF DownOK, FramesFor

LEMMA FailKeeps ==
  ASSUME DownOK, NEW c \in Conns, Fail(c)
  PROVE  DownOK'
<1>1. AuthFailed(IF c \in AppConns THEN c ELSE None) \in FramesFor(c)
  BY RelayFrames
<1> QED BY <1>1, PushKeeps DEF Fail

\* auth.failed, then the close frame.
LEMMA FailAndCloseKeeps ==
  ASSUME DownOK, NEW c \in Conns, NEW m \in AppConns \cup {None},
         down' = [down EXCEPT ![c] = @ \o <<AuthFailed(m), Close>>]
  PROVE  DownOK'
<1>1. AuthFailed(m) \in FramesFor(c) /\ Close \in FramesFor(c)
  BY RelayFrames
<1>2. <<AuthFailed(m), Close>> \in Seq(FramesFor(c))
  BY <1>1
<1>3. FramesFor(c) \subseteq Messages
  BY DEF FramesFor
<1>4. <<AuthFailed(m), Close>> \in Seq(Messages)
  BY <1>1, <1>3
<1> DEFINE tail == <<AuthFailed(m), Close>>
<1>5. tail \in Seq(FramesFor(c)) /\ tail \in Seq(Messages)
  BY <1>2, <1>4
<1> HIDE DEF tail
<1>6. down' = [b \in Conns |-> IF b = c THEN down[b] \o tail ELSE down[b]]
  BY DEF DownOK, tail
<1>7. \A b \in Conns : down'[b] \in Seq(FramesFor(b)) /\ down'[b] \in Seq(Messages)
  BY <1>5, <1>6 DEF DownOK
<1> QED BY <1>6, <1>7 DEF DownOK, FramesFor

\* The agent a frame is routed to serves the sender's device (AgentIndex).
LEMMA RouteKeeps ==
  ASSUME IInv, DownOK, NEW m \in AppConns, NEW msg \in ClientFrames,
         \/ /\ msg.type \in {"e2e.handshake.init", "e2e.ready"} \cup E2EData
            /\ msg.app = m
         \/ msg.type = "e2e.failed",
         down' = RouteToAgent(m, msg)
  PROVE  DownOK'
<1> DEFINE a == primary[DeviceOf[m]]
<1>1. CASE a = None
  BY <1>1 DEF RouteToAgent, DownOK, FramesFor
<1>2. CASE a # None
  <2>1. a \in AgentConns /\ DeviceOf[a] = DeviceOf[m]
    BY <1>2, WireAssumption DEF IInv, RelayTypeOK, AgentIndex, Conns
  <2>2. msg \in FramesFor(a)
    BY <2>1, PassedFrames
  <2> QED BY <1>2, <2>1, <2>2, PushKeeps DEF RouteToAgent, Conns
<1> QED BY <1>1, <1>2

LEMMA PassToApp ==
  ASSUME DownOK, NEW m \in AppConns, NEW msg \in ClientFrames, down' = Push(m, msg)
  PROVE  DownOK'
BY PassedFrames, PushKeeps DEF Conns

LEMMA RejectKeeps ==
  ASSUME DownOK, NEW c \in Conns, Reject(c)
  PROVE  DownOK'
BY RelayFrames, PushKeeps DEF Reject

LEMMA HandleKeepsDown ==
  ASSUME IInv, DownOK, NEW c \in Conns, NEW msg \in ClientFrames, Handle(c, msg)
  PROVE  DownOK'
<1> USE WireAssumption
<1>0. CASE UNCHANGED down
  BY <1>0 DEF DownOK, FramesFor
<1>1. CASE c \in AgentConns /\ AgentAuthInit(c)
  BY <1>1, PushCloseKeeps, PushKeeps, RelayFrames DEF AgentAuthInit, RefuseAgent
<1>2. CASE c \in AgentConns /\ AgentHello(c)
  <2>1. CASE RegisterAgent(c)
    <3>1. Frame("auth.ok", None, c, None) \in FramesFor(c)
      BY <1>2, RelayFrames
    <3>2. \A b \in Conns : Close \in FramesFor(b)
      BY RelayFrames
    <3>3. \A b \in Conns : FramesFor(b) \subseteq Messages
      BY DEF FramesFor
    <3> DEFINE ok == Frame("auth.ok", None, c, None)
    <3>4. down' = [b \in Conns |->
                     IF sock[b] # "open" \/ b \notin Superseded(c) \cup {c} THEN down[b]
                     ELSE Append(down[b], IF b = c THEN ok ELSE Close)]
      BY <2>1 DEF RegisterAgent
    <3> HIDE DEF ok, Close
    <3>5. \A b \in Conns : \/ down'[b] = down[b]
                           \/ \E f \in FramesFor(b) : down'[b] = Append(down[b], f)
      BY <3>1, <3>2, <3>4 DEF ok
    <3>6. ASSUME NEW b \in Conns
          PROVE  down'[b] \in Seq(FramesFor(b)) /\ down'[b] \in Seq(Messages)
      <4>1. down[b] \in Seq(FramesFor(b)) /\ down[b] \in Seq(Messages)
        BY DEF DownOK
      <4>2. ASSUME NEW f \in FramesFor(b), down'[b] = Append(down[b], f)
            PROVE  down'[b] \in Seq(FramesFor(b)) /\ down'[b] \in Seq(Messages)
        BY <3>3, <4>1, <4>2
      <4> QED BY <3>5, <4>1, <4>2
    <3>7. down' \in [Conns -> Seq(Messages)]
      BY <3>4, <3>6
    <3> QED BY <3>6, <3>7 DEF DownOK, FramesFor
  <2> QED BY <1>0, <1>2, <2>1, PushCloseKeeps DEF AgentHello, RefuseAgent
<1>3. CASE c \in AppConns /\ MobileConnect(c)
  <2>1. CASE Fail(c)
    BY <2>1, FailKeeps
  <2>2. CASE ~Fail(c)
    <3>1. primary[DeviceOf[c]] \in AgentConns \cup {None}
      BY <1>3 DEF IInv, RelayTypeOK, Conns
    <3> QED BY <1>3, <2>2, <3>1, PushKeeps, RelayFrames
            DEF MobileConnect, RefuseMobile, ChallengeMobile
  <2> QED BY <2>1, <2>2
<1>4. CASE WrongEndpoint(c)
  BY <1>4, PushCloseKeeps DEF WrongEndpoint
<1>5. CASE AuthProof(c, msg)
  <2>1. CASE BlockProof(c)
    BY <1>0, <2>1, FailAndCloseKeeps DEF BlockProof
  <2>2. CASE Fail(c)
    BY <2>2, FailKeeps
  <2>3. CASE ForwardProof(c, msg) /\ ~Fail(c)
    <3> DEFINE a == primary[DeviceOf[c]]
    <3>1. /\ c \in AppConns /\ a = pending[c] /\ a # None
          /\ down' = Push(a, Frame("auth.verify", c, a, c))
      BY <2>3 DEF ForwardProof, ProofMatches
    <3>2. a \in AgentConns /\ DeviceOf[a] = DeviceOf[c]
      BY <3>1 DEF IInv, RelayTypeOK, AgentIndex, Conns
    <3> HIDE DEF a
    <3>3. Frame("auth.verify", c, a, c) \in FramesFor(a)
      BY <3>1, <3>2 DEF FramesFor, Frame, Messages, Types, Conns
    <3> QED BY <3>1, <3>2, <3>3, PushKeeps DEF Conns
  <2> QED BY <1>5, <2>1, <2>2, <2>3 DEF AuthProof, RefuseProof
<1>6. CASE AuthResult(c, msg)
  BY <1>0, <1>6, FailKeeps, PassToApp
     DEF AuthResult, ResultFor, AuthOk, AcceptApp, AuthRefused, AuthPending, Conns
<1>7. CASE msg.type = "e2e.handshake.init" /\ HandshakeInit(c, msg)
  <2>1. CASE Reject(c)
    BY <2>1, RejectKeeps
  <2>2. CASE ~Reject(c)
    <3>1. c \in AppConns
      BY <1>7, <2>2 DEF HandshakeInit, IInv, Endpoints
    <3> QED BY <1>7, <2>2, <3>1, RouteKeeps DEF HandshakeInit
  <2> QED BY <2>1, <2>2
<1>8. CASE HandshakeReply(c, msg)
  BY <1>8, RejectKeeps, PassToApp DEF HandshakeReply, MobileOf
<1>9. CASE msg.type = "e2e.ready" /\ E2EReady(c, msg)
  <2>1. CASE role[c] = "mobile" /\ MobileReady(c, msg)
    <3>1. c \in AppConns
      BY <2>1 DEF IInv, Endpoints
    <3> QED BY <1>9, <2>1, <3>1, RouteKeeps, RejectKeeps DEF MobileReady
  <2>2. CASE AgentReady(c, msg)
    BY <2>2, RejectKeeps, PassToApp DEF AgentReady, KnowsHandshake, MobileOf
  <2> QED BY <1>9, <2>1, <2>2, RejectKeeps DEF E2EReady
<1>10. CASE msg.type \in E2EData /\ E2EMessage(c, msg)
  <2>1. CASE role[c] = "mobile" /\ MobileE2EMessage(c, msg)
    <3>1. c \in AppConns
      BY <2>1 DEF IInv, Endpoints
    <3> QED BY <1>10, <2>1, <3>1, RouteKeeps, RejectKeeps DEF MobileE2EMessage
  <2>2. CASE AgentE2EMessage(c, msg)
    BY <2>2, RejectKeeps, PassToApp DEF AgentE2EMessage, MobileOf
  <2> QED BY <1>10, <2>1, <2>2, RejectKeeps DEF E2EMessage
<1>11. CASE msg.type = "e2e.failed" /\ E2EFailed(c, msg)
  <2>1. CASE role[c] = "mobile" /\ MobileE2EFailed(c, msg)
    <3>1. c \in AppConns
      BY <2>1 DEF IInv, Endpoints
    <3> QED BY <1>11, <2>1, <3>1, RouteKeeps DEF MobileE2EFailed
  <2>2. CASE AgentE2EFailed(c, msg)
    BY <1>0, <2>2, PassToApp DEF AgentE2EFailed, MobileOf
  <2> QED BY <1>0, <1>11, <2>1, <2>2 DEF E2EFailed
<1> QED BY <1>1, <1>2, <1>3, <1>4, <1>5, <1>6, <1>7, <1>8, <1>9, <1>10, <1>11 DEF Handle

\* A frame taken off the front of a queue.
LEMMA TakeKeepsDown ==
  ASSUME DownOK, NEW c \in Conns, down[c] # <<>>,
         down' = [down EXCEPT ![c] = Tail(@)]
  PROVE  DownOK' /\ Head(down[c]) \in FramesFor(c)
<1>1. \A b \in Conns : down[b] \in Seq(FramesFor(b)) /\ down[b] \in Seq(Messages)
  BY DEF DownOK
<1>2. \A b \in Conns : down'[b] = IF b = c THEN Tail(down[c]) ELSE down[b]
  BY DEF DownOK
<1>3. Tail(down[c]) \in Seq(FramesFor(c)) /\ Tail(down[c]) \in Seq(Messages)
  BY <1>1
<1> QED BY <1>1, <1>2, <1>3 DEF DownOK, FramesFor

LEMMA TakeKeepsUp ==
  ASSUME UpOK, NEW c \in Conns, up[c] # <<>>, up' = [up EXCEPT ![c] = Tail(@)]
  PROVE  UpOK' /\ Head(up[c]) \in Sendable
BY DEF UpOK

\* Writing frames, on a connection or on none.
LEMMA WriteKeepsUp ==
  ASSUME UpOK, NEW c, NEW frames \in Seq(Sendable),
         up' = [up EXCEPT ![c] = @ \o frames]
  PROVE  UpOK'
<1>1. up' = [b \in Conns |-> IF b = c THEN up[b] \o frames ELSE up[b]]
  BY DEF UpOK
<1>2. \A b \in Conns : up[b] \in Seq(Sendable) /\ up[b] \o frames \in Seq(Sendable)
  BY DEF UpOK
<1> QED BY <1>1, <1>2 DEF UpOK

-----------------------------------------------------------------------------
(* The Agent.                                                              *)

\* Losing the connection clears everything that hangs on it.
LEMMA ConnectionLostKeeps ==
  ASSUME AgentIInv, NEW d \in Devices, ConnectionLost(d)
  PROVE  AgentIInv'
<1> USE AgentAssumption, WireAssumption DEF AgentIInv, ConnectionLost, Conns
<1>1. AgentTypeOK'
  BY DEF AgentTypeOK
<1>2. OwnConnection' /\ OpenRequests'
  BY DEF AgentTypeOK, OwnConnection, OpenRequests
<1>3. Records'
  BY DEF AgentTypeOK, Records
<1>4. SessionsListed'
  BY DEF AgentTypeOK, SessionsListed
<1>5. IsFiniteSet({m \in AppConns : known[m]})'
  <2>1. {m \in AppConns : known'[m]} \subseteq {m \in AppConns : known[m]}
    BY DEF AgentTypeOK
  <2> QED BY <2>1, FS_Subset
<1> QED BY <1>1, <1>2, <1>3, <1>4, <1>5

LEMMA ConnectKeeps ==
  ASSUME AgentIInv, UpOK, NEW d \in Devices, NEW a \in AgentConns, DeviceOf[a] = d,
         Connect(d, a)
  PROVE  AgentIInv' /\ UpOK'
<1> USE AgentAssumption, WireAssumption DEF AgentIInv, Connect, Conns, admissionVars
<1>1. AgentTypeOK'
  BY DEF AgentTypeOK
<1>2. OwnConnection' /\ OpenRequests'
  BY DEF AgentTypeOK, OwnConnection, OpenRequests
<1>3. Records'
  BY DEF AgentTypeOK, Records
<1>4. SessionsListed'
  BY DEF AgentTypeOK, SessionsListed
<1>5. UpOK'
  BY DEF UpOK, Sendable, ClientFrames, Plain, Frame
<1> QED BY <1>1, <1>2, <1>3, <1>4, <1>5

\* A device's App connection becomes the one of its App's record, and the only
\* one of that App with a session.
LEMMA AuthorizeKeeps ==
  ASSUME AgentIInv, UpOK, NEW d \in Devices, NEW m \in AppConns, DeviceOf[m] = d,
         cur[d] # None, agentId[d] # None, Authorize(d, m),
         trust' = [trust EXCEPT ![d][AppOf[m]] = "active"],
         \/ UNCHANGED pairing
         \/ pairing' = [pairing EXCEPT ![d][AppOf[m]] = None]
  PROVE  AgentIInv' /\ UpOK'
<1> USE AgentAssumption, WireAssumption DEF AgentIInv, Conns
<1> DEFINE x == AppOf[m]
<1>1. /\ seen' = [seen EXCEPT ![m] = TRUE]
      /\ regConn' = [regConn EXCEPT ![d][x] = m]
      /\ regLive' = [regLive EXCEPT ![d][x] = TRUE]
      /\ known' = [n \in AppConns |->
                     IF n = m THEN TRUE
                     ELSE known[n] /\ n \notin {regConn[d][x]} \ {m, None}]
      /\ e2e' = [n \in AppConns |->
                   IF n \in {regConn[d][x]} \ {m, None} THEN "none" ELSE e2e[n]]
      /\ up' = [up EXCEPT ![cur[d]] = @ \o <<Frame("auth.ok", m, agentId[d], m)>>]
      /\ UNCHANGED <<cur, agentId, said>>
  BY DEF Authorize, Send
<1>2. x \in Apps
  OBVIOUS
<1> HIDE DEF x
<1>3. AgentTypeOK'
  <2>1. /\ regConn' \in [Devices -> [Apps -> AppConns \cup {None}]]
        /\ regLive' \in [Devices -> [Apps -> BOOLEAN]]
        /\ trust' \in [Devices -> [Apps -> {"none", "active", "revoked"}]]
    BY <1>1, <1>2 DEF AgentTypeOK, x
  <2>3. pairing' \in [Devices -> [Apps -> AppConns \cup {None}]]
    <3>1. CASE UNCHANGED pairing
      BY <3>1 DEF AgentTypeOK
    <3>2. CASE pairing' = [pairing EXCEPT ![d][x] = None]
      BY <1>2, <3>2 DEF AgentTypeOK
    <3> QED BY <3>1, <3>2 DEF x
  <2>2. /\ seen' \in [AppConns -> BOOLEAN] /\ known' \in [AppConns -> BOOLEAN]
        /\ e2e' \in [AppConns -> {"none", "handshaking", "ready"}]
    BY <1>1 DEF AgentTypeOK
  <2> QED BY <1>1, <2>1, <2>2, <2>3 DEF AgentTypeOK
<1>4. OwnConnection'
  BY <1>1 DEF OwnConnection
<1>5. OpenRequests'
  <2>1. \A e \in Devices, y \in Apps : pairing'[e][y] \in {pairing[e][y], None}
    <3>1. CASE UNCHANGED pairing
      BY <3>1
    <3>2. CASE pairing' = [pairing EXCEPT ![d][x] = None]
      BY <1>2, <3>2 DEF AgentTypeOK
    <3> QED BY <3>1, <3>2 DEF x
  <2> QED BY <1>1, <2>1 DEF OpenRequests
<1>6. Records'
  BY <1>1, <1>2 DEF Records, AgentTypeOK, x
<1>7. SessionsListed'
  BY <1>1, <1>2 DEF SessionsListed, Records, AgentTypeOK, x
<1>8. IsFiniteSet({n \in AppConns : known[n]})'
  <2>1. {n \in AppConns : known'[n]} \subseteq {n \in AppConns : known[n]} \cup {m}
    BY <1>1 DEF AgentTypeOK
  <2> QED BY <2>1, FS_Subset, FS_AddElement
<1>9. UpOK'
  <2>1. agentId[d] \in AgentConns
    BY DEF AgentTypeOK
  <2>2. <<Frame("auth.ok", m, agentId[d], m)>> \in Seq(Sendable)
    BY <2>1, WrittenFrames
  <2> QED BY <1>1, <2>2, WriteKeepsUp
<1> QED BY <1>3, <1>4, <1>5, <1>6, <1>7, <1>8, <1>9

\* A step that changes neither sessions nor records nor the connection.
LEMMA RequestStep ==
  ASSUME AgentIInv, NEW d \in Devices, NEW x \in Apps, NEW m \in AppConns \cup {None},
         m # None => /\ cur[d] # None /\ agentId[d] # None
                     /\ DeviceOf[m] = d /\ AppOf[m] = x,
         pairing' = [pairing EXCEPT ![d][x] = m],
         UNCHANGED <<cur, agentId, trust, seen, known, regConn, regLive, e2e, said>>
  PROVE  AgentIInv'
<1> USE AgentAssumption, WireAssumption DEF AgentIInv
<1>1. AgentTypeOK'
  BY DEF AgentTypeOK
<1>2. OpenRequests'
  BY DEF OpenRequests, AgentTypeOK
<1>3. OwnConnection' /\ Records' /\ SessionsListed'
  BY DEF OwnConnection, Records, SessionsListed
<1> QED BY <1>1, <1>2, <1>3

LEMMA SendFailureKeeps ==
  ASSUME UpOK, NEW d, NEW m \in AppConns, SendAuthFailure(d, m)
  PROVE  UpOK'
<1>1. <<Frame("auth.failed", m, None, None)>> \in Seq(Sendable)
  BY DEF Sendable, ClientFrames, Frame
<1> QED BY <1>1, WriteKeepsUp DEF SendAuthFailure, Send

LEMMA AuthVerifyKeeps ==
  ASSUME AgentIInv, UpOK, NEW d \in Devices, cur[d] # None,
         NEW msg, msg.app \in AppConns, DeviceOf[msg.app] = d,
         RecvAuthVerify(d, msg)
  PROVE  AgentIInv' /\ UpOK'
<1> USE AgentAssumption
<1> DEFINE m == msg.app
<1>1. CASE SendAuthFailure(d, m) /\ UNCHANGED agentVars
  BY <1>1, SendFailureKeeps
     DEF agentVars, AgentIInv, AgentTypeOK, OwnConnection, OpenRequests, Records, SessionsListed
<1>2. CASE /\ agentId[d] # None /\ trust' = [trust EXCEPT ![d][AppOf[m]] = "active"]
           /\ Authorize(d, m) /\ UNCHANGED pairing
  BY <1>2, AuthorizeKeeps
<1>3. CASE agentId[d] # None /\ AskAdministrator(d, m)
  <2>1. <<Frame("auth.pending", m, None, None)>> \in Seq(Sendable)
    BY DEF Sendable, ClientFrames, Frame
  <2>2. UpOK'
    BY <1>3, <2>1, WriteKeepsUp DEF AskAdministrator, Send
  <2> QED BY <1>3, <2>2, RequestStep DEF AskAdministrator
<1> QED BY <1>1, <1>2, <1>3 DEF RecvAuthVerify

LEMMA ApproveKeeps ==
  ASSUME AgentIInv, UpOK, NEW d \in Devices, NEW x \in Apps, Approve(d, x)
  PROVE  AgentIInv' /\ UpOK'
<1> DEFINE m == pairing[d][x]
<1>1. /\ m \in AppConns /\ DeviceOf[m] = d /\ AppOf[m] = x
      /\ cur[d] # None /\ agentId[d] # None
      /\ pairing' = [pairing EXCEPT ![d][x] = None]
  BY DEF Approve, AgentIInv, AgentTypeOK, OpenRequests
<1>2. CASE trust' = [trust EXCEPT ![d][x] = "active"] /\ Authorize(d, m)
  BY <1>1, <1>2, AuthorizeKeeps
<1>3. CASE /\ SendAuthFailure(d, m)
           /\ UNCHANGED <<cur, agentId, trust, seen, known, regConn, regLive, e2e, said>>
  BY <1>1, <1>3, SendFailureKeeps, RequestStep
<1> QED BY <1>2, <1>3 DEF Approve

LEMMA RefuseKeeps ==
  ASSUME AgentIInv, UpOK, NEW d \in Devices, NEW x \in Apps, Refuse(d, x)
  PROVE  AgentIInv' /\ UpOK'
<1>1. pairing[d][x] \in AppConns
  BY DEF Refuse, AgentIInv, AgentTypeOK
<1> QED BY <1>1, SendFailureKeeps, RequestStep DEF Refuse

\* Detaching connections S of device d whose records are live no longer.
LEMMA DetachKeeps ==
  ASSUME AgentIInv, NEW d \in Devices, NEW S \in SUBSET AppConns, Detach(S),
         NEW x \in Apps,
         UNCHANGED <<cur, agentId, seen, said>>,
         \A e \in Devices, y \in Apps : pairing'[e][y] \in {pairing[e][y], None},
         pairing' \in [Devices -> [Apps -> AppConns \cup {None}]],
         regConn' \in [Devices -> [Apps -> AppConns \cup {None}]],
         regLive' \in [Devices -> [Apps -> BOOLEAN]],
         trust' \in [Devices -> [Apps -> {"none", "active", "revoked"}]],
         \A e \in Devices, y \in Apps :
           /\ regConn'[e][y] \in {regConn[e][y], None}
           /\ regLive'[e][y] => /\ regLive[e][y] /\ regConn'[e][y] = regConn[e][y]
                                /\ regConn[e][y] \notin S,
         \A m \in AppConns :
           e2e[m] # "none" /\ m \notin S =>
             /\ trust'[DeviceOf[m]][AppOf[m]] = trust[DeviceOf[m]][AppOf[m]]
             /\ regConn'[DeviceOf[m]][AppOf[m]] = regConn[DeviceOf[m]][AppOf[m]]
  PROVE  AgentIInv'
<1> USE AgentAssumption, WireAssumption DEF AgentIInv, Conns
<1>1. /\ known' = [m \in AppConns |-> known[m] /\ m \notin S]
      /\ e2e' = [m \in AppConns |-> IF m \in S THEN "none" ELSE e2e[m]]
  BY DEF Detach
<1>2. AgentTypeOK'
  <2>1. /\ known' \in [AppConns -> BOOLEAN]
        /\ e2e' \in [AppConns -> {"none", "handshaking", "ready"}]
    BY <1>1 DEF AgentTypeOK
  <2> QED BY <2>1 DEF AgentTypeOK
<1>3. OwnConnection'
  BY DEF OwnConnection
<1>4. OpenRequests'
  <2> SUFFICES ASSUME NEW e \in Devices, NEW y \in Apps, pairing'[e][y] # None
               PROVE  /\ cur[e] # None /\ agentId[e] # None
                      /\ DeviceOf[pairing'[e][y]] = e /\ AppOf[pairing'[e][y]] = y
    BY DEF OpenRequests
  <2>1. pairing'[e][y] = pairing[e][y]
    OBVIOUS
  <2> QED BY <2>1 DEF OpenRequests
<1>5. Records'
  <2> SUFFICES ASSUME NEW e \in Devices, NEW y \in Apps
               PROVE  LET m == regConn'[e][y]
                      IN  /\ m # None => DeviceOf[m] = e /\ AppOf[m] = y
                          /\ regLive'[e][y] => m # None /\ known'[m]
    BY DEF Records
  <2>1. /\ regConn[e][y] # None => DeviceOf[regConn[e][y]] = e /\ AppOf[regConn[e][y]] = y
        /\ regLive[e][y] => regConn[e][y] # None /\ known[regConn[e][y]]
        /\ regConn[e][y] \in AppConns \cup {None}
    BY DEF Records, AgentTypeOK
  <2> QED BY <1>1, <2>1
<1>6. SessionsListed'
  <2> SUFFICES ASSUME NEW m \in AppConns, e2e'[m] # "none"
               PROVE  /\ trust'[DeviceOf[m]][AppOf[m]] = "active" /\ known'[m]
                      /\ regConn'[DeviceOf[m]][AppOf[m]] = m
                      /\ cur[DeviceOf[m]] # None /\ agentId[DeviceOf[m]] # None
    BY DEF SessionsListed
  <2>1. e2e[m] # "none" /\ m \notin S
    BY <1>1
  <2> QED BY <1>1, <2>1 DEF SessionsListed
<1>7. IsFiniteSet({m \in AppConns : known[m]})'
  <2>1. {m \in AppConns : known'[m]} \subseteq {m \in AppConns : known[m]}
    BY <1>1 DEF AgentTypeOK
  <2> QED BY <2>1, FS_Subset
<1> QED BY <1>2, <1>3, <1>4, <1>5, <1>6, <1>7

LEMMA DisconnectWrites ==
  ASSUME AgentIInv, UpOK, NEW d \in Devices, NEW x \in Apps,
         NEW first \in Seq(Sendable), Disconnect(d, x, first)
  PROVE  UpOK' /\ Detach(KnownAs(d, x)) /\ KnownAs(d, x) \in SUBSET AppConns
<1> DEFINE gone == KnownAs(d, x)
<1>1. gone \subseteq {m \in AppConns : known[m]}
  BY DEF KnownAs
<1>2. IsFiniteSet(gone)
  BY <1>1, FS_Subset DEF AgentIInv
<1>3. Cardinality(gone) \in Nat
  BY <1>2, FS_CardinalityType
<1>4. ASSUME NEW order \in [1 .. Cardinality(gone) -> gone]
      PROVE  first \o [i \in DOMAIN order |-> Frame("auth.failed", order[i], None, None)]
               \in Seq(Sendable)
  <2> DEFINE f == [i \in DOMAIN order |-> Frame("auth.failed", order[i], None, None)]
             n == Cardinality(gone)
  <2>1. \A m \in gone : Frame("auth.failed", m, None, None) \in Sendable
    BY <1>1 DEF Sendable, ClientFrames, Frame
  <2> HIDE DEF gone
  <2>2. f \in [1 .. n -> Sendable]
    BY <2>1
  <2> HIDE DEF n, f
  <2>3. f \in Seq(Sendable)
    BY <1>3, <2>2, SeqDef DEF n
  <2>4. first \o f \in Seq(Sendable)
    BY <2>3
  <2> QED BY <2>4 DEF f
<1>5. UpOK'
  <2>1. CASE cur[d] = None
    BY <2>1 DEF Disconnect, UpOK
  <2>2. CASE cur[d] # None
    BY <1>4, <2>2, WriteKeepsUp DEF Disconnect, Send
  <2> QED BY <2>1, <2>2
<1> QED BY <1>1, <1>5 DEF Disconnect

LEMMA RevokeKeeps ==
  ASSUME AgentIInv, UpOK, NEW d \in Devices, NEW x \in Apps, Revoke(d, x)
  PROVE  AgentIInv' /\ UpOK'
<1> DEFINE S == KnownAs(d, x)
<1>1. UpOK' /\ Detach(S) /\ S \in SUBSET AppConns
  BY NoFrames, DisconnectWrites DEF Revoke
<1>2. /\ trust' = [trust EXCEPT ![d][x] = "revoked"]
      /\ regLive' = [regLive EXCEPT ![d] =
                      [y \in Apps |-> regLive[d][y] /\ regConn[d][y] \notin S]]
      /\ UNCHANGED <<cur, agentId, pairing, seen, regConn, said>>
  BY DEF Revoke, Goodbye
<1>3. \A m \in AppConns : e2e[m] # "none" /\ m \notin S
                          => ~(DeviceOf[m] = d /\ AppOf[m] = x)
  BY DEF KnownAs, AgentIInv, SessionsListed
<1>4. \A e \in Devices, y \in Apps :
        regLive'[e][y] => regLive[e][y] /\ regConn[e][y] \notin S
  <2>1. ASSUME NEW e \in Devices, NEW y \in Apps, e # d, regLive[e][y]
        PROVE  regConn[e][y] \notin S
    BY <2>1 DEF KnownAs, AgentIInv, Records
  <2> HIDE DEF S
  <2> QED BY <1>2, <2>1 DEF AgentIInv, AgentTypeOK
<1> HIDE DEF S
<1>5. /\ regLive' \in [Devices -> [Apps -> BOOLEAN]]
      /\ trust' \in [Devices -> [Apps -> {"none", "active", "revoked"}]]
  BY <1>2 DEF AgentIInv, AgentTypeOK
<1>6. \A m \in AppConns : e2e[m] # "none" /\ m \notin S
        => trust'[DeviceOf[m]][AppOf[m]] = trust[DeviceOf[m]][AppOf[m]]
  BY <1>2, <1>3, AgentAssumption, WireAssumption DEF AgentIInv, AgentTypeOK, Conns
<1>7. /\ pairing \in [Devices -> [Apps -> AppConns \cup {None}]]
      /\ regConn \in [Devices -> [Apps -> AppConns \cup {None}]]
  BY DEF AgentIInv, AgentTypeOK
<1> QED BY <1>1, <1>2, <1>4, <1>5, <1>6, <1>7, DetachKeeps

LEMMA RemoveKeeps ==
  ASSUME AgentIInv, UpOK, NEW d \in Devices, NEW x \in Apps, Remove(d, x)
  PROVE  AgentIInv' /\ UpOK'
<1> DEFINE S == KnownAs(d, x)
           m == pairing[d][x]
           first == IF m = None THEN <<>> ELSE <<Frame("auth.failed", m, None, None)>>
<1>1. first \in Seq(Sendable)
  <2>1. m \in AppConns \cup {None}
    BY DEF AgentIInv, AgentTypeOK
  <2>2. m # None => Frame("auth.failed", m, None, None) \in Sendable
    BY <2>1 DEF Sendable, ClientFrames, Frame
  <2> QED BY <2>2
<1>2. Disconnect(d, x, first)
  BY DEF Remove
<1>3. UpOK' /\ Detach(S) /\ S \in SUBSET AppConns
  BY <1>1, <1>2, DisconnectWrites
<1>4. /\ trust' = [trust EXCEPT ![d][x] = "none"]
      /\ pairing' = [pairing EXCEPT ![d][x] = None]
      /\ regConn' = [regConn EXCEPT ![d][x] = None]
      /\ regLive' = [regLive EXCEPT ![d][x] = FALSE]
      /\ UNCHANGED <<cur, agentId, seen, said>>
  BY DEF Remove
<1>5. \A n \in AppConns : e2e[n] # "none" /\ n \notin S
                          => ~(DeviceOf[n] = d /\ AppOf[n] = x)
  BY DEF KnownAs, AgentIInv, SessionsListed
<1>6. \A e \in Devices, y \in Apps :
        /\ pairing'[e][y] \in {pairing[e][y], None}
        /\ regConn'[e][y] \in {regConn[e][y], None}
        /\ regLive'[e][y] => /\ regLive[e][y] /\ regConn'[e][y] = regConn[e][y]
                             /\ regConn[e][y] \notin S
  BY <1>4 DEF KnownAs, AgentIInv, AgentTypeOK, Records
<1> HIDE DEF S, first, m
<1>7. /\ regLive' \in [Devices -> [Apps -> BOOLEAN]]
      /\ trust' \in [Devices -> [Apps -> {"none", "active", "revoked"}]]
      /\ pairing' \in [Devices -> [Apps -> AppConns \cup {None}]]
      /\ regConn' \in [Devices -> [Apps -> AppConns \cup {None}]]
  BY <1>4 DEF AgentIInv, AgentTypeOK
<1>8. \A n \in AppConns : e2e[n] # "none" /\ n \notin S
        => /\ trust'[DeviceOf[n]][AppOf[n]] = trust[DeviceOf[n]][AppOf[n]]
           /\ regConn'[DeviceOf[n]][AppOf[n]] = regConn[DeviceOf[n]][AppOf[n]]
  BY <1>4, <1>5, AgentAssumption, WireAssumption DEF AgentIInv, AgentTypeOK, Conns
<1> QED BY <1>3, <1>4, <1>6, <1>7, <1>8, DetachKeeps

LEMMA FailSessionKeeps ==
  ASSUME AgentIInv, UpOK, NEW d \in Devices, NEW m \in AppConns, DeviceOf[m] = d,
         FailE2ESession(d, m)
  PROVE  AgentIInv' /\ UpOK'
<1>1. /\ Detach({m})
      /\ regLive' = [regLive EXCEPT ![d] =
                      [y \in Apps |-> regLive[d][y] /\ regConn[d][y] \notin {m}]]
      /\ UNCHANGED <<cur, agentId, trust, pairing, seen, regConn, said>>
  BY DEF FailE2ESession, Goodbye, admissionVars
<1>2. <<Frame("e2e.failed", m, None, None)>> \in Seq(Sendable)
  BY DEF Sendable, ClientFrames, Frame
<1>3. UpOK'
  BY <1>2, WriteKeepsUp DEF FailE2ESession, Send
<1>4. \A e \in Devices, y \in Apps :
        regLive'[e][y] => regLive[e][y] /\ regConn[e][y] \notin {m}
  <2>1. ASSUME NEW e \in Devices, NEW y \in Apps, e # d, regLive[e][y]
        PROVE  regConn[e][y] # m
    BY <2>1, WireAssumption DEF AgentIInv, Records, Conns
  <2> QED BY <1>1, <2>1 DEF AgentIInv, AgentTypeOK
<1>5. /\ regLive' \in [Devices -> [Apps -> BOOLEAN]]
      /\ trust \in [Devices -> [Apps -> {"none", "active", "revoked"}]]
      /\ pairing \in [Devices -> [Apps -> AppConns \cup {None}]]
      /\ regConn \in [Devices -> [Apps -> AppConns \cup {None}]]
  BY <1>1 DEF AgentIInv, AgentTypeOK
<1>6. PICK x \in Apps : TRUE
  BY AgentAssumption
<1>7. /\ {m} \in SUBSET AppConns /\ UNCHANGED <<cur, agentId, seen, said>>
      /\ \A e \in Devices, y \in Apps : pairing'[e][y] \in {pairing[e][y], None}
      /\ pairing' \in [Devices -> [Apps -> AppConns \cup {None}]]
      /\ regConn' \in [Devices -> [Apps -> AppConns \cup {None}]]
      /\ trust' \in [Devices -> [Apps -> {"none", "active", "revoked"}]]
  BY <1>1, <1>5
<1>8. \A e \in Devices, y \in Apps :
        /\ regConn'[e][y] \in {regConn[e][y], None}
        /\ regLive'[e][y] => /\ regLive[e][y] /\ regConn'[e][y] = regConn[e][y]
                             /\ regConn[e][y] \notin {m}
  BY <1>1, <1>4
<1>9. \A n \in AppConns :
        e2e[n] # "none" /\ n \notin {m} =>
          /\ trust'[DeviceOf[n]][AppOf[n]] = trust[DeviceOf[n]][AppOf[n]]
          /\ regConn'[DeviceOf[n]][AppOf[n]] = regConn[DeviceOf[n]][AppOf[n]]
  BY <1>1
<1>10. AgentIInv'
  BY <1>1, <1>5, <1>7, <1>8, <1>9, DetachKeeps
<1> QED BY <1>3, <1>10

\* A change to one session that is, or may be, there.
LEMMA SessionStep ==
  ASSUME AgentIInv, NEW m \in AppConns, NEW s \in {"none", "handshaking", "ready"},
         e2e' = [e2e EXCEPT ![m] = s],
         s # "none" => LET d == DeviceOf[m]
                           x == AppOf[m]
                       IN  /\ trust[d][x] = "active" /\ known[m] /\ regConn[d][x] = m
                           /\ cur[d] # None /\ agentId[d] # None,
         UNCHANGED <<cur, agentId, trust, pairing, seen, known, regConn, regLive, said>>
  PROVE  AgentIInv'
<1> USE DEF AgentIInv
<1>1. AgentTypeOK'
  BY DEF AgentTypeOK
<1>2. OwnConnection' /\ OpenRequests' /\ Records'
  BY DEF OwnConnection, OpenRequests, Records
<1>3. SessionsListed'
  BY DEF SessionsListed, AgentTypeOK
<1> QED BY <1>1, <1>2, <1>3

LEMMA HandshakeInitKeeps ==
  ASSUME AgentIInv, UpOK, NEW d \in Devices, cur[d] # None, NEW msg,
         msg.app \in AppConns, DeviceOf[msg.app] = d, msg.ref \in AppConns,
         RecvHandshakeInit(d, msg)
  PROVE  AgentIInv' /\ UpOK'
<1> DEFINE m == msg.app
           x == AppOf[m]
<1>1. CASE UNCHANGED <<agentVars, up>>
  BY <1>1 DEF agentVars, AgentIInv, AgentTypeOK, OwnConnection, OpenRequests, Records,
              SessionsListed, UpOK
<1>2. CASE Answerable(d, msg) /\ ~UNCHANGED <<agentVars, up>>
  <2>1. /\ regConn[d][x] = m /\ regLive[d][x] /\ trust[d][x] = "active"
        /\ agentId[d] \in AgentConns
    BY <1>2 DEF Answerable, Tracked, AgentIInv, AgentTypeOK
  <2>2. known[m]
    BY <2>1, AgentAssumption DEF AgentIInv, Records
  <2>3. <<Frame("e2e.handshake.reply", m, agentId[d], msg.ref),
          Frame("e2e.ready", m, agentId[d], msg.ref)>> \in Seq(Sendable)
    BY <2>1, WrittenFrames
  <2>4. <<Frame("e2e.failed", m, None, None)>> \in Seq(Sendable)
    BY DEF Sendable, ClientFrames, Frame
  <2>5. UpOK'
    BY <1>2, <2>3, <2>4, WriteKeepsUp DEF RecvHandshakeInit, Send
  <2>6. /\ e2e' = [e2e EXCEPT ![m] = "handshaking"] \/ e2e' = [e2e EXCEPT ![m] = "none"]
        /\ UNCHANGED <<cur, agentId, trust, pairing, seen, known, regConn, regLive, said>>
    BY <1>2 DEF RecvHandshakeInit, admissionVars
  <2>7. AgentIInv'
    <3>1. CASE e2e' = [e2e EXCEPT ![m] = "handshaking"]
      <4>1. /\ trust[DeviceOf[m]][x] = "active" /\ known[m]
            /\ regConn[DeviceOf[m]][x] = m
            /\ cur[DeviceOf[m]] # None /\ agentId[DeviceOf[m]] # None
        BY <2>1, <2>2, WireAssumption DEF Conns
      <4> QED BY <2>6, <3>1, <4>1, SessionStep
    <3>2. CASE e2e' = [e2e EXCEPT ![m] = "none"]
      BY <2>6, <3>2, SessionStep
    <3> QED BY <2>6, <3>1, <3>2
  <2> QED BY <2>5, <2>7
<1> QED BY <1>1, <1>2 DEF RecvHandshakeInit

LEMMA E2EReadyKeeps ==
  ASSUME AgentIInv, UpOK, NEW d \in Devices, NEW msg, msg.app \in AppConns,
         DeviceOf[msg.app] = d, RecvE2EReady(d, msg)
  PROVE  AgentIInv' /\ UpOK'
<1>1. CASE UNCHANGED <<agentVars, up>>
  BY <1>1 DEF agentVars, AgentIInv, AgentTypeOK, OwnConnection, OpenRequests, Records,
              SessionsListed, UpOK
<1>2. CASE FailE2ESession(d, msg.app)
  BY <1>2, FailSessionKeeps
<1>3. CASE /\ e2e[msg.app] # "none" /\ e2e' = [e2e EXCEPT ![msg.app] = "ready"]
           /\ UNCHANGED <<cur, agentId, admissionVars, known, regConn, regLive, up, said>>
  <2>1. UpOK'
    BY <1>3 DEF UpOK
  <2>2. LET m == msg.app
            x == AppOf[m]
        IN  /\ trust[d][x] = "active" /\ known[m] /\ regConn[d][x] = m
            /\ cur[d] # None /\ agentId[d] # None
    BY <1>3 DEF AgentIInv, SessionsListed
  <2> QED BY <1>3, <2>1, <2>2, SessionStep DEF admissionVars
<1> QED BY <1>1, <1>2, <1>3 DEF RecvE2EReady

LEMMA E2EMessageKeeps ==
  ASSUME AgentIInv, UpOK, NEW d \in Devices, NEW msg, msg.app \in AppConns,
         DeviceOf[msg.app] = d, RecvE2EMessage(d, msg)
  PROVE  AgentIInv' /\ UpOK'
<1>1. CASE UNCHANGED <<agentVars, up>>
  BY <1>1 DEF agentVars, AgentIInv, AgentTypeOK, OwnConnection, OpenRequests, Records,
              SessionsListed, UpOK
<1>2. CASE FailE2ESession(d, msg.app)
  BY <1>2, FailSessionKeeps
<1>3. CASE /\ Goodbye(d, {msg.app}) \/ UNCHANGED regLive
           /\ UNCHANGED <<cur, agentId, admissionVars, known, regConn, e2e, up, said>>
  <2>1. /\ regLive' \in [Devices -> [Apps -> BOOLEAN]]
        /\ \A e \in Devices, y \in Apps : regLive'[e][y] => regLive[e][y]
    <3>1. CASE Goodbye(d, {msg.app})
      BY <3>1 DEF Goodbye, AgentIInv, AgentTypeOK
    <3> QED BY <1>3, <3>1 DEF AgentIInv, AgentTypeOK
  <2>2. AgentTypeOK'
    BY <1>3, <2>1 DEF AgentIInv, AgentTypeOK, admissionVars
  <2>3. OwnConnection' /\ OpenRequests' /\ SessionsListed'
    BY <1>3 DEF AgentIInv, OwnConnection, OpenRequests, SessionsListed, admissionVars
  <2>4. Records'
    BY <1>3, <2>1 DEF AgentIInv, Records
  <2> QED BY <1>3, <2>2, <2>3, <2>4 DEF AgentIInv, UpOK
<1> QED BY <1>1, <1>2, <1>3 DEF RecvE2EMessage

LEMMA SendBusinessKeeps ==
  ASSUME AgentIInv, UpOK, NEW d \in Devices, NEW m \in AppConns, DeviceOf[m] = d,
         SendBusiness(d, m)
  PROVE  AgentIInv' /\ UpOK'
<1>1. /\ said[m] < MaxSend /\ said' = [said EXCEPT ![m] = @ + 1]
      /\ UNCHANGED <<cur, agentId, trust, pairing, seen, known, regConn, regLive, e2e>>
  BY DEF SendBusiness, admissionVars
<1>2. agentId[d] \in AgentConns
  BY DEF SendBusiness, CanSendTo, AgentIInv, SessionsListed, AgentTypeOK
<1>3. <<Frame("e2e.message", m, agentId[d], m)>> \in Seq(Sendable)
  BY <1>2, WrittenFrames DEF E2EData
<1>4. UpOK'
  BY <1>3, WriteKeepsUp DEF SendBusiness, Send
<1>5. AgentTypeOK'
  BY <1>1, WireAssumption DEF AgentIInv, AgentTypeOK
<1>6. OwnConnection' /\ OpenRequests' /\ Records' /\ SessionsListed'
  BY <1>1 DEF AgentIInv, OwnConnection, OpenRequests, Records, SessionsListed
<1> QED BY <1>1, <1>4, <1>5, <1>6 DEF AgentIInv

\* Whatever frame the Agent is sent.
LEMMA AgentHandleKeeps ==
  ASSUME AgentIInv, UpOK, NEW d \in Devices, cur[d] # None,
         NEW msg \in FramesFor(cur[d]), AgentHandle(d, msg)
  PROVE  AgentIInv' /\ UpOK'
<1>1. cur[d] \in AgentConns /\ DeviceOf[cur[d]] = d
  BY DEF AgentIInv, AgentTypeOK, OwnConnection
<1>2. /\ msg.type \in AboutApps => /\ msg.app \in AppConns /\ DeviceOf[msg.app] = d
                                   /\ msg.ref \in AppConns
      /\ msg.type = "auth.ok" => msg.agent = cur[d]
  BY <1>1 DEF FramesFor
<1>3. CASE UNCHANGED <<agentVars, up>>
  BY <1>3 DEF agentVars, AgentIInv, AgentTypeOK, OwnConnection, OpenRequests, Records,
              SessionsListed, UpOK
<1>4. CASE RecvChallenge(d)
  <2>1. <<Plain("agent.hello")>> \in Seq(Sendable)
    BY DEF Sendable, ClientFrames
  <2>2. UpOK'
    BY <1>4, <2>1, WriteKeepsUp DEF RecvChallenge, Send
  <2> QED BY <1>4, <2>2
          DEF RecvChallenge, agentVars, AgentIInv, AgentTypeOK, OwnConnection,
              OpenRequests, Records, SessionsListed
<1>5. CASE msg.type = "auth.ok" /\ RecvRelayAuthOk(d, msg)
  <2>1. /\ agentId' = [agentId EXCEPT ![d] = msg.agent]
        /\ UNCHANGED <<cur, trust, pairing, seen, known, regConn, regLive, e2e, up, said>>
    BY <1>5 DEF RecvRelayAuthOk, admissionVars
  <2>2. AgentTypeOK'
    BY <1>2, <1>5, <2>1 DEF AgentIInv, AgentTypeOK
  <2>3. \A e \in Devices : agentId[e] # None => agentId'[e] # None
    BY <1>2, <1>5, <2>1, WireAssumption DEF AgentIInv, AgentTypeOK, Conns
  <2>4. OwnConnection' /\ Records'
    BY <1>2, <1>5, <2>1 DEF AgentIInv, AgentTypeOK, OwnConnection, Records
  <2>5. OpenRequests'
    BY <2>1, <2>3 DEF AgentIInv, OpenRequests
  <2>6. SessionsListed'
    BY <2>1, <2>3, WireAssumption DEF AgentIInv, SessionsListed, Conns
  <2> QED BY <2>1, <2>2, <2>4, <2>5, <2>6 DEF AgentIInv, UpOK
<1>6. CASE msg.type = "auth.verify" /\ RecvAuthVerify(d, msg)
  BY <1>2, <1>6, AuthVerifyKeeps DEF AboutApps
<1>7. CASE msg.type = "e2e.handshake.init" /\ RecvHandshakeInit(d, msg)
  BY <1>2, <1>7, HandshakeInitKeeps DEF AboutApps
<1>8. CASE msg.type = "e2e.ready" /\ RecvE2EReady(d, msg)
  BY <1>2, <1>8, E2EReadyKeeps DEF AboutApps
<1>9. CASE msg.type \in E2EData /\ RecvE2EMessage(d, msg)
  BY <1>2, <1>9, E2EMessageKeeps DEF AboutApps
<1>10. CASE ConnectionLost(d) /\ UNCHANGED up
  BY <1>10, ConnectionLostKeeps DEF UpOK
<1> QED
  BY <1>3, <1>4, <1>5, <1>6, <1>7, <1>8, <1>9, <1>10 DEF AgentHandle, E2EData

-----------------------------------------------------------------------------
(* The App.                                                                *)

LEMMA AppShutKeeps ==
  ASSUME AppIInv, UpOK, NEW m \in AppConns, NEW frames \in Seq(Sendable),
         AppShut(m, frames)
  PROVE  AppIInv' /\ UpOK'
<1>1. frames \o <<Close>> \in Seq(Sendable)
  <2>1. <<Close>> \in Seq(Sendable)
    BY DEF Sendable
  <2> QED BY <2>1
<1>2. UpOK'
  BY <1>1, WriteKeepsUp DEF AppShut, AppSend
<1>3. AppIInv'
  BY WireAssumption DEF AppShut, AppIInv, AppTypeOK, Phases
<1> QED BY <1>2, <1>3

\* A step of a session that goes on: a phase, an agent, frames written.
LEMMA AppStep ==
  ASSUME AppIInv, UpOK, NEW m \in AppConns, NEW p \in Phases,
         NEW frames \in Seq(Sendable),
         phase' = [phase EXCEPT ![m] = p],
         up' = [up EXCEPT ![m] = @ \o frames],
         agentOf' \in [AppConns -> AgentConns \cup {None}],
         \A n \in AppConns : n # m => agentOf'[n] = agentOf[n],
         p \notin {"idle", "connected", "closed"} => agentOf'[m] # None,
         queued' \in [AppConns -> 0 .. MaxSend],
         sent' \in [AppConns -> 0 .. MaxSend],
         \A n \in AppConns : queued'[n] <= sent'[n]
  PROVE  AppIInv' /\ UpOK'
<1>1. UpOK'
  BY WriteKeepsUp
<1>2. AppTypeOK'
  BY DEF AppIInv, AppTypeOK
<1>3. \A n \in AppConns :
        phase'[n] \notin {"idle", "connected", "closed"} => agentOf'[n] # None
  BY DEF AppIInv, AppTypeOK
<1> QED BY <1>1, <1>2, <1>3 DEF AppIInv

\* A step that leaves the App as it is.
LEMMA AppRests ==
  ASSUME AppIInv, UNCHANGED appVars
  PROVE  AppIInv'
BY DEF appVars, AppIInv, AppTypeOK

LEMMA AgentRests ==
  ASSUME AgentIInv, UNCHANGED agentVars
  PROVE  AgentIInv'
BY DEF agentVars, AgentIInv, AgentTypeOK, OwnConnection, OpenRequests, Records,
       SessionsListed

\* What an App in a phase with an agent writes to it.
LEMMA AppFrames ==
  ASSUME AppIInv, NEW m \in AppConns, phase[m] \notin {"idle", "connected", "closed"}
  PROVE  /\ agentOf[m] \in AgentConns
         /\ \A t \in {"auth.proof", "e2e.handshake.init", "e2e.ready"} \cup E2EData :
              <<Frame(t, m, agentOf[m], m)>> \in Seq(Sendable)
<1>1. agentOf[m] \in AgentConns
  BY DEF AppIInv, AppTypeOK
<1>2. \A t \in {"auth.proof", "e2e.handshake.init", "e2e.ready"} \cup E2EData :
        Frame(t, m, agentOf[m], m) \in Sendable
  BY <1>1, WrittenFrames
<1> QED BY <1>1, <1>2

\* connect, and the awaited halves of the pairing and the handshake.
LEMMA AppWritesKeeps ==
  ASSUME AppIInv, UpOK, NEW m \in AppConns,
         AppConnect(m) \/ AppSendProof(m) \/ AppSendHandshakeInit(m)
  PROVE  AppIInv' /\ UpOK'
<1>1. /\ agentOf \in [AppConns -> AgentConns \cup {None}]
      /\ queued \in [AppConns -> 0 .. MaxSend] /\ sent \in [AppConns -> 0 .. MaxSend]
      /\ \A n \in AppConns : queued[n] <= sent[n]
  BY DEF AppIInv, AppTypeOK
<1>2. CASE AppConnect(m)
  <2>1. <<Plain("mobile.connect")>> \in Seq(Sendable)
    BY DEF Sendable, ClientFrames
  <2> QED BY <1>1, <1>2, <2>1, AppStep DEF AppConnect, AppSend, Phases
<1>3. CASE AppSendProof(m)
  <2>1. agentOf[m] \in AgentConns /\ <<Frame("auth.proof", m, agentOf[m], m)>> \in Seq(Sendable)
    BY <1>3, AppFrames DEF AppSendProof
  <2> QED BY <1>1, <1>3, <2>1, AppStep, WireAssumption DEF AppSendProof, AppSend, Phases, Conns
<1>4. CASE AppSendHandshakeInit(m)
  <2>1. /\ agentOf[m] \in AgentConns
        /\ <<Frame("e2e.handshake.init", m, agentOf[m], m)>> \in Seq(Sendable)
    BY <1>4, AppFrames DEF AppSendHandshakeInit
  <2> QED BY <1>1, <1>4, <2>1, AppStep, WireAssumption
          DEF AppSendHandshakeInit, AppSend, Phases, Conns
<1> QED BY <1>2, <1>3, <1>4

LEMMA AppSendBusinessKeeps ==
  ASSUME AppIInv, UpOK, NEW m \in AppConns, AppSendBusiness(m)
  PROVE  AppIInv' /\ UpOK'
<1> USE WireAssumption DEF AppIInv, AppTypeOK
<1>1. /\ sent[m] < MaxSend /\ sent' = [sent EXCEPT ![m] = @ + 1]
      /\ UNCHANGED <<phase, agentOf>>
      /\ UNCHANGED queued \/ queued' = [queued EXCEPT ![m] = @ + 1]
  BY DEF AppSendBusiness
<1>2. AppIInv'
  BY <1>1
<1>3. UpOK'
  <2>1. CASE phase[m] = "ready"
    BY <2>1, AppFrames, WriteKeepsUp DEF AppSendBusiness, AppSend, E2EData
  <2>2. CASE phase[m] # "ready"
    BY <2>2 DEF AppSendBusiness, UpOK
  <2> QED BY <2>1, <2>2
<1> QED BY <1>2, <1>3

LEMMA AppCloseKeeps ==
  ASSUME AppIInv, UpOK, NEW m \in AppConns, AppClose(m)
  PROVE  AppIInv' /\ UpOK'
<1>1. phase[m] = "ready" => <<Frame("e2e.goodbye", m, agentOf[m], m)>> \in Seq(Sendable)
  BY AppFrames DEF E2EData
<1>2. <<>> \in Seq(Sendable)
  BY NoFrames
<1>3. (IF phase[m] = "ready" THEN <<Frame("e2e.goodbye", m, agentOf[m], m)>> ELSE <<>>)
        \in Seq(Sendable)
  BY <1>1, <1>2
<1> QED BY <1>3, AppShutKeeps DEF AppClose

LEMMA AppReplyKeeps ==
  ASSUME AppIInv, UpOK, NEW m \in AppConns, NEW msg, AppRecvReply(m, msg)
  PROVE  AppIInv' /\ UpOK'
<1>1. CASE UNCHANGED <<appVars, up>>
  BY <1>1, AppRests DEF UpOK
<1>2. CASE AppShut(m, <<>>)
  BY <1>2, NoFrames, AppShutKeeps
<1>3. CASE /\ phase[m] = "initiated"
           /\ phase' = [phase EXCEPT ![m] = "session"]
           /\ AppSend(m, <<Frame("e2e.ready", m, agentOf[m], m)>>)
           /\ UNCHANGED <<agentOf, queued, sent>>
  <2>1. /\ agentOf[m] \in AgentConns
        /\ <<Frame("e2e.ready", m, agentOf[m], m)>> \in Seq(Sendable)
    BY <1>3, AppFrames
  <2>2. /\ agentOf \in [AppConns -> AgentConns \cup {None}]
        /\ queued \in [AppConns -> 0 .. MaxSend] /\ sent \in [AppConns -> 0 .. MaxSend]
        /\ \A n \in AppConns : queued[n] <= sent[n]
    BY DEF AppIInv, AppTypeOK
  <2> QED BY <1>3, <2>1, <2>2, AppStep, WireAssumption DEF AppSend, Phases, Conns
<1> QED BY <1>1, <1>2, <1>3 DEF AppRecvReply

\* What waited for the peer goes out when the agent's e2e.ready arrives.
LEMMA AppReadyKeeps ==
  ASSUME AppIInv, UpOK, NEW m \in AppConns, NEW msg, AppRecvE2EReady(m, msg)
  PROVE  AppIInv' /\ UpOK'
<1>1. CASE UNCHANGED <<appVars, up>>
  BY <1>1, AppRests DEF UpOK
<1>2. CASE AppShut(m, <<>>)
  BY <1>2, NoFrames, AppShutKeeps
<1>3. CASE /\ phase[m] \in {"session", "ready"}
           /\ phase' = [phase EXCEPT ![m] = "ready"]
           /\ queued' = [queued EXCEPT ![m] = 0]
           /\ AppSend(m, [i \in 1 .. queued[m] |->
                            Frame("e2e.message", m, agentOf[m], m)])
           /\ UNCHANGED <<agentOf, sent>>
  <2> DEFINE frame == Frame("e2e.message", m, agentOf[m], m)
             waiting == [i \in 1 .. queued[m] |-> frame]
  <2>1. agentOf[m] \in AgentConns
    BY <1>3, AppFrames
  <2>2. frame \in Sendable
    BY <2>1, WrittenFrames DEF E2EData
  <2>3. queued[m] \in Nat
    BY WireAssumption DEF AppIInv, AppTypeOK
  <2>4. waiting \in Seq(Sendable)
    <3> HIDE DEF frame
    <3>1. waiting \in [1 .. queued[m] -> Sendable]
      BY <2>2
    <3> HIDE DEF waiting
    <3> QED BY <2>3, <3>1, SeqDef
  <2>5. /\ agentOf' \in [AppConns -> AgentConns \cup {None}]
        /\ queued' \in [AppConns -> 0 .. MaxSend] /\ sent' \in [AppConns -> 0 .. MaxSend]
        /\ \A n \in AppConns : queued'[n] <= sent'[n] /\ agentOf'[n] = agentOf[n]
    BY <1>3, WireAssumption DEF AppIInv, AppTypeOK
  <2>6. up' = [up EXCEPT ![m] = @ \o waiting]
    BY <1>3 DEF AppSend
  <2> HIDE DEF waiting, frame
  <2> QED BY <1>3, <2>1, <2>4, <2>5, <2>6, AppStep, WireAssumption DEF Phases, Conns
<1> QED BY <1>1, <1>2, <1>3 DEF AppRecvE2EReady

\* Whatever frame the App is sent.
LEMMA AppHandleKeeps ==
  ASSUME AppIInv, UpOK, NEW m \in AppConns, NEW msg \in FramesFor(m), AppHandle(m, msg)
  PROVE  AppIInv' /\ UpOK'
<1>1. CASE UNCHANGED <<appVars, up>>
  BY <1>1, AppRests DEF UpOK
<1>2. CASE AppShut(m, <<>>)
  BY <1>2, NoFrames, AppShutKeeps
<1>3. CASE msg.type = "auth.challenge" /\ AppRecvChallenge(m, msg)
  <2>1. msg.agent \in AgentConns
    BY <1>3 DEF FramesFor
  <2>2. UpOK'
    BY <1>3 DEF AppRecvChallenge, UpOK
  <2>3. AppIInv'
    BY <1>3, <2>1, WireAssumption DEF AppRecvChallenge, AppIInv, AppTypeOK, Phases, Conns
  <2> QED BY <2>2, <2>3
<1>4. CASE phase[m] = "proved" /\ AppRecvAuthOk(m, msg) /\ ~AppShut(m, <<>>)
  <2>1. UpOK'
    BY <1>4 DEF AppRecvAuthOk, UpOK
  <2>2. AppIInv'
    BY <1>4 DEF AppRecvAuthOk, AppIInv, AppTypeOK, Phases
  <2> QED BY <2>1, <2>2
<1>5. CASE AppClose(m)
  BY <1>5, AppCloseKeeps
<1>6. CASE AppRecvReply(m, msg)
  BY <1>6, AppReplyKeeps
<1>7. CASE AppRecvE2EReady(m, msg)
  BY <1>7, AppReadyKeeps
<1> QED
  BY <1>1, <1>2, <1>3, <1>4, <1>5, <1>6, <1>7
     DEF AppHandle, AppRecvAuthOk, AppRecvE2EMessage, AppRecvE2EFailed

-----------------------------------------------------------------------------
(* The system.                                                             *)

LEMMA InitPInv == Init => PInv
<1> SUFFICES ASSUME Init PROVE PInv
  OBVIOUS
<1> USE DEF Init
<1>1. IInv
  BY InitIInv
<1>2. UpOK /\ DownOK
  <2>1. <<>> \in Seq(Sendable) /\ <<>> \in Seq(Messages)
        /\ \A c \in Conns : <<>> \in Seq(FramesFor(c))
    OBVIOUS
  <2> QED BY <2>1 DEF WireInit, UpOK, DownOK
<1>3. AgentIInv
  <2>1. AgentTypeOK
    BY WireAssumption DEF AgentInit, AgentTypeOK
  <2>2. OwnConnection /\ OpenRequests /\ Records /\ SessionsListed
    BY AgentAssumption, WireAssumption
       DEF AgentInit, OwnConnection, OpenRequests, Records, SessionsListed, Conns
  <2>3. {m \in AppConns : known[m]} = {}
    BY DEF AgentInit
  <2> QED BY <2>1, <2>2, <2>3, FS_EmptySet DEF AgentIInv
<1>4. AppIInv
  BY WireAssumption DEF AppInit, AppIInv, AppTypeOK, Phases
<1> QED BY <1>1, <1>2, <1>3, <1>4 DEF PInv

\* Every step of the system is a step of the relay among arbitrary clients, or
\* leaves it alone.
LEMMA RelayStep ==
  ASSUME PInv, [Next]_vars
  PROVE  [RelayNext]_<<relayVars, down>>
<1>1. ASSUME NEW c \in Conns, Read(c) PROVE RelayNext
  <2>1. Head(up[c]) \in Sendable
    BY <1>1, TakeKeepsUp DEF Read, PInv
  <2>2. Head(up[c]).type # "close" => Head(up[c]) \in ClientFrames
    BY <1>1, <2>1, ClientFramesAre, AsksUnhandled DEF Read
  <2> QED BY <1>1, <2>2 DEF Read, RelayNext, Receive
<1>2. ASSUME NEW c \in Conns, RelayCloses(c) PROVE RelayNext
  BY <1>2 DEF RelayCloses, RelayNext
<1>3. ASSUME NEW m \in AppConns, Expire(m) PROVE RelayNext
  BY <1>3 DEF Expire, RelayNext
<1>4. ASSUME NEW d \in Devices, AgentConnects(d) PROVE RelayNext
  BY <1>4 DEF AgentConnects, RelayNext, Conns
<1>5. ASSUME NEW d \in Devices, AgentReads(d) PROVE RelayNext
  <2>1. cur[d] \in Conns
    BY <1>5 DEF AgentReads, PInv, AgentIInv, AgentTypeOK, Conns
  <2> QED BY <1>5, <2>1 DEF AgentReads, RelayNext, Deliver
<1>6. ASSUME NEW m \in AppConns, AppConnects(m) PROVE RelayNext
  BY <1>6 DEF AppConnects, RelayNext, Conns
<1>7. ASSUME NEW m \in AppConns, AppReads(m) PROVE RelayNext
  BY <1>7 DEF AppReads, RelayNext, Deliver, Conns
<1>8. ASSUME NEW d \in Devices, AgentHangsUp(d) \/ AgentDecides(d) \/ AgentSends(d)
      PROVE  UNCHANGED <<relayVars, down>>
  BY <1>8 DEF AgentHangsUp, AgentDecides, AgentSends
<1>9. ASSUME NEW m \in AppConns, AppResumes(m) \/ AppSends(m) \/ AppLeaves(m)
      PROVE  UNCHANGED <<relayVars, down>>
  BY <1>9 DEF AppResumes, AppSends, AppLeaves
<1> QED BY <1>1, <1>2, <1>3, <1>4, <1>5, <1>6, <1>7, <1>8, <1>9 DEF Next, vars

LEMMA NextPInv ==
  ASSUME PInv, [Next]_vars
  PROVE  PInv'
<1> USE DEF PInv
<1>0. IInv'
  BY RelayStep, NextIInv
<1> SUFFICES UpOK' /\ DownOK' /\ AgentIInv' /\ AppIInv'
  BY <1>0
<1>1. ASSUME NEW c \in Conns, Read(c)
      PROVE  UpOK' /\ DownOK' /\ AgentIInv' /\ AppIInv'
  <2>1. UpOK' /\ Head(up[c]) \in Sendable
    BY <1>1, TakeKeepsUp DEF Read
  <2>2. AgentIInv' /\ AppIInv'
    BY <1>1, AgentRests, AppRests DEF Read
  <2>3. CASE Head(up[c]).type = "close"
    BY <1>1, <2>1, <2>2, <2>3 DEF Read, SocketEnded, DownOK, FramesFor
  <2>4. CASE Head(up[c]).type # "close"
    BY <1>1, <2>1, <2>2, <2>4, ClientFramesAre, AsksUnhandled, HandleKeepsDown DEF Read
  <2> QED BY <2>3, <2>4
<1>2. ASSUME NEW c \in Conns, RelayCloses(c)
      PROVE  UpOK' /\ DownOK' /\ AgentIInv' /\ AppIInv'
  BY <1>2, PushCloseKeeps, AgentRests, AppRests DEF RelayCloses, CloseByRelay, UpOK
<1>3. ASSUME NEW m \in AppConns, Expire(m)
      PROVE  UpOK' /\ DownOK' /\ AgentIInv' /\ AppIInv'
  <2>1. DownOK'
    BY <1>3, FailAndCloseKeeps DEF Expire, ExpirePending, DownOK, FramesFor, Conns
  <2> QED BY <1>3, <2>1, AgentRests, AppRests DEF Expire, UpOK
<1>4. ASSUME NEW d \in Devices, AgentConnects(d)
      PROVE  UpOK' /\ DownOK' /\ AgentIInv' /\ AppIInv'
  BY <1>4, ConnectKeeps, AppRests DEF AgentConnects, Accept, DownOK, FramesFor
<1>5. ASSUME NEW d \in Devices, AgentReads(d)
      PROVE  UpOK' /\ DownOK' /\ AgentIInv' /\ AppIInv'
  <2>1. cur[d] \in Conns
    BY <1>5 DEF AgentReads, AgentIInv, AgentTypeOK, Conns
  <2>2. DownOK' /\ Head(down[cur[d]]) \in FramesFor(cur[d])
    BY <1>5, <2>1, TakeKeepsDown DEF AgentReads
  <2> QED BY <1>5, <2>2, AgentHandleKeeps, AppRests DEF AgentReads
<1>6. ASSUME NEW d \in Devices, AgentHangsUp(d)
      PROVE  UpOK' /\ DownOK' /\ AgentIInv' /\ AppIInv'
  <2>1. UpOK'
    <3>1. up' = [up EXCEPT ![cur[d]] = Append(@, Close)]
      BY <1>6 DEF AgentHangsUp, HangUp
    <3>2. Close \in Sendable
      BY DEF Sendable
    <3> HIDE DEF Close
    <3>3. up' = [b \in Conns |-> IF b = cur[d] THEN Append(up[b], Close) ELSE up[b]]
      BY <3>1 DEF UpOK
    <3>4. \A b \in Conns : up[b] \in Seq(Sendable) /\ Append(up[b], Close) \in Seq(Sendable)
      BY <3>2 DEF UpOK
    <3> QED BY <3>3, <3>4 DEF UpOK
  <2> QED BY <1>6, <2>1, ConnectionLostKeeps, AppRests
          DEF AgentHangsUp, HangUp, DownOK, FramesFor
<1>7. ASSUME NEW d \in Devices, AgentDecides(d)
      PROVE  UpOK' /\ DownOK' /\ AgentIInv' /\ AppIInv'
  BY <1>7, ApproveKeeps, RefuseKeeps, RevokeKeeps, RemoveKeeps, AppRests
     DEF AgentDecides, DownOK, FramesFor
<1>8. ASSUME NEW d \in Devices, AgentSends(d)
      PROVE  UpOK' /\ DownOK' /\ AgentIInv' /\ AppIInv'
  BY <1>8, SendBusinessKeeps, AppRests DEF AgentSends, DownOK, FramesFor
<1>9. ASSUME NEW m \in AppConns, AppConnects(m)
      PROVE  UpOK' /\ DownOK' /\ AgentIInv' /\ AppIInv'
  BY <1>9, AppWritesKeeps, AgentRests DEF AppConnects, Accept, DownOK, FramesFor
<1>10. ASSUME NEW m \in AppConns, AppReads(m)
       PROVE  UpOK' /\ DownOK' /\ AgentIInv' /\ AppIInv'
  <2>1. DownOK' /\ Head(down[m]) \in FramesFor(m)
    BY <1>10, TakeKeepsDown DEF AppReads, Conns
  <2> QED BY <1>10, <2>1, AppHandleKeeps, AgentRests DEF AppReads
<1>11. ASSUME NEW m \in AppConns, AppResumes(m) \/ AppSends(m) \/ AppLeaves(m)
       PROVE  UpOK' /\ DownOK' /\ AgentIInv' /\ AppIInv'
  BY <1>11, AppWritesKeeps, AppSendBusinessKeeps, AppCloseKeeps, AgentRests
     DEF AppResumes, AppSends, AppLeaves, DownOK, FramesFor
<1>12. CASE UNCHANGED vars
  BY <1>12, AgentRests, AppRests DEF vars, UpOK, DownOK, FramesFor
<1> QED
  BY <1>1, <1>2, <1>3, <1>4, <1>5, <1>6, <1>7, <1>8, <1>9, <1>10, <1>11, <1>12 DEF Next

THEOREM PairingInvariant == Spec => []PInv
BY InitPInv, NextPInv, PTL DEF Spec

\* The relay among its real clients does nothing the relay among arbitrary
\* clients does not do: what the Agent and the App write is always a frame the
\* relay's parser accepts, and every handler's step is one of RelaySpec.  What
\* is proved of RelaySpec therefore holds of the system.
THEOREM RelayImplemented == Spec => RelaySpec
<1>1. Init => RelayInit /\ down = [c \in Conns |-> <<>>]
  BY DEF Init, WireInit
<1>2. PInv /\ [Next]_vars => [RelayNext]_<<relayVars, down>>
  BY RelayStep
<1> QED BY <1>1, <1>2, PairingInvariant, PTL DEF Spec, RelaySpec

LEMMA PInvTyped == PInv => TypeOK
<1>1. UpOK => up \in [Conns -> Seq(Messages)]
  <2>1. Sendable \subseteq Messages
    BY ClientFramesAre
  <2> QED BY <2>1 DEF UpOK
<1> QED BY <1>1 DEF PInv, TypeOK, WireTypeOK, DownOK, IInv, AgentIInv, AppIInv

THEOREM SystemTyped == Spec => []TypeOK
BY PInvTyped, PairingInvariant, PTL

\* Whatever the order of approvals, revocations, reconnections and late frames,
\* the Agent holds sessions only with Apps whose record is active, lists each
\* under its App, where a revocation looks for it, and holds one at most with
\* an installation.
THEOREM SessionsAreHeld == Spec => []SessionsHeld
<1>1. PInv => SessionsRevocable
  BY DEF PInv, AgentIInv, SessionsListed, SessionsRevocable
<1>2. PInv => OneSessionPerApp
  BY DEF PInv, AgentIInv, SessionsListed, OneSessionPerApp
<1> QED BY <1>1, <1>2, PairingInvariant, PTL DEF SessionsHeld

\* What RelaySession_proofs shows of the relay holds with the real clients.
THEOREM SystemRegistry == Spec => [](Registry /\ HandshakeAuthenticated)
BY RelayImplemented, RegistryConsistent, HandshakeNeedsPairing, PTL

-----------------------------------------------------------------------------
(* Who vouches for an App.  Frames are judged by what is true when they are *)
(* read, so each condition on one holds from its writing on.                *)

Late == {"keying", "initiated", "session", "ready"}

\* App m has answered a challenge that named agent connection a, or has closed.
Proved(m, a) ==
  \/ phase[m] = "closed"
  \/ phase[m] \in {"proved"} \cup Late /\ agentOf[m] = a

\* ... and the relay has challenged it in no other agent's name.
Vouchable(m, a) ==
  role[m] = "mobile" /\ pending[m] \in {a, None} /\ Proved(m, a)

\* mobile.connect is the first frame an App writes, and the only one of its kind.
Connects ==
  \A m \in AppConns :
    /\ phase[m] = "idle" => up[m] = <<>> /\ role[m] = "unknown"
    /\ \A i \in DOMAIN up[m] :
         up[m][i].type = "mobile.connect" =>
           i = 1 /\ role[m] = "unknown" /\ phase[m] \in {"connected", "closed"}

\* So an App is challenged once, and told auth.ok once it is authenticated.
Challenges ==
  \A m \in AppConns :
    /\ pending[m] # None => role[m] = "mobile"
    /\ phase[m] \in Late => authed[m]
    /\ \A i \in DOMAIN down[m] :
         /\ down[m][i].type = "auth.challenge" =>
              /\ role[m] = "mobile" /\ phase[m] \in {"connected", "closed"}
              /\ \A j \in DOMAIN down[m] : down[m][j].type = "auth.challenge" => i = j
         /\ down[m][i].type = "auth.ok" => authed[m]

Proofs ==
  \A m \in AppConns : \A i \in DOMAIN up[m] :
    up[m][i].type = "auth.proof" => Proved(m, up[m][i].agent)

Verifies ==
  \A a \in AgentConns : \A i \in DOMAIN down[a] :
    down[a][i].type = "auth.verify" => Vouchable(down[a][i].app, a)

Requests ==
  \A d \in Devices, x \in Apps :
    pairing[d][x] # None => Vouchable(pairing[d][x], cur[d])

Vouchers ==
  \A a \in AgentConns : \A i \in DOMAIN up[a] :
    up[a][i].type = "auth.ok" =>
      up[a][i].app \in AppConns /\ up[a][i].agent = a /\ Vouchable(up[a][i].app, a)

VInv ==
  PInv /\ Connects /\ Challenges /\ Proofs /\ Verifies /\ Requests /\ Vouchers

\* The first frame taken off a queue.
LEMMA TailFrames ==
  ASSUME NEW T, NEW q \in Seq(T), q # <<>>
  PROVE  /\ 1 \in DOMAIN q /\ Head(q) = q[1]
         /\ \A i \in DOMAIN Tail(q) :
              i # 0 /\ i \in Nat /\ i + 1 \in DOMAIN q /\ Tail(q)[i] = q[i + 1]
OBVIOUS

LEMMA TailDiffers ==
  ASSUME NEW T, NEW q \in Seq(T), q # <<>>
  PROVE  Tail(q) # q
<1>1. Len(q) \in Nat /\ Len(q) # 0 /\ Len(Tail(q)) = Len(q) - 1
  OBVIOUS
<1>2. \A n \in Nat : n # 0 => n - 1 # n
  OBVIOUS
<1>3. Len(Tail(q)) # Len(q)
  BY <1>1, <1>2
<1> QED BY <1>3

\* What a queue is after frames of S were added to it.
Extends(q, r, S) ==
  \A i \in DOMAIN r : \/ i \in DOMAIN q /\ r[i] = q[i]
                      \/ i \notin DOMAIN q /\ r[i] \in S

LEMMA Extended ==
  ASSUME NEW T, NEW S, NEW q \in Seq(T)
  PROVE  /\ Extends(q, q, S)
         /\ \A f \in S : Extends(q, Append(q, f), S)
         /\ \A s \in Seq(S) : Extends(q, q \o s, S)
<1>1. Extends(q, q, S)
  BY DEF Extends
<1>2. ASSUME NEW f \in S PROVE Extends(q, Append(q, f), S)
  BY DEF Extends
<1>3. ASSUME NEW s \in Seq(S) PROVE Extends(q, q \o s, S)
  <2> SUFFICES ASSUME NEW i \in DOMAIN (q \o s)
               PROVE  \/ i \in DOMAIN q /\ (q \o s)[i] = q[i]
                      \/ i \notin DOMAIN q /\ (q \o s)[i] \in S
    BY DEF Extends
  <2> QED OBVIOUS
<1> QED BY <1>1, <1>2, <1>3

\* Frames nothing above is about.
QuietFor(c) ==
  {f \in Messages :
     /\ c \in AppConns => f.type \notin {"auth.challenge", "auth.ok"}
     /\ c \in AgentConns => f.type # "auth.verify"}

DownExtends == \A c \in Conns : Extends(down[c], down'[c], QuietFor(c))

LEMMA RestExtends ==
  ASSUME DownOK, UNCHANGED down
  PROVE  DownExtends
BY Extended DEF DownOK, DownExtends

LEMMA PushExtends ==
  ASSUME DownOK, NEW c \in Conns, NEW f \in QuietFor(c), down' = Push(c, f)
  PROVE  DownExtends
<1> SUFFICES ASSUME NEW b \in Conns PROVE Extends(down[b], down'[b], QuietFor(b))
  BY DEF DownExtends
<1>1. down[b] \in Seq(Messages)
  BY DEF DownOK
<1>2. down'[b] = down[b] \/ (b = c /\ down'[b] = Append(down[b], f))
  BY DEF Push, DownOK
<1> QED BY <1>1, <1>2, Extended

LEMMA QuietFrames ==
  ASSUME NEW c \in Conns
  PROVE  /\ Close \in QuietFor(c) /\ Plain("protocol.error") \in QuietFor(c)
         /\ Plain("agent.auth.challenge") \in QuietFor(c)
         /\ \A m \in AppConns \cup {None} : AuthFailed(m) \in QuietFor(c)
         /\ \A msg \in ClientFrames :
              msg.type \notin {"auth.ok"} => msg \in QuietFor(c)
<1>1. \A msg \in ClientFrames : msg \in Messages /\ msg.type \notin {"auth.challenge", "auth.verify"}
  BY ClientFramesAre DEF Sendable, ClientFrames, Plain, Frame, E2EData
<1> QED BY <1>1 DEF QuietFor, Messages, Types, Close, Plain, Frame, AuthFailed

LEMMA PushCloseExtends ==
  ASSUME DownOK, NEW S, down' = PushClose(S)
  PROVE  DownExtends
<1> SUFFICES ASSUME NEW b \in Conns PROVE Extends(down[b], down'[b], QuietFor(b))
  BY DEF DownExtends
<1>1. down[b] \in Seq(Messages) /\ Close \in QuietFor(b)
  BY QuietFrames DEF DownOK
<1>2. down'[b] = down[b] \/ down'[b] = Append(down[b], Close)
  BY DEF PushClose
<1> QED BY <1>1, <1>2, Extended

LEMMA FailExtends ==
  ASSUME DownOK, NEW c \in Conns, Fail(c)
  PROVE  DownExtends
<1>1. AuthFailed(IF c \in AppConns THEN c ELSE None) \in QuietFor(c)
  BY QuietFrames
<1> QED BY <1>1, PushExtends DEF Fail

LEMMA FailAndCloseExtends ==
  ASSUME DownOK, NEW c \in Conns, NEW m \in AppConns \cup {None},
         down' = [down EXCEPT ![c] = @ \o <<AuthFailed(m), Close>>]
  PROVE  DownExtends
<1> DEFINE tail == <<AuthFailed(m), Close>>
<1>1. tail \in Seq(QuietFor(c))
  BY QuietFrames
<1>2. \A b \in Conns : down'[b] = IF b = c THEN down[b] \o tail ELSE down[b]
  BY DEF DownOK
<1> HIDE DEF tail
<1>3. \A b \in Conns : down[b] \in Seq(Messages)
  BY DEF DownOK
<1> QED BY <1>1, <1>2, <1>3, Extended DEF DownExtends

LEMMA RouteExtends ==
  ASSUME IInv, DownOK, NEW m \in AppConns, NEW msg \in ClientFrames,
         msg.type # "auth.ok", down' = RouteToAgent(m, msg)
  PROVE  DownExtends
<1>1. primary[DeviceOf[m]] \in AgentConns \cup {None}
  BY WireAssumption DEF IInv, RelayTypeOK, Conns
<1> QED BY <1>1, PushExtends, QuietFrames, RestExtends DEF RouteToAgent, Conns

LEMMA RejectExtends ==
  ASSUME DownOK, NEW c \in Conns, Reject(c)
  PROVE  DownExtends
BY PushExtends, QuietFrames DEF Reject

LEMMA PassExtends ==
  ASSUME DownOK, NEW m \in Conns, NEW msg \in ClientFrames, msg.type # "auth.ok",
         down' = Push(m, msg)
  PROVE  DownExtends
BY PushExtends, QuietFrames

\* The frames that count are written by three handlers.
LEMMA HandleAdds ==
  ASSUME IInv, DownOK, NEW c \in Conns, NEW msg \in ClientFrames, Handle(c, msg)
  PROVE  \/ DownExtends
         \/ c \in AppConns /\ msg.type = "mobile.connect" /\ ChallengeMobile(c)
         \/ msg.type = "auth.proof" /\ ForwardProof(c, msg)
         \/ /\ msg.type = "auth.ok" /\ role[c] = "agent" /\ ResultFor(c, msg.app)
            /\ AuthOk(c, msg.app, msg)
<1> USE WireAssumption
<1>1. CASE c \in AgentConns /\ AgentAuthInit(c)
  BY <1>1, PushCloseExtends, PushExtends, QuietFrames DEF AgentAuthInit, RefuseAgent
<1>2. CASE c \in AgentConns /\ AgentHello(c)
  <2>1. CASE RegisterAgent(c)
    <3> SUFFICES ASSUME NEW b \in Conns PROVE Extends(down[b], down'[b], QuietFor(b))
      BY DEF DownExtends
    <3> DEFINE ok == Frame("auth.ok", None, c, None)
    <3>1. down' = [e \in Conns |->
                     IF sock[e] # "open" \/ e \notin Superseded(c) \cup {c} THEN down[e]
                     ELSE Append(down[e], IF e = c THEN ok ELSE Close)]
      BY <2>1 DEF RegisterAgent
    <3>2. Close \in QuietFor(b) /\ (b = c => ok \in QuietFor(b))
      BY <1>2, QuietFrames DEF QuietFor, Messages, Types, Frame
    <3> HIDE DEF ok
    <3>3. \/ down'[b] = down[b]
          \/ \E f \in QuietFor(b) : down'[b] = Append(down[b], f)
      BY <3>1, <3>2
    <3> QED BY <3>3, Extended DEF DownOK
  <2> QED BY <1>2, <2>1, PushCloseExtends, RestExtends DEF AgentHello, RefuseAgent
<1>3. CASE c \in AppConns /\ msg.type = "mobile.connect" /\ MobileConnect(c)
  BY <1>3, FailExtends DEF MobileConnect, RefuseMobile
<1>4. CASE WrongEndpoint(c)
  BY <1>4, PushCloseExtends DEF WrongEndpoint
<1>5. CASE msg.type = "auth.proof" /\ AuthProof(c, msg)
  <2>1. CASE BlockProof(c)
    BY <2>1, FailAndCloseExtends, RestExtends DEF BlockProof
  <2> QED BY <1>5, <2>1, FailExtends DEF AuthProof, RefuseProof
<1>6. CASE msg.type \in {"auth.ok", "auth.pending", "auth.failed"} /\ AuthResult(c, msg)
  BY <1>6, RestExtends, PassExtends
     DEF AuthResult, ResultFor, AuthRefused, AuthPending, Conns
<1>7. CASE msg.type = "e2e.handshake.init" /\ HandshakeInit(c, msg)
  <2>1. CASE ~Reject(c)
    <3>1. c \in AppConns
      BY <1>7, <2>1 DEF HandshakeInit, IInv, Endpoints
    <3> QED BY <1>7, <2>1, <3>1, RouteExtends DEF HandshakeInit
  <2> QED BY <2>1, RejectExtends
<1>8. CASE msg.type = "e2e.handshake.reply" /\ HandshakeReply(c, msg)
  BY <1>8, RejectExtends, PassExtends DEF HandshakeReply, MobileOf, Conns
<1>9. CASE msg.type = "e2e.ready" /\ E2EReady(c, msg)
  <2>1. CASE role[c] = "mobile" /\ MobileReady(c, msg)
    <3>1. c \in AppConns
      BY <2>1 DEF IInv, Endpoints
    <3> QED BY <1>9, <2>1, <3>1, RouteExtends, RejectExtends DEF MobileReady
  <2>2. CASE AgentReady(c, msg)
    BY <1>9, <2>2, RejectExtends, PassExtends DEF AgentReady, KnowsHandshake, MobileOf, Conns
  <2> QED BY <1>9, <2>1, <2>2, RejectExtends DEF E2EReady
<1>10. CASE msg.type \in E2EData /\ E2EMessage(c, msg)
  <2>0. msg.type # "auth.ok"
    BY <1>10 DEF E2EData
  <2>1. CASE role[c] = "mobile" /\ MobileE2EMessage(c, msg)
    <3>1. c \in AppConns
      BY <2>1 DEF IInv, Endpoints
    <3> QED BY <2>0, <2>1, <3>1, RouteExtends, RejectExtends DEF MobileE2EMessage
  <2>2. CASE AgentE2EMessage(c, msg)
    BY <2>0, <2>2, RejectExtends, PassExtends DEF AgentE2EMessage, MobileOf, Conns
  <2> QED BY <1>10, <2>1, <2>2, RejectExtends DEF E2EMessage
<1>11. CASE msg.type = "e2e.failed" /\ E2EFailed(c, msg)
  <2>1. CASE role[c] = "mobile" /\ MobileE2EFailed(c, msg)
    <3>1. c \in AppConns
      BY <2>1 DEF IInv, Endpoints
    <3> QED BY <1>11, <2>1, <3>1, RouteExtends DEF MobileE2EFailed
  <2>2. CASE AgentE2EFailed(c, msg)
    BY <1>11, <2>2, RestExtends, PassExtends DEF AgentE2EFailed, MobileOf, Conns
  <2> QED BY <1>11, <2>1, <2>2, RestExtends DEF E2EFailed
<1> QED BY <1>1, <1>2, <1>3, <1>4, <1>5, <1>6, <1>7, <1>8, <1>9, <1>10, <1>11 DEF Handle

\* What the relay's handlers do to an App's admission: it is undone by nobody,
\* and begun by the App's own mobile.connect only.
Admits(c, msg) ==
  \A m \in AppConns :
    /\ authed[m] => authed'[m]
    /\ \/ role'[m] = role[m] /\ pending'[m] \in {pending[m], None}
       \/ m = c /\ msg.type = "mobile.connect" /\ role'[m] = "mobile"

LEMMA UnregisterAdmits ==
  ASSUME NEW S, NEW after, Unregister(S, after), UNCHANGED authVars, NEW c, NEW msg
  PROVE  Admits(c, msg)
BY DEF Unregister, authVars, Admits

LEMMA CloseSocketAdmits ==
  ASSUME NEW b, CloseSocket(b), UNCHANGED <<role, authed>>, NEW c, NEW msg
  PROVE  Admits(c, msg)
BY DEF CloseSocket, Unregister, Admits

LEMMA HandleAdmits ==
  ASSUME IInv, NEW c \in Conns, NEW msg \in ClientFrames, Handle(c, msg)
  PROVE  Admits(c, msg)
<1> USE WireAssumption
<1>0. CASE UNCHANGED <<authVars, pending>>
  BY <1>0 DEF Admits, authVars
<1>1. CASE c \in AgentConns /\ AgentAuthInit(c)
  BY <1>1, CloseSocketAdmits DEF AgentAuthInit, RefuseAgent, Admits
<1>2. CASE c \in AgentConns /\ AgentHello(c)
  <2>1. CASE RegisterAgent(c)
    <3>1. /\ \A m \in AppConns : m # c /\ m \in Conns
          /\ role' = [role EXCEPT ![c] = "agent"]
          /\ authed' = [authed EXCEPT ![c] = TRUE]
          /\ pending' = [m \in AppConns |-> IF m \in Superseded(c) THEN None ELSE pending[m]]
      BY <1>2, <2>1 DEF RegisterAgent, Conns
    <3>2. role \in [Conns -> Roles] /\ authed \in [Conns -> BOOLEAN]
      BY DEF IInv, RelayTypeOK
    <3>3. \A m \in AppConns : role'[m] = role[m] /\ authed'[m] = authed[m]
      BY <3>1, <3>2
    <3> QED BY <3>1, <3>3 DEF Admits
  <2> QED BY <1>0, <1>2, <2>1, CloseSocketAdmits DEF AgentHello, RefuseAgent, relayVars, authVars
<1>3. CASE c \in AppConns /\ msg.type = "mobile.connect" /\ MobileConnect(c)
  <2>1. CASE RefuseMobile(c)
    BY <2>1 DEF RefuseMobile, Fail, Admits
  <2>2. CASE ChallengeMobile(c)
    <3>1. /\ role' = [role EXCEPT ![c] = "mobile"] /\ authed' = authed
          /\ pending' = pending \/ \E a : pending' = [pending EXCEPT ![c] = a]
      BY <2>2 DEF ChallengeMobile
    <3>2. role \in [Conns -> Roles] /\ pending \in [AppConns -> AgentConns \cup {None}]
      BY DEF IInv, RelayTypeOK
    <3>3. role'[c] = "mobile"
      BY <3>1, <3>2
    <3>4. \A m \in AppConns : m # c => role'[m] = role[m] /\ pending'[m] = pending[m]
      BY <3>1, <3>2 DEF Conns
    <3> QED BY <1>3, <3>1, <3>3, <3>4 DEF Admits
  <2> QED BY <1>3, <2>1, <2>2 DEF MobileConnect
<1>4. CASE WrongEndpoint(c)
  BY <1>4, CloseSocketAdmits DEF WrongEndpoint, authVars
<1>5. CASE AuthProof(c, msg)
  <2>1. CASE ForwardProof(c, msg)
    BY <2>1 DEF ForwardProof, Admits
  <2>2. CASE RefuseProof(c, msg)
    <3>1. /\ UNCHANGED <<role, authed>>
          /\ pending' = pending \/ pending' = [pending EXCEPT ![c] = None]
      BY <2>2 DEF RefuseProof
    <3>2. \A m \in AppConns : pending'[m] \in {pending[m], None}
      BY <3>1 DEF IInv, RelayTypeOK
    <3> QED BY <3>1, <3>2 DEF Admits
  <2>3. CASE BlockProof(c)
    BY <2>3, CloseSocketAdmits DEF BlockProof
  <2> QED BY <1>5, <2>1, <2>2, <2>3 DEF AuthProof
<1>6. CASE AuthResult(c, msg)
  <2> DEFINE m == msg.app
  <2>1. CASE UNCHANGED relayVars
    BY <1>0, <2>1 DEF relayVars, authVars
  <2>2. CASE m \in AppConns /\ AuthOk(c, m, msg)
    <3>1. /\ role' = role /\ pending' = [pending EXCEPT ![m] = None]
          /\ authed' = authed \/ authed' = [authed EXCEPT ![m] = TRUE]
      BY <2>2 DEF AuthOk, AcceptApp
    <3>2. \A n \in AppConns : pending'[n] \in {pending[n], None}
      BY <3>1 DEF IInv, RelayTypeOK
    <3>3. \A n \in AppConns : authed[n] => authed'[n]
      BY <3>1 DEF IInv, RelayTypeOK, Conns
    <3> QED BY <3>1, <3>2, <3>3 DEF Admits
  <2>3. CASE m \in AppConns /\ AuthRefused(m, msg)
    <3>1. /\ UNCHANGED <<role, authed>>
          /\ pending' = [pending EXCEPT ![m] = None]
      BY <2>3 DEF AuthRefused
    <3>2. \A n \in AppConns : pending'[n] \in {pending[n], None}
      BY <3>1 DEF IInv, RelayTypeOK
    <3> QED BY <3>1, <3>2 DEF Admits
  <2> QED BY <1>6, <2>1, <2>2, <2>3 DEF AuthResult, ResultFor, AuthPending
<1>7. CASE HandshakeInit(c, msg) \/ HandshakeReply(c, msg)
  BY <1>0, <1>7 DEF HandshakeInit, HandshakeReply, Reject, relayVars, authVars
<1>8. CASE E2EReady(c, msg)
  BY <1>0, <1>8 DEF E2EReady, MobileReady, AgentReady, Reject, relayVars, authVars
<1>9. CASE E2EMessage(c, msg)
  BY <1>0, <1>9 DEF E2EMessage, MobileE2EMessage, AgentE2EMessage, Reject, relayVars, authVars
<1>10. CASE E2EFailed(c, msg)
  BY <1>0, <1>10 DEF E2EFailed, MobileE2EFailed, AgentE2EFailed, relayVars, authVars
<1> QED BY <1>1, <1>2, <1>3, <1>4, <1>5, <1>6, <1>7, <1>8, <1>9, <1>10 DEF Handle

\* Frames the relay adds in a step: an App is challenged in the step that admits
\* it, told auth.ok once authenticated; an Agent verifies whom it may vouch for.
Judged(c, b, f) ==
  /\ b \in AppConns /\ f.type = "auth.challenge" =>
       /\ b = c /\ role'[b] = "mobile"
       /\ up[c] # <<>> /\ Head(up[c]).type = "mobile.connect"
       /\ \A i, j \in DOMAIN down'[b] : i \in DOMAIN down[b] \/ j \in DOMAIN down[b] \/ i = j
  /\ b \in AppConns /\ f.type = "auth.ok" => authed'[b]
  /\ b \in AgentConns /\ f.type = "auth.verify" =>
       role'[f.app] = "mobile" /\ pending'[f.app] \in {b, None} /\ Proved(f.app, b)

\* A step of the relay that took a frame off connection c, or took none.
LEMMA RelayKeepsV ==
  ASSUME VInv, PInv', NEW c \in Conns, UNCHANGED <<agentVars, appVars>>,
         \/ UNCHANGED up
         \/ up[c] # <<>> /\ up' = [up EXCEPT ![c] = Tail(@)],
         \/ \A msg : Admits(None, msg)
         \/ /\ up[c] # <<>> /\ up' = [up EXCEPT ![c] = Tail(@)]
            /\ Admits(c, Head(up[c])),
         \A b \in Conns : \A i \in DOMAIN down'[b] :
           \/ i \in DOMAIN down[b] /\ down'[b][i] = down[b][i]
           \/ i \notin DOMAIN down[b] /\ Judged(c, b, down'[b][i])
  PROVE  VInv'
<1> USE WireAssumption
<1>1. UNCHANGED <<phase, agentOf, queued, sent, cur, agentId, pairing>>
  BY DEF agentVars, appVars, admissionVars
<1>2. /\ up \in [Conns -> Seq(Messages)]
      /\ \A b \in Conns : up[b] \in Seq(Messages)
  BY ClientFramesAre DEF VInv, PInv, UpOK
<1>3. \A b \in Conns : \A i \in DOMAIN up'[b] :
        /\ i \in Nat /\ i # 0
        /\ \/ up'[b] = up[b]
           \/ b = c /\ up[b] # <<>> /\ i + 1 \in DOMAIN up[b] /\ up'[b][i] = up[b][i + 1]
  <2> SUFFICES ASSUME NEW b \in Conns, NEW i \in DOMAIN up'[b]
               PROVE  /\ i \in Nat /\ i # 0
                      /\ \/ up'[b] = up[b]
                         \/ b = c /\ up[b] # <<>> /\ i + 1 \in DOMAIN up[b]
                            /\ up'[b][i] = up[b][i + 1]
    OBVIOUS
  <2>1. CASE up'[b] = up[b]
    BY <1>2, <2>1
  <2>2. CASE up'[b] # up[b]
    <3>1. b = c /\ up[b] # <<>> /\ up'[b] = Tail(up[b])
      BY <1>2, <2>2
    <3> QED BY <1>2, <3>1, TailFrames
  <2> QED BY <2>1, <2>2
<1>4. \A m \in AppConns :
        /\ authed[m] => authed'[m]
        /\ \/ role'[m] = role[m] /\ pending'[m] \in {pending[m], None}
           \/ /\ m = c /\ role[m] = "unknown" /\ role'[m] = "mobile"
              /\ up[m] # <<>> /\ up'[m] = Tail(up[m])
  <2> SUFFICES ASSUME NEW m \in AppConns
               PROVE  /\ authed[m] => authed'[m]
                      /\ \/ role'[m] = role[m] /\ pending'[m] \in {pending[m], None}
                         \/ /\ m = c /\ role[m] = "unknown" /\ role'[m] = "mobile"
                            /\ up[m] # <<>> /\ up'[m] = Tail(up[m])
    OBVIOUS
  <2>1. m \in Conns /\ m # None
    BY DEF Conns
  <2>2. CASE \A msg : Admits(None, msg)
    BY <2>1, <2>2 DEF Admits
  <2>3. CASE /\ up[c] # <<>> /\ up' = [up EXCEPT ![c] = Tail(@)]
             /\ Admits(c, Head(up[c]))
    <3>1. Head(up[c]) = up[c][1] /\ 1 \in DOMAIN up[c] /\ up'[c] = Tail(up[c])
      BY <1>2, <2>3, TailFrames
    <3>2. m = c /\ up[c][1].type = "mobile.connect" => role[m] = "unknown"
      BY <3>1 DEF VInv, Connects
    <3> QED BY <2>3, <3>1, <3>2 DEF Admits
  <2> QED BY <2>2, <2>3
<1>5. \A m \in AppConns, a \in AgentConns : Vouchable(m, a) => Vouchable(m, a)'
  BY <1>1, <1>4 DEF Vouchable, Proved
<1>6. Connects'
  <2> SUFFICES ASSUME NEW m \in AppConns
               PROVE  /\ phase'[m] = "idle" => up'[m] = <<>> /\ role'[m] = "unknown"
                      /\ \A i \in DOMAIN up'[m] :
                           up'[m][i].type = "mobile.connect" =>
                             i = 1 /\ role'[m] = "unknown" /\ phase'[m] \in {"connected", "closed"}
    BY DEF Connects
  <2>1. m \in Conns
    BY DEF Conns
  <2>2. /\ phase[m] = "idle" => up[m] = <<>> /\ role[m] = "unknown"
        /\ \A i \in DOMAIN up[m] :
             up[m][i].type = "mobile.connect" =>
               i = 1 /\ role[m] = "unknown" /\ phase[m] \in {"connected", "closed"}
    BY DEF VInv, Connects
  <2>3. CASE up'[m] = up[m]
    <3>1. up[m] = <<>> \/ Tail(up[m]) # up[m]
      BY <1>2, <2>1
    <3> QED BY <1>1, <1>4, <2>2, <2>3, <3>1
  <2>4. CASE up'[m] # up[m]
    <3>1. up[m] # <<>> /\ m = c
      BY <1>2, <2>1, <2>4
    <3>2. \A i \in DOMAIN up'[m] :
            i \in Nat /\ i # 0 /\ i + 1 \in DOMAIN up[m] /\ up'[m][i] = up[m][i + 1]
      BY <1>3, <2>1, <2>4
    <3> QED BY <1>1, <2>2, <3>1, <3>2
  <2> QED BY <2>3, <2>4
<1>7. Challenges'
  <2> SUFFICES ASSUME NEW m \in AppConns
               PROVE  /\ pending'[m] # None => role'[m] = "mobile"
                      /\ phase'[m] \in Late => authed'[m]
                      /\ \A i \in DOMAIN down'[m] :
                           /\ down'[m][i].type = "auth.challenge" =>
                                /\ role'[m] = "mobile" /\ phase'[m] \in {"connected", "closed"}
                                /\ \A j \in DOMAIN down'[m] :
                                     down'[m][j].type = "auth.challenge" => i = j
                           /\ down'[m][i].type = "auth.ok" => authed'[m]
    BY DEF Challenges
  <2>1. m \in Conns
    BY DEF Conns
  <2>2. /\ pending[m] # None => role[m] = "mobile"
        /\ phase[m] \in Late => authed[m]
        /\ \A i \in DOMAIN down[m] :
             /\ down[m][i].type = "auth.challenge" =>
                  /\ role[m] = "mobile" /\ phase[m] \in {"connected", "closed"}
                  /\ \A j \in DOMAIN down[m] : down[m][j].type = "auth.challenge" => i = j
             /\ down[m][i].type = "auth.ok" => authed[m]
    BY DEF VInv, Challenges
  <2>3. pending'[m] # None => role'[m] = "mobile"
    BY <1>4, <2>2
  <2>4. phase'[m] \in Late => authed'[m]
    BY <1>1, <1>4, <2>2
  <2>5. ASSUME NEW i \in DOMAIN down'[m], down'[m][i].type = "auth.ok"
        PROVE  authed'[m]
    BY <1>4, <2>1, <2>2, <2>5 DEF Judged
  <2>6. ASSUME NEW i \in DOMAIN down'[m], down'[m][i].type = "auth.challenge"
        PROVE  /\ role'[m] = "mobile" /\ phase'[m] \in {"connected", "closed"}
               /\ \A j \in DOMAIN down'[m] : down'[m][j].type = "auth.challenge" => i = j
    <3>1. CASE i \in DOMAIN down[m] /\ down'[m][i] = down[m][i]
      <4>1. role[m] = "mobile" /\ phase[m] \in {"connected", "closed"}
        BY <2>2, <2>6, <3>1
      <4>2. ASSUME NEW j \in DOMAIN down'[m], down'[m][j].type = "auth.challenge"
            PROVE  i = j
        <5>1. CASE j \in DOMAIN down[m] /\ down'[m][j] = down[m][j]
          BY <2>2, <2>6, <3>1, <4>2, <5>1
        <5>2. CASE Judged(c, m, down'[m][j])
          <6>1. m = c /\ up[m] # <<>> /\ Head(up[m]).type = "mobile.connect"
            BY <4>2, <5>2 DEF Judged
          <6>2. Head(up[m]) = up[m][1] /\ 1 \in DOMAIN up[m]
            BY <1>2, <2>1, <6>1, TailFrames
          <6>3. role[m] = "unknown"
            BY <6>1, <6>2 DEF VInv, Connects
          <6> QED BY <4>1, <6>3
        <5> QED BY <2>1, <5>1, <5>2
      <4> QED BY <1>1, <1>4, <4>1, <4>2
    <3>2. CASE i \notin DOMAIN down[m] /\ Judged(c, m, down'[m][i])
      <4>1. /\ m = c /\ role'[m] = "mobile" /\ up[m] # <<>>
            /\ Head(up[m]).type = "mobile.connect"
            /\ \A j \in DOMAIN down'[m] : j \in DOMAIN down[m] \/ i = j
        BY <2>6, <3>2 DEF Judged
      <4>2. Head(up[m]) = up[m][1] /\ 1 \in DOMAIN up[m]
        BY <1>2, <2>1, <4>1, TailFrames
      <4>3. role[m] = "unknown" /\ phase[m] \in {"connected", "closed"}
        BY <4>1, <4>2 DEF VInv, Connects
      <4>4. ASSUME NEW j \in DOMAIN down'[m], down'[m][j].type = "auth.challenge",
                   j \in DOMAIN down[m]
            PROVE  FALSE
        BY <2>1, <2>2, <4>3, <4>4
      <4> QED BY <1>1, <4>1, <4>3, <4>4
    <3> QED BY <2>1, <3>1, <3>2
  <2> QED BY <2>3, <2>4, <2>5, <2>6
<1>8. Proofs'
  BY <1>1, <1>3 DEF VInv, Proofs, Proved, Conns
<1>9. Verifies'
  <2> SUFFICES ASSUME NEW a \in AgentConns, NEW i \in DOMAIN down'[a],
                      down'[a][i].type = "auth.verify"
               PROVE  LET m == down'[a][i].app
                      IN  role'[m] = "mobile" /\ pending'[m] \in {a, None} /\ Proved(m, a)
    BY <1>1 DEF Verifies, Vouchable, Proved
  <2>1. CASE i \in DOMAIN down[a] /\ down'[a][i] = down[a][i]
    <3>1. down[a] \in Seq(FramesFor(a))
      BY DEF VInv, PInv, DownOK, Conns
    <3>2. down[a][i].app \in AppConns
      BY <2>1, <3>1 DEF FramesFor, AboutApps
    <3>3. Vouchable(down[a][i].app, a)
      BY <2>1 DEF VInv, Verifies
    <3> QED BY <1>4, <2>1, <3>2, <3>3 DEF Vouchable
  <2>2. CASE Judged(c, a, down'[a][i])
    BY <2>2 DEF Judged
  <2> QED BY <2>1, <2>2 DEF Conns
<1>10. Requests'
  <2> SUFFICES ASSUME NEW d \in Devices, NEW x \in Apps, pairing[d][x] # None
               PROVE  Vouchable(pairing[d][x], cur[d])'
    BY <1>1 DEF Requests
  <2>1. /\ pairing[d][x] \in AppConns /\ cur[d] \in AgentConns
    BY DEF VInv, PInv, AgentIInv, AgentTypeOK, OpenRequests
  <2> QED BY <1>1, <1>5, <2>1 DEF VInv, Requests
<1>11. Vouchers'
  BY <1>3, <1>5 DEF VInv, Vouchers, Conns
<1> QED BY <1>6, <1>7, <1>8, <1>9, <1>10, <1>11 DEF VInv

\* What an Agent writes besides auth.ok.
AgentMild == {f \in Sendable : f.type # "auth.ok"}

UpMild ==
  /\ \A m \in AppConns : up'[m] = up[m]
  /\ \A a \in AgentConns : Extends(up[a], up'[a], AgentMild)

LEMMA WritesExtend ==
  ASSUME UpOK, NEW c \in Conns, NEW S, NEW frames \in Seq(S),
         up' = [up EXCEPT ![c] = @ \o frames]
  PROVE  /\ \A b \in Conns : b # c => up'[b] = up[b]
         /\ \A b \in Conns : Extends(up[b], up'[b], S)
<1>1. \A b \in Conns : up[b] \in Seq(Sendable)
  BY DEF UpOK
<1>2. \A b \in Conns : up'[b] = IF b = c THEN up[b] \o frames ELSE up[b]
  BY DEF UpOK
<1> QED BY <1>1, <1>2, Extended

LEMMA MildWrites ==
  ASSUME UpOK, AgentIInv, NEW d \in Devices, cur[d] # None,
         NEW frames \in Seq(AgentMild), up' = [up EXCEPT ![cur[d]] = @ \o frames]
  PROVE  UpMild
<1>1. cur[d] \in AgentConns
  BY DEF AgentIInv, AgentTypeOK
<1> QED BY <1>1, WritesExtend, WireAssumption DEF UpMild, Conns

LEMMA MildRest ==
  ASSUME UpOK, UNCHANGED up
  PROVE  UpMild
BY Extended DEF UpOK, UpMild, Conns

LEMMA MildFrames ==
  ASSUME NEW m \in AppConns, NEW a \in AgentConns, NEW r \in AppConns
  PROVE  /\ Close \in AgentMild
         /\ Plain("agent.auth.init") \in AgentMild /\ Plain("agent.hello") \in AgentMild
         /\ \A t \in {"auth.pending", "auth.failed", "e2e.failed"} :
              Frame(t, m, None, None) \in AgentMild
         /\ \A t \in {"e2e.handshake.reply", "e2e.ready"} \cup E2EData :
              Frame(t, m, a, r) \in AgentMild
BY WrittenFrames DEF AgentMild, Close, Plain, Frame, E2EData

\* Whom the Agent may vouch for: over the connection in use.
Vouches(d, m) ==
  /\ m \in AppConns /\ cur[d] # None /\ agentId[d] = cur[d]
  /\ Vouchable(m, cur[d])

\* A step of the Agent of device d.
LEMMA AgentKeepsV ==
  ASSUME VInv, PInv', NEW d \in Devices, UNCHANGED <<authVars, pending, appVars>>,
         \/ UNCHANGED down
         \/ cur[d] # None /\ down[cur[d]] # <<>> /\ down' = [down EXCEPT ![cur[d]] = Tail(@)],
         \/ UpMild
         \/ \E m \in AppConns :
              /\ Vouches(d, m)
              /\ up' = [up EXCEPT ![cur[d]] = @ \o <<Frame("auth.ok", m, agentId[d], m)>>],
         \A e \in Devices, x \in Apps :
           \/ pairing'[e][x] = None
           \/ pairing'[e][x] = pairing[e][x] /\ cur'[e] = cur[e]
           \/ e = d /\ Vouches(d, pairing'[e][x]) /\ cur'[e] = cur[e]
  PROVE  VInv'
<1> USE WireAssumption
<1>1. UNCHANGED <<role, authed, pending, phase, agentOf>>
  BY DEF appVars, authVars
<1>2. \A m, a : Vouchable(m, a) <=> Vouchable(m, a)'
  BY <1>1 DEF Vouchable, Proved
<1>3. cur[d] # None => cur[d] \in AgentConns
  BY DEF VInv, PInv, AgentIInv, AgentTypeOK
<1>4. \A b \in Conns : up[b] \in Seq(Sendable)
  BY DEF VInv, PInv, UpOK
<1>5. /\ \A m \in AppConns : up'[m] = up[m]
      /\ \A a \in AgentConns : \A i \in DOMAIN up'[a] :
           \/ i \in DOMAIN up[a] /\ up'[a][i] = up[a][i]
           \/ up'[a][i].type = "auth.ok" =>
                /\ up'[a][i].app \in AppConns /\ up'[a][i].agent = a
                /\ Vouchable(up'[a][i].app, a)
  <2>1. CASE UpMild
    BY <2>1 DEF UpMild, Extends, AgentMild
  <2>2. CASE \E m \in AppConns :
               /\ Vouches(d, m)
               /\ up' = [up EXCEPT ![cur[d]] = @ \o <<Frame("auth.ok", m, agentId[d], m)>>]
    <3> PICK m \in AppConns :
               /\ Vouches(d, m)
               /\ up' = [up EXCEPT ![cur[d]] = @ \o <<Frame("auth.ok", m, agentId[d], m)>>]
      BY <2>2
    <3> DEFINE f == Frame("auth.ok", m, agentId[d], m)
    <3>1. /\ f.type = "auth.ok" /\ f.app = m /\ f.agent = cur[d]
          /\ cur[d] \in AgentConns /\ Vouchable(m, cur[d])
      BY <1>3 DEF Vouches, Frame
    <3>2. up' = [up EXCEPT ![cur[d]] = @ \o <<f>>] /\ <<f>> \in Seq({f})
      OBVIOUS
    <3> HIDE DEF f
    <3>3. UpOK /\ cur[d] \in Conns
      BY <3>1 DEF VInv, PInv, Conns
    <3>4. /\ \A b \in Conns : b # cur[d] => up'[b] = up[b]
          /\ \A b \in Conns : Extends(up[b], up'[b], {f})
      BY <3>2, <3>3, WritesExtend
    <3> QED BY <3>1, <3>4 DEF Extends, Conns
  <2> QED BY <2>1, <2>2
<1>6. /\ \A m \in AppConns : down'[m] = down[m]
      /\ \A a \in AgentConns : \A i \in DOMAIN down'[a] :
           \E j \in DOMAIN down[a] : down'[a][i] = down[a][j]
  <2>1. CASE UNCHANGED down
    BY <2>1
  <2>2. CASE cur[d] # None /\ down[cur[d]] # <<>> /\ down' = [down EXCEPT ![cur[d]] = Tail(@)]
    <3>1. down \in [Conns -> Seq(Messages)]
      BY DEF VInv, PInv, DownOK
    <3>2. \A b \in Conns : down'[b] = IF b = cur[d] THEN Tail(down[b]) ELSE down[b]
      BY <2>2, <3>1
    <3>3. \A b \in Conns : down[b] \in Seq(Messages)
      BY <3>1
    <3>4. cur[d] \in Conns /\ \A i \in DOMAIN Tail(down[cur[d]]) :
            i + 1 \in DOMAIN down[cur[d]] /\ Tail(down[cur[d]])[i] = down[cur[d]][i + 1]
      BY <1>3, <2>2, <3>3, TailFrames DEF Conns
    <3> QED BY <1>3, <2>2, <3>2, <3>4 DEF Conns
  <2> QED BY <2>1, <2>2
<1>7. Connects' /\ Proofs'
  BY <1>1, <1>5 DEF VInv, Connects, Proofs, Proved
<1>8. Challenges'
  BY <1>1, <1>6 DEF VInv, Challenges
<1>9. Verifies'
  <2> SUFFICES ASSUME NEW a \in AgentConns, NEW i \in DOMAIN down'[a],
                      down'[a][i].type = "auth.verify"
               PROVE  Vouchable(down'[a][i].app, a)
    BY <1>1 DEF Verifies, Vouchable, Proved
  <2> QED BY <1>6 DEF VInv, Verifies
<1>10. Requests'
  <2> SUFFICES ASSUME NEW e \in Devices, NEW x \in Apps, pairing'[e][x] # None
               PROVE  Vouchable(pairing'[e][x], cur'[e])
    BY <1>1 DEF Requests, Vouchable, Proved
  <2> QED BY DEF VInv, Requests, Vouches
<1>11. Vouchers'
  <2> SUFFICES ASSUME NEW a \in AgentConns, NEW i \in DOMAIN up'[a],
                      up'[a][i].type = "auth.ok"
               PROVE  /\ up'[a][i].app \in AppConns /\ up'[a][i].agent = a
                      /\ Vouchable(up'[a][i].app, a)
    BY <1>1 DEF Vouchers, Vouchable, Proved
  <2> QED BY <1>5 DEF VInv, Vouchers
<1> QED BY <1>7, <1>8, <1>9, <1>10, <1>11 DEF VInv

LEMMA FailureMild ==
  ASSUME UpOK, AgentIInv, NEW d \in Devices, cur[d] # None, NEW m \in AppConns,
         SendAuthFailure(d, m)
  PROVE  UpMild
<1>1. <<Frame("auth.failed", m, None, None)>> \in Seq(AgentMild)
  BY DEF AgentMild, Sendable, ClientFrames, Frame
<1> QED BY <1>1, MildWrites DEF SendAuthFailure, Send

LEMMA FailSessionMild ==
  ASSUME UpOK, AgentIInv, NEW d \in Devices, cur[d] # None, NEW m \in AppConns,
         FailE2ESession(d, m)
  PROVE  UpMild
<1>1. <<Frame("e2e.failed", m, None, None)>> \in Seq(AgentMild)
  BY DEF AgentMild, Sendable, ClientFrames, Frame
<1> QED BY <1>1, MildWrites DEF FailE2ESession, Send

LEMMA DisconnectMild ==
  ASSUME UpOK, AgentIInv, NEW d \in Devices, NEW x \in Apps,
         NEW first \in Seq(AgentMild), Disconnect(d, x, first)
  PROVE  UpMild
<1> DEFINE gone == KnownAs(d, x)
<1>1. gone \subseteq AppConns /\ gone \subseteq {m \in AppConns : known[m]}
  BY DEF KnownAs
<1>2. Cardinality(gone) \in Nat
  BY <1>1, FS_Subset, FS_CardinalityType DEF AgentIInv
<1>3. ASSUME NEW order \in [1 .. Cardinality(gone) -> gone]
      PROVE  first \o [i \in DOMAIN order |-> Frame("auth.failed", order[i], None, None)]
               \in Seq(AgentMild)
  <2> DEFINE f == [i \in DOMAIN order |-> Frame("auth.failed", order[i], None, None)]
             n == Cardinality(gone)
  <2>1. \A m \in gone : Frame("auth.failed", m, None, None) \in AgentMild
    BY <1>1 DEF AgentMild, Sendable, ClientFrames, Frame
  <2> HIDE DEF gone
  <2>2. f \in [1 .. n -> AgentMild]
    BY <2>1
  <2> HIDE DEF n, f
  <2>3. f \in Seq(AgentMild)
    BY <1>2, <2>2, SeqDef DEF n
  <2>4. first \o f \in Seq(AgentMild)
    BY <2>3
  <2> QED BY <2>4 DEF f
<1>4. CASE cur[d] = None
  BY <1>4, MildRest DEF Disconnect
<1>5. CASE cur[d] # None
  BY <1>3, <1>5, MildWrites DEF Disconnect, Send
<1> QED BY <1>4, <1>5

\* A request that waits for approval may be vouched for.
LEMMA RequestVouches ==
  ASSUME VInv, NEW d \in Devices, NEW x \in Apps, pairing[d][x] # None
  PROVE  Vouches(d, pairing[d][x])
BY DEF VInv, PInv, AgentIInv, AgentTypeOK, OwnConnection, OpenRequests, Requests, Vouches

\* A lost connection takes its requests with it.
LEMMA LostRequests ==
  ASSUME AgentIInv, NEW d \in Devices, ConnectionLost(d)
  PROVE  \A e \in Devices, x \in Apps :
           \/ pairing'[e][x] = None
           \/ pairing'[e][x] = pairing[e][x] /\ cur'[e] = cur[e]
<1>1. /\ pairing' = [pairing EXCEPT ![d] = [x \in Apps |-> None]]
      /\ cur' = [cur EXCEPT ![d] = None]
      /\ pairing \in [Devices -> [Apps -> AppConns \cup {None}]]
      /\ cur \in [Devices -> AgentConns \cup {None}]
  BY DEF ConnectionLost, AgentIInv, AgentTypeOK
<1>2. pairing'[d] = [x \in Apps |-> None]
  BY <1>1
<1>3. \A e \in Devices : e # d => pairing'[e] = pairing[e] /\ cur'[e] = cur[e]
  BY <1>1
<1> QED BY <1>2, <1>3

LEMMA AgentHandleV ==
  ASSUME VInv, PInv', NEW d \in Devices, AgentReads(d)
  PROVE  VInv'
<1> USE AgentAssumption
<1> DEFINE c == cur[d]
           msg == Head(down[c])
<1>1. /\ c # None /\ c \in AgentConns /\ DeviceOf[c] = d /\ agentId[d] \in {None, c}
      /\ down[c] # <<>> /\ AgentHandle(d, msg) /\ down' = [down EXCEPT ![c] = Tail(@)]
      /\ UNCHANGED <<authVars, pending, appVars>>
  BY DEF AgentReads, relayVars, authVars, VInv, PInv, AgentIInv, AgentTypeOK, OwnConnection
<1>2. UpOK /\ AgentIInv
  BY DEF VInv, PInv
<1>3. /\ msg \in FramesFor(c) /\ 1 \in DOMAIN down[c] /\ msg = down[c][1]
  <2>1. down[c] \in Seq(FramesFor(c))
    BY <1>1 DEF VInv, PInv, DownOK, Conns
  <2> QED BY <1>1, <2>1, TailFrames
<1>4. /\ msg.type \in AboutApps => msg.app \in AppConns /\ DeviceOf[msg.app] = d
                                   /\ msg.ref \in AppConns
      /\ msg.type \in {"auth.ok", "auth.verify"} => msg.agent = c
  BY <1>1, <1>3 DEF FramesFor
<1>5. msg.type = "auth.verify" => Vouchable(msg.app, c)
  BY <1>1, <1>3 DEF VInv, Verifies
<1> HIDE DEF msg, c
<1>6. ASSUME UpMild,
             \A e \in Devices, x \in Apps :
               \/ pairing'[e][x] = None
               \/ pairing'[e][x] = pairing[e][x] /\ cur'[e] = cur[e]
               \/ e = d /\ Vouches(d, pairing'[e][x]) /\ cur'[e] = cur[e]
      PROVE  VInv'
  BY <1>1, <1>6, AgentKeepsV DEF c
<1>7. CASE UNCHANGED <<agentVars, up>>
  BY <1>2, <1>6, <1>7, MildRest DEF agentVars, admissionVars
<1>8. CASE RecvChallenge(d)
  <2>1. <<Plain("agent.hello")>> \in Seq(AgentMild)
    BY DEF AgentMild, Sendable, ClientFrames, Plain, Frame
  <2> QED BY <1>1, <1>2, <1>6, <1>8, <2>1, MildWrites
          DEF RecvChallenge, Send, agentVars, admissionVars, c
<1>9. CASE RecvRelayAuthOk(d, msg)
  BY <1>2, <1>6, <1>9, MildRest DEF RecvRelayAuthOk, admissionVars
<1>10. CASE msg.type = "auth.verify" /\ RecvAuthVerify(d, msg)
  <2> DEFINE m == msg.app
  <2>0. m \in AppConns
    BY <1>4, <1>10 DEF AboutApps
  <2>1. CASE SendAuthFailure(d, m) /\ UNCHANGED agentVars
    BY <1>1, <1>2, <1>6, <2>0, <2>1, FailureMild DEF agentVars, admissionVars, c
  <2>2. CASE /\ agentId[d] # None
             /\ \/ Authorize(d, m) /\ UNCHANGED pairing
                \/ AskAdministrator(d, m)
    <3>1. Vouches(d, m)
      BY <1>1, <1>5, <1>10, <2>0, <2>2 DEF Vouches, c
    <3>2. CASE Authorize(d, m) /\ UNCHANGED pairing
      <4>1. \E n \in AppConns :
              /\ Vouches(d, n)
              /\ up' = [up EXCEPT ![cur[d]] = @ \o <<Frame("auth.ok", n, agentId[d], n)>>]
        BY <2>0, <3>1, <3>2 DEF Authorize, Send
      <4>2. UNCHANGED <<pairing, cur>>
        BY <3>2 DEF Authorize
      <4> QED BY <1>1, <4>1, <4>2, AgentKeepsV DEF c
    <3>3. CASE AskAdministrator(d, m)
      <4>1. <<Frame("auth.pending", m, None, None)>> \in Seq(AgentMild)
        BY <2>0 DEF AgentMild, Sendable, ClientFrames, Frame
      <4>2. UpMild
        BY <1>1, <1>2, <3>3, <4>1, MildWrites DEF AskAdministrator, Send, c
      <4>3. /\ pairing' = [pairing EXCEPT ![d][AppOf[m]] = m]
            /\ UNCHANGED cur
        BY <3>3 DEF AskAdministrator
      <4>4. pairing \in [Devices -> [Apps -> AppConns \cup {None}]]
        BY <1>2 DEF AgentIInv, AgentTypeOK
      <4>5. \A e \in Devices, x \in Apps :
              pairing'[e][x] = pairing[e][x] \/ (e = d /\ pairing'[e][x] = m)
        <5> DEFINE y == AppOf[m]
        <5>1. y \in Apps /\ pairing' = [pairing EXCEPT ![d][y] = m]
          BY <2>0, <4>3
        <5> HIDE DEF y, m
        <5> QED BY <4>4, <5>1
      <4> QED BY <1>6, <3>1, <4>2, <4>3, <4>5
    <3> QED BY <2>2, <3>2, <3>3
  <2> QED BY <1>10, <2>1, <2>2 DEF RecvAuthVerify
<1>11. CASE msg.type = "e2e.handshake.init" /\ RecvHandshakeInit(d, msg)
  <2> DEFINE m == msg.app
  <2>0. m \in AppConns /\ msg.ref \in AppConns
    BY <1>4, <1>11 DEF AboutApps
  <2>1. CASE ~UNCHANGED <<agentVars, up>>
    <3>1. agentId[d] \in AgentConns
      BY <1>2, <1>11, <2>1 DEF RecvHandshakeInit, Answerable, AgentIInv, AgentTypeOK
    <3>2. <<Frame("e2e.handshake.reply", m, agentId[d], msg.ref),
            Frame("e2e.ready", m, agentId[d], msg.ref)>> \in Seq(AgentMild)
      <4>1. /\ Frame("e2e.handshake.reply", m, agentId[d], msg.ref) \in AgentMild
            /\ Frame("e2e.ready", m, agentId[d], msg.ref) \in AgentMild
        BY <2>0, <3>1, MildFrames
      <4> QED BY <4>1
    <3>3. <<Frame("e2e.failed", m, None, None)>> \in Seq(AgentMild)
      BY <2>0 DEF AgentMild, Sendable, ClientFrames, Frame
    <3>4. UpMild
      BY <1>1, <1>2, <1>11, <2>1, <3>2, <3>3, MildWrites DEF RecvHandshakeInit, Send, c
    <3> QED BY <1>6, <1>11, <2>1, <3>4 DEF RecvHandshakeInit, admissionVars
  <2> QED BY <1>7, <2>1
<1>12. CASE msg.type = "e2e.ready" /\ RecvE2EReady(d, msg)
  BY <1>1, <1>2, <1>4, <1>6, <1>7, <1>12, MildRest, FailSessionMild
     DEF RecvE2EReady, FailE2ESession, admissionVars, AboutApps, c
<1>13. CASE msg.type \in E2EData /\ RecvE2EMessage(d, msg)
  BY <1>1, <1>2, <1>4, <1>6, <1>7, <1>13, MildRest, FailSessionMild
     DEF RecvE2EMessage, FailE2ESession, admissionVars, AboutApps, c
<1>14. CASE ConnectionLost(d) /\ UNCHANGED up
  <2>1. \A e \in Devices, x \in Apps :
          pairing'[e][x] = None \/ (pairing'[e][x] = pairing[e][x] /\ cur'[e] = cur[e])
    BY <1>2, <1>14, LostRequests
  <2> QED BY <1>2, <1>6, <1>14, <2>1, MildRest
<1> QED
  BY <1>1, <1>7, <1>8, <1>9, <1>10, <1>11, <1>12, <1>13, <1>14 DEF AgentHandle, E2EData

LEMMA AgentActsV ==
  ASSUME VInv, PInv', NEW d \in Devices,
         AgentHangsUp(d) \/ AgentDecides(d) \/ AgentSends(d)
  PROVE  VInv'
<1>1. /\ UpOK /\ AgentIInv /\ UNCHANGED <<authVars, pending, appVars, down>>
      /\ pairing \in [Devices -> [Apps -> AppConns \cup {None}]]
      /\ cur \in [Devices -> AgentConns \cup {None}]
  BY DEF VInv, PInv, AgentHangsUp, AgentDecides, AgentSends, AgentIInv, AgentTypeOK,
         relayVars, authVars
<1>2. ASSUME UpMild,
             \A e \in Devices, x \in Apps :
               \/ pairing'[e][x] = None
               \/ pairing'[e][x] = pairing[e][x] /\ cur'[e] = cur[e]
      PROVE  VInv'
  BY <1>1, <1>2, AgentKeepsV
<1>3. CASE HangUp(d)
  <2>1. cur[d] \in AgentConns /\ up' = [up EXCEPT ![cur[d]] = Append(@, Close)]
    BY <1>1, <1>3 DEF HangUp
  <2>2. Close \in AgentMild
    BY DEF AgentMild, Sendable, Close, Plain, Frame
  <2> HIDE DEF Close
  <2>3. \A b \in Conns : up'[b] = IF b = cur[d] THEN Append(up[b], Close) ELSE up[b]
    BY <1>1, <2>1 DEF UpOK
  <2>4. UpMild
    BY <1>1, <2>1, <2>2, <2>3, Extended, WireAssumption DEF UpOK, UpMild, Conns
  <2>5. \A e \in Devices, x \in Apps :
          pairing'[e][x] = None \/ (pairing'[e][x] = pairing[e][x] /\ cur'[e] = cur[e])
    BY <1>1, <1>3, LostRequests DEF HangUp
  <2> QED BY <1>2, <2>4, <2>5
<1>4. CASE \E x \in Apps : Approve(d, x)
  <2> PICK x \in Apps : Approve(d, x)
    BY <1>4
  <2> DEFINE m == pairing[d][x]
  <2>1. /\ m # None /\ Vouches(d, m) /\ pairing' = [pairing EXCEPT ![d][x] = None]
        /\ UNCHANGED cur
    BY RequestVouches DEF Approve, Authorize
  <2>2. \A e \in Devices, y \in Apps :
          pairing'[e][y] = None \/ (pairing'[e][y] = pairing[e][y] /\ cur'[e] = cur[e])
    BY <1>1, <2>1
  <2> HIDE DEF m
  <2>3. CASE SendAuthFailure(d, m)
    BY <1>1, <1>2, <2>1, <2>2, <2>3, FailureMild DEF Vouches
  <2>4. CASE Authorize(d, m)
    <3>1. \E n \in AppConns :
            /\ Vouches(d, n)
            /\ up' = [up EXCEPT ![cur[d]] = @ \o <<Frame("auth.ok", n, agentId[d], n)>>]
      BY <2>1, <2>4 DEF Authorize, Send, Vouches
    <3> QED BY <1>1, <2>2, <3>1, AgentKeepsV
  <2> QED BY <2>3, <2>4 DEF Approve, m
<1>5. CASE \E x \in Apps : Refuse(d, x)
  <2> PICK x \in Apps : Refuse(d, x)
    BY <1>5
  <2>1. /\ pairing[d][x] \in AppConns /\ cur[d] # None
        /\ pairing' = [pairing EXCEPT ![d][x] = None] /\ UNCHANGED cur
        /\ SendAuthFailure(d, pairing[d][x])
    BY <1>1, RequestVouches DEF Refuse, Vouches
  <2>2. \A e \in Devices, y \in Apps :
          pairing'[e][y] = None \/ (pairing'[e][y] = pairing[e][y] /\ cur'[e] = cur[e])
    BY <1>1, <2>1
  <2> QED BY <1>1, <1>2, <2>1, <2>2, FailureMild
<1>6. CASE \E x \in Apps : Revoke(d, x)
  <2>1. <<>> \in Seq(AgentMild)
    OBVIOUS
  <2> QED BY <1>1, <1>2, <1>6, <2>1, DisconnectMild DEF Revoke
<1>7. CASE \E x \in Apps : Remove(d, x)
  <2> PICK x \in Apps : Remove(d, x)
    BY <1>7
  <2> DEFINE m == pairing[d][x]
             first == IF m = None THEN <<>> ELSE <<Frame("auth.failed", m, None, None)>>
  <2>1. first \in Seq(AgentMild)
    <3>1. m # None => Frame("auth.failed", m, None, None) \in AgentMild
      BY <1>1 DEF AgentMild, Sendable, ClientFrames, Frame
    <3> QED BY <3>1
  <2>2. /\ Disconnect(d, x, first) /\ UNCHANGED cur
        /\ pairing' = [pairing EXCEPT ![d][x] = None]
    BY DEF Remove
  <2>3. \A e \in Devices, y \in Apps :
          pairing'[e][y] = None \/ (pairing'[e][y] = pairing[e][y] /\ cur'[e] = cur[e])
    BY <1>1, <2>2
  <2> HIDE DEF first, m
  <2> QED BY <1>1, <1>2, <2>1, <2>2, <2>3, DisconnectMild
<1>8. CASE \E m \in AppConns : DeviceOf[m] = d /\ SendBusiness(d, m)
  <2> PICK m \in AppConns : DeviceOf[m] = d /\ SendBusiness(d, m)
    BY <1>8
  <2>1. agentId[d] \in AgentConns /\ cur[d] # None
    BY <1>1 DEF SendBusiness, CanSendTo, AgentIInv, SessionsListed, AgentTypeOK
  <2>2. <<Frame("e2e.message", m, agentId[d], m)>> \in Seq(AgentMild)
    <3>1. Frame("e2e.message", m, agentId[d], m) \in AgentMild
      BY <2>1, MildFrames DEF E2EData
    <3> QED BY <3>1
  <2> QED BY <1>1, <1>2, <2>1, <2>2, MildWrites DEF SendBusiness, Send, admissionVars
<1> QED
  BY <1>3, <1>4, <1>5, <1>6, <1>7, <1>8 DEF AgentHangsUp, AgentDecides, AgentSends

\* A step of App m that writes frames of S.  Its first frame apart, it never
\* writes mobile.connect; it goes on from "connected" only with a challenge it
\* has read.
TookFrom(c) ==
  UNCHANGED down \/ (down[c] # <<>> /\ down' = [down EXCEPT ![c] = Tail(@)])

AppMoves(m, S) ==
  /\ TookFrom(m)
  /\ \A n \in AppConns : n # m => phase'[n] = phase[n] /\ agentOf'[n] = agentOf[n]
  /\ \A b \in Conns : b # m => up'[b] = up[b]
  /\ Extends(up[m], up'[m], S)
  /\ \/ \A f \in S : f.type # "mobile.connect"
     \/ /\ phase[m] = "idle" /\ phase'[m] = "connected"
        /\ \A i \in DOMAIN up'[m] : i = 1
  /\ \A f \in S : f.type = "auth.proof" =>
       phase'[m] = "proved" /\ agentOf'[m] = f.agent
  /\ phase'[m] = "idle" => phase[m] = "idle" /\ up'[m] = up[m]
  /\ \/ phase'[m] = "closed"
     \/ /\ phase[m] \in {"proved"} \cup Late =>
              agentOf'[m] = agentOf[m] /\ phase'[m] \in {"proved"} \cup Late
        /\ phase[m] # "closed"
  /\ phase'[m] \in Late => authed[m]
  /\ \/ phase[m] \in {"connected", "closed"} => phase'[m] \in {"connected", "closed"}
     \/ /\ down[m] # <<>> /\ down' = [down EXCEPT ![m] = Tail(@)]
        /\ Head(down[m]).type = "auth.challenge"

LEMMA AppKeepsV ==
  ASSUME VInv, PInv', NEW m \in AppConns, NEW S, AppMoves(m, S),
         UNCHANGED <<agentVars, authVars, pending>>
  PROVE  VInv'
<1> USE DEF AppMoves, TookFrom
<1> USE WireAssumption
<1>0. m \in Conns
  BY DEF Conns
<1>1. UNCHANGED <<role, authed, pending, cur, agentId, pairing>>
  BY DEF agentVars, authVars, admissionVars
<1>2. \A n \in AppConns : \A a : Proved(n, a) =>
        \/ phase'[n] = "closed"
        \/ phase'[n] \in {"proved"} \cup Late /\ agentOf'[n] = a
  BY DEF Proved
<1>3. \A n \in AppConns : \A a : Vouchable(n, a) =>
        /\ role'[n] = "mobile" /\ pending'[n] \in {a, None}
        /\ \/ phase'[n] = "closed"
           \/ phase'[n] \in {"proved"} \cup Late /\ agentOf'[n] = a
  BY <1>1, <1>2 DEF Vouchable
<1>4. /\ \A b \in Conns : down[b] \in Seq(Messages)
      /\ \A a \in AgentConns : down[a] \in Seq(FramesFor(a))
      /\ \A b \in Conns : up[b] \in Seq(Sendable)
      /\ \A b \in Conns : down'[b] = down[b] \/ (b = m /\ down'[b] = Tail(down[b]))
  BY DEF VInv, PInv, DownOK, UpOK, Conns
<1>5. \A n \in AppConns : \A i \in DOMAIN down[n] :
        /\ down[n][i].type = "auth.challenge" =>
             /\ role[n] = "mobile" /\ phase[n] \in {"connected", "closed"}
             /\ \A j \in DOMAIN down[n] : down[n][j].type = "auth.challenge" => i = j
        /\ down[n][i].type = "auth.ok" => authed[n]
  BY DEF VInv, Challenges
<1>6. \A i \in DOMAIN up[m] :
        up[m][i].type = "mobile.connect" =>
          i = 1 /\ role[m] = "unknown" /\ phase[m] \in {"connected", "closed"}
  BY DEF VInv, Connects
<1>7. \/ phase[m] \in {"connected", "closed"} => phase'[m] \in {"connected", "closed"}
      \/ /\ down[m] # <<>> /\ down'[m] = Tail(down[m]) /\ 1 \in DOMAIN down[m]
         /\ down[m][1].type = "auth.challenge" /\ role[m] = "mobile"
  <2>1. CASE /\ down[m] # <<>> /\ down' = [down EXCEPT ![m] = Tail(@)]
             /\ Head(down[m]).type = "auth.challenge"
    <3>1. 1 \in DOMAIN down[m] /\ Head(down[m]) = down[m][1]
      BY <1>0, <1>4, <2>1, TailFrames
    <3>2. down'[m] = Tail(down[m])
      BY <1>0, <2>1 DEF VInv, PInv, DownOK
    <3> QED BY <1>5, <2>1, <3>1, <3>2
  <2> QED BY <2>1
<1>8. Connects'
  <2>1. ASSUME NEW i \in DOMAIN up'[m], up'[m][i].type = "mobile.connect"
        PROVE  i = 1 /\ role'[m] = "unknown" /\ phase'[m] \in {"connected", "closed"}
    <3>1. CASE i \in DOMAIN up[m] /\ up'[m][i] = up[m][i]
      BY <1>1, <1>6, <1>7, <2>1, <3>1
    <3>2. CASE up'[m][i] \in S
      <4>1. phase[m] = "idle" /\ phase'[m] = "connected" /\ i = 1
        BY <2>1, <3>2
      <4> QED BY <1>1, <4>1 DEF VInv, Connects
    <3> QED BY <3>1, <3>2 DEF Extends
  <2>2. phase'[m] = "idle" => up'[m] = <<>> /\ role'[m] = "unknown"
    BY <1>1 DEF VInv, Connects
  <2> QED BY <1>1, <2>1, <2>2 DEF VInv, Connects, Conns
<1>9. Challenges'
  <2> SUFFICES ASSUME NEW n \in AppConns
               PROVE  /\ pending'[n] # None => role'[n] = "mobile"
                      /\ phase'[n] \in Late => authed'[n]
                      /\ \A i \in DOMAIN down'[n] :
                           /\ down'[n][i].type = "auth.challenge" =>
                                /\ role'[n] = "mobile" /\ phase'[n] \in {"connected", "closed"}
                                /\ \A j \in DOMAIN down'[n] :
                                     down'[n][j].type = "auth.challenge" => i = j
                           /\ down'[n][i].type = "auth.ok" => authed'[n]
    BY DEF Challenges
  <2>1. /\ pending'[n] # None => role'[n] = "mobile"
        /\ phase'[n] \in Late => authed'[n]
    BY <1>1 DEF VInv, Challenges
  <2>2. CASE n # m
    <3>1. down'[n] = down[n] /\ phase'[n] = phase[n]
      BY <1>4, <2>2 DEF Conns
    <3> QED BY <1>1, <1>5, <2>1, <3>1
  <2>3. CASE n = m /\ down'[m] = down[m]
    <3>1. down[m] \in Seq(Messages)
      BY <1>0, <1>4
    <3>2. down[m] = <<>> \/ Tail(down[m]) # down[m]
      BY <3>1, TailDiffers
    <3> QED BY <1>1, <1>5, <1>7, <2>1, <2>3, <3>2
  <2>4. CASE n = m /\ down'[m] # down[m]
    <3>1. down[m] # <<>> /\ down'[m] = Tail(down[m])
      BY <1>0, <1>4, <2>4
    <3>2. \A i \in DOMAIN down'[m] :
            i # 0 /\ i \in Nat /\ i + 1 \in DOMAIN down[m] /\ down'[m][i] = down[m][i + 1]
      BY <1>0, <1>4, <3>1, TailFrames
    <3>3. ASSUME NEW i \in DOMAIN down'[m], down'[m][i].type = "auth.challenge"
          PROVE  /\ role'[m] = "mobile" /\ phase'[m] \in {"connected", "closed"}
                 /\ \A j \in DOMAIN down'[m] : down'[m][j].type = "auth.challenge" => i = j
      <4>1. /\ role[m] = "mobile" /\ phase[m] \in {"connected", "closed"}
            /\ \A j \in DOMAIN down[m] : down[m][j].type = "auth.challenge" => i + 1 = j
        BY <1>5, <3>2, <3>3
      <4>2. i + 1 # 1
        BY <3>2
      <4>3. phase'[m] \in {"connected", "closed"}
        BY <1>7, <4>1, <4>2
      <4>4. ASSUME NEW j \in DOMAIN down'[m], down'[m][j].type = "auth.challenge"
            PROVE  i = j
        <5>1. i + 1 = j + 1 /\ i \in Nat /\ j \in Nat
          BY <3>2, <4>1, <4>4
        <5> QED BY <5>1
      <4> QED BY <1>1, <4>1, <4>3, <4>4
    <3> QED BY <1>1, <1>5, <2>1, <2>4, <3>2, <3>3
  <2> QED BY <2>2, <2>3, <2>4
<1>10. Proofs'
  <2> SUFFICES ASSUME NEW n \in AppConns, NEW i \in DOMAIN up'[n],
                      up'[n][i].type = "auth.proof"
               PROVE  \/ phase'[n] = "closed"
                      \/ /\ phase'[n] \in {"proved"} \cup Late
                         /\ agentOf'[n] = up'[n][i].agent
    BY DEF Proofs, Proved
  <2>1. CASE i \in DOMAIN up[n] /\ up'[n][i] = up[n][i]
    BY <1>2, <2>1 DEF VInv, Proofs
  <2>2. CASE n = m /\ up'[n][i] \in S
    BY <2>2
  <2> QED BY <2>1, <2>2 DEF Extends, Conns
<1>11. Verifies'
  <2> SUFFICES ASSUME NEW a \in AgentConns, NEW i \in DOMAIN down'[a],
                      down'[a][i].type = "auth.verify"
               PROVE  LET n == down'[a][i].app
                      IN  /\ role'[n] = "mobile" /\ pending'[n] \in {a, None}
                          /\ \/ phase'[n] = "closed"
                             \/ phase'[n] \in {"proved"} \cup Late /\ agentOf'[n] = a
    BY DEF Verifies, Vouchable, Proved
  <2>1. down'[a] = down[a]
    BY <1>4 DEF Conns
  <2>2. down[a] \in Seq(FramesFor(a)) /\ i \in DOMAIN down[a]
    BY <1>4, <2>1
  <2>3. down[a][i].app \in AppConns
    BY <2>1, <2>2 DEF FramesFor, AboutApps
  <2> QED BY <1>3, <2>1, <2>3 DEF VInv, Verifies
<1>12. Requests'
  <2> SUFFICES ASSUME NEW d \in Devices, NEW x \in Apps, pairing'[d][x] # None
               PROVE  LET n == pairing'[d][x]
                      IN  /\ role'[n] = "mobile" /\ pending'[n] \in {cur'[d], None}
                          /\ \/ phase'[n] = "closed"
                             \/ phase'[n] \in {"proved"} \cup Late /\ agentOf'[n] = cur'[d]
    BY DEF Requests, Vouchable, Proved
  <2>1. pairing[d][x] \in AppConns
    BY <1>1 DEF VInv, PInv, AgentIInv, AgentTypeOK
  <2> QED BY <1>1, <1>3, <2>1 DEF VInv, Requests
<1>13. Vouchers'
  <2> SUFFICES ASSUME NEW a \in AgentConns, NEW i \in DOMAIN up'[a],
                      up'[a][i].type = "auth.ok"
               PROVE  LET n == up'[a][i].app
                      IN  /\ n \in AppConns /\ up'[a][i].agent = a
                          /\ role'[n] = "mobile" /\ pending'[n] \in {a, None}
                          /\ \/ phase'[n] = "closed"
                             \/ phase'[n] \in {"proved"} \cup Late /\ agentOf'[n] = a
    BY DEF Vouchers, Vouchable, Proved
  <2>1. up'[a] = up[a]
    BY DEF Conns
  <2> QED BY <1>3, <2>1 DEF VInv, Vouchers
<1> QED BY <1>8, <1>9, <1>10, <1>11, <1>12, <1>13 DEF VInv

\* What an App writes besides mobile.connect and its proof.
AppMild == {f \in Sendable : f.type \notin {"mobile.connect", "auth.proof"}}

AppMildly(m) ==
  \/ UNCHANGED up
  \/ /\ phase[m] # "idle"
     /\ \E frames \in Seq(AppMild) : up' = [up EXCEPT ![m] = @ \o frames]

LEMMA AppMildExtends ==
  ASSUME UpOK, NEW m \in AppConns, AppMildly(m)
  PROVE  /\ \A b \in Conns : b # m => up'[b] = up[b]
         /\ Extends(up[m], up'[m], AppMild)
<1>1. m \in Conns /\ up[m] \in Seq(Sendable)
  BY DEF UpOK, Conns
<1>2. CASE UNCHANGED up
  BY <1>1, <1>2, Extended
<1>3. CASE \E frames \in Seq(AppMild) : up' = [up EXCEPT ![m] = @ \o frames]
  BY <1>1, <1>3, WritesExtend
<1> QED BY <1>2, <1>3 DEF AppMildly

LEMMA AppShutV ==
  ASSUME VInv, PInv', NEW m \in AppConns, NEW frames \in Seq(AppMild),
         AppShut(m, frames), UNCHANGED <<agentVars, authVars, pending>>, TookFrom(m)
  PROVE  VInv'
<1>1. frames \o <<Close>> \in Seq(AppMild)
  <2>1. Close \in AppMild
    BY DEF AppMild, Sendable, Close, Plain, Frame
  <2> HIDE DEF Close
  <2>2. <<Close>> \in Seq(AppMild)
    BY <2>1
  <2> QED BY <2>2
<1>2. \E fs \in Seq(AppMild) : up' = [up EXCEPT ![m] = @ \o fs]
  BY <1>1 DEF AppShut, AppSend
<1>3. UpOK /\ m \in Conns /\ up[m] \in Seq(Sendable)
  BY DEF VInv, PInv, UpOK, Conns
<1>4. /\ \A b \in Conns : b # m => up'[b] = up[b]
      /\ Extends(up[m], up'[m], AppMild)
  BY <1>2, <1>3, WritesExtend
<1>5. /\ phase' = [phase EXCEPT ![m] = "closed"]
      /\ agentOf' = [agentOf EXCEPT ![m] = None]
      /\ phase \in [AppConns -> Phases] /\ agentOf \in [AppConns -> AgentConns \cup {None}]
  BY DEF AppShut, VInv, PInv, AppIInv, AppTypeOK
<1>6. /\ \A n \in AppConns : n # m => phase'[n] = phase[n] /\ agentOf'[n] = agentOf[n]
      /\ phase'[m] = "closed"
  BY <1>5
<1>7. \A f \in AppMild : f.type # "mobile.connect" /\ f.type # "auth.proof"
  BY DEF AppMild
<1>8. phase'[m] \notin Late
  BY <1>6 DEF Late
<1>9. AppMoves(m, AppMild)
  BY <1>4, <1>6, <1>7, <1>8 DEF AppMoves
<1> QED BY <1>9, AppKeepsV

\* A session that goes on as it was, or a stage further once authenticated.
LEMMA AppGoesOnV ==
  ASSUME VInv, PInv', NEW m \in AppConns, AppMildly(m),
         UNCHANGED <<agentVars, authVars, pending, agentOf>>, TookFrom(m),
         \/ UNCHANGED phase
         \/ /\ phase[m] \in {"proved"} \cup Late /\ authed[m]
            /\ \E p \in Late : phase' = [phase EXCEPT ![m] = p]
  PROVE  VInv'
<1>1. /\ \A b \in Conns : b # m => up'[b] = up[b]
      /\ Extends(up[m], up'[m], AppMild)
  BY AppMildExtends DEF VInv, PInv
<1>2. \A f \in AppMild : f.type # "mobile.connect" /\ f.type # "auth.proof"
  BY DEF AppMild
<1>3. /\ \A n \in AppConns : n # m => phase'[n] = phase[n]
      /\ \/ phase'[m] = phase[m]
         \/ phase[m] \in {"proved"} \cup Late /\ authed[m] /\ phase'[m] \in Late
  BY DEF VInv, PInv, AppIInv, AppTypeOK
<1>4. phase[m] \in Late => authed[m]
  BY DEF VInv, Challenges
<1>5. phase'[m] = "idle" => phase[m] = "idle" /\ up'[m] = up[m]
  BY <1>3 DEF AppMildly, Late
<1>6. \/ phase'[m] = "closed"
      \/ /\ phase[m] \in {"proved"} \cup Late =>
              agentOf'[m] = agentOf[m] /\ phase'[m] \in {"proved"} \cup Late
         /\ phase[m] # "closed"
  BY <1>3 DEF Late
<1>7. phase[m] \in {"connected", "closed"} => phase'[m] \in {"connected", "closed"}
  BY <1>3 DEF Late
<1>8. phase'[m] \in Late => authed[m]
  BY <1>3, <1>4
<1>9. \A n \in AppConns : n # m => phase'[n] = phase[n] /\ agentOf'[n] = agentOf[n]
  BY <1>3
<1> HIDE DEF Late
<1>10. AppMoves(m, AppMild)
  BY <1>1, <1>2, <1>5, <1>6, <1>7, <1>8, <1>9 DEF AppMoves
<1> QED BY <1>10, AppKeepsV

LEMMA AppFrameMild ==
  ASSUME VInv, NEW m \in AppConns, phase[m] \notin {"idle", "connected", "closed"}
  PROVE  \A t \in {"e2e.handshake.init", "e2e.ready"} \cup E2EData :
           Frame(t, m, agentOf[m], m) \in AppMild
<1>1. agentOf[m] \in AgentConns
  BY DEF VInv, PInv, AppIInv, AppTypeOK
<1>2. \A t \in {"e2e.handshake.init", "e2e.ready"} \cup E2EData :
        /\ Frame(t, m, agentOf[m], m) \in Sendable
        /\ Frame(t, m, agentOf[m], m).type \notin {"mobile.connect", "auth.proof"}
  BY <1>1, WrittenFrames DEF Frame, E2EData
<1> QED BY <1>2 DEF AppMild

LEMMA AppCloseV ==
  ASSUME VInv, PInv', NEW m \in AppConns, AppClose(m),
         UNCHANGED <<agentVars, authVars, pending>>, TookFrom(m)
  PROVE  VInv'
<1>1. phase[m] = "ready" => Frame("e2e.goodbye", m, agentOf[m], m) \in AppMild
  BY AppFrameMild DEF E2EData
<1>2. (IF phase[m] = "ready" THEN <<Frame("e2e.goodbye", m, agentOf[m], m)>> ELSE <<>>)
        \in Seq(AppMild)
  BY <1>1
<1> QED BY <1>2, AppShutV DEF AppClose

\* Frames to an App, and its part of what they say.
LEMMA AppReadsV ==
  ASSUME VInv, PInv', NEW m \in AppConns, AppReads(m)
  PROVE  VInv'
<1> DEFINE msg == Head(down[m])
<1>1. /\ down[m] # <<>> /\ AppHandle(m, msg) /\ down' = [down EXCEPT ![m] = Tail(@)]
      /\ UNCHANGED <<agentVars, authVars, pending>> /\ TookFrom(m)
  BY DEF AppReads, relayVars, authVars, TookFrom
<1>2. 1 \in DOMAIN down[m] /\ msg = down[m][1]
  <2>1. down[m] \in Seq(Messages)
    BY DEF VInv, PInv, DownOK, Conns
  <2> QED BY <1>1, <2>1, TailFrames
<1>3. /\ phase[m] \in Late => authed[m]
      /\ msg.type = "auth.challenge" => phase[m] \in {"connected", "closed"}
      /\ msg.type = "auth.ok" => authed[m]
  BY <1>2 DEF VInv, Challenges
<1> HIDE DEF msg
<1>4. CASE UNCHANGED <<appVars, up>>
  <2>1. AppMildly(m) /\ UNCHANGED <<phase, agentOf>>
    BY <1>4 DEF AppMildly, appVars
  <2> QED BY <1>1, <2>1, AppGoesOnV
<1>5. CASE AppShut(m, <<>>)
  <2>1. <<>> \in Seq(AppMild)
    OBVIOUS
  <2> QED BY <1>1, <1>5, <2>1, AppShutV
<1>6. CASE phase[m] # "closed" /\ msg.type = "auth.challenge" /\ AppRecvChallenge(m, msg)
  <2>1. /\ phase[m] = "connected" /\ UNCHANGED up
        /\ phase' = [phase EXCEPT ![m] = "signing"]
        /\ agentOf' = [agentOf EXCEPT ![m] = msg.agent]
    BY <1>3, <1>6 DEF AppRecvChallenge
  <2>2. /\ \A n \in AppConns : n # m => phase'[n] = phase[n] /\ agentOf'[n] = agentOf[n]
        /\ phase'[m] = "signing"
    BY <2>1 DEF VInv, PInv, AppIInv, AppTypeOK
  <2>3. /\ Extends(up[m], up'[m], {}) /\ \A b \in Conns : b # m => up'[b] = up[b]
    BY <2>1, Extended DEF VInv, PInv, UpOK, Conns
  <2>4. phase'[m] \notin Late /\ phase[m] \notin {"proved"} \cup Late
    BY <2>1, <2>2 DEF Late
  <2>5. down[m] # <<>> /\ down' = [down EXCEPT ![m] = Tail(@)] /\ Head(down[m]).type = "auth.challenge"
    BY <1>1, <1>6 DEF msg
  <2>6. AppMoves(m, {})
    BY <1>1, <2>1, <2>2, <2>3, <2>4, <2>5 DEF AppMoves
  <2> QED BY <1>1, <2>6, AppKeepsV
<1>7. CASE msg.type = "auth.ok" /\ AppRecvAuthOk(m, msg) /\ ~AppShut(m, <<>>)
  <2>1. /\ phase[m] = "proved" /\ phase' = [phase EXCEPT ![m] = "keying"]
        /\ UNCHANGED <<agentOf, up>> /\ "keying" \in Late
    BY <1>7 DEF AppRecvAuthOk, Late
  <2>2. AppMildly(m)
    BY <2>1 DEF AppMildly
  <2> QED BY <1>1, <1>3, <1>7, <2>1, <2>2, AppGoesOnV
<1>8. CASE AppClose(m)
  BY <1>1, <1>8, AppCloseV
<1>9. CASE AppRecvReply(m, msg) /\ ~UNCHANGED <<appVars, up>> /\ ~AppShut(m, <<>>)
  <2>1. /\ phase[m] = "initiated" /\ phase' = [phase EXCEPT ![m] = "session"]
        /\ up' = [up EXCEPT ![m] = @ \o <<Frame("e2e.ready", m, agentOf[m], m)>>]
        /\ UNCHANGED agentOf
    BY <1>9 DEF AppRecvReply, AppSend
  <2>2. <<Frame("e2e.ready", m, agentOf[m], m)>> \in Seq(AppMild)
    <3>1. Frame("e2e.ready", m, agentOf[m], m) \in AppMild
      BY <2>1, AppFrameMild
    <3> QED BY <3>1
  <2>3. AppMildly(m)
    BY <2>1, <2>2 DEF AppMildly
  <2>4. phase[m] \in Late /\ "session" \in Late
    BY <2>1 DEF Late
  <2> QED BY <1>1, <1>3, <2>1, <2>3, <2>4, AppGoesOnV
<1>10. CASE AppRecvE2EReady(m, msg) /\ ~UNCHANGED <<appVars, up>> /\ ~AppShut(m, <<>>)
  <2> DEFINE frame == Frame("e2e.message", m, agentOf[m], m)
             waiting == [i \in 1 .. queued[m] |-> frame]
  <2>1. /\ phase[m] \in {"session", "ready"} /\ phase' = [phase EXCEPT ![m] = "ready"]
        /\ up' = [up EXCEPT ![m] = @ \o waiting]
        /\ UNCHANGED agentOf
    BY <1>10 DEF AppRecvE2EReady, AppSend
  <2>2. frame \in AppMild /\ queued[m] \in Nat
    <3>1. frame \in AppMild
      BY <2>1, AppFrameMild DEF E2EData
    <3>2. queued[m] \in Nat
      BY WireAssumption DEF VInv, PInv, AppIInv, AppTypeOK
    <3> QED BY <3>1, <3>2
  <2>3. waiting \in Seq(AppMild)
    <3> HIDE DEF frame
    <3>1. waiting \in [1 .. queued[m] -> AppMild]
      BY <2>2
    <3> HIDE DEF waiting
    <3> QED BY <2>2, <3>1, SeqDef
  <2> HIDE DEF waiting
  <2>4. AppMildly(m)
    BY <2>1, <2>3 DEF AppMildly
  <2>5. phase[m] \in Late /\ "ready" \in Late
    BY <2>1 DEF Late
  <2> QED BY <1>1, <1>3, <2>1, <2>4, <2>5, AppGoesOnV
<1> QED
  BY <1>1, <1>4, <1>5, <1>6, <1>7, <1>8, <1>9, <1>10
     DEF AppHandle, AppRecvE2EMessage, AppRecvE2EFailed

LEMMA AppConnectsV ==
  ASSUME VInv, PInv', NEW m \in AppConns, AppConnects(m)
  PROVE  VInv'
<1> DEFINE hello == Plain("mobile.connect")
<1>1. /\ phase[m] = "idle" /\ phase' = [phase EXCEPT ![m] = "connected"]
      /\ up' = [up EXCEPT ![m] = @ \o <<hello>>]
      /\ UNCHANGED <<agentOf, agentVars, authVars, pending, down>>
  BY DEF AppConnects, AppConnect, AppSend, Accept
<1>2. hello.type = "mobile.connect"
  BY DEF Plain, Frame
<1> HIDE DEF hello
<1>3. up[m] = <<>> /\ up \in [Conns -> Seq(Sendable)] /\ m \in Conns
  BY <1>1 DEF VInv, Connects, PInv, UpOK, Conns
<1>4. up'[m] = <<hello>> /\ \A b \in Conns : b # m => up'[b] = up[b]
  BY <1>1, <1>3
<1>5. Extends(up[m], up'[m], {hello}) /\ \A i \in DOMAIN up'[m] : i = 1
  BY <1>3, <1>4 DEF Extends
<1>6. phase'[m] = "connected" /\ \A n \in AppConns : n # m => phase'[n] = phase[n]
  BY <1>1 DEF VInv, PInv, AppIInv, AppTypeOK
<1>7. phase'[m] \notin Late /\ phase[m] \notin {"proved"} \cup Late
  BY <1>1, <1>6 DEF Late
<1>8. AppMoves(m, {hello})
  BY <1>1, <1>2, <1>4, <1>5, <1>6, <1>7 DEF AppMoves, TookFrom
<1> QED BY <1>1, <1>8, AppKeepsV

LEMMA AppActsV ==
  ASSUME VInv, PInv', NEW m \in AppConns, AppResumes(m) \/ AppSends(m) \/ AppLeaves(m)
  PROVE  VInv'
<1>1. UNCHANGED <<agentVars, authVars, pending, down>> /\ TookFrom(m)
  BY DEF AppResumes, AppSends, AppLeaves, relayVars, authVars, TookFrom
<1>2. CASE AppSendProof(m)
  <2> DEFINE proof == Frame("auth.proof", m, agentOf[m], m)
  <2>1. /\ phase[m] = "signing" /\ phase' = [phase EXCEPT ![m] = "proved"]
        /\ up' = [up EXCEPT ![m] = @ \o <<proof>>] /\ UNCHANGED agentOf
    BY <1>2 DEF AppSendProof, AppSend
  <2>2. proof.type = "auth.proof" /\ proof.agent = agentOf[m] /\ <<proof>> \in Seq({proof})
    BY DEF Frame
  <2> HIDE DEF proof
  <2>3. UpOK /\ m \in Conns
    BY DEF VInv, PInv, Conns
  <2>4. Extends(up[m], up'[m], {proof}) /\ \A b \in Conns : b # m => up'[b] = up[b]
    BY <2>1, <2>2, <2>3, WritesExtend
  <2>5. phase'[m] = "proved" /\ \A n \in AppConns : n # m => phase'[n] = phase[n]
    BY <2>1 DEF VInv, PInv, AppIInv, AppTypeOK
  <2>6. phase'[m] \notin Late /\ phase[m] \notin {"proved"} \cup Late
    BY <2>1, <2>5 DEF Late
  <2>7. AppMoves(m, {proof})
    BY <1>1, <2>1, <2>2, <2>4, <2>5, <2>6 DEF AppMoves
  <2> QED BY <1>1, <2>7, AppKeepsV
<1>3. CASE AppSendHandshakeInit(m)
  <2>1. /\ phase[m] = "keying" /\ phase' = [phase EXCEPT ![m] = "initiated"]
        /\ up' = [up EXCEPT ![m] = @ \o <<Frame("e2e.handshake.init", m, agentOf[m], m)>>]
        /\ UNCHANGED agentOf
    BY <1>3 DEF AppSendHandshakeInit, AppSend
  <2>2. <<Frame("e2e.handshake.init", m, agentOf[m], m)>> \in Seq(AppMild)
    <3>1. Frame("e2e.handshake.init", m, agentOf[m], m) \in AppMild
      BY <2>1, AppFrameMild
    <3> QED BY <3>1
  <2>3. AppMildly(m)
    BY <2>1, <2>2 DEF AppMildly
  <2>4. phase[m] \in Late /\ "initiated" \in Late /\ authed[m]
    BY <2>1 DEF Late, VInv, Challenges
  <2> QED BY <1>1, <2>1, <2>3, <2>4, AppGoesOnV
<1>4. CASE AppSendBusiness(m)
  <2>1. UNCHANGED <<phase, agentOf>> /\ phase[m] # "idle"
    BY <1>4 DEF AppSendBusiness
  <2>2. AppMildly(m)
    <3>1. CASE phase[m] = "ready"
      <4>1. <<Frame("e2e.message", m, agentOf[m], m)>> \in Seq(AppMild)
        <5>1. Frame("e2e.message", m, agentOf[m], m) \in AppMild
          BY <3>1, AppFrameMild DEF E2EData
        <5> QED BY <5>1
      <4>2. up' = [up EXCEPT ![m] = @ \o <<Frame("e2e.message", m, agentOf[m], m)>>]
        BY <1>4, <3>1 DEF AppSendBusiness, AppSend
      <4> QED BY <2>1, <4>1, <4>2 DEF AppMildly
    <3> QED BY <1>4, <3>1 DEF AppSendBusiness, AppMildly
  <2> QED BY <1>1, <2>1, <2>2, AppGoesOnV
<1>5. CASE AppClose(m)
  BY <1>1, <1>5, AppCloseV
<1> QED BY <1>2, <1>3, <1>4, <1>5 DEF AppResumes, AppSends, AppLeaves

LEMMA AgentConnectsV ==
  ASSUME VInv, PInv', NEW d \in Devices, AgentConnects(d)
  PROVE  VInv'
<1> PICK a \in AgentConns : DeviceOf[a] = d /\ Connect(d, a) /\ Accept(a) /\ UNCHANGED appVars
  BY DEF AgentConnects
<1>1. UNCHANGED <<authVars, pending, appVars, down>>
  BY DEF Accept
<1>2. UpMild
  <2> DEFINE hello == Plain("agent.auth.init")
  <2>1. hello \in AgentMild /\ up' = [up EXCEPT ![a] = Append(@, hello)]
    BY DEF AgentMild, Sendable, ClientFrames, Plain, Frame, Connect
  <2> HIDE DEF hello
  <2>2. /\ up \in [Conns -> Seq(Sendable)] /\ a \in Conns
        /\ \A m \in AppConns : m \in Conns /\ m # a
    BY WireAssumption DEF VInv, PInv, UpOK, Conns
  <2>3. \A b \in Conns : up'[b] = IF b = a THEN Append(up[b], hello) ELSE up[b]
    BY <2>1, <2>2
  <2> QED BY <2>1, <2>2, <2>3, Extended DEF UpMild, Conns
<1>3. \A e \in Devices, x \in Apps :
        pairing'[e][x] = None \/ (pairing'[e][x] = pairing[e][x] /\ cur'[e] = cur[e])
  <2>1. /\ cur[d] = None /\ cur' = [cur EXCEPT ![d] = a] /\ UNCHANGED pairing
        /\ cur \in [Devices -> AgentConns \cup {None}]
    BY DEF Connect, admissionVars, VInv, PInv, AgentIInv, AgentTypeOK
  <2>2. \A x \in Apps : pairing[d][x] = None
    BY <2>1 DEF VInv, PInv, AgentIInv, OpenRequests
  <2> QED BY <2>1, <2>2
<1> QED BY <1>1, <1>2, <1>3, AgentKeepsV

\* Every frame the relay adds is one an earlier frame accounts for.
LEMMA ReadAdds ==
  ASSUME VInv, NEW c \in Conns, NEW msg \in ClientFrames, up[c] # <<>>,
         msg = Head(up[c]), Handle(c, msg)
  PROVE  \A b \in Conns : \A i \in DOMAIN down'[b] :
           \/ i \in DOMAIN down[b] /\ down'[b][i] = down[b][i]
           \/ i \notin DOMAIN down[b] /\ Judged(c, b, down'[b][i])
<1> USE WireAssumption
<1>0. /\ \A b \in Conns : down[b] \in Seq(Messages)
      /\ down \in [Conns -> Seq(Messages)]
      /\ IInv /\ DownOK
  BY DEF VInv, PInv, DownOK
<1>1. 1 \in DOMAIN up[c] /\ msg = up[c][1]
  <2>1. up[c] \in Seq(Sendable)
    BY DEF VInv, PInv, UpOK
  <2> QED BY <2>1, TailFrames
<1>2. CASE DownExtends
  BY <1>2 DEF DownExtends, Extends, QuietFor, Judged
<1>3. ASSUME NEW e \in Conns, NEW f, down' = Push(e, f),
             (\A i, j \in DOMAIN down'[e] : i \in DOMAIN down[e] \/ j \in DOMAIN down[e] \/ i = j)
               => Judged(c, e, f)
      PROVE  \A b \in Conns : \A i \in DOMAIN down'[b] :
               \/ i \in DOMAIN down[b] /\ down'[b][i] = down[b][i]
               \/ i \notin DOMAIN down[b] /\ Judged(c, b, down'[b][i])
  <2>1. CASE down' = down
    BY <2>1
  <2>2. CASE down' = [down EXCEPT ![e] = Append(@, f)]
    <3>1. \A b \in Conns : down'[b] = IF b = e THEN Append(down[b], f) ELSE down[b]
      BY <1>0, <2>2
    <3>2. /\ \A i \in DOMAIN Append(down[e], f) :
               \/ i \in DOMAIN down[e] /\ Append(down[e], f)[i] = down[e][i]
               \/ i \notin DOMAIN down[e] /\ Append(down[e], f)[i] = f
          /\ \A i, j \in DOMAIN Append(down[e], f) :
               i \in DOMAIN down[e] \/ j \in DOMAIN down[e] \/ i = j
      BY <1>0
    <3> QED BY <1>3, <3>1, <3>2
  <2> QED BY <1>3, <2>1, <2>2 DEF Push
<1>4. CASE c \in AppConns /\ msg.type = "mobile.connect" /\ ChallengeMobile(c)
  <2> DEFINE a == primary[DeviceOf[c]]
             f == Frame("auth.challenge", c, a, c)
  <2>1. CASE a = None
    <3>1. Fail(c)
      BY <1>4, <2>1 DEF ChallengeMobile
    <3> QED BY <1>0, <1>2, <3>1, FailExtends
  <2>2. CASE a # None
    <3>1. down' = Push(c, f) /\ role' = [role EXCEPT ![c] = "mobile"]
      BY <1>4, <2>2 DEF ChallengeMobile
    <3>2. role'[c] = "mobile" /\ f.type = "auth.challenge"
      BY <1>0, <3>1 DEF IInv, RelayTypeOK, Frame
    <3> HIDE DEF f, a
    <3>3. c \notin AgentConns
      BY <1>4
    <3>4. (\A i, j \in DOMAIN down'[c] : i \in DOMAIN down[c] \/ j \in DOMAIN down[c] \/ i = j)
            => Judged(c, c, f)
      BY <1>4, <3>2, <3>3 DEF Judged
    <3> QED BY <1>3, <3>1, <3>4
  <2> QED BY <2>1, <2>2
<1>5. CASE msg.type = "auth.proof" /\ ForwardProof(c, msg)
  <2> DEFINE a == pending[c]
             f == Frame("auth.verify", c, a, c)
  <2>1. /\ c \in AppConns /\ a \in AgentConns /\ msg.agent = a /\ role[c] = "mobile"
        /\ UNCHANGED <<role, pending>>
    BY <1>0, <1>5 DEF ForwardProof, ProofMatches, IInv, RelayTypeOK, VInv, Challenges
  <2>2. Proved(c, a)
    BY <1>1, <1>5, <2>1 DEF VInv, Proofs
  <2>3. CASE down' = Push(a, f)
    <3>1. f.type = "auth.verify" /\ f.app = c
      BY DEF Frame
    <3> HIDE DEF f
    <3>2. role'[c] = "mobile" /\ pending'[c] = a
      BY <2>1
    <3> HIDE DEF a
    <3>3. Judged(c, a, f)
      BY <2>1, <2>2, <3>1, <3>2 DEF Judged
    <3>4. a \in Conns
      BY <2>1 DEF Conns
    <3> QED BY <1>3, <2>3, <3>3, <3>4
  <2>4. CASE Fail(c)
    BY <1>0, <1>2, <2>4, FailExtends
  <2> QED BY <1>5, <2>3, <2>4 DEF ForwardProof
<1>6. CASE msg.type = "auth.ok" /\ ResultFor(c, msg.app) /\ AuthOk(c, msg.app, msg)
  <2> DEFINE m == msg.app
  <2>1. m \in AppConns /\ m \in Conns /\ m \notin AgentConns
    BY <1>6 DEF ResultFor, Conns
  <2>2. CASE AcceptApp(c, m, msg)
    <3>1. authed' = [authed EXCEPT ![m] = TRUE] /\ down' = Push(m, msg)
      BY <2>2 DEF AcceptApp
    <3>2. authed'[m]
      BY <1>0, <2>1, <3>1 DEF IInv, RelayTypeOK
    <3>3. Judged(c, m, msg)
      BY <1>6, <2>1, <3>2 DEF Judged
    <3> QED BY <1>3, <2>1, <3>1, <3>3
  <2>3. CASE Fail(m)
    BY <1>0, <1>2, <2>1, <2>3, FailExtends
  <2> QED BY <1>6, <2>2, <2>3 DEF AuthOk
<1> QED BY <1>0, <1>2, <1>4, <1>5, <1>6, HandleAdds

\* A step of the relay of its own.
LEMMA RelayActsV ==
  ASSUME VInv, PInv', NEW c \in Conns, UNCHANGED <<agentVars, appVars>>, DownExtends,
         \/ UNCHANGED up
         \/ up[c] # <<>> /\ up' = [up EXCEPT ![c] = Tail(@)],
         \A msg : Admits(None, msg)
  PROVE  VInv'
<1>1. \A b \in Conns : \A i \in DOMAIN down'[b] :
        \/ i \in DOMAIN down[b] /\ down'[b][i] = down[b][i]
        \/ i \notin DOMAIN down[b] /\ Judged(c, b, down'[b][i])
  BY DEF DownExtends, Extends, QuietFor, Judged
<1> QED BY <1>1, RelayKeepsV

LEMMA ReadV ==
  ASSUME VInv, PInv', NEW c \in Conns, Read(c)
  PROVE  VInv'
<1>1. /\ up[c] # <<>> /\ up' = [up EXCEPT ![c] = Tail(@)] /\ UNCHANGED <<agentVars, appVars>>
      /\ DownOK /\ IInv
  BY DEF Read, VInv, PInv
<1>2. CASE SocketEnded(c)
  <2>1. \A msg : Admits(None, msg)
    BY <1>2, UnregisterAdmits DEF SocketEnded, authVars, Admits
  <2>2. DownExtends
    BY <1>1, <1>2, RestExtends DEF SocketEnded
  <2> QED BY <1>1, <2>1, <2>2, RelayActsV
<1>3. CASE ~SocketEnded(c)
  <2> DEFINE msg == Head(up[c])
  <2>1. Handle(c, msg) /\ msg.type # "close"
    BY <1>3 DEF Read
  <2>2. msg \in Sendable
    BY <1>1, TakeKeepsUp DEF VInv, PInv
  <2>3. msg \in ClientFrames
    BY <2>1, <2>2, ClientFramesAre, AsksUnhandled
  <2>4. Admits(c, msg)
    BY <1>1, <2>1, <2>3, HandleAdmits
  <2>5. \A b \in Conns : \A i \in DOMAIN down'[b] :
          \/ i \in DOMAIN down[b] /\ down'[b][i] = down[b][i]
          \/ i \notin DOMAIN down[b] /\ Judged(c, b, down'[b][i])
    <3> HIDE DEF msg
    <3> QED BY <1>1, <2>1, <2>3, ReadAdds DEF msg
  <2> QED BY <1>1, <2>4, <2>5, RelayKeepsV
<1> QED BY <1>2, <1>3

LEMMA RelayClosesV ==
  ASSUME VInv, PInv', NEW c \in Conns,
         RelayCloses(c) \/ (c \in AppConns /\ Expire(c))
  PROVE  VInv'
<1>0. DownOK /\ UNCHANGED <<up, agentVars, appVars>>
  BY DEF VInv, PInv, RelayCloses, Expire
<1>1. CASE RelayCloses(c)
  <2>1. \A msg : Admits(None, msg)
    BY <1>1, UnregisterAdmits DEF RelayCloses, CloseByRelay
  <2>2. DownExtends
    BY <1>0, <1>1, PushCloseExtends DEF RelayCloses, CloseByRelay
  <2> QED BY <1>0, <2>1, <2>2, RelayActsV
<1>2. CASE c \in AppConns /\ Expire(c)
  <2>1. /\ UNCHANGED <<role, authed>>
        /\ \/ Unregister({c}, "ending") /\ down' = [down EXCEPT ![c] = @ \o <<AuthFailed(c), Close>>]
           \/ pending' = [pending EXCEPT ![c] = None] /\ UNCHANGED down
    BY <1>2 DEF Expire, ExpirePending
  <2>2. \A m \in AppConns : pending'[m] \in {pending[m], None}
    BY <2>1 DEF Unregister, VInv, PInv, IInv, RelayTypeOK
  <2>3. \A msg : Admits(None, msg)
    BY <2>1, <2>2 DEF Admits
  <2>4. DownExtends
    BY <1>0, <1>2, <2>1, FailAndCloseExtends, RestExtends
  <2> QED BY <1>0, <2>3, <2>4, RelayActsV
<1> QED BY <1>1, <1>2

LEMMA InitVInv == Init => VInv
<1> SUFFICES ASSUME Init PROVE VInv
  OBVIOUS
<1>1. PInv
  BY InitPInv
<1>2. /\ \A c \in Conns : up[c] = <<>> /\ down[c] = <<>>
      /\ \A c \in Conns : role[c] = "unknown"
      /\ \A m \in AppConns : pending[m] = None /\ phase[m] = "idle"
      /\ \A d \in Devices, x \in Apps : pairing[d][x] = None
  BY DEF Init, WireInit, RelayInit, AppInit, AgentInit, Conns
<1>3. Connects /\ Challenges
  BY <1>2 DEF Connects, Challenges, Late, Conns
<1>4. Proofs /\ Verifies /\ Requests /\ Vouchers
  BY <1>2 DEF Proofs, Verifies, Requests, Vouchers, Conns
<1> QED BY <1>1, <1>3, <1>4 DEF VInv

LEMMA NextVInv ==
  ASSUME VInv, [Next]_vars
  PROVE  VInv'
<1>1. PInv'
  BY NextPInv DEF VInv
<1>2. CASE UNCHANGED vars
  BY <1>1, <1>2 DEF vars, VInv, Connects, Challenges, Proofs, Verifies, Requests, Vouchers,
       Vouchable, Proved, relayVars, agentVars, appVars, admissionVars
<1> QED
  BY <1>1, <1>2, ReadV, RelayClosesV, AgentConnectsV, AgentHandleV, AgentActsV,
     AppConnectsV, AppReadsV, AppActsV DEF Next, Conns

THEOREM VouchersInvariant == Spec => []VInv
BY InitVInv, NextVInv, PTL DEF Spec

\* An App becomes authenticated in one handler only.
LEMMA HandleAuthenticates ==
  ASSUME IInv, NEW c \in Conns, NEW msg \in ClientFrames, Handle(c, msg),
         NEW m \in AppConns, ~authed[m], authed'[m]
  PROVE  /\ msg.type = "auth.ok" /\ role[c] = "agent" /\ msg.app = m
         /\ pending[m] # None /\ msg.agent = c
<1> USE WireAssumption
<1>1. authed \in [Conns -> BOOLEAN] /\ authed' # authed
  BY DEF IInv, RelayTypeOK, Conns
<1>2. CASE c \in AgentConns /\ AgentHello(c)
  <2>1. RegisterAgent(c)
    BY <1>1, <1>2 DEF AgentHello, RefuseAgent, relayVars
  <2>2. authed' = [authed EXCEPT ![c] = TRUE] /\ m # c
    BY <1>2, <2>1 DEF RegisterAgent
  <2> QED BY <1>1, <2>2 DEF Conns
<1>3. CASE msg.type \in {"auth.ok", "auth.pending", "auth.failed"} /\ AuthResult(c, msg)
  <2>1. /\ role[c] = "agent" /\ msg.type = "auth.ok" /\ msg.app \in AppConns
        /\ pending[msg.app] # None /\ msg.agent = c /\ AcceptApp(c, msg.app, msg)
    BY <1>1, <1>3 DEF AuthResult, ResultFor, AuthOk, AuthRefused, AuthPending, relayVars
  <2>2. authed' = [authed EXCEPT ![msg.app] = TRUE]
    BY <2>1 DEF AcceptApp
  <2>3. msg.app = m
    BY <1>1, <2>1, <2>2 DEF Conns
  <2> QED BY <2>1, <2>3
<1>4. CASE (c \in AgentConns /\ AgentAuthInit(c)) \/ WrongEndpoint(c)
  BY <1>1, <1>4 DEF AgentAuthInit, RefuseAgent, WrongEndpoint, authVars
<1>5. CASE (c \in AppConns /\ MobileConnect(c)) \/ AuthProof(c, msg)
  BY <1>1, <1>5 DEF MobileConnect, RefuseMobile, ChallengeMobile, AuthProof, ForwardProof,
       RefuseProof, BlockProof
<1>6. CASE HandshakeInit(c, msg) \/ HandshakeReply(c, msg) \/ E2EReady(c, msg)
  BY <1>1, <1>6 DEF HandshakeInit, HandshakeReply, E2EReady, MobileReady, AgentReady, Reject,
       relayVars, authVars
<1>7. CASE E2EMessage(c, msg) \/ E2EFailed(c, msg)
  BY <1>1, <1>7 DEF E2EMessage, MobileE2EMessage, AgentE2EMessage, Reject, E2EFailed,
       MobileE2EFailed, AgentE2EFailed, relayVars, authVars
<1> QED BY <1>2, <1>3, <1>4, <1>5, <1>6, <1>7 DEF Handle

LEMMA VouchStep ==
  ASSUME VInv, [Next]_vars, NEW m \in AppConns, ~authed[m], authed'[m]
  PROVE  /\ phase[m] \in {"proved", "closed"}
         /\ \E a \in AgentConns :
              /\ pending[m] = a /\ Head(up[a]).app = m
              /\ phase[m] = "proved" => agentOf[m] = a
<1>0. IInv /\ UpOK
  BY DEF VInv, PInv
<1>1. PICK c \in Conns : up[c] # <<>> /\ Head(up[c]).type # "close" /\ Handle(c, Head(up[c]))
  BY DEF Next, Read, RelayCloses, Expire, AgentConnects, AgentReads, AgentHangsUp,
       AgentDecides, AgentSends, AppConnects, AppReads, AppResumes, AppSends, AppLeaves,
       SocketEnded, CloseByRelay, ExpirePending, Accept, relayVars, authVars, vars
<1> DEFINE msg == Head(up[c])
<1>2. msg \in Sendable
  <2>1. up[c] \in Seq(Sendable)
    BY <1>0 DEF UpOK
  <2> QED BY <1>1, <2>1
<1>3. msg \in ClientFrames
  BY <1>1, <1>2, ClientFramesAre, AsksUnhandled
<1> HIDE DEF msg
<1>4. /\ msg.type = "auth.ok" /\ role[c] = "agent" /\ msg.app = m
      /\ pending[m] # None
  BY <1>0, <1>1, <1>3, HandleAuthenticates DEF msg
<1>5. c \in AgentConns
  BY <1>0, <1>4 DEF IInv, Endpoints
<1>6. 1 \in DOMAIN up[c] /\ msg = up[c][1]
  <2>1. up[c] \in Seq(Sendable)
    BY <1>0 DEF UpOK
  <2> QED BY <1>1, <2>1, TailFrames DEF msg
<1>7. Vouchable(m, c)
  BY <1>1, <1>4, <1>5, <1>6 DEF VInv, Vouchers
<1>8. phase[m] \notin Late
  BY DEF VInv, Challenges
<1>9. pending[m] = c /\ phase[m] \in {"proved", "closed"} /\ (phase[m] = "proved" => agentOf[m] = c)
  BY <1>4, <1>7, <1>8 DEF Vouchable, Proved
<1> QED BY <1>4, <1>5, <1>9 DEF msg

\* The relay authenticates an App on the word of one agent connection: the one
\* its own challenge named, which the App's proof answered.  A proof or an
\* auth.ok that was under way when another agent took over the device, when the
\* challenge expired or when the administrator decided late, authenticates
\* nobody else.
THEOREM VouchedFor == Spec => VouchedByChallenger
<1>1. VInv /\ [Next]_vars =>
        [\A m \in AppConns :
           ~authed[m] /\ authed'[m] =>
             /\ phase[m] \in {"proved", "closed"}
             /\ \E a \in AgentConns :
                  /\ pending[m] = a /\ Head(up[a]).app = m
                  /\ phase[m] = "proved" => agentOf[m] = a]_vars
  BY VouchStep
<1> QED BY <1>1, VouchersInvariant, PTL DEF Spec, VouchedByChallenger

-----------------------------------------------------------------------------
(* Order in a queue.                                                       *)

\* A frame of S is on the queue q.
Has(q, S) == \E i \in DOMAIN q : q[i] \in S

\* Nothing of S comes before a frame f: f of S is there once, and first.
Foremost(q, f, S) == \A i, j \in DOMAIN q : q[i] = f /\ j < i => q[j] \notin S

\* A frame f comes before every frame of D.
Leads(q, f, D) == \A j \in DOMAIN q : q[j] \in D => \E i \in DOMAIN q : i < j /\ q[i] = f

\* What was written after s, and what is left of a queue whose head is taken.
LEMMA Written ==
  ASSUME NEW T, NEW q \in Seq(T), NEW s \in Seq(T)
  PROVE  /\ \A i \in DOMAIN q : i \in DOMAIN (q \o s) /\ (q \o s)[i] = q[i]
         /\ \A i \in DOMAIN s : Len(q) + i \in DOMAIN (q \o s) /\ (q \o s)[Len(q) + i] = s[i]
         /\ \A i \in DOMAIN (q \o s) :
              \/ i \in DOMAIN q
              \/ i - Len(q) \in DOMAIN s /\ i = Len(q) + (i - Len(q)) /\ i > Len(q)
         /\ \A i \in DOMAIN q : i \in Nat /\ i <= Len(q)
         /\ \A i \in DOMAIN s : i \in Nat /\ i > 0
         /\ Len(q) \in Nat
OBVIOUS

\* Two frames written together are written one after the other.
LEMMA WrittenTwice ==
  ASSUME NEW T, NEW r \in Seq(T), NEW f \in T, NEW g \in T
  PROVE  r \o <<f, g>> = (r \o <<f>>) \o <<g>>
<1> DEFINE a == r \o <<f, g>>
           q == r \o <<f>>
           b == q \o <<g>>
<1>0. <<f, g>> \in Seq(T) /\ <<f>> \in Seq(T) /\ <<g>> \in Seq(T)
  OBVIOUS
<1>1. q \in Seq(T) /\ a \in Seq(T) /\ Len(q) = Len(r) + 1 /\ Len(a) = Len(r) + 2
  BY <1>0
<1>2. b \in Seq(T) /\ Len(b) = Len(r) + 2
  BY <1>0, <1>1
<1>3. \A i \in 1 .. Len(a) : a[i] = b[i]
  <2>1. \A i \in 1 .. Len(r) : a[i] = r[i] /\ q[i] = r[i]
    BY <1>0
  <2>2. a[Len(r) + 1] = f /\ a[Len(r) + 2] = g /\ q[Len(r) + 1] = f
    BY <1>0
  <2> HIDE DEF q
  <2>3. \A i \in 1 .. Len(q) : b[i] = q[i]
    BY <1>0, <1>1
  <2>4. b[Len(r) + 2] = g
    BY <1>0, <1>1
  <2> HIDE DEF a, b
  <2> QED BY <1>1, <1>2, <2>1, <2>2, <2>3, <2>4
<1> HIDE DEF a, b, q
<1>4. a = b
  BY <1>1, <1>2, <1>3, SeqEqual
<1> QED BY <1>4 DEF a, b, q

LEMMA HasWritten ==
  ASSUME NEW T, NEW q \in Seq(T), NEW s \in Seq(T), NEW S
  PROVE  Has(q \o s, S) <=> Has(q, S) \/ Has(s, S)
<1>1. Has(q, S) => Has(q \o s, S)
  BY Written DEF Has
<1>2. ASSUME Has(s, S) PROVE Has(q \o s, S)
  <2>1. PICK i \in DOMAIN s : s[i] \in S
    BY <1>2 DEF Has
  <2>2. Len(q) + i \in DOMAIN (q \o s) /\ (q \o s)[Len(q) + i] \in S
    BY <2>1, Written
  <2> QED BY <2>2 DEF Has
<1>3. ASSUME Has(q \o s, S), ~Has(q, S) PROVE Has(s, S)
  <2>1. PICK i \in DOMAIN (q \o s) : (q \o s)[i] \in S
    BY <1>3 DEF Has
  <2>2. i \notin DOMAIN q
    BY <1>3, <2>1, Written DEF Has
  <2> DEFINE k == i - Len(q)
  <2>3. k \in DOMAIN s /\ i = Len(q) + k
    BY <2>2, Written
  <2> HIDE DEF k
  <2>4. s[k] \in S
    BY <2>1, <2>3, Written
  <2> QED BY <2>3, <2>4 DEF Has
<1> QED BY <1>1, <1>2, <1>3

LEMMA HasOne ==
  ASSUME NEW f, NEW S
  PROVE  Has(<<f>>, S) <=> f \in S
BY DEF Has

LEMMA HasNothing ==
  ASSUME NEW S, NEW T, NEW s \in Seq(T), S \cap T = {}
  PROVE  ~Has(s, S)
BY DEF Has

LEMMA ForemostWritten ==
  ASSUME NEW T, NEW q \in Seq(T), NEW s \in Seq(T), NEW f, NEW S, Foremost(q, f, S),
         \/ ~Has(s, {f})
         \/ Foremost(s, f, S) /\ ~Has(q, S)
  PROVE  Foremost(q \o s, f, S)
<1> SUFFICES ASSUME NEW i \in DOMAIN (q \o s), NEW j \in DOMAIN (q \o s),
                    (q \o s)[i] = f, j < i
             PROVE  (q \o s)[j] \notin S
  BY DEF Foremost
<1>1. CASE i \in DOMAIN q
  <2>1. j \in DOMAIN q
    <3>1. i <= Len(q) /\ i \in Nat /\ Len(q) \in Nat
      BY <1>1, Written
    <3>2. j \in DOMAIN q \/ (j > Len(q) /\ j \in Nat)
      BY Written
    <3> QED BY <3>1, <3>2
  <2> QED BY <1>1, <2>1, Written DEF Foremost
<1>2. CASE i \notin DOMAIN q
  <2> DEFINE k == i - Len(q)
  <2>1. k \in DOMAIN s /\ i = Len(q) + k
    BY <1>2, Written
  <2>2. s[k] = f
    BY <2>1, Written
  <2>3. Foremost(s, f, S) /\ ~Has(q, S)
    BY <2>1, <2>2 DEF Has
  <2>4. CASE j \in DOMAIN q
    BY <2>3, <2>4, Written DEF Has
  <2>5. CASE j \notin DOMAIN q
    <3> DEFINE l == j - Len(q)
    <3>1. l \in DOMAIN s /\ j = Len(q) + l /\ l < k
      BY <2>1, <2>5, Written
    <3>2. (q \o s)[j] = s[l]
      BY <3>1, Written
    <3> HIDE DEF k, l
    <3> QED BY <2>1, <2>2, <2>3, <3>1, <3>2 DEF Foremost
  <2> QED BY <2>4, <2>5
<1> QED BY <1>1, <1>2

LEMMA LeadsWritten ==
  ASSUME NEW T, NEW q \in Seq(T), NEW s \in Seq(T), NEW f, NEW D, Leads(q, f, D),
         ~Has(s, D) \/ Has(q, {f})
  PROVE  Leads(q \o s, f, D)
<1> SUFFICES ASSUME NEW j \in DOMAIN (q \o s), (q \o s)[j] \in D
             PROVE  \E i \in DOMAIN (q \o s) : i < j /\ (q \o s)[i] = f
  BY DEF Leads
<1>1. CASE j \in DOMAIN q
  BY <1>1, Written DEF Leads
<1>2. CASE j \notin DOMAIN q
  <2> DEFINE k == j - Len(q)
  <2>1. k \in DOMAIN s /\ j = Len(q) + k /\ j > Len(q)
    BY <1>2, Written
  <2>2. s[k] \in D
    BY <2>1, Written
  <2> HIDE DEF k
  <2>3. Has(q, {f})
    BY <2>1, <2>2 DEF Has
  <2>4. PICK i \in DOMAIN q : q[i] = f
    BY <2>3 DEF Has
  <2>5. i < j
    <3>1. i \in Nat /\ i <= Len(q) /\ Len(q) \in Nat /\ k \in Nat
      BY <2>1, Written
    <3> QED BY <2>1, <3>1
  <2> QED BY <2>4, <2>5, Written
<1> QED BY <1>1, <1>2

LEMMA NoneLeads ==
  ASSUME NEW q, NEW f, NEW D, ~Has(q, D)
  PROVE  Leads(q, f, D)
BY DEF Has, Leads

LEMMA NoneForemost ==
  ASSUME NEW q, NEW f, NEW S, ~Has(q, {f})
  PROVE  Foremost(q, f, S)
BY DEF Has, Foremost

LEMMA Taken ==
  ASSUME NEW T, NEW q \in Seq(T), q # <<>>
  PROVE  /\ 1 \in DOMAIN q /\ Head(q) = q[1]
         /\ \A i \in DOMAIN Tail(q) : i \in Nat /\ i + 1 \in DOMAIN q /\ Tail(q)[i] = q[i + 1]
         /\ \A i \in DOMAIN q : i # 1 =>
              i \in Nat /\ i > 1 /\ i - 1 \in DOMAIN Tail(q) /\ Tail(q)[i - 1] = q[i]
OBVIOUS

LEMMA HasTaken ==
  ASSUME NEW T, NEW q \in Seq(T), q # <<>>, NEW S
  PROVE  /\ Head(q) \in S => Has(q, S)
         /\ Has(Tail(q), S) => Has(q, S)
         /\ Has(q, S) /\ Head(q) \notin S => Has(Tail(q), S)
<1>1. Head(q) \in S => Has(q, S)
  BY Taken DEF Has
<1>2. Has(Tail(q), S) => Has(q, S)
  BY Taken DEF Has
<1>3. ASSUME Has(q, S), Head(q) \notin S PROVE Has(Tail(q), S)
  <2>1. PICK i \in DOMAIN q : q[i] \in S
    BY <1>3 DEF Has
  <2>2. i # 1
    BY <1>3, <2>1, Taken
  <2>3. i - 1 \in DOMAIN Tail(q) /\ Tail(q)[i - 1] = q[i]
    BY <2>2, Taken
  <2> QED BY <2>1, <2>3 DEF Has
<1> QED BY <1>1, <1>2, <1>3

LEMMA ForemostTaken ==
  ASSUME NEW T, NEW q \in Seq(T), q # <<>>, NEW f, NEW S, Foremost(q, f, S)
  PROVE  /\ Foremost(Tail(q), f, S)
         /\ Head(q) \in S => ~Has(Tail(q), {f})
<1>1. Foremost(Tail(q), f, S)
  <2> SUFFICES ASSUME NEW i \in DOMAIN Tail(q), NEW j \in DOMAIN Tail(q),
                      Tail(q)[i] = f, j < i
               PROVE  Tail(q)[j] \notin S
    BY DEF Foremost
  <2>1. /\ i + 1 \in DOMAIN q /\ j + 1 \in DOMAIN q /\ j + 1 < i + 1
        /\ q[i + 1] = f /\ Tail(q)[j] = q[j + 1]
    BY Taken
  <2> QED BY <2>1 DEF Foremost
<1>2. ASSUME Head(q) \in S, Has(Tail(q), {f}) PROVE FALSE
  <2>1. PICK i \in DOMAIN Tail(q) : Tail(q)[i] = f
    BY <1>2 DEF Has
  <2>2. i + 1 \in DOMAIN q /\ 1 \in DOMAIN q /\ 1 < i + 1 /\ q[i + 1] = f /\ q[1] \in S
    <3>1. i \in Nat /\ i > 0
      OBVIOUS
    <3> QED BY <1>2, <2>1, <3>1, Taken
  <2> QED BY <2>2 DEF Foremost
<1> QED BY <1>1, <1>2

LEMMA LeadsTaken ==
  ASSUME NEW T, NEW q \in Seq(T), q # <<>>, NEW f, NEW D, Leads(q, f, D)
  PROVE  /\ Head(q) \notin D
         /\ Head(q) # f => Leads(Tail(q), f, D)
<1>1. ASSUME Head(q) \in D PROVE FALSE
  <2>1. PICK i \in DOMAIN q : i < 1
    BY <1>1, Taken DEF Leads
  <2> QED BY <2>1
<1>2. ASSUME Head(q) # f PROVE Leads(Tail(q), f, D)
  <2> SUFFICES ASSUME NEW j \in DOMAIN Tail(q), Tail(q)[j] \in D
               PROVE  \E i \in DOMAIN Tail(q) : i < j /\ Tail(q)[i] = f
    BY DEF Leads
  <2>1. j \in Nat /\ j + 1 \in DOMAIN q /\ q[j + 1] \in D
    BY Taken
  <2>2. PICK i \in DOMAIN q : i < j + 1 /\ q[i] = f
    BY <2>1 DEF Leads
  <2>3. i # 1
    BY <1>2, <2>2, Taken
  <2>4. i \in Nat /\ i - 1 \in DOMAIN Tail(q) /\ Tail(q)[i - 1] = f
    BY <2>2, <2>3, Taken
  <2>5. i - 1 < j
    BY <2>1, <2>2, <2>4
  <2> QED BY <2>4, <2>5
<1> QED BY <1>1, <1>2

-----------------------------------------------------------------------------
(* What an App and an Agent say to each other under E2E.                   *)

Opening(m, b) == Frame("e2e.handshake.init", m, b, m)
Answer(m, b)  == Frame("e2e.handshake.reply", m, b, m)
ReadyOf(m, b) == Frame("e2e.ready", m, b, m)
FailureOf(m)  == Frame("e2e.failed", m, None, None)
DataOf(m, b)  == {Frame(t, m, b, m) : t \in E2EData}

AppTalk(m, b)   == {Opening(m, b), ReadyOf(m, b)} \cup DataOf(m, b)
AgentTalk(m, b) == {Answer(m, b), ReadyOf(m, b), FailureOf(m)} \cup DataOf(m, b)
Talk(m, b)      == AppTalk(m, b) \cup AgentTalk(m, b)

LEMMA TalkDistinct ==
  ASSUME NEW m, NEW b
  PROVE  /\ Opening(m, b) \notin {Answer(m, b), ReadyOf(m, b), FailureOf(m)} \cup DataOf(m, b)
         /\ Answer(m, b) \notin {ReadyOf(m, b), FailureOf(m)} \cup DataOf(m, b)
         /\ ReadyOf(m, b) \notin {FailureOf(m)} \cup DataOf(m, b)
         /\ FailureOf(m) \notin DataOf(m, b)
BY DEF Opening, Answer, ReadyOf, FailureOf, DataOf, Frame, E2EData

HandshakeStates == {"e2e_handshaking", "e2e_ready"}

\* Neither end has said more on q than its part of the handshake; the Agent has
\* said nothing at all.
Unsaid(q, m, b)    == ~Has(q, {ReadyOf(m, b)}) /\ ~Has(q, DataOf(m, b))
Unreplied(q, m, b) == Unsaid(q, m, b) /\ ~Has(q, {Answer(m, b)}) /\ ~Has(q, {FailureOf(m)})

\* The answer is not yet acted on; the opening is not.
Unanswered(m, b) ==
  /\ Unsaid(up[m], m, b) /\ Unsaid(down[b], m, b) /\ Unsaid(down[m], m, b)
  /\ phase[m] \in {"initiated", "closed"} /\ state[m] # "e2e_ready"

Unasked(m, b) ==
  /\ Unsaid(up[m], m, b) /\ Unsaid(down[b], m, b)
  /\ Unreplied(down[m], m, b) /\ Unreplied(up[b], m, b)
  /\ phase[m] \in {"keying", "initiated", "closed"} /\ state[m] # "e2e_ready"
  /\ e2e[m] = "none"

\* An App opens one handshake, and before that nothing is said.
OneOpening(m, b) ==
  LET I == Opening(m, b)
  IN  /\ Foremost(up[m], I, AppTalk(m, b)) /\ Foremost(down[b], I, AppTalk(m, b))
      /\ Has(up[m], {I}) => ~Has(down[b], {I})
      /\ Has(up[m], {I}) \/ Has(down[b], {I}) => Unasked(m, b) /\ phase[m] # "keying"
      /\ phase[m] = "keying" => Unasked(m, b)

\* The Agent answers it once, and a session it failed is gone.
OneAnswer(m, b) ==
  /\ Foremost(up[b], Answer(m, b), AgentTalk(m, b))
  /\ Has(up[b], {Answer(m, b)}) => Unanswered(m, b) /\ ~Has(down[m], {Answer(m, b)})
  /\ Has(up[b], {FailureOf(m)}) => e2e[m] = "none"

\* The App gets the Agent's e2e.ready before its business.
AppTold(m, b) ==
  phase[m] \notin {"ready", "closed"} =>
    /\ Leads(down[m], ReadyOf(m, b), DataOf(m, b))
    /\ peer[b][m].state = "ready" /\ sock[m] = "open" => Has(down[m], {ReadyOf(m, b)})

\* The relay knows of the handshake while the Agent does, gets the App's
\* e2e.ready before its business, and the Agent's before the App has it.
RelayTold(m, b) ==
  LET Y == ReadyOf(m, b)
  IN  /\ sock[m] = "open" /\ (e2e[m] # "none" \/ Has(down[b], {Opening(m, b)})) =>
           state[m] \in HandshakeStates
      /\ state[m] \in HandshakeStates => hs[m] = m
      /\ state[m] = "e2e_ready" => th[m] = b
      /\ state[m] = "e2e_handshaking" =>
           /\ Leads(up[m], Y, DataOf(m, b))
           /\ phase[m] \in {"session", "ready"} => Has(up[m], {Y})
      /\ peer[b][m].state # "none" => peer[b][m].hs = m
      /\ peer[b][m].state = "ready" => peer[b][m].th = b
      /\ /\ e2e[m] # "none"
         /\ phase[m] = "ready" \/ Has(up[m], DataOf(m, b)) \/ Has(down[m], {Y})
         => peer[b][m].state = "ready"

\* The Agent gets the App's e2e.ready before its business.
AgentTold(m, b) ==
  e2e[m] = "handshaking" =>
    /\ Leads(down[b], ReadyOf(m, b), DataOf(m, b))
    /\ state[m] = "e2e_ready" /\ primary[DeviceOf[m]] = b /\ sock[b] = "open" =>
         Has(down[b], {ReadyOf(m, b)})

Talked(m, b) ==
  OneOpening(m, b) /\ OneAnswer(m, b) /\ AppTold(m, b) /\ RelayTold(m, b) /\ AgentTold(m, b)

-----------------------------------------------------------------------------
(* A step after which less is said than before.                            *)

Shrinks(q, r, m, b) ==
  /\ \A S \in SUBSET Talk(m, b) : Has(r, S) => Has(q, S)
  /\ \A f \in Talk(m, b), S \in SUBSET Talk(m, b) : Foremost(q, f, S) => Foremost(r, f, S)

KeepsReady(q, r, m, b) ==
  /\ Has(q, {ReadyOf(m, b)}) => Has(r, {ReadyOf(m, b)})
  /\ Leads(q, ReadyOf(m, b), DataOf(m, b)) => Leads(r, ReadyOf(m, b), DataOf(m, b))

LEMMA RestShrinks ==
  ASSUME NEW q, NEW m, NEW b
  PROVE  Shrinks(q, q, m, b) /\ KeepsReady(q, q, m, b)
BY DEF Shrinks, KeepsReady

LEMMA TakenShrinks ==
  ASSUME NEW T, NEW q \in Seq(T), q # <<>>, NEW m, NEW b
  PROVE  /\ Shrinks(q, Tail(q), m, b)
         /\ Head(q) # ReadyOf(m, b) => KeepsReady(q, Tail(q), m, b)
<1>1. Shrinks(q, Tail(q), m, b)
  BY HasTaken, ForemostTaken DEF Shrinks
<1>2. Head(q) # ReadyOf(m, b) => KeepsReady(q, Tail(q), m, b)
  BY HasTaken, LeadsTaken DEF KeepsReady
<1> QED BY <1>1, <1>2

LEMMA WrittenShrinks ==
  ASSUME NEW T, NEW q \in Seq(T), NEW s \in Seq(T), NEW m, NEW b, ~Has(s, Talk(m, b))
  PROVE  Shrinks(q, q \o s, m, b) /\ KeepsReady(q, q \o s, m, b)
<1>1. \A S \in SUBSET Talk(m, b) : ~Has(s, S)
  BY DEF Has
<1>2. DataOf(m, b) \in SUBSET Talk(m, b) /\ \A f \in Talk(m, b) : {f} \in SUBSET Talk(m, b)
  BY DEF Talk, AppTalk
<1>3. \A S \in SUBSET Talk(m, b) : Has(q \o s, S) <=> Has(q, S)
  BY <1>1, HasWritten
<1>4. \A f \in Talk(m, b) : \A S : Foremost(q, f, S) => Foremost(q \o s, f, S)
  BY <1>1, <1>2, ForemostWritten
<1>5. ReadyOf(m, b) \in Talk(m, b)
  BY DEF Talk, AppTalk
<1>6. Shrinks(q, q \o s, m, b)
  BY <1>3, <1>4 DEF Shrinks
<1>7. KeepsReady(q, q \o s, m, b)
  BY <1>1, <1>2, <1>3, <1>5, LeadsWritten DEF KeepsReady
<1> QED BY <1>6, <1>7

LEMMA TalkSets ==
  ASSUME NEW m, NEW b
  PROVE  /\ AppTalk(m, b) \in SUBSET Talk(m, b) /\ AgentTalk(m, b) \in SUBSET Talk(m, b)
         /\ DataOf(m, b) \in SUBSET Talk(m, b)
         /\ Opening(m, b) \in Talk(m, b) /\ Answer(m, b) \in Talk(m, b)
         /\ ReadyOf(m, b) \in Talk(m, b) /\ FailureOf(m) \in Talk(m, b)
         /\ {Opening(m, b)} \in SUBSET Talk(m, b) /\ {Answer(m, b)} \in SUBSET Talk(m, b)
         /\ {ReadyOf(m, b)} \in SUBSET Talk(m, b) /\ {FailureOf(m)} \in SUBSET Talk(m, b)
BY DEF Talk, AppTalk, AgentTalk

LEMMA ShrinksSaid ==
  ASSUME NEW q, NEW r, NEW m, NEW b, Shrinks(q, r, m, b)
  PROVE  /\ Unsaid(q, m, b) => Unsaid(r, m, b)
         /\ Unreplied(q, m, b) => Unreplied(r, m, b)
         /\ Has(r, {Opening(m, b)}) => Has(q, {Opening(m, b)})
         /\ Has(r, {Answer(m, b)}) => Has(q, {Answer(m, b)})
         /\ Has(r, {ReadyOf(m, b)}) => Has(q, {ReadyOf(m, b)})
         /\ Has(r, {FailureOf(m)}) => Has(q, {FailureOf(m)})
         /\ Has(r, DataOf(m, b)) => Has(q, DataOf(m, b))
         /\ Foremost(q, Opening(m, b), AppTalk(m, b)) => Foremost(r, Opening(m, b), AppTalk(m, b))
         /\ Foremost(q, Answer(m, b), AgentTalk(m, b)) => Foremost(r, Answer(m, b), AgentTalk(m, b))
BY TalkSets DEF Shrinks, Unsaid, Unreplied

\* Frames are taken or dropped, the App or the Agent ends its part, the relay
\* forgets a connection, the Agent becomes ready.
LEMMA TalkShrinks ==
  ASSUME NEW m \in AppConns, NEW b \in AgentConns, Talked(m, b),
         Shrinks(up[m], up'[m], m, b), Shrinks(down[m], down'[m], m, b),
         Shrinks(up[b], up'[b], m, b), Shrinks(down[b], down'[b], m, b),
         KeepsReady(up[m], up'[m], m, b) \/ state'[m] # "e2e_handshaking",
         KeepsReady(down[m], down'[m], m, b) \/ phase'[m] \in {"ready", "closed"},
         KeepsReady(down[b], down'[b], m, b) \/ e2e'[m] # "handshaking",
         phase'[m] \in {phase[m], "closed"},
         e2e'[m] \in {e2e[m], "none"} \/ (e2e[m] # "none" /\ e2e'[m] = "ready"),
         sock'[m] = sock[m] \/ sock'[m] # "open",
         state'[m] = state[m] \/ (state'[m] \notin HandshakeStates /\ sock'[m] # "open"),
         hs'[m] = hs[m], th'[m] = th[m], peer'[b][m] = peer[b][m],
         e2e'[m] = "handshaking" /\ primary'[DeviceOf[m]] = b /\ sock'[b] = "open" =>
           primary[DeviceOf[m]] = b /\ sock[b] = "open"
  PROVE  Talked(m, b)'
<1>1. /\ Unanswered(m, b) => Unanswered(m, b)'
      /\ Unasked(m, b) => Unasked(m, b)'
  BY ShrinksSaid DEF Unanswered, Unasked, HandshakeStates
<1>2. OneOpening(m, b)'
  BY <1>1, ShrinksSaid DEF Talked, OneOpening
<1>3. OneAnswer(m, b)'
  BY <1>1, ShrinksSaid DEF Talked, OneAnswer
<1>4. AppTold(m, b)'
  BY DEF Talked, AppTold, KeepsReady
<1>5. RelayTold(m, b)'
  BY ShrinksSaid DEF Talked, RelayTold, KeepsReady, HandshakeStates
<1>6. AgentTold(m, b)'
  BY DEF Talked, AgentTold, KeepsReady, HandshakeStates
<1> QED BY <1>2, <1>3, <1>4, <1>5, <1>6 DEF Talked

-----------------------------------------------------------------------------
(* A step in which something more is said.                                 *)

\* r is q with the frame f at its end, and r is q without its first frame f, as
\* far as the invariant looks.
Gains(q, r, f, m, b) ==
  LET D == DataOf(m, b)
      Y == ReadyOf(m, b)
  IN  /\ \A g \in {Opening(m, b), Answer(m, b), Y, FailureOf(m)} :
           Has(r, {g}) <=> Has(q, {g}) \/ f = g
      /\ Has(r, D) <=> Has(q, D) \/ f \in D
      /\ Foremost(q, Opening(m, b), AppTalk(m, b)) /\
           (f # Opening(m, b) \/ (~Has(q, {Opening(m, b)}) /\ Unsaid(q, m, b)))
         => Foremost(r, Opening(m, b), AppTalk(m, b))
      /\ Foremost(q, Answer(m, b), AgentTalk(m, b)) /\
           (f # Answer(m, b) \/ Unreplied(q, m, b))
         => Foremost(r, Answer(m, b), AgentTalk(m, b))
      /\ Leads(q, Y, D) /\ (f \notin D \/ Has(q, {Y})) => Leads(r, Y, D)

Loses(q, r, f, m, b) ==
  LET D == DataOf(m, b)
      Y == ReadyOf(m, b)
  IN  /\ \A g \in {Opening(m, b), Answer(m, b), Y, FailureOf(m)} :
           /\ Has(r, {g}) => Has(q, {g})
           /\ f = g => Has(q, {g})
           /\ Has(q, {g}) /\ f # g => Has(r, {g})
      /\ Has(r, D) => Has(q, D)
      /\ f \in D => Has(q, D)
      /\ Foremost(q, Opening(m, b), AppTalk(m, b)) =>
           /\ Foremost(r, Opening(m, b), AppTalk(m, b))
           /\ f \in AppTalk(m, b) => ~Has(r, {Opening(m, b)})
      /\ Foremost(q, Answer(m, b), AgentTalk(m, b)) =>
           /\ Foremost(r, Answer(m, b), AgentTalk(m, b))
           /\ f \in AgentTalk(m, b) => ~Has(r, {Answer(m, b)})
      /\ Leads(q, Y, D) => f \notin D /\ (f # Y => Leads(r, Y, D))

LEMMA HasUnion ==
  ASSUME NEW q, NEW m, NEW b
  PROVE  /\ ~Has(q, {Opening(m, b)}) /\ Unsaid(q, m, b) => ~Has(q, AppTalk(m, b))
         /\ Unreplied(q, m, b) => ~Has(q, AgentTalk(m, b))
BY DEF Has, Unsaid, Unreplied, AppTalk, AgentTalk

LEMMA OneGained ==
  ASSUME NEW T, NEW q \in Seq(T), NEW f \in T, NEW m, NEW b
  PROVE  Gains(q, q \o <<f>>, f, m, b)
<1> DEFINE s == <<f>>
<1>1. s \in Seq(T)
  OBVIOUS
<1>2. \A S : Has(s, S) <=> f \in S
  BY HasOne
<1>3. \A g, S : Foremost(s, g, S)
  BY DEF Foremost
<1> HIDE DEF s
<1>4. \A S : Has(q \o s, S) <=> Has(q, S) \/ f \in S
  BY <1>1, <1>2, HasWritten
<1>5. \A g, S : Foremost(q, g, S) /\ (f # g \/ ~Has(q, S)) => Foremost(q \o s, g, S)
  <2> SUFFICES ASSUME NEW g, NEW S, Foremost(q, g, S), f # g \/ ~Has(q, S)
               PROVE  Foremost(q \o s, g, S)
    OBVIOUS
  <2> QED BY <1>1, <1>2, <1>3, ForemostWritten
<1>6. \A g, S : Leads(q, g, S) /\ (f \notin S \/ Has(q, {g})) => Leads(q \o s, g, S)
  BY <1>1, <1>2, LeadsWritten
<1>7. Gains(q, q \o s, f, m, b)
  BY <1>4, <1>5, <1>6, HasUnion DEF Gains
<1> QED BY <1>7 DEF s

LEMMA OneLost ==
  ASSUME NEW T, NEW q \in Seq(T), q # <<>>, NEW m, NEW b
  PROVE  Loses(q, Tail(q), Head(q), m, b)
<1>1. \A S : /\ Head(q) \in S => Has(q, S)
             /\ Has(Tail(q), S) => Has(q, S)
             /\ Has(q, S) /\ Head(q) \notin S => Has(Tail(q), S)
  BY HasTaken
<1>2. \A f, S : Foremost(q, f, S) =>
        /\ Foremost(Tail(q), f, S)
        /\ Head(q) \in S => ~Has(Tail(q), {f})
  BY ForemostTaken
<1>3. \A f, D : Leads(q, f, D) => Head(q) \notin D /\ (Head(q) # f => Leads(Tail(q), f, D))
  BY LeadsTaken
<1> QED BY <1>1, <1>2, <1>3 DEF Loses

\* What the steps below leave alone.
RelayStays(m, b) ==
  /\ sock'[m] = sock[m] /\ sock'[b] = sock[b]
  /\ primary'[DeviceOf[m]] = primary[DeviceOf[m]]

RelayKept(m, b) ==
  /\ RelayStays(m, b)
  /\ state'[m] = state[m] /\ hs'[m] = hs[m] /\ th'[m] = th[m] /\ peer'[b][m] = peer[b][m]

\* The App opens the handshake.
LEMMA AppOpens ==
  ASSUME NEW m \in AppConns, NEW b \in AgentConns, Talked(m, b), RelayKept(m, b),
         phase[m] = "keying", phase'[m] = "initiated", e2e'[m] = e2e[m],
         Gains(up[m], up'[m], Opening(m, b), m, b),
         down'[m] = down[m], up'[b] = up[b], down'[b] = down[b]
  PROVE  Talked(m, b)'
<1> USE DEF RelayKept, RelayStays
<1>1. Unasked(m, b) /\ ~Has(up[m], {Opening(m, b)}) /\ ~Has(down[b], {Opening(m, b)})
  BY DEF Talked, OneOpening
<1>2. /\ ~Has(up'[m], {ReadyOf(m, b)}) /\ ~Has(up'[m], DataOf(m, b))
      /\ Foremost(up'[m], Opening(m, b), AppTalk(m, b))
  <2>1. /\ Opening(m, b) # ReadyOf(m, b) /\ Opening(m, b) \notin DataOf(m, b)
        /\ Foremost(up[m], Opening(m, b), AppTalk(m, b)) /\ Unsaid(up[m], m, b)
    BY <1>1, TalkDistinct DEF Unasked, Talked, OneOpening
  <2> QED BY <1>1, <2>1 DEF Unsaid, Gains
<1>9. Leads(up'[m], ReadyOf(m, b), DataOf(m, b)) /\ Unsaid(up'[m], m, b)
  BY <1>2, NoneLeads DEF Unsaid
<1>3. Unasked(m, b)'
  BY <1>1, <1>9 DEF Unasked
<1>4. OneOpening(m, b)'
  BY <1>1, <1>2, <1>3 DEF Talked, OneOpening
<1>5. OneAnswer(m, b)'
  BY <1>1, <1>3 DEF Talked, OneAnswer, Unasked, Unreplied
<1>6. AppTold(m, b)'
  BY <1>1 DEF Talked, AppTold
<1>7. RelayTold(m, b)'
  BY <1>1, <1>2, <1>9 DEF Talked, RelayTold, HandshakeStates
<1>8. AgentTold(m, b)'
  BY DEF Talked, AgentTold
<1> QED BY <1>4, <1>5, <1>6, <1>7, <1>8 DEF Talked

\* The relay passes it on to the Agent, if that is still there.
LEMMA OpeningPassed ==
  ASSUME NEW m \in AppConns, NEW b \in AgentConns, Talked(m, b), RelayStays(m, b),
         phase'[m] = phase[m], e2e'[m] = e2e[m], peer'[b][m] = peer[b][m],
         state'[m] = "e2e_handshaking", hs'[m] = m,
         Loses(up[m], up'[m], Opening(m, b), m, b),
         down'[b] = down[b] \/ Gains(down[b], down'[b], Opening(m, b), m, b),
         down'[m] = down[m], up'[b] = up[b]
  PROVE  Talked(m, b)'
<1> USE DEF RelayStays
<1> DEFINE I == Opening(m, b)
<1>1. Has(up[m], {I}) /\ Unasked(m, b) /\ ~Has(down[b], {I}) /\ phase[m] # "keying"
  BY DEF Talked, OneOpening, Loses
<1>2. ~Has(up'[m], {I}) /\ Foremost(up'[m], I, AppTalk(m, b))
  BY DEF Talked, OneOpening, Loses, AppTalk
<1>3. Unsaid(up'[m], m, b)
  BY <1>1 DEF Unasked, Unsaid, Loses
<1>4. Unsaid(down'[b], m, b) /\ Foremost(down'[b], I, AppTalk(m, b))
  <2>1. I # ReadyOf(m, b) /\ I \notin DataOf(m, b)
    BY TalkDistinct
  <2> QED BY <1>1, <2>1 DEF Unasked, Unsaid, Gains, Talked, OneOpening
<1>5. Unasked(m, b)'
  BY <1>1, <1>3, <1>4 DEF Unasked
<1> HIDE DEF I
<1>6. OneOpening(m, b)'
  BY <1>1, <1>2, <1>4, <1>5 DEF OneOpening, I
<1>7. OneAnswer(m, b)'
  BY <1>1, <1>5 DEF Talked, OneAnswer, Unasked, Unreplied
<1>8. AppTold(m, b)'
  BY DEF Talked, AppTold
<1>9. RelayTold(m, b)'
  <2>1. Leads(up'[m], ReadyOf(m, b), DataOf(m, b))
    BY <1>3, NoneLeads DEF Unsaid
  <2> QED BY <1>1, <2>1 DEF Talked, RelayTold, Unasked, HandshakeStates
<1>10. AgentTold(m, b)'
  BY <1>1 DEF AgentTold, Unasked
<1> QED BY <1>6, <1>7, <1>8, <1>9, <1>10 DEF Talked

\* The Agent answers, and is ready for its part.
LEMMA AgentAnswers ==
  ASSUME NEW m \in AppConns, NEW b \in AgentConns, Talked(m, b), RelayKept(m, b),
         phase'[m] = phase[m], e2e'[m] = "handshaking",
         Loses(down[b], down'[b], Opening(m, b), m, b),
         NEW q, Gains(up[b], q, Answer(m, b), m, b), Gains(q, up'[b], ReadyOf(m, b), m, b),
         up'[m] = up[m], down'[m] = down[m]
  PROVE  Talked(m, b)'
<1> USE DEF RelayKept, RelayStays
<1> DEFINE I == Opening(m, b)
           R == Answer(m, b)
<1>1. Has(down[b], {I}) /\ ~Has(up[m], {I}) /\ Unasked(m, b) /\ phase[m] # "keying"
  BY DEF Talked, OneOpening, Loses
<1>2. ~Has(down'[b], {I}) /\ Foremost(down'[b], I, AppTalk(m, b))
  BY DEF Talked, OneOpening, Loses, AppTalk
<1>3. Unsaid(down'[b], m, b)
  BY <1>1 DEF Unasked, Unsaid, Loses
<1>4. Foremost(up'[b], R, AgentTalk(m, b)) /\ ~Has(up'[b], {FailureOf(m)})
  <2>1. /\ R # ReadyOf(m, b) /\ R # FailureOf(m) /\ ReadyOf(m, b) # FailureOf(m)
        /\ Unreplied(up[b], m, b)
    BY <1>1, TalkDistinct DEF Unasked
  <2>2. Foremost(q, R, AgentTalk(m, b)) /\ ~Has(q, {FailureOf(m)})
    BY <2>1 DEF Talked, OneAnswer, Gains, Unreplied
  <2> QED BY <2>1, <2>2 DEF Gains
<1>5. Unanswered(m, b)' /\ ~Has(down'[m], {R})
  BY <1>1, <1>3 DEF Unanswered, Unasked, Unreplied
<1> HIDE DEF I, R
<1>6. OneOpening(m, b)'
  BY <1>1, <1>2 DEF Talked, OneOpening, I
<1>7. OneAnswer(m, b)'
  BY <1>4, <1>5 DEF OneAnswer, R
<1>8. AppTold(m, b)'
  BY DEF Talked, AppTold
<1>9. RelayTold(m, b)'
  BY <1>1 DEF Talked, RelayTold, Unasked, Unreplied, Unsaid, HandshakeStates, I
<1>10. AgentTold(m, b)'
  BY <1>1, <1>3, NoneLeads DEF AgentTold, Unasked, Unsaid
<1> QED BY <1>6, <1>7, <1>8, <1>9, <1>10 DEF Talked

\* ... or fails to verify it.
LEMMA AgentRefuses ==
  ASSUME NEW m \in AppConns, NEW b \in AgentConns, Talked(m, b), RelayKept(m, b),
         phase'[m] = phase[m], e2e'[m] = "none",
         Loses(down[b], down'[b], Opening(m, b), m, b),
         Gains(up[b], up'[b], FailureOf(m), m, b),
         up'[m] = up[m], down'[m] = down[m]
  PROVE  Talked(m, b)'
<1> USE DEF RelayKept, RelayStays
<1> DEFINE I == Opening(m, b)
           R == Answer(m, b)
<1>1. Has(down[b], {I}) /\ ~Has(up[m], {I}) /\ Unasked(m, b) /\ phase[m] # "keying"
  BY DEF Talked, OneOpening, Loses
<1>2. ~Has(down'[b], {I}) /\ Foremost(down'[b], I, AppTalk(m, b))
  BY DEF Talked, OneOpening, Loses, AppTalk
<1>4. Foremost(up'[b], R, AgentTalk(m, b)) /\ ~Has(up'[b], {R})
  <2>1. R # FailureOf(m) /\ Unreplied(up[b], m, b)
    BY <1>1, TalkDistinct DEF Unasked
  <2> QED BY <2>1 DEF Talked, OneAnswer, Gains, Unreplied
<1> HIDE DEF I, R
<1>6. OneOpening(m, b)'
  BY <1>1, <1>2 DEF Talked, OneOpening, I
<1>7. OneAnswer(m, b)'
  BY <1>4 DEF OneAnswer, R
<1>8. AppTold(m, b)'
  BY DEF Talked, AppTold
<1>9. RelayTold(m, b)'
  BY <1>2 DEF Talked, RelayTold, HandshakeStates, I
<1>10. AgentTold(m, b)'
  BY DEF AgentTold
<1> QED BY <1>6, <1>7, <1>8, <1>9, <1>10 DEF Talked

\* What the Agent said shows that the App's opening was taken long ago.
LEMMA AgentSpoke ==
  ASSUME NEW m \in AppConns, NEW b \in AgentConns, Talked(m, b),
         NEW f \in {Answer(m, b), ReadyOf(m, b), FailureOf(m)} \cup DataOf(m, b),
         Loses(up[b], up'[b], f, m, b)
  PROVE  /\ ~Unasked(m, b) /\ phase[m] # "keying"
         /\ ~Has(up[m], {Opening(m, b)}) /\ ~Has(down[b], {Opening(m, b)})
         /\ Foremost(up'[b], Answer(m, b), AgentTalk(m, b)) /\ ~Has(up'[b], {Answer(m, b)})
         /\ Has(up'[b], {FailureOf(m)}) => e2e[m] = "none"
<1>1. Has(up[b], {Answer(m, b)}) \/ Has(up[b], {ReadyOf(m, b)})
      \/ Has(up[b], {FailureOf(m)}) \/ Has(up[b], DataOf(m, b))
  BY DEF Loses
<1>2. ~Unasked(m, b)
  BY <1>1 DEF Unasked, Unreplied, Unsaid
<1>3. f \in AgentTalk(m, b)
  BY DEF AgentTalk
<1> QED BY <1>2, <1>3 DEF Talked, OneOpening, OneAnswer, Loses

\* The relay passes on the answer.
LEMMA AnswerPassed ==
  ASSUME NEW m \in AppConns, NEW b \in AgentConns, Talked(m, b), RelayStays(m, b),
         phase'[m] = phase[m], e2e'[m] = e2e[m],
         state'[m] = state[m], hs'[m] = hs[m], th'[m] = th[m],
         peer'[b][m].state = "handshaking", peer'[b][m].hs = m,
         Loses(up[b], up'[b], Answer(m, b), m, b),
         down'[m] = down[m] \/ Gains(down[m], down'[m], Answer(m, b), m, b),
         up'[m] = up[m], down'[b] = down[b]
  PROVE  Talked(m, b)'
<1> USE DEF RelayStays
<1> DEFINE R == Answer(m, b)
<1>1. Has(up[b], {R}) /\ Unanswered(m, b)
  BY DEF Talked, OneAnswer, Loses
<1>2. /\ phase[m] # "keying"
      /\ ~Has(up[m], {Opening(m, b)}) /\ ~Has(down[b], {Opening(m, b)})
      /\ Foremost(up'[b], R, AgentTalk(m, b)) /\ ~Has(up'[b], {R})
      /\ Has(up'[b], {FailureOf(m)}) => e2e[m] = "none"
  BY AgentSpoke
<1>3. R # ReadyOf(m, b) /\ R \notin DataOf(m, b)
  BY TalkDistinct
<1>6. OneOpening(m, b)'
  BY <1>2 DEF Talked, OneOpening
<1>7. OneAnswer(m, b)'
  BY <1>2 DEF OneAnswer
<1> HIDE DEF R
<1>8. AppTold(m, b)'
  BY <1>3 DEF Talked, AppTold, Gains, R
<1>9. RelayTold(m, b)'
  BY <1>1, <1>3 DEF Talked, RelayTold, Unanswered, Unsaid, Gains, R
<1>10. AgentTold(m, b)'
  BY DEF Talked, AgentTold
<1> QED BY <1>6, <1>7, <1>8, <1>9, <1>10 DEF Talked

\* ... and the App acts on it.
LEMMA AppAnswered ==
  ASSUME NEW m \in AppConns, NEW b \in AgentConns, Talked(m, b), RelayKept(m, b),
         phase[m] = "initiated", phase'[m] = "session", e2e'[m] = e2e[m],
         Loses(down[m], down'[m], Answer(m, b), m, b),
         Gains(up[m], up'[m], ReadyOf(m, b), m, b),
         up'[b] = up[b], down'[b] = down[b]
  PROVE  Talked(m, b)'
<1> USE DEF RelayKept, RelayStays
<1> DEFINE R == Answer(m, b)
           Y == ReadyOf(m, b)
<1>1. Has(down[m], {R}) /\ ~Has(up[b], {R}) /\ ~Unasked(m, b)
  BY DEF Talked, OneAnswer, Loses, Unasked, Unreplied
<1>2. R # Y /\ Opening(m, b) # Y /\ Y \notin DataOf(m, b)
  BY TalkDistinct
<1> HIDE DEF R, Y
<1>6. OneOpening(m, b)'
  BY <1>1, <1>2 DEF Talked, OneOpening, Gains, Y
<1>7. OneAnswer(m, b)'
  BY <1>1 DEF Talked, OneAnswer, R
<1>8. AppTold(m, b)'
  BY <1>2 DEF Talked, AppTold, Loses, R, Y
<1>9. RelayTold(m, b)'
  BY <1>2 DEF Talked, RelayTold, Loses, Gains, R, Y
<1>10. AgentTold(m, b)'
  BY DEF Talked, AgentTold
<1> QED BY <1>6, <1>7, <1>8, <1>9, <1>10 DEF Talked

\* The relay passes on the Agent's e2e.ready, and takes the pair for ready on
\* the Agent's side.
LEMMA AgentReadyPassed ==
  ASSUME NEW m \in AppConns, NEW b \in AgentConns, Talked(m, b), RelayStays(m, b),
         phase'[m] = phase[m], e2e'[m] = e2e[m],
         state'[m] = state[m], hs'[m] = hs[m], th'[m] = th[m],
         peer[b][m].state # "none",
         peer'[b][m].state = "ready", peer'[b][m].hs = peer[b][m].hs, peer'[b][m].th = b,
         Loses(up[b], up'[b], ReadyOf(m, b), m, b),
         Gains(down[m], down'[m], ReadyOf(m, b), m, b),
         up'[m] = up[m], down'[b] = down[b]
  PROVE  Talked(m, b)'
<1> USE DEF RelayStays
<1> DEFINE Y == ReadyOf(m, b)
<1>2. /\ phase[m] # "keying"
      /\ ~Has(up[m], {Opening(m, b)}) /\ ~Has(down[b], {Opening(m, b)})
      /\ Foremost(up'[b], Answer(m, b), AgentTalk(m, b)) /\ ~Has(up'[b], {Answer(m, b)})
      /\ Has(up'[b], {FailureOf(m)}) => e2e[m] = "none"
  BY AgentSpoke
<1>3. Y \notin DataOf(m, b)
  BY TalkDistinct
<1>6. OneOpening(m, b)'
  BY <1>2 DEF Talked, OneOpening
<1>7. OneAnswer(m, b)'
  BY <1>2 DEF OneAnswer
<1> HIDE DEF Y
<1>8. AppTold(m, b)'
  BY <1>3 DEF Talked, AppTold, Gains, Y
<1>9. RelayTold(m, b)'
  BY DEF Talked, RelayTold
<1>10. AgentTold(m, b)'
  BY DEF Talked, AgentTold
<1> QED BY <1>6, <1>7, <1>8, <1>9, <1>10 DEF Talked

\* What the App said under its session shows that its opening was taken and the
\* answer acted on.
LEMMA AppSpoke ==
  ASSUME NEW m \in AppConns, NEW b \in AgentConns, Talked(m, b),
         NEW f \in {ReadyOf(m, b)} \cup DataOf(m, b), Loses(up[m], up'[m], f, m, b)
  PROVE  /\ ~Unasked(m, b) /\ phase[m] # "keying"
         /\ ~Has(up[m], {Opening(m, b)}) /\ ~Has(down[b], {Opening(m, b)})
         /\ ~Has(up[b], {Answer(m, b)})
         /\ Foremost(up'[m], Opening(m, b), AppTalk(m, b)) /\ ~Has(up'[m], {Opening(m, b)})
<1>1. Has(up[m], {ReadyOf(m, b)}) \/ Has(up[m], DataOf(m, b))
  BY DEF Loses
<1>2. ~Unasked(m, b) /\ ~Unanswered(m, b)
  BY <1>1 DEF Unasked, Unanswered, Unsaid
<1>3. f \in AppTalk(m, b)
  BY DEF AppTalk
<1> QED BY <1>2, <1>3 DEF Talked, OneOpening, OneAnswer, Loses

\* The relay passes on the App's e2e.ready, if the Agent is still there.
LEMMA AppReadyPassed ==
  ASSUME NEW m \in AppConns, NEW b \in AgentConns, Talked(m, b), RelayStays(m, b),
         phase'[m] = phase[m], e2e'[m] = e2e[m], peer'[b][m] = peer[b][m],
         state[m] = "e2e_handshaking", state'[m] = "e2e_ready", hs'[m] = hs[m], th'[m] = b,
         Loses(up[m], up'[m], ReadyOf(m, b), m, b),
         \/ Gains(down[b], down'[b], ReadyOf(m, b), m, b)
         \/ down'[b] = down[b] /\ ~(primary[DeviceOf[m]] = b /\ sock[b] = "open"),
         down'[m] = down[m], up'[b] = up[b]
  PROVE  Talked(m, b)'
<1> USE DEF RelayStays
<1> DEFINE Y == ReadyOf(m, b)
<1>2. /\ ~Unasked(m, b) /\ phase[m] # "keying"
      /\ ~Has(up[m], {Opening(m, b)}) /\ ~Has(down[b], {Opening(m, b)})
      /\ ~Has(up[b], {Answer(m, b)})
      /\ Foremost(up'[m], Opening(m, b), AppTalk(m, b)) /\ ~Has(up'[m], {Opening(m, b)})
  BY AppSpoke
<1>3. Y \notin DataOf(m, b) /\ Opening(m, b) # Y
  BY TalkDistinct
<1> HIDE DEF Y
<1>6. OneOpening(m, b)'
  BY <1>2, <1>3 DEF Talked, OneOpening, Gains, Y
<1>7. OneAnswer(m, b)'
  BY <1>2 DEF Talked, OneAnswer
<1>8. AppTold(m, b)'
  BY DEF Talked, AppTold
<1>9. RelayTold(m, b)'
  BY <1>2, <1>3 DEF Talked, RelayTold, Gains, Loses, HandshakeStates, Y
<1>10. AgentTold(m, b)'
  BY <1>3 DEF Talked, AgentTold, Gains, Y
<1> QED BY <1>6, <1>7, <1>8, <1>9, <1>10 DEF Talked

\* The relay passes on the App's business.
LEMMA AppDataPassed ==
  ASSUME NEW m \in AppConns, NEW b \in AgentConns, Talked(m, b), RelayKept(m, b),
         phase'[m] = phase[m], e2e'[m] = e2e[m], state[m] = "e2e_ready",
         NEW f \in DataOf(m, b), Loses(up[m], up'[m], f, m, b),
         \/ /\ Gains(down[b], down'[b], f, m, b)
            /\ primary[DeviceOf[m]] = b /\ sock[b] = "open"
         \/ down'[b] = down[b],
         down'[m] = down[m], up'[b] = up[b]
  PROVE  Talked(m, b)'
<1> USE DEF RelayStays, RelayKept
<1>2. /\ ~Unasked(m, b) /\ phase[m] # "keying"
      /\ ~Has(up[m], {Opening(m, b)}) /\ ~Has(down[b], {Opening(m, b)})
      /\ ~Has(up[b], {Answer(m, b)})
      /\ Foremost(up'[m], Opening(m, b), AppTalk(m, b)) /\ ~Has(up'[m], {Opening(m, b)})
  BY AppSpoke
<1>3. f # Opening(m, b) /\ f # ReadyOf(m, b)
  BY TalkDistinct
<1>6. OneOpening(m, b)'
  BY <1>2, <1>3 DEF Talked, OneOpening, Gains
<1>7. OneAnswer(m, b)'
  BY <1>2 DEF Talked, OneAnswer
<1>8. AppTold(m, b)'
  BY DEF Talked, AppTold
<1>9. RelayTold(m, b)'
  BY <1>2, <1>3 DEF Talked, RelayTold, Gains, Loses, HandshakeStates
<1>10. AgentTold(m, b)'
  BY <1>3 DEF Talked, AgentTold, Gains
<1> QED BY <1>6, <1>7, <1>8, <1>9, <1>10 DEF Talked

\* The Agent has business for the App.
LEMMA AgentSpeaks ==
  ASSUME NEW m \in AppConns, NEW b \in AgentConns, Talked(m, b), RelayKept(m, b),
         phase'[m] = phase[m], e2e'[m] = e2e[m], e2e[m] = "ready",
         NEW f \in DataOf(m, b), Gains(up[b], up'[b], f, m, b),
         up'[m] = up[m], down'[m] = down[m], down'[b] = down[b]
  PROVE  Talked(m, b)'
<1> USE DEF RelayStays, RelayKept
<1>2. /\ ~Unasked(m, b) /\ phase[m] # "keying"
      /\ ~Has(up[m], {Opening(m, b)}) /\ ~Has(down[b], {Opening(m, b)})
  BY DEF Talked, OneOpening, Unasked
<1>3. f # Answer(m, b) /\ f # FailureOf(m)
  BY TalkDistinct
<1>6. OneOpening(m, b)'
  BY <1>2 DEF Talked, OneOpening
<1>7. OneAnswer(m, b)'
  BY <1>3 DEF Talked, OneAnswer, Gains, Unanswered
<1>8. AppTold(m, b)'
  BY DEF Talked, AppTold
<1>9. RelayTold(m, b)'
  BY DEF Talked, RelayTold
<1>10. AgentTold(m, b)'
  BY DEF Talked, AgentTold
<1> QED BY <1>6, <1>7, <1>8, <1>9, <1>10 DEF Talked

\* The relay passes it on.
LEMMA AgentDataPassed ==
  ASSUME NEW m \in AppConns, NEW b \in AgentConns, Talked(m, b), RelayStays(m, b),
         phase'[m] = phase[m], e2e'[m] = e2e[m],
         state'[m] = state[m], hs'[m] = hs[m], th'[m] = th[m],
         peer[b][m].state = "ready", sock[m] = "open",
         peer'[b][m].state = "ready", peer'[b][m].hs = peer[b][m].hs,
         peer'[b][m].th = peer[b][m].th,
         NEW f \in DataOf(m, b), Loses(up[b], up'[b], f, m, b),
         Gains(down[m], down'[m], f, m, b),
         up'[m] = up[m], down'[b] = down[b]
  PROVE  Talked(m, b)'
<1> USE DEF RelayStays
<1>2. /\ phase[m] # "keying"
      /\ ~Has(up[m], {Opening(m, b)}) /\ ~Has(down[b], {Opening(m, b)})
      /\ Foremost(up'[b], Answer(m, b), AgentTalk(m, b)) /\ ~Has(up'[b], {Answer(m, b)})
      /\ Has(up'[b], {FailureOf(m)}) => e2e[m] = "none"
  BY AgentSpoke
<1>3. f # ReadyOf(m, b)
  BY TalkDistinct
<1>6. OneOpening(m, b)'
  BY <1>2 DEF Talked, OneOpening
<1>7. OneAnswer(m, b)'
  BY <1>2 DEF OneAnswer
<1>8. AppTold(m, b)'
  BY <1>3 DEF Talked, AppTold, Gains
<1>9. RelayTold(m, b)'
  BY DEF Talked, RelayTold
<1>10. AgentTold(m, b)'
  BY DEF Talked, AgentTold
<1> QED BY <1>6, <1>7, <1>8, <1>9, <1>10 DEF Talked

\* The relay passes on that the Agent gave the session up.
LEMMA FailurePassed ==
  ASSUME NEW m \in AppConns, NEW b \in AgentConns, Talked(m, b), RelayStays(m, b),
         phase'[m] = phase[m], e2e'[m] = e2e[m],
         state'[m] = state[m], hs'[m] = hs[m], th'[m] = th[m],
         peer'[b][m].state = "none",
         Loses(up[b], up'[b], FailureOf(m), m, b),
         down'[m] = down[m] \/ Gains(down[m], down'[m], FailureOf(m), m, b),
         up'[m] = up[m], down'[b] = down[b]
  PROVE  Talked(m, b)'
<1> USE DEF RelayStays
<1>1. e2e[m] = "none"
  BY DEF Talked, OneAnswer, Loses
<1>2. /\ phase[m] # "keying"
      /\ ~Has(up[m], {Opening(m, b)}) /\ ~Has(down[b], {Opening(m, b)})
      /\ Foremost(up'[b], Answer(m, b), AgentTalk(m, b)) /\ ~Has(up'[b], {Answer(m, b)})
      /\ Has(up'[b], {FailureOf(m)}) => e2e[m] = "none"
  BY AgentSpoke
<1>3. FailureOf(m) \notin DataOf(m, b)
  BY TalkDistinct
<1>6. OneOpening(m, b)'
  BY <1>2 DEF Talked, OneOpening
<1>7. OneAnswer(m, b)'
  BY <1>2 DEF OneAnswer
<1>8. AppTold(m, b)'
  BY <1>3 DEF Talked, AppTold, Gains
<1>9. RelayTold(m, b)'
  BY <1>1, <1>2 DEF Talked, RelayTold
<1>10. AgentTold(m, b)'
  BY <1>1 DEF AgentTold
<1> QED BY <1>6, <1>7, <1>8, <1>9, <1>10 DEF Talked

\* Business at the end of a queue, and frames of other kinds.
GainsData(q, r, m, b) ==
  /\ \A g \in {Opening(m, b), Answer(m, b), ReadyOf(m, b), FailureOf(m)} :
       Has(r, {g}) <=> Has(q, {g})
  /\ Foremost(q, Opening(m, b), AppTalk(m, b)) => Foremost(r, Opening(m, b), AppTalk(m, b))
  /\ Leads(q, ReadyOf(m, b), DataOf(m, b)) /\ Has(q, {ReadyOf(m, b)}) =>
       Leads(r, ReadyOf(m, b), DataOf(m, b))

LEMMA DataGained ==
  ASSUME NEW T, NEW q \in Seq(T), NEW s \in Seq(T), NEW m, NEW b,
         ~Has(s, {Opening(m, b), Answer(m, b), ReadyOf(m, b), FailureOf(m)})
  PROVE  GainsData(q, q \o s, m, b)
<1>1. \A g \in {Opening(m, b), Answer(m, b), ReadyOf(m, b), FailureOf(m)} : ~Has(s, {g})
  BY DEF Has
<1>2. \A S : Has(q \o s, S) <=> Has(q, S) \/ Has(s, S)
  BY HasWritten
<1>3. \A g, S : Foremost(q, g, S) /\ ~Has(s, {g}) => Foremost(q \o s, g, S)
  BY ForemostWritten
<1>4. \A g, S : Leads(q, g, S) /\ Has(q, {g}) => Leads(q \o s, g, S)
  BY LeadsWritten
<1> QED BY <1>1, <1>2, <1>3, <1>4 DEF GainsData

\* The App has business for the Agent, what waited for the Agent's e2e.ready or
\* the goodbye included.
LEMMA AppSpeaks ==
  ASSUME NEW m \in AppConns, NEW b \in AgentConns, Talked(m, b), RelayKept(m, b),
         \/ phase[m] = "ready"
         \/ phase[m] = "session" /\ Has(down[m], {ReadyOf(m, b)}),
         phase'[m] \in {"ready", "closed"}, e2e'[m] = e2e[m],
         GainsData(up[m], up'[m], m, b), Shrinks(down[m], down'[m], m, b),
         up'[b] = up[b], down'[b] = down[b]
  PROVE  Talked(m, b)'
<1> USE DEF RelayStays, RelayKept
<1>1. /\ ~Unasked(m, b) /\ ~Has(up[b], {Answer(m, b)})
      /\ ~Has(up[m], {Opening(m, b)}) /\ ~Has(down[b], {Opening(m, b)})
  BY DEF Talked, OneOpening, OneAnswer, Unasked, Unanswered
<1>6. OneOpening(m, b)'
  BY <1>1 DEF Talked, OneOpening, GainsData
<1>7. OneAnswer(m, b)'
  BY <1>1 DEF Talked, OneAnswer
<1>8. AppTold(m, b)'
  BY DEF AppTold
<1>9. RelayTold(m, b)'
  BY DEF Talked, RelayTold, GainsData
<1>10. AgentTold(m, b)'
  BY DEF Talked, AgentTold
<1> QED BY <1>6, <1>7, <1>8, <1>9, <1>10 DEF Talked

-----------------------------------------------------------------------------
(* What is on the queues.                                                  *)

Talking ==
  {"e2e.handshake.init", "e2e.handshake.reply", "e2e.ready", "e2e.failed"} \cup E2EData

About(f, m) == f.type \in Talking /\ f.app = m

OthersThan(m) == {f \in Messages : ~About(f, m)}

\* Of what concerns App m's E2E session only S is on q.
Only(q, m, S) == \A i \in DOMAIN q : About(q[i], m) => q[i] \in S

\* q and then frames of S.
Adds(q, r, S) == \E s \in Seq(S) : r = q \o s

\* A frame was taken, or others were written.
Quietly(q, r, m) ==
  \/ r = q
  \/ q # <<>> /\ r = Tail(q)
  \/ Adds(q, r, OthersThan(m))

LEMMA AddsFew ==
  ASSUME NEW T, NEW q \in Seq(T), NEW S
  PROVE  /\ Adds(q, q, S)
         /\ \A f \in S : Adds(q, Append(q, f), S)
<1>1. Adds(q, q, S)
  <2>1. q = q \o <<>> /\ <<>> \in Seq(S)
    OBVIOUS
  <2> QED BY <2>1 DEF Adds
<1>2. ASSUME NEW f \in S PROVE Adds(q, Append(q, f), S)
  <2>1. Append(q, f) = q \o <<f>> /\ <<f>> \in Seq(S)
    OBVIOUS
  <2> QED BY <2>1 DEF Adds
<1> QED BY <1>1, <1>2

LEMMA AddsMore ==
  ASSUME NEW q, NEW r, NEW S, NEW U, S \subseteq U, Adds(q, r, S)
  PROVE  Adds(q, r, U)
<1>1. PICK s \in Seq(S) : r = q \o s
  BY DEF Adds
<1>2. s \in Seq(U)
  OBVIOUS
<1> QED BY <1>1, <1>2 DEF Adds

LEMMA TalkIsAbout ==
  ASSUME NEW m, NEW b
  PROVE  /\ \A f \in Talk(m, b) : About(f, m)
         /\ \A f \in OthersThan(m) : f \notin Talk(m, b)
BY DEF Talk, AppTalk, AgentTalk, About, Talking, OthersThan, Opening, Answer, ReadyOf,
   FailureOf, DataOf, Frame, E2EData

LEMMA QuietShrinks ==
  ASSUME NEW q \in Seq(Messages), NEW r, NEW m, NEW b, Quietly(q, r, m)
  PROVE  /\ Shrinks(q, r, m, b)
         /\ r = q \/ Adds(q, r, OthersThan(m)) => KeepsReady(q, r, m, b)
         /\ q # <<>> /\ Head(q) # ReadyOf(m, b) => KeepsReady(q, r, m, b)
<1>1. CASE r = q
  BY <1>1, RestShrinks
<1>2. ASSUME Adds(q, r, OthersThan(m))
      PROVE  Shrinks(q, r, m, b) /\ KeepsReady(q, r, m, b)
  <2>1. PICK s \in Seq(OthersThan(m)) : r = q \o s
    BY <1>2 DEF Adds
  <2>2. s \in Seq(Messages)
    BY DEF OthersThan
  <2>3. ~Has(s, Talk(m, b))
    BY TalkIsAbout DEF Has
  <2> QED BY <2>1, <2>2, <2>3, WrittenShrinks
<1>3. CASE q # <<>> /\ r = Tail(q) /\ ~Adds(q, r, OthersThan(m)) /\ r # q
  BY <1>3, TakenShrinks
<1> QED BY <1>1, <1>2, <1>3 DEF Quietly

LEMMA OnlyTaken ==
  ASSUME NEW q \in Seq(Messages), q # <<>>, NEW m, NEW S, Only(q, m, S)
  PROVE  /\ Only(Tail(q), m, S)
         /\ About(Head(q), m) => Head(q) \in S
<1>1. /\ 1 \in DOMAIN q /\ Head(q) = q[1]
      /\ \A i \in DOMAIN Tail(q) : i + 1 \in DOMAIN q /\ Tail(q)[i] = q[i + 1]
  BY Taken
<1> QED BY <1>1 DEF Only

LEMMA OnlyWritten ==
  ASSUME NEW q \in Seq(Messages), NEW s \in Seq(Messages), NEW m, NEW S,
         Only(q, m, S), Only(s, m, S)
  PROVE  Only(q \o s, m, S)
BY Written DEF Only

LEMMA OnlyQuiet ==
  ASSUME NEW q \in Seq(Messages), NEW r, NEW m, NEW S, Quietly(q, r, m), Only(q, m, S)
  PROVE  Only(r, m, S)
<1>1. CASE Adds(q, r, OthersThan(m))
  <2>1. PICK s \in Seq(OthersThan(m)) : r = q \o s
    BY <1>1 DEF Adds
  <2>2. s \in Seq(Messages) /\ Only(s, m, S)
    BY DEF OthersThan, Only
  <2> QED BY <2>1, <2>2, OnlyWritten
<1> QED BY <1>1, OnlyTaken DEF Quietly

-----------------------------------------------------------------------------
(* The whole invariant.                                                    *)

\* An App writes of its own session, and is written to of its own.
OwnTalk ==
  \A m \in AppConns :
    /\ \A i \in DOMAIN up[m] :
         up[m][i].type \in Talking => up[m][i].app = m /\ up[m][i].type # "e2e.failed"
    /\ \A i \in DOMAIN down[m] : down[m][i].type \in Talking => down[m][i].app = m

\* An agent told that it is registered is past its registration for good.
Admitted(a) == authState[a] \in {"verified", "failed"}

Admissions ==
  /\ \A a \in AgentConns : \A i \in DOMAIN down[a] :
       down[a][i].type = "auth.ok" => Admitted(a)
  /\ \A d \in Devices : agentId[d] # None => Admitted(agentId[d])
  /\ \A m \in AppConns : authed[m] => role[m] = "mobile" /\ pending[m] = None
  /\ \A m \in AppConns : \A i \in DOMAIN down[m] :
       down[m][i].type = "auth.ok" =>
         down[m][i].agent \in AgentConns /\ DeviceOf[down[m][i].agent] = DeviceOf[m]

\* An App that has not been told auth.ok has no session with anybody.
Unpaired(m) ==
  /\ \A c \in Conns : Only(up[c], m, {}) /\ Only(down[c], m, {})
  /\ phase[m] \notin Late
  /\ e2e[m] = "none"
  /\ state[m] \notin HandshakeStates
  /\ \A x \in AgentConns : peer[x][m].state = "none"

\* One that has talks to the agent connection that vouched for it, and that one
\* alone; the relay may route its frames to a later one.
Said(m, b, c) == IF c = m THEN AppTalk(m, b) ELSE IF c = b THEN AgentTalk(m, b) ELSE {}
Heard(m, b, c) ==
  IF c = m THEN AgentTalk(m, b) ELSE IF c \in AgentConns THEN AppTalk(m, b) ELSE {}

Talks(m, b) ==
  \A c \in Conns : Only(up[c], m, Said(m, b, c)) /\ Only(down[c], m, Heard(m, b, c))

Parties(m, b) ==
  /\ DeviceOf[b] = DeviceOf[m]
  /\ authed[m]
  /\ phase[m] \in Late \cup {"closed"}
  /\ phase[m] \in Late => agentOf[m] = b
  /\ e2e[m] # "none" => cur[DeviceOf[m]] = b

Paired(m, b) == Talks(m, b) /\ Parties(m, b) /\ Talked(m, b)

EveryPair == \A m \in AppConns : Unpaired(m) \/ \E b \in AgentConns : Paired(m, b)

BInv == VInv /\ Admissions /\ OwnTalk /\ EveryPair

-----------------------------------------------------------------------------
(* The relay's frames.                                                     *)

\* What the relay may write to connection x on a frame msg from c: of E2E sessions
\* only msg itself, an Agent's to the App it is about and an App's to an Agent;
\* to an agent auth.ok once it is registered, to an App that of its own agent.
Passed(c, msg, x) ==
  {f \in Messages :
     /\ f.type \in Talking =>
          /\ f = msg
          /\ IF x \in AppConns THEN c \in AgentConns /\ msg.app = x ELSE c \in AppConns
     /\ x \in AgentConns /\ f.type = "auth.ok" => authState'[x] = "verified"
     /\ x \in AppConns /\ f.type = "auth.ok" =>
          f.agent \in AgentConns /\ DeviceOf[f.agent] = DeviceOf[x]}

Passes(c, msg) == \A x \in Conns : Adds(down[x], down'[x], Passed(c, msg, x))

LEMMA PassedPlain ==
  ASSUME NEW e, NEW msg, NEW x
  PROVE  /\ Close \in Passed(e, msg, x)
         /\ Plain("protocol.error") \in Passed(e, msg, x)
         /\ Plain("agent.auth.challenge") \in Passed(e, msg, x)
         /\ \A m \in AppConns \cup {None} : AuthFailed(m) \in Passed(e, msg, x)
BY DEF Passed, Talking, E2EData, Messages, Types, Close, Plain, Frame, AuthFailed

LEMMA RestPasses ==
  ASSUME DownOK, UNCHANGED down, NEW e, NEW msg
  PROVE  Passes(e, msg)
BY AddsFew DEF DownOK, Passes

LEMMA PushPasses ==
  ASSUME DownOK, NEW c \in Conns, NEW e, NEW msg, NEW f \in Passed(e, msg, c), down' = Push(c, f)
  PROVE  Passes(e, msg)
<1> SUFFICES ASSUME NEW x \in Conns PROVE Adds(down[x], down'[x], Passed(e, msg, x))
  BY DEF Passes
<1>1. down[x] \in Seq(Messages)
  BY DEF DownOK
<1>2. down'[x] = down[x] \/ (x = c /\ down'[x] = Append(down[x], f))
  BY DEF Push, DownOK
<1> QED BY <1>1, <1>2, AddsFew

LEMMA PushClosePasses ==
  ASSUME DownOK, NEW S, down' = PushClose(S), NEW e, NEW msg
  PROVE  Passes(e, msg)
<1> SUFFICES ASSUME NEW x \in Conns PROVE Adds(down[x], down'[x], Passed(e, msg, x))
  BY DEF Passes
<1>1. down[x] \in Seq(Messages) /\ Close \in Passed(e, msg, x)
  BY PassedPlain DEF DownOK
<1>2. down'[x] = down[x] \/ down'[x] = Append(down[x], Close)
  BY DEF PushClose
<1> QED BY <1>1, <1>2, AddsFew

LEMMA FailPasses ==
  ASSUME DownOK, NEW c \in Conns, Fail(c), NEW e, NEW msg
  PROVE  Passes(e, msg)
<1>1. AuthFailed(IF c \in AppConns THEN c ELSE None) \in Passed(e, msg, c)
  BY PassedPlain
<1> QED BY <1>1, PushPasses DEF Fail

LEMMA FailAndClosePasses ==
  ASSUME DownOK, NEW c \in Conns, NEW m \in AppConns \cup {None}, NEW e, NEW msg,
         down' = [down EXCEPT ![c] = @ \o <<AuthFailed(m), Close>>]
  PROVE  Passes(e, msg)
<1> DEFINE tail == <<AuthFailed(m), Close>>
<1>1. tail \in Seq(Passed(e, msg, c))
  BY PassedPlain
<1>2. \A x \in Conns : down'[x] = IF x = c THEN down[x] \o tail ELSE down[x]
  BY DEF DownOK
<1> HIDE DEF tail
<1>3. \A x \in Conns : down[x] \in Seq(Messages)
  BY DEF DownOK
<1>4. Adds(down[c], down'[c], Passed(e, msg, c))
  BY <1>1, <1>2 DEF Adds
<1> QED BY <1>2, <1>3, <1>4, AddsFew DEF Passes

\* A frame that is passed on, to the App it is about or to an Agent.
LEMMA PassPasses ==
  ASSUME DownOK, NEW e, NEW x \in Conns, NEW msg \in ClientFrames,
         msg.type \in Talking =>
           IF x \in AppConns THEN e \in AgentConns /\ msg.app = x ELSE e \in AppConns,
         x \in AgentConns => msg.type # "auth.ok",
         x \in AppConns /\ msg.type = "auth.ok" =>
           msg.agent \in AgentConns /\ DeviceOf[msg.agent] = DeviceOf[x],
         down' = Push(x, msg)
  PROVE  Passes(e, msg)
<1>1. msg \in Passed(e, msg, x)
  BY ClientFramesAre DEF Sendable, Passed
<1> QED BY <1>1, PushPasses

LEMMA RoutePasses ==
  ASSUME IInv, DownOK, NEW m \in AppConns, NEW msg \in ClientFrames,
         msg.type # "auth.ok", down' = RouteToAgent(m, msg)
  PROVE  Passes(m, msg)
<1>1. primary[DeviceOf[m]] \in AgentConns \cup {None}
  BY WireAssumption DEF IInv, RelayTypeOK, Conns
<1>2. \A a \in AgentConns : a \in Conns /\ a \notin AppConns
  BY WireAssumption DEF Conns
<1> QED BY <1>1, <1>2, PassPasses, RestPasses DEF RouteToAgent

LEMMA RejectPasses ==
  ASSUME DownOK, NEW c \in Conns, Reject(c), NEW e, NEW msg
  PROVE  Passes(e, msg)
BY PushPasses, PassedPlain DEF Reject

LEMMA HandlePasses ==
  ASSUME IInv, DownOK, NEW c \in Conns, NEW msg \in ClientFrames, Handle(c, msg)
  PROVE  Passes(c, msg)
<1> USE WireAssumption
<1>0. \A m \in AppConns : m \in Conns /\ m \notin AgentConns
  BY DEF Conns
<1>a. ASSUME msg.app \in AppConns, down' = Push(msg.app, msg),
             role[c] = "agent" \/ msg.type \notin Talking,
             msg.type = "auth.ok" =>
               c \in AgentConns /\ msg.agent = c /\ DeviceOf[c] = DeviceOf[msg.app]
      PROVE  Passes(c, msg)
  <2>1. msg.app \in Conns /\ msg.app \notin AgentConns
    BY <1>0, <1>a
  <2>2. msg.type \in Talking => c \in AgentConns
    BY <1>a DEF IInv, Endpoints
  <2> QED BY <1>a, <2>1, <2>2, PassPasses
<1>1. CASE c \in AgentConns /\ AgentAuthInit(c)
  BY <1>1, PushClosePasses, PushPasses, PassedPlain DEF AgentAuthInit, RefuseAgent
<1>2. CASE c \in AgentConns /\ AgentHello(c)
  <2>1. CASE RegisterAgent(c)
    <3> SUFFICES ASSUME NEW x \in Conns PROVE Adds(down[x], down'[x], Passed(c, msg, x))
      BY DEF Passes
    <3> DEFINE ok == Frame("auth.ok", None, c, None)
    <3>1. down' = [e \in Conns |->
                     IF sock[e] # "open" \/ e \notin Superseded(c) \cup {c} THEN down[e]
                     ELSE Append(down[e], IF e = c THEN ok ELSE Close)]
      BY <2>1 DEF RegisterAgent
    <3>2. authState'[c] = "verified"
      BY <2>1 DEF RegisterAgent, IInv, RelayTypeOK
    <3>3. Close \in Passed(c, msg, x) /\ (x = c => ok \in Passed(c, msg, x))
      BY <1>2, <3>2, PassedPlain DEF Passed, Messages, Types, Frame, Talking, E2EData
    <3> HIDE DEF ok
    <3>4. \/ down'[x] = down[x]
          \/ \E f \in Passed(c, msg, x) : down'[x] = Append(down[x], f)
      BY <3>1, <3>3
    <3> QED BY <3>4, AddsFew DEF DownOK
  <2> QED BY <1>2, <2>1, PushClosePasses, RestPasses DEF AgentHello, RefuseAgent
<1>3. CASE c \in AppConns /\ msg.type = "mobile.connect" /\ MobileConnect(c)
  <2>1. CASE RefuseMobile(c)
    BY <2>1, FailPasses DEF RefuseMobile
  <2>2. CASE ChallengeMobile(c)
    <3> DEFINE a == primary[DeviceOf[c]]
    <3>1. CASE a = None
      BY <2>2, <3>1, FailPasses DEF ChallengeMobile
    <3>2. CASE a # None
      <4>1. a \in AgentConns
        BY <3>2 DEF IInv, RelayTypeOK, Conns
      <4>2. Frame("auth.challenge", c, a, c) \in Passed(c, msg, c)
        BY <1>0, <1>3, <4>1 DEF Passed, Messages, Types, Frame, Talking, E2EData
      <4> QED BY <2>2, <3>2, <4>2, PushPasses DEF ChallengeMobile
    <3> QED BY <3>1, <3>2
  <2> QED BY <1>3, <2>1, <2>2 DEF MobileConnect
<1>4. CASE WrongEndpoint(c)
  BY <1>4, PushClosePasses DEF WrongEndpoint
<1>5. CASE msg.type = "auth.proof" /\ AuthProof(c, msg)
  <2>1. CASE BlockProof(c)
    BY <2>1, FailAndClosePasses, RestPasses DEF BlockProof
  <2>2. CASE ForwardProof(c, msg)
    <3> DEFINE a == pending[c]
    <3>1. c \in AppConns /\ a \in AgentConns /\ a \in Conns
      BY <2>2 DEF ForwardProof, ProofMatches, IInv, RelayTypeOK, Conns
    <3>2. Frame("auth.verify", c, a, c) \in Passed(c, msg, a)
      BY <3>1 DEF Passed, Messages, Types, Frame, Talking, E2EData
    <3> QED BY <2>2, <3>1, <3>2, PushPasses, FailPasses DEF ForwardProof
  <2> QED BY <1>5, <2>1, <2>2, FailPasses DEF AuthProof, RefuseProof
<1>6. CASE msg.type \in {"auth.ok", "auth.pending", "auth.failed"} /\ AuthResult(c, msg)
  <2>1. msg.type \notin Talking
    BY <1>6 DEF Talking, E2EData
  <2>2. CASE role[c] = "agent" /\ AuthOk(c, msg.app, msg) /\ ResultFor(c, msg.app)
    <3>1. CASE Fail(msg.app)
      BY <1>0, <2>2, <3>1, FailPasses DEF ResultFor
    <3>2. CASE AcceptApp(c, msg.app, msg) /\ msg.agent = c /\ role[c] = "agent"
      <4>1. c \in AgentConns
        BY <3>2 DEF IInv, Endpoints
      <4> QED BY <1>a, <2>1, <2>2, <3>2, <4>1 DEF AcceptApp, ResultFor
    <3> QED BY <2>2, <3>1, <3>2 DEF AuthOk
  <2>3. CASE AuthResult(c, msg) /\ msg.type # "auth.ok"
    BY <1>6, <1>a, <2>1, <2>3, RestPasses DEF AuthResult, ResultFor, AuthRefused, AuthPending
  <2> QED BY <1>6, <2>2, <2>3, RestPasses DEF AuthResult
<1>7. CASE msg.type = "e2e.handshake.init" /\ HandshakeInit(c, msg)
  <2>1. CASE ~Reject(c)
    <3>1. c \in AppConns
      BY <1>7, <2>1 DEF HandshakeInit, IInv, Endpoints
    <3> QED BY <1>7, <2>1, <3>1, RoutePasses DEF HandshakeInit
  <2> QED BY <2>1, RejectPasses
<1>8. CASE msg.type = "e2e.handshake.reply" /\ HandshakeReply(c, msg)
  BY <1>8, <1>a, RejectPasses DEF HandshakeReply, MobileOf
<1>9. CASE msg.type = "e2e.ready" /\ E2EReady(c, msg)
  <2>1. CASE role[c] = "mobile" /\ MobileReady(c, msg)
    <3>1. c \in AppConns
      BY <2>1 DEF IInv, Endpoints
    <3> QED BY <1>9, <2>1, <3>1, RoutePasses, RejectPasses DEF MobileReady
  <2>2. CASE role[c] = "agent" /\ AgentReady(c, msg)
    BY <1>9, <1>a, <2>2, RejectPasses DEF AgentReady, KnowsHandshake, MobileOf
  <2> QED BY <1>9, <2>1, <2>2, RejectPasses DEF E2EReady
<1>10. CASE msg.type \in E2EData /\ E2EMessage(c, msg)
  <2>0. msg.type # "auth.ok"
    BY <1>10 DEF E2EData
  <2>1. CASE role[c] = "mobile" /\ MobileE2EMessage(c, msg)
    <3>1. c \in AppConns
      BY <2>1 DEF IInv, Endpoints
    <3> QED BY <2>0, <2>1, <3>1, RoutePasses, RejectPasses DEF MobileE2EMessage
  <2>2. CASE role[c] = "agent" /\ AgentE2EMessage(c, msg)
    BY <1>a, <2>0, <2>2, RejectPasses DEF AgentE2EMessage, MobileOf
  <2> QED BY <1>10, <2>1, <2>2, RejectPasses DEF E2EMessage
<1>11. CASE msg.type = "e2e.failed" /\ E2EFailed(c, msg)
  <2>1. CASE role[c] = "mobile" /\ MobileE2EFailed(c, msg)
    <3>1. c \in AppConns
      BY <2>1 DEF IInv, Endpoints
    <3> QED BY <1>11, <2>1, <3>1, RoutePasses DEF MobileE2EFailed
  <2>2. CASE role[c] = "agent" /\ AgentE2EFailed(c, msg)
    BY <1>11, <1>a, <2>2, RestPasses DEF AgentE2EFailed, MobileOf
  <2> QED BY <1>11, <2>1, <2>2, RestPasses DEF E2EFailed
<1> QED BY <1>1, <1>2, <1>3, <1>4, <1>5, <1>6, <1>7, <1>8, <1>9, <1>10, <1>11 DEF Handle

-----------------------------------------------------------------------------
(* What the relay knows of an App's session.                               *)

\* A step of the relay that is not about App m's session: the App's connection
\* ends at most, and an agent becomes the primary by registering only.
RelayQuiet(m) ==
  /\ sock'[m] = sock[m] \/ sock'[m] # "open"
  /\ state'[m] = state[m] \/
       (state'[m] \notin HandshakeStates /\ (sock'[m] # "open" \/ ~authed[m]))
  /\ hs'[m] = hs[m] /\ th'[m] = th[m] /\ \A x \in AgentConns : peer'[x][m] = peer[x][m]
  /\ \A a \in AgentConns :
       primary'[DeviceOf[m]] = a /\ sock'[a] = "open" =>
         (primary[DeviceOf[m]] = a /\ sock[a] = "open") \/ authState[a] = "pending"

\* An agent that is past its registration stays so.
KeepsAdmitted == \A a \in AgentConns : Admitted(a) => authState'[a] \in {"verified", "failed"}

LEMMA RestQuiet ==
  ASSUME UNCHANGED relayVars, NEW m \in AppConns
  PROVE  RelayQuiet(m) /\ KeepsAdmitted
BY DEF relayVars, RelayQuiet, KeepsAdmitted, Admitted

LEMMA UnregisterQuiet ==
  ASSUME IInv, NEW S, NEW after, after # "open", Unregister(S, after), UNCHANGED e2eVars,
         NEW m \in AppConns
  PROVE  RelayQuiet(m)
<1> USE WireAssumption
<1>1. m \in Conns /\ DeviceOf[m] \in Devices /\ \A a \in AgentConns : a \in Conns
  BY DEF Conns
<1>2. /\ \A c \in Conns : sock'[c] = IF c \in S THEN after ELSE sock[c]
      /\ state'[m] = IF m \in S THEN "closed" ELSE state[m]
      /\ primary'[DeviceOf[m]] = IF primary[DeviceOf[m]] \in S THEN NextAgent(DeviceOf[m], S)
                                 ELSE primary[DeviceOf[m]]
  BY <1>1 DEF Unregister
<1>3. primary[DeviceOf[m]] \in S => primary'[DeviceOf[m]] = None
  BY <1>1, <1>2 DEF NextAgent, IInv, AgentIndex
<1>4. /\ hs'[m] = hs[m] /\ th'[m] = th[m]
      /\ \A x \in AgentConns : peer'[x][m] = peer[x][m]
  BY DEF e2eVars
<1>5. None \notin AgentConns
  BY DEF Conns
<1> QED BY <1>1, <1>2, <1>3, <1>4, <1>5 DEF RelayQuiet, HandshakeStates

LEMMA CloseSocketQuiet ==
  ASSUME IInv, NEW c, CloseSocket(c), UNCHANGED e2eVars, NEW m \in AppConns
  PROVE  RelayQuiet(m)
<1>1. CASE UNCHANGED <<sock, state, pending, topoVars>>
  BY <1>1 DEF topoVars, e2eVars, RelayQuiet
<1> QED BY <1>1, UnregisterQuiet DEF CloseSocket

\* Frames that are not about App m's session, and those the relay turns away.
LEMMA HandleQuiet ==
  ASSUME IInv, NEW c \in Conns, NEW msg \in ClientFrames, Handle(c, msg),
         NEW m \in AppConns, ~About(msg, m), c = m => msg.type # "e2e.failed",
         authed[m] => pending[m] = None,
         c = m /\ msg.type = "mobile.connect" => ~authed[m]
  PROVE  RelayQuiet(m)
<1> USE WireAssumption
<1>0. /\ m \in Conns /\ DeviceOf[m] \in Devices
      /\ \A a \in AgentConns : a \in Conns /\ a # m
  BY DEF Conns
<1>a. CASE UNCHANGED <<sock, state, topoVars, e2eVars>>
  BY <1>a DEF topoVars, e2eVars, RelayQuiet
<1>b. CASE Reject(c)
  BY <1>b, RestQuiet DEF Reject
<1>1. CASE c \in AgentConns /\ AgentAuthInit(c)
  BY <1>1, <1>a, CloseSocketQuiet DEF AgentAuthInit, RefuseAgent
<1>2. CASE c \in AgentConns /\ AgentHello(c)
  <2>1. CASE authState[c] = "pending" /\ RegisterAgent(c)
    <3>1. /\ \A e \in Conns : sock'[e] = IF e \in Superseded(c) /\ sock[e] = "open"
                                         THEN "ending" ELSE sock[e]
          /\ state'[m] = IF m \in Superseded(c) THEN "closed" ELSE state[m]
          /\ primary' = [primary EXCEPT ![DeviceOf[c]] = c]
          /\ UNCHANGED e2eVars
      BY <1>0, <1>2, <2>1 DEF RegisterAgent
    <3>2. /\ hs'[m] = hs[m] /\ th'[m] = th[m]
          /\ \A x \in AgentConns : peer'[x][m] = peer[x][m]
      BY <3>1 DEF e2eVars
    <3>3. \A a \in AgentConns : primary'[DeviceOf[m]] = a => primary[DeviceOf[m]] = a \/ a = c
      BY <1>0, <3>1 DEF IInv, RelayTypeOK
    <3> QED BY <1>0, <2>1, <3>1, <3>2, <3>3 DEF RelayQuiet, HandshakeStates
  <2> QED BY <1>2, <2>1, RestQuiet, CloseSocketQuiet DEF AgentHello, RefuseAgent
<1>3. CASE c \in AppConns /\ msg.type = "mobile.connect" /\ MobileConnect(c)
  <2>1. CASE RefuseMobile(c)
    BY <1>a, <2>1 DEF RefuseMobile, topoVars
  <2>2. CASE ChallengeMobile(c)
    <3>1. /\ state' = [state EXCEPT ![c] = "mobile_connected"]
          /\ UNCHANGED <<sock, topoVars, e2eVars>>
      BY <2>2 DEF ChallengeMobile
    <3>2. state'[m] = state[m] \/ (~authed[m] /\ state'[m] = "mobile_connected")
      BY <1>0, <1>3, <3>1 DEF IInv, RelayTypeOK
    <3> QED BY <3>1, <3>2 DEF topoVars, e2eVars, RelayQuiet, HandshakeStates
  <2> QED BY <1>3, <2>1, <2>2 DEF MobileConnect
<1>4. CASE WrongEndpoint(c)
  BY <1>4, CloseSocketQuiet DEF WrongEndpoint
<1>5. CASE AuthProof(c, msg)
  BY <1>5, <1>a, CloseSocketQuiet DEF AuthProof, ForwardProof, RefuseProof, BlockProof
<1>6. CASE AuthResult(c, msg)
  <2> DEFINE n == msg.app
  <2>1. CASE UNCHANGED relayVars
    BY <2>1, RestQuiet
  <2>2. CASE n \in AppConns /\ AuthOk(c, n, msg)
    <3>1. CASE pending[n] # None /\ AcceptApp(c, n, msg)
      <4>1. /\ state' = [state EXCEPT ![n] = "relay_pairing_verified"]
            /\ UNCHANGED <<sock, primary, e2eVars>>
        BY <2>2, <3>1 DEF AuthOk, AcceptApp
      <4>2. state'[m] = state[m] \/ (~authed[m] /\ state'[m] = "relay_pairing_verified")
        BY <1>0, <3>1, <4>1 DEF IInv, RelayTypeOK
      <4> QED BY <4>1, <4>2 DEF topoVars, e2eVars, RelayQuiet, HandshakeStates
    <3> QED BY <1>a, <2>2, <3>1 DEF AuthOk
  <2> QED BY <1>6, <1>a, <2>1, <2>2 DEF AuthResult, ResultFor, AuthRefused, AuthPending
<1>7. CASE msg.type = "e2e.handshake.init" /\ HandshakeInit(c, msg)
  <2>1. CASE msg.app = c /\ ~Reject(c)
    <3>1. c # m
      BY <1>7, <2>1 DEF About, Talking
    <3>2. \E s : /\ hs' = [hs EXCEPT ![c] = msg.ref] /\ th' = [th EXCEPT ![c] = None]
                 /\ state' = [state EXCEPT ![c] = s]
                 /\ UNCHANGED <<sock, topoVars, peer>>
      BY <1>7, <2>1 DEF HandshakeInit
    <3>3. state'[m] = state[m] /\ hs'[m] = hs[m] /\ th'[m] = th[m]
      BY <1>0, <3>1, <3>2 DEF IInv, RelayTypeOK
    <3> QED BY <3>2, <3>3 DEF RelayQuiet, topoVars
  <2> QED BY <1>7, <1>b, <2>1 DEF HandshakeInit
<1>8. ASSUME NEW n, n # m, NEW x, NEW p, peer' = [peer EXCEPT ![x][n] = p],
             UNCHANGED <<sock, state, topoVars, hs, th>>
      PROVE  RelayQuiet(m)
  <2>1. \A a \in AgentConns : peer'[a][m] = peer[a][m]
    BY <1>8 DEF IInv, RelayTypeOK
  <2> QED BY <1>8, <2>1 DEF RelayQuiet, topoVars
<1>9. CASE msg.type = "e2e.handshake.reply" /\ HandshakeReply(c, msg)
  <2>1. msg.app # m
    BY <1>9 DEF About, Talking
  <2>2. CASE ~Reject(c)
    <3> DEFINE p == [state |-> "handshaking", hs |-> msg.ref, th |-> None, sid |-> None]
    <3>1. /\ peer' = [peer EXCEPT ![c][msg.app] = p]
          /\ UNCHANGED <<sock, state, topoVars, hs, th>>
      BY <1>9, <2>2 DEF HandshakeReply
    <3> HIDE DEF p
    <3> QED BY <1>8, <2>1, <3>1
  <2> QED BY <1>b, <2>2
<1>10. CASE msg.type = "e2e.ready" /\ E2EReady(c, msg)
  <2>1. msg.app # m
    BY <1>10 DEF About, Talking
  <2>2. CASE MobileReady(c, msg) /\ ~Reject(c)
    <3>1. c # m
      BY <2>1, <2>2 DEF MobileReady
    <3>2. /\ th' = [th EXCEPT ![c] = msg.agent] /\ state' = [state EXCEPT ![c] = "e2e_ready"]
          /\ UNCHANGED <<sock, topoVars, hs, peer>>
      BY <2>2 DEF MobileReady
    <3>3. state'[m] = state[m] /\ th'[m] = th[m]
      BY <1>0, <3>1, <3>2 DEF IInv, RelayTypeOK
    <3> QED BY <3>2, <3>3 DEF RelayQuiet, topoVars
  <2>3. CASE AgentReady(c, msg)
    BY <1>8, <1>b, <2>1, <2>3 DEF AgentReady
  <2> QED BY <1>10, <1>b, <2>2, <2>3 DEF E2EReady
<1>11. CASE msg.type \in E2EData /\ E2EMessage(c, msg)
  <2>1. msg.app # m
    BY <1>11 DEF About, Talking
  <2>2. CASE MobileE2EMessage(c, msg) /\ ~Reject(c)
    BY <2>2 DEF MobileE2EMessage, topoVars, RelayQuiet
  <2>3. CASE AgentE2EMessage(c, msg)
    <3> DEFINE p == [state |-> peer[c][msg.app].state, hs |-> peer[c][msg.app].hs,
                     th |-> peer[c][msg.app].th, sid |-> msg.agent]
    <3>1. CASE ~Reject(c)
      <4>1. /\ peer' = [peer EXCEPT ![c][msg.app] = p]
            /\ UNCHANGED <<sock, state, topoVars, hs, th>>
        BY <2>3, <3>1 DEF AgentE2EMessage
      <4> HIDE DEF p
      <4> QED BY <1>8, <2>1, <4>1
    <3> QED BY <1>b, <3>1
  <2> QED BY <1>11, <1>b, <2>2, <2>3 DEF E2EMessage
<1>12. CASE msg.type = "e2e.failed" /\ E2EFailed(c, msg)
  <2>1. msg.app # m /\ c # m
    BY <1>12 DEF About, Talking
  <2>2. CASE MobileE2EFailed(c, msg)
    <3>2. \E s : /\ hs' = [hs EXCEPT ![c] = None] /\ th' = [th EXCEPT ![c] = None]
                 /\ state' = [state EXCEPT ![c] = s]
                 /\ UNCHANGED <<sock, topoVars, peer>>
      BY <2>2 DEF MobileE2EFailed
    <3>3. state'[m] = state[m] /\ hs'[m] = hs[m] /\ th'[m] = th[m]
      BY <1>0, <2>1, <3>2 DEF IInv, RelayTypeOK
    <3> QED BY <3>2, <3>3 DEF RelayQuiet, topoVars
  <2>3. CASE AgentE2EFailed(c, msg)
    BY <1>8, <2>1, <2>3 DEF AgentE2EFailed
  <2> QED BY <1>12, <2>2, <2>3, RestQuiet DEF E2EFailed
<1> QED BY <1>1, <1>2, <1>3, <1>4, <1>5, <1>6, <1>7, <1>9, <1>10, <1>11, <1>12 DEF Handle

QueuesTyped == \A c \in Conns : up[c] \in Seq(Messages) /\ down[c] \in Seq(Messages)

LEMMA BQueues ==
  ASSUME PInv
  PROVE  QueuesTyped
<1>1. \A c \in Conns : up[c] \in Seq(Sendable)
  BY DEF PInv, UpOK
<1> QED BY <1>1, ClientFramesAre DEF PInv, DownOK, QueuesTyped

\* A step that is not about the session of App m, or only takes a frame of it.
LEMMA QuietTalk ==
  ASSUME QueuesTyped, NEW m \in AppConns, NEW b \in AgentConns, Talked(m, b), authed[m],
         \A c \in {m, b} : Quietly(up[c], up'[c], m) /\ Quietly(down[c], down'[c], m),
         KeepsReady(up[m], up'[m], m, b) \/ state'[m] # "e2e_handshaking",
         KeepsReady(down[m], down'[m], m, b) \/ phase'[m] \in {"ready", "closed"},
         KeepsReady(down[b], down'[b], m, b) \/ e2e'[m] # "handshaking",
         phase'[m] \in {phase[m], "closed"},
         e2e'[m] \in {e2e[m], "none"} \/ (e2e[m] # "none" /\ e2e'[m] = "ready"),
         RelayQuiet(m), e2e'[m] = "handshaking" => authState[b] # "pending"
  PROVE  Talked(m, b)'
<1>1. m \in Conns /\ b \in Conns
  BY DEF Conns
<1>2. \A c \in {m, b} : Shrinks(up[c], up'[c], m, b) /\ Shrinks(down[c], down'[c], m, b)
  BY <1>1, QuietShrinks DEF QueuesTyped
<1> QED BY <1>2, TalkShrinks DEF RelayQuiet

LEMMA PushGains ==
  ASSUME QueuesTyped, DownOK, NEW m \in AppConns, NEW b \in AgentConns, NEW c \in Conns,
         NEW f \in Messages, down' = Push(c, f)
  PROVE  /\ \A x \in Conns : x # c => down'[x] = down[x]
         /\ sock[c] # "open" => down'[c] = down[c]
         /\ sock[c] = "open" => Gains(down[c], down'[c], f, m, b)
<1>1. down \in [Conns -> Seq(Messages)]
  BY DEF DownOK
<1>2. ASSUME sock[c] = "open" PROVE Gains(down[c], down'[c], f, m, b)
  <2>1. down'[c] = Append(down[c], f)
    BY <1>1, <1>2 DEF Push
  <2>2. down'[c] = down[c] \o <<f>>
    BY <2>1 DEF QueuesTyped
  <2> QED BY <2>2, OneGained DEF QueuesTyped
<1> QED BY <1>1, <1>2 DEF Push

LEMMA RouteGains ==
  ASSUME QueuesTyped, DownOK, IInv, NEW m \in AppConns, NEW b \in AgentConns,
         NEW f \in Messages, down' = RouteToAgent(m, f)
  PROVE  /\ down'[m] = down[m]
         /\ \/ /\ Gains(down[b], down'[b], f, m, b)
               /\ primary[DeviceOf[m]] = b /\ sock[b] = "open"
            \/ down'[b] = down[b] /\ ~(primary[DeviceOf[m]] = b /\ sock[b] = "open")
<1> DEFINE a == primary[DeviceOf[m]]
<1>1. a \in AgentConns \cup {None} /\ m # a /\ m \in Conns /\ b \in Conns /\ b # None
  BY WireAssumption DEF IInv, RelayTypeOK, Conns
<1>2. CASE a = None
  BY <1>1, <1>2 DEF RouteToAgent
<1>3. CASE a # None
  <2>1. down' = Push(a, f) /\ a \in Conns
    BY <1>1, <1>3 DEF RouteToAgent, Conns
  <2> HIDE DEF a
  <2>2. /\ \A x \in Conns : x # a => down'[x] = down[x]
        /\ sock[a] # "open" => down'[a] = down[a]
        /\ sock[a] = "open" => Gains(down[a], down'[a], f, m, b)
    BY <2>1, PushGains
  <2> QED BY <1>1, <2>2 DEF a
<1> QED BY <1>2, <1>3

\* A frame of the pair that the relay turns away.
LEMMA RejectedTalk ==
  ASSUME QueuesTyped, DownOK, NEW m \in AppConns, NEW b \in AgentConns, Talked(m, b),
         authed[m], NEW c \in {m, b}, NEW msg, up[c] # <<>>, msg = Head(up[c]),
         up'[c] = Tail(up[c]), \A x \in {m, b} : x # c => up'[x] = up[x],
         phase' = phase, e2e' = e2e, e2e[m] # "none" => authState[b] # "pending",
         Reject(c) \/ UNCHANGED <<relayVars, down>>,
         c = b \/ msg # ReadyOf(m, b) \/ state[m] # "e2e_handshaking"
  PROVE  Talked(m, b)'
<1>1. m \in Conns /\ b \in Conns /\ m # b
  BY WireAssumption DEF Conns
<1>2. Passes(c, Close)
  BY <1>1, RejectPasses, RestPasses
<1>3. \A x \in Conns : Adds(down[x], down'[x], OthersThan(m))
  <2>1. \A x \in Conns : Passed(c, Close, x) \subseteq OthersThan(m)
    BY DEF Passed, OthersThan, About, Talking, Close, Plain, Frame, E2EData
  <2> QED BY <1>2, <2>1, AddsMore DEF Passes
<1>4. RelayQuiet(m) /\ state'[m] = state[m]
  BY RestQuiet DEF Reject, relayVars
<1>5. \A x \in {m, b} : Quietly(up[x], up'[x], m) /\ Quietly(down[x], down'[x], m)
  BY <1>1, <1>3 DEF Quietly
<1>6. KeepsReady(down[m], down'[m], m, b) /\ KeepsReady(down[b], down'[b], m, b)
  BY <1>1, <1>3, <1>5, QuietShrinks DEF QueuesTyped
<1>7. c = b \/ msg # ReadyOf(m, b) => KeepsReady(up[m], up'[m], m, b)
  BY <1>1, <1>5, QuietShrinks DEF QueuesTyped
<1> QED BY <1>4, <1>5, <1>6, <1>7, QuietTalk

\* The relay takes a frame of the pair off the App's connection.
LEMMA HearsApp ==
  ASSUME PInv, Admissions, NEW m \in AppConns, NEW b \in AgentConns, Paired(m, b),
         NEW msg \in ClientFrames, msg \in AppTalk(m, b), Handle(m, msg),
         up[m] # <<>>, msg = Head(up[m]), up' = [up EXCEPT ![m] = Tail(@)],
         UNCHANGED <<agentVars, appVars>>, e2e[m] # "none" => authState[b] # "pending"
  PROVE  Talked(m, b)'
<1> USE WireAssumption
<1>1. /\ QueuesTyped /\ IInv /\ DownOK /\ Talked(m, b) /\ authed[m] /\ role[m] = "mobile"
      /\ msg \in Messages
  BY BQueues, ClientFramesAre DEF PInv, Paired, Parties, Admissions, Sendable
<1>2. /\ up \in [Conns -> Seq(Sendable)] /\ m \in Conns /\ b \in Conns /\ m # b
      /\ DeviceOf[m] \in Devices
  BY DEF PInv, UpOK, Conns
<1>3. up'[m] = Tail(up[m]) /\ up'[b] = up[b]
  BY <1>2
<1>4. Loses(up[m], up'[m], msg, m, b)
  BY <1>1, <1>2, <1>3, OneLost DEF QueuesTyped
<1>5. phase' = phase /\ e2e' = e2e
  BY DEF agentVars, appVars
<1>6. ASSUME Reject(m), msg # ReadyOf(m, b) \/ state[m] # "e2e_handshaking"
      PROVE  Talked(m, b)'
  BY <1>1, <1>2, <1>3, <1>5, <1>6, RejectedTalk
<1>7. CASE msg = Opening(m, b)
  <2>1. /\ msg.type = "e2e.handshake.init" /\ msg.app = m /\ msg.ref = m /\ msg # ReadyOf(m, b)
    BY <1>7, TalkDistinct DEF Opening, Frame
  <2>2. HandshakeInit(m, msg)
    BY <2>1 DEF Handle, E2EData
  <2>3. CASE ~Reject(m)
    <3>1. /\ hs' = [hs EXCEPT ![m] = m] /\ state' = [state EXCEPT ![m] = "e2e_handshaking"]
          /\ down' = RouteToAgent(m, msg) /\ UNCHANGED <<sock, primary, peer>>
      BY <2>1, <2>2, <2>3 DEF HandshakeInit, topoVars
    <3>2. hs'[m] = m /\ state'[m] = "e2e_handshaking"
      BY <1>1, <1>2, <3>1 DEF IInv, RelayTypeOK
    <3>3. /\ down'[m] = down[m]
          /\ Gains(down[b], down'[b], msg, m, b) \/ down'[b] = down[b]
      BY <1>1, <3>1, RouteGains
    <3>4. RelayStays(m, b)
      BY <3>1 DEF RelayStays
    <3> QED BY <1>1, <1>3, <1>4, <1>5, <1>7, <3>1, <3>2, <3>3, <3>4, OpeningPassed
  <2> QED BY <1>6, <2>1, <2>3
<1>8. CASE msg = ReadyOf(m, b)
  <2>1. /\ msg.type = "e2e.ready" /\ msg.app = m /\ msg.ref = m /\ msg.agent = b
    BY <1>8 DEF ReadyOf, Frame
  <2>2. MobileReady(m, msg)
    BY <1>1, <2>1 DEF Handle, E2EData, E2EReady
  <2>3. CASE state[m] = "e2e_handshaking"
    <3>1. hs[m] = m
      BY <1>1, <2>3 DEF Talked, RelayTold, HandshakeStates
    <3>2. /\ th' = [th EXCEPT ![m] = b] /\ state' = [state EXCEPT ![m] = "e2e_ready"]
          /\ down' = RouteToAgent(m, msg) /\ UNCHANGED <<sock, primary, peer, hs>>
      BY <2>1, <2>2, <2>3, <3>1 DEF MobileReady, topoVars
    <3>3. th'[m] = b /\ state'[m] = "e2e_ready"
      BY <1>1, <1>2, <3>2 DEF IInv, RelayTypeOK
    <3>4. /\ down'[m] = down[m]
          /\ \/ Gains(down[b], down'[b], msg, m, b)
             \/ down'[b] = down[b] /\ ~(primary[DeviceOf[m]] = b /\ sock[b] = "open")
      BY <1>1, <3>2, RouteGains
    <3>5. RelayStays(m, b)
      BY <3>2 DEF RelayStays
    <3> QED BY <1>1, <1>3, <1>4, <1>5, <1>8, <2>3, <3>2, <3>3, <3>4, <3>5, AppReadyPassed
  <2>4. CASE state[m] # "e2e_handshaking"
    BY <1>6, <2>2, <2>4 DEF MobileReady
  <2> QED BY <2>3, <2>4
<1>9. CASE msg \in DataOf(m, b)
  <2>1. msg.type \in E2EData /\ msg.app = m /\ msg # ReadyOf(m, b)
    BY <1>9, TalkDistinct DEF DataOf, Frame
  <2>2. MobileE2EMessage(m, msg)
    BY <1>1, <2>1 DEF Handle, E2EData, E2EMessage
  <2>3. CASE ~Reject(m)
    <3>1. /\ state[m] = "e2e_ready" /\ down' = RouteToAgent(m, msg)
          /\ UNCHANGED <<sock, state, primary, hs, th, peer>>
      BY <2>2, <2>3 DEF MobileE2EMessage, topoVars
    <3>2. /\ down'[m] = down[m]
          /\ \/ /\ Gains(down[b], down'[b], msg, m, b)
                /\ primary[DeviceOf[m]] = b /\ sock[b] = "open"
             \/ down'[b] = down[b]
      BY <1>1, <3>1, RouteGains
    <3>3. RelayKept(m, b)
      BY <3>1 DEF RelayStays, RelayKept
    <3> QED BY <1>1, <1>3, <1>4, <1>5, <1>9, <3>1, <3>2, <3>3, AppDataPassed
  <2> QED BY <1>6, <2>1, <2>3
<1> QED BY <1>7, <1>8, <1>9 DEF AppTalk

\* ... or off the Agent's.
LEMMA HearsAgent ==
  ASSUME PInv, NEW m \in AppConns, NEW b \in AgentConns, Paired(m, b),
         NEW msg \in ClientFrames, msg \in AgentTalk(m, b), Handle(b, msg),
         up[b] # <<>>, msg = Head(up[b]), up' = [up EXCEPT ![b] = Tail(@)],
         UNCHANGED <<agentVars, appVars>>, e2e[m] # "none" => authState[b] # "pending"
  PROVE  Talked(m, b)'
<1> USE WireAssumption
<1>0. role[b] # "mobile"
  BY DEF PInv, IInv, Endpoints, Conns
<1>1. /\ QueuesTyped /\ IInv /\ DownOK /\ Talked(m, b) /\ authed[m] /\ role[b] # "mobile"
      /\ msg \in Messages
  BY <1>0, BQueues, ClientFramesAre DEF PInv, Paired, Parties, Sendable
<1>2. /\ up \in [Conns -> Seq(Sendable)] /\ m \in Conns /\ b \in Conns /\ m # b
      /\ DeviceOf[m] \in Devices
  BY DEF PInv, UpOK, Conns
<1>3. up'[b] = Tail(up[b]) /\ up'[m] = up[m]
  BY <1>2
<1>4. Loses(up[b], up'[b], msg, m, b)
  BY <1>1, <1>2, <1>3, OneLost DEF QueuesTyped
<1>5. phase' = phase /\ e2e' = e2e
  BY DEF agentVars, appVars
<1>6. ASSUME Reject(b) \/ UNCHANGED <<relayVars, down>>
      PROVE  Talked(m, b)'
  BY <1>1, <1>2, <1>3, <1>5, <1>6, RejectedTalk
<1>7. ASSUME NEW p, peer' = [peer EXCEPT ![b][m] = p] PROVE peer'[b][m] = p
  BY <1>1, <1>7 DEF IInv, RelayTypeOK
<1>8. ASSUME down' = Push(m, msg)
      PROVE  /\ down'[b] = down[b]
             /\ down'[m] = down[m] \/ Gains(down[m], down'[m], msg, m, b)
             /\ sock[m] = "open" => Gains(down[m], down'[m], msg, m, b)
  BY <1>1, <1>2, <1>8, PushGains
<1>9. ASSUME UNCHANGED <<sock, state, topoVars, hs, th>>
      PROVE  /\ RelayStays(m, b) /\ state'[m] = state[m] /\ hs'[m] = hs[m] /\ th'[m] = th[m]
  BY <1>9 DEF RelayStays, topoVars
<1>10. CASE msg = Answer(m, b)
  <2>1. msg.type = "e2e.handshake.reply" /\ msg.app = m /\ msg.ref = m
    BY <1>10 DEF Answer, Frame
  <2>2. HandshakeReply(b, msg)
    BY <2>1 DEF Handle, E2EData
  <2>3. CASE ~Reject(b)
    <3> DEFINE p == [state |-> "handshaking", hs |-> m, th |-> None, sid |-> None]
    <3>0. p.state = "handshaking" /\ p.hs = m
      OBVIOUS
    <3>1. /\ peer' = [peer EXCEPT ![b][m] = p]
          /\ down' = Push(m, msg) /\ UNCHANGED <<sock, state, topoVars, hs, th>>
      BY <2>1, <2>2, <2>3 DEF HandshakeReply
    <3> HIDE DEF p
    <3>2. peer'[b][m].state = "handshaking" /\ peer'[b][m].hs = m
      BY <1>7, <3>0, <3>1
    <3> QED BY <1>1, <1>3, <1>4, <1>5, <1>8, <1>9, <1>10, <3>1, <3>2, AnswerPassed
  <2> QED BY <1>6, <2>3
<1>11. CASE msg = ReadyOf(m, b)
  <2>1. msg.type = "e2e.ready" /\ msg.app = m /\ msg.agent = b
    BY <1>11 DEF ReadyOf, Frame
  <2>2. CASE role[b] = "agent" /\ AgentReady(b, msg) /\ ~Reject(b)
    <3> DEFINE p == [state |-> "ready", hs |-> peer[b][m].hs, th |-> b, sid |-> peer[b][m].sid]
    <3>0. p.state = "ready" /\ p.hs = peer[b][m].hs /\ p.th = b
      OBVIOUS
    <3>1. /\ peer' = [peer EXCEPT ![b][m] = p]
          /\ sock[m] = "open" /\ peer[b][m].state # "none"
          /\ down' = Push(m, msg) /\ UNCHANGED <<sock, state, topoVars, hs, th>>
      BY <2>1, <2>2 DEF AgentReady, KnowsHandshake, MobileOf
    <3> HIDE DEF p
    <3>2. peer'[b][m].state = "ready" /\ peer'[b][m].hs = peer[b][m].hs /\ peer'[b][m].th = b
      BY <1>7, <3>0, <3>1
    <3> QED BY <1>1, <1>3, <1>4, <1>5, <1>8, <1>9, <1>11, <3>1, <3>2, AgentReadyPassed
  <2> QED BY <1>1, <1>6, <2>1, <2>2 DEF Handle, E2EData, E2EReady
<1>12. CASE msg \in DataOf(m, b)
  <2>1. msg.type \in E2EData /\ msg.app = m
    BY <1>12 DEF DataOf, Frame
  <2>2. CASE role[b] = "agent" /\ AgentE2EMessage(b, msg) /\ ~Reject(b)
    <3> DEFINE p == [state |-> peer[b][m].state, hs |-> peer[b][m].hs,
                     th |-> peer[b][m].th, sid |-> msg.agent]
    <3>0. p.state = peer[b][m].state /\ p.hs = peer[b][m].hs /\ p.th = peer[b][m].th
      OBVIOUS
    <3>1. /\ peer' = [peer EXCEPT ![b][m] = p]
          /\ sock[m] = "open" /\ peer[b][m].state = "ready"
          /\ down' = Push(m, msg) /\ UNCHANGED <<sock, state, topoVars, hs, th>>
      BY <2>1, <2>2 DEF AgentE2EMessage, MobileOf
    <3> HIDE DEF p
    <3>2. /\ peer'[b][m].state = "ready" /\ peer'[b][m].hs = peer[b][m].hs
          /\ peer'[b][m].th = peer[b][m].th
      BY <1>7, <3>0, <3>1
    <3> QED BY <1>1, <1>3, <1>4, <1>5, <1>8, <1>9, <1>12, <3>1, <3>2, AgentDataPassed
  <2> QED BY <1>1, <1>6, <2>1, <2>2 DEF Handle, E2EData, E2EMessage
<1>13. CASE msg = FailureOf(m)
  <2>1. msg.type = "e2e.failed" /\ msg.app = m
    BY <1>13 DEF FailureOf, Frame
  <2>2. CASE role[b] = "agent" /\ AgentE2EFailed(b, msg)
    <3>1. /\ peer' = [peer EXCEPT ![b][m] = NoPeer]
          /\ down' = down \/ down' = Push(m, msg)
          /\ UNCHANGED <<sock, state, topoVars, hs, th>>
      BY <2>1, <2>2 DEF AgentE2EFailed
    <3>2. peer'[b][m] = NoPeer /\ NoPeer.state = "none"
      BY <1>7, <3>1 DEF NoPeer
    <3> QED BY <1>1, <1>3, <1>4, <1>5, <1>8, <1>9, <1>13, <3>1, <3>2, FailurePassed
  <2> QED BY <1>1, <1>6, <2>1, <2>2 DEF Handle, E2EData, E2EFailed
<1> QED BY <1>10, <1>11, <1>12, <1>13 DEF AgentTalk

\* What a session says of the Agent that holds it: its connection is registered.
LEMMA SessionAdmitted ==
  ASSUME VInv, Admissions, NEW m \in AppConns, NEW b \in AgentConns, Parties(m, b),
         e2e[m] # "none"
  PROVE  cur[DeviceOf[m]] = b /\ agentId[DeviceOf[m]] = b /\ authState[b] # "pending"
<1> DEFINE d == DeviceOf[m]
<1>1. d \in Devices /\ agentId[d] # None /\ cur[d] = b /\ cur[d] # None
  BY WireAssumption DEF VInv, PInv, AgentIInv, SessionsListed, Parties, Conns
<1>2. agentId[d] = b
  BY <1>1 DEF VInv, PInv, AgentIInv, OwnConnection
<1> QED BY <1>1, <1>2 DEF Admissions, Admitted

-----------------------------------------------------------------------------
(* Steps that leave a session as it is, or end it.                         *)

\* Neither end of App m's session goes further, and the Agent keeps it only on
\* the connection it is on.
Calm(m) ==
  /\ phase'[m] \in {phase[m], "closed"} \/ {phase[m], phase'[m]} \cap (Late \cup {"closed"}) = {}
  /\ phase'[m] \in Late => agentOf'[m] = agentOf[m]
  /\ e2e'[m] \in {e2e[m], "none"} \/ (e2e[m] # "none" /\ e2e'[m] = "ready")
  /\ e2e'[m] # "none" => cur'[DeviceOf[m]] = cur[DeviceOf[m]]

Undisturbed(m) ==
  /\ RelayQuiet(m) /\ Calm(m)
  /\ authed[m] => authed'[m]
  /\ \A c \in Conns : Quietly(up[c], up'[c], m) /\ Quietly(down[c], down'[c], m)

\* An e2e.ready is not lost on whoever waits for it.
Steady(m, b) ==
  /\ KeepsReady(up[m], up'[m], m, b) \/ state'[m] # "e2e_handshaking"
  /\ KeepsReady(down[m], down'[m], m, b) \/ phase'[m] \in {"ready", "closed"}
  /\ KeepsReady(down[b], down'[b], m, b) \/ e2e'[m] # "handshaking"

\* A queue on which nothing of App m's session is written, nor its e2e.ready taken.
Idles(q, r, m) ==
  \/ r = q
  \/ Adds(q, r, OthersThan(m))
  \/ q # <<>> /\ r = Tail(q) /\ ~(Head(q).type = "e2e.ready" /\ Head(q).app = m)

LEMMA IdlesKeeps ==
  ASSUME NEW q \in Seq(Messages), NEW r, NEW m, NEW b, Idles(q, r, m)
  PROVE  Quietly(q, r, m) /\ KeepsReady(q, r, m, b)
<1>1. ReadyOf(m, b).type = "e2e.ready" /\ ReadyOf(m, b).app = m
  BY DEF ReadyOf, Frame
<1>2. Quietly(q, r, m)
  BY DEF Idles, Quietly
<1> QED BY <1>1, <1>2, QuietShrinks DEF Idles

LEMMA QuietPaired ==
  ASSUME VInv, Admissions, NEW m \in AppConns, NEW b \in AgentConns, Paired(m, b),
         Undisturbed(m), Steady(m, b)
  PROVE  Paired(m, b)'
<1>1. QueuesTyped /\ m \in Conns /\ b \in Conns
  BY BQueues DEF VInv, PInv, Conns
<1>2. Talks(m, b)'
  BY <1>1, OnlyQuiet DEF Paired, Talks, QueuesTyped, Said, Heard, Undisturbed
<1>3. phase'[m] \in {phase[m], "closed"}
  BY DEF Paired, Parties, Undisturbed, Calm
<1>4. Parties(m, b)'
  BY <1>3 DEF Paired, Parties, Undisturbed, Calm
<1>5. e2e[m] # "none" => authState[b] # "pending"
  BY SessionAdmitted DEF Paired
<1>6. e2e'[m] = "handshaking" => authState[b] # "pending"
  BY <1>5 DEF Undisturbed, Calm
<1>7. Talked(m, b) /\ authed[m]
  BY DEF Paired, Parties
<1>8. /\ e2e'[m] \in {e2e[m], "none"} \/ (e2e[m] # "none" /\ e2e'[m] = "ready")
      /\ RelayQuiet(m)
      /\ \A c \in {m, b} : Quietly(up[c], up'[c], m) /\ Quietly(down[c], down'[c], m)
  BY <1>1 DEF Undisturbed, Calm
<1>9. Talked(m, b)'
  BY <1>1, <1>3, <1>6, <1>7, <1>8, QuietTalk DEF Steady
<1> QED BY <1>2, <1>4, <1>9 DEF Paired

LEMMA QuietUnpaired ==
  ASSUME QueuesTyped, NEW m \in AppConns, Unpaired(m), phase'[m] \notin Late, e2e'[m] = "none",
         state'[m] \notin HandshakeStates, \A x \in AgentConns : peer'[x][m] = peer[x][m],
         \A c \in Conns : Quietly(up[c], up'[c], m) /\ Quietly(down[c], down'[c], m)
  PROVE  Unpaired(m)'
<1>1. \A c \in Conns : Only(up'[c], m, {}) /\ Only(down'[c], m, {})
  BY OnlyQuiet DEF Unpaired, QueuesTyped
<1> QED BY <1>1 DEF Unpaired

Party(m) == Unpaired(m) \/ \E b \in AgentConns : Paired(m, b)

LEMMA QuietParty ==
  ASSUME VInv, Admissions, NEW m \in AppConns, Party(m), Undisturbed(m),
         \A b \in AgentConns : Paired(m, b) => Steady(m, b)
  PROVE  Party(m)'
<1>1. CASE Unpaired(m)
  <2>1. QueuesTyped
    BY BQueues DEF VInv
  <2>2. phase'[m] \notin Late
    BY <1>1 DEF Unpaired, Undisturbed, Calm, Late
  <2>3. e2e'[m] = "none"
    BY <1>1 DEF Unpaired, Undisturbed, Calm
  <2>4. state'[m] \notin HandshakeStates /\ \A x \in AgentConns : peer'[x][m] = peer[x][m]
    BY <1>1 DEF Unpaired, Undisturbed, RelayQuiet
  <2>5. \A c \in Conns : Quietly(up[c], up'[c], m) /\ Quietly(down[c], down'[c], m)
    BY DEF Undisturbed
  <2>6. Unpaired(m)'
    BY <1>1, <2>1, <2>2, <2>3, <2>4, <2>5, QuietUnpaired
  <2> QED BY <2>6 DEF Party
<1>2. ASSUME NEW b \in AgentConns, Paired(m, b) PROVE Party(m)'
  BY <1>2, QuietPaired DEF Party
<1> QED BY <1>1, <1>2 DEF Party

\* Nothing of App m's session is written or taken.
LEMMA IdleParty ==
  ASSUME VInv, Admissions, NEW m \in AppConns, Party(m), RelayQuiet(m), Calm(m),
         authed[m] => authed'[m],
         \A c \in Conns : Idles(up[c], up'[c], m) /\ Idles(down[c], down'[c], m)
  PROVE  Party(m)'
<1>1. QueuesTyped /\ m \in Conns
  BY BQueues DEF VInv, Conns
<1>2. \A c \in Conns : Quietly(up[c], up'[c], m) /\ Quietly(down[c], down'[c], m)
  BY <1>1, IdlesKeeps DEF QueuesTyped
<1>3. ASSUME NEW b \in AgentConns PROVE Steady(m, b)
  <2>1. b \in Conns
    BY DEF Conns
  <2> QED BY <1>1, <2>1, IdlesKeeps DEF QueuesTyped, Steady
<1> QED BY <1>2, <1>3, QuietParty DEF Undisturbed

-----------------------------------------------------------------------------
(* The relay's steps.                                                      *)

LEMMA OnlyAdds ==
  ASSUME NEW q \in Seq(Messages), NEW r, NEW m, NEW S, NEW U, U \subseteq Messages,
         Adds(q, r, U), Only(q, m, S), \A f \in U : About(f, m) => f \in S
  PROVE  Only(r, m, S)
<1>1. PICK s \in Seq(U) : r = q \o s
  BY DEF Adds
<1>2. s \in Seq(Messages)
  OBVIOUS
<1>3. Only(s, m, S)
  BY DEF Only
<1> QED BY <1>1, <1>2, <1>3, OnlyWritten

\* Every frame on a queue is an old one or one of those that were added.
LEMMA AddsFrames ==
  ASSUME NEW q \in Seq(Messages), NEW r, NEW U, U \subseteq Messages, Adds(q, r, U)
  PROVE  \A i \in DOMAIN r : (i \in DOMAIN q /\ r[i] = q[i]) \/ r[i] \in U
<1>1. PICK s \in Seq(U) : r = q \o s
  BY DEF Adds
<1>2. s \in Seq(Messages)
  OBVIOUS
<1>3. \A i \in DOMAIN s : s[i] \in U
  OBVIOUS
<1> QED BY <1>1, <1>2, <1>3, Written

\* What the relay does of its own is quiet.
OfItsOwn ==
  /\ \A m \in AppConns : RelayQuiet(m) /\ pending'[m] \in {pending[m], None}
  /\ KeepsAdmitted /\ UNCHANGED <<role, authed>>
  /\ Passes(None, Close)

LEMMA UnregisterPending ==
  ASSUME NEW S, NEW after, Unregister(S, after)
  PROVE  \A m \in AppConns : pending'[m] \in {pending[m], None}
BY DEF Unregister

LEMMA EndsOfItsOwn ==
  ASSUME IInv, DownOK, NEW c \in Conns, SocketEnded(c)
  PROVE  OfItsOwn
<1>1. UNCHANGED <<authVars, e2eVars, down>>
  BY DEF SocketEnded
<1>2. KeepsAdmitted /\ UNCHANGED <<role, authed>> /\ Passes(None, Close)
  BY <1>1, RestPasses DEF KeepsAdmitted, Admitted, authVars
<1>3. CASE Unregister({c}, "closed")
  BY <1>1, <1>2, <1>3, UnregisterQuiet, UnregisterPending DEF OfItsOwn
<1>4. CASE ~Unregister({c}, "closed")
  <2>1. sock[c] = "ending" /\ sock' = [sock EXCEPT ![c] = "closed"]
        /\ UNCHANGED <<state, pending, topoVars>>
    BY <1>4 DEF SocketEnded
  <2>2. \A x \in Conns : sock'[x] = sock[x] \/ sock'[x] = "closed"
    BY <2>1 DEF IInv, RelayTypeOK
  <2>3. \A a \in AgentConns : a \in Conns
    BY DEF Conns
  <2>4. \A m \in AppConns : RelayQuiet(m)
    BY <1>1, <2>1, <2>2, <2>3 DEF RelayQuiet, topoVars, e2eVars, Conns
  <2> QED BY <1>2, <2>1, <2>4 DEF OfItsOwn
<1> QED BY <1>3, <1>4

LEMMA ClosesOfItsOwn ==
  ASSUME IInv, DownOK, NEW c \in Conns, CloseByRelay(c)
  PROVE  OfItsOwn
<1>1. /\ Unregister({c}, "ending") /\ down' = PushClose({c})
      /\ UNCHANGED <<authVars, e2eVars>>
  BY DEF CloseByRelay
<1>2. KeepsAdmitted /\ UNCHANGED <<role, authed>> /\ Passes(None, Close)
  BY <1>1, PushClosePasses DEF KeepsAdmitted, Admitted, authVars
<1> QED BY <1>1, <1>2, UnregisterQuiet, UnregisterPending DEF OfItsOwn

LEMMA ExpiresOfItsOwn ==
  ASSUME IInv, DownOK, NEW n \in AppConns, ExpirePending(n)
  PROVE  OfItsOwn
<1> USE WireAssumption
<1>0. UNCHANGED <<role, authed, e2eVars>> /\ n \in Conns /\ n \notin AgentConns
  BY DEF ExpirePending, Conns
<1>1. CASE sock[n] = "open" /\ role[n] = "mobile" /\ ~authed[n]
  <2>1. /\ Unregister({n}, "ending") /\ authState' = [authState EXCEPT ![n] = "failed"]
        /\ down' = [down EXCEPT ![n] = @ \o <<AuthFailed(n), Close>>]
    BY <1>1 DEF ExpirePending
  <2>2. \A a \in AgentConns : authState'[a] = authState[a]
    BY <1>0, <2>1 DEF IInv, RelayTypeOK, Conns
  <2>3. Passes(None, Close)
    BY <1>0, <2>1, FailAndClosePasses
  <2> QED BY <1>0, <2>1, <2>2, <2>3, UnregisterQuiet, UnregisterPending
          DEF OfItsOwn, KeepsAdmitted, Admitted
<1>2. CASE ~(sock[n] = "open" /\ role[n] = "mobile" /\ ~authed[n])
  <2>1. /\ pending' = [pending EXCEPT ![n] = None]
        /\ UNCHANGED <<sock, state, authState, topoVars, down>>
    BY <1>2 DEF ExpirePending
  <2>2. \A m \in AppConns : pending'[m] \in {pending[m], None}
    BY <2>1 DEF IInv, RelayTypeOK
  <2>3. \A m \in AppConns : RelayQuiet(m)
    BY <1>0, <2>1 DEF RelayQuiet, topoVars, e2eVars
  <2>4. Passes(None, Close)
    BY <2>1, RestPasses
  <2> QED BY <1>0, <2>1, <2>2, <2>3, <2>4 DEF OfItsOwn, KeepsAdmitted, Admitted
<1> QED BY <1>1, <1>2

\* An agent past its registration stays so.
LEMMA HandleKeepsAdmitted ==
  ASSUME IInv, NEW c \in Conns, NEW msg \in ClientFrames, Handle(c, msg)
  PROVE  KeepsAdmitted
<1> USE WireAssumption
<1>0. \A m \in AppConns : m \in Conns /\ m \notin AgentConns
  BY DEF Conns
<1>a. CASE UNCHANGED authState
  BY <1>a DEF KeepsAdmitted, Admitted
<1>b. ASSUME NEW n \in Conns, NEW v, authState' = [authState EXCEPT ![n] = v],
             v \in {"verified", "failed"} \/ n \in AppConns \/ v = authState[n] \/ ~Admitted(n)
      PROVE  KeepsAdmitted
  <2>1. \A a \in AgentConns : authState'[a] = IF a = n THEN v ELSE authState[a]
    BY <1>b DEF IInv, RelayTypeOK, Conns
  <2> QED BY <1>0, <1>b, <2>1 DEF KeepsAdmitted, Admitted
<1>c. CASE UNCHANGED relayVars
  BY <1>a, <1>c DEF relayVars
<1>1. CASE c \in AgentConns /\ AgentAuthInit(c)
  BY <1>1, <1>b DEF AgentAuthInit, RefuseAgent, Admitted
<1>2. CASE c \in AgentConns /\ AgentHello(c)
  <2>1. CASE UNCHANGED <<relayVars, down>>
    BY <1>c, <2>1
  <2>2. CASE \E v \in {"verified", "failed", authState[c]} : authState' = [authState EXCEPT ![c] = v]
    BY <1>b, <2>2
  <2>3. CASE authState[c] = "pending" /\ RegisterAgent(c)
    <3>1. authState' = [authState EXCEPT ![c] = "verified"]
      BY <2>3 DEF RegisterAgent
    <3> QED BY <2>2, <3>1
  <2> QED BY <1>2, <2>1, <2>2, <2>3 DEF AgentHello, RefuseAgent
<1>3. CASE c \in AppConns /\ MobileConnect(c)
  BY <1>3, <1>b DEF MobileConnect, RefuseMobile, ChallengeMobile, Fail
<1>4. CASE WrongEndpoint(c)
  BY <1>4, <1>a DEF WrongEndpoint, authVars
<1>5. CASE AuthProof(c, msg)
  BY <1>5, <1>a, <1>b DEF AuthProof, ForwardProof, RefuseProof, BlockProof, Fail
<1>6. CASE AuthResult(c, msg)
  <2>1. msg.app \in AppConns => msg.app \in Conns
    BY <1>0
  <2> QED BY <1>6, <1>a, <1>b, <1>c, <2>1
          DEF AuthResult, ResultFor, AuthOk, AcceptApp, Fail, AuthRefused, AuthPending
<1>7. CASE HandshakeInit(c, msg) \/ HandshakeReply(c, msg)
  BY <1>7, <1>a, <1>c DEF HandshakeInit, HandshakeReply, Reject, authVars
<1>8. CASE E2EReady(c, msg)
  BY <1>8, <1>a, <1>c DEF E2EReady, MobileReady, AgentReady, Reject, authVars
<1>9. CASE E2EMessage(c, msg)
  BY <1>9, <1>a, <1>c DEF E2EMessage, MobileE2EMessage, AgentE2EMessage, Reject, authVars
<1>10. CASE E2EFailed(c, msg)
  BY <1>10, <1>a, <1>c DEF E2EFailed, MobileE2EFailed, AgentE2EFailed, authVars
<1> QED BY <1>1, <1>2, <1>3, <1>4, <1>5, <1>6, <1>7, <1>8, <1>9, <1>10 DEF Handle

\* An App that is authenticated is an App, and its challenge is used up.
LEMMA HandleAdmissions ==
  ASSUME VInv, Admissions, NEW c \in Conns, NEW msg \in ClientFrames, up[c] # <<>>,
         msg = Head(up[c]), Handle(c, msg), NEW m \in AppConns
  PROVE  /\ authed'[m] => role'[m] = "mobile" /\ pending'[m] = None
         /\ authed[m] => authed'[m] /\ pending[m] = None
         /\ c = m /\ msg.type = "mobile.connect" => ~authed[m]
<1>1. IInv
  BY DEF VInv, PInv
<1>2. c = m /\ msg.type = "mobile.connect" => ~authed[m]
  <2>1. up[c] \in Seq(Sendable)
    BY DEF VInv, PInv, UpOK
  <2>2. 1 \in DOMAIN up[c] /\ msg = up[c][1]
    BY <2>1, TailFrames
  <2> QED BY <2>2 DEF VInv, Connects, Admissions
<1>3. Admits(c, msg)
  BY <1>1, HandleAdmits
<1>4. authed[m] => authed'[m] /\ pending[m] = None /\ role[m] = "mobile"
  BY <1>3 DEF Admits, Admissions
<1>5. CASE authed[m]
  BY <1>2, <1>3, <1>4, <1>5 DEF Admits
<1>6. CASE ~authed[m] /\ authed'[m]
  <2>1. msg.type = "auth.ok" /\ msg.app = m
    BY <1>1, <1>6, HandleAuthenticates
  <2>2. AuthResult(c, msg)
    BY <2>1 DEF Handle, E2EData
  <2>3. AuthOk(c, m, msg) /\ role[m] = "mobile"
    <3>1. ~UNCHANGED <<relayVars, down>>
      BY <1>6 DEF relayVars
    <3> QED BY <2>1, <2>2, <3>1 DEF AuthResult, ResultFor
  <2>4. pending' = [pending EXCEPT ![m] = None] /\ role' = role
    BY <2>3 DEF AuthOk
  <2>5. pending'[m] = None
    BY <1>1, <2>4 DEF IInv, RelayTypeOK
  <2> QED BY <1>2, <1>6, <2>3, <2>4, <2>5
<1> QED BY <1>2, <1>5, <1>6

\* A step of the relay of its own.
LEMMA RelayOwnParty ==
  ASSUME VInv, Admissions, NEW m \in AppConns, Party(m), OfItsOwn, UNCHANGED <<agentVars, appVars>>,
         \A c \in Conns : up'[c] = up[c] \/
           (up[c] # <<>> /\ up'[c] = Tail(up[c]) /\ Head(up[c]).type \notin Talking)
  PROVE  Party(m)'
<1>1. \A c \in Conns : Idles(up[c], up'[c], m)
  BY DEF Idles, Talking
<1>2. \A x \in Conns : Passed(None, Close, x) \subseteq OthersThan(m)
  BY DEF Passed, OthersThan, About, Talking, Close, Plain, Frame, E2EData
<1>3. \A c \in Conns : Idles(down[c], down'[c], m)
  BY <1>2, AddsMore DEF OfItsOwn, Passes, Idles
<1>4. Calm(m)
  BY DEF Calm, agentVars, appVars
<1> QED BY <1>1, <1>3, <1>4, IdleParty DEF OfItsOwn

\* A frame that is not about App m's session.
LEMMA OtherFrameParty ==
  ASSUME VInv, Admissions, OwnTalk, NEW m \in AppConns, Party(m), NEW c \in Conns,
         NEW msg \in ClientFrames, ~About(msg, m), up[c] # <<>>, msg = Head(up[c]),
         Handle(c, msg), up' = [up EXCEPT ![c] = Tail(@)], UNCHANGED <<agentVars, appVars>>
  PROVE  Party(m)'
<1>1. IInv /\ DownOK /\ up \in [Conns -> Seq(Sendable)]
  BY DEF VInv, PInv, UpOK
<1>2. 1 \in DOMAIN up[c] /\ msg = up[c][1]
  BY <1>1, TailFrames
<1>3. c = m => msg.type # "e2e.failed"
  BY <1>2 DEF OwnTalk, Talking
<1>4. /\ authed[m] => authed'[m] /\ pending[m] = None
      /\ c = m /\ msg.type = "mobile.connect" => ~authed[m]
  BY HandleAdmissions
<1>5. RelayQuiet(m)
  BY <1>1, <1>3, <1>4, HandleQuiet
<1>6. \A x \in Conns : Passed(c, msg, x) \subseteq OthersThan(m)
  BY DEF Passed, OthersThan, About
<1>7. \A x \in Conns : Idles(down[x], down'[x], m)
  BY <1>1, <1>6, HandlePasses, AddsMore DEF Passes, Idles
<1>8. \A x \in Conns : Idles(up[x], up'[x], m)
  BY <1>1 DEF Idles, About, Talking
<1>9. Calm(m)
  BY DEF Calm, agentVars, appVars
<1> QED BY <1>4, <1>5, <1>7, <1>8, <1>9, IdleParty

\* One that is.
LEMMA OwnFrameParty ==
  ASSUME VInv, Admissions, OwnTalk, NEW m \in AppConns, Party(m), NEW c \in Conns,
         NEW msg \in ClientFrames, About(msg, m), up[c] # <<>>, msg = Head(up[c]),
         Handle(c, msg), up' = [up EXCEPT ![c] = Tail(@)], UNCHANGED <<agentVars, appVars>>
  PROVE  Party(m)'
<1> USE WireAssumption
<1>1. IInv /\ DownOK /\ up \in [Conns -> Seq(Sendable)] /\ QueuesTyped /\ PInv
  BY BQueues DEF VInv, PInv, UpOK
<1>2. \A S : Only(up[c], m, S) => msg \in S
  BY <1>1, OnlyTaken DEF QueuesTyped
<1>3. PICK b \in AgentConns : Paired(m, b)
  BY <1>2 DEF Party, Unpaired
<1>4. msg \in Said(m, b, c)
  BY <1>2, <1>3 DEF Paired, Talks
<1>5. /\ m \in Conns /\ b \in Conns /\ m # b
      /\ \A x \in AppConns : x \notin AgentConns
  BY DEF Conns
<1>6. (c = m /\ msg \in AppTalk(m, b)) \/ (c = b /\ msg \in AgentTalk(m, b))
  BY <1>4 DEF Said
<1>7. e2e[m] # "none" => authState[b] # "pending"
  BY <1>3, SessionAdmitted DEF Paired
<1>8. Talked(m, b)'
  BY <1>1, <1>3, <1>6, <1>7, HearsApp, HearsAgent
<1>9. Parties(m, b)'
  BY <1>3, HandleAdmissions DEF Paired, Parties, agentVars, appVars
<1>10. Talks(m, b)'
  <2>1. ASSUME NEW x \in Conns PROVE Only(up'[x], m, Said(m, b, x))
    <3>1. up'[x] = up[x] \/ (up[x] # <<>> /\ up'[x] = Tail(up[x]))
      BY <1>1
    <3>2. Only(up[x], m, Said(m, b, x)) /\ up[x] \in Seq(Messages)
      BY <1>1, <1>3 DEF Paired, Talks, QueuesTyped
    <3> QED BY <3>1, <3>2, OnlyTaken
  <2>2. ASSUME NEW x \in Conns PROVE Only(down'[x], m, Heard(m, b, x))
    <3>1. Only(down[x], m, Heard(m, b, x)) /\ down[x] \in Seq(Messages)
      BY <1>1, <1>3 DEF Paired, Talks, QueuesTyped
    <3>2. Adds(down[x], down'[x], Passed(c, msg, x)) /\ Passed(c, msg, x) \subseteq Messages
      BY <1>1, HandlePasses DEF Passes, Passed
    <3>3. ASSUME NEW f \in Passed(c, msg, x), About(f, m) PROVE f \in Heard(m, b, x)
      <4>1. f = msg /\ IF x \in AppConns THEN c \in AgentConns /\ msg.app = x ELSE c \in AppConns
        BY <3>3 DEF Passed, About
      <4> QED BY <1>5, <1>6, <4>1, <3>3 DEF Heard, Conns, About
    <3> QED BY <3>1, <3>2, <3>3, OnlyAdds
  <2> QED BY <2>1, <2>2 DEF Talks, Said, Heard
<1> QED BY <1>8, <1>9, <1>10 DEF Party, Paired

\* What an App writes and is written to, and who is admitted.
LEMMA RelayKeepsOwn ==
  ASSUME VInv, VInv', Admissions, OwnTalk, NEW e, NEW msg, Passes(e, msg), KeepsAdmitted,
         \A c \in Conns : up'[c] = up[c] \/ (up[c] # <<>> /\ up'[c] = Tail(up[c])),
         UNCHANGED <<agentVars, appVars>>,
         \A m \in AppConns : authed'[m] => role'[m] = "mobile" /\ pending'[m] = None
  PROVE  OwnTalk' /\ Admissions'
<1> USE WireAssumption
<1>1. QueuesTyped
  BY BQueues DEF VInv
<1>2. ASSUME NEW c \in Conns, NEW i \in DOMAIN up'[c] PROVE \E j \in DOMAIN up[c] : up[c][j] = up'[c][i]
  <2>1. CASE up'[c] = up[c]
    BY <1>2, <2>1
  <2>2. CASE up[c] # <<>> /\ up'[c] = Tail(up[c])
    BY <1>1, <1>2, <2>2, Taken DEF QueuesTyped
  <2> QED BY <2>1, <2>2
<1>3. ASSUME NEW c \in Conns, NEW i \in DOMAIN down'[c]
      PROVE  (i \in DOMAIN down[c] /\ down'[c][i] = down[c][i]) \/ down'[c][i] \in Passed(e, msg, c)
  <2>1. Adds(down[c], down'[c], Passed(e, msg, c)) /\ Passed(e, msg, c) \subseteq Messages
    BY DEF Passes, Passed
  <2> QED BY <1>1, <1>3, <2>1, AddsFrames DEF QueuesTyped
<1>4. OwnTalk'
  <2>1. ASSUME NEW m \in AppConns, NEW i \in DOMAIN up'[m], up'[m][i].type \in Talking
        PROVE  up'[m][i].app = m /\ up'[m][i].type # "e2e.failed"
    <3>1. PICK j \in DOMAIN up[m] : up[m][j] = up'[m][i]
      BY <1>2, <2>1 DEF Conns
    <3> QED BY <2>1, <3>1 DEF OwnTalk
  <2>2. ASSUME NEW m \in AppConns, NEW i \in DOMAIN down'[m], down'[m][i].type \in Talking
        PROVE  down'[m][i].app = m
    BY <1>3, <2>2 DEF OwnTalk, Passed, Conns
  <2> QED BY <2>1, <2>2 DEF OwnTalk
<1>5. Admissions'
  <2>1. ASSUME NEW a \in AgentConns, NEW i \in DOMAIN down'[a], down'[a][i].type = "auth.ok"
        PROVE  Admitted(a)'
    <3>1. CASE down'[a][i] \in Passed(e, msg, a)
      BY <2>1, <3>1 DEF Passed, Admitted
    <3> QED BY <1>3, <2>1, <3>1 DEF Admissions, KeepsAdmitted, Admitted, Conns
  <2>2. \A d \in Devices : agentId'[d] # None => Admitted(agentId[d])'
    <3> SUFFICES ASSUME NEW d \in Devices, agentId'[d] # None PROVE Admitted(agentId[d])'
      OBVIOUS
    <3>1. agentId' = agentId
      BY DEF agentVars
    <3>2. agentId[d] \in AgentConns /\ Admitted(agentId[d])
      BY <3>1 DEF Admissions, VInv, PInv, AgentIInv, AgentTypeOK
    <3> QED BY <3>1, <3>2 DEF KeepsAdmitted, Admitted
  <2>3. ASSUME NEW m \in AppConns, NEW i \in DOMAIN down'[m], down'[m][i].type = "auth.ok"
        PROVE  down'[m][i].agent \in AgentConns /\ DeviceOf[down'[m][i].agent] = DeviceOf[m]
    BY <1>3, <2>3 DEF Admissions, Passed, Conns
  <2> QED BY <2>1, <2>2, <2>3 DEF Admissions
<1> QED BY <1>4, <1>5

\* The relay reads a frame, closes a connection or forgets a challenge.
LEMMA RelayKeepsB ==
  ASSUME BInv, VInv', NEW c \in Conns, Read(c) \/ RelayCloses(c) \/ (c \in AppConns /\ Expire(c))
  PROVE  BInv'
<1>1. /\ VInv /\ IInv /\ DownOK /\ Admissions /\ OwnTalk /\ up \in [Conns -> Seq(Sendable)]
      /\ \A m \in AppConns : Party(m)
      /\ UNCHANGED <<agentVars, appVars>>
  BY DEF BInv, VInv, PInv, UpOK, EveryPair, Party, Read, RelayCloses, Expire
<1>2. ASSUME OfItsOwn, \A x \in Conns : up'[x] = up[x] \/
               (up[x] # <<>> /\ up'[x] = Tail(up[x]) /\ Head(up[x]).type \notin Talking)
      PROVE  BInv'
  <2>1. \A m \in AppConns : Party(m)'
    BY <1>1, <1>2, RelayOwnParty
  <2>2. \A m \in AppConns : authed'[m] => role'[m] = "mobile" /\ pending'[m] = None
    BY <1>1, <1>2 DEF OfItsOwn, Admissions
  <2>3. OwnTalk' /\ Admissions'
    BY <1>1, <1>2, <2>2, RelayKeepsOwn DEF OfItsOwn
  <2> QED BY <2>1, <2>3 DEF BInv, EveryPair, Party
<1>3. CASE RelayCloses(c)
  BY <1>1, <1>2, <1>3, ClosesOfItsOwn DEF RelayCloses
<1>4. CASE c \in AppConns /\ Expire(c)
  BY <1>1, <1>2, <1>4, ExpiresOfItsOwn DEF Expire
<1>5. CASE Read(c)
  <2> DEFINE msg == Head(up[c])
  <2>1. up[c] # <<>> /\ up' = [up EXCEPT ![c] = Tail(@)] /\ msg \in Sendable
    BY <1>1, <1>5 DEF Read
  <2>2. CASE msg.type = "close"
    <3>1. SocketEnded(c) /\ msg.type \notin Talking
      BY <1>5, <2>2 DEF Read, Talking, E2EData
    <3> QED BY <1>1, <1>2, <2>1, <3>1, EndsOfItsOwn
  <2>3. CASE msg.type # "close"
    <3>1. Handle(c, msg)
      BY <1>5, <2>3 DEF Read
    <3>2. msg \in ClientFrames
      BY <2>1, <2>3, <3>1, ClientFramesAre, AsksUnhandled
    <3> HIDE DEF msg
    <3>3. msg = Head(up[c])
      BY DEF msg
    <3>4. \A m \in AppConns : Party(m)'
      BY <1>1, <2>1, <3>1, <3>2, <3>3, OtherFrameParty, OwnFrameParty
    <3>5. \A m \in AppConns : authed'[m] => role'[m] = "mobile" /\ pending'[m] = None
      BY <1>1, <2>1, <3>1, <3>2, <3>3, HandleAdmissions
    <3>6. Passes(c, msg) /\ KeepsAdmitted
      BY <1>1, <3>1, <3>2, HandlePasses, HandleKeepsAdmitted
    <3>7. \A x \in Conns : up'[x] = up[x] \/ (up[x] # <<>> /\ up'[x] = Tail(up[x]))
      BY <1>1, <2>1
    <3>8. OwnTalk' /\ Admissions'
      BY <1>1, <3>5, <3>6, <3>7, RelayKeepsOwn
    <3> QED BY <3>4, <3>8 DEF BInv, EveryPair, Party
  <2> QED BY <2>2, <2>3
<1> QED BY <1>3, <1>4, <1>5

-----------------------------------------------------------------------------
(* The Agent's steps.                                                      *)

\* The Agents write frames of U, and the Apps nothing.
AgentWrites(U) ==
  /\ \A m \in AppConns : up'[m] = up[m]
  /\ \A a \in AgentConns : Adds(up[a], up'[a], U)

LEMMA SendWrites ==
  ASSUME UpOK, NEW a \in AgentConns, NEW U, NEW frames \in Seq(U),
         up' = [up EXCEPT ![a] = @ \o frames]
  PROVE  AgentWrites(U)
<1>1. \A c \in Conns : up[c] \in Seq(Sendable) /\ up'[c] = IF c = a THEN up[c] \o frames ELSE up[c]
  BY DEF UpOK
<1>2. Adds(up[a], up'[a], U)
  BY <1>1 DEF Adds, Conns
<1> QED BY <1>1, <1>2, AddsFew, WireAssumption DEF AgentWrites, Conns

LEMMA RestWrites ==
  ASSUME UpOK, UNCHANGED up, NEW U
  PROVE  AgentWrites(U)
BY AddsFew DEF AgentWrites, UpOK, Conns

LEMMA MoreWrites ==
  ASSUME NEW S, NEW U, S \subseteq U, AgentWrites(S)
  PROVE  AgentWrites(U)
BY AddsMore DEF AgentWrites

LEMMA AgentRestParty ==
  ASSUME VInv, Admissions, NEW m \in AppConns, Party(m), UNCHANGED <<relayVars, appVars>>,
         AgentWrites(OthersThan(m)), \A c \in Conns : Idles(down[c], down'[c], m),
         e2e'[m] \in {e2e[m], "none"} \/ (e2e[m] # "none" /\ e2e'[m] = "ready"),
         e2e'[m] # "none" => cur'[DeviceOf[m]] = cur[DeviceOf[m]]
  PROVE  Party(m)'
<1>1. RelayQuiet(m) /\ authed' = authed
  BY RestQuiet DEF relayVars
<1>2. Calm(m)
  BY DEF Calm, appVars
<1>3. \A c \in Conns : Idles(up[c], up'[c], m)
  BY DEF AgentWrites, Idles, Conns
<1> QED BY <1>1, <1>2, <1>3, IdleParty

\* A step of an Agent's leaves to the Apps what they write, and to the relay
\* whom it admits.
LEMMA AgentKeepsOwn ==
  ASSUME VInv, Admissions, OwnTalk, UNCHANGED <<relayVars, appVars>>,
         \A m \in AppConns : up'[m] = up[m],
         \A c \in Conns : down'[c] = down[c] \/ (down[c] # <<>> /\ down'[c] = Tail(down[c])),
         \A d \in Devices : agentId'[d] \in {agentId[d], None} \/ Admitted(agentId'[d])
  PROVE  OwnTalk' /\ Admissions'
<1>1. QueuesTyped
  BY BQueues DEF VInv
<1>2. ASSUME NEW c \in Conns, NEW i \in DOMAIN down'[c]
      PROVE  \E j \in DOMAIN down[c] : down[c][j] = down'[c][i]
  <2>1. CASE down'[c] = down[c]
    BY <1>2, <2>1
  <2>2. CASE down[c] # <<>> /\ down'[c] = Tail(down[c])
    BY <1>1, <1>2, <2>2, Taken DEF QueuesTyped
  <2> QED BY <2>1, <2>2
<1>3. \A c \in Conns : \A i \in DOMAIN down'[c] : \E j \in DOMAIN down[c] : down[c][j] = down'[c][i]
  BY <1>2
<1>4. OwnTalk'
  BY <1>3 DEF OwnTalk, Conns
<1>5. authState' = authState /\ authed' = authed /\ role' = role /\ pending' = pending
  BY DEF relayVars
<1>6. \A d \in Devices : agentId'[d] # None => Admitted(agentId'[d])
  BY DEF Admissions
<1>7. Admissions'
  BY <1>3, <1>5, <1>6 DEF Admissions, Admitted, Conns
<1> QED BY <1>4, <1>7

\* What is not said under E2E.
Untold == {f \in Messages : f.type \notin Talking}

LEMMA UntoldFrames ==
  /\ \A m : Untold \subseteq OthersThan(m)
  /\ Close \in Untold /\ Plain("agent.auth.init") \in Untold /\ Plain("agent.hello") \in Untold
  /\ \A n \in AppConns : /\ Frame("auth.failed", n, None, None) \in Untold
                         /\ Frame("auth.pending", n, None, None) \in Untold
                         /\ \A a \in AgentConns : Frame("auth.ok", n, a, n) \in Untold
BY DEF Untold, OthersThan, About, Talking, E2EData, Messages, Types, Close, Plain, Frame

\* What the Agent does of App m's session when it is not about that.
LeavesSession(m) ==
  /\ e2e'[m] \in {e2e[m], "none"}
  /\ e2e'[m] # "none" => cur'[DeviceOf[m]] = cur[DeviceOf[m]]

LEMMA AuthorizeLeaves ==
  ASSUME UpOK, AgentIInv, NEW d \in Devices, cur[d] \in AgentConns, agentId[d] \in AgentConns,
         NEW n \in AppConns, Authorize(d, n), NEW m \in AppConns
  PROVE  AgentWrites(Untold) /\ LeavesSession(m) /\ agentId' = agentId
<1>1. <<Frame("auth.ok", n, agentId[d], n)>> \in Seq(Untold)
  BY UntoldFrames
<1>2. AgentWrites(Untold)
  BY <1>1, SendWrites DEF Authorize, Send
<1> QED BY <1>2 DEF Authorize, LeavesSession

LEMMA FailureLeaves ==
  ASSUME UpOK, NEW d \in Devices, cur[d] \in AgentConns, NEW n \in AppConns, SendAuthFailure(d, n)
  PROVE  AgentWrites(Untold)
<1>1. <<Frame("auth.failed", n, None, None)>> \in Seq(Untold)
  BY UntoldFrames
<1> QED BY <1>1, SendWrites DEF SendAuthFailure, Send

LEMMA LostLeaves ==
  ASSUME AgentIInv, NEW d \in Devices, ConnectionLost(d), NEW m \in AppConns
  PROVE  LeavesSession(m) /\ agentId' = agentId
<1>1. DeviceOf[m] \in Devices
  BY WireAssumption DEF Conns
<1> QED BY <1>1 DEF ConnectionLost, LeavesSession, AgentIInv, AgentTypeOK

LEMMA DisconnectLeaves ==
  ASSUME UpOK, AgentIInv, NEW d \in Devices, NEW x \in Apps, NEW first \in Seq(Untold),
         Disconnect(d, x, first), UNCHANGED cur
  PROVE  AgentWrites(Untold) /\ \A m \in AppConns : LeavesSession(m)
<1> DEFINE gone == KnownAs(d, x)
<1>1. gone \subseteq AppConns /\ gone \subseteq {n \in AppConns : known[n]}
  BY DEF KnownAs
<1>2. Cardinality(gone) \in Nat
  BY <1>1, FS_Subset, FS_CardinalityType DEF AgentIInv
<1>3. ASSUME NEW order \in [1 .. Cardinality(gone) -> gone]
      PROVE  first \o [i \in DOMAIN order |-> Frame("auth.failed", order[i], None, None)]
               \in Seq(Untold)
  <2> DEFINE f == [i \in DOMAIN order |-> Frame("auth.failed", order[i], None, None)]
             n == Cardinality(gone)
  <2>1. \A g \in gone : Frame("auth.failed", g, None, None) \in Untold
    BY <1>1, UntoldFrames
  <2> HIDE DEF gone
  <2>2. f \in [1 .. n -> Untold]
    BY <2>1
  <2> HIDE DEF n, f
  <2>3. f \in Seq(Untold)
    BY <1>2, <2>2, SeqDef DEF n
  <2>4. first \o f \in Seq(Untold)
    BY <2>3
  <2> QED BY <2>4 DEF f
<1>4. \A m \in AppConns : LeavesSession(m)
  BY DEF Disconnect, Detach, LeavesSession
<1>5. CASE cur[d] = None
  BY <1>4, <1>5, RestWrites DEF Disconnect
<1>6. CASE cur[d] # None
  <2>1. cur[d] \in AgentConns
    BY <1>6 DEF AgentIInv, AgentTypeOK
  <2> QED BY <1>3, <1>4, <1>6, <2>1, SendWrites DEF Disconnect, Send
<1> QED BY <1>5, <1>6

\* A frame about another App, or about pairing.
LEMMA AgentHandleLeaves ==
  ASSUME VInv, NEW d \in Devices, cur[d] # None, down[cur[d]] # <<>>,
         NEW msg, msg = Head(down[cur[d]]), AgentHandle(d, msg),
         NEW m \in AppConns, ~About(msg, m)
  PROVE  AgentWrites(OthersThan(m)) /\ LeavesSession(m)
<1> USE WireAssumption, AgentAssumption
<1> DEFINE c == cur[d]
<1>1. UpOK /\ AgentIInv /\ c \in AgentConns /\ DeviceOf[c] = d
  BY DEF VInv, PInv, AgentIInv, AgentTypeOK, OwnConnection
<1>2. msg \in FramesFor(c)
  <2>1. down[c] \in Seq(FramesFor(c))
    BY <1>1 DEF VInv, PInv, DownOK, Conns
  <2> QED BY <2>1, TailFrames
<1>3. msg.type \in AboutApps => msg.app \in AppConns /\ msg.ref \in AppConns
  BY <1>1, <1>2 DEF FramesFor
<1>4. AgentWrites(Untold) => AgentWrites(OthersThan(m))
  BY UntoldFrames, MoreWrites
<1> HIDE DEF c
<1>5. CASE UNCHANGED <<agentVars, up>>
  BY <1>1, <1>5, RestWrites DEF agentVars, LeavesSession
<1>6. CASE RecvChallenge(d)
  <2>1. <<Plain("agent.hello")>> \in Seq(Untold)
    BY UntoldFrames
  <2> QED BY <1>1, <1>4, <1>6, <2>1, SendWrites DEF RecvChallenge, Send, agentVars, LeavesSession, c
<1>7. CASE RecvRelayAuthOk(d, msg)
  BY <1>1, <1>7, RestWrites DEF RecvRelayAuthOk, LeavesSession
<1>8. CASE msg.type = "auth.verify" /\ RecvAuthVerify(d, msg)
  <2> DEFINE n == msg.app
  <2>0. n \in AppConns
    BY <1>3, <1>8 DEF AboutApps
  <2>1. CASE SendAuthFailure(d, n) /\ UNCHANGED agentVars
    BY <1>1, <1>4, <2>0, <2>1, FailureLeaves DEF agentVars, LeavesSession, c
  <2>2. CASE agentId[d] # None /\ Authorize(d, n)
    <3>1. agentId[d] \in AgentConns
      BY <1>1, <2>2 DEF AgentIInv, AgentTypeOK
    <3> QED BY <1>1, <1>4, <2>0, <2>2, <3>1, AuthorizeLeaves DEF c
  <2>3. CASE AskAdministrator(d, n)
    <3>1. <<Frame("auth.pending", n, None, None)>> \in Seq(Untold)
      BY <2>0, UntoldFrames
    <3> QED BY <1>1, <1>4, <2>3, <3>1, SendWrites DEF AskAdministrator, Send, LeavesSession, c
  <2> QED BY <1>8, <2>1, <2>2, <2>3 DEF RecvAuthVerify
<1>9. ASSUME NEW n \in AppConns, n # m, NEW f \in Messages, f.app = n,
             NEW g \in Messages, g.app = n
      PROVE  <<f>> \in Seq(OthersThan(m)) /\ <<f, g>> \in Seq(OthersThan(m))
  <2>1. f \in OthersThan(m) /\ g \in OthersThan(m)
    BY <1>9 DEF OthersThan, About
  <2> QED BY <2>1
<1>10. CASE msg.type = "e2e.handshake.init" /\ RecvHandshakeInit(d, msg)
  <2> DEFINE n == msg.app
  <2>0. n \in AppConns /\ msg.ref \in AppConns /\ n # m
    BY <1>3, <1>10 DEF AboutApps, About, Talking
  <2>1. CASE ~UNCHANGED <<agentVars, up>>
    <3>1. agentId[d] \in AgentConns
      BY <1>1, <1>10, <2>1 DEF RecvHandshakeInit, Answerable, AgentIInv, AgentTypeOK
    <3> DEFINE r == Frame("e2e.handshake.reply", n, agentId[d], msg.ref)
               y == Frame("e2e.ready", n, agentId[d], msg.ref)
               f == Frame("e2e.failed", n, None, None)
    <3>2. r \in Messages /\ r.app = n /\ y \in Messages /\ y.app = n /\ f \in Messages /\ f.app = n
      BY <2>0, <3>1 DEF Frame, Messages, Types, E2EData
    <3>3. \/ e2e' = [e2e EXCEPT ![n] = "handshaking"] /\ Send(d, <<r, y>>)
          \/ e2e' = [e2e EXCEPT ![n] = "none"] /\ Send(d, <<f>>)
      BY <1>10, <2>1 DEF RecvHandshakeInit
    <3>4. cur' = cur
      BY <1>10 DEF RecvHandshakeInit, agentVars
    <3> HIDE DEF r, y, f, n
    <3>5. <<r, y>> \in Seq(OthersThan(m)) /\ <<f>> \in Seq(OthersThan(m))
      BY <1>9, <2>0, <3>2
    <3>6. e2e'[m] = e2e[m]
      BY <1>1, <2>0, <3>3 DEF AgentIInv, AgentTypeOK
    <3> QED BY <1>1, <3>3, <3>4, <3>5, <3>6, SendWrites DEF Send, LeavesSession, c
  <2> QED BY <1>5, <2>1
<1>11. ASSUME msg.app \in AppConns, msg.app # m, FailE2ESession(d, msg.app)
       PROVE  AgentWrites(OthersThan(m)) /\ LeavesSession(m)
  <2> DEFINE n == msg.app
             f == Frame("e2e.failed", n, None, None)
  <2>1. f \in Messages /\ f.app = n
    BY <1>11 DEF Frame, Messages, Types, E2EData
  <2>2. Send(d, <<f>>) /\ cur' = cur /\ e2e'[m] = e2e[m]
    BY <1>11 DEF FailE2ESession, Detach
  <2> HIDE DEF f, n
  <2>3. <<f>> \in Seq(OthersThan(m))
    BY <1>9, <1>11, <2>1 DEF n
  <2> QED BY <1>1, <2>2, <2>3, SendWrites DEF Send, LeavesSession, c
<1>12. CASE msg.type = "e2e.ready" /\ RecvE2EReady(d, msg)
  <2>0. msg.app \in AppConns /\ msg.app # m
    BY <1>3, <1>12 DEF AboutApps, About, Talking
  <2>1. CASE e2e' = [e2e EXCEPT ![msg.app] = "ready"] /\ UNCHANGED <<cur, up>>
    <3>1. e2e'[m] = e2e[m]
      BY <1>1, <2>0, <2>1 DEF AgentIInv, AgentTypeOK
    <3> QED BY <1>1, <2>1, <3>1, RestWrites DEF LeavesSession
  <2> QED BY <1>5, <1>11, <1>12, <2>0, <2>1 DEF RecvE2EReady
<1>13. CASE msg.type \in E2EData /\ RecvE2EMessage(d, msg)
  <2>0. msg.app \in AppConns /\ msg.app # m
    BY <1>3, <1>13 DEF AboutApps, About, Talking
  <2>1. CASE UNCHANGED <<cur, e2e, up>>
    BY <1>1, <2>1, RestWrites DEF LeavesSession
  <2> QED BY <1>5, <1>11, <1>13, <2>0, <2>1 DEF RecvE2EMessage
<1>14. CASE ConnectionLost(d) /\ UNCHANGED up
  BY <1>1, <1>14, LostLeaves, RestWrites
<1> QED
  BY <1>5, <1>6, <1>7, <1>8, <1>10, <1>12, <1>13, <1>14 DEF AgentHandle, E2EData

\* Who the Agent takes itself for.
LEMMA AgentHandleAdmitted ==
  ASSUME VInv, Admissions, NEW d \in Devices, cur[d] # None, down[cur[d]] # <<>>,
         NEW msg, msg = Head(down[cur[d]]), AgentHandle(d, msg)
  PROVE  /\ \A e \in Devices : agentId'[e] \in {agentId[e], None} \/ Admitted(agentId'[e])
         /\ \A m \in AppConns : up'[m] = up[m]
<1> DEFINE c == cur[d]
<1>1. /\ c \in AgentConns /\ c \in Conns /\ down[c] \in Seq(FramesFor(c))
      /\ up \in [Conns -> Seq(Sendable)] /\ agentId \in [Devices -> AgentConns \cup {None}]
  BY DEF VInv, PInv, DownOK, AgentIInv, AgentTypeOK, Conns, UpOK
<1>2. msg \in FramesFor(c) /\ 1 \in DOMAIN down[c] /\ msg = down[c][1]
  BY <1>1, TailFrames
<1>3. ASSUME NEW frames, Send(d, frames) PROVE \A m \in AppConns : up'[m] = up[m]
  BY <1>1, <1>3, WireAssumption DEF Send, Conns
<1>4. CASE msg.type = "auth.ok" /\ RecvRelayAuthOk(d, msg)
  <2>1. Admitted(c) /\ msg.agent = c
    BY <1>1, <1>2, <1>4 DEF Admissions, FramesFor
  <2>2. agentId' = [agentId EXCEPT ![d] = c] /\ up' = up
    BY <1>4, <2>1 DEF RecvRelayAuthOk
  <2> HIDE DEF c
  <2>3. \A e \in Devices : agentId'[e] = agentId[e] \/ agentId'[e] = c
    BY <1>1, <2>2
  <2> QED BY <2>1, <2>2, <2>3
<1>5. CASE ~(msg.type = "auth.ok" /\ RecvRelayAuthOk(d, msg))
  <2>1. agentId' = agentId /\ (up' = up \/ \E frames : Send(d, frames))
    BY <1>5 DEF AgentHandle, E2EData, RecvChallenge, RecvAuthVerify, SendAuthFailure, Authorize,
       AskAdministrator, RecvHandshakeInit, RecvE2EReady, RecvE2EMessage, FailE2ESession,
       ConnectionLost, agentVars
  <2> QED BY <1>3, <2>1
<1> QED BY <1>4, <1>5

\* A queue that has lost its first frame.
LEMMA TakenIdles ==
  ASSUME QueuesTyped, NEW a \in Conns, down[a] # <<>>, NEW msg, msg = Head(down[a]),
         down \in [Conns -> Seq(Messages)], down' = [down EXCEPT ![a] = Tail(@)],
         NEW m
  PROVE  /\ \A c \in Conns : down'[c] = down[c] \/ (down[c] # <<>> /\ down'[c] = Tail(down[c]))
         /\ \A c \in Conns : c # a => down'[c] = down[c]
         /\ down'[a] = Tail(down[a])
         /\ ~(msg.type = "e2e.ready" /\ msg.app = m) =>
              \A c \in Conns : Idles(down[c], down'[c], m)
BY DEF Idles

\* The Agent opens the other end of App m's handshake, or refuses it.
LEMMA AgentOpens ==
  ASSUME VInv, Admissions, NEW d \in Devices, cur[d] # None, down[cur[d]] # <<>>,
         NEW msg, msg = Head(down[cur[d]]), AgentHandle(d, msg),
         down' = [down EXCEPT ![cur[d]] = Tail(@)], UNCHANGED <<relayVars, appVars>>,
         NEW m \in AppConns, NEW b \in AgentConns, Paired(m, b),
         msg = Opening(m, b), Answerable(d, msg)
  PROVE  Paired(m, b)'
<1> USE WireAssumption
<1>1. /\ QueuesTyped /\ UpOK /\ AgentIInv /\ m \in Conns /\ b \in Conns /\ m # b
      /\ down \in [Conns -> Seq(Messages)] /\ up \in [Conns -> Seq(Sendable)]
  BY BQueues DEF VInv, PInv, DownOK, UpOK, Conns
<1>2. msg.type = "e2e.handshake.init" /\ msg.app = m /\ msg.agent = b /\ msg.ref = m
  BY DEF Opening, Frame
<1>3. RecvHandshakeInit(d, msg)
  BY <1>2 DEF AgentHandle, E2EData
<1>4. agentId[d] = b /\ cur[d] = b /\ DeviceOf[m] = d
  <2>1. d \in Devices /\ agentId[d] # None /\ agentId[d] = b
    BY <1>2 DEF Answerable
  <2>2. cur[d] = b /\ DeviceOf[cur[d]] = d
    BY <1>1, <2>1 DEF AgentIInv, OwnConnection
  <2> QED BY <2>1, <2>2 DEF Paired, Parties
<1>5. /\ \/ /\ e2e' = [e2e EXCEPT ![m] = "handshaking"]
            /\ up' = [up EXCEPT ![b] = @ \o <<Answer(m, b), ReadyOf(m, b)>>]
         \/ /\ e2e' = [e2e EXCEPT ![m] = "none"]
            /\ up' = [up EXCEPT ![b] = @ \o <<FailureOf(m)>>]
      /\ cur' = cur
  BY <1>2, <1>3, <1>4 DEF RecvHandshakeInit, Send, Answer, ReadyOf, FailureOf
<1>6. /\ down'[m] = down[m] /\ down'[b] = Tail(down[b]) /\ up'[m] = up[m]
      /\ Head(down[b]) = Opening(m, b) /\ down[b] # <<>>
  BY <1>1, <1>4, <1>5
<1>7. Loses(down[b], down'[b], Opening(m, b), m, b)
  <2>1. Loses(down[b], Tail(down[b]), Head(down[b]), m, b)
    BY <1>1, <1>6, OneLost DEF QueuesTyped
  <2> QED BY <1>6, <2>1
<1>8. RelayKept(m, b) /\ phase'[m] = phase[m]
  BY DEF RelayKept, RelayStays, relayVars, appVars
<1>9. Talked(m, b) /\ Parties(m, b) /\ Talks(m, b)
  BY DEF Paired
<1>10. Answer(m, b) \in Messages /\ ReadyOf(m, b) \in Messages /\ FailureOf(m) \in Messages
  BY DEF Answer, ReadyOf, FailureOf, Frame, Messages, Types, E2EData
<1>11. ASSUME e2e' = [e2e EXCEPT ![m] = "handshaking"],
              up' = [up EXCEPT ![b] = @ \o <<Answer(m, b), ReadyOf(m, b)>>]
       PROVE  Talked(m, b)' /\ Adds(up[b], up'[b], AgentTalk(m, b)) /\ e2e'[m] = "handshaking"
  <2> DEFINE q == up[b] \o <<Answer(m, b)>>
  <2>1. e2e'[m] = "handshaking"
    BY <1>1, <1>11 DEF AgentIInv, AgentTypeOK
  <2>2. up'[b] = up[b] \o <<Answer(m, b), ReadyOf(m, b)>>
    BY <1>1, <1>11
  <2>3. q \in Seq(Messages) /\ up'[b] = q \o <<ReadyOf(m, b)>>
    <3>1. ASSUME NEW r \in Seq(Messages), NEW f \in Messages, NEW g \in Messages
          PROVE  r \o <<f>> \in Seq(Messages) /\ r \o <<f, g>> = (r \o <<f>>) \o <<g>>
      BY WrittenTwice
    <3>2. up[b] \in Seq(Messages)
      BY <1>1 DEF QueuesTyped
    <3> QED BY <1>10, <2>2, <3>1, <3>2
  <2>4. Gains(up[b], q, Answer(m, b), m, b)
    BY <1>1, <1>10, OneGained DEF QueuesTyped
  <2> HIDE DEF q
  <2>5. Gains(q, up'[b], ReadyOf(m, b), m, b)
    BY <1>10, <2>3, OneGained
  <2>6. Talked(m, b)'
    BY <1>6, <1>7, <1>8, <1>9, <2>1, <2>4, <2>5, AgentAnswers
  <2>7. <<Answer(m, b), ReadyOf(m, b)>> \in Seq(AgentTalk(m, b))
    BY DEF AgentTalk
  <2> QED BY <2>1, <2>2, <2>6, <2>7 DEF Adds
<1>12. ASSUME e2e' = [e2e EXCEPT ![m] = "none"],
              up' = [up EXCEPT ![b] = @ \o <<FailureOf(m)>>]
       PROVE  Talked(m, b)' /\ Adds(up[b], up'[b], AgentTalk(m, b)) /\ e2e'[m] = "none"
  <2>1. e2e'[m] = "none"
    BY <1>1, <1>12 DEF AgentIInv, AgentTypeOK
  <2>2. up'[b] = up[b] \o <<FailureOf(m)>>
    BY <1>1, <1>12
  <2>3. Gains(up[b], up'[b], FailureOf(m), m, b)
    BY <1>1, <1>10, <2>2, OneGained DEF QueuesTyped
  <2>4. Talked(m, b)'
    BY <1>6, <1>7, <1>8, <1>9, <2>1, <2>3, AgentRefuses
  <2>5. <<FailureOf(m)>> \in Seq(AgentTalk(m, b))
    BY DEF AgentTalk
  <2> QED BY <2>1, <2>2, <2>4, <2>5 DEF Adds
<1>13. Talked(m, b)' /\ Adds(up[b], up'[b], AgentTalk(m, b))
  BY <1>5, <1>11, <1>12
<1>14. Parties(m, b)'
  BY <1>4, <1>5, <1>9 DEF Parties, relayVars, appVars
<1>15. Talks(m, b)'
  <2>1. Only(up[b], m, Said(m, b, b)) /\ Said(m, b, b) = AgentTalk(m, b)
    BY <1>1, <1>9 DEF Talks, Said
  <2>2. AgentTalk(m, b) \subseteq Messages
    BY <1>10 DEF AgentTalk, DataOf, Frame, Messages, Types, E2EData
  <2>3. Only(up'[b], m, Said(m, b, b))
    BY <1>1, <1>13, <2>1, <2>2, OnlyAdds DEF QueuesTyped
  <2>4. \A c \in Conns : c # b => up'[c] = up[c]
    BY <1>1, <1>5
  <2>5. \A c \in Conns : down'[c] = down[c] \/ (down[c] # <<>> /\ down'[c] = Tail(down[c]))
    BY <1>1
  <2>6. \A c \in Conns : Only(down'[c], m, Heard(m, b, c))
    BY <1>1, <1>9, <2>5, OnlyTaken DEF Talks, QueuesTyped
  <2> QED BY <1>9, <2>3, <2>4, <2>6 DEF Talks, Said, Heard
<1> QED BY <1>13, <1>14, <1>15 DEF Paired

\* A frame about App m's session.
LEMMA AgentReadsOwn ==
  ASSUME VInv, Admissions, NEW d \in Devices, cur[d] # None, down[cur[d]] # <<>>,
         NEW msg, msg = Head(down[cur[d]]), AgentHandle(d, msg),
         down' = [down EXCEPT ![cur[d]] = Tail(@)], UNCHANGED <<relayVars, appVars>>,
         NEW m \in AppConns, Party(m), About(msg, m)
  PROVE  Party(m)'
<1> USE WireAssumption
<1> DEFINE a == cur[d]
<1>1. /\ QueuesTyped /\ UpOK /\ AgentIInv /\ a \in AgentConns /\ a \in Conns /\ DeviceOf[a] = d
      /\ a \notin AppConns /\ down \in [Conns -> Seq(Messages)] /\ DeviceOf[m] \in Devices
  BY BQueues DEF VInv, PInv, DownOK, AgentIInv, AgentTypeOK, OwnConnection, Conns
<1>2. \A S : Only(down[a], m, S) => msg \in S
  BY <1>1, OnlyTaken DEF QueuesTyped
<1>3. PICK b \in AgentConns : Paired(m, b)
  BY <1>1, <1>2 DEF Party, Unpaired
<1>4. msg \in AppTalk(m, b)
  <2>1. msg \in Heard(m, b, a) /\ a # m
    BY <1>1, <1>2, <1>3 DEF Paired, Talks
  <2> QED BY <1>1, <2>1 DEF Heard
<1>5. /\ msg.app = m /\ msg.agent = b
      /\ msg.type = "e2e.handshake.init" => msg = Opening(m, b)
      /\ msg.type = "e2e.ready" => msg = ReadyOf(m, b)
      /\ msg.ref = m
      /\ msg.type \in {"e2e.handshake.init", "e2e.ready"} \cup E2EData
  BY <1>4 DEF AppTalk, Opening, ReadyOf, DataOf, Frame, E2EData
<1>6. DeviceOf[m] = d
  <2>1. down[a] \in Seq(FramesFor(a))
    BY <1>1 DEF VInv, PInv, DownOK
  <2>2. msg \in FramesFor(a)
    BY <1>1, <2>1, TailFrames
  <2>3. msg.type \in AboutApps
    BY <1>5 DEF AboutApps
  <2> QED BY <1>1, <1>5, <2>2, <2>3 DEF FramesFor
<1>7. e2e[m] # "none" => agentId[d] = b /\ OwnSession(d, msg)
  BY <1>3, <1>5, <1>6, SessionAdmitted DEF Paired, OwnSession
<1>8. msg.type # "e2e.ready" => \A c \in Conns : Idles(down[c], down'[c], m)
  BY <1>1, TakenIdles
<1> HIDE DEF a
<1>9. CASE UNCHANGED <<e2e, cur, up>> /\ msg.type # "e2e.ready"
  <2>1. AgentWrites(OthersThan(m))
    BY <1>1, <1>9, RestWrites
  <2> QED BY <1>8, <1>9, <2>1, AgentRestParty
<1>10. CASE msg.type = "e2e.handshake.init"
  <2>1. CASE Answerable(d, msg)
    BY <1>3, <1>5, <1>10, <2>1, AgentOpens DEF Party
  <2>2. CASE ~Answerable(d, msg)
    <3>1. RecvHandshakeInit(d, msg)
      BY <1>10 DEF AgentHandle, E2EData
    <3> QED BY <1>9, <1>10, <2>2, <3>1 DEF RecvHandshakeInit, agentVars
  <2> QED BY <2>1, <2>2
<1>11. CASE msg.type \in E2EData
  <2>1. RecvE2EMessage(d, msg)
    BY <1>11 DEF AgentHandle, E2EData
  <2>2. e2e[msg.app] = "ready" => OwnSession(d, msg)
    BY <1>5, <1>7
  <2>3. UNCHANGED <<e2e, cur, up>>
    BY <2>1, <2>2 DEF RecvE2EMessage, agentVars
  <2> QED BY <1>9, <1>11, <2>3 DEF E2EData
<1>12. CASE msg.type = "e2e.ready"
  <2>1. RecvE2EReady(d, msg)
    BY <1>12 DEF AgentHandle, E2EData
  <2>2. /\ UNCHANGED <<cur, up>>
        /\ (e2e[m] = "none" /\ e2e' = e2e) \/ (e2e[m] # "none" /\ e2e' = [e2e EXCEPT ![m] = "ready"])
    BY <1>5, <1>7, <2>1 DEF RecvE2EReady, agentVars
  <2>3. (e2e[m] = "none" /\ e2e'[m] = "none") \/ (e2e[m] # "none" /\ e2e'[m] = "ready")
    BY <1>1, <2>2 DEF AgentIInv, AgentTypeOK
  <2>4. RelayQuiet(m) /\ authed' = authed
    BY RestQuiet DEF relayVars
  <2>5. Calm(m)
    BY <2>2, <2>3 DEF Calm, appVars
  <2>6. /\ \A c \in Conns : down'[c] = down[c] \/ (down[c] # <<>> /\ down'[c] = Tail(down[c]))
        /\ \A c \in Conns : c # a => down'[c] = down[c]
    BY <1>1, TakenIdles DEF a
  <2>7. Undisturbed(m)
    BY <2>2, <2>4, <2>5, <2>6 DEF Undisturbed, Quietly
  <2>8. Steady(m, b)
    <3>1. up'[m] = up[m] /\ down'[m] = down[m]
      BY <1>1, <2>2, <2>6 DEF Conns
    <3> QED BY <2>3, <3>1, RestShrinks DEF Steady
  <2> QED BY <1>3, <2>7, <2>8, QuietPaired DEF Party
<1> QED BY <1>5, <1>10, <1>11, <1>12

LEMMA AgentReadsB ==
  ASSUME BInv, VInv', NEW d \in Devices, AgentReads(d)
  PROVE  BInv'
<1> DEFINE a == cur[d]
           msg == Head(down[a])
<1>1. /\ VInv /\ Admissions /\ OwnTalk /\ \A m \in AppConns : Party(m)
      /\ a # None /\ down[a] # <<>> /\ AgentHandle(d, msg)
      /\ down' = [down EXCEPT ![a] = Tail(@)] /\ UNCHANGED <<relayVars, appVars>>
  BY DEF BInv, AgentReads, EveryPair, Party
<1>2. /\ QueuesTyped /\ a \in AgentConns /\ a \in Conns /\ down \in [Conns -> Seq(Messages)]
  BY <1>1, BQueues DEF VInv, PInv, DownOK, AgentIInv, AgentTypeOK, Conns
<1> HIDE DEF msg
<1>3. ASSUME NEW m \in AppConns PROVE Party(m)'
  <2>1. CASE About(msg, m)
    BY <1>1, <2>1, AgentReadsOwn DEF msg
  <2>2. CASE ~About(msg, m)
    <3>1. AgentWrites(OthersThan(m)) /\ LeavesSession(m)
      BY <1>1, <2>2, AgentHandleLeaves DEF msg
    <3>2. ~(msg.type = "e2e.ready" /\ msg.app = m)
      BY <2>2 DEF About, Talking
    <3>3. \A c \in Conns : Idles(down[c], down'[c], m)
      BY <1>1, <1>2, <3>2, TakenIdles DEF msg
    <3> QED BY <1>1, <3>1, <3>3, AgentRestParty DEF LeavesSession
  <2> QED BY <2>1, <2>2
<1>4. OwnTalk' /\ Admissions'
  <2>1. /\ \A e \in Devices : agentId'[e] \in {agentId[e], None} \/ Admitted(agentId'[e])
        /\ \A m \in AppConns : up'[m] = up[m]
    BY <1>1, AgentHandleAdmitted DEF msg
  <2>2. \A c \in Conns : down'[c] = down[c] \/ (down[c] # <<>> /\ down'[c] = Tail(down[c]))
    BY <1>1, <1>2
  <2> QED BY <1>1, <2>1, <2>2, AgentKeepsOwn
<1> QED BY <1>3, <1>4 DEF BInv, EveryPair, Party

\* A step of an Agent's that goes no further with any session.
LEMMA AgentRestB ==
  ASSUME BInv, VInv', UNCHANGED <<down, relayVars, appVars>>, AgentWrites(Untold),
         \A m \in AppConns : LeavesSession(m),
         \A d \in Devices : agentId'[d] = agentId[d]
  PROVE  BInv'
<1>1. VInv /\ Admissions /\ OwnTalk /\ \A m \in AppConns : Party(m)
  BY DEF BInv, EveryPair, Party
<1>2. ASSUME NEW m \in AppConns PROVE Party(m)'
  <2>1. AgentWrites(OthersThan(m))
    BY UntoldFrames, MoreWrites
  <2>2. \A c \in Conns : Idles(down[c], down'[c], m)
    BY DEF Idles
  <2> QED BY <1>1, <2>1, <2>2, AgentRestParty DEF LeavesSession
<1>3. OwnTalk' /\ Admissions'
  BY <1>1, AgentKeepsOwn DEF AgentWrites
<1> QED BY <1>2, <1>3 DEF BInv, EveryPair, Party

LEMMA AgentHangsUpB ==
  ASSUME BInv, VInv', NEW d \in Devices, AgentHangsUp(d)
  PROVE  BInv'
<1>1. UpOK /\ AgentIInv /\ cur[d] \in AgentConns
  BY DEF BInv, VInv, PInv, AgentHangsUp, HangUp, AgentIInv, AgentTypeOK
<1>2. AgentWrites(Untold)
  <2>1. <<Close>> \in Seq(Untold)
    BY UntoldFrames
  <2>2. up[cur[d]] \in Seq(Sendable) /\ Close \in Sendable
    BY <1>1 DEF UpOK, Conns, Sendable
  <2>3. up' = [up EXCEPT ![cur[d]] = @ \o <<Close>>]
    <3>1. \A q \in Seq(Sendable) : Append(q, Close) = q \o <<Close>>
      BY <2>2
    <3> QED BY <2>2, <3>1 DEF AgentHangsUp, HangUp
  <2> QED BY <1>1, <2>1, <2>3, SendWrites
<1>3. ConnectionLost(d) /\ UNCHANGED <<down, relayVars, appVars>>
  BY DEF AgentHangsUp, HangUp
<1>4. \A m \in AppConns : LeavesSession(m)
  BY <1>1, <1>3, LostLeaves
<1>5. agentId' = agentId
  BY <1>3 DEF ConnectionLost
<1> QED BY <1>2, <1>3, <1>4, <1>5, AgentRestB

LEMMA AgentDecidesB ==
  ASSUME BInv, VInv', NEW d \in Devices, AgentDecides(d)
  PROVE  BInv'
<1>1. PICK x \in Apps : Approve(d, x) \/ Refuse(d, x) \/ Revoke(d, x) \/ Remove(d, x)
  BY DEF AgentDecides
<1>2. /\ VInv /\ UpOK /\ AgentIInv /\ UNCHANGED <<down, relayVars, appVars>>
  BY DEF BInv, VInv, PInv, AgentDecides
<1>3. pairing[d][x] # None =>
        /\ pairing[d][x] \in AppConns
        /\ cur[d] \in AgentConns /\ agentId[d] \in AgentConns
  BY <1>2, RequestVouches DEF Vouches, AgentIInv, AgentTypeOK
<1> SUFFICES /\ AgentWrites(Untold) /\ agentId' = agentId
             /\ \A m \in AppConns : LeavesSession(m)
  BY <1>2, AgentRestB
<1>4. CASE Approve(d, x)
  <2> DEFINE n == pairing[d][x]
  <2>1. n # None /\ (Authorize(d, n) \/ (SendAuthFailure(d, n) /\ UNCHANGED <<cur, agentId, e2e>>))
    BY <1>4 DEF Approve
  <2> HIDE DEF n
  <2>2. n \in AppConns /\ cur[d] \in AgentConns /\ agentId[d] \in AgentConns
    BY <1>3, <2>1 DEF n
  <2>3. CASE Authorize(d, n)
    <3>1. agentId' = agentId /\ cur' = cur
      BY <2>3 DEF Authorize
    <3>2. \A m \in AppConns : AgentWrites(Untold) /\ LeavesSession(m)
      BY <1>2, <2>2, <2>3, AuthorizeLeaves
    <3>3. AgentWrites(Untold)
      BY <2>2, <3>2
    <3> QED BY <3>1, <3>2, <3>3
  <2>4. CASE SendAuthFailure(d, n) /\ UNCHANGED <<cur, agentId, e2e>>
    <3>1. AgentWrites(Untold)
      BY <1>2, <2>2, <2>4, FailureLeaves
    <3> QED BY <2>4, <3>1 DEF LeavesSession
  <2> QED BY <2>1, <2>3, <2>4
<1>5. CASE Refuse(d, x)
  <2>1. pairing[d][x] # None /\ SendAuthFailure(d, pairing[d][x]) /\ UNCHANGED <<cur, agentId, e2e>>
    BY <1>5 DEF Refuse
  <2>2. AgentWrites(Untold)
    BY <1>2, <1>3, <2>1, FailureLeaves
  <2> QED BY <2>1, <2>2 DEF LeavesSession
<1>7. CASE Revoke(d, x)
  <2>1. <<>> \in Seq(Untold)
    OBVIOUS
  <2>2. Disconnect(d, x, <<>>) /\ UNCHANGED <<cur, agentId>>
    BY <1>7 DEF Revoke
  <2> QED BY <1>2, <2>1, <2>2, DisconnectLeaves
<1>8. CASE Remove(d, x)
  <2> DEFINE n == pairing[d][x]
             first == IF n = None THEN <<>> ELSE <<Frame("auth.failed", n, None, None)>>
  <2>1. Disconnect(d, x, first) /\ UNCHANGED <<cur, agentId>>
    BY <1>8 DEF Remove
  <2>2. n # None => Frame("auth.failed", n, None, None) \in Untold
    BY <1>3, UntoldFrames
  <2>3. first \in Seq(Untold)
    BY <2>2
  <2> HIDE DEF first
  <2> QED BY <1>2, <2>1, <2>3, DisconnectLeaves
<1> QED BY <1>1, <1>4, <1>5, <1>7, <1>8

\* The Agent sends App m a business message.
LEMMA AgentSpeaksTo ==
  ASSUME VInv, Admissions, NEW m \in AppConns, Party(m),
         SendBusiness(DeviceOf[m], m), UNCHANGED <<down, relayVars, appVars>>
  PROVE  Party(m)'
<1> USE WireAssumption
<1> DEFINE d == DeviceOf[m]
<1>1. /\ QueuesTyped /\ UpOK /\ m \in Conns /\ up \in [Conns -> Seq(Sendable)]
      /\ e2e[m] = "ready" /\ UNCHANGED <<cur, e2e>>
      /\ up' = [up EXCEPT ![cur[d]] = @ \o <<Frame("e2e.message", m, agentId[d], m)>>]
  BY BQueues DEF VInv, PInv, UpOK, Conns, SendBusiness, CanSendTo, Send
<1>2. PICK b \in AgentConns : Paired(m, b)
  BY <1>1 DEF Party, Unpaired
<1>3. b \in Conns /\ b # m
  BY DEF Conns
<1>4. cur[d] = b /\ agentId[d] = b
  BY <1>1, <1>2, SessionAdmitted DEF Paired
<1> DEFINE f == Frame("e2e.message", m, b, m)
<1>5. f \in DataOf(m, b) /\ f \in Messages /\ f \in AgentTalk(m, b)
  BY DEF DataOf, AgentTalk, E2EData, Frame, Messages, Types
<1>6. up' = [up EXCEPT ![b] = @ \o <<f>>]
  BY <1>1, <1>4
<1> HIDE DEF f
<1>7. up'[b] = up[b] \o <<f>> /\ \A c \in Conns : c # b => up'[c] = up[c]
  BY <1>1, <1>3, <1>6
<1>8. Gains(up[b], up'[b], f, m, b)
  <2>1. up[b] \in Seq(Messages)
    BY <1>1, <1>3 DEF QueuesTyped
  <2>2. Gains(up[b], up[b] \o <<f>>, f, m, b)
    BY <1>5, <2>1, OneGained
  <2> QED BY <1>7, <2>2
<1>9. RelayKept(m, b) /\ phase'[m] = phase[m] /\ e2e'[m] = e2e[m]
  BY <1>1 DEF RelayKept, RelayStays, relayVars, appVars
<1>10. Talked(m, b)'
  BY <1>1, <1>2, <1>3, <1>5, <1>7, <1>8, <1>9, AgentSpeaks DEF Paired
<1>11. Parties(m, b)'
  BY <1>1, <1>2 DEF Paired, Parties, relayVars, appVars
<1>12. Talks(m, b)'
  <2>1. Adds(up[b], up'[b], {f})
    <3>1. <<f>> \in Seq({f})
      OBVIOUS
    <3> QED BY <1>7, <3>1 DEF Adds
  <2>2. Only(up[b], m, Said(m, b, b)) /\ Said(m, b, b) = AgentTalk(m, b)
    BY <1>2, <1>3 DEF Paired, Talks, Said
  <2>3. Only(up'[b], m, Said(m, b, b))
    <3>1. up[b] \in Seq(Messages) /\ {f} \subseteq Messages
      BY <1>1, <1>3, <1>5 DEF QueuesTyped
    <3>2. \A g \in {f} : About(g, m) => g \in Said(m, b, b)
      BY <1>5, <2>2
    <3> QED BY <2>1, <2>2, <3>1, <3>2, OnlyAdds
  <2> QED BY <1>2, <1>7, <2>3 DEF Paired, Talks, Said, Heard
<1> QED BY <1>10, <1>11, <1>12 DEF Paired, Party

LEMMA AgentSendsB ==
  ASSUME BInv, VInv', NEW d \in Devices, AgentSends(d)
  PROVE  BInv'
<1>1. PICK n \in AppConns : DeviceOf[n] = d /\ SendBusiness(d, n)
  BY DEF AgentSends
<1>2. /\ VInv /\ Admissions /\ OwnTalk /\ (\A m \in AppConns : Party(m))
      /\ UpOK /\ AgentIInv /\ UNCHANGED <<down, relayVars, appVars, cur, e2e, agentId>>
      /\ cur[d] \in AgentConns /\ e2e[n] = "ready"
  BY <1>1 DEF BInv, EveryPair, Party, VInv, PInv, AgentSends, SendBusiness, CanSendTo, AgentIInv, AgentTypeOK
<1>3. agentId[d] \in AgentConns
  BY <1>1, <1>2 DEF AgentIInv, AgentTypeOK, SessionsListed
<1> DEFINE f == Frame("e2e.message", n, agentId[d], n)
<1>4. f \in Messages /\ f.app = n
  BY <1>3 DEF Frame, Messages, Types, E2EData
<1>5. up' = [up EXCEPT ![cur[d]] = @ \o <<f>>]
  BY <1>1 DEF SendBusiness, Send
<1> HIDE DEF f
<1>6. ASSUME NEW m \in AppConns, m # n PROVE Party(m)'
  <2>1. <<f>> \in Seq(OthersThan(m))
    <3>1. f \in OthersThan(m)
      BY <1>4, <1>6 DEF OthersThan, About
    <3> QED BY <3>1
  <2>2. AgentWrites(OthersThan(m))
    BY <1>2, <1>5, <2>1, SendWrites
  <2>3. \A c \in Conns : Idles(down[c], down'[c], m)
    BY <1>2 DEF Idles
  <2> QED BY <1>2, <2>2, <2>3, AgentRestParty
<1>7. Party(n)'
  BY <1>1, <1>2, AgentSpeaksTo
<1>8. OwnTalk' /\ Admissions'
  <2>1. \A m \in AppConns : up'[m] = up[m]
    BY <1>2, <1>5, WireAssumption DEF UpOK, Conns
  <2> QED BY <1>2, <2>1, AgentKeepsOwn
<1> QED BY <1>6, <1>7, <1>8 DEF BInv, EveryPair, Party

LEMMA AgentConnectsB ==
  ASSUME BInv, VInv', NEW d \in Devices, AgentConnects(d)
  PROVE  BInv'
<1> USE WireAssumption
<1>1. PICK a \in AgentConns : /\ DeviceOf[a] = d /\ Connect(d, a) /\ Accept(a)
                              /\ UNCHANGED appVars
  BY DEF AgentConnects
<1>2. /\ VInv /\ Admissions /\ OwnTalk /\ (\A m \in AppConns : Party(m))
      /\ UpOK /\ AgentIInv /\ IInv /\ a \in Conns
  BY DEF BInv, EveryPair, Party, VInv, PInv, Conns
<1>3. /\ cur[d] = None /\ cur' = [cur EXCEPT ![d] = a]
      /\ agentId' = [agentId EXCEPT ![d] = None] /\ e2e' = e2e
      /\ up' = [up EXCEPT ![a] = Append(@, Plain("agent.auth.init"))]
  BY <1>1 DEF Connect
<1>4. /\ sock[a] = "unused" /\ sock' = [sock EXCEPT ![a] = "open"]
      /\ UNCHANGED <<state, authVars, topoVars, pending, e2eVars, down>>
  BY <1>1 DEF Accept
<1>5. AgentWrites(Untold)
  <2>1. Plain("agent.auth.init") \in Untold
    BY UntoldFrames
  <2>2. up[a] \in Seq(Sendable) /\ Plain("agent.auth.init") \in Sendable
    BY <1>2 DEF UpOK, Sendable, ClientFrames, Plain, Frame
  <2> DEFINE f == Plain("agent.auth.init")
  <2>3. <<f>> \in Seq(Untold)
    BY <2>1
  <2> HIDE DEF f
  <2>4. Append(up[a], f) = up[a] \o <<f>>
    BY <2>2 DEF f
  <2>5. up' = [up EXCEPT ![a] = @ \o <<f>>]
    BY <1>3, <2>4 DEF f
  <2> QED BY <1>2, <2>3, <2>5, SendWrites
<1>6. \A e \in Devices : primary[e] # a
  BY <1>2, <1>4 DEF IInv, Fresh, AgentIndex
<1>7. ASSUME NEW m \in AppConns PROVE RelayQuiet(m)
  <2>1. m \in Conns /\ m # a /\ DeviceOf[m] \in Devices
    BY DEF Conns
  <2>2. \A c \in Conns : c # a => sock'[c] = sock[c]
    BY <1>2, <1>4 DEF IInv, RelayTypeOK
  <2>3. primary' = primary
    BY <1>4 DEF topoVars
  <2> QED BY <1>4, <1>6, <2>1, <2>2, <2>3 DEF RelayQuiet, e2eVars, Conns
<1>8. ASSUME NEW m \in AppConns PROVE Party(m)'
  <2>1. DeviceOf[m] \in Devices
    BY DEF Conns
  <2>2. e2e[m] # "none" => DeviceOf[m] # d
    BY <1>2, <1>3, <2>1 DEF AgentIInv, SessionsListed
  <2>3. Calm(m)
    BY <1>1, <1>2, <1>3, <2>1, <2>2 DEF Calm, appVars, AgentIInv, AgentTypeOK
  <2>4. AgentWrites(OthersThan(m))
    BY <1>5, UntoldFrames, MoreWrites
  <2>5. \A c \in Conns : Idles(up[c], up'[c], m) /\ Idles(down[c], down'[c], m)
    BY <1>4, <2>4 DEF Idles, AgentWrites, Conns
  <2>6. authed' = authed
    BY <1>4 DEF authVars
  <2> QED BY <1>2, <1>7, <2>3, <2>5, <2>6, IdleParty
<1>9. OwnTalk'
  BY <1>2, <1>4, <1>5 DEF OwnTalk, AgentWrites
<1>10. Admissions'
  <2>1. authState' = authState /\ authed' = authed /\ role' = role /\ pending' = pending /\ down' = down
    BY <1>4 DEF authVars
  <2>2. \A e \in Devices : agentId'[e] \in {agentId[e], None}
    BY <1>2, <1>3 DEF AgentIInv, AgentTypeOK
  <2> QED BY <1>2, <2>1, <2>2 DEF Admissions, Admitted
<1> QED BY <1>8, <1>9, <1>10 DEF BInv, EveryPair, Party

-----------------------------------------------------------------------------
(* The App's steps.                                                        *)

\* What App m may write, and that it writes frames of U and nobody else any.
AppsOwn(m) == {f \in Messages : f.type \in Talking => f.app = m /\ f.type # "e2e.failed"}

AppWrites(m, U) ==
  /\ \A c \in Conns : c # m => up'[c] = up[c]
  /\ Adds(up[m], up'[m], U)

LEMMA TakesOne ==
  ASSUME DownOK, NEW m \in AppConns, TookFrom(m)
  PROVE  /\ \A c \in Conns : c # m => down'[c] = down[c]
         /\ down'[m] = down[m] \/ (down[m] # <<>> /\ down'[m] = Tail(down[m]))
BY DEF DownOK, TookFrom, Conns

LEMMA AppSendWrites ==
  ASSUME UpOK, NEW m \in AppConns, NEW U, NEW frames \in Seq(U),
         up' = [up EXCEPT ![m] = @ \o frames]
  PROVE  AppWrites(m, U) /\ up'[m] = up[m] \o frames
<1>1. \A c \in Conns : up'[c] = IF c = m THEN up[c] \o frames ELSE up[c]
  BY DEF UpOK
<1>2. up'[m] = up[m] \o frames
  BY <1>1 DEF Conns
<1> QED BY <1>1, <1>2 DEF AppWrites, Adds

LEMMA AppRestWrites ==
  ASSUME UpOK, NEW m \in AppConns, UNCHANGED up, NEW U
  PROVE  AppWrites(m, U)
BY AddsFew DEF AppWrites, UpOK, Conns

LEMMA MoreAppWrites ==
  ASSUME NEW m, NEW S, NEW U, S \subseteq U, AppWrites(m, S)
  PROVE  AppWrites(m, U)
BY AddsMore DEF AppWrites

\* The other Apps' sessions are not touched.
LEMMA AppOthers ==
  ASSUME VInv, Admissions, OwnTalk, NEW m \in AppConns, NEW n \in AppConns, n # m, Party(n),
         UNCHANGED <<agentVars, authVars>>, RelayQuiet(n),
         AppWrites(m, AppsOwn(m)), TookFrom(m), phase'[n] = phase[n], agentOf'[n] = agentOf[n]
  PROVE  Party(n)'
<1>1. DownOK /\ QueuesTyped /\ m \in Conns
  BY BQueues DEF VInv, PInv, Conns
<1>2. Calm(n)
  BY DEF Calm, agentVars
<1>3. AppsOwn(m) \subseteq OthersThan(n)
  BY DEF AppsOwn, OthersThan, About
<1>4. \A c \in Conns : Idles(up[c], up'[c], n)
  BY <1>3, MoreAppWrites DEF AppWrites, Idles
<1>5. \A c \in Conns : c # m => Idles(down[c], down'[c], n)
  BY <1>1, TakesOne DEF Idles
<1>6. Idles(down[m], down'[m], n)
  <2>1. CASE down'[m] = down[m]
    BY <2>1 DEF Idles
  <2>2. CASE down[m] # <<>> /\ down'[m] = Tail(down[m])
    <3>1. 1 \in DOMAIN down[m] /\ Head(down[m]) = down[m][1]
      BY <1>1, <2>2, Taken DEF QueuesTyped
    <3>2. Head(down[m]).type = "e2e.ready" => Head(down[m]).app = m
      BY <3>1 DEF OwnTalk, Talking
    <3> QED BY <2>2, <3>2 DEF Idles
  <2> QED BY <1>1, <2>1, <2>2, TakesOne
<1>7. authed' = authed
  BY DEF authVars
<1>8. \A c \in Conns : Idles(up[c], up'[c], n) /\ Idles(down[c], down'[c], n)
  BY <1>4, <1>5, <1>6
<1> QED BY <1>2, <1>7, <1>8, IdleParty

LEMMA AppKeepsOwn ==
  ASSUME VInv, Admissions, OwnTalk, NEW m \in AppConns, UNCHANGED <<agentVars, authVars, pending>>,
         AppWrites(m, AppsOwn(m)), TookFrom(m)
  PROVE  OwnTalk' /\ Admissions'
<1>1. DownOK /\ QueuesTyped /\ m \in Conns
  BY BQueues DEF VInv, PInv, Conns
<1>2. ASSUME NEW c \in Conns, NEW i \in DOMAIN down'[c]
      PROVE  \E j \in DOMAIN down[c] : down[c][j] = down'[c][i]
  <2>1. CASE down'[c] = down[c]
    BY <1>2, <2>1
  <2>2. CASE down[c] # <<>> /\ down'[c] = Tail(down[c])
    BY <1>1, <1>2, <2>2, Taken DEF QueuesTyped
  <2> QED BY <1>1, <2>1, <2>2, TakesOne
<1>3. \A c \in Conns : \A i \in DOMAIN down'[c] : \E j \in DOMAIN down[c] : down[c][j] = down'[c][i]
  BY <1>2
<1>4. \A i \in DOMAIN up'[m] : (i \in DOMAIN up[m] /\ up'[m][i] = up[m][i]) \/ up'[m][i] \in AppsOwn(m)
  <2>1. AppsOwn(m) \subseteq Messages
    BY DEF AppsOwn
  <2> QED BY <1>1, <2>1, AddsFrames DEF AppWrites, QueuesTyped
<1>5. OwnTalk'
  <2>1. ASSUME NEW n \in AppConns, NEW i \in DOMAIN up'[n], up'[n][i].type \in Talking
        PROVE  up'[n][i].app = n /\ up'[n][i].type # "e2e.failed"
    <3>1. CASE n = m
      BY <1>4, <2>1, <3>1 DEF OwnTalk, AppsOwn
    <3>2. CASE n # m
      BY <2>1, <3>2 DEF OwnTalk, AppWrites, Conns
    <3> QED BY <3>1, <3>2
  <2>2. \A n \in AppConns : \A i \in DOMAIN down'[n] :
          down'[n][i].type \in Talking => down'[n][i].app = n
    BY <1>3 DEF OwnTalk, Conns
  <2> QED BY <2>1, <2>2 DEF OwnTalk
<1>6. authState' = authState /\ authed' = authed /\ role' = role /\ pending' = pending
      /\ agentId' = agentId
  BY DEF authVars, agentVars
<1>7. Admissions'
  BY <1>3, <1>6 DEF Admissions, Admitted, Conns
<1> QED BY <1>5, <1>7

LEMMA AppStepB ==
  ASSUME BInv, VInv', NEW m \in AppConns, UNCHANGED <<agentVars, authVars, pending>>,
         \A n \in AppConns : n # m => /\ RelayQuiet(n)
                                      /\ phase'[n] = phase[n] /\ agentOf'[n] = agentOf[n],
         AppWrites(m, AppsOwn(m)), TookFrom(m), Party(m)'
  PROVE  BInv'
<1>1. VInv /\ Admissions /\ OwnTalk /\ \A n \in AppConns : Party(n)
  BY DEF BInv, EveryPair, Party
<1>2. \A n \in AppConns : Party(n)'
  BY <1>1, AppOthers
<1>3. OwnTalk' /\ Admissions'
  BY <1>1, AppKeepsOwn
<1> QED BY <1>2, <1>3 DEF BInv, EveryPair, Party

\* A step of App m's that writes nothing of its session.
LEMMA AppQuiet ==
  ASSUME VInv, Admissions, NEW m \in AppConns, Party(m), UNCHANGED <<agentVars, relayVars>>,
         AppWrites(m, OthersThan(m)), TookFrom(m),
         \/ phase'[m] \in {phase[m], "closed"}
         \/ {phase[m], phase'[m]} \cap (Late \cup {"closed"}) = {},
         phase'[m] \in Late => agentOf'[m] = agentOf[m],
         down[m] # <<>> /\ Head(down[m]).type = "e2e.ready" =>
           down' = down \/ phase'[m] \in {"ready", "closed"}
  PROVE  Party(m)'
<1> USE WireAssumption
<1>1. DownOK /\ QueuesTyped /\ m \in Conns
  BY BQueues DEF VInv, PInv, Conns
<1>2. RelayQuiet(m) /\ Calm(m) /\ authed' = authed
  BY RestQuiet DEF Calm, agentVars, relayVars
<1>3. \A c \in Conns : Quietly(up[c], up'[c], m) /\ Quietly(down[c], down'[c], m)
  BY <1>1, TakesOne DEF AppWrites, Quietly
<1>4. ASSUME NEW b \in AgentConns PROVE Steady(m, b)
  <2>1. b \in Conns /\ b # m /\ down'[b] = down[b]
    BY <1>1, TakesOne DEF Conns
  <2>2. KeepsReady(down[b], down'[b], m, b)
    BY <2>1, RestShrinks
  <2>3. KeepsReady(up[m], up'[m], m, b)
    BY <1>1, <1>3, QuietShrinks DEF AppWrites, QueuesTyped
  <2>4. KeepsReady(down[m], down'[m], m, b) \/ phase'[m] \in {"ready", "closed"}
    <3>1. CASE down'[m] = down[m]
      BY <3>1, RestShrinks
    <3>2. CASE down[m] # <<>> /\ Head(down[m]) # ReadyOf(m, b)
      BY <1>1, <1>3, <3>2, QuietShrinks DEF QueuesTyped
    <3>3. CASE down[m] # <<>> /\ Head(down[m]) = ReadyOf(m, b) /\ down'[m] # down[m]
      BY <3>3 DEF ReadyOf, Frame
    <3> QED BY <1>1, <3>1, <3>2, <3>3, TakesOne
  <2> QED BY <2>2, <2>3, <2>4 DEF Steady
<1> QED BY <1>2, <1>3, <1>4, QuietParty DEF Undisturbed

\* Business of App m's, to the agent it has its session with.
LEMMA AppSpeaksTo ==
  ASSUME VInv, Admissions, NEW m \in AppConns, NEW b \in AgentConns, Paired(m, b),
         UNCHANGED <<agentVars, relayVars>>, TookFrom(m),
         NEW s \in Seq(DataOf(m, b) \cup {Close}), up' = [up EXCEPT ![m] = @ \o s],
         \/ phase[m] = "ready"
         \/ phase[m] = "session" /\ down[m] # <<>> /\ Head(down[m]) = ReadyOf(m, b),
         \/ phase'[m] = "closed"
         \/ phase'[m] = "ready" /\ agentOf'[m] = agentOf[m]
  PROVE  Party(m)' /\ AppWrites(m, AppsOwn(m))
<1> USE WireAssumption
<1> DEFINE U == DataOf(m, b) \cup {Close}
<1>1. DownOK /\ UpOK /\ QueuesTyped /\ m \in Conns /\ b \in Conns /\ b # m
  BY BQueues DEF VInv, PInv, Conns
<1>2. AppWrites(m, U) /\ up'[m] = up[m] \o s
  BY <1>1, AppSendWrites
<1>3. /\ \A f \in U : f \in Messages /\ f \in AppsOwn(m) /\ (About(f, m) => f \in AppTalk(m, b))
      /\ \A f \in U : f \notin {Opening(m, b), Answer(m, b), ReadyOf(m, b), FailureOf(m)}
  BY DEF DataOf, Close, Plain, Frame, Messages, Types, E2EData, AppsOwn, About, Talking, AppTalk,
         Opening, Answer, ReadyOf, FailureOf
<1>4. AppWrites(m, AppsOwn(m))
  BY <1>2, <1>3, MoreAppWrites
<1>5. s \in Seq(Messages) /\ \A i \in DOMAIN s : s[i] \in U
  BY <1>3
<1>6. GainsData(up[m], up'[m], m, b)
  <2>1. ~Has(s, {Opening(m, b), Answer(m, b), ReadyOf(m, b), FailureOf(m)})
    BY <1>3, <1>5 DEF Has
  <2>2. up[m] \in Seq(Messages) /\ s \in Seq(Messages)
    BY <1>1, <1>5 DEF QueuesTyped
  <2>3. GainsData(up[m], up[m] \o s, m, b)
    BY <2>1, <2>2, DataGained
  <2> QED BY <1>2, <2>3
<1>7. Shrinks(down[m], down'[m], m, b)
  BY <1>1, TakesOne, RestShrinks, TakenShrinks DEF QueuesTyped
<1>8. phase[m] = "session" => Has(down[m], {ReadyOf(m, b)})
  BY <1>1, HasTaken DEF QueuesTyped
<1>9. /\ up'[b] = up[b] /\ down'[b] = down[b] /\ e2e'[m] = e2e[m] /\ RelayKept(m, b)
  BY <1>1, <1>2, TakesOne DEF AppWrites, agentVars, relayVars, RelayKept, RelayStays
<1>10. Talked(m, b)'
  BY <1>6, <1>7, <1>8, <1>9, AppSpeaks DEF Paired
<1>11. Parties(m, b)'
  <2>1. phase[m] \in Late /\ phase'[m] \in Late \cup {"closed"}
    BY DEF Late
  <2> QED BY <2>1 DEF Paired, Parties, relayVars, agentVars, Late
<1>12. Talks(m, b)'
  <2>1. Only(up[m], m, Said(m, b, m)) /\ Said(m, b, m) = AppTalk(m, b)
    BY <1>1 DEF Paired, Talks, Said
  <2>2. U \subseteq Messages /\ \A f \in U : About(f, m) => f \in Said(m, b, m)
    BY <1>3, <2>1
  <2>3. Adds(up[m], up'[m], U) /\ up[m] \in Seq(Messages)
    BY <1>1, <1>2 DEF AppWrites, QueuesTyped
  <2> HIDE DEF U
  <2>4. Only(up'[m], m, Said(m, b, m))
    BY <2>1, <2>2, <2>3, OnlyAdds
  <2>5. \A c \in Conns : c # m => up'[c] = up[c]
    BY <1>2 DEF AppWrites
  <2>6. \A c \in Conns : Only(down'[c], m, Heard(m, b, c))
    BY <1>1, TakesOne, OnlyTaken DEF Paired, Talks, QueuesTyped
  <2> QED BY <2>4, <2>5, <2>6 DEF Paired, Talks, Said, Heard
<1> QED BY <1>4, <1>10, <1>11, <1>12 DEF Paired, Party

\* What the Apps write and what they say.
LEMMA AppWords ==
  ASSUME NEW m \in AppConns
  PROVE  /\ Close \in OthersThan(m) \cap AppsOwn(m)
         /\ Plain("mobile.connect") \in OthersThan(m) \cap AppsOwn(m)
         /\ \A a \in AgentConns :
              /\ Frame("auth.proof", m, a, m) \in OthersThan(m) \cap AppsOwn(m)
              /\ Opening(m, a) \in AppsOwn(m) \cap Messages
              /\ ReadyOf(m, a) \in AppsOwn(m) \cap Messages
BY DEF OthersThan, AppsOwn, About, Talking, E2EData, Messages, Types, Close, Plain, Frame,
   Opening, ReadyOf

\* The App has been told auth.ok: from now on it talks to that agent.
LEMMA AppPairs ==
  ASSUME VInv, Admissions, NEW m \in AppConns, Unpaired(m), phase[m] = "proved",
         down[m] # <<>>, down' = [down EXCEPT ![m] = Tail(@)],
         Head(down[m]).type = "auth.ok", Head(down[m]).agent = agentOf[m],
         phase' = [phase EXCEPT ![m] = "keying"],
         UNCHANGED <<agentOf, up, agentVars, relayVars>>
  PROVE  Party(m)'
<1> USE WireAssumption
<1>1. DownOK /\ QueuesTyped /\ AppIInv /\ m \in Conns
  BY BQueues DEF VInv, PInv, Conns
<1>2. 1 \in DOMAIN down[m] /\ Head(down[m]) = down[m][1]
  BY <1>1, Taken DEF QueuesTyped
<1>3. agentOf[m] \in AgentConns /\ DeviceOf[agentOf[m]] = DeviceOf[m] /\ authed[m]
  BY <1>2 DEF Admissions, VInv, Challenges
<1>0. PICK b \in AgentConns : b = agentOf[m]
  BY <1>3
<1>4. /\ phase'[m] = "keying" /\ agentOf'[m] = b /\ authed'[m] /\ e2e'[m] = "none"
      /\ state'[m] \notin HandshakeStates /\ peer'[b][m].state = "none" /\ up' = up
  BY <1>0, <1>1, <1>3 DEF AppIInv, AppTypeOK, relayVars, agentVars, Unpaired
<1>5. \A c \in Conns : Only(up'[c], m, {}) /\ Only(down'[c], m, {})
  <2>1. TookFrom(m)
    BY DEF TookFrom
  <2>2. \A c \in Conns : down'[c] = down[c] \/ (down[c] # <<>> /\ down'[c] = Tail(down[c]))
    BY <1>1, <2>1, TakesOne
  <2> QED BY <1>1, <1>4, <2>2, OnlyTaken DEF Unpaired, QueuesTyped
<1>6. \A c \in Conns, S \in SUBSET Talk(m, b) : ~Has(up'[c], S) /\ ~Has(down'[c], S)
  BY <1>5, TalkIsAbout DEF Only, Has
<1>7. Talks(m, b)'
  BY <1>5 DEF Talks, Only
<1>8. Parties(m, b)'
  BY <1>0, <1>3, <1>4 DEF Parties, Late
<1>9. b \in Conns
  BY DEF Conns
<1>10. \A c \in {m, b} :
         /\ Unreplied(up[c]', m, b) /\ Unreplied(down[c]', m, b)
         /\ ~Has(up[c]', {Opening(m, b)}) /\ ~Has(down[c]', {Opening(m, b)})
         /\ ~Has(up[c]', {Answer(m, b)}) /\ ~Has(down[c]', {Answer(m, b)})
         /\ ~Has(up[c]', {FailureOf(m)}) /\ ~Has(up[c]', DataOf(m, b))
         /\ ~Has(down[c]', DataOf(m, b)) /\ ~Has(down[c]', {ReadyOf(m, b)})
  BY <1>1, <1>6, <1>9, TalkSets DEF Unreplied, Unsaid
<1>11. OneOpening(m, b)' /\ OneAnswer(m, b)'
  BY <1>4, <1>10, NoneForemost DEF OneOpening, OneAnswer, Unasked, Unreplied, HandshakeStates
<1>12. AppTold(m, b)' /\ RelayTold(m, b)' /\ AgentTold(m, b)'
  BY <1>4, <1>10, NoneLeads DEF AppTold, RelayTold, AgentTold, HandshakeStates
<1> QED BY <1>3, <1>7, <1>8, <1>11, <1>12 DEF Paired, Talked, Party

\* The App opens the handshake.
LEMMA AppOpensOwn ==
  ASSUME VInv, Admissions, NEW m \in AppConns, NEW b \in AgentConns, Paired(m, b),
         UNCHANGED <<agentVars, relayVars, down, agentOf>>,
         phase[m] = "keying", phase' = [phase EXCEPT ![m] = "initiated"],
         up' = [up EXCEPT ![m] = @ \o <<Opening(m, b)>>]
  PROVE  Party(m)' /\ AppWrites(m, AppsOwn(m))
<1> USE WireAssumption
<1> DEFINE f == Opening(m, b)
<1>1. DownOK /\ UpOK /\ AppIInv /\ QueuesTyped /\ m \in Conns /\ b \in Conns /\ b # m
  BY BQueues DEF VInv, PInv, Conns
<1>2. f \in AppsOwn(m) /\ f \in Messages /\ f \in AppTalk(m, b)
  BY AppWords DEF AppTalk
<1> HIDE DEF f
<1>3. <<f>> \in Seq({f}) /\ {f} \subseteq AppsOwn(m)
  BY <1>2
<1>4. AppWrites(m, {f}) /\ up'[m] = up[m] \o <<f>>
  BY <1>1, <1>3, AppSendWrites DEF f
<1>5. AppWrites(m, AppsOwn(m))
  BY <1>3, <1>4, MoreAppWrites
<1>6. Gains(up[m], up'[m], f, m, b)
  <2>1. up[m] \in Seq(Messages)
    BY <1>1 DEF QueuesTyped
  <2>2. Gains(up[m], up[m] \o <<f>>, f, m, b)
    BY <1>2, <2>1, OneGained
  <2> QED BY <1>4, <2>2
<1>7. phase'[m] = "initiated"
  BY <1>1 DEF AppIInv, AppTypeOK
<1>8. /\ up'[b] = up[b] /\ down' = down /\ e2e'[m] = e2e[m] /\ RelayKept(m, b)
  BY <1>1, <1>4 DEF AppWrites, agentVars, relayVars, RelayKept, RelayStays
<1>9. Talked(m, b)'
  BY <1>6, <1>7, <1>8, AppOpens DEF Paired, f
<1>10. Parties(m, b)'
  BY <1>7 DEF Paired, Parties, relayVars, agentVars, Late
<1>11. Talks(m, b)'
  <2>1. Only(up[m], m, Said(m, b, m)) /\ Said(m, b, m) = AppTalk(m, b)
    BY <1>1 DEF Paired, Talks, Said
  <2>2. {f} \subseteq Messages /\ \A g \in {f} : About(g, m) => g \in Said(m, b, m)
    BY <1>2, <2>1
  <2>3. Adds(up[m], up'[m], {f}) /\ up[m] \in Seq(Messages)
    BY <1>1, <1>4 DEF AppWrites, QueuesTyped
  <2>4. Only(up'[m], m, Said(m, b, m))
    BY <2>1, <2>2, <2>3, OnlyAdds
  <2>5. \A c \in Conns : c # m => up'[c] = up[c]
    BY <1>4 DEF AppWrites
  <2> QED BY <1>8, <2>4, <2>5 DEF Paired, Talks, Said, Heard
<1> QED BY <1>5, <1>9, <1>10, <1>11 DEF Paired, Party

\* The App acts on the answer.
LEMMA AppAnsweredOwn ==
  ASSUME VInv, Admissions, NEW m \in AppConns, NEW b \in AgentConns, Paired(m, b),
         UNCHANGED <<agentVars, relayVars, agentOf>>,
         phase[m] = "initiated", phase' = [phase EXCEPT ![m] = "session"],
         down[m] # <<>>, Head(down[m]) = Answer(m, b), down' = [down EXCEPT ![m] = Tail(@)],
         up' = [up EXCEPT ![m] = @ \o <<ReadyOf(m, b)>>]
  PROVE  Party(m)' /\ AppWrites(m, AppsOwn(m))
<1> USE WireAssumption
<1> DEFINE f == ReadyOf(m, b)
<1>1. DownOK /\ UpOK /\ AppIInv /\ QueuesTyped /\ m \in Conns /\ b \in Conns /\ b # m
  BY BQueues DEF VInv, PInv, Conns
<1>2. f \in AppsOwn(m) /\ f \in Messages /\ f \in AppTalk(m, b)
  BY AppWords DEF AppTalk
<1> HIDE DEF f
<1>3. <<f>> \in Seq({f}) /\ {f} \subseteq AppsOwn(m)
  BY <1>2
<1>4. AppWrites(m, {f}) /\ up'[m] = up[m] \o <<f>>
  BY <1>1, <1>3, AppSendWrites DEF f
<1>5. AppWrites(m, AppsOwn(m))
  BY <1>3, <1>4, MoreAppWrites
<1>6. Gains(up[m], up'[m], f, m, b)
  <2>1. up[m] \in Seq(Messages)
    BY <1>1 DEF QueuesTyped
  <2>2. Gains(up[m], up[m] \o <<f>>, f, m, b)
    BY <1>2, <2>1, OneGained
  <2> QED BY <1>4, <2>2
<1>7. phase'[m] = "session"
  BY <1>1 DEF AppIInv, AppTypeOK
<1>8. TookFrom(m) /\ down'[m] = Tail(down[m])
  BY <1>1 DEF TookFrom, DownOK
<1>9. Loses(down[m], down'[m], Answer(m, b), m, b)
  <2>1. Loses(down[m], Tail(down[m]), Head(down[m]), m, b)
    BY <1>1, OneLost DEF QueuesTyped
  <2> QED BY <1>8, <2>1
<1>10. /\ up'[b] = up[b] /\ down'[b] = down[b] /\ e2e'[m] = e2e[m] /\ RelayKept(m, b)
  BY <1>1, <1>4, <1>8, TakesOne DEF AppWrites, agentVars, relayVars, RelayKept, RelayStays
<1>11. Talked(m, b)'
  BY <1>6, <1>7, <1>9, <1>10, AppAnswered DEF Paired, f
<1>12. Parties(m, b)'
  BY <1>7 DEF Paired, Parties, relayVars, agentVars, Late
<1>13. Talks(m, b)'
  <2>1. Only(up[m], m, Said(m, b, m)) /\ Said(m, b, m) = AppTalk(m, b)
    BY <1>1 DEF Paired, Talks, Said
  <2>2. {f} \subseteq Messages /\ \A g \in {f} : About(g, m) => g \in Said(m, b, m)
    BY <1>2, <2>1
  <2>3. Adds(up[m], up'[m], {f}) /\ up[m] \in Seq(Messages)
    BY <1>1, <1>4 DEF AppWrites, QueuesTyped
  <2>4. Only(up'[m], m, Said(m, b, m))
    BY <2>1, <2>2, <2>3, OnlyAdds
  <2>5. \A c \in Conns : c # m => up'[c] = up[c]
    BY <1>4 DEF AppWrites
  <2>6. \A c \in Conns : Only(down'[c], m, Heard(m, b, c))
    BY <1>1, <1>8, TakesOne, OnlyTaken DEF Paired, Talks, QueuesTyped
  <2> QED BY <2>4, <2>5, <2>6 DEF Paired, Talks, Said, Heard
<1> QED BY <1>5, <1>11, <1>12, <1>13 DEF Paired, Party

\* The App closes its session, having said nothing more.
LEMMA AppShutsOwn ==
  ASSUME VInv, Admissions, NEW m \in AppConns, Party(m), UNCHANGED <<agentVars, relayVars>>,
         TookFrom(m), AppShut(m, <<>>)
  PROVE  Party(m)' /\ AppWrites(m, AppsOwn(m))
<1>1. UpOK /\ AppIInv
  BY DEF VInv, PInv
<1>2. phase'[m] = "closed" /\ "closed" \notin Late
  BY <1>1 DEF AppShut, AppIInv, AppTypeOK, Late
<1>3. <<Close>> \in Seq(OthersThan(m)) /\ <<Close>> \in Seq(AppsOwn(m)) /\ <<>> \o <<Close>> = <<Close>>
  BY AppWords
<1>4. up' = [up EXCEPT ![m] = @ \o <<Close>>]
  BY <1>3 DEF AppShut, AppSend
<1>5. AppWrites(m, OthersThan(m)) /\ AppWrites(m, AppsOwn(m))
  BY <1>1, <1>3, <1>4, AppSendWrites
<1> QED BY <1>2, <1>5, AppQuiet

\* The user leaves, or the Agent no longer trusts the App.
LEMMA AppClosesOwn ==
  ASSUME VInv, Admissions, NEW m \in AppConns, Party(m), UNCHANGED <<agentVars, relayVars>>,
         TookFrom(m), AppClose(m)
  PROVE  Party(m)' /\ AppWrites(m, AppsOwn(m))
<1>1. UpOK /\ AppIInv
  BY DEF VInv, PInv
<1>2. CASE phase[m] # "ready"
  BY <1>2, AppShutsOwn DEF AppClose
<1>3. CASE phase[m] = "ready"
  <2>1. PICK b \in AgentConns : Paired(m, b)
    BY <1>3 DEF Party, Unpaired, Late
  <2>2. agentOf[m] = b
    BY <1>3, <2>1 DEF Paired, Parties, Late
  <2> DEFINE bye == Frame("e2e.goodbye", m, b, m)
  <2>3. bye \in DataOf(m, b)
    BY DEF DataOf, E2EData
  <2>4. AppShut(m, <<bye>>)
    BY <1>3, <2>2 DEF AppClose
  <2> HIDE DEF bye
  <2> DEFINE s == <<bye>> \o <<Close>>
             U == DataOf(m, b) \cup {Close}
  <2>5. s \in Seq(U)
    <3>1. bye \in U /\ Close \in U
      BY <2>3
    <3> HIDE DEF U
    <3>2. <<bye>> \in Seq(U) /\ <<Close>> \in Seq(U)
      BY <3>1
    <3> QED BY <3>2
  <2>6. up' = [up EXCEPT ![m] = @ \o s] /\ phase'[m] = "closed"
    BY <1>1, <2>4 DEF AppShut, AppSend, AppIInv, AppTypeOK
  <2> HIDE DEF s
  <2> QED BY <1>3, <2>1, <2>5, <2>6, AppSpeaksTo
<1> QED BY <1>2, <1>3

LEMMA AppReadsOwn ==
  ASSUME VInv, Admissions, OwnTalk, NEW m \in AppConns, Party(m), AppReads(m)
  PROVE  Party(m)' /\ AppWrites(m, AppsOwn(m))
<1> USE WireAssumption
<1> DEFINE msg == Head(down[m])
<1>1. /\ down[m] # <<>> /\ AppHandle(m, msg) /\ down' = [down EXCEPT ![m] = Tail(@)]
      /\ UNCHANGED <<agentVars, relayVars>> /\ TookFrom(m)
      /\ UpOK /\ AppIInv /\ QueuesTyped /\ m \in Conns
  BY BQueues DEF AppReads, TookFrom, VInv, PInv, Conns
<1>2. 1 \in DOMAIN down[m] /\ msg = down[m][1]
  BY <1>1, Taken DEF QueuesTyped
<1>3. /\ msg.type = "auth.challenge" => phase[m] \in {"connected", "closed"}
      /\ msg.type \in Talking => About(msg, m)
  BY <1>2 DEF VInv, Challenges, OwnTalk, About
<1>4. \A b \in AgentConns : Paired(m, b) =>
        /\ phase[m] \in Late => agentOf[m] = b
        /\ About(msg, m) => msg \in AgentTalk(m, b)
  BY <1>1, OnlyTaken DEF Paired, Parties, Talks, Heard, QueuesTyped
<1> HIDE DEF msg
<1>5. CASE UNCHANGED <<appVars, up>> /\ (msg.type = "e2e.ready" => phase[m] \in {"ready", "closed"})
  <2>1. AppWrites(m, OthersThan(m)) /\ AppWrites(m, AppsOwn(m))
    BY <1>1, <1>5, AppRestWrites
  <2> QED BY <1>1, <1>5, <2>1, AppQuiet DEF appVars, msg
<1>6. CASE AppShut(m, <<>>)
  BY <1>1, <1>6, AppShutsOwn
<1>7. CASE msg.type = "auth.challenge" /\ phase[m] # "closed"
  <2>0. AppRecvChallenge(m, msg)
    BY <1>1, <1>7 DEF AppHandle, E2EData
  <2>1. /\ phase[m] = "connected" /\ UNCHANGED up
        /\ phase' = [phase EXCEPT ![m] = "signing"]
    BY <1>3, <1>7, <2>0 DEF AppRecvChallenge
  <2>2. phase'[m] = "signing"
    BY <1>1, <2>1 DEF AppIInv, AppTypeOK
  <2>3. {phase[m], phase'[m]} \cap (Late \cup {"closed"}) = {} /\ phase'[m] \notin Late
    BY <2>1, <2>2 DEF Late
  <2>4. AppWrites(m, OthersThan(m)) /\ AppWrites(m, AppsOwn(m))
    BY <1>1, <2>1, AppRestWrites
  <2>5. msg.type # "e2e.ready"
    BY <1>7
  <2> QED BY <1>1, <2>3, <2>4, <2>5, AppQuiet DEF msg
<1>8. CASE msg.type = "auth.ok" /\ AppRecvAuthOk(m, msg) /\ ~AppShut(m, <<>>)
  <2>1. /\ phase[m] = "proved" /\ phase' = [phase EXCEPT ![m] = "keying"]
        /\ msg.agent = agentOf[m] /\ UNCHANGED <<agentOf, up>>
    BY <1>8 DEF AppRecvAuthOk
  <2>2. Unpaired(m)
    BY <2>1 DEF Party, Paired, Parties, Late
  <2>3. AppWrites(m, AppsOwn(m))
    BY <1>1, <2>1, AppRestWrites
  <2> QED BY <1>1, <1>8, <2>1, <2>2, <2>3, AppPairs DEF msg
<1>9. CASE AppClose(m)
  BY <1>1, <1>9, AppClosesOwn
<1>10. CASE msg.type = "e2e.handshake.reply" /\ AppRecvReply(m, msg) /\ ~UNCHANGED <<appVars, up>>
            /\ ~AppShut(m, <<>>)
  <2>1. /\ phase[m] = "initiated" /\ phase' = [phase EXCEPT ![m] = "session"]
        /\ up' = [up EXCEPT ![m] = @ \o <<Frame("e2e.ready", m, agentOf[m], m)>>]
        /\ UNCHANGED agentOf
    BY <1>10 DEF AppRecvReply, AppSend
  <2>2. PICK b \in AgentConns : Paired(m, b)
    BY <2>1 DEF Party, Unpaired, Late
  <2>3. agentOf[m] = b /\ msg \in AgentTalk(m, b)
    BY <1>3, <1>4, <1>10, <2>1, <2>2 DEF Late, Talking
  <2>4. msg = Answer(m, b)
    BY <1>10, <2>3 DEF AgentTalk, ReadyOf, FailureOf, DataOf, Frame, E2EData
  <2>5. up' = [up EXCEPT ![m] = @ \o <<ReadyOf(m, b)>>]
    BY <2>1, <2>3 DEF ReadyOf
  <2> QED BY <1>1, <2>1, <2>2, <2>4, <2>5, AppAnsweredOwn DEF msg
<1>11. CASE msg.type = "e2e.ready" /\ AppRecvE2EReady(m, msg) /\ ~UNCHANGED <<appVars, up>>
            /\ ~AppShut(m, <<>>)
  <2> DEFINE frame == Frame("e2e.message", m, agentOf[m], m)
             waiting == [i \in 1 .. queued[m] |-> frame]
  <2>1. /\ phase[m] \in {"session", "ready"} /\ phase' = [phase EXCEPT ![m] = "ready"]
        /\ up' = [up EXCEPT ![m] = @ \o waiting]
        /\ UNCHANGED agentOf
    BY <1>11 DEF AppRecvE2EReady, AppSend
  <2>2. PICK b \in AgentConns : Paired(m, b)
    BY <2>1 DEF Party, Unpaired, Late
  <2>3. agentOf[m] = b /\ msg \in AgentTalk(m, b)
    BY <1>3, <1>4, <1>11, <2>1, <2>2 DEF Late, Talking
  <2>4. msg = ReadyOf(m, b)
    BY <1>11, <2>3 DEF AgentTalk, Answer, FailureOf, DataOf, Frame, E2EData
  <2>5. frame \in DataOf(m, b) \cup {Close}
    BY <2>3 DEF DataOf, E2EData
  <2>6. queued[m] \in Nat /\ phase'[m] = "ready"
    BY <1>1, <2>1 DEF AppIInv, AppTypeOK
  <2> HIDE DEF frame
  <2>7. waiting \in [1 .. queued[m] -> DataOf(m, b) \cup {Close}]
    BY <2>5
  <2> HIDE DEF waiting
  <2>8. waiting \in Seq(DataOf(m, b) \cup {Close})
    BY <2>6, <2>7, SeqDef
  <2>9. \/ phase[m] = "ready"
        \/ phase[m] = "session" /\ down[m] # <<>> /\ Head(down[m]) = ReadyOf(m, b)
    BY <1>1, <2>1, <2>4 DEF msg
  <2> QED BY <1>1, <2>1, <2>2, <2>6, <2>8, <2>9, AppSpeaksTo
<1>12. CASE msg.type = "e2e.ready" /\ phase[m] # "closed" /\ UNCHANGED <<appVars, up>>
            /\ AppRecvE2EReady(m, msg)
  <2>1. AppShut(m, <<>>) \/ phase[m] \in {"session", "ready"}
    BY <1>12 DEF AppRecvE2EReady
  <2>2. phase[m] = "session" => phase'[m] = "ready" \/ phase'[m] = "closed"
    BY <1>1, <1>12 DEF AppRecvE2EReady, AppShut, AppIInv, AppTypeOK
  <2>3. phase' = phase
    BY <1>12 DEF appVars
  <2> QED BY <1>5, <1>6, <1>12, <2>1, <2>2, <2>3
<1> QED
  BY <1>1, <1>5, <1>6, <1>7, <1>8, <1>9, <1>10, <1>11, <1>12
     DEF AppHandle, AppRecvE2EMessage, AppRecvE2EFailed, E2EData

LEMMA AppReadsB ==
  ASSUME BInv, VInv', NEW m \in AppConns, AppReads(m)
  PROVE  BInv'
<1>1. VInv /\ Admissions /\ OwnTalk /\ Party(m) /\ AppIInv
  BY DEF BInv, EveryPair, Party, VInv, PInv
<1>2. /\ UNCHANGED <<agentVars, relayVars, authVars, pending>> /\ TookFrom(m)
  BY DEF AppReads, TookFrom, relayVars, authVars
<1>3. \A n \in AppConns : n # m => phase'[n] = phase[n] /\ agentOf'[n] = agentOf[n]
  BY <1>1 DEF AppReads, AppHandle, AppShut, AppRecvChallenge, AppRecvAuthOk, AppClose, AppRecvReply,
     AppRecvE2EReady, AppRecvE2EMessage, AppRecvE2EFailed, appVars, AppIInv, AppTypeOK
<1>4. \A n \in AppConns : RelayQuiet(n)
  BY <1>2, RestQuiet
<1>5. Party(m)' /\ AppWrites(m, AppsOwn(m))
  BY <1>1, AppReadsOwn
<1> QED BY <1>2, <1>3, <1>4, <1>5, AppStepB

LEMMA AppConnectsB ==
  ASSUME BInv, VInv', NEW m \in AppConns, AppConnects(m)
  PROVE  BInv'
<1> USE WireAssumption
<1>1. /\ VInv /\ Admissions /\ OwnTalk /\ Party(m) /\ AppIInv /\ IInv /\ UpOK /\ QueuesTyped
      /\ m \in Conns
  BY BQueues DEF BInv, EveryPair, Party, VInv, PInv, Conns
<1>2. /\ phase[m] = "idle" /\ phase' = [phase EXCEPT ![m] = "connected"]
      /\ up' = [up EXCEPT ![m] = @ \o <<Plain("mobile.connect")>>]
      /\ UNCHANGED <<agentOf, agentVars>>
      /\ sock' = [sock EXCEPT ![m] = "open"]
      /\ UNCHANGED <<state, authVars, topoVars, pending, e2eVars, down>>
  BY DEF AppConnects, AppConnect, AppSend, Accept
<1>3. AppWrites(m, OthersThan(m)) /\ AppWrites(m, AppsOwn(m))
  <2>1. <<Plain("mobile.connect")>> \in Seq(OthersThan(m))
        /\ <<Plain("mobile.connect")>> \in Seq(AppsOwn(m))
    BY AppWords
  <2> QED BY <1>1, <1>2, <2>1, AppSendWrites
<1>4. phase'[m] = "connected" /\ \A n \in AppConns : n # m => phase'[n] = phase[n]
  BY <1>1, <1>2 DEF AppIInv, AppTypeOK
<1>5. Party(m)'
  <2>1. Unpaired(m)
    BY <1>1, <1>2 DEF Party, Paired, Parties, Late
  <2>2. \A c \in Conns : Quietly(up[c], up'[c], m) /\ Quietly(down[c], down'[c], m)
    BY <1>2, <1>3 DEF AppWrites, Quietly
  <2>3. /\ phase'[m] \notin Late /\ e2e'[m] = "none" /\ state'[m] \notin HandshakeStates
        /\ \A x \in AgentConns : peer'[x][m] = peer[x][m]
    BY <1>2, <1>4, <2>1 DEF Unpaired, Late, agentVars, e2eVars
  <2>4. Unpaired(m)'
    BY <1>1, <2>1, <2>2, <2>3, QuietUnpaired
  <2> QED BY <2>4 DEF Party
<1>6. ASSUME NEW n \in AppConns, n # m PROVE RelayQuiet(n)
  <2>1. n \in Conns /\ \A a \in AgentConns : a \in Conns /\ a # m
    BY DEF Conns
  <2>2. \A c \in Conns : c # m => sock'[c] = sock[c]
    BY <1>1, <1>2 DEF IInv, RelayTypeOK
  <2> QED BY <1>2, <1>6, <2>1, <2>2 DEF RelayQuiet, e2eVars, topoVars
<1>7. TookFrom(m)
  BY <1>2 DEF TookFrom
<1> QED BY <1>2, <1>3, <1>4, <1>5, <1>6, <1>7, AppStepB

LEMMA AppActsOwn ==
  ASSUME VInv, Admissions, NEW m \in AppConns, Party(m), UNCHANGED <<agentVars, relayVars, down>>,
         AppSendProof(m) \/ AppSendHandshakeInit(m) \/ AppSendBusiness(m) \/ AppClose(m)
  PROVE  Party(m)' /\ AppWrites(m, AppsOwn(m))
<1> USE WireAssumption
<1>1. UpOK /\ AppIInv /\ m \in Conns /\ TookFrom(m)
  BY DEF VInv, PInv, Conns, TookFrom
<1>2. CASE AppSendProof(m)
  <2> DEFINE f == Frame("auth.proof", m, agentOf[m], m)
  <2>1. /\ phase[m] = "signing" /\ phase' = [phase EXCEPT ![m] = "proved"]
        /\ up' = [up EXCEPT ![m] = @ \o <<f>>] /\ UNCHANGED agentOf
    BY <1>2 DEF AppSendProof, AppSend
  <2>2. agentOf[m] \in AgentConns
    BY <1>1, <2>1 DEF AppIInv, AppTypeOK
  <2>3. f \in OthersThan(m) /\ f \in AppsOwn(m)
    BY <2>2, AppWords
  <2> HIDE DEF f
  <2>4. <<f>> \in Seq(OthersThan(m)) /\ <<f>> \in Seq(AppsOwn(m))
    BY <2>3
  <2>5. AppWrites(m, OthersThan(m)) /\ AppWrites(m, AppsOwn(m))
    BY <1>1, <2>1, <2>4, AppSendWrites
  <2>6. phase'[m] = "proved"
    BY <1>1, <2>1 DEF AppIInv, AppTypeOK
  <2>7. {phase[m], phase'[m]} \cap (Late \cup {"closed"}) = {} /\ phase'[m] \notin Late
    BY <2>1, <2>6 DEF Late
  <2> QED BY <1>1, <2>5, <2>7, AppQuiet
<1>3. CASE AppSendHandshakeInit(m)
  <2>1. /\ phase[m] = "keying" /\ phase' = [phase EXCEPT ![m] = "initiated"]
        /\ up' = [up EXCEPT ![m] = @ \o <<Frame("e2e.handshake.init", m, agentOf[m], m)>>]
        /\ UNCHANGED agentOf
    BY <1>3 DEF AppSendHandshakeInit, AppSend
  <2>2. PICK b \in AgentConns : Paired(m, b)
    BY <2>1 DEF Party, Unpaired, Late
  <2>3. agentOf[m] = b
    BY <2>1, <2>2 DEF Paired, Parties, Late
  <2>4. up' = [up EXCEPT ![m] = @ \o <<Opening(m, b)>>]
    BY <2>1, <2>3 DEF Opening
  <2> QED BY <2>1, <2>2, <2>4, AppOpensOwn
<1>4. CASE AppSendBusiness(m)
  <2>1. UNCHANGED <<phase, agentOf>>
    BY <1>4 DEF AppSendBusiness
  <2>2. CASE phase[m] = "ready"
    <3>1. PICK b \in AgentConns : Paired(m, b)
      BY <2>2 DEF Party, Unpaired, Late
    <3>2. agentOf[m] = b
      BY <2>2, <3>1 DEF Paired, Parties, Late
    <3> DEFINE f == Frame("e2e.message", m, b, m)
    <3>3. f \in DataOf(m, b) \cup {Close}
      BY DEF DataOf, E2EData
    <3>4. up' = [up EXCEPT ![m] = @ \o <<f>>]
      BY <1>4, <2>2, <3>2 DEF AppSendBusiness, AppSend
    <3> HIDE DEF f
    <3>5. <<f>> \in Seq(DataOf(m, b) \cup {Close})
      BY <3>3
    <3> QED BY <1>1, <2>1, <2>2, <3>1, <3>4, <3>5, AppSpeaksTo
  <2>3. CASE phase[m] # "ready"
    <3>1. AppWrites(m, OthersThan(m)) /\ AppWrites(m, AppsOwn(m))
      BY <1>1, <1>4, <2>3, AppRestWrites DEF AppSendBusiness
    <3> QED BY <1>1, <2>1, <3>1, AppQuiet
  <2> QED BY <2>2, <2>3
<1>5. CASE AppClose(m)
  BY <1>1, <1>5, AppClosesOwn
<1> QED BY <1>2, <1>3, <1>4, <1>5

LEMMA AppActsB ==
  ASSUME BInv, VInv', NEW m \in AppConns, AppResumes(m) \/ AppSends(m) \/ AppLeaves(m)
  PROVE  BInv'
<1>1. VInv /\ Admissions /\ OwnTalk /\ Party(m) /\ AppIInv
  BY DEF BInv, EveryPair, Party, VInv, PInv
<1>2. /\ AppSendProof(m) \/ AppSendHandshakeInit(m) \/ AppSendBusiness(m) \/ AppClose(m)
      /\ UNCHANGED <<agentVars, relayVars, down>>
  BY DEF AppResumes, AppSends, AppLeaves
<1>3. \A n \in AppConns : n # m => phase'[n] = phase[n] /\ agentOf'[n] = agentOf[n]
  BY <1>1, <1>2 DEF AppSendProof, AppSendHandshakeInit, AppSendBusiness, AppClose, AppShut,
     AppIInv, AppTypeOK
<1>4. \A n \in AppConns : RelayQuiet(n)
  BY <1>2, RestQuiet
<1>5. Party(m)' /\ AppWrites(m, AppsOwn(m))
  BY <1>1, <1>2, AppActsOwn
<1>6. UNCHANGED <<authVars, pending>> /\ TookFrom(m)
  BY <1>2 DEF relayVars, authVars, TookFrom
<1> QED BY <1>2, <1>3, <1>4, <1>5, <1>6, AppStepB

-----------------------------------------------------------------------------
LEMMA InitBInv == Init => BInv
<1> USE WireAssumption
<1> SUFFICES ASSUME Init PROVE BInv
  OBVIOUS
<1>1. VInv
  BY InitVInv
<1>2. \A c \in Conns : up[c] = <<>> /\ down[c] = <<>>
  BY DEF Init, WireInit
<1>3. Admissions
  BY <1>2 DEF Admissions, Init, RelayInit, AgentInit, Conns
<1>4. OwnTalk
  BY <1>2 DEF OwnTalk, Conns
<1>5. ASSUME NEW m \in AppConns PROVE Unpaired(m)
  <2>1. \A c \in Conns : Only(up[c], m, {}) /\ Only(down[c], m, {})
    BY <1>2 DEF Only
  <2>2. phase[m] \notin Late /\ e2e[m] = "none"
    BY DEF Init, AppInit, AgentInit, Late
  <2>3. state[m] \notin HandshakeStates /\ \A x \in AgentConns : peer[x][m].state = "none"
    BY DEF Init, RelayInit, HandshakeStates, NoPeer, Conns
  <2> QED BY <2>1, <2>2, <2>3 DEF Unpaired
<1> QED BY <1>1, <1>3, <1>4, <1>5 DEF BInv, EveryPair

LEMMA RestB ==
  ASSUME BInv, VInv', UNCHANGED vars
  PROVE  BInv'
<1>1. VInv /\ Admissions /\ OwnTalk /\ \A m \in AppConns : Party(m)
  BY DEF BInv, EveryPair, Party
<1>2. UNCHANGED <<up, down, relayVars, agentVars, appVars>>
  BY DEF vars
<1>3. ASSUME NEW m \in AppConns PROVE Party(m)'
  <2>1. RelayQuiet(m) /\ Calm(m) /\ authed' = authed
    BY <1>2, RestQuiet DEF Calm, agentVars, appVars, relayVars
  <2>2. \A c \in Conns : Idles(up[c], up'[c], m) /\ Idles(down[c], down'[c], m)
    BY <1>2 DEF Idles
  <2> QED BY <1>1, <2>1, <2>2, IdleParty
<1>4. OwnTalk' /\ Admissions'
  BY <1>1, <1>2 DEF OwnTalk, Admissions, Admitted, relayVars, agentVars
<1> QED BY <1>3, <1>4 DEF BInv, EveryPair, Party

LEMMA NextBInv ==
  ASSUME BInv, [Next]_vars
  PROVE  BInv'
<1>1. VInv'
  BY NextVInv DEF BInv
<1>2. CASE UNCHANGED vars
  BY <1>1, <1>2, RestB
<1> QED
  BY <1>1, <1>2, RelayKeepsB, AgentConnectsB, AgentReadsB, AgentHangsUpB, AgentDecidesB,
     AgentSendsB, AppConnectsB, AppReadsB, AppActsB DEF Next, Conns

\* What stands first on a queue and is of an App's session is of the pair's.
LEMMA FirstOfPair ==
  ASSUME BInv, NEW c \in Conns, NEW m \in AppConns
  PROVE  /\ up[c] # <<>> /\ About(Head(up[c]), m) =>
              \E b \in AgentConns : Paired(m, b) /\ Head(up[c]) \in Said(m, b, c)
         /\ down[c] # <<>> /\ About(Head(down[c]), m) =>
              \E b \in AgentConns : Paired(m, b) /\ Head(down[c]) \in Heard(m, b, c)
<1>1. QueuesTyped /\ (Unpaired(m) \/ \E b \in AgentConns : Paired(m, b))
  BY BQueues DEF BInv, VInv, EveryPair
<1>2. ASSUME NEW q \in Seq(Messages), q # <<>>, About(Head(q), m), NEW S, Only(q, m, S)
      PROVE  Head(q) \in S
  BY <1>2, OnlyTaken
<1> QED BY <1>1, <1>2 DEF QueuesTyped, Unpaired, Paired, Talks

LEMMA AppsCanRead ==
  ASSUME BInv
  PROVE  AppCanRead
<1> SUFFICES ASSUME NEW m \in AppConns, NextIs(down, m, E2EData), phase[m] # "closed"
             PROVE  phase[m] = "ready" /\ Head(down[m]).agent = agentOf[m]
  BY DEF AppCanRead
<1> USE WireAssumption
<1> DEFINE msg == Head(down[m])
<1>1. QueuesTyped /\ OwnTalk /\ m \in Conns /\ down[m] # <<>> /\ msg.type \in E2EData
  BY BQueues DEF BInv, VInv, NextIs, Conns
<1>2. 1 \in DOMAIN down[m] /\ msg = down[m][1]
  BY <1>1, Taken DEF QueuesTyped
<1>3. About(msg, m)
  BY <1>1, <1>2 DEF OwnTalk, About, Talking
<1>4. PICK b \in AgentConns : Paired(m, b) /\ msg \in Heard(m, b, m)
  BY <1>1, <1>3, FirstOfPair
<1>5. msg \in DataOf(m, b) /\ msg.agent = b
  BY <1>1, <1>4 DEF Heard, AgentTalk, Answer, ReadyOf, FailureOf, DataOf, Frame, E2EData
<1>6. phase[m] = "ready"
  BY <1>1, <1>4, <1>5, LeadsTaken DEF QueuesTyped, Paired, Talked, AppTold
<1> QED BY <1>4, <1>5, <1>6 DEF Paired, Parties, Late

LEMMA AgentsCanRead ==
  ASSUME BInv
  PROVE  AgentCanRead
<1> SUFFICES ASSUME NEW d \in Devices, cur[d] # None, NextIs(down, cur[d], E2EData),
                    e2e[Head(down[cur[d]]).app] # "none"
             PROVE  /\ e2e[Head(down[cur[d]]).app] = "ready"
                    /\ OwnSession(d, Head(down[cur[d]]))
  BY DEF AgentCanRead
<1> USE WireAssumption
<1> DEFINE c == cur[d]
           msg == Head(down[c])
           m == msg.app
<1>1. /\ VInv /\ AgentIInv /\ Admissions /\ QueuesTyped /\ c \in AgentConns /\ c \in Conns
      /\ DeviceOf[c] = d /\ c \notin AppConns
      /\ down[c] # <<>> /\ msg.type \in E2EData /\ e2e[m] # "none"
  BY BQueues DEF BInv, VInv, PInv, AgentIInv, AgentTypeOK, OwnConnection, Conns, NextIs
<1>2. m \in AppConns /\ DeviceOf[m] = d
  <2>1. down[c] \in Seq(FramesFor(c))
    BY <1>1 DEF VInv, PInv, DownOK
  <2>2. msg \in FramesFor(c)
    BY <1>1, <2>1, TailFrames
  <2> QED BY <1>1, <2>2 DEF FramesFor, AboutApps, E2EData
<1>3. About(msg, m)
  BY <1>1 DEF About, Talking
<1>4. PICK b \in AgentConns : Paired(m, b) /\ msg \in Heard(m, b, c)
  BY <1>1, <1>2, <1>3, FirstOfPair
<1>5. msg \in DataOf(m, b) /\ msg.agent = b /\ msg.ref = m
  BY <1>1, <1>2, <1>4 DEF Heard, AppTalk, Opening, ReadyOf, DataOf, Frame, E2EData
<1>6. cur[DeviceOf[m]] = b /\ agentId[DeviceOf[m]] = b
  BY <1>1, <1>2, <1>4, SessionAdmitted DEF Paired
<1>7. e2e[m] # "handshaking"
  BY <1>1, <1>2, <1>4, <1>5, <1>6, LeadsTaken DEF QueuesTyped, Paired, Talked, AgentTold
<1>8. e2e[m] \in {"none", "handshaking", "ready"}
  BY <1>1, <1>2 DEF AgentIInv, AgentTypeOK
<1> QED BY <1>1, <1>2, <1>5, <1>6, <1>7, <1>8 DEF OwnSession

LEMMA RelayCanForward ==
  ASSUME BInv
  PROVE  RelayForwards
<1> SUFFICES ASSUME NEW m \in AppConns, NextIs(up, m, E2EData), sock[m] = "open",
                    e2e[m] # "none", primary[DeviceOf[m]] = cur[DeviceOf[m]]
             PROVE  PairReady(m)
  BY DEF RelayForwards
<1> USE WireAssumption
<1> DEFINE msg == Head(up[m])
<1>1. /\ VInv /\ Admissions /\ OwnTalk /\ QueuesTyped /\ m \in Conns
      /\ up[m] # <<>> /\ msg.type \in E2EData
  BY BQueues DEF BInv, VInv, NextIs, Conns
<1>2. 1 \in DOMAIN up[m] /\ msg = up[m][1]
  BY <1>1, Taken DEF QueuesTyped
<1>3. About(msg, m)
  BY <1>1, <1>2 DEF OwnTalk, About, Talking
<1>4. PICK b \in AgentConns : Paired(m, b) /\ msg \in Said(m, b, m)
  BY <1>1, <1>3, FirstOfPair
<1>5. msg \in DataOf(m, b)
  BY <1>1, <1>4 DEF Said, AppTalk, Opening, ReadyOf, DataOf, Frame, E2EData
<1>6. primary[DeviceOf[m]] = b
  BY <1>4 DEF Paired, Parties
<1>7. /\ state[m] \in HandshakeStates /\ state[m] # "e2e_handshaking"
  BY <1>1, <1>4, <1>5, LeadsTaken DEF QueuesTyped, Paired, Talked, RelayTold
<1>8. state[m] = "e2e_ready" /\ hs[m] = m /\ th[m] = b
  BY <1>4, <1>7 DEF Paired, Talked, RelayTold, HandshakeStates
<1>9. Has(up[m], DataOf(m, b))
  BY <1>2, <1>5 DEF Has
<1>10. peer[b][m].state = "ready" /\ peer[b][m].hs = m /\ peer[b][m].th = b
  BY <1>4, <1>9 DEF Paired, Talked, RelayTold
<1>11. role[m] = "mobile"
  BY <1>1, <1>4 DEF Admissions, Paired, Parties
<1>12. b # None /\ m # None
  BY DEF Conns
<1> QED BY <1>6, <1>8, <1>10, <1>11, <1>12 DEF PairReady

\* No business frame is dropped between an App and the Agent it has a session
\* with (sendToAppByConnectionId, MobileRelaySession.send): each of the relay, the
\* App and the Agent is ready for it, under the session it was sent in, before
\* it comes, however the two handshakes of a device's connections interleave.
THEOREM BusinessArrives == Spec => []BusinessReadable
<1>1. BInv => BusinessReadable
  BY AppsCanRead, AgentsCanRead, RelayCanForward DEF BusinessReadable
<1> QED BY <1>1, InitBInv, NextBInv, PTL DEF Spec

-----------------------------------------------------------------------------
(* The system with the relay's upgrade orchestrator.                       *)

UInv == VInv /\ UpgradeTypeOK /\ asked \in [AppConns -> 0 .. MaxAsks] /\ UpgradesCurrent

\* Proposals and the refusal of an ask: frames nothing above is about.
LEMMA ProposeWrites ==
  ASSUME PInv, NEW m \in AppConns,
         Propose(m) \/ down' = Push(m, Plain("protocol.error")) \/ UNCHANGED down
  PROVE  DownOK' /\ DownExtends
<1> DEFINE f == Frame("tunnel.upgrade.propose", m, None, None)
           e == Plain("protocol.error")
<1>1. \A c \in Conns : /\ f \in FramesFor(c) /\ f \in QuietFor(c)
                       /\ e \in FramesFor(c) /\ e \in QuietFor(c)
  BY DEF FramesFor, QuietFor, Messages, Types, Plain, Frame, AboutApps, E2EData
<1>2. /\ down \in [Conns -> Seq(Messages)]
      /\ \A c \in Conns : down[c] \in Seq(Messages) /\ down[c] \in Seq(FramesFor(c))
  BY DEF PInv, DownOK
<1> HIDE DEF f, e
<1>3. /\ down' \in [Conns -> Seq(Messages)]
      /\ \A c \in Conns : down'[c] = down[c] \/ \E g \in {f, e} : down'[c] = Append(down[c], g)
  <2>1. CASE Propose(m)
    <3>1. down' = [c \in Conns |-> IF c \in {m, primary[DeviceOf[m]]} THEN Push(c, f)[c]
                                   ELSE down[c]]
      BY <2>1 DEF Propose, f
    <3>2. \A c \in Conns : Push(c, f)[c] \in {down[c], Append(down[c], f)}
      BY <1>2 DEF Push
    <3>3. \A c \in Conns : Append(down[c], f) \in Seq(Messages)
      BY <1>1, <1>2 DEF FramesFor
    <3> QED BY <1>2, <3>1, <3>2, <3>3
  <2>2. CASE down' = Push(m, e)
    <3>1. m \in Conns /\ down' \in {down, [down EXCEPT ![m] = Append(@, e)]}
      BY <2>2 DEF Push, Conns
    <3>2. \A c \in Conns : Append(down[c], e) \in Seq(Messages)
      BY <1>1, <1>2 DEF FramesFor
    <3> QED BY <1>2, <3>1, <3>2
  <2> QED BY <1>2, <2>1, <2>2 DEF e
<1>4. ASSUME NEW c \in Conns PROVE down'[c] \in Seq(FramesFor(c))
  <2> DEFINE S == FramesFor(c)
  <2>1. f \in S /\ e \in S /\ down[c] \in Seq(S)
    BY <1>1, <1>2
  <2> HIDE DEF S
  <2>2. \A g \in {f, e} : Append(down[c], g) \in Seq(S)
    BY <2>1
  <2> QED BY <1>3, <2>1, <2>2 DEF S
<1>5. \A c \in Conns : Extends(down[c], down'[c], QuietFor(c))
  BY <1>1, <1>2, <1>3, Extended
<1> QED BY <1>3, <1>4, <1>5 DEF DownOK, DownExtends

LEMMA RelayRests ==
  ASSUME IInv, UNCHANGED relayVars
  PROVE  IInv'
BY DEF relayVars, IInv, RelayTypeOK, Endpoints, Fresh, SoleAgent, AgentIndex, MobileIndex,
       HandshakeAuthenticated

\* The steps the orchestrator adds leave the pairing and who vouches in it alone.
LEMMA AsksKeepV ==
  ASSUME VInv, NEW m \in AppConns, RelayReadsAsk(m) \/ TimerFires(m) \/ AppAsks(m)
  PROVE  VInv'
<1>1. CASE RelayReadsAsk(m) \/ TimerFires(m)
  <2>1. /\ UNCHANGED <<relayVars, agentVars, appVars>>
        /\ \/ UNCHANGED up
           \/ up[m] # <<>> /\ up' = [up EXCEPT ![m] = Tail(@)]
        /\ Propose(m) \/ down' = Push(m, Plain("protocol.error")) \/ UNCHANGED down
    BY <1>1 DEF RelayReadsAsk, TimerFires, NetworkChanged, FireTimer, NextIs
  <2>2. DownOK' /\ DownExtends
    BY <2>1, ProposeWrites DEF VInv
  <2>3. m \in Conns
    BY DEF Conns
  <2>4. UpOK'
    BY <2>1, <2>3, TakeKeepsUp DEF VInv, PInv, UpOK
  <2>5. IInv'
    BY <2>1, RelayRests DEF VInv, PInv
  <2>6. PInv'
    BY <2>1, <2>2, <2>4, <2>5, AgentRests, AppRests DEF VInv, PInv
  <2>7. \A msg : Admits(None, msg)
    BY <2>1 DEF Admits, relayVars
  <2> QED BY <2>1, <2>2, <2>3, <2>6, <2>7, RelayActsV
<1>2. CASE AppAsks(m)
  <2> DEFINE f == Frame("app.network.changed", m, None, None)
  <2>1. /\ up' = [up EXCEPT ![m] = @ \o <<f>>] /\ phase[m] # "idle"
        /\ UNCHANGED <<down, relayVars, agentVars, appVars>>
    BY <1>2 DEF AppAsks, AppSend
  <2>2. f \in Sendable /\ f \in AppMild
    BY DEF Sendable, Asks, AppMild, Frame
  <2> HIDE DEF f
  <2>3. <<f>> \in Seq(Sendable) /\ <<f>> \in Seq(AppMild)
    BY <2>2
  <2>4. UpOK'
    BY <2>1, <2>3, WriteKeepsUp DEF VInv, PInv
  <2>5. IInv'
    BY <2>1, RelayRests DEF VInv, PInv
  <2>6. PInv'
    BY <2>1, <2>4, <2>5, AgentRests, AppRests DEF VInv, PInv, DownOK, FramesFor
  <2>7. AppMildly(m) /\ TookFrom(m)
    BY <2>1, <2>3 DEF AppMildly, TookFrom
  <2>8. UNCHANGED <<authVars, pending, agentOf, phase>>
    BY <2>1 DEF relayVars, authVars, appVars
  <2> QED BY <2>1, <2>6, <2>7, <2>8, AppGoesOnV
<1> QED BY <1>1, <1>2

\* A step of UNext is one of Next, or of those.
LEMMA UNextVInv ==
  ASSUME VInv, [UNext]_uvars
  PROVE  VInv' /\ ([Next]_vars \/ UNCHANGED authed)
<1>1. CASE \E m \in AppConns : RelayReadsAsk(m) \/ TimerFires(m) \/ AppAsks(m)
  <2>1. UNCHANGED authed
    BY <1>1 DEF RelayReadsAsk, TimerFires, AppAsks, NetworkChanged, FireTimer, relayVars
  <2> QED BY <1>1, <2>1, AsksKeepV
<1>2. CASE [Next]_vars
  BY <1>2, NextVInv
<1> QED BY <1>1, <1>2 DEF UNext, uvars, RelayReads, RelayActs, ClientsAct, Next

\* The same holds with proposals and asks among the frames.
THEOREM VouchedForUpgrading == USpec => VouchedByChallenger
<1>1. UInit => VInv
  BY InitVInv DEF UInit
<1>2. VInv /\ [UNext]_uvars => VInv'
  BY UNextVInv
<1>3. VInv /\ [UNext]_uvars =>
        [\A m \in AppConns :
           ~authed[m] /\ authed'[m] =>
             /\ phase[m] \in {"proved", "closed"}
             /\ \E a \in AgentConns :
                  /\ pending[m] = a /\ Head(up[a]).app = m
                  /\ phase[m] = "proved" => agentOf[m] = a]_vars
  <2> SUFFICES ASSUME VInv, [UNext]_uvars, NEW m \in AppConns, ~authed[m], authed'[m]
               PROVE  /\ phase[m] \in {"proved", "closed"}
                      /\ \E a \in AgentConns :
                           /\ pending[m] = a /\ Head(up[a]).app = m
                           /\ phase[m] = "proved" => agentOf[m] = a
    OBVIOUS
  <2>1. [Next]_vars
    BY UNextVInv
  <2> QED BY <2>1, VouchStep
<1> QED BY <1>1, <1>2, <1>3, PTL DEF USpec, VouchedByChallenger

\* A step of the relay, and what its callbacks do to the orchestrator.
LEMMA SteppedKeeps ==
  ASSUME UpgradeTypeOK, UpgradesCurrent, NEW N, RelayStepped(N),
         primary \in [Devices -> AgentConns \cup {None}],
         \A m \in AppConns \cap N : sock[m] = "open"
  PROVE  UpgradeTypeOK' /\ UpgradesCurrent'
<1> USE WireAssumption
<1>1. UpgradeTypeOK'
  BY DEF RelayStepped, UpgradeTypeOK
<1>2. ASSUME NEW m \in AppConns, sock[m] = "open", m \notin Lost
      PROVE  /\ sock'[m] = "open"
             /\ \A a \in AgentConns :
                  primary[DeviceOf[m]] = a => primary'[DeviceOf[m]] = a
  BY <1>2 DEF Lost, AppsLost, DevicesLost, Conns
<1>3. UpgradesCurrent'
  <2> SUFFICES ASSUME NEW m \in AppConns
               PROVE  /\ timer'[m] => sock'[m] = "open"
                      /\ \A a \in AgentConns :
                           flights'[m][a] > 0 =>
                             sock'[m] = "open" /\ primary'[DeviceOf[m]] = a
    BY DEF UpgradesCurrent
  <2>1. timer'[m] => sock'[m] = "open"
    BY <1>2 DEF RelayStepped, UpgradesCurrent
  <2>2. ASSUME NEW a \in AgentConns, flights'[m][a] > 0
        PROVE  sock'[m] = "open" /\ primary'[DeviceOf[m]] = a
    <3>1. m \notin Lost /\ flights[m][a] > 0
      BY <2>2 DEF RelayStepped
    <3> QED BY <1>2, <3>1 DEF UpgradesCurrent
  <2> QED BY <2>1, <2>2
<1> QED BY <1>1, <1>3

LEMMA ProposeKeeps ==
  ASSUME UpgradeTypeOK, UpgradesCurrent, NEW m \in AppConns, Propose(m),
         sock[m] = "open", primary[DeviceOf[m]] \in AgentConns,
         UNCHANGED <<sock, primary>>,
         timer' \in [AppConns -> BOOLEAN],
         \A n \in AppConns : timer'[n] => timer[n]
  PROVE  UpgradeTypeOK' /\ UpgradesCurrent'
<1> DEFINE b == primary[DeviceOf[m]]
<1>1. /\ flights' = [flights EXCEPT ![m][b] = @ + 1]
      /\ flights \in [AppConns -> [AgentConns -> Nat]]
  BY DEF Propose, UpgradeTypeOK
<1>2. b \in AgentConns
  OBVIOUS
<1> HIDE DEF b
<1>3. flights' \in [AppConns -> [AgentConns -> Nat]]
  BY <1>1, <1>2
<1>4. \A n \in AppConns, a \in AgentConns :
        flights'[n][a] = flights[n][a] \/ (n = m /\ a = b)
  BY <1>1, <1>2
<1> QED BY <1>3, <1>4 DEF UpgradeTypeOK, UpgradesCurrent, b

LEMMA NextUInv ==
  ASSUME UInv, [UNext]_uvars
  PROVE  UInv'
<1> USE WireAssumption DEF UInv
<1>0. /\ VInv' /\ VInv
      /\ primary \in [Devices -> AgentConns \cup {None}]
  BY UNextVInv DEF VInv, PInv, IInv, RelayTypeOK
<1> SUFFICES /\ UpgradeTypeOK' /\ UpgradesCurrent'
             /\ asked' \in [AppConns -> 0 .. MaxAsks]
  BY <1>0
<1>1. ASSUME NEW c \in Conns, RelayReads(c)
      PROVE  UpgradeTypeOK' /\ UpgradesCurrent' /\ UNCHANGED asked
  <2>1. \A m \in AppConns \cap NotifiedBy(c, Head(up[c])) : sock[m] = "open"
    BY DEF NotifiedBy, KnowsHandshake, MobileOf
  <2> QED BY <1>0, <1>1, <2>1, SteppedKeeps DEF RelayReads
<1>2. CASE RelayActs
  <2>1. UpgradeTypeOK' /\ UpgradesCurrent'
    BY <1>0, <1>2, SteppedKeeps DEF RelayActs
  <2> QED BY <1>2, <2>1 DEF RelayActs
<1>3. ASSUME NEW m \in AppConns, RelayReadsAsk(m)
      PROVE  UpgradeTypeOK' /\ UpgradesCurrent' /\ UNCHANGED asked
  <2>1. UNCHANGED <<relayVars, timer, asked>>
    BY <1>3 DEF RelayReadsAsk, NetworkChanged
  <2>2. CASE UNCHANGED flights
    BY <2>1, <2>2 DEF UpgradeTypeOK, UpgradesCurrent, relayVars
  <2>3. CASE PairReady(m) /\ Propose(m)
    <3>1. sock[m] = "open" /\ primary[DeviceOf[m]] \in AgentConns
      BY <1>0, <2>3 DEF PairReady, Conns
    <3> QED BY <2>1, <2>3, <3>1, ProposeKeeps DEF UpgradeTypeOK, relayVars
  <2> QED BY <1>3, <2>1, <2>2, <2>3 DEF RelayReadsAsk, NetworkChanged
<1>4. ASSUME NEW m \in AppConns, TimerFires(m)
      PROVE  UpgradeTypeOK' /\ UpgradesCurrent' /\ UNCHANGED asked
  <2>1. /\ UNCHANGED <<relayVars, asked>> /\ timer[m]
        /\ timer' = [timer EXCEPT ![m] = FALSE]
    BY <1>4 DEF TimerFires, FireTimer
  <2>2. timer' \in [AppConns -> BOOLEAN] /\ \A n \in AppConns : timer'[n] => timer[n]
    BY <2>1 DEF UpgradeTypeOK
  <2>3. CASE UNCHANGED flights
    BY <2>1, <2>2, <2>3 DEF UpgradeTypeOK, UpgradesCurrent, relayVars
  <2>4. CASE primary[DeviceOf[m]] # None /\ Propose(m)
    <3>1. sock[m] = "open" /\ primary[DeviceOf[m]] \in AgentConns
      BY <1>0, <2>1, <2>4 DEF UpgradesCurrent, Conns
    <3> QED BY <2>1, <2>2, <2>4, <3>1, ProposeKeeps DEF relayVars
  <2> QED BY <1>4, <2>1, <2>3, <2>4 DEF TimerFires, FireTimer
<1>5. ASSUME NEW m \in AppConns, AppAsks(m)
      PROVE  UpgradeTypeOK' /\ UpgradesCurrent' /\ asked' \in [AppConns -> 0 .. MaxAsks]
  <2>1. UpgradeTypeOK' /\ UpgradesCurrent'
    BY <1>5 DEF AppAsks, UpgradeTypeOK, UpgradesCurrent, upgradeVars, relayVars
  <2>2. asked' \in [AppConns -> 0 .. MaxAsks]
    BY <1>5, AsksAssumption DEF AppAsks
  <2> QED BY <2>1, <2>2
<1>6. CASE ClientsAct
  <2>1. UNCHANGED <<upgradeVars, asked>>
    BY <1>6 DEF ClientsAct
  <2>2. UNCHANGED primary /\ \A m \in AppConns : sock[m] = "open" => sock'[m] = "open"
    <3>1. UNCHANGED <<sock, primary>> \/ \E c \in Conns : Accept(c)
      BY <1>6 DEF ClientsAct, AgentConnects, AgentReads, AgentHangsUp, AgentDecides, AgentSends,
           AppConnects, AppReads, AppResumes, AppSends, AppLeaves, relayVars, Conns
    <3>2. sock \in [Conns -> SocketStates]
      BY <1>0 DEF VInv, PInv, IInv, RelayTypeOK
    <3> QED BY <3>1, <3>2 DEF Accept, topoVars, Conns
  <2> QED BY <2>1, <2>2 DEF upgradeVars, UpgradeTypeOK, UpgradesCurrent
<1>7. CASE UNCHANGED uvars
  BY <1>7 DEF uvars, vars, relayVars, upgradeVars, UpgradeTypeOK, UpgradesCurrent
<1> QED BY <1>1, <1>2, <1>3, <1>4, <1>5, <1>6, <1>7 DEF UNext

\* The orchestrator never proposes on behalf of an App that is gone, nor counts
\* an upgrade with an agent that no longer serves the device, whichever of the
\* relay's handlers ended the connection.
THEOREM UpgradesKept == USpec => []UpgradesSound
<1>1. UInit => UInv
  <2>1. UpgradeInit => UpgradeTypeOK /\ UpgradesCurrent
    BY DEF UpgradeInit, UpgradeTypeOK, UpgradesCurrent
  <2>2. asked = [m \in AppConns |-> 0] => asked \in [AppConns -> 0 .. MaxAsks]
    BY AsksAssumption
  <2> QED BY <2>1, <2>2, InitVInv DEF UInit, UInv
<1>2. UInv /\ [UNext]_uvars => UInv'
  BY NextUInv
<1>3. UInv => UpgradesSound
  BY PInvTyped DEF UInv, VInv, UpgradesSound, UTypeOK
<1> QED BY <1>1, <1>2, <1>3, PTL DEF USpec
=============================================================================
