--------------------------- MODULE PairingSystem ----------------------------
(***************************************************************************)
(* The relay between its real clients: one Desktop Agent process per       *)
(* device, reconnecting under new connection ids, and Apps pairing with it *)
(* and talking to it under E2E.  Every step is one handler of one program. *)
(***************************************************************************)
EXTENDS RelaySession, AgentGateway, AppSession

vars == <<up, down, relayVars, agentVars, appVars>>

TypeOK == WireTypeOK /\ RelayTypeOK /\ AgentTypeOK /\ AppTypeOK

Init == WireInit /\ RelayInit /\ AgentInit /\ AppInit

-----------------------------------------------------------------------------
(* The relay reads a frame, or acts on its own account.                    *)

Read(c) ==
  /\ sock[c] \in {"open", "ending"}
  /\ up[c] # <<>>
  /\ IF Head(up[c]).type = "close"
     THEN SocketEnded(c)
     ELSE Handle(c, Head(up[c]))
  /\ up' = [up EXCEPT ![c] = Tail(@)]
  /\ UNCHANGED <<agentVars, appVars>>

RelayCloses(c) ==
  CloseByRelay(c) /\ UNCHANGED <<up, agentVars, appVars>>

Expire(m) ==
  ExpirePending(m) /\ UNCHANGED <<up, agentVars, appVars>>

-----------------------------------------------------------------------------
(* The Agent process of device d.                                          *)

AgentConnects(d) ==
  \E a \in AgentConns :
    /\ DeviceOf[a] = d
    /\ Connect(d, a)
    /\ Accept(a)
    /\ UNCHANGED appVars

AgentReads(d) ==
  /\ cur[d] # None
  /\ down[cur[d]] # <<>>
  /\ AgentHandle(d, Head(down[cur[d]]))
  /\ down' = [down EXCEPT ![cur[d]] = Tail(@)]
  /\ UNCHANGED <<relayVars, appVars>>

\* The connection breaks at the Agent's end: the process restarts, the machine
\* sleeps, the network goes.  What it had written may still reach the relay.
AgentHangsUp(d) ==
  HangUp(d) /\ UNCHANGED <<down, relayVars, appVars>>

\* The administrator of the device.
AgentDecides(d) ==
  /\ \E x \in Apps : Approve(d, x) \/ Refuse(d, x) \/ Revoke(d, x) \/ Remove(d, x)
  /\ UNCHANGED <<down, relayVars, appVars>>

AgentSends(d) ==
  /\ \E m \in AppConns : DeviceOf[m] = d /\ SendBusiness(d, m)
  /\ UNCHANGED <<down, relayVars, appVars>>

-----------------------------------------------------------------------------
(* The App session on connection m.                                        *)

AppConnects(m) ==
  AppConnect(m) /\ Accept(m) /\ UNCHANGED agentVars

AppReads(m) ==
  /\ down[m] # <<>>
  /\ AppHandle(m, Head(down[m]))
  /\ down' = [down EXCEPT ![m] = Tail(@)]
  /\ UNCHANGED <<relayVars, agentVars>>

\* The awaited halves of handleAuthChallenge and handleAuthOk.
AppResumes(m) ==
  /\ AppSendProof(m) \/ AppSendHandshakeInit(m)
  /\ UNCHANGED <<down, relayVars, agentVars>>

AppSends(m) ==
  AppSendBusiness(m) /\ UNCHANGED <<down, relayVars, agentVars>>

AppLeaves(m) ==
  AppClose(m) /\ UNCHANGED <<down, relayVars, agentVars>>

-----------------------------------------------------------------------------
Next ==
  \/ \E c \in Conns : Read(c) \/ RelayCloses(c)
  \/ \E d \in Devices : \/ AgentConnects(d) \/ AgentReads(d) \/ AgentHangsUp(d)
                        \/ AgentDecides(d) \/ AgentSends(d)
  \/ \E m \in AppConns : \/ AppConnects(m) \/ AppReads(m) \/ AppResumes(m)
                         \/ AppSends(m) \/ AppLeaves(m) \/ Expire(m)

Spec == Init /\ [][Next]_vars

(***************************************************************************)
(* Fairness: each of the three programs is an event loop that gets round   *)
(* to a frame that has arrived and to an awaited result, and the relay's   *)
(* maintenance timer finds an expired challenge.  Nothing obliges the      *)
(* administrator to decide, a user to stay, or a connection to live.       *)
(***************************************************************************)
Fairness ==
  /\ \A c \in Conns : WF_vars(Read(c))
  /\ \A d \in Devices : WF_vars(AgentReads(d))
  /\ \A m \in AppConns : /\ WF_vars(AppReads(m))
                         /\ WF_vars(AppResumes(m))
                         /\ WF_vars(Expire(m))

FairSpec == Spec /\ Fairness

-----------------------------------------------------------------------------
(* Properties.                                                             *)

NextIs(q, c, types) == q[c] # <<>> /\ Head(q[c]).type \in types

\* The relay hands an App business frames only once the App can read them:
\* handleE2EMessage in the App drops, without a word, a frame that comes before
\* the peer is ready, and closes the session on one of another session.
AppCanRead ==
  \A m \in AppConns :
    NextIs(down, m, E2EData) /\ phase[m] # "closed" =>
      phase[m] = "ready" /\ Head(down[m]).agent = agentOf[m]

\* Likewise for the Agent: a business frame never reaches it between its own
\* e2e.ready and the App's, where handleE2EMessage would drop it, nor under
\* another session, which would end the session.
AgentCanRead ==
  \A d \in Devices :
    cur[d] # None /\ NextIs(down, cur[d], E2EData) =>
      LET msg == Head(down[cur[d]])
      IN  e2e[msg.app] # "none" => e2e[msg.app] = "ready" /\ OwnSession(d, msg)

\* While the Agent keeps its session with an App the relay never answers the
\* App's business with protocol.error: the pair is ready at the relay before
\* the first such frame arrives there, and stays so.
RelayForwards ==
  \A m \in AppConns :
    LET d == DeviceOf[m]
    IN  /\ NextIs(up, m, E2EData) /\ sock[m] = "open"
        /\ e2e[m] # "none" /\ primary[d] = cur[d]
        => PairReady(m)

\* No business frame is ever dropped between an App and the Agent it has a
\* session with: the relay, the App and the Agent are ready before it comes.
BusinessReadable == AppCanRead /\ AgentCanRead /\ RelayForwards

\* The Agent holds an E2E session only with an App whose record is active, and
\* lists the connection under that App, where revokeApp looks for it.
SessionsRevocable ==
  \A m \in AppConns :
    e2e[m] # "none" => /\ trust[DeviceOf[m]][AppOf[m]] = "active"
                       /\ known[m]

\* An App installation has at most one session at the Agent: pairing on a new
\* connection detaches the one before (detachSupersededAppConnection).
OneSessionPerApp ==
  \A m, n \in AppConns :
    e2e[m] # "none" /\ e2e[n] # "none" /\ AppOf[m] = AppOf[n]
      /\ DeviceOf[m] = DeviceOf[n] => m = n

\* What the administrator sees is all there is: an installation has one session,
\* and revoking the installation finds it.
SessionsHeld == SessionsRevocable /\ OneSessionPerApp

\* The relay marks an App authenticated only on the word of the agent
\* connection its own challenge named, while the App waits for that word.
VouchedByChallenger ==
  [][\A m \in AppConns :
       ~authed[m] /\ authed'[m] =>
         /\ phase[m] \in {"proved", "closed"}
         /\ \E a \in AgentConns :
              /\ pending[m] = a /\ Head(up[a]).app = m
              /\ phase[m] = "proved" => agentOf[m] = a]_vars

\* An App that registers for pairing gets an answer: a handshake begins or its
\* session is closed.  Expired challenges are swept (cleanupExpiredPendingAuth),
\* so an Agent that dies or an administrator who never decides cannot stop it.
PairingAnswered ==
  \A m \in AppConns :
    phase[m] \in {"connected", "signing", "proved"} ~>
      phase[m] \notin {"connected", "signing", "proved"}

\* A handshake ends, in a session or a closed one, unless the Agent's
\* connection is lost meanwhile; the App has no timer of its own for it.
HandshakeEnds ==
  \A m \in AppConns :
    phase[m] \in {"keying", "initiated", "session"} ~>
      \/ phase[m] \in {"ready", "closed"}
      \/ cur[DeviceOf[m]] # agentOf[m]

\* A revoked App's session closes, unless the Agent goes or trusts it again.
RevokedAppLeaves ==
  \A m \in AppConns :
    LET d == DeviceOf[m]
        x == AppOf[m]
    IN  phase[m] = "ready" /\ trust[d][x] # "active" /\ cur[d] = agentOf[m] ~>
          \/ phase[m] = "closed"
          \/ trust[d][x] = "active"
          \/ cur[d] # agentOf[m]

\* An App that asks for a session is not left waiting at any of its stages, nor
\* left in a session it has lost the right to.
ConnectingEnds == PairingAnswered /\ HandshakeEnds /\ RevokedAppLeaves

-----------------------------------------------------------------------------
(* What the documents say of the program and the code does not keep.       *)

\* relay-architecture-implementation.md: a new agent connection closes the old
\* one and the App connections that belong to it.  So an App that got past
\* pairing and is still connected belongs to the agent that serves the device.
AppFollowsAgent ==
  \A m \in AppConns :
    LET a == primary[DeviceOf[m]]
    IN  /\ phase[m] \in {"keying", "initiated", "session", "ready"}
        /\ sock[m] = "open" /\ a # None
        => agentOf[m] = a
=============================================================================
