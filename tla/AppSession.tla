----------------------------- MODULE AppSession -----------------------------
(***************************************************************************)
(* An App's relay session (MobileRelaySession): one connection, one        *)
(* pairing, one E2E handshake.  A session that closed is never reused; the *)
(* App makes a new one, with a new connection, to try again.               *)
(*                                                                         *)
(* Signing the proof and making the handshake are awaited, so frames       *)
(* arrive in between: those steps are actions of their own.                *)
(***************************************************************************)
EXTENDS Wire

VARIABLES
  phase,    \* how far the session is, see Phases
  agentOf,  \* authAgentConnectionId, then the agent of handshake and session
  queued,   \* pendingBusinessMessages (how many wait for the peer)
  sent      \* business messages handed to the session so far

appVars == <<phase, agentOf, queued, sent>>

(***************************************************************************)
(*   idle       before mobile.connect                                      *)
(*   connected  mobile.connect sent                                        *)
(*   signing    auth.challenge arrived, the proof is being signed          *)
(*   proved     auth.proof sent                                            *)
(*   keying     auth.ok accepted, the handshake is being made              *)
(*   initiated  e2e.handshake.init sent (e2eHandshake)                     *)
(*   session    reply accepted, e2e.ready sent (e2eSession)                *)
(*   ready      the agent's e2e.ready accepted (e2ePeerReady)              *)
(*   closed                                                                *)
(***************************************************************************)
Phases == {"idle", "connected", "signing", "proved", "keying", "initiated",
           "session", "ready", "closed"}

AppTypeOK ==
  /\ phase \in [AppConns -> Phases]
  /\ agentOf \in [AppConns -> AgentConns \cup {None}]
  /\ queued \in [AppConns -> 0 .. MaxSend]
  /\ sent \in [AppConns -> 0 .. MaxSend]

AppInit ==
  /\ phase = [m \in AppConns |-> "idle"]
  /\ agentOf = [m \in AppConns |-> None]
  /\ queued = [m \in AppConns |-> 0]
  /\ sent = [m \in AppConns |-> 0]

AppSend(m, frames) == up' = [up EXCEPT ![m] = @ \o frames]

\* clearSession, and the WebSocket close frame with it.
AppShut(m, frames) ==
  /\ phase' = [phase EXCEPT ![m] = "closed"]
  /\ agentOf' = [agentOf EXCEPT ![m] = None]
  /\ queued' = [queued EXCEPT ![m] = 0]
  /\ AppSend(m, frames \o <<Close>>)
  /\ UNCHANGED sent

\* connect
AppConnect(m) ==
  /\ phase[m] = "idle"
  /\ phase' = [phase EXCEPT ![m] = "connected"]
  /\ AppSend(m, <<Plain("mobile.connect")>>)
  /\ UNCHANGED <<agentOf, queued, sent>>

\* handleAuthChallenge, up to the await.  agentOf holds the challenge's agent
\* connection; the code keeps it in a local until the proof is sent.
AppRecvChallenge(m, msg) ==
  /\ phase' = [phase EXCEPT ![m] = "signing"]
  /\ agentOf' = [agentOf EXCEPT ![m] = msg.agent]
  /\ UNCHANGED <<queued, sent, up>>

\* ... and after it.
AppSendProof(m) ==
  /\ phase[m] = "signing"
  /\ phase' = [phase EXCEPT ![m] = "proved"]
  /\ AppSend(m, <<Frame("auth.proof", m, agentOf[m], m)>>)
  /\ UNCHANGED <<agentOf, queued, sent>>

\* handleAuthOk, up to the await: the nonce and the ids of the challenge are
\* checked and used up.
AppRecvAuthOk(m, msg) ==
  IF phase[m] = "proved" /\ msg.app = m /\ msg.ref = m /\ msg.agent = agentOf[m]
  THEN /\ phase' = [phase EXCEPT ![m] = "keying"]
       /\ UNCHANGED <<agentOf, queued, sent, up>>
  ELSE AppShut(m, <<>>)

\* Mutant of AppSendHandshakeInit: the handshake_id is left out.
AppSendHandshakeInitNoId(m) ==
  /\ phase[m] = "keying"
  /\ phase' = [phase EXCEPT ![m] = "initiated"]
  /\ AppSend(m, <<Frame("e2e.handshake.init", m, agentOf[m], None)>>)
  /\ UNCHANGED <<agentOf, queued, sent>>

AppSendHandshakeInit(m) ==
  /\ phase[m] = "keying"
  /\ phase' = [phase EXCEPT ![m] = "initiated"]
  /\ AppSend(m, <<Frame("e2e.handshake.init", m, agentOf[m], m)>>)
  /\ UNCHANGED <<agentOf, queued, sent>>

\* handleE2EHandshakeReply
AppRecvReply(m, msg) ==
  CASE phase[m] # "initiated" -> UNCHANGED <<appVars, up>>
    [] phase[m] = "initiated" /\ msg.ref = m /\ msg.agent = agentOf[m] ->
         /\ phase' = [phase EXCEPT ![m] = "session"]
         /\ AppSend(m, <<Frame("e2e.ready", m, agentOf[m], m)>>)
         /\ UNCHANGED <<agentOf, queued, sent>>
    [] OTHER -> AppShut(m, <<>>)

\* handleE2EReady: what waited for the peer goes out, in order.
AppRecvE2EReady(m, msg) ==
  CASE \/ phase[m] \notin {"session", "ready"}
       \/ msg.app # m \/ msg.ref # m \/ msg.agent # agentOf[m] -> AppShut(m, <<>>)
    [] phase[m] = "ready" /\ msg = Frame("e2e.ready", m, agentOf[m], m) ->
         UNCHANGED <<appVars, up>>
    [] OTHER ->
         /\ phase' = [phase EXCEPT ![m] = "ready"]
         /\ queued' = [queued EXCEPT ![m] = 0]
         /\ AppSend(m, [i \in 1 .. queued[m] |->
                          Frame("e2e.message", m, agentOf[m], m)])
         /\ UNCHANGED <<agentOf, sent>>

\* handleE2EMessage: nothing is said about a message that cannot be read yet.
AppRecvE2EMessage(m, msg) ==
  IF phase[m] = "ready" /\ msg.app = m /\ msg.agent # agentOf[m]
  THEN AppShut(m, <<>>)
  ELSE UNCHANGED <<appVars, up>>

\* e2e.failed counts once auth.ok has set appConnectionId.
AppRecvE2EFailed(m, msg) ==
  IF msg.app = m /\ phase[m] \in {"keying", "initiated", "session", "ready"}
  THEN AppShut(m, <<>>)
  ELSE UNCHANGED <<appVars, up>>

\* MobileRelaySession.close, with a goodbye while the peer is there: the user
\* leaves, or the screen closes the session on auth.failed (onAuthFailed).
AppClose(m) ==
  /\ phase[m] \notin {"idle", "closed"}
  /\ AppShut(m, IF phase[m] = "ready"
                THEN <<Frame("e2e.goodbye", m, agentOf[m], m)>> ELSE <<>>)

\* send, for a business message.
AppSendBusiness(m) ==
  /\ phase[m] \notin {"idle", "closed"}
  /\ sent[m] < MaxSend
  /\ sent' = [sent EXCEPT ![m] = @ + 1]
  /\ IF phase[m] = "ready"
     THEN /\ AppSend(m, <<Frame("e2e.message", m, agentOf[m], m)>>)
          /\ UNCHANGED queued
     ELSE /\ queued' = [queued EXCEPT ![m] = @ + 1]
          /\ UNCHANGED up
  /\ UNCHANGED <<phase, agentOf>>

\* handleIncomingMessage: a closed session handles nothing.
AppHandle(m, msg) ==
  CASE phase[m] = "closed"                 -> UNCHANGED <<appVars, up>>
    [] phase[m] # "closed" /\ msg.type = "close"      -> AppShut(m, <<>>)
    [] phase[m] # "closed" /\ msg.type = "auth.challenge" -> AppRecvChallenge(m, msg)
    [] phase[m] # "closed" /\ msg.type = "auth.ok"    -> AppRecvAuthOk(m, msg)
    [] phase[m] # "closed" /\ msg.type = "auth.failed" -> AppClose(m)
    [] phase[m] # "closed" /\ msg.type = "e2e.handshake.reply" -> AppRecvReply(m, msg)
    [] phase[m] # "closed" /\ msg.type = "e2e.ready"  -> AppRecvE2EReady(m, msg)
    [] phase[m] # "closed" /\ msg.type \in E2EData    -> AppRecvE2EMessage(m, msg)
    [] phase[m] # "closed" /\ msg.type = "e2e.failed" -> AppRecvE2EFailed(m, msg)
    [] OTHER                               -> UNCHANGED <<appVars, up>>
=============================================================================
