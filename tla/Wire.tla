-------------------------------- MODULE Wire --------------------------------
(***************************************************************************)
(* The relay's WebSocket connections and the frames on them.               *)
(*                                                                         *)
(* A connection id is drawn fresh (conn_<uuid>) for every accepted socket, *)
(* so a member of AgentConns or AppConns is used for at most one socket:   *)
(* /agent sockets come from AgentConns, /mobile sockets from AppConns.     *)
(* TCP keeps each direction of a socket in order; up[c] holds the frames   *)
(* from the client of c to the relay and down[c] the frames to the client. *)
(***************************************************************************)
EXTENDS Naturals, Sequences

CONSTANTS AgentConns,   \* connection ids of Desktop Agent sockets
          AppConns,     \* connection ids of App (mobile) sockets
          Devices,      \* device ids
          DeviceOf,     \* the device id a connection's client names
          None,
          MaxSend       \* bound: business messages each end of an App
                        \* connection sends

Conns == AgentConns \cup AppConns

ASSUME WireAssumption ==
  /\ AgentConns \cap AppConns = {}
  /\ DeviceOf \in [Conns -> Devices]
  /\ None \notin Conns \cup Devices
  /\ MaxSend \in Nat

(***************************************************************************)
(* One record shape for every frame.                                       *)
(*   app    connection_id / app_connection_id                              *)
(*   agent  agent_connection_id while pairing; in the E2E frames the agent *)
(*          connection whose key exchange the transcript_hash and the      *)
(*          e2e_session_id are derived from                                *)
(*   ref    the random value the frame quotes: the nonce of auth.* frames, *)
(*          the handshake_id of e2e.* frames.  The relay draws one nonce   *)
(*          and the App one handshake_id per App connection, so that       *)
(*          connection stands for both                                     *)
(* "e2e.goodbye" is an e2e.message whose inner message is                  *)
(* app.connection.goodbye; the relay cannot tell it from another.          *)
(* "close" is a WebSocket close frame.                                     *)
(***************************************************************************)
E2EData == {"e2e.message", "e2e.goodbye"}

Types ==
  {"agent.auth.init", "agent.auth.challenge", "agent.hello",
   "mobile.connect", "auth.challenge", "auth.proof", "auth.verify",
   "auth.ok", "auth.pending", "auth.failed",
   "e2e.handshake.init", "e2e.handshake.reply", "e2e.ready", "e2e.failed",
   "app.network.changed", "tunnel.upgrade.propose",
   "protocol.error", "close"} \cup E2EData

Messages ==
  [type : Types, app : AppConns \cup {None}, agent : AgentConns \cup {None},
   ref : AppConns \cup {None}]

Frame(t, m, a, r) == [type |-> t, app |-> m, agent |-> a, ref |-> r]
Plain(t) == Frame(t, None, None, None)
Close == Plain("close")

VARIABLES up, down

wireVars == <<up, down>>

WireInit ==
  /\ up = [c \in Conns |-> <<>>]
  /\ down = [c \in Conns |-> <<>>]

WireTypeOK ==
  /\ up \in [Conns -> Seq(Messages)]
  /\ down \in [Conns -> Seq(Messages)]
=============================================================================
