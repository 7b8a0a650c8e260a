-------------------------- MODULE SessionTransport --------------------------
(***************************************************************************)
(* The two session transports of one App connection.  Each end has a path  *)
(* for its business: the relay, or a direct peer connection that an        *)
(* upgrade coordinator attached.  switchPath queues what is sent, waits    *)
(* DRAIN_DELAY_MS, changes the path and sends the queue.                   *)
(*                                                                         *)
(* The path carries frames of one E2E session, whose receiver takes only   *)
(* the sequence number it expects next.  The App seals a message when it   *)
(* is put on a path, the Agent before it gives it to its transport: what   *)
(* waits in a queue of the Agent has its number already.                   *)
(*                                                                         *)
(* Everything one end does is a function of the record that is its state;  *)
(* what it has sent and the other end has not taken yet is part of it.     *)
(***************************************************************************)
EXTENDS Naturals, Sequences, SequencesExt

CONSTANTS Upgrades,   \* upgrade ids; each names the peer connection made for it
          None

ASSUME TransportAssumption == None \notin Upgrades

Sides == {"app", "agent"}
Other(s) == IF s = "app" THEN "agent" ELSE "app"

(***************************************************************************)
(* propose comes from the relay in the clear; every other frame is sealed. *)
(* biz numbers the business messages of an end; seq is 0 until sealed.     *)
(***************************************************************************)
Kinds == {"propose", "offer", "answer", "candidate", "committed", "downgrade",
          "business"}
Frames == [kind : Kinds, up : Upgrades \cup {None}, biz : Nat, seq : Nat]
Control(k, u) == [kind |-> k, up |-> u, biz |-> 0, seq |-> 0]
Business(n) == [kind |-> "business", up |-> None, biz |-> n, seq |-> 0]

Paths == {"relay", "p2p"}
CoordinatorStates ==
  {"idle", "proposed", "negotiating", "committing", "upgraded"}

EndStates ==
  [\* UpgradeCoordinator
   st : CoordinatorStates, up : Upgrades \cup {None},
   peer : Upgrades \cup {None}, local : BOOLEAN, remote : BOOLEAN,
   sdp : {"none", "offered", "done"},
   \* SessionTransport; prefers: the App connected with transport_preference
   \* prefer_p2p, which each proposal repeats; strict is route.strictP2p
   path : Paths, tpeer : Upgrades \cup {None}, switching : BOOLEAN,
   queueing : BOOLEAN, outQ : Seq(Frames), parked : Seq(Frames),
   strict : BOOLEAN, prefers : BOOLEAN, drains : Seq(Paths), backgroundPaused : BOOLEAN,
   \* E2ESession
   tx : Nat, rx : Nat,
   \* peer connections not closed here, and those both ends have described
   alive : SUBSET Upgrades, linked : SUBSET Upgrades,
   \* sent and not yet taken by the other end
   relay : Seq(Frames), direct : [Upgrades -> Seq(Frames)],
   ended : {"no", "broken", "closed"},
   \* history: upgrades committed here, messages accepted and received
   commits : SUBSET Upgrades, accepted : Nat, got : Seq(Nat)]

\* p: the App prefers the direct path strictly.
StartState(s, p) ==
  [st |-> "idle", up |-> None, peer |-> None, local |-> FALSE,
   remote |-> FALSE, sdp |-> "none",
   path |-> "relay", tpeer |-> None, switching |-> FALSE, queueing |-> FALSE,
   outQ |-> <<>>, parked |-> <<>>, strict |-> (s = "app" /\ p),
   prefers |-> p,   drains |-> <<>>, backgroundPaused |-> FALSE, tx |-> 0, rx |-> 0, alive |-> {}, linked |-> {},
   relay |-> <<>>, direct |-> [u \in Upgrades |-> <<>>], ended |-> "no",
   commits |-> {}, accepted |-> 0, got |-> <<>>]

-----------------------------------------------------------------------------
(* Putting frames on a path.                                               *)

Seal(e, q) == [i \in 1..Len(q) |-> [q[i] EXCEPT !.seq = e.tx + i]]
Sealed(e, q) == [e EXCEPT !.tx = @ + Len(q)]

OverRelay(e, q) == [e EXCEPT !.relay = @ \o q]

\* A peer connection that was closed swallows what it is given.
OverDirect(e, q) ==
  IF e.tpeer \in e.alive THEN [e EXCEPT !.direct[e.tpeer] = @ \o q] ELSE e

\* Strict mode, App: forceClose; the wiring closes the whole session.
ForceClose(e) == [e EXCEPT !.ended = "closed"]

AppDetach(e) == [e EXCEPT !.tpeer = None]

\* The Agent's detachP2pPeer also closes the peer, puts the route back to the
\* relay and forgets what waits for a switch.
AgentDetach(e) ==
  [e EXCEPT !.path = "relay", !.queueing = FALSE, !.outQ = <<>>,
            !.switching = FALSE, !.alive = @ \ {e.tpeer}, !.tpeer = None]

Detach(s, e) == IF s = "app" THEN AppDetach(e) ELSE AgentDetach(e)

\* Strict mode, Agent: forceCloseConnection.  The route is not strict after it.
ForceCloseRoute(e) ==
  IF e.strict THEN [AgentDetach(e) EXCEPT !.strict = FALSE, !.parked = <<>>] ELSE e

\* Mutant of AppDispatch: no guard for a direct path without a peer.
AppDispatchUnguarded(e, q) ==
  IF e.path = "p2p" /\ e.tpeer # None
  THEN OverDirect(Sealed(e, q), Seal(e, q))
  ELSE OverRelay(Sealed(e, q), Seal(e, q))

\* dispatchSend for each message of q, which is not empty.  The App that may not
\* fall back is closed by the first, which ends the loop.
AppDispatch(e, q) ==
  IF e.path = "p2p" /\ e.tpeer # None
  THEN OverDirect(Sealed(e, q), Seal(e, q))
  ELSE IF e.prefers /\ e.path = "p2p"
       THEN ForceClose(e)
       ELSE OverRelay(Sealed(e, q), Seal(e, q))

\* The Agent's strict route is closed by the first, which is lost; the others
\* find an ordinary route back on the relay.
AgentDispatch(e, q) ==
  IF e.path = "p2p" /\ e.tpeer # None
  THEN OverDirect(e, q)
  ELSE IF e.strict THEN OverRelay(ForceCloseRoute(e), Tail(q)) ELSE OverRelay(e, q)

\* Nothing is sent by a session that is closed.
DispatchAll(s, e, q) ==
  IF q = <<>> \/ e.ended # "no" THEN e
  ELSE IF s = "app" THEN AppDispatch(e, q) ELSE AgentDispatch(e, q)

-----------------------------------------------------------------------------
(* Sending.                                                                *)

AppSend(e, m) ==
  IF e.prefers /\ e.path # "p2p"
  THEN [e EXCEPT !.parked = Append(@, m)]
  ELSE IF e.queueing THEN [e EXCEPT !.outQ = Append(@, m)] ELSE AppDispatch(e, <<m>>)

\* bypass is strictBypass, given to tunnel.upgrade.* frames.
AgentSend(e, m, bypass) ==
  LET q == Seal(e, <<m>>)
      n == Sealed(e, <<m>>)
  IN  IF e.strict /\ e.path # "p2p" /\ ~bypass
      THEN [n EXCEPT !.parked = @ \o q]
      ELSE IF e.queueing THEN [n EXCEPT !.outQ = @ \o q]
      ELSE IF bypass /\ e.path # "p2p" THEN OverRelay(n, q)
      ELSE AgentDispatch(n, q)

SendBusiness(s, e) ==
  LET n == [e EXCEPT !.accepted = @ + 1]
      m == Business(n.accepted)
  IN  IF s = "app" THEN AppSend(n, m) ELSE AgentSend(n, m, FALSE)

\* The App's coordinator sends on the relay whatever the path, past the queue.
SendControl(s, e, k) ==
  IF s = "app"
  THEN LET q == <<Control(k, e.up)>> IN OverRelay(Sealed(e, q), Seal(e, q))
  ELSE AgentSend(e, Control(k, e.up), TRUE)

-----------------------------------------------------------------------------
(* Switching.                                                              *)

SwitchRefused(e, target) ==
  \/ e.path = target
  \/ e.switching
  \/ target = "p2p" /\ e.tpeer = None
  \/ target = "relay" /\ e.strict

\* Mutant of SwitchPath: the path changes without a drain.
SwitchAtOnce(e, target) ==
  IF SwitchRefused(e, target) THEN e ELSE [e EXCEPT !.path = target]

SwitchPath(e, target) ==
  IF SwitchRefused(e, target) THEN e
  ELSE [e EXCEPT !.switching = TRUE, !.queueing = TRUE, !.outQ = <<>>,
                 !.drains = Append(@, target)]

\* Mutant of AfterDrain: the queue of the switch is forgotten.
AfterDrainForgets(s, e) ==
  [e EXCEPT !.path = Head(e.drains), !.drains = Tail(@),
            !.queueing = FALSE, !.outQ = <<>>, !.switching = FALSE]

\* switchPath after its delay.  Whatever happened meanwhile, it goes on.
AfterDrain(s, e) ==
  LET target == Head(e.drains)
      moved  == [e EXCEPT !.path = target, !.drains = Tail(@),
                          !.queueing = FALSE, !.outQ = <<>>]
      sent   == DispatchAll(s, moved, e.outQ)
      done   == IF target = "p2p"
                THEN DispatchAll(s, [sent EXCEPT !.parked = <<>>], sent.parked)
                ELSE sent
  IN  [done EXCEPT !.switching = FALSE]
=============================================================================
