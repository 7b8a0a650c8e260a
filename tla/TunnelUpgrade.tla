---------------------------- MODULE TunnelUpgrade ----------------------------
(***************************************************************************)
(* The direct path between one App and one Agent: their upgrade            *)
(* coordinators (the App offers, the Agent answers), their session         *)
(* transports, the E2E session both paths carry, and what interferes:      *)
(* timers, peer connections that fail, network changes, the background.    *)
(*                                                                         *)
(* end[s].relay is the way from s through the relay to the other end.      *)
(***************************************************************************)
EXTENDS SessionTransport

(***************************************************************************)
(* What a behaviour is given; the numbers are bounds.  disturbed:           *)
(* negotiations and peer connections may fail.  timely: DRAIN_DELAY_MS      *)
(* outlasts what is under way, and the App finds no candidate once its path *)
(* is direct.  changes: network changes and visits to the background.       *)
(* candidates: what each end finds after its offer or answer.               *)
(***************************************************************************)
SettingRecords ==
  [strict : BOOLEAN, disturbed : BOOLEAN, timely : BOOLEAN, upgrades : Nat,
   business : Nat, candidates : Nat, changes : Nat]

CONSTANT Settings

ASSUME TunnelAssumption == Settings \subseteq SettingRecords

VARIABLES setting,     \* the one this behaviour is given
          end,         \* the two ends
          used,        \* upgrades the relay has proposed
          candidates,  \* candidates found by each end
          changes      \* network changes and visits to the background so far

vars == <<setting, end, used, candidates, changes>>

Negotiating == {"proposed", "negotiating", "committing"}

TypeOK ==
  /\ setting \in Settings
  /\ end \in [Sides -> EndStates]
  /\ used \subseteq Upgrades
  /\ candidates \in [Sides -> Nat]
  /\ changes \in Nat
  /\ \A s \in Sides : /\ end[s].st = "idle" <=> end[s].up = None
                      /\ end[s].peer \in {None, end[s].up}
                      /\ end[s].queueing => end[s].switching
                      /\ ~end[s].queueing => end[s].outQ = <<>>

Init ==
  /\ setting \in Settings
  /\ end = [s \in Sides |-> StartState(s, setting.strict)]
  /\ used = {}
  /\ candidates = [s \in Sides |-> 0]
  /\ changes = 0

Live == \A s \in Sides : end[s].ended = "no"

\* One end moves.
Becomes(s, e) ==
  /\ end' = [end EXCEPT ![s] = e]
  /\ UNCHANGED <<setting, used>>

-----------------------------------------------------------------------------
(* UpgradeCoordinator.                                                     *)

ClosePeer(e) == [e EXCEPT !.alive = @ \ {e.peer}, !.peer = None]

ResetToIdle(e) ==
  [e EXCEPT !.st = "idle", !.up = None, !.local = FALSE, !.remote = FALSE,
            !.sdp = "none"]

\* onSwitchPath of the wiring.
OnSwitchPath(s, e, path) ==
  IF path = "p2p"
  THEN SwitchPath(IF e.peer = None THEN e
                  ELSE [Detach(s, e) EXCEPT !.tpeer = e.peer], "p2p")
  ELSE SwitchPath(IF s = "agent" THEN AgentDetach(e) ELSE e, "relay")

\* Mutant of Downgrade: the other end is not told.
DowngradeSilently(s, e) ==
  IF e.st = "idle" THEN e
  ELSE LET shut == ClosePeer(e)
       IN  IF ~e.prefers THEN ResetToIdle(OnSwitchPath(s, shut, "relay"))
           ELSE IF s = "app" THEN ForceClose(ResetToIdle(shut))
           ELSE ForceCloseRoute(ResetToIdle(shut))

\* downgrade: whichever upgrade it is asked for.
Downgrade(s, e) ==
  IF e.st = "idle" THEN e
  ELSE LET shut == ClosePeer(SendControl(s, e, "downgrade"))
       IN  IF ~e.prefers THEN ResetToIdle(OnSwitchPath(s, shut, "relay"))
           ELSE IF s = "app" THEN ForceClose(ResetToIdle(shut))
           ELSE ForceCloseRoute(ResetToIdle(shut))

\* Mutant of MaybeUpgrade: one's own commit is enough.
MaybeUpgradeAlone(s, e) ==
  IF e.local THEN OnSwitchPath(s, [e EXCEPT !.st = "upgraded"], "p2p") ELSE e

MaybeUpgrade(s, e) ==
  IF e.local /\ e.remote
  THEN OnSwitchPath(s, [e EXCEPT !.st = "upgraded"], "p2p") ELSE e

\* The Agent's handlePropose sets the route's mode, and empties what it has
\* parked, before the coordinator looks whether it is idle.
Configured(s, e) ==
  IF s = "agent" THEN [e EXCEPT !.strict = e.prefers, !.parked = <<>>] ELSE e

HandlePropose(s, e, u) ==
  LET c == Configured(s, e)
  IN  IF c.st = "idle" THEN [c EXCEPT !.st = "proposed", !.up = u] ELSE c

HandleOffer(s, e, u) ==
  IF s = "agent" /\ e.peer # None /\ e.up = u THEN [e EXCEPT !.sdp = "offered"] ELSE e

HandleAnswer(s, e, u) ==
  IF s = "app" /\ e.peer # None /\ e.up = u
  THEN [e EXCEPT !.sdp = "done", !.linked = @ \cup {u}] ELSE e

HandleCommitted(s, e, u) ==
  IF e.up = u THEN MaybeUpgrade(s, [e EXCEPT !.remote = TRUE]) ELSE e

\* A frame the E2E session has let through.
Handle(s, e, m) ==
  CASE m.kind = "offer"     -> HandleOffer(s, e, m.up)
    [] m.kind = "answer"    -> HandleAnswer(s, e, m.up)
    [] m.kind = "committed" -> HandleCommitted(s, e, m.up)
    [] m.kind = "downgrade" -> Downgrade(s, e)
    [] m.kind = "business"  -> [e EXCEPT !.got = Append(@, m.biz)]
    [] m.kind = "candidate" -> e

\* Mutant of Open: a number above the expected one will do.
OpenAnyLater(s, e, m) ==
  IF m.seq > e.rx THEN Handle(s, [e EXCEPT !.rx = m.seq], m)
  ELSE [e EXCEPT !.ended = "broken"]

\* E2ESession.decrypt: the next number or the session is over.
Open(s, e, m) ==
  IF m.seq = e.rx + 1 THEN Handle(s, [e EXCEPT !.rx = m.seq], m)
  ELSE [e EXCEPT !.ended = "broken"]

-----------------------------------------------------------------------------
(* Steps.                                                                  *)

\* The relay proposes an upgrade to both.  The place of the frame among those
\* from the other end is where the relay stands in passing them on.
Propose(u) ==
  /\ Live /\ u \in Upgrades \ used /\ Cardinality(used) < setting.upgrades
  /\ used' = used \cup {u}
  /\ \E i \in 1..Len(end["app"].relay) + 1, j \in 1..Len(end["agent"].relay) + 1 :
       end' = [end EXCEPT !["app"].relay = InsertAt(@, i, Control("propose", u)),
                          !["agent"].relay = InsertAt(@, j, Control("propose", u))]
  /\ UNCHANGED <<setting, candidates, changes>>

\* s takes the next frame from the relay.
Receive(s) ==
  LET o == Other(s)
      m == Head(end[o].relay)
  IN  /\ Live /\ end[o].relay # <<>>
      /\ end' = [end EXCEPT ![o].relay = Tail(@),
                            ![s] = IF m.kind = "propose"
                                   THEN HandlePropose(s, @, m.up) ELSE Open(s, @, m)]
      /\ UNCHANGED <<setting, used, candidates, changes>>

\* s takes the next frame from a peer connection; without a transport attached
\* to that connection nobody listens.
ReceiveDirect(s, u) ==
  LET o == Other(s)
      m == Head(end[o].direct[u])
  IN  /\ Live /\ end[o].direct[u] # <<>> /\ u \in end[s].alive
      /\ end' = [end EXCEPT ![o].direct[u] = Tail(@),
                            ![s] = IF @.tpeer = u THEN Open(s, @, m) ELSE @]
      /\ UNCHANGED <<setting, used, candidates, changes>>

\* A connection closed at either end loses what is under way.
DirectLost(s, u) ==
  /\ Live /\ end[s].direct[u] # <<>>
  /\ u \notin end["app"].alive \cap end["agent"].alive
  /\ end' = [end EXCEPT ![s].direct[u] = <<>>]
  /\ UNCHANGED <<setting, used, candidates, changes>>

\* The user, or the desktop, has something to say.
Say(s) ==
  /\ Live /\ end[s].accepted < setting.business
  /\ Becomes(s, SendBusiness(s, end[s]))
  /\ UNCHANGED <<candidates, changes>>

\* peerFactory resolves; the answerer waits for the offer from here on.
MakePeer(s) ==
  LET e == end[s]
  IN  /\ Live /\ e.st = "proposed" /\ e.peer = None
      /\ Becomes(s, [e EXCEPT !.peer = e.up, !.alive = @ \cup {e.up},
                              !.st = IF s = "agent" THEN "negotiating" ELSE @])
      /\ UNCHANGED <<candidates, changes>>

SendOffer ==
  LET e == end["app"]
  IN  /\ Live /\ e.st = "proposed" /\ e.peer # None
      /\ Becomes("app", [SendControl("app", e, "offer") EXCEPT !.st = "negotiating"])
      /\ UNCHANGED <<candidates, changes>>

SendAnswer ==
  LET e == end["agent"]
  IN  /\ Live /\ e.sdp = "offered"
      /\ Becomes("agent", [SendControl("agent", e, "answer") EXCEPT !.sdp = "done"])
      /\ UNCHANGED <<candidates, changes>>

FindCandidate(s) ==
  /\ Live /\ end[s].peer # None /\ candidates[s] < setting.candidates
  /\ setting.timely /\ s = "app" => end[s].path # "p2p"
  /\ candidates' = [candidates EXCEPT ![s] = @ + 1]
  /\ Becomes(s, SendControl(s, end[s], "candidate"))
  /\ UNCHANGED changes

\* The peer connection opens: localCommit.
Connected(s) ==
  LET e == end[s]
      c == [e EXCEPT !.local = TRUE, !.st = "committing",
                     !.commits = @ \cup {e.up}]
  IN  /\ Live /\ e.st = "negotiating" /\ e.sdp = "done"
      /\ e.peer \in end["app"].linked
      /\ Becomes(s, MaybeUpgrade(s, SendControl(s, c, "committed")))
      /\ UNCHANGED <<candidates, changes>>

\* The timer of the negotiation, or an earlier end of it: no peer, no SDP, a
\* peer connection that fails before both have committed.
NegotiationFails(s) ==
  /\ Live /\ setting.disturbed /\ end[s].st \in Negotiating
  /\ Becomes(s, Downgrade(s, end[s]))
  /\ UNCHANGED <<candidates, changes>>

\* handleHealthDowngrade.
HealthDowngrade(s, e) ==
  IF e.path # "p2p" THEN e
  ELSE IF e.prefers /\ s = "app" THEN ForceClose(e)
  ELSE LET d == IF e.strict THEN ForceCloseRoute(e)
                ELSE Detach(s, SwitchPath(e, "relay"))
       IN  IF e.tpeer = None THEN d ELSE Downgrade(s, d)

\* The transport's peer is closed, or its health checks give it up.
PeerLost(s) ==
  LET e == end[s]
  IN  /\ Live /\ e.tpeer # None
      /\ setting.disturbed \/ e.tpeer \notin e.alive \/ e.tpeer \notin end[Other(s)].alive
      /\ Becomes(s, IF e.path = "p2p" THEN HealthDowngrade(s, e) ELSE Detach(s, e))
      /\ UNCHANGED <<candidates, changes>>

\* requestP2pReconnect: prepareForReconnect of the coordinator, then of the
\* transport, which forgets what waits for a switch.
Reconnect(e) ==
  LET c == IF e.st = "idle" THEN e
           ELSE ResetToIdle(ClosePeer(SendControl("app", e, "downgrade")))
  IN  [AppDetach(c) EXCEPT !.path = "relay", !.outQ = <<>>,
                           !.queueing = FALSE, !.switching = FALSE]

NetworkChanged ==
  /\ Live /\ changes < setting.changes
  /\ changes' = changes + 1
  /\ Becomes("app", Reconnect(end["app"]))
  /\ UNCHANGED candidates

\* AppState leaves "active": forceDowngrade, or pauseForBackground if strict.
Background ==
  LET e == end["app"]
  IN  /\ Live /\ changes < setting.changes
      /\ changes' = changes + 1
      /\ IF e.prefers
         THEN /\ ~e.backgroundPaused
              /\ Becomes("app", [AppDetach(e) EXCEPT !.path = "relay",
                                                     !.backgroundPaused = TRUE])
         ELSE Becomes("app", Downgrade("app", HealthDowngrade("app", e)))
      /\ UNCHANGED candidates

\* AppState is "active" again.  Without strict mode this is NetworkChanged.
Foreground ==
  /\ Live /\ end["app"].backgroundPaused
  /\ Becomes("app", [Reconnect(end["app"]) EXCEPT !.backgroundPaused = FALSE])
  /\ UNCHANGED <<candidates, changes>>

\* Nothing s sent is under way.
Settled(s) == end[s].relay = <<>> /\ \A u \in Upgrades : end[s].direct[u] = <<>>

DrainEnds(s) ==
  /\ Live /\ end[s].drains # <<>>
  /\ setting.timely => Settled(s)
  /\ Becomes(s, AfterDrain(s, end[s]))
  /\ UNCHANGED <<candidates, changes>>

EndNext(s) ==
  \/ Receive(s)
  \/ \E u \in Upgrades : ReceiveDirect(s, u) \/ DirectLost(s, u)
  \/ Say(s)
  \/ MakePeer(s)
  \/ FindCandidate(s)
  \/ Connected(s)
  \/ NegotiationFails(s)
  \/ PeerLost(s)
  \/ DrainEnds(s)

Next ==
  \/ \E u \in Upgrades : Propose(u)
  \/ \E s \in Sides : EndNext(s)
  \/ SendOffer
  \/ SendAnswer
  \/ NetworkChanged
  \/ Background
  \/ Foreground

Spec == Init /\ [][Next]_vars

(***************************************************************************)
(* Frames that arrived are read, drains and negotiation timers end, and a  *)
(* transport on a direct path finds out that the other end closed it: its  *)
(* pings stay unanswered.  Nothing is promised of peer connections coming  *)
(* about, of proposals or of users.                                        *)
(***************************************************************************)
PeerFoundLost(s) ==
  PeerLost(s) /\ end[s].path = "p2p" /\ end[s].tpeer \notin end[Other(s)].alive

Fairness ==
  \A s \in Sides :
    /\ WF_vars(Receive(s))
    /\ \A u \in Upgrades : WF_vars(ReceiveDirect(s, u))
    /\ WF_vars(DrainEnds(s))
    /\ WF_vars(NegotiationFails(s))
    /\ WF_vars(PeerFoundLost(s))

FairSpec == Spec /\ Fairness

-----------------------------------------------------------------------------
(* Properties.                                                             *)

\* A transport is given a peer connection only when both ends have said that it
\* is open: nobody sends into a connection the other has not seen.
DirectAgreed ==
  \A s \in Sides :
    end[s].tpeer # None => end[s].tpeer \in end["app"].commits \cap end["agent"].commits

\* The ends are in states of their code, and have the same peer connection in use.
EndsSound == TypeOK /\ DirectAgreed

(***************************************************************************)
(* Whatever happens to the paths, together they are one channel: an end    *)
(* receives the other's business in the order it was accepted and never    *)
(* twice, and from the Agent, which seals what it accepts at once, without *)
(* a gap.                                                                  *)
(***************************************************************************)
OneChannel ==
  INSTANCE Channel WITH
    Lossy <- {"app"},
    accepted <- [s \in Sides |-> end[s].accepted],
    received <- [s \in Sides |-> end[Other(s)].got]
ChannelSpec == OneChannel!Spec

\* In strict mode no business of the App is ever put on the relay, however
\* switches, reconnects and the background fall together.
StrictAppDirect ==
  setting.strict => \A i \in DOMAIN end["app"].relay : end["app"].relay[i].kind # "business"

\* Changing the path does not cost the E2E session.
SessionSurvives == Live \/ \A s \in Sides : end[s].ended # "broken"

\* Nothing fails, and nothing is late.
Undisturbed == ~setting.disturbed /\ setting.timely /\ setting.changes = 0

\* It does not when nothing is disturbed and the App is not strict.
CalmSurvives == Undisturbed /\ ~setting.strict => SessionSurvives

\* What the App accepted while its session lives is sealed and under way or
\* received, or still queued.
Waiting(q) == {q[i].biz : i \in DOMAIN q}
AppKeeps ==
  Undisturbed /\ ~setting.strict /\ Live => 1..end["app"].accepted \subseteq
    Waiting(end["app"].outQ) \cup Waiting(end["app"].parked)
      \cup Waiting(end["app"].relay) \cup ToSet(end["agent"].got)
      \cup UNION {Waiting(end["app"].direct[u]) : u \in Upgrades}

\* An upgrade nothing disturbs costs neither the session nor a message.
CalmKeeps == CalmSurvives /\ AppKeeps

\* A negotiation that may fail does not go on for ever.
NegotiationEnds ==
  \A s \in Sides : setting.disturbed /\ end[s].st \in Negotiating
                   ~> ~Live \/ end[s].st \notin Negotiating

\* An end does not stay upgraded alone.
Alone(s) == end[s].st = "upgraded" /\ end[Other(s)].up # end[s].up
NotAlone == \A s \in Sides : Alone(s) ~> ~Live \/ ~Alone(s)

\* Both ends settle: a negotiation ends, and they end up with the same path.
UpgradeSettles == NegotiationEnds /\ NotAlone

\* With an undisturbed upgrade everything said arrives.
AllArrives ==
  \A s \in Sides :
    []<>(Undisturbed /\ ~setting.strict =>
           1 .. end[s].accepted \subseteq ToSet(end[Other(s)].got))
=============================================================================
