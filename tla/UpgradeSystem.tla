--------------------------- MODULE UpgradeSystem ----------------------------
(***************************************************************************)
(* PairingSystem with the relay's upgrade orchestrator in it: each step of *)
(* the relay also does what its callbacks tell the orchestrator, and Apps  *)
(* ask for a new path after a network change or a return to the foreground.*)
(***************************************************************************)
EXTENDS PairingSystem, UpgradeOrchestrator

CONSTANT MaxAsks   \* bound: network changes an App connection reports

ASSUME AsksAssumption == MaxAsks \in Nat

VARIABLE asked     \* how many it has reported

uvars == <<vars, upgradeVars, asked>>

UTypeOK ==
  /\ TypeOK
  /\ UpgradeTypeOK
  /\ asked \in [AppConns -> 0 .. MaxAsks]

UInit == Init /\ UpgradeInit /\ asked = [m \in AppConns |-> 0]

\* requestP2pReconnect: once auth.ok has named the App connection.
AppAsks(m) ==
  /\ phase[m] \in {"keying", "initiated", "session", "ready"}
  /\ asked[m] < MaxAsks
  /\ asked' = [asked EXCEPT ![m] = @ + 1]
  /\ AppSend(m, <<Frame("app.network.changed", m, None, None)>>)
  /\ UNCHANGED <<down, relayVars, agentVars, appVars, upgradeVars>>

RelayReadsAsk(m) ==
  /\ sock[m] \in {"open", "ending"}
  /\ NextIs(up, m, {"app.network.changed"})
  /\ NetworkChanged(m, Head(up[m]))
  /\ up' = [up EXCEPT ![m] = Tail(@)]
  /\ UNCHANGED <<agentVars, appVars, asked>>

RelayReads(c) ==
  /\ Read(c)
  /\ RelayStepped(NotifiedBy(c, Head(up[c])))
  /\ UNCHANGED asked

RelayActs ==
  /\ \/ \E c \in Conns : RelayCloses(c)
     \/ \E m \in AppConns : Expire(m)
  /\ RelayStepped({})
  /\ UNCHANGED asked

TimerFires(m) == FireTimer(m) /\ UNCHANGED <<up, agentVars, appVars, asked>>

ClientsAct ==
  /\ \/ \E d \in Devices : \/ AgentConnects(d) \/ AgentReads(d) \/ AgentHangsUp(d)
                           \/ AgentDecides(d) \/ AgentSends(d)
     \/ \E m \in AppConns : \/ AppConnects(m) \/ AppReads(m) \/ AppResumes(m)
                            \/ AppSends(m) \/ AppLeaves(m)
  /\ UNCHANGED <<upgradeVars, asked>>

UNext ==
  \/ \E c \in Conns : RelayReads(c)
  \/ \E m \in AppConns : RelayReadsAsk(m) \/ TimerFires(m) \/ AppAsks(m)
  \/ RelayActs
  \/ ClientsAct

USpec == UInit /\ [][UNext]_uvars

\* The relay's timer fires.
UFairSpec == USpec /\ \A m \in AppConns : WF_uvars(TimerFires(m))

-----------------------------------------------------------------------------
(* Properties.                                                             *)

\* The orchestrator keeps nothing for a connection that is gone: a timer is for
\* an App that is connected, and an upgrade in flight is between a connected App
\* and the agent that serves its device now.
UpgradesCurrent ==
  \A m \in AppConns :
    /\ timer[m] => sock[m] = "open"
    /\ \A a \in AgentConns :
         flights[m][a] > 0 => sock[m] = "open" /\ primary[DeviceOf[m]] = a

\* The orchestrator's timers and flights are of connections, and of current ones.
UpgradesSound == UTypeOK /\ UpgradesCurrent

\* A pair that is ready gets a proposal, unless it is lost first.
ReadyPairsProposed ==
  \A m \in Upgradable : PairReady(m) ~> InFlight(m) \/ ~PairReady(m)

-----------------------------------------------------------------------------
(* What the documents say of the program and the code does not keep.       *)

\* relay-architecture.md: on a network change the relay clears the backoff and
\* proposes a new P2P path at once.
ChangeProposes ==
  [][\A m \in Upgradable :
       NextIs(up, m, {"app.network.changed"}) /\ up'[m] = Tail(up[m])
         /\ PairReady(m) /\ sock[m] = "open"
         => \E a \in AgentConns : flights'[m][a] > flights[m][a]]_uvars
=============================================================================
