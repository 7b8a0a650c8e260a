------------------------- MODULE UpgradeOrchestrator -------------------------
(***************************************************************************)
(* RelayUpgradeOrchestrator: when the relay proposes that an App and its   *)
(* Agent move to a direct (P2P) path.                                      *)
(*                                                                         *)
(* The configuration modelled is one with upgrades enabled.  backoffByApp  *)
(* and activeP2pApps change only when a tunnel.upgrade.committed or        *)
(* .downgrade reaches the relay in the clear; the clients of this          *)
(* repository send every tunnel.upgrade.* frame inside an e2e.message      *)
(* (isE2EBusinessMessage), so both stay empty and are left out, and so is  *)
(* what a backoff or a disabled upgrade would answer.                      *)
(***************************************************************************)
EXTENDS RelaySession

CONSTANT Upgradable   \* App connections whose transport_preference and
                      \* device's rollout bucket let the relay propose

ASSUME UpgradeAssumption == Upgradable \subseteq AppConns

VARIABLES
  timer,    \* sessionTimers: a proposal is due for the App connection
  flights   \* inFlightUpgrades: how many per App and agent connection

upgradeVars == <<timer, flights>>

UpgradeTypeOK ==
  /\ timer \in [AppConns -> BOOLEAN]
  /\ flights \in [AppConns -> [AgentConns -> Nat]]

UpgradeInit ==
  /\ timer = [m \in AppConns |-> FALSE]
  /\ flights = [m \in AppConns |-> [a \in AgentConns |-> 0]]

\* hasInFlightForApp
InFlight(m) == \E a \in AgentConns : flights[m][a] > 0

-----------------------------------------------------------------------------
(* What a step of the relay means for the orchestrator.                    *)

\* onMobileDisconnected, for each App connection the step unregisters.
AppsLost == {m \in AppConns : sock[m] = "open" /\ sock'[m] # "open"}

\* onAgentDisconnected, for each device whose primary agent it unregisters.
DevicesLost == {d \in Devices : primary[d] # None /\ primary'[d] # primary[d]}

\* Mutant of Lost: an agent's end leaves its upgrades in flight.
LostAppsOnly == AppsLost

Lost == AppsLost \cup {m \in AppConns : DeviceOf[m] \in DevicesLost}

\* The relay's step, with the App connections notifyMobileAuthenticated is
\* called for in it.  Their timer is started over.
RelayStepped(notified) ==
  /\ timer' = [m \in AppConns |->
                 (timer[m] \/ m \in notified \cap Upgradable) /\ m \notin Lost]
  /\ flights' = [m \in AppConns |->
                   IF m \in Lost THEN [a \in AgentConns |-> 0] ELSE flights[m]]

\* handleReady notifies on the agent's e2e.ready, whatever the App's state.
NotifiedBy(c, msg) ==
  {m \in AppConns : /\ msg.type = "e2e.ready" /\ role[c] = "agent"
                    /\ msg.app = m /\ KnowsHandshake(c, msg)}

-----------------------------------------------------------------------------
(* Proposing.                                                              *)

\* triggerUpgrade: to the App (offerer), then to the agent (answerer).
Propose(m) ==
  LET a     == primary[DeviceOf[m]]
      frame == Frame("tunnel.upgrade.propose", m, None, None)
  IN  /\ flights' = [flights EXCEPT ![m][a] = @ + 1]
      /\ down' = [c \in Conns |-> IF c \in {m, a} THEN Push(c, frame)[c] ELSE down[c]]

\* Mutant of FireTimer: a pair that is not ready when the timer fires is passed
\* over for good.
FireTimerIfReady(m) ==
  /\ timer[m]
  /\ timer' = [timer EXCEPT ![m] = FALSE]
  /\ IF PairReady(m) THEN Propose(m) ELSE UNCHANGED <<flights, down>>
  /\ UNCHANGED relayVars

\* The timer of notifyMobileAuthenticated, proposeDelayMs later.
FireTimer(m) ==
  /\ timer[m]
  /\ timer' = [timer EXCEPT ![m] = FALSE]
  /\ IF primary[DeviceOf[m]] # None
     THEN Propose(m)
     ELSE UNCHANGED <<flights, down>>
  /\ UNCHANGED relayVars

\* handleAppNetworkChanged and handleConnectivityChanged: an upgrade already in
\* flight for the App is left to finish.
NetworkChanged(c, msg) ==
  /\ IF role[c] = "mobile" /\ authed[c] /\ msg.app = c /\ PairReady(c)
     THEN IF c \in Upgradable /\ ~InFlight(c)
          THEN Propose(c)
          ELSE UNCHANGED <<flights, down>>
     ELSE /\ down' = Push(c, Plain("protocol.error"))
          /\ UNCHANGED flights
  /\ UNCHANGED <<relayVars, timer>>
=============================================================================
