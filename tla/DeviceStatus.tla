--------------------------- MODULE DeviceStatus ---------------------------
(* What the relay knows of one device besides whom it routes to: the device *)
(* entry, the records of its agents and Apps, the links between them        *)
(* (RelayStateStore), and the row of the device in SQLite with its status   *)
(* and traffic (RelayDeviceStatusStore).  Devices share nothing here.       *)
(*                                                                          *)
(* A socket is "ending" once the relay has closed it or its peer is gone:   *)
(* what had arrived before, if anything, is still handled (websocket.ts     *)
(* handleData).  It is "gone" with the process that had it.                 *)
EXTENDS Naturals

CONSTANTS
  StatusAgents,    \* connections of Desktop Agents of the device
  StatusApps,      \* connections of Apps to the device
  MaxFrames,       \* bound: frames counted
  MaxRelayRuns     \* bound: times the relay is started

ASSUME StatusBounds ==
  /\ MaxFrames \in Nat /\ MaxRelayRuns \in Nat \ {0}
  /\ StatusAgents \cap StatusApps = {} /\ "none" \notin StatusAgents \cup StatusApps

VARIABLES
  deviceSock,    \* [connections -> "unused", "open", "ending", "gone"]
  members,        \* connections with a role and the device's id
  deviceAgent,   \* primaryAgentByDevice: a connection or Nobody
  deviceApps,    \* mobilesByDevice: the authenticated Apps
  store,         \* the maps of RelayStateStore and the row, see below
  unflushed,     \* pendingDeviceTraffic: frames not yet in the row
  counted,       \* frames counted since the first start
  dropped,       \* of them: those no row has
  late,          \* a frame of a connection came after it had been closed
  relayRuns      \* times the relay was started

statusVars == <<deviceSock, members, deviceAgent, deviceApps, store, unflushed,
                counted, dropped, late, relayRuns>>

Nobody == "none"
StatusConns == StatusAgents \cup StatusApps

-----------------------------------------------------------------------------
(* The store.  entry is the device's RelayDeviceState, records the keys of   *)
(* the maps agents and apps, linkOf the agent connection that the link of an *)
(* App names, row the device's row; fresh: this process wrote it.            *)

NoEntry == [known |-> FALSE, agents |-> {}, apps |-> {}, links |-> {}, status |-> "online"]
NoDeviceRow == [status |-> "none", traffic |-> 0, fresh |-> FALSE]

EmptyStore(r) ==
  [entry |-> NoEntry, records |-> {}, linkOf |-> [m \in StatusApps |-> Nobody],
   row |-> [r EXCEPT !.fresh = FALSE]]

\* ensureDevice: a device seen for the first time is "online".
EnsureDevice(s) == [s EXCEPT !.entry.known = TRUE]

\* RelayDeviceStatusStore.upsert: a new row counts no traffic.
UpsertRow(s) ==
  [s EXCEPT !.row = [status |-> s.entry.status, traffic |-> @.traffic, fresh |-> TRUE]]

StatusFor(s) ==
  IF s.entry.agents \cap s.records # {} THEN "online"
  ELSE IF s.entry.apps \cap s.records # {} THEN "degraded"
  ELSE "offline"

RegisterAgentEntry(s, a) ==
  UpsertRow([EnsureDevice(s) EXCEPT !.entry.agents = @ \cup {a}, !.entry.status = "online",
                                 !.records = @ \cup {a}])

\* registerApp: the status is computed from the agents alone.
RegisterAppEntry(s, m) ==
  LET t == [EnsureDevice(s) EXCEPT !.entry.apps = @ \cup {m}]
  IN  UpsertRow([t EXCEPT
        !.entry.status =
          IF t.entry.agents \cap t.records # {} THEN "online" ELSE "degraded",
        !.records = @ \cup {m}])

\* createOrUpdateLink: a link keeps the agent it was created with.
LinkEntry(s, a, m) ==
  UpsertRow([EnsureDevice(s) EXCEPT
    !.linkOf[m] = IF @ = Nobody THEN a ELSE @, !.entry.links = @ \cup {m}])

\* refreshDeviceStatus: writes the row, and forgets a device without anything.
Refresh(s) ==
  LET t == UpsertRow([s EXCEPT !.entry.status = StatusFor(s)])
      empty == t.entry.agents = {} /\ t.entry.apps = {} /\ t.entry.links = {}
  IN  IF ~s.entry.known THEN s
      ELSE IF t.entry.status = "offline" /\ empty THEN [t EXCEPT !.entry = NoEntry]
      ELSE t

\* Mutant of CloseEntries: the links of an App stay when it goes.
CloseEntriesKeepingLinks(s, C) ==
  LET closed == C \cap s.records
  IN  IF closed = {} THEN s
      ELSE Refresh([s EXCEPT !.records = @ \ closed,
             !.entry.agents = @ \ closed, !.entry.apps = @ \ closed])

(* closeConnection of each of C: nothing happens for a connection without a  *)
(* record.  The status is computed anew each time and nobody reads the store *)
(* in between, so that closing one after the other comes to this.            *)
CloseEntries(s, C) ==
  LET closed == C \cap s.records
  IN  IF closed = {} THEN s
      ELSE Refresh([s EXCEPT !.records = @ \ closed,
             !.entry.agents = @ \ closed, !.entry.apps = @ \ closed,
             !.entry.links = @ \ closed,
             !.linkOf = [m \in StatusApps |-> IF m \in closed THEN Nobody ELSE @[m]]])

-----------------------------------------------------------------------------
StatusInit ==
  /\ deviceSock = [c \in StatusConns |-> "unused"]
  /\ members = {} /\ deviceAgent = Nobody /\ deviceApps = {}
  /\ store = EmptyStore(NoDeviceRow)
  /\ unflushed = 0 /\ counted = 0 /\ dropped = 0
  /\ late = FALSE /\ relayRuns = 1

Handled(c) == deviceSock[c] \in {"open", "ending"}
Late(c) == late' = (late \/ deviceSock[c] = "ending")

AcceptSocket(c) ==
  /\ deviceSock[c] = "unused"
  /\ deviceSock' = [deviceSock EXCEPT ![c] = "open"]
  /\ UNCHANGED <<members, deviceAgent, deviceApps, store, unflushed, counted, dropped,
                 late, relayRuns>>

\* addAgentToDevice closes the agent before a, and its Apps.
Former(a) == ({deviceAgent} \ {Nobody, a}) \cup deviceApps

(* handleAgentHello, accepted: unregister takes each of those closed out of  *)
(* the store.                                                                *)
AgentJoins(a) ==
  /\ Handled(a) /\ a \notin members
  /\ members' = members \cup {a}
  /\ deviceAgent' = a /\ deviceApps' = {}
  /\ deviceSock' = [c \in StatusConns |->
       IF c \in Former(a) /\ deviceSock[c] = "open" THEN "ending" ELSE deviceSock[c]]
  /\ store' = RegisterAgentEntry(CloseEntries(store, Former(a)), a)
  /\ Late(a)
  /\ UNCHANGED <<unflushed, counted, dropped, relayRuns>>

\* handleMobileConnect: the App is registered even if no agent is there.
AppJoins(m) ==
  /\ Handled(m) /\ m \notin members
  /\ members' = members \cup {m}
  /\ store' = RegisterAppEntry(store, m)
  /\ Late(m)
  /\ UNCHANGED <<deviceSock, deviceAgent, deviceApps, unflushed, counted, dropped, relayRuns>>

(* handleAuthResult, auth.ok of the agent the App was challenged with: the   *)
(* App must still be connected, the agent need not be.                       *)
AppAuthenticated(m) ==
  /\ m \in members \ deviceApps /\ deviceSock[m] = "open"
  /\ \E a \in StatusAgents \cap members :
       /\ Handled(a)
       /\ store' = LinkEntry(RegisterAppEntry(store, m), a, m)
       /\ Late(a)
  /\ deviceApps' = deviceApps \cup {m}
  /\ UNCHANGED <<deviceSock, members, deviceAgent, unflushed, counted, dropped, relayRuns>>

(* handleRawMessage of any later frame, or a frame sent to the connection:   *)
(* recordTraffic counts it on the device, also after the connection closed.  *)
CountFrame(c) ==
  /\ c \in members /\ Handled(c) /\ counted < MaxFrames
  /\ store' = EnsureDevice(store)
  /\ unflushed' = unflushed + 1 /\ counted' = counted + 1
  /\ Late(c)
  /\ UNCHANGED <<deviceSock, members, deviceAgent, deviceApps, dropped, relayRuns>>

(* updateLinkForConnection, after every E2E frame of an App or about one,    *)
(* none of which come before the App is authenticated.  handshake.init does  *)
(* not ask whether the App is still connected.                               *)
UpdateLink(m) ==
  /\ m \in deviceApps \/ (m \in members /\ deviceSock[m] = "ending")
  /\ deviceAgent # Nobody
  /\ store' = LinkEntry(store, deviceAgent, m)
  /\ Late(m)
  /\ UNCHANGED <<deviceSock, members, deviceAgent, deviceApps, unflushed, counted,
                 dropped, relayRuns>>

(* RuntimeTopology.unregister: the relay closes the socket, or its peer has. *)
\* The primary of a device has no successor: the agents before it are closed.
StatusUnregister(c) ==
  /\ deviceSock[c] = "open"
  /\ deviceSock' = [deviceSock EXCEPT ![c] = "ending"]
  /\ deviceAgent' = IF deviceAgent = c THEN Nobody ELSE deviceAgent
  /\ deviceApps' = deviceApps \ {c}
  /\ store' = CloseEntries(store, {c})
  /\ UNCHANGED <<members, unflushed, counted, dropped, late, relayRuns>>

\* flushDeviceStatus: addTraffic changes nothing when there is no row.
FlushStatus ==
  LET there == store.row.status # "none" IN
  /\ unflushed > 0
  /\ store' = [store EXCEPT !.row.traffic = IF there THEN @ + unflushed ELSE @]
  /\ dropped' = IF there THEN dropped ELSE dropped + unflushed
  /\ unflushed' = 0
  /\ UNCHANGED <<deviceSock, members, deviceAgent, deviceApps, counted, late, relayRuns>>

(* sweep: flushes, then deletes the row when it has been offline for longer  *)
(* than is kept.                                                             *)
SweepStatus ==
  /\ store.row.status = "offline"
  /\ dropped' = dropped + unflushed + store.row.traffic
  /\ unflushed' = 0
  /\ store' = [store EXCEPT !.row = NoDeviceRow]
  /\ UNCHANGED <<deviceSock, members, deviceAgent, deviceApps, counted, late, relayRuns>>

\* The process ends, without a flush, and is started again.
RestartRelay ==
  /\ relayRuns < MaxRelayRuns
  /\ relayRuns' = relayRuns + 1
  /\ deviceSock' = [c \in StatusConns |->
       IF deviceSock[c] = "unused" THEN "unused" ELSE "gone"]
  /\ members' = {} /\ deviceAgent' = Nobody /\ deviceApps' = {}
  /\ store' = EmptyStore(store.row)
  /\ dropped' = dropped + unflushed /\ unflushed' = 0
  /\ late' = FALSE
  /\ UNCHANGED counted

StatusNext ==
  \/ \E c \in StatusConns :
       AcceptSocket(c) \/ CountFrame(c) \/ StatusUnregister(c)
  \/ \E a \in StatusAgents : AgentJoins(a)
  \/ \E m \in StatusApps : AppJoins(m) \/ AppAuthenticated(m) \/ UpdateLink(m)
  \/ FlushStatus \/ SweepStatus \/ RestartRelay

StatusSpec == StatusInit /\ [][StatusNext]_statusVars

-----------------------------------------------------------------------------
(* Properties.                                                             *)

StatusTypeOK ==
  /\ deviceSock \in [StatusConns -> {"unused", "open", "ending", "gone"}]
  /\ members \subseteq StatusConns
  /\ deviceAgent \in StatusAgents \cup {Nobody}
  /\ deviceApps \subseteq StatusApps
  /\ store.entry.agents \cup store.entry.apps \cup store.records \subseteq StatusConns
  /\ store.entry.links \subseteq StatusApps
  /\ store.entry.status \in {"online", "degraded", "offline"}
  /\ store.linkOf \in [StatusApps -> StatusAgents \cup {Nobody}]
  /\ store.row.status \in {"none", "online", "degraded", "offline"}
  /\ {unflushed, counted, dropped, store.row.traffic} \subseteq 0 .. MaxFrames
  /\ late \in BOOLEAN /\ relayRuns \in 1 .. MaxRelayRuns

Connected == {c \in members : deviceSock[c] = "open"}

\* The row says what the connections of the device are, however the closing of
\* one agent, the arrival of the next and the Apps of both follow each other; a
\* row left by an earlier process says it once the device is heard of again.
RowAgrees ==
  store.row.fresh /\ ~late =>
    store.row.status =
      IF Connected \cap StatusAgents # {} THEN "online"
      ELSE IF Connected # {} THEN "degraded" ELSE "offline"

\* The device is listed as active while it has connections, and no longer.
ListedWhileConnected == ~late => (store.entry.known <=> Connected # {})

\* A link joins an App that is connected with the agent of its device, never
\* with one that came before.
LinksCurrent ==
  ~late => \A m \in StatusApps : store.linkOf[m] # Nobody =>
    m \in Connected /\ (deviceAgent # Nobody => store.linkOf[m] = deviceAgent)

\* Every frame is in the row, waiting for it, or was lost with a row or a
\* process: none is added twice.
TrafficCountedOnce == counted = store.row.traffic + unflushed + dropped

\* What the administration shows of a device is so.
DeviceShown ==
  StatusTypeOK /\ RowAgrees /\ ListedWhileConnected /\ LinksCurrent /\ TrafficCountedOnce
=============================================================================
