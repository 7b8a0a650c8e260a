-------------------------------- MODULE Inbox --------------------------------
(***************************************************************************)
(* Probe events of the Coding Agents and the messages an App shows of them. *)
(*                                                                         *)
(* A hook posts its event to the Desktop Agent, which answers at once and   *)
(* handles the accepted events one after the other.  Hooks of the Trae      *)
(* family also append the event to a record file, imported at every start.  *)
(* An event becomes at most one message, kept in SQLite and sent to the     *)
(* Apps connected then.  An App keeps its own copy and its own marks; when  *)
(* it connects it asks for the latest messages and for the settings.        *)
(***************************************************************************)
EXTENDS Naturals, Sequences, FiniteSets, SequencesExt

CONSTANTS ProbeEvents,  \* numbered in the order of their creation
          Recorded,     \* those also appended to a record file
          ListLimit,    \* messages of one agent.message.list
          MaxCrashes,   \* bound: ends of the Desktop Agent
          MaxLosses,    \* bound: losses of the App's link
          MaxToggles    \* bound: changes of the notification switch

ASSUME InboxAssumption ==
  /\ ProbeEvents \subseteq Nat /\ Recorded \subseteq ProbeEvents
  /\ {ListLimit, MaxCrashes, MaxLosses, MaxToggles} \subseteq Nat

VARIABLES
  fired,        \* events the hooks have reported
  receiver,     \* the receiver listens
  accepted,     \* processingQueue: events answered with 202
  records,      \* the record files
  index,        \* import-index.json
  importing,    \* records read at the start and still to be handled
  imported,     \* importedIds, not yet written to the index
  seen,         \* seenEventKeys
  rows,         \* agent_app_messages
  enabled,      \* agent_notification_settings
  secured,      \* the App has a secure channel
  toInbox, toAgent,
  inbox,        \* the App's table: what it knows of each message
  switch,       \* agentNotificationSettings.enabled of the App
  told,         \* history: how often each message was sent unasked
  ends, losses, toggles

desktopInboxVars == <<receiver, accepted, records, index, importing, imported, seen, rows>>
appInboxVars == <<inbox, switch>>
inboxLinkVars == <<secured, toInbox, toAgent>>
inboxBounds == <<ends, losses, toggles>>
inboxVars == <<fired, desktopInboxVars, enabled, inboxLinkVars, appInboxVars, told, inboxBounds>>

Marks == {"unknown", "unread", "read", "dismissed"}
AppFrames == [kind : {"message"}, message : ProbeEvents]
               \cup [kind : {"list"}, messages : SUBSET ProbeEvents]
               \cup [kind : {"settings"}, enabled : BOOLEAN]
AgentFrames == [kind : {"get"}] \cup [kind : {"list"}] \cup [kind : {"set"}, enabled : BOOLEAN]

InboxTypeOK ==
  /\ \A s \in {fired, records, index, importing, imported, seen, rows} : s \subseteq ProbeEvents
  /\ accepted \in Seq(ProbeEvents) /\ toInbox \in Seq(AppFrames) /\ toAgent \in Seq(AgentFrames)
  /\ {receiver, enabled, secured, switch} \subseteq BOOLEAN
  /\ inbox \in [ProbeEvents -> Marks] /\ told \in [ProbeEvents -> Nat]
  /\ ends \in 0 .. MaxCrashes /\ losses \in 0 .. MaxLosses /\ toggles \in 0 .. MaxToggles

InboxInit ==
  /\ fired = {} /\ receiver = TRUE /\ accepted = <<>>
  /\ records = {} /\ index = {} /\ importing = {} /\ imported = {}
  /\ seen = {} /\ rows = {} /\ enabled = TRUE
  /\ secured = FALSE /\ toInbox = <<>> /\ toAgent = <<>>
  /\ inbox = [k \in ProbeEvents |-> "unknown"] /\ switch = TRUE
  /\ told = [k \in ProbeEvents |-> 0]
  /\ ends = 0 /\ losses = 0 /\ toggles = 0

-----------------------------------------------------------------------------
(* The Desktop Agent.                                                      *)

\* A hook reports its event; it gives up if nobody listens.
FireHook(k) ==
  /\ k \notin fired
  /\ fired' = fired \cup {k}
  /\ records' = IF k \in Recorded THEN records \cup {k} ELSE records
  /\ accepted' = IF receiver THEN Append(accepted, k) ELSE accepted
  /\ UNCHANGED <<receiver, index, importing, imported, seen, rows, enabled, inboxLinkVars,
                 appInboxVars, told, inboxBounds>>

\* Mutant of IsNew: only what this process has published is remembered.
IsNewHere(k) == k \notin seen

\* Known keys are refused in memory, then by the unique event_key.
IsNew(k) == k \notin seen /\ k \notin rows

\* publishMessage
PublishMessage(k) ==
  /\ seen' = seen \cup {k}
  /\ rows' = rows \cup {k}
  /\ toInbox' = IF IsNew(k) /\ secured
              THEN Append(toInbox, [kind |-> "message", message |-> k]) ELSE toInbox
  /\ told' = IF IsNew(k) THEN [told EXCEPT ![k] = @ + 1] ELSE told

ProcessAccepted ==
  /\ accepted # <<>>
  /\ accepted' = Tail(accepted)
  /\ PublishMessage(Head(accepted))
  /\ UNCHANGED <<fired, receiver, records, index, importing, imported, enabled, secured, toAgent,
                 appInboxVars, inboxBounds>>

\* Mutant of IndexOnStart: what is about to be imported counts as imported.
IndexOnStartAhead == index \cup records

IndexOnStart == index

\* start: the receiver listens first, then the record files are read.
StartReceiver ==
  /\ ~receiver
  /\ receiver' = TRUE
  /\ importing' = records \ index
  /\ index' = IndexOnStart
  /\ UNCHANGED <<fired, accepted, records, imported, seen, rows, enabled, inboxLinkVars,
                 appInboxVars, told, inboxBounds>>

ImportRecord(k) ==
  /\ k \in importing
  /\ importing' = importing \ {k} /\ imported' = imported \cup {k}
  /\ PublishMessage(k)
  /\ UNCHANGED <<fired, receiver, accepted, records, index, enabled, secured, toAgent,
                 appInboxVars, inboxBounds>>

WriteImportIndex ==
  /\ importing = {} /\ imported # {}
  /\ index' = index \cup imported /\ imported' = {}
  /\ UNCHANGED <<fired, receiver, accepted, records, importing, seen, rows, enabled,
                 inboxLinkVars, appInboxVars, told, inboxBounds>>

\* The process ends; what it had accepted is gone, the App's link with it.
CrashDesktop ==
  /\ receiver /\ ends < MaxCrashes
  /\ ends' = ends + 1
  /\ receiver' = FALSE /\ accepted' = <<>> /\ importing' = {} /\ imported' = {} /\ seen' = {}
  /\ secured' = FALSE /\ toInbox' = <<>> /\ toAgent' = <<>>
  /\ UNCHANGED <<fired, records, index, rows, enabled, appInboxVars, told, losses, toggles>>

Latest == {k \in rows : Cardinality({x \in rows : x > k}) < ListLimit}

\* AgentInboxHandler: each request is answered from the tables at once.
HandleInboxRequest ==
  /\ toAgent # <<>>
  /\ LET request == Head(toAgent)
     IN  /\ enabled' = IF request.kind = "set" THEN request.enabled ELSE enabled
         /\ toInbox' = Append(toInbox, IF request.kind = "list"
                                   THEN [kind |-> "list", messages |-> Latest]
                                   ELSE [kind |-> "settings", enabled |-> enabled'])
  /\ toAgent' = Tail(toAgent)
  /\ UNCHANGED <<fired, desktopInboxVars, secured, appInboxVars, told, inboxBounds>>

-----------------------------------------------------------------------------
(* The App.                                                                *)

\* onAuthOk
OnConnect == <<[kind |-> "get"], [kind |-> "list"]>>

ConnectApp ==
  /\ ~secured /\ receiver
  /\ secured' = TRUE /\ toAgent' = OnConnect
  /\ UNCHANGED <<fired, desktopInboxVars, enabled, toInbox, appInboxVars, told, inboxBounds>>

LoseApp ==
  /\ secured /\ losses < MaxLosses
  /\ losses' = losses + 1
  /\ secured' = FALSE /\ toInbox' = <<>> /\ toAgent' = <<>>
  /\ UNCHANGED <<fired, desktopInboxVars, enabled, appInboxVars, told, ends, toggles>>

\* saveMessage: marks already made stay.
Saved(ms) == [k \in ProbeEvents |-> IF k \in ms /\ inbox[k] = "unknown" THEN "unread"
                                    ELSE inbox[k]]

ReceiveInboxFrame ==
  /\ toInbox # <<>>
  /\ LET frame == Head(toInbox)
     IN  /\ inbox' = Saved(CASE frame.kind = "message" -> {frame.message}
                             [] frame.kind = "list" -> frame.messages
                             [] OTHER -> {})
         /\ switch' = IF frame.kind = "settings" THEN frame.enabled ELSE switch
  /\ toInbox' = Tail(toInbox)
  /\ UNCHANGED <<fired, desktopInboxVars, enabled, secured, toAgent, told, inboxBounds>>

\* A message on the screen is opened, or deleted.
MarkMessage(k, mark) ==
  /\ inbox[k] = "unread" \/ (inbox[k] = "read" /\ mark = "dismissed")
  /\ inbox' = [inbox EXCEPT ![k] = mark]
  /\ UNCHANGED <<fired, desktopInboxVars, enabled, inboxLinkVars, switch, told, inboxBounds>>

\* handleChangeAgentNotifications: without a link only the screen changes.
ToggleNotifications ==
  /\ toggles < MaxToggles
  /\ toggles' = toggles + 1
  /\ switch' = ~switch
  /\ toAgent' = IF secured THEN Append(toAgent, [kind |-> "set", enabled |-> ~switch]) ELSE toAgent
  /\ UNCHANGED <<fired, desktopInboxVars, enabled, secured, toInbox, inbox, told, ends, losses>>

InboxNext ==
  \/ \E k \in ProbeEvents : FireHook(k) \/ ImportRecord(k)
  \/ ProcessAccepted \/ StartReceiver \/ WriteImportIndex \/ CrashDesktop \/ HandleInboxRequest
  \/ ConnectApp \/ LoseApp \/ ReceiveInboxFrame \/ ToggleNotifications
  \/ \E k \in ProbeEvents, m \in {"read", "dismissed"} : MarkMessage(k, m)

\* The event loops run, and an agent that ended is started again.
InboxFairness ==
  /\ WF_inboxVars(ProcessAccepted) /\ WF_inboxVars(StartReceiver)
  /\ \A k \in ProbeEvents : WF_inboxVars(ImportRecord(k))
  /\ WF_inboxVars(WriteImportIndex)
  /\ WF_inboxVars(HandleInboxRequest) /\ WF_inboxVars(ReceiveInboxFrame)

\* An App that lost its link comes back.
InboxSpec ==
  InboxInit /\ [][InboxNext]_inboxVars /\ InboxFairness /\ WF_inboxVars(ConnectApp)

-----------------------------------------------------------------------------
(* Properties.                                                             *)

\* However an event reaches the Desktop Agent, by its hook and by its record,
\* before and after a restart, Apps are sent its message unasked once at most.
ToldOnce == \A k \in ProbeEvents : told[k] <= 1

\* A recorded event becomes a message, also when the post was lost or the agent
\* ended after it had accepted it.
RecordedIsKept == \A k \in Recorded : k \in fired ~> k \in rows

\* A message reaches the App's own table whatever links it was lost on.
InboxCatchesUp == []<>(\A k \in rows : inbox[k] # "unknown")

\* What the user has read or deleted does not come back with a later list.
MarksStay ==
  [][\A k \in ProbeEvents :
       /\ inbox[k] = "dismissed" => inbox'[k] = "dismissed"
       /\ inbox[k] = "read" => inbox'[k] # "unread"]_inboxVars

\* Once nothing is under way, the switch shown is the setting in force.
SettingsAgree == secured /\ toInbox = <<>> /\ toAgent = <<>> => switch = enabled

\* What the Desktop Agent and the App know of messages and settings agrees.
InboxAgrees == ToldOnce /\ SettingsAgree

\* Neither an event that was recorded, nor its message, nor a user's mark on it
\* is lost.
InboxKeeps == RecordedIsKept /\ InboxCatchesUp /\ MarksStay
=============================================================================
