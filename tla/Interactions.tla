---------------------------- MODULE Interactions ----------------------------
(***************************************************************************)
(* Approvals and questions of one agent session: the provider process      *)
(* asks, the Desktop Agent records the interaction and tells the Apps, the *)
(* first valid answer is handed back to the provider.  An interaction that *)
(* is not answered expires; closing the session cancels it; a restart of   *)
(* the Desktop Agent expires what it finds pending in the database.        *)
(*                                                                         *)
(* What the provider is told goes into its standard input.  Once a process *)
(* has exited, writing to it throws, in the handler of the answer and      *)
(* again in the handler of that error: a rejection nobody handles.  Once   *)
(* its input was closed, writing is an error event nobody listens to.      *)
(* Either ends the Desktop Agent.                                          *)
(***************************************************************************)
EXTENDS Naturals, Sequences, FiniteSets

CONSTANTS Interactions,   \* interaction ids
          Phones,         \* the Apps
          MaxAnswers,     \* bound: answers given
          MaxBreaks       \* bound: links lost and processes that end

ASSUME InteractionsAssumption == {MaxAnswers, MaxBreaks} \subseteq Nat

Final == {"resolved", "declined", "expired", "cancelled"}
InteractionStatuses == {"absent", "pending"} \cup Final
Decisions == {"allow", "decline"}
Replies == {"none", "granted", "denied"}

\* What the Desktop Agent sends an App.
Told(k, ids) == [kind |-> k, ids |-> ids]
ToApp == [kind : {"request", "result", "sync_response"}, ids : SUBSET Interactions]

\* What an App sends: action is its client_action_id.
Answer(i, d, n) == [kind |-> "answer", id |-> i, decision |-> d, action |-> n]
SyncRequest == [kind |-> "sync_request"]
ToDesktop ==
  [kind : {"answer"}, id : Interactions, decision : Decisions, action : Nat]
    \cup {SyncRequest}

VARIABLES
  status,     \* agent_interactions: the status of each row
  actionOf,   \* the client_action_id a row was resolved by, 0 if none
  memory,     \* AgentInteractionService.pending, with its timers
  asker,      \* the provider process: not started, running, or its session closed
  orphans,    \* interactions whose process has exited
  reply,      \* what the provider was told
  desktop,    \* the Desktop Agent runs
  linked,     \* Apps with an E2E session
  toApp, toDesktop,
  cards,      \* what each App lists as pending
  submitting, \* cards of each App that have been answered and stay disabled
  answers,    \* answers given so far
  breaks

interactionVars ==
  <<status, actionOf, memory, asker, orphans, reply, desktop, linked, toApp,
    toDesktop, cards, submitting, answers, breaks>>

InteractionsTypeOK ==
  /\ status \in [Interactions -> InteractionStatuses]
  /\ actionOf \in [Interactions -> Nat]
  /\ memory \subseteq Interactions
  /\ asker \in {"none", "up", "closed"}
  /\ orphans \subseteq Interactions
  /\ reply \in [Interactions -> Replies]
  /\ desktop \in {"up", "down"}
  /\ linked \subseteq Phones
  /\ toApp \in [Phones -> Seq(ToApp)]
  /\ toDesktop \in [Phones -> Seq(ToDesktop)]
  /\ cards \in [Phones -> SUBSET Interactions]
  /\ submitting \in [Phones -> SUBSET Interactions]
  /\ {answers, breaks} \subseteq Nat

InteractionsInit ==
  /\ status = [i \in Interactions |-> "absent"]
  /\ actionOf = [i \in Interactions |-> 0]
  /\ memory = {}
  /\ asker = "none"
  /\ orphans = {}
  /\ reply = [i \in Interactions |-> "none"]
  /\ desktop = "up"
  /\ linked = {}
  /\ toApp = [p \in Phones |-> <<>>]
  /\ toDesktop = [p \in Phones |-> <<>>]
  /\ cards = [p \in Phones |-> {}]
  /\ submitting = [p \in Phones |-> {}]
  /\ answers = 0
  /\ breaks = 0

-----------------------------------------------------------------------------
(* The Desktop Agent.                                                      *)

ToLinked(queues, frames) ==
  [p \in Phones |-> IF p \in linked THEN queues[p] \o frames ELSE queues[p]]

\* security.send: to every App with a session.
Broadcast(m) == toApp' = ToLinked(toApp, <<m>>)

SendTo(p, m) == toApp' = [toApp EXCEPT ![p] = Append(@, m)]

\* A process that has exited cannot be told anything: the Desktop Agent ends.
Hand(i, r) ==
  IF i \in orphans
  THEN /\ desktop' = "down"
       /\ memory' = {}
       /\ UNCHANGED reply
  ELSE /\ reply' = [reply EXCEPT ![i] = r]
       /\ memory' = memory \ {i}
       /\ UNCHANGED desktop

\* A prompt starts a provider process, unless the session was closed.
ProviderStarts ==
  /\ desktop = "up" /\ asker = "none"
  /\ asker' = "up"
  /\ UNCHANGED <<status, actionOf, memory, orphans, reply, desktop, linked, toApp,
                 toDesktop, cards, submitting, answers, breaks>>

\* requestInteraction of the runner, AgentInteractionService.request.
ProviderAsks(i) ==
  /\ desktop = "up" /\ asker = "up" /\ status[i] = "absent"
  /\ status' = [status EXCEPT ![i] = "pending"]
  /\ memory' = memory \cup {i}
  /\ Broadcast(Told("request", {i}))
  /\ UNCHANGED <<actionOf, asker, orphans, reply, desktop, linked, toDesktop, cards,
                 submitting, answers, breaks>>

\* What the running process has asked and not been told.
Unanswered == {i \in Interactions : status[i] # "absent" /\ reply[i] = "none"} \ orphans

ProviderExits ==
  /\ desktop = "up" /\ asker = "up" /\ breaks < MaxBreaks
  /\ asker' = "none"
  /\ orphans' = orphans \cup Unanswered
  /\ breaks' = breaks + 1
  /\ UNCHANGED <<status, actionOf, memory, reply, desktop, linked, toApp, toDesktop,
                 cards, submitting, answers>>

\* Mutant of ExpireInteraction: the promise is left alone.
ExpireInteractionOnlyRow(i) ==
  /\ desktop = "up" /\ i \in memory
  /\ status' = [status EXCEPT ![i] = "expired"]
  /\ Broadcast(Told("result", {i}))
  /\ memory' = memory \ {i}
  /\ UNCHANGED <<actionOf, asker, orphans, reply, desktop, linked, toDesktop, cards,
                 submitting, answers, breaks>>

\* The timer of an interaction, five minutes after it was asked.
ExpireInteraction(i) ==
  /\ desktop = "up" /\ i \in memory
  /\ status' = [status EXCEPT ![i] = "expired"]
  /\ Broadcast(Told("result", {i}))
  /\ Hand(i, "denied")
  /\ UNCHANGED <<actionOf, asker, orphans, linked, toDesktop, cards, submitting,
                 answers, breaks>>

\* Mutant of Takes: a later answer takes the place of an earlier one.
TakesLater(i, n) == status[i] # "absent" /\ actionOf[i] # n

\* AgentInteractionStore.resolve updates a pending row only.
Takes(i, n) == status[i] = "pending"

Answered(d) == IF d = "allow" THEN "resolved" ELSE "declined"

\* Mutant of Native: the decision is passed on as it is.
NativeAsGiven(d) == d

Native(d) == IF d = "allow" THEN "granted" ELSE "denied"

\* handleAnswer: resolved, or the stored result (duplicate, conflict) to whoever asked.
DesktopReadsAnswer(p) ==
  LET m == Head(toDesktop[p])
  IN  /\ desktop = "up" /\ p \in linked
      /\ toDesktop[p] # <<>> /\ m.kind = "answer"
      /\ toDesktop' = [toDesktop EXCEPT ![p] = Tail(@)]
      /\ IF Takes(m.id, m.action)
         THEN /\ status' = [status EXCEPT ![m.id] = Answered(m.decision)]
              /\ actionOf' = [actionOf EXCEPT ![m.id] = m.action]
              /\ Broadcast(Told("result", {m.id}))
              /\ IF m.id \in memory THEN Hand(m.id, Native(m.decision))
                 ELSE UNCHANGED <<reply, memory, desktop>>
         ELSE /\ SendTo(p, Told("result", {m.id}))
              /\ UNCHANGED <<status, actionOf, memory, reply, desktop>>
      /\ UNCHANGED <<asker, orphans, linked, cards, submitting, answers, breaks>>

Pending == {i \in Interactions : status[i] = "pending"}

\* handleSync.
DesktopReadsSync(p) ==
  /\ desktop = "up" /\ p \in linked
  /\ toDesktop[p] # <<>> /\ Head(toDesktop[p]).kind = "sync_request"
  /\ toDesktop' = [toDesktop EXCEPT ![p] = Tail(@)]
  /\ SendTo(p, Told("sync_response", Pending))
  /\ UNCHANGED <<status, actionOf, memory, asker, orphans, reply, desktop, linked,
                 cards, submitting, answers, breaks>>

\* The results cancelSession reports, one frame each.
Cancelled(ids) == IF ids = {} THEN <<>> ELSE <<Told("result", ids)>>

\* closeAgentSurfaceSession: the interactions are cancelled and the process is
\* told to end; then the rejected promises write into its closed input, which
\* is an error event nobody listens to.
CloseSession ==
  /\ desktop = "up" /\ asker # "closed"
  /\ asker' = "closed"
  /\ status' = [i \in Interactions |-> IF i \in memory THEN "cancelled" ELSE status[i]]
  /\ toApp' = ToLinked(toApp, Cancelled(memory))
  /\ memory' = {}
  /\ desktop' = IF memory = {} THEN "up" ELSE "down"
  /\ UNCHANGED <<actionOf, orphans, reply, linked, toDesktop, cards, submitting,
                 answers, breaks>>

\* stop(), or the end of the process from outside.
DesktopStops ==
  /\ desktop = "up" /\ breaks < MaxBreaks
  /\ desktop' = "down"
  /\ memory' = {}
  /\ breaks' = breaks + 1
  /\ UNCHANGED <<status, actionOf, asker, orphans, reply, linked, toApp, toDesktop,
                 cards, submitting, answers>>

\* Mutant of RestartDesktop: the store is opened without expirePendingAfterRestart.
RestartDesktopKeepsPending ==
  /\ desktop = "down"
  /\ desktop' = "up"
  /\ asker' = IF asker = "closed" THEN "closed" ELSE "none"
  /\ orphans' = orphans \cup Unanswered
  /\ linked' = {}
  /\ toApp' = [p \in Phones |-> <<>>]
  /\ toDesktop' = [p \in Phones |-> <<>>]
  /\ UNCHANGED <<status, actionOf, memory, reply, cards, submitting, answers, breaks>>

\* The Desktop Agent is started again.  Its processes are gone, and no App is
\* connected yet.
RestartDesktop ==
  /\ desktop = "down"
  /\ desktop' = "up"
  /\ status' = [i \in Interactions |->
                  IF status[i] = "pending" THEN "expired" ELSE status[i]]
  /\ asker' = IF asker = "closed" THEN "closed" ELSE "none"
  /\ orphans' = orphans \cup Unanswered
  /\ linked' = {}
  /\ toApp' = [p \in Phones |-> <<>>]
  /\ toDesktop' = [p \in Phones |-> <<>>]
  /\ UNCHANGED <<actionOf, memory, reply, cards, submitting, answers, breaks>>

-----------------------------------------------------------------------------
(* The Apps.                                                               *)

\* Mutant of AppLinks: the App does not ask.
AppLinksUnasked(p) ==
  /\ desktop = "up" /\ p \notin linked
  /\ linked' = linked \cup {p}
  /\ UNCHANGED <<toDesktop, status, actionOf, memory, asker, orphans, reply, desktop, toApp,
                 cards, submitting, answers, breaks>>

\* A session is ready: the App asks what is pending.
AppLinks(p) ==
  /\ desktop = "up" /\ p \notin linked
  /\ linked' = linked \cup {p}
  /\ toDesktop' = [toDesktop EXCEPT ![p] = <<SyncRequest>>]
  /\ UNCHANGED <<status, actionOf, memory, asker, orphans, reply, desktop, toApp,
                 cards, submitting, answers, breaks>>

\* The connection is lost with all that is under way.
AppUnlinks(p) ==
  /\ p \in linked /\ breaks < MaxBreaks
  /\ linked' = linked \ {p}
  /\ toApp' = [toApp EXCEPT ![p] = <<>>]
  /\ toDesktop' = [toDesktop EXCEPT ![p] = <<>>]
  /\ breaks' = breaks + 1
  /\ UNCHANGED <<status, actionOf, memory, asker, orphans, reply, desktop, cards,
                 submitting, answers>>

\* reducePendingAgentInteractions.
Reduced(current, m) ==
  CASE m.kind = "sync_response" -> m.ids
    [] m.kind = "request"       -> current \cup m.ids
    [] m.kind = "result"        -> current \ m.ids

PhoneReadsResult(p) ==
  /\ p \in linked /\ toApp[p] # <<>>
  /\ toApp' = [toApp EXCEPT ![p] = Tail(@)]
  /\ cards' = [cards EXCEPT ![p] = Reduced(@, Head(toApp[p]))]
  /\ submitting' = [submitting EXCEPT ![p] = @ \cap Reduced(cards[p], Head(toApp[p]))]
  /\ UNCHANGED <<status, actionOf, memory, asker, orphans, reply, desktop, linked,
                 toDesktop, answers, breaks>>

\* The user answers a card, which is disabled from then on, whether or not the
\* answer can be sent.
UserAnswers(p, i, d) ==
  /\ i \in cards[p] \ submitting[p] /\ answers < MaxAnswers
  /\ answers' = answers + 1
  /\ submitting' = [submitting EXCEPT ![p] = @ \cup {i}]
  /\ toDesktop' = IF p \in linked
                  THEN [toDesktop EXCEPT ![p] = Append(@, Answer(i, d, answers + 1))]
                  ELSE toDesktop
  /\ UNCHANGED <<status, actionOf, memory, asker, orphans, reply, desktop, linked,
                 toApp, cards, breaks>>

\* The screen is left and opened again: its cards are new.
UserReturns(p) ==
  /\ submitting[p] # {}
  /\ submitting' = [submitting EXCEPT ![p] = {}]
  /\ UNCHANGED <<status, actionOf, memory, asker, orphans, reply, desktop, linked,
                 toApp, toDesktop, cards, answers, breaks>>

-----------------------------------------------------------------------------
InteractionsNext ==
  \/ ProviderStarts
  \/ \E i \in Interactions : ProviderAsks(i) \/ ExpireInteraction(i)
  \/ ProviderExits
  \/ \E p \in Phones : DesktopReadsAnswer(p) \/ DesktopReadsSync(p)
  \/ CloseSession
  \/ DesktopStops
  \/ RestartDesktop
  \/ \E p \in Phones : AppLinks(p) \/ AppUnlinks(p) \/ PhoneReadsResult(p) \/ UserReturns(p)
  \/ \E p \in Phones, i \in Interactions, d \in Decisions : UserAnswers(p, i, d)

InteractionsSpec == InteractionsInit /\ [][InteractionsNext]_interactionVars

\* Timers fire, frames under way are read.  Nobody promises to restart the
\* Desktop Agent, to connect or to answer.
InteractionsFairness ==
  /\ \A i \in Interactions : WF_interactionVars(ExpireInteraction(i))
  /\ \A p \in Phones : WF_interactionVars(PhoneReadsResult(p))
  /\ \A p \in Phones : WF_interactionVars(DesktopReadsAnswer(p) \/ DesktopReadsSync(p))

-----------------------------------------------------------------------------
(* Properties.                                                             *)

\* A provider is allowed what it asked only by an answer that allows it and is
\* the recorded outcome; whatever else ends the interaction denies it.
ReplyMatchesRecord ==
  \A i \in Interactions :
    /\ reply[i] = "granted" => status[i] = "resolved"
    /\ reply[i] = "denied" => status[i] \in Final \ {"resolved"}

\* The first outcome stands: an answer from another App, a timer, the closing
\* session or a restart never change it.
FirstOutcomeStands ==
  [][\A i \in Interactions : status[i] \in Final =>
       status'[i] = status[i] /\ actionOf'[i] = actionOf[i]]_interactionVars

\* While the Desktop Agent runs, exactly the pending rows have a promise and a
\* timer that will end them.
PendingIsHeld == desktop = "up" => Pending = memory

\* The row, the promise the provider waits on and what it was told agree.
OutcomesAgree == ReplyMatchesRecord /\ PendingIsHeld

\* An App that is connected and has nothing under way lists what is pending.
Quiet(p) ==
  desktop = "up" /\ p \in linked /\ toApp[p] = <<>> /\ toDesktop[p] = <<>>
ShownIsPending == \A p \in Phones : Quiet(p) => cards[p] = Pending

\* A provider that asked is told, unless it exits, its session is closed or
\* the Desktop Agent ends.
AskedIsTold ==
  \A i \in Interactions :
    status[i] = "pending" ~>
      reply[i] # "none" \/ i \in orphans \/ asker = "closed" \/ desktop = "down"
=============================================================================
