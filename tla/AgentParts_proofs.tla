-------------------------- MODULE AgentParts_proofs --------------------------
(***************************************************************************)
(* Theorems about parts of the Desktop Agent that keep to themselves.      *)
(*                                                                         *)
(* The message inbox, for any number of events, any ends of the Desktop    *)
(* Agent and any losses of the App's link.  That a message is sent unasked *)
(* once rests on its row, which outlives the process (Counted).  That the  *)
(* App's switch ends up as the setting rests on what is under way: as long *)
(* as the App has asked, an answer is to come; after that the last         *)
(* settings frame, or the switch, is right.                                *)
(*                                                                         *)
(* The frames of a terminal, for any number of Apps and captures.  What an *)
(* App shows once it has read everything is what was sent last, because    *)
(* the numbers under way rise above what it has seen (Rising).             *)
(*                                                                         *)
(* The sessions, for any number of sessions and requests.  A list judges   *)
(* by rows that may be old by then: it takes nothing that lives, because a *)
(* row names the one incarnation its session will ever have (Judged), and  *)
(* nobody makes a session whose name was given before (BornOnce).          *)
(*                                                                         *)
(* Delivery learning, for any number of episodes, candidates and crashes.  *)
(* What the tables say at any time (TablesKept) makes a correction go to   *)
(* the candidate of its own fingerprint; while the process runs, what was  *)
(* learnt agrees with what users have said (Learnt).  A restart makes up   *)
(* for what a crash has cut off by going through all episodes: that this   *)
(* mends each of them goes by induction on their number (Inductive).       *)
(*                                                                         *)
(* The timeline of a surface, for any number of events and pages of any    *)
(* size.  A page brings all that lies between the cursor the App has when  *)
(* it reads the page and the page's own (FrameRight), because a revision   *)
(* made meanwhile has a cursor beyond both.                                *)
(***************************************************************************)
EXTENDS Inbox, TerminalFrames, AgentSessions, Experience, SurfaceEvents,
        FiniteSetTheorems, WellFoundedInduction, TLAPS

-----------------------------------------------------------------------------
(* The message inbox.                                                      *)

\* What has been sent has a row.
Counted == \A k \in ProbeEvents : told[k] <= 1 /\ (told[k] > 0 => k \in rows)

\* The App waits for a settings frame.
Asking == \E i \in 1..Len(toAgent) : toAgent[i].kind \in {"get", "set"}

\* The last settings frame under way says what is in force.
Answered ==
  \E i \in 1..Len(toInbox) :
    /\ toInbox[i].kind = "settings" /\ toInbox[i].enabled = enabled
    /\ \A j \in 1..Len(toInbox) : j > i => toInbox[j].kind # "settings"

Settled ==
  /\ \A i \in 1..Len(toInbox) : toInbox[i].kind # "settings"
  /\ switch = enabled

SettingComes == secured => Asking \/ Answered \/ Settled

InboxInv == InboxTypeOK /\ Counted /\ SettingComes

-----------------------------------------------------------------------------
(* Types.                                                                  *)

\* The frames exchanged.
LEMMA FramesTyped ==
  /\ \A k \in ProbeEvents : [kind |-> "message", message |-> k] \in AppFrames
  /\ \A ms \in SUBSET ProbeEvents : [kind |-> "list", messages |-> ms] \in AppFrames
  /\ \A b \in BOOLEAN : /\ [kind |-> "settings", enabled |-> b] \in AppFrames
                        /\ [kind |-> "set", enabled |-> b] \in AgentFrames
  /\ [kind |-> "get"] \in AgentFrames /\ [kind |-> "list"] \in AgentFrames
  /\ OnConnect \in Seq(AgentFrames)
BY DEF AppFrames, AgentFrames, OnConnect

\* publishMessage keeps the types of what it sets.
LEMMA PublishTyped ==
  ASSUME InboxTypeOK, NEW k \in ProbeEvents, PublishMessage(k)
  PROVE  /\ seen' \subseteq ProbeEvents /\ rows' \subseteq ProbeEvents
         /\ toInbox' \in Seq(AppFrames)
         /\ told' \in [ProbeEvents -> Nat]
BY FramesTyped DEF PublishMessage, InboxTypeOK

\* What a setting is after a request, and the frame that answers it.
LEMMA HandleTyped ==
  ASSUME InboxTypeOK, HandleInboxRequest
  PROVE  /\ enabled' \in BOOLEAN
         /\ toInbox' \in Seq(AppFrames) /\ toAgent' \in Seq(AgentFrames)
<1> DEFINE request == Head(toAgent)
<1>1. request \in AgentFrames /\ toAgent' \in Seq(AgentFrames)
  BY DEF HandleInboxRequest, InboxTypeOK
<1>2. enabled' \in BOOLEAN
  BY <1>1 DEF HandleInboxRequest, InboxTypeOK, AgentFrames
<1>3. Latest \in SUBSET ProbeEvents
  BY DEF Latest, InboxTypeOK
<1>4. \/ toInbox' = Append(toInbox, [kind |-> "list", messages |-> Latest])
      \/ toInbox' = Append(toInbox, [kind |-> "settings", enabled |-> enabled'])
  BY DEF HandleInboxRequest
<1>5. toInbox' \in Seq(AppFrames)
  <2>1. /\ [kind |-> "list", messages |-> Latest] \in AppFrames
        /\ [kind |-> "settings", enabled |-> enabled'] \in AppFrames
    BY <1>2, <1>3, FramesTyped
  <2>2. toInbox \in Seq(AppFrames)
    BY DEF InboxTypeOK
  <2> QED BY <1>4, <2>1, <2>2
<1> QED BY <1>1, <1>2, <1>5

LEMMA TypeStep ==
  ASSUME InboxTypeOK, [InboxNext]_inboxVars
  PROVE  InboxTypeOK'
<1> USE DEF InboxTypeOK, desktopInboxVars, appInboxVars, inboxLinkVars, inboxBounds
<1>0. /\ MaxCrashes \in Nat /\ MaxLosses \in Nat /\ MaxToggles \in Nat
      /\ Recorded \subseteq ProbeEvents
      /\ <<>> \in Seq(AppFrames) /\ <<>> \in Seq(AgentFrames) /\ <<>> \in Seq(ProbeEvents)
  BY InboxAssumption DEF InboxAssumption
<1>1. ASSUME NEW k \in ProbeEvents, FireHook(k)
      PROVE  InboxTypeOK'
  BY <1>1 DEF FireHook
<1>2. ASSUME NEW k \in ProbeEvents, ImportRecord(k)
      PROVE  InboxTypeOK'
  BY <1>2, PublishTyped DEF ImportRecord
<1>3. CASE ProcessAccepted
  <2>1. Head(accepted) \in ProbeEvents /\ accepted' \in Seq(ProbeEvents)
    BY <1>3 DEF ProcessAccepted
  <2> QED BY <1>3, <2>1, PublishTyped DEF ProcessAccepted
<1>4. CASE StartReceiver
  BY <1>4 DEF StartReceiver, IndexOnStart
<1>5. CASE WriteImportIndex
  BY <1>5 DEF WriteImportIndex
<1>6. CASE CrashDesktop
  <2>1. ends' \in 0..MaxCrashes
    BY <1>0, <1>6 DEF CrashDesktop
  <2>2. /\ accepted' \in Seq(ProbeEvents)
        /\ toInbox' \in Seq(AppFrames) /\ toAgent' \in Seq(AgentFrames)
    BY <1>0, <1>6 DEF CrashDesktop
  <2> QED BY <1>6, <2>1, <2>2 DEF CrashDesktop
<1>7. CASE HandleInboxRequest
  BY <1>7, HandleTyped DEF HandleInboxRequest
<1>8. CASE ConnectApp
  BY <1>8, FramesTyped DEF ConnectApp
<1>9. CASE LoseApp
  <2>1. losses' \in 0..MaxLosses
    BY <1>0, <1>9 DEF LoseApp
  <2>2. toInbox' \in Seq(AppFrames) /\ toAgent' \in Seq(AgentFrames)
    BY <1>0, <1>9 DEF LoseApp
  <2> QED BY <1>9, <2>1, <2>2 DEF LoseApp
<1>10. CASE ReceiveInboxFrame
  <2>1. Head(toInbox) \in AppFrames /\ toInbox' \in Seq(AppFrames)
    BY <1>10 DEF ReceiveInboxFrame
  <2>2. switch' \in BOOLEAN
    BY <1>10, <2>1 DEF ReceiveInboxFrame, AppFrames
  <2>3. inbox' \in [ProbeEvents -> Marks]
    BY <1>10 DEF ReceiveInboxFrame, Saved, Marks
  <2> QED BY <1>10, <2>1, <2>2, <2>3 DEF ReceiveInboxFrame
<1>11. CASE ToggleNotifications
  <2>1. [kind |-> "set", enabled |-> ~switch] \in AgentFrames
    BY FramesTyped
  <2>2. toAgent' \in Seq(AgentFrames)
    BY <1>11, <2>1 DEF ToggleNotifications
  <2> QED BY <1>0, <1>11, <2>2 DEF ToggleNotifications
<1>12. ASSUME NEW k \in ProbeEvents, NEW m \in {"read", "dismissed"}, MarkMessage(k, m)
       PROVE  InboxTypeOK'
  BY <1>12 DEF MarkMessage, Marks
<1>13. CASE UNCHANGED inboxVars
  BY <1>13 DEF inboxVars
<1> QED BY <1>1, <1>2, <1>3, <1>4, <1>5, <1>6, <1>7, <1>8, <1>9, <1>10, <1>11, <1>12, <1>13
        DEF InboxNext

-----------------------------------------------------------------------------
(* Messages sent unasked.                                                  *)

LEMMA PublishCounted ==
  ASSUME InboxTypeOK, Counted, NEW k \in ProbeEvents, PublishMessage(k)
  PROVE  Counted'
<1>1. CASE IsNew(k)
  <2>1. told[k] = 0
    BY <1>1 DEF IsNew, Counted, InboxTypeOK
  <2> QED BY <1>1, <2>1 DEF PublishMessage, Counted, InboxTypeOK
<1>2. CASE ~IsNew(k)
  BY <1>2 DEF PublishMessage, Counted
<1> QED BY <1>1, <1>2

LEMMA CountedStep ==
  ASSUME InboxTypeOK, Counted, [InboxNext]_inboxVars
  PROVE  Counted'
<1>1. CASE UNCHANGED <<told, rows>>
  BY <1>1 DEF Counted
<1>2. ASSUME NEW k \in ProbeEvents, ImportRecord(k)
      PROVE  Counted'
  BY <1>2, PublishCounted DEF ImportRecord
<1>3. CASE ProcessAccepted
  <2>1. Head(accepted) \in ProbeEvents
    BY <1>3 DEF ProcessAccepted, InboxTypeOK
  <2> QED BY <1>3, <2>1, PublishCounted DEF ProcessAccepted
<1> QED BY <1>1, <1>2, <1>3
        DEF InboxNext, inboxVars, desktopInboxVars, appInboxVars, inboxLinkVars, inboxBounds,
            FireHook, StartReceiver, WriteImportIndex, CrashDesktop, HandleInboxRequest,
            ConnectApp, LoseApp, ReceiveInboxFrame, ToggleNotifications, MarkMessage

-----------------------------------------------------------------------------
(* The notification setting.                                               *)

\* A frame that is no settings frame changes nothing.
LEMMA OtherFrameComes ==
  ASSUME InboxTypeOK, SettingComes, NEW m \in AppFrames, m.kind # "settings",
         toInbox' = Append(toInbox, m), UNCHANGED <<secured, enabled, switch, toAgent>>
  PROVE  SettingComes'
<1>1. /\ Len(toInbox') = Len(toInbox) + 1 /\ Len(toInbox) \in Nat
      /\ \A i \in 1..Len(toInbox) : toInbox'[i] = toInbox[i]
      /\ toInbox'[Len(toInbox')] = m
  BY DEF InboxTypeOK
<1>2. CASE Asking
  BY <1>2 DEF SettingComes, Asking
<1>3. CASE secured /\ Answered
  <2>1. PICK i \in 1..Len(toInbox) :
          /\ toInbox[i].kind = "settings" /\ toInbox[i].enabled = enabled
          /\ \A j \in 1..Len(toInbox) : j > i => toInbox[j].kind # "settings"
    BY <1>3 DEF Answered
  <2>2. /\ i \in 1..Len(toInbox') /\ toInbox'[i] = toInbox[i]
        /\ \A j \in 1..Len(toInbox') : j > i => toInbox'[j].kind # "settings"
    BY <1>1, <2>1
  <2> QED BY <2>1, <2>2 DEF SettingComes, Answered
<1>4. CASE secured /\ Settled
  BY <1>1, <1>4 DEF SettingComes, Settled
<1> QED BY <1>2, <1>3, <1>4 DEF SettingComes

\* An answer to the last request is the last settings frame.
LEMMA RequestHandled ==
  ASSUME InboxTypeOK, SettingComes, HandleInboxRequest
  PROVE  SettingComes'
<1> DEFINE request == Head(toAgent)
<1>1. /\ toAgent # <<>> /\ toAgent' = Tail(toAgent) /\ request \in AgentFrames
      /\ UNCHANGED <<secured, switch>>
  BY DEF HandleInboxRequest, InboxTypeOK, appInboxVars
<1>2. CASE request.kind \in {"get", "set"}
  <2>1. toInbox' = Append(toInbox, [kind |-> "settings", enabled |-> enabled'])
    BY <1>2 DEF HandleInboxRequest
  <2>2. /\ Len(toInbox') = Len(toInbox) + 1 /\ Len(toInbox) \in Nat
        /\ toInbox'[Len(toInbox')] = [kind |-> "settings", enabled |-> enabled']
    BY <2>1 DEF InboxTypeOK
  <2> QED BY <2>2 DEF SettingComes, Answered
<1>3. CASE request.kind \notin {"get", "set"}
  <2>1. request.kind = "list"
    BY <1>1, <1>3 DEF AgentFrames
  <2>2. enabled' = enabled /\ toInbox' = Append(toInbox, [kind |-> "list", messages |-> Latest])
    BY <2>1 DEF HandleInboxRequest
  <2>3. Asking => Asking'
    <3>1. SUFFICES ASSUME Asking PROVE Asking'
      OBVIOUS
    <3>2. PICK i \in 1..Len(toAgent) : toAgent[i].kind \in {"get", "set"}
      BY <3>1 DEF Asking
    <3>3. i # 1
      BY <1>3, <3>2 DEF InboxTypeOK
    <3>4. i - 1 \in 1..Len(toAgent') /\ toAgent'[i - 1] = toAgent[i]
      BY <1>1, <3>3 DEF InboxTypeOK
    <3> QED BY <3>2, <3>4 DEF Asking
  <2>4. CASE Asking
    BY <2>3, <2>4 DEF SettingComes
  <2>5. CASE ~Asking
    <3>1. /\ Len(toInbox') = Len(toInbox) + 1 /\ Len(toInbox) \in Nat
          /\ \A i \in 1..Len(toInbox) : toInbox'[i] = toInbox[i]
          /\ toInbox'[Len(toInbox')].kind = "list"
      BY <2>2 DEF InboxTypeOK
    <3>2. CASE secured /\ Answered
      <4>1. PICK i \in 1..Len(toInbox) :
              /\ toInbox[i].kind = "settings" /\ toInbox[i].enabled = enabled
              /\ \A j \in 1..Len(toInbox) : j > i => toInbox[j].kind # "settings"
        BY <3>2 DEF Answered
      <4>2. /\ i \in 1..Len(toInbox') /\ toInbox'[i] = toInbox[i]
            /\ \A j \in 1..Len(toInbox') : j > i => toInbox'[j].kind # "settings"
        BY <3>1, <4>1
      <4> QED BY <2>2, <4>1, <4>2 DEF SettingComes, Answered
    <3>3. CASE secured /\ Settled
      BY <1>1, <2>2, <3>1, <3>3 DEF SettingComes, Settled
    <3>4. CASE ~secured
      BY <1>1, <3>4 DEF SettingComes
    <3> QED BY <2>5, <3>2, <3>3, <3>4 DEF SettingComes
  <2> QED BY <2>4, <2>5
<1> QED BY <1>2, <1>3

\* The App reads its first frame.
LEMMA FrameRead ==
  ASSUME InboxTypeOK, SettingComes, ReceiveInboxFrame
  PROVE  SettingComes'
<1> DEFINE frame == Head(toInbox)
<1>1. /\ toInbox # <<>> /\ toInbox' = Tail(toInbox)
      /\ UNCHANGED <<secured, enabled, toAgent>>
      /\ switch' = IF frame.kind = "settings" THEN frame.enabled ELSE switch
  BY DEF ReceiveInboxFrame
<1>2. /\ Len(toInbox') = Len(toInbox) - 1 /\ Len(toInbox) \in Nat \ {0}
      /\ \A i \in 1..Len(toInbox') : toInbox'[i] = toInbox[i + 1]
      /\ frame = toInbox[1]
  BY <1>1 DEF InboxTypeOK
<1>3. CASE Asking
  BY <1>1, <1>3 DEF SettingComes, Asking
<1>4. CASE secured /\ Answered
  <2>1. PICK i \in 1..Len(toInbox) :
          /\ toInbox[i].kind = "settings" /\ toInbox[i].enabled = enabled
          /\ \A j \in 1..Len(toInbox) : j > i => toInbox[j].kind # "settings"
    BY <1>4 DEF Answered
  <2>2. CASE i = 1
    <3>1. switch' = enabled'
      BY <1>1, <1>2, <2>1, <2>2
    <3>2. \A j \in 1..Len(toInbox') : toInbox'[j].kind # "settings"
      BY <1>2, <2>1, <2>2
    <3> QED BY <3>1, <3>2 DEF SettingComes, Settled
  <2>3. CASE i # 1
    <3>1. i - 1 \in 1..Len(toInbox') /\ toInbox'[i - 1] = toInbox[i]
      BY <1>2, <2>3
    <3>2. \A j \in 1..Len(toInbox') : j > i - 1 => toInbox'[j].kind # "settings"
      BY <1>2, <2>1
    <3> QED BY <1>1, <2>1, <3>1, <3>2 DEF SettingComes, Answered
  <2> QED BY <2>2, <2>3
<1>5. CASE secured /\ Settled
  BY <1>1, <1>2, <1>5 DEF SettingComes, Settled
<1>6. CASE ~secured
  BY <1>1, <1>6 DEF SettingComes
<1> QED BY <1>3, <1>4, <1>5, <1>6 DEF SettingComes

LEMMA PublishSetting ==
  ASSUME InboxTypeOK, SettingComes, NEW k \in ProbeEvents, PublishMessage(k),
         UNCHANGED <<secured, enabled, switch, toAgent>>
  PROVE  SettingComes'
<1>1. CASE toInbox' = toInbox
  BY <1>1 DEF SettingComes, Asking, Answered, Settled
<1>2. CASE toInbox' = Append(toInbox, [kind |-> "message", message |-> k])
  <2>1. [kind |-> "message", message |-> k] \in AppFrames
    BY FramesTyped
  <2> QED BY <1>2, <2>1, OtherFrameComes
<1> QED BY <1>1, <1>2 DEF PublishMessage

LEMMA SettingStep ==
  ASSUME InboxTypeOK, SettingComes, [InboxNext]_inboxVars
  PROVE  SettingComes'
<1> USE DEF desktopInboxVars, appInboxVars, inboxLinkVars, inboxBounds
<1>1. CASE UNCHANGED <<inboxLinkVars, enabled, switch>>
  BY <1>1 DEF SettingComes, Asking, Answered, Settled
<1>2. ASSUME NEW k \in ProbeEvents, ImportRecord(k)
      PROVE  SettingComes'
  BY <1>2, PublishSetting DEF ImportRecord
<1>3. CASE ProcessAccepted
  <2>1. Head(accepted) \in ProbeEvents
    BY <1>3 DEF ProcessAccepted, InboxTypeOK
  <2> QED BY <1>3, <2>1, PublishSetting DEF ProcessAccepted
<1>4. CASE CrashDesktop \/ LoseApp
  BY <1>4 DEF CrashDesktop, LoseApp, SettingComes
<1>5. CASE ConnectApp
  <2>1. toAgent' = <<[kind |-> "get"], [kind |-> "list"]>>
    BY <1>5 DEF ConnectApp, OnConnect
  <2>2. 1 \in 1..Len(toAgent') /\ toAgent'[1].kind = "get"
    BY <2>1
  <2> QED BY <2>2 DEF SettingComes, Asking
<1>6. CASE ToggleNotifications
  <2>1. CASE secured
    <3>1. toAgent' = Append(toAgent, [kind |-> "set", enabled |-> ~switch])
      BY <1>6, <2>1 DEF ToggleNotifications
    <3>2. /\ Len(toAgent') \in 1..Len(toAgent')
          /\ toAgent'[Len(toAgent')] = [kind |-> "set", enabled |-> ~switch]
      BY <3>1 DEF InboxTypeOK
    <3> QED BY <3>2 DEF SettingComes, Asking
  <2>2. CASE ~secured
    BY <1>6, <2>2 DEF ToggleNotifications, SettingComes
  <2> QED BY <2>1, <2>2
<1> QED BY <1>1, <1>2, <1>3, <1>4, <1>5, <1>6, RequestHandled, FrameRead
        DEF InboxNext, inboxVars, FireHook, StartReceiver, WriteImportIndex, MarkMessage

-----------------------------------------------------------------------------
(* Theorems.                                                               *)

LEMMA InboxInitially == InboxInit => InboxInv
<1> SUFFICES ASSUME InboxInit PROVE InboxInv
  OBVIOUS
<1> USE DEF InboxInit
<1>1. MaxCrashes \in Nat /\ MaxLosses \in Nat /\ MaxToggles \in Nat
  BY InboxAssumption DEF InboxAssumption
<1>2. InboxTypeOK
  <2>1. /\ \A s \in {fired, records, index, importing, imported, seen, rows} : s \subseteq ProbeEvents
        /\ {receiver, enabled, secured, switch} \subseteq BOOLEAN
    OBVIOUS
  <2>2. accepted \in Seq(ProbeEvents) /\ toInbox \in Seq(AppFrames) /\ toAgent \in Seq(AgentFrames)
    OBVIOUS
  <2>3. inbox \in [ProbeEvents -> Marks] /\ told \in [ProbeEvents -> Nat]
    BY DEF Marks
  <2>4. ends \in 0 .. MaxCrashes /\ losses \in 0 .. MaxLosses /\ toggles \in 0 .. MaxToggles
    BY <1>1
  <2> QED BY <2>1, <2>2, <2>3, <2>4 DEF InboxTypeOK
<1>3. Counted /\ SettingComes
  BY DEF Counted, SettingComes
<1> QED BY <1>2, <1>3 DEF InboxInv

\* What every reachable state satisfies.
THEOREM InboxInvariant == InboxSpec => []InboxInv
<1>1. InboxInv /\ [InboxNext]_inboxVars => InboxInv'
  BY TypeStep, CountedStep, SettingStep DEF InboxInv
<1> QED BY InboxInitially, <1>1, PTL DEF InboxSpec

\* For any events, ends and losses: no message is sent to an App unasked twice,
\* and once nothing is under way the App's switch shows the setting in force.
THEOREM InboxConsistent == InboxSpec => []InboxAgrees
<1>1. InboxInv => InboxAgrees
  <2> SUFFICES ASSUME InboxInv PROVE InboxAgrees
    OBVIOUS
  <2>1. ToldOnce
    BY DEF InboxInv, Counted, ToldOnce
  <2>2. SettingsAgree
    <3> SUFFICES ASSUME secured, toInbox = <<>>, toAgent = <<>> PROVE switch = enabled
      BY DEF SettingsAgree
    <3>1. Len(toInbox) = 0 /\ Len(toAgent) = 0
      OBVIOUS
    <3>2. ~Asking /\ ~Answered
      BY <3>1 DEF Asking, Answered
    <3> QED BY <3>2 DEF InboxInv, SettingComes, Settled
  <2> QED BY <2>1, <2>2 DEF InboxAgrees
<1> QED BY <1>1, InboxInvariant, PTL

\* Neither a later list nor a message sent again brings back what the user has
\* read or deleted.
THEOREM MarksKept == InboxSpec => MarksStay
<1>1. ASSUME InboxTypeOK, [InboxNext]_inboxVars
      PROVE  [\A k \in ProbeEvents :
                /\ inbox[k] = "dismissed" => inbox'[k] = "dismissed"
                /\ inbox[k] = "read" => inbox'[k] # "unread"]_inboxVars
  <2> USE <1>1 DEF InboxTypeOK, desktopInboxVars, appInboxVars, inboxLinkVars, inboxBounds
  <2>1. CASE inbox' = inbox
    BY <2>1
  <2>2. CASE ReceiveInboxFrame
    BY <2>2 DEF ReceiveInboxFrame, Saved
  <2>3. ASSUME NEW k \in ProbeEvents, NEW m \in {"read", "dismissed"}, MarkMessage(k, m)
        PROVE  \A x \in ProbeEvents :
                 /\ inbox[x] = "dismissed" => inbox'[x] = "dismissed"
                 /\ inbox[x] = "read" => inbox'[x] # "unread"
    BY <2>3 DEF MarkMessage
  <2> QED BY <2>1, <2>2, <2>3
          DEF InboxNext, inboxVars, FireHook, ImportRecord, ProcessAccepted, StartReceiver,
              WriteImportIndex, CrashDesktop, HandleInboxRequest, ConnectApp, LoseApp,
              ToggleNotifications
<1>2. InboxInv => InboxTypeOK
  BY DEF InboxInv
<1> QED BY <1>1, <1>2, InboxInvariant, PTL DEF InboxSpec, MarksStay

-----------------------------------------------------------------------------
(* The frames of a terminal.                                               *)

\* The numbers under way to an App rise, above what it has seen, up to the
\* session's own.
Rising(p) ==
  /\ watermark[p] <= frameSeq
  /\ \A i \in 1..Len(toViewer[p]) :
       watermark[p] < toViewer[p][i].seq /\ toViewer[p][i].seq <= frameSeq
  /\ \A i, j \in 1..Len(toViewer[p]) : i < j => toViewer[p][i].seq < toViewer[p][j].seq

\* What an App shows once it has read everything.
LastShown(p) ==
  IF toViewer[p] = <<>> THEN screen[p] ELSE toViewer[p][Len(toViewer[p])].data

FramesInv ==
  /\ FramesTypeOK
  /\ pushing => Viewers # {}
  /\ \A p \in Viewers \ outran : Rising(p)
  /\ \A p \in Viewers \ (blind \cup outran) : LastShown(p) = lastHash

\* A capture begins: only the captures under way change.
LEMMA CaptureTyped ==
  ASSUME FramesTypeOK, NEW k \in {"push", "attach", "snapshot"}, NEW p \in Viewers, Capture(k, p)
  PROVE  captures' \in Seq(Captures)
BY DEF Capture, FramesTypeOK, Captures

\* A capture ends.
LEMMA WithoutTyped ==
  ASSUME FramesTypeOK, NEW i \in DOMAIN captures
  PROVE  captures[i] \in Captures /\ Without(i) \in Seq(Captures)
<1>1. captures \in Seq(Captures) /\ i \in 1..Len(captures) /\ Len(captures) \in Nat
  BY DEF FramesTypeOK
<1>2. \A j \in 1..Len(captures) : captures[j] \in Captures
  BY <1>1
<1>3. \A j \in 1..Len(captures) - 1 :
        (IF j < i THEN captures[j] ELSE captures[j + 1]) \in Captures
  BY <1>1, <1>2
<1>4. Len(captures) - 1 \in Nat
  BY <1>1
<1> QED BY <1>1, <1>2, <1>3, <1>4 DEF Without

\* Frames are numbered.
LEMMA SeqsAreNumbers ==
  ASSUME NEW q \in Seq(TerminalMessages), NEW i \in 1..Len(q)
  PROVE  q[i].seq \in Nat
<1>1. q[i] \in TerminalMessages
  OBVIOUS
<1> QED BY <1>1 DEF TerminalMessages

\* An App of which nothing changes.
LEMMA ViewerKept ==
  ASSUME NEW p \in Viewers, FramesTypeOK, frameSeq' \in Nat, frameSeq <= frameSeq',
         toViewer'[p] = toViewer[p], watermark'[p] = watermark[p], screen'[p] = screen[p]
  PROVE  /\ Rising(p) => Rising(p)'
         /\ LastShown(p)' = LastShown(p)
<1>1. \A i \in 1..Len(toViewer[p]) : toViewer[p][i].seq \in Nat
  BY SeqsAreNumbers DEF FramesTypeOK
<1>2. watermark[p] \in Nat /\ frameSeq \in Nat
  BY DEF FramesTypeOK
<1> QED BY <1>1, <1>2 DEF Rising, LastShown

\* An App that is sent what has the next number.
LEMMA ViewerSent ==
  ASSUME NEW p \in Viewers, FramesTypeOK, frameSeq' = frameSeq + 1, NEW k, NEW v,
         toViewer'[p] = Append(toViewer[p], [kind |-> k, data |-> v, seq |-> NextSeq]),
         watermark'[p] = watermark[p]
  PROVE  /\ Rising(p) => Rising(p)'
         /\ LastShown(p)' = v
<1> DEFINE q == toViewer[p]
<1> DEFINE m == [kind |-> k, data |-> v, seq |-> NextSeq]
<1>1. q \in Seq(TerminalMessages) /\ watermark[p] \in Nat /\ frameSeq \in Nat
  BY DEF FramesTypeOK
<1>2. \A i \in 1..Len(q) : q[i].seq \in Nat
  BY <1>1, SeqsAreNumbers
<1>3. /\ Len(toViewer'[p]) = Len(q) + 1 /\ Len(q) \in Nat
      /\ toViewer'[p] # <<>>
      /\ \A i \in 1..Len(q) : toViewer'[p][i] = q[i]
      /\ toViewer'[p][Len(q) + 1] = m
  BY <1>1
<1>4. m.seq = frameSeq + 1 /\ m.data = v
  BY DEF NextSeq
<1>5. ASSUME Rising(p) PROVE Rising(p)'
  <2>1. \A i \in 1..Len(q) + 1 :
          watermark[p] < toViewer'[p][i].seq /\ toViewer'[p][i].seq <= frameSeq + 1
    BY <1>1, <1>2, <1>3, <1>4, <1>5 DEF Rising
  <2>2. \A i, j \in 1..Len(q) + 1 : i < j => toViewer'[p][i].seq < toViewer'[p][j].seq
    BY <1>1, <1>2, <1>3, <1>4, <1>5 DEF Rising
  <2> QED BY <1>1, <1>3, <1>5, <2>1, <2>2 DEF Rising
<1> QED BY <1>3, <1>4, <1>5 DEF LastShown

\* A queue of no length is empty.
LEMMA EmptyIfShort ==
  ASSUME NEW S, NEW q \in Seq(S), Len(q) = 1
  PROVE  Tail(q) = <<>>
<1> DEFINE r == Tail(q)
<1>1. r \in Seq(S) /\ Len(r) = 0
  OBVIOUS
<1> HIDE DEF r
<1>2. r = <<>>
  BY <1>1
<1> QED BY <1>2 DEF r

\* An App reads: what it has seen rises to the number it reads, and it shows
\* what is not older.
LEMMA ViewerRead ==
  ASSUME NEW p \in Viewers, FramesTypeOK, ViewerReads(p), Rising(p)
  PROVE  Rising(p)' /\ LastShown(p)' = LastShown(p)
<1> DEFINE q == toViewer[p]
<1> DEFINE m == Head(q)
<1>1. q \in Seq(TerminalMessages) /\ q # <<>> /\ Len(q) \in Nat /\ watermark[p] \in Nat /\ frameSeq \in Nat
  BY DEF FramesTypeOK, ViewerReads
<1>2. /\ toViewer'[p] = Tail(q) /\ frameSeq' = frameSeq
      /\ m = q[1] /\ 1 \in 1..Len(q)
      /\ Len(Tail(q)) = Len(q) - 1
      /\ \A i \in 1..Len(q) - 1 : Tail(q)[i] = q[i + 1] /\ i + 1 \in 1..Len(q)
  BY <1>1 DEF ViewerReads, FramesTypeOK
<1>3. \A i \in 1..Len(q) : q[i].seq \in Nat
  BY <1>1, SeqsAreNumbers
<1>4. m.seq > watermark[p] /\ m.seq <= frameSeq
  BY <1>1, <1>2, <1>3 DEF Rising
<1>5. watermark'[p] = m.seq /\ screen'[p] = m.data
  BY <1>4 DEF ViewerReads, Shows, FramesTypeOK
<1>6. Rising(p)'
  <2>1. \A i \in 1..Len(q) - 1 : m.seq < Tail(q)[i].seq /\ Tail(q)[i].seq <= frameSeq
    BY <1>1, <1>2, <1>3 DEF Rising
  <2>2. \A i, j \in 1..Len(q) - 1 : i < j => Tail(q)[i].seq < Tail(q)[j].seq
    BY <1>1, <1>2, <1>3 DEF Rising
  <2> QED BY <1>2, <1>4, <1>5, <2>1, <2>2 DEF Rising
<1>7. LastShown(p)' = LastShown(p)
  <2>1. CASE Len(q) = 1
    <3>1. Tail(q) = <<>>
      BY <1>1, <1>2, <2>1, EmptyIfShort
    <3> QED BY <1>1, <1>2, <1>5, <2>1, <3>1 DEF LastShown
  <2>2. CASE Len(q) > 1
    <3>1. Len(Tail(q)) > 0 /\ Len(q) - 1 \in 1..Len(q) - 1
      BY <1>1, <1>2, <2>2
    <3>2. Tail(q) # <<>> /\ Tail(q)[Len(q) - 1] = q[Len(q) - 1 + 1]
      BY <1>2, <3>1
    <3> QED BY <1>1, <1>2, <2>2, <3>2 DEF LastShown
  <2> HIDE DEF q
  <2>3. Len(q) = 1 \/ Len(q) > 1
    BY <1>1, <1>2
  <2> QED BY <2>1, <2>2, <2>3
<1> QED BY <1>6, <1>7

LEMMA FramesInitially == FramesInit => FramesInv
<1> SUFFICES ASSUME FramesInit PROVE FramesInv
  OBVIOUS
<1>1. FramesTypeOK
  <2>1. <<>> \in Seq(Captures) /\ <<>> \in Seq(TerminalMessages)
    OBVIOUS
  <2>2. /\ {pane, lastHash, frameSeq, stops, leaves} \subseteq Nat
        /\ {watchers, joined, blind, outran} \subseteq SUBSET Viewers
    BY DEF FramesInit
  <2>3. /\ toViewer \in [Viewers -> Seq(TerminalMessages)]
        /\ screen \in [Viewers -> Nat] /\ watermark \in [Viewers -> Nat]
    BY <2>1 DEF FramesInit
  <2> QED BY <2>1, <2>2, <2>3 DEF FramesInit, FramesTypeOK
<1>2. \A p \in Viewers : Rising(p)
  BY DEF FramesInit, Rising
<1> QED BY <1>1, <1>2 DEF FramesInit, FramesInv

\* Steps that send nothing and read nothing.
LEMMA QuietFrames ==
  ASSUME FramesInv, FramesTypeOK', UNCHANGED <<lastHash, frameSeq, toViewer, screen, watermark>>,
         outran \subseteq outran', blind \subseteq blind', pushing' => pushing
  PROVE  FramesInv'
<1>1. FramesTypeOK /\ frameSeq \in Nat /\ frameSeq' \in Nat /\ frameSeq <= frameSeq'
  BY DEF FramesInv, FramesTypeOK
<1>2. \A p \in Viewers : /\ Rising(p) => Rising(p)'
                         /\ LastShown(p)' = LastShown(p)
  BY <1>1, ViewerKept
<1> QED BY <1>2 DEF FramesInv

LEMMA FramesStep ==
  ASSUME FramesInv, [FramesNext]_frameVars
  PROVE  FramesInv'
<1>0. FramesTypeOK /\ <<>> \in Seq(TerminalMessages)
  BY DEF FramesInv
<1>1. CASE PaneChanges
  <2>1. FramesTypeOK'
    BY <1>0, <1>1 DEF PaneChanges, FramesTypeOK
  <2> QED BY <1>1, <2>1, QuietFrames DEF PaneChanges
<1>2. ASSUME NEW p \in Viewers, AttachViewer(p)
      PROVE  FramesInv'
  <2>1. captures' \in Seq(Captures)
    BY <1>0, <1>2, CaptureTyped DEF AttachViewer
  <2>2. FramesTypeOK'
    BY <1>0, <1>2, <2>1 DEF AttachViewer, FramesTypeOK
  <2> QED BY <1>2, <2>2, QuietFrames DEF AttachViewer
<1>3. ASSUME NEW p \in Viewers, AskSnapshot(p)
      PROVE  FramesInv'
  <2>1. captures' \in Seq(Captures)
    BY <1>0, <1>3, CaptureTyped DEF AskSnapshot
  <2>2. FramesTypeOK'
    BY <1>0, <1>3, <2>1 DEF AskSnapshot, FramesTypeOK
  <2> QED BY <1>3, <2>2, QuietFrames DEF AskSnapshot
<1>4. CASE Tick
  <2>1. (CHOOSE p \in Viewers : TRUE) \in Viewers
    BY <1>4 DEF Tick, FramesInv
  <2>2. captures' \in Seq(Captures)
    BY <1>0, <1>4, <2>1, CaptureTyped DEF Tick
  <2>3. FramesTypeOK'
    BY <1>0, <1>4, <2>2 DEF Tick, FramesTypeOK
  <2> QED BY <1>4, <2>3, QuietFrames DEF Tick
<1>5. ASSUME NEW i \in DOMAIN captures, SnapshotTaken(i)
      PROVE  FramesInv'
  <2> DEFINE c == captures[i]
  <2> DEFINE m == [kind |-> "snapshot", data |-> c.data, seq |-> NextSeq]
  <2>1. c \in Captures /\ captures' \in Seq(Captures) /\ c.app \in Viewers /\ c.data \in Nat
    BY <1>0, <1>5, WithoutTyped DEF SnapshotTaken, Captures
  <2>2. m \in TerminalMessages
    BY <1>0, <2>1 DEF TerminalMessages, NextSeq, FramesTypeOK
  <2>3. FramesTypeOK'
    <3>1. toViewer' \in [Viewers -> Seq(TerminalMessages)]
      BY <1>0, <1>5, <2>1, <2>2 DEF SnapshotTaken, FramesTypeOK
    <3>2. {lastHash', frameSeq'} \subseteq Nat /\ pushing' \in BOOLEAN /\ blind' \subseteq Viewers
      <4>1. lastHash' = c.data /\ frameSeq' = frameSeq + 1
        BY <1>5 DEF SnapshotTaken, Remembered
      <4>2. {lastHash', frameSeq'} \subseteq Nat
        BY <1>0, <2>1, <4>1 DEF FramesTypeOK
      <4>3. pushing' \in BOOLEAN
        BY <1>0, <1>5 DEF SnapshotTaken, FramesTypeOK
      <4>4. blind' \subseteq Viewers
        <5>1. blind' = blind \ {c.app} \/ blind' = Viewers \ {c.app}
          BY <1>5 DEF SnapshotTaken
        <5> QED BY <1>0, <5>1 DEF FramesTypeOK
      <4> QED BY <4>2, <4>3, <4>4
    <3>3. UNCHANGED <<pane, watchers, joined, screen, watermark, outran, stops, leaves>>
      BY <1>5 DEF SnapshotTaken
    <3> QED BY <1>0, <2>1, <3>1, <3>2, <3>3 DEF FramesTypeOK
  <2>4. ASSUME NEW p \in Viewers, p = c.app
        PROVE  (Rising(p) => Rising(p)') /\ LastShown(p)' = c.data
    <3>1. toViewer'[p] = Append(toViewer[p], m) /\ watermark' = watermark
          /\ frameSeq' = frameSeq + 1
      BY <1>0, <1>5, <2>1, <2>4 DEF SnapshotTaken, FramesTypeOK
    <3> QED BY <1>0, <3>1, ViewerSent
  <2>5. ASSUME NEW p \in Viewers, p # c.app
        PROVE  (Rising(p) => Rising(p)') /\ LastShown(p)' = LastShown(p)
    <3>1. toViewer'[p] = toViewer[p] /\ UNCHANGED <<watermark, screen>>
          /\ frameSeq' \in Nat /\ frameSeq <= frameSeq'
      BY <1>0, <1>5, <2>5 DEF SnapshotTaken, FramesTypeOK
    <3> QED BY <1>0, <2>5, <3>1, ViewerKept
  <2>50. outran' = outran /\ lastHash' = c.data
    BY <1>5 DEF SnapshotTaken, Remembered
  <2>6. \A p \in Viewers \ outran' : Rising(p)'
    BY <2>4, <2>5, <2>50 DEF FramesInv
  <2>7. ASSUME NEW p \in Viewers \ (blind' \cup outran') PROVE LastShown(p)' = lastHash'
    <3>1. p = c.app \/ (p \notin blind /\ lastHash = c.data)
      BY <1>5, <2>1, <2>7 DEF SnapshotTaken
    <3> QED BY <2>4, <2>5, <2>7, <2>50, <3>1 DEF FramesInv
  <2>8. pushing' => Viewers # {}
    BY <2>1
  <2> QED BY <2>3, <2>6, <2>7, <2>8 DEF FramesInv
<1>6. ASSUME NEW i \in DOMAIN captures, FrameTaken(i)
      PROVE  FramesInv'
  <2> DEFINE c == captures[i]
  <2> DEFINE m == [kind |-> "frame", data |-> c.data, seq |-> NextSeq]
  <2>1. c \in Captures /\ captures' \in Seq(Captures) /\ c.data \in Nat
    BY <1>0, <1>6, WithoutTyped DEF FrameTaken, Captures
  <2>2. CASE watchers = {} \/ Unchanged(c)
    <3>1. FramesTypeOK' /\ UNCHANGED <<lastHash, frameSeq, toViewer, screen, watermark, outran, blind, pushing>>
      BY <1>0, <1>6, <2>1, <2>2 DEF FrameTaken, FramesTypeOK
    <3> QED BY <3>1, QuietFrames
  <2>3. CASE ~(watchers = {} \/ Unchanged(c))
    <3>1. /\ frameSeq' = frameSeq + 1 /\ lastHash' = c.data /\ blind' = Viewers \ watchers
          /\ toViewer' = [p \in Viewers |-> IF p \in watchers THEN Append(toViewer[p], m)
                                            ELSE toViewer[p]]
          /\ UNCHANGED <<pane, pushing, watchers, joined, screen, watermark, outran, stops, leaves>>
      BY <1>6, <2>3 DEF FrameTaken, Remembered
    <3>2. m \in TerminalMessages
      BY <1>0, <2>1 DEF TerminalMessages, NextSeq, FramesTypeOK
    <3>3. FramesTypeOK'
      <4>1. toViewer' \in [Viewers -> Seq(TerminalMessages)]
        BY <1>0, <3>1, <3>2 DEF FramesTypeOK
      <4> QED BY <1>0, <2>1, <3>1, <4>1 DEF FramesTypeOK
    <3>4. ASSUME NEW p \in Viewers, p \in watchers
          PROVE  (Rising(p) => Rising(p)') /\ LastShown(p)' = c.data
      <4>1. toViewer'[p] = Append(toViewer[p], m)
        BY <3>1, <3>4
      <4> QED BY <1>0, <3>1, <4>1, ViewerSent
    <3>5. ASSUME NEW p \in Viewers, p \notin watchers
          PROVE  Rising(p) => Rising(p)'
      <4>1. toViewer'[p] = toViewer[p] /\ frameSeq' \in Nat /\ frameSeq <= frameSeq'
        BY <1>0, <3>1, <3>5 DEF FramesTypeOK
      <4> QED BY <1>0, <3>1, <4>1, ViewerKept
    <3>6. \A p \in Viewers \ outran' : Rising(p)'
      BY <3>1, <3>4, <3>5 DEF FramesInv
    <3>7. \A p \in Viewers \ (blind' \cup outran') : LastShown(p)' = lastHash'
      BY <3>1, <3>4
    <3> QED BY <3>1, <3>3, <3>6, <3>7 DEF FramesInv
  <2> QED BY <2>2, <2>3
<1>7. CASE StopPushing
  <2>1. FramesTypeOK'
    <3>1. {watchers', blind', outran', joined'} \subseteq SUBSET Viewers
      <4>1. outran \subseteq Viewers /\ joined \subseteq Viewers
        BY <1>0 DEF FramesTypeOK
      <4>2. watchers' = {} /\ blind' = Viewers /\ joined' = joined
            /\ outran' = outran \cup {p \in Viewers : watermark[p] > 0 \/ toViewer[p] # <<>>}
        BY <1>7 DEF StopPushing
      <4> QED BY <4>1, <4>2
    <3>2. {lastHash', frameSeq', stops'} \subseteq Nat /\ pushing' \in BOOLEAN
      <4>1. stops \in Nat
        BY <1>0 DEF FramesTypeOK
      <4>2. lastHash' = 0 /\ frameSeq' = 0 /\ stops' = stops + 1 /\ pushing' = FALSE
        BY <1>7 DEF StopPushing
      <4>3. pushing' \in BOOLEAN
        BY <4>2
      <4>4. lastHash' \in Nat /\ frameSeq' \in Nat /\ stops' \in Nat
        BY <4>1, <4>2
      <4> QED BY <4>3, <4>4
    <3> QED BY <1>0, <1>7, <3>1, <3>2 DEF StopPushing, FramesTypeOK
  <2>2. ASSUME NEW p \in Viewers \ outran' PROVE Rising(p)'
    <3>1. watermark[p] = 0 /\ toViewer[p] = <<>>
      BY <1>0, <1>7, <2>2 DEF StopPushing, FramesTypeOK
    <3> QED BY <1>7, <3>1 DEF StopPushing, Rising
  <2> QED BY <1>7, <2>1, <2>2 DEF StopPushing, FramesInv
<1>8. ASSUME NEW p \in Viewers, Join(p)
      PROVE  FramesInv'
  <2>1. FramesTypeOK'
    BY <1>0, <1>8 DEF Join, FramesTypeOK
  <2> QED BY <1>8, <2>1, QuietFrames DEF Join
<1>9. ASSUME NEW p \in Viewers, Leave(p)
      PROVE  FramesInv'
  <2>1. FramesTypeOK'
    <3>1. toViewer' \in [Viewers -> Seq(TerminalMessages)]
      BY <1>0, <1>9 DEF Leave, FramesTypeOK
    <3> QED BY <1>0, <1>9, <3>1 DEF Leave, FramesTypeOK
  <2>2. ASSUME NEW q \in Viewers, q # p
        PROVE  (Rising(q) => Rising(q)') /\ LastShown(q)' = LastShown(q)
    <3>1. toViewer'[q] = toViewer[q] /\ frameSeq' \in Nat /\ frameSeq <= frameSeq'
          /\ UNCHANGED <<watermark, screen>>
      BY <1>0, <1>9, <2>2 DEF Leave, FramesTypeOK
    <3> QED BY <1>0, <3>1, ViewerKept
  <2>3. Rising(p) => Rising(p)'
    <3>1. toViewer'[p] = <<>> /\ UNCHANGED <<watermark, frameSeq>>
      BY <1>0, <1>9 DEF Leave, FramesTypeOK
    <3> QED BY <3>1 DEF Rising
  <2>4. /\ outran' = outran /\ blind' = blind \cup {p} /\ lastHash' = lastHash
        /\ pushing' = pushing
    BY <1>9 DEF Leave
  <2> QED BY <2>1, <2>2, <2>3, <2>4 DEF FramesInv
<1>10. ASSUME NEW p \in Viewers, ViewerReads(p)
       PROVE  FramesInv'
  <2>1. Head(toViewer[p]) \in TerminalMessages /\ Tail(toViewer[p]) \in Seq(TerminalMessages)
    BY <1>0, <1>10 DEF ViewerReads, FramesTypeOK
  <2>2. FramesTypeOK'
    <3>1. toViewer' \in [Viewers -> Seq(TerminalMessages)]
      BY <1>0, <1>10, <2>1 DEF ViewerReads, FramesTypeOK
    <3>2. screen' \in [Viewers -> Nat] /\ watermark' \in [Viewers -> Nat]
      BY <1>0, <1>10, <2>1 DEF ViewerReads, FramesTypeOK, TerminalMessages
    <3> QED BY <1>0, <1>10, <3>1, <3>2 DEF ViewerReads, FramesTypeOK
  <2>3. /\ UNCHANGED <<outran, blind, lastHash, pushing, frameSeq>>
        /\ \A q \in Viewers \ {p} : /\ toViewer'[q] = toViewer[q]
                                    /\ watermark'[q] = watermark[q]
                                    /\ screen'[q] = screen[q]
    BY <1>0, <1>10 DEF ViewerReads, FramesTypeOK
  <2>4. ASSUME NEW q \in Viewers, q # p
        PROVE  (Rising(q) => Rising(q)') /\ LastShown(q)' = LastShown(q)
    <3>1. /\ toViewer'[q] = toViewer[q] /\ watermark'[q] = watermark[q]
          /\ screen'[q] = screen[q] /\ frameSeq' \in Nat /\ frameSeq <= frameSeq'
      BY <1>0, <2>3, <2>4 DEF FramesTypeOK
    <3> QED BY <1>0, <3>1, ViewerKept
  <2>5. Rising(p) => Rising(p)' /\ LastShown(p)' = LastShown(p)
    BY <1>0, <1>10, ViewerRead
  <2> QED BY <2>2, <2>3, <2>4, <2>5 DEF FramesInv
<1>11. CASE UNCHANGED frameVars
  <2>1. FramesTypeOK'
    BY <1>0, <1>11 DEF frameVars, FramesTypeOK
  <2> QED BY <1>11, <2>1, QuietFrames DEF frameVars
<1> QED BY <1>1, <1>2, <1>3, <1>4, <1>5, <1>6, <1>7, <1>8, <1>9, <1>10, <1>11 DEF FramesNext

\* TerminalFrames: the comparison that saves frames withholds nothing from a
\* subscriber who was sent the version it compares with, whatever captures
\* overtake one another, for any number of Apps, changes and ends of the pushing.
THEOREM FramesComplete == FramesSpec => []NothingWithheld
<1>1. FramesInit => FramesInv
  BY FramesInitially
<1>2. FramesInv /\ [FramesNext]_frameVars => FramesInv'
  BY FramesStep
<1>3. FramesInv => NothingWithheld
  BY DEF FramesInv, NothingWithheld, LastShown, FramesTypeOK
<1> QED BY <1>1, <1>2, <1>3, PTL DEF FramesSpec

-----------------------------------------------------------------------------
(* The sessions.                                                           *)

Ops ==
  [kind : RequestKinds, s : Sessions, action : CreateActions \cup {NoAction},
   step : {"unused", "preparing", "spawning", "naming", "listing", "woken",
           "killing", "resizing", "done"},
   seen : SessionRows]

Listings ==
  [phase : {"idle", "read", "answered"}, rows : [Sessions -> SessionRows], live : [InTmux -> Nat]]

SessionTypes ==
  /\ row \in [Sessions -> SessionRows] /\ knownSessions \in [Sessions -> SessionRows]
  /\ tmux \in [InTmux -> Nat] /\ born \in [InTmux -> Nat]
  /\ op \in [Requests -> Ops]
  /\ listing \in Listings
  /\ appSessions \subseteq Sessions /\ failures \in Nat
  /\ removedSince \subseteq Sessions /\ closedBefore \subseteq Sessions

Makes(r) == op[r].step \in {"preparing", "spawning", "naming"}

\* What the steps of a request say of it.
Shape(o) ==
  /\ o.step \in {"preparing", "spawning", "naming"} =>
       o.kind = "create" /\ o.s \in Managed /\ o.seen = Absent
  /\ o.step \in {"spawning", "naming"} => o.s \in TmuxSessions
  /\ o.kind = "create" => o.step \in {"preparing", "spawning", "naming", "done"}
  /\ o.step = "unused" => o.kind = "list" /\ o.seen = Absent
  /\ o.step = "killing" => o.kind \in {"close", "kill"}

\* A session of ours is started in tmux once, by the request that makes it.
BornOnce(s) ==
  /\ born[s] \in {0, 1} /\ tmux[s] \in {0, born[s]}
  /\ born[s] = 1 => \E r \in Requests : op[r].kind = "create" /\ op[r].s = s
                                          /\ op[r].step \in {"naming", "done"}
  /\ \A r \in Requests :
       op[r].kind = "create" /\ op[r].s = s =>
         /\ op[r].step \in {"preparing", "spawning"} => born[s] = 0
         /\ op[r].step = "naming" => born[s] = 1

\* A request that counts as having made, or making, its session.
Counts(r) == Makes(r) \/ (op[r].step = "done" /\ op[r].seen # Absent)

BirthInv ==
  /\ \A r \in Requests : Shape(op[r])
  /\ \A q, r \in Requests :
       op[q].kind = "create" /\ op[r].kind = "create" /\ op[q].s = op[r].s => q = r
  /\ \A s \in TmuxSessions : BornOnce(s)
  /\ \A q, r \in Requests :
       /\ op[q].kind = "create" /\ op[r].kind = "create"
       /\ op[q].action = op[r].action /\ op[q].action # NoAction
       /\ Counts(q) /\ Counts(r)
       => q = r

\* It has been started, and nobody is making it.
Made(s) == born[s] = 1 /\ ~Creating(s)

\* A row of s that no list will judge wrongly: it names the one incarnation.
Judged(s, rw) ==
  /\ rw.status # "detached"
  /\ rw.status = "running" => rw.uid = 1 /\ Made(s)

RowsInv ==
  \A s \in TmuxSessions :
    /\ Judged(s, row[s]) /\ Judged(s, knownSessions[s]) /\ Judged(s, listing.rows[s])
    /\ \A r \in Requests : op[r].s = s => Judged(s, op[r].seen)

\* What a cache or a list has and the store has not was removed meanwhile.
CatchesInv ==
  \A s \in Managed :
    /\ knownSessions[s] # Absent /\ row[s] = Absent => s \in removedSince
    /\ listing.phase # "idle" /\ listing.rows[s] # Absent /\ row[s] = Absent => s \in removedSince

\* What was closed before the list began stays gone.
ClosedInv ==
  listing.phase # "idle" =>
    \A s \in closedBefore :
      /\ s \in TmuxSessions /\ Made(s) /\ tmux[s] = 0
      /\ listing.phase = "answered" => listing.rows[s].status # "running"

SessionsInv ==
  /\ SessionTypes /\ BirthInv /\ RowsInv /\ CatchesInv /\ ClosedInv /\ NobodyLeftWaiting

-----------------------------------------------------------------------------

\* The kinds of sessions, and the rows there are.
LEMMA SessionSets ==
  /\ TmuxSessions \subseteq InTmux /\ InTmux \subseteq Sessions /\ Managed \subseteq Sessions
  /\ TmuxSessions \subseteq Managed
  /\ \A s \in Managed : s \notin ExternalSessions
  /\ \A s \in TmuxSessions : s \notin ServerSessions
  /\ AnySession \in Sessions
  /\ Absent \in SessionRows /\ Absent.status = "absent" /\ Absent.uid = 0
  /\ \A u \in Nat : /\ Row("running", u) \in SessionRows /\ Row("starting", u) \in SessionRows
                    /\ Row("detached", u) \in SessionRows
  /\ NoRows \in [Sessions -> SessionRows] /\ NobodyLives \in [InTmux -> Nat]
  /\ NoListing \in Listings
<1>1. Sessions # {}
  BY SessionsAssumption DEF SessionsAssumption, Sessions, Managed
<1>2. AnySession \in Sessions
  BY <1>1 DEF AnySession
<1>3. /\ TmuxSessions \subseteq InTmux /\ InTmux \subseteq Sessions /\ Managed \subseteq Sessions
      /\ TmuxSessions \subseteq Managed
      /\ \A s \in Managed : s \notin ExternalSessions
      /\ \A s \in TmuxSessions : s \notin ServerSessions
  BY SessionsAssumption DEF SessionsAssumption, Sessions, Managed, InTmux
<1>4. /\ Absent \in SessionRows /\ Absent.status = "absent" /\ Absent.uid = 0
      /\ \A u \in Nat : /\ Row("running", u) \in SessionRows /\ Row("starting", u) \in SessionRows
                        /\ Row("detached", u) \in SessionRows
  BY DEF SessionRows, Absent, Row
<1>5. NoRows \in [Sessions -> SessionRows] /\ NobodyLives \in [InTmux -> Nat]
  BY <1>4 DEF NoRows, NobodyLives
<1>6. NoListing \in Listings
  BY <1>5 DEF NoListing, Listings
<1> QED BY <1>2, <1>3, <1>4, <1>5, <1>6

\* The fields of a typed request.
LEMMA OpFields ==
  ASSUME NEW o \in Ops
  PROVE  /\ o.kind \in RequestKinds /\ o.s \in Sessions
         /\ o.action \in CreateActions \cup {NoAction} /\ o.seen \in SessionRows
         /\ o.step \in {"unused", "preparing", "spawning", "naming", "listing", "woken",
                        "killing", "resizing", "done"}
         /\ \A st \in {"unused", "preparing", "spawning", "naming", "listing", "woken",
                       "killing", "resizing", "done"} : [o EXCEPT !.step = st] \in Ops
BY DEF Ops

\* Nothing that a request of another kind does touches how sessions come to be.
LEMMA OtherRequests ==
  ASSUME SessionTypes, SessionTypes', BirthInv,
         UNCHANGED born,
         \A s \in TmuxSessions : tmux'[s] \in {0, tmux[s]},
         \A r \in Requests : /\ Shape(op'[r])
                             /\ op'[r] = op[r] \/ (op[r].kind # "create" /\ op'[r].kind # "create")
  PROVE  /\ BirthInv'
         /\ \A s \in Sessions : Creating(s)' = Creating(s)
<1>1. \A r \in Requests :
        /\ op'[r].kind = "create" <=> op[r].kind = "create"
        /\ op'[r].kind = "create" => op'[r] = op[r]
  OBVIOUS
<1>2. \A s \in Sessions : Creating(s)' = Creating(s)
  BY <1>1 DEF Creating
<1>3. ASSUME NEW s \in TmuxSessions PROVE BornOnce(s)'
  <2>1. BornOnce(s) /\ tmux'[s] \in {0, tmux[s]}
    BY DEF BirthInv
  <2> QED BY <1>1, <2>1 DEF BornOnce
<1>4. \A r \in Requests : op'[r].kind = "create" => Counts(r)' = Counts(r)
  BY <1>1 DEF Counts, Makes
<1>5. \A r \in Requests : Shape(op[r])'
  OBVIOUS
<1>6. \A q, r \in Requests :
       op'[q].kind = "create" /\ op'[r].kind = "create" /\ op'[q].s = op'[r].s => q = r
  BY <1>1 DEF BirthInv
<1>7. \A q, r \in Requests :
       /\ op'[q].kind = "create" /\ op'[r].kind = "create"
       /\ op'[q].action = op'[r].action /\ op'[q].action # NoAction
       /\ Counts(q)' /\ Counts(r)'
       => q = r
  BY <1>1, <1>4 DEF BirthInv
<1> QED BY <1>2, <1>3, <1>5, <1>6, <1>7 DEF BirthInv

\* The steps of a request that makes a session.
LEMMA MakingRequests ==
  ASSUME SessionTypes, SessionTypes', BirthInv, NEW r \in Requests, Makes(r),
         \A q \in Requests \ {r} : op'[q] = op[q],
         op'[r].kind = op[r].kind, op'[r].s = op[r].s, op'[r].action = op[r].action,
         Shape(op'[r]),
         \A s \in TmuxSessions \ {op[r].s} : tmux'[s] = tmux[s] /\ born'[s] = born[s],
         op[r].s \in TmuxSessions =>
           LET s == op[r].s
           IN  \/ /\ tmux'[s] = tmux[s] /\ born'[s] = born[s]
                  /\ \/ op'[r].step = "done"
                     \/ op'[r].step = "spawning" /\ op[r].step = "preparing"
               \/ tmux'[s] = born[s] + 1 /\ born'[s] = born[s] + 1
                  /\ op'[r].step = "naming" /\ op[r].step = "spawning"
  PROVE  /\ BirthInv'
         /\ \A s \in Sessions : Creating(s)' => Creating(s)
<1>1. op[r].kind = "create" /\ op'[r].kind = "create"
  BY DEF BirthInv, Shape, Makes
<1>2. \A s \in Sessions : Creating(s)' => Creating(s)
  BY <1>1 DEF Creating, Makes
<1>3. ASSUME NEW s \in TmuxSessions PROVE BornOnce(s)'
  <2>1. BornOnce(s) /\ tmux[s] \in Nat /\ born[s] \in Nat
    BY SessionSets DEF BirthInv, SessionTypes
  <2>2. CASE s # op[r].s
    <3>1. tmux'[s] = tmux[s] /\ born'[s] = born[s]
      BY <2>2
    <3>2. \A q \in Requests : op'[q].s = s <=> op[q].s = s
      OBVIOUS
    <3>3. \A q \in Requests : op[q].s = s => op'[q] = op[q]
      BY <2>2
    <3> QED BY <2>1, <3>1, <3>2, <3>3 DEF BornOnce
  <2>3. CASE s = op[r].s
    <3>1. \A q \in Requests : op'[q].kind = "create" /\ op'[q].s = s => q = r
      BY <1>1, <2>3 DEF BirthInv
    <3>2. op[r].step \in {"preparing", "spawning"} => born[s] = 0
      BY <1>1, <2>1, <2>3 DEF BornOnce
    <3>3. op[r].step = "naming" => born[s] = 1
      BY <1>1, <2>1, <2>3 DEF BornOnce
    <3>4. CASE /\ tmux'[s] = tmux[s] /\ born'[s] = born[s] /\ op'[r].step = "done"
      BY <1>1, <2>1, <2>3, <3>1, <3>4 DEF BornOnce
    <3>5. CASE /\ tmux'[s] = tmux[s] /\ born'[s] = born[s]
               /\ op'[r].step = "spawning" /\ op[r].step = "preparing"
      BY <1>1, <2>1, <2>3, <3>1, <3>2, <3>5 DEF BornOnce
    <3>6. CASE /\ tmux'[s] = born[s] + 1 /\ born'[s] = born[s] + 1
               /\ op'[r].step = "naming" /\ op[r].step = "spawning"
      <4>1. tmux'[s] = 1 /\ born'[s] = 1
        BY <3>2, <3>6
      <4> QED BY <1>1, <2>3, <3>1, <3>6, <4>1 DEF BornOnce
    <3> QED BY <2>3, <3>4, <3>5, <3>6
  <2> QED BY <2>2, <2>3
<1>4. \A q \in Requests : Counts(q)' => Counts(q)
  BY DEF Counts, Makes
<1>5. \A q \in Requests : Shape(op[q])'
  BY DEF BirthInv
<1>6. \A q, p \in Requests :
       op'[q].kind = "create" /\ op'[p].kind = "create" /\ op'[q].s = op'[p].s => q = p
  BY <1>1 DEF BirthInv
<1>7. \A q \in Requests : op'[q].kind = op[q].kind /\ op'[q].action = op[q].action
  OBVIOUS
<1>8. \A q, p \in Requests :
       /\ op'[q].kind = "create" /\ op'[p].kind = "create"
       /\ op'[q].action = op'[p].action /\ op'[q].action # NoAction
       /\ Counts(q)' /\ Counts(p)'
       => q = p
  BY <1>4, <1>7 DEF BirthInv
<1> QED BY <1>2, <1>3, <1>5, <1>6, <1>8 DEF BirthInv

\* What was started, and what is gone for good, stays so.
Kept(s) == Made(s) => Made(s)' /\ (tmux[s] = 0 => tmux'[s] = 0)

\* How the rows and the cache may change together.
RowsMove ==
  \/ UNCHANGED <<row, knownSessions, removedSince>>
  \/ \E s \in Sessions : Forget(s)
  \/ \E s \in Sessions, rw \in SessionRows \ {Absent} :
       Upsert(s, rw) /\ (s \in TmuxSessions => Judged(s, rw)')

ListMoves ==
  \/ UNCHANGED <<listing, closedBefore>>
  \/ /\ listing.phase = "idle"
     /\ listing' = [phase |-> "read", rows |-> row', live |-> NobodyLives]
     /\ closedBefore' = Closed

\* A row that was judged rightly still is.
LEMMA JudgedStays ==
  ASSUME NEW s, NEW rw, Kept(s), Judged(s, rw)
  PROVE  Judged(s, rw)'
BY DEF Kept, Judged

LEMMA AbsentJudged ==
  ASSUME NEW s
  PROVE  Judged(s, Absent) /\ Judged(s, Absent)'
BY DEF Judged, Absent

\* The part of the invariant that is about rows and lists follows from that.
LEMMA Carried ==
  ASSUME SessionsInv, SessionTypes', \A s \in TmuxSessions : Kept(s), RowsMove, ListMoves,
         \A r \in Requests :
           /\ \/ op'[r].seen = Absent
              \/ op'[r].seen = op[r].seen /\ op'[r].s = op[r].s
              \/ \A s \in TmuxSessions : op'[r].s = s => Judged(s, op[r].seen)'
           /\ op'[r].step = "listing" => op[r].step = "listing" \/ listing'.phase # "idle"
  PROVE  RowsInv' /\ CatchesInv' /\ ClosedInv' /\ NobodyLeftWaiting'
<1>0. /\ SessionTypes /\ RowsInv /\ CatchesInv /\ ClosedInv
  BY DEF SessionsInv
<1>1. ASSUME NEW s \in TmuxSessions
      PROVE  /\ Judged(s, row[s])' /\ Judged(s, knownSessions[s])'
  <2>0. s \in Sessions
    BY <1>1, SessionSets
  <2>1. Judged(s, row[s]) /\ Judged(s, knownSessions[s]) /\ Kept(s)
    BY <1>0 DEF RowsInv
  <2>2. CASE UNCHANGED <<row, knownSessions, removedSince>>
    BY <2>1, <2>2, JudgedStays
  <2>3. ASSUME NEW t \in Sessions, Forget(t)
        PROVE  Judged(s, row[s])' /\ Judged(s, knownSessions[s])'
    <3>1. /\ row'[s] = Absent \/ row'[s] = row[s]
          /\ knownSessions'[s] = Absent \/ knownSessions'[s] = knownSessions[s]
      BY <1>0, <2>0, <2>3 DEF Forget, SessionTypes
    <3>2. Judged(s, row[s])'
      BY <2>1, <3>1, JudgedStays, AbsentJudged
    <3>3. Judged(s, knownSessions[s])'
      BY <2>1, <3>1, JudgedStays, AbsentJudged
    <3> QED BY <3>2, <3>3
  <2>4. ASSUME NEW t \in Sessions, NEW rw \in SessionRows \ {Absent}, Upsert(t, rw),
               t \in TmuxSessions => Judged(t, rw)'
        PROVE  Judged(s, row[s])' /\ Judged(s, knownSessions[s])'
    <3>1. CASE t = s
      <4>1. row'[s] = rw /\ knownSessions'[s] = rw
        BY <1>0, <2>0, <2>4, <3>1 DEF Upsert, SessionTypes
      <4> QED BY <2>4, <3>1, <4>1
    <3>2. CASE t # s
      <4>1. row'[s] = row[s] /\ knownSessions'[s] = knownSessions[s]
        BY <1>0, <2>0, <2>4, <3>2 DEF Upsert, SessionTypes
      <4> QED BY <2>1, <4>1, JudgedStays
    <3> QED BY <3>1, <3>2
  <2> QED BY <2>2, <2>3, <2>4 DEF RowsMove
<1>2. ASSUME NEW s \in TmuxSessions PROVE Judged(s, listing.rows[s])'
  <2>1. listing'.rows[s] = listing.rows[s] \/ listing'.rows[s] = row'[s]
    BY DEF ListMoves
  <2>2. Judged(s, listing.rows[s]) /\ Kept(s)
    BY <1>0 DEF RowsInv
  <2> QED BY <1>1, <2>1, <2>2, JudgedStays
<1>3. ASSUME NEW s \in TmuxSessions, NEW r \in Requests, op'[r].s = s
      PROVE  Judged(s, op[r].seen)'
  <2>1. CASE op'[r].seen = Absent
    BY <2>1, AbsentJudged
  <2>2. CASE op'[r].seen = op[r].seen /\ op'[r].s = op[r].s
    <3>1. Judged(s, op[r].seen) /\ Kept(s)
      BY <1>0, <1>3, <2>2 DEF RowsInv
    <3> QED BY <2>2, <3>1, JudgedStays
  <2>3. CASE \A t \in TmuxSessions : op'[r].s = t => Judged(t, op[r].seen)'
    BY <1>3, <2>3
  <2> QED BY <2>1, <2>2, <2>3
<1>4. RowsInv'
  BY <1>1, <1>2, <1>3 DEF RowsInv
<1>5. ASSUME NEW s \in Managed
      PROVE  /\ knownSessions'[s] # Absent /\ row'[s] = Absent => s \in removedSince'
             /\ row[s] = Absent /\ s \in removedSince /\ row'[s] = Absent => s \in removedSince'
             /\ row[s] # Absent /\ row'[s] = Absent => s \in removedSince'
  <2>0. s \in Sessions /\ (knownSessions[s] # Absent /\ row[s] = Absent => s \in removedSince)
    BY <1>0, SessionSets DEF CatchesInv
  <2>1. CASE UNCHANGED <<row, knownSessions, removedSince>>
    BY <2>0, <2>1
  <2>2. ASSUME NEW t \in Sessions, Forget(t)
        PROVE  s = t \/ (row'[s] = row[s] /\ knownSessions'[s] = knownSessions[s])
    BY <1>0, <2>0, <2>2 DEF Forget, SessionTypes
  <2>3. ASSUME NEW t \in Sessions, NEW rw \in SessionRows \ {Absent}, Upsert(t, rw)
        PROVE  (s = t /\ row'[s] # Absent) \/ (row'[s] = row[s] /\ knownSessions'[s] = knownSessions[s] /\ s # t)
    BY <1>0, <2>0, <2>3 DEF Upsert, SessionTypes
  <2> QED BY <2>0, <2>1, <2>2, <2>3 DEF RowsMove, Forget, Upsert
<1>6. CatchesInv'
  <2> SUFFICES ASSUME NEW s \in Managed, listing'.phase # "idle", listing'.rows[s] # Absent,
                      row'[s] = Absent
               PROVE  s \in removedSince'
    BY <1>5 DEF CatchesInv
  <2>1. listing' = listing
    BY DEF ListMoves
  <2> QED BY <1>0, <1>5, <2>1 DEF CatchesInv
<1>7. ClosedInv'
  <2> SUFFICES ASSUME listing'.phase # "idle", NEW s \in closedBefore'
               PROVE  /\ s \in TmuxSessions /\ Made(s)' /\ tmux'[s] = 0
                      /\ listing'.phase = "answered" => listing'.rows[s].status # "running"
    BY DEF ClosedInv
  <2>1. CASE UNCHANGED <<listing, closedBefore>>
    <3>1. /\ s \in TmuxSessions /\ Made(s) /\ tmux[s] = 0
          /\ listing.phase = "answered" => listing.rows[s].status # "running"
      BY <1>0, <2>1 DEF ClosedInv
    <3> QED BY <2>1, <3>1 DEF Kept
  <2>2. CASE listing'.phase = "read" /\ closedBefore' = Closed
    <3>1. s \in TmuxSessions /\ born[s] > 0 /\ tmux[s] = 0 /\ ~Creating(s)
      BY <2>2 DEF Closed
    <3>2. Made(s)
      BY <3>1 DEF Made, SessionsInv, BirthInv, BornOnce
    <3> QED BY <2>2, <3>1, <3>2 DEF Kept
  <2> QED BY <2>1, <2>2 DEF ListMoves
<1>8. NobodyLeftWaiting'
  <2> SUFFICES ASSUME listing'.phase = "idle", NEW r \in Requests
               PROVE  op'[r].step # "listing"
    BY DEF NobodyLeftWaiting
  <2>1. listing.phase = "idle"
    BY DEF ListMoves
  <2> QED BY <2>1 DEF SessionsInv, NobodyLeftWaiting
<1> QED BY <1>4, <1>6, <1>7, <1>8

-----------------------------------------------------------------------------
(* The steps, one by one: each keeps the invariant.                        *)

\* A list that is asked for, with the rows as they are after the step.
LEMMA ListFromMoves ==
  ASSUME SessionTypes, ListFrom(row'), row' \in [Sessions -> SessionRows]
  PROVE  /\ ListMoves /\ listing' \in Listings /\ closedBefore' \subseteq Sessions
         /\ listing'.phase # "idle"
<1>1. listing.phase \in {"idle", "read", "answered"}
  BY DEF SessionTypes, Listings
<1>2. CASE listing.phase = "idle"
  <2>1. /\ listing' = [phase |-> "read", rows |-> row', live |-> NobodyLives]
        /\ closedBefore' = Closed
    BY <1>2 DEF ListFrom
  <2>2. Closed \subseteq Sessions
    BY SessionSets DEF Closed
  <2> QED BY <1>2, <2>1, <2>2, SessionSets DEF ListMoves, Listings
<1>3. CASE listing.phase # "idle"
  BY <1>1, <1>3 DEF ListFrom, ListMoves, SessionTypes
<1> QED BY <1>2, <1>3

\* One request changes, of which no session is made.
LEMMA OtherRequest ==
  ASSUME SessionsInv, SessionTypes', NEW r \in Requests, NEW o \in Ops,
         op' = [op EXCEPT ![r] = o], Shape(o), op[r].kind # "create", o.kind # "create",
         o.seen = Absent \/ (o.seen = op[r].seen /\ o.s = op[r].s),
         o.step = "listing" => listing'.phase # "idle",
         UNCHANGED born, \A s \in TmuxSessions : tmux'[s] \in {0, tmux[s]},
         RowsMove \/ UNCHANGED <<row, knownSessions, removedSince>>, ListMoves
  PROVE  SessionsInv'
<1>1. \A q \in Requests : op'[q] = op[q] \/ (q = r /\ op'[q] = o)
  BY DEF SessionsInv, SessionTypes
<1>2. \A q \in Requests : /\ Shape(op'[q])
                          /\ op'[q] = op[q] \/ (op[q].kind # "create" /\ op'[q].kind # "create")
  BY <1>1 DEF SessionsInv, BirthInv
<1>3. /\ BirthInv'
      /\ \A s \in Sessions : Creating(s)' = Creating(s)
  BY <1>2, OtherRequests DEF SessionsInv
<1>4. \A s \in TmuxSessions : Kept(s)
  BY <1>3, SessionSets DEF Kept, Made
<1>5. \A q \in Requests :
           /\ \/ op'[q].seen = Absent
              \/ op'[q].seen = op[q].seen /\ op'[q].s = op[q].s
           /\ op'[q].step = "listing" => op[q].step = "listing" \/ listing'.phase # "idle"
  BY <1>1
<1>6. RowsMove
  BY DEF RowsMove
<1>7. RowsInv' /\ CatchesInv' /\ ClosedInv' /\ NobodyLeftWaiting'
  BY <1>4, <1>5, <1>6, Carried
<1> QED BY <1>3, <1>7 DEF SessionsInv

\* A request that makes a session goes a step further.
LEMMA MakingRequest ==
  ASSUME SessionsInv, SessionTypes', NEW r \in Requests, NEW o \in Ops,
         op' = [op EXCEPT ![r] = o], Makes(r), Shape(o),
         o.kind = op[r].kind, o.s = op[r].s, o.action = op[r].action, o.step # "listing",
         \A s \in TmuxSessions \ {op[r].s} : tmux'[s] = tmux[s] /\ born'[s] = born[s],
         op[r].s \in TmuxSessions =>
           LET s == op[r].s
           IN  \/ /\ tmux'[s] = tmux[s] /\ born'[s] = born[s]
                  /\ \/ o.step = "done"
                     \/ o.step = "spawning" /\ op[r].step = "preparing"
               \/ tmux'[s] = born[s] + 1 /\ born'[s] = born[s] + 1
                  /\ o.step = "naming" /\ op[r].step = "spawning"
  PROVE  /\ BirthInv'
         /\ \A s \in TmuxSessions : Kept(s)
         /\ op[r].s \in TmuxSessions /\ o.step = "done" => ~Creating(op[r].s)'
<1>0. SessionTypes /\ BirthInv /\ op[r].kind = "create"
  BY DEF SessionsInv, BirthInv, Makes, Shape
<1>1. op'[r] = o /\ \A q \in Requests \ {r} : op'[q] = op[q]
  BY <1>0 DEF SessionTypes
<1>2. /\ BirthInv'
      /\ \A s \in Sessions : Creating(s)' => Creating(s)
  <2>1. op[r].s \in TmuxSessions =>
           LET s == op[r].s
           IN  \/ /\ tmux'[s] = tmux[s] /\ born'[s] = born[s]
                  /\ \/ op'[r].step = "done"
                     \/ op'[r].step = "spawning" /\ op[r].step = "preparing"
               \/ tmux'[s] = born[s] + 1 /\ born'[s] = born[s] + 1
                  /\ op'[r].step = "naming" /\ op[r].step = "spawning"
    BY <1>1
  <2> QED BY <1>0, <1>1, <2>1, MakingRequests
<1>3. ASSUME NEW s \in TmuxSessions PROVE Kept(s)
  <2>1. CASE s # op[r].s
    BY <1>2, <2>1, SessionSets DEF Kept, Made
  <2>2. CASE s = op[r].s
    <3>1. Creating(s)
      BY <1>0, <2>2 DEF Creating, Makes
    <3> QED BY <3>1 DEF Kept, Made
  <2> QED BY <2>1, <2>2
<1>4. ASSUME o.step = "done" PROVE ~Creating(op[r].s)'
  <2>1. \A q \in Requests : op'[q].kind = "create" /\ op'[q].s = op[r].s => q = r
    BY <1>0, <1>1 DEF BirthInv
  <2> QED BY <1>1, <1>4, <2>1 DEF Creating
<1> QED BY <1>2, <1>3, <1>4

\* Requests stay as they are.
LEMMA NoRequest ==
  ASSUME SessionsInv, SessionTypes', UNCHANGED <<op, listing, closedBefore>>,
         RowsMove \/ UNCHANGED <<row, knownSessions, removedSince>>,
         \A s \in TmuxSessions : born'[s] = born[s] /\ tmux'[s] \in {0, tmux[s]}
  PROVE  SessionsInv'
<1>1. \A s \in Sessions : Creating(s)' = Creating(s)
  BY DEF Creating
<1>2. \A s \in TmuxSessions : BornOnce(s)'
  <2> TAKE s \in TmuxSessions
  <2>1. BornOnce(s) /\ born'[s] = born[s] /\ tmux'[s] \in {0, tmux[s]}
    BY DEF SessionsInv, BirthInv
  <2> QED BY <2>1 DEF BornOnce
<1>3. BirthInv'
  BY <1>2 DEF SessionsInv, BirthInv, Counts, Makes
<1>4. \A s \in TmuxSessions : Kept(s)
  BY <1>1, SessionSets DEF Kept, Made
<1>5. RowsMove /\ ListMoves
  BY DEF RowsMove, ListMoves
<1>6. RowsInv' /\ CatchesInv' /\ ClosedInv' /\ NobodyLeftWaiting'
  BY <1>4, <1>5, Carried
<1> QED BY <1>3, <1>6 DEF SessionsInv

LEMMA SessionsInitially == SessionsInit => SessionsInv
<1> SUFFICES ASSUME SessionsInit PROVE SessionsInv
  OBVIOUS
<1> DEFINE o == [kind |-> "list", s |-> AnySession, action |-> NoAction,
                 step |-> "unused", seen |-> Absent]
<1>1. o \in Ops /\ Shape(o)
  BY SessionSets DEF Ops, RequestKinds, Shape
<1>2. op \in [Requests -> Ops] /\ \A r \in Requests : op[r] = o
  BY <1>1 DEF SessionsInit
<1>3. SessionTypes
  <2>1. /\ row \in [Sessions -> SessionRows] /\ knownSessions \in [Sessions -> SessionRows]
        /\ tmux \in [InTmux -> Nat] /\ born \in [InTmux -> Nat] /\ listing \in Listings
    BY SessionSets DEF SessionsInit
  <2>2. /\ appSessions \subseteq Sessions /\ failures \in Nat
        /\ removedSince \subseteq Sessions /\ closedBefore \subseteq Sessions
    BY DEF SessionsInit
  <2> QED BY <1>2, <2>1, <2>2 DEF SessionTypes
<1>4. BirthInv
  <2>1. \A s \in TmuxSessions : born[s] = 0 /\ tmux[s] = 0
    BY SessionSets DEF SessionsInit, NobodyLives
  <2>2. \A r \in Requests : op[r].kind # "create"
    BY <1>2
  <2> QED BY <1>1, <1>2, <2>1, <2>2 DEF BirthInv, BornOnce
<1>5. /\ \A s \in Sessions : row[s] = Absent /\ knownSessions[s] = Absent /\ listing.rows[s] = Absent
      /\ listing.phase = "idle"
  BY DEF SessionsInit, NoRows, NoListing
<1>6. RowsInv
  BY <1>2, <1>5, AbsentJudged, SessionSets DEF RowsInv
<1>7. CatchesInv /\ ClosedInv /\ NobodyLeftWaiting
  BY <1>2, <1>5, SessionSets DEF CatchesInv, ClosedInv, NobodyLeftWaiting
<1> QED BY <1>3, <1>4, <1>6, <1>7 DEF SessionsInv

\* A request as it is, and where it may go from there.
LEMMA AtRequest ==
  ASSUME SessionsInv, NEW r \in Requests
  PROVE  /\ op[r] \in Ops /\ Shape(op[r])
         /\ op[r].s \in Sessions /\ op[r].seen \in SessionRows
         /\ op[r].kind \in RequestKinds /\ op[r].action \in CreateActions \cup {NoAction}
BY OpFields DEF SessionsInv, SessionTypes, BirthInv

\* A typed change of one request.
LEMMA OneRequest ==
  ASSUME SessionTypes, NEW r \in Requests, NEW o \in Ops, op' = [op EXCEPT ![r] = o]
  PROVE  op' \in [Requests -> Ops]
BY DEF SessionTypes

\* Upsert and Forget keep the types of what they set.
LEMMA RowTypes ==
  ASSUME SessionTypes, NEW s \in Sessions, NEW rw \in SessionRows, Upsert(s, rw) \/ Forget(s)
  PROVE  /\ row' \in [Sessions -> SessionRows] /\ knownSessions' \in [Sessions -> SessionRows]
         /\ removedSince' \subseteq Sessions
<1>1. Absent \in SessionRows
  BY SessionSets
<1> QED BY <1>1 DEF Upsert, Forget, SessionTypes

LEMMA AskStep ==
  ASSUME SessionsInv, NEW r \in Requests, NEW k \in RequestKinds, NEW s \in Sessions, Ask(r, k, s)
  PROVE  SessionsInv'
<1> DEFINE o == [op[r] EXCEPT !.kind = k, !.s = s, !.step = "listing"]
<1>1. /\ op[r] \in Ops /\ op[r].step = "unused" /\ op[r].kind # "create" /\ op[r].seen = Absent
      /\ k # "create"
  BY AtRequest DEF Ask, Arrives, Shape
<1>2. /\ o \in Ops /\ o.kind = k /\ o.step = "listing" /\ o.seen = Absent
  BY <1>1 DEF Ops
<1>3. Shape(o)
  BY <1>1, <1>2 DEF Shape
<1>4. /\ op' = [op EXCEPT ![r] = o] /\ ListFrom(row')
      /\ UNCHANGED <<row, knownSessions, tmux, born, appSessions, failures, removedSince>>
  BY DEF Ask
<1>5. /\ ListMoves /\ listing' \in Listings /\ closedBefore' \subseteq Sessions
      /\ listing'.phase # "idle"
  BY <1>4, ListFromMoves DEF SessionsInv, SessionTypes
<1>6. SessionTypes'
  BY <1>2, <1>4, <1>5, OneRequest DEF SessionsInv, SessionTypes
<1>7. \A t \in TmuxSessions : tmux'[t] \in {0, tmux[t]}
  BY <1>4
<1> HIDE DEF o
<1> QED BY <1>1, <1>2, <1>3, <1>4, <1>5, <1>6, <1>7, OtherRequest

\* What a request writes when it goes on: nothing, its session's row as the list
\* had it, or its session is forgotten.
GoesOnRows(r) ==
  \/ UNCHANGED <<row, knownSessions, removedSince>>
  \/ op[r].kind \in {"missing", "close"} /\ Forget(op[r].s)
  \/ \E rw \in SessionRows \ {Absent} :
       Upsert(op[r].s, rw) /\ (op[r].s \in TmuxSessions => rw = op[r].seen)

GoesOnTo(r, o) ==
  /\ op' = [op EXCEPT ![r] = o] /\ o.seen = op[r].seen /\ o.s = op[r].s
  /\ \/ o.kind = "list" /\ o.step = "listing"
     \/ o.kind = op[r].kind /\ o.step = "done"
     \/ o.kind = op[r].kind /\ o.step = "killing" /\ o.kind \in {"close", "kill"}

\* What a request does when its list is there.
LEMMA GoesOnSays ==
  ASSUME SessionsInv, NEW r \in Requests, GoesOn(r)
  PROVE  /\ GoesOnRows(r) /\ UNCHANGED <<tmux, born, failures>>
         /\ \E o \in Ops : /\ GoesOnTo(r, o)
                           /\ \/ o.step = "listing" /\ ListFrom(row')
                              \/ o.step # "listing" /\ UNCHANGED <<listing, closedBefore>>
         /\ appSessions' \subseteq Sessions
<1> DEFINE done == [op[r] EXCEPT !.step = "done"]
<1> DEFINE kill == [op[r] EXCEPT !.step = "killing"]
<1> DEFINE list == [op[r] EXCEPT !.kind = "list", !.step = "listing"]
<1>1. op[r] \in Ops /\ op[r].s \in Sessions /\ op[r].seen \in SessionRows /\ appSessions \subseteq Sessions
  BY AtRequest DEF SessionsInv, SessionTypes
<1>2. /\ done \in Ops /\ done.seen = op[r].seen /\ done.s = op[r].s
      /\ done.kind = op[r].kind /\ done.step = "done"
  BY <1>1 DEF Ops
<1>3. /\ kill \in Ops /\ kill.seen = op[r].seen /\ kill.s = op[r].s
      /\ kill.kind = op[r].kind /\ kill.step = "killing"
  BY <1>1 DEF Ops
<1>4. /\ list \in Ops /\ list.seen = op[r].seen /\ list.s = op[r].s
      /\ list.kind = "list" /\ list.step = "listing"
  BY <1>1 DEF Ops, RequestKinds
<1> HIDE DEF done, kill, list
<1>5. UNCHANGED <<tmux, born, failures>>
  BY DEF GoesOn
<1>6. CASE ReplyList(r)
  <2>1. op' = [op EXCEPT ![r] = done] /\ UNCHANGED <<row, knownSessions, listing, removedSince, closedBefore>>
        /\ appSessions' \subseteq Sessions
    BY <1>6 DEF ReplyList, Step, done
  <2> QED BY <1>2, <1>5, <2>1 DEF GoesOnRows, GoesOnTo
<1>7. CASE Attach(r)
  <2>1. op' = [op EXCEPT ![r] = done] /\ UNCHANGED <<listing, closedBefore>>
        /\ appSessions' \subseteq Sessions
    BY <1>1, <1>7 DEF Attach, Step, done
  <2>2. GoesOnRows(r)
    <3>1. CASE op[r].seen.status = "detached"
      <4>1. op[r].s \notin TmuxSessions
        BY <3>1 DEF SessionsInv, RowsInv, Judged
      <4>2. Row("running", op[r].seen.uid) \in SessionRows \ {Absent}
        BY <1>1 DEF SessionRows, Row, Absent
      <4>3. Upsert(op[r].s, Row("running", op[r].seen.uid))
        BY <1>7, <3>1 DEF Attach
      <4> QED BY <4>1, <4>2, <4>3 DEF GoesOnRows
    <3>2. CASE op[r].seen.status # "detached"
      BY <1>7, <3>2 DEF Attach, GoesOnRows
    <3> QED BY <3>1, <3>2
  <2> QED BY <1>2, <1>5, <2>1, <2>2 DEF GoesOnTo
<1>8. CASE NotFound(r)
  <2>1. /\ op' = [op EXCEPT ![r] = list] /\ ListFrom(row') /\ UNCHANGED appSessions
        /\ UNCHANGED <<row, knownSessions, removedSince>>
    BY <1>8 DEF NotFound, ThenList, list
  <2> QED BY <1>1, <1>4, <1>5, <2>1 DEF GoesOnRows, GoesOnTo
<1>9. CASE op[r].kind \in {"missing", "close"} /\ Drop(r)
  <2>1. /\ op' = [op EXCEPT ![r] = list] /\ ListFrom(row') /\ UNCHANGED appSessions
        /\ Forget(op[r].s)
    BY <1>9 DEF Drop, ThenList, list
  <2> QED BY <1>1, <1>4, <1>5, <1>9, <2>1 DEF GoesOnRows, GoesOnTo
<1>10. CASE op[r].seen # Absent /\ WriteBack(r)
  <2>1. /\ op' = [op EXCEPT ![r] = list] /\ ListFrom(row') /\ UNCHANGED appSessions
        /\ Upsert(op[r].s, op[r].seen)
    BY <1>10 DEF WriteBack, ThenList, list
  <2> QED BY <1>1, <1>4, <1>5, <1>10, <2>1 DEF GoesOnRows, GoesOnTo
<1>11. CASE op[r].kind \in {"close", "kill"} /\ BeginKill(r)
  <2>1. /\ op' = [op EXCEPT ![r] = kill] /\ UNCHANGED <<listing, closedBefore>>
        /\ UNCHANGED <<row, knownSessions, removedSince, appSessions>>
    BY <1>11 DEF BeginKill, Step, kill
  <2> QED BY <1>1, <1>3, <1>5, <1>11, <2>1 DEF GoesOnRows, GoesOnTo
<1> QED BY <1>6, <1>7, <1>8, <1>9, <1>10, <1>11 DEF GoesOn

LEMMA GoesOnStep ==
  ASSUME SessionsInv, NEW r \in Requests, GoesOn(r)
  PROVE  SessionsInv'
<1>1. PICK o \in Ops : /\ GoesOnTo(r, o)
                       /\ \/ o.step = "listing" /\ ListFrom(row')
                          \/ o.step # "listing" /\ UNCHANGED <<listing, closedBefore>>
  BY GoesOnSays
<1>2. GoesOnRows(r) /\ UNCHANGED <<tmux, born, failures>> /\ appSessions' \subseteq Sessions
  BY GoesOnSays
<1>3. /\ op[r].step = "woken" /\ op[r].kind # "create" /\ op[r].s \in Sessions
      /\ op[r].seen \in SessionRows
  BY AtRequest DEF GoesOn, Shape
<1>4. /\ row' \in [Sessions -> SessionRows] /\ knownSessions' \in [Sessions -> SessionRows]
      /\ removedSince' \subseteq Sessions
  BY <1>2, <1>3, RowTypes, SessionSets DEF GoesOnRows, SessionsInv, SessionTypes
<1>5. /\ ListMoves /\ listing' \in Listings /\ closedBefore' \subseteq Sessions
      /\ o.step = "listing" => listing'.phase # "idle"
  BY <1>1, <1>4, ListFromMoves DEF SessionsInv, SessionTypes, ListMoves
<1>6. SessionTypes'
  BY <1>1, <1>2, <1>4, <1>5, OneRequest DEF SessionsInv, SessionTypes, GoesOnTo
<1>7. Shape(o) /\ o.kind # "create"
  BY <1>1, <1>3 DEF Shape, GoesOnTo
<1>8. \A t \in TmuxSessions : tmux'[t] \in {0, tmux[t]}
  BY <1>2
<1>9. \A s \in TmuxSessions : Kept(s)
  <2>1. op' = [op EXCEPT ![r] = o]
    BY <1>1 DEF GoesOnTo
  <2>2. \A q \in Requests : op'[q] = op[q] \/ (q = r /\ op'[q] = o)
    BY <2>1 DEF SessionsInv, SessionTypes
  <2>3. \A s \in Sessions : Creating(s)' => Creating(s)
    BY <1>7, <2>2 DEF Creating
  <2> QED BY <1>2, <2>3, SessionSets DEF Kept, Made
<1>10. RowsMove
  <2>1. ASSUME NEW s \in Sessions, s = op[r].s,
               NEW rw \in SessionRows \ {Absent}, Upsert(s, rw),
               s \in TmuxSessions => rw = op[r].seen
        PROVE  RowsMove
    <3>1. s \in TmuxSessions => Judged(s, rw)
      BY <2>1 DEF SessionsInv, RowsInv
    <3>2. s \in TmuxSessions => Judged(s, rw)'
      BY <1>9, <3>1, JudgedStays
    <3> QED BY <2>1, <3>2 DEF RowsMove
  <2> QED BY <1>2, <1>3, <2>1 DEF GoesOnRows, RowsMove
<1>11. op' = [op EXCEPT ![r] = o] /\ o.seen = op[r].seen /\ o.s = op[r].s
  BY <1>1 DEF GoesOnTo
<1>12. UNCHANGED born
  BY <1>2
<1> QED BY <1>3, <1>5, <1>6, <1>7, <1>8, <1>10, <1>11, <1>12, OtherRequest

LEMMA KilledStep ==
  ASSUME SessionsInv, NEW r \in Requests, Killed(r)
  PROVE  SessionsInv'
<1> DEFINE s == op[r].s
<1> DEFINE done == [op[r] EXCEPT !.step = "done"]
<1> DEFINE list == [op[r] EXCEPT !.kind = "list", !.step = "listing"]
<1>1. /\ op[r] \in Ops /\ s \in Sessions /\ op[r].step = "killing" /\ op[r].kind \in {"close", "kill"}
  BY AtRequest DEF Killed, Shape
<1>2. /\ done \in Ops /\ done.seen = op[r].seen /\ done.s = op[r].s
      /\ done.kind = op[r].kind /\ done.step = "done"
  BY <1>1 DEF Ops
<1>3. /\ list \in Ops /\ list.seen = op[r].seen /\ list.s = op[r].s
      /\ list.kind = "list" /\ list.step = "listing"
  BY <1>1 DEF Ops, RequestKinds
<1>4. Shape(done) /\ Shape(list)
  BY <1>1, <1>2, <1>3 DEF Shape
<1>5. /\ Forget(s) /\ UNCHANGED <<born, failures>>
      /\ \/ /\ op' = [op EXCEPT ![r] = done] /\ UNCHANGED <<listing, appSessions, closedBefore>>
         \/ /\ op' = [op EXCEPT ![r] = list] /\ ListFrom(row') /\ UNCHANGED appSessions
  BY DEF Killed, ThenList, Step
<1>6. tmux' = tmux \/ tmux' = [tmux EXCEPT ![s] = 0]
  BY DEF Killed
<1> HIDE DEF s, done, list
<1>7. /\ row' \in [Sessions -> SessionRows] /\ knownSessions' \in [Sessions -> SessionRows]
      /\ removedSince' \subseteq Sessions
  BY <1>1, <1>5, RowTypes, SessionSets DEF SessionsInv
<1>8. tmux' \in [InTmux -> Nat] /\ \A t \in TmuxSessions : tmux'[t] \in {0, tmux[t]}
  BY <1>6, SessionSets DEF SessionsInv, SessionTypes
<1>9. RowsMove
  BY <1>1, <1>5 DEF RowsMove
<1>10. CASE op' = [op EXCEPT ![r] = done] /\ UNCHANGED <<listing, appSessions, closedBefore>>
  <2>1. SessionTypes' /\ ListMoves
    BY <1>2, <1>5, <1>7, <1>8, <1>10, OneRequest DEF SessionsInv, SessionTypes, ListMoves
  <2> QED BY <1>1, <1>2, <1>4, <1>5, <1>8, <1>9, <1>10, <2>1, OtherRequest
<1>11. CASE op' = [op EXCEPT ![r] = list] /\ ListFrom(row') /\ UNCHANGED appSessions
  <2>1. /\ ListMoves /\ listing' \in Listings /\ closedBefore' \subseteq Sessions
        /\ listing'.phase # "idle"
    BY <1>7, <1>11, ListFromMoves DEF SessionsInv
  <2>2. SessionTypes'
    BY <1>3, <1>5, <1>7, <1>8, <1>11, <2>1, OneRequest DEF SessionsInv, SessionTypes
  <2> QED BY <1>1, <1>3, <1>4, <1>5, <1>8, <1>9, <1>11, <2>1, <2>2, OtherRequest
<1> QED BY <1>5, <1>10, <1>11

LEMMA ResizeAskedStep ==
  ASSUME SessionsInv, NEW r \in Requests, NEW s \in Sessions, ResizeAsked(r, s)
  PROVE  SessionsInv'
<1> DEFINE o == [op[r] EXCEPT !.kind = "resize", !.s = s, !.step = "resizing"]
<1>1. /\ op[r] \in Ops /\ op[r].step = "unused" /\ op[r].kind # "create" /\ op[r].seen = Absent
  BY AtRequest DEF ResizeAsked, Arrives, Shape
<1>2. /\ o \in Ops /\ o.kind = "resize" /\ o.step = "resizing" /\ o.seen = Absent
  BY <1>1 DEF Ops, RequestKinds
<1>3. Shape(o)
  BY <1>1, <1>2 DEF Shape
<1>4. /\ op' = [op EXCEPT ![r] = o]
      /\ UNCHANGED <<row, knownSessions, tmux, born, listing, appSessions, failures, removedSince,
                 closedBefore>>
  BY DEF ResizeAsked
<1>5. SessionTypes' /\ ListMoves
  BY <1>2, <1>4, OneRequest DEF SessionsInv, SessionTypes, ListMoves
<1>6. \A t \in TmuxSessions : tmux'[t] \in {0, tmux[t]}
  BY <1>4
<1> HIDE DEF o
<1> QED BY <1>1, <1>2, <1>3, <1>4, <1>5, <1>6, OtherRequest

LEMMA ResizedStep ==
  ASSUME SessionsInv, NEW r \in Requests, Resized(r)
  PROVE  SessionsInv'
<1> DEFINE done == [op[r] EXCEPT !.step = "done"]
<1> DEFINE list == [op[r] EXCEPT !.step = "listing"]
<1> DEFINE missing == [op[r] EXCEPT !.kind = "missing", !.step = "listing"]
<1>1. /\ op[r] \in Ops /\ op[r].s \in Sessions /\ op[r].step = "resizing" /\ op[r].kind # "create"
  BY AtRequest DEF Resized, Shape
<1>2. /\ done \in Ops /\ done.seen = op[r].seen /\ done.s = op[r].s
      /\ done.kind = op[r].kind /\ done.step = "done"
  BY <1>1 DEF Ops
<1>3. /\ list \in Ops /\ list.seen = op[r].seen /\ list.s = op[r].s
      /\ list.kind = op[r].kind /\ list.step = "listing"
  BY <1>1 DEF Ops
<1>4. /\ missing \in Ops /\ missing.seen = op[r].seen /\ missing.s = op[r].s
      /\ missing.kind = "missing" /\ missing.step = "listing"
  BY <1>1 DEF Ops, RequestKinds
<1>5. Shape(done) /\ Shape(list) /\ Shape(missing)
  BY <1>1, <1>2, <1>3, <1>4 DEF Shape
<1>6. UNCHANGED <<tmux, born, appSessions, failures>>
  BY DEF Resized
<1>7. \A t \in TmuxSessions : tmux'[t] \in {0, tmux[t]}
  BY <1>6
<1>8. CASE /\ knownSessions[op[r].s] # Absent /\ Upsert(op[r].s, knownSessions[op[r].s])
           /\ op' = Step(r, "done") /\ UNCHANGED <<listing, closedBefore>>
  <2>1. op' = [op EXCEPT ![r] = done]
    BY <1>8 DEF Step
  <2>2. /\ row' \in [Sessions -> SessionRows] /\ knownSessions' \in [Sessions -> SessionRows]
        /\ removedSince' \subseteq Sessions
    BY <1>1, <1>8, RowTypes DEF SessionsInv, SessionTypes
  <2>3. SessionTypes' /\ ListMoves
    BY <1>2, <1>6, <1>8, <2>1, <2>2, OneRequest DEF SessionsInv, SessionTypes, ListMoves
  <2>4. \A s \in TmuxSessions : Kept(s)
    <3>1. \A q \in Requests : op'[q] = op[q] \/ (q = r /\ op'[q] = done)
      BY <2>1 DEF SessionsInv, SessionTypes
    <3>2. \A s \in Sessions : Creating(s)' => Creating(s)
      BY <1>1, <1>2, <3>1 DEF Creating
    <3> QED BY <1>6, <3>2, SessionSets DEF Kept, Made
  <2>5. ASSUME NEW s \in Sessions, s = op[r].s, NEW rw \in SessionRows \ {Absent},
               rw = knownSessions[s], Upsert(s, rw)
        PROVE  RowsMove
    <3>1. s \in TmuxSessions => Judged(s, rw)
      BY <2>5 DEF SessionsInv, RowsInv
    <3>2. s \in TmuxSessions => Judged(s, rw)'
      BY <2>4, <3>1, JudgedStays
    <3> QED BY <2>5, <3>2 DEF RowsMove
  <2>6. RowsMove
    BY <1>1, <1>8, <2>5 DEF SessionsInv, SessionTypes
  <2> HIDE DEF done
  <2> QED BY <1>1, <1>2, <1>5, <1>6, <1>7, <2>1, <2>3, <2>6, OtherRequest
<1>9. ASSUME NEW o \in {list, missing}, op' = [op EXCEPT ![r] = o], ListFrom(row),
             UNCHANGED <<row, knownSessions, removedSince>>
      PROVE  SessionsInv'
  <2>1. o \in Ops /\ o.seen = op[r].seen /\ o.s = op[r].s /\ Shape(o) /\ o.kind # "create"
    BY <1>1, <1>3, <1>4, <1>5, <1>9
  <2>2. /\ ListMoves /\ listing' \in Listings /\ closedBefore' \subseteq Sessions
        /\ listing'.phase # "idle"
    BY <1>9, ListFromMoves DEF SessionsInv, SessionTypes
  <2>3. SessionTypes'
    BY <1>6, <1>9, <2>1, <2>2, OneRequest DEF SessionsInv, SessionTypes
  <2> QED BY <1>1, <1>6, <1>7, <1>9, <2>1, <2>2, <2>3, OtherRequest
<1>10. \/ /\ knownSessions[op[r].s] # Absent /\ Upsert(op[r].s, knownSessions[op[r].s])
          /\ op' = Step(r, "done") /\ UNCHANGED <<listing, closedBefore>>
       \/ /\ op' = [op EXCEPT ![r] = list] /\ ListFrom(row)
          /\ UNCHANGED <<row, knownSessions, removedSince>>
       \/ /\ op' = [op EXCEPT ![r] = missing] /\ ListFrom(row)
          /\ UNCHANGED <<row, knownSessions, removedSince>>
  BY DEF Resized, Step
<1> QED BY <1>8, <1>9, <1>10

LEMMA CreateAskedStep ==
  ASSUME SessionsInv, NEW r \in Requests, NEW s \in Managed,
         NEW a \in CreateActions \cup {NoAction}, CreateAsked(r, s, a)
  PROVE  SessionsInv'
<1> DEFINE again == [op[r] EXCEPT !.kind = "list", !.step = "done"]
<1> DEFINE o == [op[r] EXCEPT !.kind = "create", !.s = s, !.action = a, !.step = "preparing"]
<1>1. /\ op[r] \in Ops /\ op[r].step = "unused" /\ op[r].kind # "create" /\ op[r].seen = Absent
      /\ s \in Sessions
  BY AtRequest, SessionSets DEF CreateAsked, Arrives, Shape
<1>2. /\ again \in Ops /\ again.kind = "list" /\ again.step = "done" /\ again.seen = Absent
  BY <1>1 DEF Ops, RequestKinds
<1>3. /\ o \in Ops /\ o.kind = "create" /\ o.step = "preparing" /\ o.seen = Absent
      /\ o.s = s /\ o.action = a
  BY <1>1 DEF Ops, RequestKinds
<1>4. Shape(again) /\ Shape(o)
  BY <1>2, <1>3 DEF Shape
<1>5. UNCHANGED <<row, knownSessions, tmux, born, listing, appSessions, failures, removedSince,
                 closedBefore>>
  BY DEF CreateAsked
<1>6. \A t \in TmuxSessions : tmux'[t] \in {0, tmux[t]}
  BY <1>5
<1>7. CASE a # NoAction /\ Repeated(a)
  <2>1. op' = [op EXCEPT ![r] = again]
    BY <1>7 DEF CreateAsked
  <2>2. SessionTypes' /\ ListMoves
    BY <1>2, <1>5, <2>1, OneRequest DEF SessionsInv, SessionTypes, ListMoves
  <2> HIDE DEF again
  <2> QED BY <1>1, <1>2, <1>4, <1>5, <1>6, <2>1, <2>2, OtherRequest
<1>8. CASE ~(a # NoAction /\ Repeated(a))
  <2>1. op' = [op EXCEPT ![r] = o]
    BY <1>8 DEF CreateAsked
  <2>2. SessionTypes' /\ ListMoves /\ RowsMove
    BY <1>3, <1>5, <2>1, OneRequest DEF SessionsInv, SessionTypes, ListMoves, RowsMove
  <2>3. /\ op'[r] = o /\ \A q \in Requests \ {r} : op'[q] = op[q]
        /\ \A q \in Requests : op[q].kind = "create" => op[q].s # s /\ q # r
    BY <1>1, <2>1 DEF SessionsInv, SessionTypes, CreateAsked, Fresh
  <2> HIDE DEF o
  <2>4. ASSUME NEW t \in TmuxSessions PROVE BornOnce(t)' /\ Kept(t)
    <3>1. BornOnce(t)
      BY DEF SessionsInv, BirthInv
    <3>2. t = s => born[t] = 0
      BY <2>3, <3>1 DEF BornOnce
    <3>3. BornOnce(t)'
      <4>1. born' = born /\ tmux' = tmux
        BY <1>5
      <4>2. \A q \in Requests : op[q].kind = "create" => q # r /\ op'[q] = op[q]
        BY <2>3
      <4>3. born'[t] = 1 => \E q \in Requests : op'[q].kind = "create" /\ op'[q].s = t
                                          /\ op'[q].step \in {"naming", "done"}
        BY <3>1, <4>1, <4>2 DEF BornOnce
      <4>4. ASSUME NEW q \in Requests, op'[q].kind = "create", op'[q].s = t
            PROVE  /\ op'[q].step \in {"preparing", "spawning"} => born'[t] = 0
                   /\ op'[q].step = "naming" => born'[t] = 1
        <5>1. CASE q = r
          BY <1>3, <2>3, <3>2, <4>1, <4>4, <5>1
        <5>2. CASE q # r
          BY <2>3, <3>1, <4>1, <4>4, <5>2 DEF BornOnce
        <5> QED BY <5>1, <5>2
      <4> QED BY <3>1, <4>1, <4>3, <4>4 DEF BornOnce
    <3>4. born[t] = 1 => t # s
      BY <3>2
    <3>5. t # s /\ Creating(t)' => Creating(t)
      BY <1>3, <2>3 DEF Creating
    <3> QED BY <1>5, <3>3, <3>4, <3>5 DEF Kept, Made
  <2>5. BirthInv'
    <3>1. \A q \in Requests : Shape(op[q])'
      BY <1>4, <2>3 DEF SessionsInv, BirthInv
    <3>2. \A q, p \in Requests :
           op'[q].kind = "create" /\ op'[p].kind = "create" /\ op'[q].s = op'[p].s => q = p
      BY <1>3, <2>3 DEF SessionsInv, BirthInv
    <3>3. ASSUME NEW q \in Requests, op'[q].kind = "create", q # r, Counts(q)'
          PROVE  op[q].kind = "create" /\ Counts(q) /\ (a # NoAction => op[q].action # a)
      <4>1. op'[q] = op[q]
        BY <2>3, <3>3
      <4>2. op[q].kind = "create" /\ Counts(q)
        BY <3>3, <4>1 DEF Counts, Makes
      <4>3. a # NoAction => ~Repeated(a)
        BY <1>8
      <4> QED BY <4>2, <4>3 DEF Repeated, Counts, Makes
    <3>4. \A q, p \in Requests :
           /\ op'[q].kind = "create" /\ op'[p].kind = "create"
           /\ op'[q].action = op'[p].action /\ op'[q].action # NoAction
           /\ Counts(q)' /\ Counts(p)'
           => q = p
      BY <1>3, <2>3, <3>3 DEF SessionsInv, BirthInv
    <3> QED BY <2>4, <3>1, <3>2, <3>4 DEF BirthInv
  <2>6. \A q \in Requests :
           /\ \/ op'[q].seen = Absent
              \/ op'[q].seen = op[q].seen /\ op'[q].s = op[q].s
           /\ op'[q].step = "listing" => op[q].step = "listing" \/ listing'.phase # "idle"
    BY <1>3, <2>3
  <2>7. RowsInv' /\ CatchesInv' /\ ClosedInv' /\ NobodyLeftWaiting'
    BY <2>2, <2>4, <2>6, Carried
  <2> QED BY <2>2, <2>5, <2>7 DEF SessionsInv
<1> QED BY <1>7, <1>8

\* The steps of making a session change nothing but its request, its row and its
\* tmux session.
LEMMA MakingStep ==
  ASSUME SessionsInv, NEW r \in Requests, NEW o \in Ops,
         op' = [op EXCEPT ![r] = o], Makes(r), Shape(o),
         o.kind = op[r].kind, o.s = op[r].s, o.action = op[r].action,
         o.step \notin {"listing", "unused"},
         tmux' \in [InTmux -> Nat], born' \in [InTmux -> Nat],
         \A t \in TmuxSessions \ {op[r].s} : tmux'[t] = tmux[t] /\ born'[t] = born[t],
         op[r].s \in TmuxSessions =>
           LET s == op[r].s
           IN  \/ /\ tmux'[s] = tmux[s] /\ born'[s] = born[s]
                  /\ \/ o.step = "done"
                     \/ o.step = "spawning" /\ op[r].step = "preparing"
               \/ tmux'[s] = born[s] + 1 /\ born'[s] = born[s] + 1
                  /\ o.step = "naming" /\ op[r].step = "spawning",
         UNCHANGED <<listing, closedBefore, failures>>, appSessions' \subseteq Sessions,
         \/ UNCHANGED <<row, knownSessions, removedSince>>
         \/ Forget(op[r].s)
         \/ \E rw \in SessionRows \ {Absent} :
              /\ Upsert(op[r].s, rw)
              /\ op[r].s \in TmuxSessions =>
                   \/ rw.status = "starting"
                   \/ rw = Row("running", 1) /\ op[r].step = "naming" /\ o.step = "done",
         o.seen = Absent
           \/ (o.seen = Row("running", 1) /\ op[r].step = "naming" /\ o.step = "done")
           \/ op[r].s \in ServerSessions
  PROVE  SessionsInv'
<1>1. /\ SessionTypes /\ BirthInv /\ op[r].s \in Sessions /\ op[r].kind = "create" /\ op[r] \in Ops
      /\ op[r].step \in {"spawning", "naming"} => op[r].s \in TmuxSessions
  BY AtRequest DEF SessionsInv, BirthInv, Makes, Shape
<1>2. op'[r] = o /\ \A q \in Requests \ {r} : op'[q] = op[q]
  BY <1>1 DEF SessionTypes
<1>3. /\ row' \in [Sessions -> SessionRows] /\ knownSessions' \in [Sessions -> SessionRows]
      /\ removedSince' \subseteq Sessions
  BY <1>1, RowTypes, SessionSets DEF SessionTypes
<1>4. SessionTypes' /\ ListMoves
  BY <1>1, <1>3, OneRequest DEF SessionTypes, ListMoves
<1>5. /\ BirthInv'
      /\ \A s \in TmuxSessions : Kept(s)
      /\ op[r].s \in TmuxSessions /\ o.step = "done" => ~Creating(op[r].s)'
  BY <1>4, MakingRequest
<1>6. ASSUME NEW s \in TmuxSessions, s = op[r].s, op[r].step = "naming", o.step = "done"
      PROVE  Judged(s, Row("running", 1))'
  <2>1. born[s] = 1
    BY <1>1, <1>6 DEF BirthInv, BornOnce
  <2>2. born'[s] = 1
    BY <1>6, <2>1
  <2>3. ~Creating(s)'
    <3>1. \A q \in Requests : op'[q].kind = "create" /\ op'[q].s = s => q = r
      BY <1>1, <1>2, <1>6 DEF BirthInv
    <3> QED BY <1>2, <1>6, <3>1 DEF Creating
  <2> QED BY <2>2, <2>3 DEF Judged, Row, Made
<1>7. ASSUME NEW s \in Sessions, s = op[r].s, NEW rw \in SessionRows \ {Absent}, Upsert(s, rw),
             s \in TmuxSessions =>
                   \/ rw.status = "starting"
                   \/ rw = Row("running", 1) /\ op[r].step = "naming" /\ o.step = "done"
      PROVE  RowsMove
  <2>1. rw.status = "starting" => Judged(s, rw)'
    BY DEF Judged
  <2>2. s \in TmuxSessions => Judged(s, rw)'
    BY <1>6, <1>7, <2>1
  <2> QED BY <1>7, <2>2 DEF RowsMove
<1>8. RowsMove
  BY <1>1, <1>7 DEF RowsMove
<1>9. ASSUME NEW s \in TmuxSessions, op'[r].s = s, o.seen # Absent
      PROVE  Judged(s, op[r].seen)'
  <2>1. s = op[r].s /\ s \notin ServerSessions
    BY <1>2, <1>9, SessionSets
  <2> QED BY <1>2, <1>6, <1>9, <2>1
<1>10. \A q \in Requests :
           /\ \/ op'[q].seen = Absent
              \/ op'[q].seen = op[q].seen /\ op'[q].s = op[q].s
              \/ \A s \in TmuxSessions : op'[q].s = s => Judged(s, op[q].seen)'
           /\ op'[q].step = "listing" => op[q].step = "listing" \/ listing'.phase # "idle"
  BY <1>2, <1>9
<1>11. RowsInv' /\ CatchesInv' /\ ClosedInv' /\ NobodyLeftWaiting'
  BY <1>4, <1>5, <1>8, <1>10, Carried
<1> QED BY <1>4, <1>5, <1>11 DEF SessionsInv

LEMMA PrepareFailsStep ==
  ASSUME SessionsInv, NEW r \in Requests, PrepareFails(r)
  PROVE  SessionsInv'
<1> DEFINE o == [op[r] EXCEPT !.step = "done"]
<1>1. /\ op[r] \in Ops /\ op[r].step = "preparing" /\ op[r].kind = "create" /\ op[r].seen = Absent
  BY AtRequest DEF PrepareFails, Shape
<1>2. /\ o \in Ops /\ o.kind = op[r].kind /\ o.s = op[r].s /\ o.action = op[r].action
      /\ o.seen = Absent /\ o.step = "done"
  BY <1>1 DEF Ops
<1>3. Shape(o) /\ Makes(r)
  BY <1>1, <1>2 DEF Shape, Makes
<1>4. /\ op' = [op EXCEPT ![r] = o]
      /\ UNCHANGED <<row, knownSessions, tmux, born, listing, appSessions, failures, removedSince,
                     closedBefore>>
  BY DEF PrepareFails, Step
<1>5. tmux' \in [InTmux -> Nat] /\ born' \in [InTmux -> Nat] /\ appSessions' \subseteq Sessions
  BY <1>4 DEF SessionsInv, SessionTypes
<1> HIDE DEF o
<1> QED BY <1>2, <1>3, <1>4, <1>5, MakingStep

LEMMA CreateBeginsStep ==
  ASSUME SessionsInv, NEW r \in Requests, CreateBegins(r)
  PROVE  SessionsInv'
<1> DEFINE rw == IF op[r].s \in ServerSessions THEN Row("running", 0) ELSE Row("starting", 0)
<1> DEFINE o == IF op[r].s \in ServerSessions THEN [op[r] EXCEPT !.step = "done", !.seen = rw]
                ELSE [op[r] EXCEPT !.step = "spawning"]
<1>1. /\ op[r] \in Ops /\ op[r].step = "preparing" /\ op[r].kind = "create" /\ op[r].seen = Absent
      /\ op[r].s \in Managed /\ op[r].s \in Sessions
  BY AtRequest DEF CreateBegins, Shape
<1>2. op[r].s \in ServerSessions \/ op[r].s \in TmuxSessions
  BY <1>1 DEF Managed
<1>3. /\ rw \in SessionRows \ {Absent}
      /\ op[r].s \in TmuxSessions => rw.status = "starting"
  BY SessionSets DEF SessionRows, Row, Absent
<1>4. /\ o \in Ops /\ o.kind = op[r].kind /\ o.s = op[r].s /\ o.action = op[r].action
      /\ op[r].s \in ServerSessions => o.step = "done"
      /\ op[r].s \notin ServerSessions => o.step = "spawning" /\ o.seen = Absent
  <2>1. rw \in SessionRows
    BY <1>3
  <2> HIDE DEF rw
  <2> QED BY <1>1, <2>1 DEF Ops
<1>5. Shape(o) /\ Makes(r)
  BY <1>1, <1>2, <1>4 DEF Shape, Makes
<1>6. /\ op' = [op EXCEPT ![r] = o] /\ Upsert(op[r].s, rw)
      /\ appSessions' = appSessions \cup {op[r].s}
      /\ UNCHANGED <<tmux, born, listing, failures, closedBefore>>
  BY DEF CreateBegins
<1> HIDE DEF o, rw
<1>7. tmux' \in [InTmux -> Nat] /\ born' \in [InTmux -> Nat] /\ appSessions' \subseteq Sessions
  BY <1>1, <1>6 DEF SessionsInv, SessionTypes
<1>8. \/ UNCHANGED <<row, knownSessions, removedSince>>
      \/ Forget(op[r].s)
      \/ \E x \in SessionRows \ {Absent} :
           /\ Upsert(op[r].s, x)
           /\ op[r].s \in TmuxSessions =>
                \/ x.status = "starting"
                \/ x = Row("running", 1) /\ op[r].step = "naming" /\ o.step = "done"
  BY <1>3, <1>6
<1>9. /\ \A t \in TmuxSessions \ {op[r].s} : tmux'[t] = tmux[t] /\ born'[t] = born[t]
      /\ op[r].s \in TmuxSessions =>
           LET s == op[r].s
           IN  \/ /\ tmux'[s] = tmux[s] /\ born'[s] = born[s]
                  /\ \/ o.step = "done"
                     \/ o.step = "spawning" /\ op[r].step = "preparing"
               \/ tmux'[s] = born[s] + 1 /\ born'[s] = born[s] + 1
                  /\ o.step = "naming" /\ op[r].step = "spawning"
  BY <1>1, <1>4, <1>6
<1>10. /\ o.step \notin {"listing", "unused"}
       /\ o.seen = Absent
           \/ (o.seen = Row("running", 1) /\ op[r].step = "naming" /\ o.step = "done")
           \/ op[r].s \in ServerSessions
  BY <1>4
<1> QED BY <1>4, <1>5, <1>6, <1>7, <1>8, <1>9, <1>10, MakingStep

LEMMA TmuxStartsStep ==
  ASSUME SessionsInv, NEW r \in Requests, TmuxStarts(r)
  PROVE  SessionsInv'
<1> DEFINE s == op[r].s
<1> DEFINE o == [op[r] EXCEPT !.step = "naming"]
<1>1. /\ op[r] \in Ops /\ op[r].step = "spawning" /\ op[r].kind = "create" /\ op[r].seen = Absent
      /\ op[r].s \in TmuxSessions /\ op[r].s \in Managed
  BY AtRequest DEF TmuxStarts, Shape
<1>2. /\ o \in Ops /\ o.kind = op[r].kind /\ o.s = op[r].s /\ o.action = op[r].action
      /\ o.seen = Absent /\ o.step = "naming"
  BY <1>1 DEF Ops
<1>3. Shape(o) /\ Makes(r)
  BY <1>1, <1>2 DEF Shape, Makes
<1>4. /\ op' = [op EXCEPT ![r] = o]
      /\ born' = [born EXCEPT ![op[r].s] = born[op[r].s] + 1]
      /\ tmux' = [tmux EXCEPT ![op[r].s] = born[op[r].s] + 1]
      /\ UNCHANGED <<row, knownSessions, listing, appSessions, failures, removedSince, closedBefore>>
  BY DEF TmuxStarts, Step
<1>5. /\ tmux' \in [InTmux -> Nat] /\ born' \in [InTmux -> Nat] /\ appSessions' \subseteq Sessions
      /\ tmux'[op[r].s] = born[op[r].s] + 1 /\ born'[op[r].s] = born[op[r].s] + 1
      /\ \A t \in TmuxSessions \ {op[r].s} : tmux'[t] = tmux[t] /\ born'[t] = born[t]
  BY <1>1, <1>4, SessionSets DEF SessionsInv, SessionTypes
<1> HIDE DEF o
<1> QED BY <1>1, <1>2, <1>3, <1>4, <1>5, MakingStep

LEMMA CreateFailsStep ==
  ASSUME SessionsInv, NEW r \in Requests, CreateFails(r)
  PROVE  SessionsInv'
<1> DEFINE o == [op[r] EXCEPT !.step = "done"]
<1>1. /\ op[r] \in Ops /\ op[r].step \in {"spawning", "naming"} /\ op[r].kind = "create"
      /\ op[r].seen = Absent
  BY AtRequest DEF CreateFails, Shape
<1>2. /\ o \in Ops /\ o.kind = op[r].kind /\ o.s = op[r].s /\ o.action = op[r].action
      /\ o.seen = Absent /\ o.step = "done"
  BY <1>1 DEF Ops
<1>3. Shape(o) /\ Makes(r)
  BY <1>1, <1>2 DEF Shape, Makes
<1>4. /\ op' = [op EXCEPT ![r] = o] /\ Forget(op[r].s)
      /\ UNCHANGED <<tmux, born, listing, appSessions, failures, closedBefore>>
  BY DEF CreateFails, Step
<1>5. tmux' \in [InTmux -> Nat] /\ born' \in [InTmux -> Nat] /\ appSessions' \subseteq Sessions
  BY <1>4 DEF SessionsInv, SessionTypes
<1> HIDE DEF o
<1> QED BY <1>2, <1>3, <1>4, <1>5, MakingStep

LEMMA TmuxNamedStep ==
  ASSUME SessionsInv, NEW r \in Requests, TmuxNamed(r)
  PROVE  SessionsInv'
<1> DEFINE o == [op[r] EXCEPT !.step = "done", !.seen = Row("running", tmux[op[r].s])]
<1>1. /\ op[r] \in Ops /\ op[r].step = "naming" /\ op[r].kind = "create"
      /\ op[r].s \in TmuxSessions /\ op[r].s \in Sessions
  BY AtRequest DEF TmuxNamed, Shape
<1>2. tmux[op[r].s] = 1
  BY <1>1 DEF TmuxNamed, SessionsInv, BirthInv, BornOnce
<1>3. Row("running", 1) \in SessionRows \ {Absent}
  BY SessionSets DEF Row, Absent
<1>4. /\ o \in Ops /\ o.kind = op[r].kind /\ o.s = op[r].s /\ o.action = op[r].action
      /\ o.seen = Row("running", 1) /\ o.step = "done"
  BY <1>1, <1>2, <1>3 DEF Ops
<1>5. Shape(o) /\ Makes(r)
  BY <1>1, <1>4 DEF Shape, Makes
<1>6. /\ op' = [op EXCEPT ![r] = o] /\ Upsert(op[r].s, Row("running", 1))
      /\ appSessions' = appSessions \cup {op[r].s}
      /\ UNCHANGED <<tmux, born, listing, failures, closedBefore>>
  BY <1>2 DEF TmuxNamed
<1>7. tmux' \in [InTmux -> Nat] /\ born' \in [InTmux -> Nat] /\ appSessions' \subseteq Sessions
  BY <1>1, <1>6 DEF SessionsInv, SessionTypes
<1> HIDE DEF o
<1> QED BY <1>1, <1>3, <1>4, <1>5, <1>6, <1>7, MakingStep

\* What tmux answers takes no row of a session that lives or is being made.
LEMMA OrphansAreGone ==
  ASSUME SessionsInv, NEW s \in TmuxSessions, Orphan(s, listing.rows[s], tmux)
  PROVE  tmux[s] = 0 /\ ~Creating(s)
<1>1. listing.rows[s].uid = 1 /\ Made(s)
  BY DEF Orphan, SessionsInv, RowsInv, Judged
<1>2. tmux[s] \in {0, 1}
  BY <1>1 DEF SessionsInv, BirthInv, BornOnce, Made
<1> QED BY <1>1, <1>2 DEF Orphan, Made

LEMMA TmuxAnswersStep ==
  ASSUME SessionsInv, NEW ok \in BOOLEAN, TmuxAnswers(ok)
  PROVE  SessionsInv'
<1> DEFINE live == IF ok THEN tmux ELSE NobodyLives
<1> DEFINE orphans == {s \in Sessions : Orphan(s, listing.rows[s], live)}
<1>0. /\ SessionTypes /\ BirthInv /\ RowsInv /\ CatchesInv /\ ClosedInv
      /\ MaxFailures \in Nat
  BY SessionsAssumption DEF SessionsInv, SessionsAssumption
<1>1. /\ listing.phase = "read"
      /\ row' = [s \in Sessions |-> IF s \in orphans THEN Absent ELSE row[s]]
      /\ listing' = [phase |-> "answered", live |-> live,
                     rows |-> [s \in Sessions |->
                                 IF s \in orphans THEN Absent ELSE listing.rows[s]]]
      /\ removedSince' = removedSince \cup orphans
      /\ UNCHANGED <<knownSessions, tmux, born, op, appSessions, closedBefore>>
      /\ failures' = failures \/ failures' = failures + 1
  BY DEF TmuxAnswers
<1>2. live \in [InTmux -> Nat] /\ orphans \subseteq Sessions
      /\ \A s \in TmuxSessions : tmux[s] = 0 => live[s] = 0
  BY <1>0, SessionSets DEF SessionTypes, NobodyLives
<1>3. \A s \in orphans : Orphan(s, listing.rows[s], live)
  OBVIOUS
<1>4. \A s \in Sessions : Orphan(s, listing.rows[s], live) => s \in orphans
  OBVIOUS
<1> HIDE DEF live, orphans
<1>5. SessionTypes'
  <2>1. row' \in [Sessions -> SessionRows] /\ removedSince' \subseteq Sessions
    BY <1>0, <1>1, <1>2, SessionSets DEF SessionTypes
  <2>2. listing' \in Listings
    BY <1>0, <1>1, <1>2, SessionSets DEF SessionTypes, Listings
  <2>3. failures' \in Nat
    BY <1>0, <1>1 DEF SessionTypes
  <2> QED BY <1>0, <1>1, <2>1, <2>2, <2>3 DEF SessionTypes
<1>6. BirthInv' /\ \A s \in Sessions : Creating(s)' = Creating(s)
  BY <1>0, <1>1 DEF BirthInv, BornOnce, Counts, Makes, Creating
<1>7. \A s \in TmuxSessions : Kept(s)
  BY <1>1, <1>6, SessionSets DEF Kept, Made
<1>8. RowsInv'
  <2>1. ASSUME NEW s \in TmuxSessions
        PROVE  /\ Judged(s, row[s])' /\ Judged(s, knownSessions[s])' /\ Judged(s, listing.rows[s])'
               /\ \A r \in Requests : op'[r].s = s => Judged(s, op[r].seen)'
    <3>1. Judged(s, row[s]) /\ Judged(s, knownSessions[s]) /\ Judged(s, listing.rows[s]) /\ Kept(s)
      BY <1>0, <1>7 DEF RowsInv
    <3>2. /\ row'[s] = row[s] \/ row'[s] = Absent
          /\ listing'.rows[s] = listing.rows[s] \/ listing'.rows[s] = Absent
      BY <1>1, <2>1, SessionSets
    <3>3. Judged(s, row[s])'
      BY <3>1, <3>2, JudgedStays, AbsentJudged
    <3>4. Judged(s, listing.rows[s])'
      BY <3>1, <3>2, JudgedStays, AbsentJudged
    <3>5. Judged(s, knownSessions[s])'
      BY <1>1, <3>1, JudgedStays
    <3>6. ASSUME NEW r \in Requests, op'[r].s = s PROVE Judged(s, op[r].seen)'
      <4>1. Judged(s, op[r].seen) /\ op'[r].seen = op[r].seen
        BY <1>0, <1>1, <3>6 DEF RowsInv
      <4> QED BY <3>1, <4>1, JudgedStays
    <3> QED BY <3>3, <3>4, <3>5, <3>6
  <2> QED BY <2>1 DEF RowsInv
<1>9. CatchesInv'
  <2> SUFFICES ASSUME NEW s \in Managed
               PROVE  /\ knownSessions'[s] # Absent /\ row'[s] = Absent => s \in removedSince'
                      /\ listing'.phase # "idle" /\ listing'.rows[s] # Absent /\ row'[s] = Absent
                           => s \in removedSince'
    BY DEF CatchesInv
  <2>1. s \in Sessions
    BY SessionSets
  <2> QED BY <1>0, <1>1, <2>1 DEF CatchesInv
<1>10. ClosedInv'
  <2> SUFFICES ASSUME NEW s \in closedBefore
               PROVE  /\ s \in TmuxSessions /\ Made(s)' /\ tmux'[s] = 0
                      /\ listing'.rows[s].status # "running"
    BY <1>1 DEF ClosedInv
  <2>1. s \in TmuxSessions /\ Made(s) /\ tmux[s] = 0 /\ s \in Sessions /\ s \in InTmux
    BY <1>0, <1>1, SessionSets DEF ClosedInv
  <2>2. Judged(s, listing.rows[s])
    BY <1>0, <2>1 DEF RowsInv
  <2>3. CASE s \in orphans
    BY <1>1, <1>7, <2>1, <2>3, SessionSets DEF Kept
  <2>4. CASE s \notin orphans
    <3>1. ~Orphan(s, listing.rows[s], live)
      BY <1>4, <2>1, <2>4
    <3>2. live[s] = 0
      BY <1>2, <2>1
    <3>3. listing.rows[s].status # "running"
      BY <2>1, <2>2, <3>1, <3>2 DEF Orphan, Judged
    <3>4. listing'.rows[s] = listing.rows[s]
      BY <1>1, <2>1, <2>4
    <3> QED BY <1>7, <2>1, <3>3, <3>4, <1>1 DEF Kept
  <2> QED BY <2>3, <2>4
<1>11. NobodyLeftWaiting'
  BY <1>1 DEF NobodyLeftWaiting
<1> QED BY <1>5, <1>6, <1>8, <1>9, <1>10, <1>11 DEF SessionsInv

\* What the list says of a session of ours is its row in the list.
LEMMA ListedSays ==
  ASSUME SessionTypes
  PROVE  /\ Listed \in [Sessions -> SessionRows]
         /\ \A s \in Managed : Listed[s] = listing.rows[s]
<1>1. ASSUME NEW s \in Sessions PROVE
        (IF listing.rows[s] # Absent THEN listing.rows[s]
         ELSE IF s \in ExternalSessions /\ listing.live[s] # 0
              THEN Row("detached", listing.live[s]) ELSE Absent) \in SessionRows
  <2>1. listing.rows[s] \in SessionRows
    BY <1>1 DEF SessionTypes, Listings
  <2>2. s \in ExternalSessions => listing.live[s] \in Nat
    BY <1>1 DEF SessionTypes, Listings, InTmux
  <2> QED BY <2>1, <2>2, SessionSets
<1>2. Listed \in [Sessions -> SessionRows]
  BY <1>1 DEF Listed
<1>3. \A s \in Managed : s \in Sessions /\ s \notin ExternalSessions
  BY SessionSets
<1> QED BY <1>2, <1>3 DEF Listed

LEMMA ListDoneStep ==
  ASSUME SessionsInv, ListDone
  PROVE  SessionsInv'
<1>0. /\ SessionTypes /\ BirthInv /\ RowsInv /\ CatchesInv /\ ClosedInv
  BY DEF SessionsInv
<1>1. /\ listing.phase = "answered" /\ knownSessions' = Listed
      /\ op' = [r \in Requests |->
                  IF Joined(r) THEN [op[r] EXCEPT !.step = "woken", !.seen = Listed[op[r].s]]
                  ELSE op[r]]
      /\ listing' = [listing EXCEPT !.phase = "idle"]
      /\ removedSince' = {s \in Sessions : Listed[s] # Absent} \cap removedSince
      /\ UNCHANGED <<row, tmux, born, appSessions, failures, closedBefore>>
  BY DEF ListDone, Rebuilt
<1>2. /\ Listed \in [Sessions -> SessionRows]
      /\ \A s \in Managed : Listed[s] = listing.rows[s]
  BY <1>0, ListedSays
<1>3. ASSUME NEW r \in Requests
      PROVE  /\ op'[r] \in Ops /\ Shape(op'[r]) /\ op'[r].step # "listing"
             /\ op'[r].s = op[r].s
             /\ op'[r] = op[r] \/ (op[r].kind # "create" /\ op'[r].kind # "create"
                                    /\ op'[r].seen = Listed[op[r].s])
  <2>1. op[r] \in Ops /\ Shape(op[r]) /\ op[r].s \in Sessions
    BY AtRequest
  <2>2. CASE Joined(r)
    <3>1. op'[r] = [op[r] EXCEPT !.step = "woken", !.seen = Listed[op[r].s]]
      BY <1>1, <2>2
    <3>2. Listed[op[r].s] \in SessionRows
      BY <1>2, <2>1
    <3>3. /\ op'[r] \in Ops /\ op'[r].step = "woken" /\ op'[r].kind = op[r].kind
          /\ op'[r].s = op[r].s /\ op'[r].seen = Listed[op[r].s]
      BY <2>1, <3>1, <3>2 DEF Ops
    <3>4. op[r].kind # "create"
      BY <2>1, <2>2 DEF Joined, Shape
    <3> QED BY <3>3, <3>4 DEF Shape
  <2>3. CASE ~Joined(r)
    BY <1>1, <2>1, <2>3 DEF Joined
  <2> QED BY <2>2, <2>3
<1>4. SessionTypes'
  <2>1. op' \in [Requests -> Ops]
    BY <1>1, <1>3
  <2>2. listing' \in Listings
    BY <1>0, <1>1 DEF SessionTypes, Listings
  <2> QED BY <1>0, <1>1, <1>2, <2>1, <2>2 DEF SessionTypes
<1>5. /\ BirthInv'
      /\ \A s \in Sessions : Creating(s)' = Creating(s)
  <2>1. \A s \in TmuxSessions : tmux'[s] \in {0, tmux[s]}
    BY <1>1
  <2>2. \A r \in Requests : /\ Shape(op'[r])
                            /\ op'[r] = op[r] \/ (op[r].kind # "create" /\ op'[r].kind # "create")
    BY <1>3
  <2> QED BY <1>0, <1>1, <1>4, <2>1, <2>2, OtherRequests
<1>6. \A s \in TmuxSessions : Kept(s)
  BY <1>1, <1>5, SessionSets DEF Kept, Made
<1>7. /\ listing'.phase = "idle" /\ listing'.rows = listing.rows
  BY <1>0, <1>1 DEF SessionTypes, Listings
<1>8. RowsInv'
  <2>1. ASSUME NEW s \in TmuxSessions
        PROVE  /\ Judged(s, row[s])' /\ Judged(s, knownSessions[s])' /\ Judged(s, listing.rows[s])'
               /\ \A r \in Requests : op'[r].s = s => Judged(s, op[r].seen)'
    <3>1. Judged(s, row[s]) /\ Judged(s, listing.rows[s]) /\ Kept(s) /\ s \in Managed
      BY <1>0, <1>6, SessionSets DEF RowsInv
    <3>2. Judged(s, row[s])'
      BY <1>1, <3>1, JudgedStays
    <3>3. Judged(s, listing.rows[s])'
      BY <1>7, <3>1, JudgedStays
    <3>4. knownSessions'[s] = listing.rows[s]
      BY <1>1, <1>2, <3>1
    <3>5. Judged(s, knownSessions[s])'
      BY <3>1, <3>4, JudgedStays
    <3>6. ASSUME NEW r \in Requests, op'[r].s = s PROVE Judged(s, op[r].seen)'
      <4>1. op[r].s = s
        BY <1>3, <3>6
      <4>2. op'[r].seen = op[r].seen \/ op'[r].seen = listing.rows[s]
        BY <1>2, <1>3, <3>1, <4>1
      <4>3. Judged(s, op[r].seen)
        BY <1>0, <4>1 DEF RowsInv
      <4> QED BY <3>1, <4>2, <4>3, JudgedStays
    <3> QED BY <3>2, <3>3, <3>5, <3>6
  <2> QED BY <2>1 DEF RowsInv
<1>9. CatchesInv'
  <2> SUFFICES ASSUME NEW s \in Managed, knownSessions'[s] # Absent, row'[s] = Absent
               PROVE  s \in removedSince'
    BY <1>7 DEF CatchesInv
  <2>1. s \in Sessions /\ Listed[s] # Absent /\ listing.rows[s] # Absent /\ row[s] = Absent
    BY <1>1, <1>2, SessionSets
  <2>2. s \in removedSince
    BY <1>0, <1>1, <2>1 DEF CatchesInv
  <2> QED BY <1>1, <2>1, <2>2
<1>10. ClosedInv' /\ NobodyLeftWaiting'
  BY <1>3, <1>7 DEF ClosedInv, NobodyLeftWaiting
<1> QED BY <1>4, <1>5, <1>8, <1>9, <1>10 DEF SessionsInv

LEMMA AgentRestartsStep ==
  ASSUME SessionsInv, AgentRestarts
  PROVE  SessionsInv'
<1>0. /\ SessionTypes /\ BirthInv /\ RowsInv
  BY DEF SessionsInv
<1>1. /\ op' = [r \in Requests |-> IF op[r].step = "unused" THEN op[r]
                                   ELSE [op[r] EXCEPT !.step = "done", !.seen = Absent]]
      /\ listing' = NoListing /\ knownSessions' = NoRows
      /\ removedSince' = {} /\ closedBefore' = {} /\ failures' = failures + 1
      /\ UNCHANGED <<row, tmux, born, appSessions>>
  BY DEF AgentRestarts
<1>2. ASSUME NEW r \in Requests
      PROVE  /\ op'[r] \in Ops /\ op'[r].seen = Absent /\ op'[r].step \in {"unused", "done"}
             /\ op'[r].kind = op[r].kind /\ op'[r].s = op[r].s
             /\ op'[r].step = "unused" => op[r].step = "unused"
             /\ op[r].step \in {"naming", "done"} => op'[r].step = "done"
  <2>1. op[r] \in Ops /\ Shape(op[r])
    BY AtRequest
  <2>2. CASE op[r].step = "unused"
    BY <1>1, <2>1, <2>2 DEF Shape
  <2>3. CASE op[r].step # "unused"
    <3>1. op'[r] = [op[r] EXCEPT !.step = "done", !.seen = Absent]
      BY <1>1, <2>3
    <3> QED BY <2>1, <2>3, <3>1, SessionSets DEF Ops
  <2> QED BY <2>2, <2>3
<1>3. SessionTypes'
  <2>1. op' \in [Requests -> Ops]
    BY <1>1, <1>2
  <2>2. failures' \in Nat
    <3>1. failures \in Nat
      BY <1>0 DEF SessionTypes
    <3>2. failures' = failures + 1
      BY <1>1
    <3> QED BY <3>1, <3>2
  <2>3. listing' \in Listings /\ knownSessions' \in [Sessions -> SessionRows]
    BY <1>1, SessionSets
  <2>4. removedSince' \subseteq Sessions /\ closedBefore' \subseteq Sessions
    BY <1>1
  <2> QED BY <1>0, <1>1, <2>1, <2>2, <2>3, <2>4 DEF SessionTypes
<1>4. \A s \in Sessions : ~Creating(s)'
  BY <1>2 DEF Creating
<1>5. BirthInv'
  <2>1. \A r \in Requests : Shape(op[r])'
    <3> TAKE r \in Requests
    <3>1. op[r].step = "unused" => op[r].kind = "list"
      BY AtRequest DEF Shape
    <3> QED BY <1>2, <3>1 DEF Shape
  <2>2. \A q, r \in Requests :
         op'[q].kind = "create" /\ op'[r].kind = "create" /\ op'[q].s = op'[r].s => q = r
    BY <1>0, <1>2 DEF BirthInv
  <2>3. ASSUME NEW s \in TmuxSessions PROVE BornOnce(s)'
    <3>1. BornOnce(s) /\ born'[s] = born[s] /\ tmux'[s] = tmux[s]
      BY <1>0, <1>1 DEF BirthInv
    <3> QED BY <1>2, <3>1 DEF BornOnce
  <2>4. \A r \in Requests : ~Counts(r)'
    BY <1>2 DEF Counts, Makes
  <2> QED BY <2>1, <2>2, <2>3, <2>4 DEF BirthInv
<1>6. \A s \in TmuxSessions : Kept(s)
  BY <1>1, <1>4, SessionSets DEF Kept, Made
<1>7. \A s \in Sessions : knownSessions'[s] = Absent /\ listing'.rows[s] = Absent
  BY <1>1 DEF NoRows, NoListing
<1>8. RowsInv'
  <2>1. ASSUME NEW s \in TmuxSessions
        PROVE  Judged(s, row[s])'
    <3>1. Judged(s, row[s]) /\ Kept(s)
      BY <1>0, <1>6 DEF RowsInv
    <3> QED BY <1>1, <3>1, JudgedStays
  <2>2. \A s \in TmuxSessions : Judged(s, Absent)'
    BY AbsentJudged
  <2> QED BY <1>2, <1>7, <2>1, <2>2, SessionSets DEF RowsInv
<1>9. CatchesInv' /\ ClosedInv' /\ NobodyLeftWaiting'
  BY <1>1, <1>2, <1>7, SessionSets DEF CatchesInv, ClosedInv, NobodyLeftWaiting, NoListing
<1> QED BY <1>3, <1>5, <1>8, <1>9 DEF SessionsInv

LEMMA OutsideStep ==
  ASSUME SessionsInv,
         \/ \E s \in InTmux : TmuxDies(s)
         \/ \E s \in ExternalSessions : ExternalStarts(s)
  PROVE  SessionsInv'
<1>1. ASSUME NEW s \in InTmux, TmuxDies(s) PROVE SessionsInv'
  <2>1. /\ tmux' \in [InTmux -> Nat] /\ failures' \in Nat
        /\ \A t \in TmuxSessions : tmux'[t] \in {0, tmux[t]}
    BY <1>1, SessionSets DEF TmuxDies, SessionsInv, SessionTypes
  <2>2. UNCHANGED <<row, knownSessions, born, op, listing, appSessions, removedSince, closedBefore>>
    BY <1>1 DEF TmuxDies
  <2>3. SessionTypes'
    BY <2>1, <2>2 DEF SessionsInv, SessionTypes
  <2> QED BY <2>1, <2>2, <2>3, NoRequest
<1>2. ASSUME NEW s \in ExternalSessions, ExternalStarts(s) PROVE SessionsInv'
  <2>1. s \in InTmux /\ s \notin TmuxSessions
    BY SessionsAssumption DEF InTmux, SessionsAssumption
  <2>2. /\ tmux' \in [InTmux -> Nat] /\ born' \in [InTmux -> Nat]
        /\ \A t \in TmuxSessions : tmux'[t] = tmux[t] /\ born'[t] = born[t]
    BY <1>2, <2>1, SessionSets DEF ExternalStarts, SessionsInv, SessionTypes
  <2>3. UNCHANGED <<row, knownSessions, op, listing, appSessions, failures, removedSince, closedBefore>>
    BY <1>2 DEF ExternalStarts
  <2>4. SessionTypes'
    BY <2>2, <2>3 DEF SessionsInv, SessionTypes
  <2> QED BY <2>2, <2>3, <2>4, NoRequest
<1> QED BY <1>1, <1>2

LEMMA SessionsStep ==
  ASSUME SessionsInv, [SessionsNext]_sessionVars
  PROVE  SessionsInv'
<1>1. CASE UNCHANGED sessionVars
  <2>1. UNCHANGED <<row, knownSessions, tmux, born, op, listing, appSessions, failures,
                    removedSince, closedBefore>>
    BY <1>1 DEF sessionVars
  <2>2. SessionTypes'
    BY <2>1 DEF SessionsInv, SessionTypes
  <2> QED BY <2>1, <2>2, NoRequest
<1>2. CASE SessionsNext
  <2>1. ASSUME NEW r \in Requests, NEW k \in RequestKinds, NEW s \in Sessions, Ask(r, k, s)
        PROVE  SessionsInv'
    BY <2>1, AskStep
  <2>2. ASSUME NEW ok \in BOOLEAN, TmuxAnswers(ok)
        PROVE  SessionsInv'
    BY <2>2, TmuxAnswersStep
  <2>3. ASSUME NEW r \in Requests, GoesOn(r) \/ Killed(r) \/ Resized(r)
        PROVE  SessionsInv'
    BY <2>3, GoesOnStep, KilledStep, ResizedStep
  <2>4. ASSUME NEW r \in Requests, NEW s \in Sessions, ResizeAsked(r, s)
        PROVE  SessionsInv'
    BY <2>4, ResizeAskedStep
  <2>5. ASSUME NEW r \in Requests, NEW s \in Managed, NEW a \in CreateActions \cup {NoAction},
               CreateAsked(r, s, a)
        PROVE  SessionsInv'
    BY <2>5, CreateAskedStep
  <2>6. ASSUME NEW r \in Requests,
               PrepareFails(r) \/ CreateBegins(r) \/ TmuxStarts(r) \/ CreateFails(r) \/ TmuxNamed(r)
        PROVE  SessionsInv'
    BY <2>6, PrepareFailsStep, CreateBeginsStep, TmuxStartsStep, CreateFailsStep, TmuxNamedStep
  <2> QED BY <1>2, <2>1, <2>2, <2>3, <2>4, <2>5, <2>6, ListDoneStep, AgentRestartsStep, OutsideStep
          DEF SessionsNext
<1> QED BY <1>1, <1>2

\* AgentSessions: requests that overlap and share a list agree on the sessions
\* there are, and one create_action_id makes one session, for any number of
\* sessions and requests, ends of tmux sessions, failures and restarts.
THEOREM SessionsAgree == SessionsSpec => []RequestsAgree
<1>1. SessionsInit => SessionsInv
  BY SessionsInitially
<1>2. SessionsInv /\ [SessionsNext]_sessionVars => SessionsInv'
  BY SessionsStep
<1>3. SessionsInv => RequestsAgree
  <2> SUFFICES ASSUME SessionsInv PROVE RequestsAgree
    OBVIOUS
  <2>1. KnownCatchesUp
    BY DEF SessionsInv, CatchesInv, KnownCatchesUp
  <2>2. ClosedNotListed
    <3>1. SessionTypes /\ \A s \in TmuxSessions : s \in Managed
      BY SessionSets DEF SessionsInv
    <3> QED BY <3>1, ListedSays DEF SessionsInv, ClosedInv, ClosedNotListed
  <2>3. OneSessionPerAction
    BY DEF SessionsInv, BirthInv, OneSessionPerAction, Counts, Shape, Makes
  <2> QED BY <2>1, <2>2, <2>3 DEF RequestsAgree, SessionsInv
<1> QED BY <1>1, <1>2, <1>3, PTL DEF SessionsSpec

\* Who takes a row away.
LEMMA RowLost ==
  ASSUME SessionsInv, [SessionsNext]_sessionVars, NEW s \in TmuxSessions,
         row[s] # Absent, row'[s] = Absent, tmux[s] # 0 \/ Creating(s)
  PROVE  \/ Asked(s, {"close", "kill", "missing"})
         \/ \E r \in Requests : CreateFails(r)
         \/ failures # failures'
<1>0. SessionTypes /\ s \in Sessions
  BY SessionSets DEF SessionsInv
<1>1. ASSUME NEW t \in Sessions, NEW rw \in SessionRows \ {Absent}, Upsert(t, rw)
      PROVE  FALSE
  BY <1>0, <1>1 DEF Upsert, SessionTypes
<1>2. ASSUME NEW t \in Sessions, Forget(t)
      PROVE  t = s
  BY <1>0, <1>2 DEF Forget, SessionTypes
<1>3. ASSUME NEW ok \in BOOLEAN, TmuxAnswers(ok)
      PROVE  failures # failures'
  <2>1. CASE ok
    <3>1. row' = [t \in Sessions |-> IF t \in {u \in Sessions : Orphan(u, listing.rows[u], tmux)}
                                     THEN Absent ELSE row[t]]
      BY <1>3, <2>1 DEF TmuxAnswers
    <3>2. Orphan(s, listing.rows[s], tmux)
      BY <1>0, <3>1
    <3> QED BY <3>2, OrphansAreGone
  <2>2. CASE ~ok
    <3>1. failures' = failures + 1 /\ failures \in Nat
      BY <1>0, <1>3, <2>2 DEF TmuxAnswers, SessionTypes
    <3> QED BY <3>1
  <2> QED BY <2>1, <2>2
<1>4. ASSUME NEW r \in Requests, GoesOn(r)
      PROVE  Asked(s, {"close", "kill", "missing"})
  <2>1. GoesOnRows(r) /\ op[r].s \in Sessions
    BY <1>4, GoesOnSays, AtRequest
  <2>2. op[r].kind \in {"missing", "close"} /\ Forget(op[r].s)
    BY <1>1, <2>1 DEF GoesOnRows
  <2>3. op[r].s = s
    BY <1>2, <2>1, <2>2
  <2> QED BY <2>2, <2>3 DEF Asked
<1>5. ASSUME NEW r \in Requests, Killed(r)
      PROVE  Asked(s, {"close", "kill", "missing"})
  <2>1. op[r].kind \in {"close", "kill"} /\ Forget(op[r].s) /\ op[r].s \in Sessions
    BY <1>5, AtRequest DEF Killed, Shape
  <2>2. op[r].s = s
    BY <1>2, <2>1
  <2> QED BY <2>1, <2>2 DEF Asked
<1>6. ASSUME NEW r \in Requests, Resized(r)
      PROVE  FALSE
  <2>1. op[r].s \in Sessions /\ knownSessions[op[r].s] \in SessionRows
    BY <1>0, AtRequest DEF SessionTypes
  <2> QED BY <1>1, <1>6, <2>1 DEF Resized
<1>7. ASSUME NEW r \in Requests, CreateBegins(r) \/ TmuxNamed(r)
      PROVE  FALSE
  <2>1. op[r].s \in Sessions /\ Shape(op[r])
    BY AtRequest
  <2>2. CASE CreateBegins(r)
    <3>1. \E rw \in {Row("running", 0), Row("starting", 0)} : Upsert(op[r].s, rw)
      BY <2>2 DEF CreateBegins
    <3>2. {Row("running", 0), Row("starting", 0)} \subseteq SessionRows \ {Absent}
      BY DEF SessionRows, Row, Absent
    <3> QED BY <1>1, <2>1, <3>1, <3>2
  <2>3. CASE TmuxNamed(r)
    <3>1. Upsert(op[r].s, Row("running", tmux[op[r].s])) /\ op[r].s \in TmuxSessions
      BY <2>1, <2>3 DEF TmuxNamed, Shape
    <3>2. tmux[op[r].s] \in Nat
      BY <1>0, <3>1, SessionSets DEF SessionTypes
    <3>3. Row("running", tmux[op[r].s]) \in SessionRows \ {Absent}
      BY <3>2 DEF SessionRows, Row, Absent
    <3> QED BY <1>1, <2>1, <3>1, <3>3
  <2> QED BY <1>7, <2>2, <2>3
<1>8. row' # row
  OBVIOUS
<1> QED BY <1>3, <1>4, <1>5, <1>6, <1>7, <1>8
        DEF SessionsNext, sessionVars, Ask, ListDone, ResizeAsked, CreateAsked, PrepareFails,
            TmuxStarts, TmuxDies, ExternalStarts, AgentRestarts

\* AgentSessions: no row of a session that lives or is being made is lost, unless
\* an App asked for that or tmux failed to answer or to start it, however lists,
\* requests and the ends of tmux sessions interleave.
THEOREM RowsOfTheLivingStay == SessionsSpec => LiveKept
<1>1. SessionsInit => SessionsInv
  BY SessionsInitially
<1>2. SessionsInv /\ [SessionsNext]_sessionVars => SessionsInv'
  BY SessionsStep
<1> DEFINE Kept1 ==
      \A s \in TmuxSessions :
       /\ row[s] # Absent /\ row'[s] = Absent
       /\ tmux[s] # 0 \/ Creating(s)
       => \/ Asked(s, {"close", "kill", "missing"})
          \/ \E r \in Requests : CreateFails(r)
          \/ failures # failures'
<1>3. SessionsInv /\ [SessionsNext]_sessionVars => [Kept1]_sessionVars
  BY RowLost
<1> QED BY <1>1, <1>2, <1>3, PTL DEF SessionsSpec, LiveKept

-----------------------------------------------------------------------------
(* Delivery learning.                                                      *)

Reviewed == {"approved", "rejected", "shadow", "active", "paused", "deprecated"}
Dormant == {"paused", "rejected", "deprecated"}

\* A candidate bears its own fingerprint until a review edits it, and is active
\* with more evidence for it than against it.
CandidateNamed(d, c) ==
  /\ d.candidate[c].fingerprint \in {c} \cup Edits
  /\ d.candidate[c].fingerprint # c => d.candidate[c].status \in Reviewed

CandidateKept(d, c) ==
  /\ CandidateNamed(d, c)
  /\ d.candidate[c].status = "active" => Supported(d, c)

\* A correction is that of the candidate with its fingerprint, which is there;
\* what was applied has been reviewed, and stays.
EpisodeKept(d, e) ==
  /\ d.correction[e][1] = d.correction[e][2]
  /\ d.correction[e][1] # NoText => Exists(d, d.correction[e][1])
  /\ d.outcome[e] = NoOutcome => d.correction[e][1] = NoText
  /\ \A c \in d.applied[e] : d.candidate[c].status \in Reviewed
  /\ d.status[e] = "none" => d.outcome[e] = NoOutcome

TablesKept(d) ==
  /\ d \in Tables
  /\ \A c \in Texts : CandidateKept(d, c)
  /\ \A e \in Episodes : EpisodeKept(d, e)

\* Episodes are opened one after the other.
OpenedInTurn(d) == \E k \in 0 .. Prompts : {e \in Episodes : d.status[e] # "none"} = 1 .. k

CorrectionRight(d, e) == d.correction[e][1] = Wanted(d, e)

EvaluationRight(d, e) ==
  d.applied[e] # {} /\ d.outcome[e] # NoOutcome =>
    /\ d.evaluation[e] = d.outcome[e]
    /\ \A c \in d.applied[e] :
         (d.judged[e][c] = "supporting") = (d.outcome[e][1] = "accepted")

LearntFrom(d, e) == ~Collides(d, e) => CorrectionRight(d, e) /\ EvaluationRight(d, e)

Learnt(d) == \A e \in Episodes : LearntFrom(d, e)

ExperienceInv ==
  /\ ExperienceTypeOK
  /\ TablesKept(db) /\ OpenedInTurn(db)
  /\ serving => Learnt(db)
  /\ ~serving => ~synced
  /\ AppShowsStatus

-----------------------------------------------------------------------------
(* Induction, and functions defined by recursion.                          *)

\* A set of numbers that is not empty has a least element.
LEMMA Smallest ==
  ASSUME NEW T, T \subseteq Nat, T # {}
  PROVE  \E x \in T : \A y \in T : x <= y
<1> DEFINE R == OpToRel(<, Nat)
<1>1. IsWellFoundedOn(R, Nat)
  BY NatLessThanWellFounded
<1>2. \A x, y \in Nat : <<y, x>> \in R <=> y < x
  BY DEF OpToRel
<1> HIDE DEF R
<1>3. PICK x \in T : \A y \in T : <<y, x>> \notin R
  BY <1>1, WFMin
<1>4. ASSUME NEW y \in T PROVE x <= y
  <2>1. x \in Nat /\ y \in Nat
    OBVIOUS
  <2>2. ~(y < x)
    BY <1>2, <1>3, <2>1, Zenon
  <2> QED BY <2>1, <2>2
<1> QED BY <1>4

\* What holds of 0, and of n + 1 if it holds of n, holds of every number.
LEMMA Inductive ==
  ASSUME NEW S, 0 \in S, \A n \in Nat : n \in S => n + 1 \in S
  PROVE  Nat \subseteq S
<1> DEFINE T == Nat \ S
<1> SUFFICES ASSUME T # {} PROVE FALSE
  OBVIOUS
<1>1. PICK x \in T : \A y \in T : x <= y
  BY Smallest
<1>2. x \in Nat /\ x # 0 /\ x \notin S
  OBVIOUS
<1>3. x - 1 \in Nat /\ x - 1 < x /\ (x - 1) + 1 = x
  BY <1>2
<1>4. x - 1 \in S
  BY <1>1, <1>3
<1> QED BY <1>2, <1>3, <1>4

\* g is the run of F from d.
Runs(g, d, N, F) == g[0] = d /\ \A n \in 1 .. N : g[n] = F[g[n - 1]][n]

\* A step F of T, taken for 1 .. N in turn from d, gives a sequence in T.
LEMMA Folded ==
  ASSUME NEW T, NEW d \in T, NEW N \in Nat, NEW F \in [T -> [Nat -> T]]
  PROVE  \E g \in [0 .. N -> T] : Runs(g, d, N, F)
<1> DEFINE Good(g, k) == g[0] = d /\ \A n \in 1 .. k : g[n] = F[g[n - 1]][n]
           S == {k \in Nat : \E g \in [0 .. k -> T] : Good(g, k)}
<1>1. 0 \in S
  <2>1. [n \in 0 .. 0 |-> d] \in [0 .. 0 -> T] /\ Good([n \in 0 .. 0 |-> d], 0)
    OBVIOUS
  <2> QED BY <2>1
<1>2. ASSUME NEW k \in Nat, k \in S PROVE k + 1 \in S
  <2>1. PICK g \in [0 .. k -> T] : Good(g, k)
    BY <1>2
  <2> DEFINE h == [n \in 0 .. k + 1 |-> IF n = k + 1 THEN F[g[k]][k + 1] ELSE g[n]]
  <2>2. F[g[k]][k + 1] \in T
    <3>1. g[k] \in T /\ k + 1 \in Nat
      OBVIOUS
    <3> QED BY <3>1
  <2>3. h \in [0 .. k + 1 -> T]
    BY <2>2
  <2>4. h[0] = d
    BY <2>1
  <2>5. ASSUME NEW n \in 1 .. k + 1 PROVE h[n] = F[h[n - 1]][n]
    <3>1. CASE n = k + 1
      <4>1. h[n - 1] = g[k]
        BY <3>1
      <4> QED BY <3>1, <4>1
    <3>2. CASE n # k + 1
      <4>1. n \in 1 .. k /\ n - 1 \in 0 .. k + 1 /\ n - 1 # k + 1
        BY <3>2
      <4>2. h[n - 1] = g[n - 1] /\ h[n] = g[n]
        BY <3>2, <4>1
      <4> QED BY <2>1, <4>1, <4>2
    <3> QED BY <3>1, <3>2
  <2>6. Good(h, k + 1)
    BY <2>4, <2>5
  <2> HIDE DEF Good, h
  <2>7. \E f \in [0 .. k + 1 -> T] : Good(f, k + 1)
    BY <2>3, <2>6
  <2> QED BY <2>7
<1>3. Nat \subseteq S
  <2> HIDE DEF S
  <2> QED BY <1>1, <1>2, Inductive
<1> QED BY <1>3 DEF Runs

-----------------------------------------------------------------------------
(* Evidence.                                                               *)

\* Sets of episodes are finite.
LEMMA EpisodeSets ==
  ASSUME NEW T, T \subseteq Episodes
  PROVE  Cardinality(T) \in Nat /\ (Cardinality(T) = 0 <=> T = {})
<1>1. IsFiniteSet(Episodes)
  <2>1. 1 \in Int /\ Prompts \in Int
    BY ExperienceAssumption
  <2> QED BY <2>1, FS_Interval DEF Episodes
<1>2. IsFiniteSet(T)
  BY <1>1, FS_Subset
<1> QED BY <1>2, FS_CardinalityType, FS_EmptySet

\* Evidence is counted, and there is none without a correction.
LEMMA EvidenceCounted ==
  ASSUME NEW d, NEW c
  PROVE  /\ Support(d, c) \in Nat /\ Contradictions(d, c) \in Nat
         /\ Support(d, c) = 0 => \A e \in Episodes : d.correction[e][1] # c
<1> DEFINE P == {e \in Episodes : d.correction[e][1] = c}
           Q == {e \in Episodes : d.judged[e][c] = "supporting"}
           R == {e \in Episodes : d.judged[e][c] = "contradicting"}
<1>1. P \subseteq Episodes /\ Q \subseteq Episodes /\ R \subseteq Episodes
  OBVIOUS
<1>2. Support(d, c) = Cardinality(P) + Cardinality(Q) /\ Contradictions(d, c) = Cardinality(R)
  BY DEF Support, Contradictions
<1>3. P = {} => \A e \in Episodes : d.correction[e][1] # c
  OBVIOUS
<1> HIDE DEF P, Q, R
<1>4. Cardinality(P) \in Nat /\ (Cardinality(P) = 0 <=> P = {})
  BY <1>1, EpisodeSets
<1>5. Cardinality(Q) \in Nat /\ Cardinality(R) \in Nat
  BY <1>1, EpisodeSets
<1> QED BY <1>2, <1>3, <1>4, <1>5

\* Evidence for c is what the corrections and judgements say of c.
LEMMA SameEvidence ==
  ASSUME NEW d, NEW x, NEW c,
         \A e \in Episodes : (x.correction[e][1] = c) = (d.correction[e][1] = c),
         \A e \in Episodes : x.judged[e][c] = d.judged[e][c]
  PROVE  Support(x, c) = Support(d, c) /\ Contradictions(x, c) = Contradictions(d, c)
<1>1. {e \in Episodes : x.correction[e][1] = c} = {e \in Episodes : d.correction[e][1] = c}
  OBVIOUS
<1>2. {e \in Episodes : x.judged[e][c] = "supporting"}
        = {e \in Episodes : d.judged[e][c] = "supporting"}
  OBVIOUS
<1>3. {e \in Episodes : x.judged[e][c] = "contradicting"}
        = {e \in Episodes : d.judged[e][c] = "contradicting"}
  OBVIOUS
<1> QED BY <1>1, <1>2, <1>3 DEF Support, Contradictions

\* The fields of the tables.
LEMMA TablesFields ==
  ASSUME NEW d \in Tables
  PROVE  /\ d.status \in [Episodes -> {"none", "working", "delivered", "failed", "abandoned"}]
         /\ d.outcome \in [Episodes -> Outcomes \cup {NoOutcome}]
         /\ d.source \in [Episodes -> {"none", "user", "git_review"}]
         /\ d.candidate \in [Texts -> Candidates]
         /\ d.correction \in [Episodes -> (Texts \cup {NoText}) \X (Texts \cup {NoText})]
         /\ d.matched \in [Episodes -> SUBSET Texts]
         /\ d.applied \in [Episodes -> SUBSET Texts]
         /\ d.evaluation \in [Episodes -> Outcomes \cup {NoOutcome}]
         /\ d.judged \in [Episodes -> [Texts -> {"none", "supporting", "contradicting"}]]
BY DEF Tables

\* What nextEvidenceStatus does to a status.
LEMMA EvidenceStatusSays ==
  ASSUME NEW s \in Statuses, NEW n \in Nat, NEW m \in Nat
  PROVE  /\ EvidenceStatus(s, n, m) \in Statuses
         /\ EvidenceStatus(s, n, m) = "active" => s = "active" /\ n > 0 /\ n > m
         /\ s \in Reviewed => EvidenceStatus(s, n, m) \in Reviewed
         /\ s \in Dormant => EvidenceStatus(s, n, m) \in Dormant
         /\ s # "none" => EvidenceStatus(s, n, m) # "none"
BY DEF EvidenceStatus, Statuses, Reviewed, Dormant

\* Only the candidates change.
OnlyCandidates(d, x) ==
  /\ x.status = d.status /\ x.outcome = d.outcome /\ x.source = d.source
  /\ x.correction = d.correction /\ x.matched = d.matched /\ x.feedback = d.feedback
  /\ x.applied = d.applied /\ x.evaluation = d.evaluation /\ x.judged = d.judged
  /\ x.requested = d.requested

\* Recounting changes candidates of cs that are there.
LEMMA RecountedSays ==
  ASSUME NEW d \in Tables, NEW cs
  PROVE  /\ OnlyCandidates(d, Recounted(d, cs))
         /\ \A c \in Texts : Recounted(d, cs).candidate[c] =
              IF c \in cs /\ Exists(d, c) THEN RecountCandidate(d, c) ELSE d.candidate[c]
         /\ \A f : Recounted(d, cs).candidate \in [Texts -> f] <=>
                     \A c \in Texts : Recounted(d, cs).candidate[c] \in f
         /\ Recounted(d, cs).candidate \in [Texts -> Candidates] => Recounted(d, cs) \in Tables
<1> DEFINE f == [c \in Texts |-> IF c \in cs /\ Exists(d, c) THEN RecountCandidate(d, c)
                                 ELSE d.candidate[c]]
           x == [d EXCEPT !.candidate = f]
<1>1. Recounted(d, cs) = x
  BY DEF Recounted
<1>2. x.candidate = f
  BY DEF Tables
<1>3. OnlyCandidates(d, x)
  BY DEF OnlyCandidates, Tables
<1>4. x.candidate \in [Texts -> Candidates] => x \in Tables
  <2> HIDE DEF f
  <2> QED BY DEF Tables
<1>5. \A c \in Texts : f[c] = IF c \in cs /\ Exists(d, c) THEN RecountCandidate(d, c)
                              ELSE d.candidate[c]
  OBVIOUS
<1>6. \A g : f \in [Texts -> g] <=> \A c \in Texts : f[c] \in g
  OBVIOUS
<1> HIDE DEF f, x
<1> QED BY <1>1, <1>2, <1>3, <1>4, <1>5, <1>6

\* What recounting makes of a candidate.
LEMMA RecountCandidateSays ==
  ASSUME NEW d \in Tables, NEW c \in Texts, CandidateNamed(d, c), Exists(d, c)
  PROVE  LET r == RecountCandidate(d, c)
         IN  /\ r \in Candidates
             /\ r.fingerprint = d.candidate[c].fingerprint
             /\ d.candidate[c].status \in Reviewed => r.status \in Reviewed
             /\ d.candidate[c].status \in Dormant => r.status \in Dormant
             /\ Support(d, c) # 0 => r.status # "none"
             /\ r.status = "active" => Supported(d, c)
<1> DEFINE k == d.candidate[c]
           n == Support(d, c)
           m == Contradictions(d, c)
           r == RecountCandidate(d, c)
<1>1. k \in Candidates /\ k.status \in Statuses /\ k.fingerprint \in Texts \cup Edits
  BY TablesFields DEF Candidates
<1>2. n \in Nat /\ m \in Nat
  BY EvidenceCounted
<1>3. k.fingerprint # c => k.status \in Reviewed
  BY DEF CandidateNamed
<1>4. k.status # "none"
  BY DEF Exists
<1>5. Supported(d, c) <=> n > 0 /\ n > m
  BY DEF Supported
<1>6. r = IF n = 0 /\ k.status = "candidate" THEN [fingerprint |-> c, status |-> "none"]
          ELSE [k EXCEPT !.status = EvidenceStatus(k.status, n, m)]
  BY DEF RecountCandidate
<1> HIDE DEF k, n, m, r
<1>7. CASE n = 0 /\ k.status = "candidate"
  <2>1. r = [fingerprint |-> c, status |-> "none"]
    BY <1>6, <1>7
  <2>2. k.fingerprint = c
    BY <1>3, <1>7 DEF Reviewed
  <2>3. r \in Candidates
    BY <2>1 DEF Candidates, Statuses
  <2>4. r.fingerprint = c /\ r.status = "none"
    BY <2>1
  <2>5. k.status \notin Reviewed /\ k.status \notin Dormant
    BY <1>7 DEF Reviewed, Dormant
  <2> QED BY <1>5, <1>7, <2>2, <2>3, <2>4, <2>5 DEF k, n, r
<1>8. CASE ~(n = 0 /\ k.status = "candidate")
  <2> DEFINE t == EvidenceStatus(k.status, n, m)
  <2>1. r = [k EXCEPT !.status = t]
    BY <1>6, <1>8
  <2>2. /\ t \in Statuses
        /\ t = "active" => n > 0 /\ n > m
        /\ k.status \in Reviewed => t \in Reviewed
        /\ k.status \in Dormant => t \in Dormant
        /\ t # "none"
    BY <1>1, <1>2, <1>4, EvidenceStatusSays
  <2> HIDE DEF t
  <2>3. r \in Candidates /\ r.fingerprint = k.fingerprint /\ r.status = t
    BY <1>1, <2>1, <2>2 DEF Candidates
  <2> QED BY <1>5, <2>2, <2>3 DEF k, n, r
<1> QED BY <1>7, <1>8

\* Recounting keeps what is written of candidates, if it counts for all whose
\* evidence has changed.
LEMMA RecountedKeeps ==
  ASSUME NEW d \in Tables, NEW cs,
         \A c \in Texts : CandidateNamed(d, c),
         \A c \in Texts \ cs : d.candidate[c].status = "active" => Supported(d, c)
  PROVE  LET x == Recounted(d, cs)
         IN  /\ x \in Tables /\ OnlyCandidates(d, x)
             /\ \A c \in Texts :
                  /\ CandidateKept(x, c)
                  /\ x.candidate[c].fingerprint = d.candidate[c].fingerprint
                  /\ d.candidate[c].status \in Reviewed => x.candidate[c].status \in Reviewed
                  /\ d.candidate[c].status \in Dormant => x.candidate[c].status \in Dormant
                  /\ Exists(d, c) /\ Support(d, c) # 0 => Exists(x, c)
                  /\ c \notin cs => x.candidate[c] = d.candidate[c]
             /\ \A c : /\ Support(x, c) = Support(d, c)
                       /\ Contradictions(x, c) = Contradictions(d, c)
<1> DEFINE x == Recounted(d, cs)
<1>1. /\ OnlyCandidates(d, x)
      /\ \A c \in Texts : x.candidate[c] =
           IF c \in cs /\ Exists(d, c) THEN RecountCandidate(d, c) ELSE d.candidate[c]
      /\ x.candidate \in [Texts -> Candidates] <=> \A c \in Texts : x.candidate[c] \in Candidates
      /\ x.candidate \in [Texts -> Candidates] => x \in Tables
  BY RecountedSays
<1> HIDE DEF x
<1>2. \A c : Support(x, c) = Support(d, c) /\ Contradictions(x, c) = Contradictions(d, c)
  BY <1>1, SameEvidence DEF OnlyCandidates
<1>3. ASSUME NEW c \in Texts
      PROVE  /\ x.candidate[c] \in Candidates
             /\ CandidateKept(x, c)
             /\ x.candidate[c].fingerprint = d.candidate[c].fingerprint
             /\ d.candidate[c].status \in Reviewed => x.candidate[c].status \in Reviewed
             /\ d.candidate[c].status \in Dormant => x.candidate[c].status \in Dormant
             /\ Exists(d, c) /\ Support(d, c) # 0 => Exists(x, c)
             /\ c \notin cs => x.candidate[c] = d.candidate[c]
  <2>1. CandidateNamed(d, c)
    OBVIOUS
  <2>2. Supported(x, c) <=> Supported(d, c)
    BY <1>2 DEF Supported
  <2>3. CASE c \in cs /\ Exists(d, c)
    <3> DEFINE r == RecountCandidate(d, c)
    <3>1. x.candidate[c] = r
      BY <1>1, <2>3
    <3>2. /\ r \in Candidates
          /\ r.fingerprint = d.candidate[c].fingerprint
          /\ d.candidate[c].status \in Reviewed => r.status \in Reviewed
          /\ d.candidate[c].status \in Dormant => r.status \in Dormant
          /\ Support(d, c) # 0 => r.status # "none"
          /\ r.status = "active" => Supported(d, c)
      BY <2>1, <2>3, RecountCandidateSays
    <3> HIDE DEF r
    <3>3. CandidateKept(x, c)
      BY <2>1, <2>2, <3>1, <3>2 DEF CandidateKept, CandidateNamed
    <3> QED BY <2>3, <3>1, <3>2, <3>3 DEF Exists
  <2>4. CASE ~(c \in cs /\ Exists(d, c))
    <3>1. x.candidate[c] = d.candidate[c]
      BY <1>1, <2>4
    <3>2. d.candidate[c] \in Candidates
      BY TablesFields
    <3>3. x.candidate[c].status = "active" => Supported(x, c)
      <4>1. CASE c \in cs
        <5>1. c = NoText \/ d.candidate[c].status = "none"
          BY <2>4, <4>1 DEF Exists
        <5> QED BY <5>1, <3>1, ExperienceAssumption
      <4> QED BY <2>2, <3>1, <4>1
    <3> QED BY <2>1, <3>1, <3>2, <3>3 DEF CandidateKept, CandidateNamed, Exists
  <2> QED BY <2>3, <2>4
<1>4. x \in Tables
  BY <1>1, <1>3
<1> QED BY <1>1, <1>2, <1>3, <1>4 DEF x

-----------------------------------------------------------------------------
(* What reconciling and evaluating an episode do.                          *)

\* What a step of learning keeps, whose changes are to the candidates cs.
Onward(d, x, cs) ==
  /\ x.status = d.status /\ x.outcome = d.outcome /\ x.source = d.source
  /\ x.applied = d.applied
  /\ \A c \in Texts :
       /\ x.candidate[c].fingerprint = d.candidate[c].fingerprint
       /\ d.candidate[c].status \in Dormant => x.candidate[c].status \in Dormant
       /\ c \notin cs => /\ x.candidate[c] = d.candidate[c]
                         /\ Support(x, c) = Support(d, c)
                         /\ Contradictions(x, c) = Contradictions(d, c)

\* A correction goes to the candidate of its fingerprint, found or new.
LEMMA TargetIsWanted ==
  ASSUME NEW d, TablesKept(d), NEW e \in Episodes
  PROVE  Target(d, e) = Wanted(d, e) /\ Wanted(d, e) \in Texts \cup {NoText}
<1> DEFINE w == Wanted(d, e)
           holders == {c \in Texts : Exists(d, c) /\ d.candidate[c].fingerprint = w}
<1>1. d \in Tables /\ EpisodeKept(d, e) /\ \A c \in Texts : CandidateKept(d, c)
  BY DEF TablesKept
<1>2. w \in Texts \cup {NoText}
  <2>1. d.outcome[e] \in Outcomes \cup {NoOutcome}
    BY <1>1, TablesFields
  <2>2. CASE d.outcome[e] \in Revisions
    BY <2>2 DEF Wanted, Revisions
  <2>3. CASE d.outcome[e] \notin Revisions
    BY <2>1, <2>3 DEF Wanted, Outcomes, NoOutcome
  <2> QED BY <2>2, <2>3
<1>3. \A c \in holders : c = w
  <2> SUFFICES ASSUME NEW c \in holders PROVE c = w
    OBVIOUS
  <2>1. d.candidate[c].fingerprint \in {c} \cup Edits /\ d.candidate[c].fingerprint = w
    BY <1>1 DEF CandidateKept, CandidateNamed
  <2> QED BY <1>2, <2>1, ExperienceAssumption
<1>4. Target(d, e) = IF d.correction[e][2] = w /\ Exists(d, d.correction[e][1])
                     THEN d.correction[e][1]
                     ELSE IF holders # {} THEN CHOOSE c \in holders : TRUE ELSE w
  BY DEF Target
<1>5. d.correction[e][1] = d.correction[e][2]
  BY <1>1 DEF EpisodeKept
<1> HIDE DEF w, holders
<1>6. holders # {} => (CHOOSE c \in holders : TRUE) = w
  BY <1>3
<1>7. Target(d, e) = w
  BY <1>4, <1>5, <1>6
<1> QED BY <1>2, <1>7 DEF w

\* An insertion fails if the candidate of the fingerprint was edited since.
LEMMA CollidesSays ==
  ASSUME NEW d, TablesKept(d), NEW e \in Episodes
  PROVE  Collides(d, e) <=> /\ Wanted(d, e) \in Texts
                            /\ d.candidate[Wanted(d, e)].fingerprint # Wanted(d, e)
                            /\ d.correction[e][1] # Wanted(d, e)
<1> DEFINE w == Wanted(d, e)
           q == d.correction[e]
<1>1. d \in Tables /\ EpisodeKept(d, e) /\ \A c \in Texts : CandidateKept(d, c)
  BY DEF TablesKept
<1>2. Target(d, e) = w /\ w \in Texts \cup {NoText}
  BY TargetIsWanted
<1>3. q \in (Texts \cup {NoText}) \X (Texts \cup {NoText}) /\ q[1] = q[2]
  BY <1>1, TablesFields DEF EpisodeKept
<1>4. q # <<w, w>> <=> q[1] # w
  BY <1>3
<1>5. w \in Texts /\ d.candidate[w].fingerprint # w => Exists(d, w)
  BY <1>1, ExperienceAssumption DEF CandidateKept, CandidateNamed, Exists, Reviewed
<1>6. Collides(d, e) <=> /\ w # NoText /\ Target(d, e) = w /\ Exists(d, w)
                         /\ d.candidate[w].fingerprint # w /\ q # <<w, w>>
  BY DEF Collides
<1>7. w \in Texts <=> w # NoText
  BY <1>2, ExperienceAssumption
<1> HIDE DEF w, q
<1>8. Collides(d, e) <=> w \in Texts /\ d.candidate[w].fingerprint # w /\ q[1] # w
  BY <1>2, <1>4, <1>5, <1>6, <1>7
<1> QED BY <1>8 DEF w, q

\* Reconciling makes the correction the one wanted, and touches no other.
LEMMA ReconciledKeeps ==
  ASSUME NEW d, TablesKept(d), NEW e \in Episodes
  PROVE  LET x == Reconciled(d, e)
         IN  /\ TablesKept(x) /\ Onward(d, x, Affected(d, e))
             /\ x.correction = [d.correction EXCEPT ![e] = <<Wanted(d, e), Wanted(d, e)>>]
             /\ x.evaluation = d.evaluation /\ x.judged = d.judged
<1> DEFINE w == Wanted(d, e)
           cs == Affected(d, e)
           corr == [d.correction EXCEPT ![e] = <<w, w>>]
           moved == [d EXCEPT !.correction = corr]
           y == IF w = NoText \/ Exists(d, w) THEN moved
                ELSE [moved EXCEPT !.candidate[w].status = "candidate"]
           x == Recounted(y, cs)
<1>1. d \in Tables /\ (\A f \in Episodes : EpisodeKept(d, f)) /\ \A c \in Texts : CandidateKept(d, c)
  BY DEF TablesKept
<1>2. Target(d, e) = w /\ w \in Texts \cup {NoText}
  BY TargetIsWanted
<1>3. Reconciled(d, e) = x
  <2>1. [d EXCEPT !.correction[e] = IF w = NoText THEN <<NoText, NoText>> ELSE <<w, w>>] = moved
    OBVIOUS
  <2> QED BY <1>2, <2>1 DEF Reconciled
<1>4. cs = ({d.correction[e][1]} \cup (IF w = NoText THEN {} ELSE {w})) \ {NoText}
  BY <1>2 DEF Affected
<1>5. /\ d.candidate \in [Texts -> Candidates]
      /\ d.correction \in [Episodes -> (Texts \cup {NoText}) \X (Texts \cup {NoText})]
  BY <1>1, TablesFields
<1>6. corr \in [Episodes -> (Texts \cup {NoText}) \X (Texts \cup {NoText})]
  BY <1>2, <1>5
<1>7. /\ \A f \in Episodes : f # e => corr[f] = d.correction[f]
      /\ corr[e] = <<w, w>>
  BY <1>5
<1> HIDE DEF w, cs, corr
<1> DEFINE new == ~(w = NoText \/ Exists(d, w))
           cand == IF new THEN [d.candidate EXCEPT ![w].status = "candidate"] ELSE d.candidate
<1>8. /\ y \in Tables /\ y.correction = corr /\ y.candidate = cand
      /\ y.status = d.status /\ y.outcome = d.outcome /\ y.source = d.source
      /\ y.applied = d.applied /\ y.evaluation = d.evaluation /\ y.judged = d.judged
  <2>1. /\ moved \in Tables /\ moved.correction = corr /\ moved.candidate = d.candidate
        /\ moved.status = d.status /\ moved.outcome = d.outcome /\ moved.source = d.source
        /\ moved.applied = d.applied /\ moved.evaluation = d.evaluation
        /\ moved.judged = d.judged
    BY <1>1, <1>6 DEF Tables
  <2> HIDE DEF moved
  <2>2. CASE ~new
    BY <2>1, <2>2
  <2>3. CASE new
    <3>1. w \in Texts
      BY <1>2, <2>3
    <3>2. cand \in [Texts -> Candidates]
      BY <1>5, <2>3, <3>1 DEF Candidates, Statuses
    <3>3. y = [moved EXCEPT !.candidate = cand]
      BY <2>1, <2>3
    <3> HIDE DEF cand, y
    <3> QED BY <2>1, <3>2, <3>3 DEF Tables
  <2> QED BY <2>2, <2>3
<1> HIDE DEF y
<1>9. ASSUME NEW c \in Texts
      PROVE  /\ CandidateNamed(y, c)
             /\ y.candidate[c].fingerprint = d.candidate[c].fingerprint
             /\ d.candidate[c].status \in Reviewed => y.candidate[c] = d.candidate[c]
             /\ Exists(d, c) \/ c = w => Exists(y, c)
             /\ c # w => y.candidate[c] = d.candidate[c]
  <2>1. CandidateNamed(d, c) /\ d.candidate[c] \in Candidates
    BY <1>1, <1>5 DEF CandidateKept
  <2>2. CASE new /\ c = w
    <3>1. d.candidate[c].status = "none"
      BY <2>2 DEF Exists
    <3>2. y.candidate[c] = [d.candidate[c] EXCEPT !.status = "candidate"]
      BY <1>5, <1>8, <2>2
    <3>3. y.candidate[c].fingerprint = d.candidate[c].fingerprint
          /\ y.candidate[c].status = "candidate"
      BY <2>1, <3>2 DEF Candidates
    <3> QED BY <2>1, <2>2, <3>1, <3>3, ExperienceAssumption DEF CandidateNamed, Exists, Reviewed
  <2>3. CASE ~(new /\ c = w)
    <3>1. y.candidate[c] = d.candidate[c]
      BY <1>5, <1>8, <2>3
    <3>2. c = w => Exists(d, c)
      BY <2>3, ExperienceAssumption
    <3> QED BY <2>1, <3>1, <3>2 DEF CandidateNamed, Exists
  <2> QED BY <2>2, <2>3
<1>10. ASSUME NEW c \in Texts, c \notin cs
       PROVE  Support(y, c) = Support(d, c) /\ Contradictions(y, c) = Contradictions(d, c) /\ c # w
  <2>1. c # w /\ d.correction[e][1] # c
    BY <1>2, <1>4, <1>10, ExperienceAssumption
  <2>2. \A f \in Episodes : (y.correction[f][1] = c) = (d.correction[f][1] = c)
    BY <1>7, <1>8, <2>1
  <2> QED BY <1>8, <2>1, <2>2, SameEvidence
<1>11. ASSUME NEW c \in Texts \ cs, y.candidate[c].status = "active" PROVE Supported(y, c)
  <2>1. d.candidate[c].status = "active"
    BY <1>9, <1>10, <1>11
  <2>2. Supported(d, c)
    BY <1>1, <2>1 DEF CandidateKept
  <2> QED BY <1>10, <2>2 DEF Supported
<1>12. /\ x \in Tables /\ OnlyCandidates(y, x)
       /\ \A c \in Texts :
            /\ CandidateKept(x, c)
            /\ x.candidate[c].fingerprint = y.candidate[c].fingerprint
            /\ y.candidate[c].status \in Reviewed => x.candidate[c].status \in Reviewed
            /\ y.candidate[c].status \in Dormant => x.candidate[c].status \in Dormant
            /\ Exists(y, c) /\ Support(y, c) # 0 => Exists(x, c)
            /\ c \notin cs => x.candidate[c] = y.candidate[c]
       /\ \A c : Support(x, c) = Support(y, c) /\ Contradictions(x, c) = Contradictions(y, c)
  BY <1>8, <1>9, <1>11, RecountedKeeps
<1> HIDE DEF x
<1>13. ASSUME NEW f \in Episodes PROVE EpisodeKept(x, f)
  <2>1. x.correction = corr /\ x.outcome = d.outcome /\ x.applied = d.applied /\ x.status = d.status
    BY <1>8, <1>12 DEF OnlyCandidates
  <2>2. EpisodeKept(d, f)
    BY <1>1
  <2>3. corr[f][1] = corr[f][2] /\ corr[f][1] \in Texts \cup {NoText}
    BY <1>2, <1>7, <1>5, <2>2 DEF EpisodeKept
  <2>4. ASSUME corr[f][1] # NoText PROVE Exists(x, corr[f][1])
    <3> DEFINE c == corr[f][1]
    <3>1. c \in Texts
      BY <2>3, <2>4
    <3>2. Exists(d, c) \/ c = w
      BY <1>7, <2>2, <2>4 DEF EpisodeKept
    <3>3. Exists(y, c)
      BY <1>9, <3>1, <3>2
    <3>4. Support(y, c) # 0
      BY <1>8, EvidenceCounted
    <3> HIDE DEF c
    <3>5. Exists(x, c)
      BY <1>12, <3>1, <3>3, <3>4
    <3> QED BY <3>5 DEF c
  <2>5. ASSUME d.outcome[f] = NoOutcome PROVE corr[f][1] = NoText
    <3>1. d.correction[f][1] = NoText
      BY <2>2, <2>5 DEF EpisodeKept
    <3>2. f = e => w = NoText
      BY <2>5 DEF w, Wanted, NoOutcome
    <3> QED BY <1>7, <3>1, <3>2
  <2>6. ASSUME NEW c \in d.applied[f] PROVE x.candidate[c].status \in Reviewed
    <3>1. c \in Texts
      BY <1>1, TablesFields
    <3>2. d.candidate[c].status \in Reviewed
      BY <2>2 DEF EpisodeKept
    <3> QED BY <1>9, <1>12, <3>1, <3>2
  <2>7. d.status[f] = "none" => d.outcome[f] = NoOutcome
    BY <2>2 DEF EpisodeKept
  <2> QED BY <2>1, <2>3, <2>4, <2>5, <2>6, <2>7 DEF EpisodeKept
<1>14. TablesKept(x)
  BY <1>12, <1>13 DEF TablesKept
<1>15. Onward(d, x, cs)
  <2>1. x.status = d.status /\ x.outcome = d.outcome /\ x.source = d.source /\ x.applied = d.applied
    BY <1>8, <1>12 DEF OnlyCandidates
  <2>2. ASSUME NEW c \in Texts
        PROVE  /\ x.candidate[c].fingerprint = d.candidate[c].fingerprint
               /\ d.candidate[c].status \in Dormant => x.candidate[c].status \in Dormant
    <3>1. d.candidate[c].status \in Dormant => d.candidate[c].status \in Reviewed
      BY DEF Dormant, Reviewed
    <3> QED BY <1>9, <1>12, <3>1
  <2>3. ASSUME NEW c \in Texts, c \notin cs
        PROVE  /\ x.candidate[c] = d.candidate[c]
               /\ Support(x, c) = Support(d, c)
               /\ Contradictions(x, c) = Contradictions(d, c)
    BY <1>9, <1>10, <1>12, <2>3
  <2> QED BY <2>1, <2>2, <2>3 DEF Onward
<1>16. x.correction = corr /\ x.evaluation = d.evaluation /\ x.judged = d.judged
  BY <1>8, <1>12 DEF OnlyCandidates
<1> QED BY <1>3, <1>14, <1>15, <1>16 DEF x, cs, corr, w

\* Evaluating makes the evidence of an episode agree with its outcome, and
\* touches that of no other.
LEMMA EvaluatedKeeps ==
  ASSUME NEW d, TablesKept(d), NEW e \in Episodes
  PROVE  LET x == Evaluated(d, e)
         IN  /\ TablesKept(x) /\ Onward(d, x, d.applied[e])
             /\ x.correction = d.correction
             /\ \A f \in Episodes \ {e} : x.evaluation[f] = d.evaluation[f]
                                          /\ x.judged[f] = d.judged[f]
             /\ EvaluationRight(x, e)
<1> DEFINE cs == d.applied[e]
           present == {c \in cs : Exists(d, c)}
           effect == IF d.outcome[e][1] = "accepted" THEN "supporting" ELSE "contradicting"
           verdicts == [c \in Texts |-> IF c \in cs THEN effect ELSE d.judged[e][c]]
           evaluation == [d.evaluation EXCEPT ![e] = d.outcome[e]]
           judged == [d.judged EXCEPT ![e] = verdicts]
           y == [d EXCEPT !.evaluation = evaluation, !.judged = judged]
           x == Recounted(y, cs)
<1>1. d \in Tables /\ (\A f \in Episodes : EpisodeKept(d, f)) /\ \A c \in Texts : CandidateKept(d, c)
  BY DEF TablesKept
<1>2. /\ cs \subseteq Texts
      /\ d.outcome[e] \in Outcomes \cup {NoOutcome}
      /\ d.evaluation \in [Episodes -> Outcomes \cup {NoOutcome}]
      /\ d.judged \in [Episodes -> [Texts -> {"none", "supporting", "contradicting"}]]
      /\ d.candidate \in [Texts -> Candidates]
  BY <1>1, TablesFields
<1>3. present = cs
  <2>1. ASSUME NEW c \in cs PROVE Exists(d, c)
    <3>1. d.candidate[c].status \in Reviewed
      BY <1>1 DEF EpisodeKept
    <3> QED BY <1>2, <3>1, ExperienceAssumption DEF Exists, Reviewed
  <2> QED BY <2>1
<1>4. CASE cs = {} \/ d.outcome[e] = NoOutcome
  <2>1. Evaluated(d, e) = d
    BY <1>4 DEF Evaluated
  <2>2. Onward(d, d, cs)
    BY DEF Onward
  <2>3. EvaluationRight(d, e)
    BY <1>4 DEF EvaluationRight
  <2> QED BY <2>1, <2>2, <2>3
<1>5. CASE ~(cs = {} \/ d.outcome[e] = NoOutcome)
  <2>1. Evaluated(d, e) = x
    <3>1. [d EXCEPT !.evaluation[e] = d.outcome[e],
                    !.judged[e] = [c \in Texts |-> IF c \in present THEN effect ELSE @[c]]] = y
      BY <1>3
    <3> HIDE DEF y, effect
    <3> QED BY <1>3, <1>5, <3>1 DEF Evaluated, effect
  <2>2. evaluation \in [Episodes -> Outcomes \cup {NoOutcome}]
    BY <1>2
  <2>3. verdicts \in [Texts -> {"none", "supporting", "contradicting"}]
    BY <1>2
  <2>4. \A c \in Texts : verdicts[c] = IF c \in cs THEN effect ELSE d.judged[e][c]
    OBVIOUS
  <2> HIDE DEF verdicts
  <2>5. judged \in [Episodes -> [Texts -> {"none", "supporting", "contradicting"}]]
    BY <1>2, <2>3
  <2>6. /\ evaluation[e] = d.outcome[e] /\ judged[e] = verdicts
        /\ \A f \in Episodes \ {e} : evaluation[f] = d.evaluation[f] /\ judged[f] = d.judged[f]
    BY <1>2
  <2> HIDE DEF evaluation, judged, cs
  <2>7. /\ y \in Tables /\ y.evaluation = evaluation /\ y.judged = judged
        /\ y.candidate = d.candidate /\ y.correction = d.correction
        /\ y.status = d.status /\ y.outcome = d.outcome /\ y.source = d.source
        /\ y.applied = d.applied
    BY <1>1, <2>2, <2>5 DEF Tables
  <2> HIDE DEF y
  <2>8. ASSUME NEW c \in Texts, c \notin cs
        PROVE  Support(y, c) = Support(d, c) /\ Contradictions(y, c) = Contradictions(d, c)
    <3>1. \A f \in Episodes : y.judged[f][c] = d.judged[f][c]
      BY <2>4, <2>6, <2>7, <2>8
    <3>2. \A f \in Episodes : (y.correction[f][1] = c) = (d.correction[f][1] = c)
      BY <2>7
    <3> QED BY <3>1, <3>2, SameEvidence
  <2>9. \A c \in Texts : CandidateNamed(y, c)
    BY <1>1, <2>7 DEF CandidateKept, CandidateNamed
  <2>10. ASSUME NEW c \in Texts \ cs, y.candidate[c].status = "active" PROVE Supported(y, c)
    BY <1>1, <2>7, <2>8, <2>10 DEF CandidateKept, Supported
  <2>11. /\ x \in Tables /\ OnlyCandidates(y, x)
         /\ \A c \in Texts :
              /\ CandidateKept(x, c)
              /\ x.candidate[c].fingerprint = y.candidate[c].fingerprint
              /\ y.candidate[c].status \in Reviewed => x.candidate[c].status \in Reviewed
              /\ y.candidate[c].status \in Dormant => x.candidate[c].status \in Dormant
              /\ Exists(y, c) /\ Support(y, c) # 0 => Exists(x, c)
              /\ c \notin cs => x.candidate[c] = y.candidate[c]
         /\ \A c : Support(x, c) = Support(y, c) /\ Contradictions(x, c) = Contradictions(y, c)
    BY <2>7, <2>9, <2>10, RecountedKeeps
  <2> HIDE DEF x
  <2>12. /\ x.status = d.status /\ x.outcome = d.outcome /\ x.source = d.source
         /\ x.applied = d.applied /\ x.correction = d.correction
         /\ x.evaluation = evaluation /\ x.judged = judged
    BY <2>7, <2>11 DEF OnlyCandidates
  <2>13. ASSUME NEW f \in Episodes PROVE EpisodeKept(x, f)
    <3>1. EpisodeKept(d, f)
      BY <1>1
    <3>2. ASSUME d.correction[f][1] # NoText PROVE Exists(x, d.correction[f][1])
      <4> DEFINE c == d.correction[f][1]
      <4>1. Exists(y, c)
        BY <2>7, <3>1, <3>2 DEF EpisodeKept, Exists
      <4>2. Support(y, c) # 0
        BY <2>7, EvidenceCounted
      <4>3. c \in Texts
        BY <1>1, <3>2, TablesFields
      <4> HIDE DEF c
      <4>4. Exists(x, c)
        BY <2>11, <4>1, <4>2, <4>3
      <4> QED BY <4>4 DEF c
    <3>3. ASSUME NEW c \in d.applied[f] PROVE x.candidate[c].status \in Reviewed
      <4>1. c \in Texts
        BY <1>1, TablesFields
      <4> QED BY <2>7, <2>11, <3>1, <4>1 DEF EpisodeKept
    <3> QED BY <2>12, <3>1, <3>2, <3>3 DEF EpisodeKept
  <2>14. TablesKept(x)
    BY <2>11, <2>13 DEF TablesKept
  <2>15. Onward(d, x, cs)
    BY <2>7, <2>8, <2>11, <2>12 DEF Onward
  <2>16. EvaluationRight(x, e)
    <3>1. \A c \in cs : judged[e][c] = effect
      BY <1>2, <2>4, <2>6 DEF cs
    <3> QED BY <2>6, <2>12, <3>1 DEF EvaluationRight, cs
  <2> QED BY <2>1, <2>6, <2>12, <2>14, <2>15, <2>16 DEF cs
<1> QED BY <1>4, <1>5

-----------------------------------------------------------------------------
(* What backfill does.                                                     *)

\* Steps of learning follow one another.
LEMMA OnwardBoth ==
  ASSUME NEW d, NEW x, NEW y, NEW cs, Onward(d, x, Texts), Onward(x, y, cs)
  PROVE  Onward(d, y, Texts)
BY DEF Onward

\* A step of learning changes nothing users have said.
LEMMA OnwardWanted ==
  ASSUME NEW d, NEW x, NEW cs, Onward(d, x, cs)
  PROVE  \A e \in Episodes : Wanted(x, e) = Wanted(d, e)
BY DEF Onward, Wanted

\* A step of reconciling all.
ReconcileStep(x, n) ==
  IF x.outcome[n] = NoOutcome \/ Collides(x, n) THEN x ELSE Reconciled(x, n)

\* The tables learning can be in.
KeptTables == {t \in Tables : TablesKept(t)}

\* The episodes are reconciled one after the other.
LEMMA ReconciledRuns ==
  ASSUME NEW d, TablesKept(d), NEW order \in Orders
  PROVE  \E h : /\ h[0] = d /\ ReconciledAll(d, order) = h[Prompts]
                /\ \A n \in Episodes : h[n] = ReconcileStep(h[n - 1], order[n])
<1> DEFINE Body(h) == [n \in 0 .. Prompts |-> IF n = 0 THEN d ELSE ReconcileStep(h[n - 1], order[n])]
           F == [x \in KeptTables |-> [n \in Nat |-> IF n \in Episodes THEN ReconcileStep(x, order[n]) ELSE x]]
<1>1. ReconciledAll(d, order) = (CHOOSE h : h = Body(h))[Prompts]
  BY DEF ReconciledAll, ReconcileStep
<1>2. ASSUME NEW x \in KeptTables, NEW n \in Episodes PROVE ReconcileStep(x, n) \in KeptTables
  <2>1. TablesKept(Reconciled(x, n))
    BY ReconciledKeeps DEF KeptTables
  <2> QED BY <2>1 DEF KeptTables, ReconcileStep, TablesKept
<1>3. F \in [KeptTables -> [Nat -> KeptTables]]
  <2>1. \A n \in Episodes : order[n] \in Episodes
    BY DEF Orders
  <2> QED BY <1>2, <2>1
<1>4. d \in KeptTables /\ Prompts \in Nat
  BY ExperienceAssumption DEF KeptTables, TablesKept
<1>5. \A x \in KeptTables, n \in Episodes : F[x][n] = ReconcileStep(x, order[n])
  BY DEF Episodes
<1> HIDE DEF F
<1>6. PICK g \in [0 .. Prompts -> KeptTables] : Runs(g, d, Prompts, F)
  <2>1. d \in KeptTables
    BY <1>4
  <2>2. Prompts \in Nat
    BY <1>4
  <2> QED BY <1>3, <2>1, <2>2, Folded
<1>7. g = Body(g)
  <2>1. ASSUME NEW n \in 0 .. Prompts, n # 0 PROVE g[n] = ReconcileStep(g[n - 1], order[n])
    <3>1. n \in 1 .. Prompts /\ n - 1 \in 0 .. Prompts
      BY <1>4, <2>1
    <3>2. n \in Episodes /\ g[n - 1] \in KeptTables
      BY <3>1 DEF Episodes
    <3> QED BY <1>5, <1>6, <3>1, <3>2 DEF Runs
  <2> QED BY <1>6, <2>1 DEF Runs
<1> DEFINE h == CHOOSE f : f = Body(f)
<1>8. h = Body(h)
  <2> HIDE DEF Body
  <2> QED BY <1>7
<1>9. ReconciledAll(d, order) = h[Prompts]
  BY <1>1
<1> HIDE DEF h
<1>10. h[0] = d
  BY <1>4, <1>8
<1>11. ASSUME NEW n \in Episodes PROVE h[n] = ReconcileStep(h[n - 1], order[n])
  <2>1. n \in 0 .. Prompts /\ n # 0
    BY <1>4 DEF Episodes
  <2>2. Body(h)[n] = ReconcileStep(h[n - 1], order[n])
    BY <2>1
  <2> QED BY <1>8, <2>2
<1> QED BY <1>9, <1>10, <1>11

\* The episodes are evaluated one after the other.
LEMMA BackfilledRuns ==
  ASSUME NEW d, TablesKept(d), NEW order \in Orders
  PROVE  \E h : /\ h[0] = d /\ Backfilled(d, order) = h[Prompts]
                /\ \A n \in Episodes : h[n] = Evaluated(h[n - 1], order[n])
<1> DEFINE Body(h) == [n \in 0 .. Prompts |-> IF n = 0 THEN d ELSE Evaluated(h[n - 1], order[n])]
           F == [x \in KeptTables |-> [n \in Nat |-> IF n \in Episodes THEN Evaluated(x, order[n]) ELSE x]]
<1>1. Backfilled(d, order) = (CHOOSE h : h = Body(h))[Prompts]
  BY DEF Backfilled
<1>2. ASSUME NEW x \in KeptTables, NEW n \in Episodes PROVE Evaluated(x, n) \in KeptTables
  <2>1. TablesKept(Evaluated(x, n))
    BY EvaluatedKeeps DEF KeptTables
  <2> QED BY <2>1 DEF KeptTables, TablesKept
<1>3. F \in [KeptTables -> [Nat -> KeptTables]]
  <2>1. \A n \in Episodes : order[n] \in Episodes
    BY DEF Orders
  <2> QED BY <1>2, <2>1
<1>4. d \in KeptTables /\ Prompts \in Nat
  BY ExperienceAssumption DEF KeptTables, TablesKept
<1>5. \A x \in KeptTables, n \in Episodes : F[x][n] = Evaluated(x, order[n])
  BY DEF Episodes
<1> HIDE DEF F
<1>6. PICK g \in [0 .. Prompts -> KeptTables] : Runs(g, d, Prompts, F)
  <2>1. d \in KeptTables
    BY <1>4
  <2>2. Prompts \in Nat
    BY <1>4
  <2> QED BY <1>3, <2>1, <2>2, Folded
<1>7. g = Body(g)
  <2>1. ASSUME NEW n \in 0 .. Prompts, n # 0 PROVE g[n] = Evaluated(g[n - 1], order[n])
    <3>1. n \in 1 .. Prompts /\ n - 1 \in 0 .. Prompts
      BY <1>4, <2>1
    <3>2. n \in Episodes /\ g[n - 1] \in KeptTables
      BY <3>1 DEF Episodes
    <3> QED BY <1>5, <1>6, <3>1, <3>2 DEF Runs
  <2> QED BY <1>6, <2>1 DEF Runs
<1> DEFINE h == CHOOSE f : f = Body(f)
<1>8. h = Body(h)
  <2> HIDE DEF Body
  <2> QED BY <1>7
<1>9. Backfilled(d, order) = h[Prompts]
  BY <1>1
<1> HIDE DEF h
<1>10. h[0] = d
  BY <1>4, <1>8
<1>11. ASSUME NEW n \in Episodes PROVE h[n] = Evaluated(h[n - 1], order[n])
  <2>1. n \in 0 .. Prompts /\ n # 0
    BY <1>4 DEF Episodes
  <2>2. Body(h)[n] = Evaluated(h[n - 1], order[n])
    BY <2>1
  <2> QED BY <1>8, <2>2
<1> QED BY <1>9, <1>10, <1>11

\* The first n episodes of an order.
Past(order, n) == {order[i] : i \in 1 .. n}

\* An order goes through all episodes.
LEMMA PastSays ==
  ASSUME NEW order \in Orders
  PROVE  /\ Past(order, 0) = {}
         /\ Past(order, Prompts) = Episodes
         /\ \A n \in Nat : \A e : e \in Past(order, n + 1) <=>
                                  e = order[n + 1] \/ e \in Past(order, n)
<1>1. Prompts \in Nat /\ Episodes = 1 .. Prompts
  BY ExperienceAssumption DEF Episodes
<1>2. Past(order, 0) = {}
  BY DEF Past
<1>3. Past(order, Prompts) = Episodes
  <2>1. order \in [Episodes -> Episodes] /\ \A e \in Episodes : \E n \in Episodes : order[n] = e
    BY DEF Orders
  <2> QED BY <1>1, <2>1 DEF Past
<1>4. ASSUME NEW n \in Nat, NEW e
      PROVE  e \in Past(order, n + 1) <=> e = order[n + 1] \/ e \in Past(order, n)
  <2>1. 1 .. (n + 1) = (1 .. n) \cup {n + 1}
    OBVIOUS
  <2> QED BY <2>1 DEF Past
<1> QED BY <1>2, <1>3, <1>4

\* Without a failing insertion, every correction is right once all episodes
\* were reconciled, and the failing insertions are none.
LEMMA ReconciledAllKeeps ==
  ASSUME NEW d, TablesKept(d), NEW order \in Orders, \A e \in Episodes : ~Collides(d, e)
  PROVE  LET x == ReconciledAll(d, order)
         IN  /\ TablesKept(x) /\ Onward(d, x, Texts)
             /\ \A e \in Episodes : CorrectionRight(x, e)
<1>1. PICK h : /\ h[0] = d /\ ReconciledAll(d, order) = h[Prompts]
               /\ \A n \in Episodes : h[n] = ReconcileStep(h[n - 1], order[n])
  BY ReconciledRuns
<1> DEFINE Done(n) == /\ TablesKept(h[n]) /\ Onward(d, h[n], Texts)
                      /\ \A e \in Episodes : ~Collides(h[n], e)
                                             /\ (e \in Past(order, n) => CorrectionRight(h[n], e))
           S == {n \in Nat : n <= Prompts => Done(n)}
<1>2. Prompts \in Nat /\ Episodes = 1 .. Prompts
  BY ExperienceAssumption DEF Episodes
<1>3. Done(0)
  <2>1. Onward(d, d, Texts)
    BY DEF Onward
  <2> QED BY <1>1, <1>2, <2>1, PastSays
<1>4. ASSUME NEW n \in Nat, Done(n), n + 1 <= Prompts PROVE Done(n + 1)
  <2> DEFINE x == h[n]
             y == h[n + 1]
             m == order[n + 1]
  <2>1. m \in Episodes /\ y = ReconcileStep(x, m)
    <3>1. n + 1 \in Episodes /\ (n + 1) - 1 = n
      BY <1>2, <1>4
    <3> QED BY <1>1, <3>1 DEF Orders
  <2>2. TablesKept(x) /\ Onward(d, x, Texts)
        /\ \A e \in Episodes : ~Collides(x, e) /\ (e \in Past(order, n) => CorrectionRight(x, e))
    BY <1>4
  <2> HIDE DEF x, y, m
  <2>3. \A e : e \in Past(order, n + 1) <=> e = m \/ e \in Past(order, n)
    BY PastSays DEF m
  <2>4. CASE x.outcome[m] = NoOutcome
    <3>1. y = x
      BY <2>1, <2>4 DEF ReconcileStep
    <3>2. CorrectionRight(x, m)
      <4>1. x.correction[m][1] = NoText
        BY <2>1, <2>2, <2>4 DEF TablesKept, EpisodeKept
      <4>2. Wanted(x, m) = NoText
        BY <2>4 DEF Wanted, NoOutcome
      <4> QED BY <4>1, <4>2 DEF CorrectionRight
    <3>3. \A e \in Episodes : e \in Past(order, n + 1) => CorrectionRight(x, e)
      BY <2>2, <2>3, <3>2
    <3> QED BY <2>2, <3>1, <3>3 DEF x, y
  <2>5. CASE x.outcome[m] # NoOutcome
    <3> DEFINE w == Wanted(x, m)
    <3>1. y = Reconciled(x, m)
      BY <2>1, <2>2, <2>5 DEF ReconcileStep
    <3>2. /\ TablesKept(y) /\ Onward(x, y, Affected(x, m))
          /\ y.correction = [x.correction EXCEPT ![m] = <<w, w>>]
      BY <2>1, <2>2, <3>1, ReconciledKeeps
    <3>3. Onward(d, y, Texts)
      BY <2>2, <3>2, OnwardBoth
    <3>4. \A e \in Episodes : Wanted(y, e) = Wanted(x, e)
      BY <3>2, OnwardWanted
    <3>5. x.correction \in [Episodes -> (Texts \cup {NoText}) \X (Texts \cup {NoText})]
      BY <2>2, TablesFields DEF TablesKept
    <3>6. /\ \A e \in Episodes : e # m => y.correction[e] = x.correction[e]
          /\ y.correction[m][1] = w
      BY <2>1, <3>2, <3>5
    <3>7. ASSUME NEW e \in Episodes PROVE ~Collides(y, e)
      <4>1. CASE e = m
        <5>1. y.correction[e][1] = Wanted(y, e)
          BY <3>4, <3>6, <4>1
        <5> QED BY <3>2, <5>1, CollidesSays
      <4>2. CASE e # m
        <5>1. y.correction[e][1] = x.correction[e][1] /\ Wanted(y, e) = Wanted(x, e)
          BY <3>4, <3>6, <4>2
        <5>2. Wanted(x, e) \in Texts =>
                y.candidate[Wanted(x, e)].fingerprint = x.candidate[Wanted(x, e)].fingerprint
          BY <3>2 DEF Onward
        <5>3. ~Collides(x, e)
          BY <2>2
        <5>4. ~(/\ Wanted(x, e) \in Texts
                /\ x.candidate[Wanted(x, e)].fingerprint # Wanted(x, e)
                /\ x.correction[e][1] # Wanted(x, e))
          BY <2>2, <5>3, CollidesSays
        <5>5. ~(/\ Wanted(y, e) \in Texts
                /\ y.candidate[Wanted(y, e)].fingerprint # Wanted(y, e)
                /\ y.correction[e][1] # Wanted(y, e))
          BY <5>1, <5>2, <5>4
        <5> QED BY <3>2, <5>5, CollidesSays
      <4> QED BY <4>1, <4>2
    <3>8. ASSUME NEW e \in Episodes, e \in Past(order, n + 1) PROVE CorrectionRight(y, e)
      <4>1. CASE e = m
        BY <3>4, <3>6, <4>1 DEF CorrectionRight
      <4>2. CASE e # m
        <5>1. e \in Past(order, n)
          BY <2>3, <3>8, <4>2
        <5> QED BY <2>2, <3>4, <3>6, <4>2, <5>1 DEF CorrectionRight
      <4> QED BY <4>1, <4>2
    <3> QED BY <3>2, <3>3, <3>7, <3>8 DEF y
  <2> QED BY <2>4, <2>5
<1>5. Nat \subseteq S
  <2> HIDE DEF Done
  <2>1. 0 \in S
    BY <1>3
  <2>2. ASSUME NEW n \in Nat, n \in S PROVE n + 1 \in S
    BY <1>2, <1>4, <2>2
  <2> HIDE DEF S
  <2> QED BY <2>1, <2>2, Inductive
<1>6. Done(Prompts)
  <2> HIDE DEF Done
  <2> QED BY <1>2, <1>5
<1>7. Episodes = Past(order, Prompts)
  BY PastSays
<1> QED BY <1>1, <1>6, <1>7

\* Once all episodes were evaluated, the evidence of each agrees with its outcome.
LEMMA BackfilledKeeps ==
  ASSUME NEW d, TablesKept(d), NEW order \in Orders
  PROVE  LET x == Backfilled(d, order)
         IN  /\ TablesKept(x) /\ Onward(d, x, Texts)
             /\ x.correction = d.correction
             /\ \A e \in Episodes : EvaluationRight(x, e)
<1>1. PICK h : /\ h[0] = d /\ Backfilled(d, order) = h[Prompts]
               /\ \A n \in Episodes : h[n] = Evaluated(h[n - 1], order[n])
  BY BackfilledRuns
<1> DEFINE Done(n) == /\ TablesKept(h[n]) /\ Onward(d, h[n], Texts)
                      /\ h[n].correction = d.correction
                      /\ \A e \in Episodes : e \in Past(order, n) => EvaluationRight(h[n], e)
           S == {n \in Nat : n <= Prompts => Done(n)}
<1>2. Prompts \in Nat /\ Episodes = 1 .. Prompts
  BY ExperienceAssumption DEF Episodes
<1>3. Done(0)
  <2>1. Onward(d, d, Texts)
    BY DEF Onward
  <2> QED BY <1>1, <1>2, <2>1, PastSays
<1>4. ASSUME NEW n \in Nat, Done(n), n + 1 <= Prompts PROVE Done(n + 1)
  <2> DEFINE x == h[n]
             y == h[n + 1]
             m == order[n + 1]
  <2>1. m \in Episodes /\ y = Evaluated(x, m)
    <3>1. n + 1 \in Episodes /\ (n + 1) - 1 = n
      BY <1>2, <1>4
    <3> QED BY <1>1, <3>1 DEF Orders
  <2>2. TablesKept(x) /\ Onward(d, x, Texts) /\ x.correction = d.correction
        /\ \A e \in Episodes : e \in Past(order, n) => EvaluationRight(x, e)
    BY <1>4
  <2> HIDE DEF x, y, m
  <2>3. \A e : e \in Past(order, n + 1) <=> e = m \/ e \in Past(order, n)
    BY PastSays DEF m
  <2>4. /\ TablesKept(y) /\ Onward(x, y, x.applied[m]) /\ y.correction = x.correction
        /\ \A f \in Episodes \ {m} : y.evaluation[f] = x.evaluation[f]
                                     /\ y.judged[f] = x.judged[f]
        /\ EvaluationRight(y, m)
    BY <2>1, <2>2, EvaluatedKeeps
  <2>5. Onward(d, y, Texts)
    BY <2>2, <2>4, OnwardBoth
  <2>6. ASSUME NEW e \in Episodes, e \in Past(order, n + 1) PROVE EvaluationRight(y, e)
    <3>1. CASE e = m
      BY <2>4, <3>1
    <3>2. CASE e # m
      <4>1. e \in Past(order, n)
        BY <2>3, <2>6, <3>2
      <4>2. y.evaluation[e] = x.evaluation[e] /\ y.judged[e] = x.judged[e]
        BY <2>4, <3>2
      <4>3. y.applied = x.applied /\ y.outcome = x.outcome
        BY <2>4 DEF Onward
      <4> QED BY <2>2, <4>1, <4>2, <4>3 DEF EvaluationRight
    <3> QED BY <3>1, <3>2
  <2> QED BY <2>2, <2>4, <2>5, <2>6 DEF y
<1>5. Nat \subseteq S
  <2> HIDE DEF Done
  <2>1. 0 \in S
    BY <1>3
  <2>2. ASSUME NEW n \in Nat, n \in S PROVE n + 1 \in S
    BY <1>2, <1>4, <2>2
  <2> HIDE DEF S
  <2> QED BY <2>1, <2>2, Inductive
<1>6. Done(Prompts)
  <2> HIDE DEF Done
  <2> QED BY <1>2, <1>5
<1>7. Episodes = Past(order, Prompts)
  BY PastSays
<1> QED BY <1>1, <1>6, <1>7

-----------------------------------------------------------------------------
(* What the handlers share.                                                *)

\* A step that goes its way without a user brings no candidate back.
Quiet(d, x) ==
  \A c \in Texts : d.candidate[c].status \in Dormant => x.candidate[c].status \in Dormant

\* The evidence and the status of c stay.
SameCandidate(d, x, c) ==
  /\ x.candidate[c] = d.candidate[c]
  /\ Support(x, c) = Support(d, c) /\ Contradictions(x, c) = Contradictions(d, c)

\* What was learnt from an episode stays, as long as no edit is undone.
LEMMA RightStays ==
  ASSUME NEW d, TablesKept(d), NEW x, TablesKept(x), NEW e \in Episodes,
         \A c \in Texts : d.candidate[c].fingerprint # c => x.candidate[c].fingerprint # c,
         Wanted(x, e) = Wanted(d, e), x.correction[e] = d.correction[e],
         x.applied[e] = d.applied[e], x.outcome[e] = d.outcome[e],
         x.evaluation[e] = d.evaluation[e], x.judged[e] = d.judged[e],
         LearntFrom(d, e)
  PROVE  LearntFrom(x, e)
<1> SUFFICES ASSUME ~Collides(x, e) PROVE CorrectionRight(x, e) /\ EvaluationRight(x, e)
  BY DEF LearntFrom
<1> DEFINE w == Wanted(d, e)
<1>1. ~(w \in Texts /\ x.candidate[w].fingerprint # w /\ x.correction[e][1] # w)
  BY CollidesSays
<1>2. ~(w \in Texts /\ d.candidate[w].fingerprint # w /\ d.correction[e][1] # w)
  BY <1>1
<1>3. ~Collides(d, e)
  BY <1>2, CollidesSays
<1>4. CorrectionRight(d, e) /\ EvaluationRight(d, e)
  BY <1>3 DEF LearntFrom
<1> QED BY <1>4 DEF CorrectionRight, EvaluationRight

\* What the App shows has statuses only.
LEMMA PublishedTyped ==
  ASSUME ExperienceTypeOK, NEW x \in Tables, NEW cs
  PROVE  Published(x, cs) \in [Texts -> Statuses]
<1>1. \A c \in Texts : x.candidate[c].status \in Statuses
  BY TablesFields DEF Candidates
<1> QED BY <1>1 DEF Published, ExperienceTypeOK

\* The App is right after a step that publishes all candidates it touches.
LEMMA ShownStays ==
  ASSUME AppShowsStatus, serving, NEW cs, synced' = synced,
         shown' = Published(db', cs),
         \A c \in Texts \ cs : SameCandidate(db, db', c)
  PROVE  AppShowsStatus'
<1> SUFFICES ASSUME synced, NEW c \in Texts,
                    Exists(db', c), Support(db', c) + Contradictions(db', c) > 0
             PROVE  shown'[c] = db'.candidate[c].status
  BY DEF AppShowsStatus
<1>1. CASE c \in cs
  BY <1>1 DEF Published
<1>2. CASE c \notin cs
  <2>1. SameCandidate(db, db', c)
    BY <1>2
  <2>2. shown'[c] = shown[c]
    BY <1>2 DEF Published
  <2>3. Exists(db, c) /\ Support(db, c) + Contradictions(db, c) > 0
    BY <2>1 DEF SameCandidate, Exists
  <2>4. shown[c] = db.candidate[c].status
    BY <2>3 DEF AppShowsStatus
  <2> QED BY <2>1, <2>2, <2>4 DEF SameCandidate
<1> QED BY <1>1, <1>2

OutcomeWritten(d, e, o, s) == [d EXCEPT !.outcome[e] = o, !.source[e] = s]

\* The outcome of an episode is written, and nothing learnt from it yet.
LEMMA OutcomeKeeps ==
  ASSUME NEW d, TablesKept(d), NEW e \in Episodes, NEW o \in Outcomes \ {NoOutcome},
         NEW s \in {"user", "git_review"}, d.status[e] # "none"
  PROVE  LET x == OutcomeWritten(d, e, o, s)
         IN  /\ TablesKept(x)
             /\ x.candidate = d.candidate /\ x.status = d.status /\ x.applied = d.applied
             /\ x.correction = d.correction /\ x.evaluation = d.evaluation
             /\ x.judged = d.judged
             /\ x.outcome[e] = o /\ x.source[e] = s
             /\ \A f \in Episodes \ {e} : x.outcome[f] = d.outcome[f] /\ x.source[f] = d.source[f]
             /\ \A c : Support(x, c) = Support(d, c) /\ Contradictions(x, c) = Contradictions(d, c)
<1> DEFINE outcome == [d.outcome EXCEPT ![e] = o]
           source == [d.source EXCEPT ![e] = s]
           x == [d EXCEPT !.outcome = outcome, !.source = source]
<1>1. d \in Tables /\ (\A f \in Episodes : EpisodeKept(d, f)) /\ \A c \in Texts : CandidateKept(d, c)
  BY DEF TablesKept
<1>2. OutcomeWritten(d, e, o, s) = x
  BY DEF OutcomeWritten
<1>3. /\ d.outcome \in [Episodes -> Outcomes \cup {NoOutcome}]
      /\ d.source \in [Episodes -> {"none", "user", "git_review"}]
  BY <1>1, TablesFields
<1>4. /\ outcome \in [Episodes -> Outcomes \cup {NoOutcome}]
      /\ source \in [Episodes -> {"none", "user", "git_review"}]
      /\ outcome[e] = o /\ source[e] = s
      /\ \A f \in Episodes \ {e} : outcome[f] = d.outcome[f] /\ source[f] = d.source[f]
  BY <1>3
<1> HIDE DEF outcome, source
<1>5. /\ x \in Tables
      /\ x.candidate = d.candidate /\ x.status = d.status /\ x.applied = d.applied
      /\ x.correction = d.correction /\ x.evaluation = d.evaluation
      /\ x.judged = d.judged /\ x.outcome = outcome /\ x.source = source
  BY <1>1, <1>4 DEF Tables
<1> HIDE DEF x
<1>6. \A c : Support(x, c) = Support(d, c) /\ Contradictions(x, c) = Contradictions(d, c)
  BY <1>5, SameEvidence
<1>7. \A c \in Texts : CandidateKept(x, c)
  BY <1>1, <1>5, <1>6 DEF CandidateKept, CandidateNamed, Supported
<1>8. ASSUME NEW f \in Episodes PROVE EpisodeKept(x, f)
  <2>1. EpisodeKept(d, f)
    BY <1>1
  <2>2. x.outcome[f] = NoOutcome => f # e /\ d.outcome[f] = NoOutcome
    BY <1>4, <1>5
  <2>3. x.status[f] = "none" => x.outcome[f] = NoOutcome
    BY <1>4, <1>5, <2>1 DEF EpisodeKept
  <2> QED BY <1>5, <2>1, <2>2, <2>3 DEF EpisodeKept, Exists
<1>9. TablesKept(x)
  BY <1>5, <1>7, <1>8 DEF TablesKept
<1> QED BY <1>2, <1>4, <1>5, <1>6, <1>9

\* A statement of a user is written, and nothing of other episodes changes.
LEMMA OutcomeSetKeeps ==
  ASSUME NEW d, TablesKept(d), NEW e \in Episodes, NEW o \in Outcomes, NEW late \in BOOLEAN,
         d.status[e] # "none"
  PROVE  LET x == OutcomeSet(d, e, o, late)
         IN  /\ TablesKept(x)
             /\ x.candidate = d.candidate /\ x.status = d.status /\ x.applied = d.applied
             /\ x.correction = d.correction /\ x.evaluation = d.evaluation
             /\ x.judged = d.judged
             /\ x.outcome[e] # NoOutcome
             /\ \A f \in Episodes \ {e} : x.outcome[f] = d.outcome[f] /\ x.source[f] = d.source[f]
             /\ \A c : Support(x, c) = Support(d, c) /\ Contradictions(x, c) = Contradictions(d, c)
<1>1. o \in Outcomes \ {NoOutcome}
  BY DEF Outcomes, Revisions, NoOutcome
<1>2. CASE late /\ d.outcome[e] # NoOutcome
  <2>1. OutcomeSet(d, e, o, late) = d
    BY <1>2 DEF OutcomeSet
  <2> QED BY <1>2, <2>1
<1>3. CASE ~(late /\ d.outcome[e] # NoOutcome)
  <2> DEFINE x == OutcomeWritten(d, e, o, "user")
  <2>1. OutcomeSet(d, e, o, late) = x
    BY <1>3 DEF OutcomeSet, OutcomeWritten
  <2>2. /\ TablesKept(x)
        /\ x.candidate = d.candidate /\ x.status = d.status /\ x.applied = d.applied
        /\ x.correction = d.correction /\ x.evaluation = d.evaluation
        /\ x.judged = d.judged
        /\ x.outcome[e] = o
        /\ \A f \in Episodes \ {e} : x.outcome[f] = d.outcome[f] /\ x.source[f] = d.source[f]
        /\ \A c : Support(x, c) = Support(d, c) /\ Contradictions(x, c) = Contradictions(d, c)
    BY <1>1, OutcomeKeeps
  <2> HIDE DEF x
  <2>3. x.outcome[e] # NoOutcome
    BY <1>1, <2>2
  <2> QED BY <2>1, <2>2, <2>3 DEF x
<1> QED BY <1>2, <1>3

\* What follows from an outcome, d as its writing left it.
LEMMA LearntFromOutcome ==
  ASSUME NEW d, TablesKept(d), NEW e \in Episodes, ~Collides(d, e),
         \A f \in Episodes \ {e} : LearntFrom(d, f)
  PROVE  LET y == Evaluated(Reconciled(d, e), e)
         IN  /\ TablesKept(y) /\ Learnt(y) /\ Onward(d, y, Texts)
             /\ \A c \in Texts : c \notin Affected(d, e) \cup d.applied[e] => SameCandidate(d, y, c)
<1> DEFINE x == Reconciled(d, e)
           y == Evaluated(x, e)
           w == Wanted(d, e)
<1>1. /\ TablesKept(x) /\ Onward(d, x, Affected(d, e))
      /\ x.correction = [d.correction EXCEPT ![e] = <<w, w>>]
      /\ x.evaluation = d.evaluation /\ x.judged = d.judged
  BY ReconciledKeeps
<1> HIDE DEF x
<1>2. /\ TablesKept(y) /\ Onward(x, y, x.applied[e]) /\ y.correction = x.correction
      /\ \A f \in Episodes \ {e} : y.evaluation[f] = x.evaluation[f] /\ y.judged[f] = x.judged[f]
      /\ EvaluationRight(y, e)
  BY <1>1, EvaluatedKeeps
<1> HIDE DEF y
<1>3. Onward(d, x, Texts)
  BY <1>1 DEF Onward
<1>4. Onward(d, y, Texts)
  BY <1>2, <1>3, OnwardBoth
<1>5. \A f \in Episodes : Wanted(y, f) = Wanted(d, f)
  BY <1>4, OnwardWanted
<1>6. d.correction \in [Episodes -> (Texts \cup {NoText}) \X (Texts \cup {NoText})]
  BY TablesFields DEF TablesKept
<1>7. LearntFrom(y, e)
  <2>1. y.correction[e][1] = w
    BY <1>1, <1>2, <1>6
  <2>2. CorrectionRight(y, e)
    BY <1>5, <2>1 DEF CorrectionRight
  <2> QED BY <1>2, <2>2 DEF LearntFrom
<1>8. ASSUME NEW f \in Episodes \ {e} PROVE LearntFrom(y, f)
  <2>1. y.correction[f] = d.correction[f]
    BY <1>1, <1>2, <1>6
  <2>2. y.evaluation[f] = d.evaluation[f] /\ y.judged[f] = d.judged[f]
    BY <1>1, <1>2
  <2>3. y.applied[f] = d.applied[f] /\ y.outcome[f] = d.outcome[f]
    BY <1>4 DEF Onward
  <2>4. \A c \in Texts : d.candidate[c].fingerprint # c => y.candidate[c].fingerprint # c
    BY <1>4 DEF Onward
  <2>5. Wanted(y, f) = Wanted(d, f) /\ LearntFrom(d, f)
    BY <1>5
  <2> QED BY <1>2, <2>1, <2>2, <2>3, <2>4, <2>5, RightStays
<1>9. ASSUME NEW c \in Texts, c \notin Affected(d, e) \cup d.applied[e]
      PROVE  SameCandidate(d, y, c)
  <2>1. x.applied = d.applied
    BY <1>1 DEF Onward
  <2> QED BY <1>1, <1>2, <1>9, <2>1 DEF Onward, SameCandidate
<1>10. Learnt(y)
  BY <1>7, <1>8 DEF Learnt
<1> QED BY <1>2, <1>4, <1>9, <1>10 DEF x, y

\* A user says how an episode went.
LEMMA SetOutcomeStep ==
  ASSUME ExperienceInv, NEW e \in Episodes, NEW o \in Outcomes, NEW late \in BOOLEAN,
         SetOutcome(e, o, late)
  PROVE  ExperienceInv'
<1> DEFINE d == OutcomeSet(db, e, o, late)
<1>1. /\ serving /\ actions < MaxActions /\ db.status[e] = "delivered"
      /\ actions' = actions + 1
      /\ HandleOutcome(e, d)
      /\ serving' = serving /\ synced' = synced /\ crashes' = crashes
  BY DEF SetOutcome
<1>2. /\ ExperienceTypeOK /\ TablesKept(db) /\ OpenedInTurn(db) /\ Learnt(db) /\ AppShowsStatus
  BY <1>1 DEF ExperienceInv
<1>3. /\ TablesKept(d)
      /\ d.candidate = db.candidate /\ d.status = db.status /\ d.applied = db.applied
      /\ d.correction = db.correction /\ d.evaluation = db.evaluation
      /\ d.judged = db.judged
      /\ d.outcome[e] # NoOutcome
      /\ \A f \in Episodes \ {e} : d.outcome[f] = db.outcome[f] /\ d.source[f] = db.source[f]
      /\ \A c : Support(d, c) = Support(db, c) /\ Contradictions(d, c) = Contradictions(db, c)
  BY <1>1, <1>2, OutcomeSetKeeps
<1> HIDE DEF d
<1>4. ASSUME NEW f \in Episodes \ {e} PROVE LearntFrom(d, f)
  <2>1. Wanted(d, f) = Wanted(db, f)
    BY <1>3 DEF Wanted
  <2>2. LearntFrom(db, f)
    BY <1>2 DEF Learnt
  <2>3. \A c \in Texts : db.candidate[c].fingerprint # c => d.candidate[c].fingerprint # c
    BY <1>3
  <2>4. d.outcome[f] = db.outcome[f] /\ d.correction[f] = db.correction[f]
        /\ d.applied[f] = db.applied[f] /\ d.evaluation[f] = db.evaluation[f]
        /\ d.judged[f] = db.judged[f]
    BY <1>3
  <2> QED BY <1>2, <1>3, <2>1, <2>2, <2>3, <2>4, RightStays
<1>5. /\ TablesKept(db') /\ Learnt(db') /\ db'.status = db.status
      /\ shown' \in [Texts -> Statuses] /\ AppShowsStatus'
  <2>1. CASE Collides(d, e)
    <3>1. db' = d /\ shown' = shown
      BY <1>1, <2>1 DEF HandleOutcome
    <3>2. LearntFrom(d, e)
      BY <2>1 DEF LearntFrom
    <3>3. Learnt(d)
      BY <1>4, <3>2 DEF Learnt
    <3>4. AppShowsStatus'
      BY <1>1, <1>2, <1>3, <3>1 DEF AppShowsStatus, Exists
    <3> QED BY <1>2, <1>3, <3>1, <3>3, <3>4 DEF ExperienceTypeOK
  <2>2. CASE ~Collides(d, e)
    <3> DEFINE y == Evaluated(Reconciled(d, e), e)
               cs == OutcomeChanges(d, e)
    <3>1. db' = y /\ shown' = Published(db', cs)
      BY <1>1, <2>2 DEF HandleOutcome
    <3>2. /\ TablesKept(y) /\ Learnt(y) /\ Onward(d, y, Texts)
          /\ \A c \in Texts : c \notin Affected(d, e) \cup d.applied[e] => SameCandidate(d, y, c)
      BY <1>3, <1>4, <2>2, LearntFromOutcome
    <3>3. cs = Affected(d, e) \cup d.applied[e]
      BY <1>3 DEF OutcomeChanges
    <3> HIDE DEF y, cs
    <3>4. \A c \in Texts \ cs : SameCandidate(db, db', c)
      BY <1>3, <3>1, <3>2, <3>3 DEF SameCandidate
    <3>5. AppShowsStatus'
      BY <1>1, <1>2, <3>1, <3>4, ShownStays
    <3>6. shown' \in [Texts -> Statuses]
      BY <1>2, <3>1, <3>2, PublishedTyped DEF TablesKept
    <3>7. db'.status = db.status
      BY <1>3, <3>1, <3>2 DEF Onward
    <3> QED BY <3>1, <3>2, <3>5, <3>6, <3>7
  <2> QED BY <2>1, <2>2
<1>6. OpenedInTurn(db')
  BY <1>2, <1>5 DEF OpenedInTurn
<1>7. ExperienceTypeOK'
  BY <1>1, <1>2, <1>5, ExperienceAssumption DEF ExperienceTypeOK, TablesKept
<1> QED BY <1>1, <1>5, <1>6, <1>7 DEF ExperienceInv

\* The process ends once the outcome is written.
LEMMA CrashAfterOutcomeStep ==
  ASSUME ExperienceInv, NEW e \in Episodes, NEW o \in Outcomes, CrashAfterOutcome(e, o)
  PROVE  ExperienceInv'
<1> DEFINE d == OutcomeSet(db, e, o, FALSE)
<1>1. /\ crashes < MaxCuts /\ actions < MaxActions /\ db.status[e] = "delivered"
      /\ crashes' = crashes + 1 /\ actions' = actions + 1 /\ db' = d
      /\ serving' = FALSE /\ synced' = FALSE /\ shown' = shown
  BY DEF CrashAfterOutcome
<1>2. ExperienceTypeOK /\ TablesKept(db) /\ OpenedInTurn(db)
  BY DEF ExperienceInv
<1>3. TablesKept(d) /\ d.status = db.status
  BY <1>1, <1>2, OutcomeSetKeeps
<1> HIDE DEF d
<1>4. OpenedInTurn(db')
  BY <1>1, <1>2, <1>3 DEF OpenedInTurn
<1>5. ExperienceTypeOK'
  <2>1. crashes' \in 0 .. MaxCuts /\ actions' \in 0 .. MaxActions
    BY <1>1, <1>2, ExperienceAssumption DEF ExperienceTypeOK
  <2>2. db' \in Tables /\ shown' \in [Texts -> Statuses]
    BY <1>1, <1>2, <1>3 DEF ExperienceTypeOK, TablesKept
  <2>3. serving' \in BOOLEAN /\ synced' \in BOOLEAN
    BY <1>1
  <2> QED BY <2>1, <2>2, <2>3 DEF ExperienceTypeOK
<1>6. AppShowsStatus'
  BY <1>1 DEF AppShowsStatus
<1> QED BY <1>1, <1>3, <1>4, <1>5, <1>6 DEF ExperienceInv

-----------------------------------------------------------------------------
(* A prompt.                                                               *)

\* The last of some episodes is one of them.
LEMMA LargestIsThere ==
  ASSUME NEW T, T \subseteq Episodes, T # {}
  PROVE  Max(T) \in T
<1> DEFINE U == {n \in Nat : \A y \in T : y <= n}
<1>1. Prompts \in Nat /\ Episodes = 1 .. Prompts
  BY ExperienceAssumption DEF Episodes
<1>2. Prompts \in U
  BY <1>1
<1>3. PICK m \in U : \A n \in U : m <= n
  <2>1. U \subseteq Nat /\ U # {}
    BY <1>2
  <2> HIDE DEF U
  <2> QED BY <2>1, Smallest
<1>4. m \in T
  <2> SUFFICES ASSUME m \notin T PROVE FALSE
    OBVIOUS
  <2>1. m \in Nat /\ \A y \in T : y \in Nat /\ 1 <= y /\ y < m
    BY <1>1
  <2>2. 1 < m
    BY <2>1
  <2>3. m - 1 \in U
    BY <2>1, <2>2
  <2> QED BY <1>3, <2>1, <2>2, <2>3
<1>5. \E x \in T : \A y \in T : x >= y
  BY <1>1, <1>4
<1> QED BY <1>5 DEF Max

\* What a Git review sent with a prompt leaves.
LEMMA RevisedKeeps ==
  ASSUME NEW d, TablesKept(d), Learnt(d)
  PROVE  LET x == Revised(d)
         IN  /\ TablesKept(x) /\ Learnt(x) /\ Quiet(d, x)
             /\ x.status = d.status /\ x.applied = d.applied
             /\ \A c \in Texts \ RevisedCandidates(d) : SameCandidate(d, x, c)
<1> DEFINE delivered == {e \in Episodes : d.status[e] = "delivered"}
           e == Max(delivered)
<1>1. CASE delivered = {} \/ d.source[e] = "user"
  <2>1. Revised(d) = d
    BY <1>1 DEF Revised
  <2> QED BY <2>1 DEF Quiet, SameCandidate
<1>2. CASE ~(delivered = {} \/ d.source[e] = "user")
  <2> DEFINE x == OutcomeWritten(d, e, <<"revision", NoText>>, "git_review")
             y == Evaluated(x, e)
  <2>1. Revised(d) = y /\ RevisedCandidates(d) = d.applied[e]
    BY <1>2 DEF Revised, RevisedCandidates, OutcomeWritten
  <2>2. e \in delivered
    <3> HIDE DEF delivered
    <3>1. delivered \subseteq Episodes
      BY DEF delivered
    <3> QED BY <1>2, <3>1, LargestIsThere
  <2>3. e \in Episodes /\ d.status[e] = "delivered" /\ d.source[e] # "user"
    BY <1>2, <2>2
  <2>4. <<"revision", NoText>> \in Outcomes \ {NoOutcome}
    BY DEF Outcomes, Revisions, NoOutcome
  <2> HIDE DEF e, delivered
  <2>5. /\ TablesKept(x)
        /\ x.candidate = d.candidate /\ x.status = d.status /\ x.applied = d.applied
        /\ x.correction = d.correction /\ x.evaluation = d.evaluation
        /\ x.judged = d.judged
        /\ x.source[e] = "git_review"
        /\ \A f \in Episodes \ {e} : x.outcome[f] = d.outcome[f] /\ x.source[f] = d.source[f]
        /\ \A c : Support(x, c) = Support(d, c) /\ Contradictions(x, c) = Contradictions(d, c)
    BY <2>3, <2>4, OutcomeKeeps
  <2> HIDE DEF x
  <2>6. /\ TablesKept(y) /\ Onward(x, y, x.applied[e]) /\ y.correction = x.correction
        /\ \A f \in Episodes \ {e} : y.evaluation[f] = x.evaluation[f] /\ y.judged[f] = x.judged[f]
        /\ EvaluationRight(y, e)
    BY <2>3, <2>5, EvaluatedKeeps
  <2> HIDE DEF y
  <2>7. \A f \in Episodes : Wanted(y, f) = Wanted(x, f)
    BY <2>6, OnwardWanted
  <2>8. \A f \in Episodes : Wanted(x, f) = Wanted(d, f)
    BY <2>3, <2>5 DEF Wanted
  <2>9. LearntFrom(y, e)
    <3>1. Wanted(d, e) = NoText
      BY <2>3 DEF Wanted
    <3>2. ~Collides(d, e)
      BY <2>3, <3>1, CollidesSays, ExperienceAssumption
    <3>3. CorrectionRight(d, e)
      BY <2>3, <3>2 DEF Learnt, LearntFrom
    <3>4. CorrectionRight(y, e)
      BY <2>3, <2>5, <2>6, <2>7, <2>8, <3>3 DEF CorrectionRight
    <3> QED BY <2>6, <3>4 DEF LearntFrom
  <2>10. ASSUME NEW f \in Episodes \ {e} PROVE LearntFrom(y, f)
    <3>1. y.correction[f] = d.correction[f] /\ y.evaluation[f] = d.evaluation[f]
          /\ y.judged[f] = d.judged[f]
      BY <2>5, <2>6
    <3>2. y.applied[f] = d.applied[f] /\ y.outcome[f] = d.outcome[f]
      BY <2>5, <2>6 DEF Onward
    <3>3. \A c \in Texts : d.candidate[c].fingerprint # c => y.candidate[c].fingerprint # c
      BY <2>5, <2>6 DEF Onward
    <3>4. Wanted(y, f) = Wanted(d, f) /\ LearntFrom(d, f)
      BY <2>7, <2>8 DEF Learnt
    <3> QED BY <2>6, <3>1, <3>2, <3>3, <3>4, RightStays
  <2>11. Learnt(y)
    BY <2>9, <2>10 DEF Learnt
  <2>12. Quiet(d, y)
    BY <2>5, <2>6 DEF Onward, Quiet
  <2>13. y.status = d.status /\ y.applied = d.applied
    BY <2>5, <2>6 DEF Onward
  <2>14. \A c \in Texts \ RevisedCandidates(d) : SameCandidate(d, y, c)
    BY <2>1, <2>5, <2>6 DEF Onward, SameCandidate
  <2> QED BY <2>1, <2>6, <2>11, <2>12, <2>13, <2>14
<1> QED BY <1>1, <1>2

\* The next episode is the first that was not opened.
LEMMA NextEpisode ==
  ASSUME NEW d, OpenedInTurn(d),
         NEW e \in Episodes, e = Cardinality({x \in Episodes : d.status[x] # "none"}) + 1
  PROVE  /\ d.status[e] = "none"
         /\ \A f : (\A x \in Episodes : f[x] = "none" <=> x # e /\ d.status[x] = "none") =>
              \E k \in 0 .. Prompts : {x \in Episodes : f[x] # "none"} = 1 .. k
<1>1. Prompts \in Nat /\ Episodes = 1 .. Prompts
  BY ExperienceAssumption DEF Episodes
<1> DEFINE T == {x \in Episodes : d.status[x] # "none"}
<1>2. PICK k \in 0 .. Prompts : T = 1 .. k
  BY DEF OpenedInTurn
<1>3. Cardinality(T) = k
  <2>1. 1 \in Int /\ k \in Int
    BY <1>1
  <2>2. Cardinality(1 .. k) = IF 1 > k THEN 0 ELSE k - 1 + 1
    BY <2>1, FS_Interval
  <2>3. Cardinality(1 .. k) = k
    BY <1>1, <2>2
  <2> QED BY <1>2, <2>3
<1>4. e = k + 1 /\ e \in 1 .. Prompts /\ k \in Nat
  BY <1>1, <1>3
<1>5. \A x \in Episodes : x \in 1 .. k <=> d.status[x] # "none"
  BY <1>2
<1>6. d.status[e] = "none"
  <2>1. e \notin 1 .. k
    BY <1>4
  <2> QED BY <1>5, <2>1
<1>7. ASSUME NEW f, \A x \in Episodes : f[x] = "none" <=> x # e /\ d.status[x] = "none"
      PROVE  \E j \in 0 .. Prompts : {x \in Episodes : f[x] # "none"} = 1 .. j
  <2>1. \A x \in Episodes : f[x] # "none" <=> x = e \/ x \in 1 .. k
    BY <1>5, <1>7
  <2>2. \A x \in Episodes : f[x] # "none" <=> x \in 1 .. e
    BY <1>1, <1>4, <2>1
  <2>3. e \in 0 .. Prompts /\ 1 .. e \subseteq Episodes
    <3>1. e \in Nat /\ 1 <= e /\ e <= Prompts
      BY <1>1, <1>4
    <3>2. \A m \in Nat : 1 <= m /\ m <= Prompts => m \in 0 .. Prompts /\ 1 .. m \subseteq 1 .. Prompts
      BY <1>1
    <3> QED BY <1>1, <3>1, <3>2, Zenon
  <2>4. {x \in Episodes : f[x] # "none"} = 1 .. e
    BY <2>2, <2>3
  <2> QED BY <2>3, <2>4
<1> QED BY <1>6, <1>7

\* A prompt is submitted.
LEMMA SubmitStep ==
  ASSUME ExperienceInv, NEW e \in Episodes, NEW git \in BOOLEAN, NEW matches \in SUBSET Texts,
         NEW chosen \in SUBSET Texts, SubmitPrompt(e, git, matches, chosen)
  PROVE  ExperienceInv' /\ Quiet(db, db')
<1> DEFINE revised == IF git THEN Revised(db) ELSE db
           status == [x \in Episodes |-> IF x = e THEN "working"
                                         ELSE IF revised.status[x] = "working" THEN "abandoned"
                                         ELSE revised.status[x]]
           matched == [revised.matched EXCEPT ![e] = matches]
           marked == [c \in Texts |-> IF c \in matches
                                      THEN [revised.candidate[c] EXCEPT !.status = MarkShadow(@)]
                                      ELSE revised.candidate[c]]
           opened == [revised EXCEPT !.status = status, !.matched = matched, !.candidate = marked]
           eligible == {c \in matches : opened.candidate[c].status \in Usable /\ Supported(opened, c)}
           put == [opened.applied EXCEPT ![e] = chosen]
           injected == [c \in Texts |-> IF c \in chosen
                                        THEN [opened.candidate[c] EXCEPT !.status = "active"]
                                        ELSE opened.candidate[c]]
           applied == [opened EXCEPT !.applied = put, !.candidate = injected]
           cs == matches \cup (IF git THEN RevisedCandidates(db) ELSE {})
<1>1. /\ serving
      /\ e = Cardinality({x \in Episodes : db.status[x] # "none"}) + 1
      /\ matches \subseteq {c \in Texts : revised.candidate[c].status \in Usable \cup {"paused"}
                                          /\ Supported(revised, c)}
      /\ chosen \subseteq eligible
      /\ db' = applied
      /\ shown' = Published(applied, cs)
      /\ serving' = serving /\ synced' = synced /\ crashes' = crashes /\ actions' = actions
  <2> DEFINE O(r) == [r EXCEPT
                !.status = [x \in Episodes |-> IF x = e THEN "working"
                                               ELSE IF @[x] = "working" THEN "abandoned" ELSE @[x]],
                !.matched[e] = matches,
                !.candidate = [c \in Texts |-> IF c \in matches
                                               THEN [r.candidate[c] EXCEPT !.status = MarkShadow(@)]
                                               ELSE @[c]]]
             A(o) == [o EXCEPT
                !.applied[e] = chosen,
                !.candidate = [c \in Texts |-> IF c \in chosen THEN [@[c] EXCEPT !.status = "active"]
                                               ELSE @[c]]]
             L(o) == {c \in matches : o.candidate[c].status \in Usable /\ Supported(o, c)}
  <2>1. /\ serving
        /\ e = Cardinality({x \in Episodes : db.status[x] # "none"}) + 1
        /\ matches \subseteq {c \in Texts : revised.candidate[c].status \in Usable \cup {"paused"}
                                            /\ Supported(revised, c)}
        /\ chosen \subseteq L(O(revised))
        /\ db' = A(O(revised))
        /\ shown' = Published(A(O(revised)), cs)
        /\ serving' = serving /\ synced' = synced /\ crashes' = crashes /\ actions' = actions
    BY Zenon DEF SubmitPrompt, experienceVars
  <2>2. O(revised) = opened
    <3> HIDE DEF revised
    <3> QED OBVIOUS
  <2>3. A(opened) = applied
    <3> HIDE DEF opened
    <3> QED OBVIOUS
  <2>4. L(opened) = eligible
    OBVIOUS
  <2> HIDE DEF O, A, L, opened, applied, eligible, revised, cs
  <2> QED BY <2>1, <2>2, <2>3, <2>4
<1>2. /\ ExperienceTypeOK /\ TablesKept(db) /\ OpenedInTurn(db) /\ Learnt(db) /\ AppShowsStatus
  BY <1>1 DEF ExperienceInv
<1>3. /\ TablesKept(revised) /\ Learnt(revised) /\ Quiet(db, revised)
      /\ revised.status = db.status /\ revised.applied = db.applied
      /\ \A c \in Texts \ cs : SameCandidate(db, revised, c)
  BY <1>2, RevisedKeeps DEF Quiet, SameCandidate
<1> HIDE DEF revised, cs
<1>4. /\ revised \in Tables
      /\ \A f \in Episodes : EpisodeKept(revised, f)
      /\ \A c \in Texts : CandidateKept(revised, c)
  BY <1>3 DEF TablesKept
<1>5. /\ revised.status \in [Episodes -> {"none", "working", "delivered", "failed", "abandoned"}]
      /\ revised.matched \in [Episodes -> SUBSET Texts]
      /\ revised.applied \in [Episodes -> SUBSET Texts]
      /\ revised.candidate \in [Texts -> Candidates]
  BY <1>4, TablesFields
<1>6. status \in [Episodes -> {"none", "working", "delivered", "failed", "abandoned"}]
  BY <1>5
<1>7. \A x \in Episodes : status[x] = "none" <=> x # e /\ db.status[x] = "none"
  BY <1>3
<1>8. matched \in [Episodes -> SUBSET Texts]
  BY <1>5
<1>9. ASSUME NEW c \in Texts
      PROVE  /\ marked[c] \in Candidates
             /\ marked[c].fingerprint = revised.candidate[c].fingerprint
             /\ revised.candidate[c].status \in Reviewed => marked[c].status \in Reviewed
             /\ marked[c].status \in Reviewed => revised.candidate[c].status \in Reviewed
             /\ revised.candidate[c].status \in Dormant => marked[c].status \in Dormant
             /\ marked[c].status = "active" => revised.candidate[c].status = "active"
             /\ c \notin matches => marked[c] = revised.candidate[c]
  <2>1. revised.candidate[c] \in Candidates
    BY <1>5
  <2>2. CASE c \in matches
    <3> DEFINE k == revised.candidate[c]
    <3>1. marked[c] = [k EXCEPT !.status = MarkShadow(k.status)]
      BY <2>2
    <3>2. MarkShadow(k.status) = IF k.status = "approved" THEN "shadow" ELSE k.status
      BY DEF MarkShadow
    <3> HIDE DEF k, marked
    <3>3. k \in Candidates
      BY <2>1 DEF k
    <3>4. marked[c].fingerprint = k.fingerprint /\ marked[c].status = MarkShadow(k.status)
          /\ marked[c] \in Candidates
      BY <3>1, <3>2, <3>3 DEF Candidates, Statuses
    <3> QED BY <2>2, <3>2, <3>4 DEF k, Reviewed, Dormant
  <2>3. CASE c \notin matches
    BY <2>1, <2>3
  <2> QED BY <2>2, <2>3
<1>10. marked \in [Texts -> Candidates]
  <2>1. \A c \in Texts : marked[c] \in Candidates
    BY <1>9
  <2> QED BY <2>1
<1> HIDE DEF status, matched, marked
<1>11. /\ opened \in Tables
       /\ opened.status = status /\ opened.candidate = marked
       /\ opened.outcome = revised.outcome /\ opened.source = revised.source
       /\ opened.correction = revised.correction /\ opened.applied = revised.applied
       /\ opened.evaluation = revised.evaluation /\ opened.judged = revised.judged
  BY <1>4, <1>6, <1>8, <1>10 DEF Tables
<1> HIDE DEF opened
<1>12. \A c : Support(opened, c) = Support(revised, c)
              /\ Contradictions(opened, c) = Contradictions(revised, c)
  BY <1>11, SameEvidence
<1>13. put \in [Episodes -> SUBSET Texts] /\ put[e] = chosen
       /\ \A f \in Episodes \ {e} : put[f] = revised.applied[f]
  BY <1>5, <1>11
<1>14. \A c \in chosen : c \in matches /\ marked[c].status \in Usable /\ Supported(revised, c)
  BY <1>1, <1>11, <1>12 DEF Supported
<1>15. ASSUME NEW c \in Texts
       PROVE  /\ injected[c] \in Candidates
              /\ injected[c].fingerprint = marked[c].fingerprint
              /\ injected[c].status = IF c \in chosen THEN "active" ELSE marked[c].status
              /\ c \notin matches => injected[c] = revised.candidate[c]
  <2>1. marked[c] \in Candidates
    BY <1>9
  <2>2. CASE c \in chosen
    <3>1. injected[c] = [marked[c] EXCEPT !.status = "active"]
      BY <1>11, <2>2
    <3>2. c \in matches
      BY <1>14, <2>2
    <3> HIDE DEF injected
    <3> QED BY <2>1, <2>2, <3>1, <3>2 DEF Candidates, Statuses
  <2>3. CASE c \notin chosen
    <3>1. injected[c] = marked[c]
      BY <1>11, <2>3
    <3> HIDE DEF injected
    <3> QED BY <1>9, <2>1, <2>3, <3>1
  <2> QED BY <2>2, <2>3
<1>16. injected \in [Texts -> Candidates]
  <2>1. \A c \in Texts : injected[c] \in Candidates
    BY <1>15
  <2> QED BY <2>1
<1> HIDE DEF put, injected
<1>17. /\ applied \in Tables
       /\ applied.status = status /\ applied.candidate = injected /\ applied.applied = put
       /\ applied.outcome = revised.outcome /\ applied.source = revised.source
       /\ applied.correction = revised.correction
       /\ applied.evaluation = revised.evaluation /\ applied.judged = revised.judged
  BY <1>11, <1>13, <1>16 DEF Tables
<1> HIDE DEF applied
<1>18. \A c : Support(applied, c) = Support(revised, c)
              /\ Contradictions(applied, c) = Contradictions(revised, c)
  BY <1>17, SameEvidence
<1>19. ASSUME NEW c \in Texts
       PROVE  /\ CandidateKept(applied, c)
              /\ applied.candidate[c].fingerprint = revised.candidate[c].fingerprint
              /\ revised.candidate[c].status \in Reviewed => applied.candidate[c].status \in Reviewed
              /\ revised.candidate[c].status \in Dormant => applied.candidate[c].status \in Dormant
  <2> DEFINE a == applied.candidate[c]
             r == revised.candidate[c]
  <2>1. /\ a.fingerprint = r.fingerprint
        /\ a.status = IF c \in chosen THEN "active" ELSE marked[c].status
    BY <1>9, <1>15, <1>17
  <2>2. /\ r.status \in Reviewed => marked[c].status \in Reviewed
        /\ marked[c].status \in Reviewed => r.status \in Reviewed
        /\ r.status \in Dormant => marked[c].status \in Dormant
        /\ marked[c].status = "active" => r.status = "active"
    BY <1>9
  <2>3. CandidateKept(revised, c)
    BY <1>4
  <2> HIDE DEF a, r
  <2>4. r.fingerprint \in {c} \cup Edits
        /\ (r.fingerprint # c => r.status \in Reviewed)
        /\ (r.status = "active" => Supported(revised, c))
    BY <2>3 DEF CandidateKept, CandidateNamed, r
  <2>5. c \in chosen => marked[c].status \in Usable /\ Supported(revised, c)
    BY <1>14
  <2>6. a.status \in Reviewed <=> r.status \in Reviewed
    <3>1. c \in chosen => a.status = "active" /\ marked[c].status \in Usable
      BY <2>1, <2>5
    <3>2. "active" \in Reviewed /\ Usable \subseteq Reviewed
      BY DEF Reviewed, Usable
    <3> QED BY <2>1, <2>2, <3>1, <3>2
  <2>7. r.status \in Dormant => a.status \in Dormant
    <3>1. c \in chosen => r.status \notin Dormant
      BY <2>2, <2>5 DEF Dormant, Usable
    <3> QED BY <2>1, <2>2, <3>1
  <2>8. a.status = "active" => Supported(revised, c)
    BY <2>1, <2>2, <2>4, <2>5
  <2>9. Supported(applied, c) <=> Supported(revised, c)
    BY <1>18 DEF Supported
  <2>10. CandidateKept(applied, c)
    BY <2>1, <2>4, <2>6, <2>8, <2>9 DEF CandidateKept, CandidateNamed, a
  <2> QED BY <2>1, <2>6, <2>7, <2>10 DEF a, r
<1>20. db.status[e] = "none"
  BY <1>1, <1>2, NextEpisode
<1>21. revised.outcome[e] = NoOutcome
  BY <1>3, <1>4, <1>20 DEF EpisodeKept
<1>22. ASSUME NEW f \in Episodes PROVE EpisodeKept(applied, f)
  <2>1. EpisodeKept(revised, f)
    BY <1>4
  <2>2. ASSUME NEW c, c \in Texts, Exists(revised, c) PROVE Exists(applied, c)
    <3>1. c # NoText /\ revised.candidate[c].status # "none"
      BY <2>2 DEF Exists
    <3>2. applied.candidate[c].status # "none"
      <4>1. CASE c \in chosen
        BY <1>15, <1>17, <2>2, <4>1
      <4>2. CASE c \notin chosen
        <5>1. applied.candidate[c].status = marked[c].status
          BY <1>15, <1>17, <2>2, <4>2
        <5>2. CASE c \in matches
          <6>1. revised.candidate[c].status \in Reviewed
            BY <1>1, <5>2 DEF Usable, Reviewed
          <6>2. marked[c].status \in Reviewed
            BY <1>9, <2>2, <6>1
          <6> QED BY <5>1, <6>2 DEF Reviewed
        <5>3. CASE c \notin matches
          BY <1>9, <2>2, <3>1, <5>1, <5>3
        <5> QED BY <5>2, <5>3
      <4> QED BY <4>1, <4>2
    <3> QED BY <3>1, <3>2 DEF Exists
  <2>3. applied.correction[f][1] # NoText => Exists(applied, applied.correction[f][1])
    <3>1. revised.correction[f][1] \in Texts \cup {NoText}
      <4>1. revised.correction \in [Episodes -> (Texts \cup {NoText}) \X (Texts \cup {NoText})]
        BY <1>4, TablesFields
      <4> QED BY <4>1
    <3> QED BY <1>17, <2>1, <2>2, <3>1 DEF EpisodeKept
  <2>4. ASSUME NEW c \in applied.applied[f] PROVE applied.candidate[c].status \in Reviewed
    <3>1. CASE f = e
      <4>1. c \in chosen
        BY <1>13, <1>17, <2>4, <3>1
      <4>2. applied.candidate[c].status = "active"
        BY <1>15, <1>17, <4>1
      <4> QED BY <4>2 DEF Reviewed
    <3>2. CASE f # e
      <4>1. c \in revised.applied[f]
        BY <1>13, <1>17, <2>4, <3>2
      <4>2. c \in Texts /\ revised.candidate[c].status \in Reviewed
        BY <1>5, <2>1, <4>1 DEF EpisodeKept
      <4> QED BY <1>19, <4>2
    <3> QED BY <3>1, <3>2
  <2>5. applied.status[f] = "none" => applied.outcome[f] = NoOutcome
    BY <1>3, <1>7, <1>17, <2>1 DEF EpisodeKept
  <2> QED BY <1>17, <2>1, <2>3, <2>4, <2>5 DEF EpisodeKept
<1>23. TablesKept(applied)
  BY <1>17, <1>19, <1>22 DEF TablesKept
<1>24. \A f \in Episodes : Wanted(applied, f) = Wanted(revised, f)
  BY <1>17 DEF Wanted
<1>25. LearntFrom(applied, e)
  <2>1. applied.outcome[e] = NoOutcome
    BY <1>17, <1>21
  <2>2. applied.correction[e][1] = NoText
    BY <1>23, <2>1 DEF TablesKept, EpisodeKept
  <2>3. Wanted(applied, e) = NoText
    BY <2>1 DEF Wanted, NoOutcome
  <2> QED BY <2>1, <2>2, <2>3 DEF LearntFrom, CorrectionRight, EvaluationRight
<1>26. ASSUME NEW f \in Episodes \ {e} PROVE LearntFrom(applied, f)
  <2>1. \A c \in Texts : revised.candidate[c].fingerprint # c => applied.candidate[c].fingerprint # c
    BY <1>19
  <2>2. applied.applied[f] = revised.applied[f]
    BY <1>13, <1>17
  <2>3. /\ applied.correction[f] = revised.correction[f] /\ applied.outcome[f] = revised.outcome[f]
        /\ applied.evaluation[f] = revised.evaluation[f] /\ applied.judged[f] = revised.judged[f]
    BY <1>17
  <2>4. LearntFrom(revised, f) /\ Wanted(applied, f) = Wanted(revised, f)
    BY <1>3, <1>24 DEF Learnt
  <2> QED BY <1>3, <1>23, <2>1, <2>2, <2>3, <2>4, RightStays
<1>27. Learnt(applied)
  BY <1>25, <1>26 DEF Learnt
<1>28. OpenedInTurn(applied)
  <2>1. \E k \in 0 .. Prompts : {x \in Episodes : status[x] # "none"} = 1 .. k
    BY <1>1, <1>2, <1>7, NextEpisode
  <2> QED BY <1>17, <2>1 DEF OpenedInTurn
<1>29. ASSUME NEW c \in Texts \ cs PROVE SameCandidate(db, db', c)
  <2>1. c \notin matches
    BY <1>29 DEF cs
  <2>2. SameCandidate(db, revised, c)
    BY <1>3
  <2>3. applied.candidate[c] = revised.candidate[c]
    BY <1>15, <1>17, <2>1
  <2> QED BY <1>1, <1>18, <2>2, <2>3 DEF SameCandidate
<1>30. AppShowsStatus'
  <2>1. shown' = Published(db', cs)
    BY <1>1
  <2> QED BY <1>1, <1>2, <1>29, <2>1, ShownStays
<1>31. ExperienceTypeOK'
  <2>1. shown' \in [Texts -> Statuses]
    BY <1>1, <1>2, <1>17, PublishedTyped
  <2> QED BY <1>1, <1>2, <1>17, <2>1 DEF ExperienceTypeOK
<1>32. Quiet(db, db')
  BY <1>1, <1>3, <1>19 DEF Quiet
<1>33. TablesKept(db') /\ OpenedInTurn(db') /\ Learnt(db')
  BY <1>1, <1>23, <1>27, <1>28
<1> QED BY <1>1, <1>30, <1>31, <1>32, <1>33 DEF ExperienceInv

-----------------------------------------------------------------------------
(* The other steps.                                                        *)

\* What is said of candidates changes, and no evidence.
LEMMA CandidatesChange ==
  ASSUME NEW d, TablesKept(d), Learnt(d), NEW x \in Tables, OnlyCandidates(d, x),
         \A c \in Texts :
           /\ CandidateNamed(x, c)
           /\ x.candidate[c].status = "active" => d.candidate[c].status = "active"
           /\ d.candidate[c].status \in Reviewed => x.candidate[c].status \in Reviewed
           /\ Exists(d, c) => Exists(x, c)
           /\ d.candidate[c].fingerprint # c => x.candidate[c].fingerprint # c
  PROVE  /\ TablesKept(x) /\ Learnt(x)
         /\ \A c : Support(x, c) = Support(d, c) /\ Contradictions(x, c) = Contradictions(d, c)
<1>1. d \in Tables /\ (\A e \in Episodes : EpisodeKept(d, e)) /\ \A c \in Texts : CandidateKept(d, c)
  BY DEF TablesKept
<1>2. /\ x.status = d.status /\ x.outcome = d.outcome /\ x.source = d.source
      /\ x.correction = d.correction /\ x.applied = d.applied
      /\ x.evaluation = d.evaluation /\ x.judged = d.judged
  BY DEF OnlyCandidates
<1>3. \A c : Support(x, c) = Support(d, c) /\ Contradictions(x, c) = Contradictions(d, c)
  BY <1>2, SameEvidence
<1>4. \A c \in Texts : CandidateKept(x, c)
  BY <1>1, <1>3 DEF CandidateKept, Supported
<1>5. ASSUME NEW e \in Episodes PROVE EpisodeKept(x, e)
  <2>1. EpisodeKept(d, e)
    BY <1>1
  <2>2. d.correction[e][1] \in Texts \cup {NoText} /\ d.applied[e] \subseteq Texts
    BY <1>1, TablesFields
  <2>3. x.correction[e][1] # NoText => Exists(x, x.correction[e][1])
    BY <1>2, <2>1, <2>2 DEF EpisodeKept
  <2>4. \A c \in x.applied[e] : x.candidate[c].status \in Reviewed
    BY <1>2, <2>1, <2>2 DEF EpisodeKept
  <2> QED BY <1>2, <2>1, <2>3, <2>4 DEF EpisodeKept
<1>6. TablesKept(x)
  BY <1>4, <1>5 DEF TablesKept
<1>7. ASSUME NEW e \in Episodes PROVE LearntFrom(x, e)
  <2>1. Wanted(x, e) = Wanted(d, e)
    BY <1>2 DEF Wanted
  <2>2. /\ x.correction[e] = d.correction[e] /\ x.applied[e] = d.applied[e]
        /\ x.outcome[e] = d.outcome[e] /\ x.evaluation[e] = d.evaluation[e]
        /\ x.judged[e] = d.judged[e]
    BY <1>2
  <2>3. LearntFrom(d, e)
    BY DEF Learnt
  <2>4. \A c \in Texts : d.candidate[c].fingerprint # c => x.candidate[c].fingerprint # c
    OBVIOUS
  <2> QED BY <1>6, <2>1, <2>2, <2>3, <2>4, RightStays
<1>8. Learnt(x)
  BY <1>7 DEF Learnt
<1> QED BY <1>3, <1>6, <1>8

\* One candidate is written.
LEMMA CandidateWritten ==
  ASSUME ExperienceInv, serving, NEW c \in Texts, NEW k \in Candidates,
         db' = [db EXCEPT !.candidate[c] = k],
         shown' = Published(db', {c}), synced' = synced, serving' = serving, crashes' = crashes,
         actions' \in 0 .. MaxActions,
         k.fingerprint \in {db.candidate[c].fingerprint} \cup Edits,
         k.status \in Reviewed, k.status # "active"
  PROVE  ExperienceInv'
<1>1. /\ ExperienceTypeOK /\ TablesKept(db) /\ OpenedInTurn(db) /\ Learnt(db) /\ AppShowsStatus
  BY DEF ExperienceInv
<1>2. db \in Tables /\ \A a \in Texts : CandidateKept(db, a)
  BY <1>1 DEF TablesKept
<1> DEFINE candidate == [db.candidate EXCEPT ![c] = k]
<1>3. db.candidate \in [Texts -> Candidates]
  BY <1>2, TablesFields
<1>4. /\ candidate \in [Texts -> Candidates] /\ candidate[c] = k
      /\ \A a \in Texts \ {c} : candidate[a] = db.candidate[a]
  BY <1>3
<1>5. db' = [db EXCEPT !.candidate = candidate]
  OBVIOUS
<1> HIDE DEF candidate
<1>6. db' \in Tables /\ OnlyCandidates(db, db') /\ db'.candidate = candidate
  BY <1>2, <1>4, <1>5 DEF Tables, OnlyCandidates
<1>7. ASSUME NEW a \in Texts
      PROVE  /\ CandidateNamed(db', a)
             /\ db'.candidate[a].status = "active" => db.candidate[a].status = "active"
             /\ db.candidate[a].status \in Reviewed => db'.candidate[a].status \in Reviewed
             /\ Exists(db, a) => Exists(db', a)
             /\ db.candidate[a].fingerprint # a => db'.candidate[a].fingerprint # a
  <2>1. CandidateNamed(db, a)
    BY <1>2 DEF CandidateKept
  <2>2. CASE a = c
    <3>1. db'.candidate[a] = k
      BY <1>4, <1>6, <2>2
    <3>2. k.fingerprint \in {a} \cup Edits
      BY <2>1, <2>2 DEF CandidateNamed
    <3>3. db.candidate[a].fingerprint # a => k.fingerprint # a
      BY <2>1, <2>2, ExperienceAssumption DEF CandidateNamed
    <3> QED BY <3>1, <3>2, <3>3 DEF CandidateNamed, Exists, Reviewed
  <2>3. CASE a # c
    <3>1. db'.candidate[a] = db.candidate[a]
      BY <1>4, <1>6, <2>3
    <3> QED BY <2>1, <3>1 DEF CandidateNamed, Exists
  <2> QED BY <2>2, <2>3
<1>8. /\ TablesKept(db') /\ Learnt(db')
      /\ \A a : Support(db', a) = Support(db, a) /\ Contradictions(db', a) = Contradictions(db, a)
  BY <1>1, <1>6, <1>7, CandidatesChange
<1>9. \A a \in Texts \ {c} : SameCandidate(db, db', a)
  BY <1>4, <1>6, <1>8 DEF SameCandidate
<1>10. AppShowsStatus'
  BY <1>1, <1>9, ShownStays
<1>11. shown' \in [Texts -> Statuses]
  BY <1>1, <1>6, PublishedTyped
<1>12. OpenedInTurn(db')
  BY <1>1, <1>6 DEF OpenedInTurn, OnlyCandidates
<1>13. ExperienceTypeOK'
  BY <1>1, <1>6, <1>11 DEF ExperienceTypeOK
<1> QED BY <1>8, <1>10, <1>12, <1>13 DEF ExperienceInv

\* A late message changes nothing but what the App is told again.
LEMMA CandidateUnchanged ==
  ASSUME ExperienceInv, serving, NEW c \in Texts, db' = db,
         shown' = Published(db', {c}), synced' = synced, serving' = serving, crashes' = crashes,
         actions' \in 0 .. MaxActions
  PROVE  ExperienceInv'
<1>1. /\ ExperienceTypeOK /\ TablesKept(db) /\ OpenedInTurn(db) /\ Learnt(db) /\ AppShowsStatus
  BY DEF ExperienceInv
<1>2. \A a \in Texts \ {c} : SameCandidate(db, db', a)
  BY DEF SameCandidate
<1>3. AppShowsStatus'
  BY <1>1, <1>2, ShownStays
<1>4. shown' \in [Texts -> Statuses]
  <2>1. db \in Tables
    BY <1>1 DEF TablesKept
  <2> QED BY <1>1, <2>1, PublishedTyped
<1>5. ExperienceTypeOK'
  BY <1>1, <1>4 DEF ExperienceTypeOK
<1> QED BY <1>1, <1>3, <1>5 DEF ExperienceInv

\* A user reviews a candidate.
LEMMA SetReviewStep ==
  ASSUME ExperienceInv, NEW c \in Texts, NEW decision \in {"approved", "rejected"},
         NEW fingerprint \in Edits \cup {db.candidate[c].fingerprint}, NEW late \in BOOLEAN,
         SetReview(c, decision, fingerprint, late)
  PROVE  ExperienceInv'
<1> DEFINE k == [fingerprint |-> fingerprint, status |-> decision]
<1>1. /\ serving /\ actions < MaxActions /\ actions' = actions + 1
      /\ db' = IF late THEN db ELSE [db EXCEPT !.candidate[c] = k]
      /\ shown' = Published(db', {c})
      /\ serving' = serving /\ synced' = synced /\ crashes' = crashes
  BY DEF SetReview
<1>2. ExperienceTypeOK /\ db \in Tables
  BY DEF ExperienceInv, TablesKept
<1>3. actions' \in 0 .. MaxActions
  BY <1>1, <1>2, ExperienceAssumption DEF ExperienceTypeOK
<1>4. CASE late
  <2>1. db' = db
    BY <1>1, <1>4
  <2> QED BY <1>1, <1>3, <2>1, CandidateUnchanged
<1>5. CASE ~late
  <2>1. db.candidate[c].fingerprint \in Texts \cup Edits
    BY <1>2, TablesFields DEF Candidates
  <2>2. k \in Candidates
    BY <2>1 DEF Candidates, Statuses
  <2>3. /\ k.fingerprint \in {db.candidate[c].fingerprint} \cup Edits
        /\ k.status \in Reviewed /\ k.status # "active"
    BY DEF Reviewed
  <2>4. db' = [db EXCEPT !.candidate[c] = k]
    BY <1>1, <1>5
  <2> HIDE DEF k
  <2> QED BY <1>1, <1>3, <2>2, <2>3, <2>4, CandidateWritten
<1> QED BY <1>4, <1>5

\* A user pauses, resumes or deprecates a candidate.
LEMMA SetLifecycleStep ==
  ASSUME ExperienceInv, NEW c \in Texts, NEW action \in {"pause", "resume", "deprecate"},
         NEW late \in BOOLEAN, SetLifecycle(c, action, late)
  PROVE  ExperienceInv'
<1> DEFINE s == LifecycleStatus(db.candidate[c].status, action)
           k == [db.candidate[c] EXCEPT !.status = s]
<1>1. /\ serving /\ actions < MaxActions /\ actions' = actions + 1
      /\ s # "none"
      /\ db' = IF late THEN db ELSE [db EXCEPT !.candidate[c] = k]
      /\ shown' = Published(db', {c})
      /\ serving' = serving /\ synced' = synced /\ crashes' = crashes
  BY DEF SetLifecycle
<1>2. ExperienceTypeOK /\ db \in Tables
  BY DEF ExperienceInv, TablesKept
<1>3. actions' \in 0 .. MaxActions
  BY <1>1, <1>2, ExperienceAssumption DEF ExperienceTypeOK
<1>4. CASE late
  <2>1. db' = db
    BY <1>1, <1>4
  <2> QED BY <1>1, <1>3, <2>1, CandidateUnchanged
<1>5. CASE ~late
  <2>1. db.candidate[c] \in Candidates
    BY <1>2, TablesFields
  <2>2. s \in {"paused", "approved", "deprecated"}
    BY <1>1 DEF LifecycleStatus
  <2> HIDE DEF s
  <2>3. k \in Candidates /\ k.fingerprint = db.candidate[c].fingerprint /\ k.status = s
    BY <2>1, <2>2 DEF Candidates, Statuses
  <2>4. db' = [db EXCEPT !.candidate[c] = k]
    BY <1>1, <1>5
  <2> HIDE DEF k
  <2>5. /\ k.fingerprint \in {db.candidate[c].fingerprint} \cup Edits
        /\ k.status \in Reviewed /\ k.status # "active"
    BY <2>2, <2>3 DEF Reviewed
  <2> QED BY <1>1, <1>3, <2>3, <2>4, <2>5, CandidateWritten
<1> QED BY <1>4, <1>5

\* What is learnt has no part in a step.
LEMMA AsideKeeps ==
  ASSUME ExperienceInv, serving, db' \in Tables,
         db'.candidate = db.candidate, db'.outcome = db.outcome, db'.source = db.source,
         db'.correction = db.correction, db'.applied = db.applied,
         db'.evaluation = db.evaluation, db'.judged = db.judged,
         \A e \in Episodes : db'.status[e] = "none" <=> db.status[e] = "none",
         UNCHANGED <<serving, shown, synced, crashes, actions>>
  PROVE  ExperienceInv' /\ Quiet(db, db')
<1>1. /\ ExperienceTypeOK /\ TablesKept(db) /\ OpenedInTurn(db) /\ Learnt(db) /\ AppShowsStatus
  BY DEF ExperienceInv
<1>2. \A c : Support(db', c) = Support(db, c) /\ Contradictions(db', c) = Contradictions(db, c)
  BY SameEvidence
<1>3. \A c \in Texts : CandidateKept(db', c)
  BY <1>1, <1>2 DEF TablesKept, CandidateKept, CandidateNamed, Supported
<1>4. \A e \in Episodes : EpisodeKept(db', e)
  BY <1>1 DEF TablesKept, EpisodeKept, Exists
<1>5. TablesKept(db')
  BY <1>3, <1>4 DEF TablesKept
<1>6. ASSUME NEW e \in Episodes PROVE LearntFrom(db', e)
  <2>1. Wanted(db', e) = Wanted(db, e)
    BY DEF Wanted
  <2>2. LearntFrom(db, e)
    BY <1>1 DEF Learnt
  <2>3. /\ db'.correction[e] = db.correction[e] /\ db'.applied[e] = db.applied[e]
        /\ db'.outcome[e] = db.outcome[e] /\ db'.evaluation[e] = db.evaluation[e]
        /\ db'.judged[e] = db.judged[e]
    OBVIOUS
  <2>4. \A c \in Texts : db.candidate[c].fingerprint # c => db'.candidate[c].fingerprint # c
    OBVIOUS
  <2> QED BY <1>1, <1>5, <2>1, <2>2, <2>3, <2>4, RightStays
<1>7. Learnt(db')
  BY <1>6 DEF Learnt
<1>8. OpenedInTurn(db')
  <2>1. {e \in Episodes : db'.status[e] # "none"} = {e \in Episodes : db.status[e] # "none"}
    OBVIOUS
  <2> QED BY <1>1, <2>1 DEF OpenedInTurn
<1>9. AppShowsStatus'
  BY <1>1, <1>2 DEF AppShowsStatus, Exists
<1>10. ExperienceTypeOK'
  BY <1>1 DEF ExperienceTypeOK
<1>11. Quiet(db, db')
  BY DEF Quiet
<1> QED BY <1>5, <1>7, <1>8, <1>9, <1>10, <1>11 DEF ExperienceInv

\* The provider ends an episode.
LEMMA EndEpisodeStep ==
  ASSUME ExperienceInv, NEW e \in Episodes, NEW how \in {"delivered", "failed", "abandoned"},
         EndEpisode(e, how)
  PROVE  ExperienceInv' /\ Quiet(db, db')
<1> DEFINE status == [db.status EXCEPT ![e] = how]
<1>1. /\ serving /\ db.status[e] = "working" /\ db' = [db EXCEPT !.status = status]
      /\ UNCHANGED <<serving, shown, synced, crashes, actions>>
  BY DEF EndEpisode
<1>2. db \in Tables
  BY DEF ExperienceInv, TablesKept
<1>3. db.status \in [Episodes -> {"none", "working", "delivered", "failed", "abandoned"}]
  BY <1>2, TablesFields
<1>4. /\ status \in [Episodes -> {"none", "working", "delivered", "failed", "abandoned"}]
      /\ \A f \in Episodes : status[f] = "none" <=> db.status[f] = "none"
  BY <1>1, <1>3
<1> HIDE DEF status
<1>5. /\ db' \in Tables /\ db'.status = status
      /\ db'.candidate = db.candidate /\ db'.outcome = db.outcome /\ db'.source = db.source
      /\ db'.correction = db.correction /\ db'.applied = db.applied
      /\ db'.evaluation = db.evaluation /\ db'.judged = db.judged
  BY <1>1, <1>2, <1>4 DEF Tables
<1>6. \A f \in Episodes : db'.status[f] = "none" <=> db.status[f] = "none"
  BY <1>4, <1>5
<1> QED BY <1>1, <1>5, <1>6, AsideKeeps

\* A user judges a match.
LEMMA SetFeedbackStep ==
  ASSUME ExperienceInv, NEW e \in Episodes, NEW c \in Texts,
         NEW f \in {"relevant", "not_relevant"}, SetFeedback(e, c, f)
  PROVE  ExperienceInv' /\ Quiet(db, db')
<1> DEFINE feedback == [db.feedback EXCEPT ![e][c] = f]
<1>1. /\ serving /\ db' = [db EXCEPT !.feedback = feedback]
      /\ UNCHANGED <<serving, shown, synced, crashes, actions>>
  BY DEF SetFeedback
<1>2. db \in Tables
  BY DEF ExperienceInv, TablesKept
<1>3. db.feedback \in [Episodes -> [Texts -> {"none", "relevant", "not_relevant"}]]
  BY <1>2 DEF Tables
<1>4. feedback \in [Episodes -> [Texts -> {"none", "relevant", "not_relevant"}]]
  BY <1>3
<1> HIDE DEF feedback
<1>5. /\ db' \in Tables /\ db'.status = db.status
      /\ db'.candidate = db.candidate /\ db'.outcome = db.outcome /\ db'.source = db.source
      /\ db'.correction = db.correction /\ db'.applied = db.applied
      /\ db'.evaluation = db.evaluation /\ db'.judged = db.judged
  BY <1>1, <1>2, <1>4 DEF Tables
<1> QED BY <1>1, <1>5, AsideKeeps

\* The project turns the injection on or off.
LEMMA SetActivationStep ==
  ASSUME ExperienceInv, NEW on \in BOOLEAN, SetActivation(on)
  PROVE  ExperienceInv' /\ Quiet(db, db')
<1>1. /\ serving /\ db' = [db EXCEPT !.requested = on]
      /\ UNCHANGED <<serving, shown, synced, crashes, actions>>
  BY DEF SetActivation
<1>2. db \in Tables
  BY DEF ExperienceInv, TablesKept
<1>3. /\ db' \in Tables /\ db'.status = db.status
      /\ db'.candidate = db.candidate /\ db'.outcome = db.outcome /\ db'.source = db.source
      /\ db'.correction = db.correction /\ db'.applied = db.applied
      /\ db'.evaluation = db.evaluation /\ db'.judged = db.judged
  BY <1>1, <1>2 DEF Tables
<1> QED BY <1>1, <1>3, AsideKeeps

\* The App's link is lost.
LEMMA LoseLinkStep ==
  ASSUME ExperienceInv, LoseLink
  PROVE  ExperienceInv' /\ Quiet(db, db')
<1>1. /\ synced /\ crashes < MaxCuts /\ crashes' = crashes + 1 /\ synced' = FALSE
      /\ db' = db /\ serving' = serving /\ shown' = shown /\ actions' = actions
  BY DEF LoseLink
<1>2. crashes' \in 0 .. MaxCuts
  BY <1>1, ExperienceAssumption DEF ExperienceInv, ExperienceTypeOK
<1>3. ExperienceTypeOK'
  BY <1>1, <1>2 DEF ExperienceInv, ExperienceTypeOK
<1>4. AppShowsStatus'
  BY <1>1 DEF AppShowsStatus
<1> QED BY <1>1, <1>3, <1>4 DEF ExperienceInv, Quiet

\* The App asks for the candidates.
LEMMA SyncExperienceStep ==
  ASSUME ExperienceInv, SyncExperience
  PROVE  ExperienceInv' /\ Quiet(db, db')
<1>1. /\ serving /\ synced' = TRUE
      /\ shown' = [c \in Texts |-> IF Exists(db, c) /\ Support(db, c) + Contradictions(db, c) > 0
                                   THEN db.candidate[c].status ELSE shown[c]]
      /\ db' = db /\ serving' = serving /\ crashes' = crashes /\ actions' = actions
  BY DEF SyncExperience
<1>2. /\ ExperienceTypeOK /\ TablesKept(db) /\ OpenedInTurn(db) /\ Learnt(db)
  BY <1>1 DEF ExperienceInv
<1>3. \A c \in Texts : db.candidate[c].status \in Statuses
  BY <1>2, TablesFields DEF TablesKept, Candidates
<1>4. shown' \in [Texts -> Statuses]
  BY <1>1, <1>2, <1>3 DEF ExperienceTypeOK
<1>5. ExperienceTypeOK'
  BY <1>1, <1>2, <1>4 DEF ExperienceTypeOK
<1>6. AppShowsStatus'
  BY <1>1 DEF AppShowsStatus
<1> QED BY <1>1, <1>2, <1>5, <1>6 DEF ExperienceInv, Quiet

\* The process starts again: episodes are reconciled, then evaluated.
LEMMA RestartStep ==
  ASSUME ExperienceInv, NEW order \in Orders, NEW stale \in SUBSET Texts,
         Restart(order, stale)
  PROVE  ExperienceInv' /\ Quiet(db, db')
<1> DEFINE reconciled == ReconciledAll(db, order)
           filled == Backfilled(reconciled, order)
           candidate == [c \in Texts |-> IF c \in stale
                                         THEN [filled.candidate[c] EXCEPT !.status = "paused"]
                                         ELSE filled.candidate[c]]
<1>1. /\ ~serving /\ \A e \in Episodes : ~Collides(db, e)
      /\ \A c \in stale : filled.candidate[c].status \in Usable
      /\ db' = [filled EXCEPT !.candidate = candidate]
      /\ serving' = TRUE
      /\ shown' = shown /\ synced' = synced /\ crashes' = crashes /\ actions' = actions
  BY DEF Restart
<1>2. /\ ExperienceTypeOK /\ TablesKept(db) /\ OpenedInTurn(db) /\ ~synced
  BY <1>1 DEF ExperienceInv
<1>3. /\ TablesKept(reconciled) /\ Onward(db, reconciled, Texts)
      /\ \A e \in Episodes : CorrectionRight(reconciled, e)
  BY <1>1, <1>2, ReconciledAllKeeps
<1> HIDE DEF reconciled
<1>4. /\ TablesKept(filled) /\ Onward(reconciled, filled, Texts)
      /\ filled.correction = reconciled.correction
      /\ \A e \in Episodes : EvaluationRight(filled, e)
  BY <1>3, BackfilledKeeps
<1> HIDE DEF filled
<1>5. \A e \in Episodes : Wanted(filled, e) = Wanted(reconciled, e)
  BY <1>4, OnwardWanted
<1>6. Learnt(filled)
  BY <1>3, <1>4, <1>5 DEF Learnt, LearntFrom, CorrectionRight
<1>7. Onward(db, filled, Texts)
  BY <1>3, <1>4, OnwardBoth
<1>8. filled \in Tables /\ \A c \in Texts : CandidateKept(filled, c)
  BY <1>4 DEF TablesKept
<1>9. filled.candidate \in [Texts -> Candidates]
  BY <1>8, TablesFields
<1>10. ASSUME NEW c \in Texts
       PROVE  /\ candidate[c] \in Candidates
              /\ candidate[c].fingerprint = filled.candidate[c].fingerprint
              /\ candidate[c].status = IF c \in stale THEN "paused" ELSE filled.candidate[c].status
  <2>1. filled.candidate[c] \in Candidates
    BY <1>9
  <2>2. candidate[c] = IF c \in stale THEN [filled.candidate[c] EXCEPT !.status = "paused"]
                       ELSE filled.candidate[c]
    OBVIOUS
  <2> HIDE DEF candidate
  <2> QED BY <2>1, <2>2 DEF Candidates, Statuses
<1>11. candidate \in [Texts -> Candidates]
  <2>1. \A c \in Texts : candidate[c] \in Candidates
    BY <1>10
  <2> QED BY <2>1
<1> HIDE DEF candidate
<1>12. db' \in Tables /\ OnlyCandidates(filled, db') /\ db'.candidate = candidate
  BY <1>1, <1>8, <1>11 DEF Tables, OnlyCandidates
<1>13. ASSUME NEW c \in Texts
       PROVE  /\ CandidateNamed(db', c)
              /\ db'.candidate[c].status = "active" => filled.candidate[c].status = "active"
              /\ filled.candidate[c].status \in Reviewed => db'.candidate[c].status \in Reviewed
              /\ filled.candidate[c].status \in Dormant => db'.candidate[c].status \in Dormant
              /\ Exists(filled, c) => Exists(db', c)
              /\ filled.candidate[c].fingerprint # c => db'.candidate[c].fingerprint # c
  <2>1. CandidateNamed(filled, c)
    BY <1>8 DEF CandidateKept
  <2> QED BY <1>10, <1>12, <2>1 DEF CandidateNamed, Exists, Reviewed, Dormant
<1>14. TablesKept(db') /\ Learnt(db')
  <2>1. \A c \in Texts :
          /\ CandidateNamed(db', c)
          /\ db'.candidate[c].status = "active" => filled.candidate[c].status = "active"
          /\ filled.candidate[c].status \in Reviewed => db'.candidate[c].status \in Reviewed
          /\ Exists(filled, c) => Exists(db', c)
          /\ filled.candidate[c].fingerprint # c => db'.candidate[c].fingerprint # c
    BY <1>13
  <2> QED BY <1>4, <1>6, <1>12, <2>1, CandidatesChange
<1>15. OpenedInTurn(db')
  BY <1>2, <1>7, <1>12 DEF OpenedInTurn, OnlyCandidates, Onward
<1>16. ExperienceTypeOK'
  BY <1>1, <1>2, <1>12 DEF ExperienceTypeOK
<1>17. AppShowsStatus'
  BY <1>1, <1>2 DEF AppShowsStatus
<1>18. Quiet(db, db')
  BY <1>7, <1>13 DEF Onward, Quiet
<1> QED BY <1>1, <1>14, <1>15, <1>16, <1>17, <1>18 DEF ExperienceInv

\* Nothing was learnt yet.
LEMMA ExperienceBegins == ExperienceInit => ExperienceInv
<1> SUFFICES ASSUME ExperienceInit PROVE ExperienceInv
  OBVIOUS
<1>1. Prompts \in Nat /\ MaxCuts \in Nat /\ MaxActions \in Nat
  BY ExperienceAssumption
<1>2. \A c \in Texts : [fingerprint |-> c, status |-> "none"] \in Candidates
  BY DEF Candidates, Statuses
<1>3. db \in Tables
  BY <1>2 DEF ExperienceInit, Tables, NoOutcome
<1>4. /\ \A e \in Episodes : /\ db.status[e] = "none" /\ db.outcome[e] = NoOutcome
                             /\ db.source[e] = "none"
                             /\ db.correction[e] = <<NoText, NoText>> /\ db.applied[e] = {}
      /\ \A c \in Texts : db.candidate[c] = [fingerprint |-> c, status |-> "none"]
      /\ serving = TRUE /\ synced = FALSE /\ shown = [c \in Texts |-> "none"]
      /\ crashes = 0 /\ actions = 0
  BY DEF ExperienceInit
<1>5. \A c \in Texts : CandidateKept(db, c)
  <2>1. ASSUME NEW c \in Texts
        PROVE  db.candidate[c].fingerprint = c /\ db.candidate[c].status = "none"
    <3>1. db.candidate[c] = [fingerprint |-> c, status |-> "none"]
      BY <1>4
    <3> QED BY <3>1
  <2> QED BY <2>1 DEF CandidateKept, CandidateNamed
<1>6. \A e \in Episodes : EpisodeKept(db, e)
  BY <1>4 DEF EpisodeKept
<1>7. OpenedInTurn(db)
  <2>1. {e \in Episodes : db.status[e] # "none"} = 1 .. 0
    BY <1>4
  <2> QED BY <1>1, <2>1 DEF OpenedInTurn
<1>8. \A e \in Episodes : CorrectionRight(db, e) /\ EvaluationRight(db, e)
  BY <1>4 DEF CorrectionRight, EvaluationRight, Wanted, NoOutcome
<1>9. ExperienceTypeOK
  <2>1. shown \in [Texts -> Statuses]
    BY <1>4 DEF Statuses
  <2>2. serving \in BOOLEAN /\ synced \in BOOLEAN
    BY <1>4
  <2>3. crashes \in 0 .. MaxCuts /\ actions \in 0 .. MaxActions
    BY <1>1, <1>4
  <2> QED BY <1>3, <2>1, <2>2, <2>3 DEF ExperienceTypeOK
<1> QED BY <1>3, <1>4, <1>5, <1>6, <1>7, <1>8, <1>9
        DEF ExperienceInv, TablesKept, Learnt, LearntFrom, AppShowsStatus

\* The invariant is inductive, and only a user's action brings a candidate back.
LEMMA ExperienceStep ==
  ASSUME ExperienceInv, [ExperienceNext]_experienceVars
  PROVE  ExperienceInv' /\ (Quiet(db, db') \/ actions' # actions)
<1>1. ASSUME NEW e \in Episodes, NEW git \in BOOLEAN, NEW m \in SUBSET Texts, NEW c \in SUBSET Texts,
             SubmitPrompt(e, git, m, c)
      PROVE  ExperienceInv' /\ Quiet(db, db')
  BY <1>1, SubmitStep
<1>2. ASSUME NEW e \in Episodes, NEW how \in {"delivered", "failed", "abandoned"}, EndEpisode(e, how)
      PROVE  ExperienceInv' /\ Quiet(db, db')
  BY <1>2, EndEpisodeStep
<1>3. ASSUME NEW e \in Episodes, NEW o \in Outcomes, NEW late \in BOOLEAN, SetOutcome(e, o, late)
      PROVE  ExperienceInv' /\ actions' # actions
  <2>1. actions' = actions + 1 /\ actions \in Nat
    BY <1>3, ExperienceAssumption DEF SetOutcome, ExperienceInv, ExperienceTypeOK
  <2> QED BY <1>3, <2>1, SetOutcomeStep
<1>4. ASSUME NEW e \in Episodes, NEW o \in Outcomes, CrashAfterOutcome(e, o)
      PROVE  ExperienceInv' /\ actions' # actions
  <2>1. actions' = actions + 1 /\ actions \in Nat
    BY <1>4, ExperienceAssumption DEF CrashAfterOutcome, ExperienceInv, ExperienceTypeOK
  <2> QED BY <1>4, <2>1, CrashAfterOutcomeStep
<1>5. ASSUME NEW c \in Texts, NEW late \in BOOLEAN, NEW d \in {"approved", "rejected"},
             NEW f \in Edits \cup {db.candidate[c].fingerprint}, SetReview(c, d, f, late)
      PROVE  ExperienceInv' /\ actions' # actions
  <2>1. actions' = actions + 1 /\ actions \in Nat
    BY <1>5, ExperienceAssumption DEF SetReview, ExperienceInv, ExperienceTypeOK
  <2> QED BY <1>5, <2>1, SetReviewStep
<1>6. ASSUME NEW c \in Texts, NEW late \in BOOLEAN, NEW a \in {"pause", "resume", "deprecate"},
             SetLifecycle(c, a, late)
      PROVE  ExperienceInv' /\ actions' # actions
  <2>1. actions' = actions + 1 /\ actions \in Nat
    BY <1>6, ExperienceAssumption DEF SetLifecycle, ExperienceInv, ExperienceTypeOK
  <2> QED BY <1>6, <2>1, SetLifecycleStep
<1>7. ASSUME NEW e \in Episodes, NEW c \in Texts, NEW f \in {"relevant", "not_relevant"},
             SetFeedback(e, c, f)
      PROVE  ExperienceInv' /\ Quiet(db, db')
  BY <1>7, SetFeedbackStep
<1>8. ASSUME NEW on \in BOOLEAN, SetActivation(on)
      PROVE  ExperienceInv' /\ Quiet(db, db')
  BY <1>8, SetActivationStep
<1>9. ASSUME NEW order \in Orders, NEW stale \in SUBSET Texts, Restart(order, stale)
      PROVE  ExperienceInv' /\ Quiet(db, db')
  BY <1>9, RestartStep
<1>10. CASE UNCHANGED experienceVars
  BY <1>10 DEF experienceVars, ExperienceInv, ExperienceTypeOK, AppShowsStatus, Quiet
<1>11. CASE LoseLink
  BY <1>11, LoseLinkStep
<1>12. CASE SyncExperience
  BY <1>12, SyncExperienceStep
<1> QED BY <1>1, <1>2, <1>3, <1>4, <1>5, <1>6, <1>7, <1>8, <1>9, <1>10, <1>11, <1>12
        DEF ExperienceNext

\* Learning keeps its invariant: every handler, a crash between its transactions,
\* and what the constructor of AgentService makes up for at the next start.
THEOREM ExperienceKept == ExperienceSpec => []ExperienceInv
<1>1. ExperienceInv /\ [ExperienceNext]_experienceVars => ExperienceInv'
  BY ExperienceStep
<1> QED BY <1>1, ExperienceBegins, PTL DEF ExperienceSpec

\* What is in use, counted and shown agrees with what users have said, for any
\* number of episodes and candidates, wherever the process ended.
THEOREM LearningIsSound == ExperienceSpec => []LearnedSound
<1>1. ExperienceInv => LearnedSound
  <2> SUFFICES ASSUME ExperienceInv PROVE LearnedSound
    OBVIOUS
  <2>1. ActiveIsSupported
    BY DEF ExperienceInv, TablesKept, CandidateKept, ActiveIsSupported
  <2>2. ASSUME serving, NEW e \in Episodes, ~Collides(db, e)
        PROVE  CorrectionRight(db, e) /\ EvaluationRight(db, e)
    BY <2>2 DEF ExperienceInv, Learnt, LearntFrom
  <2>3. EvaluationAgrees
    <3> SUFFICES ASSUME serving, NEW e \in Episodes, db.applied[e] # {},
                        db.outcome[e] # NoOutcome, ~Collides(db, e)
                 PROVE  /\ db.evaluation[e] = db.outcome[e]
                        /\ \A c \in db.applied[e] :
                             (db.judged[e][c] = "supporting") = (db.outcome[e][1] = "accepted")
      BY DEF EvaluationAgrees
    <3> QED BY <2>2 DEF EvaluationRight
  <2>4. CorrectionsKept
    <3> SUFFICES ASSUME serving, NEW e \in Episodes, ~Collides(db, e)
                 PROVE  (Wanted(db, e) # NoText) = Exists(db, db.correction[e][1])
      BY DEF CorrectionsKept
    <3>1. db.correction[e][1] = Wanted(db, e)
      BY <2>2 DEF CorrectionRight
    <3>2. db.correction[e][1] # NoText => Exists(db, db.correction[e][1])
      BY DEF ExperienceInv, TablesKept, EpisodeKept
    <3> QED BY <3>1, <3>2 DEF Exists
  <2>5. AppShowsStatus
    BY DEF ExperienceInv
  <2> QED BY <2>1, <2>3, <2>4, <2>5 DEF LearnedSound, EvidenceAgrees
<1> QED BY <1>1, ExperienceKept, PTL

\* A candidate that was paused, rejected or deprecated comes back into use by a
\* user's review or lifecycle action only.
THEOREM RevivalIsAsked == ExperienceSpec => NoSilentRevival
<1>1. ASSUME ExperienceInv, [ExperienceNext]_experienceVars
      PROVE  [\A c \in Texts :
                db.candidate[c].status \in {"paused", "rejected", "deprecated"}
                  /\ db'.candidate[c].status \in Usable => actions' # actions]_experienceVars
  <2>1. Quiet(db, db') \/ actions' # actions
    BY <1>1, ExperienceStep
  <2> QED BY <2>1 DEF Quiet, Dormant, Usable
<1> QED BY <1>1, ExperienceKept, PTL DEF ExperienceSpec, NoSilentRevival

-----------------------------------------------------------------------------
(* The timeline of a surface.                                              *)

TimelineFrames ==
  [kind : {"event", "sync"}, revs : UNION {[D -> Nat] : D \in SUBSET Events},
   next : Nat, more : BOOLEAN]

\* A frame shows event e as it is stored now.
Brings(m, e) == e \in DOMAIN m.revs /\ m.revs[e] = stored[e].rev

TimelineTypes ==
  /\ stored \in [Events -> [rev : Nat, cursor : Nat]]
  /\ lastCursor \in Nat /\ cursor \in Nat /\ lists \in Nat /\ drops \in Nat
  /\ online \in BOOLEAN
  /\ toPhone \in Seq(TimelineFrames) /\ toStore \in Seq(Nat)
  /\ have \in [Events -> Nat]

Given == {e \in Events : stored[e].cursor > 0}

\* Events have cursors of their own, among those given so far.
CursorsGiven ==
  /\ IsFiniteSet(Given)
  /\ \A x \in Events : /\ stored[x].cursor <= lastCursor
                       /\ stored[x].cursor = 0 => stored[x].rev = 0
  /\ \A x, y \in Events : stored[x].cursor = stored[y].cursor /\ stored[x].cursor > 0 => x = y
  /\ cursor <= lastCursor

\* Nothing is under way to an App that is not connected.
OfflineQuiet == ~online => toPhone = <<>> /\ toStore = <<>> /\ lists = 0

\* A frame brings no revision that the App is past or the store has not made;
\* and what lies between the App's cursor and the frame's it brings as stored.
FrameRight(m) ==
  /\ \A e \in DOMAIN m.revs : have[e] <= m.revs[e] /\ m.revs[e] <= stored[e].rev
  /\ m.next <= lastCursor
  /\ \A e \in Events : stored[e].cursor > cursor /\ stored[e].cursor <= m.next => Brings(m, e)

\* Frames come in the order of the revisions they bring.
Forward ==
  \A i, j \in DOMAIN toPhone : i < j =>
    \A e \in DOMAIN toPhone[i].revs \cap DOMAIN toPhone[j].revs :
      toPhone[i].revs[e] <= toPhone[j].revs[e]

UnderWay ==
  /\ \A e \in Events : have[e] <= stored[e].rev
  /\ \A i \in DOMAIN toPhone : FrameRight(toPhone[i])
  /\ Forward
  /\ \A i \in DOMAIN toStore : toStore[i] <= cursor

\* What the cursor covers the App shows as it is stored.
CursorCovers ==
  \A e \in Events : stored[e].cursor > 0 /\ stored[e].cursor <= cursor => have[e] = stored[e].rev

\* What the App lacks is on its way, or asked for, or will be by the frame that
\* says there is more.
Awaited(e) ==
  \/ have[e] = stored[e].rev
  \/ \E i \in DOMAIN toPhone : Brings(toPhone[i], e)
  \/ \E i \in DOMAIN toStore : toStore[i] < stored[e].cursor
  \/ \E i \in DOMAIN toPhone : toPhone[i].more /\ toPhone[i].next < stored[e].cursor

TimelineInv ==
  /\ TimelineTypes /\ CursorsGiven /\ OfflineQuiet /\ UnderWay /\ CursorCovers
  /\ online /\ lists > 0 => \A e \in Events : Awaited(e)

-----------------------------------------------------------------------------

LEMMA FrameTypes ==
  ASSUME NEW m \in TimelineFrames
  PROVE  /\ DOMAIN m.revs \subseteq Events /\ m.next \in Nat /\ m.more \in BOOLEAN
         /\ \A e \in DOMAIN m.revs : m.revs[e] \in Nat
<1>1. m.revs \in UNION {[D -> Nat] : D \in SUBSET Events} /\ m.next \in Nat /\ m.more \in BOOLEAN
  BY DEF TimelineFrames
<1>2. PICK D \in SUBSET Events : m.revs \in [D -> Nat]
  BY <1>1
<1> QED BY <1>1, <1>2

\* A frame with an event just stored, and one with a page.
LEMMA LiveMade ==
  ASSUME NEW e \in Events, NEW r \in Nat
  PROVE  /\ LiveFrame(e, r) \in TimelineFrames
         /\ DOMAIN LiveFrame(e, r).revs = {e} /\ LiveFrame(e, r).revs[e] = r
         /\ LiveFrame(e, r).next = 0 /\ LiveFrame(e, r).more = FALSE
<1>1. [x \in {e} |-> r] \in [{e} -> Nat] /\ {e} \in SUBSET Events
  OBVIOUS
<1>2. [x \in {e} |-> r] \in UNION {[D -> Nat] : D \in SUBSET Events}
  BY <1>1
<1> QED BY <1>1, <1>2 DEF LiveFrame, TimelineFrames

LEMMA PageMade ==
  ASSUME NEW D \in SUBSET Events, NEW f \in [D -> Nat], NEW n \in Nat, NEW b \in BOOLEAN
  PROVE  /\ Page(f, n, b) \in TimelineFrames
         /\ Page(f, n, b).revs = f /\ Page(f, n, b).next = n /\ Page(f, n, b).more = b
  BY DEF Page, TimelineFrames

\* A set of numbers with a bound has a greatest element, which is its Max.
LEMMA Greatest ==
  ASSUME NEW S, S # {}, NEW N \in Nat, S \subseteq 0 .. N
  PROVE  Max(S) \in S /\ \A x \in S : x <= Max(S)
<1> DEFINE T == {N - x : x \in S}
<1>1. T \subseteq Nat /\ T # {}
  <2>1. \A x \in S : N - x \in Nat
    OBVIOUS
  <2> QED BY <2>1
<1>2. PICK t \in T : \A y \in T : t <= y
  BY <1>1, Smallest
<1>3. PICK x \in S : t = N - x
  OBVIOUS
<1>4. \A y \in S : x >= y
  <2> SUFFICES ASSUME NEW y \in S PROVE x >= y
    OBVIOUS
  <2>1. N - y \in T
    OBVIOUS
  <2>2. N - x <= N - y
    BY <1>2, <1>3, <2>1
  <2>3. x \in Nat /\ y \in Nat
    OBVIOUS
  <2> HIDE DEF T
  <2> QED BY <2>2, <2>3
<1>5. \E y \in S : \A z \in S : y >= z
  BY <1>4
<1>6. Max(S) \in S /\ \A z \in S : Max(S) >= z
  BY <1>5 DEF Max
<1>7. \A z \in S : z \in Nat
  OBVIOUS
<1> HIDE DEF T
<1> QED BY <1>6, <1>7

\* What a page holds: the next events in the order of cursors, one at least if
\* there is any; and its own cursor parts them from the rest.
LEMMA PageHolds ==
  ASSUME TimelineTypes, CursorsGiven, NEW c \in Nat, c <= lastCursor
  PROVE  /\ NextCursor(c) \in Nat /\ NextCursor(c) <= lastCursor /\ c <= NextCursor(c)
         /\ FirstAfter(c) \subseteq After(c)
         /\ \A e \in Events : stored[e].cursor > c /\ stored[e].cursor <= NextCursor(c)
              => e \in FirstAfter(c)
         /\ \A e \in After(c) : e \notin FirstAfter(c) =>
              After(c) # FirstAfter(c) /\ NextCursor(c) < stored[e].cursor
<1> DEFINE Earlier(e) == {x \in After(c) : stored[x].cursor < stored[e].cursor}
           Cursors == {stored[e].cursor : e \in FirstAfter(c)}
<1>1. /\ \A e \in Events : stored[e].cursor \in Nat /\ stored[e].cursor <= lastCursor
      /\ lastCursor \in Nat
  BY DEF TimelineTypes, CursorsGiven
<1>2. After(c) \subseteq Events /\ FirstAfter(c) \subseteq After(c)
  BY DEF After, FirstAfter
<1>3. IsFiniteSet(After(c))
  <2>1. After(c) \subseteq Given
    BY <1>1 DEF After, Given
  <2> QED BY <2>1, FS_Subset DEF CursorsGiven
<1>4. \A e \in Events : IsFiniteSet(Earlier(e)) /\ Cardinality(Earlier(e)) \in Nat
  BY <1>3, FS_Subset, FS_CardinalityType
<1>5. \A e \in After(c) : e \in FirstAfter(c) <=> Cardinality(Earlier(e)) < PageLimit
  BY DEF FirstAfter
<1>6. ASSUME NEW e \in FirstAfter(c), NEW x \in After(c), stored[x].cursor <= stored[e].cursor
      PROVE  x \in FirstAfter(c)
  <2>1. Earlier(x) \subseteq Earlier(e)
    BY <1>1, <1>2, <1>6
  <2>2. Cardinality(Earlier(x)) <= Cardinality(Earlier(e))
    BY <2>1, <1>2, <1>4, FS_Subset
  <2> HIDE DEF Earlier
  <2> QED BY <2>2, <1>2, <1>4, <1>5, <1>6, EventsAssumption DEF EventsAssumption
<1>7. CASE After(c) = {}
  <2>1. NextCursor(c) = c
    BY <1>7 DEF NextCursor
  <2> QED BY <2>1, <1>1, <1>2, <1>7 DEF After
<1>8. CASE After(c) # {}
  <2>1. FirstAfter(c) # {}
    <3> DEFINE T == {stored[e].cursor : e \in After(c)}
    <3>1. T \subseteq Nat /\ T # {}
      BY <1>1, <1>2, <1>8
    <3>2. PICK t \in T : \A y \in T : t <= y
      BY <3>1, Smallest
    <3>3. PICK e \in After(c) : t = stored[e].cursor
      OBVIOUS
    <3>4. Earlier(e) = {}
      <4>1. ASSUME NEW x \in After(c) PROVE ~(stored[x].cursor < stored[e].cursor)
        <5>1. stored[x].cursor \in T
          OBVIOUS
        <5>2. stored[e].cursor <= stored[x].cursor
          BY <3>2, <3>3, <5>1
        <5>3. stored[x].cursor \in Nat /\ stored[e].cursor \in Nat
          BY <1>1, <1>2
        <5> HIDE DEF T
        <5> QED BY <5>2, <5>3
      <4> HIDE DEF T
      <4> QED BY <4>1
    <3>5. Cardinality(Earlier(e)) = 0
      BY <3>4, FS_EmptySet
    <3> QED BY <3>5, <1>5, EventsAssumption DEF EventsAssumption
  <2>2. Cursors # {} /\ Cursors \subseteq 0 .. lastCursor
    BY <1>1, <1>2, <2>1
  <2>3. NextCursor(c) = Max(Cursors)
    BY <1>8 DEF NextCursor
  <2>4. NextCursor(c) \in Cursors /\ \A y \in Cursors : y <= NextCursor(c)
    BY <1>1, <2>2, <2>3, Greatest
  <2>5. PICK l \in FirstAfter(c) : NextCursor(c) = stored[l].cursor
    BY <2>4
  <2>6. \A e \in FirstAfter(c) : stored[e].cursor <= stored[l].cursor
    BY <2>4, <2>5
  <2>7. l \in Events /\ stored[l].cursor > c
    BY <1>2 DEF After
  <2>8. ASSUME NEW e \in Events, stored[e].cursor > c, stored[e].cursor <= stored[l].cursor
        PROVE  e \in FirstAfter(c)
    BY <1>6, <2>8 DEF After
  <2>9. ASSUME NEW e \in After(c), e \notin FirstAfter(c)
        PROVE  stored[l].cursor < stored[e].cursor
    <3>1. ~(stored[e].cursor <= stored[l].cursor)
      BY <1>6, <2>9
    <3> QED BY <3>1, <1>1, <1>2, <2>7
  <2> HIDE DEF Cursors
  <2> QED BY <1>1, <1>2, <2>5, <2>7, <2>8, <2>9
<1> QED BY <1>7, <1>8
-----------------------------------------------------------------------------

LEMMA TimelineStarts == EventsInit => TimelineInv
<1> SUFFICES ASSUME EventsInit PROVE TimelineInv
  OBVIOUS
<1>1. TimelineTypes
  <2>1. stored \in [Events -> [rev : Nat, cursor : Nat]] /\ have \in [Events -> Nat]
    BY DEF EventsInit
  <2>2. toPhone \in Seq(TimelineFrames) /\ toStore \in Seq(Nat)
    BY DEF EventsInit
  <2> QED BY <2>1, <2>2 DEF EventsInit, TimelineTypes
<1>3. OfflineQuiet /\ UnderWay /\ CursorCovers /\ ~online
  BY DEF EventsInit, OfflineQuiet, UnderWay, Forward, CursorCovers
<1>2. CursorsGiven
  <2>1. Given = {}
    BY DEF EventsInit, Given
  <2> QED BY <2>1, FS_EmptySet DEF EventsInit, CursorsGiven
<1> QED BY <1>1, <1>2, <1>3 DEF TimelineInv

\* A queue that a frame or request is put to, or the first taken from.
LEMMA Queues ==
  ASSUME NEW T, NEW s \in Seq(T)
  PROVE  /\ \A x \in T : /\ Append(s, x) \in Seq(T)
                         /\ DOMAIN Append(s, x) = DOMAIN s \cup {Len(s) + 1}
                         /\ \A i \in DOMAIN s : i < Len(s) + 1 /\ Append(s, x)[i] = s[i]
                         /\ Append(s, x)[Len(s) + 1] = x
         /\ DOMAIN s \subseteq Nat /\ \A i \in DOMAIN s : s[i] \in T /\ i >= 1
         /\ s # <<>> => /\ Tail(s) \in Seq(T) /\ 1 \in DOMAIN s /\ Head(s) = s[1]
                        /\ \A i \in DOMAIN Tail(s) : i + 1 \in DOMAIN s /\ Tail(s)[i] = s[i + 1]
                        /\ \A i \in DOMAIN s : i # 1 => i - 1 \in DOMAIN Tail(s)
                                                       /\ Tail(s)[i - 1] = s[i]
  OBVIOUS

\* A revision takes the place of the earlier one under a new cursor.
LEMMA PutKeeps ==
  ASSUME TimelineInv, NEW e \in Events, Put(e)
  PROVE  TimelineInv'
<1> DEFINE m == LiveFrame(e, stored[e].rev + 1)
<1>0. TimelineTypes /\ CursorsGiven /\ OfflineQuiet /\ UnderWay /\ CursorCovers
  BY DEF TimelineInv
<1>1. /\ stored' = [stored EXCEPT ![e] = [rev |-> stored[e].rev + 1, cursor |-> lastCursor + 1]]
      /\ lastCursor' = lastCursor + 1
      /\ toPhone' = IF online THEN Append(toPhone, m) ELSE toPhone
      /\ UNCHANGED <<online, toStore, have, cursor, lists, drops>>
  BY DEF Put, CursorOf
<1>2. /\ stored'[e].rev = stored[e].rev + 1 /\ stored'[e].cursor = lastCursor + 1
      /\ \A x \in Events : x # e => stored'[x] = stored[x]
      /\ \A x \in Events : stored[x].rev \in Nat /\ stored[x].cursor \in Nat
      /\ lastCursor \in Nat /\ cursor \in Nat /\ have \in [Events -> Nat]
  BY <1>0, <1>1 DEF TimelineTypes
<1>3. /\ m \in TimelineFrames /\ DOMAIN m.revs = {e} /\ m.revs[e] = stored[e].rev + 1
      /\ m.next = 0 /\ m.more = FALSE
  <2>1. stored[e].rev + 1 \in Nat
    BY <1>2
  <2> QED BY <2>1, LiveMade
<1> HIDE DEF m
<1>4. /\ DOMAIN toPhone \subseteq Nat
      /\ \A i \in DOMAIN toPhone : /\ toPhone[i] \in TimelineFrames
                                    /\ i \in DOMAIN toPhone' /\ toPhone'[i] = toPhone[i]
      /\ \A i \in DOMAIN toPhone' : i \notin DOMAIN toPhone =>
            toPhone'[i] = m /\ \A j \in DOMAIN toPhone : j < i
      /\ \A i, j \in DOMAIN toPhone' :
            i \notin DOMAIN toPhone /\ j \notin DOMAIN toPhone => i = j
      /\ toPhone' \in Seq(TimelineFrames)
      /\ online => \E i \in DOMAIN toPhone' : toPhone'[i] = m
  <2>1. toPhone \in Seq(TimelineFrames)
    BY <1>0 DEF TimelineTypes
  <2> QED BY <1>1, <1>3, <2>1, Queues
<1>5. TimelineTypes'
  <2>1. stored' \in [Events -> [rev : Nat, cursor : Nat]]
    BY <1>0, <1>1, <1>2 DEF TimelineTypes
  <2> QED BY <1>0, <1>1, <1>4, <2>1 DEF TimelineTypes
<1>6. CursorsGiven'
  <2>1. Given' = Given \cup {e}
    BY <1>2 DEF Given
  <2>2. IsFiniteSet(Given')
    BY <1>0, <2>1, FS_AddElement DEF CursorsGiven
  <2>3. \A x \in Events : /\ stored'[x].cursor <= lastCursor'
                          /\ stored'[x].cursor = 0 => stored'[x].rev = 0
    BY <1>0, <1>1, <1>2 DEF CursorsGiven
  <2>4. \A x, y \in Events : stored'[x].cursor = stored'[y].cursor /\ stored'[x].cursor > 0 => x = y
    BY <1>0, <1>2 DEF CursorsGiven
  <2>5. cursor' <= lastCursor'
    BY <1>0, <1>1, <1>2 DEF CursorsGiven
  <2> QED BY <2>2, <2>3, <2>4, <2>5 DEF CursorsGiven
<1>7. OfflineQuiet' /\ CursorCovers'
  BY <1>0, <1>1, <1>2 DEF OfflineQuiet, CursorCovers, CursorsGiven
<1>8. UnderWay'
  <2>1. \A x \in Events : have'[x] <= stored'[x].rev
    BY <1>0, <1>1, <1>2 DEF UnderWay
  <2>2. ASSUME NEW i \in DOMAIN toPhone' PROVE FrameRight(toPhone[i])'
    <3>1. CASE i \in DOMAIN toPhone
      <4> DEFINE f == toPhone[i]
      <4>1. FrameRight(f) /\ f \in TimelineFrames /\ toPhone'[i] = f
        BY <1>0, <1>4, <3>1 DEF UnderWay
      <4>2. /\ DOMAIN f.revs \subseteq Events /\ f.next \in Nat
            /\ \A x \in DOMAIN f.revs : f.revs[x] \in Nat
        BY <4>1, FrameTypes
      <4> HIDE DEF f
      <4>3. \A x \in DOMAIN f.revs : have'[x] <= f.revs[x] /\ f.revs[x] <= stored'[x].rev
        <5> SUFFICES ASSUME NEW x \in DOMAIN f.revs
                     PROVE  have'[x] <= f.revs[x] /\ f.revs[x] <= stored'[x].rev
          OBVIOUS
        <5>1. x \in Events /\ have[x] <= f.revs[x] /\ f.revs[x] <= stored[x].rev /\ f.revs[x] \in Nat
          BY <4>1, <4>2 DEF FrameRight
        <5>2. stored[x].rev \in Nat /\ (stored'[x].rev = stored[x].rev \/ stored'[x].rev = stored[x].rev + 1)
          BY <1>2, <5>1
        <5> QED BY <1>1, <5>1, <5>2
      <4>4. f.next <= lastCursor'
        BY <1>1, <1>2, <4>1, <4>2 DEF FrameRight
      <4>5. \A x \in Events : stored'[x].cursor > cursor' /\ stored'[x].cursor <= f.next
              => x \in DOMAIN f.revs /\ f.revs[x] = stored'[x].rev
        BY <1>1, <1>2, <4>1, <4>2 DEF FrameRight, Brings
      <4> QED BY <4>1, <4>3, <4>4, <4>5 DEF FrameRight, Brings
    <3>2. CASE i \notin DOMAIN toPhone
      <4>1. toPhone'[i] = m
        BY <1>4, <3>2
      <4>2. \A x \in DOMAIN m.revs : have'[x] <= m.revs[x] /\ m.revs[x] <= stored'[x].rev
        <5>1. have[e] <= stored[e].rev /\ have[e] \in Nat
          BY <1>0, <1>2 DEF UnderWay
        <5> QED BY <1>1, <1>2, <1>3, <5>1
      <4>3. m.next <= lastCursor' /\ \A x \in Events :
              ~(stored'[x].cursor > cursor' /\ stored'[x].cursor <= m.next)
        BY <1>1, <1>2, <1>3
      <4> QED BY <4>1, <4>2, <4>3 DEF FrameRight, Brings
    <3> QED BY <3>1, <3>2
  <2>3. Forward'
    <3> SUFFICES ASSUME NEW i \in DOMAIN toPhone', NEW j \in DOMAIN toPhone', i < j,
                        NEW x \in DOMAIN toPhone'[i].revs \cap DOMAIN toPhone'[j].revs
                 PROVE  toPhone'[i].revs[x] <= toPhone'[j].revs[x]
      BY DEF Forward
    <3>1. CASE j \in DOMAIN toPhone
      <4>1. i \in DOMAIN toPhone
        <5>1. i \notin DOMAIN toPhone => j < i
          BY <1>4, <3>1
        <5>2. toPhone' \in Seq(TimelineFrames)
          BY <1>4
        <5>3. i \in Nat /\ j \in Nat
          BY <5>2
        <5> QED BY <5>1, <5>3
      <4> QED BY <1>0, <1>4, <3>1, <4>1 DEF UnderWay, Forward
    <3>2. CASE j \notin DOMAIN toPhone
      <4>1. i \in DOMAIN toPhone
        <5>1. i \notin DOMAIN toPhone => i = j
          BY <1>4, <3>2
        <5>2. toPhone' \in Seq(TimelineFrames)
          BY <1>4
        <5>3. i \in Nat
          BY <5>2
        <5> QED BY <5>1, <5>3
      <4>2. toPhone'[j] = m /\ x = e
        BY <1>3, <1>4, <3>2
      <4>3. /\ e \in DOMAIN toPhone[i].revs /\ toPhone[i] \in TimelineFrames
            /\ toPhone'[i] = toPhone[i]
        BY <1>4, <4>1, <4>2
      <4>4. toPhone[i].revs[e] \in Nat /\ toPhone[i].revs[e] <= stored[e].rev
        BY <1>0, <4>1, <4>3, FrameTypes DEF UnderWay, FrameRight
      <4> QED BY <1>2, <1>3, <4>2, <4>3, <4>4
    <3> QED BY <3>1, <3>2
  <2>4. \A i \in DOMAIN toStore' : toStore'[i] <= cursor'
    BY <1>0, <1>1 DEF UnderWay
  <2> QED BY <2>1, <2>2, <2>3, <2>4 DEF UnderWay
<1>9. ASSUME online', lists' > 0, NEW x \in Events PROVE Awaited(x)'
  <2>1. CASE x = e
    <3>1. \E i \in DOMAIN toPhone' : toPhone'[i] = m
      BY <1>1, <1>4, <1>9
    <3> QED BY <1>2, <1>3, <2>1, <3>1 DEF Awaited, Brings
  <2>2. CASE x # e
    <3>1. Awaited(x)
      BY <1>1, <1>9 DEF TimelineInv
    <3>2. stored'[x] = stored[x]
      BY <1>2, <2>2
    <3> QED BY <1>1, <1>4, <3>1, <3>2 DEF Awaited, Brings
  <2> QED BY <2>1, <2>2
<1> QED BY <1>5, <1>6, <1>7, <1>8, <1>9 DEF TimelineInv

\* The next page goes out.
LEMMA AnswerKeeps ==
  ASSUME TimelineInv, AnswerSync
  PROVE  TimelineInv'
<1> DEFINE c == Head(toStore)
           m == Page([e \in FirstAfter(c) |-> stored[e].rev], NextCursor(c), After(c) # FirstAfter(c))
<1>0. TimelineTypes /\ CursorsGiven /\ OfflineQuiet /\ UnderWay /\ CursorCovers
  BY DEF TimelineInv
<1>1. /\ toStore # <<>> /\ toStore' = Tail(toStore) /\ toPhone' = Append(toPhone, m)
      /\ UNCHANGED <<stored, lastCursor, online, have, cursor, lists, drops>>
  BY DEF AnswerSync
<1>2. /\ \A e \in Events : stored[e].rev \in Nat /\ stored[e].cursor \in Nat
      /\ lastCursor \in Nat /\ cursor \in Nat /\ have \in [Events -> Nat] /\ cursor <= lastCursor
      /\ toPhone \in Seq(TimelineFrames) /\ toStore \in Seq(Nat)
  BY <1>0 DEF TimelineTypes, CursorsGiven
<1>3. /\ 1 \in DOMAIN toStore /\ c = toStore[1] /\ c \in Nat /\ c <= cursor
      /\ toStore' \in Seq(Nat)
      /\ \A i \in DOMAIN toStore' : i + 1 \in DOMAIN toStore /\ toStore'[i] = toStore[i + 1]
      /\ \A i \in DOMAIN toStore : i # 1 => i - 1 \in DOMAIN toStore' /\ toStore'[i - 1] = toStore[i]
  <2>1. /\ 1 \in DOMAIN toStore /\ c = toStore[1] /\ toStore' \in Seq(Nat)
        /\ \A i \in DOMAIN toStore' : i + 1 \in DOMAIN toStore /\ toStore'[i] = toStore[i + 1]
        /\ \A i \in DOMAIN toStore : i # 1 => i - 1 \in DOMAIN toStore' /\ toStore'[i - 1] = toStore[i]
        /\ toStore[1] \in Nat
    BY <1>1, <1>2, Queues
  <2>2. toStore[1] <= cursor
    BY <1>0, <2>1 DEF UnderWay
  <2> QED BY <2>1, <2>2
<1>4. /\ NextCursor(c) \in Nat /\ NextCursor(c) <= lastCursor
      /\ FirstAfter(c) \subseteq After(c) /\ After(c) \subseteq Events
      /\ \A e \in Events : stored[e].cursor > c /\ stored[e].cursor <= NextCursor(c)
           => e \in FirstAfter(c)
      /\ \A e \in After(c) : e \notin FirstAfter(c) =>
           After(c) # FirstAfter(c) /\ NextCursor(c) < stored[e].cursor
  <2>1. c <= lastCursor
    BY <1>2, <1>3
  <2> HIDE DEF c, m
  <2>2. After(c) \subseteq Events
    BY DEF After
  <2> QED BY <1>0, <1>3, <2>1, <2>2, PageHolds
<1>5. /\ m \in TimelineFrames /\ DOMAIN m.revs = FirstAfter(c)
      /\ \A e \in FirstAfter(c) : Brings(m, e)
      /\ m.next = NextCursor(c) /\ m.more = (After(c) # FirstAfter(c))
  <2> DEFINE f == [e \in FirstAfter(c) |-> stored[e].rev]
             D == FirstAfter(c)
             b == After(c) # FirstAfter(c)
             n == NextCursor(c)
  <2>1. D \in SUBSET Events /\ f \in [D -> Nat] /\ n \in Nat /\ b \in BOOLEAN
    BY <1>2, <1>4
  <2>2. m = Page(f, n, b)
    OBVIOUS
  <2>3. \A e \in D : f[e] = stored[e].rev
    OBVIOUS
  <2> HIDE DEF f, D, b, n, m, c
  <2>4. m \in TimelineFrames /\ m.revs = f /\ m.next = n /\ m.more = b
    BY <2>1, <2>2, PageMade
  <2>5. DOMAIN m.revs = D /\ \A e \in D : m.revs[e] = stored[e].rev
    BY <2>1, <2>3, <2>4
  <2> QED BY <2>4, <2>5 DEF Brings, D, n, b
<1> HIDE DEF m, c
<1>6. /\ DOMAIN toPhone \subseteq Nat /\ toPhone' \in Seq(TimelineFrames)
      /\ DOMAIN toPhone' = DOMAIN toPhone \cup {Len(toPhone) + 1}
      /\ \A i \in DOMAIN toPhone : /\ toPhone[i] \in TimelineFrames
                                    /\ i < Len(toPhone) + 1 /\ toPhone'[i] = toPhone[i]
      /\ toPhone'[Len(toPhone) + 1] = m /\ Len(toPhone) \in Nat
  BY <1>1, <1>2, <1>5, Queues
<1>7. TimelineTypes'
  BY <1>0, <1>1, <1>3, <1>6 DEF TimelineTypes
<1>8. CursorsGiven' /\ CursorCovers'
  <2>1. Given' = Given
    BY <1>1 DEF Given
  <2> QED BY <1>0, <1>1, <2>1 DEF CursorsGiven, CursorCovers
<1>9. OfflineQuiet'
  BY <1>0, <1>1 DEF OfflineQuiet
<1>10. UnderWay'
  <2>1. \A e \in Events : have'[e] <= stored'[e].rev
    BY <1>0, <1>1 DEF UnderWay
  <2>2. ASSUME NEW i \in DOMAIN toPhone' PROVE FrameRight(toPhone[i])'
    <3>1. CASE i \in DOMAIN toPhone
      BY <1>0, <1>1, <1>6, <3>1 DEF UnderWay, FrameRight, Brings
    <3>2. CASE i = Len(toPhone) + 1
      <4>1. toPhone'[i] = m
        BY <1>6, <3>2
      <4>2. \A e \in DOMAIN m.revs : have[e] <= m.revs[e] /\ m.revs[e] <= stored[e].rev
        BY <1>0, <1>2, <1>4, <1>5 DEF UnderWay, Brings
      <4>3. \A e \in Events : stored[e].cursor > cursor /\ stored[e].cursor <= m.next => Brings(m, e)
        <5>1. \A e \in Events : stored[e].cursor > cursor => stored[e].cursor > c
          BY <1>2, <1>3
        <5> QED BY <1>4, <1>5, <5>1
      <4> QED BY <1>1, <1>4, <1>5, <4>1, <4>2, <4>3 DEF FrameRight, Brings
    <3> QED BY <1>6, <3>1, <3>2
  <2>3. Forward'
    <3> SUFFICES ASSUME NEW i \in DOMAIN toPhone', NEW j \in DOMAIN toPhone', i < j,
                        NEW x \in DOMAIN toPhone'[i].revs \cap DOMAIN toPhone'[j].revs
                 PROVE  toPhone'[i].revs[x] <= toPhone'[j].revs[x]
      BY DEF Forward
    <3>1. i \in DOMAIN toPhone
      <4>1. i \in Nat /\ j \in Nat /\ j <= Len(toPhone) + 1
        BY <1>6
      <4> QED BY <1>6, <4>1
    <3>2. CASE j \in DOMAIN toPhone
      BY <1>0, <1>6, <3>1, <3>2 DEF UnderWay, Forward
    <3>3. CASE j = Len(toPhone) + 1
      <4>1. /\ toPhone'[j] = m /\ toPhone'[i] = toPhone[i] /\ x \in FirstAfter(c)
            /\ x \in DOMAIN toPhone[i].revs
        BY <1>5, <1>6, <3>1, <3>3
      <4>2. m.revs[x] = stored[x].rev
        BY <1>5, <4>1 DEF Brings
      <4>3. toPhone[i].revs[x] <= stored[x].rev
        BY <1>0, <3>1, <4>1 DEF UnderWay, FrameRight
      <4> QED BY <4>1, <4>2, <4>3
    <3> QED BY <1>6, <3>2, <3>3
  <2>4. \A i \in DOMAIN toStore' : toStore'[i] <= cursor'
    BY <1>0, <1>1, <1>3 DEF UnderWay
  <2> QED BY <2>1, <2>2, <2>3, <2>4 DEF UnderWay
<1>11. ASSUME online', lists' > 0, NEW e \in Events PROVE Awaited(e)'
  <2>0. Awaited(e)
    BY <1>1, <1>11 DEF TimelineInv
  <2>1. CASE have[e] = stored[e].rev
    BY <1>1, <2>1 DEF Awaited
  <2>2. CASE \E i \in DOMAIN toPhone : Brings(toPhone[i], e)
    BY <1>1, <1>6, <2>2 DEF Awaited, Brings
  <2>3. CASE \E i \in DOMAIN toPhone : toPhone[i].more /\ toPhone[i].next < stored[e].cursor
    BY <1>1, <1>6, <2>3 DEF Awaited
  <2>4. ASSUME NEW i \in DOMAIN toStore, toStore[i] < stored[e].cursor PROVE Awaited(e)'
    <3>1. CASE i # 1
      <4>1. i - 1 \in DOMAIN toStore' /\ toStore'[i - 1] < stored'[e].cursor
        BY <1>1, <1>3, <2>4, <3>1
      <4> QED BY <4>1 DEF Awaited
    <3>2. CASE i = 1
      <4>1. e \in After(c)
        BY <1>2, <1>3, <2>4, <3>2 DEF After
      <4>2. CASE e \in FirstAfter(c)
        BY <1>1, <1>5, <1>6, <4>2 DEF Awaited, Brings
      <4>3. CASE e \notin FirstAfter(c)
        <5>1. m.more /\ m.next < stored[e].cursor
          BY <1>4, <1>5, <4>1, <4>3
        <5> QED BY <1>1, <1>6, <5>1 DEF Awaited
      <4> QED BY <4>2, <4>3
    <3> QED BY <3>1, <3>2
  <2> QED BY <2>0, <2>1, <2>2, <2>3, <2>4 DEF Awaited
<1> QED BY <1>7, <1>8, <1>9, <1>10, <1>11 DEF TimelineInv

LEMMA ConnectKeeps ==
  ASSUME TimelineInv, NEW strict \in BOOLEAN, Connect(strict)
  PROVE  TimelineInv'
<1>0. TimelineTypes /\ CursorsGiven /\ OfflineQuiet /\ UnderWay /\ CursorCovers
  BY DEF TimelineInv
<1>1. /\ ~online /\ online' = TRUE
      /\ have' = IF strict THEN [e \in Events |-> 0] ELSE have
      /\ cursor' = IF strict THEN 0 ELSE cursor
      /\ UNCHANGED <<stored, lastCursor, toPhone, toStore, lists, drops>>
  BY DEF Connect
<1>2. toPhone = <<>> /\ toStore = <<>> /\ lists = 0
  BY <1>0, <1>1 DEF OfflineQuiet
<1>3. TimelineTypes'
  BY <1>0, <1>1 DEF TimelineTypes
<1>4. CursorsGiven'
  <2>1. Given' = Given
    BY <1>1 DEF Given
  <2> QED BY <1>0, <1>1, <2>1 DEF CursorsGiven, TimelineTypes
<1>5. OfflineQuiet'
  BY <1>1 DEF OfflineQuiet
<1>6. UnderWay' /\ CursorCovers'
  BY <1>0, <1>1, <1>2 DEF TimelineTypes, UnderWay, Forward, CursorCovers
<1> QED BY <1>1, <1>2, <1>3, <1>4, <1>5, <1>6 DEF TimelineInv

\* The App asks for what its cursor does not cover.
LEMMA ListKeeps ==
  ASSUME TimelineInv, ListArrives
  PROVE  TimelineInv'
<1>0. TimelineTypes /\ CursorsGiven /\ OfflineQuiet /\ UnderWay /\ CursorCovers
  BY DEF TimelineInv
<1>1. /\ online /\ lists' = lists + 1 /\ toStore' = Append(toStore, cursor)
      /\ UNCHANGED <<stored, lastCursor, online, toPhone, have, cursor, drops>>
  BY DEF ListArrives
<1>2. /\ toStore \in Seq(Nat) /\ cursor \in Nat /\ lists \in Nat
      /\ \A e \in Events : stored[e].cursor \in Nat /\ stored[e].rev \in Nat
      /\ have \in [Events -> Nat]
  BY <1>0 DEF TimelineTypes
<1>3. /\ toStore' \in Seq(Nat) /\ DOMAIN toStore' = DOMAIN toStore \cup {Len(toStore) + 1}
      /\ \A i \in DOMAIN toStore : toStore'[i] = toStore[i]
      /\ toStore'[Len(toStore) + 1] = cursor
  BY <1>1, <1>2, Queues
<1>4. TimelineTypes'
  BY <1>0, <1>1, <1>2, <1>3 DEF TimelineTypes
<1>5. CursorsGiven' /\ CursorCovers'
  <2>1. Given' = Given
    BY <1>1 DEF Given
  <2> QED BY <1>0, <1>1, <2>1 DEF CursorsGiven, CursorCovers
<1>6. OfflineQuiet'
  BY <1>1 DEF OfflineQuiet
<1>7. UnderWay'
  <2>1. \A i \in DOMAIN toPhone' : FrameRight(toPhone[i])'
    BY <1>0, <1>1 DEF UnderWay, FrameRight, Brings
  <2>2. Forward'
    BY <1>0, <1>1 DEF UnderWay, Forward
  <2>3. \A i \in DOMAIN toStore' : toStore'[i] <= cursor'
    BY <1>0, <1>1, <1>2, <1>3 DEF UnderWay
  <2> QED BY <1>0, <1>1, <2>1, <2>2, <2>3 DEF UnderWay
<1>8. ASSUME NEW e \in Events PROVE Awaited(e)'
  <2>1. CASE stored[e].cursor > cursor
    <3>1. cursor < stored'[e].cursor
      BY <1>1, <1>2, <2>1
    <3> QED BY <1>3, <3>1 DEF Awaited
  <2>2. CASE ~(stored[e].cursor > cursor)
    <3>1. have[e] = stored[e].rev
      <4>1. CASE stored[e].cursor = 0
        BY <1>0, <1>2, <4>1 DEF CursorsGiven, UnderWay
      <4>2. CASE stored[e].cursor # 0
        BY <1>0, <1>2, <2>2, <4>2 DEF CursorCovers
      <4> QED BY <4>1, <4>2
    <3> QED BY <1>1, <3>1 DEF Awaited
  <2> QED BY <2>1, <2>2
<1> QED BY <1>4, <1>5, <1>6, <1>7, <1>8 DEF TimelineInv

LEMMA DisconnectKeeps ==
  ASSUME TimelineInv, Disconnect
  PROVE  TimelineInv'
<1>0. TimelineTypes /\ CursorsGiven /\ OfflineQuiet /\ UnderWay /\ CursorCovers
  BY DEF TimelineInv
<1>1. /\ online' = FALSE /\ drops' = drops + 1 /\ lists' = 0 /\ toPhone' = <<>> /\ toStore' = <<>>
      /\ UNCHANGED <<stored, lastCursor, have, cursor>>
  BY DEF Disconnect
<1>2. TimelineTypes'
  <2>1. toPhone' \in Seq(TimelineFrames) /\ toStore' \in Seq(Nat)
    BY <1>1
  <2>2. drops' \in Nat /\ lists' \in Nat
    BY <1>0, <1>1 DEF TimelineTypes
  <2>4. online' \in BOOLEAN
    BY <1>1
  <2>3. /\ stored' \in [Events -> [rev : Nat, cursor : Nat]] /\ have' \in [Events -> Nat]
        /\ lastCursor' \in Nat /\ cursor' \in Nat
    BY <1>0, <1>1 DEF TimelineTypes
  <2> QED BY <2>1, <2>2, <2>3, <2>4, Zenon DEF TimelineTypes
<1>3. CursorsGiven' /\ CursorCovers'
  <2>1. Given' = Given
    BY <1>1 DEF Given
  <2> QED BY <1>0, <1>1, <2>1 DEF CursorsGiven, CursorCovers
<1>4. OfflineQuiet' /\ UnderWay'
  BY <1>0, <1>1 DEF OfflineQuiet, UnderWay, Forward
<1> QED BY <1>1, <1>2, <1>3, <1>4 DEF TimelineInv

\* The App reads a frame, and asks for the next page if there is one.
LEMMA ReadKeeps ==
  ASSUME TimelineInv, PhoneReads
  PROVE  TimelineInv' /\ \A e \in Events : have'[e] >= have[e]
<1> DEFINE m == Head(toPhone)
<1>0. TimelineTypes /\ CursorsGiven /\ OfflineQuiet /\ UnderWay /\ CursorCovers
  BY DEF TimelineInv
<1>1. /\ toPhone # <<>> /\ toPhone' = Tail(toPhone)
      /\ have' = [e \in Events |-> IF e \in DOMAIN m.revs THEN m.revs[e] ELSE have[e]]
      /\ cursor' = IF m.next > cursor THEN m.next ELSE cursor
      /\ toStore' = IF m.more THEN Append(toStore, m.next) ELSE toStore
      /\ UNCHANGED <<stored, lastCursor, online, lists, drops>>
  BY DEF PhoneReads
<1>2. /\ \A e \in Events : stored[e].rev \in Nat /\ stored[e].cursor \in Nat
      /\ lastCursor \in Nat /\ cursor \in Nat /\ have \in [Events -> Nat] /\ cursor <= lastCursor
      /\ toPhone \in Seq(TimelineFrames) /\ toStore \in Seq(Nat)
  BY <1>0 DEF TimelineTypes, CursorsGiven
<1>3. /\ 1 \in DOMAIN toPhone /\ m = toPhone[1] /\ toPhone' \in Seq(TimelineFrames)
      /\ \A i \in DOMAIN toPhone' : /\ i + 1 \in DOMAIN toPhone /\ toPhone'[i] = toPhone[i + 1]
                                     /\ i \in Nat /\ i >= 1
      /\ \A i \in DOMAIN toPhone : i # 1 => i - 1 \in DOMAIN toPhone' /\ toPhone'[i - 1] = toPhone[i]
  <2>1. /\ 1 \in DOMAIN toPhone /\ m = toPhone[1] /\ toPhone' \in Seq(TimelineFrames)
        /\ \A i \in DOMAIN toPhone' : i + 1 \in DOMAIN toPhone /\ toPhone'[i] = toPhone[i + 1]
        /\ \A i \in DOMAIN toPhone : i # 1 => i - 1 \in DOMAIN toPhone' /\ toPhone'[i - 1] = toPhone[i]
    BY <1>1, <1>2, Queues
  <2>2. \A i \in DOMAIN toPhone' : i \in Nat /\ i >= 1
    BY <2>1
  <2> QED BY <2>1, <2>2
<1>4. m \in TimelineFrames /\ FrameRight(m)
  BY <1>0, <1>2, <1>3 DEF UnderWay
<1> HIDE DEF m
<1>5. /\ DOMAIN m.revs \subseteq Events /\ m.next \in Nat /\ m.more \in BOOLEAN
      /\ \A e \in DOMAIN m.revs : m.revs[e] \in Nat
  BY <1>4, FrameTypes
<1>6. /\ \A e \in DOMAIN m.revs : /\ have'[e] = m.revs[e]
                                  /\ have[e] <= m.revs[e] /\ m.revs[e] <= stored[e].rev
      /\ \A e \in Events : e \notin DOMAIN m.revs => have'[e] = have[e]
      /\ have' \in [Events -> Nat]
      /\ cursor' \in Nat /\ cursor <= cursor' /\ m.next <= cursor' /\ cursor' <= lastCursor
      /\ cursor' = cursor \/ cursor' = m.next
  BY <1>1, <1>2, <1>4, <1>5 DEF FrameRight
<1>7. \A e \in Events : have'[e] >= have[e] /\ have'[e] <= stored[e].rev
  <2> SUFFICES ASSUME NEW e \in Events PROVE have'[e] >= have[e] /\ have'[e] <= stored[e].rev
    OBVIOUS
  <2>1. have[e] \in Nat /\ have[e] <= stored[e].rev
    BY <1>0, <1>2 DEF UnderWay
  <2>2. CASE e \in DOMAIN m.revs
    BY <1>2, <1>5, <1>6, <2>2
  <2>3. CASE e \notin DOMAIN m.revs
    BY <1>2, <1>6, <2>1, <2>3
  <2> QED BY <2>2, <2>3
<1>8. \A e \in Events : have[e] = stored[e].rev => have'[e] = stored[e].rev
  <2> SUFFICES ASSUME NEW e \in Events, have[e] = stored[e].rev PROVE have'[e] = stored[e].rev
    OBVIOUS
  <2>1. have'[e] >= have[e] /\ have'[e] <= stored[e].rev /\ have'[e] \in Nat /\ stored[e].rev \in Nat
    BY <1>2, <1>6, <1>7
  <2> QED BY <2>1
<1>9. /\ toStore' \in Seq(Nat)
      /\ \A i \in DOMAIN toStore : i \in DOMAIN toStore' /\ toStore'[i] = toStore[i]
      /\ \A i \in DOMAIN toStore' : i \notin DOMAIN toStore => toStore'[i] = m.next
      /\ m.more => \E i \in DOMAIN toStore' : toStore'[i] = m.next
  <2>1. CASE m.more
    <3>1. /\ toStore' = Append(toStore, m.next) /\ toStore' \in Seq(Nat)
          /\ DOMAIN toStore' = DOMAIN toStore \cup {Len(toStore) + 1}
          /\ \A i \in DOMAIN toStore : toStore'[i] = toStore[i]
          /\ toStore'[Len(toStore) + 1] = m.next
      BY <1>1, <1>2, <1>5, <2>1, Queues
    <3> QED BY <3>1
  <2>2. CASE ~m.more
    <3>1. toStore' = toStore
      BY <1>1, <2>2
    <3> QED BY <1>2, <2>2, <3>1
  <2> QED BY <2>1, <2>2
<1>10. TimelineTypes'
  BY <1>0, <1>1, <1>3, <1>6, <1>9 DEF TimelineTypes
<1>11. CursorsGiven'
  <2>1. Given' = Given
    BY <1>1 DEF Given
  <2> QED BY <1>0, <1>1, <1>6, <2>1 DEF CursorsGiven
<1>12. OfflineQuiet'
  BY <1>0, <1>1 DEF OfflineQuiet
<1>13. UnderWay'
  <2>1. ASSUME NEW i \in DOMAIN toPhone' PROVE FrameRight(toPhone[i])'
    <3> DEFINE f == toPhone[i + 1]
    <3>1. f \in TimelineFrames /\ FrameRight(f) /\ toPhone'[i] = f /\ i + 1 \in DOMAIN toPhone /\ 1 < i + 1
      BY <1>0, <1>2, <1>3 DEF UnderWay
    <3>2. /\ DOMAIN f.revs \subseteq Events /\ f.next \in Nat
          /\ \A e \in DOMAIN f.revs : f.revs[e] \in Nat
      BY <3>1, FrameTypes
    <3>3. \A e \in DOMAIN m.revs \cap DOMAIN f.revs : m.revs[e] <= f.revs[e]
      BY <1>0, <1>3, <3>1 DEF UnderWay, Forward
    <3> HIDE DEF f
    <3>4. \A e \in DOMAIN f.revs : have'[e] <= f.revs[e] /\ f.revs[e] <= stored[e].rev
      BY <1>6, <3>1, <3>2, <3>3 DEF FrameRight
    <3>5. \A e \in Events : stored[e].cursor > cursor' /\ stored[e].cursor <= f.next => Brings(f, e)
      BY <1>2, <1>6, <3>1 DEF FrameRight
    <3> QED BY <1>1, <3>1, <3>4, <3>5 DEF FrameRight, Brings
  <2>2. Forward'
    <3> SUFFICES ASSUME NEW i \in DOMAIN toPhone', NEW j \in DOMAIN toPhone', i < j,
                        NEW e \in DOMAIN toPhone'[i].revs \cap DOMAIN toPhone'[j].revs
                 PROVE  toPhone'[i].revs[e] <= toPhone'[j].revs[e]
      BY DEF Forward
    <3>1. /\ i + 1 \in DOMAIN toPhone /\ j + 1 \in DOMAIN toPhone /\ i + 1 < j + 1
          /\ toPhone'[i] = toPhone[i + 1] /\ toPhone'[j] = toPhone[j + 1]
      BY <1>3
    <3>2. e \in DOMAIN toPhone[i + 1].revs \cap DOMAIN toPhone[j + 1].revs
      BY <3>1
    <3>3. toPhone[i + 1].revs[e] <= toPhone[j + 1].revs[e]
      BY <1>0, <3>1, <3>2 DEF UnderWay, Forward
    <3> QED BY <3>1, <3>3
  <2>3. \A i \in DOMAIN toStore' : toStore'[i] <= cursor'
    <3> SUFFICES ASSUME NEW i \in DOMAIN toStore' PROVE toStore'[i] <= cursor'
      OBVIOUS
    <3>1. CASE i \in DOMAIN toStore
      <4>1. toStore[i] \in Nat /\ toStore[i] <= cursor /\ toStore'[i] = toStore[i]
        BY <1>0, <1>2, <1>9, <3>1 DEF UnderWay
      <4> QED BY <1>2, <1>6, <4>1
    <3>2. CASE i \notin DOMAIN toStore
      BY <1>6, <1>9, <3>2
    <3> QED BY <3>1, <3>2
  <2> QED BY <1>1, <1>7, <2>1, <2>2, <2>3 DEF UnderWay
<1>14. CursorCovers'
  <2> SUFFICES ASSUME NEW e \in Events, stored[e].cursor > 0, stored[e].cursor <= cursor'
               PROVE  have'[e] = stored[e].rev
    BY <1>1 DEF CursorCovers
  <2>1. CASE stored[e].cursor <= cursor
    BY <1>0, <1>8, <2>1 DEF CursorCovers
  <2>2. CASE ~(stored[e].cursor <= cursor)
    <3>1. stored[e].cursor > cursor /\ stored[e].cursor <= m.next
      BY <1>2, <1>6, <2>2
    <3> QED BY <1>4, <1>6, <3>1 DEF FrameRight, Brings
  <2> QED BY <2>1, <2>2
<1>15. ASSUME online', lists' > 0, NEW e \in Events PROVE Awaited(e)'
  <2>0. Awaited(e)
    BY <1>1, <1>15 DEF TimelineInv
  <2>1. CASE have[e] = stored[e].rev
    BY <1>1, <1>8, <2>1 DEF Awaited
  <2>2. ASSUME NEW i \in DOMAIN toPhone, Brings(toPhone[i], e) PROVE Awaited(e)'
    <3>1. CASE i = 1
      BY <1>1, <1>3, <1>6, <2>2, <3>1 DEF Awaited, Brings
    <3>2. CASE i # 1
      BY <1>1, <1>3, <2>2, <3>2 DEF Awaited, Brings
    <3> QED BY <3>1, <3>2
  <2>3. CASE \E i \in DOMAIN toStore : toStore[i] < stored[e].cursor
    BY <1>1, <1>9, <2>3 DEF Awaited
  <2>4. ASSUME NEW i \in DOMAIN toPhone, toPhone[i].more, toPhone[i].next < stored[e].cursor
        PROVE  Awaited(e)'
    <3>1. CASE i = 1
      BY <1>1, <1>3, <1>9, <2>4, <3>1 DEF Awaited
    <3>2. CASE i # 1
      BY <1>1, <1>3, <2>4, <3>2 DEF Awaited
    <3> QED BY <3>1, <3>2
  <2> QED BY <2>0, <2>1, <2>2, <2>3, <2>4 DEF Awaited
<1> QED BY <1>7, <1>10, <1>11, <1>12, <1>13, <1>14, <1>15 DEF TimelineInv

\* A step of the timeline leaves the invariant as it is, and takes no event
\* back on the screen unless it connects.
LEMMA TimelineStep ==
  ASSUME TimelineInv, [EventsNext]_eventVars
  PROVE  TimelineInv' /\ \A e \in Events : have'[e] >= have[e] \/ (~online /\ online')
<1>0. TimelineTypes /\ \A e \in Events : have[e] \in Nat
  BY DEF TimelineInv, TimelineTypes
<1>1. ASSUME NEW e \in Events, Put(e)
      PROVE  TimelineInv' /\ have' = have
  BY <1>1, PutKeeps DEF Put
<1>2. CASE AnswerSync
  BY <1>0, <1>2, AnswerKeeps DEF AnswerSync
<1>3. ASSUME NEW strict \in BOOLEAN, Connect(strict)
      PROVE  TimelineInv' /\ ~online /\ online'
  BY <1>3, ConnectKeeps DEF Connect
<1>4. CASE ListArrives
  BY <1>0, <1>4, ListKeeps DEF ListArrives
<1>5. CASE Disconnect
  <2>1. have' = have
    BY <1>5 DEF Disconnect
  <2> QED BY <1>0, <1>5, <2>1, DisconnectKeeps
<1>6. CASE PhoneReads
  BY <1>6, ReadKeeps
<1>7. CASE UNCHANGED eventVars
  <2>1. /\ TimelineTypes' /\ CursorsGiven' /\ OfflineQuiet' /\ UnderWay' /\ CursorCovers'
    BY <1>7 DEF TimelineInv, eventVars, TimelineTypes, CursorsGiven, Given, OfflineQuiet, UnderWay,
                FrameRight, Brings, Forward, CursorCovers
  <2>2. \A e \in Events : Awaited(e) => Awaited(e)'
    BY <1>7 DEF eventVars, Awaited, Brings
  <2> QED BY <1>0, <1>7, <2>1, <2>2 DEF TimelineInv, eventVars
<1> QED BY <1>0, <1>1, <1>2, <1>3, <1>4, <1>5, <1>6, <1>7 DEF EventsNext

\* The timeline's invariant, for any number of events and pages of any size.
THEOREM TimelineKept == EventsSpec => []TimelineInv
<1>1. TimelineInv /\ [EventsNext]_eventVars => TimelineInv'
  BY TimelineStep
<1> QED BY TimelineStarts, <1>1, PTL DEF EventsSpec

\* Syncs that links break off and revisions overtake skip nothing: what the
\* App's cursor covers it shows as stored, and a sync that ends leaves nothing out.
THEOREM TimelineComplete == EventsSpec => []NothingMissed
<1>1. TimelineInv => NothingMissed
  <2> SUFFICES ASSUME TimelineInv PROVE NothingMissed
    OBVIOUS
  <2>1. CursorSound
    <3>1. cursor \in Nat /\ \A e \in Events : stored[e].cursor \in Nat
      BY DEF TimelineInv, TimelineTypes
    <3> QED BY <3>1 DEF TimelineInv, CursorCovers, CursorSound
  <2>2. SyncCompletes
    BY DEF TimelineInv, Awaited, SyncCompletes
  <2> QED BY <2>1, <2>2 DEF NothingMissed
<1> QED BY <1>1, TimelineKept, PTL

\* An event on the App's screen never goes back to an earlier revision, pages and
\* single events mixed as they may be; only a strict connection starts anew.
THEOREM TimelineGoesForward == EventsSpec => NoStepBack
<1>1. TimelineInv /\ [EventsNext]_eventVars =>
        [\A e \in Events : have'[e] >= have[e] \/ (~online /\ online')]_eventVars
  BY TimelineStep
<1> QED BY <1>1, TimelineKept, PTL DEF EventsSpec, NoStepBack
=============================================================================
