---------------------------- MODULE UserAccounts ----------------------------
(* Users of a relay that signs them in by email (auth.mode "email_link"):   *)
(* sign-in links, sessions, tokens that enroll a device, the devices, and   *)
(* what of it decides which agents and Apps may connect.  All but the       *)
(* connections is in SQLite.  A user is named by the email address.  What a  *)
(* connection still delivers once the relay has closed it is left to        *)
(* RelaySession: it opens no connection again.                              *)
EXTENDS Naturals, FiniteSets

CONSTANTS
  Users,
  MailLinks,       \* rows of auth_email_links
  UserSessions,        \* rows of auth_sessions
  Enrollments,     \* rows of device_enrollments
  OwnDevices,      \* device ids, each with its key
  OwnAgents,       \* connections of Desktop Agents
  OwnApps,         \* connections of Apps
  NoUser, NoDevice,
  MaxMails,        \* emailRateLimitPerHour
  MaxDevices       \* maxDevicesPerUser

ASSUME AccountLimits ==
  /\ MaxMails \in Nat /\ MaxDevices \in Nat
  /\ NoUser \notin Users /\ NoDevice \notin OwnDevices

VARIABLES
  mails,        \* [MailLinks -> [user, state, used]]
  sessionOf,    \* [UserSessions -> the user of a live session, or NoUser]
  enrollments,  \* [Enrollments -> [user, state, used]]
  owner,        \* [OwnDevices -> user, or NoUser]
  revoked,      \* devices with revoked_at
  agentLink,    \* [OwnAgents -> [up, asked, device]]
  appLink       \* [OwnApps -> [up, user, device]]

accountVars == <<mails, sessionOf, enrollments, owner, revoked, agentLink, appLink>>

NoToken == [user |-> NoUser, state |-> "none", used |-> 0]
NoAgentLink == [up |-> FALSE, asked |-> NoDevice, device |-> NoDevice]
NoAppLink == [up |-> FALSE, user |-> NoUser, device |-> NoDevice]

AccountsInit ==
  /\ mails = [l \in MailLinks |-> NoToken]
  /\ sessionOf = [s \in UserSessions |-> NoUser]
  /\ enrollments = [e \in Enrollments |-> NoToken]
  /\ owner = [d \in OwnDevices |-> NoUser] /\ revoked = {}
  /\ agentLink = [a \in OwnAgents |-> NoAgentLink]
  /\ appLink = [m \in OwnApps |-> NoAppLink]

-----------------------------------------------------------------------------
(* Links and sessions.                                                     *)

\* The links counted against the limit: a row is deleted with the link's end,
\* which is before the hour is over (sweep).
CountedMails(u) == {l \in MailLinks : mails[l].state # "none" /\ mails[l].user = u}

\* startEmailLogin; over the limit, the answer is the same and nothing is sent.
StartEmailLogin(u, l) ==
  /\ mails[l].state = "none"
  /\ Cardinality(CountedMails(u)) < MaxMails
  /\ mails' = [mails EXCEPT ![l] = [user |-> u, state |-> "live", used |-> 0]]
  /\ UNCHANGED <<sessionOf, enrollments, owner, revoked, agentLink, appLink>>

Unused(token) == token.state = "live"
UnusedOrOpened(token) == token.state \in {"live", "used"}
UsedUp(token) == [token EXCEPT !.state = "used", !.used = @ + 1]

\* verifyEmailLink: the link is used up, then the session begins; a process
\* that ends between the two leaves neither.
VerifyEmailLink(l) ==
  /\ Unused(mails[l])
  /\ \/ \E s \in UserSessions :
          /\ sessionOf[s] = NoUser
          /\ sessionOf' = [sessionOf EXCEPT ![s] = mails[l].user]
          /\ mails' = [mails EXCEPT ![l] = UsedUp(mails[l])]
          /\ UNCHANGED <<agentLink, appLink>>
     \/ /\ mails' = [mails EXCEPT ![l].state = "used"]
        /\ agentLink' = [a \in OwnAgents |-> NoAgentLink]
        /\ appLink' = [m \in OwnApps |-> NoAppLink]
        /\ UNCHANGED sessionOf
  /\ UNCHANGED <<enrollments, owner, revoked>>

\* createAppSession: one session begins another, of its own life.
CreateAppSession(s, t) ==
  /\ sessionOf[s] # NoUser /\ sessionOf[t] = NoUser
  /\ sessionOf' = [sessionOf EXCEPT ![t] = sessionOf[s]]
  /\ UNCHANGED <<mails, enrollments, owner, revoked, agentLink, appLink>>

\* logout, or the session's time is over: no connection is asked about.
SessionOver(s) ==
  /\ sessionOf[s] # NoUser
  /\ sessionOf' = [sessionOf EXCEPT ![s] = NoUser]
  /\ UNCHANGED <<mails, enrollments, owner, revoked, agentLink, appLink>>

\* The time of a link or of an enrollment token is over, and sweep deletes it.
TokenOver ==
  \/ \E l \in MailLinks :
       /\ mails[l].state # "none"
       /\ mails' = [mails EXCEPT ![l] = NoToken]
       /\ UNCHANGED <<sessionOf, enrollments, owner, revoked, agentLink, appLink>>
  \/ \E e \in Enrollments :
       /\ enrollments[e].state # "none"
       /\ enrollments' = [enrollments EXCEPT ![e] = NoToken]
       /\ UNCHANGED <<mails, sessionOf, owner, revoked, agentLink, appLink>>

-----------------------------------------------------------------------------
(* Devices.                                                                *)

CreateEnrollment(s, e) ==
  /\ sessionOf[s] # NoUser /\ enrollments[e].state = "none"
  /\ enrollments' =
       [enrollments EXCEPT ![e] = [user |-> sessionOf[s], state |-> "live", used |-> 0]]
  /\ UNCHANGED <<mails, sessionOf, owner, revoked, agentLink, appLink>>

ActiveDevices(u) == {d \in OwnDevices : owner[d] = u /\ d \notin revoked}

\* A device that comes back after it was revoked takes a slot, like a new one.
TakesSlotIfNew(d) == owner[d] = NoUser
TakesSlot(d) == owner[d] = NoUser \/ d \in revoked

\* consumeDeviceEnrollment, one transaction; refused, it leaves the token.
ConsumeEnrollment(e, d) ==
  LET u == enrollments[e].user IN
  /\ Unused(enrollments[e])
  /\ owner[d] \in {NoUser, u}
  /\ TakesSlot(d) => Cardinality(ActiveDevices(u)) < MaxDevices
  /\ owner' = [owner EXCEPT ![d] = u]
  /\ revoked' = revoked \ {d}
  /\ enrollments' = [enrollments EXCEPT ![e] = UsedUp(enrollments[e])]
  /\ UNCHANGED <<mails, sessionOf, agentLink, appLink>>

\* revokeDevice, and closeDeviceConnections of the connections that have the
\* device's id: an agent has it after its hello only.
RevokeDevice(s, d) ==
  /\ sessionOf[s] # NoUser /\ owner[d] = sessionOf[s] /\ d \notin revoked
  /\ revoked' = revoked \cup {d}
  /\ agentLink' = [a \in OwnAgents |->
       IF agentLink[a].device = d THEN NoAgentLink ELSE agentLink[a]]
  /\ appLink' = [m \in OwnApps |->
       IF appLink[m].device = d THEN NoAppLink ELSE appLink[m]]
  /\ UNCHANGED <<mails, sessionOf, enrollments, owner>>

-----------------------------------------------------------------------------
(* Connections.                                                            *)

\* An App's upgrade request may carry a session.
ConnectAccount ==
  \/ \E a \in OwnAgents :
       /\ ~agentLink[a].up
       /\ agentLink' = [agentLink EXCEPT ![a].up = TRUE]
       /\ UNCHANGED <<mails, sessionOf, enrollments, owner, revoked, appLink>>
  \/ \E m \in OwnApps, u \in {NoUser} \cup {sessionOf[s] : s \in UserSessions} :
       /\ ~appLink[m].up
       /\ appLink' = [appLink EXCEPT ![m].up = TRUE, ![m].user = u]
       /\ UNCHANGED <<mails, sessionOf, enrollments, owner, revoked, agentLink>>

Registered(d) == owner[d] # NoUser /\ d \notin revoked

\* agent.auth.init of a device: refused, the socket closes.
AgentAsks(a, d) ==
  /\ agentLink[a].up /\ agentLink[a].asked = NoDevice
  /\ agentLink' = [agentLink EXCEPT ![a] =
       IF Registered(d) THEN [@ EXCEPT !.asked = d] ELSE NoAgentLink]
  /\ UNCHANGED <<mails, sessionOf, enrollments, owner, revoked, appLink>>

\* agent.hello: the device is looked up again.
AgentHelloOf(a) ==
  LET d == agentLink[a].asked IN
  /\ agentLink[a].up /\ d # NoDevice /\ agentLink[a].device = NoDevice
  /\ agentLink' = [agentLink EXCEPT ![a] =
       IF Registered(d) THEN [@ EXCEPT !.device = d] ELSE NoAgentLink]
  /\ UNCHANGED <<mails, sessionOf, enrollments, owner, revoked, appLink>>

\* mobile.connect (MobileEmailLinkPolicy): the user is whoever its token
\* names, or else the one known of the connection; refused, it stays open.
AppConnectsFor(m, d, u) ==
  LET v == IF u # NoUser THEN u ELSE appLink[m].user IN
  /\ appLink[m].up
  /\ v # NoUser /\ Registered(d) /\ owner[d] = v
  /\ appLink' = [appLink EXCEPT ![m].user = v, ![m].device = d]
  /\ UNCHANGED <<mails, sessionOf, enrollments, owner, revoked, agentLink>>

\* The peer leaves.
AccountLinkEnds ==
  \/ \E a \in OwnAgents :
       /\ agentLink[a].up
       /\ agentLink' = [agentLink EXCEPT ![a] = NoAgentLink]
       /\ UNCHANGED <<mails, sessionOf, enrollments, owner, revoked, appLink>>
  \/ \E m \in OwnApps :
       /\ appLink[m].up
       /\ appLink' = [appLink EXCEPT ![m] = NoAppLink]
       /\ UNCHANGED <<mails, sessionOf, enrollments, owner, revoked, agentLink>>

AccountsNext ==
  \/ \E u \in Users, l \in MailLinks : StartEmailLogin(u, l)
  \/ \E l \in MailLinks : VerifyEmailLink(l)
  \/ \E s, t \in UserSessions : CreateAppSession(s, t)
  \/ \E s \in UserSessions : SessionOver(s)
  \/ TokenOver
  \/ \E s \in UserSessions, e \in Enrollments : CreateEnrollment(s, e)
  \/ \E e \in Enrollments, d \in OwnDevices : ConsumeEnrollment(e, d)
  \/ \E s \in UserSessions, d \in OwnDevices : RevokeDevice(s, d)
  \/ ConnectAccount
  \/ \E a \in OwnAgents : AgentHelloOf(a) \/ \E d \in OwnDevices : AgentAsks(a, d)
  \/ \E m \in OwnApps, d \in OwnDevices, s \in UserSessions :
       AppConnectsFor(m, d, sessionOf[s])
  \/ AccountLinkEnds

AccountsSpec == AccountsInit /\ [][AccountsNext]_accountVars

-----------------------------------------------------------------------------
(* Properties.                                                             *)

Token == [user : Users \cup {NoUser}, state : {"none", "live", "used"}, used : 0 .. 1]

AccountsTypeOK ==
  /\ mails \in [MailLinks -> Token] /\ enrollments \in [Enrollments -> Token]
  /\ sessionOf \in [UserSessions -> Users \cup {NoUser}]
  /\ owner \in [OwnDevices -> Users \cup {NoUser}]
  /\ revoked \subseteq {d \in OwnDevices : owner[d] # NoUser}
  /\ agentLink \in [OwnAgents -> [up : BOOLEAN,
                                  asked : OwnDevices \cup {NoDevice},
                                  device : OwnDevices \cup {NoDevice}]]
  /\ appLink \in [OwnApps -> [up : BOOLEAN,
                              user : Users \cup {NoUser},
                              device : OwnDevices \cup {NoDevice}]]

\* A user never has more devices in use than allowed, in whatever order devices
\* are enrolled, revoked and enrolled again with tokens handed out before.
DeviceLimit == \A u \in Users : Cardinality(ActiveDevices(u)) <= MaxDevices

\* A revoked device has no open connection, of its agent or of an App, and an
\* agent that was challenged before the revocation does not get in after it.
RevokedOut ==
  /\ \A a \in OwnAgents : agentLink[a].up => agentLink[a].device \notin revoked
  /\ \A m \in OwnApps : appLink[m].up => appLink[m].device \notin revoked

\* An App is connected only with a device of the user it is connected for,
\* however often it connects and whoever signs in or out meanwhile.
AppsOfOwner ==
  \A m \in OwnApps :
    appLink[m].device # NoDevice => appLink[m].user = owner[appLink[m].device]

\* A link opens one session, a token enrolls one device; no more links of one
\* address can be opened than the limit says.
TokensOnce ==
  /\ \A l \in MailLinks : mails[l].used <= 1
  /\ \A e \in Enrollments : enrollments[e].used <= 1
  /\ \A u \in Users : Cardinality(CountedMails(u)) <= MaxMails

\* What users may rely on.
AccountsHold == AccountsTypeOK /\ DeviceLimit /\ RevokedOut /\ AppsOfOwner /\ TokensOnce
=============================================================================
