--------------------------- MODULE AdminControls ---------------------------
(* Who may join the relay as the agent of a device, and how the             *)
(* administration changes it: devices are approved, disabled and enabled    *)
(* again, addresses banned and unbanned, over HTTP calls of a logged-in     *)
(* administrator, while agents and Apps come and go.  Rules are kept in     *)
(* memory; those without an end also in SQLite (adminControlStore).  A call  *)
(* is let in by its session and acts once its body is read, whatever became  *)
(* of the session meanwhile: here it comes at any time.                      *)
(*                                                                          *)
(* A call over several targets does one after the other; a write to SQLite  *)
(* that fails ends it, with the rule in memory already changed.             *)
EXTENDS Naturals

CONSTANTS
  Controlled,      \* devices
  Ips,             \* addresses
  AgentSockets,      \* connections of Desktop Agents
  AppSockets,        \* connections of Apps
  DeviceFor,       \* [AgentSockets \cup AppSockets -> Controlled]
  MaxStoreFailures \* bound: writes that fail

NoIp == "none"

ASSUME ControlledBy ==
  /\ DeviceFor \in [AgentSockets \cup AppSockets -> Controlled]
  /\ AgentSockets \cap AppSockets = {} /\ NoIp \notin Ips
  /\ MaxStoreFailures \in Nat

Kinds == {"authorized", "disabled", "banned"}
Links == AgentSockets \cup AppSockets

VARIABLES
  approval,      \* config.agentAuthorization.mode: "manual" or "automatic"
  authorized,    \* authorizedAgentDevices
  disabled,      \* disabledAgentDevices: [Controlled -> rule]
  banned,        \* ipBans: [Ips -> rule]
  pendingFrom,   \* pendingAgentAuthorizations: [Controlled -> address of the request]
  rows,          \* admin_control_rules: [Kinds -> SUBSET targets]
  unsaved,       \* [Kinds -> targets whose last call failed at the store]
  storeFailures, \* writes that failed
  link           \* [Links -> [sock, auth, ip]]

controlVars == <<approval, authorized, disabled, banned, pendingFrom, rows, unsaved,
                 storeFailures, link>>

\* A rule ends by itself, or is kept until it is taken back.
Rules == {"temporary", "permanent"}
NoLink == [sock |-> "none", auth |-> "none", ip |-> NoIp]

ControlsInit ==
  /\ approval \in {"manual", "automatic"}
  /\ authorized = {} /\ disabled = [d \in Controlled |-> "none"]
  /\ banned = [i \in Ips |-> "none"] /\ pendingFrom = [d \in Controlled |-> NoIp]
  /\ rows = [k \in Kinds |-> {}] /\ unsaved = [k \in Kinds |-> {}]
  /\ storeFailures = 0
  /\ link = [c \in Links |-> NoLink]

-----------------------------------------------------------------------------
(* Connections.  A socket is "ending" once closed: what had arrived on it    *)
(* before is still handled.                                                  *)

LinkHandled(c) == link[c].sock # "none"
Ended(c) == [link[c] EXCEPT !.sock = IF @ = "open" THEN "ending" ELSE @]

\* The guard of the WebSocket upgrade (IpBanPolicy).
AcceptLink(c, i) ==
  /\ link[c].sock = "none" /\ banned[i] = "none"
  /\ link' = [link EXCEPT ![c] = [sock |-> "open", auth |-> "none", ip |-> i]]
  /\ UNCHANGED <<approval, authorized, disabled, banned, pendingFrom, rows, unsaved,
                 storeFailures>>

ControlledInit(c) ==
  /\ LinkHandled(c) /\ link[c].auth = "none"
  /\ link' = [link EXCEPT ![c].auth = "pending"]
  /\ UNCHANGED <<approval, authorized, disabled, banned, pendingFrom, rows, unsaved,
                 storeFailures>>

\* authorizeAgent's answer to a hello, and who is asked about afterwards.
Barred(c) == disabled[DeviceFor[c]] # "none" \/ banned[link[c].ip] # "none"
MayJoinUnchecked(c) ==
  banned[link[c].ip] = "none" /\ (approval = "automatic" \/ DeviceFor[c] \in authorized)
MayJoin(c) == ~Barred(c) /\ (approval = "automatic" \/ DeviceFor[c] \in authorized)

(* handleAgentHello, accepted: the agent that was there is closed, with its  *)
(* Apps (addAgentToDevice).  In automatic mode the device is approved.       *)
HelloAccepted(c) ==
  LET d == DeviceFor[c]
      former == {b \in Links \ {c} : DeviceFor[b] = d /\ link[b].auth = "verified"}
  IN
  /\ LinkHandled(c) /\ link[c].auth = "pending" /\ MayJoin(c)
  /\ link' = [b \in Links |->
       IF b = c THEN [link[c] EXCEPT !.auth = "verified"]
       ELSE IF b \in former THEN Ended(b) ELSE link[b]]
  /\ authorized' = authorized \cup {d}
  /\ rows' = IF d \in authorized THEN rows
             ELSE [rows EXCEPT !["authorized"] = @ \cup {d}]
  /\ unsaved' = IF d \in authorized THEN unsaved
                ELSE [unsaved EXCEPT !["authorized"] = @ \ {d}]
  /\ pendingFrom' = [pendingFrom EXCEPT ![d] = NoIp]
  /\ UNCHANGED <<approval, disabled, banned, storeFailures>>

\* Turned away; unless it is barred, the administration is asked.
HelloRejected(c) ==
  /\ LinkHandled(c) /\ link[c].auth = "pending" /\ ~MayJoin(c)
  /\ link' = [link EXCEPT ![c] = [Ended(c) EXCEPT !.auth = "failed"]]
  /\ pendingFrom' = IF Barred(c) THEN pendingFrom
                    ELSE [pendingFrom EXCEPT ![DeviceFor[c]] = link[c].ip]
  /\ UNCHANGED <<approval, authorized, disabled, banned, rows, unsaved, storeFailures>>

\* An App connects and its device's agent vouches for it (its own rules are
\* in RelaySession): it counts as one of the device's Apps.
AppVouched(m) ==
  /\ link[m].sock = "open" /\ link[m].auth = "none"
  /\ \E a \in AgentSockets :
       DeviceFor[a] = DeviceFor[m] /\ LinkHandled(a) /\ link[a].auth = "verified"
  /\ link' = [link EXCEPT ![m].auth = "verified"]
  /\ UNCHANGED <<approval, authorized, disabled, banned, pendingFrom, rows, unsaved,
                 storeFailures>>

\* The peer closes, or what was under way when the relay closed is handled.
LinkEnds(c) ==
  /\ LinkHandled(c)
  /\ link' = [link EXCEPT ![c] =
       IF link[c].sock = "open" THEN Ended(c) ELSE NoLink]
  /\ UNCHANGED <<approval, authorized, disabled, banned, pendingFrom, rows, unsaved,
                 storeFailures>>

-----------------------------------------------------------------------------
(* Calls.  Each names its targets and does them one by one.  Done: those it  *)
(* did; Failed: at most one more, whose rule changed in memory only.         *)

CallOutcomes(S) ==
  {[done |-> S, failed |-> {}]} \cup
  IF storeFailures < MaxStoreFailures
  THEN {[done |-> D, failed |-> {t}] : D \in SUBSET S, t \in S} ELSE {}

\* What a write under a kind leaves: the rows of the targets done, and which
\* targets memory and rows may differ on.
Written(kind, o, kept) ==
  /\ o.failed \cap o.done = {}
  /\ rows' = [rows EXCEPT ![kind] = IF kept THEN @ \cup o.done ELSE @ \ o.done]
  /\ unsaved' = [unsaved EXCEPT ![kind] = (@ \ o.done) \cup o.failed]
  /\ storeFailures' = IF o.failed = {} THEN storeFailures ELSE storeFailures + 1

\* The requests left when those of a set of devices are answered.
RequestsLeft(D) == [d \in Controlled |-> IF d \in D THEN NoIp ELSE pendingFrom[d]]

\* closeAgentDevice: the registered agents of the devices, and with each of
\* them the Apps of its device; an App without an agent stays.
ClosedAgents(D) ==
  [c \in Links |->
    IF /\ DeviceFor[c] \in D /\ link[c].auth = "verified"
       /\ \E a \in AgentSockets :
            DeviceFor[a] = DeviceFor[c] /\ link[a].auth = "verified" /\ link[a].sock = "open"
    THEN Ended(c) ELSE link[c]]

ApproveDevices(S) ==
  \E o \in CallOutcomes(S) :
    /\ Written("authorized", o, TRUE)
    /\ authorized' = authorized \cup o.done \cup o.failed
    /\ pendingFrom' = RequestsLeft(o.done \cup o.failed)
    /\ UNCHANGED <<approval, disabled, banned, link>>

RemoveAuthorization(S) ==
  \E o \in CallOutcomes(S) :
    /\ Written("authorized", o, FALSE)
    /\ authorized' = authorized \ (o.done \cup o.failed)
    /\ pendingFrom' = RequestsLeft(o.done \cup o.failed)
    /\ link' = IF approval = "manual" THEN ClosedAgents(o.done) ELSE link
    /\ UNCHANGED <<approval, disabled, banned>>

\* A rejected request disables the device as well.
Disable(S, rule) ==
  \E o \in CallOutcomes(S) :
    /\ Written("disabled", o, rule = "permanent")
    /\ disabled' = [d \in Controlled |->
         IF d \in o.done \cup o.failed THEN rule ELSE disabled[d]]
    /\ pendingFrom' = RequestsLeft(o.done \cup o.failed)
    /\ link' = ClosedAgents(o.done)
    /\ UNCHANGED <<approval, authorized, banned>>

Enable(S) ==
  \E o \in CallOutcomes(S) :
    /\ Written("disabled", o, FALSE)
    /\ disabled' = [d \in Controlled |->
         IF d \in o.done \cup o.failed THEN "none" ELSE disabled[d]]
    /\ UNCHANGED <<approval, authorized, banned, pendingFrom, link>>

\* banIp: every connection from the address is closed, and nothing it asked
\* for is asked any longer.
Ban(S, rule) ==
  \E o \in CallOutcomes(S) :
    /\ Written("banned", o, rule = "permanent")
    /\ banned' = [i \in Ips |-> IF i \in o.done \cup o.failed THEN rule ELSE banned[i]]
    /\ pendingFrom' =
         RequestsLeft({d \in Controlled : pendingFrom[d] \in o.done \cup o.failed})
    /\ link' = [c \in Links |-> IF link[c].ip \in o.done THEN Ended(c) ELSE link[c]]
    /\ UNCHANGED <<approval, authorized, disabled>>

Unban(S) ==
  \E o \in CallOutcomes(S) :
    /\ Written("banned", o, FALSE)
    /\ banned' = [i \in Ips |-> IF i \in o.done \cup o.failed THEN "none" ELSE banned[i]]
    /\ UNCHANGED <<approval, authorized, disabled, pendingFrom, link>>

\* A temporary rule or a request is over: nobody tells, the next look at it
\* removes it (activeRule, pruneExpiredRules).
RuleExpires ==
  \/ \E d \in Controlled :
       /\ disabled[d] = "temporary"
       /\ disabled' = [disabled EXCEPT ![d] = "none"]
       /\ UNCHANGED <<approval, authorized, banned, pendingFrom, rows, unsaved,
                      storeFailures, link>>
  \/ \E i \in Ips :
       /\ banned[i] = "temporary"
       /\ banned' = [banned EXCEPT ![i] = "none"]
       /\ UNCHANGED <<approval, authorized, disabled, pendingFrom, rows, unsaved,
                      storeFailures, link>>
  \/ \E d \in Controlled :
       /\ pendingFrom[d] # NoIp
       /\ pendingFrom' = [pendingFrom EXCEPT ![d] = NoIp]
       /\ UNCHANGED <<approval, authorized, disabled, banned, rows, unsaved,
                      storeFailures, link>>

\* loadPermanentControlRules, in a process that has no connections.
RestartControls ==
  /\ authorized' = rows["authorized"]
  /\ disabled' = [d \in Controlled |->
       IF d \in rows["disabled"] THEN "permanent" ELSE "none"]
  /\ banned' = [i \in Ips |-> IF i \in rows["banned"] THEN "permanent" ELSE "none"]
  /\ pendingFrom' = [d \in Controlled |-> NoIp]
  /\ unsaved' = [k \in Kinds |-> {}]
  /\ link' = [c \in Links |-> NoLink]
  /\ UNCHANGED <<approval, rows, storeFailures>>

ControlsNext ==
  \/ \E c \in Links, i \in Ips : AcceptLink(c, i)
  \/ \E c \in Links : LinkEnds(c)
  \/ \E c \in AgentSockets : ControlledInit(c) \/ HelloAccepted(c) \/ HelloRejected(c)
  \/ \E m \in AppSockets : AppVouched(m)
  \/ \E S \in SUBSET Controlled \ {{}} : ApproveDevices(S) \/ RemoveAuthorization(S) \/ Enable(S)
  \/ \E S \in SUBSET Controlled \ {{}}, rule \in Rules : Disable(S, rule)
  \/ \E S \in SUBSET Ips \ {{}}, rule \in Rules : Ban(S, rule)
  \/ \E S \in SUBSET Ips \ {{}} : Unban(S)
  \/ RuleExpires \/ RestartControls

ControlsSpec == ControlsInit /\ [][ControlsNext]_controlVars

-----------------------------------------------------------------------------
(* Properties.                                                             *)

ControlsTypeOK ==
  /\ approval \in {"manual", "automatic"}
  /\ authorized \subseteq Controlled
  /\ disabled \in [Controlled -> Rules \cup {"none"}]
  /\ banned \in [Ips -> Rules \cup {"none"}]
  /\ pendingFrom \in [Controlled -> Ips \cup {NoIp}]
  /\ rows \in [Kinds -> SUBSET (Controlled \cup Ips)]
  /\ unsaved \in [Kinds -> SUBSET (Controlled \cup Ips)]
  /\ storeFailures \in 0 .. MaxStoreFailures
  /\ link \in [Links -> [sock : {"none", "open", "ending"},
                        auth : {"none", "pending", "verified", "failed"},
                        ip : Ips \cup {NoIp}]]

\* No open agent belongs to a device that is disabled, or, where devices are
\* approved by hand, to one that is not approved; nothing is open from a banned
\* address.  So it is after any sequence of calls, expiries, hellos and
\* restarts; only a call the store failed may leave a connection open.
BarredStayOut ==
  \A c \in Links : link[c].sock = "open" =>
    /\ link[c].ip \in unsaved["banned"] \/ banned[link[c].ip] = "none"
    /\ c \in AgentSockets /\ link[c].auth = "verified" =>
         /\ DeviceFor[c] \in unsaved["disabled"] \/ disabled[DeviceFor[c]] = "none"
         /\ \/ approval = "automatic" \/ DeviceFor[c] \in authorized
            \/ DeviceFor[c] \in unsaved["authorized"]

\* The administration is asked only about a device that nothing decides yet,
\* and only on behalf of an address it has not banned.
RequestsOpen ==
  \A d \in Controlled : pendingFrom[d] # NoIp =>
    /\ approval = "manual"
    /\ d \notin authorized /\ disabled[d] = "none" /\ banned[pendingFrom[d]] = "none"

\* What is stored is what is in force without an end: a restart forgets what
\* was meant to end and nothing else, whatever rules replaced one another.
RowsArePermanent ==
  /\ \A d \in Controlled \ unsaved["authorized"] :
       d \in rows["authorized"] <=> d \in authorized
  /\ \A d \in Controlled \ unsaved["disabled"] :
       d \in rows["disabled"] <=> disabled[d] = "permanent"
  /\ \A i \in Ips \ unsaved["banned"] :
       i \in rows["banned"] <=> banned[i] = "permanent"

\* The administration's rules hold.
ControlsHold == ControlsTypeOK /\ BarredStayOut /\ RequestsOpen /\ RowsArePermanent
=============================================================================
