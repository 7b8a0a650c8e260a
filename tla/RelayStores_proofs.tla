------------------------- MODULE RelayStores_proofs -------------------------
(***************************************************************************)
(* Theorems about what the relay keeps of its administration, its users    *)
(* and its devices: whom it lets in, what a device, a session or a token   *)
(* is still good for, and what is shown of a device.                       *)
(***************************************************************************)
EXTENDS AdminControls, UserAccounts, DeviceStatus, FiniteSetTheorems, TLAPS

-----------------------------------------------------------------------------
(* The administration's rules.  ControlsHold is inductive but for where a   *)
(* connection comes from, and what the rows of each kind are about.         *)

Addressed == \A c \in Links : link[c].sock # "none" => link[c].ip \in Ips

RowTargets ==
  /\ rows["authorized"] \subseteq Controlled /\ rows["disabled"] \subseteq Controlled
  /\ rows["banned"] \subseteq Ips

ControlsIInv == ControlsHold /\ Addressed /\ RowTargets

\* A call acts on its targets; what it did not do it left alone.
LEMMA Outcomes ==
  ASSUME ControlsTypeOK, NEW S, NEW o \in CallOutcomes(S)
  PROVE  /\ o.done \subseteq S /\ o.failed \subseteq S
         /\ o.failed # {} => storeFailures < MaxStoreFailures
BY DEF CallOutcomes

\* What a write leaves of the rows.
LEMMA WrittenRows ==
  ASSUME ControlsTypeOK, RowTargets, NEW kind \in Kinds,
         NEW S, S \subseteq IF kind = "banned" THEN Ips ELSE Controlled,
         NEW o \in CallOutcomes(S), NEW kept \in BOOLEAN, Written(kind, o, kept)
  PROVE  /\ rows' \in [Kinds -> SUBSET (Controlled \cup Ips)]
         /\ unsaved' \in [Kinds -> SUBSET (Controlled \cup Ips)]
         /\ storeFailures' \in 0 .. MaxStoreFailures
         /\ RowTargets'
         /\ \A k \in Kinds : k # kind => rows'[k] = rows[k] /\ unsaved'[k] = unsaved[k]
         /\ rows'[kind] = IF kept THEN rows[kind] \cup o.done ELSE rows[kind] \ o.done
         /\ unsaved'[kind] = (unsaved[kind] \ o.done) \cup o.failed
<1> USE DEF ControlsTypeOK, Kinds
<1>1. o.done \subseteq S /\ o.failed \subseteq S
      /\ (o.failed # {} => storeFailures < MaxStoreFailures)
  BY Outcomes
<1>2. /\ rows' = [rows EXCEPT ![kind] = IF kept THEN @ \cup o.done ELSE @ \ o.done]
      /\ unsaved' = [unsaved EXCEPT ![kind] = (@ \ o.done) \cup o.failed]
      /\ storeFailures' = IF o.failed = {} THEN storeFailures ELSE storeFailures + 1
  BY DEF Written
<1> DEFINE done == o.done
           failed == o.failed
<1> HIDE DEF done, failed
<1>3. S \subseteq Controlled \cup Ips /\ done \subseteq S /\ failed \subseteq S
  BY <1>1 DEF done, failed
<1>4. rows' \in [Kinds -> SUBSET (Controlled \cup Ips)]
  BY <1>2, <1>3 DEF done
<1>5. unsaved' \in [Kinds -> SUBSET (Controlled \cup Ips)]
  BY <1>2, <1>3 DEF done, failed
<1>6. storeFailures' \in 0 .. MaxStoreFailures
  BY <1>1, <1>2, ControlledBy
<1>7. /\ rows'[kind] = IF kept THEN rows[kind] \cup o.done ELSE rows[kind] \ o.done
      /\ unsaved'[kind] = (unsaved[kind] \ o.done) \cup o.failed
      /\ \A k \in Kinds : k # kind => rows'[k] = rows[k] /\ unsaved'[k] = unsaved[k]
  BY <1>2
<1>8. RowTargets'
  <2>1. \A k \in Kinds : rows'[k] \subseteq rows[k] \/ (k = kind /\ rows'[k] \subseteq rows[k] \cup done)
    BY <1>7 DEF done
  <2> QED BY <1>3, <2>1 DEF RowTargets
<1> QED BY <1>4, <1>5, <1>6, <1>7, <1>8

\* Closed connections stay closed.
LEMMA EndedIs ==
  ASSUME ControlsTypeOK, NEW c \in Links
  PROVE  /\ Ended(c).sock # "open" /\ Ended(c).auth = link[c].auth /\ Ended(c).ip = link[c].ip
         /\ Ended(c).sock = "none" <=> link[c].sock = "none"
         /\ Ended(c) \in [sock : {"none", "open", "ending"},
                          auth : {"none", "pending", "verified", "failed"},
                          ip : Ips \cup {NoIp}]
BY DEF ControlsTypeOK, Ended

\* Every agent of the devices D that a call closes has its socket closed.
LEMMA ClosedAgentsAre ==
  ASSUME ControlsTypeOK, NEW D
  PROVE  /\ ClosedAgents(D) \in [Links -> [sock : {"none", "open", "ending"},
                                           auth : {"none", "pending", "verified", "failed"},
                                           ip : Ips \cup {NoIp}]]
         /\ \A c \in Links : /\ ClosedAgents(D)[c].ip = link[c].ip
                             /\ ClosedAgents(D)[c].auth = link[c].auth
                             /\ ClosedAgents(D)[c].sock = "none" <=> link[c].sock = "none"
                             /\ ClosedAgents(D)[c].sock = "open" => link[c].sock = "open"
         /\ \A c \in AgentSockets :
              ClosedAgents(D)[c].sock = "open" /\ link[c].auth = "verified" => DeviceFor[c] \notin D
<1>1. ASSUME NEW c \in Links
      PROVE  /\ ClosedAgents(D)[c] \in {link[c], Ended(c)}
             /\ c \in AgentSockets /\ link[c].auth = "verified" /\ link[c].sock = "open"
                  /\ DeviceFor[c] \in D => ClosedAgents(D)[c] = Ended(c)
  BY DEF ClosedAgents
<1>2. ClosedAgents(D) \in [Links -> [sock : {"none", "open", "ending"},
                                     auth : {"none", "pending", "verified", "failed"},
                                     ip : Ips \cup {NoIp}]]
  <2>1. ClosedAgents(D) = [c \in Links |-> ClosedAgents(D)[c]]
    BY DEF ClosedAgents
  <2>2. \A c \in Links : ClosedAgents(D)[c] \in [sock : {"none", "open", "ending"},
                                     auth : {"none", "pending", "verified", "failed"},
                                     ip : Ips \cup {NoIp}]
    BY <1>1, EndedIs DEF ControlsTypeOK
  <2> HIDE DEF ClosedAgents
  <2> QED BY <2>1, <2>2
<1>3. ASSUME NEW c \in Links
      PROVE  /\ ClosedAgents(D)[c].ip = link[c].ip
             /\ ClosedAgents(D)[c].auth = link[c].auth
             /\ ClosedAgents(D)[c].sock = "none" <=> link[c].sock = "none"
             /\ ClosedAgents(D)[c].sock = "open" => link[c].sock = "open"
             /\ c \in AgentSockets /\ ClosedAgents(D)[c].sock = "open" /\ link[c].auth = "verified"
                  => DeviceFor[c] \notin D
  BY <1>1, EndedIs
<1> QED BY <1>2, <1>3 DEF Links

\* A step of one connection: the rules and what is asked stay.
LEMMA LinkStep ==
  ASSUME ControlsIInv,
         link' \in [Links -> [sock : {"none", "open", "ending"},
                              auth : {"none", "pending", "verified", "failed"},
                              ip : Ips \cup {NoIp}]],
         \A c \in Links :
           /\ link'[c].sock # "none" => link'[c].ip \in Ips
           /\ link'[c].sock = "open" =>
                /\ \/ link[c].sock = "open" /\ link'[c].ip = link[c].ip
                   \/ banned[link'[c].ip] = "none"
                /\ c \in AgentSockets /\ link'[c].auth = "verified" =>
                     link[c].sock = "open" /\ link[c].auth = "verified",
         UNCHANGED <<approval, authorized, disabled, banned, pendingFrom, rows, unsaved,
                     storeFailures>>
  PROVE  ControlsIInv'
<1> USE DEF ControlsIInv, ControlsHold
<1>1. ControlsTypeOK'
  BY DEF ControlsTypeOK
<1>2. BarredStayOut'
  BY DEF BarredStayOut, Links
<1>3. RequestsOpen' /\ RowsArePermanent' /\ Addressed' /\ RowTargets'
  BY DEF RequestsOpen, RowsArePermanent, Addressed, RowTargets
<1> QED BY <1>1, <1>2, <1>3

LEMMA AcceptLinkStep ==
  ASSUME ControlsIInv, NEW c \in Links, NEW i \in Ips, AcceptLink(c, i)
  PROVE  ControlsIInv'
<1>1. \A b \in Links : link'[b] = IF b = c THEN [sock |-> "open", auth |-> "none", ip |-> i]
                                  ELSE link[b]
  BY DEF AcceptLink, ControlsIInv, ControlsHold, ControlsTypeOK
<1>2. link' \in [Links -> [sock : {"none", "open", "ending"},
                           auth : {"none", "pending", "verified", "failed"},
                           ip : Ips \cup {NoIp}]]
  BY DEF AcceptLink, ControlsIInv, ControlsHold, ControlsTypeOK
<1> QED BY <1>1, <1>2, LinkStep DEF AcceptLink, ControlsIInv, Addressed

LEMMA ControlledInitStep ==
  ASSUME ControlsIInv, NEW c \in AgentSockets, ControlledInit(c)
  PROVE  ControlsIInv'
<1>1. c \in Links /\ link[c] \in [sock : {"none", "open", "ending"},
                                  auth : {"none", "pending", "verified", "failed"},
                                  ip : Ips \cup {NoIp}]
  BY DEF ControlsIInv, ControlsHold, ControlsTypeOK, Links
<1>2. \A b \in Links : link'[b] = IF b = c THEN [link[c] EXCEPT !.auth = "pending"] ELSE link[b]
  BY <1>1 DEF ControlledInit, ControlsIInv, ControlsHold, ControlsTypeOK
<1>3. link' \in [Links -> [sock : {"none", "open", "ending"},
                           auth : {"none", "pending", "verified", "failed"},
                           ip : Ips \cup {NoIp}]]
  BY <1>1 DEF ControlledInit, ControlsIInv, ControlsHold, ControlsTypeOK
<1> QED BY <1>1, <1>2, <1>3, LinkStep DEF ControlledInit, ControlsIInv, Addressed

LEMMA AppVouchedStep ==
  ASSUME ControlsIInv, NEW m \in AppSockets, AppVouched(m)
  PROVE  ControlsIInv'
<1>1. m \in Links /\ m \notin AgentSockets
      /\ link[m] \in [sock : {"none", "open", "ending"},
                      auth : {"none", "pending", "verified", "failed"},
                      ip : Ips \cup {NoIp}]
  BY ControlledBy DEF ControlsIInv, ControlsHold, ControlsTypeOK, Links
<1>2. \A b \in Links : link'[b] = IF b = m THEN [link[m] EXCEPT !.auth = "verified"] ELSE link[b]
  BY <1>1 DEF AppVouched, ControlsIInv, ControlsHold, ControlsTypeOK
<1>3. link' \in [Links -> [sock : {"none", "open", "ending"},
                           auth : {"none", "pending", "verified", "failed"},
                           ip : Ips \cup {NoIp}]]
  BY <1>1 DEF AppVouched, ControlsIInv, ControlsHold, ControlsTypeOK
<1> QED BY <1>1, <1>2, <1>3, LinkStep DEF AppVouched, ControlsIInv, Addressed

LEMMA LinkEndsStep ==
  ASSUME ControlsIInv, NEW c \in Links, LinkEnds(c)
  PROVE  ControlsIInv'
<1>1. \A b \in Links : link'[b] = IF b # c THEN link[b]
                                  ELSE IF link[c].sock = "open" THEN Ended(c) ELSE NoLink
  BY DEF LinkEnds, ControlsIInv, ControlsHold, ControlsTypeOK
<1>2. Ended(c) \in [sock : {"none", "open", "ending"},
                    auth : {"none", "pending", "verified", "failed"},
                    ip : Ips \cup {NoIp}]
      /\ Ended(c).sock # "open" /\ Ended(c).ip = link[c].ip
      /\ (Ended(c).sock = "none" <=> link[c].sock = "none")
  BY EndedIs DEF ControlsIInv, ControlsHold
<1>3. link' \in [Links -> [sock : {"none", "open", "ending"},
                           auth : {"none", "pending", "verified", "failed"},
                           ip : Ips \cup {NoIp}]]
  BY <1>2 DEF LinkEnds, NoLink, ControlsIInv, ControlsHold, ControlsTypeOK
<1> HIDE DEF Ended
<1> QED BY <1>1, <1>2, <1>3, LinkStep DEF LinkEnds, NoLink, ControlsIInv, Addressed

\* The agents that were there are closed, so only the one let in is judged anew.
LEMMA HelloAcceptedStep ==
  ASSUME ControlsIInv, NEW c \in AgentSockets, HelloAccepted(c)
  PROVE  ControlsIInv'
<1> USE DEF ControlsIInv, ControlsHold
<1> DEFINE d == DeviceFor[c]
           former == {b \in Links \ {c} : DeviceFor[b] = d /\ link[b].auth = "verified"}
<1>1. c \in Links /\ d \in Controlled
  BY ControlledBy DEF Links
<1>2. \A b \in Links : Ended(b) \in [sock : {"none", "open", "ending"},
                                     auth : {"none", "pending", "verified", "failed"},
                                     ip : Ips \cup {NoIp}]
        /\ Ended(b).sock # "open" /\ Ended(b).ip = link[b].ip
        /\ (Ended(b).sock = "none" <=> link[b].sock = "none")
  BY EndedIs
<1>3. /\ link' = [b \in Links |->
                    IF b = c THEN [link[c] EXCEPT !.auth = "verified"]
                    ELSE IF b \in former THEN Ended(b) ELSE link[b]]
      /\ authorized' = authorized \cup {d}
      /\ rows' = IF d \in authorized THEN rows
                 ELSE [rows EXCEPT !["authorized"] = @ \cup {d}]
      /\ unsaved' = IF d \in authorized THEN unsaved
                    ELSE [unsaved EXCEPT !["authorized"] = @ \ {d}]
      /\ pendingFrom' = [pendingFrom EXCEPT ![d] = NoIp]
      /\ UNCHANGED <<approval, disabled, banned, storeFailures>>
      /\ disabled[d] = "none" /\ banned[link[c].ip] = "none"
      /\ link[c].sock # "none"
  BY DEF HelloAccepted, MayJoin, Barred, LinkHandled
<1> HIDE DEF Ended, d, former
<1>4. [link[c] EXCEPT !.auth = "verified"] \in [sock : {"none", "open", "ending"},
                                               auth : {"none", "pending", "verified", "failed"},
                                               ip : Ips \cup {NoIp}]
      /\ [link[c] EXCEPT !.auth = "verified"].ip = link[c].ip
  BY <1>1 DEF ControlsTypeOK
<1>5. /\ rows'["disabled"] = rows["disabled"] /\ rows'["banned"] = rows["banned"]
      /\ unsaved'["disabled"] = unsaved["disabled"] /\ unsaved'["banned"] = unsaved["banned"]
      /\ unsaved'["authorized"] \subseteq unsaved["authorized"]
      /\ \A e \in Controlled : e # d =>
            /\ e \in unsaved'["authorized"] <=> e \in unsaved["authorized"]
            /\ e \in rows'["authorized"] <=> e \in rows["authorized"]
      /\ d \in rows'["authorized"] \/ d \in unsaved'["authorized"]
      /\ rows'["authorized"] \subseteq rows["authorized"] \cup {d}
  BY <1>1, <1>3 DEF ControlsTypeOK, Kinds, RowsArePermanent
<1>6. ControlsTypeOK'
  <2>1. link' \in [Links -> [sock : {"none", "open", "ending"},
                             auth : {"none", "pending", "verified", "failed"},
                             ip : Ips \cup {NoIp}]]
    BY <1>2, <1>3, <1>4 DEF ControlsTypeOK
  <2>2. /\ rows' \in [Kinds -> SUBSET (Controlled \cup Ips)]
        /\ unsaved' \in [Kinds -> SUBSET (Controlled \cup Ips)]
    BY <1>1, <1>3 DEF ControlsTypeOK, Kinds
  <2> QED BY <1>1, <1>3, <2>1, <2>2 DEF ControlsTypeOK
<1>7. BarredStayOut'
  <2> SUFFICES ASSUME NEW b \in Links, link'[b].sock = "open"
               PROVE  /\ link'[b].ip \in unsaved'["banned"] \/ banned'[link'[b].ip] = "none"
                      /\ b \in AgentSockets /\ link'[b].auth = "verified" =>
                           /\ DeviceFor[b] \in unsaved'["disabled"] \/ disabled'[DeviceFor[b]] = "none"
                           /\ \/ approval' = "automatic" \/ DeviceFor[b] \in authorized'
                              \/ DeviceFor[b] \in unsaved'["authorized"]
    BY DEF BarredStayOut
  <2>1. CASE b = c
    BY <1>3, <1>4, <2>1 DEF d
  <2>2. CASE b # c
    <3>1. link'[b] = link[b] /\ b \notin former
      BY <1>2, <1>3, <2>2
    <3>2. DeviceFor[b] \in Controlled
      BY ControlledBy DEF Links
    <3> QED BY <1>3, <1>5, <3>1, <3>2 DEF BarredStayOut
  <2> QED BY <2>1, <2>2
<1>8. RequestsOpen'
  BY <1>1, <1>3 DEF RequestsOpen, ControlsTypeOK
<1>9. RowsArePermanent'
  BY <1>1, <1>3, <1>5 DEF RowsArePermanent
<1>10. Addressed' /\ RowTargets'
  BY <1>1, <1>2, <1>3, <1>4, <1>5 DEF Addressed, RowTargets
<1> QED BY <1>6, <1>7, <1>8, <1>9, <1>10

LEMMA HelloRejectedStep ==
  ASSUME ControlsIInv, NEW c \in AgentSockets, HelloRejected(c)
  PROVE  ControlsIInv'
<1> USE DEF ControlsIInv, ControlsHold
<1> DEFINE d == DeviceFor[c]
           was == [Ended(c) EXCEPT !.auth = "failed"]
<1>1. c \in Links /\ d \in Controlled
  BY ControlledBy DEF Links
<1>2. was \in [sock : {"none", "open", "ending"},
               auth : {"none", "pending", "verified", "failed"}, ip : Ips \cup {NoIp}]
      /\ was.sock # "open" /\ was.ip = link[c].ip
      /\ (was.sock = "none" <=> link[c].sock = "none")
  BY <1>1, EndedIs
<1>3. /\ link' = [link EXCEPT ![c] = was]
      /\ pendingFrom' = IF Barred(c) THEN pendingFrom
                        ELSE [pendingFrom EXCEPT ![d] = link[c].ip]
      /\ UNCHANGED <<approval, authorized, disabled, banned, rows, unsaved, storeFailures>>
      /\ link[c].sock # "none" /\ ~MayJoin(c)
  BY DEF HelloRejected, LinkHandled
<1> HIDE DEF was
<1>4. ControlsTypeOK'
  <2>1. pendingFrom' \in [Controlled -> Ips \cup {NoIp}]
    BY <1>1, <1>3 DEF ControlsTypeOK
  <2>2. link' \in [Links -> [sock : {"none", "open", "ending"},
                             auth : {"none", "pending", "verified", "failed"},
                             ip : Ips \cup {NoIp}]]
    BY <1>2, <1>3 DEF ControlsTypeOK
  <2> QED BY <1>3, <2>1, <2>2 DEF ControlsTypeOK
<1>5. \A b \in Links : link'[b] = IF b = c THEN was ELSE link[b]
  BY <1>3 DEF ControlsTypeOK
<1>6. BarredStayOut'
  BY <1>2, <1>3, <1>5 DEF BarredStayOut
<1>7. RequestsOpen'
  <2>1. CASE Barred(c)
    BY <1>3, <2>1 DEF RequestsOpen
  <2>2. CASE ~Barred(c)
    <3>1. /\ approval = "manual" /\ d \notin authorized /\ disabled[d] = "none"
          /\ banned[link[c].ip] = "none"
      BY <1>3, <2>2 DEF MayJoin, Barred, ControlsTypeOK
    <3>2. \A e \in Controlled : pendingFrom'[e] = IF e = d THEN link[c].ip ELSE pendingFrom[e]
      BY <1>1, <1>3, <2>2 DEF ControlsTypeOK
    <3> QED BY <1>3, <3>1, <3>2 DEF RequestsOpen
  <2> QED BY <2>1, <2>2
<1>8. RowsArePermanent' /\ RowTargets'
  BY <1>3 DEF RowsArePermanent, RowTargets
<1>9. Addressed'
  BY <1>2, <1>3, <1>5 DEF Addressed
<1> QED BY <1>4, <1>6, <1>7, <1>8, <1>9

\* The calls about devices: what they did is in the rows, what failed is marked.
LEMMA ApproveStep ==
  ASSUME ControlsIInv, NEW S \in SUBSET Controlled, ApproveDevices(S)
  PROVE  ControlsIInv'
<1> USE DEF ControlsIInv, ControlsHold
<1>1. PICK o \in CallOutcomes(S) :
        /\ Written("authorized", o, TRUE)
        /\ authorized' = authorized \cup o.done \cup o.failed
        /\ pendingFrom' = RequestsLeft(o.done \cup o.failed)
        /\ UNCHANGED <<approval, disabled, banned, link>>
  BY DEF ApproveDevices
<1>2. o.done \subseteq S /\ o.failed \subseteq S
  BY Outcomes
<1>3. /\ rows' \in [Kinds -> SUBSET (Controlled \cup Ips)]
      /\ unsaved' \in [Kinds -> SUBSET (Controlled \cup Ips)]
      /\ storeFailures' \in 0 .. MaxStoreFailures
      /\ RowTargets'
      /\ rows'["disabled"] = rows["disabled"] /\ rows'["banned"] = rows["banned"]
      /\ unsaved'["disabled"] = unsaved["disabled"] /\ unsaved'["banned"] = unsaved["banned"]
      /\ rows'["authorized"] = rows["authorized"] \cup o.done
      /\ unsaved'["authorized"] = (unsaved["authorized"] \ o.done) \cup o.failed
  BY <1>1, WrittenRows DEF Kinds
<1> DEFINE done == o.done
           failed == o.failed
<1>4. \A d \in Controlled : pendingFrom'[d] =
        IF d \in done \cup failed THEN NoIp ELSE pendingFrom[d]
  BY <1>1 DEF RequestsLeft
<1>5. ControlsTypeOK'
  <2>1. pendingFrom' \in [Controlled -> Ips \cup {NoIp}]
    BY <1>1 DEF RequestsLeft, ControlsTypeOK
  <2> QED BY <1>1, <1>2, <1>3, <2>1 DEF ControlsTypeOK
<1> HIDE DEF done, failed
<1>6. BarredStayOut'
  BY <1>1, <1>3 DEF BarredStayOut, done, failed
<1>7. RequestsOpen'
  BY <1>1, <1>4 DEF RequestsOpen, done, failed
<1>8. RowsArePermanent'
  BY <1>1, <1>3 DEF RowsArePermanent
<1>9. Addressed'
  BY <1>1 DEF Addressed
<1> QED BY <1>3, <1>5, <1>6, <1>7, <1>8, <1>9

LEMMA RemoveAuthorizationStep ==
  ASSUME ControlsIInv, NEW S \in SUBSET Controlled, RemoveAuthorization(S)
  PROVE  ControlsIInv'
<1> USE DEF ControlsIInv, ControlsHold
<1>1. PICK o \in CallOutcomes(S) :
        /\ Written("authorized", o, FALSE)
        /\ authorized' = authorized \ (o.done \cup o.failed)
        /\ pendingFrom' = RequestsLeft(o.done \cup o.failed)
        /\ link' = IF approval = "manual" THEN ClosedAgents(o.done) ELSE link
        /\ UNCHANGED <<approval, disabled, banned>>
  BY DEF RemoveAuthorization
<1>2. o.done \subseteq S /\ o.failed \subseteq S
  BY Outcomes
<1>3. /\ rows' \in [Kinds -> SUBSET (Controlled \cup Ips)]
      /\ unsaved' \in [Kinds -> SUBSET (Controlled \cup Ips)]
      /\ storeFailures' \in 0 .. MaxStoreFailures
      /\ RowTargets'
      /\ rows'["disabled"] = rows["disabled"] /\ rows'["banned"] = rows["banned"]
      /\ unsaved'["disabled"] = unsaved["disabled"] /\ unsaved'["banned"] = unsaved["banned"]
      /\ rows'["authorized"] = rows["authorized"] \ o.done
      /\ unsaved'["authorized"] = (unsaved["authorized"] \ o.done) \cup o.failed
  BY <1>1, WrittenRows DEF Kinds
<1>4. \A d \in Controlled : pendingFrom'[d] =
        IF d \in o.done \cup o.failed THEN NoIp ELSE pendingFrom[d]
  BY <1>1 DEF RequestsLeft
<1>5. ClosedAgents(o.done) \in [Links -> [sock : {"none", "open", "ending"},
                                        auth : {"none", "pending", "verified", "failed"},
                                        ip : Ips \cup {NoIp}]]
  BY ClosedAgentsAre
<1>6. ControlsTypeOK'
  <2>1. pendingFrom' \in [Controlled -> Ips \cup {NoIp}]
    BY <1>1 DEF RequestsLeft, ControlsTypeOK
  <2> QED BY <1>1, <1>2, <1>3, <1>5, <2>1 DEF ControlsTypeOK
<1>7. \A c \in Links : /\ link'[c].ip = link[c].ip
                       /\ link'[c].auth = link[c].auth
                       /\ link'[c].sock = "none" <=> link[c].sock = "none"
                       /\ link'[c].sock = "open" => link[c].sock = "open"
  BY <1>1, ClosedAgentsAre
<1>8. \A c \in AgentSockets :
        approval = "manual" /\ link'[c].sock = "open" /\ link[c].auth = "verified"
          => DeviceFor[c] \notin o.done
  BY <1>1, ClosedAgentsAre
<1>9. BarredStayOut'
  <2> SUFFICES ASSUME NEW b \in Links, link'[b].sock = "open"
               PROVE  /\ link'[b].ip \in unsaved'["banned"] \/ banned'[link'[b].ip] = "none"
                      /\ b \in AgentSockets /\ link'[b].auth = "verified" =>
                           /\ DeviceFor[b] \in unsaved'["disabled"] \/ disabled'[DeviceFor[b]] = "none"
                           /\ \/ approval' = "automatic" \/ DeviceFor[b] \in authorized'
                              \/ DeviceFor[b] \in unsaved'["authorized"]
    BY DEF BarredStayOut
  <2>1. link[b].sock = "open" /\ link'[b].ip = link[b].ip /\ link'[b].auth = link[b].auth
    BY <1>7
  <2>2. approval \in {"manual", "automatic"}
    BY DEF ControlsTypeOK
  <2> QED BY <1>1, <1>3, <1>8, <2>1, <2>2 DEF BarredStayOut
<1>10. RequestsOpen'
  BY <1>1, <1>4 DEF RequestsOpen
<1>11. RowsArePermanent'
  BY <1>1, <1>3 DEF RowsArePermanent
<1>12. Addressed'
  BY <1>7 DEF Addressed
<1> QED BY <1>3, <1>6, <1>9, <1>10, <1>11, <1>12

LEMMA DisableStep ==
  ASSUME ControlsIInv, NEW S \in SUBSET Controlled, NEW rule \in Rules, Disable(S, rule)
  PROVE  ControlsIInv'
<1> USE DEF ControlsIInv, ControlsHold
<1>1. PICK o \in CallOutcomes(S) :
        /\ Written("disabled", o, rule = "permanent")
        /\ disabled' = [d \in Controlled |->
                          IF d \in o.done \cup o.failed THEN rule ELSE disabled[d]]
        /\ pendingFrom' = RequestsLeft(o.done \cup o.failed)
        /\ link' = ClosedAgents(o.done)
        /\ UNCHANGED <<approval, authorized, banned>>
  BY DEF Disable
<1>2. o.done \subseteq S /\ o.failed \subseteq S
  BY Outcomes
<1>3. /\ rows' \in [Kinds -> SUBSET (Controlled \cup Ips)]
      /\ unsaved' \in [Kinds -> SUBSET (Controlled \cup Ips)]
      /\ storeFailures' \in 0 .. MaxStoreFailures
      /\ RowTargets'
      /\ rows'["authorized"] = rows["authorized"] /\ rows'["banned"] = rows["banned"]
      /\ unsaved'["authorized"] = unsaved["authorized"] /\ unsaved'["banned"] = unsaved["banned"]
      /\ rows'["disabled"] = IF rule = "permanent" THEN rows["disabled"] \cup o.done
                             ELSE rows["disabled"] \ o.done
      /\ unsaved'["disabled"] = (unsaved["disabled"] \ o.done) \cup o.failed
  BY <1>1, WrittenRows DEF Kinds
<1>4. \A d \in Controlled :
        /\ pendingFrom'[d] = IF d \in o.done \cup o.failed THEN NoIp ELSE pendingFrom[d]
        /\ disabled'[d] = IF d \in o.done \cup o.failed THEN rule ELSE disabled[d]
  BY <1>1 DEF RequestsLeft
<1>5. link' \in [Links -> [sock : {"none", "open", "ending"},
                           auth : {"none", "pending", "verified", "failed"},
                           ip : Ips \cup {NoIp}]]
  BY <1>1, ClosedAgentsAre
<1>6. ControlsTypeOK'
  <2>1. pendingFrom' \in [Controlled -> Ips \cup {NoIp}]
    BY <1>1 DEF RequestsLeft, ControlsTypeOK
  <2>2. disabled' \in [Controlled -> Rules \cup {"none"}]
    BY <1>1 DEF ControlsTypeOK
  <2> QED BY <1>1, <1>2, <1>3, <1>5, <2>1, <2>2 DEF ControlsTypeOK
<1>7. \A c \in Links : /\ link'[c].ip = link[c].ip
                       /\ link'[c].auth = link[c].auth
                       /\ link'[c].sock = "none" <=> link[c].sock = "none"
                       /\ link'[c].sock = "open" => link[c].sock = "open"
  BY <1>1, ClosedAgentsAre
<1>8. \A c \in AgentSockets :
        link'[c].sock = "open" /\ link[c].auth = "verified" => DeviceFor[c] \notin o.done
  BY <1>1, ClosedAgentsAre
<1>9. BarredStayOut'
  <2> SUFFICES ASSUME NEW b \in Links, link'[b].sock = "open"
               PROVE  /\ link'[b].ip \in unsaved'["banned"] \/ banned'[link'[b].ip] = "none"
                      /\ b \in AgentSockets /\ link'[b].auth = "verified" =>
                           /\ DeviceFor[b] \in unsaved'["disabled"] \/ disabled'[DeviceFor[b]] = "none"
                           /\ \/ approval' = "automatic" \/ DeviceFor[b] \in authorized'
                              \/ DeviceFor[b] \in unsaved'["authorized"]
    BY DEF BarredStayOut
  <2>1. link[b].sock = "open" /\ link'[b].ip = link[b].ip /\ link'[b].auth = link[b].auth
    BY <1>7
  <2>2. DeviceFor[b] \in Controlled
    BY ControlledBy DEF Links
  <2> QED BY <1>1, <1>3, <1>4, <1>8, <2>1, <2>2 DEF BarredStayOut
<1>10. RequestsOpen'
  BY <1>1, <1>4 DEF RequestsOpen
<1>11. RowsArePermanent'
  BY <1>1, <1>3, <1>4 DEF RowsArePermanent, Rules
<1>12. Addressed'
  BY <1>7 DEF Addressed
<1> QED BY <1>3, <1>6, <1>9, <1>10, <1>11, <1>12

LEMMA EnableStep ==
  ASSUME ControlsIInv, NEW S \in SUBSET Controlled, Enable(S)
  PROVE  ControlsIInv'
<1> USE DEF ControlsIInv, ControlsHold
<1>1. PICK o \in CallOutcomes(S) :
        /\ Written("disabled", o, FALSE)
        /\ disabled' = [d \in Controlled |->
                          IF d \in o.done \cup o.failed THEN "none" ELSE disabled[d]]
        /\ UNCHANGED <<approval, authorized, banned, pendingFrom, link>>
  BY DEF Enable
<1>2. /\ rows' \in [Kinds -> SUBSET (Controlled \cup Ips)]
      /\ unsaved' \in [Kinds -> SUBSET (Controlled \cup Ips)]
      /\ storeFailures' \in 0 .. MaxStoreFailures
      /\ RowTargets'
      /\ rows'["authorized"] = rows["authorized"] /\ rows'["banned"] = rows["banned"]
      /\ unsaved'["authorized"] = unsaved["authorized"] /\ unsaved'["banned"] = unsaved["banned"]
      /\ rows'["disabled"] = rows["disabled"] \ o.done
      /\ unsaved'["disabled"] = (unsaved["disabled"] \ o.done) \cup o.failed
  BY <1>1, WrittenRows DEF Kinds
<1>3. \A d \in Controlled :
        disabled'[d] = IF d \in o.done \cup o.failed THEN "none" ELSE disabled[d]
  BY <1>1
<1>4. ControlsTypeOK'
  <2>1. disabled' \in [Controlled -> Rules \cup {"none"}]
    BY <1>1 DEF ControlsTypeOK
  <2> QED BY <1>1, <1>2, <2>1 DEF ControlsTypeOK
<1>5. \A b \in Links : DeviceFor[b] \in Controlled
  BY ControlledBy DEF Links
<1>6. BarredStayOut'
  BY <1>1, <1>2, <1>3, <1>5 DEF BarredStayOut
<1>7. RequestsOpen'
  BY <1>1, <1>3 DEF RequestsOpen
<1>8. RowsArePermanent'
  BY <1>1, <1>2, <1>3 DEF RowsArePermanent
<1>9. Addressed'
  BY <1>1 DEF Addressed
<1> QED BY <1>2, <1>4, <1>6, <1>7, <1>8, <1>9

\* The calls about addresses.
LEMMA BanStep ==
  ASSUME ControlsIInv, NEW S \in SUBSET Ips, NEW rule \in Rules, Ban(S, rule)
  PROVE  ControlsIInv'
<1> USE DEF ControlsIInv, ControlsHold
<1>1. PICK o \in CallOutcomes(S) :
        /\ Written("banned", o, rule = "permanent")
        /\ banned' = [i \in Ips |-> IF i \in o.done \cup o.failed THEN rule ELSE banned[i]]
        /\ pendingFrom' =
             RequestsLeft({d \in Controlled : pendingFrom[d] \in o.done \cup o.failed})
        /\ link' = [c \in Links |-> IF link[c].ip \in o.done THEN Ended(c) ELSE link[c]]
        /\ UNCHANGED <<approval, authorized, disabled>>
  BY DEF Ban
<1>2. o.done \subseteq S /\ o.failed \subseteq S
  BY Outcomes
<1>3. /\ rows' \in [Kinds -> SUBSET (Controlled \cup Ips)]
      /\ unsaved' \in [Kinds -> SUBSET (Controlled \cup Ips)]
      /\ storeFailures' \in 0 .. MaxStoreFailures
      /\ RowTargets'
      /\ rows'["authorized"] = rows["authorized"] /\ rows'["disabled"] = rows["disabled"]
      /\ unsaved'["authorized"] = unsaved["authorized"]
      /\ unsaved'["disabled"] = unsaved["disabled"]
      /\ rows'["banned"] = IF rule = "permanent" THEN rows["banned"] \cup o.done
                           ELSE rows["banned"] \ o.done
      /\ unsaved'["banned"] = (unsaved["banned"] \ o.done) \cup o.failed
  BY <1>1, WrittenRows DEF Kinds
<1>4. \A d \in Controlled : pendingFrom'[d] =
        IF pendingFrom[d] \in o.done \cup o.failed THEN NoIp ELSE pendingFrom[d]
  BY <1>1 DEF RequestsLeft
<1>5. \A i \in Ips : banned'[i] = IF i \in o.done \cup o.failed THEN rule ELSE banned[i]
  BY <1>1
<1>6. \A c \in Links :
        /\ Ended(c) \in [sock : {"none", "open", "ending"},
                         auth : {"none", "pending", "verified", "failed"}, ip : Ips \cup {NoIp}]
        /\ Ended(c).sock # "open" /\ Ended(c).ip = link[c].ip
        /\ (Ended(c).sock = "none" <=> link[c].sock = "none")
  BY EndedIs
<1> HIDE DEF Ended
<1>7. ControlsTypeOK'
  <2>1. pendingFrom' \in [Controlled -> Ips \cup {NoIp}]
    BY <1>1 DEF RequestsLeft, ControlsTypeOK
  <2>2. banned' \in [Ips -> Rules \cup {"none"}]
    BY <1>1 DEF ControlsTypeOK
  <2>3. link' \in [Links -> [sock : {"none", "open", "ending"},
                             auth : {"none", "pending", "verified", "failed"},
                             ip : Ips \cup {NoIp}]]
    BY <1>1, <1>6 DEF ControlsTypeOK
  <2> QED BY <1>1, <1>3, <2>1, <2>2, <2>3 DEF ControlsTypeOK
<1>8. BarredStayOut'
  <2> SUFFICES ASSUME NEW b \in Links, link'[b].sock = "open"
               PROVE  /\ link'[b].ip \in unsaved'["banned"] \/ banned'[link'[b].ip] = "none"
                      /\ b \in AgentSockets /\ link'[b].auth = "verified" =>
                           /\ DeviceFor[b] \in unsaved'["disabled"] \/ disabled'[DeviceFor[b]] = "none"
                           /\ \/ approval' = "automatic" \/ DeviceFor[b] \in authorized'
                              \/ DeviceFor[b] \in unsaved'["authorized"]
    BY DEF BarredStayOut
  <2>1. link'[b] = link[b] /\ link[b].ip \notin o.done
    BY <1>1, <1>6
  <2>2. link[b].ip \in Ips
    BY <2>1 DEF Addressed
  <2> QED BY <1>1, <1>3, <1>5, <2>1, <2>2 DEF BarredStayOut
<1>9. RequestsOpen'
  BY <1>1, <1>4, <1>5 DEF RequestsOpen, ControlsTypeOK
<1>10. RowsArePermanent'
  BY <1>1, <1>3, <1>5 DEF RowsArePermanent, Rules
<1>11. Addressed'
  BY <1>1, <1>6 DEF Addressed
<1> QED BY <1>3, <1>7, <1>8, <1>9, <1>10, <1>11

LEMMA UnbanStep ==
  ASSUME ControlsIInv, NEW S \in SUBSET Ips, Unban(S)
  PROVE  ControlsIInv'
<1> USE DEF ControlsIInv, ControlsHold
<1>1. PICK o \in CallOutcomes(S) :
        /\ Written("banned", o, FALSE)
        /\ banned' = [i \in Ips |-> IF i \in o.done \cup o.failed THEN "none" ELSE banned[i]]
        /\ UNCHANGED <<approval, authorized, disabled, pendingFrom, link>>
  BY DEF Unban
<1>2. /\ rows' \in [Kinds -> SUBSET (Controlled \cup Ips)]
      /\ unsaved' \in [Kinds -> SUBSET (Controlled \cup Ips)]
      /\ storeFailures' \in 0 .. MaxStoreFailures
      /\ RowTargets'
      /\ rows'["authorized"] = rows["authorized"] /\ rows'["disabled"] = rows["disabled"]
      /\ unsaved'["authorized"] = unsaved["authorized"]
      /\ unsaved'["disabled"] = unsaved["disabled"]
      /\ rows'["banned"] = rows["banned"] \ o.done
      /\ unsaved'["banned"] = (unsaved["banned"] \ o.done) \cup o.failed
  BY <1>1, WrittenRows DEF Kinds
<1>3. \A i \in Ips : banned'[i] = IF i \in o.done \cup o.failed THEN "none" ELSE banned[i]
  BY <1>1
<1>4. ControlsTypeOK'
  <2>1. banned' \in [Ips -> Rules \cup {"none"}]
    BY <1>1 DEF ControlsTypeOK
  <2> QED BY <1>1, <1>2, <2>1 DEF ControlsTypeOK
<1>5. BarredStayOut'
  BY <1>1, <1>2, <1>3 DEF BarredStayOut, Addressed
<1>6. RequestsOpen'
  BY <1>1, <1>3 DEF RequestsOpen, ControlsTypeOK
<1>7. RowsArePermanent'
  BY <1>1, <1>2, <1>3 DEF RowsArePermanent
<1>8. Addressed'
  BY <1>1 DEF Addressed
<1> QED BY <1>2, <1>4, <1>5, <1>6, <1>7, <1>8

LEMMA RuleExpiresStep ==
  ASSUME ControlsIInv, RuleExpires
  PROVE  ControlsIInv'
<1> USE DEF ControlsIInv, ControlsHold
<1>1. /\ disabled' \in [Controlled -> Rules \cup {"none"}]
      /\ \A d \in Controlled : \/ disabled'[d] = disabled[d]
                               \/ disabled[d] = "temporary" /\ disabled'[d] = "none"
  BY DEF RuleExpires, ControlsTypeOK
<1>2. /\ banned' \in [Ips -> Rules \cup {"none"}]
      /\ \A i \in Ips : \/ banned'[i] = banned[i]
                        \/ banned[i] = "temporary" /\ banned'[i] = "none"
  BY DEF RuleExpires, ControlsTypeOK
<1>3. /\ pendingFrom' \in [Controlled -> Ips \cup {NoIp}]
      /\ \A d \in Controlled : pendingFrom'[d] \in {pendingFrom[d], NoIp}
  BY DEF RuleExpires, ControlsTypeOK
<1>4. UNCHANGED <<approval, authorized, rows, unsaved, storeFailures, link>>
  BY DEF RuleExpires
<1>5. ControlsTypeOK'
  BY <1>1, <1>2, <1>3, <1>4 DEF ControlsTypeOK
<1>6. \A b \in Links : DeviceFor[b] \in Controlled
  BY ControlledBy DEF Links
<1>7. BarredStayOut'
  BY <1>1, <1>2, <1>4, <1>6 DEF BarredStayOut, Addressed
<1>8. RequestsOpen'
  BY <1>1, <1>2, <1>3, <1>4 DEF RequestsOpen, ControlsTypeOK
<1>9. RowsArePermanent'
  BY <1>1, <1>2, <1>4 DEF RowsArePermanent
<1>10. Addressed' /\ RowTargets'
  BY <1>4 DEF Addressed, RowTargets
<1> QED BY <1>5, <1>7, <1>8, <1>9, <1>10

LEMMA RestartControlsStep ==
  ASSUME ControlsIInv, RestartControls
  PROVE  ControlsIInv'
<1> USE DEF ControlsIInv, ControlsHold, RestartControls
<1>1. ControlsTypeOK'
  BY DEF ControlsTypeOK, NoLink, Rules, RowTargets, Kinds
<1>2. BarredStayOut' /\ Addressed'
  BY DEF BarredStayOut, NoLink, Addressed
<1>3. RequestsOpen'
  BY DEF RequestsOpen
<1>4. RowsArePermanent' /\ RowTargets'
  BY DEF RowsArePermanent, RowTargets
<1> QED BY <1>1, <1>2, <1>3, <1>4

LEMMA ControlsInitIInv == ControlsInit => ControlsIInv
<1> SUFFICES ASSUME ControlsInit PROVE ControlsIInv
  OBVIOUS
<1> USE DEF ControlsInit
<1>1. ControlsTypeOK
  BY ControlledBy DEF ControlsTypeOK, NoLink, Rules
<1>2. BarredStayOut /\ Addressed
  BY DEF BarredStayOut, Addressed, NoLink
<1>3. RequestsOpen /\ RowsArePermanent /\ RowTargets
  BY DEF RequestsOpen, RowsArePermanent, RowTargets, Kinds
<1> QED BY <1>1, <1>2, <1>3 DEF ControlsIInv, ControlsHold

LEMMA ControlsNextIInv == ControlsIInv /\ [ControlsNext]_controlVars => ControlsIInv'
<1> SUFFICES ASSUME ControlsIInv, [ControlsNext]_controlVars PROVE ControlsIInv'
  OBVIOUS
<1>1. ASSUME NEW c \in Links, NEW i \in Ips, AcceptLink(c, i) PROVE ControlsIInv'
  BY <1>1, AcceptLinkStep
<1>2. ASSUME NEW c \in Links, LinkEnds(c) PROVE ControlsIInv'
  BY <1>2, LinkEndsStep
<1>3. ASSUME NEW c \in AgentSockets, ControlledInit(c) \/ HelloAccepted(c) \/ HelloRejected(c)
      PROVE  ControlsIInv'
  BY <1>3, ControlledInitStep, HelloAcceptedStep, HelloRejectedStep
<1>4. ASSUME NEW m \in AppSockets, AppVouched(m) PROVE ControlsIInv'
  BY <1>4, AppVouchedStep
<1>5. ASSUME NEW S \in SUBSET Controlled \ {{}},
             ApproveDevices(S) \/ RemoveAuthorization(S) \/ Enable(S)
      PROVE  ControlsIInv'
  BY <1>5, ApproveStep, RemoveAuthorizationStep, EnableStep
<1>6. ASSUME NEW S \in SUBSET Controlled \ {{}}, NEW rule \in Rules, Disable(S, rule)
      PROVE  ControlsIInv'
  BY <1>6, DisableStep
<1>7. ASSUME NEW S \in SUBSET Ips \ {{}}, NEW rule \in Rules, Ban(S, rule)
      PROVE  ControlsIInv'
  BY <1>7, BanStep
<1>8. ASSUME NEW S \in SUBSET Ips \ {{}}, Unban(S) PROVE ControlsIInv'
  BY <1>8, UnbanStep
<1>9. CASE RuleExpires \/ RestartControls
  BY <1>9, RuleExpiresStep, RestartControlsStep
<1>10. CASE UNCHANGED controlVars
  BY <1>10 DEF controlVars, ControlsIInv, ControlsHold, ControlsTypeOK, BarredStayOut,
               RequestsOpen, RowsArePermanent, Addressed, RowTargets
<1> QED BY <1>1, <1>2, <1>3, <1>4, <1>5, <1>6, <1>7, <1>8, <1>9, <1>10 DEF ControlsNext

\* After any sequence of calls, expiries, hellos and restarts: nobody the rules
\* bar is connected, unless the store failed the call that barred them; what is
\* asked of the administration is still to decide; and what is stored is what
\* is in force without an end.
THEOREM ControlsKept == ControlsSpec => []ControlsHold
<1>1. ControlsIInv => ControlsHold
  BY DEF ControlsIInv
<1> QED BY <1>1, ControlsInitIInv, ControlsNextIInv, PTL DEF ControlsSpec

-----------------------------------------------------------------------------
(* The users' accounts.  The invariant has a part for each table and one for *)
(* the connections.  It adds that a connection that is not up has nothing    *)
(* from before, that an App connected with a device has a user, that a token *)
(* that is live was never used, and that what the limits count is finite.    *)

SentMails == {l \in MailLinks : mails[l].state # "none"}
OwnedDevices == {d \in OwnDevices : owner[d] # NoUser}

MailsOK ==
  /\ mails \in [MailLinks -> Token]
  /\ \A l \in MailLinks : mails[l].state = "live" => mails[l].used = 0
  /\ \A u \in Users : Cardinality(CountedMails(u)) <= MaxMails
  /\ IsFiniteSet(SentMails)

EnrollmentsOK ==
  /\ enrollments \in [Enrollments -> Token]
  /\ \A e \in Enrollments : enrollments[e].state = "live" => enrollments[e].used = 0

DevicesOK ==
  /\ owner \in [OwnDevices -> Users \cup {NoUser}]
  /\ revoked \subseteq OwnedDevices
  /\ DeviceLimit
  /\ IsFiniteSet(OwnedDevices)

AgentLinks == [up : BOOLEAN, asked : OwnDevices \cup {NoDevice},
               device : OwnDevices \cup {NoDevice}]
AppLinks == [up : BOOLEAN, user : Users \cup {NoUser}, device : OwnDevices \cup {NoDevice}]

AgentLinksOK ==
  /\ agentLink \in [OwnAgents -> AgentLinks]
  /\ \A a \in OwnAgents :
       IF agentLink[a].up THEN agentLink[a].device \notin revoked
       ELSE agentLink[a].device = NoDevice

AppLinksOK ==
  /\ appLink \in [OwnApps -> AppLinks]
  /\ \A m \in OwnApps :
       appLink[m].device # NoDevice =>
         /\ appLink[m].up /\ appLink[m].device \notin revoked
         /\ appLink[m].user = owner[appLink[m].device] /\ appLink[m].user # NoUser

SessionsOfUsers == sessionOf \in [UserSessions -> Users \cup {NoUser}]

AccountsIInv ==
  MailsOK /\ SessionsOfUsers /\ EnrollmentsOK /\ DevicesOK /\ AgentLinksOK /\ AppLinksOK

LEMMA AccountsFollow == AccountsIInv => AccountsHold
<1> SUFFICES ASSUME AccountsIInv PROVE AccountsHold
  OBVIOUS
<1> USE DEF AccountsIInv, MailsOK, EnrollmentsOK, DevicesOK, AgentLinksOK, AppLinksOK,
            SessionsOfUsers
<1>1. AccountsTypeOK
  BY DEF AccountsTypeOK, AgentLinks, AppLinks, OwnedDevices
<1>2. RevokedOut
  BY AccountLimits DEF RevokedOut, OwnedDevices
<1>3. AppsOfOwner
  BY DEF AppsOfOwner
<1>4. TokensOnce
  BY DEF TokensOnce, Token
<1> QED BY <1>1, <1>2, <1>3, <1>4 DEF AccountsHold

\* A set that lost members is counted no higher.
LEMMA FewerOf ==
  ASSUME NEW S, IsFiniteSet(S), NEW T, T \subseteq S, NEW n \in Nat, Cardinality(S) <= n
  PROVE  IsFiniteSet(T) /\ Cardinality(T) <= n
<1>1. IsFiniteSet(T) /\ Cardinality(T) <= Cardinality(S)
  BY FS_Subset
<1>2. Cardinality(S) \in Nat /\ Cardinality(T) \in Nat
  BY <1>1, FS_CardinalityType
<1> QED BY <1>1, <1>2

\* A set below its limit may take one more.
LEMMA OneMore ==
  ASSUME NEW S, IsFiniteSet(S), NEW x, NEW T, T \subseteq S \cup {x},
         NEW n \in Nat, Cardinality(S) < n
  PROVE  IsFiniteSet(T) /\ Cardinality(T) <= n
<1>1. /\ IsFiniteSet(S \cup {x})
      /\ Cardinality(S \cup {x}) = IF x \in S THEN Cardinality(S) ELSE Cardinality(S) + 1
  BY FS_AddElement
<1>2. Cardinality(S) \in Nat
  BY FS_CardinalityType
<1>3. Cardinality(S \cup {x}) <= n
  BY <1>1, <1>2
<1> QED BY <1>1, <1>3, FewerOf

LEMMA CountedFinite ==
  /\ MailsOK => \A u : IsFiniteSet(CountedMails(u))
  /\ DevicesOK => \A u \in Users : IsFiniteSet(ActiveDevices(u))
<1>1. ASSUME MailsOK, NEW u PROVE IsFiniteSet(CountedMails(u))
  <2>1. CountedMails(u) \subseteq SentMails
    BY DEF CountedMails, SentMails
  <2> QED BY <1>1, <2>1, FS_Subset DEF MailsOK
<1>2. ASSUME DevicesOK, NEW u \in Users PROVE IsFiniteSet(ActiveDevices(u))
  <2>1. ActiveDevices(u) \subseteq OwnedDevices
    BY AccountLimits DEF ActiveDevices, OwnedDevices
  <2> QED BY <1>2, <2>1, FS_Subset DEF DevicesOK
<1> QED BY <1>1, <1>2

\* A mail that is sent, opened or swept.
LEMMA MailStep ==
  ASSUME MailsOK, NEW l \in MailLinks, NEW t \in Token, mails' = [mails EXCEPT ![l] = t],
         t.state = "live" => t.used = 0,
         \/ mails[l].state # "none" /\ t.state # "none" /\ t.user = mails[l].user
         \/ t.state = "none"
         \/ Cardinality(CountedMails(t.user)) < MaxMails
  PROVE  MailsOK'
<1>1. \A k \in MailLinks : mails'[k] = IF k = l THEN t ELSE mails[k]
  BY DEF MailsOK
<1>2. mails' \in [MailLinks -> Token]
  BY DEF MailsOK
<1>3. IsFiniteSet(SentMails')
  <2>1. SentMails' \subseteq SentMails \cup {l}
    BY <1>1 DEF SentMails
  <2> QED BY <2>1, FS_AddElement, FS_Subset DEF MailsOK
<1>4. ASSUME NEW u \in Users PROVE Cardinality(CountedMails(u))' <= MaxMails
  <2>1. IsFiniteSet(CountedMails(u)) /\ Cardinality(CountedMails(u)) <= MaxMails
    BY CountedFinite DEF MailsOK
  <2>2. CASE CountedMails(u)' \subseteq CountedMails(u)
    BY <2>1, <2>2, FewerOf, AccountLimits
  <2>3. CASE ~(CountedMails(u)' \subseteq CountedMails(u))
    <3>1. u = t.user /\ t.state # "none" /\ ~(mails[l].state # "none" /\ t.user = mails[l].user)
      BY <1>1, <2>3 DEF CountedMails
    <3>2. CountedMails(u)' \subseteq CountedMails(u) \cup {l}
      BY <1>1 DEF CountedMails
    <3>3. Cardinality(CountedMails(u)) < MaxMails
      BY <3>1
    <3> QED BY <2>1, <3>2, <3>3, OneMore, AccountLimits
  <2> QED BY <2>2, <2>3
<1>5. \A k \in MailLinks : mails'[k].state = "live" => mails'[k].used = 0
  BY <1>1 DEF MailsOK
<1> QED BY <1>2, <1>3, <1>4, <1>5 DEF MailsOK

\* The parts a step leaves alone.
LEMMA AccountsRest ==
  /\ MailsOK /\ UNCHANGED mails => MailsOK'
  /\ EnrollmentsOK /\ UNCHANGED enrollments => EnrollmentsOK'
  /\ SessionsOfUsers /\ UNCHANGED sessionOf => SessionsOfUsers'
  /\ DevicesOK /\ UNCHANGED <<owner, revoked>> => DevicesOK'
  /\ AgentLinksOK /\ UNCHANGED <<agentLink, revoked>> => AgentLinksOK'
  /\ AppLinksOK /\ UNCHANGED <<appLink, owner, revoked>> => AppLinksOK'
BY DEF MailsOK, SentMails, CountedMails, EnrollmentsOK, SessionsOfUsers, DevicesOK,
       DeviceLimit, ActiveDevices, OwnedDevices, AgentLinksOK, AppLinksOK

LEMMA StartEmailLoginStep ==
  ASSUME AccountsIInv, NEW u \in Users, NEW l \in MailLinks, StartEmailLogin(u, l)
  PROVE  AccountsIInv'
<1> DEFINE t == [user |-> u, state |-> "live", used |-> 0]
<1>1. t \in Token
  BY DEF Token
<1>2. MailsOK'
  BY <1>1, MailStep DEF StartEmailLogin, AccountsIInv
<1> QED BY <1>2, AccountsRest DEF StartEmailLogin, AccountsIInv

\* A token that was not used is used once.
LEMMA OnceUsed ==
  ASSUME NEW r \in Token, r.used = 0
  PROVE  /\ UsedUp(r) \in Token
         /\ UsedUp(r).state = "used" /\ UsedUp(r).user = r.user
<1> DEFINE q == [r EXCEPT !.state = "used"]
<1>1. q \in Token /\ q.state = "used" /\ q.user = r.user
  BY DEF Token
<1>2. q.used + 1 \in 0 .. 1
  BY DEF Token
<1>3. UsedUp(r) = [q EXCEPT !.used = @ + 1]
  BY DEF UsedUp
<1>4. UsedUp(r) \in Token
  BY <1>1, <1>2, <1>3 DEF Token
<1>5. UsedUp(r).state = "used" /\ UsedUp(r).user = r.user
  BY <1>1 DEF Token, UsedUp
<1> QED BY <1>4, <1>5

LEMMA VerifyEmailLinkStep ==
  ASSUME AccountsIInv, NEW l \in MailLinks, VerifyEmailLink(l)
  PROVE  AccountsIInv'
<1> USE DEF AccountsIInv
<1>1. /\ mails[l] \in Token /\ mails[l].state = "live" /\ mails[l].used = 0
      /\ mails[l].user \in Users \cup {NoUser}
  BY DEF VerifyEmailLink, Unused, MailsOK, Token
<1>2. CASE /\ \E s \in UserSessions :
                /\ sessionOf' = [sessionOf EXCEPT ![s] = mails[l].user]
                /\ mails' = [mails EXCEPT ![l] = UsedUp(mails[l])]
           /\ UNCHANGED <<agentLink, appLink>>
  <2> DEFINE t == UsedUp(mails[l])
  <2>1. t \in Token /\ t.state = "used" /\ t.user = mails[l].user
    BY <1>1, OnceUsed
  <2>2. mails' = [mails EXCEPT ![l] = t]
    BY <1>2
  <2> HIDE DEF t
  <2>3. MailsOK'
    BY <1>1, <2>1, <2>2, MailStep
  <2>4. SessionsOfUsers'
    BY <1>1, <1>2 DEF SessionsOfUsers
  <2> QED BY <1>2, <2>3, <2>4, AccountsRest DEF VerifyEmailLink
<1>3. CASE /\ mails' = [mails EXCEPT ![l].state = "used"]
           /\ agentLink' = [a \in OwnAgents |-> NoAgentLink]
           /\ appLink' = [m \in OwnApps |-> NoAppLink]
           /\ UNCHANGED sessionOf
  <2> DEFINE t == [mails[l] EXCEPT !.state = "used"]
  <2>1. t \in Token /\ t.state = "used" /\ t.user = mails[l].user
    BY <1>1 DEF Token
  <2>2. mails' = [mails EXCEPT ![l] = t]
    BY <1>3
  <2> HIDE DEF t
  <2>3. MailsOK'
    BY <1>1, <2>1, <2>2, MailStep
  <2>4. AgentLinksOK'
    BY <1>3 DEF AgentLinksOK, NoAgentLink, AgentLinks
  <2>5. AppLinksOK'
    BY <1>3 DEF AppLinksOK, NoAppLink, AppLinks
  <2> QED BY <1>3, <2>3, <2>4, <2>5, AccountsRest DEF VerifyEmailLink
<1> QED BY <1>2, <1>3 DEF VerifyEmailLink

LEMMA SessionAccountStep ==
  ASSUME AccountsIInv,
         \/ \E s, t \in UserSessions : CreateAppSession(s, t)
         \/ \E s \in UserSessions : SessionOver(s)
  PROVE  AccountsIInv'
<1>1. SessionsOfUsers'
  BY DEF AccountsIInv, SessionsOfUsers, CreateAppSession, SessionOver
<1> QED BY <1>1, AccountsRest DEF AccountsIInv, CreateAppSession, SessionOver

LEMMA TokenOverStep ==
  ASSUME AccountsIInv, TokenOver
  PROVE  AccountsIInv'
<1>1. NoToken \in Token /\ NoToken.state = "none"
  BY DEF NoToken, Token
<1>2. ASSUME NEW l \in MailLinks, mails' = [mails EXCEPT ![l] = NoToken],
             UNCHANGED <<sessionOf, enrollments, owner, revoked, agentLink, appLink>>
      PROVE  AccountsIInv'
  BY <1>1, <1>2, MailStep, AccountsRest DEF AccountsIInv
<1>3. ASSUME NEW e \in Enrollments, enrollments' = [enrollments EXCEPT ![e] = NoToken],
             UNCHANGED <<mails, sessionOf, owner, revoked, agentLink, appLink>>
      PROVE  AccountsIInv'
  <2>1. EnrollmentsOK'
    BY <1>1, <1>3 DEF AccountsIInv, EnrollmentsOK
  <2> QED BY <1>3, <2>1, AccountsRest DEF AccountsIInv
<1> QED BY <1>2, <1>3 DEF TokenOver

LEMMA CreateEnrollmentStep ==
  ASSUME AccountsIInv, NEW s \in UserSessions, NEW e \in Enrollments, CreateEnrollment(s, e)
  PROVE  AccountsIInv'
<1>1. [user |-> sessionOf[s], state |-> "live", used |-> 0] \in Token
  BY DEF AccountsIInv, SessionsOfUsers, Token
<1>2. EnrollmentsOK'
  BY <1>1 DEF CreateEnrollment, AccountsIInv, EnrollmentsOK
<1> QED BY <1>2, AccountsRest DEF CreateEnrollment, AccountsIInv

\* A device takes a slot of its user's unless it has one.  Its connections stay
\* with the user: no device changes hands while it has an owner.
LEMMA ConsumeEnrollmentStep ==
  ASSUME AccountsIInv, NEW e \in Enrollments, NEW d \in OwnDevices, ConsumeEnrollment(e, d)
  PROVE  AccountsIInv'
<1> USE DEF AccountsIInv
<1> DEFINE u == enrollments[e].user
           t == UsedUp(enrollments[e])
<1>1. /\ enrollments[e] \in Token /\ enrollments[e].state = "live" /\ enrollments[e].used = 0
      /\ u \in Users \cup {NoUser}
  BY DEF ConsumeEnrollment, Unused, EnrollmentsOK, Token
<1>2. t \in Token /\ t.state = "used"
  BY <1>1, OnceUsed
<1>3. /\ owner[d] \in {NoUser, u}
      /\ TakesSlot(d) => Cardinality(ActiveDevices(u)) < MaxDevices
      /\ owner' = [owner EXCEPT ![d] = u]
      /\ revoked' = revoked \ {d}
      /\ enrollments' = [enrollments EXCEPT ![e] = t]
      /\ UNCHANGED <<mails, sessionOf, agentLink, appLink>>
  BY DEF ConsumeEnrollment
<1> HIDE DEF u, t
<1>4. EnrollmentsOK'
  BY <1>2, <1>3 DEF EnrollmentsOK
<1>5. \A b \in OwnDevices : owner'[b] = IF b = d THEN u ELSE owner[b]
  BY <1>3 DEF DevicesOK
<1>6. DevicesOK'
  <2>1. owner' \in [OwnDevices -> Users \cup {NoUser}]
    BY <1>1, <1>3 DEF DevicesOK, u
  <2>2. revoked' \subseteq OwnedDevices'
    BY <1>3, <1>5 DEF DevicesOK, OwnedDevices
  <2>3. IsFiniteSet(OwnedDevices')
    <3>1. OwnedDevices' \subseteq OwnedDevices \cup {d}
      BY <1>5 DEF OwnedDevices
    <3> QED BY <3>1, FS_AddElement, FS_Subset DEF DevicesOK
  <2>4. ASSUME NEW v \in Users PROVE Cardinality(ActiveDevices(v))' <= MaxDevices
    <3>1. IsFiniteSet(ActiveDevices(v)) /\ Cardinality(ActiveDevices(v)) <= MaxDevices
      BY CountedFinite DEF DevicesOK, DeviceLimit
    <3>2. CASE ActiveDevices(v)' \subseteq ActiveDevices(v)
      BY <3>1, <3>2, FewerOf, AccountLimits
    <3>3. CASE ~(ActiveDevices(v)' \subseteq ActiveDevices(v))
      <4>1. v = u /\ TakesSlot(d)
        BY <1>3, <1>5, <3>3 DEF ActiveDevices, TakesSlot
      <4>2. ActiveDevices(v)' \subseteq ActiveDevices(v) \cup {d}
        BY <1>3, <1>5 DEF ActiveDevices
      <4> QED BY <1>3, <3>1, <4>1, <4>2, OneMore, AccountLimits
    <3> QED BY <3>2, <3>3
  <2> QED BY <2>1, <2>2, <2>3, <2>4 DEF DevicesOK, DeviceLimit
<1>7. AgentLinksOK'
  BY <1>3 DEF AgentLinksOK
<1>8. AppLinksOK'
  BY <1>3, <1>5 DEF AppLinksOK, AppLinks
<1> QED BY <1>3, <1>4, <1>6, <1>7, <1>8, AccountsRest

\* Revoking closes what has the device; an agent only challenged so far is
\* looked at again when it says hello.
LEMMA RevokeDeviceStep ==
  ASSUME AccountsIInv, NEW s \in UserSessions, NEW d \in OwnDevices, RevokeDevice(s, d)
  PROVE  AccountsIInv'
<1> USE DEF AccountsIInv
<1>1. /\ sessionOf[s] # NoUser /\ owner[d] = sessionOf[s] /\ d \notin revoked
      /\ revoked' = revoked \cup {d}
      /\ agentLink' = [a \in OwnAgents |->
                         IF agentLink[a].device = d THEN NoAgentLink ELSE agentLink[a]]
      /\ appLink' = [m \in OwnApps |->
                       IF appLink[m].device = d THEN NoAppLink ELSE appLink[m]]
      /\ UNCHANGED <<mails, sessionOf, enrollments, owner>>
  BY DEF RevokeDevice
<1>2. DevicesOK'
  <2>1. \A v \in Users : Cardinality(ActiveDevices(v))' <= MaxDevices
    <3> SUFFICES ASSUME NEW v \in Users PROVE Cardinality(ActiveDevices(v))' <= MaxDevices
      OBVIOUS
    <3>1. IsFiniteSet(ActiveDevices(v)) /\ Cardinality(ActiveDevices(v)) <= MaxDevices
      BY CountedFinite DEF DevicesOK, DeviceLimit
    <3>2. ActiveDevices(v)' \subseteq ActiveDevices(v)
      BY <1>1 DEF ActiveDevices
    <3> QED BY <3>1, <3>2, FewerOf, AccountLimits
  <2> QED BY <1>1, <2>1 DEF DevicesOK, OwnedDevices, DeviceLimit
<1>3. AgentLinksOK'
  BY <1>1 DEF AgentLinksOK, NoAgentLink, AgentLinks
<1>4. AppLinksOK'
  BY <1>1 DEF AppLinksOK, NoAppLink, AppLinks
<1> QED BY <1>1, <1>2, <1>3, <1>4, AccountsRest

\* A connection of an agent, or of an App, comes, is let in or goes.
LEMMA AgentLinkStep ==
  ASSUME AccountsIInv, NEW a \in OwnAgents, NEW k \in AgentLinks,
         agentLink' = [agentLink EXCEPT ![a] = k],
         IF k.up THEN k.device \notin revoked ELSE k.device = NoDevice,
         UNCHANGED <<mails, sessionOf, enrollments, owner, revoked, appLink>>
  PROVE  AccountsIInv'
<1>1. AgentLinksOK'
  BY DEF AccountsIInv, AgentLinksOK
<1> QED BY <1>1, AccountsRest DEF AccountsIInv

LEMMA AppLinkStep ==
  ASSUME AccountsIInv, NEW m \in OwnApps, NEW k \in AppLinks,
         appLink' = [appLink EXCEPT ![m] = k],
         k.device # NoDevice =>
           /\ k.up /\ k.device \notin revoked
           /\ k.user = owner[k.device] /\ k.user # NoUser,
         UNCHANGED <<mails, sessionOf, enrollments, owner, revoked, agentLink>>
  PROVE  AccountsIInv'
<1>1. AppLinksOK'
  BY DEF AccountsIInv, AppLinksOK
<1> QED BY <1>1, AccountsRest DEF AccountsIInv

LEMMA AgentLinksStep ==
  ASSUME AccountsIInv, NEW a \in OwnAgents,
         \/ /\ ~agentLink[a].up
            /\ agentLink' = [agentLink EXCEPT ![a].up = TRUE]
            /\ UNCHANGED <<mails, sessionOf, enrollments, owner, revoked, appLink>>
         \/ /\ agentLink' = [agentLink EXCEPT ![a] = NoAgentLink]
            /\ UNCHANGED <<mails, sessionOf, enrollments, owner, revoked, appLink>>
         \/ AgentHelloOf(a)
         \/ \E d \in OwnDevices : AgentAsks(a, d)
  PROVE  AccountsIInv'
<1> USE AccountLimits DEF AgentLinks
<1>1. /\ agentLink[a] \in AgentLinks
      /\ IF agentLink[a].up THEN agentLink[a].device \notin revoked
         ELSE agentLink[a].device = NoDevice
      /\ NoDevice \notin revoked
  BY DEF AccountsIInv, AgentLinksOK, DevicesOK, OwnedDevices
<1>2. NoAgentLink \in AgentLinks /\ NoAgentLink.up = FALSE /\ NoAgentLink.device = NoDevice
  BY DEF NoAgentLink
<1>3. CASE /\ ~agentLink[a].up
           /\ agentLink' = [agentLink EXCEPT ![a].up = TRUE]
           /\ UNCHANGED <<mails, sessionOf, enrollments, owner, revoked, appLink>>
  <2> DEFINE k == [agentLink[a] EXCEPT !.up = TRUE]
  <2>1. k \in AgentLinks /\ k.up /\ k.device \notin revoked
    BY <1>1, <1>3
  <2>2. agentLink' = [agentLink EXCEPT ![a] = k]
    BY <1>3
  <2> HIDE DEF k
  <2> QED BY <1>3, <2>1, <2>2, AgentLinkStep
<1>4. CASE /\ agentLink' = [agentLink EXCEPT ![a] = NoAgentLink]
           /\ UNCHANGED <<mails, sessionOf, enrollments, owner, revoked, appLink>>
  BY <1>2, <1>4, AgentLinkStep
<1>5. CASE AgentHelloOf(a)
  <2> DEFINE d == agentLink[a].asked
             k == IF Registered(d) THEN [agentLink[a] EXCEPT !.device = d] ELSE NoAgentLink
  <2>1. k \in AgentLinks /\ IF k.up THEN k.device \notin revoked ELSE k.device = NoDevice
    BY <1>1, <1>2, <1>5 DEF AgentHelloOf, Registered
  <2>2. agentLink' = [agentLink EXCEPT ![a] = k]
    BY <1>5 DEF AgentHelloOf
  <2> HIDE DEF k
  <2> QED BY <1>5, <2>1, <2>2, AgentLinkStep DEF AgentHelloOf
<1>6. ASSUME NEW d \in OwnDevices, AgentAsks(a, d) PROVE AccountsIInv'
  <2> DEFINE k == IF Registered(d) THEN [agentLink[a] EXCEPT !.asked = d] ELSE NoAgentLink
  <2>1. k \in AgentLinks /\ IF k.up THEN k.device \notin revoked ELSE k.device = NoDevice
    BY <1>1, <1>2, <1>6 DEF AgentAsks
  <2>2. agentLink' = [agentLink EXCEPT ![a] = k]
    BY <1>6 DEF AgentAsks
  <2> HIDE DEF k
  <2> QED BY <1>6, <2>1, <2>2, AgentLinkStep DEF AgentAsks
<1> QED BY <1>3, <1>4, <1>5, <1>6

LEMMA AppLinksStep ==
  ASSUME AccountsIInv, NEW m \in OwnApps,
         \/ \E u \in {NoUser} \cup {sessionOf[s] : s \in UserSessions} :
              /\ ~appLink[m].up
              /\ appLink' = [appLink EXCEPT ![m].up = TRUE, ![m].user = u]
              /\ UNCHANGED <<mails, sessionOf, enrollments, owner, revoked, agentLink>>
         \/ /\ appLink' = [appLink EXCEPT ![m] = NoAppLink]
            /\ UNCHANGED <<mails, sessionOf, enrollments, owner, revoked, agentLink>>
         \/ \E d \in OwnDevices, s \in UserSessions : AppConnectsFor(m, d, sessionOf[s])
  PROVE  AccountsIInv'
<1> USE AccountLimits DEF AppLinks
<1>1. /\ appLink[m] \in AppLinks
      /\ appLink[m].device # NoDevice => appLink[m].up
      /\ \A s \in UserSessions : sessionOf[s] \in Users \cup {NoUser}
  BY DEF AccountsIInv, AppLinksOK, SessionsOfUsers
<1>2. ASSUME NEW u \in {NoUser} \cup {sessionOf[s] : s \in UserSessions},
             ~appLink[m].up,
             appLink' = [appLink EXCEPT ![m].up = TRUE, ![m].user = u],
             UNCHANGED <<mails, sessionOf, enrollments, owner, revoked, agentLink>>
      PROVE  AccountsIInv'
  <2> DEFINE k == [appLink[m] EXCEPT !.up = TRUE, !.user = u]
  <2>1. k \in AppLinks /\ k.device = NoDevice
    BY <1>1, <1>2
  <2>2. appLink' = [appLink EXCEPT ![m] = k]
    BY <1>2 DEF AccountsIInv, AppLinksOK
  <2> HIDE DEF k
  <2> QED BY <1>2, <2>1, <2>2, AppLinkStep
<1>3. CASE /\ appLink' = [appLink EXCEPT ![m] = NoAppLink]
           /\ UNCHANGED <<mails, sessionOf, enrollments, owner, revoked, agentLink>>
  BY <1>3, AppLinkStep DEF NoAppLink
<1>4. ASSUME NEW d \in OwnDevices, NEW s \in UserSessions,
             AppConnectsFor(m, d, sessionOf[s])
      PROVE  AccountsIInv'
  <2> DEFINE v == IF sessionOf[s] # NoUser THEN sessionOf[s] ELSE appLink[m].user
             k == [appLink[m] EXCEPT !.user = v, !.device = d]
  <2>1. k \in AppLinks /\ k.up /\ k.device = d /\ k.user = v
    BY <1>1, <1>4 DEF AppConnectsFor
  <2>2. d \notin revoked /\ owner[d] = v /\ v # NoUser
    BY <1>4 DEF AppConnectsFor, Registered
  <2>3. appLink' = [appLink EXCEPT ![m] = k]
    BY <1>4 DEF AppConnectsFor, AccountsIInv, AppLinksOK
  <2>4. UNCHANGED <<mails, sessionOf, enrollments, owner, revoked, agentLink>>
    BY <1>4 DEF AppConnectsFor
  <2> HIDE DEF k, v
  <2>5. /\ k \in AppLinks /\ k.up /\ k.device \notin revoked
        /\ k.user = owner[k.device] /\ k.user # NoUser
    BY <2>1, <2>2
  <2> HIDE DEF AppLinks
  <2> QED BY <2>3, <2>4, <2>5, AppLinkStep
<1> QED BY <1>2, <1>3, <1>4

LEMMA AccountsInitIInv == AccountsInit => AccountsIInv
<1> SUFFICES ASSUME AccountsInit PROVE AccountsIInv
  OBVIOUS
<1> USE AccountLimits DEF AccountsInit
<1>1. MailsOK
  <2>1. SentMails = {} /\ \A u : CountedMails(u) = {}
    BY DEF SentMails, CountedMails, NoToken
  <2> HIDE DEF SentMails, CountedMails
  <2> QED BY <2>1, FS_EmptySet DEF MailsOK, NoToken, Token
<1>2. DevicesOK
  <2>1. OwnedDevices = {} /\ \A u \in Users : ActiveDevices(u) = {}
    BY DEF OwnedDevices, ActiveDevices
  <2>2. owner \in [OwnDevices -> Users \cup {NoUser}] /\ revoked = {}
    OBVIOUS
  <2> HIDE DEF OwnedDevices, ActiveDevices
  <2>3. IsFiniteSet(OwnedDevices)
    BY <2>1, FS_EmptySet
  <2>4. DeviceLimit
    <3>1. Cardinality({}) = 0 /\ 0 <= MaxDevices
      BY FS_EmptySet
    <3> QED BY <2>1, <3>1 DEF DeviceLimit
  <2> QED BY <2>2, <2>3, <2>4 DEF DevicesOK
<1>3. SessionsOfUsers /\ EnrollmentsOK
  BY DEF SessionsOfUsers, EnrollmentsOK, NoToken, Token
<1>4. AgentLinksOK /\ AppLinksOK
  BY DEF AgentLinksOK, AppLinksOK, NoAgentLink, NoAppLink, AgentLinks, AppLinks
<1> QED BY <1>1, <1>2, <1>3, <1>4 DEF AccountsIInv

LEMMA AccountsNextIInv == AccountsIInv /\ [AccountsNext]_accountVars => AccountsIInv'
<1> SUFFICES ASSUME AccountsIInv, [AccountsNext]_accountVars PROVE AccountsIInv'
  OBVIOUS
<1>1. ASSUME NEW u \in Users, NEW l \in MailLinks, StartEmailLogin(u, l) PROVE AccountsIInv'
  BY <1>1, StartEmailLoginStep
<1>2. ASSUME NEW l \in MailLinks, VerifyEmailLink(l) PROVE AccountsIInv'
  BY <1>2, VerifyEmailLinkStep
<1>3. CASE \/ \E s, t \in UserSessions : CreateAppSession(s, t)
           \/ \E s \in UserSessions : SessionOver(s)
  BY <1>3, SessionAccountStep
<1>4. CASE TokenOver
  BY <1>4, TokenOverStep
<1>5. ASSUME NEW s \in UserSessions, NEW e \in Enrollments, CreateEnrollment(s, e)
      PROVE  AccountsIInv'
  BY <1>5, CreateEnrollmentStep
<1>6. ASSUME NEW e \in Enrollments, NEW d \in OwnDevices, ConsumeEnrollment(e, d)
      PROVE  AccountsIInv'
  BY <1>6, ConsumeEnrollmentStep
<1>7. ASSUME NEW s \in UserSessions, NEW d \in OwnDevices, RevokeDevice(s, d)
      PROVE  AccountsIInv'
  BY <1>7, RevokeDeviceStep
<1>8. ASSUME NEW a \in OwnAgents, AgentHelloOf(a) \/ \E d \in OwnDevices : AgentAsks(a, d)
      PROVE  AccountsIInv'
  BY <1>8, AgentLinksStep
<1>9. ASSUME NEW m \in OwnApps, NEW d \in OwnDevices, NEW s \in UserSessions,
             AppConnectsFor(m, d, sessionOf[s])
      PROVE  AccountsIInv'
  BY <1>9, AppLinksStep
<1>10. CASE ConnectAccount
  BY <1>10, AgentLinksStep, AppLinksStep DEF ConnectAccount
<1>11. CASE AccountLinkEnds
  BY <1>11, AgentLinksStep, AppLinksStep DEF AccountLinkEnds
<1>12. CASE UNCHANGED accountVars
  BY <1>12, AccountsRest DEF accountVars, AccountsIInv
<1> QED
  BY <1>1, <1>2, <1>3, <1>4, <1>5, <1>6, <1>7, <1>8, <1>9, <1>10, <1>11, <1>12
     DEF AccountsNext

\* In whatever order users sign in and out, devices are enrolled, revoked and
\* enrolled again, and connections come and go: no user has more devices in use
\* than allowed, a revoked device has no connection open, an App is connected
\* with devices of its user only, and every link and token is good for once.
THEOREM AccountsKept == AccountsSpec => []AccountsHold
BY AccountsInitIInv, AccountsNextIInv, AccountsFollow, PTL DEF AccountsSpec

-----------------------------------------------------------------------------
(* What the relay shows of a device.  DeviceInv says what the store is while *)
(* no frame has come late, as a function of the connections: Tells.          *)

DeviceStates == {"online", "degraded", "offline"}

Stores ==
  [entry : [known : BOOLEAN, agents : SUBSET StatusAgents, apps : SUBSET StatusApps,
            links : SUBSET StatusApps, status : DeviceStates],
   records : SUBSET StatusConns,
   linkOf : [StatusApps -> StatusAgents \cup {Nobody}],
   row : [status : {"none"} \cup DeviceStates, traffic : Nat, fresh : BOOLEAN]]

StatusOf(X) ==
  IF X \cap StatusAgents # {} THEN "online" ELSE IF X # {} THEN "degraded" ELSE "offline"

\* The store s is what it should be when the connections X are open.
Tells(s, X) ==
  /\ s.records = X
  /\ s.entry.agents = X \cap StatusAgents /\ s.entry.apps = X \cap StatusApps
  /\ s.entry.links \subseteq X
  /\ s.entry.known <=> X # {}
  /\ s.entry.known => s.entry.status = StatusOf(X)
  /\ s.row.fresh => s.row.status = StatusOf(X)

LinksOf(s) == {m \in StatusApps : s.linkOf[m] # Nobody}

\* What connections there are, late or not.
SocketsAgree ==
  /\ \A c \in members : deviceSock[c] \in {"open", "ending"}
  /\ deviceApps \subseteq Connected
  /\ Connected \cap StatusAgents \subseteq {deviceAgent}

StoreAgrees ==
  ~late =>
    /\ Tells(store, Connected)
    /\ \A m \in LinksOf(store) :
         m \in deviceApps /\ (deviceAgent # Nobody => store.linkOf[m] = deviceAgent)

DeviceInv ==
  /\ StatusTypeOK /\ store \in Stores /\ {unflushed, counted, dropped} \subseteq Nat
  /\ SocketsAgree /\ StoreAgrees /\ TrafficCountedOnce

\* A new status of the row is all that writing it changes.
LEMMA UpsertRowIs ==
  ASSUME NEW s \in Stores
  PROVE  LET t == UpsertRow(s)
         IN  /\ t \in Stores
             /\ t.entry = s.entry /\ t.records = s.records /\ t.linkOf = s.linkOf
             /\ t.row.traffic = s.row.traffic
             /\ t.row.status = s.entry.status /\ t.row.fresh
BY DEF UpsertRow, Stores, DeviceStates

LEMMA UpsertRowTells ==
  ASSUME NEW s \in Stores, NEW X \in SUBSET StatusConns,
         s.records = X,
         s.entry.agents = X \cap StatusAgents /\ s.entry.apps = X \cap StatusApps,
         s.entry.links \subseteq X,
         s.entry.known, X # {},
         s.entry.status = StatusOf(X)
  PROVE  Tells(UpsertRow(s), X)
BY UpsertRowIs DEF Tells

LEMMA EnsureDeviceIs ==
  ASSUME NEW s \in Stores
  PROVE  LET t == EnsureDevice(s)
         IN  /\ t \in Stores
             /\ t.entry.agents = s.entry.agents /\ t.entry.apps = s.entry.apps
             /\ t.entry.links = s.entry.links /\ t.entry.status = s.entry.status
             /\ t.entry.known
             /\ t.records = s.records /\ t.linkOf = s.linkOf /\ t.row = s.row
BY DEF EnsureDevice, Stores, DeviceStates

LEMMA EnsureDeviceTells ==
  ASSUME NEW s \in Stores, NEW X, X # {}, Tells(s, X)
  PROVE  Tells(EnsureDevice(s), X)
BY EnsureDeviceIs DEF Tells

LEMMA RegisterAgentIs ==
  ASSUME NEW s \in Stores, NEW a \in StatusAgents
  PROVE  LET t == RegisterAgentEntry(s, a)
         IN  /\ t \in Stores /\ t.linkOf = s.linkOf /\ t.row.traffic = s.row.traffic
             /\ \A X \in SUBSET StatusConns : Tells(s, X) => Tells(t, X \cup {a})
<1> DEFINE e == EnsureDevice(s)
           r == [e EXCEPT !.entry.agents = @ \cup {a}, !.entry.status = "online",
                          !.records = @ \cup {a}]
<1> HIDE DEF e
<1>1. /\ e \in Stores
      /\ e.entry.agents = s.entry.agents /\ e.entry.apps = s.entry.apps
      /\ e.entry.links = s.entry.links /\ e.entry.known
      /\ e.records = s.records /\ e.linkOf = s.linkOf /\ e.row = s.row
  BY EnsureDeviceIs DEF e
<1>2. /\ r \in Stores
      /\ r.entry.agents = s.entry.agents \cup {a} /\ r.entry.apps = s.entry.apps
      /\ r.entry.links = s.entry.links /\ r.entry.known /\ r.entry.status = "online"
      /\ r.records = s.records \cup {a} /\ r.linkOf = s.linkOf /\ r.row = s.row
  BY <1>1 DEF Stores, DeviceStates, StatusConns
<1> HIDE DEF r
<1>3. RegisterAgentEntry(s, a) = UpsertRow(r)
  BY DEF RegisterAgentEntry, e, r
<1>4. ASSUME NEW X \in SUBSET StatusConns, Tells(s, X)
      PROVE  Tells(UpsertRow(r), X \cup {a})
  <2>1. /\ (X \cup {a}) \cap StatusAgents = (X \cap StatusAgents) \cup {a}
        /\ (X \cup {a}) \cap StatusApps = X \cap StatusApps
        /\ X \cup {a} \in SUBSET StatusConns
    BY StatusBounds DEF StatusConns
  <2>2. StatusOf(X \cup {a}) = "online"
    BY DEF StatusOf
  <2>3. /\ r.records = X \cup {a}
        /\ r.entry.agents = (X \cup {a}) \cap StatusAgents
        /\ r.entry.apps = (X \cup {a}) \cap StatusApps
        /\ r.entry.links \subseteq X \cup {a} /\ X \cup {a} # {}
        /\ r.entry.known /\ r.entry.status = StatusOf(X \cup {a})
    BY <1>2, <1>4, <2>1, <2>2 DEF Tells
  <2>4. r \in Stores
    BY <1>2
  <2> HIDE DEF r
  <2> QED BY <2>1, <2>3, <2>4, UpsertRowTells
<1> QED BY <1>2, <1>3, <1>4, UpsertRowIs

LEMMA RegisterAppIs ==
  ASSUME NEW s \in Stores, NEW m \in StatusApps
  PROVE  LET t == RegisterAppEntry(s, m)
         IN  /\ t \in Stores /\ t.linkOf = s.linkOf /\ t.row.traffic = s.row.traffic
             /\ \A X \in SUBSET StatusConns : Tells(s, X) => Tells(t, X \cup {m})
<1> DEFINE e == EnsureDevice(s)
           st == IF s.entry.agents \cap s.records # {} THEN "online" ELSE "degraded"
           r == [e EXCEPT !.entry.apps = @ \cup {m}, !.entry.status = st,
                          !.records = @ \cup {m}]
<1> HIDE DEF e
<1>1. /\ e \in Stores
      /\ e.entry.agents = s.entry.agents /\ e.entry.apps = s.entry.apps
      /\ e.entry.links = s.entry.links /\ e.entry.known
      /\ e.records = s.records /\ e.linkOf = s.linkOf /\ e.row = s.row
  BY EnsureDeviceIs DEF e
<1>a. st \in DeviceStates
  BY DEF DeviceStates
<1>b. st = IF e.entry.agents \cap e.records # {} THEN "online" ELSE "degraded"
  BY <1>1
<1> HIDE DEF st
<1>2. /\ r \in Stores
      /\ r.entry.agents = s.entry.agents /\ r.entry.apps = s.entry.apps \cup {m}
      /\ r.entry.links = s.entry.links /\ r.entry.known /\ r.entry.status = st
      /\ r.records = s.records \cup {m} /\ r.linkOf = s.linkOf /\ r.row = s.row
  BY <1>1, <1>a DEF Stores, StatusConns
<1>3. RegisterAppEntry(s, m) = UpsertRow(r)
  <2> DEFINE t == [e EXCEPT !.entry.apps = @ \cup {m}]
  <2>1. t.entry.agents = e.entry.agents /\ t.records = e.records
    BY <1>1 DEF Stores
  <2>2. [t EXCEPT !.entry.status = st, !.records = @ \cup {m}] = r
    BY <1>1 DEF Stores
  <2> QED BY <2>1, <2>2, <1>b DEF RegisterAppEntry, e, r
<1> HIDE DEF r
<1>4. ASSUME NEW X \in SUBSET StatusConns, Tells(s, X)
      PROVE  Tells(UpsertRow(r), X \cup {m})
  <2>1. /\ (X \cup {m}) \cap StatusAgents = X \cap StatusAgents
        /\ (X \cup {m}) \cap StatusApps = (X \cap StatusApps) \cup {m}
        /\ X \cup {m} \in SUBSET StatusConns
    BY StatusBounds DEF StatusConns
  <2>2. StatusOf(X \cup {m}) = st
    BY <1>4, <2>1 DEF StatusOf, Tells, st
  <2>3. /\ r.records = X \cup {m}
        /\ r.entry.agents = (X \cup {m}) \cap StatusAgents
        /\ r.entry.apps = (X \cup {m}) \cap StatusApps
        /\ r.entry.links \subseteq X \cup {m} /\ X \cup {m} # {}
        /\ r.entry.known /\ r.entry.status = StatusOf(X \cup {m})
    BY <1>2, <1>4, <2>1, <2>2 DEF Tells
  <2>4. r \in Stores
    BY <1>2
  <2> HIDE DEF r
  <2> QED BY <2>1, <2>3, <2>4, UpsertRowTells
<1> QED BY <1>2, <1>3, <1>4, UpsertRowIs

LEMMA LinkIs ==
  ASSUME NEW s \in Stores, NEW a \in StatusAgents, NEW m \in StatusApps
  PROVE  LET t == LinkEntry(s, a, m)
         IN  /\ t \in Stores /\ t.row.traffic = s.row.traffic
             /\ t.linkOf = [s.linkOf EXCEPT ![m] = IF @ = Nobody THEN a ELSE @]
             /\ \A X \in SUBSET StatusConns : m \in X /\ Tells(s, X) => Tells(t, X)
<1> DEFINE e == EnsureDevice(s)
           r == [e EXCEPT !.linkOf[m] = IF @ = Nobody THEN a ELSE @,
                          !.entry.links = @ \cup {m}]
<1> HIDE DEF e
<1>1. /\ e \in Stores
      /\ e.entry.agents = s.entry.agents /\ e.entry.apps = s.entry.apps
      /\ e.entry.links = s.entry.links /\ e.entry.known /\ e.entry.status = s.entry.status
      /\ e.records = s.records /\ e.linkOf = s.linkOf /\ e.row = s.row
  BY EnsureDeviceIs DEF e
<1>2. /\ r \in Stores
      /\ r.entry.agents = s.entry.agents /\ r.entry.apps = s.entry.apps
      /\ r.entry.links = s.entry.links \cup {m} /\ r.entry.known
      /\ r.entry.status = s.entry.status
      /\ r.records = s.records /\ r.row = s.row
      /\ r.linkOf = [s.linkOf EXCEPT ![m] = IF @ = Nobody THEN a ELSE @]
  BY <1>1 DEF Stores
<1> HIDE DEF r
<1>3. LinkEntry(s, a, m) = UpsertRow(r)
  BY DEF LinkEntry, e, r
<1>4. ASSUME NEW X \in SUBSET StatusConns, m \in X, Tells(s, X)
      PROVE  Tells(UpsertRow(r), X)
  BY <1>2, <1>4, UpsertRowTells DEF Tells
<1> QED BY <1>2, <1>3, <1>4, UpsertRowIs

\* Whatever the connections are, refreshing writes nothing but the status.
LEMMA RefreshIs ==
  ASSUME NEW s \in Stores
  PROVE  LET t == Refresh(s)
         IN  /\ t \in Stores /\ t.linkOf = s.linkOf /\ t.row.traffic = s.row.traffic
             /\ \A X \in SUBSET StatusConns :
                  /\ s.records = X
                  /\ s.entry.agents = X \cap StatusAgents /\ s.entry.apps = X \cap StatusApps
                  /\ s.entry.links \subseteq X
                  /\ s.entry.known
                  => Tells(t, X)
<1> DEFINE st == StatusFor(s)
           r == [s EXCEPT !.entry.status = st]
           t == UpsertRow(r)
           empty == t.entry.agents = {} /\ t.entry.apps = {} /\ t.entry.links = {}
<1>1. st \in DeviceStates
  BY DEF StatusFor, DeviceStates
<1> HIDE DEF st
<1>2. /\ r \in Stores
      /\ r.entry.agents = s.entry.agents /\ r.entry.apps = s.entry.apps
      /\ r.entry.links = s.entry.links /\ r.entry.known = s.entry.known
      /\ r.entry.status = st
      /\ r.records = s.records /\ r.linkOf = s.linkOf /\ r.row = s.row
  BY <1>1 DEF Stores
<1> HIDE DEF r
<1>3. /\ t \in Stores
      /\ t.entry = r.entry /\ t.records = r.records /\ t.linkOf = r.linkOf
      /\ t.row.traffic = r.row.traffic
      /\ t.row.status = st /\ t.row.fresh
  BY <1>2, UpsertRowIs
<1> HIDE DEF t
<1>4. Refresh(s) = IF ~s.entry.known THEN s
                   ELSE IF t.entry.status = "offline" /\ empty THEN [t EXCEPT !.entry = NoEntry]
                   ELSE t
  BY DEF Refresh, t, r, st
<1>5. [t EXCEPT !.entry = NoEntry] \in Stores
  BY <1>3 DEF Stores, NoEntry, DeviceStates
<1>6. Refresh(s) \in Stores /\ Refresh(s).linkOf = s.linkOf
      /\ Refresh(s).row.traffic = s.row.traffic
  BY <1>2, <1>3, <1>4, <1>5 DEF Stores
<1>7. ASSUME NEW X \in SUBSET StatusConns,
             s.records = X,
             s.entry.agents = X \cap StatusAgents /\ s.entry.apps = X \cap StatusApps,
             s.entry.links \subseteq X,
             s.entry.known
      PROVE  Tells(Refresh(s), X)
  <2>1. st = StatusOf(X)
    BY <1>7 DEF StatusFor, StatusOf, StatusConns, st
  <2>2. CASE X = {}
    <3>1. t.entry.status = "offline" /\ empty
      BY <1>2, <1>3, <1>7, <2>1, <2>2 DEF StatusOf
    <3>2. Refresh(s) = [t EXCEPT !.entry = NoEntry]
      BY <1>4, <1>7, <3>1
    <3> HIDE DEF empty
    <3>3. /\ Refresh(s).records = t.records /\ Refresh(s).row = t.row
          /\ Refresh(s).entry = NoEntry
      BY <1>3, <3>2 DEF Stores
    <3> QED BY <1>2, <1>3, <1>7, <2>1, <2>2, <3>3 DEF Tells, NoEntry
  <2>3. CASE X # {}
    <3>1. ~empty
      BY <1>2, <1>3, <1>7, <2>3 DEF StatusConns
    <3>2. Refresh(s) = t
      BY <1>4, <1>7, <3>1
    <3> QED BY <1>2, <1>3, <1>7, <2>1, <2>3, <3>2 DEF Tells
  <2> QED BY <2>2, <2>3
<1> QED BY <1>6, <1>7

LEMMA CloseIs ==
  ASSUME NEW s \in Stores, NEW C \in SUBSET StatusConns
  PROVE  LET t == CloseEntries(s, C)
         IN  /\ t \in Stores /\ t.row.traffic = s.row.traffic
             /\ LinksOf(t) = LinksOf(s) \ (C \cap s.records)
             /\ \A m \in LinksOf(t) : t.linkOf[m] = s.linkOf[m]
             /\ \A X \in SUBSET StatusConns : Tells(s, X) => Tells(t, X \ C)
<1> DEFINE D == C \cap s.records
           L == [m \in StatusApps |-> IF m \in D THEN Nobody ELSE s.linkOf[m]]
           r == [s EXCEPT !.records = @ \ D,
             !.entry.agents = @ \ D, !.entry.apps = @ \ D,
             !.entry.links = @ \ D,
             !.linkOf = [m \in StatusApps |-> IF m \in D THEN Nobody ELSE @[m]]]
<1>1. CASE D = {}
  <2>1. CloseEntries(s, C) = s
    BY <1>1 DEF CloseEntries
  <2>2. \A X \in SUBSET StatusConns : Tells(s, X) => X \ C = X
    BY <1>1 DEF Tells
  <2> QED BY <1>1, <2>1, <2>2
<1>2. CASE D # {}
  <2>1. CloseEntries(s, C) = Refresh(r)
    BY <1>2 DEF CloseEntries
  <2> HIDE DEF D
  <2>2. /\ r \in Stores
        /\ r.entry.agents = s.entry.agents \ D /\ r.entry.apps = s.entry.apps \ D
        /\ r.entry.links = s.entry.links \ D /\ r.entry.known = s.entry.known
        /\ r.records = s.records \ D /\ r.linkOf = L /\ r.row = s.row
    BY DEF Stores
  <2> HIDE DEF r
  <2>3. /\ LinksOf(Refresh(r)) = LinksOf(s) \ D
        /\ \A m \in LinksOf(Refresh(r)) : Refresh(r).linkOf[m] = s.linkOf[m]
    <3>1. Refresh(r).linkOf = L
      BY <2>2, RefreshIs
    <3> QED BY <3>1 DEF LinksOf
  <2>4. ASSUME NEW X \in SUBSET StatusConns, Tells(s, X)
        PROVE  Tells(Refresh(r), X \ C)
    <3>1. X \ D = X \ C /\ s.entry.known
      BY <1>2, <2>4 DEF Tells, D
    <3>2. /\ r.records = X \ C
          /\ r.entry.agents = (X \ C) \cap StatusAgents
          /\ r.entry.apps = (X \ C) \cap StatusApps
          /\ r.entry.links \subseteq X \ C
          /\ r.entry.known
      BY <2>2, <2>4, <3>1 DEF Tells
    <3> QED BY <2>2, <3>2, RefreshIs
  <2> QED BY <2>1, <2>2, <2>3, <2>4, RefreshIs DEF D
<1> QED BY <1>1, <1>2

-----------------------------------------------------------------------------
(* The steps.                                                              *)

LEMMA DeviceInvInit == StatusInit => DeviceInv
<1> SUFFICES ASSUME StatusInit PROVE DeviceInv
  OBVIOUS
<1> USE DEF StatusInit
<1>1. store \in Stores /\ store.linkOf = [m \in StatusApps |-> Nobody]
      /\ store.row.traffic = 0 /\ ~store.row.fresh /\ store.records = {}
      /\ store.entry = NoEntry
  BY DEF Stores, EmptyStore, NoEntry, NoDeviceRow, DeviceStates
<1>2. Connected = {}
  BY DEF Connected
<1>a. store.row.status \in {"none"} \cup DeviceStates
  BY <1>1 DEF Stores
<1>3. StatusTypeOK
  <2>1. store.linkOf \in [StatusApps -> StatusAgents \cup {Nobody}]
    BY <1>1
  <2>2. store.entry.agents \cup store.entry.apps \cup store.records \subseteq StatusConns
        /\ store.entry.links \subseteq StatusApps
        /\ store.entry.status \in {"online", "degraded", "offline"}
    BY <1>1 DEF NoEntry
  <2>3. {unflushed, counted, dropped, store.row.traffic} \subseteq 0 .. MaxFrames
        /\ relayRuns \in 1 .. MaxRelayRuns
    BY <1>1, StatusBounds
  <2> QED BY <1>a, <2>1, <2>2, <2>3 DEF StatusTypeOK, DeviceStates, Nobody
<1>4. SocketsAgree /\ TrafficCountedOnce
  BY <1>1, <1>2 DEF SocketsAgree, TrafficCountedOnce
<1>5. StoreAgrees
  BY <1>1, <1>2 DEF StoreAgrees, Tells, LinksOf, NoEntry
<1> QED BY <1>1, <1>3, <1>4, <1>5 DEF DeviceInv

\* What the type of the store says of it, and what is counted stays in bounds.
LEMMA DeviceTyped ==
  ASSUME store' \in Stores, TrafficCountedOnce', {unflushed', counted', dropped'} \subseteq Nat,
         counted' <= MaxFrames,
         deviceSock' \in [StatusConns -> {"unused", "open", "ending", "gone"}],
         members' \subseteq StatusConns, deviceAgent' \in StatusAgents \cup {Nobody},
         deviceApps' \subseteq StatusApps, late' \in BOOLEAN, relayRuns' \in 1 .. MaxRelayRuns
  PROVE  StatusTypeOK'
<1>1. /\ store'.entry.agents \cup store'.entry.apps \cup store'.records \subseteq StatusConns
      /\ store'.entry.links \subseteq StatusApps
      /\ store'.entry.status \in DeviceStates
      /\ store'.linkOf \in [StatusApps -> StatusAgents \cup {Nobody}]
      /\ store'.row.status \in {"none"} \cup DeviceStates
      /\ store'.row.traffic \in Nat
  BY DEF Stores, StatusConns
<1>2. {unflushed', counted', dropped', store'.row.traffic} \subseteq 0 .. MaxFrames
  BY <1>1, StatusBounds DEF TrafficCountedOnce
<1> QED BY <1>1, <1>2 DEF StatusTypeOK, DeviceStates

LEMMA AcceptSocketKeeps ==
  ASSUME DeviceInv, NEW c \in StatusConns, AcceptSocket(c)
  PROVE  DeviceInv'
<1> USE DEF DeviceInv, AcceptSocket, StatusTypeOK
<1>1. Connected' = Connected
  BY DEF Connected, SocketsAgree
<1>2. SocketsAgree' /\ StoreAgrees' /\ TrafficCountedOnce'
  BY <1>1 DEF SocketsAgree, StoreAgrees, TrafficCountedOnce
<1> QED BY <1>2 DEF DeviceInv

LEMMA AgentJoinsKeeps ==
  ASSUME DeviceInv, NEW a \in StatusAgents, AgentJoins(a)
  PROVE  DeviceInv'
<1> DEFINE F == Former(a)
           s == CloseEntries(store, F)
<1>1. /\ F \subseteq StatusConns /\ a \notin F /\ a \in StatusConns
      /\ deviceApps \subseteq F
  BY StatusBounds DEF Former, DeviceInv, StatusTypeOK, StatusConns, Nobody
<1>2. /\ members' = members \cup {a} /\ deviceAgent' = a /\ deviceApps' = {}
      /\ deviceSock' = [c \in StatusConns |->
           IF c \in F /\ deviceSock[c] = "open" THEN "ending" ELSE deviceSock[c]]
      /\ store' = RegisterAgentEntry(s, a)
      /\ late' = (late \/ deviceSock[a] = "ending")
      /\ UNCHANGED <<unflushed, counted, dropped, relayRuns>>
      /\ a \notin members /\ deviceSock[a] \in {"open", "ending"}
  BY DEF AgentJoins, Late, Handled
<1>3. store \in Stores
  BY DEF DeviceInv
<1> HIDE DEF F
<1>4. /\ s \in Stores /\ s.row.traffic = store.row.traffic
      /\ LinksOf(s) = LinksOf(store) \ (F \cap store.records)
      /\ \A X \in SUBSET StatusConns : Tells(store, X) => Tells(s, X \ F)
  BY <1>1, <1>3, CloseIs
<1> HIDE DEF s
<1>5. /\ store' \in Stores /\ store'.linkOf = s.linkOf
      /\ store'.row.traffic = s.row.traffic
      /\ \A X \in SUBSET StatusConns : Tells(s, X) => Tells(store', X \cup {a})
  BY <1>2, <1>4, RegisterAgentIs
<1>6. deviceSock' \in [StatusConns -> {"unused", "open", "ending", "gone"}]
  BY <1>2 DEF DeviceInv, StatusTypeOK
<1>7. TrafficCountedOnce'
  BY <1>2, <1>4, <1>5 DEF DeviceInv, TrafficCountedOnce
<1>8. StatusTypeOK'
  <2>1. /\ members' \subseteq StatusConns /\ late' \in BOOLEAN /\ counted' <= MaxFrames
        /\ relayRuns' \in 1 .. MaxRelayRuns /\ {unflushed', counted', dropped'} \subseteq Nat
    BY <1>1, <1>2, StatusBounds DEF DeviceInv, StatusTypeOK
  <2> QED BY <1>2, <1>5, <1>6, <1>7, <2>1, DeviceTyped DEF StatusTypeOK, DeviceInv
<1>9. Connected \subseteq StatusConns /\ Connected \cap StatusAgents \subseteq F
  BY <1>2, StatusBounds DEF DeviceInv, SocketsAgree, StatusTypeOK, Connected, Former, F, Nobody
<1>10. Connected' = (Connected \ F) \cup (IF deviceSock[a] = "open" THEN {a} ELSE {})
  <2>1. deviceSock'[a] = deviceSock[a]
    BY <1>1, <1>2
  <2> QED BY <1>1, <1>2, <2>1 DEF DeviceInv, StatusTypeOK, Connected
<1>11. SocketsAgree'
  <2>1. \A c \in members' : deviceSock'[c] \in {"open", "ending"}
    BY <1>1, <1>2 DEF DeviceInv, StatusTypeOK, SocketsAgree
  <2>2. Connected' \cap StatusAgents \subseteq {a}
    BY <1>9, <1>10
  <2> QED BY <1>2, <2>1, <2>2 DEF SocketsAgree
<1>12. StoreAgrees'
  <2> SUFFICES ASSUME ~late' PROVE StoreAgrees'
    BY DEF StoreAgrees
  <2>1. ~late /\ deviceSock[a] = "open"
    BY <1>2
  <2>2. Tells(store, Connected) /\ LinksOf(store) \subseteq deviceApps
    BY <2>1 DEF DeviceInv, StoreAgrees
  <2>3. Tells(store', Connected')
    BY <1>4, <1>5, <1>9, <1>10, <2>1, <2>2
  <2>4. deviceApps \subseteq store.records
    BY <2>2 DEF DeviceInv, SocketsAgree, Tells
  <2>5. LinksOf(s) = {}
    BY <1>1, <1>4, <2>2, <2>4
  <2>6. LinksOf(store') = {}
    BY <1>5, <2>5 DEF LinksOf
  <2> QED BY <2>3, <2>6 DEF StoreAgrees, LinksOf
<1> QED BY <1>2, <1>5, <1>7, <1>8, <1>11, <1>12 DEF DeviceInv

LEMMA AppJoinsKeeps ==
  ASSUME DeviceInv, NEW m \in StatusApps, AppJoins(m)
  PROVE  DeviceInv'
<1>1. /\ members' = members \cup {m} /\ store' = RegisterAppEntry(store, m)
      /\ late' = (late \/ deviceSock[m] = "ending")
      /\ UNCHANGED <<deviceSock, deviceAgent, deviceApps, unflushed, counted, dropped, relayRuns>>
      /\ m \notin members /\ deviceSock[m] \in {"open", "ending"}
  BY DEF AppJoins, Late, Handled
<1>2. store \in Stores
  BY DEF DeviceInv
<1>3. /\ store' \in Stores /\ store'.linkOf = store.linkOf
      /\ store'.row.traffic = store.row.traffic
      /\ \A X \in SUBSET StatusConns : Tells(store, X) => Tells(store', X \cup {m})
  BY <1>1, <1>2, RegisterAppIs
<1>4. TrafficCountedOnce'
  BY <1>1, <1>3 DEF DeviceInv, TrafficCountedOnce
<1>5. StatusTypeOK'
  <2>1. /\ members' \subseteq StatusConns /\ late' \in BOOLEAN /\ counted' <= MaxFrames
        /\ relayRuns' \in 1 .. MaxRelayRuns /\ {unflushed', counted', dropped'} \subseteq Nat
        /\ deviceSock' \in [StatusConns -> {"unused", "open", "ending", "gone"}]
        /\ deviceAgent' \in StatusAgents \cup {Nobody} /\ deviceApps' \subseteq StatusApps
    BY <1>1, StatusBounds DEF DeviceInv, StatusTypeOK, StatusConns
  <2> QED BY <1>3, <1>4, <2>1, DeviceTyped
<1>6. Connected' = Connected \cup (IF deviceSock[m] = "open" THEN {m} ELSE {})
      /\ Connected \subseteq StatusConns
  BY <1>1 DEF Connected, DeviceInv, StatusTypeOK
<1>7. SocketsAgree'
  BY <1>1, <1>6, StatusBounds DEF DeviceInv, SocketsAgree
<1>8. StoreAgrees'
  BY <1>1, <1>3, <1>6 DEF DeviceInv, StoreAgrees, LinksOf
<1> QED BY <1>1, <1>3, <1>4, <1>5, <1>7, <1>8 DEF DeviceInv, StatusTypeOK

LEMMA AppAuthenticatedKeeps ==
  ASSUME DeviceInv, NEW m \in StatusApps, AppAuthenticated(m)
  PROVE  DeviceInv'
<1>1. PICK a \in StatusAgents \cap members :
        /\ deviceSock[a] \in {"open", "ending"}
        /\ store' = LinkEntry(RegisterAppEntry(store, m), a, m)
        /\ late' = (late \/ deviceSock[a] = "ending")
  BY DEF AppAuthenticated, Late, Handled
<1>2. /\ deviceApps' = deviceApps \cup {m}
      /\ UNCHANGED <<deviceSock, members, deviceAgent, unflushed, counted, dropped, relayRuns>>
      /\ m \in members /\ m \notin deviceApps /\ deviceSock[m] = "open"
  BY DEF AppAuthenticated
<1> DEFINE s == RegisterAppEntry(store, m)
<1>3. store \in Stores
  BY DEF DeviceInv
<1>4. /\ s \in Stores /\ s.linkOf = store.linkOf
      /\ s.row.traffic = store.row.traffic
      /\ \A X \in SUBSET StatusConns : Tells(store, X) => Tells(s, X \cup {m})
  BY <1>3, RegisterAppIs
<1>5. store' = LinkEntry(s, a, m)
  BY <1>1
<1> HIDE DEF s
<1>6. /\ store' \in Stores /\ store'.row.traffic = s.row.traffic
      /\ store'.linkOf = [s.linkOf EXCEPT ![m] = IF @ = Nobody THEN a ELSE @]
      /\ \A X \in SUBSET StatusConns : m \in X /\ Tells(s, X) => Tells(store', X)
  BY <1>1, <1>4, <1>5, LinkIs
<1>7. TrafficCountedOnce'
  BY <1>2, <1>4, <1>6 DEF DeviceInv, TrafficCountedOnce
<1>8. StatusTypeOK'
  <2>1. /\ members' \subseteq StatusConns /\ late' \in BOOLEAN /\ counted' <= MaxFrames
        /\ relayRuns' \in 1 .. MaxRelayRuns /\ {unflushed', counted', dropped'} \subseteq Nat
        /\ deviceSock' \in [StatusConns -> {"unused", "open", "ending", "gone"}]
        /\ deviceAgent' \in StatusAgents \cup {Nobody} /\ deviceApps' \subseteq StatusApps
    BY <1>1, <1>2, StatusBounds DEF DeviceInv, StatusTypeOK, StatusConns
  <2> QED BY <1>6, <1>7, <2>1, DeviceTyped
<1>9. Connected' = Connected /\ m \in Connected /\ Connected \in SUBSET StatusConns
  BY <1>2 DEF Connected, DeviceInv, StatusTypeOK
<1>10. SocketsAgree'
  BY <1>2, <1>9 DEF DeviceInv, SocketsAgree
<1>11. StoreAgrees'
  <2> SUFFICES ASSUME ~late' PROVE StoreAgrees'
    BY DEF StoreAgrees
  <2>1. ~late /\ a \in Connected
    BY <1>1 DEF Connected
  <2>2. a = deviceAgent
    BY <2>1 DEF DeviceInv, SocketsAgree
  <2>3. Tells(store, Connected) /\ m \notin LinksOf(store)
    BY <1>2, <2>1 DEF DeviceInv, StoreAgrees
  <2>4. Connected \cup {m} = Connected
    BY <1>9
  <2>5. Tells(store', Connected')
    BY <1>4, <1>6, <1>9, <2>3, <2>4
  <2>6. store.linkOf \in [StatusApps -> StatusAgents \cup {Nobody}]
    BY <1>3 DEF Stores
  <2>7. store'.linkOf = [store.linkOf EXCEPT ![m] = a]
    BY <1>4, <1>6, <2>3, <2>6 DEF LinksOf
  <2>8. \A x \in LinksOf(store') :
          x \in deviceApps' /\ (deviceAgent' # Nobody => store'.linkOf[x] = deviceAgent')
    BY <1>2, <2>1, <2>2, <2>6, <2>7 DEF LinksOf, DeviceInv, StoreAgrees
  <2> QED BY <2>5, <2>8 DEF StoreAgrees
<1> QED BY <1>2, <1>6, <1>7, <1>8, <1>10, <1>11 DEF DeviceInv, StatusTypeOK

LEMMA CountFrameKeeps ==
  ASSUME DeviceInv, NEW c \in StatusConns, CountFrame(c)
  PROVE  DeviceInv'
<1>1. /\ store' = EnsureDevice(store)
      /\ unflushed' = unflushed + 1 /\ counted' = counted + 1 /\ counted < MaxFrames
      /\ late' = (late \/ deviceSock[c] = "ending")
      /\ UNCHANGED <<deviceSock, members, deviceAgent, deviceApps, dropped, relayRuns>>
      /\ c \in members /\ deviceSock[c] \in {"open", "ending"}
  BY DEF CountFrame, Late, Handled
<1>2. store \in Stores
  BY DEF DeviceInv
<1>3. /\ store' \in Stores /\ store'.linkOf = store.linkOf /\ store'.row = store.row
      /\ \A X \in SUBSET StatusConns : X # {} /\ Tells(store, X) => Tells(store', X)
  BY <1>1, <1>2, EnsureDeviceIs, EnsureDeviceTells
<1>4. TrafficCountedOnce'
  <2>1. store.row.traffic \in Nat
    BY <1>2 DEF Stores
  <2> QED BY <1>1, <1>3, <2>1 DEF DeviceInv, TrafficCountedOnce
<1>5. StatusTypeOK'
  <2>1. /\ members' \subseteq StatusConns /\ late' \in BOOLEAN /\ counted' <= MaxFrames
        /\ relayRuns' \in 1 .. MaxRelayRuns /\ {unflushed', counted', dropped'} \subseteq Nat
        /\ deviceSock' \in [StatusConns -> {"unused", "open", "ending", "gone"}]
        /\ deviceAgent' \in StatusAgents \cup {Nobody} /\ deviceApps' \subseteq StatusApps
    BY <1>1, StatusBounds DEF DeviceInv, StatusTypeOK, StatusConns
  <2> QED BY <1>3, <1>4, <2>1, DeviceTyped
<1>6. Connected' = Connected /\ Connected \in SUBSET StatusConns
      /\ (deviceSock[c] = "open" => Connected # {})
  BY <1>1 DEF Connected, DeviceInv, StatusTypeOK
<1>7. SocketsAgree'
  BY <1>1, <1>6 DEF DeviceInv, SocketsAgree
<1>8. StoreAgrees'
  BY <1>1, <1>3, <1>6 DEF DeviceInv, StoreAgrees, LinksOf
<1> QED BY <1>1, <1>3, <1>4, <1>5, <1>7, <1>8 DEF DeviceInv, StatusTypeOK

LEMMA UpdateLinkKeeps ==
  ASSUME DeviceInv, NEW m \in StatusApps, UpdateLink(m)
  PROVE  DeviceInv'
<1>1. /\ m \in deviceApps \/ (m \in members /\ deviceSock[m] = "ending")
      /\ deviceAgent # Nobody /\ store' = LinkEntry(store, deviceAgent, m)
      /\ late' = (late \/ deviceSock[m] = "ending")
      /\ UNCHANGED <<deviceSock, members, deviceAgent, deviceApps, unflushed, counted,
                 dropped, relayRuns>>
  BY DEF UpdateLink, Late
<1>2. store \in Stores /\ deviceAgent \in StatusAgents
  BY <1>1 DEF DeviceInv, StatusTypeOK
<1>3. /\ store' \in Stores /\ store'.row.traffic = store.row.traffic
      /\ store'.linkOf = [store.linkOf EXCEPT ![m] = IF @ = Nobody THEN deviceAgent ELSE @]
      /\ \A X \in SUBSET StatusConns : m \in X /\ Tells(store, X) => Tells(store', X)
  BY <1>1, <1>2, LinkIs
<1>4. TrafficCountedOnce'
  BY <1>1, <1>3 DEF DeviceInv, TrafficCountedOnce
<1>5. StatusTypeOK'
  <2>1. /\ members' \subseteq StatusConns /\ late' \in BOOLEAN /\ counted' <= MaxFrames
        /\ relayRuns' \in 1 .. MaxRelayRuns /\ {unflushed', counted', dropped'} \subseteq Nat
        /\ deviceSock' \in [StatusConns -> {"unused", "open", "ending", "gone"}]
        /\ deviceAgent' \in StatusAgents \cup {Nobody} /\ deviceApps' \subseteq StatusApps
    BY <1>1, StatusBounds DEF DeviceInv, StatusTypeOK, StatusConns
  <2> QED BY <1>3, <1>4, <2>1, DeviceTyped
<1>6. Connected' = Connected /\ Connected \in SUBSET StatusConns
  BY <1>1 DEF Connected, DeviceInv, StatusTypeOK
<1>7. SocketsAgree'
  BY <1>1, <1>6 DEF DeviceInv, SocketsAgree
<1>8. StoreAgrees'
  <2> SUFFICES ASSUME ~late' PROVE StoreAgrees'
    BY DEF StoreAgrees
  <2>1. ~late /\ m \in deviceApps /\ m \in Connected
    BY <1>1 DEF DeviceInv, SocketsAgree
  <2>2. Tells(store', Connected')
    BY <1>3, <1>6, <2>1 DEF DeviceInv, StoreAgrees
  <2>3. store.linkOf \in [StatusApps -> StatusAgents \cup {Nobody}]
    BY <1>2 DEF Stores
  <2>4. \A x \in LinksOf(store') :
          x \in deviceApps' /\ (deviceAgent' # Nobody => store'.linkOf[x] = deviceAgent')
    BY <1>1, <1>3, <2>1, <2>3 DEF LinksOf, DeviceInv, StoreAgrees
  <2> QED BY <2>2, <2>4 DEF StoreAgrees
<1> QED BY <1>1, <1>3, <1>4, <1>5, <1>7, <1>8 DEF DeviceInv, StatusTypeOK

LEMMA StatusUnregisterKeeps ==
  ASSUME DeviceInv, NEW c \in StatusConns, StatusUnregister(c)
  PROVE  DeviceInv'
<1>1. /\ deviceSock' = [deviceSock EXCEPT ![c] = "ending"]
      /\ deviceAgent' = IF deviceAgent = c THEN Nobody ELSE deviceAgent
      /\ deviceApps' = deviceApps \ {c}
      /\ store' = CloseEntries(store, {c})
      /\ UNCHANGED <<members, unflushed, counted, dropped, late, relayRuns>>
      /\ deviceSock[c] = "open"
  BY DEF StatusUnregister
<1>2. store \in Stores /\ {c} \in SUBSET StatusConns
  BY DEF DeviceInv
<1>3. /\ store' \in Stores /\ store'.row.traffic = store.row.traffic
      /\ LinksOf(store') = LinksOf(store) \ ({c} \cap store.records)
      /\ \A m \in LinksOf(store') : store'.linkOf[m] = store.linkOf[m]
      /\ \A X \in SUBSET StatusConns : Tells(store, X) => Tells(store', X \ {c})
  BY <1>1, <1>2, CloseIs
<1>4. TrafficCountedOnce'
  BY <1>1, <1>3 DEF DeviceInv, TrafficCountedOnce
<1>5. StatusTypeOK'
  <2>1. /\ members' \subseteq StatusConns /\ late' \in BOOLEAN /\ counted' <= MaxFrames
        /\ relayRuns' \in 1 .. MaxRelayRuns /\ {unflushed', counted', dropped'} \subseteq Nat
        /\ deviceSock' \in [StatusConns -> {"unused", "open", "ending", "gone"}]
        /\ deviceAgent' \in StatusAgents \cup {Nobody} /\ deviceApps' \subseteq StatusApps
    BY <1>1, <1>2, StatusBounds DEF DeviceInv, StatusTypeOK, StatusConns
  <2> QED BY <1>3, <1>4, <2>1, DeviceTyped
<1>6. Connected' = Connected \ {c} /\ Connected \in SUBSET StatusConns
  BY <1>1 DEF Connected, DeviceInv, StatusTypeOK
<1>7. SocketsAgree'
  <2>1. \A x \in members' : deviceSock'[x] \in {"open", "ending"}
    BY <1>1 DEF DeviceInv, SocketsAgree, StatusTypeOK
  <2> QED BY <1>1, <1>6, <2>1 DEF DeviceInv, SocketsAgree
<1>8. StoreAgrees'
  <2> SUFFICES ASSUME ~late' PROVE StoreAgrees'
    BY DEF StoreAgrees
  <2>1. Tells(store, Connected) /\ Tells(store', Connected')
    BY <1>1, <1>3, <1>6 DEF DeviceInv, StoreAgrees
  <2>2. c \notin LinksOf(store')
    <3>1. CASE c \in members
      BY <1>1, <1>3, <2>1, <3>1 DEF Tells, Connected
    <3>2. CASE c \notin members
      BY <1>1, <1>3, <3>2 DEF DeviceInv, StoreAgrees, SocketsAgree, Connected
    <3> QED BY <3>1, <3>2
  <2>3. \A x \in LinksOf(store') :
          x \in deviceApps' /\ (deviceAgent' # Nobody => store'.linkOf[x] = deviceAgent')
    BY <1>1, <1>3, <2>2 DEF DeviceInv, StoreAgrees
  <2> QED BY <2>1, <2>3 DEF StoreAgrees
<1> QED BY <1>1, <1>2, <1>3, <1>4, <1>5, <1>7, <1>8 DEF DeviceInv, StatusTypeOK

LEMMA FlushStatusKeeps ==
  ASSUME DeviceInv, FlushStatus
  PROVE  DeviceInv'
<1>1. /\ unflushed > 0 /\ unflushed' = 0
      /\ store' = [store EXCEPT !.row.traffic =
                     IF store.row.status # "none" THEN @ + unflushed ELSE @]
      /\ dropped' = IF store.row.status # "none" THEN dropped ELSE dropped + unflushed
      /\ UNCHANGED <<deviceSock, members, deviceAgent, deviceApps, counted, late, relayRuns>>
  BY DEF FlushStatus
<1>2. store \in Stores /\ unflushed \in Nat /\ dropped \in Nat
  BY DEF DeviceInv
<1>3. /\ store' \in Stores /\ store'.linkOf = store.linkOf
      /\ store'.row.traffic =
           IF store.row.status # "none" THEN store.row.traffic + unflushed
                                        ELSE store.row.traffic
      /\ store'.entry = store.entry /\ store'.records = store.records
      /\ store'.row.status = store.row.status /\ store'.row.fresh = store.row.fresh
  BY <1>1, <1>2 DEF Stores
<1>4. TrafficCountedOnce'
  <2>1. store.row.traffic \in Nat
    BY <1>2 DEF Stores
  <2> QED BY <1>1, <1>2, <1>3, <2>1 DEF DeviceInv, TrafficCountedOnce
<1>5. StatusTypeOK'
  <2>1. /\ members' \subseteq StatusConns /\ late' \in BOOLEAN /\ counted' <= MaxFrames
        /\ relayRuns' \in 1 .. MaxRelayRuns /\ {unflushed', counted', dropped'} \subseteq Nat
        /\ deviceSock' \in [StatusConns -> {"unused", "open", "ending", "gone"}]
        /\ deviceAgent' \in StatusAgents \cup {Nobody} /\ deviceApps' \subseteq StatusApps
    BY <1>1, <1>2, StatusBounds DEF DeviceInv, StatusTypeOK, StatusConns
  <2> QED BY <1>3, <1>4, <2>1, DeviceTyped
<1>6. Connected' = Connected
  BY <1>1 DEF Connected
<1>7. SocketsAgree'
  BY <1>1, <1>6 DEF DeviceInv, SocketsAgree
<1>8. StoreAgrees'
  BY <1>1, <1>3, <1>6 DEF DeviceInv, StoreAgrees, LinksOf, Tells
<1> QED BY <1>1, <1>2, <1>3, <1>4, <1>5, <1>7, <1>8 DEF DeviceInv, StatusTypeOK

LEMMA SweepStatusKeeps ==
  ASSUME DeviceInv, SweepStatus
  PROVE  DeviceInv'
<1>1. /\ dropped' = dropped + unflushed + store.row.traffic
      /\ unflushed' = 0 /\ store' = [store EXCEPT !.row = NoDeviceRow]
      /\ UNCHANGED <<deviceSock, members, deviceAgent, deviceApps, counted, late, relayRuns>>
  BY DEF SweepStatus
<1>2. store \in Stores /\ unflushed \in Nat /\ dropped \in Nat /\ store.row.traffic \in Nat
  BY DEF DeviceInv, Stores
<1>3. /\ store' \in Stores /\ store'.linkOf = store.linkOf
      /\ store'.row = NoDeviceRow
      /\ store'.entry = store.entry /\ store'.records = store.records
  BY <1>1, <1>2 DEF Stores, NoDeviceRow
<1>4. TrafficCountedOnce'
  BY <1>1, <1>2, <1>3 DEF DeviceInv, TrafficCountedOnce, NoDeviceRow
<1>5. StatusTypeOK'
  <2>1. /\ members' \subseteq StatusConns /\ late' \in BOOLEAN /\ counted' <= MaxFrames
        /\ relayRuns' \in 1 .. MaxRelayRuns /\ {unflushed', counted', dropped'} \subseteq Nat
        /\ deviceSock' \in [StatusConns -> {"unused", "open", "ending", "gone"}]
        /\ deviceAgent' \in StatusAgents \cup {Nobody} /\ deviceApps' \subseteq StatusApps
    BY <1>1, <1>2, StatusBounds DEF DeviceInv, StatusTypeOK, StatusConns
  <2> QED BY <1>3, <1>4, <2>1, DeviceTyped
<1>6. Connected' = Connected
  BY <1>1 DEF Connected
<1>7. SocketsAgree'
  BY <1>1, <1>6 DEF DeviceInv, SocketsAgree
<1>8. StoreAgrees'
  BY <1>1, <1>3, <1>6 DEF DeviceInv, StoreAgrees, LinksOf, Tells, NoDeviceRow
<1> QED BY <1>1, <1>2, <1>3, <1>4, <1>5, <1>7, <1>8 DEF DeviceInv, StatusTypeOK

LEMMA RestartRelayKeeps ==
  ASSUME DeviceInv, RestartRelay
  PROVE  DeviceInv'
<1>1. /\ relayRuns < MaxRelayRuns /\ relayRuns' = relayRuns + 1
      /\ deviceSock' = [c \in StatusConns |->
           IF deviceSock[c] = "unused" THEN "unused" ELSE "gone"]
      /\ members' = {} /\ deviceAgent' = Nobody /\ deviceApps' = {}
      /\ store' = EmptyStore(store.row)
      /\ dropped' = dropped + unflushed /\ unflushed' = 0
      /\ ~late' /\ late' \in BOOLEAN /\ counted' = counted
  BY DEF RestartRelay
<1>2. store \in Stores /\ unflushed \in Nat /\ dropped \in Nat /\ store.row.traffic \in Nat
  BY DEF DeviceInv, Stores
<1>3. /\ store' \in Stores /\ store'.linkOf = [m \in StatusApps |-> Nobody]
      /\ store'.row.traffic = store.row.traffic /\ ~store'.row.fresh
      /\ store'.entry = NoEntry /\ store'.records = {}
  BY <1>1, <1>2 DEF Stores, EmptyStore, NoEntry, DeviceStates
<1>4. TrafficCountedOnce'
  BY <1>1, <1>2, <1>3 DEF DeviceInv, TrafficCountedOnce
<1>5. StatusTypeOK'
  <2>1. /\ members' \subseteq StatusConns /\ late' \in BOOLEAN /\ counted' <= MaxFrames
        /\ relayRuns' \in 1 .. MaxRelayRuns /\ {unflushed', counted', dropped'} \subseteq Nat
        /\ deviceSock' \in [StatusConns -> {"unused", "open", "ending", "gone"}]
        /\ deviceAgent' \in StatusAgents \cup {Nobody} /\ deviceApps' \subseteq StatusApps
    BY <1>1, <1>2, StatusBounds DEF DeviceInv, StatusTypeOK, StatusConns
  <2> QED BY <1>3, <1>4, <2>1, DeviceTyped
<1>6. Connected' = {}
  BY <1>1 DEF Connected
<1>7. SocketsAgree'
  BY <1>1, <1>6 DEF SocketsAgree
<1>8. StoreAgrees'
  BY <1>1, <1>3, <1>6 DEF StoreAgrees, LinksOf, Tells, NoEntry
<1> QED BY <1>1, <1>2, <1>3, <1>4, <1>5, <1>7, <1>8 DEF DeviceInv, StatusTypeOK

LEMMA DeviceInvNext == DeviceInv /\ [StatusNext]_statusVars => DeviceInv'
<1> SUFFICES ASSUME DeviceInv, [StatusNext]_statusVars PROVE DeviceInv'
  OBVIOUS
<1>1. ASSUME NEW c \in StatusConns, AcceptSocket(c) \/ CountFrame(c) \/ StatusUnregister(c)
      PROVE  DeviceInv'
  BY <1>1, AcceptSocketKeeps, CountFrameKeeps, StatusUnregisterKeeps
<1>2. ASSUME NEW a \in StatusAgents, AgentJoins(a) PROVE DeviceInv'
  BY <1>2, AgentJoinsKeeps
<1>3. ASSUME NEW m \in StatusApps, AppJoins(m) \/ AppAuthenticated(m) \/ UpdateLink(m)
      PROVE  DeviceInv'
  BY <1>3, AppJoinsKeeps, AppAuthenticatedKeeps, UpdateLinkKeeps
<1>4. CASE FlushStatus \/ SweepStatus \/ RestartRelay
  BY <1>4, FlushStatusKeeps, SweepStatusKeeps, RestartRelayKeeps
<1>5. CASE UNCHANGED statusVars
  BY <1>5 DEF statusVars, DeviceInv, StatusTypeOK, StatusConns, SocketsAgree, StoreAgrees,
              TrafficCountedOnce, Connected, LinksOf, Tells
<1> QED BY <1>1, <1>2, <1>3, <1>4, <1>5 DEF StatusNext

LEMMA DeviceInvShows == DeviceInv => DeviceShown
<1> SUFFICES ASSUME DeviceInv PROVE DeviceShown
  OBVIOUS
<1>1. RowAgrees /\ ListedWhileConnected
  BY DEF DeviceInv, StoreAgrees, Tells, RowAgrees, ListedWhileConnected, StatusOf
<1>2. LinksCurrent
  BY DEF DeviceInv, StoreAgrees, SocketsAgree, LinksOf, LinksCurrent
<1> QED BY <1>1, <1>2 DEF DeviceInv, DeviceShown

\* What the administration is shown of a device agrees with the connections it
\* has, however agents replace each other and their Apps are closed with them
\* (RelayStateStore, RelayDeviceStatusStore), and no frame is counted twice,
\* over sweeps and restarts; its status and links only while no frame of a
\* closed connection has been handled.
THEOREM DevicesShown == StatusSpec => []DeviceShown
BY DeviceInvInit, DeviceInvNext, DeviceInvShows, PTL DEF StatusSpec
=============================================================================
