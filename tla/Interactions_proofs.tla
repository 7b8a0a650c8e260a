------------------------ MODULE Interactions_proofs ------------------------
(***************************************************************************)
(* Theorems about interactions, for any number of interactions and Apps,   *)
(* any answers, and any losses of links, processes and the Desktop Agent.  *)
(*                                                                         *)
(* That an outcome is final rests on what has a timer: an interaction that *)
(* expires or is cancelled is taken from memory, so memory must hold       *)
(* pending rows only.  IInv joins that with the fact that nothing is held  *)
(* while the Desktop Agent is down, which a restart needs.                 *)
(***************************************************************************)
EXTENDS Interactions, TLAPS

DownHoldsNothing == desktop = "down" => memory = {}

IInv ==
  /\ InteractionsTypeOK
  /\ PendingIsHeld
  /\ DownHoldsNothing
  /\ ReplyMatchesRecord

-----------------------------------------------------------------------------
(* Frames and queues.                                                      *)

\* What the Desktop Agent sends is a frame an App expects.
LEMMA ToldTyped ==
  ASSUME NEW ids \in SUBSET Interactions, NEW k \in {"request", "result", "sync_response"}
  PROVE  /\ Told(k, ids) \in ToApp
         /\ <<Told(k, ids)>> \in Seq(ToApp)
         /\ Cancelled(ids) \in Seq(ToApp)
<1>1. Told(k, ids) \in ToApp /\ Told("result", ids) \in ToApp
  BY DEF Told, ToApp
<1> QED BY <1>1 DEF Cancelled

\* Sending to the linked Apps keeps every queue a queue of such frames.
LEMMA ToLinkedTyped ==
  ASSUME NEW q \in [Phones -> Seq(ToApp)], NEW frames \in Seq(ToApp)
  PROVE  ToLinked(q, frames) \in [Phones -> Seq(ToApp)]
BY DEF ToLinked

\* So does sending to one App.
LEMMA SendTyped ==
  ASSUME NEW q \in [Phones -> Seq(ToApp)], NEW p \in Phones, NEW m \in ToApp
  PROVE  [q EXCEPT ![p] = Append(@, m)] \in [Phones -> Seq(ToApp)]
OBVIOUS

\* An answer names an interaction and a decision.
LEMMA AnswerFields ==
  ASSUME NEW m \in ToDesktop, m.kind = "answer"
  PROVE  m.id \in Interactions /\ m.decision \in Decisions /\ m.action \in Nat
BY DEF ToDesktop, SyncRequest

-----------------------------------------------------------------------------
(* What the steps have in common.                                          *)

recordVars == <<status, actionOf, memory, reply, desktop>>

\* A step that leaves the records, the promises and the process alone.
LEMMA QuietStep ==
  ASSUME IInv, InteractionsTypeOK', UNCHANGED recordVars
  PROVE  IInv'
BY DEF IInv, recordVars, PendingIsHeld, Pending, DownHoldsNothing, ReplyMatchesRecord

\* A pending interaction that is held gets the outcome st, and the provider is
\* told r, which must fit.
LEMMA OutcomeStep ==
  ASSUME IInv, InteractionsTypeOK', desktop = "up",
         NEW i \in memory, NEW st \in Final, NEW r \in Replies \ {"none"},
         (r = "granted") <=> (st = "resolved"),
         status' = [status EXCEPT ![i] = st], Hand(i, r)
  PROVE  IInv'
<1> USE DEF IInv, InteractionsTypeOK, Final
<1>1. status[i] = "pending" /\ i \in Interactions
  BY DEF PendingIsHeld, Pending
<1>2. CASE i \in orphans
  <2>1. memory' = {} /\ desktop' = "down" /\ reply' = reply
    BY <1>2 DEF Hand
  <2>2. ReplyMatchesRecord'
    BY <1>1, <2>1 DEF ReplyMatchesRecord
  <2> QED BY <2>1, <2>2 DEF PendingIsHeld, DownHoldsNothing
<1>3. CASE i \notin orphans
  <2>1. memory' = memory \ {i} /\ desktop' = desktop /\ reply' = [reply EXCEPT ![i] = r]
    BY <1>3 DEF Hand
  <2>2. Pending' = Pending \ {i}
    BY <1>1 DEF Pending
  <2>3. PendingIsHeld' /\ DownHoldsNothing'
    BY <2>1, <2>2 DEF PendingIsHeld, DownHoldsNothing
  <2>4. ReplyMatchesRecord'
    BY <1>1, <2>1 DEF ReplyMatchesRecord, Replies
  <2> QED BY <2>3, <2>4
<1> QED BY <1>2, <1>3

\* Hand keeps the types of what it sets.
LEMMA HandTyped ==
  ASSUME InteractionsTypeOK, NEW i \in Interactions, NEW r \in Replies, Hand(i, r)
  PROVE  /\ memory' \subseteq Interactions
         /\ reply' \in [Interactions -> Replies]
         /\ desktop' \in {"up", "down"}
BY DEF Hand, InteractionsTypeOK

-----------------------------------------------------------------------------
(* Types.                                                                  *)

LEMMA TypeStep ==
  ASSUME InteractionsTypeOK, PendingIsHeld, [InteractionsNext]_interactionVars
  PROVE  InteractionsTypeOK'
<1> USE DEF InteractionsTypeOK
<1>1. CASE ProviderStarts \/ ProviderExits \/ DesktopStops
  BY <1>1 DEF ProviderStarts, ProviderExits, DesktopStops, Unanswered
<1>2. ASSUME NEW i \in Interactions, ProviderAsks(i)
      PROVE  InteractionsTypeOK'
  <2>1. toApp' \in [Phones -> Seq(ToApp)]
    BY <1>2, ToldTyped, ToLinkedTyped DEF ProviderAsks, Broadcast
  <2> QED BY <1>2, <2>1 DEF ProviderAsks, InteractionStatuses
<1>3. ASSUME NEW i \in Interactions, ExpireInteraction(i)
      PROVE  InteractionsTypeOK'
  <2>1. toApp' \in [Phones -> Seq(ToApp)]
    BY <1>3, ToldTyped, ToLinkedTyped DEF ExpireInteraction, Broadcast
  <2>2. /\ memory' \subseteq Interactions /\ reply' \in [Interactions -> Replies]
        /\ desktop' \in {"up", "down"}
    BY <1>3, HandTyped DEF ExpireInteraction, Replies
  <2> QED BY <1>3, <2>1, <2>2 DEF ExpireInteraction, InteractionStatuses, Final
<1>4. ASSUME NEW p \in Phones, DesktopReadsAnswer(p)
      PROVE  InteractionsTypeOK'
  <2> DEFINE m == Head(toDesktop[p])
  <2>1. m \in ToDesktop /\ m.kind = "answer" /\ toDesktop' \in [Phones -> Seq(ToDesktop)]
    BY <1>4 DEF DesktopReadsAnswer
  <2>2. m.id \in Interactions /\ m.decision \in Decisions /\ m.action \in Nat
    BY <2>1, AnswerFields
  <2>3. toApp' \in [Phones -> Seq(ToApp)]
    <3>1. \/ toApp' = ToLinked(toApp, <<Told("result", {m.id})>>)
          \/ toApp' = [toApp EXCEPT ![p] = Append(@, Told("result", {m.id}))]
      BY <1>4 DEF DesktopReadsAnswer, Broadcast, SendTo
    <3>2. {m.id} \in SUBSET Interactions
      BY <2>2
    <3>3. Told("result", {m.id}) \in ToApp /\ <<Told("result", {m.id})>> \in Seq(ToApp)
      BY <3>2, ToldTyped
    <3>4. /\ ToLinked(toApp, <<Told("result", {m.id})>>) \in [Phones -> Seq(ToApp)]
          /\ [toApp EXCEPT ![p] = Append(@, Told("result", {m.id}))] \in [Phones -> Seq(ToApp)]
      <4> HIDE DEF m
      <4> QED BY <3>3, ToLinkedTyped, SendTyped
    <3> QED BY <3>1, <3>4
  <2>4. /\ memory' \subseteq Interactions /\ reply' \in [Interactions -> Replies]
        /\ desktop' \in {"up", "down"}
    <3>1. Native(m.decision) \in Replies
      BY DEF Native, Replies
    <3> QED BY <1>4, <2>2, <3>1, HandTyped DEF DesktopReadsAnswer
  <2>5. /\ status' \in [Interactions -> InteractionStatuses]
        /\ actionOf' \in [Interactions -> Nat]
    BY <1>4, <2>2 DEF DesktopReadsAnswer, Answered, InteractionStatuses, Final
  <2> QED BY <1>4, <2>1, <2>3, <2>4, <2>5 DEF DesktopReadsAnswer
<1>5. ASSUME NEW p \in Phones, DesktopReadsSync(p)
      PROVE  InteractionsTypeOK'
  <2>1. Told("sync_response", Pending) \in ToApp
    BY ToldTyped DEF Pending
  <2>2. toApp' \in [Phones -> Seq(ToApp)] /\ toDesktop' \in [Phones -> Seq(ToDesktop)]
    BY <1>5, <2>1, SendTyped DEF DesktopReadsSync, SendTo
  <2> QED BY <1>5, <2>2 DEF DesktopReadsSync
<1>6. CASE CloseSession
  <2>1. toApp' \in [Phones -> Seq(ToApp)]
    BY <1>6, ToldTyped, ToLinkedTyped DEF CloseSession
  <2> QED BY <1>6, <2>1 DEF CloseSession, InteractionStatuses, Final
<1>7. CASE RestartDesktop
  BY <1>7 DEF RestartDesktop, Unanswered, InteractionStatuses, Final
<1>8. ASSUME NEW p \in Phones, AppLinks(p) \/ AppUnlinks(p) \/ UserReturns(p)
      PROVE  InteractionsTypeOK'
  <2>1. <<SyncRequest>> \in Seq(ToDesktop)
    BY DEF ToDesktop
  <2>2. CASE AppLinks(p)
    BY <2>1, <2>2 DEF AppLinks
  <2>3. CASE AppUnlinks(p)
    BY <2>3 DEF AppUnlinks
  <2>4. CASE UserReturns(p)
    BY <2>4 DEF UserReturns
  <2> QED BY <1>8, <2>2, <2>3, <2>4
<1>9. ASSUME NEW p \in Phones, PhoneReadsResult(p)
      PROVE  InteractionsTypeOK'
  <2> DEFINE m == Head(toApp[p])
  <2>1. m \in ToApp /\ toApp' \in [Phones -> Seq(ToApp)]
    BY <1>9 DEF PhoneReadsResult
  <2>2. Reduced(cards[p], m) \in SUBSET Interactions
    BY <2>1 DEF Reduced, ToApp
  <2> HIDE DEF m
  <2>3. /\ cards' = [cards EXCEPT ![p] = Reduced(@, m)]
        /\ submitting' = [submitting EXCEPT ![p] = @ \cap Reduced(cards[p], m)]
    BY <1>9 DEF PhoneReadsResult, m
  <2>4. cards' \in [Phones -> SUBSET Interactions] /\ submitting' \in [Phones -> SUBSET Interactions]
    BY <2>2, <2>3
  <2> QED BY <1>9, <2>1, <2>4 DEF PhoneReadsResult
<1>10. ASSUME NEW p \in Phones, NEW i \in Interactions, NEW d \in Decisions,
              UserAnswers(p, i, d)
       PROVE  InteractionsTypeOK'
  <2>1. Answer(i, d, answers + 1) \in ToDesktop
    BY DEF Answer, ToDesktop
  <2>2. toDesktop' \in [Phones -> Seq(ToDesktop)]
    BY <1>10, <2>1 DEF UserAnswers
  <2> QED BY <1>10, <2>2 DEF UserAnswers
<1>11. CASE UNCHANGED interactionVars
  BY <1>11 DEF interactionVars
<1> QED BY <1>1, <1>2, <1>3, <1>4, <1>5, <1>6, <1>7, <1>8, <1>9, <1>10, <1>11
        DEF InteractionsNext

-----------------------------------------------------------------------------
(* The invariant.                                                          *)

LEMMA InitIInv == InteractionsInit => IInv
<1> SUFFICES ASSUME InteractionsInit PROVE IInv
  OBVIOUS
<1> USE DEF InteractionsInit
<1>1. InteractionsTypeOK
  BY DEF InteractionsTypeOK, InteractionStatuses, Replies
<1>2. PendingIsHeld /\ DownHoldsNothing /\ ReplyMatchesRecord
  BY DEF PendingIsHeld, Pending, DownHoldsNothing, ReplyMatchesRecord
<1> QED BY <1>1, <1>2 DEF IInv

LEMMA NextIInv == IInv /\ [InteractionsNext]_interactionVars => IInv'
<1> SUFFICES ASSUME IInv, [InteractionsNext]_interactionVars PROVE IInv'
  OBVIOUS
<1>0. InteractionsTypeOK' /\ InteractionsTypeOK
  BY TypeStep DEF IInv
<1> USE DEF recordVars
<1>1. CASE ProviderStarts \/ ProviderExits
  BY <1>0, <1>1, QuietStep DEF ProviderStarts, ProviderExits
<1>2. ASSUME NEW i \in Interactions, ProviderAsks(i)
      PROVE  IInv'
  <2>1. /\ Pending' = Pending \cup {i} /\ memory' = memory \cup {i}
        /\ UNCHANGED <<reply, desktop>> /\ desktop = "up"
    BY <1>0, <1>2 DEF ProviderAsks, Pending, InteractionsTypeOK
  <2>2. PendingIsHeld' /\ DownHoldsNothing'
    BY <2>1 DEF IInv, PendingIsHeld, DownHoldsNothing
  <2>3. ReplyMatchesRecord'
    BY <1>0, <1>2, <2>1
       DEF IInv, ProviderAsks, ReplyMatchesRecord, InteractionsTypeOK, Final
  <2> QED BY <1>0, <2>2, <2>3 DEF IInv
<1>3. ASSUME NEW i \in Interactions, ExpireInteraction(i)
      PROVE  IInv'
  <2>1. /\ desktop = "up" /\ i \in memory /\ Hand(i, "denied")
        /\ status' = [status EXCEPT ![i] = "expired"]
    BY <1>3 DEF ExpireInteraction
  <2>2. "denied" \in Replies \ {"none"} /\ "expired" \in Final
    BY DEF Replies, Final
  <2> QED BY <1>0, <2>1, <2>2, OutcomeStep
<1>4. ASSUME NEW p \in Phones, DesktopReadsAnswer(p)
      PROVE  IInv'
  <2> DEFINE m == Head(toDesktop[p])
  <2>1. desktop = "up" /\ m \in ToDesktop /\ m.kind = "answer"
    BY <1>0, <1>4 DEF DesktopReadsAnswer, InteractionsTypeOK
  <2>2. m.id \in Interactions /\ m.decision \in Decisions
    BY <2>1, AnswerFields
  <2>3. CASE Takes(m.id, m.action)
    <3>1. m.id \in memory
      BY <2>1, <2>2, <2>3 DEF IInv, PendingIsHeld, Pending, Takes
    <3>2. status' = [status EXCEPT ![m.id] = Answered(m.decision)] /\ Hand(m.id, Native(m.decision))
      BY <1>4, <2>3, <3>1 DEF DesktopReadsAnswer
    <3>3. /\ Answered(m.decision) \in Final /\ Native(m.decision) \in Replies \ {"none"}
          /\ (Native(m.decision) = "granted") <=> (Answered(m.decision) = "resolved")
      BY DEF Answered, Native, Final, Replies
    <3> HIDE DEF m
    <3> QED BY <1>0, <2>1, <3>1, <3>2, <3>3, OutcomeStep
  <2>4. CASE ~Takes(m.id, m.action)
    BY <1>0, <1>4, <2>4, QuietStep DEF DesktopReadsAnswer
  <2> QED BY <2>3, <2>4
<1>5. ASSUME NEW p \in Phones, DesktopReadsSync(p)
      PROVE  IInv'
  BY <1>0, <1>5, QuietStep DEF DesktopReadsSync
<1>6. CASE CloseSession
  <2>1. memory' = {} /\ reply' = reply /\ desktop = "up" /\ memory = Pending
    BY <1>6 DEF CloseSession, IInv, PendingIsHeld
  <2>2. status' = [i \in Interactions |-> IF i \in Pending THEN "cancelled" ELSE status[i]]
    BY <1>6, <2>1 DEF CloseSession
  <2>3. Pending' = {}
    BY <2>2 DEF Pending
  <2>4. ReplyMatchesRecord'
    BY <2>1, <2>2 DEF IInv, ReplyMatchesRecord, Pending, Final
  <2> QED BY <1>0, <2>1, <2>3, <2>4 DEF IInv, PendingIsHeld, DownHoldsNothing
<1>7. CASE DesktopStops
  BY <1>0, <1>7
     DEF DesktopStops, IInv, PendingIsHeld, DownHoldsNothing, ReplyMatchesRecord
<1>8. CASE RestartDesktop
  <2>1. memory' = {} /\ reply' = reply /\ desktop' = "up"
    BY <1>8 DEF RestartDesktop, IInv, DownHoldsNothing
  <2>2. status' = [i \in Interactions |-> IF status[i] = "pending" THEN "expired" ELSE status[i]]
    BY <1>8 DEF RestartDesktop
  <2>3. Pending' = {}
    BY <2>2 DEF Pending
  <2>4. ReplyMatchesRecord'
    BY <2>1, <2>2 DEF IInv, ReplyMatchesRecord, Final
  <2> QED BY <1>0, <2>1, <2>3, <2>4 DEF IInv, PendingIsHeld, DownHoldsNothing
<1>9. ASSUME NEW p \in Phones,
             AppLinks(p) \/ AppUnlinks(p) \/ PhoneReadsResult(p) \/ UserReturns(p)
      PROVE  IInv'
  BY <1>0, <1>9, QuietStep DEF AppLinks, AppUnlinks, PhoneReadsResult, UserReturns
<1>10. ASSUME NEW p \in Phones, NEW i \in Interactions, NEW d \in Decisions,
              UserAnswers(p, i, d)
       PROVE  IInv'
  BY <1>0, <1>10, QuietStep DEF UserAnswers
<1>11. CASE UNCHANGED interactionVars
  BY <1>0, <1>11, QuietStep DEF interactionVars
<1> QED BY <1>1, <1>2, <1>3, <1>4, <1>5, <1>6, <1>7, <1>8, <1>9, <1>10, <1>11
        DEF InteractionsNext

-----------------------------------------------------------------------------
(* What an App shows.                                                      *)

\* Frames that say of an interaction whether it is pending.
Touches(m, i) == m.kind = "sync_response" \/ i \in m.ids
Says(m, i) == m.kind # "result" /\ i \in m.ids

\* What an App lists will be right for i: the last frame under way that says
\* something of it is right, or there is none and the list is right now.
Comes(q, listed, i, pending) ==
  /\ \A k \in DOMAIN q :
       Touches(q[k], i) /\ (\A j \in DOMAIN q : j > k => ~Touches(q[j], i)) =>
         (Says(q[k], i) <=> i \in pending)
  /\ (\A k \in DOMAIN q : ~Touches(q[k], i)) => (i \in listed <=> i \in pending)

SyncAsked(p) == \E k \in DOMAIN toDesktop[p] : toDesktop[p][k].kind = "sync_request"

\* An App with a session has still to be answered, or comes to list what is
\* pending by reading what is under way.
CardsCome ==
  desktop = "up" =>
    \A p \in linked, i \in Interactions :
      SyncAsked(p) \/ Comes(toApp[p], cards[p], i, Pending)

LEMMA SaidLast ==
  ASSUME NEW q \in Seq(ToApp), NEW m \in ToApp, NEW i \in Interactions, NEW listed, NEW pending,
         Touches(m, i), Says(m, i) <=> i \in pending
  PROVE  Comes(Append(q, m), listed, i, pending)
<1> DEFINE r == Append(q, m)
<1>1. Len(r) \in DOMAIN r /\ r[Len(r)] = m /\ DOMAIN r = 1 .. Len(r) /\ Len(r) \in Nat
  OBVIOUS
<1> HIDE DEF r
<1>2. \A k \in DOMAIN r : k # Len(r) => Len(r) > k
  BY <1>1
<1>3. Comes(r, listed, i, pending)
  BY <1>1, <1>2 DEF Comes
<1> QED BY <1>3 DEF r

LEMMA SaidOfOthers ==
  ASSUME NEW q \in Seq(ToApp), NEW m \in ToApp, NEW i \in Interactions, NEW listed, NEW pending,
         ~Touches(m, i), Comes(q, listed, i, pending)
  PROVE  Comes(Append(q, m), listed, i, pending)
<1> DEFINE r == Append(q, m)
<1>1. /\ DOMAIN r = 1 .. (Len(q) + 1) /\ DOMAIN q = 1 .. Len(q) /\ Len(q) \in Nat
      /\ r[Len(q) + 1] = m /\ \A k \in DOMAIN q : r[k] = q[k]
  OBVIOUS
<1> HIDE DEF r
<1>2. DOMAIN q \subseteq DOMAIN r /\ \A k \in DOMAIN r : k \in DOMAIN q \/ r[k] = m
  BY <1>1
<1>3. \A k \in DOMAIN q : Touches(r[k], i) <=> Touches(q[k], i)
  BY <1>1
<1>4. \A k \in DOMAIN r : Touches(r[k], i) => k \in DOMAIN q
  BY <1>2
<1>5. Comes(r, listed, i, pending)
  <2>1. ASSUME NEW k \in DOMAIN r, Touches(r[k], i),
               \A j \in DOMAIN r : j > k => ~Touches(r[j], i)
        PROVE  Says(r[k], i) <=> i \in pending
    <3>1. k \in DOMAIN q /\ r[k] = q[k]
      BY <1>1, <1>4, <2>1
    <3>2. \A j \in DOMAIN q : j > k => ~Touches(q[j], i)
      BY <1>2, <1>3, <2>1
    <3> QED BY <2>1, <3>1, <3>2 DEF Comes
  <2>2. (\A k \in DOMAIN r : ~Touches(r[k], i)) => (i \in listed <=> i \in pending)
    BY <1>2, <1>3 DEF Comes
  <2> QED BY <2>1, <2>2 DEF Comes
<1> QED BY <1>5 DEF r

LEMMA SaidFirst ==
  ASSUME NEW q \in Seq(ToApp), q # <<>>, NEW i \in Interactions, NEW listed, NEW pending,
         Comes(q, listed, i, pending)
  PROVE  Comes(Tail(q), Reduced(listed, Head(q)), i, pending)
<1> DEFINE r == Tail(q)
<1>1. /\ Len(q) \in Nat \ {0} /\ DOMAIN q = 1 .. Len(q) /\ DOMAIN r = 1 .. (Len(q) - 1)
      /\ \A k \in DOMAIN r : r[k] = q[k + 1]
      /\ Head(q) = q[1] /\ q[1] \in ToApp
  OBVIOUS
<1> HIDE DEF r
<1>2. \A k \in DOMAIN q : k # 1 => k - 1 \in DOMAIN r /\ r[k - 1] = q[k]
  BY <1>1
<1>3. \A k \in DOMAIN r : k + 1 \in DOMAIN q /\ r[k] = q[k + 1] /\ k \in Nat
  BY <1>1
<1>4. ASSUME NEW k \in DOMAIN r, Touches(r[k], i),
             \A j \in DOMAIN r : j > k => ~Touches(r[j], i)
      PROVE  Says(r[k], i) <=> i \in pending
  <2>1. ASSUME NEW j \in DOMAIN q, j > k + 1
        PROVE  ~Touches(q[j], i)
    <3>1. j - 1 \in DOMAIN r /\ r[j - 1] = q[j] /\ j - 1 > k
      BY <1>1, <1>2, <1>3, <2>1
    <3> QED BY <1>4, <3>1
  <2> QED BY <1>3, <1>4, <2>1 DEF Comes
<1>5. ASSUME \A k \in DOMAIN r : ~Touches(r[k], i)
      PROVE  i \in Reduced(listed, Head(q)) <=> i \in pending
  <2>1. \A k \in DOMAIN q : k # 1 => ~Touches(q[k], i)
    BY <1>2, <1>5
  <2>2. 1 \in DOMAIN q
    BY <1>1
  <2>3. q[1].kind \in {"request", "result", "sync_response"}
    BY <1>1 DEF ToApp
  <2>4. CASE Touches(q[1], i)
    <3>1. Says(q[1], i) <=> i \in pending
      BY <1>1, <2>1, <2>2, <2>4 DEF Comes
    <3> QED BY <1>1, <2>3, <2>4, <3>1 DEF Reduced, Touches, Says
  <2>5. CASE ~Touches(q[1], i)
    <3>1. i \in listed <=> i \in pending
      BY <2>1, <2>5 DEF Comes
    <3> QED BY <1>1, <2>3, <2>5, <3>1 DEF Reduced, Touches
  <2> QED BY <2>4, <2>5
<1>6. Comes(r, Reduced(listed, Head(q)), i, pending)
  BY <1>4, <1>5 DEF Comes
<1> QED BY <1>6 DEF r

\* The Desktop Agent tells an App of one change, and nothing else changes.
LEMMA ToldOne ==
  ASSUME NEW q \in Seq(ToApp), NEW x \in Interactions, NEW i \in Interactions, NEW listed,
         NEW k \in {"request", "result"}, NEW before, NEW after,
         Comes(q, listed, i, before),
         i # x => (i \in before <=> i \in after),
         x \in after <=> k = "request"
  PROVE  Comes(Append(q, Told(k, {x})), listed, i, after)
<1> DEFINE m == Told(k, {x})
<1>1. m \in ToApp
  BY ToldTyped
<1>2. /\ Touches(m, i) <=> i = x
      /\ i = x => (Says(m, i) <=> k = "request")
  BY DEF Touches, Says, Told
<1>3. CASE i = x
  <2>1. Touches(m, i) /\ (Says(m, i) <=> i \in after)
    BY <1>2, <1>3
  <2> HIDE DEF m
  <2>2. Comes(Append(q, m), listed, i, after)
    BY <1>1, <2>1, SaidLast
  <2> QED BY <2>2 DEF m
<1>4. CASE i # x
  <2>1. Comes(q, listed, i, after)
    BY <1>4 DEF Comes
  <2>2. ~Touches(m, i)
    BY <1>2, <1>4
  <2> HIDE DEF m
  <2>3. Comes(Append(q, m), listed, i, after)
    BY <1>1, <2>1, <2>2, SaidOfOthers
  <2> QED BY <2>3 DEF m
<1> QED BY <1>3, <1>4

\* A step that tells every App with a session what became of one interaction.
LEMMA BroadcastCards ==
  ASSUME IInv, IInv', CardsCome, NEW x \in Interactions, NEW k \in {"request", "result"},
         desktop = "up", Broadcast(Told(k, {x})),
         \A i \in Interactions : i # x => (i \in Pending <=> i \in Pending'),
         x \in Pending' <=> k = "request",
         linked' = linked, cards' = cards, \A p \in Phones : SyncAsked(p) => SyncAsked(p)'
  PROVE  CardsCome'
<1> SUFFICES ASSUME NEW p \in linked, NEW i \in Interactions, ~SyncAsked(p)'
             PROVE  Comes(toApp'[p], cards'[p], i, Pending')
  BY DEF CardsCome
<1>1. p \in Phones /\ toApp[p] \in Seq(ToApp)
  BY DEF IInv, InteractionsTypeOK
<1>2. Comes(toApp[p], cards[p], i, Pending)
  BY <1>1 DEF CardsCome
<1>3. Told(k, {x}) \in ToApp
  BY ToldTyped
<1>4. toApp'[p] = Append(toApp[p], Told(k, {x}))
  <2>1. toApp'[p] = toApp[p] \o <<Told(k, {x})>>
    BY <1>1 DEF Broadcast, ToLinked
  <2> QED BY <1>1, <1>3, <2>1
<1>5. Comes(Append(toApp[p], Told(k, {x})), cards[p], i, Pending')
  BY <1>1, <1>2, ToldOne
<1> QED BY <1>4, <1>5

\* A step that changes neither what is pending nor what an App with a session
\* lists, has to read, or asked.
LEMMA SameCards ==
  ASSUME CardsCome, Pending' = Pending, desktop = "up", linked' \subseteq linked,
         \A p \in linked' : /\ toApp'[p] = toApp[p] /\ cards'[p] = cards[p]
                            /\ SyncAsked(p) => SyncAsked(p)'
  PROVE  CardsCome'
BY DEF CardsCome

LEMMA StaysInTail ==
  ASSUME NEW S, NEW s \in Seq(S), s # <<>>, NEW k \in 1 .. Len(s), k # 1
  PROVE  k - 1 \in DOMAIN Tail(s) /\ Tail(s)[k - 1] = s[k]
<1> DEFINE r == Tail(s)
<1>1. /\ Len(s) \in Nat \ {0} /\ DOMAIN r = 1 .. (Len(s) - 1)
      /\ \A j \in DOMAIN r : r[j] = s[j + 1]
  OBVIOUS
<1> HIDE DEF r
<1>2. k - 1 \in DOMAIN r /\ r[k - 1] = s[k]
  BY <1>1
<1> QED BY <1>2 DEF r

\* Reading an answer leaves the request for what is pending where it is.
LEMMA AnswerTaken ==
  ASSUME InteractionsTypeOK, NEW p \in Phones, toDesktop[p] # <<>>,
         Head(toDesktop[p]).kind = "answer", toDesktop' = [toDesktop EXCEPT ![p] = Tail(@)]
  PROVE  \A o \in Phones : SyncAsked(o) => SyncAsked(o)'
<1> SUFFICES ASSUME NEW o \in Phones, NEW k \in DOMAIN toDesktop[o],
                    toDesktop[o][k].kind = "sync_request"
             PROVE  \E j \in DOMAIN toDesktop'[o] : toDesktop'[o][j].kind = "sync_request"
  BY DEF SyncAsked
<1>1. CASE o # p
  BY <1>1 DEF InteractionsTypeOK
<1>2. CASE o = p
  <2>1. /\ toDesktop[p] \in Seq(ToDesktop) /\ toDesktop'[p] = Tail(toDesktop[p])
        /\ k \in 1 .. Len(toDesktop[p]) /\ k # 1
    BY <1>2 DEF InteractionsTypeOK
  <2>2. k - 1 \in DOMAIN toDesktop'[p] /\ toDesktop'[p][k - 1] = toDesktop[p][k]
    BY <2>1, StaysInTail
  <2> QED BY <1>2, <2>2
<1> QED BY <1>1, <1>2

LEMMA CardsStep ==
  ASSUME IInv, IInv', CardsCome, [InteractionsNext]_interactionVars
  PROVE  CardsCome'
<1> USE DEF InteractionsTypeOK
<1>0. InteractionsTypeOK /\ InteractionsTypeOK'
  BY DEF IInv
<1>1. CASE ProviderStarts \/ ProviderExits \/ (\E p \in Phones : UserReturns(p))
  <2>1. /\ desktop = "down" => desktop' = "down"
        /\ UNCHANGED <<status, toApp, cards, linked, toDesktop>>
    BY <1>1 DEF ProviderStarts, ProviderExits, UserReturns
  <2>2. desktop' = "up" => desktop = "up"
    BY <1>0, <2>1
  <2> QED BY <2>1, <2>2, SameCards DEF Pending, SyncAsked, CardsCome
<1>2. ASSUME NEW x \in Interactions, ProviderAsks(x)
      PROVE  CardsCome'
  <2>1. Pending' = Pending \cup {x}
    BY <1>0, <1>2 DEF ProviderAsks, Pending
  <2>2. \A p \in Phones : SyncAsked(p) => SyncAsked(p)'
    BY <1>2 DEF ProviderAsks, SyncAsked
  <2>3. /\ desktop = "up" /\ Broadcast(Told("request", {x}))
        /\ linked' = linked /\ cards' = cards
    BY <1>2 DEF ProviderAsks
  <2> QED BY <2>1, <2>2, <2>3, BroadcastCards
<1>3. ASSUME NEW x \in Interactions, ExpireInteraction(x)
      PROVE  CardsCome'
  <2>1. Pending' = Pending \ {x}
    BY <1>0, <1>3 DEF ExpireInteraction, Pending
  <2>2. \A p \in Phones : SyncAsked(p) => SyncAsked(p)'
    BY <1>3 DEF ExpireInteraction, SyncAsked
  <2>3. /\ desktop = "up" /\ Broadcast(Told("result", {x}))
        /\ linked' = linked /\ cards' = cards
    BY <1>3 DEF ExpireInteraction
  <2> QED BY <2>1, <2>2, <2>3, BroadcastCards
<1>4. ASSUME NEW p \in Phones, DesktopReadsAnswer(p)
      PROVE  CardsCome'
  <2> DEFINE m == Head(toDesktop[p])
  <2>1. /\ desktop = "up" /\ m \in ToDesktop /\ m.kind = "answer" /\ toDesktop[p] # <<>>
        /\ toDesktop' = [toDesktop EXCEPT ![p] = Tail(@)] /\ linked' = linked /\ cards' = cards
        /\ p \in linked
    BY <1>0, <1>4 DEF DesktopReadsAnswer
  <2>2. m.id \in Interactions /\ m.decision \in Decisions
    BY <2>1, AnswerFields
  <2>3. \A o \in Phones : SyncAsked(o) => SyncAsked(o)'
    BY <1>0, <2>1, AnswerTaken
  <2>4. CASE Takes(m.id, m.action)
    <3>1. status' = [status EXCEPT ![m.id] = Answered(m.decision)] /\ Broadcast(Told("result", {m.id}))
      BY <1>4, <2>4 DEF DesktopReadsAnswer
    <3>2. Answered(m.decision) # "pending"
      BY DEF Answered
    <3>3. Pending' = Pending \ {m.id}
      BY <1>0, <2>2, <3>1, <3>2 DEF Pending
    <3> HIDE DEF m
    <3> QED BY <2>1, <2>2, <2>3, <3>1, <3>3, BroadcastCards
  <2>5. CASE ~Takes(m.id, m.action)
    <3>1. toApp' = [toApp EXCEPT ![p] = Append(@, Told("result", {m.id}))] /\ status' = status
      BY <1>4, <2>5 DEF DesktopReadsAnswer, SendTo
    <3>2. Pending' = Pending /\ m.id \notin Pending
      BY <2>5, <3>1 DEF Pending, Takes
    <3> HIDE DEF m
    <3>3. ASSUME NEW o \in linked, NEW i \in Interactions, ~SyncAsked(o)'
          PROVE  Comes(toApp'[o], cards'[o], i, Pending')
      <4>1. /\ o \in Phones /\ toApp[o] \in Seq(ToApp)
            /\ Comes(toApp[o], cards[o], i, Pending)
        BY <1>0, <2>1, <2>3, <3>3 DEF CardsCome
      <4>2. CASE o # p
        BY <1>0, <2>1, <3>1, <3>2, <4>1, <4>2
      <4>3. CASE o = p
        <5>1. Comes(Append(toApp[o], Told("result", {m.id})), cards[o], i, Pending)
          BY <2>2, <3>2, <4>1, ToldOne
        <5> QED BY <1>0, <2>1, <3>1, <3>2, <4>1, <4>3, <5>1
      <4> QED BY <4>2, <4>3
    <3> QED BY <2>1, <3>3 DEF CardsCome
  <2> QED BY <2>4, <2>5
<1>5. ASSUME NEW p \in Phones, DesktopReadsSync(p)
      PROVE  CardsCome'
  <2> DEFINE m == Told("sync_response", Pending)
  <2>1. /\ toApp' = [toApp EXCEPT ![p] = Append(@, m)] /\ desktop = "up"
        /\ toDesktop' = [toDesktop EXCEPT ![p] = Tail(@)]
        /\ linked' = linked /\ cards' = cards /\ status' = status
    BY <1>5 DEF DesktopReadsSync, SendTo
  <2>2. Pending' = Pending
    BY <2>1 DEF Pending
  <2>3. m \in ToApp /\ \A i \in Interactions : Touches(m, i) /\ (Says(m, i) <=> i \in Pending)
    BY ToldTyped DEF Pending, Touches, Says, Told
  <2> HIDE DEF m
  <2>4. ASSUME NEW o \in linked, NEW i \in Interactions, ~SyncAsked(o)'
        PROVE  Comes(toApp'[o], cards'[o], i, Pending')
    <3>1. o \in Phones /\ toApp[o] \in Seq(ToApp)
      BY <1>0
    <3>2. CASE o # p
      BY <1>0, <2>1, <2>2, <2>4, <3>1, <3>2 DEF CardsCome, SyncAsked
    <3>3. CASE o = p
      BY <1>0, <2>1, <2>2, <2>3, <3>1, <3>3, SaidLast
    <3> QED BY <3>2, <3>3
  <2> QED BY <2>1, <2>4 DEF CardsCome
<1>6. CASE CloseSession
  <2>1. CASE memory = {}
    <3>1. /\ desktop = "up" /\ toApp' = ToLinked(toApp, <<>>)
          /\ UNCHANGED <<linked, cards, toDesktop>>
          /\ status' = [i \in Interactions |-> status[i]]
      BY <1>6, <2>1 DEF CloseSession, Cancelled
    <3>2. status' = status
      BY <1>0, <3>1
    <3>3. \A o \in linked : toApp'[o] = toApp[o]
      BY <1>0, <3>1 DEF ToLinked
    <3> QED BY <3>1, <3>2, <3>3, SameCards DEF Pending, SyncAsked
  <2>2. CASE memory # {}
    BY <1>6, <2>2 DEF CloseSession, CardsCome
  <2> QED BY <2>1, <2>2
<1>7. CASE DesktopStops \/ RestartDesktop
  BY <1>7 DEF DesktopStops, RestartDesktop, CardsCome
<1>8. ASSUME NEW p \in Phones, AppLinks(p)
      PROVE  CardsCome'
  <2>1. /\ linked' = linked \cup {p} /\ desktop = "up"
        /\ toDesktop' = [toDesktop EXCEPT ![p] = <<SyncRequest>>]
        /\ UNCHANGED <<status, toApp, cards>>
    BY <1>8 DEF AppLinks
  <2>2. 1 \in DOMAIN toDesktop'[p] /\ toDesktop'[p][1].kind = "sync_request"
    BY <1>0, <2>1 DEF SyncRequest
  <2>3. SyncAsked(p)'
    BY <2>2 DEF SyncAsked
  <2>4. \A o \in Phones \ {p} : SyncAsked(o) => SyncAsked(o)'
    BY <1>0, <2>1 DEF SyncAsked
  <2> QED BY <1>0, <2>1, <2>3, <2>4 DEF CardsCome, Pending
<1>9. ASSUME NEW p \in Phones, AppUnlinks(p)
      PROVE  CardsCome'
  <2>1. /\ linked' = linked \ {p} /\ UNCHANGED <<status, desktop, cards>>
        /\ toApp' = [toApp EXCEPT ![p] = <<>>] /\ toDesktop' = [toDesktop EXCEPT ![p] = <<>>]
    BY <1>9 DEF AppUnlinks
  <2>2. \A o \in linked' : /\ toApp'[o] = toApp[o] /\ cards'[o] = cards[o]
                           /\ SyncAsked(o) => SyncAsked(o)'
    BY <1>0, <2>1 DEF SyncAsked
  <2> QED BY <1>0, <2>1, <2>2, SameCards DEF Pending, CardsCome
<1>10. ASSUME NEW p \in Phones, PhoneReadsResult(p)
       PROVE  CardsCome'
  <2>1. /\ p \in linked /\ toApp[p] # <<>> /\ toApp' = [toApp EXCEPT ![p] = Tail(@)]
        /\ cards' = [cards EXCEPT ![p] = Reduced(@, Head(toApp[p]))]
        /\ UNCHANGED <<status, desktop, linked, toDesktop>>
    BY <1>10 DEF PhoneReadsResult
  <2>2. ASSUME NEW o \in linked, NEW i \in Interactions, ~SyncAsked(o)', desktop = "up"
        PROVE  Comes(toApp'[o], cards'[o], i, Pending')
    <3>1. /\ o \in Phones /\ toApp[o] \in Seq(ToApp) /\ Pending' = Pending
          /\ Comes(toApp[o], cards[o], i, Pending)
      BY <1>0, <2>1, <2>2 DEF CardsCome, Pending, SyncAsked
    <3>2. CASE o # p
      BY <1>0, <2>1, <3>1, <3>2
    <3>3. CASE o = p
      <4>1. Comes(Tail(toApp[o]), Reduced(cards[o], Head(toApp[o])), i, Pending)
        BY <2>1, <3>1, <3>3, SaidFirst
      <4> QED BY <1>0, <2>1, <3>1, <3>3, <4>1
    <3> QED BY <3>2, <3>3
  <2> QED BY <2>1, <2>2 DEF CardsCome
<1>11. ASSUME NEW p \in Phones, NEW x \in Interactions, NEW d \in Decisions,
              UserAnswers(p, x, d)
       PROVE  CardsCome'
  <2>1. /\ UNCHANGED <<status, desktop, linked, toApp, cards>>
        /\ \/ toDesktop' = [toDesktop EXCEPT ![p] = Append(@, Answer(x, d, answers + 1))]
           \/ toDesktop' = toDesktop
    BY <1>11 DEF UserAnswers
  <2>2. ASSUME NEW o \in Phones, SyncAsked(o)
        PROVE  SyncAsked(o)'
    <3>1. PICK k \in DOMAIN toDesktop[o] : toDesktop[o][k].kind = "sync_request"
      BY <2>2 DEF SyncAsked
    <3>2. toDesktop[o] \in Seq(ToDesktop)
      BY <1>0
    <3>3. \/ toDesktop'[o] = toDesktop[o]
          \/ toDesktop'[o] = Append(toDesktop[o], Answer(x, d, answers + 1))
      BY <1>0, <2>1
    <3>4. k \in DOMAIN toDesktop'[o] /\ toDesktop'[o][k] = toDesktop[o][k]
      BY <3>2, <3>3
    <3> QED BY <3>1, <3>4 DEF SyncAsked
  <2>3. linked \subseteq Phones
    BY <1>0
  <2> QED BY <2>1, <2>2, <2>3, SameCards DEF Pending, CardsCome
<1>12. CASE UNCHANGED interactionVars
  BY <1>12 DEF interactionVars, CardsCome, Pending, SyncAsked
<1> QED BY <1>1, <1>2, <1>3, <1>4, <1>5, <1>6, <1>7, <1>8, <1>9, <1>10, <1>11, <1>12
        DEF InteractionsNext

-----------------------------------------------------------------------------
(* Theorems.                                                               *)

\* What every reachable state satisfies.
THEOREM InteractionsInvariant == InteractionsSpec => []IInv
BY InitIInv, NextIInv, PTL DEF InteractionsSpec

\* Rows, promises, queues and cards keep their types.
THEOREM InteractionsTyped == InteractionsSpec => []InteractionsTypeOK
<1>1. IInv => InteractionsTypeOK
  BY DEF IInv
<1> QED BY <1>1, InteractionsInvariant, PTL

\* AgentInteractionService never lets a provider do what the recorded outcome
\* does not allow, and has a timer for exactly what is pending.
THEOREM OutcomesConsistent == InteractionsSpec => []OutcomesAgree
<1>1. IInv => OutcomesAgree
  BY DEF IInv, OutcomesAgree
<1> QED BY <1>1, InteractionsInvariant, PTL

\* An outcome, once recorded, is never changed by another App, a timer, the end
\* of a session or a restart.
THEOREM OutcomeIsFinal == InteractionsSpec => FirstOutcomeStands
<1> DEFINE Stands == \A i \in Interactions : status[i] \in Final =>
                       status'[i] = status[i] /\ actionOf'[i] = actionOf[i]
<1>1. ASSUME IInv, [InteractionsNext]_interactionVars
      PROVE  [Stands]_interactionVars
  <2> USE <1>1 DEF IInv, InteractionsTypeOK, Final
  <2>0. \A i \in memory : status[i] = "pending"
    BY DEF PendingIsHeld, DownHoldsNothing, Pending
  <2>1. CASE UNCHANGED interactionVars
    BY <2>1
  <2>2. CASE \/ ProviderStarts \/ ProviderExits \/ DesktopStops
             \/ \E p \in Phones : \/ DesktopReadsSync(p) \/ AppLinks(p) \/ AppUnlinks(p)
                                  \/ PhoneReadsResult(p) \/ UserReturns(p)
    BY <2>2 DEF ProviderStarts, ProviderExits, DesktopStops, DesktopReadsSync, AppLinks,
                AppUnlinks, PhoneReadsResult, UserReturns
  <2>3. ASSUME NEW i \in Interactions, ProviderAsks(i) \/ ExpireInteraction(i)
        PROVE  Stands
    BY <2>0, <2>3 DEF ProviderAsks, ExpireInteraction
  <2>4. ASSUME NEW p \in Phones, DesktopReadsAnswer(p)
        PROVE  Stands
    BY <2>4 DEF DesktopReadsAnswer, Takes
  <2>5. CASE CloseSession
    BY <2>0, <2>5 DEF CloseSession
  <2>6. CASE RestartDesktop
    BY <2>6 DEF RestartDesktop
  <2>7. ASSUME NEW p \in Phones, NEW i \in Interactions, NEW d \in Decisions,
               UserAnswers(p, i, d)
        PROVE  Stands
    BY <2>7 DEF UserAnswers
  <2> QED BY <2>1, <2>2, <2>3, <2>4, <2>5, <2>6, <2>7 DEF InteractionsNext
<1> QED BY <1>1, InteractionsInvariant, PTL DEF InteractionsSpec, FirstOutcomeStands
\* An App with a session and nothing under way lists what is pending, whatever
\* links, timers, answers of other Apps and restarts there were.
THEOREM ListsWhatIsPending == InteractionsSpec => []ShownIsPending
<1>1. InteractionsInit => CardsCome
  BY DEF InteractionsInit, CardsCome
<1>2. IInv /\ IInv' /\ CardsCome /\ [InteractionsNext]_interactionVars => CardsCome'
  BY CardsStep
<1>3. IInv /\ CardsCome => ShownIsPending
  <2> SUFFICES ASSUME IInv, CardsCome, NEW p \in Phones, Quiet(p)
               PROVE  cards[p] = Pending
    BY DEF ShownIsPending
  <2>1. \A i \in Interactions : i \in cards[p] <=> i \in Pending
    BY DEF Quiet, CardsCome, SyncAsked, Comes
  <2> QED BY <2>1 DEF IInv, InteractionsTypeOK, Pending
<1> QED BY <1>1, <1>2, <1>3, InteractionsInvariant, PTL DEF InteractionsSpec
=============================================================================
