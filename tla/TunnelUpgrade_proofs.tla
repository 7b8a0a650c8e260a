------------------------ MODULE TunnelUpgrade_proofs ------------------------
(***************************************************************************)
(* What the direct path of one App and one Agent promises, for any upgrade *)
(* ids, any number of upgrades, messages, candidates and network changes,  *)
(* whatever fails.                                                         *)
(***************************************************************************)
EXTENDS TunnelUpgrade, TLAPS

-----------------------------------------------------------------------------
(* The invariant.  C is what the other end has committed.                  *)

\* What an end has sent, or accepted to send, and the other has not taken.
Held(e) ==
  ToSet(e.outQ) \cup ToSet(e.parked) \cup UNION {ToSet(e.direct[u]) : u \in Upgrades}
Carried(e) == ToSet(e.relay) \cup Held(e)

Shaped(e) ==
  /\ e \in EndStates
  /\ e.st = "idle" <=> e.up = None
  /\ e.peer \in {None, e.up}
  /\ e.queueing => e.switching
  /\ ~e.queueing => e.outQ = <<>>

\* What an end believes has been committed has been, and so has what it tells.
Backed(e, C) ==
  /\ e.local => e.up \in e.commits
  /\ e.remote => e.up \in C
  /\ e.tpeer # None => e.tpeer \in e.commits \cap C
  /\ \A f \in Carried(e) : f.kind = "committed" => f.up \in e.commits
  /\ \A f \in Carried(e) : f.kind = "propose" => f.up # None
  /\ \A f \in Held(e) : f.kind # "propose"

\* A strict App is only ever on its way to the direct path.
Direct(s, e) ==
  s = "app" /\ e.prefers =>
    /\ e.strict
    /\ \A i \in 1..Len(e.drains) : e.drains[i] = "p2p"
    /\ \A f \in ToSet(e.relay) : f.kind # "business"

Fit(s, e, C) == Shaped(e) /\ Backed(e, C) /\ Direct(s, e)

IInv ==
  /\ setting \in Settings
  /\ used \subseteq Upgrades
  /\ candidates \in [Sides -> Nat]
  /\ changes \in Nat
  /\ end \in [Sides -> EndStates]
  /\ \A s \in Sides : /\ Fit(s, end[s], end[Other(s)].commits)
                      /\ end[s].prefers = setting.strict

\* What no operation of an end changes but its own.
Same(e, f) ==
  /\ f.commits = e.commits /\ f.prefers = e.prefers
  /\ f.rx = e.rx /\ f.got = e.got /\ f.accepted = e.accepted

-----------------------------------------------------------------------------
(* Sequences and their elements.                                           *)

LEMMA Elements ==
  ASSUME NEW S, NEW q \in Seq(S)
  PROVE  ToSet(q) = {q[i] : i \in 1..Len(q)} /\ ToSet(q) \subseteq S
BY DEF ToSet

LEMMA Joined ==
  ASSUME NEW S, NEW q \in Seq(S), NEW r \in Seq(S)
  PROVE  q \o r \in Seq(S) /\ ToSet(q \o r) = ToSet(q) \cup ToSet(r)
<1>1. /\ q \o r \in Seq(S) /\ Len(q \o r) = Len(q) + Len(r)
      /\ \A i \in 1..Len(q) : (q \o r)[i] = q[i]
      /\ \A i \in 1..Len(r) : (q \o r)[Len(q) + i] = r[i]
  OBVIOUS
<1>2. \A i \in 1..Len(q \o r) : i \in 1..Len(q) \/ i - Len(q) \in 1..Len(r)
  BY <1>1
<1>3. ToSet(q \o r) \subseteq ToSet(q) \cup ToSet(r)
  <2> SUFFICES ASSUME NEW i \in 1..Len(q \o r)
               PROVE  (q \o r)[i] \in ToSet(q) \cup ToSet(r)
    <3>1. ToSet(q \o r) = {(q \o r)[i] : i \in 1..Len(q \o r)}
      BY <1>1, Elements
    <3> QED BY <3>1
  <2>1. CASE i \in 1..Len(q)
    BY <2>1, <1>1, Elements
  <2>2. CASE i - Len(q) \in 1..Len(r)
    <3> DEFINE j == i - Len(q)
    <3>1. j \in 1..Len(r) /\ i = Len(q) + j
      BY <2>2
    <3> QED BY <3>1, <1>1, Elements
  <2> QED BY <1>2, <2>1, <2>2
<1>4. ToSet(q) \cup ToSet(r) \subseteq ToSet(q \o r)
  <2>1. \A i \in 1..Len(q) : i \in 1..Len(q \o r)
    BY <1>1
  <2>2. \A i \in 1..Len(r) : Len(q) + i \in 1..Len(q \o r)
    BY <1>1
  <2>3. /\ ToSet(q) = {q[i] : i \in 1..Len(q)} /\ ToSet(r) = {r[i] : i \in 1..Len(r)}
        /\ ToSet(q \o r) = {(q \o r)[i] : i \in 1..Len(q \o r)}
    BY Elements, <1>1
  <2>4. \A i \in 1..Len(q) : q[i] \in ToSet(q \o r)
    BY <1>1, <2>1, <2>3
  <2>5. \A i \in 1..Len(r) : r[i] \in ToSet(q \o r)
    BY <1>1, <2>2, <2>3
  <2> QED BY <2>3, <2>4, <2>5
<1> QED BY <1>1, <1>3, <1>4

LEMMA OneFrame ==
  ASSUME NEW S, NEW x \in S
  PROVE  <<x>> \in Seq(S) /\ ToSet(<<x>>) = {x} /\ Len(<<x>>) = 1 /\ <<x>>[1] = x
<1>1. <<x>> \in Seq(S) /\ Len(<<x>>) = 1 /\ <<x>>[1] = x
  OBVIOUS
<1>2. ToSet(<<x>>) = {<<x>>[i] : i \in 1..1}
  BY <1>1, Elements
<1> QED BY <1>1, <1>2

LEMMA NoFrame ==
  ASSUME NEW S
  PROVE  <<>> \in Seq(S) /\ ToSet(<<>>) = {} /\ Len(<<>>) = 0
<1>1. <<>> \in Seq(S) /\ Len(<<>>) = 0
  OBVIOUS
<1>2. ToSet(<<>>) = {<<>>[i] : i \in 1..0}
  BY <1>1, Elements
<1> QED BY <1>1, <1>2

LEMMA Taken ==
  ASSUME NEW S, NEW q \in Seq(S), q # <<>>
  PROVE  /\ Head(q) \in S /\ Head(q) \in ToSet(q)
         /\ Tail(q) \in Seq(S) /\ ToSet(Tail(q)) \subseteq ToSet(q)
<1>1. Head(q) = q[1] /\ 1 \in 1..Len(q) /\ Head(q) \in S
  OBVIOUS
<1>2. /\ Tail(q) \in Seq(S) /\ Len(Tail(q)) = Len(q) - 1
      /\ \A i \in 1..Len(q) - 1 : Tail(q)[i] = q[i + 1] /\ i + 1 \in 1..Len(q)
  OBVIOUS
<1>3. ToSet(q) = {q[i] : i \in 1..Len(q)}
  BY Elements
<1>4. ToSet(Tail(q)) = {Tail(q)[i] : i \in 1..Len(q) - 1}
  BY <1>2, Elements
<1> QED BY <1>1, <1>2, <1>3, <1>4

LEMMA Added ==
  ASSUME NEW S, NEW q \in Seq(S), NEW x \in S
  PROVE  Append(q, x) \in Seq(S) /\ ToSet(Append(q, x)) = ToSet(q) \cup {x}
<1>1. Append(q, x) = q \o <<x>>
  OBVIOUS
<1>2. <<x>> \in Seq(S) /\ ToSet(<<x>>) = {x}
  BY OneFrame
<1>3. ToSet(q \o <<x>>) = ToSet(q) \cup ToSet(<<x>>) /\ q \o <<x>> \in Seq(S)
  BY <1>2, Joined
<1> QED BY <1>1, <1>2, <1>3

LEMMA Inserted ==
  ASSUME NEW S, NEW q \in Seq(S), NEW x \in S, NEW i \in 1..Len(q) + 1
  PROVE  InsertAt(q, i, x) \in Seq(S) /\ ToSet(InsertAt(q, i, x)) = ToSet(q) \cup {x}
<1> DEFINE a == SubSeq(q, 1, i - 1)
           b == SubSeq(q, i, Len(q))
<1>1. a \in Seq(S) /\ b \in Seq(S) /\ Len(a) = i - 1 /\ Len(b) = Len(q) - i + 1
  OBVIOUS
<1>2. /\ \A k \in 1..i - 1 : a[k] = q[k]
      /\ \A k \in 1..Len(q) - i + 1 : b[k] = q[i + k - 1]
  OBVIOUS
<1> HIDE DEF a, b
<1>3. q = a \o b
  <2>1. /\ a \o b \in Seq(S) /\ Len(a \o b) = Len(q)
        /\ \A k \in 1..Len(q) : (a \o b)[k] = IF k <= i - 1 THEN a[k] ELSE b[k - (i - 1)]
    BY <1>1
  <2>2. ASSUME NEW k \in 1..Len(q) PROVE (a \o b)[k] = q[k]
    <3>1. CASE k <= i - 1
      BY <3>1, <2>1, <1>2
    <3>2. CASE k > i - 1
      <4> DEFINE n == k - (i - 1)
      <4>1. n \in 1..Len(q) - i + 1 /\ i + n - 1 = k
        BY <3>2
      <4>2. (a \o b)[k] = b[n]
        BY <3>2, <2>1
      <4> HIDE DEF n
      <4>3. b[n] = q[i + n - 1]
        BY <4>1, <1>2
      <4> QED BY <4>1, <4>2, <4>3
    <3>3. k <= i - 1 \/ k > i - 1
      OBVIOUS
    <3> QED BY <3>1, <3>2, <3>3
  <2>3. \A t \in Seq(S) : t = [j \in 1..Len(t) |-> t[j]]
    OBVIOUS
  <2>4. a \o b = [j \in 1..Len(q) |-> (a \o b)[j]]
    BY <2>1, <2>3
  <2>5. q = [j \in 1..Len(q) |-> q[j]]
    BY <2>3
  <2> QED BY <2>2, <2>4, <2>5
<1>4. <<x>> \in Seq(S) /\ ToSet(<<x>>) = {x}
  BY OneFrame
<1>5. a \o <<x>> \in Seq(S) /\ ToSet(a \o <<x>>) = ToSet(a) \cup ToSet(<<x>>)
  <2> DEFINE t == <<x>>
  <2>1. a \in Seq(S) /\ t \in Seq(S)
    BY <1>1, <1>4
  <2> HIDE DEF t
  <2>2. a \o t \in Seq(S) /\ ToSet(a \o t) = ToSet(a) \cup ToSet(t)
    BY <2>1, Joined
  <2> QED BY <2>2 DEF t
<1>6. ToSet(a \o b) = ToSet(a) \cup ToSet(b)
  BY <1>1, Joined
<1> DEFINE c == a \o <<x>>
<1> HIDE DEF c
<1>7. c \o b \in Seq(S) /\ ToSet(c \o b) = ToSet(c) \cup ToSet(b)
  <2>1. c \in Seq(S)
    BY <1>5 DEF c
  <2> QED BY <1>1, <2>1, Joined
<1>8. InsertAt(q, i, x) = c \o b
  BY DEF InsertAt, a, b, c
<1> QED BY <1>3, <1>4, <1>5, <1>6, <1>7, <1>8 DEF c

-----------------------------------------------------------------------------
(* What one end does to its record.                                        *)

LEMMA Records ==
  ASSUME NEW e \in EndStates
  PROVE  /\ \A x \in CoordinatorStates : [e EXCEPT !.st = x] \in EndStates
         /\ \A x \in Upgrades \cup {None} :
              /\ [e EXCEPT !.up = x] \in EndStates
              /\ [e EXCEPT !.peer = x] \in EndStates
              /\ [e EXCEPT !.tpeer = x] \in EndStates
         /\ \A x \in BOOLEAN :
              /\ [e EXCEPT !.local = x] \in EndStates
              /\ [e EXCEPT !.remote = x] \in EndStates
              /\ [e EXCEPT !.switching = x] \in EndStates
              /\ [e EXCEPT !.queueing = x] \in EndStates
              /\ [e EXCEPT !.strict = x] \in EndStates
              /\ [e EXCEPT !.backgroundPaused = x] \in EndStates
         /\ \A x \in {"none", "offered", "done"} : [e EXCEPT !.sdp = x] \in EndStates
         /\ \A x \in Paths : [e EXCEPT !.path = x] \in EndStates
         /\ \A x \in Seq(Frames) :
              /\ [e EXCEPT !.outQ = x] \in EndStates
              /\ [e EXCEPT !.parked = x] \in EndStates
              /\ [e EXCEPT !.relay = x] \in EndStates
         /\ \A x \in Seq(Paths) : [e EXCEPT !.drains = x] \in EndStates
         /\ \A x \in Nat :
              /\ [e EXCEPT !.tx = x] \in EndStates
              /\ [e EXCEPT !.rx = x] \in EndStates
              /\ [e EXCEPT !.accepted = x] \in EndStates
         /\ \A x \in SUBSET Upgrades :
              /\ [e EXCEPT !.alive = x] \in EndStates
              /\ [e EXCEPT !.linked = x] \in EndStates
              /\ [e EXCEPT !.commits = x] \in EndStates
         /\ \A x \in [Upgrades -> Seq(Frames)] : [e EXCEPT !.direct = x] \in EndStates
         /\ \A x \in {"no", "broken", "closed"} : [e EXCEPT !.ended = x] \in EndStates
         /\ \A x \in Seq(Nat) : [e EXCEPT !.got = x] \in EndStates
<1>1. \A x \in CoordinatorStates : [e EXCEPT !.st = x] \in EndStates
  BY DEF EndStates
<1>2. \A x \in Upgrades \cup {None} : [e EXCEPT !.up = x] \in EndStates
  BY DEF EndStates
<1>3. \A x \in Upgrades \cup {None} : [e EXCEPT !.peer = x] \in EndStates
  BY DEF EndStates
<1>4. \A x \in Upgrades \cup {None} : [e EXCEPT !.tpeer = x] \in EndStates
  BY DEF EndStates
<1>5. \A x \in BOOLEAN : [e EXCEPT !.local = x] \in EndStates
  BY DEF EndStates
<1>6. \A x \in BOOLEAN : [e EXCEPT !.remote = x] \in EndStates
  BY DEF EndStates
<1>7. \A x \in BOOLEAN : [e EXCEPT !.switching = x] \in EndStates
  BY DEF EndStates
<1>8. \A x \in BOOLEAN : [e EXCEPT !.queueing = x] \in EndStates
  BY DEF EndStates
<1>9. \A x \in BOOLEAN : [e EXCEPT !.strict = x] \in EndStates
  BY DEF EndStates
<1>10. \A x \in BOOLEAN : [e EXCEPT !.backgroundPaused = x] \in EndStates
  BY DEF EndStates
<1>11. \A x \in {"none", "offered", "done"} : [e EXCEPT !.sdp = x] \in EndStates
  BY DEF EndStates
<1>12. \A x \in Paths : [e EXCEPT !.path = x] \in EndStates
  BY DEF EndStates
<1>13. \A x \in Seq(Frames) : [e EXCEPT !.outQ = x] \in EndStates
  BY DEF EndStates
<1>14. \A x \in Seq(Frames) : [e EXCEPT !.parked = x] \in EndStates
  BY DEF EndStates
<1>15. \A x \in Seq(Frames) : [e EXCEPT !.relay = x] \in EndStates
  BY DEF EndStates
<1>16. \A x \in Seq(Paths) : [e EXCEPT !.drains = x] \in EndStates
  BY DEF EndStates
<1>17. \A x \in Nat : [e EXCEPT !.tx = x] \in EndStates
  BY DEF EndStates
<1>18. \A x \in Nat : [e EXCEPT !.rx = x] \in EndStates
  BY DEF EndStates
<1>19. \A x \in Nat : [e EXCEPT !.accepted = x] \in EndStates
  BY DEF EndStates
<1>20. \A x \in SUBSET Upgrades : [e EXCEPT !.alive = x] \in EndStates
  BY DEF EndStates
<1>21. \A x \in SUBSET Upgrades : [e EXCEPT !.linked = x] \in EndStates
  BY DEF EndStates
<1>22. \A x \in SUBSET Upgrades : [e EXCEPT !.commits = x] \in EndStates
  BY DEF EndStates
<1>23. \A x \in [Upgrades -> Seq(Frames)] : [e EXCEPT !.direct = x] \in EndStates
  BY DEF EndStates
<1>24. \A x \in {"no", "broken", "closed"} : [e EXCEPT !.ended = x] \in EndStates
  BY DEF EndStates
<1>25. \A x \in Seq(Nat) : [e EXCEPT !.got = x] \in EndStates
  BY DEF EndStates
<1> QED BY <1>1, <1>2, <1>3, <1>4, <1>5, <1>6, <1>7, <1>8, <1>9, <1>10, <1>11, <1>12, <1>13, <1>14, <1>15, <1>16, <1>17, <1>18, <1>19, <1>20, <1>21, <1>22, <1>23, <1>24, <1>25

LEMMA Parts ==
  ASSUME NEW e \in EndStates
  PROVE  /\ e.relay \in Seq(Frames) /\ e.outQ \in Seq(Frames) /\ e.parked \in Seq(Frames)
         /\ e.direct \in [Upgrades -> Seq(Frames)]
         /\ e.tx \in Nat /\ e.rx \in Nat /\ e.accepted \in Nat /\ e.got \in Seq(Nat)
         /\ e.up \in Upgrades \cup {None} /\ e.peer \in Upgrades \cup {None}
         /\ e.tpeer \in Upgrades \cup {None} /\ e.commits \subseteq Upgrades
         /\ e.alive \subseteq Upgrades /\ e.linked \subseteq Upgrades
         /\ e.drains \in Seq(Paths) /\ e.path \in Paths /\ e.st \in CoordinatorStates
         /\ e.strict \in BOOLEAN /\ e.prefers \in BOOLEAN /\ e.queueing \in BOOLEAN
         /\ e.switching \in BOOLEAN /\ e.local \in BOOLEAN /\ e.remote \in BOOLEAN
BY DEF EndStates

LEMMA SealTyped ==
  ASSUME NEW e \in EndStates, NEW q \in Seq(Frames)
  PROVE  /\ Seal(e, q) \in Seq(Frames) /\ Len(Seal(e, q)) = Len(q)
         /\ \A i \in 1..Len(q) :
              /\ Seal(e, q)[i].kind = q[i].kind /\ Seal(e, q)[i].up = q[i].up
              /\ Seal(e, q)[i].biz = q[i].biz /\ Seal(e, q)[i].seq = e.tx + i
<1>1. e.tx \in Nat
  BY Parts
<1>2. ASSUME NEW i \in 1..Len(q)
      PROVE  /\ [q[i] EXCEPT !.seq = e.tx + i] \in Frames
             /\ [q[i] EXCEPT !.seq = e.tx + i].kind = q[i].kind
             /\ [q[i] EXCEPT !.seq = e.tx + i].up = q[i].up
             /\ [q[i] EXCEPT !.seq = e.tx + i].biz = q[i].biz
             /\ [q[i] EXCEPT !.seq = e.tx + i].seq = e.tx + i
  <2>1. q[i] \in Frames /\ e.tx + i \in Nat
    BY <1>1
  <2> QED BY <2>1 DEF Frames
<1>3. Seal(e, q) \in [1..Len(q) -> Frames]
  BY <1>2 DEF Seal
<1>4. Len(q) \in Nat
  OBVIOUS
<1>5. Seal(e, q) \in Seq(Frames) /\ Len(Seal(e, q)) = Len(q)
  BY <1>3, <1>4
<1>6. \A i \in 1..Len(q) : Seal(e, q)[i] = [q[i] EXCEPT !.seq = e.tx + i]
  BY DEF Seal
<1> QED BY <1>2, <1>5, <1>6

LEMMA SealOf ==
  ASSUME NEW e \in EndStates, NEW q \in Seq(Frames)
  PROVE  /\ Sealed(e, q) \in EndStates
         /\ \A f \in ToSet(Seal(e, q)) : \E g \in ToSet(q) : f.kind = g.kind /\ f.up = g.up
<1>1. e.tx + Len(q) \in Nat
  BY Parts
<1>2. Sealed(e, q) \in EndStates
  BY <1>1, Records DEF Sealed
<1>3. ToSet(Seal(e, q)) = {Seal(e, q)[i] : i \in 1..Len(q)} /\ ToSet(q) = {q[i] : i \in 1..Len(q)}
  BY SealTyped, Elements
<1> QED BY <1>2, <1>3, SealTyped

\* Frames an end may put on a path: what they announce is so.
Tells(e, q) ==
  \A f \in ToSet(q) : /\ f.kind # "propose"
                      /\ f.kind = "committed" => f.up \in e.commits

LEMMA StillBacked ==
  ASSUME NEW C, NEW e, Backed(e, C), NEW q, Tells(e, q), NEW f,
         f.local = e.local, f.remote = e.remote, f.up = e.up, f.tpeer = e.tpeer,
         f.commits = e.commits,
         Carried(f) \subseteq Carried(e) \cup ToSet(q), Held(f) \subseteq Held(e) \cup ToSet(q)
  PROVE  Backed(f, C)
<1>1. ASSUME NEW x \in Carried(f) PROVE x.kind = "committed" => x.up \in f.commits
  <2>1. CASE x \in Carried(e)
    BY <2>1 DEF Backed
  <2>2. CASE x \in ToSet(q)
    BY <2>2 DEF Tells
  <2> QED BY <2>1, <2>2
<1>2. ASSUME NEW x \in Held(f) PROVE x.kind # "propose"
  <2>1. CASE x \in Held(e)
    BY <2>1 DEF Backed
  <2>2. CASE x \in ToSet(q)
    BY <2>2 DEF Tells
  <2> QED BY <2>1, <2>2
<1>3. ASSUME NEW x \in Carried(f) PROVE x.kind = "propose" => x.up # None
  <2>1. CASE x \in Carried(e)
    BY <2>1 DEF Backed
  <2>2. CASE x \in ToSet(q)
    BY <2>2 DEF Tells
  <2> QED BY <2>1, <2>2
<1> QED BY <1>1, <1>2, <1>3 DEF Backed

NoBusiness(q) == \A f \in ToSet(q) : f.kind # "business"

LEMMA SealedFits ==
  ASSUME NEW s \in Sides, NEW C \in SUBSET Upgrades, NEW e, Fit(s, e, C),
         NEW q \in Seq(Frames), Tells(e, q)
  PROVE  /\ Fit(s, Sealed(e, q), C) /\ Same(e, Sealed(e, q))
         /\ Seal(e, q) \in Seq(Frames) /\ Tells(Sealed(e, q), Seal(e, q))
         /\ NoBusiness(q) => NoBusiness(Seal(e, q))
         /\ Sealed(e, q) = [e EXCEPT !.tx = Sealed(e, q).tx]
<1>1. e \in EndStates
  BY DEF Fit, Shaped
<1>2. /\ Sealed(e, q) \in EndStates /\ Seal(e, q) \in Seq(Frames)
      /\ \A f \in ToSet(Seal(e, q)) : \E g \in ToSet(q) : f.kind = g.kind /\ f.up = g.up
  BY <1>1, SealOf, SealTyped
<1> DEFINE n == e.tx + Len(q)
<1>3. Sealed(e, q) = [e EXCEPT !.tx = n]
  BY DEF Sealed
<1> HIDE DEF n
<1>4. /\ Same(e, Sealed(e, q)) /\ Carried(Sealed(e, q)) = Carried(e)
      /\ Held(Sealed(e, q)) = Held(e)
      /\ Sealed(e, q) = [e EXCEPT !.tx = Sealed(e, q).tx]
  BY <1>1, <1>3 DEF Same, Carried, Held, EndStates
<1>5. Shaped(Sealed(e, q))
  <2> DEFINE f == Sealed(e, q)
  <2>1. /\ f.st = e.st /\ f.up = e.up /\ f.peer = e.peer /\ f.queueing = e.queueing
        /\ f.switching = e.switching /\ f.outQ = e.outQ
    BY <1>1, <1>3 DEF EndStates
  <2>2. f \in EndStates
    BY <1>2
  <2> HIDE DEF f
  <2>3. Shaped(f)
    BY <2>1, <2>2 DEF Fit, Shaped
  <2> QED BY <2>3 DEF f
<1>6. Backed(Sealed(e, q), C)
  BY <1>1, <1>3, <1>4 DEF Fit, Backed, EndStates
<1>7. Direct(s, Sealed(e, q))
  BY <1>1, <1>3 DEF Fit, Direct, EndStates
<1>8. Tells(Sealed(e, q), Seal(e, q)) /\ (NoBusiness(q) => NoBusiness(Seal(e, q)))
  BY <1>2, <1>4 DEF Tells, NoBusiness, Same
<1> QED BY <1>2, <1>4, <1>5, <1>6, <1>7, <1>8 DEF Fit

LEMMA OverRelayFits ==
  ASSUME NEW s \in Sides, NEW C \in SUBSET Upgrades, NEW e, Fit(s, e, C),
         NEW q \in Seq(Frames), Tells(e, q), s = "app" /\ e.prefers => NoBusiness(q)
  PROVE  Fit(s, OverRelay(e, q), C) /\ Same(e, OverRelay(e, q))
<1> DEFINE r == e.relay \o q
<1>1. e \in EndStates
  BY DEF Fit, Shaped
<1>2. r \in Seq(Frames) /\ ToSet(r) = ToSet(e.relay) \cup ToSet(q)
  BY <1>1, Parts, Joined
<1>3. OverRelay(e, q) = [e EXCEPT !.relay = r]
  BY DEF OverRelay
<1> HIDE DEF r
<1>4. OverRelay(e, q) \in EndStates
  <2>1. [e EXCEPT !.relay = r] \in EndStates
    BY <1>1, <1>2, Records
  <2> QED BY <1>3, <2>1
<1>5. /\ Same(e, OverRelay(e, q))
      /\ Carried(OverRelay(e, q)) = Carried(e) \cup ToSet(q)
      /\ Held(OverRelay(e, q)) = Held(e)
  BY <1>1, <1>2, <1>3 DEF Same, Carried, Held, EndStates
<1>6. Shaped(OverRelay(e, q))
  BY <1>1, <1>3, <1>4 DEF Fit, Shaped, EndStates
<1>7. Backed(OverRelay(e, q), C)
  BY <1>1, <1>3, <1>5 DEF Fit, Backed, Tells, EndStates
<1>8. Direct(s, OverRelay(e, q))
  BY <1>1, <1>2, <1>3 DEF Fit, Direct, NoBusiness, EndStates
<1> QED BY <1>5, <1>6, <1>7, <1>8 DEF Fit

LEMMA OverDirectFits ==
  ASSUME NEW s \in Sides, NEW C \in SUBSET Upgrades, NEW e, Fit(s, e, C),
         NEW q \in Seq(Frames), Tells(e, q)
  PROVE  Fit(s, OverDirect(e, q), C) /\ Same(e, OverDirect(e, q))
<1>1. CASE e.tpeer \notin e.alive
  BY <1>1 DEF OverDirect, Same
<1>2. CASE e.tpeer \in e.alive
  <2> DEFINE d == [e.direct EXCEPT ![e.tpeer] = @ \o q]
  <2>1. e \in EndStates
    BY DEF Fit, Shaped
  <2>2. /\ e.tpeer \in Upgrades /\ e.direct \in [Upgrades -> Seq(Frames)]
        /\ e.direct[e.tpeer] \in Seq(Frames)
    BY <1>2, <2>1, Parts
  <2>3. e.direct[e.tpeer] \o q \in Seq(Frames)
        /\ ToSet(e.direct[e.tpeer] \o q) = ToSet(e.direct[e.tpeer]) \cup ToSet(q)
    BY <2>2, Joined
  <2>4. /\ d \in [Upgrades -> Seq(Frames)]
        /\ \A u \in Upgrades : ToSet(d[u]) \subseteq ToSet(e.direct[u]) \cup ToSet(q)
    BY <2>2, <2>3
  <2>5. OverDirect(e, q) = [e EXCEPT !.direct = d]
    BY <1>2 DEF OverDirect
  <2> HIDE DEF d
  <2>6. OverDirect(e, q) \in EndStates
    <3>1. [e EXCEPT !.direct = d] \in EndStates
      BY <2>1, <2>4, Records
    <3> QED BY <2>5, <3>1
  <2>7. Same(e, OverDirect(e, q)) /\ Carried(OverDirect(e, q)) \subseteq Carried(e) \cup ToSet(q)
          /\ Held(OverDirect(e, q)) \subseteq Held(e) \cup ToSet(q)
    <3> DEFINE f == OverDirect(e, q)
    <3>1. /\ f.relay = e.relay /\ f.outQ = e.outQ /\ f.parked = e.parked /\ f.direct = d
          /\ Same(e, f)
      BY <2>1, <2>5 DEF Same, EndStates
    <3> HIDE DEF f
    <3>2. Held(f) \subseteq Held(e) \cup ToSet(q)
      BY <2>4, <3>1 DEF Held
    <3>3. Carried(f) \subseteq Carried(e) \cup ToSet(q)
      BY <3>1, <3>2 DEF Carried
    <3> QED BY <3>1, <3>2, <3>3 DEF f
  <2>8. Shaped(OverDirect(e, q))
    BY <2>1, <2>5, <2>6 DEF Fit, Shaped, EndStates
  <2>9. Backed(OverDirect(e, q), C)
    <3> DEFINE g == OverDirect(e, q)
    <3>1. /\ g.local = e.local /\ g.remote = e.remote /\ g.up = e.up /\ g.tpeer = e.tpeer
          /\ g.commits = e.commits
      BY <2>1, <2>5 DEF EndStates
    <3>2. Carried(g) \subseteq Carried(e) \cup ToSet(q) /\ Held(g) \subseteq Held(e) \cup ToSet(q)
      BY <2>7
    <3> HIDE DEF g
    <3>3. Backed(g, C)
      BY <3>1, <3>2, StillBacked DEF Fit
    <3> QED BY <3>3 DEF g
  <2>10. Direct(s, OverDirect(e, q))
    BY <2>1, <2>5 DEF Fit, Direct, EndStates
  <2> QED BY <2>7, <2>8, <2>9, <2>10 DEF Fit
<1> QED BY <1>1, <1>2

LEMMA AppDetachFits ==
  ASSUME NEW s \in Sides, NEW C \in SUBSET Upgrades, NEW e, Fit(s, e, C)
  PROVE  Fit(s, AppDetach(e), C) /\ Same(e, AppDetach(e))
<1>1. e \in EndStates
  BY DEF Fit, Shaped
<1>2. AppDetach(e) \in EndStates
  BY <1>1, Records DEF AppDetach
<1>3. Same(e, AppDetach(e)) /\ Carried(AppDetach(e)) = Carried(e)
        /\ Held(AppDetach(e)) = Held(e)
  BY <1>1 DEF AppDetach, Same, Carried, Held, EndStates
<1>4. Shaped(AppDetach(e))
  BY <1>1, <1>2 DEF AppDetach, Fit, Shaped, EndStates
<1>5. Backed(AppDetach(e), C)
  BY <1>1, <1>3 DEF AppDetach, Fit, Backed, EndStates
<1>6. Direct(s, AppDetach(e))
  BY <1>1 DEF AppDetach, Fit, Direct, EndStates
<1> QED BY <1>3, <1>4, <1>5, <1>6 DEF Fit

LEMMA AgentDetachFits ==
  ASSUME NEW s \in Sides, NEW C \in SUBSET Upgrades, NEW e, Fit(s, e, C)
  PROVE  Fit(s, AgentDetach(e), C) /\ Same(e, AgentDetach(e))
<1>1. e \in EndStates
  BY DEF Fit, Shaped
<1>2. <<>> \in Seq(Frames) /\ ToSet(<<>>) = {} /\ "relay" \in Paths
  BY NoFrame DEF Paths
<1> DEFINE alive == e.alive \ {e.tpeer}
<1>3. alive \in SUBSET Upgrades
  BY <1>1, Parts
<1> HIDE DEF alive
<1>4. AgentDetach(e) =
        [[[[[[e EXCEPT !.path = "relay"] EXCEPT !.queueing = FALSE] EXCEPT !.outQ = <<>>]
           EXCEPT !.switching = FALSE] EXCEPT !.alive = alive] EXCEPT !.tpeer = None]
  BY <1>1 DEF AgentDetach, EndStates, alive
<1>5. AgentDetach(e) \in EndStates
  <2> DEFINE a == [e EXCEPT !.path = "relay"]
             b == [a EXCEPT !.queueing = FALSE]
             c == [b EXCEPT !.outQ = <<>>]
             d == [c EXCEPT !.switching = FALSE]
             g == [d EXCEPT !.alive = alive]
  <2>1. a \in EndStates
    BY <1>1, <1>2, Records
  <2> HIDE DEF a
  <2>2. b \in EndStates
    BY <2>1, Records
  <2> HIDE DEF b
  <2>3. c \in EndStates
    BY <2>2, <1>2, Records
  <2> HIDE DEF c
  <2>4. d \in EndStates
    BY <2>3, Records
  <2> HIDE DEF d
  <2>5. g \in EndStates
    BY <2>4, <1>3, Records
  <2> HIDE DEF g
  <2>6. [g EXCEPT !.tpeer = None] \in EndStates
    BY <2>5, Records
  <2> QED BY <1>4, <2>6 DEF a, b, c, d, g
<1>6. /\ Same(e, AgentDetach(e)) /\ Carried(AgentDetach(e)) \subseteq Carried(e)
      /\ Held(AgentDetach(e)) \subseteq Held(e)
      /\ AgentDetach(e).tpeer = None /\ AgentDetach(e).queueing = FALSE
      /\ AgentDetach(e).outQ = <<>> /\ AgentDetach(e).st = e.st
      /\ AgentDetach(e).up = e.up /\ AgentDetach(e).peer = e.peer
      /\ AgentDetach(e).local = e.local /\ AgentDetach(e).remote = e.remote
      /\ AgentDetach(e).strict = e.strict /\ AgentDetach(e).drains = e.drains
      /\ AgentDetach(e).relay = e.relay
  BY <1>1, <1>2 DEF AgentDetach, Same, Carried, Held, EndStates
<1>7. Shaped(AgentDetach(e))
  BY <1>1, <1>5, <1>6 DEF Fit, Shaped
<1>8. Backed(AgentDetach(e), C)
  BY <1>1, <1>6 DEF Fit, Backed, Same
<1>9. Direct(s, AgentDetach(e))
  BY <1>1, <1>6 DEF Fit, Direct, Same
<1> QED BY <1>6, <1>7, <1>8, <1>9 DEF Fit

LEMMA ForceCloseFits ==
  ASSUME NEW s \in Sides, NEW C \in SUBSET Upgrades, NEW e, Fit(s, e, C)
  PROVE  Fit(s, ForceClose(e), C) /\ Same(e, ForceClose(e))
<1>1. e \in EndStates
  BY DEF Fit, Shaped
<1>2. ForceClose(e) \in EndStates
  BY <1>1, Records DEF ForceClose
<1>3. Same(e, ForceClose(e)) /\ Carried(ForceClose(e)) = Carried(e)
        /\ Held(ForceClose(e)) = Held(e)
  BY <1>1 DEF ForceClose, Same, Carried, Held, EndStates
<1>4. Shaped(ForceClose(e))
  BY <1>1, <1>2 DEF ForceClose, Fit, Shaped, EndStates
<1>5. Backed(ForceClose(e), C)
  BY <1>1, <1>3 DEF ForceClose, Fit, Backed, EndStates
<1>6. Direct(s, ForceClose(e))
  BY <1>1 DEF ForceClose, Fit, Direct, EndStates
<1> QED BY <1>3, <1>4, <1>5, <1>6 DEF Fit

LEMMA ForceCloseRouteFits ==
  ASSUME NEW s \in Sides, NEW C \in SUBSET Upgrades, NEW e, Fit(s, e, C),
         s = "app" => ~e.prefers
  PROVE  Fit(s, ForceCloseRoute(e), C) /\ Same(e, ForceCloseRoute(e))
<1>1. CASE ~e.strict
  BY <1>1 DEF ForceCloseRoute, Same
<1>2. CASE e.strict
  <2> DEFINE d == AgentDetach(e)
             g == [d EXCEPT !.strict = FALSE]
             h == [g EXCEPT !.parked = <<>>]
  <2>1. Fit(s, d, C) /\ Same(e, d)
    BY AgentDetachFits
  <2> HIDE DEF d
  <2>2. d \in EndStates
    BY <2>1 DEF Fit, Shaped
  <2>3. <<>> \in Seq(Frames) /\ ToSet(<<>>) = {}
    BY NoFrame
  <2>4. g \in EndStates
    BY <2>2, Records
  <2>5. h \in EndStates
    BY <2>3, <2>4, Records
  <2>6. ForceCloseRoute(e) = h
    BY <1>2, <2>2 DEF ForceCloseRoute, d, EndStates
  <2>7. Same(d, h) /\ Carried(h) \subseteq Carried(d)
          /\ Held(h) \subseteq Held(d)
    BY <2>2, <2>3 DEF Same, Carried, Held, EndStates
  <2>8. Shaped(h)
    BY <2>1, <2>2, <2>5 DEF Fit, Shaped, EndStates
  <2>9. Backed(h, C)
    BY <2>1, <2>2, <2>7 DEF Fit, Backed, EndStates
  <2>10. Direct(s, h)
    BY <2>1, <2>2 DEF Fit, Direct, Same, EndStates
  <2> QED BY <2>1, <2>6, <2>7, <2>8, <2>9, <2>10 DEF Fit, Same
<1> QED BY <1>1, <1>2

LEMMA DetachFits ==
  ASSUME NEW s \in Sides, NEW C \in SUBSET Upgrades, NEW e, Fit(s, e, C)
  PROVE  Fit(s, Detach(s, e), C) /\ Same(e, Detach(s, e))
BY AppDetachFits, AgentDetachFits DEF Detach

LEMMA AppDispatchFits ==
  ASSUME NEW C \in SUBSET Upgrades, NEW e, Fit("app", e, C),
         NEW q \in Seq(Frames), Tells(e, q), e.prefers /\ e.path # "p2p" => NoBusiness(q)
  PROVE  /\ Fit("app", AppDispatch(e, q), C) /\ Same(e, AppDispatch(e, q))
         /\ AppDispatch(e, q).path = e.path
<1> DEFINE n == Sealed(e, q)
           r == Seal(e, q)
<1>1. e \in EndStates /\ "app" \in Sides
  BY DEF Fit, Shaped, Sides
<1>2. /\ Fit("app", n, C) /\ Same(e, n) /\ r \in Seq(Frames) /\ Tells(n, r)
      /\ NoBusiness(q) => NoBusiness(r)
  BY <1>1, SealedFits
<1>3. n.path = e.path /\ n.tpeer = e.tpeer /\ n.prefers = e.prefers /\ n \in EndStates
  BY <1>1, <1>2 DEF Sealed, Fit, Shaped, EndStates
<1> HIDE DEF n, r
<1>4. CASE e.path = "p2p" /\ e.tpeer # None
  <2>1. AppDispatch(e, q) = OverDirect(n, r)
    BY <1>4 DEF AppDispatch, n, r
  <2>2. Fit("app", OverDirect(n, r), C) /\ Same(n, OverDirect(n, r))
    BY <1>1, <1>2, OverDirectFits
  <2>3. OverDirect(n, r).path = n.path
    BY <1>3 DEF OverDirect, EndStates
  <2> QED BY <1>2, <1>3, <2>1, <2>2, <2>3 DEF Same
<1>5. CASE ~(e.path = "p2p" /\ e.tpeer # None) /\ e.prefers /\ e.path = "p2p"
  <2>1. AppDispatch(e, q) = ForceClose(e)
    BY <1>5 DEF AppDispatch
  <2>2. ForceClose(e).path = e.path
    BY <1>1 DEF ForceClose, EndStates
  <2> QED BY <1>1, <2>1, <2>2, ForceCloseFits
<1>6. CASE ~(e.path = "p2p" /\ e.tpeer # None) /\ ~(e.prefers /\ e.path = "p2p")
  <2>1. AppDispatch(e, q) = OverRelay(n, r)
    BY <1>6 DEF AppDispatch, n, r
  <2>2. n.prefers => NoBusiness(r)
    BY <1>2, <1>3, <1>6
  <2>3. Fit("app", OverRelay(n, r), C) /\ Same(n, OverRelay(n, r))
    BY <1>1, <1>2, <2>2, OverRelayFits
  <2>4. OverRelay(n, r).path = n.path
    BY <1>3 DEF OverRelay, EndStates
  <2> QED BY <1>2, <1>3, <2>1, <2>3, <2>4 DEF Same
<1> QED BY <1>4, <1>5, <1>6

LEMMA AgentDispatchFits ==
  ASSUME NEW C \in SUBSET Upgrades, NEW e, Fit("agent", e, C),
         NEW q \in Seq(Frames), Tells(e, q), q # <<>>
  PROVE  Fit("agent", AgentDispatch(e, q), C) /\ Same(e, AgentDispatch(e, q))
<1>0. "agent" \in Sides
  BY DEF Sides
<1>1. CASE e.path = "p2p" /\ e.tpeer # None
  BY <1>0, <1>1, OverDirectFits DEF AgentDispatch
<1>2. CASE ~(e.path = "p2p" /\ e.tpeer # None) /\ e.strict
  <2> DEFINE c == ForceCloseRoute(e)
  <2>1. Fit("agent", c, C) /\ Same(e, c)
    BY <1>0, ForceCloseRouteFits
  <2>2. Tail(q) \in Seq(Frames) /\ Tells(c, Tail(q))
    BY <2>1, Taken DEF Tells, Same
  <2>3. AgentDispatch(e, q) = OverRelay(c, Tail(q))
    BY <1>2 DEF AgentDispatch
  <2> HIDE DEF c
  <2>4. Fit("agent", OverRelay(c, Tail(q)), C) /\ Same(c, OverRelay(c, Tail(q)))
    BY <1>0, <2>1, <2>2, OverRelayFits
  <2> QED BY <2>1, <2>3, <2>4 DEF Same
<1>3. CASE ~(e.path = "p2p" /\ e.tpeer # None) /\ ~e.strict
  BY <1>0, <1>3, OverRelayFits DEF AgentDispatch
<1> QED BY <1>1, <1>2, <1>3

LEMMA DispatchAllFits ==
  ASSUME NEW s \in Sides, NEW C \in SUBSET Upgrades, NEW e, Fit(s, e, C),
         NEW q \in Seq(Frames), Tells(e, q), s = "app" /\ e.prefers => e.path = "p2p"
  PROVE  /\ Fit(s, DispatchAll(s, e, q), C) /\ Same(e, DispatchAll(s, e, q))
         /\ s = "app" => DispatchAll(s, e, q).path = e.path
<1>1. CASE q = <<>> \/ e.ended # "no"
  BY <1>1 DEF DispatchAll, Same
<1>2. CASE ~(q = <<>> \/ e.ended # "no") /\ s = "app"
  BY <1>2, AppDispatchFits DEF DispatchAll
<1>3. CASE ~(q = <<>> \/ e.ended # "no") /\ s = "agent"
  BY <1>3, AgentDispatchFits DEF DispatchAll
<1> QED BY <1>1, <1>2, <1>3 DEF Sides

LEMMA ParkedFits ==
  ASSUME NEW s \in Sides, NEW C \in SUBSET Upgrades, NEW e, Fit(s, e, C),
         NEW q \in Seq(Frames), Tells(e, q),
         NEW p \in Seq(Frames), ToSet(p) \subseteq ToSet(e.parked) \cup ToSet(q)
  PROVE  Fit(s, [e EXCEPT !.parked = p], C) /\ Same(e, [e EXCEPT !.parked = p])
<1> DEFINE f == [e EXCEPT !.parked = p]
<1>1. e \in EndStates
  BY DEF Fit, Shaped
<1>2. f \in EndStates
  BY <1>1, Records
<1>3. Same(e, f) /\ Carried(f) \subseteq Carried(e) \cup ToSet(q)
        /\ Held(f) \subseteq Held(e) \cup ToSet(q)
  <2>1. Same(e, f) /\ f.relay = e.relay /\ f.direct = e.direct /\ f.outQ = e.outQ /\ f.parked = p
    BY <1>1 DEF Same, EndStates
  <2>2. UNION {ToSet(f.direct[u]) : u \in Upgrades} = UNION {ToSet(e.direct[u]) : u \in Upgrades}
    BY <2>1
  <2> HIDE DEF f
  <2>3. ASSUME NEW x \in Held(f) PROVE x \in Held(e) \cup ToSet(q)
    BY <2>1, <2>2 DEF Held
  <2> QED BY <2>1, <2>3 DEF Carried
<1>4. Shaped(f)
  BY <1>1, <1>2 DEF Fit, Shaped, EndStates
<1>5. Backed(f, C)
  <2>1. /\ f.local = e.local /\ f.remote = e.remote /\ f.up = e.up /\ f.tpeer = e.tpeer
        /\ f.commits = e.commits
    BY <1>1 DEF EndStates
  <2> HIDE DEF f
  <2> QED BY <1>3, <2>1, StillBacked DEF Fit
<1>6. Direct(s, f)
  BY <1>1 DEF Fit, Direct, EndStates
<1> QED BY <1>3, <1>4, <1>5, <1>6 DEF Fit

LEMMA QueuedFits ==
  ASSUME NEW s \in Sides, NEW C \in SUBSET Upgrades, NEW e, Fit(s, e, C),
         NEW q \in Seq(Frames), Tells(e, q),
         NEW p \in Seq(Frames), ToSet(p) \subseteq ToSet(e.outQ) \cup ToSet(q), e.queueing
  PROVE  Fit(s, [e EXCEPT !.outQ = p], C) /\ Same(e, [e EXCEPT !.outQ = p])
<1> DEFINE f == [e EXCEPT !.outQ = p]
<1>1. e \in EndStates
  BY DEF Fit, Shaped
<1>2. f \in EndStates
  BY <1>1, Records
<1>3. Same(e, f) /\ Carried(f) \subseteq Carried(e) \cup ToSet(q)
        /\ Held(f) \subseteq Held(e) \cup ToSet(q)
  <2>1. Same(e, f) /\ f.relay = e.relay /\ f.direct = e.direct /\ f.parked = e.parked /\ f.outQ = p
    BY <1>1 DEF Same, EndStates
  <2>2. UNION {ToSet(f.direct[u]) : u \in Upgrades} = UNION {ToSet(e.direct[u]) : u \in Upgrades}
    BY <2>1
  <2> HIDE DEF f
  <2>3. ASSUME NEW x \in Held(f) PROVE x \in Held(e) \cup ToSet(q)
    BY <2>1, <2>2 DEF Held
  <2> QED BY <2>1, <2>3 DEF Carried
<1>4. Shaped(f)
  BY <1>1, <1>2 DEF Fit, Shaped, EndStates
<1>5. Backed(f, C)
  <2>1. /\ f.local = e.local /\ f.remote = e.remote /\ f.up = e.up /\ f.tpeer = e.tpeer
        /\ f.commits = e.commits
    BY <1>1 DEF EndStates
  <2> HIDE DEF f
  <2> QED BY <1>3, <2>1, StillBacked DEF Fit
<1>6. Direct(s, f)
  BY <1>1 DEF Fit, Direct, EndStates
<1> QED BY <1>3, <1>4, <1>5, <1>6 DEF Fit

-----------------------------------------------------------------------------
(* Sending.                                                                *)

LEMMA FrameTyped ==
  /\ \A u \in Upgrades \cup {None}, k \in Kinds : Control(k, u) \in Frames
  /\ \A n \in Nat : Business(n) \in Frames
BY DEF Control, Business, Frames, Kinds

LEMMA AppSendFits ==
  ASSUME NEW C \in SUBSET Upgrades, NEW e, Fit("app", e, C),
         NEW m \in Frames, m.kind = "business"
  PROVE  Fit("app", AppSend(e, m), C) /\ Same(e, AppSend(e, m))
<1>1. e \in EndStates /\ "app" \in Sides
  BY DEF Fit, Shaped, Sides
<1> DEFINE one == <<m>>
           p == Append(e.parked, m)
           o == Append(e.outQ, m)
<1>2. one \in Seq(Frames) /\ ToSet(one) = {m}
  BY OneFrame
<1>3. Tells(e, one)
  BY <1>2 DEF Tells
<1>4. /\ p \in Seq(Frames) /\ ToSet(p) = ToSet(e.parked) \cup {m}
      /\ o \in Seq(Frames) /\ ToSet(o) = ToSet(e.outQ) \cup {m}
  BY <1>1, Parts, Added
<1>5. CASE e.prefers /\ e.path # "p2p"
  <2>1. AppSend(e, m) = [e EXCEPT !.parked = p]
    BY <1>5 DEF AppSend
  <2> HIDE DEF one, p
  <2>2. ToSet(p) \subseteq ToSet(e.parked) \cup ToSet(one)
    BY <1>2, <1>4
  <2>3. Fit("app", [e EXCEPT !.parked = p], C) /\ Same(e, [e EXCEPT !.parked = p])
    BY <1>1, <1>2, <1>3, <1>4, <2>2, ParkedFits
  <2> QED BY <2>1, <2>3
<1>6. CASE ~(e.prefers /\ e.path # "p2p") /\ e.queueing
  <2>1. AppSend(e, m) = [e EXCEPT !.outQ = o]
    BY <1>6 DEF AppSend
  <2> HIDE DEF one, o
  <2>2. ToSet(o) \subseteq ToSet(e.outQ) \cup ToSet(one)
    BY <1>2, <1>4
  <2>3. Fit("app", [e EXCEPT !.outQ = o], C) /\ Same(e, [e EXCEPT !.outQ = o])
    BY <1>1, <1>2, <1>3, <1>4, <1>6, <2>2, QueuedFits
  <2> QED BY <2>1, <2>3
<1>7. CASE ~(e.prefers /\ e.path # "p2p") /\ ~e.queueing
  <2>1. AppSend(e, m) = AppDispatch(e, one)
    BY <1>7 DEF AppSend
  <2> HIDE DEF one
  <2> QED BY <1>2, <1>3, <1>7, <2>1, AppDispatchFits
<1> QED BY <1>5, <1>6, <1>7

LEMMA AgentSendFits ==
  ASSUME NEW C \in SUBSET Upgrades, NEW e, Fit("agent", e, C),
         NEW m \in Frames, m.kind # "propose",
         m.kind = "committed" => m.up \in e.commits, NEW bypass \in BOOLEAN
  PROVE  Fit("agent", AgentSend(e, m, bypass), C) /\ Same(e, AgentSend(e, m, bypass))
<1> DEFINE one == <<m>>
           q == Seal(e, one)
           n == Sealed(e, one)
<1>1. e \in EndStates /\ "agent" \in Sides
  BY DEF Fit, Shaped, Sides
<1>2. one \in Seq(Frames) /\ ToSet(one) = {m} /\ Len(one) = 1
  BY OneFrame
<1> HIDE DEF one
<1>4. Tells(e, one)
  BY <1>2 DEF Tells
<1>5. /\ Fit("agent", n, C) /\ Same(e, n) /\ q \in Seq(Frames) /\ Tells(n, q)
      /\ n = [e EXCEPT !.tx = n.tx]
  <2>1. one \in Seq(Frames) /\ Tells(e, one) /\ "agent" \in Sides /\ Fit("agent", e, C)
    BY <1>1, <1>2, <1>4
  <2> QED BY <2>1, SealedFits
<1>6. Len(q) = 1 /\ n \in EndStates
  BY <1>1, <1>2, <1>5, SealTyped DEF Fit, Shaped
<1> HIDE DEF n, q
<1>7. q # <<>>
  BY <1>6
<1>8. e.queueing = n.queueing
  BY <1>1, <1>5 DEF EndStates
<1>9. /\ n.parked \o q \in Seq(Frames) /\ ToSet(n.parked \o q) = ToSet(n.parked) \cup ToSet(q)
      /\ n.outQ \o q \in Seq(Frames) /\ ToSet(n.outQ \o q) = ToSet(n.outQ) \cup ToSet(q)
  BY <1>5, <1>6, Parts, Joined
<1>10. CASE e.strict /\ e.path # "p2p" /\ ~bypass
  <2>1. AgentSend(e, m, bypass) = [n EXCEPT !.parked = n.parked \o q]
    BY <1>10 DEF AgentSend, n, q, one
  <2>2. Fit("agent", [n EXCEPT !.parked = n.parked \o q], C)
          /\ Same(n, [n EXCEPT !.parked = n.parked \o q])
    BY <1>1, <1>5, <1>9, ParkedFits
  <2> QED BY <1>5, <2>1, <2>2 DEF Same
<1>11. CASE ~(e.strict /\ e.path # "p2p" /\ ~bypass) /\ e.queueing
  <2>1. AgentSend(e, m, bypass) = [n EXCEPT !.outQ = n.outQ \o q]
    BY <1>11 DEF AgentSend, n, q, one
  <2>2. Fit("agent", [n EXCEPT !.outQ = n.outQ \o q], C)
          /\ Same(n, [n EXCEPT !.outQ = n.outQ \o q])
    BY <1>1, <1>5, <1>8, <1>9, <1>11, QueuedFits
  <2> QED BY <1>5, <2>1, <2>2 DEF Same
<1>12. CASE ~(e.strict /\ e.path # "p2p" /\ ~bypass) /\ ~e.queueing /\ bypass /\ e.path # "p2p"
  <2>1. AgentSend(e, m, bypass) = OverRelay(n, q)
    BY <1>12 DEF AgentSend, n, q, one
  <2>2. Fit("agent", OverRelay(n, q), C) /\ Same(n, OverRelay(n, q))
    BY <1>1, <1>5, OverRelayFits
  <2> QED BY <1>5, <2>1, <2>2 DEF Same
<1>13. CASE ~(e.strict /\ e.path # "p2p" /\ ~bypass) /\ ~e.queueing /\ ~(bypass /\ e.path # "p2p")
  <2>1. AgentSend(e, m, bypass) = AgentDispatch(n, q)
    BY <1>13 DEF AgentSend, n, q, one
  <2>2. Fit("agent", AgentDispatch(n, q), C) /\ Same(n, AgentDispatch(n, q))
    BY <1>5, <1>7, AgentDispatchFits
  <2> QED BY <1>5, <2>1, <2>2 DEF Same
<1> QED BY <1>10, <1>11, <1>12, <1>13

LEMMA SendControlFits ==
  ASSUME NEW s \in Sides, NEW C \in SUBSET Upgrades, NEW e, Fit(s, e, C),
         NEW k \in Kinds \ {"business", "propose"}, k = "committed" => e.up \in e.commits
  PROVE  Fit(s, SendControl(s, e, k), C) /\ Same(e, SendControl(s, e, k))
<1> DEFINE m == Control(k, e.up)
<1>1. e \in EndStates
  BY DEF Fit, Shaped
<1>2. m \in Frames /\ m.kind = k /\ m.up = e.up
  BY <1>1, FrameTyped, Parts DEF Control
<1> HIDE DEF m
<1>3. CASE s = "app"
  <2> DEFINE q == <<m>>
  <2>1. <<m>> \in Seq(Frames) /\ ToSet(<<m>>) = {m}
    BY <1>2, OneFrame
  <2>2. q \in Seq(Frames) /\ Tells(e, q) /\ NoBusiness(q)
    BY <1>2, <2>1 DEF Tells, NoBusiness
  <2>3. SendControl(s, e, k) = OverRelay(Sealed(e, q), Seal(e, q))
    BY <1>3 DEF SendControl, m
  <2> HIDE DEF q
  <2>4. /\ Fit(s, Sealed(e, q), C) /\ Same(e, Sealed(e, q)) /\ Seal(e, q) \in Seq(Frames)
        /\ Tells(Sealed(e, q), Seal(e, q)) /\ NoBusiness(Seal(e, q))
    BY <2>2, SealedFits
  <2>5. Fit(s, OverRelay(Sealed(e, q), Seal(e, q)), C)
          /\ Same(Sealed(e, q), OverRelay(Sealed(e, q), Seal(e, q)))
    BY <2>4, OverRelayFits
  <2> QED BY <2>3, <2>4, <2>5 DEF Same
<1>4. CASE s = "agent"
  <2>1. SendControl(s, e, k) = AgentSend(e, m, TRUE)
    BY <1>4 DEF SendControl, m
  <2> QED BY <1>2, <1>4, <2>1, AgentSendFits
<1> QED BY <1>3, <1>4 DEF Sides

\* An operation that puts nothing on a path.
Quiet(s, e, f, C) ==
  /\ Shaped(f) /\ f.commits = e.commits /\ f.prefers = e.prefers
  /\ f.relay = e.relay /\ f.direct = e.direct
  /\ f.outQ \in {e.outQ, <<>>} /\ f.parked \in {e.parked, <<>>}
  /\ f.local => f.up \in e.commits
  /\ f.remote => f.up \in C
  /\ f.tpeer # None => f.tpeer \in e.commits \cap C
  /\ s = "app" /\ e.prefers =>
       f.strict = e.strict /\ \A i \in 1..Len(f.drains) : f.drains[i] = "p2p"

LEMMA QuietFits ==
  ASSUME NEW s \in Sides, NEW C \in SUBSET Upgrades, NEW e, Fit(s, e, C),
         NEW f, Quiet(s, e, f, C)
  PROVE  Fit(s, f, C)
<1>1. ToSet(<<>>) = {}
  BY NoFrame
<1>2. ToSet(f.outQ) \subseteq ToSet(e.outQ) /\ ToSet(f.parked) \subseteq ToSet(e.parked)
  BY <1>1 DEF Quiet
<1>3. UNION {ToSet(f.direct[u]) : u \in Upgrades} = UNION {ToSet(e.direct[u]) : u \in Upgrades}
  BY DEF Quiet
<1>4. Carried(f) \subseteq Carried(e)
        /\ Held(f) \subseteq Held(e)
  BY <1>2, <1>3 DEF Carried, Held, Quiet
<1>5. Backed(f, C)
  BY <1>4 DEF Fit, Backed, Quiet
<1>6. Direct(s, f)
  BY DEF Fit, Direct, Quiet
<1> QED BY <1>5, <1>6 DEF Fit, Quiet

LEMMA SendBusinessFits ==
  ASSUME NEW s \in Sides, NEW C \in SUBSET Upgrades, NEW e, Fit(s, e, C)
  PROVE  /\ Fit(s, SendBusiness(s, e), C)
         /\ Same([e EXCEPT !.accepted = @ + 1], SendBusiness(s, e))
         /\ SendBusiness(s, e).commits = e.commits /\ SendBusiness(s, e).prefers = e.prefers
<1> DEFINE k == e.accepted + 1
           n == [e EXCEPT !.accepted = k]
           m == Business(n.accepted)
<1>1. e \in EndStates
  BY DEF Fit, Shaped
<1>2. k \in Nat
  BY <1>1, Parts
<1> HIDE DEF k
<1>3. n \in EndStates
  BY <1>1, <1>2, Records
<1>4. n.accepted = k
  BY <1>1 DEF EndStates
<1>5. m \in Frames /\ m.kind = "business"
  BY <1>2, <1>4, FrameTyped DEF Business
<1>6. Shaped(n)
  BY <1>1, <1>3 DEF Fit, Shaped, EndStates
<1>7. /\ n.commits = e.commits /\ n.prefers = e.prefers /\ n.relay = e.relay
      /\ n.direct = e.direct /\ n.outQ = e.outQ /\ n.parked = e.parked
      /\ n.local = e.local /\ n.remote = e.remote /\ n.up = e.up /\ n.tpeer = e.tpeer
      /\ n.strict = e.strict /\ n.drains = e.drains
  BY <1>1 DEF EndStates
<1> HIDE DEF n, m
<1>8. Fit(s, n, C)
  <2>1. Quiet(s, e, n, C)
    BY <1>6, <1>7 DEF Quiet, Fit, Backed, Direct, Same
  <2> QED BY <2>1, QuietFits
<1>9. CASE s = "app"
  <2>1. SendBusiness(s, e) = AppSend(n, m)
    BY <1>9 DEF SendBusiness, n, m, k
  <2>2. Fit(s, AppSend(n, m), C) /\ Same(n, AppSend(n, m))
    BY <1>5, <1>8, <1>9, AppSendFits
  <2> QED BY <1>7, <2>1, <2>2 DEF Same, n, k
<1>10. CASE s = "agent"
  <2>1. SendBusiness(s, e) = AgentSend(n, m, FALSE)
    BY <1>10 DEF SendBusiness, n, m, k
  <2>2. Fit(s, AgentSend(n, m, FALSE), C) /\ Same(n, AgentSend(n, m, FALSE))
    BY <1>5, <1>8, <1>10, AgentSendFits
  <2> QED BY <1>7, <2>1, <2>2 DEF Same, n, k
<1> QED BY <1>9, <1>10 DEF Sides

-----------------------------------------------------------------------------
(* Switching, and the coordinator.                                         *)

LEMMA SwitchPathFits ==
  ASSUME NEW s \in Sides, NEW C \in SUBSET Upgrades, NEW e, Fit(s, e, C),
         NEW target \in Paths, s = "app" /\ e.prefers => target = "p2p"
  PROVE  Fit(s, SwitchPath(e, target), C) /\ Same(e, SwitchPath(e, target))
<1>1. CASE SwitchRefused(e, target)
  BY <1>1 DEF SwitchPath, Same
<1>2. CASE ~SwitchRefused(e, target)
  <2> DEFINE d == Append(e.drains, target)
             a == [e EXCEPT !.switching = TRUE]
             b == [a EXCEPT !.queueing = TRUE]
             c == [b EXCEPT !.outQ = <<>>]
             f == [c EXCEPT !.drains = d]
  <2>1. e \in EndStates
    BY DEF Fit, Shaped
  <2>2. d \in Seq(Paths)
    BY <2>1, Parts
  <2>3. s = "app" /\ e.prefers => \A i \in 1..Len(d) : d[i] = "p2p"
    <3> SUFFICES ASSUME s = "app", e.prefers, NEW i \in 1..Len(d) PROVE d[i] = "p2p"
      OBVIOUS
    <3>1. target = "p2p" /\ \A j \in 1..Len(e.drains) : e.drains[j] = "p2p"
      BY DEF Fit, Direct
    <3> QED BY <2>1, <3>1, Parts
  <2>4. SwitchPath(e, target) = f
    BY <1>2, <2>1 DEF SwitchPath, EndStates
  <2> HIDE DEF d
  <2>5. <<>> \in Seq(Frames)
    BY NoFrame
  <2>6. a \in EndStates
    BY <2>1, Records
  <2>7. b \in EndStates
    BY <2>6, Records
  <2>8. c \in EndStates
    BY <2>5, <2>7, Records
  <2>9. f \in EndStates
    BY <2>2, <2>8, Records
  <2>10. /\ Same(e, f) /\ f.relay = e.relay /\ f.direct = e.direct /\ f.outQ = <<>>
         /\ f.parked = e.parked /\ f.local = e.local /\ f.remote = e.remote /\ f.up = e.up
         /\ f.tpeer = e.tpeer /\ f.strict = e.strict /\ f.drains = d /\ f.queueing = TRUE
         /\ f.switching = TRUE /\ f.st = e.st /\ f.peer = e.peer
    BY <2>1 DEF Same, EndStates
  <2> HIDE DEF f
  <2>11. Shaped(f)
    BY <2>9, <2>10 DEF Fit, Shaped
  <2>12. Fit(s, f, C)
    <3>1. Quiet(s, e, f, C)
      BY <2>3, <2>10, <2>11 DEF Quiet, Fit, Backed, Direct, Same
    <3> QED BY <3>1, QuietFits
  <2> QED BY <2>4, <2>10, <2>12
<1> QED BY <1>1, <1>2

LEMMA ClosePeerFits ==
  ASSUME NEW s \in Sides, NEW C \in SUBSET Upgrades, NEW e, Fit(s, e, C)
  PROVE  /\ Fit(s, ClosePeer(e), C) /\ Same(e, ClosePeer(e))
         /\ ClosePeer(e).peer = None
<1> DEFINE alive == e.alive \ {e.peer}
           a == [e EXCEPT !.alive = alive]
           f == [a EXCEPT !.peer = None]
<1>1. e \in EndStates
  BY DEF Fit, Shaped
<1>2. alive \in SUBSET Upgrades
  BY <1>1, Parts
<1>3. ClosePeer(e) = f
  BY <1>1 DEF ClosePeer, EndStates
<1> HIDE DEF alive
<1>4. a \in EndStates
  BY <1>1, <1>2, Records
<1>5. f \in EndStates
  BY <1>4, Records
<1>6. /\ Same(e, f) /\ f.relay = e.relay /\ f.direct = e.direct /\ f.outQ = e.outQ
      /\ f.parked = e.parked /\ f.local = e.local /\ f.remote = e.remote /\ f.up = e.up
      /\ f.tpeer = e.tpeer /\ f.strict = e.strict /\ f.drains = e.drains
      /\ f.queueing = e.queueing /\ f.switching = e.switching /\ f.st = e.st /\ f.peer = None
  BY <1>1 DEF Same, EndStates
<1> HIDE DEF f
<1>7. Shaped(f)
  BY <1>5, <1>6 DEF Fit, Shaped
<1>8. Fit(s, f, C)
  <2>1. Quiet(s, e, f, C)
    BY <1>6, <1>7 DEF Quiet, Fit, Backed, Direct, Same
  <2> QED BY <2>1, QuietFits
<1> QED BY <1>3, <1>6, <1>8

LEMMA ResetToIdleFits ==
  ASSUME NEW s \in Sides, NEW C \in SUBSET Upgrades, NEW e, Fit(s, e, C), e.peer = None
  PROVE  Fit(s, ResetToIdle(e), C) /\ Same(e, ResetToIdle(e))
<1> DEFINE a == [e EXCEPT !.st = "idle"]
           b == [a EXCEPT !.up = None]
           c == [b EXCEPT !.local = FALSE]
           d == [c EXCEPT !.remote = FALSE]
           f == [d EXCEPT !.sdp = "none"]
<1>1. e \in EndStates
  BY DEF Fit, Shaped
<1>2. ResetToIdle(e) = f
  BY <1>1 DEF ResetToIdle, EndStates
<1>3. a \in EndStates
  BY <1>1, Records DEF CoordinatorStates
<1>4. b \in EndStates
  BY <1>3, Records
<1>5. c \in EndStates
  BY <1>4, Records
<1>6. d \in EndStates
  BY <1>5, Records
<1>7. f \in EndStates
  BY <1>6, Records
<1>8. /\ Same(e, f) /\ f.relay = e.relay /\ f.direct = e.direct /\ f.outQ = e.outQ
      /\ f.parked = e.parked /\ f.local = FALSE /\ f.remote = FALSE /\ f.up = None
      /\ f.tpeer = e.tpeer /\ f.strict = e.strict /\ f.drains = e.drains
      /\ f.queueing = e.queueing /\ f.switching = e.switching /\ f.st = "idle" /\ f.peer = e.peer
  BY <1>1 DEF Same, EndStates
<1> HIDE DEF f
<1>9. Shaped(f)
  BY <1>7, <1>8 DEF Fit, Shaped
<1>10. Fit(s, f, C)
  <2>1. Quiet(s, e, f, C)
    BY <1>8, <1>9 DEF Quiet, Fit, Backed, Direct, Same
  <2> QED BY <2>1, QuietFits
<1> QED BY <1>2, <1>8, <1>10

LEMMA KeepsPeer ==
  ASSUME NEW e \in EndStates, NEW target \in Paths
  PROVE  /\ SwitchPath(e, target).peer = e.peer
         /\ AgentDetach(e).peer = e.peer /\ AppDetach(e).peer = e.peer
<1>1. AgentDetach(e).peer = e.peer /\ AppDetach(e).peer = e.peer
  BY DEF AgentDetach, AppDetach, EndStates
<1>2. SwitchPath(e, target).peer = e.peer
  <2>1. CASE SwitchRefused(e, target)
    BY <2>1 DEF SwitchPath
  <2>2. CASE ~SwitchRefused(e, target)
    BY <2>2 DEF SwitchPath, EndStates
  <2> QED BY <2>1, <2>2
<1> QED BY <1>1, <1>2

LEMMA ToRelayFits ==
  ASSUME NEW s \in Sides, NEW C \in SUBSET Upgrades, NEW e, Fit(s, e, C),
         s = "app" => ~e.prefers
  PROVE  /\ Fit(s, OnSwitchPath(s, e, "relay"), C) /\ Same(e, OnSwitchPath(s, e, "relay"))
         /\ OnSwitchPath(s, e, "relay").peer = e.peer
<1> DEFINE d == IF s = "agent" THEN AgentDetach(e) ELSE e
<1>1. e \in EndStates /\ "relay" \in Paths
  BY DEF Fit, Shaped, Paths
<1>2. Fit(s, d, C) /\ Same(e, d) /\ d.peer = e.peer
  <2>1. CASE s = "agent"
    BY <1>1, <2>1, AgentDetachFits, KeepsPeer
  <2>2. CASE s # "agent"
    BY <2>2 DEF Same
  <2> QED BY <2>1, <2>2
<1>3. OnSwitchPath(s, e, "relay") = SwitchPath(d, "relay")
  BY DEF OnSwitchPath
<1> HIDE DEF d
<1>4. d \in EndStates /\ (s = "app" => ~d.prefers)
  BY <1>2 DEF Fit, Shaped, Same
<1>5. Fit(s, SwitchPath(d, "relay"), C) /\ Same(d, SwitchPath(d, "relay"))
  BY <1>1, <1>2, <1>4, SwitchPathFits
<1>6. SwitchPath(d, "relay").peer = d.peer
  BY <1>1, <1>4, KeepsPeer
<1> QED BY <1>2, <1>3, <1>5, <1>6 DEF Same

LEMMA ToDirectFits ==
  ASSUME NEW s \in Sides, NEW C \in SUBSET Upgrades, NEW e, Fit(s, e, C),
         e.local, e.remote
  PROVE  Fit(s, OnSwitchPath(s, e, "p2p"), C) /\ Same(e, OnSwitchPath(s, e, "p2p"))
<1> DEFINE c == Detach(s, e)
           a == [c EXCEPT !.tpeer = e.peer]
           d == IF e.peer = None THEN e ELSE a
<1>1. e \in EndStates /\ "p2p" \in Paths
  BY DEF Fit, Shaped, Paths
<1>2. Fit(s, c, C) /\ Same(e, c)
  BY DetachFits
<1>3. Fit(s, a, C) /\ Same(e, a)
  <2>1. c \in EndStates /\ e.peer \in Upgrades \cup {None}
    BY <1>1, <1>2, Parts DEF Fit, Shaped
  <2>2. e.peer # None => e.peer \in e.commits \cap C
    BY DEF Fit, Shaped, Backed
  <2>3. a \in EndStates
    BY <2>1, Records
  <2> HIDE DEF c
  <2>4. /\ Same(c, a) /\ a.relay = c.relay /\ a.direct = c.direct /\ a.outQ = c.outQ
        /\ a.parked = c.parked /\ a.local = c.local /\ a.remote = c.remote /\ a.up = c.up
        /\ a.tpeer = e.peer /\ a.strict = c.strict /\ a.drains = c.drains
        /\ a.queueing = c.queueing /\ a.switching = c.switching /\ a.st = c.st /\ a.peer = c.peer
    BY <2>1 DEF Same, EndStates
  <2> HIDE DEF a
  <2>5. Shaped(a)
    BY <1>2, <2>3, <2>4 DEF Fit, Shaped
  <2>6. Fit(s, a, C)
    <3>1. Quiet(s, c, a, C)
      BY <1>2, <2>2, <2>4, <2>5 DEF Quiet, Fit, Backed, Direct, Same
    <3> QED BY <1>2, <3>1, QuietFits
  <2> QED BY <1>2, <2>4, <2>6 DEF Same
<1>4. OnSwitchPath(s, e, "p2p") = SwitchPath(d, "p2p")
  BY DEF OnSwitchPath
<1> HIDE DEF a
<1>5. Fit(s, d, C) /\ Same(e, d)
  BY <1>3 DEF Same
<1> HIDE DEF d
<1>6. Fit(s, SwitchPath(d, "p2p"), C) /\ Same(d, SwitchPath(d, "p2p"))
  BY <1>1, <1>5, SwitchPathFits
<1> QED BY <1>4, <1>5, <1>6 DEF Same

LEMMA DowngradeFits ==
  ASSUME NEW s \in Sides, NEW C \in SUBSET Upgrades, NEW e, Fit(s, e, C)
  PROVE  Fit(s, Downgrade(s, e), C) /\ Same(e, Downgrade(s, e))
<1>1. CASE e.st = "idle"
  BY <1>1 DEF Downgrade, Same
<1>2. CASE e.st # "idle"
  <2> DEFINE told == SendControl(s, e, "downgrade")
             shut == ClosePeer(told)
  <2>1. "downgrade" \in Kinds \ {"business", "propose"}
    BY DEF Kinds
  <2>2. Fit(s, told, C) /\ Same(e, told)
    BY <2>1, SendControlFits
  <2> HIDE DEF told
  <2>3. Fit(s, shut, C) /\ Same(told, shut) /\ shut.peer = None
    BY <2>2, ClosePeerFits
  <2>4. Downgrade(s, e) =
          IF ~e.prefers THEN ResetToIdle(OnSwitchPath(s, shut, "relay"))
          ELSE IF s = "app" THEN ForceClose(ResetToIdle(shut))
          ELSE ForceCloseRoute(ResetToIdle(shut))
    BY <1>2 DEF Downgrade, told
  <2> HIDE DEF shut
  <2>5. Same(e, shut)
    BY <2>2, <2>3 DEF Same
  <2>6. CASE ~e.prefers
    <3> DEFINE g == OnSwitchPath(s, shut, "relay")
    <3>1. Fit(s, g, C) /\ Same(shut, g) /\ g.peer = None
      BY <2>3, <2>5, <2>6, ToRelayFits DEF Same
    <3>2. Downgrade(s, e) = ResetToIdle(g)
      BY <2>4, <2>6
    <3> HIDE DEF g
    <3>3. Fit(s, ResetToIdle(g), C) /\ Same(g, ResetToIdle(g))
      BY <3>1, ResetToIdleFits
    <3> QED BY <2>5, <3>1, <3>2, <3>3 DEF Same
  <2>7. CASE e.prefers
    <3> DEFINE g == ResetToIdle(shut)
    <3>1. Fit(s, g, C) /\ Same(shut, g)
      BY <2>3, ResetToIdleFits
    <3>2. Downgrade(s, e) = IF s = "app" THEN ForceClose(g) ELSE ForceCloseRoute(g)
      BY <2>4, <2>7
    <3> HIDE DEF g
    <3>3. Fit(s, ForceClose(g), C) /\ Same(g, ForceClose(g))
      BY <3>1, ForceCloseFits
    <3>4. s # "app" => Fit(s, ForceCloseRoute(g), C) /\ Same(g, ForceCloseRoute(g))
      BY <3>1, ForceCloseRouteFits
    <3> QED BY <2>5, <3>1, <3>2, <3>3, <3>4 DEF Same
  <2> QED BY <2>6, <2>7
<1> QED BY <1>1, <1>2

LEMMA MaybeUpgradeFits ==
  ASSUME NEW s \in Sides, NEW C \in SUBSET Upgrades, NEW e, Fit(s, e, C), e.up # None
  PROVE  Fit(s, MaybeUpgrade(s, e), C) /\ Same(e, MaybeUpgrade(s, e))
<1>1. CASE ~(e.local /\ e.remote)
  BY <1>1 DEF MaybeUpgrade, Same
<1>2. CASE e.local /\ e.remote
  <2> DEFINE f == [e EXCEPT !.st = "upgraded"]
  <2>1. e \in EndStates
    BY DEF Fit, Shaped
  <2>2. f \in EndStates
    BY <2>1, Records DEF CoordinatorStates
  <2>3. /\ Same(e, f) /\ f.relay = e.relay /\ f.direct = e.direct /\ f.outQ = e.outQ
        /\ f.parked = e.parked /\ f.local = e.local /\ f.remote = e.remote /\ f.up = e.up
        /\ f.tpeer = e.tpeer /\ f.strict = e.strict /\ f.drains = e.drains
        /\ f.queueing = e.queueing /\ f.switching = e.switching /\ f.st = "upgraded"
        /\ f.peer = e.peer
    BY <2>1 DEF Same, EndStates
  <2>4. MaybeUpgrade(s, e) = OnSwitchPath(s, f, "p2p")
    BY <1>2 DEF MaybeUpgrade
  <2> HIDE DEF f
  <2>5. Shaped(f)
    BY <2>2, <2>3 DEF Fit, Shaped
  <2>6. Fit(s, f, C)
    <3>1. Quiet(s, e, f, C)
      BY <2>3, <2>5 DEF Quiet, Fit, Backed, Direct, Same
    <3> QED BY <3>1, QuietFits
  <2>7. Fit(s, OnSwitchPath(s, f, "p2p"), C) /\ Same(f, OnSwitchPath(s, f, "p2p"))
    BY <1>2, <2>3, <2>6, ToDirectFits
  <2> QED BY <2>3, <2>4, <2>7 DEF Same
<1> QED BY <1>1, <1>2

LEMMA HandleProposeFits ==
  ASSUME NEW s \in Sides, NEW C \in SUBSET Upgrades, NEW e, Fit(s, e, C), NEW u \in Upgrades
  PROVE  Fit(s, HandlePropose(s, e, u), C) /\ Same(e, HandlePropose(s, e, u))
<1> DEFINE a == [e EXCEPT !.strict = e.prefers]
           b == [a EXCEPT !.parked = <<>>]
           c == Configured(s, e)
           d == [c EXCEPT !.st = "proposed"]
           f == [d EXCEPT !.up = u]
<1>1. e \in EndStates
  BY DEF Fit, Shaped
<1>2. Fit(s, c, C) /\ Same(e, c)
  <2>1. CASE s = "agent"
    <3>1. c = b
      BY <1>1, <2>1 DEF Configured, EndStates
    <3>2. a \in EndStates
      BY <1>1, Parts, Records
    <3>3. <<>> \in Seq(Frames)
      BY NoFrame
    <3>4. b \in EndStates
      BY <3>2, <3>3, Records
    <3>5. /\ Same(e, b) /\ b.relay = e.relay /\ b.direct = e.direct /\ b.outQ = e.outQ
          /\ b.parked = <<>> /\ b.local = e.local /\ b.remote = e.remote /\ b.up = e.up
          /\ b.tpeer = e.tpeer /\ b.drains = e.drains
          /\ b.queueing = e.queueing /\ b.switching = e.switching /\ b.st = e.st
          /\ b.peer = e.peer
      BY <1>1 DEF Same, EndStates
    <3> HIDE DEF b, c
    <3>6. Shaped(b)
      BY <3>4, <3>5 DEF Fit, Shaped
    <3>7. Quiet(s, e, b, C)
      BY <2>1, <3>5, <3>6 DEF Quiet, Fit, Backed, Direct, Same
    <3> QED BY <3>1, <3>5, <3>7, QuietFits
  <2>2. CASE s # "agent"
    BY <2>2 DEF Configured, Same
  <2> QED BY <2>1, <2>2
<1>3. HandlePropose(s, e, u) = IF c.st = "idle" THEN [c EXCEPT !.st = "proposed", !.up = u] ELSE c
  BY DEF HandlePropose
<1> HIDE DEF c
<1>4. CASE c.st # "idle"
  BY <1>2, <1>3, <1>4
<1>5. CASE c.st = "idle"
  <2>1. c \in EndStates /\ c.up = None /\ c.peer = None
    BY <1>2, <1>5 DEF Fit, Shaped
  <2>2. HandlePropose(s, e, u) = f
    BY <1>3, <1>5, <2>1 DEF EndStates
  <2>3. d \in EndStates
    BY <2>1, Records DEF CoordinatorStates
  <2>4. f \in EndStates
    BY <2>3, Records
  <2>5. /\ Same(c, f) /\ f.relay = c.relay /\ f.direct = c.direct /\ f.outQ = c.outQ
        /\ f.parked = c.parked /\ f.local = c.local /\ f.remote = c.remote /\ f.up = u
        /\ f.tpeer = c.tpeer /\ f.strict = c.strict /\ f.drains = c.drains
        /\ f.queueing = c.queueing /\ f.switching = c.switching /\ f.st = "proposed"
        /\ f.peer = c.peer
    BY <2>1 DEF Same, EndStates
  <2>6. ~c.local /\ ~c.remote
    BY <1>2, <2>1, TransportAssumption, Parts DEF Fit, Backed, TransportAssumption
  <2> HIDE DEF f
  <2>7. Shaped(f)
    BY <1>2, <2>1, <2>4, <2>5, TransportAssumption DEF Fit, Shaped, TransportAssumption
  <2>8. Quiet(s, c, f, C)
    BY <1>2, <2>5, <2>6, <2>7 DEF Quiet, Fit, Backed, Direct, Same
  <2> QED BY <1>2, <2>2, <2>5, <2>8, QuietFits DEF Same
<1> QED BY <1>4, <1>5

LEMMA HandleCommittedFits ==
  ASSUME NEW s \in Sides, NEW C \in SUBSET Upgrades, NEW e, Fit(s, e, C), NEW u \in C
  PROVE  Fit(s, HandleCommitted(s, e, u), C) /\ Same(e, HandleCommitted(s, e, u))
<1>1. CASE e.up # u
  BY <1>1 DEF HandleCommitted, Same
<1>2. CASE e.up = u
  <2> DEFINE f == [e EXCEPT !.remote = TRUE]
  <2>1. e \in EndStates
    BY DEF Fit, Shaped
  <2>2. f \in EndStates
    BY <2>1, Records
  <2>3. /\ Same(e, f) /\ f.relay = e.relay /\ f.direct = e.direct /\ f.outQ = e.outQ
        /\ f.parked = e.parked /\ f.local = e.local /\ f.remote = TRUE /\ f.up = e.up
        /\ f.tpeer = e.tpeer /\ f.strict = e.strict /\ f.drains = e.drains
        /\ f.queueing = e.queueing /\ f.switching = e.switching /\ f.st = e.st
        /\ f.peer = e.peer
    BY <2>1 DEF Same, EndStates
  <2>4. HandleCommitted(s, e, u) = MaybeUpgrade(s, f)
    BY <1>2 DEF HandleCommitted
  <2> HIDE DEF f
  <2>5. Shaped(f)
    BY <2>2, <2>3 DEF Fit, Shaped
  <2>6. Quiet(s, e, f, C)
    BY <1>2, <2>3, <2>5 DEF Quiet, Fit, Backed, Direct, Same
  <2>7. f.up # None
    BY <1>2, <2>3, TransportAssumption DEF TransportAssumption
  <2>8. Fit(s, f, C)
    BY <2>6, QuietFits
  <2>9. Fit(s, MaybeUpgrade(s, f), C) /\ Same(f, MaybeUpgrade(s, f))
    BY <2>7, <2>8, MaybeUpgradeFits
  <2> QED BY <2>3, <2>4, <2>9 DEF Same
<1> QED BY <1>1, <1>2

LEMMA HandleSdpFits ==
  ASSUME NEW s \in Sides, NEW C \in SUBSET Upgrades, NEW e, Fit(s, e, C), NEW u
  PROVE  /\ Fit(s, HandleOffer(s, e, u), C) /\ Same(e, HandleOffer(s, e, u))
         /\ Fit(s, HandleAnswer(s, e, u), C) /\ Same(e, HandleAnswer(s, e, u))
<1>1. e \in EndStates
  BY DEF Fit, Shaped
<1>2. Fit(s, HandleOffer(s, e, u), C) /\ Same(e, HandleOffer(s, e, u))
  <2> DEFINE f == [e EXCEPT !.sdp = "offered"]
  <2>1. f \in EndStates
    BY <1>1, Records
  <2>2. /\ Same(e, f) /\ f.relay = e.relay /\ f.direct = e.direct /\ f.outQ = e.outQ
        /\ f.parked = e.parked /\ f.local = e.local /\ f.remote = e.remote /\ f.up = e.up
        /\ f.tpeer = e.tpeer /\ f.strict = e.strict /\ f.drains = e.drains
        /\ f.queueing = e.queueing /\ f.switching = e.switching /\ f.st = e.st
        /\ f.peer = e.peer
    BY <1>1 DEF Same, EndStates
  <2>3. HandleOffer(s, e, u) \in {e, f}
    BY DEF HandleOffer
  <2> HIDE DEF f
  <2>4. Shaped(f)
    BY <2>1, <2>2 DEF Fit, Shaped
  <2>5. Quiet(s, e, f, C)
    BY <2>2, <2>4 DEF Quiet, Fit, Backed, Direct, Same
  <2>6. Fit(s, f, C) /\ Same(e, e)
    BY <2>5, QuietFits DEF Same
  <2> QED BY <2>2, <2>3, <2>6
<1>3. Fit(s, HandleAnswer(s, e, u), C) /\ Same(e, HandleAnswer(s, e, u))
  <2> DEFINE a == [e EXCEPT !.sdp = "done"]
             l == e.linked \cup {u}
             f == [a EXCEPT !.linked = l]
  <2>1. CASE ~(s = "app" /\ e.peer # None /\ e.up = u)
    BY <2>1 DEF HandleAnswer, Same
  <2>2. CASE s = "app" /\ e.peer # None /\ e.up = u
    <3>1. u \in Upgrades
      BY <1>1, <2>2, Parts DEF Fit, Shaped
    <3>2. l \in SUBSET Upgrades
      BY <1>1, <3>1, Parts
    <3>3. HandleAnswer(s, e, u) = f
      BY <1>1, <2>2 DEF HandleAnswer, EndStates
    <3> HIDE DEF l
    <3>4. a \in EndStates
      BY <1>1, Records
    <3>5. f \in EndStates
      BY <3>2, <3>4, Records
    <3>6. /\ Same(e, f) /\ f.relay = e.relay /\ f.direct = e.direct /\ f.outQ = e.outQ
          /\ f.parked = e.parked /\ f.local = e.local /\ f.remote = e.remote /\ f.up = e.up
          /\ f.tpeer = e.tpeer /\ f.strict = e.strict /\ f.drains = e.drains
          /\ f.queueing = e.queueing /\ f.switching = e.switching /\ f.st = e.st
          /\ f.peer = e.peer
      BY <1>1 DEF Same, EndStates
    <3> HIDE DEF f
    <3>7. Shaped(f)
      BY <3>5, <3>6 DEF Fit, Shaped
    <3>8. Quiet(s, e, f, C)
      BY <3>6, <3>7 DEF Quiet, Fit, Backed, Direct, Same
    <3> QED BY <3>3, <3>6, <3>8, QuietFits
  <2> QED BY <2>1, <2>2
<1> QED BY <1>2, <1>3

\* A frame the other end has sealed, and what it may announce.
Genuine(m, C) ==
  m \in Frames /\ m.kind # "propose" /\ (m.kind = "committed" => m.up \in C)

LEMMA OpenFits ==
  ASSUME NEW s \in Sides, NEW C \in SUBSET Upgrades, NEW e, Fit(s, e, C),
         NEW m, Genuine(m, C)
  PROVE  /\ Fit(s, Open(s, e, m), C)
         /\ Open(s, e, m).commits = e.commits /\ Open(s, e, m).prefers = e.prefers
         /\ Open(s, e, m).accepted = e.accepted
<1>1. e \in EndStates
  BY DEF Fit, Shaped
<1>2. CASE m.seq # e.rx + 1
  <2> DEFINE f == [e EXCEPT !.ended = "broken"]
  <2>1. f \in EndStates
    BY <1>1, Records
  <2>2. /\ Same(e, f) /\ f.relay = e.relay /\ f.direct = e.direct /\ f.outQ = e.outQ
        /\ f.parked = e.parked /\ f.local = e.local /\ f.remote = e.remote /\ f.up = e.up
        /\ f.tpeer = e.tpeer /\ f.strict = e.strict /\ f.drains = e.drains
        /\ f.queueing = e.queueing /\ f.switching = e.switching /\ f.st = e.st
        /\ f.peer = e.peer
    BY <1>1 DEF Same, EndStates
  <2>3. Open(s, e, m) = f
    BY <1>2 DEF Open
  <2> HIDE DEF f
  <2>4. Shaped(f)
    BY <2>1, <2>2 DEF Fit, Shaped
  <2>5. Quiet(s, e, f, C)
    BY <2>2, <2>4 DEF Quiet, Fit, Backed, Direct, Same
  <2> QED BY <2>2, <2>3, <2>5, QuietFits DEF Same
<1>3. CASE m.seq = e.rx + 1
  <2> DEFINE n == [e EXCEPT !.rx = m.seq]
             g == Append(n.got, m.biz)
             f == [n EXCEPT !.got = g]
  <2>1. m.seq \in Nat /\ m.biz \in Nat /\ m.kind \in Kinds
    BY DEF Genuine, Frames
  <2>2. n \in EndStates
    BY <1>1, <2>1, Records
  <2>3. /\ n.commits = e.commits /\ n.prefers = e.prefers /\ n.accepted = e.accepted
        /\ n.relay = e.relay /\ n.direct = e.direct /\ n.outQ = e.outQ
        /\ n.parked = e.parked /\ n.local = e.local /\ n.remote = e.remote /\ n.up = e.up
        /\ n.tpeer = e.tpeer /\ n.strict = e.strict /\ n.drains = e.drains
        /\ n.queueing = e.queueing /\ n.switching = e.switching /\ n.st = e.st
        /\ n.peer = e.peer
    BY <1>1 DEF EndStates
  <2>4. Open(s, e, m) = Handle(s, n, m)
    BY <1>3 DEF Open
  <2> HIDE DEF n
  <2>5. Shaped(n)
    BY <2>2, <2>3 DEF Fit, Shaped
  <2>6. Quiet(s, e, n, C)
    BY <2>3, <2>5 DEF Quiet, Fit, Backed, Direct
  <2>7. Fit(s, n, C)
    BY <2>6, QuietFits
  <2>8. CASE m.kind = "business"
    <3>1. g \in Seq(Nat)
      BY <2>1, <2>2, Parts
    <3>2. Handle(s, n, m) = f
      BY <2>8 DEF Handle
    <3> HIDE DEF g
    <3>3. f \in EndStates
      BY <2>2, <3>1, Records
    <3>4. /\ f.commits = n.commits /\ f.prefers = n.prefers /\ f.accepted = n.accepted
          /\ f.relay = n.relay /\ f.direct = n.direct /\ f.outQ = n.outQ
          /\ f.parked = n.parked /\ f.local = n.local /\ f.remote = n.remote /\ f.up = n.up
          /\ f.tpeer = n.tpeer /\ f.strict = n.strict /\ f.drains = n.drains
          /\ f.queueing = n.queueing /\ f.switching = n.switching /\ f.st = n.st
          /\ f.peer = n.peer
      BY <2>2 DEF EndStates
    <3> HIDE DEF f
    <3>5. Shaped(f)
      BY <2>5, <3>3, <3>4 DEF Shaped
    <3>6. Quiet(s, n, f, C)
      BY <2>7, <3>4, <3>5 DEF Quiet, Fit, Backed, Direct
    <3> QED BY <2>3, <2>4, <2>7, <3>2, <3>4, <3>6, QuietFits
  <2>9. CASE m.kind = "offer"
    BY <2>3, <2>4, <2>7, <2>9, HandleSdpFits DEF Handle, Same
  <2>10. CASE m.kind = "answer"
    BY <2>3, <2>4, <2>7, <2>10, HandleSdpFits DEF Handle, Same
  <2>11. CASE m.kind = "committed"
    <3>1. m.up \in C
      BY <2>11 DEF Genuine
    <3>2. Fit(s, HandleCommitted(s, n, m.up), C) /\ Same(n, HandleCommitted(s, n, m.up))
      BY <2>7, <3>1, HandleCommittedFits
    <3>3. Handle(s, n, m) = HandleCommitted(s, n, m.up)
      BY <2>11 DEF Handle
    <3> QED BY <2>3, <2>4, <3>2, <3>3 DEF Same
  <2>12. CASE m.kind = "downgrade"
    <3>1. Handle(s, n, m) = Downgrade(s, n)
      BY <2>12 DEF Handle
    <3> QED BY <2>3, <2>4, <2>7, <3>1, DowngradeFits DEF Same
  <2>13. CASE m.kind = "candidate"
    BY <2>3, <2>4, <2>7, <2>13 DEF Handle
  <2> QED BY <2>1, <2>8, <2>9, <2>10, <2>11, <2>12, <2>13 DEF Genuine, Kinds
<1> QED BY <1>2, <1>3

LEMMA HealthDowngradeFits ==
  ASSUME NEW s \in Sides, NEW C \in SUBSET Upgrades, NEW e, Fit(s, e, C)
  PROVE  Fit(s, HealthDowngrade(s, e), C) /\ Same(e, HealthDowngrade(s, e))
<1> DEFINE d == IF e.strict THEN ForceCloseRoute(e) ELSE Detach(s, SwitchPath(e, "relay"))
<1>1. CASE e.path # "p2p"
  BY <1>1 DEF HealthDowngrade, Same
<1>2. CASE e.path = "p2p" /\ e.prefers /\ s = "app"
  BY <1>2, ForceCloseFits DEF HealthDowngrade
<1>3. CASE e.path = "p2p" /\ ~(e.prefers /\ s = "app")
  <2>1. Fit(s, d, C) /\ Same(e, d)
    <3>1. CASE e.strict
      BY <1>3, <3>1, ForceCloseRouteFits
    <3>2. CASE ~e.strict
      <4> DEFINE g == SwitchPath(e, "relay")
      <4>1. Fit(s, g, C) /\ Same(e, g)
        BY <1>3, SwitchPathFits DEF Paths
      <4>2. d = Detach(s, g)
        BY <3>2
      <4> HIDE DEF g, d
      <4>3. Fit(s, Detach(s, g), C) /\ Same(g, Detach(s, g))
        BY <4>1, DetachFits
      <4> QED BY <4>1, <4>2, <4>3 DEF Same
    <3> QED BY <3>1, <3>2
  <2>2. HealthDowngrade(s, e) = IF e.tpeer = None THEN d ELSE Downgrade(s, d)
    BY <1>3 DEF HealthDowngrade
  <2> HIDE DEF d
  <2>3. Fit(s, Downgrade(s, d), C) /\ Same(d, Downgrade(s, d))
    BY <2>1, DowngradeFits
  <2> QED BY <2>1, <2>2, <2>3 DEF Same
<1> QED BY <1>1, <1>2, <1>3

LEMMA ReconnectFits ==
  ASSUME NEW C \in SUBSET Upgrades, NEW e, Fit("app", e, C)
  PROVE  Fit("app", Reconnect(e), C) /\ Same(e, Reconnect(e))
<1> DEFINE told == SendControl("app", e, "downgrade")
           shut == ClosePeer(told)
           c == IF e.st = "idle" THEN e ELSE ResetToIdle(shut)
           d == AppDetach(c)
           f == [[[[d EXCEPT !.path = "relay"] EXCEPT !.outQ = <<>>] EXCEPT !.queueing = FALSE]
                  EXCEPT !.switching = FALSE]
<1>1. "app" \in Sides
  BY DEF Sides
<1>2. Fit("app", c, C) /\ Same(e, c)
  <2>1. CASE e.st = "idle"
    BY <2>1 DEF Same
  <2>2. CASE e.st # "idle"
    <3>1. Fit("app", told, C) /\ Same(e, told)
      BY <1>1, SendControlFits DEF Kinds
    <3> HIDE DEF told
    <3>2. Fit("app", shut, C) /\ Same(told, shut) /\ shut.peer = None
      BY <1>1, <3>1, ClosePeerFits
    <3> HIDE DEF shut
    <3>3. Fit("app", ResetToIdle(shut), C) /\ Same(shut, ResetToIdle(shut))
      BY <1>1, <3>2, ResetToIdleFits
    <3> QED BY <2>2, <3>1, <3>2, <3>3 DEF Same
  <2> QED BY <2>1, <2>2
<1>3. Reconnect(e) = [d EXCEPT !.path = "relay", !.outQ = <<>>, !.queueing = FALSE,
                               !.switching = FALSE]
  BY DEF Reconnect
<1> HIDE DEF c
<1>4. Fit("app", d, C) /\ Same(c, d)
  BY <1>1, <1>2, AppDetachFits
<1> HIDE DEF d
<1>5. d \in EndStates
  BY <1>4 DEF Fit, Shaped
<1>6. Reconnect(e) = f
  BY <1>3, <1>5 DEF EndStates
<1>7. f \in EndStates
  <2>1. <<>> \in Seq(Frames) /\ "relay" \in Paths
    BY NoFrame DEF Paths
  <2> DEFINE g == [d EXCEPT !.path = "relay"]
             h == [g EXCEPT !.outQ = <<>>]
             k == [h EXCEPT !.queueing = FALSE]
  <2>2. g \in EndStates
    BY <1>5, <2>1, Records
  <2>3. h \in EndStates
    BY <2>1, <2>2, Records
  <2>4. k \in EndStates
    BY <2>3, Records
  <2> QED BY <2>4, Records
<1>8. /\ Same(d, f) /\ f.relay = d.relay /\ f.direct = d.direct /\ f.outQ = <<>>
      /\ f.parked = d.parked /\ f.local = d.local /\ f.remote = d.remote /\ f.up = d.up
      /\ f.tpeer = d.tpeer /\ f.strict = d.strict /\ f.drains = d.drains
      /\ f.queueing = FALSE /\ f.switching = FALSE /\ f.st = d.st
      /\ f.peer = d.peer
  BY <1>5 DEF Same, EndStates
<1> HIDE DEF f
<1>9. Shaped(f)
  BY <1>4, <1>7, <1>8 DEF Fit, Shaped
<1>10. Quiet("app", d, f, C)
  BY <1>4, <1>8, <1>9 DEF Quiet, Fit, Backed, Direct, Same
<1>11. Fit("app", f, C)
  BY <1>1, <1>4, <1>10, QuietFits
<1> QED BY <1>2, <1>4, <1>6, <1>8, <1>11 DEF Same

LEMMA DispatchQueueing ==
  ASSUME NEW s \in Sides, NEW e \in EndStates, NEW q
  PROVE  DispatchAll(s, e, q).queueing \in {e.queueing, FALSE}
<1>1. ASSUME NEW r PROVE /\ OverRelay(e, r).queueing = e.queueing
                         /\ OverDirect(e, r).queueing = e.queueing
                         /\ OverRelay(Sealed(e, q), r).queueing = e.queueing
                         /\ OverDirect(Sealed(e, q), r).queueing = e.queueing
                         /\ OverRelay(ForceCloseRoute(e), r).queueing \in {e.queueing, FALSE}
                         /\ ForceClose(e).queueing = e.queueing
  BY DEF OverRelay, OverDirect, Sealed, ForceCloseRoute, AgentDetach, ForceClose, EndStates
<1> QED BY <1>1 DEF DispatchAll, AppDispatch, AgentDispatch

LEMMA AfterDrainFits ==
  ASSUME NEW s \in Sides, NEW C \in SUBSET Upgrades, NEW e, Fit(s, e, C), e.drains # <<>>
  PROVE  Fit(s, AfterDrain(s, e), C) /\ Same(e, AfterDrain(s, e))
<1> DEFINE target == Head(e.drains)
           rest == Tail(e.drains)
           a == [e EXCEPT !.path = target]
           b == [a EXCEPT !.drains = rest]
           c == [b EXCEPT !.queueing = FALSE]
           moved == [c EXCEPT !.outQ = <<>>]
           sent == DispatchAll(s, moved, e.outQ)
           cleared == [sent EXCEPT !.parked = <<>>]
           flushed == DispatchAll(s, cleared, sent.parked)
           done == IF target = "p2p" THEN flushed ELSE sent
           f == [done EXCEPT !.switching = FALSE]
<1>1. e \in EndStates
  BY DEF Fit, Shaped
<1>2. target \in Paths /\ rest \in Seq(Paths) /\ <<>> \in Seq(Frames) /\ ToSet(<<>>) = {}
  BY <1>1, Parts, NoFrame
<1>3. s = "app" /\ e.prefers => target = "p2p" /\ \A i \in 1..Len(rest) : rest[i] = "p2p"
  <2> SUFFICES ASSUME s = "app", e.prefers
               PROVE  target = "p2p" /\ \A i \in 1..Len(rest) : rest[i] = "p2p"
    OBVIOUS
  <2>1. \A i \in 1..Len(e.drains) : e.drains[i] = "p2p"
    BY DEF Fit, Direct
  <2>2. e.drains \in Seq(Paths)
    BY <1>1, Parts
  <2>3. Head(e.drains) = e.drains[1] /\ 1 \in 1..Len(e.drains)
    BY <2>2
  <2>4. \A i \in 1..Len(Tail(e.drains)) :
          Tail(e.drains)[i] = e.drains[i + 1] /\ i + 1 \in 1..Len(e.drains)
    BY <2>2
  <2> QED BY <2>1, <2>3, <2>4
<1>4. AfterDrain(s, e) = f
  <2>1. [e EXCEPT !.path = target, !.drains = rest, !.queueing = FALSE, !.outQ = <<>>] = moved
    BY <1>1 DEF EndStates
  <2> HIDE DEF moved
  <2> QED BY <2>1 DEF AfterDrain
<1>5. Fit(s, moved, C) /\ Same(e, moved) /\ moved.path = target /\ moved.queueing = FALSE
  <2> HIDE DEF target, rest
  <2>1. a \in EndStates
    BY <1>1, <1>2, Records
  <2>2. b \in EndStates
    BY <1>2, <2>1, Records
  <2>3. c \in EndStates
    BY <2>2, Records
  <2>4. moved \in EndStates
    BY <1>2, <2>3, Records
  <2>5. /\ Same(e, moved) /\ moved.relay = e.relay /\ moved.direct = e.direct
        /\ moved.outQ = <<>> /\ moved.parked = e.parked /\ moved.local = e.local
        /\ moved.remote = e.remote /\ moved.up = e.up /\ moved.tpeer = e.tpeer
        /\ moved.strict = e.strict /\ moved.drains = rest /\ moved.queueing = FALSE
        /\ moved.switching = e.switching /\ moved.st = e.st /\ moved.peer = e.peer
        /\ moved.path = target
    BY <1>1 DEF Same, EndStates
  <2> HIDE DEF moved
  <2>6. Shaped(moved)
    BY <2>4, <2>5 DEF Fit, Shaped
  <2>7. Quiet(s, e, moved, C)
    BY <1>3, <2>5, <2>6 DEF Quiet, Fit, Backed, Direct, Same
  <2> QED BY <2>5, <2>7, QuietFits
<1>6. e.outQ \in Seq(Frames) /\ Tells(moved, e.outQ)
  BY <1>1, <1>5, Parts DEF Fit, Backed, Carried, Held, Tells, Same
<1> HIDE DEF moved
<1>7. Fit(s, sent, C) /\ Same(moved, sent) /\ (s = "app" => sent.path = target)
  <2>1. s = "app" /\ moved.prefers => moved.path = "p2p"
    BY <1>3, <1>5 DEF Same
  <2>2. /\ Fit(s, sent, C) /\ Same(moved, sent)
        /\ s = "app" => sent.path = moved.path
    BY <1>5, <1>6, <2>1, DispatchAllFits
  <2> QED BY <1>5, <2>2
<1>8. sent.queueing = FALSE
  BY <1>5, DispatchQueueing DEF Fit, Shaped
<1>9. sent \in EndStates /\ sent.parked \in Seq(Frames) /\ Tells(sent, sent.parked)
  BY <1>7, Parts DEF Fit, Shaped, Backed, Carried, Held, Tells
<1> HIDE DEF sent
<1>10. Fit(s, done, C) /\ Same(sent, done) /\ done.queueing = FALSE
  <2>1. CASE target # "p2p"
    BY <1>7, <1>8, <2>1 DEF Same
  <2>2. CASE target = "p2p"
    <3>1. Tells(sent, <<>>) /\ ToSet(<<>>) \subseteq ToSet(sent.parked) \cup ToSet(<<>>)
      BY <1>2 DEF Tells
    <3>2. Fit(s, cleared, C) /\ Same(sent, cleared)
      BY <1>2, <1>7, <3>1, ParkedFits
    <3>3. cleared.path = sent.path /\ cleared.queueing = FALSE
      BY <1>8, <1>9 DEF EndStates
    <3> HIDE DEF cleared, target
    <3>4. Tells(cleared, sent.parked) /\ (s = "app" => cleared.path = "p2p")
      BY <1>7, <1>9, <2>2, <3>2, <3>3 DEF Tells, Same
    <3>5. Fit(s, flushed, C) /\ Same(cleared, flushed)
      BY <1>9, <3>2, <3>4, DispatchAllFits
    <3>6. flushed.queueing = FALSE
      BY <3>2, <3>3, DispatchQueueing DEF Fit, Shaped
    <3> QED BY <2>2, <3>2, <3>5, <3>6 DEF Same
  <2> QED BY <2>1, <2>2
<1> HIDE DEF done
<1>11. done \in EndStates
  BY <1>10 DEF Fit, Shaped
<1>12. f \in EndStates
  BY <1>11, Records
<1>13. /\ Same(done, f) /\ f.relay = done.relay /\ f.direct = done.direct /\ f.outQ = done.outQ
       /\ f.parked = done.parked /\ f.local = done.local /\ f.remote = done.remote
       /\ f.up = done.up /\ f.tpeer = done.tpeer /\ f.strict = done.strict
       /\ f.drains = done.drains /\ f.queueing = done.queueing /\ f.switching = FALSE
       /\ f.st = done.st /\ f.peer = done.peer
  BY <1>11 DEF Same, EndStates
<1> HIDE DEF f
<1>14. Shaped(f)
  BY <1>10, <1>12, <1>13 DEF Fit, Shaped
<1>15. Quiet(s, done, f, C)
  BY <1>10, <1>13, <1>14 DEF Quiet, Fit, Backed, Direct, Same
<1>16. Fit(s, f, C)
  BY <1>10, <1>15, QuietFits
<1> QED BY <1>4, <1>5, <1>7, <1>10, <1>13, <1>16 DEF Same

-----------------------------------------------------------------------------
(* Steps.                                                                  *)

\* What the other end has committed only grows.
LEMMA FitLater ==
  ASSUME NEW s, NEW e, NEW C, Fit(s, e, C), NEW D, C \subseteq D
  PROVE  Fit(s, e, D)
BY DEF Fit, Backed

\* The rest of IInv, for one end s that becomes e.
LEMMA OneEndKeeps ==
  ASSUME IInv, NEW s \in Sides, NEW e, Becomes(s, e),
         Fit(s, e, end[Other(s)].commits), end[s].commits \subseteq e.commits,
         e.prefers = end[s].prefers,
         candidates' \in [Sides -> Nat], changes' \in Nat
  PROVE  IInv'
<1>1. /\ setting' = setting /\ used' = used /\ end' = [end EXCEPT ![s] = e]
  BY DEF Becomes
<1>2. e \in EndStates
  BY DEF Fit, Shaped
<1>3. end' \in [Sides -> EndStates]
  BY <1>1, <1>2 DEF IInv
<1>4. ASSUME NEW t \in Sides
      PROVE  Fit(t, end'[t], end'[Other(t)].commits) /\ end'[t].prefers = setting'.strict
  <2>1. Fit(t, end[t], end[Other(t)].commits) /\ end[t].prefers = setting.strict
    BY DEF IInv
  <2>2. CASE t = s
    <3>1. Other(t) # t /\ Other(t) \in Sides
      BY DEF Other, Sides
    <3>2. end'[t] = e /\ end'[Other(t)] = end[Other(t)]
      BY <1>1, <2>2, <3>1 DEF IInv
    <3> QED BY <1>1, <2>1, <2>2, <3>2
  <2>3. CASE t # s
    <3>1. Other(t) = s
      BY <2>3 DEF Other, Sides
    <3>2. end'[t] = end[t] /\ end'[s] = e
      BY <1>1, <2>3 DEF IInv
    <3>3. Fit(t, end[t], e.commits)
      BY <2>1, <3>1, FitLater
    <3> QED BY <1>1, <2>1, <3>1, <3>2, <3>3
  <2> QED BY <2>2, <2>3
<1> QED BY <1>1, <1>3, <1>4 DEF IInv

LEMMA InitIInv == Init => IInv
<1> SUFFICES ASSUME Init PROVE IInv
  OBVIOUS
<1>1. setting.strict \in BOOLEAN /\ setting \in Settings
  BY TunnelAssumption DEF Init, TunnelAssumption, SettingRecords
<1>2. /\ <<>> \in Seq(Frames) /\ <<>> \in Seq(Nat) /\ <<>> \in Seq(Paths)
      /\ ToSet(<<>>) = {} /\ Len(<<>>) = 0
  BY NoFrame
<1>3. ASSUME NEW s \in Sides
      PROVE  Fit(s, StartState(s, setting.strict), {})
  <2> DEFINE e == StartState(s, setting.strict)
  <2>1. e \in EndStates
    BY <1>1, <1>2 DEF StartState, EndStates, CoordinatorStates, Paths
  <2>2. /\ e.relay = <<>> /\ e.outQ = <<>> /\ e.parked = <<>> /\ e.drains = <<>>
        /\ e.direct = [u \in Upgrades |-> <<>>]
        /\ e.st = "idle" /\ e.up = None /\ e.peer = None /\ ~e.queueing
        /\ ~e.local /\ ~e.remote /\ e.tpeer = None
        /\ e.strict = (s = "app" /\ setting.strict) /\ e.prefers = setting.strict
    BY DEF StartState
  <2> HIDE DEF e
  <2>3. Carried(e) = {} /\ Held(e) = {}
    BY <1>2, <2>2 DEF Carried, Held
  <2>4. Shaped(e)
    BY <2>1, <2>2 DEF Shaped
  <2>5. Backed(e, {})
    BY <2>2, <2>3 DEF Backed
  <2>6. Direct(s, e)
    <3>1. s = "app" /\ e.prefers => e.strict
      BY <2>2
    <3>2. \A i \in 1..Len(e.drains) : e.drains[i] = "p2p"
      BY <1>2, <2>2
    <3>3. \A f \in ToSet(e.relay) : f.kind # "business"
      BY <1>2, <2>2
    <3> QED BY <3>1, <3>2, <3>3 DEF Direct
  <2> QED BY <2>4, <2>5, <2>6 DEF Fit, e
<1>4. ASSUME NEW s \in Sides
      PROVE  /\ end[s] \in EndStates /\ end[s].commits = {}
             /\ Fit(s, end[s], {}) /\ end[s].prefers = setting.strict
  BY <1>3 DEF Init, Fit, Shaped, StartState
<1>5. end \in [Sides -> EndStates]
  BY <1>4 DEF Init
<1>6. \A s \in Sides : end[Other(s)].commits = {}
  BY <1>4 DEF Other, Sides
<1> QED BY <1>1, <1>4, <1>5, <1>6 DEF Init, IInv

\* What one end knows of itself and of the other.
LEMMA IInvOf ==
  ASSUME IInv, NEW s \in Sides
  PROVE  /\ Fit(s, end[s], end[Other(s)].commits) /\ end[s] \in EndStates
         /\ end[s].prefers = setting.strict /\ Other(s) \in Sides /\ Other(s) # s
         /\ end[Other(s)].commits \in SUBSET Upgrades /\ end \in [Sides -> EndStates]
<1>1. Other(s) \in Sides /\ Other(s) # s
  BY DEF Other, Sides
<1>2. end[s] \in EndStates /\ end[Other(s)] \in EndStates
  BY <1>1 DEF IInv
<1> QED BY <1>1, <1>2, Parts DEF IInv

\* A step of one end that commits nothing.
LEMMA OneEndStep ==
  ASSUME IInv, NEW s \in Sides, NEW e, Becomes(s, e),
         Fit(s, e, end[Other(s)].commits), Same(end[s], e),
         UNCHANGED <<candidates, changes>>
  PROVE  IInv'
BY OneEndKeeps DEF Same, IInv

LEMMA ProposeIInv ==
  ASSUME IInv, NEW u \in Upgrades, Propose(u)
  PROVE  IInv'
<1>1. PICK i \in 1..Len(end["app"].relay) + 1, j \in 1..Len(end["agent"].relay) + 1 :
        end' = [end EXCEPT !["app"].relay = InsertAt(@, i, Control("propose", u)),
                           !["agent"].relay = InsertAt(@, j, Control("propose", u))]
  BY DEF Propose
<1> DEFINE m == Control("propose", u)
           n == [s \in Sides |-> IF s = "app" THEN i ELSE j]
<1>2. m \in Frames /\ m.kind = "propose" /\ m.up # None
  BY FrameTyped, TransportAssumption DEF Control, Kinds, TransportAssumption
<1>3. ASSUME NEW s \in Sides
      PROVE  /\ end'[s] = [end[s] EXCEPT !.relay = InsertAt(@, n[s], m)]
             /\ n[s] \in 1..Len(end[s].relay) + 1
  BY <1>1 DEF IInv, Sides
<1> HIDE DEF m, n
<1>4. ASSUME NEW s \in Sides, NEW C \in SUBSET Upgrades, Fit(s, end[s], C)
      PROVE  Fit(s, end'[s], C) /\ Same(end[s], end'[s])
  <2> DEFINE e == end[s]
             r == InsertAt(e.relay, n[s], m)
             f == [e EXCEPT !.relay = r]
  <2>1. e \in EndStates
    BY <1>4 DEF Fit, Shaped
  <2>2. r \in Seq(Frames) /\ ToSet(r) = ToSet(e.relay) \cup {m}
    <3>1. e.relay \in Seq(Frames) /\ n[s] \in 1..Len(e.relay) + 1
      BY <1>3, <2>1, Parts
    <3> HIDE DEF e
    <3> QED BY <1>2, <3>1, Inserted
  <2>3. end'[s] = f
    BY <1>3
  <2> HIDE DEF r, e
  <2>4. f \in EndStates
    BY <2>1, <2>2, Records
  <2>5. /\ Same(e, f) /\ f.relay = r /\ f.direct = e.direct /\ f.outQ = e.outQ
        /\ f.parked = e.parked /\ f.local = e.local /\ f.remote = e.remote /\ f.up = e.up
        /\ f.tpeer = e.tpeer /\ f.strict = e.strict /\ f.drains = e.drains
        /\ f.queueing = e.queueing /\ f.switching = e.switching /\ f.st = e.st
        /\ f.peer = e.peer
    BY <2>1 DEF Same, EndStates
  <2> HIDE DEF f
  <2>6. Fit(s, e, C)
    BY <1>4 DEF e
  <2>7. Shaped(f)
    BY <2>4, <2>5, <2>6 DEF Fit, Shaped
  <2>8. UNION {ToSet(f.direct[x]) : x \in Upgrades} = UNION {ToSet(e.direct[x]) : x \in Upgrades}
    BY <2>5
  <2>9. Held(f) = Held(e) /\ Carried(f) = Carried(e) \cup {m}
    BY <2>2, <2>5, <2>8 DEF Carried, Held
  <2>10. \A x \in Carried(f) : /\ x.kind = "committed" => x.up \in f.commits
                               /\ x.kind = "propose" => x.up # None
    BY <1>2, <2>5, <2>6, <2>9 DEF Fit, Backed, Same
  <2>11. Backed(f, C)
    BY <2>5, <2>6, <2>9, <2>10 DEF Fit, Backed, Same
  <2>12. Direct(s, f)
    BY <1>2, <2>2, <2>5, <2>6 DEF Fit, Direct, Same
  <2> QED BY <2>3, <2>5, <2>7, <2>11, <2>12 DEF Fit, e
<1>5. ASSUME NEW s \in Sides
      PROVE  /\ Fit(s, end'[s], end'[Other(s)].commits)
             /\ end'[s].prefers = setting'.strict /\ end'[s] \in EndStates
  <2>1. /\ Fit(s, end[s], end[Other(s)].commits) /\ end[s].prefers = setting.strict
        /\ Other(s) \in Sides /\ end[Other(s)].commits \in SUBSET Upgrades
        /\ Fit(Other(s), end[Other(s)], end[Other(Other(s))].commits)
        /\ end[Other(Other(s))].commits \in SUBSET Upgrades
    BY IInvOf
  <2>2. Fit(s, end'[s], end[Other(s)].commits) /\ Same(end[s], end'[s])
    BY <1>4, <2>1
  <2>3. Same(end[Other(s)], end'[Other(s)])
    BY <1>4, <2>1
  <2>4. setting' = setting
    BY DEF Propose
  <2> QED BY <2>1, <2>2, <2>3, <2>4 DEF Same, Fit, Shaped
<1>6. end' \in [Sides -> EndStates]
  <2>1. end' = [s \in Sides |-> end'[s]]
    BY <1>1 DEF IInv, Sides
  <2> QED BY <1>5, <2>1
<1> QED BY <1>5, <1>6 DEF Propose, IInv

\* What was under way is taken or lost.
LEMMA RelayTakenFits ==
  ASSUME NEW s \in Sides, NEW C \in SUBSET Upgrades, NEW e, Fit(s, e, C),
         NEW r \in Seq(Frames), ToSet(r) \subseteq ToSet(e.relay)
  PROVE  Fit(s, [e EXCEPT !.relay = r], C) /\ Same(e, [e EXCEPT !.relay = r])
<1> DEFINE f == [e EXCEPT !.relay = r]
<1>1. e \in EndStates
  BY DEF Fit, Shaped
<1>2. f \in EndStates
  BY <1>1, Records
<1>3. /\ Same(e, f) /\ f.relay = r /\ f.direct = e.direct /\ f.outQ = e.outQ
      /\ f.parked = e.parked /\ f.local = e.local /\ f.remote = e.remote /\ f.up = e.up
      /\ f.tpeer = e.tpeer /\ f.strict = e.strict /\ f.drains = e.drains
      /\ f.queueing = e.queueing /\ f.switching = e.switching /\ f.st = e.st
      /\ f.peer = e.peer
  BY <1>1 DEF Same, EndStates
<1> HIDE DEF f
<1>4. Shaped(f)
  BY <1>2, <1>3 DEF Fit, Shaped
<1>5. UNION {ToSet(f.direct[x]) : x \in Upgrades} = UNION {ToSet(e.direct[x]) : x \in Upgrades}
  BY <1>3
<1>6. Held(f) = Held(e) /\ Carried(f) \subseteq Carried(e)
  BY <1>3, <1>5 DEF Carried, Held
<1>7. Backed(f, C)
  BY <1>3, <1>6 DEF Fit, Backed, Same
<1>8. Direct(s, f)
  BY <1>3 DEF Fit, Direct, Same
<1> QED BY <1>3, <1>4, <1>7, <1>8 DEF Fit, f

LEMMA DirectTakenFits ==
  ASSUME NEW s \in Sides, NEW C \in SUBSET Upgrades, NEW e, Fit(s, e, C), NEW u \in Upgrades,
         NEW r \in Seq(Frames), ToSet(r) \subseteq ToSet(e.direct[u])
  PROVE  Fit(s, [e EXCEPT !.direct[u] = r], C) /\ Same(e, [e EXCEPT !.direct[u] = r])
<1> DEFINE d == [e.direct EXCEPT ![u] = r]
           f == [e EXCEPT !.direct = d]
<1>1. e \in EndStates
  BY DEF Fit, Shaped
<1>2. /\ d \in [Upgrades -> Seq(Frames)]
      /\ \A x \in Upgrades : ToSet(d[x]) \subseteq ToSet(e.direct[x])
  BY <1>1, Parts
<1>3. [e EXCEPT !.direct[u] = r] = f
  OBVIOUS
<1> HIDE DEF d
<1>4. f \in EndStates
  BY <1>1, <1>2, Records
<1>5. /\ Same(e, f) /\ f.relay = e.relay /\ f.direct = d /\ f.outQ = e.outQ
      /\ f.parked = e.parked /\ f.local = e.local /\ f.remote = e.remote /\ f.up = e.up
      /\ f.tpeer = e.tpeer /\ f.strict = e.strict /\ f.drains = e.drains
      /\ f.queueing = e.queueing /\ f.switching = e.switching /\ f.st = e.st
      /\ f.peer = e.peer
  BY <1>1 DEF Same, EndStates
<1> HIDE DEF f
<1>6. Shaped(f)
  BY <1>4, <1>5 DEF Fit, Shaped
<1>7. UNION {ToSet(f.direct[x]) : x \in Upgrades} \subseteq UNION {ToSet(e.direct[x]) : x \in Upgrades}
  BY <1>2, <1>5
<1>8. Held(f) \subseteq Held(e) /\ Carried(f) \subseteq Carried(e)
  BY <1>5, <1>7 DEF Carried, Held
<1>9. Backed(f, C)
  BY <1>5, <1>8 DEF Fit, Backed, Same
<1>10. Direct(s, f)
  BY <1>5 DEF Fit, Direct, Same
<1> QED BY <1>3, <1>5, <1>6, <1>9, <1>10 DEF Fit

\* s takes a frame of the other end, which is left with g.
LEMMA TwoEndsKeep ==
  ASSUME IInv, NEW s \in Sides, NEW e, NEW g,
         end' = [end EXCEPT ![Other(s)] = g, ![s] = e],
         Fit(s, e, end[Other(s)].commits), e.commits = end[s].commits,
         e.prefers = end[s].prefers,
         Fit(Other(s), g, end[s].commits), Same(end[Other(s)], g),
         UNCHANGED <<setting, used, candidates, changes>>
  PROVE  IInv'
<1> DEFINE o == Other(s)
<1>1. o \in Sides /\ o # s /\ Other(o) = s /\ end \in [Sides -> EndStates] /\ Sides = {s, o}
  BY DEF Other, Sides, IInv
<1>2. end'[s] = e /\ end'[o] = g
  BY <1>1
<1>3. e \in EndStates /\ g \in EndStates
  BY DEF Fit, Shaped
<1>4. end' \in [Sides -> EndStates]
  BY <1>1, <1>3
<1>5. Fit(s, end'[s], end'[o].commits) /\ Fit(o, end'[o], end'[s].commits)
  BY <1>2 DEF Same
<1>6. end'[s].prefers = setting'.strict /\ end'[o].prefers = setting'.strict
  BY <1>1, <1>2 DEF IInv, Same
<1>7. \A t \in Sides : Fit(t, end'[t], end'[Other(t)].commits) /\ end'[t].prefers = setting'.strict
  BY <1>1, <1>5, <1>6
<1> HIDE DEF o
<1> QED BY <1>4, <1>7 DEF IInv

LEMMA ReceiveIInv ==
  ASSUME IInv, NEW s \in Sides, Receive(s)
  PROVE  IInv'
<1> DEFINE o == Other(s)
           q == end[o].relay
           m == Head(q)
           e == IF m.kind = "propose" THEN HandlePropose(s, end[s], m.up) ELSE Open(s, end[s], m)
           r == Tail(q)
           g == [end[o] EXCEPT !.relay = r]
           C == end[o].commits
<1>1. /\ Fit(s, end[s], C) /\ o \in Sides /\ o # s /\ C \in SUBSET Upgrades
      /\ end \in [Sides -> EndStates] /\ end[s].commits \in SUBSET Upgrades
  BY IInvOf, Parts
<1>2. Fit(o, end[o], end[s].commits) /\ end[o] \in EndStates
  <2>1. Other(o) = s
    BY DEF Other, Sides
  <2> QED BY <1>1, <2>1, IInvOf
<1>3. end' = [end EXCEPT ![o] = g, ![s] = e]
  BY <1>1 DEF Receive
<1>4. q # <<>> /\ q \in Seq(Frames) /\ UNCHANGED <<setting, used, candidates, changes>>
  BY <1>2, Parts DEF Receive
<1> HIDE DEF q
<1>5. m \in Frames /\ m \in ToSet(q) /\ r \in Seq(Frames) /\ ToSet(r) \subseteq ToSet(q)
  BY <1>4, Taken
<1>6. Fit(o, g, end[s].commits) /\ Same(end[o], g)
  BY <1>1, <1>2, <1>5, RelayTakenFits DEF q
<1>7. Fit(s, e, C) /\ e.commits = end[s].commits /\ e.prefers = end[s].prefers
  <2>1. m.kind = "committed" => m.up \in C
    BY <1>2, <1>5 DEF Fit, Backed, Carried, q
  <2>2. m.up \in Upgrades \cup {None}
    BY <1>5 DEF Frames
  <2>3. CASE m.kind = "propose" /\ m.up \in Upgrades
    <3>1. Fit(s, HandlePropose(s, end[s], m.up), C) /\ Same(end[s], HandlePropose(s, end[s], m.up))
      BY <1>1, <2>3, HandleProposeFits
    <3> QED BY <2>3, <3>1 DEF Same
  <2>4. CASE m.kind # "propose"
    <3>1. Genuine(m, C)
      BY <1>5, <2>1, <2>4 DEF Genuine
    <3> QED BY <1>1, <2>4, <3>1, OpenFits
  <2>5. m.kind = "propose" => m.up \in Upgrades
    BY <1>2, <1>5, <2>2 DEF Fit, Backed, Carried, q
  <2> QED BY <2>3, <2>4, <2>5
<1> HIDE DEF o, m, e, g, r
<1> QED BY <1>1, <1>3, <1>4, <1>6, <1>7, TwoEndsKeep DEF o

LEMMA ReceiveDirectIInv ==
  ASSUME IInv, NEW s \in Sides, NEW u \in Upgrades, ReceiveDirect(s, u)
  PROVE  IInv'
<1> DEFINE o == Other(s)
           q == end[o].direct[u]
           m == Head(q)
           e == IF end[s].tpeer = u THEN Open(s, end[s], m) ELSE end[s]
           r == Tail(q)
           g == [end[o] EXCEPT !.direct[u] = r]
           C == end[o].commits
<1>1. /\ Fit(s, end[s], C) /\ o \in Sides /\ o # s /\ C \in SUBSET Upgrades
      /\ end \in [Sides -> EndStates] /\ end[s].commits \in SUBSET Upgrades
  BY IInvOf, Parts
<1>2. Fit(o, end[o], end[s].commits) /\ end[o] \in EndStates
  <2>1. Other(o) = s
    BY DEF Other, Sides
  <2> QED BY <1>1, <2>1, IInvOf
<1>3. end' = [end EXCEPT ![o] = g, ![s] = e]
  BY <1>1 DEF ReceiveDirect
<1>4. q # <<>> /\ q \in Seq(Frames) /\ UNCHANGED <<setting, used, candidates, changes>>
  BY <1>2, Parts DEF ReceiveDirect
<1> HIDE DEF q
<1>5. m \in Frames /\ m \in ToSet(q) /\ r \in Seq(Frames) /\ ToSet(r) \subseteq ToSet(q)
  BY <1>4, Taken
<1>6. Fit(o, g, end[s].commits) /\ Same(end[o], g)
  BY <1>1, <1>2, <1>5, DirectTakenFits DEF q
<1>7. Fit(s, e, C) /\ e.commits = end[s].commits /\ e.prefers = end[s].prefers
  <2>1. m \in Held(end[o])
    BY <1>5 DEF Held, q
  <2>2. Genuine(m, C)
    BY <1>2, <1>5, <2>1 DEF Fit, Backed, Carried, Genuine
  <2>3. CASE end[s].tpeer = u
    <3>1. e = Open(s, end[s], m)
      BY <2>3
    <3> HIDE DEF e, m
    <3> QED BY <1>1, <2>2, <3>1, OpenFits
  <2>4. CASE end[s].tpeer # u
    <3>1. e = end[s]
      BY <2>4
    <3> HIDE DEF e, m
    <3> QED BY <1>1, <3>1
  <2> QED BY <2>3, <2>4
<1> HIDE DEF o, m, e, g, r
<1> QED BY <1>1, <1>3, <1>4, <1>6, <1>7, TwoEndsKeep DEF o

LEMMA DirectLostIInv ==
  ASSUME IInv, NEW s \in Sides, NEW u \in Upgrades, DirectLost(s, u)
  PROVE  IInv'
<1> DEFINE e == [end[s] EXCEPT !.direct[u] = <<>>]
<1>1. /\ Fit(s, end[s], end[Other(s)].commits) /\ end[Other(s)].commits \in SUBSET Upgrades
      /\ end \in [Sides -> EndStates]
  BY IInvOf
<1>2. <<>> \in Seq(Frames) /\ ToSet(<<>>) = {}
  BY NoFrame
<1>3. Fit(s, e, end[Other(s)].commits) /\ Same(end[s], e)
  BY <1>1, <1>2, DirectTakenFits
<1>4. Becomes(s, e) /\ UNCHANGED <<candidates, changes>>
  BY <1>1 DEF DirectLost, Becomes
<1> HIDE DEF e
<1> QED BY <1>3, <1>4, OneEndStep

LEMMA SayIInv ==
  ASSUME IInv, NEW s \in Sides, Say(s)
  PROVE  IInv'
<1> DEFINE e == SendBusiness(s, end[s])
<1>1. Fit(s, end[s], end[Other(s)].commits) /\ end[Other(s)].commits \in SUBSET Upgrades
  BY IInvOf
<1>2. /\ Fit(s, e, end[Other(s)].commits)
      /\ e.commits = end[s].commits /\ e.prefers = end[s].prefers
  BY <1>1, SendBusinessFits
<1>3. Becomes(s, e) /\ UNCHANGED <<candidates, changes>>
  BY DEF Say
<1> HIDE DEF e
<1> QED BY <1>2, <1>3, OneEndKeeps DEF IInv

\* Sending leaves the coordinator alone.
Coordinates(e, f) ==
  /\ f.st = e.st /\ f.up = e.up /\ f.peer = e.peer
  /\ f.local = e.local /\ f.remote = e.remote

LEMMA SendCoordinates ==
  ASSUME NEW s \in Sides, NEW e \in EndStates, NEW k
  PROVE  Coordinates(e, SendControl(s, e, k))
<1> DEFINE m == Control(k, e.up)
           one == <<m>>
           q == Seal(e, one)
           n == Sealed(e, one)
<1>1. /\ n.st = e.st /\ n.up = e.up /\ n.peer = e.peer /\ n.local = e.local
      /\ n.remote = e.remote /\ n.path = e.path /\ n.strict = e.strict
      /\ n = [e EXCEPT !.tx = n.tx]
  BY DEF Sealed, EndStates
<1>2. /\ Coordinates(e, OverRelay(n, q)) /\ Coordinates(e, OverDirect(n, q))
      /\ Coordinates(e, OverRelay(ForceCloseRoute(n), Tail(q)))
      /\ Coordinates(e, [n EXCEPT !.outQ = @ \o q])
  <2> HIDE DEF q
  <2> QED BY <1>1 DEF Coordinates, OverRelay, OverDirect, ForceCloseRoute, AgentDetach, Sealed,
                      EndStates
<1>3. CASE s = "app"
  <2>1. SendControl(s, e, k) = OverRelay(n, q)
    BY <1>3 DEF SendControl
  <2> QED BY <1>2, <2>1
<1>4. CASE s = "agent"
  <2>1. SendControl(s, e, k) \in {[n EXCEPT !.outQ = @ \o q], OverRelay(n, q), AgentDispatch(n, q)}
    BY <1>4 DEF SendControl, AgentSend
  <2>2. AgentDispatch(n, q) \in
          {OverDirect(n, q), OverRelay(ForceCloseRoute(n), Tail(q)), OverRelay(n, q)}
    BY DEF AgentDispatch
  <2> QED BY <1>2, <2>1, <2>2
<1> QED BY <1>3, <1>4 DEF Sides

\* The coordinator's state and its description change, and nothing else.
LEMMA StateFits ==
  ASSUME NEW s \in Sides, NEW C \in SUBSET Upgrades, NEW e, Fit(s, e, C), e.up # None,
         NEW st \in CoordinatorStates \ {"idle"}
  PROVE  Fit(s, [e EXCEPT !.st = st], C) /\ Same(e, [e EXCEPT !.st = st])
<1> DEFINE f == [e EXCEPT !.st = st]
<1>1. e \in EndStates
  BY DEF Fit, Shaped
<1>2. f \in EndStates
  BY <1>1, Records
<1>3. /\ Same(e, f) /\ f.relay = e.relay /\ f.direct = e.direct /\ f.outQ = e.outQ
      /\ f.parked = e.parked /\ f.local = e.local /\ f.remote = e.remote /\ f.up = e.up
      /\ f.tpeer = e.tpeer /\ f.strict = e.strict /\ f.drains = e.drains
      /\ f.queueing = e.queueing /\ f.switching = e.switching /\ f.st = st
      /\ f.peer = e.peer
  BY <1>1 DEF Same, EndStates
<1> HIDE DEF f
<1>4. Shaped(f)
  BY <1>2, <1>3 DEF Fit, Shaped
<1>5. Quiet(s, e, f, C)
  BY <1>3, <1>4 DEF Quiet, Fit, Backed, Direct, Same
<1> QED BY <1>3, <1>5, QuietFits DEF f

LEMMA SdpFits ==
  ASSUME NEW s \in Sides, NEW C \in SUBSET Upgrades, NEW e, Fit(s, e, C),
         NEW x \in {"none", "offered", "done"}
  PROVE  Fit(s, [e EXCEPT !.sdp = x], C) /\ Same(e, [e EXCEPT !.sdp = x])
<1> DEFINE f == [e EXCEPT !.sdp = x]
<1>1. e \in EndStates
  BY DEF Fit, Shaped
<1>2. f \in EndStates
  BY <1>1, Records
<1>3. /\ Same(e, f) /\ f.relay = e.relay /\ f.direct = e.direct /\ f.outQ = e.outQ
      /\ f.parked = e.parked /\ f.local = e.local /\ f.remote = e.remote /\ f.up = e.up
      /\ f.tpeer = e.tpeer /\ f.strict = e.strict /\ f.drains = e.drains
      /\ f.queueing = e.queueing /\ f.switching = e.switching /\ f.st = e.st
      /\ f.peer = e.peer
  BY <1>1 DEF Same, EndStates
<1> HIDE DEF f
<1>4. Shaped(f)
  BY <1>2, <1>3 DEF Fit, Shaped
<1>5. Quiet(s, e, f, C)
  BY <1>3, <1>4 DEF Quiet, Fit, Backed, Direct, Same
<1> QED BY <1>3, <1>5, QuietFits DEF f

LEMMA MakePeerIInv ==
  ASSUME IInv, NEW s \in Sides, MakePeer(s)
  PROVE  IInv'
<1> DEFINE e == end[s]
           C == end[Other(s)].commits
           a == [e EXCEPT !.peer = e.up]
           l == e.alive \cup {e.up}
           b == [a EXCEPT !.alive = l]
           st == IF s = "agent" THEN "negotiating" ELSE "proposed"
           f == [b EXCEPT !.st = st]
<1>1. Fit(s, e, C) /\ C \in SUBSET Upgrades /\ e \in EndStates
  BY IInvOf
<1>2. e.st = "proposed" /\ UNCHANGED <<candidates, changes>>
  BY DEF MakePeer
<1>3. e.up \in Upgrades
  BY <1>1, <1>2, Parts DEF Fit, Shaped
<1>4. Becomes(s, f)
  BY <1>1, <1>2 DEF MakePeer, EndStates
<1>5. l \in SUBSET Upgrades /\ st \in CoordinatorStates \ {"idle"}
  BY <1>1, <1>3, Parts DEF CoordinatorStates
<1> HIDE DEF e, l, st, C
<1>6. a \in EndStates
  BY <1>1, <1>3, Records
<1>7. b \in EndStates
  BY <1>5, <1>6, Records
<1>8. f \in EndStates
  BY <1>5, <1>7, Records
<1>9. /\ Same(e, f) /\ f.relay = e.relay /\ f.direct = e.direct /\ f.outQ = e.outQ
      /\ f.parked = e.parked /\ f.local = e.local /\ f.remote = e.remote /\ f.up = e.up
      /\ f.tpeer = e.tpeer /\ f.strict = e.strict /\ f.drains = e.drains
      /\ f.queueing = e.queueing /\ f.switching = e.switching /\ f.st = st
      /\ f.peer = e.up
  BY <1>1 DEF Same, EndStates
<1> HIDE DEF f
<1>10. Shaped(f)
  BY <1>1, <1>3, <1>5, <1>8, <1>9, TransportAssumption DEF Fit, Shaped, TransportAssumption
<1>11. Quiet(s, e, f, C)
  BY <1>1, <1>9, <1>10 DEF Quiet, Fit, Backed, Direct, Same
<1>12. Fit(s, f, C)
  BY <1>1, <1>11, QuietFits
<1> QED BY <1>2, <1>4, <1>9, <1>12, OneEndStep DEF e, C

LEMMA SendOfferIInv == IInv /\ SendOffer => IInv'
<1> SUFFICES ASSUME IInv, SendOffer PROVE IInv'
  OBVIOUS
<1> DEFINE e == end["app"]
           C == end[Other("app")].commits
           n == SendControl("app", e, "offer")
           f == [n EXCEPT !.st = "negotiating"]
<1>1. "app" \in Sides
  BY DEF Sides
<1>2. Fit("app", e, C) /\ C \in SUBSET Upgrades /\ e \in EndStates
  BY <1>1, IInvOf
<1>3. e.st = "proposed" /\ UNCHANGED <<candidates, changes>> /\ Becomes("app", f)
  BY DEF SendOffer
<1>4. e.up # None
  BY <1>2, <1>3 DEF Fit, Shaped
<1> HIDE DEF e, C
<1>5. Fit("app", n, C) /\ Same(e, n) /\ n.up = e.up
  BY <1>1, <1>2, SendControlFits, SendCoordinates DEF Kinds, Coordinates
<1> HIDE DEF n
<1>6. Fit("app", f, C) /\ Same(n, f)
  BY <1>1, <1>2, <1>4, <1>5, StateFits DEF CoordinatorStates
<1> HIDE DEF f
<1> QED BY <1>1, <1>3, <1>5, <1>6, OneEndStep DEF e, C, Same

LEMMA SendAnswerIInv == IInv /\ SendAnswer => IInv'
<1> SUFFICES ASSUME IInv, SendAnswer PROVE IInv'
  OBVIOUS
<1> DEFINE e == end["agent"]
           C == end[Other("agent")].commits
           n == SendControl("agent", e, "answer")
           f == [n EXCEPT !.sdp = "done"]
<1>1. "agent" \in Sides
  BY DEF Sides
<1>2. Fit("agent", e, C) /\ C \in SUBSET Upgrades /\ e \in EndStates
  BY <1>1, IInvOf
<1>3. UNCHANGED <<candidates, changes>> /\ Becomes("agent", f)
  BY DEF SendAnswer
<1> HIDE DEF e, C
<1>4. Fit("agent", n, C) /\ Same(e, n)
  BY <1>1, <1>2, SendControlFits DEF Kinds
<1> HIDE DEF n
<1>5. Fit("agent", f, C) /\ Same(n, f)
  BY <1>1, <1>2, <1>4, SdpFits
<1> HIDE DEF f
<1> QED BY <1>1, <1>3, <1>4, <1>5, OneEndStep DEF e, C, Same

LEMMA FindCandidateIInv ==
  ASSUME IInv, NEW s \in Sides, FindCandidate(s)
  PROVE  IInv'
<1> DEFINE e == SendControl(s, end[s], "candidate")
<1>1. /\ Fit(s, end[s], end[Other(s)].commits) /\ end[Other(s)].commits \in SUBSET Upgrades
  BY IInvOf
<1>2. Fit(s, e, end[Other(s)].commits) /\ Same(end[s], e)
  BY <1>1, SendControlFits DEF Kinds
<1>3. Becomes(s, e) /\ UNCHANGED changes /\ candidates' \in [Sides -> Nat]
  BY DEF FindCandidate, IInv
<1> HIDE DEF e
<1> QED BY <1>2, <1>3, OneEndKeeps DEF IInv, Same

LEMMA ConnectedIInv ==
  ASSUME IInv, NEW s \in Sides, Connected(s)
  PROVE  IInv'
<1> DEFINE e == end[s]
           C == end[Other(s)].commits
           k == e.commits \cup {e.up}
           a == [e EXCEPT !.local = TRUE]
           b == [a EXCEPT !.st = "committing"]
           c == [b EXCEPT !.commits = k]
           n == SendControl(s, c, "committed")
           f == MaybeUpgrade(s, n)
<1>1. Fit(s, e, C) /\ C \in SUBSET Upgrades /\ e \in EndStates
  BY IInvOf
<1>2. e.st = "negotiating" /\ UNCHANGED <<candidates, changes>>
  BY DEF Connected
<1>3. e.up \in Upgrades
  BY <1>1, <1>2, Parts DEF Fit, Shaped
<1>4. [e EXCEPT !.local = TRUE, !.st = "committing", !.commits = k] = c
  BY <1>1 DEF EndStates
<1>5. Becomes(s, f)
  <2> HIDE DEF c
  <2> QED BY <1>4 DEF Connected
<1>6. k \in SUBSET Upgrades /\ e.commits \subseteq k /\ e.up \in k
  BY <1>1, <1>3, Parts
<1> HIDE DEF e, C, k
<1>7. a \in EndStates
  BY <1>1, Records
<1>8. b \in EndStates
  BY <1>7, Records DEF CoordinatorStates
<1>9. c \in EndStates
  BY <1>6, <1>8, Records
<1>10. /\ c.commits = k /\ c.prefers = e.prefers
       /\ c.relay = e.relay /\ c.direct = e.direct /\ c.outQ = e.outQ
       /\ c.parked = e.parked /\ c.local = TRUE /\ c.remote = e.remote /\ c.up = e.up
       /\ c.tpeer = e.tpeer /\ c.strict = e.strict /\ c.drains = e.drains
       /\ c.queueing = e.queueing /\ c.switching = e.switching /\ c.st = "committing"
       /\ c.peer = e.peer
  BY <1>1 DEF EndStates
<1> HIDE DEF c
<1>11. Shaped(c)
  BY <1>1, <1>3, <1>9, <1>10, TransportAssumption DEF Fit, Shaped, TransportAssumption
<1>12. UNION {ToSet(c.direct[x]) : x \in Upgrades} = UNION {ToSet(e.direct[x]) : x \in Upgrades}
  BY <1>10
<1>13. Carried(c) = Carried(e) /\ Held(c) = Held(e)
  BY <1>10, <1>12 DEF Carried, Held
<1>14. Backed(c, C)
  BY <1>1, <1>6, <1>10, <1>13 DEF Fit, Backed
<1>15. Direct(s, c)
  BY <1>1, <1>10 DEF Fit, Direct
<1>16. Fit(s, c, C)
  BY <1>11, <1>14, <1>15 DEF Fit
<1>17. Fit(s, n, C) /\ Same(c, n) /\ n.up = c.up
  BY <1>1, <1>6, <1>9, <1>10, <1>16, SendControlFits, SendCoordinates DEF Kinds, Coordinates
<1> HIDE DEF n
<1>18. n.up # None
  BY <1>3, <1>10, <1>17, TransportAssumption DEF TransportAssumption
<1>19. Fit(s, f, C) /\ Same(n, f)
  BY <1>1, <1>17, <1>18, MaybeUpgradeFits
<1> HIDE DEF f
<1>20. f.commits = k /\ f.prefers = e.prefers
  BY <1>10, <1>17, <1>19 DEF Same
<1> QED BY <1>2, <1>5, <1>6, <1>19, <1>20, OneEndKeeps DEF IInv, e, C

LEMMA NegotiationFailsIInv ==
  ASSUME IInv, NEW s \in Sides, NegotiationFails(s)
  PROVE  IInv'
<1> DEFINE e == Downgrade(s, end[s])
<1>1. Fit(s, end[s], end[Other(s)].commits) /\ end[Other(s)].commits \in SUBSET Upgrades
  BY IInvOf
<1>2. Fit(s, e, end[Other(s)].commits) /\ Same(end[s], e)
  BY <1>1, DowngradeFits
<1>3. Becomes(s, e) /\ UNCHANGED <<candidates, changes>>
  BY DEF NegotiationFails
<1> HIDE DEF e
<1> QED BY <1>2, <1>3, OneEndStep

LEMMA PeerLostIInv ==
  ASSUME IInv, NEW s \in Sides, PeerLost(s)
  PROVE  IInv'
<1> DEFINE e == IF end[s].path = "p2p" THEN HealthDowngrade(s, end[s]) ELSE Detach(s, end[s])
<1>1. Fit(s, end[s], end[Other(s)].commits) /\ end[Other(s)].commits \in SUBSET Upgrades
  BY IInvOf
<1>2. Fit(s, e, end[Other(s)].commits) /\ Same(end[s], e)
  BY <1>1, HealthDowngradeFits, DetachFits
<1>3. Becomes(s, e) /\ UNCHANGED <<candidates, changes>>
  BY DEF PeerLost
<1> HIDE DEF e
<1> QED BY <1>2, <1>3, OneEndStep

LEMMA NetworkChangedIInv == IInv /\ NetworkChanged => IInv'
<1> SUFFICES ASSUME IInv, NetworkChanged PROVE IInv'
  OBVIOUS
<1> DEFINE e == Reconnect(end["app"])
           C == end[Other("app")].commits
<1>1. "app" \in Sides
  BY DEF Sides
<1>2. Fit("app", end["app"], C) /\ C \in SUBSET Upgrades
  BY <1>1, IInvOf
<1>3. Fit("app", e, C) /\ Same(end["app"], e)
  BY <1>2, ReconnectFits
<1>4. Becomes("app", e) /\ UNCHANGED candidates /\ changes' \in Nat
  BY DEF NetworkChanged, IInv
<1> HIDE DEF e
<1> QED BY <1>1, <1>3, <1>4, OneEndKeeps DEF IInv, Same

\* The App's route goes to the background, or comes back from it.
LEMMA PauseFits ==
  ASSUME NEW C \in SUBSET Upgrades, NEW e, Fit("app", e, C), NEW p \in {"relay", e.path},
         NEW x \in BOOLEAN
  PROVE  LET f == [e EXCEPT !.path = p, !.backgroundPaused = x]
         IN  Fit("app", f, C) /\ Same(e, f)
<1> DEFINE a == [e EXCEPT !.path = p]
           f == [a EXCEPT !.backgroundPaused = x]
<1>1. e \in EndStates
  BY DEF Fit, Shaped
<1>2. [e EXCEPT !.path = p, !.backgroundPaused = x] = f
  BY <1>1 DEF EndStates
<1>3. a \in EndStates
  BY <1>1, Parts, Records DEF Paths
<1>4. f \in EndStates
  BY <1>3, Records
<1>5. /\ Same(e, f) /\ f.relay = e.relay /\ f.direct = e.direct /\ f.outQ = e.outQ
      /\ f.parked = e.parked /\ f.local = e.local /\ f.remote = e.remote /\ f.up = e.up
      /\ f.tpeer = e.tpeer /\ f.strict = e.strict /\ f.drains = e.drains
      /\ f.queueing = e.queueing /\ f.switching = e.switching /\ f.st = e.st
      /\ f.peer = e.peer
  BY <1>1 DEF Same, EndStates
<1> HIDE DEF f
<1>6. Shaped(f)
  BY <1>4, <1>5 DEF Fit, Shaped
<1>7. Quiet("app", e, f, C)
  BY <1>5, <1>6 DEF Quiet, Fit, Backed, Direct, Same
<1>8. "app" \in Sides
  BY DEF Sides
<1> QED BY <1>2, <1>5, <1>7, <1>8, QuietFits

LEMMA BackgroundIInv == IInv /\ Background => IInv'
<1> SUFFICES ASSUME IInv, Background PROVE IInv'
  OBVIOUS
<1> DEFINE C == end[Other("app")].commits
           o == end["app"]
<1>1. "app" \in Sides /\ UNCHANGED candidates /\ changes' \in Nat
  BY DEF Sides, Background, IInv
<1>2. Fit("app", o, C) /\ C \in SUBSET Upgrades /\ o \in EndStates
  BY <1>1, IInvOf
<1>3. CASE o.prefers
  <2> DEFINE d == AppDetach(o)
             e == [d EXCEPT !.path = "relay", !.backgroundPaused = TRUE]
  <2>1. Becomes("app", e)
    BY <1>3 DEF Background
  <2>2. Fit("app", d, C) /\ Same(o, d)
    BY <1>1, <1>2, AppDetachFits
  <2> HIDE DEF d
  <2>3. Fit("app", e, C) /\ Same(d, e)
    BY <1>2, <2>2, PauseFits
  <2> HIDE DEF e
  <2> QED BY <1>1, <2>1, <2>2, <2>3, OneEndKeeps DEF IInv, Same
<1>4. CASE ~o.prefers
  <2> DEFINE d == HealthDowngrade("app", o)
             e == Downgrade("app", d)
  <2>1. Becomes("app", e)
    BY <1>4 DEF Background
  <2>2. Fit("app", d, C) /\ Same(o, d)
    BY <1>1, <1>2, HealthDowngradeFits
  <2> HIDE DEF d
  <2>3. Fit("app", e, C) /\ Same(d, e)
    BY <1>1, <1>2, <2>2, DowngradeFits
  <2> HIDE DEF e
  <2> QED BY <1>1, <2>1, <2>2, <2>3, OneEndKeeps DEF IInv, Same
<1> QED BY <1>3, <1>4

LEMMA ForegroundIInv == IInv /\ Foreground => IInv'
<1> SUFFICES ASSUME IInv, Foreground PROVE IInv'
  OBVIOUS
<1> DEFINE C == end[Other("app")].commits
           o == end["app"]
           d == Reconnect(o)
           e == [d EXCEPT !.backgroundPaused = FALSE]
<1>1. "app" \in Sides /\ UNCHANGED <<candidates, changes>> /\ Becomes("app", e)
  BY DEF Sides, Foreground
<1>2. Fit("app", o, C) /\ C \in SUBSET Upgrades
  BY <1>1, IInvOf
<1>3. Fit("app", d, C) /\ Same(o, d)
  BY <1>2, ReconnectFits
<1> HIDE DEF d
<1>4. e = [d EXCEPT !.path = d.path, !.backgroundPaused = FALSE]
  BY <1>3 DEF Fit, Shaped, EndStates
<1>5. Fit("app", e, C) /\ Same(d, e)
  BY <1>2, <1>3, <1>4, PauseFits
<1> HIDE DEF e
<1> QED BY <1>1, <1>3, <1>5, OneEndStep DEF Same

LEMMA DrainEndsIInv ==
  ASSUME IInv, NEW s \in Sides, DrainEnds(s)
  PROVE  IInv'
<1> DEFINE e == AfterDrain(s, end[s])
<1>1. Fit(s, end[s], end[Other(s)].commits) /\ end[Other(s)].commits \in SUBSET Upgrades
  BY IInvOf
<1>2. Becomes(s, e) /\ UNCHANGED <<candidates, changes>> /\ end[s].drains # <<>>
  BY DEF DrainEnds
<1>3. Fit(s, e, end[Other(s)].commits) /\ Same(end[s], e)
  BY <1>1, <1>2, AfterDrainFits
<1> HIDE DEF e
<1> QED BY <1>2, <1>3, OneEndStep

LEMMA NextIInv == IInv /\ [Next]_vars => IInv'
<1> SUFFICES ASSUME IInv, [Next]_vars PROVE IInv'
  OBVIOUS
<1>1. CASE UNCHANGED vars
  BY <1>1 DEF IInv, vars, Fit, Shaped, Backed, Direct, Carried, Held
<1>2. ASSUME NEW s \in Sides, EndNext(s) PROVE IInv'
  BY <1>2, ReceiveIInv, ReceiveDirectIInv, DirectLostIInv, SayIInv, MakePeerIInv,
     FindCandidateIInv, ConnectedIInv, NegotiationFailsIInv, PeerLostIInv, DrainEndsIInv
  DEF EndNext
<1> QED
  BY <1>1, <1>2, ProposeIInv, SendOfferIInv, SendAnswerIInv, NetworkChangedIInv,
     BackgroundIInv, ForegroundIInv DEF Next

-----------------------------------------------------------------------------
(* Results.                                                                *)

\* The inductive invariant holds in every reachable state.
THEOREM TunnelInvariant == Spec => []IInv
<1> QED BY InitIInv, NextIInv, PTL DEF Spec

\* The ends are in states of their code whatever fails, and a transport is given
\* a peer connection only after both coordinators committed the upgrade it was
\* made for.
THEOREM EndsAgree == Spec => []EndsSound
<1>1. IInv => EndsSound
  <2> SUFFICES ASSUME IInv PROVE EndsSound
    OBVIOUS
  <2>1. TypeOK
    BY DEF IInv, TypeOK, Fit, Shaped
  <2>2. ASSUME NEW s \in Sides, end[s].tpeer # None
        PROVE  end[s].tpeer \in end["app"].commits \cap end["agent"].commits
    BY <2>2 DEF IInv, Fit, Backed, Other, Sides
  <2> QED BY <2>1, <2>2 DEF EndsSound, DirectAgreed
<1> QED BY <1>1, TunnelInvariant, PTL

\* Business of an App in strict mode never goes through the relay.
THEOREM StrictStaysDirect == Spec => []StrictAppDirect
<1>1. IInv => StrictAppDirect
  <2> SUFFICES ASSUME IInv, setting.strict, NEW i \in DOMAIN end["app"].relay
               PROVE  end["app"].relay[i].kind # "business"
    BY DEF StrictAppDirect
  <2>1. "app" \in Sides /\ end["app"] \in EndStates /\ end["app"].prefers
        /\ \A f \in ToSet(end["app"].relay) : f.kind # "business"
    BY DEF IInv, Fit, Direct, Sides
  <2> QED BY <2>1 DEF ToSet
<1> QED BY <1>1, TunnelInvariant, PTL

-----------------------------------------------------------------------------
(* The two paths are one channel.                                          *)
(*                                                                         *)
(* b numbers what an end has sealed: b[k] is the last business message     *)
(* among its first k frames.  The numbers its frames carry and the last    *)
(* message the other end has received agree with b.  The App's messages     *)
(* that wait are younger than all it has sealed, and wait in order in one   *)
(* of its two queues.                                                      *)

\* Frames that have their number.
Sent(s, e) ==
  ToSet(e.relay) \cup (IF s = "agent" THEN ToSet(e.outQ) \cup ToSet(e.parked) ELSE {})
    \cup UNION {ToSet(e.direct[u]) : u \in Upgrades}

Queued(q, lo, hi) ==
  \A i \in 1..Len(q) : /\ q[i].kind = "business" /\ lo < q[i].biz /\ q[i].biz <= hi
                       /\ i > 1 => q[i - 1].biz < q[i].biz

\* An App that prefers the direct path parks, another one queues.
OneQueue(e) ==
  /\ e.prefers => /\ e.outQ = <<>>
                  /\ e.queueing => e.path = "relay"
                  /\ e.path = "p2p" => e.parked = <<>>
  /\ ~e.prefers => e.parked = <<>>

\* A sealed frame agrees with b.
Agrees(s, f, tx, b) ==
  f.kind # "propose" =>
    /\ f.seq \in 1..tx
    /\ f.kind = "business" => /\ f.biz = b[f.seq] /\ b[f.seq - 1] < b[f.seq]
                              /\ s = "agent" => b[f.seq] = b[f.seq - 1] + 1
    /\ f.kind # "business" => b[f.seq] = b[f.seq - 1]

\* b gives the frames that were sent their messages.
Marks(s, e, b) ==
  /\ b \in [0..e.tx -> Nat]
  /\ \A k \in 0..e.tx : b[k] <= e.accepted
  /\ \A f \in Sent(s, e) : Agrees(s, f, e.tx, b)

Counted(s, e, b) ==
  /\ Marks(s, e, b)
  /\ s = "agent" => b[e.tx] = e.accepted
  /\ s = "app" => /\ OneQueue(e)
                  /\ Queued(e.outQ, b[e.tx], e.accepted)
                  /\ Queued(e.parked, b[e.tx], e.accepted)

LastOf(q) == IF q = <<>> THEN 0 ELSE q[Len(q)]

\* What the other end, o, has read of e.
ReadBy(o, e, b) == o.rx <= e.tx /\ LastOf(o.got) = b[o.rx]

Numbered ==
  \A s \in Sides :
    \E b \in [0..end[s].tx -> Nat] :
      Counted(s, end[s], b) /\ ReadBy(end[Other(s)], end[s], b)

\* From e to f whatever was numbered keeps its number.
Continues(s, e, f) ==
  \A b : Counted(s, e, b) =>
    /\ e.tx <= f.tx
    /\ \E c : Counted(s, f, c) /\ \A k \in 0..e.tx : c[k] = b[k]

LEMMA ContinuesOn ==
  ASSUME NEW s \in Sides, NEW e \in EndStates, NEW f \in EndStates, NEW g \in EndStates,
         Continues(s, e, f), Continues(s, f, g)
  PROVE  Continues(s, e, g)
<1>1. e.tx \in Nat /\ f.tx \in Nat /\ g.tx \in Nat
  BY Parts
<1> SUFFICES ASSUME NEW b, Counted(s, e, b)
             PROVE  /\ e.tx <= g.tx
                    /\ \E d : Counted(s, g, d) /\ \A k \in 0..e.tx : d[k] = b[k]
  BY DEF Continues
<1>2. e.tx <= f.tx
  BY DEF Continues
<1>3. PICK c : Counted(s, f, c) /\ \A k \in 0..e.tx : c[k] = b[k]
  BY DEF Continues
<1>4. f.tx <= g.tx
  BY <1>3 DEF Continues
<1>5. PICK d : Counted(s, g, d) /\ \A k \in 0..f.tx : d[k] = c[k]
  BY <1>3 DEF Continues
<1>6. e.tx <= g.tx /\ \A k \in 0..e.tx : k \in 0..f.tx
  BY <1>1, <1>2, <1>4
<1> QED BY <1>3, <1>5, <1>6

\* Nothing is sealed, nothing is accepted, and what was sent may be lost.
Plain(s, e, f) ==
  /\ f.tx = e.tx /\ f.accepted = e.accepted
  /\ Sent(s, f) \subseteq Sent(s, e)
  /\ s = "app" => /\ f.outQ \in {e.outQ, <<>>} /\ f.parked \in {e.parked, <<>>}
                  /\ OneQueue(e) => OneQueue(f)

LEMMA PlainContinues ==
  ASSUME NEW s, NEW e, NEW f, Plain(s, e, f), e.tx \in Nat
  PROVE  Continues(s, e, f)
<1>1. f.tx <= f.tx /\ e.tx <= f.tx
  BY DEF Plain
<1>2. ASSUME NEW b, Counted(s, e, b) PROVE Counted(s, f, b)
  <2>1. s = "agent" => b[f.tx] = f.accepted
    BY <1>2 DEF Counted, Plain
  <2>2. Marks(s, f, b)
    BY <1>2 DEF Counted, Marks, Plain
  <2>3. \A lo, hi : Queued(<<>>, lo, hi)
    BY NoFrame DEF Queued
  <2>4. s = "app" => /\ OneQueue(f)
                     /\ Queued(f.outQ, b[f.tx], f.accepted)
                     /\ Queued(f.parked, b[f.tx], f.accepted)
    BY <1>2, <2>3 DEF Counted, Plain
  <2> QED BY <2>1, <2>2, <2>4 DEF Counted
<1> QED BY <1>1, <1>2 DEF Continues

LEMMA PlainOn ==
  ASSUME NEW s, NEW e, NEW f, NEW g, Plain(s, e, f), Plain(s, f, g)
  PROVE  Plain(s, e, g)
BY DEF Plain

\* What matters to the channel is left alone.
LEMMA Untouched ==
  ASSUME NEW s, NEW e, NEW f,
         f.relay = e.relay, f.direct = e.direct, f.outQ = e.outQ, f.parked = e.parked,
         f.tx = e.tx, f.accepted = e.accepted, f.path = e.path, f.queueing = e.queueing,
         f.prefers = e.prefers
  PROVE  Plain(s, e, f)
<1>1. Sent(s, f) = Sent(s, e)
  BY DEF Sent
<1> QED BY <1>1 DEF Plain, OneQueue

LEMMA AppDetachPlain ==
  ASSUME NEW s, NEW e \in EndStates
  PROVE  Plain(s, e, AppDetach(e))
<1> DEFINE f == AppDetach(e)
<1>1. /\ f.relay = e.relay /\ f.direct = e.direct /\ f.outQ = e.outQ /\ f.parked = e.parked
      /\ f.tx = e.tx /\ f.accepted = e.accepted /\ f.path = e.path
      /\ f.queueing = e.queueing /\ f.prefers = e.prefers
  BY DEF AppDetach, EndStates
<1> QED BY <1>1, Untouched

LEMMA AgentDetachPlain ==
  ASSUME NEW s, NEW e \in EndStates
  PROVE  Plain(s, e, AgentDetach(e))
<1> DEFINE f == AgentDetach(e)
<1>1. /\ f.relay = e.relay /\ f.direct = e.direct /\ f.outQ = <<>> /\ f.parked = e.parked
      /\ f.tx = e.tx /\ f.accepted = e.accepted /\ f.path = "relay"
      /\ f.queueing = FALSE /\ f.prefers = e.prefers
  BY DEF AgentDetach, EndStates
<1> HIDE DEF f
<1>2. ToSet(<<>>) = {}
  BY NoFrame
<1>3. Sent(s, f) \subseteq Sent(s, e)
  BY <1>1, <1>2 DEF Sent
<1>4. OneQueue(e) => OneQueue(f)
  BY <1>1 DEF OneQueue
<1> QED BY <1>1, <1>3, <1>4 DEF Plain, f

LEMMA ForceClosePlain ==
  ASSUME NEW s, NEW e \in EndStates
  PROVE  Plain(s, e, ForceClose(e))
<1> DEFINE f == ForceClose(e)
<1>1. /\ f.relay = e.relay /\ f.direct = e.direct /\ f.outQ = e.outQ /\ f.parked = e.parked
      /\ f.tx = e.tx /\ f.accepted = e.accepted /\ f.path = e.path
      /\ f.queueing = e.queueing /\ f.prefers = e.prefers
  BY DEF ForceClose, EndStates
<1> QED BY <1>1, Untouched

LEMMA PlainItself ==
  ASSUME NEW s, NEW e
  PROVE  Plain(s, e, e)
BY DEF Plain

LEMMA ForceCloseRoutePlain ==
  ASSUME NEW s, NEW e \in EndStates
  PROVE  Plain(s, e, ForceCloseRoute(e))
<1> DEFINE d == AgentDetach(e)
           f == [d EXCEPT !.strict = FALSE, !.parked = <<>>]
<1>1. /\ f.relay = e.relay /\ f.direct = e.direct /\ f.outQ = <<>> /\ f.parked = <<>>
      /\ f.tx = e.tx /\ f.accepted = e.accepted /\ f.path = "relay"
      /\ f.queueing = FALSE /\ f.prefers = e.prefers
  BY DEF AgentDetach, EndStates
<1>2. ForceCloseRoute(e) \in {e, f}
  BY DEF ForceCloseRoute
<1> HIDE DEF f
<1>3. ToSet(<<>>) = {}
  BY NoFrame
<1>4. Sent(s, f) \subseteq Sent(s, e)
  BY <1>1, <1>3 DEF Sent
<1>5. OneQueue(f)
  BY <1>1 DEF OneQueue
<1>6. Plain(s, e, f)
  BY <1>1, <1>4, <1>5 DEF Plain
<1> QED BY <1>2, <1>6, PlainItself

LEMMA DetachPlain ==
  ASSUME NEW s, NEW e \in EndStates
  PROVE  Plain(s, e, Detach(s, e))
BY AppDetachPlain, AgentDetachPlain DEF Detach

LEMMA SwitchPathPlain ==
  ASSUME NEW s, NEW e \in EndStates, NEW target \in Paths,
         s = "app" /\ e.prefers => target = "p2p"
  PROVE  Plain(s, e, SwitchPath(e, target))
<1> DEFINE n == Append(e.drains, target)
           f == [e EXCEPT !.switching = TRUE, !.queueing = TRUE, !.outQ = <<>>, !.drains = n]
<1>1. CASE SwitchRefused(e, target)
  BY <1>1, PlainItself DEF SwitchPath
<1>2. CASE ~SwitchRefused(e, target)
  <2>1. /\ f.relay = e.relay /\ f.direct = e.direct /\ f.outQ = <<>> /\ f.parked = e.parked
        /\ f.tx = e.tx /\ f.accepted = e.accepted /\ f.path = e.path
        /\ f.prefers = e.prefers
    BY DEF EndStates
  <2>2. SwitchPath(e, target) = f
    BY <1>2 DEF SwitchPath
  <2> HIDE DEF f
  <2>3. ToSet(<<>>) = {}
    BY NoFrame
  <2>4. Sent(s, f) \subseteq Sent(s, e)
    BY <2>1, <2>3 DEF Sent
  <2>5. s = "app" /\ e.prefers => e.path = "relay"
    BY <1>2, Parts DEF SwitchRefused, Paths
  <2>6. s = "app" /\ OneQueue(e) => OneQueue(f)
    BY <2>1, <2>5 DEF OneQueue
  <2> QED BY <2>1, <2>2, <2>4, <2>6 DEF Plain
<1> QED BY <1>1, <1>2

LEMMA ClosePeerPlain ==
  ASSUME NEW s, NEW e \in EndStates
  PROVE  Plain(s, e, ClosePeer(e))
<1> DEFINE f == ClosePeer(e)
<1>1. /\ f.relay = e.relay /\ f.direct = e.direct /\ f.outQ = e.outQ /\ f.parked = e.parked
      /\ f.tx = e.tx /\ f.accepted = e.accepted /\ f.path = e.path
      /\ f.queueing = e.queueing /\ f.prefers = e.prefers
  BY DEF ClosePeer, EndStates
<1> QED BY <1>1, Untouched

LEMMA ResetToIdlePlain ==
  ASSUME NEW s, NEW e \in EndStates
  PROVE  Plain(s, e, ResetToIdle(e))
<1> DEFINE f == ResetToIdle(e)
<1>1. /\ f.relay = e.relay /\ f.direct = e.direct /\ f.outQ = e.outQ /\ f.parked = e.parked
      /\ f.tx = e.tx /\ f.accepted = e.accepted /\ f.path = e.path
      /\ f.queueing = e.queueing /\ f.prefers = e.prefers
  BY DEF ResetToIdle, EndStates
<1> QED BY <1>1, Untouched

LEMMA ToRelayPlain ==
  ASSUME NEW s \in Sides, NEW C \in SUBSET Upgrades, NEW e, Fit(s, e, C),
         s = "app" => ~e.prefers
  PROVE  Plain(s, e, OnSwitchPath(s, e, "relay"))
<1> DEFINE a == IF s = "agent" THEN AgentDetach(e) ELSE e
<1>1. e \in EndStates
  BY DEF Fit, Shaped
<1>2. Fit(s, a, C) /\ Plain(s, e, a) /\ (s = "app" => ~a.prefers)
  BY <1>1, AgentDetachFits, AgentDetachPlain, PlainItself DEF Sides
<1>3. OnSwitchPath(s, e, "relay") = SwitchPath(a, "relay")
  BY DEF OnSwitchPath
<1> HIDE DEF a
<1>4. a \in EndStates /\ "relay" \in Paths
  BY <1>2 DEF Fit, Shaped, Paths
<1>5. Plain(s, a, SwitchPath(a, "relay"))
  BY <1>2, <1>4, SwitchPathPlain
<1> QED BY <1>2, <1>3, <1>5, PlainOn

LEMMA ToDirectPlain ==
  ASSUME NEW s \in Sides, NEW C \in SUBSET Upgrades, NEW e, Fit(s, e, C)
  PROVE  Plain(s, e, OnSwitchPath(s, e, "p2p"))
<1> DEFINE d == Detach(s, e)
           x == e.peer
           a == [d EXCEPT !.tpeer = x]
           g == IF e.peer = None THEN e ELSE a
<1>1. e \in EndStates /\ x \in Upgrades \cup {None}
  BY Parts DEF Fit, Shaped
<1>2. d \in EndStates /\ Plain(s, e, d)
  BY <1>1, DetachFits, DetachPlain DEF Fit, Shaped
<1>3. OnSwitchPath(s, e, "p2p") = SwitchPath(g, "p2p")
  BY DEF OnSwitchPath
<1> HIDE DEF d, x
<1>4. a \in EndStates
  BY <1>1, <1>2, Records
<1>5. /\ a.relay = d.relay /\ a.direct = d.direct /\ a.outQ = d.outQ /\ a.parked = d.parked
      /\ a.tx = d.tx /\ a.accepted = d.accepted /\ a.path = d.path
      /\ a.queueing = d.queueing /\ a.prefers = d.prefers
  BY <1>2 DEF EndStates
<1> HIDE DEF a
<1>6. Plain(s, e, a)
  <2>1. Plain(s, d, a)
    BY <1>5, Untouched
  <2> QED BY <1>2, <2>1, PlainOn
<1>7. g \in EndStates /\ Plain(s, e, g) /\ "p2p" \in Paths
  BY <1>1, <1>4, <1>6, PlainItself DEF Paths
<1> HIDE DEF g
<1>8. Plain(s, g, SwitchPath(g, "p2p"))
  BY <1>7, SwitchPathPlain
<1> QED BY <1>3, <1>7, <1>8, PlainOn

LEMMA AgreesLater ==
  ASSUME NEW s, NEW x, NEW n \in Nat, NEW m \in Nat, n <= m, NEW b, NEW c,
         \A k \in 0..n : c[k] = b[k], Agrees(s, x, n, b)
  PROVE  Agrees(s, x, m, c)
<1> SUFFICES ASSUME x.kind # "propose" PROVE Agrees(s, x, m, c)
  BY DEF Agrees
<1>1. x.seq \in 1..n
  BY DEF Agrees
<1>2. x.seq \in 0..n /\ x.seq - 1 \in 0..n /\ x.seq \in 1..m
  BY <1>1
<1>3. c[x.seq] = b[x.seq] /\ c[x.seq - 1] = b[x.seq - 1]
  BY <1>2
<1> QED BY <1>2, <1>3 DEF Agrees

\* The frames of q are sealed and sent, or lost.
LEMMA Extended ==
  ASSUME NEW s \in Sides, NEW e \in EndStates, NEW b, Marks(s, e, b),
         NEW q \in Seq(Frames), NEW f,
         f.tx = e.tx + Len(q), Sent(s, f) \subseteq Sent(s, e) \cup ToSet(Seal(e, q)),
         NEW c \in [0..e.tx + Len(q) -> Nat],
         \A k \in 0..e.tx : c[k] = b[k],
         \A k \in 0..e.tx + Len(q) : c[k] <= f.accepted,
         \A i \in 1..Len(q) : Agrees(s, Seal(e, q)[i], e.tx + Len(q), c)
  PROVE  Marks(s, f, c)
<1>1. e.tx \in Nat /\ Len(q) \in Nat /\ e.tx + Len(q) \in Nat /\ e.tx <= e.tx + Len(q)
  BY Parts
<1>2. ToSet(Seal(e, q)) = {Seal(e, q)[i] : i \in 1..Len(q)}
  BY SealTyped, Elements
<1>3. ASSUME NEW x \in Sent(s, f) PROVE Agrees(s, x, f.tx, c)
  <2>1. CASE x \in Sent(s, e)
    <3>1. Agrees(s, x, e.tx, b)
      BY <2>1 DEF Marks
    <3> QED BY <1>1, <3>1, AgreesLater
  <2>2. CASE x \in ToSet(Seal(e, q))
    BY <1>2, <2>2
  <2> QED BY <2>1, <2>2
<1> QED BY <1>3 DEF Marks

\* The frames of q, which have their numbers, are put somewhere or lost.
Puts(s, e, f, q) ==
  /\ f.tx = e.tx /\ f.accepted = e.accepted
  /\ Sent(s, f) \subseteq Sent(s, e) \cup ToSet(q)

Queues(e, f) ==
  /\ f.outQ = e.outQ /\ f.parked = e.parked /\ f.path = e.path
  /\ f.queueing = e.queueing /\ f.prefers = e.prefers

LEMMA RelayPuts ==
  ASSUME NEW s, NEW e \in EndStates, NEW q \in Seq(Frames)
  PROVE  Puts(s, e, OverRelay(e, q), q) /\ Queues(e, OverRelay(e, q))
<1> DEFINE r == e.relay \o q
           f == [e EXCEPT !.relay = r]
<1>1. r \in Seq(Frames) /\ ToSet(r) = ToSet(e.relay) \cup ToSet(q)
  BY Parts, Joined
<1>2. OverRelay(e, q) = f
  BY DEF OverRelay
<1> HIDE DEF r
<1>3. /\ f.relay = r /\ f.direct = e.direct /\ f.tx = e.tx /\ f.accepted = e.accepted
      /\ Queues(e, f)
  BY DEF EndStates, Queues
<1> HIDE DEF f
<1>4. Sent(s, f) = Sent(s, e) \cup ToSet(q)
  BY <1>1, <1>3 DEF Sent, Queues
<1> QED BY <1>2, <1>3, <1>4 DEF Puts

LEMMA DirectPuts ==
  ASSUME NEW s, NEW e \in EndStates, NEW q \in Seq(Frames)
  PROVE  Puts(s, e, OverDirect(e, q), q) /\ Queues(e, OverDirect(e, q))
<1>1. CASE e.tpeer \notin e.alive
  BY <1>1 DEF OverDirect, Puts, Queues
<1>2. CASE e.tpeer \in e.alive
  <2> DEFINE t == e.tpeer
             r == e.direct[t] \o q
             d == [e.direct EXCEPT ![t] = r]
             f == [e EXCEPT !.direct = d]
  <2>1. e.direct \in [Upgrades -> Seq(Frames)] /\ t \in Upgrades
    BY <1>2, Parts
  <2>2. r \in Seq(Frames) /\ ToSet(r) = ToSet(e.direct[t]) \cup ToSet(q)
    BY <2>1, Joined
  <2>3. OverDirect(e, q) = f
    BY <1>2 DEF OverDirect
  <2> HIDE DEF r, t
  <2>4. \A u \in Upgrades : d[u] = IF u = t THEN r ELSE e.direct[u]
    BY <2>1
  <2>5. UNION {ToSet(d[u]) : u \in Upgrades}
          \subseteq (UNION {ToSet(e.direct[u]) : u \in Upgrades}) \cup ToSet(q)
    BY <2>1, <2>2, <2>4
  <2> HIDE DEF d
  <2>6. /\ f.relay = e.relay /\ f.direct = d /\ f.tx = e.tx /\ f.accepted = e.accepted
        /\ Queues(e, f)
    BY DEF EndStates, Queues
  <2> HIDE DEF f
  <2>7. Sent(s, f) \subseteq Sent(s, e) \cup ToSet(q)
    BY <2>5, <2>6 DEF Sent, Queues
  <2> QED BY <2>3, <2>6, <2>7 DEF Puts
<1> QED BY <1>1, <1>2

LEMMA SealedPuts ==
  ASSUME NEW s, NEW e \in EndStates, NEW q \in Seq(Frames)
  PROVE  /\ Sealed(e, q) \in EndStates /\ Queues(e, Sealed(e, q))
         /\ Sealed(e, q).tx = e.tx + Len(q) /\ Sealed(e, q).accepted = e.accepted
         /\ Sent(s, Sealed(e, q)) = Sent(s, e)
         /\ Sealed(e, q).relay = e.relay /\ Sealed(e, q).direct = e.direct
<1> DEFINE n == e.tx + Len(q)
           f == [e EXCEPT !.tx = n]
<1>1. n \in Nat
  BY Parts
<1>2. Sealed(e, q) = f
  BY DEF Sealed
<1> HIDE DEF n
<1>3. f \in EndStates
  BY <1>1, Records
<1>4. /\ f.relay = e.relay /\ f.direct = e.direct /\ f.tx = n /\ f.accepted = e.accepted
      /\ Queues(e, f)
  BY DEF EndStates, Queues
<1> HIDE DEF f
<1>5. Sent(s, f) = Sent(s, e)
  BY <1>4 DEF Sent, Queues
<1> QED BY <1>2, <1>3, <1>4, <1>5 DEF n

LEMMA AgentDetachTyped ==
  ASSUME NEW e \in EndStates
  PROVE  AgentDetach(e) \in EndStates
<1> DEFINE g == e.alive \ {e.tpeer}
           a == [e EXCEPT !.path = "relay"]
           b == [a EXCEPT !.queueing = FALSE]
           c == [b EXCEPT !.outQ = <<>>]
           h == [c EXCEPT !.switching = FALSE]
           i == [h EXCEPT !.alive = g]
           j == [i EXCEPT !.tpeer = None]
<1>1. "relay" \in Paths /\ <<>> \in Seq(Frames) /\ g \subseteq Upgrades
  BY Parts, NoFrame DEF Paths
<1>2. AgentDetach(e) = j
  BY DEF AgentDetach, EndStates
<1> HIDE DEF g
<1>3. a \in EndStates
  BY <1>1, Records
<1> HIDE DEF a
<1>4. b \in EndStates
  BY <1>3, Records
<1> HIDE DEF b
<1>5. c \in EndStates
  BY <1>1, <1>4, Records
<1> HIDE DEF c
<1>6. h \in EndStates
  BY <1>5, Records
<1> HIDE DEF h
<1>7. i \in EndStates
  BY <1>1, <1>6, Records
<1> HIDE DEF i
<1>8. j \in EndStates
  BY <1>7, Records
<1> QED BY <1>2, <1>8

LEMMA ForceCloseRouteTyped ==
  ASSUME NEW e \in EndStates
  PROVE  ForceCloseRoute(e) \in EndStates
<1> DEFINE a == AgentDetach(e)
           b == [a EXCEPT !.strict = FALSE]
           c == [b EXCEPT !.parked = <<>>]
<1>1. a \in EndStates
  BY AgentDetachTyped
<1>2. ForceCloseRoute(e) \in {e, c}
  BY <1>1 DEF ForceCloseRoute, EndStates
<1> HIDE DEF a
<1>3. b \in EndStates
  BY <1>1, Records
<1> HIDE DEF b
<1>4. c \in EndStates
  BY <1>3, NoFrame, Records
<1> QED BY <1>2, <1>4

LEMMA PathsTyped ==
  ASSUME NEW e \in EndStates, NEW q \in Seq(Frames)
  PROVE  OverRelay(e, q) \in EndStates /\ OverDirect(e, q) \in EndStates
<1>1. OverRelay(e, q) \in EndStates
  <2> DEFINE r == e.relay \o q
             f == [e EXCEPT !.relay = r]
  <2>1. r \in Seq(Frames)
    BY Parts, Joined
  <2>2. OverRelay(e, q) = f
    BY DEF OverRelay
  <2> HIDE DEF r
  <2>3. f \in EndStates
    BY <2>1, Records
  <2> QED BY <2>2, <2>3
<1>2. OverDirect(e, q) \in EndStates
  <2>1. CASE e.tpeer \notin e.alive
    BY <2>1 DEF OverDirect
  <2>2. CASE e.tpeer \in e.alive
    <3> DEFINE t == e.tpeer
               r == e.direct[t] \o q
               d == [e.direct EXCEPT ![t] = r]
               f == [e EXCEPT !.direct = d]
    <3>1. e.direct \in [Upgrades -> Seq(Frames)] /\ t \in Upgrades
      BY <2>2, Parts
    <3>2. r \in Seq(Frames)
      BY <3>1, Joined
    <3>3. OverDirect(e, q) = f
      BY <2>2 DEF OverDirect
    <3> HIDE DEF r, t
    <3>4. d \in [Upgrades -> Seq(Frames)]
      BY <3>1, <3>2
    <3> HIDE DEF d
    <3>5. f \in EndStates
      BY <3>4, Records
    <3> QED BY <3>3, <3>5
  <2> QED BY <2>1, <2>2
<1> QED BY <1>1, <1>2

LEMMA AgentDispatchPuts ==
  ASSUME NEW e \in EndStates, NEW q \in Seq(Frames), q # <<>>
  PROVE  AgentDispatch(e, q) \in EndStates /\ Puts("agent", e, AgentDispatch(e, q), q)
<1> DEFINE d == ForceCloseRoute(e)
           r == Tail(q)
<1>1. r \in Seq(Frames) /\ ToSet(r) \subseteq ToSet(q)
  BY Taken
<1>2. CASE e.path = "p2p" /\ e.tpeer # None
  BY <1>2, DirectPuts, PathsTyped DEF AgentDispatch
<1>3. CASE ~(e.path = "p2p" /\ e.tpeer # None) /\ e.strict
  <2>1. AgentDispatch(e, q) = OverRelay(d, r)
    BY <1>3 DEF AgentDispatch
  <2>2. Plain("agent", e, d)
    BY ForceCloseRoutePlain
  <2>3. d \in EndStates
    BY ForceCloseRouteTyped
  <2> HIDE DEF d, r
  <2>4. Puts("agent", d, OverRelay(d, r), r) /\ OverRelay(d, r) \in EndStates
    BY <1>1, <2>3, RelayPuts, PathsTyped
  <2> QED BY <1>1, <2>1, <2>2, <2>4 DEF Puts, Plain
<1>4. CASE ~(e.path = "p2p" /\ e.tpeer # None) /\ ~e.strict
  BY <1>4, RelayPuts, PathsTyped DEF AgentDispatch
<1> QED BY <1>2, <1>3, <1>4

LEMMA AgentSendPuts ==
  ASSUME NEW e \in EndStates, NEW m \in Frames, NEW bypass \in BOOLEAN
  PROVE  LET f == AgentSend(e, m, bypass)
         IN  /\ f.tx = e.tx + 1 /\ f.accepted = e.accepted
             /\ Sent("agent", f) \subseteq Sent("agent", e) \cup ToSet(Seal(e, <<m>>))
<1> DEFINE one == <<m>>
           q == Seal(e, one)
           n == Sealed(e, one)
           f == AgentSend(e, m, bypass)
           p1 == n.parked \o q
           p2 == n.outQ \o q
           g == [n EXCEPT !.parked = p1]
           h == [n EXCEPT !.outQ = p2]
<1>1. one \in Seq(Frames) /\ Len(one) = 1
  BY OneFrame
<1>2. f \in {g, h, OverRelay(n, q), AgentDispatch(n, q)}
  BY DEF AgentSend
<1> HIDE DEF one
<1>3. q \in Seq(Frames) /\ Len(q) = 1
  BY <1>1, SealTyped
<1>4. /\ n \in EndStates /\ n.tx = e.tx + 1 /\ n.accepted = e.accepted
      /\ Sent("agent", n) = Sent("agent", e)
  BY <1>1, SealedPuts
<1> HIDE DEF q, n, f
<1>5. q # <<>>
  BY <1>3
<1>6. n.parked \in Seq(Frames) /\ n.outQ \in Seq(Frames)
  BY <1>4, Parts
<1>7. ToSet(p1) = ToSet(n.parked) \cup ToSet(q) /\ ToSet(p2) = ToSet(n.outQ) \cup ToSet(q)
  BY <1>3, <1>6, Joined
<1> HIDE DEF p1, p2
<1>8. Puts("agent", n, g, q)
  <2>1. /\ g.relay = n.relay /\ g.direct = n.direct /\ g.outQ = n.outQ /\ g.parked = p1
        /\ g.tx = n.tx /\ g.accepted = n.accepted
    BY <1>4 DEF EndStates
  <2> HIDE DEF g
  <2>2. Sent("agent", g) = Sent("agent", n) \cup ToSet(q)
    BY <1>7, <2>1 DEF Sent
  <2> QED BY <2>1, <2>2 DEF Puts
<1>9. Puts("agent", n, h, q)
  <2>1. /\ h.relay = n.relay /\ h.direct = n.direct /\ h.outQ = p2 /\ h.parked = n.parked
        /\ h.tx = n.tx /\ h.accepted = n.accepted
    BY <1>4 DEF EndStates
  <2> HIDE DEF h
  <2>2. Sent("agent", h) = Sent("agent", n) \cup ToSet(q)
    BY <1>7, <2>1 DEF Sent
  <2> QED BY <2>1, <2>2 DEF Puts
<1>10. Puts("agent", n, OverRelay(n, q), q) /\ Puts("agent", n, AgentDispatch(n, q), q)
  BY <1>3, <1>4, <1>5, RelayPuts, AgentDispatchPuts
<1> HIDE DEF g, h
<1>11. Puts("agent", n, f, q)
  BY <1>2, <1>8, <1>9, <1>10
<1>12. /\ f.tx = e.tx + 1 /\ f.accepted = e.accepted
       /\ Sent("agent", f) \subseteq Sent("agent", e) \cup ToSet(q)
  BY <1>4, <1>11 DEF Puts
<1> QED BY <1>12 DEF f, q, one

\* b continues with one more frame.
Longer(b, n, v) == [k \in 0..n + 1 |-> IF k <= n THEN b[k] ELSE v]

LEMMA OneMore ==
  ASSUME NEW s \in Sides, NEW e \in EndStates, NEW b, Marks(s, e, b),
         NEW m \in Frames, NEW v \in Nat, NEW f, f.accepted \in Nat,
         e.accepted <= f.accepted, v <= f.accepted,
         f.tx = e.tx + 1, Sent(s, f) \subseteq Sent(s, e) \cup ToSet(Seal(e, <<m>>)),
         m.kind # "business" => v = b[e.tx],
         m.kind = "business" => /\ m.biz = v /\ b[e.tx] < v
                                /\ s = "agent" => v = b[e.tx] + 1
  PROVE  LET c == Longer(b, e.tx, v)
         IN  /\ Marks(s, f, c) /\ c[f.tx] = v /\ \A k \in 0..e.tx : c[k] = b[k]
<1> DEFINE q == <<m>>
           c == Longer(b, e.tx, v)
<1>1. q \in Seq(Frames) /\ Len(q) = 1 /\ q[1] = m
  BY OneFrame
<1>2. e.tx \in Nat /\ e.accepted \in Nat /\ e.tx + 1 \in Nat /\ 0..e.tx \subseteq 0..e.tx + 1
  BY Parts
<1>3. /\ b \in [0..e.tx -> Nat] /\ \A k \in 0..e.tx : b[k] <= e.accepted
  BY DEF Marks
<1>4. /\ \A k \in 0..e.tx : c[k] = b[k]
      /\ c[e.tx + 1] = v
      /\ c \in [0..e.tx + 1 -> Nat]
  BY <1>2, <1>3 DEF Longer
<1>5. \A k \in 0..e.tx + 1 : c[k] <= f.accepted
  <2> SUFFICES ASSUME NEW k \in 0..e.tx + 1 PROVE c[k] <= f.accepted
    OBVIOUS
  <2>1. CASE k \in 0..e.tx
    <3>1. b[k] \in Nat /\ b[k] <= e.accepted /\ c[k] = b[k]
      BY <1>3, <1>4, <2>1
    <3> QED BY <1>2, <3>1
  <2>2. CASE k = e.tx + 1
    BY <1>4, <2>2
  <2> QED BY <1>2, <2>1, <2>2
<1> HIDE DEF c, q
<1>6. Seal(e, q)[1].kind = m.kind /\ Seal(e, q)[1].biz = m.biz /\ Seal(e, q)[1].seq = e.tx + 1
  BY <1>1, SealTyped
<1>7. e.tx + 1 - 1 = e.tx /\ e.tx + 1 \in 1..e.tx + 1 /\ e.tx \in 0..e.tx
  BY <1>2
<1>8. Agrees(s, Seal(e, q)[1], e.tx + 1, c)
  BY <1>4, <1>6, <1>7 DEF Agrees
<1>9. \A i \in 1..Len(q) : Agrees(s, Seal(e, q)[i], e.tx + Len(q), c)
  BY <1>1, <1>8
<1>10. Sent(s, f) \subseteq Sent(s, e) \cup ToSet(Seal(e, q))
  BY DEF q
<1>11. Marks(s, f, c)
  BY <1>1, <1>4, <1>5, <1>9, <1>10, Extended
<1> QED BY <1>4, <1>11 DEF c

LEMMA AgentSendCounts ==
  ASSUME NEW e \in EndStates, NEW b, Marks("agent", e, b),
         NEW m \in Frames, NEW bypass \in BOOLEAN,
         m.kind # "business" => e.accepted = b[e.tx],
         m.kind = "business" => m.biz = e.accepted /\ e.accepted = b[e.tx] + 1
  PROVE  LET f == AgentSend(e, m, bypass)
         IN  \E c : Counted("agent", f, c) /\ \A k \in 0..e.tx : c[k] = b[k]
<1> DEFINE f == AgentSend(e, m, bypass)
           v == e.accepted
           c == Longer(b, e.tx, v)
<1>1. e.tx \in Nat /\ v \in Nat /\ e.tx \in 0..e.tx
  BY Parts
<1>2. b[e.tx] \in Nat
  BY <1>1 DEF Marks
<1>3. /\ f.tx = e.tx + 1 /\ f.accepted = e.accepted
      /\ Sent("agent", f) \subseteq Sent("agent", e) \cup ToSet(Seal(e, <<m>>))
  BY AgentSendPuts
<1> HIDE DEF f
<1>4. v <= f.accepted /\ f.accepted \in Nat
  BY <1>1, <1>3
<1>5. m.kind = "business" => m.biz = v /\ b[e.tx] < v /\ v = b[e.tx] + 1
  BY <1>2
<1>6. "agent" \in Sides
  BY DEF Sides
<1>7. Marks("agent", f, c) /\ c[f.tx] = v /\ \A k \in 0..e.tx : c[k] = b[k]
  BY <1>1, <1>3, <1>4, <1>5, <1>6, OneMore
<1>8. Counted("agent", f, c)
  BY <1>3, <1>7 DEF Counted
<1> QED BY <1>7, <1>8 DEF f

LEMMA SendControlContinues ==
  ASSUME NEW s \in Sides, NEW e \in EndStates, NEW k \in Kinds \ {"business", "propose"}
  PROVE  Continues(s, e, SendControl(s, e, k))
<1> DEFINE m == Control(k, e.up)
           f == SendControl(s, e, k)
<1>1. m \in Frames
  BY Parts, FrameTyped
<1>2. m.kind = k /\ m.kind # "business"
  BY DEF Control
<1> HIDE DEF m
<1>3. e.tx \in Nat /\ e.accepted \in Nat
  BY Parts
<1>4. CASE s = "agent"
  <2>1. f = AgentSend(e, m, TRUE)
    BY <1>4 DEF SendControl, m
  <2>2. f.tx = e.tx + 1
    BY <1>1, <2>1, AgentSendPuts
  <2> HIDE DEF f
  <2>3. ASSUME NEW b, Counted(s, e, b)
        PROVE  \E c : Counted(s, f, c) /\ \A i \in 0..e.tx : c[i] = b[i]
    <3>1. Marks("agent", e, b) /\ e.accepted = b[e.tx]
      BY <1>4, <2>3 DEF Counted
    <3>2. /\ m.kind # "business" => e.accepted = b[e.tx]
          /\ m.kind = "business" => m.biz = e.accepted /\ e.accepted = b[e.tx] + 1
          /\ TRUE \in BOOLEAN
      BY <1>2, <3>1
    <3>3. \E c : Counted("agent", AgentSend(e, m, TRUE), c) /\ \A i \in 0..e.tx : c[i] = b[i]
      BY <1>1, <3>1, <3>2, AgentSendCounts
    <3> QED BY <1>4, <2>1, <3>3
  <2>4. e.tx <= f.tx
    BY <1>3, <2>2
  <2> QED BY <2>3, <2>4 DEF Continues, f
<1>5. CASE s = "app"
  <2> DEFINE q == Seal(e, <<m>>)
             n == Sealed(e, <<m>>)
  <2>1. f = OverRelay(n, q)
    BY <1>5 DEF SendControl, m
  <2>2. <<m>> \in Seq(Frames) /\ Len(<<m>>) = 1
    BY <1>1, OneFrame
  <2>3. q \in Seq(Frames)
    BY <2>2, SealTyped
  <2>4. /\ n \in EndStates /\ Queues(e, n) /\ n.tx = e.tx + 1 /\ n.accepted = e.accepted
        /\ Sent(s, n) = Sent(s, e)
    BY <2>2, SealedPuts
  <2> HIDE DEF n, f
  <2>5. Puts(s, n, f, q) /\ Queues(n, f)
    BY <2>1, <2>3, <2>4, RelayPuts
  <2>6. /\ f.tx = e.tx + 1 /\ f.accepted = e.accepted /\ Queues(e, f)
        /\ Sent(s, f) \subseteq Sent(s, e) \cup ToSet(Seal(e, <<m>>))
    BY <2>4, <2>5 DEF Puts, Queues
  <2>7. ASSUME NEW b, Counted(s, e, b)
        PROVE  \E c : Counted(s, f, c) /\ \A i \in 0..e.tx : c[i] = b[i]
    <3> DEFINE v == b[e.tx]
               c == Longer(b, e.tx, v)
    <3>1. Marks(s, e, b) /\ e.tx \in 0..e.tx
      BY <1>3, <2>7 DEF Counted
    <3>2. v \in Nat /\ v <= e.accepted
      BY <3>1 DEF Marks
    <3>3. Marks(s, f, c) /\ c[f.tx] = v /\ \A i \in 0..e.tx : c[i] = b[i]
      <4> HIDE DEF v
      <4>1. v <= f.accepted /\ f.accepted \in Nat /\ e.accepted <= f.accepted
        BY <1>3, <2>6, <3>2
      <4>2. m.kind # "business" => v = b[e.tx]
        BY DEF v
      <4> QED BY <1>1, <1>2, <2>6, <3>1, <3>2, <4>1, <4>2, OneMore
    <3> HIDE DEF c
    <3>4. OneQueue(f) /\ Queued(f.outQ, v, f.accepted) /\ Queued(f.parked, v, f.accepted)
      BY <1>5, <2>6, <2>7 DEF Counted, OneQueue, Queues
    <3>5. Counted(s, f, c)
      BY <1>5, <3>3, <3>4 DEF Counted
    <3> QED BY <3>3, <3>5
  <2>8. e.tx <= f.tx
    BY <1>3, <2>6
  <2> QED BY <2>7, <2>8 DEF Continues, f
<1> QED BY <1>4, <1>5 DEF Sides

\* The messages of q, which were waiting, are sent, or the session is closed.
LEMMA AppDispatchCounts ==
  ASSUME NEW e \in EndStates, e.outQ = <<>>, e.parked = <<>>, OneQueue(e),
         NEW b, Marks("app", e, b), NEW q \in Seq(Frames), Queued(q, b[e.tx], e.accepted)
  PROVE  /\ e.tx <= AppDispatch(e, q).tx
         /\ \E c : Counted("app", AppDispatch(e, q), c) /\ \A k \in 0..e.tx : c[k] = b[k]
<1> DEFINE f == AppDispatch(e, q)
           n == Sealed(e, q)
           r == Seal(e, q)
<1>1. e.tx \in Nat /\ e.accepted \in Nat /\ Len(q) \in Nat /\ "app" \in Sides
  BY Parts DEF Sides
<1>2. \A lo, hi : Queued(<<>>, lo, hi)
  BY NoFrame DEF Queued
<1>3. CASE f = ForceClose(e)
  <2>1. Plain("app", e, f)
    BY <1>3, ForceClosePlain
  <2>2. Counted("app", e, b)
    BY <1>2 DEF Counted
  <2>3. Continues("app", e, f)
    BY <1>1, <2>1, PlainContinues
  <2> QED BY <2>2, <2>3 DEF Continues
<1>4. CASE f \in {OverDirect(n, r), OverRelay(n, r)}
  <2> DEFINE c == [k \in 0..e.tx + Len(q) |-> IF k <= e.tx THEN b[k] ELSE q[k - e.tx].biz]
  <2>1. r \in Seq(Frames)
    BY SealTyped
  <2>2. /\ n \in EndStates /\ Queues(e, n) /\ n.tx = e.tx + Len(q) /\ n.accepted = e.accepted
        /\ Sent("app", n) = Sent("app", e)
    BY SealedPuts
  <2> HIDE DEF n, r, f
  <2>3. Puts("app", n, f, r) /\ Queues(n, f)
    BY <1>4, <2>1, <2>2, RelayPuts, DirectPuts
  <2>4. /\ f.tx = e.tx + Len(q) /\ f.accepted = e.accepted /\ Queues(e, f)
        /\ Sent("app", f) \subseteq Sent("app", e) \cup ToSet(Seal(e, q))
    BY <2>2, <2>3 DEF Puts, Queues, r
  <2>5. /\ b \in [0..e.tx -> Nat] /\ (\A k \in 0..e.tx : b[k] <= e.accepted) /\ e.tx \in 0..e.tx
    BY <1>1 DEF Marks
  <2>6. ASSUME NEW i \in 1..Len(q) PROVE q[i].biz \in Nat
    <3>1. q[i] \in Frames
      OBVIOUS
    <3> QED BY <3>1 DEF Frames
  <2>7. \A k \in 0..e.tx + Len(q) : k \in 0..e.tx \/ (k - e.tx \in 1..Len(q) /\ k > e.tx)
    BY <1>1
  <2>8. c \in [0..e.tx + Len(q) -> Nat]
    BY <1>1, <2>5, <2>6, <2>7
  <2>9. \A k \in 0..e.tx : c[k] = b[k]
    BY <1>1
  <2>10. \A i \in 1..Len(q) : c[e.tx + i] = q[i].biz
    BY <1>1
  <2> HIDE DEF c
  <2>11. \A k \in 0..e.tx + Len(q) : c[k] <= f.accepted
    <3> SUFFICES ASSUME NEW k \in 0..e.tx + Len(q) PROVE c[k] <= f.accepted
      OBVIOUS
    <3>1. CASE k \in 0..e.tx
      BY <2>4, <2>5, <2>9, <3>1
    <3>2. CASE k - e.tx \in 1..Len(q) /\ k > e.tx
      <4> DEFINE i == k - e.tx
      <4>1. i \in 1..Len(q) /\ k = e.tx + i
        BY <1>1, <3>2
      <4> HIDE DEF i
      <4> QED BY <2>4, <2>10, <4>1 DEF Queued
    <3> QED BY <2>7, <3>1, <3>2
  <2>12. ASSUME NEW i \in 1..Len(q)
         PROVE  Agrees("app", Seal(e, q)[i], e.tx + Len(q), c)
    <3> DEFINE x == Seal(e, q)[i]
    <3>1. x.kind = q[i].kind /\ x.biz = q[i].biz /\ x.seq = e.tx + i
      BY SealTyped
    <3> HIDE DEF x
    <3>2. q[i].kind = "business" /\ b[e.tx] < q[i].biz /\ (i > 1 => q[i - 1].biz < q[i].biz)
      BY DEF Queued
    <3>3. e.tx + i \in 1..e.tx + Len(q) /\ c[e.tx + i] = q[i].biz
      BY <1>1, <2>10
    <3>4. c[e.tx + i - 1] < c[e.tx + i]
      <4>1. CASE i = 1
        <5>1. e.tx + i - 1 = e.tx
          BY <1>1, <4>1
        <5> QED BY <2>5, <2>9, <3>2, <3>3, <5>1
      <4>2. CASE i > 1
        <5>1. i - 1 \in 1..Len(q) /\ e.tx + i - 1 = e.tx + (i - 1)
          BY <1>1, <4>2
        <5>2. c[e.tx + (i - 1)] = q[i - 1].biz
          BY <2>10, <5>1
        <5> QED BY <3>2, <3>3, <4>2, <5>1, <5>2
      <4> QED BY <4>1, <4>2
    <3>5. x.kind = "business" /\ x.biz = c[x.seq]
      BY <3>1, <3>2, <3>3
    <3>6. x.seq \in 1..e.tx + Len(q) /\ c[x.seq - 1] < c[x.seq]
      <4>1. x.seq = e.tx + i /\ x.seq - 1 = e.tx + i - 1
        BY <1>1, <3>1
      <4>2. c[x.seq - 1] = c[e.tx + i - 1] /\ c[x.seq] = c[e.tx + i]
        BY <4>1
      <4> QED BY <3>3, <3>4, <4>1, <4>2
    <3>7. Agrees("app", x, e.tx + Len(q), c)
      BY <3>5, <3>6 DEF Agrees
    <3> QED BY <3>7 DEF x
  <2>13. Marks("app", f, c)
    BY <1>1, <2>4, <2>8, <2>9, <2>11, <2>12, Extended
  <2>14. OneQueue(f) /\ f.outQ = <<>> /\ f.parked = <<>>
    BY <2>4 DEF OneQueue, Queues
  <2>15. Counted("app", f, c)
    BY <1>2, <2>13, <2>14 DEF Counted
  <2>16. e.tx <= f.tx
    BY <1>1, <2>4
  <2> QED BY <2>9, <2>15, <2>16 DEF f
<1>5. f \in {ForceClose(e), OverDirect(n, r), OverRelay(n, r)}
  BY DEF AppDispatch
<1> QED BY <1>3, <1>4, <1>5

LEMMA AcceptedCounts ==
  ASSUME NEW s, NEW e \in EndStates, NEW b, Counted(s, e, b)
  PROVE  LET n == [e EXCEPT !.accepted = @ + 1]
         IN  /\ n \in EndStates /\ n.accepted = e.accepted + 1 /\ n.tx = e.tx
             /\ Queues(e, n) /\ Marks(s, n, b)
<1> DEFINE a == e.accepted + 1
           n == [e EXCEPT !.accepted = a]
<1>1. e.accepted \in Nat /\ e.tx \in Nat /\ a \in Nat
  BY Parts
<1>2. n \in EndStates
  BY <1>1, Records
<1>3. /\ n.relay = e.relay /\ n.direct = e.direct /\ n.tx = e.tx /\ n.accepted = a
      /\ Queues(e, n)
  BY DEF EndStates, Queues
<1> HIDE DEF n
<1>4. Sent(s, n) = Sent(s, e)
  BY <1>3 DEF Sent, Queues
<1>5. Marks(s, e, b)
  BY DEF Counted
<1>6. ASSUME NEW k \in 0..n.tx PROVE b[k] <= n.accepted
  <2>1. b[k] \in Nat /\ b[k] <= e.accepted
    BY <1>3, <1>5 DEF Marks
  <2> QED BY <1>1, <1>3, <2>1
<1>7. Marks(s, n, b)
  BY <1>3, <1>4, <1>5, <1>6 DEF Marks
<1> QED BY <1>2, <1>3, <1>7 DEF n

\* One more message at the end of a queue.
LEMMA QueuedLater ==
  ASSUME NEW q \in Seq(Frames), NEW lo \in Nat, NEW n \in Nat, lo <= n, Queued(q, lo, n),
         NEW m \in Frames, m.kind = "business", m.biz = n + 1
  PROVE  Queued(Append(q, m), lo, n + 1)
<1> DEFINE r == Append(q, m)
<1>1. /\ Len(r) = Len(q) + 1 /\ Len(q) \in Nat /\ r[Len(q) + 1] = m
      /\ \A i \in 1..Len(q) : r[i] = q[i]
  OBVIOUS
<1> HIDE DEF r
<1>2. ASSUME NEW i \in 1..Len(q)
      PROVE  /\ r[i].kind = "business" /\ lo < r[i].biz /\ r[i].biz <= n + 1
             /\ i > 1 => r[i - 1].biz < r[i].biz
  <2>1. /\ q[i].kind = "business" /\ lo < q[i].biz /\ q[i].biz <= n
        /\ i > 1 => q[i - 1].biz < q[i].biz
    BY DEF Queued
  <2>2. q[i] \in Frames
    OBVIOUS
  <2>3. q[i].biz \in Nat
    BY <2>2 DEF Frames
  <2>4. r[i] = q[i] /\ (i > 1 => r[i - 1] = q[i - 1])
    <3>1. i > 1 => i - 1 \in 1..Len(q)
      BY <1>1
    <3> QED BY <1>1, <3>1
  <2> QED BY <2>1, <2>3, <2>4
<1>3. ASSUME NEW i, i = Len(q) + 1
      PROVE  /\ r[i].kind = "business" /\ lo < r[i].biz /\ r[i].biz <= n + 1
             /\ i > 1 => r[i - 1].biz < r[i].biz
  <2>1. r[i] = m /\ i - 1 = Len(q)
    BY <1>1, <1>3
  <2>2. ASSUME i > 1 PROVE r[i - 1].biz < r[i].biz
    <3>1. Len(q) \in 1..Len(q)
      BY <1>1, <1>3, <2>2
    <3>2. q[Len(q)].biz <= n
      BY <3>1 DEF Queued
    <3>3. q[Len(q)] \in Frames
      BY <3>1
    <3>4. q[Len(q)].biz \in Nat
      BY <3>3 DEF Frames
    <3> QED BY <1>1, <2>1, <3>1, <3>2, <3>4
  <2> QED BY <2>1, <2>2
<1>4. \A i \in 1..Len(r) : i \in 1..Len(q) \/ i = Len(q) + 1
  BY <1>1
<1>5. Queued(r, lo, n + 1)
  BY <1>2, <1>3, <1>4 DEF Queued
<1> QED BY <1>5 DEF r

LEMMA QueuedAbove ==
  ASSUME NEW q \in Seq(Frames), NEW lo, NEW n \in Nat, Queued(q, lo, n)
  PROVE  Queued(q, lo, n + 1)
<1> SUFFICES ASSUME NEW i \in 1..Len(q) PROVE q[i].biz <= n + 1
  BY DEF Queued
<1>1. q[i] \in Frames
  OBVIOUS
<1>2. q[i].biz \in Nat /\ q[i].biz <= n
  BY <1>1 DEF Queued, Frames
<1> QED BY <1>2

LEMMA AppSendCounts ==
  ASSUME NEW e \in EndStates, ~e.queueing => e.outQ = <<>>,
         NEW b, Counted("app", e, b),
         NEW n \in EndStates, n.accepted = e.accepted + 1, n.tx = e.tx,
         Queues(e, n), Marks("app", n, b)
  PROVE  LET f == AppSend(n, Business(n.accepted))
         IN  /\ e.tx <= f.tx
             /\ \E c : Counted("app", f, c) /\ \A k \in 0..e.tx : c[k] = b[k]
<1> DEFINE m == Business(n.accepted)
           f == AppSend(n, m)
<1>1. e.accepted \in Nat /\ e.tx \in Nat /\ n.accepted \in Nat /\ e.tx \in 0..e.tx
  BY Parts
<1>2. m \in Frames /\ m.kind = "business" /\ m.biz = e.accepted + 1
  BY <1>1, FrameTyped DEF Business
<1> HIDE DEF m
<1>3. b[e.tx] \in Nat /\ b[e.tx] <= e.accepted
  BY <1>1 DEF Counted, Marks
<1>4. /\ OneQueue(e) /\ Queued(e.outQ, b[e.tx], e.accepted)
      /\ Queued(e.parked, b[e.tx], e.accepted)
  BY DEF Counted
<1>5. e.outQ \in Seq(Frames) /\ e.parked \in Seq(Frames)
  BY Parts
<1>6. /\ Queued(e.outQ, b[e.tx], n.accepted) /\ Queued(e.parked, b[e.tx], n.accepted)
      /\ Queued(Append(e.outQ, m), b[e.tx], n.accepted)
      /\ Queued(Append(e.parked, m), b[e.tx], n.accepted)
  BY <1>1, <1>2, <1>3, <1>4, <1>5, QueuedAbove, QueuedLater
<1> HIDE DEF f
<1>7. CASE n.prefers /\ n.path # "p2p"
  <2> DEFINE p == Append(n.parked, m)
             g == [n EXCEPT !.parked = p]
  <2>1. f = g
    BY <1>7 DEF AppSend, f
  <2>2. /\ g.relay = n.relay /\ g.direct = n.direct /\ g.tx = n.tx /\ g.accepted = n.accepted
        /\ g.outQ = n.outQ /\ g.parked = p /\ g.path = n.path /\ g.queueing = n.queueing
        /\ g.prefers = n.prefers
    BY DEF EndStates
  <2> HIDE DEF g
  <2>3. Sent("app", g) = Sent("app", n)
    BY <2>2 DEF Sent
  <2>4. Marks("app", g, b)
    BY <2>2, <2>3 DEF Marks
  <2>5. OneQueue(g)
    BY <1>4, <1>7, <2>2 DEF OneQueue, Queues
  <2>6. /\ Queued(g.outQ, b[g.tx], g.accepted) /\ Queued(g.parked, b[g.tx], g.accepted)
    BY <1>6, <2>2 DEF Queues
  <2>7. Counted("app", g, b)
    BY <2>4, <2>5, <2>6 DEF Counted
  <2> QED BY <1>1, <2>1, <2>2, <2>7 DEF f, m
<1>8. CASE ~(n.prefers /\ n.path # "p2p") /\ n.queueing
  <2> DEFINE p == Append(n.outQ, m)
             g == [n EXCEPT !.outQ = p]
  <2>1. f = g
    BY <1>8 DEF AppSend, f
  <2>2. /\ g.relay = n.relay /\ g.direct = n.direct /\ g.tx = n.tx /\ g.accepted = n.accepted
        /\ g.outQ = p /\ g.parked = n.parked /\ g.path = n.path /\ g.queueing = n.queueing
        /\ g.prefers = n.prefers
    BY DEF EndStates
  <2> HIDE DEF g
  <2>3. Sent("app", g) = Sent("app", n)
    BY <2>2 DEF Sent
  <2>4. Marks("app", g, b)
    BY <2>2, <2>3 DEF Marks
  <2>5. OneQueue(g)
    BY <1>4, <1>8, <2>2 DEF OneQueue, Queues
  <2>6. /\ Queued(g.outQ, b[g.tx], g.accepted) /\ Queued(g.parked, b[g.tx], g.accepted)
    BY <1>6, <2>2 DEF Queues
  <2>7. Counted("app", g, b)
    BY <2>4, <2>5, <2>6 DEF Counted
  <2> QED BY <1>1, <2>1, <2>2, <2>7 DEF f, m
<1>9. CASE ~(n.prefers /\ n.path # "p2p") /\ ~n.queueing
  <2> DEFINE q == <<m>>
  <2>1. f = AppDispatch(n, q)
    BY <1>9 DEF AppSend, f
  <2>2. n.outQ = <<>> /\ n.parked = <<>> /\ OneQueue(n)
    BY <1>4, <1>9 DEF OneQueue, Queues
  <2>3. q \in Seq(Frames) /\ Len(q) = 1 /\ q[1] = m
    BY <1>2, OneFrame
  <2> HIDE DEF q
  <2>4. Queued(q, b[n.tx], n.accepted)
    BY <1>1, <1>2, <1>3, <2>3 DEF Queued
  <2>5. /\ n.tx <= f.tx
        /\ \E c : Counted("app", f, c) /\ \A k \in 0..n.tx : c[k] = b[k]
    BY <2>1, <2>2, <2>3, <2>4, AppDispatchCounts
  <2> QED BY <2>5 DEF f, m
<1> QED BY <1>7, <1>8, <1>9

LEMMA SendBusinessContinues ==
  ASSUME NEW s \in Sides, NEW e \in EndStates, ~e.queueing => e.outQ = <<>>
  PROVE  Continues(s, e, SendBusiness(s, e))
<1> SUFFICES ASSUME NEW b, Counted(s, e, b)
             PROVE  /\ e.tx <= SendBusiness(s, e).tx
                    /\ \E c : Counted(s, SendBusiness(s, e), c) /\ \A k \in 0..e.tx : c[k] = b[k]
  BY DEF Continues
<1> DEFINE n == [e EXCEPT !.accepted = @ + 1]
           m == Business(n.accepted)
           f == SendBusiness(s, e)
<1>1. /\ n \in EndStates /\ n.accepted = e.accepted + 1 /\ n.tx = e.tx
      /\ Queues(e, n) /\ Marks(s, n, b)
  BY AcceptedCounts
<1>2. f = IF s = "app" THEN AppSend(n, m) ELSE AgentSend(n, m, FALSE)
  BY DEF SendBusiness
<1> HIDE DEF n, f
<1>3. e.accepted \in Nat /\ n.accepted \in Nat /\ e.tx \in Nat
  BY <1>1, Parts
<1>4. CASE s = "app"
  <2>1. /\ e.tx <= AppSend(n, m).tx
        /\ \E c : Counted("app", AppSend(n, m), c) /\ \A k \in 0..e.tx : c[k] = b[k]
    BY <1>1, <1>4, AppSendCounts
  <2> QED BY <1>2, <1>4, <2>1 DEF f
<1>5. CASE s = "agent"
  <2>1. m \in Frames /\ m.kind = "business" /\ m.biz = n.accepted
    BY <1>3, FrameTyped DEF Business
  <2> DEFINE bypass == FALSE
  <2>2. bypass \in BOOLEAN /\ f = AgentSend(n, m, bypass) /\ n \in EndStates
    BY <1>1, <1>2, <1>5
  <2> HIDE DEF m, bypass
  <2>3. b[n.tx] = e.accepted /\ n.accepted = b[n.tx] + 1
    BY <1>1, <1>5 DEF Counted
  <2>4. /\ m.kind # "business" => n.accepted = b[n.tx]
        /\ m.kind = "business" => m.biz = n.accepted /\ n.accepted = b[n.tx] + 1
    BY <2>1, <2>3
  <2>5. Marks("agent", n, b)
    BY <1>1, <1>5
  <2>6. \E c : Counted("agent", AgentSend(n, m, bypass), c) /\ \A k \in 0..n.tx : c[k] = b[k]
    BY <2>1, <2>4, <2>5, <2>2, AgentSendCounts
  <2>7. AgentSend(n, m, bypass).tx = n.tx + 1
    BY <2>1, <2>2, AgentSendPuts
  <2>8. e.tx <= f.tx
    BY <1>1, <1>3, <2>7, <2>2
  <2> QED BY <1>1, <1>5, <2>6, <2>8, <2>2 DEF f
<1> QED BY <1>4, <1>5 DEF Sides

LEMMA AgentDispatchAllPuts ==
  ASSUME NEW e \in EndStates, NEW q \in Seq(Frames)
  PROVE  /\ DispatchAll("agent", e, q) \in EndStates
         /\ Puts("agent", e, DispatchAll("agent", e, q), q)
<1>1. CASE q = <<>> \/ e.ended # "no"
  BY <1>1 DEF DispatchAll, Puts
<1>2. CASE ~(q = <<>> \/ e.ended # "no")
  <2>1. DispatchAll("agent", e, q) = AgentDispatch(e, q)
    BY <1>2 DEF DispatchAll
  <2> QED BY <1>2, <2>1, AgentDispatchPuts
<1> QED BY <1>1, <1>2

LEMMA AppDispatchAllQueues ==
  ASSUME NEW e \in EndStates, NEW q \in Seq(Frames)
  PROVE  DispatchAll("app", e, q) \in EndStates /\ Queues(e, DispatchAll("app", e, q))
<1> DEFINE n == Sealed(e, q)
           r == Seal(e, q)
           f == ForceClose(e)
<1>1. n \in EndStates /\ Queues(e, n) /\ r \in Seq(Frames)
  BY SealedPuts, SealTyped
<1>2. f \in EndStates /\ Queues(e, f)
  <2>1. f \in EndStates
    BY Records DEF ForceClose
  <2> QED BY <2>1 DEF ForceClose, Queues, EndStates
<1>3. DispatchAll("app", e, q) \in {e, f, OverDirect(n, r), OverRelay(n, r)}
  BY DEF DispatchAll, AppDispatch
<1> HIDE DEF n, r, f
<1>4. /\ OverDirect(n, r) \in EndStates /\ Queues(n, OverDirect(n, r))
      /\ OverRelay(n, r) \in EndStates /\ Queues(n, OverRelay(n, r))
  BY <1>1, DirectPuts, RelayPuts, PathsTyped
<1> QED BY <1>1, <1>2, <1>3, <1>4 DEF Queues

LEMMA AppDispatchAllCounts ==
  ASSUME NEW e \in EndStates, e.outQ = <<>>, e.parked = <<>>, OneQueue(e),
         NEW b, Marks("app", e, b), NEW q \in Seq(Frames), Queued(q, b[e.tx], e.accepted)
  PROVE  /\ e.tx <= DispatchAll("app", e, q).tx
         /\ \E c : /\ Counted("app", DispatchAll("app", e, q), c)
                   /\ \A k \in 0..e.tx : c[k] = b[k]
<1>1. CASE q = <<>> \/ e.ended # "no"
  <2>1. DispatchAll("app", e, q) = e
    BY <1>1 DEF DispatchAll
  <2>2. \A lo, hi : Queued(<<>>, lo, hi)
    BY NoFrame DEF Queued
  <2>3. Counted("app", e, b) /\ e.tx <= e.tx
    BY <2>2, Parts DEF Counted
  <2> QED BY <2>1, <2>3
<1>2. CASE ~(q = <<>> \/ e.ended # "no")
  <2>1. DispatchAll("app", e, q) = AppDispatch(e, q)
    BY <1>2 DEF DispatchAll
  <2> QED BY <2>1, AppDispatchCounts
<1> QED BY <1>1, <1>2

\* An end once the delay of its switch is over.
Moved(e) ==
  [e EXCEPT !.path = Head(e.drains), !.drains = Tail(@), !.queueing = FALSE, !.outQ = <<>>]

LEMMA MovedParts ==
  ASSUME NEW e \in EndStates, e.drains # <<>>
  PROVE  LET m == Moved(e)
         IN  /\ m \in EndStates /\ m.path = Head(e.drains) /\ m.queueing = FALSE
             /\ m.outQ = <<>> /\ m.parked = e.parked /\ m.relay = e.relay
             /\ m.direct = e.direct /\ m.tx = e.tx /\ m.accepted = e.accepted
             /\ m.prefers = e.prefers
<1> DEFINE target == Head(e.drains)
           rest == Tail(e.drains)
           a == [e EXCEPT !.path = target]
           b == [a EXCEPT !.drains = rest]
           c == [b EXCEPT !.queueing = FALSE]
           d == [c EXCEPT !.outQ = <<>>]
<1>1. target \in Paths /\ rest \in Seq(Paths) /\ <<>> \in Seq(Frames)
  BY Parts, NoFrame
<1>2. Moved(e) = d
  BY DEF Moved, EndStates
<1> HIDE DEF target, rest
<1>3. a \in EndStates
  BY <1>1, Records
<1>4. b \in EndStates
  BY <1>1, <1>3, Records
<1>5. c \in EndStates
  BY <1>4, Records
<1>6. d \in EndStates
  BY <1>1, <1>5, Records
<1>7. /\ d.path = target /\ d.queueing = FALSE /\ d.outQ = <<>> /\ d.parked = e.parked
      /\ d.relay = e.relay /\ d.direct = e.direct /\ d.tx = e.tx
      /\ d.accepted = e.accepted /\ d.prefers = e.prefers
  BY DEF EndStates
<1> QED BY <1>2, <1>6, <1>7 DEF target

LEMMA ClearedParts ==
  ASSUME NEW e \in EndStates
  PROVE  LET m == [e EXCEPT !.parked = <<>>]
         IN  /\ m \in EndStates /\ m.path = e.path /\ m.queueing = e.queueing
             /\ m.outQ = e.outQ /\ m.parked = <<>> /\ m.relay = e.relay
             /\ m.direct = e.direct /\ m.tx = e.tx /\ m.accepted = e.accepted
             /\ m.prefers = e.prefers
<1>1. <<>> \in Seq(Frames)
  BY NoFrame
<1>2. [e EXCEPT !.parked = <<>>] \in EndStates
  BY <1>1, Records
<1> QED BY <1>2 DEF EndStates

LEMMA SwitchedPlain ==
  ASSUME NEW s, NEW e \in EndStates
  PROVE  Plain(s, e, [e EXCEPT !.switching = FALSE])
<1> DEFINE f == [e EXCEPT !.switching = FALSE]
<1>1. /\ f.relay = e.relay /\ f.direct = e.direct /\ f.outQ = e.outQ /\ f.parked = e.parked
      /\ f.tx = e.tx /\ f.accepted = e.accepted /\ f.path = e.path
      /\ f.queueing = e.queueing /\ f.prefers = e.prefers
  BY DEF EndStates
<1> QED BY <1>1, Untouched

LEMMA AgentDrainPlain ==
  ASSUME NEW C \in SUBSET Upgrades, NEW e, Fit("agent", e, C), e.drains # <<>>
  PROVE  Plain("agent", e, AfterDrain("agent", e))
<1> DEFINE s == "agent"
           moved == Moved(e)
           sent == DispatchAll(s, moved, e.outQ)
           cleared == [sent EXCEPT !.parked = <<>>]
           flushed == DispatchAll(s, cleared, sent.parked)
           done == IF Head(e.drains) = "p2p" THEN flushed ELSE sent
           f == [done EXCEPT !.switching = FALSE]
<1>1. e \in EndStates /\ s \in Sides
  BY DEF Fit, Shaped, Sides
<1>2. AfterDrain(s, e) = f
  BY DEF AfterDrain, Moved
<1>3. /\ moved \in EndStates /\ moved.outQ = <<>> /\ moved.parked = e.parked
      /\ moved.relay = e.relay /\ moved.direct = e.direct /\ moved.tx = e.tx
      /\ moved.accepted = e.accepted
  BY <1>1, MovedParts
<1> HIDE DEF moved
<1>4. e.outQ \in Seq(Frames) /\ ToSet(<<>>) = {}
  BY <1>1, Parts, NoFrame
<1>5. sent \in EndStates /\ Puts(s, moved, sent, e.outQ)
  BY <1>3, <1>4, AgentDispatchAllPuts
<1> HIDE DEF sent
<1>6. /\ sent.tx = e.tx /\ sent.accepted = e.accepted /\ Sent(s, sent) \subseteq Sent(s, e)
  <2>1. Sent(s, moved) \cup ToSet(e.outQ) = Sent(s, e)
    BY <1>3, <1>4 DEF Sent
  <2> QED BY <1>3, <1>5, <2>1 DEF Puts
<1>7. Plain(s, e, sent)
  BY <1>6 DEF Plain
<1>8. done \in EndStates /\ Plain(s, e, done)
  <2>1. CASE Head(e.drains) # "p2p"
    BY <1>5, <1>7, <2>1
  <2>2. CASE Head(e.drains) = "p2p"
    <3>1. /\ cleared \in EndStates /\ cleared.outQ = sent.outQ /\ cleared.parked = <<>>
          /\ cleared.relay = sent.relay /\ cleared.direct = sent.direct
          /\ cleared.tx = sent.tx /\ cleared.accepted = sent.accepted
      BY <1>5, ClearedParts
    <3> HIDE DEF cleared
    <3>2. sent.parked \in Seq(Frames)
      BY <1>5, Parts
    <3>3. flushed \in EndStates /\ Puts(s, cleared, flushed, sent.parked)
      BY <3>1, <3>2, AgentDispatchAllPuts
    <3> HIDE DEF flushed
    <3>4. Sent(s, cleared) \cup ToSet(sent.parked) = Sent(s, sent)
      BY <1>4, <3>1 DEF Sent
    <3>5. Plain(s, sent, flushed)
      BY <3>1, <3>3, <3>4 DEF Puts, Plain
    <3> QED BY <1>7, <2>2, <3>3, <3>5, PlainOn
  <2> QED BY <2>1, <2>2
<1> HIDE DEF done
<1>9. Plain(s, done, f)
  BY <1>8, SwitchedPlain
<1> QED BY <1>2, <1>8, <1>9, PlainOn

LEMMA AppDrainContinues ==
  ASSUME NEW C \in SUBSET Upgrades, NEW e, Fit("app", e, C), e.drains # <<>>
  PROVE  Continues("app", e, AfterDrain("app", e))
<1> DEFINE s == "app"
           target == Head(e.drains)
           moved == Moved(e)
           sent == DispatchAll(s, moved, e.outQ)
           cleared == [sent EXCEPT !.parked = <<>>]
           flushed == DispatchAll(s, cleared, sent.parked)
           done == IF target = "p2p" THEN flushed ELSE sent
           f == [done EXCEPT !.switching = FALSE]
<1> SUFFICES ASSUME NEW b, Counted(s, e, b)
             PROVE  /\ e.tx <= AfterDrain(s, e).tx
                    /\ \E c : Counted(s, AfterDrain(s, e), c) /\ \A k \in 0..e.tx : c[k] = b[k]
  BY DEF Continues
<1>1. e \in EndStates /\ s \in Sides
  BY DEF Fit, Shaped, Sides
<1>2. AfterDrain(s, e) = f
  BY DEF AfterDrain, Moved
<1>3. /\ moved \in EndStates /\ moved.path = target /\ moved.queueing = FALSE
      /\ moved.outQ = <<>> /\ moved.parked = e.parked
      /\ moved.relay = e.relay /\ moved.direct = e.direct /\ moved.tx = e.tx
      /\ moved.accepted = e.accepted /\ moved.prefers = e.prefers
  BY <1>1, MovedParts
<1> HIDE DEF moved
<1>4. /\ e.outQ \in Seq(Frames) /\ e.parked \in Seq(Frames) /\ <<>> \in Seq(Frames)
      /\ e.tx \in Nat /\ ToSet(<<>>) = {} /\ \A lo, hi : Queued(<<>>, lo, hi)
  BY <1>1, Parts, NoFrame DEF Queued
<1>5. /\ OneQueue(e) /\ Marks(s, e, b) /\ Queued(e.outQ, b[e.tx], e.accepted)
      /\ Queued(e.parked, b[e.tx], e.accepted)
  BY DEF Counted
<1>6. sent \in EndStates /\ Queues(moved, sent)
  BY <1>3, <1>4, AppDispatchAllQueues
<1>7. /\ cleared \in EndStates /\ cleared.path = sent.path
      /\ cleared.queueing = sent.queueing /\ cleared.outQ = sent.outQ
      /\ cleared.parked = <<>> /\ cleared.relay = sent.relay
      /\ cleared.direct = sent.direct /\ cleared.tx = sent.tx
      /\ cleared.accepted = sent.accepted /\ cleared.prefers = sent.prefers
  BY <1>6, ClearedParts
<1>8. /\ done \in EndStates /\ e.tx <= done.tx
      /\ \E c : Counted(s, done, c) /\ \A k \in 0..e.tx : c[k] = b[k]
  <2>1. CASE e.prefers
    <3>1. e.outQ = <<>> /\ target = "p2p"
      <4>1. \A i \in 1..Len(e.drains) : e.drains[i] = "p2p"
        BY <2>1 DEF Fit, Direct
      <4>2. e.drains \in Seq(Paths)
        BY <1>1, Parts
      <4>3. Head(e.drains) = e.drains[1] /\ 1 \in 1..Len(e.drains)
        BY <4>2
      <4> QED BY <1>5, <2>1, <4>1, <4>3 DEF OneQueue
    <3>2. sent = moved
      BY <3>1 DEF DispatchAll
    <3>3. done = DispatchAll(s, cleared, e.parked)
      BY <1>3, <3>1, <3>2
    <3> HIDE DEF cleared, done, sent, target
    <3>4. Sent(s, cleared) = Sent(s, e)
      BY <1>3, <1>7, <3>2 DEF Sent
    <3>5. Marks(s, cleared, b)
      BY <1>3, <1>5, <1>7, <3>2, <3>4 DEF Marks
    <3>6. OneQueue(cleared) /\ cleared.outQ = <<>> /\ cleared.parked = <<>>
      BY <1>3, <1>7, <2>1, <3>2 DEF OneQueue
    <3>7. Queued(e.parked, b[cleared.tx], cleared.accepted)
      BY <1>3, <1>5, <1>7, <3>2
    <3>8. done \in EndStates
      BY <1>4, <1>7, <3>3, AppDispatchAllQueues
    <3>9. /\ cleared.tx <= done.tx
          /\ \E c : Counted(s, done, c) /\ \A k \in 0..cleared.tx : c[k] = b[k]
      BY <1>4, <1>7, <3>3, <3>5, <3>6, <3>7, AppDispatchAllCounts
    <3> QED BY <1>3, <1>7, <3>2, <3>8, <3>9
  <2>2. CASE ~e.prefers
    <3>1. e.parked = <<>>
      BY <1>5, <2>2 DEF OneQueue
    <3>2. sent.parked = <<>>
      BY <1>3, <1>6, <3>1 DEF Queues
    <3>3. Sent(s, moved) = Sent(s, e)
      BY <1>3 DEF Sent
    <3>4. Marks(s, moved, b) /\ OneQueue(moved) /\ Queued(e.outQ, b[moved.tx], moved.accepted)
      BY <1>3, <1>5, <2>2, <3>1, <3>3 DEF Marks, OneQueue
    <3>5. /\ moved.tx <= sent.tx
          /\ \E c : Counted(s, sent, c) /\ \A k \in 0..moved.tx : c[k] = b[k]
      BY <1>3, <1>4, <3>1, <3>4, AppDispatchAllCounts
    <3>6. done \in {sent, cleared}
      BY <3>2 DEF DispatchAll
    <3> HIDE DEF cleared, done, sent
    <3>7. Plain(s, sent, cleared) /\ Plain(s, sent, sent)
      BY <1>7, <3>2, Untouched, PlainItself
    <3>8. Continues(s, sent, done)
      <4>1. Plain(s, sent, done)
        BY <3>6, <3>7
      <4>2. sent.tx \in Nat
        BY <1>6, Parts
      <4> QED BY <4>1, <4>2, PlainContinues
    <3>9. PICK c : Counted(s, sent, c) /\ \A k \in 0..moved.tx : c[k] = b[k]
      BY <3>5
    <3>10. PICK d : Counted(s, done, d) /\ \A k \in 0..sent.tx : d[k] = c[k]
      BY <3>8, <3>9 DEF Continues
    <3>11. sent.tx <= done.tx /\ done \in EndStates
      BY <1>6, <1>7, <3>6, <3>8, <3>9 DEF Continues
    <3>12. sent.tx \in Nat /\ done.tx \in Nat /\ e.tx <= sent.tx
      BY <1>3, <1>6, <3>5, <3>11, Parts
    <3>13. \A k \in 0..e.tx : k \in 0..sent.tx
      BY <1>4, <3>12
    <3>14. \A k \in 0..e.tx : d[k] = b[k]
      BY <1>3, <3>9, <3>10, <3>13
    <3>15. e.tx <= done.tx
      BY <1>4, <3>11, <3>12
    <3> QED BY <3>10, <3>11, <3>14, <3>15
  <2> QED BY <2>1, <2>2
<1> HIDE DEF done
<1>9. Plain(s, done, f)
  BY <1>8, SwitchedPlain
<1>10. done.tx \in Nat
  BY <1>8, Parts
<1>11. Continues(s, done, f)
  BY <1>9, <1>10, PlainContinues
<1>12. f.tx = done.tx
  BY <1>9 DEF Plain
<1>13. \A k \in 0..e.tx : k \in 0..done.tx
  BY <1>4, <1>8, <1>10
<1>14. \E d : Counted(s, f, d) /\ \A k \in 0..e.tx : d[k] = b[k]
  <2>1. PICK c : Counted(s, done, c) /\ \A k \in 0..e.tx : c[k] = b[k]
    BY <1>8
  <2>2. PICK d : Counted(s, f, d) /\ \A k \in 0..done.tx : d[k] = c[k]
    BY <1>11, <2>1 DEF Continues
  <2> QED BY <1>13, <2>1, <2>2
<1> QED BY <1>2, <1>8, <1>12, <1>14

LEMMA AfterDrainContinues ==
  ASSUME NEW s \in Sides, NEW C \in SUBSET Upgrades, NEW e, Fit(s, e, C), e.drains # <<>>
  PROVE  Continues(s, e, AfterDrain(s, e))
<1>1. CASE s = "agent"
  <2>1. Plain(s, e, AfterDrain(s, e)) /\ e.tx \in Nat
    BY <1>1, AgentDrainPlain, Parts DEF Fit, Shaped
  <2> QED BY <2>1, PlainContinues
<1>2. CASE s = "app"
  <2>1. Fit("app", e, C)
    BY <1>2
  <2>2. Continues("app", e, AfterDrain("app", e))
    BY <2>1, AppDrainContinues
  <2> QED BY <1>2, <2>2
<1> QED BY <1>1, <1>2 DEF Sides

LEMMA ThenPlain ==
  ASSUME NEW s \in Sides, NEW e \in EndStates, NEW f \in EndStates, NEW g \in EndStates,
         Continues(s, e, f), Plain(s, f, g)
  PROVE  Continues(s, e, g)
<1>1. f.tx \in Nat
  BY Parts
<1>2. Continues(s, f, g)
  BY <1>1, PlainContinues
<1> QED BY <1>2, ContinuesOn

LEMMA DowngradeContinues ==
  ASSUME NEW s \in Sides, NEW C \in SUBSET Upgrades, NEW e, Fit(s, e, C)
  PROVE  Continues(s, e, Downgrade(s, e))
<1>1. e \in EndStates /\ e.tx \in Nat
  BY Parts DEF Fit, Shaped
<1>2. CASE e.st = "idle"
  <2>1. Plain(s, e, e) /\ Downgrade(s, e) = e
    BY <1>2, PlainItself DEF Downgrade
  <2> QED BY <1>1, <2>1, PlainContinues
<1>3. CASE e.st # "idle"
  <2> DEFINE told == SendControl(s, e, "downgrade")
             shut == ClosePeer(told)
  <2>1. "downgrade" \in Kinds \ {"business", "propose"}
    BY DEF Kinds
  <2>2. Fit(s, told, C) /\ Same(e, told) /\ Continues(s, e, told)
    BY <1>1, <2>1, SendControlFits, SendControlContinues
  <2>3. told \in EndStates
    BY <2>2 DEF Fit, Shaped
  <2> HIDE DEF told
  <2>4. Fit(s, shut, C) /\ Same(told, shut) /\ shut.peer = None /\ Plain(s, told, shut)
    BY <2>2, <2>3, ClosePeerFits, ClosePeerPlain
  <2>5. shut \in EndStates
    BY <2>4 DEF Fit, Shaped
  <2>6. Downgrade(s, e) =
          IF ~e.prefers THEN ResetToIdle(OnSwitchPath(s, shut, "relay"))
          ELSE IF s = "app" THEN ForceClose(ResetToIdle(shut))
          ELSE ForceCloseRoute(ResetToIdle(shut))
    BY <1>3 DEF Downgrade, told
  <2> HIDE DEF shut
  <2>7. Continues(s, e, shut)
    BY <1>1, <2>2, <2>3, <2>4, <2>5, ThenPlain
  <2>8. CASE ~e.prefers
    <3> DEFINE g == OnSwitchPath(s, shut, "relay")
               h == ResetToIdle(g)
    <3>1. ~shut.prefers
      BY <2>2, <2>4, <2>8 DEF Same
    <3>2. Fit(s, g, C) /\ g.peer = None /\ Plain(s, shut, g)
      BY <2>4, <3>1, ToRelayFits, ToRelayPlain
    <3>3. Downgrade(s, e) = h
      BY <2>6, <2>8
    <3> HIDE DEF g
    <3>4. g \in EndStates
      BY <3>2 DEF Fit, Shaped
    <3>5. Fit(s, h, C) /\ Plain(s, g, h)
      BY <3>2, <3>4, ResetToIdleFits, ResetToIdlePlain
    <3>6. h \in EndStates
      BY <3>5 DEF Fit, Shaped
    <3> HIDE DEF h
    <3>7. Plain(s, shut, h)
      BY <3>2, <3>5, PlainOn
    <3> QED BY <1>1, <2>5, <2>7, <3>3, <3>6, <3>7, ThenPlain
  <2>9. CASE e.prefers
    <3> DEFINE g == ResetToIdle(shut)
               h == IF s = "app" THEN ForceClose(g) ELSE ForceCloseRoute(g)
    <3>1. Fit(s, g, C) /\ Plain(s, shut, g)
      BY <2>4, <2>5, ResetToIdleFits, ResetToIdlePlain
    <3>2. Downgrade(s, e) = h
      BY <2>6, <2>9
    <3>3. g \in EndStates
      BY <3>1 DEF Fit, Shaped
    <3> HIDE DEF g
    <3>4. Plain(s, g, h)
      BY <3>3, ForceClosePlain, ForceCloseRoutePlain
    <3>5. h \in EndStates
      <4>1. ForceClose(g) \in EndStates
        BY <3>3, Records DEF ForceClose
      <4> QED BY <3>3, <4>1, ForceCloseRouteTyped
    <3> HIDE DEF h
    <3>6. Plain(s, shut, h)
      BY <3>1, <3>4, PlainOn
    <3> QED BY <1>1, <2>5, <2>7, <3>2, <3>5, <3>6, ThenPlain
  <2> QED BY <2>8, <2>9
<1> QED BY <1>2, <1>3

\* None of these fields matters to the channel.
LEMMA StatePlain ==
  ASSUME NEW s, NEW e \in EndStates, NEW x,
         NEW f \in {[e EXCEPT !.st = x], [e EXCEPT !.sdp = x], [e EXCEPT !.remote = x],
                    [e EXCEPT !.rx = x], [e EXCEPT !.got = x], [e EXCEPT !.ended = x]}
  PROVE  Plain(s, e, f)
<1>1. /\ f.relay = e.relay /\ f.direct = e.direct /\ f.outQ = e.outQ /\ f.parked = e.parked
      /\ f.tx = e.tx /\ f.accepted = e.accepted /\ f.path = e.path
      /\ f.queueing = e.queueing /\ f.prefers = e.prefers
  BY DEF EndStates
<1> QED BY <1>1, Untouched

LEMMA MaybeUpgradePlain ==
  ASSUME NEW s \in Sides, NEW C \in SUBSET Upgrades, NEW e, Fit(s, e, C), e.up # None
  PROVE  Plain(s, e, MaybeUpgrade(s, e))
<1>1. CASE ~(e.local /\ e.remote)
  BY <1>1, PlainItself DEF MaybeUpgrade
<1>2. CASE e.local /\ e.remote
  <2> DEFINE f == [e EXCEPT !.st = "upgraded"]
  <2>1. e \in EndStates /\ "upgraded" \in CoordinatorStates \ {"idle"}
    BY DEF Fit, Shaped, CoordinatorStates
  <2>2. Fit(s, f, C) /\ Plain(s, e, f)
    BY <2>1, StateFits, StatePlain
  <2>3. MaybeUpgrade(s, e) = OnSwitchPath(s, f, "p2p")
    BY <1>2 DEF MaybeUpgrade
  <2> HIDE DEF f
  <2>4. Plain(s, f, OnSwitchPath(s, f, "p2p"))
    BY <2>2, ToDirectPlain
  <2> QED BY <2>2, <2>3, <2>4, PlainOn
<1> QED BY <1>1, <1>2

LEMMA HandleProposePlain ==
  ASSUME NEW s \in Sides, NEW C \in SUBSET Upgrades, NEW e, Fit(s, e, C), NEW u \in Upgrades
  PROVE  Plain(s, e, HandlePropose(s, e, u))
<1> DEFINE c == Configured(s, e)
           d == [c EXCEPT !.st = "proposed", !.up = u]
<1>1. e \in EndStates
  BY DEF Fit, Shaped
<1>2. CASE s = "agent"
  <2> DEFINE b == [e EXCEPT !.strict = e.prefers, !.parked = <<>>]
             f == [e EXCEPT !.strict = e.prefers, !.parked = <<>>, !.st = "proposed", !.up = u]
  <2>1. HandlePropose(s, e, u) \in {b, f}
    BY <1>1, <1>2 DEF HandlePropose, Configured, EndStates
  <2>2. ToSet(<<>>) = {}
    BY NoFrame
  <2>3. ASSUME NEW g \in {b, f} PROVE Plain(s, e, g)
    <3>1. /\ g.relay = e.relay /\ g.direct = e.direct /\ g.outQ = e.outQ /\ g.parked = <<>>
          /\ g.tx = e.tx /\ g.accepted = e.accepted
      BY <1>1, <2>3 DEF EndStates
    <3>2. Sent(s, g) \subseteq Sent(s, e)
      BY <2>2, <3>1 DEF Sent
    <3> QED BY <1>2, <3>1, <3>2 DEF Plain
  <2> QED BY <2>1, <2>3
<1>3. CASE s = "app"
  <2> DEFINE f == [e EXCEPT !.st = "proposed", !.up = u]
  <2>1. HandlePropose(s, e, u) \in {e, f}
    BY <1>3 DEF HandlePropose, Configured
  <2>2. /\ f.relay = e.relay /\ f.direct = e.direct /\ f.outQ = e.outQ /\ f.parked = e.parked
        /\ f.tx = e.tx /\ f.accepted = e.accepted /\ f.path = e.path
        /\ f.queueing = e.queueing /\ f.prefers = e.prefers
    BY <1>1 DEF EndStates
  <2>3. Plain(s, e, f) /\ Plain(s, e, e)
    BY <2>2, Untouched, PlainItself
  <2> QED BY <2>1, <2>3
<1> QED BY <1>2, <1>3 DEF Sides

LEMMA HandleCommittedPlain ==
  ASSUME NEW s \in Sides, NEW C \in SUBSET Upgrades, NEW e, Fit(s, e, C), NEW u \in C
  PROVE  Plain(s, e, HandleCommitted(s, e, u))
<1>1. CASE e.up # u
  BY <1>1, PlainItself DEF HandleCommitted
<1>2. CASE e.up = u
  <2> DEFINE f == [e EXCEPT !.remote = TRUE]
  <2>1. e \in EndStates
    BY DEF Fit, Shaped
  <2>2. f \in EndStates /\ Plain(s, e, f)
    BY <2>1, Records, StatePlain
  <2>3. /\ Same(e, f) /\ f.relay = e.relay /\ f.direct = e.direct /\ f.outQ = e.outQ
        /\ f.parked = e.parked /\ f.local = e.local /\ f.remote = TRUE /\ f.up = e.up
        /\ f.tpeer = e.tpeer /\ f.strict = e.strict /\ f.drains = e.drains
        /\ f.queueing = e.queueing /\ f.switching = e.switching /\ f.st = e.st
        /\ f.peer = e.peer
    BY <2>1 DEF Same, EndStates
  <2>4. HandleCommitted(s, e, u) = MaybeUpgrade(s, f)
    BY <1>2 DEF HandleCommitted
  <2> HIDE DEF f
  <2>5. Shaped(f)
    BY <2>2, <2>3 DEF Fit, Shaped
  <2>6. Quiet(s, e, f, C)
    BY <1>2, <2>3, <2>5 DEF Quiet, Fit, Backed, Direct, Same
  <2>7. Fit(s, f, C) /\ f.up # None
    BY <1>2, <2>3, <2>6, QuietFits, TransportAssumption DEF TransportAssumption
  <2>8. Plain(s, f, MaybeUpgrade(s, f))
    BY <2>7, MaybeUpgradePlain
  <2> QED BY <2>2, <2>4, <2>8, PlainOn
<1> QED BY <1>1, <1>2

LEMMA HandleSdpPlain ==
  ASSUME NEW s, NEW e \in EndStates, NEW u \in Upgrades \cup {None}
  PROVE  Plain(s, e, HandleOffer(s, e, u)) /\ Plain(s, e, HandleAnswer(s, e, u))
<1> DEFINE f == [e EXCEPT !.sdp = "offered"]
           g == [e EXCEPT !.sdp = "done", !.linked = @ \cup {u}]
<1>1. HandleOffer(s, e, u) \in {e, f} /\ HandleAnswer(s, e, u) \in {e, g}
  BY DEF HandleOffer, HandleAnswer
<1>2. /\ g.relay = e.relay /\ g.direct = e.direct /\ g.outQ = e.outQ /\ g.parked = e.parked
      /\ g.tx = e.tx /\ g.accepted = e.accepted /\ g.path = e.path
      /\ g.queueing = e.queueing /\ g.prefers = e.prefers
  BY DEF EndStates
<1>3. Plain(s, e, e) /\ Plain(s, e, f)
  BY PlainItself, StatePlain
<1> HIDE DEF f, g
<1>4. Plain(s, e, g)
  BY <1>2, Untouched
<1> QED BY <1>1, <1>3, <1>4

LEMMA OpenContinues ==
  ASSUME NEW s \in Sides, NEW C \in SUBSET Upgrades, NEW e, Fit(s, e, C),
         NEW m, Genuine(m, C)
  PROVE  Continues(s, e, Open(s, e, m))
<1>1. e \in EndStates /\ e.tx \in Nat
  BY Parts DEF Fit, Shaped
<1>2. CASE m.seq # e.rx + 1
  <2> DEFINE f == [e EXCEPT !.ended = "broken"]
  <2>1. Open(s, e, m) = f
    BY <1>2 DEF Open
  <2>2. Plain(s, e, f)
    BY <1>1, StatePlain
  <2> QED BY <1>1, <2>1, <2>2, PlainContinues
<1>3. CASE m.seq = e.rx + 1
  <2> DEFINE n == [e EXCEPT !.rx = m.seq]
  <2>1. m.seq \in Nat /\ m.biz \in Nat /\ m.kind \in Kinds /\ m.up \in Upgrades \cup {None}
    BY DEF Genuine, Frames
  <2>2. n \in EndStates /\ Plain(s, e, n)
    BY <1>1, <2>1, Records, StatePlain
  <2>3. /\ n.commits = e.commits /\ n.prefers = e.prefers
        /\ n.relay = e.relay /\ n.direct = e.direct /\ n.outQ = e.outQ
        /\ n.parked = e.parked /\ n.local = e.local /\ n.remote = e.remote /\ n.up = e.up
        /\ n.tpeer = e.tpeer /\ n.strict = e.strict /\ n.drains = e.drains
        /\ n.queueing = e.queueing /\ n.switching = e.switching /\ n.st = e.st
        /\ n.peer = e.peer
    BY <1>1 DEF EndStates
  <2>4. Open(s, e, m) = Handle(s, n, m)
    BY <1>3 DEF Open
  <2> HIDE DEF n
  <2>5. Shaped(n)
    BY <2>2, <2>3 DEF Fit, Shaped
  <2>6. Quiet(s, e, n, C)
    BY <2>3, <2>5 DEF Quiet, Fit, Backed, Direct
  <2>7. Fit(s, n, C) /\ n.tx \in Nat
    BY <2>2, <2>6, QuietFits, Parts
  <2>8. Continues(s, e, n)
    BY <1>1, <2>2, PlainContinues
  <2> DEFINE g == Handle(s, n, m)
  <2>9. CASE m.kind = "downgrade"
    <3>1. g = Downgrade(s, n)
      BY <2>9 DEF Handle
    <3>2. Continues(s, n, g) /\ Fit(s, g, C)
      BY <2>7, <3>1, DowngradeContinues, DowngradeFits
    <3>3. g \in EndStates
      BY <3>2 DEF Fit, Shaped
    <3> QED BY <1>1, <2>2, <2>4, <2>8, <3>2, <3>3, ContinuesOn
  <2>10. CASE m.kind # "downgrade"
    <3>1. Plain(s, n, g)
      <4>1. CASE m.kind = "business"
        <5> DEFINE h == Append(n.got, m.biz)
        <5>1. g = [n EXCEPT !.got = h]
          BY <4>1 DEF Handle
        <5> HIDE DEF h, g
        <5>2. Plain(s, n, [n EXCEPT !.got = h])
          BY <2>2, StatePlain
        <5> QED BY <5>1, <5>2 DEF g
      <4>2. CASE m.kind = "offer" \/ m.kind = "answer"
        BY <2>1, <2>2, <4>2, HandleSdpPlain DEF Handle
      <4>3. CASE m.kind = "committed"
        <5>1. m.up \in C
          BY <4>3 DEF Genuine
        <5>2. g = HandleCommitted(s, n, m.up)
          BY <4>3 DEF Handle
        <5> QED BY <2>7, <5>1, <5>2, HandleCommittedPlain
      <4>4. CASE m.kind = "candidate"
        BY <4>4, PlainItself DEF Handle
      <4> QED BY <2>1, <2>10, <4>1, <4>2, <4>3, <4>4 DEF Genuine, Kinds
    <3>2. Plain(s, e, g)
      BY <2>2, <3>1, PlainOn
    <3> QED BY <1>1, <2>4, <3>2, PlainContinues
  <2> QED BY <2>9, <2>10
<1> QED BY <1>2, <1>3

LEMMA HealthDowngradeContinues ==
  ASSUME NEW s \in Sides, NEW C \in SUBSET Upgrades, NEW e, Fit(s, e, C)
  PROVE  Continues(s, e, HealthDowngrade(s, e))
<1> DEFINE d == IF e.strict THEN ForceCloseRoute(e) ELSE Detach(s, SwitchPath(e, "relay"))
<1>1. e \in EndStates /\ e.tx \in Nat
  BY Parts DEF Fit, Shaped
<1>2. CASE e.path # "p2p"
  <2>1. HealthDowngrade(s, e) = e /\ Plain(s, e, e)
    BY <1>2, PlainItself DEF HealthDowngrade
  <2> QED BY <1>1, <2>1, PlainContinues
<1>3. CASE e.path = "p2p" /\ e.prefers /\ s = "app"
  <2>1. HealthDowngrade(s, e) = ForceClose(e) /\ Plain(s, e, ForceClose(e))
    BY <1>1, <1>3, ForceClosePlain DEF HealthDowngrade
  <2> QED BY <1>1, <2>1, PlainContinues
<1>4. CASE e.path = "p2p" /\ ~(e.prefers /\ s = "app")
  <2>1. Fit(s, d, C) /\ Plain(s, e, d)
    <3>1. CASE e.strict
      BY <1>1, <1>4, <3>1, ForceCloseRouteFits, ForceCloseRoutePlain
    <3>2. CASE ~e.strict
      <4> DEFINE g == SwitchPath(e, "relay")
      <4>1. Fit(s, g, C) /\ Plain(s, e, g)
        BY <1>1, <1>4, SwitchPathFits, SwitchPathPlain DEF Paths
      <4>2. d = Detach(s, g)
        BY <3>2
      <4> HIDE DEF g, d
      <4>3. g \in EndStates
        BY <4>1 DEF Fit, Shaped
      <4>4. Fit(s, Detach(s, g), C) /\ Plain(s, g, Detach(s, g))
        BY <4>1, <4>3, DetachFits, DetachPlain
      <4> QED BY <4>1, <4>2, <4>4, PlainOn
    <3> QED BY <3>1, <3>2
  <2>2. HealthDowngrade(s, e) = IF e.tpeer = None THEN d ELSE Downgrade(s, d)
    BY <1>4 DEF HealthDowngrade
  <2> HIDE DEF d
  <2>3. d \in EndStates
    BY <2>1 DEF Fit, Shaped
  <2>4. Continues(s, e, d)
    BY <1>1, <2>1, PlainContinues
  <2>5. Continues(s, d, Downgrade(s, d)) /\ Fit(s, Downgrade(s, d), C)
    BY <2>1, DowngradeContinues, DowngradeFits
  <2>6. Downgrade(s, d) \in EndStates
    BY <2>5 DEF Fit, Shaped
  <2>7. Continues(s, e, Downgrade(s, d))
    BY <1>1, <2>3, <2>4, <2>5, <2>6, ContinuesOn
  <2> QED BY <2>2, <2>4, <2>7
<1> QED BY <1>2, <1>3, <1>4

LEMMA ReconnectContinues ==
  ASSUME NEW C \in SUBSET Upgrades, NEW e, Fit("app", e, C)
  PROVE  Continues("app", e, Reconnect(e))
<1> DEFINE told == SendControl("app", e, "downgrade")
           shut == ClosePeer(told)
           c == IF e.st = "idle" THEN e ELSE ResetToIdle(shut)
           d == AppDetach(c)
           f == [d EXCEPT !.path = "relay", !.outQ = <<>>, !.queueing = FALSE,
                          !.switching = FALSE]
<1>1. "app" \in Sides /\ e \in EndStates /\ e.tx \in Nat
  BY Parts DEF Sides, Fit, Shaped
<1>2. Fit("app", c, C) /\ Continues("app", e, c)
  <2>1. CASE e.st = "idle"
    BY <1>1, <2>1, PlainItself, PlainContinues
  <2>2. CASE e.st # "idle"
    <3>1. Fit("app", told, C) /\ Continues("app", e, told)
      BY <1>1, SendControlFits, SendControlContinues DEF Kinds
    <3>2. told \in EndStates
      BY <3>1 DEF Fit, Shaped
    <3> HIDE DEF told
    <3>3. Fit("app", shut, C) /\ shut.peer = None /\ Plain("app", told, shut)
      BY <1>1, <3>1, <3>2, ClosePeerFits, ClosePeerPlain
    <3>4. shut \in EndStates
      BY <3>3 DEF Fit, Shaped
    <3> HIDE DEF shut
    <3>5. Fit("app", ResetToIdle(shut), C) /\ Plain("app", shut, ResetToIdle(shut))
      BY <1>1, <3>3, <3>4, ResetToIdleFits, ResetToIdlePlain
    <3>6. ResetToIdle(shut) \in EndStates /\ Plain("app", told, ResetToIdle(shut))
      BY <3>3, <3>5, PlainOn DEF Fit, Shaped
    <3>7. Continues("app", e, ResetToIdle(shut))
      BY <1>1, <3>1, <3>2, <3>6, ThenPlain
    <3> QED BY <2>2, <3>5, <3>7
  <2> QED BY <2>1, <2>2
<1>3. Reconnect(e) = f
  BY DEF Reconnect
<1>4. c \in EndStates
  BY <1>2 DEF Fit, Shaped
<1> HIDE DEF c
<1>5. Fit("app", d, C) /\ Plain("app", c, d)
  BY <1>1, <1>2, <1>4, AppDetachFits, AppDetachPlain
<1>6. d \in EndStates
  BY <1>5 DEF Fit, Shaped
<1> HIDE DEF d
<1>7. /\ f.relay = d.relay /\ f.direct = d.direct /\ f.outQ = <<>> /\ f.parked = d.parked
      /\ f.tx = d.tx /\ f.accepted = d.accepted /\ f.path = "relay"
      /\ f.queueing = FALSE /\ f.prefers = d.prefers
  BY <1>6 DEF EndStates
<1> HIDE DEF f
<1>8. Plain("app", d, f)
  <2>1. Sent("app", f) \subseteq Sent("app", d)
    BY <1>7 DEF Sent
  <2> QED BY <1>7, <2>1 DEF Plain, OneQueue
<1>9. Fit("app", f, C)
  BY <1>3, ReconnectFits
<1>10. f \in EndStates /\ Plain("app", c, f)
  BY <1>5, <1>8, <1>9, PlainOn DEF Fit, Shaped
<1> QED BY <1>1, <1>2, <1>3, <1>4, <1>10, ThenPlain

-----------------------------------------------------------------------------
(* What is read.                                                           *)

\* The next message n may be read of what end s, which is e, has sent.
Readable(s, e, got, n) ==
  /\ n \in Nat /\ LastOf(got) < n /\ n <= e.accepted
  /\ s = "agent" => n = LastOf(got) + 1

Reads(s, e, got, after) ==
  after = got \/ \E n : Readable(s, e, got, n) /\ after = Append(got, n)

LEMMA LastAdded ==
  ASSUME NEW q \in Seq(Nat), NEW n \in Nat
  PROVE  LastOf(Append(q, n)) = n /\ LastOf(q) \in Nat
<1>1. /\ Append(q, n) \in Seq(Nat) /\ Len(Append(q, n)) = Len(q) + 1
      /\ Append(q, n)[Len(q) + 1] = n /\ Len(q) \in Nat
  OBVIOUS
<1>2. Append(q, n) # <<>>
  BY <1>1
<1>3. LastOf(Append(q, n)) = n
  BY <1>1, <1>2 DEF LastOf
<1>4. q # <<>> => q[Len(q)] \in Nat
  OBVIOUS
<1> QED BY <1>3, <1>4 DEF LastOf

LEMMA OpenReads ==
  ASSUME NEW s \in Sides, NEW C \in SUBSET Upgrades, NEW e, Fit(s, e, C),
         NEW o \in Sides, NEW d \in EndStates, NEW b, Counted(o, d, b), ReadBy(e, d, b),
         NEW m \in Sent(o, d), Genuine(m, C)
  PROVE  LET f == Open(s, e, m)
         IN  ReadBy(f, d, b) /\ Reads(o, d, e.got, f.got)
<1> DEFINE f == Open(s, e, m)
<1>1. e \in EndStates /\ e.rx \in Nat /\ e.got \in Seq(Nat) /\ d.tx \in Nat /\ d.accepted \in Nat
  BY Parts DEF Fit, Shaped
<1>2. CASE m.seq # e.rx + 1
  <2>1. f = [e EXCEPT !.ended = "broken"]
    BY <1>2 DEF Open
  <2>2. f.rx = e.rx /\ f.got = e.got
    BY <1>1, <2>1 DEF EndStates
  <2> HIDE DEF f
  <2>3. ReadBy(f, d, b) /\ Reads(o, d, e.got, f.got)
    BY <2>2 DEF ReadBy, Reads
  <2> QED BY <2>3 DEF f
<1>3. CASE m.seq = e.rx + 1
  <2> DEFINE n == [e EXCEPT !.rx = m.seq]
  <2>1. m.seq \in Nat /\ m.biz \in Nat /\ m.kind \in Kinds /\ m.kind # "propose"
        /\ m.up \in Upgrades \cup {None}
    BY DEF Genuine, Frames
  <2>2. Agrees(o, m, d.tx, b) /\ b \in [0..d.tx -> Nat] /\ \A k \in 0..d.tx : b[k] <= d.accepted
    BY DEF Counted, Marks
  <2>3. m.seq \in 1..d.tx /\ m.seq - 1 = e.rx
    BY <1>1, <1>3, <2>1, <2>2 DEF Agrees
  <2>4. m.seq <= d.tx /\ b[m.seq] \in Nat /\ b[m.seq] <= d.accepted /\ b[e.rx] = LastOf(e.got)
    BY <1>1, <2>2, <2>3 DEF ReadBy
  <2>5. n \in EndStates /\ n.rx = m.seq /\ n.got = e.got
    <3>1. n \in EndStates
      BY <1>1, <2>1, Records
    <3> QED BY <1>1, <3>1 DEF EndStates
  <2>6. f = Handle(s, n, m)
    BY <1>3 DEF Open
  <2>7. /\ n.commits = e.commits /\ n.prefers = e.prefers
        /\ n.relay = e.relay /\ n.direct = e.direct /\ n.outQ = e.outQ
        /\ n.parked = e.parked /\ n.local = e.local /\ n.remote = e.remote /\ n.up = e.up
        /\ n.tpeer = e.tpeer /\ n.strict = e.strict /\ n.drains = e.drains
        /\ n.queueing = e.queueing /\ n.switching = e.switching /\ n.st = e.st
        /\ n.peer = e.peer
    BY <1>1 DEF EndStates
  <2> HIDE DEF n, f
  <2>8. CASE m.kind = "business"
    <3> DEFINE h == Append(n.got, m.biz)
    <3>1. f = [n EXCEPT !.got = h]
      BY <2>6, <2>8 DEF Handle
    <3>2. f.rx = m.seq /\ f.got = Append(e.got, m.biz)
      BY <2>5, <3>1 DEF EndStates
    <3>3. m.biz = b[m.seq] /\ b[m.seq - 1] < b[m.seq] /\ (o = "agent" => b[m.seq] = b[m.seq - 1] + 1)
      BY <2>2, <2>8 DEF Agrees
    <3>4. LastOf(f.got) = m.biz
      BY <1>1, <2>1, <3>2, LastAdded
    <3>5. ReadBy(f, d, b)
      BY <2>4, <3>2, <3>3, <3>4 DEF ReadBy
    <3>6. Readable(o, d, e.got, m.biz)
      BY <2>1, <2>3, <2>4, <3>3 DEF Readable
    <3>7. Reads(o, d, e.got, f.got)
      BY <3>2, <3>6 DEF Reads
    <3> QED BY <3>5, <3>7 DEF f
  <2>9. CASE m.kind # "business"
    <3>1. Shaped(n)
      BY <2>5, <2>7 DEF Fit, Shaped
    <3>2. Quiet(s, e, n, C)
      BY <2>7, <3>1 DEF Quiet, Fit, Backed, Direct
    <3>3. Fit(s, n, C)
      BY <3>2, QuietFits
    <3>4. Same(n, f)
      <4>1. CASE m.kind = "offer" \/ m.kind = "answer"
        BY <2>6, <3>3, <4>1, HandleSdpFits DEF Handle
      <4>2. CASE m.kind = "committed"
        <5>1. m.up \in C
          BY <4>2 DEF Genuine
        <5>2. f = HandleCommitted(s, n, m.up)
          BY <2>6, <4>2 DEF Handle
        <5> QED BY <3>3, <5>1, <5>2, HandleCommittedFits
      <4>3. CASE m.kind = "downgrade"
        <5>1. f = Downgrade(s, n)
          BY <2>6, <4>3 DEF Handle
        <5> QED BY <3>3, <5>1, DowngradeFits
      <4>4. CASE m.kind = "candidate"
        BY <2>6, <4>4 DEF Handle, Same
      <4> QED BY <2>1, <2>9, <4>1, <4>2, <4>3, <4>4 DEF Kinds
    <3>5. f.rx = m.seq /\ f.got = e.got
      BY <2>5, <3>4 DEF Same
    <3>6. b[m.seq] = b[m.seq - 1]
      BY <2>1, <2>2, <2>9 DEF Agrees
    <3>7. ReadBy(f, d, b) /\ Reads(o, d, e.got, f.got)
      BY <2>3, <2>4, <3>5, <3>6 DEF ReadBy, Reads
    <3> QED BY <3>7 DEF f
  <2> QED BY <2>8, <2>9
<1> QED BY <1>2, <1>3

-----------------------------------------------------------------------------
(* Steps of the channel.                                                   *)

Accepted == [s \in Sides |-> end[s].accepted]
Received == [s \in Sides |-> end[Other(s)].got]

LEMMA ReadLater ==
  ASSUME NEW x, x.rx \in Nat, NEW e, NEW f, e.tx \in Nat, f.tx \in Nat, e.tx <= f.tx,
         NEW b, ReadBy(x, e, b), NEW c, \A k \in 0..e.tx : c[k] = b[k]
  PROVE  ReadBy(x, f, c)
<1>1. x.rx \in 0..e.tx /\ x.rx <= f.tx
  BY DEF ReadBy
<1> QED BY <1>1 DEF ReadBy

LEMMA StepNumbered ==
  ASSUME IInv, Numbered, NEW s \in Sides, NEW e \in EndStates, NEW g \in EndStates,
         end' = [end EXCEPT ![Other(s)] = g, ![s] = e],
         Continues(s, end[s], e), Continues(Other(s), end[Other(s)], g),
         g.rx = end[Other(s)].rx, g.got = end[Other(s)].got,
         \A b : Counted(Other(s), end[Other(s)], b) /\ ReadBy(end[s], end[Other(s)], b)
                  => ReadBy(e, end[Other(s)], b)
  PROVE  Numbered'
<1> DEFINE o == Other(s)
           d == end[s]
           h == end[o]
<1>1. o \in Sides /\ o # s /\ Other(o) = s /\ end \in [Sides -> EndStates] /\ Sides = {s, o}
  BY DEF Other, Sides, IInv
<1>2. end'[s] = e /\ end'[o] = g /\ d \in EndStates /\ h \in EndStates
  BY <1>1
<1>3. /\ e.tx \in Nat /\ g.tx \in Nat /\ d.tx \in Nat /\ h.tx \in Nat
      /\ e.rx \in Nat /\ g.rx \in Nat /\ d.rx \in Nat /\ h.rx \in Nat
  BY <1>2, Parts
<1>4. \E c \in [0..e.tx -> Nat] : Counted(s, e, c) /\ ReadBy(g, e, c)
  <2>1. PICK b \in [0..d.tx -> Nat] : Counted(s, d, b) /\ ReadBy(h, d, b)
    BY DEF Numbered
  <2>2. PICK c : Counted(s, e, c) /\ \A k \in 0..d.tx : c[k] = b[k]
    BY <2>1 DEF Continues
  <2>3. d.tx <= e.tx
    BY <2>1 DEF Continues
  <2>4. ReadBy(g, d, b)
    BY <2>1 DEF ReadBy
  <2> HIDE DEF d
  <2>5. ReadBy(g, e, c)
    BY <1>3, <2>2, <2>3, <2>4, ReadLater
  <2>6. c \in [0..e.tx -> Nat]
    BY <2>2 DEF Counted, Marks
  <2> QED BY <2>2, <2>5, <2>6
<1>5. \E c \in [0..g.tx -> Nat] : Counted(o, g, c) /\ ReadBy(e, g, c)
  <2>1. PICK b \in [0..h.tx -> Nat] : Counted(o, h, b) /\ ReadBy(d, h, b)
    BY <1>1 DEF Numbered
  <2>2. PICK c : Counted(o, g, c) /\ \A k \in 0..h.tx : c[k] = b[k]
    BY <2>1 DEF Continues
  <2>3. h.tx <= g.tx
    BY <2>1 DEF Continues
  <2>4. ReadBy(e, h, b)
    BY <2>1
  <2> HIDE DEF h
  <2>5. ReadBy(e, g, c)
    BY <1>3, <2>2, <2>3, <2>4, ReadLater
  <2>6. c \in [0..g.tx -> Nat]
    BY <2>2 DEF Counted, Marks
  <2> QED BY <2>2, <2>5, <2>6
<1>6. \A t \in Sides : \E c \in [0..end'[t].tx -> Nat] :
        Counted(t, end'[t], c) /\ ReadBy(end'[Other(t)], end'[t], c)
  BY <1>1, <1>2, <1>4, <1>5
<1> HIDE DEF o, d, h
<1> QED BY <1>6 DEF Numbered

\* What an end does without taking business, from itself or from the other.
LEMMA OneEndNumbered ==
  ASSUME IInv, Numbered, NEW s \in Sides, NEW e \in EndStates, Becomes(s, e),
         Continues(s, end[s], e), e.rx = end[s].rx, e.got = end[s].got
  PROVE  Numbered' /\ Received' = Received
<1> DEFINE o == Other(s)
           g == end[o]
<1>1. o \in Sides /\ o # s /\ end \in [Sides -> EndStates] /\ g \in EndStates
  BY DEF Other, Sides, IInv
<1>2. end' = [end EXCEPT ![o] = g, ![s] = e]
  BY <1>1 DEF Becomes
<1>3. Continues(o, g, g)
  BY <1>1, PlainItself, PlainContinues, Parts
<1>4. \A b : ReadBy(end[s], g, b) => ReadBy(e, g, b)
  BY DEF ReadBy
<1>5. Numbered'
  BY <1>1, <1>2, <1>3, <1>4, StepNumbered
<1>6. \A t \in Sides : end'[Other(t)].got = end[Other(t)].got
  BY <1>1, <1>2 DEF Other, Sides
<1> QED BY <1>5, <1>6 DEF Received

\* ... or accepting any.
LEMMA OneEndSilent ==
  ASSUME IInv, Numbered, NEW s \in Sides, NEW e \in EndStates, Becomes(s, e),
         Continues(s, end[s], e), Same(end[s], e)
  PROVE  Numbered' /\ UNCHANGED <<Accepted, Received>>
<1>1. Numbered' /\ Received' = Received
  BY OneEndNumbered DEF Same
<1>2. \A t \in Sides : end'[t].accepted = end[t].accepted
  BY DEF Becomes, Same, IInv
<1> QED BY <1>1, <1>2 DEF Accepted

LEMMA RelayTakenPlain ==
  ASSUME NEW s, NEW e \in EndStates, NEW r \in Seq(Frames), ToSet(r) \subseteq ToSet(e.relay)
  PROVE  Plain(s, e, [e EXCEPT !.relay = r])
<1> DEFINE f == [e EXCEPT !.relay = r]
<1>1. /\ f.relay = r /\ f.direct = e.direct /\ f.outQ = e.outQ /\ f.parked = e.parked
      /\ f.tx = e.tx /\ f.accepted = e.accepted /\ f.path = e.path
      /\ f.queueing = e.queueing /\ f.prefers = e.prefers
  BY DEF EndStates
<1> HIDE DEF f
<1>2. Sent(s, f) \subseteq Sent(s, e)
  BY <1>1 DEF Sent
<1>3. OneQueue(e) => OneQueue(f)
  BY <1>1 DEF OneQueue
<1> QED BY <1>1, <1>2, <1>3 DEF Plain, f

LEMMA DirectTakenPlain ==
  ASSUME NEW s, NEW e \in EndStates, NEW u \in Upgrades,
         NEW r \in Seq(Frames), ToSet(r) \subseteq ToSet(e.direct[u])
  PROVE  Plain(s, e, [e EXCEPT !.direct[u] = r])
<1> DEFINE d == [e.direct EXCEPT ![u] = r]
           f == [e EXCEPT !.direct = d]
<1>1. \A x \in Upgrades : ToSet(d[x]) \subseteq ToSet(e.direct[x])
  BY Parts
<1>2. [e EXCEPT !.direct[u] = r] = f
  OBVIOUS
<1> HIDE DEF d
<1>3. /\ f.relay = e.relay /\ f.direct = d /\ f.outQ = e.outQ /\ f.parked = e.parked
      /\ f.tx = e.tx /\ f.accepted = e.accepted /\ f.path = e.path
      /\ f.queueing = e.queueing /\ f.prefers = e.prefers
  BY DEF EndStates
<1> HIDE DEF f
<1>4. UNION {ToSet(f.direct[x]) : x \in Upgrades} \subseteq UNION {ToSet(e.direct[x]) : x \in Upgrades}
  BY <1>1, <1>3
<1>5. Sent(s, f) \subseteq Sent(s, e)
  BY <1>3, <1>4 DEF Sent
<1>6. OneQueue(e) => OneQueue(f)
  BY <1>3 DEF OneQueue
<1> QED BY <1>2, <1>3, <1>5, <1>6 DEF Plain

\* A proposal of the relay has no number.
LEMMA ProposedContinues ==
  ASSUME NEW s, NEW e \in EndStates, NEW r \in Seq(Frames), NEW m, m.kind = "propose",
         ToSet(r) = ToSet(e.relay) \cup {m}
  PROVE  Continues(s, e, [e EXCEPT !.relay = r])
<1> DEFINE f == [e EXCEPT !.relay = r]
<1>1. /\ f.relay = r /\ f.direct = e.direct /\ f.outQ = e.outQ /\ f.parked = e.parked
      /\ f.tx = e.tx /\ f.accepted = e.accepted /\ f.path = e.path
      /\ f.queueing = e.queueing /\ f.prefers = e.prefers /\ e.tx \in Nat
  BY Parts DEF EndStates
<1> HIDE DEF f
<1>2. Sent(s, f) = Sent(s, e) \cup {m}
  BY <1>1 DEF Sent
<1>3. ASSUME NEW b, Counted(s, e, b) PROVE Counted(s, f, b)
  <2>1. Agrees(s, m, f.tx, b)
    BY DEF Agrees
  <2>2. Marks(s, f, b)
    BY <1>1, <1>2, <1>3, <2>1 DEF Counted, Marks
  <2> QED BY <1>1, <1>3, <2>2 DEF Counted, OneQueue
<1>4. Continues(s, e, f)
  BY <1>1, <1>3 DEF Continues
<1> QED BY <1>4 DEF f

LEMMA ProposeNumbered ==
  ASSUME IInv, Numbered, NEW u \in Upgrades, Propose(u)
  PROVE  Numbered' /\ UNCHANGED <<Accepted, Received>>
<1>1. PICK i \in 1..Len(end["app"].relay) + 1, j \in 1..Len(end["agent"].relay) + 1 :
        end' = [end EXCEPT !["app"].relay = InsertAt(@, i, Control("propose", u)),
                           !["agent"].relay = InsertAt(@, j, Control("propose", u))]
  BY DEF Propose
<1> DEFINE m == Control("propose", u)
           n == [s \in Sides |-> IF s = "app" THEN i ELSE j]
<1>2. m \in Frames /\ m.kind = "propose"
  BY FrameTyped DEF Control, Kinds
<1>3. ASSUME NEW s \in Sides
      PROVE  /\ end'[s] = [end[s] EXCEPT !.relay = InsertAt(@, n[s], m)]
             /\ n[s] \in 1..Len(end[s].relay) + 1
  BY <1>1 DEF IInv, Sides
<1> HIDE DEF m, n
<1>4. ASSUME NEW s \in Sides
      PROVE  /\ Continues(s, end[s], end'[s]) /\ end'[s] \in EndStates
             /\ end'[s].rx = end[s].rx /\ end'[s].got = end[s].got
             /\ end'[s].accepted = end[s].accepted
  <2> DEFINE e == end[s]
             r == InsertAt(e.relay, n[s], m)
             f == [e EXCEPT !.relay = r]
  <2>1. e \in EndStates
    BY DEF IInv
  <2>2. r \in Seq(Frames) /\ ToSet(r) = ToSet(e.relay) \cup {m}
    <3>1. e.relay \in Seq(Frames) /\ n[s] \in 1..Len(e.relay) + 1
      BY <1>3, <2>1, Parts
    <3> HIDE DEF e
    <3> QED BY <1>2, <3>1, Inserted
  <2>3. end'[s] = f
    BY <1>3
  <2> HIDE DEF r, e
  <2>4. f \in EndStates
    BY <2>1, <2>2, Records
  <2>5. f.rx = e.rx /\ f.got = e.got /\ f.accepted = e.accepted
    BY <2>1 DEF EndStates
  <2>6. Continues(s, e, f)
    BY <1>2, <2>1, <2>2, ProposedContinues
  <2> QED BY <2>3, <2>4, <2>5, <2>6 DEF e
<1>5. "app" \in Sides /\ "agent" \in Sides /\ Other("app") = "agent"
  BY DEF Sides, Other
<1> DEFINE e == end'["app"]
           g == end'["agent"]
<1>6. end' = [end EXCEPT !["agent"] = g, !["app"] = e]
  BY <1>1, <1>5 DEF IInv
<1>7. \A b : ReadBy(end["app"], end["agent"], b) => ReadBy(e, end["agent"], b)
  BY <1>4, <1>5 DEF ReadBy
<1>8. /\ e \in EndStates /\ g \in EndStates /\ Continues("app", end["app"], e)
      /\ Continues("agent", end["agent"], g)
      /\ g.rx = end["agent"].rx /\ g.got = end["agent"].got
  BY <1>4, <1>5
<1> HIDE DEF e, g
<1>9. Numbered'
  BY <1>5, <1>6, <1>7, <1>8, StepNumbered
<1>10. \A t \in Sides : Other(t) \in Sides
  BY DEF Other, Sides
<1> QED BY <1>4, <1>9, <1>10 DEF Accepted, Received

ChannelMoves == [OneChannel!Next]_<<Accepted, Received>>

\* s reads what the other end has sent.
LEMMA ReadMoves ==
  ASSUME IInv, Numbered, NEW s \in Sides, NEW e \in EndStates, NEW g \in EndStates,
         end' = [end EXCEPT ![Other(s)] = g, ![s] = e],
         Continues(s, end[s], e), e.accepted = end[s].accepted,
         Plain(Other(s), end[Other(s)], g), Same(end[Other(s)], g),
         \A b : Counted(Other(s), end[Other(s)], b) /\ ReadBy(end[s], end[Other(s)], b)
                  => /\ ReadBy(e, end[Other(s)], b)
                     /\ Reads(Other(s), end[Other(s)], end[s].got, e.got)
  PROVE  Numbered' /\ ChannelMoves
<1> DEFINE o == Other(s)
           d == end[s]
           h == end[o]
<1>1. o \in Sides /\ o # s /\ Other(o) = s /\ end \in [Sides -> EndStates] /\ Sides = {s, o}
  BY DEF Other, Sides, IInv
<1>2. end'[s] = e /\ end'[o] = g /\ d \in EndStates /\ h \in EndStates
  BY <1>1
<1>3. Continues(o, h, g)
  BY <1>2, PlainContinues, Parts
<1>4. Numbered'
  BY <1>3, StepNumbered DEF Same
<1>5. PICK b \in [0..h.tx -> Nat] : Counted(o, h, b) /\ ReadBy(d, h, b)
  BY <1>1 DEF Numbered
<1>6. Reads(o, h, d.got, e.got)
  BY <1>5
<1>7. /\ Accepted[s] = d.accepted /\ Accepted[o] = h.accepted
      /\ Received[s] = h.got /\ Received[o] = d.got /\ d.got \in Seq(Nat) /\ h.accepted \in Nat
      /\ Accepted \in [Sides -> Nat] /\ Received \in [Sides -> Seq(Nat)]
  BY <1>1, <1>2, Parts DEF Accepted, Received
<1>8. /\ Accepted'[s] = d.accepted /\ Accepted'[o] = h.accepted
      /\ Received'[s] = h.got /\ Received'[o] = e.got
  BY <1>1, <1>2 DEF Accepted, Received, Same
<1>9. /\ Accepted = [t \in Sides |-> Accepted[t]] /\ Accepted' = [t \in Sides |-> Accepted'[t]]
      /\ Received' = [t \in Sides |-> Received'[t]] /\ Received = [t \in Sides |-> Received[t]]
  BY DEF Accepted, Received
<1> HIDE DEF o, d, h
<1>10. Accepted' = Accepted
  BY <1>1, <1>7, <1>8, <1>9
<1>11. CASE e.got = d.got
  <2>1. Received' = Received
    BY <1>1, <1>7, <1>8, <1>9, <1>11
  <2> QED BY <1>4, <1>10, <2>1 DEF ChannelMoves
<1>12. ASSUME NEW n, Readable(o, h, d.got, n), e.got = Append(d.got, n)
       PROVE  OneChannel!Next
  <2>1. Received' = [Received EXCEPT ![o] = Append(@, n)]
    BY <1>1, <1>7, <1>8, <1>9, <1>12
  <2>2. OneChannel!Last(o) = LastOf(d.got)
    BY <1>7 DEF OneChannel!Last, LastOf, Received
  <2>3. LastOf(d.got) \in Nat
    BY <1>7, LastAdded
  <2>4. n \in LastOf(d.got) + 1..Accepted[o]
    BY <1>7, <1>12, <2>3 DEF Readable
  <2>5. o \in {"app"} \/ n = LastOf(d.got) + 1
    BY <1>1, <1>12 DEF Readable, Sides
  <2>6. OneChannel!Receive(o)
    BY <1>10, <2>1, <2>2, <2>4, <2>5 DEF OneChannel!Receive, Accepted, Received
  <2>7. o \in OneChannel!Ends
    BY <1>1 DEF OneChannel!Ends, Sides
  <2> QED BY <2>6, <2>7 DEF OneChannel!Next
<1> QED BY <1>4, <1>6, <1>11, <1>12 DEF ChannelMoves, Reads

LEMMA ReceiveMoves ==
  ASSUME IInv, Numbered, NEW s \in Sides, Receive(s)
  PROVE  Numbered' /\ ChannelMoves
<1> DEFINE o == Other(s)
           h == end[o]
           m == Head(h.relay)
           e == IF m.kind = "propose" THEN HandlePropose(s, end[s], m.up) ELSE Open(s, end[s], m)
           r == Tail(h.relay)
           g == [h EXCEPT !.relay = r]
           C == h.commits
<1>1. /\ Fit(s, end[s], C) /\ o \in Sides /\ o # s /\ C \in SUBSET Upgrades
      /\ end \in [Sides -> EndStates] /\ end[s] \in EndStates
  BY IInvOf
<1>2. Fit(o, h, end[s].commits) /\ h \in EndStates /\ end[s].commits \in SUBSET Upgrades
  <2>1. Other(o) = s
    BY DEF Other, Sides
  <2> QED BY <1>1, <2>1, IInvOf, Parts
<1>3. end' = [end EXCEPT ![o] = g, ![s] = e]
  BY <1>1 DEF Receive
<1>4. h.relay # <<>> /\ h.relay \in Seq(Frames)
  BY <1>2, Parts DEF Receive
<1> HIDE DEF h
<1>5. /\ m \in Frames /\ m \in ToSet(h.relay)
      /\ r \in Seq(Frames) /\ ToSet(r) \subseteq ToSet(h.relay)
  BY <1>4, Taken
<1>6. Plain(o, h, g) /\ g \in EndStates /\ Same(h, g)
  <2>1. Plain(o, h, g) /\ Fit(o, g, end[s].commits) /\ Same(h, g)
    BY <1>1, <1>2, <1>5, RelayTakenPlain, RelayTakenFits
  <2> QED BY <2>1 DEF Fit, Shaped
<1>7. /\ e \in EndStates /\ Continues(s, end[s], e) /\ e.accepted = end[s].accepted
      /\ \A b : Counted(o, h, b) /\ ReadBy(end[s], h, b)
           => ReadBy(e, h, b) /\ Reads(o, h, end[s].got, e.got)
  <2>1. m.kind = "committed" => m.up \in C
    BY <1>2, <1>5 DEF Fit, Backed, Carried
  <2>2. m.up \in Upgrades \cup {None}
    BY <1>5 DEF Frames
  <2>3. CASE m.kind = "propose"
    <3>1. m.up \in Upgrades
      BY <1>2, <1>5, <2>2, <2>3 DEF Fit, Backed, Carried
    <3>2. /\ Fit(s, e, C) /\ Same(end[s], e) /\ Plain(s, end[s], e)
      BY <1>1, <2>3, <3>1, HandleProposeFits, HandleProposePlain
    <3>3. Continues(s, end[s], e)
      BY <1>1, <3>2, PlainContinues, Parts
    <3> HIDE DEF e
    <3> QED BY <3>2, <3>3 DEF Same, Fit, Shaped, ReadBy, Reads
  <2>4. CASE m.kind # "propose"
    <3>1. Genuine(m, C)
      BY <1>5, <2>1, <2>4 DEF Genuine
    <3>2. e = Open(s, end[s], m)
      BY <2>4
    <3>3. /\ Fit(s, e, C) /\ e.accepted = end[s].accepted /\ Continues(s, end[s], e)
      BY <1>1, <3>1, <3>2, OpenFits, OpenContinues
    <3>4. m \in Sent(o, h)
      BY <1>5 DEF Sent
    <3> HIDE DEF e, C, m
    <3>5. \A b : Counted(o, h, b) /\ ReadBy(end[s], h, b)
            => ReadBy(e, h, b) /\ Reads(o, h, end[s].got, e.got)
      BY <1>1, <1>2, <3>1, <3>2, <3>4, OpenReads
    <3> QED BY <3>3, <3>5 DEF Fit, Shaped
  <2> QED BY <2>3, <2>4
<1> HIDE DEF o, m, e, g, r
<1> QED BY <1>1, <1>3, <1>6, <1>7, ReadMoves DEF o, h

LEMMA ReceiveDirectMoves ==
  ASSUME IInv, Numbered, NEW s \in Sides, NEW u \in Upgrades, ReceiveDirect(s, u)
  PROVE  Numbered' /\ ChannelMoves
<1> DEFINE o == Other(s)
           h == end[o]
           q == h.direct[u]
           m == Head(q)
           e == IF end[s].tpeer = u THEN Open(s, end[s], m) ELSE end[s]
           r == Tail(q)
           g == [h EXCEPT !.direct[u] = r]
           C == h.commits
<1>1. /\ Fit(s, end[s], C) /\ o \in Sides /\ o # s /\ C \in SUBSET Upgrades
      /\ end \in [Sides -> EndStates] /\ end[s] \in EndStates
  BY IInvOf
<1>2. Fit(o, h, end[s].commits) /\ h \in EndStates /\ end[s].commits \in SUBSET Upgrades
  <2>1. Other(o) = s
    BY DEF Other, Sides
  <2> QED BY <1>1, <2>1, IInvOf, Parts
<1>3. end' = [end EXCEPT ![o] = g, ![s] = e]
  BY <1>1 DEF ReceiveDirect
<1>4. q # <<>> /\ q \in Seq(Frames)
  BY <1>2, Parts DEF ReceiveDirect
<1> HIDE DEF h, q
<1>5. /\ m \in Frames /\ m \in ToSet(q)
      /\ r \in Seq(Frames) /\ ToSet(r) \subseteq ToSet(q)
  BY <1>4, Taken
<1>6. Plain(o, h, g) /\ g \in EndStates /\ Same(h, g)
  <2>1. Plain(o, h, g) /\ Fit(o, g, end[s].commits) /\ Same(h, g)
    BY <1>1, <1>2, <1>5, DirectTakenPlain, DirectTakenFits DEF q
  <2> QED BY <2>1 DEF Fit, Shaped
<1>7. /\ e \in EndStates /\ Continues(s, end[s], e) /\ e.accepted = end[s].accepted
      /\ \A b : Counted(o, h, b) /\ ReadBy(end[s], h, b)
           => ReadBy(e, h, b) /\ Reads(o, h, end[s].got, e.got)
  <2>1. m \in Held(h) /\ m \in Sent(o, h)
    BY <1>5 DEF Held, Sent, q
  <2>2. Genuine(m, C)
    BY <1>2, <1>5, <2>1 DEF Fit, Backed, Carried, Genuine
  <2>3. CASE end[s].tpeer = u
    <3>1. e = Open(s, end[s], m)
      BY <2>3
    <3>2. /\ Fit(s, e, C) /\ e.accepted = end[s].accepted /\ Continues(s, end[s], e)
      BY <1>1, <2>2, <3>1, OpenFits, OpenContinues
    <3> HIDE DEF e, C, m
    <3>3. \A b : Counted(o, h, b) /\ ReadBy(end[s], h, b)
            => ReadBy(e, h, b) /\ Reads(o, h, end[s].got, e.got)
      BY <1>1, <1>2, <2>1, <2>2, <3>1, OpenReads
    <3> QED BY <3>2, <3>3 DEF Fit, Shaped
  <2>4. CASE end[s].tpeer # u
    <3>1. e = end[s] /\ Continues(s, end[s], e)
      BY <1>1, <2>4, PlainItself, PlainContinues, Parts
    <3> HIDE DEF e
    <3> QED BY <1>1, <3>1 DEF Reads
  <2> QED BY <2>3, <2>4
<1> HIDE DEF o, m, e, g, r
<1> QED BY <1>1, <1>3, <1>6, <1>7, ReadMoves DEF o, h

LEMMA DirectLostSilent ==
  ASSUME IInv, Numbered, NEW s \in Sides, NEW u \in Upgrades, DirectLost(s, u)
  PROVE  Numbered' /\ UNCHANGED <<Accepted, Received>>
<1> DEFINE e == [end[s] EXCEPT !.direct[u] = <<>>]
<1>1. /\ Fit(s, end[s], end[Other(s)].commits) /\ end[Other(s)].commits \in SUBSET Upgrades
      /\ end[s] \in EndStates /\ end \in [Sides -> EndStates]
  BY IInvOf
<1>2. <<>> \in Seq(Frames) /\ ToSet(<<>>) = {}
  BY NoFrame
<1>3. Fit(s, e, end[Other(s)].commits) /\ Same(end[s], e) /\ Plain(s, end[s], e)
  BY <1>1, <1>2, DirectTakenFits, DirectTakenPlain
<1>4. Becomes(s, e)
  BY <1>1 DEF DirectLost, Becomes
<1> HIDE DEF e
<1>5. Continues(s, end[s], e) /\ e \in EndStates
  BY <1>1, <1>3, PlainContinues, Parts DEF Fit, Shaped
<1> QED BY <1>3, <1>4, <1>5, OneEndSilent

LEMMA SayMoves ==
  ASSUME IInv, Numbered, NEW s \in Sides, Say(s)
  PROVE  Numbered' /\ ChannelMoves
<1> DEFINE d == end[s]
           n == [d EXCEPT !.accepted = @ + 1]
           e == SendBusiness(s, d)
<1>1. /\ Fit(s, d, end[Other(s)].commits) /\ end[Other(s)].commits \in SUBSET Upgrades
      /\ d \in EndStates /\ end \in [Sides -> EndStates]
  BY IInvOf
<1>2. n.accepted = d.accepted + 1 /\ n.rx = d.rx /\ n.got = d.got
  BY <1>1 DEF EndStates
<1>3. Fit(s, e, end[Other(s)].commits) /\ Same(n, e)
  BY <1>1, SendBusinessFits
<1>4. Continues(s, d, e)
  BY <1>1, SendBusinessContinues DEF Fit, Shaped
<1>5. Becomes(s, e)
  BY DEF Say
<1> HIDE DEF e, n
<1>6. e.accepted = d.accepted + 1 /\ e.rx = d.rx /\ e.got = d.got /\ e \in EndStates
  BY <1>2, <1>3 DEF Same, Fit, Shaped
<1>7. Numbered' /\ Received' = Received
  BY <1>4, <1>5, <1>6, OneEndNumbered
<1>8. Accepted' = [Accepted EXCEPT ![s] = @ + 1]
  BY <1>1, <1>5, <1>6 DEF Accepted, Becomes
<1>9. OneChannel!Accept(s) /\ s \in OneChannel!Ends
  BY <1>7, <1>8 DEF OneChannel!Accept, OneChannel!Ends, Accepted, Received, Sides
<1> QED BY <1>7, <1>9 DEF OneChannel!Next, ChannelMoves

LEMMA MakePeerSilent ==
  ASSUME IInv, Numbered, NEW s \in Sides, MakePeer(s)
  PROVE  Numbered' /\ UNCHANGED <<Accepted, Received>>
<1> DEFINE e == end[s]
           f == [e EXCEPT !.peer = e.up, !.alive = @ \cup {e.up},
                          !.st = IF s = "agent" THEN "negotiating" ELSE @]
<1>1. e \in EndStates /\ Becomes(s, f) /\ end \in [Sides -> EndStates]
  BY IInvOf DEF MakePeer
<1>2. IInv'
  BY MakePeerIInv
<1>3. f \in EndStates
  BY <1>1, <1>2 DEF Becomes, IInv
<1>4. /\ f.relay = e.relay /\ f.direct = e.direct /\ f.outQ = e.outQ /\ f.parked = e.parked
      /\ f.tx = e.tx /\ f.accepted = e.accepted /\ f.path = e.path
      /\ f.queueing = e.queueing /\ f.prefers = e.prefers /\ Same(e, f)
  BY <1>1 DEF EndStates, Same
<1> HIDE DEF e, f
<1>5. Continues(s, e, f)
  BY <1>1, <1>4, Untouched, PlainContinues, Parts
<1> QED BY <1>1, <1>3, <1>4, <1>5, OneEndSilent DEF e

LEMMA SendOfferSilent ==
  ASSUME IInv, Numbered, SendOffer
  PROVE  Numbered' /\ UNCHANGED <<Accepted, Received>>
<1> DEFINE e == end["app"]
           C == end[Other("app")].commits
           n == SendControl("app", e, "offer")
           f == [n EXCEPT !.st = "negotiating"]
<1>1. "app" \in Sides /\ "offer" \in Kinds \ {"business", "propose"}
  BY DEF Sides, Kinds
<1>2. Fit("app", e, C) /\ C \in SUBSET Upgrades /\ e \in EndStates
  BY <1>1, IInvOf
<1>3. Becomes("app", f) /\ e.st = "proposed"
  BY DEF SendOffer
<1>4. e.up # None
  BY <1>2, <1>3 DEF Fit, Shaped
<1> HIDE DEF e, C
<1>5. Fit("app", n, C) /\ Same(e, n) /\ n.up = e.up /\ Continues("app", e, n)
  BY <1>1, <1>2, SendControlFits, SendCoordinates, SendControlContinues DEF Kinds, Coordinates
<1> HIDE DEF n
<1>6. n \in EndStates
  BY <1>5 DEF Fit, Shaped
<1>7. Fit("app", f, C) /\ Same(n, f) /\ Plain("app", n, f)
  BY <1>1, <1>2, <1>4, <1>5, <1>6, StateFits, StatePlain DEF CoordinatorStates
<1> HIDE DEF f
<1>8. f \in EndStates
  BY <1>7 DEF Fit, Shaped
<1>9. Continues("app", e, f)
  BY <1>1, <1>2, <1>5, <1>6, <1>7, <1>8, ThenPlain
<1> QED BY <1>1, <1>3, <1>5, <1>7, <1>8, <1>9, OneEndSilent DEF e, Same

LEMMA SendAnswerSilent ==
  ASSUME IInv, Numbered, SendAnswer
  PROVE  Numbered' /\ UNCHANGED <<Accepted, Received>>
<1> DEFINE e == end["agent"]
           C == end[Other("agent")].commits
           n == SendControl("agent", e, "answer")
           f == [n EXCEPT !.sdp = "done"]
<1>1. "agent" \in Sides /\ "answer" \in Kinds \ {"business", "propose"}
  BY DEF Sides, Kinds
<1>2. Fit("agent", e, C) /\ C \in SUBSET Upgrades /\ e \in EndStates
  BY <1>1, IInvOf
<1>3. Becomes("agent", f)
  BY DEF SendAnswer
<1> HIDE DEF e, C
<1>4. Fit("agent", n, C) /\ Same(e, n) /\ Continues("agent", e, n)
  BY <1>1, <1>2, SendControlFits, SendControlContinues DEF Kinds
<1> HIDE DEF n
<1>5. n \in EndStates
  BY <1>4 DEF Fit, Shaped
<1>6. Fit("agent", f, C) /\ Same(n, f) /\ Plain("agent", n, f)
  BY <1>1, <1>2, <1>4, <1>5, SdpFits, StatePlain
<1> HIDE DEF f
<1>7. f \in EndStates
  BY <1>6 DEF Fit, Shaped
<1>8. Continues("agent", e, f)
  BY <1>1, <1>2, <1>4, <1>5, <1>6, <1>7, ThenPlain
<1> QED BY <1>1, <1>3, <1>4, <1>6, <1>7, <1>8, OneEndSilent DEF e, Same

LEMMA FindCandidateSilent ==
  ASSUME IInv, Numbered, NEW s \in Sides, FindCandidate(s)
  PROVE  Numbered' /\ UNCHANGED <<Accepted, Received>>
<1> DEFINE e == SendControl(s, end[s], "candidate")
<1>1. /\ Fit(s, end[s], end[Other(s)].commits) /\ end[Other(s)].commits \in SUBSET Upgrades
      /\ end[s] \in EndStates /\ "candidate" \in Kinds \ {"business", "propose"}
  BY IInvOf DEF Kinds
<1>2. /\ Fit(s, e, end[Other(s)].commits) /\ Same(end[s], e)
      /\ Continues(s, end[s], e)
  BY <1>1, SendControlFits, SendControlContinues DEF Kinds
<1>3. Becomes(s, e)
  BY DEF FindCandidate
<1> HIDE DEF e
<1>4. e \in EndStates
  BY <1>2 DEF Fit, Shaped
<1> QED BY <1>2, <1>3, <1>4, OneEndSilent

LEMMA NegotiationFailsSilent ==
  ASSUME IInv, Numbered, NEW s \in Sides, NegotiationFails(s)
  PROVE  Numbered' /\ UNCHANGED <<Accepted, Received>>
<1> DEFINE e == Downgrade(s, end[s])
<1>1. Fit(s, end[s], end[Other(s)].commits) /\ end[Other(s)].commits \in SUBSET Upgrades
  BY IInvOf
<1>2. Fit(s, e, end[Other(s)].commits) /\ Same(end[s], e) /\ Continues(s, end[s], e)
  BY <1>1, DowngradeFits, DowngradeContinues
<1>3. Becomes(s, e)
  BY DEF NegotiationFails
<1> HIDE DEF e
<1>4. e \in EndStates
  BY <1>2 DEF Fit, Shaped
<1> QED BY <1>2, <1>3, <1>4, OneEndSilent

LEMMA PeerLostSilent ==
  ASSUME IInv, Numbered, NEW s \in Sides, PeerLost(s)
  PROVE  Numbered' /\ UNCHANGED <<Accepted, Received>>
<1> DEFINE e == IF end[s].path = "p2p" THEN HealthDowngrade(s, end[s]) ELSE Detach(s, end[s])
<1>1. /\ Fit(s, end[s], end[Other(s)].commits) /\ end[Other(s)].commits \in SUBSET Upgrades
      /\ end[s] \in EndStates
  BY IInvOf
<1>2. Continues(s, end[s], Detach(s, end[s]))
  BY <1>1, DetachPlain, PlainContinues, Parts
<1>3. Fit(s, e, end[Other(s)].commits) /\ Same(end[s], e) /\ Continues(s, end[s], e)
  BY <1>1, <1>2, HealthDowngradeFits, DetachFits, HealthDowngradeContinues
<1>4. Becomes(s, e)
  BY DEF PeerLost
<1> HIDE DEF e
<1>5. e \in EndStates
  BY <1>3 DEF Fit, Shaped
<1> QED BY <1>3, <1>4, <1>5, OneEndSilent

LEMMA NetworkChangedSilent ==
  ASSUME IInv, Numbered, NetworkChanged
  PROVE  Numbered' /\ UNCHANGED <<Accepted, Received>>
<1> DEFINE e == Reconnect(end["app"])
           C == end[Other("app")].commits
<1>1. "app" \in Sides
  BY DEF Sides
<1>2. Fit("app", end["app"], C) /\ C \in SUBSET Upgrades
  BY <1>1, IInvOf
<1>3. Fit("app", e, C) /\ Same(end["app"], e) /\ Continues("app", end["app"], e)
  BY <1>2, ReconnectFits, ReconnectContinues
<1>4. Becomes("app", e)
  BY DEF NetworkChanged
<1> HIDE DEF e
<1>5. e \in EndStates
  BY <1>3 DEF Fit, Shaped
<1> QED BY <1>1, <1>3, <1>4, <1>5, OneEndSilent

LEMMA DrainEndsSilent ==
  ASSUME IInv, Numbered, NEW s \in Sides, DrainEnds(s)
  PROVE  Numbered' /\ UNCHANGED <<Accepted, Received>>
<1> DEFINE e == AfterDrain(s, end[s])
<1>1. Fit(s, end[s], end[Other(s)].commits) /\ end[Other(s)].commits \in SUBSET Upgrades
  BY IInvOf
<1>2. Becomes(s, e) /\ end[s].drains # <<>>
  BY DEF DrainEnds
<1>3. Fit(s, e, end[Other(s)].commits) /\ Same(end[s], e) /\ Continues(s, end[s], e)
  BY <1>1, <1>2, AfterDrainFits, AfterDrainContinues
<1> HIDE DEF e
<1>4. e \in EndStates
  BY <1>3 DEF Fit, Shaped
<1> QED BY <1>2, <1>3, <1>4, OneEndSilent

LEMMA ConnectedSilent ==
  ASSUME IInv, Numbered, NEW s \in Sides, Connected(s)
  PROVE  Numbered' /\ UNCHANGED <<Accepted, Received>>
<1> DEFINE e == end[s]
           C == end[Other(s)].commits
           k == e.commits \cup {e.up}
           c == [e EXCEPT !.local = TRUE, !.st = "committing", !.commits = k]
           n == SendControl(s, c, "committed")
           f == MaybeUpgrade(s, n)
<1>1. Fit(s, e, C) /\ C \in SUBSET Upgrades /\ e \in EndStates
  BY IInvOf
<1>2. e.st = "negotiating"
  BY DEF Connected
<1>3. e.up \in Upgrades
  BY <1>1, <1>2, Parts DEF Fit, Shaped
<1>4. Becomes(s, f)
  BY DEF Connected
<1>5. k \in SUBSET Upgrades /\ e.commits \subseteq k /\ e.up \in k
  BY <1>1, <1>3, Parts
<1> HIDE DEF e, C, k
<1>6. c \in EndStates
  BY <1>1, <1>5 DEF EndStates, CoordinatorStates
<1>7. /\ c.commits = k /\ c.prefers = e.prefers /\ c.tx = e.tx
      /\ c.accepted = e.accepted /\ c.path = e.path /\ c.rx = e.rx /\ c.got = e.got
      /\ c.relay = e.relay /\ c.direct = e.direct /\ c.outQ = e.outQ
      /\ c.parked = e.parked /\ c.local = TRUE /\ c.remote = e.remote /\ c.up = e.up
      /\ c.tpeer = e.tpeer /\ c.strict = e.strict /\ c.drains = e.drains
      /\ c.queueing = e.queueing /\ c.switching = e.switching /\ c.st = "committing"
      /\ c.peer = e.peer
  BY <1>1 DEF EndStates
<1> HIDE DEF c
<1>8. Shaped(c)
  BY <1>1, <1>3, <1>6, <1>7, TransportAssumption DEF Fit, Shaped, TransportAssumption
<1>9. UNION {ToSet(c.direct[x]) : x \in Upgrades} = UNION {ToSet(e.direct[x]) : x \in Upgrades}
  BY <1>7
<1>10. Carried(c) = Carried(e) /\ Held(c) = Held(e)
  BY <1>7, <1>9 DEF Carried, Held
<1>11. Backed(c, C)
  BY <1>1, <1>5, <1>7, <1>10 DEF Fit, Backed
<1>12. Direct(s, c)
  BY <1>1, <1>7 DEF Fit, Direct
<1>13. Fit(s, c, C)
  BY <1>8, <1>11, <1>12 DEF Fit
<1>14. Plain(s, e, c)
  BY <1>7, Untouched
<1>15. "committed" \in Kinds \ {"business", "propose"}
  BY DEF Kinds
<1>16. Fit(s, n, C) /\ Same(c, n) /\ n.up = c.up /\ Continues(s, c, n)
  BY <1>1, <1>5, <1>6, <1>7, <1>13, <1>15, SendControlFits, SendCoordinates, SendControlContinues
  DEF Coordinates
<1> HIDE DEF n
<1>17. n \in EndStates /\ n.up # None
  BY <1>3, <1>7, <1>16, TransportAssumption DEF TransportAssumption, Fit, Shaped
<1>18. Fit(s, f, C) /\ Same(n, f) /\ Plain(s, n, f)
  BY <1>1, <1>16, <1>17, MaybeUpgradeFits, MaybeUpgradePlain
<1> HIDE DEF f
<1>19. f \in EndStates
  BY <1>18 DEF Fit, Shaped
<1>20. Continues(s, e, c)
  BY <1>1, <1>14, PlainContinues, Parts
<1>21. Continues(s, c, f)
  BY <1>6, <1>16, <1>17, <1>18, <1>19, ThenPlain
<1>22. Continues(s, e, f)
  BY <1>1, <1>6, <1>19, <1>20, <1>21, ContinuesOn
<1>23. f.rx = e.rx /\ f.got = e.got /\ f.accepted = e.accepted
  BY <1>7, <1>16, <1>18 DEF Same
<1>24. Numbered' /\ Received' = Received
  BY <1>4, <1>19, <1>22, <1>23, OneEndNumbered DEF e
<1>25. \A t \in Sides : end'[t].accepted = end[t].accepted
  BY <1>4, <1>23 DEF Becomes, IInv, e
<1> QED BY <1>24, <1>25 DEF Accepted

\* A strict App that has no direct path left neither sends nor queues.
LEMMA PausedPlain ==
  ASSUME NEW e \in EndStates, NEW x
  PROVE  Plain("app", e, [e EXCEPT !.path = "relay", !.backgroundPaused = x])
<1> DEFINE f == [e EXCEPT !.path = "relay", !.backgroundPaused = x]
<1>1. /\ f.relay = e.relay /\ f.direct = e.direct /\ f.outQ = e.outQ /\ f.parked = e.parked
      /\ f.tx = e.tx /\ f.accepted = e.accepted /\ f.path = "relay"
      /\ f.queueing = e.queueing /\ f.prefers = e.prefers
  BY DEF EndStates
<1> HIDE DEF f
<1>2. Sent("app", f) = Sent("app", e)
  BY <1>1 DEF Sent
<1>3. OneQueue(e) => OneQueue(f)
  BY <1>1 DEF OneQueue
<1> QED BY <1>1, <1>2, <1>3 DEF Plain, f

LEMMA BackgroundSilent ==
  ASSUME IInv, Numbered, Background
  PROVE  Numbered' /\ UNCHANGED <<Accepted, Received>>
<1> DEFINE C == end[Other("app")].commits
           o == end["app"]
<1>1. "app" \in Sides
  BY DEF Sides
<1>2. Fit("app", o, C) /\ C \in SUBSET Upgrades /\ o \in EndStates
  BY <1>1, IInvOf
<1>3. CASE o.prefers
  <2> DEFINE d == AppDetach(o)
             e == [d EXCEPT !.path = "relay", !.backgroundPaused = TRUE]
  <2>1. Becomes("app", e)
    BY <1>3 DEF Background
  <2>2. Fit("app", d, C) /\ Same(o, d) /\ Plain("app", o, d)
    BY <1>1, <1>2, AppDetachFits, AppDetachPlain
  <2> HIDE DEF d
  <2>3. d \in EndStates
    BY <2>2 DEF Fit, Shaped
  <2>4. Fit("app", e, C) /\ Same(d, e) /\ Plain("app", d, e)
    BY <1>2, <2>2, <2>3, PauseFits, PausedPlain
  <2> HIDE DEF e
  <2>5. e \in EndStates
    BY <2>4 DEF Fit, Shaped
  <2>6. Continues("app", o, e)
    BY <1>2, <2>2, <2>4, PlainOn, PlainContinues, Parts
  <2>7. Same(o, e)
    BY <2>2, <2>4 DEF Same
  <2> HIDE DEF o
  <2> QED BY <1>1, <2>1, <2>5, <2>6, <2>7, OneEndSilent DEF o
<1>4. CASE ~o.prefers
  <2> DEFINE d == HealthDowngrade("app", o)
             e == Downgrade("app", d)
  <2>1. Becomes("app", e)
    BY <1>4 DEF Background
  <2>2. Fit("app", d, C) /\ Same(o, d) /\ Continues("app", o, d)
    BY <1>1, <1>2, HealthDowngradeFits, HealthDowngradeContinues
  <2> HIDE DEF d
  <2>3. Fit("app", e, C) /\ Same(d, e) /\ Continues("app", d, e)
    BY <1>1, <1>2, <2>2, DowngradeFits, DowngradeContinues
  <2> HIDE DEF e
  <2>4. d \in EndStates /\ e \in EndStates
    BY <2>2, <2>3 DEF Fit, Shaped
  <2>5. Continues("app", o, e)
    BY <1>1, <1>2, <2>2, <2>3, <2>4, ContinuesOn
  <2>6. Same(o, e)
    BY <2>2, <2>3 DEF Same
  <2> HIDE DEF o
  <2> QED BY <1>1, <2>1, <2>4, <2>5, <2>6, OneEndSilent DEF o
<1> QED BY <1>3, <1>4

LEMMA ForegroundSilent ==
  ASSUME IInv, Numbered, Foreground
  PROVE  Numbered' /\ UNCHANGED <<Accepted, Received>>
<1> DEFINE C == end[Other("app")].commits
           o == end["app"]
           d == Reconnect(o)
           e == [d EXCEPT !.backgroundPaused = FALSE]
<1>1. "app" \in Sides /\ Becomes("app", e)
  BY DEF Sides, Foreground
<1>2. Fit("app", o, C) /\ C \in SUBSET Upgrades /\ o \in EndStates
  BY <1>1, IInvOf
<1>3. Fit("app", d, C) /\ Same(o, d) /\ Continues("app", o, d)
  BY <1>2, ReconnectFits, ReconnectContinues
<1> HIDE DEF d
<1>4. d \in EndStates
  BY <1>3 DEF Fit, Shaped
<1>5. e \in EndStates
  BY <1>4, Records
<1>6. /\ e.relay = d.relay /\ e.direct = d.direct /\ e.outQ = d.outQ /\ e.parked = d.parked
      /\ e.tx = d.tx /\ e.accepted = d.accepted /\ e.path = d.path
      /\ e.queueing = d.queueing /\ e.prefers = d.prefers /\ Same(d, e)
  BY <1>4 DEF EndStates, Same
<1> HIDE DEF e, o
<1>7. Plain("app", d, e) /\ Same(o, e)
  BY <1>3, <1>6, Untouched DEF Same
<1>8. Continues("app", o, e)
  BY <1>1, <1>2, <1>3, <1>4, <1>5, <1>7, ThenPlain
<1> QED BY <1>1, <1>5, <1>7, <1>8, OneEndSilent DEF o

LEMMA NextMoves ==
  ASSUME IInv, Numbered, [Next]_vars
  PROVE  Numbered' /\ ChannelMoves
<1> DEFINE Silent == Numbered' /\ UNCHANGED <<Accepted, Received>>
<1>1. Silent => Numbered' /\ ChannelMoves
  BY DEF ChannelMoves
<1>2. CASE UNCHANGED vars
  <2>1. end' = end
    BY <1>2 DEF vars
  <2> QED BY <1>1, <2>1 DEF Numbered, Accepted, Received
<1>3. ASSUME NEW s \in Sides, EndNext(s) PROVE Numbered' /\ ChannelMoves
  <2>1. CASE Receive(s)
    BY <2>1, ReceiveMoves
  <2>2. CASE \E u \in Upgrades : ReceiveDirect(s, u)
    BY <2>2, ReceiveDirectMoves
  <2>3. CASE \E u \in Upgrades : DirectLost(s, u)
    BY <1>1, <2>3, DirectLostSilent
  <2>4. CASE Say(s)
    BY <2>4, SayMoves
  <2>5. CASE MakePeer(s) \/ FindCandidate(s) \/ Connected(s) \/ NegotiationFails(s)
             \/ PeerLost(s) \/ DrainEnds(s)
    BY <1>1, <2>5, MakePeerSilent, FindCandidateSilent, ConnectedSilent, NegotiationFailsSilent,
       PeerLostSilent, DrainEndsSilent
  <2> QED BY <1>3, <2>1, <2>2, <2>3, <2>4, <2>5 DEF EndNext
<1>4. ASSUME NEW u \in Upgrades, Propose(u) PROVE Silent
  BY <1>4, ProposeNumbered
<1>5. SendOffer \/ SendAnswer \/ NetworkChanged \/ Background \/ Foreground => Silent
  BY SendOfferSilent, SendAnswerSilent, NetworkChangedSilent, BackgroundSilent, ForegroundSilent
<1> HIDE DEF Silent
<1> QED BY <1>1, <1>2, <1>3, <1>4, <1>5 DEF Next

LEMMA InitNumbered == Init => Numbered
<1> SUFFICES ASSUME Init, NEW s \in Sides
             PROVE  \E b \in [0..end[s].tx -> Nat] :
                      Counted(s, end[s], b) /\ ReadBy(end[Other(s)], end[s], b)
  BY DEF Numbered
<1> DEFINE e == end[s]
           o == end[Other(s)]
           b == [k \in 0..0 |-> 0]
<1>1. Other(s) \in Sides
  BY DEF Other, Sides
<1>2. /\ e.tx = 0 /\ e.accepted = 0 /\ e.relay = <<>> /\ e.outQ = <<>> /\ e.parked = <<>>
      /\ e.direct = [u \in Upgrades |-> <<>>] /\ e.path = "relay" /\ ~e.queueing
      /\ o.rx = 0 /\ o.got = <<>>
  BY <1>1 DEF Init, StartState
<1>3. ToSet(<<>>) = {} /\ \A lo, hi : Queued(<<>>, lo, hi)
  BY NoFrame DEF Queued
<1>4. b \in [0..0 -> Nat] /\ \A k \in 0..0 : b[k] = 0 /\ k = 0
  OBVIOUS
<1> HIDE DEF b, e, o
<1>5. Sent(s, e) = {}
  BY <1>2, <1>3 DEF Sent
<1>6. 0 \in 0..0 /\ b[0] = 0
  BY <1>4
<1>7. Marks(s, e, b)
  BY <1>2, <1>4, <1>5 DEF Marks
<1>8. OneQueue(e)
  BY <1>2 DEF OneQueue
<1>9. Counted(s, e, b)
  BY <1>2, <1>3, <1>6, <1>7, <1>8 DEF Counted
<1>10. ReadBy(o, e, b)
  BY <1>2, <1>6 DEF ReadBy, LastOf
<1> QED BY <1>2, <1>4, <1>9, <1>10 DEF e, o

\* However the paths are switched, whatever is lost and whichever frame comes
\* first, each end receives what the other accepted in order, at most once and,
\* from the Agent, without a gap: the two paths implement one channel.
THEOREM ChannelImplemented == Spec => ChannelSpec
<1>1. Init => OneChannel!Init
  <2> SUFFICES ASSUME Init PROVE OneChannel!Init
    OBVIOUS
  <2>1. \A s \in Sides : end[s].accepted = 0 /\ end[Other(s)].got = <<>>
    BY DEF Init, StartState, Other, Sides
  <2> QED BY <2>1 DEF OneChannel!Init, OneChannel!Ends, Sides
<1>2. IInv /\ Numbered /\ [Next]_vars => Numbered' /\ ChannelMoves
  BY NextMoves
<1>3. ChannelMoves => [OneChannel!Next]_<<[s \in Sides |-> end[s].accepted],
                                          [s \in Sides |-> end[Other(s)].got]>>
  BY DEF ChannelMoves, Accepted, Received
<1> QED BY <1>1, <1>2, <1>3, InitNumbered, TunnelInvariant, PTL
        DEF Spec, ChannelSpec, OneChannel!Spec

-----------------------------------------------------------------------------
(* An undisturbed upgrade.                                                 *)
(*                                                                         *)
(* Nothing fails and nothing is late.  Each end then goes through the same *)
(* stages: it talks over the relay, queues while it switches, and talks    *)
(* directly, with only the relay's proposals left on the relay.  An end    *)
(* that talks directly has been heard to commit, so that the other end     *)
(* listens there, and what is under way is numbered in the order in which  *)
(* it will be read.                                                        *)

\* The sealed frames of q have the numbers above lo, up to hi, in this order.
Spread(q, lo, hi) ==
  /\ lo <= hi
  /\ \A i \in 1..Len(q) : q[i].kind # "propose" => q[i].seq \in lo + 1 .. hi
  /\ \A k \in lo + 1 .. hi : \E i \in 1..Len(q) : q[i].kind # "propose" /\ q[i].seq = k
  /\ \A i, j \in 1..Len(q) :
       i < j /\ q[i].kind # "propose" /\ q[j].kind # "propose" => q[i].seq < q[j].seq

\* All of q is sealed, with these numbers.
Run(q, lo, hi) ==
  /\ hi = lo + Len(q)
  /\ \A i \in 1..Len(q) : q[i].kind # "propose" /\ q[i].seq = lo + i

\* At most one frame of q says that its end has committed.
OneCommit(q) ==
  \A i, j \in 1..Len(q) : q[i].kind = "committed" /\ q[j].kind = "committed" => i = j

\* The transport of an end: it has not been asked to switch, it is doing so, it has.
Unswitched(e) ==
  e.path = "relay" /\ e.tpeer = None /\ ~e.switching /\ ~e.queueing /\ e.drains = <<>>
Switching(e) ==
  /\ e.path = "relay" /\ e.tpeer = e.up /\ e.tpeer \in e.alive
  /\ e.switching /\ e.queueing /\ e.drains = <<"p2p">>
Switched(e) ==
  /\ e.path = "p2p" /\ e.tpeer = e.up /\ e.tpeer \in e.alive
  /\ ~e.switching /\ ~e.queueing /\ e.drains = <<>>

\* It sends, and is not strict.
Able(e) == e.ended = "no" /\ ~e.strict /\ ~e.prefers

Stage(e) ==
  /\ Able(e) /\ ~e.backgroundPaused /\ e.parked = <<>>
  /\ e.commits = IF e.local THEN {e.up} ELSE {}
  /\ e.local <=> e.st \in {"committing", "upgraded"}
  /\ e.st = "upgraded" <=> e.local /\ e.remote
  /\ e.local => e.peer # None
  /\ e.peer # None => e.peer \in e.alive
  /\ e.sdp # "none" => e.up # None
  /\ IF e.st = "upgraded" THEN Switching(e) \/ Switched(e) ELSE Unswitched(e)

\* Frames that say what they say of upgrade u.
Apt(f, u) ==
  /\ f.kind # "downgrade"
  /\ f.kind \in {"offer", "answer", "candidate", "committed"} => f.up = u /\ u # None
  /\ f.kind # "business" => f.biz = 0

\* What an end says is of its upgrade, and it says once that it has committed.
Speech(e) ==
  /\ \A f \in ToSet(e.relay) : Apt(f, e.up)
  /\ \A f \in ToSet(e.outQ) : Apt(f, e.up) /\ f.kind # "committed"
  /\ \A x \in Upgrades : \A f \in ToSet(e.direct[x]) : Apt(f, e.up) /\ f.kind # "committed"
  /\ OneCommit(e.relay)

Saying(e) == \E f \in ToSet(e.relay) : f.kind = "committed"

\* What is under way from s carries the numbers that follow n, in order.
InOrder(s, e, n) ==
  IF e.path = "p2p"
  THEN /\ Spread(e.relay, n, n) /\ Run(e.direct[e.tpeer], n, e.tx)
       /\ \A x \in Upgrades \ {e.tpeer} : e.direct[x] = <<>>
  ELSE /\ \A x \in Upgrades : e.direct[x] = <<>>
       /\ IF s = "agent"
          THEN \E k \in Nat : Spread(e.relay, n, k) /\ Run(e.outQ, k, e.tx)
          ELSE Spread(e.relay, n, e.tx)

\* One end e, the other o, and what the App has linked.
Pair(s, e, o, L) ==
  /\ e.local => e.up \in L /\ (o.remote \/ Saying(e))
  /\ Saying(e) => e.local /\ ~o.remote
  /\ e.path = "p2p" => o.remote
  /\ InOrder(s, e, o.rx)

\* What an end has accepted is carried to the other end, or the other got it.
NoneLost(e, got) == 1..e.accepted \subseteq {f.biz : f \in Carried(e)} \cup ToSet(got)

CalmInv ==
  /\ \A s \in Sides : /\ Stage(end[s]) /\ Speech(end[s])
                      /\ Pair(s, end[s], end[Other(s)], end["app"].linked)
  /\ \A u \in end["app"].linked : u = end["app"].up /\ u = end["agent"].up
  /\ NoneLost(end["app"], end["agent"].got)

LEMMA AppendIs ==
  ASSUME NEW S, NEW q \in Seq(S), NEW x \in S
  PROVE  /\ Append(q, x) \in Seq(S) /\ Len(Append(q, x)) = Len(q) + 1 /\ Len(q) \in Nat
         /\ \A i \in 1..Len(q) : Append(q, x)[i] = q[i]
         /\ Append(q, x)[Len(q) + 1] = x
OBVIOUS

LEMMA TailIs ==
  ASSUME NEW S, NEW q \in Seq(S), q # <<>>
  PROVE  /\ Tail(q) \in Seq(S) /\ Len(Tail(q)) = Len(q) - 1 /\ Len(q) \in Nat /\ Len(q) >= 1
         /\ \A i \in 1..Len(q) - 1 : Tail(q)[i] = q[i + 1]
         /\ Head(q) = q[1] /\ Head(q) \in S
OBVIOUS

LEMMA InsertIs ==
  ASSUME NEW S, NEW q \in Seq(S), NEW x \in S, NEW i \in 1..Len(q) + 1
  PROVE  /\ InsertAt(q, i, x) \in Seq(S) /\ Len(InsertAt(q, i, x)) = Len(q) + 1
         /\ \A k \in 1..i - 1 : InsertAt(q, i, x)[k] = q[k]
         /\ InsertAt(q, i, x)[i] = x
         /\ \A k \in i + 1..Len(q) + 1 : InsertAt(q, i, x)[k] = q[k - 1]
<1> DEFINE a == SubSeq(q, 1, i - 1)
           b == SubSeq(q, i, Len(q))
           c == a \o <<x>>
<1>1. /\ a \in Seq(S) /\ b \in Seq(S) /\ Len(a) = i - 1 /\ Len(b) = Len(q) - i + 1
      /\ \A k \in 1..i - 1 : a[k] = q[k]
      /\ \A k \in 1..Len(q) - i + 1 : b[k] = q[i + k - 1]
  <2>1. a \in Seq(S) /\ Len(a) = i - 1 /\ \A k \in 1..i - 1 : a[k] = q[k]
    OBVIOUS
  <2>2. b \in Seq(S) /\ Len(b) = Len(q) - i + 1
    OBVIOUS
  <2>3. \A k \in 1..Len(q) - i + 1 : b[k] = q[i + k - 1]
    OBVIOUS
  <2> QED BY <2>1, <2>2, <2>3
<1>2. InsertAt(q, i, x) = c \o b
  BY DEF InsertAt
<1> HIDE DEF a, b
<1>3. /\ c \in Seq(S) /\ Len(c) = i /\ c[i] = x
      /\ \A k \in 1..i - 1 : c[k] = a[k]
  <2> DEFINE j == Len(a)
  <2>1. a \in Seq(S) /\ j \in Nat /\ j = i - 1
    BY <1>1
  <2>2. /\ c \in Seq(S) /\ Len(c) = j + 1 /\ c[j + 1] = x
        /\ \A k \in 1..j : c[k] = a[k]
    BY <2>1
  <2> HIDE DEF j
  <2>3. j + 1 = i
    BY <2>1
  <2> QED BY <2>1, <2>2, <2>3
<1> HIDE DEF c
<1>4. /\ c \o b \in Seq(S) /\ Len(c \o b) = Len(q) + 1
      /\ \A k \in 1..i : (c \o b)[k] = c[k]
      /\ \A k \in i + 1..Len(q) + 1 : (c \o b)[k] = b[k - i]
  BY <1>1, <1>3
<1>5. \A k \in i + 1..Len(q) + 1 : b[k - i] = q[k - 1]
  <2> TAKE k \in i + 1..Len(q) + 1
  <2> DEFINE n == k - i
  <2>1. n \in 1..Len(q) - i + 1 /\ i + n - 1 = k - 1
    OBVIOUS
  <2> HIDE DEF n
  <2>2. b[n] = q[k - 1]
    BY <1>1, <2>1
  <2> QED BY <2>2 DEF n
<1>6. \A k \in 1..i - 1 : k \in 1..i
  OBVIOUS
<1>7. \A k \in 1..i - 1 : (c \o b)[k] = q[k]
  BY <1>1, <1>3, <1>4, <1>6
<1>8. (c \o b)[i] = x
  BY <1>3, <1>4
<1>9. \A k \in i + 1..Len(q) + 1 : (c \o b)[k] = q[k - 1]
  BY <1>4, <1>5
<1> QED BY <1>2, <1>4, <1>7, <1>8, <1>9

LEMMA SpreadNone ==
  ASSUME NEW lo \in Nat
  PROVE  /\ Spread(<<>>, lo, lo)
         /\ \A hi \in Nat : Spread(<<>>, lo, hi) => hi = lo
<1>1. Len(<<>>) = 0 /\ 1..0 = {}
  OBVIOUS
<1>2. Spread(<<>>, lo, lo)
  BY <1>1 DEF Spread
<1>3. ASSUME NEW hi \in Nat, Spread(<<>>, lo, hi) PROVE hi = lo
  <2>1. lo <= hi /\ \A k \in lo + 1 .. hi : FALSE
    BY <1>1, <1>3 DEF Spread
  <2>2. lo + 1 \in lo + 1 .. hi \/ hi = lo
    BY <2>1
  <2> QED BY <2>1, <2>2
<1> QED BY <1>2, <1>3

LEMMA SpreadAppend ==
  ASSUME NEW q \in Seq(Frames), NEW lo \in Nat, NEW hi \in Nat, Spread(q, lo, hi),
         NEW f \in Frames, f.kind # "propose", f.seq = hi + 1
  PROVE  Spread(Append(q, f), lo, hi + 1)
<1> DEFINE r == Append(q, f)
           n == Len(q)
<1>1. /\ r \in Seq(Frames) /\ Len(r) = n + 1 /\ n \in Nat
      /\ \A i \in 1..n : r[i] = q[i]
      /\ r[n + 1] = f
  BY AppendIs
<1> HIDE DEF r
<1>2. \A i \in 1..n + 1 : i \in 1..n \/ i = n + 1
  BY <1>1
<1>3. n = Len(q)
  OBVIOUS
<1> HIDE DEF n
<1>4. \A i \in 1..n : q[i].kind # "propose" => q[i].seq \in lo + 1 .. hi
  BY <1>3 DEF Spread
<1>5. lo <= hi + 1
  BY DEF Spread
<1>6. \A i \in 1..n + 1 : r[i].kind # "propose" => r[i].seq \in lo + 1 .. hi + 1
  <2> SUFFICES ASSUME NEW i \in 1..n + 1, r[i].kind # "propose"
               PROVE  r[i].seq \in lo + 1 .. hi + 1
    OBVIOUS
  <2>1. CASE i \in 1..n
    <3>1. r[i].seq \in lo + 1 .. hi
      BY <1>1, <1>4, <2>1
    <3> QED BY <3>1
  <2>2. CASE i = n + 1
    <3>1. r[i].seq = hi + 1 /\ lo <= hi
      BY <1>1, <2>2 DEF Spread
    <3> QED BY <3>1
  <2> QED BY <1>2, <2>1, <2>2
<1>7. \A k \in lo + 1 .. hi + 1 : \E i \in 1..n + 1 : r[i].kind # "propose" /\ r[i].seq = k
  <2> SUFFICES ASSUME NEW k \in lo + 1 .. hi + 1
               PROVE  \E i \in 1..n + 1 : r[i].kind # "propose" /\ r[i].seq = k
    OBVIOUS
  <2>1. CASE k = hi + 1
    BY <1>1, <2>1
  <2>2. CASE k # hi + 1
    <3>1. k \in lo + 1 .. hi
      BY <2>2
    <3>2. PICK i \in 1..n : q[i].kind # "propose" /\ q[i].seq = k
      BY <1>3, <3>1 DEF Spread
    <3> QED BY <1>1, <3>2
  <2> QED BY <2>1, <2>2
<1>8. \A i, j \in 1..n + 1 :
        i < j /\ r[i].kind # "propose" /\ r[j].kind # "propose" => r[i].seq < r[j].seq
  <2> SUFFICES ASSUME NEW i \in 1..n + 1, NEW j \in 1..n + 1, i < j,
                      r[i].kind # "propose", r[j].kind # "propose"
               PROVE  r[i].seq < r[j].seq
    OBVIOUS
  <2>1. i \in 1..n /\ r[i] = q[i]
    BY <1>1
  <2>2. CASE j \in 1..n
    BY <1>1, <1>3, <2>1, <2>2 DEF Spread
  <2>3. CASE j = n + 1
    <3>1. r[i].seq \in lo + 1 .. hi /\ r[j].seq = hi + 1
      BY <1>1, <1>4, <2>1, <2>3
    <3> QED BY <3>1
  <2> QED BY <1>2, <2>2, <2>3
<1> QED BY <1>1, <1>5, <1>6, <1>7, <1>8 DEF Spread, r

LEMMA SpreadTail ==
  ASSUME NEW q \in Seq(Frames), q # <<>>, NEW lo \in Nat, NEW hi \in Nat, Spread(q, lo, hi)
  PROVE  IF Head(q).kind = "propose" THEN Spread(Tail(q), lo, hi)
         ELSE Head(q).seq = lo + 1 /\ lo < hi /\ Spread(Tail(q), lo + 1, hi)
<1> DEFINE r == Tail(q)
           n == Len(q)
<1>1. /\ r \in Seq(Frames) /\ Len(r) = n - 1 /\ n \in Nat /\ n >= 1
      /\ \A i \in 1..n - 1 : r[i] = q[i + 1]
      /\ Head(q) = q[1]
  BY TailIs
<1> HIDE DEF r
<1>2. n = Len(q)
  OBVIOUS
<1> HIDE DEF n
<1>3. /\ lo <= hi
      /\ \A i \in 1..n : q[i].kind # "propose" => q[i].seq \in lo + 1 .. hi
      /\ \A k \in lo + 1 .. hi : \E i \in 1..n : q[i].kind # "propose" /\ q[i].seq = k
      /\ \A i, j \in 1..n :
           i < j /\ q[i].kind # "propose" /\ q[j].kind # "propose" => q[i].seq < q[j].seq
  BY <1>2 DEF Spread
<1>4. \A i \in 1..n - 1 : i + 1 \in 1..n
  BY <1>1
<1>5. \A i, j \in 1..n - 1 :
        i < j /\ r[i].kind # "propose" /\ r[j].kind # "propose" => r[i].seq < r[j].seq
  <2> SUFFICES ASSUME NEW i \in 1..n - 1, NEW j \in 1..n - 1, i < j,
                      r[i].kind # "propose", r[j].kind # "propose"
               PROVE  r[i].seq < r[j].seq
    OBVIOUS
  <2>1. r[i] = q[i + 1] /\ r[j] = q[j + 1]
    BY <1>1
  <2> DEFINE a == i + 1
             b == j + 1
  <2>2. a \in 1..n /\ b \in 1..n /\ a < b
    BY <1>1
  <2>3. q[a].kind # "propose" /\ q[b].kind # "propose"
    BY <2>1
  <2> HIDE DEF a, b
  <2>4. q[a].seq < q[b].seq
    BY <1>3, <2>2, <2>3
  <2> QED BY <2>1, <2>4 DEF a, b
<1>6. CASE q[1].kind = "propose"
  <2>1. \A i \in 1..n - 1 : r[i].kind # "propose" => r[i].seq \in lo + 1 .. hi
    <3> TAKE i \in 1..n - 1
    <3>1. i + 1 \in 1..n /\ r[i] = q[i + 1]
      BY <1>1, <1>4
    <3> QED BY <1>3, <3>1
  <2>2. \A k \in lo + 1 .. hi : \E i \in 1..n - 1 : r[i].kind # "propose" /\ r[i].seq = k
    <3> TAKE k \in lo + 1 .. hi
    <3>1. PICK i \in 1..n : q[i].kind # "propose" /\ q[i].seq = k
      BY <1>3
    <3>2. i - 1 \in 1..n - 1 /\ r[i - 1] = q[i]
      <4>1. i # 1
        BY <1>6, <3>1
      <4>2. i - 1 \in 1..n - 1 /\ (i - 1) + 1 = i
        BY <1>1, <4>1
      <4> QED BY <1>1, <4>2
    <3> QED BY <3>1, <3>2
  <2>3. Spread(r, lo, hi)
    BY <1>1, <1>3, <1>5, <2>1, <2>2 DEF Spread
  <2> QED BY <1>1, <1>6, <2>3 DEF r
<1>7. CASE q[1].kind # "propose"
  <2>1. q[1].seq \in lo + 1 .. hi /\ 1 \in 1..n
    BY <1>1, <1>3, <1>7
  <2>2. q[1].seq = lo + 1
    <3>1. PICK i \in 1..n : q[i].kind # "propose" /\ q[i].seq = lo + 1
      <4>1. lo + 1 \in lo + 1 .. hi
        BY <2>1
      <4> QED BY <1>3, <4>1
    <3>2. CASE i = 1
      BY <3>1, <3>2
    <3>3. CASE i # 1
      <4>1. 1 < i
        BY <3>3
      <4>2. q[1].seq < q[i].seq
        BY <1>3, <1>7, <2>1, <3>1, <4>1
      <4> QED BY <2>1, <3>1, <4>2
    <3> QED BY <3>2, <3>3
  <2>3. \A i \in 1..n - 1 : r[i].kind # "propose" => r[i].seq \in (lo + 1) + 1 .. hi
    <3> SUFFICES ASSUME NEW i \in 1..n - 1, r[i].kind # "propose"
                 PROVE  r[i].seq \in (lo + 1) + 1 .. hi
      OBVIOUS
    <3>1. i + 1 \in 1..n /\ 1 < i + 1 /\ r[i] = q[i + 1]
      BY <1>1
    <3>2. q[1].seq < q[i + 1].seq /\ q[i + 1].seq \in lo + 1 .. hi
      BY <1>3, <1>7, <2>1, <3>1
    <3> QED BY <2>2, <3>1, <3>2
  <2>4. \A k \in (lo + 1) + 1 .. hi : \E i \in 1..n - 1 : r[i].kind # "propose" /\ r[i].seq = k
    <3> TAKE k \in (lo + 1) + 1 .. hi
    <3>1. PICK i \in 1..n : q[i].kind # "propose" /\ q[i].seq = k
      <4>1. k \in lo + 1 .. hi
        OBVIOUS
      <4> QED BY <1>3, <4>1
    <3>2. i - 1 \in 1..n - 1 /\ r[i - 1] = q[i]
      <4>1. i # 1
        BY <2>2, <3>1
      <4>2. i - 1 \in 1..n - 1 /\ (i - 1) + 1 = i
        BY <1>1, <4>1
      <4> QED BY <1>1, <4>2
    <3> QED BY <3>1, <3>2
  <2>5. lo < hi /\ lo + 1 <= hi
    BY <2>1, <2>2
  <2>6. Spread(r, lo + 1, hi)
    BY <1>1, <1>5, <2>3, <2>4, <2>5 DEF Spread
  <2> QED BY <1>1, <1>7, <2>2, <2>5, <2>6 DEF r
<1> QED BY <1>6, <1>7

\* r is q with x inserted at place i: where its frames come from.
Shifted(q, i, x, r) ==
  /\ Len(r) = Len(q) + 1
  /\ \A k \in 1..Len(q) + 1 :
       \/ k = i /\ r[k] = x
       \/ \E j \in 1..Len(q) : r[k] = q[j] /\ ((k < i /\ j = k) \/ (k > i /\ j + 1 = k))
  /\ \A j \in 1..Len(q) : \E k \in 1..Len(q) + 1 : r[k] = q[j]

LEMMA InsertedPlaces ==
  ASSUME NEW q \in Seq(Frames), NEW x \in Frames, NEW i \in 1..Len(q) + 1
  PROVE  Shifted(q, i, x, InsertAt(q, i, x))
<1> DEFINE r == InsertAt(q, i, x)
           n == Len(q)
<1>1. /\ r \in Seq(Frames) /\ Len(r) = n + 1 /\ r[i] = x
      /\ \A k \in 1..i - 1 : r[k] = q[k]
      /\ \A k \in i + 1..n + 1 : r[k] = q[k - 1]
  BY InsertIs
<1>2. n \in Nat
  OBVIOUS
<1> HIDE DEF r, n
<1>3. i \in 1..n + 1
  BY DEF n
<1>4. ASSUME NEW k \in 1..n + 1
      PROVE  \/ k = i /\ r[k] = x
             \/ \E j \in 1..n : r[k] = q[j] /\ ((k < i /\ j = k) \/ (k > i /\ j + 1 = k))
  <2>1. CASE k = i
    BY <1>1, <2>1
  <2>2. CASE k < i
    <3>1. k \in 1..i - 1 /\ k \in 1..n
      BY <1>2, <1>3, <2>2
    <3>2. r[k] = q[k]
      BY <1>1, <3>1
    <3>3. \E j \in 1..n : r[k] = q[j] /\ k < i /\ j = k
      BY <2>2, <3>1, <3>2, Zenon
    <3> QED BY <3>3
  <2>3. CASE k > i
    <3>1. k \in i + 1..n + 1 /\ k - 1 \in 1..n /\ (k - 1) + 1 = k
      BY <1>2, <1>3, <2>3
    <3>2. r[k] = q[k - 1]
      BY <1>1, <3>1
    <3> QED BY <2>3, <3>1, <3>2
  <2> QED BY <1>3, <2>1, <2>2, <2>3
<1>5. ASSUME NEW j \in 1..n PROVE \E k \in 1..n + 1 : r[k] = q[j]
  <2>1. CASE j < i
    <3>1. j \in 1..i - 1 /\ j \in 1..n + 1
      BY <1>2, <1>3, <2>1
    <3> QED BY <1>1, <3>1
  <2>2. CASE ~(j < i)
    <3> DEFINE k == j + 1
    <3>1. k \in i + 1..n + 1 /\ k \in 1..n + 1 /\ k - 1 = j
      BY <1>2, <1>3, <2>2
    <3> HIDE DEF k
    <3>2. r[k] = q[k - 1]
      BY <1>1, <3>1
    <3> QED BY <3>1, <3>2
  <2> QED BY <2>1, <2>2
<1> QED BY <1>1, <1>2, <1>4, <1>5 DEF n, r, Shifted

\* A proposal among the frames of an end changes nothing about them.
LEMMA SpreadInsert ==
  ASSUME NEW q \in Seq(Frames), NEW lo \in Nat, NEW hi \in Nat, Spread(q, lo, hi),
         NEW x \in Frames, x.kind = "propose", NEW i \in 1..Len(q) + 1
  PROVE  Spread(InsertAt(q, i, x), lo, hi)
<1> DEFINE r == InsertAt(q, i, x)
           n == Len(q)
<1>1. /\ Len(r) = n + 1 /\ n \in Nat
      /\ \A k \in 1..n + 1 :
           \/ k = i /\ r[k] = x
           \/ \E j \in 1..n : r[k] = q[j] /\ ((k < i /\ j = k) \/ (k > i /\ j + 1 = k))
  <2>1. Shifted(q, i, x, r)
    BY InsertedPlaces
  <2> QED BY <2>1 DEF Shifted
<1>7. \A j \in 1..n : \E k \in 1..n + 1 : r[k] = q[j]
  BY InsertedPlaces DEF Shifted
<1>2. /\ lo <= hi
      /\ \A j \in 1..n : q[j].kind # "propose" => q[j].seq \in lo + 1 .. hi
      /\ \A k \in lo + 1 .. hi : \E j \in 1..n : q[j].kind # "propose" /\ q[j].seq = k
      /\ \A j, k \in 1..n :
           j < k /\ q[j].kind # "propose" /\ q[k].kind # "propose" => q[j].seq < q[k].seq
  BY DEF Spread
<1>3. i \in 1..n + 1
  OBVIOUS
<1> HIDE DEF r, n
<1>4. ASSUME NEW k \in 1..n + 1, r[k].kind # "propose" PROVE r[k].seq \in lo + 1 .. hi
  <2>1. PICK j \in 1..n : r[k] = q[j]
    BY <1>1, <1>4
  <2> QED BY <1>2, <1>4, <2>1
<1>5. \A k \in lo + 1 .. hi : \E j \in 1..n + 1 : r[j].kind # "propose" /\ r[j].seq = k
  <2> TAKE k \in lo + 1 .. hi
  <2>1. PICK j \in 1..n : q[j].kind # "propose" /\ q[j].seq = k
    BY <1>2
  <2>2. PICK l \in 1..n + 1 : r[l] = q[j]
    BY <1>7
  <2> QED BY <2>1, <2>2
<1>6. \A k, l \in 1..n + 1 :
        k < l /\ r[k].kind # "propose" /\ r[l].kind # "propose" => r[k].seq < r[l].seq
  <2> SUFFICES ASSUME NEW k \in 1..n + 1, NEW l \in 1..n + 1, k < l,
                      r[k].kind # "propose", r[l].kind # "propose"
               PROVE  r[k].seq < r[l].seq
    OBVIOUS
  <2>1. PICK a \in 1..n : r[k] = q[a] /\ ((k < i /\ a = k) \/ (k > i /\ a + 1 = k))
    BY <1>1
  <2>2. PICK b \in 1..n : r[l] = q[b] /\ ((l < i /\ b = l) \/ (l > i /\ b + 1 = l))
    BY <1>1
  <2>3. a < b
    BY <1>1, <1>3, <2>1, <2>2
  <2> QED BY <1>2, <2>1, <2>2, <2>3
<1> QED BY <1>1, <1>2, <1>4, <1>5, <1>6 DEF Spread, r

LEMMA OneCommitInsert ==
  ASSUME NEW q \in Seq(Frames), OneCommit(q),
         NEW x \in Frames, x.kind = "propose", NEW i \in 1..Len(q) + 1
  PROVE  OneCommit(InsertAt(q, i, x))
<1> DEFINE r == InsertAt(q, i, x)
           n == Len(q)
<1>1. /\ Len(r) = n + 1 /\ n \in Nat
      /\ \A k \in 1..n + 1 :
           \/ k = i /\ r[k] = x
           \/ \E j \in 1..n : r[k] = q[j] /\ ((k < i /\ j = k) \/ (k > i /\ j + 1 = k))
  <2>1. Shifted(q, i, x, r)
    BY InsertedPlaces
  <2> QED BY <2>1 DEF Shifted
<1>2. \A j, k \in 1..n : q[j].kind = "committed" /\ q[k].kind = "committed" => j = k
  BY DEF OneCommit
<1>3. i \in 1..n + 1
  OBVIOUS
<1> HIDE DEF r, n
<1>4. ASSUME NEW k \in 1..n + 1, NEW l \in 1..n + 1,
             r[k].kind = "committed", r[l].kind = "committed"
      PROVE  k = l
  <2>1. PICK a \in 1..n : r[k] = q[a] /\ ((k < i /\ a = k) \/ (k > i /\ a + 1 = k))
    BY <1>1, <1>4
  <2>2. PICK b \in 1..n : r[l] = q[b] /\ ((l < i /\ b = l) \/ (l > i /\ b + 1 = l))
    BY <1>1, <1>4
  <2>3. a = b
    BY <1>2, <1>4, <2>1, <2>2
  <2> QED BY <1>1, <1>3, <2>1, <2>2, <2>3
<1> QED BY <1>1, <1>4 DEF OneCommit, r

LEMMA OneCommitAppend ==
  ASSUME NEW q \in Seq(Frames), OneCommit(q), NEW x \in Frames,
         x.kind = "committed" => \A f \in ToSet(q) : f.kind # "committed"
  PROVE  OneCommit(Append(q, x))
<1> DEFINE r == Append(q, x)
           n == Len(q)
<1>1. /\ Len(r) = n + 1 /\ n \in Nat /\ r[n + 1] = x
      /\ \A i \in 1..n : r[i] = q[i]
  BY AppendIs
<1>2. ToSet(q) = {q[i] : i \in 1..n}
  BY Elements
<1>3. \A j, k \in 1..n : q[j].kind = "committed" /\ q[k].kind = "committed" => j = k
  BY DEF OneCommit
<1> HIDE DEF r, n
<1>4. \A i \in 1..n + 1 : i \in 1..n \/ i = n + 1
  BY <1>1
<1>5. \A i \in 1..n : x.kind = "committed" => q[i].kind # "committed"
  BY <1>2
<1>6. ASSUME NEW k \in 1..n + 1, NEW l \in 1..n + 1,
             r[k].kind = "committed", r[l].kind = "committed"
      PROVE  k = l
  BY <1>1, <1>3, <1>4, <1>5, <1>6
<1> QED BY <1>1, <1>6 DEF OneCommit, r

LEMMA OneCommitTail ==
  ASSUME NEW q \in Seq(Frames), OneCommit(q), q # <<>>
  PROVE  /\ OneCommit(Tail(q))
         /\ Head(q).kind = "committed" => \A f \in ToSet(Tail(q)) : f.kind # "committed"
<1> DEFINE r == Tail(q)
           n == Len(q)
<1>1. /\ Len(r) = n - 1 /\ n \in Nat /\ n >= 1 /\ r \in Seq(Frames)
      /\ \A i \in 1..n - 1 : r[i] = q[i + 1]
      /\ Head(q) = q[1]
  BY TailIs
<1>2. ToSet(r) = {r[i] : i \in 1..n - 1}
  BY <1>1, Elements
<1>3. \A j, k \in 1..n : q[j].kind = "committed" /\ q[k].kind = "committed" => j = k
  BY DEF OneCommit
<1> HIDE DEF r, n
<1>4. \A i \in 1..n - 1 : i + 1 \in 1..n /\ i + 1 # 1
  BY <1>1
<1>5. 1 \in 1..n
  BY <1>1
<1>6. ASSUME NEW k \in 1..n - 1, NEW l \in 1..n - 1,
             r[k].kind = "committed", r[l].kind = "committed"
      PROVE  k = l
  <2>1. k + 1 = l + 1
    BY <1>1, <1>3, <1>4, <1>6
  <2> QED BY <2>1
<1>7. ASSUME Head(q).kind = "committed", NEW k \in 1..n - 1 PROVE r[k].kind # "committed"
  BY <1>1, <1>3, <1>4, <1>5, <1>7
<1>8. OneCommit(r)
  BY <1>1, <1>6 DEF OneCommit
<1> QED BY <1>2, <1>7, <1>8 DEF r

LEMMA SpreadOpen ==
  ASSUME NEW q \in Seq(Frames), NEW n \in Nat, Spread(q, n, n)
  PROVE  /\ \A f \in ToSet(q) : f.kind = "propose"
         /\ \A m \in Nat : Spread(q, m, m)
<1>1. n + 1 .. n = {} /\ \A m \in Nat : m + 1 .. m = {}
  OBVIOUS
<1>2. \A i \in 1..Len(q) : q[i].kind = "propose"
  BY <1>1 DEF Spread
<1>3. ToSet(q) = {q[i] : i \in 1..Len(q)}
  BY Elements
<1>4. \A m \in Nat : m <= m
  OBVIOUS
<1>5. \A m \in Nat : Spread(q, m, m)
  BY <1>1, <1>2, <1>4 DEF Spread
<1> QED BY <1>2, <1>3, <1>5

LEMMA RunNone ==
  ASSUME NEW lo \in Nat
  PROVE  Run(<<>>, lo, lo) /\ \A hi : Run(<<>>, lo, hi) => hi = lo
<1>1. Len(<<>>) = 0 /\ 1..0 = {}
  OBVIOUS
<1> QED BY <1>1 DEF Run

LEMMA RunAppend ==
  ASSUME NEW q \in Seq(Frames), NEW lo \in Nat, NEW hi \in Nat, Run(q, lo, hi),
         NEW x \in Frames, x.kind # "propose", x.seq = hi + 1
  PROVE  Run(Append(q, x), lo, hi + 1)
<1> DEFINE r == Append(q, x)
           n == Len(q)
<1>1. /\ Len(r) = n + 1 /\ n \in Nat /\ r[n + 1] = x
      /\ \A i \in 1..n : r[i] = q[i]
  BY AppendIs
<1>2. hi = lo + n /\ \A i \in 1..n : q[i].kind # "propose" /\ q[i].seq = lo + i
  BY DEF Run
<1> HIDE DEF r, n
<1>3. \A i \in 1..n + 1 : i \in 1..n \/ i = n + 1
  BY <1>1
<1>4. \A i \in 1..n + 1 : r[i].kind # "propose" /\ r[i].seq = lo + i
  <2> TAKE i \in 1..n + 1
  <2>1. CASE i \in 1..n
    BY <1>1, <1>2, <2>1
  <2>2. CASE i = n + 1
    <3>1. x.seq = lo + (n + 1)
      BY <1>1, <1>2
    <3> QED BY <1>1, <2>2, <3>1
  <2> QED BY <1>3, <2>1, <2>2
<1>5. hi + 1 = lo + (n + 1)
  BY <1>1, <1>2
<1> QED BY <1>1, <1>4, <1>5 DEF Run, r

LEMMA RunTail ==
  ASSUME NEW q \in Seq(Frames), NEW lo \in Nat, NEW hi \in Nat, Run(q, lo, hi), q # <<>>
  PROVE  /\ Head(q).kind # "propose" /\ Head(q).seq = lo + 1
         /\ Run(Tail(q), lo + 1, hi)
<1> DEFINE r == Tail(q)
           n == Len(q)
<1>1. /\ Len(r) = n - 1 /\ n \in Nat /\ n >= 1
      /\ \A i \in 1..n - 1 : r[i] = q[i + 1]
      /\ Head(q) = q[1]
  BY TailIs
<1>2. hi = lo + n /\ \A i \in 1..n : q[i].kind # "propose" /\ q[i].seq = lo + i
  BY DEF Run
<1> HIDE DEF r, n
<1>3. \A i \in 1..n - 1 : i + 1 \in 1..n /\ lo + (i + 1) = (lo + 1) + i
  BY <1>1
<1>4. 1 \in 1..n
  BY <1>1
<1>5. \A i \in 1..n - 1 : r[i].kind # "propose" /\ r[i].seq = (lo + 1) + i
  BY <1>1, <1>2, <1>3
<1>6. hi = (lo + 1) + (n - 1)
  BY <1>1, <1>2
<1> QED BY <1>1, <1>2, <1>4, <1>5, <1>6 DEF Run, r

\* What an end seals has the next numbers.
LEMMA RunSeal ==
  ASSUME NEW e \in EndStates, NEW q \in Seq(Frames), \A f \in ToSet(q) : f.kind # "propose"
  PROVE  Run(Seal(e, q), e.tx, e.tx + Len(q))
<1>1. /\ Len(Seal(e, q)) = Len(q)
      /\ \A i \in 1..Len(q) : Seal(e, q)[i].kind = q[i].kind /\ Seal(e, q)[i].seq = e.tx + i
  BY SealTyped
<1>2. ToSet(q) = {q[i] : i \in 1..Len(q)}
  BY Elements
<1> QED BY <1>1, <1>2 DEF Run

LEMMA WaitingIs ==
  ASSUME NEW S, NEW q \in Seq(S)
  PROVE  Waiting(q) = {f.biz : f \in ToSet(q)}
BY DEF Waiting, ToSet

-----------------------------------------------------------------------------
(* What an end of an undisturbed upgrade says.                             *)

\* All but the queues, the numbers sealed and the messages accepted.
Alike(e, f) ==
  /\ f.st = e.st /\ f.up = e.up /\ f.peer = e.peer /\ f.local = e.local
  /\ f.remote = e.remote /\ f.sdp = e.sdp /\ f.path = e.path /\ f.tpeer = e.tpeer
  /\ f.switching = e.switching /\ f.queueing = e.queueing /\ f.parked = e.parked
  /\ f.strict = e.strict /\ f.prefers = e.prefers /\ f.drains = e.drains
  /\ f.backgroundPaused = e.backgroundPaused /\ f.rx = e.rx /\ f.alive = e.alive
  /\ f.linked = e.linked /\ f.ended = e.ended /\ f.commits = e.commits /\ f.got = e.got

\* The queues and the numbers.
SameQueues(e, f) ==
  /\ f.relay = e.relay /\ f.outQ = e.outQ /\ f.direct = e.direct /\ f.tx = e.tx

\* An end that can say something: see the transport's three states.
Ready(e) ==
  /\ Able(e) /\ (Unswitched(e) \/ Switching(e) \/ Switched(e))
  /\ ~e.queueing => e.outQ = <<>>

OnRelay(e, f, x) ==
  /\ f.tx = e.tx + 1 /\ x.seq = e.tx + 1
  /\ f.relay = Append(e.relay, x) /\ f.outQ = e.outQ /\ f.direct = e.direct
OnDirect(e, f, x) ==
  /\ f.tx = e.tx + 1 /\ x.seq = e.tx + 1
  /\ f.relay = e.relay /\ f.outQ = e.outQ
  /\ f.direct = [e.direct EXCEPT ![e.tpeer] = Append(@, x)]
InQueue(s, e, f, x) ==
  /\ IF s = "agent" THEN f.tx = e.tx + 1 /\ x.seq = e.tx + 1 ELSE f.tx = e.tx
  /\ f.relay = e.relay /\ f.outQ = Append(e.outQ, x) /\ f.direct = e.direct

\* e says x, and becomes f.
Utters(s, e, f, x) ==
  /\ Alike(e, f) /\ x \in Frames /\ x.kind # "propose"
  /\ \/ e.path = "relay" /\ (s = "agent" => e.outQ = <<>>) /\ OnRelay(e, f, x)
     \/ e.path = "relay" /\ InQueue(s, e, f, x)
     \/ e.path = "p2p" /\ e.tpeer \in Upgrades /\ OnDirect(e, f, x)

LEMMA StageAlike ==
  ASSUME NEW e, NEW f, Stage(e), Alike(e, f)
  PROVE  Stage(f)
BY DEF Stage, Alike, Able, Unswitched, Switching, Switched

LEMMA ReadyStage ==
  ASSUME NEW e, Stage(e), Shaped(e)
  PROVE  Ready(e)
BY DEF Stage, Ready, Shaped

LEMMA SealedAlike ==
  ASSUME NEW e \in EndStates, NEW q \in Seq(Frames)
  PROVE  /\ Sealed(e, q) \in EndStates /\ Alike(e, Sealed(e, q))
         /\ Sealed(e, q).tx = e.tx + Len(q) /\ Sealed(e, q).relay = e.relay
         /\ Sealed(e, q).outQ = e.outQ /\ Sealed(e, q).direct = e.direct
         /\ Sealed(e, q).accepted = e.accepted
<1> DEFINE n == e.tx + Len(q)
           f == [e EXCEPT !.tx = n]
<1>1. n \in Nat
  BY Parts
<1>2. Sealed(e, q) = f
  BY DEF Sealed
<1> HIDE DEF n
<1>3. f \in EndStates
  BY <1>1, Records
<1>4. /\ Alike(e, f) /\ f.tx = n /\ f.relay = e.relay /\ f.outQ = e.outQ
      /\ f.direct = e.direct /\ f.accepted = e.accepted
  BY DEF EndStates, Alike
<1> QED BY <1>2, <1>3, <1>4 DEF n

LEMMA RelayAlike ==
  ASSUME NEW e \in EndStates, NEW q \in Seq(Frames)
  PROVE  LET f == OverRelay(e, q)
         IN  /\ Alike(e, f) /\ f.tx = e.tx /\ f.relay = e.relay \o q
             /\ f.outQ = e.outQ /\ f.direct = e.direct /\ f.accepted = e.accepted
<1> DEFINE r == e.relay \o q
           f == [e EXCEPT !.relay = r]
<1>1. OverRelay(e, q) = f
  BY DEF OverRelay
<1> HIDE DEF r
<1>2. /\ Alike(e, f) /\ f.tx = e.tx /\ f.relay = r
      /\ f.outQ = e.outQ /\ f.direct = e.direct /\ f.accepted = e.accepted
  BY DEF EndStates, Alike
<1> QED BY <1>1, <1>2 DEF r

LEMMA DirectAlike ==
  ASSUME NEW e \in EndStates, NEW q \in Seq(Frames), e.tpeer \in e.alive
  PROVE  LET f == OverDirect(e, q)
         IN  /\ Alike(e, f) /\ f.tx = e.tx /\ f.relay = e.relay
             /\ f.outQ = e.outQ /\ f.accepted = e.accepted
             /\ f.direct = [e.direct EXCEPT ![e.tpeer] = @ \o q]
<1> DEFINE d == [e.direct EXCEPT ![e.tpeer] = @ \o q]
           f == [e EXCEPT !.direct = d]
<1>1. OverDirect(e, q) = f
  BY DEF OverDirect
<1> HIDE DEF d
<1>2. /\ Alike(e, f) /\ f.tx = e.tx /\ f.relay = e.relay
      /\ f.outQ = e.outQ /\ f.direct = d /\ f.accepted = e.accepted
  BY DEF EndStates, Alike
<1> QED BY <1>1, <1>2 DEF d

LEMMA QueuedAlike ==
  ASSUME NEW e \in EndStates, NEW r
  PROVE  LET f == [e EXCEPT !.outQ = r]
         IN  /\ Alike(e, f) /\ f.tx = e.tx /\ f.relay = e.relay
             /\ f.outQ = r /\ f.direct = e.direct /\ f.accepted = e.accepted
BY DEF EndStates, Alike

LEMMA SealOne ==
  ASSUME NEW e \in EndStates, NEW m \in Frames
  PROVE  \E x \in Frames : /\ Seal(e, <<m>>) = <<x>> /\ x.seq = e.tx + 1
                           /\ x.kind = m.kind /\ x.up = m.up /\ x.biz = m.biz
<1> DEFINE one == <<m>>
           q == Seal(e, one)
           x == q[1]
<1>1. one \in Seq(Frames) /\ Len(one) = 1 /\ one[1] = m /\ 1 \in 1..Len(one)
  BY OneFrame
<1> HIDE DEF one
<1>2. /\ q \in Seq(Frames) /\ Len(q) = 1
      /\ q[1].kind = m.kind /\ q[1].up = m.up /\ q[1].biz = m.biz /\ q[1].seq = e.tx + 1
  BY <1>1, SealTyped
<1> HIDE DEF q
<1>3. q = <<x>> /\ x \in Frames
  BY <1>2
<1> QED BY <1>2, <1>3 DEF q, one

LEMMA AlikeOn ==
  ASSUME NEW e, NEW f, NEW g, Alike(e, f), Alike(f, g)
  PROVE  Alike(e, g)
BY DEF Alike

LEMMA JoinOne ==
  ASSUME NEW q \in Seq(Frames), NEW x \in Frames
  PROVE  q \o <<x>> = Append(q, x)
OBVIOUS

\* A message sealed and put where an end puts it.
LEMMA SealedOnRelay ==
  ASSUME NEW s \in Sides, NEW e \in EndStates, e.path = "relay", s = "agent" => e.outQ = <<>>,
         NEW m \in Frames, m.kind # "propose"
  PROVE  LET f == OverRelay(Sealed(e, <<m>>), Seal(e, <<m>>))
         IN  f \in EndStates /\ f.accepted = e.accepted /\
             \E x : /\ Utters(s, e, f, x) /\ OnRelay(e, f, x)
                    /\ x.kind = m.kind /\ x.up = m.up /\ x.biz = m.biz
<1> DEFINE one == <<m>>
           n == Sealed(e, one)
           q == Seal(e, one)
           f == OverRelay(n, q)
<1>1. PICK x \in Frames : /\ q = <<x>> /\ x.seq = e.tx + 1
                          /\ x.kind = m.kind /\ x.up = m.up /\ x.biz = m.biz
  BY SealOne
<1>2. one \in Seq(Frames) /\ Len(one) = 1
  BY OneFrame
<1>3. q \in Seq(Frames)
  BY <1>1, OneFrame
<1> HIDE DEF one, q
<1>4. /\ n \in EndStates /\ Alike(e, n) /\ n.tx = e.tx + 1 /\ n.relay = e.relay
      /\ n.outQ = e.outQ /\ n.direct = e.direct /\ n.accepted = e.accepted
  <2>1. /\ n \in EndStates /\ Alike(e, n) /\ n.tx = e.tx + Len(one) /\ n.relay = e.relay
        /\ n.outQ = e.outQ /\ n.direct = e.direct /\ n.accepted = e.accepted
    BY <1>2, SealedAlike, Zenon
  <2> QED BY <1>2, <2>1
<1> HIDE DEF n
<1>5. /\ Alike(n, f) /\ f.tx = n.tx /\ f.relay = n.relay \o q
      /\ f.outQ = n.outQ /\ f.direct = n.direct /\ f.accepted = n.accepted
  BY <1>3, <1>4, RelayAlike
<1>11. f \in EndStates
  BY <1>3, <1>4, PathsTyped
<1> HIDE DEF f
<1>6. f.relay = Append(e.relay, x)
  BY <1>1, <1>4, <1>5, JoinOne, Parts
<1>7. Alike(e, f)
  BY <1>4, <1>5, AlikeOn
<1>8. OnRelay(e, f, x)
  BY <1>1, <1>4, <1>5, <1>6 DEF OnRelay
<1>9. Utters(s, e, f, x)
  BY <1>1, <1>7, <1>8 DEF Utters
<1>10. f.accepted = e.accepted
  BY <1>4, <1>5
<1> QED BY <1>1, <1>8, <1>9, <1>10, <1>11 DEF f, n, q, one

LEMMA SealedOnDirect ==
  ASSUME NEW s \in Sides, NEW e \in EndStates, e.path = "p2p", e.tpeer \in e.alive,
         NEW m \in Frames, m.kind # "propose"
  PROVE  LET f == OverDirect(Sealed(e, <<m>>), Seal(e, <<m>>))
         IN  f.accepted = e.accepted /\
             \E x : /\ Utters(s, e, f, x)
                    /\ x.kind = m.kind /\ x.up = m.up /\ x.biz = m.biz
<1> DEFINE one == <<m>>
           n == Sealed(e, one)
           q == Seal(e, one)
           f == OverDirect(n, q)
<1>1. PICK x \in Frames : /\ q = <<x>> /\ x.seq = e.tx + 1
                          /\ x.kind = m.kind /\ x.up = m.up /\ x.biz = m.biz
  BY SealOne
<1>2. one \in Seq(Frames) /\ Len(one) = 1
  BY OneFrame
<1>3. q \in Seq(Frames)
  BY <1>1, OneFrame
<1> HIDE DEF one, q
<1>4. /\ n \in EndStates /\ Alike(e, n) /\ n.tx = e.tx + 1 /\ n.relay = e.relay
      /\ n.outQ = e.outQ /\ n.direct = e.direct /\ n.accepted = e.accepted
  <2>1. /\ n \in EndStates /\ Alike(e, n) /\ n.tx = e.tx + Len(one) /\ n.relay = e.relay
        /\ n.outQ = e.outQ /\ n.direct = e.direct /\ n.accepted = e.accepted
    BY <1>2, SealedAlike, Zenon
  <2> QED BY <1>2, <2>1
<1> HIDE DEF n
<1>5. n.tpeer = e.tpeer /\ n.tpeer \in n.alive
  BY <1>4 DEF Alike
<1>6. /\ Alike(n, f) /\ f.tx = n.tx /\ f.relay = n.relay
      /\ f.outQ = n.outQ /\ f.accepted = n.accepted
      /\ f.direct = [n.direct EXCEPT ![n.tpeer] = @ \o q]
  BY <1>3, <1>4, <1>5, DirectAlike
<1> HIDE DEF f
<1>7. e.tpeer \in Upgrades /\ e.direct[e.tpeer] \in Seq(Frames)
  <2>1. e.alive \subseteq Upgrades /\ e.direct \in [Upgrades -> Seq(Frames)]
    BY Parts
  <2> QED BY <2>1
<1>8. e.direct[e.tpeer] \o q = Append(e.direct[e.tpeer], x)
  BY <1>1, <1>7, JoinOne
<1>9. f.direct = [e.direct EXCEPT ![e.tpeer] = Append(@, x)]
  BY <1>4, <1>5, <1>6, <1>8
<1>10. Alike(e, f)
  BY <1>4, <1>6, AlikeOn
<1>11. OnDirect(e, f, x)
  BY <1>1, <1>4, <1>6, <1>9 DEF OnDirect
<1>12. Utters(s, e, f, x)
  BY <1>1, <1>7, <1>10, <1>11 DEF Utters
<1>13. f.accepted = e.accepted
  BY <1>4, <1>6
<1> QED BY <1>1, <1>12, <1>13 DEF f, n, q, one

LEMMA SealedInQueue ==
  ASSUME NEW e \in EndStates, e.path = "relay", NEW m \in Frames, m.kind # "propose"
  PROVE  LET f == [Sealed(e, <<m>>) EXCEPT !.outQ = @ \o Seal(e, <<m>>)]
         IN  f.accepted = e.accepted /\
             \E x : /\ Utters("agent", e, f, x)
                    /\ x.kind = m.kind /\ x.up = m.up /\ x.biz = m.biz
<1> DEFINE one == <<m>>
           n == Sealed(e, one)
           q == Seal(e, one)
           r == n.outQ \o q
           f == [n EXCEPT !.outQ = r]
<1>1. PICK x \in Frames : /\ q = <<x>> /\ x.seq = e.tx + 1
                          /\ x.kind = m.kind /\ x.up = m.up /\ x.biz = m.biz
  BY SealOne
<1>2. one \in Seq(Frames) /\ Len(one) = 1
  BY OneFrame
<1> HIDE DEF one, q
<1>4. /\ n \in EndStates /\ Alike(e, n) /\ n.tx = e.tx + 1 /\ n.relay = e.relay
      /\ n.outQ = e.outQ /\ n.direct = e.direct /\ n.accepted = e.accepted
  <2>1. /\ n \in EndStates /\ Alike(e, n) /\ n.tx = e.tx + Len(one) /\ n.relay = e.relay
        /\ n.outQ = e.outQ /\ n.direct = e.direct /\ n.accepted = e.accepted
    BY <1>2, SealedAlike, Zenon
  <2> QED BY <1>2, <2>1
<1> HIDE DEF n
<1>5. r = Append(e.outQ, x)
  BY <1>1, <1>4, JoinOne, Parts
<1> HIDE DEF r
<1>6. /\ Alike(n, f) /\ f.tx = n.tx /\ f.relay = n.relay
      /\ f.outQ = r /\ f.direct = n.direct /\ f.accepted = n.accepted
  BY <1>4, QueuedAlike
<1> HIDE DEF f
<1>7. Alike(e, f)
  BY <1>4, <1>6, AlikeOn
<1>8. InQueue("agent", e, f, x)
  BY <1>1, <1>4, <1>5, <1>6 DEF InQueue
<1>9. Utters("agent", e, f, x)
  BY <1>1, <1>7, <1>8 DEF Utters
<1>10. f.accepted = e.accepted
  BY <1>4, <1>6
<1> QED BY <1>1, <1>9, <1>10 DEF f, r, n, q, one

LEMMA AgentSendUtters ==
  ASSUME NEW e \in EndStates, Ready(e), NEW m \in Frames, m.kind # "propose",
         NEW bypass \in BOOLEAN
  PROVE  LET f == AgentSend(e, m, bypass)
         IN  f.accepted = e.accepted /\
             \E x : /\ Utters("agent", e, f, x) /\ (Unswitched(e) => OnRelay(e, f, x) /\ f \in EndStates)
                    /\ x.kind = m.kind /\ x.up = m.up /\ x.biz = m.biz
<1> DEFINE n == Sealed(e, <<m>>)
           q == Seal(e, <<m>>)
<1>1. Alike(e, n)
  BY OneFrame, SealedAlike
<1>2. /\ n.strict = e.strict /\ n.path = e.path /\ n.tpeer = e.tpeer /\ ~e.strict
  BY <1>1 DEF Alike, Ready, Able
<1>3. "agent" \in Sides
  BY DEF Sides
<1>4. CASE Unswitched(e)
  <2>1. AgentSend(e, m, bypass) = OverRelay(n, q)
    BY <1>2, <1>4 DEF AgentSend, AgentDispatch, Unswitched
  <2>2. e.path = "relay" /\ e.outQ = <<>>
    BY <1>4 DEF Unswitched, Ready
  <2> QED BY <1>3, <2>1, <2>2, SealedOnRelay
<1>5. CASE Switching(e)
  <2>1. AgentSend(e, m, bypass) = [n EXCEPT !.outQ = @ \o q]
    BY <1>2, <1>5 DEF AgentSend, Switching
  <2>2. e.path = "relay" /\ ~Unswitched(e)
    BY <1>5 DEF Switching, Unswitched
  <2> DEFINE f == AgentSend(e, m, bypass)
  <2>3. /\ f.accepted = e.accepted
        /\ \E x : Utters("agent", e, f, x) /\ x.kind = m.kind /\ x.up = m.up /\ x.biz = m.biz
    <3>1. LET g == [Sealed(e, <<m>>) EXCEPT !.outQ = @ \o Seal(e, <<m>>)]
          IN  g.accepted = e.accepted /\
              \E x : /\ Utters("agent", e, g, x)
                     /\ x.kind = m.kind /\ x.up = m.up /\ x.biz = m.biz
      BY <2>2, SealedInQueue, Zenon
    <3> QED BY <2>1, <3>1, Zenon
  <2> HIDE DEF f
  <2>4. \A x : Unswitched(e) => OnRelay(e, f, x) /\ f \in EndStates
    BY <2>2
  <2> QED BY <2>3, <2>4 DEF f
<1>6. CASE Switched(e)
  <2>1. e.path = "p2p" /\ e.tpeer \in e.alive /\ ~Unswitched(e) /\ ~e.queueing
    BY <1>6 DEF Switched, Unswitched
  <2>2. e.tpeer # None
    <3>1. e.alive \subseteq Upgrades
      BY Parts
    <3> QED BY <2>1, <3>1, TransportAssumption DEF TransportAssumption
  <2>3. AgentSend(e, m, bypass) = OverDirect(n, q)
    BY <1>2, <2>1, <2>2 DEF AgentSend, AgentDispatch
  <2> QED BY <1>3, <2>1, <2>3, SealedOnDirect
<1> QED BY <1>4, <1>5, <1>6 DEF Ready

LEMMA AppSendUtters ==
  ASSUME NEW e \in EndStates, Ready(e), NEW m \in Frames, m.kind # "propose"
  PROVE  LET f == AppSend(e, m)
         IN  f.accepted = e.accepted /\
             \E x : /\ Utters("app", e, f, x)
                    /\ x.kind = m.kind /\ x.up = m.up /\ x.biz = m.biz
<1> DEFINE n == Sealed(e, <<m>>)
           q == Seal(e, <<m>>)
<1>1. ~e.prefers /\ "app" \in Sides
  BY DEF Ready, Able, Sides
<1>2. CASE Unswitched(e)
  <2>1. AppSend(e, m) = OverRelay(n, q)
    BY <1>1, <1>2 DEF AppSend, AppDispatch, Unswitched
  <2>2. e.path = "relay"
    BY <1>2 DEF Unswitched
  <2> QED BY <1>1, <2>1, <2>2, SealedOnRelay
<1>3. CASE Switching(e)
  <2> DEFINE r == Append(e.outQ, m)
             f == [e EXCEPT !.outQ = r]
  <2>1. AppSend(e, m) = f
    BY <1>1, <1>3 DEF AppSend, Switching
  <2> HIDE DEF r
  <2>2. /\ Alike(e, f) /\ f.tx = e.tx /\ f.relay = e.relay
        /\ f.outQ = r /\ f.direct = e.direct /\ f.accepted = e.accepted
    BY QueuedAlike
  <2> HIDE DEF f
  <2>3. e.path = "relay" /\ InQueue("app", e, f, m)
    BY <1>3, <2>2 DEF InQueue, Switching, r
  <2>4. Utters("app", e, f, m)
    BY <2>2, <2>3 DEF Utters
  <2> QED BY <2>1, <2>2, <2>4
<1>4. CASE Switched(e)
  <2>1. e.path = "p2p" /\ e.tpeer \in e.alive /\ ~e.queueing
    BY <1>4 DEF Switched
  <2>2. e.tpeer # None
    <3>1. e.alive \subseteq Upgrades
      BY Parts
    <3> QED BY <2>1, <3>1, TransportAssumption DEF TransportAssumption
  <2>3. AppSend(e, m) = OverDirect(n, q)
    BY <1>1, <2>1, <2>2 DEF AppSend, AppDispatch
  <2> QED BY <1>1, <2>1, <2>3, SealedOnDirect
<1> QED BY <1>2, <1>3, <1>4 DEF Ready

LEMMA BusinessUtters ==
  ASSUME NEW s \in Sides, NEW e \in EndStates, Ready(e)
  PROVE  LET f == SendBusiness(s, e)
         IN  f.accepted = e.accepted + 1 /\
             \E x : Utters(s, e, f, x) /\ x.kind = "business" /\ x.biz = e.accepted + 1
<1> DEFINE a == e.accepted + 1
           n == [e EXCEPT !.accepted = a]
           m == Business(a)
           f == SendBusiness(s, e)
<1>1. a \in Nat
  BY Parts
<1>2. f = IF s = "app" THEN AppSend(n, m) ELSE AgentSend(n, m, FALSE)
  <2>1. n.accepted = a
    BY DEF EndStates
  <2> QED BY <2>1 DEF SendBusiness
<1>3. m \in Frames /\ m.kind = "business" /\ m.biz = a /\ m.kind # "propose"
  BY <1>1, FrameTyped DEF Business
<1> HIDE DEF a, m
<1>4. n \in EndStates
  BY <1>1, Records
<1>5. Alike(e, n) /\ SameQueues(e, n) /\ n.accepted = a
  BY DEF EndStates, Alike, SameQueues
<1> HIDE DEF n, f
<1>6. Ready(n)
  BY <1>5 DEF Ready, Able, Alike, SameQueues, Unswitched, Switching, Switched
<1>7. f.accepted = a /\ \E x : Utters(s, n, f, x) /\ x.kind = "business" /\ x.biz = a
  <2>1. CASE s = "app"
    BY <1>2, <1>3, <1>4, <1>5, <1>6, <2>1, AppSendUtters
  <2>2. CASE s = "agent"
    <3>1. f = AgentSend(n, m, FALSE) /\ FALSE \in BOOLEAN
      BY <1>2, <2>2
    <3>2. /\ f.accepted = n.accepted
          /\ \E x : Utters("agent", n, f, x) /\ x.kind = m.kind /\ x.biz = m.biz
      <4>1. LET g == AgentSend(n, m, FALSE)
            IN  g.accepted = n.accepted /\
                \E x : /\ Utters("agent", n, g, x) /\ (Unswitched(n) => OnRelay(n, g, x) /\ g \in EndStates)
                       /\ x.kind = m.kind /\ x.up = m.up /\ x.biz = m.biz
        BY <1>3, <1>4, <1>6, <3>1, AgentSendUtters, Zenon
      <4> QED BY <3>1, <4>1, Zenon
    <3> QED BY <1>3, <1>5, <2>2, <3>2
  <2> QED BY <2>1, <2>2 DEF Sides
<1>8. PICK x : Utters(s, n, f, x) /\ x.kind = "business" /\ x.biz = a
  BY <1>7
<1>9. Utters(s, e, f, x)
  BY <1>5, <1>8 DEF Utters, Alike, SameQueues, OnRelay, OnDirect, InQueue
<1> QED BY <1>7, <1>8, <1>9 DEF f, a

LEMMA ControlUtters ==
  ASSUME NEW s \in Sides, NEW e \in EndStates, Ready(e), s = "app" => e.path # "p2p",
         NEW k \in Kinds \ {"propose", "business"}
  PROVE  LET f == SendControl(s, e, k)
         IN  f.accepted = e.accepted /\
             \E x : /\ Utters(s, e, f, x) /\ (Unswitched(e) => OnRelay(e, f, x) /\ f \in EndStates)
                    /\ x.kind = k /\ x.up = e.up /\ x.biz = 0
<1> DEFINE m == Control(k, e.up)
<1>1. m \in Frames /\ m.kind = k /\ m.up = e.up /\ m.biz = 0
  BY FrameTyped, Parts DEF Control
<1>2. k # "propose"
  OBVIOUS
<1>3. CASE s = "app"
  <2>1. SendControl(s, e, k) = OverRelay(Sealed(e, <<m>>), Seal(e, <<m>>))
    BY <1>3 DEF SendControl
  <2>2. e.path = "relay"
    BY <1>3, Parts DEF Paths
  <2> HIDE DEF m
  <2> QED BY <1>1, <1>2, <1>3, <2>1, <2>2, SealedOnRelay
<1>4. CASE s = "agent"
  <2> DEFINE f == SendControl(s, e, k)
  <2>1. f = AgentSend(e, m, TRUE) /\ TRUE \in BOOLEAN
    BY <1>4 DEF SendControl
  <2> HIDE DEF m, f
  <2>2. /\ f.accepted = e.accepted
        /\ \E x : /\ Utters("agent", e, f, x) /\ (Unswitched(e) => OnRelay(e, f, x) /\ f \in EndStates)
               /\ x.kind = m.kind /\ x.up = m.up /\ x.biz = m.biz
    <3>1. LET g == AgentSend(e, m, TRUE)
          IN  g.accepted = e.accepted /\
              \E x : /\ Utters("agent", e, g, x) /\ (Unswitched(e) => OnRelay(e, g, x) /\ g \in EndStates)
                     /\ x.kind = m.kind /\ x.up = m.up /\ x.biz = m.biz
      <4>1. m \in Frames /\ m.kind # "propose" /\ TRUE \in BOOLEAN
        BY <1>1, <1>2
      <4> QED BY <4>1, AgentSendUtters, Zenon
    <3> QED BY <2>1, <3>1, Zenon
  <2> QED BY <1>1, <1>4, <2>2 DEF f
<1> QED BY <1>3, <1>4 DEF Sides

-----------------------------------------------------------------------------
(* What is under way stays in order.                                       *)

\* Only the queues, their numbers, the path and the upgrade matter.
LEMMA SpeechOf ==
  ASSUME NEW e, NEW f, SameQueues(e, f), f.up = e.up
  PROVE  /\ Speech(e) => Speech(f)
         /\ Saying(f) <=> Saying(e)
BY DEF SameQueues, Speech, Saying

LEMMA OrderOf ==
  ASSUME NEW s, NEW e, NEW f, NEW n, SameQueues(e, f), InOrder(s, e, n), f.path = e.path,
         e.path = "p2p" => f.tpeer = e.tpeer
  PROVE  InOrder(s, f, n)
BY DEF SameQueues, InOrder

LEMMA CarriedOf ==
  ASSUME NEW e, NEW f, SameQueues(e, f), f.parked = e.parked
  PROVE  Carried(f) = Carried(e)
BY DEF SameQueues, Carried, Held

LEMMA UttersSpeech ==
  ASSUME NEW s \in Sides, NEW e \in EndStates, NEW f, NEW x, Utters(s, e, f, x),
         Speech(e), Apt(x, e.up),
         x.kind = "committed" => ~Saying(e) /\ OnRelay(e, f, x)
  PROVE  /\ Speech(f) /\ Carried(f) = Carried(e) \cup {x}
         /\ Saying(f) <=> Saying(e) \/ x.kind = "committed"
<1>1. x \in Frames /\ f.up = e.up /\ f.parked = e.parked
  BY DEF Utters, Alike
<1>2. e.relay \in Seq(Frames) /\ e.outQ \in Seq(Frames) /\ e.direct \in [Upgrades -> Seq(Frames)]
  BY Parts
<1>3. /\ \A g \in ToSet(e.relay) : Apt(g, e.up)
      /\ \A g \in ToSet(e.outQ) : Apt(g, e.up) /\ g.kind # "committed"
      /\ \A y \in Upgrades : \A g \in ToSet(e.direct[y]) : Apt(g, e.up) /\ g.kind # "committed"
      /\ OneCommit(e.relay)
  BY DEF Speech
<1>4. CASE OnRelay(e, f, x)
  <2>1. f.relay = Append(e.relay, x) /\ f.outQ = e.outQ /\ f.direct = e.direct
    BY <1>4 DEF OnRelay
  <2>2. ToSet(f.relay) = ToSet(e.relay) \cup {x}
    BY <1>1, <1>2, <2>1, Added
  <2>3. OneCommit(f.relay)
    <3>1. x.kind = "committed" => \A g \in ToSet(e.relay) : g.kind # "committed"
      BY DEF Saying
    <3> QED BY <1>1, <1>2, <1>3, <2>1, <3>1, OneCommitAppend
  <2>4. Speech(f)
    BY <1>1, <1>3, <2>1, <2>2, <2>3 DEF Speech
  <2>5. Carried(f) = Carried(e) \cup {x}
    BY <1>1, <2>1, <2>2 DEF Carried, Held
  <2>6. Saying(f) <=> Saying(e) \/ x.kind = "committed"
    BY <2>2 DEF Saying
  <2> QED BY <2>4, <2>5, <2>6
<1>5. CASE InQueue(s, e, f, x)
  <2>1. f.relay = e.relay /\ f.outQ = Append(e.outQ, x) /\ f.direct = e.direct
    BY <1>5 DEF InQueue
  <2>2. ToSet(f.outQ) = ToSet(e.outQ) \cup {x}
    BY <1>1, <1>2, <2>1, Added
  <2>3. x.kind # "committed"
    <3>1. Append(e.relay, x) # e.relay
      BY <1>1, <1>2
    <3> QED BY <2>1, <3>1 DEF OnRelay
  <2>4. Speech(f)
    BY <1>1, <1>3, <2>1, <2>2, <2>3 DEF Speech
  <2>5. Carried(f) = Carried(e) \cup {x}
    BY <1>1, <2>1, <2>2 DEF Carried, Held
  <2>6. Saying(f) <=> Saying(e)
    BY <2>1 DEF Saying
  <2> QED BY <2>3, <2>4, <2>5, <2>6
<1>6. CASE e.tpeer \in Upgrades /\ OnDirect(e, f, x)
  <2> DEFINE t == e.tpeer
             r == Append(e.direct[t], x)
  <2>1. f.relay = e.relay /\ f.outQ = e.outQ /\ f.direct = [e.direct EXCEPT ![t] = r]
    BY <1>6 DEF OnDirect
  <2>2. ToSet(r) = ToSet(e.direct[t]) \cup {x}
    BY <1>1, <1>2, <1>6, Added
  <2>3. x.kind # "committed"
    <3>1. Append(e.relay, x) # e.relay
      BY <1>1, <1>2
    <3> QED BY <2>1, <3>1 DEF OnRelay
  <2> HIDE DEF r
  <2>4. /\ f.direct[t] = r
        /\ \A y \in Upgrades \ {t} : f.direct[y] = e.direct[y]
    BY <1>2, <1>6, <2>1
  <2>5. \A y \in Upgrades : \A g \in ToSet(f.direct[y]) : Apt(g, e.up) /\ g.kind # "committed"
    BY <1>3, <1>6, <2>2, <2>3, <2>4
  <2>6. Speech(f)
    BY <1>1, <1>3, <2>1, <2>5 DEF Speech
  <2>7. UNION {ToSet(f.direct[y]) : y \in Upgrades}
          = (UNION {ToSet(e.direct[y]) : y \in Upgrades}) \cup {x}
    BY <1>6, <2>2, <2>4
  <2>8. Carried(f) = Carried(e) \cup {x}
    BY <1>1, <2>1, <2>7 DEF Carried, Held
  <2>9. Saying(f) <=> Saying(e)
    BY <2>1 DEF Saying
  <2> QED BY <2>3, <2>6, <2>8, <2>9
<1> QED BY <1>4, <1>5, <1>6 DEF Utters

LEMMA UttersOrder ==
  ASSUME NEW s \in Sides, NEW e \in EndStates, NEW f, NEW x, Utters(s, e, f, x),
         NEW n \in Nat, InOrder(s, e, n)
  PROVE  InOrder(s, f, n)
<1>1. x \in Frames /\ x.kind # "propose" /\ f.path = e.path /\ f.tpeer = e.tpeer
  BY DEF Utters, Alike
<1>2. /\ e.relay \in Seq(Frames) /\ e.outQ \in Seq(Frames)
      /\ e.direct \in [Upgrades -> Seq(Frames)] /\ e.tx \in Nat
  BY Parts
<1>3. CASE e.path = "relay" /\ (s = "agent" => e.outQ = <<>>) /\ OnRelay(e, f, x)
  <2>1. /\ f.relay = Append(e.relay, x) /\ f.outQ = e.outQ /\ f.direct = e.direct
        /\ f.tx = e.tx + 1 /\ x.seq = e.tx + 1
    BY <1>3 DEF OnRelay
  <2>2. \A y \in Upgrades : f.direct[y] = <<>>
    BY <1>3, <2>1 DEF InOrder
  <2>3. Spread(e.relay, n, e.tx) /\ (s = "agent" => Run(<<>>, e.tx, e.tx))
    <3>1. CASE s = "agent"
      <4>1. PICK k \in Nat : Spread(e.relay, n, k) /\ Run(e.outQ, k, e.tx)
        BY <1>3, <3>1 DEF InOrder
      <4>2. k = e.tx
        BY <1>3, <3>1, <4>1, RunNone
      <4> QED BY <1>2, <4>1, <4>2, RunNone
    <3>2. CASE s # "agent"
      BY <1>3, <3>2 DEF InOrder
    <3> QED BY <3>1, <3>2
  <2>4. Spread(f.relay, n, e.tx + 1)
    BY <1>1, <1>2, <2>1, <2>3, SpreadAppend
  <2>5. e.tx + 1 \in Nat /\ (s = "agent" => Run(f.outQ, e.tx + 1, e.tx + 1))
    BY <1>2, <1>3, <2>1, RunNone
  <2> QED BY <1>1, <1>3, <2>1, <2>2, <2>4, <2>5 DEF InOrder
<1>4. CASE e.path = "relay" /\ InQueue(s, e, f, x)
  <2>1. /\ f.relay = e.relay /\ f.outQ = Append(e.outQ, x) /\ f.direct = e.direct
        /\ IF s = "agent" THEN f.tx = e.tx + 1 /\ x.seq = e.tx + 1 ELSE f.tx = e.tx
    BY <1>4 DEF InQueue
  <2>2. \A y \in Upgrades : f.direct[y] = <<>>
    BY <1>4, <2>1 DEF InOrder
  <2>3. CASE s = "agent"
    <3>1. PICK k \in Nat : Spread(e.relay, n, k) /\ Run(e.outQ, k, e.tx)
      BY <1>4, <2>3 DEF InOrder
    <3>2. Run(f.outQ, k, e.tx + 1)
      BY <1>1, <1>2, <2>1, <2>3, <3>1, RunAppend
    <3> QED BY <1>1, <1>4, <2>1, <2>2, <2>3, <3>1, <3>2 DEF InOrder
  <2>4. CASE s # "agent"
    BY <1>1, <1>4, <2>1, <2>2, <2>4 DEF InOrder
  <2> QED BY <2>3, <2>4
<1>5. CASE e.path = "p2p" /\ e.tpeer \in Upgrades /\ OnDirect(e, f, x)
  <2> DEFINE t == e.tpeer
             r == Append(e.direct[t], x)
  <2>1. /\ f.relay = e.relay /\ f.direct = [e.direct EXCEPT ![t] = r]
        /\ f.tx = e.tx + 1 /\ x.seq = e.tx + 1
    BY <1>5 DEF OnDirect
  <2>2. /\ Spread(e.relay, n, n) /\ Run(e.direct[t], n, e.tx)
        /\ \A y \in Upgrades \ {t} : e.direct[y] = <<>>
    BY <1>5 DEF InOrder
  <2>3. Run(r, n, e.tx + 1)
    BY <1>1, <1>2, <1>5, <2>1, <2>2, RunAppend
  <2> HIDE DEF r
  <2>4. f.direct[t] = r /\ \A y \in Upgrades \ {t} : f.direct[y] = <<>>
    BY <1>2, <1>5, <2>1, <2>2
  <2> QED BY <1>1, <1>5, <2>1, <2>2, <2>3, <2>4 DEF InOrder
<1> QED BY <1>3, <1>4, <1>5 DEF Utters

LEMMA Parted ==
  ASSUME NEW q \in Seq(Frames), q # <<>>
  PROVE  /\ Head(q) \in Frames /\ Head(q) \in ToSet(q) /\ Tail(q) \in Seq(Frames)
         /\ ToSet(q) = ToSet(Tail(q)) \cup {Head(q)}
<1> DEFINE r == Tail(q)
           m == Head(q)
<1>1. m \in Frames /\ m \in ToSet(q) /\ r \in Seq(Frames) /\ ToSet(r) \subseteq ToSet(q)
  BY Taken
<1>2. /\ Len(r) = Len(q) - 1 /\ Len(q) \in Nat /\ Len(q) >= 1
      /\ \A i \in 1..Len(q) - 1 : r[i] = q[i + 1]
      /\ m = q[1]
  BY TailIs
<1>3. /\ ToSet(r) = {r[i] : i \in 1..Len(r)}
      /\ ToSet(q) = {q[i] : i \in 1..Len(q)}
  BY <1>1, Elements
<1> HIDE DEF r, m
<1>4. ASSUME NEW i \in 1..Len(q) PROVE q[i] \in ToSet(r) \cup {m}
  <2>1. CASE i = 1
    BY <1>2, <2>1
  <2>2. CASE i # 1
    <3> DEFINE j == i - 1
    <3>1. j \in 1..Len(q) - 1 /\ j + 1 = i
      BY <1>2, <2>2
    <3> HIDE DEF j
    <3> QED BY <1>2, <1>3, <3>1
  <2> QED BY <2>1, <2>2
<1>5. ToSet(q) = ToSet(r) \cup {m}
  BY <1>1, <1>3, <1>4
<1> QED BY <1>1, <1>5 DEF r, m

\* The other end takes the next frame from the relay.
LEMMA RelayTaken ==
  ASSUME NEW s \in Sides, NEW e \in EndStates, NEW n \in Nat, InOrder(s, e, n), Speech(e),
         e.relay # <<>>, NEW f, f = [e EXCEPT !.relay = Tail(@)]
  PROVE  LET m == Head(e.relay)
         IN  /\ m \in Frames /\ Apt(m, e.up) /\ Alike(e, f) /\ Speech(f)
             /\ f.accepted = e.accepted
             /\ IF m.kind = "propose" THEN InOrder(s, f, n)
                ELSE e.path = "relay" /\ m.seq = n + 1 /\ InOrder(s, f, n + 1)
             /\ m.kind = "committed" => Saying(e) /\ ~Saying(f)
             /\ m.kind # "committed" => (Saying(f) <=> Saying(e))
             /\ Carried(e) = Carried(f) \cup {m}
<1> DEFINE r == Tail(e.relay)
           m == Head(e.relay)
<1>1. /\ e.relay \in Seq(Frames) /\ e.outQ \in Seq(Frames)
      /\ e.direct \in [Upgrades -> Seq(Frames)] /\ e.tx \in Nat /\ e.path \in Paths
  BY Parts
<1>2. f = [e EXCEPT !.relay = r]
  OBVIOUS
<1>3. m \in Frames /\ m \in ToSet(e.relay) /\ r \in Seq(Frames) /\ ToSet(e.relay) = ToSet(r) \cup {m}
  BY <1>1, Parted
<1>4. OneCommit(r) /\ (m.kind = "committed" => \A g \in ToSet(r) : g.kind # "committed")
  BY <1>1, OneCommitTail DEF Speech
<1>5. \A k \in Nat : Spread(e.relay, n, k) =>
        IF m.kind = "propose" THEN Spread(r, n, k)
        ELSE m.seq = n + 1 /\ n < k /\ Spread(r, n + 1, k)
  BY <1>1, SpreadTail
<1> HIDE DEF r, m
<1>6. /\ Alike(e, f) /\ f.relay = r /\ f.outQ = e.outQ /\ f.direct = e.direct /\ f.tx = e.tx
      /\ f.accepted = e.accepted
  BY <1>2 DEF EndStates, Alike
<1>7. f.up = e.up /\ f.parked = e.parked /\ f.path = e.path /\ f.tpeer = e.tpeer
  BY <1>6 DEF Alike
<1>8. Speech(f) /\ Apt(m, e.up)
  BY <1>3, <1>4, <1>6, <1>7 DEF Speech
<1>9. Carried(e) = Carried(f) \cup {m}
  <2>1. Held(e) = Held(f)
    BY <1>6, <1>7 DEF Held
  <2>2. Carried(e) = (ToSet(r) \cup {m}) \cup Held(f)
    BY <1>3, <2>1 DEF Carried
  <2>3. Carried(f) = ToSet(r) \cup Held(f)
    BY <1>6 DEF Carried
  <2> QED BY <2>2, <2>3
<1>10. /\ m.kind = "committed" => Saying(e) /\ ~Saying(f)
       /\ m.kind # "committed" => (Saying(f) <=> Saying(e))
  BY <1>3, <1>4, <1>6 DEF Saying
<1>11. IF m.kind = "propose" THEN InOrder(s, f, n)
       ELSE e.path = "relay" /\ m.seq = n + 1 /\ InOrder(s, f, n + 1)
  <2>1. CASE e.path = "p2p"
    <3>1. /\ Spread(e.relay, n, n) /\ Run(e.direct[e.tpeer], n, e.tx)
          /\ \A y \in Upgrades \ {e.tpeer} : e.direct[y] = <<>>
      BY <2>1 DEF InOrder
    <3>2. m.kind = "propose"
      BY <1>1, <1>3, <3>1, SpreadOpen
    <3>3. Spread(r, n, n)
      BY <1>5, <3>1, <3>2
    <3> QED BY <1>6, <1>7, <2>1, <3>1, <3>2, <3>3 DEF InOrder
  <2>2. CASE e.path = "relay" /\ s = "agent"
    <3>1. \A y \in Upgrades : e.direct[y] = <<>>
      BY <2>2 DEF InOrder
    <3>2. PICK k \in Nat : Spread(e.relay, n, k) /\ Run(e.outQ, k, e.tx)
      BY <2>2 DEF InOrder
    <3> QED BY <1>5, <1>6, <1>7, <2>2, <3>1, <3>2 DEF InOrder
  <2>3. CASE e.path = "relay" /\ s # "agent"
    <3>1. (\A y \in Upgrades : e.direct[y] = <<>>) /\ Spread(e.relay, n, e.tx)
      BY <2>3 DEF InOrder
    <3> QED BY <1>1, <1>5, <1>6, <1>7, <2>3, <3>1 DEF InOrder
  <2> QED BY <1>1, <2>1, <2>2, <2>3 DEF Paths
<1> QED BY <1>3, <1>6, <1>8, <1>9, <1>10, <1>11 DEF m

\* The other end takes the next frame from the direct path.
LEMMA DirectTaken ==
  ASSUME NEW s \in Sides, NEW e \in EndStates, NEW n \in Nat, InOrder(s, e, n), Speech(e),
         NEW u \in Upgrades, e.direct[u] # <<>>,
         NEW f, f = [e EXCEPT !.direct[u] = Tail(@)]
  PROVE  LET m == Head(e.direct[u])
         IN  /\ e.path = "p2p" /\ e.tpeer = u
             /\ m \in Frames /\ Apt(m, e.up) /\ m.kind \notin {"propose", "committed"}
             /\ Alike(e, f) /\ Speech(f) /\ f.accepted = e.accepted
             /\ m.seq = n + 1 /\ InOrder(s, f, n + 1)
             /\ Saying(f) <=> Saying(e)
             /\ Carried(e) = Carried(f) \cup {m}
<1> DEFINE q == e.direct[u]
           r == Tail(q)
           m == Head(q)
           d == [e.direct EXCEPT ![u] = r]
<1>1. /\ e.relay \in Seq(Frames) /\ q \in Seq(Frames)
      /\ e.direct \in [Upgrades -> Seq(Frames)] /\ e.tx \in Nat
  BY Parts
<1>2. e.path = "p2p" /\ e.tpeer = u
  BY DEF InOrder
<1>3. f = [e EXCEPT !.direct = d]
  OBVIOUS
<1>4. Spread(e.relay, n, n) /\ Run(q, n, e.tx) /\ \A y \in Upgrades \ {u} : e.direct[y] = <<>>
  BY <1>2 DEF InOrder
<1>5. m \in Frames /\ m \in ToSet(q) /\ r \in Seq(Frames) /\ ToSet(q) = ToSet(r) \cup {m}
  BY <1>1, Parted
<1>6. m.kind # "propose" /\ m.seq = n + 1 /\ Run(r, n + 1, e.tx)
  BY <1>1, <1>4, RunTail
<1>7. \A k \in Nat : Spread(e.relay, k, k)
  BY <1>1, <1>4, SpreadOpen
<1>8. d[u] = r /\ \A y \in Upgrades \ {u} : d[y] = e.direct[y]
  BY <1>1
<1> HIDE DEF m, r, d
<1>9. /\ Alike(e, f) /\ f.relay = e.relay /\ f.outQ = e.outQ /\ f.direct = d /\ f.tx = e.tx
      /\ f.accepted = e.accepted
  BY <1>3 DEF EndStates, Alike
<1>10. f.up = e.up /\ f.parked = e.parked /\ f.path = e.path /\ f.tpeer = e.tpeer
  BY <1>9 DEF Alike
<1>11. Apt(m, e.up) /\ m.kind # "committed"
  BY <1>5 DEF Speech
<1>12. \A y \in Upgrades : ToSet(d[y]) \subseteq ToSet(e.direct[y])
  BY <1>5, <1>8
<1>13. Speech(f)
  BY <1>9, <1>10, <1>12 DEF Speech
<1>14. UNION {ToSet(e.direct[y]) : y \in Upgrades} = (UNION {ToSet(d[y]) : y \in Upgrades}) \cup {m}
  BY <1>5, <1>8
<1>15. Carried(e) = Carried(f) \cup {m}
  BY <1>9, <1>10, <1>14 DEF Carried, Held
<1>16. Saying(f) <=> Saying(e)
  BY <1>9 DEF Saying
<1>17. InOrder(s, f, n + 1)
  <2>1. Spread(f.relay, n + 1, n + 1)
    BY <1>7, <1>9
  <2>2. f.direct[f.tpeer] = r /\ \A y \in Upgrades \ {f.tpeer} : f.direct[y] = <<>>
    BY <1>2, <1>4, <1>8, <1>9, <1>10
  <2> QED BY <1>2, <1>6, <1>9, <1>10, <2>1, <2>2 DEF InOrder
<1> QED BY <1>2, <1>5, <1>6, <1>9, <1>11, <1>13, <1>15, <1>16, <1>17 DEF m

\* A proposal of the relay gets between the frames of an end.
LEMMA Proposed ==
  ASSUME NEW s \in Sides, NEW e \in EndStates, NEW n \in Nat, InOrder(s, e, n), Speech(e),
         NEW u \in Upgrades, NEW i \in 1..Len(e.relay) + 1,
         NEW f, f = [e EXCEPT !.relay = InsertAt(@, i, Control("propose", u))]
  PROVE  /\ Alike(e, f) /\ Speech(f) /\ f.accepted = e.accepted /\ InOrder(s, f, n)
         /\ Saying(f) <=> Saying(e)
         /\ Carried(e) \subseteq Carried(f)
<1> DEFINE x == Control("propose", u)
           r == InsertAt(e.relay, i, x)
<1>1. e.relay \in Seq(Frames) /\ e.tx \in Nat /\ e.path \in Paths
  BY Parts
<1>2. x \in Frames /\ x.kind = "propose" /\ x.biz = 0
  BY FrameTyped DEF Control, Kinds
<1>3. f = [e EXCEPT !.relay = r]
  OBVIOUS
<1> HIDE DEF x
<1>4. ToSet(r) = ToSet(e.relay) \cup {x}
  BY <1>1, <1>2, Inserted
<1>5. OneCommit(r)
  BY <1>1, <1>2, OneCommitInsert DEF Speech
<1>6. \A k \in Nat : Spread(e.relay, n, k) => Spread(r, n, k)
  BY <1>1, <1>2, SpreadInsert
<1> HIDE DEF r
<1>7. /\ Alike(e, f) /\ f.relay = r /\ f.outQ = e.outQ /\ f.direct = e.direct /\ f.tx = e.tx
      /\ f.accepted = e.accepted
  BY <1>3 DEF EndStates, Alike
<1>8. f.up = e.up /\ f.parked = e.parked /\ f.path = e.path /\ f.tpeer = e.tpeer
  BY <1>7 DEF Alike
<1>9. Apt(x, e.up)
  BY <1>2 DEF Apt
<1>10. Speech(f)
  BY <1>4, <1>5, <1>7, <1>8, <1>9 DEF Speech
<1>11. Saying(f) <=> Saying(e)
  BY <1>2, <1>4, <1>7 DEF Saying
<1>12. Carried(e) \subseteq Carried(f)
  BY <1>4, <1>7, <1>8 DEF Carried, Held
<1>13. InOrder(s, f, n)
  <2>1. CASE e.path = "p2p"
    BY <1>6, <1>7, <1>8, <2>1 DEF InOrder
  <2>2. CASE e.path # "p2p" /\ s = "agent"
    <3>1. PICK k \in Nat : Spread(e.relay, n, k) /\ Run(e.outQ, k, e.tx)
      BY <2>2 DEF InOrder
    <3> QED BY <1>6, <1>7, <1>8, <2>2, <3>1 DEF InOrder
  <2>3. CASE e.path # "p2p" /\ s # "agent"
    BY <1>1, <1>6, <1>7, <1>8, <2>3 DEF InOrder
  <2> QED BY <2>1, <2>2, <2>3
<1> QED BY <1>7, <1>10, <1>11, <1>12, <1>13

-----------------------------------------------------------------------------
(* What an end of an undisturbed upgrade does about a frame, and a switch. *)

\* What handling a frame leaves alone.
Calmly(e, f) ==
  /\ SameQueues(e, f) /\ f.parked = e.parked /\ f.accepted = e.accepted
  /\ f.path = e.path /\ (e.path = "p2p" => f.tpeer = e.tpeer)
  /\ f.local = e.local /\ (e.local => f.up = e.up)

\* A transport that begins to switch to its peer connection.
Begins(e, f) ==
  /\ f.st = "upgraded" /\ f.tpeer = e.peer /\ f.switching /\ f.queueing
  /\ f.drains = <<"p2p">> /\ f.path = "relay"
  /\ f.up = e.up /\ f.peer = e.peer /\ f.local = e.local /\ f.remote = e.remote
  /\ f.sdp = e.sdp /\ f.parked = e.parked /\ f.strict = e.strict /\ f.prefers = e.prefers
  /\ f.backgroundPaused = e.backgroundPaused /\ f.rx = e.rx /\ f.alive = e.alive
  /\ f.linked = e.linked /\ f.ended = e.ended /\ f.commits = e.commits /\ f.got = e.got
  /\ f.relay = e.relay /\ f.outQ = e.outQ /\ f.direct = e.direct /\ f.tx = e.tx
  /\ f.accepted = e.accepted

LEMMA MaybeUpgradeBegins ==
  ASSUME NEW s \in Sides, NEW e \in EndStates, Unswitched(e), e.outQ = <<>>, ~e.strict,
         e.local, e.remote, e.peer # None
  PROVE  Begins(e, MaybeUpgrade(s, e))
<1> DEFINE a == [e EXCEPT !.st = "upgraded"]
           b == [a EXCEPT !.tpeer = e.peer]
           c == [b EXCEPT !.switching = TRUE]
           d == [c EXCEPT !.queueing = TRUE]
           h == [d EXCEPT !.outQ = <<>>]
           f == [h EXCEPT !.drains = <<"p2p">>]
<1>1. /\ e.path = "relay" /\ e.tpeer = None /\ ~e.switching /\ ~e.queueing /\ e.drains = <<>>
      /\ e.alive \subseteq Upgrades /\ e.switching = FALSE /\ e.queueing = FALSE
      /\ None \notin Upgrades
  BY Parts, TransportAssumption DEF Unswitched, TransportAssumption
<1>2. a \in EndStates /\ b \in EndStates
  <2>1. a \in EndStates
    BY Records DEF CoordinatorStates
  <2> HIDE DEF a
  <2> QED BY <2>1, Records, Parts
<1>3. /\ a.peer = e.peer /\ a.path = "relay" /\ a.tpeer = None /\ a.switching = FALSE
      /\ a.queueing = FALSE /\ a.outQ = <<>> /\ a.alive = e.alive
  BY <1>1 DEF EndStates
<1>4. [Detach(s, a) EXCEPT !.tpeer = e.peer] = b
  <2>1. a.alive \ {a.tpeer} = a.alive
    BY <1>1, <1>3
  <2> DEFINE g == AgentDetach(a)
  <2>2. g = [a EXCEPT !.path = "relay", !.queueing = FALSE, !.outQ = <<>>,
                      !.switching = FALSE, !.alive = a.alive, !.tpeer = None]
    BY <2>1 DEF AgentDetach
  <2>3. a = [a EXCEPT !.path = "relay", !.queueing = FALSE, !.outQ = <<>>,
                      !.switching = FALSE, !.alive = a.alive, !.tpeer = None]
    <3> HIDE DEF a
    <3>1. /\ a = [a EXCEPT !.path = "relay"] /\ a = [a EXCEPT !.queueing = FALSE]
      BY <1>2, <1>3 DEF EndStates
    <3>2. /\ a = [a EXCEPT !.outQ = <<>>] /\ a = [a EXCEPT !.switching = FALSE]
      BY <1>2, <1>3 DEF EndStates
    <3>3. /\ a = [a EXCEPT !.alive = a.alive] /\ a = [a EXCEPT !.tpeer = None]
      BY <1>2, <1>3 DEF EndStates
    <3> QED BY <3>1, <3>2, <3>3
  <2>4. g = a
    BY <2>2, <2>3
  <2>5. AppDetach(a) = a
    <3> HIDE DEF a
    <3> QED BY <1>2, <1>3 DEF AppDetach, EndStates
  <2> HIDE DEF a
  <2> QED BY <2>4, <2>5 DEF Detach
<1>5. /\ b.peer = e.peer /\ b.path = "relay" /\ b.tpeer = e.peer /\ b.switching = FALSE
      /\ b.drains = <<>>
  BY <1>1 DEF EndStates
<1>6. ~SwitchRefused(b, "p2p")
  BY <1>5 DEF SwitchRefused
<1>7. SwitchPath(b, "p2p") = f
  <2> HIDE DEF b
  <2>2. Append(<<>>, "p2p") = <<"p2p">>
    OBVIOUS
  <2>1. Append(b.drains, "p2p") = <<"p2p">>
    BY <1>5, <2>2
  <2> QED BY <1>2, <1>6, <2>1 DEF SwitchPath, EndStates
<1>8. MaybeUpgrade(s, e) = f
  <2>1. OnSwitchPath(s, a, "p2p") = SwitchPath(b, "p2p")
    BY <1>3, <1>4 DEF OnSwitchPath
  <2> QED BY <1>7, <2>1 DEF MaybeUpgrade
<1>9. /\ b.st = "upgraded" /\ b.tpeer = e.peer /\ b.path = "relay"
      /\ b.up = e.up /\ b.peer = e.peer /\ b.local = e.local /\ b.remote = e.remote
      /\ b.sdp = e.sdp /\ b.parked = e.parked /\ b.strict = e.strict /\ b.prefers = e.prefers
      /\ b.backgroundPaused = e.backgroundPaused /\ b.rx = e.rx /\ b.alive = e.alive
      /\ b.linked = e.linked /\ b.ended = e.ended /\ b.commits = e.commits /\ b.got = e.got
      /\ b.relay = e.relay /\ b.outQ = e.outQ /\ b.direct = e.direct /\ b.tx = e.tx
      /\ b.accepted = e.accepted
  BY <1>1 DEF EndStates
<1> HIDE DEF b
<1>10. /\ f.st = b.st /\ f.tpeer = b.tpeer /\ f.path = b.path
       /\ f.switching /\ f.queueing /\ f.drains = <<"p2p">> /\ f.outQ = <<>>
       /\ f.up = b.up /\ f.peer = b.peer /\ f.local = b.local /\ f.remote = b.remote
       /\ f.sdp = b.sdp /\ f.parked = b.parked /\ f.strict = b.strict /\ f.prefers = b.prefers
       /\ f.backgroundPaused = b.backgroundPaused /\ f.rx = b.rx /\ f.alive = b.alive
       /\ f.linked = b.linked /\ f.ended = b.ended /\ f.commits = b.commits /\ f.got = b.got
       /\ f.relay = b.relay /\ f.direct = b.direct /\ f.tx = b.tx
       /\ f.accepted = b.accepted
  BY <1>2 DEF EndStates
<1> HIDE DEF f
<1>11. Begins(e, f)
  BY <1>9, <1>10 DEF Begins
<1> QED BY <1>8, <1>11

\* An end that has committed itself and heard the other do so.
Committed(e) ==
  /\ Able(e) /\ ~e.backgroundPaused /\ e.parked = <<>> /\ e.commits = {e.up}
  /\ e.local /\ e.remote /\ e.peer = e.up /\ e.up # None /\ e.peer \in e.alive

LEMMA StageBegins ==
  ASSUME NEW e, NEW f, Committed(e), e.path = "relay", Begins(e, f)
  PROVE  Stage(f) /\ Calmly(e, f)
BY DEF Stage, Begins, Calmly, Able, Switching, Unswitched, Switched, Committed, SameQueues

LEMMA ProposalHandled ==
  ASSUME NEW s \in Sides, NEW e \in EndStates, Shaped(e), Stage(e), Speech(e),
         NEW u \in Upgrades, NEW f, f = HandlePropose(s, e, u)
  PROVE  /\ Stage(f) /\ Speech(f) /\ Calmly(e, f)
         /\ f.remote = e.remote /\ f.rx = e.rx /\ f.linked = e.linked /\ f.got = e.got
         /\ f.up = e.up \/ e.up = None
<1> DEFINE c == Configured(s, e)
<1>1. c \in EndStates /\ Alike(e, c) /\ SameQueues(e, c) /\ c.accepted = e.accepted
  <2>1. CASE s = "app"
    <3>1. c = e
      BY <2>1 DEF Configured
    <3> QED BY <3>1 DEF Alike, SameQueues
  <2>2. CASE s = "agent"
    <3> DEFINE p == e.prefers
               b == [e EXCEPT !.strict = p]
               d == [b EXCEPT !.parked = <<>>]
    <3>1. p \in BOOLEAN /\ e.strict = p /\ e.parked = <<>>
      <4>1. e.strict \in BOOLEAN /\ e.prefers \in BOOLEAN /\ ~e.strict /\ ~e.prefers
        BY Parts DEF Stage, Able
      <4> QED BY <4>1 DEF Stage
    <3>2. c = d
      BY <2>2 DEF Configured
    <3> HIDE DEF p
    <3>3. b \in EndStates
      BY <3>1, Records
    <3>4. d \in EndStates
      <4> HIDE DEF b
      <4> QED BY <3>3, NoFrame, Records
    <3>5. Alike(e, d) /\ SameQueues(e, d) /\ d.accepted = e.accepted
      BY <3>1 DEF Alike, SameQueues, EndStates
    <3> QED BY <3>2, <3>4, <3>5
  <2> QED BY <2>1, <2>2 DEF Sides
<1>2. f = IF c.st = "idle" THEN [c EXCEPT !.st = "proposed", !.up = u] ELSE c
  BY DEF HandlePropose
<1> HIDE DEF c
<1>3. Stage(c)
  BY <1>1, StageAlike
<1>4. CASE c.st # "idle"
  <2>1. f = c
    BY <1>2, <1>4
  <2>2. Speech(f)
    BY <1>1, <2>1, SpeechOf DEF Alike
  <2> QED BY <1>1, <1>3, <2>1, <2>2 DEF Alike, Calmly
<1>5. CASE c.st = "idle"
  <2>1. c.up = None /\ e.up = None /\ c.peer = None
    BY <1>1, <1>5, TransportAssumption DEF Alike, Shaped
  <2>2. f = [c EXCEPT !.st = "proposed", !.up = u]
    BY <1>2, <1>5
  <2>3. /\ f.st = "proposed" /\ f.up = u /\ f.peer = c.peer /\ f.local = c.local
        /\ f.remote = c.remote /\ f.sdp = c.sdp /\ f.path = c.path /\ f.tpeer = c.tpeer
        /\ f.switching = c.switching /\ f.queueing = c.queueing /\ f.parked = c.parked
        /\ f.strict = c.strict /\ f.prefers = c.prefers /\ f.drains = c.drains
        /\ f.backgroundPaused = c.backgroundPaused /\ f.rx = c.rx /\ f.alive = c.alive
        /\ f.linked = c.linked /\ f.ended = c.ended /\ f.commits = c.commits /\ f.got = c.got
        /\ f.relay = c.relay /\ f.outQ = c.outQ /\ f.direct = c.direct /\ f.tx = c.tx
        /\ f.accepted = c.accepted
    BY <1>1, <2>2 DEF EndStates
  <2>4. ~c.local /\ Unswitched(c) /\ c.commits = {} /\ c.sdp = "none"
    BY <1>3, <1>5, <2>1 DEF Stage
  <2>5. u # None
    BY TransportAssumption DEF TransportAssumption
  <2>6. Stage(f)
    BY <1>3, <1>5, <2>1, <2>3, <2>4, <2>5 DEF Stage, Able, Unswitched
  <2>7. \A g : Apt(g, e.up) => Apt(g, u)
    BY <2>1 DEF Apt
  <2>8. SameQueues(e, f)
    BY <1>1, <2>3 DEF SameQueues
  <2>9. Speech(f)
    BY <2>3, <2>7, <2>8 DEF SameQueues, Speech
  <2>10. Calmly(e, f)
    BY <1>1, <2>3, <2>4, <2>8 DEF Calmly, Alike
  <2> QED BY <1>1, <2>1, <2>3, <2>6, <2>9, <2>10 DEF Alike
<1> QED BY <1>4, <1>5

\* Where a negotiation of descriptions is does not change an end's stage.
LEMMA StageKept ==
  ASSUME NEW e, NEW f, Stage(e), e.up # None,
         /\ f.st = e.st /\ f.up = e.up /\ f.peer = e.peer /\ f.local = e.local
         /\ f.remote = e.remote /\ f.path = e.path /\ f.tpeer = e.tpeer
         /\ f.switching = e.switching /\ f.queueing = e.queueing /\ f.parked = e.parked
         /\ f.strict = e.strict /\ f.prefers = e.prefers /\ f.drains = e.drains
         /\ f.backgroundPaused = e.backgroundPaused /\ f.alive = e.alive
         /\ f.ended = e.ended /\ f.commits = e.commits
  PROVE  Stage(f)
<1>1. Able(f) /\ ~f.backgroundPaused /\ f.parked = <<>>
  BY DEF Stage, Able
<1>2. /\ Unswitched(e) => Unswitched(f)
      /\ Switching(e) => Switching(f)
      /\ Switched(e) => Switched(f)
  BY DEF Unswitched, Switching, Switched
<1>3. IF f.st = "upgraded" THEN Switching(f) \/ Switched(f) ELSE Unswitched(f)
  BY <1>2 DEF Stage
<1>4. /\ f.commits = IF f.local THEN {f.up} ELSE {}
      /\ f.local <=> f.st \in {"committing", "upgraded"}
      /\ f.st = "upgraded" <=> f.local /\ f.remote
      /\ f.local => f.peer # None
      /\ f.peer # None => f.peer \in f.alive
      /\ f.sdp # "none" => f.up # None
  BY DEF Stage
<1> QED BY <1>1, <1>3, <1>4 DEF Stage

\* e has just opened m.
LEMMA Handled ==
  ASSUME NEW s \in Sides, NEW e \in EndStates, Shaped(e), Stage(e),
         NEW m \in Frames, m.kind \notin {"propose", "downgrade"},
         m.kind = "committed" => m.up = e.up /\ ~e.remote,
         NEW f, f = Handle(s, e, m)
  PROVE  /\ Stage(f) /\ Calmly(e, f) /\ f.up = e.up /\ f.rx = e.rx
         /\ f.remote <=> e.remote \/ m.kind = "committed"
         /\ f.got = IF m.kind = "business" THEN Append(e.got, m.biz) ELSE e.got
         /\ f.linked = e.linked \/ (s = "app" /\ m.kind = "answer" /\ m.up = e.up
                                    /\ f.linked = e.linked \cup {m.up})
<1>1. m.kind \in {"offer", "answer", "candidate", "committed", "business"} /\ m.up \in Upgrades \cup {None}
  BY DEF Frames, Kinds
<1>2. Calmly(e, e) /\ (e.peer # None => e.up # None)
  BY TransportAssumption DEF Calmly, SameQueues, Shaped
<1>3. CASE m.kind = "candidate"
  <2>1. f = e
    BY <1>3 DEF Handle
  <2> QED BY <1>2, <1>3, <2>1
<1>4. CASE m.kind = "business"
  <2> DEFINE r == Append(e.got, m.biz)
  <2>1. f = [e EXCEPT !.got = r]
    BY <1>4 DEF Handle
  <2> HIDE DEF r
  <2>2. /\ f.st = e.st /\ f.up = e.up /\ f.peer = e.peer /\ f.local = e.local
        /\ f.remote = e.remote /\ f.sdp = e.sdp /\ f.path = e.path /\ f.tpeer = e.tpeer
        /\ f.switching = e.switching /\ f.queueing = e.queueing /\ f.parked = e.parked
        /\ f.strict = e.strict /\ f.prefers = e.prefers /\ f.drains = e.drains
        /\ f.backgroundPaused = e.backgroundPaused /\ f.rx = e.rx /\ f.alive = e.alive
        /\ f.linked = e.linked /\ f.ended = e.ended /\ f.commits = e.commits /\ f.got = r
        /\ SameQueues(e, f) /\ f.accepted = e.accepted
    BY <2>1 DEF EndStates, SameQueues
  <2>3. Stage(f)
    BY <2>2 DEF Stage, Able, Unswitched, Switching, Switched
  <2> QED BY <1>4, <2>2, <2>3 DEF Calmly, r
<1>5. CASE m.kind = "offer"
  <2>1. f = e \/ (e.peer # None /\ f = [e EXCEPT !.sdp = "offered"])
    BY <1>5 DEF Handle, HandleOffer
  <2>2. CASE f = e
    BY <1>2, <1>5, <2>2
  <2>3. CASE e.peer # None /\ f = [e EXCEPT !.sdp = "offered"]
    <3>1. /\ f.st = e.st /\ f.up = e.up /\ f.peer = e.peer /\ f.local = e.local
          /\ f.remote = e.remote /\ f.path = e.path /\ f.tpeer = e.tpeer
          /\ f.switching = e.switching /\ f.queueing = e.queueing /\ f.parked = e.parked
          /\ f.strict = e.strict /\ f.prefers = e.prefers /\ f.drains = e.drains
          /\ f.backgroundPaused = e.backgroundPaused /\ f.rx = e.rx /\ f.alive = e.alive
          /\ f.linked = e.linked /\ f.ended = e.ended /\ f.commits = e.commits /\ f.got = e.got
          /\ SameQueues(e, f) /\ f.accepted = e.accepted
      BY <2>3 DEF EndStates, SameQueues
    <3>2. Stage(f)
      BY <1>2, <2>3, <3>1, StageKept
    <3> QED BY <1>5, <3>1, <3>2 DEF Calmly
  <2> QED BY <2>1, <2>2, <2>3
<1>6. CASE m.kind = "answer"
  <2> DEFINE l == e.linked \cup {m.up}
  <2>1. f = e \/ (/\ s = "app" /\ e.peer # None /\ m.up = e.up
                  /\ f = [e EXCEPT !.sdp = "done", !.linked = l])
    BY <1>6 DEF Handle, HandleAnswer
  <2>2. CASE f = e
    BY <1>2, <1>6, <2>2
  <2>3. CASE /\ s = "app" /\ e.peer # None /\ m.up = e.up
             /\ f = [e EXCEPT !.sdp = "done", !.linked = l]
    <3> HIDE DEF l
    <3>1. /\ f.st = e.st /\ f.up = e.up /\ f.peer = e.peer /\ f.local = e.local
          /\ f.remote = e.remote /\ f.path = e.path /\ f.tpeer = e.tpeer
          /\ f.switching = e.switching /\ f.queueing = e.queueing /\ f.parked = e.parked
          /\ f.strict = e.strict /\ f.prefers = e.prefers /\ f.drains = e.drains
          /\ f.backgroundPaused = e.backgroundPaused /\ f.rx = e.rx /\ f.alive = e.alive
          /\ f.linked = l /\ f.ended = e.ended /\ f.commits = e.commits /\ f.got = e.got
          /\ SameQueues(e, f) /\ f.accepted = e.accepted
      <4> DEFINE g == [e EXCEPT !.sdp = "done"]
      <4>1. f = [g EXCEPT !.linked = l] /\ g \in EndStates
        BY <2>3, Records
      <4>2. /\ g.st = e.st /\ g.up = e.up /\ g.peer = e.peer /\ g.local = e.local
            /\ g.remote = e.remote /\ g.path = e.path /\ g.tpeer = e.tpeer
            /\ g.switching = e.switching /\ g.queueing = e.queueing /\ g.parked = e.parked
            /\ g.strict = e.strict /\ g.prefers = e.prefers /\ g.drains = e.drains
            /\ g.backgroundPaused = e.backgroundPaused /\ g.rx = e.rx /\ g.alive = e.alive
            /\ g.ended = e.ended /\ g.commits = e.commits /\ g.got = e.got
            /\ SameQueues(e, g) /\ g.accepted = e.accepted
        BY DEF EndStates, SameQueues
      <4> HIDE DEF g
      <4>3. /\ f.st = g.st /\ f.up = g.up /\ f.peer = g.peer /\ f.local = g.local
            /\ f.remote = g.remote /\ f.path = g.path /\ f.tpeer = g.tpeer
            /\ f.switching = g.switching /\ f.queueing = g.queueing /\ f.parked = g.parked
            /\ f.strict = g.strict /\ f.prefers = g.prefers /\ f.drains = g.drains
            /\ f.backgroundPaused = g.backgroundPaused /\ f.rx = g.rx /\ f.alive = g.alive
            /\ f.linked = l /\ f.ended = g.ended /\ f.commits = g.commits /\ f.got = g.got
            /\ SameQueues(g, f) /\ f.accepted = g.accepted
        BY <4>1 DEF EndStates, SameQueues
      <4> QED BY <4>2, <4>3 DEF SameQueues
    <3>2. Stage(f)
      BY <1>2, <2>3, <3>1, StageKept
    <3> QED BY <1>6, <2>3, <3>1, <3>2 DEF Calmly, l
  <2> QED BY <2>1, <2>2, <2>3
<1>7. CASE m.kind = "committed"
  <2> DEFINE g == [e EXCEPT !.remote = TRUE]
  <2>1. f = MaybeUpgrade(s, g) /\ ~e.remote
    BY <1>7 DEF Handle, HandleCommitted
  <2>2. g \in EndStates
    BY Records
  <2>3. /\ g.st = e.st /\ g.up = e.up /\ g.peer = e.peer /\ g.local = e.local
        /\ g.remote = TRUE /\ g.path = e.path /\ g.tpeer = e.tpeer /\ g.sdp = e.sdp
        /\ g.switching = e.switching /\ g.queueing = e.queueing /\ g.parked = e.parked
        /\ g.strict = e.strict /\ g.prefers = e.prefers /\ g.drains = e.drains
        /\ g.backgroundPaused = e.backgroundPaused /\ g.rx = e.rx /\ g.alive = e.alive
        /\ g.linked = e.linked /\ g.ended = e.ended /\ g.commits = e.commits /\ g.got = e.got
        /\ SameQueues(e, g) /\ g.accepted = e.accepted
    BY DEF EndStates, SameQueues
  <2> HIDE DEF g
  <2>4. Unswitched(e) /\ e.st # "upgraded"
    BY <2>1 DEF Stage
  <2>5. CASE ~e.local
    <3>1. f = g
      BY <2>1, <2>3, <2>5 DEF MaybeUpgrade
    <3>2. Stage(g)
      BY <2>3, <2>4, <2>5 DEF Stage, Able, Unswitched
    <3> QED BY <1>7, <2>3, <3>1, <3>2 DEF Calmly
  <2>6. CASE e.local
    <3>1. Unswitched(g) /\ g.outQ = <<>> /\ ~g.strict /\ g.local /\ g.remote /\ g.peer # None
      BY <2>3, <2>4, <2>6 DEF Stage, Able, Unswitched, Shaped, SameQueues
    <3>2. Begins(g, f)
      BY <2>1, <2>2, <3>1, MaybeUpgradeBegins
    <3>3. Committed(g)
      BY <1>2, <2>3, <2>6, <3>1 DEF Committed, Stage, Able, Shaped
    <3>4. g.path = "relay"
      BY <3>1 DEF Unswitched
    <3>5. Stage(f) /\ Calmly(g, f)
      BY <3>2, <3>3, <3>4, StageBegins
    <3>6. Calmly(e, f)
      BY <2>3, <3>4, <3>5 DEF Calmly, SameQueues
    <3> QED BY <1>7, <2>1, <2>3, <3>2, <3>5, <3>6 DEF Begins
  <2> QED BY <2>5, <2>6
<1> QED BY <1>1, <1>3, <1>4, <1>5, <1>6, <1>7

\* The queue of a switch, as its transport puts it on the direct path.
Emptied(s, m, q) == IF s = "app" THEN Seal(m, q) ELSE q

LEMMA DrainDispatches ==
  ASSUME NEW s \in Sides, NEW m \in EndStates, Able(m), m.path = "p2p", m.tpeer \in m.alive,
         m.direct[m.tpeer] = <<>>, NEW q \in Seq(Frames),
         NEW f, f = DispatchAll(s, m, q)
  PROVE  /\ f \in EndStates /\ Alike(m, f) /\ f.accepted = m.accepted
         /\ f.relay = m.relay /\ f.outQ = m.outQ
         /\ f.tx = IF s = "app" THEN m.tx + Len(q) ELSE m.tx
         /\ f.direct = [m.direct EXCEPT ![m.tpeer] = Emptied(s, m, q)]
<1> DEFINE t == m.tpeer
<1>1. /\ t \in Upgrades /\ t # None /\ m.direct \in [Upgrades -> Seq(Frames)] /\ m.tx \in Nat
      /\ m.ended = "no" /\ ~m.strict
  BY Parts, TransportAssumption DEF TransportAssumption, Able
<1>2. CASE q = <<>>
  <2>1. f = m
    BY <1>2 DEF DispatchAll
  <2>2. Len(q) = 0 /\ m.tx + 0 = m.tx
    BY <1>1, <1>2
  <2>3. Emptied(s, m, q) = <<>>
    <3>1. Seal(m, q) \in Seq(Frames) /\ Len(Seal(m, q)) = 0
      BY <2>2, SealTyped
    <3> QED BY <1>2, <3>1 DEF Emptied
  <2>4. [m.direct EXCEPT ![t] = <<>>] = m.direct
    BY <1>1
  <2> QED BY <2>1, <2>2, <2>3, <2>4 DEF Alike
<1>3. CASE q # <<>> /\ s = "agent"
  <2>1. f = OverDirect(m, q)
    BY <1>1, <1>3 DEF DispatchAll, AgentDispatch
  <2>2. f \in EndStates
    BY <2>1, PathsTyped
  <2>3. /\ Alike(m, f) /\ f.tx = m.tx /\ f.relay = m.relay
        /\ f.outQ = m.outQ /\ f.accepted = m.accepted
        /\ f.direct = [m.direct EXCEPT ![t] = @ \o q]
    <3> DEFINE g == OverDirect(m, q)
    <3>1. /\ Alike(m, g) /\ g.tx = m.tx /\ g.relay = m.relay
          /\ g.outQ = m.outQ /\ g.accepted = m.accepted
          /\ g.direct = [m.direct EXCEPT ![m.tpeer] = @ \o q]
      BY DirectAlike
    <3>2. f = g
      BY <2>1
    <3> HIDE DEF g
    <3> QED BY <3>1, <3>2
  <2>4. m.direct[t] \o q = q
    OBVIOUS
  <2> QED BY <1>3, <2>2, <2>3, <2>4 DEF Emptied
<1>4. CASE q # <<>> /\ s = "app"
  <2> DEFINE n == Sealed(m, q)
             p == Seal(m, q)
  <2>1. f = OverDirect(n, p)
    BY <1>1, <1>4 DEF DispatchAll, AppDispatch
  <2>2. p \in Seq(Frames)
    BY SealTyped
  <2>3. /\ n \in EndStates /\ Alike(m, n) /\ n.tx = m.tx + Len(q) /\ n.relay = m.relay
        /\ n.outQ = m.outQ /\ n.direct = m.direct /\ n.accepted = m.accepted
    BY SealedAlike
  <2> HIDE DEF n, p
  <2>4. n.tpeer = t /\ n.tpeer \in n.alive
    BY <2>3 DEF Alike
  <2>5. f \in EndStates
    BY <2>1, <2>2, <2>3, PathsTyped
  <2> DEFINE h == OverDirect(n, p)
  <2>9. /\ Alike(n, h) /\ h.tx = n.tx /\ h.relay = n.relay
        /\ h.outQ = n.outQ /\ h.accepted = n.accepted
        /\ h.direct = [n.direct EXCEPT ![n.tpeer] = @ \o p]
    BY <2>2, <2>3, <2>4, DirectAlike
  <2>6. /\ Alike(n, f) /\ f.tx = n.tx /\ f.relay = n.relay
        /\ f.outQ = n.outQ /\ f.accepted = n.accepted
        /\ f.direct = [n.direct EXCEPT ![n.tpeer] = @ \o p]
    BY <2>1, <2>9
  <2>7. m.direct[t] \o p = p
    BY <2>2
  <2>8. Alike(m, f)
    BY <2>3, <2>6, AlikeOn
  <2> QED BY <1>4, <2>3, <2>4, <2>5, <2>6, <2>7, <2>8 DEF Emptied, p
<1> QED BY <1>2, <1>3, <1>4 DEF Sides

LEMMA MovedAlike ==
  ASSUME NEW e \in EndStates, e.drains = <<"p2p">>
  PROVE  LET m == Moved(e)
         IN  /\ m \in EndStates /\ m.path = "p2p" /\ m.queueing = FALSE /\ m.outQ = <<>>
             /\ m.drains = <<>>
             /\ m.st = e.st /\ m.up = e.up /\ m.peer = e.peer /\ m.local = e.local
             /\ m.remote = e.remote /\ m.sdp = e.sdp /\ m.tpeer = e.tpeer
             /\ m.switching = e.switching /\ m.parked = e.parked
             /\ m.strict = e.strict /\ m.prefers = e.prefers
             /\ m.backgroundPaused = e.backgroundPaused /\ m.rx = e.rx /\ m.alive = e.alive
             /\ m.linked = e.linked /\ m.ended = e.ended /\ m.commits = e.commits
             /\ m.got = e.got /\ m.relay = e.relay /\ m.direct = e.direct /\ m.tx = e.tx
             /\ m.accepted = e.accepted
<1> DEFINE h == Head(e.drains)
           t == Tail(e.drains)
           m == [e EXCEPT !.path = h, !.drains = t, !.queueing = FALSE, !.outQ = <<>>]
<1>1. h = "p2p" /\ t = <<>> /\ e.drains # <<>>
  OBVIOUS
<1>2. Moved(e) = m
  BY DEF Moved
<1>3. Moved(e) \in EndStates
  BY <1>1, MovedParts
<1> HIDE DEF h, t
<1>4. /\ m.path = h /\ m.queueing = FALSE /\ m.outQ = <<>> /\ m.drains = t
      /\ m.st = e.st /\ m.up = e.up /\ m.peer = e.peer /\ m.local = e.local
      /\ m.remote = e.remote /\ m.sdp = e.sdp /\ m.tpeer = e.tpeer
      /\ m.switching = e.switching /\ m.parked = e.parked
      /\ m.strict = e.strict /\ m.prefers = e.prefers
      /\ m.backgroundPaused = e.backgroundPaused /\ m.rx = e.rx /\ m.alive = e.alive
      /\ m.linked = e.linked /\ m.ended = e.ended /\ m.commits = e.commits
      /\ m.got = e.got /\ m.relay = e.relay /\ m.direct = e.direct /\ m.tx = e.tx
      /\ m.accepted = e.accepted
  BY DEF EndStates
<1> QED BY <1>1, <1>2, <1>3, <1>4

\* The end of a drain that outlasted what was under way.
LEMMA DrainSwitches ==
  ASSUME NEW s \in Sides, NEW e \in EndStates, Stage(e), Speech(e), Switching(e),
         NEW n \in Nat, InOrder(s, e, n), e.relay = <<>>,
         \A u \in Upgrades : e.direct[u] = <<>>,
         \A x \in ToSet(e.outQ) : x.kind # "propose",
         NEW f, f = AfterDrain(s, e)
  PROVE  /\ Stage(f) /\ Speech(f) /\ InOrder(s, f, n) /\ ~Saying(f)
         /\ f.local = e.local /\ f.remote = e.remote /\ f.up = e.up /\ f.rx = e.rx
         /\ f.linked = e.linked /\ f.got = e.got /\ f.accepted = e.accepted
         /\ \A x \in Carried(e) : \E y \in Carried(f) : y.biz = x.biz
<1> DEFINE q == e.outQ
           t == e.tpeer
           m == Moved(e)
           g == DispatchAll(s, m, q)
           p == Emptied(s, m, q)
           c == [g EXCEPT !.parked = <<>>]
           w == [c EXCEPT !.switching = FALSE]
<1>1. /\ q \in Seq(Frames) /\ e.direct \in [Upgrades -> Seq(Frames)] /\ e.tx \in Nat
      /\ e.alive \subseteq Upgrades
  BY Parts
<1>2. /\ e.path = "relay" /\ t = e.up /\ t \in e.alive /\ t \in Upgrades
      /\ e.drains = <<"p2p">> /\ e.parked = <<>> /\ Able(e)
  BY <1>1 DEF Switching, Stage
<1>3. /\ m \in EndStates /\ m.path = "p2p" /\ m.queueing = FALSE /\ m.outQ = <<>>
      /\ m.drains = <<>>
      /\ m.st = e.st /\ m.up = e.up /\ m.peer = e.peer /\ m.local = e.local
      /\ m.remote = e.remote /\ m.sdp = e.sdp /\ m.tpeer = e.tpeer
      /\ m.switching = e.switching /\ m.parked = e.parked
      /\ m.strict = e.strict /\ m.prefers = e.prefers
      /\ m.backgroundPaused = e.backgroundPaused /\ m.rx = e.rx /\ m.alive = e.alive
      /\ m.linked = e.linked /\ m.ended = e.ended /\ m.commits = e.commits
      /\ m.got = e.got /\ m.relay = e.relay /\ m.direct = e.direct /\ m.tx = e.tx
      /\ m.accepted = e.accepted
  BY <1>2, MovedAlike
<1> HIDE DEF m
<1>4. Able(m) /\ m.direct[m.tpeer] = <<>>
  BY <1>2, <1>3 DEF Able
<1>5. /\ g \in EndStates /\ Alike(m, g) /\ g.accepted = m.accepted
      /\ g.relay = m.relay /\ g.outQ = m.outQ
      /\ g.tx = IF s = "app" THEN m.tx + Len(q) ELSE m.tx
      /\ g.direct = [m.direct EXCEPT ![m.tpeer] = p]
  BY <1>1, <1>2, <1>3, <1>4, DrainDispatches
<1>6. AfterDrain(s, e) = w
  <2>1. g.parked = <<>>
    BY <1>2, <1>3, <1>5 DEF Alike
  <2>2. Head(e.drains) = "p2p"
    BY <1>2
  <2>3. DispatchAll(s, c, g.parked) = c
    BY <2>1 DEF DispatchAll
  <2> QED BY <2>2, <2>3 DEF AfterDrain, Moved, m
<1>7. /\ Len(p) = Len(q) /\ p \in Seq(Frames)
      /\ \A i \in 1..Len(q) : p[i].kind = q[i].kind /\ p[i].up = q[i].up /\ p[i].biz = q[i].biz
  BY <1>1, <1>3, SealTyped DEF Emptied
<1>8. Run(p, n, g.tx)
  <2>1. CASE s = "app"
    <3>1. Run(Seal(m, q), m.tx, m.tx + Len(q))
      BY <1>1, <1>3, RunSeal
    <3>2. n = e.tx
      <4>1. Spread(<<>>, n, e.tx)
        BY <1>2, <2>1 DEF InOrder
      <4> QED BY <1>1, <4>1, SpreadNone
    <3> QED BY <1>3, <1>5, <2>1, <3>1, <3>2 DEF Emptied
  <2>2. CASE s = "agent"
    <3>1. PICK k \in Nat : Spread(<<>>, n, k) /\ Run(q, k, e.tx)
      BY <1>2, <2>2 DEF InOrder
    <3>2. k = n
      BY <3>1, SpreadNone
    <3> QED BY <1>3, <1>5, <2>2, <3>1, <3>2 DEF Emptied
  <2> QED BY <2>1, <2>2 DEF Sides
<1> HIDE DEF g, p
<1>9. /\ w.switching = FALSE /\ w.parked = <<>>
      /\ w.st = g.st /\ w.up = g.up /\ w.peer = g.peer /\ w.local = g.local
      /\ w.remote = g.remote /\ w.sdp = g.sdp /\ w.tpeer = g.tpeer /\ w.path = g.path
      /\ w.queueing = g.queueing /\ w.drains = g.drains /\ w.outQ = g.outQ
      /\ w.strict = g.strict /\ w.prefers = g.prefers
      /\ w.backgroundPaused = g.backgroundPaused /\ w.rx = g.rx /\ w.alive = g.alive
      /\ w.linked = g.linked /\ w.ended = g.ended /\ w.commits = g.commits
      /\ w.got = g.got /\ w.relay = g.relay /\ w.direct = g.direct /\ w.tx = g.tx
      /\ w.accepted = g.accepted
  BY <1>5 DEF EndStates
<1> HIDE DEF w
<1>10. f = w
  BY <1>6
<1>11. /\ f.relay = <<>> /\ f.outQ = <<>> /\ f.path = "p2p" /\ f.tpeer = t /\ f.up = e.up
       /\ f.direct = [e.direct EXCEPT ![t] = p] /\ f.tx = g.tx /\ f.parked = <<>>
       /\ f.local = e.local /\ f.remote = e.remote /\ f.rx = e.rx
       /\ f.linked = e.linked /\ f.got = e.got /\ f.accepted = e.accepted
  BY <1>3, <1>5, <1>9, <1>10 DEF Alike
<1>12. Stage(f)
  <2>1. e.st = "upgraded"
    BY <1>2 DEF Stage, Switching, Unswitched
  <2>2. Switched(f)
    BY <1>2, <1>3, <1>5, <1>9, <1>10 DEF Alike, Switched
  <2>3. /\ f.st = e.st /\ f.up = e.up /\ f.peer = e.peer /\ f.local = e.local
        /\ f.remote = e.remote /\ f.sdp = e.sdp /\ f.parked = e.parked
        /\ f.strict = e.strict /\ f.prefers = e.prefers /\ f.alive = e.alive
        /\ f.backgroundPaused = e.backgroundPaused /\ f.ended = e.ended
        /\ f.commits = e.commits
    BY <1>2, <1>3, <1>5, <1>9, <1>10 DEF Alike
  <2> QED BY <2>1, <2>2, <2>3 DEF Stage, Able
<1>13. f.direct[t] = p /\ \A u \in Upgrades \ {t} : f.direct[u] = <<>>
  BY <1>1, <1>2, <1>11
<1>14. /\ ToSet(p) = {p[i] : i \in 1..Len(q)} /\ ToSet(q) = {q[i] : i \in 1..Len(q)}
       /\ ToSet(<<>>) = {}
  BY <1>1, <1>7, Elements, NoFrame
<1>15. InOrder(s, f, n)
  BY <1>8, <1>11, <1>13, SpreadNone DEF InOrder
<1>16. ~Saying(f)
  BY <1>11, <1>14 DEF Saying
<1>17. Speech(f)
  <2>1. \A x \in ToSet(q) : Apt(x, e.up) /\ x.kind # "committed"
    BY DEF Speech
  <2>2. \A x \in ToSet(p) : Apt(x, e.up) /\ x.kind # "committed"
    BY <1>7, <1>14, <2>1 DEF Apt
  <2>3. \A u \in Upgrades : \A x \in ToSet(f.direct[u]) : Apt(x, e.up) /\ x.kind # "committed"
    BY <1>13, <1>14, <2>2
  <2>4. OneCommit(<<>>)
    <3>1. Len(<<>>) = 0 /\ 1..0 = {}
      OBVIOUS
    <3> QED BY <3>1 DEF OneCommit
  <2> QED BY <1>11, <1>14, <2>3, <2>4 DEF Speech
<1>18. \A x \in Carried(e) : \E y \in Carried(f) : y.biz = x.biz
  <2>1. UNION {ToSet(e.direct[u]) : u \in Upgrades} = {}
    BY <1>14
  <2>2. Carried(e) = ToSet(q)
    BY <1>2, <1>14, <2>1 DEF Carried, Held
  <2>3. ToSet(p) \subseteq Carried(f)
    BY <1>2, <1>13 DEF Carried, Held
  <2> QED BY <1>7, <1>14, <2>2, <2>3
<1> QED BY <1>11, <1>12, <1>15, <1>16, <1>17, <1>18

-----------------------------------------------------------------------------
(* Steps of an undisturbed upgrade.                                        *)

LEMMA CalmAt ==
  ASSUME IInv, CalmInv, NEW s \in Sides
  PROVE  /\ Stage(end[s]) /\ Speech(end[s]) /\ Shaped(end[s])
         /\ Pair(s, end[s], end[Other(s)], end["app"].linked)
         /\ end[s] \in EndStates /\ end[s].rx \in Nat /\ Ready(end[s])
         /\ end["app"].linked \subseteq Upgrades
         /\ \A u \in end["app"].linked : u = end[s].up
         /\ \A x \in ToSet(end[s].outQ) : x.kind # "propose"
         /\ s = "app" => NoneLost(end[s], end[Other(s)].got)
         /\ s = "agent" => NoneLost(end[Other(s)], end[s].got)
         /\ Other(s) \in Sides /\ Other(s) # s /\ Other(Other(s)) = s
<1>1. /\ Fit(s, end[s], end[Other(s)].commits) /\ end[s] \in EndStates
      /\ end["app"] \in EndStates /\ "app" \in Sides
  BY IInvOf DEF Sides
<1>2. end["app"].linked \subseteq Upgrades /\ end[s].rx \in Nat
  BY <1>1, Parts
<1>3. Stage(end[s]) /\ Shaped(end[s])
  BY <1>1 DEF CalmInv, Fit
<1>4. Ready(end[s])
  BY <1>3, ReadyStage
<1>5. \A x \in ToSet(end[s].outQ) : x.kind # "propose"
  BY <1>1 DEF Fit, Backed, Held
<1>6. \A u \in end["app"].linked : u = end[s].up
  BY DEF CalmInv, Sides
<1>7. /\ s = "app" => NoneLost(end[s], end[Other(s)].got)
      /\ s = "agent" => NoneLost(end[Other(s)], end[s].got)
  BY DEF CalmInv, Other
<1> QED BY <1>1, <1>2, <1>3, <1>4, <1>5, <1>6, <1>7 DEF CalmInv, Other, Sides

\* What an end has heard the other say it has committed, it has.
LEMMA HeardSaid ==
  ASSUME IInv, CalmInv, NEW s \in Sides, end[Other(s)].remote
  PROVE  end[s].local
<1>1. /\ Other(s) \in Sides /\ Other(Other(s)) = s /\ Stage(end[s])
  BY CalmAt
<1>2. Fit(Other(s), end[Other(s)], end[s].commits)
  BY <1>1, IInvOf
<1>3. end[s].commits # {}
  BY <1>2 DEF Fit, Backed
<1> QED BY <1>1, <1>3 DEF Stage

LEMMA CalmOf ==
  ASSUME NEW s \in Sides, NEW a, NEW b, end'[s] = a, end'[Other(s)] = b,
         Stage(a), Speech(a), Pair(s, a, b, end'["app"].linked),
         Stage(b), Speech(b), Pair(Other(s), b, a, end'["app"].linked),
         \A u \in end'["app"].linked : u = a.up /\ u = b.up,
         s = "app" => NoneLost(a, b.got), s = "agent" => NoneLost(b, a.got)
  PROVE  CalmInv'
<1>1. Sides = {s, Other(s)} /\ Other(Other(s)) = s /\ s \in {"app", "agent"}
  BY DEF Sides, Other
<1>2. \A t \in Sides : /\ Stage(end'[t]) /\ Speech(end'[t])
                       /\ Pair(t, end'[t], end'[Other(t)], end'["app"].linked)
  BY <1>1
<1>3. \A u \in end'["app"].linked : u = end'["app"].up /\ u = end'["agent"].up
  BY <1>1 DEF Other
<1>4. NoneLost(end'["app"], end'["agent"].got)
  BY <1>1 DEF Other
<1> QED BY <1>2, <1>3, <1>4 DEF CalmInv

LEMMA PairLater ==
  ASSUME NEW s, NEW e, NEW f, NEW o, NEW p, NEW L, NEW M, Pair(s, e, o, L), L \subseteq M,
         Calmly(e, f), p.remote = o.remote, p.rx = o.rx
  PROVE  Pair(s, f, p, M)
<1>1. Saying(f) <=> Saying(e)
  BY DEF Calmly, SameQueues, Saying
<1>2. InOrder(s, f, p.rx)
  BY OrderOf DEF Calmly, Pair
<1> QED BY <1>1, <1>2 DEF Pair, Calmly

LEMMA NoneLostLater ==
  ASSUME NEW e, NEW f, NEW got, NEW gone, NEW m, NoneLost(e, got), e.accepted \in Nat,
         f.accepted = e.accepted, Carried(e) \subseteq Carried(f) \cup {m},
         ToSet(got) \subseteq ToSet(gone), m.biz = 0 \/ m.biz \in ToSet(gone)
  PROVE  NoneLost(f, gone)
<1>1. ASSUME NEW n \in 1..e.accepted
      PROVE  n \in {x.biz : x \in Carried(f)} \cup ToSet(gone)
  <2>1. n # 0
    OBVIOUS
  <2>2. CASE n \in ToSet(got)
    BY <2>2
  <2>3. CASE n \notin ToSet(got)
    <3>1. PICK x \in Carried(e) : n = x.biz
      BY <2>3 DEF NoneLost
    <3> QED BY <2>1, <3>1
  <2> QED BY <2>2, <2>3
<1> QED BY <1>1 DEF NoneLost

\* One end moves, and hears nothing.
LEMMA OneEndCalm ==
  ASSUME IInv, CalmInv, NEW s \in Sides, NEW f, Becomes(s, f),
         Stage(f), Speech(f), Pair(s, f, end[Other(s)], end["app"].linked),
         f.up = end[s].up, f.remote = end[s].remote, f.rx = end[s].rx,
         f.linked = end[s].linked, f.got = end[s].got,
         s = "app" => NoneLost(f, end[Other(s)].got)
  PROVE  CalmInv'
<1> DEFINE o == Other(s)
           L == end["app"].linked
<1>1. o \in Sides /\ o # s /\ Other(o) = s /\ end \in [Sides -> EndStates]
  BY CalmAt, IInvOf
<1>2. end'[s] = f /\ end'[o] = end[o]
  BY <1>1 DEF Becomes
<1>3. end'["app"].linked = L
  BY <1>1, <1>2 DEF Sides, Other
<1>4. /\ Stage(end[o]) /\ Speech(end[o]) /\ Pair(o, end[o], end[s], L)
      /\ \A u \in L : u = end[o].up
      /\ o = "app" => NoneLost(end[o], end[s].got)
  BY <1>1, CalmAt
<1>5. \A u \in L : u = end[s].up
  BY CalmAt
<1>6. Pair(o, end[o], f, L)
  BY <1>4 DEF Pair
<1>7. s = "agent" => o = "app"
  BY DEF Other
<1> HIDE DEF o, L
<1>8. s = "agent" => NoneLost(end[o], f.got)
  BY <1>4, <1>7
<1>9. Pair(s, f, end[o], L)
  BY DEF o, L
<1>10. s = "app" => NoneLost(f, end[o].got)
  BY DEF o
<1> QED BY <1>2, <1>3, <1>4, <1>5, <1>6, <1>8, <1>9, <1>10, CalmOf DEF o

\* One end says x, which is no commit.
LEMMA SaysCalm ==
  ASSUME IInv, CalmInv, NEW s \in Sides, NEW g, NEW x, Utters(s, end[s], g, x),
         x.kind # "committed", Apt(x, end[s].up),
         \/ g.accepted = end[s].accepted
         \/ g.accepted = end[s].accepted + 1 /\ x.biz = g.accepted
  PROVE  /\ Stage(g) /\ Speech(g) /\ Pair(s, g, end[Other(s)], end["app"].linked)
         /\ Alike(end[s], g)
         /\ s = "app" => NoneLost(g, end[Other(s)].got)
<1> DEFINE e == end[s]
           o == end[Other(s)]
           L == end["app"].linked
<1>1. /\ Stage(e) /\ Speech(e) /\ Pair(s, e, o, L) /\ e \in EndStates /\ o.rx \in Nat
      /\ e.accepted \in Nat /\ (s = "app" => NoneLost(e, o.got))
  BY CalmAt, Parts
<1> HIDE DEF e, o, L
<1>2. Utters(s, e, g, x) /\ Apt(x, e.up)
  BY DEF e
<1>3. Alike(e, g)
  BY <1>2 DEF Utters
<1>4. Stage(g)
  BY <1>1, <1>3, StageAlike
<1>5. Speech(g) /\ Carried(g) = Carried(e) \cup {x} /\ (Saying(g) <=> Saying(e))
  BY <1>1, <1>2, UttersSpeech
<1>6. InOrder(s, g, o.rx)
  BY <1>1, <1>2, UttersOrder DEF Pair
<1>7. Pair(s, g, o, L)
  BY <1>1, <1>3, <1>5, <1>6 DEF Pair, Alike
<1>8. ASSUME s = "app" PROVE NoneLost(g, o.got)
  <2>1. 1..e.accepted \subseteq {y.biz : y \in Carried(e)} \cup ToSet(o.got)
    BY <1>1, <1>8 DEF NoneLost
  <2>2. {y.biz : y \in Carried(e)} \cup {x.biz} = {y.biz : y \in Carried(g)}
    BY <1>5
  <2>3. 1..g.accepted \subseteq 1..e.accepted \cup {x.biz}
    <3>1. CASE g.accepted = e.accepted
      BY <3>1
    <3>2. CASE g.accepted = e.accepted + 1 /\ x.biz = g.accepted
      BY <1>1, <3>2
    <3> QED BY <3>1, <3>2 DEF e
  <2> QED BY <2>1, <2>2, <2>3 DEF NoneLost
<1> QED BY <1>3, <1>4, <1>5, <1>7, <1>8 DEF e, o, L

LEMMA SayCalm ==
  ASSUME IInv, CalmInv, NEW s \in Sides, Say(s)
  PROVE  CalmInv'
<1> DEFINE f == SendBusiness(s, end[s])
<1>1. end[s] \in EndStates /\ Ready(end[s])
  BY CalmAt
<1>2. Becomes(s, f)
  BY DEF Say
<1>3. /\ f.accepted = end[s].accepted + 1
      /\ \E x : Utters(s, end[s], f, x) /\ x.kind = "business" /\ x.biz = end[s].accepted + 1
  BY <1>1, BusinessUtters
<1> HIDE DEF f
<1>4. PICK x : Utters(s, end[s], f, x) /\ x.kind = "business" /\ x.biz = end[s].accepted + 1
  BY <1>3
<1>5. Apt(x, end[s].up)
  BY <1>4 DEF Apt
<1>6. /\ Stage(f) /\ Speech(f) /\ Pair(s, f, end[Other(s)], end["app"].linked)
      /\ Alike(end[s], f) /\ (s = "app" => NoneLost(f, end[Other(s)].got))
  BY <1>3, <1>4, <1>5, SaysCalm
<1> QED BY <1>2, <1>6, OneEndCalm DEF Alike

\* One end sends a frame of its coordinator that is no commit.
LEMMA ControlCalm ==
  ASSUME IInv, CalmInv, NEW s \in Sides, NEW k \in {"offer", "answer", "candidate"},
         end[s].up # None, s = "app" => end[s].path # "p2p"
  PROVE  LET g == SendControl(s, end[s], k)
         IN  /\ Stage(g) /\ Speech(g) /\ Pair(s, g, end[Other(s)], end["app"].linked)
             /\ Alike(end[s], g) /\ g \in EndStates
             /\ s = "app" => NoneLost(g, end[Other(s)].got)
<1> DEFINE g == SendControl(s, end[s], k)
<1>1. end[s] \in EndStates /\ Ready(end[s]) /\ k \in Kinds \ {"propose", "business"}
  BY CalmAt DEF Kinds
<1>2. g.accepted = end[s].accepted
      /\ \E x : Utters(s, end[s], g, x) /\ x.kind = k /\ x.up = end[s].up /\ x.biz = 0
  BY <1>1, ControlUtters
<1>3. g \in EndStates
  <2>1. /\ Fit(s, end[s], end[Other(s)].commits) /\ end[Other(s)].commits \in SUBSET Upgrades
    BY IInvOf
  <2>2. Fit(s, g, end[Other(s)].commits)
    BY <1>1, <2>1, SendControlFits
  <2> QED BY <2>2 DEF Fit, Shaped
<1> HIDE DEF g
<1>4. PICK x : Utters(s, end[s], g, x) /\ x.kind = k /\ x.up = end[s].up /\ x.biz = 0
  BY <1>2
<1>5. Apt(x, end[s].up) /\ x.kind # "committed"
  BY <1>4 DEF Apt
<1>6. /\ Stage(g) /\ Speech(g) /\ Pair(s, g, end[Other(s)], end["app"].linked)
      /\ Alike(end[s], g) /\ (s = "app" => NoneLost(g, end[Other(s)].got))
  BY <1>2, <1>4, <1>5, SaysCalm
<1> QED BY <1>3, <1>6 DEF g

LEMMA FindCandidateCalm ==
  ASSUME IInv, CalmInv, Undisturbed, NEW s \in Sides, FindCandidate(s)
  PROVE  CalmInv'
<1> DEFINE g == SendControl(s, end[s], "candidate")
<1>1. Becomes(s, g) /\ end[s].peer # None /\ (s = "app" => end[s].path # "p2p")
  BY DEF FindCandidate, Undisturbed
<1>2. end[s].up # None
  BY <1>1, CalmAt DEF Shaped
<1>3. /\ Stage(g) /\ Speech(g) /\ Pair(s, g, end[Other(s)], end["app"].linked)
      /\ Alike(end[s], g) /\ (s = "app" => NoneLost(g, end[Other(s)].got))
  BY <1>1, <1>2, ControlCalm
<1> HIDE DEF g
<1> QED BY <1>1, <1>3, OneEndCalm DEF Alike

\* Only the state, the SDP or the peer connection of an end changes.
LEMMA TouchedCalm ==
  ASSUME IInv, CalmInv, NEW s \in Sides, NEW g, NEW f, Becomes(s, f),
         Speech(g), Pair(s, g, end[Other(s)], end["app"].linked), Alike(end[s], g),
         s = "app" => NoneLost(g, end[Other(s)].got),
         Stage(f), Calmly(g, f), f.up = g.up, f.remote = g.remote, f.rx = g.rx,
         f.linked = g.linked, f.got = g.got, g.accepted \in Nat
  PROVE  CalmInv'
<1>1. Speech(f)
  BY SpeechOf DEF Calmly
<1>2. Pair(s, f, end[Other(s)], end["app"].linked)
  BY PairLater
<1>3. Carried(f) = Carried(g)
  BY CarriedOf DEF Calmly
<1>4. s = "app" => NoneLost(f, end[Other(s)].got)
  BY <1>3 DEF NoneLost, Calmly
<1> QED BY <1>1, <1>2, <1>4, OneEndCalm DEF Alike

LEMMA SendOfferCalm == IInv /\ CalmInv /\ SendOffer => CalmInv'
<1> SUFFICES ASSUME IInv, CalmInv, SendOffer PROVE CalmInv'
  OBVIOUS
<1> DEFINE s == "app"
           e == end[s]
           g == SendControl(s, e, "offer")
           f == [g EXCEPT !.st = "negotiating"]
<1>1. s \in Sides /\ e.st = "proposed" /\ Becomes(s, f)
  BY DEF Sides, SendOffer
<1>2. Stage(e) /\ Shaped(e)
  BY <1>1, CalmAt
<1>3. e.up # None /\ e.path # "p2p"
  BY <1>1, <1>2 DEF Stage, Shaped, Unswitched
<1>4. /\ Stage(g) /\ Speech(g) /\ Pair(s, g, end[Other(s)], end["app"].linked)
      /\ Alike(e, g) /\ g \in EndStates /\ (s = "app" => NoneLost(g, end[Other(s)].got))
  BY <1>1, <1>3, ControlCalm
<1> HIDE DEF g
<1>5. /\ f.st = "negotiating" /\ f.up = g.up /\ f.peer = g.peer /\ f.local = g.local
      /\ f.remote = g.remote /\ f.sdp = g.sdp /\ f.path = g.path /\ f.tpeer = g.tpeer
      /\ f.switching = g.switching /\ f.queueing = g.queueing /\ f.parked = g.parked
      /\ f.strict = g.strict /\ f.prefers = g.prefers /\ f.drains = g.drains
      /\ f.backgroundPaused = g.backgroundPaused /\ f.rx = g.rx /\ f.alive = g.alive
      /\ f.linked = g.linked /\ f.ended = g.ended /\ f.commits = g.commits /\ f.got = g.got
      /\ SameQueues(g, f) /\ f.accepted = g.accepted
  BY <1>4 DEF EndStates, SameQueues
<1>6. g.st = "proposed" /\ g.accepted \in Nat
  BY <1>1, <1>4, Parts DEF Alike
<1> HIDE DEF f
<1>7. Stage(f)
  BY <1>4, <1>5, <1>6 DEF Stage, Able, Unswitched
<1>8. Calmly(g, f)
  BY <1>5 DEF Calmly
<1> HIDE DEF s
<1> QED BY <1>1, <1>4, <1>5, <1>6, <1>7, <1>8, TouchedCalm

LEMMA SendAnswerCalm == IInv /\ CalmInv /\ SendAnswer => CalmInv'
<1> SUFFICES ASSUME IInv, CalmInv, SendAnswer PROVE CalmInv'
  OBVIOUS
<1> DEFINE s == "agent"
           e == end[s]
           g == SendControl(s, e, "answer")
           f == [g EXCEPT !.sdp = "done"]
<1>1. s \in Sides /\ e.sdp = "offered" /\ Becomes(s, f)
  BY DEF Sides, SendAnswer
<1>2. Stage(e)
  BY <1>1, CalmAt
<1>3. e.up # None
  BY <1>1, <1>2 DEF Stage
<1>4. /\ Stage(g) /\ Speech(g) /\ Pair(s, g, end[Other(s)], end["app"].linked)
      /\ Alike(e, g) /\ g \in EndStates
  BY <1>1, <1>3, ControlCalm
<1> HIDE DEF g
<1>5. /\ f.st = g.st /\ f.up = g.up /\ f.peer = g.peer /\ f.local = g.local
      /\ f.remote = g.remote /\ f.path = g.path /\ f.tpeer = g.tpeer
      /\ f.switching = g.switching /\ f.queueing = g.queueing /\ f.parked = g.parked
      /\ f.strict = g.strict /\ f.prefers = g.prefers /\ f.drains = g.drains
      /\ f.backgroundPaused = g.backgroundPaused /\ f.rx = g.rx /\ f.alive = g.alive
      /\ f.linked = g.linked /\ f.ended = g.ended /\ f.commits = g.commits /\ f.got = g.got
      /\ SameQueues(g, f) /\ f.accepted = g.accepted
  BY <1>4 DEF EndStates, SameQueues
<1>6. g.up # None /\ g.accepted \in Nat
  BY <1>3, <1>4, Parts DEF Alike
<1> HIDE DEF f
<1>7. Stage(f)
  BY <1>4, <1>5, <1>6 DEF Stage, Able, Unswitched, Switching, Switched
<1>8. Calmly(g, f)
  BY <1>5 DEF Calmly
<1>9. s # "app"
  OBVIOUS
<1> HIDE DEF s
<1> QED BY <1>1, <1>4, <1>5, <1>6, <1>7, <1>8, <1>9, TouchedCalm

LEMMA MakePeerCalm ==
  ASSUME IInv, CalmInv, NEW s \in Sides, MakePeer(s)
  PROVE  CalmInv'
<1> DEFINE e == end[s]
           p == e.up
           l == e.alive \cup {e.up}
           k == IF s = "agent" THEN "negotiating" ELSE e.st
           f == [e EXCEPT !.peer = p, !.alive = l, !.st = k]
<1>1. e.st = "proposed" /\ Becomes(s, f)
  BY DEF MakePeer
<1>2. /\ Stage(e) /\ Speech(e) /\ Shaped(e) /\ Pair(s, e, end[Other(s)], end["app"].linked)
      /\ e \in EndStates /\ (s = "app" => NoneLost(e, end[Other(s)].got))
  BY CalmAt
<1>3. k \in {"proposed", "negotiating"} /\ p \in l /\ e.accepted \in Nat /\ p # None
  BY <1>1, <1>2, Parts DEF Shaped
<1>4. Alike(e, e)
  BY DEF Alike
<1> HIDE DEF e, p, l, k
<1>5. /\ f.st = k /\ f.up = e.up /\ f.peer = p /\ f.local = e.local
      /\ f.remote = e.remote /\ f.path = e.path /\ f.tpeer = e.tpeer /\ f.sdp = e.sdp
      /\ f.switching = e.switching /\ f.queueing = e.queueing /\ f.parked = e.parked
      /\ f.strict = e.strict /\ f.prefers = e.prefers /\ f.drains = e.drains
      /\ f.backgroundPaused = e.backgroundPaused /\ f.rx = e.rx /\ f.alive = l
      /\ f.linked = e.linked /\ f.ended = e.ended /\ f.commits = e.commits /\ f.got = e.got
      /\ SameQueues(e, f) /\ f.accepted = e.accepted
  BY <1>2 DEF EndStates, SameQueues
<1> HIDE DEF f
<1>6. Stage(f)
  BY <1>1, <1>2, <1>3, <1>5 DEF Stage, Able, Unswitched
<1>7. Calmly(e, f)
  BY <1>5 DEF Calmly
<1> QED BY <1>1, <1>2, <1>3, <1>4, <1>5, <1>6, <1>7, TouchedCalm DEF e

LEMMA ConnectedCalm ==
  ASSUME IInv, CalmInv, NEW s \in Sides, Connected(s)
  PROVE  CalmInv'
<1> DEFINE e == end[s]
           o == end[Other(s)]
           L == end["app"].linked
           k == e.commits \cup {e.up}
           c == [e EXCEPT !.local = TRUE, !.st = "committing", !.commits = k]
           g == SendControl(s, c, "committed")
           f == MaybeUpgrade(s, g)
<1>1. /\ e.st = "negotiating" /\ e.peer \in L /\ Becomes(s, f)
  BY DEF Connected
<1>2. /\ Stage(e) /\ Speech(e) /\ Shaped(e) /\ Pair(s, e, o, L) /\ e \in EndStates
      /\ o.rx \in Nat /\ L \subseteq Upgrades /\ e.accepted \in Nat
      /\ (s = "app" => NoneLost(e, o.got))
  BY CalmAt, Parts
<1>3. ~o.remote \/ e.local
  BY HeardSaid
<1> HIDE DEF e, o, L
<1>4. /\ ~e.local /\ Unswitched(e) /\ e.commits = {} /\ e.outQ = <<>>
      /\ e.peer # None /\ e.peer = e.up /\ e.up # None /\ e.peer \in e.alive
  <2>1. e.peer # None
    BY <1>1, <1>2, TransportAssumption DEF TransportAssumption
  <2>2. ~e.local /\ Unswitched(e)
    BY <1>1, <1>2 DEF Stage
  <2> QED BY <1>2, <2>1, <2>2 DEF Stage, Shaped, Unswitched
<1>5. k = {e.up} /\ e.up \in Upgrades
  BY <1>2, <1>4, Parts
<1> HIDE DEF k
<1>6. /\ c.st = "committing" /\ c.up = e.up /\ c.peer = e.peer /\ c.local = TRUE
      /\ c.remote = e.remote /\ c.sdp = e.sdp /\ c.path = e.path /\ c.tpeer = e.tpeer
      /\ c.switching = e.switching /\ c.queueing = e.queueing /\ c.parked = e.parked
      /\ c.strict = e.strict /\ c.prefers = e.prefers /\ c.drains = e.drains
      /\ c.backgroundPaused = e.backgroundPaused /\ c.rx = e.rx /\ c.alive = e.alive
      /\ c.linked = e.linked /\ c.ended = e.ended /\ c.commits = k /\ c.got = e.got
      /\ SameQueues(e, c) /\ c.accepted = e.accepted
  BY <1>2 DEF EndStates, SameQueues
<1>7. c \in EndStates
  <2> DEFINE a == [e EXCEPT !.local = TRUE]
             b == [a EXCEPT !.st = "committing"]
             d == [b EXCEPT !.commits = k]
  <2>1. c = d
    BY <1>2 DEF EndStates
  <2>2. a \in EndStates
    BY <1>2, Records
  <2> HIDE DEF a, c
  <2>3. b \in EndStates
    BY <2>2, Records DEF CoordinatorStates
  <2> HIDE DEF b
  <2>4. k \in SUBSET Upgrades
    BY <1>5
  <2>5. d \in EndStates
    BY <2>3, <2>4, Records
  <2> QED BY <2>1, <2>5
<1> HIDE DEF c
<1>8. Unswitched(c) /\ Able(c) /\ c.outQ = <<>> /\ c.path # "p2p"
  BY <1>2, <1>4, <1>6 DEF Unswitched, Able, Stage, SameQueues
<1>9. Ready(c) /\ "committed" \in Kinds \ {"propose", "business"}
  BY <1>8 DEF Ready, Kinds
<1>10. /\ g.accepted = c.accepted
       /\ \E x : /\ Utters(s, c, g, x) /\ (Unswitched(c) => OnRelay(c, g, x) /\ g \in EndStates)
                 /\ x.kind = "committed" /\ x.up = c.up /\ x.biz = 0
  BY <1>7, <1>8, <1>9, ControlUtters
<1> HIDE DEF g
<1>11. PICK x : /\ Utters(s, c, g, x) /\ OnRelay(c, g, x) /\ g \in EndStates
                /\ x.kind = "committed" /\ x.up = c.up /\ x.biz = 0
  BY <1>8, <1>10
<1>12. ~Saying(e) /\ ~o.remote
  BY <1>2, <1>3, <1>4 DEF Pair
<1>13. Speech(c) /\ ~Saying(c) /\ InOrder(s, c, o.rx) /\ Carried(c) = Carried(e)
  BY <1>2, <1>4, <1>6, <1>12, SpeechOf, OrderOf, CarriedOf DEF Pair, Unswitched
<1>14. Apt(x, c.up)
  BY <1>4, <1>6, <1>11 DEF Apt
<1>15. /\ Speech(g) /\ Saying(g) /\ Carried(g) = Carried(c) \cup {x}
       /\ InOrder(s, g, o.rx)
  <2>1. /\ Speech(g) /\ Carried(g) = Carried(c) \cup {x}
        /\ Saying(g) <=> Saying(c) \/ x.kind = "committed"
    BY <1>7, <1>11, <1>13, <1>14, UttersSpeech
  <2>2. InOrder(s, g, o.rx)
    BY <1>2, <1>7, <1>11, <1>13, UttersOrder
  <2> QED BY <1>11, <2>1, <2>2
<1>16. /\ Alike(c, g) /\ g.outQ = <<>>
  BY <1>8, <1>11 DEF Utters, OnRelay
<1>17. Stage(f) /\ Calmly(g, f) /\ f.up = e.up /\ f.remote = e.remote /\ f.rx = e.rx
       /\ f.linked = e.linked /\ f.got = e.got
  <2>1. CASE ~g.remote
    <3>1. f = g
      BY <2>1 DEF MaybeUpgrade
    <3>2. Stage(g)
      BY <1>2, <1>4, <1>5, <1>6, <1>8, <1>16, <2>1 DEF Stage, Alike, Able, Unswitched
    <3>3. Calmly(g, g)
      BY DEF Calmly, SameQueues
    <3> QED BY <1>6, <1>16, <3>1, <3>2, <3>3 DEF Alike
  <2>2. CASE g.remote
    <3>1. Unswitched(g) /\ ~g.strict /\ g.local /\ g.peer # None /\ g.path = "relay"
      BY <1>4, <1>6, <1>8, <1>16 DEF Alike, Unswitched, Able
    <3>2. Begins(g, f)
      BY <1>11, <1>16, <2>2, <3>1, MaybeUpgradeBegins
    <3>3. Committed(g)
      BY <1>2, <1>4, <1>5, <1>6, <1>8, <1>16, <2>2 DEF Committed, Alike, Able, Stage
    <3>4. Stage(f) /\ Calmly(g, f)
      BY <3>1, <3>2, <3>3, StageBegins
    <3> QED BY <1>6, <1>16, <3>2, <3>4 DEF Alike, Begins
  <2> QED BY <2>1, <2>2
<1> HIDE DEF f
<1>18. Speech(f) /\ Saying(f) /\ InOrder(s, f, o.rx) /\ Carried(f) = Carried(g)
       /\ f.local /\ f.path = "relay" /\ f.accepted = e.accepted
  <2>1. SameQueues(g, f) /\ f.parked = g.parked /\ f.path = g.path /\ f.local = g.local
        /\ g.path # "p2p" /\ f.up = g.up
    BY <1>6, <1>8, <1>16, <1>17 DEF Calmly, Alike
  <2>2. Speech(f) /\ Saying(f) /\ InOrder(s, f, o.rx) /\ Carried(f) = Carried(g)
    BY <1>15, <2>1, SpeechOf, OrderOf, CarriedOf
  <2> QED BY <1>4, <1>6, <1>10, <1>16, <1>17, <2>1, <2>2 DEF Calmly, Alike, Unswitched
<1>19. Pair(s, f, o, L)
  BY <1>1, <1>4, <1>12, <1>17, <1>18 DEF Pair
<1>20. s = "app" => NoneLost(f, o.got)
  BY <1>2, <1>11, <1>13, <1>15, <1>18, NoneLostLater
<1> QED BY <1>1, <1>17, <1>18, <1>19, <1>20, OneEndCalm DEF e, o, L

\* The number of a message that is carried is still carried.
LEMMA NoneLostStill ==
  ASSUME NEW e, NEW f, NEW got, NoneLost(e, got), f.accepted = e.accepted,
         \A x \in Carried(e) : \E y \in Carried(f) : y.biz = x.biz
  PROVE  NoneLost(f, got)
BY DEF NoneLost

LEMMA DrainEndsCalm ==
  ASSUME IInv, CalmInv, Undisturbed, NEW s \in Sides, DrainEnds(s)
  PROVE  CalmInv'
<1> DEFINE e == end[s]
           o == end[Other(s)]
           L == end["app"].linked
           f == AfterDrain(s, e)
<1>1. Becomes(s, f) /\ e.drains # <<>> /\ e.relay = <<>> /\ \A u \in Upgrades : e.direct[u] = <<>>
  BY DEF DrainEnds, Settled, Undisturbed
<1>2. /\ Stage(e) /\ Speech(e) /\ Pair(s, e, o, L) /\ e \in EndStates /\ o.rx \in Nat
      /\ (s = "app" => NoneLost(e, o.got))
      /\ \A x \in ToSet(e.outQ) : x.kind # "propose"
  BY CalmAt
<1>3. f = AfterDrain(s, e)
  OBVIOUS
<1> HIDE DEF e, o, L, f
<1>4. Switching(e) /\ e.local
  BY <1>1, <1>2 DEF Stage, Unswitched, Switched
<1>5. ~Saying(e)
  BY <1>1, NoFrame DEF Saying
<1>6. o.remote /\ e.up \in L /\ InOrder(s, e, o.rx)
  BY <1>2, <1>4, <1>5 DEF Pair
<1>7. /\ Stage(f) /\ Speech(f) /\ InOrder(s, f, o.rx) /\ ~Saying(f)
      /\ f.local = e.local /\ f.remote = e.remote /\ f.up = e.up /\ f.rx = e.rx
      /\ f.linked = e.linked /\ f.got = e.got /\ f.accepted = e.accepted
      /\ \A x \in Carried(e) : \E y \in Carried(f) : y.biz = x.biz
  <2> DEFINE n == o.rx
  <2>1. n \in Nat /\ InOrder(s, e, n)
    BY <1>2, <1>6
  <2> HIDE DEF n
  <2>3. Stage(e) /\ Speech(e) /\ Switching(e) /\ e \in EndStates
    BY <1>2, <1>4
  <2>4. e.relay = <<>> /\ \A u \in Upgrades : e.direct[u] = <<>>
    BY <1>1
  <2>5. \A x \in ToSet(e.outQ) : x.kind # "propose"
    BY <1>2
  <2>2. /\ Stage(f) /\ Speech(f) /\ InOrder(s, f, n) /\ ~Saying(f)
        /\ f.local = e.local /\ f.remote = e.remote /\ f.up = e.up /\ f.rx = e.rx
        /\ f.linked = e.linked /\ f.got = e.got /\ f.accepted = e.accepted
        /\ \A x \in Carried(e) : \E y \in Carried(f) : y.biz = x.biz
    BY <1>3, <2>1, <2>3, <2>4, <2>5, DrainSwitches
  <2> QED BY <2>2 DEF n
<1>8. Pair(s, f, o, L)
  BY <1>6, <1>7 DEF Pair
<1>9. s = "app" => NoneLost(f, o.got)
  BY <1>2, <1>7, NoneLostStill
<1> QED BY <1>1, <1>7, <1>8, <1>9, OneEndCalm DEF e, o, L

LEMMA ProposeCalm ==
  ASSUME IInv, CalmInv, NEW u \in Upgrades, Propose(u)
  PROVE  CalmInv'
<1>1. PICK i \in 1..Len(end["app"].relay) + 1, j \in 1..Len(end["agent"].relay) + 1 :
        end' = [end EXCEPT !["app"].relay = InsertAt(@, i, Control("propose", u)),
                           !["agent"].relay = InsertAt(@, j, Control("propose", u))]
  BY DEF Propose
<1> DEFINE n == [s \in Sides |-> IF s = "app" THEN i ELSE j]
<1>2. ASSUME NEW s \in Sides
      PROVE  /\ end'[s] = [end[s] EXCEPT !.relay = InsertAt(@, n[s], Control("propose", u))]
             /\ n[s] \in 1..Len(end[s].relay) + 1
  <2> HIDE DEF Control
  <2> QED BY <1>1 DEF IInv, Sides
<1> HIDE DEF n
<1>3. ASSUME NEW s \in Sides
      PROVE  /\ Alike(end[s], end'[s]) /\ Stage(end'[s]) /\ Speech(end'[s])
             /\ end'[s].accepted = end[s].accepted
             /\ InOrder(s, end'[s], end[Other(s)].rx)
             /\ Saying(end'[s]) <=> Saying(end[s])
             /\ Carried(end[s]) \subseteq Carried(end'[s])
  <2> DEFINE e == end[s]
             k == end[Other(s)].rx
             f == end'[s]
  <2>1. /\ Stage(e) /\ Speech(e) /\ e \in EndStates /\ InOrder(s, e, k) /\ k \in Nat
    BY CalmAt DEF Pair
  <2>2. f = [e EXCEPT !.relay = InsertAt(@, n[s], Control("propose", u))]
        /\ n[s] \in 1..Len(e.relay) + 1
    BY <1>2
  <2> HIDE DEF e, k, f
  <2>3. /\ Alike(e, f) /\ Speech(f) /\ f.accepted = e.accepted /\ InOrder(s, f, k)
        /\ Saying(f) <=> Saying(e)
        /\ Carried(e) \subseteq Carried(f)
    BY <2>1, <2>2, Proposed
  <2>4. Stage(f)
    BY <2>1, <2>3, StageAlike
  <2> QED BY <2>3, <2>4 DEF e, k, f
<1>4. "app" \in Sides /\ "agent" \in Sides /\ Other("app") = "agent" /\ Other("agent") = "app"
  BY DEF Sides, Other
<1> DEFINE L == end["app"].linked
<1>5. end'["app"].linked = L
  BY <1>3, <1>4 DEF Alike
<1>6. ASSUME NEW s \in Sides PROVE Pair(s, end'[s], end'[Other(s)], L)
  <2>1. Pair(s, end[s], end[Other(s)], L) /\ Other(s) \in Sides
    BY CalmAt
  <2>2. /\ Alike(end[s], end'[s]) /\ InOrder(s, end'[s], end[Other(s)].rx)
        /\ Saying(end'[s]) <=> Saying(end[s])
        /\ Alike(end[Other(s)], end'[Other(s)])
    BY <1>3, <2>1
  <2> HIDE DEF L
  <2> QED BY <2>1, <2>2 DEF Pair, Alike
<1>7. \A x \in L : x = end'["app"].up /\ x = end'["agent"].up
  BY <1>3, <1>4 DEF Alike, CalmInv
<1>8. NoneLost(end'["app"], end'["agent"].got)
  <2>1. NoneLost(end["app"], end["agent"].got)
    BY DEF CalmInv
  <2>2. /\ end'["app"].accepted = end["app"].accepted /\ end'["agent"].got = end["agent"].got
        /\ Carried(end["app"]) \subseteq Carried(end'["app"])
    BY <1>3, <1>4 DEF Alike
  <2> QED BY <2>1, <2>2 DEF NoneLost
<1> HIDE DEF L
<1> QED BY <1>3, <1>5, <1>6, <1>7, <1>8 DEF CalmInv

\* s opens m, the next frame of the other end, which is left with g.
LEMMA TakenCalm ==
  ASSUME IInv, CalmInv, NEW s \in Sides, NEW m \in Frames, NEW g,
         Apt(m, end[Other(s)].up), m.kind # "propose", m.seq = end[s].rx + 1,
         m.kind = "committed" => Saying(end[Other(s)]) /\ ~Saying(g),
         m.kind # "committed" => (Saying(g) <=> Saying(end[Other(s)])),
         Alike(end[Other(s)], g), Speech(g), g.accepted = end[Other(s)].accepted,
         InOrder(Other(s), g, end[s].rx + 1), Carried(end[Other(s)]) = Carried(g) \cup {m},
         end'[s] = Open(s, end[s], m), end'[Other(s)] = g
  PROVE  CalmInv'
<1> DEFINE o == Other(s)
           e == end[s]
           p == end[o]
           L == end["app"].linked
           M == end'["app"].linked
           r == [e EXCEPT !.rx = m.seq]
           f == Handle(s, r, m)
<1>1. /\ Stage(e) /\ Speech(e) /\ Shaped(e) /\ Pair(s, e, p, L) /\ e \in EndStates
      /\ L \subseteq Upgrades /\ e.accepted \in Nat /\ e.rx \in Nat /\ e.got \in Seq(Nat)
      /\ (\A u \in L : u = e.up)
      /\ (s = "app" => NoneLost(e, p.got)) /\ (s = "agent" => NoneLost(p, e.got))
      /\ o \in Sides /\ Other(o) = s
  BY CalmAt, Parts
<1>2. /\ Stage(p) /\ Pair(o, p, e, L) /\ p.accepted \in Nat /\ (\A u \in L : u = p.up)
  BY <1>1, CalmAt, Parts
<1>3. /\ Apt(m, p.up) /\ m.seq = e.rx + 1
      /\ (m.kind = "committed" => Saying(p) /\ ~Saying(g))
      /\ (m.kind # "committed" => (Saying(g) <=> Saying(p)))
      /\ Alike(p, g) /\ g.accepted = p.accepted
      /\ InOrder(o, g, e.rx + 1) /\ Carried(p) = Carried(g) \cup {m}
      /\ end'[s] = f /\ end'[o] = g
  BY DEF Open
<1>4. IF s = "app" THEN L = e.linked /\ M = end'[s].linked ELSE L = p.linked /\ M = end'[o].linked
  BY <1>1 DEF Sides, Other
<1>5. s \in {"app", "agent"}
  BY DEF Sides
<1> HIDE DEF o, e, p, L, M
<1>6. /\ r.st = e.st /\ r.up = e.up /\ r.peer = e.peer /\ r.local = e.local
      /\ r.remote = e.remote /\ r.sdp = e.sdp /\ r.path = e.path /\ r.tpeer = e.tpeer
      /\ r.switching = e.switching /\ r.queueing = e.queueing /\ r.parked = e.parked
      /\ r.strict = e.strict /\ r.prefers = e.prefers /\ r.drains = e.drains
      /\ r.backgroundPaused = e.backgroundPaused /\ r.rx = e.rx + 1 /\ r.alive = e.alive
      /\ r.linked = e.linked /\ r.ended = e.ended /\ r.commits = e.commits /\ r.got = e.got
      /\ SameQueues(e, r) /\ r.accepted = e.accepted
  BY <1>1, <1>3 DEF EndStates, SameQueues
<1>7. r \in EndStates
  <2>1. m.seq \in Nat
    BY <1>1, <1>3
  <2> QED BY <1>1, <2>1, Records
<1>8. f = Handle(s, r, m)
  OBVIOUS
<1> HIDE DEF r, f
<1>9. Shaped(r)
  BY <1>1, <1>6, <1>7 DEF Shaped, SameQueues
<1>10. Stage(r)
  BY <1>1, <1>6 DEF Stage, Able, Unswitched, Switching, Switched
<1>11. m.kind = "committed" => m.up = e.up /\ ~e.remote /\ m.up = p.up
  BY <1>1, <1>2, <1>3 DEF Pair, Apt
<1>12. m.kind \notin {"propose", "downgrade"}
  BY <1>3 DEF Apt
<1>13. /\ Stage(f) /\ Calmly(r, f) /\ f.up = e.up /\ f.rx = e.rx + 1
       /\ f.remote <=> e.remote \/ m.kind = "committed"
       /\ f.got = IF m.kind = "business" THEN Append(e.got, m.biz) ELSE e.got
       /\ f.linked = e.linked \/ (s = "app" /\ m.kind = "answer" /\ m.up = e.up
                                  /\ f.linked = e.linked \cup {m.up})
  <2>1. m.kind = "committed" => m.up = r.up /\ ~r.remote
    BY <1>6, <1>11
  <2>2. /\ Stage(f) /\ Calmly(r, f) /\ f.up = r.up /\ f.rx = r.rx
        /\ f.remote <=> r.remote \/ m.kind = "committed"
        /\ f.got = IF m.kind = "business" THEN Append(r.got, m.biz) ELSE r.got
        /\ f.linked = r.linked \/ (s = "app" /\ m.kind = "answer" /\ m.up = r.up
                                   /\ f.linked = r.linked \cup {m.up})
    BY <1>7, <1>8, <1>9, <1>10, <1>12, <2>1, Handled
  <2> QED BY <1>6, <2>2
<1>14. Calmly(e, f) /\ f.accepted = e.accepted
  BY <1>6, <1>13 DEF Calmly, SameQueues
<1>15. L \subseteq M /\ \A u \in M : u = f.up /\ u = g.up
  <2>1. CASE s = "app"
    <3>1. m.kind = "answer" => m.up = p.up
      BY <1>3 DEF Apt
    <3> QED BY <1>1, <1>2, <1>3, <1>4, <1>13, <2>1, <3>1 DEF Alike
  <2>2. CASE s = "agent"
    BY <1>1, <1>2, <1>3, <1>4, <1>13, <2>2 DEF Alike
  <2> QED BY <1>5, <2>1, <2>2
<1>16. Pair(s, f, g, M)
  BY <1>1, <1>3, <1>14, <1>15, PairLater DEF Alike
<1>17. Pair(o, g, f, M)
  <2>1. InOrder(o, g, f.rx)
    BY <1>3, <1>13
  <2>2. g.local => g.up \in M /\ (f.remote \/ Saying(g))
    BY <1>2, <1>3, <1>13, <1>15 DEF Pair, Alike
  <2>3. Saying(g) => g.local /\ ~f.remote
    BY <1>2, <1>3, <1>13 DEF Pair, Alike
  <2>4. g.path = "p2p" => f.remote
    BY <1>2, <1>3, <1>13 DEF Pair, Alike
  <2> QED BY <2>1, <2>2, <2>3, <2>4 DEF Pair
<1>18. Speech(f)
  BY <1>1, <1>13, <1>14, SpeechOf DEF Calmly
<1>19. s = "app" => NoneLost(f, g.got)
  <2>1. Carried(f) = Carried(e)
    BY <1>14, CarriedOf DEF Calmly
  <2> QED BY <1>1, <1>3, <1>14, <2>1 DEF NoneLost, Alike
<1>20. s = "agent" => NoneLost(g, f.got)
  <2>1. m.biz \in Nat
    BY DEF Frames
  <2>2. ToSet(Append(e.got, m.biz)) = ToSet(e.got) \cup {m.biz}
    <3> DEFINE q == e.got
               b == m.biz
    <3>1. q \in Seq(Nat) /\ b \in Nat
      BY <1>1, <2>1
    <3> HIDE DEF q, b
    <3>2. ToSet(Append(q, b)) = ToSet(q) \cup {b}
      BY <3>1, Added
    <3> QED BY <3>2 DEF q, b
  <2>3. ToSet(e.got) \subseteq ToSet(f.got) /\ (m.biz = 0 \/ m.biz \in ToSet(f.got))
    BY <1>3, <1>13, <2>2 DEF Apt
  <2> QED BY <1>1, <1>2, <1>3, <2>3, NoneLostLater
<1>21. Stage(g) /\ Speech(g)
  BY <1>2, <1>3, StageAlike
<1>22. end'[s] = f /\ end'[Other(s)] = g /\ M = end'["app"].linked
  BY <1>3 DEF o, M
<1>23. Pair(Other(s), g, f, M)
  BY <1>17 DEF o
<1> HIDE DEF M
<1> QED BY <1>13, <1>15, <1>16, <1>18, <1>19, <1>20, <1>21, <1>22, <1>23, CalmOf

LEMMA ReceiveCalm ==
  ASSUME IInv, CalmInv, NEW s \in Sides, Receive(s)
  PROVE  CalmInv'
<1> DEFINE o == Other(s)
           e == end[s]
           p == end[o]
           n == e.rx
           L == end["app"].linked
           g == [p EXCEPT !.relay = Tail(@)]
           m == Head(p.relay)
           f == IF m.kind = "propose" THEN HandlePropose(s, e, m.up) ELSE Open(s, e, m)
<1>1. /\ Stage(e) /\ Speech(e) /\ Shaped(e) /\ Pair(s, e, p, L) /\ e \in EndStates
      /\ L \subseteq Upgrades /\ e.accepted \in Nat /\ n \in Nat
      /\ (\A u \in L : u = e.up)
      /\ (s = "app" => NoneLost(e, p.got)) /\ (s = "agent" => NoneLost(p, e.got))
      /\ o \in Sides /\ o # s /\ Other(o) = s /\ end \in [Sides -> EndStates]
  BY CalmAt, Parts, IInvOf
<1>2. /\ Stage(p) /\ Speech(p) /\ Pair(o, p, e, L) /\ p.accepted \in Nat /\ p \in EndStates
      /\ (\A u \in L : u = p.up)
  BY <1>1, CalmAt, Parts
<1>3. p.relay # <<>> /\ end'[s] = f /\ end'[o] = g
  BY <1>1 DEF Receive
<1>4. InOrder(o, p, n)
  BY <1>2 DEF Pair
<1>5. g = [p EXCEPT !.relay = Tail(@)]
  OBVIOUS
<1> HIDE DEF g
<1>6. /\ m \in Frames /\ Apt(m, p.up) /\ Alike(p, g) /\ Speech(g)
      /\ g.accepted = p.accepted
      /\ IF m.kind = "propose" THEN InOrder(o, g, n)
         ELSE p.path = "relay" /\ m.seq = n + 1 /\ InOrder(o, g, n + 1)
      /\ m.kind = "committed" => Saying(p) /\ ~Saying(g)
      /\ m.kind # "committed" => (Saying(g) <=> Saying(p))
      /\ Carried(p) = Carried(g) \cup {m}
  <2> HIDE DEF p, o, n, e, f
  <2> QED BY <1>1, <1>2, <1>3, <1>4, <1>5, RelayTaken
<1>7. CASE m.kind # "propose"
  <2>1. end'[s] = Open(s, e, m)
    BY <1>3, <1>7
  <2> HIDE DEF m
  <2> QED BY <1>3, <1>6, <1>7, <2>1, TakenCalm
<1>8. CASE m.kind = "propose"
  <2>1. f = HandlePropose(s, e, m.up)
    BY <1>8
  <2>2. m.up \in Upgrades
    <3>1. m.up # None
      <4>1. Fit(o, p, e.commits) /\ m \in Carried(p)
        BY <1>1, <1>6, IInvOf
      <4> QED BY <1>8, <4>1 DEF Fit, Backed
    <3> QED BY <1>6, <3>1 DEF Frames
  <2>3. m.biz = 0
    BY <1>6, <1>8 DEF Apt
  <2>4. L = end'["app"].linked \/ end'["app"] = f
    BY <1>1, <1>3, <1>6 DEF Alike, Sides, Other
  <2>5. s = "app" => L = e.linked
    OBVIOUS
  <2>6. s = "agent" => L = end'["app"].linked
    BY <1>3, <1>6 DEF Alike, Other
  <2>7. s \in {"app", "agent"}
    BY DEF Sides
  <2> HIDE DEF f, e, p, n, L, o, m
  <2>8. /\ Stage(f) /\ Speech(f) /\ Calmly(e, f)
        /\ f.remote = e.remote /\ f.rx = e.rx /\ f.linked = e.linked /\ f.got = e.got
        /\ f.up = e.up \/ e.up = None
    BY <1>1, <2>1, <2>2, ProposalHandled
  <2>9. end'["app"].linked = L
    <3>1. s = "app" => end'["app"] = f
      BY <1>3
    <3> QED BY <2>5, <2>6, <2>7, <2>8, <3>1
  <2>10. \A u \in L : u = f.up /\ u = g.up
    BY <1>1, <1>2, <1>6, <2>8, TransportAssumption DEF Alike, TransportAssumption
  <2>11. Pair(s, f, g, L)
    BY <1>1, <1>6, <2>8, PairLater DEF Alike
  <2>12. Pair(o, g, f, L)
    <3>1. InOrder(o, g, f.rx)
      BY <1>6, <1>8, <2>8 DEF n
    <3> QED BY <1>2, <1>6, <1>8, <2>8, <3>1 DEF Pair, Alike
  <2>13. s = "app" => NoneLost(f, g.got)
    <3>1. Carried(f) = Carried(e)
      BY <2>8, CarriedOf DEF Calmly
    <3> QED BY <1>1, <1>6, <2>8, <3>1 DEF NoneLost, Alike, Calmly
  <2>14. s = "agent" => NoneLost(g, f.got)
    <3>1. Carried(p) \subseteq Carried(g) \cup {m}
      BY <1>6
    <3> QED BY <1>1, <1>2, <1>6, <2>3, <2>8, <3>1, NoneLostLater
  <2>15. Stage(g)
    BY <1>2, <1>6, StageAlike
  <2>16. end'[Other(s)] = g /\ Pair(Other(s), g, f, L)
    BY <1>3, <2>12 DEF o
  <2> QED BY <1>3, <1>6, <2>8, <2>9, <2>10, <2>11, <2>13, <2>14, <2>15, <2>16, CalmOf
<1> QED BY <1>7, <1>8

LEMMA ReceiveDirectCalm ==
  ASSUME IInv, CalmInv, NEW s \in Sides, NEW u \in Upgrades, ReceiveDirect(s, u)
  PROVE  CalmInv'
<1> DEFINE o == Other(s)
           e == end[s]
           p == end[o]
           n == e.rx
           L == end["app"].linked
           g == [p EXCEPT !.direct[u] = Tail(@)]
           m == Head(p.direct[u])
           f == IF e.tpeer = u THEN Open(s, e, m) ELSE e
<1>1. /\ Stage(e) /\ Pair(s, e, p, L) /\ n \in Nat
      /\ (\A x \in L : x = e.up)
      /\ o \in Sides /\ o # s /\ Other(o) = s /\ end \in [Sides -> EndStates]
  BY CalmAt, Parts, IInvOf
<1>2. /\ Stage(p) /\ Speech(p) /\ Pair(o, p, e, L) /\ p \in EndStates
      /\ (\A x \in L : x = p.up)
  BY <1>1, CalmAt, Parts
<1>3. p.direct[u] # <<>> /\ end'[s] = f /\ end'[o] = g
  BY <1>1 DEF ReceiveDirect
<1>4. InOrder(o, p, n)
  BY <1>2 DEF Pair
<1>5. g = [p EXCEPT !.direct[u] = Tail(@)]
  OBVIOUS
<1> HIDE DEF g
<1>6. /\ p.path = "p2p" /\ p.tpeer = u
      /\ m \in Frames /\ Apt(m, p.up) /\ m.kind \notin {"propose", "committed"}
      /\ Alike(p, g) /\ Speech(g) /\ g.accepted = p.accepted
      /\ m.seq = n + 1 /\ InOrder(o, g, n + 1)
      /\ Saying(g) <=> Saying(p)
      /\ Carried(p) = Carried(g) \cup {m}
  <2> HIDE DEF p, o, n, e, f
  <2> QED BY <1>1, <1>2, <1>3, <1>4, <1>5, DirectTaken
<1>7. e.tpeer = u
  <2>1. p.local /\ p.remote /\ p.tpeer = p.up
    BY <1>2, <1>6 DEF Stage, Switching, Switched, Unswitched
  <2>2. e.local
    BY <2>1, HeardSaid
  <2>3. e.remote
    BY <1>2, <1>6 DEF Pair
  <2>4. e.tpeer = e.up
    BY <1>1, <2>2, <2>3 DEF Stage, Switching, Switched
  <2>5. p.up = e.up
    BY <1>1, <1>2, <2>1 DEF Pair
  <2> QED BY <1>6, <2>1, <2>4, <2>5
<1>8. end'[s] = Open(s, e, m)
  BY <1>3, <1>7
<1> HIDE DEF m
<1> QED BY <1>3, <1>6, <1>8, TakenCalm

\* Nothing fails: no peer connection is closed, and the App stays in sight.
LEMMA NothingFails ==
  ASSUME IInv, CalmInv, Undisturbed, NEW s \in Sides
  PROVE  /\ ~NegotiationFails(s) /\ ~PeerLost(s) /\ ~NetworkChanged /\ ~Background /\ ~Foreground
         /\ \A u \in Upgrades : ~DirectLost(s, u)
<1> DEFINE e == end[s]
           o == Other(s)
           p == end[o]
           L == end["app"].linked
<1>1. /\ Stage(e) /\ Pair(s, e, p, L) /\ o \in Sides /\ Other(o) = s
      /\ (\A x \in L : x = e.up) /\ e \in EndStates
  BY CalmAt
<1>2. Stage(p) /\ Pair(o, p, e, L) /\ (\A x \in L : x = p.up)
  BY <1>1, CalmAt
<1>3. ~setting.disturbed /\ setting.changes = 0 /\ changes \in Nat
  BY DEF Undisturbed, IInv
<1>4. ASSUME e.tpeer # None PROVE e.tpeer \in e.alive /\ e.tpeer \in p.alive
  <2>1. e.local /\ e.tpeer = e.up /\ e.tpeer \in e.alive /\ e.remote
    BY <1>1, <1>4 DEF Stage, Unswitched, Switching, Switched
  <2>2. p.local
    BY <1>1, <2>1, HeardSaid
  <2>3. p.up = e.up /\ p.peer # None
    BY <1>1, <1>2, <2>1, <2>2 DEF Pair, Stage
  <2>4. Shaped(p)
    BY <1>1, CalmAt
  <2> QED BY <1>2, <2>1, <2>3, <2>4 DEF Stage, Shaped
<1>5. ~PeerLost(s)
  BY <1>3, <1>4 DEF PeerLost
<1>6. ASSUME NEW u \in Upgrades, DirectLost(s, u) PROVE FALSE
  <2>1. e.direct[u] # <<>> /\ ~(u \in end["app"].alive /\ u \in end["agent"].alive)
    BY <1>6 DEF DirectLost
  <2>2. e.path = "p2p" /\ e.tpeer = u
    BY <1>1, <2>1 DEF Pair, InOrder
  <2>3. u # None
    BY TransportAssumption DEF TransportAssumption
  <2>4. u \in e.alive /\ u \in p.alive
    BY <1>4, <2>2, <2>3
  <2> QED BY <2>1, <2>4 DEF Sides, Other
<1>7. ~Foreground
  BY CalmAt DEF Foreground, Stage, Sides
<1>8. ~NegotiationFails(s) /\ ~NetworkChanged /\ ~Background
  BY <1>3 DEF NegotiationFails, NetworkChanged, Background
<1> QED BY <1>5, <1>6, <1>7, <1>8

CalmIInv == Undisturbed /\ ~setting.strict => CalmInv

LEMMA InitCalm == Init => CalmIInv
<1> SUFFICES ASSUME Init, ~setting.strict PROVE CalmInv
  BY DEF CalmIInv
<1>1. ASSUME NEW s \in Sides
      PROVE  /\ end[s].st = "idle" /\ end[s].up = None /\ end[s].peer = None
             /\ end[s].local = FALSE /\ end[s].remote = FALSE /\ end[s].sdp = "none"
             /\ end[s].path = "relay" /\ end[s].tpeer = None /\ end[s].switching = FALSE
             /\ end[s].queueing = FALSE /\ end[s].outQ = <<>> /\ end[s].parked = <<>>
             /\ ~end[s].strict /\ ~end[s].prefers /\ end[s].drains = <<>>
             /\ end[s].backgroundPaused = FALSE /\ end[s].tx = 0 /\ end[s].rx = 0
             /\ end[s].linked = {} /\ end[s].relay = <<>>
             /\ (\A u \in Upgrades : end[s].direct[u] = <<>>)
             /\ end[s].ended = "no" /\ end[s].commits = {} /\ end[s].accepted = 0
  BY DEF Init, StartState
<1>2. ASSUME NEW s \in Sides
      PROVE  /\ Stage(end[s]) /\ Speech(end[s]) /\ Pair(s, end[s], end[Other(s)], {})
  <2> DEFINE e == end[s]
             o == end[Other(s)]
  <2>1. /\ e.st = "idle" /\ e.up = None /\ e.peer = None
        /\ e.local = FALSE /\ e.remote = FALSE /\ e.sdp = "none"
        /\ e.path = "relay" /\ e.tpeer = None /\ e.switching = FALSE
        /\ e.queueing = FALSE /\ e.outQ = <<>> /\ e.parked = <<>>
        /\ ~e.strict /\ ~e.prefers /\ e.drains = <<>>
        /\ e.backgroundPaused = FALSE /\ e.tx = 0
        /\ e.relay = <<>> /\ (\A u \in Upgrades : e.direct[u] = <<>>)
        /\ e.ended = "no" /\ e.commits = {}
    BY <1>1
  <2>2. o.rx = 0 /\ o.remote = FALSE
    BY <1>1 DEF Other, Sides
  <2> HIDE DEF e, o
  <2>3. ToSet(<<>>) = {} /\ Len(<<>>) = 0
    BY NoFrame
  <2>4. Stage(e)
    BY <2>1 DEF Stage, Able, Unswitched
  <2>5. Speech(e)
    <3>1. OneCommit(<<>>)
      BY <2>3 DEF OneCommit
    <3> QED BY <2>1, <2>3, <3>1 DEF Speech
  <2>6. ~Saying(e)
    BY <2>1, <2>3 DEF Saying
  <2>7. InOrder(s, e, o.rx)
    <3>1. Spread(<<>>, 0, 0) /\ Run(<<>>, 0, 0)
      BY SpreadNone, RunNone
    <3>2. \E k \in Nat : Spread(e.relay, o.rx, k) /\ Run(e.outQ, k, e.tx)
      BY <2>1, <2>2, <3>1
    <3> QED BY <2>1, <2>2, <3>1, <3>2 DEF InOrder
  <2>8. Pair(s, e, o, {})
    BY <2>1, <2>6, <2>7 DEF Pair
  <2> QED BY <2>4, <2>5, <2>8 DEF e, o
<1>3. "app" \in Sides
  BY DEF Sides
<1>4. end["app"].linked = {} /\ end["app"].accepted = 0
  BY <1>1, <1>3
<1>5. NoneLost(end["app"], end["agent"].got)
  BY <1>4 DEF NoneLost
<1> QED BY <1>2, <1>4, <1>5 DEF CalmInv

LEMMA NextCalm == IInv /\ CalmIInv /\ [Next]_vars => CalmIInv'
<1> SUFFICES ASSUME IInv, CalmIInv, [Next]_vars, Undisturbed', ~setting'.strict
             PROVE  CalmInv'
  BY DEF CalmIInv
<1>1. setting' = setting
  BY DEF Next, vars, EndNext, Propose, Receive, ReceiveDirect, DirectLost, Say, MakePeer,
         FindCandidate, Connected, NegotiationFails, PeerLost, DrainEnds, SendOffer,
         SendAnswer, NetworkChanged, Background, Foreground, Becomes
<1>2. Undisturbed /\ CalmInv
  BY <1>1 DEF Undisturbed, CalmIInv
<1>3. CASE UNCHANGED vars
  <2>1. end' = end
    BY <1>3 DEF vars
  <2> QED BY <1>2, <2>1 DEF CalmInv
<1>4. ASSUME NEW s \in Sides, EndNext(s) PROVE CalmInv'
  BY <1>2, <1>4, ReceiveCalm, ReceiveDirectCalm, SayCalm, MakePeerCalm, FindCandidateCalm,
     ConnectedCalm, DrainEndsCalm, NothingFails DEF EndNext
<1>5. ~NetworkChanged /\ ~Background /\ ~Foreground
  <2>1. "app" \in Sides
    BY DEF Sides
  <2> QED BY <1>2, <2>1, NothingFails
<1> QED BY <1>2, <1>3, <1>4, <1>5, ProposeCalm, SendOfferCalm, SendAnswerCalm DEF Next

\* An upgrade that nothing disturbs breaks no session and loses no message.
THEOREM CalmUpgradeKeeps == Spec => []CalmKeeps
<1>1. IInv /\ CalmIInv => CalmKeeps
  <2> SUFFICES ASSUME IInv, CalmIInv PROVE CalmKeeps
    OBVIOUS
  <2>1. CalmSurvives
    BY DEF CalmSurvives, SessionSurvives, Live, CalmIInv, CalmInv, Stage, Able
  <2>2. AppKeeps
    <3> SUFFICES ASSUME Undisturbed, ~setting.strict,
                        NEW n \in 1..end["app"].accepted
                 PROVE  n \in Waiting(end["app"].outQ) \cup Waiting(end["app"].parked)
                                \cup Waiting(end["app"].relay) \cup ToSet(end["agent"].got)
                                \cup UNION {Waiting(end["app"].direct[u]) : u \in Upgrades}
      BY DEF AppKeeps
    <3> DEFINE e == end["app"]
    <3>1. NoneLost(e, end["agent"].got)
      BY DEF CalmIInv, CalmInv
    <3>2. /\ e.outQ \in Seq(Frames) /\ e.parked \in Seq(Frames) /\ e.relay \in Seq(Frames)
          /\ \A u \in Upgrades : e.direct[u] \in Seq(Frames)
      BY IInvOf, Parts DEF Sides
    <3> HIDE DEF e
    <3>3. /\ Waiting(e.outQ) = {f.biz : f \in ToSet(e.outQ)}
          /\ Waiting(e.parked) = {f.biz : f \in ToSet(e.parked)}
          /\ Waiting(e.relay) = {f.biz : f \in ToSet(e.relay)}
          /\ \A u \in Upgrades : Waiting(e.direct[u]) = {f.biz : f \in ToSet(e.direct[u])}
      BY <3>2, WaitingIs
    <3>4. CASE n \in ToSet(end["agent"].got)
      BY <3>4
    <3>5. CASE n \notin ToSet(end["agent"].got)
      <4>1. PICK f \in Carried(e) : n = f.biz
        BY <3>1, <3>5 DEF NoneLost, e
      <4>2. CASE f \in ToSet(e.relay) \cup ToSet(e.outQ) \cup ToSet(e.parked)
        BY <3>3, <4>1, <4>2 DEF e
      <4>3. CASE \E u \in Upgrades : f \in ToSet(e.direct[u])
        BY <3>3, <4>1, <4>3 DEF e
      <4> QED BY <4>1, <4>2, <4>3 DEF Carried, Held
    <3> QED BY <3>4, <3>5
  <2> QED BY <2>1, <2>2 DEF CalmKeeps
<1> QED BY <1>1, InitIInv, NextIInv, InitCalm, NextCalm, PTL DEF Spec
=============================================================================
