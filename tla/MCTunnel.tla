------------------------------ MODULE MCTunnel ------------------------------
(* Upgrade ids are never compared in order.                                *)
EXTENDS TunnelUpgrade, TLC

CONSTANTS u1, u2

UpgradeSymmetry == Permutations(Upgrades)

\* One upgrade, everything may fail.
Rough == [strict |-> FALSE, disturbed |-> TRUE, timely |-> FALSE,
          upgrades |-> 1, business |-> 2, candidates |-> 1, changes |-> 1]

\* Two upgrades for a strict App.
RoughStrict == [Rough EXCEPT !.strict = TRUE, !.upgrades = 2,
                             !.candidates = 0, !.changes = 2]

\* Nothing fails and every drain is long enough.
Calm == [strict |-> FALSE, disturbed |-> FALSE, timely |-> TRUE,
         upgrades |-> 2, business |-> 2, candidates |-> 0, changes |-> 0]

\* No business: what becomes of the negotiations.
Bare == [Rough EXCEPT !.upgrades = 2, !.business = 0, !.candidates = 0]

\* A strict App, and nothing fails.
CalmStrict == [Calm EXCEPT !.strict = TRUE, !.upgrades = 1, !.business = 1]

\* What is too large together is checked two by two.
SafetySettings ==
  {[Rough EXCEPT !.business = 1], [Rough EXCEPT !.candidates = 0],
   [RoughStrict EXCEPT !.business = 1], Calm,
   [Calm EXCEPT !.business = 1, !.candidates = 1]}
LiveSettings == {Bare, Calm}
BreakSettings == {CalmStrict}
=============================================================================
