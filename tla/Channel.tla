------------------------------ MODULE Channel ------------------------------
(***************************************************************************)
(* What the paths of one App connection promise together: business is      *)
(* received in the order it was accepted, never twice and never before it  *)
(* was accepted.  Lossy ends may lose some of what they accept: later      *)
(* messages then arrive after a gap.                                       *)
(***************************************************************************)
EXTENDS Naturals, Sequences

CONSTANTS Lossy      \* the ends whose messages may be lost

Ends == {"app", "agent"}

VARIABLES accepted,  \* how many messages each end has accepted
          received   \* the numbers of those the other end has received, in order

Init ==
  /\ accepted = [s \in Ends |-> 0]
  /\ received = [s \in Ends |-> <<>>]

Last(s) == IF received[s] = <<>> THEN 0 ELSE received[s][Len(received[s])]

Accept(s) ==
  /\ accepted' = [accepted EXCEPT ![s] = @ + 1]
  /\ UNCHANGED received

Receive(s) ==
  \E n \in Last(s) + 1..accepted[s] :
    /\ s \in Lossy \/ n = Last(s) + 1
    /\ received' = [received EXCEPT ![s] = Append(@, n)]
    /\ UNCHANGED accepted

Next == \E s \in Ends : Accept(s) \/ Receive(s)

Spec == Init /\ [][Next]_<<accepted, received>>
=============================================================================
