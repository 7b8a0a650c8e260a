--------------------------- MODULE MCRelaySession ---------------------------
(* Two agent connections and one App connection of one device, whose        *)
(* clients may send any frame at any time.                                  *)
EXTENDS RelaySession, TLC

CONSTANTS a1, a2, m1, d1

MCDeviceOf == [c \in {a1, a2, m1} |-> d1]

\* The two agent connections are interchangeable.
AgentSymmetry == Permutations({a1, a2})

(* No handler reads the queues, nor anything of a connection whose socket is  *)
(* closed but that it is, nor, of an App whose socket is not open, what the    *)
(* agents recorded about it: states that differ there only have the same      *)
(* successors up to that, and the invariants do not tell them apart.          *)
RelayView ==
  LET Kept(f) == [c \in DOMAIN f |-> IF sock[c] = "closed" THEN None ELSE f[c]]
      Peered(a) == [m \in AppConns |-> IF sock[m] = "open" THEN peer[a][m] ELSE NoPeer]
  IN  <<sock, Kept(role), Kept(state), Kept(authState), Kept(authed), topoVars, pending,
        Kept(hs), Kept(th), Kept(sid), Kept([a \in AgentConns |-> Peered(a)])>>

\* The clients' queues are not used: Receive draws the frame itself.
OpenInit == WireInit /\ RelayInit
OpenNext == RelayNext /\ UNCHANGED up
OpenSpec == OpenInit /\ [][OpenNext]_<<relayVars, wireVars>>
=============================================================================
