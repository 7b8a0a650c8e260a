---------------------------- MODULE SurfaceEvents ----------------------------
(***************************************************************************)
(* The timeline of one agent surface.  The Desktop Agent stores each event *)
(* under a cursor and sends it to the App; an event that is revised takes  *)
(* the place of its earlier revision under a new cursor.  An App that      *)
(* connects asks, page by page, for what lies after the cursor it has.     *)
(***************************************************************************)
EXTENDS Naturals, Sequences, FiniteSets, FiniteSetsExt

CONSTANTS Events,      \* event ids
          PageLimit,   \* the limit of a sync request
          MaxPuts,     \* bound: events and revisions stored
          MaxLists,    \* bound: session lists, each of which starts a sync
          MaxDrops     \* bound: connections lost

ASSUME EventsAssumption ==
  /\ PageLimit \in Nat \ {0}
  /\ {MaxPuts, MaxLists, MaxDrops} \subseteq Nat

VARIABLES
  stored,      \* agent_surface_events: revision and cursor of each event, 0 if none
  lastCursor,  \* AUTOINCREMENT
  online,      \* the App has a session
  toPhone,     \* frames under way to the App
  toStore,     \* sync requests under way: their after_cursor
  have,        \* the revision of each event the App shows, 0 if none
  cursor,      \* cursorsBySurfaceIdRef
  lists, drops

eventVars == <<stored, lastCursor, online, toPhone, toStore, have, cursor, lists, drops>>

\* An event under its revision; a page of them.
LiveFrame(e, r) == [kind |-> "event", revs |-> [x \in {e} |-> r], next |-> 0, more |-> FALSE]
Page(revs, n, m) == [kind |-> "sync", revs |-> revs, next |-> n, more |-> m]

EventsTypeOK ==
  /\ stored \in [Events -> [rev : Nat, cursor : Nat]]
  /\ lastCursor \in Nat /\ cursor \in Nat /\ lists \in Nat /\ drops \in Nat
  /\ online \in BOOLEAN
  /\ \A i \in DOMAIN toPhone : DOMAIN toPhone[i].revs \subseteq Events
  /\ toStore \in Seq(Nat)
  /\ have \in [Events -> Nat]

EventsInit ==
  /\ stored = [e \in Events |-> [rev |-> 0, cursor |-> 0]]
  /\ lastCursor = 0
  /\ online = FALSE
  /\ toPhone = <<>>
  /\ toStore = <<>>
  /\ have = [e \in Events |-> 0]
  /\ cursor = 0
  /\ lists = 0
  /\ drops = 0

\* Mutant of CursorOf: a revision keeps the cursor of the row it replaces.
CursorKept(e) == IF stored[e].cursor = 0 THEN lastCursor + 1 ELSE stored[e].cursor

\* INSERT OR REPLACE gives every revision the next cursor.
CursorOf(e) == lastCursor + 1

\* broadcastAgentSurfaceEvent: stored, then sent.
Put(e) ==
  /\ lastCursor < MaxPuts
  /\ stored' = [stored EXCEPT ![e] = [rev |-> @.rev + 1, cursor |-> CursorOf(e)]]
  /\ lastCursor' = lastCursor + 1
  /\ toPhone' = IF online THEN Append(toPhone, LiveFrame(e, stored[e].rev + 1)) ELSE toPhone
  /\ UNCHANGED <<online, toStore, have, cursor, lists, drops>>

After(c) == {e \in Events : stored[e].cursor > c}

\* The first PageLimit of them by cursor.
FirstAfter(c) ==
  {e \in After(c) : Cardinality({x \in After(c) : stored[x].cursor < stored[e].cursor}) < PageLimit}

\* Mutant of NextCursor: that of the request.
NextCursorSame(c) == c

\* next_cursor: that of the last row of the page.
NextCursor(c) ==
  IF After(c) = {} THEN c ELSE Max({stored[e].cursor : e \in FirstAfter(c)})

\* handleSync.
AnswerSync ==
  LET c == Head(toStore)
  IN  /\ toStore # <<>>
      /\ toStore' = Tail(toStore)
      /\ toPhone' = Append(toPhone, Page([e \in FirstAfter(c) |-> stored[e].rev],
                                         NextCursor(c), After(c) # FirstAfter(c)))
      /\ UNCHANGED <<stored, lastCursor, online, have, cursor, lists, drops>>

\* The App connects; in strict mode it starts from nothing.
Connect(strict) ==
  /\ ~online
  /\ online' = TRUE
  /\ have' = IF strict THEN [e \in Events |-> 0] ELSE have
  /\ cursor' = IF strict THEN 0 ELSE cursor
  /\ UNCHANGED <<stored, lastCursor, toPhone, toStore, lists, drops>>

\* A session list has come: the App asks for what it lacks.
ListArrives ==
  /\ online /\ lists < MaxLists
  /\ lists' = lists + 1
  /\ toStore' = Append(toStore, cursor)
  /\ UNCHANGED <<stored, lastCursor, online, toPhone, have, cursor, drops>>

Disconnect ==
  /\ online /\ drops < MaxDrops
  /\ online' = FALSE
  /\ drops' = drops + 1
  /\ lists' = 0
  /\ toPhone' = <<>>
  /\ toStore' = <<>>
  /\ UNCHANGED <<stored, lastCursor, have, cursor>>

\* applyAgentSurfaceEvent, applyAgentSurfaceSync; the next page is asked for.
PhoneReads ==
  LET m == Head(toPhone)
  IN  /\ toPhone # <<>>
      /\ toPhone' = Tail(toPhone)
      /\ have' = [e \in Events |-> IF e \in DOMAIN m.revs THEN m.revs[e] ELSE have[e]]
      /\ cursor' = IF m.next > cursor THEN m.next ELSE cursor
      /\ toStore' = IF m.more THEN Append(toStore, m.next) ELSE toStore
      /\ UNCHANGED <<stored, lastCursor, online, lists, drops>>

EventsNext ==
  \/ \E e \in Events : Put(e)
  \/ AnswerSync
  \/ \E strict \in BOOLEAN : Connect(strict)
  \/ ListArrives
  \/ Disconnect
  \/ PhoneReads

EventsSpec == EventsInit /\ [][EventsNext]_eventVars

EventsFairness == WF_eventVars(AnswerSync) /\ WF_eventVars(PhoneReads)

-----------------------------------------------------------------------------
(* Properties.                                                             *)

\* Whatever the cursor covers the App has, in the revision that is stored or in
\* a frame that is on its way.
CursorSound ==
  \A e \in Events : stored[e].cursor \in 1..cursor =>
    \/ have[e] = stored[e].rev
    \/ \E i \in DOMAIN toPhone : e \in DOMAIN toPhone[i].revs /\ toPhone[i].revs[e] = stored[e].rev

\* After a sync that has run to its end nothing is missing, however often the
\* connection was lost between its pages and events were revised meanwhile.
SyncCompletes ==
  online /\ lists > 0 /\ toPhone = <<>> /\ toStore = <<>> =>
    \A e \in Events : have[e] = stored[e].rev

\* Neither while a sync is under way nor after it is an event skipped.
NothingMissed == CursorSound /\ SyncCompletes

\* An older revision never replaces a newer one on the screen; only a strict
\* connection starts from nothing.
NoStepBack ==
  [][\A e \in Events : have'[e] >= have[e] \/ (~online /\ online')]_eventVars

\* A sync comes to its end: pages do not go on for ever.
SyncEnds == toStore # <<>> ~> (toStore = <<>> /\ toPhone = <<>>) \/ ~online

\* Syncs broken off by lost links and overtaken by revisions skip nothing, go
\* forward only, and end.
SyncSound == []NothingMissed /\ NoStepBack /\ SyncEnds
=============================================================================
