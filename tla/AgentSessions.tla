--------------------------- MODULE AgentSessions ---------------------------
(***************************************************************************)
(* The sessions of one Desktop Agent: rows in its store, tmux sessions that *)
(* live and die on their own, and the requests of Apps about them.          *)
(*                                                                          *)
(* Nearly every request begins with a list: the rows are read, tmux is      *)
(* asked, rows whose tmux session is gone are removed, and the cache of     *)
(* known sessions is rebuilt.  A request that needs a list while one is     *)
(* under way joins it.  What a request does when it goes on runs to its     *)
(* next wait before anything else happens.                                  *)
(*                                                                          *)
(* Left out: titles, sizes and workspaces; a managed session that the       *)
(* snapshot of the rows lacks is also listed once as an external one.       *)
(***************************************************************************)
EXTENDS Naturals, FiniteSets

CONSTANTS TmuxSessions,      \* managed sessions in tmux
          ServerSessions,    \* managed sessions of runtime app_server
          ExternalSessions,  \* sessions a user starts in tmux
          CreateActions,     \* create_action_id
          MaxRequests,       \* bound: requests
          MaxLives,          \* bound: how often an external name comes to life
          MaxFailures        \* bound: tmux sessions that end, failures of tmux, restarts

ASSUME SessionsAssumption ==
  /\ {MaxRequests, MaxLives, MaxFailures} \subseteq Nat
  /\ TmuxSessions \cap ServerSessions = {}
  /\ ExternalSessions \cap (TmuxSessions \cup ServerSessions) = {}
  /\ TmuxSessions \cup ServerSessions \cup ExternalSessions # {}

Managed == TmuxSessions \cup ServerSessions
Sessions == Managed \cup ExternalSessions
Requests == 1..MaxRequests
InTmux == TmuxSessions \cup ExternalSessions
NoAction == "no_action"
RequestKinds == {"create", "list", "close", "kill", "rename", "attach", "resize", "missing"}

\* detached: an external session that is not registered.
SessionRows == [status : {"absent", "starting", "running", "detached"}, uid : Nat]
Absent == [status |-> "absent", uid |-> 0]
Row(st, u) == [status |-> st, uid |-> u]

VARIABLES
  row,            \* the store
  knownSessions,  \* knownSessionsById
  tmux,           \* the incarnation of each tmux session that lives, 0 if none
  born,           \* incarnations so far
  op,             \* the requests
  listing,        \* listWithWorkspacesInFlight
  appSessions,    \* what the App lists
  failures,
  removedSince,   \* sessions removed since the list that built knownSessions began
  closedBefore    \* sessions closed for good before the list under way began

sessionVars ==
  <<row, knownSessions, tmux, born, op, listing, appSessions, failures, removedSince,
    closedBefore>>

SessionsTypeOK ==
  /\ row \in [Sessions -> SessionRows] /\ knownSessions \in [Sessions -> SessionRows]
  /\ tmux \in [InTmux -> Nat] /\ born \in [InTmux -> Nat]
  /\ op \in [Requests ->
       [kind : RequestKinds, s : Sessions, action : CreateActions \cup {NoAction},
        step : {"unused", "preparing", "spawning", "naming", "listing", "woken",
                "killing", "resizing", "done"},
        seen : SessionRows]]
  /\ listing.phase \in {"idle", "read", "answered"}
  /\ listing.rows \in [Sessions -> SessionRows] /\ listing.live \in [InTmux -> Nat]
  /\ appSessions \subseteq Sessions /\ failures \in Nat
  /\ removedSince \subseteq Sessions /\ closedBefore \subseteq Sessions

\* A list is about no session.
AnySession == CHOOSE s \in Sessions : TRUE

NoRows == [s \in Sessions |-> Absent]
NobodyLives == [s \in InTmux |-> 0]
NoListing == [phase |-> "idle", rows |-> NoRows, live |-> NobodyLives]

SessionsInit ==
  /\ row = NoRows /\ knownSessions = NoRows
  /\ tmux = NobodyLives /\ born = NobodyLives
  /\ op = [r \in Requests |-> [kind |-> "list", s |-> AnySession, action |-> NoAction,
                               step |-> "unused", seen |-> Absent]]
  /\ listing = NoListing
  /\ appSessions = {} /\ failures = 0
  /\ removedSince = {} /\ closedBefore = {}

-----------------------------------------------------------------------------
(* Requests and lists.                                                      *)

\* Nobody is between two waits.
NobodyWoken == \A r \in Requests : op[r].step # "woken"

Step(r, st) == [op EXCEPT ![r].step = st]

Creating(s) ==
  \E r \in Requests : op[r].kind = "create" /\ op[r].s = s
                        /\ op[r].step \in {"preparing", "spawning", "naming"}

\* Closed for good: it lived, its row and its tmux session are gone, and no
\* request that could bring the row back is under way.
Closed ==
  {s \in TmuxSessions :
     /\ born[s] > 0 /\ tmux[s] = 0 /\ ~Creating(s)
     /\ \A r \in Requests : op[r].s = s => op[r].step \in {"unused", "done"}}

\* computeListWithWorkspaces reads the rows at once, unless a list is under way.
ListFrom(rows) ==
  IF listing.phase = "idle"
  THEN /\ listing' = [phase |-> "read", rows |-> rows, live |-> NobodyLives]
       /\ closedBefore' = Closed
  ELSE UNCHANGED <<listing, closedBefore>>

\* A session whose row is removed is forgotten by the cache too.
Forget(s) ==
  /\ row' = [row EXCEPT ![s] = Absent]
  /\ knownSessions' = [knownSessions EXCEPT ![s] = Absent]
  /\ removedSince' = removedSince \cup {s}

Upsert(s, rw) ==
  /\ row' = [row EXCEPT ![s] = rw]
  /\ knownSessions' = [knownSessions EXCEPT ![s] = rw]
  /\ removedSince' = removedSince \ {s}

\* The requests are numbered as they come.
Arrives(r) == op[r].step = "unused" /\ \A q \in Requests : q < r => op[q].step # "unused"

\* A request that starts with get(): close, kill, rename, attach; or a list.
Ask(r, k, s) ==
  /\ NobodyWoken /\ Arrives(r)
  /\ \/ k = "list" /\ s = AnySession
     \/ k \in {"close", "kill", "rename", "attach"} /\ s \in appSessions
  /\ op' = [op EXCEPT ![r] = [@ EXCEPT !.kind = k, !.s = s, !.step = "listing"]]
  /\ ListFrom(row)
  /\ UNCHANGED <<row, knownSessions, tmux, born, appSessions, failures, removedSince>>

\* Mutant of Orphan: a session that is being created is judged too.
OrphanHasty(s, rw, live) == s \in InTmux /\ rw # Absent /\ live[s] # rw.uid

\* classifyOrphanSession: the tmux session of a running row is not the one that
\* lives, by server and uid.  A session that is being created is left alone.
Orphan(s, rw, live) == s \in InTmux /\ rw.status = "running" /\ live[s] # rw.uid

\* tmux list-sessions; any failure reads as no session at all.
TmuxAnswers(ok) ==
  LET live == IF ok THEN tmux ELSE NobodyLives
      orphans == {s \in Sessions : Orphan(s, listing.rows[s], live)}
  IN  /\ NobodyWoken /\ listing.phase = "read"
      /\ ok \/ failures < MaxFailures
      /\ failures' = IF ok THEN failures ELSE failures + 1
      /\ row' = [s \in Sessions |-> IF s \in orphans THEN Absent ELSE row[s]]
      /\ listing' = [phase |-> "answered", live |-> live,
                     rows |-> [s \in Sessions |->
                                 IF s \in orphans THEN Absent ELSE listing.rows[s]]]
      /\ removedSince' = removedSince \cup orphans
      /\ UNCHANGED <<knownSessions, tmux, born, op, appSessions, closedBefore>>

\* What the list says: the rows, and external sessions without one.
Listed ==
  [s \in Sessions |->
     IF listing.rows[s] # Absent THEN listing.rows[s]
     ELSE IF s \in ExternalSessions /\ listing.live[s] # 0
          THEN Row("detached", listing.live[s]) ELSE Absent]

\* rebuildKnownSessions.
Rebuilt == Listed

Joined(r) == op[r].step = "listing"

\* The list is there: everyone who waits for it goes on.
ListDone ==
  /\ NobodyWoken /\ listing.phase = "answered"
  /\ knownSessions' = Rebuilt
  /\ op' = [r \in Requests |->
              IF Joined(r) THEN [op[r] EXCEPT !.step = "woken", !.seen = Listed[op[r].s]]
              ELSE op[r]]
  /\ listing' = [listing EXCEPT !.phase = "idle"]
  /\ removedSince' = {s \in Sessions : Listed[s] # Absent} \cap removedSince
  /\ UNCHANGED <<row, tmux, born, appSessions, failures, closedBefore>>

-----------------------------------------------------------------------------
(* What a request does when its list is there.                              *)

\* handleList: session.list.
ReplyList(r) ==
  /\ op' = Step(r, "done")
  /\ appSessions' = {s \in Sessions : Listed[s] # Absent}
  /\ UNCHANGED <<row, knownSessions, listing, removedSince, closedBefore>>

\* The request ends with a session.list.
ThenList(r, rows) ==
  /\ op' = [op EXCEPT ![r] = [@ EXCEPT !.kind = "list", !.step = "listing"]]
  /\ ListFrom(rows)
  /\ UNCHANGED appSessions

NotFound(r) ==
  /\ ThenList(r, row)
  /\ UNCHANGED <<row, knownSessions, removedSince>>

\* rename, and updateTerminalSize of a session that was not known: the row as
\* the list had it is written back.
WriteBack(r) ==
  /\ Upsert(op[r].s, op[r].seen)
  /\ ThenList(r, row')

\* An external session is forgotten; a session whose tmux target is missing too.
Drop(r) ==
  /\ Forget(op[r].s)
  /\ ThenList(r, row')

BeginKill(r) ==
  /\ op' = Step(r, "killing")
  /\ UNCHANGED <<row, knownSessions, appSessions, listing, removedSince, closedBefore>>

\* attach registers an external session.
Attach(r) ==
  /\ IF op[r].seen.status = "detached"
     THEN Upsert(op[r].s, Row("running", op[r].seen.uid))
     ELSE UNCHANGED <<row, knownSessions, removedSince>>
  /\ op' = Step(r, "done")
  /\ appSessions' = IF op[r].seen = Absent THEN appSessions ELSE appSessions \cup {op[r].s}
  /\ UNCHANGED <<listing, closedBefore>>

GoesOn(r) ==
  LET s == op[r].s  k == op[r].kind  found == op[r].seen # Absent
  IN  /\ op[r].step = "woken"
      /\ \/ k = "list" /\ ReplyList(r)
         \/ k = "attach" /\ Attach(r)
         \/ k \in {"close", "kill", "rename", "resize"} /\ ~found /\ NotFound(r)
         \/ k = "missing" /\ Drop(r)
         \/ k \in {"rename", "resize"} /\ found /\ WriteBack(r)
         \/ k = "close" /\ found /\ s \in ExternalSessions /\ Drop(r)
         \/ k = "close" /\ found /\ s \in Managed /\ BeginKill(r)
         \/ k = "kill" /\ found /\ s \in InTmux /\ BeginKill(r)
         \/ k = "kill" /\ found /\ s \in ServerSessions /\ BeginKill(r)
      /\ UNCHANGED <<tmux, born, failures>>

\* tmux kill-session has ended, whether or not there was something to kill; a
\* kill of what is gone throws and gets no list.
Killed(r) ==
  LET s == op[r].s
      missing == s \in ServerSessions \/ tmux[s] = 0
  IN  /\ NobodyWoken /\ op[r].step = "killing"
      /\ Forget(s)
      /\ tmux' = IF missing THEN tmux ELSE [tmux EXCEPT ![s] = 0]
      /\ IF missing /\ op[r].kind = "kill"
         THEN op' = Step(r, "done") /\ UNCHANGED <<listing, appSessions, closedBefore>>
         ELSE ThenList(r, row')
      /\ UNCHANGED <<born, failures>>

\* terminal.resize of a known session: tmux first, then the row.
ResizeAsked(r, s) ==
  /\ NobodyWoken /\ Arrives(r) /\ s \in InTmux /\ knownSessions[s].status = "running"
  /\ op' = [op EXCEPT ![r] = [@ EXCEPT !.kind = "resize", !.s = s, !.step = "resizing"]]
  /\ UNCHANGED <<row, knownSessions, tmux, born, listing, appSessions, failures, removedSince,
                 closedBefore>>

Resized(r) ==
  LET s == op[r].s
  IN  /\ NobodyWoken /\ op[r].step = "resizing"
      /\ \/ /\ tmux[s] # 0 /\ knownSessions[s] # Absent
            /\ Upsert(s, knownSessions[s])
            /\ op' = Step(r, "done")
            /\ UNCHANGED <<listing, closedBefore>>
         \/ /\ tmux[s] # 0 /\ knownSessions[s] = Absent
            /\ op' = Step(r, "listing")
            /\ ListFrom(row)
            /\ UNCHANGED <<row, knownSessions, removedSince>>
         \/ /\ tmux[s] = 0
            /\ op' = [op EXCEPT ![r] = [@ EXCEPT !.kind = "missing", !.step = "listing"]]
            /\ ListFrom(row)
            /\ UNCHANGED <<row, knownSessions, removedSince>>
      /\ UNCHANGED <<tmux, born, appSessions, failures>>

-----------------------------------------------------------------------------
(* Creating a session.                                                      *)

\* Mutant of Repeated: only what has been completed counts.
RepeatedCompleted(a) ==
  \E q \in Requests : op[q].kind = "create" /\ op[q].action = a
                        /\ op[q].step = "done" /\ op[q].seen # Absent

\* pendingCreates or completedCreates has the action.
Repeated(a) ==
  \E q \in Requests :
    /\ op[q].kind = "create" /\ op[q].action = a
    /\ \/ op[q].step \in {"preparing", "spawning", "naming"}
       \/ op[q].step = "done" /\ op[q].seen # Absent

Fresh(s) == \A q \in Requests : op[q].kind = "create" => op[q].s # s

CreateAsked(r, s, a) ==
  /\ NobodyWoken /\ Arrives(r) /\ s \in Managed /\ Fresh(s)
  /\ op' = [op EXCEPT ![r] =
              IF a # NoAction /\ Repeated(a)
              THEN [@ EXCEPT !.kind = "list", !.step = "done"]
              ELSE [@ EXCEPT !.kind = "create", !.s = s, !.action = a, !.step = "preparing"]]
  /\ UNCHANGED <<row, knownSessions, tmux, born, listing, appSessions, failures, removedSince,
                 closedBefore>>

\* prepareTerminalProvider, createWorktree or resolveCreateCwd fails.
PrepareFails(r) ==
  /\ NobodyWoken /\ op[r].step = "preparing"
  /\ op' = Step(r, "done")
  /\ UNCHANGED <<row, knownSessions, tmux, born, listing, appSessions, failures, removedSince,
                 closedBefore>>

\* created and starting are written and told; an app_server session runs.
CreateBegins(r) ==
  LET s == op[r].s
      rw == IF s \in ServerSessions THEN Row("running", 0) ELSE Row("starting", 0)
  IN  /\ NobodyWoken /\ op[r].step = "preparing"
      /\ Upsert(s, rw)
      /\ appSessions' = appSessions \cup {s}
      /\ op' = [op EXCEPT ![r] = IF s \in ServerSessions
                                 THEN [@ EXCEPT !.step = "done", !.seen = rw]
                                 ELSE [@ EXCEPT !.step = "spawning"]]
      /\ UNCHANGED <<tmux, born, listing, failures, closedBefore>>

\* tmux new-session.
TmuxStarts(r) ==
  LET s == op[r].s
  IN  /\ NobodyWoken /\ op[r].step = "spawning"
      /\ born' = [born EXCEPT ![s] = @ + 1]
      /\ tmux' = [tmux EXCEPT ![s] = born[s] + 1]
      /\ op' = Step(r, "naming")
      /\ UNCHANGED <<row, knownSessions, listing, appSessions, failures, removedSince, closedBefore>>

\* new-session fails, or its identity cannot be read.
CreateFails(r) ==
  /\ NobodyWoken
  /\ op[r].step = "spawning" \/ (op[r].step = "naming" /\ tmux[op[r].s] = 0)
  /\ Forget(op[r].s)
  /\ op' = Step(r, "done")
  /\ UNCHANGED <<tmux, born, listing, appSessions, failures, closedBefore>>

TmuxNamed(r) ==
  LET s == op[r].s
  IN  /\ NobodyWoken /\ op[r].step = "naming" /\ tmux[s] # 0
      /\ Upsert(s, Row("running", tmux[s]))
      /\ appSessions' = appSessions \cup {s}
      /\ op' = [op EXCEPT ![r] = [@ EXCEPT !.step = "done", !.seen = Row("running", tmux[s])]]
      /\ UNCHANGED <<tmux, born, listing, failures, closedBefore>>

-----------------------------------------------------------------------------
(* What happens outside.                                                    *)

TmuxDies(s) ==
  /\ NobodyWoken /\ tmux[s] # 0 /\ failures < MaxFailures
  /\ failures' = failures + 1
  /\ tmux' = [tmux EXCEPT ![s] = 0]
  /\ UNCHANGED <<row, knownSessions, born, op, listing, appSessions, removedSince, closedBefore>>

ExternalStarts(s) ==
  /\ NobodyWoken /\ tmux[s] = 0 /\ born[s] < MaxLives
  /\ born' = [born EXCEPT ![s] = @ + 1]
  /\ tmux' = [tmux EXCEPT ![s] = born[s] + 1]
  /\ UNCHANGED <<row, knownSessions, op, listing, appSessions, failures, removedSince, closedBefore>>

\* The Desktop Agent ends and starts again: rows and tmux sessions remain.
AgentRestarts ==
  /\ failures < MaxFailures
  /\ failures' = failures + 1
  /\ op' = [r \in Requests |-> IF op[r].step = "unused" THEN op[r]
                               ELSE [op[r] EXCEPT !.step = "done", !.seen = Absent]]
  /\ listing' = NoListing
  /\ knownSessions' = NoRows
  /\ removedSince' = {} /\ closedBefore' = {}
  /\ UNCHANGED <<row, tmux, born, appSessions>>

SessionsNext ==
  \/ \E r \in Requests, k \in RequestKinds, s \in Sessions : Ask(r, k, s)
  \/ \E ok \in BOOLEAN : TmuxAnswers(ok)
  \/ ListDone
  \/ \E r \in Requests : GoesOn(r) \/ Killed(r) \/ Resized(r)
  \/ \E r \in Requests, s \in Sessions : ResizeAsked(r, s)
  \/ \E r \in Requests, s \in Managed, a \in CreateActions \cup {NoAction} : CreateAsked(r, s, a)
  \/ \E r \in Requests :
       PrepareFails(r) \/ CreateBegins(r) \/ TmuxStarts(r) \/ CreateFails(r) \/ TmuxNamed(r)
  \/ \E s \in InTmux : TmuxDies(s)
  \/ \E s \in ExternalSessions : ExternalStarts(s)
  \/ AgentRestarts

SessionsSpec == SessionsInit /\ [][SessionsNext]_sessionVars

-----------------------------------------------------------------------------
(* Properties.                                                              *)

Asked(s, kinds) == \E r \in Requests : op[r].s = s /\ op[r].kind \in kinds

\* A row is never lost while its session lives or is being made, unless an App
\* asked for that or tmux failed to answer: the rows are read before tmux is
\* asked, and a session begun in between is not judged.
LiveKept ==
  [][\A s \in TmuxSessions :
       /\ row[s] # Absent /\ row'[s] = Absent
       /\ tmux[s] # 0 \/ Creating(s)
       => \/ Asked(s, {"close", "kill", "missing"})
          \/ \E r \in Requests : CreateFails(r)
          \/ failures # failures']_sessionVars

\* The cache of known sessions lags by one list at most: what it still has of
\* sessions without a row was removed after the list that built it began, or is
\* an external session.
KnownCatchesUp ==
  listing.phase = "idle" =>
    \A s \in Managed : knownSessions[s] # Absent /\ row[s] = Absent => s \in removedSince

\* A session that was gone before a list began is not in it, even if a late
\* rename or resize had put its row back.
ClosedNotListed ==
  listing.phase = "answered" => \A s \in closedBefore : Listed[s].status # "running"

\* One create_action_id makes one session, however often the request comes.
OneSessionPerAction ==
  \A q, r \in Requests :
    /\ op[q].kind = "create" /\ op[r].kind = "create"
    /\ op[q].action = op[r].action /\ op[q].action # NoAction
    /\ op[q].seen # Absent /\ op[r].seen # Absent
    => q = r

\* Nobody who joined a list is left behind when it ends.
NobodyLeftWaiting ==
  listing.phase = "idle" => \A r \in Requests : op[r].step # "listing"

\* Requests that overlap, and share a list, agree on the sessions there are.
RequestsAgree == KnownCatchesUp /\ ClosedNotListed /\ OneSessionPerAction /\ NobodyLeftWaiting
=============================================================================
