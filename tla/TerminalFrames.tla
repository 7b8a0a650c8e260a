--------------------------- MODULE TerminalFrames ---------------------------
(***************************************************************************)
(* The screen of one external tmux session on the Apps that watch it.  A   *)
(* timer captures the pane and sends what has changed to the subscribers;  *)
(* a snapshot goes to the App that asked.  Both carry the next number of   *)
(* the session, and an App ignores a frame whose number is not above what  *)
(* it has seen.  A capture takes time: one may be overtaken by another.    *)
(*                                                                         *)
(* Frames go on the control channel, so that the display channel's         *)
(* backpressure never sets in.  The byte stream, off by default, is left   *)
(* out; captures that fail belong to AgentSessions.                        *)
(***************************************************************************)
EXTENDS Naturals, Sequences, FiniteSets

CONSTANTS Viewers,      \* Apps
          Direct,       \* those whose path is p2p
          MaxPane,      \* bound: changes of the pane
          MaxCaptures,  \* bound: captures of the timer under way at once
          MaxStops,     \* bound: ends of the pushing
          MaxLeaves     \* bound: links lost

ASSUME FramesAssumption ==
  /\ Direct \subseteq Viewers
  /\ {MaxPane, MaxCaptures, MaxStops, MaxLeaves} \subseteq Nat

VARIABLES
  pane,        \* the version of the pane
  pushing,     \* the timer runs
  watchers,    \* terminalSubscribers: the Apps whose present connection is one
  lastHash,    \* terminalLastFrameHash: the version it was taken of, 0 if none
  frameSeq,    \* terminalFrameSeq
  captures,    \* captures under way, in the order they began
  toViewer,    \* frames under way
  joined,      \* Apps with an E2E session
  screen,      \* the version each App shows
  watermark,   \* terminalFrameSeqRef
  blind,       \* Apps that were not sent the version lastHash was taken of,
  outran,      \* Apps that had seen numbers when they began again
  stops, leaves

frameVars ==
  <<pane, pushing, watchers, lastHash, frameSeq, captures, toViewer, joined, screen,
    watermark, blind, outran, stops, leaves>>

Captures == [kind : {"push", "attach", "snapshot"}, app : Viewers, data : Nat]
TerminalMessages == [kind : {"frame", "snapshot"}, data : Nat, seq : Nat]

FramesTypeOK ==
  /\ {pane, lastHash, frameSeq, stops, leaves} \subseteq Nat
  /\ pushing \in BOOLEAN
  /\ {watchers, joined, blind, outran} \subseteq SUBSET Viewers
  /\ captures \in Seq(Captures)
  /\ toViewer \in [Viewers -> Seq(TerminalMessages)]
  /\ screen \in [Viewers -> Nat] /\ watermark \in [Viewers -> Nat]

FramesInit ==
  /\ pane = 1 /\ pushing = FALSE /\ watchers = {} /\ lastHash = 0 /\ frameSeq = 0
  /\ captures = <<>>
  /\ toViewer = [p \in Viewers |-> <<>>]
  /\ joined = {}
  /\ screen = [p \in Viewers |-> 0] /\ watermark = [p \in Viewers |-> 0]
  /\ blind = Viewers /\ outran = {} /\ stops = 0 /\ leaves = 0

-----------------------------------------------------------------------------

PaneChanges ==
  /\ pane < MaxPane
  /\ pane' = pane + 1
  /\ UNCHANGED <<pushing, watchers, lastHash, frameSeq, captures, toViewer, joined, screen,
                 watermark, blind, outran, stops, leaves>>

\* A capture reads the pane now; its outcome is handled later.
Capture(k, p) ==
  /\ captures' = Append(captures, [kind |-> k, app |-> p, data |-> pane])

SnapshotUnderWay(p) ==
  \E i \in DOMAIN captures : captures[i].kind # "push" /\ captures[i].app = p

\* session.attach: the App is subscribed, then the snapshot is taken.
AttachViewer(p) ==
  /\ p \in joined \ watchers /\ ~SnapshotUnderWay(p)
  /\ watchers' = watchers \cup {p}
  /\ Capture("attach", p)
  /\ UNCHANGED <<pane, pushing, lastHash, frameSeq, toViewer, joined, screen, watermark,
                 blind, outran, stops, leaves>>

\* Mutant of AskSnapshot: an App that is subscribed need not ask again.
AskSnapshotIdle(p) ==
  /\ p \in joined \ watchers /\ ~SnapshotUnderWay(p) /\ toViewer[p] = <<>>
  /\ screen[p] # pane \/ lastHash # pane
  /\ Capture("snapshot", p)
  /\ UNCHANGED <<pane, pushing, watchers, lastHash, frameSeq, toViewer, joined, screen,
                 watermark, blind, outran, stops, leaves>>

\* terminal.snapshot: the screen was opened, the session list has changed, the
\* App came back; on the direct path also whenever no frame came for a while.  One
\* that would change neither the screen nor lastHash is left out.
AskSnapshot(p) ==
  /\ screen[p] # pane \/ lastHash # pane
  /\ p \in joined /\ ~SnapshotUnderWay(p) /\ toViewer[p] = <<>>
  /\ Capture("snapshot", p)
  /\ UNCHANGED <<pane, pushing, watchers, lastHash, frameSeq, toViewer, joined, screen,
                 watermark, blind, outran, stops, leaves>>

\* The timer: pushIfChanged starts a capture whether or not one is under way.
Tick ==
  /\ pushing
  /\ Cardinality({i \in DOMAIN captures : captures[i].kind = "push"}) < MaxCaptures
  /\ Capture("push", CHOOSE p \in Viewers : TRUE)
  /\ UNCHANGED <<pane, pushing, watchers, lastHash, frameSeq, toViewer, joined, screen,
                 watermark, blind, outran, stops, leaves>>

Without(i) == [j \in 1 .. Len(captures) - 1 |-> IF j < i THEN captures[j] ELSE captures[j + 1]]

NextSeq == frameSeq + 1

\* Mutant of Remembered: a snapshot leaves terminalLastFrameHash alone.
RememberedFramesOnly(c) == IF c.kind = "push" THEN c.data ELSE lastHash

\* rememberFrameData
Remembered(c) == c.data

\* handleSnapshot goes on; attach starts the timer.
SnapshotTaken(i) ==
  LET c == captures[i]
  IN  /\ c.kind # "push"
      /\ captures' = Without(i)
      /\ frameSeq' = frameSeq + 1
      /\ toViewer' = [toViewer EXCEPT ![c.app] =
                        Append(@, [kind |-> "snapshot", data |-> c.data, seq |-> NextSeq])]
      /\ lastHash' = Remembered(c)
      /\ blind' = IF lastHash = c.data THEN blind \ {c.app} ELSE Viewers \ {c.app}
      /\ pushing' = (pushing \/ c.kind = "attach")
      /\ UNCHANGED <<pane, watchers, joined, screen, watermark, outran, stops, leaves>>

Unchanged(c) == lastHash = c.data

\* pushIfChanged goes on.
FrameTaken(i) ==
  LET c == captures[i]
  IN  /\ c.kind = "push"
      /\ captures' = Without(i)
      /\ IF watchers = {} \/ Unchanged(c)
         THEN UNCHANGED <<frameSeq, toViewer, lastHash, blind>>
         ELSE /\ frameSeq' = frameSeq + 1
              /\ lastHash' = Remembered(c)
              /\ toViewer' = [p \in Viewers |->
                    IF p \in watchers
                    THEN Append(toViewer[p],
                                [kind |-> "frame", data |-> c.data, seq |-> NextSeq])
                    ELSE toViewer[p]]
              /\ blind' = Viewers \ watchers
      /\ UNCHANGED <<pane, pushing, watchers, joined, screen, watermark, outran, stops, leaves>>

\* stop(): the session is closed, which an external one outlives.
StopPushing ==
  /\ pushing /\ stops < MaxStops
  /\ stops' = stops + 1
  /\ pushing' = FALSE
  /\ watchers' = {} /\ lastHash' = 0 /\ frameSeq' = 0
  /\ blind' = Viewers
  /\ outran' = outran \cup {p \in Viewers : watermark[p] > 0 \/ toViewer[p] # <<>>}
  /\ UNCHANGED <<pane, captures, toViewer, joined, screen, watermark, leaves>>

\* The App has a session, under a new connection id.
Join(p) ==
  /\ p \notin joined
  /\ joined' = joined \cup {p}
  /\ UNCHANGED <<pane, pushing, watchers, lastHash, frameSeq, captures, toViewer, screen,
                 watermark, blind, outran, stops, leaves>>

\* What is on its way to the App is lost, what is captured for it will be.
Leave(p) ==
  /\ p \in joined /\ leaves < MaxLeaves /\ ~SnapshotUnderWay(p)
  /\ leaves' = leaves + 1
  /\ joined' = joined \ {p}
  /\ watchers' = watchers \ {p}
  /\ toViewer' = [toViewer EXCEPT ![p] = <<>>]
  /\ blind' = blind \cup {p}
  /\ UNCHANGED <<pane, pushing, lastHash, frameSeq, captures, screen, watermark, outran, stops>>

\* applyTerminalSnapshot always shows; queueTerminalFrame only what is newer.
Shows(p, m) == m.kind = "snapshot" \/ m.seq > watermark[p]

ViewerReads(p) ==
  LET m == Head(toViewer[p])
  IN  /\ toViewer[p] # <<>>
      /\ toViewer' = [toViewer EXCEPT ![p] = Tail(@)]
      /\ screen' = IF Shows(p, m) THEN [screen EXCEPT ![p] = m.data] ELSE screen
      /\ watermark' = IF m.seq > watermark[p] THEN [watermark EXCEPT ![p] = m.seq]
                      ELSE watermark
      /\ UNCHANGED <<pane, pushing, watchers, lastHash, frameSeq, captures, joined, blind, outran,
                     stops, leaves>>

FramesNext ==
  \/ PaneChanges
  \/ \E p \in Viewers : AttachViewer(p) \/ AskSnapshot(p) \/ Join(p) \/ Leave(p) \/ ViewerReads(p)
  \/ Tick
  \/ \E i \in DOMAIN captures : SnapshotTaken(i) \/ FrameTaken(i)
  \/ StopPushing

FramesSpec == FramesInit /\ [][FramesNext]_frameVars

\* The timer fires, captures end, frames are read, and an App on the direct path asks again.
FramesFairness ==
  /\ WF_frameVars(Tick) /\ WF_frameVars(\E i \in DOMAIN captures : FrameTaken(i))
  /\ \A p \in Viewers :
       /\ WF_frameVars(\E i \in DOMAIN captures : captures[i].app = p /\ SnapshotTaken(i))
       /\ WF_frameVars(ViewerReads(p))
  /\ \A p \in Direct : WF_frameVars(AskSnapshot(p))

-----------------------------------------------------------------------------
(* Properties.                                                             *)

\* The comparison that saves frames is sound for a subscriber unless a snapshot
\* went to another App only: what was sent last is what it shows or has on its way
\* (an App that saw numbers before they began again may ignore it).
NothingWithheld ==
  \A p \in watchers \ (blind \cup outran) :
    toViewer[p] = <<>> => screen[p] = lastHash

\* On the direct path the screen comes to show the pane, whatever frames were
\* overtaken, ignored or withheld and however often the numbers began again.
DirectScreenFollows ==
  \A p \in Direct : []<>(screen[p] = pane \/ p \notin joined)
=============================================================================
