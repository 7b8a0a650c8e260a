---------------------------- MODULE MCPartsLive ----------------------------
(* Components of the Desktop Agent and the App that share no state, side by *)
(* side in one instance: a behaviour moves one of them only, its part.      *)
EXTENDS TLC, Interactions, SurfaceRunner, SurfaceEvents, TerminalFrames, Inbox, Workspaces

CONSTANTS i1, p1, v1, w1, w2

VARIABLE part

Parts == {"interactions", "runner", "events", "frames", "inbox", "workspaces"}

\* The parts that stand still.
Still(p) ==
  /\ part = p /\ UNCHANGED part
  /\ IF p = "interactions" THEN TRUE ELSE UNCHANGED interactionVars
  /\ IF p = "runner" THEN TRUE ELSE UNCHANGED runnerVars
  /\ IF p = "events" THEN TRUE ELSE UNCHANGED eventVars
  /\ IF p = "frames" THEN TRUE ELSE UNCHANGED frameVars
  /\ IF p = "inbox" THEN TRUE ELSE UNCHANGED inboxVars
  /\ IF p = "workspaces" THEN TRUE ELSE UNCHANGED workspacesVars

LiveInit ==
  /\ part \in Parts
  /\ InteractionsInit /\ RunnerInit /\ EventsInit /\ FramesInit /\ InboxInit
  /\ WorkspacesInit

LiveNext ==
  \/ Still("interactions") /\ InteractionsNext
  \/ Still("runner") /\ RunnerNext
  \/ Still("events") /\ EventsNext
  \/ Still("frames") /\ FramesNext
  \/ Still("inbox") /\ InboxNext
  \/ Still("workspaces") /\ WorkspacesNext

liveVars == <<part, interactionVars, runnerVars, eventVars, frameVars, inboxVars,
              workspacesVars>>

\* Where a part stands still nothing is under way, so that its fairness asks for
\* nothing; only an App without a link would connect.
LiveSpec ==
  /\ LiveInit /\ [][LiveNext]_liveVars
  /\ InteractionsFairness /\ RunnerFairness /\ EventsFairness
  /\ FramesFairness /\ InboxFairness /\ WF_inboxVars(part = "inbox" /\ ConnectApp)
  /\ WorkspacesFairness

PartsTypeOK ==
  /\ InteractionsTypeOK /\ RunnerTypeOK /\ EventsTypeOK /\ FramesTypeOK /\ InboxTypeOK
  /\ WorkspacesTypeOK
=============================================================================
