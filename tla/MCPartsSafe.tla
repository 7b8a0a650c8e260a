---------------------------- MODULE MCPartsSafe ----------------------------
(* Like MCPartsLive, for safety in larger instances: one installation that  *)
(* pairs over two connections, the interactions on two Apps, the sessions,  *)
(* the frames of a terminal with two Apps, what is learned, the files; and, *)
(* of the relay, what it shows of a device, whom its administration lets    *)
(* in, and the accounts of its users; of the App, its gesture lock.         *)
EXTENDS MCPairing, Interactions, AgentSessions, TerminalFrames, Experience, Workspaces,
        DeviceStatus, AdminControls, UserAccounts, AppLock

CONSTANTS i1, p1, p2, t1, g1, e1, c1, v1, v2, s1, r1, w1

VARIABLE part

Parts == {"pairing", "interactions", "sessions", "frames", "experience", "workspaces",
          "status", "controls", "accounts", "lock"}

MCDeviceFor == [c \in Links |-> "e1"]

\* The parts that stand still.
Still(p) ==
  /\ part = p /\ UNCHANGED part
  /\ IF p = "pairing" THEN TRUE ELSE UNCHANGED vars
  /\ IF p = "interactions" THEN TRUE ELSE UNCHANGED interactionVars
  /\ IF p = "sessions" THEN TRUE ELSE UNCHANGED sessionVars
  /\ IF p = "frames" THEN TRUE ELSE UNCHANGED frameVars
  /\ IF p = "experience" THEN TRUE ELSE UNCHANGED experienceVars
  /\ IF p = "workspaces" THEN TRUE ELSE UNCHANGED workspacesVars
  /\ IF p = "status" THEN TRUE ELSE UNCHANGED statusVars
  /\ IF p = "controls" THEN TRUE ELSE UNCHANGED controlVars
  /\ IF p = "accounts" THEN TRUE ELSE UNCHANGED accountVars
  /\ IF p = "lock" THEN TRUE ELSE UNCHANGED lockVars

SafeInit ==
  /\ part \in Parts
  /\ Init /\ InteractionsInit /\ SessionsInit /\ FramesInit /\ ExperienceInit
  /\ WorkspacesInit /\ StatusInit /\ ControlsInit /\ AccountsInit /\ LockInit
  /\ part = "controls" \/ approval = "manual"

SafeNext ==
  \/ Still("pairing") /\ StableNext
  \/ Still("interactions") /\ InteractionsNext
  \/ Still("sessions") /\ SessionsNext
  \/ Still("frames") /\ FramesNext
  \/ Still("experience") /\ ExperienceNext
  \/ Still("workspaces") /\ WorkspacesNext
  \/ Still("status") /\ StatusNext
  \/ Still("controls") /\ ControlsNext
  \/ Still("accounts") /\ AccountsNext
  \/ Still("lock") /\ LockNext

safeVars == <<part, vars, interactionVars, sessionVars, frameVars, experienceVars,
              workspacesVars, statusVars, controlVars, accountVars, lockVars>>

SafeSpec == SafeInit /\ [][SafeNext]_safeVars

\* The parts that stand still are as they were in the beginning.
PartsView ==
  <<part, CASE part = "pairing" -> vars
            [] part = "interactions" -> interactionVars
            [] part = "sessions" -> sessionVars
            [] part = "frames" -> frameVars
            [] part = "experience" -> experienceVars
            [] part = "workspaces" -> workspacesVars
            [] part = "status" -> statusVars
            [] part = "controls" -> controlVars
            [] part = "accounts" -> accountVars
            [] part = "lock" -> lockVars>>

PartsTypeOK ==
  /\ TypeOK /\ InteractionsTypeOK /\ SessionsTypeOK /\ FramesTypeOK /\ ExperienceTypeOK
  /\ WorkspacesTypeOK /\ LockTypeOK
=============================================================================
