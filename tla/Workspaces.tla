----------------------------- MODULE Workspaces -----------------------------
(***************************************************************************)
(* Files and Git of the workspaces of a Desktop Agent, as one App sees and  *)
(* changes them.  The App keeps a cache per workspace and a mark for every  *)
(* request under way, which keeps it from asking again.  ResourceRequests are       *)
(* handled concurrently; saving a file reads it, compares it with what the  *)
(* editor was opened on, and then writes.  Coding Agents write too.         *)
(*                                                                         *)
(* A workspace has one file here, of which the Git status and the diff are  *)
(* views; a text is the number of the edit that made it.                    *)
(***************************************************************************)
EXTENDS Naturals, Sequences, FiniteSets

CONSTANTS WorkspaceIds,
          NoWorkspace,
          MaxTexts,      \* bound: texts ever written or typed
          MaxAsked,      \* bound: requests of the user
          MaxFaults      \* bound: requests that throw and links that break

ASSUME WorkspacesAssumption ==
  NoWorkspace \notin WorkspaceIds /\ {MaxTexts, MaxAsked, MaxFaults} \subseteq Nat

VARIABLES
  disk,       \* the file of each workspace
  cache,      \* WorkspaceDataCache, and the marks of saves and Git actions
  selected,   \* selectedWorkspace
  editor,     \* the file editor: its workspace, its document, dirty
  asked,      \* requests sent and not answered
  replies,    \* replies on their way to the App
  texts,      \* texts there have been
  requests,   \* requests there have been
  faults,
  overwritten, \* history: texts an App's save replaced, and the base it was made on
  stranded     \* history: workspaces left when a save in them was confirmed

workspacesVars ==
  <<disk, cache, selected, editor, asked, replies, texts, requests, faults, overwritten,
    stranded>>

Contents == 0 .. MaxTexts
Unknown == MaxTexts + 1
Cached == Contents \cup {Unknown}

Caches == [file : Cached, fileLoading : BOOLEAN,
           status : Cached, statusLoading : BOOLEAN,
           diff : Cached, diffLoading : BOOLEAN, diffActive : BOOLEAN,
           saving : BOOLEAN, action : BOOLEAN]

EmptyCache == [file |-> Unknown, fileLoading |-> FALSE,
               status |-> Unknown, statusLoading |-> FALSE,
               diff |-> Unknown, diffLoading |-> FALSE, diffActive |-> FALSE,
               saving |-> FALSE, action |-> FALSE]

NoEditor == [workspace |-> NoWorkspace, text |-> Unknown, dirty |-> FALSE]

\* base is what a save was made on; checked, that the comparison is done.
ResourceRequests == [kind : {"read", "status", "diff", "action", "write"}, workspace : WorkspaceIds,
             id : Nat \ {0}, base : Cached, text : Cached, checked : BOOLEAN]
Answers == [kind : {"read", "status", "diff", "action", "refused", "saved", "conflict"},
            workspace : WorkspaceIds, text : Cached]

WorkspacesTypeOK ==
  /\ disk \in [WorkspaceIds -> Contents] /\ cache \in [WorkspaceIds -> Caches]
  /\ selected \in WorkspaceIds \cup {NoWorkspace}
  /\ editor \in [workspace : WorkspaceIds \cup {NoWorkspace}, text : Cached, dirty : BOOLEAN]
  /\ asked \subseteq ResourceRequests /\ replies \in Seq(Answers)
  /\ texts \in Contents /\ requests \in Nat /\ faults \in 0 .. MaxFaults
  /\ overwritten \subseteq Contents \X Cached \X Cached /\ stranded \subseteq WorkspaceIds

WorkspacesInit ==
  /\ disk = [w \in WorkspaceIds |-> 0]
  /\ cache = [w \in WorkspaceIds |-> EmptyCache]
  /\ selected = NoWorkspace /\ editor = NoEditor
  /\ asked = {} /\ replies = <<>>
  /\ texts = 0 /\ requests = 0 /\ faults = 0 /\ overwritten = {} /\ stranded = {}

Request(kind, w, n) == [kind |-> kind, workspace |-> w, id |-> requests + n,
                        base |-> Unknown, text |-> Unknown, checked |-> FALSE]

AskAgent(rs) == requests' = requests + Cardinality(rs) /\ asked' = asked \cup rs

\* The user asks; what the App asks by itself is not bounded.
AskAsUser(rs) == requests < MaxAsked /\ AskAgent(rs)

agentWorkspaceVars == <<disk, texts, faults, overwritten>>

-----------------------------------------------------------------------------
(* The screens of the App.                                                 *)

\* requestWorkspaceFile: what is cached or asked for is not asked for again.
OpenFileEditor(w) ==
  /\ editor.workspace = NoWorkspace
  /\ selected' = w
  /\ editor' = [workspace |-> w, text |-> cache[w].file, dirty |-> FALSE]
  /\ IF cache[w].file # Unknown \/ cache[w].fileLoading
     THEN UNCHANGED <<cache, asked, requests>>
     ELSE cache' = [cache EXCEPT ![w].fileLoading = TRUE] /\ AskAsUser({Request("read", w, 1)})
  /\ UNCHANGED <<agentWorkspaceVars, stranded, replies>>

ReloadEditorFile ==
  LET w == editor.workspace
  IN  /\ w # NoWorkspace /\ ~cache[w].fileLoading
      /\ cache' = [cache EXCEPT ![w].fileLoading = TRUE]
      /\ AskAsUser({Request("read", w, 1)})
      /\ UNCHANGED <<agentWorkspaceVars, stranded, selected, editor, replies>>

TypeText ==
  /\ editor.workspace # NoWorkspace /\ cache[editor.workspace].file # Unknown
  /\ ~cache[editor.workspace].fileLoading /\ texts < MaxTexts
  /\ texts' = texts + 1
  /\ editor' = [editor EXCEPT !.text = texts + 1, !.dirty = TRUE]
  /\ UNCHANGED <<disk, cache, selected, asked, replies, requests, faults, overwritten, stranded>>

SaveEditorFile ==
  LET w == editor.workspace
  IN  /\ editor.dirty /\ ~cache[w].saving /\ selected = w
      /\ cache' = [cache EXCEPT ![w].saving = TRUE]
      /\ AskAsUser({[Request("write", w, 1) EXCEPT !.base = cache[w].file, !.text = editor.text]})
      /\ UNCHANGED <<agentWorkspaceVars, stranded, selected, editor, replies>>

\* Leaving, after a confirmation if the editor is dirty.
CloseFileEditor ==
  /\ editor.workspace # NoWorkspace
  /\ editor' = NoEditor
  /\ UNCHANGED <<agentWorkspaceVars, stranded, cache, selected, asked, replies, requests>>

OpenWorkspaceGit(w) ==
  /\ editor.workspace = NoWorkspace
  /\ selected' = w
  /\ IF cache[w].status # Unknown \/ cache[w].statusLoading
     THEN UNCHANGED <<cache, asked, requests>>
     ELSE cache' = [cache EXCEPT ![w].statusLoading = TRUE] /\ AskAsUser({Request("status", w, 1)})
  /\ UNCHANGED <<agentWorkspaceVars, stranded, editor, replies>>

\* The diffs are forgotten at once, the status is asked for unless it was.
RefreshWorkspaceGit(w) ==
  /\ editor.workspace = NoWorkspace
  /\ selected' = w
  /\ cache' = [cache EXCEPT ![w].diff = Unknown, ![w].diffLoading = FALSE,
                            ![w].statusLoading = TRUE]
  /\ IF cache[w].statusLoading THEN UNCHANGED <<asked, requests>>
     ELSE AskAsUser({Request("status", w, 1)})
  /\ UNCHANGED <<agentWorkspaceVars, stranded, editor, replies>>

OpenGitReview(w) ==
  /\ editor.workspace = NoWorkspace
  /\ selected' = w
  /\ IF cache[w].diff # Unknown \/ cache[w].diffLoading
     THEN cache' = [cache EXCEPT ![w].diffActive = TRUE] /\ UNCHANGED <<asked, requests>>
     ELSE /\ cache' = [cache EXCEPT ![w].diffActive = TRUE, ![w].diffLoading = TRUE]
          /\ AskAsUser({Request("diff", w, 1)})
  /\ UNCHANGED <<agentWorkspaceVars, stranded, editor, replies>>

StageFile ==
  /\ selected # NoWorkspace /\ editor.workspace = NoWorkspace /\ ~cache[selected].action
  /\ cache' = [cache EXCEPT ![selected].action = TRUE]
  /\ AskAsUser({Request("action", selected, 1)})
  /\ UNCHANGED <<agentWorkspaceVars, stranded, selected, editor, replies>>

-----------------------------------------------------------------------------
(* The Desktop Agent.                                                      *)

Reply(r, kind, text) ==
  /\ asked' = asked \ {r}
  /\ replies' = Append(replies, [kind |-> kind, workspace |-> r.workspace, text |-> text])

HandleResource(r) ==
  /\ r \in asked /\ r.kind # "write"
  /\ Reply(r, r.kind, disk[r.workspace])
  /\ UNCHANGED <<agentWorkspaceVars, stranded, cache, selected, editor, requests>>

\* An action, or a write, that fails is answered all the same.
RefuseRequest(r) ==
  /\ r \in asked /\ r.kind \in {"action", "write"}
  /\ Reply(r, IF r.kind = "action" THEN "refused" ELSE "conflict", Unknown)
  /\ UNCHANGED <<agentWorkspaceVars, stranded, cache, selected, editor, requests>>

\* Mutant of BaseAgrees: the hash is not compared.
BaseAgreesAlways(r) == TRUE

BaseAgrees(r) == r.base = disk[r.workspace]

\* FileService.write: first the file is read and compared.
CheckWrite(r) ==
  /\ r \in asked /\ r.kind = "write" /\ ~r.checked
  /\ IF BaseAgrees(r)
     THEN asked' = (asked \ {r}) \cup {[r EXCEPT !.checked = TRUE]} /\ UNCHANGED replies
     ELSE Reply(r, "conflict", disk[r.workspace])
  /\ UNCHANGED <<agentWorkspaceVars, stranded, cache, selected, editor, requests>>

FinishWrite(r) ==
  /\ r \in asked /\ r.checked
  /\ disk' = [disk EXCEPT ![r.workspace] = r.text]
  /\ overwritten' = overwritten \cup {<<disk[r.workspace], r.base, r.text>>}
  /\ Reply(r, "saved", r.text)
  /\ UNCHANGED <<texts, faults, cache, selected, editor, requests, stranded>>

\* A Coding Agent, or anyone else, writes the file.
HostWrites(w) ==
  /\ texts < MaxTexts
  /\ texts' = texts + 1
  /\ disk' = [disk EXCEPT ![w] = texts + 1]
  /\ UNCHANGED <<cache, selected, editor, asked, replies, requests, faults, overwritten, stranded>>

\* A handler throws, and nothing is answered; writes and actions catch.
RequestThrows(r) ==
  /\ r \in asked /\ r.kind \in {"read", "status", "diff"} /\ faults < MaxFaults
  /\ faults' = faults + 1
  /\ asked' = asked \ {r}
  /\ UNCHANGED <<disk, texts, overwritten, stranded, cache, selected, editor, replies,
                 requests>>

\* The link breaks and comes back: the App keeps its cache and its marks.
BreakLink ==
  /\ faults < MaxFaults /\ asked # {}
  /\ faults' = faults + 1
  /\ asked' = {} /\ replies' = <<>>
  /\ UNCHANGED <<disk, texts, overwritten, stranded, cache, selected, editor, requests>>

-----------------------------------------------------------------------------
(* Answers at the App.                                                     *)

\* The editor's effect: another text of its file replaces the document, the
\* text it has just saved only makes it clean.
EditorAfter(w, text, kind) ==
  IF editor.workspace # w \/ cache[w].file = text THEN editor
  ELSE [editor EXCEPT !.text = IF kind = "saved" THEN @ ELSE text, !.dirty = FALSE]

ApplyFilesRead(w, text) ==
  /\ cache' = [cache EXCEPT ![w].file = text, ![w].fileLoading = FALSE]
  /\ editor' = EditorAfter(w, text, "read")
  /\ UNCHANGED <<asked, requests, stranded>>

\* Mutant of FollowUps: the requests are left to the screens.
FollowUpsNone(w) == {}

\* What is asked for after a save, if its workspace is still the selected one.
FollowUps(w) ==
  IF selected # w THEN {}
  ELSE {Request("status", w, 1)} \cup (IF cache[w].diffActive THEN {Request("diff", w, 2)} ELSE {})

\* applyFilesWrite
ApplyFilesSaved(w, text) ==
  /\ cache' = [cache EXCEPT ![w].file = text, ![w].saving = FALSE, ![w].statusLoading = TRUE,
                            ![w].diff = Unknown, ![w].diffLoading = cache[w].diffActive]
  /\ editor' = EditorAfter(w, text, "saved")
  /\ AskAgent(FollowUps(w))
  /\ stranded' = IF selected = w THEN stranded ELSE stranded \cup {w}

ApplyConflict(w) ==
  /\ cache' = [cache EXCEPT ![w].saving = FALSE]
  /\ UNCHANGED <<editor, asked, requests, stranded>>

ApplyGitStatus(w, text) ==
  /\ cache' = [cache EXCEPT ![w].status = text, ![w].statusLoading = FALSE]
  /\ UNCHANGED <<editor, asked, requests, stranded>>

ApplyGitDiff(w, text) ==
  /\ cache' = [cache EXCEPT ![w].diff = text, ![w].diffLoading = FALSE]
  /\ UNCHANGED <<editor, asked, requests, stranded>>

ApplyGitRefused(w) ==
  /\ cache' = [cache EXCEPT ![w].action = FALSE]
  /\ UNCHANGED <<editor, asked, requests, stranded>>

\* applyGitAction: the Git part of the cache begins anew with the status sent.
ApplyGitAction(w, text) ==
  /\ cache' = [cache EXCEPT ![w] = [EmptyCache EXCEPT
                 !.file = cache[w].file, !.fileLoading = cache[w].fileLoading,
                 !.saving = cache[w].saving, !.status = text]]
  /\ UNCHANGED <<editor, asked, requests, stranded>>

ApplyAnswer ==
  /\ replies # <<>>
  /\ LET answer == Head(replies)
         w == answer.workspace
     IN  \/ answer.kind = "read" /\ ApplyFilesRead(w, answer.text)
         \/ answer.kind = "saved" /\ ApplyFilesSaved(w, answer.text)
         \/ answer.kind = "conflict" /\ ApplyConflict(w)
         \/ answer.kind = "status" /\ ApplyGitStatus(w, answer.text)
         \/ answer.kind = "diff" /\ ApplyGitDiff(w, answer.text)
         \/ answer.kind = "refused" /\ ApplyGitRefused(w)
         \/ answer.kind = "action" /\ ApplyGitAction(w, answer.text)
  /\ replies' = Tail(replies)
  /\ UNCHANGED <<agentWorkspaceVars, selected>>

HandleRequest ==
  \E r \in asked : HandleResource(r) \/ CheckWrite(r) \/ FinishWrite(r) \/ RefuseRequest(r)

WorkspacesNext ==
  \/ \E w \in WorkspaceIds : \/ OpenFileEditor(w) \/ OpenWorkspaceGit(w)
                             \/ RefreshWorkspaceGit(w) \/ OpenGitReview(w) \/ HostWrites(w)
  \/ ReloadEditorFile \/ TypeText \/ SaveEditorFile \/ CloseFileEditor \/ StageFile
  \/ HandleRequest \/ ApplyAnswer \/ BreakLink
  \/ \E r \in asked : RequestThrows(r)

\* The Desktop Agent replies what it has, and the App handles what arrives.
WorkspacesFairness == WF_workspacesVars(HandleRequest) /\ WF_workspacesVars(ApplyAnswer)

WorkspacesSpec == WorkspacesInit /\ [][WorkspacesNext]_workspacesVars /\ WorkspacesFairness

-----------------------------------------------------------------------------
(* Properties.                                                             *)

(* A request marked as under way, which keeps the App from asking again, is *)
(* answered in the end, unless an answer was lost: of files, saves, actions. *)
MarksEnd ==
  \A w \in WorkspaceIds :
    /\ cache[w].fileLoading /\ faults = 0 ~> ~cache[w].fileLoading \/ faults > 0
    /\ cache[w].saving /\ faults = 0 ~> ~cache[w].saving \/ faults > 0
    /\ cache[w].action /\ faults = 0 ~> ~cache[w].action \/ faults > 0

(* After a save the App refreshes the status of its workspace, unless the   *)
(* user had gone on to another one when the save was confirmed: then the    *)
(* status stays marked as asked for, and nothing asks for it.               *)
StatusRefreshed ==
  \A w \in WorkspaceIds :
    cache[w].statusLoading /\ faults = 0 ~>
      ~cache[w].statusLoading \/ faults > 0 \/ w \in stranded

\* No mark of a request under way stays for ever.
RequestsEnd == MarksEnd /\ StatusRefreshed

(* A save replaces no text its author has not seen, except one that others  *)
(* wrote later than the text the save carries was typed.                    *)
SavesKeepOthers == \A o \in overwritten : o[1] # o[2] => o[1] > o[3]
=============================================================================
