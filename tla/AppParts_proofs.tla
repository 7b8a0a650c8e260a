--------------------------- MODULE AppParts_proofs ---------------------------
(***************************************************************************)
(* What two parts of the App promise: saving a file, to those who write it *)
(* too, for any workspaces and any number of texts, requests and faults;   *)
(* and the gesture lock, for any gestures, delays, failures and restarts.  *)
(*                                                                         *)
(* A save compares and then writes, and others may write in between.  The   *)
(* proof rests on two facts.  At most one save of a workspace is under way,  *)
(* because the App's mark is taken off only by its answer; so only others   *)
(* can change the file between comparison and write.  And texts are         *)
(* numbered as they appear, so that what others write in between is later   *)
(* than the text the save carries.                                          *)
(*                                                                         *)
(* The lock's configuration in memory and in the keychain differ while       *)
(* writes are under way.  What is kept is that the last write is the one in   *)
(* force; a deletion is in the queue exactly while a reset waits for it, and  *)
(* nothing is in it before the configuration has been read.                  *)
(***************************************************************************)
EXTENDS Workspaces, AppLock, FiniteSetTheorems, TLAPS

Saves(w) == {r \in asked : r.kind = "write" /\ r.workspace = w}
Outcomes(w) == {i \in DOMAIN replies :
                  replies[i].kind \in {"saved", "conflict"} /\ replies[i].workspace = w}

\* No text is newer than the newest.
TextsKnown ==
  /\ \A w \in WorkspaceIds : disk[w] <= texts
  /\ editor.dirty => editor.workspace # NoWorkspace /\ editor.text <= texts
  /\ \A r \in asked : r.kind = "write" => r.text <= texts

\* One save of a workspace at a time, from its request to its answer.
OneSave ==
  \A w \in WorkspaceIds :
    /\ \A r, s \in Saves(w) : r = s
    /\ \A i, j \in Outcomes(w) : i = j
    /\ Saves(w) # {} => Outcomes(w) = {}
    /\ Saves(w) # {} \/ Outcomes(w) # {} => cache[w].saving

\* A save that was compared finds its base, or what was written later.
StillAgrees ==
  \A r \in asked : r.checked =>
    /\ r.kind = "write"
    /\ disk[r.workspace] = r.base \/ disk[r.workspace] > r.text

IInv == WorkspacesTypeOK /\ TextsKnown /\ OneSave /\ StillAgrees /\ SavesKeepOthers

-----------------------------------------------------------------------------
(* Requests and answers.                                                   *)

LEMMA Bounds == MaxTexts \in Nat /\ MaxAsked \in Nat /\ MaxFaults \in Nat
BY WorkspacesAssumption DEF WorkspacesAssumption

LEMMA RequestTyped ==
  ASSUME requests \in Nat, NEW w \in WorkspaceIds, NEW n \in {1, 2},
         NEW k \in {"read", "status", "diff", "action", "write"}
  PROVE  /\ Request(k, w, n) \in ResourceRequests
         /\ Request(k, w, n).kind = k /\ Request(k, w, n).workspace = w
         /\ ~Request(k, w, n).checked
<1>1. requests + n \in Nat \ {0}
  OBVIOUS
<1>2. Unknown \in Cached
  BY DEF Cached
<1> QED BY <1>1, <1>2 DEF Request, ResourceRequests

LEMMA FollowUpsTyped ==
  ASSUME requests \in Nat, NEW w \in WorkspaceIds
  PROVE  /\ FollowUps(w) \subseteq ResourceRequests /\ IsFiniteSet(FollowUps(w))
         /\ \A r \in FollowUps(w) : r.kind # "write" /\ ~r.checked
<1>1. /\ Request("status", w, 1) \in ResourceRequests /\ Request("diff", w, 2) \in ResourceRequests
      /\ Request("status", w, 1).kind = "status" /\ Request("diff", w, 2).kind = "diff"
      /\ ~Request("status", w, 1).checked /\ ~Request("diff", w, 2).checked
  BY RequestTyped
<1>2. /\ IsFiniteSet({}) /\ IsFiniteSet({Request("status", w, 1)})
      /\ IsFiniteSet({Request("diff", w, 2)})
  BY FS_EmptySet, FS_Singleton
<1>3. IsFiniteSet({Request("status", w, 1)} \cup
                    (IF cache[w].diffActive THEN {Request("diff", w, 2)} ELSE {}))
  BY <1>2, FS_Union
<1> QED BY <1>1, <1>2, <1>3 DEF FollowUps

LEMMA AskTyped ==
  ASSUME WorkspacesTypeOK, NEW rs, rs \subseteq ResourceRequests, IsFiniteSet(rs), AskAgent(rs)
  PROVE  asked' \subseteq ResourceRequests /\ requests' \in Nat
<1>1. Cardinality(rs) \in Nat
  BY FS_CardinalityType
<1> QED BY <1>1 DEF AskAgent, WorkspacesTypeOK

LEMMA ReplyTyped ==
  ASSUME WorkspacesTypeOK, NEW r \in asked, NEW text \in Cached,
         NEW k \in {"read", "status", "diff", "action", "refused", "saved", "conflict"},
         Reply(r, k, text)
  PROVE  asked' \subseteq ResourceRequests /\ replies' \in Seq(Answers)
<1>1. [kind |-> k, workspace |-> r.workspace, text |-> text] \in Answers
  BY DEF WorkspacesTypeOK, ResourceRequests, Answers
<1> QED BY <1>1 DEF Reply, WorkspacesTypeOK

LEMMA AskOneTyped ==
  ASSUME WorkspacesTypeOK, NEW w \in WorkspaceIds,
         NEW k \in {"read", "status", "diff", "action"}, AskAsUser({Request(k, w, 1)})
  PROVE  asked' \subseteq ResourceRequests /\ requests' \in Nat
<1>1. Request(k, w, 1) \in ResourceRequests /\ IsFiniteSet({Request(k, w, 1)})
  BY RequestTyped, FS_Singleton DEF WorkspacesTypeOK
<1>2. {Request(k, w, 1)} \subseteq ResourceRequests /\ AskAgent({Request(k, w, 1)})
  BY <1>1 DEF AskAsUser
<1> QED BY <1>1, <1>2, AskTyped

-----------------------------------------------------------------------------
(* Typing.                                                                 *)

\* Setting one field of one workspace's cache.
LEMMA FieldTyped ==
  ASSUME NEW c \in [WorkspaceIds -> Caches], NEW w \in WorkspaceIds,
         NEW t \in Cached, NEW b \in BOOLEAN
  PROVE  /\ [c EXCEPT ![w].file = t] \in [WorkspaceIds -> Caches]
         /\ [c EXCEPT ![w].fileLoading = b] \in [WorkspaceIds -> Caches]
         /\ [c EXCEPT ![w].status = t] \in [WorkspaceIds -> Caches]
         /\ [c EXCEPT ![w].statusLoading = b] \in [WorkspaceIds -> Caches]
         /\ [c EXCEPT ![w].diff = t] \in [WorkspaceIds -> Caches]
         /\ [c EXCEPT ![w].diffLoading = b] \in [WorkspaceIds -> Caches]
         /\ [c EXCEPT ![w].diffActive = b] \in [WorkspaceIds -> Caches]
         /\ [c EXCEPT ![w].saving = b] \in [WorkspaceIds -> Caches]
         /\ [c EXCEPT ![w].action = b] \in [WorkspaceIds -> Caches]
<1>1. c[w] \in Caches
  OBVIOUS
<1>2. /\ [c[w] EXCEPT !.file = t] \in Caches /\ [c[w] EXCEPT !.fileLoading = b] \in Caches
      /\ [c[w] EXCEPT !.status = t] \in Caches /\ [c[w] EXCEPT !.statusLoading = b] \in Caches
      /\ [c[w] EXCEPT !.diff = t] \in Caches /\ [c[w] EXCEPT !.diffLoading = b] \in Caches
      /\ [c[w] EXCEPT !.diffActive = b] \in Caches /\ [c[w] EXCEPT !.saving = b] \in Caches
      /\ [c[w] EXCEPT !.action = b] \in Caches
  BY <1>1 DEF Caches
<1> QED BY <1>2

\* The screens of the App.
LEMMA ScreensTyped ==
  ASSUME WorkspacesTypeOK, NEW w \in WorkspaceIds,
         \/ OpenFileEditor(w) \/ OpenWorkspaceGit(w) \/ RefreshWorkspaceGit(w) \/ OpenGitReview(w)
         \/ ReloadEditorFile \/ StageFile \/ CloseFileEditor
  PROVE  WorkspacesTypeOK'
<1>0. /\ cache \in [WorkspaceIds -> Caches] /\ Unknown \in Cached
      /\ editor \in [workspace : WorkspaceIds \cup {NoWorkspace}, text : Cached, dirty : BOOLEAN]
      /\ selected \in WorkspaceIds \cup {NoWorkspace}
  BY DEF WorkspacesTypeOK, Cached
<1>1. CASE OpenFileEditor(w)
  <2>1. asked' \subseteq ResourceRequests /\ requests' \in Nat
    BY <1>1, AskOneTyped DEF OpenFileEditor, WorkspacesTypeOK
  <2>2. cache' \in [WorkspaceIds -> Caches]
    <3>1. \/ cache' = cache
          \/ cache' = [cache EXCEPT ![w].fileLoading = TRUE]
      BY <1>1 DEF OpenFileEditor
    <3>2. [cache EXCEPT ![w].fileLoading = TRUE] \in [WorkspaceIds -> Caches]
      BY <1>0, FieldTyped
    <3> QED BY <1>0, <3>1, <3>2
  <2>3. editor' \in [workspace : WorkspaceIds \cup {NoWorkspace}, text : Cached, dirty : BOOLEAN]
    BY <1>0, <1>1 DEF OpenFileEditor, Caches
  <2> QED BY <1>1, <2>1, <2>2, <2>3 DEF OpenFileEditor, WorkspacesTypeOK, agentWorkspaceVars
<1>2. CASE OpenWorkspaceGit(w)
  <2>1. asked' \subseteq ResourceRequests /\ requests' \in Nat
    BY <1>2, AskOneTyped DEF OpenWorkspaceGit, WorkspacesTypeOK
  <2>2. cache' \in [WorkspaceIds -> Caches]
    <3>1. \/ cache' = cache
          \/ cache' = [cache EXCEPT ![w].statusLoading = TRUE]
      BY <1>2 DEF OpenWorkspaceGit
    <3>2. [cache EXCEPT ![w].statusLoading = TRUE] \in [WorkspaceIds -> Caches]
      BY <1>0, FieldTyped
    <3> QED BY <1>0, <3>1, <3>2
  <2> QED BY <1>2, <2>1, <2>2 DEF OpenWorkspaceGit, WorkspacesTypeOK, agentWorkspaceVars
<1>3. CASE RefreshWorkspaceGit(w)
  <2>1. asked' \subseteq ResourceRequests /\ requests' \in Nat
    BY <1>3, AskOneTyped DEF RefreshWorkspaceGit, WorkspacesTypeOK
  <2>2. cache' \in [WorkspaceIds -> Caches]
    <3> DEFINE c1 == [cache EXCEPT ![w].diff = Unknown]
               c2 == [c1 EXCEPT ![w].diffLoading = FALSE]
               c3 == [c2 EXCEPT ![w].statusLoading = TRUE]
    <3>1. c1 \in [WorkspaceIds -> Caches]
      BY <1>0, FieldTyped
    <3> HIDE DEF c1
    <3>2. c2 \in [WorkspaceIds -> Caches]
      BY <1>0, <3>1, FieldTyped
    <3> HIDE DEF c2
    <3>3. c3 \in [WorkspaceIds -> Caches]
      BY <1>0, <3>2, FieldTyped
    <3>4. cache' = c3
      BY <1>3 DEF RefreshWorkspaceGit, c1, c2
    <3> QED BY <3>3, <3>4
  <2> QED BY <1>3, <2>1, <2>2 DEF RefreshWorkspaceGit, WorkspacesTypeOK, agentWorkspaceVars
<1>4. CASE OpenGitReview(w)
  <2>1. asked' \subseteq ResourceRequests /\ requests' \in Nat
    BY <1>4, AskOneTyped DEF OpenGitReview, WorkspacesTypeOK
  <2>2. cache' \in [WorkspaceIds -> Caches]
    <3> DEFINE c1 == [cache EXCEPT ![w].diffActive = TRUE]
               c2 == [c1 EXCEPT ![w].diffLoading = TRUE]
    <3>1. c1 \in [WorkspaceIds -> Caches]
      BY <1>0, FieldTyped
    <3> HIDE DEF c1
    <3>2. c2 \in [WorkspaceIds -> Caches]
      BY <1>0, <3>1, FieldTyped
    <3>3. cache' \in {c1, c2}
      BY <1>4 DEF OpenGitReview, c1
    <3> QED BY <3>1, <3>2, <3>3
  <2> QED BY <1>4, <2>1, <2>2 DEF OpenGitReview, WorkspacesTypeOK, agentWorkspaceVars
<1>5. CASE ReloadEditorFile
  <2>0. editor.workspace \in WorkspaceIds
    BY <1>0, <1>5 DEF ReloadEditorFile
  <2>1. asked' \subseteq ResourceRequests /\ requests' \in Nat
    BY <1>5, <2>0, AskOneTyped DEF ReloadEditorFile
  <2>2. cache' \in [WorkspaceIds -> Caches]
    BY <1>0, <1>5, <2>0 DEF ReloadEditorFile, Caches
  <2> QED BY <1>5, <2>1, <2>2 DEF ReloadEditorFile, WorkspacesTypeOK, agentWorkspaceVars
<1>6. CASE StageFile
  <2>0. selected \in WorkspaceIds
    BY <1>0, <1>6 DEF StageFile
  <2>1. asked' \subseteq ResourceRequests /\ requests' \in Nat
    BY <1>6, <2>0, AskOneTyped DEF StageFile
  <2>2. cache' \in [WorkspaceIds -> Caches]
    BY <1>0, <1>6, <2>0 DEF StageFile, Caches
  <2> QED BY <1>6, <2>1, <2>2 DEF StageFile, WorkspacesTypeOK, agentWorkspaceVars
<1>7. CASE CloseFileEditor
  BY <1>0, <1>7 DEF CloseFileEditor, WorkspacesTypeOK, agentWorkspaceVars, NoEditor
<1> QED BY <1>1, <1>2, <1>3, <1>4, <1>5, <1>6, <1>7

LEMMA SaveTyped ==
  ASSUME WorkspacesTypeOK, TextsKnown, SaveEditorFile
  PROVE  WorkspacesTypeOK'
<1> DEFINE w == editor.workspace
           r == [Request("write", w, 1) EXCEPT !.base = cache[w].file, !.text = editor.text]
<1>1. /\ w \in WorkspaceIds /\ cache \in [WorkspaceIds -> Caches] /\ editor.text \in Cached
      /\ requests \in Nat /\ cache[w].file \in Cached
  <2>1. /\ selected \in WorkspaceIds \cup {NoWorkspace} /\ w = selected
        /\ editor.text \in Cached /\ requests \in Nat /\ cache \in [WorkspaceIds -> Caches]
    BY DEF SaveEditorFile, WorkspacesTypeOK
  <2>2. w \in WorkspaceIds
    BY <2>1 DEF SaveEditorFile, TextsKnown
  <2> QED BY <2>1, <2>2 DEF Caches
<1>2. r \in ResourceRequests
  <2>1. Request("write", w, 1) \in ResourceRequests
    BY <1>1, RequestTyped
  <2> QED BY <1>1, <2>1 DEF ResourceRequests
<1> HIDE DEF r
<1>3. asked' \subseteq ResourceRequests /\ requests' \in Nat
  <2>1. {r} \subseteq ResourceRequests /\ IsFiniteSet({r})
    BY <1>2, FS_Singleton
  <2>2. AskAgent({r})
    BY DEF SaveEditorFile, AskAsUser, r
  <2> QED BY <2>1, <2>2, AskTyped
<1>4. cache' \in [WorkspaceIds -> Caches]
  <2>1. cache' = [cache EXCEPT ![w].saving = TRUE]
    BY DEF SaveEditorFile
  <2>2. Unknown \in Cached
    BY DEF Cached
  <2> HIDE DEF w
  <2> QED BY <1>1, <2>1, <2>2, FieldTyped
<1> QED BY <1>3, <1>4 DEF SaveEditorFile, WorkspacesTypeOK, agentWorkspaceVars

\* Texts and the Desktop Agent.
LEMMA HostTyped ==
  ASSUME WorkspacesTypeOK, TypeText \/ BreakLink \/ \E w \in WorkspaceIds : HostWrites(w)
  PROVE  WorkspacesTypeOK'
<1>0. texts \in 0 .. MaxTexts /\ MaxTexts \in Nat /\ faults \in 0 .. MaxFaults /\ MaxFaults \in Nat
  BY Bounds DEF WorkspacesTypeOK, Contents
<1>1. texts < MaxTexts => texts + 1 \in Contents /\ texts + 1 \in Cached
  BY <1>0 DEF Contents, Cached
<1>2. CASE TypeText
  BY <1>1, <1>2 DEF TypeText, WorkspacesTypeOK
<1>3. CASE BreakLink
  <2>1. faults' \in 0 .. MaxFaults
    BY <1>0, <1>3 DEF BreakLink
  <2> QED BY <1>3, <2>1 DEF BreakLink, WorkspacesTypeOK
<1>4. ASSUME NEW w \in WorkspaceIds, HostWrites(w) PROVE WorkspacesTypeOK'
  BY <1>1, <1>4 DEF HostWrites, WorkspacesTypeOK
<1> QED BY <1>2, <1>3, <1>4

LEMMA HandledTyped ==
  ASSUME WorkspacesTypeOK, TextsKnown, StillAgrees, NEW r \in asked,
         HandleResource(r) \/ CheckWrite(r) \/ FinishWrite(r) \/ RefuseRequest(r) \/ RequestThrows(r)
  PROVE  WorkspacesTypeOK'
<1>0. /\ r \in ResourceRequests /\ r.workspace \in WorkspaceIds /\ r.text \in Cached
      /\ r.base \in Cached /\ disk \in [WorkspaceIds -> Contents] /\ Unknown \in Cached
      /\ disk[r.workspace] \in Contents /\ disk[r.workspace] \in Cached /\ texts \in Contents
  BY DEF WorkspacesTypeOK, ResourceRequests, Cached
<1>1. CASE HandleResource(r)
  <2>1. r.kind \in {"read", "status", "diff", "action"}
    BY <1>0, <1>1 DEF HandleResource, ResourceRequests
  <2>2. asked' \subseteq ResourceRequests /\ replies' \in Seq(Answers)
    BY <1>0, <1>1, <2>1, ReplyTyped DEF HandleResource
  <2> QED BY <1>1, <2>2 DEF HandleResource, WorkspacesTypeOK, agentWorkspaceVars
<1>2. CASE CheckWrite(r)
  <2>1. [r EXCEPT !.checked = TRUE] \in ResourceRequests
    BY <1>0 DEF ResourceRequests
  <2>2. asked' \subseteq ResourceRequests /\ replies' \in Seq(Answers)
    <3>1. CASE BaseAgrees(r)
      BY <1>2, <2>1, <3>1 DEF CheckWrite, WorkspacesTypeOK
    <3>2. CASE ~BaseAgrees(r)
      <4>1. Reply(r, "conflict", disk[r.workspace])
        BY <1>2, <3>2 DEF CheckWrite
      <4> QED BY <1>0, <4>1, ReplyTyped
    <3> QED BY <3>1, <3>2
  <2> QED BY <1>2, <2>2 DEF CheckWrite, WorkspacesTypeOK, agentWorkspaceVars
<1>3. CASE FinishWrite(r)
  <2>1. r.text \in Contents
    BY <1>0, <1>3, Bounds DEF FinishWrite, StillAgrees, TextsKnown, Contents, Cached, Unknown
  <2>2. asked' \subseteq ResourceRequests /\ replies' \in Seq(Answers)
    BY <1>0, <1>3, ReplyTyped DEF FinishWrite
  <2>3. disk' \in [WorkspaceIds -> Contents]
    BY <1>0, <1>3, <2>1 DEF FinishWrite
  <2>4. overwritten' \subseteq Contents \X Cached \X Cached
    BY <1>0, <1>3 DEF FinishWrite, WorkspacesTypeOK
  <2> QED BY <1>3, <2>2, <2>3, <2>4 DEF FinishWrite, WorkspacesTypeOK
<1>4. CASE RefuseRequest(r)
  <2>1. asked' \subseteq ResourceRequests /\ replies' \in Seq(Answers)
    BY <1>0, <1>4, ReplyTyped DEF RefuseRequest
  <2> QED BY <1>4, <2>1 DEF RefuseRequest, WorkspacesTypeOK, agentWorkspaceVars
<1>5. CASE RequestThrows(r)
  <2>1. faults' \in 0 .. MaxFaults
    BY <1>5, Bounds DEF RequestThrows, WorkspacesTypeOK
  <2> QED BY <1>5, <2>1 DEF RequestThrows, WorkspacesTypeOK
<1> QED BY <1>1, <1>2, <1>3, <1>4, <1>5

\* What is at the head of the answers, and what is behind it.
LEMMA HeadAnswer ==
  ASSUME WorkspacesTypeOK, replies # <<>>
  PROVE  /\ Head(replies) \in Answers /\ Head(replies).workspace \in WorkspaceIds
         /\ Head(replies).text \in Cached /\ Tail(replies) \in Seq(Answers)
         /\ 1 \in DOMAIN replies /\ Head(replies) = replies[1]
         /\ \A i \in DOMAIN Tail(replies) :
              i + 1 \in DOMAIN replies /\ i + 1 # 1 /\ Tail(replies)[i] = replies[i + 1]
<1>1. Head(replies) \in Answers
  BY DEF WorkspacesTypeOK
<1>2. Head(replies).workspace \in WorkspaceIds /\ Head(replies).text \in Cached
  BY <1>1 DEF Answers
<1>3. replies \in Seq(Answers)
  BY DEF WorkspacesTypeOK
<1> QED BY <1>1, <1>2, <1>3

\* The editor after an answer with a text.
LEMMA EditorTyped ==
  ASSUME WorkspacesTypeOK, NEW w \in WorkspaceIds, NEW text \in Cached, NEW kind
  PROVE  EditorAfter(w, text, kind) \in
           [workspace : WorkspaceIds \cup {NoWorkspace}, text : Cached, dirty : BOOLEAN]
BY DEF EditorAfter, WorkspacesTypeOK

LEMMA ApplyTyped ==
  ASSUME WorkspacesTypeOK, ApplyAnswer
  PROVE  WorkspacesTypeOK'
<1> DEFINE w == Head(replies).workspace
           text == Head(replies).text
           T == [WorkspaceIds -> Caches]
<1>0. /\ w \in WorkspaceIds /\ text \in Cached /\ replies' \in Seq(Answers)
      /\ UNCHANGED <<agentWorkspaceVars, selected>> /\ cache \in T /\ Unknown \in Cached
      /\ requests \in Nat /\ asked \subseteq ResourceRequests /\ stranded \subseteq WorkspaceIds
  BY HeadAnswer DEF ApplyAnswer, WorkspacesTypeOK, Cached
<1> HIDE DEF w, text
<1>1. ASSUME cache' \in T, UNCHANGED <<editor, asked, requests, stranded>>
      PROVE  WorkspacesTypeOK'
  BY <1>0, <1>1 DEF WorkspacesTypeOK, agentWorkspaceVars
<1>2. CASE ApplyFilesRead(w, text)
  <2> DEFINE c1 == [cache EXCEPT ![w].file = text]
             c2 == [c1 EXCEPT ![w].fileLoading = FALSE]
  <2>1. c1 \in T
    BY <1>0, FieldTyped
  <2> HIDE DEF c1
  <2>2. c2 \in T
    BY <1>0, <2>1, FieldTyped
  <2>3. cache' = c2
    BY <1>2 DEF ApplyFilesRead, c1
  <2>4. editor' \in [workspace : WorkspaceIds \cup {NoWorkspace}, text : Cached, dirty : BOOLEAN]
    BY <1>0, <1>2, EditorTyped DEF ApplyFilesRead
  <2> QED BY <1>0, <1>2, <2>2, <2>3, <2>4 DEF ApplyFilesRead, WorkspacesTypeOK, agentWorkspaceVars
<1>3. CASE ApplyFilesSaved(w, text)
  <2> DEFINE c1 == [cache EXCEPT ![w].file = text]
             c2 == [c1 EXCEPT ![w].saving = FALSE]
             c3 == [c2 EXCEPT ![w].statusLoading = TRUE]
             c4 == [c3 EXCEPT ![w].diff = Unknown]
             c5 == [c4 EXCEPT ![w].diffLoading = cache[w].diffActive]
  <2>0. cache[w].diffActive \in BOOLEAN
    BY <1>0 DEF Caches
  <2>1. c1 \in T
    BY <1>0, FieldTyped
  <2> HIDE DEF c1
  <2>2. c2 \in T
    BY <1>0, <2>1, FieldTyped
  <2> HIDE DEF c2
  <2>3. c3 \in T
    BY <1>0, <2>2, FieldTyped
  <2> HIDE DEF c3
  <2>4. c4 \in T
    BY <1>0, <2>3, FieldTyped
  <2> HIDE DEF c4
  <2>5. c5 \in T
    BY <1>0, <2>0, <2>4, FieldTyped
  <2>6. cache' = c5
    BY <1>3 DEF ApplyFilesSaved, c1, c2, c3, c4
  <2>7. editor' \in [workspace : WorkspaceIds \cup {NoWorkspace}, text : Cached, dirty : BOOLEAN]
    BY <1>0, <1>3, EditorTyped DEF ApplyFilesSaved
  <2>8. asked' \subseteq ResourceRequests /\ requests' \in Nat
    BY <1>0, <1>3, FollowUpsTyped, AskTyped DEF ApplyFilesSaved
  <2>9. stranded' \subseteq WorkspaceIds
    BY <1>0, <1>3 DEF ApplyFilesSaved
  <2> QED BY <1>0, <2>5, <2>6, <2>7, <2>8, <2>9 DEF WorkspacesTypeOK, agentWorkspaceVars
<1>4. CASE ApplyConflict(w)
  <2>1. cache' \in T
    BY <1>0, <1>4, FieldTyped DEF ApplyConflict
  <2> QED BY <1>1, <1>4, <2>1 DEF ApplyConflict
<1>5. CASE ApplyGitStatus(w, text)
  <2> DEFINE c1 == [cache EXCEPT ![w].status = text]
             c2 == [c1 EXCEPT ![w].statusLoading = FALSE]
  <2>1. c1 \in T
    BY <1>0, FieldTyped
  <2> HIDE DEF c1
  <2>2. c2 \in T
    BY <1>0, <2>1, FieldTyped
  <2>3. cache' = c2
    BY <1>5 DEF ApplyGitStatus, c1
  <2> QED BY <1>1, <1>5, <2>2, <2>3 DEF ApplyGitStatus
<1>6. CASE ApplyGitDiff(w, text)
  <2> DEFINE c1 == [cache EXCEPT ![w].diff = text]
             c2 == [c1 EXCEPT ![w].diffLoading = FALSE]
  <2>1. c1 \in T
    BY <1>0, FieldTyped
  <2> HIDE DEF c1
  <2>2. c2 \in T
    BY <1>0, <2>1, FieldTyped
  <2>3. cache' = c2
    BY <1>6 DEF ApplyGitDiff, c1
  <2> QED BY <1>1, <1>6, <2>2, <2>3 DEF ApplyGitDiff
<1>7. CASE ApplyGitRefused(w)
  <2>1. cache' \in T
    BY <1>0, <1>7, FieldTyped DEF ApplyGitRefused
  <2> QED BY <1>1, <1>7, <2>1 DEF ApplyGitRefused
<1>8. CASE ApplyGitAction(w, text)
  <2> DEFINE c == [EmptyCache EXCEPT !.file = cache[w].file, !.fileLoading = cache[w].fileLoading,
                                     !.saving = cache[w].saving, !.status = text]
  <2>1. c \in Caches
    <3>1. cache[w].file \in Cached /\ cache[w].fileLoading \in BOOLEAN /\ cache[w].saving \in BOOLEAN
      BY <1>0 DEF Caches
    <3>2. EmptyCache \in Caches
      BY <1>0 DEF EmptyCache, Caches
    <3>3. [EmptyCache EXCEPT !.file = cache[w].file, !.fileLoading = cache[w].fileLoading] \in Caches
      BY <3>1, <3>2 DEF Caches
    <3> QED BY <1>0, <3>1, <3>3 DEF Caches
  <2>2. cache' = [cache EXCEPT ![w] = c]
    BY <1>8 DEF ApplyGitAction
  <2>3. cache' \in T
    BY <1>0, <2>1, <2>2
  <2> QED BY <1>1, <1>8, <2>3 DEF ApplyGitAction
<1> QED BY <1>2, <1>3, <1>4, <1>5, <1>6, <1>7, <1>8 DEF ApplyAnswer, w, text

LEMMA TypeStep ==
  WorkspacesTypeOK /\ TextsKnown /\ StillAgrees /\ [WorkspacesNext]_workspacesVars
    => WorkspacesTypeOK'
<1> SUFFICES ASSUME WorkspacesTypeOK, TextsKnown, StillAgrees, [WorkspacesNext]_workspacesVars
             PROVE  WorkspacesTypeOK'
  OBVIOUS
<1>1. CASE ReloadEditorFile \/ CloseFileEditor \/ StageFile
  <2>1. ASSUME NEW w \in WorkspaceIds PROVE WorkspacesTypeOK'
    BY <1>1, ScreensTyped
  <2>2. CASE WorkspaceIds = {}
    <3>1. editor.workspace = NoWorkspace /\ selected = NoWorkspace
      BY <2>2 DEF WorkspacesTypeOK
    <3> QED BY <1>1, <3>1 DEF ReloadEditorFile, CloseFileEditor, StageFile
  <2> QED BY <2>1, <2>2
<1>2. CASE UNCHANGED workspacesVars
  BY <1>2 DEF WorkspacesTypeOK, workspacesVars
<1> QED BY <1>1, <1>2, ScreensTyped, SaveTyped, HostTyped, HandledTyped, ApplyTyped
        DEF WorkspacesNext, HandleRequest

-----------------------------------------------------------------------------
(* What the steps have in common.                                          *)

\* The part of the invariant that is about saves.
SavesOK == TextsKnown /\ OneSave /\ StillAgrees /\ SavesKeepOthers

\* A step after which no save, outcome or text is there that was not before.
LEMMA QuietSaves ==
  ASSUME SavesOK, UNCHANGED <<disk, texts, overwritten>>,
         \A r \in asked' : r.kind = "write" \/ r.checked => r \in asked,
         \A w \in WorkspaceIds : Outcomes(w)' = {} \/ Outcomes(w)' = Outcomes(w),
         \A w \in WorkspaceIds : cache'[w].saving = cache[w].saving,
         editor'.dirty => editor' = editor
  PROVE  SavesOK'
<1>1. TextsKnown' /\ StillAgrees' /\ SavesKeepOthers'
  BY DEF SavesOK, TextsKnown, StillAgrees, SavesKeepOthers
<1>2. \A w \in WorkspaceIds : Saves(w)' \subseteq Saves(w)
  BY DEF Saves
<1>3. OneSave'
  BY <1>2 DEF SavesOK, OneSave
<1> QED BY <1>1, <1>3 DEF SavesOK

\* The outcomes after one more answer.
LEMMA OutcomesAppend ==
  ASSUME WorkspacesTypeOK, NEW a \in Answers, replies' = Append(replies, a),
         NEW w \in WorkspaceIds
  PROVE  /\ a.kind \notin {"saved", "conflict"} \/ a.workspace # w => Outcomes(w)' = Outcomes(w)
         /\ Outcomes(w) = {} => \A i, j \in Outcomes(w)' : i = j
<1>1. /\ replies \in Seq(Answers) /\ DOMAIN replies = 1 .. Len(replies) /\ Len(replies) \in Nat
      /\ DOMAIN replies' = 1 .. Len(replies) + 1 /\ replies'[Len(replies) + 1] = a
      /\ \A i \in DOMAIN replies : replies'[i] = replies[i]
  BY DEF WorkspacesTypeOK
<1>2. Outcomes(w)' \subseteq Outcomes(w) \cup {Len(replies) + 1} /\ Outcomes(w) \subseteq Outcomes(w)'
  BY <1>1 DEF Outcomes
<1>3. a.kind \notin {"saved", "conflict"} \/ a.workspace # w => Len(replies) + 1 \notin Outcomes(w)'
  BY <1>1 DEF Outcomes
<1> QED BY <1>2, <1>3

\* A save is answered: its request is gone, and its outcome the only one.
LEMMA SaveAnswered ==
  ASSUME WorkspacesTypeOK, OneSave, NEW r \in asked, r.kind = "write",
         NEW a \in Answers, a.workspace = r.workspace,
         asked' = asked \ {r}, replies' = Append(replies, a), UNCHANGED cache
  PROVE  OneSave'
<1>0. r.workspace \in WorkspaceIds /\ r \in Saves(r.workspace)
  BY DEF WorkspacesTypeOK, ResourceRequests, Saves
<1>1. /\ Saves(r.workspace)' = {} /\ cache[r.workspace].saving /\ Outcomes(r.workspace) = {}
  BY <1>0 DEF OneSave, Saves
<1>2. ASSUME NEW w \in WorkspaceIds, w # r.workspace
      PROVE  Saves(w)' = Saves(w) /\ Outcomes(w)' = Outcomes(w)
  BY <1>2, OutcomesAppend DEF Saves
<1>3. \A i, j \in Outcomes(r.workspace)' : i = j
  BY <1>0, <1>1, OutcomesAppend
<1> QED BY <1>0, <1>1, <1>2, <1>3 DEF OneSave

-----------------------------------------------------------------------------
(* The steps.                                                              *)

LEMMA ScreensSave ==
  ASSUME WorkspacesTypeOK, SavesOK,
         \/ \E w \in WorkspaceIds : \/ OpenFileEditor(w) \/ OpenWorkspaceGit(w)
                                    \/ RefreshWorkspaceGit(w) \/ OpenGitReview(w)
         \/ ReloadEditorFile \/ StageFile \/ CloseFileEditor
  PROVE  SavesOK'
<1>0. requests \in Nat /\ cache \in [WorkspaceIds -> Caches]
      /\ editor.workspace \in WorkspaceIds \cup {NoWorkspace}
      /\ selected \in WorkspaceIds \cup {NoWorkspace}
  BY DEF WorkspacesTypeOK
<1>1. /\ UNCHANGED <<disk, texts, overwritten, replies>>
      /\ editor'.dirty => editor' = editor
  <2>1. UNCHANGED <<disk, texts, overwritten, replies>>
    BY DEF OpenFileEditor, OpenWorkspaceGit, RefreshWorkspaceGit, OpenGitReview, ReloadEditorFile,
           StageFile, CloseFileEditor, agentWorkspaceVars
  <2>2. editor' = editor \/ editor' = NoEditor
          \/ \E w \in WorkspaceIds : editor' = [workspace |-> w, text |-> cache[w].file, dirty |-> FALSE]
    BY DEF OpenFileEditor, OpenWorkspaceGit, RefreshWorkspaceGit, OpenGitReview, ReloadEditorFile,
           StageFile, CloseFileEditor
  <2>3. editor'.dirty => editor' = editor
    BY <2>2 DEF NoEditor
  <2> QED BY <2>1, <2>3
<1>2. \A r \in asked' : r.kind = "write" \/ r.checked => r \in asked
  <2>1. \/ asked' = asked
        \/ \E w \in WorkspaceIds, k \in {"read", "status", "diff", "action"} :
             asked' = asked \cup {Request(k, w, 1)}
    BY <1>0 DEF OpenFileEditor, OpenWorkspaceGit, RefreshWorkspaceGit, OpenGitReview,
                ReloadEditorFile, StageFile, CloseFileEditor, AskAsUser, AskAgent
  <2> QED BY <1>0, <2>1, RequestTyped
<1>3. \A v \in WorkspaceIds : cache'[v].saving = cache[v].saving
  <2> SUFFICES ASSUME NEW v \in WorkspaceIds PROVE cache'[v].saving = cache[v].saving
    OBVIOUS
  <2>0. cache[v] \in Caches
    BY <1>0
  <2>1. CASE \E w \in WorkspaceIds : OpenFileEditor(w) \/ OpenWorkspaceGit(w)
    BY <1>0, <2>0, <2>1 DEF OpenFileEditor, OpenWorkspaceGit, Caches
  <2>2. ASSUME NEW w \in WorkspaceIds, RefreshWorkspaceGit(w)
        PROVE  cache'[v].saving = cache[v].saving
    BY <1>0, <2>0, <2>2 DEF RefreshWorkspaceGit, Caches
  <2>3. ASSUME NEW w \in WorkspaceIds, OpenGitReview(w)
        PROVE  cache'[v].saving = cache[v].saving
    BY <1>0, <2>0, <2>3 DEF OpenGitReview, Caches
  <2>4. CASE ReloadEditorFile \/ StageFile \/ CloseFileEditor
    BY <1>0, <2>0, <2>4 DEF ReloadEditorFile, StageFile, CloseFileEditor, Caches
  <2> QED BY <2>1, <2>2, <2>3, <2>4
<1>4. \A w \in WorkspaceIds : Outcomes(w)' = Outcomes(w)
  BY <1>1 DEF Outcomes
<1> QED BY <1>1, <1>2, <1>3, <1>4, QuietSaves

LEMMA SaveSaves ==
  ASSUME WorkspacesTypeOK, SavesOK, SaveEditorFile
  PROVE  SavesOK'
<1> DEFINE w == editor.workspace
           r == [Request("write", w, 1) EXCEPT !.base = cache[w].file, !.text = editor.text]
<1>0. /\ w \in WorkspaceIds /\ editor.text <= texts /\ requests \in Nat
      /\ cache \in [WorkspaceIds -> Caches] /\ ~cache[w].saving
  <2>1. editor.dirty /\ editor.workspace # NoWorkspace /\ editor.text <= texts
    BY DEF SaveEditorFile, SavesOK, TextsKnown
  <2> QED BY <2>1 DEF SaveEditorFile, WorkspacesTypeOK
<1>1. Saves(w) = {} /\ Outcomes(w) = {}
  BY <1>0 DEF SavesOK, OneSave
<1>2. /\ r.kind = "write" /\ r.workspace = w /\ r.text = editor.text /\ ~r.checked
  <2>1. Request("write", w, 1) \in ResourceRequests /\ ~Request("write", w, 1).checked
        /\ Request("write", w, 1).kind = "write" /\ Request("write", w, 1).workspace = w
    BY <1>0, RequestTyped
  <2> QED BY <2>1 DEF ResourceRequests
<1> HIDE DEF r
<1>3. /\ asked' = asked \cup {r} /\ cache' = [cache EXCEPT ![w].saving = TRUE]
      /\ UNCHANGED <<disk, texts, overwritten, replies, editor>>
  BY DEF SaveEditorFile, AskAsUser, AskAgent, agentWorkspaceVars, r
<1>4. \A v \in WorkspaceIds : Outcomes(v)' = Outcomes(v)
  BY <1>3 DEF Outcomes
<1>5. /\ Saves(w)' = {r} /\ cache'[w].saving
      /\ \A v \in WorkspaceIds : v # w => Saves(v)' = Saves(v) /\ cache'[v] = cache[v]
  BY <1>0, <1>1, <1>2, <1>3 DEF Saves, Caches
<1>6. OneSave'
  <2> SUFFICES ASSUME NEW v \in WorkspaceIds
               PROVE  /\ \A x, y \in Saves(v)' : x = y
                      /\ \A i, j \in Outcomes(v)' : i = j
                      /\ Saves(v)' # {} => Outcomes(v)' = {}
                      /\ Saves(v)' # {} \/ Outcomes(v)' # {} => cache'[v].saving
    BY DEF OneSave
  <2>1. CASE v = w
    <3>1. Saves(v)' = {r} /\ Outcomes(v)' = {}
      <4>1. Outcomes(v)' = Outcomes(v) /\ Outcomes(v) = {}
        BY <1>1, <1>4, <2>1
      <4>2. Saves(v)' = {r}
        BY <1>3, <1>5, <2>1 DEF Saves
      <4> QED BY <4>1, <4>2
    <3>2. cache'[v].saving
      BY <1>5, <2>1
    <3> QED BY <3>1, <3>2
  <2>2. CASE v # w
    <3>1. Saves(v)' = Saves(v) /\ cache'[v] = cache[v] /\ Outcomes(v)' = Outcomes(v)
      BY <1>4, <1>5, <2>2
    <3> QED BY <3>1 DEF SavesOK, OneSave
  <2> QED BY <2>1, <2>2
<1>7. TextsKnown' /\ StillAgrees' /\ SavesKeepOthers'
  BY <1>0, <1>2, <1>3 DEF SavesOK, TextsKnown, StillAgrees, SavesKeepOthers
<1> QED BY <1>6, <1>7 DEF SavesOK

LEMMA HostSaves ==
  ASSUME WorkspacesTypeOK, SavesOK, TypeText \/ BreakLink \/ \E w \in WorkspaceIds : HostWrites(w)
  PROVE  SavesOK'
<1>0. /\ texts \in Nat /\ disk \in [WorkspaceIds -> Contents] /\ MaxTexts \in Nat
      /\ \A w \in WorkspaceIds : disk[w] \in Nat
      /\ \A r \in asked : r.text \in Nat /\ r.workspace \in WorkspaceIds
      /\ editor.text \in Nat
  BY Bounds DEF WorkspacesTypeOK, Contents, ResourceRequests, Cached, Unknown
<1>1. CASE TypeText
  <2>1. /\ UNCHANGED <<disk, cache, asked, replies, overwritten>> /\ texts' = texts + 1
        /\ editor' = [editor EXCEPT !.text = texts + 1, !.dirty = TRUE]
        /\ editor.workspace # NoWorkspace
    BY <1>1 DEF TypeText
  <2>2. editor'.text = texts + 1 /\ editor'.workspace = editor.workspace
    BY <2>1 DEF WorkspacesTypeOK
  <2>3. TextsKnown'
    BY <1>0, <2>1, <2>2 DEF SavesOK, TextsKnown
  <2>4. OneSave' /\ StillAgrees' /\ SavesKeepOthers'
    BY <2>1 DEF SavesOK, OneSave, Saves, Outcomes, StillAgrees, SavesKeepOthers
  <2> QED BY <2>3, <2>4 DEF SavesOK
<1>2. CASE BreakLink
  <2>1. UNCHANGED <<disk, texts, overwritten, cache, editor>> /\ asked' = {} /\ replies' = <<>>
    BY <1>2 DEF BreakLink
  <2>2. \A w \in WorkspaceIds : Outcomes(w)' = {}
    BY <2>1 DEF Outcomes
  <2> QED BY <2>1, <2>2, QuietSaves
<1>3. ASSUME NEW w \in WorkspaceIds, HostWrites(w) PROVE SavesOK'
  <2>1. /\ UNCHANGED <<cache, editor, asked, replies, overwritten>> /\ texts' = texts + 1
        /\ disk' = [disk EXCEPT ![w] = texts + 1]
    BY <1>3 DEF HostWrites
  <2>2. TextsKnown'
    BY <1>0, <2>1 DEF SavesOK, TextsKnown
  <2>3. StillAgrees'
    BY <1>0, <2>1 DEF SavesOK, StillAgrees, TextsKnown
  <2>4. OneSave' /\ SavesKeepOthers'
    BY <2>1 DEF SavesOK, OneSave, Saves, Outcomes, SavesKeepOthers
  <2> QED BY <2>2, <2>3, <2>4 DEF SavesOK
<1> QED BY <1>1, <1>2, <1>3

LEMMA HandledSaves ==
  ASSUME WorkspacesTypeOK, SavesOK, NEW r \in asked,
         HandleResource(r) \/ CheckWrite(r) \/ FinishWrite(r) \/ RefuseRequest(r) \/ RequestThrows(r)
  PROVE  SavesOK'
<1> DEFINE w == r.workspace
<1>0. /\ r \in ResourceRequests /\ w \in WorkspaceIds /\ r.text \in Nat /\ texts \in Nat
      /\ r.text \in Cached /\ disk \in [WorkspaceIds -> Contents] /\ disk[w] \in Cached
      /\ Unknown \in Cached /\ \A v \in WorkspaceIds : disk[v] \in Nat
      /\ asked \subseteq ResourceRequests
  BY Bounds DEF WorkspacesTypeOK, Contents, ResourceRequests, Cached, Unknown
<1>1. CASE HandleResource(r) \/ RequestThrows(r)
  <2>1. /\ UNCHANGED <<disk, texts, overwritten, cache, editor>> /\ asked' = asked \ {r}
    BY <1>1 DEF HandleResource, RequestThrows, Reply, agentWorkspaceVars
  <2>2. \A v \in WorkspaceIds : Outcomes(v)' = Outcomes(v)
    <3>1. CASE RequestThrows(r)
      BY <3>1 DEF RequestThrows, Outcomes
    <3>2. CASE HandleResource(r)
      <4> DEFINE a == [kind |-> r.kind, workspace |-> w, text |-> disk[w]]
      <4>1. a \in Answers /\ a.kind \notin {"saved", "conflict"} /\ replies' = Append(replies, a)
        BY <1>0, <3>2 DEF HandleResource, Reply, ResourceRequests, Answers
      <4> QED BY <4>1, OutcomesAppend
    <3> QED BY <1>1, <3>1, <3>2
  <2> QED BY <2>1, <2>2, QuietSaves
<1>2. CASE r.kind = "action" /\ RefuseRequest(r)
  <2> DEFINE a == [kind |-> "refused", workspace |-> w, text |-> Unknown]
  <2>1. /\ UNCHANGED <<disk, texts, overwritten, cache, editor>> /\ asked' = asked \ {r}
        /\ replies' = Append(replies, a)
    BY <1>2 DEF RefuseRequest, Reply, agentWorkspaceVars
  <2>2. a \in Answers /\ a.kind \notin {"saved", "conflict"}
    BY <1>0 DEF Answers
  <2>3. \A v \in WorkspaceIds : Outcomes(v)' = Outcomes(v)
    BY <2>1, <2>2, OutcomesAppend
  <2> QED BY <2>1, <2>3, QuietSaves
<1>3. CASE r.kind = "write" /\ (RefuseRequest(r) \/ (CheckWrite(r) /\ ~BaseAgrees(r)))
  <2>1. PICK text \in Cached : Reply(r, "conflict", text)
    BY <1>0, <1>3 DEF RefuseRequest, CheckWrite
  <2> DEFINE a == [kind |-> "conflict", workspace |-> w, text |-> text]
  <2>2. /\ UNCHANGED <<disk, texts, overwritten, cache, editor>> /\ asked' = asked \ {r}
        /\ replies' = Append(replies, a)
    BY <1>3, <2>1 DEF RefuseRequest, CheckWrite, Reply, agentWorkspaceVars
  <2>3. a \in Answers /\ a.workspace = w
    BY <1>0 DEF Answers
  <2>4. OneSave'
    BY <1>3, <2>2, <2>3, SaveAnswered DEF SavesOK
  <2>5. TextsKnown' /\ StillAgrees' /\ SavesKeepOthers'
    BY <2>2 DEF SavesOK, TextsKnown, StillAgrees, SavesKeepOthers
  <2> QED BY <2>4, <2>5 DEF SavesOK
<1>4. CASE CheckWrite(r) /\ BaseAgrees(r)
  <2> DEFINE s == [r EXCEPT !.checked = TRUE]
  <2>1. /\ UNCHANGED <<disk, texts, overwritten, cache, editor, replies>>
        /\ asked' = (asked \ {r}) \cup {s} /\ r.kind = "write" /\ r.base = disk[w]
    BY <1>4 DEF CheckWrite, agentWorkspaceVars, BaseAgrees
  <2>2. /\ s.kind = "write" /\ s.workspace = w /\ s.base = r.base /\ s.text = r.text
    BY <1>0, <2>1 DEF ResourceRequests
  <2> HIDE DEF s
  <2>3. TextsKnown' /\ StillAgrees' /\ SavesKeepOthers'
    BY <2>1, <2>2 DEF SavesOK, TextsKnown, StillAgrees, SavesKeepOthers
  <2>4. OneSave'
    <3>1. /\ Saves(w) = {r} /\ Saves(w)' = {s}
          /\ \A v \in WorkspaceIds : v # w => Saves(v)' = Saves(v)
      BY <1>0, <2>1, <2>2 DEF SavesOK, OneSave, Saves
    <3>2. \A v \in WorkspaceIds : Outcomes(v)' = Outcomes(v) /\ cache'[v] = cache[v]
      BY <2>1 DEF Outcomes
    <3> QED BY <1>0, <3>1, <3>2 DEF SavesOK, OneSave
  <2> QED BY <2>3, <2>4 DEF SavesOK
<1>5. CASE FinishWrite(r)
  <2> DEFINE a == [kind |-> "saved", workspace |-> w, text |-> r.text]
  <2>1. /\ UNCHANGED <<texts, cache, editor>> /\ asked' = asked \ {r} /\ replies' = Append(replies, a)
        /\ disk' = [disk EXCEPT ![w] = r.text]
        /\ overwritten' = overwritten \cup {<<disk[w], r.base, r.text>>}
        /\ r.checked /\ r.kind = "write"
        /\ disk[w] = r.base \/ disk[w] > r.text
    BY <1>5 DEF FinishWrite, Reply, SavesOK, StillAgrees
  <2>2. a \in Answers /\ a.workspace = w /\ r.kind = "write" /\ r.text <= texts
    BY <1>0, <1>5 DEF Answers, FinishWrite, SavesOK, StillAgrees, TextsKnown
  <2>3. OneSave'
    BY <2>1, <2>2, SaveAnswered DEF SavesOK
  <2>4. TextsKnown'
    BY <1>0, <2>1, <2>2 DEF SavesOK, TextsKnown
  <2>5. SavesKeepOthers'
    BY <1>5, <2>1 DEF SavesOK, SavesKeepOthers, StillAgrees, FinishWrite
  <2>6. StillAgrees'
    <3> SUFFICES ASSUME NEW x \in asked', x.checked
                 PROVE  x.kind = "write" /\ (disk'[x.workspace] = x.base \/ disk'[x.workspace] > x.text)
      BY DEF StillAgrees
    <3>1. x \in asked /\ x # r /\ x.kind = "write" /\ x.workspace \in WorkspaceIds
      BY <1>0, <2>1 DEF SavesOK, StillAgrees, ResourceRequests
    <3>2. x.workspace # w
      BY <1>0, <2>2, <3>1 DEF SavesOK, OneSave, Saves
    <3> QED BY <1>0, <2>1, <3>1, <3>2 DEF SavesOK, StillAgrees
  <2> QED BY <2>3, <2>4, <2>5, <2>6 DEF SavesOK
<1>6. CASE RefuseRequest(r)
  <2>1. r.kind = "action" \/ r.kind = "write"
    BY <1>6 DEF RefuseRequest
  <2> QED BY <1>2, <1>3, <1>6, <2>1
<1>7. CASE CheckWrite(r)
  <2>1. r.kind = "write"
    BY <1>7 DEF CheckWrite
  <2> QED BY <1>3, <1>4, <1>7, <2>1
<1> QED BY <1>1, <1>5, <1>6, <1>7

LEMMA ApplySaves ==
  ASSUME WorkspacesTypeOK, SavesOK, ApplyAnswer
  PROVE  SavesOK'
<1> DEFINE answer == Head(replies)
           u == Head(replies).workspace
           text == Head(replies).text
<1>0. /\ u \in WorkspaceIds /\ replies' = Tail(replies) /\ replies # <<>>
      /\ UNCHANGED <<disk, texts, overwritten>> /\ cache \in [WorkspaceIds -> Caches]
      /\ requests \in Nat
  BY HeadAnswer DEF ApplyAnswer, WorkspacesTypeOK, agentWorkspaceVars
<1>1. /\ 1 \in DOMAIN replies /\ answer = replies[1]
      /\ \A i \in DOMAIN replies' :
           i + 1 \in DOMAIN replies /\ i + 1 # 1 /\ replies'[i] = replies[i + 1] /\ i \in Nat
  <2>1. \A i \in DOMAIN Tail(replies) : i \in Nat
    BY <1>0 DEF WorkspacesTypeOK
  <2> QED BY <1>0, <2>1, HeadAnswer
<1>2. PICK w \in WorkspaceIds : w = u
  BY <1>0
<1>3. \A v \in WorkspaceIds : \A i \in Outcomes(v)' : i + 1 \in Outcomes(v)
  BY <1>1 DEF Outcomes
<1>4. answer.kind \in {"saved", "conflict"} => 1 \in Outcomes(w)
  BY <1>1, <1>2 DEF Outcomes
<1>5. \A r \in asked' : r.kind = "write" \/ r.checked => r \in asked
  BY <1>0, FollowUpsTyped
     DEF ApplyAnswer, ApplyFilesRead, ApplyFilesSaved, ApplyConflict, ApplyGitStatus, ApplyGitDiff,
         ApplyGitRefused, ApplyGitAction, AskAgent
<1>6. editor'.dirty => editor' = editor
  <2>1. ASSUME NEW v, NEW t, NEW k, editor' = EditorAfter(v, t, k)
        PROVE  editor'.dirty => editor' = editor
    BY <2>1 DEF EditorAfter, WorkspacesTypeOK
  <2>2. editor' = editor \/ \E v, t, k : editor' = EditorAfter(v, t, k)
    BY DEF ApplyAnswer, ApplyFilesRead, ApplyFilesSaved, ApplyConflict, ApplyGitStatus,
           ApplyGitDiff, ApplyGitRefused, ApplyGitAction
  <2> QED BY <2>1, <2>2
<1>7. \A v \in WorkspaceIds :
        cache'[v].saving = cache[v].saving \/ (v = w /\ answer.kind \in {"saved", "conflict"})
  <2> SUFFICES ASSUME NEW v \in WorkspaceIds,
                      v # w \/ answer.kind \notin {"saved", "conflict"}
               PROVE  cache'[v].saving = cache[v].saving
    OBVIOUS
  <2>0. cache[v] \in Caches /\ cache[w] \in Caches
    BY <1>0
  <2>1. CASE answer.kind = "read" /\ ApplyFilesRead(w, text)
    BY <1>0, <2>0, <2>1 DEF ApplyFilesRead, Caches
  <2>2. CASE answer.kind = "saved" /\ ApplyFilesSaved(w, text)
    BY <1>0, <2>0, <2>2 DEF ApplyFilesSaved, Caches
  <2>3. CASE answer.kind = "conflict" /\ ApplyConflict(w)
    BY <1>0, <2>0, <2>3 DEF ApplyConflict, Caches
  <2>4. CASE ApplyGitStatus(w, text) \/ ApplyGitDiff(w, text) \/ ApplyGitRefused(w)
    BY <1>0, <2>0, <2>4 DEF ApplyGitStatus, ApplyGitDiff, ApplyGitRefused, Caches
  <2>5. CASE ApplyGitAction(w, text)
    <3> DEFINE c == [EmptyCache EXCEPT !.file = cache[w].file,
                       !.fileLoading = cache[w].fileLoading,
                       !.saving = cache[w].saving, !.status = text]
    <3>1. EmptyCache \in Caches
      BY DEF EmptyCache, Caches, Cached
    <3>2. c.saving = cache[w].saving
      BY <2>0, <3>1 DEF Caches
    <3>3. cache' = [cache EXCEPT ![w] = c]
      BY <2>5 DEF ApplyGitAction
    <3> HIDE DEF c
    <3> QED BY <1>0, <3>2, <3>3
  <2> QED BY <1>2, <2>1, <2>2, <2>3, <2>4, <2>5 DEF ApplyAnswer
<1>8. TextsKnown' /\ StillAgrees' /\ SavesKeepOthers'
  BY <1>0, <1>5, <1>6 DEF SavesOK, TextsKnown, StillAgrees, SavesKeepOthers
<1>9. OneSave'
  <2> SUFFICES ASSUME NEW v \in WorkspaceIds
               PROVE  /\ \A x, y \in Saves(v)' : x = y
                      /\ \A i, j \in Outcomes(v)' : i = j
                      /\ Saves(v)' # {} => Outcomes(v)' = {}
                      /\ Saves(v)' # {} \/ Outcomes(v)' # {} => cache'[v].saving
    BY DEF OneSave
  <2>1. Saves(v)' \subseteq Saves(v)
    BY <1>5 DEF Saves
  <2>2. \A i, j \in Outcomes(v)' : i = j
    <3> SUFFICES ASSUME NEW i \in Outcomes(v)', NEW j \in Outcomes(v)' PROVE i = j
      OBVIOUS
    <3>1. i + 1 = j + 1
      BY <1>3 DEF SavesOK, OneSave
    <3>2. i \in Nat /\ j \in Nat
      BY <1>1 DEF Outcomes
    <3> QED BY <3>1, <3>2
  <2>3. Outcomes(v)' # {} => Outcomes(v) # {}
    BY <1>3
  <2>4. CASE v = w /\ answer.kind \in {"saved", "conflict"}
    <3>1. Saves(v) = {}
      BY <1>4, <2>4 DEF SavesOK, OneSave
    <3>2. Outcomes(v)' = {}
      <4> SUFFICES ASSUME NEW i \in Outcomes(v)' PROVE FALSE
        OBVIOUS
      <4>1. i + 1 = 1
        BY <1>3, <1>4, <2>4 DEF SavesOK, OneSave
      <4> QED BY <1>1, <4>1 DEF Outcomes
    <3> QED BY <2>1, <2>2, <3>1, <3>2
  <2>5. CASE cache'[v].saving = cache[v].saving
    BY <2>1, <2>2, <2>3, <2>5 DEF SavesOK, OneSave
  <2> QED BY <1>7, <2>4, <2>5
<1> QED BY <1>8, <1>9 DEF SavesOK

LEMMA SavesStep ==
  WorkspacesTypeOK /\ SavesOK /\ [WorkspacesNext]_workspacesVars => SavesOK'
<1> SUFFICES ASSUME WorkspacesTypeOK, SavesOK, [WorkspacesNext]_workspacesVars PROVE SavesOK'
  OBVIOUS
<1>1. CASE UNCHANGED workspacesVars
  BY <1>1 DEF workspacesVars, SavesOK, TextsKnown, OneSave, Saves, Outcomes, StillAgrees,
              SavesKeepOthers
<1> QED BY <1>1, ScreensSave, SaveSaves, HostSaves, HandledSaves, ApplySaves
        DEF WorkspacesNext, HandleRequest

-----------------------------------------------------------------------------
(* Theorems.                                                               *)

LEMMA InitIInv == WorkspacesInit => IInv
<1> SUFFICES ASSUME WorkspacesInit PROVE IInv
  OBVIOUS
<1> USE DEF WorkspacesInit
<1>1. 0 \in Contents /\ Unknown \in Cached /\ 0 \in 0 .. MaxFaults
  BY Bounds DEF Contents, Cached
<1>2. EmptyCache \in Caches
  BY <1>1 DEF EmptyCache, Caches
<1>3. /\ disk \in [WorkspaceIds -> Contents] /\ cache \in [WorkspaceIds -> Caches]
      /\ editor \in [workspace : WorkspaceIds \cup {NoWorkspace}, text : Cached, dirty : BOOLEAN]
  BY <1>1, <1>2 DEF NoEditor
<1>4. asked \subseteq ResourceRequests /\ replies \in Seq(Answers)
  OBVIOUS
<1>5. WorkspacesTypeOK
  BY <1>1, <1>3, <1>4 DEF WorkspacesTypeOK
<1>6. TextsKnown /\ OneSave /\ StillAgrees /\ SavesKeepOthers
  BY DEF NoEditor, TextsKnown, OneSave, Saves, Outcomes, StillAgrees, SavesKeepOthers
<1> QED BY <1>5, <1>6 DEF IInv

\* What every reachable state of the workspaces satisfies.
THEOREM WorkspacesInvariant == WorkspacesSpec => []IInv
<1>1. IInv /\ [WorkspacesNext]_workspacesVars => IInv'
  BY TypeStep, SavesStep DEF IInv, SavesOK
<1> QED BY InitIInv, <1>1, PTL DEF WorkspacesSpec

\* For any workspaces, texts, requests and faults: FileService.write replaces
\* nothing its author has not seen, except what was written later than the text
\* that is saved was typed.
THEOREM SavesOverwriteNothing == WorkspacesSpec => []SavesKeepOthers
<1>1. IInv => SavesKeepOthers
  BY DEF IInv
<1> QED BY <1>1, WorkspacesInvariant, PTL

-----------------------------------------------------------------------------
(* The gesture lock: the inductive invariant.                              *)

\* What an enabled lock needs, in force and stored.
Sane(c) == c.enabled => c.initialized /\ c.gesture # NoGesture

SaneStored ==
  /\ stored # NoConfig => Sane(stored)
  /\ \A i \in DOMAIN writes : writes[i] # NoConfig => Sane(writes[i])

\* An App that has not read its configuration has asked the keychain nothing.
StartsIdle ==
  lockMode \in {"loading", "unavailable"} =>
    writes = <<>> /\ setup = "none" /\ action = "none" /\ reset.step = "none"

\* The keychain is asked to delete the configuration once, by the reset that
\* waits for it.
Deletes == {i \in DOMAIN writes : writes[i] = NoConfig}
DeletesOnce ==
  /\ \A i, j \in Deletes : i = j
  /\ Deletes # {} <=> "lock" \in reset.left

ProvenUnlocked == lockMode = "unlocked" => proven

\* The last write is the configuration in force, or there is none and the
\* configuration in force is stored.
LastAgrees ==
  ~stale /\ lockMode \notin {"loading", "unavailable"} /\ reset.step # "clearing"
     /\ Deletes = {} =>
    IF writes = <<>> THEN Normalized = lock ELSE writes[Len(writes)] = lock

LockIInv ==
  /\ LockTypeOK /\ ModeAgrees /\ SaneStored /\ StartsIdle /\ DeletesOnce
  /\ ProvenUnlocked /\ LastAgrees

-----------------------------------------------------------------------------
(* Configurations and the keychain's queue.                                *)

LEMMA DefaultTyped == DefaultConfig \in Configs /\ ~DefaultConfig.enabled
BY AppLockAssumption DEF DefaultConfig, Configs

\* Every configuration the App sets.
LEMMA ConfigsTyped ==
  ASSUME NEW c \in Configs
  PROVE  /\ \A g \in Gestures :
              LET d == [c EXCEPT !.initialized = TRUE, !.enabled = TRUE, !.gesture = g]
              IN  d \in Configs /\ d.enabled /\ Sane(d)
         /\ \A o \in AutoLocks :
              LET d == [c EXCEPT !.auto = o]
              IN  d \in Configs /\ (d.enabled <=> c.enabled) /\ (Sane(c) => Sane(d))
         /\ LET d == [c EXCEPT !.enabled = FALSE, !.gesture = NoGesture]
            IN  d \in Configs /\ ~d.enabled /\ Sane(d)
         /\ LET d == [DefaultConfig EXCEPT !.initialized = TRUE]
            IN  d \in Configs /\ ~d.enabled /\ Sane(d)
<1> USE DEF Configs
<1>1. ASSUME NEW g \in Gestures
      PROVE  LET d == [c EXCEPT !.initialized = TRUE, !.enabled = TRUE, !.gesture = g]
             IN  d \in Configs /\ d.enabled /\ Sane(d)
  <2> DEFINE x == [c EXCEPT !.initialized = TRUE]
             y == [x EXCEPT !.enabled = TRUE]
             d == [y EXCEPT !.gesture = g]
  <2>1. x \in Configs /\ x.initialized
    OBVIOUS
  <2>2. y \in Configs /\ y.initialized /\ y.enabled
    BY <2>1
  <2>3. g # NoGesture /\ g \in Gestures \cup {NoGesture}
    BY AppLockAssumption
  <2>4. d \in Configs /\ d.initialized /\ d.enabled /\ d.gesture = g
    BY <2>2, <2>3
  <2>5. d = [c EXCEPT !.initialized = TRUE, !.enabled = TRUE, !.gesture = g]
    OBVIOUS
  <2> QED BY <2>3, <2>4, <2>5 DEF Sane
<1>2. ASSUME NEW o \in AutoLocks
      PROVE  LET d == [c EXCEPT !.auto = o]
             IN  d \in Configs /\ (d.enabled <=> c.enabled) /\ (Sane(c) => Sane(d))
  BY DEF Sane
<1>3. LET d == [c EXCEPT !.enabled = FALSE, !.gesture = NoGesture]
      IN  d \in Configs /\ ~d.enabled /\ Sane(d)
  <2> DEFINE x == [c EXCEPT !.enabled = FALSE]
             d == [x EXCEPT !.gesture = NoGesture]
  <2>1. x \in Configs /\ ~x.enabled
    OBVIOUS
  <2>2. d \in Configs /\ ~d.enabled
    BY <2>1
  <2>3. d = [c EXCEPT !.enabled = FALSE, !.gesture = NoGesture]
    OBVIOUS
  <2> QED BY <2>2, <2>3 DEF Sane
<1>4. LET d == [DefaultConfig EXCEPT !.initialized = TRUE]
      IN  d \in Configs /\ ~d.enabled /\ Sane(d)
  BY DefaultTyped DEF Sane
<1> QED BY <1>1, <1>2, <1>3, <1>4

LEMMA QueueTyped ==
  ASSUME LockTypeOK
  PROVE  /\ Len(writes) \in Nat /\ DOMAIN writes = 1 .. Len(writes)
         /\ \A i \in DOMAIN writes : writes[i] \in Configs \cup {NoConfig}
BY DEF LockTypeOK

LEMMA AppendedIs ==
  ASSUME LockTypeOK, NEW c \in Configs \cup {NoConfig}, writes' = Append(writes, c)
  PROVE  /\ writes' \in Seq(Configs \cup {NoConfig}) /\ writes' # <<>>
         /\ Len(writes') = Len(writes) + 1 /\ writes'[Len(writes')] = c
         /\ DOMAIN writes' = 1 .. (Len(writes) + 1)
         /\ \A i \in DOMAIN writes : i \in DOMAIN writes' /\ writes'[i] = writes[i]
         /\ \A i \in DOMAIN writes' : i \in DOMAIN writes \/ i = Len(writes) + 1
BY DEF LockTypeOK

\* The configuration is set in memory and asked of the keychain.
LEMMA PersistStep ==
  ASSUME LockIInv, NEW c \in Configs, Sane(c), Persist(c), reset' = reset, stored' = stored
  PROVE  /\ lock' \in Configs /\ writes' \in Seq(Configs \cup {NoConfig})
         /\ Len(writes') <= MaxWrites /\ stale' = stale
         /\ SaneStored' /\ DeletesOnce' /\ LastAgrees'
<1> USE DEF LockIInv
<1>1. /\ Len(writes) < MaxWrites /\ lock' = c /\ writes' = Append(writes, c) /\ stale' = stale
  BY DEF Persist
<1>2. Len(writes') <= MaxWrites
  BY <1>1, AppendedIs, QueueTyped, AppLockAssumption
<1>3. /\ writes' \in Seq(Configs \cup {NoConfig}) /\ writes' # <<>>
      /\ Len(writes') = Len(writes) + 1 /\ writes'[Len(writes')] = c
      /\ \A i \in DOMAIN writes : i \in DOMAIN writes' /\ writes'[i] = writes[i]
      /\ \A i \in DOMAIN writes' : i \in DOMAIN writes \/ i = Len(writes')
  BY <1>1, AppendedIs
<1>4. c # NoConfig
  BY NothingStored
<1>5. Deletes' = Deletes
  BY <1>3, <1>4 DEF Deletes
<1>6. SaneStored'
  BY <1>3 DEF SaneStored
<1>7. DeletesOnce'
  BY <1>5 DEF DeletesOnce
<1>8. LastAgrees'
  BY <1>1, <1>3 DEF LastAgrees
<1> QED BY <1>1, <1>2, <1>3, <1>6, <1>7, <1>8

-----------------------------------------------------------------------------
(* The steps.                                                              *)

\* What the keychain holds and is asked stays.
LEMMA UnpersistedStep ==
  ASSUME LockIInv, Unpersisted, stored' = stored, reset'.left = reset.left
  PROVE  /\ lock' \in Configs /\ writes' \in Seq(Configs \cup {NoConfig})
         /\ Len(writes') <= MaxWrites /\ stale' = stale /\ lock' = lock /\ writes' = writes
         /\ SaneStored' /\ DeletesOnce'
BY DEF LockIInv, LockTypeOK, Unpersisted, SaneStored, DeletesOnce, Deletes

\* A step of the screens: the mode stays, or is that of a lock that closes, and
\* the user who stays in has proven it.
LEMMA ScreenStep ==
  ASSUME LockIInv, Unpersisted, UNCHANGED <<stored, reset, paired, keychainFailures, starts>>,
         lockMode' \in {lockMode, LockIfInactive},
         setup' \in {"none", "firstRun", "enable", "change"},
         action' \in {"none", "disable", "change"},
         age' \in 0 .. MaxAge, asleep' \in BOOLEAN,
         \/ proven' = proven
         \/ proven' = (proven /\ ~Inactive) /\ lockMode' = LockIfInactive,
         lockMode \in {"loading", "unavailable"} => setup' = setup /\ action' = action
  PROVE  LockIInv'
<1> USE DEF LockIInv
<1>1. /\ lock' = lock /\ writes' = writes /\ stale' = stale /\ SaneStored' /\ DeletesOnce'
  BY UnpersistedStep
<1>2. /\ lockMode' \in {"loading", "unavailable", "firstRunPrompt", "disabled", "locked", "unlocked"}
      /\ lockMode' \in {"locked", "unlocked"} <=> lockMode \in {"locked", "unlocked"}
      /\ lockMode' \in {"loading", "unavailable"} <=> lockMode \in {"loading", "unavailable"}
  BY DEF LockTypeOK, LockIfInactive
<1>3. proven' \in BOOLEAN
  BY DEF LockTypeOK
<1>4. LockTypeOK'
  BY <1>1, <1>2, <1>3 DEF LockTypeOK
<1>5. ModeAgrees'
  BY <1>1, <1>2 DEF ModeAgrees
<1>6. StartsIdle'
  BY <1>1, <1>2 DEF StartsIdle
<1>7. ProvenUnlocked'
  BY DEF ProvenUnlocked, LockIfInactive, LockTypeOK
<1>8. LastAgrees'
  BY <1>1, <1>2 DEF LastAgrees, Deletes, Normalized
<1> QED BY <1>1, <1>4, <1>5, <1>6, <1>7, <1>8

\* A step that sets the configuration, with the mode it means.
LEMMA SetStep ==
  ASSUME LockIInv, NEW c \in Configs, Sane(c), Persist(c),
         UNCHANGED <<asleep, reset, paired, stored, keychainFailures, starts>>,
         lockMode \notin {"loading", "unavailable"},
         lockMode' \in {"firstRunPrompt", "disabled", "locked", "unlocked"},
         c.enabled <=> lockMode' \in {"locked", "unlocked"},
         setup' \in {"none", "firstRun", "enable", "change"},
         action' \in {"none", "disable", "change"},
         age' \in 0 .. MaxAge, proven' \in BOOLEAN, lockMode' = "unlocked" => proven'
  PROVE  LockIInv'
<1> USE DEF LockIInv
<1>1. /\ lock' \in Configs /\ writes' \in Seq(Configs \cup {NoConfig})
      /\ Len(writes') <= MaxWrites /\ stale' = stale
      /\ SaneStored' /\ DeletesOnce' /\ LastAgrees'
  BY PersistStep
<1>2. lock' = c
  BY DEF Persist
<1>3. LockTypeOK'
  BY <1>1 DEF LockTypeOK
<1>4. ModeAgrees'
  BY <1>2 DEF ModeAgrees, Sane
<1>5. StartsIdle' /\ ProvenUnlocked'
  BY DEF StartsIdle, ProvenUnlocked
<1> QED BY <1>1, <1>3, <1>4, <1>5

LEMMA LoadLockStep == ASSUME LockIInv, LoadLock PROVE LockIInv'
<1> USE DEF LockIInv
<1>1. /\ lockMode = "loading" /\ writes = <<>> /\ reset.step = "none" /\ setup = "none"
      /\ action = "none"
      /\ UNCHANGED <<setup, action, age, asleep, reset, paired, stored, writes, stale, starts, proven>>
  BY DEF LoadLock, StartsIdle
<1>2. SaneStored' /\ DeletesOnce'
  BY <1>1 DEF SaneStored, DeletesOnce, Deletes
<1>3. CASE lock' = Normalized /\ lockMode' = ModeOf(Normalized) /\ UNCHANGED keychainFailures
  <2>1. Normalized \in Configs /\ Sane(Normalized)
    BY DefaultTyped DEF Normalized, LockTypeOK, SaneStored, Sane
  <2>2. /\ lockMode' \in {"firstRunPrompt", "disabled", "locked"}
        /\ Normalized.enabled <=> lockMode' = "locked"
    BY <1>3, <2>1 DEF ModeOf, Sane
  <2>3. LockTypeOK'
    BY <1>1, <1>3, <2>1, <2>2 DEF LockTypeOK
  <2>4. ModeAgrees'
    BY <1>3, <2>1, <2>2 DEF ModeAgrees, Sane
  <2>5. LastAgrees'
    BY <1>1, <1>3 DEF LastAgrees, Normalized
  <2> QED BY <1>1, <1>2, <2>2, <2>3, <2>4, <2>5 DEF StartsIdle, ProvenUnlocked
<1>4. CASE /\ keychainFailures < MaxKeychainFailures
           /\ keychainFailures' = keychainFailures + 1
           /\ lockMode' = "unavailable" /\ UNCHANGED lock
  <2>1. keychainFailures' \in 0 .. MaxKeychainFailures
    BY <1>4, AppLockAssumption DEF LockTypeOK
  <2>2. LockTypeOK'
    BY <1>1, <1>4, <2>1 DEF LockTypeOK
  <2> QED BY <1>1, <1>2, <1>4, <2>2 DEF ModeAgrees, LastAgrees, StartsIdle, ProvenUnlocked
<1> QED BY <1>3, <1>4 DEF LoadLock

LEMMA RetryLoadStep == ASSUME LockIInv, RetryLoad PROVE LockIInv'
<1> USE DEF LockIInv
<1>1. /\ lock' = lock /\ writes' = writes /\ stale' = stale /\ SaneStored' /\ DeletesOnce'
  BY UnpersistedStep DEF RetryLoad
<1>2. LockTypeOK'
  BY <1>1 DEF RetryLoad, LockTypeOK
<1> QED BY <1>1, <1>2
        DEF RetryLoad, ModeAgrees, LastAgrees, StartsIdle, ProvenUnlocked

LEMMA UnlockGestureStep ==
  ASSUME LockIInv, NEW g \in Gestures, UnlockGesture(g) PROVE LockIInv'
<1> USE DEF LockIInv
<1>1. /\ lock \in Configs /\ lockMode \notin {"loading", "unavailable"}
      /\ age \in 0 .. MaxAge /\ 0 \in 0 .. MaxAge
  BY AppLockAssumption DEF UnlockGesture, StartsIdle, LockTypeOK
<1>2. /\ action' = "none" /\ proven' = TRUE
      /\ UNCHANGED <<asleep, reset, paired, stored, keychainFailures, starts>>
  BY DEF UnlockGesture
<1>3. CASE /\ Persist([lock EXCEPT !.enabled = FALSE, !.gesture = NoGesture])
           /\ lockMode' = "disabled" /\ age' = 0 /\ UNCHANGED setup
  <2> DEFINE c == [lock EXCEPT !.enabled = FALSE, !.gesture = NoGesture]
  <2>1. c \in Configs /\ ~c.enabled /\ Sane(c) /\ Persist(c)
    BY <1>1, <1>3, ConfigsTyped
  <2> HIDE DEF c
  <2> QED BY <1>1, <1>2, <1>3, <2>1, SetStep DEF LockTypeOK
<1>4. CASE /\ setup' = "change" /\ UNCHANGED <<lockMode, age>> /\ Unpersisted
  <2>1. LockTypeOK
    OBVIOUS
  <2>2. /\ lock' = lock /\ writes' = writes /\ stale' = stale /\ SaneStored' /\ DeletesOnce'
    BY <1>2, <1>4, UnpersistedStep
  <2>3. LockTypeOK' /\ ModeAgrees' /\ StartsIdle' /\ ProvenUnlocked' /\ LastAgrees'
    BY <1>1, <1>2, <1>4, <2>2
       DEF LockTypeOK, ModeAgrees, StartsIdle, ProvenUnlocked, LastAgrees, Deletes, Normalized
  <2> QED BY <2>2, <2>3
<1>5. CASE /\ action = "none" /\ Persist(lock) /\ lockMode' = "unlocked" /\ age' = 0
           /\ UNCHANGED setup
  <2>1. lock.enabled /\ Sane(lock)
    BY <1>5 DEF UnlockGesture, ModeAgrees, Sane
  <2> QED BY <1>1, <1>2, <1>5, <2>1, SetStep DEF LockTypeOK
<1> QED BY <1>3, <1>4, <1>5 DEF UnlockGesture

LEMMA SetupSteps ==
  ASSUME LockIInv, SkipFirstSetup \/ \E g \in Gestures : CompleteSetup(g)
  PROVE  LockIInv'
<1> USE DEF LockIInv
<1>0. lockMode \notin {"loading", "unavailable"}
  BY DEF SkipFirstSetup, CompleteSetup, StartsIdle
<1>1. lock \in Configs /\ 0 \in 0 .. MaxAge /\ lockMode \notin {"loading", "unavailable"}
  BY <1>0, AppLockAssumption DEF LockTypeOK
<1>2. CASE SkipFirstSetup
  <2> DEFINE c == [DefaultConfig EXCEPT !.initialized = TRUE]
  <2>1. c \in Configs /\ ~c.enabled /\ Sane(c) /\ Persist(c)
    BY <1>1, <1>2, ConfigsTyped DEF SkipFirstSetup
  <2> HIDE DEF c
  <2> QED BY <1>1, <1>2, <2>1, SetStep DEF SkipFirstSetup, LockTypeOK
<1>3. ASSUME NEW g \in Gestures, CompleteSetup(g) PROVE LockIInv'
  <2> DEFINE c == [lock EXCEPT !.initialized = TRUE, !.enabled = TRUE, !.gesture = g]
  <2>1. c \in Configs /\ c.enabled /\ Sane(c) /\ Persist(c)
    BY <1>1, <1>3, ConfigsTyped DEF CompleteSetup
  <2> HIDE DEF c
  <2> QED BY <1>1, <1>3, <2>1, SetStep DEF CompleteSetup, LockTypeOK
<1> QED BY <1>2, <1>3

LEMMA UsedSteps ==
  ASSUME LockIInv, Touch \/ \E o \in AutoLocks : ConfirmAutoLock(o)
  PROVE  LockIInv'
<1> USE DEF LockIInv
<1>0. lockMode \notin {"loading", "unavailable"}
  BY DEF Touch, ConfirmAutoLock, ShowingLock
<1>1. /\ lock \in Configs /\ 0 \in 0 .. MaxAge /\ lockMode \notin {"loading", "unavailable"}
      /\ age \in 0 .. MaxAge /\ Sane(lock)
  BY <1>0, AppLockAssumption DEF LockTypeOK, ModeAgrees, Sane
<1>2. CASE Touch /\ Inactive
  BY <1>1, <1>2, ScreenStep DEF Touch, LockTypeOK
<1>3. CASE Touch /\ ~Inactive
  <2>1. /\ Persist(lock) /\ age' = 0 /\ lockMode' = "unlocked" /\ lockMode = "unlocked"
        /\ proven' = proven
        /\ UNCHANGED <<setup, action, asleep, reset, paired, stored, keychainFailures, starts>>
    BY <1>3 DEF Touch, LockIfInactive, LockTypeOK
  <2>2. lock.enabled /\ proven
    BY <2>1 DEF ModeAgrees, ProvenUnlocked
  <2> QED BY <1>1, <2>1, <2>2, SetStep DEF LockTypeOK
<1>4. ASSUME NEW o \in AutoLocks, ConfirmAutoLock(o) PROVE LockIInv'
  <2> DEFINE c == [lock EXCEPT !.auto = o]
  <2>1. c \in Configs /\ (c.enabled <=> lock.enabled) /\ Sane(c) /\ Persist(c)
    BY <1>1, <1>4, ConfigsTyped DEF ConfirmAutoLock
  <2> HIDE DEF c
  <2> QED BY <1>1, <1>4, <2>1, SetStep DEF ConfirmAutoLock, LockTypeOK, ModeAgrees, ProvenUnlocked
<1> QED BY <1>2, <1>3, <1>4

LEMMA ScreenSteps ==
  ASSUME LockIInv,
         \/ OpenSetup \/ CloseSetup \/ CancelAction \/ CheckInactivity \/ Sleep \/ Wake
         \/ PeriodPasses \/ \E a \in {"disable", "change"} : AskAction(a)
  PROVE  LockIInv'
<1> USE DEF LockIInv
<1>1. /\ lockMode \in {"loading", "unavailable"} => setup = "none" /\ action = "none"
      /\ age \in 0 .. MaxAge /\ asleep \in BOOLEAN
      /\ setup \in {"none", "firstRun", "enable", "change"}
      /\ action \in {"none", "disable", "change"}
  BY DEF StartsIdle, LockTypeOK
<1>2. CASE OpenSetup \/ CloseSetup
  BY <1>1, <1>2, ScreenStep DEF OpenSetup, CloseSetup, ShowingLock
<1>3. CASE CancelAction \/ \E a \in {"disable", "change"} : AskAction(a)
  BY <1>1, <1>3, ScreenStep DEF CancelAction, AskAction, ShowingLock
<1>4. CASE CheckInactivity \/ Sleep \/ Wake
  BY <1>1, <1>4, ScreenStep DEF CheckInactivity, Sleep, Wake
<1>5. CASE PeriodPasses
  <2>1. age' \in 0 .. MaxAge
    BY <1>1, <1>5, AppLockAssumption DEF PeriodPasses
  <2> QED BY <1>1, <1>5, <2>1, ScreenStep DEF PeriodPasses
<1> QED BY <1>2, <1>3, <1>4, <1>5

-----------------------------------------------------------------------------
(* The reset of a forgotten gesture, and the keychain.                     *)

LEMMA ForgotSteps ==
  ASSUME LockIInv, Forgot \/ ForgetIt
  PROVE  LockIInv'
<1> USE DEF LockIInv
<1>1. /\ Unpersisted
      /\ UNCHANGED <<lockMode, setup, action, age, asleep, paired, stored, keychainFailures, starts, proven>>
      /\ \E st \in {"none", "asked"} : reset' = [reset EXCEPT !.step = st]
      /\ reset.step # "clearing"
      /\ lockMode \in {"loading", "unavailable"} => reset'.step = "none"
  BY DEF Forgot, ForgetIt, StartsIdle, LockTypeOK
<1>2. /\ reset' \in [step : {"none", "asked", "clearing"}, left : SUBSET {"lock", "pairing"}]
      /\ reset'.left = reset.left /\ reset'.step # "clearing"
  BY <1>1 DEF LockTypeOK
<1>3. /\ lock' = lock /\ writes' = writes /\ stale' = stale /\ SaneStored' /\ DeletesOnce'
  BY <1>1, <1>2, UnpersistedStep
<1>4. LockTypeOK' /\ ModeAgrees' /\ StartsIdle' /\ ProvenUnlocked'
  BY <1>1, <1>2, <1>3 DEF LockTypeOK, ModeAgrees, StartsIdle, ProvenUnlocked
<1>5. LastAgrees'
  BY <1>1, <1>2, <1>3 DEF LastAgrees, Deletes, Normalized
<1> QED BY <1>3, <1>4, <1>5

LEMMA OwnerAuthenticatedStep ==
  ASSUME LockIInv, OwnerAuthenticated
  PROVE  LockIInv'
<1> USE DEF LockIInv
<1>1. /\ reset.step = "asked" /\ reset.left = {} /\ Len(writes) < MaxWrites
      /\ reset' = [step |-> "clearing", left |-> {"lock", "pairing"}]
      /\ writes' = Append(writes, NoConfig)
      /\ UNCHANGED <<lockMode, setup, action, lock, age, asleep, paired, stored, stale,
                     keychainFailures, starts, proven>>
  BY DEF OwnerAuthenticated
<1>2. /\ writes' \in Seq(Configs \cup {NoConfig}) /\ writes' # <<>>
      /\ Len(writes') = Len(writes) + 1 /\ writes'[Len(writes')] = NoConfig
      /\ Len(writes') \in DOMAIN writes'
      /\ \A i \in DOMAIN writes' : i \in DOMAIN writes \/ i = Len(writes')
      /\ \A i \in DOMAIN writes : i \in DOMAIN writes' /\ writes'[i] = writes[i]
  BY <1>1, AppendedIs, QueueTyped
<1>3. Len(writes') <= MaxWrites
  BY <1>1, <1>2, QueueTyped, AppLockAssumption
<1>4. LockTypeOK'
  BY <1>1, <1>2, <1>3 DEF LockTypeOK
<1>5. SaneStored'
  BY <1>1, <1>2 DEF SaneStored
<1>6. Deletes = {}
  BY <1>1 DEF DeletesOnce
<1>7. Deletes' = {Len(writes')}
  BY <1>2, <1>6 DEF Deletes
<1>8. DeletesOnce'
  BY <1>1, <1>7 DEF DeletesOnce
<1>9. ModeAgrees' /\ StartsIdle' /\ ProvenUnlocked' /\ LastAgrees'
  BY <1>1 DEF ModeAgrees, StartsIdle, ProvenUnlocked, LastAgrees
<1> QED BY <1>4, <1>5, <1>8, <1>9

LEMMA ClearPairingStep ==
  ASSUME LockIInv, ClearPairing
  PROVE  LockIInv'
<1> USE DEF LockIInv
<1>1. /\ "pairing" \in reset.left
      /\ UNCHANGED <<lockMode, setup, action, lock, age, asleep, stored, writes, starts, proven>>
      /\ reset' \in [step : {"none", "asked", "clearing"}, left : SUBSET {"lock", "pairing"}]
      /\ reset'.left = reset.left \ {"pairing"}
      /\ reset'.step \in {reset.step, "none"}
      /\ reset'.step # reset.step => reset.step = "clearing" /\ stale' = (stale \/ "lock" \notin reset.left)
      /\ reset'.step = reset.step => stale' \in {stale, TRUE}
      /\ paired' \in {paired, FALSE}
      /\ \/ keychainFailures' = keychainFailures
         \/ keychainFailures < MaxKeychainFailures /\ keychainFailures' = keychainFailures + 1
  <2>1. /\ "pairing" \in reset.left
        /\ UNCHANGED <<lockMode, setup, action, lock, age, asleep, stored, writes, starts, proven>>
    BY DEF ClearPairing
  <2>2. reset.left \subseteq {"lock", "pairing"} /\ reset.step \in {"none", "asked", "clearing"}
    BY DEF LockTypeOK
  <2>3. CASE paired' = FALSE /\ Cleared("pairing", TRUE) /\ UNCHANGED <<keychainFailures, stale>>
    <3>1. reset' = [step |-> reset.step, left |-> reset.left \ {"pairing"}]
      BY <2>3 DEF Cleared
    <3> QED BY <2>1, <2>2, <2>3, <3>1
  <2>4. CASE /\ keychainFailures < MaxKeychainFailures
             /\ keychainFailures' = keychainFailures + 1
             /\ Cleared("pairing", FALSE) /\ UNCHANGED paired
             /\ stale' = (stale \/ "lock" \notin reset.left)
    <3>1. reset' = [step |-> IF reset.step = "clearing" THEN "none" ELSE reset.step,
                    left |-> reset.left \ {"pairing"}]
      BY <2>4 DEF Cleared
    <3>2. stale' \in {stale, TRUE}
      BY <2>4 DEF LockTypeOK
    <3> QED BY <2>1, <2>2, <2>4, <3>1, <3>2
  <2> QED BY <2>3, <2>4 DEF ClearPairing
<1>2. stale' \in BOOLEAN /\ (stale => stale')
  <2>1. stale' = stale \/ stale' = TRUE
    BY <1>1 DEF LockTypeOK
  <2>2. stale \in BOOLEAN
    BY DEF LockTypeOK
  <2>3. CASE stale' = stale
    BY <2>2, <2>3
  <2>4. CASE stale' = TRUE
    BY <2>4
  <2> QED BY <2>1, <2>3, <2>4
<1>3. keychainFailures' \in 0 .. MaxKeychainFailures
  BY <1>1, AppLockAssumption DEF LockTypeOK
<1>4. LockTypeOK'
  BY <1>1, <1>2, <1>3 DEF LockTypeOK
<1>5. SaneStored' /\ ModeAgrees' /\ StartsIdle' /\ ProvenUnlocked'
  BY <1>1 DEF SaneStored, ModeAgrees, StartsIdle, ProvenUnlocked
<1>6. Deletes' = Deletes /\ ("lock" \in reset'.left <=> "lock" \in reset.left)
  BY <1>1 DEF Deletes
<1>7. DeletesOnce'
  BY <1>6 DEF DeletesOnce
<1>8. LastAgrees'
  <2>1. CASE reset'.step = reset.step
    BY <1>1, <1>2, <1>6, <2>1 DEF LastAgrees, Normalized
  <2>2. CASE reset'.step # reset.step
    <3>1. "lock" \in reset.left \/ stale'
      BY <1>1, <2>2 DEF LockTypeOK
    <3> QED BY <1>6, <3>1 DEF LastAgrees, DeletesOnce
  <2> QED BY <2>1, <2>2
<1> QED BY <1>4, <1>5, <1>7, <1>8

\* What is left of the queue when the oldest write is carried out.
LEMMA QueueTail ==
  ASSUME LockTypeOK, writes # <<>>, writes' = Tail(writes)
  PROVE  /\ writes' \in Seq(Configs \cup {NoConfig}) /\ Len(writes') = Len(writes) - 1
         /\ 1 \in DOMAIN writes /\ Head(writes) = writes[1]
         /\ \A i \in DOMAIN writes' : i + 1 \in DOMAIN writes /\ writes'[i] = writes[i + 1]
         /\ \A i \in DOMAIN writes : i # 1 => i - 1 \in DOMAIN writes' /\ writes'[i - 1] = writes[i]
         /\ IF writes' = <<>> THEN Len(writes) = 1 ELSE writes'[Len(writes')] = writes[Len(writes)]
<1> DEFINE r == Tail(writes)
<1>1. /\ Len(writes) \in Nat \ {0} /\ DOMAIN writes = 1 .. Len(writes)
      /\ r \in Seq(Configs \cup {NoConfig}) /\ Len(r) = Len(writes) - 1
      /\ DOMAIN r = 1 .. (Len(writes) - 1)
      /\ \A j \in DOMAIN r : r[j] = writes[j + 1]
      /\ Head(writes) = writes[1] /\ (r = <<>> <=> Len(writes) = 1)
  <2>1. writes \in Seq(Configs \cup {NoConfig}) /\ writes # <<>>
    BY DEF LockTypeOK
  <2>2. /\ Len(writes) \in Nat \ {0} /\ DOMAIN writes = 1 .. Len(writes)
        /\ r \in Seq(Configs \cup {NoConfig}) /\ Len(r) = Len(writes) - 1
        /\ DOMAIN r = 1 .. (Len(writes) - 1) /\ Head(writes) = writes[1]
    BY <2>1
  <2>3. \A j \in DOMAIN r : r[j] = writes[j + 1]
    BY <2>1
  <2> HIDE DEF r
  <2>4. r = <<>> <=> Len(r) = 0
    BY <2>2
  <2> QED BY <2>2, <2>3, <2>4
<1> HIDE DEF r
<1>2. \A i \in DOMAIN writes : i # 1 => i - 1 \in DOMAIN r /\ r[i - 1] = writes[i]
  BY <1>1
<1>3. r # <<>> => r[Len(r)] = writes[Len(writes)]
  <2>1. r # <<>> => Len(writes) \in DOMAIN writes /\ Len(writes) # 1
    BY <1>1
  <2> QED BY <1>1, <1>2, <2>1
<1> QED BY <1>1, <1>2, <1>3 DEF r

LEMMA KeychainWritesStep ==
  ASSUME LockIInv, KeychainWrites
  PROVE  LockIInv'
<1> USE DEF LockIInv
<1> DEFINE h == Head(writes)
<1>0. /\ writes # <<>> /\ writes' = Tail(writes)
      /\ UNCHANGED <<lockMode, setup, action, lock, age, asleep, paired, starts, proven>>
  BY DEF KeychainWrites
<1>1. /\ writes' \in Seq(Configs \cup {NoConfig}) /\ Len(writes') = Len(writes) - 1
      /\ 1 \in DOMAIN writes /\ h = writes[1] /\ h \in Configs \cup {NoConfig}
      /\ \A i \in DOMAIN writes' : i + 1 \in DOMAIN writes /\ writes'[i] = writes[i + 1]
      /\ \A i \in DOMAIN writes : i # 1 => i - 1 \in DOMAIN writes' /\ writes'[i - 1] = writes[i]
      /\ IF writes' = <<>> THEN Len(writes) = 1 ELSE writes'[Len(writes')] = writes[Len(writes)]
  BY <1>0, QueueTail, QueueTyped
<1>2. Len(writes') <= MaxWrites
  BY <1>1, QueueTyped, AppLockAssumption DEF LockTypeOK
<1> HIDE DEF h
<1>3. /\ \/ /\ stored' = h
            /\ stale' = IF h = NoConfig THEN stale \/ reset.step # "clearing"
                        ELSE stale /\ (writes' # <<>> \/ h # lock)
            /\ UNCHANGED keychainFailures
         \/ /\ keychainFailures < MaxKeychainFailures
            /\ keychainFailures' = keychainFailures + 1
            /\ stale' = TRUE /\ UNCHANGED stored
      /\ h # NoConfig => reset' = reset
      /\ h = NoConfig =>
           /\ reset' \in [step : {"none", "asked", "clearing"}, left : SUBSET {"lock", "pairing"}]
           /\ reset'.left = reset.left \ {"lock"}
           /\ reset'.step = reset.step \/ (reset'.step = "none" /\ stale')
  BY <1>0 DEF KeychainWrites, Cleared, LockTypeOK, h
<1>4. stale' \in BOOLEAN
  BY <1>3 DEF LockTypeOK
<1>5. keychainFailures' \in 0 .. MaxKeychainFailures
  BY <1>3, AppLockAssumption DEF LockTypeOK
<1>6. LockTypeOK'
  BY <1>0, <1>1, <1>2, <1>3, <1>4, <1>5 DEF LockTypeOK
<1>7. SaneStored'
  BY <1>1, <1>3 DEF SaneStored
<1>8. ModeAgrees' /\ StartsIdle' /\ ProvenUnlocked'
  BY <1>0, <1>3 DEF ModeAgrees, StartsIdle, ProvenUnlocked
<1>9. CASE h = NoConfig
  <2>a. 1 \in Deletes
    BY <1>1, <1>9 DEF Deletes
  <2>b. ASSUME NEW i \in Deletes' PROVE FALSE
    <3>1. i \in DOMAIN writes' /\ i + 1 \in Deletes /\ i \in 1 .. Len(writes')
      BY <1>1 DEF Deletes
    <3>2. i + 1 = 1
      BY <2>a, <3>1 DEF DeletesOnce
    <3> QED BY <3>1, <3>2
  <2>1. 1 \in Deletes /\ Deletes' = {} /\ "lock" \notin reset'.left
    BY <1>3, <1>9, <2>a, <2>b
  <2>2. DeletesOnce'
    BY <2>1 DEF DeletesOnce
  <2>3. LastAgrees'
    BY <1>3, <1>9, <2>1 DEF LastAgrees
  <2> QED BY <1>6, <1>7, <1>8, <2>2, <2>3
<1>10. CASE h # NoConfig
  <2>1. /\ \A i \in Deletes' : i + 1 \in Deletes
        /\ \A i \in Deletes : i # 1 /\ i - 1 \in Deletes'
    BY <1>1, <1>10 DEF Deletes
  <2>2. DOMAIN writes' \subseteq Nat /\ reset' = reset
    BY <1>1, <1>3, <1>10
  <2>3. DeletesOnce'
    <3>1. Deletes' # {} <=> Deletes # {}
      BY <2>1
    <3>2. \A i, j \in Deletes' : i = j
      <4> SUFFICES ASSUME NEW i \in Deletes', NEW j \in Deletes' PROVE i = j
        OBVIOUS
      <4>1. i + 1 = j + 1 /\ i \in Nat /\ j \in Nat
        BY <2>1, <2>2 DEF DeletesOnce, Deletes
      <4> QED BY <4>1
    <3> QED BY <2>2, <3>1, <3>2 DEF DeletesOnce
  <2>4. LastAgrees'
    <3> SUFFICES ASSUME ~stale', lockMode \notin {"loading", "unavailable"}, reset.step # "clearing",
                        Deletes' = {}
                 PROVE  IF writes' = <<>> THEN Normalized' = lock ELSE writes'[Len(writes')] = lock
      BY <1>0, <2>2 DEF LastAgrees
    <3>1. stored' = h /\ Deletes = {}
      BY <1>3, <2>1
    <3>2. Normalized' = h
      BY <1>10, <3>1 DEF Normalized
    <3>3. CASE stale
      BY <1>3, <1>4, <1>10, <3>2, <3>3
    <3>4. CASE ~stale
      <4>1. writes[Len(writes)] = lock
        BY <1>0, <3>1, <3>4 DEF LastAgrees
      <4> QED BY <1>1, <3>2, <4>1
    <3> QED BY <3>3, <3>4
  <2> QED BY <1>6, <1>7, <1>8, <2>3, <2>4
<1> QED BY <1>9, <1>10

LEMMA FinishResetStep ==
  ASSUME LockIInv, FinishReset
  PROVE  LockIInv'
<1> USE DEF LockIInv
<1>1. /\ reset.left = {} /\ reset' = [step |-> "none", left |-> {}]
      /\ lock' = DefaultConfig /\ lockMode' = "firstRunPrompt" /\ setup' = "none" /\ action' = "none"
      /\ stale' = (stale \/ writes # <<>> \/ stored # NoConfig)
      /\ UNCHANGED <<age, asleep, paired, stored, writes, keychainFailures, starts, proven>>
  BY DEF FinishReset, NoReset
<1>2. stale' \in BOOLEAN
  BY <1>1 DEF LockTypeOK
<1>3. LockTypeOK'
  BY <1>1, <1>2, DefaultTyped DEF LockTypeOK
<1>4. Deletes' = {} /\ SaneStored'
  BY <1>1 DEF DeletesOnce, Deletes, SaneStored
<1>5. DeletesOnce' /\ StartsIdle' /\ ProvenUnlocked'
  BY <1>1, <1>4 DEF DeletesOnce, StartsIdle, ProvenUnlocked
<1>6. ModeAgrees'
  BY <1>1, DefaultTyped DEF ModeAgrees
<1>7. LastAgrees'
  BY <1>1 DEF LastAgrees, Normalized
<1> QED BY <1>3, <1>4, <1>5, <1>6, <1>7

LEMMA StartAppStep ==
  ASSUME LockIInv, StartApp
  PROVE  LockIInv'
<1> USE DEF LockIInv
<1>1. /\ starts < MaxStarts /\ starts' = starts + 1
      /\ lockMode' = "loading" /\ setup' = "none" /\ action' = "none" /\ lock' = DefaultConfig
      /\ age' = 0 /\ asleep' = FALSE /\ reset' = [step |-> "none", left |-> {}]
      /\ writes' = <<>> /\ stale' = FALSE /\ proven' = FALSE
      /\ UNCHANGED <<paired, stored, keychainFailures>>
  BY DEF StartApp, NoReset
<1>2. starts' \in 0 .. MaxStarts /\ 0 \in 0 .. MaxAge
  BY <1>1, AppLockAssumption DEF LockTypeOK
<1>3. writes' \in Seq(Configs \cup {NoConfig}) /\ Len(writes') <= MaxWrites /\ DOMAIN writes' = {}
  BY <1>1, AppLockAssumption
<1>4. LockTypeOK'
  <2>1. {asleep', paired', stale', proven'} \subseteq BOOLEAN
    BY <1>1 DEF LockTypeOK
  <2> QED BY <1>1, <1>2, <1>3, <2>1, DefaultTyped DEF LockTypeOK
<1>5. SaneStored' /\ DeletesOnce'
  BY <1>1, <1>3 DEF SaneStored, DeletesOnce, Deletes
<1>6. ModeAgrees' /\ StartsIdle' /\ ProvenUnlocked' /\ LastAgrees'
  BY <1>1, DefaultTyped DEF ModeAgrees, StartsIdle, ProvenUnlocked, LastAgrees
<1> QED BY <1>4, <1>5, <1>6

-----------------------------------------------------------------------------
(* The theorem.                                                            *)

LEMMA LockInitIInv == LockInit => LockIInv
<1> SUFFICES ASSUME LockInit PROVE LockIInv
  OBVIOUS
<1> USE DEF LockInit, NoReset
<1>1. writes \in Seq(Configs \cup {NoConfig}) /\ Len(writes) <= MaxWrites /\ DOMAIN writes = {}
  BY AppLockAssumption
<1>a. 0 \in 0 .. MaxAge /\ 0 \in 0 .. MaxKeychainFailures /\ 0 \in 0 .. MaxStarts
  BY AppLockAssumption
<1>b. {asleep, paired, stale, proven} \subseteq BOOLEAN
  OBVIOUS
<1>2. LockTypeOK
  BY <1>1, <1>a, <1>b, DefaultTyped DEF LockTypeOK
<1>3. SaneStored /\ DeletesOnce
  BY <1>1 DEF SaneStored, DeletesOnce, Deletes
<1>4. ModeAgrees /\ StartsIdle /\ ProvenUnlocked /\ LastAgrees
  BY DefaultTyped DEF ModeAgrees, StartsIdle, ProvenUnlocked, LastAgrees
<1> QED BY <1>2, <1>3, <1>4 DEF LockIInv

LEMMA LockNextIInv == LockIInv /\ [LockNext]_lockVars => LockIInv'
<1> SUFFICES ASSUME LockIInv, [LockNext]_lockVars PROVE LockIInv'
  OBVIOUS
<1>1. CASE UNCHANGED lockVars
  BY <1>1 DEF lockVars, LockIInv, LockTypeOK, ModeAgrees, SaneStored, StartsIdle, DeletesOnce,
              Deletes, ProvenUnlocked, LastAgrees, Normalized
<1>2. CASE LoadLock \/ RetryLoad
  BY <1>2, LoadLockStep, RetryLoadStep
<1>3. CASE \/ SkipFirstSetup \/ Touch
           \/ \E g \in Gestures : CompleteSetup(g) \/ UnlockGesture(g)
           \/ \E o \in AutoLocks : ConfirmAutoLock(o)
  BY <1>3, SetupSteps, UsedSteps, UnlockGestureStep
<1>4. CASE \/ OpenSetup \/ CloseSetup \/ CancelAction \/ CheckInactivity \/ Sleep \/ Wake
           \/ PeriodPasses \/ \E a \in {"disable", "change"} : AskAction(a)
  BY <1>4, ScreenSteps
<1>5. CASE Forgot \/ ForgetIt \/ OwnerAuthenticated \/ ClearPairing \/ FinishReset
  BY <1>5, ForgotSteps, OwnerAuthenticatedStep, ClearPairingStep, FinishResetStep
<1>6. CASE KeychainWrites \/ StartApp
  BY <1>6, KeychainWritesStep, StartAppStep
<1> QED BY <1>1, <1>2, <1>3, <1>4, <1>5, <1>6 DEF LockNext

LEMMA LockFollows == LockIInv => LockHolds
<1> SUFFICES ASSUME LockIInv PROVE LockHolds
  OBVIOUS
<1> USE DEF LockIInv
<1>1. ModeAgrees
  OBVIOUS
<1>2. ShownIsProven
  BY DEF ShownIsProven, ModeAgrees, ShowingLock, ProvenUnlocked
<1>3. StoredAgrees
  BY DEF StoredAgrees, LastAgrees, Deletes
<1> QED BY <1>1, <1>2, <1>3 DEF LockHolds

\* The gesture lock, over settings, inactivity, resets, restarts and failures of
\* the keychain: useAppLockController shows nothing unproven, and the App finds
\* again what it stored.
THEOREM LockKept == LockSpec => []LockHolds
BY LockInitIInv, LockNextIInv, LockFollows, PTL DEF LockSpec
=============================================================================
