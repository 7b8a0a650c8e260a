----------------------------- MODULE Experience -----------------------------
(***************************************************************************)
(* What the Desktop Agent learns from deliveries, in one project with one  *)
(* agent surface.  A prompt opens an episode, the provider ends it, a user *)
(* says how it went.  A revision with a note becomes a candidate: it is    *)
(* reviewed, matched with later prompts (shadow), and, if the project      *)
(* allows it and enough matches were found relevant, put into them.  What  *)
(* becomes of those episodes is evidence for or against the candidate.     *)
(*                                                                         *)
(* Everything is kept in one SQLite file, here db.  A message is handled   *)
(* in one go; a crash falls between the first transaction of a handler and *)
(* the rest.  Messages bear the time of the App's clock: one that is        *)
(* earlier than what it would overwrite is late, and changes nothing.      *)
(***************************************************************************)
EXTENDS Naturals, FiniteSets, FiniteSetsExt

CONSTANTS Prompts,      \* bound: episodes, numbered from 1
          Texts,        \* objective and note of a revision, by fingerprint
          NoText,       \* no note, no candidate
          Edits,        \* fingerprints only a reviewer's edit produces
          Oversized,    \* texts beyond the budget of the injected block
          MinReviews,   \* SHADOW_ACTIVATION_MIN_REVIEWS
          MaxInjected,  \* EXPERIENCE_MAX_ACTIVE_MATCHES
          MaxCuts,      \* bound: ends of the process and losses of the link
          MaxActions    \* bound: reviews, lifecycle actions and restated outcomes

ASSUME ExperienceAssumption ==
  /\ {Prompts, MinReviews, MaxInjected, MaxCuts, MaxActions} \subseteq Nat
  /\ Texts \cap Edits = {} /\ NoText \notin Texts \cup Edits /\ Oversized \subseteq Texts \cup Edits

VARIABLES
  db,       \* the tables
  serving,  \* the process runs
  shown,    \* experienceCandidates of the App: the status of each it knows
  synced,   \* the App's link is up, and it has asked for everything
  crashes, actions

experienceVars == <<db, serving, shown, synced, crashes, actions>>

Episodes == 1 .. Prompts
Statuses == {"none", "candidate", "approved", "rejected", "shadow", "active", "paused",
             "deprecated"}
Revisions == {"revision"} \X (Texts \cup {NoText})
Outcomes == {<<"accepted", NoText>>, <<"abandoned", NoText>>} \cup Revisions
NoOutcome == <<"none", NoText>>

(* A candidate's identifier is made of the fingerprint it was first seen    *)
(* with; an edit changes the fingerprint and not the identifier.            *)
Candidates == [fingerprint : Texts \cup Edits, status : Statuses]

Tables ==
  [status : [Episodes -> {"none", "working", "delivered", "failed", "abandoned"}],
   outcome : [Episodes -> Outcomes \cup {NoOutcome}],
   source : [Episodes -> {"none", "user", "git_review"}],
   candidate : [Texts -> Candidates],
   correction : [Episodes -> (Texts \cup {NoText}) \X (Texts \cup {NoText})],
   matched : [Episodes -> SUBSET Texts],
   feedback : [Episodes -> [Texts -> {"none", "relevant", "not_relevant"}]],
   applied : [Episodes -> SUBSET Texts],
   evaluation : [Episodes -> Outcomes \cup {NoOutcome}],
   judged : [Episodes -> [Texts -> {"none", "supporting", "contradicting"}]],
   requested : BOOLEAN]

ExperienceTypeOK ==
  /\ db \in Tables
  /\ serving \in BOOLEAN /\ synced \in BOOLEAN
  /\ shown \in [Texts -> Statuses]
  /\ crashes \in 0 .. MaxCuts /\ actions \in 0 .. MaxActions

ExperienceInit ==
  /\ db = [status |-> [e \in Episodes |-> "none"],
           outcome |-> [e \in Episodes |-> NoOutcome],
           source |-> [e \in Episodes |-> "none"],
           candidate |-> [c \in Texts |-> [fingerprint |-> c, status |-> "none"]],
           correction |-> [e \in Episodes |-> <<NoText, NoText>>],
           matched |-> [e \in Episodes |-> {}],
           feedback |-> [e \in Episodes |-> [c \in Texts |-> "none"]],
           applied |-> [e \in Episodes |-> {}],
           evaluation |-> [e \in Episodes |-> NoOutcome],
           judged |-> [e \in Episodes |-> [c \in Texts |-> "none"]],
           requested |-> FALSE]
  /\ serving = TRUE /\ synced = FALSE
  /\ shown = [c \in Texts |-> "none"]
  /\ crashes = 0 /\ actions = 0

-----------------------------------------------------------------------------
(* Evidence and the status that follows from it.                           *)

Exists(d, c) == c # NoText /\ d.candidate[c].status # "none"
Usable == {"approved", "shadow", "active"}

Support(d, c) ==
  Cardinality({e \in Episodes : d.correction[e][1] = c})
    + Cardinality({e \in Episodes : d.judged[e][c] = "supporting"})

Contradictions(d, c) == Cardinality({e \in Episodes : d.judged[e][c] = "contradicting"})

\* Mutant of EvidenceStatus: an active candidate outlives its first counterexample.
EvidenceStatusKeepsActive(s, support, against) ==
  IF s \notin {"deprecated", "rejected"} /\ support = 0 THEN "deprecated" ELSE s

\* nextEvidenceStatus
EvidenceStatus(s, support, against) ==
  IF s \in {"deprecated", "rejected"} THEN s
  ELSE IF support = 0 \/ (against >= 2 /\ against >= support) THEN "deprecated"
  ELSE IF s = "active" /\ against > 0 THEN "paused"
  ELSE s

\* recountCandidate: a candidate nobody has reviewed goes with its last evidence.
RecountCandidate(d, c) ==
  IF Support(d, c) = 0 /\ d.candidate[c].status = "candidate"
  THEN [fingerprint |-> c, status |-> "none"]
  ELSE [d.candidate[c] EXCEPT !.status = EvidenceStatus(@, Support(d, c), Contradictions(d, c))]

Recounted(d, cs) ==
  [d EXCEPT !.candidate = [c \in Texts |-> IF c \in cs /\ Exists(d, c) THEN RecountCandidate(d, c)
                                           ELSE @[c]]]

\* candidateInput: the fingerprint of a revision a user asked for with a note.
Wanted(d, e) ==
  IF d.source[e] = "user" /\ d.outcome[e][1] = "revision" THEN d.outcome[e][2] ELSE NoText

\* The candidate an episode's correction goes to: the one it went to before if
\* it is of the same fingerprint, the one that has it now, or a new one.
Target(d, e) ==
  LET w == Wanted(d, e)
      holders == {c \in Texts : Exists(d, c) /\ d.candidate[c].fingerprint = w}
  IN  IF d.correction[e][2] = w /\ Exists(d, d.correction[e][1]) THEN d.correction[e][1]
      ELSE IF holders # {} THEN CHOOSE c \in holders : TRUE
      ELSE w

\* The insertion fails: the identifier is that of a candidate edited since.
Collides(d, e) ==
  LET w == Wanted(d, e)
  IN  /\ w # NoText
      /\ Target(d, e) = w /\ Exists(d, w)
      /\ d.candidate[w].fingerprint # w
      /\ d.correction[e] # <<w, w>>

\* The candidates an episode's reconciliation is about.
Affected(d, e) ==
  ({d.correction[e][1]} \cup (IF Wanted(d, e) = NoText THEN {} ELSE {Target(d, e)})) \ {NoText}

\* reconcileEpisode, where the insertion does not fail.
Reconciled(d, e) ==
  LET w == Wanted(d, e)
      target == Target(d, e)
      moved == [d EXCEPT !.correction[e] = IF w = NoText THEN <<NoText, NoText>>
                                           ELSE <<target, w>>]
      kept == IF w = NoText \/ Exists(d, target) THEN moved
              ELSE [moved EXCEPT !.candidate[target].status = "candidate"]
  IN  Recounted(kept, Affected(d, e))

\* evaluateEpisode: the outcome is held against what was put into the prompt.
Evaluated(d, e) ==
  LET present == {c \in d.applied[e] : Exists(d, c)}
      effect == IF d.outcome[e][1] = "accepted" THEN "supporting" ELSE "contradicting"
  IN  IF d.applied[e] = {} \/ d.outcome[e] = NoOutcome THEN d
      ELSE Recounted([d EXCEPT !.evaluation[e] = d.outcome[e],
                               !.judged[e] = [c \in Texts |-> IF c \in present THEN effect
                                                              ELSE @[c]]],
                     present)

\* What the App shows once the candidates cs of d were published to it.
Published(d, cs) ==
  [c \in Texts |-> IF synced /\ c \in cs THEN d.candidate[c].status ELSE shown[c]]

-----------------------------------------------------------------------------
(* Prompts and deliveries.                                                 *)

\* isShadowActivationReady: at least seven relevant in ten.
ActivationReady(d) ==
  LET said(f) == Cardinality({x \in Episodes \X Texts : d.feedback[x[1]][x[2]] = f})
      reviewed == said("relevant") + said("not_relevant")
  IN  reviewed >= MinReviews /\ 10 * said("relevant") >= 7 * reviewed

\* recordGitReviewRevision: notes of a Git review sent with a prompt are
\* a revision of what was delivered last, unless a user has spoken.
Revised(d) ==
  LET delivered == {e \in Episodes : d.status[e] = "delivered"}
      last == Max(delivered)
  IN  IF delivered = {} \/ d.source[last] = "user" THEN d
      ELSE Evaluated([d EXCEPT !.outcome[last] = <<"revision", NoText>>,
                               !.source[last] = "git_review"], last)

\* applyLearningObservation publishes what the review of a prompt has changed.
RevisedCandidates(d) ==
  LET delivered == {e \in Episodes : d.status[e] = "delivered"}
  IN  IF delivered = {} THEN {} ELSE d.applied[Max(delivered)]

Supported(d, c) == Support(d, c) > 0 /\ Support(d, c) > Contradictions(d, c)

\* Mutant of MarkShadow: whatever was matched is in shadow.
MarkShadowAll(s) == "shadow"

MarkShadow(s) == IF s = "approved" THEN "shadow" ELSE s

\* handlePromptSubmit: the episode is opened (an unfinished one is given up),
\* then candidates are matched with it, and the best of those still eligible
\* are put into the prompt.  Which match, and in what order, is left open.
SubmitPrompt(e, git, matches, chosen) ==
  LET revised == IF git THEN Revised(db) ELSE db
      opened == [revised EXCEPT
        !.status = [x \in Episodes |-> IF x = e THEN "working"
                                       ELSE IF @[x] = "working" THEN "abandoned" ELSE @[x]],
        !.matched[e] = matches,
        !.candidate = [c \in Texts |-> IF c \in matches
                                       THEN [revised.candidate[c] EXCEPT !.status = MarkShadow(@)]
                                       ELSE @[c]]]
      eligible == {c \in matches : opened.candidate[c].status \in Usable /\ Supported(opened, c)}
      able == opened.requested /\ ActivationReady(opened)
      applied == [opened EXCEPT
        !.applied[e] = chosen,
        !.candidate = [c \in Texts |-> IF c \in chosen THEN [@[c] EXCEPT !.status = "active"]
                                       ELSE @[c]]]
  IN  /\ serving
      /\ e = Cardinality({x \in Episodes : db.status[x] # "none"}) + 1
      /\ matches \subseteq {c \in Texts : revised.candidate[c].status \in Usable \cup {"paused"}
                                          /\ Supported(revised, c)}
      /\ chosen \subseteq eligible
      /\ Cardinality(chosen) = (IF ~able \/ eligible \subseteq Oversized THEN 0
                                ELSE Min({MaxInjected, Cardinality(eligible)}))
      /\ chosen \subseteq Oversized => chosen = {}
      /\ db' = applied
      /\ shown' = Published(applied, matches \cup (IF git THEN RevisedCandidates(db) ELSE {}))
      /\ UNCHANGED <<serving, synced, crashes, actions>>

\* A result, a failure or an exit ends the episode at work.
EndEpisode(e, how) ==
  /\ serving /\ db.status[e] = "working"
  /\ db' = [db EXCEPT !.status[e] = how]
  /\ UNCHANGED <<serving, shown, synced, crashes, actions>>

-----------------------------------------------------------------------------
(* Messages of the App.                                                    *)

\* setOutcome: a later statement of a user is not overwritten by an earlier one.
OutcomeSet(d, e, o, late) ==
  IF late /\ d.outcome[e] # NoOutcome THEN d
  ELSE [d EXCEPT !.outcome[e] = o, !.source[e] = "user"]

\* Mutant of OutcomeChanges: only the corrected candidate is told of.
OutcomeChangesOwn(d, e) == Affected(d, e)

OutcomeChanges(d, e) ==
  Affected(d, e) \cup (IF d.outcome[e] = NoOutcome THEN {} ELSE d.applied[e])

\* handleOutcome: what is learnt from it follows; nothing does if the insertion
\* fails, and the App gets no answer.  So for a late message.
HandleOutcome(e, d) ==
  IF Collides(d, e)
  THEN db' = d /\ UNCHANGED shown
  ELSE /\ db' = Evaluated(Reconciled(d, e), e)
       /\ shown' = Published(db', OutcomeChanges(d, e))

SetOutcome(e, o, late) ==
  /\ serving /\ actions < MaxActions /\ db.status[e] = "delivered"
  /\ actions' = actions + 1
  /\ HandleOutcome(e, OutcomeSet(db, e, o, late))
  /\ UNCHANGED <<serving, synced, crashes>>

\* The process ends after the outcome was written.
CrashAfterOutcome(e, o) ==
  /\ serving /\ crashes < MaxCuts /\ actions < MaxActions /\ db.status[e] = "delivered"
  /\ crashes' = crashes + 1 /\ actions' = actions + 1
  /\ db' = OutcomeSet(db, e, o, FALSE)
  /\ serving' = FALSE /\ synced' = FALSE
  /\ UNCHANGED shown

\* setReview: a decision, and perhaps an edit no other candidate has.
SetReview(c, decision, fingerprint, late) ==
  /\ serving /\ actions < MaxActions
  /\ db.candidate[c].status \in Usable \cup {"candidate", "rejected"}
  /\ \A x \in Texts \ {c} : Exists(db, x) => db.candidate[x].fingerprint # fingerprint
  /\ actions' = actions + 1
  /\ db' = IF late THEN db
           ELSE [db EXCEPT !.candidate[c] = [fingerprint |-> fingerprint, status |-> decision]]
  /\ shown' = Published(db', {c})
  /\ UNCHANGED <<serving, synced, crashes>>

\* lifecycleStatus
LifecycleStatus(s, action) ==
  CASE action = "pause" /\ s \in Usable -> "paused"
    [] action = "resume" /\ s = "paused" -> "approved"
    [] action = "deprecate" /\ s \notin {"none", "deprecated"} -> "deprecated"
    [] OTHER -> "none"

SetLifecycle(c, action, late) ==
  /\ serving /\ actions < MaxActions
  /\ LifecycleStatus(db.candidate[c].status, action) # "none"
  /\ action = "resume" => Support(db, c) > Contradictions(db, c)
  /\ actions' = actions + 1
  /\ db' = IF late THEN db
           ELSE [db EXCEPT !.candidate[c].status = LifecycleStatus(@, action)]
  /\ shown' = Published(db', {c})
  /\ UNCHANGED <<serving, synced, crashes>>

\* setFeedback; a change of mind is written over the earlier one.
SetFeedback(e, c, f) ==
  /\ serving /\ c \in db.matched[e] /\ db.feedback[e][c] # f
  /\ db' = [db EXCEPT !.feedback[e][c] = f]
  /\ UNCHANGED <<serving, shown, synced, crashes, actions>>

\* setActivation: on only through the gate, off at any time.
SetActivation(on) ==
  /\ serving /\ on # db.requested
  /\ on => ActivationReady(db)
  /\ db' = [db EXCEPT !.requested = on]
  /\ UNCHANGED <<serving, shown, synced, crashes, actions>>

-----------------------------------------------------------------------------
(* The link and the process.                                               *)

LoseLink ==
  /\ synced /\ crashes < MaxCuts
  /\ crashes' = crashes + 1
  /\ synced' = FALSE
  /\ UNCHANGED <<db, serving, shown, actions>>

\* The session list has come, the App asks for the candidates of its session:
\* those with evidence.  What it knows of others stays.
SyncExperience ==
  /\ serving /\ ~synced
  /\ synced' = TRUE
  /\ shown' = [c \in Texts |-> IF Exists(db, c) /\ Support(db, c) + Contradictions(db, c) > 0
                               THEN db.candidate[c].status ELSE shown[c]]
  /\ UNCHANGED <<db, serving, crashes, actions>>

\* The episodes by the time of their outcomes, which is that of the App's clock.
Orders == {order \in [Episodes -> Episodes] : \A e \in Episodes : \E n \in Episodes : order[n] = e}

ReconciledAll(d, order) ==
  LET after[n \in 0 .. Prompts] ==
        IF n = 0 THEN d
        ELSE IF after[n - 1].outcome[order[n]] = NoOutcome \/ Collides(after[n - 1], order[n])
             THEN after[n - 1]
             ELSE Reconciled(after[n - 1], order[n])
  IN  after[Prompts]

\* Mutant of Backfilled: outcomes are reconciled only.
BackfilledNothing(d, order) == d

\* backfill
Backfilled(d, order) ==
  LET after[n \in 0 .. Prompts] == IF n = 0 THEN d ELSE Evaluated(after[n - 1], order[n])
  IN  after[Prompts]

\* The constructor of AgentService: it throws if one insertion fails.  Then
\* applyStaleness pauses what has had no evidence for too long.
Restart(order, stale) ==
  /\ ~serving
  /\ \A e \in Episodes : ~Collides(db, e)
  /\ LET filled == Backfilled(ReconciledAll(db, order), order)
     IN  /\ \A c \in stale : filled.candidate[c].status \in Usable
         /\ db' = [filled EXCEPT !.candidate = [c \in Texts |->
                     IF c \in stale THEN [@[c] EXCEPT !.status = "paused"]
                     ELSE @[c]]]
  /\ serving' = TRUE
  /\ UNCHANGED <<shown, synced, crashes, actions>>

ExperienceNext ==
  \/ \E e \in Episodes, git \in BOOLEAN, m \in SUBSET Texts, c \in SUBSET Texts :
       SubmitPrompt(e, git, m, c)
  \/ \E e \in Episodes, how \in {"delivered", "failed", "abandoned"} : EndEpisode(e, how)
  \/ \E e \in Episodes, o \in Outcomes :
       \/ \E late \in BOOLEAN : SetOutcome(e, o, late)
       \/ CrashAfterOutcome(e, o)
  \/ \E c \in Texts, late \in BOOLEAN :
       \/ \E d \in {"approved", "rejected"}, f \in Edits \cup {db.candidate[c].fingerprint} :
            SetReview(c, d, f, late)
       \/ \E a \in {"pause", "resume", "deprecate"} : SetLifecycle(c, a, late)
  \/ \E e \in Episodes, c \in Texts, f \in {"relevant", "not_relevant"} : SetFeedback(e, c, f)
  \/ \E on \in BOOLEAN : SetActivation(on)
  \/ LoseLink \/ SyncExperience
  \/ \E order \in Orders, stale \in SUBSET Texts : Restart(order, stale)

ExperienceSpec == ExperienceInit /\ [][ExperienceNext]_experienceVars

-----------------------------------------------------------------------------
(* Properties.                                                             *)

\* Only what has more evidence for it than against it is active, whatever
\* outcomes were given, changed or withdrawn since it was applied.
ActiveIsSupported ==
  serving => \A c \in Texts : db.candidate[c].status = "active" => Supported(db, c)

\* The evaluation of an application and the evidence drawn from it agree with
\* the outcome of its episode, through restated outcomes and crashes between the
\* transactions; except where learning from the outcome fails.
EvaluationAgrees ==
  serving => \A e \in Episodes :
    db.applied[e] # {} /\ db.outcome[e] # NoOutcome /\ ~Collides(db, e) =>
      /\ db.evaluation[e] = db.outcome[e]
      /\ \A c \in db.applied[e] : Exists(db, c) =>
           (db.judged[e][c] = "supporting") = (db.outcome[e][1] = "accepted")

\* What a user asked for is evidence of some candidate, and of one only while
\* the user still says so.
CorrectionsKept ==
  serving => \A e \in Episodes :
    ~Collides(db, e) => (Wanted(db, e) # NoText) = Exists(db, db.correction[e][1])

\* What is known for and against a candidate agrees with what users have said.
EvidenceAgrees == EvaluationAgrees /\ CorrectionsKept

\* The App shows the status of every candidate that has evidence, whichever
\* handler has changed it.
AppShowsStatus ==
  serving /\ synced => \A c \in Texts :
    Exists(db, c) /\ Support(db, c) + Contradictions(db, c) > 0 =>
      shown[c] = db.candidate[c].status

\* What is in use, what is counted and what is shown agree with what users have
\* said, wherever the process ended between its transactions.
LearnedSound == ActiveIsSupported /\ EvidenceAgrees /\ AppShowsStatus

\* A candidate that was paused, rejected or deprecated comes back into use by a
\* review or a lifecycle action only: never by evidence, matching or a restart.
NoSilentRevival ==
  [][\A c \in Texts :
       db.candidate[c].status \in {"paused", "rejected", "deprecated"}
         /\ db'.candidate[c].status \in Usable => actions' # actions]_experienceVars

\* However the process ended, it can be started again on what it had learnt.
CanRestart == ~serving => ENABLED \E order \in Orders, stale \in SUBSET Texts :
                              Restart(order, stale)
=============================================================================
