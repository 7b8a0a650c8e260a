--------------------------- MODULE SurfaceRunner ---------------------------
(***************************************************************************)
(* The prompts of one app_server session.  AgentSurfaceRunner starts a     *)
(* provider process with the first prompt, once the session has been       *)
(* looked up, and gives it the prompts one turn after the other.  A turn   *)
(* that fails ends its process; the next prompt starts another.  The       *)
(* session may be closed at any time, and a process may exit.              *)
(*                                                                         *)
(* Writing into the input of a process that was told to end is an error    *)
(* event nobody listens to: the Desktop Agent ends.                        *)
(***************************************************************************)
EXTENDS Naturals, Sequences, FiniteSets, SequencesExt

CONSTANTS Prompts,
          MaxProcesses   \* bound: processes started

ASSUME RunnerAssumption == MaxProcesses \in Nat

NoProcess == 0
Processes == 1..MaxProcesses

VARIABLES
  place,     \* where each prompt is, or what became of it
  handed,    \* prompts in the order submitPrompt was called with them
  begun,     \* prompts in the order their turns began
  binding,   \* bindings: the process new prompts go to, or NoProcess
  creating,  \* pendingBindings has the session
  creation,  \* the lookup under way: the epoch it began in, the prompts that wait
  epoch, closed,
  process,   \* each process
  queue,     \* the prompts of each process, the running turn first
  agentUp

runnerVars ==
  <<place, handed, begun, binding, creating, creation, epoch, closed, process,
    queue, agentUp>>

RunnerTypeOK ==
  /\ place \in [Prompts -> {"unsent", "resolving", "waiting", "queued", "done", "failed"}]
  /\ handed \in Seq(Prompts) /\ begun \in Seq(Prompts)
  /\ binding \in Processes \cup {NoProcess}
  /\ creating \in BOOLEAN
  /\ creation \in [busy : BOOLEAN, epoch : Nat, waiters : Seq(Prompts)]
  /\ epoch \in Nat /\ closed \in BOOLEAN /\ agentUp \in BOOLEAN
  /\ process \in [Processes -> {"unused", "starting", "up", "ending", "exited"}]
  /\ queue \in [Processes -> Seq(Prompts)]

NoCreation == [busy |-> FALSE, epoch |-> 0, waiters |-> <<>>]

RunnerInit ==
  /\ place = [p \in Prompts |-> "unsent"]
  /\ handed = <<>> /\ begun = <<>>
  /\ binding = NoProcess
  /\ creating = FALSE
  /\ creation = NoCreation
  /\ epoch = 0 /\ closed = FALSE /\ agentUp = TRUE
  /\ process = [b \in Processes |-> "unused"]
  /\ queue = [b \in Processes |-> <<>>]

-----------------------------------------------------------------------------

Placed(ps, where) == [p \in Prompts |-> IF p \in ToSet(ps) THEN where ELSE place[p]]

\* agent.prompt.submit: the files a prompt names are read first, so that a
\* later prompt may be handed over earlier.
PromptArrives(p) ==
  /\ agentUp /\ place[p] = "unsent"
  /\ place' = [place EXCEPT ![p] = "resolving"]
  /\ UNCHANGED <<handed, begun, binding, creating, creation, epoch, closed, process,
                 queue, agentUp>>

ContextFails(p) ==
  /\ agentUp /\ place[p] = "resolving"
  /\ place' = [place EXCEPT ![p] = "failed"]
  /\ UNCHANGED <<handed, begun, binding, creating, creation, epoch, closed, process,
                 queue, agentUp>>

Running(b) == process[b] \in {"starting", "up"}

\* A turn begins when the prompt before it has left the queue.
Begins(b, old, new) ==
  IF new # <<>> /\ (old = <<>> \/ Head(old) # Head(new)) /\ Running(b)
  THEN Append(begun, Head(new)) ELSE begun

\* submitPrompt to a process that exited, idle, before: the prompt fails and the
\* binding goes.
SubmitToExited(p) ==
  /\ place' = [place EXCEPT ![p] = "failed"]
  /\ binding' = NoProcess
  /\ UNCHANGED <<begun, queue, creating, creation>>

Enqueue(p) ==
  /\ place' = [place EXCEPT ![p] = "queued"]
  /\ queue' = [queue EXCEPT ![binding] = Append(@, p)]
  /\ begun' = Begins(binding, queue[binding], Append(queue[binding], p))
  /\ UNCHANGED <<binding, creating, creation>>

\* Mutant of AwaitBinding: the newest prompt first.
AwaitBindingFirst(p) ==
  /\ place' = [place EXCEPT ![p] = "waiting"]
  /\ creating' = TRUE
  /\ creation' = IF creating THEN [creation EXCEPT !.waiters = <<p>> \o @]
                 ELSE [busy |-> TRUE, epoch |-> epoch, waiters |-> <<p>>]
  /\ UNCHANGED <<begun, queue, binding>>

AwaitBinding(p) ==
  /\ place' = [place EXCEPT ![p] = "waiting"]
  /\ creating' = TRUE
  /\ creation' = IF creating THEN [creation EXCEPT !.waiters = Append(@, p)]
                 ELSE [busy |-> TRUE, epoch |-> epoch, waiters |-> <<p>>]
  /\ UNCHANGED <<begun, queue, binding>>

Refuse(p) ==
  /\ place' = [place EXCEPT ![p] = "failed"]
  /\ UNCHANGED <<begun, queue, binding, creating, creation>>

\* submitPrompt, getOrCreateBinding.
SubmitPrompt(p) ==
  /\ agentUp /\ place[p] = "resolving"
  /\ handed' = Append(handed, p)
  /\ \/ closed /\ Refuse(p)
     \/ ~closed /\ binding # NoProcess /\ process[binding] = "exited" /\ SubmitToExited(p)
     \/ ~closed /\ binding # NoProcess /\ process[binding] # "exited" /\ Enqueue(p)
     \/ ~closed /\ binding = NoProcess /\ AwaitBinding(p)
  /\ UNCHANGED <<epoch, closed, process, agentUp>>

\* The session is not found any more.
LookupFails ==
  /\ agentUp /\ creation.busy
  /\ place' = Placed(creation.waiters, "failed")
  /\ creating' = FALSE
  /\ creation' = NoCreation
  /\ UNCHANGED <<handed, begun, binding, epoch, closed, process, queue, agentUp>>

Fresh(b) == process[b] = "unused" /\ \A c \in Processes : process[c] = "unused" => b <= c

\* Mutant of Overtaken: a session closed meanwhile is not noticed.
OvertakenNever == FALSE

\* The session was closed while its process was starting.
Overtaken == creation.epoch # epoch

\* createBinding goes on: the process is spawned.
BindingCreated(b) ==
  /\ agentUp /\ creation.busy /\ Fresh(b)
  /\ creating' = FALSE
  /\ creation' = NoCreation
  /\ IF Overtaken
     THEN /\ process' = [process EXCEPT ![b] = "ending"]
          /\ binding' = NoProcess
          /\ place' = Placed(creation.waiters, "failed")
          /\ UNCHANGED <<queue, begun>>
     ELSE /\ process' = [process EXCEPT ![b] = "starting"]
          /\ binding' = b
          /\ place' = Placed(creation.waiters, "queued")
          /\ queue' = [queue EXCEPT ![b] = creation.waiters]
          /\ begun' = Append(begun, Head(creation.waiters))
  /\ UNCHANGED <<handed, epoch, closed, agentUp>>

\* The thread is there, or Claude has answered the control request.
Initialized(b) ==
  /\ agentUp /\ process[b] = "starting"
  /\ process' = [process EXCEPT ![b] = "up"]
  /\ UNCHANGED <<place, handed, begun, binding, creating, creation, epoch, closed,
                 queue, agentUp>>

\* It does not come about in time: every prompt in the queue fails.
InitializationFails(b) ==
  /\ agentUp /\ process[b] = "starting"
  /\ place' = Placed(queue[b], "failed")
  /\ queue' = [queue EXCEPT ![b] = <<>>]
  /\ binding' = NoProcess
  /\ process' = [process EXCEPT ![b] = "ending"]
  /\ UNCHANGED <<handed, begun, creating, creation, epoch, closed, agentUp>>

\* turn/completed, or a result without an error.  The next prompt begins, even
\* if the process has been told to end meanwhile.
TurnCompletes(b) ==
  /\ agentUp /\ process[b] \in {"up", "ending"} /\ queue[b] # <<>>
  /\ place' = [place EXCEPT ![Head(queue[b])] = "done"]
  /\ queue' = [queue EXCEPT ![b] = Tail(@)]
  /\ begun' = Begins(b, queue[b], Tail(queue[b]))
  /\ agentUp' = (process[b] = "up" \/ Tail(queue[b]) = <<>>)
  /\ UNCHANGED <<handed, binding, creating, creation, epoch, closed, process>>

Dropped(b) == [process EXCEPT ![b] = "ending"]

\* A turn fails or its request is not answered in time: bindings forgets the
\* session, the process is told to end, and the next prompt in the queue, if
\* there is one, is written into its closed input.
TurnFails(b) ==
  /\ agentUp /\ process[b] \in {"up", "ending"} /\ queue[b] # <<>>
  /\ place' = [place EXCEPT ![Head(queue[b])] = "failed"]
  /\ queue' = [queue EXCEPT ![b] = Tail(@)]
  /\ binding' = NoProcess
  /\ process' = Dropped(b)
  /\ agentUp' = (Tail(queue[b]) = <<>>)
  /\ UNCHANGED <<handed, begun, creating, creation, epoch, closed>>

\* Mutant of ProcessExits: the running turn is not rejected.
ProcessExitsQuietly(b) ==
  /\ agentUp /\ process[b] \in {"starting", "up", "ending"}
  /\ process' = [process EXCEPT ![b] = "exited"]
  /\ UNCHANGED <<place, handed, begun, binding, creating, creation, epoch, closed,
                 queue, agentUp>>

\* handleExit: the running turn is rejected, those queued fail as their turn comes.
ProcessExits(b) ==
  /\ agentUp /\ process[b] \in {"starting", "up", "ending"}
  /\ process' = [process EXCEPT ![b] = "exited"]
  /\ place' = Placed(queue[b], "failed")
  /\ queue' = [queue EXCEPT ![b] = <<>>]
  /\ binding' = IF queue[b] # <<>> THEN NoProcess ELSE binding
  /\ UNCHANGED <<handed, begun, creating, creation, epoch, closed, agentUp>>

RunnerCloseSession ==
  /\ agentUp /\ ~closed
  /\ closed' = TRUE
  /\ epoch' = epoch + 1
  /\ process' = IF binding = NoProcess \/ process[binding] = "exited" THEN process
                ELSE [process EXCEPT ![binding] = "ending"]
  /\ binding' = NoProcess
  /\ creating' = FALSE
  /\ UNCHANGED <<place, handed, begun, creation, queue, agentUp>>

RunnerNext ==
  \/ \E p \in Prompts : PromptArrives(p) \/ ContextFails(p) \/ SubmitPrompt(p)
  \/ LookupFails
  \/ \E b \in Processes :
       \/ BindingCreated(b) \/ Initialized(b) \/ InitializationFails(b)
       \/ TurnCompletes(b) \/ TurnFails(b) \/ ProcessExits(b)
  \/ RunnerCloseSession

RunnerSpec == RunnerInit /\ [][RunnerNext]_runnerVars

\* The session store answers, and a process that was told to end does.
RunnerFairness ==
  /\ WF_runnerVars(LookupFails \/ \E b \in Processes : BindingCreated(b))
  /\ \A b \in Processes : WF_runnerVars(process[b] = "ending" /\ ProcessExits(b))

-----------------------------------------------------------------------------
(* Properties.                                                             *)

\* Every process that has not been told to end is the one closeSession finds:
\* none outlives its session, even if the session was closed while it started.
NoProcessLeft ==
  agentUp => \A b \in Processes : Running(b) => binding = b /\ ~closed

\* Turns begin in the order submitPrompt was called.
TurnsInOrder ==
  \A i, j \in DOMAIN begun : i < j =>
    \E k, l \in DOMAIN handed : k < l /\ handed[k] = begun[i] /\ handed[l] = begun[j]

\* Once the session is closed, every prompt the runner was given comes to an end.
ClosedPromptsEnd ==
  closed /\ agentUp ~>
    ~agentUp \/ \A p \in Prompts : place[p] \notin {"waiting", "queued"}
=============================================================================
