------------------------ MODULE SurfaceRunner_proofs ------------------------
(***************************************************************************)
(* What holds of the prompts of a session for any prompts and any number of *)
(* processes: no process outlives its session, turns begin in order.        *)
(*                                                                         *)
(* A process that runs is the one the binding names, because a binding is   *)
(* made only from a lookup that found none, and no lookup is under way while *)
(* there is one.  A process told to end keeps prompts only if the session   *)
(* was closed, so a turn that fails there takes no other process's binding. *)
(***************************************************************************)
EXTENDS SurfaceRunner, TLAPS

\* Prompt p was handed over before prompt q, by the history h.
Before(h, p, q) ==
  \E k, l \in DOMAIN h : k < l /\ h[k] = p /\ h[l] = q

HandedIn(h, p) == \E k \in DOMAIN h : h[k] = p

Lookup ==
  creation.busy =>
    /\ binding = NoProcess /\ creation.waiters # <<>> /\ creation.epoch <= epoch
    /\ creation.epoch = epoch => ~closed

Binding == binding # NoProcess => ~closed /\ process[binding] \in {"starting", "up", "exited"}

Ending ==
  \A b \in Processes :
    /\ process[b] = "unused" => queue[b] = <<>>
    /\ process[b] = "ending" /\ queue[b] # <<>> => closed

\* The binding part of the inductive invariant.
OneProcess == agentUp => Lookup /\ Binding /\ Ending /\ NoProcessLeft

Ordered(h, s) ==
  /\ \A i \in DOMAIN s : HandedIn(h, s[i])
  /\ \A i, j \in DOMAIN s : i < j => Before(h, s[i], s[j])

\* s comes after every turn in b, but for its first n prompts.
After(h, b, s, n) ==
  \A k \in DOMAIN b, i \in DOMAIN s : i > n => Before(h, b[k], s[i])

\* The part about order: who waits comes after every turn begun so far, and so
\* does who is queued behind the running turn.
TurnsOrdered == Ordered(handed, begun)

WaitersOrdered ==
  agentUp /\ creation.busy =>
    Ordered(handed, creation.waiters) /\ After(handed, begun, creation.waiters, 0)

QueueOrdered ==
  agentUp =>
    \A b \in Processes : Running(b) =>
      Ordered(handed, queue[b]) /\ After(handed, begun, queue[b], 1)

InOrder == TurnsOrdered /\ WaitersOrdered /\ QueueOrdered

IInv == RunnerTypeOK /\ OneProcess /\ InOrder

-----------------------------------------------------------------------------
(* Typing.                                                                 *)

LEMMA TailSeq ==
  ASSUME NEW S, NEW s \in Seq(S), s # <<>>
  PROVE  /\ Tail(s) \in Seq(S) /\ Len(Tail(s)) = Len(s) - 1 /\ Head(s) \in S /\ Head(s) = s[1]
         /\ \A i \in 1 .. Len(Tail(s)) : Tail(s)[i] = s[i + 1] /\ i + 1 \in 1 .. Len(s)
OBVIOUS

LEMMA PlacedType ==
  ASSUME NEW S, NEW s, NEW w \in S, place \in [Prompts -> S]
  PROVE  Placed(s, w) \in [Prompts -> S]
BY DEF Placed

LEMMA BeginsType ==
  ASSUME begun \in Seq(Prompts), NEW b, NEW old, NEW new \in Seq(Prompts)
  PROVE  Begins(b, old, new) \in Seq(Prompts)
BY DEF Begins

LEMMA TypeStep == RunnerTypeOK /\ OneProcess /\ [RunnerNext]_runnerVars => RunnerTypeOK'
<1> SUFFICES ASSUME RunnerTypeOK, OneProcess, [RunnerNext]_runnerVars PROVE RunnerTypeOK'
  OBVIOUS
<1> DEFINE Places == {"unsent", "resolving", "waiting", "queued", "done", "failed"}
           States == {"unused", "starting", "up", "ending", "exited"}
<1>0. /\ place \in [Prompts -> Places] /\ process \in [Processes -> States]
      /\ handed \in Seq(Prompts) /\ begun \in Seq(Prompts)
      /\ queue \in [Processes -> Seq(Prompts)] /\ binding \in Processes \cup {NoProcess}
      /\ creation \in [busy : BOOLEAN, epoch : Nat, waiters : Seq(Prompts)]
      /\ creation.waiters \in Seq(Prompts) /\ epoch \in Nat
  BY DEF RunnerTypeOK
<1>1. ASSUME NEW p \in Prompts, PromptArrives(p) \/ ContextFails(p) PROVE RunnerTypeOK'
  BY <1>1 DEF RunnerTypeOK, PromptArrives, ContextFails
<1>2. ASSUME NEW p \in Prompts, SubmitPrompt(p) PROVE RunnerTypeOK'
  <2>0. handed' \in Seq(Prompts) /\ UNCHANGED <<epoch, closed, process, agentUp>>
    BY <1>0, <1>2 DEF SubmitPrompt
  <2>1. CASE Refuse(p) \/ SubmitToExited(p)
    BY <2>0, <2>1 DEF RunnerTypeOK, Refuse, SubmitToExited
  <2>2. CASE binding # NoProcess /\ Enqueue(p)
    <3>1. queue' \in [Processes -> Seq(Prompts)] /\ begun' \in Seq(Prompts)
      <4>1. binding \in Processes /\ Append(queue[binding], p) \in Seq(Prompts)
        BY <1>0, <2>2
      <4> QED BY <1>0, <2>2, <4>1, BeginsType DEF Enqueue
    <3>2. place' \in [Prompts -> Places]
      BY <1>0, <2>2 DEF Enqueue
    <3> QED BY <2>0, <2>2, <3>1, <3>2 DEF RunnerTypeOK, Enqueue
  <2>3. CASE AwaitBinding(p)
    <3>1. creation' \in [busy : BOOLEAN, epoch : Nat, waiters : Seq(Prompts)]
      <4>1. Append(creation.waiters, p) \in Seq(Prompts) /\ <<p>> \in Seq(Prompts)
        BY <1>0
      <4> QED BY <1>0, <2>3, <4>1 DEF AwaitBinding
    <3>2. place' \in [Prompts -> Places]
      BY <1>0, <2>3 DEF AwaitBinding
    <3> QED BY <2>0, <2>3, <3>1, <3>2 DEF RunnerTypeOK, AwaitBinding
  <2> QED BY <1>2, <2>1, <2>2, <2>3 DEF SubmitPrompt
<1>3. ASSUME LookupFails PROVE RunnerTypeOK'
  <2>1. place' \in [Prompts -> Places]
    <3>1. Placed(creation.waiters, "failed") \in [Prompts -> Places]
      BY <1>0, PlacedType
    <3> QED BY <1>3, <3>1 DEF LookupFails
  <2>2. /\ creation' \in [busy : BOOLEAN, epoch : Nat, waiters : Seq(Prompts)]
        /\ creating' = FALSE
        /\ UNCHANGED <<handed, begun, binding, epoch, closed, process, queue, agentUp>>
    BY <1>3 DEF LookupFails, NoCreation
  <2> QED BY <2>1, <2>2 DEF RunnerTypeOK
<1>4. ASSUME NEW b \in Processes, BindingCreated(b) PROVE RunnerTypeOK'
  <2>1. place' \in [Prompts -> Places]
    <3>1. /\ Placed(creation.waiters, "failed") \in [Prompts -> Places]
          /\ Placed(creation.waiters, "queued") \in [Prompts -> Places]
      BY <1>0, PlacedType
    <3> QED BY <1>4, <3>1 DEF BindingCreated
  <2>2. Head(creation.waiters) \in Prompts
    BY <1>0, <1>4, TailSeq DEF BindingCreated, OneProcess, Lookup
  <2>3. queue' \in [Processes -> Seq(Prompts)] /\ process' \in [Processes -> States]
    BY <1>0, <1>4 DEF BindingCreated
  <2>4. begun' \in Seq(Prompts)
    <3>1. Append(begun, Head(creation.waiters)) \in Seq(Prompts)
      BY <1>0, <2>2
    <3> QED BY <1>0, <1>4, <3>1 DEF BindingCreated
  <2>5. creation' \in [busy : BOOLEAN, epoch : Nat, waiters : Seq(Prompts)]
    BY <1>4 DEF BindingCreated, NoCreation
  <2>6. binding' \in Processes \cup {NoProcess} /\ creating' = FALSE
    BY <1>4 DEF BindingCreated
  <2>7. UNCHANGED <<handed, epoch, closed, agentUp>>
    BY <1>4 DEF BindingCreated
  <2> QED BY <2>1, <2>3, <2>4, <2>5, <2>6, <2>7 DEF RunnerTypeOK
<1>5. ASSUME NEW b \in Processes, Initialized(b) PROVE RunnerTypeOK'
  BY <1>5 DEF RunnerTypeOK, Initialized
<1>6. ASSUME NEW b \in Processes, InitializationFails(b) \/ ProcessExits(b) PROVE RunnerTypeOK'
  <2>1. place' \in [Prompts -> Places]
    <3>1. Placed(queue[b], "failed") \in [Prompts -> Places]
      BY <1>0, PlacedType
    <3> QED BY <1>6, <3>1 DEF InitializationFails, ProcessExits
  <2>2. queue' \in [Processes -> Seq(Prompts)]
    <3>1. <<>> \in Seq(Prompts) /\ queue' = [queue EXCEPT ![b] = <<>>]
      BY <1>6 DEF InitializationFails, ProcessExits
    <3> QED BY <1>0, <3>1
  <2>3. process' \in [Processes -> States]
    BY <1>0, <1>6 DEF InitializationFails, ProcessExits
  <2> QED BY <1>6, <2>1, <2>2, <2>3 DEF RunnerTypeOK, InitializationFails, ProcessExits
<1>7. ASSUME NEW b \in Processes, TurnCompletes(b) \/ TurnFails(b) PROVE RunnerTypeOK'
  <2>1. Head(queue[b]) \in Prompts /\ Tail(queue[b]) \in Seq(Prompts)
    BY <1>0, <1>7, TailSeq DEF TurnCompletes, TurnFails
  <2>2. /\ queue' \in [Processes -> Seq(Prompts)] /\ process' \in [Processes -> States]
        /\ place' \in [Prompts -> Places]
    <3>1. queue' = [queue EXCEPT ![b] = Tail(queue[b])]
      BY <1>7 DEF TurnCompletes, TurnFails
    <3>2. process' = process \/ process' = [process EXCEPT ![b] = "ending"]
      BY <1>7 DEF TurnCompletes, TurnFails, Dropped
    <3>3. \/ place' = [place EXCEPT ![Head(queue[b])] = "done"]
          \/ place' = [place EXCEPT ![Head(queue[b])] = "failed"]
      BY <1>7 DEF TurnCompletes, TurnFails
    <3>4. queue' \in [Processes -> Seq(Prompts)]
      BY <1>0, <2>1, <3>1
    <3>5. process' \in [Processes -> States]
      BY <1>0, <3>2
    <3>6. place' \in [Prompts -> Places]
      BY <1>0, <3>3
    <3> QED BY <3>4, <3>5, <3>6
  <2>3. begun' \in Seq(Prompts)
    <3>1. Begins(b, queue[b], Tail(queue[b])) \in Seq(Prompts)
      BY <1>0, <2>1, BeginsType
    <3> QED BY <1>0, <1>7, <3>1 DEF TurnCompletes, TurnFails
  <2>4. agentUp' \in BOOLEAN
    BY <1>7 DEF TurnCompletes, TurnFails
  <2> QED BY <1>7, <2>2, <2>3, <2>4 DEF RunnerTypeOK, TurnCompletes, TurnFails
<1>8. ASSUME RunnerCloseSession PROVE RunnerTypeOK'
  <2>1. process' \in [Processes -> States]
    BY <1>0, <1>8 DEF RunnerCloseSession
  <2>2. /\ UNCHANGED <<place, handed, begun, creation, queue, agentUp>>
        /\ closed' = TRUE /\ epoch' = epoch + 1 /\ binding' = NoProcess /\ creating' = FALSE
    BY <1>8 DEF RunnerCloseSession
  <2>3. epoch' \in Nat
    BY <1>0, <2>2
  <2> QED BY <2>1, <2>2, <2>3 DEF RunnerTypeOK
<1>9. CASE UNCHANGED runnerVars
  BY <1>9 DEF RunnerTypeOK, runnerVars
<1> QED BY <1>1, <1>2, <1>3, <1>4, <1>5, <1>6, <1>7, <1>8, <1>9 DEF RunnerNext

-----------------------------------------------------------------------------
(* One process.                                                            *)

LEMMA OneProcessStep ==
  RunnerTypeOK /\ OneProcess /\ [RunnerNext]_runnerVars => OneProcess'
<1> SUFFICES ASSUME RunnerTypeOK, OneProcess, [RunnerNext]_runnerVars, agentUp' PROVE
             Lookup' /\ Binding' /\ Ending' /\ NoProcessLeft'
  BY DEF OneProcess
<1> USE DEF Running
<1>0. /\ process \in [Processes -> {"unused", "starting", "up", "ending", "exited"}]
      /\ queue \in [Processes -> Seq(Prompts)] /\ binding \in Processes \cup {NoProcess}
      /\ epoch \in Nat /\ creation.epoch \in Nat /\ creation.waiters \in Seq(Prompts)
      /\ closed \in BOOLEAN
      /\ creation \in [busy : BOOLEAN, epoch : Nat, waiters : Seq(Prompts)]
  BY DEF RunnerTypeOK
<1>u. NoProcess \notin Processes
  BY DEF NoProcess, Processes
<1>1. ASSUME NEW p \in Prompts, PromptArrives(p) \/ ContextFails(p)
      PROVE  Lookup' /\ Binding' /\ Ending' /\ NoProcessLeft'
  <2>1. agentUp /\ UNCHANGED <<binding, creation, epoch, closed, process, queue>>
    BY <1>1 DEF PromptArrives, ContextFails
  <2> QED BY <2>1 DEF OneProcess, Lookup, Binding, Ending, NoProcessLeft
<1>2. ASSUME NEW p \in Prompts, SubmitPrompt(p)
      PROVE  Lookup' /\ Binding' /\ Ending' /\ NoProcessLeft'
  <2>0. /\ Lookup /\ Binding /\ Ending /\ NoProcessLeft /\ agentUp
        /\ UNCHANGED <<epoch, closed, process, agentUp>>
    BY <1>2 DEF SubmitPrompt, OneProcess
  <2>1. CASE Refuse(p)
    BY <2>0, <2>1 DEF Refuse, Lookup, Binding, Ending, NoProcessLeft
  <2>2. CASE process[binding] = "exited" /\ SubmitToExited(p)
    BY <2>0, <2>2 DEF SubmitToExited, Lookup, Binding, Ending, NoProcessLeft
  <2>3. CASE binding # NoProcess /\ Enqueue(p)
    <3>1. process[binding] # "ending" /\ process[binding] # "unused" /\ binding \in Processes
      BY <1>0, <2>0, <2>3 DEF Binding
    <3>2. Ending'
      BY <1>0, <2>0, <2>3, <3>1 DEF Ending, Enqueue
    <3> QED BY <2>0, <2>3, <3>2 DEF Enqueue, Lookup, Binding, NoProcessLeft
  <2>4. CASE ~closed /\ binding = NoProcess /\ AwaitBinding(p)
    <3>1. creation'.busy => creation'.waiters # <<>> /\ creation'.epoch <= epoch
      <4>1. CASE creating
        <5>1. creation' = [creation EXCEPT !.waiters = Append(creation.waiters, p)]
          BY <2>4, <4>1 DEF AwaitBinding
        <5>2. /\ creation'.waiters = Append(creation.waiters, p)
              /\ creation'.epoch = creation.epoch /\ creation'.busy = creation.busy
          BY <1>0, <5>1
        <5>3. Append(creation.waiters, p) # <<>>
          <6>1. creation.waiters \in Seq(Prompts)
            BY <1>0
          <6> QED BY <6>1
        <5> QED BY <2>0, <5>2, <5>3 DEF Lookup
      <4>2. CASE ~creating
        BY <1>0, <2>4, <4>2 DEF AwaitBinding
      <4> QED BY <4>1, <4>2
    <3> QED BY <2>0, <2>4, <3>1 DEF AwaitBinding, Lookup, Binding, Ending, NoProcessLeft
  <2> QED BY <1>2, <2>1, <2>2, <2>3, <2>4 DEF SubmitPrompt
<1>3. ASSUME LookupFails
      PROVE  Lookup' /\ Binding' /\ Ending' /\ NoProcessLeft'
  BY <1>3 DEF LookupFails, NoCreation, OneProcess, Lookup, Binding, Ending, NoProcessLeft
<1>4. ASSUME NEW b \in Processes, BindingCreated(b)
      PROVE  Lookup' /\ Binding' /\ Ending' /\ NoProcessLeft'
  <2>0. /\ Lookup /\ Binding /\ Ending /\ NoProcessLeft /\ agentUp /\ creation.busy
        /\ process[b] = "unused" /\ queue[b] = <<>> /\ ~creation'.busy
        /\ UNCHANGED <<epoch, closed, agentUp>>
    BY <1>4 DEF BindingCreated, OneProcess, Fresh, NoCreation, Ending
  <2>1. CASE Overtaken
    <3>1. /\ process' = [process EXCEPT ![b] = "ending"] /\ binding' = NoProcess
          /\ queue' = queue
      BY <1>4, <2>1 DEF BindingCreated
    <3> QED BY <1>0, <2>0, <3>1 DEF Lookup, Binding, Ending, NoProcessLeft
  <2>2. CASE ~Overtaken
    <3>1. /\ process' = [process EXCEPT ![b] = "starting"] /\ binding' = b /\ ~closed
          /\ queue' = [queue EXCEPT ![b] = creation.waiters] /\ binding = NoProcess
      BY <1>4, <2>0, <2>2 DEF BindingCreated, Overtaken, Lookup
    <3>2. \A c \in Processes : ~Running(c)
      BY <1>u, <2>0, <3>1 DEF NoProcessLeft
    <3>3. Binding' /\ NoProcessLeft'
      BY <1>0, <2>0, <3>1, <3>2 DEF Binding, NoProcessLeft
    <3>4. Ending'
      BY <1>0, <2>0, <3>1 DEF Ending
    <3> QED BY <2>0, <3>3, <3>4 DEF Lookup
  <2> QED BY <2>1, <2>2
<1>5. ASSUME NEW b \in Processes, Initialized(b)
      PROVE  Lookup' /\ Binding' /\ Ending' /\ NoProcessLeft'
  BY <1>0, <1>5 DEF Initialized, OneProcess, Lookup, Binding, Ending, NoProcessLeft
<1>6. ASSUME NEW b \in Processes, InitializationFails(b)
      PROVE  Lookup' /\ Binding' /\ Ending' /\ NoProcessLeft'
  <2>1. \A c \in Processes : c # b => ~Running(c)
    BY <1>6 DEF InitializationFails, OneProcess, NoProcessLeft
  <2>2. /\ process' = [process EXCEPT ![b] = "ending"] /\ queue' = [queue EXCEPT ![b] = <<>>]
        /\ binding' = NoProcess /\ UNCHANGED <<creation, epoch, closed, agentUp>>
    BY <1>6 DEF InitializationFails
  <2> QED BY <1>0, <2>1, <2>2 DEF OneProcess, Lookup, Binding, Ending, NoProcessLeft
<1>7. ASSUME NEW b \in Processes, TurnCompletes(b)
      PROVE  Lookup' /\ Binding' /\ Ending' /\ NoProcessLeft'
  <2>1. /\ process[b] \in {"up", "ending"} /\ queue[b] # <<>> /\ queue' = [queue EXCEPT ![b] = Tail(@)]
        /\ UNCHANGED <<binding, creation, epoch, closed, process>> /\ agentUp
    BY <1>7 DEF TurnCompletes
  <2> QED BY <1>0, <2>1 DEF OneProcess, Lookup, Binding, Ending, NoProcessLeft
<1>8. ASSUME NEW b \in Processes, TurnFails(b)
      PROVE  Lookup' /\ Binding' /\ Ending' /\ NoProcessLeft'
  <2>1. /\ process[b] \in {"up", "ending"} /\ queue[b] # <<>> /\ Tail(queue[b]) = <<>>
        /\ queue' = [queue EXCEPT ![b] = Tail(@)] /\ process' = [process EXCEPT ![b] = "ending"]
        /\ UNCHANGED <<creation, epoch, closed>> /\ agentUp /\ binding' = NoProcess
    BY <1>8 DEF TurnFails, Dropped
  <2>2. \A c \in Processes : c # b => ~Running(c)
    BY <1>u, <2>1 DEF OneProcess, NoProcessLeft, Binding, Ending
  <2> QED BY <1>0, <2>1, <2>2 DEF OneProcess, Lookup, Binding, Ending, NoProcessLeft
<1>9. ASSUME NEW b \in Processes, ProcessExits(b)
      PROVE  Lookup' /\ Binding' /\ Ending' /\ NoProcessLeft'
  <2>1. /\ process[b] \in {"starting", "up", "ending"} /\ agentUp
        /\ queue' = [queue EXCEPT ![b] = <<>>] /\ process' = [process EXCEPT ![b] = "exited"]
        /\ UNCHANGED <<creation, epoch, closed>>
        /\ binding' = IF queue[b] # <<>> THEN NoProcess ELSE binding
    BY <1>9 DEF ProcessExits
  <2>2. Ending' /\ Binding' /\ Lookup'
    BY <1>0, <1>u, <2>1 DEF OneProcess, Lookup, Binding, Ending
  <2>3. NoProcessLeft'
    BY <1>0, <1>u, <2>1 DEF OneProcess, Binding, Ending, NoProcessLeft
  <2> QED BY <2>2, <2>3
<1>10. ASSUME RunnerCloseSession
       PROVE  Lookup' /\ Binding' /\ Ending' /\ NoProcessLeft'
  <2>1. /\ closed' = TRUE /\ epoch' = epoch + 1 /\ binding' = NoProcess /\ agentUp
        /\ UNCHANGED <<creation, queue>>
        /\ process' = IF binding = NoProcess \/ process[binding] = "exited" THEN process
                      ELSE [process EXCEPT ![binding] = "ending"]
    BY <1>10 DEF RunnerCloseSession
  <2>2. Lookup' /\ Binding'
    BY <1>0, <2>1 DEF OneProcess, Lookup, Binding
  <2>3. Ending' /\ NoProcessLeft'
    BY <1>0, <1>u, <2>1 DEF OneProcess, Binding, Ending, NoProcessLeft
  <2> QED BY <2>2, <2>3
<1>11. CASE UNCHANGED runnerVars
  BY <1>11 DEF runnerVars, OneProcess, Lookup, Binding, Ending, NoProcessLeft
<1> QED BY <1>1, <1>2, <1>3, <1>4, <1>5, <1>6, <1>7, <1>8, <1>9, <1>10, <1>11 DEF RunnerNext

-----------------------------------------------------------------------------
(* Order.                                                                  *)

\* Prompts handed over stay handed over, in the same order.
LEMMA HandedOver ==
  ASSUME NEW h \in Seq(Prompts), NEW p \in Prompts
  PROVE  /\ HandedIn(Append(h, p), p)
         /\ \A x : HandedIn(h, x) => HandedIn(Append(h, p), x) /\ Before(Append(h, p), x, p)
         /\ \A x, y : Before(h, x, y) => Before(Append(h, p), x, y)
<1> DEFINE g == Append(h, p)
<1>1. /\ Len(h) \in Nat /\ DOMAIN h = 1 .. Len(h) /\ DOMAIN g = 1 .. Len(h) + 1
      /\ \A i \in 1 .. Len(h) : g[i] = h[i]
      /\ g[Len(h) + 1] = p
  OBVIOUS
<1> HIDE DEF g
<1>2. Len(h) + 1 \in DOMAIN g
  BY <1>1
<1>3. HandedIn(g, p)
  BY <1>1, <1>2 DEF HandedIn
<1>4. ASSUME NEW x, HandedIn(h, x) PROVE HandedIn(g, x) /\ Before(g, x, p)
  <2>1. PICK k \in 1 .. Len(h) : h[k] = x
    BY <1>1, <1>4 DEF HandedIn
  <2>2. k \in DOMAIN g /\ k < Len(h) + 1 /\ g[k] = x
    BY <1>1, <2>1
  <2> QED BY <1>1, <1>2, <2>2 DEF HandedIn, Before
<1>5. ASSUME NEW x, NEW y, Before(h, x, y) PROVE Before(g, x, y)
  <2>1. PICK k, l \in 1 .. Len(h) : k < l /\ h[k] = x /\ h[l] = y
    BY <1>1, <1>5 DEF Before
  <2>2. k \in DOMAIN g /\ l \in DOMAIN g /\ g[k] = x /\ g[l] = y
    BY <1>1, <2>1
  <2> QED BY <2>1, <2>2 DEF Before
<1> QED BY <1>3, <1>4, <1>5 DEF g

\* Ordered sequences stay ordered as prompts are handed over.
LEMMA OrderedKept ==
  ASSUME NEW h \in Seq(Prompts), NEW p \in Prompts, NEW s, NEW b, NEW n
  PROVE  /\ Ordered(h, s) => Ordered(Append(h, p), s)
         /\ After(h, b, s, n) => After(Append(h, p), b, s, n)
BY HandedOver DEF Ordered, After

\* A prompt that comes after the prompts of s may be appended to s.
LEMMA OrderedGrows ==
  ASSUME NEW h, NEW s \in Seq(Prompts), Ordered(h, s), NEW p \in Prompts, HandedIn(h, p),
         \A k \in DOMAIN s : Before(h, s[k], p)
  PROVE  Ordered(h, Append(s, p))
<1> DEFINE t == Append(s, p)
<1>1. /\ DOMAIN t = 1 .. Len(s) + 1 /\ DOMAIN s = 1 .. Len(s) /\ Len(s) \in Nat
      /\ \A i \in 1 .. Len(s) : t[i] = s[i]
      /\ t[Len(s) + 1] = p
  OBVIOUS
<1> HIDE DEF t
<1>2. \A i \in DOMAIN t : HandedIn(h, t[i])
  BY <1>1 DEF Ordered
<1>3. \A i, j \in DOMAIN t : i < j => Before(h, t[i], t[j])
  <2> SUFFICES ASSUME NEW i \in 1 .. Len(s) + 1, NEW j \in 1 .. Len(s) + 1, i < j
               PROVE  Before(h, t[i], t[j])
    BY <1>1
  <2>1. i \in DOMAIN s /\ t[i] = s[i]
    BY <1>1
  <2>2. CASE j = Len(s) + 1
    BY <1>1, <2>1, <2>2
  <2>3. CASE j # Len(s) + 1
    <3>1. j \in DOMAIN s /\ t[j] = s[j]
      BY <1>1, <2>3
    <3> QED BY <2>1, <3>1 DEF Ordered
  <2> QED BY <2>2, <2>3
<1> QED BY <1>2, <1>3 DEF Ordered, t

\* The prompt that is handed over comes after all others.
LEMMA NewestLast ==
  ASSUME NEW h \in Seq(Prompts), NEW p \in Prompts, NEW s \in Seq(Prompts), Ordered(h, s),
         NEW b \in Seq(Prompts), Ordered(h, b), NEW n \in Nat, After(h, b, s, n)
  PROVE  /\ Ordered(Append(h, p), Append(s, p))
         /\ After(Append(h, p), b, Append(s, p), n)
<1> DEFINE g == Append(h, p)
           t == Append(s, p)
<1>1. /\ Ordered(g, s) /\ After(g, b, s, n) /\ HandedIn(g, p)
      /\ \A k \in DOMAIN s : Before(g, s[k], p)
      /\ \A k \in DOMAIN b : Before(g, b[k], p)
  BY OrderedKept, HandedOver DEF Ordered
<1>2. /\ DOMAIN t = 1 .. Len(s) + 1 /\ DOMAIN s = 1 .. Len(s) /\ Len(s) \in Nat
      /\ \A i \in 1 .. Len(s) : t[i] = s[i]
      /\ t[Len(s) + 1] = p
  OBVIOUS
<1> HIDE DEF g
<1>3. Ordered(g, t)
  BY <1>1, OrderedGrows
<1> HIDE DEF t
<1>4. After(g, b, t, n)
  <2> SUFFICES ASSUME NEW k \in DOMAIN b, NEW i \in 1 .. Len(s) + 1, i > n
               PROVE  Before(g, b[k], t[i])
    BY <1>2 DEF After
  <2>1. CASE i = Len(s) + 1
    BY <1>1, <1>2, <2>1
  <2>2. CASE i # Len(s) + 1
    <3>1. i \in DOMAIN s /\ t[i] = s[i]
      BY <1>2, <2>2
    <3> QED BY <1>1, <3>1 DEF After
  <2> QED BY <2>1, <2>2
<1> QED BY <1>3, <1>4 DEF g, t

\* The first of a sequence of prompts may begin once nothing of it has.
LEMMA FirstBegins ==
  ASSUME NEW h, NEW s \in Seq(Prompts), s # <<>>, Ordered(h, s),
         NEW b \in Seq(Prompts), Ordered(h, b), After(h, b, s, 0)
  PROVE  Ordered(h, Append(b, Head(s))) /\ After(h, Append(b, Head(s)), s, 1)
<1> DEFINE c == Append(b, Head(s))
<1>1. /\ DOMAIN s = 1 .. Len(s) /\ Len(s) \in Nat /\ 1 \in DOMAIN s /\ Head(s) = s[1]
      /\ Head(s) \in Prompts
  OBVIOUS
<1>2. /\ DOMAIN c = 1 .. Len(b) + 1 /\ DOMAIN b = 1 .. Len(b) /\ Len(b) \in Nat
      /\ \A i \in 1 .. Len(b) : c[i] = b[i]
      /\ c[Len(b) + 1] = s[1]
  BY <1>1
<1>3. Ordered(h, c)
  <2>1. HandedIn(h, Head(s)) /\ \A k \in DOMAIN b : Before(h, b[k], Head(s))
    BY <1>1 DEF Ordered, After
  <2> QED BY <1>1, <2>1, OrderedGrows
<1> HIDE DEF c
<1>4. After(h, c, s, 1)
  <2> SUFFICES ASSUME NEW k \in 1 .. Len(b) + 1, NEW i \in DOMAIN s, i > 1
               PROVE  Before(h, c[k], s[i])
    BY <1>2 DEF After
  <2>1. CASE k = Len(b) + 1
    BY <1>1, <1>2, <2>1 DEF Ordered
  <2>2. CASE k # Len(b) + 1
    <3>1. k \in DOMAIN b /\ c[k] = b[k]
      BY <1>2, <2>2
    <3> QED BY <1>1, <3>1 DEF After
  <2> QED BY <2>1, <2>2
<1> QED BY <1>3, <1>4 DEF c

\* What is behind the first is ordered, and after what the first came after.
LEMMA RestOrdered ==
  ASSUME NEW h, NEW s \in Seq(Prompts), s # <<>>, Ordered(h, s), NEW b, After(h, b, s, 1)
  PROVE  Ordered(h, Tail(s)) /\ After(h, b, Tail(s), 0)
<1> DEFINE t == Tail(s)
<1>1. /\ DOMAIN s = 1 .. Len(s) /\ Len(s) \in Nat
      /\ \A i \in DOMAIN t : i \in Nat /\ i > 0 /\ i + 1 \in DOMAIN s /\ t[i] = s[i + 1]
  OBVIOUS
<1> HIDE DEF t
<1>2. Ordered(h, t)
  BY <1>1 DEF Ordered
<1>3. After(h, b, t, 0)
  BY <1>1 DEF After
<1> QED BY <1>2, <1>3 DEF t

\* A step that hands nothing over, begins no turn and lets no process run, and
\* keeps the queues of those that still run.
LEMMA QuietOrder ==
  ASSUME InOrder, UNCHANGED <<handed, begun>>, agentUp' => agentUp,
         creation'.busy => UNCHANGED creation,
         \A b \in Processes : Running(b)' => Running(b) /\ queue'[b] = queue[b]
  PROVE  InOrder'
BY DEF InOrder, TurnsOrdered, WaitersOrdered, QueueOrdered

LEMMA SubmitOrder ==
  ASSUME IInv, NEW p \in Prompts, SubmitPrompt(p)
  PROVE  InOrder'
<1>0. /\ handed \in Seq(Prompts) /\ begun \in Seq(Prompts) /\ handed' = Append(handed, p)
      /\ queue \in [Processes -> Seq(Prompts)] /\ creation.waiters \in Seq(Prompts)
      /\ creation \in [busy : BOOLEAN, epoch : Nat, waiters : Seq(Prompts)]
      /\ binding \in Processes \cup {NoProcess}
      /\ TurnsOrdered /\ WaitersOrdered /\ QueueOrdered
      /\ Lookup /\ Binding /\ NoProcessLeft /\ agentUp
      /\ UNCHANGED <<process, agentUp>>
  BY DEF IInv, InOrder, RunnerTypeOK, OneProcess, SubmitPrompt
<1>u. NoProcess \notin Processes
  BY DEF NoProcess, Processes
<1>1. \A s, b, n : /\ Ordered(handed, s) => Ordered(handed', s)
                   /\ After(handed, b, s, n) => After(handed', b, s, n)
  BY <1>0, OrderedKept
<1>2. CASE Refuse(p) \/ SubmitToExited(p)
  <2>1. UNCHANGED <<begun, queue, creation>>
    BY <1>2 DEF Refuse, SubmitToExited
  <2> QED BY <1>0, <1>1, <2>1 DEF InOrder, TurnsOrdered, WaitersOrdered, QueueOrdered, Running
<1>3. CASE binding # NoProcess /\ process[binding] # "exited" /\ Enqueue(p)
  <2> DEFINE q == queue[binding]
  <2>1. /\ binding \in Processes /\ Running(binding) /\ q \in Seq(Prompts)
        /\ \A c \in Processes : Running(c) => c = binding
        /\ queue'[binding] = Append(q, p) /\ begun' = Begins(binding, q, Append(q, p))
        /\ UNCHANGED creation /\ ~creation.busy
    BY <1>0, <1>3 DEF Binding, Running, NoProcessLeft, Enqueue, Lookup
  <2>2. /\ Ordered(handed, q) /\ After(handed, begun, q, 1) /\ Ordered(handed, begun)
    BY <1>0, <2>1 DEF QueueOrdered, TurnsOrdered
  <2>3. Ordered(handed', Append(q, p)) /\ After(handed', begun, Append(q, p), 1)
    BY <1>0, <2>1, <2>2, NewestLast
  <2>4. Ordered(handed', begun') /\ After(handed', begun', Append(q, p), 1)
    <3>1. CASE q = <<>>
      <4>1. Append(q, p) # <<>> /\ Head(Append(q, p)) = p /\ Len(Append(q, p)) = 1
        BY <3>1
      <4>2. begun' = Append(begun, p)
        BY <2>1, <3>1, <4>1 DEF Begins
      <4>3. Ordered(handed', begun) /\ \A k \in DOMAIN begun : Before(handed', begun[k], p)
        BY <1>0, <1>1, <2>2, HandedOver DEF Ordered
      <4>4. HandedIn(handed', p)
        BY <1>0, HandedOver
      <4>5. Ordered(handed', begun')
        BY <1>0, <4>2, <4>3, <4>4, OrderedGrows
      <4>6. \A i \in DOMAIN Append(q, p) : ~ i > 1
        BY <3>1
      <4> QED BY <4>5, <4>6 DEF After
    <3>2. CASE q # <<>>
      <4>1. Head(Append(q, p)) = Head(q)
        BY <2>1, <3>2
      <4>2. begun' = begun
        BY <2>1, <3>2, <4>1 DEF Begins
      <4> QED BY <1>1, <2>2, <2>3, <4>2
    <3> QED BY <3>1, <3>2
  <2> QED BY <1>0, <2>1, <2>3, <2>4
          DEF InOrder, TurnsOrdered, WaitersOrdered, QueueOrdered, Running
<1>4. CASE ~closed /\ binding = NoProcess /\ AwaitBinding(p)
  <2>1. UNCHANGED begun /\ \A c \in Processes : ~Running(c)
    BY <1>0, <1>u, <1>4 DEF AwaitBinding, NoProcessLeft
  <2>2. TurnsOrdered' /\ QueueOrdered'
    BY <1>0, <1>1, <2>1 DEF TurnsOrdered, QueueOrdered, Running
  <2>3. WaitersOrdered'
    <3>1. CASE creating
      <4>1. /\ creation'.waiters = Append(creation.waiters, p)
            /\ creation'.busy = creation.busy
        BY <1>0, <1>4, <3>1 DEF AwaitBinding
      <4>2. CASE creation.busy
        <5>1. /\ Ordered(handed, creation.waiters) /\ After(handed, begun, creation.waiters, 0)
              /\ Ordered(handed, begun)
          BY <1>0, <4>2 DEF WaitersOrdered, TurnsOrdered
        <5>2. /\ Ordered(handed', Append(creation.waiters, p))
              /\ After(handed', begun, Append(creation.waiters, p), 0)
          BY <1>0, <5>1, NewestLast
        <5> QED BY <2>1, <4>1, <5>2 DEF WaitersOrdered
      <4> QED BY <4>1, <4>2 DEF WaitersOrdered
    <3>2. CASE ~creating
      <4>1. creation'.waiters = Append(<<>>, p)
        BY <1>4, <3>2 DEF AwaitBinding
      <4>2. /\ <<>> \in Seq(Prompts) /\ Ordered(handed, <<>>) /\ Ordered(handed, begun)
            /\ After(handed, begun, <<>>, 0)
        BY <1>0 DEF Ordered, After, TurnsOrdered
      <4>3. Ordered(handed', Append(<<>>, p)) /\ After(handed', begun, Append(<<>>, p), 0)
        BY <1>0, <4>2, NewestLast
      <4> QED BY <2>1, <4>1, <4>3 DEF WaitersOrdered
    <3> QED BY <3>1, <3>2
  <2> QED BY <2>2, <2>3 DEF InOrder
<1> QED BY <1>2, <1>3, <1>4 DEF SubmitPrompt

LEMMA CreatedOrder ==
  ASSUME IInv, NEW b \in Processes, BindingCreated(b)
  PROVE  InOrder'
<1>0. /\ begun \in Seq(Prompts) /\ UNCHANGED <<handed, agentUp>>
      /\ creation.waiters \in Seq(Prompts) /\ creation.waiters # <<>>
      /\ queue \in [Processes -> Seq(Prompts)]
      /\ process \in [Processes -> {"unused", "starting", "up", "ending", "exited"}]
      /\ TurnsOrdered /\ QueueOrdered /\ agentUp
      /\ Ordered(handed, creation.waiters) /\ After(handed, begun, creation.waiters, 0)
      /\ binding = NoProcess /\ NoProcessLeft /\ ~creation'.busy
  BY DEF IInv, InOrder, RunnerTypeOK, OneProcess, Lookup, WaitersOrdered, BindingCreated, NoCreation
<1>1. \A c \in Processes : ~Running(c)
  BY <1>0 DEF NoProcessLeft, NoProcess, Processes
<1>2. CASE Overtaken
  <2>1. UNCHANGED begun /\ process' = [process EXCEPT ![b] = "ending"]
    BY <1>2 DEF BindingCreated
  <2>2. \A c \in Processes : ~Running(c)'
    BY <1>0, <1>1, <2>1 DEF Running
  <2> QED BY <1>0, <2>1, <2>2 DEF InOrder, TurnsOrdered, WaitersOrdered, QueueOrdered
<1>3. CASE ~Overtaken
  <2>1. /\ process' = [process EXCEPT ![b] = "starting"]
        /\ queue' = [queue EXCEPT ![b] = creation.waiters]
        /\ begun' = Append(begun, Head(creation.waiters))
    BY <1>3 DEF BindingCreated
  <2>2. Ordered(handed, begun') /\ After(handed, begun', creation.waiters, 1)
    BY <1>0, <2>1, FirstBegins DEF TurnsOrdered
  <2>3. \A c \in Processes : Running(c)' => c = b
    BY <1>0, <1>1, <2>1 DEF Running
  <2> QED BY <1>0, <2>1, <2>2, <2>3 DEF InOrder, TurnsOrdered, WaitersOrdered, QueueOrdered
<1> QED BY <1>2, <1>3

LEMMA CompletesOrder ==
  ASSUME IInv, NEW b \in Processes, TurnCompletes(b)
  PROVE  InOrder'
<1> DEFINE q == queue[b]
<1>0. /\ begun \in Seq(Prompts) /\ q \in Seq(Prompts) /\ q # <<>> /\ Tail(q) \in Seq(Prompts)
      /\ queue \in [Processes -> Seq(Prompts)]
      /\ UNCHANGED <<handed, process, creation>> /\ agentUp
      /\ queue' = [queue EXCEPT ![b] = Tail(q)] /\ begun' = Begins(b, q, Tail(q))
      /\ TurnsOrdered /\ WaitersOrdered /\ QueueOrdered /\ Lookup /\ NoProcessLeft
  BY DEF IInv, InOrder, RunnerTypeOK, OneProcess, TurnCompletes
<1>1. CASE ~Running(b)
  <2>1. UNCHANGED begun
    BY <1>0, <1>1 DEF Begins
  <2> QED BY <1>0, <1>1, <2>1 DEF InOrder, TurnsOrdered, WaitersOrdered, QueueOrdered, Running
<1>2. CASE Running(b)
  <2>1. ~creation.busy /\ \A c \in Processes : Running(c) => c = b
    BY <1>0, <1>2 DEF Lookup, NoProcessLeft, NoProcess, Processes
  <2>2. Ordered(handed, Tail(q)) /\ After(handed, begun, Tail(q), 0)
    <3>1. Ordered(handed, q) /\ After(handed, begun, q, 1)
      BY <1>0, <1>2 DEF QueueOrdered
    <3> QED BY <1>0, <3>1, RestOrdered
  <2>3. Ordered(handed, begun') /\ After(handed, begun', Tail(q), 1)
    <3>1. CASE Tail(q) # <<>> /\ begun' = Append(begun, Head(Tail(q)))
      BY <1>0, <2>2, <3>1, FirstBegins DEF TurnsOrdered
    <3>2. CASE begun' = begun
      <4>1. \A i \in DOMAIN Tail(q) : i > 1 => i > 0
        BY <1>0
      <4> QED BY <1>0, <2>2, <3>2, <4>1 DEF TurnsOrdered, After
    <3>3. (Tail(q) # <<>> /\ begun' = Append(begun, Head(Tail(q)))) \/ begun' = begun
      BY <1>0 DEF Begins
    <3> QED BY <3>1, <3>2, <3>3
  <2> QED BY <1>0, <2>1, <2>2, <2>3
          DEF InOrder, TurnsOrdered, WaitersOrdered, QueueOrdered, Running
<1> QED BY <1>1, <1>2

LEMMA OrderStep == IInv /\ [RunnerNext]_runnerVars => InOrder'
<1> SUFFICES ASSUME IInv, [RunnerNext]_runnerVars PROVE InOrder'
  OBVIOUS
<1>0. /\ InOrder
      /\ process \in [Processes -> {"unused", "starting", "up", "ending", "exited"}]
      /\ queue \in [Processes -> Seq(Prompts)]
  BY DEF IInv, RunnerTypeOK
<1>1. ASSUME NEW p \in Prompts, PromptArrives(p) \/ ContextFails(p) PROVE InOrder'
  <2>1. UNCHANGED <<handed, begun, agentUp, creation, process, queue>>
    BY <1>1 DEF PromptArrives, ContextFails
  <2> QED BY <1>0, <2>1, QuietOrder DEF Running
<1>2. ASSUME LookupFails PROVE InOrder'
  <2>1. UNCHANGED <<handed, begun, agentUp, process, queue>> /\ ~creation'.busy
    BY <1>2 DEF LookupFails, NoCreation
  <2> QED BY <1>0, <2>1, QuietOrder DEF Running
<1>3. ASSUME NEW b \in Processes, Initialized(b) PROVE InOrder'
  <2>1. /\ UNCHANGED <<handed, begun, agentUp, creation, queue>>
        /\ process[b] = "starting" /\ process' = [process EXCEPT ![b] = "up"]
    BY <1>3 DEF Initialized
  <2> QED BY <1>0, <2>1, QuietOrder DEF Running
<1>4. ASSUME NEW b \in Processes, InitializationFails(b) \/ TurnFails(b) \/ ProcessExits(b)
      PROVE InOrder'
  <2>1. /\ UNCHANGED <<handed, begun, creation>> /\ agentUp
        /\ process' = [process EXCEPT ![b] = "ending"] \/ process' = [process EXCEPT ![b] = "exited"]
        /\ \A c \in Processes : c # b => queue'[c] = queue[c]
    BY <1>0, <1>4 DEF InitializationFails, TurnFails, ProcessExits, Dropped
  <2>2. \A c \in Processes : Running(c)' => c # b /\ Running(c)
    BY <1>0, <2>1 DEF Running
  <2> QED BY <1>0, <2>1, <2>2, QuietOrder
<1>5. ASSUME RunnerCloseSession PROVE InOrder'
  <2>1. /\ UNCHANGED <<handed, begun, creation, queue, agentUp>>
        /\ process' = process \/ process' = [process EXCEPT ![binding] = "ending"]
    BY <1>5 DEF RunnerCloseSession
  <2>2. \A c \in Processes : Running(c)' => Running(c)
    BY <1>0, <2>1 DEF Running
  <2> QED BY <1>0, <2>1, <2>2, QuietOrder
<1>6. CASE UNCHANGED runnerVars
  BY <1>0, <1>6, QuietOrder DEF runnerVars, Running
<1> QED BY <1>1, <1>2, <1>3, <1>4, <1>5, <1>6, SubmitOrder, CreatedOrder, CompletesOrder
        DEF RunnerNext

-----------------------------------------------------------------------------
(* Theorems.                                                               *)

LEMMA InitIInv == RunnerInit => IInv
<1> SUFFICES ASSUME RunnerInit PROVE IInv
  OBVIOUS
<1> USE DEF RunnerInit, NoCreation
<1>1. RunnerTypeOK
  <2>1. <<>> \in Seq(Prompts)
    OBVIOUS
  <2>2. /\ place \in [Prompts -> {"unsent", "resolving", "waiting", "queued", "done", "failed"}]
        /\ process \in [Processes -> {"unused", "starting", "up", "ending", "exited"}]
    OBVIOUS
  <2>3. queue \in [Processes -> Seq(Prompts)]
    BY <2>1
  <2>4. creation \in [busy : BOOLEAN, epoch : Nat, waiters : Seq(Prompts)]
    BY <2>1
  <2> QED BY <2>1, <2>2, <2>3, <2>4 DEF RunnerTypeOK
<1>2. OneProcess
  BY DEF OneProcess, Lookup, Binding, Ending, NoProcessLeft, Running
<1>3. InOrder
  BY DEF InOrder, TurnsOrdered, WaitersOrdered, QueueOrdered, Running, Ordered
<1> QED BY <1>1, <1>2, <1>3 DEF IInv

\* What every reachable state of the prompts of a session satisfies.
THEOREM RunnerInvariant == RunnerSpec => []IInv
<1>1. IInv /\ [RunnerNext]_runnerVars => IInv'
  BY TypeStep, OneProcessStep, OrderStep DEF IInv
<1> QED BY InitIInv, <1>1, PTL DEF RunnerSpec

\* For any prompts and processes: as long as the Desktop Agent is up, a process
\* not told to end is the one closeSession finds, and its session is open.
THEOREM NoProcessOutlives == RunnerSpec => []NoProcessLeft
<1>1. IInv => NoProcessLeft
  BY DEF IInv, OneProcess, NoProcessLeft
<1> QED BY <1>1, RunnerInvariant, PTL

\* For any prompts and processes: turns begin in the order in which submitPrompt
\* was called, whatever fails, exits or is closed in between.
THEOREM TurnsBeginInOrder == RunnerSpec => []TurnsInOrder
<1>1. IInv => TurnsInOrder
  BY DEF IInv, InOrder, TurnsOrdered, Ordered, Before, TurnsInOrder
<1> QED BY <1>1, RunnerInvariant, PTL

=============================================================================
