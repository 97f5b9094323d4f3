------------------------------ MODULE BlameQueue ------------------------------
(***************************************************************************)
(* The queue of the editor extension (vscode/src/blame-queue.ts) through   *)
(* which every `git-ai blame` of the editor goes, on the event loop of its *)
(* host.  An event (a request, a closed tab, a process that ends) runs to  *)
(* its end, then the promise jobs it left run one after the other, and     *)
(* only then comes the next event.                                         *)
(***************************************************************************)
EXTENDS Naturals, Sequences, FiniteSets, SequencesExt, Functions

CONSTANTS
  Docs,      \* documents, each with one URI
  MaxTasks,  \* bound: requests made in a behaviour
  Again      \* TRUE: a document may be requested while its blame is running

(* What the constants must be. *)
QueueConstants ==
  /\ IsFiniteSet(Docs)
  /\ MaxTasks \in Nat
  /\ Again \in BOOLEAN

VARIABLES
  tasks,    \* every task made so far: document, state, abort signal, answer
  queue,    \* the tasks that wait, by number
  running,  \* document -> the task entered in the map of running tasks
  jobs      \* promise jobs left to run before the next event

queueVars == <<tasks, queue, running, jobs>>

MaxConcurrent == 2
Priorities == {"high", "normal"}
Jobs == [kind : {"execute", "served", "finally"}, task : 1 .. MaxTasks]

Job(kind, t) == [kind |-> kind, task |-> t]
Live == {t \in DOMAIN tasks : tasks[t].state = "live"}
Quiet == jobs = <<>>

QueueTypeOK ==
  /\ tasks \in Seq([doc : Docs, state : {"queued", "live", "ended", "settled"},
                    aborted : BOOLEAN, answer : {"none", "blame", "null"}])
  /\ Len(tasks) <= MaxTasks
  /\ queue \in Seq(DOMAIN tasks)
  /\ \A d \in DOMAIN running : d \in Docs /\ running[d] \in DOMAIN tasks

QueueInit ==
  /\ tasks = <<>>
  /\ queue = <<>>
  /\ running = <<>>
  /\ jobs = <<>>

-----------------------------------------------------------------------------
(* What a call makes of the queue.                                         *)

(* (mutant) One more document may be entered as running.                   *)
StartNextOver(state, t) ==
  IF Cardinality(DOMAIN state.running) <= MaxConcurrent
  THEN [state EXCEPT !.tasks[t].state = "live",
                     !.running = [d \in DOMAIN @ \cup {state.tasks[t].doc} |->
                                    IF d = state.tasks[t].doc THEN t ELSE @[d]]]
  ELSE [state EXCEPT !.queue = Append(@, t)]

(* processQueue: tasks start, from the front, while fewer than             *)
(* MaxConcurrent documents are entered as running.  A task that starts is  *)
(* entered under its document, over an entry that is there.                *)
StartNext(state, t) ==
  IF Cardinality(DOMAIN state.running) < MaxConcurrent
  THEN [state EXCEPT !.tasks[t].state = "live",
                     !.running = [d \in DOMAIN @ \cup {state.tasks[t].doc} |->
                                    IF d = state.tasks[t].doc THEN t ELSE @[d]]]
  ELSE [state EXCEPT !.queue = Append(@, t)]

ProcessQueue(ts, waiting, run) ==
  FoldLeft(StartNext, [tasks |-> ts, queue |-> <<>>, running |-> run], waiting)

(* cancelForUri: the waiting task of the document is settled with null and *)
(* leaves the queue; the one entered as running gets the abort signal,     *)
(* which kills its process and rejects its execution.                      *)
Waiting(d) == {t \in ToSet(queue) : tasks[t].doc = d}
Entered(d) == {t \in Live : d \in DOMAIN running /\ running[d] = t}

Cancelled(d) ==
  [t \in DOMAIN tasks |->
     CASE t \in Waiting(d) ->
            [tasks[t] EXCEPT !.state = "settled", !.aborted = TRUE, !.answer = "null"]
       [] t \in Entered(d) -> [tasks[t] EXCEPT !.state = "ended", !.aborted = TRUE]
       [] OTHER -> tasks[t]]

QueueWithout(d) == SelectSeq(queue, LAMBDA t : tasks[t].doc # d)

CancelJobs(d) ==
  [i \in 1 .. Cardinality(Waiting(d)) |-> Job("served", SetToSeq(Waiting(d))[i])]
    \o [i \in 1 .. Cardinality(Entered(d)) |-> Job("execute", SetToSeq(Entered(d))[i])]

-----------------------------------------------------------------------------
(* enqueue, called by a handler that leaves the jobs in `rest`.            *)
Enqueue(d, priority, rest) ==
  LET new == Len(tasks) + 1
      ts == Append(Cancelled(d),
                   [doc |-> d, state |-> "queued", aborted |-> FALSE, answer |-> "none"])
      waiting == IF priority = "high" THEN <<new>> \o QueueWithout(d)
                 ELSE Append(QueueWithout(d), new)
      next == ProcessQueue(ts, waiting, running)
  IN /\ tasks' = next.tasks
     /\ queue' = next.queue
     /\ running' = next.running
     /\ jobs' = rest \o CancelJobs(d)

(* cancelForUri, called when a tab is closed.                              *)
CancelForUri(d) ==
  /\ tasks' = Cancelled(d)
  /\ queue' = QueueWithout(d)
  /\ jobs' = CancelJobs(d)
  /\ UNCHANGED running

(* cancelAll, called when the extension goes: every waiting task is        *)
(* settled, every task entered as running gets the signal.                 *)
CancelAll ==
  LET entered == {t \in Live : \E d \in DOMAIN running : running[d] = t}
  IN /\ Quiet
     /\ tasks' = [t \in DOMAIN tasks |->
                    CASE t \in ToSet(queue) ->
                           [tasks[t] EXCEPT !.state = "settled", !.aborted = TRUE,
                                            !.answer = "null"]
                      [] t \in entered ->
                           [tasks[t] EXCEPT !.state = "ended", !.aborted = TRUE]
                      [] OTHER -> tasks[t]]
     /\ queue' = <<>>
     /\ jobs' = [i \in 1 .. Len(queue) |-> Job("served", queue[i])]
                  \o [i \in 1 .. Cardinality(entered) |->
                        Job("execute", SetToSeq(entered)[i])]
     /\ UNCHANGED running

(* The process of a task ends with a blame, or fails or runs into its      *)
(* thirty seconds, which rejects the execution.                            *)
Answer(t, answer) ==
  /\ Quiet
  /\ t \in Live
  /\ tasks' = [tasks EXCEPT ![t].state = "ended", ![t].answer = answer]
  /\ jobs' = <<Job("execute", t)>>
  /\ UNCHANGED <<queue, running>>

(* executeTask after its await: the promise of the task is settled, with   *)
(* null if the signal was given, and the function ends.                    *)
Execute ==
  /\ ~Quiet
  /\ jobs[1].kind = "execute"
  /\ LET t == jobs[1].task
     IN /\ tasks' = [tasks EXCEPT ![t].state = "settled",
                                  ![t].answer = IF tasks[t].aborted THEN "null" ELSE @]
        /\ jobs' = Tail(jobs) \o <<Job("served", t), Job("finally", t)>>
  /\ UNCHANGED <<queue, running>>

(* The `finally` of processQueue: the entry of the task's document goes,   *)
(* whichever task it names, and the queue is looked at again.              *)
Finally ==
  /\ ~Quiet
  /\ jobs[1].kind = "finally"
  /\ LET next == ProcessQueue(tasks, queue,
                   Restrict(running, DOMAIN running \ {tasks[jobs[1].task].doc}))
     IN /\ tasks' = next.tasks
        /\ queue' = next.queue
        /\ running' = next.running
  /\ jobs' = Tail(jobs)

-----------------------------------------------------------------------------
(* The queue on its own: any tab asks and closes, and whoever waits for a  *)
(* task only takes its answer.                                             *)

Request(d, priority) ==
  /\ Quiet
  /\ Len(tasks) < MaxTasks
  /\ Again \/ \A t \in Live : tasks[t].doc # d
  /\ Enqueue(d, priority, <<>>)

(* A tab that is closed has something to cancel.                           *)
CloseTab(d) ==
  /\ Quiet
  /\ \E t \in DOMAIN tasks : tasks[t].doc = d /\ tasks[t].state \in {"queued", "live"}
  /\ CancelForUri(d)

Served ==
  /\ ~Quiet
  /\ jobs[1].kind = "served"
  /\ jobs' = Tail(jobs)
  /\ UNCHANGED <<tasks, queue, running>>

QueueNext ==
  \/ \E d \in Docs, p \in Priorities : Request(d, p)
  \/ \E d \in Docs : CloseTab(d)
  \/ CancelAll
  \/ \E t \in Live, a \in {"blame", "null"} : Answer(t, a)
  \/ Execute
  \/ Finally
  \/ Served

QueueSpec == QueueInit /\ [][QueueNext]_queueVars

-----------------------------------------------------------------------------
(* Properties.                                                             *)

(* "A priority queue that limits concurrent blame operations to            *)
(* MAX_CONCURRENT": the processes that run, counted by themselves and not  *)
(* by the map the code counts.                                             *)
AtMostMaxConcurrentRun == Cardinality(Live) <= MaxConcurrent

(* Of several requests for one document only the last can be waiting:      *)
(* nobody is served a blame that was asked for before the one he waits for.*)
LastRequestWaits ==
  \A t \in ToSet(queue) :
    \A u \in DOMAIN tasks : u > t => tasks[u].doc # tasks[t].doc

=============================================================================
