------------------------------ MODULE Lifecycle ------------------------------
(***************************************************************************)
(* Start-up and shutdown: SystemLoop's constructor, which starts the       *)
(* workers and waits for them on a latch; terminate(), which a SIGINT      *)
(* handler runs on the main thread wherever that happens to be; and the    *)
(* order in which rings and the frames of tasks are destroyed.             *)
(*                                                                         *)
(* The loops of the threads are reduced to the points where start-up and   *)
(* shutdown touch them; what tasks do there is EventLoop's subject.  The   *)
(* kernel executes a message as it is submitted.                           *)
(***************************************************************************)
EXTENDS Naturals, Sequences, FiniteSets

CONSTANTS
  Worker,     \* the worker threads
  Main,       \* the main thread
  MaxOps      \* bound on the completions of the tasks of the main thread

ASSUME WorkerAssumption == IsFiniteSet(Worker) /\ Worker # {} /\ Main \notin Worker
ASSUME BoundAssumption == MaxOps \in Nat

VARIABLES
  main,           \* "ring", "workers", "latch", "wait", "table": in the
                  \* constructor; "pass", "sleep": in run; "batch", "handle":
                  \* at the loop test of process_batch, and past it;
                  \* "join", "close", "frames", "done": in the destructors;
                  \* "dead": an exception has left a thread, std::terminate
  latch,          \* the counter in init_latch_
  constructed,    \* init_latch_ has been constructed
  worker,         \* worker[w]: "none", "boot", "pass", "sleep", "check",
                  \* "return", "frames", "exited", "dead"
  registered,     \* uring_fds_
  stopRequested,  \* request_stop has been called
  term,           \* where terminate() is: "none", "send", "wait", "process",
                  \* "done"
  cq,             \* completions of the main ring
  peeked,         \* process_batch of the main thread
  handled,
  taken,          \* what process_all consumed since process_batch peeked
  quitMain,       \* stopped_ of the main ring
  quit,           \* quit[w]: the Quit message to w: "none", "sent", "handled"
  ops,            \* counts towards MaxOps
  holding,        \* the threads with a TcpConnection in the frame of a task
  undefined       \* a stale user_data, a half-written request, an allocation in
                  \* the handler on top of another one, a completion handled
                  \* twice, a head past tail, a request in a ring that is gone

startVars == <<latch, constructed, registered>>
batchVars == <<cq, peeked, handled, taken, quitMain>>
quitVars  == <<stopRequested, term, quit>>
endVars   == <<holding, undefined>>
vars == <<main, worker, ops, startVars, batchVars, quitVars, endVars>>

Thread == Worker \cup {Main}

Init ==
  /\ main = "ring"
  /\ latch = 0 /\ constructed = FALSE
  /\ worker = [w \in Worker |-> "none"]
  /\ registered = {}
  /\ stopRequested = FALSE /\ term = "none"
  /\ cq = <<>> /\ peeked = 0 /\ handled = 0 /\ taken = 0 /\ quitMain = FALSE
  /\ quit = [w \in Worker |-> "none"]
  /\ ops = 0 /\ holding = {} /\ undefined = FALSE

-----------------------------------------------------------------------------
(* SystemLoop::SystemLoop.  Members are constructed in the order of their   *)
(* declarations, workers_ before the latch its threads count down.          *)

OpenRing ==
  /\ main = "ring"
  /\ main' = "workers"
  /\ UNCHANGED <<worker, ops, startVars, batchVars, quitVars, endVars>>

StartWorkers ==
  /\ main = "workers"
  /\ worker' = [w \in Worker |-> "boot"]
  /\ main' = "latch"
  /\ UNCHANGED <<ops, startVars, batchVars, quitVars, endVars>>

LatchOneShort == Cardinality(Worker) - 1
LatchCount == Cardinality(Worker)

ConstructLatch ==
  /\ main = "latch"
  /\ latch' = LatchCount /\ constructed' = TRUE
  /\ main' = "wait"
  /\ UNCHANGED <<worker, registered, ops, batchVars, quitVars, endVars>>

WaitLatch ==
  /\ main = "wait" /\ latch = 0
  /\ main' = "table"
  /\ UNCHANGED <<worker, ops, startVars, batchVars, quitVars, endVars>>

\* io_uring_register_files_sparse; block_on goes on to run.
RegisterFiles ==
  /\ main = "table"
  /\ main' = "pass"
  /\ UNCHANGED <<worker, ops, startVars, batchVars, quitVars, endVars>>

\* It fails: where somebody catches the exception the members are destroyed,
\* ~Workers stops the threads, and ~SystemLoop with its terminate() does not run.
RegisterFilesFails ==
  /\ main = "table"
  /\ stopRequested' = TRUE
  /\ main' = "join"
  /\ UNCHANGED <<worker, term, quit, ops, startVars, batchVars, endVars>>

\* A ring, its buffers or its descriptor table is refused: the exception leaves
\* the main function or that of a thread.
BootFails ==
  /\ main \in {"ring", "table"} \/ \E w \in Worker : worker[w] = "boot"
  /\ main' = "dead"
  /\ worker' = [w \in Worker |-> "dead"]
  /\ UNCHANGED <<ops, startVars, batchVars, quitVars, endVars>>

\* count_down, under the mutex; before the constructor has run it counts in
\* memory that the constructor is going to overwrite.
Register(w) ==
  /\ worker[w] = "boot"
  /\ registered' = registered \cup {w}
  /\ latch' = IF constructed THEN latch - 1 ELSE latch
  /\ worker' = [worker EXCEPT ![w] = "pass"]
  /\ UNCHANGED <<main, constructed, ops, batchVars, quitVars, endVars>>

-----------------------------------------------------------------------------
(* SystemLoop::run, while no signal handler runs on top of it.              *)

InLoop == term \in {"none", "done"}

\* while (!stopped_)
LoopOrLeave == main' = IF term = "none" THEN "pass" ELSE "join"

PassAndSubmit ==
  /\ InLoop /\ main = "pass"
  /\ main' = "sleep"
  /\ UNCHANGED <<worker, ops, startVars, batchVars, quitVars, endVars>>

Wake ==
  /\ InLoop /\ main = "sleep"
  /\ IF cq = <<>>
     THEN LoopOrLeave /\ UNCHANGED <<peeked, handled, taken>>
     ELSE main' = "batch" /\ peeked' = Len(cq) /\ handled' = 0 /\ taken' = 0
  /\ UNCHANGED <<worker, ops, startVars, cq, quitMain, quitVars, endVars>>

\* handle_request, as far as the ring itself is concerned.  Handled again, the
\* token of a completion may be deleted, or its frame resumed and gone.
HandleNoQuit(completions, again) ==
  /\ quitMain' = quitMain
  /\ undefined' \in IF again \/ "stale" \in completions THEN BOOLEAN ELSE {undefined}
Handle(completions, again) ==
  /\ quitMain' = (quitMain \/ "quit" \in completions)
  /\ undefined' \in IF again \/ "stale" \in completions THEN BOOLEAN ELSE {undefined}

\* i < completed && !stopped_.
TakeUp ==
  /\ InLoop /\ main = "batch" /\ handled < peeked /\ ~quitMain
  /\ main' = "handle"
  /\ UNCHANGED <<worker, ops, startVars, batchVars, quitVars, endVars>>

\* handle_request(cqes[i]); if terminate() ran after the test, process_all has
\* handled this completion.
HandleOne ==
  /\ InLoop /\ main = "handle"
  /\ IF handled < taken THEN Handle({}, TRUE)
                       ELSE Handle({cq[handled - taken + 1]}, FALSE)
  /\ handled' = handled + 1
  /\ main' = "batch"
  /\ UNCHANGED <<worker, ops, startVars, cq, peeked, taken, quitVars, holding>>

\* consume(completed).  With the ring stopped, process_batch drops the rest and
\* cancels everything.  If terminate() ran in the middle of the batch and
\* emptied the queue, the head moves past the tail.
EndBatch ==
  /\ InLoop /\ main = "batch" /\ (handled = peeked \/ quitMain)
  /\ IF Len(cq) < peeked
     THEN undefined' = TRUE /\ UNCHANGED cq
     ELSE /\ cq' = IF quitMain THEN <<>> ELSE SubSeq(cq, peeked + 1, Len(cq))
          /\ UNCHANGED undefined
  /\ LoopOrLeave
  /\ peeked' = 0 /\ handled' = 0 /\ taken' = 0
  /\ UNCHANGED <<worker, ops, startVars, quitMain, quitVars, holding>>

\* A request of a task of the main thread completes.
OpCompletes ==
  /\ main \in {"pass", "sleep", "batch", "handle"} /\ ops < MaxOps
  /\ cq' = Append(cq, "op")
  /\ ops' = ops + 1
  /\ UNCHANGED <<main, worker, startVars, peeked, handled, taken, quitMain,
                 quitVars, endVars>>

-----------------------------------------------------------------------------
(* The destructors of SystemLoop: terminate() has run, or the constructor   *)
(* has thrown.  Members go in the reverse order of their declarations.      *)

\* ~jthread of every worker.
NoneJoined == TRUE
AllJoined == \A w \in Worker : worker[w] = "exited"

Join ==
  /\ main = "join" /\ AllJoined
  /\ main' = "close"
  /\ UNCHANGED <<worker, ops, startVars, batchVars, quitVars, endVars>>

\* io_buffer_ and main_uring_.
CloseRing ==
  /\ main = "close"
  /\ main' = "frames"
  /\ UNCHANGED <<worker, ops, startVars, batchVars, quitVars, endVars>>

\* A TaskLoop goes after the ring of its thread: ~TcpConnection in a frame puts
\* its close request into a ring that is gone.
DestroyFrames(t) ==
  /\ undefined' \in IF t \in holding THEN BOOLEAN ELSE {undefined}
  /\ holding' = holding \ {t}

DestroyTasks ==
  /\ main = "frames"
  /\ main' = "done"
  /\ DestroyFrames(Main)
  /\ UNCHANGED <<worker, ops, startVars, batchVars, quitVars>>

-----------------------------------------------------------------------------
(* What the tasks hold: a connection arrives, or a task lets go of one.     *)
(* (A parameter stays in the frame of a finished task.)                     *)

InPass(t) == IF t = Main THEN main = "pass" /\ InLoop ELSE worker[t] = "pass"

Hold(t) ==
  /\ InPass(t)
  /\ holding' \in {holding \cup {t}, holding \ {t}}
  /\ UNCHANGED <<main, worker, ops, startVars, batchVars, quitVars, undefined>>

-----------------------------------------------------------------------------
(* terminate(), in a signal handler on top of the loop.                     *)

StopForgotten == stopRequested
StopRequested == TRUE

\* stopped_ = true and workers_.stop().  A coroutine in a pass, and handle_request
\* in a batch (close_direct_socket, delete), may have written half a request, or
\* hold the lock of the heap that the handler is going to allocate from.
Sigint ==
  /\ main \in {"pass", "sleep", "batch", "handle"} /\ term = "none"
  /\ stopRequested' = StopRequested
  /\ term' = "send"
  /\ undefined' \in IF main \in {"pass", "handle"} THEN BOOLEAN ELSE {undefined}
  /\ UNCHANGED <<main, worker, quit, ops, startVars, batchVars, holding>>

RingGone == {w \in Worker : worker[w] \in {"frames", "exited"}}

\* notify_workers_to_stop, notify_self_quit, submit_all.  A message to a worker
\* that has gone fails, and so may one that the library posts a completion for:
\* io_uring_prep_msg_ring resets the flags set before it.
SendQuit ==
  /\ term = "send"
  /\ quit' = [w \in Worker |->
                IF w \in registered \ RingGone THEN "sent" ELSE "none"]
  /\ \/ cq' = Append(cq, "quit") /\ registered \cap RingGone = {}
     \/ cq' = cq \o <<"stale", "quit">>
  /\ term' = "wait"
  /\ UNCHANGED <<main, worker, stopRequested, ops, startVars, peeked, handled,
                 taken, quitMain, endVars>>

WaitArrival ==
  /\ term = "wait" /\ cq # <<>>
  /\ term' = "process"
  /\ UNCHANGED <<main, worker, stopRequested, quit, ops, startVars, batchVars,
                 endVars>>

\* process_all starts at the head, so that it handles again what an interrupted
\* batch has handled, or was about to.
HandledAgain == handled > 0 \/ main = "handle"

ProcessAll ==
  /\ term = "process"
  /\ Handle({cq[i] : i \in 1 .. Len(cq)}, HandledAgain)
  /\ taken' = Len(cq) /\ cq' = <<>>
  /\ term' = "done"
  /\ UNCHANGED <<main, worker, stopRequested, quit, ops, startVars, peeked,
                 handled, holding>>

-----------------------------------------------------------------------------
(* The loop of a worker.                                                    *)

WorkerPass(w) ==
  /\ worker[w] = "pass"
  /\ worker' = [worker EXCEPT ![w] = "sleep"]
  /\ UNCHANGED <<main, ops, startVars, batchVars, quitVars, endVars>>

\* wait_cqe_arrival_for ends with a completion or after 15 ms, process_batch
\* handles what is there.
WorkerBatch(w) ==
  /\ worker[w] = "sleep"
  /\ worker' = [worker EXCEPT ![w] = "check"]
  /\ quit' = [quit EXCEPT ![w] = IF @ = "sent" THEN "handled" ELSE @]
  /\ UNCHANGED <<main, stopRequested, term, ops, startVars, batchVars, endVars>>

WorkerCheck(w) ==
  /\ worker[w] = "check"
  /\ worker' = [worker EXCEPT ![w] = IF stopRequested THEN "return" ELSE "pass"]
  /\ UNCHANGED <<main, ops, startVars, batchVars, quitVars, endVars>>

\* The locals of the thread: worker_buffer and worker_ring, then task_loop.
WorkerCloseRing(w) ==
  /\ worker[w] = "return"
  /\ worker' = [worker EXCEPT ![w] = "frames"]
  /\ UNCHANGED <<main, ops, startVars, batchVars, quitVars, endVars>>

WorkerDestroyTasks(w) ==
  /\ worker[w] = "frames"
  /\ worker' = [worker EXCEPT ![w] = "exited"]
  /\ DestroyFrames(w)
  /\ UNCHANGED <<main, ops, startVars, batchVars, quitVars>>

-----------------------------------------------------------------------------
MainStep ==
  \/ OpenRing \/ StartWorkers \/ ConstructLatch \/ WaitLatch
  \/ RegisterFiles \/ RegisterFilesFails
  \/ PassAndSubmit \/ Wake \/ TakeUp \/ HandleOne \/ EndBatch
  \/ SendQuit \/ WaitArrival \/ ProcessAll
  \/ Join \/ CloseRing \/ DestroyTasks

WorkerStep(w) ==
  \/ Register(w) \/ WorkerPass(w) \/ WorkerBatch(w) \/ WorkerCheck(w)
  \/ WorkerCloseRing(w) \/ WorkerDestroyTasks(w)

\* Nothing is promised of a process whose behaviour is undefined.
Next ==
  /\ ~undefined
  /\ \/ MainStep \/ BootFails \/ Sigint \/ OpCompletes
     \/ \E w \in Worker : WorkerStep(w)
     \/ \E t \in Thread : Hold(t)

SafeSpec == Init /\ [][Next]_vars

\* The threads are scheduled.  Nobody has to press Ctrl-C.
Spec ==
  /\ SafeSpec
  /\ WF_vars(~undefined /\ MainStep)
  /\ \A w \in Worker : WF_vars(~undefined /\ WorkerStep(w))

-----------------------------------------------------------------------------
Starting == main \in {"ring", "workers", "latch", "wait", "dead"}

\* Every component has its type; the latch never counts below zero.
TypeOK ==
  /\ main \in {"ring", "workers", "latch", "wait", "table", "pass", "sleep", "batch",
              "handle", "join", "close", "frames", "done", "dead"}
  /\ latch \in 0 .. Cardinality(Worker)
  /\ constructed \in BOOLEAN /\ stopRequested \in BOOLEAN
  /\ worker \in [Worker -> {"none", "boot", "pass", "sleep", "check", "return",
                         "frames", "exited", "dead"}]
  /\ registered \subseteq Worker
  /\ term \in {"none", "send", "wait", "process", "done"}
  /\ cq \in Seq({"op", "quit", "stale"})
  /\ peeked \in Nat /\ handled \in 0 .. peeked /\ taken \in Nat
  /\ quitMain \in BOOLEAN
  /\ undefined \in BOOLEAN /\ holding \subseteq Thread
  /\ quit \in [Worker -> {"none", "sent", "handled"}]
  /\ ops \in 0 .. MaxOps

\* pick_worker counts and indexes uring_fds_ without the mutex
\* (context.hpp:87-88, worker.hpp:77-81): by the time a task can call it, every
\* worker has registered its ring.
AllRegistered == ~Starting => registered = Worker

\* A worker whose ring has handled Quit leaves at once (worker.hpp:63).  If it
\* went on, its ring would drop every completion of its tasks from then on
\* (uring.hpp:114-128).
QuitFindsStop == \A w \in Worker : quit[w] = "handled" => stopRequested

\* While a worker thread exists the main ring does: the worker attaches its ring
\* to it, notifies it of slots, and closes slots of it when its frames go
\* (worker.hpp:32, connection.hpp:47, 161).  Both ways into the destructors
\* (context.hpp:47, and the exception of :42) join before they close.
MainRingOutlivesWorkers ==
  main \in {"frames", "done"} => \A w \in Worker : worker[w] = "exited"

\* terminate() may empty the queue under a batch: the test of stopped_
\* (uring.hpp:114) lets through no completion that process_all has consumed,
\* because process_all has then handled a Quit.  So a batch handles at most one
\* consumed completion, the one that was past the test when SIGINT came.
BatchReadsPosted ==
  main = "batch" /\ InLoop /\ handled < peeked /\ ~quitMain =>
    taken <= handled /\ peeked - taken <= Len(cq)

\* After SIGINT, or when the constructor throws and is caught, every worker
\* leaves, the threads are joined and everything is destroyed (context.hpp:70-83,
\* worker.hpp:63), unless SIGINT came where the behaviour may be undefined: while
\* coroutines ran, or in a batch.
ShutdownEnds ==
  (term # "none" \/ main = "join") ~> (main \in {"done", "dead"} \/ undefined)

\* The initializer list (context.hpp:26-32) names init_latch_ before workers_
\* and block_on is meant to run its task (example/co_spawn.cpp:41): the
\* constructor's wait for the workers ends.
StartUpEnds == <>(~Starting \/ main = "dead")
=============================================================================
