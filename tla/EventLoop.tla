------------------------------ MODULE EventLoop ------------------------------
(***************************************************************************)
(* One thread of co_net: its TaskLoop (a std::list of ScheduledTask), the  *)
(* coroutine chains the tasks are made of, its Uring, and the loop that    *)
(* alternates between the two: SystemLoop::run on the main thread          *)
(* (IsMain = TRUE), the lambda of Workers on a worker thread.              *)
(*                                                                         *)
(* The kernel side of the ring is external: it takes the submitted         *)
(* requests and posts one completion for each, whenever it likes and in    *)
(* any order.  All other steps belong to the one thread, so they           *)
(* interleave with the kernel and with messages of other rings only.       *)
(***************************************************************************)
EXTENDS Naturals, Sequences, FiniteSets

CONSTANTS
  Task,       \* the ScheduledTask nodes that can ever exist
  Root,       \* the task block_on puts into the main loop
  NoTask,     \* nullptr, as a this_chain_task_ or "no task is running"
  IsMain,     \* TRUE: SystemLoop::run; FALSE: the loop of a worker
  Results,    \* what operations complete with: a subset of {"ok", "err"}
  SqEntries,  \* entries of the submission queue
  PassEntries,\* the most entries a coroutine prepares before its submit_all
  BatchSize,  \* config::URING_PEEK_CQES_BATCH
  MaxSteps    \* bound on the calls, awaits and spawns of one task

ASSUME TaskAssumption ==
  IsFiniteSet(Task) /\ Root \in Task /\ NoTask \notin Task
ASSUME BoundAssumption ==
  /\ IsMain \in BOOLEAN
  /\ Results \subseteq {"ok", "err"}
  /\ SqEntries \in Nat \ {0}
  /\ PassEntries \in Nat \ {0}
  /\ BatchSize \in Nat \ {0}
  /\ MaxSteps \in Nat

VARIABLES
  \* TaskLoop and its ScheduledTasks
  queue,      \* task_queue_, in list order
  chain,      \* chain[t][i]: this_chain_task_ of the i-th frame of t's chain
  awaiting,   \* awaiting_handle_: the frame resume() continues
  valid,      \* valid_
  pending,    \* pending_
  \* Uring, with the CompletionTokens its requests point to
  token,      \* token[t]: the token_ of the awaiter t is suspended in
  sq,         \* prepared and not submitted
  kernel,     \* submitted and not completed
  cq,         \* posted and not consumed
  completed,  \* process_batch: how many entries of cq were peeked
  handled,    \* process_batch: how many of those have been handled
  \* the thread
  pc,         \* "run", "unwind", "submit", "wait", "handle", "returned",
              \* "terminated"
  pos,        \* the iterator of TaskLoop::run
  running,    \* the task whose coroutine is executing
  steps       \* steps[t] counts towards MaxSteps

taskVars   == <<queue, chain, awaiting, valid, pending>>
ringVars   == <<sq, kernel, cq, completed, handled>>
threadVars == <<pc, pos, running>>
vars       == <<taskVars, token, ringVars, threadVars, steps>>

-----------------------------------------------------------------------------
(* A frame is named by its task and its depth; a request by the token it    *)
(* carries as user_data: the id-th one task t made.  NoToken: t is in no    *)
(* awaiter.  A CQE of res "RingTask" carries a task instead of a token.     *)

NoToken == [id |-> 0, chain_task |-> NoTask, cqe_res |-> "nosys"]

Frame   == [task : Task, depth : Nat]
Request == [task : Task, id : Nat]
Cqe     == [task : Task, id : Nat, res : Results \cup {"RingTask"}]
Token   == [id : Nat, chain_task : Task \cup {NoTask},
            cqe_res : Results \cup {"nosys"}]

Leaf(t) == [task |-> t, depth |-> Len(chain[t])]

\* this_chain_task_ of the frame of t that is executing.
ThisChainTask(t) == chain[t][Len(chain[t])]

TypeOK ==
  /\ queue \in Seq(Task)
  /\ chain \in [Task -> Seq(Task \cup {NoTask})]
  /\ awaiting \in [Task -> Frame]
  /\ valid \in [Task -> BOOLEAN]
  /\ pending \in [Task -> BOOLEAN]
  /\ token \in [Task -> Token]
  /\ sq \in Seq(Request)
  /\ kernel \in SUBSET Request
  /\ cq \in Seq(Cqe)
  /\ completed \in Nat /\ handled \in Nat
  /\ handled <= completed /\ completed <= Len(cq)
  /\ pc \in {"run", "unwind", "submit", "wait", "handle", "returned",
             "terminated"}
  /\ pos \in Nat \ {0}
  /\ running \in Task \cup {NoTask}
  /\ steps \in [Task -> 0 .. MaxSteps]

\* block_on has emplaced the root task; a worker starts with an empty list.
Initial == IF IsMain THEN <<Root>> ELSE <<>>

Init ==
  /\ queue = Initial
  /\ chain = [t \in Task |-> IF IsMain /\ t = Root THEN <<t>> ELSE <<>>]
  /\ awaiting = [t \in Task |-> [task |-> t, depth |-> 1]]
  /\ valid = [t \in Task |-> TRUE]
  /\ pending = [t \in Task |-> FALSE]
  /\ token = [t \in Task |-> NoToken]
  /\ sq = <<>> /\ kernel = {} /\ cq = <<>>
  /\ completed = 0 /\ handled = 0
  /\ pc = "run" /\ pos = 1 /\ running = NoTask
  /\ steps = [t \in Task |-> 0]

-----------------------------------------------------------------------------
(* TaskLoop::run: the pass over the list.                                   *)

AtNode == pc = "run" /\ running = NoTask /\ pos <= Len(queue)

RunnableIgnoringPending(t) == valid[t]
Runnable(t) == valid[t] /\ ~pending[t]

\* prep_* throws on a negative result, except for the few it passes on.
Raises(t) == token[t].id # 0 /\ token[t].cqe_res # "ok"

\* task.resume(): await_resume reads the token and the awaiter is destroyed.
Resume ==
  /\ AtNode
  /\ LET t == queue[pos] IN
       /\ Runnable(t)
       /\ running' = awaiting[t].task
       /\ pc' \in {"run"} \cup (IF Raises(t) THEN {"unwind"} ELSE {})
       /\ token' = [token EXCEPT ![t] = NoToken]
  /\ UNCHANGED <<taskVars, ringVars, pos, steps>>

SkipNode ==
  /\ AtNode
  /\ ~Runnable(queue[pos])
  /\ pos' = pos + 1
  /\ UNCHANGED <<taskVars, token, ringVars, pc, running, steps>>

\* The pass is over.  SystemLoop::run leaves when the list is empty.
EndPass ==
  /\ pc = "run" /\ running = NoTask /\ pos > Len(queue)
  /\ pc' = IF IsMain /\ queue = <<>> THEN "returned" ELSE "submit"
  /\ UNCHANGED <<taskVars, token, ringVars, pos, running, steps>>

-----------------------------------------------------------------------------
(* What the running coroutine can do.                                       *)

Executing(t) == pc = "run" /\ running = t

Spend(t) ==
  /\ steps[t] < MaxSteps
  /\ steps' = [steps EXCEPT ![t] = @ + 1]

\* resume() returns to TaskLoop::run, which goes to the next node.
BackToPass == running' = NoTask /\ pos' = pos + 1 /\ UNCHANGED pc

\* set_chain_root: the callee inherits the root pointer of its caller.
ChildRootUnset(t) == NoTask
ChildRoot(t) == ThisChainTask(t)

\* co_await of a Task: symmetric transfer into the callee.
CallTask(t) ==
  /\ Executing(t) /\ Spend(t)
  /\ chain' = [chain EXCEPT ![t] = Append(@, ChildRoot(t))]
  /\ UNCHANGED <<queue, awaiting, valid, pending, token, ringVars, threadVars>>

Pop(t) == [chain EXCEPT ![t] = SubSeq(@, 1, Len(@) - 1)]

\* co_return in a callee: FinalTaskAwaiter transfers to caller_.
ReturnToCaller(t) ==
  /\ Executing(t) /\ Len(chain[t]) > 1
  /\ chain' = Pop(t)
  /\ UNCHANGED <<queue, awaiting, valid, pending, token, ringVars, threadVars,
                 steps>>

\* co_return in the root: done() makes resume() clear valid_.
FinishRoot(t) ==
  /\ Executing(t) /\ Len(chain[t]) = 1
  /\ chain' = Pop(t)
  /\ valid' = [valid EXCEPT ![t] = FALSE]
  /\ BackToPass
  /\ UNCHANGED <<queue, awaiting, pending, token, ringVars, steps>>

\* A ScheduledTask is built around a coroutine nobody has resumed yet.
Fresh(u) == chain[u] = <<>> /\ valid[u]

\* TaskLoop::emplace_back: a node of a std::list stays where it is when the list
\* grows.  (In a std::vector the nodes move, and this_chain_task_ of every frame
\* made so far points to freed memory.)
EmplaceInVector(u) ==
  /\ queue' = Append(queue, u)
  /\ chain' = [v \in Task |-> IF v = u THEN <<u>>
                              ELSE [i \in DOMAIN chain[v] |-> NoTask]]
  /\ awaiting' = [awaiting EXCEPT ![u] = [task |-> u, depth |-> 1]]
Emplace(u) ==
  /\ queue' = Append(queue, u)
  /\ chain' = [chain EXCEPT ![u] = <<u>>]
  /\ awaiting' = [awaiting EXCEPT ![u] = [task |-> u, depth |-> 1]]

\* co_spawn: the list grows behind the iterator of the pass that is running.
CoSpawn(t, u) ==
  /\ Executing(t) /\ Spend(t)
  /\ Fresh(u)
  /\ Emplace(u)
  /\ UNCHANGED <<valid, pending, token, ringVars, threadVars>>

\* set_awaiting_handle, set_pending(true) and chain_task_ of await_suspend.
ParkRootFrame(r, t) == [awaiting EXCEPT ![r] = [task |-> t, depth |-> 1]]
Park(r, t) == [awaiting EXCEPT ![r] = Leaf(t)]

MarkPendingForgotten(r) == [pending EXCEPT ![r] = FALSE]
MarkPending(r) == [pending EXCEPT ![r] = TRUE]

\* co_await of a UringAwaiter: get_sqe, io_uring_prep_*, set_data, suspend.
AwaitOp(t) ==
  /\ Executing(t) /\ Spend(t)
  /\ Len(sq) < SqEntries
  /\ sq' = Append(sq, [task |-> t, id |-> steps'[t]])
  /\ LET r == ThisChainTask(t) IN
       /\ awaiting' = Park(r, t)
       /\ pending' = MarkPending(r)
       /\ token' = [token EXCEPT ![t] =
                      [id |-> steps'[t], chain_task |-> r, cqe_res |-> "nosys"]]
  /\ BackToPass
  /\ UNCHANGED <<queue, chain, valid, kernel, cq, completed, handled>>

\* io_uring_submit moves the head of the submission queue to its tail.
SqHeadNotMoved == sq
SqAfterSubmit == <<>>

\* A coroutine that spawns a task on another thread or destroys a TcpConnection
\* prepares n requests of its own and calls submit_all, in the middle of the pass:
\* one for a close or for parallel_spawn(task), two for parallel_spawn(task, conn),
\* three for each slot that a multishot listener sends on.  What other tasks have
\* prepared goes with them.  (Their completions at most delete their tokens.)
SubmitInPass(t, n) ==
  /\ Executing(t) /\ Spend(t)
  /\ Len(sq) + n <= SqEntries
  /\ kernel' = kernel \cup {sq[i] : i \in 1 .. Len(sq)}
  /\ sq' = SqAfterSubmit
  /\ UNCHANGED <<taskVars, token, cq, completed, handled, threadVars>>

\* Either of them with too few entries left: get_sqe returns a null pointer, the
\* first time or a later one, which io_uring_prep_* writes through.
NoSqe(t) ==
  /\ Executing(t) /\ Spend(t)
  /\ Len(sq) + PassEntries > SqEntries
  /\ pc' = "terminated"
  /\ UNCHANGED <<taskVars, token, ringVars, pos, running>>

\* An exception leaves the executing frame.  In a callee the caller's result()
\* rethrows it; in the root FinalTaskAwaiter rethrows inside noexcept.
Unwind(t) ==
  /\ pc = "unwind" /\ running = t
  /\ chain' = Pop(t)
  /\ pc' = IF Len(chain[t]) > 1 THEN "unwind" ELSE "terminated"
  /\ UNCHANGED <<queue, awaiting, valid, pending, token, ringVars, pos, running,
                 steps>>

\* The executing frame catches it.
Catch(t) ==
  /\ pc = "unwind" /\ running = t
  /\ pc' = "run"
  /\ UNCHANGED <<taskVars, token, ringVars, pos, running, steps>>

-----------------------------------------------------------------------------
(* The rest of the loop: submit_all, wait_cqe_arrival_for, process_batch.   *)

Submit ==
  /\ pc = "submit"
  /\ kernel' = kernel \cup {sq[i] : i \in 1 .. Len(sq)}
  /\ sq' = SqAfterSubmit
  /\ pc' = "wait"
  /\ UNCHANGED <<taskVars, token, cq, completed, handled, pos, running, steps>>

\* io_uring_peek_batch_cqe.
PeekedWholeBatch == IF Len(cq) = 0 THEN 0 ELSE BatchSize
Peeked == IF Len(cq) < BatchSize THEN Len(cq) ELSE BatchSize

WaitArrival ==
  /\ pc = "wait" /\ cq # <<>>
  /\ completed' = Peeked
  /\ pc' = "handle"
  /\ UNCHANGED <<taskVars, token, sq, kernel, cq, handled, pos, running, steps>>

\* The wait times out: SystemLoop::run skips process_batch, a worker calls it
\* and it finds nothing.
WaitTimeout ==
  /\ pc = "wait" /\ cq = <<>>
  /\ pc' = "run" /\ pos' = 1
  /\ UNCHANGED <<taskVars, token, ringVars, running, steps>>

\* token->cqe_res_ = cqe->res.
StoreResultForgotten(c) == [token EXCEPT ![c.task].cqe_res = @]
StoreResult(c) == [token EXCEPT ![c.task].cqe_res = c.res]

UnparkForgotten(r) == [pending EXCEPT ![r] = @]
Unpark(r) == [pending EXCEPT ![r] = FALSE]

\* handle_request, default case of the switch on token->op_.
HandleCompletion ==
  /\ pc = "handle" /\ handled < completed
  /\ LET c == cq[handled + 1] IN
       /\ c.res # "RingTask"
       /\ token' = StoreResult(c)
       /\ pending' = Unpark(token[c.task].chain_task)
  /\ handled' = handled + 1
  /\ UNCHANGED <<queue, chain, awaiting, valid, sq, kernel, cq, completed,
                 threadVars, steps>>

\* handle_request, a task another thread sent: enqueue(msg_task->move_out()).
HandleRingTask ==
  /\ pc = "handle" /\ handled < completed
  /\ LET c == cq[handled + 1] IN c.res = "RingTask" /\ Emplace(c.task)
  /\ handled' = handled + 1
  /\ UNCHANGED <<valid, pending, token, sq, kernel, cq, completed, threadVars,
                 steps>>

\* consume(completed): the head of the completion queue moves past the batch.
AfterBatchOneTooMany == SubSeq(cq, completed + 2, Len(cq))
AfterBatch == SubSeq(cq, completed + 1, Len(cq))

Consume ==
  /\ pc = "handle" /\ handled = completed
  /\ cq' = AfterBatch
  /\ completed' = 0 /\ handled' = 0
  /\ pc' = "run" /\ pos' = 1
  /\ UNCHANGED <<taskVars, token, sq, kernel, running, steps>>

-----------------------------------------------------------------------------
(* The kernel, and the ring of another thread.                              *)

\* (std::terminate takes the rings and the other threads with it.)
KernelComplete(k, r) ==
  /\ pc # "terminated"
  /\ kernel' = kernel \ {k}
  /\ cq' = Append(cq, [task |-> k.task, id |-> k.id, res |-> r])
  /\ UNCHANGED <<taskVars, token, sq, completed, handled, threadVars, steps>>

\* parallel_spawn on the main thread: std::invoke has made the coroutine,
\* whose this_chain_task_ is still null, and IORING_OP_MSG_RING posts it here.
RingTaskArrives(u) ==
  /\ ~IsMain /\ pc # "terminated"
  /\ Fresh(u)
  /\ chain' = [chain EXCEPT ![u] = <<NoTask>>]
  /\ cq' = Append(cq, [task |-> u, id |-> 0, res |-> "RingTask"])
  /\ UNCHANGED <<queue, awaiting, valid, pending, token, sq, kernel, completed,
                 handled, threadVars, steps>>

-----------------------------------------------------------------------------
CoroutineStep(t) ==
  \/ CallTask(t) \/ ReturnToCaller(t) \/ FinishRoot(t)
  \/ AwaitOp(t) \/ NoSqe(t)
  \/ \E n \in 1 .. PassEntries : SubmitInPass(t, n)
  \/ Unwind(t) \/ Catch(t)
  \/ \E u \in Task : CoSpawn(t, u)

LoopStep ==
  \/ Resume \/ SkipNode \/ EndPass
  \/ Submit \/ WaitArrival \/ WaitTimeout
  \/ HandleCompletion \/ HandleRingTask \/ Consume

ThreadStep == LoopStep \/ \E t \in Task : CoroutineStep(t)

KernelStep == \E k \in kernel, r \in Results : KernelComplete(k, r)

Next == ThreadStep \/ KernelStep \/ \E u \in Task : RingTaskArrives(u)

SafeSpec == Init /\ [][Next]_vars

\* The thread keeps running: nothing it calls blocks for ever (the waits have
\* a timeout), and a coroutine runs a bounded number of steps between two
\* awaits.  The kernel is free never to complete a request.
Spec == SafeSpec /\ WF_vars(ThreadStep)

\* Every submitted request is one that completes (a timer, a write).
SpecWithCompletions == Spec /\ WF_vars(KernelStep)

-----------------------------------------------------------------------------
(* Where the request of a task is, between AwaitOp and the next Resume.     *)

InSq(t)     == \E i \in 1 .. Len(sq) : sq[i].task = t
InKernel(t) == \E k \in kernel : k.task = t
IsOp(i)     == cq[i].res # "RingTask"
InCq(t)     == \E i \in handled + 1 .. Len(cq) : IsOp(i) /\ cq[i].task = t

Outstanding(t) == InSq(t) \/ InKernel(t) \/ InCq(t)

Queued(t) == \E i \in 1 .. Len(queue) : queue[i] = t

-----------------------------------------------------------------------------
(* Safety.                                                                  *)

\* No wake-up is lost or invented: pending_ is set exactly as long as the one
\* completion that clears it is still to be handled (uring_awaiter.hpp:37-42,
\* uring.hpp:223-227).  A task that is pending with no request sleeps for ever;
\* one with a request that is not pending is resumed under the kernel's hands.
NoLostWakeup == \A t \in Task : pending[t] <=> Outstanding(t)

\* The token a request points to is still the one its awaiter holds.
LiveRequest(k) ==
  /\ k.id # 0
  /\ token[k.task] = [id |-> k.id, chain_task |-> k.task, cqe_res |-> "nosys"]

LiveTokens ==
  /\ \A i \in 1 .. Len(sq) : LiveRequest(sq[i])
  /\ \A k \in kernel : LiveRequest(k)
  /\ \A i \in handled + 1 .. Len(cq) :
       IsOp(i) => LiveRequest([task |-> cq[i].task, id |-> cq[i].id])

OneRequestPerTask ==
  /\ \A i, j \in 1 .. Len(sq) : sq[i].task = sq[j].task => i = j
  /\ \A k, l \in kernel : k.task = l.task => k = l
  /\ \A i, j \in handled + 1 .. Len(cq) :
       IsOp(i) /\ IsOp(j) /\ cq[i].task = cq[j].task => i = j
  /\ \A t \in Task : /\ ~(InSq(t) /\ InKernel(t))
                     /\ ~(InSq(t) /\ InCq(t))
                     /\ ~(InKernel(t) /\ InCq(t))

\* The ScheduledTask that chain_task_ points to is a node of the list, each frame
\* of its chain has the address of that node, and the innermost is suspended.
SuspendedInLeaf(t) ==
  /\ Queued(t) /\ valid[t] /\ t # running
  /\ chain[t] # <<>> /\ awaiting[t] = Leaf(t)
  /\ \A i \in 1 .. Len(chain[t]) : chain[t][i] = t

\* handle_request casts user_data to a token inside a coroutine frame and follows
\* its chain_task_ to a node of the task list (uring.hpp:175, 224-226).  Both are
\* still there, the frame suspended in that very awaiter, whatever was spawned in
\* the meantime, and no second completion will ever write to them: the
\* heap-use-after-free that context.hpp:205-208 notes at co_spawn is not one of
\* the list, the root pointers or the tokens.
CompletionHitsLiveToken ==
  /\ LiveTokens /\ OneRequestPerTask
  /\ \A t \in Task : Outstanding(t) => SuspendedInLeaf(t)

\* awaiting_handle_.resume() (scheduled_task.hpp:41) continues the innermost
\* suspended frame of the task's own chain: resuming any other one is undefined.
HandleIsLeaf ==
  \A i \in 1 .. Len(queue) :
    LET t == queue[i] IN
      valid[t] /\ t # running => Len(chain[t]) > 0 /\ awaiting[t] = Leaf(t)

\* await_resume (uring_awaiter.hpp:44) never returns the initial -ENOSYS of
\* cqe_res_: a task that may be resumed in an awaiter has its result.
ResumeSeesResult ==
  \A i \in 1 .. Len(queue) :
    LET t == queue[i] IN
      Runnable(t) /\ t # running /\ token[t].id # 0 =>
        token[t].cqe_res \in Results

\* The thread goes to sleep in wait_cqe_arrival_for only when no task of its
\* list could run, those spawned during the pass included, and with every
\* prepared request submitted (context.hpp:54-62, worker.hpp:55-59).
NoSleepWithWork ==
  /\ pc \in {"submit", "wait"} =>
       \A i \in 1 .. Len(queue) : ~Runnable(queue[i])
  /\ pc = "wait" => sq = <<>>

\* get_sqe never returns null (uring.hpp:86-88; nobody checks it), not for the last
\* of the entries of one submit_all either (context.hpp:144-145, 221-223), as long
\* as the ring has an entry for every other task and those.
SqNeverFull ==
  \A t \in Task : Executing(t) => Len(sq) + PassEntries <= SqEntries

-----------------------------------------------------------------------------
(* Liveness.                                                                *)

Stopped == pc = "terminated"

\* A completion that was posted resumes its task, however many others are
\* queued in front of it and whatever the batch size.
CompletionResumes == \A t \in Task : InCq(t) ~> (running = t \/ Stopped)

\* A task sent by another thread is eventually run by this one.
RingTaskRuns ==
  \A u \in Task : chain[u] = <<NoTask>> ~> (running = u \/ Stopped)

\* If every operation completes (timers, writes), no task sleeps for ever
\* (uring.hpp:223-227): pending_ is cleared and the next pass gets to the task.
PendingResumes ==
  WF_vars(KernelStep) => \A t \in Task : pending[t] ~> (running = t \/ Stopped)

\* What `return net::context::block_on(&spawn_coroutines)` at the end of main
\* (example/co_spawn.cpp:41) relies on: with all tasks done, run() returns.
BlockOnReturns ==
  (Queued(Root) /\ \A t \in Task : Queued(t) => ~valid[t]) ~> pc = "returned"

-----------------------------------------------------------------------------
(* Refinement of AsyncIo.                                                   *)

StateOf(t) ==
  IF ~valid[t] THEN "done"
  ELSE IF ~Queued(t) THEN "absent"
  ELSE IF InSq(t) \/ InKernel(t) THEN "waiting"
  ELSE IF InCq(t) THEN "completed"
  ELSE "ready"

\* A result travels in the CQE until handle_request copies it to the token.
ResultOf(t) ==
  IF InCq(t)
  THEN (CHOOSE c \in {cq[i] : i \in handled + 1 .. Len(cq)} :
          c.res # "RingTask" /\ c.task = t).res
  ELSE token[t].cqe_res

Promise == INSTANCE AsyncIo
  WITH NoResult <- "nosys",
       st <- [t \in Task |-> StateOf(t)],
       result <- [t \in Task |-> ResultOf(t)],
       alive <- pc # "terminated"

\* The loop keeps the promise of AsyncIo: one wake-up per operation, with that
\* operation's result, taken before the next await.
KeepsPromise == Promise!Spec
=============================================================================
