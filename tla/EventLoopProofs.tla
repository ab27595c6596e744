--------------------------- MODULE EventLoopProofs ---------------------------
(***************************************************************************)
(* Proofs about EventLoop, for any number of tasks and any queue sizes.    *)
(*                                                                         *)
(* The inductive invariant has two layers.  ShapeInv is about the list and *)
(* the coroutine chains and is inductive on its own.  RequestInv is about  *)
(* the requests under way and is inductive relative to ShapeInv.           *)
(***************************************************************************)
EXTENDS EventLoop, SequenceTheorems, FiniteSetTheorems, TLAPS

-----------------------------------------------------------------------------
(* The inductive invariant.                                                 *)

BatchIdle == pc # "handle" => completed = 0 /\ handled = 0

QueueInv == \A i, j \in 1 .. Len(queue) : queue[i] = queue[j] => i = j

ChainInv ==
  \A i \in 1 .. Len(queue) :
    LET t == queue[i] IN
      /\ \A j \in 1 .. Len(chain[t]) : chain[t][j] = t
      /\ valid[t] /\ pc # "terminated" => Len(chain[t]) > 0

\* The tasks in RingTask messages are coroutines nobody has enqueued.
MessageInv ==
  /\ \A i \in handled + 1 .. Len(cq) :
       ~IsOp(i) => chain[cq[i].task] = <<NoTask>> /\ valid[cq[i].task]
  /\ \A i, j \in handled + 1 .. Len(cq) :
       ~IsOp(i) /\ ~IsOp(j) /\ cq[i].task = cq[j].task => i = j

ThreadInv ==
  /\ running # NoTask =>
       /\ pos <= Len(queue) /\ queue[pos] = running /\ valid[running]
       /\ pc \in {"run", "unwind", "terminated"}
  /\ pc = "unwind" => running # NoTask

TypeInv == TypeOK /\ BatchIdle

ShapeInv ==
  TypeInv /\ QueueInv /\ ChainInv /\ HandleIsLeaf /\ MessageInv /\ ThreadInv

\* A task that waits is a live one of this list, and not the running one.
WaiterInv ==
  \A t \in Task : pending[t] => Queued(t) /\ valid[t] /\ t # running

TokenInv ==
  /\ \A t \in Task :
       token[t].id # 0 /\ ~pending[t] => token[t].cqe_res \in Results
  /\ running # NoTask => token[running].id = 0

\* What the pass has left behind cannot run before the next one.
PassInv ==
  pc \in {"run", "unwind"} =>
    \A i \in 1 .. Len(queue) : i < pos => ~Runnable(queue[i])

RequestsOK == NoLostWakeup /\ LiveTokens /\ OneRequestPerTask

RequestInv ==
  /\ RequestsOK
  /\ WaiterInv /\ TokenInv /\ PassInv /\ NoSleepWithWork

IInv == ShapeInv /\ RequestInv

-----------------------------------------------------------------------------
(* Types.                                                                   *)

LEMMA CqeTyped ==
  ASSUME TypeOK, NEW i \in 1 .. Len(cq)
  PROVE  /\ cq[i] \in Cqe
         /\ cq[i].task \in Task
         /\ cq[i].id \in Nat
         /\ cq[i].res \in Results \cup {"RingTask"}
<1>1. cq[i] \in Cqe
  BY DEF TypeOK
<1> QED
  BY <1>1 DEF Cqe

LEMMA QueueTyped ==
  ASSUME TypeOK
  PROVE  /\ Len(queue) \in Nat
         /\ \A i \in 1 .. Len(queue) : queue[i] \in Task
  BY DEF TypeOK

LEMMA PopProperties ==
  ASSUME TypeOK, NEW t \in Task, Len(chain[t]) > 0
  PROVE  /\ Pop(t) \in [Task -> Seq(Task \cup {NoTask})]
         /\ \A u \in Task : u # t => Pop(t)[u] = chain[u]
         /\ Len(Pop(t)[t]) = Len(chain[t]) - 1
         /\ \A i \in 1 .. Len(chain[t]) - 1 : Pop(t)[t][i] = chain[t][i]
<1>1. chain[t] \in Seq(Task \cup {NoTask})
  BY DEF TypeOK
<1>2. Pop(t)[t] = SubSeq(chain[t], 1, Len(chain[t]) - 1)
  BY DEF TypeOK, Pop
<1>3. /\ SubSeq(chain[t], 1, Len(chain[t]) - 1) \in Seq(Task \cup {NoTask})
      /\ Len(SubSeq(chain[t], 1, Len(chain[t]) - 1)) = Len(chain[t]) - 1
      /\ \A i \in 1 .. Len(chain[t]) - 1 :
           SubSeq(chain[t], 1, Len(chain[t]) - 1)[i] = chain[t][i]
  BY <1>1
<1> QED
  BY <1>2, <1>3 DEF TypeOK, Pop

LEMMA StoreResultTyped ==
  ASSUME TypeOK, NEW t \in Task, NEW r \in Results \cup {"nosys"}
  PROVE  [token EXCEPT ![t].cqe_res = r] \in [Task -> Token]
  BY DEF TypeOK, Token

LEMMA EmplaceTyped ==
  ASSUME TypeOK, NEW u \in Task, Emplace(u)
  PROVE  /\ queue' \in Seq(Task)
         /\ chain' \in [Task -> Seq(Task \cup {NoTask})]
         /\ awaiting' \in [Task -> Frame]
<1>1. queue' \in Seq(Task)
  BY DEF TypeOK, Emplace
<1>2. chain' \in [Task -> Seq(Task \cup {NoTask})]
  BY DEF TypeOK, Emplace
<1>3. awaiting' \in [Task -> Frame]
  <2>1. [task |-> u, depth |-> 1] \in Frame
    BY DEF Frame
  <2> QED
    BY <2>1 DEF TypeOK, Emplace
<1> QED
  BY <1>1, <1>2, <1>3

\* The root pointers of a chain all lead to its own task, so what an awaiter
\* of the running task finds in this_chain_task_ is that task.
LEMMA RunningChain ==
  ASSUME ShapeInv, NEW t \in Task, t = running, pc \in {"run", "unwind"}
  PROVE  /\ pos \in 1 .. Len(queue) /\ queue[pos] = t /\ valid[t]
         /\ chain[t] \in Seq(Task \cup {NoTask})
         /\ Len(chain[t]) \in Nat \ {0}
         /\ \A j \in 1 .. Len(chain[t]) : chain[t][j] = t
         /\ ThisChainTask(t) = t
         /\ chain[t] # <<NoTask>> /\ chain[t] # <<>>
<1>1. pos \in 1 .. Len(queue) /\ queue[pos] = t /\ valid[t]
  BY TaskAssumption DEF ShapeInv, TypeInv, TypeOK, ThreadInv
<1>2. chain[t] \in Seq(Task \cup {NoTask})
  BY DEF ShapeInv, TypeInv, TypeOK
<1>3. Len(chain[t]) > 0 /\ \A j \in 1 .. Len(chain[t]) : chain[t][j] = t
  BY <1>1 DEF ShapeInv, ChainInv
<1>4. chain[t][1] = t /\ t # NoTask
  BY <1>2, <1>3, TaskAssumption
<1> QED
  BY <1>1, <1>2, <1>3, <1>4 DEF ThisChainTask

LEMMA TypeInit == Init => TypeInv
<1> SUFFICES ASSUME Init PROVE TypeInv
  OBVIOUS
<1>1. queue \in Seq(Task) /\ chain \in [Task -> Seq(Task \cup {NoTask})]
  <2>1. queue \in Seq(Task)
    BY TaskAssumption DEF Init, Initial
  <2>2. <<>> \in Seq(Task \cup {NoTask})
        /\ \A t \in Task : <<t>> \in Seq(Task \cup {NoTask})
    OBVIOUS
  <2> QED
    BY <2>1, <2>2 DEF Init
<1>2. awaiting \in [Task -> Frame] /\ token \in [Task -> Token]
  BY DEF Init, Frame, Token, NoToken
<1>3. MaxSteps \in Nat
  BY BoundAssumption
<1> QED
  BY <1>1, <1>2, <1>3 DEF Init, TypeInv, TypeOK, BatchIdle

LEMMA TypeLoopStep ==
  ASSUME ShapeInv, LoopStep
  PROVE  TypeInv'
<1>0. TypeInv
  BY DEF ShapeInv
<1> USE <1>0, TaskAssumption, BoundAssumption
    DEF TypeInv, BatchIdle, TypeOK, taskVars, ringVars, threadVars
<1>1. CASE Resume
  <2> DEFINE t == queue[pos]
  <2>1. t \in Task
    BY <1>1, QueueTyped DEF Resume, AtNode
  <2>2. NoToken \in Token /\ awaiting[t].task \in Task
    BY <2>1 DEF NoToken, Token, Frame
  <2> QED
    BY <1>1, <2>1, <2>2 DEF Resume, AtNode, Raises
<1>2. CASE SkipNode
  <2>1. pos' \in Nat \ {0}
    BY <1>2 DEF SkipNode
  <2> QED
    BY <1>2, <2>1 DEF SkipNode
<1>3. CASE EndPass
  BY <1>3 DEF EndPass
<1>4. CASE Submit
  <2>1. {sq[i] : i \in 1 .. Len(sq)} \subseteq Request
    OBVIOUS
  <2> QED
    BY <1>4, <2>1 DEF Submit, SqAfterSubmit
<1>5. CASE WaitArrival
  <2>1. Peeked \in Nat /\ Peeked <= Len(cq)
    BY DEF Peeked
  <2> QED
    BY <1>5, <2>1 DEF WaitArrival
<1>6. CASE WaitTimeout
  BY <1>6 DEF WaitTimeout
<1>7. CASE HandleCompletion
  <2> DEFINE c == cq[handled + 1]
  <2>1. c.task \in Task /\ c.res \in Results
    BY <1>7, CqeTyped DEF HandleCompletion
  <2>2. StoreResult(c) \in [Task -> Token]
    BY <2>1, StoreResultTyped DEF StoreResult
  <2>3. token' \in [Task -> Token] /\ pending' \in [Task -> BOOLEAN]
    BY <1>7, <2>2 DEF HandleCompletion, Unpark
  <2>4. handled' \in Nat /\ handled' <= completed
    BY <1>7 DEF HandleCompletion
  <2> QED
    BY <1>7, <2>3, <2>4 DEF HandleCompletion
<1>8. CASE HandleRingTask
  <2> DEFINE u == cq[handled + 1].task
  <2>1. handled + 1 \in 1 .. Len(cq)
    BY <1>8 DEF HandleRingTask
  <2>2. u \in Task
    BY <2>1, CqeTyped
  <2>3. Emplace(u)
    BY <1>8 DEF HandleRingTask
  <2>4. /\ queue' \in Seq(Task)
        /\ chain' \in [Task -> Seq(Task \cup {NoTask})]
        /\ awaiting' \in [Task -> Frame]
    BY <2>2, <2>3, EmplaceTyped
  <2>5. handled' \in Nat /\ handled' <= completed
    BY <1>8 DEF HandleRingTask
  <2> QED
    BY <1>8, <2>4, <2>5 DEF HandleRingTask
<1>9. CASE Consume
  BY <1>9 DEF Consume, AfterBatch
<1> QED
  BY <1>1, <1>2, <1>3, <1>4, <1>5, <1>6, <1>7, <1>8, <1>9 DEF LoopStep

LEMMA TypeCoroutineStep ==
  ASSUME ShapeInv, NEW t \in Task, CoroutineStep(t)
  PROVE  TypeInv'
<1>0. TypeInv
  BY DEF ShapeInv
<1> USE <1>0, TaskAssumption, BoundAssumption
    DEF TypeInv, BatchIdle, TypeOK, taskVars, ringVars, threadVars
<1>1. Spend(t) => steps' \in [Task -> 0 .. MaxSteps] /\ steps'[t] \in Nat
  BY DEF Spend
<1>11. BackToPass => pos' \in Nat \ {0} /\ running' = NoTask /\ pc' = pc
  BY DEF BackToPass
<1>2. CASE CallTask(t)
  <2>1. ChildRoot(t) = t
    BY <1>2, RunningChain DEF CallTask, Executing, ChildRoot
  <2>2. chain' \in [Task -> Seq(Task \cup {NoTask})]
    BY <1>2, <2>1 DEF CallTask
  <2> QED
    BY <1>1, <1>2, <2>2 DEF CallTask, Executing
<1>3. CASE ReturnToCaller(t)
  <2>1. Pop(t) \in [Task -> Seq(Task \cup {NoTask})]
    BY DEF Pop
  <2> QED
    BY <1>3, <2>1 DEF ReturnToCaller
<1>4. CASE FinishRoot(t)
  <2>1. Pop(t) \in [Task -> Seq(Task \cup {NoTask})]
    BY DEF Pop
  <2>2. chain' \in [Task -> Seq(Task \cup {NoTask})]
    BY <1>4, <2>1 DEF FinishRoot
  <2>3. valid' \in [Task -> BOOLEAN]
    BY <1>4 DEF FinishRoot
  <2> QED
    BY <1>4, <1>11, <2>2, <2>3 DEF FinishRoot
<1>5. CASE AwaitOp(t)
  <2>1. ThisChainTask(t) = t
    BY <1>5, RunningChain DEF AwaitOp, Executing
  <2>2. [task |-> t, id |-> steps'[t]] \in Request
    BY <1>1, <1>5 DEF AwaitOp, Request
  <2>3. sq' \in Seq(Request)
    BY <1>5, <2>2 DEF AwaitOp
  <2>4. [id |-> steps'[t], chain_task |-> t, cqe_res |-> "nosys"] \in Token
    BY <1>1, <1>5 DEF AwaitOp, Token
  <2>5. token' \in [Task -> Token]
    BY <1>5, <2>1, <2>4 DEF AwaitOp
  <2>6. awaiting' \in [Task -> Frame]
    <3>1. Leaf(t) \in Frame
      BY DEF Leaf, Frame
    <3> QED
      BY <1>5, <3>1 DEF AwaitOp, Park
  <2>7. pending' \in [Task -> BOOLEAN]
    BY <1>5 DEF AwaitOp, MarkPending
  <2> QED
    BY <1>1, <1>11, <1>5, <2>3, <2>5, <2>6, <2>7 DEF AwaitOp
<1>6. CASE NoSqe(t)
  BY <1>1, <1>6 DEF NoSqe, Executing
<1>10. CASE \E n \in 1 .. PassEntries : SubmitInPass(t, n)
  <2>1. {sq[i] : i \in 1 .. Len(sq)} \subseteq Request
    OBVIOUS
  <2> QED
    BY <1>1, <1>10, <2>1 DEF SubmitInPass, SqAfterSubmit, Executing
<1>7. CASE Unwind(t)
  <2>1. Pop(t) \in [Task -> Seq(Task \cup {NoTask})]
    BY DEF Pop
  <2> QED
    BY <1>7, <2>1 DEF Unwind
<1>8. CASE Catch(t)
  BY <1>8 DEF Catch
<1>9. ASSUME NEW u \in Task, CoSpawn(t, u) PROVE TypeInv'
  <2>1. /\ queue' \in Seq(Task)
        /\ chain' \in [Task -> Seq(Task \cup {NoTask})]
        /\ awaiting' \in [Task -> Frame]
    BY <1>9, EmplaceTyped DEF CoSpawn
  <2> QED
    BY <1>1, <1>9, <2>1 DEF CoSpawn
<1> QED
  BY <1>2, <1>3, <1>4, <1>5, <1>6, <1>7, <1>8, <1>9, <1>10
  DEF CoroutineStep

LEMMA TypeStep ==
  ASSUME ShapeInv, [Next]_vars
  PROVE  TypeInv'
<1>0. TypeInv
  BY DEF ShapeInv
<1> USE <1>0 DEF TypeInv, BatchIdle, TypeOK, taskVars, ringVars, threadVars
<1>1. CASE ThreadStep
  BY <1>1, TypeLoopStep, TypeCoroutineStep DEF ThreadStep
<1>2. ASSUME NEW k \in kernel, NEW r \in Results, KernelComplete(k, r)
      PROVE  TypeInv'
  <2>1. [task |-> k.task, id |-> k.id, res |-> r] \in Cqe
    BY DEF Request, Cqe
  <2> QED
    BY <1>2, <2>1 DEF KernelComplete
<1>3. ASSUME NEW u \in Task, RingTaskArrives(u) PROVE TypeInv'
  <2>1. [task |-> u, id |-> 0, res |-> "RingTask"] \in Cqe
    BY DEF Cqe
  <2>2. <<NoTask>> \in Seq(Task \cup {NoTask})
    OBVIOUS
  <2> QED
    BY <1>3, <2>1, <2>2 DEF RingTaskArrives
<1>4. CASE UNCHANGED vars
  BY <1>4 DEF vars
<1> QED
  BY <1>1, <1>2, <1>3, <1>4 DEF Next, KernelStep


-----------------------------------------------------------------------------
(* The list and the chains.                                                 *)

\* What the steps that leave the list and the chains alone preserve.
LEMMA ListKept ==
  ASSUME ShapeInv, UNCHANGED <<queue, chain, awaiting, valid, running>>,
         pc' = "terminated" \/ pc # "terminated"
  PROVE  QueueInv' /\ ChainInv' /\ HandleIsLeaf'
<1>1. QueueInv'
  BY DEF ShapeInv, QueueInv
<1>2. ChainInv'
  BY DEF ShapeInv, ChainInv
<1>3. HandleIsLeaf'
  BY DEF ShapeInv, HandleIsLeaf, Leaf
<1> QED
  BY <1>1, <1>2, <1>3

LEMMA MessagesKept ==
  ASSUME ShapeInv, UNCHANGED <<cq, handled>>,
         \A u \in Task : chain[u] = <<NoTask>> /\ valid[u] =>
                           chain'[u] = chain[u] /\ valid'[u]
  PROVE  MessageInv'
<1>1. \A i \in handled + 1 .. Len(cq) :
        ~IsOp(i) => chain'[cq[i].task] = <<NoTask>> /\ valid'[cq[i].task]
  <2> TAKE i \in handled + 1 .. Len(cq)
  <2>1. cq[i].task \in Task
    BY CqeTyped DEF ShapeInv, TypeInv, TypeOK
  <2>2. ~IsOp(i) => chain[cq[i].task] = <<NoTask>> /\ valid[cq[i].task]
    BY DEF ShapeInv, MessageInv
  <2> QED
    BY <2>1, <2>2
<1> QED
  BY <1>1 DEF ShapeInv, MessageInv, IsOp

LEMMA NotQueued ==
  ASSUME ShapeInv, NEW u \in Task, valid[u], pc # "terminated",
         chain[u] = <<>> \/ chain[u] = <<NoTask>>
  PROVE  ~Queued(u)
<1> SUFFICES ASSUME NEW i \in 1 .. Len(queue), queue[i] = u PROVE FALSE
  BY DEF Queued
<1>1. Len(chain[u]) > 0 /\ \A j \in 1 .. Len(chain[u]) : chain[u][j] = u
  BY DEF ShapeInv, ChainInv
<1>2. chain[u] = <<NoTask>> => Len(chain[u]) = 1 /\ chain[u][1] = NoTask
  OBVIOUS
<1> QED
  BY <1>1, <1>2, TaskAssumption

\* A task enters the list once.
LEMMA EmplaceShape ==
  ASSUME ShapeInv, NEW u \in Task, Emplace(u), ~Queued(u), u # running,
         UNCHANGED <<valid, pc, running>>
  PROVE  QueueInv' /\ ChainInv' /\ HandleIsLeaf'
<1>1. /\ Len(queue) \in Nat /\ Len(queue') = Len(queue) + 1
      /\ queue'[Len(queue) + 1] = u
      /\ \A i \in 1 .. Len(queue) :
           queue'[i] = queue[i] /\ queue[i] # u /\ queue[i] \in Task
  BY DEF ShapeInv, TypeInv, TypeOK, Emplace, Queued
<1>2. QueueInv'
  BY <1>1 DEF ShapeInv, QueueInv
<1>3. /\ chain'[u] = <<u>> /\ Len(chain'[u]) = 1 /\ chain'[u][1] = u
      /\ awaiting'[u] = [task |-> u, depth |-> 1]
      /\ \A t \in Task : t # u => /\ chain'[t] = chain[t]
                                  /\ awaiting'[t] = awaiting[t]
  BY DEF ShapeInv, TypeInv, TypeOK, Emplace
<1>4. ChainInv'
  <2> SUFFICES ASSUME NEW i \in 1 .. Len(queue')
               PROVE  LET t == queue'[i] IN
                        /\ \A j \in 1 .. Len(chain'[t]) : chain'[t][j] = t
                        /\ valid[t] /\ pc # "terminated" => Len(chain'[t]) > 0
    BY DEF ChainInv
  <2>1. CASE i = Len(queue) + 1
    <3>1. queue'[i] = u
      BY <1>1, <2>1
    <3>2. \A j \in 1 .. Len(chain'[u]) : j = 1 /\ chain'[u][j] = u
      BY <1>3
    <3> QED
      BY <1>3, <3>1, <3>2
  <2>2. CASE i \in 1 .. Len(queue)
    BY <1>1, <1>3, <2>2 DEF ShapeInv, ChainInv
  <2> QED
    BY <1>1, <2>1, <2>2
<1>5. HandleIsLeaf'
  <2> SUFFICES ASSUME NEW i \in 1 .. Len(queue'), valid[queue'[i]],
                      queue'[i] # running
               PROVE  /\ Len(chain'[queue'[i]]) > 0
                      /\ awaiting'[queue'[i]]
                           = [task |-> queue'[i],
                              depth |-> Len(chain'[queue'[i]])]
    BY DEF HandleIsLeaf, Leaf
  <2>1. CASE i = Len(queue) + 1
    <3>1. queue'[i] = u
      BY <1>1, <2>1
    <3>2. /\ awaiting'[u] = [task |-> u, depth |-> Len(chain'[u])]
          /\ Len(chain'[u]) > 0
      BY <1>3
    <3> QED
      BY <3>1, <3>2, Zenon
  <2>2. CASE i \in 1 .. Len(queue)
    BY <1>1, <1>3, <2>2 DEF ShapeInv, HandleIsLeaf, Leaf
  <2> QED
    BY <1>1, <2>1, <2>2
<1> QED
  BY <1>2, <1>4, <1>5

\* TaskLoop::run resumes the frame of the task it has reached.
LEMMA ResumeTarget ==
  ASSUME ShapeInv, Resume
  PROVE  /\ pos \in 1 .. Len(queue) /\ queue[pos] \in Task
         /\ running = NoTask /\ pc = "run"
         /\ valid[queue[pos]] /\ ~pending[queue[pos]]
         /\ running' = queue[pos]
<1> DEFINE t == queue[pos]
<1>1. /\ t \in Task /\ valid[t] /\ ~pending[t] /\ pos \in 1 .. Len(queue)
      /\ pc = "run" /\ running = NoTask
  BY QueueTyped DEF Resume, AtNode, Runnable, ShapeInv, TypeInv, TypeOK
<1>2. t # running
  BY <1>1, TaskAssumption
<1>3. awaiting[t] = [task |-> t, depth |-> Len(chain[t])]
  BY <1>1, <1>2 DEF ShapeInv, HandleIsLeaf, Leaf
<1> QED
  BY <1>1, <1>3 DEF Resume

LEMMA ShapeLoopStep ==
  ASSUME ShapeInv, LoopStep
  PROVE  QueueInv' /\ ChainInv' /\ HandleIsLeaf' /\ MessageInv' /\ ThreadInv'
<1> USE DEF taskVars, ringVars, threadVars
<1>1. CASE Resume
  <2> DEFINE t == queue[pos]
  <2>1. /\ t \in Task /\ valid[t] /\ pos \in 1 .. Len(queue)
        /\ pc = "run" /\ running = NoTask /\ running' = t
    BY <1>1, ResumeTarget
  <2>3. QueueInv' /\ ChainInv'
    BY <1>1, <2>1 DEF Resume, ShapeInv, QueueInv, ChainInv
  <2>4. HandleIsLeaf'
    <3>1. \A i \in 1 .. Len(queue) : queue[i] # NoTask
      BY QueueTyped, TaskAssumption DEF ShapeInv, TypeInv
    <3> QED
      BY <1>1, <2>1, <3>1 DEF Resume, ShapeInv, HandleIsLeaf, Leaf
  <2>5. MessageInv'
    BY <1>1, MessagesKept DEF Resume
  <2>6. ThreadInv'
    BY <1>1, <2>1, TaskAssumption DEF Resume, ThreadInv
  <2> QED
    BY <2>3, <2>4, <2>5, <2>6
<1>2. CASE SkipNode
  BY <1>2, ListKept, MessagesKept, TaskAssumption
  DEF SkipNode, AtNode, ShapeInv, ThreadInv
<1>3. CASE EndPass
  BY <1>3, ListKept, MessagesKept DEF EndPass, ShapeInv, ThreadInv
<1>4. CASE Submit
  BY <1>4, ListKept, MessagesKept DEF Submit, ShapeInv, ThreadInv
<1>5. CASE WaitArrival
  BY <1>5, ListKept, MessagesKept DEF WaitArrival, ShapeInv, ThreadInv
<1>6. CASE WaitTimeout
  BY <1>6, ListKept, MessagesKept DEF WaitTimeout, ShapeInv, ThreadInv
<1>7. CASE HandleCompletion
  <2>1. QueueInv' /\ ChainInv' /\ HandleIsLeaf' /\ ThreadInv'
    BY <1>7, ListKept DEF HandleCompletion, ShapeInv, ThreadInv
  <2>2. handled \in Nat /\ handled' = handled + 1
    BY <1>7 DEF HandleCompletion, ShapeInv, TypeInv, TypeOK
  <2>3. MessageInv'
    BY <1>7, <2>2 DEF HandleCompletion, ShapeInv, MessageInv, IsOp
  <2> QED
    BY <2>1, <2>3
<1>8. CASE HandleRingTask
  <2> DEFINE n == handled + 1
             u == cq[n].task
  <2>1. /\ n \in handled + 1 .. Len(cq) /\ n \in 1 .. Len(cq) /\ ~IsOp(n)
        /\ handled \in Nat /\ handled' = n /\ pc = "handle"
    BY <1>8 DEF HandleRingTask, ShapeInv, TypeInv, TypeOK, IsOp
  <2>2. u \in Task
    BY <2>1, CqeTyped DEF ShapeInv, TypeInv
  <2>3. chain[u] = <<NoTask>> /\ valid[u]
    BY <2>1 DEF ShapeInv, MessageInv
  <2>4. running = NoTask
    BY <2>1 DEF ShapeInv, ThreadInv
  <2>5. ~Queued(u) /\ Emplace(u)
    BY <1>8, <2>1, <2>2, <2>3, NotQueued DEF HandleRingTask
  <2>6. QueueInv' /\ ChainInv' /\ HandleIsLeaf'
    BY <1>8, <2>2, <2>4, <2>5, EmplaceShape, TaskAssumption
    DEF HandleRingTask
  <2>7. MessageInv'
    <3>1. \A i \in n + 1 .. Len(cq) :
            ~IsOp(i) => /\ cq[i].task \in Task /\ cq[i].task # u
                        /\ chain[cq[i].task] = <<NoTask>>
                        /\ valid[cq[i].task]
      <4> SUFFICES ASSUME NEW i \in n + 1 .. Len(cq), ~IsOp(i)
                   PROVE  /\ cq[i].task \in Task /\ cq[i].task # u
                          /\ chain[cq[i].task] = <<NoTask>>
                          /\ valid[cq[i].task]
        OBVIOUS
      <4>1. i \in handled + 1 .. Len(cq) /\ i \in 1 .. Len(cq) /\ i # n
        BY <2>1
      <4>2. cq[i].task \in Task
        BY <4>1, CqeTyped DEF ShapeInv, TypeInv
      <4> QED
        BY <2>1, <4>1, <4>2 DEF ShapeInv, MessageInv
    <3>2. \A v \in Task : v # u => chain'[v] = chain[v]
      BY <2>5 DEF Emplace, ShapeInv, TypeInv, TypeOK
    <3>3. UNCHANGED <<cq, valid>>
      BY <1>8 DEF HandleRingTask
    <3>4. \A i \in n + 1 .. Len(cq) :
            ~IsOp(i) => chain'[cq[i].task] = <<NoTask>> /\ valid[cq[i].task]
      BY <3>1, <3>2
    <3>5. \A i, j \in n + 1 .. Len(cq) :
            ~IsOp(i) /\ ~IsOp(j) /\ cq[i].task = cq[j].task => i = j
      BY <2>1 DEF ShapeInv, MessageInv
    <3>6. \A i \in n + 1 .. Len(cq) : IsOp(i)' = IsOp(i)
      BY <3>3 DEF IsOp
    <3>7. handled' = n /\ cq' = cq /\ valid' = valid
      BY <2>1, <3>3
    <3> HIDE DEF n, u
    <3> QED
      BY <3>4, <3>5, <3>6, <3>7 DEF MessageInv
  <2>8. ThreadInv'
    BY <1>8, <2>1, <2>4 DEF HandleRingTask, ThreadInv
  <2> QED
    BY <2>6, <2>7, <2>8
<1>9. CASE Consume
  <2>1. QueueInv' /\ ChainInv' /\ HandleIsLeaf' /\ ThreadInv'
    BY <1>9, ListKept DEF Consume, ShapeInv, ThreadInv
  <2>2. /\ completed \in Nat /\ handled = completed /\ handled' = 0
        /\ Len(cq) \in Nat /\ Len(cq') = Len(cq) - completed
        /\ \A i \in 1 .. Len(cq') :
             cq'[i] = cq[i + completed] /\ i + completed <= Len(cq)
    BY <1>9 DEF Consume, AfterBatch, ShapeInv, TypeInv, TypeOK
  <2>3. UNCHANGED <<chain, valid>>
    BY <1>9 DEF Consume
  <2>4. \A i \in 1 .. Len(cq') : /\ i + completed \in handled + 1 .. Len(cq)
                                 /\ IsOp(i)' = IsOp(i + completed)
                                 /\ cq'[i].task = cq[i + completed].task
    BY <2>2 DEF IsOp
  <2>5. \A i \in 1 .. Len(cq') :
          ~IsOp(i)' => chain[cq'[i].task] = <<NoTask>> /\ valid[cq'[i].task]
    BY <2>4 DEF ShapeInv, MessageInv
  <2>6. \A i, j \in 1 .. Len(cq') :
          ~IsOp(i)' /\ ~IsOp(j)' /\ cq'[i].task = cq'[j].task => i = j
    <3> TAKE i, j \in 1 .. Len(cq')
    <3>1. ~IsOp(i)' /\ ~IsOp(j)' /\ cq'[i].task = cq'[j].task
            => i + completed = j + completed
      BY <2>4 DEF ShapeInv, MessageInv
    <3> QED
      BY <2>2, <3>1
  <2>7. MessageInv'
    BY <2>2, <2>3, <2>5, <2>6 DEF MessageInv
  <2> QED
    BY <2>1, <2>7
<1> QED
  BY <1>1, <1>2, <1>3, <1>4, <1>5, <1>6, <1>7, <1>8, <1>9 DEF LoopStep

\* The running task changes its own chain, which no message and no other
\* task of the list shares.
LEMMA ChainChange ==
  ASSUME ShapeInv, NEW t \in Task, t = running, pc \in {"run", "unwind"},
         NEW c \in Seq(Task \cup {NoTask}), chain' = [chain EXCEPT ![t] = c],
         \A j \in 1 .. Len(c) : c[j] = t,
         valid' = valid \/ valid' = [valid EXCEPT ![t] = FALSE],
         valid'[t] /\ pc' # "terminated" => Len(c) > 0,
         running' = t \/ ~valid'[t],
         running' = t \/ running' = NoTask,
         UNCHANGED <<queue, awaiting, cq, handled>>
  PROVE  QueueInv' /\ ChainInv' /\ HandleIsLeaf' /\ MessageInv'
<1>1. /\ chain'[t] = c
      /\ \A u \in Task : u # t => chain'[u] = chain[u] /\ valid'[u] = valid[u]
  BY DEF ShapeInv, TypeInv, TypeOK
<1>2. \A i \in 1 .. Len(queue) : queue[i] \in Task
  BY QueueTyped DEF ShapeInv, TypeInv
<1>3. QueueInv'
  BY DEF ShapeInv, QueueInv
<1>4. ChainInv'
  <2> SUFFICES ASSUME NEW i \in 1 .. Len(queue)
               PROVE  LET u == queue[i] IN
                        /\ \A j \in 1 .. Len(chain'[u]) : chain'[u][j] = u
                        /\ valid'[u] /\ pc' # "terminated"
                             => Len(chain'[u]) > 0
    BY DEF ChainInv
  <2>1. CASE queue[i] = t
    BY <1>1, <2>1
  <2>2. CASE queue[i] # t
    BY <1>1, <1>2, <2>2 DEF ShapeInv, ChainInv
  <2> QED
    BY <2>1, <2>2
<1>5. HandleIsLeaf'
  <2> SUFFICES ASSUME NEW i \in 1 .. Len(queue), valid'[queue[i]],
                      queue[i] # running'
               PROVE  /\ Len(chain'[queue[i]]) > 0
                      /\ awaiting[queue[i]]
                           = [task |-> queue[i],
                              depth |-> Len(chain'[queue[i]])]
    BY DEF HandleIsLeaf, Leaf
  <2>1. queue[i] # t /\ queue[i] \in Task
    BY <1>2
  <2> QED
    BY <1>1, <2>1 DEF ShapeInv, HandleIsLeaf, Leaf
<1>6. MessageInv'
  <2>1. chain[t] # <<NoTask>>
    BY RunningChain
  <2> QED
    BY <1>1, <2>1, MessagesKept
<1> QED
  BY <1>3, <1>4, <1>5, <1>6

LEMMA ShapeCoroutineStep ==
  ASSUME ShapeInv, NEW t \in Task, CoroutineStep(t)
  PROVE  QueueInv' /\ ChainInv' /\ HandleIsLeaf' /\ MessageInv' /\ ThreadInv'
<1> USE DEF taskVars, ringVars, threadVars
<1>0. t = running /\ pc \in {"run", "unwind"}
  BY DEF CoroutineStep, Executing, CallTask, ReturnToCaller, FinishRoot,
         AwaitOp, SubmitInPass, NoSqe, Unwind, Catch, CoSpawn
<1>1. /\ pos \in 1 .. Len(queue) /\ queue[pos] = t /\ valid[t] /\ t # NoTask
      /\ chain[t] \in Seq(Task \cup {NoTask}) /\ Len(chain[t]) \in Nat \ {0}
      /\ \A j \in 1 .. Len(chain[t]) : chain[t][j] = t
      /\ ThisChainTask(t) = t
  BY <1>0, RunningChain, TaskAssumption
<1>2. CASE CallTask(t)
  <2> DEFINE c == Append(chain[t], t)
  <2>1. chain' = [chain EXCEPT ![t] = c]
    BY <1>1, <1>2 DEF CallTask, ChildRoot
  <2>2. /\ c \in Seq(Task \cup {NoTask}) /\ Len(c) > 0
        /\ \A j \in 1 .. Len(c) : c[j] = t
    BY <1>1
  <2>3. QueueInv' /\ ChainInv' /\ HandleIsLeaf' /\ MessageInv'
    <3> HIDE DEF c
    <3> QED
      BY <1>0, <1>2, <2>1, <2>2, ChainChange DEF CallTask
  <2> QED
    BY <1>2, <2>3 DEF CallTask, ShapeInv, ThreadInv
<1>3. CASE ReturnToCaller(t)
  <2> DEFINE c == SubSeq(chain[t], 1, Len(chain[t]) - 1)
  <2>1. chain' = [chain EXCEPT ![t] = c]
    BY <1>3 DEF ReturnToCaller, Pop
  <2>2. /\ c \in Seq(Task \cup {NoTask}) /\ Len(c) > 0
        /\ \A j \in 1 .. Len(c) : c[j] = t
    BY <1>1, <1>3 DEF ReturnToCaller
  <2>3. QueueInv' /\ ChainInv' /\ HandleIsLeaf' /\ MessageInv'
    <3> HIDE DEF c
    <3> QED
      BY <1>0, <1>3, <2>1, <2>2, ChainChange DEF ReturnToCaller
  <2> QED
    BY <1>3, <2>3 DEF ReturnToCaller, ShapeInv, ThreadInv
<1>4. CASE FinishRoot(t)
  <2> DEFINE c == SubSeq(chain[t], 1, Len(chain[t]) - 1)
  <2>1. chain' = [chain EXCEPT ![t] = c]
    BY <1>4 DEF FinishRoot, Pop
  <2>2. c \in Seq(Task \cup {NoTask}) /\ \A j \in 1 .. Len(c) : c[j] = t
    BY <1>1, <1>4 DEF FinishRoot
  <2>3. valid' = [valid EXCEPT ![t] = FALSE] /\ ~valid'[t]
    BY <1>4 DEF FinishRoot, ShapeInv, TypeInv, TypeOK
  <2>4. running' = NoTask /\ pc' = "run"
    BY <1>4 DEF FinishRoot, Executing, BackToPass
  <2>5. QueueInv' /\ ChainInv' /\ HandleIsLeaf' /\ MessageInv'
    <3> HIDE DEF c
    <3> QED
      BY <1>0, <1>4, <2>1, <2>2, <2>3, <2>4, ChainChange DEF FinishRoot
  <2> QED
    BY <2>4, <2>5 DEF ThreadInv
<1>5. CASE AwaitOp(t)
  <2>1. running' = NoTask /\ pc' = "run"
    BY <1>5 DEF AwaitOp, Executing, BackToPass
  <2>2. /\ awaiting'[t] = [task |-> t, depth |-> Len(chain[t])]
        /\ \A u \in Task : u # t => awaiting'[u] = awaiting[u]
    BY <1>1, <1>5 DEF AwaitOp, Park, Leaf, ShapeInv, TypeInv, TypeOK
  <2>3. UNCHANGED <<queue, chain, valid, cq, handled>>
    BY <1>5 DEF AwaitOp
  <2>4. QueueInv' /\ ChainInv'
    BY <1>0, <2>1, <2>3 DEF ShapeInv, QueueInv, ChainInv
  <2>5. HandleIsLeaf'
    <3> SUFFICES ASSUME NEW i \in 1 .. Len(queue), valid[queue[i]]
                 PROVE  /\ Len(chain[queue[i]]) > 0
                        /\ awaiting'[queue[i]]
                             = [task |-> queue[i],
                                depth |-> Len(chain[queue[i]])]
      BY <2>3 DEF HandleIsLeaf, Leaf
    <3>1. CASE queue[i] = t
      BY <1>1, <2>2, <3>1
    <3>2. CASE queue[i] # t
      <4>1. queue[i] \in Task
        BY QueueTyped DEF ShapeInv, TypeInv
      <4> QED
        BY <1>0, <2>2, <3>2, <4>1 DEF ShapeInv, HandleIsLeaf, Leaf
    <3> QED
      BY <3>1, <3>2
  <2>6. MessageInv'
    BY <2>3, MessagesKept
  <2> QED
    BY <2>1, <2>4, <2>5, <2>6 DEF ThreadInv
<1>6. CASE NoSqe(t)
  BY <1>6, ListKept, MessagesKept DEF NoSqe, ShapeInv, ThreadInv
<1>10. CASE \E n \in 1 .. PassEntries : SubmitInPass(t, n)
  BY <1>10, ListKept, MessagesKept DEF SubmitInPass, ShapeInv, ThreadInv
<1>7. CASE Unwind(t)
  <2> DEFINE c == SubSeq(chain[t], 1, Len(chain[t]) - 1)
  <2>1. chain' = [chain EXCEPT ![t] = c]
    BY <1>7 DEF Unwind, Pop
  <2>2. /\ c \in Seq(Task \cup {NoTask})
        /\ \A j \in 1 .. Len(c) : c[j] = t
        /\ pc' # "terminated" => Len(c) > 0
        /\ pc' \in {"unwind", "terminated"}
    BY <1>1, <1>7 DEF Unwind
  <2>3. QueueInv' /\ ChainInv' /\ HandleIsLeaf' /\ MessageInv'
    <3> HIDE DEF c
    <3> QED
      BY <1>0, <1>7, <2>1, <2>2, ChainChange DEF Unwind
  <2>4. ThreadInv'
    BY <1>7, <2>2 DEF Unwind, ShapeInv, ThreadInv
  <2> QED
    BY <2>3, <2>4
<1>8. CASE Catch(t)
  BY <1>8, ListKept, MessagesKept DEF Catch, ShapeInv, ThreadInv
<1>9. ASSUME NEW u \in Task, CoSpawn(t, u)
      PROVE  QueueInv' /\ ChainInv' /\ HandleIsLeaf' /\ MessageInv'
               /\ ThreadInv'
  <2>1. /\ Emplace(u) /\ chain[u] = <<>> /\ valid[u] /\ u # t
        /\ chain[u] # <<NoTask>>
    BY <1>1, <1>9 DEF CoSpawn, Fresh
  <2>2. ~Queued(u)
    BY <1>0, <2>1, NotQueued
  <2>3. QueueInv' /\ ChainInv' /\ HandleIsLeaf'
    BY <1>0, <1>9, <2>1, <2>2, EmplaceShape DEF CoSpawn
  <2>4. \A v \in Task : chain[v] = <<NoTask>> => chain'[v] = chain[v]
    BY <2>1 DEF Emplace, ShapeInv, TypeInv, TypeOK
  <2>5. MessageInv'
    BY <1>9, <2>4, MessagesKept DEF CoSpawn
  <2>6. ThreadInv'
    <3>1. /\ Len(queue') = Len(queue) + 1
          /\ \A i \in 1 .. Len(queue) : queue'[i] = queue[i]
      BY <2>1 DEF Emplace, ShapeInv, TypeInv, TypeOK
    <3> QED
      BY <1>0, <1>1, <1>9, <3>1 DEF CoSpawn, ThreadInv, ShapeInv, TypeInv, TypeOK
  <2> QED
    BY <2>3, <2>5, <2>6
<1> QED
  BY <1>2, <1>3, <1>4, <1>5, <1>6, <1>7, <1>8, <1>9, <1>10 DEF CoroutineStep

\* The kernel and the rings of other threads only append to cq.
LEMMA ShapeOutsideStep ==
  ASSUME ShapeInv,
         KernelStep \/ \E u \in Task : RingTaskArrives(u)
  PROVE  QueueInv' /\ ChainInv' /\ HandleIsLeaf' /\ MessageInv' /\ ThreadInv'
<1> USE DEF taskVars, ringVars, threadVars
<1>0. /\ Len(cq) \in Nat /\ handled \in Nat /\ handled <= Len(cq)
      /\ \A i \in 1 .. Len(cq) : cq[i].task \in Task
  <2>1. TypeOK
    BY DEF ShapeInv, TypeInv
  <2>2. Len(cq) \in Nat /\ handled \in Nat /\ handled <= Len(cq)
    BY <2>1 DEF TypeOK
  <2> QED
    BY <2>1, <2>2, CqeTyped
<1>1. ASSUME NEW k \in kernel, NEW r \in Results, KernelComplete(k, r)
      PROVE  QueueInv' /\ ChainInv' /\ HandleIsLeaf' /\ MessageInv'
               /\ ThreadInv'
  <2>1. QueueInv' /\ ChainInv' /\ HandleIsLeaf' /\ ThreadInv'
    BY <1>1, ListKept DEF KernelComplete, ShapeInv, ThreadInv
  <2>2. /\ Len(cq') = Len(cq) + 1 /\ cq'[Len(cq) + 1].res = r
        /\ \A i \in 1 .. Len(cq) : cq'[i] = cq[i]
        /\ UNCHANGED <<handled, chain, valid>>
    BY <1>1 DEF KernelComplete, ShapeInv, TypeInv, TypeOK
  <2>3. r # "RingTask"
    BY BoundAssumption
  <2>4. \A i \in handled + 1 .. Len(cq') :
          ~IsOp(i)' => i \in handled + 1 .. Len(cq) /\ ~IsOp(i)
    BY <1>0, <2>2, <2>3 DEF IsOp
  <2>5. \A i \in handled + 1 .. Len(cq) : cq'[i] = cq[i]
    BY <1>0, <2>2
  <2>6. \A i \in handled + 1 .. Len(cq') :
          ~IsOp(i)' => chain[cq'[i].task] = <<NoTask>> /\ valid[cq'[i].task]
    BY <2>4, <2>5 DEF ShapeInv, MessageInv
  <2>7. \A i, j \in handled + 1 .. Len(cq') :
          ~IsOp(i)' /\ ~IsOp(j)' /\ cq'[i].task = cq'[j].task => i = j
    BY <2>4, <2>5 DEF ShapeInv, MessageInv
  <2>8. MessageInv'
    BY <2>2, <2>6, <2>7 DEF MessageInv
  <2> QED
    BY <2>1, <2>8
<1>2. ASSUME NEW u \in Task, RingTaskArrives(u)
      PROVE  QueueInv' /\ ChainInv' /\ HandleIsLeaf' /\ MessageInv'
               /\ ThreadInv'
  <2> DEFINE n == Len(cq) + 1
  <2>1. /\ chain[u] = <<>> /\ chain[u] # <<NoTask>> /\ valid[u]
        /\ pc # "terminated"
    BY <1>2 DEF RingTaskArrives, Fresh
  <2>2. /\ chain'[u] = <<NoTask>>
        /\ \A v \in Task : v # u => chain'[v] = chain[v]
        /\ UNCHANGED <<queue, awaiting, valid, handled, pc, pos, running,
                       completed>>
    BY <1>2 DEF RingTaskArrives, ShapeInv, TypeInv, TypeOK
  <2>3. /\ Len(cq') = n
        /\ cq'[n] = [task |-> u, id |-> 0, res |-> "RingTask"]
        /\ \A i \in 1 .. Len(cq) : cq'[i] = cq[i]
    BY <1>2 DEF RingTaskArrives, ShapeInv, TypeInv, TypeOK
  <2>4. \A i \in 1 .. Len(queue) : queue[i] \in Task /\ queue[i] # u
    BY <2>1, NotQueued, QueueTyped DEF Queued, ShapeInv, TypeInv
  <2>5. QueueInv' /\ ChainInv' /\ HandleIsLeaf'
    <3>1. QueueInv'
      BY <2>2 DEF ShapeInv, QueueInv
    <3>2. ChainInv'
      BY <2>2, <2>4 DEF ShapeInv, ChainInv
    <3>3. HandleIsLeaf'
      BY <2>2, <2>4 DEF ShapeInv, HandleIsLeaf, Leaf
    <3> QED
      BY <3>1, <3>2, <3>3
  <2>6. \A i \in handled + 1 .. Len(cq) :
          ~IsOp(i) => cq[i].task # u /\ cq[i].task \in Task
    <3> TAKE i \in handled + 1 .. Len(cq)
    <3>1. ~IsOp(i) => chain[cq[i].task] = <<NoTask>>
      BY DEF ShapeInv, MessageInv
    <3>2. i \in 1 .. Len(cq)
      BY <1>0
    <3> QED
      BY <1>0, <2>1, <3>1, <3>2
  <2>7. \A i \in handled + 1 .. n :
          ~IsOp(i)' => \/ i = n /\ cq'[i].task = u
                       \/ /\ i \in handled + 1 .. Len(cq) /\ ~IsOp(i)
                          /\ cq'[i].task = cq[i].task /\ cq[i].task # u
    BY <1>0, <2>3, <2>6 DEF IsOp
  <2>8. \A i \in handled + 1 .. n :
          ~IsOp(i)' => chain'[cq'[i].task] = <<NoTask>> /\ valid[cq'[i].task]
    <3> HIDE DEF n
    <3>1. \A i \in handled + 1 .. Len(cq) :
            ~IsOp(i) => chain[cq[i].task] = <<NoTask>> /\ valid[cq[i].task]
      BY DEF ShapeInv, MessageInv
    <3>2. \A i \in handled + 1 .. Len(cq) :
            ~IsOp(i) => chain'[cq[i].task] = <<NoTask>> /\ valid[cq[i].task]
      BY <2>2, <2>6, <3>1
    <3> QED
      BY <2>1, <2>2, <2>7, <3>2
  <2>9. \A i, j \in handled + 1 .. n :
          ~IsOp(i)' /\ ~IsOp(j)' /\ cq'[i].task = cq'[j].task => i = j
    BY <2>7 DEF ShapeInv, MessageInv
  <2>10. MessageInv'
    BY <2>2, <2>3, <2>8, <2>9 DEF MessageInv
  <2>11. ThreadInv'
    BY <2>2 DEF ShapeInv, ThreadInv
  <2> QED
    BY <2>5, <2>10, <2>11
<1> QED
  BY <1>1, <1>2 DEF KernelStep

LEMMA ShapeInit == Init => ShapeInv
<1> SUFFICES ASSUME Init PROVE ShapeInv
  OBVIOUS
<1>1. TypeInv
  BY TypeInit
<1>2. cq = <<>> /\ handled = 0 /\ running = NoTask /\ pc = "run"
  BY DEF Init
<1>3. /\ \A i \in 1 .. Len(queue) : i = 1 /\ queue[i] = Root
      /\ Len(queue) > 0 => chain[Root] = <<Root>>
      /\ awaiting[Root] = [task |-> Root, depth |-> 1]
  BY TaskAssumption DEF Init, Initial
<1>4. QueueInv
  BY <1>3 DEF QueueInv
<1>5. ChainInv /\ HandleIsLeaf
  <2> SUFFICES ASSUME NEW i \in 1 .. Len(queue)
               PROVE  /\ Len(chain[Root]) = 1 /\ chain[Root][1] = Root
                      /\ awaiting[Root] = Leaf(Root)
    BY <1>3 DEF ChainInv, HandleIsLeaf
  <2>1. chain[Root] = <<Root>>
    BY <1>3, QueueTyped, <1>1 DEF TypeInv
  <2>2. Len(chain[Root]) = 1 /\ chain[Root][1] = Root
    BY <2>1
  <2> QED
    BY <1>3, <2>2 DEF Leaf
<1>6. MessageInv /\ ThreadInv
  BY <1>2 DEF MessageInv, ThreadInv
<1> QED
  BY <1>1, <1>4, <1>5, <1>6 DEF ShapeInv

LEMMA ShapeStep == ShapeInv /\ [Next]_vars => ShapeInv'
<1> SUFFICES ASSUME ShapeInv, [Next]_vars PROVE ShapeInv'
  OBVIOUS
<1>1. CASE UNCHANGED vars
  <2>1. QueueInv' /\ ChainInv' /\ HandleIsLeaf'
    BY <1>1, ListKept DEF vars, taskVars, threadVars
  <2>2. MessageInv'
    BY <1>1, MessagesKept DEF vars, taskVars, ringVars
  <2>3. ThreadInv'
    BY <1>1 DEF vars, taskVars, threadVars, ShapeInv, ThreadInv
  <2> QED
    BY <2>1, <2>2, <2>3, TypeStep DEF ShapeInv
<1> QED
  BY <1>1, TypeStep, ShapeLoopStep, ShapeCoroutineStep, ShapeOutsideStep
  DEF Next, ThreadStep, ShapeInv

\* Every variable keeps the type that the code declares for it, and
\* process_batch never looks past the completions it has peeked
\* (uring.hpp:115-127).
THEOREM TypeInvariant == SafeSpec => []TypeOK
<1>1. ShapeInv => TypeOK
  BY DEF ShapeInv, TypeInv
<1> QED
  BY <1>1, ShapeInit, ShapeStep, PTL DEF SafeSpec

\* awaiting_handle_.resume() always continues the innermost frame of the chain
\* of the task it belongs to, whatever the depth and order of the calls and
\* awaits of all tasks (scheduled_task.hpp:38-51).
THEOREM ResumesLeaf == SafeSpec => []HandleIsLeaf
<1>1. ShapeInv => HandleIsLeaf
  BY DEF ShapeInv
<1> QED
  BY <1>1, ShapeInit, ShapeStep, PTL DEF SafeSpec

-----------------------------------------------------------------------------
(* The requests under way.                                                  *)

LEMMA IntervalInNat ==
  \A m, n \in Nat : \A i \in m + 1 .. n : i \in Nat /\ i \in 1 .. n
  OBVIOUS

LEMMA RequestTyped ==
  ASSUME TypeOK
  PROVE  /\ Len(sq) \in Nat /\ Len(cq) \in Nat /\ handled \in Nat
         /\ \A i \in 1 .. Len(sq) : sq[i] \in Request /\ sq[i].task \in Task
         /\ \A k \in kernel : k \in Request /\ k.task \in Task
         /\ \A i \in handled + 1 .. Len(cq) :
              i \in 1 .. Len(cq) /\ cq[i].task \in Task
<1>1. Len(sq) \in Nat /\ Len(cq) \in Nat /\ handled \in Nat
  BY DEF TypeOK
<1>2. \A i \in 1 .. Len(sq) : sq[i] \in Request
  BY DEF TypeOK
<1>3. \A k \in kernel : k \in Request
  BY DEF TypeOK
<1>4. \A i \in handled + 1 .. Len(cq) : i \in 1 .. Len(cq)
  BY <1>1
<1> QED
  BY <1>1, <1>2, <1>3, <1>4, CqeTyped DEF Request

\* The task of a request that is under way is pending.
LEMMA RequestFacts ==
  ASSUME TypeOK, RequestsOK
  PROVE  /\ \A i \in 1 .. Len(sq) : pending[sq[i].task]
         /\ \A k \in kernel : pending[k.task]
         /\ \A i \in handled + 1 .. Len(cq) : IsOp(i) => pending[cq[i].task]
  BY RequestTyped
  DEF RequestsOK, NoLostWakeup, Outstanding, InSq, InKernel, InCq

\* The steps that neither add, move nor remove a request.  Consume shifts the
\* completions that are left by d.
LEMMA RequestsKept ==
  ASSUME TypeOK, TypeOK', RequestsOK, NEW d \in 0 .. handled,
         \A i \in Nat :
           i \in handled' + 1 .. Len(cq') /\ IsOp(i)' <=>
             i + d \in handled + 1 .. Len(cq) /\ IsOp(i + d),
         \A i \in handled' + 1 .. Len(cq') : IsOp(i)' => cq'[i] = cq[i + d],
         UNCHANGED <<sq, kernel, pending>>,
         \A t \in Task : pending[t] => token'[t] = token[t]
  PROVE  RequestsOK'
<1>0. /\ handled \in Nat /\ handled' \in Nat /\ d \in Nat
      /\ Len(cq) \in Nat /\ Len(cq') \in Nat
  BY DEF TypeOK
<1>1. \A i \in handled' + 1 .. Len(cq') :
        IsOp(i)' => /\ i \in Nat /\ i + d \in handled + 1 .. Len(cq)
                    /\ IsOp(i + d) /\ cq'[i] = cq[i + d]
  <2> TAKE i \in handled' + 1 .. Len(cq')
  <2>1. i \in Nat
    BY <1>0, IntervalInNat, Zenon
  <2> QED
    BY <2>1
<1>2. \A i \in handled + 1 .. Len(cq) :
        IsOp(i) => /\ i - d \in handled' + 1 .. Len(cq')
                   /\ IsOp(i - d)' /\ cq'[i - d] = cq[i]
  <2> SUFFICES ASSUME NEW i \in handled + 1 .. Len(cq), IsOp(i)
               PROVE  /\ i - d \in handled' + 1 .. Len(cq')
                      /\ IsOp(i - d)' /\ cq'[i - d] = cq[i]
    OBVIOUS
  <2>1. i - d \in Nat /\ (i - d) + d = i
    BY <1>0
  <2>2. i - d \in handled' + 1 .. Len(cq') /\ IsOp(i - d)'
    BY <2>1
  <2> QED
    BY <2>1, <2>2
<1>3. \A t \in Task : /\ InSq(t)' = InSq(t)
                      /\ InKernel(t)' = InKernel(t)
                      /\ InCq(t)' <=> InCq(t)
  <2> TAKE t \in Task
  <2>1. InCq(t)' => InCq(t)
    BY <1>1 DEF InCq
  <2>2. InCq(t) => InCq(t)'
    BY <1>2 DEF InCq
  <2> QED
    BY <2>1, <2>2 DEF InSq, InKernel
<1>4. NoLostWakeup'
  BY <1>3 DEF RequestsOK, NoLostWakeup, Outstanding
<1>5. LiveTokens'
  <2>1. \A i \in 1 .. Len(sq) : LiveRequest(sq[i])'
    <3> TAKE i \in 1 .. Len(sq)
    <3>1. pending[sq[i].task] /\ sq[i].task \in Task
      BY RequestTyped, RequestFacts
    <3> QED
      BY <3>1 DEF RequestsOK, LiveTokens, LiveRequest
  <2>2. \A k \in kernel : LiveRequest(k)'
    <3> TAKE k \in kernel
    <3>1. pending[k.task] /\ k.task \in Task
      BY RequestTyped, RequestFacts
    <3> QED
      BY <3>1 DEF RequestsOK, LiveTokens, LiveRequest
  <2>3. \A i \in handled' + 1 .. Len(cq') :
          IsOp(i)' => LiveRequest([task |-> cq[i].task, id |-> cq[i].id])'
    <3> SUFFICES ASSUME NEW i \in handled' + 1 .. Len(cq'), IsOp(i)'
                 PROVE  LiveRequest([task |-> cq[i].task, id |-> cq[i].id])'
      OBVIOUS
    <3> DEFINE c == cq[i + d]
    <3>1. /\ i + d \in handled + 1 .. Len(cq) /\ IsOp(i + d)
          /\ cq'[i] = c
      BY <1>1
    <3>2. pending[c.task] /\ c.task \in Task
      BY <3>1, RequestTyped, RequestFacts
    <3>3. LiveRequest([task |-> c.task, id |-> c.id])
      BY <3>1 DEF RequestsOK, LiveTokens
    <3> QED
      BY <3>1, <3>2, <3>3 DEF LiveRequest
  <2> QED
    BY <2>1, <2>2, <2>3 DEF LiveTokens
<1>6. OneRequestPerTask'
  <2>1. \A i, j \in handled' + 1 .. Len(cq') :
          IsOp(i)' /\ IsOp(j)' /\ cq'[i].task = cq'[j].task => i = j
    <3> SUFFICES ASSUME NEW i \in handled' + 1 .. Len(cq'), IsOp(i)',
                        NEW j \in handled' + 1 .. Len(cq'), IsOp(j)',
                        cq'[i].task = cq'[j].task
                 PROVE  i = j
      OBVIOUS
    <3>1. i + d = j + d
      BY <1>1 DEF RequestsOK, OneRequestPerTask
    <3> QED
      BY <1>0, <3>1
  <2> QED
    BY <1>3, <2>1 DEF RequestsOK, OneRequestPerTask
<1> QED
  BY <1>4, <1>5, <1>6 DEF RequestsOK

\* AwaitOp: the running task, which has nothing outstanding, gets a request.
LEMMA RequestPrepared ==
  ASSUME TypeOK, TypeOK', RequestsOK, NEW t \in Task, ~pending[t],
         NEW n \in Nat \ {0}, sq' = Append(sq, [task |-> t, id |-> n]),
         pending' = [pending EXCEPT ![t] = TRUE],
         token' = [token EXCEPT ![t] =
                     [id |-> n, chain_task |-> t, cqe_res |-> "nosys"]],
         UNCHANGED <<kernel, cq, handled>>
  PROVE  RequestsOK'
<1>1. /\ Len(sq) \in Nat /\ Len(sq') = Len(sq) + 1
      /\ sq'[Len(sq) + 1] = [task |-> t, id |-> n]
      /\ \A i \in 1 .. Len(sq) : sq'[i] = sq[i]
  BY DEF TypeOK
<1>2. /\ pending'[t]
      /\ token'[t] = [id |-> n, chain_task |-> t, cqe_res |-> "nosys"]
      /\ \A u \in Task : u # t => /\ pending'[u] = pending[u]
                                  /\ token'[u] = token[u]
  BY DEF TypeOK
<1>3. ~InSq(t) /\ ~InKernel(t) /\ ~InCq(t)
  BY DEF RequestsOK, NoLostWakeup, Outstanding
<1>4. \A u \in Task : /\ InSq(u)' <=> InSq(u) \/ u = t
                      /\ InKernel(u)' = InKernel(u)
                      /\ InCq(u)' = InCq(u)
  <2> TAKE u \in Task
  <2>1. InSq(u)' <=> InSq(u) \/ u = t
    BY <1>1 DEF InSq
  <2> QED
    BY <2>1 DEF InKernel, InCq, IsOp
<1>5. NoLostWakeup'
  BY <1>2, <1>4 DEF RequestsOK, NoLostWakeup, Outstanding
<1>6. LiveTokens'
  <2>1. \A i \in 1 .. Len(sq) : sq[i].task # t /\ LiveRequest(sq[i])'
    BY <1>2, <1>3, RequestTyped
    DEF InSq, RequestsOK, LiveTokens, LiveRequest
  <2>2. LiveRequest([task |-> t, id |-> n])'
    BY <1>2 DEF LiveRequest
  <2>3. \A i \in 1 .. Len(sq') : LiveRequest(sq[i])'
    <3> TAKE i \in 1 .. Len(sq')
    <3>1. CASE i = Len(sq) + 1
      BY <1>1, <2>2, <3>1 DEF LiveRequest
    <3>2. CASE i \in 1 .. Len(sq)
      BY <1>1, <2>1, <3>2 DEF LiveRequest
    <3> QED
      BY <1>1, <3>1, <3>2
  <2>4. \A k \in kernel : LiveRequest(k)'
    BY <1>2, <1>3, RequestTyped
    DEF InKernel, RequestsOK, LiveTokens, LiveRequest
  <2>5. \A i \in handled + 1 .. Len(cq) :
          IsOp(i) => LiveRequest([task |-> cq[i].task, id |-> cq[i].id])'
    BY <1>2, <1>3, RequestTyped
    DEF InCq, RequestsOK, LiveTokens, LiveRequest
  <2> QED
    BY <2>3, <2>4, <2>5 DEF LiveTokens, IsOp
<1>7. OneRequestPerTask'
  <2>1. \A i, j \in 1 .. Len(sq') : sq'[i].task = sq'[j].task => i = j
    <3>1. \A i \in 1 .. Len(sq) : sq[i].task # t
      BY <1>3 DEF InSq
    <3>2. \A i \in 1 .. Len(sq') :
            \/ i = Len(sq) + 1 /\ sq'[i].task = t
            \/ i \in 1 .. Len(sq) /\ sq'[i] = sq[i] /\ sq[i].task # t
      BY <1>1, <3>1
    <3> QED
      BY <3>2 DEF RequestsOK, OneRequestPerTask
  <2>2. \A i, j \in handled' + 1 .. Len(cq') :
          IsOp(i)' /\ IsOp(j)' /\ cq'[i].task = cq'[j].task => i = j
    BY DEF IsOp, RequestsOK, OneRequestPerTask
  <2> QED
    BY <1>3, <1>4, <2>1, <2>2 DEF RequestsOK, OneRequestPerTask
<1> QED
  BY <1>5, <1>6, <1>7 DEF RequestsOK

\* Submit: what was prepared is the kernel's.
LEMMA RequestsSubmitted ==
  ASSUME TypeOK, TypeOK', RequestsOK,
         kernel' = kernel \cup {sq[i] : i \in 1 .. Len(sq)}, sq' = <<>>,
         UNCHANGED <<token, pending, cq, handled>>
  PROVE  RequestsOK'
<1>1. \A t \in Task : /\ ~InSq(t)'
                      /\ InKernel(t)' <=> InKernel(t) \/ InSq(t)
                      /\ InCq(t)' = InCq(t)
  <2> TAKE t \in Task
  <2>1. ~InSq(t)'
    BY DEF InSq
  <2>2. InKernel(t)' <=> InKernel(t) \/ InSq(t)
    BY DEF InKernel, InSq
  <2> QED
    BY <2>1, <2>2 DEF InCq, IsOp
<1>2. NoLostWakeup'
  BY <1>1 DEF RequestsOK, NoLostWakeup, Outstanding
<1>3. LiveTokens'
  <2>1. \A i \in 1 .. Len(sq') : LiveRequest(sq[i])'
    OBVIOUS
  <2>2. \A k \in kernel' : LiveRequest(k)'
    BY DEF RequestsOK, LiveTokens, LiveRequest
  <2>3. \A i \in handled + 1 .. Len(cq) :
          IsOp(i) => LiveRequest([task |-> cq[i].task, id |-> cq[i].id])'
    BY DEF RequestsOK, LiveTokens, LiveRequest
  <2> QED
    BY <2>1, <2>2, <2>3 DEF LiveTokens, IsOp
<1>4. OneRequestPerTask'
  <2>1. \A k, l \in kernel' : k.task = l.task => k = l
    <3> SUFFICES ASSUME NEW k \in kernel', NEW l \in kernel',
                        k.task = l.task
                 PROVE  k = l
      OBVIOUS
    <3>1. k.task \in Task
      BY RequestTyped
    <3>2. ~(InSq(k.task) /\ InKernel(k.task))
      BY <3>1 DEF RequestsOK, OneRequestPerTask
    <3> QED
      BY <3>2 DEF RequestsOK, OneRequestPerTask, InSq, InKernel
  <2>2. \A i, j \in handled' + 1 .. Len(cq') :
          IsOp(i)' /\ IsOp(j)' /\ cq'[i].task = cq'[j].task => i = j
    BY DEF IsOp, RequestsOK, OneRequestPerTask
  <2>3. \A i, j \in 1 .. Len(sq') : sq'[i].task = sq'[j].task => i = j
    OBVIOUS
  <2> QED
    BY <1>1, <2>1, <2>2, <2>3 DEF RequestsOK, OneRequestPerTask
<1> QED
  BY <1>2, <1>3, <1>4 DEF RequestsOK

LEMMA Appended ==
  ASSUME NEW S, NEW q \in Seq(S), NEW e
  PROVE  /\ Len(Append(q, e)) = Len(q) + 1 /\ Append(q, e)[Len(q) + 1] = e
         /\ \A i \in 1 .. Len(q) : Append(q, e)[i] = q[i]
  OBVIOUS

\* KernelComplete: one request becomes one completion.
LEMMA RequestCompleted ==
  ASSUME TypeOK, TypeOK', RequestsOK, NEW k \in kernel, NEW r \in Results,
         kernel' = kernel \ {k},
         cq' = Append(cq, [task |-> k.task, id |-> k.id, res |-> r]),
         UNCHANGED <<token, pending, sq, handled>>
  PROVE  RequestsOK'
<1>n. PICK n \in Nat : n = Len(cq) + 1
  BY RequestTyped
<1>0. r # "RingTask" /\ k.task \in Task
  BY BoundAssumption, RequestTyped
<1>1. /\ Len(cq) \in Nat /\ handled \in Nat /\ handled <= Len(cq)
      /\ Len(cq') = n
      /\ cq'[n] = [task |-> k.task, id |-> k.id, res |-> r]
      /\ \A i \in 1 .. Len(cq) : cq'[i] = cq[i]
  <2>1. PICK c : c = [task |-> k.task, id |-> k.id, res |-> r]
    OBVIOUS
  <2>2. cq \in Seq(Cqe) /\ cq' = Append(cq, c)
    BY <2>1 DEF TypeOK
  <2>3. Len(cq) \in Nat /\ handled \in Nat /\ handled <= Len(cq)
    BY DEF TypeOK
  <2>4. /\ Len(cq') = n /\ cq'[n] = c
        /\ \A i \in 1 .. Len(cq) : cq'[i] = cq[i]
    BY <1>n, <2>2, <2>3, Appended
  <2> QED
    BY <2>1, <2>3, <2>4
<1>2. n \in handled' + 1 .. Len(cq') /\ IsOp(n)' /\ cq'[n].task = k.task
  <2>1. n \in handled' + 1 .. Len(cq')
    BY <1>1
  <2>2. cq'[n].res = r /\ cq'[n].task = k.task
    BY <1>1
  <2> QED
    BY <1>0, <2>1, <2>2 DEF IsOp
<1>3. \A i \in handled + 1 .. Len(cq) :
        /\ i \in handled' + 1 .. Len(cq') /\ cq'[i] = cq[i]
        /\ IsOp(i)' = IsOp(i)
  BY <1>1 DEF IsOp
<1>4. \A i \in handled' + 1 .. Len(cq') :
        i # n => i \in handled + 1 .. Len(cq)
  BY <1>n, <1>1
<1>5. /\ ~InSq(k.task) /\ ~InCq(k.task)
      /\ \A l \in kernel : l.task = k.task => l = k
  BY <1>0 DEF RequestsOK, OneRequestPerTask, InKernel
<1>6. \A t \in Task : /\ InSq(t)' = InSq(t)
                      /\ InKernel(t)' <=> InKernel(t) /\ t # k.task
                      /\ InCq(t)' <=> InCq(t) \/ t = k.task
  <2> TAKE t \in Task
  <2>1. InKernel(t)' <=> InKernel(t) /\ t # k.task
    BY <1>5 DEF InKernel
  <2>2. InCq(t)' => InCq(t) \/ t = k.task
    BY <1>2, <1>3, <1>4 DEF InCq
  <2>3. InCq(t) \/ t = k.task => InCq(t)'
    <3>1. InCq(t) => InCq(t)'
      BY <1>3 DEF InCq
    <3>2. InCq(k.task)'
      BY <1>2 DEF InCq
    <3> QED
      BY <3>1, <3>2
  <2> QED
    BY <2>1, <2>2, <2>3 DEF InSq
<1>7. NoLostWakeup'
  <2>1. InKernel(k.task)
    BY DEF InKernel
  <2> QED
    BY <1>6, <2>1 DEF RequestsOK, NoLostWakeup, Outstanding
<1>8. LiveTokens'
  <2>1. \A i \in handled' + 1 .. Len(cq') :
          IsOp(i)' =>
            LiveRequest([task |-> cq[i].task, id |-> cq[i].id])'
    <3> SUFFICES ASSUME NEW i \in handled' + 1 .. Len(cq'), IsOp(i)'
                 PROVE  LiveRequest([task |-> cq[i].task, id |-> cq[i].id])'
      OBVIOUS
    <3>1. CASE i = n
      BY <1>1, <3>1 DEF RequestsOK, LiveTokens, LiveRequest
    <3>2. CASE i # n
      BY <1>3, <1>4, <3>2 DEF RequestsOK, LiveTokens, LiveRequest
    <3> QED
      BY <3>1, <3>2
  <2>2. \A i \in 1 .. Len(sq') : LiveRequest(sq[i])'
    BY DEF RequestsOK, LiveTokens, LiveRequest
  <2>3. \A l \in kernel' : LiveRequest(l)'
    BY DEF RequestsOK, LiveTokens, LiveRequest
  <2> QED
    BY <2>1, <2>2, <2>3 DEF LiveTokens
<1>9. OneRequestPerTask'
  <2>1. \A i \in handled' + 1 .. Len(cq') :
          IsOp(i)' => \/ i = n /\ cq'[i].task = k.task
                      \/ /\ i \in handled + 1 .. Len(cq) /\ IsOp(i)
                         /\ cq'[i] = cq[i] /\ cq[i].task # k.task
    BY <1>2, <1>3, <1>4, <1>5 DEF InCq
  <2>2. \A i, j \in handled' + 1 .. Len(cq') :
          IsOp(i)' /\ IsOp(j)' /\ cq'[i].task = cq'[j].task => i = j
    <3> SUFFICES ASSUME NEW i \in handled' + 1 .. Len(cq'), IsOp(i)',
                        NEW j \in handled' + 1 .. Len(cq'), IsOp(j)',
                        cq'[i].task = cq'[j].task
                 PROVE  i = j
      OBVIOUS
    <3>1. CASE i = n \/ j = n
      <4>1. /\ i # n => cq'[i].task # k.task
            /\ j # n => cq'[j].task # k.task
        BY <2>1
      <4>2. cq'[i].task = k.task
        BY <1>2, <3>1
      <4> QED
        BY <4>1, <4>2
    <3>2. CASE i # n /\ j # n
      BY <2>1, <3>2 DEF RequestsOK, OneRequestPerTask
    <3> QED
      BY <3>1, <3>2
  <2>3. /\ \A i, j \in 1 .. Len(sq') : sq'[i].task = sq'[j].task => i = j
        /\ \A l, m \in kernel' : l.task = m.task => l = m
    BY DEF RequestsOK, OneRequestPerTask
  <2> QED
    BY <1>5, <1>6, <2>2, <2>3 DEF RequestsOK, OneRequestPerTask
<1> QED
  BY <1>7, <1>8, <1>9 DEF RequestsOK

\* HandleCompletion: the request is over, and so is the wait of its task.
LEMMA RequestHandled ==
  ASSUME TypeOK, TypeOK', RequestsOK, handled + 1 <= Len(cq),
         IsOp(handled + 1), handled' = handled + 1,
         pending' = [pending EXCEPT ![cq[handled + 1].task] = FALSE],
         \A t \in Task : t # cq[handled + 1].task => token'[t] = token[t],
         UNCHANGED <<sq, kernel, cq>>
  PROVE  RequestsOK'
<1> DEFINE n == handled + 1
           u == cq[n].task
<1>1. /\ handled \in Nat /\ Len(cq) \in Nat
      /\ n \in handled + 1 .. Len(cq) /\ u \in Task
  BY RequestTyped
<1>2. /\ InCq(u) /\ ~InSq(u) /\ ~InKernel(u)
      /\ \A i \in n + 1 .. Len(cq) : IsOp(i) => cq[i].task # u
  <2>1. InCq(u)
    BY <1>1 DEF InCq
  <2>2. \A i \in n + 1 .. Len(cq) :
          i \in handled + 1 .. Len(cq) /\ i # n
    BY <1>1
  <2>3. \A i \in n + 1 .. Len(cq) : IsOp(i) => cq[i].task # u
    BY <1>1, <2>2 DEF RequestsOK, OneRequestPerTask
  <2> QED
    BY <1>1, <2>1, <2>3 DEF RequestsOK, OneRequestPerTask
<1>3. \A t \in Task : /\ InSq(t)' = InSq(t) /\ InKernel(t)' = InKernel(t)
                      /\ InCq(t)' <=> InCq(t) /\ t # u
  <2> TAKE t \in Task
  <2>1. InCq(t)' <=> InCq(t) /\ t # u
    <3>1. \A i \in handled + 1 .. Len(cq) : i = n \/ i \in n + 1 .. Len(cq)
      BY <1>1
    <3>2. \A i \in n + 1 .. Len(cq) : i \in handled + 1 .. Len(cq)
      BY <1>1
    <3> QED
      BY <1>2, <3>1, <3>2 DEF InCq, IsOp
  <2> QED
    BY <2>1 DEF InSq, InKernel
<1>4. ~pending'[u] /\ \A t \in Task : t # u => pending'[t] = pending[t]
  BY <1>1 DEF TypeOK
<1>5. NoLostWakeup'
  BY <1>1, <1>2, <1>3, <1>4 DEF RequestsOK, NoLostWakeup, Outstanding
<1>6. LiveTokens'
  <2>1. \A i \in 1 .. Len(sq) : LiveRequest(sq[i])'
    BY <1>2, RequestTyped DEF InSq, RequestsOK, LiveTokens, LiveRequest
  <2>2. \A k \in kernel : LiveRequest(k)'
    BY <1>2, RequestTyped DEF InKernel, RequestsOK, LiveTokens, LiveRequest
  <2>3. \A i \in n + 1 .. Len(cq) :
          IsOp(i) => LiveRequest([task |-> cq[i].task, id |-> cq[i].id])'
    <3> SUFFICES ASSUME NEW i \in n + 1 .. Len(cq), IsOp(i)
                 PROVE  LiveRequest([task |-> cq[i].task, id |-> cq[i].id])'
      OBVIOUS
    <3>1. i \in handled + 1 .. Len(cq) /\ cq[i].task # u
      BY <1>1, <1>2
    <3> QED
      BY <3>1, RequestTyped DEF RequestsOK, LiveTokens, LiveRequest
  <2> QED
    BY <2>1, <2>2, <2>3 DEF LiveTokens, IsOp
<1>7. OneRequestPerTask'
  <2>1. \A i \in n + 1 .. Len(cq) : i \in handled + 1 .. Len(cq)
    BY <1>1
  <2>2. \A i, j \in n + 1 .. Len(cq) :
          IsOp(i)' /\ IsOp(j)' /\ cq[i].task = cq[j].task => i = j
    BY <2>1 DEF IsOp, RequestsOK, OneRequestPerTask
  <2> QED
    BY <1>3, <2>2 DEF RequestsOK, OneRequestPerTask
<1> QED
  BY <1>5, <1>6, <1>7 DEF RequestsOK

LEMMA RequestsUntouched ==
  ASSUME TypeOK, TypeOK', RequestsOK,
         UNCHANGED <<sq, kernel, cq, handled, pending>>,
         \A t \in Task : pending[t] => token'[t] = token[t]
  PROVE  RequestsOK'
<1>1. \A i \in Nat : i + 0 = i /\ IsOp(i)' = IsOp(i)
  BY DEF IsOp
<1>2. 0 \in 0 .. handled /\ handled \in Nat /\ Len(cq) \in Nat
  BY DEF TypeOK
<1>3. \A i \in Nat :
        i \in handled' + 1 .. Len(cq') /\ IsOp(i)' <=>
          i + 0 \in handled + 1 .. Len(cq) /\ IsOp(i + 0)
  BY <1>1
<1>4. \A i \in handled' + 1 .. Len(cq') : IsOp(i)' => cq'[i] = cq[i + 0]
  <2>1. \A i \in handled' + 1 .. Len(cq') : i \in Nat
    BY <1>2, IntervalInNat
  <2> QED
    BY <1>1, <2>1
<1> QED
  BY <1>2, <1>3, <1>4, RequestsKept

\* The two steps that touch messages only.
LEMMA RequestsAmongMessages ==
  ASSUME TypeOK, TypeOK', RequestsOK, UNCHANGED <<sq, kernel, token, pending>>,
         \/ /\ handled + 1 <= Len(cq) /\ ~IsOp(handled + 1)
            /\ handled' = handled + 1 /\ cq' = cq
         \/ /\ Len(cq') = Len(cq) + 1 /\ handled' = handled
            /\ cq'[Len(cq) + 1].res = "RingTask"
            /\ \A i \in 1 .. Len(cq) : cq'[i] = cq[i]
  PROVE  RequestsOK'
<1>1. /\ handled \in Nat /\ Len(cq) \in Nat /\ handled <= Len(cq)
      /\ 0 \in 0 .. handled /\ \A i \in Nat : i + 0 = i
  BY DEF TypeOK
<1>2. CASE /\ handled + 1 <= Len(cq) /\ ~IsOp(handled + 1)
           /\ handled' = handled + 1 /\ cq' = cq
  <2>1. \A i \in Nat : IsOp(i)' = IsOp(i)
    BY <1>2 DEF IsOp
  <2>2. \A i \in Nat :
          i \in handled' + 1 .. Len(cq') /\ IsOp(i)' <=>
            i + 0 \in handled + 1 .. Len(cq) /\ IsOp(i + 0)
    BY <1>1, <1>2, <2>1
  <2>3. \A i \in handled' + 1 .. Len(cq') : IsOp(i)' => cq'[i] = cq[i + 0]
    BY <1>1, <1>2
  <2> QED
    BY <1>1, <2>2, <2>3, RequestsKept
<1>3. CASE /\ Len(cq') = Len(cq) + 1 /\ handled' = handled
           /\ cq'[Len(cq) + 1].res = "RingTask"
           /\ \A i \in 1 .. Len(cq) : cq'[i] = cq[i]
  <2>1. \A i \in 1 .. Len(cq) : IsOp(i)' = IsOp(i)
    BY <1>3 DEF IsOp
  <2>2. \A i \in handled' + 1 .. Len(cq') :
          IsOp(i)' => i \in handled + 1 .. Len(cq) /\ i \in 1 .. Len(cq)
    BY <1>1, <1>3 DEF IsOp
  <2>3. \A i \in Nat :
          i \in handled' + 1 .. Len(cq') /\ IsOp(i)' <=>
            i + 0 \in handled + 1 .. Len(cq) /\ IsOp(i + 0)
    BY <1>1, <1>3, <2>1, <2>2
  <2>4. \A i \in handled' + 1 .. Len(cq') : IsOp(i)' => cq'[i] = cq[i + 0]
    BY <1>1, <1>3, <2>2
  <2> QED
    BY <1>1, <2>3, <2>4, RequestsKept
<1> QED
  BY <1>2, <1>3

\* No step loses, repeats or misdirects a completion.
LEMMA RequestsStep ==
  ASSUME ShapeInv, ShapeInv', RequestInv, Next
  PROVE  RequestsOK'
<1> USE DEF taskVars, ringVars, threadVars
<1>0. TypeOK /\ TypeOK' /\ RequestsOK
  BY DEF ShapeInv, TypeInv, RequestInv
<1>1. CASE Resume
  <2> DEFINE t == queue[pos]
  <2>1. t \in Task /\ ~pending[t]
    BY <1>1, ResumeTarget
  <2>2. \A u \in Task : pending[u] => token'[u] = token[u]
    BY <1>0, <1>1, <2>1 DEF Resume, TypeOK
  <2> QED
    BY <1>0, <1>1, <2>2, RequestsUntouched DEF Resume
<1>2. CASE SkipNode \/ EndPass \/ WaitArrival \/ WaitTimeout
  BY <1>0, <1>2, RequestsUntouched
  DEF SkipNode, EndPass, WaitArrival, WaitTimeout
<1>3. CASE Submit
  BY <1>0, <1>3, RequestsSubmitted DEF Submit, SqAfterSubmit
<1>4. CASE HandleCompletion
  <2> DEFINE u == cq[handled + 1].task
  <2>1. /\ handled + 1 \in handled + 1 .. Len(cq) /\ IsOp(handled + 1)
        /\ handled + 1 <= Len(cq) /\ handled' = handled + 1
    BY <1>0, <1>4 DEF HandleCompletion, TypeOK, IsOp
  <2>2. token[u].chain_task = u
    <3>1. LiveRequest([task |-> u, id |-> cq[handled + 1].id])
      BY <1>0, <2>1 DEF RequestsOK, LiveTokens
    <3> QED
      BY <3>1 DEF LiveRequest
  <2>3. pending' = [pending EXCEPT ![u] = FALSE]
    BY <1>4, <2>2 DEF HandleCompletion, Unpark
  <2>4. \A t \in Task : t # u => token'[t] = token[t]
    BY <1>0, <1>4 DEF HandleCompletion, StoreResult, TypeOK
  <2> QED
    BY <1>0, <1>4, <2>1, <2>3, <2>4, RequestHandled DEF HandleCompletion
<1>5. CASE HandleRingTask
  <2>1. /\ ~IsOp(handled + 1) /\ handled + 1 <= Len(cq)
        /\ handled' = handled + 1
    BY <1>0, <1>5 DEF HandleRingTask, IsOp, TypeOK
  <2> QED
    BY <1>0, <1>5, <2>1, RequestsAmongMessages DEF HandleRingTask
<1>6. CASE Consume
  <2> DEFINE d == completed
  <2>1. /\ d \in Nat /\ handled = d /\ handled' = 0 /\ d \in 0 .. handled
        /\ Len(cq) \in Nat /\ Len(cq') = Len(cq) - d
        /\ \A i \in 1 .. Len(cq') : cq'[i] = cq[i + d]
    <3>1. TypeOK
      BY <1>0
    <3> QED
      BY <1>6, <3>1 DEF Consume, AfterBatch, TypeOK
  <2>2. \A i \in 1 .. Len(cq') : IsOp(i)' = IsOp(i + d)
    BY <2>1 DEF IsOp
  <2>3. \A i \in Nat : i \in 1 .. Len(cq') <=> i + d \in d + 1 .. Len(cq)
    BY <2>1
  <2>4. \A i \in Nat :
          i \in handled' + 1 .. Len(cq') /\ IsOp(i)' <=>
            i + d \in handled + 1 .. Len(cq) /\ IsOp(i + d)
    BY <2>1, <2>2, <2>3
  <2>5. \A i \in handled' + 1 .. Len(cq') : IsOp(i)' => cq'[i] = cq[i + d]
    BY <2>1
  <2>6. UNCHANGED <<sq, kernel, pending, token>>
    BY <1>6 DEF Consume
  <2> QED
    BY <1>0, <2>1, <2>4, <2>5, <2>6, RequestsKept
<1>7. ASSUME NEW t \in Task, CoroutineStep(t) PROVE RequestsOK'
  <2>1. CASE AwaitOp(t)
    <3>1. ThisChainTask(t) = t /\ ~pending[t]
      BY <2>1, RunningChain DEF AwaitOp, Executing, RequestInv, WaiterInv
    <3>2. steps'[t] \in Nat \ {0}
      BY <1>0, <2>1 DEF AwaitOp, Spend, TypeOK
    <3> QED
      BY <1>0, <2>1, <3>1, <3>2, RequestPrepared DEF AwaitOp, MarkPending
  <2>2. CASE \/ CallTask(t) \/ ReturnToCaller(t) \/ FinishRoot(t)
             \/ NoSqe(t) \/ Unwind(t) \/ Catch(t)
             \/ \E u \in Task : CoSpawn(t, u)
    <3>1. UNCHANGED <<sq, kernel, cq, handled, pending, token>>
      BY <2>2 DEF CallTask, ReturnToCaller, FinishRoot, NoSqe, Unwind,
                  Catch, CoSpawn
    <3> QED
      BY <1>0, <3>1, RequestsUntouched
  <2>3. CASE \E n \in 1 .. PassEntries : SubmitInPass(t, n)
    BY <1>0, <2>3, RequestsSubmitted DEF SubmitInPass, SqAfterSubmit
  <2> QED
    BY <1>7, <2>1, <2>2, <2>3 DEF CoroutineStep
<1>8. ASSUME NEW k \in kernel, NEW r \in Results, KernelComplete(k, r)
      PROVE  RequestsOK'
  BY <1>0, <1>8, RequestCompleted DEF KernelComplete
<1>9. ASSUME NEW u \in Task, RingTaskArrives(u) PROVE RequestsOK'
  <2>1. /\ Len(cq') = Len(cq) + 1 /\ handled' = handled
        /\ cq'[Len(cq) + 1].res = "RingTask"
        /\ \A i \in 1 .. Len(cq) : cq'[i] = cq[i]
    BY <1>0, <1>9 DEF RingTaskArrives, TypeOK
  <2>2. UNCHANGED <<sq, kernel, token, pending>>
    BY <1>9 DEF RingTaskArrives
  <2> QED
    BY <1>0, <2>1, <2>2, RequestsAmongMessages
<1> QED
  BY <1>1, <1>2, <1>3, <1>4, <1>5, <1>6, <1>7, <1>8, <1>9
  DEF Next, ThreadStep, LoopStep, KernelStep

-----------------------------------------------------------------------------
(* Who waits, and what is left to run.                                      *)

LEMMA EmplaceGrows ==
  ASSUME TypeOK, NEW u \in Task, Emplace(u)
  PROVE  /\ Len(queue) \in Nat /\ Len(queue') = Len(queue) + 1
         /\ \A i \in 1 .. Len(queue) : queue'[i] = queue[i]
         /\ \A t \in Task : Queued(t) => Queued(t)'
<1>1. /\ Len(queue) \in Nat /\ Len(queue') = Len(queue) + 1
      /\ \A i \in 1 .. Len(queue) : queue'[i] = queue[i]
  BY DEF TypeOK, Emplace
<1> QED
  BY <1>1 DEF Queued

LEMMA WaiterStep ==
  ASSUME ShapeInv, RequestInv, Next
  PROVE  WaiterInv'
<1> USE DEF taskVars, ringVars, threadVars
<1>0. TypeOK /\ WaiterInv
  BY DEF ShapeInv, TypeInv, RequestInv
<1>1. CASE Resume
  <2> DEFINE t == queue[pos]
  <2>1. /\ t \in Task /\ ~pending[t] /\ pos \in 1 .. Len(queue) /\ valid[t]
        /\ running' = t
    BY <1>1, ResumeTarget
  <2> QED
    BY <1>0, <1>1, <2>1 DEF Resume, WaiterInv, Queued
<1>2. CASE SkipNode \/ EndPass \/ Submit \/ WaitArrival \/ WaitTimeout
           \/ Consume \/ KernelStep \/ \E u \in Task : RingTaskArrives(u)
  <2>1. UNCHANGED <<queue, valid, pending, running>>
    BY <1>2 DEF SkipNode, EndPass, Submit, WaitArrival, WaitTimeout, Consume,
                KernelStep, KernelComplete, RingTaskArrives
  <2> QED
    BY <1>0, <2>1 DEF WaiterInv, Queued
<1>3. CASE HandleCompletion
  <2>1. \A t \in Task : pending'[t] => pending[t]
    BY <1>0, <1>3 DEF HandleCompletion, Unpark, TypeOK
  <2> QED
    BY <1>0, <1>3, <2>1 DEF HandleCompletion, WaiterInv, Queued
<1>4. CASE HandleRingTask
  <2>1. cq[handled + 1].task \in Task
    BY <1>0, <1>4, CqeTyped DEF HandleRingTask, TypeOK
  <2>2. \A t \in Task : Queued(t) => Queued(t)'
    BY <1>0, <1>4, <2>1, EmplaceGrows DEF HandleRingTask
  <2> QED
    BY <1>0, <1>4, <2>2 DEF HandleRingTask, WaiterInv
<1>5. ASSUME NEW t \in Task, CoroutineStep(t) PROVE WaiterInv'
  <2>1. CASE AwaitOp(t)
    <3>1. /\ pos \in 1 .. Len(queue) /\ queue[pos] = t /\ valid[t]
          /\ ThisChainTask(t) = t
      BY <2>1, RunningChain DEF AwaitOp, Executing
    <3>2. running' = NoTask /\ UNCHANGED <<queue, valid>>
      BY <2>1 DEF AwaitOp, BackToPass
    <3>3. \A u \in Task : u # t => pending'[u] = pending[u]
      BY <1>0, <2>1, <3>1 DEF AwaitOp, MarkPending, TypeOK
    <3> QED
      BY <1>0, <3>1, <3>2, <3>3, TaskAssumption DEF WaiterInv, Queued
  <2>2. CASE FinishRoot(t)
    <3>1. ~pending[t]
      BY <1>0, <2>2 DEF FinishRoot, Executing, WaiterInv
    <3> QED
      BY <1>0, <2>2, <3>1, TaskAssumption
      DEF FinishRoot, BackToPass, WaiterInv, Queued, TypeOK
  <2>3. CASE CallTask(t) \/ ReturnToCaller(t) \/ NoSqe(t)
             \/ (\E n \in 1 .. PassEntries : SubmitInPass(t, n))
             \/ Unwind(t) \/ Catch(t)
    <3>1. UNCHANGED <<queue, valid, pending, running>>
      BY <2>3 DEF CallTask, ReturnToCaller, NoSqe, SubmitInPass,
                  Unwind, Catch
    <3> QED
      BY <1>0, <3>1 DEF WaiterInv, Queued
  <2>4. ASSUME NEW u \in Task, CoSpawn(t, u) PROVE WaiterInv'
    <3>1. \A v \in Task : Queued(v) => Queued(v)'
      BY <1>0, <2>4, EmplaceGrows DEF CoSpawn
    <3> QED
      BY <1>0, <2>4, <3>1 DEF CoSpawn, WaiterInv
  <2> QED
    BY <1>5, <2>1, <2>2, <2>3, <2>4 DEF CoroutineStep
<1> QED
  BY <1>1, <1>2, <1>3, <1>4, <1>5 DEF Next, ThreadStep, LoopStep

LEMMA TokenStep ==
  ASSUME ShapeInv, RequestInv, Next
  PROVE  TokenInv'
<1> USE DEF taskVars, ringVars, threadVars
<1>0. TypeOK /\ TokenInv /\ RequestsOK
  BY DEF ShapeInv, TypeInv, RequestInv
<1>1. CASE Resume
  <2> DEFINE t == queue[pos]
  <2>1. t \in Task /\ running' = t
    BY <1>1, ResumeTarget
  <2>2. /\ token'[t].id = 0 /\ UNCHANGED pending
        /\ \A u \in Task : u # t => token'[u] = token[u]
    BY <1>0, <1>1, <2>1 DEF Resume, NoToken, TypeOK
  <2> QED
    BY <1>0, <2>1, <2>2 DEF TokenInv
<1>2. CASE SkipNode \/ EndPass \/ Submit \/ WaitArrival \/ WaitTimeout
           \/ HandleRingTask \/ Consume \/ KernelStep
           \/ \E u \in Task : RingTaskArrives(u)
  <2>1. UNCHANGED <<token, pending, running>>
    BY <1>2 DEF SkipNode, EndPass, Submit, WaitArrival, WaitTimeout, Consume,
                HandleRingTask, KernelStep, KernelComplete, RingTaskArrives
  <2> QED
    BY <1>0, <2>1 DEF TokenInv
<1>3. CASE HandleCompletion
  <2> DEFINE n == handled + 1
             u == cq[n].task
  <2>1. n \in 1 .. Len(cq) /\ n \in handled + 1 .. Len(cq) /\ IsOp(n)
        /\ pc = "handle"
    BY <1>0, <1>3 DEF HandleCompletion, TypeOK, IsOp
  <2>2. u \in Task /\ cq[n].res \in Results
    BY <1>0, <2>1, CqeTyped DEF IsOp
  <2>3. LiveRequest([task |-> u, id |-> cq[n].id])
    BY <1>0, <2>1 DEF RequestsOK, LiveTokens
  <2>4. token[u].chain_task = u
    BY <2>3 DEF LiveRequest
  <2>5. /\ \A t \in Task : t # u => /\ token'[t] = token[t]
                                    /\ pending'[t] = pending[t]
        /\ token'[u].cqe_res = cq[n].res
    BY <1>0, <1>3, <2>2, <2>4
    DEF HandleCompletion, StoreResult, Unpark, TypeOK, Token
  <2>6. running' = NoTask
    BY <1>3, <2>1 DEF HandleCompletion, ShapeInv, ThreadInv
  <2> QED
    BY <1>0, <2>2, <2>5, <2>6 DEF TokenInv
<1>4. ASSUME NEW t \in Task, CoroutineStep(t) PROVE TokenInv'
  <2>1. CASE AwaitOp(t)
    <3>1. ThisChainTask(t) = t
      BY <2>1, RunningChain DEF AwaitOp, Executing
    <3>2. /\ pending'[t] /\ running' = NoTask
          /\ \A u \in Task : u # t => /\ pending'[u] = pending[u]
                                      /\ token'[u] = token[u]
      BY <1>0, <2>1, <3>1 DEF AwaitOp, MarkPending, BackToPass, TypeOK
    <3> QED
      BY <1>0, <3>2 DEF TokenInv
  <2>2. CASE FinishRoot(t)
    BY <1>0, <2>2 DEF FinishRoot, BackToPass, TokenInv
  <2>3. CASE CallTask(t) \/ ReturnToCaller(t) \/ NoSqe(t)
             \/ (\E n \in 1 .. PassEntries : SubmitInPass(t, n))
             \/ Unwind(t) \/ Catch(t) \/ \E u \in Task : CoSpawn(t, u)
    <3>1. UNCHANGED <<token, pending, running>>
      BY <2>3 DEF CallTask, ReturnToCaller, NoSqe, SubmitInPass,
                  Unwind, Catch, CoSpawn
    <3> QED
      BY <1>0, <3>1 DEF TokenInv
  <2> QED
    BY <1>4, <2>1, <2>2, <2>3 DEF CoroutineStep
<1> QED
  BY <1>1, <1>2, <1>3, <1>4 DEF Next, ThreadStep, LoopStep

LEMMA PassStep ==
  ASSUME ShapeInv, RequestInv, Next
  PROVE  PassInv'
<1> USE DEF taskVars, ringVars, threadVars
<1>0. TypeOK /\ PassInv /\ Len(queue) \in Nat
  BY DEF ShapeInv, TypeInv, TypeOK, RequestInv
<1>1. CASE WaitTimeout \/ Consume
  <2>1. pos' = 1 /\ UNCHANGED queue
    BY <1>1 DEF WaitTimeout, Consume
  <2> QED
    BY <1>0, <2>1 DEF PassInv
<1>2. CASE EndPass \/ Submit \/ WaitArrival \/ HandleCompletion
           \/ HandleRingTask
  <2>1. pc' \notin {"run", "unwind"}
    BY <1>2 DEF EndPass, Submit, WaitArrival, HandleCompletion,
                HandleRingTask
  <2> QED
    BY <2>1 DEF PassInv
<1>3. CASE SkipNode
  <2>1. \A i \in 1 .. Len(queue) : i < pos + 1 => i < pos \/ i = pos
    BY <1>0 DEF TypeOK
  <2> QED
    BY <1>0, <1>3, <2>1 DEF SkipNode, AtNode, PassInv, Runnable
<1>4. CASE Resume \/ KernelStep \/ \E u \in Task : RingTaskArrives(u)
  <2>1. /\ UNCHANGED <<queue, valid, pending, pos>>
        /\ pc' \in {"run", "unwind"} => pc \in {"run", "unwind"}
    BY <1>4 DEF Resume, AtNode, KernelStep, KernelComplete, RingTaskArrives
  <2> QED
    BY <1>0, <2>1 DEF PassInv, Runnable
<1>5. ASSUME NEW t \in Task, CoroutineStep(t) PROVE PassInv'
  <2>1. CASE AwaitOp(t) \/ FinishRoot(t)
    <3>1. /\ pos \in 1 .. Len(queue) /\ queue[pos] = t
          /\ ThisChainTask(t) = t /\ pc = "run"
      BY <2>1, RunningChain DEF AwaitOp, FinishRoot, Executing
    <3>2. /\ UNCHANGED queue /\ pos' = pos + 1
          /\ ~valid'[t] \/ pending'[t]
          /\ \A u \in Task : u # t => /\ valid'[u] = valid[u]
                                      /\ pending'[u] = pending[u]
      BY <1>0, <2>1, <3>1
      DEF AwaitOp, MarkPending, FinishRoot, BackToPass, TypeOK
    <3>3. \A i \in 1 .. Len(queue) : /\ queue[i] \in Task
                                     /\ i < pos + 1 => i < pos \/ i = pos
      BY <1>0, <3>1, QueueTyped
    <3> QED
      BY <1>0, <3>1, <3>2, <3>3 DEF PassInv, Runnable
  <2>2. CASE CallTask(t) \/ ReturnToCaller(t) \/ NoSqe(t)
             \/ (\E n \in 1 .. PassEntries : SubmitInPass(t, n))
             \/ Unwind(t) \/ Catch(t)
    <3>1. /\ UNCHANGED <<queue, valid, pending, pos>>
          /\ pc \in {"run", "unwind"}
      BY <2>2 DEF CallTask, ReturnToCaller, NoSqe, SubmitInPass,
                  Unwind, Catch, Executing
    <3> QED
      BY <1>0, <3>1 DEF PassInv, Runnable
  <2>3. ASSUME NEW u \in Task, CoSpawn(t, u) PROVE PassInv'
    <3>1. pos \in 1 .. Len(queue) /\ pc = "run"
      BY <2>3, RunningChain DEF CoSpawn, Executing
    <3>2. /\ Len(queue') = Len(queue) + 1
          /\ \A i \in 1 .. Len(queue) : queue'[i] = queue[i]
      BY <1>0, <2>3, EmplaceGrows DEF CoSpawn
    <3>3. UNCHANGED <<valid, pending, pos>>
      BY <2>3 DEF CoSpawn
    <3>4. \A i \in 1 .. Len(queue') : i < pos => i \in 1 .. Len(queue)
      BY <1>0, <3>1, <3>2
    <3> QED
      BY <1>0, <3>1, <3>2, <3>3, <3>4 DEF PassInv, Runnable
  <2> QED
    BY <1>5, <2>1, <2>2, <2>3 DEF CoroutineStep
<1> QED
  BY <1>1, <1>2, <1>3, <1>4, <1>5 DEF Next, ThreadStep, LoopStep

LEMMA SleepStep ==
  ASSUME ShapeInv, RequestInv, Next
  PROVE  NoSleepWithWork'
<1> USE DEF taskVars, ringVars, threadVars
<1>0. TypeOK /\ PassInv /\ NoSleepWithWork
  BY DEF ShapeInv, TypeInv, RequestInv
<1>1. CASE EndPass
  <2>1. \A i \in 1 .. Len(queue) : i < pos
    BY <1>0, <1>1 DEF EndPass, TypeOK
  <2> QED
    BY <1>0, <1>1, <2>1 DEF EndPass, PassInv, NoSleepWithWork, Runnable
<1>2. CASE Submit
  BY <1>0, <1>2 DEF Submit, SqAfterSubmit, NoSleepWithWork, Runnable
<1>3. CASE KernelStep \/ \E u \in Task : RingTaskArrives(u)
  <2>1. UNCHANGED <<queue, valid, pending, pc, sq>>
    BY <1>3 DEF KernelStep, KernelComplete, RingTaskArrives
  <2> QED
    BY <1>0, <2>1 DEF NoSleepWithWork, Runnable
<1>4. CASE \/ Resume \/ SkipNode \/ WaitArrival \/ WaitTimeout
           \/ HandleCompletion \/ HandleRingTask \/ Consume
           \/ \E t \in Task : CoroutineStep(t)
  <2>1. pc' \notin {"submit", "wait"}
    BY <1>4
    DEF Resume, AtNode, SkipNode, WaitArrival, WaitTimeout, HandleCompletion,
        HandleRingTask, Consume, CoroutineStep, Executing, BackToPass,
        CallTask, ReturnToCaller, FinishRoot, AwaitOp, SubmitInPass,
        NoSqe, Unwind, Catch, CoSpawn
  <2> QED
    BY <2>1 DEF NoSleepWithWork
<1> QED
  BY <1>1, <1>2, <1>3, <1>4 DEF Next, ThreadStep, LoopStep

-----------------------------------------------------------------------------
(* The theorems.                                                            *)

LEMMA InvInit == Init => IInv
<1> SUFFICES ASSUME Init PROVE IInv
  OBVIOUS
<1>1. ShapeInv
  BY ShapeInit
<1>2. /\ sq = <<>> /\ kernel = {} /\ cq = <<>> /\ handled = 0
      /\ pending = [t \in Task |-> FALSE] /\ token = [t \in Task |-> NoToken]
      /\ running = NoTask /\ pc = "run" /\ pos = 1
  BY DEF Init
<1>3. RequestsOK
  BY <1>2 DEF RequestsOK, NoLostWakeup, LiveTokens, OneRequestPerTask,
              Outstanding, InSq, InKernel, InCq
<1>4. WaiterInv /\ TokenInv /\ PassInv /\ NoSleepWithWork
  BY <1>2 DEF WaiterInv, TokenInv, NoToken, PassInv, NoSleepWithWork
<1> QED
  BY <1>1, <1>3, <1>4 DEF IInv, RequestInv

LEMMA InvStep == IInv /\ [Next]_vars => IInv'
<1> SUFFICES ASSUME IInv, [Next]_vars PROVE IInv'
  OBVIOUS
<1>1. ShapeInv /\ RequestInv /\ ShapeInv'
  BY ShapeStep DEF IInv
<1>2. CASE Next
  BY <1>1, <1>2, RequestsStep, WaiterStep, TokenStep, PassStep, SleepStep
  DEF IInv, RequestInv
<1>3. CASE UNCHANGED vars
  <2>1. TypeOK /\ TypeOK'
    BY <1>1 DEF ShapeInv, TypeInv
  <2>2. RequestsOK'
    BY <1>1, <1>3, <2>1, RequestsUntouched
    DEF RequestInv, vars, taskVars, ringVars
  <2>3. WaiterInv' /\ TokenInv' /\ PassInv' /\ NoSleepWithWork'
    BY <1>1, <1>3
    DEF RequestInv, WaiterInv, TokenInv, PassInv, NoSleepWithWork, Queued,
        Runnable, vars, taskVars, ringVars, threadVars
  <2> QED
    BY <1>1, <2>2, <2>3 DEF IInv, RequestInv
<1> QED
  BY <1>2, <1>3

THEOREM Invariance == SafeSpec => []IInv
  BY InvInit, InvStep, PTL DEF SafeSpec

\* A task is pending exactly as long as the completion that clears the flag is
\* still to be handled, for any number of tasks, any depth of calls and any
\* order of completions (uring_awaiter.hpp:37-42, uring.hpp:223-227).
THEOREM NoWakeupIsLost == SafeSpec => []NoLostWakeup
<1>1. IInv => NoLostWakeup
  BY DEF IInv, RequestInv, RequestsOK
<1> QED
  BY <1>1, Invariance, PTL

\* Every completion writes to the token of an awaiter that is still suspended in
\* the innermost frame of a task of the list, and no two completions write to the
\* same one (uring.hpp:175, 224-226; context.hpp:205-208).
THEOREM TokensOutliveRequests == SafeSpec => []CompletionHitsLiveToken
<1>1. ASSUME IInv, NEW t \in Task, Outstanding(t) PROVE SuspendedInLeaf(t)
  <2>1. pending[t]
    BY <1>1 DEF IInv, RequestInv, RequestsOK, NoLostWakeup
  <2>2. Queued(t) /\ valid[t] /\ t # running
    BY <1>1, <2>1 DEF IInv, RequestInv, WaiterInv
  <2>3. PICK i \in 1 .. Len(queue) : queue[i] = t
    BY <2>2 DEF Queued
  <2>4. Len(chain[t]) > 0 /\ awaiting[t] = Leaf(t)
    BY <1>1, <2>2, <2>3 DEF IInv, ShapeInv, HandleIsLeaf
  <2>5. \A j \in 1 .. Len(chain[t]) : chain[t][j] = t
    BY <1>1, <2>3 DEF IInv, ShapeInv, ChainInv
  <2>6. chain[t] # <<>>
    BY <2>4
  <2> QED
    BY <2>2, <2>4, <2>5, <2>6 DEF SuspendedInLeaf
<1>2. IInv => CompletionHitsLiveToken
  BY <1>1 DEF IInv, RequestInv, RequestsOK, CompletionHitsLiveToken
<1> QED
  BY <1>2, Invariance, PTL

\* No await_resume reads the -ENOSYS that cqe_res_ starts with
\* (uring_awaiter.hpp:44, completion_token.hpp).
THEOREM ResultsAreReal == SafeSpec => []ResumeSeesResult
<1>1. IInv => ResumeSeesResult
  <2> SUFFICES ASSUME IInv, NEW i \in 1 .. Len(queue), Runnable(queue[i]),
                      token[queue[i]].id # 0
               PROVE  token[queue[i]].cqe_res \in Results
    BY DEF ResumeSeesResult
  <2>1. queue[i] \in Task
    BY QueueTyped DEF IInv, ShapeInv, TypeInv
  <2> QED
    BY <2>1 DEF IInv, RequestInv, TokenInv, Runnable
<1> QED
  BY <1>1, Invariance, PTL

\* The thread never sleeps in wait_cqe_arrival_for on a runnable task or on
\* requests it has not submitted (context.hpp:54-62, worker.hpp:55-59).
THEOREM SleepsOnlyWhenIdle == SafeSpec => []NoSleepWithWork
<1>1. IInv => NoSleepWithWork
  BY DEF IInv, RequestInv
<1> QED
  BY <1>1, Invariance, PTL

-----------------------------------------------------------------------------
\* get_sqe returns a null pointer only if the ring has fewer entries than the
\* thread has other tasks and a coroutine asks for at once (uring.hpp:86-88,
\* uring_awaiter.hpp:20, context.hpp:144-145, 221-223): the requests that wait for
\* submit_all are of different tasks, and none of the running one.
THEOREM RingHasRoom ==
  ASSUME Cardinality(Task) - 1 + PassEntries <= SqEntries
  PROVE  SafeSpec => []SqNeverFull
<1>1. ASSUME IInv, NEW t \in Task, Executing(t)
      PROVE  Len(sq) + PassEntries <= SqEntries
  <2> DEFINE others == Task \ {t}
             owner == [i \in 1 .. Len(sq) |-> sq[i].task]
  <2>1. sq \in Seq(Request) /\ Len(sq) \in Nat
    BY <1>1 DEF IInv, ShapeInv, TypeInv, TypeOK
  <2>2. running = t /\ t # NoTask
    BY <1>1, TaskAssumption DEF Executing
  <2>3. ~InSq(t)
    BY <1>1, <2>2
    DEF IInv, RequestInv, RequestsOK, NoLostWakeup, Outstanding, WaiterInv
  <2>4. \A i \in 1 .. Len(sq) : sq[i].task \in others
    <3> SUFFICES ASSUME NEW i \in 1 .. Len(sq) PROVE sq[i].task \in others
      OBVIOUS
    <3>1. sq[i] \in Request
      BY <2>1
    <3>2. sq[i].task \in Task
      BY <3>1 DEF Request
    <3> QED
      BY <2>3, <3>2 DEF InSq
  <2>5. \A i, j \in 1 .. Len(sq) : owner[i] = owner[j] => i = j
    BY <1>1 DEF IInv, RequestInv, RequestsOK, OneRequestPerTask
  <2>6. /\ IsFiniteSet(others)
        /\ Cardinality(others) = Cardinality(Task) - 1
    BY TaskAssumption, FS_RemoveElement
  <2>7. Cardinality(Task) \in Nat /\ Cardinality(others) \in Nat
    BY <2>6, TaskAssumption, FS_CardinalityType
  <2>8. IsFiniteSet(1 .. Len(sq)) /\ Cardinality(1 .. Len(sq)) = Len(sq)
    BY <2>1, FS_Interval
  <2>9. owner \in [1 .. Len(sq) -> others]
    BY <2>4
  <2>10. ~(Cardinality(others) < Cardinality(1 .. Len(sq)))
    <3> HIDE DEF owner, others
    <3> QED
      BY <2>5, <2>6, <2>8, <2>9, FS_PigeonHole
  <2> QED
    BY <2>1, <2>6, <2>7, <2>8, <2>10, BoundAssumption
<1>2. IInv => SqNeverFull
  BY <1>1 DEF SqNeverFull
<1> QED
  BY <1>2, Invariance, PTL
=============================================================================
