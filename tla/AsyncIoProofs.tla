---------------------------- MODULE AsyncIoProofs ----------------------------
(***************************************************************************)
(* EventLoop implements the safety part of AsyncIo: every step of the      *)
(* thread, of the kernel or of another ring is one step in the life of one *)
(* task, or none that a coroutine can see.                                 *)
(*                                                                         *)
(* The invariant of EventLoopProofs says which queues a task may be found  *)
(* in.  What it does not need, and the promise does, is that a task outside*)
(* every awaiter has no result lying about (IdleTokens): a coroutine that  *)
(* finishes, or awaits its next operation, has taken the last one.         *)
(***************************************************************************)
EXTENDS EventLoopProofs

\* A task that is in no awaiter has no result to take.
IdleTokens == \A t \in Task : token[t].id = 0 => token[t].cqe_res = "nosys"

PromiseInv == IInv /\ IdleTokens

Waiting(t) == InSq(t) \/ InKernel(t)

\* What the CHOOSE of the refinement mapping finds.
ResultsAre ==
  /\ \A i \in handled + 1 .. Len(cq) :
       IsOp(i) => ResultOf(cq[i].task) = cq[i].res
  /\ \A t \in Task : ~InCq(t) => ResultOf(t) = token[t].cqe_res

-----------------------------------------------------------------------------
(* Where a task is, and with what result.                                   *)

LEMMA InvParts ==
  ASSUME IInv
  PROVE  /\ TypeOK /\ ShapeInv /\ RequestsOK /\ WaiterInv /\ TokenInv
         /\ Len(sq) \in Nat /\ Len(cq) \in Nat /\ Len(queue) \in Nat
         /\ handled \in Nat /\ completed \in Nat
         /\ handled <= completed /\ completed <= Len(cq)
  BY DEF IInv, ShapeInv, TypeInv, TypeOK, RequestInv

\* A task has one completion, so it has one result.
LEMMA ResultIs == IInv => ResultsAre
<1> SUFFICES ASSUME IInv PROVE ResultsAre
  OBVIOUS
<1>1. TypeOK /\ RequestsOK
  BY InvParts
<1>2. ASSUME NEW i \in handled + 1 .. Len(cq), IsOp(i)
      PROVE  ResultOf(cq[i].task) = cq[i].res
  <2> DEFINE t == cq[i].task
             Of(c) == c.res # "RingTask" /\ c.task = t
             posted == {cq[j] : j \in handled + 1 .. Len(cq)}
  <2>1. InCq(t)
    BY <1>2 DEF InCq
  <2>2. cq[i] \in posted /\ Of(cq[i])
    BY <1>2 DEF IsOp
  <2>3. \A c \in posted : Of(c) => c = cq[i]
    <3> SUFFICES ASSUME NEW j \in handled + 1 .. Len(cq), Of(cq[j])
                 PROVE  j = i
      OBVIOUS
    <3> QED
      BY <1>1, <1>2 DEF RequestsOK, OneRequestPerTask, IsOp
  <2>4. (CHOOSE c \in posted : Of(c)) = cq[i]
    <3> HIDE DEF posted, Of
    <3> QED
      BY <2>2, <2>3
  <2> QED
    BY <2>1, <2>4 DEF ResultOf
<1>3. ASSUME NEW t \in Task, ~InCq(t) PROVE ResultOf(t) = token[t].cqe_res
  BY <1>3 DEF ResultOf
<1> QED
  BY <1>2, <1>3 DEF ResultsAre

LEMMA ResultWillBe == (IInv => ResultsAre)'
  BY ResultIs, PTL

\* A task that is not pending has no request anywhere.
LEMMA NotPending ==
  ASSUME IInv, NEW t \in Task, ~pending[t]
  PROVE  ~Waiting(t) /\ ~InCq(t) /\ ResultOf(t) = token[t].cqe_res
<1>1. ~Outstanding(t)
  BY InvParts DEF RequestsOK, NoLostWakeup
<1> QED
  BY <1>1, ResultIs DEF Outstanding, Waiting, ResultsAre

\* A task that has a request is a live one of the list, and in one place only.
LEMMA WithRequest ==
  ASSUME IInv, NEW t \in Task, Waiting(t) \/ InCq(t)
  PROVE  /\ pending[t] /\ Queued(t) /\ valid[t] /\ ~(Waiting(t) /\ InCq(t))
         /\ StateOf(t) = IF Waiting(t) THEN "waiting" ELSE "completed"
<1>1. pending[t]
  BY InvParts DEF RequestsOK, NoLostWakeup, Outstanding, Waiting
<1>2. ~(Waiting(t) /\ InCq(t))
  BY InvParts DEF RequestsOK, OneRequestPerTask, Waiting
<1> QED
  BY <1>1, <1>2, InvParts DEF WaiterInv, StateOf, Waiting

-----------------------------------------------------------------------------
(* The steps of the abstract specification, as they look from here.         *)

Stays(t) == StateOf(t)' = StateOf(t) /\ ResultOf(t)' = ResultOf(t)

AllStay == \A t \in Task : Stays(t)

GoesOn == pc # "terminated" /\ pc' # "terminated"

OnlyOne(t) == GoesOn /\ \A u \in Task : u # t => Stays(u)

Moves(t, from, to) == OnlyOne(t) /\ StateOf(t) = from /\ StateOf(t)' = to

KeepsResult(t) == ResultOf(t)' = ResultOf(t)

Spawns(t)   == Moves(t, "absent", "ready") /\ KeepsResult(t)
Awaits(t)   == Moves(t, "ready", "waiting") /\ KeepsResult(t)
               /\ ResultOf(t) = "nosys"
Ends(t)     == Moves(t, "ready", "done") /\ KeepsResult(t)
               /\ ResultOf(t) = "nosys"
Wakes(t)    == Moves(t, "completed", "ready") /\ KeepsResult(t)
Takes(t)    == Moves(t, "ready", "ready")
               /\ ResultOf(t) # "nosys" /\ ResultOf(t)' = "nosys"
Completes(t, r) == Moves(t, "waiting", "completed") /\ ResultOf(t)' = r

Follows ==
  \/ AllStay /\ UNCHANGED (pc # "terminated")
  \/ AllStay /\ pc # "terminated" /\ pc' = "terminated"
  \/ \E t \in Task :
       Spawns(t) \/ Awaits(t) \/ Ends(t) \/ Wakes(t) \/ Takes(t)
  \/ \E t \in Task, r \in Results : Completes(t, r)

\* Nothing a coroutine can see has changed.
LEMMA NothingMoves ==
  ASSUME UNCHANGED <<queue, valid, token, sq, kernel, cq, handled>>
  PROVE  AllStay
  BY DEF AllStay, Stays, StateOf, ResultOf, Queued, InSq, InKernel, InCq, IsOp

LEMMA StateKept ==
  ASSUME NEW t \in Task, valid'[t] = valid[t],
         Queued(t)' <=> Queued(t), Waiting(t)' <=> Waiting(t),
         InCq(t)' <=> InCq(t)
  PROVE  StateOf(t)' = StateOf(t)
  BY DEF StateOf, Waiting

\* The completions of a task that are to be handled are the same, wherever in
\* the completion queue they are now.
SameCompletions(t) ==
  /\ \A i \in handled + 1 .. Len(cq) :
       IsOp(i) /\ cq[i].task = t =>
         \E j \in handled' + 1 .. Len(cq') : cq'[j] = cq[i]
  /\ \A j \in handled' + 1 .. Len(cq') :
       cq'[j].res # "RingTask" /\ cq'[j].task = t =>
         \E i \in handled + 1 .. Len(cq) : cq'[j] = cq[i]

LEMMA CompletionsKept ==
  ASSUME IInv, IInv', NEW t \in Task, SameCompletions(t),
         token'[t].cqe_res = token[t].cqe_res
  PROVE  (InCq(t)' <=> InCq(t)) /\ KeepsResult(t)
<1>1. ResultsAre /\ ResultsAre'
  BY ResultIs, ResultWillBe
<1>2. CASE InCq(t)
  <2>1. PICK i \in handled + 1 .. Len(cq) : IsOp(i) /\ cq[i].task = t
    BY <1>2 DEF InCq
  <2>2. PICK j \in handled' + 1 .. Len(cq') : cq'[j] = cq[i]
    BY <2>1 DEF SameCompletions
  <2>3. IsOp(j)'
    BY <2>1, <2>2 DEF IsOp
  <2>4. InCq(t)'
    BY <2>1, <2>2, <2>3 DEF InCq
  <2>5. ResultOf(t) = cq[i].res
    BY <1>1, <2>1 DEF ResultsAre
  <2>6. ResultOf(t)' = cq'[j].res
    <3>1. (ResultOf(cq[j].task))' = cq'[j].res
      BY <1>1, <2>3 DEF ResultsAre
    <3>2. cq'[j].task = t
      BY <2>1, <2>2
    <3> QED
      BY <3>1, <3>2 DEF ResultOf
  <2> QED
    BY <1>2, <2>2, <2>4, <2>5, <2>6 DEF KeepsResult
<1>3. CASE ~InCq(t)
  <2>1. ~InCq(t)'
    BY <1>3 DEF SameCompletions, InCq, IsOp
  <2> QED
    BY <1>1, <1>3, <2>1 DEF ResultsAre, KeepsResult
<1> QED
  BY <1>2, <1>3

\* A task with the same requests and the same result stays what it is.
LEMMA TaskStays ==
  ASSUME IInv, IInv', NEW t \in Task, valid'[t] = valid[t],
         Queued(t)' <=> Queued(t), Waiting(t)' <=> Waiting(t),
         SameCompletions(t), token'[t].cqe_res = token[t].cqe_res
  PROVE  Stays(t)
  BY StateKept, CompletionsKept DEF Stays, KeepsResult

-----------------------------------------------------------------------------
(* IdleTokens.                                                              *)

LEMMA IdleInit == Init => IdleTokens
  BY DEF Init, IdleTokens, NoToken

LEMMA IdleStep ==
  ASSUME IInv, IdleTokens, [Next]_vars
  PROVE  IdleTokens'
<1>0. TypeOK
  BY InvParts
<1>1. CASE UNCHANGED token
  BY <1>1 DEF IdleTokens
<1>2. CASE Resume
  <2>1. queue[pos] \in Task
    BY <1>2, ResumeTarget DEF IInv
  <2>2. /\ token'[queue[pos]].cqe_res = "nosys"
        /\ \A u \in Task : u # queue[pos] => token'[u] = token[u]
    BY <1>0, <1>2, <2>1 DEF Resume, NoToken, TypeOK
  <2> QED
    BY <2>2 DEF IdleTokens
<1>3. CASE HandleCompletion
  <2> DEFINE n == handled + 1
             u == cq[n].task
  <2>1. n \in handled + 1 .. Len(cq) /\ n \in 1 .. Len(cq) /\ IsOp(n)
    BY <1>3, InvParts DEF HandleCompletion, IsOp
  <2>2. u \in Task /\ cq[n].id # 0 /\ token[u].id = cq[n].id
    <3>1. LiveRequest([task |-> u, id |-> cq[n].id])
      BY <2>1, InvParts DEF RequestsOK, LiveTokens
    <3> QED
      BY <1>0, <2>1, <3>1, CqeTyped DEF LiveRequest
  <2>3. /\ token'[u].id = token[u].id
        /\ \A t \in Task : t # u => token'[t] = token[t]
    BY <1>0, <1>3, <2>2 DEF HandleCompletion, StoreResult, TypeOK, Token
  <2> QED
    BY <2>2, <2>3 DEF IdleTokens
<1>4. ASSUME NEW t \in Task, AwaitOp(t) PROVE IdleTokens'
  <2>1. /\ token'[t].cqe_res = "nosys"
        /\ \A u \in Task : u # t => token'[u] = token[u]
    BY <1>0, <1>4 DEF AwaitOp, TypeOK
  <2> QED
    BY <2>1 DEF IdleTokens
<1>5. ASSUME NEW t \in Task, CoroutineStep(t) PROVE AwaitOp(t) \/ UNCHANGED token
  BY <1>5
  DEF CoroutineStep, CallTask, ReturnToCaller, FinishRoot, SubmitInPass,
      NoSqe, Unwind, Catch, CoSpawn
<1>6. LoopStep => Resume \/ HandleCompletion \/ UNCHANGED token
  BY DEF LoopStep, SkipNode, EndPass, Submit, WaitArrival, WaitTimeout,
         HandleRingTask, Consume
<1>7. KernelStep \/ (\E u \in Task : RingTaskArrives(u)) \/ UNCHANGED vars
        => UNCHANGED token
  BY DEF KernelStep, KernelComplete, RingTaskArrives, vars
<1> QED
  BY <1>1, <1>2, <1>3, <1>4, <1>5, <1>6, <1>7 DEF Next, ThreadStep

-----------------------------------------------------------------------------
(* The steps of the thread's pass.                                          *)

LEMMA ResumeFollows ==
  ASSUME PromiseInv, PromiseInv', Resume
  PROVE  Follows
<1>0. IInv /\ IInv' /\ TypeOK
  BY InvParts DEF PromiseInv
<1>q. pos \in 1 .. Len(queue) /\ queue[pos] \in Task
  BY <1>0, InvParts, QueueTyped DEF Resume, AtNode, TypeOK
<1>t. PICK t \in Task : t = queue[pos]
  BY <1>q
<1>1. Queued(t) /\ valid[t] /\ ~pending[t]
  BY <1>q, <1>t DEF Resume, Runnable, Queued
<1>2. ~Waiting(t) /\ ~InCq(t) /\ ResultOf(t) = token[t].cqe_res
  BY <1>0, <1>1, NotPending
<1>3. StateOf(t) = "ready"
  BY <1>1, <1>2 DEF StateOf, Waiting
<1>4. UNCHANGED <<queue, valid, sq, kernel, cq, handled, pending>>
  BY DEF Resume, taskVars, ringVars
<1>5. /\ token'[t].cqe_res = "nosys"
      /\ \A u \in Task : u # t => token'[u] = token[u]
  BY <1>0, <1>t DEF Resume, NoToken, TypeOK
<1>6. \A u \in Task : /\ Queued(u)' <=> Queued(u)
                      /\ Waiting(u)' <=> Waiting(u)
                      /\ SameCompletions(u)
  BY <1>4 DEF Queued, Waiting, InSq, InKernel, SameCompletions, IsOp
<1>7. \A u \in Task : u # t => Stays(u)
  BY <1>0, <1>4, <1>5, <1>6, TaskStays
<1>8. StateOf(t)' = "ready" /\ ResultOf(t)' = "nosys"
  <2>1. (~pending[t])'
    BY <1>1, <1>4
  <2>2. ~InCq(t)'
    BY <1>2, <1>4 DEF InCq, IsOp
  <2>3. ResultOf(t)' = token'[t].cqe_res
    BY <2>2 DEF ResultOf
  <2>4. StateOf(t)' = "ready"
    BY <1>1, <1>2, <1>4, <1>6, <2>2 DEF StateOf, Waiting
  <2> QED
    BY <1>5, <2>3, <2>4
<1>9. GoesOn
  BY DEF Resume, AtNode, GoesOn
<1>10. CASE ResultOf(t) = "nosys"
  BY <1>1, <1>3, <1>7, <1>8, <1>9, <1>10 DEF Follows, AllStay, Stays, GoesOn
<1>11. CASE ResultOf(t) # "nosys"
  <2>1. Takes(t)
    BY <1>3, <1>7, <1>8, <1>9, <1>11 DEF Takes, Moves, OnlyOne
  <2> QED
    BY <1>1, <2>1 DEF Follows
<1> QED
  BY <1>10, <1>11

LEMMA FinishFollows ==
  ASSUME PromiseInv, PromiseInv', NEW t \in Task, FinishRoot(t)
  PROVE  Follows
<1>0. IInv /\ IInv' /\ TypeOK
  BY InvParts DEF PromiseInv
<1>1. running = t /\ t # NoTask /\ pc = "run"
  BY TaskAssumption DEF FinishRoot, Executing
<1>2. valid[t] /\ Queued(t)
  BY <1>0, <1>1, RunningChain DEF IInv, Queued
<1>3. ~pending[t] /\ token[t].cqe_res = "nosys"
  BY <1>0, <1>1, InvParts DEF WaiterInv, TokenInv, PromiseInv, IdleTokens
<1>4. ~Waiting(t) /\ ~InCq(t) /\ ResultOf(t) = "nosys"
  BY <1>0, <1>3, NotPending
<1>5. UNCHANGED <<queue, token, sq, kernel, cq, handled, pc>>
  BY DEF FinishRoot, BackToPass, ringVars
<1>6. ~valid'[t] /\ \A u \in Task : u # t => valid'[u] = valid[u]
  BY <1>0 DEF FinishRoot, TypeOK
<1>7. \A u \in Task : /\ Queued(u)' <=> Queued(u)
                      /\ Waiting(u)' <=> Waiting(u)
                      /\ SameCompletions(u)
  BY <1>5 DEF Queued, Waiting, InSq, InKernel, SameCompletions, IsOp
<1>8. \A u \in Task : u # t => Stays(u)
  BY <1>0, <1>5, <1>6, <1>7, TaskStays
<1>9. StateOf(t) = "ready" /\ StateOf(t)' = "done"
  BY <1>2, <1>4, <1>6 DEF StateOf, Waiting
<1>10. KeepsResult(t)
  BY <1>0, <1>5, <1>7, CompletionsKept
<1>11. Ends(t)
  BY <1>1, <1>4, <1>5, <1>8, <1>9, <1>10 DEF Ends, Moves, OnlyOne, GoesOn
<1> QED
  BY <1>11 DEF Follows

\* A coroutine that awaits has taken its last result, so it has none to lose.
LEMMA AwaitFollows ==
  ASSUME PromiseInv, PromiseInv', NEW t \in Task, AwaitOp(t)
  PROVE  Follows
<1>0. IInv /\ IInv' /\ TypeOK /\ TypeOK' /\ Len(sq) \in Nat
  BY InvParts DEF PromiseInv, IInv, ShapeInv, TypeInv
<1>1. running = t /\ t # NoTask /\ pc = "run" /\ ThisChainTask(t) = t
  BY <1>0, TaskAssumption, RunningChain DEF AwaitOp, Executing, IInv
<1>2. valid[t] /\ Queued(t)
  BY <1>0, <1>1, RunningChain DEF IInv, Queued
<1>3. ~pending[t] /\ token[t].cqe_res = "nosys"
  BY <1>0, <1>1, InvParts DEF WaiterInv, TokenInv, PromiseInv, IdleTokens
<1>4. ~Waiting(t) /\ ~InCq(t) /\ ResultOf(t) = "nosys"
  BY <1>0, <1>3, NotPending
<1>5. UNCHANGED <<queue, valid, kernel, cq, handled, pc>>
  BY DEF AwaitOp, BackToPass
<1>6. /\ token'[t].cqe_res = "nosys"
      /\ \A u \in Task : u # t => token'[u] = token[u]
  BY <1>0 DEF AwaitOp, TypeOK
<1>7. PICK n \in Nat : n = Len(sq) + 1
  BY <1>0
<1>8. /\ Len(sq') = n /\ sq'[n].task = t
      /\ \A i \in 1 .. Len(sq) : sq'[i] = sq[i]
  BY <1>0, <1>7 DEF AwaitOp, TypeOK
<1>9. \A u \in Task : u # t => (InSq(u)' <=> InSq(u))
  BY <1>0, <1>7, <1>8 DEF InSq
<1>10. InSq(t)'
  BY <1>0, <1>7, <1>8 DEF InSq
<1>11. \A u \in Task : /\ Queued(u)' <=> Queued(u)
                       /\ SameCompletions(u)
                       /\ InKernel(u)' <=> InKernel(u)
  BY <1>5 DEF Queued, InKernel, SameCompletions, IsOp
<1>12. \A u \in Task : u # t => Stays(u)
  BY <1>0, <1>5, <1>6, <1>9, <1>11, TaskStays DEF Waiting
<1>13. StateOf(t) = "ready" /\ StateOf(t)' = "waiting"
  BY <1>2, <1>4, <1>5, <1>10, <1>11 DEF StateOf, Waiting
<1>14. KeepsResult(t)
  BY <1>0, <1>3, <1>6, <1>11, CompletionsKept
<1>15. Awaits(t)
  BY <1>1, <1>4, <1>5, <1>12, <1>13, <1>14 DEF Awaits, Moves, OnlyOne, GoesOn
<1> QED
  BY <1>15 DEF Follows

\* Spawned by a coroutine of this thread, or sent by another one.
LEMMA EmplaceFollows ==
  ASSUME PromiseInv, PromiseInv', NEW t \in Task, valid[t], ~Queued(t),
         Emplace(t), pc # "terminated", UNCHANGED pc,
         UNCHANGED <<valid, token, sq, kernel>>,
         \A u \in Task : SameCompletions(u)
  PROVE  Follows
<1>0. IInv /\ IInv' /\ Len(queue) \in Nat
  BY InvParts DEF PromiseInv
<1>1. ~pending[t]
  BY <1>0, InvParts DEF WaiterInv
<1>2. ~Waiting(t)
  BY <1>0, <1>1, NotPending
<1>3. PICK n \in Nat : n = Len(queue) + 1
  BY <1>0
<1>4. /\ Len(queue') = n /\ queue'[n] = t
      /\ \A i \in 1 .. Len(queue) : queue'[i] = queue[i]
  BY <1>0, <1>3, InvParts DEF Emplace, TypeOK
<1>5. \A u \in Task : u # t => (Queued(u)' <=> Queued(u))
  BY <1>0, <1>3, <1>4 DEF Queued
<1>6. Queued(t)'
  BY <1>0, <1>3, <1>4 DEF Queued
<1>7. \A u \in Task : Waiting(u)' <=> Waiting(u)
  BY DEF Waiting, InSq, InKernel
<1>8. \A u \in Task : u # t => Stays(u)
  BY <1>0, <1>5, <1>7, TaskStays
<1>9. (InCq(t)' <=> InCq(t)) /\ KeepsResult(t)
  BY <1>0, CompletionsKept
<1>10. ~InCq(t)
  BY <1>0, <1>1, NotPending
<1>11. StateOf(t) = "absent" /\ StateOf(t)' = "ready"
  BY <1>2, <1>6, <1>7, <1>9, <1>10 DEF StateOf, Waiting
<1>12. Spawns(t)
  BY <1>8, <1>9, <1>11 DEF Spawns, Moves, OnlyOne, GoesOn
<1> QED
  BY <1>12 DEF Follows

LEMMA CoSpawnFollows ==
  ASSUME PromiseInv, PromiseInv', NEW t \in Task, NEW u \in Task, CoSpawn(t, u)
  PROVE  Follows
<1>1. valid[u] /\ pc # "terminated" /\ chain[u] = <<>>
  BY DEF CoSpawn, Fresh, Executing
<1>2. ~Queued(u)
  BY <1>1, NotQueued DEF PromiseInv, IInv
<1>3. \A v \in Task : SameCompletions(v)
  BY DEF CoSpawn, ringVars, SameCompletions, IsOp
<1> QED
  BY <1>1, <1>2, <1>3, EmplaceFollows DEF CoSpawn, ringVars, threadVars

-----------------------------------------------------------------------------
(* The rest of the loop.                                                    *)

\* Preparing and submitting are the same to a coroutine.
LEMMA SubmitFollows ==
  ASSUME PromiseInv, PromiseInv', Len(sq') = 0,
         kernel' = kernel \cup {sq[i] : i \in 1 .. Len(sq)},
         UNCHANGED <<queue, valid, token, cq, handled>>
  PROVE  AllStay
<1>0. IInv /\ IInv'
  BY DEF PromiseInv
<1>1. \A u \in Task : Waiting(u)' <=> Waiting(u)
  BY DEF Waiting, InSq, InKernel
<1>2. \A u \in Task : (Queued(u)' <=> Queued(u)) /\ SameCompletions(u)
  BY DEF Queued, SameCompletions, IsOp
<1> QED
  BY <1>0, <1>1, <1>2, TaskStays DEF AllStay

LEMMA HandleCompletionFollows ==
  ASSUME PromiseInv, PromiseInv', HandleCompletion
  PROVE  Follows
<1>0. IInv /\ IInv' /\ TypeOK /\ handled \in Nat /\ Len(cq) \in Nat
  BY InvParts DEF PromiseInv
<1>1. PICK n \in Nat : n = handled + 1
  BY <1>0
<1>2. n \in handled + 1 .. Len(cq) /\ n \in 1 .. Len(cq) /\ IsOp(n)
  BY <1>0, <1>1, InvParts DEF HandleCompletion, IsOp
<1>t. PICK t \in Task : t = cq[n].task
  BY <1>0, <1>2, CqeTyped
<1>3. InCq(t) /\ ResultOf(t) = cq[n].res
  BY <1>0, <1>2, <1>t, ResultIs DEF InCq, ResultsAre
<1>4. valid[t] /\ Queued(t) /\ ~Waiting(t) /\ StateOf(t) = "completed"
  BY <1>0, <1>3, WithRequest
<1>5. UNCHANGED <<queue, valid, sq, kernel, cq, pc>> /\ handled' = n
  BY <1>1 DEF HandleCompletion, threadVars
<1>6. /\ token'[t].cqe_res = cq[n].res
      /\ \A u \in Task : u # t => token'[u] = token[u]
  BY <1>0, <1>1, <1>2, <1>t, CqeTyped
  DEF HandleCompletion, StoreResult, TypeOK, Token
<1>7. \A u \in Task : /\ Queued(u)' <=> Queued(u)
                      /\ Waiting(u)' <=> Waiting(u)
  BY <1>5 DEF Queued, Waiting, InSq, InKernel
<1>8. \A u \in Task : u # t => SameCompletions(u)
  BY <1>0, <1>1, <1>t, <1>5 DEF SameCompletions
<1>9. \A u \in Task : u # t => Stays(u)
  BY <1>0, <1>5, <1>6, <1>7, <1>8, TaskStays
<1>10. ~InCq(t)'
  <2> SUFFICES ASSUME NEW i \in n + 1 .. Len(cq), IsOp(i), cq[i].task = t
               PROVE  FALSE
    BY <1>5 DEF InCq, IsOp
  <2>1. i \in handled + 1 .. Len(cq) /\ i # n
    BY <1>0, <1>1
  <2> QED
    BY <1>0, <1>2, <1>t, <2>1, InvParts DEF RequestsOK, OneRequestPerTask
<1>11. ResultOf(t)' = cq[n].res
  BY <1>6, <1>10 DEF ResultOf
<1>12. StateOf(t)' = "ready"
  BY <1>4, <1>5, <1>7, <1>10 DEF StateOf, Waiting
<1>13. GoesOn
  BY <1>5 DEF HandleCompletion, GoesOn
<1>14. Wakes(t)
  BY <1>3, <1>4, <1>9, <1>11, <1>12, <1>13
  DEF Wakes, Moves, OnlyOne, KeepsResult
<1> QED
  BY <1>14 DEF Follows

LEMMA HandleRingTaskFollows ==
  ASSUME PromiseInv, PromiseInv', HandleRingTask
  PROVE  Follows
<1>0. IInv /\ IInv' /\ TypeOK /\ handled \in Nat /\ Len(cq) \in Nat
  BY InvParts DEF PromiseInv
<1>1. PICK n \in Nat : n = handled + 1
  BY <1>0
<1>2. n \in handled + 1 .. Len(cq) /\ n \in 1 .. Len(cq) /\ ~IsOp(n)
  BY <1>0, <1>1, InvParts DEF HandleRingTask, IsOp
<1>t. PICK t \in Task : t = cq[n].task
  BY <1>0, <1>2, CqeTyped
<1>3. chain[t] = <<NoTask>> /\ valid[t] /\ pc # "terminated"
  BY <1>0, <1>2, <1>t, InvParts DEF ShapeInv, MessageInv, HandleRingTask
<1>4. ~Queued(t)
  BY <1>0, <1>3, InvParts, NotQueued
<1>5. UNCHANGED <<valid, token, sq, kernel, cq, pc>> /\ handled' = n /\ Emplace(t)
  BY <1>1, <1>t DEF HandleRingTask, threadVars
<1>6. \A u \in Task : SameCompletions(u)
  BY <1>0, <1>1, <1>2, <1>5 DEF SameCompletions, IsOp
<1> QED
  BY <1>3, <1>4, <1>5, <1>6, EmplaceFollows

\* consume moves the head of the queue past what has been handled, and no more.
LEMMA ConsumeFollows ==
  ASSUME PromiseInv, PromiseInv', Consume
  PROVE  AllStay
<1>0. IInv /\ IInv' /\ TypeOK /\ handled \in Nat /\ Len(cq) \in Nat
  BY InvParts DEF PromiseInv
<1>1. handled = completed /\ completed <= Len(cq)
  BY <1>0, InvParts DEF Consume
<1>2. UNCHANGED <<queue, valid, token, sq, kernel>> /\ handled' = 0
  BY DEF Consume, taskVars
<1>3. PICK m \in Nat : m = Len(cq) - handled
  <2>1. handled <= Len(cq)
    BY <1>1
  <2>2. Len(cq) - handled \in Nat
    BY <1>0, <2>1
  <2> QED
    BY <2>2
<1>4. Len(cq') = m /\ \A i \in 1 .. m : cq'[i] = cq[handled + i]
  BY <1>0, <1>1, <1>3 DEF Consume, AfterBatch, TypeOK
<1>5. \A u \in Task : SameCompletions(u)
  <2> SUFFICES ASSUME NEW u \in Task PROVE SameCompletions(u)
    OBVIOUS
  <2>1. ASSUME NEW i \in handled + 1 .. Len(cq)
        PROVE  \E j \in handled' + 1 .. Len(cq') : cq'[j] = cq[i]
    <3>1. PICK j \in 1 .. m : handled + j = i
      BY <1>0, <1>3
    <3> QED
      BY <1>2, <1>4, <3>1
  <2>2. ASSUME NEW j \in handled' + 1 .. Len(cq')
        PROVE  \E i \in handled + 1 .. Len(cq) : cq'[j] = cq[i]
    <3>1. j \in 1 .. m
      BY <1>2, <1>4
    <3>2. PICK i \in handled + 1 .. Len(cq) : i = handled + j
      BY <1>0, <1>3, <3>1
    <3> QED
      BY <1>4, <3>1, <3>2
  <2> QED
    BY <2>1, <2>2 DEF SameCompletions
<1>6. \A u \in Task : /\ Queued(u)' <=> Queued(u)
                      /\ Waiting(u)' <=> Waiting(u)
  BY <1>2 DEF Queued, Waiting, InSq, InKernel
<1> QED
  BY <1>0, <1>2, <1>5, <1>6, TaskStays DEF AllStay

-----------------------------------------------------------------------------
(* The kernel, and the ring of another thread.                              *)

LEMMA KernelFollows ==
  ASSUME PromiseInv, PromiseInv', NEW k \in kernel, NEW r \in Results,
         KernelComplete(k, r)
  PROVE  Follows
<1>0. IInv /\ IInv' /\ TypeOK /\ handled \in Nat /\ Len(cq) \in Nat
      /\ handled <= Len(cq)
  BY InvParts DEF PromiseInv
<1>t. PICK t \in Task : t = k.task
  BY <1>0, RequestTyped
<1>1. InKernel(t)
  BY <1>t DEF InKernel
<1>2. valid[t] /\ Queued(t) /\ ~InCq(t) /\ StateOf(t) = "waiting"
  BY <1>0, <1>1, WithRequest DEF Waiting
<1>3. ~InSq(t) /\ \A l \in kernel : l.task = t => l = k
  BY <1>0, <1>1, <1>t, InvParts DEF RequestsOK, OneRequestPerTask
<1>4. UNCHANGED <<queue, valid, token, sq, handled, pc>> /\ pc # "terminated"
      /\ kernel' = kernel \ {k}
  BY DEF KernelComplete, taskVars, threadVars
<1>5. PICK n \in Nat : n = Len(cq) + 1
  BY <1>0
<1>6. /\ Len(cq') = n /\ cq'[n] = [task |-> t, id |-> k.id, res |-> r]
      /\ \A i \in 1 .. Len(cq) : cq'[i] = cq[i]
  BY <1>0, <1>t, <1>5 DEF KernelComplete, TypeOK
<1>7. \A u \in Task : u # t => (Waiting(u)' <=> Waiting(u))
  BY <1>t, <1>4 DEF Waiting, InSq, InKernel
<1>8. ~Waiting(t)'
  BY <1>3, <1>4 DEF Waiting, InSq, InKernel
<1>9. \A u \in Task : Queued(u)' <=> Queued(u)
  BY <1>4 DEF Queued
<1>10. \A u \in Task : u # t => SameCompletions(u)
  <2> SUFFICES ASSUME NEW u \in Task, u # t PROVE SameCompletions(u)
    OBVIOUS
  <2>1. \A i \in handled + 1 .. Len(cq) :
          i \in handled' + 1 .. Len(cq') /\ cq'[i] = cq[i]
    BY <1>0, <1>4, <1>5, <1>6
  <2>2. \A j \in handled' + 1 .. Len(cq') :
          j = n \/ j \in handled + 1 .. Len(cq)
    BY <1>0, <1>4, <1>5, <1>6
  <2> QED
    BY <1>6, <2>1, <2>2 DEF SameCompletions
<1>11. \A u \in Task : u # t => Stays(u)
  BY <1>0, <1>4, <1>7, <1>9, <1>10, TaskStays
<1>12. InCq(t)' /\ ResultOf(t)' = r
  <2>1. n \in handled' + 1 .. Len(cq') /\ IsOp(n)' /\ cq'[n].task = t
    BY <1>0, <1>4, <1>5, <1>6, BoundAssumption DEF IsOp
  <2>2. (ResultOf(cq[n].task))' = cq'[n].res
    BY <1>0, <2>1, ResultWillBe DEF ResultsAre
  <2>3. ResultOf(t)' = cq'[n].res
    BY <2>1, <2>2 DEF ResultOf
  <2> QED
    BY <1>6, <2>1, <2>3 DEF InCq
<1>13. StateOf(t)' = "completed"
  BY <1>2, <1>4, <1>8, <1>9, <1>12 DEF StateOf, Waiting
<1>14. Completes(t, r)
  BY <1>2, <1>4, <1>11, <1>12, <1>13 DEF Completes, Moves, OnlyOne, GoesOn
<1> QED
  BY <1>14 DEF Follows

\* A task in a message is not yet a task of this loop.
LEMMA RingTaskFollows ==
  ASSUME PromiseInv, PromiseInv', NEW t \in Task, RingTaskArrives(t)
  PROVE  AllStay
<1>0. IInv /\ IInv' /\ TypeOK /\ handled \in Nat /\ Len(cq) \in Nat
      /\ handled <= Len(cq)
  BY InvParts DEF PromiseInv
<1>1. UNCHANGED <<queue, valid, token, sq, kernel, handled>>
  BY DEF RingTaskArrives
<1>2. PICK n \in Nat : n = Len(cq) + 1
  BY <1>0
<1>3. /\ Len(cq') = n /\ cq'[n].res = "RingTask"
      /\ \A i \in 1 .. Len(cq) : cq'[i] = cq[i]
  BY <1>0, <1>2 DEF RingTaskArrives, TypeOK
<1>4. \A u \in Task : SameCompletions(u)
  <2>1. \A i \in handled + 1 .. Len(cq) :
          i \in handled' + 1 .. Len(cq') /\ cq'[i] = cq[i]
    BY <1>0, <1>1, <1>2, <1>3
  <2>2. \A j \in handled' + 1 .. Len(cq') :
          j = n \/ j \in handled + 1 .. Len(cq)
    BY <1>0, <1>1, <1>2, <1>3
  <2> QED
    BY <1>3, <2>1, <2>2 DEF SameCompletions
<1>5. \A u \in Task : /\ Queued(u)' <=> Queued(u)
                      /\ Waiting(u)' <=> Waiting(u)
  BY <1>1 DEF Queued, Waiting, InSq, InKernel
<1> QED
  BY <1>0, <1>1, <1>4, <1>5, TaskStays DEF AllStay

-----------------------------------------------------------------------------
(* The refinement.                                                          *)

\* A null SQE, or an exception that leaves the root frame.
LEMMA AbortFollows ==
  ASSUME UNCHANGED <<queue, valid, token, sq, kernel, cq, handled>>,
         pc # "terminated"
  PROVE  Follows
<1>1. AllStay
  BY NothingMoves
<1> QED
  BY <1>1 DEF Follows

LEMMA NextFollows ==
  ASSUME PromiseInv, PromiseInv', [Next]_vars
  PROVE  Follows
<1> USE DEF taskVars, ringVars, threadVars
<1>1. CASE Resume \/ HandleCompletion \/ HandleRingTask
  BY <1>1, ResumeFollows, HandleCompletionFollows, HandleRingTaskFollows
<1>2. CASE SkipNode \/ EndPass \/ WaitArrival \/ WaitTimeout
  BY <1>2, AbortFollows
  DEF SkipNode, AtNode, EndPass, WaitArrival, WaitTimeout
<1>3. CASE Submit
  <2>1. AllStay
    BY <1>3, SubmitFollows DEF Submit, SqAfterSubmit
  <2> QED
    BY <1>3, <2>1 DEF Submit, Follows
<1>4. CASE Consume
  BY <1>4, ConsumeFollows DEF Consume, Follows
<1>5. ASSUME NEW t \in Task, CoroutineStep(t) PROVE Follows
  <2>1. CASE FinishRoot(t) \/ AwaitOp(t)
    BY <2>1, FinishFollows, AwaitFollows
  <2>2. CASE \E n \in 1 .. PassEntries : SubmitInPass(t, n)
    <3>1. AllStay
      BY <2>2, SubmitFollows DEF SubmitInPass, SqAfterSubmit
    <3> QED
      BY <2>2, <3>1 DEF SubmitInPass, Follows
  <2>3. CASE \E u \in Task : CoSpawn(t, u)
    BY <2>3, CoSpawnFollows
  <2>4. CASE CallTask(t) \/ ReturnToCaller(t) \/ NoSqe(t) \/ Unwind(t)
             \/ Catch(t)
    BY <2>4, AbortFollows
    DEF CallTask, ReturnToCaller, NoSqe, Unwind, Catch, Executing
  <2> QED
    BY <1>5, <2>1, <2>2, <2>3, <2>4 DEF CoroutineStep
<1>6. CASE KernelStep
  BY <1>6, KernelFollows DEF KernelStep
<1>7. ASSUME NEW u \in Task, RingTaskArrives(u) PROVE Follows
  BY <1>7, RingTaskFollows DEF RingTaskArrives, Follows
<1>8. CASE UNCHANGED vars
  BY <1>8, NothingMoves DEF vars, Follows
<1> QED
  BY <1>1, <1>2, <1>3, <1>4, <1>5, <1>6, <1>7, <1>8
  DEF Next, ThreadStep, LoopStep

LEMMA PromiseInvariance == SafeSpec => []PromiseInv
<1>1. Init => PromiseInv
  BY InvInit, IdleInit DEF PromiseInv
<1>2. PromiseInv /\ [Next]_vars => PromiseInv'
  BY InvStep, IdleStep DEF PromiseInv
<1> QED
  BY <1>1, <1>2, PTL DEF SafeSpec

\* What `auto [res, flag] = co_await SomeAwaiter{}` promises, for any number of
\* tasks and requests (uring_awaiter.hpp:19-44, uring.hpp:223-227,
\* task_loop.hpp:16-21): the task sleeps from the await to the completion of its
\* own operation, is woken by that one, reads that operation's result, and reads
\* it before it awaits again or finishes.
THEOREM AwaitsAreAnswered == SafeSpec => Promise!SafeSpec
<1>1. Init => Promise!Init
  <2> SUFFICES ASSUME Init PROVE Promise!Init
    OBVIOUS
  <2>1. sq = <<>> /\ kernel = {} /\ cq = <<>> /\ pc = "run"
    BY DEF Init
  <2>2. \A t \in Task : ~Waiting(t) /\ ~InCq(t) /\ valid[t]
                        /\ token[t].cqe_res = "nosys"
    BY <2>1 DEF Init, Waiting, InSq, InKernel, InCq, NoToken
  <2>3. \A t \in Task : StateOf(t) \in {"absent", "ready"}
                        /\ ResultOf(t) = "nosys"
    BY <2>2 DEF StateOf, ResultOf, Waiting
  <2> QED
    BY <2>1, <2>3 DEF Promise!Init
<1>2. PromiseInv /\ PromiseInv' /\ [Next]_vars => [Promise!Next]_(Promise!vars)
  <2> SUFFICES ASSUME PromiseInv, PromiseInv', [Next]_vars
               PROVE  [Promise!Next]_(Promise!vars)
    OBVIOUS
  <2> DEFINE st == [t \in Task |-> StateOf(t)]
             result == [t \in Task |-> ResultOf(t)]
  <2>1. Follows
    BY NextFollows
  <2>2. ASSUME AllStay PROVE UNCHANGED <<st, result>>
    BY <2>2 DEF AllStay, Stays
  <2>3. ASSUME NEW t \in Task, NEW from, NEW to, Moves(t, from, to)
        PROVE  Promise!Move(t, from, to)
    BY <2>3 DEF Moves, OnlyOne, Stays, GoesOn, Promise!Move
  <2>4. ASSUME NEW t \in Task, NEW from, NEW to, Moves(t, from, to),
               KeepsResult(t)
        PROVE  UNCHANGED result
    BY <2>4 DEF Moves, OnlyOne, Stays, KeepsResult
  <2>5. ASSUME NEW t \in Task, NEW r, NEW from, NEW to, Moves(t, from, to),
               ResultOf(t)' = r
        PROVE  result' = [result EXCEPT ![t] = r]
    BY <2>5 DEF Moves, OnlyOne, Stays
  <2>6. CASE AllStay /\ UNCHANGED (pc # "terminated")
    BY <2>2, <2>6 DEF Promise!vars
  <2>7. CASE AllStay /\ pc # "terminated" /\ pc' = "terminated"
    BY <2>2, <2>7 DEF Promise!Next, Promise!Abort
  <2>8. ASSUME NEW t \in Task, Spawns(t) PROVE Promise!Next
    BY <2>3, <2>4, <2>8 DEF Spawns, Promise!Next, Promise!Spawn
  <2>9. ASSUME NEW t \in Task, Awaits(t) PROVE Promise!Next
    BY <2>3, <2>4, <2>9 DEF Awaits, Promise!Next, Promise!Await
  <2>10. ASSUME NEW t \in Task, Ends(t) PROVE Promise!Next
    BY <2>3, <2>4, <2>10 DEF Ends, Promise!Next, Promise!Finish
  <2>11. ASSUME NEW t \in Task, Wakes(t) PROVE Promise!Next
    BY <2>3, <2>4, <2>11 DEF Wakes, Promise!Next, Promise!Wake
  <2>12. ASSUME NEW t \in Task, Takes(t) PROVE Promise!Next
    <3>1. result' = [result EXCEPT ![t] = "nosys"]
      BY <2>5, <2>12 DEF Takes
    <3>2. UNCHANGED st
      BY <2>12 DEF Takes, Moves, OnlyOne, Stays
    <3> QED
      BY <2>12, <3>1, <3>2
      DEF Takes, Moves, OnlyOne, GoesOn, Promise!Next, Promise!Take
  <2>13. ASSUME NEW t \in Task, NEW r \in Results, Completes(t, r)
         PROVE  Promise!Next
    BY <2>3, <2>5, <2>13 DEF Completes, Promise!Next, Promise!Complete
  <2> QED
    BY <2>1, <2>6, <2>7, <2>8, <2>9, <2>10, <2>11, <2>12, <2>13 DEF Follows
<1> QED
  BY <1>1, <1>2, PromiseInvariance, PTL DEF SafeSpec, Promise!SafeSpec
=============================================================================
