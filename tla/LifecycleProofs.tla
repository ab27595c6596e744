--------------------------- MODULE LifecycleProofs ---------------------------
(***************************************************************************)
(* Proofs about Lifecycle, for any number of workers and of completions.   *)
(*                                                                         *)
(* The latch is not the number of workers that are still to register: one  *)
(* that counts down before it is constructed is not counted at all.  What  *)
(* holds is that it never promises too much (LatchInv), and AllRegistered  *)
(* follows from that alone.                                                *)
(*                                                                         *)
(* terminate() runs on top of a batch and empties the queue under it: the  *)
(* batch has stopped by then, but for the completion that was past the test*)
(* (BatchInv).                                                             *)
(***************************************************************************)
EXTENDS Lifecycle, FiniteSetTheorems, TLAPS

-----------------------------------------------------------------------------
(* The inductive invariant.                                                 *)

StartTypeOK ==
  /\ main \in {"ring", "workers", "latch", "wait", "table", "pass", "sleep",
              "batch", "handle", "join", "close", "frames", "done", "dead"}
  /\ latch \in Nat
  /\ constructed \in BOOLEAN
  /\ worker \in [Worker -> {"none", "boot", "pass", "sleep", "check", "return",
                         "frames", "exited", "dead"}]
  /\ registered \subseteq Worker

\* A worker registers when it has booted, and once.  (One that dies may have
\* registered or not.)
RegisterInv ==
  \A w \in Worker :
    /\ worker[w] \in {"none", "boot"} => w \notin registered
    /\ worker[w] \notin {"none", "boot", "dead"} => w \in registered

\* Where the constructor of SystemLoop is.
ConstructInv ==
  /\ main \in {"ring", "workers"} => \A w \in Worker : worker[w] = "none"
  /\ main = "wait" => constructed
  /\ constructed => main \notin {"ring", "workers", "latch"}

\* Each worker that has not registered is still in the counter.
LatchInv == constructed => Cardinality(Worker \ registered) <= latch

StartInv ==
  StartTypeOK /\ RegisterInv /\ ConstructInv /\ LatchInv /\ AllRegistered

\* A Quit message is sent after request_stop.
StopInv ==
  /\ term # "none" => stopRequested
  /\ \A w \in Worker : quit[w] # "none" => stopRequested

QuitTypeOK == quit \in [Worker -> {"none", "sent", "handled"}]

QuitInv == QuitTypeOK /\ StopInv

-----------------------------------------------------------------------------
LEMMA UnregisteredFinite ==
  ASSUME NEW S
  PROVE  IsFiniteSet(Worker \ S) /\ Cardinality(Worker \ S) \in Nat
  BY WorkerAssumption, FS_Difference, FS_CardinalityType

LEMMA OneFewer ==
  ASSUME NEW S, NEW w \in Worker \ S
  PROVE  Cardinality(Worker \ (S \cup {w})) = Cardinality(Worker \ S) - 1
<1>1. Worker \ (S \cup {w}) = (Worker \ S) \ {w}
  OBVIOUS
<1> QED
  BY <1>1, UnregisteredFinite, FS_RemoveElement

LEMMA StartInit == Init => StartInv
<1> SUFFICES ASSUME Init PROVE StartInv
  OBVIOUS
<1>1. StartTypeOK
  BY DEF Init, StartTypeOK
<1>2. RegisterInv /\ ConstructInv /\ LatchInv /\ AllRegistered
  BY DEF Init, RegisterInv, ConstructInv, LatchInv, AllRegistered, Starting
<1> QED
  BY <1>1, <1>2 DEF StartInv

\* The steps that neither start up nor touch the latch.
LEMMA StartUntouched ==
  ASSUME StartInv, UNCHANGED startVars, StartTypeOK',
         main' = main \/ (~Starting /\ main' \notin {"ring", "workers", "latch", "wait"}),
         \A w \in Worker :
           worker'[w] = worker[w]
             \/ (worker[w] \notin {"none", "boot", "dead"}
                  /\ worker'[w] \notin {"none", "boot"})
  PROVE  StartInv'
<1> USE DEF StartInv, startVars, Starting
<1>1. RegisterInv'
  BY DEF RegisterInv
<1>2. ConstructInv'
  BY DEF ConstructInv
<1>3. LatchInv' /\ AllRegistered'
  BY DEF LatchInv, AllRegistered
<1> QED
  BY <1>1, <1>2, <1>3

LEMMA StartStep == StartInv /\ [Next]_vars => StartInv'
<1> SUFFICES ASSUME StartInv, [Next]_vars PROVE StartInv'
  OBVIOUS
<1> USE DEF startVars, batchVars, quitVars, endVars
<1>0. CASE OpenRing \/ BootFails
  BY <1>0 DEF OpenRing, BootFails, StartInv, StartTypeOK, RegisterInv,
              ConstructInv, LatchInv, AllRegistered, Starting
<1>1. CASE StartWorkers
  BY <1>1 DEF StartWorkers, StartInv, StartTypeOK, RegisterInv, ConstructInv,
              LatchInv, AllRegistered, Starting
<1>2. CASE ConstructLatch
  <2>1. Cardinality(Worker) \in Nat
    BY WorkerAssumption, FS_CardinalityType
  <2>2. Cardinality(Worker \ registered) <= Cardinality(Worker)
    BY WorkerAssumption, FS_Subset
  <2>3. StartTypeOK' /\ LatchInv'
    BY <1>2, <2>1, <2>2
    DEF ConstructLatch, LatchCount, StartInv, StartTypeOK, LatchInv
  <2> QED
    BY <1>2, <2>3
    DEF ConstructLatch, StartInv, RegisterInv, ConstructInv, AllRegistered,
        Starting
<1>3. CASE WaitLatch
  <2>1. Cardinality(Worker \ registered) = 0
    BY <1>3, UnregisteredFinite
    DEF WaitLatch, StartInv, StartTypeOK, ConstructInv, LatchInv
  <2>2. registered = Worker
    BY <2>1, UnregisteredFinite, FS_EmptySet DEF StartInv, StartTypeOK
  <2> QED
    BY <1>3, <2>2
    DEF WaitLatch, StartInv, StartTypeOK, RegisterInv, ConstructInv, LatchInv,
        AllRegistered, Starting
<1>4. ASSUME NEW w \in Worker, Register(w) PROVE StartInv'
  <2>1. w \in Worker \ registered
    BY <1>4 DEF Register, StartInv, RegisterInv
  <2>2. Cardinality(Worker \ registered') = Cardinality(Worker \ registered) - 1
    BY <1>4, <2>1, OneFewer DEF Register
  <2>3. Cardinality(Worker \ registered) \in Nat /\ Cardinality(Worker \ registered') \in Nat
    BY UnregisteredFinite
  <2>4. latch' \in Nat /\ LatchInv'
    BY <1>4, <2>2, <2>3 DEF Register, StartInv, StartTypeOK, LatchInv
  <2>5. StartTypeOK'
    BY <1>4, <2>4 DEF Register, StartInv, StartTypeOK
  <2>6. RegisterInv'
    BY <1>4 DEF Register, StartInv, StartTypeOK, RegisterInv
  <2>7. ConstructInv' /\ AllRegistered'
    BY <1>4, <2>1
    DEF Register, StartInv, StartTypeOK, RegisterInv, ConstructInv,
        AllRegistered, Starting
  <2> QED
    BY <2>4, <2>5, <2>6, <2>7 DEF StartInv
<1>5. CASE \/ RegisterFiles \/ RegisterFilesFails
           \/ PassAndSubmit \/ Wake \/ TakeUp \/ HandleOne \/ EndBatch
           \/ Join \/ CloseRing \/ DestroyTasks
           \/ SendQuit \/ WaitArrival \/ ProcessAll \/ Sigint \/ OpCompletes
           \/ (\E t \in Thread : Hold(t)) \/ UNCHANGED vars
  <2>1. UNCHANGED <<startVars, worker>>
    BY <1>5
    DEF RegisterFiles, RegisterFilesFails, PassAndSubmit, Wake, TakeUp, HandleOne,
        EndBatch, Join, CloseRing, DestroyTasks, SendQuit, WaitArrival,
        ProcessAll, Sigint, OpCompletes, Hold, vars
  <2>2. main' = main
          \/ (~Starting /\ main' \in {"pass", "sleep", "batch", "handle", "join",
                                     "close", "frames", "done"})
    BY <1>5
    DEF RegisterFiles, RegisterFilesFails, PassAndSubmit, Wake, TakeUp, HandleOne,
        EndBatch, Join, CloseRing, DestroyTasks, SendQuit, WaitArrival,
        ProcessAll, Sigint, OpCompletes, Hold, vars, LoopOrLeave, Starting
  <2>3. StartTypeOK'
    BY <2>1, <2>2 DEF StartInv, StartTypeOK
  <2> QED
    BY <2>1, <2>2, <2>3, StartUntouched
<1>6. ASSUME NEW w \in Worker,
             \/ WorkerPass(w) \/ WorkerBatch(w) \/ WorkerCheck(w)
             \/ WorkerCloseRing(w) \/ WorkerDestroyTasks(w)
      PROVE  StartInv'
  <2>1. UNCHANGED <<startVars, main>>
    BY <1>6 DEF WorkerPass, WorkerBatch, WorkerCheck, WorkerCloseRing,
                WorkerDestroyTasks
  <2>2. StartTypeOK'
    BY <1>6, <2>1
    DEF WorkerPass, WorkerBatch, WorkerCheck, WorkerCloseRing,
        WorkerDestroyTasks, StartInv, StartTypeOK
  <2>3. \A v \in Worker :
          \/ worker'[v] = worker[v]
          \/ /\ worker[v] \notin {"none", "boot", "dead"}
             /\ worker'[v] \notin {"none", "boot"}
    BY <1>6
    DEF WorkerPass, WorkerBatch, WorkerCheck, WorkerCloseRing,
        WorkerDestroyTasks, StartInv, StartTypeOK
  <2> QED
    BY <2>1, <2>2, <2>3, StartUntouched
<1> QED
  BY <1>0, <1>1, <1>2, <1>3, <1>4, <1>5, <1>6 DEF Next, MainStep, WorkerStep

\* Once the constructor of SystemLoop has passed the latch, uring_fds_ is
\* complete, although count-downs may have been lost (context.hpp:32, 87-88).
THEOREM RegisteredBeforeUse == SafeSpec => []AllRegistered
<1>1. StartInv => AllRegistered
  BY DEF StartInv
<1> QED
  BY <1>1, StartInit, StartStep, PTL DEF SafeSpec

-----------------------------------------------------------------------------
LEMMA QuitInit == Init => QuitInv
  BY DEF Init, QuitInv, QuitTypeOK, StopInv

LEMMA QuitStep == QuitInv /\ [Next]_vars => QuitInv'
<1> SUFFICES ASSUME QuitInv, [Next]_vars PROVE QuitInv'
  OBVIOUS
<1> USE DEF QuitInv, QuitTypeOK, StopInv, startVars, batchVars, quitVars, endVars
<1>1. CASE \/ OpenRing \/ StartWorkers \/ ConstructLatch \/ WaitLatch
           \/ RegisterFiles \/ BootFails
  BY <1>1 DEF OpenRing, StartWorkers, ConstructLatch, WaitLatch, RegisterFiles,
              BootFails
<1>2. CASE \/ PassAndSubmit \/ Wake \/ TakeUp \/ HandleOne \/ EndBatch
           \/ Join \/ CloseRing \/ DestroyTasks \/ OpCompletes
           \/ (\E t \in Thread : Hold(t)) \/ UNCHANGED vars
  BY <1>2 DEF PassAndSubmit, Wake, TakeUp, HandleOne, EndBatch, Join, CloseRing,
              DestroyTasks, OpCompletes, Hold, vars
<1>3. CASE Sigint
  BY <1>3 DEF Sigint, StopRequested
<1>4. CASE SendQuit
  BY <1>4 DEF SendQuit
<1>5. CASE WaitArrival \/ ProcessAll
  BY <1>5 DEF WaitArrival, ProcessAll
<1>6. ASSUME NEW w \in Worker,
             \/ Register(w) \/ WorkerPass(w) \/ WorkerCheck(w)
             \/ WorkerCloseRing(w) \/ WorkerDestroyTasks(w)
      PROVE  QuitInv'
  BY <1>6 DEF Register, WorkerPass, WorkerCheck, WorkerCloseRing,
              WorkerDestroyTasks
<1>7. ASSUME NEW w \in Worker, WorkerBatch(w) PROVE QuitInv'
  <2>1. quit' \in [Worker -> {"none", "sent", "handled"}]
    BY <1>7 DEF WorkerBatch
  <2>2. \A v \in Worker : quit'[v] # "none" => quit[v] # "none"
    BY <1>7 DEF WorkerBatch
  <2> QED
    BY <1>7, <2>1, <2>2 DEF WorkerBatch
<1>8. CASE RegisterFilesFails
  BY <1>8 DEF RegisterFilesFails
<1> QED
  BY <1>1, <1>2, <1>3, <1>4, <1>5, <1>6, <1>7, <1>8
  DEF Next, MainStep, WorkerStep

\* A worker handles Quit only after request_stop, so that it leaves before its
\* ring would drop completions (worker.hpp:63, uring.hpp:117-127).
THEOREM QuitAfterStop == SafeSpec => []QuitFindsStop
<1>1. QuitInv => QuitFindsStop
  BY DEF QuitInv, StopInv, QuitFindsStop
<1> QED
  BY <1>1, QuitInit, QuitStep, PTL DEF SafeSpec

-----------------------------------------------------------------------------
(* The main ring and the threads that are attached to it.                   *)

\* The destructors go on from "join" only with every thread gone, and no step
\* brings one back.
JoinInv ==
  main \in {"close", "frames", "done"} => \A w \in Worker : worker[w] = "exited"

OutliveInv == StartTypeOK /\ JoinInv

LEMMA OutliveStep == StartInv /\ OutliveInv /\ [Next]_vars => OutliveInv'
<1> SUFFICES ASSUME StartInv, OutliveInv, [Next]_vars PROVE OutliveInv'
  OBVIOUS
<1>0. StartTypeOK'
  BY StartStep DEF StartInv
<1> SUFFICES JoinInv'
  BY <1>0 DEF OutliveInv
<1> USE DEF JoinInv, OutliveInv, startVars, batchVars, quitVars, endVars
<1>1. CASE \/ OpenRing \/ StartWorkers \/ ConstructLatch \/ WaitLatch
           \/ RegisterFiles \/ RegisterFilesFails \/ BootFails
           \/ PassAndSubmit \/ Wake \/ TakeUp \/ HandleOne \/ EndBatch
  BY <1>1 DEF OpenRing, StartWorkers, ConstructLatch, WaitLatch, RegisterFiles,
              RegisterFilesFails, BootFails, PassAndSubmit, Wake, TakeUp,
              HandleOne, EndBatch, LoopOrLeave
<1>2. CASE Join
  BY <1>2 DEF Join, AllJoined
<1>3. CASE CloseRing \/ DestroyTasks
  BY <1>3 DEF CloseRing, DestroyTasks
<1>4. CASE \/ SendQuit \/ WaitArrival \/ ProcessAll \/ Sigint
           \/ OpCompletes \/ (\E t \in Thread : Hold(t)) \/ UNCHANGED vars
  BY <1>4 DEF SendQuit, WaitArrival, ProcessAll, Sigint, OpCompletes, Hold, vars
<1>5. ASSUME NEW w \in Worker, WorkerStep(w) PROVE JoinInv'
  <2>1. main' = main /\ worker[w] # "exited"
    BY <1>5 DEF WorkerStep, Register, WorkerPass, WorkerBatch, WorkerCheck,
                WorkerCloseRing, WorkerDestroyTasks
  <2> QED
    BY <2>1
<1> QED
  BY <1>1, <1>2, <1>3, <1>4, <1>5 DEF Next, MainStep

\* The ring that every worker ring is attached to, whose slots the workers close,
\* is not closed while one of them runs (context.hpp:92-98, worker.hpp:32, 71-75).
THEOREM MainRingLast == SafeSpec => []MainRingOutlivesWorkers
<1>1. Init => StartInv /\ OutliveInv
  BY StartInit DEF Init, StartInv, OutliveInv, JoinInv
<1>2. OutliveInv => MainRingOutlivesWorkers
  BY DEF OutliveInv, JoinInv, MainRingOutlivesWorkers
<1>3. (StartInv /\ OutliveInv) /\ [Next]_vars => (StartInv /\ OutliveInv)'
  BY StartStep, OutliveStep
<1> QED
  BY <1>1, <1>2, <1>3, PTL DEF SafeSpec

-----------------------------------------------------------------------------
(* Every component keeps its type.                                          *)

\* consume drops the completions of the batch; what is left is completions.
LEMMA RestTyped ==
  ASSUME NEW S, NEW q \in Seq(S), NEW n \in Nat, n <= Len(q)
  PROVE  SubSeq(q, n + 1, Len(q)) \in Seq(S)
  OBVIOUS

\* What a completion of the main ring is.
Completion == {"op", "quit", "stale"}

LEMMA Completions ==
  /\ <<>> \in Seq(Completion)
  /\ \A q \in Seq(Completion) :
       /\ Append(q, "op") \in Seq(Completion)
       /\ Append(q, "quit") \in Seq(Completion)
       /\ q \o <<"stale", "quit">> \in Seq(Completion)
<1>1. "op" \in Completion /\ "quit" \in Completion /\ "stale" \in Completion
  BY DEF Completion
<1>2. <<"stale", "quit">> \in Seq(Completion)
  BY <1>1
<1> QED
  BY <1>1, <1>2

LEMMA CountOfWorkers == Cardinality(Worker) \in Nat
  BY WorkerAssumption, FS_CardinalityType

LatchTypeOK == latch \in 0 .. Cardinality(Worker)

\* The batch of the main thread.
BatchTypeOK ==
  /\ cq \in Seq(Completion)
  /\ peeked \in Nat /\ handled \in 0 .. peeked /\ taken \in Nat
  /\ main = "handle" => handled < peeked
  /\ quitMain \in BOOLEAN
  /\ ops \in 0 .. MaxOps

StopTypeOK ==
  /\ stopRequested \in BOOLEAN
  /\ term \in {"none", "send", "wait", "process", "done"}

EndTypeOK == undefined \in BOOLEAN /\ holding \subseteq Thread

TypeParts ==
  LatchTypeOK /\ BatchTypeOK /\ StopTypeOK /\ EndTypeOK

LEMMA TypeInit == Init => TypeParts
<1> SUFFICES ASSUME Init PROVE TypeParts
  OBVIOUS
<1>1. LatchTypeOK
  BY CountOfWorkers DEF Init, LatchTypeOK
<1>2. BatchTypeOK
  <2>1. cq \in Seq(Completion)
    BY Completions DEF Init
  <2>2. /\ peeked \in Nat /\ handled \in Nat /\ handled = peeked /\ taken \in Nat
        /\ main # "handle" /\ quitMain \in BOOLEAN
    BY DEF Init
  <2>3. ops \in 0 .. MaxOps
    BY BoundAssumption DEF Init
  <2> QED
    BY <2>1, <2>2, <2>3 DEF BatchTypeOK
<1>3. StopTypeOK /\ EndTypeOK
  BY DEF Init, StopTypeOK, EndTypeOK
<1> QED
  BY <1>1, <1>2, <1>3 DEF TypeParts

\* The counter is at least the number of those who have not registered, so the
\* one that registers now finds it positive.
LEMMA LatchTyped == StartInv /\ LatchTypeOK /\ [Next]_vars => LatchTypeOK'
<1> SUFFICES ASSUME StartInv, LatchTypeOK, [Next]_vars PROVE LatchTypeOK'
  OBVIOUS
<1> USE CountOfWorkers DEF LatchTypeOK, startVars
<1>1. CASE ConstructLatch
  BY <1>1 DEF ConstructLatch, LatchCount
<1>2. ASSUME NEW w \in Worker, Register(w) PROVE LatchTypeOK'
  <2>1. StartInv'
    BY StartStep
  <2>2. latch' \in Nat
    BY <2>1 DEF StartInv, StartTypeOK
  <2>3. latch' <= Cardinality(Worker)
    BY <1>2 DEF Register
  <2> QED
    BY <2>2, <2>3
<1>3. CASE \/ OpenRing \/ StartWorkers \/ WaitLatch \/ RegisterFiles
           \/ RegisterFilesFails \/ BootFails
           \/ PassAndSubmit \/ Wake \/ TakeUp \/ HandleOne \/ EndBatch
           \/ Join \/ CloseRing \/ DestroyTasks
  BY <1>3 DEF OpenRing, StartWorkers, WaitLatch, RegisterFiles, RegisterFilesFails,
              BootFails, PassAndSubmit, Wake, TakeUp, HandleOne, EndBatch, Join,
              CloseRing, DestroyTasks
<1>4. CASE \/ SendQuit \/ WaitArrival \/ ProcessAll \/ Sigint \/ OpCompletes
           \/ (\E t \in Thread : Hold(t)) \/ UNCHANGED vars
  BY <1>4 DEF SendQuit, WaitArrival, ProcessAll, Sigint, OpCompletes, Hold, vars
<1>5. ASSUME NEW w \in Worker,
             \/ WorkerPass(w) \/ WorkerBatch(w) \/ WorkerCheck(w)
             \/ WorkerCloseRing(w) \/ WorkerDestroyTasks(w)
      PROVE  LatchTypeOK'
  BY <1>5 DEF WorkerPass, WorkerBatch, WorkerCheck, WorkerCloseRing,
              WorkerDestroyTasks
<1> QED
  BY <1>1, <1>2, <1>3, <1>4, <1>5 DEF Next, MainStep, WorkerStep

LEMMA BatchTyped == BatchTypeOK /\ [Next]_vars => BatchTypeOK'
<1> SUFFICES ASSUME BatchTypeOK, [Next]_vars PROVE BatchTypeOK'
  OBVIOUS
<1> USE DEF BatchTypeOK, batchVars
<1>1. CASE Wake
  <2>1. Len(cq) \in Nat /\ 0 \in 0 .. Len(cq)
    OBVIOUS
  <2> QED
    BY <1>1, <2>1 DEF Wake, LoopOrLeave
<1>2. CASE HandleOne
  <2>1. handled' \in 0 .. peeked /\ main' # "handle"
    BY <1>2 DEF HandleOne
  <2>2. quitMain' \in BOOLEAN
    BY <1>2 DEF HandleOne, Handle
  <2> QED
    BY <1>2, <2>1, <2>2 DEF HandleOne
<1>3. CASE EndBatch
  <2>1. cq' = cq \/ cq' = <<>> \/ (peeked <= Len(cq) /\ cq' = SubSeq(cq, peeked + 1, Len(cq)))
    BY <1>3 DEF EndBatch
  <2>2. cq' \in Seq(Completion)
    BY <2>1, RestTyped, Completions
  <2> QED
    BY <1>3, <2>2 DEF EndBatch, LoopOrLeave
<1>4. CASE OpCompletes
  BY <1>4, BoundAssumption, Completions DEF OpCompletes
<1>5. CASE SendQuit
  <2>1. cq' \in Seq(Completion)
    BY <1>5, Completions DEF SendQuit
  <2> QED
    BY <1>5, <2>1 DEF SendQuit
<1>6. CASE ProcessAll
  <2>1. Len(cq) \in Nat /\ <<>> \in Seq(Completion)
    BY Completions
  <2> QED
    BY <1>6, <2>1 DEF ProcessAll, Handle
<1>7. CASE \/ OpenRing \/ StartWorkers \/ ConstructLatch \/ WaitLatch
           \/ RegisterFiles \/ RegisterFilesFails \/ BootFails \/ PassAndSubmit
           \/ Join \/ CloseRing \/ DestroyTasks
  BY <1>7 DEF OpenRing, StartWorkers, ConstructLatch, WaitLatch, RegisterFiles,
              RegisterFilesFails, BootFails, PassAndSubmit, Join, CloseRing,
              DestroyTasks
<1>8. CASE \/ WaitArrival \/ Sigint \/ (\E t \in Thread : Hold(t)) \/ UNCHANGED vars
  BY <1>8 DEF WaitArrival, Sigint, Hold, vars
<1>9. CASE TakeUp
  BY <1>9 DEF TakeUp
<1>10. ASSUME NEW w \in Worker, WorkerStep(w) PROVE BatchTypeOK'
  BY <1>10 DEF WorkerStep, Register, WorkerPass, WorkerBatch, WorkerCheck,
              WorkerCloseRing, WorkerDestroyTasks
<1> QED
  BY <1>1, <1>2, <1>3, <1>4, <1>5, <1>6, <1>7, <1>8, <1>9, <1>10
  DEF Next, MainStep

LEMMA StopAndEndTyped ==
  StopTypeOK /\ EndTypeOK /\ [Next]_vars => StopTypeOK' /\ EndTypeOK'
<1> SUFFICES ASSUME StopTypeOK, EndTypeOK, [Next]_vars
             PROVE  StopTypeOK' /\ EndTypeOK'
  OBVIOUS
<1> USE DEF StopTypeOK, EndTypeOK, quitVars, endVars
<1>1. CASE HandleOne \/ ProcessAll
  BY <1>1 DEF HandleOne, ProcessAll, Handle
<1>2. CASE EndBatch
  BY <1>2 DEF EndBatch
<1>3. CASE DestroyTasks
  BY <1>3 DEF DestroyTasks, DestroyFrames
<1>4. CASE Sigint
  BY <1>4 DEF Sigint, StopRequested
<1>5. CASE SendQuit \/ WaitArrival
  BY <1>5 DEF SendQuit, WaitArrival
<1>6. CASE RegisterFilesFails
  BY <1>6 DEF RegisterFilesFails
<1>7. ASSUME NEW t \in Thread, Hold(t) PROVE StopTypeOK' /\ EndTypeOK'
  BY <1>7 DEF Hold
<1>8. CASE \/ OpenRing \/ StartWorkers \/ ConstructLatch \/ WaitLatch
           \/ RegisterFiles \/ BootFails \/ PassAndSubmit \/ Wake \/ TakeUp
           \/ Join \/ CloseRing \/ OpCompletes \/ UNCHANGED vars
  BY <1>8 DEF OpenRing, StartWorkers, ConstructLatch, WaitLatch, RegisterFiles,
              BootFails, PassAndSubmit, Wake, TakeUp, Join, CloseRing, OpCompletes,
              vars
<1>9. ASSUME NEW w \in Worker, WorkerDestroyTasks(w)
      PROVE  StopTypeOK' /\ EndTypeOK'
  BY <1>9 DEF WorkerDestroyTasks, DestroyFrames
<1>10. ASSUME NEW w \in Worker,
              \/ Register(w) \/ WorkerPass(w) \/ WorkerBatch(w) \/ WorkerCheck(w)
              \/ WorkerCloseRing(w)
       PROVE  StopTypeOK' /\ EndTypeOK'
  BY <1>10 DEF Register, WorkerPass, WorkerBatch, WorkerCheck, WorkerCloseRing
<1> QED
  BY <1>1, <1>2, <1>3, <1>4, <1>5, <1>6, <1>7, <1>8, <1>9, <1>10
  DEF Next, MainStep, WorkerStep

\* Every component keeps its type, and the latch, which a worker may count down
\* before it is constructed (context.hpp:32, worker.hpp:45), never goes below
\* zero: count_down below zero is undefined.
THEOREM TypeInvariant == SafeSpec => []TypeOK
<1> DEFINE All == StartInv /\ QuitInv /\ TypeParts
<1>1. Init => All
  BY StartInit, QuitInit, TypeInit
<1>2. All /\ [Next]_vars => All'
  BY StartStep, QuitStep, LatchTyped, BatchTyped, StopAndEndTyped DEF TypeParts
<1>3. All => TypeOK
  BY DEF TypeParts, LatchTypeOK, BatchTypeOK, StopTypeOK, EndTypeOK, StartInv,
         StartTypeOK, QuitInv, QuitTypeOK, TypeOK, Completion
<1> QED
  BY <1>1, <1>2, <1>3, PTL DEF SafeSpec

-----------------------------------------------------------------------------
(* A batch, and terminate() on top of it.                                   *)

\* terminate() empties the queue only with a Quit of its own in it, which stops
\* the ring; until then the queue only grows under the batch.
BatchInv ==
  /\ term \in {"wait", "process"} => \E i \in 1 .. Len(cq) : cq[i] = "quit"
  /\ term = "done" => quitMain
  /\ term # "done" => taken = 0 /\ peeked <= Len(cq)

\* A message is posted at the end, and nothing that was there is lost.
LEMMA PostedAtEnd ==
  ASSUME NEW S, NEW q \in Seq(S), NEW m \in S
  PROVE  /\ Len(Append(q, m)) = Len(q) + 1 /\ Append(q, m)[Len(q) + 1] = m
         /\ \A i \in 1 .. Len(q) : Append(q, m)[i] = q[i]
  OBVIOUS

LEMMA BatchInit == Init => BatchInv
  BY DEF Init, BatchInv

LEMMA BatchStep == BatchTypeOK /\ BatchInv /\ [Next]_vars => BatchInv'
<1> SUFFICES ASSUME BatchTypeOK, BatchInv, [Next]_vars PROVE BatchInv'
  OBVIOUS
<1> USE DEF BatchInv, batchVars, quitVars
<1>0. cq \in Seq(Completion) /\ Len(cq) \in Nat /\ peeked \in Nat
  BY DEF BatchTypeOK
<1>1. CASE Wake
  BY <1>0, <1>1 DEF Wake, InLoop
<1>2. CASE HandleOne
  BY <1>2 DEF HandleOne, Handle, InLoop, BatchTypeOK
<1>3. CASE EndBatch
  <2>1. cq' = cq \/ cq' \in Seq(Completion)
    BY <1>0, <1>3, RestTyped, Completions DEF EndBatch
  <2>2. Len(cq') \in Nat
    BY <1>0, <2>1
  <2> QED
    BY <1>3, <2>2 DEF EndBatch, InLoop
<1>4. CASE OpCompletes
  <2>1. /\ Len(cq') = Len(cq) + 1
        /\ \A i \in 1 .. Len(cq) : cq'[i] = cq[i]
    BY <1>0, <1>4, PostedAtEnd DEF OpCompletes, Completion
  <2> QED
    BY <1>0, <1>4, <2>1 DEF OpCompletes
<1>5. CASE SendQuit
  <2>1. \/ cq' = Append(cq, "quit")
        \/ cq' = cq \o <<"stale", "quit">>
    BY <1>5 DEF SendQuit
  <2>2. /\ Len(cq') \in Nat /\ Len(cq') >= Len(cq) + 1
        /\ cq'[Len(cq')] = "quit"
    <3>1. CASE cq' = Append(cq, "quit")
      BY <1>0, <3>1 DEF Completion
    <3>2. CASE cq' = cq \o <<"stale", "quit">>
      <4>1. Len(<<"stale", "quit">>) = 2 /\ <<"stale", "quit">>[2] = "quit"
        OBVIOUS
      <4> QED
        BY <1>0, <3>2, <4>1
    <3> QED
      BY <2>1, <3>1, <3>2
  <2>3. Len(cq') \in 1 .. Len(cq')
    BY <1>0, <2>2
  <2> QED
    BY <1>0, <1>5, <2>2, <2>3 DEF SendQuit
<1>6. CASE WaitArrival
  BY <1>6 DEF WaitArrival
<1>7. CASE ProcessAll
  <2>1. "quit" \in {cq[i] : i \in 1 .. Len(cq)}
    BY <1>7 DEF ProcessAll
  <2> QED
    BY <1>7, <2>1 DEF ProcessAll, Handle, BatchTypeOK
<1>8. CASE Sigint
  BY <1>8 DEF Sigint
<1>9. CASE \/ OpenRing \/ StartWorkers \/ ConstructLatch \/ WaitLatch
           \/ RegisterFiles \/ RegisterFilesFails \/ BootFails \/ PassAndSubmit
           \/ Join \/ CloseRing \/ DestroyTasks
  BY <1>9 DEF OpenRing, StartWorkers, ConstructLatch, WaitLatch, RegisterFiles,
              RegisterFilesFails, BootFails, PassAndSubmit, Join, CloseRing,
              DestroyTasks
<1>10. CASE TakeUp \/ (\E t \in Thread : Hold(t)) \/ UNCHANGED vars
  BY <1>10 DEF TakeUp, Hold, vars
<1>11. ASSUME NEW w \in Worker, WorkerStep(w) PROVE BatchInv'
  BY <1>11 DEF WorkerStep, Register, WorkerPass, WorkerBatch, WorkerCheck,
               WorkerCloseRing, WorkerDestroyTasks
<1> QED
  BY <1>1, <1>2, <1>3, <1>4, <1>5, <1>6, <1>7, <1>8, <1>9, <1>10, <1>11
  DEF Next, MainStep

\* A batch that a signal handler has interrupted takes up no completion that is
\* not there any more (context.hpp:70-83, uring.hpp:100-129): process_all stops the
\* ring whenever it empties the queue.  The one it had taken up it handles.
THEOREM InterruptedBatchStops == SafeSpec => []BatchReadsPosted
<1>1. Init => BatchTypeOK /\ BatchInv
  BY TypeInit, BatchInit DEF TypeParts
<1>2. (BatchTypeOK /\ BatchInv) /\ [Next]_vars => (BatchTypeOK /\ BatchInv)'
  BY BatchTyped, BatchStep
<1>3. BatchTypeOK /\ BatchInv => BatchReadsPosted
  BY DEF BatchTypeOK, BatchInv, BatchReadsPosted, InLoop
<1> QED
  BY <1>1, <1>2, <1>3, PTL DEF SafeSpec
=============================================================================
