------------------------------- MODULE AsyncIo -------------------------------
(***************************************************************************)
(* What one event loop of co_net promises to a coroutine that does         *)
(*     auto [res, flag] = co_await SomeAwaiter{ ... };                     *)
(* with no rings, queues or flags in sight: the task sleeps until its      *)
(* operation has completed, it is woken once, and it takes the result of   *)
(* that very operation before it awaits another one or finishes.           *)
(* EventLoop implements this specification.                                *)
(***************************************************************************)
CONSTANTS
  Task,      \* the tasks that can ever be scheduled
  Results,   \* the results an operation can complete with
  NoResult   \* no result to take: cqe_res_ before a completion, or no await

VARIABLES
  st,        \* st[t]: where task t is in its life
  result,    \* result[t]: the result waiting to be taken by t
  alive      \* FALSE once std::terminate (or a null SQE) has ended the process

vars == <<st, result, alive>>

TypeOK ==
  /\ st \in [Task -> {"absent", "ready", "waiting", "completed", "done"}]
  /\ result \in [Task -> Results \cup {NoResult}]
  /\ alive \in BOOLEAN

Init ==
  /\ st \in [Task -> {"absent", "ready"}]
  /\ result = [t \in Task |-> NoResult]
  /\ alive = TRUE

Move(t, from, to) ==
  /\ alive
  /\ st[t] = from
  /\ st' = [st EXCEPT ![t] = to]
  /\ UNCHANGED alive

Spawn(t) == Move(t, "absent", "ready") /\ UNCHANGED result

\* Only a task that has taken its last result may start another operation.
Await(t) ==
  /\ result[t] = NoResult
  /\ Move(t, "ready", "waiting")
  /\ UNCHANGED result

Complete(t, r) ==
  /\ Move(t, "waiting", "completed")
  /\ result' = [result EXCEPT ![t] = r]

Wake(t) == Move(t, "completed", "ready") /\ UNCHANGED result

Take(t) ==
  /\ alive
  /\ st[t] = "ready"
  /\ result[t] # NoResult
  /\ result' = [result EXCEPT ![t] = NoResult]
  /\ UNCHANGED <<st, alive>>

Finish(t) ==
  /\ result[t] = NoResult
  /\ Move(t, "ready", "done")
  /\ UNCHANGED result

Abort == alive /\ alive' = FALSE /\ UNCHANGED <<st, result>>

Next ==
  \/ \E t \in Task : Spawn(t) \/ Await(t) \/ Wake(t) \/ Take(t) \/ Finish(t)
  \/ \E t \in Task, r \in Results : Complete(t, r)
  \/ Abort

SafeSpec == Init /\ [][Next]_vars

Spec == SafeSpec /\ \A t \in Task : WF_vars(Wake(t)) /\ WF_vars(Take(t))
=============================================================================
