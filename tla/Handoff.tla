------------------------------- MODULE Handoff -------------------------------
(***************************************************************************)
(* What parallel_spawn(task, conn) promises: a connection the main thread  *)
(* holds is moved to one worker, the next in turn, which runs the task on  *)
(* that very connection, once; or the move fails and the connection is     *)
(* lost.  A holder loses it too when it assigns another one over it.  It   *)
(* never has two holders and never comes back.  ConnHandoff implements     *)
(* this specification with rings, descriptor tables and maps.              *)
(***************************************************************************)
EXTENDS Naturals

CONSTANTS Conn, NWorkers

VARIABLES
  where,   \* where[c]: who holds connection c
  server,  \* server[c]: the worker c is meant for, NWorkers before that
  turn,    \* the worker of the last move
  alive    \* FALSE once a stale completion has led to undefined behaviour

vars == <<where, server, turn, alive>>

TypeOK ==
  /\ where \in [Conn -> {"peer", "main", "moving", "served", "closed", "lost"}]
  /\ server \in [Conn -> 0 .. NWorkers]
  /\ turn \in 0 .. NWorkers - 1
  /\ alive \in BOOLEAN

Init ==
  /\ where = [c \in Conn |-> "peer"]
  /\ server = [c \in Conn |-> NWorkers]
  /\ turn = NWorkers - 1
  /\ alive = TRUE

Move(c, from, to) ==
  /\ alive
  /\ where[c] = from
  /\ where' = [where EXCEPT ![c] = to]
  /\ UNCHANGED alive

Accept(c) == Move(c, "peer", "main") /\ UNCHANGED <<server, turn>>

Spawn(c) ==
  /\ Move(c, "main", "moving")
  /\ turn' = (turn + 1) % NWorkers
  /\ server' = [server EXCEPT ![c] = turn']

Serve(c) == Move(c, "moving", "served") /\ UNCHANGED <<server, turn>>

Lose(c) == Move(c, "moving", "lost") /\ UNCHANGED <<server, turn>>

Close(c) ==
  /\ Move(c, "main", "closed") \/ Move(c, "served", "closed")
  /\ UNCHANGED <<server, turn>>

\* The variable that held c is assigned another connection.
Overwrite(c) ==
  /\ Move(c, "main", "lost") \/ Move(c, "served", "lost")
  /\ UNCHANGED <<server, turn>>

Abort == alive /\ alive' = FALSE /\ UNCHANGED <<where, server, turn>>

Next ==
  \/ \E c \in Conn :
       \/ Accept(c) \/ Spawn(c) \/ Serve(c) \/ Lose(c)
       \/ Close(c) \/ Overwrite(c)
  \/ Abort

SafeSpec == Init /\ [][Next]_vars

Spec == /\ SafeSpec
        /\ \A c \in Conn : WF_vars(Serve(c) \/ Lose(c))
=============================================================================
