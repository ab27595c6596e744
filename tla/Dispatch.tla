------------------------------- MODULE Dispatch -------------------------------
(***************************************************************************)
(* What multishot_accept_then promises of the connections it accepts: they *)
(* are sent out in the order in which they were accepted, some or all of   *)
(* the waiting ones at a time, to the workers in turn; each reaches the    *)
(* worker it was sent to, once, or is lost.  What stands for a connection  *)
(* on its way is the number of its slot: the worker gets its file with     *)
(* that number, but once the task of some connection has ended it may get  *)
(* that of another accepted one.  MultishotAccept implements this with     *)
(* chains of requests, completions and two lists of slots.                 *)
(***************************************************************************)
EXTENDS Integers, Sequences

CONSTANTS
  Conn, NWorkers,
  NoConn,  \* no connection
  Ending   \* the connections whose task ends, and closes the slot it was given

VARIABLES
  waiting,  \* the connections accepted and not sent, oldest first
  place,    \* place[c].at: "peer", "waiting", "sent", "arrived", "lost";
            \* place[c].worker: the worker it is sent to, or NWorkers
  file,     \* file[c]: whose file the worker got for c, NoConn before
  turn,     \* the worker that was last sent one, -1 before the first
  alive     \* FALSE once the process has ended, or has no meaning

vars == <<waiting, place, file, turn, alive>>

At(where, w) == [at |-> where, worker |-> w]

Init ==
  /\ waiting = <<>>
  /\ place = [c \in Conn |-> At("peer", NWorkers)]
  /\ file = [c \in Conn |-> NoConn]
  /\ turn = -1
  /\ alive = TRUE

Accept(c) ==
  /\ place[c].at = "peer"
  /\ waiting' = Append(waiting, c)
  /\ place' = [place EXCEPT ![c] = At("waiting", NWorkers)]
  /\ UNCHANGED <<file, turn>>

\* The n oldest go to the next n workers.
Send(n) ==
  LET Position(c) == {i \in 1 .. n : waiting[i] = c} IN
  /\ waiting' = SubSeq(waiting, n + 1, Len(waiting))
  /\ place' = [c \in Conn |->
                 IF Position(c) = {} THEN place[c]
                 ELSE At("sent", (turn + CHOOSE i \in Position(c) : TRUE) % NWorkers)]
  /\ turn' = (turn + n) % NWorkers
  /\ UNCHANGED file

\* A slot may have been closed, and given to another connection, by the end of
\* a task, and by nothing else.
MayGet(c, f) ==
  f # c => /\ place[f].at # "peer"
           /\ \E e \in Ending : place[e].at = "arrived"

Arrive(c) ==
  /\ place[c].at = "sent"
  /\ place' = [place EXCEPT ![c].at = "arrived"]
  /\ \E f \in Conn : MayGet(c, f) /\ file' = [file EXCEPT ![c] = f]
  /\ UNCHANGED <<waiting, turn>>

\* The accept has failed, or the copy.
Lose(c) ==
  /\ place[c].at \in {"peer", "sent"}
  /\ place' = [place EXCEPT ![c] = At("lost", NWorkers)]
  /\ UNCHANGED <<waiting, file, turn>>

Work ==
  /\ alive
  /\ \/ \E c \in Conn : Accept(c) \/ Arrive(c) \/ Lose(c)
     \/ \E n \in 1 .. Len(waiting) : Send(n)
  /\ UNCHANGED alive

\* The process may end at any time.
End == alive /\ alive' = FALSE /\ UNCHANGED <<waiting, place, file, turn>>

Next == End \/ Work

Spec == Init /\ [][Next]_vars
=============================================================================
