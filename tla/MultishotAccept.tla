--------------------------- MODULE MultishotAccept ---------------------------
(***************************************************************************)
(* TcpListener::multishot_accept_then: one accept request on the main ring *)
(* posts a completion per connection; the listener's coroutine sends every *)
(* accepted slot to a worker with a chain of three linked requests (copy   *)
(* the file, send the task, close the main slot); the worker collects the  *)
(* slots in awaiting_direct_fd_ and starts tasks on them.                  *)
(*                                                                         *)
(* All listeners share the static multishot_token_, whose chain_task_ is   *)
(* the task of the one that armed last, and awaiting_direct_fd_ of the     *)
(* main ring.  The kernel executes unlinked requests in any order.         *)
(***************************************************************************)
EXTENDS Integers, Sequences, FiniteSets, TLC

CONSTANTS
  Conn,         \* the connections that peers will open
  NoConn,       \* an empty slot
  Listener,     \* the listeners, each with its coroutine and its function
  NoListener,   \* no listener; as a function, an empty std::function
  Dials,        \* Dials[c]: the listener that c is a connection to
  Ending,       \* bound: the connections whose task ends
  NWorkers,     \* Workers::count()
  MainSlots,    \* URING_DIRECT_FD_TABLE_SIZE of the main ring
  WorkerSlots,  \* and of each worker ring
  SqEntries     \* entries of the submission queue of the main ring

ASSUME ConnAssumption == IsFiniteSet(Conn) /\ NoConn \notin Conn
ASSUME ListenerAssumption == IsFiniteSet(Listener) /\ NoListener \notin Listener
ASSUME DialsAssumption == Dials \in [Conn -> Listener] /\ Ending \subseteq Conn
ASSUME SizeAssumption ==
  {NWorkers, MainSlots, WorkerSlots, SqEntries} \subseteq Nat \ {0}

Main   == NWorkers
Worker == 0 .. NWorkers - 1
Ring   == Worker \cup {Main}
Slot(r) == 0 .. (IF r = Main THEN MainSlots ELSE WorkerSlots) - 1

VARIABLES
  table,      \* table[r][s]: the file in slot s of ring r
  peers,      \* the connections not accepted yet
  armed,      \* the listeners whose multishot accept is in the kernel
  started,    \* the listeners whose coroutine has come past its first await
  pending,    \* pending[l]: pending_ of its task
  chainTask,  \* chain_task_ of multishot_token_
  current,    \* current_worker_uring_idx_
  kernel,     \* other requests submitted and not executed
  cq,         \* cq[r]: completions posted to ring r and not handled
  awaiting,   \* awaiting[r]: awaiting_direct_fd_ of ring r
  tasks,      \* tasks[w]: the slots the tasks of worker w run on, in list order
  ended       \* std::terminate, or undefined behaviour

acceptVars == <<peers, armed>>
threadVars == <<started, pending, chainTask, current, awaiting, tasks>>
vars == <<table, acceptVars, kernel, cq, ended, threadVars>>

Init ==
  /\ table = [r \in Ring |-> [s \in Slot(r) |-> NoConn]]
  /\ peers = Conn
  /\ armed = {}
  /\ started = {}
  /\ pending = [l \in Listener |-> FALSE]
  /\ chainTask = NoListener
  /\ current = -1
  /\ kernel = {}
  /\ cq = [r \in Ring |-> <<>>]
  /\ awaiting = [r \in Ring |-> <<>>]
  /\ tasks = [w \in Worker |-> <<>>]
  /\ ended = FALSE

Free(r) == {s \in Slot(r) : table[r][s] = NoConn}

Post(r, e) == cq' = [cq EXCEPT ![r] = Append(@, e)]

Stale == [kind |-> "stale", res |-> -1, of |-> NoConn,
          func |-> NoListener]

-----------------------------------------------------------------------------
(* The coroutine of a listener, on the main thread.                         *)

\* MultishotAcceptDirectAwaiter: unlike the other awaiters it leaves pending_
\* alone, so the next pass resumes the coroutine, accepted or not.
Arm(l) ==
  /\ ~ended /\ l \notin started
  /\ armed' = armed \cup {l}
  /\ started' = started \cup {l}
  /\ chainTask' = l
  /\ UNCHANGED <<table, peers, kernel, cq, ended, pending, current, awaiting,
                 tasks>>

\* The front of the list, once per chain.
ChainOfFront(i, l) ==
  [op |-> "send_fd", ring |-> (current + i) % NWorkers,
   fd |-> awaiting[Main][1].fd, of |-> awaiting[Main][i].of,
   func |-> IF i = 1 THEN l ELSE NoListener]

\* One chain per accepted slot, each to the next worker.  func_task is moved
\* from inside the loop: only the first chain carries a function.
Chain(i, l) ==
  [op |-> "send_fd", ring |-> (current + i) % NWorkers,
   fd |-> awaiting[Main][i].fd, of |-> awaiting[Main][i].of,
   func |-> IF i = 1 THEN l ELSE NoListener]

\* pick_worker, once per chain.
TurnAfter(n) == IF n = 0 THEN current ELSE (current + n) % NWorkers

AwaitingKept == awaiting[Main]
AfterSending == <<>>

\* Three entries of the submission queue per chain, and no submit in between;
\* what other coroutines prepared in this pass may leave less room.
Room(n) == 3 * Len(awaiting[Main]) <= n

Resumed(l) == ~ended /\ l \in started /\ ~pending[l]

\* mshot_accept_send_awaiting_fd_and_process, then PendingAwaiter.
SendAccepted(l) ==
  /\ Resumed(l) /\ Room(SqEntries)
  /\ kernel' = kernel \cup {Chain(i, l) : i \in 1 .. Len(awaiting[Main])}
  /\ current' = TurnAfter(Len(awaiting[Main]))
  /\ awaiting' = [awaiting EXCEPT ![Main] = AfterSending]
  /\ pending' = [pending EXCEPT ![l] = TRUE]
  /\ UNCHANGED <<table, acceptVars, cq, ended, started, chainTask, tasks>>

\* get_sqe returns a null pointer, which io_uring_prep_* writes through.
SendAcceptedNoSqe(l) ==
  /\ Resumed(l) /\ \E n \in 0 .. SqEntries : ~Room(n)
  /\ ended' = TRUE
  /\ UNCHANGED <<table, acceptVars, kernel, cq, threadVars>>

-----------------------------------------------------------------------------
(* handle_request on the main ring and on a worker.                         *)

First(r) == Head(cq[r])
Ready(r, kind) == ~ended /\ cq[r] # <<>> /\ First(r).kind = kind
Handled(r) == cq' = [cq EXCEPT ![r] = Tail(@)]

IsSlotUnchecked(res) == TRUE
IsSlotNotZero(res) == res > 0
IsSlot(res) == res >= 0

PushIfSlot(r) ==
  awaiting' = [awaiting EXCEPT ![r] =
                 IF IsSlot(First(r).res)
                 THEN Append(@, [fd |-> First(r).res, of |-> First(r).of])
                 ELSE @]

\* case Op::MultishotAccept.
PendingKept == pending
PendingAfterAccept == [pending EXCEPT ![chainTask] = FALSE]

HandleAccept ==
  /\ Ready(Main, "accept")
  /\ PushIfSlot(Main)
  /\ pending' = PendingAfterAccept
  /\ Handled(Main)
  /\ UNCHANGED <<table, acceptVars, kernel, ended, started, chainTask, current,
                 tasks>>

\* case Op::MultishotAcceptFdReceiver.
HandleFd(w) ==
  /\ Ready(w, "fd")
  /\ PushIfSlot(w)
  /\ Handled(w)
  /\ UNCHANGED <<table, acceptVars, kernel, ended, started, pending, chainTask,
                 current, tasks>>

\* TcpConnection{fd} owns slot fd of the main ring, also when a worker builds
\* it: its close goes to the submission queue of the main thread.
Close(fd, c) ==
  [op |-> "close", ring |-> Main, fd |-> fd, of |-> c, func |-> NoListener]

\* impl_handle_macc_task: a task on every slot in awaiting_direct_fd_, which is
\* not cleared; an empty function throws inside noexcept.  The temporaries that
\* the connections are moved out of close slot -1 of the main ring (one request
\* stands for their equal ones).
HandleTask(w) ==
  /\ Ready(w, "task")
  /\ IF First(w).func # NoListener \/ awaiting[w] = <<>>
     THEN /\ tasks' = [tasks EXCEPT ![w] = @ \o awaiting[w]]
          /\ kernel' = kernel \cup
               {Close(-1, NoConn) : i \in 1 .. Len(awaiting[w])}
          /\ ended' \in BOOLEAN
     ELSE ended' = TRUE /\ UNCHANGED <<tasks, kernel>>
  /\ Handled(w)
  /\ UNCHANGED <<table, acceptVars, started, pending, chainTask, current,
                 awaiting>>

\* ~TcpConnection in the i-th task of a worker.  (One left a parameter of its
\* task is never destroyed: the list of tasks keeps the frame.)
DestroyConnection(w, i) ==
  /\ ~ended
  /\ tasks[w][i].fd # -1 /\ tasks[w][i].of \in Ending
  /\ kernel' = kernel \cup {Close(tasks[w][i].fd, tasks[w][i].of)}
  /\ ended' \in BOOLEAN
  /\ tasks' = [tasks EXCEPT ![w][i].fd = -1]
  /\ UNCHANGED <<table, acceptVars, cq, started, pending, chainTask, current,
                 awaiting>>

\* A completion with a user_data that nobody set.
HandleStale ==
  /\ Ready(Main, "stale")
  /\ ended' \in BOOLEAN
  /\ Handled(Main)
  /\ UNCHANGED <<table, acceptVars, kernel, threadVars>>

-----------------------------------------------------------------------------
(* The kernel.                                                              *)

AcceptConn(c, s) ==
  /\ c \in peers /\ Dials[c] \in armed /\ s \in Free(Main)
  /\ table' = [table EXCEPT ![Main][s] = c]
  /\ peers' = peers \ {c}
  /\ Post(Main, [kind |-> "accept", res |-> s, of |-> c, func |-> NoListener])
  /\ UNCHANGED <<armed, kernel, ended, threadVars>>

\* No slot is free: the request ends, and nobody arms it again.
AcceptFails(c) ==
  /\ c \in peers /\ Dials[c] \in armed /\ Free(Main) = {}
  /\ armed' = armed \ {Dials[c]}
  /\ peers' = peers \ {c}
  /\ Post(Main, [kind |-> "accept", res |-> -1, of |-> c, func |-> NoListener])
  /\ UNCHANGED <<table, kernel, ended, threadVars>>

\* The next request of a chain starts when this one has succeeded.
Continue(q, op) == kernel' = (kernel \ {q}) \cup {[q EXCEPT !.op = op]}
Finish(q) == kernel' = kernel \ {q}

SendFd(q, s) ==
  /\ q.op = "send_fd" /\ table[Main][q.fd] # NoConn /\ s \in Free(q.ring)
  /\ table' = [table EXCEPT ![q.ring][s] = table[Main][q.fd]]
  /\ Post(q.ring, [kind |-> "fd", res |-> s, of |-> q.of,
                    func |-> NoListener])
  /\ Continue(q, "send_task")
  /\ UNCHANGED <<acceptVars, ended, threadVars>>

\* The rest of the chain is cancelled, the close of the main slot included.
SendFdFails(q) ==
  /\ q.op = "send_fd" /\ (table[Main][q.fd] = NoConn \/ Free(q.ring) = {})
  /\ Post(Main, Stale)
  /\ Finish(q)
  /\ UNCHANGED <<table, acceptVars, ended, threadVars>>

SendTask(q) ==
  /\ q.op = "send_task"
  /\ Post(q.ring, [kind |-> "task", res |-> -1, of |-> q.of, func |-> q.func])
  /\ Continue(q, "close_fd")
  /\ UNCHANGED <<table, acceptVars, ended, threadVars>>

\* Slot -1 stands for plain descriptor 0, which may be open or not.
CloseFd(q) ==
  /\ q.op \in {"close", "close_fd"}
  /\ \/ /\ q.fd \in Slot(Main) /\ table[Main][q.fd] # NoConn
        /\ table' = [table EXCEPT ![Main][q.fd] = NoConn]
        /\ UNCHANGED cq
     \/ q.fd = -1 /\ UNCHANGED <<table, cq>>
     \/ /\ q.fd \in Slot(Main) => table[Main][q.fd] = NoConn
        /\ Post(Main, Stale) /\ UNCHANGED table
  /\ Finish(q)
  /\ UNCHANGED <<acceptVars, ended, threadVars>>

-----------------------------------------------------------------------------
KernelStep ==
  \E q \in kernel :
    \/ \E s \in Slot(q.ring) : SendFd(q, s)
    \/ SendFdFails(q) \/ SendTask(q) \/ CloseFd(q)

MainStep ==
  \/ HandleAccept \/ HandleStale
  \/ \E l \in Listener : Arm(l) \/ SendAccepted(l) \/ SendAcceptedNoSqe(l)

WorkerStep(w) == HandleFd(w) \/ HandleTask(w)

Next ==
  \/ MainStep
  \/ \E w \in Worker :
       WorkerStep(w) \/ \E i \in 1 .. Len(tasks[w]) : DestroyConnection(w, i)
  \/ ~ended /\ KernelStep
  \/ ~ended /\ \E c \in peers :
       AcceptFails(c) \/ \E s \in Slot(Main) : AcceptConn(c, s)

SafeSpec == Init /\ [][Next]_vars

\* The main thread's loop keeps running: it handles what has arrived and
\* resumes the task of a listener whenever that is not pending.
Spec == SafeSpec /\ WF_vars(MainStep)

-----------------------------------------------------------------------------
Fd == -1 .. (IF MainSlots > WorkerSlots THEN MainSlots ELSE WorkerSlots) - 1
Entry   == [fd : Fd, of : Conn]
Request == [op : {"send_fd", "send_task", "close_fd", "close"}, ring : Ring,
            fd : Fd, of : Conn \cup {NoConn}, func : Listener \cup {NoListener}]
Message == [kind : {"accept", "fd", "task", "stale"}, res : Fd,
            of : Conn \cup {NoConn}, func : Listener \cup {NoListener}]

\* Every component has its type; the lists of accepted slots hold real slots.
TypeOK ==
  /\ DOMAIN table = Ring
  /\ \A r \in Ring : table[r] \in [Slot(r) -> Conn \cup {NoConn}]
  /\ peers \subseteq Conn
  /\ armed \subseteq Listener /\ ended \in BOOLEAN
  /\ pending \in [Listener -> BOOLEAN]
  /\ started \subseteq Listener
  /\ chainTask \in Listener \cup {NoListener}
  /\ current \in {-1} \cup Worker
  /\ kernel \subseteq Request
  /\ cq \in [Ring -> Seq(Message)]
  /\ awaiting \in [Ring -> Seq(Entry)]
  /\ \A r \in Ring : \A i \in 1 .. Len(awaiting[r]) :
       awaiting[r][i].fd \in Slot(r)
  /\ tasks \in [Worker -> Seq(Entry)]

\* PendingAwaiter has no completion of its own: the handler of the accepts
\* (uring.hpp:209-214) must wake a coroutine for every slot it queues, though
\* more accepts arrive while it sends, or before it first awaits, and though it
\* knows only the listener that armed last: that one is awake, or will be.
NoAcceptForgotten == awaiting[Main] # <<>> => ~pending[chainTask]

\* A slot is sent to one worker (context.hpp:218-246): the chains and the list
\* of slots still to be sent name each connection once.
SentOnce ==
  LET unsent == awaiting[Main] IN
    /\ \A i, j \in 1 .. Len(unsent) : unsent[i].of = unsent[j].of => i = j
    /\ \A q \in kernel : q.op = "send_fd" =>
         /\ \A i \in 1 .. Len(unsent) : unsent[i].of # q.of
         /\ \A p \in kernel : p.op # "close" /\ p.of = q.of => p = q

\* When a worker handles a task (connection.hpp:169), the slot it was sent with
\* is already in awaiting_direct_fd_: the task was linked after it.
TaskFindsFd ==
  \A w \in Worker : \A i \in 1 .. Len(cq[w]) :
    cq[w][i].kind = "task" =>
      \/ \E j \in 1 .. i - 1 : cq[w][j].kind = "fd" /\ cq[w][j].of = cq[w][i].of
      \/ \E j \in 1 .. Len(awaiting[w]) : awaiting[w][j].of = cq[w][i].of

\* Every accepted slot is sent, those accepted while the coroutine runs included,
\* and those of a listener that sleeps for ever since another one armed.
AcceptsAreSent ==
  (awaiting[Main] # <<>> \/ \E i \in 1 .. Len(cq[Main]) : cq[Main][i].kind = "accept")
    ~> \/ ended
       \/ awaiting[Main] = <<>> /\ \E l \in {chainTask} \cap Listener : pending[l]

\* "for worker ring: this is used to store the awating direct fd in mshot
\* accept" (uring.hpp:287): a slot waits there for its task, so that
\* impl_handle_macc_task (connection.hpp:169-172) starts one task on it.
OneTaskPerSlot ==
  \A w \in Worker : \A i, j \in 1 .. Len(tasks[w]) :
    tasks[w][i].fd # -1 /\ tasks[w][i] = tasks[w][j] => i = j

\* `multishot_accept_then(&echo)` (example/multishot_echo.cpp:20) has every
\* accepted connection served by the task that was passed to it.
EveryConnectionGetsTask ==
  \A q \in kernel : q.op \in {"send_fd", "send_task"} => q.func = Dials[q.of]

-----------------------------------------------------------------------------
(* Refinement of Dispatch.                                                  *)

\* The k-th smallest element of a finite set of numbers.
Rank(I, i) == Cardinality({j \in I : j <= i})
Nth(I, k)  == CHOOSE i \in I : Rank(I, i) = k

\* The slots listed, then those whose completions the main thread has not seen.
WaitingConns ==
  LET accepts == {i \in 1 .. Len(cq[Main]) :
                    cq[Main][i].kind = "accept" /\ cq[Main][i].res >= 0}
  IN [i \in 1 .. Len(awaiting[Main]) |-> awaiting[Main][i].of]
     \o [k \in 1 .. Cardinality(accepts) |-> cq[Main][Nth(accepts, k)].of]

\* Slot s of ring r was accepted for c, or received in its turn.  (A slot that
\* awaits its task on a worker is never taken off the list.)
Numbered(c, r, s) ==
  \/ \E i \in 1 .. Len(awaiting[r]) : awaiting[r][i] = [fd |-> s, of |-> c]
  \/ \E i \in 1 .. Len(cq[r]) :
       /\ cq[r][i].of = c /\ cq[r][i].kind \in {"accept", "fd"}
       /\ cq[r][i].res = s

ListedAt(c, r) == \E s \in Slot(r) : Numbered(c, r, s)

SentTo(c, w) == \E q \in kernel : q.of = c /\ q.op = "send_fd" /\ q.ring = w

Whereabouts(c) ==
  LET sent    == {w \in Worker : SentTo(c, w)}
      arrived == {w \in Worker : ListedAt(c, w)}
  IN
  CASE c \in peers       -> [at |-> "peer", worker |-> NWorkers]
    [] ListedAt(c, Main) -> [at |-> "waiting", worker |-> NWorkers]
    [] sent # {}         -> [at |-> "sent", worker |-> CHOOSE w \in sent : TRUE]
    [] arrived # {}      -> [at |-> "arrived", worker |-> CHOOSE w \in arrived : TRUE]
    [] OTHER             -> [at |-> "lost", worker |-> NWorkers]

\* What the slot that a worker has for c holds: the copy of whatever was in the
\* main slot accepted for c when the chain got there.
Copies(c) ==
  {f \in Conn : \E w \in Worker : \E s \in Slot(w) :
                  Numbered(c, w, s) /\ table[w][s] = f}
FileOf(c) == IF Copies(c) = {} THEN NoConn ELSE CHOOSE f \in Copies(c) : TRUE

Promise == INSTANCE Dispatch
  WITH waiting <- WaitingConns,
       place   <- [c \in Conn |-> Whereabouts(c)],
       file    <- [c \in Conn |-> FileOf(c)],
       turn    <- current,
       alive   <- ~ended

\* The connections of all listeners go to the workers in turn, in the order in
\* which they were accepted, whichever coroutine sends them, and a chain that is
\* cut loses its own connection only (context.hpp:216-248, uring.hpp:209-221);
\* what a worker gets for a connection is its own file, until the end of a task
\* closes a slot of the main ring by its number on a worker (connection.hpp:170).
SendsInTurn == Promise!Spec
=============================================================================
