----------------------------- MODULE ConnHandoff -----------------------------
(***************************************************************************)
(* parallel_spawn(task, conn): the hand-over of a TcpConnection from the   *)
(* main thread to a worker.  A connection is a slot in the direct          *)
(* descriptor table of a ring, so the move needs five steps on two threads *)
(* and in the kernel: the file is copied to the worker's table, the task   *)
(* is sent after it (a linked request), the worker matches the two through *)
(* direct_map_, runs the task and notifies the main ring, which closes its *)
(* own slot.                                                               *)
(*                                                                         *)
(* Each thread handles its completions in order (EventLoop models how);    *)
(* the kernel executes submitted requests in any order, except that a      *)
(* linked one waits for its predecessor.  Completions that only delete     *)
(* their token are left out.                                               *)
(***************************************************************************)
EXTENDS Integers, Sequences, FiniteSets

CONSTANTS
  Conn,         \* the connections that peers will open
  NoConn,       \* an empty slot
  NWorkers,     \* Workers::count()
  MainSlots,    \* URING_DIRECT_FD_TABLE_SIZE of the main ring
  WorkerSlots   \* and of each worker ring

ASSUME ConnAssumption == IsFiniteSet(Conn) /\ NoConn \notin Conn
ASSUME SizeAssumption ==
  NWorkers \in Nat \ {0} /\ MainSlots \in Nat \ {0} /\ WorkerSlots \in Nat \ {0}

Main   == NWorkers
Worker == 0 .. NWorkers - 1
Ring   == Worker \cup {Main}
Slot(r) == 0 .. (IF r = Main THEN MainSlots ELSE WorkerSlots) - 1

VARIABLES
  table,      \* table[r][s]: the file in slot s of ring r
  phase,      \* phase[c]: what has become of c in the code
  object,     \* object[c]: the TcpConnection of c on the main thread
  served,     \* served[c]: the TcpConnection of c on its worker
  worker,     \* worker[c]: the worker c was sent to, Main before that
  current,    \* current_worker_uring_idx_
  kernel,     \* requests submitted and not executed
  cq,         \* cq[r]: completions posted to ring r and not handled
  directMap,  \* directMap[w]: direct_map_ of the ring of worker w
  undefined   \* handle_request has followed a stale user_data

threadVars == <<phase, object, served, worker, current, directMap>>
vars == <<table, kernel, cq, undefined, threadVars>>

-----------------------------------------------------------------------------
(* TcpConnection: which slot, of which ring, its destructor closes.         *)

Make(fd) == [socket |-> fd, in_this_ring |-> -1, own |-> TRUE]

\* A moved-from object keeps ownership_in_sys_ring_.
MovedFrom(o) == [o EXCEPT !.socket = -1, !.in_this_ring = -1]

ReleaseForgotten(o) == o
Release(o) == [o EXCEPT !.own = FALSE]

SetSubringSocket(o, fd) == [socket |-> fd, in_this_ring |-> fd, own |-> FALSE]

ClosesReleased(o, r, c) ==
  {[op |-> "close", ring |-> IF o.in_this_ring > -1 THEN r ELSE Main,
    fd |-> o.socket, of |-> c]}

\* The close requests the destructor of o submits in the thread of ring r.
Closes(o, r, c) ==
  IF o.own THEN {[op |-> "close", ring |-> Main, fd |-> o.socket, of |-> c]}
  ELSE IF o.in_this_ring > -1
  THEN {[op |-> "close", ring |-> r, fd |-> o.socket, of |-> c]}
  ELSE {}

-----------------------------------------------------------------------------
NoObject == Make(-1)

Init ==
  /\ table = [r \in Ring |-> [s \in Slot(r) |-> NoConn]]
  /\ phase = [c \in Conn |-> "peer"]
  /\ object = [c \in Conn |-> NoObject]
  /\ served = [c \in Conn |-> NoObject]
  /\ worker = [c \in Conn |-> Main]
  /\ current = -1
  /\ kernel = {}
  /\ cq = [r \in Ring |-> <<>>]
  /\ directMap = [w \in Worker |-> <<>>]
  /\ undefined = FALSE

Post(r, e) == cq' = [cq EXCEPT ![r] = Append(@, e)]

Stale == [kind |-> "stale", key |-> 0, res |-> 0, of |-> NoConn]

-----------------------------------------------------------------------------
(* The main thread.                                                         *)

\* TcpListener::accept: the coroutine holds TcpConnection{s}.  The objects it was
\* moved out of on the way are destroyed (one close stands for their equal ones).
Accept(c, s) ==
  /\ ~undefined
  /\ phase[c] = "peer" /\ table[Main][s] = NoConn
  /\ table' = [table EXCEPT ![Main][s] = c]
  /\ phase' = [phase EXCEPT ![c] = "main"]
  /\ object' = [object EXCEPT ![c] = Make(s)]
  /\ kernel' = kernel \cup Closes(MovedFrom(object'[c]), Main, c)
  /\ UNCHANGED <<cq, undefined, served, worker, current, directMap>>

\* pick_worker.
PickWithoutWrap == current + 1
PickFirstAgain == IF current = -1 THEN 0 ELSE current
PickWorker == (current + 1) % NWorkers

\* release throws if the connection was released before.
ParallelSpawn(c) ==
  /\ ~undefined
  /\ phase[c] = "main" /\ object[c].own
  /\ object' = [object EXCEPT ![c] = Release(@)]
  /\ current' = PickWorker
  /\ worker' = [worker EXCEPT ![c] = current']
  /\ kernel' = kernel \cup {[op |-> "send_fd", ring |-> current',
                             fd |-> object[c].socket, of |-> c]}
  /\ phase' = [phase EXCEPT ![c] = "sent"]
  /\ UNCHANGED <<table, cq, undefined, served, directMap>>

\* ~TcpConnection on the main thread, of a connection that was sent or not.
DestroyObject(c) ==
  /\ ~undefined
  /\ object[c].socket # -1
  /\ kernel' = kernel \cup Closes(object[c], Main, c)
  /\ object' = [object EXCEPT ![c] = MovedFrom(@)]
  /\ phase' = [phase EXCEPT ![c] = IF @ = "main" THEN "closed" ELSE @]
  /\ UNCHANGED <<table, cq, undefined, served, worker, current, directMap>>

\* TcpConnection::operator= on the main thread, `conn = co_await accept()`: the
\* variable that held c takes over what the object of d was, and that object is
\* destroyed.  The slot c owned is overwritten, not closed.
Assign(c, d) ==
  /\ ~undefined
  /\ c # d /\ object[c].socket # -1 /\ object[d].socket # -1
  /\ object' = [object EXCEPT ![c] = MovedFrom(object[d])]
  /\ phase' = [phase EXCEPT ![c] = IF @ = "main" THEN "overwritten" ELSE @]
  /\ kernel' = kernel \cup Closes(object'[c], Main, c)
  /\ UNCHANGED <<table, cq, undefined, served, worker, current, directMap>>

First(r) == Head(cq[r])
Pending(r, kind) == ~undefined /\ cq[r] # <<>> /\ First(r).kind = kind
Handled(r) == cq' = [cq EXCEPT ![r] = Tail(@)]

\* case Op::MainRingCloseDirectSocket.
ReleaseIgnored(e) == {}
ReleaseRequests(e) ==
  {[op |-> "close", ring |-> Main, fd |-> e.res, of |-> e.of]}

HandleRelease ==
  /\ Pending(Main, "release")
  /\ kernel' = kernel \cup ReleaseRequests(First(Main))
  /\ Handled(Main)
  /\ UNCHANGED <<table, undefined, threadVars>>

-----------------------------------------------------------------------------
(* A worker.                                                                *)

\* direct_map_[key] = fd.
Enter(w, key, fd) ==
  [k \in DOMAIN directMap[w] \cup {key} |->
     IF k = key THEN fd ELSE directMap[w][k]]

\* case Op::RingFdReceiver.
HandleFd(w) ==
  /\ Pending(w, "fd")
  /\ directMap' = [directMap EXCEPT ![w] = Enter(w, First(w).key, First(w).res)]
  /\ Handled(w)
  /\ UNCHANGED <<table, kernel, undefined, phase, object, served, worker,
                 current>>

\* direct_map_[key] of a missing key inserts 0.
Lookup(w, key) == IF key \in DOMAIN directMap[w] THEN directMap[w][key] ELSE 0

EraseForgotten(w, key) == directMap[w]
Erase(w, key) ==
  [k \in DOMAIN directMap[w] \ {key} |-> directMap[w][k]]

\* impl_handle_msg_conn.
HandleTask(w) ==
  /\ Pending(w, "task")
  /\ LET key == First(w).key
         c == First(w).of
         conn == SetSubringSocket(Make(-1), Lookup(w, key)) IN
       /\ directMap' = [directMap EXCEPT ![w] = Erase(w, key)]
       /\ served' = [served EXCEPT ![c] = conn]
       /\ phase' = [phase EXCEPT ![c] = "served"]
       /\ kernel' = kernel \cup Closes(MovedFrom(conn), w, c)
                      \cup {[op |-> "notify", ring |-> Main, fd |-> key,
                             of |-> c]}
  /\ Handled(w)
  /\ UNCHANGED <<table, undefined, object, worker, current>>

\* ~TcpConnection on the worker.  A connection that stays a parameter of the
\* task is never destroyed: the list of tasks keeps its frame.
DestroyServed(c) ==
  /\ ~undefined
  /\ phase[c] = "served"
  /\ kernel' = kernel \cup Closes(served[c], worker[c], c)
  /\ served' = [served EXCEPT ![c] = MovedFrom(@)]
  /\ phase' = [phase EXCEPT ![c] = "closed"]
  /\ UNCHANGED <<table, cq, undefined, object, worker, current, directMap>>

\* TcpConnection::operator= on the worker of both connections.
AssignServed(c, d) ==
  /\ ~undefined
  /\ c # d /\ worker[c] = worker[d] /\ phase[c] = "served" /\ phase[d] = "served"
  /\ served' = [served EXCEPT ![c] = MovedFrom(served[d])]
  /\ phase' = [phase EXCEPT ![c] = "overwritten"]
  /\ kernel' = kernel \cup Closes(served'[c], worker[c], c)
  /\ UNCHANGED <<table, cq, undefined, object, worker, current, directMap>>

\* The completion of a request whose user_data nobody set: handle_request
\* follows what the slot of the submission queue held before, a null pointer or
\* a token that is gone.
HandleStale(r) ==
  /\ Pending(r, "stale")
  /\ undefined' \in BOOLEAN
  /\ Handled(r)
  /\ UNCHANGED <<table, kernel, threadVars>>

-----------------------------------------------------------------------------
(* The kernel.                                                              *)

Free(r) == {s \in Slot(r) : table[r][s] = NoConn}

\* IORING_MSG_SEND_FD with IORING_FILE_INDEX_ALLOC.
SendFd(q, s) ==
  /\ q.op = "send_fd" /\ table[Main][q.fd] # NoConn /\ s \in Free(q.ring)
  /\ table' = [table EXCEPT ![q.ring][s] = table[Main][q.fd]]
  /\ Post(q.ring, [kind |-> "fd", key |-> q.fd, res |-> s, of |-> q.of])
  /\ kernel' = (kernel \ {q}) \cup {[q EXCEPT !.op = "send_task"]}
  /\ UNCHANGED <<undefined, threadVars>>

\* The table of the worker is full: the linked request is cancelled, with a
\* completion on the main ring that has no user_data of its own.
SendFdFails(q) ==
  /\ q.op = "send_fd" /\ (table[Main][q.fd] = NoConn \/ Free(q.ring) = {})
  /\ Post(Main, Stale)
  /\ kernel' = kernel \ {q}
  /\ UNCHANGED <<table, undefined, threadVars>>

SendTask(q) ==
  /\ q.op = "send_task"
  /\ Post(q.ring, [kind |-> "task", key |-> q.fd, res |-> 0, of |-> q.of])
  /\ kernel' = kernel \ {q}
  /\ UNCHANGED <<table, undefined, threadVars>>

Notify(q) ==
  /\ q.op = "notify"
  /\ Post(Main, [kind |-> "release", key |-> 0, res |-> q.fd, of |-> q.of])
  /\ kernel' = kernel \ {q}
  /\ UNCHANGED <<table, undefined, threadVars>>

\* IOSQE_CQE_SKIP_SUCCESS: only a failure is reported.
CloseDirect(q) ==
  /\ q.op = "close" /\ q.fd # -1
  /\ IF table[q.ring][q.fd] # NoConn
     THEN /\ table' = [table EXCEPT ![q.ring][q.fd] = NoConn]
          /\ UNCHANGED cq
     ELSE Post(q.ring, Stale) /\ UNCHANGED table
  /\ kernel' = kernel \ {q}
  /\ UNCHANGED <<undefined, threadVars>>

\* io_uring_prep_close_direct adds 1 to the slot and 0 means "no direct slot":
\* slot -1 closes plain descriptor 0, which may be open or not.
CloseStdin(q) ==
  /\ q.op = "close" /\ q.fd = -1
  /\ UNCHANGED cq \/ Post(q.ring, Stale)
  /\ kernel' = kernel \ {q}
  /\ UNCHANGED <<table, undefined, threadVars>>

-----------------------------------------------------------------------------
KernelStep ==
  \E q \in kernel :
    \/ \E s \in Slot(q.ring) : SendFd(q, s)
    \/ SendFdFails(q) \/ SendTask(q) \/ Notify(q)
    \/ CloseDirect(q) \/ CloseStdin(q)

Handle(r) ==
  \/ r = Main /\ HandleRelease
  \/ r # Main /\ (HandleFd(r) \/ HandleTask(r))
  \/ HandleStale(r)

UserStep ==
  \E c \in Conn :
    \/ \E s \in Slot(Main) : Accept(c, s)
    \/ ParallelSpawn(c) \/ DestroyObject(c) \/ DestroyServed(c)
    \/ \E d \in Conn : Assign(c, d) \/ AssignServed(c, d)

Next ==
  \/ UserStep
  \/ ~undefined /\ KernelStep
  \/ \E r \in Ring : Handle(r)

SafeSpec == Init /\ [][Next]_vars

\* Every thread keeps handling its completions and the kernel executes what was
\* submitted.  Nothing makes peers connect or tasks end.
Spec == /\ SafeSpec
        /\ WF_vars(~undefined /\ KernelStep)
        /\ \A r \in Ring : WF_vars(Handle(r))

-----------------------------------------------------------------------------
(* Where connection c is on its way.                                        *)

Requested(c, op) == \E q \in kernel : q.op = op /\ q.of = c
Posted(r, c, kind) ==
  \E i \in 1 .. Len(cq[r]) : cq[r][i].kind = kind /\ cq[r][i].of = c

\* The task of c is still to arrive at its worker.
Moving(c) ==
  \/ Requested(c, "send_fd") \/ Requested(c, "send_task")
  \/ \E w \in Worker : Posted(w, c, "task")

Closing(c, r) ==
  \E q \in kernel :
    q.op = "close" /\ q.ring = r /\ q.of = c /\ q.fd # -1

Releasing(c) ==
  Requested(c, "notify") \/ Posted(Main, c, "release") \/ Closing(c, Main)

Lost(c) == phase[c] = "sent" /\ ~Moving(c)

-----------------------------------------------------------------------------
Fd == -1 .. (IF MainSlots > WorkerSlots THEN MainSlots ELSE WorkerSlots) - 1
Object == [socket : Fd, in_this_ring : Fd, own : BOOLEAN]
Phase == {"peer", "main", "sent", "served", "closed", "overwritten"}
Request == [op : {"send_fd", "send_task", "notify", "close"}, ring : Ring,
            fd : Fd, of : Conn]
Message == [kind : {"fd", "task", "release", "stale"}, key : Fd, res : Fd,
            of : Conn \cup {NoConn}]

\* Every component has its type; the index of a worker is in range.
TypeOK ==
  /\ DOMAIN table = Ring
  /\ \A r \in Ring : table[r] \in [Slot(r) -> Conn \cup {NoConn}]
  /\ phase \in [Conn -> Phase]
  /\ object \in [Conn -> Object] /\ served \in [Conn -> Object]
  /\ worker \in [Conn -> Ring]
  /\ current \in {-1} \cup Worker
  /\ kernel \subseteq Request
  /\ cq \in [Ring -> Seq(Message)]
  /\ DOMAIN directMap = Worker
  /\ \A w \in Worker : /\ DOMAIN directMap[w] \subseteq Slot(Main)
                       /\ \A k \in DOMAIN directMap[w] :
                            directMap[w][k] \in Slot(w)
  /\ undefined \in BOOLEAN

\* impl_handle_msg_conn (connection.hpp:154-158) runs each task on the very
\* connection it was spawned with, however hand-overs to the same worker, slot
\* reuse on the main ring and the two messages interleave; and the slot the
\* task uses stays that connection until its TcpConnection is destroyed.
ServedOwnConnection ==
  \A c \in Conn :
    phase[c] = "served" => table[worker[c]][served[c].socket] = c

\* A TcpConnection the main thread still owns is open (connection.hpp:45-48).
OwnedIsOpen ==
  \A c \in Conn : phase[c] = "main" => table[Main][object[c].socket] = c

\* Every close a destructor or a notification submits (connection.hpp:47, 51;
\* uring.hpp:205) finds the connection it was meant for in the slot: no slot is
\* closed twice, none after it was given to another connection.
ClosesOwnSlot ==
  \A q \in kernel :
    q.op = "close" /\ q.fd # -1 => q.fd \in Slot(q.ring) /\ table[q.ring][q.fd] = q.of

\* An entry of direct_map_ (uring.hpp:200) names the same file in both tables,
\* so the main slot that is its key has not been reused.
DirectMapMatches ==
  \A w \in Worker : \A k \in DOMAIN directMap[w] :
    /\ table[Main][k] # NoConn
    /\ table[w][directMap[w][k]] = table[Main][k]

\* A slot that is taken has somebody who will close it: an owner, a hand-over
\* under way, or a close under way.  A hand-over that failed leaks its main slot
\* (context.hpp:138: released, and nobody else was told); an assignment over a
\* connection leaks the slot it had where that happened, on the main ring or on
\* its worker (connection.hpp:35-43), and no other: what was overwritten on the
\* worker still gives its main slot back.
NoSlotLeaks ==
  \A r \in Ring : \A s \in Slot(r) :
    LET c == table[r][s] IN
      c # NoConn =>
        \/ Closing(c, r)
        \/ r = Main /\ (phase[c] = "main" \/ Moving(c) \/ Releasing(c) \/ Lost(c))
        \/ r = worker[c] /\ (phase[c] \in {"served", "overwritten"} \/ Moving(c))

\* Once its task runs on the worker, the slot on the main ring comes free.
MainSlotReleased ==
  \A c \in Conn :
    phase[c] = "served" ~>
      (undefined \/ \A s \in Slot(Main) : table[Main][s] # c)

-----------------------------------------------------------------------------
(* Refinement of Handoff.                                                   *)

WhereIs(c) ==
  IF phase[c] = "sent" THEN IF Moving(c) THEN "moving" ELSE "lost"
  ELSE IF phase[c] = "served" /\ table[worker[c]][served[c].socket] # c
  THEN "broken"
  ELSE IF phase[c] = "overwritten" THEN "lost"
  ELSE phase[c]

Promise == INSTANCE Handoff
  WITH where <- [c \in Conn |-> WhereIs(c)],
       server <- worker,
       turn <- IF current = -1 THEN NWorkers - 1 ELSE current,
       alive <- ~undefined

\* A connection goes from the main thread to the next worker in turn, once, and
\* every hand-over ends.
HandsOver == Promise!Spec
=============================================================================
