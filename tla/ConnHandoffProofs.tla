--------------------------- MODULE ConnHandoffProofs ---------------------------
(***************************************************************************)
(* Proofs about ConnHandoff, for any number of connections and workers and *)
(* any sizes of the tables.                                                *)
(***************************************************************************)
EXTENDS ConnHandoff, TLAPS

-----------------------------------------------------------------------------
(* The inductive invariant: whoever names a slot names one that is that of  *)
(* its connection, and the phase of a connection tells who may.             *)

\* The phases of a connection that nobody is sending any more.
Past == {"served", "closed", "overwritten"}

USE DEF Phase, Past

Holds(files, r, s, c) == s \in Slot(r) /\ files[r][s] = c

\* A request that needs the main slot of its connection: before the task runs,
\* and after.
SendReq(q) == q.op \in {"send_fd", "send_task"}
LateReq(q) == q.op = "notify" \/ (q.op = "close" /\ q.ring = Main /\ q.fd # -1)

\* A connection has one main slot, and none at all before it is accepted.
SlotInv ==
  /\ \A s, t \in Slot(Main) :
       table[Main][s] = table[Main][t] /\ table[Main][s] # NoConn => s = t
  /\ \A c \in Conn : phase[c] = "peer" =>
       \A r \in Ring : \A s \in Slot(r) : table[r][s] # c

\* The two TcpConnections of c.
ObjectInv ==
  \A c \in Conn :
    /\ object[c].in_this_ring = -1
    /\ phase[c] = "peer" => object[c].socket = -1
    /\ phase[c] \in {"peer", "main"} => worker[c] = Main
    /\ phase[c] = "main" => object[c].own /\ Holds(table, Main, object[c].socket, c)
    /\ phase[c] \in {"sent"} \cup Past =>
         object[c].socket = -1 \/ ~object[c].own
    /\ phase[c] = "served" =>
         /\ worker[c] \in Worker
         /\ ~served[c].own /\ served[c].in_this_ring = served[c].socket
         /\ Holds(table, worker[c], served[c].socket, c)

RequestOK(files, phases, workers, q) ==
  /\ SendReq(q) => /\ phases[q.of] = "sent"
                   /\ q.ring = workers[q.of] /\ q.ring \in Worker
                   /\ Holds(files, Main, q.fd, q.of)
  /\ LateReq(q) => /\ phases[q.of] \in Past
                   /\ Holds(files, Main, q.fd, q.of)
  /\ q.op = "close" /\ q.ring # Main => /\ phases[q.of] = "closed"
                                        /\ q.ring = workers[q.of]
                                        /\ Holds(files, q.ring, q.fd, q.of)

RequestInv == \A q \in kernel : RequestOK(table, phase, worker, q)

Messages(queue) == {queue[i] : i \in 1 .. Len(queue)}

MessageInv ==
  /\ \A e \in Messages(cq[Main]) :
       /\ e.kind \in {"release", "stale"}
       /\ e.kind = "release" => /\ e.of \in Conn
                                /\ phase[e.of] \in Past
                                /\ Holds(table, Main, e.res, e.of)
  /\ \A w \in Worker : \A e \in Messages(cq[w]) :
       /\ e.kind \in {"fd", "task", "stale"}
       /\ e.kind # "stale" => /\ e.of \in Conn /\ phase[e.of] = "sent"
                              /\ worker[e.of] = w /\ Holds(table, Main, e.key, e.of)
       /\ e.kind = "fd" => Holds(table, w, e.res, e.of)

MapInv ==
  \A w \in Worker : \A k \in DOMAIN directMap[w] :
    /\ k \in Slot(Main) /\ table[Main][k] \in Conn
    /\ phase[table[Main][k]] = "sent" /\ worker[table[Main][k]] = w
    /\ Holds(table, w, directMap[w][k], table[Main][k])

\* The task of c is in one place, and so is the release of its main slot.
TaskIn(queue, c) == \E e \in Messages(queue) : e.kind = "task" /\ e.of = c
ReleaseIn(queue, c) == \E e \in Messages(queue) : e.kind = "release" /\ e.of = c

StageInv ==
  /\ \A p, q \in kernel : SendReq(p) /\ SendReq(q) /\ p.of = q.of => p = q
  /\ \A p, q \in kernel : LateReq(p) /\ LateReq(q) /\ p.of = q.of => p = q
  /\ \A q \in kernel : /\ SendReq(q) => \A w \in Worker : ~TaskIn(cq[w], q.of)
                       /\ LateReq(q) => ~ReleaseIn(cq[Main], q.of)
  /\ \A i, j \in 1 .. Len(cq[Main]) :
       /\ cq[Main][i].kind = "release" /\ cq[Main][j].kind = "release"
       /\ cq[Main][i].of = cq[Main][j].of
       => i = j

\* Nothing about c comes after its task.
TaskIsLast ==
  \A w \in Worker : \A i, j \in 1 .. Len(cq[w]) :
    /\ cq[w][i].kind \in {"fd", "task"} /\ cq[w][j].kind = "task"
    /\ cq[w][i].of = cq[w][j].of
    => i <= j

\* Worker w knows the slot that goes with the main slot k of c, or will before
\* its i-th completion.
FdKnown(queue, map, i, c, k) ==
  \/ k \in DOMAIN map
  \/ \E j \in 1 .. i - 1 : queue[j].kind = "fd" /\ queue[j].of = c

OrderInv ==
  /\ \A w \in Worker : \A i \in 1 .. Len(cq[w]) :
       cq[w][i].kind = "task" =>
         FdKnown(cq[w], directMap[w], i, cq[w][i].of, cq[w][i].key)
  /\ \A q \in kernel :
       q.op = "send_task" =>
         FdKnown(cq[q.ring], directMap[q.ring], Len(cq[q.ring]) + 1, q.of, q.fd)

IInv == /\ TypeOK /\ SlotInv /\ ObjectInv /\ RequestInv /\ MessageInv /\ MapInv
        /\ StageInv /\ TaskIsLast /\ OrderInv

-----------------------------------------------------------------------------
(* The invariant of NoSlotLeaks: every slot that is taken will be closed.   *)

Late(c) == ReleaseIn(cq[Main], c) \/ \E q \in kernel : LateReq(q) /\ q.of = c
TaskSent(c) ==
  \/ \E q \in kernel : q.op = "send_task" /\ q.of = c
  \/ \E w \in Worker : TaskIn(cq[w], c)

\* The main ring has been told to close the slot of c, or the destructor did.
Told(c) ==
  \/ phase[c] \in {"served", "closed"}
  \/ phase[c] = "overwritten" /\ worker[c] # Main

MainLeakInv ==
  \A s \in Slot(Main) :
    table[Main][s] # NoConn /\ Told(table[Main][s]) => Late(table[Main][s])

WorkerSlotOK(w, s, c) ==
  /\ w = worker[c] /\ phase[c] \in {"sent"} \cup Past
  /\ phase[c] = "sent" => TaskSent(c)
  /\ phase[c] = "served" => s = served[c].socket
  /\ phase[c] = "closed" => Closing(c, w)

WorkerLeakInv ==
  \A w \in Worker : \A s \in Slot(w) : \A c \in Conn :
    table[w][s] = c => WorkerSlotOK(w, s, c)

\* Before the copy there is none, and then there is one.
CopyInv ==
  /\ \A q \in kernel : q.op = "send_fd" =>
       \A w \in Worker : \A s \in Slot(w) : table[w][s] # q.of
  /\ \A w \in Worker : \A s, t \in Slot(w) :
       table[w][s] = table[w][t] /\ table[w][s] # NoConn => s = t

-----------------------------------------------------------------------------
(* Rings, slots and tables.                                                 *)

LEMMA SizeFacts ==
  NWorkers \in Nat \ {0} /\ MainSlots \in Nat \ {0} /\ WorkerSlots \in Nat \ {0}
  BY SizeAssumption

LEMMA RingFacts ==
  /\ Main \in Ring /\ Worker \subseteq Ring /\ Main \notin Worker
  /\ Ring = Worker \cup {Main}
  BY SizeFacts, SMT DEF Main, Worker, Ring

LEMMA SlotFacts ==
  ASSUME NEW r \in Ring
  PROVE  /\ Slot(r) \subseteq Fd /\ -1 \in Fd /\ 0 \in Fd /\ -1 \notin Slot(r)
         /\ \A s \in Slot(r) : s > -1
         /\ Fd \subseteq Int /\ Slot(r) \subseteq Int
  BY SizeFacts, SMT DEF Slot, Fd, Ring, Worker, Main

\* pick_worker picks a worker.
LEMMA TurnIsWorker ==
  ASSUME NEW x \in Nat
  PROVE  x % NWorkers \in Worker
  BY SizeFacts, SMT DEF Worker

LEMMA FreeFacts ==
  ASSUME NEW r \in Ring, NEW s \in Free(r)
  PROVE  s \in Slot(r) /\ table[r][s] = NoConn
  BY DEF Free

TableOK ==
  /\ DOMAIN table = Ring
  /\ \A r \in Ring : table[r] \in [Slot(r) -> Conn \cup {NoConn}]

\* One slot changes.
LEMMA TableFacts ==
  ASSUME TableOK, NEW r \in Ring, NEW s \in Slot(r), NEW v \in Conn \cup {NoConn},
         table' = [table EXCEPT ![r][s] = v]
  PROVE  /\ TableOK'
         /\ table'[r][s] = v
         /\ \A t \in Slot(r) \ {s} : table'[r][t] = table[r][t]
         /\ \A q \in Ring \ {r} : table'[q] = table[q]
  BY DEF TableOK

\* A connection that is put into a free slot disturbs no other.
LEMMA HoldsGrows ==
  ASSUME TableOK, NEW r \in Ring, NEW s \in Slot(r), NEW v \in Conn,
         table[r][s] = NoConn, table' = [table EXCEPT ![r][s] = v]
  PROVE  /\ Holds(table', r, s, v)
         /\ \A q \in Ring, c \in Conn : \A t : Holds(table, q, t, c) => Holds(table', q, t, c)
<1>a. DOMAIN table = Ring /\ DOMAIN table[r] = Slot(r)
  BY DEF TableOK
<1>b. /\ table'[r] = [table[r] EXCEPT ![s] = v]
      /\ \A q \in Ring \ {r} : table'[q] = table[q]
  BY <1>a
<1>1. /\ table'[r][s] = v
      /\ \A t \in Slot(r) \ {s} : table'[r][t] = table[r][t]
      /\ \A q \in Ring \ {r} : table'[q] = table[q]
  BY <1>a, <1>b
<1>2. \A c \in Conn : c # NoConn
  BY ConnAssumption
<1> QED
  BY <1>1, <1>2 DEF Holds

-----------------------------------------------------------------------------
(* Queues.                                                                  *)

LEMMA PostFacts ==
  ASSUME cq \in [Ring -> Seq(Message)], NEW r \in Ring, NEW e \in Message,
         Post(r, e)
  PROVE  /\ cq' \in [Ring -> Seq(Message)]
         /\ Len(cq[r]) \in Nat /\ Len(cq'[r]) = Len(cq[r]) + 1
         /\ cq'[r][Len(cq[r]) + 1] = e
         /\ \A i \in 1 .. Len(cq[r]) : cq'[r][i] = cq[r][i]
         /\ \A s \in Ring \ {r} : cq'[s] = cq[s]
  BY DEF Post

LEMMA MessagesPosted ==
  ASSUME cq \in [Ring -> Seq(Message)], NEW r \in Ring, NEW e \in Message,
         Post(r, e)
  PROVE  /\ Messages(cq'[r]) = Messages(cq[r]) \cup {e}
         /\ \A s \in Ring \ {r} : Messages(cq'[s]) = Messages(cq[s])
<1>1. /\ Len(cq[r]) \in Nat /\ Len(cq'[r]) = Len(cq[r]) + 1
      /\ cq'[r][Len(cq[r]) + 1] = e
      /\ \A i \in 1 .. Len(cq[r]) : cq'[r][i] = cq[r][i]
      /\ \A s \in Ring \ {r} : cq'[s] = cq[s]
  BY PostFacts
<1>2. 1 .. Len(cq'[r]) = (1 .. Len(cq[r])) \cup {Len(cq[r]) + 1}
  BY <1>1
<1>3. Messages(cq'[r]) = Messages(cq[r]) \cup {e}
  BY <1>1, <1>2 DEF Messages
<1> QED
  BY <1>1, <1>3 DEF Messages

LEMMA HandledFacts ==
  ASSUME cq \in [Ring -> Seq(Message)], NEW r \in Ring, cq[r] # <<>>, Handled(r)
  PROVE  /\ cq' \in [Ring -> Seq(Message)]
         /\ First(r) \in Message /\ First(r) = cq[r][1] /\ 1 \in 1 .. Len(cq[r])
         /\ Len(cq[r]) \in Nat /\ Len(cq'[r]) = Len(cq[r]) - 1
         /\ \A i \in 1 .. Len(cq'[r]) :
              cq'[r][i] = cq[r][i + 1] /\ i + 1 \in 1 .. Len(cq[r])
         /\ \A s \in Ring \ {r} : cq'[s] = cq[s]
  BY DEF Handled, First

LEMMA MessagesHandled ==
  ASSUME cq \in [Ring -> Seq(Message)], NEW r \in Ring, cq[r] # <<>>, Handled(r)
  PROVE  /\ First(r) \in Messages(cq[r])
         /\ Messages(cq'[r]) \subseteq Messages(cq[r])
         /\ \A s \in Ring \ {r} : Messages(cq'[s]) = Messages(cq[s])
<1>1. /\ First(r) = cq[r][1] /\ 1 \in 1 .. Len(cq[r])
      /\ \A i \in 1 .. Len(cq'[r]) :
           cq'[r][i] = cq[r][i + 1] /\ i + 1 \in 1 .. Len(cq[r])
      /\ \A s \in Ring \ {r} : cq'[s] = cq[s]
  BY HandledFacts
<1> QED
  BY <1>1 DEF Messages

LEMMA InitIInv == Init => IInv
<1> SUFFICES ASSUME Init PROVE IInv
  OBVIOUS
<1> USE RingFacts, SlotFacts
<1>1. TypeOK
  <2>1. NoObject \in Object
    BY DEF NoObject, Make, Object
  <2>2. /\ DOMAIN table = Ring
        /\ \A r \in Ring : table[r] \in [Slot(r) -> Conn \cup {NoConn}]
    BY DEF Init
  <2>3. cq \in [Ring -> Seq(Message)]
    BY DEF Init
  <2>4. /\ DOMAIN directMap = Worker
        /\ \A w \in Worker : DOMAIN directMap[w] = {}
    BY DEF Init
  <2>5. worker \in [Conn -> Ring]
    BY DEF Init
  <2>6. /\ phase \in [Conn -> Phase]
        /\ object \in [Conn -> Object] /\ served \in [Conn -> Object]
        /\ current \in {-1} \cup Worker /\ kernel \subseteq Request
        /\ undefined \in BOOLEAN
    BY <2>1 DEF Init
  <2> QED
    BY <2>2, <2>3, <2>4, <2>5, <2>6 DEF TypeOK
<1>2. \A r \in Ring : cq[r] = <<>>
  BY DEF Init
<1>3. SlotInv
  BY ConnAssumption DEF Init, SlotInv
<1>4. ObjectInv /\ RequestInv
  BY DEF Init, ObjectInv, RequestInv, NoObject, Make
<1>5. \A r \in Ring : Messages(cq[r]) = {}
  BY <1>2 DEF Messages
<1>6. MessageInv
  BY <1>5 DEF MessageInv
<1>7. MapInv
  BY DEF Init, MapInv
<1>8. StageInv /\ TaskIsLast /\ OrderInv
  BY <1>2 DEF Init, StageInv, TaskIsLast, OrderInv
<1> QED
  BY <1>1, <1>3, <1>4, <1>6, <1>7, <1>8 DEF IInv

-----------------------------------------------------------------------------
(* The main thread.                                                         *)

\* The queues and direct_map_ do not change, and no task is sent.
LEMMA OrderKept ==
  ASSUME TaskIsLast, OrderInv, cq' = cq, directMap' = directMap,
         \A q \in kernel' : q.op = "send_task" => q \in kernel
  PROVE  TaskIsLast' /\ OrderInv'
  BY DEF TaskIsLast, OrderInv, FdKnown

\* A connection in phase "peer" or "main" is named by the requests and messages
\* of no hand-over.
LEMMA NotSentYet ==
  ASSUME IInv, NEW c \in Conn, phase[c] \in {"peer", "main"}
  PROVE  /\ \A q \in kernel : SendReq(q) \/ LateReq(q) => q.of # c
         /\ \A q \in kernel : q.op = "close" /\ q.ring # Main => q.of # c
         /\ \A w \in Worker : ~TaskIn(cq[w], c)
         /\ ~ReleaseIn(cq[Main], c)
         /\ \A e \in Messages(cq[Main]) : e.kind = "release" => e.of # c
         /\ \A w \in Worker : \A e \in Messages(cq[w]) : e.kind # "stale" => e.of # c
         /\ \A w \in Worker : \A k \in DOMAIN directMap[w] : table[Main][k] # c
  BY DEF IInv, RequestInv, RequestOK, MessageInv, MapInv, TaskIn, ReleaseIn

LEMMA AcceptStep ==
  ASSUME IInv, NEW c \in Conn, NEW s \in Slot(Main), Accept(c, s)
  PROVE  IInv'
<1> USE RingFacts
<1>1. PICK q0 : q0 = [op |-> "close", ring |-> Main, fd |-> -1, of |-> c]
  OBVIOUS
<1>2. /\ q0 \in Request /\ ~SendReq(q0) /\ ~LateReq(q0) /\ q0.ring = Main
      /\ q0.op # "send_task"
  BY <1>1, SlotFacts DEF Request, SendReq, LateReq
<1>3. Make(s) \in Object /\ Make(s).in_this_ring = -1 /\ Make(s).own /\ Make(s).socket = s
  BY SlotFacts DEF Object, Make
<1>4. /\ phase[c] = "peer" /\ table[Main][s] = NoConn
      /\ table' = [table EXCEPT ![Main][s] = c]
      /\ phase' = [phase EXCEPT ![c] = "main"]
      /\ object' = [object EXCEPT ![c] = Make(s)]
      /\ UNCHANGED <<cq, undefined, served, worker, current, directMap>>
  BY DEF Accept
<1>5. /\ object \in [Conn -> Object] /\ kernel \subseteq Request /\ TableOK
      /\ phase \in [Conn -> Phase]
  BY DEF IInv, TypeOK, TableOK
<1>6. kernel' = kernel \cup {q0}
  BY <1>1, <1>3, <1>4, <1>5 DEF Accept, Closes, MovedFrom
<1>7. /\ TableOK' /\ table'[Main][s] = c
      /\ \A t \in Slot(Main) \ {s} : table'[Main][t] = table[Main][t]
      /\ \A r \in Ring \ {Main} : table'[r] = table[r]
  BY <1>4, <1>5 DEF TableOK
<1>8. /\ Holds(table', Main, s, c)
      /\ \A r \in Ring, d \in Conn : \A t : Holds(table, r, t, d) => Holds(table', r, t, d)
  BY <1>4, <1>5, HoldsGrows
<1>9. /\ \A q \in kernel : SendReq(q) \/ LateReq(q) => q.of # c
      /\ \A q \in kernel : q.op = "close" /\ q.ring # Main => q.of # c
      /\ \A e \in Messages(cq[Main]) : e.kind = "release" => e.of # c
      /\ \A w \in Worker : \A e \in Messages(cq[w]) : e.kind # "stale" => e.of # c
      /\ \A w \in Worker : \A k \in DOMAIN directMap[w] : table[Main][k] # c
  BY <1>4, NotSentYet
<1>10. c # NoConn
  BY ConnAssumption
<1>11. TypeOK'
  <2>1. object' \in [Conn -> Object]
    BY <1>3, <1>4, <1>5
  <2>2. phase' \in [Conn -> Phase]
    BY <1>4, <1>5
  <2> QED
    BY <1>2, <1>4, <1>6, <1>7, <2>1, <2>2 DEF IInv, TypeOK, TableOK
<1>12. SlotInv'
  <2>1. \A r \in Ring : \A t \in Slot(r) : table[r][t] # c
    BY <1>4 DEF IInv, SlotInv
  <2>2. \A t, u \in Slot(Main) :
          table'[Main][t] = table'[Main][u] /\ table'[Main][t] # NoConn => t = u
    BY <1>7, <2>1 DEF IInv, SlotInv
  <2>3. \A d \in Conn : phase'[d] = "peer" => d # c /\ phase[d] = "peer"
    BY <1>4, <1>5
  <2>4. \A d \in Conn : phase'[d] = "peer" => \A r \in Ring : \A t \in Slot(r) : table'[r][t] # d
    BY <1>7, <2>3 DEF IInv, SlotInv
  <2> QED
    BY <2>2, <2>4 DEF SlotInv
<1>13. ObjectInv'
  <2> SUFFICES ASSUME NEW d \in Conn
               PROVE  /\ object'[d].in_this_ring = -1
                      /\ phase'[d] = "peer" => object'[d].socket = -1
                      /\ phase'[d] \in {"peer", "main"} => worker'[d] = Main
                      /\ phase'[d] = "main" => object'[d].own /\ Holds(table', Main, object'[d].socket, d)
                      /\ phase'[d] \in {"sent"} \cup Past =>
                           object'[d].socket = -1 \/ ~object'[d].own
                      /\ phase'[d] = "served" =>
                           /\ worker'[d] \in Worker
                           /\ ~served'[d].own /\ served'[d].in_this_ring = served'[d].socket
                           /\ Holds(table', worker'[d], served'[d].socket, d)
    BY DEF ObjectInv
  <2>1. CASE d = c
    <3>1. worker'[c] = Main
      BY <1>4 DEF IInv, ObjectInv
    <3>2. object'[c] = Make(s) /\ phase'[c] = "main"
      BY <1>4, <1>5
    <3> QED
      BY <1>3, <1>8, <2>1, <3>1, <3>2
  <2>2. CASE d # c
    <3>1. object'[d] = object[d] /\ phase'[d] = phase[d]
      BY <1>4, <1>5, <2>2
    <3> QED
      BY <1>4, <1>8, <3>1 DEF IInv, ObjectInv
  <2> QED
    BY <2>1, <2>2
<1>14. RequestInv'
  <2> SUFFICES ASSUME NEW q \in kernel PROVE RequestOK(table', phase', worker', q)
    BY <1>2, <1>6 DEF RequestInv, RequestOK
  <2>1. q.of \in Conn /\ q.ring \in Ring
    BY <1>5 DEF Request
  <2>2. SendReq(q) \/ LateReq(q) \/ (q.op = "close" /\ q.ring # Main) =>
          phase'[q.of] = phase[q.of]
    BY <1>4, <1>5, <1>9, <2>1
  <2> QED
    BY <1>4, <1>8, <2>1, <2>2 DEF IInv, RequestInv, RequestOK
<1>15. MessageInv'
  <2>1. (\A d \in Conn \ {c} : phase'[d] = phase[d]) /\ cq' = cq /\ worker' = worker
    BY <1>4, <1>5
  <2>2. \A e \in Messages(cq[Main]) :
          /\ e.kind \in {"release", "stale"}
          /\ e.kind = "release" => /\ e.of \in Conn
                                   /\ phase'[e.of] \in Past
                                   /\ Holds(table', Main, e.res, e.of)
    BY <1>8, <1>9, <2>1 DEF IInv, MessageInv
  <2>3. \A w \in Worker : \A e \in Messages(cq[w]) :
          /\ e.kind \in {"fd", "task", "stale"}
          /\ e.kind # "stale" => /\ e.of \in Conn /\ phase'[e.of] = "sent"
                                 /\ worker[e.of] = w /\ Holds(table', Main, e.key, e.of)
          /\ e.kind = "fd" => Holds(table', w, e.res, e.of)
    BY <1>8, <1>9, <2>1 DEF IInv, MessageInv
  <2> QED
    BY <2>1, <2>2, <2>3 DEF MessageInv
<1>16. MapInv'
  <2>1. ASSUME NEW w \in Worker, NEW k \in DOMAIN directMap[w]
        PROVE  /\ k \in Slot(Main) /\ table'[Main][k] \in Conn
               /\ phase'[table'[Main][k]] = "sent" /\ worker[table'[Main][k]] = w
               /\ Holds(table', w, directMap[w][k], table'[Main][k])
    <3>1. /\ k \in Slot(Main) /\ table[Main][k] \in Conn
          /\ phase[table[Main][k]] = "sent" /\ worker[table[Main][k]] = w
          /\ Holds(table, w, directMap[w][k], table[Main][k])
      BY DEF IInv, MapInv
    <3>2. k # s /\ table[Main][k] # c
      BY <1>4, <1>9, <3>1, ConnAssumption
    <3>3. table'[Main][k] = table[Main][k]
      BY <1>7, <3>1, <3>2
    <3> QED
      BY <1>4, <1>5, <1>7, <3>1, <3>2, <3>3 DEF Holds
  <2> QED
    BY <1>4, <2>1 DEF MapInv, Holds
<1>17. StageInv'
  <2>1. \A r : Messages(cq'[r]) = Messages(cq[r])
    BY <1>4
  <2>2. \A d : \A w : (TaskIn(cq'[w], d) <=> TaskIn(cq[w], d)) /\ (ReleaseIn(cq'[Main], d) <=> ReleaseIn(cq[Main], d))
    BY <2>1 DEF TaskIn, ReleaseIn
  <2> QED
    BY <1>2, <1>4, <1>6, <2>2 DEF IInv, StageInv
<1>18. TaskIsLast' /\ OrderInv'
  BY <1>2, <1>4, <1>6, OrderKept DEF IInv
<1> QED
  BY <1>11, <1>12, <1>13, <1>14, <1>15, <1>16, <1>17, <1>18 DEF IInv

\* Tables, queues and direct_map_ stay, and the phase of one connection goes on:
\* one that is not sent yet, or one that was served and is closed or overwritten.
LEMMA ClaimsKept ==
  ASSUME IInv, NEW c \in Conn,
         table' = table, cq' = cq, directMap' = directMap,
         \A d \in Conn \ {c} : phase'[d] = phase[d] /\ worker'[d] = worker[d],
         \/ phase'[c] = phase[c] /\ worker'[c] = worker[c]
         \/ phase[c] = "main" /\ phase'[c] # "peer"
         \/ /\ phase[c] = "served" /\ phase'[c] \in {"closed", "overwritten"}
            /\ worker'[c] = worker[c]
  PROVE  /\ SlotInv' /\ MessageInv' /\ MapInv'
         /\ \A q \in kernel : RequestOK(table', phase', worker', q)
<1> USE RingFacts
<1>1. kernel \subseteq Request
  BY DEF IInv, TypeOK
<1>2. CASE phase'[c] = phase[c] /\ worker'[c] = worker[c]
  <2>1. \A d \in Conn : phase'[d] = phase[d] /\ worker'[d] = worker[d]
    BY <1>2
  <2>2. SlotInv' /\ MessageInv' /\ MapInv'
    BY <2>1 DEF IInv, SlotInv, MessageInv, MapInv
  <2>3. \A q \in kernel : q.of \in Conn
    BY <1>1 DEF Request
  <2> QED
    BY <2>1, <2>2, <2>3 DEF IInv, RequestInv, RequestOK
<1>3. CASE phase[c] = "main" /\ phase'[c] # "peer"
  <2>1. /\ \A q \in kernel : SendReq(q) \/ LateReq(q) => q.of # c
        /\ \A q \in kernel : q.op = "close" /\ q.ring # Main => q.of # c
        /\ \A e \in Messages(cq[Main]) : e.kind = "release" => e.of # c
        /\ \A w \in Worker : \A e \in Messages(cq[w]) : e.kind # "stale" => e.of # c
        /\ \A w \in Worker : \A k \in DOMAIN directMap[w] : table[Main][k] # c
    BY <1>3, NotSentYet
  <2>2. SlotInv'
    BY <1>3 DEF IInv, SlotInv
  <2>3. MessageInv'
    BY <2>1 DEF IInv, MessageInv
  <2>4. MapInv'
    BY <2>1 DEF IInv, MapInv
  <2>5. \A q \in kernel : q.of \in Conn
    BY <1>1 DEF Request
  <2>6. \A q \in kernel : RequestOK(table', phase', worker', q)
    BY <2>1, <2>5 DEF IInv, RequestInv, RequestOK
  <2> QED
    BY <2>2, <2>3, <2>4, <2>6
<1>4. CASE /\ phase[c] = "served" /\ phase'[c] \in {"closed", "overwritten"}
           /\ worker'[c] = worker[c]
  <2>1. \A d \in Conn : /\ worker'[d] = worker[d]
                        /\ phase[d] = "sent" => phase'[d] = "sent"
                        /\ phase[d] = "closed" => phase'[d] = "closed"
                        /\ phase[d] \in Past => phase'[d] \in Past
                        /\ phase'[d] = "peer" => phase[d] = "peer"
    BY <1>4
  <2>2. SlotInv' /\ MessageInv' /\ MapInv'
    BY <2>1 DEF IInv, SlotInv, MessageInv, MapInv
  <2>3. \A q \in kernel : q.of \in Conn
    BY <1>1 DEF Request
  <2>4. \A q \in kernel : RequestOK(table', phase', worker', q)
    BY <2>1, <2>3 DEF IInv, RequestInv, RequestOK
  <2> QED
    BY <2>2, <2>4
<1> QED
  BY <1>2, <1>3, <1>4

LEMMA ParallelSpawnStep ==
  ASSUME IInv, NEW c \in Conn, ParallelSpawn(c)
  PROVE  IInv'
<1> USE RingFacts
<1>1. PICK q0 : q0 = [op |-> "send_fd", ring |-> current', fd |-> object[c].socket,
                      of |-> c]
  OBVIOUS
<1>2. /\ phase[c] = "main" /\ object[c].own
      /\ object' = [object EXCEPT ![c] = Release(object[c])]
      /\ worker' = [worker EXCEPT ![c] = current']
      /\ kernel' = kernel \cup {q0}
      /\ phase' = [phase EXCEPT ![c] = "sent"]
      /\ UNCHANGED <<table, cq, undefined, served, directMap>>
  BY <1>1 DEF ParallelSpawn
<1>3. /\ object \in [Conn -> Object] /\ kernel \subseteq Request
      /\ phase \in [Conn -> Phase]
      /\ worker \in [Conn -> Ring] /\ current \in {-1} \cup Worker
  BY DEF IInv, TypeOK
<1>4. current' \in Worker
  <2>1. current + 1 \in Nat
    BY <1>3, SMT DEF Worker
  <2> QED
    BY <2>1, TurnIsWorker DEF ParallelSpawn, PickWorker
<1>5. object[c] \in Object /\ Holds(table, Main, object[c].socket, c)
      /\ object[c].in_this_ring = -1
  BY <1>2, <1>3 DEF IInv, ObjectInv
<1>6. /\ q0 \in Request /\ SendReq(q0) /\ ~LateReq(q0) /\ q0.op = "send_fd"
      /\ q0.of = c /\ q0.ring = current' /\ q0.fd = object[c].socket
  BY <1>1, <1>4, <1>5, SlotFacts DEF Request, Object, SendReq, LateReq
<1>7. /\ Release(object[c]) \in Object /\ ~Release(object[c]).own
      /\ Release(object[c]).in_this_ring = -1
  BY <1>5 DEF Release, Object
<1>8. TypeOK'
  <2>1. object' \in [Conn -> Object] /\ worker' \in [Conn -> Ring]
    BY <1>2, <1>3, <1>4, <1>7
  <2>2. phase' \in [Conn -> Phase]
    BY <1>2, <1>3
  <2> QED
    BY <1>2, <1>3, <1>4, <1>6, <2>1, <2>2 DEF IInv, TypeOK
<1>9. /\ \A d \in Conn \ {c} : phase'[d] = phase[d] /\ worker'[d] = worker[d]
      /\ phase'[c] = "sent" /\ worker'[c] = current'
  BY <1>2, <1>3
<1>10. /\ SlotInv' /\ MessageInv' /\ MapInv'
       /\ \A q \in kernel : RequestOK(table', phase', worker', q)
  BY <1>2, <1>9, ClaimsKept
<1>11. ObjectInv'
  <2>1. \A d \in Conn \ {c} : object'[d] = object[d]
    BY <1>2, <1>3
  <2>2. object'[c] = Release(object[c])
    BY <1>2, <1>3
  <2> QED
    BY <1>2, <1>7, <1>9, <2>1, <2>2 DEF IInv, ObjectInv
<1>12. RequestInv'
  <2>1. RequestOK(table', phase', worker', q0)
    BY <1>2, <1>4, <1>5, <1>6, <1>9 DEF RequestOK
  <2> QED
    BY <1>2, <1>10, <2>1 DEF RequestInv
<1>13. StageInv'
  <2>1. /\ \A q \in kernel : SendReq(q) \/ LateReq(q) => q.of # c
        /\ \A w \in Worker : ~TaskIn(cq[w], c)
    BY <1>2, NotSentYet
  <2> QED
    BY <1>2, <1>6, <2>1 DEF IInv, StageInv
<1>14. TaskIsLast' /\ OrderInv'
  BY <1>2, <1>6, OrderKept DEF IInv
<1> QED
  BY <1>8, <1>10, <1>11, <1>12, <1>13, <1>14 DEF IInv

LEMMA DestroyObjectStep ==
  ASSUME IInv, NEW c \in Conn, DestroyObject(c)
  PROVE  IInv'
<1> USE RingFacts
<1>1. PICK q0 : q0 = [op |-> "close", ring |-> Main, fd |-> object[c].socket,
                      of |-> c]
  OBVIOUS
<1>2. /\ object[c].socket # -1
      /\ kernel' = kernel \cup Closes(object[c], Main, c)
      /\ object' = [object EXCEPT ![c] = MovedFrom(object[c])]
      /\ phase' = [phase EXCEPT ![c] = IF phase[c] = "main" THEN "closed" ELSE phase[c]]
      /\ UNCHANGED <<table, cq, undefined, served, worker, current, directMap>>
  BY DEF DestroyObject
<1>3. /\ object \in [Conn -> Object] /\ kernel \subseteq Request
      /\ phase \in [Conn -> Phase]
  BY DEF IInv, TypeOK
<1>4. object[c] \in Object /\ object[c].in_this_ring = -1
      /\ (object[c].own <=> phase[c] = "main")
      /\ (phase[c] = "main" => Holds(table, Main, object[c].socket, c))
  BY <1>2, <1>3 DEF IInv, ObjectInv
<1>5. MovedFrom(object[c]) \in Object /\ MovedFrom(object[c]).socket = -1
      /\ MovedFrom(object[c]).in_this_ring = -1
  BY <1>4, SlotFacts DEF MovedFrom, Object
<1>6. /\ \A d \in Conn \ {c} : phase'[d] = phase[d] /\ object'[d] = object[d]
      /\ phase'[c] = (IF phase[c] = "main" THEN "closed" ELSE phase[c])
      /\ object'[c] = MovedFrom(object[c])
      /\ phase' \in [Conn -> Phase]
      /\ object' \in [Conn -> Object]
  BY <1>2, <1>3, <1>5
<1>7. /\ q0 \in Request /\ LateReq(q0) /\ ~SendReq(q0) /\ q0.of = c /\ q0.ring = Main
      /\ q0.fd = object[c].socket /\ q0.op = "close"
  BY <1>1, <1>2, <1>4 DEF Request, Object, SendReq, LateReq
<1>8. kernel' = IF phase[c] = "main" THEN kernel \cup {q0} ELSE kernel
  <2>1. CASE phase[c] = "main"
    BY <1>1, <1>2, <1>4, <2>1 DEF Closes
  <2>2. CASE phase[c] # "main"
    BY <1>2, <1>4, <2>2 DEF Closes
  <2> QED
    BY <2>1, <2>2
<1>9. TypeOK'
  BY <1>2, <1>6, <1>7, <1>8 DEF IInv, TypeOK
<1>10. /\ SlotInv' /\ MessageInv' /\ MapInv'
       /\ \A q \in kernel : RequestOK(table', phase', worker', q)
  BY <1>2, <1>6, ClaimsKept
<1>11. ObjectInv'
  BY <1>2, <1>5, <1>6 DEF IInv, ObjectInv
<1>12. RequestInv'
  <2>1. phase[c] = "main" => RequestOK(table', phase', worker', q0)
    BY <1>2, <1>4, <1>6, <1>7 DEF RequestOK
  <2> QED
    BY <1>8, <1>10, <2>1 DEF RequestInv
<1>13. StageInv'
  <2>1. phase[c] = "main" =>
          /\ \A q \in kernel : SendReq(q) \/ LateReq(q) => q.of # c
          /\ ~ReleaseIn(cq[Main], c)
    BY NotSentYet
  <2> QED
    BY <1>2, <1>7, <1>8, <2>1 DEF IInv, StageInv
<1>14. TaskIsLast' /\ OrderInv'
  BY <1>2, <1>7, <1>8, OrderKept DEF IInv
<1> QED
  BY <1>9, <1>10, <1>11, <1>12, <1>13, <1>14 DEF IInv

LEMMA DestroyServedStep ==
  ASSUME IInv, NEW c \in Conn, DestroyServed(c)
  PROVE  IInv'
<1> USE RingFacts
<1>1. PICK q0 : q0 = [op |-> "close", ring |-> worker[c], fd |-> served[c].socket,
                      of |-> c]
  OBVIOUS
<1>2. /\ phase[c] = "served"
      /\ kernel' = kernel \cup Closes(served[c], worker[c], c)
      /\ served' = [served EXCEPT ![c] = MovedFrom(served[c])]
      /\ phase' = [phase EXCEPT ![c] = "closed"]
      /\ UNCHANGED <<table, cq, undefined, object, worker, current, directMap>>
  BY DEF DestroyServed
<1>3. /\ served \in [Conn -> Object] /\ kernel \subseteq Request
      /\ phase \in [Conn -> Phase]
  BY DEF IInv, TypeOK
<1>4. /\ served[c] \in Object /\ worker[c] \in Worker
      /\ ~served[c].own /\ served[c].in_this_ring = served[c].socket
      /\ Holds(table, worker[c], served[c].socket, c)
  BY <1>2, <1>3 DEF IInv, ObjectInv
<1>5. MovedFrom(served[c]) \in Object
  BY <1>4, SlotFacts DEF MovedFrom, Object
<1>6. /\ \A d \in Conn \ {c} : phase'[d] = phase[d] /\ served'[d] = served[d]
      /\ phase'[c] = "closed"
      /\ phase' \in [Conn -> Phase]
      /\ served' \in [Conn -> Object]
  BY <1>2, <1>3, <1>5
<1>7. served[c].in_this_ring > -1
  BY <1>4, SlotFacts DEF Holds
<1>8. kernel' = kernel \cup {q0}
  BY <1>1, <1>2, <1>4, <1>7 DEF Closes
<1>9. /\ q0 \in Request /\ ~LateReq(q0) /\ ~SendReq(q0) /\ q0.of = c
      /\ q0.ring = worker[c] /\ q0.fd = served[c].socket /\ q0.op = "close"
  BY <1>1, <1>4 DEF Request, Object, SendReq, LateReq
<1>10. TypeOK'
  BY <1>2, <1>6, <1>8, <1>9 DEF IInv, TypeOK
<1>11. /\ SlotInv' /\ MessageInv' /\ MapInv'
       /\ \A q \in kernel : RequestOK(table', phase', worker', q)
  BY <1>2, <1>6, ClaimsKept
<1>12. ObjectInv'
  BY <1>2, <1>6 DEF IInv, ObjectInv
<1>13. RequestInv'
  <2>1. RequestOK(table', phase', worker', q0)
    BY <1>2, <1>4, <1>6, <1>9 DEF RequestOK
  <2> QED
    BY <1>8, <1>11, <2>1 DEF RequestInv
<1>14. StageInv'
  BY <1>2, <1>8, <1>9 DEF IInv, StageInv
<1>15. TaskIsLast' /\ OrderInv'
  BY <1>2, <1>8, <1>9, OrderKept DEF IInv
<1> QED
  BY <1>10, <1>11, <1>12, <1>13, <1>14, <1>15 DEF IInv

LEMMA AssignStep ==
  ASSUME IInv, NEW c \in Conn, NEW d \in Conn, Assign(c, d)
  PROVE  IInv'
<1> USE RingFacts
<1>1. /\ object[c].socket # -1
      /\ object' = [object EXCEPT ![c] = MovedFrom(object[d])]
      /\ phase' = [phase EXCEPT ![c] = IF phase[c] = "main" THEN "overwritten"
                                       ELSE phase[c]]
      /\ kernel' = kernel \cup Closes(object'[c], Main, c)
      /\ UNCHANGED <<table, cq, undefined, served, worker, current, directMap>>
  BY DEF Assign
<1>2. /\ object \in [Conn -> Object] /\ kernel \subseteq Request
      /\ phase \in [Conn -> Phase]
  BY DEF IInv, TypeOK
<1>3. MovedFrom(object[d]) \in Object /\ MovedFrom(object[d]).socket = -1
      /\ MovedFrom(object[d]).in_this_ring = -1
  BY <1>2, SlotFacts DEF MovedFrom, Object
<1>4. /\ \A e \in Conn \ {c} : phase'[e] = phase[e] /\ object'[e] = object[e]
      /\ phase'[c] = (IF phase[c] = "main" THEN "overwritten" ELSE phase[c])
      /\ object'[c] = MovedFrom(object[d])
      /\ phase' \in [Conn -> Phase] /\ object' \in [Conn -> Object]
  BY <1>1, <1>2, <1>3
\* The only close is that of the object the value was moved out of.
<1>5. ASSUME NEW q \in kernel', q \notin kernel
      PROVE  q = [op |-> "close", ring |-> Main, fd |-> -1, of |-> c]
  BY <1>1, <1>3, <1>4, <1>5 DEF Closes
<1>6. ASSUME NEW q \in kernel', q \notin kernel
      PROVE  q \in Request /\ ~SendReq(q) /\ ~LateReq(q) /\ q.ring = Main
             /\ q.op # "send_task"
  BY <1>5, <1>6, SlotFacts DEF Request, SendReq, LateReq
<1>7. TypeOK'
  BY <1>1, <1>2, <1>4, <1>6 DEF IInv, TypeOK
<1>8. /\ SlotInv' /\ MessageInv' /\ MapInv'
      /\ \A q \in kernel : RequestOK(table', phase', worker', q)
  BY <1>1, <1>4, ClaimsKept
<1>9. ObjectInv'
  BY <1>1, <1>3, <1>4 DEF IInv, ObjectInv
<1>10. RequestInv'
  BY <1>6, <1>8 DEF RequestInv, RequestOK
<1>11. StageInv'
  BY <1>1, <1>6 DEF IInv, StageInv
<1>12. TaskIsLast' /\ OrderInv'
  BY <1>1, <1>6, OrderKept DEF IInv
<1> QED
  BY <1>7, <1>8, <1>9, <1>10, <1>11, <1>12 DEF IInv

LEMMA AssignServedStep ==
  ASSUME IInv, NEW c \in Conn, NEW d \in Conn, AssignServed(c, d)
  PROVE  IInv'
<1> USE RingFacts
<1>1. /\ phase[c] = "served" /\ phase[d] = "served"
      /\ served' = [served EXCEPT ![c] = MovedFrom(served[d])]
      /\ phase' = [phase EXCEPT ![c] = "overwritten"]
      /\ kernel' = kernel \cup Closes(served'[c], worker[c], c)
      /\ UNCHANGED <<table, cq, undefined, object, worker, current, directMap>>
  BY DEF AssignServed
<1>2. served \in [Conn -> Object] /\ phase \in [Conn -> Phase]
  BY DEF IInv, TypeOK
<1>3. MovedFrom(served[d]) \in Object /\ ~MovedFrom(served[d]).own
      /\ MovedFrom(served[d]).in_this_ring = -1
  <2>1. served[d] \in Object /\ ~served[d].own
    BY <1>1, <1>2 DEF IInv, ObjectInv
  <2> QED
    BY <2>1, SlotFacts DEF MovedFrom, Object
<1>4. /\ \A e \in Conn \ {c} : phase'[e] = phase[e] /\ served'[e] = served[e]
      /\ phase'[c] = "overwritten" /\ served'[c] = MovedFrom(served[d])
      /\ phase' \in [Conn -> Phase] /\ served' \in [Conn -> Object]
  BY <1>1, <1>2, <1>3
<1>5. kernel' = kernel
  BY <1>1, <1>3, <1>4 DEF Closes
<1>6. TypeOK'
  BY <1>1, <1>4, <1>5 DEF IInv, TypeOK
<1>7. /\ SlotInv' /\ MessageInv' /\ MapInv'
      /\ \A q \in kernel : RequestOK(table', phase', worker', q)
  BY <1>1, <1>4, ClaimsKept
<1>8. ObjectInv'
  <2>1. \A e \in Conn : (phase'[e] = phase[e] /\ served'[e] = served[e]) \/ e = c
    BY <1>4
  <2>2. object[c].socket = -1 \/ ~object[c].own
    BY <1>1 DEF IInv, ObjectInv
  <2> QED
    BY <1>1, <1>4, <2>1, <2>2 DEF IInv, ObjectInv
<1>9. RequestInv'
  BY <1>5, <1>7 DEF RequestInv
<1>10. StageInv'
  BY <1>1, <1>5 DEF IInv, StageInv
<1>11. TaskIsLast' /\ OrderInv'
  BY <1>1, <1>5, OrderKept DEF IInv
<1> QED
  BY <1>6, <1>7, <1>8, <1>9, <1>10, <1>11 DEF IInv

-----------------------------------------------------------------------------
(* Completions are handled.                                                 *)

\* One completion less: what is known of the others stays known.
LEMMA OrderShift ==
  ASSUME cq \in [Ring -> Seq(Message)], NEW w \in Ring, cq[w] # <<>>, Handled(w),
         NEW map, NEW mapNow, NEW c, NEW k, NEW i \in 1 .. Len(cq[w]),
         FdKnown(cq[w], map, i + 1, c, k),
         k \in DOMAIN map => k \in DOMAIN mapNow,
         First(w).kind = "fd" /\ First(w).of = c => k \in DOMAIN mapNow
  PROVE  FdKnown(cq'[w], mapNow, i, c, k)
<1>1. /\ First(w) = cq[w][1] /\ Len(cq[w]) \in Nat /\ Len(cq'[w]) = Len(cq[w]) - 1
      /\ \A j \in 1 .. Len(cq'[w]) : cq'[w][j] = cq[w][j + 1]
  BY HandledFacts
<1>2. CASE k \in DOMAIN map
  BY <1>2 DEF FdKnown
<1>3. CASE k \notin DOMAIN map
  <2>1. PICK j \in 1 .. (i + 1) - 1 : cq[w][j].kind = "fd" /\ cq[w][j].of = c
    BY <1>3 DEF FdKnown
  <2>2. CASE j = 1
    BY <1>1, <2>1, <2>2 DEF FdKnown
  <2>3. CASE j # 1
    <3>1. j - 1 \in 1 .. i - 1 /\ j - 1 \in 1 .. Len(cq'[w]) /\ (j - 1) + 1 = j
      BY <1>1, <2>1, <2>3
    <3>2. cq'[w][j - 1] = cq[w][j]
      BY <1>1, <3>1
    <3> QED
      BY <2>1, <3>1, <3>2 DEF FdKnown
  <2> QED
    BY <2>2, <2>3
<1> QED
  BY <1>2, <1>3

\* The messages that are left, and their order.
LEMMA MessagesKept ==
  ASSUME IInv, NEW r \in Ring, cq[r] # <<>>, Handled(r)
  PROVE  /\ \A s \in Ring : Messages(cq'[s]) \subseteq Messages(cq[s])
         /\ TaskIsLast'
         /\ \A i, j \in 1 .. Len(cq'[Main]) :
              /\ cq'[Main][i].kind = "release" /\ cq'[Main][j].kind = "release"
              /\ cq'[Main][i].of = cq'[Main][j].of
              => i = j
<1> USE RingFacts
<1>1. cq \in [Ring -> Seq(Message)]
  BY DEF IInv, TypeOK
<1>2. /\ Len(cq[r]) \in Nat /\ Len(cq'[r]) = Len(cq[r]) - 1
      /\ \A i \in 1 .. Len(cq'[r]) :
           cq'[r][i] = cq[r][i + 1] /\ i + 1 \in 1 .. Len(cq[r])
      /\ \A s \in Ring \ {r} : cq'[s] = cq[s]
  BY <1>1, HandledFacts
<1>3. \A s \in Ring : Messages(cq'[s]) \subseteq Messages(cq[s])
  BY <1>1, MessagesHandled
<1>4. ASSUME NEW w \in Worker, NEW i \in 1 .. Len(cq'[w]), NEW j \in 1 .. Len(cq'[w]),
             cq'[w][i].kind \in {"fd", "task"}, cq'[w][j].kind = "task",
             cq'[w][i].of = cq'[w][j].of
      PROVE  i <= j
  <2>1. CASE w = r
    <3>1. /\ cq[w][i + 1] = cq'[w][i] /\ i + 1 \in 1 .. Len(cq[w])
          /\ cq[w][j + 1] = cq'[w][j] /\ j + 1 \in 1 .. Len(cq[w])
      BY <1>2, <2>1
    <3>2. i + 1 <= j + 1
      BY <1>4, <3>1 DEF IInv, TaskIsLast
    <3> QED
      BY <3>2
  <2>2. CASE w # r
    BY <1>2, <1>4, <2>2 DEF IInv, TaskIsLast
  <2> QED
    BY <2>1, <2>2
<1>5. ASSUME NEW i \in 1 .. Len(cq'[Main]), NEW j \in 1 .. Len(cq'[Main]),
             cq'[Main][i].kind = "release", cq'[Main][j].kind = "release",
             cq'[Main][i].of = cq'[Main][j].of
      PROVE  i = j
  <2>1. CASE Main = r
    <3>1. /\ cq[Main][i + 1] = cq'[Main][i] /\ i + 1 \in 1 .. Len(cq[Main])
          /\ cq[Main][j + 1] = cq'[Main][j] /\ j + 1 \in 1 .. Len(cq[Main])
      BY <1>2, <2>1
    <3>2. i + 1 = j + 1
      BY <1>5, <3>1 DEF IInv, StageInv
    <3> QED
      BY <3>2
  <2>2. CASE Main # r
    BY <1>2, <1>5, <2>2 DEF IInv, StageInv
  <2> QED
    BY <2>1, <2>2
<1> QED
  BY <1>3, <1>4, <1>5 DEF TaskIsLast

\* Worker w handles a completion: what its direct_map_ loses, no task that is
\* still to come needs.
LEMMA OrderHandled ==
  ASSUME IInv, NEW w \in Worker, cq[w] # <<>>, Handled(w),
         \A v \in Worker \ {w} : directMap'[v] = directMap[v],
         \A q \in kernel' : q.op = "send_task" => q \in kernel,
         \A c \in Conn : \A k \in Slot(Main) :
           /\ Holds(table, Main, k, c)
           /\ \/ TaskIn(cq'[w], c)
              \/ \E q \in kernel : q.op = "send_task" /\ q.of = c
           => /\ k \in DOMAIN directMap[w] => k \in DOMAIN directMap'[w]
              /\ First(w).kind = "fd" /\ First(w).of = c => k \in DOMAIN directMap'[w]
  PROVE  OrderInv'
<1> USE RingFacts
<1>1. cq \in [Ring -> Seq(Message)] /\ kernel \subseteq Request
  BY DEF IInv, TypeOK
<1>2. /\ Len(cq[w]) \in Nat /\ Len(cq'[w]) = Len(cq[w]) - 1 /\ 1 \in 1 .. Len(cq[w])
      /\ \A i \in 1 .. Len(cq'[w]) :
           cq'[w][i] = cq[w][i + 1] /\ i + 1 \in 1 .. Len(cq[w])
      /\ \A s \in Ring \ {w} : cq'[s] = cq[s]
  BY <1>1, HandledFacts
<1>3. ASSUME NEW i \in 1 .. Len(cq'[w]), cq'[w][i].kind = "task"
      PROVE  FdKnown(cq'[w], directMap'[w], i, cq'[w][i].of, cq'[w][i].key)
  <2>1. PICK e : e = cq'[w][i]
    OBVIOUS
  <2>2. cq[w][i + 1] = e /\ i + 1 \in 1 .. Len(cq[w]) /\ e.kind = "task" /\ i \in 1 .. Len(cq[w])
    BY <1>2, <1>3, <2>1
  <2>3. FdKnown(cq[w], directMap[w], i + 1, e.of, e.key)
    BY <2>2 DEF IInv, OrderInv
  <2>4. e \in Messages(cq[w]) /\ e \in Messages(cq'[w])
    BY <2>1, <2>2 DEF Messages
  <2>5. e.of \in Conn /\ Holds(table, Main, e.key, e.of) /\ e.key \in Slot(Main)
    BY <2>2, <2>4 DEF IInv, MessageInv, Holds
  <2>6. TaskIn(cq'[w], e.of)
    BY <2>2, <2>4 DEF TaskIn
  <2>7. /\ e.key \in DOMAIN directMap[w] => e.key \in DOMAIN directMap'[w]
        /\ First(w).kind = "fd" /\ First(w).of = e.of => e.key \in DOMAIN directMap'[w]
    BY <2>5, <2>6
  <2>8. FdKnown(cq'[w], directMap'[w], i, e.of, e.key)
    BY <1>1, <2>2, <2>3, <2>7, OrderShift
  <2> QED
    BY <2>1, <2>8
<1>4. ASSUME NEW q \in kernel, q.op = "send_task", q.ring = w
      PROVE  FdKnown(cq'[w], directMap'[w], Len(cq'[w]) + 1, q.of, q.fd)
  <2>1. FdKnown(cq[w], directMap[w], Len(cq[w]) + 1, q.of, q.fd)
    BY <1>4 DEF IInv, OrderInv
  <2>2. q.of \in Conn /\ q.fd \in Slot(Main) /\ Holds(table, Main, q.fd, q.of)
    BY <1>1, <1>4 DEF Request, IInv, RequestInv, RequestOK, SendReq, Holds
  <2>3. /\ q.fd \in DOMAIN directMap[w] => q.fd \in DOMAIN directMap'[w]
        /\ First(w).kind = "fd" /\ First(w).of = q.of => q.fd \in DOMAIN directMap'[w]
    BY <1>4, <2>2
  <2>4. Len(cq[w]) \in 1 .. Len(cq[w]) /\ Len(cq'[w]) + 1 = Len(cq[w])
    BY <1>2
  <2>5. FdKnown(cq'[w], directMap'[w], Len(cq[w]), q.of, q.fd)
    BY <1>1, <2>1, <2>3, <2>4, OrderShift
  <2> QED
    BY <2>4, <2>5
<1>5. \A q \in kernel : q.op = "send_task" => q.ring \in Worker
  BY DEF IInv, RequestInv, RequestOK, SendReq
<1>6. \A v \in Worker \ {w} : cq'[v] = cq[v] /\ directMap'[v] = directMap[v]
  BY <1>2
<1>7. \A v \in Worker : \A i \in 1 .. Len(cq'[v]) :
        cq'[v][i].kind = "task" =>
          FdKnown(cq'[v], directMap'[v], i, cq'[v][i].of, cq'[v][i].key)
  BY <1>3, <1>6 DEF IInv, OrderInv
<1>8. \A q \in kernel' : q.op = "send_task" =>
        FdKnown(cq'[q.ring], directMap'[q.ring], Len(cq'[q.ring]) + 1, q.of, q.fd)
  <2> SUFFICES ASSUME NEW q \in kernel, q.op = "send_task"
               PROVE FdKnown(cq'[q.ring], directMap'[q.ring], Len(cq'[q.ring]) + 1, q.of, q.fd)
    OBVIOUS
  <2>1. CASE q.ring = w
    BY <1>4, <2>1
  <2>2. CASE q.ring # w
    BY <1>5, <1>6, <2>2 DEF IInv, OrderInv
  <2> QED
    BY <2>1, <2>2
<1> QED
  BY <1>7, <1>8 DEF OrderInv

\* A queue that lost messages claims no more than it did.
LEMMA FewerMessages ==
  ASSUME IInv, table' = table, phase' = phase, worker' = worker,
         \A s \in Ring : Messages(cq'[s]) \subseteq Messages(cq[s])
  PROVE  /\ MessageInv'
         /\ \A w \in Worker : \A c : TaskIn(cq'[w], c) => TaskIn(cq[w], c)
         /\ \A c : ReleaseIn(cq'[Main], c) => ReleaseIn(cq[Main], c)
<1> USE RingFacts
<1>1. MessageInv'
  BY DEF IInv, MessageInv
<1> QED
  BY <1>1 DEF TaskIn, ReleaseIn

LEMMA HandleReleaseStep ==
  ASSUME IInv, HandleRelease
  PROVE  IInv'
<1> USE RingFacts
<1>1. PICK e : e = First(Main)
  OBVIOUS
<1>2. PICK q0 : q0 = [op |-> "close", ring |-> Main, fd |-> e.res, of |-> e.of]
  OBVIOUS
<1>3. /\ cq[Main] # <<>> /\ e.kind = "release" /\ Handled(Main)
      /\ kernel' = kernel \cup {q0}
      /\ UNCHANGED <<table, undefined, phase, object, served, worker, current, directMap>>
  BY <1>1, <1>2 DEF HandleRelease, Pending, ReleaseRequests, threadVars
<1>4. cq \in [Ring -> Seq(Message)]
  BY DEF IInv, TypeOK
<1>5. /\ cq' \in [Ring -> Seq(Message)] /\ e = cq[Main][1] /\ 1 \in 1 .. Len(cq[Main])
      /\ \A i \in 1 .. Len(cq'[Main]) :
           cq'[Main][i] = cq[Main][i + 1] /\ i + 1 \in 1 .. Len(cq[Main])
      /\ \A s \in Ring \ {Main} : cq'[s] = cq[s]
  BY <1>1, <1>3, <1>4, HandledFacts
<1>6. e \in Messages(cq[Main])
  BY <1>5 DEF Messages
<1>7. /\ \A s \in Ring : Messages(cq'[s]) \subseteq Messages(cq[s])
      /\ TaskIsLast'
      /\ \A i, j \in 1 .. Len(cq'[Main]) :
           /\ cq'[Main][i].kind = "release" /\ cq'[Main][j].kind = "release"
           /\ cq'[Main][i].of = cq'[Main][j].of
           => i = j
  BY <1>3, MessagesKept
<1>8. /\ MessageInv'
      /\ \A w \in Worker : \A c : TaskIn(cq'[w], c) => TaskIn(cq[w], c)
      /\ \A c : ReleaseIn(cq'[Main], c) => ReleaseIn(cq[Main], c)
  BY <1>3, <1>7, FewerMessages
<1>9. /\ e.of \in Conn /\ phase[e.of] \in Past
      /\ Holds(table, Main, e.res, e.of) /\ ReleaseIn(cq[Main], e.of)
  BY <1>3, <1>6 DEF IInv, MessageInv, ReleaseIn
<1>10. /\ e.res \in Slot(Main) /\ e.res \in Fd /\ e.res # -1
  BY <1>9, SlotFacts DEF Holds
<1>11. /\ q0 \in Request /\ LateReq(q0) /\ ~SendReq(q0) /\ q0.of = e.of /\ q0.ring = Main
       /\ q0.fd = e.res /\ q0.op = "close"
  BY <1>2, <1>9, <1>10 DEF Request, SendReq, LateReq
<1>12. TypeOK'
  BY <1>3, <1>5, <1>11 DEF IInv, TypeOK
<1>13. SlotInv' /\ ObjectInv' /\ MapInv'
  BY <1>3 DEF IInv, SlotInv, ObjectInv, MapInv
<1>14. RequestInv'
  <2>1. RequestOK(table', phase', worker', q0)
    BY <1>3, <1>9, <1>11 DEF RequestOK
  <2> QED
    BY <1>3, <2>1 DEF IInv, RequestInv
<1>15. ~ReleaseIn(cq'[Main], e.of)
  <2> SUFFICES ASSUME NEW i \in 1 .. Len(cq'[Main]), cq'[Main][i].kind = "release",
                      cq'[Main][i].of = e.of
               PROVE FALSE
    BY DEF ReleaseIn, Messages
  <2>1. cq[Main][i + 1].kind = "release" /\ cq[Main][i + 1].of = e.of /\ i + 1 \in 1 .. Len(cq[Main])
    BY <1>5
  <2>2. i + 1 = 1
    BY <1>3, <1>5, <2>1 DEF IInv, StageInv
  <2> QED
    BY <2>2
<1>16. \A q \in kernel : LateReq(q) => q.of # e.of
  BY <1>9 DEF IInv, StageInv
<1>17. StageInv'
  <2>1. /\ \A p, q \in kernel' : SendReq(p) /\ SendReq(q) /\ p.of = q.of => p = q
        /\ \A p, q \in kernel' : LateReq(p) /\ LateReq(q) /\ p.of = q.of => p = q
    BY <1>3, <1>11, <1>16 DEF IInv, StageInv
  <2>2. \A q \in kernel' : /\ SendReq(q) => \A w \in Worker : ~TaskIn(cq'[w], q.of)
                           /\ LateReq(q) => ~ReleaseIn(cq'[Main], q.of)
    BY <1>3, <1>8, <1>11, <1>15 DEF IInv, StageInv
  <2> QED
    BY <1>7, <2>1, <2>2 DEF StageInv
<1>18. OrderInv'
  <2>1. \A w \in Worker : cq'[w] = cq[w]
    BY <1>5
  <2>2. \A q \in kernel' : q.op = "send_task" => q \in kernel /\ q.ring \in Worker
    BY <1>3, <1>11 DEF IInv, RequestInv, RequestOK, SendReq
  <2> QED
    BY <1>3, <2>1, <2>2 DEF IInv, OrderInv
<1> QED
  BY <1>7, <1>8, <1>12, <1>13, <1>14, <1>17, <1>18 DEF IInv

LEMMA HandleStaleStep ==
  ASSUME IInv, NEW r \in Ring, HandleStale(r)
  PROVE  IInv'
<1> USE RingFacts
<1>1. /\ cq[r] # <<>> /\ First(r).kind = "stale" /\ Handled(r) /\ undefined' \in BOOLEAN
      /\ UNCHANGED <<table, kernel, phase, object, served, worker, current, directMap>>
  BY DEF HandleStale, Pending, threadVars
<1>2. cq \in [Ring -> Seq(Message)] /\ kernel \subseteq Request
  BY DEF IInv, TypeOK
<1>3. /\ cq' \in [Ring -> Seq(Message)]
      /\ \A s \in Ring \ {r} : cq'[s] = cq[s]
  BY <1>1, <1>2, HandledFacts
<1>4. /\ \A s \in Ring : Messages(cq'[s]) \subseteq Messages(cq[s])
      /\ TaskIsLast'
      /\ \A i, j \in 1 .. Len(cq'[Main]) :
           /\ cq'[Main][i].kind = "release" /\ cq'[Main][j].kind = "release"
           /\ cq'[Main][i].of = cq'[Main][j].of
           => i = j
  BY <1>1, MessagesKept
<1>5. /\ MessageInv'
      /\ \A w \in Worker : \A c : TaskIn(cq'[w], c) => TaskIn(cq[w], c)
      /\ \A c : ReleaseIn(cq'[Main], c) => ReleaseIn(cq[Main], c)
  BY <1>1, <1>4, FewerMessages
<1>6. TypeOK'
  BY <1>1, <1>3 DEF IInv, TypeOK
<1>7. SlotInv' /\ ObjectInv' /\ MapInv' /\ RequestInv'
  BY <1>1 DEF IInv, SlotInv, ObjectInv, MapInv, RequestInv
<1>8. StageInv'
  BY <1>1, <1>4, <1>5 DEF IInv, StageInv
<1>9. OrderInv'
  <2>1. CASE r \in Worker
    BY <1>1, <2>1, OrderHandled
  <2>2. CASE r = Main
    <3>1. \A w \in Worker : cq'[w] = cq[w]
      BY <1>3, <2>2
    <3>2. \A q \in kernel : q.op = "send_task" => q.ring \in Worker
      BY DEF IInv, RequestInv, RequestOK, SendReq
    <3> QED
      BY <1>1, <3>1, <3>2 DEF IInv, OrderInv
  <2> QED
    BY <2>1, <2>2
<1> QED
  BY <1>4, <1>5, <1>6, <1>7, <1>8, <1>9 DEF IInv

LEMMA HandleFdStep ==
  ASSUME IInv, NEW w \in Worker, HandleFd(w)
  PROVE  IInv'
<1> USE RingFacts
<1>1. PICK e : e = First(w)
  OBVIOUS
<1>2. /\ cq[w] # <<>> /\ e.kind = "fd" /\ Handled(w)
      /\ UNCHANGED <<table, kernel, undefined, phase, object, served, worker, current>>
      /\ directMap' = [directMap EXCEPT ![w] = Enter(w, e.key, e.res)]
  BY <1>1 DEF HandleFd, Pending
<1>3. cq \in [Ring -> Seq(Message)] /\ DOMAIN directMap = Worker /\ kernel \subseteq Request
  BY DEF IInv, TypeOK
<1>4. /\ cq' \in [Ring -> Seq(Message)] /\ e = cq[w][1] /\ 1 \in 1 .. Len(cq[w])
      /\ \A s \in Ring \ {w} : cq'[s] = cq[s]
  BY <1>1, <1>2, <1>3, HandledFacts
<1>5. /\ \A s \in Ring : Messages(cq'[s]) \subseteq Messages(cq[s])
      /\ TaskIsLast'
      /\ \A i, j \in 1 .. Len(cq'[Main]) :
           /\ cq'[Main][i].kind = "release" /\ cq'[Main][j].kind = "release"
           /\ cq'[Main][i].of = cq'[Main][j].of
           => i = j
  BY <1>2, MessagesKept
<1>6. /\ MessageInv'
      /\ \A v \in Worker : \A c : TaskIn(cq'[v], c) => TaskIn(cq[v], c)
      /\ \A c : ReleaseIn(cq'[Main], c) => ReleaseIn(cq[Main], c)
  BY <1>2, <1>5, FewerMessages
<1>7. e \in Messages(cq[w])
  BY <1>4 DEF Messages
<1>8. /\ e.of \in Conn /\ phase[e.of] = "sent" /\ worker[e.of] = w
      /\ Holds(table, Main, e.key, e.of) /\ Holds(table, w, e.res, e.of)
  BY <1>2, <1>7 DEF IInv, MessageInv
<1>9. /\ DOMAIN directMap' = Worker
      /\ \A v \in Worker \ {w} : directMap'[v] = directMap[v]
      /\ directMap'[w] = Enter(w, e.key, e.res)
  BY <1>2, <1>3
<1>10. /\ DOMAIN directMap'[w] = DOMAIN directMap[w] \cup {e.key}
       /\ directMap'[w][e.key] = e.res
       /\ \A k \in DOMAIN directMap[w] \ {e.key} : directMap'[w][k] = directMap[w][k]
  BY <1>9 DEF Enter
<1>11. TypeOK'
  <2>1. \A v \in Worker : /\ DOMAIN directMap'[v] \subseteq Slot(Main)
                          /\ \A k \in DOMAIN directMap'[v] : directMap'[v][k] \in Slot(v)
    BY <1>8, <1>9, <1>10 DEF IInv, TypeOK, Holds
  <2> QED
    BY <1>2, <1>4, <1>9, <2>1 DEF IInv, TypeOK
<1>12. SlotInv' /\ ObjectInv' /\ RequestInv'
  BY <1>2 DEF IInv, SlotInv, ObjectInv, RequestInv
<1>13. MapInv'
  <2>1. ASSUME NEW v \in Worker, NEW k \in DOMAIN directMap'[v]
        PROVE  /\ k \in Slot(Main) /\ table[Main][k] \in Conn
               /\ phase[table[Main][k]] = "sent" /\ worker[table[Main][k]] = v
               /\ Holds(table, v, directMap'[v][k], table[Main][k])
    <3>1. CASE v = w /\ k = e.key
      BY <1>8, <1>10, <3>1 DEF Holds
    <3>2. CASE ~(v = w /\ k = e.key)
      <4>1. k \in DOMAIN directMap[v] /\ directMap'[v][k] = directMap[v][k]
        BY <1>9, <1>10, <2>1, <3>2
      <4> QED
        BY <4>1 DEF IInv, MapInv
    <3> QED
      BY <3>1, <3>2
  <2> QED
    BY <1>2, <2>1 DEF MapInv
<1>14. StageInv'
  BY <1>2, <1>5, <1>6 DEF IInv, StageInv
<1>15. OrderInv'
  <2>1. \A k \in Slot(Main) : Holds(table, Main, k, e.of) => k = e.key
    BY <1>8, ConnAssumption DEF IInv, SlotInv, Holds
  <2> QED
    BY <1>1, <1>2, <1>9, <1>10, <2>1, OrderHandled
<1> QED
  BY <1>5, <1>6, <1>11, <1>12, <1>13, <1>14, <1>15 DEF IInv

LEMMA HandleTaskStep ==
  ASSUME IInv, NEW w \in Worker, HandleTask(w)
  PROVE  IInv'
<1> USE RingFacts
<1>1. PICK e : e = First(w)
  OBVIOUS
<1>2. PICK c : c = e.of
  OBVIOUS
<1>3. PICK key : key = e.key
  OBVIOUS
<1>4. PICK q0 : q0 = [op |-> "notify", ring |-> Main, fd |-> key, of |-> c]
  OBVIOUS
<1>5. PICK conn : conn = SetSubringSocket(Make(-1), Lookup(w, key))
  OBVIOUS
<1>6. /\ cq[w] # <<>> /\ e.kind = "task" /\ Handled(w)
      /\ UNCHANGED <<table, undefined, object, worker, current>>
      /\ directMap' = [directMap EXCEPT ![w] = Erase(w, key)]
      /\ served' = [served EXCEPT ![c] = conn]
      /\ phase' = [phase EXCEPT ![c] = "served"]
      /\ kernel' = kernel \cup Closes(MovedFrom(conn), w, c) \cup {q0}
  BY <1>1, <1>2, <1>3, <1>4, <1>5 DEF HandleTask, Pending
<1>7. /\ cq \in [Ring -> Seq(Message)] /\ DOMAIN directMap = Worker /\ kernel \subseteq Request
      /\ phase \in [Conn -> Phase]
      /\ served \in [Conn -> Object]
  BY DEF IInv, TypeOK
<1>8. /\ cq' \in [Ring -> Seq(Message)] /\ e = cq[w][1] /\ 1 \in 1 .. Len(cq[w])
      /\ \A i \in 1 .. Len(cq'[w]) :
           cq'[w][i] = cq[w][i + 1] /\ i + 1 \in 1 .. Len(cq[w])
      /\ \A s \in Ring \ {w} : cq'[s] = cq[s]
  BY <1>1, <1>6, <1>7, HandledFacts
<1>9. /\ \A s \in Ring : Messages(cq'[s]) \subseteq Messages(cq[s])
      /\ TaskIsLast'
      /\ \A i, j \in 1 .. Len(cq'[Main]) :
           /\ cq'[Main][i].kind = "release" /\ cq'[Main][j].kind = "release"
           /\ cq'[Main][i].of = cq'[Main][j].of
           => i = j
  BY <1>6, MessagesKept
<1>10. e \in Messages(cq[w])
  BY <1>8 DEF Messages
<1>11. /\ c \in Conn /\ c # NoConn /\ phase[c] = "sent" /\ worker[c] = w
       /\ Holds(table, Main, key, c) /\ TaskIn(cq[w], c)
  BY <1>2, <1>3, <1>6, <1>10, ConnAssumption DEF IInv, MessageInv, TaskIn
\* The slot the task finds is that of its connection.
<1>12. key \in DOMAIN directMap[w]
  BY <1>2, <1>3, <1>6, <1>8 DEF IInv, OrderInv, FdKnown
<1>13. PICK fd : fd = directMap[w][key]
  OBVIOUS
<1>14. Holds(table, w, fd, c) /\ key \in Slot(Main)
  BY <1>11, <1>12, <1>13 DEF IInv, MapInv, Holds
<1>15. fd \in Fd /\ fd > -1
  BY <1>14, SlotFacts DEF Holds
<1>16. conn = [socket |-> fd, in_this_ring |-> fd, own |-> FALSE]
  BY <1>5, <1>12, <1>13 DEF SetSubringSocket, Lookup
<1>17. kernel' = kernel \cup {q0}
  BY <1>6, <1>16 DEF Closes, MovedFrom
<1>18. /\ q0 \in Request /\ LateReq(q0) /\ ~SendReq(q0) /\ q0.of = c /\ q0.ring = Main
       /\ q0.fd = key /\ q0.op = "notify"
  BY <1>4, <1>11, <1>14, SlotFacts DEF Request, SendReq, LateReq
<1>19. /\ \A d \in Conn \ {c} : phase'[d] = phase[d] /\ served'[d] = served[d]
       /\ phase'[c] = "served" /\ served'[c] = conn
       /\ phase' \in [Conn -> Phase]
       /\ served' \in [Conn -> Object]
  BY <1>6, <1>7, <1>11, <1>15, <1>16 DEF Object
<1>20. /\ DOMAIN directMap' = Worker
       /\ \A v \in Worker \ {w} : directMap'[v] = directMap[v]
       /\ DOMAIN directMap'[w] = DOMAIN directMap[w] \ {key}
       /\ \A k \in DOMAIN directMap'[w] : directMap'[w][k] = directMap[w][k]
  BY <1>6, <1>7 DEF Erase
\* Nobody else speaks of c.
<1>21. /\ \A q \in kernel : SendReq(q) \/ LateReq(q) => q.of # c
       /\ \A q \in kernel : q.op = "close" /\ q.ring # Main => q.of # c
  <2>1. \A q \in kernel : SendReq(q) => q.of # c
    BY <1>11 DEF IInv, StageInv
  <2>2. \A q \in kernel : LateReq(q) \/ (q.op = "close" /\ q.ring # Main) => q.of # c
    BY <1>11 DEF IInv, RequestInv, RequestOK
  <2> QED
    BY <2>1, <2>2
<1>22. /\ \A d \in Messages(cq[Main]) : d.kind = "release" => d.of # c
       /\ ~ReleaseIn(cq[Main], c)
  BY <1>11 DEF IInv, MessageInv, ReleaseIn
<1>23. \A v \in Worker : \A d \in Messages(cq'[v]) : d.kind # "stale" => d.of # c
  <2> SUFFICES ASSUME NEW v \in Worker, NEW d \in Messages(cq'[v]), d.kind # "stale", d.of = c
               PROVE FALSE
    OBVIOUS
  <2>1. d \in Messages(cq[v])
    BY <1>9
  <2>2. v = w /\ d.kind \in {"fd", "task"}
    BY <1>11, <2>1 DEF IInv, MessageInv
  <2>3. PICK i \in 1 .. Len(cq'[w]) : cq'[w][i] = d
    BY <2>2 DEF Messages
  <2>4. cq[w][i + 1] = d /\ i + 1 \in 1 .. Len(cq[w])
    BY <1>8, <2>3
  <2>5. i + 1 <= 1
    BY <1>2, <1>6, <1>8, <2>2, <2>4 DEF IInv, TaskIsLast
  <2> QED
    BY <2>3, <2>5
<1>24. TypeOK'
  <2>1. \A v \in Worker : /\ DOMAIN directMap'[v] \subseteq Slot(Main)
                          /\ \A k \in DOMAIN directMap'[v] : directMap'[v][k] \in Slot(v)
    BY <1>20 DEF IInv, TypeOK
  <2> QED
    BY <1>6, <1>8, <1>17, <1>18, <1>19, <1>20, <2>1 DEF IInv, TypeOK
<1>25. SlotInv'
  BY <1>6, <1>19 DEF IInv, SlotInv
<1>26. ObjectInv'
  <2> SUFFICES ASSUME NEW d \in Conn
               PROVE  /\ object'[d].in_this_ring = -1
                      /\ phase'[d] = "peer" => object'[d].socket = -1
                      /\ phase'[d] \in {"peer", "main"} => worker'[d] = Main
                      /\ phase'[d] = "main" => object'[d].own /\ Holds(table', Main, object'[d].socket, d)
                      /\ phase'[d] \in {"sent"} \cup Past =>
                           object'[d].socket = -1 \/ ~object'[d].own
                      /\ phase'[d] = "served" =>
                           /\ worker'[d] \in Worker
                           /\ ~served'[d].own /\ served'[d].in_this_ring = served'[d].socket
                           /\ Holds(table', worker'[d], served'[d].socket, d)
    BY DEF ObjectInv
  <2>1. CASE d = c
    BY <1>6, <1>11, <1>14, <1>16, <1>19, <2>1 DEF IInv, ObjectInv
  <2>2. CASE d # c
    BY <1>6, <1>19, <2>2 DEF IInv, ObjectInv
  <2> QED
    BY <2>1, <2>2
<1>27. RequestInv'
  <2>1. RequestOK(table', phase', worker', q0)
    BY <1>6, <1>11, <1>18, <1>19 DEF RequestOK
  <2>2. \A q \in kernel : q.of \in Conn
    BY <1>7 DEF Request
  <2>3. \A q \in kernel : RequestOK(table', phase', worker', q)
    BY <1>6, <1>19, <1>21, <2>2 DEF IInv, RequestInv, RequestOK
  <2> QED
    BY <1>17, <2>1, <2>3 DEF RequestInv
<1>28. MessageInv'
  <2>1. \A d \in Messages(cq'[Main]) :
          /\ d.kind \in {"release", "stale"}
          /\ d.kind = "release" => /\ d.of \in Conn
                                   /\ phase'[d.of] \in Past
                                   /\ Holds(table, Main, d.res, d.of)
    BY <1>9, <1>19, <1>22 DEF IInv, MessageInv
  <2>2. \A v \in Worker : \A d \in Messages(cq'[v]) :
          /\ d.kind \in {"fd", "task", "stale"}
          /\ d.kind # "stale" => /\ d.of \in Conn /\ phase'[d.of] = "sent"
                                 /\ worker[d.of] = v /\ Holds(table, Main, d.key, d.of)
          /\ d.kind = "fd" => Holds(table, v, d.res, d.of)
    BY <1>9, <1>19, <1>23 DEF IInv, MessageInv
  <2> QED
    BY <1>6, <2>1, <2>2 DEF MessageInv
<1>29. MapInv'
  <2>1. ASSUME NEW v \in Worker, NEW k \in DOMAIN directMap'[v]
        PROVE  /\ k \in Slot(Main) /\ table[Main][k] \in Conn
               /\ phase'[table[Main][k]] = "sent" /\ worker[table[Main][k]] = v
               /\ Holds(table, v, directMap'[v][k], table[Main][k])
    <3>1. k \in DOMAIN directMap[v] /\ directMap'[v][k] = directMap[v][k]
      BY <1>20
    <3>2. /\ k \in Slot(Main) /\ table[Main][k] \in Conn
          /\ phase[table[Main][k]] = "sent" /\ worker[table[Main][k]] = v
          /\ Holds(table, v, directMap[v][k], table[Main][k])
      BY <3>1 DEF IInv, MapInv
    <3>3. table[Main][k] # c
      <4> SUFFICES ASSUME table[Main][k] = c PROVE FALSE
        OBVIOUS
      <4>1. v = w
        BY <1>11, <3>2
      <4>2. k = key
        BY <1>11, <1>14, <3>2 DEF IInv, SlotInv, Holds
      <4> QED
        BY <1>20, <4>1, <4>2
    <3> QED
      BY <1>19, <3>1, <3>2, <3>3
  <2> QED
    BY <1>6, <2>1 DEF MapInv
<1>30. /\ \A v \in Worker : \A d : TaskIn(cq'[v], d) => TaskIn(cq[v], d)
       /\ \A d : ReleaseIn(cq'[Main], d) => ReleaseIn(cq[Main], d)
  BY <1>9 DEF TaskIn, ReleaseIn
<1>31. StageInv'
  <2>1. /\ \A p, q \in kernel' : SendReq(p) /\ SendReq(q) /\ p.of = q.of => p = q
        /\ \A p, q \in kernel' : LateReq(p) /\ LateReq(q) /\ p.of = q.of => p = q
    BY <1>17, <1>18, <1>21 DEF IInv, StageInv
  <2>2. \A q \in kernel' : /\ SendReq(q) => \A v \in Worker : ~TaskIn(cq'[v], q.of)
                           /\ LateReq(q) => ~ReleaseIn(cq'[Main], q.of)
    BY <1>17, <1>18, <1>22, <1>30 DEF IInv, StageInv
  <2> QED
    BY <1>9, <2>1, <2>2 DEF StageInv
<1>32. OrderInv'
  <2>1. \A d \in Conn : TaskIn(cq'[w], d) => d # c
    BY <1>23 DEF TaskIn
  <2>2. \A q \in kernel : q.op = "send_task" => q.of # c
    BY <1>21 DEF SendReq
  <2>3. \A d \in Conn \ {c} : \A k \in Slot(Main) : Holds(table, Main, k, d) => k # key
    BY <1>11 DEF Holds
  <2>4. \A q \in kernel' : q.op = "send_task" => q \in kernel
    BY <1>17, <1>18
  <2> QED
    BY <1>1, <1>6, <1>20, <2>1, <2>2, <2>3, <2>4, OrderHandled
<1> QED
  BY <1>9, <1>24, <1>25, <1>26, <1>27, <1>28, <1>29, <1>31, <1>32 DEF IInv

-----------------------------------------------------------------------------
(* The kernel.                                                              *)

\* A completion is posted behind what is there.
LEMMA OrderGrows ==
  ASSUME cq \in [Ring -> Seq(Message)], NEW r \in Ring, NEW e \in Message, Post(r, e),
         NEW w \in Ring, NEW map, NEW c, NEW k, NEW i \in Int, NEW j \in Int,
         i <= Len(cq[w]) + 1, i <= j, FdKnown(cq[w], map, i, c, k)
  PROVE  FdKnown(cq'[w], map, j, c, k)
<1>1. /\ Len(cq[r]) \in Nat /\ Len(cq[w]) \in Nat
      /\ \A n \in 1 .. Len(cq[r]) : cq'[r][n] = cq[r][n]
      /\ \A s \in Ring \ {r} : cq'[s] = cq[s]
  BY PostFacts
<1>2. CASE k \in DOMAIN map
  BY <1>2 DEF FdKnown
<1>3. CASE k \notin DOMAIN map
  <2>1. PICK n \in 1 .. i - 1 : cq[w][n].kind = "fd" /\ cq[w][n].of = c
    BY <1>3 DEF FdKnown
  <2>2. n \in 1 .. j - 1 /\ n \in 1 .. Len(cq[w])
    BY <1>1, <2>1
  <2>3. cq'[w][n] = cq[w][n]
    BY <1>1, <2>2
  <2> QED
    BY <2>1, <2>2, <2>3 DEF FdKnown
<1> QED
  BY <1>2, <1>3

\* What the order of the queues says after a post, if no task of the same
\* connection and no release of it was there before.
LEMMA OrderPosted ==
  ASSUME IInv, NEW r \in Ring, NEW e \in Message, Post(r, e),
         r \in Worker /\ e.kind \in {"fd", "task"} => ~TaskIn(cq[r], e.of),
         r = Main /\ e.kind = "release" => ~ReleaseIn(cq[Main], e.of)
  PROVE  /\ TaskIsLast'
         /\ \A i, j \in 1 .. Len(cq'[Main]) :
              /\ cq'[Main][i].kind = "release" /\ cq'[Main][j].kind = "release"
              /\ cq'[Main][i].of = cq'[Main][j].of
              => i = j
<1> USE RingFacts
<1>1. cq \in [Ring -> Seq(Message)]
  BY DEF IInv, TypeOK
<1>2. /\ Len(cq[r]) \in Nat /\ Len(cq'[r]) = Len(cq[r]) + 1
      /\ cq'[r][Len(cq[r]) + 1] = e
      /\ \A i \in 1 .. Len(cq[r]) : cq'[r][i] = cq[r][i]
      /\ \A s \in Ring \ {r} : cq'[s] = cq[s]
  BY <1>1, PostFacts
<1>3. ASSUME NEW w \in Worker, NEW i \in 1 .. Len(cq'[w]), NEW j \in 1 .. Len(cq'[w]),
             cq'[w][i].kind \in {"fd", "task"}, cq'[w][j].kind = "task",
             cq'[w][i].of = cq'[w][j].of
      PROVE  i <= j
  <2>1. CASE w # r
    BY <1>2, <1>3, <2>1 DEF IInv, TaskIsLast
  <2>2. CASE w = r /\ j = Len(cq[r]) + 1
    BY <1>2, <1>3, <2>2
  <2>3. CASE w = r /\ j # Len(cq[r]) + 1
    <3>1. j \in 1 .. Len(cq[r]) /\ cq[r][j] = cq'[w][j]
      BY <1>2, <1>3, <2>3
    <3>2. TaskIn(cq[r], cq'[w][j].of)
      BY <1>3, <3>1 DEF TaskIn, Messages
    <3>3. i # Len(cq[r]) + 1
      BY <1>2, <1>3, <2>3, <3>2
    <3>4. i \in 1 .. Len(cq[r]) /\ cq[r][i] = cq'[w][i]
      BY <1>2, <1>3, <2>3, <3>3
    <3> QED
      BY <1>3, <2>3, <3>1, <3>4 DEF IInv, TaskIsLast
  <2> QED
    BY <2>1, <2>2, <2>3
<1>4. ASSUME NEW i \in 1 .. Len(cq'[Main]), NEW j \in 1 .. Len(cq'[Main]),
             cq'[Main][i].kind = "release", cq'[Main][j].kind = "release",
             cq'[Main][i].of = cq'[Main][j].of
      PROVE  i = j
  <2>1. CASE r # Main
    BY <1>2, <1>4, <2>1 DEF IInv, StageInv
  <2>2. CASE r = Main
    <3>1. \A n \in 1 .. Len(cq'[Main]) :
            n # Len(cq[Main]) + 1 => n \in 1 .. Len(cq[Main]) /\ cq'[Main][n] = cq[Main][n]
      BY <1>2, <2>2
    <3>2. e.kind = "release" => \A n \in 1 .. Len(cq[Main]) :
            cq[Main][n].kind = "release" => cq[Main][n].of # e.of
      BY <2>2 DEF ReleaseIn, Messages
    <3>3. CASE i = Len(cq[Main]) + 1 \/ j = Len(cq[Main]) + 1
      BY <1>2, <1>4, <2>2, <3>1, <3>2, <3>3
    <3>4. CASE i # Len(cq[Main]) + 1 /\ j # Len(cq[Main]) + 1
      BY <1>4, <3>1, <3>4 DEF IInv, StageInv
    <3> QED
      BY <3>3, <3>4
  <2> QED
    BY <2>1, <2>2
<1> QED
  BY <1>3, <1>4 DEF TaskIsLast

\* The two messages find their order: a task that is posted knows its slot, and
\* so does the request that will post one.
LEMMA KnownPosted ==
  ASSUME IInv, NEW r \in Ring, NEW e \in Message, Post(r, e), directMap' = directMap,
         r \in Worker /\ e.kind = "task" =>
           FdKnown(cq[r], directMap[r], Len(cq[r]) + 1, e.of, e.key),
         \A q \in kernel' : q.op = "send_task" =>
           q \in kernel \/ (q.ring = r /\ r \in Worker /\ e.kind = "fd" /\ e.of = q.of)
  PROVE  OrderInv'
<1> USE RingFacts
<1>1. cq \in [Ring -> Seq(Message)]
  BY DEF IInv, TypeOK
<1>2. /\ Len(cq[r]) \in Nat /\ Len(cq'[r]) = Len(cq[r]) + 1
      /\ cq'[r][Len(cq[r]) + 1] = e
      /\ \A i \in 1 .. Len(cq[r]) : cq'[r][i] = cq[r][i]
      /\ \A s \in Ring \ {r} : cq'[s] = cq[s]
  BY <1>1, PostFacts
<1>3. \A w \in Worker : Len(cq[w]) \in Nat /\ Len(cq'[w]) \in Nat /\ Len(cq[w]) <= Len(cq'[w])
  BY <1>1, <1>2
<1>4. ASSUME NEW w \in Worker, NEW i \in 1 .. Len(cq'[w]), cq'[w][i].kind = "task"
      PROVE  FdKnown(cq'[w], directMap[w], i, cq'[w][i].of, cq'[w][i].key)
  <2>1. i \in Int /\ i <= i
    OBVIOUS
  <2>2. CASE w = r /\ i = Len(cq[r]) + 1
    <3>1. FdKnown(cq[w], directMap[w], i, e.of, e.key)
      BY <1>2, <1>4, <2>2
    <3>2. i <= Len(cq[w]) + 1
      BY <2>2, <1>2
    <3>3. FdKnown(cq'[w], directMap[w], i, e.of, e.key)
      BY <1>1, <2>1, <3>1, <3>2, OrderGrows
    <3> QED
      BY <1>2, <2>2, <3>3
  <2>3. CASE ~(w = r /\ i = Len(cq[r]) + 1)
    <3>1. i \in 1 .. Len(cq[w]) /\ cq[w][i] = cq'[w][i]
      BY <1>2, <2>3
    <3>2. FdKnown(cq[w], directMap[w], i, cq[w][i].of, cq[w][i].key)
      BY <1>4, <3>1 DEF IInv, OrderInv
    <3>3. i <= Len(cq[w]) + 1
      BY <1>3, <3>1
    <3>4. FdKnown(cq'[w], directMap[w], i, cq[w][i].of, cq[w][i].key)
      BY <1>1, <2>1, <3>2, <3>3, OrderGrows
    <3> QED
      BY <3>1, <3>4
  <2> QED
    BY <2>2, <2>3
<1>5. ASSUME NEW q \in kernel', q.op = "send_task"
      PROVE  FdKnown(cq'[q.ring], directMap[q.ring], Len(cq'[q.ring]) + 1, q.of, q.fd)
  <2>1. CASE q \in kernel
    <3>1. q.ring \in Worker
      BY <1>5, <2>1 DEF IInv, RequestInv, RequestOK, SendReq
    <3>2. FdKnown(cq[q.ring], directMap[q.ring], Len(cq[q.ring]) + 1, q.of, q.fd)
      BY <1>5, <2>1 DEF IInv, OrderInv
    <3>3. /\ Len(cq[q.ring]) + 1 \in Int /\ Len(cq'[q.ring]) + 1 \in Int
          /\ Len(cq[q.ring]) + 1 <= Len(cq[q.ring]) + 1
          /\ Len(cq[q.ring]) + 1 <= Len(cq'[q.ring]) + 1
      BY <1>3, <3>1
    <3> QED
      BY <1>1, <3>1, <3>2, <3>3, OrderGrows
  <2>2. CASE q \notin kernel
    <3>1. q.ring = r /\ r \in Worker /\ e.kind = "fd" /\ e.of = q.of
      BY <1>5, <2>2
    <3>2. Len(cq'[r]) \in 1 .. (Len(cq'[r]) + 1) - 1 /\ cq'[r][Len(cq'[r])] = e
      BY <1>2
    <3> QED
      BY <3>1, <3>2 DEF FdKnown
  <2> QED
    BY <2>1, <2>2
<1> QED
  BY <1>4, <1>5 DEF OrderInv

\* A request is executed and posts e.
LEMMA PostStep ==
  ASSUME IInv, NEW r \in Ring, NEW e \in Message, Post(r, e),
         kernel' \subseteq kernel,
         UNCHANGED <<table, undefined, threadVars>>,
         r = Main => e.kind \in {"release", "stale"},
         r \in Worker => e.kind \in {"task", "stale"},
         e.kind = "release" =>
           /\ e.of \in Conn /\ phase[e.of] \in Past
           /\ Holds(table, Main, e.res, e.of)
           /\ ~ReleaseIn(cq[Main], e.of)
           /\ \A q \in kernel' : LateReq(q) => q.of # e.of,
         e.kind = "task" =>
           /\ e.of \in Conn /\ phase[e.of] = "sent" /\ worker[e.of] = r
           /\ Holds(table, Main, e.key, e.of)
           /\ ~TaskIn(cq[r], e.of)
           /\ \A q \in kernel' : SendReq(q) => q.of # e.of
           /\ FdKnown(cq[r], directMap[r], Len(cq[r]) + 1, e.of, e.key)
  PROVE  IInv'
<1> USE RingFacts
<1>1. cq \in [Ring -> Seq(Message)]
  BY DEF IInv, TypeOK
<1>2. cq' \in [Ring -> Seq(Message)]
  BY <1>1, PostFacts
<1>3. /\ Messages(cq'[r]) = Messages(cq[r]) \cup {e}
      /\ \A s \in Ring \ {r} : Messages(cq'[s]) = Messages(cq[s])
  BY <1>1, MessagesPosted
<1>4. UNCHANGED <<table, undefined, phase, object, served, worker, current, directMap>>
  BY DEF threadVars
<1>5. TypeOK'
  BY <1>2, <1>4 DEF IInv, TypeOK
<1>6. SlotInv' /\ ObjectInv' /\ MapInv' /\ RequestInv'
  BY <1>4 DEF IInv, SlotInv, ObjectInv, MapInv, RequestInv
<1>7. MessageInv'
  <2>1. \A d \in Messages(cq'[Main]) :
          /\ d.kind \in {"release", "stale"}
          /\ d.kind = "release" => /\ d.of \in Conn
                                   /\ phase[d.of] \in Past
                                   /\ Holds(table, Main, d.res, d.of)
    BY <1>3 DEF IInv, MessageInv
  <2>2. \A v \in Worker : \A d \in Messages(cq'[v]) :
          /\ d.kind \in {"fd", "task", "stale"}
          /\ d.kind # "stale" => /\ d.of \in Conn /\ phase[d.of] = "sent"
                                 /\ worker[d.of] = v /\ Holds(table, Main, d.key, d.of)
          /\ d.kind = "fd" => Holds(table, v, d.res, d.of)
    BY <1>3 DEF IInv, MessageInv
  <2> QED
    BY <1>4, <2>1, <2>2 DEF MessageInv
<1>8. /\ TaskIsLast'
      /\ \A i, j \in 1 .. Len(cq'[Main]) :
           /\ cq'[Main][i].kind = "release" /\ cq'[Main][j].kind = "release"
           /\ cq'[Main][i].of = cq'[Main][j].of
           => i = j
  BY OrderPosted
<1>9. StageInv'
  <2>1. ASSUME NEW q \in kernel', SendReq(q), NEW w \in Worker
        PROVE  ~TaskIn(cq'[w], q.of)
    BY <1>3, <2>1 DEF IInv, StageInv, TaskIn
  <2>2. ASSUME NEW q \in kernel', LateReq(q)
        PROVE  ~ReleaseIn(cq'[Main], q.of)
    BY <1>3, <2>2 DEF IInv, StageInv, ReleaseIn
  <2>3. /\ \A p, q \in kernel' : SendReq(p) /\ SendReq(q) /\ p.of = q.of => p = q
        /\ \A p, q \in kernel' : LateReq(p) /\ LateReq(q) /\ p.of = q.of => p = q
    BY DEF IInv, StageInv
  <2> QED
    BY <1>8, <2>1, <2>2, <2>3 DEF StageInv
<1>10. OrderInv'
  BY <1>4, KnownPosted
<1> QED
  BY <1>5, <1>6, <1>7, <1>8, <1>9, <1>10 DEF IInv

LEMMA StalePosted ==
  ASSUME IInv, NEW r \in Ring, NEW q \in kernel, Post(r, Stale), kernel' = kernel \ {q},
         UNCHANGED <<table, undefined, threadVars>>
  PROVE  IInv'
<1>1. Stale \in Message /\ Stale.kind = "stale"
  BY SlotFacts DEF Stale, Message
<1> QED
  BY <1>1, PostStep

LEMMA SendFdFailsStep ==
  ASSUME IInv, NEW q \in kernel, SendFdFails(q)
  PROVE  IInv'
  BY StalePosted, RingFacts DEF SendFdFails

LEMMA SendTaskStep ==
  ASSUME IInv, NEW q \in kernel, SendTask(q)
  PROVE  IInv'
<1> USE RingFacts
<1>1. PICK e : e = [kind |-> "task", key |-> q.fd, res |-> 0, of |-> q.of]
  OBVIOUS
<1>2. /\ q.op = "send_task" /\ SendReq(q) /\ Post(q.ring, e) /\ kernel' = kernel \ {q}
      /\ UNCHANGED <<table, undefined, threadVars>>
  BY <1>1 DEF SendTask, SendReq
<1>3. q \in Request
  BY DEF IInv, TypeOK
<1>4. /\ phase[q.of] = "sent" /\ q.ring = worker[q.of] /\ q.ring \in Worker
      /\ Holds(table, Main, q.fd, q.of)
  BY <1>2 DEF IInv, RequestInv, RequestOK
<1>5. ~TaskIn(cq[q.ring], q.of) /\ \A p \in kernel' : SendReq(p) => p.of # q.of
  BY <1>2, <1>4 DEF IInv, StageInv
<1>6. FdKnown(cq[q.ring], directMap[q.ring], Len(cq[q.ring]) + 1, q.of, q.fd)
  BY <1>2 DEF IInv, OrderInv
<1>7. e \in Message /\ e.kind = "task" /\ e.of = q.of /\ e.key = q.fd /\ q.of \in Conn
  BY <1>1, <1>3, SlotFacts DEF Message, Request
<1> QED
  BY <1>2, <1>4, <1>5, <1>6, <1>7, PostStep

LEMMA NotifyStep ==
  ASSUME IInv, NEW q \in kernel, Notify(q)
  PROVE  IInv'
<1> USE RingFacts
<1>1. PICK e : e = [kind |-> "release", key |-> 0, res |-> q.fd, of |-> q.of]
  OBVIOUS
<1>2. /\ LateReq(q) /\ Post(Main, e) /\ kernel' = kernel \ {q}
      /\ UNCHANGED <<table, undefined, threadVars>>
  BY <1>1 DEF Notify, LateReq
<1>3. q \in Request
  BY DEF IInv, TypeOK
<1>4. phase[q.of] \in Past /\ Holds(table, Main, q.fd, q.of)
  BY <1>2 DEF IInv, RequestInv, RequestOK
<1>5. ~ReleaseIn(cq[Main], q.of) /\ \A p \in kernel' : LateReq(p) => p.of # q.of
  BY <1>2 DEF IInv, StageInv
<1>6. e \in Message /\ e.kind = "release" /\ e.of = q.of /\ e.res = q.fd /\ q.of \in Conn
  BY <1>1, <1>3, SlotFacts DEF Message, Request
<1> QED
  BY <1>2, <1>4, <1>5, <1>6, PostStep

\* A request is executed and posts nothing.
LEMMA DoneStep ==
  ASSUME IInv, NEW q \in kernel, kernel' = kernel \ {q}, cq' = cq,
         UNCHANGED <<table, undefined, threadVars>>
  PROVE  IInv'
<1> USE RingFacts
<1>1. UNCHANGED <<table, undefined, phase, object, served, worker, current, directMap>>
  BY DEF threadVars
<1>2. TypeOK' /\ SlotInv' /\ ObjectInv' /\ RequestInv' /\ MapInv'
  BY <1>1 DEF IInv, TypeOK, SlotInv, ObjectInv, RequestInv, MapInv
<1>3. MessageInv' /\ StageInv'
  BY <1>1 DEF IInv, MessageInv, StageInv
<1>4. TaskIsLast' /\ OrderInv'
  BY <1>1, OrderKept DEF IInv
<1> QED
  BY <1>2, <1>3, <1>4 DEF IInv

LEMMA CloseStdinStep ==
  ASSUME IInv, NEW q \in kernel, CloseStdin(q)
  PROVE  IInv'
<1>1. q.ring \in Ring
  BY DEF IInv, TypeOK, Request
<1>2. kernel' = kernel \ {q} /\ UNCHANGED <<table, undefined, threadVars>>
  BY DEF CloseStdin
<1>3. CASE cq' = cq
  BY <1>2, <1>3, DoneStep
<1>4. CASE Post(q.ring, Stale)
  BY <1>1, <1>2, <1>4, StalePosted
<1> QED
  BY <1>3, <1>4 DEF CloseStdin

LEMMA SendFdStep ==
  ASSUME IInv, NEW q \in kernel, NEW s \in Slot(q.ring), SendFd(q, s)
  PROVE  IInv'
<1> USE RingFacts
<1>1. PICK e : e = [kind |-> "fd", key |-> q.fd, res |-> s, of |-> q.of]
  OBVIOUS
<1>2. PICK q0 : q0 = [q EXCEPT !.op = "send_task"]
  OBVIOUS
<1>3. PICK c : c = q.of
  OBVIOUS
<1>4. PICK w : w = q.ring
  OBVIOUS
<1>5. q \in Request /\ kernel \subseteq Request /\ cq \in [Ring -> Seq(Message)] /\ TableOK
  BY DEF IInv, TypeOK, TableOK
<1>6. q.op = "send_fd" /\ SendReq(q) /\ c \in Conn
  BY <1>3, <1>5 DEF SendFd, SendReq, Request
<1>7. /\ phase[c] = "sent" /\ w = worker[c] /\ w \in Worker
      /\ Holds(table, Main, q.fd, c)
  BY <1>3, <1>4, <1>6 DEF IInv, RequestInv, RequestOK
<1>8. /\ table' = [table EXCEPT ![w][s] = c] /\ table[w][s] = NoConn /\ s \in Slot(w)
      /\ Post(w, e) /\ kernel' = (kernel \ {q}) \cup {q0}
      /\ UNCHANGED <<undefined, phase, object, served, worker, current, directMap>>
  BY <1>1, <1>2, <1>4, <1>7 DEF SendFd, Holds, Free, threadVars
<1>9. /\ q0 \in Request /\ q0.op = "send_task" /\ q0.of = c /\ q0.fd = q.fd /\ q0.ring = w
      /\ SendReq(q0) /\ ~LateReq(q0)
  BY <1>2, <1>3, <1>4, <1>5 DEF Request, SendReq, LateReq
<1>10. e \in Message /\ e.kind = "fd" /\ e.of = c /\ e.key = q.fd /\ e.res = s
  BY <1>1, <1>3, <1>5, <1>6, <1>7, <1>8, SlotFacts DEF Message, Request
<1>11. TableOK' /\ table'[Main] = table[Main]
  BY <1>5, <1>6, <1>7, <1>8 DEF TableOK
<1>12. /\ Holds(table', w, s, c)
       /\ \A r \in Ring, d \in Conn : \A t : Holds(table, r, t, d) => Holds(table', r, t, d)
  BY <1>5, <1>6, <1>7, <1>8, HoldsGrows
<1>13. cq' \in [Ring -> Seq(Message)]
  BY <1>5, <1>7, <1>8, <1>10, PostFacts
<1>14. /\ Messages(cq'[w]) = Messages(cq[w]) \cup {e}
       /\ \A r \in Ring \ {w} : Messages(cq'[r]) = Messages(cq[r])
  BY <1>5, <1>7, <1>8, <1>10, MessagesPosted
<1>15. /\ \A v \in Worker : ~TaskIn(cq[v], c)
       /\ \A p \in kernel \ {q} : SendReq(p) => p.of # c
  BY <1>3, <1>6 DEF IInv, StageInv
<1>16. TypeOK'
  BY <1>8, <1>9, <1>11, <1>13 DEF IInv, TypeOK, TableOK
<1>17. SlotInv'
  <2>1. \A d \in Conn : phase[d] = "peer" => d # c
    BY <1>7
  <2>2. \A d \in Conn : phase[d] = "peer" => \A r \in Ring : \A t \in Slot(r) : table'[r][t] # d
    BY <1>5, <1>7, <1>8, <2>1 DEF IInv, SlotInv, TableOK
  <2> QED
    BY <1>8, <1>11, <2>2 DEF IInv, SlotInv
<1>18. ObjectInv'
  BY <1>8, <1>12 DEF IInv, ObjectInv
<1>19. RequestInv'
  <2>1. RequestOK(table', phase', worker', q0)
    BY <1>6, <1>7, <1>8, <1>9, <1>12 DEF RequestOK
  <2>2. \A p \in kernel : p.of \in Conn /\ p.ring \in Ring
    BY <1>5 DEF Request
  <2>3. \A p \in kernel : RequestOK(table', phase', worker', p)
    BY <1>8, <1>12, <2>2 DEF IInv, RequestInv, RequestOK
  <2> QED
    BY <1>8, <2>1, <2>3 DEF RequestInv
<1>20. MessageInv'
  <2>1. \A d \in Messages(cq'[Main]) :
          /\ d.kind \in {"release", "stale"}
          /\ d.kind = "release" => /\ d.of \in Conn
                                   /\ phase[d.of] \in Past
                                   /\ Holds(table', Main, d.res, d.of)
    BY <1>7, <1>12, <1>14 DEF IInv, MessageInv
  <2>2. \A v \in Worker : \A d \in Messages(cq[v]) :
          /\ d.kind \in {"fd", "task", "stale"}
          /\ d.kind # "stale" => /\ d.of \in Conn /\ phase[d.of] = "sent"
                                 /\ worker[d.of] = v /\ Holds(table', Main, d.key, d.of)
          /\ d.kind = "fd" => Holds(table', v, d.res, d.of)
    BY <1>12 DEF IInv, MessageInv
  <2>3. \A v \in Worker : \A d \in Messages(cq'[v]) :
          /\ d.kind \in {"fd", "task", "stale"}
          /\ d.kind # "stale" => /\ d.of \in Conn /\ phase[d.of] = "sent"
                                 /\ worker[d.of] = v /\ Holds(table', Main, d.key, d.of)
          /\ d.kind = "fd" => Holds(table', v, d.res, d.of)
    BY <1>6, <1>7, <1>10, <1>12, <1>14, <2>2
  <2> QED
    BY <1>8, <2>1, <2>3 DEF MessageInv
<1>21. MapInv'
  <2>0. /\ table'[Main] = table[Main] /\ directMap' = directMap
        /\ phase' = phase /\ worker' = worker
    BY <1>8, <1>11, Zenon
  <2>1. \A v \in Worker : \A k \in DOMAIN directMap[v] :
          /\ k \in Slot(Main) /\ table'[Main][k] \in Conn
          /\ phase[table'[Main][k]] = "sent" /\ worker[table'[Main][k]] = v
          /\ Holds(table, v, directMap[v][k], table'[Main][k])
    BY <2>0 DEF IInv, MapInv
  <2>2. \A v \in Worker : \A k \in DOMAIN directMap[v] :
          Holds(table', v, directMap[v][k], table'[Main][k])
    BY <1>12, <2>1
  <2> QED
    BY <2>0, <2>1, <2>2 DEF MapInv
<1>22. /\ TaskIsLast'
       /\ \A i, j \in 1 .. Len(cq'[Main]) :
            /\ cq'[Main][i].kind = "release" /\ cq'[Main][j].kind = "release"
            /\ cq'[Main][i].of = cq'[Main][j].of
            => i = j
  BY <1>7, <1>8, <1>10, <1>15, OrderPosted
<1>23. StageInv'
  <2>1. /\ \A v \in Worker : \A d : TaskIn(cq'[v], d) => TaskIn(cq[v], d)
        /\ \A d : ReleaseIn(cq'[Main], d) => ReleaseIn(cq[Main], d)
    BY <1>7, <1>10, <1>14 DEF TaskIn, ReleaseIn
  <2>2. /\ \A p, t \in kernel' : SendReq(p) /\ SendReq(t) /\ p.of = t.of => p = t
        /\ \A p, t \in kernel' : LateReq(p) /\ LateReq(t) /\ p.of = t.of => p = t
    BY <1>8, <1>9, <1>15 DEF IInv, StageInv
  <2>3. \A p \in kernel' : /\ SendReq(p) => \A v \in Worker : ~TaskIn(cq'[v], p.of)
                           /\ LateReq(p) => ~ReleaseIn(cq'[Main], p.of)
    BY <1>8, <1>9, <1>15, <2>1 DEF IInv, StageInv
  <2> QED
    BY <1>22, <2>2, <2>3 DEF StageInv
<1>24. OrderInv'
  <2>1. \A p \in kernel' : p.op = "send_task" =>
          p \in kernel \/ (p.ring = w /\ w \in Worker /\ e.kind = "fd" /\ e.of = p.of)
    BY <1>7, <1>8, <1>9, <1>10
  <2> QED
    BY <1>7, <1>8, <1>10, <2>1, KnownPosted
<1> QED
  BY <1>16, <1>17, <1>18, <1>19, <1>20, <1>21, <1>22, <1>23, <1>24 DEF IInv

LEMMA SameRequest ==
  ASSUME NEW p \in Request, NEW q \in Request,
         p.op = q.op, p.ring = q.ring, p.fd = q.fd, p.of = q.of
  PROVE  p = q
  BY DEF Request

LEMMA CloseDirectStep ==
  ASSUME IInv, NEW q \in kernel, CloseDirect(q)
  PROVE  IInv'
<1> USE RingFacts
<1>1. PICK c : c = q.of
  OBVIOUS
<1>2. PICK r : r = q.ring
  OBVIOUS
<1>3. /\ q \in Request /\ kernel \subseteq Request /\ cq \in [Ring -> Seq(Message)] /\ TableOK
      /\ phase \in [Conn -> Phase]
  BY DEF IInv, TypeOK, TableOK
<1>4. /\ q.op = "close" /\ q.fd # -1 /\ kernel' = kernel \ {q}
      /\ UNCHANGED <<undefined, threadVars>>
  BY DEF CloseDirect
<1>5. c \in Conn /\ c # NoConn /\ r \in Ring
  BY <1>1, <1>2, <1>3, ConnAssumption DEF Request
<1>6. CASE Post(r, Stale) /\ UNCHANGED table
  BY <1>2, <1>4, <1>5, <1>6, StalePosted
<1>7. CASE table' = [table EXCEPT ![r][q.fd] = NoConn] /\ cq' = cq
  <2>1. UNCHANGED <<undefined, phase, object, served, worker, current, directMap>>
    BY <1>4 DEF threadVars
  <2>2. RequestOK(table, phase, worker, q) /\ ~SendReq(q)
    BY <1>4 DEF IInv, RequestInv, SendReq
  <2>3. Holds(table, r, q.fd, c)
    BY <1>1, <1>2, <1>4, <2>2 DEF RequestOK, LateReq
  \* The slot that is closed was that of c, in a phase in which nobody else
  \* has a claim to it.
  <2>4. /\ r = Main => LateReq(q) /\ phase[c] \in Past
        /\ r # Main => phase[c] = "closed" /\ r = worker[c]
    BY <1>1, <1>2, <1>4, <2>2 DEF RequestOK, LateReq
  <2>5. /\ TableOK'
        /\ \A t \in Slot(r) \ {q.fd} : table'[r][t] = table[r][t]
        /\ table'[r][q.fd] = NoConn
        /\ \A p \in Ring \ {r} : table'[p] = table[p]
    BY <1>3, <1>5, <1>7, <2>3 DEF TableOK, Holds
  <2>6. \A p \in Ring, d \in Conn : \A t :
          Holds(table, p, t, d) /\ ~(p = r /\ d = c) => Holds(table', p, t, d)
    BY <1>5, <2>3, <2>5 DEF Holds
  <2>7. TypeOK'
    BY <1>4, <1>7, <2>1, <2>5 DEF IInv, TypeOK, TableOK
  <2>8. SlotInv'
    <3>1. \A t, u \in Slot(Main) :
            table'[Main][t] = table'[Main][u] /\ table'[Main][t] # NoConn => t = u
      BY <2>5 DEF IInv, SlotInv
    <3>2. \A d \in Conn : phase[d] = "peer" => \A p \in Ring : \A t \in Slot(p) : table'[p][t] # d
      BY <2>5, ConnAssumption DEF IInv, SlotInv
    <3> QED
      BY <2>1, <3>1, <3>2 DEF SlotInv
  <2>9. ObjectInv'
    <3>1. ASSUME NEW d \in Conn
          PROVE  /\ phase[d] = "main" => Holds(table', Main, object[d].socket, d)
                 /\ phase[d] = "served" => Holds(table', worker[d], served[d].socket, d)
      BY <2>4, <2>6 DEF IInv, ObjectInv
    <3> QED
      BY <2>1, <3>1 DEF IInv, ObjectInv
  <2>10. RequestInv'
    <3> SUFFICES ASSUME NEW p \in kernel, p # q PROVE RequestOK(table', phase, worker, p)
      BY <1>4, <2>1 DEF RequestInv
    <3>1. p \in Request /\ p.of \in Conn /\ p.ring \in Ring /\ RequestOK(table, phase, worker, p)
      BY <1>3 DEF Request, IInv, RequestInv
    <3>2. SendReq(p) => Holds(table', Main, p.fd, p.of)
      BY <2>4, <2>6, <3>1 DEF RequestOK
    <3>3. LateReq(p) => Holds(table', Main, p.fd, p.of)
      <4>1. LateReq(p) /\ r = Main => p.of # c
        BY <1>1, <2>4 DEF IInv, StageInv
      <4> QED
        BY <2>6, <3>1, <4>1 DEF RequestOK
    <3>4. p.op = "close" /\ p.ring # Main => Holds(table', p.ring, p.fd, p.of)
      <4> SUFFICES ASSUME p.op = "close", p.ring # Main PROVE Holds(table', p.ring, p.fd, p.of)
        OBVIOUS
      <4>1. Holds(table, p.ring, p.fd, p.of)
        BY <3>1 DEF RequestOK
      <4>2. ~(p.ring = r /\ p.fd = q.fd)
        <5> SUFFICES ASSUME p.ring = r, p.fd = q.fd PROVE FALSE
          OBVIOUS
        <5>1. p.of = q.of
          BY <1>1, <2>3, <4>1 DEF Holds
        <5>2. p.op = q.op /\ p.ring = q.ring /\ p.fd = q.fd
          BY <1>2, <1>4
        <5>3. p = q
          BY <1>3, <3>1, <5>1, <5>2, SameRequest
        <5> QED
          BY <5>3
      <4> QED
        BY <1>5, <2>5, <3>1, <4>1, <4>2 DEF Holds
    <3> QED
      BY <3>1, <3>2, <3>3, <3>4 DEF RequestOK
  <2>11. MessageInv'
    <3>1. \A d \in Messages(cq[Main]) : d.kind = "release" => Holds(table', Main, d.res, d.of)
      <4>1. r = Main => \A d \in Messages(cq[Main]) : d.kind = "release" => d.of # c
        BY <1>1, <2>4 DEF IInv, StageInv, ReleaseIn
      <4> QED
        BY <2>6, <4>1 DEF IInv, MessageInv
    <3>2. \A w \in Worker : \A d \in Messages(cq[w]) :
            /\ d.kind # "stale" => Holds(table', Main, d.key, d.of)
            /\ d.kind = "fd" => Holds(table', w, d.res, d.of)
      BY <2>4, <2>6 DEF IInv, MessageInv
    <3> QED
      BY <1>7, <2>1, <3>1, <3>2 DEF IInv, MessageInv
  <2>12. MapInv'
    <3>1. ASSUME NEW w \in Worker, NEW k \in DOMAIN directMap[w]
          PROVE  /\ k \in Slot(Main) /\ table'[Main][k] \in Conn
                 /\ phase[table'[Main][k]] = "sent" /\ worker[table'[Main][k]] = w
                 /\ Holds(table', w, directMap[w][k], table'[Main][k])
      <4>1. /\ k \in Slot(Main) /\ table[Main][k] \in Conn
            /\ phase[table[Main][k]] = "sent" /\ worker[table[Main][k]] = w
            /\ Holds(table, w, directMap[w][k], table[Main][k])
        BY DEF IInv, MapInv
      <4>2. table[Main][k] # c
        BY <2>4, <4>1
      <4>3. table'[Main][k] = table[Main][k]
        BY <2>3, <2>5, <4>1, <4>2 DEF Holds
      <4> QED
        BY <2>6, <4>1, <4>2, <4>3
    <3> QED
      BY <2>1, <3>1 DEF MapInv
  <2>13. StageInv'
    BY <1>4, <1>7 DEF IInv, StageInv
  <2>14. TaskIsLast' /\ OrderInv'
    BY <1>4, <1>7, <2>1, OrderKept DEF IInv
  <2> QED
    BY <2>7, <2>8, <2>9, <2>10, <2>11, <2>12, <2>13, <2>14 DEF IInv
<1> QED
  BY <1>2, <1>6, <1>7 DEF CloseDirect

-----------------------------------------------------------------------------
LEMMA StutterStep ==
  ASSUME IInv, UNCHANGED vars
  PROVE  IInv'
<1>1. UNCHANGED <<table, kernel, cq, undefined, phase, object, served, worker, current, directMap>>
  BY DEF vars, threadVars
<1>2. TypeOK' /\ SlotInv' /\ ObjectInv' /\ RequestInv' /\ MapInv'
  BY <1>1 DEF IInv, TypeOK, SlotInv, ObjectInv, RequestInv, MapInv
<1>3. MessageInv' /\ StageInv'
  BY <1>1 DEF IInv, MessageInv, StageInv
<1>4. TaskIsLast' /\ OrderInv'
  BY <1>1, OrderKept DEF IInv
<1> QED
  BY <1>2, <1>3, <1>4 DEF IInv

LEMMA NextIInv == IInv /\ [Next]_vars => IInv'
<1> SUFFICES ASSUME IInv, [Next]_vars PROVE IInv'
  OBVIOUS
<1>1. ASSUME NEW c \in Conn, NEW s \in Slot(Main), Accept(c, s) PROVE IInv'
  BY <1>1, AcceptStep
<1>2. ASSUME NEW c \in Conn, ParallelSpawn(c) PROVE IInv'
  BY <1>2, ParallelSpawnStep
<1>3. ASSUME NEW c \in Conn, DestroyObject(c) PROVE IInv'
  BY <1>3, DestroyObjectStep
<1>4. ASSUME NEW c \in Conn, DestroyServed(c) PROVE IInv'
  BY <1>4, DestroyServedStep
<1>5. ASSUME NEW q \in kernel, NEW s \in Slot(q.ring), SendFd(q, s) PROVE IInv'
  BY <1>5, SendFdStep
<1>6. ASSUME NEW q \in kernel, SendFdFails(q) PROVE IInv'
  BY <1>6, SendFdFailsStep
<1>7. ASSUME NEW q \in kernel, SendTask(q) PROVE IInv'
  BY <1>7, SendTaskStep
<1>8. ASSUME NEW q \in kernel, Notify(q) PROVE IInv'
  BY <1>8, NotifyStep
<1>9. ASSUME NEW q \in kernel, CloseDirect(q) PROVE IInv'
  BY <1>9, CloseDirectStep
<1>10. ASSUME NEW q \in kernel, CloseStdin(q) PROVE IInv'
  BY <1>10, CloseStdinStep
<1>11. CASE HandleRelease
  BY <1>11, HandleReleaseStep
<1>12. ASSUME NEW w \in Worker, HandleFd(w) PROVE IInv'
  BY <1>12, HandleFdStep
<1>13. ASSUME NEW w \in Worker, HandleTask(w) PROVE IInv'
  BY <1>13, HandleTaskStep
<1>14. ASSUME NEW r \in Ring, HandleStale(r) PROVE IInv'
  BY <1>14, HandleStaleStep
<1>15. CASE UNCHANGED vars
  BY <1>15, StutterStep
<1>19. ASSUME NEW c \in Conn, NEW d \in Conn, Assign(c, d) PROVE IInv'
  BY <1>19, AssignStep
<1>20. ASSUME NEW c \in Conn, NEW d \in Conn, AssignServed(c, d) PROVE IInv'
  BY <1>20, AssignServedStep
<1>16. CASE UserStep
  BY <1>1, <1>2, <1>3, <1>4, <1>19, <1>20, <1>16 DEF UserStep
<1>17. CASE KernelStep
  BY <1>5, <1>6, <1>7, <1>8, <1>9, <1>10, <1>17 DEF KernelStep
<1>18. ASSUME NEW r \in Ring, Handle(r) PROVE IInv'
  BY <1>11, <1>12, <1>13, <1>14, <1>18, RingFacts DEF Handle
<1> QED
  BY <1>15, <1>16, <1>17, <1>18 DEF Next

LEMMA Inductive == SafeSpec => []IInv
<1>1. IInv /\ [Next]_vars => IInv'
  BY NextIInv
<1>2. Init => IInv
  BY InitIInv
<1> QED
  BY <1>1, <1>2, PTL DEF SafeSpec

-----------------------------------------------------------------------------
(* Every slot that is taken will be closed.                                 *)

LeakInv == MainLeakInv /\ WorkerLeakInv /\ CopyInv

LEMMA InitLeakInv == Init => LeakInv
<1> SUFFICES ASSUME Init PROVE LeakInv
  OBVIOUS
<1>1. kernel = {} /\ \A r \in Ring : \A s \in Slot(r) : table[r][s] = NoConn
  BY DEF Init
<1> QED
  BY <1>1, RingFacts, ConnAssumption DEF LeakInv, MainLeakInv, WorkerLeakInv, CopyInv

\* What a handled completion leaves behind.
LEMMA OthersStay ==
  ASSUME cq \in [Ring -> Seq(Message)], NEW r \in Ring, cq[r] # <<>>, Handled(r)
  PROVE  /\ Messages(cq[r]) \subseteq Messages(cq'[r]) \cup {First(r)}
         /\ \A s \in Ring \ {r} : Messages(cq'[s]) = Messages(cq[s])
<1>1. /\ First(r) = cq[r][1] /\ Len(cq[r]) \in Nat /\ Len(cq'[r]) = Len(cq[r]) - 1
      /\ \A i \in 1 .. Len(cq'[r]) : cq'[r][i] = cq[r][i + 1]
      /\ \A s \in Ring \ {r} : cq'[s] = cq[s]
  BY HandledFacts
<1>2. ASSUME NEW i \in 1 .. Len(cq[r]), i # 1
      PROVE  cq[r][i] \in Messages(cq'[r])
  <2>1. i - 1 \in 1 .. Len(cq'[r]) /\ (i - 1) + 1 = i
    BY <1>1, <1>2
  <2>2. cq'[r][i - 1] = cq[r][i]
    BY <1>1, <2>1
  <2> QED
    BY <2>1, <2>2 DEF Messages
<1>3. \A i \in 1 .. Len(cq[r]) : cq[r][i] \in Messages(cq'[r]) \cup {First(r)}
  BY <1>1, <1>2
<1>4. Messages(cq[r]) \subseteq Messages(cq'[r]) \cup {First(r)}
  BY <1>3 DEF Messages
<1>5. \A s \in Ring \ {r} : Messages(cq'[s]) = Messages(cq[s])
  BY <1>1
<1> QED
  BY <1>4, <1>5

\* A step that moves no connection, as long as nobody's promise is lost.
LEMMA LeakFrame ==
  ASSUME LeakInv, table' = table, phase' = phase, worker' = worker, served' = served,
         \A q \in kernel' : q.op = "send_fd" => q \in kernel,
         \A c \in Conn : /\ Late(c) => Late(c)'
                         /\ TaskSent(c) => TaskSent(c)'
                         /\ \A w \in Worker : Closing(c, w) => Closing(c, w)',
         TypeOK
  PROVE  LeakInv'
<1> USE RingFacts
<1>1. \A s \in Slot(Main) : table[Main][s] # NoConn => table[Main][s] \in Conn
  BY DEF TypeOK
<1>2. MainLeakInv'
  BY <1>1 DEF LeakInv, MainLeakInv, Told
<1>3. WorkerLeakInv'
  BY DEF LeakInv, WorkerLeakInv, WorkerSlotOK
<1>4. CopyInv'
  BY DEF LeakInv, CopyInv
<1> QED
  BY <1>2, <1>3, <1>4 DEF LeakInv

LEMMA HandleReleaseKeeps ==
  ASSUME IInv, LeakInv, HandleRelease
  PROVE  LeakInv'
<1> USE RingFacts
<1>1. PICK e : e = First(Main)
  OBVIOUS
<1>2. PICK q0 : q0 = [op |-> "close", ring |-> Main, fd |-> e.res, of |-> e.of]
  OBVIOUS
<1>3. /\ cq[Main] # <<>> /\ e.kind = "release" /\ Handled(Main)
      /\ kernel' = kernel \cup {q0}
      /\ UNCHANGED <<table, phase, served, worker>>
  BY <1>1, <1>2 DEF HandleRelease, Pending, ReleaseRequests, threadVars
<1>4. TypeOK /\ cq \in [Ring -> Seq(Message)]
  BY DEF IInv, TypeOK
<1>5. /\ Messages(cq[Main]) \subseteq Messages(cq'[Main]) \cup {e}
      /\ \A w \in Worker : Messages(cq'[w]) = Messages(cq[w])
  BY <1>1, <1>3, <1>4, OthersStay
<1>6. e \in Messages(cq[Main])
  BY <1>1, <1>3, <1>4, MessagesHandled
<1>7. LateReq(q0) /\ q0.of = e.of /\ q0.op = "close"
  BY <1>2, <1>3, <1>6, SlotFacts DEF IInv, MessageInv, LateReq, Holds
<1>8. ASSUME NEW c \in Conn
      PROVE  /\ Late(c) => Late(c)'
             /\ TaskSent(c) => TaskSent(c)'
             /\ \A w \in Worker : Closing(c, w) => Closing(c, w)'
  <2>1. Late(c) => Late(c)'
    BY <1>3, <1>5, <1>7 DEF Late, ReleaseIn
  <2>2. TaskSent(c) => TaskSent(c)'
    BY <1>3, <1>5 DEF TaskSent, TaskIn
  <2>3. \A w \in Worker : Closing(c, w) => Closing(c, w)'
    BY <1>3 DEF Closing
  <2> QED
    BY <2>1, <2>2, <2>3
<1> QED
  BY <1>3, <1>4, <1>7, <1>8, LeakFrame

LEMMA HandleOtherKeeps ==
  ASSUME IInv, LeakInv, NEW r \in Ring,
         cq[r] # <<>>, First(r).kind \in {"fd", "stale"}, Handled(r),
         UNCHANGED <<table, kernel, phase, served, worker>>
  PROVE  LeakInv'
<1> USE RingFacts
<1>1. TypeOK /\ cq \in [Ring -> Seq(Message)]
  BY DEF IInv, TypeOK
<1>2. /\ Messages(cq[r]) \subseteq Messages(cq'[r]) \cup {First(r)}
      /\ \A s \in Ring \ {r} : Messages(cq'[s]) = Messages(cq[s])
  BY <1>1, OthersStay
<1>3. ASSUME NEW c \in Conn
      PROVE  /\ Late(c) => Late(c)'
             /\ TaskSent(c) => TaskSent(c)'
             /\ \A w \in Worker : Closing(c, w) => Closing(c, w)'
  <2>1. Late(c) => Late(c)'
    BY <1>2 DEF Late, ReleaseIn
  <2>2. TaskSent(c) => TaskSent(c)'
    BY <1>2 DEF TaskSent, TaskIn
  <2>3. \A w \in Worker : Closing(c, w) => Closing(c, w)'
    BY DEF Closing
  <2> QED
    BY <2>1, <2>2, <2>3
<1> QED
  BY <1>1, <1>3, LeakFrame

\* A request is executed, with or without a completion.
LEMMA ExecutedKeeps ==
  ASSUME IInv, LeakInv, NEW q \in kernel, kernel' = kernel \ {q},
         \/ cq' = cq
         \/ \E r \in Ring, e \in Message : Post(r, e),
         LateReq(q) => ReleaseIn(cq'[Main], q.of),
         q.op = "send_task" => \E w \in Worker : TaskIn(cq'[w], q.of),
         q.op = "close" => q.fd = -1,
         UNCHANGED <<table, phase, served, worker>>
  PROVE  LeakInv'
<1> USE RingFacts
<1>1. TypeOK /\ cq \in [Ring -> Seq(Message)]
  BY DEF IInv, TypeOK
<1>2. \A s \in Ring : Messages(cq[s]) \subseteq Messages(cq'[s])
  <2>1. CASE cq' = cq
    BY <2>1
  <2>2. ASSUME NEW r \in Ring, NEW e \in Message, Post(r, e)
        PROVE  \A s \in Ring : Messages(cq[s]) \subseteq Messages(cq'[s])
    <3>1. /\ Messages(cq'[r]) = Messages(cq[r]) \cup {e}
          /\ \A s \in Ring \ {r} : Messages(cq'[s]) = Messages(cq[s])
      BY <1>1, <2>2, MessagesPosted
    <3> QED
      BY <3>1
  <2> QED
    BY <2>1, <2>2
<1>3. ASSUME NEW c \in Conn
      PROVE  /\ Late(c) => Late(c)'
             /\ TaskSent(c) => TaskSent(c)'
             /\ \A w \in Worker : Closing(c, w) => Closing(c, w)'
  <2>1. Late(c) => Late(c)'
    BY <1>2 DEF Late, ReleaseIn
  <2>2. TaskSent(c) => TaskSent(c)'
    BY <1>2 DEF TaskSent, TaskIn
  <2>3. \A w \in Worker : Closing(c, w) => Closing(c, w)'
    BY DEF Closing
  <2> QED
    BY <2>1, <2>2, <2>3
<1> QED
  BY <1>1, <1>3, LeakFrame

LEMMA SendFdFailsKeeps ==
  ASSUME IInv, LeakInv, NEW q \in kernel, SendFdFails(q)
  PROVE  LeakInv'
<1>1. Stale \in Message /\ Main \in Ring
  BY SlotFacts, RingFacts DEF Stale, Message
<1>2. /\ q.op = "send_fd" /\ Post(Main, Stale) /\ kernel' = kernel \ {q}
      /\ UNCHANGED <<table, phase, served, worker>>
  BY DEF SendFdFails, threadVars
<1>3. ~LateReq(q)
  BY <1>2 DEF LateReq
<1> QED
  BY <1>1, <1>2, <1>3, ExecutedKeeps

LEMMA SendTaskKeeps ==
  ASSUME IInv, LeakInv, NEW q \in kernel, SendTask(q)
  PROVE  LeakInv'
<1>1. PICK e : e = [kind |-> "task", key |-> q.fd, res |-> 0, of |-> q.of]
  OBVIOUS
<1>2. /\ q.op = "send_task" /\ Post(q.ring, e) /\ kernel' = kernel \ {q}
      /\ UNCHANGED <<table, phase, served, worker>>
  BY <1>1 DEF SendTask, threadVars
<1>3. q \in Request /\ cq \in [Ring -> Seq(Message)] /\ q.ring \in Worker
  BY <1>2 DEF IInv, TypeOK, RequestInv, RequestOK, SendReq
<1>4. e \in Message /\ ~LateReq(q) /\ q.ring \in Ring
  BY <1>1, <1>2, <1>3, SlotFacts, RingFacts DEF Message, Request, LateReq
<1>5. e \in Messages(cq'[q.ring])
  <2>1. PICK r \in Ring : r = q.ring
    BY <1>4
  <2>2. Post(r, e)
    BY <1>2, <2>1
  <2>3. Messages(cq'[r]) = Messages(cq[r]) \cup {e}
    BY <1>3, <1>4, <2>2, MessagesPosted
  <2> QED
    BY <2>1, <2>3
<1>6. TaskIn(cq'[q.ring], q.of)
  BY <1>1, <1>5 DEF TaskIn
<1> QED
  BY <1>2, <1>3, <1>4, <1>6, ExecutedKeeps

LEMMA NotifyKeeps ==
  ASSUME IInv, LeakInv, NEW q \in kernel, Notify(q)
  PROVE  LeakInv'
<1>1. PICK e : e = [kind |-> "release", key |-> 0, res |-> q.fd, of |-> q.of]
  OBVIOUS
<1>2. /\ q.op = "notify" /\ Post(Main, e) /\ kernel' = kernel \ {q}
      /\ UNCHANGED <<table, phase, served, worker>>
  BY <1>1 DEF Notify, threadVars
<1>3. q \in Request /\ cq \in [Ring -> Seq(Message)]
  BY DEF IInv, TypeOK
<1>4. e \in Message /\ Main \in Ring
  BY <1>1, <1>3, SlotFacts, RingFacts DEF Message, Request
<1>5. e \in Messages(cq'[Main])
  BY <1>2, <1>3, <1>4, MessagesPosted
<1>6. ReleaseIn(cq'[Main], q.of)
  BY <1>1, <1>5 DEF ReleaseIn
<1> QED
  BY <1>2, <1>4, <1>6, ExecutedKeeps

LEMMA CloseStdinKeeps ==
  ASSUME IInv, LeakInv, NEW q \in kernel, CloseStdin(q)
  PROVE  LeakInv'
<1>1. Stale \in Message
  BY SlotFacts, RingFacts DEF Stale, Message
<1>2. q.ring \in Ring
  BY DEF IInv, TypeOK, Request
<1>3. /\ q.op = "close" /\ q.fd = -1 /\ kernel' = kernel \ {q}
      /\ UNCHANGED <<table, phase, served, worker>>
      /\ cq' = cq \/ Post(q.ring, Stale)
  BY DEF CloseStdin, threadVars
<1>4. ~LateReq(q)
  BY <1>3 DEF LateReq
<1> QED
  BY <1>1, <1>2, <1>3, <1>4, ExecutedKeeps

\* Requests are added: what was promised still is.
LEMMA PromisesGrow ==
  ASSUME kernel \subseteq kernel', cq' = cq, NEW c
  PROVE  /\ Late(c) => Late(c)'
         /\ TaskSent(c) => TaskSent(c)'
         /\ \A w : Closing(c, w) => Closing(c, w)'
  BY DEF Late, TaskSent, Closing

\* A connection that is not sent yet has no slot on a worker.
LEMMA NotCopiedYet ==
  ASSUME LeakInv, NEW c \in Conn, phase[c] \in {"peer", "main"}
  PROVE  \A w \in Worker : \A s \in Slot(w) : table[w][s] # c
  BY DEF LeakInv, WorkerLeakInv, WorkerSlotOK

LEMMA AcceptKeeps ==
  ASSUME IInv, LeakInv, NEW c \in Conn, NEW s \in Slot(Main), Accept(c, s)
  PROVE  LeakInv'
<1> USE RingFacts
<1>1. /\ phase[c] = "peer" /\ table[Main][s] = NoConn
      /\ table' = [table EXCEPT ![Main][s] = c]
      /\ phase' = [phase EXCEPT ![c] = "main"]
      /\ object' = [object EXCEPT ![c] = Make(s)]
      /\ kernel' = kernel \cup Closes(MovedFrom(object'[c]), Main, c)
      /\ UNCHANGED <<cq, served, worker>>
  BY DEF Accept
<1>2. /\ TableOK /\ phase \in [Conn -> Phase]
  BY DEF IInv, TypeOK, TableOK
<1>3. /\ \A t \in Slot(Main) \ {s} : table'[Main][t] = table[Main][t]
      /\ table'[Main][s] = c /\ \A w \in Worker : table'[w] = table[w]
      /\ phase'[c] = "main" /\ \A d \in Conn \ {c} : phase'[d] = phase[d]
  BY <1>1, <1>2 DEF TableOK
<1>4. \A q \in kernel' : q \in kernel \/ q.op = "close"
  BY <1>1 DEF Closes
<1>5. \A d : /\ Late(d) => Late(d)'
             /\ TaskSent(d) => TaskSent(d)'
             /\ \A w : Closing(d, w) => Closing(d, w)'
  BY <1>1, PromisesGrow
<1>6. \A w \in Worker : \A t \in Slot(w) : table[w][t] # c
  BY <1>1, NotCopiedYet
<1>7. MainLeakInv'
  <2> SUFFICES ASSUME NEW t \in Slot(Main), NEW d, table'[Main][t] = d, d # NoConn,
                      Told(d)'
               PROVE Late(d)'
    BY DEF MainLeakInv
  <2>1. t # s /\ table[Main][t] = d
    BY <1>3 DEF Told
  <2>2. d \in Conn \ {c}
    BY <1>2, <1>3, <2>1 DEF TableOK, Told
  <2>3. Told(d)
    BY <1>1, <1>3, <2>2 DEF Told
  <2>4. Late(d)
    BY <2>1, <2>3 DEF LeakInv, MainLeakInv
  <2> QED
    BY <1>5, <2>4
<1>8. WorkerLeakInv'
  <2> SUFFICES ASSUME NEW w \in Worker, NEW t \in Slot(w), NEW d \in Conn, table'[w][t] = d
               PROVE WorkerSlotOK(w, t, d)'
    BY DEF WorkerLeakInv
  <2>1. table[w][t] = d
    BY <1>1, <1>3, <1>5, <1>6
  <2>2. WorkerSlotOK(w, t, d)
    BY <2>1 DEF LeakInv, WorkerLeakInv
  <2>3. CASE d = c
    BY <1>1, <1>3, <1>5, <1>6, <2>1, <2>2, <2>3 DEF WorkerSlotOK
  <2>4. CASE d # c
    BY <1>1, <1>3, <1>5, <1>6, <2>2, <2>4 DEF WorkerSlotOK
  <2> QED
    BY <2>3, <2>4
<1>9. CopyInv'
  BY <1>3, <1>4 DEF LeakInv, CopyInv
<1> QED
  BY <1>7, <1>8, <1>9 DEF LeakInv

LEMMA ParallelSpawnKeeps ==
  ASSUME IInv, LeakInv, NEW c \in Conn, ParallelSpawn(c)
  PROVE  LeakInv'
<1> USE RingFacts
<1>1. PICK q0 : q0 = [op |-> "send_fd", ring |-> current', fd |-> object[c].socket,
                      of |-> c]
  OBVIOUS
<1>2. /\ phase[c] = "main"
      /\ worker' = [worker EXCEPT ![c] = current']
      /\ kernel' = kernel \cup {q0}
      /\ phase' = [phase EXCEPT ![c] = "sent"]
      /\ UNCHANGED <<table, cq, served>>
  BY <1>1 DEF ParallelSpawn
<1>3. /\ phase \in [Conn -> Phase]
      /\ worker \in [Conn -> Ring] /\ TypeOK
  BY DEF IInv, TypeOK
<1>4. /\ phase'[c] = "sent"
      /\ \A d \in Conn \ {c} : phase'[d] = phase[d] /\ worker'[d] = worker[d]
  BY <1>2, <1>3
<1>5. \A d : /\ Late(d) => Late(d)'
             /\ TaskSent(d) => TaskSent(d)'
             /\ \A w : Closing(d, w) => Closing(d, w)'
  BY <1>2, PromisesGrow
<1>6. \A w \in Worker : \A t \in Slot(w) : table[w][t] # c
  BY <1>2, NotCopiedYet
<1>7. \A s \in Slot(Main) : table[Main][s] # NoConn => table[Main][s] \in Conn
  BY <1>3 DEF TypeOK
<1>8. MainLeakInv'
  <2>1. \A d \in Conn : Told(d)' => Told(d)
    BY <1>4 DEF Told
  <2> QED
    BY <1>2, <1>5, <1>7, <2>1 DEF LeakInv, MainLeakInv
<1>9. WorkerLeakInv'
  <2> SUFFICES ASSUME NEW w \in Worker, NEW t \in Slot(w), NEW d \in Conn, table'[w][t] = d
               PROVE WorkerSlotOK(w, t, d)'
    BY DEF WorkerLeakInv
  <2>1. table[w][t] = d
    BY <1>2, <1>4, <1>5, <1>6
  <2>2. WorkerSlotOK(w, t, d)
    BY <2>1 DEF LeakInv, WorkerLeakInv
  <2>3. CASE d = c
    BY <1>2, <1>4, <1>5, <1>6, <2>1, <2>2, <2>3 DEF WorkerSlotOK
  <2>4. CASE d # c
    BY <1>2, <1>4, <1>5, <1>6, <2>2, <2>4 DEF WorkerSlotOK
  <2> QED
    BY <2>3, <2>4
<1>10. CopyInv'
  BY <1>1, <1>2, <1>6 DEF LeakInv, CopyInv
<1> QED
  BY <1>8, <1>9, <1>10 DEF LeakInv

LEMMA DestroyObjectKeeps ==
  ASSUME IInv, LeakInv, NEW c \in Conn, DestroyObject(c)
  PROVE  LeakInv'
<1> USE RingFacts
<1>1. PICK q0 : q0 = [op |-> "close", ring |-> Main, fd |-> object[c].socket,
                      of |-> c]
  OBVIOUS
<1>2. /\ object[c].socket # -1
      /\ kernel' = kernel \cup Closes(object[c], Main, c)
      /\ phase' = [phase EXCEPT ![c] = IF phase[c] = "main" THEN "closed" ELSE phase[c]]
      /\ UNCHANGED <<table, cq, served, worker>>
  BY DEF DestroyObject
<1>3. /\ phase \in [Conn -> Phase] /\ TypeOK
  BY DEF IInv, TypeOK
<1>4. /\ \A d \in Conn \ {c} : phase'[d] = phase[d]
      /\ phase'[c] = (IF phase[c] = "main" THEN "closed" ELSE phase[c])
  BY <1>2, <1>3
<1>5. \A d : /\ Late(d) => Late(d)'
             /\ TaskSent(d) => TaskSent(d)'
             /\ \A w : Closing(d, w) => Closing(d, w)'
  BY <1>2, PromisesGrow
<1>6. phase[c] = "main" => \A w \in Worker : \A t \in Slot(w) : table[w][t] # c
  BY NotCopiedYet
<1>7. \A s \in Slot(Main) : table[Main][s] # NoConn => table[Main][s] \in Conn
  BY <1>3 DEF TypeOK
<1>8. phase[c] = "main" => Late(c)'
  <2> SUFFICES ASSUME phase[c] = "main" PROVE Late(c)'
    OBVIOUS
  <2>1. object[c].own
    BY DEF IInv, ObjectInv
  <2>2. q0 \in kernel'
    BY <1>1, <1>2, <2>1 DEF Closes
  <2>3. LateReq(q0) /\ q0.of = c
    BY <1>1, <1>2 DEF LateReq
  <2> QED
    BY <2>2, <2>3 DEF Late
<1>9. \A q \in kernel' : q \in kernel \/ q.op = "close"
  BY <1>2 DEF Closes
<1>10. MainLeakInv'
  <2>1. \A d \in Conn : Told(d)' => Told(d) \/ (d = c /\ phase[c] = "main")
    BY <1>2, <1>4 DEF Told
  <2> QED
    BY <1>2, <1>5, <1>7, <1>8, <2>1 DEF LeakInv, MainLeakInv
<1>11. WorkerLeakInv'
  <2> SUFFICES ASSUME NEW w \in Worker, NEW t \in Slot(w), NEW d \in Conn, table'[w][t] = d
               PROVE WorkerSlotOK(w, t, d)'
    BY DEF WorkerLeakInv
  <2>1. table[w][t] = d
    BY <1>2, <1>4, <1>5, <1>6
  <2>2. WorkerSlotOK(w, t, d)
    BY <2>1 DEF LeakInv, WorkerLeakInv
  <2>3. CASE d = c
    BY <1>2, <1>4, <1>5, <1>6, <2>1, <2>2, <2>3 DEF WorkerSlotOK
  <2>4. CASE d # c
    BY <1>2, <1>4, <1>5, <1>6, <2>2, <2>4 DEF WorkerSlotOK
  <2> QED
    BY <2>3, <2>4
<1>12. CopyInv'
  BY <1>2, <1>9 DEF LeakInv, CopyInv
<1> QED
  BY <1>10, <1>11, <1>12 DEF LeakInv

LEMMA DestroyServedKeeps ==
  ASSUME IInv, LeakInv, NEW c \in Conn, DestroyServed(c)
  PROVE  LeakInv'
<1> USE RingFacts
<1>1. PICK q0 : q0 = [op |-> "close", ring |-> worker[c], fd |-> served[c].socket,
                      of |-> c]
  OBVIOUS
<1>2. /\ phase[c] = "served"
      /\ kernel' = kernel \cup Closes(served[c], worker[c], c)
      /\ served' = [served EXCEPT ![c] = MovedFrom(served[c])]
      /\ phase' = [phase EXCEPT ![c] = "closed"]
      /\ UNCHANGED <<table, cq, worker>>
  BY DEF DestroyServed
<1>3. /\ phase \in [Conn -> Phase] /\ TypeOK
      /\ served \in [Conn -> Object]
  BY DEF IInv, TypeOK
<1>4. /\ ~served[c].own /\ served[c].in_this_ring = served[c].socket
      /\ served[c].socket > -1
  BY <1>2, SlotFacts DEF IInv, ObjectInv, Holds
<1>5. kernel' = kernel \cup {q0} /\ q0.op = "close"
  BY <1>1, <1>2, <1>4 DEF Closes
<1>6. /\ phase'[c] = "closed"
      /\ \A d \in Conn \ {c} : phase'[d] = phase[d] /\ served'[d] = served[d]
  BY <1>2, <1>3
<1>7. \A d : /\ Late(d) => Late(d)'
             /\ TaskSent(d) => TaskSent(d)'
             /\ \A w : Closing(d, w) => Closing(d, w)'
  BY <1>2, PromisesGrow
<1>8. \A s \in Slot(Main) : table[Main][s] # NoConn => table[Main][s] \in Conn
  BY <1>3 DEF TypeOK
<1>9. Closing(c, worker[c])'
  BY <1>1, <1>2, <1>4, <1>5 DEF Closing
<1>10. MainLeakInv'
  <2>1. \A d \in Conn : Told(d)' => Told(d)
    BY <1>2, <1>6 DEF Told
  <2> QED
    BY <1>2, <1>7, <1>8, <2>1 DEF LeakInv, MainLeakInv
<1>11. WorkerLeakInv'
  <2> SUFFICES ASSUME NEW w \in Worker, NEW t \in Slot(w), NEW d \in Conn, table'[w][t] = d
               PROVE WorkerSlotOK(w, t, d)'
    BY DEF WorkerLeakInv
  <2>1. table[w][t] = d
    BY <1>2, <1>6, <1>7, <1>9
  <2>2. WorkerSlotOK(w, t, d)
    BY <2>1 DEF LeakInv, WorkerLeakInv
  <2>3. CASE d = c
    BY <1>2, <1>6, <1>7, <1>9, <2>1, <2>2, <2>3 DEF WorkerSlotOK
  <2>4. CASE d # c
    BY <1>2, <1>6, <1>7, <1>9, <2>2, <2>4 DEF WorkerSlotOK
  <2> QED
    BY <2>3, <2>4
<1>12. CopyInv'
  BY <1>2, <1>5 DEF LeakInv, CopyInv
<1> QED
  BY <1>10, <1>11, <1>12 DEF LeakInv

LEMMA AssignKeeps ==
  ASSUME IInv, LeakInv, NEW c \in Conn, NEW d \in Conn, Assign(c, d)
  PROVE  LeakInv'
<1> USE RingFacts
<1>1. /\ phase' = [phase EXCEPT ![c] = IF phase[c] = "main" THEN "overwritten"
                                       ELSE phase[c]]
      /\ kernel' = kernel \cup Closes(object'[c], Main, c)
      /\ UNCHANGED <<table, cq, served, worker>>
  BY DEF Assign
<1>2. phase \in [Conn -> Phase] /\ TypeOK
  BY DEF IInv, TypeOK
<1>3. /\ \A e \in Conn \ {c} : phase'[e] = phase[e]
      /\ phase'[c] = (IF phase[c] = "main" THEN "overwritten" ELSE phase[c])
  BY <1>1, <1>2
<1>4. \A e : /\ Late(e) => Late(e)'
             /\ TaskSent(e) => TaskSent(e)'
             /\ \A w : Closing(e, w) => Closing(e, w)'
  BY <1>1, PromisesGrow
<1>5. phase[c] = "main" => /\ worker[c] = Main
                           /\ \A w \in Worker : \A t \in Slot(w) : table[w][t] # c
  BY NotCopiedYet DEF IInv, ObjectInv
<1>6. \A s \in Slot(Main) : table[Main][s] # NoConn => table[Main][s] \in Conn
  BY <1>2 DEF TypeOK
\* A slot that is overwritten on the main thread is not promised to be closed.
<1>7. \A e \in Conn : Told(e)' => Told(e)
  BY <1>1, <1>3, <1>5 DEF Told
<1>8. MainLeakInv'
  BY <1>1, <1>4, <1>6, <1>7 DEF LeakInv, MainLeakInv
<1>9. WorkerLeakInv'
  <2> SUFFICES ASSUME NEW w \in Worker, NEW t \in Slot(w), NEW e \in Conn, table'[w][t] = e
               PROVE WorkerSlotOK(w, t, e)'
    BY DEF WorkerLeakInv
  <2>1. WorkerSlotOK(w, t, e)
    BY <1>1 DEF LeakInv, WorkerLeakInv
  <2>2. phase'[e] = phase[e]
    BY <1>1, <1>3, <1>5
  <2> QED
    BY <1>1, <1>4, <2>1, <2>2 DEF WorkerSlotOK
<1>10. CopyInv'
  <2>1. \A q \in kernel' : q \in kernel \/ q.op = "close"
    BY <1>1 DEF Closes
  <2> QED
    BY <1>1, <2>1 DEF LeakInv, CopyInv
<1> QED
  BY <1>8, <1>9, <1>10 DEF LeakInv

LEMMA AssignServedKeeps ==
  ASSUME IInv, LeakInv, NEW c \in Conn, NEW d \in Conn, AssignServed(c, d)
  PROVE  LeakInv'
<1> USE RingFacts
<1>1. /\ phase[c] = "served"
      /\ served' = [served EXCEPT ![c] = MovedFrom(served[d])]
      /\ phase' = [phase EXCEPT ![c] = "overwritten"]
      /\ kernel' = kernel \cup Closes(served'[c], worker[c], c)
      /\ UNCHANGED <<table, cq, worker>>
  BY DEF AssignServed
<1>2. phase \in [Conn -> Phase] /\ TypeOK /\ served \in [Conn -> Object]
  BY DEF IInv, TypeOK
<1>3. /\ phase'[c] = "overwritten"
      /\ \A e \in Conn \ {c} : phase'[e] = phase[e] /\ served'[e] = served[e]
  BY <1>1, <1>2
<1>4. \A e : /\ Late(e) => Late(e)'
             /\ TaskSent(e) => TaskSent(e)'
             /\ \A w : Closing(e, w) => Closing(e, w)'
  BY <1>1, PromisesGrow
<1>5. \A s \in Slot(Main) : table[Main][s] # NoConn => table[Main][s] \in Conn
  BY <1>2 DEF TypeOK
\* The main slot of a connection that was served is still given back.
<1>6. \A e \in Conn : Told(e)' => Told(e)
  BY <1>1, <1>3 DEF Told
<1>7. MainLeakInv'
  BY <1>1, <1>4, <1>5, <1>6 DEF LeakInv, MainLeakInv
<1>8. WorkerLeakInv'
  <2> SUFFICES ASSUME NEW w \in Worker, NEW t \in Slot(w), NEW e \in Conn, table'[w][t] = e
               PROVE WorkerSlotOK(w, t, e)'
    BY DEF WorkerLeakInv
  <2>1. WorkerSlotOK(w, t, e)
    BY <1>1 DEF LeakInv, WorkerLeakInv
  <2>2. CASE e = c
    BY <1>1, <1>3, <2>1, <2>2 DEF WorkerSlotOK
  <2>3. CASE e # c
    BY <1>1, <1>3, <1>4, <2>1, <2>3 DEF WorkerSlotOK
  <2> QED
    BY <2>2, <2>3
<1>9. CopyInv'
  <2>1. \A q \in kernel' : q \in kernel \/ q.op = "close"
    BY <1>1 DEF Closes
  <2> QED
    BY <1>1, <2>1 DEF LeakInv, CopyInv
<1> QED
  BY <1>7, <1>8, <1>9 DEF LeakInv

LEMMA HandleTaskKeeps ==
  ASSUME IInv, LeakInv, NEW w \in Worker, HandleTask(w), ObjectInv'
  PROVE  LeakInv'
<1> USE RingFacts
<1>1. PICK e : e = First(w)
  OBVIOUS
<1>2. PICK c : c = e.of
  OBVIOUS
<1>3. PICK q0 : q0 = [op |-> "notify", ring |-> Main, fd |-> e.key, of |-> c]
  OBVIOUS
<1>4. /\ cq[w] # <<>> /\ e.kind = "task" /\ Handled(w)
      /\ UNCHANGED <<table, worker>>
      /\ phase' = [phase EXCEPT ![c] = "served"]
      /\ \E v : served' = [served EXCEPT ![c] = v]
      /\ kernel \subseteq kernel' /\ q0 \in kernel'
      /\ \A q \in kernel' : q \in kernel \/ q.op \in {"close", "notify"}
  <2>1. PICK conn : conn = SetSubringSocket(Make(-1), Lookup(w, e.key))
    OBVIOUS
  <2>2. /\ cq[w] # <<>> /\ e.kind = "task" /\ Handled(w)
        /\ UNCHANGED <<table, worker>>
        /\ served' = [served EXCEPT ![c] = conn]
        /\ phase' = [phase EXCEPT ![c] = "served"]
        /\ kernel' = kernel \cup Closes(MovedFrom(conn), w, c) \cup {q0}
    BY <1>1, <1>2, <1>3, <2>1 DEF HandleTask, Pending
  <2>3. \A q \in Closes(MovedFrom(conn), w, c) : q.op = "close"
    BY DEF Closes
  <2>4. q0.op = "notify"
    BY <1>3
  <2>5. \E v : served' = [served EXCEPT ![c] = v]
    BY <2>2
  <2> QED
    BY <2>2, <2>3, <2>4, <2>5
<1>5. /\ cq \in [Ring -> Seq(Message)] /\ TypeOK
      /\ phase \in [Conn -> Phase]
      /\ served \in [Conn -> Object]
  BY DEF IInv, TypeOK
<1>6. /\ e \in Messages(cq[w])
      /\ Messages(cq[w]) \subseteq Messages(cq'[w]) \cup {e}
      /\ \A s \in Ring \ {w} : Messages(cq'[s]) = Messages(cq[s])
  BY <1>1, <1>4, <1>5, MessagesHandled, OthersStay
<1>7. c \in Conn /\ c # NoConn /\ phase[c] = "sent" /\ worker[c] = w
  BY <1>2, <1>4, <1>6, ConnAssumption DEF IInv, MessageInv
<1>8. /\ \A d \in Conn \ {c} : phase'[d] = phase[d] /\ served'[d] = served[d]
      /\ phase'[c] = "served"
  BY <1>4, <1>5, <1>7
<1>9. LateReq(q0) /\ q0.of = c
  BY <1>3 DEF LateReq
<1>10. ASSUME NEW d \in Conn \ {c}
       PROVE  /\ Late(d) => Late(d)'
              /\ TaskSent(d) => TaskSent(d)'
              /\ \A v \in Worker : Closing(d, v) => Closing(d, v)'
  <2>1. Late(d) => Late(d)'
    BY <1>4, <1>6 DEF Late, ReleaseIn
  <2>2. TaskSent(d) => TaskSent(d)'
    BY <1>2, <1>4, <1>6 DEF TaskSent, TaskIn
  <2>3. \A v \in Worker : Closing(d, v) => Closing(d, v)'
    BY <1>4 DEF Closing
  <2> QED
    BY <2>1, <2>2, <2>3
<1>11. Late(c)'
  BY <1>4, <1>9 DEF Late
<1>12. \A s \in Slot(Main) : table[Main][s] # NoConn => table[Main][s] \in Conn
  BY <1>5 DEF TypeOK
<1>13. MainLeakInv'
  <2> SUFFICES ASSUME NEW t \in Slot(Main), NEW d, table[Main][t] = d, d # NoConn,
                      Told(d)'
               PROVE Late(d)'
    BY <1>4 DEF MainLeakInv
  <2>1. CASE d = c
    BY <1>11, <2>1
  <2>2. CASE d # c
    <3>1. d \in Conn \ {c}
      BY <1>12, <2>2
    <3>2. Told(d)
      BY <1>4, <1>8, <3>1 DEF Told
    <3>3. Late(d)
      BY <3>2 DEF LeakInv, MainLeakInv
    <3> QED
      BY <1>10, <3>1, <3>3
  <2> QED
    BY <2>1, <2>2
\* The slot of c on the worker is the one its task was given.
<1>14. \A t \in Slot(w) : table[w][t] = c => t = served'[c].socket
  <2>1. Holds(table, w, served'[c].socket, c)
    BY <1>4, <1>7, <1>8 DEF ObjectInv
  <2> QED
    BY <1>7, <2>1 DEF LeakInv, CopyInv, Holds
<1>15. WorkerLeakInv'
  <2> SUFFICES ASSUME NEW v \in Worker, NEW t \in Slot(v), NEW d \in Conn, table[v][t] = d
               PROVE WorkerSlotOK(v, t, d)'
    BY <1>4 DEF WorkerLeakInv
  <2>1. WorkerSlotOK(v, t, d)
    BY DEF LeakInv, WorkerLeakInv
  <2>2. CASE d = c
    <3>1. v = w /\ t = served'[c].socket
      BY <1>7, <1>14, <2>1, <2>2 DEF WorkerSlotOK
    <3> QED
      BY <1>4, <1>7, <1>8, <2>2, <3>1 DEF WorkerSlotOK
  <2>3. CASE d # c
    BY <1>4, <1>8, <1>10, <2>1, <2>3 DEF WorkerSlotOK
  <2> QED
    BY <2>2, <2>3
<1>16. CopyInv'
  BY <1>4 DEF LeakInv, CopyInv
<1> QED
  BY <1>13, <1>15, <1>16 DEF LeakInv

LEMMA SendFdKeeps ==
  ASSUME IInv, LeakInv, NEW q \in kernel, NEW s \in Slot(q.ring), SendFd(q, s)
  PROVE  LeakInv'
<1> USE RingFacts
<1>1. PICK e : e = [kind |-> "fd", key |-> q.fd, res |-> s, of |-> q.of]
  OBVIOUS
<1>2. PICK q0 : q0 = [q EXCEPT !.op = "send_task"]
  OBVIOUS
<1>3. PICK c : c = q.of
  OBVIOUS
<1>4. PICK w : w = q.ring
  OBVIOUS
<1>5. /\ q \in Request /\ cq \in [Ring -> Seq(Message)] /\ TableOK
  BY DEF IInv, TypeOK, TableOK
<1>6. q.op = "send_fd" /\ SendReq(q) /\ ~LateReq(q) /\ c \in Conn /\ c # NoConn
  BY <1>3, <1>5, ConnAssumption DEF SendFd, SendReq, LateReq, Request
<1>7. /\ phase[c] = "sent" /\ w = worker[c] /\ w \in Worker
      /\ Holds(table, Main, q.fd, c)
  BY <1>3, <1>4, <1>6 DEF IInv, RequestInv, RequestOK
<1>8. /\ table' = [table EXCEPT ![w][s] = c] /\ table[w][s] = NoConn /\ s \in Slot(w)
      /\ Post(w, e) /\ kernel' = (kernel \ {q}) \cup {q0}
      /\ UNCHANGED <<phase, served, worker>>
  BY <1>1, <1>2, <1>4, <1>7 DEF SendFd, Holds, Free, threadVars
<1>9. q0.op = "send_task" /\ q0.of = c /\ e \in Message
  BY <1>1, <1>2, <1>3, <1>5, <1>8, <1>7, SlotFacts DEF Request, Message
<1>10. /\ table'[Main] = table[Main] /\ table'[w][s] = c
       /\ \A t \in Slot(w) \ {s} : table'[w][t] = table[w][t]
       /\ \A v \in Worker \ {w} : table'[v] = table[v]
  BY <1>5, <1>7, <1>8 DEF TableOK
<1>11. \A r \in Ring : Messages(cq[r]) \subseteq Messages(cq'[r])
  BY <1>5, <1>7, <1>8, <1>9, MessagesPosted
<1>12. ASSUME NEW d \in Conn
       PROVE  /\ Late(d) => Late(d)'
              /\ TaskSent(d) => TaskSent(d)'
              /\ \A v \in Worker : Closing(d, v) => Closing(d, v)'
  <2>1. Late(d) => Late(d)'
    BY <1>6, <1>8, <1>11 DEF Late, ReleaseIn
  <2>2. TaskSent(d) => TaskSent(d)'
    BY <1>6, <1>8, <1>11 DEF TaskSent, TaskIn
  <2>3. \A v \in Worker : Closing(d, v) => Closing(d, v)'
    BY <1>6, <1>8 DEF Closing
  <2> QED
    BY <2>1, <2>2, <2>3
<1>13. TaskSent(c)'
  BY <1>8, <1>9 DEF TaskSent
<1>14. \A v \in Worker : \A t \in Slot(v) : table[v][t] # c
  BY <1>3, <1>6 DEF LeakInv, CopyInv
<1>15. MainLeakInv'
  <2>1. \A t \in Slot(Main) : table[Main][t] # NoConn => table[Main][t] \in Conn
    BY <1>5 DEF TableOK
  <2> SUFFICES ASSUME NEW t \in Slot(Main), NEW d, table[Main][t] = d, d # NoConn,
                      Told(d)
               PROVE Late(d)'
    BY <1>8, <1>10 DEF MainLeakInv, Told
  <2> QED
    BY <1>12, <2>1 DEF LeakInv, MainLeakInv
<1>16. WorkerLeakInv'
  <2> SUFFICES ASSUME NEW v \in Worker, NEW t \in Slot(v), NEW d \in Conn, table'[v][t] = d
               PROVE WorkerSlotOK(v, t, d)'
    BY DEF WorkerLeakInv
  <2>1. CASE d = c
    <3>1. v = w
      BY <1>10, <1>14, <2>1
    <3> QED
      BY <1>7, <1>8, <1>13, <2>1, <3>1 DEF WorkerSlotOK
  <2>2. CASE d # c
    <3>1. table[v][t] = d
      BY <1>10, <2>2
    <3>2. WorkerSlotOK(v, t, d)
      BY <3>1 DEF LeakInv, WorkerLeakInv
    <3> QED
      BY <1>8, <1>12, <3>2 DEF WorkerSlotOK
  <2> QED
    BY <2>1, <2>2
<1>17. CopyInv'
  <2>1. ASSUME NEW p \in kernel', p.op = "send_fd", NEW v \in Worker, NEW t \in Slot(v)
        PROVE  table'[v][t] # p.of
    <3>1. p \in kernel /\ p # q /\ SendReq(p)
      BY <1>8, <1>9, <2>1 DEF SendReq
    <3>2. p.of # c
      BY <1>3, <1>6, <3>1 DEF IInv, StageInv
    <3>3. table[v][t] # p.of
      BY <2>1, <3>1 DEF LeakInv, CopyInv
    <3> QED
      BY <1>10, <3>2, <3>3
  <2>2. ASSUME NEW v \in Worker, NEW t \in Slot(v), NEW u \in Slot(v),
               table'[v][t] = table'[v][u], table'[v][t] # NoConn
        PROVE  t = u
    <3>1. CASE v = w
      BY <1>10, <1>14, <2>2, <3>1 DEF LeakInv, CopyInv
    <3>2. CASE v # w
      BY <1>10, <2>2, <3>2 DEF LeakInv, CopyInv
    <3> QED
      BY <3>1, <3>2
  <2> QED
    BY <2>1, <2>2 DEF CopyInv
<1> QED
  BY <1>15, <1>16, <1>17 DEF LeakInv

LEMMA CloseDirectKeeps ==
  ASSUME IInv, LeakInv, NEW q \in kernel, CloseDirect(q)
  PROVE  LeakInv'
<1> USE RingFacts
<1>1. PICK c : c = q.of
  OBVIOUS
<1>2. PICK r : r = q.ring
  OBVIOUS
<1>3. /\ q \in Request /\ TableOK
  BY DEF IInv, TypeOK, TableOK
<1>4. /\ q.op = "close" /\ q.fd # -1 /\ kernel' = kernel \ {q}
      /\ UNCHANGED <<phase, served, worker>>
  BY DEF CloseDirect, threadVars
<1>5. c \in Conn /\ c # NoConn /\ r \in Ring
  BY <1>1, <1>2, <1>3, ConnAssumption DEF Request
<1>6. Holds(table, r, q.fd, c) /\ (r # Main => r = worker[c])
  BY <1>1, <1>2, <1>4 DEF IInv, RequestInv, RequestOK, LateReq
<1>7. table' = [table EXCEPT ![r][q.fd] = NoConn] /\ cq' = cq
  BY <1>2, <1>5, <1>6 DEF CloseDirect, Holds
<1>8. /\ \A t \in Slot(r) \ {q.fd} : table'[r][t] = table[r][t]
      /\ table'[r][q.fd] = NoConn
      /\ \A p \in Ring \ {r} : table'[p] = table[p]
  BY <1>3, <1>5, <1>6, <1>7 DEF TableOK, Holds
\* No other slot of the ring is that of c.
<1>9. /\ \A t \in Slot(r) : table'[r][t] # c
      /\ \A p \in Ring : \A t \in Slot(p) :
           table'[p][t] # NoConn => table[p][t] = table'[p][t]
  <2>1. \A t \in Slot(r) : table[r][t] = c => t = q.fd
    BY <1>5, <1>6 DEF IInv, SlotInv, LeakInv, CopyInv, Holds
  <2> QED
    BY <1>5, <1>8, <2>1
<1>10. MainLeakInv'
  <2> SUFFICES ASSUME NEW t \in Slot(Main), NEW d, table'[Main][t] = d, d # NoConn,
                      Told(d)
               PROVE Late(d)'
    BY <1>4 DEF MainLeakInv, Told
  <2>1. Late(d)
    BY <1>9 DEF LeakInv, MainLeakInv
  <2>2. LateReq(q) => r = Main
    BY <1>2, <1>4 DEF LateReq
  <2>3. LateReq(q) => d # c
    BY <1>9, <2>2
  <2> QED
    BY <1>1, <1>4, <1>7, <2>1, <2>3 DEF Late
<1>11. WorkerLeakInv'
  <2> SUFFICES ASSUME NEW v \in Worker, NEW t \in Slot(v), NEW d \in Conn, table'[v][t] = d
               PROVE WorkerSlotOK(v, t, d)'
    BY DEF WorkerLeakInv
  <2>1. table[v][t] = d
    BY <1>9, ConnAssumption
  <2>2. WorkerSlotOK(v, t, d)
    BY <2>1 DEF LeakInv, WorkerLeakInv
  <2>3. ~(v = r /\ d = c)
    BY <1>9
  <2>4. Closing(d, v) => Closing(d, v)'
    BY <1>1, <1>2, <1>4, <2>3 DEF Closing
  <2>5. TaskSent(d) => TaskSent(d)'
    BY <1>4, <1>7 DEF TaskSent
  <2> QED
    BY <1>4, <2>2, <2>4, <2>5 DEF WorkerSlotOK
<1>12. CopyInv'
  <2>1. ASSUME NEW p \in kernel', p.op = "send_fd", NEW v \in Worker, NEW t \in Slot(v)
        PROVE  table'[v][t] # p.of
    <3>1. table[v][t] # p.of
      BY <1>4, <2>1 DEF LeakInv, CopyInv
    <3>2. p.of # NoConn
      BY <1>4, ConnAssumption DEF IInv, TypeOK, Request
    <3> QED
      BY <1>9, <3>1, <3>2
  <2>2. ASSUME NEW v \in Worker, NEW t \in Slot(v), NEW u \in Slot(v),
               table'[v][t] = table'[v][u], table'[v][t] # NoConn
        PROVE  t = u
    BY <1>9, <2>2 DEF LeakInv, CopyInv
  <2> QED
    BY <2>1, <2>2 DEF CopyInv
<1> QED
  BY <1>10, <1>11, <1>12 DEF LeakInv

LEMMA NextLeakInv == IInv /\ IInv' /\ LeakInv /\ [Next]_vars => LeakInv'
<1> SUFFICES ASSUME IInv, IInv', LeakInv, [Next]_vars PROVE LeakInv'
  OBVIOUS
<1>1. ASSUME NEW c \in Conn, NEW s \in Slot(Main), Accept(c, s) PROVE LeakInv'
  BY <1>1, AcceptKeeps
<1>2. ASSUME NEW c \in Conn, ParallelSpawn(c) PROVE LeakInv'
  BY <1>2, ParallelSpawnKeeps
<1>3. ASSUME NEW c \in Conn, DestroyObject(c) PROVE LeakInv'
  BY <1>3, DestroyObjectKeeps
<1>4. ASSUME NEW c \in Conn, DestroyServed(c) PROVE LeakInv'
  BY <1>4, DestroyServedKeeps
<1>5. ASSUME NEW q \in kernel, NEW s \in Slot(q.ring), SendFd(q, s) PROVE LeakInv'
  BY <1>5, SendFdKeeps
<1>6. ASSUME NEW q \in kernel, SendFdFails(q) PROVE LeakInv'
  BY <1>6, SendFdFailsKeeps
<1>7. ASSUME NEW q \in kernel, SendTask(q) PROVE LeakInv'
  BY <1>7, SendTaskKeeps
<1>8. ASSUME NEW q \in kernel, Notify(q) PROVE LeakInv'
  BY <1>8, NotifyKeeps
<1>9. ASSUME NEW q \in kernel, CloseDirect(q) PROVE LeakInv'
  BY <1>9, CloseDirectKeeps
<1>10. ASSUME NEW q \in kernel, CloseStdin(q) PROVE LeakInv'
  BY <1>10, CloseStdinKeeps
<1>11. CASE HandleRelease
  BY <1>11, HandleReleaseKeeps
<1>12. ASSUME NEW w \in Worker, HandleFd(w) PROVE LeakInv'
  BY <1>12, HandleOtherKeeps, RingFacts DEF HandleFd, Pending
<1>13. ASSUME NEW w \in Worker, HandleTask(w) PROVE LeakInv'
  BY <1>13, HandleTaskKeeps DEF IInv
<1>14. ASSUME NEW r \in Ring, HandleStale(r) PROVE LeakInv'
  BY <1>14, HandleOtherKeeps DEF HandleStale, Pending, threadVars
<1>15. CASE UNCHANGED vars
  <2>1. UNCHANGED <<table, kernel, cq, phase, served, worker>>
    BY <1>15 DEF vars, threadVars
  <2>2. \A c : /\ Late(c) => Late(c)'
               /\ TaskSent(c) => TaskSent(c)'
               /\ \A w \in Worker : Closing(c, w) => Closing(c, w)'
    BY <2>1, PromisesGrow
  <2> QED
    BY <2>1, <2>2, LeakFrame DEF IInv
<1>19. ASSUME NEW c \in Conn, NEW d \in Conn, Assign(c, d) PROVE LeakInv'
  BY <1>19, AssignKeeps
<1>20. ASSUME NEW c \in Conn, NEW d \in Conn, AssignServed(c, d) PROVE LeakInv'
  BY <1>20, AssignServedKeeps
<1>16. CASE UserStep
  BY <1>1, <1>2, <1>3, <1>4, <1>19, <1>20, <1>16 DEF UserStep
<1>17. CASE KernelStep
  BY <1>5, <1>6, <1>7, <1>8, <1>9, <1>10, <1>17 DEF KernelStep
<1>18. ASSUME NEW r \in Ring, Handle(r) PROVE LeakInv'
  BY <1>11, <1>12, <1>13, <1>14, <1>18, RingFacts DEF Handle
<1> QED
  BY <1>15, <1>16, <1>17, <1>18 DEF Next

LEMMA LeakInductive == SafeSpec => []LeakInv
<1>1. IInv /\ IInv' /\ LeakInv /\ [Next]_vars => LeakInv'
  BY NextLeakInv
<1>2. Init => LeakInv
  BY InitLeakInv
<1> QED
  BY <1>1, <1>2, Inductive, PTL DEF SafeSpec

-----------------------------------------------------------------------------
(* The theorems.                                                            *)

\* Every component of the hand-over has its type, for every number of workers:
\* the index of a worker (pick_worker, context.hpp:86) stays in range, and so
\* does every slot a request or a message names.
THEOREM TypeInvariant == SafeSpec => []TypeOK
  BY Inductive, PTL DEF IInv

\* impl_handle_msg_conn (connection.hpp:154-158) runs each task on the connection
\* it was spawned with, and the slot stays that connection's while it is served.
THEOREM OwnConnectionServed == SafeSpec => []ServedOwnConnection
<1>1. IInv => ServedOwnConnection
  BY DEF IInv, ObjectInv, Holds, ServedOwnConnection
<1> QED
  BY <1>1, Inductive, PTL

\* A TcpConnection that the main thread still owns (connection.hpp:45-48) is open.
THEOREM OwnersHoldOpenSlots == SafeSpec => []OwnedIsOpen
<1>1. IInv => OwnedIsOpen
  BY DEF IInv, ObjectInv, Holds, OwnedIsOpen
<1> QED
  BY <1>1, Inductive, PTL

\* Every close that a destructor (connection.hpp:47, 51) or a notification
\* (uring.hpp:205) submits finds the connection it was meant for.
THEOREM NoForeignClose == SafeSpec => []ClosesOwnSlot
<1>1. IInv => ClosesOwnSlot
  <2> SUFFICES ASSUME IInv, NEW q \in kernel, q.op = "close", q.fd # -1
               PROVE q.fd \in Slot(q.ring) /\ table[q.ring][q.fd] = q.of
    BY DEF ClosesOwnSlot
  <2> QED
    BY DEF IInv, RequestInv, RequestOK, LateReq, Holds
<1> QED
  BY <1>1, Inductive, PTL

\* An entry of direct_map_ (uring.hpp:200) names the same file in both tables.
THEOREM MapMatchesTables == SafeSpec => []DirectMapMatches
<1>1. IInv => DirectMapMatches
  BY ConnAssumption DEF IInv, MapInv, Holds, DirectMapMatches
<1> QED
  BY <1>1, Inductive, PTL

\* A slot that is taken has somebody who will close it, but for two: the main
\* slot of a hand-over that failed (context.hpp:138), and the slot of a connection
\* that was assigned over, where that happened (connection.hpp:35-43).
THEOREM SlotsAreReturned == SafeSpec => []NoSlotLeaks
<1>1. ASSUME IInv, LeakInv
      PROVE  NoSlotLeaks
  <2> USE RingFacts
  <2> SUFFICES ASSUME NEW r \in Ring, NEW s \in Slot(r), NEW c, c = table[r][s], c # NoConn
               PROVE  \/ Closing(c, r)
                      \/ r = Main /\ (phase[c] = "main" \/ Moving(c) \/ Releasing(c) \/ Lost(c))
                      \/ r = worker[c] /\ (phase[c] \in {"served", "overwritten"} \/ Moving(c))
    BY DEF NoSlotLeaks
  <2>1. c \in Conn /\ phase[c] \in Phase
    BY <1>1 DEF IInv, TypeOK
  <2>2. phase[c] # "peer"
    BY <1>1, <2>1 DEF IInv, SlotInv
  <2>3. Late(c) => Releasing(c)
    BY DEF Late, ReleaseIn, LateReq, Messages, Releasing, Requested, Posted, Closing
  <2>4. TaskSent(c) => Moving(c)
    BY DEF TaskSent, TaskIn, Messages, Moving, Requested, Posted
  <2>5. CASE r = Main
    <3>1. Told(c) => Late(c)
      BY <1>1, <2>5 DEF LeakInv, MainLeakInv
    <3> QED
      BY <2>1, <2>2, <2>3, <2>5, <3>1 DEF Lost, Told
  <2>6. CASE r # Main
    <3>1. WorkerSlotOK(r, s, c)
      BY <1>1, <2>1, <2>6 DEF LeakInv, WorkerLeakInv
    <3> QED
      BY <2>1, <2>4, <3>1 DEF WorkerSlotOK
  <2> QED
    BY <2>5, <2>6
<1> QED
  BY <1>1, Inductive, LeakInductive, PTL

-----------------------------------------------------------------------------
(* The refinement of Handoff: every step is a step of the promise or leaves *)
(* what it speaks of as it is.                                              *)

\* Where c is, for a connection whose task finds it.
Place(c) ==
  IF phase[c] = "sent" THEN IF Moving(c) THEN "moving" ELSE "lost"
  ELSE IF phase[c] = "overwritten" THEN "lost" ELSE phase[c]
PlaceOf == [c \in Conn |-> Place(c)]
Turn == IF current = -1 THEN NWorkers - 1 ELSE current

Claims == <<PlaceOf, worker, Turn, undefined>>

LEMMA PlaceIs == IInv => [c \in Conn |-> WhereIs(c)] = PlaceOf
<1> SUFFICES ASSUME IInv PROVE [c \in Conn |-> WhereIs(c)] = PlaceOf
  OBVIOUS
<1>1. \A c \in Conn : WhereIs(c) = Place(c)
  BY DEF IInv, ObjectInv, Holds, WhereIs, Place
<1> QED
  BY <1>1 DEF PlaceOf

Sending(requests, c) == \E q \in requests : SendReq(q) /\ q.of = c
Arriving(queues, c) == \E w \in Worker : TaskIn(queues[w], c)

LEMMA MovingIs ==
  /\ \A c : Moving(c) <=> Sending(kernel, c) \/ Arriving(cq, c)
  /\ \A c : Moving(c)' <=> Sending(kernel', c) \/ Arriving(cq', c)
<1>1. /\ \A c : Requested(c, "send_fd") \/ Requested(c, "send_task") <=> Sending(kernel, c)
      /\ \A c : Requested(c, "send_fd")' \/ Requested(c, "send_task")' <=> Sending(kernel', c)
  BY DEF Requested, Sending, SendReq
<1>2. /\ \A c : (\E w \in Worker : Posted(w, c, "task")) <=> Arriving(cq, c)
      /\ \A c : (\E w \in Worker : Posted(w, c, "task")') <=> Arriving(cq', c)
  BY DEF Posted, Arriving, TaskIn, Messages
<1> QED
  BY <1>1, <1>2 DEF Moving

\* The steps that change nothing a move depends on.
LEMMA MovesKept ==
  ASSUME NEW S \in SUBSET Conn,
         \A q \in kernel : SendReq(q) /\ q.of \in S => q \in kernel',
         \A q \in kernel' : SendReq(q) /\ q.of \in S => q \in kernel,
         \A w \in Worker : \A c \in S : TaskIn(cq'[w], c) <=> TaskIn(cq[w], c)
  PROVE  \A c \in S : Moving(c)' <=> Moving(c)
<1>1. \A c \in S : Sending(kernel', c) <=> Sending(kernel, c)
  BY DEF Sending
<1>2. \A c \in S : Arriving(cq', c) <=> Arriving(cq, c)
  BY DEF Arriving
<1> QED
  BY <1>1, <1>2, MovingIs

\* Connection c goes from one place to the other, and no other moves.
LEMMA PlaceMoves ==
  ASSUME NEW c \in Conn, NEW to, Place(c)' = to,
         \A d \in Conn \ {c} : phase'[d] = phase[d] /\ (Moving(d)' <=> Moving(d))
  PROVE  PlaceOf' = [PlaceOf EXCEPT ![c] = to]
<1>1. \A d \in Conn \ {c} : Place(d)' = Place(d)
  BY DEF Place
<1> QED
  BY <1>1 DEF PlaceOf

LEMMA PlacesStay ==
  ASSUME \A d \in Conn : phase'[d] = phase[d] /\ (Moving(d)' <=> Moving(d))
  PROVE  PlaceOf' = PlaceOf
<1>1. \A d \in Conn : Place(d)' = Place(d)
  BY DEF Place
<1> QED
  BY <1>1 DEF PlaceOf

\* The steps of the promise, in the variables of this module.
Moves(c, from, to) ==
  /\ ~undefined
  /\ PlaceOf[c] = from
  /\ PlaceOf' = [PlaceOf EXCEPT ![c] = to]
  /\ undefined' = undefined

Spawns(c) ==
  /\ Moves(c, "main", "moving")
  /\ Turn' = (Turn + 1) % NWorkers
  /\ worker' = [worker EXCEPT ![c] = Turn']

Follows ==
  \/ \E c \in Conn : Spawns(c)
  \/ \E c \in Conn :
       /\ \/ Moves(c, "peer", "main") \/ Moves(c, "moving", "served")
          \/ Moves(c, "moving", "lost")
          \/ Moves(c, "main", "closed") \/ Moves(c, "served", "closed")
          \/ Moves(c, "main", "lost") \/ Moves(c, "served", "lost")
       /\ UNCHANGED <<worker, Turn>>
  \/ ~undefined /\ undefined' = TRUE /\ UNCHANGED <<PlaceOf, worker, Turn>>
  \/ UNCHANGED Claims

LEMMA Stays ==
  ASSUME \A d \in Conn : phase'[d] = phase[d] /\ (Moving(d)' <=> Moving(d)),
         UNCHANGED <<worker, current, undefined>>
  PROVE  Follows
  BY PlacesStay DEF Follows, Claims, Turn

LEMMA OneMoves ==
  ASSUME NEW c \in Conn, NEW from, NEW to, Place(c) = from, Place(c)' = to, ~undefined,
         \A d \in Conn \ {c} : phase'[d] = phase[d] /\ (Moving(d)' <=> Moving(d)),
         undefined' = undefined
  PROVE  Moves(c, from, to)
<1>1. PlaceOf[c] = from
  BY DEF PlaceOf
<1> QED
  BY <1>1, PlaceMoves DEF Moves

LEMMA AcceptFollows ==
  ASSUME IInv, NEW c \in Conn, NEW s \in Slot(Main), Accept(c, s)
  PROVE  Follows
<1>1. /\ ~undefined /\ phase[c] = "peer"
      /\ phase' = [phase EXCEPT ![c] = "main"]
      /\ kernel' = kernel \cup Closes(MovedFrom(object'[c]), Main, c)
      /\ UNCHANGED <<cq, undefined, worker, current>>
  BY DEF Accept
<1>2. phase'[c] = "main" /\ \A d \in Conn \ {c} : phase'[d] = phase[d]
  BY <1>1 DEF IInv, TypeOK
<1>3. \A q \in kernel' : SendReq(q) => q \in kernel
  BY <1>1 DEF Closes, SendReq
<1>4. \A d \in Conn : Moving(d)' <=> Moving(d)
  BY <1>1, <1>3, MovesKept
<1>5. Place(c) = "peer" /\ Place(c)' = "main"
  BY <1>1, <1>2 DEF Place
<1>6. Moves(c, "peer", "main")
  BY <1>1, <1>2, <1>4, <1>5, OneMoves
<1> QED
  BY <1>1, <1>6 DEF Follows, Turn

LEMMA ParallelSpawnFollows ==
  ASSUME IInv, NEW c \in Conn, ParallelSpawn(c)
  PROVE  Follows
<1>1. PICK q0 : q0 = [op |-> "send_fd", ring |-> current', fd |-> object[c].socket,
                      of |-> c]
  OBVIOUS
<1>2. /\ ~undefined /\ phase[c] = "main"
      /\ current' = (current + 1) % NWorkers
      /\ worker' = [worker EXCEPT ![c] = current']
      /\ kernel' = kernel \cup {q0}
      /\ phase' = [phase EXCEPT ![c] = "sent"]
      /\ UNCHANGED <<cq, undefined>>
  BY <1>1 DEF ParallelSpawn, PickWorker
<1>3. phase'[c] = "sent" /\ \A d \in Conn \ {c} : phase'[d] = phase[d]
  BY <1>2 DEF IInv, TypeOK
<1>4. SendReq(q0) /\ q0.of = c
  BY <1>1 DEF SendReq
<1>5. \A d \in Conn \ {c} : Moving(d)' <=> Moving(d)
  BY <1>2, <1>4, MovesKept
<1>6. Moving(c)'
  BY <1>2, <1>4, MovingIs DEF Sending
<1>7. Place(c) = "main" /\ Place(c)' = "moving"
  BY <1>2, <1>3, <1>6 DEF Place
<1>8. Moves(c, "main", "moving")
  BY <1>2, <1>3, <1>5, <1>7, OneMoves
<1>9. Turn' = current' /\ Turn' = (Turn + 1) % NWorkers
  <2>1. current \in {-1} \cup Worker /\ NWorkers \in Nat \ {0}
    BY SizeFacts DEF IInv, TypeOK
  <2>2. current' # -1
    <3>1. current + 1 \in Nat
      BY <2>1, SMT DEF Worker
    <3>2. current' \in Worker
      BY <1>2, <3>1, TurnIsWorker
    <3> QED
      BY <2>1, <3>2, SMT DEF Worker
  <2>3. CASE current = -1
    <3>1. 0 % NWorkers = 0 /\ NWorkers % NWorkers = 0
      BY <2>1, SMT
    <3>2. current + 1 = 0 /\ Turn + 1 = NWorkers
      BY <2>1, <2>3, SMT DEF Turn
    <3> QED
      BY <1>2, <2>2, <3>1, <3>2 DEF Turn
  <2>4. CASE current # -1
    BY <1>2, <2>2, <2>4 DEF Turn
  <2> QED
    BY <2>3, <2>4
<1>10. Spawns(c)
  BY <1>2, <1>8, <1>9 DEF Spawns
<1> QED
  BY <1>10 DEF Follows

LEMMA DestroyObjectFollows ==
  ASSUME IInv, NEW c \in Conn, DestroyObject(c)
  PROVE  Follows
<1>1. /\ ~undefined
      /\ kernel' = kernel \cup Closes(object[c], Main, c)
      /\ phase' = [phase EXCEPT ![c] = IF phase[c] = "main" THEN "closed" ELSE phase[c]]
      /\ UNCHANGED <<cq, undefined, worker, current>>
  BY DEF DestroyObject
<1>2. /\ \A d \in Conn \ {c} : phase'[d] = phase[d]
      /\ phase'[c] = IF phase[c] = "main" THEN "closed" ELSE phase[c]
  BY <1>1 DEF IInv, TypeOK
<1>3. \A q \in kernel' : SendReq(q) => q \in kernel
  BY <1>1 DEF Closes, SendReq
<1>4. \A d \in Conn : Moving(d)' <=> Moving(d)
  BY <1>1, <1>3, MovesKept
<1>5. CASE phase[c] = "main"
  <2>1. Place(c) = "main" /\ Place(c)' = "closed"
    BY <1>2, <1>5 DEF Place
  <2>2. Moves(c, "main", "closed")
    BY <1>1, <1>2, <1>4, <2>1, OneMoves
  <2> QED
    BY <1>1, <2>2 DEF Follows, Turn
<1>6. CASE phase[c] # "main"
  BY <1>1, <1>2, <1>4, <1>6, Stays
<1> QED
  BY <1>5, <1>6

LEMMA DestroyServedFollows ==
  ASSUME IInv, NEW c \in Conn, DestroyServed(c)
  PROVE  Follows
<1>1. /\ ~undefined /\ phase[c] = "served"
      /\ kernel' = kernel \cup Closes(served[c], worker[c], c)
      /\ phase' = [phase EXCEPT ![c] = "closed"]
      /\ UNCHANGED <<cq, undefined, worker, current>>
  BY DEF DestroyServed
<1>2. phase'[c] = "closed" /\ \A d \in Conn \ {c} : phase'[d] = phase[d]
  BY <1>1 DEF IInv, TypeOK
<1>3. \A q \in kernel' : SendReq(q) => q \in kernel
  BY <1>1 DEF Closes, SendReq
<1>4. \A d \in Conn : Moving(d)' <=> Moving(d)
  BY <1>1, <1>3, MovesKept
<1>5. Place(c) = "served" /\ Place(c)' = "closed"
  BY <1>1, <1>2 DEF Place
<1>6. Moves(c, "served", "closed")
  BY <1>1, <1>2, <1>4, <1>5, OneMoves
<1> QED
  BY <1>1, <1>6 DEF Follows, Turn

LEMMA AssignFollows ==
  ASSUME IInv, NEW c \in Conn, NEW d \in Conn, Assign(c, d)
  PROVE  Follows
<1>1. /\ ~undefined
      /\ kernel' = kernel \cup Closes(object'[c], Main, c)
      /\ phase' = [phase EXCEPT ![c] = IF phase[c] = "main" THEN "overwritten"
                                       ELSE phase[c]]
      /\ UNCHANGED <<cq, undefined, worker, current>>
  BY DEF Assign
<1>2. /\ \A e \in Conn \ {c} : phase'[e] = phase[e]
      /\ phase'[c] = IF phase[c] = "main" THEN "overwritten" ELSE phase[c]
  BY <1>1 DEF IInv, TypeOK
<1>3. \A q \in kernel' : SendReq(q) => q \in kernel
  BY <1>1 DEF Closes, SendReq
<1>4. \A e \in Conn : Moving(e)' <=> Moving(e)
  BY <1>1, <1>3, MovesKept
<1>5. CASE phase[c] = "main"
  <2>1. Place(c) = "main" /\ Place(c)' = "lost"
    BY <1>2, <1>5 DEF Place
  <2>2. Moves(c, "main", "lost")
    BY <1>1, <1>2, <1>4, <2>1, OneMoves
  <2> QED
    BY <1>1, <2>2 DEF Follows, Turn
<1>6. CASE phase[c] # "main"
  BY <1>1, <1>2, <1>4, <1>6, Stays
<1> QED
  BY <1>5, <1>6

LEMMA AssignServedFollows ==
  ASSUME IInv, NEW c \in Conn, NEW d \in Conn, AssignServed(c, d)
  PROVE  Follows
<1>1. /\ ~undefined /\ phase[c] = "served"
      /\ kernel' = kernel \cup Closes(served'[c], worker[c], c)
      /\ phase' = [phase EXCEPT ![c] = "overwritten"]
      /\ UNCHANGED <<cq, undefined, worker, current>>
  BY DEF AssignServed
<1>2. phase'[c] = "overwritten" /\ \A e \in Conn \ {c} : phase'[e] = phase[e]
  BY <1>1 DEF IInv, TypeOK
<1>3. \A q \in kernel' : SendReq(q) => q \in kernel
  BY <1>1 DEF Closes, SendReq
<1>4. \A e \in Conn : Moving(e)' <=> Moving(e)
  BY <1>1, <1>3, MovesKept
<1>5. Place(c) = "served" /\ Place(c)' = "lost"
  BY <1>1, <1>2 DEF Place
<1>6. Moves(c, "served", "lost")
  BY <1>1, <1>2, <1>4, <1>5, OneMoves
<1> QED
  BY <1>1, <1>6 DEF Follows, Turn

\* A completion that is no task is handled.
LEMMA HandledMovesNone ==
  ASSUME IInv, NEW r \in Ring, cq[r] # <<>>, Handled(r), First(r).kind # "task",
         \A q \in kernel' : SendReq(q) => q \in kernel,
         kernel \subseteq kernel'
  PROVE  \A d \in Conn : Moving(d)' <=> Moving(d)
<1> USE RingFacts
<1>1. cq \in [Ring -> Seq(Message)]
  BY DEF IInv, TypeOK
<1>2. /\ Messages(cq[r]) \subseteq Messages(cq'[r]) \cup {First(r)}
      /\ \A s \in Ring : Messages(cq'[s]) \subseteq Messages(cq[s])
      /\ \A s \in Ring \ {r} : Messages(cq'[s]) = Messages(cq[s])
  BY <1>1, MessagesHandled, OthersStay
<1>3. \A w \in Worker : \A d : TaskIn(cq'[w], d) <=> TaskIn(cq[w], d)
  BY <1>2 DEF TaskIn
<1> QED
  BY <1>3, MovesKept

LEMMA HandleReleaseFollows ==
  ASSUME IInv, HandleRelease
  PROVE  Follows
<1>1. /\ cq[Main] # <<>> /\ First(Main).kind = "release" /\ Handled(Main)
      /\ kernel' = kernel \cup ReleaseRequests(First(Main))
      /\ UNCHANGED <<undefined, phase, worker, current>>
  BY DEF HandleRelease, Pending, threadVars
<1>2. \A q \in kernel' : SendReq(q) => q \in kernel
  BY <1>1 DEF ReleaseRequests, SendReq
<1>3. \A d \in Conn : Moving(d)' <=> Moving(d)
  BY <1>1, <1>2, HandledMovesNone, RingFacts
<1> QED
  BY <1>1, <1>3, Stays

LEMMA HandleFdFollows ==
  ASSUME IInv, NEW w \in Worker, HandleFd(w)
  PROVE  Follows
<1>1. /\ cq[w] # <<>> /\ First(w).kind = "fd" /\ Handled(w)
      /\ UNCHANGED <<kernel, undefined, phase, worker, current>>
  BY DEF HandleFd, Pending
<1>2. \A d \in Conn : Moving(d)' <=> Moving(d)
  BY <1>1, HandledMovesNone, RingFacts
<1> QED
  BY <1>1, <1>2, Stays

LEMMA HandleStaleFollows ==
  ASSUME IInv, NEW r \in Ring, HandleStale(r)
  PROVE  Follows
<1>1. /\ ~undefined /\ cq[r] # <<>> /\ First(r).kind = "stale" /\ Handled(r)
      /\ undefined' \in BOOLEAN
      /\ UNCHANGED <<kernel, phase, worker, current>>
  BY DEF HandleStale, Pending, threadVars
<1>2. \A d \in Conn : Moving(d)' <=> Moving(d)
  BY <1>1, HandledMovesNone
<1>3. PlaceOf' = PlaceOf
  BY <1>1, <1>2, PlacesStay
<1>4. Turn' = Turn
  BY <1>1 DEF Turn
<1>5. undefined \in BOOLEAN
  BY DEF IInv, TypeOK
<1>6. CASE undefined' = TRUE
  BY <1>1, <1>3, <1>4, <1>6 DEF Follows
<1>7. CASE undefined' = FALSE
  <2>1. undefined' = undefined
    BY <1>1, <1>5, <1>7
  <2> QED
    BY <1>1, <1>3, <1>4, <2>1 DEF Follows, Claims
<1> QED
  BY <1>1, <1>6, <1>7

LEMMA HandleTaskFollows ==
  ASSUME IInv, NEW w \in Worker, HandleTask(w)
  PROVE  Follows
<1> USE RingFacts
<1>1. PICK e : e = First(w)
  OBVIOUS
<1>2. PICK c : c = e.of
  OBVIOUS
<1>3. /\ ~undefined /\ cq[w] # <<>> /\ e.kind = "task" /\ Handled(w)
      /\ UNCHANGED <<undefined, worker, current>>
      /\ phase' = [phase EXCEPT ![c] = "served"]
      /\ kernel \subseteq kernel'
      /\ \A q \in kernel' : SendReq(q) => q \in kernel
  <2>1. PICK conn : conn = SetSubringSocket(Make(-1), Lookup(w, e.key))
    OBVIOUS
  <2>2. PICK q0 : q0 = [op |-> "notify", ring |-> Main, fd |-> e.key, of |-> c]
    OBVIOUS
  <2>3. /\ ~undefined /\ cq[w] # <<>> /\ e.kind = "task" /\ Handled(w)
        /\ UNCHANGED <<undefined, worker, current>>
        /\ phase' = [phase EXCEPT ![c] = "served"]
        /\ kernel' = kernel \cup Closes(MovedFrom(conn), w, c) \cup {q0}
    BY <1>1, <1>2, <2>1, <2>2 DEF HandleTask, Pending
  <2>4. \A q \in Closes(MovedFrom(conn), w, c) : ~SendReq(q)
    BY DEF Closes, SendReq
  <2>5. ~SendReq(q0)
    BY <2>2 DEF SendReq
  <2> QED
    BY <2>3, <2>4, <2>5
<1>4. cq \in [Ring -> Seq(Message)]
  BY DEF IInv, TypeOK
<1>5. /\ e \in Messages(cq[w])
      /\ Messages(cq[w]) \subseteq Messages(cq'[w]) \cup {e}
      /\ \A s \in Ring : Messages(cq'[s]) \subseteq Messages(cq[s])
      /\ \A s \in Ring \ {w} : Messages(cq'[s]) = Messages(cq[s])
  BY <1>1, <1>3, <1>4, MessagesHandled, OthersStay
<1>6. c \in Conn /\ phase[c] = "sent" /\ TaskIn(cq[w], c)
  BY <1>2, <1>3, <1>5 DEF IInv, MessageInv, TaskIn
<1>7. phase'[c] = "served" /\ \A d \in Conn \ {c} : phase'[d] = phase[d]
  BY <1>3, <1>6 DEF IInv, TypeOK
<1>8. \A v \in Worker : \A d \in Conn \ {c} : TaskIn(cq'[v], d) <=> TaskIn(cq[v], d)
  BY <1>2, <1>5 DEF TaskIn
<1>9. \A d \in Conn \ {c} : Moving(d)' <=> Moving(d)
  BY <1>3, <1>8, MovesKept
<1>10. Moving(c)
  BY <1>6, MovingIs DEF Arriving
<1>11. Place(c) = "moving" /\ Place(c)' = "served"
  BY <1>6, <1>7, <1>10 DEF Place
<1>12. Moves(c, "moving", "served")
  BY <1>3, <1>6, <1>7, <1>9, <1>11, OneMoves
<1> QED
  BY <1>3, <1>6, <1>12 DEF Follows, Turn

LEMMA SendFdFollows ==
  ASSUME IInv, NEW q \in kernel, NEW s \in Slot(q.ring), SendFd(q, s)
  PROVE  Follows
<1> USE RingFacts
<1>1. PICK e : e = [kind |-> "fd", key |-> q.fd, res |-> s, of |-> q.of]
  OBVIOUS
<1>2. PICK q0 : q0 = [q EXCEPT !.op = "send_task"]
  OBVIOUS
<1>3. PICK w : w = q.ring
  OBVIOUS
<1>4. q \in Request /\ cq \in [Ring -> Seq(Message)]
  BY DEF IInv, TypeOK
<1>5. SendReq(q) /\ w \in Worker /\ s \in Slot(w) /\ Holds(table, Main, q.fd, q.of)
  <2>1. SendReq(q)
    BY DEF SendFd, SendReq
  <2> QED
    BY <1>3, <2>1 DEF IInv, RequestInv, RequestOK
<1>6. /\ Post(w, e) /\ kernel' = (kernel \ {q}) \cup {q0}
      /\ UNCHANGED <<phase, worker, current, undefined>>
  BY <1>1, <1>2, <1>3 DEF SendFd, threadVars
<1>7. SendReq(q0) /\ q0.of = q.of
  BY <1>2, <1>4 DEF SendReq, Request
<1>8. e \in Message /\ e.kind = "fd"
  BY <1>1, <1>4, <1>5, SlotFacts DEF Message, Request
<1>9. \A v \in Worker : \A d : TaskIn(cq'[v], d) <=> TaskIn(cq[v], d)
  <2>1. /\ Messages(cq'[w]) = Messages(cq[w]) \cup {e}
        /\ \A v \in Ring \ {w} : Messages(cq'[v]) = Messages(cq[v])
    BY <1>4, <1>5, <1>6, <1>8, MessagesPosted
  <2> QED
    BY <1>8, <2>1 DEF TaskIn
<1>10. \A d : Sending(kernel', d) <=> Sending(kernel, d)
  BY <1>5, <1>6, <1>7 DEF Sending
<1>11. \A d \in Conn : Moving(d)' <=> Moving(d)
  BY <1>9, <1>10, MovingIs DEF Arriving
<1> QED
  BY <1>6, <1>11, Stays

LEMMA SendTaskFollows ==
  ASSUME IInv, NEW q \in kernel, SendTask(q)
  PROVE  Follows
<1> USE RingFacts
<1>1. PICK e : e = [kind |-> "task", key |-> q.fd, res |-> 0, of |-> q.of]
  OBVIOUS
<1>2. /\ SendReq(q) /\ Post(q.ring, e) /\ kernel' = kernel \ {q}
      /\ UNCHANGED <<phase, worker, current, undefined>>
  BY <1>1 DEF SendTask, SendReq, threadVars
<1>3. q \in Request /\ cq \in [Ring -> Seq(Message)] /\ q.ring \in Worker
  BY <1>2 DEF IInv, TypeOK, RequestInv, RequestOK
<1>4. e \in Message /\ e.kind = "task" /\ e.of = q.of
  BY <1>1, <1>3, SlotFacts DEF Message, Request
<1>5. /\ Messages(cq'[q.ring]) = Messages(cq[q.ring]) \cup {e}
      /\ \A v \in Ring \ {q.ring} : Messages(cq'[v]) = Messages(cq[v])
  BY <1>2, <1>3, <1>4, MessagesPosted
<1>6. \A v \in Worker : \A d \in Conn \ {q.of} : TaskIn(cq'[v], d) <=> TaskIn(cq[v], d)
  BY <1>4, <1>5 DEF TaskIn
<1>7. \A d \in Conn \ {q.of} : Moving(d)' <=> Moving(d)
  BY <1>2, <1>6, MovesKept
<1>8. Moving(q.of)
  BY <1>2, MovingIs DEF Sending
<1>9. Moving(q.of)'
  <2>1. TaskIn(cq'[q.ring], q.of)
    BY <1>4, <1>5 DEF TaskIn
  <2> QED
    BY <1>3, <2>1, MovingIs DEF Arriving
<1>10. \A d \in Conn : Moving(d)' <=> Moving(d)
  BY <1>7, <1>8, <1>9
<1> QED
  BY <1>2, <1>10, Stays

\* The move fails: the request was the only thing under way.
LEMMA SendFdFailsFollows ==
  ASSUME IInv, ~undefined, NEW q \in kernel, SendFdFails(q)
  PROVE  Follows
<1> USE RingFacts
<1>1. PICK c : c = q.of
  OBVIOUS
<1>2. /\ SendReq(q) /\ Post(Main, Stale) /\ kernel' = kernel \ {q}
      /\ UNCHANGED <<phase, worker, current, undefined>>
  BY DEF SendFdFails, SendReq, threadVars
<1>3. c \in Conn /\ cq \in [Ring -> Seq(Message)] /\ phase[c] = "sent"
  BY <1>1, <1>2 DEF IInv, TypeOK, Request, RequestInv, RequestOK
<1>4. Stale \in Message
  BY SlotFacts DEF Stale, Message
<1>5. \A w \in Worker : Messages(cq'[w]) = Messages(cq[w])
  BY <1>2, <1>3, <1>4, MessagesPosted
<1>6. \A w \in Worker : \A d : TaskIn(cq'[w], d) <=> TaskIn(cq[w], d)
  BY <1>5 DEF TaskIn
<1>7. \A d \in Conn \ {c} : Moving(d)' <=> Moving(d)
  BY <1>1, <1>2, <1>6, MovesKept
<1>8. Moving(c)
  BY <1>1, <1>2, MovingIs DEF Sending
<1>9. ~Moving(c)'
  <2>1. ~Arriving(cq', c)
    BY <1>1, <1>2, <1>6 DEF IInv, StageInv, Arriving
  <2>2. ~Sending(kernel', c)
    BY <1>1, <1>2 DEF IInv, StageInv, Sending
  <2> QED
    BY <2>1, <2>2, MovingIs
<1>10. phase' = phase
  BY <1>2
<1>11. Place(c) = "moving" /\ Place(c)' = "lost"
  BY <1>3, <1>8, <1>9, <1>10 DEF Place
<1>12. Moves(c, "moving", "lost")
  BY <1>2, <1>3, <1>7, <1>10, <1>11, OneMoves
<1> QED
  BY <1>2, <1>3, <1>12 DEF Follows, Turn

\* The requests and completions that move no connection.
LEMMA OtherRequestFollows ==
  ASSUME IInv, NEW q \in kernel, ~SendReq(q), kernel' = kernel \ {q},
         \/ cq' = cq
         \/ \E r \in Ring, e \in Message : Post(r, e) /\ e.kind # "task",
         UNCHANGED <<phase, worker, current, undefined>>
  PROVE  Follows
<1> USE RingFacts
<1>1. cq \in [Ring -> Seq(Message)]
  BY DEF IInv, TypeOK
<1>2. \A w \in Worker : \A d : TaskIn(cq'[w], d) <=> TaskIn(cq[w], d)
  <2>1. CASE cq' = cq
    BY <2>1
  <2>2. ASSUME NEW r \in Ring, NEW e \in Message, Post(r, e), e.kind # "task"
        PROVE  \A w \in Worker : \A d : TaskIn(cq'[w], d) <=> TaskIn(cq[w], d)
    <3>1. /\ Messages(cq'[r]) = Messages(cq[r]) \cup {e}
          /\ \A v \in Ring \ {r} : Messages(cq'[v]) = Messages(cq[v])
      BY <1>1, <2>2, MessagesPosted
    <3> QED
      BY <2>2, <3>1 DEF TaskIn
  <2> QED
    BY <2>1, <2>2
<1>3. \A d \in Conn : Moving(d)' <=> Moving(d)
  BY <1>2, MovesKept
<1> QED
  BY <1>3, Stays

LEMMA NotifyFollows ==
  ASSUME IInv, NEW q \in kernel, Notify(q)
  PROVE  Follows
<1>1. PICK e : e = [kind |-> "release", key |-> 0, res |-> q.fd, of |-> q.of]
  OBVIOUS
<1>2. /\ q.op = "notify" /\ Post(Main, e) /\ kernel' = kernel \ {q}
      /\ UNCHANGED <<phase, worker, current, undefined>>
  BY <1>1 DEF Notify, threadVars
<1>3. q \in Request
  BY DEF IInv, TypeOK
<1>4. e \in Message /\ e.kind # "task" /\ Main \in Ring /\ ~SendReq(q)
  BY <1>1, <1>2, <1>3, SlotFacts, RingFacts DEF Message, Request, SendReq
<1> QED
  BY <1>2, <1>4, OtherRequestFollows

LEMMA CloseFollows ==
  ASSUME IInv, NEW q \in kernel, CloseDirect(q) \/ CloseStdin(q)
  PROVE  Follows
<1>1. /\ q.op = "close" /\ kernel' = kernel \ {q}
      /\ UNCHANGED <<phase, worker, current, undefined>>
      /\ cq' = cq \/ Post(q.ring, Stale)
  BY DEF CloseDirect, CloseStdin, threadVars
<1>2. q.ring \in Ring
  BY DEF IInv, TypeOK, Request
<1>3. Stale \in Message /\ Stale.kind # "task" /\ ~SendReq(q)
  BY <1>1, SlotFacts, RingFacts DEF Stale, Message, SendReq
<1> QED
  BY <1>1, <1>2, <1>3, OtherRequestFollows

LEMMA NextFollows == IInv /\ [Next]_vars => Follows
<1> SUFFICES ASSUME IInv, [Next]_vars PROVE Follows
  OBVIOUS
<1>1. ASSUME NEW c \in Conn, NEW s \in Slot(Main), Accept(c, s) PROVE Follows
  BY <1>1, AcceptFollows
<1>2. ASSUME NEW c \in Conn, ParallelSpawn(c) PROVE Follows
  BY <1>2, ParallelSpawnFollows
<1>3. ASSUME NEW c \in Conn, DestroyObject(c) PROVE Follows
  BY <1>3, DestroyObjectFollows
<1>4. ASSUME NEW c \in Conn, DestroyServed(c) PROVE Follows
  BY <1>4, DestroyServedFollows
<1>5. ASSUME NEW q \in kernel, NEW s \in Slot(q.ring), SendFd(q, s) PROVE Follows
  BY <1>5, SendFdFollows
<1>6. ASSUME NEW q \in kernel, ~undefined, SendFdFails(q) PROVE Follows
  BY <1>6, SendFdFailsFollows
<1>7. ASSUME NEW q \in kernel, SendTask(q) PROVE Follows
  BY <1>7, SendTaskFollows
<1>8. ASSUME NEW q \in kernel, Notify(q) PROVE Follows
  BY <1>8, NotifyFollows
<1>9. ASSUME NEW q \in kernel, CloseDirect(q) \/ CloseStdin(q) PROVE Follows
  BY <1>9, CloseFollows
<1>10. CASE HandleRelease
  BY <1>10, HandleReleaseFollows
<1>11. ASSUME NEW w \in Worker, HandleFd(w) PROVE Follows
  BY <1>11, HandleFdFollows
<1>12. ASSUME NEW w \in Worker, HandleTask(w) PROVE Follows
  BY <1>12, HandleTaskFollows
<1>13. ASSUME NEW r \in Ring, HandleStale(r) PROVE Follows
  BY <1>13, HandleStaleFollows
<1>14. CASE UNCHANGED vars
  <2>1. UNCHANGED <<kernel, cq, phase, worker, current, undefined>>
    BY <1>14 DEF vars, threadVars
  <2>2. \A d \in Conn : Moving(d)' <=> Moving(d)
    BY <2>1, MovesKept
  <2> QED
    BY <2>1, <2>2, Stays
<1>18. ASSUME NEW c \in Conn, NEW d \in Conn, Assign(c, d) PROVE Follows
  BY <1>18, AssignFollows
<1>19. ASSUME NEW c \in Conn, NEW d \in Conn, AssignServed(c, d) PROVE Follows
  BY <1>19, AssignServedFollows
<1>15. CASE UserStep
  BY <1>1, <1>2, <1>3, <1>4, <1>15, <1>18, <1>19 DEF UserStep
<1>16. CASE ~undefined /\ KernelStep
  BY <1>5, <1>6, <1>7, <1>8, <1>9, <1>16 DEF KernelStep
<1>17. ASSUME NEW r \in Ring, Handle(r) PROVE Follows
  BY <1>10, <1>11, <1>12, <1>13, <1>17, RingFacts DEF Handle
<1> QED
  BY <1>14, <1>15, <1>16, <1>17 DEF Next

\* Every hand-over is what parallel_spawn promises (context.hpp:130-172): the
\* connection goes to the next worker in turn, is served there once or is lost, and
\* never has two holders.
THEOREM HandOverIsAtomic == SafeSpec => Promise!SafeSpec
<1>1. Init => Promise!Init
  <2> SUFFICES ASSUME Init PROVE Promise!Init
    OBVIOUS
  <2>1. [c \in Conn |-> WhereIs(c)] = [c \in Conn |-> "peer"]
    BY DEF Init, WhereIs
  <2>2. worker = [c \in Conn |-> NWorkers] /\ current = -1 /\ undefined = FALSE
    BY DEF Init, Main
  <2> QED
    BY <2>1, <2>2 DEF Promise!Init
<1>2. (IInv => [c \in Conn |-> WhereIs(c)] = PlaceOf)'
  BY PlaceIs, PTL
<1>3. IInv /\ IInv' /\ [Next]_vars => [Promise!Next]_(Promise!vars)
  <2> SUFFICES ASSUME IInv, IInv', [Next]_vars PROVE [Promise!Next]_(Promise!vars)
    OBVIOUS
  <2>1. [c \in Conn |-> WhereIs(c)] = PlaceOf
    BY PlaceIs
  <2>2. [c \in Conn |-> WhereIs(c)]' = PlaceOf'
    BY <1>2
  <2>3. Follows
    BY NextFollows
  <2>4. ASSUME NEW c \in Conn, Spawns(c) PROVE Promise!Spawn(c)
    BY <2>1, <2>2, <2>4 DEF Spawns, Moves, Turn, Promise!Spawn, Promise!Move
  <2>5. ASSUME NEW c \in Conn, NEW from, NEW to, Moves(c, from, to)
        PROVE  Promise!Move(c, from, to)
    BY <2>1, <2>2, <2>5 DEF Moves, Promise!Move
  <2> QED
    BY <2>1, <2>2, <2>3, <2>4, <2>5
    DEF Follows, Claims, Turn, Promise!Next, Promise!vars, Promise!Accept,
        Promise!Serve, Promise!Lose, Promise!Close, Promise!Overwrite, Promise!Abort
<1> QED
  BY <1>1, <1>3, Inductive, PTL DEF SafeSpec, Promise!SafeSpec
=============================================================================
