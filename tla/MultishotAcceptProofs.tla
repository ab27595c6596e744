------------------------- MODULE MultishotAcceptProofs -------------------------
(***************************************************************************)
(* Proofs about MultishotAccept, for any number of connections, listeners  *)
(* and workers and any sizes of the tables.                                *)
(***************************************************************************)
EXTENDS MultishotAccept, TLAPS

-----------------------------------------------------------------------------
(* The inductive invariant.                                                 *)

\* The completions of the main ring and of a worker, and what is in them.
MessageInv ==
  /\ \A i \in 1 .. Len(cq[Main]) :
       /\ cq[Main][i].kind \in {"accept", "stale"}
       /\ cq[Main][i].kind = "accept" /\ cq[Main][i].res >= 0 =>
            cq[Main][i].res \in Slot(Main) /\ cq[Main][i].of \in Conn
  /\ \A w \in Worker : \A i \in 1 .. Len(cq[w]) :
       /\ cq[w][i].kind \in {"fd", "task"}
       /\ cq[w][i].kind = "fd" =>
            /\ cq[w][i].res \in Slot(w) /\ cq[w][i].res >= 0
            /\ cq[w][i].of \in Conn

\* A chain sends an accepted slot of the main ring to a worker.
RequestInv ==
  \A q \in kernel : q.op # "close" =>
    q.ring \in Worker /\ q.fd \in Slot(Main) /\ q.of \in Conn

\* The task in the static token is that of a listener that has armed, as soon
\* as there is anything to wake it for.
WakeInv ==
  /\ \A l \in Listener \ started : ~pending[l]
  /\ armed \subseteq started
  /\ started # {} => chainTask \in started
  /\ awaiting[Main] # <<>> => started # {}
  /\ \A i \in 1 .. Len(cq[Main]) : cq[Main][i].kind = "accept" => started # {}
  /\ NoAcceptForgotten

\* Where connection c is accounted for, until its slot has been sent.
IsAccepted(e) == e.kind = "accept" /\ e.res >= 0
InBatch(c)  == \E i \in 1 .. Len(cq[Main]) : IsAccepted(cq[Main][i]) /\ cq[Main][i].of = c
Unsent(c)   == \E i \in 1 .. Len(awaiting[Main]) : awaiting[Main][i].of = c
InChain(c)  == \E q \in kernel : q.op # "close" /\ q.of = c

\* A connection is in one of these places, and there once.
OnceInv ==
  /\ \A i, j \in 1 .. Len(awaiting[Main]) :
       awaiting[Main][i].of = awaiting[Main][j].of => i = j
  /\ \A i, j \in 1 .. Len(cq[Main]) :
       /\ IsAccepted(cq[Main][i]) /\ IsAccepted(cq[Main][j])
       /\ cq[Main][i].of = cq[Main][j].of
       => i = j
  /\ \A p, q \in kernel :
       p.op # "close" /\ q.op # "close" /\ p.of = q.of => p = q
  /\ \A c \in peers : ~InBatch(c) /\ ~Unsent(c) /\ ~InChain(c)
  /\ \A c \in Conn :
       /\ InBatch(c) => ~Unsent(c) /\ ~InChain(c)
       /\ Unsent(c) => ~InChain(c)

\* The slot of c has reached worker w: before the i-th completion of w, or in
\* the list already.
FdBefore(c, w, i) ==
  \/ \E j \in 1 .. i - 1 : cq[w][j].kind = "fd" /\ cq[w][j].of = c
  \/ \E j \in 1 .. Len(awaiting[w]) : awaiting[w][j].of = c

\* A task is sent after its slot.
OrderInv ==
  /\ \A w \in Worker : \A i \in 1 .. Len(cq[w]) :
       cq[w][i].kind = "task" => FdBefore(cq[w][i].of, w, i)
  /\ \A q \in kernel : q.op = "send_task" =>
       FdBefore(q.of, q.ring, Len(cq[q.ring]) + 1)

IInv == TypeOK /\ MessageInv /\ RequestInv /\ WakeInv /\ OnceInv /\ OrderInv

-----------------------------------------------------------------------------
(* Rings, slots and queues.                                                 *)

LEMMA SizeFacts ==
  /\ NWorkers \in Nat \ {0} /\ MainSlots \in Nat \ {0} /\ WorkerSlots \in Nat \ {0}
  /\ SqEntries \in Nat \ {0}
  BY SizeAssumption

LEMMA RingFacts ==
  /\ Main \in Ring /\ Worker \subseteq Ring /\ Main \notin Worker
  /\ Ring = Worker \cup {Main}
  BY SizeFacts, SMT DEF Main, Worker, Ring

LEMMA SlotFacts ==
  ASSUME NEW r \in Ring
  PROVE  /\ Slot(r) \subseteq Fd /\ -1 \in Fd /\ -1 \notin Slot(r)
         /\ \A s \in Slot(r) : s >= 0
         /\ Fd \subseteq Int /\ Slot(r) \subseteq Int
  BY SizeFacts, SMT DEF Slot, Fd, Ring, Worker, Main

LEMMA PostFacts ==
  ASSUME cq \in [Ring -> Seq(Message)], NEW r \in Ring, NEW e \in Message,
         Post(r, e)
  PROVE  /\ cq' \in [Ring -> Seq(Message)]
         /\ Len(cq'[r]) = Len(cq[r]) + 1
         /\ cq'[r][Len(cq[r]) + 1] = e
         /\ \A i \in 1 .. Len(cq[r]) : cq'[r][i] = cq[r][i]
         /\ \A s \in Ring \ {r} : cq'[s] = cq[s]
  BY DEF Post

LEMMA HandledFacts ==
  ASSUME cq \in [Ring -> Seq(Message)], NEW r \in Ring, cq[r] # <<>>, Handled(r)
  PROVE  /\ cq' \in [Ring -> Seq(Message)]
         /\ First(r) \in Message /\ First(r) = cq[r][1] /\ 1 \in 1 .. Len(cq[r])
         /\ Len(cq'[r]) = Len(cq[r]) - 1
         /\ \A i \in 1 .. Len(cq'[r]) :
              cq'[r][i] = cq[r][i + 1] /\ i + 1 \in 1 .. Len(cq[r])
         /\ \A s \in Ring \ {r} : cq'[s] = cq[s]
  BY DEF Handled, First

\* pick_worker picks a worker.
LEMMA TurnIsWorker ==
  ASSUME NEW x \in Nat
  PROVE  x % NWorkers \in Worker
  BY SizeFacts, SMT DEF Worker

LEMMA FreeFacts ==
  ASSUME NEW r \in Ring, NEW s \in Free(r)
  PROVE  s \in Slot(r) /\ table[r][s] = NoConn
  BY DEF Free

\* OrderInv survives a step that leaves the queues and lists of the workers and
\* sends no task.
LEMMA OrderKept ==
  ASSUME RequestInv, OrderInv,
         \A w \in Worker : cq'[w] = cq[w] /\ awaiting'[w] = awaiting[w],
         \A q \in kernel' : q.op = "send_task" => q \in kernel
  PROVE  OrderInv'
<1>1. \A c, i : \A w \in Worker : FdBefore(c, w, i)' <=> FdBefore(c, w, i)
  BY DEF FdBefore
<1>2. \A q \in kernel' : q.op = "send_task" => q.ring \in Worker
  BY DEF RequestInv
<1> QED
  BY <1>1, <1>2 DEF OrderInv

LEMMA InitIInv == Init => IInv
<1> SUFFICES ASSUME Init PROVE IInv
  OBVIOUS
<1>1. TypeOK
  <2>1. /\ DOMAIN table = Ring
        /\ \A r \in Ring : table[r] \in [Slot(r) -> Conn \cup {NoConn}]
    BY DEF Init
  <2>2. awaiting \in [Ring -> Seq(Entry)] /\ cq \in [Ring -> Seq(Message)]
    BY DEF Init
  <2>3. \A r \in Ring : awaiting[r] = <<>>
    BY DEF Init
  <2>4. tasks \in [Worker -> Seq(Entry)]
    BY DEF Init
  <2>5. pending \in [Listener -> BOOLEAN]
    BY DEF Init
  <2>6. /\ peers \subseteq Conn /\ armed \subseteq Listener /\ ended \in BOOLEAN
        /\ started \subseteq Listener /\ chainTask \in Listener \cup {NoListener}
        /\ current \in {-1} \cup Worker /\ kernel \subseteq Request
    BY DEF Init
  <2>7. \A r \in Ring : \A i \in 1 .. Len(awaiting[r]) : awaiting[r][i].fd \in Slot(r)
    BY <2>3
  <2> QED
    BY <2>1, <2>2, <2>4, <2>5, <2>6, <2>7 DEF TypeOK
<1>2. \A r \in Ring : cq[r] = <<>> /\ awaiting[r] = <<>>
  BY DEF Init
<1>3. MessageInv
  BY <1>2, RingFacts DEF MessageInv
<1>4. RequestInv
  BY DEF Init, RequestInv
<1>5. WakeInv
  BY <1>2, RingFacts DEF Init, WakeInv, NoAcceptForgotten
<1>6. OnceInv
  BY <1>2, RingFacts DEF Init, OnceInv, InBatch, Unsent, InChain
<1>7. OrderInv
  BY <1>2, RingFacts DEF Init, OrderInv
<1> QED
  BY <1>1, <1>3, <1>4, <1>5, <1>6, <1>7 DEF IInv

-----------------------------------------------------------------------------
(* The listeners.                                                           *)

LEMMA ArmStep ==
  ASSUME IInv, NEW l \in Listener, Arm(l)
  PROVE  IInv'
<1>1. TypeOK'
  BY DEF IInv, TypeOK, Arm
<1>2. MessageInv' /\ RequestInv'
  BY DEF IInv, Arm, MessageInv, RequestInv
<1>3. WakeInv'
  BY DEF IInv, Arm, WakeInv, NoAcceptForgotten
<1>4. OnceInv'
  BY DEF IInv, Arm, OnceInv, InBatch, Unsent, InChain
<1>5. OrderInv'
  BY OrderKept DEF IInv, Arm
<1> QED
  BY <1>1, <1>2, <1>3, <1>4, <1>5 DEF IInv

LEMMA SendAcceptedStep ==
  ASSUME IInv, NEW l \in Listener, SendAccepted(l)
  PROVE  IInv'
<1> DEFINE n == Len(awaiting[Main])
<1> USE RingFacts
<1>1. n \in Nat /\ current \in Int /\ current >= -1
  BY SMT DEF IInv, TypeOK, Worker
<1>2. \A i \in 1 .. n :
        /\ Chain(i, l) \in Request
        /\ Chain(i, l).op = "send_fd"
        /\ Chain(i, l).ring \in Worker
        /\ Chain(i, l).fd \in Slot(Main)
        /\ Chain(i, l).of = awaiting[Main][i].of
        /\ Chain(i, l).of \in Conn
  <2> SUFFICES ASSUME NEW i \in 1 .. n
               PROVE  /\ Chain(i, l) \in Request
                      /\ Chain(i, l).op = "send_fd"
                      /\ Chain(i, l).ring \in Worker
                      /\ Chain(i, l).fd \in Slot(Main)
                      /\ Chain(i, l).of = awaiting[Main][i].of
                      /\ Chain(i, l).of \in Conn
    OBVIOUS
  <2>1. current + i \in Nat
    BY <1>1, SMT
  <2>2. (current + i) % NWorkers \in Worker
    BY <2>1, TurnIsWorker
  <2>3. /\ awaiting[Main][i].fd \in Slot(Main)
        /\ awaiting[Main][i].fd \in Fd
        /\ awaiting[Main][i].of \in Conn
    <3>1. awaiting[Main][i] \in Entry
      BY DEF IInv, TypeOK
    <3>2. awaiting[Main][i].fd \in Slot(Main)
      BY DEF IInv, TypeOK
    <3> QED
      BY <3>1, <3>2 DEF Entry
  <2> QED
    BY <2>2, <2>3 DEF Chain, Request
<1>3. /\ kernel' = kernel \cup {Chain(i, l) : i \in 1 .. n}
      /\ awaiting' = [awaiting EXCEPT ![Main] = <<>>]
      /\ cq' = cq /\ peers' = peers
  BY DEF SendAccepted, AfterSending, acceptVars
<1>4. current' \in {-1} \cup Worker
  <2>1. CASE n = 0
    BY <2>1 DEF SendAccepted, TurnAfter, IInv, TypeOK
  <2>2. CASE n # 0
    <3>1. current + n \in Nat
      BY <1>1, <2>2, SMT
    <3>2. (current + n) % NWorkers \in Worker
      BY <3>1, TurnIsWorker
    <3> QED
      BY <2>2, <3>2 DEF SendAccepted, TurnAfter
  <2> QED
    BY <2>1, <2>2
<1> HIDE DEF n
<1>5. TypeOK'
  <2>1. awaiting' \in [Ring -> Seq(Entry)]
    BY <1>3 DEF IInv, TypeOK
  <2>2. \A r \in Ring : \A i \in 1 .. Len(awaiting'[r]) : awaiting'[r][i].fd \in Slot(r)
    BY <1>3 DEF IInv, TypeOK
  <2>3. kernel' \subseteq Request
    BY <1>2, <1>3 DEF IInv, TypeOK
  <2>4. pending' \in [Listener -> BOOLEAN]
    BY DEF IInv, TypeOK, SendAccepted
  <2> QED
    BY <1>4, <2>1, <2>2, <2>3, <2>4 DEF IInv, TypeOK, SendAccepted, acceptVars
<1>6. MessageInv'
  BY <1>3 DEF IInv, MessageInv
<1>7. RequestInv'
  BY <1>2, <1>3 DEF IInv, RequestInv
<1>8. awaiting'[Main] = <<>>
  BY <1>3 DEF IInv, TypeOK
<1>9. WakeInv'
  BY <1>3, <1>8 DEF IInv, TypeOK, WakeInv, NoAcceptForgotten, SendAccepted, Resumed,
                    acceptVars
<1>10. OnceInv'
  <2>1. \A c : InBatch(c)' <=> InBatch(c)
    BY <1>3 DEF InBatch
  <2>2. \A c : ~Unsent(c)'
    BY <1>8 DEF Unsent
  <2>3. \A c : InChain(c)' => InChain(c) \/ Unsent(c)
    BY <1>2, <1>3 DEF InChain, Unsent, n
  <2>4. ASSUME NEW p \in kernel', NEW q \in kernel', p.op # "close", q.op # "close",
               p.of = q.of
        PROVE  p = q
    <3>1. \A i \in 1 .. n : Unsent(Chain(i, l).of) /\ ~InChain(Chain(i, l).of)
      BY <1>2 DEF Unsent, n, IInv, OnceInv
    <3>2. \A r \in kernel : r.op # "close" => InChain(r.of)
      BY DEF InChain
    <3>3. \A i, j \in 1 .. n : Chain(i, l).of = Chain(j, l).of => i = j
      BY <1>2 DEF IInv, OnceInv, n
    <3> QED
      BY <1>3, <2>4, <3>1, <3>2, <3>3 DEF IInv, OnceInv
  <2>5. \A c \in peers : ~InBatch(c) /\ ~Unsent(c) /\ ~InChain(c)
    BY DEF IInv, OnceInv
  <2> QED
    BY <1>3, <1>8, <2>1, <2>2, <2>3, <2>4, <2>5 DEF IInv, OnceInv
<1>11. OrderInv'
  <2>1. \A q \in kernel' : q.op = "send_task" => q \in kernel
    BY <1>2, <1>3
  <2>2. \A w \in Worker : cq'[w] = cq[w] /\ awaiting'[w] = awaiting[w]
    BY <1>3 DEF IInv, TypeOK
  <2> QED
    BY <2>1, <2>2, OrderKept DEF IInv
<1> QED
  BY <1>5, <1>6, <1>7, <1>9, <1>10, <1>11 DEF IInv

LEMMA SendAcceptedNoSqeStep ==
  ASSUME IInv, NEW l \in Listener, SendAcceptedNoSqe(l)
  PROVE  IInv'
<1> USE DEF SendAcceptedNoSqe, acceptVars, threadVars
<1>1. TypeOK'
  BY DEF IInv, TypeOK
<1>2. MessageInv' /\ RequestInv' /\ WakeInv'
  BY DEF IInv, MessageInv, RequestInv, WakeInv, NoAcceptForgotten
<1>3. OnceInv' /\ OrderInv'
  BY DEF IInv, OnceInv, InBatch, Unsent, InChain, OrderInv, FdBefore
<1> QED
  BY <1>1, <1>2, <1>3 DEF IInv

-----------------------------------------------------------------------------
(* The handlers.                                                            *)

\* A slot that a completion names is put into the list of its ring.
LEMMA PushFacts ==
  ASSUME awaiting \in [Ring -> Seq(Entry)], NEW r \in Ring, First(r) \in Message,
         \A i \in 1 .. Len(awaiting[r]) : awaiting[r][i].fd \in Slot(r),
         First(r).res >= 0 => First(r).res \in Slot(r) /\ First(r).of \in Conn,
         PushIfSlot(r)
  PROVE  /\ awaiting' \in [Ring -> Seq(Entry)]
         /\ \A s \in Ring \ {r} : awaiting'[s] = awaiting[s]
         /\ \A i \in 1 .. Len(awaiting'[r]) : awaiting'[r][i].fd \in Slot(r)
         /\ IF First(r).res >= 0
            THEN /\ Len(awaiting'[r]) = Len(awaiting[r]) + 1
                 /\ \A i \in 1 .. Len(awaiting[r]) : awaiting'[r][i] = awaiting[r][i]
                 /\ awaiting'[r][Len(awaiting[r]) + 1].of = First(r).of
            ELSE awaiting'[r] = awaiting[r]
<1> DEFINE e == [fd |-> First(r).res, of |-> First(r).of]
<1>1. First(r).res >= 0 => e \in Entry /\ e.fd \in Slot(r) /\ e.of = First(r).of
  BY SlotFacts DEF Entry
<1>2. awaiting' = [awaiting EXCEPT ![r] = IF First(r).res >= 0 THEN Append(awaiting[r], e)
                                          ELSE awaiting[r]]
  BY DEF PushIfSlot, IsSlot
<1> HIDE DEF e
<1>3. CASE First(r).res >= 0
  BY <1>1, <1>2, <1>3
<1>4. CASE ~(First(r).res >= 0)
  BY <1>2, <1>4
<1> QED
  BY <1>3, <1>4

\* MessageInv survives the handling of a completion by any ring.
LEMMA MessagesHandled ==
  ASSUME MessageInv, cq \in [Ring -> Seq(Message)], NEW r \in Ring, cq[r] # <<>>,
         Handled(r)
  PROVE  MessageInv'
<1> USE RingFacts
<1>1. /\ \A i \in 1 .. Len(cq'[r]) :
           cq'[r][i] = cq[r][i + 1] /\ i + 1 \in 1 .. Len(cq[r])
      /\ \A s \in Ring \ {r} : cq'[s] = cq[s]
  BY HandledFacts
<1>2. CASE r = Main
  <2>1. \A i \in 1 .. Len(cq'[Main]) :
          /\ cq'[Main][i].kind \in {"accept", "stale"}
          /\ cq'[Main][i].kind = "accept" /\ cq'[Main][i].res >= 0 =>
               cq'[Main][i].res \in Slot(Main) /\ cq'[Main][i].of \in Conn
    BY <1>1, <1>2 DEF MessageInv
  <2>2. \A w \in Worker : cq'[w] = cq[w]
    BY <1>1, <1>2
  <2> QED
    BY <2>1, <2>2 DEF MessageInv
<1>3. CASE r \in Worker
  <2>1. ASSUME NEW w \in Worker, NEW i \in 1 .. Len(cq'[w])
        PROVE  /\ cq'[w][i].kind \in {"fd", "task"}
               /\ cq'[w][i].kind = "fd" =>
                    /\ cq'[w][i].res \in Slot(w) /\ cq'[w][i].res >= 0
                    /\ cq'[w][i].of \in Conn
    <3>1. CASE w = r
      BY <1>1, <3>1 DEF MessageInv
    <3>2. CASE w # r
      BY <1>1, <3>2 DEF MessageInv
    <3> QED
      BY <3>1, <3>2
  <2>2. cq'[Main] = cq[Main]
    BY <1>1, <1>3
  <2> QED
    BY <2>1, <2>2 DEF MessageInv
<1> QED
  BY <1>2, <1>3

LEMMA HandleAcceptStep ==
  ASSUME IInv, HandleAccept
  PROVE  IInv'
<1> USE RingFacts
<1>0. PICK c : c = First(Main).of
  OBVIOUS
<1>1. /\ cq \in [Ring -> Seq(Message)] /\ cq[Main] # <<>> /\ Handled(Main)
      /\ PushIfSlot(Main) /\ First(Main).kind = "accept"
      /\ UNCHANGED <<table, acceptVars, kernel, ended, started, chainTask, current, tasks>>
  BY DEF HandleAccept, Ready, IInv, TypeOK
<1>2. /\ cq' \in [Ring -> Seq(Message)]
      /\ First(Main) \in Message /\ First(Main) = cq[Main][1] /\ 1 \in 1 .. Len(cq[Main])
      /\ Len(cq'[Main]) = Len(cq[Main]) - 1
      /\ \A i \in 1 .. Len(cq'[Main]) :
           cq'[Main][i] = cq[Main][i + 1] /\ i + 1 \in 1 .. Len(cq[Main])
      /\ \A s \in Ring \ {Main} : cq'[s] = cq[s]
  BY <1>1, HandledFacts
<1>3. First(Main).res >= 0 => First(Main).res \in Slot(Main) /\ First(Main).of \in Conn
  BY <1>1, <1>2 DEF IInv, MessageInv
<1>4. /\ awaiting' \in [Ring -> Seq(Entry)]
      /\ \A s \in Ring \ {Main} : awaiting'[s] = awaiting[s]
      /\ \A i \in 1 .. Len(awaiting'[Main]) : awaiting'[Main][i].fd \in Slot(Main)
      /\ IF First(Main).res >= 0
         THEN /\ Len(awaiting'[Main]) = Len(awaiting[Main]) + 1
              /\ \A i \in 1 .. Len(awaiting[Main]) : awaiting'[Main][i] = awaiting[Main][i]
              /\ awaiting'[Main][Len(awaiting[Main]) + 1].of = c
         ELSE awaiting'[Main] = awaiting[Main]
  BY <1>0, <1>1, <1>2, <1>3, PushFacts DEF IInv, TypeOK
<1>5. started # {} /\ chainTask \in started /\ chainTask \in Listener
  BY <1>1, <1>2 DEF IInv, WakeInv, TypeOK
<1>6. pending' = [pending EXCEPT ![chainTask] = FALSE]
  BY DEF HandleAccept, PendingAfterAccept
<1>7. TypeOK'
  <2>1. pending' \in [Listener -> BOOLEAN]
    BY <1>6 DEF IInv, TypeOK
  <2>2. \A r \in Ring : \A i \in 1 .. Len(awaiting'[r]) : awaiting'[r][i].fd \in Slot(r)
    BY <1>4 DEF IInv, TypeOK
  <2> QED
    BY <1>1, <1>2, <1>4, <2>1, <2>2 DEF IInv, TypeOK, acceptVars
<1>8. MessageInv'
  BY <1>1, MessagesHandled DEF IInv
<1>9. RequestInv'
  BY <1>1 DEF IInv, RequestInv
<1>10. WakeInv'
  <2>1. \A l \in Listener \ started : ~pending'[l]
    BY <1>6 DEF IInv, TypeOK, WakeInv
  <2>2. ~pending'[chainTask]
    BY <1>5, <1>6 DEF IInv, TypeOK
  <2> QED
    BY <1>1, <1>5, <2>1, <2>2 DEF IInv, WakeInv, NoAcceptForgotten, acceptVars
<1>11. OnceInv'
  <2>1. \A d : InChain(d)' <=> InChain(d)
    BY <1>1 DEF InChain
  <2>2. \A d : InBatch(d)' => InBatch(d)
    BY <1>2 DEF InBatch
  <2>3. \A i, j \in 1 .. Len(cq'[Main]) :
          /\ IsAccepted(cq'[Main][i]) /\ IsAccepted(cq'[Main][j])
          /\ cq'[Main][i].of = cq'[Main][j].of
          => i = j
    BY <1>2 DEF IInv, OnceInv
  <2>4. CASE First(Main).res >= 0
    <3>1. InBatch(c) /\ c \in Conn
      BY <1>0, <1>1, <1>2, <1>3, <2>4 DEF InBatch, IsAccepted
    <3>2. ~InBatch(c)'
      <4> SUFFICES ASSUME NEW i \in 1 .. Len(cq'[Main]), IsAccepted(cq'[Main][i]),
                          cq'[Main][i].of = c
                   PROVE  FALSE
        BY DEF InBatch
      <4>1. IsAccepted(cq[Main][1]) /\ cq[Main][1].of = c
        BY <1>0, <1>1, <1>2, <2>4 DEF IsAccepted
      <4>2. /\ i + 1 \in 1 .. Len(cq[Main]) /\ IsAccepted(cq[Main][i + 1])
            /\ cq[Main][i + 1].of = cq[Main][1].of
        BY <1>2, <4>1
      <4>3. i + 1 = 1
        BY <1>2, <4>1, <4>2 DEF IInv, OnceInv
      <4> QED
        BY <4>3
    <3>3. \A d : Unsent(d)' => Unsent(d) \/ d = c
      <4>1. Len(awaiting[Main]) \in Nat
        BY DEF IInv, TypeOK
      <4>2. ASSUME NEW i \in 1 .. Len(awaiting'[Main])
            PROVE  \/ i \in 1 .. Len(awaiting[Main]) /\ awaiting'[Main][i] = awaiting[Main][i]
                   \/ awaiting'[Main][i].of = c
        BY <1>4, <2>4, <4>1
      <4> QED
        BY <4>2 DEF Unsent
    <3>4. ~Unsent(c) /\ ~InChain(c) /\ c \notin peers
      BY <3>1 DEF IInv, OnceInv
    <3>5. \A i, j \in 1 .. Len(awaiting'[Main]) :
            awaiting'[Main][i].of = awaiting'[Main][j].of => i = j
      <4>1. \A i \in 1 .. Len(awaiting[Main]) : awaiting[Main][i].of # c
        BY <3>4 DEF Unsent
      <4>2. Len(awaiting[Main]) \in Nat
        BY DEF IInv, TypeOK
      <4> QED
        BY <1>4, <2>4, <4>1, <4>2 DEF IInv, OnceInv
    <3> QED
      BY <1>1, <2>1, <2>2, <2>3, <3>2, <3>3, <3>4, <3>5
      DEF IInv, OnceInv, acceptVars
  <2>5. CASE ~(First(Main).res >= 0)
    <3>1. awaiting'[Main] = awaiting[Main] /\ peers' = peers /\ kernel' = kernel
      BY <1>1, <1>4, <2>5 DEF acceptVars
    <3>2. \A d : Unsent(d)' <=> Unsent(d)
      BY <3>1 DEF Unsent
    <3> QED
      BY <2>1, <2>2, <2>3, <3>1, <3>2 DEF IInv, OnceInv
  <2> QED
    BY <2>4, <2>5
<1>12. OrderInv'
  BY <1>1, <1>2, <1>4, OrderKept DEF IInv
<1> QED
  BY <1>7, <1>8, <1>9, <1>10, <1>11, <1>12 DEF IInv

LEMMA HandleStaleStep ==
  ASSUME IInv, HandleStale
  PROVE  IInv'
<1> USE RingFacts
<1>1. /\ cq \in [Ring -> Seq(Message)] /\ cq[Main] # <<>> /\ Handled(Main)
      /\ ended' \in BOOLEAN
      /\ UNCHANGED <<table, acceptVars, kernel, threadVars>>
  BY DEF HandleStale, Ready, IInv, TypeOK
<1>2. /\ cq' \in [Ring -> Seq(Message)]
      /\ Len(cq'[Main]) = Len(cq[Main]) - 1
      /\ \A i \in 1 .. Len(cq'[Main]) :
           cq'[Main][i] = cq[Main][i + 1] /\ i + 1 \in 1 .. Len(cq[Main])
      /\ \A s \in Ring \ {Main} : cq'[s] = cq[s]
  BY <1>1, HandledFacts
<1>3. TypeOK'
  BY <1>1, <1>2 DEF IInv, TypeOK, acceptVars, threadVars
<1>4. MessageInv' /\ RequestInv'
  <2>1. MessageInv'
    BY <1>1, MessagesHandled DEF IInv
  <2>2. RequestInv'
    BY <1>1 DEF IInv, RequestInv
  <2> QED
    BY <2>1, <2>2
<1>5. WakeInv'
  BY <1>1, <1>2 DEF IInv, WakeInv, NoAcceptForgotten, acceptVars, threadVars
<1>6. OnceInv'
  <2>1. \A d : (InBatch(d)' => InBatch(d)) /\ (Unsent(d)' <=> Unsent(d))
               /\ (InChain(d)' <=> InChain(d))
    BY <1>1, <1>2 DEF InBatch, Unsent, InChain, threadVars
  <2>2. \A i, j \in 1 .. Len(cq'[Main]) :
          /\ IsAccepted(cq'[Main][i]) /\ IsAccepted(cq'[Main][j])
          /\ cq'[Main][i].of = cq'[Main][j].of
          => i = j
    BY <1>2 DEF IInv, OnceInv
  <2> QED
    BY <1>1, <2>1, <2>2 DEF IInv, OnceInv, acceptVars, threadVars
<1>7. OrderInv'
  BY <1>1, <1>2, OrderKept DEF IInv, threadVars
<1> QED
  BY <1>3, <1>4, <1>5, <1>6, <1>7 DEF IInv

\* What the main ring holds does not change, and kernel gets closes only.
LEMMA OnceKept ==
  ASSUME OnceInv, peers' = peers, cq'[Main] = cq[Main],
         awaiting'[Main] = awaiting[Main],
         \A q \in kernel' : q.op # "close" => q \in kernel
  PROVE  OnceInv'
<1>1. \A d : /\ InBatch(d)' <=> InBatch(d)
             /\ Unsent(d)' <=> Unsent(d)
             /\ InChain(d)' => InChain(d)
  BY DEF InBatch, Unsent, InChain
<1> QED
  BY <1>1 DEF OnceInv

\* A worker handles its first completion; if that named the slot of c, the slot
\* is in the list now.
LEMMA FdStays ==
  ASSUME cq \in [Ring -> Seq(Message)], awaiting \in [Ring -> Seq(Entry)],
         awaiting' \in [Ring -> Seq(Entry)],
         NEW w \in Worker, cq[w] # <<>>, Handled(w),
         Len(awaiting[w]) <= Len(awaiting'[w]),
         \A j \in 1 .. Len(awaiting[w]) : awaiting'[w][j] = awaiting[w][j],
         First(w).kind = "fd" =>
           \E j \in 1 .. Len(awaiting'[w]) : awaiting'[w][j].of = First(w).of,
         NEW c, NEW i \in 0 .. Len(cq[w]), FdBefore(c, w, i + 1)
  PROVE  FdBefore(c, w, i)'
<1> USE RingFacts
<1>1. /\ First(w) = cq[w][1] /\ Len(cq'[w]) = Len(cq[w]) - 1
      /\ \A j \in 1 .. Len(cq'[w]) : cq'[w][j] = cq[w][j + 1]
  BY HandledFacts
<1>2. Len(cq[w]) \in Nat /\ Len(awaiting[w]) \in Nat /\ Len(awaiting'[w]) \in Nat
  OBVIOUS
<1>3. CASE \E j \in 1 .. Len(awaiting[w]) : awaiting[w][j].of = c
  <2>1. PICK j \in 1 .. Len(awaiting[w]) : awaiting[w][j].of = c
    BY <1>3
  <2>2. j \in 1 .. Len(awaiting'[w]) /\ awaiting'[w][j].of = c
    BY <1>2, <2>1
  <2> QED
    BY <2>2 DEF FdBefore
<1>4. CASE \E j \in 1 .. i : cq[w][j].kind = "fd" /\ cq[w][j].of = c
  <2>1. PICK j \in 1 .. i : cq[w][j].kind = "fd" /\ cq[w][j].of = c
    BY <1>4
  <2>2. CASE j = 1
    BY <1>1, <2>1, <2>2 DEF FdBefore
  <2>3. CASE j # 1
    <3>1. j - 1 \in 1 .. i - 1 /\ j - 1 \in 1 .. Len(cq'[w]) /\ (j - 1) + 1 = j
      BY <1>1, <1>2, <2>1, <2>3, SMT
    <3>2. cq'[w][j - 1].kind = "fd" /\ cq'[w][j - 1].of = c
      BY <1>1, <2>1, <3>1
    <3> QED
      BY <3>1, <3>2 DEF FdBefore
  <2> QED
    BY <2>2, <2>3
<1> QED
  BY <1>3, <1>4 DEF FdBefore

\* OrderInv survives the handling of a completion by worker w.
LEMMA OrderHandled ==
  ASSUME RequestInv, OrderInv,
         cq \in [Ring -> Seq(Message)], awaiting \in [Ring -> Seq(Entry)],
         awaiting' \in [Ring -> Seq(Entry)],
         NEW w \in Worker, cq[w] # <<>>, Handled(w),
         Len(awaiting[w]) <= Len(awaiting'[w]),
         \A j \in 1 .. Len(awaiting[w]) : awaiting'[w][j] = awaiting[w][j],
         \A r \in Ring \ {w} : awaiting'[r] = awaiting[r],
         First(w).kind = "fd" =>
           \E j \in 1 .. Len(awaiting'[w]) : awaiting'[w][j].of = First(w).of,
         \A q \in kernel' : q.op = "send_task" => q \in kernel
  PROVE  OrderInv'
<1> USE RingFacts
<1>1. /\ Len(cq[w]) \in Nat /\ Len(cq'[w]) = Len(cq[w]) - 1
      /\ \A i \in 1 .. Len(cq'[w]) :
           cq'[w][i] = cq[w][i + 1] /\ i + 1 \in 1 .. Len(cq[w])
      /\ \A v \in Worker \ {w} : cq'[v] = cq[v] /\ awaiting'[v] = awaiting[v]
  BY HandledFacts
<1>2. \A c, i : \A v \in Worker \ {w} : FdBefore(c, v, i)' <=> FdBefore(c, v, i)
  BY <1>1 DEF FdBefore
<1>3. \A c : \A i \in 0 .. Len(cq[w]) : FdBefore(c, w, i + 1) => FdBefore(c, w, i)'
  BY FdStays
<1>4. ASSUME NEW v \in Worker, NEW i \in 1 .. Len(cq'[v]), cq'[v][i].kind = "task",
             NEW c, c = cq'[v][i].of
      PROVE  FdBefore(c, v, i)'
  <2>1. CASE v = w
    <3>1. cq[w][i + 1].kind = "task" /\ cq[w][i + 1].of = c /\ i + 1 \in 1 .. Len(cq[w])
      BY <1>1, <1>4, <2>1
    <3>2. FdBefore(c, w, i + 1)
      BY <3>1 DEF OrderInv
    <3>3. i \in 0 .. Len(cq[w])
      BY <1>1, <2>1, SMT
    <3> QED
      BY <1>3, <2>1, <3>2, <3>3
  <2>2. CASE v # w
    <3>1. cq[v][i].kind = "task" /\ cq[v][i].of = c /\ i \in 1 .. Len(cq[v])
      BY <1>1, <1>4, <2>2
    <3>2. FdBefore(c, v, i)
      BY <3>1 DEF OrderInv
    <3> QED
      BY <1>2, <2>2, <3>2
  <2> QED
    BY <2>1, <2>2
<1>5. ASSUME NEW q \in kernel', q.op = "send_task", NEW i, i = Len(cq'[q.ring]) + 1
      PROVE  FdBefore(q.of, q.ring, i)'
  <2>1. q \in kernel /\ q.ring \in Worker /\ FdBefore(q.of, q.ring, Len(cq[q.ring]) + 1)
    BY <1>5 DEF OrderInv, RequestInv
  <2>2. CASE q.ring = w
    <3>1. i = Len(cq[w]) /\ i \in 0 .. Len(cq[w])
      BY <1>1, <1>5, <2>2
    <3> QED
      BY <1>3, <2>1, <2>2, <3>1
  <2>3. CASE q.ring # w
    <3>1. i = Len(cq[q.ring]) + 1
      BY <1>1, <1>5, <2>1, <2>3
    <3> QED
      BY <1>2, <2>1, <2>3, <3>1
  <2> QED
    BY <2>2, <2>3
<1>6. \A v \in Worker : \A i \in 1 .. Len(cq'[v]) :
        cq'[v][i].kind = "task" => FdBefore(cq[v][i].of, v, i)'
  <2> SUFFICES ASSUME NEW v \in Worker, NEW i \in 1 .. Len(cq'[v]),
                      cq'[v][i].kind = "task"
               PROVE  FdBefore(cq[v][i].of, v, i)'
    OBVIOUS
  <2>1. PICK c : c = cq'[v][i].of
    OBVIOUS
  <2>2. FdBefore(c, v, i)'
    BY <1>4, <2>1
  <2> QED
    BY <2>1, <2>2 DEF FdBefore
<1>7. \A q \in kernel' : q.op = "send_task" =>
        FdBefore(q.of, q.ring, Len(cq[q.ring]) + 1)'
  BY <1>5 DEF FdBefore
<1> QED
  BY <1>6, <1>7 DEF OrderInv

LEMMA HandleFdStep ==
  ASSUME IInv, NEW w \in Worker, HandleFd(w)
  PROVE  IInv'
<1> USE RingFacts
<1>0. w \in Ring /\ w # Main
  OBVIOUS
<1>1. /\ cq \in [Ring -> Seq(Message)] /\ cq[w] # <<>> /\ Handled(w)
      /\ PushIfSlot(w) /\ First(w).kind = "fd"
      /\ UNCHANGED <<table, acceptVars, kernel, ended, started, pending, chainTask,
                     current, tasks>>
  BY DEF HandleFd, Ready, IInv, TypeOK
<1>2. /\ cq' \in [Ring -> Seq(Message)]
      /\ First(w) \in Message /\ First(w) = cq[w][1] /\ 1 \in 1 .. Len(cq[w])
      /\ Len(cq'[w]) = Len(cq[w]) - 1
      /\ \A i \in 1 .. Len(cq'[w]) :
           cq'[w][i] = cq[w][i + 1] /\ i + 1 \in 1 .. Len(cq[w])
      /\ \A s \in Ring \ {w} : cq'[s] = cq[s]
  BY <1>0, <1>1, HandledFacts
<1>3. First(w).res \in Slot(w) /\ First(w).res >= 0 /\ First(w).of \in Conn
  BY <1>1, <1>2 DEF IInv, MessageInv
<1>4. /\ awaiting' \in [Ring -> Seq(Entry)]
      /\ \A s \in Ring \ {w} : awaiting'[s] = awaiting[s]
      /\ \A i \in 1 .. Len(awaiting'[w]) : awaiting'[w][i].fd \in Slot(w)
      /\ Len(awaiting'[w]) = Len(awaiting[w]) + 1
      /\ \A i \in 1 .. Len(awaiting[w]) : awaiting'[w][i] = awaiting[w][i]
      /\ awaiting'[w][Len(awaiting[w]) + 1].of = First(w).of
  BY <1>0, <1>1, <1>2, <1>3, PushFacts DEF IInv, TypeOK
<1>5. TypeOK'
  <2>1. \A r \in Ring : \A i \in 1 .. Len(awaiting'[r]) : awaiting'[r][i].fd \in Slot(r)
    BY <1>4 DEF IInv, TypeOK
  <2> QED
    BY <1>1, <1>2, <1>4, <2>1 DEF IInv, TypeOK, acceptVars
<1>6. MessageInv' /\ RequestInv'
  BY <1>0, <1>1, MessagesHandled DEF IInv, RequestInv
<1>7. awaiting'[Main] = awaiting[Main] /\ cq'[Main] = cq[Main]
  BY <1>0, <1>2, <1>4
<1>8. WakeInv'
  BY <1>1, <1>7 DEF IInv, WakeInv, NoAcceptForgotten, acceptVars
<1>9. OnceInv'
  BY <1>1, <1>7, OnceKept DEF IInv, acceptVars
<1>10. OrderInv'
  <2>1. Len(awaiting[w]) \in Nat /\ Len(awaiting'[w]) \in Nat
    BY <1>0, <1>4 DEF IInv, TypeOK
  <2>2. Len(awaiting[w]) + 1 \in 1 .. Len(awaiting'[w])
    BY <1>4, <2>1
  <2>3. \E j \in 1 .. Len(awaiting'[w]) : awaiting'[w][j].of = First(w).of
    BY <1>4, <2>2
  <2>4. Len(awaiting[w]) <= Len(awaiting'[w])
    BY <1>4, <2>1
  <2>5. \A q \in kernel' : q.op = "send_task" => q \in kernel
    BY <1>1
  <2>6. awaiting \in [Ring -> Seq(Entry)] /\ RequestInv /\ OrderInv
    BY DEF IInv, TypeOK
  <2> QED
    BY <1>1, <1>4, <2>3, <2>4, <2>5, <2>6, OrderHandled
<1> QED
  BY <1>5, <1>6, <1>8, <1>9, <1>10 DEF IInv

LEMMA CloseType ==
  ASSUME NEW fd \in Fd, NEW c \in Conn \cup {NoConn}
  PROVE  Close(fd, c) \in Request /\ Close(fd, c).op = "close"
  BY RingFacts DEF Close, Request

LEMMA HandleTaskStep ==
  ASSUME IInv, NEW w \in Worker, HandleTask(w)
  PROVE  IInv'
<1> USE RingFacts
<1>0. w \in Ring /\ w # Main
  OBVIOUS
<1>1. /\ cq \in [Ring -> Seq(Message)] /\ cq[w] # <<>> /\ Handled(w)
      /\ First(w).kind = "task"
      /\ UNCHANGED <<table, acceptVars, started, pending, chainTask, current, awaiting>>
  BY DEF HandleTask, Ready, IInv, TypeOK
<1>2. /\ cq' \in [Ring -> Seq(Message)]
      /\ Len(cq'[w]) = Len(cq[w]) - 1
      /\ \A i \in 1 .. Len(cq'[w]) :
           cq'[w][i] = cq[w][i + 1] /\ i + 1 \in 1 .. Len(cq[w])
      /\ \A s \in Ring \ {w} : cq'[s] = cq[s]
  BY <1>0, <1>1, HandledFacts
<1>3. /\ tasks' \in [Worker -> Seq(Entry)] /\ ended' \in BOOLEAN
      /\ kernel' \subseteq Request
      /\ \A q \in kernel' : q.op # "close" => q \in kernel
  <2>1. Close(-1, NoConn) \in Request /\ Close(-1, NoConn).op = "close"
    BY <1>0, SlotFacts, CloseType
  <2>2. tasks[w] \o awaiting[w] \in Seq(Entry)
    BY <1>0 DEF IInv, TypeOK
  <2>3. CASE First(w).func # NoListener \/ awaiting[w] = <<>>
    <3>1. /\ tasks' = [tasks EXCEPT ![w] = @ \o awaiting[w]]
          /\ kernel' = kernel \cup {Close(-1, NoConn) : i \in 1 .. Len(awaiting[w])}
          /\ ended' \in BOOLEAN
      BY <2>3 DEF HandleTask
    <3> QED
      BY <2>1, <2>2, <3>1 DEF IInv, TypeOK
  <2>4. CASE ~(First(w).func # NoListener \/ awaiting[w] = <<>>)
    BY <2>4 DEF HandleTask, IInv, TypeOK
  <2> QED
    BY <2>3, <2>4
<1>4. TypeOK'
  BY <1>1, <1>2, <1>3 DEF IInv, TypeOK, acceptVars
<1>5. MessageInv' /\ RequestInv'
  BY <1>0, <1>1, <1>3, MessagesHandled DEF IInv, RequestInv
<1>6. cq'[Main] = cq[Main]
  BY <1>0, <1>2
<1>7. WakeInv'
  BY <1>1, <1>6 DEF IInv, WakeInv, NoAcceptForgotten, acceptVars
<1>8. OnceInv'
  BY <1>1, <1>3, <1>6, OnceKept DEF IInv, acceptVars
<1>9. OrderInv'
  <2>1. Len(awaiting[w]) \in Nat
    BY <1>0 DEF IInv, TypeOK
  <2>2. \A q \in kernel' : q.op = "send_task" => q \in kernel
    BY <1>3
  <2>3. awaiting \in [Ring -> Seq(Entry)] /\ RequestInv /\ OrderInv
    BY DEF IInv, TypeOK
  <2>4. /\ awaiting' \in [Ring -> Seq(Entry)] /\ Len(awaiting[w]) <= Len(awaiting'[w])
        /\ \A j \in 1 .. Len(awaiting[w]) : awaiting'[w][j] = awaiting[w][j]
        /\ \A r \in Ring \ {w} : awaiting'[r] = awaiting[r]
    BY <1>1, <2>1, <2>3
  <2>5. ~(First(w).kind = "fd")
    BY <1>1
  <2> QED
    BY <1>1, <2>2, <2>3, <2>4, <2>5, OrderHandled
<1> QED
  BY <1>4, <1>5, <1>7, <1>8, <1>9 DEF IInv

LEMMA DestroyConnectionStep ==
  ASSUME IInv, NEW w \in Worker, NEW i \in 1 .. Len(tasks[w]), DestroyConnection(w, i)
  PROVE  IInv'
<1>1. tasks[w] \in Seq(Entry) /\ tasks[w][i] \in Entry
  BY DEF IInv, TypeOK
<1>2. /\ Close(tasks[w][i].fd, tasks[w][i].of) \in Request
      /\ Close(tasks[w][i].fd, tasks[w][i].of).op = "close"
  BY <1>1, CloseType DEF Entry
<1>3. /\ kernel' \subseteq Request
      /\ \A q \in kernel' : q.op # "close" => q \in kernel
  BY <1>2 DEF DestroyConnection, IInv, TypeOK
<1>4. tasks' \in [Worker -> Seq(Entry)]
  <2>1. -1 \in Fd
    BY SlotFacts, RingFacts
  <2>2. [tasks[w][i] EXCEPT !.fd = -1] \in Entry
    BY <1>1, <2>1 DEF Entry
  <2>3. [tasks[w] EXCEPT ![i] = [tasks[w][i] EXCEPT !.fd = -1]] \in Seq(Entry)
    BY <1>1, <2>2
  <2>4. tasks' = [tasks EXCEPT ![w] = [tasks[w] EXCEPT ![i] = [tasks[w][i] EXCEPT !.fd = -1]]]
    BY DEF DestroyConnection
  <2> QED
    BY <2>3, <2>4 DEF IInv, TypeOK
<1>5. UNCHANGED <<table, acceptVars, cq, started, pending, chainTask, current, awaiting>>
      /\ ended' \in BOOLEAN
  BY DEF DestroyConnection
<1>6. TypeOK'
  BY <1>3, <1>4, <1>5 DEF IInv, TypeOK, acceptVars
<1>7. MessageInv' /\ RequestInv' /\ WakeInv'
  BY <1>3, <1>5 DEF IInv, MessageInv, RequestInv, WakeInv, NoAcceptForgotten, acceptVars
<1>8. OnceInv'
  BY <1>3, <1>5, OnceKept DEF IInv, acceptVars
<1>9. OrderInv'
  BY <1>3, <1>5, OrderKept DEF IInv
<1> QED
  BY <1>6, <1>7, <1>8, <1>9 DEF IInv

-----------------------------------------------------------------------------
(* The kernel.                                                              *)

\* MessageInv survives a completion of the right kind, for the ring it is
\* posted to.
LEMMA MessagesPosted ==
  ASSUME MessageInv, cq \in [Ring -> Seq(Message)], NEW r \in Ring,
         NEW e \in Message, Post(r, e),
         r = Main => /\ e.kind \in {"accept", "stale"}
                     /\ e.kind = "accept" /\ e.res >= 0 =>
                          e.res \in Slot(Main) /\ e.of \in Conn,
         r # Main => /\ e.kind \in {"fd", "task"}
                     /\ e.kind = "fd" => e.res \in Slot(r) /\ e.res >= 0 /\ e.of \in Conn
  PROVE  MessageInv'
<1> USE RingFacts
<1>1. /\ Len(cq[r]) \in Nat /\ Len(cq'[r]) = Len(cq[r]) + 1
      /\ cq'[r][Len(cq[r]) + 1] = e
      /\ \A i \in 1 .. Len(cq[r]) : cq'[r][i] = cq[r][i]
      /\ \A s \in Ring \ {r} : cq'[s] = cq[s]
  BY PostFacts
<1>2. \A i \in 1 .. Len(cq'[r]) :
        \/ i \in 1 .. Len(cq[r]) /\ cq'[r][i] = cq[r][i]
        \/ cq'[r][i] = e
  BY <1>1
<1>3. CASE r = Main
  BY <1>1, <1>2, <1>3 DEF MessageInv
<1>4. CASE r \in Worker
  <2>1. ASSUME NEW w \in Worker, NEW i \in 1 .. Len(cq'[w])
        PROVE  /\ cq'[w][i].kind \in {"fd", "task"}
               /\ cq'[w][i].kind = "fd" =>
                    /\ cq'[w][i].res \in Slot(w) /\ cq'[w][i].res >= 0
                    /\ cq'[w][i].of \in Conn
    <3>1. CASE w = r
      BY <1>2, <1>4, <3>1 DEF MessageInv
    <3>2. CASE w # r
      BY <1>1, <3>2 DEF MessageInv
    <3> QED
      BY <3>1, <3>2
  <2>2. cq'[Main] = cq[Main]
    BY <1>1, <1>4
  <2> QED
    BY <2>1, <2>2 DEF MessageInv
<1> QED
  BY <1>3, <1>4

\* Messages and lists of the workers stay where they are.
LEMMA FdKept ==
  ASSUME NEW w \in Worker, awaiting' = awaiting,
         \A i \in 1 .. Len(cq[w]) : cq'[w][i] = cq[w][i],
         NEW c, NEW i \in Int, NEW k \in Int, i <= k, i <= Len(cq[w]) + 1,
         Len(cq[w]) \in Nat, FdBefore(c, w, i)
  PROVE  FdBefore(c, w, k)'
<1>1. CASE \E j \in 1 .. i - 1 : cq[w][j].kind = "fd" /\ cq[w][j].of = c
  <2>1. PICK j \in 1 .. i - 1 : cq[w][j].kind = "fd" /\ cq[w][j].of = c
    BY <1>1
  <2>2. j \in 1 .. k - 1 /\ j \in 1 .. Len(cq[w])
    OBVIOUS
  <2> QED
    BY <2>1, <2>2 DEF FdBefore
<1>2. CASE \E j \in 1 .. Len(awaiting[w]) : awaiting[w][j].of = c
  BY <1>2 DEF FdBefore
<1> QED
  BY <1>1, <1>2 DEF FdBefore

\* OrderInv survives a completion posted to a worker: a slot, or a task that a
\* request was about to send after its slot.
LEMMA OrderPosted ==
  ASSUME RequestInv, OrderInv, cq \in [Ring -> Seq(Message)], awaiting' = awaiting,
         NEW w \in Worker, NEW e \in Message, Post(w, e),
         e.kind = "task" => FdBefore(e.of, w, Len(cq[w]) + 1),
         \A q \in kernel' : q.op = "send_task" =>
           \/ q \in kernel
           \/ q.ring = w /\ q.of = e.of /\ e.kind = "fd"
  PROVE  OrderInv'
<1> USE RingFacts
<1>1. /\ Len(cq[w]) \in Nat /\ Len(cq'[w]) = Len(cq[w]) + 1
      /\ cq'[w][Len(cq[w]) + 1] = e
      /\ \A i \in 1 .. Len(cq[w]) : cq'[w][i] = cq[w][i]
      /\ \A v \in Worker \ {w} : cq'[v] = cq[v]
  BY PostFacts
<1>2. \A v \in Worker : /\ Len(cq[v]) \in Nat
                        /\ \A i \in 1 .. Len(cq[v]) : cq'[v][i] = cq[v][i]
                        /\ Len(cq'[v]) = IF v = w THEN Len(cq[v]) + 1 ELSE Len(cq[v])
  BY <1>1
<1>3. ASSUME NEW v \in Worker, NEW i \in 1 .. Len(cq'[v]), cq'[v][i].kind = "task",
             NEW c, c = cq'[v][i].of
      PROVE  FdBefore(c, v, i)'
  <2>1. i \in Int /\ i <= Len(cq[v]) + 1
    BY <1>2
  <2>2. FdBefore(c, v, i)
    <3>1. CASE i \in 1 .. Len(cq[v])
      BY <1>2, <1>3, <3>1 DEF OrderInv
    <3>2. CASE i \notin 1 .. Len(cq[v])
      <4>1. v = w /\ i = Len(cq[w]) + 1
        BY <1>2, <3>2
      <4> QED
        BY <1>1, <1>3, <4>1
    <3> QED
      BY <3>1, <3>2
  <2> QED
    BY <1>2, <2>1, <2>2, FdKept
<1>4. ASSUME NEW q \in kernel', q.op = "send_task", NEW i,
             q.ring \in Worker => i = Len(cq'[q.ring]) + 1
      PROVE  FdBefore(q.of, q.ring, i)'
  <2>1. CASE q \in kernel
    <3>1. q.ring \in Worker /\ FdBefore(q.of, q.ring, Len(cq[q.ring]) + 1)
      BY <1>4, <2>1 DEF OrderInv, RequestInv
    <3>2. i \in Int /\ Len(cq[q.ring]) + 1 \in Int /\ Len(cq[q.ring]) + 1 <= i
      BY <1>2, <1>4, <3>1
    <3> QED
      BY <1>2, <3>1, <3>2, FdKept
  <2>2. CASE q.ring = w /\ q.of = e.of /\ e.kind = "fd"
    <3>1. i = Len(cq[w]) + 2 /\ Len(cq[w]) + 1 \in 1 .. i - 1
      BY <1>1, <1>4, <2>2
    <3> QED
      BY <1>1, <2>2, <3>1 DEF FdBefore
  <2> QED
    BY <1>4, <2>1, <2>2
<1>5. \A v \in Worker : \A i \in 1 .. Len(cq'[v]) :
        cq'[v][i].kind = "task" => FdBefore(cq[v][i].of, v, i)'
  <2> SUFFICES ASSUME NEW v \in Worker, NEW i \in 1 .. Len(cq'[v]),
                      cq'[v][i].kind = "task"
               PROVE  FdBefore(cq[v][i].of, v, i)'
    OBVIOUS
  <2>1. PICK c : c = cq'[v][i].of
    OBVIOUS
  <2>2. FdBefore(c, v, i)'
    BY <1>3, <2>1
  <2> QED
    BY <2>1, <2>2 DEF FdBefore
<1>6. \A q \in kernel' : q.op = "send_task" =>
        FdBefore(q.of, q.ring, Len(cq[q.ring]) + 1)'
  <2> SUFFICES ASSUME NEW q \in kernel', q.op = "send_task"
               PROVE  FdBefore(q.of, q.ring, Len(cq[q.ring]) + 1)'
    OBVIOUS
  <2>1. PICK i : i = Len(cq'[q.ring]) + 1
    OBVIOUS
  <2>2. FdBefore(q.of, q.ring, i)'
    BY <1>4, <2>1
  <2> QED
    BY <2>1, <2>2 DEF FdBefore
<1> QED
  BY <1>5, <1>6 DEF OrderInv

\* The accepts that the main ring has not handled stay as they are when
\* something else is posted.
LEMMA BatchKept ==
  ASSUME OnceInv, cq \in [Ring -> Seq(Message)], NEW r \in Ring, NEW e \in Message,
         Post(r, e), r = Main => ~IsAccepted(e)
  PROVE  /\ \A d : InBatch(d)' <=> InBatch(d)
         /\ \A i, j \in 1 .. Len(cq'[Main]) :
              /\ IsAccepted(cq'[Main][i]) /\ IsAccepted(cq'[Main][j])
              /\ cq'[Main][i].of = cq'[Main][j].of
              => i = j
<1> USE RingFacts
<1>1. /\ Len(cq[r]) \in Nat /\ Len(cq'[r]) = Len(cq[r]) + 1
      /\ cq'[r][Len(cq[r]) + 1] = e
      /\ \A i \in 1 .. Len(cq[r]) : cq'[r][i] = cq[r][i]
      /\ \A s \in Ring \ {r} : cq'[s] = cq[s]
  BY PostFacts
<1>2. CASE r # Main
  <2>1. cq'[Main] = cq[Main]
    BY <1>1, <1>2
  <2> QED
    BY <2>1 DEF InBatch, OnceInv
<1>3. CASE r = Main
  <2>1. \A i \in 1 .. Len(cq'[Main]) : IsAccepted(cq'[Main][i]) =>
          i \in 1 .. Len(cq[Main]) /\ cq'[Main][i] = cq[Main][i]
    BY <1>1, <1>3
  <2>2. \A i \in 1 .. Len(cq[Main]) :
          i \in 1 .. Len(cq'[Main]) /\ cq'[Main][i] = cq[Main][i]
    BY <1>1, <1>3
  <2>3. \A d : InBatch(d)' <=> InBatch(d)
    BY <2>1, <2>2 DEF InBatch
  <2> QED
    BY <2>1, <2>3 DEF OnceInv
<1> QED
  BY <1>2, <1>3

\* A chain goes on, or is over.
LEMMA OnceChain ==
  ASSUME OnceInv, peers' = peers, awaiting' = awaiting,
         \A d : InBatch(d)' => InBatch(d),
         \A i, j \in 1 .. Len(cq'[Main]) :
           /\ IsAccepted(cq'[Main][i]) /\ IsAccepted(cq'[Main][j])
           /\ cq'[Main][i].of = cq'[Main][j].of
           => i = j,
         NEW q \in kernel, NEW p, q.op # "close" \/ p.op = "close", p.of = q.of,
         kernel' \subseteq (kernel \ {q}) \cup {p}
  PROVE  OnceInv'
<1>1. \A d : InChain(d)' => InChain(d)
  BY DEF InChain
<1>2. \A d : Unsent(d)' <=> Unsent(d)
  BY DEF Unsent
<1>3. \A a, b \in kernel' : a.op # "close" /\ b.op # "close" /\ a.of = b.of => a = b
  BY DEF OnceInv
<1> QED
  BY <1>1, <1>2, <1>3 DEF OnceInv

LEMMA AcceptConnStep ==
  ASSUME IInv, NEW c \in Conn, NEW s \in Slot(Main), AcceptConn(c, s)
  PROVE  IInv'
<1> USE RingFacts
<1>0. PICK e : e = [kind |-> "accept", res |-> s, of |-> c, func |-> NoListener]
  OBVIOUS
<1>1. e \in Message /\ e.kind = "accept" /\ e.res = s /\ e.of = c
  BY <1>0, SlotFacts DEF Message
<1>2. /\ c \in peers /\ Dials[c] \in armed /\ peers' = peers \ {c}
      /\ table' = [table EXCEPT ![Main][s] = c]
      /\ Post(Main, e) /\ UNCHANGED <<armed, kernel, ended, threadVars>>
      /\ cq \in [Ring -> Seq(Message)]
  BY <1>0 DEF AcceptConn, IInv, TypeOK
<1>3. /\ cq' \in [Ring -> Seq(Message)]
      /\ Len(cq[Main]) \in Nat /\ Len(cq'[Main]) = Len(cq[Main]) + 1
      /\ cq'[Main][Len(cq[Main]) + 1] = e
      /\ \A i \in 1 .. Len(cq[Main]) : cq'[Main][i] = cq[Main][i]
      /\ \A r \in Ring \ {Main} : cq'[r] = cq[r]
  BY <1>1, <1>2, PostFacts
<1>4. TypeOK'
  <2>1. /\ DOMAIN table' = Ring
        /\ \A r \in Ring : table'[r] \in [Slot(r) -> Conn \cup {NoConn}]
    BY <1>2 DEF IInv, TypeOK
  <2> QED
    BY <1>2, <1>3, <2>1 DEF IInv, TypeOK, threadVars
<1>5. MessageInv'
  BY <1>1, <1>2, MessagesPosted DEF IInv
<1>6. RequestInv'
  BY <1>2 DEF IInv, RequestInv
<1>7. WakeInv'
  BY <1>2 DEF IInv, WakeInv, NoAcceptForgotten, threadVars
<1>8. OnceInv'
  <2>1. \A d : InBatch(d)' => InBatch(d) \/ d = c
    BY <1>1, <1>3 DEF InBatch
  <2>2. \A d : (Unsent(d)' <=> Unsent(d)) /\ (InChain(d)' <=> InChain(d))
    BY <1>2 DEF Unsent, InChain, threadVars
  <2>3. ~InBatch(c) /\ ~Unsent(c) /\ ~InChain(c)
    BY <1>2 DEF IInv, OnceInv
  <2>4. \A i, j \in 1 .. Len(cq'[Main]) :
          /\ IsAccepted(cq'[Main][i]) /\ IsAccepted(cq'[Main][j])
          /\ cq'[Main][i].of = cq'[Main][j].of
          => i = j
    <3>1. \A i \in 1 .. Len(cq[Main]) : IsAccepted(cq[Main][i]) => cq[Main][i].of # c
      BY <2>3 DEF InBatch
    <3>2. \A i \in 1 .. Len(cq'[Main]) :
            \/ i \in 1 .. Len(cq[Main]) /\ cq'[Main][i] = cq[Main][i]
            \/ i = Len(cq[Main]) + 1 /\ cq'[Main][i].of = c
      BY <1>1, <1>3
    <3> QED
      BY <3>1, <3>2 DEF IInv, OnceInv
  <2> QED
    BY <1>2, <2>1, <2>2, <2>3, <2>4 DEF IInv, OnceInv, threadVars
<1>9. OrderInv'
  BY <1>2, <1>3, OrderKept DEF IInv, threadVars
<1> QED
  BY <1>4, <1>5, <1>6, <1>7, <1>8, <1>9 DEF IInv

LEMMA AcceptFailsStep ==
  ASSUME IInv, NEW c \in Conn, AcceptFails(c)
  PROVE  IInv'
<1> USE RingFacts
<1>0. PICK e : e = [kind |-> "accept", res |-> -1, of |-> c, func |-> NoListener]
  OBVIOUS
<1>1. e \in Message /\ e.kind = "accept" /\ e.res = -1 /\ ~IsAccepted(e)
  BY <1>0, SlotFacts DEF Message, IsAccepted
<1>2. /\ c \in peers /\ Dials[c] \in armed /\ peers' = peers \ {c}
      /\ armed' = armed \ {Dials[c]}
      /\ Post(Main, e) /\ UNCHANGED <<table, kernel, ended, threadVars>>
      /\ cq \in [Ring -> Seq(Message)]
  BY <1>0 DEF AcceptFails, IInv, TypeOK
<1>3. cq' \in [Ring -> Seq(Message)] /\ \A r \in Ring \ {Main} : cq'[r] = cq[r]
  BY <1>1, <1>2, PostFacts
<1>4. TypeOK'
  BY <1>2, <1>3 DEF IInv, TypeOK, threadVars
<1>5. MessageInv'
  BY <1>1, <1>2, MessagesPosted DEF IInv
<1>6. RequestInv'
  BY <1>2 DEF IInv, RequestInv
<1>7. WakeInv'
  BY <1>2 DEF IInv, WakeInv, NoAcceptForgotten, threadVars
<1>8. OnceInv'
  <2>1. /\ \A d : InBatch(d)' <=> InBatch(d)
        /\ \A i, j \in 1 .. Len(cq'[Main]) :
             /\ IsAccepted(cq'[Main][i]) /\ IsAccepted(cq'[Main][j])
             /\ cq'[Main][i].of = cq'[Main][j].of
             => i = j
    BY <1>1, <1>2, BatchKept DEF IInv
  <2>2. \A d : (Unsent(d)' <=> Unsent(d)) /\ (InChain(d)' <=> InChain(d))
    BY <1>2 DEF Unsent, InChain, threadVars
  <2> QED
    BY <1>2, <2>1, <2>2 DEF IInv, OnceInv, threadVars
<1>9. OrderInv'
  BY <1>2, <1>3, OrderKept DEF IInv, threadVars
<1> QED
  BY <1>4, <1>5, <1>6, <1>7, <1>8, <1>9 DEF IInv

LEMMA SendFdStep ==
  ASSUME IInv, NEW q \in kernel, NEW s \in Slot(q.ring), SendFd(q, s)
  PROVE  IInv'
<1> USE RingFacts
<1>0. PICK e, p : /\ e = [kind |-> "fd", res |-> s, of |-> q.of, func |-> NoListener]
                  /\ p = [q EXCEPT !.op = "send_task"]
  OBVIOUS
<1>1. /\ q \in Request /\ q.op = "send_fd" /\ q.ring \in Worker /\ q.of \in Conn
      /\ q.fd \in Slot(Main) /\ q.ring \in Ring /\ q.ring # Main
  BY DEF SendFd, IInv, RequestInv, TypeOK
<1>2. e \in Message /\ e.kind = "fd" /\ e.res = s /\ e.of = q.of /\ s >= 0
  BY <1>0, <1>1, SlotFacts DEF Message
<1>3. /\ p \in Request /\ p.op = "send_task" /\ p.ring = q.ring /\ p.fd = q.fd
      /\ p.of = q.of
  BY <1>0, <1>1 DEF Request
<1>4. /\ table[Main][q.fd] # NoConn
      /\ table' = [table EXCEPT ![q.ring][s] = table[Main][q.fd]]
      /\ Post(q.ring, e) /\ kernel' = (kernel \ {q}) \cup {p}
      /\ UNCHANGED <<acceptVars, ended, threadVars>>
      /\ cq \in [Ring -> Seq(Message)]
  BY <1>0 DEF SendFd, Continue, IInv, TypeOK
<1>5. cq' \in [Ring -> Seq(Message)] /\ cq'[Main] = cq[Main]
  BY <1>1, <1>2, <1>4, PostFacts
<1>6. TypeOK'
  <2>1. table[Main][q.fd] \in Conn \cup {NoConn}
    BY <1>1 DEF IInv, TypeOK
  <2>2. /\ DOMAIN table' = Ring
        /\ \A r \in Ring : table'[r] \in [Slot(r) -> Conn \cup {NoConn}]
    BY <1>1, <1>4, <2>1 DEF IInv, TypeOK
  <2>3. kernel' \subseteq Request
    BY <1>3, <1>4 DEF IInv, TypeOK
  <2> QED
    BY <1>4, <1>5, <2>2, <2>3 DEF IInv, TypeOK, acceptVars, threadVars
<1>7. MessageInv'
  BY <1>1, <1>2, <1>4, MessagesPosted DEF IInv
<1>8. RequestInv'
  BY <1>1, <1>3, <1>4 DEF IInv, RequestInv
<1>9. WakeInv'
  BY <1>4, <1>5 DEF IInv, WakeInv, NoAcceptForgotten, acceptVars, threadVars
<1>10. OnceInv'
  <2>1. /\ \A d : InBatch(d)' <=> InBatch(d)
        /\ \A i, j \in 1 .. Len(cq'[Main]) :
             /\ IsAccepted(cq'[Main][i]) /\ IsAccepted(cq'[Main][j])
             /\ cq'[Main][i].of = cq'[Main][j].of
             => i = j
    BY <1>1, <1>2, <1>4, BatchKept DEF IInv
  <2>2. peers' = peers /\ awaiting' = awaiting /\ q.op # "close"
    BY <1>1, <1>4 DEF acceptVars, threadVars
  <2> QED
    BY <1>3, <1>4, <2>1, <2>2, OnceChain DEF IInv
<1>11. OrderInv'
  <2>1. \A r \in kernel' : r.op = "send_task" =>
          \/ r \in kernel
          \/ r.ring = q.ring /\ r.of = e.of /\ e.kind = "fd"
    BY <1>2, <1>3, <1>4
  <2>2. awaiting' = awaiting /\ RequestInv /\ OrderInv /\ ~(e.kind = "task")
    BY <1>2, <1>4 DEF IInv, threadVars
  <2> QED
    BY <1>1, <1>2, <1>4, <2>1, <2>2, OrderPosted
<1> QED
  BY <1>6, <1>7, <1>8, <1>9, <1>10, <1>11 DEF IInv

LEMMA SendTaskStep ==
  ASSUME IInv, NEW q \in kernel, SendTask(q)
  PROVE  IInv'
<1> USE RingFacts
<1>0. PICK e, p : /\ e = [kind |-> "task", res |-> -1, of |-> q.of, func |-> q.func]
                  /\ p = [q EXCEPT !.op = "close_fd"]
  OBVIOUS
<1>1. /\ q \in Request /\ q.op = "send_task" /\ q.ring \in Worker /\ q.of \in Conn
      /\ q.fd \in Slot(Main) /\ q.ring \in Ring /\ q.ring # Main
  BY DEF SendTask, IInv, RequestInv, TypeOK
<1>2. e \in Message /\ e.kind = "task" /\ e.of = q.of
  BY <1>0, <1>1, SlotFacts DEF Message, Request
<1>3. /\ p \in Request /\ p.op = "close_fd" /\ p.ring = q.ring /\ p.fd = q.fd
      /\ p.of = q.of
  BY <1>0, <1>1 DEF Request
<1>4. /\ Post(q.ring, e) /\ kernel' = (kernel \ {q}) \cup {p}
      /\ UNCHANGED <<table, acceptVars, ended, threadVars>>
      /\ cq \in [Ring -> Seq(Message)]
  BY <1>0 DEF SendTask, Continue, IInv, TypeOK
<1>5. cq' \in [Ring -> Seq(Message)] /\ cq'[Main] = cq[Main]
  BY <1>1, <1>2, <1>4, PostFacts
<1>6. TypeOK'
  <2>1. kernel' \subseteq Request
    BY <1>3, <1>4 DEF IInv, TypeOK
  <2> QED
    BY <1>4, <1>5, <2>1 DEF IInv, TypeOK, acceptVars, threadVars
<1>7. MessageInv'
  BY <1>1, <1>2, <1>4, MessagesPosted DEF IInv
<1>8. RequestInv'
  BY <1>1, <1>3, <1>4 DEF IInv, RequestInv
<1>9. WakeInv'
  BY <1>4, <1>5 DEF IInv, WakeInv, NoAcceptForgotten, acceptVars, threadVars
<1>10. OnceInv'
  <2>1. /\ \A d : InBatch(d)' <=> InBatch(d)
        /\ \A i, j \in 1 .. Len(cq'[Main]) :
             /\ IsAccepted(cq'[Main][i]) /\ IsAccepted(cq'[Main][j])
             /\ cq'[Main][i].of = cq'[Main][j].of
             => i = j
    BY <1>1, <1>2, <1>4, BatchKept DEF IInv
  <2>2. peers' = peers /\ awaiting' = awaiting /\ q.op # "close"
    BY <1>1, <1>4 DEF acceptVars, threadVars
  <2> QED
    BY <1>3, <1>4, <2>1, <2>2, OnceChain DEF IInv
<1>11. OrderInv'
  <2>1. \A r \in kernel' : r.op = "send_task" => r \in kernel
    BY <1>3, <1>4
  <2>2. awaiting' = awaiting /\ RequestInv /\ OrderInv
    BY <1>4 DEF IInv, threadVars
  <2>3. FdBefore(e.of, q.ring, Len(cq[q.ring]) + 1)
    BY <1>1, <1>2, <2>2 DEF OrderInv
  <2> QED
    BY <1>1, <1>2, <1>4, <2>1, <2>2, <2>3, OrderPosted
<1> QED
  BY <1>6, <1>7, <1>8, <1>9, <1>10, <1>11 DEF IInv

LEMMA StaleType == Stale \in Message /\ Stale.kind = "stale" /\ ~IsAccepted(Stale)
  BY RingFacts, SlotFacts DEF Stale, Message, IsAccepted

\* A request ends; its completion, if it has one, is stale.
LEMMA RequestEnds ==
  ASSUME IInv, NEW q \in kernel, Finish(q),
         UNCHANGED <<acceptVars, ended, threadVars>>,
         DOMAIN table' = Ring,
         \A r \in Ring : table'[r] \in [Slot(r) -> Conn \cup {NoConn}],
         cq' = cq \/ Post(Main, Stale)
  PROVE  IInv'
<1> USE RingFacts
<1>1. kernel' = kernel \ {q} /\ cq \in [Ring -> Seq(Message)]
  BY DEF Finish, IInv, TypeOK
<1>2. /\ cq' \in [Ring -> Seq(Message)]
      /\ \A r \in Ring \ {Main} : cq'[r] = cq[r]
      /\ \A i \in 1 .. Len(cq'[Main]) : cq'[Main][i].kind = "accept" =>
           i \in 1 .. Len(cq[Main]) /\ cq'[Main][i] = cq[Main][i]
  <2>1. CASE cq' = cq
    BY <1>1, <2>1
  <2>2. CASE Post(Main, Stale)
    <3>1. /\ cq' \in [Ring -> Seq(Message)]
          /\ Len(cq[Main]) \in Nat /\ Len(cq'[Main]) = Len(cq[Main]) + 1
          /\ cq'[Main][Len(cq[Main]) + 1] = Stale
          /\ \A i \in 1 .. Len(cq[Main]) : cq'[Main][i] = cq[Main][i]
          /\ \A r \in Ring \ {Main} : cq'[r] = cq[r]
      BY <1>1, <2>2, PostFacts, StaleType
    <3> QED
      BY <3>1, StaleType
  <2> QED
    BY <2>1, <2>2
<1>3. TypeOK'
  <2>1. kernel' \subseteq Request
    BY <1>1 DEF IInv, TypeOK
  <2> QED
    BY <1>2, <2>1 DEF IInv, TypeOK, acceptVars, threadVars
<1>4. MessageInv'
  <2>1. CASE cq' = cq
    BY <2>1 DEF IInv, MessageInv
  <2>2. CASE Post(Main, Stale)
    BY <1>1, <2>2, MessagesPosted, StaleType DEF IInv
  <2> QED
    BY <2>1, <2>2
<1>5. RequestInv'
  BY <1>1 DEF IInv, RequestInv
<1>6. WakeInv'
  BY <1>2 DEF IInv, WakeInv, NoAcceptForgotten, acceptVars, threadVars
<1>7. OnceInv'
  <2>1. /\ \A d : InBatch(d)' <=> InBatch(d)
        /\ \A i, j \in 1 .. Len(cq'[Main]) :
             /\ IsAccepted(cq'[Main][i]) /\ IsAccepted(cq'[Main][j])
             /\ cq'[Main][i].of = cq'[Main][j].of
             => i = j
    <3>1. CASE cq' = cq
      BY <3>1 DEF IInv, OnceInv, InBatch
    <3>2. CASE Post(Main, Stale)
      BY <1>1, <3>2, BatchKept, StaleType DEF IInv
    <3> QED
      BY <3>1, <3>2
  <2>2. \A d : (Unsent(d)' <=> Unsent(d)) /\ (InChain(d)' => InChain(d))
    BY <1>1 DEF Unsent, InChain, threadVars
  <2> QED
    BY <1>1, <2>1, <2>2 DEF IInv, OnceInv, acceptVars, threadVars
<1>8. OrderInv'
  BY <1>1, <1>2, OrderKept DEF IInv, threadVars
<1> QED
  BY <1>3, <1>4, <1>5, <1>6, <1>7, <1>8 DEF IInv

LEMMA SendFdFailsStep ==
  ASSUME IInv, NEW q \in kernel, SendFdFails(q)
  PROVE  IInv'
  BY RequestEnds DEF SendFdFails, IInv, TypeOK

LEMMA CloseFdStep ==
  ASSUME IInv, NEW q \in kernel, CloseFd(q)
  PROVE  IInv'
<1>1. /\ DOMAIN table' = Ring
      /\ \A r \in Ring : table'[r] \in [Slot(r) -> Conn \cup {NoConn}]
  <2>1. CASE table' = table
    BY <2>1 DEF IInv, TypeOK
  <2>2. CASE q.fd \in Slot(Main) /\ table' = [table EXCEPT ![Main][q.fd] = NoConn]
    <3>1. [table[Main] EXCEPT ![q.fd] = NoConn] \in [Slot(Main) -> Conn \cup {NoConn}]
      BY RingFacts DEF IInv, TypeOK
    <3>2. \A r \in Ring :
            table'[r] = IF r = Main THEN [table[Main] EXCEPT ![q.fd] = NoConn]
                        ELSE table[r]
      BY <2>2, RingFacts DEF IInv, TypeOK
    <3>3. DOMAIN table' = Ring
      BY <2>2 DEF IInv, TypeOK
    <3> QED
      BY <3>1, <3>2, <3>3 DEF IInv, TypeOK
  <2> QED
    BY <2>1, <2>2 DEF CloseFd
<1>2. cq' = cq \/ Post(Main, Stale)
  BY DEF CloseFd
<1>3. Finish(q) /\ UNCHANGED <<acceptVars, ended, threadVars>>
  BY DEF CloseFd
<1> QED
  BY <1>1, <1>2, <1>3, RequestEnds

-----------------------------------------------------------------------------
(* The theorems.                                                            *)

LEMMA NextIInv == IInv /\ [Next]_vars => IInv'
<1> SUFFICES ASSUME IInv, [Next]_vars PROVE IInv'
  OBVIOUS
<1>1. CASE MainStep
  BY <1>1, HandleAcceptStep, HandleStaleStep, ArmStep, SendAcceptedStep,
     SendAcceptedNoSqeStep DEF MainStep
<1>2. ASSUME NEW w \in Worker, WorkerStep(w) PROVE IInv'
  BY <1>2, HandleFdStep, HandleTaskStep DEF WorkerStep
<1>3. ASSUME NEW w \in Worker, NEW i \in 1 .. Len(tasks[w]), DestroyConnection(w, i)
      PROVE  IInv'
  BY <1>3, DestroyConnectionStep
<1>4. CASE KernelStep
  BY <1>4, SendFdStep, SendFdFailsStep, SendTaskStep, CloseFdStep DEF KernelStep
<1>5. ASSUME NEW c \in peers, AcceptFails(c) \/ \E s \in Slot(Main) : AcceptConn(c, s)
      PROVE  IInv'
  BY <1>5, AcceptFailsStep, AcceptConnStep DEF IInv, TypeOK
<1>6. CASE UNCHANGED vars
  <2> USE <1>6 DEF vars, acceptVars, threadVars
  <2>1. TypeOK' /\ MessageInv' /\ RequestInv' /\ WakeInv'
    BY DEF IInv, TypeOK, MessageInv, RequestInv, WakeInv, NoAcceptForgotten
  <2>2. OnceInv' /\ OrderInv'
    BY DEF IInv, OnceInv, InBatch, Unsent, InChain, OrderInv, FdBefore
  <2> QED
    BY <2>1, <2>2 DEF IInv
<1> QED
  BY <1>1, <1>2, <1>3, <1>4, <1>5, <1>6 DEF Next

LEMMA Inductive == SafeSpec => []IInv
  BY InitIInv, NextIInv, PTL DEF SafeSpec

\* Every component has its type: the lists hold slots of their ring, and a
\* chain goes to a worker.
THEOREM TypeInvariant == SafeSpec => []TypeOK
<1>1. IInv => TypeOK
  BY DEF IInv
<1> QED
  BY Inductive, <1>1, PTL

\* The task that the static token wakes (uring.hpp:209-214) is awake while there
\* is a slot to send, however many listeners share the token.
THEOREM NoAcceptIsForgotten == SafeSpec => []NoAcceptForgotten
<1>1. IInv => NoAcceptForgotten
  BY DEF IInv, WakeInv
<1> QED
  BY Inductive, <1>1, PTL

\* A slot is sent to one worker (context.hpp:218-246), through any number of
\* rounds and of wrap-arounds of the turn.
THEOREM SlotsAreSentOnce == SafeSpec => []SentOnce
<1>1. IInv => SentOnce
  <2> SUFFICES ASSUME IInv PROVE SentOnce
    OBVIOUS
  <2>1. \A q \in kernel : q.op = "send_fd" => InChain(q.of) /\ q.of \in Conn
    BY DEF InChain, IInv, RequestInv
  <2>2. \A q \in kernel : q.op = "send_fd" => ~Unsent(q.of)
    BY <2>1 DEF IInv, OnceInv
  <2> QED
    BY <2>2 DEF SentOnce, Unsent, IInv, OnceInv
<1> QED
  BY Inductive, <1>1, PTL

\* The worker that handles a task has its slot in the list (connection.hpp:169),
\* although the kernel executes the requests of different chains in any order.
THEOREM TasksFindTheirFd == SafeSpec => []TaskFindsFd
<1>1. IInv => TaskFindsFd
  BY DEF IInv, OrderInv, FdBefore, TaskFindsFd
<1> QED
  BY Inductive, <1>1, PTL
=============================================================================
