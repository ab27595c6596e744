----------------------------- MODULE BufferRing -----------------------------
(***************************************************************************)
(* The RingBuffer of one thread and the coroutines that receive with it:   *)
(* the kernel takes the oldest published buffer for each receive and names *)
(* it in the completion; ring_buf_receive copies the data out and repays   *)
(* the buffer; a receive that found none extends the ring.                 *)
(*                                                                         *)
(* A completion of 0 bytes names no buffer: its flags are 0, which the     *)
(* code reads as buffer 0 (the kernel keeps the buffer it had selected).   *)
(***************************************************************************)
EXTENDS Naturals, Sequences, FiniteSets

CONSTANTS
  Reader,     \* the coroutines of the thread that receive
  NoReader,   \* a buffer with no such data
  NBuffers,   \* config::N_BUFFERS
  MaxRing,    \* the largest buf_count_ the kernel accepts: 32768 entries
  MaxEofs,    \* bound on the receives that return 0
  MaxCount    \* bound on buf_count_

ASSUME ReaderAssumption == IsFiniteSet(Reader) /\ NoReader \notin Reader
ASSUME SizeAssumption ==
  /\ NBuffers \in Nat \ {0} /\ MaxRing \in {1, 2}
  /\ MaxEofs \in Nat /\ MaxCount \in Nat \ {0}

VARIABLES
  ring,       \* the buffer ids published and not taken, oldest first
  count,      \* buf_count_
  isSetUp,    \* br_ # nullptr
  data,       \* data[b]: the reader whose data, not yet copied, is in buffer b
  state,      \* state[r]: "idle", "receiving" or "posted"
  cqe,        \* cqe[r]: the completion posted for r
  eofs,       \* receives that returned 0, counts towards MaxEofs
  damage,     \* "none"; "eof": a buffer 0 that nobody held was repaid;
              \* "all": the ring was overfull, or extended
  crashed     \* a buffer was repaid to no ring

vars == <<ring, count, isSetUp, data, state, cqe, eofs, damage, crashed>>

Entries(n) == NBuffers * n
Ids(n) == 0 .. Entries(n) - 1

\* extend_buffer publishes every buffer, in order.
IdsFromOne(n) == [i \in 1 .. Entries(n) |-> i]
AllIds(n) == [i \in 1 .. Entries(n) |-> i - 1]

NoCqe == [res |-> "none", bid |-> 0]

\* The constructor extends an empty ring.
Init ==
  /\ ring = AllIds(1) /\ count = 1 /\ isSetUp = TRUE
  /\ data = [b \in Ids(1) |-> NoReader]
  /\ state = [r \in Reader |-> "idle"]
  /\ cqe = [r \in Reader |-> NoCqe]
  /\ eofs = 0
  /\ damage = "none" /\ crashed = FALSE

-----------------------------------------------------------------------------
(* The kernel.                                                              *)

Complete(r, res, bid) ==
  /\ state[r] = "receiving"
  /\ state' = [state EXCEPT ![r] = "posted"]
  /\ cqe' = [cqe EXCEPT ![r] = [res |-> res, bid |-> bid]]
  /\ UNCHANGED <<count, isSetUp, damage, crashed>>

Data(r) ==
  /\ ring # <<>>
  /\ Complete(r, "data", Head(ring))
  /\ data' = [data EXCEPT ![Head(ring)] = r]
  /\ ring' = Tail(ring)
  /\ UNCHANGED eofs

Eof(r) ==
  /\ ring # <<>> /\ eofs < MaxEofs
  /\ Complete(r, "eof", 0)
  /\ eofs' = eofs + 1
  /\ UNCHANGED <<ring, data>>

\* Any other error: no buffer leaves the ring.
Error(r) ==
  /\ Complete(r, "error", 0)
  /\ UNCHANGED <<ring, data, eofs>>

NoBufs(r) ==
  /\ ring = <<>>
  /\ Complete(r, "nobufs", 0)
  /\ UNCHANGED <<ring, data, eofs>>

-----------------------------------------------------------------------------
(* ring_buf_receive.                                                        *)

Receive(r) ==
  /\ state[r] = "idle"
  /\ state' = [state EXCEPT ![r] = "receiving"]
  /\ UNCHANGED <<ring, count, isSetUp, data, cqe, eofs, damage, crashed>>

\* io_uring_buf_ring_add writes at tail & mask: a buffer too many overwrites the
\* entries that wrap around to the same place.
RepayForgotten(b) == ring
RepayNext(b) == Append(ring, (b + 1) % Entries(count))
Repay(b) ==
  LET n == Len(ring) + 1 IN
  [i \in 1 .. n |-> IF (n - i) % Entries(count) = 0 THEN b ELSE ring[i]]

DamageAfter(r) ==
  IF Len(ring) = Entries(count) THEN "all"
  ELSE IF cqe[r].res = "eof" /\ damage = "none" THEN "eof" ELSE damage

\* Data that has been copied out is of no interest any more.
Copied(r) ==
  [data EXCEPT ![cqe[r].bid] = IF @ = r THEN NoReader ELSE @]

\* copy_data and repay, with nothing in between.
CopyAndRepay(r) ==
  /\ state[r] = "posted" /\ cqe[r].res \in {"data", "eof"}
  /\ IF isSetUp
     THEN ring' = Repay(cqe[r].bid) /\ UNCHANGED crashed
     ELSE crashed' = TRUE /\ UNCHANGED ring
  /\ state' = [state EXCEPT ![r] = "idle"]
  /\ damage' = DamageAfter(r)
  /\ cqe' = [cqe EXCEPT ![r] = NoCqe]
  /\ data' = Copied(r)
  /\ UNCHANGED <<count, isSetUp, eofs>>

\* prep_recv_in_ring_buf throws; whoever catches it may receive again, as after
\* an exception of extend_buffer.
Throw(r) ==
  /\ state[r] = "posted" /\ cqe[r].res = "error"
  /\ state' = [state EXCEPT ![r] = "idle"]
  /\ cqe' = [cqe EXCEPT ![r] = NoCqe]
  /\ UNCHANGED <<ring, count, isSetUp, data, eofs, damage, crashed>>

\* buffer_.resize keeps the old contents.
GrowthForgotten(n) == data
Grown(n) == [b \in Ids(n) |-> IF b \in DOMAIN data THEN data[b] ELSE NoReader]

\* extend_buffer after -ENOBUFS: release (of the ring, if there is one), set up a
\* larger ring, publish all of it, and receive again.  A ring the kernel refuses
\* makes it throw, with buf_count_ and buffer_ grown and no ring.
Extend(r) ==
  /\ state[r] = "posted" /\ cqe[r].res = "nobufs" /\ count < MaxCount
  /\ count' = count + 1
  /\ data' = Grown(count')
  /\ isSetUp' = (count' <= MaxRing)
  /\ ring' = IF isSetUp' THEN AllIds(count') ELSE <<>>
  /\ state' = [state EXCEPT ![r] = IF isSetUp' THEN "receiving" ELSE "idle"]
  /\ cqe' = [cqe EXCEPT ![r] = NoCqe]
  /\ damage' = "all"
  /\ UNCHANGED <<eofs, crashed>>

-----------------------------------------------------------------------------
Step(r) ==
  \/ Data(r) \/ Eof(r) \/ NoBufs(r) \/ Error(r)
  \/ Receive(r) \/ CopyAndRepay(r) \/ Throw(r) \/ Extend(r)

Next == ~crashed /\ \E r \in Reader : Step(r)

SafeSpec == Init /\ [][Next]_vars

-----------------------------------------------------------------------------
Posted == {r \in Reader : state[r] = "posted" /\ cqe[r].res = "data"}

\* Every component has its type, and the ring names buffers that exist.
TypeOK ==
  /\ count \in 1 .. MaxCount
  /\ ring \in Seq(Ids(count))
  /\ isSetUp \in BOOLEAN /\ crashed \in BOOLEAN
  /\ damage \in {"none", "eof", "all"}
  /\ data \in [Ids(count) -> Reader \cup {NoReader}]
  /\ state \in [Reader -> {"idle", "receiving", "posted"}]
  /\ cqe \in [Reader -> [res : {"none", "data", "eof", "nobufs", "error"}, bid : Ids(count)]]
  /\ eofs \in 0 .. MaxEofs

\* The buffers that are still accounted for.
Sound ==
  IF damage = "none" THEN Ids(count)
  ELSE IF damage = "eof" THEN Ids(count) \ {0} ELSE {}

\* Each buffer is in one place: published once, or held by one completion
\* (buffer.hpp:28-34, 58-63), neither lost nor given to the kernel while a
\* completion still refers to it.  A connection that ends costs buffer 0 first
\* (connection.hpp:104-110), and all of them once the ring is overfull.
BuffersInOnePlace ==
  \A b \in Sound :
    Cardinality({i \in 1 .. Len(ring) : ring[i] = b})
      + Cardinality({r \in Posted : cqe[r].bid = b}) = 1

\* What copy_data (connection.hpp:108) reads is what was received on that very
\* connection, in every buffer that is accounted for.
ReceivesOwnData ==
  \A r \in Posted : cqe[r].bid \in Sound => data[cqe[r].bid] = r

\* copy_data stays inside buffer_ (buffer.hpp:23-26), whatever happened between
\* the completion and the copy, extensions by other coroutines included.
CopyInBounds == \A r \in Posted : cqe[r].bid \in DOMAIN data
=============================================================================
