--------------------------- MODULE BufferRingProofs ---------------------------
(***************************************************************************)
(* Proofs about BufferRing, for any number of readers and buffers.         *)
(***************************************************************************)
EXTENDS BufferRing, FiniteSetTheorems, TLAPS

-----------------------------------------------------------------------------
(* The inductive invariant.                                                 *)

InRing(b) == {i \in 1 .. Len(ring) : ring[i] = b}
HeldBy(b) == {r \in Posted : cqe[r].bid = b}

OnePlace(b) ==
  \/ HeldBy(b) = {} /\ \E i \in 1 .. Len(ring) : InRing(b) = {i}
  \/ InRing(b) = {} /\ \E r \in Reader : HeldBy(b) = {r}

\* Until the ring is overfull or extended, it is there, with room for every
\* buffer.
PlaceInv ==
  /\ damage # "all" => isSetUp /\ Len(ring) <= Entries(count)
  /\ \A b \in Sound : OnePlace(b)

\* The flags of a completion of 0 bytes are read as buffer 0.
EofInv == \A r \in Reader : cqe[r].res = "eof" => cqe[r].bid = 0

IInv == TypeOK /\ PlaceInv /\ EofInv /\ ReceivesOwnData

-----------------------------------------------------------------------------
(* Sizes.                                                                   *)

LEMMA EntriesFacts ==
  ASSUME NEW n \in Nat \ {0}
  PROVE  /\ Entries(n) \in Nat \ {0}
         /\ 0 \in Ids(n)
         /\ Ids(n) \subseteq Ids(n + 1)
<1>1. NBuffers \in Nat \ {0}
  BY SizeAssumption
<1>2. NBuffers * n \in Nat \ {0} /\ NBuffers * (n + 1) = NBuffers * n + NBuffers
  BY <1>1
<1> QED
  BY <1>1, <1>2 DEF Entries, Ids

LEMMA SmallMod ==
  ASSUME NEW m \in Nat \ {0}, NEW x \in 0 .. m - 1
  PROVE  x % m = x
  BY SMT

LEMMA CountType == TypeOK => count \in Nat \ {0}
  BY DEF TypeOK

\* Repaying appends; only what does not fit overwrites.
LEMMA RepayFacts ==
  ASSUME TypeOK, NEW b \in Ids(count)
  PROVE  /\ Repay(b) \in Seq(Ids(count))
         /\ Len(Repay(b)) = Len(ring) + 1
         /\ Len(ring) < Entries(count) =>
              /\ Repay(b)[Len(ring) + 1] = b
              /\ \A i \in 1 .. Len(ring) : Repay(b)[i] = ring[i]
<1> DEFINE n == Len(ring) + 1
           m == Entries(count)
<1>1. m \in Nat \ {0}
  BY CountType, EntriesFacts
<1>2. ring \in Seq(Ids(count)) /\ Len(ring) \in Nat
  BY DEF TypeOK
<1>3. Repay(b) = [i \in 1 .. n |-> IF (n - i) % m = 0 THEN b ELSE ring[i]]
  BY DEF Repay
<1> HIDE DEF m
<1>4. (n - n) % m = 0
  BY <1>1, <1>2, SmallMod
<1>5. ASSUME NEW i \in 1 .. n
      PROVE  Repay(b)[i] \in Ids(count)
  <2>1. CASE i = n
    BY <1>3, <1>4, <2>1
  <2>2. CASE i # n
    BY <1>2, <1>3, <2>2
  <2> QED
    BY <2>1, <2>2
<1>6. Len(Repay(b)) = n /\ Repay(b) \in Seq(Ids(count))
  BY <1>2, <1>3, <1>5
<1>7. ASSUME Len(ring) < m, NEW i \in 1 .. Len(ring)
      PROVE  Repay(b)[i] = ring[i]
  <2>1. n - i \in 0 .. m - 1 /\ n - i # 0
    BY <1>1, <1>2, <1>7
  <2>2. (n - i) % m # 0
    BY <1>1, <2>1, SmallMod
  <2> QED
    BY <1>2, <1>3, <2>2
<1>8. Repay(b)[n] = b
  BY <1>2, <1>3, <1>4
<1> QED
  BY <1>6, <1>7, <1>8 DEF m

-----------------------------------------------------------------------------
(* Initially.                                                               *)

LEMMA AllIdsFacts ==
  ASSUME NEW n \in Nat \ {0}
  PROVE  /\ AllIds(n) \in Seq(Ids(n))
         /\ Len(AllIds(n)) = Entries(n)
         /\ \A i \in 1 .. Entries(n) : AllIds(n)[i] = i - 1
<1>1. Entries(n) \in Nat
  BY EntriesFacts
<1> QED
  BY <1>1 DEF AllIds, Ids

LEMMA InitIInv == Init => IInv
<1> SUFFICES ASSUME Init PROVE IInv
  OBVIOUS
<1> USE DEF Init
<1>1. Entries(1) \in Nat \ {0} /\ 0 \in Ids(1)
  BY EntriesFacts
<1>2. 1 \in 1 .. MaxCount
  BY SizeAssumption
<1>3. ring \in Seq(Ids(1)) /\ Len(ring) = Entries(1)
      /\ \A i \in 1 .. Entries(1) : ring[i] = i - 1
  BY AllIdsFacts
<1>4. TypeOK
  <2>1. cqe \in [Reader -> [res : {"none", "data", "eof", "nobufs", "error"}, bid : Ids(1)]]
    BY <1>1 DEF NoCqe
  <2>2. eofs \in 0 .. MaxEofs
    BY SizeAssumption
  <2> QED
    BY <1>2, <1>3, <2>1, <2>2 DEF TypeOK
<1>5. Posted = {}
  BY DEF Posted
<1>6. PlaceInv
  <2>1. ASSUME NEW b \in Sound
        PROVE  OnePlace(b)
    <3>1. b \in 0 .. Entries(1) - 1 /\ b + 1 \in 1 .. Len(ring)
      BY <1>1, <1>3, <2>1 DEF Sound, Ids
    <3>2. InRing(b) = {b + 1}
      BY <1>3, <3>1 DEF InRing
    <3>3. HeldBy(b) = {}
      BY <1>5 DEF HeldBy
    <3> QED
      BY <3>1, <3>2, <3>3 DEF OnePlace
  <2> QED
    BY <1>1, <1>3, <2>1 DEF PlaceInv
<1>7. ReceivesOwnData
  BY <1>5 DEF ReceivesOwnData
<1>8. EofInv
  BY DEF EofInv, NoCqe
<1> QED
  BY <1>4, <1>6, <1>7, <1>8 DEF IInv

-----------------------------------------------------------------------------
(* Steps.                                                                   *)

\* A step that moves no buffer and changes no completion with data.
LEMMA PlacesKept ==
  ASSUME PlaceInv, ReceivesOwnData,
         UNCHANGED <<ring, count, isSetUp, damage, data>>,
         Posted' = Posted, \A r \in Posted : cqe'[r] = cqe[r]
  PROVE  PlaceInv' /\ ReceivesOwnData'
<1>1. Sound' = Sound
  BY DEF Sound
<1>2. \A b : InRing(b)' = InRing(b) /\ HeldBy(b)' = HeldBy(b)
  BY DEF InRing, HeldBy
<1>3. \A b : OnePlace(b) => OnePlace(b)'
  BY <1>2 DEF OnePlace
<1> QED
  BY <1>1, <1>3 DEF PlaceInv, ReceivesOwnData

Cqe == [res : {"none", "data", "eof", "nobufs", "error"}, bid : Ids(count)]

\* A completion without a buffer, a call, or an exception.
LEMMA ReaderStep ==
  ASSUME IInv, NEW r \in Reader,
         r \notin Posted, r \notin Posted',
         \A x \in Reader \ {r} : state'[x] = state[x] /\ cqe'[x] = cqe[x],
         state' \in [Reader -> {"idle", "receiving", "posted"}],
         cqe' \in [Reader -> Cqe], EofInv', eofs' \in 0 .. MaxEofs,
         UNCHANGED <<ring, count, isSetUp, data, damage, crashed>>
  PROVE  IInv'
<1>1. TypeOK'
  BY DEF IInv, TypeOK, Cqe
<1>2. Posted' = Posted /\ \A x \in Posted : cqe'[x] = cqe[x]
  BY DEF Posted
<1> QED
  BY <1>1, <1>2, PlacesKept DEF IInv

\* The buffer at the head of the ring goes to the completion of r.
LEMMA DataStep ==
  ASSUME IInv, NEW r \in Reader, Data(r)
  PROVE  IInv'
<1>0. PICK h : h = Head(ring)
  OBVIOUS
<1>1. /\ ring \in Seq(Ids(count)) /\ ring # <<>> /\ ring' = Tail(ring)
      /\ state[r] = "receiving" /\ state' = [state EXCEPT ![r] = "posted"]
      /\ cqe' = [cqe EXCEPT ![r] = [res |-> "data", bid |-> h]]
      /\ data' = [data EXCEPT ![h] = r]
      /\ UNCHANGED <<count, isSetUp, damage, crashed, eofs>>
  BY <1>0 DEF Data, Complete, IInv, TypeOK
<1>2. /\ h \in Ids(count) /\ h = ring[1] /\ Len(ring) \in Nat \ {0}
      /\ Len(ring') = Len(ring) - 1
      /\ \A i \in 1 .. Len(ring') : ring'[i] = ring[i + 1]
      /\ ring' \in Seq(Ids(count))
  BY <1>0, <1>1
<1>3. TypeOK'
  <2>1. cqe' \in [Reader -> [res : {"none", "data", "eof", "nobufs", "error"}, bid : Ids(count)]]
    BY <1>1, <1>2 DEF IInv, TypeOK
  <2>2. state' \in [Reader -> {"idle", "receiving", "posted"}]
    BY <1>1 DEF IInv, TypeOK
  <2>3. data' \in [Ids(count) -> Reader \cup {NoReader}]
    BY <1>1, <1>2 DEF IInv, TypeOK
  <2> QED
    BY <1>1, <1>2, <2>1, <2>2, <2>3 DEF IInv, TypeOK
<1>5. /\ Posted' = Posted \cup {r} /\ r \notin Posted
      /\ cqe'[r].bid = h /\ \A x \in Posted : cqe'[x] = cqe[x]
  BY <1>1 DEF Posted, IInv, TypeOK
<1>6. Sound' = Sound
  BY <1>1 DEF Sound
<1>7. \A b : b # h => HeldBy(b)' = HeldBy(b)
  BY <1>5 DEF HeldBy
<1>8. HeldBy(h)' = HeldBy(h) \cup {r}
  BY <1>5 DEF HeldBy
<1>9. ASSUME NEW b \in Sound
      PROVE  OnePlace(b)'
  <2>1. OnePlace(b)
    BY <1>9 DEF IInv, PlaceInv
  <2>2. \A i \in 1 .. Len(ring') : i + 1 \in 1 .. Len(ring) /\ ring'[i] = ring[i + 1]
    BY <1>2
  <2>3. CASE b = h
    <3>1. 1 \in InRing(b)
      BY <1>2, <2>3 DEF InRing
    <3>2. HeldBy(b) = {} /\ InRing(b) = {1}
      BY <2>1, <3>1 DEF OnePlace
    <3>3. InRing(b)' = {}
      <4>1. ASSUME NEW i \in 1 .. Len(ring')
            PROVE  ring'[i] # b
        <5>1. i + 1 \in 1 .. Len(ring) /\ ring'[i] = ring[i + 1] /\ i + 1 # 1
          BY <1>2, <2>2
        <5>2. ring[i + 1] = b => i + 1 \in InRing(b)
          BY <5>1 DEF InRing
        <5> QED
          BY <3>2, <5>1, <5>2
      <4> QED
        BY <4>1 DEF InRing
    <3> QED
      BY <1>8, <2>3, <3>2, <3>3 DEF OnePlace
  <2>4. CASE b # h
    <3>1. HeldBy(b)' = HeldBy(b)
      BY <1>7, <2>4
    <3>2. CASE HeldBy(b) = {} /\ \E i \in 1 .. Len(ring) : InRing(b) = {i}
      <4>1. PICK i \in 1 .. Len(ring) : InRing(b) = {i}
        BY <3>2
      <4>2. i # 1 /\ ring[i] = b
        BY <1>2, <2>4, <4>1 DEF InRing
      <4>3. i - 1 \in 1 .. Len(ring') /\ ring'[i - 1] = b
        BY <1>2, <4>1, <4>2
      <4>4. \A j \in 1 .. Len(ring') : ring'[j] = b => j = i - 1
        BY <1>2, <2>2, <4>1 DEF InRing
      <4>5. InRing(b)' = {i - 1}
        BY <4>3, <4>4 DEF InRing
      <4> QED
        BY <3>1, <3>2, <4>3, <4>5 DEF OnePlace
    <3>3. CASE InRing(b) = {} /\ \E x \in Reader : HeldBy(b) = {x}
      <4>1. InRing(b)' = {}
        BY <2>2, <3>3 DEF InRing
      <4> QED
        BY <3>1, <3>3, <4>1 DEF OnePlace
    <3> QED
      BY <2>1, <3>2, <3>3 DEF OnePlace
  <2> QED
    BY <2>3, <2>4
<1>10. PlaceInv'
  <2>1. damage # "all" => isSetUp /\ Len(ring') <= Entries(count)
    <3>1. Entries(count) \in Nat
      BY CountType, EntriesFacts DEF IInv
    <3> QED
      BY <1>2, <3>1 DEF IInv, PlaceInv
  <2> QED
    BY <1>1, <1>6, <1>9, <2>1 DEF PlaceInv, Entries
<1>11. ReceivesOwnData'
  <2> SUFFICES ASSUME NEW x \in Posted', cqe'[x].bid \in Sound'
               PROVE  data'[cqe'[x].bid] = x
    BY DEF ReceivesOwnData
  <2>1. CASE x = r
    BY <1>1, <1>2, <1>5, <2>1 DEF IInv, TypeOK
  <2>2. CASE x # r
    <3>1. x \in Posted /\ cqe'[x] = cqe[x] /\ cqe[x].bid \in Sound
      BY <1>5, <1>6, <2>2
    <3>2. cqe[x].bid # h
      <4>1. SUFFICES ASSUME cqe[x].bid = h PROVE FALSE
        OBVIOUS
      <4>2. x \in HeldBy(h) /\ 1 \in InRing(h) /\ OnePlace(h)
        BY <1>2, <3>1, <4>1 DEF HeldBy, InRing, IInv, PlaceInv
      <4> QED
        BY <4>2 DEF OnePlace
    <3>3. data[cqe[x].bid] = x
      BY <3>1 DEF IInv, ReceivesOwnData
    <3> QED
      BY <1>1, <3>1, <3>2, <3>3 DEF IInv, TypeOK
  <2> QED
    BY <2>1, <2>2
<1>12. EofInv'
  BY <1>1 DEF IInv, EofInv, TypeOK
<1> QED
  BY <1>3, <1>10, <1>11, <1>12 DEF IInv

\* The buffer that r has copied from goes to the end of the ring.
LEMMA CopyAndRepayStep ==
  ASSUME IInv, NEW r \in Reader, CopyAndRepay(r)
  PROVE  IInv'
<1>0. PICK h : h = cqe[r].bid
  OBVIOUS
<1>1. /\ state[r] = "posted" /\ cqe[r].res \in {"data", "eof"} /\ h \in Ids(count)
      /\ state' = [state EXCEPT ![r] = "idle"]
      /\ cqe' = [cqe EXCEPT ![r] = NoCqe]
      /\ damage' = DamageAfter(r)
      /\ IF isSetUp THEN ring' = Repay(h) /\ crashed' = crashed
                    ELSE crashed' = TRUE /\ ring' = ring
      /\ UNCHANGED <<count, isSetUp, eofs>>
  BY <1>0 DEF CopyAndRepay, IInv, TypeOK
<1>5. /\ data' \in [Ids(count) -> Reader \cup {NoReader}]
      /\ \A b \in Ids(count) : data[b] # r => data'[b] = data[b]
  BY DEF CopyAndRepay, Copied, IInv, TypeOK
<1>2. /\ Repay(h) \in Seq(Ids(count))
      /\ Len(Repay(h)) = Len(ring) + 1
      /\ Len(ring) < Entries(count) =>
           /\ Repay(h)[Len(ring) + 1] = h
           /\ \A i \in 1 .. Len(ring) : Repay(h)[i] = ring[i]
  BY <1>1, RepayFacts DEF IInv
<1>3. 0 \in Ids(count) /\ Entries(count) \in Nat \ {0}
  BY CountType, EntriesFacts DEF IInv
<1>4. TypeOK'
  <2>1. cqe' \in [Reader -> [res : {"none", "data", "eof", "nobufs", "error"}, bid : Ids(count)]]
    BY <1>1, <1>3 DEF NoCqe, IInv, TypeOK
  <2>2. state' \in [Reader -> {"idle", "receiving", "posted"}]
    BY <1>1 DEF IInv, TypeOK
  <2>3. ring' \in Seq(Ids(count)) /\ crashed' \in BOOLEAN
    BY <1>1, <1>2 DEF IInv, TypeOK
  <2>4. damage' \in {"none", "eof", "all"}
    BY <1>1 DEF DamageAfter, IInv, TypeOK
  <2> QED
    BY <1>1, <1>5, <2>1, <2>2, <2>3, <2>4 DEF IInv, TypeOK
<1>6. EofInv'
  BY <1>1 DEF NoCqe, IInv, EofInv, TypeOK
<1>7. /\ Posted' = Posted \ {r} /\ \A x \in Posted \ {r} : cqe'[x] = cqe[x]
      /\ r \in Posted <=> cqe[r].res = "data"
  BY <1>1 DEF NoCqe, Posted, IInv, TypeOK
<1>8. CASE damage' = "all"
  <2>1. Sound' = {}
    BY <1>8 DEF Sound
  <2> QED
    BY <1>4, <1>6, <1>8, <2>1 DEF IInv, PlaceInv, ReceivesOwnData
<1>9. CASE damage' # "all"
  <2>1. damage # "all" /\ Len(ring) # Entries(count)
    BY <1>1, <1>9 DEF DamageAfter
  <2>2. isSetUp /\ Len(ring) < Entries(count) /\ Len(ring) \in Nat
    BY <1>3, <2>1 DEF IInv, PlaceInv, TypeOK
  <2>3. /\ Len(ring') = Len(ring) + 1 /\ ring'[Len(ring) + 1] = h
        /\ \A i \in 1 .. Len(ring) : ring'[i] = ring[i]
    BY <1>1, <1>2, <2>2
  <2>4. Sound' \subseteq Sound /\ (cqe[r].res = "eof" => h = 0 /\ 0 \notin Sound')
    BY <1>0, <1>1, <1>9, <2>1 DEF DamageAfter, Sound, IInv, EofInv, TypeOK
  <2>5. ASSUME NEW b \in Sound'
        PROVE  OnePlace(b)'
    <3>1. OnePlace(b)
      BY <2>4 DEF IInv, PlaceInv
    <3>2. CASE b = h
      <4>1. r \in HeldBy(b)
        BY <1>0, <1>1, <1>7, <2>4, <3>2 DEF HeldBy
      <4>2. InRing(b) = {} /\ HeldBy(b) = {r}
        BY <3>1, <4>1 DEF OnePlace
      <4>3. HeldBy(b)' = {}
        BY <1>7, <4>2 DEF HeldBy
      <4>4. InRing(b)' = {Len(ring) + 1}
        BY <2>2, <2>3, <3>2, <4>2 DEF InRing
      <4>5. Len(ring) + 1 \in 1 .. Len(ring')
        BY <2>2, <2>3
      <4> QED
        BY <4>3, <4>4, <4>5 DEF OnePlace
    <3>3. CASE b # h
      <4>1. HeldBy(b)' = HeldBy(b)
        BY <1>0, <1>7, <3>3 DEF HeldBy
      <4>2. InRing(b)' = InRing(b)
        BY <2>2, <2>3, <3>3 DEF InRing
      <4>3. \A i \in 1 .. Len(ring) : i \in 1 .. Len(ring')
        BY <2>2, <2>3
      <4> QED
        BY <3>1, <4>1, <4>2, <4>3 DEF OnePlace
    <3> QED
      BY <3>2, <3>3
  <2>6. Len(ring') <= Entries(count) /\ Entries(count)' = Entries(count)
    BY <1>1, <1>3, <2>2, <2>3 DEF Entries
  <2>7. PlaceInv'
    BY <1>1, <2>2, <2>5, <2>6 DEF PlaceInv
  <2>8. ReceivesOwnData'
    <3>1. ASSUME NEW x \in Posted', cqe'[x].bid \in Sound'
          PROVE  data'[cqe'[x].bid] = x
      <4>1. x \in Reader /\ x \in Posted /\ x # r /\ cqe'[x] = cqe[x]
        BY <1>7, <3>1 DEF Posted
      <4>2. cqe[x].bid \in Ids(count) /\ data[cqe[x].bid] = x
        BY <2>4, <3>1, <4>1 DEF IInv, TypeOK, ReceivesOwnData
      <4> QED
        BY <1>5, <4>1, <4>2
    <3> QED
      BY <3>1 DEF ReceivesOwnData
  <2> QED
    BY <1>4, <1>6, <2>7, <2>8 DEF IInv
<1> QED
  BY <1>8, <1>9

\* A larger ring, or none: nothing is promised of the buffers any more.
LEMMA ExtendStep ==
  ASSUME IInv, NEW r \in Reader, Extend(r)
  PROVE  IInv'
<1>1. /\ state[r] = "posted" /\ count' = count + 1
      /\ isSetUp' = (count' <= MaxRing)
      /\ state' = [state EXCEPT ![r] = IF isSetUp' THEN "receiving" ELSE "idle"]
      /\ cqe' = [cqe EXCEPT ![r] = NoCqe]
      /\ damage' = "all" /\ UNCHANGED <<eofs, crashed>>
  BY DEF Extend
<1>2. /\ count \in Nat \ {0} /\ count' \in Nat \ {0}
      /\ Ids(count) \subseteq Ids(count') /\ 0 \in Ids(count')
  BY <1>1, CountType, EntriesFacts DEF IInv
<1>3. ring' \in Seq(Ids(count'))
  <2>1. AllIds(count') \in Seq(Ids(count')) /\ <<>> \in Seq(Ids(count'))
    BY <1>2, AllIdsFacts
  <2>2. ring' = AllIds(count') \/ ring' = <<>>
    BY Zenon DEF Extend
  <2> QED
    BY <2>1, <2>2
<1>4. data' \in [Ids(count') -> Reader \cup {NoReader}]
  BY DEF Extend, Grown, IInv, TypeOK
<1>5. cqe' \in [Reader -> [res : {"none", "data", "eof", "nobufs", "error"},
                           bid : Ids(count')]]
  <2>1. cqe \in [Reader -> [res : {"none", "data", "eof", "nobufs", "error"},
                            bid : Ids(count')]]
    BY <1>2 DEF IInv, TypeOK
  <2> QED
    BY <1>1, <1>2, <2>1 DEF NoCqe
<1>6. state' \in [Reader -> {"idle", "receiving", "posted"}]
  BY <1>1 DEF IInv, TypeOK
<1>7. count' \in 1 .. MaxCount
  <2>1. count < MaxCount
    BY DEF Extend
  <2> QED
    BY <1>1, <1>2, <2>1, SizeAssumption
<1>8. isSetUp' \in BOOLEAN
  <2>1. isSetUp' = (count' <= MaxRing)
    BY <1>1
  <2>2. (count' <= MaxRing) \in BOOLEAN
    OBVIOUS
  <2> QED
    BY <2>1, <2>2, Zenon
<1>9. TypeOK'
  BY <1>1, <1>3, <1>4, <1>5, <1>6, <1>7, <1>8 DEF IInv, TypeOK
<1>10. Sound' = {}
  BY <1>1 DEF Sound
<1>11. EofInv'
  BY <1>1 DEF NoCqe, IInv, EofInv, TypeOK
<1> QED
  BY <1>1, <1>9, <1>10, <1>11 DEF IInv, PlaceInv, ReceivesOwnData

LEMMA CompleteStep ==
  ASSUME IInv, NEW r \in Reader, NEW e \in {"eof", "nobufs", "error"},
         Complete(r, e, 0), eofs' \in 0 .. MaxEofs, UNCHANGED <<ring, data>>
  PROVE  IInv'
<1>1. /\ state[r] = "receiving" /\ state' = [state EXCEPT ![r] = "posted"]
      /\ cqe' = [cqe EXCEPT ![r] = [res |-> e, bid |-> 0]]
      /\ UNCHANGED <<count, isSetUp, damage, crashed>>
  BY DEF Complete
<1>2. 0 \in Ids(count)
  BY CountType, EntriesFacts DEF IInv
<1>3. /\ state' \in [Reader -> {"idle", "receiving", "posted"}]
      /\ cqe' \in [Reader -> Cqe] /\ cqe'[r].res = e
  BY <1>1, <1>2 DEF IInv, TypeOK, Cqe
<1>4. r \notin Posted /\ r \notin Posted' /\ EofInv'
  BY <1>1, <1>3 DEF Posted, EofInv, IInv, TypeOK
<1>5. \A x \in Reader \ {r} : state'[x] = state[x] /\ cqe'[x] = cqe[x]
  BY <1>1 DEF IInv, TypeOK
<1> QED
  BY <1>1, <1>3, <1>4, <1>5, ReaderStep

LEMMA CallStep ==
  ASSUME IInv, NEW r \in Reader, Receive(r) \/ Throw(r)
  PROVE  IInv'
<1>1. /\ state[r] = "idle" \/ (state[r] = "posted" /\ cqe[r].res = "error")
      /\ \E s \in {"receiving", "idle"} : state' = [state EXCEPT ![r] = s]
      /\ cqe' = cqe \/ cqe' = [cqe EXCEPT ![r] = NoCqe]
      /\ UNCHANGED <<ring, count, isSetUp, data, eofs, damage, crashed>>
  BY DEF Receive, Throw
<1>2. 0 \in Ids(count)
  BY CountType, EntriesFacts DEF IInv
<1>3. /\ state' \in [Reader -> {"idle", "receiving", "posted"}]
      /\ cqe' \in [Reader -> Cqe] /\ EofInv' /\ eofs' \in 0 .. MaxEofs
  <2>1. NoCqe \in Cqe /\ NoCqe.res # "eof" /\ cqe \in [Reader -> Cqe]
    BY <1>2 DEF IInv, TypeOK, Cqe, NoCqe
  <2>2. cqe' \in [Reader -> Cqe] /\ EofInv'
    BY <1>1, <2>1 DEF IInv, EofInv
  <2> QED
    BY <1>1, <2>2 DEF IInv, TypeOK
<1>4. r \notin Posted /\ r \notin Posted'
  BY <1>1 DEF Posted, IInv, TypeOK
<1>5. \A x \in Reader \ {r} : state'[x] = state[x] /\ cqe'[x] = cqe[x]
  BY <1>1 DEF IInv, TypeOK
<1> QED
  BY <1>1, <1>3, <1>4, <1>5, ReaderStep

LEMMA NextIInv == IInv /\ [Next]_vars => IInv'
<1> SUFFICES ASSUME IInv, [Next]_vars PROVE IInv'
  OBVIOUS
<1>1. CASE UNCHANGED vars
  <2> USE <1>1 DEF vars, IInv, Entries, Ids
  <2>1. TypeOK'
    BY DEF TypeOK, Cqe, NoCqe
  <2>2. Posted' = Posted /\ Sound' = Sound
    BY DEF Posted, Sound
  <2>3. \A b : OnePlace(b)' = OnePlace(b)
    BY <2>2 DEF OnePlace, InRing, HeldBy
  <2>4. PlaceInv'
    BY <2>2, <2>3 DEF PlaceInv
  <2>5. EofInv'
    BY DEF EofInv
  <2>6. ReceivesOwnData'
    BY <2>2 DEF ReceivesOwnData
  <2> QED
    BY <2>1, <2>4, <2>5, <2>6
<1>2. ASSUME NEW r \in Reader, Step(r)
      PROVE  IInv'
  <2>1. CASE Data(r)
    BY <2>1, DataStep
  <2>2. CASE CopyAndRepay(r)
    BY <2>2, CopyAndRepayStep
  <2>3. CASE Extend(r)
    BY <2>3, ExtendStep
  <2>4. CASE Eof(r)
    <3>1. eofs' \in 0 .. MaxEofs
      BY <2>4, SizeAssumption DEF Eof, IInv, TypeOK
    <3> QED
      BY <2>4, <3>1, CompleteStep DEF Eof
  <2>5. CASE Error(r)
    BY <2>5, CompleteStep DEF Error, IInv, TypeOK
  <2>6. CASE NoBufs(r)
    BY <2>6, CompleteStep DEF NoBufs, IInv, TypeOK
  <2>7. CASE Receive(r) \/ Throw(r)
    BY <2>7, CallStep
  <2> QED
    BY <1>2, <2>1, <2>2, <2>3, <2>4, <2>5, <2>6, <2>7 DEF Step
<1> QED
  BY <1>1, <1>2 DEF Next

LEMMA Inductive == SafeSpec => []IInv
  BY InitIInv, NextIInv, PTL DEF SafeSpec

-----------------------------------------------------------------------------
\* Every component has its type, and the ring names buffers that exist however
\* often extend_buffer is refused and called again (buffer.hpp:36-64).
THEOREM TypeInvariant == SafeSpec => []TypeOK
<1>1. IInv => TypeOK
  BY DEF IInv
<1> QED
  BY Inductive, <1>1, PTL

\* Each buffer is published once or held by one completion (buffer.hpp:28-34,
\* 58-63), in whatever order the coroutines repay.
THEOREM EachBufferInOnePlace == SafeSpec => []BuffersInOnePlace
<1>1. IInv => BuffersInOnePlace
  <2> SUFFICES ASSUME IInv, NEW b \in Sound
               PROVE  Cardinality(InRing(b)) + Cardinality(HeldBy(b)) = 1
    BY DEF BuffersInOnePlace, InRing, HeldBy
  <2>1. OnePlace(b)
    BY DEF IInv, PlaceInv
  <2>2. \A x : Cardinality({x}) = 1
    BY FS_Singleton
  <2>3. Cardinality({}) = 0
    BY FS_EmptySet
  <2>4. \/ Cardinality(InRing(b)) = 1 /\ Cardinality(HeldBy(b)) = 0
        \/ Cardinality(InRing(b)) = 0 /\ Cardinality(HeldBy(b)) = 1
    BY <2>1, <2>2, <2>3, Zenon DEF OnePlace
  <2> QED
    BY <2>4
<1> QED
  BY Inductive, <1>1, PTL

\* What is copied out (connection.hpp:108) was received on that connection.
THEOREM OwnDataReceived == SafeSpec => []ReceivesOwnData
<1>1. IInv => ReceivesOwnData
  BY DEF IInv
<1> QED
  BY Inductive, <1>1, PTL

\* The copy stays inside buffer_, which other coroutines extend in the meantime
\* (buffer.hpp:23-26, 39-56).
THEOREM CopiesInBounds == SafeSpec => []CopyInBounds
<1>1. IInv => CopyInBounds
  BY DEF IInv, TypeOK, CopyInBounds, Posted
<1> QED
  BY Inductive, <1>1, PTL
=============================================================================
