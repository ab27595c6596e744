---------------------------- MODULE DispatchProofs ----------------------------
(***************************************************************************)
(* MultishotAccept implements Dispatch: what the chains of requests, the   *)
(* completions and the two lists of slots amount to is that the accepted   *)
(* connections go to the workers in turn, in the order of their accepts,   *)
(* and that a worker gets the file of each while no task has ended.        *)
(***************************************************************************)
EXTENDS MultishotAcceptProofs, FiniteSetTheorems

-----------------------------------------------------------------------------
(* The k-th element of a finite set of numbers.                             *)

LEMMA RankFacts ==
  ASSUME NEW n \in Nat, NEW I \in SUBSET (1 .. n)
  PROVE  /\ IsFiniteSet(I) /\ Cardinality(I) \in Nat
         /\ \A i \in I : Rank(I, i) \in 1 .. Cardinality(I)
         /\ \A i, j \in I : i < j => Rank(I, i) < Rank(I, j)
<1>1. IsFiniteSet(I) /\ Cardinality(I) \in Nat
  <2>1. IsFiniteSet(1 .. n)
    BY FS_Interval
  <2> QED
    BY <2>1, FS_Subset, FS_CardinalityType
<1>0. \A i \in I : i \in Nat
  OBVIOUS
<1> DEFINE Upto(i) == {j \in I : j <= i}
<1>2. \A i : Upto(i) \in SUBSET I
  OBVIOUS
<1>3. \A i : /\ IsFiniteSet(Upto(i)) /\ Cardinality(Upto(i)) \in Nat
             /\ Cardinality(Upto(i)) <= Cardinality(I)
  BY <1>1, <1>2, FS_Subset, FS_CardinalityType
<1>4. ASSUME NEW i \in I
      PROVE  Cardinality(Upto(i)) >= 1
  <2>1. i \in Upto(i)
    OBVIOUS
  <2>2. Upto(i) # {}
    BY <2>1
  <2>3. Cardinality(Upto(i)) # 0
    BY <1>3, <2>2, FS_EmptySet
  <2> QED
    BY <1>3, <2>3
<1>5. ASSUME NEW i \in I, NEW j \in I, i < j
      PROVE  Cardinality(Upto(i)) < Cardinality(Upto(j))
  <2>1. Upto(i) \in SUBSET Upto(j) /\ j \in Upto(j) /\ j \notin Upto(i)
    <3>1. i \in Nat /\ j \in Nat /\ j <= j /\ ~(j <= i)
      BY <1>0, <1>5
    <3>2. \A x \in I : x <= i => x <= j
      BY <1>0, <1>5, <3>1
    <3> QED
      BY <3>1, <3>2
  <2>2. Upto(i) # Upto(j)
    BY <2>1
  <2> HIDE DEF Upto
  <2>3. /\ Cardinality(Upto(i)) <= Cardinality(Upto(j))
        /\ Cardinality(Upto(i)) # Cardinality(Upto(j))
    BY <1>3, <2>1, <2>2, FS_Subset
  <2>4. Cardinality(Upto(i)) \in Nat /\ Cardinality(Upto(j)) \in Nat
    BY <1>3
  <2> QED
    BY <2>3, <2>4, SMT
<1>6. \A i : Rank(I, i) = Cardinality(Upto(i))
  BY DEF Rank
<1> HIDE DEF Upto
<1> QED
  BY <1>1, <1>3, <1>4, <1>5, <1>6

\* The ranks of the elements are 1 to their number, so Nth is what it says.
LEMMA NthFacts ==
  ASSUME NEW n \in Nat, NEW I \in SUBSET (1 .. n)
  PROVE  /\ \A k \in 1 .. Cardinality(I) : Nth(I, k) \in I /\ Rank(I, Nth(I, k)) = k
         /\ \A i \in I : Nth(I, Rank(I, i)) = i
         /\ \A k, m \in 1 .. Cardinality(I) : k < m => Nth(I, k) < Nth(I, m)
<1>0. \A i \in I : i \in Int
  OBVIOUS
<1> DEFINE K == 1 .. Cardinality(I)
           f == [i \in I |-> Rank(I, i)]
<1>1. /\ IsFiniteSet(I) /\ Cardinality(I) \in Nat
      /\ \A i \in I : Rank(I, i) \in K
      /\ \A i, j \in I : i < j => Rank(I, i) < Rank(I, j)
  BY RankFacts
<1>2. \A i, j \in I : Rank(I, i) = Rank(I, j) => i = j
  <2> SUFFICES ASSUME NEW i \in I, NEW j \in I, Rank(I, i) = Rank(I, j)
               PROVE  i = j
    OBVIOUS
  <2>1. ~(i < j) /\ ~(j < i)
    BY <1>1
  <2> QED
    BY <2>1
<1>3. IsFiniteSet(K) /\ Cardinality(K) = Cardinality(I)
  BY <1>1, FS_Interval
<1> HIDE DEF K
<1>4. f \in Injection(I, K)
  BY <1>1, <1>2 DEF Injection, IsInjective
<1>5. f \in Surjection(I, K)
  BY <1>3, <1>4, FS_Injection
<1>6. \A k \in K : \E i \in I : Rank(I, i) = k
  BY <1>5 DEF Surjection
<1>7. \A k \in K : Nth(I, k) \in I /\ Rank(I, Nth(I, k)) = k
  BY <1>6 DEF Nth
<1>8. \A i \in I : Nth(I, Rank(I, i)) = i
  BY <1>1, <1>2, <1>7
<1>9. ASSUME NEW k \in K, NEW m \in K, k < m
      PROVE  Nth(I, k) < Nth(I, m)
  <2>1. /\ Nth(I, k) \in I /\ Rank(I, Nth(I, k)) = k
        /\ Nth(I, m) \in I /\ Rank(I, Nth(I, m)) = m
    BY <1>7
  <2>2. k \in Nat /\ m \in Nat /\ ~(m < k) /\ m # k
    BY <1>1, <1>9 DEF K
  <2>3. ~(Nth(I, m) < Nth(I, k)) /\ Nth(I, m) # Nth(I, k)
    BY <1>1, <2>1, <2>2, Zenon
  <2>4. Nth(I, k) \in Int /\ Nth(I, m) \in Int
    BY <1>0, <2>1
  <2> QED
    BY <2>3, <2>4, SMT
<1> QED
  BY <1>7, <1>8, <1>9 DEF K

\* An ascending enumeration of a set is Nth.
LEMMA NthUnique ==
  ASSUME NEW n \in Nat, NEW I \in SUBSET (1 .. n), NEW m \in Nat,
         NEW f \in [1 .. m -> I],
         \A a, b \in 1 .. m : a < b => f[a] < f[b],
         \A i \in I : \E a \in 1 .. m : f[a] = i
  PROVE  /\ Cardinality(I) = m
         /\ \A k \in 1 .. m : Nth(I, k) = f[k]
<1>0. \A a \in 1 .. m : f[a] \in I /\ f[a] \in Nat
  <2>1. \A i \in I : i \in Nat
    OBVIOUS
  <2> QED
    BY <2>1
<1>1. \A a, b \in 1 .. m : f[a] = f[b] => a = b
  <2> SUFFICES ASSUME NEW a \in 1 .. m, NEW b \in 1 .. m, f[a] = f[b]
               PROVE  a = b
    OBVIOUS
  <2>2. ASSUME NEW x \in 1 .. m, NEW y \in 1 .. m, x < y
        PROVE  f[x] # f[y]
    <3>1. f[x] < f[y] /\ f[x] \in Nat /\ f[y] \in Nat
      BY <1>0, <2>2
    <3> QED
      BY <3>1, SMT
  <2>2a. ~(a < b) /\ ~(b < a)
    BY <2>2
  <2>3. a \in Int /\ b \in Int
    OBVIOUS
  <2> QED
    BY <2>2a, <2>3, SMT
<1>2. ASSUME NEW k \in 0 .. m, NEW S, S = {f[a] : a \in 1 .. k}
      PROVE  Cardinality(S) = k
  <2> DEFINE g == [a \in 1 .. k |-> f[a]]
  <2>1. 1 .. k \subseteq 1 .. m /\ k \in Nat
    OBVIOUS
  <2> DEFINE J == 1 .. k
  <2>2. IsFiniteSet(J) /\ Cardinality(J) = k
    BY <2>1, FS_Interval
  <2>3. \A a, b \in J : g[a] = g[b] => a = b
    BY <1>1, <2>1
  <2>4. g \in [J -> S] /\ \A t \in S : \E a \in J : g[a] = t
    BY <1>2
  <2> HIDE DEF J, g
  <2>5. g \in Bijection(J, S)
    BY <2>3, <2>4 DEF Bijection, Injection, Surjection, IsInjective
  <2> QED
    BY <2>2, <2>5, FS_Bijection DEF ExistsBijection
<1>3. Cardinality(I) = m
  <2>1. \A i : i \in I <=> \E a \in 1 .. m : i = f[a]
    BY <1>0
  <2>2. I = {f[a] : a \in 1 .. m}
    BY <2>1, Zenon
  <2>3. m \in 0 .. m
    OBVIOUS
  <2> QED
    BY <1>2, <2>2, <2>3, Zenon
<1>4. ASSUME NEW k \in 1 .. m
      PROVE  Nth(I, k) = f[k]
  <2>1. {j \in I : j <= f[k]} = {f[a] : a \in 1 .. k}
    <3>1. ASSUME NEW a \in 1 .. m
          PROVE  f[a] <= f[k] <=> a <= k
      <4>1. f[a] \in Nat /\ f[k] \in Nat /\ a \in Nat /\ k \in Nat
        BY <1>0
      <4>2. /\ a < k => f[a] < f[k]
            /\ k < a => f[k] < f[a]
            /\ a = k => f[a] = f[k]
        OBVIOUS
      <4> QED
        BY <4>1, <4>2
    <3>2. \A a : a \in 1 .. k <=> a \in 1 .. m /\ a <= k
      OBVIOUS
    <3> QED
      BY <3>1, <3>2
  <2>2. Rank(I, f[k]) = k
    <3>1. k \in 0 .. m
      OBVIOUS
    <3> QED
      BY <1>2, <2>1, <3>1 DEF Rank
  <2>3. f[k] \in I
    OBVIOUS
  <2> QED
    BY <2>2, <2>3, NthFacts
<1> QED
  BY <1>3, <1>4

-----------------------------------------------------------------------------
(* The accepts among the completions of a ring, oldest first.               *)

Accepts(s) == {i \in 1 .. Len(s) : IsAccepted(s[i])}
InOrder(s) == [k \in 1 .. Cardinality(Accepts(s)) |-> s[Nth(Accepts(s), k)].of]

LEMMA InOrderFacts ==
  ASSUME NEW s \in Seq(Message)
  PROVE  /\ InOrder(s) \in Seq(Conn \cup {NoConn})
         /\ Cardinality(Accepts(s)) \in Nat
         /\ Len(InOrder(s)) = Cardinality(Accepts(s))
         /\ Len(s) \in Nat /\ Accepts(s) \in SUBSET (1 .. Len(s))
         /\ \A k \in 1 .. Cardinality(Accepts(s)) :
              Nth(Accepts(s), k) \in Accepts(s)
<1>1. Len(s) \in Nat /\ Accepts(s) \in SUBSET (1 .. Len(s))
  BY DEF Accepts
<1>2. PICK I : I = Accepts(s)
  OBVIOUS
<1>3. /\ Cardinality(I) \in Nat
      /\ \A k \in 1 .. Cardinality(I) : Nth(I, k) \in I /\ Nth(I, k) \in 1 .. Len(s)
  BY <1>1, <1>2, RankFacts, NthFacts
<1>4. \A i \in 1 .. Len(s) : s[i].of \in Conn \cup {NoConn}
  <2>1. \A e \in Message : e.of \in Conn \cup {NoConn}
    BY DEF Message
  <2>2. \A i \in 1 .. Len(s) : s[i] \in Message
    OBVIOUS
  <2> QED
    BY <2>1, <2>2
<1>5. InOrder(s) = [k \in 1 .. Cardinality(I) |-> s[Nth(I, k)].of]
  BY <1>2 DEF InOrder
<1>6. InOrder(s) \in [1 .. Cardinality(I) -> Conn \cup {NoConn}]
  BY <1>3, <1>4, <1>5
<1> QED
  BY <1>1, <1>2, <1>3, <1>6

\* The enumeration of the accepts of t is one of another sequence, moved.
LEMMA InOrderIs ==
  ASSUME NEW t \in Seq(Message), NEW m \in Nat, NEW f \in [1 .. m -> Accepts(t)],
         \A a, b \in 1 .. m : a < b => f[a] < f[b],
         \A i \in Accepts(t) : \E a \in 1 .. m : f[a] = i
  PROVE  Len(InOrder(t)) = m /\ \A k \in 1 .. m : InOrder(t)[k] = t[f[k]].of
<1>1. PICK I : I = Accepts(t)
  OBVIOUS
<1>2. Len(t) \in Nat /\ I \in SUBSET (1 .. Len(t)) /\ f \in [1 .. m -> I]
  BY <1>1, InOrderFacts
<1>3. Cardinality(I) = m /\ \A k \in 1 .. m : Nth(I, k) = f[k]
  <2>1. \A i \in I : \E a \in 1 .. m : f[a] = i
    BY <1>1
  <2>2. \A a, b \in 1 .. m : a < b => f[a] < f[b]
    OBVIOUS
  <2> QED
    BY <1>2, <2>1, <2>2, NthUnique, Zenon
<1> QED
  BY <1>1, <1>3, InOrderFacts DEF InOrder

\* A completion that is no accept is posted.
LEMMA OrderOfOther ==
  ASSUME NEW s \in Seq(Message), NEW e \in Message, ~IsAccepted(e)
  PROVE  InOrder(Append(s, e)) = InOrder(s)
<1>1. PICK t : t = Append(s, e)
  OBVIOUS
<1>2. /\ t \in Seq(Message) /\ Len(s) \in Nat /\ Len(t) = Len(s) + 1
      /\ t[Len(s) + 1] = e /\ \A i \in 1 .. Len(s) : t[i] = s[i]
  BY <1>1
<1>3. Accepts(t) = Accepts(s)
  <2>1. \A i : i \in 1 .. Len(t) <=> i \in 1 .. Len(s) \/ i = Len(s) + 1
    BY <1>2
  <2> QED
    BY <1>2, <2>1 DEF Accepts
<1>4. \A k \in 1 .. Cardinality(Accepts(s)) :
        t[Nth(Accepts(s), k)] = s[Nth(Accepts(s), k)]
  BY <1>2, InOrderFacts
<1> QED
  BY <1>1, <1>3, <1>4 DEF InOrder

\* An accept is posted.
LEMMA OrderOfAccept ==
  ASSUME NEW s \in Seq(Message), NEW e \in Message, IsAccepted(e)
  PROVE  InOrder(Append(s, e)) = Append(InOrder(s), e.of)
<1>1. PICK t : t = Append(s, e)
  OBVIOUS
<1>2. /\ t \in Seq(Message) /\ Len(s) \in Nat /\ Len(t) = Len(s) + 1
      /\ t[Len(s) + 1] = e /\ \A i \in 1 .. Len(s) : t[i] = s[i]
  BY <1>1
<1>3. Accepts(t) = Accepts(s) \cup {Len(s) + 1}
  <2>1. \A i : i \in 1 .. Len(t) <=> i \in 1 .. Len(s) \/ i = Len(s) + 1
    BY <1>2
  <2> QED
    BY <1>2, <2>1 DEF Accepts
<1>4. PICK I, n, m : I = Accepts(s) /\ n = Len(s) /\ m = Cardinality(I)
  OBVIOUS
<1>5. /\ n \in Nat /\ m \in Nat /\ I \in SUBSET (1 .. n)
      /\ Len(InOrder(s)) = m
      /\ InOrder(s) \in Seq(Conn \cup {NoConn})
  BY <1>4, InOrderFacts
<1>6. /\ \A k \in 1 .. m : Nth(I, k) \in I
      /\ \A i \in I : \E k \in 1 .. m : Nth(I, k) = i
      /\ \A a, b \in 1 .. m : a < b => Nth(I, a) < Nth(I, b)
  BY <1>4, <1>5, RankFacts, NthFacts
<1> DEFINE f == [k \in 1 .. m + 1 |-> IF k = m + 1 THEN n + 1 ELSE Nth(I, k)]
<1>7. \A k : k \in 1 .. m + 1 <=> k \in 1 .. m \/ k = m + 1
  BY <1>5
<1>8. \A k \in 1 .. m : f[k] = Nth(I, k) /\ f[k] \in I /\ k # m + 1
  BY <1>5, <1>6, <1>7
<1>9. f[m + 1] = n + 1
  BY <1>7
<1>10. \A i \in I : i \in Nat /\ i < n + 1
  BY <1>5
<1> DEFINE M == 1 .. m + 1
<1>11. f \in [M -> Accepts(t)]
  <2>1. \A k \in M : f[k] \in Accepts(t)
    BY <1>3, <1>4, <1>7, <1>8, <1>9
  <2> QED
    BY <2>1
<1>12. \A a, b \in M : a < b => f[a] < f[b]
  <2> SUFFICES ASSUME NEW a \in M, NEW b \in M, a < b
               PROVE  f[a] < f[b]
    OBVIOUS
  <2>1. a \in 1 .. m
    BY <1>5
  <2>2. CASE b = m + 1
    BY <1>8, <1>9, <1>10, <2>1, <2>2
  <2>3. CASE b \in 1 .. m
    BY <1>6, <1>8, <2>1, <2>3
  <2> QED
    BY <1>7, <2>2, <2>3
<1>13. \A i \in Accepts(t) : \E a \in M : f[a] = i
  <2> SUFFICES ASSUME NEW i \in Accepts(t) PROVE \E a \in M : f[a] = i
    OBVIOUS
  <2>1. CASE i = n + 1
    BY <1>7, <1>9, <2>1
  <2>2. CASE i \in I
    BY <1>6, <1>7, <1>8, <2>2
  <2> QED
    BY <1>3, <1>4, <2>1, <2>2
<1>14. m + 1 \in Nat
  BY <1>5
<1> HIDE DEF f
<1>15. Len(InOrder(t)) = m + 1 /\ \A k \in 1 .. m + 1 : InOrder(t)[k] = t[f[k]].of
  BY <1>2, <1>11, <1>12, <1>13, <1>14, InOrderIs
<1>16. \A k \in 1 .. m : InOrder(t)[k] = InOrder(s)[k]
  <2>1. \A k \in 1 .. m : InOrder(s)[k] = s[Nth(I, k)].of
    BY <1>4 DEF InOrder
  <2>2. \A i \in I : t[i] = s[i]
    BY <1>2, <1>4, <1>5
  <2>3. \A k \in 1 .. m : k \in 1 .. m + 1
    BY <1>7
  <2> QED
    BY <1>8, <1>15, <2>1, <2>2, <2>3
<1>17. InOrder(t)[m + 1] = e.of
  BY <1>2, <1>4, <1>7, <1>9, <1>15
<1>18. e.of \in Conn \cup {NoConn}
  BY DEF Message
<1>19. InOrder(t) \in Seq(Conn \cup {NoConn})
  BY <1>2, InOrderFacts
<1>20. PICK u, v : u = InOrder(t) /\ v = Append(InOrder(s), e.of)
  OBVIOUS
<1>21. /\ v \in Seq(Conn \cup {NoConn}) /\ Len(v) = m + 1
       /\ v[m + 1] = e.of /\ \A k \in 1 .. m : v[k] = InOrder(s)[k]
  BY <1>5, <1>18, <1>20
<1>22. \A k \in 1 .. m + 1 : u[k] = v[k]
  BY <1>7, <1>16, <1>17, <1>20, <1>21
<1>23. u \in Seq(Conn \cup {NoConn}) /\ Len(u) = m + 1
  BY <1>15, <1>19, <1>20
<1>24. u = v
  BY <1>21, <1>22, <1>23
<1> QED
  BY <1>1, <1>20, <1>24

\* A completion that is no accept is handled.
LEMMA OtherTaken ==
  ASSUME NEW s \in Seq(Message), s # <<>>, ~IsAccepted(Head(s))
  PROVE  InOrder(Tail(s)) = InOrder(s)
<1>1. PICK t : t = Tail(s)
  OBVIOUS
<1>2. /\ t \in Seq(Message) /\ Len(s) \in Nat /\ Len(s) >= 1 /\ Len(t) = Len(s) - 1
      /\ Head(s) = s[1] /\ \A i \in 1 .. Len(t) : t[i] = s[i + 1]
  BY <1>1
<1>3. PICK I, m : I = Accepts(s) /\ m = Cardinality(I)
  OBVIOUS
<1>4. /\ m \in Nat /\ I \in SUBSET (1 .. Len(s))
      /\ Len(InOrder(s)) = m
      /\ InOrder(s) \in Seq(Conn \cup {NoConn})
  BY <1>3, InOrderFacts
<1>5. /\ \A k \in 1 .. m : Nth(I, k) \in I
      /\ \A i \in I : \E k \in 1 .. m : Nth(I, k) = i
      /\ \A a, b \in 1 .. m : a < b => Nth(I, a) < Nth(I, b)
  BY <1>2, <1>3, <1>4, RankFacts, NthFacts
<1>6. 1 \notin I
  BY <1>2, <1>3 DEF Accepts
<1>7. \A i \in I : i \in Int /\ i - 1 \in 1 .. Len(t) /\ t[i - 1] = s[i]
  BY <1>2, <1>4, <1>6
<1>8. \A i \in I : i - 1 \in Accepts(t)
  BY <1>3, <1>7 DEF Accepts
<1>9. \A j \in Accepts(t) : j \in Int /\ j + 1 \in I /\ (j + 1) - 1 = j
  BY <1>2, <1>3 DEF Accepts
<1> DEFINE M == 1 .. m
           f == [k \in M |-> Nth(I, k) - 1]
<1>10. f \in [M -> Accepts(t)]
  BY <1>5, <1>8
<1>11. \A a, b \in M : a < b => f[a] < f[b]
  <2> SUFFICES ASSUME NEW a \in M, NEW b \in M, a < b
               PROVE  Nth(I, a) - 1 < Nth(I, b) - 1
    OBVIOUS
  <2>1. Nth(I, a) < Nth(I, b) /\ Nth(I, a) \in Int /\ Nth(I, b) \in Int
    BY <1>5, <1>7
  <2> QED
    BY <2>1, SMT
<1>12. \A j \in Accepts(t) : \E a \in M : f[a] = j
  BY <1>5, <1>9
<1>12a. \A k \in M : t[f[k]] = s[Nth(I, k)]
  BY <1>5, <1>7
<1> HIDE DEF f
<1>13. Len(InOrder(t)) = m /\ \A k \in M : InOrder(t)[k] = t[f[k]].of
  <2>1. t \in Seq(Message) /\ m \in Nat
    BY <1>2, <1>4
  <2> QED
    BY <2>1, <1>10, <1>11, <1>12, InOrderIs
<1>14. \A k \in M : InOrder(t)[k] = InOrder(s)[k]
  <2>1. \A k \in M : InOrder(s)[k] = s[Nth(I, k)].of
    BY <1>3 DEF InOrder
  <2> QED
    BY <1>12a, <1>13, <2>1
<1>15. InOrder(t) \in Seq(Conn \cup {NoConn})
  BY <1>2, InOrderFacts
<1>16. InOrder(t) = InOrder(s)
  BY <1>4, <1>13, <1>14, <1>15
<1> QED
  BY <1>1, <1>16

\* An accept is handled.
LEMMA AcceptTaken ==
  ASSUME NEW s \in Seq(Message), s # <<>>, IsAccepted(Head(s))
  PROVE  InOrder(s) = <<Head(s).of>> \o InOrder(Tail(s))
<1>1. PICK t : t = Tail(s)
  OBVIOUS
<1>2. /\ t \in Seq(Message) /\ Len(s) \in Nat /\ Len(s) >= 1 /\ Len(t) = Len(s) - 1
      /\ Head(s) = s[1] /\ \A i \in 1 .. Len(t) : t[i] = s[i + 1]
  BY <1>1
<1>3. PICK J, m : J = Accepts(t) /\ m = Cardinality(J)
  OBVIOUS
<1>4. /\ m \in Nat /\ J \in SUBSET (1 .. Len(t)) /\ Len(t) \in Nat
      /\ Len(InOrder(t)) = m
      /\ InOrder(t) \in Seq(Conn \cup {NoConn})
  BY <1>2, <1>3, InOrderFacts
<1>5. /\ \A k \in 1 .. m : Nth(J, k) \in J
      /\ \A i \in J : \E k \in 1 .. m : Nth(J, k) = i
      /\ \A a, b \in 1 .. m : a < b => Nth(J, a) < Nth(J, b)
  BY <1>3, <1>4, RankFacts, NthFacts
<1>6. \A j \in J : j \in Int /\ j >= 1 /\ j + 1 \in 1 .. Len(s) /\ t[j] = s[j + 1]
  BY <1>2, <1>4
<1>7. 1 \in Accepts(s) /\ \A j \in J : j + 1 \in Accepts(s)
  BY <1>2, <1>3, <1>6 DEF Accepts
<1>8. \A i \in Accepts(s) : i = 1 \/ (i - 1 \in J /\ i \in Int)
  BY <1>2, <1>3 DEF Accepts
<1> DEFINE M == 1 .. m + 1
           f == [k \in M |-> IF k = 1 THEN 1 ELSE Nth(J, k - 1) + 1]
<1>9. 1 \in M /\ \A k \in M : k = 1 \/ k - 1 \in 1 .. m
  BY <1>4
<1>10. f[1] = 1 /\ \A k \in M : k # 1 => f[k] = Nth(J, k - 1) + 1
  BY <1>9
<1>11. f \in [M -> Accepts(s)]
  <2>1. \A k \in M : f[k] \in Accepts(s)
    BY <1>5, <1>7, <1>9, <1>10
  <2> QED
    BY <2>1
<1>12. \A a, b \in M : a < b => f[a] < f[b]
  <2> SUFFICES ASSUME NEW a \in M, NEW b \in M, a < b
               PROVE  f[a] < f[b]
    OBVIOUS
  <2>1. b # 1 /\ b - 1 \in 1 .. m /\ a \in Int /\ b \in Int
    BY <1>4
  <2>2. Nth(J, b - 1) \in J /\ Nth(J, b - 1) \in Int /\ Nth(J, b - 1) >= 1
        /\ f[b] = Nth(J, b - 1) + 1
    BY <1>5, <1>6, <1>10, <2>1
  <2>3. CASE a = 1
    <3> HIDE DEF f
    <3> QED
      BY <1>10, <2>2, <2>3, SMT
  <2>4. CASE a # 1
    <3>1. a - 1 \in 1 .. m /\ a - 1 < b - 1
      BY <1>4, <2>1, <2>4
    <3>2. Nth(J, a - 1) \in Int /\ f[a] = Nth(J, a - 1) + 1
      BY <1>5, <1>6, <1>10, <2>4, <3>1
    <3>3. Nth(J, a - 1) < Nth(J, b - 1)
      BY <1>5, <2>1, <3>1
    <3> HIDE DEF f
    <3> QED
      BY <2>2, <3>2, <3>3, SMT
  <2> QED
    BY <2>3, <2>4
<1>13. \A i \in Accepts(s) : \E a \in M : f[a] = i
  <2> SUFFICES ASSUME NEW i \in Accepts(s) PROVE \E a \in M : f[a] = i
    OBVIOUS
  <2>1. CASE i = 1
    BY <1>9, <1>10, <2>1
  <2>2. CASE i # 1
    <3>1. i - 1 \in J /\ i \in Int
      BY <1>8, <2>2
    <3>2. PICK k \in 1 .. m : Nth(J, k) = i - 1
      BY <1>5, <3>1
    <3>3. k + 1 \in M /\ k + 1 # 1 /\ (k + 1) - 1 = k
      BY <1>4
    <3>4. f[k + 1] = (i - 1) + 1
      BY <1>10, <3>2, <3>3
    <3> QED
      BY <3>1, <3>3, <3>4
  <2> QED
    BY <2>1, <2>2
<1>14. m + 1 \in Nat
  BY <1>4
<1> HIDE DEF f
<1>15. Len(InOrder(s)) = m + 1 /\ \A k \in M : InOrder(s)[k] = s[f[k]].of
  BY <1>11, <1>12, <1>13, <1>14, InOrderIs
<1>16. InOrder(s)[1] = Head(s).of
  BY <1>2, <1>9, <1>10, <1>15
<1>17. \A k \in 1 .. m : InOrder(s)[k + 1] = InOrder(t)[k]
  <2> SUFFICES ASSUME NEW k \in 1 .. m PROVE InOrder(s)[k + 1] = InOrder(t)[k]
    OBVIOUS
  <2>1. k + 1 \in M /\ k + 1 # 1 /\ (k + 1) - 1 = k
    BY <1>4
  <2>2. f[k + 1] = Nth(J, k) + 1
    BY <1>10, <2>1
  <2>3. s[f[k + 1]] = t[Nth(J, k)]
    BY <1>5, <1>6, <2>2
  <2>4. InOrder(t)[k] = t[Nth(J, k)].of
    BY <1>3 DEF InOrder
  <2> QED
    BY <1>15, <2>1, <2>3, <2>4
<1>18. InOrder(s) \in Seq(Conn \cup {NoConn})
  BY InOrderFacts
<1>19. Head(s).of \in Conn \cup {NoConn}
  <2>1. Head(s) \in Message
    OBVIOUS
  <2> QED
    BY <2>1 DEF Message
<1>20. PICK u, v : u = InOrder(s) /\ v = <<Head(s).of>> \o InOrder(t)
  OBVIOUS
<1>21. /\ v \in Seq(Conn \cup {NoConn}) /\ Len(v) = m + 1
       /\ v[1] = Head(s).of /\ \A k \in 1 .. m : v[k + 1] = InOrder(t)[k]
  BY <1>4, <1>19, <1>20
<1>22. \A k \in M : u[k] = v[k]
  <2> SUFFICES ASSUME NEW k \in M PROVE u[k] = v[k]
    OBVIOUS
  <2>1. CASE k = 1
    BY <1>16, <1>20, <1>21, <2>1
  <2>2. CASE k # 1
    <3>1. k - 1 \in 1 .. m /\ (k - 1) + 1 = k
      BY <1>4, <2>2
    <3> QED
      BY <1>17, <1>20, <1>21, <3>1
  <2> QED
    BY <2>1, <2>2
<1>23. u \in Seq(Conn \cup {NoConn}) /\ Len(u) = m + 1
  BY <1>15, <1>18, <1>20
<1>24. u = v
  BY <1>21, <1>22, <1>23
<1> QED
  BY <1>1, <1>20, <1>24

-----------------------------------------------------------------------------
(* Where a connection is.                                                   *)

\* Completion e names slot s for c.
Names(e, c, s) == e.of = c /\ e.kind \in {"accept", "fd"} /\ e.res = s
InQueue(c, r, s) == \E i \in 1 .. Len(cq[r]) : Names(cq[r][i], c, s)
InList(c, r, s)  ==
  \E i \in 1 .. Len(awaiting[r]) : awaiting[r][i] = [fd |-> s, of |-> c]

\* What has reached a worker is nowhere else: not at another worker either.
PathOf(c) ==
  \A w \in Worker : ListedAt(c, w) =>
    /\ c \notin peers /\ ~ListedAt(c, Main)
    /\ \A v \in Worker : ~SentTo(c, v) /\ (ListedAt(c, v) => v = w)

PathInv == \A c \in Conn : PathOf(c)

LEMMA NumberedIs ==
  \A c, r, s : Numbered(c, r, s) <=> InList(c, r, s) \/ InQueue(c, r, s)
  BY DEF Numbered, InList, InQueue, Names

LEMMA NumberedNext ==
  \A c, r, s : Numbered(c, r, s)' <=> InList(c, r, s)' \/ InQueue(c, r, s)'
  BY DEF Numbered, InList, InQueue, Names

\* A list holds slots of its ring.
LEMMA ListIs ==
  ASSUME TypeOK, NEW r \in Ring, NEW c
  PROVE  /\ (\E s \in Slot(r) : InList(c, r, s)) <=>
              \E i \in 1 .. Len(awaiting[r]) : awaiting[r][i].of = c
         /\ \A s : InList(c, r, s) => s \in Slot(r) /\ c \in Conn
<1>1. \A i \in 1 .. Len(awaiting[r]) :
        awaiting[r][i] \in Entry /\ awaiting[r][i].fd \in Slot(r)
  BY DEF TypeOK
<1>2. \A i \in 1 .. Len(awaiting[r]) :
        awaiting[r][i] = [fd |-> awaiting[r][i].fd, of |-> awaiting[r][i].of]
  BY <1>1 DEF Entry
<1>3. ASSUME NEW i \in 1 .. Len(awaiting[r]), awaiting[r][i].of = c
      PROVE  \E s \in Slot(r) : InList(c, r, s)
  <2>1. InList(c, r, awaiting[r][i].fd)
    BY <1>2, <1>3 DEF InList
  <2> QED
    BY <1>1, <2>1
<1>4. ASSUME NEW s, InList(c, r, s)
      PROVE  /\ s \in Slot(r) /\ c \in Conn
             /\ \E i \in 1 .. Len(awaiting[r]) : awaiting[r][i].of = c
  <2>1. PICK i \in 1 .. Len(awaiting[r]) : awaiting[r][i] = [fd |-> s, of |-> c]
    BY <1>4 DEF InList
  <2>2. awaiting[r][i].fd = s /\ awaiting[r][i].of = c
    BY <2>1
  <2> QED
    BY <1>1, <2>2 DEF Entry
<1> QED
  BY <1>3, <1>4

\* What names a slot names one of its ring.
LEMMA NumberIsSlot ==
  ASSUME TypeOK, MessageInv, NEW r \in Ring, NEW c, NEW s, Numbered(c, r, s), s >= 0
  PROVE  s \in Slot(r) /\ c \in Conn
<1>1. CASE InList(c, r, s)
  BY <1>1, ListIs
<1>2. CASE InQueue(c, r, s)
  <2>1. PICK i \in 1 .. Len(cq[r]) : Names(cq[r][i], c, s)
    BY <1>2 DEF InQueue
  <2>2. CASE r = Main
    BY <2>1, <2>2 DEF MessageInv, Names
  <2>3. CASE r \in Worker
    BY <2>1, <2>3 DEF MessageInv, Names
  <2> QED
    BY <2>2, <2>3, RingFacts
<1> QED
  BY <1>1, <1>2, NumberedIs

\* The main ring gets no slots from another ring.
LEMMA ListedMain ==
  ASSUME TypeOK, MessageInv
  PROVE  \A c : /\ (\E s \in Slot(Main) : InQueue(c, Main, s)) <=> InBatch(c)
                /\ (\E s \in Slot(Main) : InList(c, Main, s)) <=> Unsent(c)
                /\ ListedAt(c, Main) <=> Unsent(c) \/ InBatch(c)
<1> USE RingFacts
<1> SUFFICES ASSUME NEW c
             PROVE  /\ (\E s \in Slot(Main) : InQueue(c, Main, s)) <=> InBatch(c)
                    /\ (\E s \in Slot(Main) : InList(c, Main, s)) <=> Unsent(c)
                    /\ ListedAt(c, Main) <=> Unsent(c) \/ InBatch(c)
  OBVIOUS
<1>0. \A s \in Slot(Main) : s >= 0
  BY SlotFacts
<1>1. \A s \in Slot(Main) : InQueue(c, Main, s) => InBatch(c)
  <2>1. \A i \in 1 .. Len(cq[Main]) : \A s \in Slot(Main) :
          Names(cq[Main][i], c, s) => IsAccepted(cq[Main][i]) /\ cq[Main][i].of = c
    BY <1>0 DEF MessageInv, Names, IsAccepted
  <2> QED
    BY <2>1 DEF InQueue, InBatch
<1>2. InBatch(c) => \E s \in Slot(Main) : InQueue(c, Main, s)
  <2> SUFFICES ASSUME NEW i \in 1 .. Len(cq[Main]),
                      IsAccepted(cq[Main][i]), cq[Main][i].of = c
               PROVE  \E s \in Slot(Main) : InQueue(c, Main, s)
    BY DEF InBatch
  <2>1. cq[Main][i].res \in Slot(Main)
    BY DEF MessageInv, IsAccepted
  <2>2. Names(cq[Main][i], c, cq[Main][i].res)
    BY DEF Names, IsAccepted
  <2> QED
    BY <2>1, <2>2 DEF InQueue
<1>3. (\E s \in Slot(Main) : InList(c, Main, s)) <=> Unsent(c)
  BY ListIs DEF Unsent
<1> QED
  BY <1>1, <1>2, <1>3, NumberedIs DEF ListedAt

\* A connection that has not been sent has one place; a chain has one worker.
LEMMA Exclusive ==
  ASSUME IInv, NEW c \in Conn
  PROVE  /\ c \in peers => ~ListedAt(c, Main) /\ \A w \in Worker : ~SentTo(c, w)
         /\ ListedAt(c, Main) => \A w \in Worker : ~SentTo(c, w)
         /\ \A v, w \in Worker : SentTo(c, v) /\ SentTo(c, w) => v = w
<1>1. \A w \in Worker : SentTo(c, w) => InChain(c)
  BY DEF SentTo, InChain
<1>2. ListedAt(c, Main) <=> Unsent(c) \/ InBatch(c)
  BY ListedMain DEF IInv
<1>3. \A v, w \in Worker : SentTo(c, v) /\ SentTo(c, w) => v = w
  <2> SUFFICES ASSUME NEW v \in Worker, NEW w \in Worker, SentTo(c, v), SentTo(c, w)
               PROVE  v = w
    OBVIOUS
  <2>1. PICK p \in kernel : p.of = c /\ p.op = "send_fd" /\ p.ring = v
    BY DEF SentTo
  <2>2. PICK q \in kernel : q.of = c /\ q.op = "send_fd" /\ q.ring = w
    BY DEF SentTo
  <2>3. p = q
    BY <2>1, <2>2 DEF IInv, OnceInv
  <2> QED
    BY <2>1, <2>2, <2>3
<1> QED
  BY <1>1, <1>2, <1>3 DEF IInv, OnceInv

At(where, w) == [at |-> where, worker |-> w]

\* Whereabouts says where c is.
LEMMA WhereaboutsIs ==
  ASSUME IInv, PathInv, NEW c \in Conn
  PROVE  /\ c \in peers => Whereabouts(c) = At("peer", NWorkers)
         /\ ListedAt(c, Main) => Whereabouts(c) = At("waiting", NWorkers)
         /\ \A w \in Worker : SentTo(c, w) => Whereabouts(c) = At("sent", w)
         /\ \A w \in Worker : ListedAt(c, w) => Whereabouts(c) = At("arrived", w)
         /\ \/ c \in peers \/ ListedAt(c, Main)
            \/ \E w \in Worker : SentTo(c, w) \/ ListedAt(c, w)
            \/ Whereabouts(c) = At("lost", NWorkers)
<1>1. /\ c \in peers => ~ListedAt(c, Main) /\ \A w \in Worker : ~SentTo(c, w)
      /\ ListedAt(c, Main) => \A w \in Worker : ~SentTo(c, w)
      /\ \A v, w \in Worker : SentTo(c, v) /\ SentTo(c, w) => v = w
  BY Exclusive
<1>2. \A w \in Worker : ListedAt(c, w) =>
        /\ c \notin peers /\ ~ListedAt(c, Main)
        /\ \A v \in Worker : ~SentTo(c, v) /\ (ListedAt(c, v) => v = w)
  BY DEF PathInv, PathOf
<1>3. PICK sent, arrived : /\ sent = {w \in Worker : SentTo(c, w)}
                           /\ arrived = {w \in Worker : ListedAt(c, w)}
  OBVIOUS
<1>4. PICK v, w : v = (CHOOSE x \in sent : TRUE) /\ w = (CHOOSE x \in arrived : TRUE)
  OBVIOUS
<1>4a. Whereabouts(c) =
         CASE c \in peers       -> At("peer", NWorkers)
           [] ListedAt(c, Main) -> At("waiting", NWorkers)
           [] sent # {}         -> At("sent", v)
           [] arrived # {}      -> At("arrived", w)
           [] OTHER             -> At("lost", NWorkers)
  BY <1>3, <1>4 DEF Whereabouts, At
<1>5. CASE c \in peers
  BY <1>1, <1>2, <1>3, <1>4a, <1>5
<1>6. CASE ListedAt(c, Main)
  BY <1>1, <1>2, <1>3, <1>4a, <1>6
<1>7. CASE c \notin peers /\ ~ListedAt(c, Main) /\ sent # {}
  <2>1. v \in Worker /\ SentTo(c, v)
    BY <1>3, <1>4, <1>7
  <2>2. \A x \in Worker : SentTo(c, x) => x = v
    BY <1>1, <2>1
  <2>3. Whereabouts(c) = At("sent", v)
    <3>1. arrived = {}
      BY <1>2, <1>3, <2>1
    <3> QED
      BY <1>4a, <1>7, <3>1
  <2> QED
    BY <1>2, <1>7, <2>1, <2>2, <2>3
<1>8. CASE c \notin peers /\ ~ListedAt(c, Main) /\ sent = {} /\ arrived # {}
  <2>1. w \in Worker /\ ListedAt(c, w)
    BY <1>3, <1>4, <1>8
  <2>2. \A x \in Worker : ListedAt(c, x) => x = w
    BY <1>2, <2>1
  <2>3. Whereabouts(c) = At("arrived", w)
    BY <1>4a, <1>8
  <2> QED
    BY <1>2, <1>8, <2>1, <2>2, <2>3
<1>9. CASE c \notin peers /\ ~ListedAt(c, Main) /\ sent = {} /\ arrived = {}
  BY <1>3, <1>4a, <1>9
<1> QED
  BY <1>5, <1>6, <1>7, <1>8, <1>9

-----------------------------------------------------------------------------
(* What a step may do to the places.                                        *)

PlaceOf == [c \in Conn |-> Whereabouts(c)]
FilesOf == [c \in Conn |-> FileOf(c)]
Claims == <<WaitingConns, PlaceOf, FilesOf, current>>

ConnsOf(s) == [i \in 1 .. Len(s) |-> s[i].of]

LEMMA WaitingIs == WaitingConns = ConnsOf(awaiting[Main]) \o InOrder(cq[Main])
  BY DEF WaitingConns, ConnsOf, InOrder, Accepts, IsAccepted

LEMMA AppendIsCat ==
  ASSUME NEW S, NEW a \in Seq(S), NEW b \in Seq(S), NEW d \in S
  PROVE  a \o (<<d>> \o b) = Append(a, d) \o b
<1>1. PICK u, v : u = a \o (<<d>> \o b) /\ v = Append(a, d) \o b
  OBVIOUS
<1>2. Len(a) \in Nat /\ Len(b) \in Nat
  OBVIOUS
<1>3. PICK y, z : y = <<d>> \o b /\ z = Append(a, d)
  OBVIOUS
<1>4. /\ y \in Seq(S) /\ Len(y) = 1 + Len(b) /\ y[1] = d
      /\ \A i \in 1 .. Len(b) : y[i + 1] = b[i]
  BY <1>3
<1>5. /\ z \in Seq(S) /\ Len(z) = Len(a) + 1 /\ z[Len(a) + 1] = d
      /\ \A i \in 1 .. Len(a) : z[i] = a[i]
  BY <1>3
<1>6. /\ u \in Seq(S) /\ Len(u) = Len(a) + Len(y)
      /\ \A i \in 1 .. Len(a) : u[i] = a[i]
      /\ \A i \in 1 .. Len(y) : u[Len(a) + i] = y[i]
  BY <1>1, <1>3, <1>4
<1>7. /\ v \in Seq(S) /\ Len(v) = Len(z) + Len(b)
      /\ \A i \in 1 .. Len(z) : v[i] = z[i]
      /\ \A i \in 1 .. Len(b) : v[Len(z) + i] = b[i]
  <2>1. v = z \o b
    BY <1>1, <1>3
  <2>2. z \in Seq(S)
    BY <1>5
  <2> QED
    BY <2>1, <2>2
<1>8. Len(u) = Len(a) + 1 + Len(b) /\ Len(v) = Len(a) + 1 + Len(b)
  BY <1>2, <1>4, <1>5, <1>6, <1>7
<1>9. ASSUME NEW i \in 1 .. Len(u) PROVE u[i] = v[i]
  <2>1. CASE i <= Len(a)
    BY <1>2, <1>5, <1>6, <1>7, <2>1
  <2>2. CASE i = Len(a) + 1
    BY <1>2, <1>4, <1>5, <1>6, <1>7, <2>2
  <2>3. CASE i > Len(a) + 1
    <3>1. PICK k : k = i - Len(a) - 1
      OBVIOUS
    <3>2. k \in 1 .. Len(b) /\ i = Len(a) + (k + 1) /\ i = Len(z) + k
          /\ k + 1 \in 1 .. Len(y)
      BY <1>2, <1>4, <1>5, <1>8, <2>3, <3>1
    <3> QED
      BY <1>4, <1>6, <1>7, <3>2
  <2> QED
    BY <1>2, <2>1, <2>2, <2>3
<1>10. u = v
  BY <1>6, <1>7, <1>8, <1>9
<1> QED
  BY <1>1, <1>10

LEMMA ConnsOfFacts ==
  ASSUME NEW s \in Seq(Entry)
  PROVE  /\ ConnsOf(s) \in Seq(Conn) /\ Len(ConnsOf(s)) = Len(s)
         /\ \A i \in 1 .. Len(s) : ConnsOf(s)[i] = s[i].of /\ s[i].of \in Conn
<1>1. \A i \in 1 .. Len(s) : s[i] \in Entry
  OBVIOUS
<1>2. \A i \in 1 .. Len(s) : s[i].of \in Conn
  BY <1>1 DEF Entry
<1> QED
  BY <1>2 DEF ConnsOf

KeepsSends == \A q : q.op = "send_fd" => (q \in kernel' <=> q \in kernel)

KeepsPlace(c) ==
  /\ c \in peers' <=> c \in peers
  /\ \A w \in Worker : SentTo(c, w)' <=> SentTo(c, w)
  /\ \A r \in Ring : ListedAt(c, r)' <=> ListedAt(c, r)

KeepsNumbers(c) ==
  \A r \in Ring : \A s \in Slot(r) : Numbered(c, r, s)' <=> Numbered(c, r, s)

LEMMA KeepsListed ==
  ASSUME NEW c, KeepsNumbers(c)
  PROVE  \A r \in Ring : ListedAt(c, r)' <=> ListedAt(c, r)
  BY DEF KeepsNumbers, ListedAt

LEMMA SendsKept ==
  ASSUME KeepsSends
  PROVE  \A c, w : SentTo(c, w)' <=> SentTo(c, w)
  BY DEF KeepsSends, SentTo

LEMMA PlaceKept ==
  ASSUME NEW c \in Conn, KeepsPlace(c)
  PROVE  Whereabouts(c)' = Whereabouts(c) /\ (PathOf(c) => PathOf(c)')
<1> USE RingFacts
<1>1. \A w \in Worker : SentTo(c, w)' <=> SentTo(c, w)
  BY DEF KeepsPlace
<1>2. \A r \in Ring : ListedAt(c, r)' <=> ListedAt(c, r)
  BY DEF KeepsPlace
<1>3. Whereabouts(c)' = Whereabouts(c)
  <2>1. {w \in Worker : SentTo(c, w)}' = {w \in Worker : SentTo(c, w)}
    BY <1>1
  <2>2. {w \in Worker : ListedAt(c, w)}' = {w \in Worker : ListedAt(c, w)}
    BY <1>2
  <2>3. ListedAt(c, Main)' <=> ListedAt(c, Main)
    BY <1>2
  <2>4. PICK p, x, s, a : /\ p = (c \in peers) /\ x = ListedAt(c, Main)
                          /\ s = {w \in Worker : SentTo(c, w)}
                          /\ a = {w \in Worker : ListedAt(c, w)}
    OBVIOUS
  <2>5. (c \in peers') = p
    BY <2>4 DEF KeepsPlace
  <2>6. ListedAt(c, Main)' = x
    <3>1. x \in BOOLEAN /\ (ListedAt(c, Main) <=> x)
      BY <2>4 DEF ListedAt
    <3>2. PICK z : z = ListedAt(c, Main)'
      OBVIOUS
    <3>3. z \in BOOLEAN
      BY <3>2 DEF ListedAt
    <3> QED
      BY <2>3, <3>1, <3>2, <3>3
  <2> QED
    BY <2>1, <2>2, <2>4, <2>5, <2>6, Zenon DEF Whereabouts
<1>4. PathOf(c) => PathOf(c)'
  BY <1>1, <1>2 DEF PathOf, KeepsPlace
<1> QED
  BY <1>3, <1>4

\* The slots a worker has for c, and what they hold, are as before.
LEMMA FileKept ==
  ASSUME NEW c,
         \A w \in Worker : \A s \in Slot(w) :
           /\ Numbered(c, w, s)' <=> Numbered(c, w, s)
           /\ Numbered(c, w, s) => table'[w][s] = table[w][s]
  PROVE  FileOf(c)' = FileOf(c)
<1>1. Copies(c)' = Copies(c)
  <2> SUFFICES ASSUME NEW f \in Conn
               PROVE  (\E w \in Worker : \E s \in Slot(w) :
                          Numbered(c, w, s)' /\ table'[w][s] = f)
                      <=> \E w \in Worker : \E s \in Slot(w) :
                            Numbered(c, w, s) /\ table[w][s] = f
    BY DEF Copies
  <2> QED
    OBVIOUS
<1> QED
  BY <1>1 DEF FileOf

\* A step that leaves the tables of the workers alone.
LEMMA FilesKept ==
  ASSUME \A c : KeepsNumbers(c), \A w \in Worker : table'[w] = table[w]
  PROVE  FilesOf' = FilesOf
<1>1. ASSUME NEW c \in Conn PROVE FileOf(c)' = FileOf(c)
  <2>1. \A w \in Worker : \A s \in Slot(w) :
          /\ Numbered(c, w, s)' <=> Numbered(c, w, s)
          /\ table'[w][s] = table[w][s]
    BY RingFacts DEF KeepsNumbers
  <2> QED
    BY <2>1, FileKept
<1> QED
  BY <1>1 DEF FilesOf

\* Only c moves.
LEMMA OneMoves ==
  ASSUME PathInv, NEW c \in Conn, \A d \in Conn \ {c} : KeepsPlace(d), PathOf(c)',
         NEW p, p = Whereabouts(c)'
  PROVE  PathInv' /\ PlaceOf' = [PlaceOf EXCEPT ![c] = p]
<1>1. \A d \in Conn \ {c} : Whereabouts(d)' = Whereabouts(d) /\ PathOf(d)'
  BY PlaceKept DEF PathInv
<1>2. PathInv'
  BY <1>1 DEF PathInv
<1>3. PlaceOf' = [PlaceOf EXCEPT ![c] = p]
  BY <1>1 DEF PlaceOf
<1> QED
  BY <1>2, <1>3

LEMMA WhereaboutsOf ==
  IInv /\ PathInv =>
    \A d \in Conn :
      /\ d \in peers => Whereabouts(d) = At("peer", NWorkers)
      /\ ListedAt(d, Main) => Whereabouts(d) = At("waiting", NWorkers)
      /\ \A w \in Worker : SentTo(d, w) => Whereabouts(d) = At("sent", w)
      /\ \A w \in Worker : ListedAt(d, w) => Whereabouts(d) = At("arrived", w)
      /\ \/ d \in peers \/ ListedAt(d, Main)
         \/ \E w \in Worker : SentTo(d, w) \/ ListedAt(d, w)
         \/ Whereabouts(d) = At("lost", NWorkers)
  BY WhereaboutsIs

LEMMA WhereaboutsNext ==
  ASSUME IInv', PathInv', NEW c \in Conn
  PROVE  /\ ListedAt(c, Main)' => Whereabouts(c)' = At("waiting", NWorkers)
         /\ \A w \in Worker : SentTo(c, w)' => Whereabouts(c)' = At("sent", w)
         /\ \A w \in Worker : ListedAt(c, w)' => Whereabouts(c)' = At("arrived", w)
         /\ \/ c \in peers' \/ ListedAt(c, Main)'
            \/ \E w \in Worker : SentTo(c, w)' \/ ListedAt(c, w)'
            \/ Whereabouts(c)' = At("lost", NWorkers)
<1>1. (IInv /\ PathInv =>
        \A d \in Conn :
          /\ d \in peers => Whereabouts(d) = At("peer", NWorkers)
          /\ ListedAt(d, Main) => Whereabouts(d) = At("waiting", NWorkers)
          /\ \A w \in Worker : SentTo(d, w) => Whereabouts(d) = At("sent", w)
          /\ \A w \in Worker : ListedAt(d, w) => Whereabouts(d) = At("arrived", w)
          /\ \/ d \in peers \/ ListedAt(d, Main)
             \/ \E w \in Worker : SentTo(d, w) \/ ListedAt(d, w)
             \/ Whereabouts(d) = At("lost", NWorkers))'
  BY WhereaboutsOf, PTL
<1> QED
  BY <1>1

\* What Dispatch allows, in terms of WaitingConns and Whereabouts.
AcceptsOne(c) ==
  /\ PlaceOf[c].at = "peer"
  /\ WaitingConns' = Append(WaitingConns, c)
  /\ PlaceOf' = [PlaceOf EXCEPT ![c] = At("waiting", NWorkers)]
  /\ UNCHANGED <<FilesOf, current>>

Gets(c, f) ==
  f # c => /\ PlaceOf[f].at # "peer"
           /\ \E e \in Ending : PlaceOf[e].at = "arrived"

Arrives(c) ==
  /\ PlaceOf[c].at = "sent"
  /\ PlaceOf' = [PlaceOf EXCEPT ![c].at = "arrived"]
  /\ \E f \in Conn : Gets(c, f) /\ FilesOf' = [FilesOf EXCEPT ![c] = f]
  /\ UNCHANGED <<WaitingConns, current>>

Loses(c) ==
  /\ PlaceOf[c].at \in {"peer", "sent"}
  /\ PlaceOf' = [PlaceOf EXCEPT ![c] = At("lost", NWorkers)]
  /\ UNCHANGED <<WaitingConns, FilesOf, current>>

SendsOut(n) ==
  LET Position(c) == {i \in 1 .. n : WaitingConns[i] = c} IN
  /\ WaitingConns' = SubSeq(WaitingConns, n + 1, Len(WaitingConns))
  /\ PlaceOf' = [c \in Conn |->
                   IF Position(c) = {} THEN PlaceOf[c]
                   ELSE At("sent", (current + CHOOSE i \in Position(c) : TRUE) % NWorkers)]
  /\ current' = (current + n) % NWorkers
  /\ UNCHANGED FilesOf

Follows ==
  \/ UNCHANGED <<Claims, ended>>
  \/ ~ended /\ ended' = TRUE /\ UNCHANGED Claims
  \/ /\ ~ended /\ ended' = ended
     /\ \/ \E c \in Conn : AcceptsOne(c) \/ Arrives(c) \/ Loses(c)
        \/ \E n \in 1 .. Len(WaitingConns) : SendsOut(n)

\* The lists of slots.
ListsAsBefore ==
  /\ WaitingConns' = WaitingConns
  /\ \A c : KeepsNumbers(c)

\* A step that moves nothing, and that the process may not survive.
LEMMA Stays ==
  ASSUME PathInv, ListsAsBefore, KeepsSends, peers' = peers, current' = current,
         ended' = ended \/ (~ended /\ ended' \in BOOLEAN), ended \in BOOLEAN,
         \A w \in Worker : table'[w] = table[w]
  PROVE  PathInv' /\ Follows
<1>1. \A c \in Conn : KeepsPlace(c)
  BY SendsKept, KeepsListed DEF KeepsPlace, ListsAsBefore
<1>2. \A c \in Conn : Whereabouts(c)' = Whereabouts(c) /\ PathOf(c)'
  BY <1>1, PlaceKept DEF PathInv
<1>3. PlaceOf' = PlaceOf /\ PathInv'
  BY <1>2 DEF PlaceOf, PathInv
<1>3a. FilesOf' = FilesOf
  BY FilesKept DEF ListsAsBefore
<1>4. UNCHANGED Claims
  BY <1>3, <1>3a DEF Claims, ListsAsBefore
<1>5. ended' = ended \/ (~ended /\ ended' = TRUE)
  OBVIOUS
<1> QED
  BY <1>3, <1>4, <1>5 DEF Follows

LEMMA ListsKept ==
  ASSUME cq' = cq, awaiting' = awaiting
  PROVE  ListsAsBefore
  BY DEF ListsAsBefore, WaitingConns, Numbered, KeepsNumbers

LEMMA OtherPosted ==
  ASSUME cq \in [Ring -> Seq(Message)], NEW r \in Ring, NEW e \in Message, Post(r, e),
         ~(e.kind \in {"accept", "fd"} /\ e.res >= 0), awaiting' = awaiting
  PROVE  ListsAsBefore
<1> USE RingFacts
<1>1. /\ Len(cq[r]) \in Nat /\ Len(cq'[r]) = Len(cq[r]) + 1
      /\ cq'[r][Len(cq[r]) + 1] = e
      /\ \A i \in 1 .. Len(cq[r]) : cq'[r][i] = cq[r][i]
      /\ \A s \in Ring \ {r} : cq'[s] = cq[s]
  BY PostFacts
<1>2. cq'[r] = Append(cq[r], e)
  BY DEF Post
<1>3. ~IsAccepted(e) /\ \A c : \A s \in Slot(r) : ~Names(e, c, s)
  <2>1. \A s \in Slot(r) : s >= 0
    BY SlotFacts
  <2> QED
    BY <2>1 DEF IsAccepted, Names
<1>4. ASSUME NEW c, NEW u \in Ring, NEW s \in Slot(u)
      PROVE  InQueue(c, u, s)' <=> InQueue(c, u, s)
  <2>1. CASE u = r
    <3>1. \A i : i \in 1 .. Len(cq'[r]) <=> i \in 1 .. Len(cq[r]) \/ i = Len(cq[r]) + 1
      BY <1>1
    <3> QED
      BY <1>1, <1>3, <2>1, <3>1 DEF InQueue
  <2>2. CASE u # r
    BY <1>1, <2>2 DEF InQueue
  <2> QED
    BY <2>1, <2>2
<1>5. \A c, u, s : InList(c, u, s)' <=> InList(c, u, s)
  BY DEF InList
<1>6. \A c : KeepsNumbers(c)
  BY <1>4, <1>5, NumberedIs, NumberedNext DEF KeepsNumbers
<1>7. InOrder(cq'[Main]) = InOrder(cq[Main])
  <2>1. CASE r = Main
    <3>1. cq[Main] \in Seq(Message) /\ cq'[Main] = Append(cq[Main], e)
      BY <1>2, <2>1
    <3> QED
      BY <1>3, <3>1, OrderOfOther
  <2>2. CASE r # Main
    BY <1>1, <2>2
  <2> QED
    BY <2>1, <2>2
<1>8. WaitingConns' = ConnsOf(awaiting'[Main]) \o InOrder(cq'[Main])
  BY DEF WaitingConns, ConnsOf, InOrder, Accepts, IsAccepted
<1> QED
  BY <1>6, <1>7, <1>8, WaitingIs DEF ListsAsBefore

LEMMA OtherHandled ==
  ASSUME cq \in [Ring -> Seq(Message)], NEW r \in Ring, cq[r] # <<>>, Handled(r),
         First(r).kind \notin {"accept", "fd"} \/ ~(First(r).res >= 0),
         awaiting' = awaiting
  PROVE  ListsAsBefore
<1> USE RingFacts
<1>1. /\ First(r) = cq[r][1] /\ Len(cq[r]) \in Nat /\ 1 \in 1 .. Len(cq[r])
      /\ Len(cq'[r]) = Len(cq[r]) - 1
      /\ \A i \in 1 .. Len(cq'[r]) :
           cq'[r][i] = cq[r][i + 1] /\ i + 1 \in 1 .. Len(cq[r])
      /\ \A s \in Ring \ {r} : cq'[s] = cq[s]
  BY HandledFacts
<1>2. cq'[r] = Tail(cq[r]) /\ First(r) = Head(cq[r])
  BY DEF Handled, First
<1>3. ~IsAccepted(First(r)) /\ \A c : \A s \in Slot(r) : ~Names(First(r), c, s)
  <2>1. \A s \in Slot(r) : s >= 0
    BY SlotFacts
  <2> QED
    BY <2>1 DEF IsAccepted, Names
<1>4. ASSUME NEW c, NEW u \in Ring, NEW s \in Slot(u)
      PROVE  InQueue(c, u, s)' <=> InQueue(c, u, s)
  <2>1. CASE u = r
    <3>1. ASSUME InQueue(c, r, s) PROVE InQueue(c, r, s)'
      <4>1. PICK i \in 1 .. Len(cq[r]) : Names(cq[r][i], c, s)
        BY <3>1 DEF InQueue
      <4>2. i # 1
        BY <1>1, <1>3, <2>1, <4>1
      <4>3. i - 1 \in 1 .. Len(cq'[r]) /\ (i - 1) + 1 = i
        BY <1>1, <4>2
      <4>4. cq'[r][i - 1] = cq[r][i]
        BY <1>1, <4>3
      <4> QED
        BY <4>1, <4>3, <4>4 DEF InQueue
    <3>2. ASSUME InQueue(c, r, s)' PROVE InQueue(c, r, s)
      BY <1>1, <3>2 DEF InQueue
    <3> QED
      BY <2>1, <3>1, <3>2
  <2>2. CASE u # r
    BY <1>1, <2>2 DEF InQueue
  <2> QED
    BY <2>1, <2>2
<1>5. \A c, u, s : InList(c, u, s)' <=> InList(c, u, s)
  BY DEF InList
<1>6. \A c : KeepsNumbers(c)
  BY <1>4, <1>5, NumberedIs, NumberedNext DEF KeepsNumbers
<1>7. InOrder(cq'[Main]) = InOrder(cq[Main])
  BY <1>1, <1>2, <1>3, OtherTaken
<1>8. WaitingConns' = ConnsOf(awaiting'[Main]) \o InOrder(cq'[Main])
  BY DEF WaitingConns, ConnsOf, InOrder, Accepts, IsAccepted
<1> QED
  BY <1>6, <1>7, <1>8, WaitingIs DEF ListsAsBefore

\* The slot that a completion names goes into the list of its ring.
LEMMA SlotPushed ==
  ASSUME TypeOK, NEW r \in Ring, cq[r] # <<>>, Handled(r), PushIfSlot(r),
         First(r).kind \in {"accept", "fd"}, First(r).res >= 0,
         First(r).res \in Slot(r), First(r).of \in Conn,
         r = Main => First(r).kind = "accept"
  PROVE  ListsAsBefore
<1> USE RingFacts
<1>0. cq \in [Ring -> Seq(Message)] /\ awaiting \in [Ring -> Seq(Entry)]
  BY DEF TypeOK
<1>1. /\ First(r) = cq[r][1] /\ Len(cq[r]) \in Nat /\ 1 \in 1 .. Len(cq[r])
      /\ First(r) \in Message /\ cq[r] \in Seq(Message) /\ cq'[r] \in Seq(Message)
      /\ Len(cq'[r]) = Len(cq[r]) - 1
      /\ \A i \in 1 .. Len(cq'[r]) :
           cq'[r][i] = cq[r][i + 1] /\ i + 1 \in 1 .. Len(cq[r])
      /\ \A s \in Ring \ {r} : cq'[s] = cq[s]
  BY <1>0, HandledFacts
<1>2. cq'[r] = Tail(cq[r]) /\ First(r) = Head(cq[r])
  BY <1>0 DEF Handled, First
<1>3. PICK d, x : d = First(r).of /\ x = [fd |-> First(r).res, of |-> First(r).of]
  OBVIOUS
<1>4. /\ d \in Conn /\ x.of = d
      /\ awaiting' = [awaiting EXCEPT ![r] = Append(@, x)]
  BY <1>3 DEF PushIfSlot, IsSlot
<1>4a. First(r).res \in Fd /\ x \in Entry
  BY <1>3, SlotFacts DEF Entry
<1>5. /\ awaiting'[r] = Append(awaiting[r], x)
      /\ awaiting[r] \in Seq(Entry) /\ awaiting'[r] \in Seq(Entry)
      /\ Len(awaiting[r]) \in Nat /\ Len(awaiting'[r]) = Len(awaiting[r]) + 1
      /\ awaiting'[r][Len(awaiting[r]) + 1] = x
      /\ \A i \in 1 .. Len(awaiting[r]) : awaiting'[r][i] = awaiting[r][i]
      /\ \A s \in Ring \ {r} : awaiting'[s] = awaiting[s]
  BY <1>0, <1>4, <1>4a
<1>5a. awaiting'[r][Len(awaiting[r]) + 1].of = d
  BY <1>4, <1>5
<1>6. \A c, s : Names(cq[r][1], c, s) <=> [fd |-> s, of |-> c] = x
  BY <1>1, <1>3 DEF Names
<1>7. \A c, s : InList(c, r, s)' <=> InList(c, r, s) \/ [fd |-> s, of |-> c] = x
  <2>1. \A i : i \in 1 .. Len(awaiting'[r]) <=>
                 i \in 1 .. Len(awaiting[r]) \/ i = Len(awaiting[r]) + 1
    BY <1>5
  <2> QED
    BY <1>5, <2>1 DEF InList
<1>8. \A c, s : InQueue(c, r, s) <=> InQueue(c, r, s)' \/ [fd |-> s, of |-> c] = x
  <2> SUFFICES ASSUME NEW c, NEW s
               PROVE  InQueue(c, r, s) <=>
                        InQueue(c, r, s)' \/ [fd |-> s, of |-> c] = x
    OBVIOUS
  <2>1. ASSUME InQueue(c, r, s), [fd |-> s, of |-> c] # x PROVE InQueue(c, r, s)'
    <3>1. PICK i \in 1 .. Len(cq[r]) : Names(cq[r][i], c, s)
      BY <2>1 DEF InQueue
    <3>2. i # 1
      BY <1>6, <2>1, <3>1
    <3>3. i - 1 \in 1 .. Len(cq'[r]) /\ (i - 1) + 1 = i
      BY <1>1, <3>2
    <3>4. cq'[r][i - 1] = cq[r][i]
      BY <1>1, <3>3
    <3> QED
      BY <3>1, <3>3, <3>4 DEF InQueue
  <2>2. InQueue(c, r, s)' => InQueue(c, r, s)
    BY <1>1 DEF InQueue
  <2>3. [fd |-> s, of |-> c] = x => InQueue(c, r, s)
    BY <1>1, <1>6 DEF InQueue
  <2> QED
    BY <2>1, <2>2, <2>3
<1>9. \A c, s : \A u \in Ring \ {r} :
        /\ InList(c, u, s)' <=> InList(c, u, s)
        /\ InQueue(c, u, s)' <=> InQueue(c, u, s)
  BY <1>1, <1>5 DEF InList, InQueue
<1>10. \A c : KeepsNumbers(c)
  BY <1>7, <1>8, <1>9, NumberedIs, NumberedNext DEF KeepsNumbers
<1>11. WaitingConns' = WaitingConns
  <2>1. WaitingConns' = ConnsOf(awaiting'[Main]) \o InOrder(cq'[Main])
    BY DEF WaitingConns, ConnsOf, InOrder, Accepts, IsAccepted
  <2>2. CASE r # Main
    BY <1>1, <1>5, <2>1, <2>2, WaitingIs
  <2>3. CASE r = Main
    <3>1. IsAccepted(Head(cq[Main]))
      BY <1>2, <2>3 DEF IsAccepted
    <3>2. PICK a, b : a = ConnsOf(awaiting[Main]) /\ b = InOrder(cq'[Main])
      OBVIOUS
    <3>3. cq[Main] \in Seq(Message) /\ cq'[Main] \in Seq(Message) /\ cq[Main] # <<>>
      BY <1>1, <2>3
    <3>4. InOrder(cq[Main]) = <<d>> \o b
      BY <1>2, <1>3, <2>3, <3>1, <3>2, <3>3, AcceptTaken
    <3>5. ConnsOf(awaiting'[Main]) = Append(a, d)
      <4>1. awaiting[Main] \in Seq(Entry) /\ awaiting'[Main] \in Seq(Entry)
        BY <1>5, <2>3
      <4>2. PICK u : u = ConnsOf(awaiting'[Main])
        OBVIOUS
      <4>3. /\ u \in Seq(Conn) /\ Len(u) = Len(awaiting[Main]) + 1
            /\ a \in Seq(Conn) /\ Len(a) = Len(awaiting[Main])
            /\ \A i \in 1 .. Len(awaiting[Main]) : a[i] = awaiting[Main][i].of
            /\ \A i \in 1 .. Len(u) : u[i] = awaiting'[Main][i].of
        BY <1>5, <2>3, <3>2, <4>1, <4>2, ConnsOfFacts
      <4>3a. /\ Len(awaiting[Main]) \in Nat
             /\ \A i \in 1 .. Len(awaiting[Main]) :
                  awaiting'[Main][i] = awaiting[Main][i]
        BY <1>5, <2>3
      <4>4. \A i \in 1 .. Len(a) : u[i] = a[i] /\ i \in 1 .. Len(u)
        <5>1. Len(a) = Len(awaiting[Main]) /\ Len(u) = Len(a) + 1
          BY <4>3
        <5>2. \A i \in 1 .. Len(a) : i \in 1 .. Len(u)
          BY <4>3a, <5>1
        <5> QED
          BY <4>3, <4>3a, <5>1, <5>2, Zenon
      <4>5. u[Len(a) + 1] = d
        BY <1>5, <1>5a, <2>3, <4>3
      <4>6. u = Append(a, d)
        BY <1>4, <4>3, <4>4, <4>5
      <4> QED
        BY <4>2, <4>6
    <3>6. a \in Seq(Conn \cup {NoConn}) /\ b \in Seq(Conn \cup {NoConn})
      BY <1>0, <3>2, <3>3, ConnsOfFacts, InOrderFacts
    <3>7. a \o (<<d>> \o b) = Append(a, d) \o b
      BY <1>4, <3>6, AppendIsCat
    <3> QED
      BY <2>1, <3>2, <3>4, <3>5, <3>7, WaitingIs
  <2> QED
    BY <2>2, <2>3
<1> QED
  BY <1>10, <1>11 DEF ListsAsBefore

-----------------------------------------------------------------------------
(* What the slots hold.                                                     *)

HasEnded == \E e \in Ending : \E w \in Worker : ListedAt(e, w)

\* A slot that was accepted for c and is still to be sent, or being sent, holds
\* c, unless a task has ended: its slot is not closed, so not given away.
OwnFile ==
  /\ \A c : \A s \in Slot(Main) : Numbered(c, Main, s) => table[Main][s] = c
  /\ \A q \in kernel : q.op # "close" => table[Main][q.fd] = q.of

TasksListed ==
  \A w \in Worker : \A i \in 1 .. Len(tasks[w]) : ListedAt(tasks[w][i].of, w)

\* Only the end of a task closes a slot that was not sent in its turn, and a
\* task runs for a connection whose slot number has arrived.
FileInv ==
  /\ \A c : \A w \in Worker : \A s \in Slot(w) :
       Numbered(c, w, s) => table[w][s] # NoConn
  /\ \A s \in Slot(Main) : table[Main][s] \notin peers
  /\ TasksListed
  /\ \A q \in kernel : q.op = "close" => q.fd = -1 \/ HasEnded
  /\ HasEnded \/ OwnFile

\* What the chain of c copies.
LEMMA FileIs ==
  ASSUME IInv, PathInv, FileInv, NEW q \in kernel, q.op = "send_fd",
         NEW f \in Conn, f = table[Main][q.fd], f # q.of
  PROVE  PlaceOf[f].at # "peer" /\ \E e \in Ending : PlaceOf[e].at = "arrived"
<1>1. q.fd \in Slot(Main)
  BY DEF IInv, RequestInv
<1>2. PlaceOf[f].at # "peer"
  <2>1. f \notin peers
    BY <1>1 DEF FileInv
  <2> QED
    BY <2>1, WhereaboutsIs DEF PlaceOf, At
<1>3. HasEnded
  BY DEF FileInv, OwnFile
<1>4. PICK e \in Ending, w \in Worker : ListedAt(e, w)
  BY <1>3 DEF HasEnded
<1>5. e \in Conn
  BY DialsAssumption
<1>6. PlaceOf[e].at = "arrived"
  BY <1>4, <1>5, WhereaboutsIs DEF PlaceOf, At
<1> QED
  BY <1>2, <1>6

\* The requests and the tasks of the next state are those of this one, or new
\* ones that FileInv has room for.
RequestsFollow ==
  \A q \in kernel' :
    \/ q \in kernel
    \/ q.op = "close" /\ (q.fd = -1 \/ HasEnded)
    \/ /\ q.op # "close"
       /\ \/ q.fd \in Slot(Main) /\ Numbered(q.of, Main, q.fd)
          \/ \E p \in kernel : p.op # "close" /\ p.fd = q.fd /\ p.of = q.of

TasksFollow ==
  \A w \in Worker : \A i \in 1 .. Len(tasks'[w]) : ListedAt(tasks'[w][i].of, w)

LEMMA SameTasks ==
  ASSUME FileInv, tasks' = tasks
  PROVE  TasksFollow
  BY DEF FileInv, TasksListed, TasksFollow

LEMMA SameRequests ==
  ASSUME kernel' \subseteq kernel
  PROVE  RequestsFollow
  BY DEF RequestsFollow

\* What has arrived stays there.
LEMMA EndedStays ==
  ASSUME \A c : \A w \in Worker : ListedAt(c, w) => ListedAt(c, w)'
  PROVE  HasEnded => HasEnded'
  BY DEF HasEnded

\* A step that changes no table and puts no number into the main ring.
LEMMA FileInvStays ==
  ASSUME FileInv, table' = table, peers' \subseteq peers,
         \A c : \A w \in Worker : \A s \in Slot(w) :
           Numbered(c, w, s)' <=> Numbered(c, w, s),
         \A c : \A s \in Slot(Main) : Numbered(c, Main, s)' => Numbered(c, Main, s),
         RequestsFollow, TasksFollow
  PROVE  FileInv'
<1>1. \A c : \A w \in Worker : ListedAt(c, w)' <=> ListedAt(c, w)
  BY DEF ListedAt
<1>2. HasEnded => HasEnded'
  BY <1>1, EndedStays
<1>3. \A c : \A w \in Worker : \A s \in Slot(w) :
        Numbered(c, w, s)' => table'[w][s] # NoConn
  BY DEF FileInv
<1>4. \A s \in Slot(Main) : table'[Main][s] \notin peers'
  BY DEF FileInv
<1>5. TasksListed'
  BY <1>1 DEF TasksFollow, TasksListed
<1>6. \A q \in kernel' : q.op = "close" => q.fd = -1 \/ HasEnded'
  BY <1>2 DEF FileInv, RequestsFollow
<1>7. HasEnded' \/ OwnFile'
  <2> SUFFICES ASSUME ~HasEnded' PROVE OwnFile'
    OBVIOUS
  <2>1. OwnFile
    BY <1>2 DEF FileInv
  <2>2. \A c : \A s \in Slot(Main) : Numbered(c, Main, s)' => table'[Main][s] = c
    BY <2>1 DEF OwnFile
  <2>3. ASSUME NEW q \in kernel', q.op # "close" PROVE table'[Main][q.fd] = q.of
    BY <2>1, <2>3 DEF OwnFile, RequestsFollow
  <2> QED
    BY <2>2, <2>3 DEF OwnFile
<1> QED
  BY <1>3, <1>4, <1>5, <1>6, <1>7 DEF FileInv

LEMMA FileInvKept ==
  ASSUME FileInv, table' = table, peers' \subseteq peers, ListsAsBefore,
         RequestsFollow, TasksFollow
  PROVE  FileInv'
  BY FileInvStays, RingFacts DEF ListsAsBefore, KeepsNumbers

-----------------------------------------------------------------------------
(* The steps that move nothing.                                             *)

LEMMA ArmFollows ==
  ASSUME IInv, PathInv, FileInv, NEW l \in Listener, Arm(l)
  PROVE  PathInv' /\ FileInv' /\ Follows
<1>1. /\ UNCHANGED <<table, peers, kernel, cq, awaiting, current, ended>>
      /\ ended \in BOOLEAN
  BY DEF Arm, IInv, TypeOK
<1>2. ListsAsBefore /\ KeepsSends
  BY <1>1, ListsKept DEF KeepsSends
<1>3. FileInv'
  <2>1. TasksFollow /\ RequestsFollow
    BY <1>1, SameTasks, SameRequests DEF Arm
  <2> QED
    BY <1>1, <1>2, <2>1, FileInvKept
<1> QED
  BY <1>1, <1>2, <1>3, Stays

LEMMA SendAcceptedNoSqeFollows ==
  ASSUME IInv, PathInv, FileInv, NEW l \in Listener, SendAcceptedNoSqe(l)
  PROVE  PathInv' /\ FileInv' /\ Follows
<1>1. /\ UNCHANGED <<table, peers, kernel, cq, awaiting, current>>
      /\ ended \in BOOLEAN
      /\ ~ended /\ ended' = TRUE
  BY DEF SendAcceptedNoSqe, Resumed, acceptVars, threadVars, IInv, TypeOK
<1>2. ListsAsBefore /\ KeepsSends
  BY <1>1, ListsKept DEF KeepsSends
<1>3. FileInv'
  <2>1. TasksFollow /\ RequestsFollow
    BY <1>1, SameTasks, SameRequests DEF SendAcceptedNoSqe, threadVars
  <2> QED
    BY <1>1, <1>2, <2>1, FileInvKept
<1> QED
  BY <1>1, <1>2, <1>3, Stays

LEMMA HandleAcceptFollows ==
  ASSUME IInv, PathInv, FileInv, HandleAccept
  PROVE  PathInv' /\ FileInv' /\ Follows
<1> USE RingFacts
<1>1. /\ UNCHANGED <<table, peers, kernel, current, ended>> /\ ended \in BOOLEAN
      /\ cq[Main] # <<>> /\ Handled(Main) /\ PushIfSlot(Main)
      /\ First(Main).kind = "accept" /\ cq \in [Ring -> Seq(Message)] /\ TypeOK
  BY DEF HandleAccept, Ready, acceptVars, IInv, TypeOK
<1>2. KeepsSends
  BY <1>1 DEF KeepsSends
<1>3. First(Main) = cq[Main][1] /\ 1 \in 1 .. Len(cq[Main])
  BY <1>1, HandledFacts
<1>3a. TasksFollow /\ RequestsFollow
  BY <1>1, SameTasks, SameRequests DEF HandleAccept
<1>4. CASE First(Main).res >= 0
  <2>1. First(Main).res \in Slot(Main) /\ First(Main).of \in Conn
    BY <1>1, <1>3, <1>4 DEF IInv, MessageInv
  <2>2. ListsAsBefore
    BY <1>1, <1>4, <2>1, SlotPushed
  <2> QED
    BY <1>1, <1>2, <1>3a, <2>2, Stays, FileInvKept
<1>5. CASE ~(First(Main).res >= 0)
  <2>1. awaiting' = awaiting
    BY <1>1, <1>5 DEF PushIfSlot, IsSlot, TypeOK
  <2>2. ListsAsBefore
    BY <1>1, <1>5, <2>1, OtherHandled
  <2> QED
    BY <1>1, <1>2, <1>3a, <2>2, Stays, FileInvKept
<1> QED
  BY <1>4, <1>5

LEMMA HandleStaleFollows ==
  ASSUME IInv, PathInv, FileInv, HandleStale
  PROVE  PathInv' /\ FileInv' /\ Follows
<1> USE RingFacts
<1>1. /\ UNCHANGED <<table, peers, kernel, current, awaiting>> /\ ended \in BOOLEAN
      /\ ~ended /\ ended' \in BOOLEAN
      /\ cq[Main] # <<>> /\ Handled(Main)
      /\ First(Main).kind = "stale" /\ cq \in [Ring -> Seq(Message)]
  BY DEF HandleStale, Ready, acceptVars, threadVars, IInv, TypeOK
<1>2. KeepsSends
  BY <1>1 DEF KeepsSends
<1>3. ListsAsBefore
  BY <1>1, OtherHandled
<1>4. TasksFollow /\ RequestsFollow
  BY <1>1, SameTasks, SameRequests DEF HandleStale, threadVars
<1> QED
  BY <1>1, <1>2, <1>3, <1>4, Stays, FileInvKept

LEMMA HandleFdFollows ==
  ASSUME IInv, PathInv, FileInv, NEW w \in Worker, HandleFd(w)
  PROVE  PathInv' /\ FileInv' /\ Follows
<1> USE RingFacts
<1>0. w \in Ring /\ w # Main
  OBVIOUS
<1>1. /\ UNCHANGED <<table, peers, kernel, current, ended>> /\ ended \in BOOLEAN
      /\ cq[w] # <<>> /\ Handled(w) /\ PushIfSlot(w)
      /\ First(w).kind = "fd" /\ cq \in [Ring -> Seq(Message)] /\ TypeOK
  BY DEF HandleFd, Ready, acceptVars, IInv, TypeOK
<1>2. KeepsSends
  BY <1>1 DEF KeepsSends
<1>3. First(w) = cq[w][1] /\ 1 \in 1 .. Len(cq[w])
  BY <1>0, <1>1, HandledFacts
<1>4. First(w).res \in Slot(w) /\ First(w).res >= 0 /\ First(w).of \in Conn
  BY <1>1, <1>3 DEF IInv, MessageInv
<1>5. ListsAsBefore
  BY <1>0, <1>1, <1>4, SlotPushed
<1>6. TasksFollow /\ RequestsFollow
  BY <1>1, SameTasks, SameRequests DEF HandleFd
<1> QED
  BY <1>1, <1>2, <1>5, <1>6, Stays, FileInvKept

LEMMA HandleTaskFollows ==
  ASSUME IInv, PathInv, FileInv, NEW w \in Worker, HandleTask(w)
  PROVE  PathInv' /\ FileInv' /\ Follows
<1> USE RingFacts
<1>0. w \in Ring /\ w # Main
  OBVIOUS
<1>1. /\ UNCHANGED <<table, peers, current, awaiting>> /\ ended \in BOOLEAN
      /\ ~ended /\ ended' \in BOOLEAN
      /\ cq[w] # <<>> /\ Handled(w)
      /\ First(w).kind = "task" /\ cq \in [Ring -> Seq(Message)]
  BY DEF HandleTask, Ready, acceptVars, IInv, TypeOK
<1>2. KeepsSends
  <2>1. Close(-1, NoConn).op = "close"
    BY DEF Close
  <2>2. \/ kernel' = kernel \cup {Close(-1, NoConn) : i \in 1 .. Len(awaiting[w])}
        \/ kernel' = kernel
    BY DEF HandleTask
  <2> QED
    BY <2>1, <2>2 DEF KeepsSends
<1>3. ListsAsBefore
  BY <1>0, <1>1, OtherHandled
<1>4. RequestsFollow
  <2>1. Close(-1, NoConn).op = "close" /\ Close(-1, NoConn).fd = -1
    BY DEF Close
  <2>2. \/ kernel' = kernel \cup {Close(-1, NoConn) : i \in 1 .. Len(awaiting[w])}
        \/ kernel' = kernel
    BY DEF HandleTask
  <2> QED
    BY <2>1, <2>2 DEF RequestsFollow
<1>5. TasksFollow
  <2>1. CASE tasks' = tasks
    BY <2>1, SameTasks
  <2>2. CASE tasks' = [tasks EXCEPT ![w] = @ \o awaiting[w]]
    <3>1. /\ tasks[w] \in Seq(Entry) /\ awaiting[w] \in Seq(Entry)
          /\ tasks'[w] = tasks[w] \o awaiting[w]
          /\ \A v \in Worker \ {w} : tasks'[v] = tasks[v]
      BY <1>0, <2>2 DEF IInv, TypeOK
    <3>2. \A i \in 1 .. Len(awaiting[w]) : ListedAt(awaiting[w][i].of, w)
      <4> SUFFICES ASSUME NEW i \in 1 .. Len(awaiting[w])
                   PROVE  ListedAt(awaiting[w][i].of, w)
        OBVIOUS
      <4>1. \E s \in Slot(w) : InList(awaiting[w][i].of, w, s)
        BY <1>0, ListIs DEF IInv
      <4> QED
        BY <4>1, NumberedIs DEF ListedAt
    <3>3. ASSUME NEW i \in 1 .. Len(tasks'[w]) PROVE ListedAt(tasks'[w][i].of, w)
      <4>1. CASE i \in 1 .. Len(tasks[w])
        <5>1. tasks'[w][i] = tasks[w][i]
          BY <3>1, <4>1
        <5> QED
          BY <4>1, <5>1 DEF FileInv, TasksListed
      <4>2. CASE i \notin 1 .. Len(tasks[w])
        <5>1. PICK k : k = i - Len(tasks[w])
          OBVIOUS
        <5>2. k \in 1 .. Len(awaiting[w]) /\ i = Len(tasks[w]) + k
          <6>1. /\ Len(tasks'[w]) = Len(tasks[w]) + Len(awaiting[w])
                /\ Len(tasks[w]) \in Nat /\ Len(awaiting[w]) \in Nat
            BY <3>1
          <6>2. PICK a, b \in Nat : a = Len(tasks[w]) /\ b = Len(awaiting[w])
            BY <6>1
          <6>3. i \in 1 .. a + b /\ i \notin 1 .. a /\ k = i - a
            BY <4>2, <5>1, <6>1, <6>2
          <6>4. k \in 1 .. b /\ i = a + k
            BY <6>3
          <6> QED
            BY <6>2, <6>4
        <5>3. tasks'[w][i] = awaiting[w][k]
          BY <3>1, <5>2
        <5> QED
          BY <3>2, <5>2, <5>3
      <4> QED
        BY <4>1, <4>2
    <3> QED
      BY <3>1, <3>3 DEF TasksFollow, TasksListed, FileInv
  <2> QED
    BY <2>1, <2>2 DEF HandleTask
<1> QED
  BY <1>1, <1>2, <1>3, <1>4, <1>5, Stays, FileInvKept

LEMMA DestroyConnectionFollows ==
  ASSUME IInv, PathInv, FileInv,
         NEW w \in Worker, NEW i \in 1 .. Len(tasks[w]),
         DestroyConnection(w, i)
  PROVE  PathInv' /\ FileInv' /\ Follows
<1>1. /\ UNCHANGED <<table, peers, cq, current, awaiting>> /\ ended \in BOOLEAN
      /\ ~ended /\ ended' \in BOOLEAN
      /\ kernel' = kernel \cup {Close(tasks[w][i].fd, tasks[w][i].of)}
  BY DEF DestroyConnection, acceptVars, IInv, TypeOK
<1>2. KeepsSends
  BY <1>1 DEF KeepsSends, Close
<1>3. ListsAsBefore
  BY <1>1, ListsKept
<1>4. TasksFollow
  <2>1. /\ tasks \in [Worker -> Seq(Entry)]
        /\ tasks' = [tasks EXCEPT ![w][i].fd = -1]
    BY DEF DestroyConnection, IInv, TypeOK
  <2>2. /\ Len(tasks'[w]) = Len(tasks[w])
        /\ \A j \in 1 .. Len(tasks[w]) : tasks'[w][j].of = tasks[w][j].of
        /\ \A v \in Worker \ {w} : tasks'[v] = tasks[v]
    <3>1. \A j \in 1 .. Len(tasks[w]) : tasks[w][j] \in Entry
      BY <2>1
    <3>2. tasks'[w] = [tasks[w] EXCEPT ![i].fd = -1]
      BY <2>1
    <3>3. \A j \in 1 .. Len(tasks[w]) : tasks'[w][j].of = tasks[w][j].of
      BY <3>1, <3>2 DEF Entry
    <3> QED
      BY <2>1, <3>2, <3>3
  <2> QED
    BY <2>2 DEF TasksFollow, TasksListed, FileInv
<1>5. RequestsFollow
  <2>1. ListedAt(tasks[w][i].of, w) /\ tasks[w][i].of \in Ending
    BY DEF DestroyConnection, FileInv, TasksListed
  <2>2. HasEnded
    BY <2>1 DEF HasEnded
  <2> QED
    BY <1>1, <2>2 DEF RequestsFollow, Close
<1> QED
  BY <1>1, <1>2, <1>3, <1>4, <1>5, Stays, FileInvKept

LEMMA SendTaskFollows ==
  ASSUME IInv, PathInv, FileInv, NEW q \in kernel, SendTask(q)
  PROVE  PathInv' /\ FileInv' /\ Follows
<1> USE RingFacts
<1>0. PICK e, p : /\ e = [kind |-> "task", res |-> -1, of |-> q.of, func |-> q.func]
                  /\ p = [q EXCEPT !.op = "close_fd"]
  OBVIOUS
<1>1. /\ q \in Request /\ q.op = "send_task" /\ q.ring \in Ring
      /\ UNCHANGED <<table, peers, awaiting, current, ended>>
      /\ ended \in BOOLEAN
      /\ Post(q.ring, e) /\ kernel' = (kernel \ {q}) \cup {p}
      /\ cq \in [Ring -> Seq(Message)]
  BY <1>0 DEF SendTask, Continue, acceptVars, threadVars, IInv, TypeOK, RequestInv
<1>2. e \in Message /\ e.kind = "task" /\ p.op = "close_fd"
  BY <1>0, <1>1, SlotFacts DEF Message, Request
<1>3. KeepsSends
  BY <1>1, <1>2 DEF KeepsSends
<1>4. ListsAsBefore
  BY <1>1, <1>2, OtherPosted
<1>5. RequestsFollow
  <2>1. p.fd = q.fd /\ p.of = q.of /\ q.op # "close"
    BY <1>0, <1>1 DEF Request
  <2> QED
    BY <1>1, <1>2, <2>1 DEF RequestsFollow
<1>6. TasksFollow
  BY SameTasks DEF SendTask, threadVars
<1> QED
  BY <1>1, <1>3, <1>4, <1>5, <1>6, Stays, FileInvKept

\* A main slot is closed: it was sent in its turn, or a task has ended.
LEMMA SlotClosed ==
  ASSUME IInv, FileInv, NEW q \in kernel, CloseFd(q), table' # table,
         kernel' = kernel \ {q}, peers' = peers, ListsAsBefore,
         \A w \in Worker : table'[w] = table[w], RequestsFollow, TasksFollow
  PROVE  FileInv'
<1> USE RingFacts
<1>1. /\ q.fd \in Slot(Main) /\ table[Main][q.fd] # NoConn
      /\ table'[Main] = [table[Main] EXCEPT ![q.fd] = NoConn]
  BY DEF CloseFd, IInv, TypeOK
<1>2. /\ table'[Main][q.fd] = NoConn
      /\ \A s \in Slot(Main) \ {q.fd} : table'[Main][s] = table[Main][s]
  BY <1>1 DEF IInv, TypeOK
<1>3. /\ \A c : \A r \in Ring : \A s \in Slot(r) :
           Numbered(c, r, s)' <=> Numbered(c, r, s)
      /\ \A c : \A r \in Ring : ListedAt(c, r)' <=> ListedAt(c, r)
  BY KeepsListed DEF ListsAsBefore, KeepsNumbers
<1>4. HasEnded => HasEnded'
  BY <1>3, EndedStays
<1>5. \A c : \A w \in Worker : \A s \in Slot(w) :
        Numbered(c, w, s)' => table'[w][s] # NoConn
  BY <1>3 DEF FileInv
<1>6. \A s \in Slot(Main) : table'[Main][s] \notin peers'
  <2>1. NoConn \notin peers
    BY ConnAssumption DEF IInv, TypeOK
  <2> QED
    BY <1>2, <2>1 DEF FileInv
<1>7. TasksListed'
  BY <1>3, RingFacts DEF TasksFollow, TasksListed
<1>8. \A p \in kernel' : p.op = "close" => p.fd = -1 \/ HasEnded'
  BY <1>4 DEF FileInv
<1>9. HasEnded' \/ OwnFile'
  <2> SUFFICES ASSUME ~HasEnded' PROVE OwnFile'
    OBVIOUS
  <2>1. ~HasEnded /\ OwnFile
    BY <1>4 DEF FileInv
  <2>2. q.op # "close"
    <3>1. q.fd # -1
      BY <1>1, SlotFacts
    <3> QED
      BY <2>1, <3>1 DEF FileInv
  <2>3. table[Main][q.fd] = q.of /\ InChain(q.of) /\ q.of \in Conn
    BY <2>1, <2>2 DEF OwnFile, InChain, IInv, RequestInv
  <2>4. ~ListedAt(q.of, Main)
    <3>1. ~Unsent(q.of) /\ ~InBatch(q.of)
      BY <2>3 DEF IInv, OnceInv
    <3> QED
      BY <3>1, ListedMain DEF IInv
  <2>5. ASSUME NEW c, NEW s \in Slot(Main), Numbered(c, Main, s)'
        PROVE  table'[Main][s] = c
    <3>1. Numbered(c, Main, s) /\ ListedAt(c, Main)
      BY <1>3, <2>5 DEF ListedAt
    <3>2. table[Main][s] = c
      BY <2>1, <3>1 DEF OwnFile
    <3>3. s # q.fd
      BY <2>3, <2>4, <3>1, <3>2
    <3> QED
      BY <1>2, <3>2, <3>3
  <2>6. ASSUME NEW p \in kernel', p.op # "close"
        PROVE  table'[Main][p.fd] = p.of
    <3>1. p \in kernel /\ p # q /\ p.fd \in Slot(Main) /\ table[Main][p.fd] = p.of
      BY <2>1, <2>6 DEF OwnFile, IInv, RequestInv
    <3>2. p.of # q.of
      BY <2>2, <2>6, <3>1 DEF IInv, OnceInv
    <3>3. p.fd # q.fd
      BY <2>3, <3>1, <3>2
    <3> QED
      BY <1>2, <3>1, <3>3
  <2> QED
    BY <2>5, <2>6 DEF OwnFile
<1> QED
  BY <1>5, <1>6, <1>7, <1>8, <1>9 DEF FileInv

LEMMA CloseFdFollows ==
  ASSUME IInv, PathInv, FileInv, NEW q \in kernel, CloseFd(q)
  PROVE  PathInv' /\ FileInv' /\ Follows
<1> USE RingFacts
<1>1. /\ q.op \in {"close", "close_fd"} /\ kernel' = kernel \ {q}
      /\ UNCHANGED <<peers, awaiting, current, ended>> /\ ended \in BOOLEAN
      /\ cq \in [Ring -> Seq(Message)]
  BY DEF CloseFd, Finish, acceptVars, threadVars, IInv, TypeOK
<1>2. KeepsSends
  BY <1>1 DEF KeepsSends
<1>3. cq' = cq \/ Post(Main, Stale)
  BY DEF CloseFd
<1>4. ListsAsBefore
  BY <1>1, <1>3, ListsKept, OtherPosted, StaleType
<1>5. \A w \in Worker : table'[w] = table[w]
  BY DEF CloseFd, IInv, TypeOK
<1>6. TasksFollow /\ RequestsFollow
  BY <1>1, SameTasks, SameRequests DEF CloseFd, threadVars
<1>7. FileInv'
  <2>1. CASE table' = table
    BY <1>1, <1>4, <1>6, <2>1, FileInvKept
  <2>2. CASE table' # table
    BY <1>1, <1>2, <1>4, <1>5, <1>6, <2>2, SlotClosed
  <2> QED
    BY <2>1, <2>2
<1> QED
  BY <1>1, <1>2, <1>4, <1>5, <1>7, Stays

-----------------------------------------------------------------------------
(* The steps that move a connection.                                        *)

LEMMA SlotPosted ==
  ASSUME cq \in [Ring -> Seq(Message)], NEW r \in Ring, NEW e \in Message, Post(r, e),
         NEW c, NEW x \in Slot(r), Names(e, c, x), awaiting' = awaiting
  PROVE  /\ \A d, s : \A u \in Ring : Numbered(d, u, s)' <=>
              Numbered(d, u, s) \/ (u = r /\ d = c /\ s = x)
         /\ \A d : \A u \in Ring :
              ListedAt(d, u)' <=> ListedAt(d, u) \/ (u = r /\ d = c)
         /\ \A d : d # c => KeepsNumbers(d)
<1>1. /\ Len(cq[r]) \in Nat /\ Len(cq'[r]) = Len(cq[r]) + 1
      /\ cq'[r][Len(cq[r]) + 1] = e
      /\ \A i \in 1 .. Len(cq[r]) : cq'[r][i] = cq[r][i]
      /\ \A s \in Ring \ {r} : cq'[s] = cq[s]
  BY PostFacts
<1>2. \A d, s : Names(e, d, s) <=> d = c /\ s = x
  BY DEF Names
<1>3. \A d, s : InQueue(d, r, s)' <=> InQueue(d, r, s) \/ (d = c /\ s = x)
  <2>1. \A i : i \in 1 .. Len(cq'[r]) <=> i \in 1 .. Len(cq[r]) \/ i = Len(cq[r]) + 1
    BY <1>1
  <2> QED
    BY <1>1, <1>2, <2>1 DEF InQueue
<1>4. \A d, s : \A u \in Ring \ {r} : InQueue(d, u, s)' <=> InQueue(d, u, s)
  BY <1>1 DEF InQueue
<1>5. \A d, u, s : InList(d, u, s)' <=> InList(d, u, s)
  BY DEF InList
<1>6. \A d, s : \A u \in Ring : Numbered(d, u, s)' <=>
        Numbered(d, u, s) \/ (u = r /\ d = c /\ s = x)
  BY <1>3, <1>4, <1>5, NumberedIs, NumberedNext
<1>7. \A d : \A u \in Ring : ListedAt(d, u)' <=> ListedAt(d, u) \/ (u = r /\ d = c)
  BY <1>6 DEF ListedAt
<1> QED
  BY <1>6, <1>7 DEF KeepsNumbers

\* A connection is accepted into a free slot.
LEMMA SlotTaken ==
  ASSUME IInv, FileInv, NEW c \in Conn, NEW s \in Slot(Main), AcceptConn(c, s),
         NEW e \in Message, Names(e, c, s), Post(Main, e), awaiting' = awaiting,
         cq \in [Ring -> Seq(Message)]
  PROVE  FileInv'
<1> USE RingFacts
<1>1. /\ table[Main][s] = NoConn /\ peers' = peers \ {c}
      /\ table'[Main] = [table[Main] EXCEPT ![s] = c]
      /\ \A w \in Worker : table'[w] = table[w]
      /\ UNCHANGED <<kernel, tasks>>
  BY FreeFacts DEF AcceptConn, threadVars, IInv, TypeOK
<1>2. /\ table'[Main][s] = c
      /\ \A t \in Slot(Main) \ {s} : table'[Main][t] = table[Main][t]
  BY <1>1 DEF IInv, TypeOK
<1>3. /\ \A d, t : \A r \in Ring : Numbered(d, r, t)' <=>
           Numbered(d, r, t) \/ (r = Main /\ d = c /\ t = s)
      /\ \A d : \A r \in Ring : ListedAt(d, r) => ListedAt(d, r)'
  BY SlotPosted
<1>4. HasEnded => HasEnded'
  BY <1>3, EndedStays
<1>5. \A d : \A w \in Worker : \A t \in Slot(w) :
        Numbered(d, w, t)' => table'[w][t] # NoConn
  BY <1>1, <1>3 DEF FileInv
<1>6. \A t \in Slot(Main) : table'[Main][t] \notin peers'
  BY <1>1, <1>2 DEF FileInv
<1>7. TasksListed'
  BY <1>1, <1>3 DEF FileInv, TasksListed
<1>8. \A q \in kernel' : q.op = "close" => q.fd = -1 \/ HasEnded'
  BY <1>1, <1>4 DEF FileInv
<1>9. HasEnded' \/ OwnFile'
  <2> SUFFICES ASSUME ~HasEnded' PROVE OwnFile'
    OBVIOUS
  <2>1. OwnFile
    BY <1>4 DEF FileInv
  <2>2. ASSUME NEW d, NEW t \in Slot(Main), Numbered(d, Main, t)'
        PROVE  table'[Main][t] = d
    <3>1. CASE d = c /\ t = s
      BY <1>2, <3>1
    <3>2. CASE Numbered(d, Main, t)
      <4>1. table[Main][t] = d
        BY <2>1, <3>2 DEF OwnFile
      <4>2. d \in Conn
        <5>1. t >= 0
          BY SlotFacts
        <5> QED
          BY <3>2, <5>1, NumberIsSlot DEF IInv
      <4>3. t # s
        BY <1>1, <4>1, <4>2, ConnAssumption
      <4> QED
        BY <1>2, <4>1, <4>3
    <3> QED
      BY <1>3, <2>2, <3>1, <3>2
  <2>3. ASSUME NEW q \in kernel', q.op # "close" PROVE table'[Main][q.fd] = q.of
    <3>1. table[Main][q.fd] = q.of /\ q.fd \in Slot(Main) /\ q.of \in Conn
      BY <1>1, <2>1, <2>3 DEF OwnFile, IInv, RequestInv
    <3>2. q.fd # s
      BY <1>1, <3>1, ConnAssumption
    <3> QED
      BY <1>2, <3>1, <3>2
  <2> QED
    BY <2>2, <2>3 DEF OwnFile
<1> QED
  BY <1>5, <1>6, <1>7, <1>8, <1>9 DEF FileInv

LEMMA AcceptConnFollows ==
  ASSUME IInv, IInv', PathInv, FileInv,
         NEW c \in Conn, NEW s \in Slot(Main), AcceptConn(c, s),
         ~ended
  PROVE  PathInv' /\ FileInv' /\ Follows
<1> USE RingFacts
<1>0. PICK e : e = [kind |-> "accept", res |-> s, of |-> c, func |-> NoListener]
  OBVIOUS
<1>1. e \in Message /\ IsAccepted(e) /\ Names(e, c, s) /\ e.of = c
  BY <1>0, SlotFacts DEF Message, IsAccepted, Names
<1>2. /\ c \in peers /\ peers' = peers \ {c}
      /\ Post(Main, e) /\ UNCHANGED <<kernel, awaiting, current, ended>>
      /\ cq \in [Ring -> Seq(Message)] /\ awaiting \in [Ring -> Seq(Entry)]
  BY <1>0 DEF AcceptConn, threadVars, IInv, TypeOK
<1>3. \A d : \A r \in Ring : ListedAt(d, r)' <=> ListedAt(d, r) \/ (r = Main /\ d = c)
  BY <1>1, <1>2, SlotPosted
<1>4. \A d, w : SentTo(d, w)' <=> SentTo(d, w)
  BY <1>2 DEF SentTo
<1>5. \A d \in Conn \ {c} : KeepsPlace(d)
  BY <1>2, <1>3, <1>4 DEF KeepsPlace
<1>6. PathOf(c)'
  <2>1. \A w \in Worker : ~ListedAt(c, w)
    BY <1>2 DEF PathInv, PathOf
  <2>2. \A w \in Worker : ~ListedAt(c, w)'
    BY <1>3, <2>1
  <2> QED
    BY <2>2 DEF PathOf
<1>7. PICK p : p = Whereabouts(c)'
  OBVIOUS
<1>8. PathInv' /\ PlaceOf' = [PlaceOf EXCEPT ![c] = p]
  BY <1>5, <1>6, <1>7, OneMoves
<1>9. p = At("waiting", NWorkers)
  <2>1. ListedAt(c, Main)'
    BY <1>3
  <2> QED
    BY <1>7, <1>8, <2>1, WhereaboutsNext
<1>10. PlaceOf[c].at = "peer"
  BY <1>2, WhereaboutsIs DEF PlaceOf, At
<1>11. WaitingConns' = Append(WaitingConns, c)
  <2>1. WaitingConns' = ConnsOf(awaiting'[Main]) \o InOrder(cq'[Main])
    BY DEF WaitingConns, ConnsOf, InOrder, Accepts, IsAccepted
  <2>2. cq'[Main] = Append(cq[Main], e) /\ cq[Main] \in Seq(Message)
    BY <1>2 DEF Post
  <2>3. InOrder(cq'[Main]) = Append(InOrder(cq[Main]), c)
    BY <1>1, <2>2, OrderOfAccept
  <2>4. PICK a, b : a = ConnsOf(awaiting[Main]) /\ b = InOrder(cq[Main])
    OBVIOUS
  <2>5. a \in Seq(Conn \cup {NoConn}) /\ b \in Seq(Conn \cup {NoConn})
    BY <1>2, <2>2, <2>4, ConnsOfFacts, InOrderFacts
  <2>6. a \o Append(b, c) = Append(a \o b, c)
    BY <2>5
  <2> QED
    BY <1>2, <2>1, <2>3, <2>4, <2>6, WaitingIs
<1>11a. FilesOf' = FilesOf
  <2>1. ASSUME NEW d \in Conn, NEW w \in Worker, NEW x \in Slot(w)
        PROVE  /\ Numbered(d, w, x)' <=> Numbered(d, w, x)
               /\ table'[w][x] = table[w][x]
    <3>1. \A y : \A u \in Ring : Numbered(d, u, y)' <=>
            Numbered(d, u, y) \/ (u = Main /\ d = c /\ y = s)
      BY <1>1, <1>2, SlotPosted
    <3>2. table' = [table EXCEPT ![Main][s] = c] /\ DOMAIN table = Ring
      BY DEF AcceptConn, IInv, TypeOK
    <3>3. table'[w] = table[w]
      BY <3>2
    <3>4. Numbered(d, w, x)' <=> Numbered(d, w, x)
      BY <3>1
    <3> QED
      BY <3>3, <3>4
  <2>2. \A d \in Conn : FileOf(d)' = FileOf(d)
    BY <2>1, FileKept
  <2> QED
    BY <2>2 DEF FilesOf
<1>12. AcceptsOne(c)
  BY <1>2, <1>8, <1>9, <1>10, <1>11, <1>11a DEF AcceptsOne
<1>13. FileInv'
  BY <1>1, <1>2, SlotTaken
<1> QED
  BY <1>2, <1>8, <1>12, <1>13 DEF Follows

LEMMA AcceptFailsFollows ==
  ASSUME IInv, IInv', PathInv, FileInv, NEW c \in Conn, AcceptFails(c), ~ended
  PROVE  PathInv' /\ FileInv' /\ Follows
<1> USE RingFacts
<1>0. PICK e : e = [kind |-> "accept", res |-> -1, of |-> c, func |-> NoListener]
  OBVIOUS
<1>1. e \in Message /\ ~(e.res >= 0)
  BY <1>0, SlotFacts DEF Message
<1>2. /\ c \in peers /\ peers' = peers \ {c}
      /\ Post(Main, e) /\ UNCHANGED <<table, kernel, awaiting, current, ended>>
      /\ cq \in [Ring -> Seq(Message)]
  BY <1>0 DEF AcceptFails, threadVars, IInv, TypeOK
<1>3. ListsAsBefore
  BY <1>1, <1>2, OtherPosted
<1>4. \A d, w : SentTo(d, w)' <=> SentTo(d, w)
  BY <1>2 DEF SentTo
<1>4a. \A d : \A r \in Ring : ListedAt(d, r)' <=> ListedAt(d, r)
  BY <1>3, KeepsListed DEF ListsAsBefore
<1>5. \A d \in Conn \ {c} : KeepsPlace(d)
  BY <1>2, <1>4, <1>4a DEF KeepsPlace
<1>6. /\ ~ListedAt(c, Main)' /\ c \notin peers'
      /\ \A w \in Worker : ~SentTo(c, w)' /\ ~ListedAt(c, w)'
  <2>1. \A w \in Worker : ~ListedAt(c, w)
    BY <1>2 DEF PathInv, PathOf
  <2>2. ~ListedAt(c, Main) /\ \A w \in Worker : ~SentTo(c, w)
    BY <1>2, Exclusive
  <2> QED
    BY <1>2, <1>4, <1>4a, <2>1, <2>2
<1>7. PICK p : p = Whereabouts(c)'
  OBVIOUS
<1>8. PathInv' /\ PlaceOf' = [PlaceOf EXCEPT ![c] = p]
  <2>1. PathOf(c)'
    BY <1>6 DEF PathOf
  <2> QED
    BY <1>5, <1>7, <2>1, OneMoves
<1>9. p = At("lost", NWorkers)
  BY <1>6, <1>7, <1>8, WhereaboutsNext
<1>10. PlaceOf[c].at = "peer"
  BY <1>2, WhereaboutsIs DEF PlaceOf, At
<1>10a. FilesOf' = FilesOf
  BY <1>2, <1>3, FilesKept DEF ListsAsBefore
<1>11. Loses(c)
  BY <1>2, <1>3, <1>8, <1>9, <1>10, <1>10a DEF Loses, ListsAsBefore
<1>12. FileInv'
  <2>1. TasksFollow /\ RequestsFollow
    BY <1>2, SameTasks, SameRequests DEF AcceptFails, threadVars
  <2> QED
    BY <1>2, <1>3, <2>1, FileInvKept
<1> QED
  BY <1>2, <1>8, <1>11, <1>12 DEF Follows

\* The chain q of c is the only one, and c is at no worker yet.
LEMMA ChainOf ==
  ASSUME IInv, PathInv, FileInv, NEW q \in kernel, q.op = "send_fd"
  PROVE  /\ q \in Request /\ q.of \in Conn /\ q.ring \in Worker
         /\ \A p \in kernel : p.op = "send_fd" /\ p.of = q.of => p = q
         /\ q.of \notin peers /\ ~ListedAt(q.of, Main)
         /\ \A w \in Worker : /\ ~ListedAt(q.of, w)
                              /\ SentTo(q.of, w) <=> w = q.ring
         /\ PlaceOf[q.of] = At("sent", q.ring)
<1>1. q \in Request /\ q.of \in Conn /\ q.ring \in Worker
  BY DEF IInv, TypeOK, RequestInv
<1>2. \A p \in kernel : p.op = "send_fd" /\ p.of = q.of => p = q
  BY DEF IInv, OnceInv
<1>3. \A w \in Worker : SentTo(q.of, w) <=> w = q.ring
  BY <1>2 DEF SentTo
<1>4. SentTo(q.of, q.ring)
  BY <1>1, <1>3
<1>5. q.of \notin peers /\ ~ListedAt(q.of, Main)
  BY <1>1, <1>4, Exclusive
<1>6. \A w \in Worker : ~ListedAt(q.of, w)
  BY <1>1, <1>4 DEF PathInv, PathOf
<1>7. Whereabouts(q.of) = At("sent", q.ring)
  BY <1>1, <1>4, WhereaboutsIs
<1> QED
  BY <1>1, <1>2, <1>3, <1>5, <1>6, <1>7 DEF PlaceOf

\* A main slot is copied into slot s of worker v.
LEMMA SlotCopied ==
  ASSUME IInv, FileInv, NEW q \in kernel, q.op = "send_fd",
         NEW v \in Worker, NEW s \in Slot(v), NEW f \in Conn,
         SendFd(q, s), v = q.ring, f = table[Main][q.fd],
         NEW x, x = [q EXCEPT !.op = "send_task"], kernel' = (kernel \ {q}) \cup {x},
         table'[v][s] = f,
         \A w \in Worker : \A t \in Slot(w) :
           ~(w = v /\ t = s) => table'[w][t] = table[w][t],
         \A d, t : \A w \in Worker : Numbered(d, w, t)' <=>
           Numbered(d, w, t) \/ (w = v /\ d = q.of /\ t = s),
         \A d, t : Numbered(d, Main, t)' <=> Numbered(d, Main, t)
  PROVE  FileInv'
<1> USE RingFacts
<1>1. UNCHANGED <<peers, tasks>> /\ table'[Main] = table[Main]
  BY DEF SendFd, acceptVars, threadVars, IInv, TypeOK
<1>2. x.op # "close" /\ x.fd = q.fd /\ x.of = q.of
  BY DEF IInv, TypeOK, Request
<1>3. \A d : \A w \in Worker : ListedAt(d, w) => ListedAt(d, w)'
  BY DEF ListedAt
<1>4. HasEnded => HasEnded'
  BY <1>3, EndedStays
<1>5. \A d : \A w \in Worker : \A t \in Slot(w) :
        Numbered(d, w, t)' => table'[w][t] # NoConn
  <2>1. f # NoConn
    BY ConnAssumption
  <2> QED
    BY <2>1 DEF FileInv
<1>6. \A t \in Slot(Main) : table'[Main][t] \notin peers'
  BY <1>1 DEF FileInv
<1>7. TasksListed'
  BY <1>1, <1>3 DEF FileInv, TasksListed
<1>8. \A p \in kernel' : p.op = "close" => p.fd = -1 \/ HasEnded'
  BY <1>2, <1>4 DEF FileInv
<1>9. HasEnded' \/ OwnFile'
  <2> SUFFICES ASSUME ~HasEnded' PROVE OwnFile'
    OBVIOUS
  <2>1. OwnFile
    BY <1>4 DEF FileInv
  <2>2. \A c : \A t \in Slot(Main) : Numbered(c, Main, t)' => table'[Main][t] = c
    BY <1>1, <2>1 DEF OwnFile
  <2>3. ASSUME NEW p \in kernel', p.op # "close" PROVE table'[Main][p.fd] = p.of
    <3>1. CASE p = x
      <4>1. q.op # "close" /\ table[Main][q.fd] = q.of
        BY <2>1 DEF OwnFile
      <4> QED
        BY <1>1, <1>2, <3>1, <4>1
    <3>2. CASE p \in kernel
      BY <1>1, <2>1, <2>3, <3>2 DEF OwnFile
    <3> QED
      BY <3>1, <3>2
  <2> QED
    BY <2>2, <2>3 DEF OwnFile
<1> QED
  BY <1>5, <1>6, <1>7, <1>8, <1>9 DEF FileInv

LEMMA SendFdFollows ==
  ASSUME IInv, IInv', PathInv, FileInv, NEW q \in kernel, NEW s \in Slot(q.ring),
         SendFd(q, s), ~ended
  PROVE  PathInv' /\ FileInv' /\ Follows
<1> USE RingFacts
<1>0. PICK e, x, c, v :
        /\ e = [kind |-> "fd", res |-> s, of |-> q.of, func |-> NoListener]
        /\ x = [q EXCEPT !.op = "send_task"]
        /\ c = q.of /\ v = q.ring
  OBVIOUS
<1>1. /\ q.op = "send_fd" /\ c \in Conn /\ v \in Worker /\ v \in Ring /\ v # Main
      /\ q \in Request
      /\ \A p \in kernel : p.op = "send_fd" /\ p.of = c => p = q
      /\ c \notin peers /\ ~ListedAt(c, Main)
      /\ \A w \in Worker : ~ListedAt(c, w) /\ (SentTo(c, w) <=> w = v)
      /\ PlaceOf[c] = At("sent", v)
  BY <1>0, ChainOf DEF SendFd
<1>2. /\ e \in Message /\ Names(e, c, s)
      /\ x.op = "send_task" /\ x.of = c /\ s \in Slot(v)
  <2>1. s >= 0 /\ s \in Fd
    BY <1>0, <1>1, SlotFacts
  <2> QED
    BY <1>0, <1>1, <2>1 DEF Message, Names, Request
<1>3. /\ Post(v, e) /\ kernel' = (kernel \ {q}) \cup {x}
      /\ UNCHANGED <<peers, awaiting, current, ended>>
      /\ cq \in [Ring -> Seq(Message)]
  BY <1>0 DEF SendFd, Continue, acceptVars, threadVars, IInv, TypeOK
<1>4. \A d : \A r \in Ring : ListedAt(d, r)' <=> ListedAt(d, r) \/ (r = v /\ d = c)
  BY <1>1, <1>2, <1>3, SlotPosted
<1>5. \A p : p.op = "send_fd" /\ p.of # c => (p \in kernel' <=> p \in kernel)
  BY <1>0, <1>2, <1>3
<1>6. \A d \in Conn \ {c} : KeepsPlace(d)
  <2>1. \A d \in Conn \ {c} : \A w \in Worker : SentTo(d, w)' <=> SentTo(d, w)
    BY <1>5 DEF SentTo
  <2> QED
    BY <1>3, <1>4, <2>1 DEF KeepsPlace
<1>7. \A w \in Worker : ~SentTo(c, w)'
  <2>1. \A p \in kernel' : ~(p.op = "send_fd" /\ p.of = c)
    BY <1>1, <1>2, <1>3
  <2> QED
    BY <2>1 DEF SentTo
<1>8. PathOf(c)'
  BY <1>1, <1>3, <1>4, <1>7 DEF PathOf
<1>9. PICK p : p = Whereabouts(c)'
  OBVIOUS
<1>10. PathInv' /\ PlaceOf' = [PlaceOf EXCEPT ![c] = p]
  BY <1>1, <1>6, <1>8, <1>9, OneMoves
<1>11. p = At("arrived", v)
  <2>1. ListedAt(c, v)'
    BY <1>1, <1>4
  <2> QED
    BY <1>1, <1>9, <1>10, <2>1, WhereaboutsNext
<1>12. /\ At("arrived", v) = [At("sent", v) EXCEPT !.at = "arrived"]
       /\ At("sent", v).at = "sent"
  BY DEF At
<1>13. WaitingConns' = WaitingConns
  <2>1. cq'[Main] = cq[Main]
    BY <1>1, <1>2, <1>3, PostFacts
  <2> QED
    BY <1>3, <2>1 DEF WaitingConns
<1>13a. PICK f \in Conn : f = table[Main][q.fd]
  <2>1. q.fd \in Slot(Main)
    BY <1>1 DEF IInv, RequestInv
  <2>2. table[Main][q.fd] # NoConn /\ table[Main][q.fd] \in Conn \cup {NoConn}
    BY <2>1 DEF SendFd, IInv, TypeOK
  <2> QED
    BY <2>2
<1>13b. Gets(c, f)
  BY <1>0, <1>1, <1>13a, FileIs DEF Gets
<1>13c. /\ s \in Slot(v) /\ table[v][s] = NoConn /\ table'[v][s] = f
        /\ \A w \in Worker : \A y \in Slot(w) :
             ~(w = v /\ y = s) => table'[w][y] = table[w][y]
  <2>1. s \in Slot(v) /\ table[v][s] = NoConn
    BY <1>0, <1>1, FreeFacts DEF SendFd
  <2>2. table' = [table EXCEPT ![v] = [@ EXCEPT ![s] = f]]
    BY <1>0, <1>13a DEF SendFd
  <2>3. DOMAIN table = Ring /\ \A r \in Ring : table[r] \in [Slot(r) -> Conn \cup {NoConn}]
    BY DEF IInv, TypeOK
  <2>4. /\ table'[v] = [table[v] EXCEPT ![s] = f]
        /\ \A w \in Worker \ {v} : table'[w] = table[w]
    BY <1>1, <2>2, <2>3
  <2>5. /\ table'[v][s] = f
        /\ \A y \in Slot(v) \ {s} : table'[v][y] = table[v][y]
    BY <1>1, <2>1, <2>3, <2>4
  <2> QED
    BY <2>1, <2>4, <2>5
<1>13d. \A d, y : \A w \in Worker : Numbered(d, w, y)' <=>
          Numbered(d, w, y) \/ (w = v /\ d = c /\ y = s)
  BY <1>1, <1>2, <1>3, SlotPosted
<1>13f. \A d, y : Numbered(d, Main, y)' <=> Numbered(d, Main, y)
  BY <1>1, <1>2, <1>3, SlotPosted
<1>13e. FilesOf' = [FilesOf EXCEPT ![c] = f]
  <2>1. ASSUME NEW d \in Conn \ {c} PROVE FileOf(d)' = FileOf(d)
    <3>1. ~Numbered(d, v, s)
      BY <1>1, <1>13c DEF FileInv
    <3>2. \A w \in Worker : \A y \in Slot(w) :
            /\ Numbered(d, w, y)' <=> Numbered(d, w, y)
            /\ Numbered(d, w, y) => table'[w][y] = table[w][y]
      BY <1>13c, <1>13d, <3>1
    <3> QED
      BY <3>2, FileKept
  <2>2. FileOf(c)' = f
    <3>1. \A w \in Worker : \A y \in Slot(w) : Numbered(c, w, y)' <=> w = v /\ y = s
      BY <1>1, <1>13c, <1>13d DEF ListedAt
    <3>2. Copies(c)' = {f}
      BY <1>1, <1>13c, <3>1 DEF Copies
    <3> QED
      BY <3>2 DEF FileOf
  <2> QED
    BY <2>1, <2>2 DEF FilesOf
<1>14. Arrives(c)
  <2>1. PlaceOf' = [PlaceOf EXCEPT ![c] = [PlaceOf[c] EXCEPT !.at = "arrived"]]
    BY <1>1, <1>10, <1>11, <1>12
  <2>2. PlaceOf[c].at = "sent"
    BY <1>1, <1>12
  <2> QED
    BY <1>3, <1>13, <1>13b, <1>13e, <2>1, <2>2 DEF Arrives
<1>15. FileInv'
  <2>1. /\ q.op = "send_fd" /\ v \in Worker /\ v = q.ring /\ s \in Slot(v)
        /\ x = [q EXCEPT !.op = "send_task"] /\ kernel' = (kernel \ {q}) \cup {x}
        /\ f = table[Main][q.fd] /\ table'[v][s] = f
    BY <1>0, <1>1, <1>3, <1>13a, <1>13c
  <2>2. \A d, t : \A w \in Worker : Numbered(d, w, t)' <=>
          Numbered(d, w, t) \/ (w = v /\ d = q.of /\ t = s)
    BY <1>0, <1>13d
  <2> QED
    BY <2>1, <2>2, <1>13c, <1>13f, SlotCopied
<1> QED
  BY <1>1, <1>3, <1>10, <1>14, <1>15 DEF Follows

LEMMA SendFdFailsFollows ==
  ASSUME IInv, IInv', PathInv, FileInv, NEW q \in kernel, SendFdFails(q), ~ended
  PROVE  PathInv' /\ FileInv' /\ Follows
<1> USE RingFacts
<1>0. PICK c, v : c = q.of /\ v = q.ring
  OBVIOUS
<1>1. /\ q.op = "send_fd" /\ c \in Conn /\ v \in Worker
      /\ \A p \in kernel : p.op = "send_fd" /\ p.of = c => p = q
      /\ c \notin peers /\ ~ListedAt(c, Main)
      /\ \A w \in Worker : ~ListedAt(c, w)
      /\ PlaceOf[c] = At("sent", v)
  BY <1>0, ChainOf DEF SendFdFails
<1>2. /\ Post(Main, Stale) /\ kernel' = kernel \ {q}
      /\ UNCHANGED <<table, peers, awaiting, current, ended>>
      /\ cq \in [Ring -> Seq(Message)]
  BY DEF SendFdFails, Finish, acceptVars, threadVars, IInv, TypeOK
<1>3. ListsAsBefore
  BY <1>2, OtherPosted, StaleType
<1>3a. \A d : \A r \in Ring : ListedAt(d, r)' <=> ListedAt(d, r)
  BY <1>3, KeepsListed DEF ListsAsBefore
<1>4. \A d \in Conn \ {c} : KeepsPlace(d)
  <2>1. \A p : p.of # c => (p \in kernel' <=> p \in kernel)
    BY <1>0, <1>2
  <2>2. \A d \in Conn \ {c} : \A w \in Worker : SentTo(d, w)' <=> SentTo(d, w)
    BY <2>1 DEF SentTo
  <2> QED
    BY <1>2, <1>3a, <2>2 DEF KeepsPlace
<1>5. \A w \in Worker : ~SentTo(c, w)'
  <2>1. \A p \in kernel' : ~(p.op = "send_fd" /\ p.of = c)
    BY <1>1, <1>2
  <2> QED
    BY <2>1 DEF SentTo
<1>6. /\ c \notin peers' /\ ~ListedAt(c, Main)'
      /\ \A w \in Worker : ~ListedAt(c, w)'
  BY <1>1, <1>2, <1>3a
<1>7. PICK p : p = Whereabouts(c)'
  OBVIOUS
<1>8. PathInv' /\ PlaceOf' = [PlaceOf EXCEPT ![c] = p]
  <2>1. PathOf(c)'
    BY <1>6 DEF PathOf
  <2> QED
    BY <1>1, <1>4, <1>7, <2>1, OneMoves
<1>9. p = At("lost", NWorkers)
  BY <1>1, <1>5, <1>6, <1>7, <1>8, WhereaboutsNext
<1>10. PlaceOf[c].at = "sent"
  BY <1>1 DEF At
<1>10a. FilesOf' = FilesOf
  BY <1>2, <1>3, FilesKept DEF ListsAsBefore
<1>11. Loses(c)
  BY <1>2, <1>3, <1>8, <1>9, <1>10, <1>10a DEF Loses, ListsAsBefore
<1>12. FileInv'
  <2>1. TasksFollow /\ RequestsFollow
    BY <1>2, SameTasks, SameRequests DEF SendFdFails, threadVars
  <2> QED
    BY <1>2, <1>3, <2>1, FileInvKept
<1> QED
  BY <1>1, <1>2, <1>8, <1>11, <1>12 DEF Follows

LEMMA EmptySeq ==
  ASSUME NEW S, NEW s \in Seq(S), Len(s) = 0
  PROVE  s = <<>>
  OBVIOUS

\* The rest of a sequence.
LEMMA RestOfCat ==
  ASSUME NEW S, NEW a \in Seq(S), NEW b \in Seq(S)
  PROVE  b = SubSeq(a \o b, Len(a) + 1, Len(a \o b))
<1>1. PICK u, v : u = a \o b /\ v = SubSeq(u, Len(a) + 1, Len(u))
  OBVIOUS
<1>2. /\ u \in Seq(S) /\ Len(u) = Len(a) + Len(b) /\ Len(a) \in Nat /\ Len(b) \in Nat
      /\ \A i \in 1 .. Len(b) : u[Len(a) + i] = b[i]
  BY <1>1
<1>3. /\ v \in Seq(S) /\ Len(v) = Len(b)
      /\ \A i \in 1 .. Len(b) : v[i] = u[Len(a) + i]
  BY <1>1, <1>2
<1>4. v = b
  BY <1>2, <1>3
<1> QED
  BY <1>1, <1>4

\* The accepted slots are sent: every chain names the slot that was in the list.
LEMMA SlotsSent ==
  ASSUME IInv, FileInv, NEW l \in Listener, SendAccepted(l)
  PROVE  FileInv'
<1> USE RingFacts
<1>1. /\ kernel' = kernel \cup {Chain(i, l) : i \in 1 .. Len(awaiting[Main])}
      /\ awaiting' = [awaiting EXCEPT ![Main] = <<>>]
      /\ UNCHANGED <<table, peers, cq, tasks>>
      /\ awaiting \in [Ring -> Seq(Entry)]
  BY DEF SendAccepted, AfterSending, acceptVars, IInv, TypeOK
<1>2. /\ awaiting'[Main] = <<>>
      /\ \A r \in Ring \ {Main} : awaiting'[r] = awaiting[r]
  BY <1>1
<1>3. \A c, s : ~InList(c, Main, s)'
  BY <1>2 DEF InList
<1>4. \A c, s : \A r \in Ring \ {Main} : InList(c, r, s)' <=> InList(c, r, s)
  BY <1>2 DEF InList
<1>5. \A c, r, s : InQueue(c, r, s)' <=> InQueue(c, r, s)
  BY <1>1 DEF InQueue
<1>6. /\ \A c : \A w \in Worker : \A s \in Slot(w) :
           Numbered(c, w, s)' <=> Numbered(c, w, s)
      /\ \A c : \A s \in Slot(Main) : Numbered(c, Main, s)' => Numbered(c, Main, s)
  BY <1>3, <1>4, <1>5, NumberedIs, NumberedNext
<1>7. RequestsFollow
  <2>1. ASSUME NEW i \in 1 .. Len(awaiting[Main]), NEW q, q = Chain(i, l)
        PROVE  /\ q.op # "close" /\ q.fd \in Slot(Main)
               /\ Numbered(q.of, Main, q.fd)
    <3>1. q.op = "send_fd" /\ q.fd = awaiting[Main][i].fd /\ q.of = awaiting[Main][i].of
      BY <2>1 DEF Chain
    <3>2. awaiting[Main][i] \in Entry /\ awaiting[Main][i].fd \in Slot(Main)
      BY <1>1 DEF IInv, TypeOK
    <3>3. awaiting[Main][i] = [fd |-> q.fd, of |-> q.of]
      BY <3>1, <3>2 DEF Entry
    <3>4. InList(q.of, Main, q.fd)
      BY <3>3 DEF InList
    <3> QED
      BY <3>1, <3>2, <3>4, NumberedIs
  <2>2. ASSUME NEW q \in kernel', q \notin kernel
        PROVE  /\ q.op # "close" /\ q.fd \in Slot(Main)
               /\ Numbered(q.of, Main, q.fd)
    <3>1. PICK i \in 1 .. Len(awaiting[Main]) : q = Chain(i, l)
      BY <1>1, <2>2
    <3> QED
      BY <2>1, <3>1
  <2> QED
    BY <2>2 DEF RequestsFollow
<1> QED
  BY <1>1, <1>6, <1>7, SameTasks, FileInvStays

LEMMA SendAcceptedFollows ==
  ASSUME IInv, IInv', PathInv, FileInv, NEW l \in Listener, SendAccepted(l)
  PROVE  PathInv' /\ FileInv' /\ Follows
<1> USE RingFacts
<1>0. PICK n, q : n = Len(awaiting[Main]) /\ q = [i \in 1 .. n |-> Chain(i, l)]
  OBVIOUS
<1>1. /\ n \in Nat /\ awaiting[Main] \in Seq(Entry) /\ awaiting \in [Ring -> Seq(Entry)]
      /\ cq[Main] \in Seq(Message) /\ ended \in BOOLEAN
  BY <1>0 DEF IInv, TypeOK
<1>2. /\ kernel' = kernel \cup {q[i] : i \in 1 .. n}
      /\ current' = TurnAfter(n)
      /\ awaiting' = [awaiting EXCEPT ![Main] = <<>>]
      /\ UNCHANGED <<table, peers, cq, ended>> /\ ~ended
  BY <1>0 DEF SendAccepted, Resumed, AfterSending, acceptVars
<1>3. \A i \in 1 .. n : /\ q[i].op = "send_fd" /\ q[i].ring = (current + i) % NWorkers
                        /\ q[i].of = awaiting[Main][i].of
  BY <1>0 DEF Chain
<1>3a. FileInv'
  BY SlotsSent
<1> USE <1>1
<1>4. CASE n = 0
  <2>1. awaiting[Main] = <<>>
    BY <1>0, <1>4, EmptySeq
  <2>2. awaiting' = awaiting
    BY <1>2, <2>1
  <2>3. kernel' = kernel /\ current' = current
    BY <1>2, <1>4 DEF TurnAfter
  <2>4. ListsAsBefore /\ KeepsSends
    BY <1>2, <2>2, <2>3, ListsKept DEF KeepsSends
  <2> QED
    BY <1>2, <1>3a, <2>3, <2>4, Stays
<1>5. CASE n # 0
  <2>1. current' = (current + n) % NWorkers
    BY <1>2, <1>5 DEF TurnAfter
  <2>2. /\ awaiting'[Main] = <<>>
        /\ \A r \in Ring \ {Main} : awaiting'[r] = awaiting[r]
    BY <1>2
  \* The lists.
  <2>3. /\ \A c, s : Numbered(c, Main, s)' <=> InQueue(c, Main, s)
        /\ \A c, s : \A w \in Worker : Numbered(c, w, s)' <=> Numbered(c, w, s)
    <3>1. \A c, s : ~InList(c, Main, s)'
      BY <2>2 DEF InList
    <3>2. \A c, r, s : InQueue(c, r, s)' <=> InQueue(c, r, s)
      BY <1>2 DEF InQueue
    <3>3. \A c, s : \A w \in Worker : InList(c, w, s)' <=> InList(c, w, s)
      BY <2>2 DEF InList
    <3> QED
      BY <3>1, <3>2, <3>3, NumberedIs, NumberedNext
  <2>3a. \A c : \A w \in Worker : ListedAt(c, w)' <=> ListedAt(c, w)
    BY <2>3 DEF ListedAt
  <2>3b. FilesOf' = FilesOf
    <3>1. \A c \in Conn : FileOf(c)' = FileOf(c)
      BY <1>2, <2>3, FileKept
    <3> QED
      BY <3>1 DEF FilesOf
  <2>3c. TypeOK /\ MessageInv
    BY DEF IInv
  <2>4. \A c : ListedAt(c, Main)' <=> InBatch(c)
    BY <2>3, <2>3c, ListedMain DEF ListedAt
  <2>5. \A c : ListedAt(c, Main) <=> Unsent(c) \/ InBatch(c)
    BY <2>3c, ListedMain
  \* A connection that does not wait in the list.
  <2>6. ASSUME NEW c \in Conn, ~Unsent(c)
        PROVE  KeepsPlace(c)
    <3>1. \A i \in 1 .. n : q[i].of # c
      BY <1>0, <1>3, <2>6 DEF Unsent
    <3>2. \A w : SentTo(c, w)' <=> SentTo(c, w)
      BY <1>2, <3>1 DEF SentTo
    <3>3. ListedAt(c, Main)' <=> ListedAt(c, Main)
      BY <2>4, <2>5, <2>6
    <3> QED
      BY <1>2, <2>3a, <3>2, <3>3 DEF KeepsPlace
  \* One that does, at position i.
  <2>7. ASSUME NEW c \in Conn, NEW i \in 1 .. n, awaiting[Main][i].of = c
        PROVE  /\ c \notin peers' /\ ~ListedAt(c, Main)'
               /\ \A w \in Worker : ~ListedAt(c, w)'
               /\ \E w \in Worker : w = (current + i) % NWorkers /\ SentTo(c, w)'
    <3>1. Unsent(c)
      BY <1>0, <2>7 DEF Unsent
    <3>2. ListedAt(c, Main) /\ Unsent(c)
      BY <2>5, <3>1
    <3>3. c \notin peers /\ ~InBatch(c)
      BY <3>2 DEF IInv, OnceInv
    <3>4. \A w \in Worker : ~ListedAt(c, w)
      BY <3>2 DEF PathInv, PathOf
    <3>5. PICK x : x = q[i]
      OBVIOUS
    <3>6. /\ x \in kernel' /\ x.op = "send_fd" /\ x.of = c
          /\ x.ring = (current + i) % NWorkers
      BY <1>2, <1>3, <2>7, <3>5
    <3>7. x.ring \in Worker
      BY <3>6 DEF IInv, RequestInv
    <3>8. SentTo(c, x.ring)'
      BY <3>6 DEF SentTo
    <3> QED
      BY <1>2, <2>3a, <2>4, <3>3, <3>4, <3>6, <3>7, <3>8
  <2>8. PathInv'
    <3> SUFFICES ASSUME NEW c \in Conn PROVE PathOf(c)'
      BY DEF PathInv
    <3>1. CASE ~Unsent(c)
      BY <2>6, <3>1, PlaceKept DEF PathInv
    <3>2. CASE Unsent(c)
      <4>1. PICK i \in 1 .. n : awaiting[Main][i].of = c
        BY <1>0, <3>2 DEF Unsent
      <4>2. \A w \in Worker : ~ListedAt(c, w)'
        BY <2>7, <4>1
      <4> QED
        BY <4>2 DEF PathOf
    <3> QED
      BY <3>1, <3>2
  \* What waits.
  <2>9. PICK a, b : a = ConnsOf(awaiting[Main]) /\ b = InOrder(cq[Main])
    OBVIOUS
  <2>10. /\ a \in Seq(Conn \cup {NoConn}) /\ b \in Seq(Conn \cup {NoConn})
         /\ Len(a) = n /\ \A i \in 1 .. n : a[i] = awaiting[Main][i].of
         /\ WaitingConns = a \o b
    BY <1>0, <2>9, ConnsOfFacts, InOrderFacts, WaitingIs
  <2>11. WaitingConns' = b
    <3>1. WaitingConns' = ConnsOf(awaiting'[Main]) \o InOrder(cq'[Main])
      BY DEF WaitingConns, ConnsOf, InOrder, Accepts, IsAccepted
    <3>2. ConnsOf(<<>>) = <<>>
      BY DEF ConnsOf
    <3>3. <<>> \o b = b
      BY <2>10
    <3> QED
      BY <1>2, <2>2, <2>9, <3>1, <3>2, <3>3
  <2>12. /\ WaitingConns' = SubSeq(WaitingConns, n + 1, Len(WaitingConns))
         /\ n \in 1 .. Len(WaitingConns)
         /\ \A i \in 1 .. n : WaitingConns[i] = awaiting[Main][i].of
    <3>1. WaitingConns' = SubSeq(WaitingConns, n + 1, Len(WaitingConns))
      BY <2>10, <2>11, RestOfCat
    <3>2. n \in 1 .. Len(WaitingConns)
      BY <1>5, <2>10
    <3>3. \A i \in 1 .. n : WaitingConns[i] = a[i]
      BY <2>10
    <3> QED
      BY <2>10, <3>1, <3>2, <3>3
  \* Where they go.
  <2> DEFINE Position(c) == {i \in 1 .. n : WaitingConns[i] = c}
             sentTo(c) == At("sent", (current + CHOOSE i \in Position(c) : TRUE) % NWorkers)
  <2>13. ASSUME NEW c \in Conn
         PROVE  Whereabouts(c)' = IF Position(c) = {} THEN PlaceOf[c] ELSE sentTo(c)
    <3>1. Position(c) = {i \in 1 .. n : awaiting[Main][i].of = c}
      BY <2>12
    <3>2. CASE Position(c) = {}
      <4>1. ~Unsent(c)
        BY <1>0, <3>1, <3>2 DEF Unsent
      <4>2. Whereabouts(c)' = Whereabouts(c)
        BY <2>6, <4>1, PlaceKept
      <4> QED
        BY <3>2, <4>2 DEF PlaceOf
    <3>3. CASE Position(c) # {}
      <4>1. PICK i : i = CHOOSE j \in Position(c) : TRUE
        OBVIOUS
      <4>2. i \in 1 .. n /\ awaiting[Main][i].of = c
        BY <3>1, <3>3, <4>1
      <4>3. PICK w \in Worker : w = (current + i) % NWorkers /\ SentTo(c, w)'
        BY <2>7, <4>2
      <4>4. Whereabouts(c)' = At("sent", w)
        BY <2>8, <4>3, WhereaboutsNext
      <4> QED
        BY <3>3, <4>1, <4>3, <4>4
    <3> QED
      BY <3>2, <3>3
  <2>14. PlaceOf' = [c \in Conn |-> IF Position(c) = {} THEN PlaceOf[c] ELSE sentTo(c)]
    <3>1. PlaceOf' = [c \in Conn |-> Whereabouts(c)']
      BY DEF PlaceOf
    <3> HIDE DEF Position, sentTo
    <3> QED
      BY <2>13, <3>1
  <2>15. SendsOut(n)
    BY <2>1, <2>3b, <2>12, <2>14 DEF SendsOut
  <2> QED
    BY <1>2, <1>3a, <2>8, <2>12, <2>15 DEF Follows
<1> QED
  BY <1>4, <1>5

-----------------------------------------------------------------------------
(* The theorem.                                                             *)

LEMMA NextFollows ==
  IInv /\ IInv' /\ PathInv /\ FileInv /\ [Next]_vars =>
    PathInv' /\ FileInv' /\ Follows
<1> SUFFICES ASSUME IInv, IInv', PathInv, FileInv, [Next]_vars
             PROVE  PathInv' /\ FileInv' /\ Follows
  OBVIOUS
<1>1. CASE MainStep
  BY <1>1, HandleAcceptFollows, HandleStaleFollows, ArmFollows, SendAcceptedFollows,
     SendAcceptedNoSqeFollows DEF MainStep
<1>2. ASSUME NEW w \in Worker, WorkerStep(w) PROVE PathInv' /\ FileInv' /\ Follows
  BY <1>2, HandleFdFollows, HandleTaskFollows DEF WorkerStep
<1>3. ASSUME NEW w \in Worker, NEW i \in 1 .. Len(tasks[w]), DestroyConnection(w, i)
      PROVE  PathInv' /\ FileInv' /\ Follows
  BY <1>3, DestroyConnectionFollows
<1>4. CASE ~ended /\ KernelStep
  BY <1>4, SendFdFollows, SendFdFailsFollows, SendTaskFollows, CloseFdFollows
  DEF KernelStep
<1>5. ASSUME NEW c \in peers, ~ended,
             AcceptFails(c) \/ \E s \in Slot(Main) : AcceptConn(c, s)
      PROVE  PathInv' /\ FileInv' /\ Follows
  <2>1. c \in Conn
    BY DEF IInv, TypeOK
  <2> QED
    BY <1>5, <2>1, AcceptFailsFollows, AcceptConnFollows
<1>6. CASE UNCHANGED vars
  <2>1. /\ UNCHANGED <<table, peers, kernel, cq, awaiting, tasks, current, ended>>
        /\ ended \in BOOLEAN
    BY <1>6 DEF vars, acceptVars, threadVars, IInv, TypeOK
  <2>2. ListsAsBefore /\ KeepsSends
    BY <2>1, ListsKept DEF KeepsSends
  <2>3. TasksFollow /\ RequestsFollow
    BY <2>1, SameTasks, SameRequests
  <2> QED
    BY <2>1, <2>2, <2>3, Stays, FileInvKept
<1> QED
  BY <1>1, <1>2, <1>3, <1>4, <1>5, <1>6 DEF Next

LEMMA InitFollows == Init => PathInv /\ FileInv /\ Promise!Init
<1> SUFFICES ASSUME Init PROVE PathInv /\ FileInv /\ Promise!Init
  OBVIOUS
<1> USE RingFacts
<1>1. /\ \A r \in Ring : cq[r] = <<>> /\ awaiting[r] = <<>>
      /\ peers = Conn /\ current = -1 /\ ended = FALSE
  BY DEF Init
<1>1a. \A c, s : \A r \in Ring : ~Numbered(c, r, s)
  BY <1>1 DEF Numbered
<1>2. \A c : \A r \in Ring : ~ListedAt(c, r)
  BY <1>1a DEF ListedAt
<1>3. PathInv
  BY <1>2 DEF PathInv, PathOf
<1>3a. FileInv
  <2>1. kernel = {} /\ \A w \in Worker : tasks[w] = <<>>
    BY DEF Init
  <2>2. \A s \in Slot(Main) : table[Main][s] = NoConn
    BY DEF Init
  <2>3. OwnFile
    BY <1>1a, <2>1 DEF OwnFile
  <2> QED
    BY <1>1, <1>1a, <2>1, <2>2, <2>3, ConnAssumption DEF FileInv, TasksListed
<1>4. WaitingConns = <<>>
  <2>1. InOrder(<<>>) = <<>>
    <3>1. <<>> \in Seq(Message) /\ Accepts(<<>>) = {}
      BY DEF Accepts
    <3>2. Cardinality(Accepts(<<>>)) = 0
      BY <3>1, FS_EmptySet
    <3>3. InOrder(<<>>) \in Seq(Conn \cup {NoConn}) /\ Len(InOrder(<<>>)) = 0
      BY <3>1, <3>2, InOrderFacts
    <3> QED
      BY <3>3, EmptySeq
  <2>2. ConnsOf(<<>>) = <<>>
    BY DEF ConnsOf
  <2> QED
    BY <1>1, <2>1, <2>2, WaitingIs
<1>5. [c \in Conn |-> Whereabouts(c)] = [c \in Conn |-> At("peer", NWorkers)]
  <2>1. \A c \in Conn : Whereabouts(c) = At("peer", NWorkers)
    BY <1>1, <1>3, InitIInv, WhereaboutsIs
  <2> QED
    BY <2>1
<1>6. [c \in Conn |-> FileOf(c)] = [c \in Conn |-> NoConn]
  <2>1. \A c : Copies(c) = {}
    BY <1>1a DEF Copies
  <2> QED
    BY <2>1 DEF FileOf
<1> QED
  BY <1>1, <1>3, <1>3a, <1>4, <1>5, <1>6 DEF Promise!Init, Promise!At, At

\* The connections of all listeners go to the workers in turn, in the order in
\* which they were accepted; each arrives at its worker, once, with its own file
\* while no task has ended, or is lost, alone (context.hpp:216-248,
\* uring.hpp:209-221, connection.hpp:170): every step of MultishotAccept is one
\* of Dispatch, or changes nothing that Dispatch is about.
THEOREM ConnectionsAreSentInTurn == SafeSpec => SendsInTurn
<1>1. IInv /\ IInv' /\ PathInv /\ FileInv /\ [Next]_vars =>
        [Promise!Next]_(Promise!vars)
  <2> SUFFICES ASSUME IInv, IInv', PathInv, FileInv, [Next]_vars
               PROVE  [Promise!Next]_(Promise!vars)
    OBVIOUS
  <2>1. Follows
    BY NextFollows
  <2>2. /\ PlaceOf = [c \in Conn |-> Whereabouts(c)]
        /\ FilesOf = [c \in Conn |-> FileOf(c)]
    BY DEF PlaceOf, FilesOf
  <2>3. ASSUME NEW c \in Conn, AcceptsOne(c) PROVE Promise!Accept(c)
    BY <2>2, <2>3 DEF AcceptsOne, PlaceOf, FilesOf, Promise!Accept, Promise!At, At
  <2>4. ASSUME NEW c \in Conn, Arrives(c) PROVE Promise!Arrive(c)
    BY <2>2, <2>4 DEF Arrives, Gets, PlaceOf, FilesOf, Promise!Arrive,
                       Promise!MayGet
  <2>5. ASSUME NEW c \in Conn, Loses(c) PROVE Promise!Lose(c)
    BY <2>2, <2>5 DEF Loses, PlaceOf, FilesOf, Promise!Lose, Promise!At, At
  <2>6. ASSUME NEW n \in 1 .. Len(WaitingConns), SendsOut(n) PROVE Promise!Send(n)
    BY <2>2, <2>6 DEF SendsOut, PlaceOf, FilesOf, Promise!Send, Promise!At, At
  <2> QED
    BY <2>1, <2>3, <2>4, <2>5, <2>6
    DEF Follows, Claims, PlaceOf, FilesOf, Promise!Next, Promise!Work, Promise!End,
        Promise!vars
<1>2. IInv /\ IInv' /\ PathInv /\ FileInv /\ [Next]_vars => PathInv' /\ FileInv'
  BY NextFollows
<1>3. Init => PathInv /\ FileInv /\ Promise!Init
  BY InitFollows
<1> QED
  BY <1>1, <1>2, <1>3, Inductive, PTL DEF SafeSpec, SendsInTurn, Promise!Spec
=============================================================================
