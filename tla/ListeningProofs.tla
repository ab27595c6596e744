--------------------------- MODULE ListeningProofs ---------------------------
(***************************************************************************)
(* Proofs about Listening, for any number of servers, sockets and          *)
(* descriptors: every component keeps its type, a descriptor other than 0  *)
(* has one owner, no open socket is without one, and a listener listens    *)
(* where it was asked to.                                                  *)
(*                                                                         *)
(* HeldByOne speaks of sets of holders; the induction is over Holds, one   *)
(* holder at a time.  What a socket is bound to is followed with it, from  *)
(* the bind in listen_on to the listener it ends in (AddressInv).          *)
(***************************************************************************)
EXTENDS Listening, TLAPS

-----------------------------------------------------------------------------
(* The inductive invariant.                                                 *)

\* Object (or completion) p of server k holds descriptor f.
Holds(k, p, f) ==
  \/ p = "result" /\ result[k] = f
  \/ p = "socket" /\ socket[k] = f
  \/ p = "listener" /\ listener[k] = f

OneHolder ==
  \A f \in Fd \ {0}, k \in Server, p \in Places :
    Holds(k, p, f) =>
      /\ file[f] \in Sock
      /\ \A j \in Server, q \in Places : Holds(j, q, f) => j = k /\ q = p

SomeHolder ==
  \A f \in Fd \ {0} :
    file[f] \in Sock =>
      file[f] \in leaked \/ \E k \in Server, p \in Places : Holds(k, p, f)

\* Where a coroutine is says which of its places are empty: no Socket before
\* the request has completed, no result after it was read.
PlaceInv ==
  \A k \in Server :
    /\ at[k] \notin {"bind", "listen", "return"} => socket[k] = -1
    /\ at[k] # "socket" => result[k] = NoResult

IInv == TypeOK /\ OneHolder /\ SomeHolder /\ PlaceInv

\* A socket is open on one descriptor, and on none before it is created.
OneFd ==
  /\ \A f, g \in Fd : file[f] \in Sock /\ file[f] = file[g] => f = g
  /\ \A f \in Fd : file[f] \notin unused

\* Address b is one that was bound, and as the caller said.
Meets(b, goal) ==
  /\ b # NoAddr /\ b # Ephemeral
  /\ b.port = goal.port
  /\ goal.text \in Text => b.addr = goal.text

\* Before bind, after bind, and after listen.
Fresh(s) == s \notin refused /\ s \notin listening /\ bound[s] = NoAddr
Tried(s, goal) ==
  /\ s \notin listening
  /\ IF s \in refused THEN bound[s] = NoAddr ELSE Meets(bound[s], goal)
Reached(s, goal) ==
  IF s \notin refused THEN Meets(bound[s], goal)
  ELSE bound[s] = IF s \in listening THEN Ephemeral ELSE NoAddr

AskedInv ==
  \A k \in Server : at[k] \in {"socket", "bind", "listen", "return"} =>
    Meets(SockName(asked[k]), asked[k].from)

\* How far the socket that server k holds at place p has come.
Stage(k, p, s) ==
  /\ p = "result" => Fresh(s)
  /\ p = "socket" /\ at[k] = "bind" => Fresh(s)
  /\ p = "socket" /\ at[k] = "listen" => Tried(s, asked[k].from)
  /\ p = "socket" /\ at[k] = "return" => Reached(s, asked[k].from)
  /\ p = "listener" => Reached(s, promised[k])

BoundInv ==
  /\ \A s \in unused : Fresh(s)
  /\ \A f \in Fd \ {0}, k \in Server, p \in Places :
       Holds(k, p, f) => Stage(k, p, file[f])

AddressInv == OneFd /\ AskedInv /\ BoundInv

-----------------------------------------------------------------------------
(* Holders.                                                                 *)

\* Holds is membership in Holders.
LEMMA HoldersAreHolds ==
  ASSUME NEW f, NEW k \in Server, NEW p \in Places
  PROVE  <<k, p>> \in Holders(f) <=> Holds(k, p, f)
  BY DEF Holders, Place, Places, Holds

LEMMA OneHolderSuffices == OneHolder => HeldByOne
<1> SUFFICES ASSUME OneHolder, NEW f \in Fd \ {0}, Holders(f) # {}
             PROVE  /\ file[f] \in Sock
                    /\ \E h \in Holders(f) : Holders(f) = {h}
  BY DEF HeldByOne
<1>1. PICK k \in Server, p \in Places : <<k, p>> \in Holders(f)
  BY DEF Holders
<1>2. Holds(k, p, f)
  BY <1>1, HoldersAreHolds
<1>3. file[f] \in Sock
  BY <1>2 DEF OneHolder
<1>4. ASSUME NEW h \in Holders(f) PROVE h = <<k, p>>
  <2>1. PICK j \in Server, q \in Places : h = <<j, q>>
    BY DEF Holders
  <2>2. Holds(j, q, f)
    BY <2>1, HoldersAreHolds
  <2> QED
    BY <1>2, <2>1, <2>2 DEF OneHolder
<1>5. Holders(f) = {<<k, p>>}
  BY <1>1, <1>4
<1> QED
  BY <1>1, <1>3, <1>5

LEMMA SomeHolderSuffices == SomeHolder => NoSocketLost
<1> SUFFICES ASSUME SomeHolder, NEW f \in Fd \ {0}, file[f] \in Sock
             PROVE  file[f] \in leaked \/ Holders(f) # {}
  BY DEF NoSocketLost
<1>1. CASE file[f] \in leaked
  BY <1>1
<1>2. CASE \E k \in Server, p \in Places : Holds(k, p, f)
  <2>1. PICK k \in Server, p \in Places : Holds(k, p, f)
    BY <1>2
  <2> QED
    BY <2>1, HoldersAreHolds
<1> QED
  BY <1>1, <1>2 DEF SomeHolder

\* The numbers a uint16_t holds, as bounds.
LEMMA Uint16Bounds ==
  \A n : n \in Uint16 <=> n \in Int /\ 0 <= n /\ n <= 65535
<1> DEFINE top == 65535
<1>1. Uint16 = 0 .. top
  BY DEF Uint16
<1>2. top \in Int
  BY SMT
<1>3. top = 65535
  OBVIOUS
<1> HIDE DEF top
<1>4. \A n : n \in Uint16 <=> n \in Int /\ 0 <= n /\ n <= top
  BY <1>1, <1>2
<1> QED
  BY <1>3, <1>4

\* A 16-bit number as two bytes, and two bytes as a 16-bit number.
LEMMA LowByte ==
  \A p \in Int : 0 <= p /\ p <= 65535 =>
    p % 256 \in Int /\ 0 <= p % 256 /\ p % 256 <= 255
  BY SMT

LEMMA HighByte ==
  \A p \in Int : 0 <= p /\ p <= 65535 =>
    p \div 256 \in Int /\ 0 <= p \div 256 /\ p \div 256 <= 255
  BY SMT

LEMMA TwoBytes ==
  \A lo, hi \in Int : 0 <= lo /\ lo <= 255 /\ 0 <= hi /\ hi <= 255 =>
    lo * 256 + hi \in Int /\ 0 <= lo * 256 + hi /\ lo * 256 + hi <= 65535
  BY SMT

\* htons and ntohs keep a port a port.
LEMMA SwapType ==
  ASSUME NEW p \in Uint16
  PROVE  Swap(p) \in Uint16
<1>1. p \in Int /\ 0 <= p /\ p <= 65535
  BY Uint16Bounds, SMT
<1>2. p % 256 \in Int /\ 0 <= p % 256 /\ p % 256 <= 255
  BY <1>1, LowByte, SMT
<1>3. p \div 256 \in Int /\ 0 <= p \div 256 /\ p \div 256 <= 255
  BY <1>1, HighByte, SMT
<1>4. (p % 256) * 256 + p \div 256 \in Uint16
  BY <1>2, <1>3, TwoBytes, Uint16Bounds, SMT
<1> QED
  BY <1>4 DEF Swap

-----------------------------------------------------------------------------
(* Types.                                                                   *)

SockAddr == [addr : Text \cup {BadText}, nport : Uint16, from : Goal]

LEMMA ConstantFacts ==
  /\ MaxFd \in Nat /\ MaxCalls \in Nat /\ NoServer \notin Server
  /\ Free \notin Sock /\ Other \notin Sock
  BY ListeningAssumption

LEMMA SmallPorts == 0 \in Uint16 /\ 1 \in Uint16
  BY Uint16Bounds, SMT

LEMMA PortType ==
  ASSUME NEW port \in Port
  PROVE  port \in Uint16
  BY ListeningAssumption

LEMMA MakeAddrType ==
  ASSUME NEW text \in Text \cup {BadText}, NEW port \in Port,
         NEW a \in MakeAddr(text, port)
  PROVE  a \in SockAddr
<1>1. PICK ip \in Parse(text) :
        a = [addr |-> ip, nport |-> Swap(port), from |-> [text |-> text, port |-> port]]
  BY Zenon DEF MakeAddr
<1>2. ip \in Text \cup {BadText}
  BY Zenon DEF Parse
<1>3. port \in Uint16 /\ Swap(port) \in Uint16
  BY PortType, SwapType, Zenon
<1>4. [text |-> text, port |-> port] \in Goal
  BY <1>3, Zenon DEF Goal
<1> QED
  BY <1>1, <1>2, <1>3, <1>4, Zenon DEF SockAddr

LEMMA NoSocketAddrType == NoSocketAddr \in SockAddr /\ NoSocketAddr.from \in Goal
<1>1. [text |-> BadText, port |-> 0] \in Goal
  BY SmallPorts, Zenon DEF Goal
<1> QED
  BY <1>1, SmallPorts, Zenon DEF NoSocketAddr, SockAddr

LEMMA AddressType ==
  /\ NoAddr \in Address /\ Ephemeral \in Address
  /\ \A a \in SockAddr : SockName(a) \in Address
<1>1. NoAddr \in Address /\ Ephemeral \in Address
  BY SmallPorts, Zenon DEF NoAddr, Ephemeral, Address
<1>2. ASSUME NEW a \in SockAddr PROVE SockName(a) \in Address
  <2>1. a.addr \in Text \cup {BadText} /\ a.nport \in Uint16
    BY Zenon DEF SockAddr
  <2>2. Swap(a.nport) \in Uint16
    BY <2>1, SwapType, Zenon
  <2> QED
    BY <2>1, <2>2, Zenon DEF SockName, Address
<1> QED
  BY <1>1, <1>2

LEMMA SocketsAtType == ASSUME NEW f PROVE SocketsAt(f) \subseteq Sock
  BY DEF SocketsAt

LEMMA CloseType ==
  ASSUME file \in [Fd -> Sock \cup {Free, Other}], NEW f
  PROVE  Close(f) \in [Fd -> Sock \cup {Free, Other}]
  BY DEF Close

-----------------------------------------------------------------------------
(* The invariant holds at the start and is preserved by every action.       *)

LEMMA InitIInv == Init => IInv
<1> SUFFICES ASSUME Init PROVE IInv
  OBVIOUS
<1>1. TypeOK
  <2>1. file \in [Fd -> Sock \cup {Free, Other}]
    BY DEF Init
  <2>2. bound \in [Sock -> Address]
    BY AddressType DEF Init
  <2>3. asked \in [Server -> SockAddr] /\ promised \in [Server -> Goal]
    BY NoSocketAddrType DEF Init
  <2>4. calls \in 0 .. MaxCalls
    BY ConstantFacts, SMT DEF Init
  <2>5. /\ result \in [Server -> Fd \cup {NoResult, Enfile, OtherError}]
        /\ socket \in [Server -> Fd \cup {-1}]
        /\ listener \in [Server -> Fd \cup {-1}]
    BY DEF Init
  <2>6. at \in [Server -> {"idle", "socket", "bind", "listen", "return", "serving"}]
    BY DEF Init
  <2> QED
    BY <2>1, <2>2, <2>3, <2>4, <2>5, <2>6 DEF Init, TypeOK, SockAddr
<1>2. \A f \in Fd, k \in Server, p \in Places : ~Holds(k, p, f)
  BY ConstantFacts, SMT DEF Init, Holds, Places, Fd, NoResult
<1>3. \A f \in Fd \ {0} : file[f] \notin Sock
  BY ConstantFacts DEF Init
<1>4. OneHolder
  BY <1>2, Zenon DEF OneHolder
<1>5. SomeHolder
  BY <1>3 DEF SomeHolder
<1>6. PlaceInv
  BY DEF Init, PlaceInv
<1> QED
  BY <1>1, <1>4, <1>5, <1>6 DEF IInv

\* A step that moves no descriptor.
LEMMA NothingMoves ==
  ASSUME OneHolder, SomeHolder,
         UNCHANGED <<file, result, socket, listener, leaked>>
  PROVE  OneHolder' /\ SomeHolder'
  BY DEF OneHolder, SomeHolder, Holds

LEMMA ListenOnStep ==
  ASSUME IInv, NEW k \in Server, NEW text \in Text \cup {BadText},
         NEW port \in Port, ListenOn(k, text, port)
  PROVE  IInv'
<1>1. TypeOK'
  <2>1. asked' \in [Server -> SockAddr]
    <3>1. PICK a \in MakeAddr(text, port) : asked' = [asked EXCEPT ![k] = a]
      BY Zenon DEF ListenOn
    <3>2. a \in SockAddr
      BY MakeAddrType, Zenon
    <3>3. asked \in [Server -> SockAddr]
      BY Zenon DEF IInv, TypeOK, SockAddr
    <3> QED
      BY <3>1, <3>2, <3>3, Zenon
  <2>2. calls' \in 0 .. MaxCalls
    BY ConstantFacts, SMT DEF IInv, TypeOK, ListenOn
  <2>3. at' \in [Server -> {"idle", "socket", "bind", "listen", "return", "serving"}]
    BY Zenon DEF IInv, TypeOK, ListenOn, Goto
  <2> QED
    BY <2>1, <2>2, <2>3, Zenon DEF IInv, TypeOK, ListenOn, procVars, SockAddr
<1>2. OneHolder' /\ SomeHolder'
  <2>1. UNCHANGED <<file, result, socket, listener, leaked>>
    BY DEF ListenOn, procVars
  <2> QED
    BY <2>1, NothingMoves DEF IInv
<1>3. PlaceInv'
  BY SMT DEF IInv, TypeOK, PlaceInv, ListenOn, Goto
<1> QED
  BY <1>1, <1>2, <1>3 DEF IInv

LEMMA BindStep ==
  ASSUME IInv, NEW k \in Server, Bind(k)
  PROVE  IInv'
<1>1. TypeOK'
  <2>1. bound' \in [Sock -> Address]
    <3>1. SockName(asked[k]) \in Address
      BY AddressType DEF IInv, TypeOK, SockAddr
    <3> QED
      BY <3>1 DEF IInv, TypeOK, Bind
  <2>2. refused' \subseteq Sock
    BY SocketsAtType DEF IInv, TypeOK, Bind
  <2>3. at' \in [Server -> {"idle", "socket", "bind", "listen", "return", "serving"}]
    BY DEF IInv, TypeOK, Bind, Goto
  <2> QED
    BY <2>1, <2>2, <2>3 DEF IInv, TypeOK, Bind
<1>2. OneHolder' /\ SomeHolder'
  <2>1. UNCHANGED <<file, result, socket, listener, leaked>>
    BY DEF Bind
  <2> QED
    BY <2>1, NothingMoves DEF IInv
<1>3. PlaceInv'
  BY SMT DEF IInv, TypeOK, PlaceInv, Bind, Goto
<1> QED
  BY <1>1, <1>2, <1>3 DEF IInv

LEMMA ListenStep ==
  ASSUME IInv, NEW k \in Server, Listen(k)
  PROVE  IInv'
<1>1. TypeOK'
  <2>1. bound' \in [Sock -> Address]
    BY AddressType DEF IInv, TypeOK, Listen
  <2>2. listening' \subseteq Sock
    BY SocketsAtType DEF IInv, TypeOK, Listen
  <2>3. at' \in [Server -> {"idle", "socket", "bind", "listen", "return", "serving"}]
    BY DEF IInv, TypeOK, Listen, Goto
  <2> QED
    BY <2>1, <2>2, <2>3 DEF IInv, TypeOK, Listen
<1>2. OneHolder' /\ SomeHolder'
  <2>1. UNCHANGED <<file, result, socket, listener, leaked>>
    BY DEF Listen
  <2> QED
    BY <2>1, NothingMoves DEF IInv
<1>3. PlaceInv'
  BY SMT DEF IInv, TypeOK, PlaceInv, Listen, Goto
<1> QED
  BY <1>1, <1>2, <1>3 DEF IInv

LEMMA AcceptStep ==
  ASSUME IInv, NEW k \in Server, Accept(k)
  PROVE  IInv'
<1>1. TypeOK'
  BY DEF IInv, TypeOK, Accept, procVars
<1>2. OneHolder' /\ SomeHolder'
  <2>1. UNCHANGED <<file, result, socket, listener, leaked>>
    BY DEF Accept, procVars
  <2> QED
    BY <2>1, NothingMoves DEF IInv
<1>3. PlaceInv'
  BY DEF IInv, PlaceInv, Accept
<1> QED
  BY <1>1, <1>2, <1>3 DEF IInv

LEMMA SocketFailsStep ==
  ASSUME IInv, NEW k \in Server, SocketFails(k)
  PROVE  IInv'
<1>1. PICK e \in {Enfile, OtherError} : result' = [result EXCEPT ![k] = e]
  BY DEF SocketFails
<1>2. TypeOK'
  <2>1. result' \in [Server -> Fd \cup {NoResult, Enfile, OtherError}]
    BY <1>1 DEF IInv, TypeOK
  <2> QED
    BY <2>1 DEF IInv, TypeOK, SocketFails, procVars
<1>3. \A f \in Fd, j \in Server, p \in Places : Holds(j, p, f)' <=> Holds(j, p, f)
  <2>1. e \notin Fd /\ result[k] \notin Fd
    BY ConstantFacts, SMT DEF Enfile, OtherError, NoResult, Fd, SocketFails
  <2> QED
    BY <1>1, <2>1 DEF Holds, IInv, TypeOK, SocketFails
<1>4. OneHolder' /\ SomeHolder'
  BY <1>3 DEF IInv, OneHolder, SomeHolder, SocketFails, procVars
<1>5. PlaceInv'
  BY <1>1 DEF IInv, TypeOK, PlaceInv, SocketFails
<1> QED
  BY <1>2, <1>4, <1>5 DEF IInv

LEMMA CloseZeroStep ==
  ASSUME IInv, CloseZero
  PROVE  IInv'
<1>1. TypeOK'
  <2>1. file' \in [Fd -> Sock \cup {Free, Other}]
    BY CloseType DEF IInv, TypeOK, CloseZero
  <2> QED
    BY <2>1 DEF IInv, TypeOK, CloseZero
<1>2. \A f \in Fd \ {0} : file'[f] = file[f]
  BY DEF CloseZero, Close, IInv, TypeOK
<1>3. \A f, j, p : Holds(j, p, f)' <=> Holds(j, p, f)
  BY DEF Holds, CloseZero
<1>4. OneHolder'
  BY <1>2, <1>3 DEF IInv, OneHolder
<1>5. SomeHolder'
  BY <1>2, <1>3 DEF IInv, SomeHolder, CloseZero
<1>6. PlaceInv'
  BY DEF IInv, PlaceInv, CloseZero
<1> QED
  BY <1>1, <1>4, <1>5, <1>6 DEF IInv

\* A socket takes a free descriptor, which nobody holds.
LEMMA SocketCreatedStep ==
  ASSUME IInv, NEW k \in Server, NEW s \in Sock, SocketCreated(k, s)
  PROVE  IInv'
<1>1. PICK f \in FreeFds :
        /\ file' = [file EXCEPT ![f] = s]
        /\ result' = [result EXCEPT ![k] = f]
  BY DEF SocketCreated
<1>2. f \in Fd /\ file[f] = Free
  BY DEF FreeFds
<1>3. TypeOK'
  <2>1. file' \in [Fd -> Sock \cup {Free, Other}]
    BY <1>1, <1>2 DEF IInv, TypeOK
  <2>2. result' \in [Server -> Fd \cup {NoResult, Enfile, OtherError}]
    BY <1>1, <1>2 DEF IInv, TypeOK
  <2>3. unused' \subseteq Sock
    BY DEF IInv, TypeOK, SocketCreated
  <2> QED
    BY <2>1, <2>2, <2>3 DEF IInv, TypeOK, SocketCreated
<1>4. \A g \in Fd, j \in Server, p \in Places :
        Holds(j, p, g)' <=> Holds(j, p, g) \/ (j = k /\ p = "result" /\ g = f)
  <2>1. result[k] \notin Fd
    BY ConstantFacts, SMT DEF NoResult, Fd, SocketCreated
  <2> QED
    BY <1>1, <2>1 DEF Holds, Places, IInv, TypeOK, SocketCreated
<1>5. ASSUME f # 0, NEW j \in Server, NEW p \in Places PROVE ~Holds(j, p, f)
  BY <1>2, <1>5, ConstantFacts DEF IInv, OneHolder
<1>6. \A g \in Fd : file'[g] = IF g = f THEN s ELSE file[g]
  BY <1>1, <1>2 DEF IInv, TypeOK
<1>7. OneHolder'
  <2> SUFFICES ASSUME NEW g \in Fd \ {0}, NEW j \in Server, NEW p \in Places,
                      Holds(j, p, g)'
               PROVE  /\ file'[g] \in Sock
                      /\ \A i \in Server, q \in Places :
                           Holds(i, q, g)' => i = j /\ q = p
    BY DEF OneHolder
  <2>1. CASE g = f
    BY <1>4, <1>5, <1>6, <2>1
  <2>2. CASE g # f
    BY <1>4, <1>6, <2>2 DEF IInv, OneHolder
  <2> QED
    BY <2>1, <2>2
<1>8. SomeHolder'
  <2> SUFFICES ASSUME NEW g \in Fd \ {0}, file'[g] \in Sock
               PROVE  \/ file'[g] \in leaked
                      \/ \E j \in Server, p \in Places : Holds(j, p, g)'
    BY DEF SomeHolder, SocketCreated
  <2>1. CASE g = f
    BY <1>4, <2>1 DEF Places
  <2>2. CASE g # f
    BY <1>4, <1>6, <2>2 DEF IInv, SomeHolder
  <2> QED
    BY <2>1, <2>2
<1>9. PlaceInv'
  BY DEF IInv, PlaceInv, SocketCreated, TypeOK
<1> QED
  BY <1>3, <1>7, <1>8, <1>9 DEF IInv

\* The descriptor goes from the completion to the object, or there was none.
LEMMA MakeSocketStep ==
  ASSUME IInv, NEW k \in Server, MakeSocket(k)
  PROVE  IInv'
<1> DEFINE made == result[k] # Enfile /\ SetReuse(result[k])
<1>1. /\ socket[k] = -1 /\ result[k] \in Fd \cup {Enfile, OtherError}
      /\ socket' = IF made THEN [socket EXCEPT ![k] = result[k]] ELSE socket
      /\ result' = [result EXCEPT ![k] = -1]
      /\ UNCHANGED <<file, listener, leaked>>
  BY DEF MakeSocket, IInv, PlaceInv, TypeOK, procVars, NoResult
<1>2. made => result[k] \in Fd
  BY DEF SetReuse, SocketsAt
<1>3. ~made => \A f \in Fd : result[k] = f => file[f] \notin Sock
  BY ConstantFacts, SMT DEF SetReuse, SocketsAt, Enfile, Fd
<1>4. TypeOK'
  <2>1. asked' \in [Server -> SockAddr]
    BY NoSocketAddrType DEF IInv, TypeOK, MakeSocket, SockAddr
  <2>2. at' \in [Server -> {"idle", "socket", "bind", "listen", "return", "serving"}]
    BY DEF IInv, TypeOK, MakeSocket, Goto, Before
  <2>3. /\ socket' \in [Server -> Fd \cup {-1}]
        /\ result' \in [Server -> Fd \cup {NoResult, Enfile, OtherError}]
    BY <1>1, <1>2 DEF IInv, TypeOK, NoResult
  <2>4. running' \in Server \cup {NoServer}
    BY DEF IInv, TypeOK, MakeSocket
  <2> QED
    BY <2>1, <2>2, <2>3, <2>4 DEF IInv, TypeOK, MakeSocket, procVars, SockAddr
<1>5. \A f \in Fd : f # -1
  BY ConstantFacts, SMT DEF Fd
<1>6. \A f \in Fd, j \in Server, p \in Places :
        Holds(j, p, f)' <=>
          IF j # k \/ p = "listener" THEN Holds(j, p, f)
          ELSE p = "socket" /\ made /\ Holds(k, "result", f)
  <2> SUFFICES ASSUME NEW f \in Fd, NEW j \in Server, NEW p \in Places
               PROVE  Holds(j, p, f)' <=>
                        IF j # k \/ p = "listener" THEN Holds(j, p, f)
                        ELSE p = "socket" /\ made /\ Holds(k, "result", f)
    OBVIOUS
  <2> HIDE DEF made
  <2>1. CASE j # k
    BY <1>1, <2>1 DEF Holds, IInv, TypeOK
  <2>2. CASE j = k /\ p = "listener"
    BY <1>1, <2>2 DEF Holds
  <2>3. CASE j = k /\ p = "result"
    BY <1>1, <1>5, <2>3 DEF Holds, IInv, TypeOK
  <2>4. CASE j = k /\ p = "socket"
    BY <1>1, <1>5, <2>4 DEF Holds, IInv, TypeOK
  <2> QED
    BY <2>1, <2>2, <2>3, <2>4 DEF Places
<1>7. \A f \in Fd \ {0} : ~Holds(k, "socket", f)
  BY <1>1, <1>5 DEF Holds
<1>8. \A f \in Fd : ~made /\ Holds(k, "result", f) => file[f] \notin Sock
  BY <1>3 DEF Holds
<1> HIDE DEF made
<1>9. OneHolder'
  BY <1>1, <1>6 DEF IInv, OneHolder, Places
<1>10. SomeHolder'
  <2> SUFFICES ASSUME NEW f \in Fd \ {0}, file[f] \in Sock, file[f] \notin leaked
               PROVE  \E j \in Server, p \in Places : Holds(j, p, f)'
    BY <1>1 DEF SomeHolder
  <2>1. PICK j \in Server, p \in Places : Holds(j, p, f)
    BY DEF IInv, SomeHolder
  <2>2. CASE j # k \/ p = "listener"
    BY <1>6, <2>1, <2>2
  <2>3. CASE j = k /\ p = "result"
    <3>1. Holds(k, "socket", f)'
      BY <1>6, <1>8, <2>1, <2>3 DEF Places
    <3> QED
      BY <3>1 DEF Places
  <2>4. CASE j = k /\ p = "socket"
    BY <1>7, <2>1, <2>4
  <2> QED
    BY <2>2, <2>3, <2>4 DEF Places
<1>11. PlaceInv'
  BY <1>1 DEF IInv, PlaceInv, MakeSocket, Goto, Before, TypeOK, NoResult, made
<1> QED
  BY <1>4, <1>9, <1>10, <1>11 DEF IInv

\* The descriptor goes from one object to another; the one that was there is
\* leaked.
LEMMA ReturnStep ==
  ASSUME IInv, NEW k \in Server, Return(k)
  PROVE  IInv'
<1>1. \A f \in Fd : f # -1
  BY ConstantFacts, SMT DEF Fd
<1>2. /\ file' = file /\ result' = result
      /\ listener' = [listener EXCEPT ![k] = socket[k]]
      /\ socket' = [socket EXCEPT ![k] = -1]
      /\ leaked' = leaked \cup SocketsAt(listener[k])
  BY <1>1 DEF Return, Close, RhsAfterMove
<1>3. TypeOK'
  <2>1. asked' \in [Server -> SockAddr] /\ promised' \in [Server -> Goal]
    BY NoSocketAddrType DEF IInv, TypeOK, Return, SockAddr
  <2>2. at' \in [Server -> {"idle", "socket", "bind", "listen", "return", "serving"}]
    BY DEF IInv, TypeOK, Return, Goto
  <2>3. listener' \in [Server -> Fd \cup {-1}] /\ socket' \in [Server -> Fd \cup {-1}]
    BY <1>2 DEF IInv, TypeOK
  <2>4. leaked' \subseteq Sock
    BY <1>2, SocketsAtType DEF IInv, TypeOK
  <2> QED
    BY <1>2, <2>1, <2>2, <2>3, <2>4 DEF IInv, TypeOK, Return, SockAddr
<1>4. \A f \in Fd, j \in Server, p \in Places :
        Holds(j, p, f)' <=>
          IF j # k \/ p = "result" THEN Holds(j, p, f)
          ELSE p = "listener" /\ Holds(k, "socket", f)
  <2> SUFFICES ASSUME NEW f \in Fd, NEW j \in Server, NEW p \in Places
               PROVE  Holds(j, p, f)' <=>
                        IF j # k \/ p = "result" THEN Holds(j, p, f)
                        ELSE p = "listener" /\ Holds(k, "socket", f)
    OBVIOUS
  <2>1. CASE j # k
    BY <1>2, <2>1 DEF Holds, IInv, TypeOK
  <2>2. CASE j = k /\ p = "result"
    BY <1>2, <2>2 DEF Holds
  <2>3. CASE j = k /\ p = "socket"
    BY <1>1, <1>2, <2>3 DEF Holds, IInv, TypeOK
  <2>4. CASE j = k /\ p = "listener"
    BY <1>2, <2>4 DEF Holds, IInv, TypeOK
  <2> QED
    BY <2>1, <2>2, <2>3, <2>4 DEF Places
<1>5. OneHolder'
  BY <1>2, <1>4 DEF IInv, OneHolder, Places
<1>6. SomeHolder'
  <2> SUFFICES ASSUME NEW f \in Fd \ {0}, file[f] \in Sock, file[f] \notin leaked'
               PROVE  \E j \in Server, p \in Places : Holds(j, p, f)'
    BY <1>2 DEF SomeHolder
  <2>1. PICK j \in Server, p \in Places : Holds(j, p, f)
    BY <1>2 DEF IInv, SomeHolder
  <2>2. CASE j # k \/ p = "result"
    BY <1>4, <2>1, <2>2
  <2>3. CASE j = k /\ p = "socket"
    BY <1>4, <2>1, <2>3 DEF Places
  <2>4. CASE j = k /\ p = "listener"
    BY <1>2, <2>1, <2>4 DEF Holds, SocketsAt
  <2> QED
    BY <2>2, <2>3, <2>4 DEF Places
<1>7. PlaceInv'
  BY <1>2 DEF IInv, PlaceInv, Return, Goto, TypeOK
<1> QED
  BY <1>3, <1>5, <1>6, <1>7 DEF IInv

\* The listener's descriptor is closed; nobody else has it.
LEMMA StopStep ==
  ASSUME IInv, NEW k \in Server, Stop(k)
  PROVE  IInv'
<1>1. \A f \in Fd : f # -1
  BY ConstantFacts, SMT DEF Fd
<1>2. /\ file' = Close(listener[k]) /\ result' = result /\ socket' = socket
      /\ listener' = [listener EXCEPT ![k] = -1]
      /\ leaked' = leaked
  BY DEF Stop
<1>3. TypeOK'
  <2>1. file' \in [Fd -> Sock \cup {Free, Other}]
    BY <1>2, CloseType DEF IInv, TypeOK
  <2>2. at' \in [Server -> {"idle", "socket", "bind", "listen", "return", "serving"}]
    BY DEF IInv, TypeOK, Stop, Goto
  <2>3. promised' \in [Server -> Goal]
    BY NoSocketAddrType DEF IInv, TypeOK, Stop
  <2>4. listener' \in [Server -> Fd \cup {-1}]
    BY <1>2 DEF IInv, TypeOK
  <2> QED
    BY <2>1, <2>2, <2>3, <2>4 DEF IInv, TypeOK, Stop
<1>4. \A f \in Fd, j \in Server, p \in Places :
        Holds(j, p, f)' <=> Holds(j, p, f) /\ ~(j = k /\ p = "listener")
  BY <1>1, <1>2 DEF Holds, Places, IInv, TypeOK
<1>5. \A f \in Fd : file'[f] = IF Holds(k, "listener", f) THEN Free ELSE file[f]
  BY <1>2 DEF Close, Holds, IInv, TypeOK
<1>6. OneHolder'
  <2> SUFFICES ASSUME NEW f \in Fd \ {0}, NEW j \in Server, NEW p \in Places,
                      Holds(j, p, f)'
               PROVE  /\ file'[f] \in Sock
                      /\ \A i \in Server, q \in Places :
                           Holds(i, q, f)' => i = j /\ q = p
    BY DEF OneHolder
  <2>1. ~Holds(k, "listener", f)
    BY <1>4 DEF IInv, OneHolder, Places
  <2> QED
    BY <1>4, <1>5, <2>1 DEF IInv, OneHolder
<1>7. SomeHolder'
  <2> SUFFICES ASSUME NEW f \in Fd \ {0}, file'[f] \in Sock, file'[f] \notin leaked
               PROVE  \E j \in Server, p \in Places : Holds(j, p, f)'
    BY <1>2 DEF SomeHolder
  <2>1. ~Holds(k, "listener", f) /\ file[f] \in Sock /\ file[f] \notin leaked
    BY <1>5, ConstantFacts
  <2>2. PICK j \in Server, p \in Places : Holds(j, p, f)
    BY <2>1 DEF IInv, SomeHolder
  <2> QED
    BY <1>4, <2>1, <2>2
<1>8. PlaceInv'
  BY <1>2 DEF IInv, PlaceInv, Stop, Goto, TypeOK
<1> QED
  BY <1>3, <1>6, <1>7, <1>8 DEF IInv

LEMMA NextIInv == IInv /\ [Next]_vars => IInv'
<1> SUFFICES ASSUME IInv, [Next]_vars PROVE IInv'
  OBVIOUS
<1>1. ASSUME NEW k \in Server, ServerStep(k) PROVE IInv'
  <2>1. ASSUME NEW text \in Text \cup {BadText}, NEW port \in Port,
               ListenOn(k, text, port)
        PROVE  IInv'
    BY <2>1, ListenOnStep, Zenon
  <2>2. CASE MakeSocket(k)
    BY <2>2, MakeSocketStep, Zenon
  <2>3. CASE Bind(k)
    BY <2>3, BindStep, Zenon
  <2>4. CASE Listen(k)
    BY <2>4, ListenStep, Zenon
  <2>5. CASE Return(k)
    BY <2>5, ReturnStep, Zenon
  <2>6. CASE Accept(k)
    BY <2>6, AcceptStep, Zenon
  <2>7. CASE Stop(k)
    BY <2>7, StopStep, Zenon
  <2> QED
    BY <1>1, <2>1, <2>2, <2>3, <2>4, <2>5, <2>6, <2>7, Zenon DEF ServerStep
<1>2. ASSUME KernelStep PROVE IInv'
  BY <1>2, SocketFailsStep, SocketCreatedStep, CloseZeroStep, Zenon DEF KernelStep
<1>3. CASE UNCHANGED vars
  BY <1>3 DEF vars, procVars, IInv, TypeOK, OneHolder, SomeHolder, PlaceInv, Holds
<1> QED
  BY <1>1, <1>2, <1>3, Zenon DEF Next

-----------------------------------------------------------------------------
(* Addresses.                                                               *)

\* ntohs undoes htons.
LEMMA BytesSwapBack ==
  \A lo, hi \in Int : 0 <= lo /\ lo <= 255 /\ 0 <= hi /\ hi <= 255 =>
    (lo * 256 + hi) % 256 = hi /\ (lo * 256 + hi) \div 256 = lo
  BY SMT

LEMMA TwoBytesMake ==
  \A p \in Int : 0 <= p /\ p <= 65535 => (p \div 256) * 256 + (p % 256) = p
  BY SMT

LEMMA SwapTwice ==
  ASSUME NEW p \in Uint16
  PROVE  Swap(Swap(p)) = p
<1>1. p \in Int /\ 0 <= p /\ p <= 65535
  BY Uint16Bounds, SMT
<1>2. PICK lo \in Int : lo = p % 256 /\ 0 <= lo /\ lo <= 255
  BY <1>1, LowByte, SMT
<1>3. PICK hi \in Int : hi = p \div 256 /\ 0 <= hi /\ hi <= 255
  BY <1>1, HighByte, SMT
<1>4. Swap(p) = lo * 256 + hi
  BY <1>2, <1>3 DEF Swap
<1>5. Swap(lo * 256 + hi) = hi * 256 + lo
  <2>1. (lo * 256 + hi) % 256 = hi /\ (lo * 256 + hi) \div 256 = lo
    BY <1>2, <1>3, BytesSwapBack, SMT
  <2> QED
    BY <2>1 DEF Swap
<1>6. hi * 256 + lo = p
  BY <1>1, <1>2, <1>3, TwoBytesMake, SMT
<1> QED
  BY <1>4, <1>5, <1>6

\* make_addr leads bind to the port, and to the address if the text is one.
LEMMA MakeAddrMeets ==
  ASSUME NEW text \in Text \cup {BadText}, NEW port \in Port,
         NEW a \in MakeAddr(text, port)
  PROVE  Meets(SockName(a), a.from)
<1>1. PICK ip \in Parse(text) :
        a = [addr |-> ip, nport |-> Swap(port), from |-> [text |-> text, port |-> port]]
  BY Zenon DEF MakeAddr
<1>2. /\ a.addr = ip /\ a.nport = Swap(port)
      /\ a.from.text = text /\ a.from.port = port
  BY <1>1, Zenon
<1>3. port \in Uint16 /\ Swap(Swap(port)) = port
  BY PortType, SwapTwice, Zenon
<1>4. port # -1 /\ port # -2
  BY <1>3, Uint16Bounds, SMT
<1>5. SockName(a) = [addr |-> ip, port |-> port]
  BY <1>2, <1>3, Zenon DEF SockName
<1>6. text \in Text => ip = text
  BY Zenon DEF Parse
<1>7. /\ SockName(a).addr = ip /\ SockName(a).port = port
      /\ NoAddr.port = -1 /\ Ephemeral.port = -2
  BY <1>5 DEF NoAddr, Ephemeral
<1> QED
  BY <1>2, <1>4, <1>6, <1>7, Zenon DEF Meets

LEMMA PlacesDiffer == NoAddr # Ephemeral
<1>1. NoAddr.port = -1 /\ Ephemeral.port = -2
  BY DEF NoAddr, Ephemeral
<1> QED
  BY <1>1

\* What somebody holds on another descriptor is another socket.
LEMMA Apart ==
  ASSUME IInv, AddressInv, NEW k \in Server, NEW p \in Places, NEW f \in Fd \ {0},
         Holds(k, p, f), NEW j \in Server, j # k \/ p # "socket"
  PROVE  file[f] \in Sock /\ file[f] \notin SocketsAt(socket[j])
<1>1. /\ file[f] \in Sock
      /\ \A i \in Server, q \in Places : Holds(i, q, f) => i = k /\ q = p
  BY DEF IInv, OneHolder
<1> SUFFICES ASSUME file[f] \in SocketsAt(socket[j]) PROVE FALSE
  BY <1>1
<1>2. socket[j] \in Fd /\ file[socket[j]] = file[f]
  BY DEF SocketsAt
<1>3. socket[j] = f
  BY <1>1, <1>2 DEF AddressInv, OneFd
<1>4. "socket" \in Places /\ Holds(j, "socket", f)
  BY <1>3 DEF Holds, Places
<1> QED
  BY <1>1, <1>4

\* A socket stays at its stage while neither it nor its server moves.
LEMMA StageKept ==
  ASSUME NEW k, NEW p, NEW s, Stage(k, p, s),
         at'[k] = at[k], asked'[k] = asked[k], promised'[k] = promised[k],
         bound'[s] = bound[s], s \in refused' <=> s \in refused,
         s \in listening' <=> s \in listening
  PROVE  Stage(k, p, s)'
  BY DEF Stage, Fresh, Tried, Reached

LEMMA InitAddress == Init => AddressInv
<1> SUFFICES ASSUME Init PROVE AddressInv
  OBVIOUS
<1>1. \A f \in Fd : file[f] \notin Sock
  BY ConstantFacts DEF Init
<1>2. \A f \in Fd, k \in Server, p \in Places : ~Holds(k, p, f)
  BY ConstantFacts, SMT DEF Init, Holds, Places, Fd, NoResult
<1>3. OneFd
  BY <1>1 DEF OneFd, Init
<1>4. AskedInv
  BY DEF AskedInv, Init
<1>5. BoundInv
  BY <1>2 DEF BoundInv, Fresh, Init
<1> QED
  BY <1>3, <1>4, <1>5 DEF AddressInv

LEMMA ListenOnAddress ==
  ASSUME IInv, AddressInv, NEW k \in Server, NEW text \in Text \cup {BadText},
         NEW port \in Port, ListenOn(k, text, port)
  PROVE  AddressInv'
<1>1. PICK a \in MakeAddr(text, port) : asked' = [asked EXCEPT ![k] = a]
  BY DEF ListenOn
<1>2. /\ socket[k] = -1
      /\ at' = [at EXCEPT ![k] = "socket"]
      /\ UNCHANGED <<file, unused, bound, refused, listening, result, socket,
                     listener, promised>>
  BY DEF ListenOn, Goto, procVars, IInv, PlaceInv
<1>3. asked'[k] = a /\ at'[k] = "socket"
  BY <1>1, <1>2 DEF IInv, TypeOK
<1>4. \A j \in Server : j # k => asked'[j] = asked[j] /\ at'[j] = at[j]
  BY <1>1, <1>2 DEF IInv, TypeOK
<1>5. OneFd'
  BY <1>2 DEF AddressInv, OneFd
<1>6. AskedInv'
  <2>1. Meets(SockName(a), a.from)
    BY MakeAddrMeets
  <2>2. ASSUME NEW j \in Server,
               at'[j] \in {"socket", "bind", "listen", "return"}
        PROVE  Meets(SockName(asked'[j]), asked'[j].from)
    <3>1. CASE j = k
      BY <1>3, <2>1, <3>1
    <3>2. CASE j # k
      BY <1>4, <2>2, <3>2 DEF AddressInv, AskedInv
    <3> QED
      BY <3>1, <3>2
  <2> QED
    BY <2>2 DEF AskedInv, Meets, SockName
<1>7. \A f \in Fd : f # -1
  BY ConstantFacts, SMT DEF Fd
<1>8. BoundInv'
  <2>1. \A s \in unused' : Fresh(s)'
    BY <1>2 DEF AddressInv, BoundInv, Fresh
  <2>2. ASSUME NEW f \in Fd \ {0}, NEW j \in Server, NEW p \in Places, Holds(j, p, f)'
        PROVE  Stage(j, p, file[f])'
    <3>1. Holds(j, p, f) /\ (j = k => p # "socket")
      BY <1>2, <1>7, <2>2 DEF Holds
    <3>2. PICK s : s = file[f]
      OBVIOUS
    <3>3. Stage(j, p, s)
      BY <3>1, <3>2 DEF AddressInv, BoundInv
    <3>4. Stage(j, p, s)'
      BY <1>2, <1>4, <3>1, <3>3 DEF Stage, Fresh, Tried, Reached
    <3> QED
      BY <1>2, <3>2, <3>4
  <2> QED
    BY <2>1, <2>2 DEF BoundInv
<1> QED
  BY <1>5, <1>6, <1>8 DEF AddressInv

\* A step that moves no address, no descriptor and no server.
LEMMA NoAddressMoves ==
  ASSUME AddressInv,
         UNCHANGED <<unused, bound, refused, listening, at, asked, socket,
                     listener, promised>>,
         OneFd',
         \A f \in Fd \ {0}, k \in Server, p \in Places :
           Holds(k, p, f)' => Holds(k, p, f) /\ file'[f] = file[f]
  PROVE  AddressInv'
<1>1. AskedInv'
  BY DEF AddressInv, AskedInv
<1>2. \A s \in unused' : Fresh(s)'
  BY DEF AddressInv, BoundInv, Fresh
<1>3. ASSUME NEW f \in Fd \ {0}, NEW k \in Server, NEW p \in Places, Holds(k, p, f)'
      PROVE  Stage(k, p, file[f])'
  <2>1. PICK s : s = file[f]
    OBVIOUS
  <2>2. Stage(k, p, s) /\ file'[f] = s
    BY <1>3, <2>1 DEF AddressInv, BoundInv
  <2>3. Stage(k, p, s)'
    BY <2>2, StageKept
  <2> QED
    BY <2>2, <2>3
<1> QED
  BY <1>1, <1>2, <1>3 DEF AddressInv, BoundInv

LEMMA AcceptAddress ==
  ASSUME IInv, AddressInv, NEW k \in Server, Accept(k)
  PROVE  AddressInv'
<1>1. UNCHANGED <<file, unused, bound, refused, listening, at, asked, result, socket,
                  listener, promised>>
  BY DEF Accept, procVars
<1>2. OneFd'
  BY <1>1 DEF AddressInv, OneFd
<1>3. \A f, j, p : Holds(j, p, f)' => Holds(j, p, f) /\ file'[f] = file[f]
  BY <1>1 DEF Holds
<1> QED
  BY <1>1, <1>2, <1>3, NoAddressMoves

LEMMA SocketFailsAddress ==
  ASSUME IInv, AddressInv, NEW k \in Server, SocketFails(k)
  PROVE  AddressInv'
<1>1. PICK e \in {Enfile, OtherError} : result' = [result EXCEPT ![k] = e]
  BY DEF SocketFails
<1>2. UNCHANGED <<file, unused, bound, refused, listening, at, asked, socket,
                  listener, promised>>
  BY DEF SocketFails, procVars
<1>3. \A f \in Fd : f # e
  BY ConstantFacts, SMT DEF Enfile, OtherError, Fd
<1>4. OneFd'
  BY <1>2 DEF AddressInv, OneFd
<1>5. \A f \in Fd \ {0}, j \in Server, p \in Places :
        Holds(j, p, f)' => Holds(j, p, f) /\ file'[f] = file[f]
  BY <1>1, <1>2, <1>3 DEF Holds, IInv, TypeOK
<1> QED
  BY <1>2, <1>4, <1>5, NoAddressMoves

LEMMA CloseZeroAddress ==
  ASSUME IInv, AddressInv, CloseZero
  PROVE  AddressInv'
<1>1. /\ UNCHANGED <<unused, bound, refused, listening, at, asked, result, socket,
                     listener, promised>>
      /\ file' = Close(0)
  BY DEF CloseZero
<1>2. \A f \in Fd : file'[f] = file[f] \/ file'[f] = Free
  BY <1>1 DEF Close, IInv, TypeOK
<1>3. \A f \in Fd \ {0} : file'[f] = file[f]
  BY <1>1 DEF Close, IInv, TypeOK
<1>4. OneFd'
  <2>1. Free \notin unused
    BY ConstantFacts DEF IInv, TypeOK
  <2>2. \A f \in Fd : file'[f] \notin unused
    BY <1>2, <2>1 DEF AddressInv, OneFd
  <2>3. \A f, g \in Fd : file'[f] \in Sock /\ file'[f] = file'[g] => f = g
    BY <1>2, ConstantFacts DEF AddressInv, OneFd
  <2> QED
    BY <1>1, <2>2, <2>3 DEF OneFd
<1>5. \A f \in Fd \ {0}, j \in Server, p \in Places :
        Holds(j, p, f)' => Holds(j, p, f) /\ file'[f] = file[f]
  BY <1>1, <1>3 DEF Holds
<1> QED
  BY <1>1, <1>4, <1>5, NoAddressMoves

\* The new socket has no address, and neither has the completion that names it.
LEMMA SocketCreatedAddress ==
  ASSUME IInv, AddressInv, NEW k \in Server, NEW s \in Sock, SocketCreated(k, s)
  PROVE  AddressInv'
<1>1. PICK f \in FreeFds :
        /\ file' = [file EXCEPT ![f] = s]
        /\ result' = [result EXCEPT ![k] = f]
  BY DEF SocketCreated
<1>2. /\ f \in Fd /\ file[f] = Free /\ s \in unused /\ unused' = unused \ {s}
      /\ UNCHANGED <<bound, refused, listening, at, asked, socket, listener, promised>>
  BY DEF FreeFds, SocketCreated
<1>3. \A g \in Fd : file'[g] = IF g = f THEN s ELSE file[g]
  BY <1>1, <1>2 DEF IInv, TypeOK
<1>4. OneFd'
  <2>1. \A g \in Fd : file[g] # s
    BY <1>2 DEF AddressInv, OneFd
  <2>2. \A g, h \in Fd : file'[g] \in Sock /\ file'[g] = file'[h] => g = h
    BY <1>3, <2>1 DEF AddressInv, OneFd
  <2>3. \A g \in Fd : file'[g] \notin unused'
    BY <1>2, <1>3 DEF AddressInv, OneFd
  <2> QED
    BY <2>2, <2>3 DEF OneFd
<1>5. AskedInv'
  BY <1>2 DEF AddressInv, AskedInv
<1>6. Fresh(s)' /\ \A r \in unused' : Fresh(r)'
  BY <1>2 DEF AddressInv, BoundInv, Fresh
<1>7. ASSUME NEW g \in Fd \ {0}, NEW j \in Server, NEW p \in Places, Holds(j, p, g)'
      PROVE  Stage(j, p, file[g])'
  <2>1. CASE Holds(j, p, g)
    <3>1. PICK r : r = file[g] /\ r \in Sock
      BY <2>1 DEF IInv, OneHolder
    <3>2. file'[g] = r
      BY <1>2, <1>3, <3>1, ConstantFacts
    <3>3. Stage(j, p, r)
      BY <2>1, <3>1 DEF AddressInv, BoundInv
    <3>4. Stage(j, p, r)'
      BY <1>2, <3>3, StageKept
    <3> QED
      BY <3>2, <3>4
  <2>2. CASE ~Holds(j, p, g)
    <3>1. p = "result" /\ j = k /\ g = f
      BY <1>1, <1>2, <1>7, <2>2 DEF Holds, IInv, TypeOK
    <3>2. file'[g] = s
      BY <1>3, <3>1
    <3>3. Stage(j, p, s)'
      BY <1>6, <3>1 DEF Stage
    <3> QED
      BY <3>2, <3>3
  <2> QED
    BY <2>1, <2>2
<1>8. BoundInv'
  BY <1>6, <1>7 DEF BoundInv
<1> QED
  BY <1>4, <1>5, <1>8 DEF AddressInv

\* The socket is still without an address when the object takes it.
LEMMA MakeSocketAddress ==
  ASSUME IInv, AddressInv, NEW k \in Server, MakeSocket(k)
  PROVE  AddressInv'
<1> DEFINE made == result[k] # Enfile /\ SetReuse(result[k])
<1>1. /\ socket[k] = -1 /\ at[k] = "socket"
      /\ result' = [result EXCEPT ![k] = -1]
      /\ UNCHANGED <<file, unused, bound, refused, listening, listener, promised>>
  BY DEF MakeSocket, IInv, PlaceInv, procVars, NoResult
<1>2. made => /\ socket' = [socket EXCEPT ![k] = result[k]]
              /\ at' = [at EXCEPT ![k] = "bind"] /\ asked' = asked
  BY DEF MakeSocket, Goto
<1>3. ~made => /\ socket' = socket
               /\ at' = [at EXCEPT ![k] = Before(k)]
               /\ asked' = [asked EXCEPT ![k] = NoSocketAddr]
  BY DEF MakeSocket, Goto
<1> HIDE DEF made
<1>4. /\ at'[k] = IF made THEN "bind" ELSE Before(k)
      /\ asked'[k] = IF made THEN asked[k] ELSE NoSocketAddr
      /\ socket'[k] = IF made THEN result[k] ELSE -1
      /\ result'[k] = -1
      /\ \A j \in Server \ {k} : /\ at'[j] = at[j] /\ asked'[j] = asked[j]
                                 /\ socket'[j] = socket[j] /\ result'[j] = result[j]
  BY <1>1, <1>2, <1>3 DEF IInv, TypeOK
<1>5. \A f \in Fd : f # -1
  BY ConstantFacts, SMT DEF Fd
<1>6. OneFd'
  BY <1>1 DEF AddressInv, OneFd
<1>7. AskedInv'
  <2>1. Before(k) \notin {"socket", "bind", "listen", "return"}
    BY DEF Before
  <2>2. \A j \in Server : at'[j] \in {"socket", "bind", "listen", "return"} =>
          at[j] \in {"socket", "bind", "listen", "return"} /\ asked'[j] = asked[j]
    BY <1>1, <1>4, <2>1
  <2> QED
    BY <2>2 DEF AddressInv, AskedInv, Meets, SockName
<1>8. \A s \in unused' : Fresh(s)'
  BY <1>1 DEF AddressInv, BoundInv, Fresh
<1>9. ASSUME NEW f \in Fd \ {0}, NEW j \in Server, NEW p \in Places, Holds(j, p, f)'
      PROVE  Stage(j, p, file[f])'
  <2>1. PICK s : s = file[f]
    OBVIOUS
  <2>2. CASE j = k /\ p = "socket"
    <3>1. made /\ Holds(k, "result", f)
      BY <1>4, <1>5, <1>9, <2>2 DEF Holds
    <3>2. Fresh(s)
      BY <2>1, <3>1 DEF AddressInv, BoundInv, Stage, Places
    <3>3. Fresh(s)' /\ at'[k] = "bind"
      BY <1>1, <1>4, <3>1, <3>2 DEF Fresh
    <3>4. Stage(j, p, s)'
      BY <2>2, <3>3 DEF Stage
    <3> QED
      BY <1>1, <2>1, <3>4
  <2>3. CASE j # k
    <3>1. Holds(j, p, f)
      BY <1>1, <1>4, <1>9, <2>3 DEF Holds
    <3>2. Stage(j, p, s)
      BY <2>1, <3>1 DEF AddressInv, BoundInv
    <3>3. Stage(j, p, s)'
      BY <1>1, <1>4, <2>3, <3>2, StageKept
    <3> QED
      BY <1>1, <2>1, <3>3
  <2>4. CASE j = k /\ p # "socket"
    <3>1. p = "listener" /\ Holds(k, "listener", f)
      BY <1>1, <1>4, <1>5, <1>9, <2>4 DEF Holds
    <3>2. Reached(s, promised[k])
      BY <2>1, <3>1 DEF AddressInv, BoundInv, Stage, Places
    <3>3. Reached(s, promised[k])'
      BY <1>1, <3>2 DEF Reached
    <3>4. Stage(j, p, s)'
      BY <2>4, <3>1, <3>3 DEF Stage
    <3> QED
      BY <1>1, <2>1, <3>4
  <2> QED
    BY <2>2, <2>3, <2>4
<1>10. BoundInv'
  BY <1>8, <1>9 DEF BoundInv
<1> QED
  BY <1>6, <1>7, <1>10 DEF AddressInv

\* bind and listen work on the socket of their server alone.
LEMMA OneSocketBound ==
  ASSUME IInv, AddressInv, NEW k \in Server,
         UNCHANGED <<file, unused, asked, result, socket, listener, promised>>,
         \A j \in Server : j # k => at'[j] = at[j],
         at[k] \in {"bind", "listen"}, at'[k] \in {"listen", "return"},
         \A s \in Sock \ SocketsAt(socket[k]) :
           /\ bound'[s] = bound[s]
           /\ s \in refused' <=> s \in refused
           /\ s \in listening' <=> s \in listening,
         \A s \in SocketsAt(socket[k]) :
           Stage(k, "socket", s) => Stage(k, "socket", s)'
  PROVE  AddressInv'
<1>1. OneFd'
  BY DEF AddressInv, OneFd
<1>2. AskedInv'
  <2>1. \A j \in Server : at'[j] \in {"socket", "bind", "listen", "return"} =>
          at[j] \in {"socket", "bind", "listen", "return"}
    OBVIOUS
  <2> QED
    BY <2>1 DEF AddressInv, AskedInv, Meets, SockName
<1>3. \A s \in unused' : Fresh(s)'
  <2>1. \A s \in unused : s \in Sock \ SocketsAt(socket[k])
    BY DEF AddressInv, OneFd, SocketsAt, IInv, TypeOK
  <2> QED
    BY <2>1 DEF AddressInv, BoundInv, Fresh
<1>4. ASSUME NEW f \in Fd \ {0}, NEW j \in Server, NEW p \in Places, Holds(j, p, f)'
      PROVE  Stage(j, p, file[f])'
  <2>1. Holds(j, p, f)
    BY <1>4 DEF Holds
  <2>2. PICK s : s = file[f] /\ s \in Sock
    BY <2>1 DEF IInv, OneHolder
  <2>3. Stage(j, p, s)
    BY <2>1, <2>2 DEF AddressInv, BoundInv
  <2>4. CASE j = k /\ p = "socket"
    <3>1. s \in SocketsAt(socket[k])
      BY <2>1, <2>2, <2>4 DEF Holds, SocketsAt
    <3>2. Stage(j, p, s)'
      BY <2>3, <2>4, <3>1
    <3> QED
      BY <2>2, <3>2
  <2>5. CASE j # k \/ p # "socket"
    <3>1. s \in Sock \ SocketsAt(socket[k])
      BY <2>1, <2>2, <2>5, Apart
    <3>2. Fresh(s)' <=> Fresh(s)
      BY <3>1 DEF Fresh
    <3>3. \A goal : Tried(s, goal)' <=> Tried(s, goal)
      BY <3>1 DEF Tried
    <3>4. \A goal : Reached(s, goal)' <=> Reached(s, goal)
      BY <3>1 DEF Reached
    <3>5. p = "socket" => at'[j] = at[j]
      BY <2>5
    <3>6. Stage(j, p, s)'
      BY <2>3, <3>2, <3>3, <3>4, <3>5 DEF Stage
    <3> QED
      BY <2>2, <3>6
  <2> QED
    BY <2>4, <2>5
<1> QED
  BY <1>1, <1>2, <1>3, <1>4 DEF AddressInv, BoundInv

\* The socket gets the address that was asked for, or bind is refused.
LEMMA BindAddress ==
  ASSUME IInv, AddressInv, NEW k \in Server, Bind(k)
  PROVE  AddressInv'
<1>1. /\ at[k] = "bind" /\ at' = [at EXCEPT ![k] = "listen"]
      /\ UNCHANGED <<file, unused, listening, asked, result, socket, listener, promised>>
  BY DEF Bind, Goto
<1>2. at'[k] = "listen" /\ \A j \in Server : j # k => at'[j] = at[j]
  BY <1>1 DEF IInv, TypeOK
<1>3. \/ /\ \A s \in Sock : bound'[s] = IF s \in SocketsAt(socket[k]) /\ bound[s] = NoAddr
                                        THEN SockName(asked[k]) ELSE bound[s]
         /\ refused' = refused
      \/ /\ refused' = refused \cup SocketsAt(socket[k])
         /\ bound' = bound
  BY DEF Bind
<1>4. \A s \in Sock \ SocketsAt(socket[k]) :
        /\ bound'[s] = bound[s]
        /\ s \in refused' <=> s \in refused
        /\ s \in listening' <=> s \in listening
  BY <1>1, <1>3
<1>5. Meets(SockName(asked[k]), asked[k].from)
  BY <1>1 DEF AddressInv, AskedInv
<1>6. ASSUME NEW s \in SocketsAt(socket[k]), Stage(k, "socket", s)
      PROVE  Stage(k, "socket", s)'
  <2>1. s \in Sock /\ s \notin refused /\ bound[s] = NoAddr /\ s \notin listening
    BY <1>1, <1>6, SocketsAtType DEF Stage, Fresh
  <2>2. PICK a : a = asked[k]
    OBVIOUS
  <2>3. Meets(SockName(a), a.from)
    BY <1>5, <2>2
  <2>4. \/ s \notin refused' /\ bound'[s] = SockName(a)
        \/ s \in refused' /\ bound'[s] = NoAddr
    BY <1>3, <2>1, <2>2
  <2>5. Tried(s, a.from)'
    BY <1>1, <2>1, <2>3, <2>4 DEF Tried, Meets
  <2>6. asked'[k] = a
    BY <1>1, <2>2
  <2> QED
    BY <1>2, <2>5, <2>6 DEF Stage
<1> QED
  BY <1>1, <1>2, <1>4, <1>6, OneSocketBound

\* A socket that bind was refused for is bound now, if it listens.
LEMMA ListenAddress ==
  ASSUME IInv, AddressInv, NEW k \in Server, Listen(k)
  PROVE  AddressInv'
<1>1. /\ at[k] = "listen" /\ at' = [at EXCEPT ![k] = "return"]
      /\ UNCHANGED <<file, unused, refused, asked, result, socket, listener, promised>>
  BY DEF Listen, Goto
<1>2. at'[k] = "return" /\ \A j \in Server : j # k => at'[j] = at[j]
  BY <1>1 DEF IInv, TypeOK
<1>3. \/ /\ \A s \in Sock : bound'[s] = IF s \in SocketsAt(socket[k]) /\ bound[s] = NoAddr
                                        THEN Ephemeral ELSE bound[s]
         /\ listening' = listening \cup SocketsAt(socket[k])
      \/ UNCHANGED <<bound, listening>>
  BY DEF Listen
<1>4. \A s \in Sock \ SocketsAt(socket[k]) :
        /\ bound'[s] = bound[s]
        /\ s \in refused' <=> s \in refused
        /\ s \in listening' <=> s \in listening
  BY <1>1, <1>3
<1>5. ASSUME NEW s \in SocketsAt(socket[k]), Stage(k, "socket", s)
      PROVE  Stage(k, "socket", s)'
  <2>1. PICK goal : goal = asked[k].from
    OBVIOUS
  <2>2. s \in Sock /\ Tried(s, goal)
    BY <1>1, <1>5, <2>1, SocketsAtType DEF Stage
  <2>3. \/ /\ bound'[s] = IF bound[s] = NoAddr THEN Ephemeral ELSE bound[s]
           /\ s \in listening'
        \/ bound'[s] = bound[s] /\ s \notin listening'
    BY <1>3, <1>5, <2>2 DEF Tried
  <2>4. Reached(s, goal)'
    BY <1>1, <2>2, <2>3 DEF Tried, Reached, Meets
  <2> QED
    BY <1>1, <1>2, <2>1, <2>4 DEF Stage
<1> QED
  BY <1>1, <1>2, <1>4, <1>5, OneSocketBound

\* What the Socket has reached, the listener has.
LEMMA ReturnAddress ==
  ASSUME IInv, AddressInv, NEW k \in Server, Return(k)
  PROVE  AddressInv'
<1>1. \A f \in Fd : f # -1
  BY ConstantFacts, SMT DEF Fd
<1>2. /\ at[k] = "return"
      /\ UNCHANGED <<file, unused, bound, refused, listening, result>>
      /\ listener' = [listener EXCEPT ![k] = socket[k]]
      /\ socket' = [socket EXCEPT ![k] = -1]
      /\ promised' = [promised EXCEPT ![k] = asked[k].from]
      /\ asked' = [asked EXCEPT ![k] = NoSocketAddr]
      /\ at' = [at EXCEPT ![k] = "serving"]
  BY <1>1 DEF Return, Goto, Close, RhsAfterMove
<1>3. /\ at'[k] = "serving" /\ promised'[k] = asked[k].from
      /\ listener'[k] = socket[k] /\ socket'[k] = -1
      /\ \A j \in Server \ {k} : /\ at'[j] = at[j] /\ asked'[j] = asked[j]
                                 /\ promised'[j] = promised[j]
                                 /\ socket'[j] = socket[j] /\ listener'[j] = listener[j]
  BY <1>2 DEF IInv, TypeOK
<1>4. OneFd'
  BY <1>2 DEF AddressInv, OneFd
<1>5. AskedInv'
  <2>1. \A j \in Server : at'[j] \in {"socket", "bind", "listen", "return"} =>
          at[j] \in {"socket", "bind", "listen", "return"} /\ asked'[j] = asked[j]
    BY <1>3
  <2> QED
    BY <2>1 DEF AddressInv, AskedInv, Meets, SockName
<1>6. \A s \in unused' : Fresh(s)'
  BY <1>2 DEF AddressInv, BoundInv, Fresh
<1>7. ASSUME NEW f \in Fd \ {0}, NEW j \in Server, NEW p \in Places, Holds(j, p, f)'
      PROVE  Stage(j, p, file[f])'
  <2>1. PICK s : s = file[f]
    OBVIOUS
  <2>2. CASE j # k
    <3>1. Holds(j, p, f)
      BY <1>2, <1>3, <1>7, <2>2 DEF Holds
    <3>2. Stage(j, p, s)
      BY <2>1, <3>1 DEF AddressInv, BoundInv
    <3>3. Stage(j, p, s)'
      BY <1>2, <1>3, <2>2, <3>2, StageKept
    <3> QED
      BY <1>2, <2>1, <3>3
  <2>3. CASE j = k /\ p = "result"
    <3>1. Holds(j, p, f)
      BY <1>2, <1>7, <2>3 DEF Holds
    <3>2. Fresh(s)
      BY <2>1, <2>3, <3>1 DEF AddressInv, BoundInv, Stage
    <3>3. Stage(j, p, s)'
      BY <1>2, <2>3, <3>2 DEF Stage, Fresh
    <3> QED
      BY <1>2, <2>1, <3>3
  <2>4. CASE j = k /\ p = "socket"
    BY <1>1, <1>3, <1>7, <2>4 DEF Holds
  <2>5. CASE j = k /\ p = "listener"
    <3>1. Holds(k, "socket", f)
      BY <1>3, <1>7, <2>5 DEF Holds
    <3>2. PICK goal : goal = asked[k].from
      OBVIOUS
    <3>3. Reached(s, goal)
      BY <1>2, <2>1, <3>1, <3>2 DEF AddressInv, BoundInv, Stage, Places
    <3>4. Reached(s, goal)' /\ promised'[k] = goal
      BY <1>2, <1>3, <3>2, <3>3 DEF Reached
    <3>5. Stage(j, p, s)'
      BY <2>5, <3>4 DEF Stage
    <3> QED
      BY <1>2, <2>1, <3>5
  <2> QED
    BY <2>2, <2>3, <2>4, <2>5 DEF Places
<1> QED
  BY <1>4, <1>5, <1>6, <1>7 DEF AddressInv, BoundInv

LEMMA StopAddress ==
  ASSUME IInv, AddressInv, NEW k \in Server, Stop(k)
  PROVE  AddressInv'
<1>1. \A f \in Fd : f # -1
  BY ConstantFacts, SMT DEF Fd
<1>2. /\ file' = Close(listener[k])
      /\ UNCHANGED <<unused, bound, refused, listening, asked, result, socket>>
      /\ listener' = [listener EXCEPT ![k] = -1]
      /\ promised' = [promised EXCEPT ![k] = NoSocketAddr.from]
      /\ at[k] = "serving" /\ at' = [at EXCEPT ![k] = "idle"]
  BY DEF Stop, Goto
<1>3. /\ listener'[k] = -1 /\ at'[k] = "idle"
      /\ \A j \in Server \ {k} : /\ at'[j] = at[j] /\ promised'[j] = promised[j]
                                 /\ listener'[j] = listener[j]
  BY <1>2 DEF IInv, TypeOK
<1>4. \A f \in Fd : file'[f] = IF Holds(k, "listener", f) THEN Free ELSE file[f]
  BY <1>2 DEF Close, Holds, IInv, TypeOK
<1>5. OneFd'
  <2>1. \A f \in Fd : file'[f] \notin unused
    BY <1>4, ConstantFacts DEF AddressInv, OneFd, IInv, TypeOK
  <2>2. \A f, g \in Fd : file'[f] \in Sock /\ file'[f] = file'[g] => f = g
    BY <1>4, ConstantFacts DEF AddressInv, OneFd
  <2> QED
    BY <1>2, <2>1, <2>2 DEF OneFd
<1>6. AskedInv'
  <2>1. \A j \in Server : at'[j] \in {"socket", "bind", "listen", "return"} =>
          at[j] \in {"socket", "bind", "listen", "return"}
    BY <1>3
  <2> QED
    BY <1>2, <2>1 DEF AddressInv, AskedInv, Meets, SockName
<1>7. \A s \in unused' : Fresh(s)'
  BY <1>2 DEF AddressInv, BoundInv, Fresh
<1>8. ASSUME NEW f \in Fd \ {0}, NEW j \in Server, NEW p \in Places, Holds(j, p, f)'
      PROVE  Stage(j, p, file[f])'
  <2>1. Holds(j, p, f) /\ ~(j = k /\ p = "listener")
    BY <1>1, <1>2, <1>3, <1>8 DEF Holds
  <2>2. ~Holds(k, "listener", f)
    BY <2>1 DEF IInv, OneHolder, Places
  <2>3. PICK s : s = file[f]
    OBVIOUS
  <2>4. file'[f] = s
    BY <1>4, <2>2, <2>3
  <2>5. Stage(j, p, s)
    BY <2>1, <2>3 DEF AddressInv, BoundInv
  <2>6. p = "socket" => at'[j] = at[j] \/ (j = k /\ at'[j] = "idle")
    BY <1>3
  <2>7. p = "listener" => promised'[j] = promised[j]
    BY <1>3, <2>1
  <2>8. Stage(j, p, s)'
    BY <1>2, <2>5, <2>6, <2>7 DEF Stage, Fresh, Tried, Reached
  <2> QED
    BY <2>4, <2>8
<1> QED
  BY <1>5, <1>6, <1>7, <1>8 DEF AddressInv, BoundInv

LEMMA NextAddress == IInv /\ AddressInv /\ [Next]_vars => AddressInv'
<1> SUFFICES ASSUME IInv, AddressInv, [Next]_vars PROVE AddressInv'
  OBVIOUS
<1>1. ASSUME NEW k \in Server, ServerStep(k) PROVE AddressInv'
  <2>1. ASSUME NEW text \in Text \cup {BadText}, NEW port \in Port,
               ListenOn(k, text, port)
        PROVE  AddressInv'
    BY <2>1, ListenOnAddress, Zenon
  <2>2. CASE MakeSocket(k)
    BY <2>2, MakeSocketAddress, Zenon
  <2>3. CASE Bind(k)
    BY <2>3, BindAddress, Zenon
  <2>4. CASE Listen(k)
    BY <2>4, ListenAddress, Zenon
  <2>5. CASE Return(k)
    BY <2>5, ReturnAddress, Zenon
  <2>6. CASE Accept(k)
    BY <2>6, AcceptAddress, Zenon
  <2>7. CASE Stop(k)
    BY <2>7, StopAddress, Zenon
  <2> QED
    BY <1>1, <2>1, <2>2, <2>3, <2>4, <2>5, <2>6, <2>7, Zenon DEF ServerStep
<1>2. ASSUME KernelStep PROVE AddressInv'
  BY <1>2, SocketFailsAddress, SocketCreatedAddress, CloseZeroAddress, Zenon
  DEF KernelStep
<1>3. CASE UNCHANGED vars
  <2>1. UNCHANGED <<file, unused, bound, refused, listening, at, asked, result, socket,
                    listener, promised>>
    BY <1>3 DEF vars, procVars
  <2>2. OneFd'
    BY <2>1 DEF AddressInv, OneFd
  <2>3. \A f, j, p : Holds(j, p, f)' => Holds(j, p, f) /\ file'[f] = file[f]
    BY <2>1 DEF Holds
  <2> QED
    BY <2>1, <2>2, <2>3, NoAddressMoves
<1> QED
  BY <1>1, <1>2, <1>3, Zenon DEF Next

-----------------------------------------------------------------------------
(* The theorems.                                                            *)

LEMMA Inductive == Spec => []IInv
  BY InitIInv, NextIInv, PTL DEF Spec

\* Every component keeps its type: a result is an error or a descriptor, an
\* object has a descriptor or -1, an address has 16 bits for its port
\* (socket.hpp:20-40, ip_addr.hpp:80-125).
THEOREM TypeInvariant == Spec => []TypeOK
<1>1. IInv => TypeOK
  BY DEF IInv
<1> QED
  BY Inductive, <1>1, PTL

\* A descriptor other than 0 that a Socket or a completion holds is open on a
\* socket and held nowhere else, so ~Socket (socket.hpp:35-40) closes its own.
THEOREM DescriptorsHeldByOne == Spec => []HeldByOne
<1>1. IInv => HeldByOne
  BY OneHolderSuffices DEF IInv
<1> QED
  BY Inductive, <1>1, PTL

\* An open socket has a holder, whatever throws and whatever is moved, unless a
\* TcpListener that held it was assigned over (socket.hpp:28-33).
THEOREM SocketsAreKept == Spec => []NoSocketLost
<1>1. IInv => NoSocketLost
  BY SomeHolderSuffices DEF IInv
<1> QED
  BY Inductive, <1>1, PTL

\* The socket of a listener that listen_on has returned is bound to the address
\* it was asked for, unless bind was refused, and then at a port of the kernel's
\* choice or, when listen failed as well, at none: every way from MakeAddr through
\* the moved Socket to the listener keeps the address with the descriptor
\* (listener.hpp:58-69, ip_addr.hpp:105-119).
THEOREM ListenersListenWhereAsked == Spec => []ListensWhereAsked
<1>1. IInv /\ AddressInv => ListensWhereAsked
  <2> SUFFICES ASSUME IInv, AddressInv, NEW k \in Server, listener[k] > 0,
                      NEW s \in SocketsAt(listener[k])
               PROVE  Became(s, promised[k])
    BY DEF ListensWhereAsked
  <2>1. listener[k] \in Fd \ {0} /\ s = file[listener[k]]
    BY DEF SocketsAt
  <2>2. Holds(k, "listener", listener[k]) /\ "listener" \in Places
    BY DEF Holds, Places
  <2>3. Stage(k, "listener", s)
    BY <2>1, <2>2 DEF AddressInv, BoundInv
  <2> QED
    BY <2>3 DEF Stage, Reached, Meets, Became, AsAsked
<1>2. Spec => []AddressInv
  BY InitIInv, NextIInv, InitAddress, NextAddress, PTL DEF Spec
<1> QED
  BY Inductive, <1>1, <1>2, PTL
=============================================================================
