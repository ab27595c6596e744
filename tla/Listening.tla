------------------------------ MODULE Listening ------------------------------
(***************************************************************************)
(* TcpListener::listen_on: text to sockaddr, a socket from the main ring,  *)
(* the Socket object that owns its descriptor and is moved from frame to   *)
(* frame, bind, listen; and what happens to the descriptor afterwards.     *)
(*                                                                         *)
(* Descriptors are those of the process, and plain numbers: the kernel     *)
(* gives out the lowest free one.  Descriptor 0 is open at the start, and  *)
(* a moved-from TcpConnection closes it: its destructor asks for direct    *)
(* slot -1, which is encoded as "not direct, descriptor 0".                *)
(*                                                                         *)
(* The coroutines of the servers share the main thread; the kernel runs at *)
(* any time, between two system calls of a coroutine as well.              *)
(***************************************************************************)
EXTENDS Integers, FiniteSets

CONSTANTS
  Server,   \* coroutines that call listen_on
  NoServer, \* none of them is executing
  MaxFd,    \* the highest descriptor of the process
  Sock,     \* the sockets that can be created
  Free,     \* no file
  Other,    \* a file that is not a socket of a server: standard input
  Text,     \* the texts inet_pton accepts
  BadText,  \* one it does not, "localhost"
  Port,     \* the ports asked for
  MaxCalls  \* bound on the calls of listen_on

Uint16 == 0 .. 65535

ASSUME ListeningAssumption ==
  /\ IsFiniteSet(Server) /\ NoServer \notin Server
  /\ MaxFd \in Nat
  /\ Free \notin Sock /\ Other \notin Sock /\ Free # Other
  /\ BadText \notin Text
  /\ Port \subseteq Uint16 \ {0}
  /\ MaxCalls \in Nat

Fd == 0 .. MaxFd

VARIABLES
  \* the process
  file,       \* file[f]: what descriptor f is open on
  unused,     \* the sockets not created yet
  bound,      \* bound[s]: the address of socket s
  refused,    \* the sockets whose bind was refused
  listening,  \* the sockets that listen
  closing,    \* a close of descriptor 0 is in the main ring
  \* the servers
  at,         \* at[k]: where the coroutine is
  calls,      \* counts towards MaxCalls
  asked,      \* asked[k]: the SocketAddr listen_on was called with, and what
              \* text and port that was made from
  result,     \* result[k]: res of the completion of the socket request
  socket,     \* socket[k]: fd_ of the Socket that listen_on works on
  listener,   \* listener[k]: fd_ of the Socket in the server's TcpListener
  promised,   \* promised[k]: the text and the port that listener was asked for
  running,    \* the server whose coroutine is executing
  leaked      \* the sockets whose last owner let go without a close

procVars == <<file, unused, bound, refused, listening>>
vars == <<procVars, closing, at, calls, asked, result, socket, listener,
          promised, running, leaked>>

-----------------------------------------------------------------------------
(* Addresses.                                                               *)

\* htons and ntohs on a little-endian machine; sin_port is read with Swap.
Swap(p) == (p % 256) * 256 + p \div 256

\* inet_pton leaves the address uninitialised when the text is not one, and
\* returns 0, which parse does not test for.
Parse(text) == IF text \in Text THEN {text} ELSE Text \cup {BadText}

\* make_addr_v4, make_addr_v6.
MakeAddrHostOrder(text, port) ==
  {[addr |-> ip, nport |-> port, from |-> [text |-> text, port |-> port]] :
     ip \in Parse(text)}
MakeAddr(text, port) ==
  {[addr |-> ip, nport |-> Swap(port), from |-> [text |-> text, port |-> port]] :
     ip \in Parse(text)}

\* What bind reads through address() and len().
SockName(a) == [addr |-> a.addr, port |-> Swap(a.nport)]

NoSocketAddr ==
  [addr |-> BadText, nport |-> 0, from |-> [text |-> BadText, port |-> 0]]

NoAddr    == [addr |-> BadText, port |-> -1]  \* not bound
Ephemeral == [addr |-> BadText, port |-> -2]  \* listen has chosen the port
NoResult  == -1
Enfile    == -2  \* the error prep_normal_socket throws on
OtherError == -3 \* EMFILE and the rest: the result is used as a descriptor

-----------------------------------------------------------------------------
Init ==
  /\ file = [f \in Fd |-> IF f = 0 THEN Other ELSE Free]
  /\ unused = Sock
  /\ bound = [s \in Sock |-> NoAddr]
  /\ refused = {} /\ listening = {}
  /\ closing = FALSE
  /\ at = [k \in Server |-> "idle"]
  /\ calls = 0
  /\ asked = [k \in Server |-> NoSocketAddr]
  /\ result = [k \in Server |-> NoResult]
  /\ socket = [k \in Server |-> -1]
  /\ listener = [k \in Server |-> -1]
  /\ promised = [k \in Server |-> NoSocketAddr.from]
  /\ running = NoServer
  /\ leaked = {}

\* ::close, and ~Socket, which leaves the negative ones alone.
CloseForgotten(f) == file
Close(f) == IF f \in Fd THEN [file EXCEPT ![f] = Free] ELSE file

Goto(k, label) == at' = [at EXCEPT ![k] = label]

\* The socket descriptor f is open on, if it is one.
SocketsAt(f) == IF f \in Fd THEN {file[f]} \cap Sock ELSE {}

-----------------------------------------------------------------------------
(* The coroutine of a server, on the main thread.                           *)

\* listen_on, create_tcp_socket and prep_normal_socket up to the await.
ListenOn(k, text, port) ==
  /\ running = NoServer
  /\ at[k] \in {"idle", "serving"} /\ calls < MaxCalls
  /\ calls' = calls + 1
  /\ \E a \in MakeAddr(text, port) : asked' = [asked EXCEPT ![k] = a]
  /\ Goto(k, "socket")
  /\ UNCHANGED <<procVars, closing, result, socket, listener, promised, running,
                 leaked>>

\* setsockopt fails on what is not a socket; a negative result that is not
\* ENFILE ends up here, too.
ReuseUnchecked(f) == TRUE
SetReuse(f) == SocketsAt(f) # {}

\* Where a coroutine whose listen_on has thrown is, when it catches.
Before(k) == IF listener[k] = -1 THEN "idle" ELSE "serving"

\* prep_normal_socket returns or throws; Socket{sockfd, addr} and its moves.
MakeSocket(k) ==
  /\ running = NoServer
  /\ at[k] = "socket" /\ result[k] # NoResult
  /\ IF result[k] # Enfile /\ SetReuse(result[k])
     THEN /\ socket' = [socket EXCEPT ![k] = result[k]]
          /\ running' = k
          /\ Goto(k, "bind")
          /\ UNCHANGED asked
     ELSE /\ asked' = [asked EXCEPT ![k] = NoSocketAddr]
          /\ Goto(k, Before(k))
          /\ UNCHANGED <<socket, running>>
  /\ result' = [result EXCEPT ![k] = NoResult]
  /\ UNCHANGED <<procVars, closing, calls, listener, promised, leaked>>

\* TcpListener::bind, whose failure nobody sees.
Bind(k) ==
  /\ at[k] = "bind"
  /\ \/ /\ bound' = [s \in Sock |-> IF s \in SocketsAt(socket[k]) /\ bound[s] = NoAddr
                                    THEN SockName(asked[k]) ELSE bound[s]]
        /\ UNCHANGED refused
     \/ /\ refused' = refused \cup SocketsAt(socket[k])
        /\ UNCHANGED bound
  /\ Goto(k, "listen")
  /\ UNCHANGED <<file, unused, listening, closing, calls, asked, result, socket,
                 listener, promised, running, leaked>>

\* TcpListener::listen, whose failure nobody sees either: the port is taken by
\* then, or a socket that is not bound finds no port.  One that succeeds binds a
\* socket that is not bound to a port of its choice.
Listen(k) ==
  /\ at[k] = "listen"
  /\ \/ /\ bound' = [s \in Sock |-> IF s \in SocketsAt(socket[k]) /\ bound[s] = NoAddr
                                    THEN Ephemeral ELSE bound[s]]
        /\ listening' = listening \cup SocketsAt(socket[k])
     \/ UNCHANGED <<bound, listening>>
  /\ Goto(k, "return")
  /\ UNCHANGED <<file, unused, refused, closing, calls, asked, result, socket,
                 listener, promised, running, leaked>>

\* Socket(Socket&&) and operator= reset fd_ of the right-hand side.
RhsKept(f) == f
RhsAfterMove(f) == -1

\* The result of listen_on is moved into the server's variable: into a new one,
\* or over one that still owns a descriptor, which is not closed.
Return(k) ==
  /\ at[k] = "return"
  /\ listener' = [listener EXCEPT ![k] = socket[k]]
  /\ promised' = [promised EXCEPT ![k] = asked[k].from]
  /\ asked' = [asked EXCEPT ![k] = NoSocketAddr]
  /\ leaked' = leaked \cup SocketsAt(listener[k])
  /\ file' = Close(RhsAfterMove(socket[k]))
  /\ socket' = [socket EXCEPT ![k] = -1]
  /\ running' = NoServer
  /\ Goto(k, "serving")
  /\ UNCHANGED <<unused, bound, refused, listening, closing, calls, result>>

\* TcpListener::accept, of a socket that listens: the connection is moved out of
\* temporaries.  Of any other it throws, and the server stops.
Accept(k) ==
  /\ running = NoServer /\ at[k] = "serving"
  /\ SocketsAt(listener[k]) \cap listening # {}
  /\ closing' = TRUE
  /\ UNCHANGED <<procVars, at, calls, asked, result, socket, listener,
                 promised, running, leaked>>

\* The server returns, or accept throws through it: ~TcpListener.
Stop(k) ==
  /\ running = NoServer /\ at[k] = "serving"
  /\ file' = Close(listener[k])
  /\ listener' = [listener EXCEPT ![k] = -1]
  /\ promised' = [promised EXCEPT ![k] = NoSocketAddr.from]
  /\ Goto(k, "idle")
  /\ UNCHANGED <<unused, bound, refused, listening, closing, calls, asked, result,
                 socket, running, leaked>>

-----------------------------------------------------------------------------
(* The kernel.                                                              *)

FreeFds == {f \in Fd : file[f] = Free}

\* IORING_OP_SOCKET.
SocketCreated(k, s) ==
  /\ at[k] = "socket" /\ result[k] = NoResult /\ s \in unused
  /\ \E f \in FreeFds :
       /\ \A g \in FreeFds : f <= g
       /\ file' = [file EXCEPT ![f] = s]
       /\ result' = [result EXCEPT ![k] = f]
  /\ unused' = unused \ {s}
  /\ UNCHANGED <<bound, refused, listening, closing, at, calls, asked, socket,
                 listener, promised, running, leaked>>

SocketFails(k) ==
  /\ at[k] = "socket" /\ result[k] = NoResult
  /\ \E e \in {Enfile, OtherError} : result' = [result EXCEPT ![k] = e]
  /\ UNCHANGED <<procVars, closing, at, calls, asked, socket, listener,
                 promised, running, leaked>>

\* The close of direct slot -1.
CloseZero ==
  /\ closing
  /\ file' = Close(0)
  /\ closing' = FALSE
  /\ UNCHANGED <<unused, bound, refused, listening, at, calls, asked, result,
                 socket, listener, promised, running, leaked>>

-----------------------------------------------------------------------------
ServerStep(k) ==
  \/ \E text \in Text \cup {BadText}, port \in Port : ListenOn(k, text, port)
  \/ MakeSocket(k) \/ Bind(k) \/ Listen(k) \/ Return(k)
  \/ Accept(k) \/ Stop(k)

KernelStep ==
  \/ \E k \in Server : SocketFails(k) \/ \E s \in Sock : SocketCreated(k, s)
  \/ CloseZero

Next == KernelStep \/ \E k \in Server : ServerStep(k)

Spec == Init /\ [][Next]_vars

-----------------------------------------------------------------------------
Goal    == [text : Text \cup {BadText}, port : Uint16]
Address == [addr : Text \cup {BadText}, port : Uint16 \cup {-1, -2}]

\* Every component has its type.
TypeOK ==
  /\ file \in [Fd -> Sock \cup {Free, Other}]
  /\ unused \subseteq Sock /\ refused \subseteq Sock
  /\ listening \subseteq Sock /\ leaked \subseteq Sock
  /\ bound \in [Sock -> Address]
  /\ closing \in BOOLEAN
  /\ at \in [Server -> {"idle", "socket", "bind", "listen", "return", "serving"}]
  /\ calls \in 0 .. MaxCalls
  /\ asked \in [Server -> [addr : Text \cup {BadText}, nport : Uint16,
                           from : Goal]]
  /\ promised \in [Server -> Goal]
  /\ result \in [Server -> Fd \cup {NoResult, Enfile, OtherError}]
  /\ socket \in [Server -> Fd \cup {-1}]
  /\ listener \in [Server -> Fd \cup {-1}]
  /\ running \in Server \cup {NoServer}

\* The places a descriptor is held in: a completion its coroutine has not read
\* yet, and the objects.
Places     == {"result", "socket", "listener"}
Place(k)   == [result |-> result[k], socket |-> socket[k], listener |-> listener[k]]
Holders(f) == {h \in Server \X Places : Place(h[1])[h[2]] = f}

\* A descriptor is a number, so ~Socket (socket.hpp:35-40) closes whatever has it
\* by then: while an object or a result holds one, it is open on a socket and
\* nobody else holds it.  Descriptor 0 is the exception the code makes.
HeldByOne ==
  \A f \in Fd \ {0} : Holders(f) # {} =>
    file[f] \in Sock /\ \E h \in Holders(f) : Holders(f) = {h}

\* No socket is lost: one that is open has a holder, through every throw and
\* every move, except where a TcpListener is assigned over (socket.hpp:28-33).
NoSocketLost ==
  \A f \in Fd \ {0} : file[f] \in Sock => file[f] \in leaked \/ Holders(f) # {}

\* What a socket has become of that was to be reached at the address goal: bind
\* and listen (listener.hpp:67, 69) may each have failed, and listen_on returns
\* all the same.
AsAsked(address, goal) ==
  /\ address.port = goal.port
  /\ goal.text \in Text => address.addr = goal.text
Became(s, goal) ==
  IF s \notin refused THEN AsAsked(bound[s], goal)
  ELSE bound[s] = IF s \in listening THEN Ephemeral ELSE NoAddr

\* Whatever the servers do with their descriptors in between, the socket of the
\* listener that listen_on has returned (listener.hpp:58-64) is the one bind and
\* listen were called for: it has the address the caller asked for, listening or
\* not; or bind was refused, and it listens at a port nobody knows or has none.
\* Its address is never the one another server asked for.
ListensWhereAsked ==
  \A k \in Server : at[k] = "serving" /\ listener[k] > 0 =>
    \A s \in SocketsAt(listener[k]) : Became(s, promised[k])
=============================================================================
