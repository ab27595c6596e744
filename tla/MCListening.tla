----------------------------- MODULE MCListening -----------------------------
(* Instances of Listening for TLC.  258 is 0x0102, whose bytes differ.        *)
(* Servers are interchangeable, and so are sockets.                           *)
EXTENDS Listening, TLC

Ports    == {258}
Symmetry == Permutations(Server) \cup Permutations(Sock)
=============================================================================
