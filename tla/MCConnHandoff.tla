---------------------------- MODULE MCConnHandoff ----------------------------
(* Instances of ConnHandoff for TLC.  Connections are interchangeable.        *)
EXTENDS ConnHandoff, TLC

CONSTANTS c1, c2, c3

TwoConns   == {c1, c2}
ThreeConns == {c1, c2, c3}

Symmetry == Permutations(Conn)
=============================================================================
