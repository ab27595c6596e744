-------------------------- MODULE MCMultishotAccept --------------------------
(* Instances of MultishotAccept for TLC.                                       *)
EXTENDS MultishotAccept

CONSTANTS c1, c2, c3, l1, l2

TwoConns   == {c1, c2}
ThreeConns == {c1, c2, c3}

DialsOne == [c \in Conn |-> l1]
DialsTwo == [c \in Conn |-> IF c = c3 THEN l2 ELSE l1]
=============================================================================
