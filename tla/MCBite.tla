-------------------------------- MODULE MCBite --------------------------------
(* Bite with two parachains; which chains are bitten at a given block is a  *)
(* matter of the configuration.                                             *)
EXTENDS Bite

CONSTANTS p1, p2

TwoParas == <<p1, p2>>
OnePinned == [c \in {p1, p2, RC} |-> IF c = p2 THEN AtHead ELSE 2]
AllPinned == [c \in {p1, p2, RC} |-> IF c = p2 THEN 1 ELSE 2]

=============================================================================
