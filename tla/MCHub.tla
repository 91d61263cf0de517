-------------------------------- MODULE MCHub --------------------------------
(* Two devices that are paired with each other, one of them only later. *)
EXTENDS Hub

CONSTANTS a, b

Two     == {a, b}
Pairing == [d \in Two |-> IF d = a THEN <<{}, {b}>> ELSE <<{a}>>]
Conns   == [d \in Two |-> IF d = a THEN 1 ELSE 2]
=============================================================================
