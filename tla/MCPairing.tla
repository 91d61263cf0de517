----------------------------- MODULE MCPairing -----------------------------
(* Values of the constants of Pairing for TLC. *)
EXTENDS Pairing, TLC

CONSTANTS a, b, q1, q2

\* a asks twice, or both ask
FromA    == q1 :> a @@ q2 :> a
FromBoth == q1 :> a @@ q2 :> b
ToB      == q1 :> b @@ q2 :> b
ToBoth   == q1 :> b @@ q2 :> a

OnlyPins == q1 :> {"pin"} @@ q2 :> {"pin"}
AnyWay   == q1 :> {"pin"} @@ q2 :> {"pin", "tap", "invite"}
=============================================================================
