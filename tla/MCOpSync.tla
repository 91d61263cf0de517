------------------------------ MODULE MCOpSync ------------------------------
(* Values of the constants of OpSync for TLC. *)
EXTENDS OpSync, TLC

CONSTANTS a, b, m1, m2

BothDial == {<<a, b>>, <<b, a>>}
OnlyADials == {<<a, b>>}

\* The two devices are alike when both can dial
Devices == Permutations({a, b})
=============================================================================
