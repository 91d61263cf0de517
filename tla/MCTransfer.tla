----------------------------- MODULE MCTransfer -----------------------------
(* One sender and two members of a group: one pulls over its link, the other directly. *)
EXTENDS Transfer

CONSTANTS a, b, c, g

ThreeDevices == {a, b, c}
Order        == <<a, b, c>>
OneKnows     == {<<c, a>>, <<c, b>>}
Stale        == {<<b, a>>}
Nobody       == {}
AllFaults    == {"slow", "break", "restart", "cancel", "change"}
=============================================================================
