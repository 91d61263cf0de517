------------------------------ MODULE MCRunner ------------------------------
(* Either the looks of the window change twice; or a user pastes once and shares once, *)
(* and another process uses the clipboard meanwhile.                                   *)
EXTENDS Runner

CONSTANTS v, s

One == <<1, 2>>
Two == <<3>>

Pastes   == {v}
Shares   == {s}
ToShare  == {<<One, Two>>, <<Two>>}
Explorer == {<<Two>>}
ThereAre == {Two}

Look  == [themes |-> Themes, news |-> 2, others |-> 0, tasks |-> {}]
Usage == [themes |-> {"dark"}, news |-> 0, others |-> 1, tasks |-> {v, s}]
Bounds == {Look, Usage}
=============================================================================
