---------------------------- MODULE Conversation ----------------------------
(***************************************************************************)
(* What the 1:1 synchronisation promises to the people who use it, without *)
(* logs, cursors, links or mailboxes: a message is written once, shows up  *)
(* at the other end, is marked as delivered only when it has been there,   *)
(* and does not come back at an end where it was deleted -- unless that    *)
(* end forgets the deletion, which it may when it starts two days later.   *)
(* README.md, section "consistency model"; the comments of SyncEngine.     *)
(***************************************************************************)
CONSTANTS Device, Msg,
  MayForget   \* two days may pass

VARIABLES
  shown,    \* shown[d][p]: what d displays of its conversation with p
  gone,     \* gone[d]: what was deleted at d, as far as d remembers
  lapsed,   \* lapsed[d]: what d deleted and forgot at a start
  written,  \* written[d][p]: what d ever wrote to p
  ticked    \* messages marked as delivered at their author

convVars == <<shown, gone, lapsed, written, ticked>>

Peers(d) == Device \ {d}

EverGone(d) == gone[d] \cup lapsed[d]

Init ==
  /\ shown = [d \in Device |-> [p \in Device |-> {}]]
  /\ gone = [d \in Device |-> {}] /\ lapsed = [d \in Device |-> {}]
  /\ written = [d \in Device |-> [p \in Device |-> {}]]
  /\ ticked = {}

\* d deletes ids, and forgets `old' if it starts anew
Remember(d, ids, old) ==
  /\ MayForget \/ old = {}
  /\ old \subseteq gone[d] \cup ids
  /\ gone' = [gone EXCEPT ![d] = (@ \cup ids) \ old]
  /\ lapsed' = [lapsed EXCEPT ![d] = @ \cup old]

Write(d, p, m) ==
  /\ \A x, y \in Device : m \notin written[x][y]
  /\ written' = [written EXCEPT ![d][p] = @ \cup {m}]
  /\ shown' = [shown EXCEPT ![d][p] = @ \cup {m}]
  /\ UNCHANGED <<gone, lapsed, ticked>>

\* m is not known as deleted at d, and not shown yet
Deliver(d, p, m, old) ==
  /\ m \in written[p][d] \ (shown[d][p] \cup gone[d])
  /\ shown' = [shown EXCEPT ![d][p] = @ \cup {m}]
  /\ Remember(d, {}, old)
  /\ UNCHANGED <<written, ticked>>

\* messages that are shown at d, or were deleted at p, are deleted at d
Delete(d, p, ids, old) ==
  /\ ids \subseteq shown[d][p] \cup EverGone(d) \cup EverGone(p)
  /\ shown' = [shown EXCEPT ![d][p] = @ \ ids]
  /\ Remember(d, ids, old)
  /\ ticked' = ticked \ (ids \cap shown[d][p] \cap written[d][p])
  /\ UNCHANGED written

Tick(d, p, ids) ==
  /\ ids \subseteq written[d][p] \cap (shown[p][d] \cup EverGone(p))
  /\ ticked' = ticked \cup ids
  /\ UNCHANGED <<shown, gone, lapsed, written>>

Next ==
  \E d \in Device : \E p \in Peers(d) :
    \/ \E m \in Msg : Write(d, p, m)
    \/ \E m \in Msg : \E old \in SUBSET Msg : Deliver(d, p, m, old)
    \/ \E ids, old \in SUBSET Msg : Delete(d, p, ids, old)
    \/ \E ids \in SUBSET Msg : Tick(d, p, ids)

Spec == Init /\ [][Next]_convVars
=============================================================================
