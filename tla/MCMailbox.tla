----------------------------- MODULE MCMailbox -----------------------------
(* Values of the constants of Mailbox for TLC. *)
EXTENDS Mailbox, TLC

CONSTANTS r1, r2, m1, m2, m3

BytesTwo == m1 :> 1 @@ m2 :> 2 @@ m3 :> 2

\* All mails for one recipient
ToOne    == [m \in Mail |-> r1]
BytesOne == [m \in Mail |-> 1]
=============================================================================
