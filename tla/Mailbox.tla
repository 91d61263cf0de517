------------------------------ MODULE Mailbox ------------------------------
(***************************************************************************)
(* The offline mailbox: server/mailbox.go, the mailbox frames of           *)
(* server/client.go, and the client that polls it                          *)
(* (core/lib/src/rendezvous/rendezvous.dart).                              *)
(*                                                                         *)
(* A mail that is pushed is stored under the next number of its            *)
(* recipient's bucket, and put at once on the recipient's connection if    *)
(* there is one.  The recipient also fetches the first page when it        *)
(* connects and every 15 s, so the same mail may be under way several      *)
(* times; it acknowledges every frame, and the server deletes the numbers  *)
(* acknowledged.  An empty bucket is deleted, and its sequence with it.    *)
(*                                                                         *)
(* A mail that the recipient has no key for, because it does not know the  *)
(* sender (yet, or any more) or the two hold different tokens, is dropped, *)
(* and acknowledged like any other.                                        *)
(***************************************************************************)
EXTENDS Integers, FiniteSetsExt, SequencesExt

CONSTANTS
  Box,        \* the recipients: the buckets of one file, which recountTotal walks
  Mail,       \* mails, each pushed once
  Unsure,     \* mails for which their recipient's key may come and go
  To,         \* To[m]: the recipient of m
  Bytes,      \* Bytes[m]: length of the record of m
  Overhead,   \* what the page of a bucket takes besides its records
  BoxCap,     \* boxCap: mails per box
  BoxBytesCap, TotalCap, \* boxBytesCap, totalBytesCap
  PageSize,   \* fetchPageSize
  SendBuffer, \* capacity of Client.send
  MaxFrames,  \* bound: the client polls while fewer of its frames are under way
  MaxFaults   \* bound: how many connections break and servers restart

ASSUME MailboxAssumption ==
  /\ IsFiniteSet(Box) /\ Unsure \subseteq Mail
  /\ To \in [Mail -> Box] /\ Bytes \in [Mail -> Nat \ {0}] /\ Overhead \in Nat
  /\ BoxCap \in Nat /\ BoxBytesCap \in Nat /\ TotalCap \in Nat
  /\ PageSize \in Nat \ {0} /\ SendBuffer \in Nat \ {0}
  /\ MaxFrames \in Nat \ {0} /\ MaxFaults \in Nat

VARIABLES
  box,      \* box[r]: the bucket of r, mails by number
  seqNo,    \* seqNo[r]: sequence of the bucket; 0 when there is no bucket
  total,    \* total_bytes in __meta__
  pushed,   \* pushed[m]: what became of the push of m
  conn,     \* conn[r]: r is connected and registered in the hub
  down,     \* down[r]: Client.send of r's connection and what is on the wire from it
  up,       \* up[r]: frames of r that the server has not handled
  late,     \* late[r]: the same of a connection that broke
  got,      \* got[r]: mails r handed to its SyncEngine
  dropped,  \* dropped[r]: mails that r acknowledged and did not hand over
  reused,   \* mails that were stored under a number that had been used before
  used,     \* used[r]: the numbers ever given in the bucket of r
  faults

store == <<box, seqNo, total>>
wires == <<conn, down, up, late>>
fate  == <<got, dropped>>
vars  == <<store, pushed, wires, fate, reused, used, faults>>

\* Frames of the client
Fetch    == [type |-> "fetch", ids |-> {}]
Ack(ids) == [type |-> "ack", ids |-> ids]
Frame    == [type : {"fetch", "ack"}, ids : SUBSET Nat]

\* bytes of a set of mails
Size(mails) == MapThenSumSet(LAMBDA m : Bytes[m], mails)

Stored(r)   == {box[r][id] : id \in DOMAIN box[r]}
StoredBytes == Size(UNION {Stored(r) : r \in Box})

\* What Bucket.Stats says of the pages in use: a small bucket is part of its parent's
\* page and counts nothing
PageBytes(r) == {0} \cup (IF box[r] = <<>> THEN {} ELSE {Overhead + Size(Stored(r))})

-----------------------------------------------------------------------------
\* sendJSON of a mailbox frame, while the client's frames `waiting' are not handled yet:
\* a full buffer ends the connection (kick), whose frames may still be handled
Deliver(r, items, waiting) ==
  \/ /\ conn[r] /\ Len(down[r]) < SendBuffer
     /\ down' = [down EXCEPT ![r] = Append(@, items)]
     /\ up' = [up EXCEPT ![r] = waiting]
     /\ UNCHANGED <<conn, late>>
  \/ /\ conn[r] /\ Len(down[r]) >= SendBuffer
     /\ conn' = [conn EXCEPT ![r] = FALSE]
     /\ down' = [down EXCEPT ![r] = <<>>]
     /\ up' = [up EXCEPT ![r] = <<>>]
     /\ late' = [late EXCEPT ![r] = @ \o waiting]
  \/ ~conn[r] /\ UNCHANGED wires

\* Mutant: the sequence is raised after its use
NextBefore(r) == seqNo[r]

\* box.NextSequence
NextSequence(r) == seqNo[r] + 1

\* the quota checks of Mailbox.Push
Fits(r, m, pages) ==
  /\ Cardinality(DOMAIN box[r]) < BoxCap
  /\ pages + Bytes[m] <= BoxBytesCap
  /\ total + Bytes[m] <= TotalCap

\* mailbox_push: Mailbox.Push, then at once onto the recipient's connection
Push(m) ==
  LET r  == To[m]
      id == NextSequence(r)
  IN /\ pushed[m] = "new"
     /\ \E pages \in PageBytes(r) : Fits(r, m, pages)
     /\ seqNo' = [seqNo EXCEPT ![r] = id]
     /\ box' = [box EXCEPT ![r] = [i \in DOMAIN @ \cup {id} |-> IF i = id THEN m ELSE @[i]]]
     /\ total' = total + Bytes[m]
     /\ pushed' = [pushed EXCEPT ![m] = "stored"]
     /\ reused' = IF id \in used[r] THEN reused \cup {m} ELSE reused
     /\ used' = [used EXCEPT ![r] = @ \cup {id}]
     /\ Deliver(r, {<<id, m>>}, up[r])
     /\ UNCHANGED <<fate, faults>>

\* ErrBoxFull, ErrTotalFull: the sender gets an error frame
Refuse(m) ==
  /\ pushed[m] = "new"
  /\ \E pages \in PageBytes(To[m]) : ~Fits(To[m], m, pages)
  /\ pushed' = [pushed EXCEPT ![m] = "refused"]
  /\ UNCHANGED <<store, wires, fate, reused, used, faults>>

\* Mailbox.Fetch: the first numbers, a page of them
FirstPage(r) ==
  {id \in DOMAIN box[r] : Cardinality({i \in DOMAIN box[r] : i < id}) < PageSize}

HandleFetch(r) ==
  /\ up[r] # <<>> /\ Head(up[r]).type = "fetch"
  /\ Deliver(r, {<<id, box[r][id]>> : id \in FirstPage(r)}, Tail(up[r]))
  /\ UNCHANGED <<store, pushed, fate, reused, used, faults>>

\* Mutant: an acknowledged number covers those below it
LeftAbove(r, ids) ==
  [i \in {j \in DOMAIN box[r] : \A k \in ids : j > k} |-> box[r][i]]

Left(r, ids) == [i \in DOMAIN box[r] \ ids |-> box[r][i]]

\* Mutant: the count of the numbers is taken for their bytes
FreedByCount(r, ids) == Cardinality(ids)

\* bytes of the records found under the acknowledged numbers
Freed(r, ids) == Size({box[r][id] : id \in ids \cap DOMAIN box[r]})

\* Bucket.Stats counts keys on pages: whether it sees the deletions of its own
\* transaction is left open, so a box that becomes empty may stay until the next ack
Reclaims(r, left) ==
  IF left # <<>> THEN {FALSE} ELSE IF box[r] = <<>> THEN {TRUE} ELSE BOOLEAN

\* Mailbox.Ack
Acknowledge(r, ids) ==
  LET left  == Left(r, ids)
      freed == Freed(r, ids)
  IN /\ \E reclaimed \in Reclaims(r, left) :
          /\ seqNo' = [seqNo EXCEPT ![r] = IF reclaimed THEN 0 ELSE @]
          /\ box' = [box EXCEPT ![r] = IF reclaimed THEN <<>> ELSE left]
     /\ total' = IF total > freed THEN total - freed ELSE 0

HandleAck(r) ==
  /\ up[r] # <<>> /\ Head(up[r]).type = "ack"
  /\ Acknowledge(r, Head(up[r]).ids)
  /\ up' = [up EXCEPT ![r] = Tail(@)]
  /\ UNCHANGED <<pushed, conn, down, late, fate, reused, used, faults>>

\* a frame of a broken connection is still handled; what it answers is lost
HandleLate(r) ==
  /\ late[r] # <<>>
  /\ late' = [late EXCEPT ![r] = Tail(@)]
  /\ IF Head(late[r]).type = "ack" THEN Acknowledge(r, Head(late[r]).ids)
                                   ELSE UNCHANGED store
  /\ UNCHANGED <<pushed, conn, down, up, fate, reused, used, faults>>

-----------------------------------------------------------------------------
(* The client. *)

\* hello_ok: fetch at once, and start polling
Connect(r) ==
  /\ ~conn[r]
  /\ conn' = [conn EXCEPT ![r] = TRUE]
  /\ up' = [up EXCEPT ![r] = <<Fetch>>]
  /\ UNCHANGED <<store, pushed, down, late, fate, reused, used, faults>>

\* _mailPollTimer
Poll(r) ==
  /\ conn[r] /\ Len(up[r]) < MaxFrames
  /\ up' = [up EXCEPT ![r] = Append(@, Fetch)]
  /\ UNCHANGED <<store, pushed, conn, down, late, fate, reused, used, faults>>

\* Mutant: only what is new is acknowledged
AckedNew(r, items) == {it[1] : it \in {x \in items : x[2] \notin got[r]}}

\* every item is acknowledged, also one of an unknown sender or that cannot be decrypted
Acked(r, items) == {it[1] : it \in items}

\* _handleMailbox: it waits for each decryption, so frames may finish in any order.  What it
\* has no key for then is not handed over; pairing, unpairing and invites change the keys.
TakeFrame(r) ==
  \E i \in DOMAIN down[r], missing \in SUBSET Unsure :
    LET items == down[r][i]
        ids   == Acked(r, items)
        acked == {it[2] : it \in {x \in items : x[1] \in ids}}
    IN /\ down' = [down EXCEPT ![r] = RemoveAt(@, i)]
       /\ got' = [got EXCEPT ![r] = @ \cup ({it[2] : it \in items} \ missing)]
       /\ dropped' = [dropped EXCEPT ![r] = @ \cup (acked \cap missing)]
       /\ up' = IF ids = {} THEN up ELSE [up EXCEPT ![r] = Append(@, Ack(ids))]
       /\ UNCHANGED <<store, pushed, conn, late, reused, used, faults>>

-----------------------------------------------------------------------------
(* Faults. *)

\* the connection breaks; the server may have received some of the frames under way
Break(r) ==
  /\ faults < MaxFaults /\ faults' = faults + 1
  /\ conn[r]
  /\ conn' = [conn EXCEPT ![r] = FALSE]
  /\ down' = [down EXCEPT ![r] = <<>>]
  /\ up' = [up EXCEPT ![r] = <<>>]
  /\ \E n \in 0 .. Len(up[r]) : late' = [late EXCEPT ![r] = @ \o SubSeq(up[r], 1, n)]
  /\ UNCHANGED <<store, pushed, fate, reused, used>>

\* recountTotal: the records, and the pages they are on
Recount(pages) == StoredBytes + MapThenSumSet(LAMBDA r : pages[r], Box)

\* the server restarts: OpenMailbox
Restart ==
  /\ faults < MaxFaults /\ faults' = faults + 1
  /\ conn' = [r \in Box |-> FALSE]
  /\ down' = [r \in Box |-> <<>>] /\ up' = [r \in Box |-> <<>>] /\ late' = [r \in Box |-> <<>>]
  /\ \E pages \in [Box -> UNION {PageBytes(r) : r \in Box}] :
       /\ \A r \in Box : pages[r] \in PageBytes(r)
       /\ total' = Recount(pages)
  /\ UNCHANGED <<box, seqNo, pushed, fate, reused, used>>

-----------------------------------------------------------------------------
Init ==
  /\ box = [r \in Box |-> <<>>] /\ seqNo = [r \in Box |-> 0] /\ total = 0
  /\ pushed = [m \in Mail |-> "new"]
  /\ conn = [r \in Box |-> FALSE]
  /\ down = [r \in Box |-> <<>>] /\ up = [r \in Box |-> <<>>] /\ late = [r \in Box |-> <<>>]
  /\ got = [r \in Box |-> {}] /\ dropped = [r \in Box |-> {}]
  /\ reused = {} /\ used = [r \in Box |-> {}]
  /\ faults = 0

ServerStep(r) == HandleFetch(r) \/ HandleAck(r) \/ HandleLate(r)
ClientStep(r) == Connect(r) \/ Poll(r) \/ TakeFrame(r)

Next == \/ \E m \in Mail : Push(m) \/ Refuse(m)
        \/ \E r \in Box : ServerStep(r) \/ ClientStep(r) \/ Break(r)
        \/ Restart

Spec == Init /\ [][Next]_vars

\* The client reconnects with growing pauses and polls every 15 s; the server's read loop
\* handles each frame.  A frame that arrived is handled by the client's event loop long
\* before the next poll, also if connections keep being cut: strong fairness.
Fairness == \A r \in Box : /\ WF_vars(Connect(r)) /\ WF_vars(Poll(r))
                           /\ WF_vars(HandleFetch(r)) /\ WF_vars(HandleAck(r))
                           /\ SF_vars(TakeFrame(r))

FairSpec == Spec /\ Fairness

-----------------------------------------------------------------------------
TypeOK ==
  /\ \A r \in Box : /\ DOMAIN box[r] \subseteq 1 .. seqNo[r]
                    /\ \A id \in DOMAIN box[r] : box[r][id] \in Mail
  /\ seqNo \in [Box -> Nat] /\ total \in Nat
  /\ pushed \in [Mail -> {"new", "stored", "refused"}]
  /\ conn \in [Box -> BOOLEAN]
  /\ down \in [Box -> Seq(SUBSET (Nat \X Mail))]
  /\ up \in [Box -> Seq(Frame)] /\ late \in [Box -> Seq(Frame)]
  /\ got \in [Box -> SUBSET Mail] /\ dropped \in [Box -> SUBSET Unsure]
  /\ used \in [Box -> SUBSET Nat]
  /\ reused \subseteq Mail /\ faults \in Nat

Dealt(m) == m \in got[To[m]] \cup dropped[To[m]]

\* A stored mail leaves its box only after its recipient has handed it over, or got it when
\* it had no key for it, as long as its number was never used before.  (NextSequence, Fetch,
\* Ack, _handleMailbox)
KeptUntilHanded ==
  \A m \in Mail : pushed[m] = "stored" => m \in Stored(To[m]) \/ Dealt(m) \/ m \in reused

\* The same of every mail: what has to be true if numbers only grow.
NothingLost ==
  \A m \in Mail : pushed[m] = "stored" => m \in Stored(To[m]) \/ Dealt(m)

\* The quota is not bypassed: the counted total covers what is stored, also after
\* restarts, repeated acknowledgements and deleted boxes.  And it does not run full of
\* nothing: before a restart, which counts the pages too, it is what is stored.  (Push, Ack,
\* recountTotal)
TotalRight ==
  /\ StoredBytes <= total /\ StoredBytes <= TotalCap
  /\ faults = 0 => total = StoredBytes

\* A stored mail is handed over by its recipient, whatever page it is on, however often the
\* connection breaks and whatever else in its box cannot be decrypted, if its number is new
\* and it does not come at a time when there is no key for it.
EventuallyHanded ==
  \A m \in Mail : pushed[m] = "stored" ~> Dealt(m) \/ m \in reused
=============================================================================
