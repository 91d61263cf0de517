---------------------------- MODULE MailboxSafety ----------------------------
(***************************************************************************)
(* The mailbox, proved for any recipients, mails, quotas, pages and faults.*)
(*                                                                         *)
(* No stored mail is lost (Inv): whatever is under way and names a number, *)
(* an item or an acknowledgement, is about the mail that is stored under   *)
(* it now, unless that mail was given a number that had been used before.  *)
(*                                                                         *)
(* The counted total is right (Account): every stored mail lies in the box *)
(* of its recipient, once, so what an acknowledgement subtracts is what it *)
(* removes.  This needs sums over finite sets, whose lemmas come first.    *)
(***************************************************************************)
EXTENDS Mailbox, FiniteSetTheorems, SequenceTheorems, TLAPS

Elems(s) == {s[i] : i \in DOMAIN s}

Items == SUBSET (Nat \X Mail)

Types ==
  /\ DOMAIN box = Box /\ seqNo \in [Box -> Nat]
  /\ pushed \in [Mail -> {"new", "stored", "refused"}]
  /\ down \in [Box -> Seq(Items)]
  /\ up \in [Box -> Seq(Frame)] /\ late \in [Box -> Seq(Frame)]
  /\ got \in [Box -> SUBSET Mail] /\ dropped \in [Box -> SUBSET Unsure] /\ used \in [Box -> SUBSET Nat]

\* numbers in use were given by the sequence
Numbers ==
  \A r \in Box : \A id \in DOMAIN box[r] :
    id \in 1 .. seqNo[r] /\ id \in used[r] /\ box[r][id] \in Mail

\* an item under way, and a number that r acknowledged after it had handed the mail over or
\* dropped it
Honest(r, x) ==
  x[1] \in used[r] /\ (x[1] \in DOMAIN box[r] => box[r][x[1]] = x[2] \/ box[r][x[1]] \in reused)
Safe(r, id) ==
  /\ id \in used[r]
  /\ id \in DOMAIN box[r] => box[r][id] \in got[r] \cup dropped[r] \cup reused

Frames(r) == Elems(up[r]) \cup Elems(late[r])

Flights ==
  \A r \in Box : /\ \A items \in Elems(down[r]) : \A x \in items : Honest(r, x)
                 /\ \A f \in Frames(r) : \A id \in f.ids : Safe(r, id)

Inv == Types /\ Numbers /\ Flights /\ KeptUntilHanded

LEMMA InitInv == Init => Inv
<1>. SUFFICES ASSUME Init PROVE Inv
  OBVIOUS
<1>1. Types
  BY DEF Init, Types
<1>2. Numbers /\ KeptUntilHanded
  BY DEF Init, Numbers, KeptUntilHanded
<1>3. Flights
  BY DEF Init, Flights, Frames, Elems
<1>. QED
  BY <1>1, <1>2, <1>3 DEF Inv

-----------------------------------------------------------------------------
(* Sequences by their elements. *)

LEMMA AppendElems ==
  ASSUME NEW S, NEW s \in Seq(S), NEW e \in S
  PROVE  Append(s, e) \in Seq(S) /\ Elems(Append(s, e)) \subseteq Elems(s) \cup {e}
<1>1. /\ Append(s, e) \in Seq(S) /\ Len(Append(s, e)) = Len(s) + 1 /\ Len(s) \in Nat
      /\ \A i \in 1 .. Len(s) : Append(s, e)[i] = s[i]
      /\ Append(s, e)[Len(s) + 1] = e
  BY AppendProperties
<1>2. DOMAIN Append(s, e) = 1 .. Len(s) + 1 /\ DOMAIN s = 1 .. Len(s)
  BY <1>1
<1>3. ASSUME NEW i \in DOMAIN Append(s, e) PROVE Append(s, e)[i] \in Elems(s) \cup {e}
  <2>1. i \in 1 .. Len(s) \/ i = Len(s) + 1
    BY <1>1, <1>2
  <2>. QED
    BY <1>1, <1>2, <2>1 DEF Elems
<1>. QED
  BY <1>1, <1>3 DEF Elems

LEMMA TailElems ==
  ASSUME NEW S, NEW s \in Seq(S), s # <<>>
  PROVE  /\ Tail(s) \in Seq(S) /\ Elems(Tail(s)) \subseteq Elems(s)
         /\ Head(s) \in S /\ Head(s) \in Elems(s)
<1>1. /\ Tail(s) \in Seq(S) /\ Head(s) \in S /\ Len(Tail(s)) = Len(s) - 1
      /\ \A i \in 1 .. Len(Tail(s)) : Tail(s)[i] = s[i + 1]
      /\ Len(s) \in Nat
  BY HeadTailProperties
<1>2. DOMAIN s = 1 .. Len(s) /\ DOMAIN Tail(s) = 1 .. Len(s) - 1 /\ Head(s) = s[1] /\ Len(s) > 0
  BY <1>1
<1>3. ASSUME NEW i \in DOMAIN Tail(s) PROVE Tail(s)[i] \in Elems(s)
  <2>1. i + 1 \in DOMAIN s
    BY <1>1, <1>2
  <2>. QED
    BY <1>1, <1>2, <2>1 DEF Elems
<1>4. Head(s) \in Elems(s)
  BY <1>1, <1>2 DEF Elems
<1>. QED
  BY <1>1, <1>3, <1>4 DEF Elems

LEMMA ConcatElems ==
  ASSUME NEW S, NEW s \in Seq(S), NEW t \in Seq(S)
  PROVE  s \o t \in Seq(S) /\ Elems(s \o t) \subseteq Elems(s) \cup Elems(t)
<1>1. /\ s \o t \in Seq(S) /\ Len(s \o t) = Len(s) + Len(t) /\ Len(s) \in Nat /\ Len(t) \in Nat
      /\ \A i \in 1 .. Len(s) + Len(t) :
           (s \o t)[i] = IF i <= Len(s) THEN s[i] ELSE t[i - Len(s)]
  BY ConcatProperties
<1>2. /\ DOMAIN (s \o t) = 1 .. Len(s) + Len(t)
      /\ DOMAIN s = 1 .. Len(s) /\ DOMAIN t = 1 .. Len(t)
  BY <1>1
<1>3. ASSUME NEW i \in DOMAIN (s \o t) PROVE (s \o t)[i] \in Elems(s) \cup Elems(t)
  <2>1. CASE i <= Len(s)
    <3>1. i \in DOMAIN s /\ (s \o t)[i] = s[i]
      BY <1>1, <1>2, <2>1
    <3>. QED
      BY <3>1 DEF Elems
  <2>2. CASE ~(i <= Len(s))
    <3>1. i - Len(s) \in DOMAIN t /\ (s \o t)[i] = t[i - Len(s)]
      BY <1>1, <1>2, <2>2
    <3>. QED
      BY <3>1 DEF Elems
  <2>. QED
    BY <2>1, <2>2
<1>. QED
  BY <1>1, <1>3 DEF Elems

LEMMA PartElems ==
  ASSUME NEW S, NEW s \in Seq(S), NEW m \in Nat \ {0}, NEW n \in Nat, n <= Len(s)
  PROVE  SubSeq(s, m, n) \in Seq(S) /\ Elems(SubSeq(s, m, n)) \subseteq Elems(s)
<1>0. Len(s) \in Nat /\ DOMAIN s = 1 .. Len(s) /\ \A i \in DOMAIN s : s[i] \in S
  OBVIOUS
<1>1. /\ SubSeq(s, m, n) \in Seq(S)
      /\ Len(SubSeq(s, m, n)) = IF m <= n THEN n - m + 1 ELSE 0
      /\ \A i \in 1 .. n - m + 1 : SubSeq(s, m, n)[i] = s[m + i - 1]
  <2>1. \A i \in m .. n : s[i] \in S
    BY <1>0
  <2>2. m \in Int /\ n \in Int
    OBVIOUS
  <2>. QED
    BY <2>1, <2>2, SubSeqProperties
<1>2. DOMAIN SubSeq(s, m, n) = 1 .. (IF m <= n THEN n - m + 1 ELSE 0)
  BY <1>1
<1>3. ASSUME NEW i \in DOMAIN SubSeq(s, m, n) PROVE SubSeq(s, m, n)[i] \in Elems(s)
  <2>1. i \in 1 .. n - m + 1 /\ m + i - 1 \in DOMAIN s
    BY <1>0, <1>2
  <2>. QED
    BY <1>1, <2>1 DEF Elems
<1>. QED
  BY <1>1, <1>3 DEF Elems

LEMMA RemoveElems ==
  ASSUME NEW S, NEW s \in Seq(S), NEW i \in DOMAIN s
  PROVE  RemoveAt(s, i) \in Seq(S) /\ Elems(RemoveAt(s, i)) \subseteq Elems(s)
<1>1. Len(s) \in Nat /\ i \in 1 .. Len(s)
  OBVIOUS
<1>2. i - 1 \in Nat /\ i - 1 <= Len(s) /\ i + 1 \in Nat \ {0}
  BY <1>1
<1>. DEFINE a == SubSeq(s, 1, i - 1)
            b == SubSeq(s, i + 1, Len(s))
<1>3. a \in Seq(S) /\ Elems(a) \subseteq Elems(s)
  BY <1>1, <1>2, PartElems
<1>4. b \in Seq(S) /\ Elems(b) \subseteq Elems(s)
  BY <1>1, <1>2, PartElems
<1>5. RemoveAt(s, i) = a \o b
  BY DEF RemoveAt
<1>. HIDE DEF a, b
<1>6. a \o b \in Seq(S) /\ Elems(a \o b) \subseteq Elems(a) \cup Elems(b)
  BY <1>3, <1>4, ConcatElems
<1>. QED
  BY <1>3, <1>4, <1>5, <1>6

-----------------------------------------------------------------------------
(* What a step may do to the numbers, and to what is under way. *)

\* A number that is given keeps its mail, or loses it, or gets one that is counted as reused.
Steady ==
  /\ reused \subseteq reused'
  /\ \A r \in Box :
       /\ used[r] \subseteq used'[r] /\ got[r] \subseteq got'[r] /\ dropped[r] \subseteq dropped'[r]
       /\ \A id \in used[r] : id \in DOMAIN box'[r] =>
            \/ id \in DOMAIN box[r] /\ box'[r][id] = box[r][id]
            \/ box'[r][id] \in reused'

LEMMA HonestStays ==
  ASSUME Steady, NEW r \in Box, NEW x, Honest(r, x)
  PROVE  Honest(r, x)'
  BY DEF Steady, Honest

LEMMA SafeStays ==
  ASSUME Steady, NEW r \in Box, NEW id, Safe(r, id)
  PROVE  Safe(r, id)'
  BY DEF Steady, Safe

\* What is new under way is right; then all of it stays so.
LEMMA FlightsStay ==
  ASSUME Flights, Steady,
         \A r \in Box : \A items \in Elems(down'[r]) :
           items \in Elems(down[r]) \/ \A x \in items : Honest(r, x)',
         \A r \in Box : \A f \in Frames(r)' :
           f \in Frames(r) \/ \A id \in f.ids : Safe(r, id)'
  PROVE  Flights'
<1>1. ASSUME NEW r \in Box, NEW items \in Elems(down'[r]), NEW x \in items
      PROVE  Honest(r, x)'
  BY <1>1, HonestStays DEF Flights
<1>2. ASSUME NEW r \in Box, NEW f \in Frames(r)', NEW id \in f.ids
      PROVE  Safe(r, id)'
  BY <1>2, SafeStays DEF Flights
<1>. QED
  BY <1>1, <1>2 DEF Flights

\* Deliver puts items down, and takes `waiting` for what is up.
LEMMA DeliverFlights ==
  ASSUME Types, NEW r \in Box, NEW items \in Items, NEW waiting \in Seq(Frame),
         Elems(waiting) \subseteq Elems(up[r]), Deliver(r, items, waiting)
  PROVE  /\ down' \in [Box -> Seq(Items)]
         /\ up' \in [Box -> Seq(Frame)] /\ late' \in [Box -> Seq(Frame)]
         /\ \A q \in Box : \A is \in Elems(down'[q]) : is \in Elems(down[q]) \/ (is = items /\ q = r)
         /\ \A q \in Box : Frames(q)' \subseteq Frames(q)
<1>0. /\ down \in [Box -> Seq(Items)]
      /\ up \in [Box -> Seq(Frame)] /\ late \in [Box -> Seq(Frame)]
  BY DEF Types
<1>1. CASE /\ down' = [down EXCEPT ![r] = Append(@, items)]
           /\ up' = [up EXCEPT ![r] = waiting] /\ late' = late
  <2>1. Append(down[r], items) \in Seq(Items)
        /\ Elems(Append(down[r], items)) \subseteq Elems(down[r]) \cup {items}
    BY <1>0, AppendElems
  <2>2. down' \in [Box -> Seq(Items)] /\ up' \in [Box -> Seq(Frame)] /\ late' \in [Box -> Seq(Frame)]
    BY <1>0, <1>1, <2>1
  <2>3. ASSUME NEW q \in Box PROVE Frames(q)' \subseteq Frames(q)
    <3>1. CASE q = r
      <4>1. up'[q] = waiting /\ late'[q] = late[q]
        BY <1>0, <1>1, <3>1
      <4>. QED
        BY <3>1, <4>1 DEF Frames
    <3>2. CASE q # r
      BY <1>0, <1>1, <3>2 DEF Frames
    <3>. QED
      BY <3>1, <3>2
  <2>4. ASSUME NEW q \in Box, NEW is \in Elems(down'[q])
        PROVE  is \in Elems(down[q]) \/ (is = items /\ q = r)
    BY <1>0, <1>1, <2>1, <2>4
  <2>. QED
    BY <2>2, <2>3, <2>4
<1>2. CASE /\ down' = [down EXCEPT ![r] = <<>>] /\ up' = [up EXCEPT ![r] = <<>>]
           /\ late' = [late EXCEPT ![r] = @ \o waiting]
  <2>1. late[r] \o waiting \in Seq(Frame)
        /\ Elems(late[r] \o waiting) \subseteq Elems(late[r]) \cup Elems(waiting)
    BY <1>0, ConcatElems
  <2>2. down' \in [Box -> Seq(Items)] /\ up' \in [Box -> Seq(Frame)] /\ late' \in [Box -> Seq(Frame)]
    BY <1>0, <1>2, <2>1
  <2>3. ASSUME NEW q \in Box PROVE Frames(q)' \subseteq Frames(q)
    <3>1. CASE q = r
      <4>1. up'[q] = <<>> /\ late'[q] = late[r] \o waiting
        BY <1>0, <1>2, <3>1
      <4>2. Elems(<<>>) = {}
        BY DEF Elems
      <4>. QED
        BY <2>1, <3>1, <4>1, <4>2 DEF Frames
    <3>2. CASE q # r
      BY <1>0, <1>2, <3>2 DEF Frames
    <3>. QED
      BY <3>1, <3>2
  <2>4. ASSUME NEW q \in Box, NEW is \in Elems(down'[q])
        PROVE  is \in Elems(down[q])
    <3>1. q # r
      BY <1>0, <1>2, <2>4 DEF Elems
    <3>. QED
      BY <1>0, <1>2, <2>4, <3>1
  <2>. QED
    BY <2>2, <2>3, <2>4
<1>3. CASE UNCHANGED wires
  BY <1>0, <1>3 DEF wires, Frames
<1>. QED
  BY <1>1, <1>2, <1>3 DEF Deliver

-----------------------------------------------------------------------------
(* The steps. *)

\* A box that only loses mails its recipient dealt with, or whose number was reused, loses none.
LEMMA KeptStays ==
  ASSUME KeptUntilHanded, Steady, pushed' = pushed,
         \A r \in Box : \A id \in DOMAIN box[r] :
           \/ id \in DOMAIN box'[r] /\ box'[r][id] = box[r][id]
           \/ box[r][id] \in got[r] \cup dropped[r] \cup reused
  PROVE  KeptUntilHanded'
<1>. SUFFICES ASSUME NEW m \in Mail, pushed[m] = "stored"
              PROVE  (m \in Stored(To[m]) \/ Dealt(m) \/ m \in reused)'
  BY DEF KeptUntilHanded, Dealt
<1>1. To[m] \in Box
  BY MailboxAssumption
<1>2. /\ got[To[m]] \subseteq got'[To[m]] /\ dropped[To[m]] \subseteq dropped'[To[m]]
      /\ reused \subseteq reused'
  BY <1>1 DEF Steady
<1>3. CASE m \in got[To[m]] \cup dropped[To[m]] \cup reused
  BY <1>2, <1>3 DEF Dealt
<1>4. CASE m \in Stored(To[m])
  <2>1. PICK id \in DOMAIN box[To[m]] : box[To[m]][id] = m
    BY <1>4 DEF Stored
  <2>2. CASE id \in DOMAIN box'[To[m]] /\ box'[To[m]][id] = m
    BY <2>2 DEF Stored
  <2>3. CASE m \in got[To[m]] \cup dropped[To[m]] \cup reused
    BY <1>2, <2>3 DEF Dealt
  <2>. QED
    BY <1>1, <2>1, <2>2, <2>3
<1>. QED
  BY <1>3, <1>4 DEF KeptUntilHanded, Dealt

\* A step that changes neither boxes nor mails only has to keep what is under way right.
LEMMA QuietInv ==
  ASSUME Inv, UNCHANGED <<box, seqNo, pushed, reused, used>>,
         \A r \in Box : got[r] \subseteq got'[r] /\ dropped[r] \subseteq dropped'[r],
         got' \in [Box -> SUBSET Mail] /\ dropped' \in [Box -> SUBSET Unsure],
         down' \in [Box -> Seq(Items)], up' \in [Box -> Seq(Frame)], late' \in [Box -> Seq(Frame)],
         \A r \in Box : \A items \in Elems(down'[r]) :
           items \in Elems(down[r]) \/ \A x \in items : Honest(r, x)',
         \A r \in Box : \A f \in Frames(r)' :
           f \in Frames(r) \/ \A id \in f.ids : Safe(r, id)'
  PROVE  Inv'
<1>1. Steady
  BY DEF Steady
<1>2. Types'
  BY DEF Inv, Types
<1>3. Numbers'
  BY DEF Inv, Numbers
<1>4. Flights'
  BY <1>1, FlightsStay DEF Inv
<1>5. KeptUntilHanded'
  BY <1>1, KeptStays DEF Inv
<1>. QED
  BY <1>2, <1>3, <1>4, <1>5 DEF Inv

LEMMA PushInv ==
  ASSUME Inv, NEW m \in Mail, Push(m)
  PROVE  Inv'
<1>. DEFINE r == To[m]
            id == NextSequence(r)
<1>1. r \in Box
  BY MailboxAssumption
<1>2. /\ seqNo' = [seqNo EXCEPT ![r] = id]
      /\ box' = [box EXCEPT ![r] = [i \in DOMAIN @ \cup {id} |-> IF i = id THEN m ELSE @[i]]]
      /\ pushed' = [pushed EXCEPT ![m] = "stored"]
      /\ reused' = IF id \in used[r] THEN reused \cup {m} ELSE reused
      /\ used' = [used EXCEPT ![r] = @ \cup {id}]
      /\ Deliver(r, {<<id, m>>}, up[r])
      /\ got' = got /\ dropped' = dropped
  BY DEF Push, fate
<1>3. /\ Types /\ Numbers /\ Flights /\ KeptUntilHanded
      /\ DOMAIN box = Box /\ seqNo \in [Box -> Nat] /\ used \in [Box -> SUBSET Nat]
      /\ up \in [Box -> Seq(Frame)] /\ pushed \in [Mail -> {"new", "stored", "refused"}]
  BY DEF Inv, Types
<1>4. id = seqNo[r] + 1 /\ id \in Nat /\ id > 0 /\ id \notin DOMAIN box[r]
  BY <1>1, <1>3 DEF NextSequence, Numbers
<1>. HIDE DEF id, r
<1>5. /\ DOMAIN box'[r] = DOMAIN box[r] \cup {id} /\ box'[r][id] = m
      /\ \A i \in DOMAIN box[r] : box'[r][i] = box[r][i]
      /\ \A q \in Box : q # r => box'[q] = box[q] /\ used'[q] = used[q] /\ seqNo'[q] = seqNo[q]
      /\ used'[r] = used[r] \cup {id} /\ seqNo'[r] = id
      /\ DOMAIN box' = Box
  BY <1>1, <1>2, <1>3, <1>4
<1>6. id \in used[r] => m \in reused'
  BY <1>2
<1>7. Steady
  <2>1. reused \subseteq reused'
    BY <1>2
  <2>2. ASSUME NEW q \in Box
        PROVE  /\ used[q] \subseteq used'[q] /\ got[q] \subseteq got'[q] /\ dropped[q] \subseteq dropped'[q]
               /\ \A i \in used[q] : i \in DOMAIN box'[q] =>
                    \/ i \in DOMAIN box[q] /\ box'[q][i] = box[q][i]
                    \/ box'[q][i] \in reused'
    <3>1. CASE q = r
      BY <1>2, <1>5, <1>6, <3>1
    <3>2. CASE q # r
      BY <1>2, <1>5, <3>2
    <3>. QED
      BY <3>1, <3>2
  <2>. QED
    BY <2>1, <2>2 DEF Steady
<1>8. Numbers'
  <2>1. ASSUME NEW q \in Box, NEW i \in DOMAIN box'[q]
        PROVE  i \in 1 .. seqNo'[q] /\ i \in used'[q] /\ box'[q][i] \in Mail
    <3>1. CASE q = r /\ i = id
      BY <1>4, <1>5, <3>1
    <3>2. CASE q = r /\ i # id
      <4>1. i \in DOMAIN box[r]
        BY <1>5, <2>1, <3>2
      <4>2. i \in 1 .. seqNo[r] /\ i \in used[r] /\ box[r][i] \in Mail
        BY <1>1, <1>3, <4>1 DEF Numbers
      <4>. QED
        BY <1>1, <1>3, <1>4, <1>5, <3>2, <4>1, <4>2
    <3>3. CASE q # r
      BY <1>3, <1>5, <2>1, <3>3 DEF Numbers
    <3>. QED
      BY <3>1, <3>2, <3>3
  <2>. QED
    BY <2>1 DEF Numbers
<1>9. {<<id, m>>} \in Items
  BY <1>4 DEF Items
<1>10. /\ down' \in [Box -> Seq(Items)]
       /\ up' \in [Box -> Seq(Frame)] /\ late' \in [Box -> Seq(Frame)]
       /\ \A q \in Box : \A is \in Elems(down'[q]) : is \in Elems(down[q]) \/ (is = {<<id, m>>} /\ q = r)
       /\ \A q \in Box : Frames(q)' \subseteq Frames(q)
  BY <1>1, <1>2, <1>3, <1>9, DeliverFlights
<1>11. Flights'
  <2>1. \A x \in {<<id, m>>} : Honest(r, x)'
    BY <1>1, <1>5 DEF Honest
  <2>. QED
    BY <1>3, <1>7, <1>10, <2>1, FlightsStay
<1>12. Types'
  <2>1. seqNo' \in [Box -> Nat] /\ used' \in [Box -> SUBSET Nat]
    BY <1>1, <1>2, <1>3, <1>4
  <2>2. pushed' \in [Mail -> {"new", "stored", "refused"}]
    BY <1>2, <1>3
  <2>3. got' \in [Box -> SUBSET Mail] /\ dropped' \in [Box -> SUBSET Unsure]
    BY <1>2, <1>3 DEF Types
  <2>. QED
    BY <1>5, <1>10, <2>1, <2>2, <2>3 DEF Types
<1>13. KeptUntilHanded'
  <2>. SUFFICES ASSUME NEW n \in Mail, pushed'[n] = "stored"
                PROVE  (n \in Stored(To[n]) \/ Dealt(n) \/ n \in reused)'
    BY DEF KeptUntilHanded, Dealt
  <2>0. To[n] \in Box
    BY MailboxAssumption
  <2>1. CASE n = m
    <3>1. n \in {box'[r][i] : i \in DOMAIN box'[r]}
      BY <1>5, <2>1
    <3>. QED
      BY <2>1, <3>1 DEF Stored, r
  <2>2. CASE n # m
    <3>1. pushed[n] = "stored"
      BY <1>2, <1>3, <2>2
    <3>2. n \in Stored(To[n]) \/ Dealt(n) \/ n \in reused
      BY <1>3, <3>1 DEF KeptUntilHanded
    <3>3. CASE n \in Stored(To[n])
      <4>1. PICK i \in DOMAIN box[To[n]] : box[To[n]][i] = n
        BY <3>3 DEF Stored
      <4>2. i \in DOMAIN box'[To[n]] /\ box'[To[n]][i] = n
        BY <1>5, <2>0, <4>1
      <4>. QED
        BY <4>2 DEF Stored
    <3>4. CASE Dealt(n) \/ n \in reused
      BY <1>2, <3>4 DEF Dealt
    <3>. QED
      BY <3>2, <3>3, <3>4
  <2>. QED
    BY <2>1, <2>2
<1>. QED
  BY <1>8, <1>11, <1>12, <1>13 DEF Inv

LEMMA RefuseInv ==
  ASSUME Inv, NEW m \in Mail, Refuse(m)
  PROVE  Inv'
<1>1. /\ pushed' = [pushed EXCEPT ![m] = "refused"]
      /\ UNCHANGED <<box, seqNo, down, up, late, got, dropped, reused, used>>
  BY DEF Refuse, store, wires, fate
<1>2. /\ Types /\ Numbers /\ Flights /\ KeptUntilHanded
      /\ pushed \in [Mail -> {"new", "stored", "refused"}]
  BY DEF Inv, Types
<1>3. Types'
  <2>1. pushed' \in [Mail -> {"new", "stored", "refused"}]
    BY <1>1, <1>2
  <2>. QED
    BY <1>1, <1>2, <2>1 DEF Types
<1>4. Numbers'
  BY <1>1, <1>2 DEF Numbers
<1>5. Flights'
  BY <1>1, <1>2 DEF Flights, Frames, Honest, Safe
<1>6. KeptUntilHanded'
  <2>1. ASSUME NEW n \in Mail, pushed'[n] = "stored" PROVE pushed[n] = "stored"
    BY <1>1, <1>2, <2>1
  <2>. QED
    BY <1>1, <1>2, <2>1 DEF KeptUntilHanded, Stored, Dealt
<1>. QED
  BY <1>3, <1>4, <1>5, <1>6 DEF Inv

LEMMA HandleFetchInv ==
  ASSUME Inv, NEW r \in Box, HandleFetch(r)
  PROVE  Inv'
<1>. DEFINE page == {<<id, box[r][id]>> : id \in FirstPage(r)}
<1>1. /\ up[r] # <<>> /\ Deliver(r, page, Tail(up[r]))
      /\ UNCHANGED <<box, seqNo, pushed, got, dropped, reused, used>>
  BY DEF HandleFetch, store, fate
<1>2. Types /\ Numbers /\ up \in [Box -> Seq(Frame)] /\ seqNo \in [Box -> Nat]
      /\ got \in [Box -> SUBSET Mail] /\ dropped \in [Box -> SUBSET Unsure]
  BY DEF Inv, Types
<1>3. \A id \in FirstPage(r) : /\ id \in DOMAIN box[r] /\ id \in used[r]
                               /\ id \in Nat /\ box[r][id] \in Mail
  BY <1>2 DEF FirstPage, Numbers
<1>4. page \in Items
  BY <1>3 DEF Items
<1>5. \A x \in page : Honest(r, x)'
  BY <1>1, <1>3 DEF Honest
<1>6. Tail(up[r]) \in Seq(Frame) /\ Elems(Tail(up[r])) \subseteq Elems(up[r])
  BY <1>1, <1>2, TailElems
<1>. HIDE DEF page
<1>7. /\ down' \in [Box -> Seq(Items)]
      /\ up' \in [Box -> Seq(Frame)] /\ late' \in [Box -> Seq(Frame)]
      /\ \A q \in Box : \A is \in Elems(down'[q]) : is \in Elems(down[q]) \/ (is = page /\ q = r)
      /\ \A q \in Box : Frames(q)' \subseteq Frames(q)
  BY <1>1, <1>2, <1>4, <1>6, DeliverFlights
<1>. QED
  BY <1>1, <1>2, <1>5, <1>7, QuietInv

\* Acknowledged numbers whose mails the recipient dealt with: the box may lose them.
LEMMA AcknowledgeInv ==
  ASSUME Inv, NEW r \in Box, NEW ids \in SUBSET Nat, \A id \in ids : Safe(r, id),
         Acknowledge(r, ids), UNCHANGED <<pushed, down, got, dropped, reused, used>>,
         up' \in [Box -> Seq(Frame)], late' \in [Box -> Seq(Frame)],
         \A q \in Box : Frames(q)' \subseteq Frames(q)
  PROVE  Inv'
<1>0. /\ Types /\ Numbers /\ Flights /\ KeptUntilHanded
      /\ DOMAIN box = Box /\ seqNo \in [Box -> Nat]
  BY DEF Inv, Types
<1>. DEFINE left == Left(r, ids)
<1>1. PICK reclaimed \in Reclaims(r, left) :
        /\ seqNo' = [seqNo EXCEPT ![r] = IF reclaimed THEN 0 ELSE @]
        /\ box' = [box EXCEPT ![r] = IF reclaimed THEN <<>> ELSE left]
  BY DEF Acknowledge
<1>2. /\ DOMAIN left = DOMAIN box[r] \ ids
      /\ \A i \in DOMAIN left : left[i] = box[r][i]
  BY DEF Left
<1>3. reclaimed \in BOOLEAN /\ (reclaimed => left = <<>>)
  BY <1>1 DEF Reclaims
<1>. HIDE DEF left
<1>4. box'[r] = left
  BY <1>0, <1>1, <1>3
<1>5. DOMAIN box' = Box /\ \A q \in Box : q # r => box'[q] = box[q] /\ seqNo'[q] = seqNo[q]
  BY <1>0, <1>1
<1>6. seqNo' \in [Box -> Nat]
  BY <1>0, <1>1
<1>7. seqNo'[r] = seqNo[r] \/ DOMAIN left = {}
  <2>1. CASE reclaimed
    BY <1>3, <2>1
  <2>2. CASE ~reclaimed
    BY <1>0, <1>1, <2>2
  <2>. QED
    BY <2>1, <2>2
<1>8. Steady
  BY <1>2, <1>4, <1>5 DEF Steady
<1>9. Types'
  BY <1>0, <1>5, <1>6 DEF Types
<1>10. Numbers'
  <2>1. ASSUME NEW q \in Box, NEW i \in DOMAIN box'[q]
        PROVE  i \in 1 .. seqNo'[q] /\ i \in used'[q] /\ box'[q][i] \in Mail
    BY <1>0, <1>2, <1>4, <1>5, <1>7, <2>1 DEF Numbers
  <2>. QED
    BY <2>1 DEF Numbers
<1>11. Flights'
  BY <1>0, <1>8, FlightsStay
<1>12. KeptUntilHanded'
  <2>1. ASSUME NEW q \in Box, NEW i \in DOMAIN box[q]
        PROVE  \/ i \in DOMAIN box'[q] /\ box'[q][i] = box[q][i]
               \/ box[q][i] \in got[q] \cup dropped[q] \cup reused
    <3>1. CASE q = r /\ i \in ids
      BY <2>1, <3>1 DEF Safe
    <3>2. CASE q = r /\ i \notin ids
      BY <1>2, <1>4, <2>1, <3>2
    <3>3. CASE q # r
      BY <1>5, <2>1, <3>3
    <3>. QED
      BY <3>1, <3>2, <3>3
  <2>. QED
    BY <1>0, <1>8, <2>1, KeptStays
<1>. QED
  BY <1>9, <1>10, <1>11, <1>12 DEF Inv

LEMMA FrameIds ==
  ASSUME NEW f \in Frame
  PROVE  f.ids \in SUBSET Nat
BY DEF Frame

LEMMA HandleAckInv ==
  ASSUME Inv, NEW r \in Box, HandleAck(r)
  PROVE  Inv'
<1>1. /\ up[r] # <<>> /\ Acknowledge(r, Head(up[r]).ids)
      /\ up' = [up EXCEPT ![r] = Tail(@)]
      /\ UNCHANGED <<pushed, down, late, got, dropped, reused, used>>
  BY DEF HandleAck, fate
<1>2. Types /\ Flights /\ up \in [Box -> Seq(Frame)] /\ late \in [Box -> Seq(Frame)]
  BY DEF Inv, Types
<1>3. /\ Tail(up[r]) \in Seq(Frame) /\ Elems(Tail(up[r])) \subseteq Elems(up[r])
      /\ Head(up[r]) \in Frame /\ Head(up[r]) \in Elems(up[r])
  BY <1>1, <1>2, TailElems
<1>4. Head(up[r]).ids \in SUBSET Nat
  BY <1>3, FrameIds
<1>5. \A id \in Head(up[r]).ids : Safe(r, id)
  BY <1>2, <1>3 DEF Flights, Frames
<1>6. up' \in [Box -> Seq(Frame)] /\ late' \in [Box -> Seq(Frame)]
  BY <1>1, <1>2, <1>3
<1>7. ASSUME NEW q \in Box PROVE Frames(q)' \subseteq Frames(q)
  <2>1. CASE q = r
    <3>1. up'[q] = Tail(up[r])
      BY <1>1, <1>2, <2>1
    <3>. QED
      BY <1>1, <1>3, <2>1, <3>1 DEF Frames
  <2>2. CASE q # r
    BY <1>1, <1>2, <2>2 DEF Frames
  <2>. QED
    BY <2>1, <2>2
<1>. QED
  BY <1>1, <1>4, <1>5, <1>6, <1>7, AcknowledgeInv

LEMMA HandleLateInv ==
  ASSUME Inv, NEW r \in Box, HandleLate(r)
  PROVE  Inv'
<1>1. /\ late[r] # <<>> /\ late' = [late EXCEPT ![r] = Tail(@)]
      /\ UNCHANGED <<pushed, down, up, got, dropped, reused, used>>
  BY DEF HandleLate, fate
<1>2. Types /\ Flights /\ up \in [Box -> Seq(Frame)] /\ late \in [Box -> Seq(Frame)]
      /\ down \in [Box -> Seq(Items)]
      /\ got \in [Box -> SUBSET Mail] /\ dropped \in [Box -> SUBSET Unsure]
  BY DEF Inv, Types
<1>3. /\ Tail(late[r]) \in Seq(Frame) /\ Elems(Tail(late[r])) \subseteq Elems(late[r])
      /\ Head(late[r]) \in Frame /\ Head(late[r]) \in Elems(late[r])
  BY <1>1, <1>2, TailElems
<1>4. Head(late[r]).ids \in SUBSET Nat
  BY <1>3, FrameIds
<1>5. \A id \in Head(late[r]).ids : Safe(r, id)
  BY <1>2, <1>3 DEF Flights, Frames
<1>6. up' \in [Box -> Seq(Frame)] /\ late' \in [Box -> Seq(Frame)]
  BY <1>1, <1>2, <1>3
<1>7. ASSUME NEW q \in Box PROVE Frames(q)' \subseteq Frames(q)
  <2>1. CASE q = r
    <3>1. late'[q] = Tail(late[r])
      BY <1>1, <1>2, <2>1
    <3>. QED
      BY <1>1, <1>3, <2>1, <3>1 DEF Frames
  <2>2. CASE q # r
    BY <1>1, <1>2, <2>2 DEF Frames
  <2>. QED
    BY <2>1, <2>2
<1>8. CASE Head(late[r]).type = "ack"
  <2>1. Acknowledge(r, Head(late[r]).ids)
    BY <1>8 DEF HandleLate
  <2>. QED
    BY <1>1, <1>4, <1>5, <1>6, <1>7, <2>1, AcknowledgeInv
<1>9. CASE Head(late[r]).type # "ack"
  <2>1. UNCHANGED <<box, seqNo>>
    BY <1>9 DEF HandleLate, store
  <2>. QED
    BY <1>1, <1>2, <1>6, <1>7, <2>1, QuietInv
<1>. QED
  BY <1>8, <1>9

LEMMA FetchFrame == Fetch \in Frame /\ Fetch.ids = {}
BY DEF Fetch, Frame

LEMMA ConnectInv ==
  ASSUME Inv, NEW r \in Box, Connect(r)
  PROVE  Inv'
<1>1. /\ up' = [up EXCEPT ![r] = <<Fetch>>]
      /\ UNCHANGED <<box, seqNo, pushed, down, late, got, dropped, reused, used>>
  BY DEF Connect, store, fate
<1>2. up \in [Box -> Seq(Frame)] /\ late \in [Box -> Seq(Frame)]
      /\ down \in [Box -> Seq(Items)]
      /\ got \in [Box -> SUBSET Mail] /\ dropped \in [Box -> SUBSET Unsure]
  BY DEF Inv, Types
<1>3. <<Fetch>> \in Seq(Frame) /\ Elems(<<Fetch>>) = {Fetch}
  BY FetchFrame DEF Elems
<1>4. up' \in [Box -> Seq(Frame)]
  BY <1>1, <1>2, <1>3
<1>5. ASSUME NEW q \in Box, NEW f \in Frames(q)'
      PROVE  f \in Frames(q) \/ \A id \in f.ids : Safe(q, id)'
  <2>1. CASE q = r
    <3>1. up'[q] = <<Fetch>>
      BY <1>1, <1>2, <2>1
    <3>2. f \in Frames(q) \/ f = Fetch
      BY <1>1, <1>3, <1>5, <3>1 DEF Frames
    <3>. QED
      BY <3>2, FetchFrame
  <2>2. CASE q # r
    BY <1>1, <1>2, <1>5, <2>2 DEF Frames
  <2>. QED
    BY <2>1, <2>2
<1>. QED
  BY <1>1, <1>2, <1>4, <1>5, QuietInv

LEMMA PollInv ==
  ASSUME Inv, NEW r \in Box, Poll(r)
  PROVE  Inv'
<1>1. /\ up' = [up EXCEPT ![r] = Append(@, Fetch)]
      /\ UNCHANGED <<box, seqNo, pushed, down, late, got, dropped, reused, used>>
  BY DEF Poll, store, fate
<1>2. up \in [Box -> Seq(Frame)] /\ late \in [Box -> Seq(Frame)]
      /\ down \in [Box -> Seq(Items)]
      /\ got \in [Box -> SUBSET Mail] /\ dropped \in [Box -> SUBSET Unsure]
  BY DEF Inv, Types
<1>3. /\ Append(up[r], Fetch) \in Seq(Frame)
      /\ Elems(Append(up[r], Fetch)) \subseteq Elems(up[r]) \cup {Fetch}
  BY <1>2, FetchFrame, AppendElems
<1>4. up' \in [Box -> Seq(Frame)]
  BY <1>1, <1>2, <1>3
<1>5. ASSUME NEW q \in Box, NEW f \in Frames(q)'
      PROVE  f \in Frames(q) \/ \A id \in f.ids : Safe(q, id)'
  <2>1. CASE q = r
    <3>1. up'[q] = Append(up[r], Fetch)
      BY <1>1, <1>2, <2>1
    <3>2. f \in Frames(q) \/ f = Fetch
      BY <1>1, <1>3, <1>5, <2>1, <3>1 DEF Frames
    <3>. QED
      BY <3>2, FetchFrame
  <2>2. CASE q # r
    BY <1>1, <1>2, <1>5, <2>2 DEF Frames
  <2>. QED
    BY <2>1, <2>2
<1>. QED
  BY <1>1, <1>2, <1>4, <1>5, QuietInv

LEMMA TakeFrameInv ==
  ASSUME Inv, NEW r \in Box, TakeFrame(r)
  PROVE  Inv'
<1>0. /\ up \in [Box -> Seq(Frame)] /\ late \in [Box -> Seq(Frame)]
      /\ down \in [Box -> Seq(Items)]
      /\ got \in [Box -> SUBSET Mail] /\ dropped \in [Box -> SUBSET Unsure] /\ Flights
  BY DEF Inv, Types
<1>1. PICK i \in DOMAIN down[r], missing \in SUBSET Unsure :
        LET items == down[r][i]
            ids   == Acked(r, items)
            acked == {it[2] : it \in {x \in items : x[1] \in ids}}
        IN /\ down' = [down EXCEPT ![r] = RemoveAt(@, i)]
           /\ got' = [got EXCEPT ![r] = @ \cup ({it[2] : it \in items} \ missing)]
           /\ dropped' = [dropped EXCEPT ![r] = @ \cup (acked \cap missing)]
           /\ up' = IF ids = {} THEN up ELSE [up EXCEPT ![r] = Append(@, Ack(ids))]
           /\ UNCHANGED <<store, pushed, conn, late, reused, used, faults>>
  BY DEF TakeFrame
<1>. DEFINE items == down[r][i]
            ids   == Acked(r, items)
            acked == {it[2] : it \in {x \in items : x[1] \in ids}}
<1>2. items \in Items /\ items \in Elems(down[r])
  <2>1. down[r] \in Seq(Items)
    BY <1>0
  <2>. QED
    BY <2>1 DEF Elems
<1>3. UNCHANGED <<box, seqNo, pushed, late, reused, used>>
  BY <1>1 DEF store
<1>4. /\ got' = [got EXCEPT ![r] = @ \cup ({it[2] : it \in items} \ missing)]
      /\ dropped' = [dropped EXCEPT ![r] = @ \cup (acked \cap missing)]
  BY <1>1
<1>5. down' = [down EXCEPT ![r] = RemoveAt(@, i)]
  BY <1>1
<1>6. up' = up \/ up' = [up EXCEPT ![r] = Append(@, Ack(ids))]
  BY <1>1
<1>. HIDE DEF items
<1>7. /\ ids \in SUBSET Nat /\ {it[2] : it \in items} \subseteq Mail
      /\ acked = {it[2] : it \in items}
  BY <1>2 DEF Acked, Items
<1>. HIDE DEF acked
<1>8. /\ got' \in [Box -> SUBSET Mail] /\ dropped' \in [Box -> SUBSET Unsure]
      /\ \A q \in Box : got[q] \subseteq got'[q] /\ dropped[q] \subseteq dropped'[q]
  BY <1>0, <1>4, <1>7
<1>9. \A id \in ids : Safe(r, id)'
  <2>. SUFFICES ASSUME NEW it \in items PROVE Safe(r, it[1])'
    BY DEF Acked
  <2>1. Honest(r, it)
    BY <1>0, <1>2 DEF Flights
  <2>2. it[2] \in got'[r] \cup dropped'[r]
    BY <1>0, <1>4, <1>7
  <2>. QED
    BY <1>3, <2>1, <2>2 DEF Honest, Safe
<1>. HIDE DEF ids
<1>10. RemoveAt(down[r], i) \in Seq(Items) /\ Elems(RemoveAt(down[r], i)) \subseteq Elems(down[r])
  <2>1. down[r] \in Seq(Items)
    BY <1>0
  <2>. QED
    BY <2>1, RemoveElems
<1>11. down' \in [Box -> Seq(Items)]
  BY <1>0, <1>5, <1>10
<1>12. ASSUME NEW q \in Box, NEW is \in Elems(down'[q])
       PROVE  is \in Elems(down[q])
  <2>1. CASE q = r
    <3>1. down'[q] = RemoveAt(down[r], i)
      BY <1>0, <1>5, <2>1
    <3>. QED
      BY <1>10, <1>12, <2>1, <3>1
  <2>2. CASE q # r
    BY <1>0, <1>5, <1>12, <2>2
  <2>. QED
    BY <2>1, <2>2
<1>13. Ack(ids) \in Frame /\ Ack(ids).ids = ids
  BY <1>7 DEF Ack, Frame
<1>14. /\ Append(up[r], Ack(ids)) \in Seq(Frame)
       /\ Elems(Append(up[r], Ack(ids))) \subseteq Elems(up[r]) \cup {Ack(ids)}
  BY <1>0, <1>13, AppendElems
<1>15. up' \in [Box -> Seq(Frame)]
  BY <1>0, <1>6, <1>14
<1>16. ASSUME NEW q \in Box, NEW f \in Frames(q)'
       PROVE  f \in Frames(q) \/ \A id \in f.ids : Safe(q, id)'
  <2>1. CASE up'[q] = up[q]
    BY <1>3, <1>16, <2>1 DEF Frames
  <2>2. CASE up'[q] # up[q]
    <3>1. q = r /\ up'[q] = Append(up[r], Ack(ids))
      BY <1>0, <1>6, <2>2
    <3>2. f \in Frames(q) \/ f = Ack(ids)
      BY <1>3, <1>14, <1>16, <3>1 DEF Frames
    <3>. QED
      BY <1>9, <1>13, <3>1, <3>2
  <2>. QED
    BY <2>1, <2>2
<1>. QED
  BY <1>0, <1>3, <1>8, <1>11, <1>12, <1>15, <1>16, QuietInv

LEMMA BreakInv ==
  ASSUME Inv, NEW r \in Box, Break(r)
  PROVE  Inv'
<1>0. /\ up \in [Box -> Seq(Frame)] /\ late \in [Box -> Seq(Frame)]
      /\ down \in [Box -> Seq(Items)]
      /\ got \in [Box -> SUBSET Mail] /\ dropped \in [Box -> SUBSET Unsure]
  BY DEF Inv, Types
<1>1. /\ down' = [down EXCEPT ![r] = <<>>] /\ up' = [up EXCEPT ![r] = <<>>]
      /\ UNCHANGED <<box, seqNo, pushed, got, dropped, reused, used>>
  BY DEF Break, store, fate
<1>2. PICK n \in 0 .. Len(up[r]) : late' = [late EXCEPT ![r] = @ \o SubSeq(up[r], 1, n)]
  BY DEF Break
<1>. DEFINE sent == SubSeq(up[r], 1, n)
<1>3. sent \in Seq(Frame) /\ Elems(sent) \subseteq Elems(up[r])
  <2>1. up[r] \in Seq(Frame) /\ n \in Nat /\ n <= Len(up[r]) /\ 1 \in Nat \ {0}
    BY <1>0, <1>2
  <2>. QED
    BY <2>1, PartElems
<1>4. late' = [late EXCEPT ![r] = @ \o sent]
  BY <1>2
<1>. HIDE DEF sent
<1>5. late[r] \o sent \in Seq(Frame) /\ Elems(late[r] \o sent) \subseteq Elems(late[r]) \cup Elems(sent)
  BY <1>0, <1>3, ConcatElems
<1>6. /\ down' \in [Box -> Seq(Items)]
      /\ up' \in [Box -> Seq(Frame)] /\ late' \in [Box -> Seq(Frame)]
  BY <1>0, <1>1, <1>4, <1>5
<1>7. Elems(<<>>) = {}
  BY DEF Elems
<1>8. ASSUME NEW q \in Box PROVE Elems(down'[q]) \subseteq Elems(down[q]) /\ Frames(q)' \subseteq Frames(q)
  <2>1. CASE q = r
    <3>1. down'[q] = <<>> /\ up'[q] = <<>> /\ late'[q] = late[r] \o sent
      BY <1>0, <1>1, <1>4, <2>1
    <3>. QED
      BY <1>3, <1>5, <1>7, <2>1, <3>1 DEF Frames
  <2>2. CASE q # r
    BY <1>0, <1>1, <1>4, <2>2 DEF Frames
  <2>. QED
    BY <2>1, <2>2
<1>. QED
  BY <1>0, <1>1, <1>6, <1>8, QuietInv

LEMMA RestartInv ==
  ASSUME Inv, Restart
  PROVE  Inv'
<1>0. got \in [Box -> SUBSET Mail] /\ dropped \in [Box -> SUBSET Unsure]
  BY DEF Inv, Types
<1>1. /\ down' = [r \in Box |-> <<>>] /\ up' = [r \in Box |-> <<>>] /\ late' = [r \in Box |-> <<>>]
      /\ UNCHANGED <<box, seqNo, pushed, got, dropped, reused, used>>
  BY DEF Restart, fate
<1>2. /\ down' \in [Box -> Seq(Items)]
      /\ up' \in [Box -> Seq(Frame)] /\ late' \in [Box -> Seq(Frame)]
  BY <1>1
<1>3. Elems(<<>>) = {}
  BY DEF Elems
<1>4. ASSUME NEW q \in Box PROVE Elems(down'[q]) = {} /\ Frames(q)' = {}
  <2>1. down'[q] = <<>> /\ up'[q] = <<>> /\ late'[q] = <<>>
    BY <1>1
  <2>. QED
    BY <1>3, <2>1 DEF Frames
<1>. QED
  BY <1>0, <1>1, <1>2, <1>4, QuietInv

LEMMA StepInv == Inv /\ [Next]_vars => Inv'
<1>. SUFFICES ASSUME Inv, [Next]_vars PROVE Inv'
  OBVIOUS
<1>1. CASE \E m \in Mail : Push(m) \/ Refuse(m)
  BY <1>1, PushInv, RefuseInv
<1>2. CASE \E r \in Box : ServerStep(r)
  BY <1>2, HandleFetchInv, HandleAckInv, HandleLateInv DEF ServerStep
<1>3. CASE \E r \in Box : ClientStep(r)
  BY <1>3, ConnectInv, PollInv, TakeFrameInv DEF ClientStep
<1>4. CASE \E r \in Box : Break(r)
  BY <1>4, BreakInv
<1>5. CASE Restart
  BY <1>5, RestartInv
<1>6. CASE UNCHANGED vars
  <2>1. UNCHANGED <<box, seqNo, pushed, down, up, late, got, dropped, reused, used>>
    BY <1>6 DEF vars, store, wires, fate
  <2>2. /\ got \in [Box -> SUBSET Mail] /\ dropped \in [Box -> SUBSET Unsure] /\ down \in [Box -> Seq(Items)]
        /\ up \in [Box -> Seq(Frame)] /\ late \in [Box -> Seq(Frame)]
    BY DEF Inv, Types
  <2>3. \A q \in Box : Frames(q)' = Frames(q)
    BY <2>1 DEF Frames
  <2>. QED
    BY <2>1, <2>2, <2>3, QuietInv
<1>. QED
  BY <1>1, <1>2, <1>3, <1>4, <1>5, <1>6 DEF Next

\* A stored mail leaves its box only after its recipient has handed it over, or got it when
\* it had no key for it, however often pages are fetched again, connections break,
\* acknowledgements are late and the server restarts, as long as its number was never used
\* before.
THEOREM NothingStoredIsLost == Spec => []KeptUntilHanded
<1>1. Inv => KeptUntilHanded
  BY DEF Inv
<1>. QED
  BY InitInv, StepInv, <1>1, PTL DEF Spec

-----------------------------------------------------------------------------
(* Finite sets, and sums over them.  An induction over finite sets is one  *)
(* over the sets of a set Q: of those not in Q, one would be minimal.      *)

LEMMA AllSmaller ==
  ASSUME NEW S, NEW Q,
         \A X \in FiniteSubsetsOf(S) : (\A Y \in SUBSET X : Y # X => Y \in Q) => X \in Q
  PROVE  FiniteSubsetsOf(S) \subseteq Q
<1>. DEFINE bad == FiniteSubsetsOf(S) \ Q
<1>1. ASSUME bad # {} PROVE FALSE
  <2>1. PICK X \in bad : \A Y \in bad : <<Y, X>> \notin StrictSubsetOrdering(S)
    <3>1. bad \subseteq FiniteSubsetsOf(S)
      OBVIOUS
    <3>. HIDE DEF bad
    <3>. QED
      BY <1>1, <3>1, WFMin, FS_StrictSubsetOrderingWellFounded
  <2>2. X \in SUBSET S /\ IsFiniteSet(X) /\ X \notin Q
    BY DEF FiniteSubsetsOf
  <2>3. ASSUME NEW Y \in SUBSET X, Y # X
        PROVE  Y \in Q
    <3>1. Y \in FiniteSubsetsOf(S)
      BY <2>2, FS_Subset DEF FiniteSubsetsOf
    <3>2. <<Y, X>> \in StrictSubsetOrdering(S)
      BY <2>2, <2>3 DEF StrictSubsetOrdering
    <3>. QED
      BY <2>1, <3>1, <3>2
  <2>. QED
    BY <2>2, <2>3
<1>. QED
  BY <1>1

LEMMA OneMore ==
  ASSUME NEW S, NEW Q, {} \in Q,
         \A X \in FiniteSubsetsOf(S), x \in S : X \in Q /\ x \notin X => X \cup {x} \in Q
  PROVE  FiniteSubsetsOf(S) \subseteq Q
<1>1. ASSUME NEW X \in FiniteSubsetsOf(S), \A Y \in SUBSET X : Y # X => Y \in Q
      PROVE  X \in Q
  <2>1. CASE X = {}
    BY <2>1
  <2>2. CASE X # {}
    <3>1. PICK x \in X : TRUE
      BY <2>2
    <3>2. X \ {x} \in Q /\ x \in S /\ x \notin X \ {x}
      BY <1>1, <3>1 DEF FiniteSubsetsOf
    <3>3. X \ {x} \in FiniteSubsetsOf(S)
      BY <1>1, FS_RemoveElement DEF FiniteSubsetsOf
    <3>4. X = (X \ {x}) \cup {x}
      BY <3>1
    <3>. QED
      BY <3>2, <3>3, <3>4
  <2>. QED
    BY <2>1, <2>2
<1>. QED
  BY <1>1, AllSmaller

SumOf(F, S) == MapThenSumSet(LAMBDA x : F[x], S)

\* The function that MapThenSumSet recurses with, and the element it takes first.
Some(s) == CHOOSE x \in s : TRUE
Sums(F, S, f) ==
  f = [s \in SUBSET S |-> IF s = {} THEN 0 ELSE F[Some(s)] + f[s \ {Some(s)}]]

LEMMA SumIs == \A F, S : SumOf(F, S) = (CHOOSE f : Sums(F, S, f))[S]
  BY DEF SumOf, MapThenSumSet, MapThenFoldSet, Sums, Some

LEMMA SomeIn == \A s : s # {} => Some(s) \in s
  BY DEF Some

LEMMA SumsAt ==
  ASSUME NEW F, NEW S, NEW f, Sums(F, S, f), NEW s \in SUBSET S
  PROVE  f[s] = IF s = {} THEN 0 ELSE F[Some(s)] + f[s \ {Some(s)}]
<1>. DEFINE g == [t \in SUBSET S |-> IF t = {} THEN 0 ELSE F[Some(t)] + f[t \ {Some(t)}]]
<1>1. f = g
  BY DEF Sums
<1>2. g[s] = IF s = {} THEN 0 ELSE F[Some(s)] + f[s \ {Some(s)}]
  OBVIOUS
<1>. QED
  BY <1>1, <1>2

LEMMA SumsAgree ==
  ASSUME NEW F, NEW S, NEW f, Sums(F, S, f), NEW T, NEW g, Sums(F, T, g), IsFiniteSet(S)
  PROVE  \A s \in SUBSET (S \cap T) : f[s] = g[s]
<1>. DEFINE Q == {s \in SUBSET S : s \subseteq T => f[s] = g[s]}
<1>1. ASSUME NEW X \in FiniteSubsetsOf(S), \A Y \in SUBSET X : Y # X => Y \in Q
      PROVE  X \in Q
  <2>1. X \in SUBSET S
    BY DEF FiniteSubsetsOf
  <2>2. ASSUME X \subseteq T
        PROVE  f[X] = g[X]
    <3>1. CASE X = {}
      BY <2>1, <2>2, <3>1, SumsAt
    <3>2. CASE X # {}
      <4>1. X \ {Some(X)} \in SUBSET X /\ X \ {Some(X)} # X
        BY <3>2, SomeIn
      <4>2. f[X \ {Some(X)}] = g[X \ {Some(X)}]
        BY <1>1, <2>2, <4>1
      <4>3. f[X] = F[Some(X)] + f[X \ {Some(X)}]
        BY <2>1, <3>2, SumsAt
      <4>4. g[X] = F[Some(X)] + g[X \ {Some(X)}]
        BY <2>2, <3>2, SumsAt
      <4>. QED
        BY <4>2, <4>3, <4>4
    <3>. QED
      BY <3>1, <3>2
  <2>. QED
    BY <2>1, <2>2
<1>2. FiniteSubsetsOf(S) \subseteq Q
  <2>. HIDE DEF Q
  <2>. QED
    BY <1>1, AllSmaller
<1>3. FiniteSubsetsOf(S) = SUBSET S
  BY FS_FiniteSubsetsOfFinite
<1>. QED
  BY <1>2, <1>3

LEMMA SumsExist ==
  ASSUME NEW F, NEW S, IsFiniteSet(S)
  PROVE  Sums(F, S, CHOOSE f : Sums(F, S, f))
<1>. DEFINE Q == {X \in SUBSET S : \E f : Sums(F, X, f)}
<1>1. ASSUME NEW X \in FiniteSubsetsOf(S), \A Y \in SUBSET X : Y # X => Y \in Q
      PROVE  X \in Q
  <2>. DEFINE g == [s \in SUBSET X |-> IF s = {} THEN 0 ELSE F[Some(s)] + SumOf(F, s \ {Some(s)})]
              h(Y) == CHOOSE f : Sums(F, Y, f)
  <2>1. \A Y \in SUBSET X : Y # X => Sums(F, Y, h(Y)) /\ IsFiniteSet(Y) /\ SumOf(F, Y) = h(Y)[Y]
    <3>1. \A Y \in SUBSET X : IsFiniteSet(Y)
      BY FS_Subset DEF FiniteSubsetsOf
    <3>. QED
      BY <1>1, <3>1, SumIs
  <2>. HIDE DEF h
  <2>2. ASSUME NEW Y \in SUBSET X, Y # X
        PROVE  g[Y] = SumOf(F, Y)
    <3>1. CASE Y = {}
      <4>1. h(Y)[Y] = 0
        BY <2>1, <2>2, <3>1, SumsAt
      <4>. QED
        BY <2>1, <2>2, <3>1, <4>1
    <3>2. CASE Y # {}
      <4>. DEFINE Z == Y \ {Some(Y)}
      <4>1. Z \in SUBSET Y /\ Z \in SUBSET X /\ Z # X
        BY <2>2, <3>2, SomeIn
      <4>2. h(Y)[Y] = F[Some(Y)] + h(Y)[Z]
        BY <2>1, <2>2, <3>2, SumsAt
      <4>3. h(Y)[Z] = h(Z)[Z]
        <5>1. Z \in SUBSET (Y \cap Z)
          BY <4>1
        <5>. HIDE DEF Z
        <5>. QED
          BY <2>1, <2>2, <4>1, <5>1, SumsAgree
      <4>4. g[Y] = F[Some(Y)] + SumOf(F, Z)
        BY <2>2, <3>2
      <4>. HIDE DEF g, Z
      <4>. QED
        BY <2>1, <2>2, <4>1, <4>2, <4>3, <4>4
    <3>. QED
      BY <3>1, <3>2
  <2>3. g = [s \in SUBSET X |-> IF s = {} THEN 0 ELSE F[Some(s)] + g[s \ {Some(s)}]]
    <3>1. ASSUME NEW s \in SUBSET X, s # {}
          PROVE  g[s \ {Some(s)}] = SumOf(F, s \ {Some(s)})
      <4>1. s \ {Some(s)} \in SUBSET X /\ s \ {Some(s)} # X
        BY <3>1, SomeIn
      <4>. QED
        BY <2>2, <4>1
    <3>2. g = [s \in SUBSET X |-> IF s = {} THEN 0 ELSE F[Some(s)] + SumOf(F, s \ {Some(s)})]
      OBVIOUS
    <3>. HIDE DEF g
    <3>. QED
      BY <3>1, <3>2
  <2>4. Sums(F, X, g)
    BY <2>3 DEF Sums
  <2>. HIDE DEF g
  <2>. QED
    BY <2>4 DEF FiniteSubsetsOf
<1>2. FiniteSubsetsOf(S) \subseteq Q
  <2>. HIDE DEF Q
  <2>. QED
    BY <1>1, AllSmaller
<1>3. S \in FiniteSubsetsOf(S)
  BY DEF FiniteSubsetsOf
<1>. QED
  BY <1>2, <1>3

\* MapThenSumSet takes one element after the other; the empty set has none.
LEMMA SumStep ==
  ASSUME NEW F, NEW S, IsFiniteSet(S)
  PROVE  SumOf(F, S) = IF S = {} THEN 0 ELSE F[Some(S)] + SumOf(F, S \ {Some(S)})
<1>. DEFINE f == CHOOSE h : Sums(F, S, h)
            T == S \ {Some(S)}
            g == CHOOSE h : Sums(F, T, h)
<1>1. Sums(F, S, f) /\ SumOf(F, S) = f[S]
  BY SumsExist, SumIs
<1>2. IsFiniteSet(T)
  BY FS_RemoveElement
<1>3. Sums(F, T, g) /\ SumOf(F, T) = g[T]
  <2>. HIDE DEF T
  <2>. QED
    BY <1>2, SumsExist, SumIs
<1>4. T \in SUBSET (S \cap T)
  OBVIOUS
<1>5. f[S] = IF S = {} THEN 0 ELSE F[Some(S)] + f[T]
  <2>1. S \in SUBSET S
    OBVIOUS
  <2>. HIDE DEF f
  <2>. QED
    BY <1>1, <2>1, SumsAt
<1>. HIDE DEF f, g, T
<1>6. f[T] = g[T]
  BY <1>1, <1>3, <1>4, SumsAgree
<1>. QED
  BY <1>1, <1>3, <1>5, <1>6 DEF T

LEMMA SumType ==
  ASSUME NEW S, IsFiniteSet(S), NEW F, \A x \in S : F[x] \in Nat
  PROVE  \A X \in SUBSET S : SumOf(F, X) \in Nat
<1>. DEFINE Q == {X \in SUBSET S : SumOf(F, X) \in Nat}
<1>1. ASSUME NEW X \in FiniteSubsetsOf(S), \A Y \in SUBSET X : Y # X => Y \in Q
      PROVE  X \in Q
  <2>1. X \in SUBSET S /\ IsFiniteSet(X)
    BY DEF FiniteSubsetsOf
  <2>2. CASE X = {}
    <3>1. SumOf(F, {}) = 0
      BY SumStep, FS_EmptySet
    <3>. QED
      BY <2>1, <2>2, <3>1
  <2>3. CASE X # {}
    <3>1. Some(X) \in X /\ X \ {Some(X)} \in SUBSET X /\ X \ {Some(X)} # X
      BY <2>3, SomeIn
    <3>2. SumOf(F, X \ {Some(X)}) \in Nat /\ F[Some(X)] \in Nat
      BY <1>1, <2>1, <3>1
    <3>3. SumOf(F, X) = F[Some(X)] + SumOf(F, X \ {Some(X)})
      BY <2>1, <2>3, SumStep
    <3>. QED
      BY <2>1, <3>2, <3>3
  <2>. QED
    BY <2>2, <2>3
<1>2. FiniteSubsetsOf(S) \subseteq Q
  <2>. HIDE DEF Q
  <2>. QED
    BY <1>1, AllSmaller
<1>. QED
  BY <1>2, FS_FiniteSubsetsOfFinite

\* The order does not matter: any element may be taken first.
LEMMA SumRemove ==
  ASSUME NEW S, IsFiniteSet(S), NEW F, \A x \in S : F[x] \in Nat
  PROVE  \A X \in SUBSET S : \A x \in X : SumOf(F, X) = F[x] + SumOf(F, X \ {x})
<1>. DEFINE Q == {X \in SUBSET S : \A x \in X : SumOf(F, X) = F[x] + SumOf(F, X \ {x})}
<1>1. ASSUME NEW X \in FiniteSubsetsOf(S), \A Y \in SUBSET X : Y # X => Y \in Q
      PROVE  X \in Q
  <2>1. X \in SUBSET S /\ IsFiniteSet(X)
    BY DEF FiniteSubsetsOf
  <2>2. ASSUME NEW x \in X
        PROVE  SumOf(F, X) = F[x] + SumOf(F, X \ {x})
    <3>. DEFINE c == Some(X)
                Z == (X \ {c}) \ {x}
    <3>1. c \in X /\ SumOf(F, X) = F[c] + SumOf(F, X \ {c})
      BY <2>1, <2>2, SomeIn, SumStep
    <3>. HIDE DEF c
    <3>2. CASE x = c
      BY <3>1, <3>2
    <3>3. CASE x # c
      <4>1. x \in X \ {c} /\ c \in X \ {x} /\ (X \ {x}) \ {c} = Z
        BY <2>2, <3>1, <3>3
      <4>2. X \ {c} \in Q /\ X \ {x} \in Q
        BY <1>1, <2>2, <3>1
      <4>3. SumOf(F, X \ {c}) = F[x] + SumOf(F, Z) /\ SumOf(F, X \ {x}) = F[c] + SumOf(F, Z)
        BY <4>1, <4>2
      <4>4. F[x] \in Nat /\ F[c] \in Nat
        BY <2>1, <2>2, <3>1
      <4>5. SumOf(F, Z) \in Nat
        BY <2>1, SumType
      <4>. HIDE DEF Z
      <4>. QED
        BY <3>1, <4>3, <4>4, <4>5
    <3>. QED
      BY <3>2, <3>3
  <2>. QED
    BY <2>1, <2>2
<1>2. FiniteSubsetsOf(S) \subseteq Q
  <2>. HIDE DEF Q
  <2>. QED
    BY <1>1, AllSmaller
<1>. QED
  BY <1>2, FS_FiniteSubsetsOfFinite

LEMMA SumSplit ==
  ASSUME NEW S, IsFiniteSet(S), NEW F, \A x \in S : F[x] \in Nat
  PROVE  \A X \in SUBSET S : SumOf(F, S) = SumOf(F, X) + SumOf(F, S \ X)
<1>. DEFINE Q == {X \in SUBSET S : SumOf(F, S) = SumOf(F, X) + SumOf(F, S \ X)}
<1>0. \A X \in SUBSET S : SumOf(F, X) \in Nat
  BY SumType
<1>1. {} \in Q
  <2>1. SumOf(F, {}) = 0
    BY SumStep, FS_EmptySet
  <2>2. S \ {} = S /\ S \in SUBSET S
    OBVIOUS
  <2>. QED
    BY <1>0, <2>1, <2>2
<1>2. ASSUME NEW X \in FiniteSubsetsOf(S), NEW x \in S, X \in Q, x \notin X
      PROVE  X \cup {x} \in Q
  <2>. DEFINE Y == X \cup {x}
  <2>1. X \in SUBSET S /\ Y \in SUBSET S /\ Y \ {x} = X /\ (S \ X) \ {x} = S \ Y /\ x \in S \ X /\ x \in Y
    BY <1>2 DEF FiniteSubsetsOf
  <2>. HIDE DEF Y
  <2>2. SumOf(F, Y) = F[x] + SumOf(F, X)
    BY <2>1, SumRemove
  <2>3. SumOf(F, S \ X) = F[x] + SumOf(F, S \ Y)
    <3>1. S \ X \in SUBSET S
      OBVIOUS
    <3>. QED
      BY <2>1, <3>1, SumRemove
  <2>4. /\ SumOf(F, X) \in Nat /\ SumOf(F, Y) \in Nat /\ SumOf(F, S \ X) \in Nat
        /\ SumOf(F, S \ Y) \in Nat /\ F[x] \in Nat
    BY <1>0, <2>1
  <2>5. SumOf(F, S) = SumOf(F, X) + SumOf(F, S \ X)
    BY <1>2
  <2>6. SumOf(F, S) = SumOf(F, Y) + SumOf(F, S \ Y)
    BY <2>2, <2>3, <2>4, <2>5
  <2>. QED
    BY <2>1, <2>6 DEF Y
<1>3. FiniteSubsetsOf(S) \subseteq Q
  <2>. HIDE DEF Q
  <2>. QED
    BY <1>1, <1>2, OneMore
<1>. QED
  BY <1>3, FS_FiniteSubsetsOfFinite

-----------------------------------------------------------------------------
(* The counted total covers what is stored. *)

Stock == UNION {Stored(r) : r \in Box}

\* A stored mail lies in the box of its recipient, once.
Placed ==
  \A r \in Box : \A id \in DOMAIN box[r] :
    To[box[r][id]] = r /\ pushed[box[r][id]] = "stored"
Once ==
  \A r \in Box : \A i, j \in DOMAIN box[r] : box[r][i] = box[r][j] => i = j

Rest ==
  /\ total \in Nat /\ faults \in Nat
  /\ conn \in [Box -> BOOLEAN] /\ reused \subseteq Mail

Account == Inv /\ Placed /\ Once /\ Rest /\ IsFiniteSet(Stock) /\ TotalRight

LEMMA SizeNat ==
  ASSUME NEW S \in SUBSET Mail, IsFiniteSet(S)
  PROVE  Size(S) \in Nat
<1>1. \A x \in S : Bytes[x] \in Nat
  BY MailboxAssumption
<1>2. SumOf(Bytes, S) \in Nat
  BY <1>1, SumType
<1>. QED
  BY <1>2 DEF Size, SumOf

LEMMA SizeAdd ==
  ASSUME NEW S \in SUBSET Mail, IsFiniteSet(S), NEW m \in Mail \ S
  PROVE  IsFiniteSet(S \cup {m}) /\ Size(S \cup {m}) = Size(S) + Bytes[m]
<1>. DEFINE T == S \cup {m}
<1>1. IsFiniteSet(T) /\ T \in SUBSET Mail /\ m \in T /\ T \ {m} = S
  BY FS_AddElement
<1>2. \A x \in T : Bytes[x] \in Nat
  BY <1>1, MailboxAssumption
<1>. HIDE DEF T
<1>3. SumOf(Bytes, T) = Bytes[m] + SumOf(Bytes, S)
  BY <1>1, <1>2, SumRemove
<1>4. SumOf(Bytes, S) = Size(S) /\ SumOf(Bytes, T) = Size(T)
  BY DEF Size, SumOf
<1>5. Size(S) \in Nat /\ Bytes[m] \in Nat
  BY <1>1, <1>2, SizeNat
<1>. QED
  BY <1>1, <1>3, <1>4, <1>5 DEF T

LEMMA SizeMinus ==
  ASSUME NEW S \in SUBSET Mail, IsFiniteSet(S), NEW T \in SUBSET S
  PROVE  IsFiniteSet(S \ T) /\ Size(T) \in Nat /\ Size(S \ T) \in Nat /\ Size(S) = Size(T) + Size(S \ T)
<1>1. \A x \in S : Bytes[x] \in Nat
  BY MailboxAssumption
<1>2. SumOf(Bytes, S) = SumOf(Bytes, T) + SumOf(Bytes, S \ T)
  BY <1>1, SumSplit
<1>3. SumOf(Bytes, S) = Size(S) /\ SumOf(Bytes, T) = Size(T) /\ SumOf(Bytes, S \ T) = Size(S \ T)
  BY DEF Size, SumOf
<1>4. IsFiniteSet(S \ T) /\ IsFiniteSet(T) /\ T \in SUBSET Mail /\ S \ T \in SUBSET Mail
  BY FS_Subset
<1>5. Size(T) \in Nat /\ Size(S \ T) \in Nat
  BY <1>4, SizeNat
<1>. QED
  BY <1>2, <1>3, <1>4, <1>5

LEMMA InStock ==
  \A m : m \in Stock <=> \E r \in Box : \E id \in DOMAIN box[r] : box[r][id] = m
BY DEF Stock, Stored

LEMMA InitAccount == Init => Account
<1>. SUFFICES ASSUME Init PROVE Account
  OBVIOUS
<1>1. Placed /\ Once
  BY DEF Init, Placed, Once
<1>2. Rest
  BY DEF Init, Rest
<1>3. Stock = {}
  BY InStock DEF Init
<1>4. Size({}) = 0
  <2>1. SumOf(Bytes, {}) = 0
    BY FS_EmptySet, SumStep
  <2>. QED
    BY <2>1 DEF Size, SumOf
<1>5. IsFiniteSet(Stock)
  BY <1>3, FS_EmptySet
<1>6. TotalRight
  <2>1. StoredBytes = 0
    BY <1>3, <1>4 DEF StoredBytes, Stock
  <2>2. total = 0 /\ TotalCap \in Nat
    BY MailboxAssumption DEF Init
  <2>. QED
    BY <2>1, <2>2 DEF TotalRight
<1>. QED
  BY <1>1, <1>2, <1>5, <1>6, InitInv DEF Account

\* A step that changes neither the boxes nor the total.
LEMMA StillAccount ==
  ASSUME Account, Inv', Rest', UNCHANGED <<box, total>>,
         \A m \in Mail : pushed[m] = "stored" => pushed'[m] = "stored",
         faults' = 0 => faults = 0
  PROVE  Account'
<1>1. Placed'
  BY DEF Account, Inv, Numbers, Placed
<1>2. Once'
  BY DEF Account, Once
<1>3. Stock' = Stock /\ StoredBytes' = StoredBytes
  BY DEF Stock, StoredBytes, Stored
<1>4. IsFiniteSet(Stock)' /\ TotalRight'
  BY <1>3 DEF Account, TotalRight
<1>. QED
  BY <1>1, <1>2, <1>4 DEF Account

LEMMA DeliverConn ==
  ASSUME Rest, NEW r, NEW items, NEW waiting, Deliver(r, items, waiting)
  PROVE  conn' \in [Box -> BOOLEAN]
<1>1. conn' = conn \/ conn' = [conn EXCEPT ![r] = FALSE]
  BY DEF Deliver, wires
<1>. QED
  BY <1>1 DEF Rest

LEMMA PushAccount ==
  ASSUME Account, NEW m \in Mail, Push(m)
  PROVE  Account'
<1>. DEFINE r == To[m]
            id == NextSequence(r)
<1>0. /\ Inv /\ Types /\ Numbers /\ Placed /\ Once /\ Rest /\ IsFiniteSet(Stock) /\ TotalRight
      /\ DOMAIN box = Box /\ seqNo \in [Box -> Nat] /\ pushed \in [Mail -> {"new", "stored", "refused"}]
  BY DEF Account, Inv, Types
<1>1. r \in Box /\ Bytes[m] \in Nat /\ TotalCap \in Nat
  BY MailboxAssumption
<1>2. /\ pushed[m] = "new"
      /\ total + Bytes[m] <= TotalCap
      /\ box' = [box EXCEPT ![r] = [i \in DOMAIN @ \cup {id} |-> IF i = id THEN m ELSE @[i]]]
      /\ total' = total + Bytes[m]
      /\ pushed' = [pushed EXCEPT ![m] = "stored"]
      /\ reused' \subseteq reused \cup {m}
      /\ Deliver(r, {<<id, m>>}, up[r])
      /\ faults' = faults
  BY DEF Push, Fits
<1>3. id \notin DOMAIN box[r]
  BY <1>0, <1>1 DEF NextSequence, Numbers
<1>. HIDE DEF id, r
<1>4. /\ DOMAIN box'[r] = DOMAIN box[r] \cup {id} /\ box'[r][id] = m
      /\ \A i \in DOMAIN box[r] : box'[r][i] = box[r][i] /\ i # id
      /\ \A q \in Box : q # r => box'[q] = box[q]
  BY <1>0, <1>1, <1>2, <1>3
<1>5. Stock \in SUBSET Mail /\ m \notin Stock
  <2>1. \A q \in Box : \A i \in DOMAIN box[q] : box[q][i] \in Mail /\ box[q][i] # m
    BY <1>0, <1>2 DEF Numbers, Placed
  <2>. QED
    BY <2>1, InStock
<1>6. Stock' = Stock \cup {m}
  <2>1. ASSUME NEW n PROVE n \in Stock' <=> n \in Stock \cup {m}
    <3>1. n \in Stock' <=> \E q \in Box : \E i \in DOMAIN box'[q] : box'[q][i] = n
      BY DEF Stock, Stored
    <3>2. ASSUME NEW q \in Box, NEW i \in DOMAIN box'[q], box'[q][i] = n
          PROVE  n \in Stock \cup {m}
      BY <1>4, <3>2, InStock
    <3>3. ASSUME NEW q \in Box, NEW i \in DOMAIN box[q], box[q][i] = n
          PROVE  i \in DOMAIN box'[q] /\ box'[q][i] = n
      BY <1>4, <3>3
    <3>4. n = m => \E q \in Box : \E i \in DOMAIN box'[q] : box'[q][i] = n
      BY <1>1, <1>4
    <3>5. n \in Stock => n \in Stock'
      BY <3>1, <3>3, InStock
    <3>. QED
      BY <3>1, <3>2, <3>4, <3>5
  <2>. QED
    BY <2>1
<1>7. IsFiniteSet(Stock') /\ Size(Stock') = Size(Stock) + Bytes[m]
  BY <1>0, <1>5, <1>6, SizeAdd
<1>8. StoredBytes = Size(Stock) /\ StoredBytes' = Size(Stock') /\ Size(Stock) \in Nat
  BY <1>0, <1>5, SizeNat DEF StoredBytes, Stock
<1>9. TotalRight'
  <2>1. total \in Nat
    BY <1>0 DEF Rest
  <2>. QED
    BY <1>0, <1>1, <1>2, <1>7, <1>8, <2>1 DEF TotalRight
<1>10. Rest'
  <2>1. conn' \in [Box -> BOOLEAN]
    BY <1>0, <1>2, DeliverConn
  <2>2. total' \in Nat
    BY <1>0, <1>1, <1>2 DEF Rest
  <2>. QED
    BY <1>0, <1>2, <2>1, <2>2 DEF Rest
<1>11. Placed'
  <2>1. ASSUME NEW q \in Box, NEW i \in DOMAIN box'[q]
        PROVE  To[box'[q][i]] = q /\ pushed'[box'[q][i]] = "stored"
    <3>1. CASE q = r /\ i = id
      BY <1>0, <1>2, <1>4, <3>1 DEF r
    <3>2. CASE ~(q = r /\ i = id)
      <4>1. i \in DOMAIN box[q] /\ box'[q][i] = box[q][i]
        BY <1>4, <2>1, <3>2
      <4>2. box[q][i] \in Mail /\ To[box[q][i]] = q /\ pushed[box[q][i]] = "stored"
        BY <1>0, <4>1 DEF Numbers, Placed
      <4>. QED
        BY <1>0, <1>2, <4>1, <4>2
    <3>. QED
      BY <3>1, <3>2
  <2>. QED
    BY <2>1 DEF Placed
<1>12. Once'
  <2>1. ASSUME NEW q \in Box, NEW i \in DOMAIN box'[q], NEW j \in DOMAIN box'[q], box'[q][i] = box'[q][j]
        PROVE  i = j
    <3>1. \A k \in DOMAIN box[q] : box[q][k] # m
      BY <1>5, InStock
    <3>2. CASE q # r
      BY <1>0, <1>4, <2>1, <3>2 DEF Once
    <3>3. CASE q = r
      <4>1. i \in DOMAIN box[r] \/ i = id
        BY <1>4, <2>1, <3>3
      <4>2. j \in DOMAIN box[r] \/ j = id
        BY <1>4, <2>1, <3>3
      <4>. QED
        BY <1>0, <1>1, <1>4, <2>1, <3>1, <3>3, <4>1, <4>2 DEF Once
    <3>. QED
      BY <3>2, <3>3
  <2>. QED
    BY <2>1 DEF Once
<1>13. IsFiniteSet(Stock)'
  BY <1>7
<1>. QED
  BY <1>0, <1>9, <1>10, <1>11, <1>12, <1>13, PushInv DEF Account

LEMMA RefuseAccount ==
  ASSUME Account, NEW m \in Mail, Refuse(m)
  PROVE  Account'
<1>1. UNCHANGED <<total, faults, conn, reused>>
  BY DEF Refuse, store, wires
<1>2. UNCHANGED <<box, total, faults>> /\ pushed[m] = "new"
  BY DEF Refuse, store
<1>3. \A n \in Mail : pushed[n] = "stored" => pushed'[n] = "stored"
  BY <1>2 DEF Refuse, Account, Inv, Types
<1>4. Inv'
  BY RefuseInv DEF Account
<1>5. Rest'
  BY <1>1 DEF Account, Rest
<1>. QED
  BY <1>2, <1>3, <1>4, <1>5, StillAccount

LEMMA AcknowledgeAccount ==
  ASSUME Account, Inv', NEW r \in Box, NEW ids, Acknowledge(r, ids),
         UNCHANGED <<pushed, conn, reused, faults>>
  PROVE  Account'
<1>. DEFINE left == Left(r, ids)
            gone == {box[r][id] : id \in ids \cap DOMAIN box[r]}
<1>0. /\ Inv /\ Numbers /\ Placed /\ Once /\ Rest /\ IsFiniteSet(Stock) /\ TotalRight
      /\ DOMAIN box = Box
  BY DEF Account, Inv, Types
<1>1. PICK reclaimed \in Reclaims(r, left) :
        box' = [box EXCEPT ![r] = IF reclaimed THEN <<>> ELSE left]
  BY DEF Acknowledge
<1>2. /\ DOMAIN left = DOMAIN box[r] \ ids
      /\ \A i \in DOMAIN left : left[i] = box[r][i]
  BY DEF Left
<1>3. reclaimed \in BOOLEAN /\ (reclaimed => left = <<>>)
  BY <1>1 DEF Reclaims
<1>4. total' = IF total > Size(gone) THEN total - Size(gone) ELSE 0
  BY DEF Acknowledge, Freed
<1>5. /\ gone \in SUBSET Stock /\ Stock \in SUBSET Mail
      /\ \A n : n \in gone <=> \E i \in DOMAIN box[r] : i \in ids /\ box[r][i] = n
  BY <1>0, InStock DEF Numbers
<1>. HIDE DEF left, gone
<1>6. box'[r] = left /\ \A q \in Box : q # r => box'[q] = box[q]
  BY <1>0, <1>1, <1>3
<1>7. ASSUME NEW q \in Box, NEW i \in DOMAIN box'[q]
      PROVE  i \in DOMAIN box[q] /\ box'[q][i] = box[q][i] /\ (q = r => i \notin ids)
  BY <1>2, <1>6, <1>7
<1>8. Stock' = Stock \ gone
  <2>1. ASSUME NEW n \in Stock' PROVE n \in Stock \ gone
    <3>0. PICK q \in Box : \E i \in DOMAIN box'[q] : box'[q][i] = n
      BY <2>1 DEF Stock, Stored
    <3>1. PICK i \in DOMAIN box'[q] : box'[q][i] = n
      BY <3>0
    <3>2. i \in DOMAIN box[q] /\ box[q][i] = n /\ (q = r => i \notin ids)
      BY <1>7, <3>1
    <3>3. n \notin gone
      <4>1. SUFFICES ASSUME NEW j \in DOMAIN box[r], j \in ids, box[r][j] = n
                     PROVE  FALSE
        BY <1>5
      <4>2. q = r
        BY <1>0, <3>2, <4>1 DEF Placed
      <4>. QED
        BY <1>0, <3>2, <4>1, <4>2 DEF Once
    <3>. QED
      BY <3>2, <3>3, InStock
  <2>2. ASSUME NEW n \in Stock, n \notin gone PROVE n \in Stock'
    <3>0. PICK q \in Box : \E i \in DOMAIN box[q] : box[q][i] = n
      BY <2>2, InStock
    <3>1. PICK i \in DOMAIN box[q] : box[q][i] = n
      BY <3>0
    <3>2. i \in DOMAIN box'[q] /\ box'[q][i] = n
      <4>1. CASE q = r
        BY <1>2, <1>5, <1>6, <2>2, <3>1, <4>1
      <4>2. CASE q # r
        BY <1>6, <3>1, <4>2
      <4>. QED
        BY <4>1, <4>2
    <3>. QED
      BY <3>2 DEF Stock, Stored
  <2>. QED
    BY <2>1, <2>2
<1>9. /\ IsFiniteSet(Stock') /\ Size(gone) \in Nat /\ Size(Stock') \in Nat
      /\ Size(Stock) = Size(gone) + Size(Stock')
  BY <1>0, <1>5, <1>8, SizeMinus
<1>10. StoredBytes = Size(Stock) /\ StoredBytes' = Size(Stock')
  BY DEF StoredBytes, Stock
<1>11. TotalRight' /\ total' \in Nat
  <2>1. total \in Nat /\ TotalCap \in Nat /\ faults' = faults
    BY <1>0, MailboxAssumption DEF Rest
  <2>2. Size(Stock) <= total /\ Size(Stock) <= TotalCap /\ (faults = 0 => total = Size(Stock))
    BY <1>0, <1>10 DEF TotalRight
  <2>3. /\ total' \in Nat /\ Size(Stock') <= total' /\ Size(Stock') <= TotalCap
        /\ (faults' = 0 => total' = Size(Stock'))
    BY <1>4, <1>9, <2>1, <2>2
  <2>. QED
    BY <1>10, <2>3 DEF TotalRight
<1>12. Rest'
  BY <1>0, <1>11 DEF Rest
<1>13. Placed'
  BY <1>0, <1>7 DEF Placed
<1>14. Once'
  BY <1>0, <1>7 DEF Once
<1>15. IsFiniteSet(Stock)'
  BY <1>9
<1>. QED
  BY <1>11, <1>12, <1>13, <1>14, <1>15 DEF Account

\* The pages counted at a restart only add to what is stored.
LEMMA RestartAccount ==
  ASSUME Account, Restart
  PROVE  Account'
<1>0. /\ Inv /\ Numbers /\ Placed /\ Once /\ Rest /\ IsFiniteSet(Stock) /\ TotalRight
      /\ DOMAIN box = Box
  BY DEF Account, Inv, Types
<1>1. /\ faults' = faults + 1 /\ conn' = [r \in Box |-> FALSE]
      /\ UNCHANGED <<box, pushed, reused>>
  BY DEF Restart, fate
<1>2. PICK pages \in [Box -> UNION {PageBytes(r) : r \in Box}] :
        (\A r \in Box : pages[r] \in PageBytes(r)) /\ total' = Recount(pages)
  BY DEF Restart, fate
<1>3. Stock \in SUBSET Mail
  BY <1>0, InStock DEF Numbers
<1>4. ASSUME NEW r \in Box PROVE pages[r] \in Nat
  <2>1. Stored(r) \in SUBSET Stock
    BY DEF Stock
  <2>2. Size(Stored(r)) \in Nat
    BY <1>0, <1>3, <2>1, SizeMinus
  <2>. QED
    BY <1>2, <2>2, MailboxAssumption DEF PageBytes
<1>5. SumOf(pages, Box) \in Nat
  BY <1>4, MailboxAssumption, SumType
<1>6. Recount(pages) = StoredBytes + SumOf(pages, Box)
  BY DEF Recount, SumOf
<1>7. StoredBytes = Size(Stock) /\ Size(Stock) \in Nat
  BY <1>0, <1>3, SizeNat DEF StoredBytes, Stock
<1>8. Stock' = Stock /\ StoredBytes' = StoredBytes
  BY <1>1 DEF Stock, StoredBytes, Stored
<1>9. total' \in Nat /\ StoredBytes <= total'
  BY <1>2, <1>5, <1>6, <1>7
<1>10. TotalRight'
  <2>1. faults' # 0
    BY <1>0, <1>1 DEF Rest
  <2>. QED
    BY <1>0, <1>8, <1>9, <2>1 DEF TotalRight
<1>11. Rest'
  BY <1>0, <1>1, <1>9 DEF Rest
<1>12. Placed' /\ Once' /\ IsFiniteSet(Stock)'
  BY <1>0, <1>1, <1>8 DEF Placed, Once
<1>. QED
  BY <1>0, <1>10, <1>11, <1>12, RestartInv DEF Account

LEMMA StepAccount == Account /\ [Next]_vars => Account'
<1>. SUFFICES ASSUME Account, [Next]_vars PROVE Account'
  OBVIOUS
<1>0. Inv /\ Rest /\ Inv'
  BY StepInv DEF Account
<1>1. CASE \E m \in Mail : Push(m) \/ Refuse(m)
  BY <1>1, PushAccount, RefuseAccount
<1>2. ASSUME NEW r \in Box, HandleFetch(r) PROVE Account'
  <2>1. conn' \in [Box -> BOOLEAN]
    BY <1>0, <1>2, DeliverConn DEF HandleFetch
  <2>2. UNCHANGED <<box, total, pushed, faults, reused>>
    BY <1>2 DEF HandleFetch, store
  <2>. QED
    BY <1>0, <2>1, <2>2, StillAccount DEF Rest
<1>3. ASSUME NEW r \in Box, HandleAck(r) PROVE Account'
  <2>1. UNCHANGED <<pushed, conn, reused, faults>> /\ Acknowledge(r, Head(up[r]).ids)
    BY <1>3 DEF HandleAck
  <2>. QED
    BY <1>0, <2>1, AcknowledgeAccount
<1>4. ASSUME NEW r \in Box, HandleLate(r) PROVE Account'
  <2>1. UNCHANGED <<pushed, conn, reused, faults>>
    BY <1>4 DEF HandleLate
  <2>2. CASE Acknowledge(r, Head(late[r]).ids)
    BY <1>0, <2>1, <2>2, AcknowledgeAccount
  <2>3. CASE UNCHANGED store
    BY <1>0, <2>1, <2>3, StillAccount DEF Rest, store
  <2>. QED
    BY <1>4, <2>2, <2>3 DEF HandleLate
<1>5. ASSUME NEW r \in Box, ClientStep(r) PROVE Account'
  <2>1. UNCHANGED <<box, total, pushed, faults, reused>>
    BY <1>5 DEF ClientStep, Connect, Poll, TakeFrame, store
  <2>2. conn' = conn \/ conn' = [conn EXCEPT ![r] = TRUE]
    BY <1>5 DEF ClientStep, Connect, Poll, TakeFrame
  <2>. QED
    BY <1>0, <2>1, <2>2, StillAccount DEF Rest
<1>6. ASSUME NEW r \in Box, Break(r) PROVE Account'
  <2>1. UNCHANGED <<box, total, pushed, reused>> /\ faults' = faults + 1
        /\ conn' = [conn EXCEPT ![r] = FALSE]
    BY <1>6 DEF Break, store
  <2>2. Rest' /\ faults' # 0
    BY <1>0, <2>1 DEF Rest
  <2>. QED
    BY <1>0, <2>1, <2>2, StillAccount
<1>7. CASE Restart
  BY <1>7, RestartAccount
<1>8. CASE UNCHANGED vars
  BY <1>0, <1>8, StillAccount DEF vars, store, wires, Rest
<1>. QED
  BY <1>1, <1>2, <1>3, <1>4, <1>5, <1>6, <1>7, <1>8 DEF Next, ServerStep

\* Every variable keeps its type: in particular, no number is above the sequence of its
\* bucket, and what is on the wires are pages of items and frames of numbers.
THEOREM TypeCorrect == Spec => []TypeOK
<1>1. Account => TypeOK
  <2>. SUFFICES ASSUME Account PROVE TypeOK
    OBVIOUS
  <2>1. Types /\ Numbers /\ Rest
    BY DEF Account, Inv
  <2>2. \A r \in Box : /\ DOMAIN box[r] \subseteq 1 .. seqNo[r]
                      /\ \A id \in DOMAIN box[r] : box[r][id] \in Mail
    BY <2>1 DEF Numbers
  <2>. QED
    BY <2>1, <2>2 DEF Types, Items, Rest, TypeOK
<1>. QED
  BY InitAccount, StepAccount, <1>1, PTL DEF Spec

\* The counted total covers what is stored, and what is stored fits under the cap,
\* whatever is acknowledged again or late and however often the server counts anew; before
\* the first fault the total is exact.  (Push, Ack, recountTotal)
THEOREM TotalIsRight == Spec => []TotalRight
<1>1. Account => TotalRight
  BY DEF Account
<1>. QED
  BY InitAccount, StepAccount, <1>1, PTL DEF Spec

=============================================================================
